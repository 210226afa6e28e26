\* Orders of two users over one unit of stock.
SPECIFICATION HttpSpec
CONSTANTS
    r1 = r1
    r2 = r2
    Requests = {r1, r2}
    Users = {alice, bob}
    MaxProducts = 1
    MaxOrders = 2
    Quantities = {1}
    Prices = {1}
    Stocks = {1}
    NewStatuses <- Statuses
    Currencies = {"EUR"}
    InitProducts <- OneUnit
    Enabled <- OrderRoutes
    None = None
    NoRow = NoRow
SYMMETRY RequestSymmetry
INVARIANTS
    TypeOK
    ClaimsHold
    PaidOrderIsTheChargedOne
    ChargedOrdersGetPaid
    NoSecondCharge
PROPERTIES
    StockFollowsOrders
    RefinesLifecycle
    RefinesAtomicShop
    RefusalsAreTrue
    PaymentAnswersAreTrue
