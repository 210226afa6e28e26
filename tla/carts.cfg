\* Two requests of one user on the same cart, over products that are deleted.
SPECIFICATION HttpSpec
CONSTANTS
    r1 = r1
    r2 = r2
    Requests = {r1, r2}
    Users = {alice}
    MaxProducts = 2
    MaxOrders = 2
    Quantities = {1}
    Prices = {1}
    Stocks = {1}
    NewStatuses = {}
    Currencies = {"EUR"}
    InitProducts <- TwoProducts
    Enabled <- CartRoutes
    None = None
    NoRow = NoRow
SYMMETRY RequestSymmetry
INVARIANTS
    OneLinePerProduct
    OneDraftPerUser
    TotalsMatchLines
    AnswersAreDocumented
PROPERTIES
    PlacedOrdersAreFixed
    RefinesAtomicShop
    RefusalsAreTrue
