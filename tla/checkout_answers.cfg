\* Checkout finds that a price is in another currency now.
SPECIFICATION HttpSpec
CONSTANTS
    r1 = r1
    r2 = r2
    Requests = {r1, r2}
    Users = {alice}
    MaxProducts = 2
    MaxOrders = 1
    Quantities = {1}
    Prices = {1}
    Stocks = {1}
    NewStatuses = {}
    Currencies = {"EUR", "USD"}
    InitProducts <- TwoProducts
    Enabled <- CheckoutRoutes
    None = None
    NoRow = NoRow
SYMMETRY RequestSymmetry
INVARIANTS
    CheckoutIsDocumented
