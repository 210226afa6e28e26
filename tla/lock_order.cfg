\* CancelOrder does not lock products in the order of their ids.
SPECIFICATION Spec
CONSTANTS
    r1 = r1
    r2 = r2
    Requests = {r1, r2}
    Users = {alice}
    MaxProducts = 2
    MaxOrders = 1
    Quantities = {1}
    Prices = {1}
    Stocks = {1}
    NewStatuses = {}
    Currencies = {"EUR"}
    InitProducts <- Plenty
    Enabled <- Ordering
    None = None
    NoRow = NoRow
SYMMETRY RequestSymmetry
PROPERTIES
    ProductLocksAscending
