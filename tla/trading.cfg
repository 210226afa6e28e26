\* Products are made, overwritten and deleted while they are sold.
SPECIFICATION Spec
CONSTANTS
    r1 = r1
    r2 = r2
    Requests = {r1, r2}
    Users = {alice}
    MaxProducts = 2
    MaxOrders = 1
    Quantities = {1}
    Prices = {2}
    Stocks = {1}
    NewStatuses = {"cancelled"}
    Currencies = {"EUR", "USD"}
    InitProducts <- OneOfTwo
    Enabled <- Trading
    None = None
    NoRow = NoRow
SYMMETRY RequestSymmetry
INVARIANTS
    LinesHaveProducts
    RepliesAreConsistent
PROPERTIES
    StockFollowsOrders
    SoldAtCurrentPrice
