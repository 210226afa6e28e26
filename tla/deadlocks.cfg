\* Requests that lock two products each wait for each other, and end.
SPECIFICATION LiveSpec
CONSTANTS
    r1 = r1
    r2 = r2
    Requests = {r1, r2}
    Users = {alice}
    MaxProducts = 2
    MaxOrders = 1
    Quantities = {1}
    Prices = {1}
    Stocks = {1}
    NewStatuses = {}
    Currencies = {"EUR"}
    InitProducts <- Plenty
    Enabled <- Locking
    None = None
    NoRow = NoRow
INVARIANTS
    DeadlockNeedsCancel
PROPERTIES
    Termination
