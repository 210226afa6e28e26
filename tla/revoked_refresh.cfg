\* A Refresh races with a Logout of its token.
SPECIFICATION Spec
CONSTANTS
    c1 = c1
    c2 = c2
    ann = ann
    ANN = ANN
    right = right
    None = None
    Callers = {c1, c2}
    Spellings = {ann}
    Addresses = {ann}
    Address <- OneAddress
    Passwords = {right}
    InitUsers <- OneUser
    NewRoles = {}
    MaxUsers = 1
    MaxTokens = 2
    MaxTime = 0
    AccessLifetime = 1
    RefreshLifetime = 1
    Calls = {"Login", "Refresh", "Logout"}
PROPERTIES
    NoRefreshAfterRevocation
