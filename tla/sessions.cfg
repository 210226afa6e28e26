\* Two callers make every call, with two spellings of one address, while an
\* operator makes its account an administrator's.
SPECIFICATION Spec
CONSTANTS
    c1 = c1
    c2 = c2
    ann = ann
    ANN = ANN
    right = right
    None = None
    Callers = {c1, c2}
    Spellings = {ann, ANN}
    Addresses = {ann}
    Address <- TwoSpellings
    Passwords = {right}
    InitUsers <- Nobody
    NewRoles = {"admin"}
    MaxUsers = 2
    MaxTokens = 2
    MaxTime = 2
    AccessLifetime = 1
    RefreshLifetime = 2
    Calls = {"Register", "Login", "Refresh", "Logout", "Admin", "ChangeRole"}
SYMMETRY Symmetry
VIEW View
INVARIANTS
    OneAccountPerAddress
    RotationRevokes
    ClosedTokensStayClosed
    StaleRolesExpire
PROPERTIES
    RefusalsAreTrue
