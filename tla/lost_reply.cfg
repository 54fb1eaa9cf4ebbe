SPECIFICATION DevicesSpec
CONSTANTS
    Users = {u1}
    Devices = {d1}
    Paths = {p1}
    Controllers = {}
    Steady = {}
    MaxPassword = 0
    MaxToken = 2
    NoToken = NoToken
INVARIANTS RetryFindsToken
CHECK_DEADLOCK FALSE
