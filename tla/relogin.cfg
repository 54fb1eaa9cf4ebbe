SPECIFICATION DevicesSpec
CONSTANTS
    Users = {u1}
    Devices = {d1}
    Paths = {p1}
    Controllers = {}
    Steady = {d1}
    MaxPassword = 1
    MaxToken = 2
    NoToken = NoToken
INVARIANTS ChangeMeansRelogin
CHECK_DEADLOCK FALSE
