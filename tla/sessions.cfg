SPECIFICATION DevicesSpec
CONSTANTS
    Users = {u1}
    Devices = {d1, d2}
    Paths = {p1, p2}
    Controllers = {p2}
    Steady = {d1}
    MaxPassword = 1
    MaxToken = 3
    NoToken = NoToken
INVARIANTS DevicesTypeOK InStep DeletedStayOut
PROPERTIES RevokedForGood
CHECK_DEADLOCK FALSE
