SPECIFICATION DevicesSpec
CONSTANTS
    Users = {u1}
    Devices = {d1}
    Paths = {p1, p2}
    Controllers = {p2}
    Steady = {}
    MaxPassword = 0
    MaxToken = 3
    NoToken = NoToken
INVARIANTS RefusedMeansEnded
CHECK_DEADLOCK FALSE
