SPECIFICATION DevicesSpec
CONSTANTS
    Users = {u1}
    Devices = {d1}
    Paths = {p1, p2}
    Controllers = {p2}
    Steady = {}
    MaxPassword = 0
    MaxToken = 2
    NoToken = NoToken
PROPERTIES LoggedOutStays
CHECK_DEADLOCK FALSE
