SPECIFICATION PermSpec
CONSTANTS
    Users = {a1, u1}
    Boxes = {b1}
    Admins = {a1}
    Requests = {r1}
    Edits = {e1}
    Dials = {d1}
    MaxSecret = 2
    None = None
CHECK_DEADLOCK FALSE
INVARIANTS PermTypeOK RightsAsAsked NoOrphans
