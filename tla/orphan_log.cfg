SPECIFICATION PermSpec
CONSTANTS
    Users = {a1, u1}
    Boxes = {b1}
    Admins = {a1}
    Requests = {}
    Edits = {}
    Dials = {d1}
    MaxSecret = 1
    None = None
CHECK_DEADLOCK FALSE
INVARIANTS LogsGoWithUser
