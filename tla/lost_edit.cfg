SPECIFICATION PermSpec
CONSTANTS
    Users = {a1, u1}
    Boxes = {b1}
    Admins = {a1}
    Requests = {}
    Edits = {e1, e2}
    Dials = {}
    MaxSecret = 2
    None = None
CHECK_DEADLOCK FALSE
PROPERTIES EmptyKeepsPassword
