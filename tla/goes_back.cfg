SPECIFICATION BoxStatusSpec
CONSTANTS
    Boxes = {b1}
    Clients = {c1}
    Fetches = {f1, f2}
    Orderly = {}
    MaxChange = 2
    None = None
    Gone = Gone
CHECK_DEADLOCK FALSE
PROPERTY NeverGoesBack
