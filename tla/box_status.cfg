SPECIFICATION BoxStatusSpec
CONSTANTS
    Boxes = {b1}
    Clients = {c1}
    Fetches = {f1}
    Orderly = {c1}
    MaxChange = 2
    None = None
    Gone = Gone
CHECK_DEADLOCK FALSE
INVARIANTS
    BoxStatusTypeOK
    ShowsAnnounced
PROPERTIES
    PollCatchesUp
    AnnouncedIsShown
