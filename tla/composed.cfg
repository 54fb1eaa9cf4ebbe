SPECIFICATION Composed
CONSTANTS
    Users = {u1}
    Failing = {}
    Dialers = {}
    Decliners = {}
    Sessions = {s1}
    Invites = {i1}
    NoUser = NoUser
    NoSession = NoSession
    NoDialog = NoDialog
    Devices = {d1}
    Phones = {}
    MaxConnects = 1
INVARIANTS NoRingLost NoEndLost
PROPERTIES ImplementsNotify NoStaleList
CHECK_DEADLOCK FALSE
