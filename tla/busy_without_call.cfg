SPECIFICATION Safety
CONSTANTS
    Users = {u1}
    Sessions = {s1}
    Invites = {}
    Failing = {}
    Dialers = {u1}
    Decliners = {}
    NoUser = NoUser
    NoSession = NoSession
    NoDialog = NoDialog
INVARIANTS BusyMeansActive
