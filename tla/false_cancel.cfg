SPECIFICATION Safety
CONSTANTS
    Users = {u1}
    Sessions = {s1}
    Invites = {i1}
    Failing = {}
    Dialers = {}
    Decliners = {u1}
    NoUser = NoUser
    NoSession = NoSession
    NoDialog = NoDialog
INVARIANTS NoFalseRemoteCancel
