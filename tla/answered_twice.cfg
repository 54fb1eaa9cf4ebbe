SPECIFICATION Safety
CONSTANTS
    Users = {u1, u2}
    Sessions = {s1, s2}
    Invites = {i1}
    Failing = {}
    Dialers = {}
    Decliners = {}
    NoUser = NoUser
    NoSession = NoSession
    NoDialog = NoDialog
INVARIANTS AnsweredOnce
