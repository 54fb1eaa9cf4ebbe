SPECIFICATION Spec
CONSTANTS
    Users = {u1, u2}
    Sessions = {s1}
    Invites = {i1}
    Failing = {"INSERT"}
    Dialers = {u1}
    Decliners = {u1, u2}
    NoUser = NoUser
    NoSession = NoSession
    NoDialog = NoDialog
PROPERTIES KeepsPromise KeepsLifecycle
