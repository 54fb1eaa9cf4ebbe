SPECIFICATION Safety
CONSTANTS
    Users = {u1}
    Sessions = {s1, s2}
    Invites = {i1}
    Failing = {"UPDATE"}
    Dialers = {u1}
    Decliners = {u1}
    NoUser = NoUser
    NoSession = NoSession
    NoDialog = NoDialog
SYMMETRY AnySession
INVARIANTS TypeOK RegistryCoherent StoppedOnce NoSilentDrop NoTimeoutOnceClaimed CallLogSettled
PROPERTIES ConnectedNotRejected
