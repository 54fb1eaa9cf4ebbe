SPECIFICATION SignalSafety
CONSTANTS
    u1 = u1
    u2 = u2
    c1 = c1
    c2 = c2
    c3 = c3
    Users = {u1}
    Conns = {c1, c2}
    Owner <- Twice
    Answering = {}
    Sessions = {s1}
    NoUser = NoUser
    NoSession = NoSession
    NoConn = NoConn
INVARIANTS RecoveredIsLive
