SPECIFICATION SignalSafety
CONSTANTS
    u1 = u1
    u2 = u2
    c1 = c1
    c2 = c2
    c3 = c3
    Users = {u1}
    Conns = {c1}
    Owner <- Alone
    Answering = {c1}
    Sessions = {s1, s2}
    NoUser = NoUser
    NoSession = NoSession
    NoConn = NoConn
INVARIANTS OriginHoldsCall
