SPECIFICATION SignalSpec
CONSTANTS
    u1 = u1
    u2 = u2
    c1 = c1
    c2 = c2
    c3 = c3
    Users = {u1, u2}
    Conns = {c1, c2, c3}
    Owner <- TwiceAndOne
    Answering = {c1, c2}
    Sessions = {s1, s2}
    NoUser = NoUser
    NoSession = NoSession
    NoConn = NoConn
INVARIANTS SignalTypeOK CurrentIsOwn SoloOneCall
PROPERTIES CommandReturns
