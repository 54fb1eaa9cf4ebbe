SPECIFICATION RegSafety
CONSTANTS
    Boxes = {1}
    Registers = {r1}
    Calls = {k1}
    r1 = r1
    r2 = r2
    a1 = a1
    a2 = a2
    udp = udp
    tcp = tcp
    Hosts = {a1, a2}
    Transports = {udp, tcp}
    NoHost = NoHost
    Sent <- OnlyBare
    Lifetimes = {0, 2}
    NonceLife = 1
    MaxTime = 3
    MaxChange = 1
    MaxNonces = 1
    None = None
CHECK_DEADLOCK FALSE
INVARIANT OfflineNotDialled
