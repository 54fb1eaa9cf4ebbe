SPECIFICATION RegSpec
CONSTANTS
    Boxes = {1}
    Registers = {r1, r2}
    Calls = {k1}
    r1 = r1
    r2 = r2
    a1 = a1
    a2 = a2
    udp = udp
    tcp = tcp
    Hosts = {a1, a2}
    Transports = {udp, tcp}
    NoHost = NoHost
    Sent <- BareAndNamed
    Lifetimes = {0, 1}
    NonceLife = 0
    MaxTime = 1
    MaxChange = 1
    MaxNonces = 1
    None = None
CHECK_DEADLOCK FALSE
INVARIANTS
    RegTypeOK
    OnlyProven
    RowsHaveBoxes
    RegisteredStays
PROPERTIES
    CleanupSparesActive
    ExpiredGoes
