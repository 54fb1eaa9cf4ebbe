SPECIFICATION NotifySpec
CONSTANTS
    Calls = {i1}
    Accepts = {a1, a2}
    Devices = {d1}
    Phones = {}
    MaxConnects = 2
INVARIANTS NotifyTypeOK RingReachesAll EndReachesAll
PROPERTIES NeverListedAgain
CHECK_DEADLOCK FALSE
