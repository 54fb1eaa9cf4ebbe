SPECIFICATION NotifySpec
CONSTANTS
    Calls = {i1}
    Accepts = {a1}
    Devices = {d1}
    Phones = {d1}
    MaxConnects = 2
INVARIANTS NotifyTypeOK RingReachesAll EndReachesAll
PROPERTIES NeverListedAgain
CHECK_DEADLOCK FALSE
