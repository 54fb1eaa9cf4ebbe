SPECIFICATION NotifySpec
CONSTANTS
    Calls = {i1}
    Accepts = {a1}
    Devices = {d1}
    Phones = {d1}
    MaxConnects = 1
INVARIANTS PushSurvivesSync
CHECK_DEADLOCK FALSE
