SPECIFICATION PagesSpec
CONSTANTS
    PageSize = 2
    MaxCalls = 6
CHECK_DEADLOCK FALSE
INVARIANTS NoGap
PROPERTIES GetReturns
