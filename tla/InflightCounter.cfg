CONSTANTS
    Limit = 2
    LocalMax = 1
    Requests = 2
    Calls = 2
    Lost = 1
SPECIFICATION Spec
INVARIANTS CounterTypeOK FallbackServes
PROPERTIES CountAgrees LimitAgrees
