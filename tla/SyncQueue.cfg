\* Two workers and three items; handlers fail, requeue with and without a limit.
CONSTANTS
    Items = {i1, i2, i3}
    Workers = {w1, w2}
    MaxErrRetries = 1
    MaxTimes = {0, 1}
    NoItem = NoItem
SPECIFICATION FairQueueSpec
INVARIANTS QueueTypeOK NoConcurrentHandler NeverLost RetriesBounded
PROPERTIES EventuallyHandled KeepsContract
CHECK_DEADLOCK FALSE
