\* One server and one request.  The code resets a transport after 3 hung checks in a
\* row; here after the first, so that a reset happens within the bounds.
SPECIFICATION FairSpec
CONSTANTS
    Endpoints = {e1}
    Objects = {o1}
    Nil = Nil
    Requests = {q1}
    MaxInflight = 1
    ResetTransportThreshold = 1
    MaxGen = 2
    MaxResets = 1
INVARIANTS EpTypeOK OneHealthCheck TokensBalanced
PROPERTIES ReadyEventually UnreadyEventually 
CHECK_DEADLOCK FALSE
