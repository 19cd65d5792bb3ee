\* Two gateways and totals of at most 8; two rate limiter servers; two acquire calls at
\* the same time and reserves of at most 2; rules with one field other than "*".
CONSTANTS
    g1 = g1
    g2 = g2
    Gateways = {g1, g2}
    Absent = Absent
    Servers = {r1, r2}
    Unknown = Unknown
    Slots = {1, 2}
    NoCall = NoCall
SPECIFICATION PartsSpec
INVARIANTS  NormalizationKeepsRouting 
PROPERTIES  IdleRecovers ClientForgotten ClientRestored LeaderFollowed DeadLeaderNoticed
    TokensRefill
CHECK_DEADLOCK FALSE
