CONSTANTS
    serverA = serverA
    serverB = serverB
    Servers = {serverA, serverB}
    Quotas = {1, 2}
    Stores = {store1, store2, store3}
    None = None
    StopTries = 2
    Budgets <- Scenarios
SPECIFICATION Spec
INVARIANTS LeadTypeOK NoLeakedStore
PROPERTIES LeaderServes NonLeaderStops QuotaAgrees
CHECK_DEADLOCK FALSE
