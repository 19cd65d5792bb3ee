--------------------------- MODULE MCShardLeadership ---------------------------
\* Scenarios for TLC: each bounds some of the faults so that the others can interleave
\* freely.
EXTENDS ShardLeadership

CONSTANTS serverA, serverB

\* A server leads twice while its leaderCheck runs and its callbacks are late.
ReelectedWithChecks ==
    [terms |-> <<serverA, serverA>>, crashes |-> 0, failures |-> 0, changes |-> 0,
     gateway |-> FALSE, late |-> TRUE, checkers |-> {serverA}]

\* Loads, flushes and every attempt to stop a store may fail.
FailingApiServer ==
    [terms |-> <<serverA>>, crashes |-> 0, failures |-> StopTries, changes |-> 0,
     gateway |-> FALSE, late |-> TRUE, checkers |-> {serverA}]

\* The lead moves to another server while the gateway updates its quota.
Handover ==
    [terms |-> <<serverA, serverB>>, crashes |-> 0, failures |-> 0, changes |-> 1,
     gateway |-> TRUE, late |-> FALSE, checkers |-> {}]

\* The leader crashes and leads again.
CrashOfLeader ==
    [terms |-> <<serverA, serverA>>, crashes |-> 1, failures |-> 0, changes |-> 1,
     gateway |-> TRUE, late |-> FALSE, checkers |-> {}]

Scenarios == {ReelectedWithChecks, FailingApiServer, Handover, CrashOfLeader}
=============================================================================
