--------------------------- MODULE ServerDiscovery ---------------------------
(***************************************************************************)
(* How a gateway finds the rate limiter server that leads a shard and      *)
(* whether it takes that server for ready (clientSets).  Three loops share *)
(* its maps: sync asks any server who leads the shard, clientHeart sends   *)
(* heartbeats to the leader, cleanup drops cached clients.  A client that  *)
(* is not cached gets no heartbeats until someone creates it again.        *)
(*                                                                         *)
(* One shard.  The maps are sync.Maps; the unsynchronised fields of a      *)
(* heartbeatStatus are written as a whole.                                 *)
(***************************************************************************)
EXTENDS Naturals

CONSTANTS
    Servers,        \* rate limiter servers
    Unknown         \* no server, no answer

VARIABLES
    running,        \* the servers that run
    leader,         \* the server that holds the shard's lease, or held it last
    known,          \* the leader that each server knows (GetLeaders)
    leaderEndpoint, \* leaderEndpoints[shard]
    leaderReady,    \* leaderReady[shard], or Unknown
    clientsCache,   \* servers with a cached client
    expired,        \* cached clients that no sync has refreshed for ClientCacheTTL
    syncing,        \* the leader in the answer that sync has got, and whether it has one
    beating,        \* the server that the current heartbeat goes to
    faults          \* the scenario: its servers, and the elections, crashes, lost calls and
                    \* cleanups that may still happen

gatewayVars == <<leaderEndpoint, leaderReady, clientsCache, expired, syncing, beating>>
discoveryVars == <<running, leader, known, gatewayVars, faults>>

DiscoveryInit(scenarios) ==
    /\ faults \in scenarios
    /\ running = faults.servers
    /\ leader = Unknown
    /\ known = [s \in Servers |-> Unknown]
    /\ leaderEndpoint = Unknown
    /\ leaderReady = Unknown
    /\ clientsCache = {}
    /\ expired = {}
    /\ syncing = [busy |-> FALSE, answer |-> Unknown]
    /\ beating = Unknown

Meets(what) == faults[what] > 0 /\ faults' = [faults EXCEPT ![what] = @ - 1]

-----------------------------------------------------------------------------
(* The servers: external to the gateway *)

Elect(s) ==
    /\ s \in running
    /\ s # leader
    /\ Meets("elections")
    /\ leader' = s
    /\ known' = [known EXCEPT ![s] = s]
    /\ UNCHANGED <<running, gatewayVars>>

\* OnNewLeader on the other servers
Learn(s) ==
    /\ s \in running
    /\ known[s] # leader
    /\ known' = [known EXCEPT ![s] = leader]
    /\ UNCHANGED <<running, leader, gatewayVars, faults>>

Crash(s) ==
    /\ s \in running
    /\ Meets("crashes")
    /\ running' = running \ {s}
    /\ UNCHANGED <<leader, known, gatewayVars>>

-----------------------------------------------------------------------------
(* The status of the leader *)

SetLeaderStatusRestarts(ready) ==
    LET hs == IF leaderReady = Unknown
              THEN [lastState |-> FALSE, overdue |-> TRUE, ready |-> FALSE] ELSE leaderReady
        status == [hs EXCEPT !.lastState = ready, !.overdue = FALSE]
    IN  [status EXCEPT !.ready = ready \/ (@ /\ ~status.overdue)]

\* setLeaderStatus: a server is ready at once, and no longer ready when it has failed for
\* ServerHeartBeatTimeout (overdue: the last change of state is that long ago).
SetLeaderStatus(ready) ==
    LET hs == IF leaderReady = Unknown
              THEN [lastState |-> FALSE, overdue |-> TRUE, ready |-> FALSE] ELSE leaderReady
        status == IF hs.lastState # ready
                  THEN [hs EXCEPT !.lastState = ready, !.overdue = FALSE] ELSE hs
    IN  [status EXCEPT !.ready = ready \/ (@ /\ ~status.overdue)]

\* IsReady
IsReady == leaderReady # Unknown /\ leaderReady.ready

StatusAges ==
    /\ leaderReady # Unknown
    /\ ~leaderReady.overdue
    /\ leaderReady' = [leaderReady EXCEPT !.overdue = TRUE]
    /\ UNCHANGED <<running, leader, known, leaderEndpoint, clientsCache, expired, syncing,
                   beating, faults>>

-----------------------------------------------------------------------------
(* sync, every SyncPeriod *)

\* A client for the server that lookupFunc has found is cached before the server is asked.
SyncAsks(s) ==
    /\ ~syncing.busy
    /\ clientsCache' = clientsCache \union {s}
    /\ \/ /\ s \in running
          /\ syncing' = [busy |-> TRUE, answer |-> known[s]]
          /\ UNCHANGED faults
       \/ s \notin running /\ UNCHANGED <<syncing, faults>>
       \/ s \in running /\ Meets("losses") /\ UNCHANGED syncing
    /\ UNCHANGED <<running, leader, known, leaderEndpoint, leaderReady, expired, beating>>

SyncEndsOnce ==
    LET l == syncing.answer
    IN  /\ syncing.busy
        /\ syncing' = [busy |-> FALSE, answer |-> Unknown]
        /\ IF l # Unknown /\ leaderEndpoint = Unknown
           THEN leaderEndpoint' = l /\ leaderReady' = SetLeaderStatus(TRUE)
           ELSE UNCHANGED <<leaderEndpoint, leaderReady>>
        /\ clientsCache' = clientsCache \union ({l} \ {Unknown})
        /\ expired' = {}
        /\ UNCHANGED <<running, leader, known, beating, faults>>

\* A new leader is taken for ready; every cached client's expiry is put off.
SyncEnds ==
    LET l == syncing.answer
    IN  /\ syncing.busy
        /\ syncing' = [busy |-> FALSE, answer |-> Unknown]
        /\ IF l \notin {Unknown, leaderEndpoint}
           THEN leaderEndpoint' = l /\ leaderReady' = SetLeaderStatus(TRUE)
           ELSE UNCHANGED <<leaderEndpoint, leaderReady>>
        /\ clientsCache' = clientsCache \union ({l} \ {Unknown})
        /\ expired' = {}
        /\ UNCHANGED <<running, leader, known, beating, faults>>

-----------------------------------------------------------------------------
(* The other users of the cache *)

\* ClientFor, called by reconcile and doAcquire
ClientFor ==
    /\ leaderEndpoint \notin clientsCache \union {Unknown}
    /\ clientsCache' = clientsCache \union {leaderEndpoint}
    /\ UNCHANGED <<running, leader, known, leaderEndpoint, leaderReady, expired, syncing,
                   beating, faults>>

ClientAges(s) ==
    /\ s \in clientsCache \ expired
    /\ expired' = expired \union {s}
    /\ UNCHANGED <<running, leader, known, leaderEndpoint, leaderReady, clientsCache, syncing,
                   beating, faults>>

\* cleanup, every ClientCacheTTL: the test is the wrong way round, so that it drops the
\* clients that have not expired.
CleanupClients ==
    /\ Meets("cleanups")
    /\ clientsCache' = clientsCache \intersect expired
    /\ UNCHANGED <<running, leader, known, leaderEndpoint, leaderReady, expired, syncing, beating>>

\* clientHeart, every ServerHeartBeatInterval: only a cached leader gets a heartbeat.
HeartSends ==
    /\ beating = Unknown
    /\ leaderEndpoint \in clientsCache
    /\ beating' = leaderEndpoint
    /\ UNCHANGED <<running, leader, known, leaderEndpoint, leaderReady, clientsCache, expired,
                   syncing, faults>>

\* The answer or the request timeout; the shard's leader may be another by now.
HeartEnds ==
    /\ beating # Unknown
    /\ beating' = Unknown
    /\ \/ beating \in running /\ leaderReady' = SetLeaderStatus(TRUE) /\ UNCHANGED faults
       \/ beating \notin running /\ leaderReady' = SetLeaderStatus(FALSE) /\ UNCHANGED faults
       \/ beating \in running /\ Meets("losses") /\ leaderReady' = SetLeaderStatus(FALSE)
    /\ UNCHANGED <<running, leader, known, leaderEndpoint, clientsCache, expired, syncing>>

-----------------------------------------------------------------------------
DiscoveryNext ==
    \/ \E s \in Servers : Elect(s) \/ Learn(s) \/ Crash(s) \/ SyncAsks(s) \/ ClientAges(s)
    \/ SyncEnds \/ ClientFor \/ CleanupClients \/ HeartSends \/ HeartEnds \/ StatusAges

\* The loops run by timers; sync picks a server at random, so no running one is left out for
\* ever. Heartbeats are far more frequent than cleanups. Nothing obliges sync to ask a dead
\* server or an entry to expire.
DiscoveryFairness ==
    /\ \A s \in Servers :
         /\ WF_discoveryVars(Learn(s))
         /\ SF_discoveryVars(s \in running /\ SyncAsks(s))
    /\ WF_discoveryVars(SyncEnds)
    /\ WF_discoveryVars(ClientFor)
    /\ SF_discoveryVars(HeartSends)
    /\ WF_discoveryVars(HeartEnds)
    /\ WF_discoveryVars(StatusAges)

-----------------------------------------------------------------------------
\* sync, clientHeart: a leader that stays is found and taken for ready in the end, whatever
\* stale answers, late heartbeats to the old leader and dropped clients came before.
LeaderFollowed ==
    <>[](leader \in running) => <>[](leaderEndpoint = leader /\ IsReady)

\* A leader that has crashed does not stay ready, although cleanup may drop its client and
\* with it the heartbeats that would notice, and stale answers of other servers name it.
DeadLeaderNoticed ==
    \A s \in Servers :
        <>[](leaderEndpoint = s /\ s \notin running) => <>[](~IsReady)
=============================================================================
