--------------------------- MODULE ShardLeadership ---------------------------
(***************************************************************************)
(* The rate limiter servers around one shard: leader election, and the     *)
(* shard's condition store (store/k8s) that the leader loads from the API  *)
(* server, serves from, flushes every sync period, and flushes and stops   *)
(* when it no longer leads.                                                *)
(*                                                                         *)
(* The stores of a server are created and stopped by three threads: the    *)
(* goroutine of OnStartedLeading, the elector itself (OnStoppedLeading)    *)
(* and the periodic leaderCheck.  A store that was taken out of use is     *)
(* still flushed while the next leader loads and serves.  Of the shard's   *)
(* conditions the state condition of one upstream cluster and the          *)
(* condition of one gateway are followed.                                  *)
(***************************************************************************)
EXTENDS Naturals, Sequences

CONSTANTS
    Servers,    \* rate limiter servers
    Quotas,     \* quotas that calculateNextQuota may give to the gateway
    Stores,     \* addresses of objectStores
    None,       \* no server, store or condition
    StopTries,  \* attempts of stopLimitStoreWithRetry
    Budgets     \* bounds: the winners of the elections, crashes, failed calls of the API
                \* server, changes of the quota, whether there is a gateway, whether the
                \* callbacks of a term may run after its end, and the servers whose
                \* leaderCheck runs

ASSUME LeadershipAssumption ==
    /\ None \notin Servers \cup Stores
    /\ None \notin {"goroutine", "elector", "check", "periodic"}
    /\ Quotas \subseteq Nat /\ Quotas # {}
    /\ StopTries \in Nat \ {0}
    /\ Budgets \subseteq [terms : Seq(Servers), crashes : Nat, failures : Nat, changes : Nat,
                          gateway : BOOLEAN, late : BOOLEAN, checkers : SUBSET Servers]

VARIABLES
    lease,          \* the server whose elector holds the shard's lock
    unheard,        \* the servers whose OnNewLeader has yet to run
    leaderInfo,     \* whether leaderElector.leaderInfo of a server names the server itself
    limitStoreMap,  \* rateLimiter.limitStoreMap of the shard
    store,          \* the objectStores, with the flush that holds their lock
    thread,         \* where the three threads of a server are
    api,            \* the RateLimitConditions in the API server
    request,        \* the UpdateRateLimitConditionStatus in progress, at most one at a time
    quota,          \* the quota the gateway uses
    budget          \* what is left of the bounds

leadVars == <<lease, unheard, leaderInfo>>
vars == <<leadVars, limitStoreMap, store, thread, api, request, quota, budget>>

Threads == {"goroutine", "elector", "check"}

\* An objectStore that is stopped, or was never created: its server, whether it has
\* the state condition, the gateway's condition, and what a flush has yet to write.
Gone == [owner |-> None, state |-> FALSE, quota |-> None,
         flusher |-> None, item |-> None, abandoned |-> FALSE]
NoRequest == [server |-> None, store |-> None]
Idle == [pc |-> "idle", store |-> None, tries |-> 0]

Init ==
    /\ lease = None
    /\ unheard = {}
    /\ leaderInfo = [s \in Servers |-> FALSE]
    /\ limitStoreMap = [s \in Servers |-> None]
    /\ store = [o \in Stores |-> Gone]
    /\ thread = [s \in Servers |-> [t \in Threads |-> Idle]]
    /\ api = None
    /\ request = NoRequest
    /\ quota = CHOOSE q \in Quotas : TRUE
    /\ budget \in Budgets

Spend(what) == /\ budget[what] > 0
               /\ budget' = [budget EXCEPT ![what] = @ - 1]

IsLeader(s) == leaderInfo[s]
Live(o) == store[o].owner # None

\* An address that a new store can have.
Free(o) ==
    /\ ~Live(o)
    /\ request.store # o /\ \A s \in Servers : limitStoreMap[s] # o
    /\ \A s \in Servers, t \in Threads : thread[s][t].store # o

\* Saving a list of conditions that may be empty.
Overwrite(old, new) == IF new = None THEN old ELSE new

GoTo(s, t, pc) == thread' = [thread EXCEPT ![s][t].pc = pc]
Returns(s, t) == thread' = [thread EXCEPT ![s][t] = Idle]

-----------------------------------------------------------------------------
(* Leader election. client-go's elector is external: it takes a free lock,  *)
(* gives up before its lease expires, and calls back.  OnStartedLeading and *)
(* OnNewLeader run in goroutines that may be late; OnStoppedLeading does    *)
(* not, and the elector only runs again after it.                           *)

Acquire(s) ==
    /\ lease = None
    /\ thread[s]["elector"].pc = "idle"
    /\ thread[s]["goroutine"].pc = "idle"
    /\ budget.late \/ unheard = {}
    /\ budget.terms # <<>> /\ Head(budget.terms) = s
    /\ budget' = [budget EXCEPT !.terms = Tail(@)]
    /\ lease' = s
    /\ unheard' = unheard \cup (Servers \ {s})
    /\ GoTo(s, "goroutine", "start")
    /\ UNCHANGED <<leaderInfo, limitStoreMap, store, api, request, quota>>

\* leaderElector.startLeading up to its callback
StartLeading(s) ==
    /\ thread[s]["goroutine"].pc = "start"
    /\ leaderInfo' = [leaderInfo EXCEPT ![s] = TRUE]
    /\ GoTo(s, "goroutine", "insert")
    /\ UNCHANGED <<lease, unheard, limitStoreMap, store, api, request, quota, budget>>

\* OnNewLeader of another server's term
SetLeader(s) ==
    /\ s \in unheard
    /\ unheard' = unheard \ {s}
    /\ leaderInfo' = [leaderInfo EXCEPT ![s] = FALSE]
    /\ UNCHANGED <<lease, limitStoreMap, store, thread, api, request, quota, budget>>

\* The lease is not renewed in time: leaderElector.stopLeading up to its callback.
Lose(s) ==
    /\ lease = s
    /\ budget.late \/ thread[s]["goroutine"].pc # "start"
    /\ lease' = None
    /\ leaderInfo' = [leaderInfo EXCEPT ![s] = FALSE]
    /\ GoTo(s, "elector", "remove")
    /\ UNCHANGED <<unheard, limitStoreMap, store, api, request, quota, budget>>

Crash(s) ==
    /\ Spend("crashes")
    /\ lease' = IF lease = s THEN None ELSE lease
    /\ unheard' = unheard \ {s}
    /\ leaderInfo' = [leaderInfo EXCEPT ![s] = FALSE]
    /\ limitStoreMap' = [limitStoreMap EXCEPT ![s] = None]
    /\ store' = [o \in Stores |-> IF store[o].owner = s THEN Gone ELSE store[o]]
    /\ thread' = [thread EXCEPT ![s] = [t \in Threads |-> Idle]]
    /\ request' = IF request.server = s THEN NoRequest ELSE request
    /\ UNCHANGED <<api, quota>>

-----------------------------------------------------------------------------
(* rateLimiter.startLeading and stopLeading, and leaderCheck which calls them *)

LeaderCheckOnlyStarts(s) ==
    /\ thread[s]["check"].pc = "idle"
    /\ s \in budget.checkers
    /\ IsLeader(s)
    /\ GoTo(s, "check", "insert")
    /\ UNCHANGED <<leadVars, limitStoreMap, store, api, request, quota, budget>>

\* leaderCheck: GetLeaders is a copy, and all that follows goes by it.
LeaderCheck(s) ==
    /\ thread[s]["check"].pc = "idle"
    /\ s \in budget.checkers
    /\ GoTo(s, "check", IF IsLeader(s) THEN "insert" ELSE "remove")
    /\ UNCHANGED <<leadVars, limitStoreMap, store, api, request, quota,
                   budget>>

NewAddress == CHOOSE o \in Stores : Free(o)
NewStore(s) == [Gone EXCEPT !.owner = s]

Insertion(s, t) ==
    LET o == NewAddress
    IN  /\ \E a \in Stores : Free(a)
        /\ store' = [store EXCEPT ![o] = NewStore(s)]
        /\ limitStoreMap' = [limitStoreMap EXCEPT ![s] = o]
        /\ thread' = [thread EXCEPT ![s][t] = [Idle EXCEPT !.pc = "load", !.store = o]]

InsertWithoutCheck(s, t) ==
    /\ thread[s][t].pc = "insert"
    /\ Insertion(s, t)
    /\ UNCHANGED <<leadVars, api, request, quota, budget>>

\* startLeading up to the Unlock: the store is in the map before it is loaded.
Insert(s, t) ==
    /\ thread[s][t].pc = "insert"
    /\ \/ limitStoreMap[s] # None /\ Returns(s, t) /\ UNCHANGED <<store, limitStoreMap>>
       \/ limitStoreMap[s] = None /\ Insertion(s, t)
    /\ UNCHANGED <<leadVars, api, request, quota, budget>>

\* objectStore.Load. What a stopped store holds is never read again.
Load(s, t) ==
    LET o == thread[s][t].store
    IN  /\ thread[s][t].pc = "load"
        /\ \/ /\ store' = IF Live(o)
                          THEN [store EXCEPT ![o].quota = Overwrite(@, api)]
                          ELSE store
              /\ GoTo(s, t, "sync")
              /\ UNCHANGED budget
           \/ /\ Spend("failures")
              /\ GoTo(s, t, "fail")
              /\ UNCHANGED store
        /\ UNCHANGED <<leadVars, limitStoreMap, api, request, quota>>

\* UpstreamConditionHandler of the leader, with the store that is in the map now.
UpstreamConditionHandler(s) ==
    LET o == limitStoreMap[s]
    IN  /\ o # None
        /\ store' = [store EXCEPT ![o].state = TRUE]

\* syncUpstreamClustersForShard
SyncUpstreams(s, t) ==
    /\ thread[s][t].pc = "sync"
    /\ \/ /\ ~IsLeader(s)
          /\ Returns(s, t)
          /\ UNCHANGED store
       \/ /\ IsLeader(s)
          /\ UpstreamConditionHandler(s)
          /\ Returns(s, t)
       \/ /\ IsLeader(s)
          /\ limitStoreMap[s] = None
          /\ GoTo(s, t, "fail")
          /\ UNCHANGED store
    /\ UNCHANGED <<leadVars, limitStoreMap, api, request, quota, budget>>

\* An event of the upstream cluster, handled by the controller's worker.
UpstreamEvent(s) ==
    /\ IsLeader(s)
    /\ UpstreamConditionHandler(s)
    /\ UNCHANGED <<leadVars, limitStoreMap, thread, api, request, quota, budget>>

FailKeepsEntry(s, t) ==
    /\ thread[s][t].pc = "fail"
    /\ GoTo(s, t, "stop")
    /\ UNCHANGED <<leadVars, limitStoreMap, store, api, request, quota, budget>>

\* startLeading after an error: only its own store is taken out of the map.
Fail(s, t) ==
    /\ thread[s][t].pc = "fail"
    /\ limitStoreMap' = [limitStoreMap EXCEPT ![s] =
                            IF @ = thread[s][t].store THEN None ELSE @]
    /\ GoTo(s, t, "stop")
    /\ UNCHANGED <<leadVars, store, api, request, quota, budget>>

\* stopLeading up to the Unlock
Remove(s, t) ==
    /\ thread[s][t].pc = "remove"
    /\ IF limitStoreMap[s] = None
       THEN Returns(s, t)
       ELSE thread' = [thread EXCEPT ![s][t] =
                          [Idle EXCEPT !.pc = "stop", !.store = limitStoreMap[s]]]
    /\ limitStoreMap' = [limitStoreMap EXCEPT ![s] = None]
    /\ UNCHANGED <<leadVars, store, api, request, quota, budget>>

-----------------------------------------------------------------------------
(* objectStore.doSyncLocked, called by Stop and by the goroutine of the store *)

\* The periodic sync, until stopCh is closed. One that has no gateway's condition to write
\* changes nothing and is left out.
PeriodicSync(o) ==
    /\ Live(o)
    /\ store[o].quota # None
    /\ store[o].flusher = None
    /\ store' = [store EXCEPT ![o].flusher = "periodic", ![o].item = store[o].quota]
    /\ UNCHANGED <<leadVars, limitStoreMap, thread, api, request, quota,
                   budget>>

\* Stop, called by stopLimitStoreWithRetry
Stop(s, t) ==
    LET o == thread[s][t].store
    IN  /\ thread[s][t].pc = "stop"
        /\ IF ~Live(o)
           THEN Returns(s, t) /\ UNCHANGED store
           ELSE /\ store[o].flusher = None
                /\ store' = [store EXCEPT ![o].flusher = t, ![o].item = store[o].quota]
                /\ GoTo(s, t, "flush")
        /\ UNCHANGED <<leadVars, limitStoreMap, api, request, quota,
                       budget>>

SyncEndsCreates(o) ==
    LET s == store[o].owner
        t == store[o].flusher
    IN  /\ t # None
        /\ api' = Overwrite(store[o].item, api)
        /\ IF t = "periodic"
           THEN /\ store' = [store EXCEPT ![o].flusher = None, ![o].item = None]
                /\ UNCHANGED thread
           ELSE store' = [store EXCEPT ![o] = Gone] /\ Returns(s, t)
        /\ UNCHANGED <<leadVars, limitStoreMap, request, quota, budget>>

\* createOrUpdate without a resource version replaces whatever is there. Stop then
\* closes stopCh.
SyncEnds(o) ==
    LET s == store[o].owner
        t == store[o].flusher
    IN  /\ t # None
        /\ api' = Overwrite(api, store[o].item)
        /\ IF t = "periodic"
           THEN /\ store' = [store EXCEPT ![o].flusher = None, ![o].item = None]
                /\ UNCHANGED thread
           ELSE store' = [store EXCEPT ![o] = Gone] /\ Returns(s, t)
        /\ UNCHANGED <<leadVars, limitStoreMap, request, quota, budget>>

SyncFailsOnceMore(o) ==
    LET s == store[o].owner
        t == store[o].flusher
    IN  /\ t # None
        /\ Spend("failures")
        /\ LET givesUp == t # "periodic" /\ thread[s][t].tries = StopTries
           IN  /\ store' = [store EXCEPT ![o].flusher = None, ![o].item = None,
                                         ![o].abandoned = @ \/ givesUp]
               /\ IF t = "periodic" THEN UNCHANGED thread
                  ELSE IF givesUp THEN Returns(s, t)
                  ELSE thread' = [thread EXCEPT ![s][t].pc = "stop", ![s][t].tries = @ + 1]
        /\ UNCHANGED <<leadVars, limitStoreMap, api, request, quota>>

\* A write fails, and with it the sync; the last attempt to stop gives up.
SyncFails(o) ==
    LET s == store[o].owner
        t == store[o].flusher
    IN  /\ t # None
        /\ Spend("failures")
        /\ LET givesUp == t # "periodic" /\ thread[s][t].tries + 1 = StopTries
           IN  /\ store' = [store EXCEPT ![o].flusher = None, ![o].item = None,
                                         ![o].abandoned = @ \/ givesUp]
               /\ IF t = "periodic" THEN UNCHANGED thread
                  ELSE IF givesUp THEN Returns(s, t)
                  ELSE thread' = [thread EXCEPT ![s][t].pc = "stop", ![s][t].tries = @ + 1]
        /\ UNCHANGED <<leadVars, limitStoreMap, api, request, quota>>

-----------------------------------------------------------------------------
(* UpdateRateLimitConditionStatus of the gateway *)

\* The handler up to its lock: leader, store, state condition and mutex exist.
UpdateBegins(s) ==
    LET o == limitStoreMap[s]
    IN  /\ budget.gateway
        /\ request = NoRequest
        /\ IsLeader(s)
        /\ o # None
        /\ store[o].state
        /\ request' = [server |-> s, store |-> o]
        /\ UNCHANGED <<leadVars, limitStoreMap, store, thread, api, quota,
                       budget>>

\* The handler under its lock. The new quota starts from the one the gateway
\* reports.
UpdateSaves ==
    LET o == request.store
    IN  /\ o # None
        /\ \E q \in Quotas :
              /\ \/ q = quota /\ UNCHANGED budget
                 \/ q # quota /\ Spend("changes")
              /\ store' = IF Live(o)
                          THEN [store EXCEPT ![o].quota = q, ![o].state = TRUE]
                          ELSE store
              /\ quota' = q
        /\ request' = NoRequest
        /\ UNCHANGED <<leadVars, limitStoreMap, thread, api>>

-----------------------------------------------------------------------------
Election == \E s \in Servers : Acquire(s) \/ SetLeader(s) \/ Lose(s) \/ Crash(s)

\* What a thread of a server does next
Runs(s, t) ==
    \/ t = "goroutine" /\ StartLeading(s)
    \/ t = "check" /\ LeaderCheck(s)
    \/ Insert(s, t) \/ Load(s, t) \/ SyncUpstreams(s, t) \/ Fail(s, t)
    \/ Remove(s, t) \/ Stop(s, t)

Updates == UpdateSaves \/ \E s \in Servers : UpdateBegins(s)

Next ==
    \/ Election
    \/ \E s \in Servers : UpstreamEvent(s) \/ \E t \in Threads : Runs(s, t)
    \/ \E o \in Stores : PeriodicSync(o) \/ SyncEnds(o) \/ SyncFails(o)
    \/ Updates

\* Goroutines and timers run, a mutex is not kept from a thread for ever, calls of the API
\* server end one way or the other, the gateway sends its updates to a leader, and the
\* informer of the upstream clusters resyncs.
Fairness ==
    /\ \A s \in Servers : /\ WF_vars(UpstreamEvent(s))
                          /\ \A t \in Threads : SF_vars(Runs(s, t))
    /\ \A o \in Stores : WF_vars(PeriodicSync(o) \/ SyncEnds(o))
    /\ WF_vars(Updates)

Spec == Init /\ [][Next]_vars /\ Fairness

-----------------------------------------------------------------------------
\* Type invariant.
LeadTypeOK ==
    /\ lease \in Servers \cup {None}
    /\ unheard \in SUBSET Servers
    /\ leaderInfo \in [Servers -> BOOLEAN]
    /\ limitStoreMap \in [Servers -> Stores \cup {None}]
    /\ store \in [Stores -> [owner : Servers \cup {None}, state : BOOLEAN,
                             quota : Quotas \cup {None}, item : Quotas \cup {None},
                             flusher : Threads \cup {"periodic", None},
                             abandoned : BOOLEAN]]
    /\ thread \in [Servers -> [Threads ->
                     [pc : {"idle", "start", "insert", "load", "sync", "fail", "remove", "stop", "flush"},
                      store : Stores \cup {None}, tries : 0..(StopTries - 1)]]]
    /\ api \in Quotas \cup {None}
    /\ request \in [server : Servers \cup {None}, store : Stores \cup {None}]
    /\ quota \in Quotas

\* startLeading and stopLeading of the three threads overlap: a store whose sync goroutine
\* runs is in the map, or a thread has yet to load or stop it, or every attempt to stop it
\* has failed.
NoLeakedStore ==
    \A o \in Stores : Live(o) /\ ~store[o].abandoned =>
        \/ limitStoreMap[store[o].owner] = o
        \/ \E t \in Threads : thread[store[o].owner][t].store = o

\* startLeading, leaderCheck: servers that stay leader end up with a store that has the
\* upstream's state, although a load may fail and a check may act on stale leaders.
LeaderServes ==
    budget.checkers # {} /\ <>[](\A s \in budget.checkers : IsLeader(s)) =>
        <>[](\A s \in budget.checkers :
                LET o == limitStoreMap[s] IN o # None /\ Live(o) /\ store[o].state)

\* stopLeading, leaderCheck: servers that stay without the lead end up without a store and
\* without a sync goroutine, other than those they failed to stop.
NonLeaderStops ==
    budget.checkers # {} /\ <>[](\A s \in budget.checkers : ~IsLeader(s)) =>
        <>[](\A o \in Stores : store[o].owner \in budget.checkers => store[o].abandoned)

\* Load, doSyncLocked, Stop: once one server stays the only leader, and the others have
\* stopped their stores, the quota that the gateway uses, the one in the leader's store and
\* the one in the API server are the same, whatever an earlier leader flushed late.
QuotaAgrees ==
    /\ budget.gateway
    /\ <>[](lease # None /\ IsLeader(lease) /\ \A o \in Stores : store[o].owner \in {None, lease})
    /\ [](\A o \in Stores : ~store[o].abandoned)
    => <>[](/\ lease # None /\ limitStoreMap[lease] # None
            /\ store[limitStoreMap[lease]].quota = quota
            /\ api = quota)
=============================================================================
