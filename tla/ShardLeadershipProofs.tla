------------------------ MODULE ShardLeadershipProofs ------------------------
(***************************************************************************)
(* Proofs about ShardLeadership, for any number of servers, stores,        *)
(* elections, crashes and failed calls of the API server.                  *)
(***************************************************************************)
EXTENDS ShardLeadership, TLAPS

\* An objectStore.
StoreType == [owner : Servers \cup {None}, state : BOOLEAN,
              quota : Quotas \cup {None}, item : Quotas \cup {None},
              flusher : Threads \cup {"periodic", None}, abandoned : BOOLEAN]

\* Where a thread is.
ThreadType == [pc : {"idle", "start", "insert", "load", "sync", "fail", "remove", "stop",
                     "flush"},
               store : Stores \cup {None}, tries : 0..(StopTries - 1)]

\* The thread is stopping the store it holds.
Stopping(s, t, o) == thread[s][t].store = o /\ thread[s][t].pc \in {"stop", "flush"}

\* The map of a server has stores of that server whose sync goroutines run.
MapOwned == \A s \in Servers : limitStoreMap[s] # None => store[limitStoreMap[s]].owner = s

\* A thread that has created or removed a store knows which.
ThreadHolds ==
    \A s \in Servers, t \in Threads :
        thread[s][t].pc \in {"load", "sync", "fail", "stop", "flush"}
            => thread[s][t].store \in Stores

\* Threads work on stores of their own server.
ThreadOwned ==
    \A s \in Servers, t \in Threads, o \in Stores :
        thread[s][t].store = o /\ Live(o) => store[o].owner = s

\* A store is taken out of the map before it is stopped.
StoppedUnmapped ==
    \A s \in Servers, t \in Threads, o \in Stores : Stopping(s, t, o) => limitStoreMap[s] # o

\* The lock of a store that is flushed is held by its sync goroutine or by the thread that
\* stops it.
FlusherHolds ==
    \A o \in Stores : store[o].flusher # None =>
        /\ Live(o)
        /\ store[o].flusher # "periodic" =>
               /\ thread[store[o].owner][store[o].flusher].store = o
               /\ thread[store[o].owner][store[o].flusher].pc = "flush"

\* A store that is not in the map is being stopped, or was given up.
MappedOrStopping ==
    \A o \in Stores : Live(o) /\ ~store[o].abandoned =>
        \/ limitStoreMap[store[o].owner] = o
        \/ \E t \in Threads : Stopping(store[o].owner, t, o)

Owned == /\ MapOwned /\ ThreadHolds /\ ThreadOwned /\ StoppedUnmapped
         /\ FlusherHolds /\ MappedOrStopping

\* OnStoppedLeading only runs after the lease was lost.
ElectorWaits == \A s \in Servers : lease = s => thread[s]["elector"].pc = "idle"

\* NoLeakedStore says that some thread holds a store outside the map; that this thread is
\* about to stop it, and that the owner of a flush is still there, makes it inductive.
LeadIInv == LeadTypeOK /\ Owned /\ ElectorWaits

\* The type invariant, with names for the record types.
LEMMA Types ==
    LeadTypeOK <=> /\ lease \in Servers \cup {None} /\ unheard \in SUBSET Servers
                   /\ leaderInfo \in [Servers -> BOOLEAN]
                   /\ limitStoreMap \in [Servers -> Stores \cup {None}]
                   /\ store \in [Stores -> StoreType]
                   /\ thread \in [Servers -> [Threads -> ThreadType]]
                   /\ api \in Quotas \cup {None}
                   /\ request \in [server : Servers \cup {None}, store : Stores \cup {None}]
                   /\ quota \in Quotas
BY DEF LeadTypeOK, StoreType, ThreadType

\* What assigning to the locals of one thread does.
LEMMA ThreadUpdate ==
    ASSUME NEW f \in [Servers -> [Threads -> ThreadType]], NEW s \in Servers,
           NEW t \in Threads, NEW r \in ThreadType
    PROVE  /\ [f EXCEPT ![s][t] = r] \in [Servers -> [Threads -> ThreadType]]
           /\ [f EXCEPT ![s][t] = r][s][t] = r
           /\ \A p \in Servers, u \in Threads :
                 p # s \/ u # t => [f EXCEPT ![s][t] = r][p][u] = f[p][u]
OBVIOUS

\* A thread's program counter can be set on its own.
LEMMA PcUpdate ==
    ASSUME NEW l \in ThreadType,
           NEW pc \in {"idle", "start", "insert", "load", "sync", "fail", "remove", "stop",
                       "flush"},
           NEW r, r = [l EXCEPT !.pc = pc]
    PROVE  r \in ThreadType /\ r.pc = pc /\ r.store = l.store /\ r.tries = l.tries
BY DEF ThreadType

\* GoTo keeps the other locals.
LEMMA GoToThread ==
    ASSUME thread \in [Servers -> [Threads -> ThreadType]], NEW s \in Servers,
           NEW t \in Threads, NEW pc, GoTo(s, t, pc),
           pc \in {"idle", "start", "insert", "load", "sync", "fail", "remove", "stop", "flush"}
    PROVE  \E r \in ThreadType :
              /\ r.pc = pc /\ r.store = thread[s][t].store /\ r.tries = thread[s][t].tries
              /\ thread' = [thread EXCEPT ![s][t] = r]
<1> DEFINE r == [thread[s][t] EXCEPT !.pc = pc]
<1>1. thread' = [thread EXCEPT ![s][t] = r]
      BY DEF GoTo
<1>2. thread[s][t] \in ThreadType
      OBVIOUS
<1>3. /\ r \in ThreadType /\ r.pc = pc
      /\ r.store = thread[s][t].store /\ r.tries = thread[s][t].tries
  <2>1. PICK l \in ThreadType : l = thread[s][t]
        BY <1>2
  <2>2. r = [l EXCEPT !.pc = pc]
        BY <2>1
  <2> HIDE DEF r
  <2>3. r \in ThreadType /\ r.pc = pc /\ r.store = l.store /\ r.tries = l.tries
        BY <2>2, PcUpdate
  <2> QED
      BY <2>1, <2>3
<1> HIDE DEF r
<1> QED
    BY <1>1, <1>3, Zenon

\* A thread that returns holds nothing.
LEMMA IdleType == Idle \in ThreadType /\ Idle.pc = "idle" /\ Idle.store = None
BY LeadershipAssumption DEF Idle, ThreadType

\* The locals of a thread that has just got hold of a store.
LEMMA NewLocals ==
    ASSUME NEW o \in Stores, NEW pc \in {"load", "stop"}
    PROVE  LET r == [Idle EXCEPT !.pc = pc, !.store = o]
           IN  r \in ThreadType /\ r.pc = pc /\ r.store = o
<1>1. Idle \in ThreadType
      BY IdleType
<1> HIDE DEF Idle
<1> QED
    BY <1>1, Zenon DEF ThreadType

\* The thread that flushes a store.
LEMMA FlusherThread ==
    ASSUME store \in [Stores -> StoreType], FlusherHolds, NEW o \in Stores,
           store[o].flusher # None
    PROVE  /\ Live(o) /\ store[o].owner \in Servers
           /\ store[o].flusher # "periodic" =>
                  /\ store[o].flusher \in Threads
                  /\ thread[store[o].owner][store[o].flusher].store = o
                  /\ thread[store[o].owner][store[o].flusher].pc = "flush"
<1>1. Live(o) /\ (store[o].flusher # "periodic" =>
                     /\ thread[store[o].owner][store[o].flusher].store = o
                     /\ thread[store[o].owner][store[o].flusher].pc = "flush")
      BY DEF FlusherHolds
<1>2. store[o].owner \in Servers \cup {None}
      /\ store[o].flusher \in Threads \cup {"periodic", None}
      BY DEF StoreType
<1> QED
    BY <1>1, <1>2 DEF Live

\* The fields of the stores that say whose they are.
SameOwners == \A o \in Stores : /\ store'[o].owner = store[o].owner
                                /\ store'[o].flusher = store[o].flusher
                                /\ store'[o].abandoned = store[o].abandoned

\* A step of one thread that neither is nor becomes one that stops a store.
LEMMA ThreadMoves ==
    ASSUME LeadTypeOK, Owned, SameOwners, UNCHANGED limitStoreMap,
           NEW s \in Servers, NEW t \in Threads, NEW r \in ThreadType,
           thread' = [thread EXCEPT ![s][t] = r],
           thread[s][t].pc \notin {"stop", "flush"}, r.pc \notin {"stop", "flush"},
           r.store = thread[s][t].store \/ r.store = None,
           r.pc \in {"load", "sync", "fail"} => r.store \in Stores
    PROVE  Owned'
<1>0. /\ MapOwned /\ ThreadHolds /\ ThreadOwned /\ StoppedUnmapped /\ FlusherHolds
      /\ MappedOrStopping
      BY DEF Owned
<1>1. /\ limitStoreMap \in [Servers -> Stores \cup {None}] /\ store \in [Stores -> StoreType]
      /\ thread \in [Servers -> [Threads -> ThreadType]]
      BY Types
<1>2. /\ thread'[s][t] = r
      /\ \A p \in Servers, u \in Threads : p # s \/ u # t => thread'[p][u] = thread[p][u]
      BY <1>1, ThreadUpdate
<1>3. \A o \in Stores : store[o].owner \in Servers \cup {None}
                        /\ store[o].flusher \in Threads \cup {"periodic", None}
      BY <1>1 DEF StoreType
<1>4. MapOwned'
      BY <1>0, <1>1 DEF MapOwned, SameOwners
<1>5. ThreadHolds'
      BY <1>0, <1>2 DEF ThreadHolds
<1>6. ThreadOwned'
      BY <1>0, <1>2, LeadershipAssumption DEF ThreadOwned, SameOwners, Live
<1>7. \A p \in Servers, u \in Threads, o \in Stores : Stopping(p, u, o)' <=> Stopping(p, u, o)
      BY <1>2 DEF Stopping
<1>8. StoppedUnmapped'
      BY <1>0, <1>7 DEF StoppedUnmapped
<1>9. FlusherHolds'
  <2> SUFFICES ASSUME NEW o \in Stores, store'[o].flusher # None
               PROVE  /\ Live(o)'
                      /\ store'[o].flusher # "periodic" =>
                            /\ thread'[store'[o].owner][store'[o].flusher].store = o
                            /\ thread'[store'[o].owner][store'[o].flusher].pc = "flush"
      BY DEF FlusherHolds
  <2>1. /\ Live(o) /\ Live(o)' /\ store'[o].flusher = store[o].flusher
        /\ store'[o].owner = store[o].owner /\ store[o].owner \in Servers
        BY <1>0, <1>3 DEF FlusherHolds, Live, SameOwners
  <2>2. CASE store[o].flusher # "periodic"
    <3>1. /\ store[o].flusher \in Threads
          /\ thread[store[o].owner][store[o].flusher].store = o
          /\ thread[store[o].owner][store[o].flusher].pc = "flush"
          BY <1>0, <1>3, <2>1, <2>2 DEF FlusherHolds
    <3> QED
        BY <1>2, <2>1, <3>1
  <2> QED
      BY <2>1, <2>2
<1>10. MappedOrStopping'
  <2> SUFFICES ASSUME NEW o \in Stores, Live(o)', ~store'[o].abandoned
               PROVE  \/ limitStoreMap'[store'[o].owner] = o
                      \/ \E u \in Threads : Stopping(store[o].owner, u, o)'
      BY DEF MappedOrStopping
  <2>1. Live(o) /\ ~store[o].abandoned /\ store'[o].owner = store[o].owner
        BY DEF SameOwners, Live
  <2>2. store[o].owner \in Servers
        BY <1>3, <2>1 DEF Live
  <2>3. \/ limitStoreMap[store[o].owner] = o
        \/ \E u \in Threads : Stopping(store[o].owner, u, o)
        BY <1>0, <2>1 DEF MappedOrStopping
  <2>4. \A u \in Threads : Stopping(store[o].owner, u, o) => Stopping(store[o].owner, u, o)'
        BY <1>7, <2>1, <2>2 DEF Stopping
  <2> QED
      BY <2>1, <2>3, <2>4
<1> QED
    BY <1>4, <1>5, <1>6, <1>8, <1>9, <1>10 DEF Owned

\* A step of no thread, in which at most the sync goroutine of a store takes or releases
\* the lock of the store.
LEMMA StoreMoves ==
    ASSUME LeadTypeOK, Owned, UNCHANGED <<limitStoreMap, thread>>,
           \A o \in Stores : /\ store'[o].owner = store[o].owner
                             /\ store'[o].abandoned = store[o].abandoned
                             /\ \/ store'[o].flusher = store[o].flusher
                                \/ store'[o].flusher = None
                                \/ store'[o].flusher = "periodic" /\ Live(o)
    PROVE  Owned'
<1>0. /\ MapOwned /\ ThreadHolds /\ ThreadOwned /\ StoppedUnmapped /\ FlusherHolds
      /\ MappedOrStopping
      BY DEF Owned
<1>1. /\ limitStoreMap \in [Servers -> Stores \cup {None}] /\ store \in [Stores -> StoreType]
      /\ thread \in [Servers -> [Threads -> ThreadType]]
      BY Types
<1>2. MapOwned' /\ ThreadHolds'
      BY <1>0, <1>1 DEF MapOwned, ThreadHolds
<1>6. ThreadOwned'
      BY <1>0 DEF ThreadOwned, Live
<1>3. StoppedUnmapped'
      BY <1>0 DEF StoppedUnmapped, Stopping
<1>4. FlusherHolds'
      BY <1>0 DEF FlusherHolds, Live
<1>5. MappedOrStopping'
      BY <1>0 DEF MappedOrStopping, Stopping, Live
<1> QED
    BY <1>2, <1>3, <1>4, <1>5, <1>6 DEF Owned

\* Fail and Remove: a thread takes its store out of the map, to stop it next.
LEMMA TakesOut ==
    ASSUME LeadTypeOK, Owned, UNCHANGED store,
           NEW s \in Servers, NEW t \in Threads, NEW o0 \in Stores, NEW r \in ThreadType,
           r.store = o0, r.pc = "stop", Live(o0) => store[o0].owner = s,
           thread[s][t].pc \notin {"stop", "flush"},
           thread' = [thread EXCEPT ![s][t] = r],
           limitStoreMap' = [limitStoreMap EXCEPT ![s] = IF @ = o0 THEN None ELSE @]
    PROVE  Owned'
<1>0. /\ MapOwned /\ ThreadHolds /\ ThreadOwned /\ StoppedUnmapped /\ FlusherHolds
      /\ MappedOrStopping
      BY DEF Owned
<1>1. /\ limitStoreMap \in [Servers -> Stores \cup {None}] /\ store \in [Stores -> StoreType]
      /\ thread \in [Servers -> [Threads -> ThreadType]]
      BY Types
<1>2. /\ thread'[s][t] = r
      /\ \A p \in Servers, u \in Threads : p # s \/ u # t => thread'[p][u] = thread[p][u]
      BY <1>1, ThreadUpdate
<1>3. \A o \in Stores : /\ store[o].owner \in Servers \cup {None}
                        /\ store[o].flusher \in Threads \cup {"periodic", None}
      BY <1>1 DEF StoreType
<1>4. /\ \A p \in Servers : limitStoreMap'[p] = limitStoreMap[p] \/ limitStoreMap'[p] = None
      /\ limitStoreMap'[s] # o0
      /\ \A p \in Servers : limitStoreMap'[p] # limitStoreMap[p] => p = s /\ limitStoreMap[s] = o0
      BY <1>1, LeadershipAssumption
<1>5. MapOwned'
      BY <1>0, <1>4 DEF MapOwned
<1>6. ThreadHolds'
      BY <1>0, <1>2 DEF ThreadHolds
<1>7. ThreadOwned'
      BY <1>0, <1>2 DEF ThreadOwned, Live
<1>8. StoppedUnmapped'
  <2> SUFFICES ASSUME NEW p \in Servers, NEW u \in Threads, NEW o \in Stores, Stopping(p, u, o)'
               PROVE  limitStoreMap'[p] # o
      BY DEF StoppedUnmapped
  <2>1. CASE p = s /\ u = t
        BY <1>2, <1>4, <2>1 DEF Stopping
  <2>2. CASE ~(p = s /\ u = t)
    <3>1. Stopping(p, u, o)
          BY <1>2, <2>2 DEF Stopping
    <3> QED
        BY <1>0, <1>4, <3>1, LeadershipAssumption DEF StoppedUnmapped
  <2> QED
      BY <2>1, <2>2
<1>9. FlusherHolds'
  <2> SUFFICES ASSUME NEW o \in Stores, store[o].flusher # None
               PROVE  /\ Live(o)
                      /\ store[o].flusher # "periodic" =>
                            /\ thread'[store[o].owner][store[o].flusher].store = o
                            /\ thread'[store[o].owner][store[o].flusher].pc = "flush"
      BY DEF FlusherHolds, Live
  <2>1. /\ Live(o) /\ store[o].owner \in Servers
        /\ store[o].flusher # "periodic" =>
               /\ store[o].flusher \in Threads
               /\ thread[store[o].owner][store[o].flusher].store = o
               /\ thread[store[o].owner][store[o].flusher].pc = "flush"
        BY <1>0, <1>1, FlusherThread
  <2>2. CASE store[o].flusher # "periodic"
    <3> DEFINE p == store[o].owner
               u == store[o].flusher
    <3>1. /\ p \in Servers /\ u \in Threads
          /\ thread[p][u].store = o /\ thread[p][u].pc = "flush"
          BY <2>1, <2>2
    <3> HIDE DEF p, u
    <3>2. thread'[p][u] = thread[p][u]
          BY <1>2, <3>1
    <3> QED
        BY <2>1, <3>1, <3>2 DEF p, u
  <2> QED
      BY <2>1, <2>2
<1>10. MappedOrStopping'
  <2> SUFFICES ASSUME NEW o \in Stores, Live(o), ~store[o].abandoned
               PROVE  \/ limitStoreMap'[store[o].owner] = o
                      \/ \E u \in Threads : Stopping(store[o].owner, u, o)'
      BY DEF MappedOrStopping, Live, Stopping
  <2>1. store[o].owner \in Servers
        BY <1>3 DEF Live
  <2>2. CASE limitStoreMap[store[o].owner] = o
    <3>1. CASE limitStoreMap'[store[o].owner] # limitStoreMap[store[o].owner]
      <4>1. store[o].owner = s /\ o = o0
            BY <1>4, <2>1, <2>2, <3>1
      <4> QED
          BY <1>2, <4>1 DEF Stopping
    <3> QED
        BY <2>2, <3>1
  <2>3. ASSUME NEW u \in Threads, Stopping(store[o].owner, u, o)
        PROVE  Stopping(store[o].owner, u, o)'
        BY <1>2, <2>1, <2>3 DEF Stopping
  <2> QED
      BY <1>0, <2>2, <2>3 DEF MappedOrStopping
<1> QED
    BY <1>5, <1>6, <1>7, <1>8, <1>9, <1>10 DEF Owned

\* A thread gives up its store, which is stopped or abandoned after the step.
LEMMA StopperReturns ==
    ASSUME LeadTypeOK, Owned, UNCHANGED limitStoreMap,
           NEW s \in Servers, NEW t \in Threads, NEW o0 \in Stores, Stopping(s, t, o0),
           thread' = [thread EXCEPT ![s][t] = Idle],
           \A o \in Stores \ {o0} : store'[o] = store[o],
           store'[o0].flusher = None,
           store'[o0].owner = None \/ store'[o0].owner = store[o0].owner,
           store'[o0].owner = None \/ store'[o0].abandoned
    PROVE  Owned'
<1> DEFINE r == Idle
<1>11. r \in ThreadType /\ r.pc = "idle" /\ r.store = None /\ None \notin Servers \cup Stores
      BY IdleType, LeadershipAssumption
<1>12. thread' = [thread EXCEPT ![s][t] = r]
      OBVIOUS
<1> HIDE DEF r
<1>0. /\ MapOwned /\ ThreadHolds /\ ThreadOwned /\ StoppedUnmapped /\ FlusherHolds
      /\ MappedOrStopping
      BY DEF Owned
<1>1. /\ limitStoreMap \in [Servers -> Stores \cup {None}] /\ store \in [Stores -> StoreType]
      /\ thread \in [Servers -> [Threads -> ThreadType]]
      BY Types
<1>2. /\ thread'[s][t] = r
      /\ \A p \in Servers, u \in Threads : p # s \/ u # t => thread'[p][u] = thread[p][u]
      BY <1>1, <1>11, <1>12, ThreadUpdate
<1>3. \A o \in Stores : /\ store[o].owner \in Servers \cup {None}
                        /\ store[o].flusher \in Threads \cup {"periodic", None}
      BY <1>1 DEF StoreType
<1>4. \A p \in Servers : limitStoreMap[p] # o0
  <2> SUFFICES ASSUME NEW p \in Servers, limitStoreMap[p] = o0 PROVE FALSE
      OBVIOUS
  <2>1. store[o0].owner = p
        BY <1>0, <1>11 DEF MapOwned
  <2>2. p = s
        BY <1>0, <1>11, <2>1 DEF ThreadOwned, Stopping, Live
  <2> QED
      BY <1>0, <2>2 DEF StoppedUnmapped
<1>5. MapOwned'
      BY <1>0, <1>1, <1>4 DEF MapOwned
<1>6. ThreadHolds'
      BY <1>0, <1>2, <1>11 DEF ThreadHolds
<1>7. ThreadOwned'
      BY <1>0, <1>2, <1>11 DEF ThreadOwned, Live
<1>8. StoppedUnmapped'
      BY <1>0, <1>2, <1>11 DEF StoppedUnmapped, Stopping
<1>9. FlusherHolds'
  <2> SUFFICES ASSUME NEW o \in Stores, store'[o].flusher # None
               PROVE  /\ Live(o)'
                      /\ store'[o].flusher # "periodic" =>
                            /\ thread'[store'[o].owner][store'[o].flusher].store = o
                            /\ thread'[store'[o].owner][store'[o].flusher].pc = "flush"
      BY DEF FlusherHolds
  <2>0. o # o0 /\ store'[o] = store[o]
        OBVIOUS
  <2>1. /\ Live(o) /\ store[o].owner \in Servers
        /\ store[o].flusher # "periodic" =>
               /\ store[o].flusher \in Threads
               /\ thread[store[o].owner][store[o].flusher].store = o
               /\ thread[store[o].owner][store[o].flusher].pc = "flush"
        BY <1>0, <1>1, <2>0, FlusherThread
  <2>3. Live(o)'
        BY <2>0, <2>1 DEF Live
  <2>2. CASE store[o].flusher # "periodic"
    <3> DEFINE p == store[o].owner
               u == store[o].flusher
    <3>1. /\ p \in Servers /\ u \in Threads
          /\ thread[p][u].store = o /\ thread[p][u].pc = "flush"
          BY <2>1, <2>2
    <3> HIDE DEF p, u
    <3>2. thread'[p][u] = thread[p][u]
          BY <1>2, <2>0, <3>1 DEF Stopping
    <3> QED
        BY <2>0, <2>3, <3>1, <3>2 DEF p, u
  <2> QED
      BY <2>0, <2>2, <2>3
<1>10. MappedOrStopping'
  <2> SUFFICES ASSUME NEW o \in Stores \ {o0}, Live(o), ~store[o].abandoned
               PROVE  \/ limitStoreMap[store[o].owner] = o
                      \/ \E u \in Threads : Stopping(store[o].owner, u, o)'
      BY DEF MappedOrStopping, Live, Stopping
  <2>1. store[o].owner \in Servers
        BY <1>3 DEF Live
  <2>2. ASSUME NEW u \in Threads, Stopping(store[o].owner, u, o)
        PROVE  Stopping(store[o].owner, u, o)'
        BY <1>2, <2>1, <2>2 DEF Stopping
  <2> QED
      BY <1>0, <2>2 DEF MappedOrStopping
<1> QED
    BY <1>5, <1>6, <1>7, <1>8, <1>9, <1>10 DEF Owned

\* A thread that stops a store takes its lock, or releases it to try again.
LEMMA StopperStays ==
    ASSUME LeadTypeOK, Owned, UNCHANGED limitStoreMap,
           NEW s \in Servers, NEW t \in Threads, NEW o0 \in Stores, NEW r \in ThreadType,
           Stopping(s, t, o0), Live(o0), r.store = o0, r.pc \in {"stop", "flush"},
           thread' = [thread EXCEPT ![s][t] = r],
           \A o \in Stores \ {o0} : store'[o] = store[o],
           store'[o0].owner = store[o0].owner, store'[o0].abandoned = store[o0].abandoned,
           store'[o0].flusher = IF r.pc = "flush" THEN t ELSE None
    PROVE  Owned'
<1>0. /\ MapOwned /\ ThreadHolds /\ ThreadOwned /\ StoppedUnmapped /\ FlusherHolds
      /\ MappedOrStopping
      BY DEF Owned
<1>1. /\ limitStoreMap \in [Servers -> Stores \cup {None}] /\ store \in [Stores -> StoreType]
      /\ thread \in [Servers -> [Threads -> ThreadType]]
      BY Types
<1>2. /\ thread'[s][t] = r
      /\ \A p \in Servers, u \in Threads : p # s \/ u # t => thread'[p][u] = thread[p][u]
      BY <1>1, ThreadUpdate
<1>3. \A o \in Stores : /\ store[o].owner \in Servers \cup {None}
                        /\ store[o].flusher \in Threads \cup {"periodic", None}
      BY <1>1 DEF StoreType
<1>4. store[o0].owner = s /\ store'[o0].owner = s
      BY <1>0 DEF ThreadOwned, Stopping
<1>11. None \notin Servers \cup Stores
      BY LeadershipAssumption
<1>12. \A o \in Stores : /\ store'[o].owner = store[o].owner
                         /\ store'[o].abandoned = store[o].abandoned
      OBVIOUS
<1>5. MapOwned'
      BY <1>0, <1>1, <1>12 DEF MapOwned
<1>6. ThreadHolds'
      BY <1>0, <1>2 DEF ThreadHolds
<1>7. ThreadOwned'
  <2>1. \A p \in Servers, u \in Threads : thread'[p][u].store = thread[p][u].store
        BY <1>2 DEF Stopping
  <2> QED
      BY <1>0, <1>12, <2>1 DEF ThreadOwned, Live
<1>13. \A p \in Servers, u \in Threads, o \in Stores : Stopping(p, u, o)' <=> Stopping(p, u, o)
      BY <1>2 DEF Stopping
<1>8. StoppedUnmapped'
      BY <1>0, <1>13 DEF StoppedUnmapped
<1>9. FlusherHolds'
  <2> SUFFICES ASSUME NEW o \in Stores, store'[o].flusher # None
               PROVE  /\ Live(o)'
                      /\ store'[o].flusher # "periodic" =>
                            /\ thread'[store'[o].owner][store'[o].flusher].store = o
                            /\ thread'[store'[o].owner][store'[o].flusher].pc = "flush"
      BY DEF FlusherHolds
  <2>1. CASE o = o0
    <3>1. r.pc = "flush" /\ store'[o].flusher = t
          BY <2>1
    <3> QED
        BY <1>2, <1>4, <1>11, <2>1, <3>1 DEF Live
  <2>2. CASE o # o0
    <3>1. store'[o] = store[o] /\ Live(o) /\ Live(o)' /\ store[o].owner \in Servers
          BY <1>0, <1>3, <2>2 DEF FlusherHolds, Live
    <3>2. CASE store[o].flusher # "periodic"
      <4> DEFINE p == store[o].owner
                 u == store[o].flusher
      <4>1. /\ p \in Servers /\ u \in Threads
            /\ thread[p][u].store = o /\ thread[p][u].pc = "flush"
            BY <1>0, <1>1, <3>1, <3>2, FlusherThread
      <4> HIDE DEF p, u
      <4>2. thread'[p][u] = thread[p][u]
            BY <1>2, <2>2, <4>1 DEF Stopping
      <4> QED
          BY <3>1, <4>1, <4>2 DEF p, u
    <3> QED
        BY <3>1, <3>2
  <2> QED
      BY <2>1, <2>2
<1>10. MappedOrStopping'
  <2> SUFFICES ASSUME NEW o \in Stores, Live(o), ~store[o].abandoned
               PROVE  \/ limitStoreMap[store[o].owner] = o
                      \/ \E u \in Threads : Stopping(store[o].owner, u, o)'
      BY <1>12 DEF MappedOrStopping, Live, Stopping
  <2>1. store[o].owner \in Servers
        BY <1>3 DEF Live
  <2>2. ASSUME NEW u \in Threads, Stopping(store[o].owner, u, o)
        PROVE  Stopping(store[o].owner, u, o)'
        BY <1>12, <1>13, <2>1, <2>2 DEF Stopping
  <2> QED
      BY <1>0, <2>2 DEF MappedOrStopping
<1> QED
    BY <1>5, <1>6, <1>7, <1>8, <1>9, <1>10 DEF Owned

\* A new store goes into the map, at an address nobody knows.
LEMMA Inserted ==
    ASSUME LeadTypeOK, Owned, NEW s \in Servers, NEW t \in Threads, NEW o0 \in Stores,
           NEW r \in ThreadType, Free(o0), limitStoreMap[s] = None,
           thread[s][t].pc = "insert", r.pc = "load", r.store = o0,
           thread' = [thread EXCEPT ![s][t] = r],
           limitStoreMap' = [limitStoreMap EXCEPT ![s] = o0],
           \A o \in Stores \ {o0} : store'[o] = store[o],
           store'[o0].owner = s, store'[o0].flusher = None
    PROVE  Owned'
<1>0. /\ MapOwned /\ ThreadHolds /\ ThreadOwned /\ StoppedUnmapped /\ FlusherHolds
      /\ MappedOrStopping
      BY DEF Owned
<1>1. /\ limitStoreMap \in [Servers -> Stores \cup {None}] /\ store \in [Stores -> StoreType]
      /\ thread \in [Servers -> [Threads -> ThreadType]]
      BY Types
<1>2. /\ thread'[s][t] = r
      /\ \A p \in Servers, u \in Threads : p # s \/ u # t => thread'[p][u] = thread[p][u]
      BY <1>1, ThreadUpdate
<1>3. \A o \in Stores : /\ store[o].owner \in Servers \cup {None}
                        /\ store[o].flusher \in Threads \cup {"periodic", None}
      BY <1>1 DEF StoreType
<1>4. /\ ~Live(o0) /\ \A p \in Servers : limitStoreMap[p] # o0
      /\ \A p \in Servers, u \in Threads : thread[p][u].store # o0
      BY DEF Free
<1>11. /\ limitStoreMap'[s] = o0
       /\ \A p \in Servers \ {s} : limitStoreMap'[p] = limitStoreMap[p]
      BY <1>1
<1>5. MapOwned'
      BY <1>0, <1>1, <1>4, <1>11 DEF MapOwned
<1>6. ThreadHolds'
      BY <1>0, <1>2 DEF ThreadHolds
<1>7. ThreadOwned'
      BY <1>0, <1>2, <1>4 DEF ThreadOwned, Live
<1>8. StoppedUnmapped'
      BY <1>0, <1>2, <1>4, <1>11 DEF StoppedUnmapped, Stopping
<1>9. FlusherHolds'
  <2> SUFFICES ASSUME NEW o \in Stores, store'[o].flusher # None
               PROVE  /\ Live(o)'
                      /\ store'[o].flusher # "periodic" =>
                            /\ thread'[store'[o].owner][store'[o].flusher].store = o
                            /\ thread'[store'[o].owner][store'[o].flusher].pc = "flush"
      BY DEF FlusherHolds
  <2>0. o # o0 /\ store'[o] = store[o]
        OBVIOUS
  <2>4. store[o].flusher # None
        BY <2>0
  <2>1. /\ Live(o) /\ store[o].owner \in Servers
        /\ store[o].flusher # "periodic" =>
               /\ store[o].flusher \in Threads
               /\ thread[store[o].owner][store[o].flusher].store = o
               /\ thread[store[o].owner][store[o].flusher].pc = "flush"
        BY <1>0, <1>1, <2>4, FlusherThread, Zenon
  <2>3. Live(o)'
        BY <2>0, <2>1 DEF Live
  <2>2. CASE store[o].flusher # "periodic"
    <3> DEFINE p == store[o].owner
               u == store[o].flusher
    <3>1. /\ p \in Servers /\ u \in Threads
          /\ thread[p][u].store = o /\ thread[p][u].pc = "flush"
          BY <2>1, <2>2
    <3> HIDE DEF p, u
    <3>2. thread'[p][u] = thread[p][u]
          BY <1>2, <2>0, <3>1
    <3> QED
        BY <2>0, <2>3, <3>1, <3>2 DEF p, u
  <2> QED
      BY <2>0, <2>2, <2>3
<1>10. MappedOrStopping'
  <2> SUFFICES ASSUME NEW o \in Stores \ {o0}, Live(o), ~store[o].abandoned
               PROVE  \/ limitStoreMap'[store[o].owner] = o
                      \/ \E u \in Threads : Stopping(store[o].owner, u, o)'
      BY <1>11 DEF MappedOrStopping, Live, Stopping
  <2>1. store[o].owner \in Servers
        BY <1>3 DEF Live
  <2>2. ASSUME NEW u \in Threads, Stopping(store[o].owner, u, o)
        PROVE  Stopping(store[o].owner, u, o)'
        BY <1>2, <2>1, <2>2 DEF Stopping
  <2>3. limitStoreMap[store[o].owner] = o => limitStoreMap'[store[o].owner] = o
        BY <1>11, <2>1, LeadershipAssumption
  <2> QED
      BY <1>0, <2>2, <2>3 DEF MappedOrStopping
<1> QED
    BY <1>5, <1>6, <1>7, <1>8, <1>9, <1>10 DEF Owned

\* A crash takes a server's stores and threads together.
LEMMA CrashOwned ==
    ASSUME LeadTypeOK, Owned, NEW s \in Servers, Crash(s)
    PROVE  Owned'
<1>0. /\ MapOwned /\ ThreadHolds /\ ThreadOwned /\ StoppedUnmapped /\ FlusherHolds
      /\ MappedOrStopping
      BY DEF Owned
<1>1. /\ limitStoreMap \in [Servers -> Stores \cup {None}] /\ store \in [Stores -> StoreType]
      /\ thread \in [Servers -> [Threads -> ThreadType]]
      BY Types
<1>3. \A o \in Stores : /\ store[o].owner \in Servers \cup {None}
                        /\ store[o].flusher \in Threads \cup {"periodic", None}
      BY <1>1 DEF StoreType
<1>2. /\ Idle.pc = "idle" /\ Idle.store = None /\ None \notin Servers \cup Stores
      /\ Gone.owner = None /\ Gone.flusher = None
      BY IdleType, LeadershipAssumption DEF Gone
<1>4. /\ \A p \in Servers \ {s} : /\ limitStoreMap'[p] = limitStoreMap[p]
                                  /\ \A u \in Threads : thread'[p][u] = thread[p][u]
      /\ limitStoreMap'[s] = None /\ \A u \in Threads : thread'[s][u] = Idle
      BY <1>1 DEF Crash
<1>5. \A o \in Stores : IF store[o].owner = s THEN store'[o] = Gone ELSE store'[o] = store[o]
      BY DEF Crash
<1>6. MapOwned'
      BY <1>0, <1>1, <1>4, <1>5 DEF MapOwned
<1>7. ThreadHolds' /\ ThreadOwned'
      BY <1>0, <1>2, <1>4, <1>5 DEF ThreadHolds, ThreadOwned, Live
<1>8. StoppedUnmapped'
      BY <1>0, <1>2, <1>4 DEF StoppedUnmapped, Stopping
<1>9. FlusherHolds'
  <2> SUFFICES ASSUME NEW o \in Stores, store'[o].flusher # None
               PROVE  /\ Live(o)'
                      /\ store'[o].flusher # "periodic" =>
                            /\ thread'[store'[o].owner][store'[o].flusher].store = o
                            /\ thread'[store'[o].owner][store'[o].flusher].pc = "flush"
      BY DEF FlusherHolds
  <2>1. store'[o] = store[o] /\ store[o].owner # s
        BY <1>2, <1>5
  <2>2. Live(o) /\ Live(o)' /\ store[o].owner \in Servers \ {s}
        BY <1>0, <1>3, <2>1 DEF FlusherHolds, Live
  <2>3. CASE store[o].flusher # "periodic"
    <3> DEFINE p == store[o].owner
               u == store[o].flusher
    <3>1. /\ p \in Servers \ {s} /\ u \in Threads
          /\ thread[p][u].store = o /\ thread[p][u].pc = "flush"
          BY <1>0, <1>1, <2>1, <2>2, <2>3, FlusherThread
    <3> HIDE DEF p, u
    <3>2. thread'[p][u] = thread[p][u]
          BY <1>4, <3>1
    <3> QED
        BY <2>1, <2>2, <3>1, <3>2 DEF p, u
  <2> QED
      BY <2>1, <2>2, <2>3
<1>10. MappedOrStopping'
  <2> SUFFICES ASSUME NEW o \in Stores, Live(o)', ~store'[o].abandoned
               PROVE  \/ limitStoreMap'[store'[o].owner] = o
                      \/ \E u \in Threads : Stopping(store[o].owner, u, o)'
      BY DEF MappedOrStopping
  <2>1. store'[o] = store[o] /\ store[o].owner # s
        BY <1>2, <1>5 DEF Live
  <2>2. store[o].owner \in Servers \ {s} /\ Live(o)
        BY <1>3, <2>1 DEF Live
  <2>3. ASSUME NEW u \in Threads, Stopping(store[o].owner, u, o)
        PROVE  Stopping(store[o].owner, u, o)'
        BY <1>4, <2>1, <2>2, <2>3 DEF Stopping
  <2> QED
      BY <1>0, <1>4, <2>1, <2>2, <2>3 DEF MappedOrStopping
<1> QED
    BY <1>6, <1>7, <1>8, <1>9, <1>10 DEF Owned

\* The type invariant after a step.
LEMMA TypeStep ==
    ASSUME lease' \in Servers \cup {None}, unheard' \in SUBSET Servers,
           leaderInfo' \in [Servers -> BOOLEAN],
           limitStoreMap' \in [Servers -> Stores \cup {None}],
           store' \in [Stores -> StoreType],
           thread' \in [Servers -> [Threads -> ThreadType]],
           api' \in Quotas \cup {None},
           request' \in [server : Servers \cup {None}, store : Stores \cup {None}],
           quota' \in Quotas
    PROVE  LeadTypeOK'
BY DEF LeadTypeOK, StoreType, ThreadType

\* The elector waits as long as the lease is held, whatever the other threads do.
LEMMA ElectorStep ==
    ASSUME LeadTypeOK, ElectorWaits, NEW s \in Servers, NEW t \in Threads,
           NEW r \in ThreadType, thread' = [thread EXCEPT ![s][t] = r], UNCHANGED lease,
           t # "elector" \/ thread[s][t].pc # "idle"
    PROVE  ElectorWaits'
<1>1. thread \in [Servers -> [Threads -> ThreadType]]
      BY Types
<1>2. \A p \in Servers, u \in Threads : p # s \/ u # t => thread'[p][u] = thread[p][u]
      BY <1>1, ThreadUpdate
<1> QED
    BY <1>2 DEF ElectorWaits, Threads

\* A step of one thread as in ThreadMoves, with the variables it does not assign.
LEMMA ThreadMovesIInv ==
    ASSUME LeadIInv, SameOwners, store' \in [Stores -> StoreType],
           UNCHANGED <<lease, unheard, limitStoreMap, api, request, quota>>,
           leaderInfo' \in [Servers -> BOOLEAN],
           NEW s \in Servers, NEW t \in Threads, NEW r \in ThreadType,
           thread' = [thread EXCEPT ![s][t] = r],
           thread[s][t].pc \notin {"stop", "flush"}, r.pc \notin {"stop", "flush"},
           r.store = thread[s][t].store \/ r.store = None,
           r.pc \in {"load", "sync", "fail"} => r.store \in Stores,
           t # "elector" \/ thread[s][t].pc # "idle"
    PROVE  LeadIInv'
<1>0. LeadTypeOK /\ Owned /\ ElectorWaits
      BY DEF LeadIInv
<1>1. thread \in [Servers -> [Threads -> ThreadType]]
      BY <1>0, Types
<1>2. thread' \in [Servers -> [Threads -> ThreadType]]
      BY <1>1, ThreadUpdate
<1>3. LeadTypeOK'
      BY <1>0, <1>2, Types, TypeStep
<1>4. Owned'
      BY <1>0, ThreadMoves, Zenon
<1>5. ElectorWaits'
      BY <1>0, ElectorStep, Zenon
<1> QED
    BY <1>3, <1>4, <1>5 DEF LeadIInv

\* An unchanged heap of stores.
LEMMA SameStores ==
    ASSUME LeadIInv, UNCHANGED store
    PROVE  SameOwners /\ store' \in [Stores -> StoreType]
BY Types DEF LeadIInv, SameOwners

\* A store keeps its owner when its conditions are written.
LEMMA ConditionUpdate ==
    ASSUME LeadIInv, NEW o \in Stores, NEW r \in StoreType, store' = [store EXCEPT ![o] = r],
           r.owner = store[o].owner, r.flusher = store[o].flusher,
           r.abandoned = store[o].abandoned
    PROVE  SameOwners /\ store' \in [Stores -> StoreType]
<1>1. store \in [Stores -> StoreType]
      BY Types DEF LeadIInv
<1> QED
    BY <1>1 DEF SameOwners

\* Leader election: a server acquires the lease, hears of a leader, or loses the lease.
LEMMA ElectionStep ==
    ASSUME LeadIInv, NEW s \in Servers, Acquire(s) \/ SetLeader(s) \/ Lose(s)
    PROVE  LeadIInv'
<1>0. /\ LeadTypeOK /\ Owned /\ ElectorWaits
      /\ thread \in [Servers -> [Threads -> ThreadType]] /\ store \in [Stores -> StoreType]
      /\ "goroutine" \in Threads /\ "elector" \in Threads /\ "check" \in Threads
      BY Types DEF LeadIInv, Threads
<1>1. CASE Acquire(s)
  <2>1. PICK r \in ThreadType : /\ r.pc = "start" /\ r.store = thread[s]["goroutine"].store
                                /\ thread' = [thread EXCEPT ![s]["goroutine"] = r]
        BY <1>0, <1>1, GoToThread DEF Acquire
  <2>2. /\ thread' \in [Servers -> [Threads -> ThreadType]]
        /\ \A p \in Servers : thread'[p]["elector"] = thread[p]["elector"]
        BY <1>0, <2>1, ThreadUpdate
  <2>3. LeadTypeOK'
        BY <1>0, <1>1, <2>2, Types, TypeStep DEF Acquire
  <2>4. Owned'
        BY <1>0, <1>1, <2>1, ThreadMoves, SameStores, Zenon DEF Acquire
  <2>5. ElectorWaits'
        BY <1>1, <2>2 DEF Acquire, ElectorWaits
  <2> QED
      BY <2>3, <2>4, <2>5 DEF LeadIInv
<1>2. CASE SetLeader(s)
  <2>1. Owned'
        BY <1>0, <1>2, StoreMoves DEF SetLeader
  <2>2. leaderInfo' \in [Servers -> BOOLEAN] /\ unheard' \in SUBSET Servers
        BY <1>0, <1>2, Types DEF SetLeader
  <2>3. LeadTypeOK'
        BY <1>0, <1>2, <2>2, Types, TypeStep DEF SetLeader
  <2> QED
      BY <1>0, <1>2, <2>1, <2>3 DEF SetLeader, LeadIInv, ElectorWaits
<1>3. CASE Lose(s)
  <2>0. thread[s]["elector"].pc = "idle"
        BY <1>0, <1>3 DEF Lose, ElectorWaits
  <2>1. PICK r \in ThreadType : /\ r.pc = "remove" /\ r.store = thread[s]["elector"].store
                                /\ thread' = [thread EXCEPT ![s]["elector"] = r]
        BY <1>0, <1>3, GoToThread DEF Lose
  <2>2. thread' \in [Servers -> [Threads -> ThreadType]]
        BY <1>0, <2>1, ThreadUpdate
  <2>3. leaderInfo' \in [Servers -> BOOLEAN]
        BY <1>0, <1>3, Types DEF Lose
  <2>4. LeadTypeOK'
        BY <1>0, <1>3, <2>2, <2>3, Types, TypeStep DEF Lose
  <2>5. Owned'
        BY <1>0, <1>3, <2>0, <2>1, ThreadMoves, SameStores, Zenon DEF Lose
  <2>6. ElectorWaits'
        BY <1>3, LeadershipAssumption DEF Lose, ElectorWaits
  <2> QED
      BY <2>4, <2>5, <2>6 DEF LeadIInv
<1> QED
    BY <1>1, <1>2, <1>3

\* The handler of the upstream cluster's conditions only writes the state condition.
LEMMA HandlerKeepsOwners ==
    ASSUME LeadIInv, NEW s \in Servers, UpstreamConditionHandler(s)
    PROVE  SameOwners /\ store' \in [Stores -> StoreType]
<1> DEFINE o == limitStoreMap[s]
<1>1. o \in Stores /\ store \in [Stores -> StoreType]
      BY Types DEF LeadIInv, UpstreamConditionHandler
<1> DEFINE r == [store[o] EXCEPT !.state = TRUE]
<1>2. store[o] \in StoreType
      BY <1>1
<1>3. store' = [store EXCEPT ![o] = r]
      BY DEF UpstreamConditionHandler
<1> HIDE DEF o
<1>4. /\ r \in StoreType /\ r.owner = store[o].owner /\ r.flusher = store[o].flusher
      /\ r.abandoned = store[o].abandoned
      BY <1>2, Zenon DEF StoreType
<1> HIDE DEF r
<1> QED
    BY <1>1, <1>3, <1>4, ConditionUpdate, Zenon

\* A stopped store.
LEMMA GoneType == Gone \in StoreType /\ Gone.owner = None /\ Gone.flusher = None
BY DEF Gone, StoreType

\* A crash.
LEMMA CrashStep ==
    ASSUME LeadIInv, NEW s \in Servers, Crash(s)
    PROVE  LeadIInv'
<1>0. /\ LeadTypeOK /\ Owned /\ ElectorWaits
      /\ thread \in [Servers -> [Threads -> ThreadType]] /\ store \in [Stores -> StoreType]
      BY Types DEF LeadIInv
<1>1. /\ thread' \in [Servers -> [Threads -> ThreadType]]
      /\ \A p \in Servers \ {s} : thread'[p] = thread[p]
      /\ \A u \in Threads : thread'[s][u] = Idle
      BY <1>0, IdleType DEF Crash
<1>2. store' \in [Stores -> StoreType]
      BY <1>0, GoneType DEF Crash
<1>3. /\ limitStoreMap' \in [Servers -> Stores \cup {None}]
      /\ leaderInfo' \in [Servers -> BOOLEAN]
      BY <1>0, Types DEF Crash
<1>4. request' \in [server : Servers \cup {None}, store : Stores \cup {None}]
      BY <1>0, Types DEF Crash, NoRequest
<1>5. /\ lease' \in Servers \cup {None} /\ unheard' \in SUBSET Servers
      /\ UNCHANGED <<api, quota>>
      BY <1>0, Types DEF Crash
<1>6. LeadTypeOK'
      BY <1>0, <1>1, <1>2, <1>3, <1>4, <1>5, Types, TypeStep
<1>7. Owned'
      BY <1>0, CrashOwned
<1>8. ElectorWaits'
  <2>1. lease' # s /\ (lease' = lease \/ lease' = None) /\ "elector" \in Threads
        BY LeadershipAssumption DEF Crash, Threads
  <2> QED
      BY <1>0, <1>1, <2>1, LeadershipAssumption DEF ElectorWaits
<1> QED
    BY <1>6, <1>7, <1>8 DEF LeadIInv

\* The steps of the threads up to the moment at which they stop a store.
LEMMA LeadingStep ==
    ASSUME LeadIInv, NEW s \in Servers, NEW t \in Threads,
           \/ t = "goroutine" /\ StartLeading(s)
           \/ t = "check" /\ LeaderCheck(s)
           \/ Insert(s, t) \/ Load(s, t) \/ SyncUpstreams(s, t)
    PROVE  LeadIInv'
<1>0. /\ LeadTypeOK /\ Owned /\ ElectorWaits
      /\ thread \in [Servers -> [Threads -> ThreadType]] /\ store \in [Stores -> StoreType]
      /\ leaderInfo \in [Servers -> BOOLEAN]
      /\ limitStoreMap \in [Servers -> Stores \cup {None}] /\ api \in Quotas \cup {None}
      BY Types DEF LeadIInv
<1>1. CASE t = "goroutine" /\ StartLeading(s)
  <2>1. PICK r \in ThreadType : /\ r.pc = "insert" /\ r.store = thread[s][t].store
                                /\ thread' = [thread EXCEPT ![s][t] = r]
        BY <1>0, <1>1, GoToThread DEF StartLeading
  <2>2. leaderInfo' \in [Servers -> BOOLEAN]
        BY <1>0, <1>1 DEF StartLeading
  <2> QED
      BY <1>1, <2>1, <2>2, SameStores, ThreadMovesIInv, Zenon DEF StartLeading
<1>2. CASE t = "check" /\ LeaderCheck(s)
  <2>1. PICK pc \in {"insert", "remove"} : GoTo(s, t, pc)
        BY <1>2 DEF LeaderCheck
  <2>2. PICK r \in ThreadType : /\ r.pc = pc /\ r.store = thread[s][t].store
                                /\ thread' = [thread EXCEPT ![s][t] = r]
        BY <1>0, <2>1, GoToThread
  <2> QED
      BY <1>0, <1>2, <2>1, <2>2, SameStores, ThreadMovesIInv, Zenon DEF LeaderCheck, leadVars
<1>3. CASE Insert(s, t)
  <2>1. CASE Returns(s, t) /\ UNCHANGED <<store, limitStoreMap>>
        BY <1>0, <1>3, <2>1, IdleType, SameStores, ThreadMovesIInv, Zenon
        DEF Insert, Returns, leadVars
  <2>2. CASE limitStoreMap[s] = None /\ Insertion(s, t)
    <3> DEFINE o == NewAddress
               r == [Idle EXCEPT !.pc = "load", !.store = o]
    <3>1. /\ store' = [store EXCEPT ![o] = NewStore(s)]
          /\ limitStoreMap' = [limitStoreMap EXCEPT ![s] = o]
          /\ thread' = [thread EXCEPT ![s][t] = r]
          BY <2>2 DEF Insertion
    <3>2. o \in Stores /\ Free(o)
          BY <2>2 DEF Insertion, NewAddress
    <3> HIDE DEF o
    <3>3. r \in ThreadType /\ r.pc = "load" /\ r.store = o
          BY <3>2, NewLocals, Zenon
    <3> HIDE DEF r
    <3>4. /\ NewStore(s) \in StoreType
          /\ NewStore(s).owner = s /\ NewStore(s).flusher = None
          BY Zenon DEF NewStore, Gone, StoreType
    <3>5. /\ store' \in [Stores -> StoreType] /\ store'[o] = NewStore(s)
          /\ \A p \in Stores \ {o} : store'[p] = store[p]
          BY <1>0, <3>1, <3>2, <3>4
    <3>6. limitStoreMap' \in [Servers -> Stores \cup {None}]
          BY <1>0, <3>1, <3>2
    <3>7. thread' \in [Servers -> [Threads -> ThreadType]]
          BY <1>0, <3>1, <3>3, ThreadUpdate
    <3>8. thread[s][t].pc = "insert" /\ UNCHANGED <<leadVars, api, request, quota>>
          BY <1>3 DEF Insert
    <3>9. LeadTypeOK'
          BY <1>0, <3>5, <3>6, <3>7, <3>8, Types, TypeStep DEF leadVars
    <3>10. Owned'
          BY <1>0, <2>2, <3>1, <3>2, <3>3, <3>4, <3>5, <3>8, Inserted, Zenon
    <3>11. ElectorWaits'
          BY <1>0, <3>1, <3>3, <3>8, ElectorStep, Zenon DEF leadVars
    <3> QED
        BY <3>9, <3>10, <3>11 DEF LeadIInv
  <2> QED
      BY <1>3, <2>1, <2>2 DEF Insert
<1>4. CASE Load(s, t)
  <2>0. thread[s][t].pc = "load" /\ thread[s][t].store \in Stores
        BY <1>0, <1>4 DEF Load, Owned, ThreadHolds
  <2>1. PICK pc \in {"sync", "fail"} : GoTo(s, t, pc)
        BY <1>4 DEF Load
  <2>2. PICK r \in ThreadType : /\ r.pc = pc /\ r.store = thread[s][t].store
                                /\ thread' = [thread EXCEPT ![s][t] = r]
        BY <1>0, <2>1, GoToThread
  <2>3. SameOwners /\ store' \in [Stores -> StoreType]
    <3> DEFINE o == thread[s][t].store
               q == Overwrite(store[o].quota, api)
    <3>1. CASE UNCHANGED store
          BY <3>1, SameStores
    <3>2. CASE store' = [store EXCEPT ![o].quota = q]
      <4> DEFINE r1 == [store[o] EXCEPT !.quota = q]
      <4>1. o \in Stores /\ store[o] \in StoreType
            BY <1>0, <2>0
      <4>2. q \in Quotas \cup {None}
            BY <1>0, <4>1 DEF Overwrite, StoreType
      <4>3. store' = [store EXCEPT ![o] = r1]
            BY <3>2
      <4> HIDE DEF q, o
      <4>4. /\ r1 \in StoreType /\ r1.owner = store[o].owner /\ r1.flusher = store[o].flusher
            /\ r1.abandoned = store[o].abandoned
            BY <4>1, <4>2 DEF StoreType
      <4> HIDE DEF r1
      <4> QED
          BY <4>1, <4>3, <4>4, ConditionUpdate, Zenon
    <3> QED
        BY <1>4, <3>1, <3>2 DEF Load
  <2> QED
      BY <1>0, <1>4, <2>0, <2>1, <2>2, <2>3, ThreadMovesIInv, Zenon DEF Load, leadVars
<1>5. CASE SyncUpstreams(s, t)
  <2>0. /\ thread[s][t].pc = "sync" /\ thread[s][t].store \in Stores
        /\ UNCHANGED <<leadVars, limitStoreMap, api, request, quota>>
        BY <1>0, <1>5 DEF SyncUpstreams, Owned, ThreadHolds
  <2>1. PICK r \in ThreadType : /\ \/ r.pc = "idle" /\ r.store = None
                                   \/ r.pc = "fail" /\ r.store = thread[s][t].store
                                /\ thread' = [thread EXCEPT ![s][t] = r]
    <3>1. CASE Returns(s, t)
          BY <3>1, IdleType, Zenon DEF Returns
    <3>2. CASE GoTo(s, t, "fail")
          BY <1>0, <3>2, GoToThread
    <3> QED
        BY <1>5, <3>1, <3>2 DEF SyncUpstreams
  <2>2. SameOwners /\ store' \in [Stores -> StoreType]
    <3>1. CASE UNCHANGED store
          BY <3>1, SameStores
    <3>2. CASE UpstreamConditionHandler(s)
          BY <3>2, HandlerKeepsOwners
    <3> QED
        BY <1>5, <3>1, <3>2 DEF SyncUpstreams
  <2> QED
      BY <1>0, <2>0, <2>1, <2>2, ThreadMovesIInv, Zenon DEF leadVars
<1> QED
    BY <1>1, <1>2, <1>3, <1>4, <1>5

\* The steps with which a thread takes a store out of the map and stops it.
LEMMA StoppingStep ==
    ASSUME LeadIInv, NEW s \in Servers, NEW t \in Threads,
           Fail(s, t) \/ Remove(s, t) \/ Stop(s, t)
    PROVE  LeadIInv'
<1>0. /\ LeadTypeOK /\ Owned /\ ElectorWaits
      /\ thread \in [Servers -> [Threads -> ThreadType]] /\ store \in [Stores -> StoreType]
      /\ leaderInfo \in [Servers -> BOOLEAN]
      /\ limitStoreMap \in [Servers -> Stores \cup {None}]
      BY Types DEF LeadIInv
<1>1. ASSUME NEW r \in ThreadType, thread' = [thread EXCEPT ![s][t] = r], Owned',
             thread[s][t].pc # "idle", UNCHANGED <<leadVars, api, request, quota>>,
             store' \in [Stores -> StoreType],
             limitStoreMap' \in [Servers -> Stores \cup {None}]
      PROVE  LeadIInv'
  <2>1. thread' \in [Servers -> [Threads -> ThreadType]]
        BY <1>0, <1>1, ThreadUpdate
  <2>2. LeadTypeOK'
        BY <1>0, <1>1, <2>1, Types, TypeStep DEF leadVars
  <2>3. ElectorWaits'
        BY <1>0, <1>1, ElectorStep, Zenon DEF leadVars
  <2> QED
      BY <1>1, <2>2, <2>3 DEF LeadIInv
<1>2. CASE Fail(s, t)
  <2> DEFINE o == thread[s][t].store
  <2>1. /\ thread[s][t].pc = "fail" /\ o \in Stores /\ (Live(o) => store[o].owner = s)
        /\ UNCHANGED <<leadVars, store, api, request, quota>>
        BY <1>0, <1>2 DEF Fail, Owned, ThreadHolds, ThreadOwned
  <2>6. GoTo(s, t, "stop")
        BY <1>2 DEF Fail
  <2>2. PICK r \in ThreadType : /\ r.pc = "stop" /\ r.store = o
                                /\ thread' = [thread EXCEPT ![s][t] = r]
    <3>1. thread \in [Servers -> [Threads -> ThreadType]]
          BY <1>0
    <3> QED
        BY <2>6, <3>1, GoToThread
  <2>3. limitStoreMap' = [limitStoreMap EXCEPT ![s] = IF @ = o THEN None ELSE @]
        BY <1>2 DEF Fail
  <2> HIDE DEF o
  <2>4. Owned'
        BY <1>0, <2>1, <2>2, <2>3, TakesOut, Zenon
  <2>5. limitStoreMap' \in [Servers -> Stores \cup {None}]
        BY <1>0, <2>3
  <2> QED
      BY <1>0, <1>1, <2>1, <2>2, <2>4, <2>5, Zenon
<1>3. CASE Remove(s, t)
  <2>0. /\ thread[s][t].pc = "remove" /\ UNCHANGED <<leadVars, store, api, request, quota>>
        /\ limitStoreMap' = [limitStoreMap EXCEPT ![s] = None]
        BY <1>3 DEF Remove
  <2>1. CASE limitStoreMap[s] = None
    <3>1. limitStoreMap' = limitStoreMap
          BY <1>0, <2>0, <2>1
    <3>2. thread' = [thread EXCEPT ![s][t] = Idle]
          BY <1>3, <2>1 DEF Remove, Returns
    <3> QED
        BY <1>0, <2>0, <3>1, <3>2, IdleType, SameStores, ThreadMovesIInv, Zenon DEF leadVars
  <2>2. CASE limitStoreMap[s] # None
    <3> DEFINE o == limitStoreMap[s]
               r == [Idle EXCEPT !.pc = "stop", !.store = o]
    <3>1. o \in Stores /\ store[o].owner = s
          BY <1>0, <2>2 DEF Owned, MapOwned
    <3>2. thread' = [thread EXCEPT ![s][t] = r]
          BY <1>3, <2>2 DEF Remove
    <3>3. limitStoreMap' = [limitStoreMap EXCEPT ![s] = IF @ = o THEN None ELSE @]
          BY <2>0
    <3> HIDE DEF o
    <3>4. r \in ThreadType /\ r.pc = "stop" /\ r.store = o
          BY <3>1, NewLocals, Zenon
    <3> HIDE DEF r
    <3>5. Owned'
      <4>1. /\ LeadTypeOK /\ Owned /\ UNCHANGED store
            /\ Live(o) => store[o].owner = s
            /\ thread[s][t].pc \notin {"stop", "flush"}
            BY <1>0, <2>0, <3>1
      <4> QED
          BY <3>1, <3>2, <3>3, <3>4, <4>1, TakesOut, Zenon
    <3>6. limitStoreMap' \in [Servers -> Stores \cup {None}]
          BY <1>0, <2>0
    <3> QED
        BY <1>0, <1>1, <2>0, <3>2, <3>4, <3>5, <3>6, Zenon
  <2> QED
      BY <2>1, <2>2
<1>4. CASE Stop(s, t)
  <2> DEFINE o == thread[s][t].store
  <2>0. /\ thread[s][t].pc = "stop" /\ o \in Stores /\ Stopping(s, t, o)
        /\ UNCHANGED <<leadVars, limitStoreMap, api, request, quota>>
        BY <1>0, <1>4 DEF Stop, Owned, ThreadHolds, Stopping
  <2>1. CASE ~Live(o)
    <3>1. thread' = [thread EXCEPT ![s][t] = Idle] /\ UNCHANGED store
          BY <1>4, <2>1 DEF Stop, Returns
    <3>2. store[o].flusher = None /\ store[o].owner = None
          BY <1>0, <2>0, <2>1 DEF Owned, FlusherHolds, Live
    <3> HIDE DEF o
    <3>3. Owned'
          BY <1>0, <2>0, <3>1, <3>2, StopperReturns, Zenon
    <3> QED
        BY <1>0, <1>1, <2>0, <3>1, <3>3, IdleType, Zenon
  <2>2. CASE Live(o)
    <3> DEFINE st == [store[o] EXCEPT !.flusher = t, !.item = store[o].quota]
    <3>1. /\ store' = [store EXCEPT ![o].flusher = t, ![o].item = store[o].quota]
          /\ GoTo(s, t, "flush")
          BY <1>4, <2>2 DEF Stop
    <3>2. PICK r \in ThreadType : /\ r.pc = "flush" /\ r.store = o
                                  /\ thread' = [thread EXCEPT ![s][t] = r]
          BY <1>0, <3>1, GoToThread
    <3> HIDE DEF o
    <3>3. store' = [store EXCEPT ![o] = st]
          BY <1>0, <2>0, <3>1, Zenon
    <3>4. store[o] \in StoreType
          BY <1>0, <2>0
    <3>5. /\ st \in StoreType /\ st.owner = store[o].owner /\ st.flusher = t
          /\ st.abandoned = store[o].abandoned
          BY <3>4, Zenon DEF StoreType
    <3> HIDE DEF st
    <3>6. /\ store' \in [Stores -> StoreType] /\ store'[o] = st
          /\ \A p \in Stores \ {o} : store'[p] = store[p]
          BY <1>0, <2>0, <3>3, <3>5
    <3>7. Owned'
          BY <1>0, <2>0, <2>2, <3>2, <3>5, <3>6, StopperStays, Zenon
    <3> QED
        BY <1>0, <1>1, <2>0, <3>2, <3>6, <3>7, Zenon
  <2> QED
      BY <2>1, <2>2
<1> QED
    BY <1>2, <1>3, <1>4

\* The locals of a thread that will try again.
LEMMA RetryUpdate ==
    ASSUME NEW l \in ThreadType, l.tries + 1 # StopTries,
           NEW r, r = [l EXCEPT !.pc = "stop", !.tries = l.tries + 1]
    PROVE  r \in ThreadType /\ r.pc = "stop" /\ r.store = l.store
<1>1. l.tries \in 0..(StopTries - 1)
      BY DEF ThreadType
<1>2. l.tries + 1 \in 0..(StopTries - 1)
      BY <1>1, LeadershipAssumption
<1> QED
    BY <1>2, Zenon DEF ThreadType

\* The steps of a flush. The one that holds the lock of the store is its sync goroutine,
\* or a thread of its server that stops it.
LEMMA FlushStep ==
    ASSUME LeadIInv, NEW o \in Stores, PeriodicSync(o) \/ SyncEnds(o) \/ SyncFails(o)
    PROVE  LeadIInv'
<1> DEFINE s == store[o].owner
           t == store[o].flusher
<1>0. /\ LeadTypeOK /\ Owned /\ ElectorWaits
      /\ thread \in [Servers -> [Threads -> ThreadType]] /\ store \in [Stores -> StoreType]
      /\ store[o] \in StoreType /\ api \in Quotas \cup {None}
      BY Types DEF LeadIInv
<1>1. /\ s \in Servers \cup {None} /\ t \in Threads \cup {"periodic", None}
      /\ store[o].quota \in Quotas \cup {None} /\ store[o].item \in Quotas \cup {None}
      /\ store[o].abandoned \in BOOLEAN
      BY <1>0 DEF StoreType
<1>2. UNCHANGED <<leadVars, limitStoreMap, request, quota>>
      BY Zenon DEF PeriodicSync, SyncEnds, SyncFails
<1>3. api' \in Quotas \cup {None}
      BY <1>0, <1>1 DEF PeriodicSync, SyncEnds, SyncFails, Overwrite
\* The sync goroutine takes or releases the lock.
<1>4. ASSUME NEW f \in {"periodic", None}, NEW i \in Quotas \cup {None},
             store' = [store EXCEPT ![o] = [store[o] EXCEPT !.flusher = f, !.item = i]],
             Live(o), UNCHANGED thread
      PROVE  LeadIInv'
  <2> DEFINE r == [store[o] EXCEPT !.flusher = f, !.item = i]
  <2>0. f \in Threads \cup {"periodic", None}
        OBVIOUS
  <2>2. store' = [store EXCEPT ![o] = r] /\ r = [store[o] EXCEPT !.flusher = f, !.item = i]
        BY <1>4
  <2> HIDE DEF r
  <2>6. store[o] \in StoreType
        BY <1>0
  <2>1. /\ r \in StoreType /\ r.owner = s /\ r.flusher = f
        /\ r.abandoned = store[o].abandoned
        BY <2>0, <2>2, <2>6, Zenon DEF StoreType
  <2>3. /\ store' \in [Stores -> StoreType] /\ store'[o] = r
        /\ \A p \in Stores \ {o} : store'[p] = store[p]
        BY <1>0, <2>1, <2>2
  <2>4. Owned'
        BY <1>0, <1>2, <1>4, <2>1, <2>3, StoreMoves
  <2>5. LeadTypeOK'
        BY <1>0, <1>2, <1>3, <1>4, <2>3, Types, TypeStep DEF leadVars
  <2> QED
      BY <1>0, <1>2, <1>4, <2>4, <2>5 DEF LeadIInv, ElectorWaits, leadVars
<1>5. CASE PeriodicSync(o)
  <2>1. store' = [store EXCEPT ![o] = [store[o] EXCEPT !.flusher = "periodic",
                                                       !.item = store[o].quota]]
        BY <1>5, Zenon DEF PeriodicSync
  <2> QED
      BY <1>1, <1>4, <1>5, <2>1, Zenon DEF PeriodicSync
\* A thread that stops the store has the lock.
<1>6. ASSUME t # None, t # "periodic"
      PROVE  /\ s \in Servers /\ t \in Threads /\ Live(o) /\ Stopping(s, t, o)
             /\ thread[s][t].pc = "flush" /\ thread[s][t] \in ThreadType
  <2>1. /\ Live(o) /\ thread[s][t].store = o /\ thread[s][t].pc = "flush"
        BY <1>0, <1>6 DEF Owned, FlusherHolds
  <2> QED
      BY <1>0, <1>1, <1>6, <2>1 DEF Live, Stopping
<1>7. ASSUME t # None, t # "periodic", Owned', store' \in [Stores -> StoreType],
             NEW r \in ThreadType, thread' = [thread EXCEPT ![s][t] = r]
      PROVE  LeadIInv'
  <2>1. s \in Servers /\ t \in Threads /\ thread[s][t].pc # "idle"
        BY <1>6, <1>7
  <2> HIDE DEF s, t
  <2>2. thread' \in [Servers -> [Threads -> ThreadType]]
        BY <1>0, <1>7, <2>1, ThreadUpdate
  <2>3. LeadTypeOK'
        BY <1>0, <1>2, <1>3, <1>7, <2>2, Types, TypeStep DEF leadVars
  <2>4. ElectorWaits'
        BY <1>0, <1>2, <1>7, <2>1, ElectorStep, Zenon DEF leadVars
  <2> QED
      BY <1>7, <2>3, <2>4 DEF LeadIInv
<1>8. CASE SyncEnds(o)
  <2>0. t # None
        BY <1>8 DEF SyncEnds
  <2>1. CASE t = "periodic"
    <3>1. /\ store' = [store EXCEPT ![o] = [store[o] EXCEPT !.flusher = None, !.item = None]]
          /\ UNCHANGED thread
          BY <1>8, <2>1, Zenon DEF SyncEnds
    <3>2. Live(o)
          BY <1>0, <2>0 DEF Owned, FlusherHolds
    <3> QED
        BY <1>4, <3>1, <3>2, Zenon
  <2>2. CASE t # "periodic"
    <3>1. store' = [store EXCEPT ![o] = Gone] /\ thread' = [thread EXCEPT ![s][t] = Idle]
          BY <1>8, <2>2 DEF SyncEnds, Returns
    <3>2. /\ store' \in [Stores -> StoreType] /\ store'[o] = Gone
          /\ \A p \in Stores \ {o} : store'[p] = store[p]
          BY <1>0, <3>1, GoneType
    <3>3. s \in Servers /\ t \in Threads /\ Stopping(s, t, o)
          BY <1>6, <2>0, <2>2
    <3>4. Owned'
      <4> HIDE DEF s, t
      <4> QED
          BY <1>0, <1>2, <3>1, <3>2, <3>3, GoneType, StopperReturns, Zenon
    <3> QED
        BY <1>7, <2>0, <2>2, <3>1, <3>2, <3>4, IdleType, Zenon
  <2> QED
      BY <2>1, <2>2
<1>9. CASE SyncFails(o)
  <2>0. t # None
        BY <1>9, Zenon DEF SyncFails
  <2>1. CASE t = "periodic"
    <3>1. /\ store' = [store EXCEPT ![o].flusher = None, ![o].item = None,
                                   ![o].abandoned = @ \/ FALSE]
          /\ UNCHANGED thread
          BY <1>9, <2>1 DEF SyncFails
    <3>2. store' = [store EXCEPT ![o] = [store[o] EXCEPT !.flusher = None, !.item = None]]
          BY <1>0, <1>1, <3>1, Zenon DEF StoreType
    <3>3. Live(o)
          BY <1>0, <2>0 DEF Owned, FlusherHolds
    <3> QED
        BY <1>4, <3>1, <3>2, <3>3, Zenon
  <2>2. CASE t # "periodic"
    <3> DEFINE givesUp == thread[s][t].tries + 1 = StopTries
               st == [store[o] EXCEPT !.flusher = None, !.item = None,
                                      !.abandoned = store[o].abandoned \/ givesUp]
    <3>1. /\ s \in Servers /\ t \in Threads /\ Live(o) /\ Stopping(s, t, o)
          /\ thread[s][t] \in ThreadType
          BY <1>6, <2>0, <2>2
    <3>2. /\ store' = [store EXCEPT ![o] = st]
          /\ IF givesUp THEN Returns(s, t)
             ELSE thread' = [thread EXCEPT ![s][t].pc = "stop", ![s][t].tries = @ + 1]
          BY <1>9, <2>2, Zenon DEF SyncFails
    <3>3. /\ st \in StoreType /\ st.owner = s /\ st.flusher = None
          /\ givesUp => st.abandoned
          /\ ~givesUp => st.abandoned = store[o].abandoned
          BY <1>0, <1>1, Zenon DEF StoreType
    <3> HIDE DEF st
    <3>4. /\ store' \in [Stores -> StoreType] /\ store'[o] = st
          /\ \A p \in Stores \ {o} : store'[p] = store[p]
          BY <1>0, <3>2, <3>3
    <3>5. CASE givesUp
      <4>1. thread' = [thread EXCEPT ![s][t] = Idle]
            BY <3>2, <3>5 DEF Returns
      <4>2. store'[o].owner = store[o].owner /\ store'[o].flusher = None /\ store'[o].abandoned
            BY <3>3, <3>4, <3>5
      <4>3. Owned'
        <5> HIDE DEF s, t
        <5> QED
            BY <1>0, <1>2, <3>1, <3>4, <4>1, <4>2, StopperReturns, Zenon
      <4> QED
          BY <1>7, <2>0, <2>2, <3>4, <4>1, <4>3, IdleType, Zenon
    <3>6. CASE ~givesUp
      <4> DEFINE r == [thread[s][t] EXCEPT !.pc = "stop", !.tries = thread[s][t].tries + 1]
      <4>1. thread' = [thread EXCEPT ![s][t] = r]
        <5>1. thread' = [thread EXCEPT ![s][t].pc = "stop", ![s][t].tries = @ + 1]
              BY <3>2, <3>6, Zenon
        <5>2. thread \in [Servers -> [Threads -> ThreadType]] /\ s \in Servers /\ t \in Threads
              BY <1>0, <3>1
        <5> HIDE DEF s, t
        <5> QED
            BY <5>1, <5>2 DEF ThreadType
      <4>3. r \in ThreadType /\ r.pc = "stop" /\ r.store = thread[s][t].store
        <5>1. PICK l \in ThreadType : l = thread[s][t]
              BY <3>1
        <5>2. l.tries + 1 # StopTries
              BY <3>6, <5>1
        <5>3. r = [l EXCEPT !.pc = "stop", !.tries = l.tries + 1]
              BY <5>1
        <5> HIDE DEF r
        <5>4. r \in ThreadType /\ r.pc = "stop" /\ r.store = l.store
              BY <5>2, <5>3, RetryUpdate, Zenon
        <5> QED
            BY <5>1, <5>4
      <4> HIDE DEF r
      <4>4. r.store = o
            BY <3>1, <4>3 DEF Stopping
      <4>5. store'[o].owner = store[o].owner /\ store'[o].flusher = None
            /\ store'[o].abandoned = store[o].abandoned
            BY <3>3, <3>4, <3>6
      <4>6. Owned'
        <5> HIDE DEF s, t
        <5> QED
            BY <1>0, <1>2, <3>1, <3>4, <4>1, <4>3, <4>4, <4>5, StopperStays, Zenon
      <4> QED
          BY <1>7, <2>0, <2>2, <3>4, <4>1, <4>3, <4>6, Zenon
    <3> QED
        BY <3>5, <3>6
  <2> QED
      BY <2>1, <2>2
<1> QED
    BY <1>5, <1>8, <1>9

\* Steps that write conditions into stores: the threads, the map and the lease stay.
LEMMA ConditionStep ==
    ASSUME LeadIInv, SameOwners, store' \in [Stores -> StoreType],
           UNCHANGED <<leadVars, limitStoreMap, thread, api>>,
           request' \in [server : Servers \cup {None}, store : Stores \cup {None}],
           quota' \in Quotas
    PROVE  LeadIInv'
<1>1. LeadTypeOK /\ Owned /\ ElectorWaits
      BY DEF LeadIInv
<1>2. UNCHANGED <<lease, unheard, leaderInfo, limitStoreMap, thread, api>>
      BY DEF leadVars
<1>3. LeadTypeOK'
  <2>1. /\ lease' \in Servers \cup {None} /\ unheard' \in SUBSET Servers
        /\ leaderInfo' \in [Servers -> BOOLEAN]
        /\ limitStoreMap' \in [Servers -> Stores \cup {None}]
        /\ thread' \in [Servers -> [Threads -> ThreadType]] /\ api' \in Quotas \cup {None}
        BY <1>1, <1>2, Types
  <2> QED
      BY <2>1, TypeStep
<1>4. Owned'
  <2>1. \A o \in Stores : /\ store'[o].owner = store[o].owner
                          /\ store'[o].abandoned = store[o].abandoned
                          /\ store'[o].flusher = store[o].flusher
        BY DEF SameOwners
  <2> QED
      BY <1>1, <1>2, <2>1, StoreMoves
<1>5. ElectorWaits'
      BY <1>1, <1>2 DEF ElectorWaits
<1> QED
    BY <1>3, <1>4, <1>5 DEF LeadIInv

\* An event of the upstream cluster, and the gateway's update of its condition.
LEMMA GatewayStep ==
    ASSUME LeadIInv, Updates \/ \E s \in Servers : UpstreamEvent(s)
    PROVE  LeadIInv'
<1>1. /\ store \in [Stores -> StoreType] /\ limitStoreMap \in [Servers -> Stores \cup {None}]
      /\ request \in [server : Servers \cup {None}, store : Stores \cup {None}]
      /\ quota \in Quotas
      BY Types DEF LeadIInv
<1>2. CASE \E s \in Servers : UpstreamEvent(s)
  <2>1. PICK s \in Servers : UpstreamEvent(s)
        BY <1>2
  <2>2. SameOwners /\ store' \in [Stores -> StoreType]
        BY <2>1, HandlerKeepsOwners DEF UpstreamEvent
  <2> QED
      BY <1>1, <2>1, <2>2, ConditionStep DEF UpstreamEvent
<1>3. CASE \E s \in Servers : UpdateBegins(s)
  <2>1. PICK s \in Servers : UpdateBegins(s)
        BY <1>3
  <2>2. SameOwners /\ store' \in [Stores -> StoreType]
        BY <2>1, SameStores DEF UpdateBegins
  <2>3. request' \in [server : Servers \cup {None}, store : Stores \cup {None}]
        BY <1>1, <2>1 DEF UpdateBegins
  <2> QED
      BY <1>1, <2>1, <2>2, <2>3, ConditionStep DEF UpdateBegins
<1>4. CASE UpdateSaves
  <2> DEFINE o == request.store
  <2>1. PICK q \in Quotas : /\ store' = IF Live(o)
                                        THEN [store EXCEPT ![o].quota = q, ![o].state = TRUE]
                                        ELSE store
                            /\ quota' = q
        BY <1>4 DEF UpdateSaves
  <2>2. o \in Stores
        BY <1>1, <1>4 DEF UpdateSaves
  <2>3. NoRequest \in [server : Servers \cup {None}, store : Stores \cup {None}]
        BY DEF NoRequest
  <2>4. SameOwners /\ store' \in [Stores -> StoreType]
    <3> HIDE DEF o
    <3>1. CASE ~Live(o)
          BY <2>1, <3>1, SameStores
    <3>2. CASE Live(o)
      <4> DEFINE r == [store[o] EXCEPT !.quota = q, !.state = TRUE]
      <4>1. store[o] \in StoreType
            BY <1>1, <2>2
      <4>2. store' = [store EXCEPT ![o] = r]
            BY <1>1, <2>1, <2>2, <3>2, Zenon DEF StoreType
      <4>3. /\ r \in StoreType /\ r.owner = store[o].owner /\ r.flusher = store[o].flusher
            /\ r.abandoned = store[o].abandoned
            BY <4>1, Zenon DEF StoreType
      <4> HIDE DEF r
      <4> QED
          BY <2>2, <4>2, <4>3, ConditionUpdate, Zenon
    <3> QED
        BY <3>1, <3>2
  <2> QED
      BY <1>1, <1>4, <2>1, <2>3, <2>4, ConditionStep DEF UpdateSaves
<1> QED
    BY <1>2, <1>3, <1>4 DEF Updates

\* Before the first election there are no stores.
LEMMA InitLeadIInv == Init => LeadIInv
<1> SUFFICES ASSUME Init PROVE LeadIInv
    OBVIOUS
<1>1. LeadTypeOK
  <2>1. quota \in Quotas
        BY LeadershipAssumption DEF Init
  <2>2. /\ store \in [Stores -> StoreType]
        /\ thread \in [Servers -> [Threads -> ThreadType]]
        BY GoneType, IdleType DEF Init
  <2>3. request \in [server : Servers \cup {None}, store : Stores \cup {None}]
        BY DEF Init, NoRequest
  <2> QED
      BY <2>1, <2>2, <2>3, Types DEF Init
<1>2. /\ \A o \in Stores : store[o] = Gone
      /\ \A s \in Servers : limitStoreMap[s] = None
      /\ \A s \in Servers, t \in Threads : thread[s][t] = Idle
      /\ "elector" \in Threads
      BY DEF Init, Threads
<1>3. Owned
      BY <1>2, GoneType, IdleType, LeadershipAssumption
      DEF Owned, MapOwned, ThreadHolds, ThreadOwned, StoppedUnmapped, FlusherHolds,
          MappedOrStopping, Stopping, Live
<1>4. ElectorWaits
      BY <1>2, IdleType DEF ElectorWaits
<1> QED
    BY <1>1, <1>3, <1>4 DEF LeadIInv

\* Every step keeps the invariant.
LEMMA NextLeadIInv == LeadIInv /\ [Next]_vars => LeadIInv'
<1> SUFFICES ASSUME LeadIInv, [Next]_vars PROVE LeadIInv'
    OBVIOUS
<1>1. CASE Election
      BY <1>1, ElectionStep, CrashStep DEF Election
<1>2. ASSUME NEW s \in Servers, NEW t \in Threads, Runs(s, t) PROVE LeadIInv'
      BY <1>2, LeadingStep, StoppingStep DEF Runs
<1>3. ASSUME NEW o \in Stores, PeriodicSync(o) \/ SyncEnds(o) \/ SyncFails(o)
      PROVE  LeadIInv'
      BY <1>3, FlushStep
<1>4. CASE Updates \/ \E s \in Servers : UpstreamEvent(s)
      BY <1>4, GatewayStep
<1>5. CASE UNCHANGED vars
  <2>1. /\ SameOwners /\ store' \in [Stores -> StoreType]
        /\ UNCHANGED <<leadVars, limitStoreMap, thread, api, request, quota>>
        BY <1>5, SameStores DEF vars
  <2>2. /\ request \in [server : Servers \cup {None}, store : Stores \cup {None}]
        /\ quota \in Quotas
        BY Types DEF LeadIInv
  <2> QED
      BY <2>1, <2>2, ConditionStep
<1> QED
    BY <1>1, <1>2, <1>3, <1>4, <1>5 DEF Next

\* The inductive invariant holds in every reachable state.
THEOREM LeadInvariance == Spec => []LeadIInv
<1>1. Init => LeadIInv
      BY InitLeadIInv
<1>2. LeadIInv /\ [Next]_vars => LeadIInv'
      BY NextLeadIInv
<1> QED
    BY <1>1, <1>2, PTL DEF Spec

\* Type correctness of the servers, their stores and threads, and of the API server. In
\* particular stopLimitStoreWithRetry never tries more than StopTries times.
THEOREM LeadTypeCorrect == Spec => []LeadTypeOK
<1>1. LeadIInv => LeadTypeOK
      BY DEF LeadIInv
<1> QED
    BY <1>1, LeadInvariance, PTL

\* No store leaks, however startLeading, stopLeading and leaderCheck of a server overlap and
\* whichever loads and flushes fail: a store whose sync goroutine runs is in limitStoreMap,
\* or a thread has it in hand, or every attempt to stop it has failed.
THEOREM NoStoreLeaks == Spec => []NoLeakedStore
<1>1. LeadIInv => NoLeakedStore
      BY DEF LeadIInv, Owned, MappedOrStopping, Stopping, NoLeakedStore
<1> QED
    BY <1>1, LeadInvariance, PTL

\* The store that the handlers of a server find in limitStoreMap is one of that server, its
\* sync goroutine runs, and no thread is stopping it.
ServesRunningStore ==
    \A s \in Servers : limitStoreMap[s] # None =>
        LET o == limitStoreMap[s]
        IN  /\ store[o].owner = s
            /\ \A t \in Threads : thread[s][t].store = o =>
                                      thread[s][t].pc \notin {"stop", "flush"}
            /\ store[o].flusher \in {None, "periodic"}

\* However startLeading, stopLeading and leaderCheck overlap and whichever loads and flushes
\* fail, a handler never finds a store that was stopped or that a thread is stopping: the last
\* flush of the store it finds is still to come.
THEOREM ServedStoreRuns == Spec => []ServesRunningStore
<1>1. LeadIInv => ServesRunningStore
  <2> SUFFICES ASSUME LeadIInv, NEW s \in Servers, limitStoreMap[s] # None,
                      NEW o, o = limitStoreMap[s]
               PROVE  /\ store[o].owner = s
                      /\ \A t \in Threads : thread[s][t].store = o =>
                                                thread[s][t].pc \notin {"stop", "flush"}
                      /\ store[o].flusher \in {None, "periodic"}
    BY DEF ServesRunningStore
  <2>1. o \in Stores /\ store[o].owner = s
    BY DEF LeadIInv, LeadTypeOK, Owned, MapOwned
  <2>2. \A t \in Threads : ~Stopping(s, t, o)
    BY <2>1 DEF LeadIInv, Owned, StoppedUnmapped
  <2>3. store[o].flusher \in {None, "periodic"}
    <3> SUFFICES ASSUME store[o].flusher # None, store[o].flusher # "periodic" PROVE FALSE
      OBVIOUS
    <3>1. store[o].flusher \in Threads
      BY <2>1, Types DEF LeadIInv, StoreType
    <3>2. Stopping(s, store[o].flusher, o)
      BY <2>1 DEF LeadIInv, Owned, FlusherHolds, Stopping
    <3> QED
      BY <2>2, <3>1, <3>2
  <2> QED
    BY <2>1, <2>2, <2>3 DEF Stopping
<1> QED
  BY <1>1, LeadInvariance, PTL
=============================================================================
