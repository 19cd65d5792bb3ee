--------------------------- MODULE SyncQueueProofs ---------------------------
(***************************************************************************)
(* Proofs about SyncQueue, for any items, workers and retry limits.        *)
(*                                                                         *)
(* QueueTypeOK and NoConcurrentHandler are not inductive: that a worker    *)
(* takes an item nobody holds needs QueuedDirty and ProcessingHeld, which  *)
(* relate the workqueue's three sets to what the workers hold.             *)
(***************************************************************************)
EXTENDS SyncQueue, TLAPS

\* A queued item needs processing and is with no worker.
QueuedDirty == \A n \in 1..Len(queue) : queue[n] \in dirty /\ queue[n] \notin processing

\* The items in processing are the ones that workers hold.
ProcessingHeld == \A i \in Items : i \in processing <=> \E w \in Workers : held[w] = i

\* The inductive invariant.
QueueIInv ==
    /\ QueueTypeOK
    /\ QueuedDirty
    /\ ProcessingHeld
    /\ NoConcurrentHandler
    /\ NeverLost
    /\ RetriesBounded

\* What appending an item that is not yet queued does to the queue.
LEMMA AppendFresh ==
    ASSUME NEW S, NEW q \in Seq(S), NEW e \in S,
           \A m, n \in 1..Len(q) : q[m] = q[n] => m = n,
           \A n \in 1..Len(q) : q[n] # e
    PROVE  LET p == Append(q, e)
           IN  /\ p \in Seq(S)
               /\ \A m, n \in 1..Len(p) : p[m] = p[n] => m = n
               /\ \A n \in 1..Len(p) : p[n] = e \/ \E m \in 1..Len(q) : p[n] = q[m]
               /\ \A m \in 1..Len(q) : \E n \in 1..Len(p) : p[n] = q[m]
               /\ \E n \in 1..Len(p) : p[n] = e
<1> DEFINE p == Append(q, e)
<1>1. /\ p \in Seq(S) /\ Len(p) = Len(q) + 1 /\ Len(q) \in Nat
      /\ p[Len(p)] = e
      /\ \A n \in 1..Len(q) : p[n] = q[n]
      /\ 1..Len(p) = 1..Len(q) \union {Len(p)}
  OBVIOUS
<1> HIDE DEF p
<1>2. QED
  BY <1>1 DEF p

\* What taking the head off a queue without duplicates does.
LEMMA TailUnique ==
    ASSUME NEW S, NEW q \in Seq(S), q # <<>>,
           \A m, n \in 1..Len(q) : q[m] = q[n] => m = n
    PROVE  LET p == Tail(q)
           IN  /\ p \in Seq(S)
               /\ Head(q) \in S
               /\ \E n \in 1..Len(q) : q[n] = Head(q)
               /\ \A m, n \in 1..Len(p) : p[m] = p[n] => m = n
               /\ \A n \in 1..Len(p) : p[n] # Head(q) /\ \E m \in 1..Len(q) : p[n] = q[m]
               /\ \A m \in 1..Len(q) : q[m] # Head(q) => \E n \in 1..Len(p) : p[n] = q[m]
<1> DEFINE p == Tail(q)
<1>1. /\ p \in Seq(S) /\ Len(p) = Len(q) - 1 /\ Len(q) \in Nat /\ Len(q) > 0
      /\ Head(q) = q[1] /\ Head(q) \in S
      /\ \A n \in 1..Len(p) : p[n] = q[n + 1] /\ n + 1 \in 1..Len(q) /\ n + 1 # 1
  OBVIOUS
<1>2. \A m \in 1..Len(q) : m # 1 => m - 1 \in 1..Len(p) /\ p[m - 1] = q[m]
  BY <1>1
<1> HIDE DEF p
<1>3. 1 \in 1..Len(q)
  BY <1>1
<1>4. \A m, n \in 1..Len(p) : p[m] = p[n] => m = n
  BY <1>1
<1>5. \A n \in 1..Len(p) : p[n] # Head(q) /\ \E m \in 1..Len(q) : p[n] = q[m]
  BY <1>1, <1>3
<1>6. \A m \in 1..Len(q) : q[m] # Head(q) => \E n \in 1..Len(p) : p[n] = q[m]
  BY <1>1, <1>2
<1>7. QED
  BY <1>1, <1>3, <1>4, <1>5, <1>6 DEF p

\* workqueue.Add keeps the queue consistent and loses no dirty item.
LEMMA AddKeeps ==
    ASSUME QueueIInv, NEW i \in Items, Add(i)
    PROVE  /\ queue' \in Seq(Items)
           /\ \A m, n \in 1..Len(queue') : queue'[m] = queue'[n] => m = n
           /\ dirty' \subseteq Items
           /\ \A n \in 1..Len(queue') : queue'[n] \in dirty' /\ queue'[n] \notin processing
           /\ \A j \in dirty' : \/ \E n \in 1..Len(queue') : queue'[n] = j
                                \/ \E w \in Workers : held[w] = j
<1> USE DEF QueueIInv, QueueTypeOK, QueuedDirty, ProcessingHeld, NeverLost, Add
<1>1. CASE i \in dirty \/ i \in processing
  <2>1. queue' = queue /\ dirty' = dirty \union {i}
    BY <1>1
  <2>2. \A j \in dirty' : \/ \E n \in 1..Len(queue) : queue[n] = j
                          \/ \E w \in Workers : held[w] = j
    BY <1>1, <2>1, Zenon
  <2>3. QED
    BY <2>1, <2>2
<1>2. CASE ~(i \in dirty \/ i \in processing)
  <2>1. queue' = Append(queue, i) /\ dirty' = dirty \union {i}
    BY <1>2
  <2>2. \A n \in 1..Len(queue) : queue[n] # i
    BY <1>2
  <2>3. /\ queue' \in Seq(Items)
        /\ \A m, n \in 1..Len(queue') : queue'[m] = queue'[n] => m = n
        /\ \A n \in 1..Len(queue') : queue'[n] = i \/ \E m \in 1..Len(queue) : queue'[n] = queue[m]
        /\ \A m \in 1..Len(queue) : \E n \in 1..Len(queue') : queue'[n] = queue[m]
        /\ \E n \in 1..Len(queue') : queue'[n] = i
    BY <2>1, <2>2, AppendFresh
  <2>4. \A n \in 1..Len(queue') : queue'[n] \in dirty' /\ queue'[n] \notin processing
    BY <1>2, <2>1, <2>3
  <2>5. ASSUME NEW j \in dirty'
        PROVE  \/ \E n \in 1..Len(queue') : queue'[n] = j
               \/ \E w \in Workers : held[w] = j
    <3>1. CASE j = i
      BY <3>1, <2>3
    <3>2. CASE j # i
      <4>1. \/ \E m \in 1..Len(queue) : queue[m] = j
            \/ \E w \in Workers : held[w] = j
        BY <2>1, <2>5, <3>2
      <4>2. QED
        BY <4>1, <2>3
    <3>3. QED
      BY <3>1, <3>2
  <2>6. QED
    BY <2>1, <2>3, <2>4, <2>5
<1>3. QED
  BY <1>1, <1>2, Zenon

\* The empty queue with parked workers satisfies the invariant.
LEMMA InitQueueIInv == QueueInit => QueueIInv
<1> SUFFICES ASSUME QueueInit PROVE QueueIInv
  OBVIOUS
<1>1. QueueTypeOK
  <2>1. queue \in Seq(Items) /\ Len(queue) = 0
    BY DEF QueueInit
  <2>2. \A m, n \in 1..Len(queue) : queue[m] = queue[n] => m = n
    BY <2>1
  <2>3. numRequeues \in [Items -> Nat] /\ held \in [Workers -> Items \union {NoItem}]
    BY DEF QueueInit
  <2>4. worker \in [Workers -> {"parked", "polling", "busy", "exited"}]
    BY DEF QueueInit
  <2>5. \A w \in Workers : worker[w] = "busy" <=> held[w] # NoItem
    BY DEF QueueInit
  <2>6. QED
    BY <2>1, <2>2, <2>3, <2>4, <2>5, Zenon DEF QueueInit, QueueTypeOK
<1>2. QueuedDirty /\ NeverLost /\ NoConcurrentHandler
  BY DEF QueueInit, QueuedDirty, NeverLost, NoConcurrentHandler
<1>3. ProcessingHeld
  BY QueueAssumption DEF QueueInit, ProcessingHeld
<1>4. RetriesBounded
  BY QueueAssumption DEF QueueInit, RetriesBounded
<1>5. QED
  BY <1>1, <1>2, <1>3, <1>4 DEF QueueIInv

\* An item is added by an event or when its delay is over.
LEMMA AddIInv ==
    ASSUME QueueIInv, NEW i \in Items, Enqueue(i) \/ Ripen(i)
    PROVE  QueueIInv'
<1>1. /\ Add(i)
      /\ waiting' \subseteq waiting
      /\ UNCHANGED <<processing, numRequeues, shuttingDown, worker, held>>
  BY DEF Enqueue, Ripen
<1>2. /\ queue' \in Seq(Items)
      /\ \A m, n \in 1..Len(queue') : queue'[m] = queue'[n] => m = n
      /\ dirty' \subseteq Items
      /\ \A n \in 1..Len(queue') : queue'[n] \in dirty' /\ queue'[n] \notin processing
      /\ \A j \in dirty' : \/ \E n \in 1..Len(queue') : queue'[n] = j
                           \/ \E w \in Workers : held[w] = j
  BY <1>1, AddKeeps
<1>3. QueueTypeOK'
  BY <1>1, <1>2 DEF QueueIInv, QueueTypeOK
<1>4. QueuedDirty' /\ NeverLost'
  BY <1>1, <1>2 DEF QueuedDirty, NeverLost
<1>5. ProcessingHeld' /\ NoConcurrentHandler' /\ RetriesBounded'
  BY <1>1 DEF QueueIInv, ProcessingHeld, NoConcurrentHandler, RetriesBounded
<1>6. QED
  BY <1>3, <1>4, <1>5 DEF QueueIInv

\* A worker starts a round, or takes the oldest item, or leaves.
LEMMA TakeIInv ==
    ASSUME QueueIInv, NEW w \in Workers, StartWorker(w) \/ Get(w)
    PROVE  QueueIInv'
<1>1. CASE held' = held
  <2>1. /\ UNCHANGED <<queue, dirty, processing, waiting, numRequeues, shuttingDown, held>>
        /\ \E s \in {"parked", "polling", "exited"} : worker' = [worker EXCEPT ![w] = s]
        /\ worker[w] # "busy"
    <3>1. CASE StartWorker(w)
      BY <3>1, Zenon DEF StartWorker
    <3>2. CASE Get(w) /\ queue = <<>>
      BY <3>2 DEF Get
    <3>3. CASE Get(w) /\ queue # <<>>
      <4>1. held'[w] = Head(queue) /\ worker[w] = "polling" /\ Head(queue) \in Items
        BY <3>3 DEF Get, QueueIInv, QueueTypeOK
      <4>2. held[w] = NoItem
        BY <4>1 DEF QueueIInv, QueueTypeOK
      <4>3. QED
        BY <4>1, <4>2, <1>1, QueueAssumption
    <3>4. QED
      BY <3>1, <3>2, <3>3
  <2>2. QueueTypeOK'
    BY <2>1 DEF QueueIInv, QueueTypeOK
  <2>3. QED
    BY <2>1, <2>2 DEF QueueIInv, QueuedDirty, ProcessingHeld, NoConcurrentHandler, NeverLost,
                      RetriesBounded
<1>2. CASE held' # held
  <2> DEFINE h == Head(queue)
  <2>1. /\ queue # <<>> /\ worker[w] = "polling"
        /\ queue' = Tail(queue)
        /\ dirty' = dirty \ {h}
        /\ processing' = processing \union {h}
        /\ held' = [held EXCEPT ![w] = h]
        /\ worker' = [worker EXCEPT ![w] = "busy"]
        /\ UNCHANGED <<waiting, numRequeues, shuttingDown>>
    BY <1>2 DEF StartWorker, Get
  <2>2. /\ queue' \in Seq(Items)
        /\ h \in Items
        /\ \E n \in 1..Len(queue) : queue[n] = h
        /\ \A m, n \in 1..Len(queue') : queue'[m] = queue'[n] => m = n
        /\ \A n \in 1..Len(queue') : queue'[n] # h /\ \E m \in 1..Len(queue) : queue'[n] = queue[m]
        /\ \A m \in 1..Len(queue) : queue[m] # h => \E n \in 1..Len(queue') : queue'[n] = queue[m]
    BY <2>1, TailUnique DEF QueueIInv, QueueTypeOK
  <2> HIDE DEF h
  <2>3. h \notin processing /\ \A v \in Workers : held[v] # h
    BY <2>2 DEF QueueIInv, QueuedDirty, ProcessingHeld
  <2>4. held[w] = NoItem /\ h # NoItem
    BY <2>1, <2>2, QueueAssumption DEF QueueIInv, QueueTypeOK
  <2>5. \A v \in Workers : held'[v] = IF v = w THEN h ELSE held[v]
    BY <2>1 DEF QueueIInv, QueueTypeOK
  <2>6. QueueTypeOK'
    BY <2>1, <2>2, <2>4 DEF QueueIInv, QueueTypeOK
  <2>7. QueuedDirty'
    BY <2>1, <2>2 DEF QueueIInv, QueuedDirty
  <2>8. ProcessingHeld'
    BY <2>1, <2>2, <2>4, <2>5, QueueAssumption DEF QueueIInv, ProcessingHeld
  <2>9. NoConcurrentHandler'
    BY <2>3, <2>5 DEF QueueIInv, NoConcurrentHandler
  <2>10. NeverLost'
    <3> SUFFICES ASSUME NEW j \in dirty'
                 PROVE  \/ \E n \in 1..Len(queue') : queue'[n] = j
                        \/ \E v \in Workers : held'[v] = j
      BY DEF NeverLost
    <3>1. j \in dirty /\ j # h /\ j \in Items
      BY <2>1 DEF QueueIInv, QueueTypeOK
    <3>2. CASE \E m \in 1..Len(queue) : queue[m] = j
      BY <3>1, <3>2, <2>2
    <3>3. CASE \E v \in Workers : held[v] = j
      BY <3>1, <3>3, <2>4, <2>5, QueueAssumption
    <3>4. QED
      BY <3>1, <3>2, <3>3 DEF QueueIInv, NeverLost
  <2>11. QED
    BY <2>1, <2>6, <2>7, <2>8, <2>9, <2>10 DEF QueueIInv, RetriesBounded
<1>3. QED
  BY <1>1, <1>2

\* A worker is done with its item.
LEMMA FinishIInv ==
    ASSUME QueueIInv, NEW w \in Workers, NEW out \in Outcomes, Finish(w, out)
    PROVE  QueueIInv'
<1> DEFINE i == held[w]
<1>1. /\ i \in Items /\ i \in processing /\ worker[w] = "busy"
      /\ processing' = processing \ {i}
      /\ queue' = IF i \in dirty THEN Append(queue, i) ELSE queue
      /\ waiting' \subseteq waiting \union {i}
      /\ held' = [held EXCEPT ![w] = NoItem]
      /\ worker' = [worker EXCEPT ![w] = NextRound(i, out)]
      /\ dirty' = dirty /\ shuttingDown' = shuttingDown
  BY DEF Finish, QueueIInv, QueueTypeOK, ProcessingHeld
<1>2. /\ numRequeues' \in [Items -> Nat]
      /\ RetriesBounded'
  <2>1. numRequeues' = [numRequeues EXCEPT ![i] = IF Retries(i, out) THEN @ + 1
                                                  ELSE IF Forgets(i, out) THEN 0 ELSE @]
    BY DEF Finish
  <2>2. Retries(i, out) => numRequeues[i] < MaxErrRetries
    BY DEF Retries
  <2>3. QED
    BY <1>1, <2>1, <2>2, QueueAssumption DEF QueueIInv, QueueTypeOK, RetriesBounded
<1>3. NextRound(i, out) \in {"parked", "polling"}
  BY DEF NextRound
<1> HIDE DEF i
<1>4. \A n \in 1..Len(queue) : queue[n] # i
  BY <1>1 DEF QueueIInv, QueuedDirty
<1>5. /\ queue' \in Seq(Items)
      /\ \A m, n \in 1..Len(queue') : queue'[m] = queue'[n] => m = n
      /\ \A n \in 1..Len(queue') : \/ queue'[n] = i /\ i \in dirty
                                   \/ \E m \in 1..Len(queue) : queue'[n] = queue[m]
      /\ \A m \in 1..Len(queue) : \E n \in 1..Len(queue') : queue'[n] = queue[m]
      /\ i \in dirty => \E n \in 1..Len(queue') : queue'[n] = i
  <2>1. CASE i \in dirty
    BY <1>1, <1>4, <2>1, AppendFresh DEF QueueIInv, QueueTypeOK
  <2>2. CASE i \notin dirty
    BY <1>1, <2>2 DEF QueueIInv, QueueTypeOK
  <2>3. QED
    BY <2>1, <2>2, Zenon
<1>6. \A v \in Workers : held'[v] = IF v = w THEN NoItem ELSE held[v]
  BY <1>1 DEF QueueIInv, QueueTypeOK
<1>7. \A v \in Workers : v # w => held[v] # i
  BY <1>1, QueueAssumption DEF QueueIInv, NoConcurrentHandler, i
<1>8. QueueTypeOK'
  BY <1>1, <1>2, <1>3, <1>5 DEF QueueIInv, QueueTypeOK
<1>9. QueuedDirty'
  <2> SUFFICES ASSUME NEW n \in 1..Len(queue')
               PROVE  queue'[n] \in dirty' /\ queue'[n] \notin processing'
    BY DEF QueuedDirty
  <2>1. CASE queue'[n] = i /\ i \in dirty
    BY <1>1, <2>1
  <2>2. CASE \E m \in 1..Len(queue) : queue'[n] = queue[m]
    BY <1>1, <2>2 DEF QueueIInv, QueuedDirty
  <2>3. QED
    BY <1>5, <2>1, <2>2
<1>10. ProcessingHeld'
  <2> SUFFICES ASSUME NEW j \in Items
               PROVE  j \in processing' <=> \E v \in Workers : held'[v] = j
    BY DEF ProcessingHeld
  <2>1. j # NoItem /\ (j \in processing <=> \E v \in Workers : held[v] = j) /\ held[w] = i
    BY QueueAssumption DEF QueueIInv, ProcessingHeld, i
  <2>2. QED
    BY <2>1, <1>1, <1>6, <1>7
<1>11. NoConcurrentHandler'
  BY <1>6 DEF QueueIInv, NoConcurrentHandler
<1>12. NeverLost'
  <2> SUFFICES ASSUME NEW j \in dirty
               PROVE  \/ \E n \in 1..Len(queue') : queue'[n] = j
                      \/ \E v \in Workers : held'[v] = j
    BY <1>1 DEF NeverLost
  <2>1. CASE j = i
    BY <2>1, <1>5
  <2>2. CASE \E m \in 1..Len(queue) : queue[m] = j
    BY <2>2, <1>5
  <2>3. CASE j # i /\ \E v \in Workers : held[v] = j
    BY <2>3, <1>6 DEF i
  <2>4. QED
    BY <2>1, <2>2, <2>3 DEF QueueIInv, NeverLost
<1>13. QED
  BY <1>2, <1>8, <1>9, <1>10, <1>11, <1>12 DEF QueueIInv

\* Every step of the queue keeps the inductive invariant.
LEMMA NextQueueIInv == QueueIInv /\ [QueueNext]_queueVars => QueueIInv'
<1> SUFFICES ASSUME QueueIInv, [QueueNext]_queueVars PROVE QueueIInv'
  OBVIOUS
<1>1. ASSUME NEW i \in Items, Enqueue(i) \/ Ripen(i) PROVE QueueIInv'
  BY <1>1, AddIInv
<1>2. ASSUME NEW w \in Workers, StartWorker(w) \/ Get(w) PROVE QueueIInv'
  BY <1>2, TakeIInv
<1>3. ASSUME NEW w \in Workers, NEW out \in Outcomes, Finish(w, out) PROVE QueueIInv'
  BY <1>3, FinishIInv
<1>4. CASE ShutDown
  BY <1>4 DEF ShutDown, QueueIInv, QueueTypeOK, QueuedDirty, ProcessingHeld,
              NoConcurrentHandler, NeverLost, RetriesBounded
<1>5. CASE UNCHANGED queueVars
  BY <1>5 DEF queueVars, QueueIInv, QueueTypeOK, QueuedDirty, ProcessingHeld,
              NoConcurrentHandler, NeverLost, RetriesBounded
<1>6. QED
  BY <1>1, <1>2, <1>3, <1>4, <1>5 DEF QueueNext

\* QueueIInv holds in every reachable state of the queue.
THEOREM QueueInvariance == QueueSpec => []QueueIInv
<1>1. QueueInit => QueueIInv
  BY InitQueueIInv
<1>2. QueueIInv /\ [QueueNext]_queueVars => QueueIInv'
  BY NextQueueIInv
<1>3. QED
  BY <1>1, <1>2, PTL DEF QueueSpec

\* No two workers run the handler on the same item at the same time
\* (processNextWorkItem holds the item until its deferred Done).
THEOREM NeverConcurrent == QueueSpec => []NoConcurrentHandler
<1>1. QueueIInv => NoConcurrentHandler
  BY DEF QueueIInv
<1>2. QED
  BY <1>1, QueueInvariance, PTL

\* An item that needs processing is queued or held by a worker that queues it
\* again: Enqueue loses no event, whatever the workers are doing.
THEOREM NoEventLost == QueueSpec => []NeverLost
<1>1. QueueIInv => NeverLost
  BY DEF QueueIInv
<1>2. QED
  BY <1>1, QueueInvariance, PTL

\* The variables keep their shape: the queue never holds an item twice, and a worker is
\* busy exactly while it holds an item.
THEOREM QueueTypeCorrect == QueueSpec => []QueueTypeOK
<1>1. QueueIInv => QueueTypeOK
  BY DEF QueueIInv
<1>2. QED
  BY <1>1, QueueInvariance, PTL

\* processNextWorkItem never retries an error more than maxErrRetries times in a row.
THEOREM RetriesAreBounded == QueueSpec => []RetriesBounded
<1>1. QueueIInv => RetriesBounded
  BY DEF QueueIInv
<1>2. QED
  BY <1>1, QueueInvariance, PTL

\* An item that a worker takes is due and nobody runs it.
LEMMA GetBegins ==
    ASSUME QueueIInv, NEW w \in Workers, Get(w)
    PROVE  (\E i \in Items : Contract!Begin(i)) \/ UNCHANGED Contract!contractVars
<1>1. CASE queue = <<>>
  BY <1>1 DEF Get, Held, Contract!contractVars
<1>2. CASE queue # <<>>
  <2> DEFINE h == Head(queue)
  <2>1. /\ worker[w] = "polling"
        /\ dirty' = dirty \ {h}
        /\ held' = [held EXCEPT ![w] = h]
        /\ UNCHANGED <<waiting, shuttingDown>>
    BY <1>2 DEF Get
  <2>2. h \in Items /\ \E n \in 1..Len(queue) : queue[n] = h
    BY <1>2, TailUnique DEF QueueIInv, QueueTypeOK
  <2> HIDE DEF h
  <2>3. h \in dirty /\ \A v \in Workers : held[v] # h
    BY <2>2 DEF QueueIInv, QueuedDirty, ProcessingHeld
  <2>4. held[w] = NoItem /\ h # NoItem
    BY <2>1, <2>2, QueueAssumption DEF QueueIInv, QueueTypeOK
  <2>5. \A v \in Workers : held'[v] = IF v = w THEN h ELSE held[v]
    BY <2>1 DEF QueueIInv, QueueTypeOK
  <2>6. Held' = Held \union {h}
    BY <2>4, <2>5 DEF Held
  <2>7. h \notin Held
    BY <2>3 DEF Held
  <2>8. QED
    BY <2>1, <2>2, <2>3, <2>6, <2>7 DEF Contract!Begin
<1>3. QED
  BY <1>1, <1>2

\* When a worker is done with an item, nobody runs it, and it is due or delayed as before
\* or delayed once more.
LEMMA FinishEnds ==
    ASSUME QueueIInv, NEW w \in Workers, NEW out \in Outcomes, Finish(w, out)
    PROVE  \E i \in Items : Contract!End(i)
<1> DEFINE i == held[w]
<1>1. /\ i \in Items
      /\ held' = [held EXCEPT ![w] = NoItem]
      /\ waiting' = waiting \/ (~shuttingDown /\ waiting' = waiting \union {i})
      /\ UNCHANGED <<dirty, shuttingDown>>
  BY DEF Finish, QueueIInv, QueueTypeOK
<1>2. \A v \in Workers : held'[v] = IF v = w THEN NoItem ELSE held[v]
  BY <1>1 DEF QueueIInv, QueueTypeOK
<1>3. i # NoItem /\ \A v \in Workers : v # w => held[v] # i
  BY <1>1, QueueAssumption DEF QueueIInv, NoConcurrentHandler
<1>4. i \in Held /\ Held' = Held \ {i}
  BY <1>2, <1>3 DEF Held
<1> HIDE DEF i
<1>5. QED
  BY <1>1, <1>4 DEF Contract!End

\* Every step of the queue and its workers is a step of the contract or leaves it alone.
LEMMA NextKeepsContract ==
    ASSUME QueueIInv, [QueueNext]_queueVars
    PROVE  [Contract!ContractNext]_(Contract!contractVars)
<1>1. ASSUME NEW i \in Items, Enqueue(i) PROVE Contract!Notify(i)
  BY <1>1 DEF Enqueue, Add, Held, Contract!Notify
<1>2. ASSUME NEW i \in Items, Ripen(i) PROVE Contract!Wake(i)
  BY <1>2 DEF Ripen, Add, Held, Contract!Wake
<1>3. ASSUME NEW w \in Workers, StartWorker(w) PROVE UNCHANGED Contract!contractVars
  BY <1>3 DEF StartWorker, Held, Contract!contractVars
<1>4. ASSUME NEW w \in Workers, Get(w)
      PROVE  (\E i \in Items : Contract!Begin(i)) \/ UNCHANGED Contract!contractVars
  BY <1>4, GetBegins
<1>5. ASSUME NEW w \in Workers, NEW out \in Outcomes, Finish(w, out)
      PROVE  \E i \in Items : Contract!End(i)
  BY <1>5, FinishEnds
<1>6. CASE ShutDown
  BY <1>6 DEF ShutDown, Held, Contract!Stop, Contract!ContractNext
<1>7. CASE UNCHANGED queueVars
  BY <1>7 DEF queueVars, Held, Contract!contractVars
<1>8. QED
  BY <1>1, <1>2, <1>3, <1>4, <1>5, <1>6, <1>7 DEF QueueNext, Contract!ContractNext

\* The queue with its workers implements the safety part of the contract: whatever handlers
\* return, processNextWorkItem runs an item once at a time and forgets none.
THEOREM QueueImplementsContract == QueueSpec => Contract!ContractSafety
<1>1. QueueInit => Contract!ContractInit
  BY DEF QueueInit, Held, Contract!ContractInit
<1>2. QueueIInv /\ [QueueNext]_queueVars => [Contract!ContractNext]_(Contract!contractVars)
  BY NextKeepsContract
<1>3. QED
  BY <1>1, <1>2, QueueInvariance, PTL DEF QueueSpec, Contract!ContractSafety
=============================================================================
