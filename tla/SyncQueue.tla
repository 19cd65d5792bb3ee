------------------------------ MODULE SyncQueue ------------------------------
(***************************************************************************)
(* The controllers' work queue (pkg/syncqueue): workers take items from a  *)
(* client-go rate limiting workqueue, run the sync handler on them and put *)
(* them back after an error or when the handler asks for it.               *)
(*                                                                         *)
(* The workqueue itself is client-go code.  Its contract, as queue.go uses *)
(* it: an item waits in queue at most once; an item added again while it   *)
(* is processed is only marked dirty and enters queue when it is Done;     *)
(* AddAfter and AddRateLimited keep an item in waiting for a while;        *)
(* AddRateLimited counts the item's failures (NumRequeues), AddAfter does  *)
(* not, and Forget resets the count.                                       *)
(***************************************************************************)
EXTENDS Naturals, Sequences, FiniteSets

CONSTANTS
    Items,          \* what is queued: object keys or object pointers
    Workers,        \* the goroutines that Run starts
    MaxErrRetries,  \* maxErrRetries
    MaxTimes,       \* values of MaxRequeueTimes that handlers return
    NoItem          \* a worker that holds no item

ASSUME QueueAssumption ==
    MaxErrRetries \in Nat /\ MaxTimes \subseteq Nat /\ NoItem \notin Items

VARIABLES
    queue,          \* workqueue: items ready to be taken, oldest first
    dirty,          \* workqueue: items that need processing
    processing,     \* workqueue: items handed to a worker and not Done
    waiting,        \* workqueue: items added with a delay
    numRequeues,    \* workqueue: failures counted by the rate limiter
    shuttingDown,   \* workqueue: ShutDown was called
    worker,         \* "parked" between two rounds of wait.Until, "polling" in
                    \* Get, "busy" in the handler, "exited"
    held            \* the item that a busy worker processes

queueVars == <<queue, dirty, processing, waiting, numRequeues, shuttingDown, worker, held>>

\* What a handler returns: an error, or a Result.
Outcomes ==
    [err : {TRUE}, requeue : {FALSE}, maxRequeueTimes : {0}]
      \union [err : {FALSE}, requeue : BOOLEAN, maxRequeueTimes : MaxTimes]

QueueInit ==
    /\ queue = <<>>
    /\ dirty = {}
    /\ processing = {}
    /\ waiting = {}
    /\ numRequeues = [i \in Items |-> 0]
    /\ shuttingDown = FALSE
    /\ worker = [w \in Workers |-> "parked"]
    /\ held = [w \in Workers |-> NoItem]

-----------------------------------------------------------------------------
\* workqueue.Add
Add(i) ==
    /\ dirty' = dirty \union {i}
    /\ queue' = IF i \in dirty \/ i \in processing THEN queue ELSE Append(queue, i)

\* Enqueue, called by the informer's event handlers.
Enqueue(i) ==
    /\ ~shuttingDown
    /\ Add(i)
    /\ UNCHANGED <<processing, waiting, numRequeues, shuttingDown, worker, held>>

\* The delay of AddAfter or AddRateLimited is over.
Ripen(i) ==
    /\ i \in waiting
    /\ ~shuttingDown
    /\ waiting' = waiting \ {i}
    /\ Add(i)
    /\ UNCHANGED <<processing, numRequeues, shuttingDown, worker, held>>

\* wait.Until starts a round of worker(), unless stopCh is closed.
StartWorker(w) ==
    /\ worker[w] = "parked"
    /\ worker' = [worker EXCEPT ![w] = IF shuttingDown THEN "exited" ELSE "polling"]
    /\ UNCHANGED <<queue, dirty, processing, waiting, numRequeues, shuttingDown, held>>

GetDoneAtOnce(w) ==
    /\ worker[w] = "polling"
    /\ queue # <<>>
    /\ queue' = Tail(queue)
    /\ dirty' = dirty \ {Head(queue)}
    /\ held' = [held EXCEPT ![w] = Head(queue)]
    /\ worker' = [worker EXCEPT ![w] = "busy"]
    /\ UNCHANGED <<processing, waiting, numRequeues, shuttingDown>>

\* queue.Get: the oldest item, or quit once the queue is shut down and empty.
Get(w) ==
    /\ worker[w] = "polling"
    /\ \/ /\ queue # <<>>
          /\ queue' = Tail(queue)
          /\ dirty' = dirty \ {Head(queue)}
          /\ processing' = processing \union {Head(queue)}
          /\ held' = [held EXCEPT ![w] = Head(queue)]
          /\ worker' = [worker EXCEPT ![w] = "busy"]
       \/ /\ queue = <<>>
          /\ shuttingDown
          /\ worker' = [worker EXCEPT ![w] = "parked"]
          /\ UNCHANGED <<queue, dirty, processing, held>>
    /\ UNCHANGED <<waiting, numRequeues, shuttingDown>>

RetriesOnceMore(i, out) == out.err /\ numRequeues[i] <= MaxErrRetries

\* Whether processNextWorkItem puts the item back, and whether it forgets it.
Retries(i, out) == out.err /\ numRequeues[i] < MaxErrRetries

Requeues(i, out) ==
    /\ ~out.err
    /\ out.requeue
    /\ ~(out.maxRequeueTimes > 0 /\ numRequeues[i] >= out.maxRequeueTimes)

Forgets(i, out) ==
    \/ out.err /\ ~Retries(i, out)
    \/ ~out.err /\ (~Requeues(i, out) \/ out.maxRequeueTimes = 0)

\* What processNextWorkItem returns: false, which ends this round of worker(),
\* only when it retries an error.
NextRoundNever(i, out) == IF Retries(i, out) THEN "exited" ELSE "polling"

NextRound(i, out) == IF Retries(i, out) THEN "parked" ELSE "polling"

FinishWithoutDone(w, out) ==
    LET i == held[w]
    IN  /\ worker[w] = "busy"
        /\ waiting' = IF Retries(i, out) \/ Requeues(i, out)
                      THEN waiting \union {i} ELSE waiting
        /\ held' = [held EXCEPT ![w] = NoItem]
        /\ worker' = [worker EXCEPT ![w] = NextRound(i, out)]
        /\ UNCHANGED <<queue, dirty, processing, numRequeues, shuttingDown>>

FinishDropsEvent(w, out) ==
    LET i == held[w]
    IN  /\ worker[w] = "busy"
        /\ processing' = processing \ {i}
        /\ dirty' = dirty \ {i}
        /\ waiting' = IF (Retries(i, out) \/ Requeues(i, out)) /\ ~shuttingDown
                      THEN waiting \union {i} ELSE waiting
        /\ numRequeues' = [numRequeues EXCEPT ![i] = IF Retries(i, out) THEN @ + 1
                                                     ELSE IF Forgets(i, out) THEN 0 ELSE @]
        /\ held' = [held EXCEPT ![w] = NoItem]
        /\ worker' = [worker EXCEPT ![w] = NextRound(i, out)]
        /\ UNCHANGED <<queue, shuttingDown>>

\* The rest of processNextWorkItem after the handler has returned out, with the
\* deferred Done: an item that became dirty meanwhile is queued again.
Finish(w, out) ==
    LET i == held[w]
    IN  /\ worker[w] = "busy"
        /\ processing' = processing \ {i}
        /\ queue' = IF i \in dirty THEN Append(queue, i) ELSE queue
        /\ waiting' = IF (Retries(i, out) \/ Requeues(i, out)) /\ ~shuttingDown
                      THEN waiting \union {i} ELSE waiting
        /\ numRequeues' = [numRequeues EXCEPT ![i] = IF Retries(i, out) THEN @ + 1
                                                     ELSE IF Forgets(i, out) THEN 0 ELSE @]
        /\ held' = [held EXCEPT ![w] = NoItem]
        /\ worker' = [worker EXCEPT ![w] = NextRound(i, out)]
        /\ UNCHANGED <<dirty, shuttingDown>>

\* ShutDown closes stopCh and the workqueue; delayed items are never added.
ShutDown ==
    /\ ~shuttingDown
    /\ shuttingDown' = TRUE
    /\ UNCHANGED <<queue, dirty, processing, waiting, numRequeues, worker, held>>

\* The queue on its own, with a handler that may return anything.
QueueNext ==
    \/ \E i \in Items : Enqueue(i) \/ Ripen(i)
    \/ \E w \in Workers : \/ StartWorker(w)
                          \/ Get(w)
                          \/ \E out \in Outcomes : Finish(w, out)
    \/ ShutDown

QueueSpec == QueueInit /\ [][QueueNext]_queueVars

\* Handlers return, timers fire and worker goroutines are scheduled.
QueueFairness ==
    /\ \A i \in Items : WF_queueVars(Ripen(i))
    /\ \A w \in Workers : /\ WF_queueVars(StartWorker(w))
                          /\ WF_queueVars(Get(w))
                          /\ WF_queueVars(\E out \in Outcomes : Finish(w, out))

FairQueueSpec == QueueSpec /\ QueueFairness

-----------------------------------------------------------------------------
\* The shape of every variable; the queue holds no item twice.
QueueTypeOK ==
    /\ queue \in Seq(Items)
    /\ \A m, n \in 1..Len(queue) : queue[m] = queue[n] => m = n
    /\ dirty \subseteq Items
    /\ processing \subseteq Items
    /\ waiting \subseteq Items
    /\ numRequeues \in [Items -> Nat]
    /\ shuttingDown \in BOOLEAN
    /\ worker \in [Workers -> {"parked", "polling", "busy", "exited"}]
    /\ held \in [Workers -> Items \union {NoItem}]
    /\ \A w \in Workers : worker[w] = "busy" <=> held[w] # NoItem

\* "It enforces that the syncHandler is never invoked concurrently with the same
\* key": an item enqueued while it is processed waits until it is Done.
NoConcurrentHandler ==
    \A v, w \in Workers : held[v] # NoItem /\ held[v] = held[w] => v = w

\* No event is lost: an item that needs processing is in the queue, or a worker
\* that is processing it will queue it again.
NeverLost ==
    \A i \in dirty : \/ \E n \in 1..Len(queue) : queue[n] = i
                     \/ \E w \in Workers : held[w] = i

\* An item that keeps failing is retried at most maxErrRetries times in a row.
RetriesBounded == \A i \in Items : numRequeues[i] <= MaxErrRetries

\* Every event is eventually handled, although an error ends the worker's round
\* and other items may fail forever, unless the queue is shut down.
EventuallyHandled ==
    \A i \in Items : i \in dirty ~> (shuttingDown \/ \E w \in Workers : held[w] = i)

-----------------------------------------------------------------------------
\* The items that workers hold.
Held == {held[w] : w \in Workers} \ {NoItem}

Contract == INSTANCE HandlerContract WITH
    due <- dirty, later <- waiting, running <- Held, stopped <- shuttingDown

\* The queue with its workers keeps what it promises to handlers: processNextWorkItem runs
\* an item once at a time, and no event, error or requeue is forgotten on the way.
KeepsContract == Contract!ContractSpec
=============================================================================
