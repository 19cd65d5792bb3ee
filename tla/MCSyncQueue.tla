----------------------------- MODULE MCSyncQueue -----------------------------
(***************************************************************************)
(* SyncQueue with a count of how often an item was requeued in a row at    *)
(* the wish of its handler, which always asks for the same limit.          *)
(***************************************************************************)
EXTENDS SyncQueue

CONSTANTS
    MaxRequeueTimes,  \* the limit the handler asks for
    MaxHistory        \* where the count stops

VARIABLE requeued

HistoryInit == QueueInit /\ requeued = [i \in Items |-> 0]

Asked == {out \in Outcomes : ~out.err /\ out.requeue /\ out.maxRequeueTimes = MaxRequeueTimes}

FinishCounted(w) ==
    \E out \in Asked :
        /\ requeued[held[w]] < MaxHistory
        /\ Finish(w, out)
        /\ requeued' = [requeued EXCEPT ![held[w]] =
                          IF Requeues(held[w], out) THEN @ + 1 ELSE 0]

HistoryNext ==
    \/ \E i \in Items : (Enqueue(i) \/ Ripen(i)) /\ UNCHANGED requeued
    \/ \E w \in Workers : \/ (StartWorker(w) \/ Get(w)) /\ UNCHANGED requeued
                          \/ held[w] \in Items /\ FinishCounted(w)

HistorySpec == HistoryInit /\ [][HistoryNext]_<<queueVars, requeued>>

\* An item whose handler returns MaxRequeueTimes = n is put back at most n times in
\* a row (Result.MaxRequeueTimes, processNextWorkItem).
RequeueLimited == \A i \in Items : requeued[i] <= MaxRequeueTimes
=============================================================================
