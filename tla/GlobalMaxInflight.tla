-------------------------- MODULE GlobalMaxInflight --------------------------
(***************************************************************************)
(* The rate limiter server's global "max requests in flight" counter       *)
(* (globalMaxInflight).  Every gateway instance reports how many requests  *)
(* it has in flight; the server keeps one instanceState per instance and   *)
(* their total in count, and refuses a report that takes count above max.  *)
(* SetState runs in HTTP handler goroutines (DoAcquire) and in the         *)
(* goroutines that clean up after dead clients (DeleteInstanceState).      *)
(*                                                                         *)
(* Grain: one action per atomic memory operation.  A section under         *)
(* lock.Lock() is one action, enabled while nobody holds the read lock;    *)
(* the section under the second RLock() is several actions, and Inside(h)  *)
(* says that h holds that read lock.                                       *)
(***************************************************************************)
EXTENDS Integers, FiniteSets, Functions

CONSTANTS
    Instances,   \* gateway instances
    Handlers,    \* goroutines that call SetState
    Owner,       \* the instance each handler works for
    Expiring,    \* instances whose heartbeat may time out
    Reports,     \* in-flight numbers an acquire request carries
    RequestIDs,  \* request ids that each handler's acquire requests carry
    Limits,      \* values of max that the configuration takes
    Refs,        \* addresses of instanceState objects
    NoState      \* the nil pointer

ASSUME ConstantsAssumption ==
    /\ IsFiniteSet(Instances) /\ IsFiniteSet(Handlers)
    /\ Owner \in [Handlers -> Instances]
    /\ Expiring \subseteq Instances
    /\ Reports \subseteq Nat
    /\ RequestIDs \in [Handlers -> SUBSET Nat]
    /\ Limits \subseteq Nat
    /\ NoState \notin Refs

\* No two handlers work for i: its calls to SetState never overlap.
Serial(i) == \A g, h \in Handlers : Owner[g] = i /\ Owner[h] = i => g = h

\* About the environment, not enforced by the code: an instance that still has
\* overlapping acquires also sends heartbeats, so cleanup never deletes its state
\* between two steps of one of its own calls.
ASSUME ExpiringAssumption == \A i \in Expiring : Serial(i)

VARIABLES
    max,             \* globalMaxInflight.max
    count,           \* globalMaxInflight.count
    instanceStates,  \* globalMaxInflight.instanceStates
    heap,            \* the instanceState objects
    pc,              \* what each handler does next
    call             \* the parameters and local variables of its SetState

vars == <<max, count, instanceStates, heap, pc, call>>

NoCall == [requestId |-> 0, current |-> 0, state |-> NoState,
           old |-> 0, counted |-> 0]

\* The instanceState objects nobody points to: the garbage collector frees them.
FreeRefs == {r \in Refs : /\ \A i \in Instances : instanceStates[i] # r
                          /\ \A h \in Handlers : call[h].state # r}

\* h holds the read lock that SetState takes at line 91 and releases on return.
Inside(h) == pc[h] \in {"storeId", "swap", "add", "compare", "undoState", "undoCount"}

\* lock.Lock() is granted only when no handler holds the read lock.
WriteLockFree == \A h \in Handlers : ~Inside(h)

Delta(h) == call[h].current - call[h].old

Init ==
    /\ max \in Limits
    /\ count = 0
    /\ instanceStates = [i \in Instances |-> NoState]
    /\ heap = [r \in Refs |-> [count |-> 0, requestId |-> 0]]
    /\ pc = [h \in Handlers |-> "idle"]
    /\ call = [h \in Handlers |-> NoCall]

Return(h) ==
    /\ pc' = [pc EXCEPT ![h] = "idle"]
    /\ call' = [call EXCEPT ![h] = NoCall]

Goto(h, label) == pc' = [pc EXCEPT ![h] = label]

-----------------------------------------------------------------------------
\* The call and its first lookup, under a read lock held for that lookup only.
\* A delete of an unknown instance returns at once.
SetState(h, id, cur) ==
    LET st == instanceStates[Owner[h]]
    IN  /\ pc[h] = "idle"
        /\ ~(cur < 0 /\ st = NoState)
        /\ call' = [call EXCEPT ![h] = [requestId |-> id, current |-> cur, state |-> st,
                                        old |-> 0, counted |-> 0]]
        /\ Goto(h, IF cur < 0 THEN "delete"
                   ELSE IF st = NoState THEN "create" ELSE "loadId")
        /\ UNCHANGED <<max, count, instanceStates, heap>>

DeleteKeepsCount(h) ==
    /\ pc[h] = "delete"
    /\ WriteLockFree
    /\ instanceStates' = [instanceStates EXCEPT ![Owner[h]] = NoState]
    /\ Return(h)
    /\ UNCHANGED <<max, count, heap>>

\* current < 0: forget the instance and take its count off the total.  The
\* object subtracted is the one found before the lock was taken.
Delete(h) ==
    /\ pc[h] = "delete"
    /\ WriteLockFree
    /\ instanceStates' = [instanceStates EXCEPT ![Owner[h]] = NoState]
    /\ count' = count - heap[call[h].state].count
    /\ Return(h)
    /\ UNCHANGED <<max, heap>>

\* A fresh instanceState for h's instance.
NewState(h) ==
    LET r == CHOOSE r \in FreeRefs : TRUE
    IN  /\ FreeRefs # {}
        /\ heap' = [heap EXCEPT ![r] = [count |-> 0, requestId |-> 0]]
        /\ instanceStates' = [instanceStates EXCEPT ![Owner[h]] = r]
        /\ call' = [call EXCEPT ![h].state = r]

CreateWithoutRecheck(h) ==
    /\ pc[h] = "create"
    /\ WriteLockFree
    /\ NewState(h)
    /\ Goto(h, "loadId")
    /\ UNCHANGED <<max, count>>

CreateForgetsPointer(h) ==
    LET r == CHOOSE r \in FreeRefs : TRUE
    IN  /\ pc[h] = "create"
        /\ WriteLockFree
        /\ instanceStates[Owner[h]] = NoState
        /\ instanceStates' = [instanceStates EXCEPT ![Owner[h]] = r]
        /\ Goto(h, "loadId")
        /\ UNCHANGED <<max, count, heap, call>>

\* No state was found: look again under the write lock, then allocate one.
Create(h) ==
    /\ pc[h] = "create"
    /\ WriteLockFree
    /\ \/ /\ instanceStates[Owner[h]] # NoState
          /\ call' = [call EXCEPT ![h].state = instanceStates[Owner[h]]]
          /\ UNCHANGED <<instanceStates, heap>>
       \/ /\ instanceStates[Owner[h]] = NoState
          /\ NewState(h)
    /\ Goto(h, "loadId")
    /\ UNCHANGED <<max, count>>

LoadRequestIdAcceptsOld(h) ==
    /\ pc[h] = "loadId"
    /\ Goto(h, IF call[h].requestId > 0 THEN "storeId" ELSE "swap")
    /\ UNCHANGED <<max, count, instanceStates, heap, call>>

\* Take the read lock and compare the request id with the newest one seen.
\* An id of 0 is not compared; an id that is not newer is RequestIDTooOld.
LoadRequestId(h) ==
    LET id == call[h].requestId
    IN  /\ pc[h] = "loadId"
        /\ \/ /\ id = 0 \/ id > heap[call[h].state].requestId
              /\ Goto(h, IF id > 0 THEN "storeId" ELSE "swap")
              /\ UNCHANGED call
           \/ /\ id > 0 /\ id <= heap[call[h].state].requestId
              /\ Return(h)
        /\ UNCHANGED <<max, count, instanceStates, heap>>

StoreRequestId(h) ==
    /\ pc[h] = "storeId"
    /\ heap' = [heap EXCEPT ![call[h].state].requestId = call[h].requestId]
    /\ Goto(h, "swap")
    /\ UNCHANGED <<max, count, instanceStates, call>>

\* old := atomic.SwapInt32(&state.count, current)
SwapCount(h) ==
    /\ pc[h] = "swap"
    /\ call' = [call EXCEPT ![h].old = heap[call[h].state].count]
    /\ heap' = [heap EXCEPT ![call[h].state].count = call[h].current]
    /\ Goto(h, "add")
    /\ UNCHANGED <<max, count, instanceStates>>

\* The AddInt32 of add(delta); max is read by the next step.
AddDelta(h) ==
    /\ pc[h] = "add"
    /\ count' = count + Delta(h)
    /\ call' = [call EXCEPT ![h].counted = count + Delta(h)]
    /\ Goto(h, "compare")
    /\ UNCHANGED <<max, instanceStates, heap>>

\* overflowed > 0 starts the rollback; otherwise the new count stands (whether
\* the answer is accept or, at the limit exactly, a refusal with Limit=current).
Compare(h) ==
    /\ pc[h] = "compare"
    /\ \/ /\ call[h].counted > max
          /\ Goto(h, "undoState")
          /\ UNCHANGED call
       \/ /\ call[h].counted <= max
          /\ Return(h)
    /\ UNCHANGED <<max, count, instanceStates, heap>>

UndoStateSkipped(h) ==
    /\ pc[h] = "undoState"
    /\ Goto(h, "undoCount")
    /\ UNCHANGED <<max, count, instanceStates, heap, call>>

\* atomic.AddInt32(&state.count, -delta)
UndoState(h) ==
    /\ pc[h] = "undoState"
    /\ heap' = [heap EXCEPT ![call[h].state].count = @ - Delta(h)]
    /\ Goto(h, "undoCount")
    /\ UNCHANGED <<max, count, instanceStates, call>>

\* add(-delta), then return false, old
UndoCount(h) ==
    /\ pc[h] = "undoCount"
    /\ count' = count - Delta(h)
    /\ Return(h)
    /\ UNCHANGED <<max, instanceStates, heap>>

\* SyncFlowControl resizes the counter when the configured limit changes.
Resize(n) ==
    /\ n # max
    /\ max' = n
    /\ UNCHANGED <<count, instanceStates, heap, pc, call>>

Step(h) == \/ Delete(h) \/ Create(h) \/ LoadRequestId(h) \/ StoreRequestId(h)
           \/ SwapCount(h) \/ AddDelta(h) \/ Compare(h)
           \/ UndoState(h) \/ UndoCount(h)

\* DeleteInstanceState calls SetState(instance, -1, -1): no request id.
Next ==
    \/ \E h \in Handlers :
          \/ \E id \in RequestIDs[h], cur \in Reports : SetState(h, id, cur)
          \/ Owner[h] \in Expiring /\ SetState(h, 0, -1)
          \/ Step(h)
    \/ \E n \in Limits : Resize(n)

Spec == Init /\ [][Next]_vars

-----------------------------------------------------------------------------
\* The shape of every variable; a handler past its lookup holds no nil pointer.
TypeOK ==
    /\ max \in Limits
    /\ count \in Int
    /\ instanceStates \in [Instances -> Refs \union {NoState}]
    /\ heap \in [Refs -> [count : Int, requestId : Nat]]
    /\ pc \in [Handlers -> {"idle", "delete", "create", "loadId", "storeId", "swap",
                            "add", "compare", "undoState", "undoCount"}]
    /\ call \in [Handlers -> [requestId : Nat, current : Int,
                              state : Refs \union {NoState}, old : Int, counted : Int]]
    /\ \A h \in Handlers : pc[h] \notin {"idle", "create"} => call[h].state \in Refs

\* What instance i is granted: the count of its state, 0 without one.
Granted(i) == IF instanceStates[i] = NoState THEN 0 ELSE heap[instanceStates[i]].count

\* The part of h's change that its state shows and count does not (or no more).
Uncounted(h) == CASE pc[h] = "add" -> Delta(h)
                  [] pc[h] = "undoCount" -> -Delta(h)
                  [] OTHER -> 0

\* SetState keeps two representations of the same number, the per-instance
\* counts and their running total, in separate atomic words.  At every moment
\* they differ only by the changes that calls in progress have still to make.
Conservation ==
    count + SumFunction([h \in Handlers |-> Uncounted(h)])
        = SumFunction([i \in Instances |-> Granted(i)])

\* When an instance's calls do not overlap, a refused report is rolled back to what
\* the instance was granted before the call, and no rollback leaves an instance
\* with a negative grant.
RollbackExact ==
    /\ \A i \in Instances : Serial(i) => Granted(i) >= 0
    /\ \A h \in Handlers : Serial(Owner[h]) /\ pc[h] = "undoCount"
                           => heap[call[h].state].count = call[h].old

\* A handler inside SetState works on the instanceState that the map holds for its
\* instance: of first reports that overlap, the later ones find the state that the
\* first created (the second lookup, under the write lock).
NoOrphan ==
    \A h \in Handlers :
        pc[h] \notin {"idle", "create"} => instanceStates[Owner[h]] = call[h].state

\* While an instance keeps its state, the newest request id seen only grows: a
\* late, older request cannot make the server accept an even older one.
RequestIdGrows ==
    [][\A i \in Instances :
          Serial(i) /\ instanceStates[i] # NoState /\ instanceStates'[i] = instanceStates[i]
            => heap'[instanceStates[i]].requestId >= heap[instanceStates[i]].requestId]_vars

\* GlobalMaxRequestsInflight is "a maximum global concurrent number of requests
\* in flight": when no call is in progress, the instances together are granted
\* at most max.
QuiescentWithinMax ==
    (\A h \in Handlers : pc[h] = "idle")
        => SumFunction([i \in Instances |-> Granted(i)]) <= max
=============================================================================
