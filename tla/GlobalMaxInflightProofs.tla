----------------------- MODULE GlobalMaxInflightProofs -----------------------
(***************************************************************************)
(* Proofs about GlobalMaxInflight, for any number of instances, handlers,  *)
(* limits and reports: pointers, rollback, request ids, that the total     *)
(* agrees with the counts of the instances, and when it stays within max.  *)
(***************************************************************************)
EXTENDS GlobalMaxInflight, SumTheorems, TLAPS

\* Two instances never share an instanceState.
Distinct ==
    \A i, j \in Instances :
        instanceStates[i] # NoState /\ instanceStates[i] = instanceStates[j] => i = j

\* Only an acquire carries a report, and it is not negative.
Arguments ==
    \A h \in Handlers : /\ pc[h] = "delete" => Owner[h] \in Expiring
                        /\ pc[h] # "delete" => call[h].current >= 0

\* What the locals of a handler say about the state it works on, when no other
\* handler works for the same instance.
SerialLocals ==
    \A h \in Handlers : Serial(Owner[h]) =>
        /\ pc[h] \in {"add", "compare", "undoState"}
              => heap[call[h].state].count = call[h].current /\ call[h].old >= 0
        /\ pc[h] = "undoCount" => heap[call[h].state].count = call[h].old
        /\ pc[h] = "storeId" => call[h].requestId > heap[call[h].state].requestId

SerialNonNegative == \A i \in Instances : Serial(i) => Granted(i) >= 0

\* RollbackExact and NoOrphan are not inductive: they need to know that a state
\* belongs to one instance and what the locals of a call in progress stand for.
IInv == TypeOK /\ Distinct /\ Arguments /\ NoOrphan /\ SerialLocals /\ SerialNonNegative

\* An object is allocated at an address that nothing else points to.
LEMMA FreshRef ==
    ASSUME FreeRefs # {}
    PROVE  LET r == CHOOSE r \in FreeRefs : TRUE
           IN  /\ r \in Refs
               /\ \A i \in Instances : instanceStates[i] # r
               /\ \A h \in Handlers : call[h].state # r
BY DEF FreeRefs

\* The locals of a call.
CallType == [requestId : Nat, current : Int, state : Refs \union {NoState},
             old : Int, counted : Int]

\* Storing a pointer to a state leaves the locals well typed.
LEMMA PointerType ==
    ASSUME NEW c \in CallType, NEW r \in Refs
    PROVE  [c EXCEPT !.state = r] \in CallType /\ [c EXCEPT !.state = r].state = r
BY DEF CallType

\* So does returning from the call.
LEMMA ReturnType ==
    ASSUME NEW h \in Handlers, TypeOK, Return(h)
    PROVE  /\ call' \in [Handlers -> CallType]
           /\ call'[h] = NoCall
           /\ \A g \in Handlers : g # h => call'[g] = call[g] /\ pc'[g] = pc[g]
           /\ pc'[h] = "idle"
<1>1. NoCall \in CallType
      BY DEF NoCall, CallType
<1> QED
    BY <1>1 DEF Return, TypeOK, CallType

\* A call of an instance whose calls do not overlap shares its state with no other.
LEMMA SeparateStates ==
    ASSUME ConstantsAssumption, TypeOK, Distinct, NoOrphan,
           NEW g \in Handlers, NEW h \in Handlers, g # h, Serial(Owner[g]),
           pc[g] \notin {"idle", "create"}, pc[h] \notin {"idle", "create"}
    PROVE  call[g].state # call[h].state
<1>1. Owner[g] \in Instances /\ Owner[h] \in Instances /\ Owner[g] # Owner[h]
      BY DEF ConstantsAssumption, Serial
<1>2. call[g].state = instanceStates[Owner[g]] /\ call[g].state # NoState
      BY DEF ConstantsAssumption, TypeOK, NoOrphan
<1>3. call[h].state = instanceStates[Owner[h]]
      BY DEF NoOrphan
<1> QED
    BY <1>1, <1>2, <1>3 DEF Distinct

\* Returning leaves what the other calls know of their states.
LEMMA ReturnLocals ==
    ASSUME NEW h \in Handlers, TypeOK, SerialLocals, Return(h), UNCHANGED heap
    PROVE  SerialLocals'
<1> SUFFICES ASSUME NEW g \in Handlers, Serial(Owner[g])
             PROVE
                 /\ pc'[g] \in {"add", "compare", "undoState"}
                       => heap'[call'[g].state].count = call'[g].current /\ call'[g].old >= 0
                 /\ pc'[g] = "undoCount" => heap'[call'[g].state].count = call'[g].old
                 /\ pc'[g] = "storeId" => call'[g].requestId > heap'[call'[g].state].requestId
    BY DEF SerialLocals, Serial
<1>1. CASE g = h
      BY <1>1, ReturnType
<1>2. CASE g # h
  <2>1. call'[g] = call[g] /\ pc'[g] = pc[g]
        BY <1>2, ReturnType
  <2> QED
      BY <2>1 DEF SerialLocals
<1> QED
    BY <1>1, <1>2

\* Initially no instance has a state and no call is in progress.
LEMMA InitIInv == Init => IInv
BY ConstantsAssumption
   DEF Init, IInv, TypeOK, Distinct, Arguments, NoOrphan, SerialLocals,
       SerialNonNegative, Granted, NoCall

\* Every step of SetState, and a change of the limit, preserves the invariant.
LEMMA NextIInv == IInv /\ [Next]_vars => IInv'
<1> SUFFICES ASSUME IInv, [Next]_vars PROVE IInv'
    OBVIOUS
<1> USE ConstantsAssumption, ExpiringAssumption DEF IInv
<1>1. CASE UNCHANGED vars
      BY <1>1 DEF vars, TypeOK, Distinct, Arguments, NoOrphan, SerialLocals,
                  SerialNonNegative, Granted
<1>2. ASSUME NEW n \in Limits, Resize(n) PROVE IInv'
      BY <1>2 DEF Resize, TypeOK, Distinct, Arguments, NoOrphan, SerialLocals,
                  SerialNonNegative, Granted
<1>3. ASSUME NEW h \in Handlers, NEW id \in Nat, NEW cur \in Int, SetState(h, id, cur),
             cur < 0 => Owner[h] \in Expiring
      PROVE  IInv'
  <2>1. TypeOK'
        BY <1>3 DEF SetState, Goto, NoCall, TypeOK
  <2>2. Distinct'
        BY <1>3 DEF SetState, Goto, NoCall, TypeOK, Distinct
  <2>3. Arguments'
        BY <1>3 DEF SetState, Goto, NoCall, TypeOK, Arguments
  <2>4. NoOrphan'
        BY <1>3 DEF SetState, Goto, NoCall, TypeOK, NoOrphan, Distinct
  <2>5. SerialLocals'
        BY <1>3 DEF SetState, Goto, NoCall, TypeOK, SerialLocals, NoOrphan, Distinct,
                    Arguments, SerialNonNegative, Granted
  <2>6. SerialNonNegative'
        BY <1>3 DEF SetState, SerialNonNegative, Granted
  <2> QED
      BY <2>1, <2>2, <2>3, <2>4, <2>5, <2>6
<1>4. ASSUME NEW h \in Handlers, Delete(h) PROVE IInv'
  <2>1. TypeOK'
    <3>1. count' \in Int
          BY <1>4 DEF Delete, TypeOK
    <3>2. call' \in [Handlers -> CallType] /\ pc'[h] = "idle"
          BY <1>4, ReturnType DEF Delete
    <3>3. \A g \in Handlers : g # h => call'[g] = call[g] /\ pc'[g] = pc[g]
          BY <1>4, ReturnType DEF Delete
    <3>4. \A g \in Handlers : pc'[g] \notin {"idle", "create"} => call'[g].state \in Refs
          BY <3>2, <3>3 DEF TypeOK
    <3> QED
        BY <1>4, <3>1, <3>2, <3>4 DEF Delete, Return, CallType, TypeOK
  <2>2. Distinct'
        BY <1>4 DEF Delete, TypeOK, Distinct
  <2>3. Arguments'
        BY <1>4 DEF Delete, Return, NoCall, TypeOK, Arguments
  <2>4. NoOrphan'
        BY <1>4 DEF Delete, Return, TypeOK, NoOrphan, Arguments, Serial
  <2>5. SerialLocals'
        BY <1>4, ReturnLocals DEF Delete
  <2>6. SerialNonNegative'
        BY <1>4 DEF Delete, TypeOK, SerialNonNegative, Granted
  <2> QED
      BY <2>1, <2>2, <2>3, <2>4, <2>5, <2>6
<1>0. call \in [Handlers -> CallType]
      BY DEF TypeOK, CallType
<1>5. ASSUME NEW h \in Handlers, Create(h) PROVE IInv'
  <2>1. CASE instanceStates[Owner[h]] # NoState
    <3>1. /\ call' = [call EXCEPT ![h].state = instanceStates[Owner[h]]]
          /\ pc' = [pc EXCEPT ![h] = "loadId"]
          /\ pc[h] = "create"
          /\ UNCHANGED <<max, count, instanceStates, heap>>
          BY <1>5, <2>1 DEF Create, Goto
    <3>2. TypeOK'
      <4>1. instanceStates[Owner[h]] \in Refs
            BY <2>1 DEF TypeOK
      <4>2. call' \in [Handlers -> CallType]
            BY <3>1, <4>1, <1>0, PointerType
      <4>3. \A g \in Handlers : pc'[g] \notin {"idle", "create"} => call'[g].state \in Refs
            BY <3>1, <4>1 DEF TypeOK
      <4> QED
          BY <3>1, <4>2, <4>3 DEF TypeOK, CallType
    <3>3. Distinct' /\ SerialNonNegative'
          BY <3>1 DEF Distinct, SerialNonNegative, Granted
    <3>4. Arguments' /\ NoOrphan'
          BY <2>1, <3>1 DEF TypeOK, Arguments, NoOrphan
    <3>5. SerialLocals'
          BY <2>1, <3>1 DEF TypeOK, SerialLocals
    <3> QED
        BY <3>2, <3>3, <3>4, <3>5
  <2>2. CASE instanceStates[Owner[h]] = NoState
    <3> DEFINE r == CHOOSE r \in FreeRefs : TRUE
    <3>1. /\ heap' = [heap EXCEPT ![r] = [count |-> 0, requestId |-> 0]]
          /\ instanceStates' = [instanceStates EXCEPT ![Owner[h]] = r]
          /\ call' = [call EXCEPT ![h].state = r]
          /\ pc' = [pc EXCEPT ![h] = "loadId"]
          /\ pc[h] = "create"
          /\ FreeRefs # {}
          /\ UNCHANGED <<max, count>>
          BY <1>5, <2>2 DEF Create, NewState, Goto
    <3>2. /\ r \in Refs
          /\ \A i \in Instances : instanceStates[i] # r
          /\ \A g \in Handlers : call[g].state # r
          BY <3>1, FreshRef
    <3> HIDE DEF r
    <3>3. TypeOK'
      <4>1. heap' \in [Refs -> [count : Int, requestId : Nat]]
            BY <3>1, <3>2 DEF TypeOK
      <4>2. call' \in [Handlers -> CallType]
            BY <3>1, <3>2, <1>0, PointerType
      <4>3. \A g \in Handlers : pc'[g] \notin {"idle", "create"} => call'[g].state \in Refs
            BY <3>1, <3>2 DEF TypeOK
      <4> QED
          BY <3>1, <3>2, <4>1, <4>2, <4>3 DEF TypeOK, CallType
    <3>4. Distinct'
          BY <3>1, <3>2 DEF TypeOK, Distinct
    <3>5. Arguments'
          BY <3>1 DEF TypeOK, Arguments
    <3>6. NoOrphan'
          BY <2>2, <3>1, <3>2 DEF TypeOK, NoOrphan
    <3>7. SerialLocals'
          BY <3>1, <3>2 DEF TypeOK, SerialLocals
    <3>8. SerialNonNegative'
          BY <3>1, <3>2 DEF TypeOK, SerialNonNegative, Granted
    <3> QED
        BY <3>3, <3>4, <3>5, <3>6, <3>7, <3>8
  <2> QED
      BY <2>1, <2>2
<1>6. ASSUME NEW h \in Handlers, LoadRequestId(h) PROVE IInv'
  <2>1. TypeOK'
    <3>1. CASE Return(h)
          BY <1>6, <3>1, ReturnType, Zenon DEF LoadRequestId, Return, CallType, TypeOK
    <3>2. CASE UNCHANGED call
          BY <1>6, <3>2, Zenon DEF LoadRequestId, Goto, Return, TypeOK
    <3> QED
        BY <1>6, <3>1, <3>2 DEF LoadRequestId
  <2>2. Distinct'
        BY <1>6 DEF LoadRequestId, Goto, Return, NoCall, TypeOK, Distinct
  <2>3. Arguments'
        BY <1>6 DEF LoadRequestId, Goto, Return, NoCall, TypeOK, Arguments
  <2>4. NoOrphan'
        BY <1>6, Zenon DEF LoadRequestId, Goto, Return, NoCall, TypeOK, NoOrphan, Distinct
  <2>5. SerialLocals'
    <3>1. CASE Return(h)
          BY <1>6, <3>1, ReturnLocals DEF LoadRequestId
    <3>2. CASE UNCHANGED call
          BY <1>6, <3>2 DEF LoadRequestId, Goto, Return, TypeOK, SerialLocals
    <3> QED
        BY <1>6, <3>1, <3>2 DEF LoadRequestId
  <2>6. SerialNonNegative'
        BY <1>6 DEF LoadRequestId, SerialNonNegative, Granted
  <2> QED
      BY <2>1, <2>2, <2>3, <2>4, <2>5, <2>6
<1>7. ASSUME NEW h \in Handlers, StoreRequestId(h) PROVE IInv'
  <2>1. TypeOK'
        BY <1>7 DEF StoreRequestId, Goto, TypeOK
  <2>2. Distinct' /\ Arguments' /\ NoOrphan'
        BY <1>7 DEF StoreRequestId, Goto, TypeOK, Distinct, Arguments, NoOrphan
  <2>3. \A r \in Refs : heap'[r].count = heap[r].count
        BY <1>7 DEF StoreRequestId, TypeOK
  <2>4. SerialLocals'
    <3> SUFFICES ASSUME NEW g \in Handlers, Serial(Owner[g])
                 PROVE
                     /\ pc'[g] \in {"add", "compare", "undoState"}
                           => heap'[call'[g].state].count = call'[g].current /\ call'[g].old >= 0
                     /\ pc'[g] = "undoCount" => heap'[call'[g].state].count = call'[g].old
                     /\ pc'[g] = "storeId" => call'[g].requestId > heap'[call'[g].state].requestId
        BY DEF SerialLocals, Serial
    <3>1. CASE g = h
          BY <1>7, <3>1 DEF StoreRequestId, Goto, TypeOK
    <3>2. CASE g # h
          BY <1>7, <2>3, <3>2, SeparateStates, Zenon DEF StoreRequestId, Goto, TypeOK, SerialLocals
    <3> QED
        BY <3>1, <3>2
  <2>5. SerialNonNegative'
        BY <1>7, <2>3 DEF StoreRequestId, TypeOK, SerialNonNegative, Granted
  <2> QED
      BY <2>1, <2>2, <2>4, <2>5
<1>8. ASSUME NEW h \in Handlers, SwapCount(h) PROVE IInv'
  <2>1. TypeOK'
        BY <1>8 DEF SwapCount, Goto, TypeOK
  <2>2. Distinct'
        BY <1>8 DEF SwapCount, Goto, TypeOK, Distinct
  <2>3. Arguments'
        BY <1>8 DEF SwapCount, Goto, TypeOK, Arguments
  <2>4. NoOrphan'
        BY <1>8 DEF SwapCount, Goto, TypeOK, NoOrphan, Distinct
  <2>5. SerialLocals'
    <3> SUFFICES ASSUME NEW g \in Handlers, Serial(Owner[g])
                 PROVE
                     /\ pc'[g] \in {"add", "compare", "undoState"}
                           => heap'[call'[g].state].count = call'[g].current /\ call'[g].old >= 0
                     /\ pc'[g] = "undoCount" => heap'[call'[g].state].count = call'[g].old
                     /\ pc'[g] = "storeId" => call'[g].requestId > heap'[call'[g].state].requestId
        BY DEF SerialLocals, Serial
    <3>1. CASE g = h
      <4>1. Owner[h] \in Instances /\ instanceStates[Owner[h]] = call[h].state
            BY <1>8 DEF SwapCount, NoOrphan
      <4>2. heap[call[h].state].count >= 0
            BY <1>8, <3>1, <4>1 DEF SwapCount, TypeOK, SerialNonNegative, Granted
      <4> QED
          BY <1>8, <3>1, <4>2 DEF SwapCount, Goto, TypeOK
    <3>2. CASE g # h
      <4>1. call'[g] = call[g] /\ pc'[g] = pc[g]
            BY <1>8, <3>2 DEF SwapCount, Goto, TypeOK
      <4>2. pc[g] \notin {"idle", "create"} => heap'[call[g].state] = heap[call[g].state]
            BY <1>8, <3>2, SeparateStates DEF SwapCount, TypeOK
      <4> QED
          BY <4>1, <4>2 DEF SerialLocals
    <3> QED
        BY <3>1, <3>2
  <2>6. SerialNonNegative'
    <3> SUFFICES ASSUME NEW i \in Instances, Serial(i) PROVE Granted(i)' >= 0
        BY DEF SerialNonNegative, Serial
    <3>1. instanceStates[Owner[h]] = call[h].state /\ call[h].state \in Refs
          BY <1>8 DEF SwapCount, NoOrphan, TypeOK
    <3>2. CASE i = Owner[h]
      <4>1. heap'[call[h].state].count = call[h].current /\ call[h].current >= 0
            BY <1>8, <3>1 DEF SwapCount, TypeOK, Arguments
      <4> QED
          BY <1>8, <3>1, <3>2, <4>1 DEF SwapCount, Granted
    <3>3. CASE i # Owner[h]
      <4>1. instanceStates[i] # NoState => instanceStates[i] # call[h].state
            BY <3>1, <3>3 DEF Distinct
      <4>2. Granted(i)' = Granted(i)
            BY <1>8, <4>1 DEF SwapCount, Granted, TypeOK
      <4> QED
          BY <4>2 DEF SerialNonNegative
    <3> QED
        BY <3>2, <3>3
  <2> QED
      BY <2>1, <2>2, <2>3, <2>4, <2>5, <2>6
<1>9. ASSUME NEW h \in Handlers, AddDelta(h) PROVE IInv'
      BY <1>9 DEF AddDelta, Delta, Goto, TypeOK, Distinct, Arguments, NoOrphan,
                  SerialLocals, SerialNonNegative, Granted
<1>10. ASSUME NEW h \in Handlers, Compare(h) PROVE IInv'
  <2>1. TypeOK'
    <3>1. CASE Return(h)
          BY <1>10, <3>1, ReturnType, Zenon DEF Compare, Return, CallType, TypeOK
    <3>2. CASE UNCHANGED call
          BY <1>10, <3>2, Zenon DEF Compare, Goto, Return, TypeOK
    <3> QED
        BY <1>10, <3>1, <3>2 DEF Compare
  <2>2. Distinct'
        BY <1>10 DEF Compare, Goto, Return, NoCall, TypeOK, Distinct
  <2>3. Arguments'
        BY <1>10 DEF Compare, Goto, Return, NoCall, TypeOK, Arguments
  <2>4. NoOrphan'
        BY <1>10 DEF Compare, Goto, Return, NoCall, TypeOK, NoOrphan, Distinct
  <2>5. SerialLocals'
    <3>1. CASE Return(h)
          BY <1>10, <3>1, ReturnLocals DEF Compare
    <3>2. CASE UNCHANGED call
          BY <1>10, <3>2 DEF Compare, Goto, Return, TypeOK, SerialLocals
    <3> QED
        BY <1>10, <3>1, <3>2 DEF Compare
  <2>6. SerialNonNegative'
        BY <1>10 DEF Compare, SerialNonNegative, Granted
  <2> QED
      BY <2>1, <2>2, <2>3, <2>4, <2>5, <2>6
<1>11. ASSUME NEW h \in Handlers, UndoState(h) PROVE IInv'
  <2>1. TypeOK'
        BY <1>11 DEF UndoState, Delta, Goto, TypeOK
  <2>2. Distinct'
        BY <1>11 DEF UndoState, Delta, Goto, TypeOK, Distinct
  <2>3. Arguments'
        BY <1>11 DEF UndoState, Delta, Goto, TypeOK, Arguments
  <2>4. NoOrphan'
        BY <1>11 DEF UndoState, Delta, Goto, TypeOK, NoOrphan, Distinct
  <2>5. SerialLocals'
    <3> SUFFICES ASSUME NEW g \in Handlers, Serial(Owner[g])
                 PROVE
                     /\ pc'[g] \in {"add", "compare", "undoState"}
                           => heap'[call'[g].state].count = call'[g].current /\ call'[g].old >= 0
                     /\ pc'[g] = "undoCount" => heap'[call'[g].state].count = call'[g].old
                     /\ pc'[g] = "storeId" => call'[g].requestId > heap'[call'[g].state].requestId
        BY DEF SerialLocals, Serial
    <3>1. CASE g = h
          BY <1>11, <3>1 DEF UndoState, Delta, Goto, TypeOK, SerialLocals
    <3>2. CASE g # h
      <4>1. call'[g] = call[g] /\ pc'[g] = pc[g]
            BY <1>11, <3>2 DEF UndoState, Goto, TypeOK
      <4>2. pc[g] \notin {"idle", "create"} => heap'[call[g].state] = heap[call[g].state]
            BY <1>11, <3>2, SeparateStates DEF UndoState, TypeOK
      <4> QED
          BY <4>1, <4>2 DEF SerialLocals
    <3> QED
        BY <3>1, <3>2
  <2>6. SerialNonNegative'
    <3> SUFFICES ASSUME NEW i \in Instances, Serial(i) PROVE Granted(i)' >= 0
        BY DEF SerialNonNegative, Serial
    <3>1. instanceStates[Owner[h]] = call[h].state /\ call[h].state \in Refs
          BY <1>11 DEF UndoState, NoOrphan, TypeOK
    <3>2. CASE i = Owner[h]
      <4>1. heap[call[h].state].count = call[h].current /\ call[h].old >= 0
            BY <1>11, <3>2 DEF UndoState, SerialLocals
      <4>2. heap'[call[h].state].count = call[h].old
            BY <1>11, <3>1, <4>1 DEF UndoState, Delta, TypeOK
      <4> QED
          BY <1>11, <3>1, <3>2, <4>1, <4>2 DEF UndoState, Granted
    <3>3. CASE i # Owner[h]
      <4>1. instanceStates[i] # NoState => instanceStates[i] # call[h].state
            BY <3>1, <3>3 DEF Distinct
      <4>2. Granted(i)' = Granted(i)
            BY <1>11, <4>1 DEF UndoState, Granted, TypeOK
      <4> QED
          BY <4>2 DEF SerialNonNegative
    <3> QED
        BY <3>2, <3>3
  <2> QED
      BY <2>1, <2>2, <2>3, <2>4, <2>5, <2>6
<1>12. ASSUME NEW h \in Handlers, UndoCount(h) PROVE IInv'
  <2>1. TypeOK'
    <3>1. count' \in Int
          BY <1>12 DEF UndoCount, Delta, TypeOK
    <3>2. call' \in [Handlers -> CallType] /\ pc'[h] = "idle"
          BY <1>12, ReturnType DEF UndoCount
    <3>3. \A g \in Handlers : g # h => call'[g] = call[g] /\ pc'[g] = pc[g]
          BY <1>12, ReturnType DEF UndoCount
    <3>4. \A g \in Handlers : pc'[g] \notin {"idle", "create"} => call'[g].state \in Refs
          BY <3>2, <3>3 DEF TypeOK
    <3> QED
        BY <1>12, <3>1, <3>2, <3>4 DEF UndoCount, Return, CallType, TypeOK
  <2>2. Distinct'
        BY <1>12 DEF UndoCount, Distinct
  <2>3. Arguments'
        BY <1>12 DEF UndoCount, Return, NoCall, TypeOK, Arguments
  <2>4. NoOrphan'
        BY <1>12 DEF UndoCount, Return, TypeOK, NoOrphan
  <2>5. SerialLocals'
        BY <1>12, ReturnLocals DEF UndoCount
  <2>6. SerialNonNegative'
        BY <1>12 DEF UndoCount, SerialNonNegative, Granted
  <2> QED
      BY <2>1, <2>2, <2>3, <2>4, <2>5, <2>6
<1> QED
    BY <1>1, <1>2, <1>3, <1>4, <1>5, <1>6, <1>7, <1>8, <1>9, <1>10, <1>11, <1>12
       DEF Next, Step

\* The invariant holds in every reachable state.
THEOREM Invariance == Spec => []IInv
BY InitIInv, NextIInv, PTL DEF Spec

\* SetState keeps its variables well typed and dereferences no nil pointer.
THEOREM TypeCorrect == Spec => []TypeOK
<1>1. IInv => TypeOK
      BY DEF IInv
<1> QED
    BY <1>1, Invariance, PTL

\* No call of SetState works on an instanceState that a delete has removed,
\* provided that an instance expires only when its acquires no longer overlap.
THEOREM NeverOrphaned == Spec => []NoOrphan
<1>1. IInv => NoOrphan
      BY DEF IInv
<1> QED
    BY <1>1, Invariance, PTL

\* The rollback of a refused report restores the instance's previous grant, and
\* grants stay non-negative, when the instance's calls do not overlap.
THEOREM RollbackCorrect == Spec => []RollbackExact
<1>1. IInv => RollbackExact
      BY DEF IInv, SerialLocals, SerialNonNegative, RollbackExact
<1> QED
    BY <1>1, Invariance, PTL

\* One step never lowers the newest request id of an instance that keeps its state.
LEMMA StepIdGrows ==
    ASSUME IInv, [Next]_vars, NEW i \in Instances, Serial(i),
           instanceStates[i] # NoState, instanceStates'[i] = instanceStates[i]
    PROVE  heap'[instanceStates[i]].requestId >= heap[instanceStates[i]].requestId
<1> DEFINE r == instanceStates[i]
<1> USE ConstantsAssumption DEF IInv
<1>1. r \in Refs /\ heap[r].requestId \in Nat
      BY DEF TypeOK
<1>2. ASSUME NEW h \in Handlers, Create(h) PROVE heap'[r].requestId >= heap[r].requestId
  <2>1. CASE UNCHANGED heap
        BY <1>1, <2>1
  <2>2. CASE NewState(h)
        BY <1>1, <2>2, FreshRef DEF NewState, TypeOK
  <2> QED
      BY <1>2, <2>1, <2>2 DEF Create
<1>3. ASSUME NEW h \in Handlers, StoreRequestId(h)
      PROVE  heap'[r].requestId >= heap[r].requestId
  <2>1. CASE Owner[h] = i
        BY <1>1, <1>3, <2>1 DEF StoreRequestId, TypeOK, NoOrphan, SerialLocals
  <2>2. CASE Owner[h] # i
        BY <1>1, <1>3, <2>2 DEF StoreRequestId, TypeOK, NoOrphan, Distinct
  <2> QED
      BY <2>1, <2>2
<1>4. ASSUME NEW h \in Handlers, SwapCount(h) \/ UndoState(h)
      PROVE  heap'[r].requestId >= heap[r].requestId
  <2>1. call[h].state \in Refs
        BY <1>4 DEF SwapCount, UndoState, TypeOK
  <2>2. \E n : heap' = [heap EXCEPT ![call[h].state].count = n]
        BY <1>4, Zenon DEF SwapCount, UndoState
  <2>3. heap'[r].requestId = heap[r].requestId
        BY <1>1, <2>1, <2>2 DEF TypeOK
  <2> QED
      BY <1>1, <2>3
<1>5. UNCHANGED heap => heap'[r].requestId >= heap[r].requestId
      BY <1>1
<1>6. ASSUME NEW h \in Handlers, Step(h) PROVE heap'[r].requestId >= heap[r].requestId
      BY <1>2, <1>3, <1>4, <1>5, <1>6
         DEF Step, Delete, LoadRequestId, AddDelta, Compare, UndoCount
<1> QED
    BY <1>5, <1>6 DEF Next, vars, SetState, Resize

\* The server never forgets that it has seen a newer request of an instance
\* whose calls do not overlap, so a late request cannot overwrite a newer report.
THEOREM RequestIdsGrow == Spec => RequestIdGrows
<1>1. IInv /\ [Next]_vars =>
        [\A i \in Instances :
            Serial(i) /\ instanceStates[i] # NoState /\ instanceStates'[i] = instanceStates[i]
              => heap'[instanceStates[i]].requestId >= heap[instanceStates[i]].requestId]_vars
      BY StepIdGrows
<1> QED
    BY <1>1, Invariance, PTL DEF Spec, RequestIdGrows

\* The summands of the conservation law.
Uncounteds == [h \in Handlers |-> Uncounted(h)]
Grants == [i \in Instances |-> Granted(i)]

\* They are integers.
LEMMA SummandTypes ==
    TypeOK => Uncounteds \in [Handlers -> Int] /\ Grants \in [Instances -> Int]
<1> SUFFICES ASSUME TypeOK
             PROVE  Uncounteds \in [Handlers -> Int] /\ Grants \in [Instances -> Int]
    OBVIOUS
<1>1. \A h \in Handlers : Uncounted(h) \in Int
      BY DEF Uncounted, Delta, TypeOK
<1>2. \A i \in Instances : Granted(i) \in Int
      BY DEF Granted, TypeOK
<1> QED
    BY <1>1, <1>2 DEF Uncounteds, Grants

\* A step that changes what is uncounted of one call and the grant of its instance, and
\* count by the difference, keeps the law.
LEMMA BalancedStep ==
    ASSUME TypeOK, TypeOK', Conservation, NEW h \in Handlers,
           \A g \in Handlers \ {h} : Uncounted(g)' = Uncounted(g),
           \A i \in Instances \ {Owner[h]} : Granted(i)' = Granted(i),
           count' - count + Uncounted(h)' - Uncounted(h)
             = Granted(Owner[h])' - Granted(Owner[h])
    PROVE  Conservation'
<1>0. (TypeOK => Uncounteds \in [Handlers -> Int] /\ Grants \in [Instances -> Int])'
      BY SummandTypes, PTL
<1>1. /\ Uncounteds \in [Handlers -> Int] /\ Uncounteds' \in [Handlers -> Int]
      /\ Grants \in [Instances -> Int] /\ Grants' \in [Instances -> Int]
      BY <1>0, SummandTypes
<1>2. Owner[h] \in Instances /\ IsFiniteSet(Handlers) /\ IsFiniteSet(Instances)
      BY ConstantsAssumption
<1>3. /\ Uncounteds[h] = Uncounted(h) /\ Uncounteds'[h] = Uncounted(h)'
      /\ \A g \in Handlers \ {h} : Uncounteds'[g] = Uncounteds[g]
      BY DEF Uncounteds
<1>4. /\ Grants[Owner[h]] = Granted(Owner[h]) /\ Grants'[Owner[h]] = Granted(Owner[h])'
      /\ \A i \in Instances \ {Owner[h]} : Grants'[i] = Grants[i]
      BY <1>2 DEF Grants
<1>5. SumFunction(Uncounteds') = SumFunction(Uncounteds) + Uncounted(h)' - Uncounted(h)
      BY <1>1, <1>2, <1>3, SumChange
<1>6. SumFunction(Grants') = SumFunction(Grants) + Granted(Owner[h])' - Granted(Owner[h])
      BY <1>1, <1>2, <1>4, SumChange
<1>7. SumFunction(Uncounteds) \in Int /\ SumFunction(Grants) \in Int
      BY <1>1, <1>2, SumType DEF SumFunction
<1>8. count + SumFunction(Uncounteds) = SumFunction(Grants)
      BY DEF Conservation, Uncounteds, Grants
<1>9. /\ count \in Int /\ count' \in Int
      /\ Uncounted(h) \in Int /\ Uncounted(h)' \in Int
      /\ Granted(Owner[h]) \in Int /\ Granted(Owner[h])' \in Int
      BY <1>1, <1>2, <1>3, <1>4 DEF TypeOK
<1>10. count' + SumFunction(Uncounteds') = SumFunction(Grants')
      BY <1>5, <1>6, <1>7, <1>8, <1>9
<1> QED
    BY <1>10 DEF Conservation, Uncounteds, Grants

\* A step of a call that keeps every pointer changes the grant of no other instance.
LEMMA OtherGrants ==
    ASSUME IInv, NEW h \in Handlers, pc[h] \notin {"idle", "create"},
           UNCHANGED instanceStates,
           \A r \in Refs \ {call[h].state} : heap'[r] = heap[r]
    PROVE  /\ \A i \in Instances \ {Owner[h]} : Granted(i)' = Granted(i)
           /\ Granted(Owner[h]) = heap[call[h].state].count
           /\ Granted(Owner[h])' = heap'[call[h].state].count
<1> USE ConstantsAssumption
<1>1. /\ Owner[h] \in Instances /\ call[h].state \in Refs
      /\ instanceStates[Owner[h]] = call[h].state /\ call[h].state # NoState
      BY DEF IInv, NoOrphan, TypeOK
<1>2. \A i \in Instances \ {Owner[h]} : instanceStates[i] # call[h].state
      BY <1>1 DEF IInv, Distinct
<1>3. \A i \in Instances : instanceStates[i] \in Refs \union {NoState}
      BY DEF IInv, TypeOK
<1>4. \A i \in Instances \ {Owner[h]} : Granted(i)' = Granted(i)
      BY <1>2, <1>3 DEF Granted
<1> QED
    BY <1>1, <1>4 DEF Granted

\* The other calls are not concerned.
LEMMA OthersUncounted ==
    ASSUME NEW h \in Handlers, \A g \in Handlers \ {h} : pc'[g] = pc[g] /\ call'[g] = call[g]
    PROVE  \A g \in Handlers \ {h} : Uncounted(g)' = Uncounted(g)
BY DEF Uncounted, Delta

\* At first nothing is counted or granted.
LEMMA InitConservation == Init => Conservation
<1> SUFFICES ASSUME Init PROVE Conservation
    OBVIOUS
<1>1. TypeOK
      BY InitIInv DEF IInv
<1>2. \A h \in Handlers : Uncounteds[h] = 0
      BY DEF Init, Uncounteds, Uncounted
<1>3. \A i \in Instances : Grants[i] = 0
      BY DEF Init, Grants, Granted
<1>4. IsFiniteSet(Handlers) /\ IsFiniteSet(Instances)
      BY ConstantsAssumption
<1>5. Uncounteds \in [Handlers -> Int] /\ Grants \in [Instances -> Int]
      BY <1>1, SummandTypes
<1>6. SumFunction(Uncounteds) = 0
      BY <1>2, <1>4, <1>5, SumZero
<1>7. SumFunction(Grants) = 0
      BY <1>3, <1>4, <1>5, SumZero
<1> QED
    BY <1>6, <1>7 DEF Init, Conservation, Uncounteds, Grants

\* Every step keeps the law: a change of a grant is uncounted until the handler adds it.
LEMMA NextConservation == IInv /\ IInv' /\ Conservation /\ [Next]_vars => Conservation'
<1> SUFFICES ASSUME IInv, IInv', Conservation, [Next]_vars PROVE Conservation'
    OBVIOUS
<1>0. TypeOK /\ TypeOK'
      BY DEF IInv
<1>1. ASSUME UNCHANGED count,
             \A h \in Handlers : Uncounted(h)' = Uncounted(h),
             \A i \in Instances : Granted(i)' = Granted(i)
      PROVE  Conservation'
      BY <1>1 DEF Conservation
<1>2. ASSUME NEW h \in Handlers, UNCHANGED <<count, instanceStates, heap>>,
             \A g \in Handlers \ {h} : pc'[g] = pc[g] /\ call'[g] = call[g],
             pc[h] \notin {"add", "undoCount"}, pc'[h] \notin {"add", "undoCount"}
      PROVE  Conservation'
  <2>1. \A g \in Handlers : Uncounted(g)' = Uncounted(g)
        BY <1>2, OthersUncounted DEF Uncounted
  <2>2. \A i \in Instances : Granted(i)' = Granted(i)
        BY <1>2 DEF Granted
  <2> QED
      BY <1>1, <1>2, <2>1, <2>2
<1>3. ASSUME UNCHANGED <<count, instanceStates, heap, pc, call>> PROVE Conservation'
      BY <1>1, <1>3 DEF Uncounted, Delta, Granted
<1>4. ASSUME NEW h \in Handlers, NEW id, NEW cur, SetState(h, id, cur) PROVE Conservation'
      BY <1>2, <1>4, <1>0 DEF SetState, Goto, TypeOK
<1>5. ASSUME NEW h \in Handlers, LoadRequestId(h) PROVE Conservation'
      BY <1>2, <1>5, <1>0 DEF LoadRequestId, Return, Goto, TypeOK
<1>6. ASSUME NEW h \in Handlers, Compare(h) PROVE Conservation'
      BY <1>2, <1>6, <1>0 DEF Compare, Return, Goto, TypeOK
<1>7. ASSUME NEW h \in Handlers, StoreRequestId(h) PROVE Conservation'
  <2>1. \A g \in Handlers : Uncounted(g)' = Uncounted(g)
        BY <1>7, <1>0 DEF StoreRequestId, Goto, Uncounted, Delta, TypeOK
  <2>2. \A r \in Refs : heap'[r].count = heap[r].count
        BY <1>7, <1>0 DEF StoreRequestId, TypeOK
  <2>3. \A i \in Instances : Granted(i)' = Granted(i)
        BY <1>7, <1>0, <2>2 DEF StoreRequestId, Granted, TypeOK
  <2> QED
      BY <1>1, <1>7, <2>1, <2>3 DEF StoreRequestId
<1>8. ASSUME NEW h \in Handlers, SwapCount(h) PROVE Conservation'
  <2>1. /\ pc[h] = "swap" /\ UNCHANGED <<count, instanceStates>>
        /\ call[h].state \in Refs
        /\ \A r \in Refs \ {call[h].state} : heap'[r] = heap[r]
        /\ heap'[call[h].state].count = call[h].current
        /\ \A g \in Handlers \ {h} : pc'[g] = pc[g] /\ call'[g] = call[g]
        BY <1>8, <1>0 DEF SwapCount, Goto, TypeOK
  <2>7. /\ pc'[h] = "add" /\ call'[h].current = call[h].current
        /\ call'[h].old = heap[call[h].state].count
        BY <1>8, <1>0 DEF SwapCount, Goto, TypeOK
  <2>2. /\ \A i \in Instances \ {Owner[h]} : Granted(i)' = Granted(i)
        /\ Granted(Owner[h]) = heap[call[h].state].count
        /\ Granted(Owner[h])' = heap'[call[h].state].count
        BY <2>1, OtherGrants
  <2>3. Uncounted(h) = 0 /\ Uncounted(h)' = call[h].current - heap[call[h].state].count
        BY <2>1, <2>7 DEF Uncounted, Delta
  <2>4. heap[call[h].state].count \in Int /\ call[h].current \in Int /\ count \in Int
        BY <1>0, <2>1 DEF TypeOK
  <2>5. count' - count + Uncounted(h)' - Uncounted(h)
          = Granted(Owner[h])' - Granted(Owner[h])
    <3>1. /\ count' = count /\ Granted(Owner[h])' = call[h].current
          /\ Granted(Owner[h]) = heap[call[h].state].count
          BY <2>1, <2>2
    <3> QED
        BY <3>1, <2>3, <2>4
  <2>6. \A g \in Handlers \ {h} : Uncounted(g)' = Uncounted(g)
        BY <2>1, OthersUncounted
  <2> QED
      BY <1>0, <2>2, <2>5, <2>6, BalancedStep
<1>9. ASSUME NEW h \in Handlers, AddDelta(h) PROVE Conservation'
  <2>1. /\ pc[h] = "add" /\ UNCHANGED <<instanceStates, heap>>
        /\ count' = count + Delta(h) /\ pc'[h] = "compare"
        /\ \A g \in Handlers \ {h} : pc'[g] = pc[g] /\ call'[g] = call[g]
        BY <1>9, <1>0 DEF AddDelta, Goto, TypeOK
  <2>2. Uncounted(h) = Delta(h) /\ Uncounted(h)' = 0 /\ count \in Int /\ Delta(h) \in Int
        BY <2>1, <1>0 DEF Uncounted, Delta, TypeOK
  <2>3. \A i \in Instances : Granted(i)' = Granted(i)
        BY <2>1 DEF Granted
  <2>4. Owner[h] \in Instances /\ Granted(Owner[h]) \in Int
        BY <1>0, ConstantsAssumption DEF Granted, TypeOK
  <2>5. count' - count + Uncounted(h)' - Uncounted(h)
          = Granted(Owner[h])' - Granted(Owner[h])
    <3>1. count' = count + Delta(h) /\ Granted(Owner[h])' = Granted(Owner[h])
          BY <2>1, <2>3, <2>4
    <3> QED
        BY <3>1, <2>2, <2>4
  <2>6. \A g \in Handlers \ {h} : Uncounted(g)' = Uncounted(g)
        BY <2>1, OthersUncounted
  <2> QED
      BY <1>0, <2>3, <2>5, <2>6, BalancedStep
<1>10. ASSUME NEW h \in Handlers, UndoState(h) PROVE Conservation'
  <2>1. /\ pc[h] = "undoState" /\ UNCHANGED <<count, instanceStates>>
        /\ call[h].state \in Refs
        /\ \A r \in Refs \ {call[h].state} : heap'[r] = heap[r]
        /\ heap'[call[h].state].count = heap[call[h].state].count - Delta(h)
        /\ \A g \in Handlers \ {h} : pc'[g] = pc[g] /\ call'[g] = call[g]
        /\ pc'[h] = "undoCount" /\ call'[h] = call[h]
        BY <1>10, <1>0 DEF UndoState, Goto, TypeOK
  <2>2. /\ \A i \in Instances \ {Owner[h]} : Granted(i)' = Granted(i)
        /\ Granted(Owner[h]) = heap[call[h].state].count
        /\ Granted(Owner[h])' = heap'[call[h].state].count
        BY <2>1, OtherGrants
  <2>3. Uncounted(h) = 0 /\ Uncounted(h)' = -Delta(h)
        BY <2>1 DEF Uncounted, Delta
  <2>4. heap[call[h].state].count \in Int /\ Delta(h) \in Int /\ count \in Int
        BY <1>0, <2>1 DEF TypeOK, Delta
  <2>5. count' - count + Uncounted(h)' - Uncounted(h)
          = Granted(Owner[h])' - Granted(Owner[h])
    <3>1. /\ count' = count /\ Granted(Owner[h])' = heap[call[h].state].count - Delta(h)
          /\ Granted(Owner[h]) = heap[call[h].state].count
          BY <2>1, <2>2
    <3> QED
        BY <3>1, <2>3, <2>4
  <2>6. \A g \in Handlers \ {h} : Uncounted(g)' = Uncounted(g)
        BY <2>1, OthersUncounted
  <2> QED
      BY <1>0, <2>2, <2>5, <2>6, BalancedStep
<1>11. ASSUME NEW h \in Handlers, UndoCount(h) PROVE Conservation'
  <2>1. /\ pc[h] = "undoCount" /\ UNCHANGED <<instanceStates, heap>>
        /\ count' = count - Delta(h) /\ pc'[h] = "idle"
        /\ \A g \in Handlers \ {h} : pc'[g] = pc[g] /\ call'[g] = call[g]
        BY <1>11, <1>0 DEF UndoCount, Return, TypeOK
  <2>2. Uncounted(h) = -Delta(h) /\ Uncounted(h)' = 0 /\ count \in Int /\ Delta(h) \in Int
        BY <2>1, <1>0 DEF Uncounted, Delta, TypeOK
  <2>3. \A i \in Instances : Granted(i)' = Granted(i)
        BY <2>1 DEF Granted
  <2>4. Owner[h] \in Instances /\ Granted(Owner[h]) \in Int
        BY <1>0, ConstantsAssumption DEF Granted, TypeOK
  <2>5. count' - count + Uncounted(h)' - Uncounted(h)
          = Granted(Owner[h])' - Granted(Owner[h])
    <3>1. count' = count - Delta(h) /\ Granted(Owner[h])' = Granted(Owner[h])
          BY <2>1, <2>3, <2>4
    <3> QED
        BY <3>1, <2>2, <2>4
  <2>6. \A g \in Handlers \ {h} : Uncounted(g)' = Uncounted(g)
        BY <2>1, OthersUncounted
  <2> QED
      BY <1>0, <2>3, <2>5, <2>6, BalancedStep
<1>12. ASSUME NEW h \in Handlers, Delete(h) PROVE Conservation'
  <2>0. Owner[h] \in Instances
        BY ConstantsAssumption
  <2>1. /\ pc[h] = "delete" /\ UNCHANGED heap
        /\ count' = count - heap[call[h].state].count /\ pc'[h] = "idle"
        /\ instanceStates' = [instanceStates EXCEPT ![Owner[h]] = NoState]
        /\ \A g \in Handlers \ {h} : pc'[g] = pc[g] /\ call'[g] = call[g]
        BY <1>12, <1>0 DEF Delete, Return, TypeOK
  <2>2. Uncounted(h) = 0 /\ Uncounted(h)' = 0
        BY <2>1 DEF Uncounted
  <2>3. /\ call[h].state \in Refs /\ instanceStates[Owner[h]] = call[h].state
        /\ count \in Int /\ heap[call[h].state].count \in Int
        BY <2>1, <1>0 DEF IInv, NoOrphan, TypeOK
  <2>4. /\ Granted(Owner[h]) = heap[call[h].state].count /\ Granted(Owner[h])' = 0
        /\ \A i \in Instances \ {Owner[h]} : Granted(i)' = Granted(i)
        BY <2>0, <2>1, <2>3, <1>0, ConstantsAssumption DEF Granted, TypeOK
  <2>5. count' - count + Uncounted(h)' - Uncounted(h)
          = Granted(Owner[h])' - Granted(Owner[h])
    <3>1. PICK k \in Int : k = heap[call[h].state].count
          BY <2>3
    <3>2. /\ count' = count - k /\ Granted(Owner[h]) = k
          /\ Granted(Owner[h])' = 0 /\ count \in Int
          BY <2>1, <2>3, <2>4, <3>1
    <3> QED
        BY <3>2, <2>2
  <2>6. \A g \in Handlers \ {h} : Uncounted(g)' = Uncounted(g)
        BY <2>1, OthersUncounted
  <2> QED
      BY <1>0, <2>4, <2>5, <2>6, BalancedStep
<1>13. ASSUME NEW h \in Handlers, Create(h) PROVE Conservation'
  <2>0. Owner[h] \in Instances
        BY ConstantsAssumption
  <2>1. CASE instanceStates[Owner[h]] # NoState
        BY <2>1, <1>13, <1>2, <1>0 DEF Create, Goto, TypeOK
  <2>2. CASE instanceStates[Owner[h]] = NoState
    <3> DEFINE r == CHOOSE r \in FreeRefs : TRUE
    <3>1. /\ heap' = [heap EXCEPT ![r] = [count |-> 0, requestId |-> 0]]
          /\ instanceStates' = [instanceStates EXCEPT ![Owner[h]] = r]
          /\ pc[h] = "create" /\ pc'[h] = "loadId" /\ FreeRefs # {} /\ count' = count
          /\ \A g \in Handlers \ {h} : pc'[g] = pc[g] /\ call'[g] = call[g]
          BY <1>13, <2>2, <1>0 DEF Create, NewState, Goto, TypeOK
    <3>2. r \in Refs /\ \A i \in Instances : instanceStates[i] # r
          BY <3>1, FreshRef
    <3> HIDE DEF r
    <3>3. /\ Granted(Owner[h]) = 0 /\ Granted(Owner[h])' = 0
          /\ \A i \in Instances \ {Owner[h]} : Granted(i)' = Granted(i)
          BY <2>0, <2>2, <3>1, <3>2, <1>0, ConstantsAssumption DEF Granted, TypeOK
    <3>4. \A g \in Handlers : Uncounted(g)' = Uncounted(g)
          BY <3>1, OthersUncounted DEF Uncounted
    <3> QED
        BY <1>1, <3>1, <3>3, <3>4
  <2> QED
      BY <2>1, <2>2
<1> QED
    BY <1>3, <1>4, <1>5, <1>6, <1>7, <1>8, <1>9, <1>10, <1>11, <1>12, <1>13
    DEF Next, Step, Resize, vars

\* The total and the per-instance counts agree, but for the changes of calls that are
\* still in progress, in every reachable state.
THEOREM CountConserved == Spec => []Conservation
<1> QED
    BY Invariance, InitConservation, NextConservation, PTL DEF Spec

\* Once no call is in progress, count is what the instances are granted together: it
\* does not drift, however reports, refusals and deletions were interleaved before.
NoDrift ==
    (\A h \in Handlers : pc[h] = "idle")
        => count = SumFunction([i \in Instances |-> Granted(i)])

\* So the running total that SetState compares with max is exact whenever it rests.
THEOREM CountDoesNotDrift == Spec => []NoDrift
<1>1. TypeOK /\ Conservation => NoDrift
  <2> SUFFICES ASSUME TypeOK, Conservation, \A h \in Handlers : pc[h] = "idle"
               PROVE  count = SumFunction([i \in Instances |-> Granted(i)])
      BY DEF NoDrift
  <2>1. \A h \in Handlers : Uncounteds[h] = 0
        BY DEF Uncounteds, Uncounted
  <2>2. SumFunction(Uncounteds) = 0
        BY <2>1, SummandTypes, SumZero, ConstantsAssumption
  <2> QED
      BY <2>2 DEF Conservation, Uncounteds, TypeOK
<1> QED
    BY <1>1, TypeCorrect, CountConserved, PTL

-----------------------------------------------------------------------------
(* What keeps the instances within max, which QuiescentWithinMax shows to be exceeded *)

\* One call at a time is between its second RLock and its return.
OneInside == \A g, h \in Handlers : Inside(g) /\ Inside(h) => g = h

\* A call has added its change to count, and has not given it up or been accepted yet.
Undecided(h) == pc[h] \in {"compare", "undoState", "undoCount"}

\* The total is within max, except for the change of a call that is yet to be judged or
\* rolled back.
WithinMax ==
    /\ (\A h \in Handlers : ~Undecided(h)) => count <= max
    /\ \A h \in Handlers : Undecided(h) =>
          /\ count - Delta(h) <= max
          /\ pc[h] = "compare" => call[h].counted = count

\* A step that leaves the total alone, and starts or ends no judgement.
LEMMA SameTotal ==
    ASSUME WithinMax, TypeOK, TypeOK', max' >= max, UNCHANGED count,
           \A h \in Handlers : Undecided(h)' <=> Undecided(h),
           \A h \in Handlers : Undecided(h) =>
               /\ call'[h] = call[h]
               /\ pc'[h] = "compare" => pc[h] = "compare"
    PROVE  WithinMax'
<1>1. max \in Int /\ max' \in Int /\ count \in Int
  BY ConstantsAssumption DEF TypeOK
<1>2. ASSUME \A h \in Handlers : ~Undecided(h)' PROVE count' <= max'
  BY <1>1, <1>2 DEF WithinMax
<1>3. ASSUME NEW h \in Handlers, Undecided(h)'
      PROVE  count' - Delta(h)' <= max' /\ (pc'[h] = "compare" => call'[h].counted = count')
  <2>1. /\ Undecided(h) /\ call'[h] = call[h]
        /\ pc'[h] = "compare" => pc[h] = "compare"
    BY <1>3
  <2>2. Delta(h)' = Delta(h) /\ Delta(h) \in Int
    BY <2>1 DEF Delta, TypeOK
  <2>3. count - Delta(h) <= max /\ (pc[h] = "compare" => call[h].counted = count)
    BY <2>1 DEF WithinMax
  <2>4. count' - Delta(h)' <= max'
    BY <1>1, <2>2, <2>3
  <2> QED
    BY <2>1, <2>3, <2>4
<1> QED
  BY <1>2, <1>3 DEF WithinMax

\* Every step keeps the total within max when calls do not overlap and max is not lowered.
LEMMA NextWithinMax ==
    ASSUME IInv, IInv', WithinMax, OneInside, OneInside', [Next]_vars, max' >= max
    PROVE  WithinMax'
<1>1. /\ TypeOK /\ TypeOK' /\ max \in Int /\ max' \in Int /\ count \in Int /\ count' \in Int
      /\ \A h \in Handlers : Delta(h) \in Int
  BY ConstantsAssumption DEF IInv, TypeOK, Delta
<1>2. ASSUME NEW h \in Handlers, UNCHANGED count,
             \A g \in Handlers \ {h} : pc'[g] = pc[g] /\ call'[g] = call[g],
             ~Undecided(h), ~Undecided(h)'
      PROVE  WithinMax'
  BY <1>1, <1>2, SameTotal DEF Undecided
<1>3. CASE UNCHANGED vars \/ \E n \in Limits : Resize(n)
  BY <1>1, <1>3, SameTotal DEF vars, Resize, Undecided
<1>4. ASSUME NEW h \in Handlers, NEW id, NEW cur, SetState(h, id, cur) PROVE WithinMax'
  BY <1>1, <1>2, <1>4 DEF SetState, Goto, Undecided, TypeOK
<1>5. ASSUME NEW h \in Handlers,
             Create(h) \/ LoadRequestId(h) \/ StoreRequestId(h) \/ SwapCount(h)
      PROVE  WithinMax'
  <2>1. CASE Create(h)
    BY <1>1, <1>2, <2>1 DEF Create, NewState, Goto, Undecided, TypeOK
  <2>2. CASE LoadRequestId(h)
    BY <1>1, <1>2, <2>2 DEF LoadRequestId, Return, Goto, Undecided, TypeOK
  <2>3. CASE StoreRequestId(h)
    BY <1>1, <1>2, <2>3 DEF StoreRequestId, Goto, Undecided, TypeOK
  <2>4. CASE SwapCount(h)
    BY <1>1, <1>2, <2>4 DEF SwapCount, Goto, Undecided, TypeOK
  <2> QED
    BY <1>5, <2>1, <2>2, <2>3, <2>4
<1>6. ASSUME NEW h \in Handlers, Delete(h) PROVE WithinMax'
  <2>1. /\ pc[h] = "delete" /\ WriteLockFree
        /\ count' = count - heap[call[h].state].count
        /\ \A g \in Handlers : pc'[g] = IF g = h THEN "idle" ELSE pc[g]
    BY <1>1, <1>6 DEF Delete, Return, TypeOK
  <2>2. \A g \in Handlers : ~Undecided(g) /\ ~Undecided(g)'
    BY <2>1 DEF WriteLockFree, Inside, Undecided
  <2>3. heap[call[h].state].count >= 0 /\ heap[call[h].state].count \in Int
    <3>1. Serial(Owner[h]) /\ Owner[h] \in Instances
      BY <2>1, ConstantsAssumption, ExpiringAssumption DEF IInv, Arguments
    <3>2. instanceStates[Owner[h]] = call[h].state /\ call[h].state \in Refs
      BY <1>1, <2>1 DEF IInv, NoOrphan, TypeOK
    <3>3. Granted(Owner[h]) = heap[call[h].state].count
      BY <3>2, ConstantsAssumption DEF Granted
    <3> QED
      BY <1>1, <3>1, <3>2, <3>3 DEF IInv, SerialNonNegative, TypeOK
  <2>4. count <= max
    BY <2>2 DEF WithinMax
  <2>5. count' <= max'
    <3> DEFINE n == heap[call[h].state].count
    <3>1. count' = count - n /\ n >= 0 /\ n \in Int
      BY <2>1, <2>3
    <3>2. count \in Int /\ max \in Int /\ max' \in Int /\ max' >= max
      BY <1>1, ConstantsAssumption DEF TypeOK
    <3> HIDE DEF n
    <3> QED
      BY <2>4, <3>1, <3>2
  <2> QED
    BY <2>2, <2>5 DEF WithinMax
<1>7. ASSUME NEW h \in Handlers, Inside(h) PROVE \A g \in Handlers \ {h} : ~Undecided(g)
  BY <1>7 DEF OneInside, Inside, Undecided
<1>8. ASSUME NEW h \in Handlers, AddDelta(h) PROVE WithinMax'
  <2>1. /\ pc[h] = "add" /\ pc' = [pc EXCEPT ![h] = "compare"]
        /\ count' = count + Delta(h)
        /\ call' = [call EXCEPT ![h].counted = count + Delta(h)]
    BY <1>8 DEF AddDelta, Goto
  <2>2. /\ call'[h].counted = count' /\ Delta(h)' = Delta(h)
        /\ \A g \in Handlers : pc'[g] = IF g = h THEN "compare" ELSE pc[g]
    BY <1>1, <2>1 DEF TypeOK, Delta
  <2>3. \A g \in Handlers \ {h} : ~Undecided(g) /\ ~Undecided(g)'
    BY <1>7, <2>1, <2>2 DEF Inside, Undecided
  <2>4. count <= max
    BY <2>1, <2>3 DEF WithinMax, Undecided
  <2>5. Undecided(h)'
    BY <2>2 DEF Undecided
  <2> QED
    BY <1>1, <2>1, <2>2, <2>3, <2>4, <2>5 DEF WithinMax
<1>9. ASSUME NEW h \in Handlers, Compare(h) PROVE WithinMax'
  <2>1. CASE call[h].counted > max
    <3>1. /\ UNCHANGED <<count, call>> /\ pc[h] = "compare"
          /\ \A g \in Handlers : pc'[g] = IF g = h THEN "undoState" ELSE pc[g]
      BY <1>1, <1>9, <2>1 DEF Compare, Goto, TypeOK
    <3> QED
      BY <1>1, <3>1, SameTotal DEF Undecided
  <2>2. CASE call[h].counted <= max
    <3>1. /\ pc[h] = "compare" /\ UNCHANGED count
          /\ \A g \in Handlers : pc'[g] = IF g = h THEN "idle" ELSE pc[g]
      BY <1>1, <1>9, <2>2 DEF Compare, Return, TypeOK
    <3>2. count <= max
      BY <2>2, <3>1 DEF WithinMax, Undecided
    <3>3. \A g \in Handlers : ~Undecided(g)'
      BY <1>7, <3>1 DEF Inside, Undecided
    <3>4. count' <= max'
      <4>1. count \in Int /\ max \in Int /\ max' \in Int
        BY <1>1
      <4> QED
        BY <3>1, <3>2, <4>1
    <3> QED
      BY <3>3, <3>4 DEF WithinMax
  <2> QED
    BY <1>1, <2>1, <2>2 DEF TypeOK
<1>10. ASSUME NEW h \in Handlers, UndoState(h) PROVE WithinMax'
  <2>1. /\ UNCHANGED <<count, call>> /\ pc[h] = "undoState"
        /\ \A g \in Handlers : pc'[g] = IF g = h THEN "undoCount" ELSE pc[g]
    BY <1>1, <1>10 DEF UndoState, Goto, TypeOK
  <2> QED
    BY <1>1, <2>1, SameTotal DEF Undecided
<1>11. ASSUME NEW h \in Handlers, UndoCount(h) PROVE WithinMax'
  <2>1. /\ pc[h] = "undoCount" /\ count' = count - Delta(h)
        /\ \A g \in Handlers : pc'[g] = IF g = h THEN "idle" ELSE pc[g]
    BY <1>1, <1>11 DEF UndoCount, Return, TypeOK
  <2>2. count' <= max
    BY <1>1, <2>1 DEF WithinMax, Undecided
  <2>3. \A g \in Handlers : ~Undecided(g)'
    BY <1>7, <2>1 DEF Inside, Undecided
  <2> QED
    BY <1>1, <2>2, <2>3 DEF WithinMax
<1> QED
  BY <1>3, <1>4, <1>5, <1>6, <1>8, <1>9, <1>10, <1>11 DEF Next, Step

\* GlobalMaxRequestsInflight is kept as long as the sections of SetState under its read lock
\* do not overlap, as they would not under a write lock, and max is not lowered: the
\* interleaving of two such sections is the only way for the instances to be granted more
\* than max together.
THEOREM LimitKeptWithoutOverlap ==
    Spec /\ []OneInside /\ [][max' >= max]_vars => []QuiescentWithinMax
<1>1. Init => WithinMax
  BY InitIInv, ConstantsAssumption DEF Init, WithinMax, Undecided
<1>2. ASSUME IInv, IInv', WithinMax, OneInside, OneInside', [Next]_vars, [max' >= max]_vars
      PROVE  WithinMax'
  <2>1. max' >= max
    BY <1>2, ConstantsAssumption DEF vars, IInv, TypeOK
  <2> QED
    BY <1>2, <2>1, NextWithinMax
<1>3. WithinMax /\ NoDrift => QuiescentWithinMax
  BY DEF WithinMax, NoDrift, QuiescentWithinMax, Undecided
<1> QED
  BY <1>1, <1>2, <1>3, Invariance, CountDoesNotDrift, PTL DEF Spec
=============================================================================
