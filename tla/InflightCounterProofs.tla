------------------------ MODULE InflightCounterProofs ------------------------
(***************************************************************************)
(* Proofs about InflightCounter, for any limits and bounds.                *)
(***************************************************************************)
EXTENDS InflightCounter, SumTheorems, TLAPS

\* The larger of two numbers is one of them and no less than either.
LEMMA MaxOfTwo ==
    ASSUME NEW m \in Nat, NEW n \in Nat
    PROVE  Max({m, n}) \in {m, n} /\ Max({m, n}) >= m /\ Max({m, n}) >= n
<1>1. \E x \in {m, n} : \A y \in {m, n} : x >= y
  OBVIOUS
<1>2. Max({m, n}) \in {m, n} /\ \A y \in {m, n} : Max({m, n}) >= y
  BY <1>1 DEF Max
<1>3. QED
  BY <1>2

\* Falling back gives the wrapped lock at least the size of the local schema.
LEMMA FallBackKeeps == ASSUME FallbackServes, FallBack PROVE FallbackServes'
<1>1. CASE unavailable
  BY <1>1 DEF FallBack, FallbackServes
<1>2. CASE ~unavailable
  <2>1. PICK maxInflight \in 0..Requests : size' = Max({maxInflight, LocalMax})
    BY <1>2 DEF FallBack
  <2>2. maxInflight \in Nat /\ LocalMax \in Nat
    BY CounterAssumption
  <2>3. size' >= LocalMax
    BY <2>1, <2>2, MaxOfTwo
  <2>4. QED
    BY <2>3 DEF FallbackServes
<1>3. QED
  BY <1>1, <1>2

\* An answer of the server ends the fallback or marks the gateway as over its limit.
LEMMA ApplyAnswerKeeps == ASSUME NEW c, ApplyAnswer(c) PROVE FallbackServes'
<1>1. CASE c.answer.kind = "accept"
  BY <1>1 DEF ApplyAnswer, FallbackServes
<1>2. CASE c.answer.kind = "refuse"
  BY <1>2 DEF ApplyAnswer, FallbackServes
<1>3. QED
  BY <1>1, <1>2 DEF ApplyAnswer

\* Every step of the gateway, its calls and the server keeps FallbackServes.
LEMMA NextFallbackServes == ASSUME FallbackServes, [Next]_vars PROVE FallbackServes'
<1>1. CASE UNCHANGED <<size, unavailable, overLimited>>
  BY <1>1 DEF FallbackServes
<1>2. ASSUME NEW c \in calls, SetLimit(c) PROVE FallbackServes'
  BY <1>2, FallBackKeeps, ApplyAnswerKeeps DEF SetLimit
<1>3. CASE ResetCheck
  BY <1>3, FallBackKeeps DEF ResetCheck
<1>4. ASSUME NEW c \in calls, Handle(c) \/ Check(c) \/ GiveUp(c) PROVE FallbackServes'
  BY <1>1, <1>4 DEF Handle, Check, GiveUp, clientVars
<1>5. ASSUME NEW c \in lost, HandleLost(c) PROVE FallbackServes'
  BY <1>1, <1>5 DEF HandleLost, clientVars
<1>6. CASE TryAcquire \/ Release \/ EndWait
  BY <1>1, <1>6 DEF TryAcquire, Release, EndWait
<1>7. CASE OthersReport \/ Down \/ Restart \/ DoAcquire
  BY <1>1, <1>7 DEF OthersReport, Down, Restart, DoAcquire, clientVars
<1>8. CASE UNCHANGED vars
  BY <1>1, <1>8 DEF vars, clientVars
<1>9. QED
  BY <1>2, <1>3, <1>4, <1>5, <1>6, <1>7, <1>8 DEF Next, Disturbance, Traffic, Call

\* SetLimit, resetCheck: whatever order errors and answers are applied in, and whatever the
\* limits are, a gateway without a server keeps the local schema's limit unless the server
\* has refused it last.
THEOREM FallbackAlwaysServes == Spec => []FallbackServes
<1>1. Init => FallbackServes
  BY DEF Init, FallbackServes
<1>2. FallbackServes /\ [Next]_vars => FallbackServes'
  BY NextFallbackServes
<1>3. QED
  BY <1>1, <1>2, PTL DEF Spec
-----------------------------------------------------------------------------
(* Types.  That the ranks stay small is not inductive by itself: it takes  *)
(* that the calls in progress have few times.  The records are no measure  *)
(* of it, since a call that is given up and its request on the way are two *)
(* records with one time.                                                  *)

CallType(times) ==
    [time : times, tokens : 0..Limit, answer : Answers, phase : {"sent", "answered", "checked"}]

CallTimes(cs) == {c.time : c \in cs}

\* The parts of CounterTypeOK that renumbering writes.
RanksOK(last, srv, cs) ==
    /\ last \in 0..(Calls + 1)
    /\ srv \in [count : 0..Limit, requestId : 0..(Calls + 1)]
    /\ cs \subseteq CallType(0..(Calls + 1))

FewCalls(cs) == IsFiniteSet(cs) /\ Cardinality(CallTimes(cs)) <= Calls

\* The parts of CounterTypeOK that it does not write.
ClientOK ==
    /\ {inflight, waitInflight, inflight + waitInflight} \subseteq 0..Requests
    /\ size \in 0..Max({Limit, LocalMax, Requests})
    /\ acquired \in 0..Limit
    /\ overLimited \in BOOLEAN /\ unavailable \in BOOLEAN

OthersOK == others \in 0..Limit /\ up \in BOOLEAN

CallsOK == RanksOK(lastAcquireTime, server, calls \cup lost) /\ FewCalls(calls \cup lost)

\* The inductive invariant behind CounterTypeOK.
CounterIInv == ClientOK /\ OthersOK /\ CallsOK

\* A set of numbers that is finite and not empty has a largest.
LEMMA MaxOfFinite ==
    ASSUME NEW T, T \subseteq Int, IsFiniteSet(T), T # {}
    PROVE  Max(T) \in T
<1> DEFINE Above(t) == {w \in T : w > t}
           B == {Above(t) : t \in T}
<1>1. B \in SUBSET SUBSET T
  OBVIOUS
<1>2. B # {}
  BY Zenon
<1>3. PICK A \in B : \A U \in B : U \subseteq A => U = A
  <2> HIDE DEF B
  <2>1. IsFiniteSet(T)
    OBVIOUS
  <2> HIDE DEF Above
  <2>2. QED
    BY ONLY <1>1, <1>2, <2>1, MinimalSubset
<1>4. PICK t \in T : A = Above(t)
  OBVIOUS
<1>5. ASSUME NEW u \in T, u > t PROVE FALSE
  <2>1. Above(u) \in B
    OBVIOUS
  <2>2. \A w \in T : w > u => w > t
    BY <1>5
  <2>3. Above(u) \subseteq A
    BY <1>4, <2>2, Zenon
  <2>4. Above(u) = A
    BY <1>3, <2>1, <2>3, Zenon
  <2>5. u \in A
    BY <1>4, <1>5
  <2>6. QED
    BY <2>4, <2>5
<1>6. \A u \in T : t >= u
  BY <1>5
<1>7. QED
  BY <1>6, Zenon DEF Max

\* The image of a finite set under a function is no larger.
LEMMA ImageOfFinite ==
    ASSUME NEW S, IsFiniteSet(S), NEW f, DOMAIN f = S, f = [x \in S |-> f[x]]
    PROVE  LET T == {f[x] : x \in S}
           IN  IsFiniteSet(T) /\ Cardinality(T) \in Nat /\ Cardinality(T) <= Cardinality(S)
<1> DEFINE T == {f[x] : x \in S}
<1>1. f \in Surjection(S, T)
  BY DEF Surjection
<1>2. IsFiniteSet(T) /\ Cardinality(T) <= Cardinality(S)
  <2> HIDE DEF T
  <2> QED BY <1>1, FS_Surjection
<1>3. Cardinality(T) \in Nat
  <2> HIDE DEF T
  <2> QED BY <1>2, FS_CardinalityType
<1>4. QED
  BY <1>2, <1>3

\* Calls have no more times than there are calls.
LEMMA TimesFinite ==
    ASSUME NEW cs, IsFiniteSet(cs)
    PROVE  /\ IsFiniteSet(CallTimes(cs)) /\ Cardinality(CallTimes(cs)) \in Nat
           /\ Cardinality(CallTimes(cs)) <= Cardinality(cs)
<1> DEFINE f == [c \in cs |-> c.time]
<1>1. CallTimes(cs) = {f[c] : c \in cs}
  BY DEF CallTimes
<1>2. DOMAIN f = cs /\ f = [c \in cs |-> f[c]]
  OBVIOUS
<1> HIDE DEF f
<1>3. QED
  BY <1>1, <1>2, ImageOfFinite

\* With fewer calls there are fewer times.
LEMMA FewerCalls ==
    ASSUME NEW cs, NEW ds, FewCalls(cs), IsFiniteSet(ds), CallTimes(ds) \subseteq CallTimes(cs)
    PROVE  FewCalls(ds)
<1>1. /\ IsFiniteSet(CallTimes(cs)) /\ Cardinality(CallTimes(cs)) \in Nat
      /\ Cardinality(CallTimes(ds)) \in Nat
  BY TimesFinite DEF FewCalls
<1>2. Cardinality(CallTimes(ds)) <= Cardinality(CallTimes(cs))
  BY <1>1, FS_Subset
<1>3. QED
  BY <1>1, <1>2, CounterAssumption DEF FewCalls

\* One more element makes a set larger by one at most.
LEMMA OneMore ==
    ASSUME NEW S, IsFiniteSet(S), NEW x, NEW n \in Int, Cardinality(S) <= n
    PROVE  /\ IsFiniteSet(S \cup {x}) /\ Cardinality(S \cup {x}) \in Nat
           /\ Cardinality(S \cup {x}) <= n + 1
<1>1. Cardinality(S) \in Nat
  BY FS_CardinalityType
<1>2. /\ IsFiniteSet(S \cup {x})
      /\ Cardinality(S \cup {x}) = IF x \in S THEN Cardinality(S) ELSE Cardinality(S) + 1
  BY FS_AddElement
<1>3. QED
  BY <1>1, <1>2

\* The rank of a time among the times of the gateway, the server and few calls.
LEMMA RankBound ==
    ASSUME NEW C \in SUBSET Int, IsFiniteSet(C), Cardinality(C) <= Calls,
           NEW m \in Int, NEW n \in Int, NEW t \in {m, n} \cup C
    PROVE  Cardinality({u \in {m, n} \cup C : u < t}) \in 0..(Calls + 1)
<1> DEFINE T == {m, n} \cup C
           R == {u \in T : u < t}
<1>0. Calls \in Int /\ Calls + 1 \in Int
  BY CounterAssumption
<1>1. IsFiniteSet(C \cup {n}) /\ Cardinality(C \cup {n}) \in Nat
      /\ Cardinality(C \cup {n}) <= Calls + 1
  BY <1>0, OneMore, Zenon
<1>2. IsFiniteSet((C \cup {n}) \cup {m}) /\ Cardinality((C \cup {n}) \cup {m}) \in Nat
      /\ Cardinality((C \cup {n}) \cup {m}) <= (Calls + 1) + 1
  BY <1>0, <1>1, OneMore, Zenon
<1>3. T = (C \cup {n}) \cup {m}
  OBVIOUS
<1>4. t \in T
  OBVIOUS
<1> HIDE DEF T
<1>5. IsFiniteSet(T) /\ Cardinality(T) \in Nat /\ Cardinality(T) <= Calls + 2
  BY <1>0, <1>2, <1>3
<1>6. R \in SUBSET (T \ {t})
  BY DEF T
<1> HIDE DEF R
<1>7. IsFiniteSet(T \ {t}) /\ Cardinality(T \ {t}) = Cardinality(T) - 1
  BY <1>4, <1>5, FS_RemoveElement
<1>8. IsFiniteSet(R) /\ Cardinality(R) <= Cardinality(T \ {t})
  BY <1>6, <1>7, FS_Subset
<1>9. Cardinality(R) \in Nat
  BY <1>8, FS_CardinalityType
<1>10. Cardinality(R) \in 0..(Calls + 1)
  BY <1>5, <1>7, <1>8, <1>9, CounterAssumption
<1>11. QED
  BY <1>10 DEF R, T

\* Renumbering keeps the ranks in their range when the calls have few times.
LEMMA RenumberRanks ==
    ASSUME NEW last \in Int, NEW srv \in [count : 0..Limit, requestId : Int], NEW cs, NEW ls,
           cs \cup ls \subseteq CallType(Int), FewCalls(cs \cup ls), Renumber(last, srv, cs, ls)
    PROVE  RanksOK(lastAcquireTime, server, calls \cup lost)' /\ FewCalls(calls \cup lost)'
<1> DEFINE all == cs \cup ls
           times == {last, srv.requestId} \cup {c.time : c \in all}
           Rank(t) == Cardinality({u \in times : u < t})
           move == [c \in all |-> [c EXCEPT !.time = Rank(c.time)]]
           rank == [t \in CallTimes(all) |-> Rank(t)]
<1>1. /\ lastAcquireTime' = Rank(last)
      /\ server' = [srv EXCEPT !.requestId = Rank(srv.requestId)]
      /\ calls' = {[c EXCEPT !.time = Rank(c.time)] : c \in cs}
      /\ lost' = {[c EXCEPT !.time = Rank(c.time)] : c \in ls}
  BY DEF Renumber
<1>2. CallTimes(all) \in SUBSET Int /\ srv.requestId \in Int
  BY DEF CallTimes, CallType
<1>3. IsFiniteSet(all) /\ IsFiniteSet(CallTimes(all)) /\ Cardinality(CallTimes(all)) <= Calls
      /\ Cardinality(CallTimes(all)) \in Nat
  BY TimesFinite DEF FewCalls
<1>4. times = {last, srv.requestId} \cup CallTimes(all)
  BY DEF CallTimes
<1>5. \A t \in times : Rank(t) \in 0..(Calls + 1)
  <2> SUFFICES ASSUME NEW t \in times PROVE Rank(t) \in 0..(Calls + 1)
    OBVIOUS
  <2> HIDE DEF all, times
  <2>1. QED
    BY <1>2, <1>3, <1>4, RankBound
<1>6. calls' \cup lost' = {move[c] : c \in all}
  BY <1>1, Zenon
<1>7. \A c \in all : /\ move[c] \in CallType(0..(Calls + 1))
                      /\ c.time \in CallTimes(all) /\ move[c].time = rank[c.time]
  <2> SUFFICES ASSUME NEW c \in all
               PROVE  /\ move[c] \in CallType(0..(Calls + 1))
                      /\ c.time \in CallTimes(all) /\ move[c].time = rank[c.time]
    BY Zenon
  <2>1. c \in CallType(Int) /\ c.time \in CallTimes(all) /\ c.time \in times
    BY DEF CallTimes
  <2>2. Rank(c.time) \in 0..(Calls + 1)
    BY <1>5, <2>1, Zenon
  <2>3. move[c] = [c EXCEPT !.time = Rank(c.time)] /\ rank[c.time] = Rank(c.time)
    BY <2>1
  <2> HIDE DEF Rank, move, rank, all
  <2>4. QED
    BY <2>1, <2>2, <2>3 DEF CallType
<1>8. DOMAIN move = all /\ move = [c \in all |-> move[c]]
  OBVIOUS
<1>9. DOMAIN rank = CallTimes(all) /\ rank = [t \in CallTimes(all) |-> rank[t]]
  OBVIOUS
<1>10. RanksOK(lastAcquireTime, server, calls \cup lost)'
  <2>1. Rank(last) \in 0..(Calls + 1) /\ Rank(srv.requestId) \in 0..(Calls + 1)
    BY <1>5
  <2>2. calls' \cup lost' \subseteq CallType(0..(Calls + 1))
    BY <1>6, <1>7, Zenon
  <2> HIDE DEF Rank, move, rank, all
  <2>3. QED
    BY <1>1, <2>1, <2>2 DEF RanksOK
<1> HIDE DEF move, rank, all
<1>11. IsFiniteSet(calls' \cup lost')
  BY <1>3, <1>6, <1>8, ImageOfFinite
<1>12. CallTimes(calls' \cup lost') \subseteq {rank[t] : t \in CallTimes(all)}
  BY <1>6, <1>7 DEF CallTimes
<1>13. LET R == {rank[t] : t \in CallTimes(all)}
       IN  IsFiniteSet(R) /\ Cardinality(R) \in Nat /\ Cardinality(R) <= Cardinality(CallTimes(all))
  BY <1>3, <1>9, ImageOfFinite
<1>14. /\ Cardinality(CallTimes(calls' \cup lost')) \in Nat
       /\ Cardinality(CallTimes(calls' \cup lost'))
             <= Cardinality({rank[t] : t \in CallTimes(all)})
  BY <1>11, <1>12, <1>13, FS_Subset, TimesFinite
<1>15. Cardinality(CallTimes(calls' \cup lost')) <= Calls
  BY <1>3, <1>13, <1>14, CounterAssumption
<1>16. QED
  BY <1>10, <1>11, <1>15 DEF FewCalls, CallTimes

\* The smaller of two numbers is one of them and no greater than either.
LEMMA MinOfTwo ==
    ASSUME NEW m \in Nat, NEW n \in Nat
    PROVE  Min({m, n}) \in {m, n} /\ Min({m, n}) <= m /\ Min({m, n}) <= n
<1>1. \E x \in {m, n} : \A y \in {m, n} : x <= y
  OBVIOUS
<1>2. Min({m, n}) \in {m, n} /\ \A y \in {m, n} : Min({m, n}) <= y
  BY <1>1 DEF Min
<1>3. QED
  BY <1>2

\* The largest size of the wrapped lock.
LEMMA LargestSize ==
    LET M == Max({Limit, LocalMax, Requests})
    IN  M \in Nat /\ M >= Limit /\ M >= LocalMax /\ M >= Requests
<1> DEFINE S == {Limit, LocalMax, Requests}
<1>1. Limit \in Nat /\ LocalMax \in Nat /\ Requests \in Nat
  BY CounterAssumption
<1>2. \E x \in S : \A y \in S : x >= y
  BY <1>1
<1>3. Max(S) \in S /\ \A y \in S : Max(S) >= y
  BY <1>2 DEF Max
<1>4. QED
  BY <1>1, <1>3

\* The reserve and the batch of a limit lie between one and the limit.
LEMMA ReserveType == Reserve \in 1..Limit /\ Batch \in 1..Limit
<1>1. Limit \in Nat /\ Limit >= 1
  BY CounterAssumption
<1>2. /\ (Limit * 2) \div 100 \in Nat /\ (Limit * 2) \div 100 <= Limit
      /\ (Limit * 20) \div 100 \in Nat /\ (Limit * 20) \div 100 <= Limit
  BY <1>1
<1>3. PICK m \in Nat, n \in Nat :
        m = (Limit * 2) \div 100 /\ n = (Limit * 20) \div 100 /\ m <= Limit /\ n <= Limit
  BY <1>2
<1>4. /\ Max({m, 1}) \in {m, 1} /\ Max({m, 1}) >= 1
      /\ Max({n, 1}) \in {n, 1} /\ Max({n, 1}) >= 1
  BY MaxOfTwo
<1>5. QED
  BY <1>1, <1>3, <1>4 DEF Reserve, Batch

\* A gateway never asks for more than the limit.
LEMMA ExpectTokenType == ASSUME ClientOK PROVE ExpectToken \in 0..Limit
<1>1. inflight \in Nat /\ waitInflight \in Nat /\ Limit \in Nat /\ Batch \in Nat
  BY CounterAssumption, ReserveType DEF ClientOK
<1>2. Min({Batch, waitInflight}) \in Nat
  BY <1>1, MinOfTwo
<1>3. PICK k \in Nat :
        k = inflight + IF ~overLimited /\ waitInflight > 0 THEN Min({Batch, waitInflight}) ELSE 0
  BY <1>1, <1>2
<1>4. Min({k, Limit}) \in Nat /\ Min({k, Limit}) <= Limit
  BY <1>1, MinOfTwo
<1>5. QED
  BY <1>1, <1>3, <1>4 DEF ExpectToken

\* The server counts at most the limit for a gateway, and answers with such a number.
LEMMA SetStateType ==
    ASSUME CounterIInv, NEW current \in 0..Limit, NEW id \in Int
    PROVE  LET r == SetState(current, id)
           IN  r.server \in [count : 0..Limit, requestId : Int] /\ r.answer \in Answers
<1>1. /\ Limit \in Nat /\ others \in 0..Limit
      /\ server \in [count : 0..Limit, requestId : Int]
  BY CounterAssumption DEF CounterIInv, OthersOK, CallsOK, RanksOK
<1>2. QED
  BY <1>1 DEF SetState, Answers

\* The records and times of the calls in progress, before a step renumbers them.
LEMMA CallsAre ==
    ASSUME CounterIInv
    PROVE  /\ lastAcquireTime \in Int /\ server \in [count : 0..Limit, requestId : Int]
           /\ calls \cup lost \subseteq CallType(Int) /\ IsFiniteSet(calls \cup lost)
  BY DEF CounterIInv, CallsOK, RanksOK, FewCalls, CallType

\* A call that goes on with its time, or ends, leaves few calls.
LEMMA ReplacedCall ==
    ASSUME CounterIInv, NEW c \in calls \cup lost,
           NEW d \in CallType(Int), d.time = c.time,
           NEW ds, ds \subseteq (calls \cup lost) \cup {d}
    PROVE  ds \subseteq CallType(Int) /\ FewCalls(ds)
<1>1. ds \subseteq CallType(Int)
  BY CallsAre
<1>2. IsFiniteSet((calls \cup lost) \cup {d})
  BY CallsAre, FS_AddElement
<1>3. IsFiniteSet(ds)
  BY <1>2, FS_Subset
<1>4. CallTimes(ds) \subseteq CallTimes(calls \cup lost)
  BY DEF CallTimes
<1>5. FewCalls(calls \cup lost)
  BY DEF CounterIInv, CallsOK
<1>6. QED
  BY <1>1, <1>3, <1>4, <1>5, FewerCalls

\* A call that ends.
LEMMA EndedCall ==
    ASSUME CounterIInv, NEW ds, ds \subseteq calls \cup lost
    PROVE  ds \subseteq CallType(Int) /\ FewCalls(ds)
<1>1. IsFiniteSet(ds)
  BY CallsAre, FS_Subset
<1>2. CallTimes(ds) \subseteq CallTimes(calls \cup lost)
  BY DEF CallTimes
<1>3. FewCalls(calls \cup lost)
  BY DEF CounterIInv, CallsOK
<1>4. QED
  BY <1>1, <1>2, <1>3, CallsAre, FewerCalls

\* Falling back keeps the sizes in their range.
LEMMA FallBackType == ASSUME ClientOK, FallBack PROVE ClientOK'
<1>1. size' \in 0..Max({Limit, LocalMax, Requests}) /\ unavailable' \in BOOLEAN
  <2>1. CASE unavailable
    BY <2>1 DEF FallBack, ClientOK
  <2>2. CASE ~unavailable
    <3>1. PICK maxInflight \in 0..Requests : size' = Max({maxInflight, LocalMax})
      BY <2>2 DEF FallBack
    <3>2. maxInflight \in Nat /\ LocalMax \in Nat /\ Requests \in Nat
      BY CounterAssumption
    <3>3. size' \in {maxInflight, LocalMax}
      BY <3>1, <3>2, MaxOfTwo
    <3>4. size' \in 0..Max({Limit, LocalMax, Requests})
      BY <3>2, <3>3, LargestSize
    <3>5. unavailable' = TRUE
      BY <2>2 DEF FallBack
    <3>6. QED
      BY <3>4, <3>5
  <2>3. QED
    BY <2>1, <2>2
<1>2. QED
  BY <1>1 DEF FallBack, ClientOK

\* So does an answer of the server.
LEMMA ApplyAnswerType ==
    ASSUME ClientOK, NEW c \in CallType(Int), ApplyAnswer(c)
    PROVE  ClientOK'
<1>1. Limit \in Nat /\ Reserve \in Nat
  BY CounterAssumption, ReserveType
<1>2. c.answer.limit \in 0..Limit
  BY <1>1 DEF CallType, Answers, NoAnswer, Error
<1>3. PICK m \in Nat : m = Max({c.answer.limit, Reserve})
  BY <1>1, <1>2, MaxOfTwo
<1>4. Min({m, Limit}) \in 0..Limit
  BY <1>1, MinOfTwo
<1>5. /\ acquired' \in 0..Limit /\ size' \in 0..Limit
      /\ overLimited' \in BOOLEAN /\ unavailable' \in BOOLEAN
  BY <1>2, <1>3, <1>4, Zenon DEF ApplyAnswer, ClientOK
<1>6. size' \in 0..Max({Limit, LocalMax, Requests})
  BY <1>1, <1>5, LargestSize
<1>7. inflight' = inflight /\ waitInflight' = waitInflight
  BY DEF ApplyAnswer
<1>8. QED
  BY <1>5, <1>6, <1>7 DEF ClientOK

\* Two numbers whose sum is in a range.
LEMMA InRange ==
    ASSUME NEW i \in Nat, NEW j \in Nat, NEW n \in Nat, i + j <= n
    PROVE  {i, j, i + j} \subseteq 0..n
<1>1. i <= n /\ j <= n /\ i + j \in Nat
  OBVIOUS
<1>2. QED
  BY <1>1

\* The requests of the gateway: the lock and the wait for an answer.
LEMMA RequestsType ==
    ASSUME CounterIInv, TryAcquire \/ EndWait \/ Release
    PROVE  CounterIInv'
<1>1. Requests \in Nat
  BY CounterAssumption
<1>2. {inflight', waitInflight', inflight' + waitInflight'} \subseteq 0..Requests
  <2>1. inflight \in Nat /\ waitInflight \in Nat /\ inflight + waitInflight <= Requests
    BY <1>1 DEF CounterIInv, ClientOK
  <2>2. /\ inflight' \in Nat /\ waitInflight' \in Nat
        /\ inflight' + waitInflight' <= Requests
    <3>1. CASE TryAcquire
      <4>1. \/ inflight' = inflight + 1 /\ waitInflight' = waitInflight
            \/ inflight' = inflight /\ waitInflight' = waitInflight + 1
        BY <3>1 DEF TryAcquire
      <4>2. inflight + waitInflight < Requests
        BY <3>1 DEF TryAcquire
      <4>3. QED
        BY <1>1, <2>1, <4>1, <4>2
    <3>2. CASE EndWait
      <4>1. inflight' = inflight + 1 \/ inflight' = inflight + 0
        BY <3>2 DEF EndWait
      <4>2. waitInflight > 0 /\ waitInflight' = waitInflight - 1
        BY <3>2 DEF EndWait
      <4>3. QED
        BY <1>1, <2>1, <4>1, <4>2
    <3>3. CASE Release
      BY <1>1, <2>1, <3>3 DEF Release
    <3>4. QED
      BY <3>1, <3>2, <3>3
  <2>3. QED
    BY <1>1, <2>2, InRange, Zenon
<1>3. ClientOK'
  BY <1>2 DEF CounterIInv, ClientOK, TryAcquire, EndWait, Release
<1>4. UNCHANGED <<lastAcquireTime, calls, lost, server, others, up>>
  BY DEF TryAcquire, EndWait, Release, serverVars
<1>5. QED
  BY <1>3, <1>4 DEF CounterIInv, OthersOK, CallsOK

\* The worker sends a report: one time more, when there were fewer calls than the bound.
LEMMA DoAcquireType == ASSUME CounterIInv, DoAcquire PROVE CounterIInv'
<1> DEFINE c == [time |-> Max(Times) + 1, tokens |-> ExpectToken, phase |-> "sent",
                 answer |-> NoAnswer]
           all == (calls \cup {c}) \cup lost
<1>1. Max(Times) \in Int
  <2>1. Times = ({lastAcquireTime} \cup {server.requestId}) \cup CallTimes(calls \cup lost)
    BY DEF Times, CallTimes
  <2>2. Times \subseteq Int /\ Times # {}
    BY <2>1, CallsAre DEF CallTimes, CallType
  <2>3. IsFiniteSet({lastAcquireTime} \cup {server.requestId})
    BY FS_Singleton, FS_AddElement, Zenon
  <2>4. IsFiniteSet(Times)
    BY <2>1, <2>3, CallsAre, TimesFinite, FS_Union, Zenon
  <2>5. QED
    BY <2>2, <2>4, MaxOfFinite, Zenon
<1>2. c \in CallType(Int)
  <2>1. ExpectToken \in 0..Limit
    BY ExpectTokenType DEF CounterIInv
  <2>2. QED
    BY <1>1, <2>1 DEF CallType, Answers
<1> HIDE DEF c
<1>3. all = (calls \cup lost) \cup {c}
  OBVIOUS
<1>4. FewCalls(all)
  <2>1. /\ Calls - 1 \in Int /\ IsFiniteSet(calls \cup lost)
        /\ Cardinality(calls \cup lost) <= Calls - 1
    BY CallsAre, FS_CardinalityType, CounterAssumption DEF DoAcquire
  <2>2. IsFiniteSet(all) /\ Cardinality(all) \in Nat /\ Cardinality(all) <= (Calls - 1) + 1
    BY <1>3, <2>1, OneMore, Zenon
  <2> HIDE DEF all
  <2>3. Cardinality(CallTimes(all)) \in Nat /\ Cardinality(CallTimes(all)) <= Cardinality(all)
    BY <2>2, TimesFinite
  <2>4. QED
    BY <2>2, <2>3, CounterAssumption DEF FewCalls
<1>5. all \subseteq CallType(Int)
  BY <1>2, <1>3, CallsAre
<1>6. Renumber(lastAcquireTime, server, calls \cup {c}, lost)
  BY DEF DoAcquire, c
<1>7. CallsOK'
  BY <1>4, <1>5, <1>6, CallsAre, RenumberRanks DEF CallsOK
<1>8. QED
  BY <1>7 DEF DoAcquire, CounterIInv, ClientOK, OthersOK, clientVars

\* The server handles a report whose call is in progress.
LEMMA HandleType == ASSUME CounterIInv, NEW c \in calls, Handle(c) PROVE CounterIInv'
<1>1. c \in CallType(Int) /\ c.tokens \in 0..Limit /\ c.time \in Int
  BY CallsAre DEF CallType
<1>2. PICK r : r = SetState(c.tokens, c.time)
  OBVIOUS
<1>3. r.server \in [count : 0..Limit, requestId : Int] /\ r.answer \in Answers
  BY <1>1, <1>2, SetStateType
<1>4. PICK d : d = [c EXCEPT !.phase = "answered", !.answer = r.answer]
  OBVIOUS
<1>5. d \in CallType(Int) /\ d.time = c.time
  BY <1>1, <1>3, <1>4, Zenon DEF CallType
<1>6. PICK ds \in {{}, {d}} : Renumber(lastAcquireTime, r.server, (calls \ {c}) \cup ds, lost)
  BY <1>2, <1>4 DEF Handle
<1>7. LET es == ((calls \ {c}) \cup ds) \cup lost IN es \subseteq CallType(Int) /\ FewCalls(es)
  <2>1. ((calls \ {c}) \cup ds) \cup lost \subseteq (calls \cup lost) \cup {d}
    OBVIOUS
  <2>2. QED
    BY <1>5, <2>1, ReplacedCall
<1>8. CallsOK'
  BY <1>3, <1>6, <1>7, CallsAre, RenumberRanks DEF CallsOK
<1>9. QED
  BY <1>8 DEF Handle, CounterIInv, ClientOK, OthersOK, clientVars

\* A report arrives that the gateway has given up.
LEMMA HandleLostType == ASSUME CounterIInv, NEW c \in lost, HandleLost(c) PROVE CounterIInv'
<1>1. c.tokens \in 0..Limit /\ c.time \in Int
  BY CallsAre DEF CallType
<1>2. PICK r : r = SetState(c.tokens, c.time)
  OBVIOUS
<1>3. r.server \in [count : 0..Limit, requestId : Int]
  BY <1>1, <1>2, SetStateType
<1>4. LET es == calls \cup (lost \ {c}) IN es \subseteq CallType(Int) /\ FewCalls(es)
  <2>1. calls \cup (lost \ {c}) \subseteq calls \cup lost
    OBVIOUS
  <2>2. QED
    BY <2>1, EndedCall
<1>5. Renumber(lastAcquireTime, r.server, calls, lost \ {c})
  BY <1>2 DEF HandleLost
<1>6. CallsOK'
  BY <1>3, <1>4, <1>5, CallsAre, RenumberRanks DEF CallsOK
<1>7. QED
  BY <1>6 DEF HandleLost, CounterIInv, ClientOK, OthersOK, clientVars

\* The other gateways report, or the leader changes.
LEMMA ServersType ==
    ASSUME CounterIInv, OthersReport \/ Down \/ Restart PROVE CounterIInv'
<1>1. Limit \in Nat
  BY CounterAssumption
<1>2. CASE OthersReport
  BY <1>2 DEF OthersReport, CounterIInv, ClientOK, OthersOK, CallsOK, clientVars
<1>3. CASE Restart
  BY <1>3 DEF Restart, CounterIInv, ClientOK, OthersOK, CallsOK, clientVars
<1>4. CASE Down
  <2>1. PICK n \in Int : n = -1
    OBVIOUS
  <2>2. PICK srv : srv = [count |-> 0, requestId |-> n]
    BY Zenon
  <2>3. srv \in [count : 0..Limit, requestId : Int]
    BY <1>1, <2>2
  <2>4. Renumber(lastAcquireTime, srv, calls, lost)
    BY <1>4, <2>1, <2>2 DEF Down
  <2>5. FewCalls(calls \cup lost)
    BY DEF CounterIInv, CallsOK
  <2>6. CallsOK'
    BY <2>3, <2>4, <2>5, CallsAre, RenumberRanks DEF CallsOK
  <2>7. OthersOK'
    <3>1. 0 \in 0..Limit
      BY <1>1
    <3>2. others' = 0 /\ up' = FALSE
      BY <1>4 DEF Down
    <3>3. QED
      BY <3>1, <3>2, Zenon DEF OthersOK
  <2>8. QED
    BY <1>4, <2>6, <2>7 DEF Down, CounterIInv, ClientOK, clientVars
<1>5. QED
  BY <1>2, <1>3, <1>4

\* The gateway gives up a call. Its error and its request share the time of the call.
LEMMA GiveUpType == ASSUME CounterIInv, NEW c \in calls, GiveUp(c) PROVE CounterIInv'
<1>1. c \in CallType(Int)
  BY CallsAre
<1>2. PICK d : d = [c EXCEPT !.phase = "checked", !.answer = Error]
  OBVIOUS
<1>3. d \in CallType(Int) /\ d.time = c.time
  BY <1>1, <1>2, Zenon DEF CallType, Answers
<1>4. PICK ls \in {lost, lost \cup {c}}, ds \in {{}, {d}} :
        Renumber(lastAcquireTime, server, (calls \ {c}) \cup ds, ls)
  BY <1>2 DEF GiveUp
<1>5. LET es == ((calls \ {c}) \cup ds) \cup ls IN es \subseteq CallType(Int) /\ FewCalls(es)
  <2>1. ((calls \ {c}) \cup ds) \cup ls \subseteq (calls \cup lost) \cup {d}
    OBVIOUS
  <2>2. QED
    BY <1>3, <2>1, ReplacedCall
<1>6. CallsOK'
  BY <1>4, <1>5, CallsAre, RenumberRanks DEF CallsOK
<1>7. QED
  BY <1>6 DEF GiveUp, CounterIInv, ClientOK, OthersOK, clientVars

\* The time of an answer is compared with the last one applied.
LEMMA CheckType == ASSUME CounterIInv, NEW c \in calls, Check(c) PROVE CounterIInv'
<1>1. CallsOK'
  <2>1. CASE Renumber(lastAcquireTime, server, calls \ {c}, lost)
    <3>1. (calls \ {c}) \cup lost \subseteq calls \cup lost
      OBVIOUS
    <3>2. QED
      BY <2>1, <3>1, EndedCall, CallsAre, RenumberRanks, Zenon DEF CallsOK
  <2>2. CASE /\ calls' = (calls \ {c}) \cup {[c EXCEPT !.phase = "checked"]}
             /\ UNCHANGED <<lastAcquireTime, lost, server>>
    <3>1. PICK d : d = [c EXCEPT !.phase = "checked"]
      BY Zenon
    <3>2. RanksOK(lastAcquireTime, server, calls \cup lost)
      BY DEF CounterIInv, CallsOK
    <3>3. d \in CallType(0..(Calls + 1)) /\ d.time = c.time
      BY <3>1, <3>2 DEF RanksOK, CallType
    <3>4. d \in CallType(Int)
      BY <3>3 DEF CallType
    <3>5. calls' \cup lost' \subseteq (calls \cup lost) \cup {d}
      BY <2>2, <3>1
    <3>6. FewCalls(calls' \cup lost')
      BY <3>3, <3>4, <3>5, ReplacedCall
    <3>7. calls' \cup lost' \subseteq CallType(0..(Calls + 1))
      BY <3>2, <3>3, <3>5 DEF RanksOK
    <3>8. QED
      BY <2>2, <3>2, <3>6, <3>7 DEF CallsOK, RanksOK, FewCalls, CallTimes
  <2>3. QED
    BY <2>1, <2>2 DEF Check
<1>2. QED
  BY <1>1 DEF Check, CounterIInv, ClientOK, OthersOK, clientVars

\* An answer or an error is applied, and its call ends.
LEMMA SetLimitType == ASSUME CounterIInv, NEW c \in calls, SetLimit(c) PROVE CounterIInv'
<1>1. c \in CallType(Int) /\ c.time \in Int
  BY CallsAre DEF CallType
<1>2. ClientOK'
  BY <1>1, FallBackType, ApplyAnswerType DEF SetLimit, CounterIInv
<1>3. PICK last \in Int : Renumber(last, server, calls \ {c}, lost)
  BY <1>1, CallsAre DEF SetLimit
<1>4. LET es == (calls \ {c}) \cup lost IN es \subseteq CallType(Int) /\ FewCalls(es)
  <2>1. (calls \ {c}) \cup lost \subseteq calls \cup lost
    OBVIOUS
  <2>2. QED
    BY <2>1, EndedCall
<1>5. CallsOK'
  BY <1>3, <1>4, CallsAre, RenumberRanks DEF CallsOK
<1>6. QED
  BY <1>2, <1>5 DEF SetLimit, CounterIInv, OthersOK

\* Every step keeps the inductive invariant.
LEMMA NextCounterIInv == ASSUME CounterIInv, [Next]_vars PROVE CounterIInv'
<1>1. CASE ResetCheck
  <2>1. ClientOK'
    BY <1>1, FallBackType DEF ResetCheck, CounterIInv
  <2>2. QED
    BY <1>1, <2>1 DEF ResetCheck, CounterIInv, OthersOK, CallsOK, serverVars
<1>2. CASE UNCHANGED vars
  BY <1>2 DEF vars, clientVars, serverVars, CounterIInv, ClientOK, OthersOK, CallsOK
<1>3. CASE TryAcquire \/ EndWait \/ Release
  BY <1>3, RequestsType
<1>4. CASE OthersReport \/ Down \/ Restart
  BY <1>4, ServersType
<1>5. CASE DoAcquire
  BY <1>5, DoAcquireType
<1>6. ASSUME NEW c \in calls, GiveUp(c) \/ Call(c) PROVE CounterIInv'
  BY <1>6, GiveUpType, HandleType, CheckType, SetLimitType DEF Call
<1>7. ASSUME NEW c \in lost, HandleLost(c) PROVE CounterIInv'
  BY <1>7, HandleLostType
<1>8. QED
  BY <1>1, <1>2, <1>3, <1>4, <1>5, <1>6, <1>7 DEF Next, Disturbance, Traffic

\* The gateway starts without calls.
LEMMA InitCounterIInv == ASSUME Init PROVE CounterIInv
<1>1. Limit \in Nat /\ Requests \in Nat /\ Calls \in Nat
  BY CounterAssumption
<1>2. size \in 0..Max({Limit, LocalMax, Requests})
  BY <1>1, ReserveType, LargestSize DEF Init
<1>3. {0, 0, 0 + 0} \subseteq 0..Requests /\ acquired \in 0..Limit
  BY <1>1, InRange DEF Init
<1>4. ClientOK
  BY <1>2, <1>3, Zenon DEF Init, ClientOK
<1>5. calls \cup lost = {} /\ CallTimes({}) = {}
  BY DEF Init, CallTimes
<1>6. FewCalls(calls \cup lost)
  BY <1>1, <1>5, FS_EmptySet DEF FewCalls
<1>7. RanksOK(lastAcquireTime, server, calls \cup lost)
  BY <1>1, <1>5 DEF Init, RanksOK
<1>8. QED
  BY <1>1, <1>4, <1>6, <1>7 DEF Init, CounterIInv, OthersOK, CallsOK

\* maxInflightWrapper, DoAcquire: whatever the limits are and however calls overtake each
\* other, are given up or arrive late, the gateway's limit, what it asks for and what the
\* server counts for it stay between zero and the limits of the schema.
THEOREM CounterTypeCorrect == Spec => []CounterTypeOK
<1>1. Init => CounterIInv
  BY InitCounterIInv
<1>2. CounterIInv /\ [Next]_vars => CounterIInv'
  BY NextCounterIInv
<1>3. CounterIInv => CounterTypeOK
  BY DEF CounterIInv, ClientOK, OthersOK, CallsOK, RanksOK, CallType, CounterTypeOK
<1>4. QED
  BY <1>1, <1>2, <1>3, PTL DEF Spec
=============================================================================
