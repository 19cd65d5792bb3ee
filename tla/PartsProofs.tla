----------------------------- MODULE PartsProofs -----------------------------
(***************************************************************************)
(* Proofs about three of the parts: QuotaAllocation, for any number of     *)
(* gateways and any total, uses and scenario; TokenCounter, for any number *)
(* of calls, requests and troubles; PolicyMatch, for any rules and         *)
(* requests.                                                               *)
(***************************************************************************)
EXTENDS MCParts, SumTheorems, TLAPS

-----------------------------------------------------------------------------
(* Arithmetic of calculateNextQuota *)

\* The extremes of two numbers.
LEMMA ExtremesOfTwo ==
    ASSUME NEW a \in Int, NEW b \in Int
    PROVE  /\ Max({a, b}) \in Int /\ Max({a, b}) >= a /\ Max({a, b}) >= b
           /\ Min({a, b}) \in {a, b} /\ Min({a, b}) <= a /\ Min({a, b}) <= b
<1>1. \E x \in {a, b} : \A y \in {a, b} : x >= y
      OBVIOUS
<1>2. \E x \in {a, b} : \A y \in {a, b} : x <= y
      OBVIOUS
<1>3. Max({a, b}) \in {a, b} /\ \A y \in {a, b} : Max({a, b}) >= y
      BY <1>1 DEF Max
<1>4. Min({a, b}) \in {a, b} /\ \A y \in {a, b} : Min({a, b}) <= y
      BY <1>2 DEF Min
<1> QED
    BY <1>3, <1>4

\* The largest of three numbers is at least the second.
LEMMA MaxOfThree ==
    ASSUME NEW a \in Int, NEW b \in Int, NEW c \in Int
    PROVE  Max({a, b, c}) \in Int /\ Max({a, b, c}) >= b
<1>1. \E x \in {a, b, c} : \A y \in {a, b, c} : x >= y
      OBVIOUS
<1>2. Max({a, b, c}) \in {a, b, c} /\ \A y \in {a, b, c} : Max({a, b, c}) >= y
      BY <1>1 DEF Max
<1> QED
    BY <1>2

\* Rounding up a number of at most n units does not exceed n.
LEMMA RoundedUp ==
    ASSUME NEW unit \in Nat \ {0}, NEW n \in Nat, NEW x \in Int, 0 <= x, x <= n * unit
    PROVE  -((-x) \div unit) \in Nat /\ -((-x) \div unit) <= n
<1> DEFINE q == (-x) \div unit
<1>1. q \in Int /\ unit * q <= -x /\ -x < unit * q + unit
      OBVIOUS
<1> HIDE DEF q
<1>2. q <= 0
  <2> SUFFICES ASSUME q >= 1 PROVE FALSE
      BY <1>1
  <2>1. unit * q >= unit
        BY <1>1
  <2> QED
      BY <1>1, <2>1
<1>3. -n <= q
  <2> SUFFICES ASSUME n + q + 1 <= 0 PROVE FALSE
      BY <1>1
  <2>1. unit * (n + q + 1) <= 0
        BY <1>1
  <2>2. unit * (n + q + 1) = unit * n + unit * q + unit
        BY <1>1
  <2> QED
      BY <1>1, <2>1, <2>2
<1> QED
    BY <1>1, <1>2, <1>3 DEF q

\* The units that the quotas are computed in.
LEMMA ScaleType == ASSUME NEW clients \in Nat PROVE Scale(clients) \in Nat \ {0}
<1>1. Max({clients, 1}) \in Int /\ Max({clients, 1}) >= 1
      BY ExtremesOfTwo
<1> QED
    BY <1>1 DEF Scale

\* Whatever a gateway reports, the quota that calculateNextQuota wants for it is a number.
LEMMA WantedType ==
    ASSUME NEW up, up.total \in Nat, up.allocated \in Int, NEW current \in Int,
           NEW used \in Int, NEW clients \in Nat
    PROVE  WantedQuota(up, current, used, clients) \in Int
<1> DEFINE scale == Scale(clients)
<1>0. scale \in Nat \ {0} /\ scale \in Int
  <2>1. scale \in Nat \ {0}
        BY ScaleType
  <2> HIDE DEF scale
  <2> QED
      BY <2>1
<1>1. InitialQuota(up.total - up.allocated, clients) \in Int
      BY <1>0 DEF InitialQuota
<1>2. IdleQuota(up, current, clients) \in Int
  <2> DEFINE upper == ((1400 * up.total + scale) \div (2 * scale)) * scale
             increased == current * scale + 3 * (up.total - up.allocated) * (scale \div 10)
             reduce == 2 * current * (scale \div 10)
             atLeast == Max({reduce, up.total * (scale \div 50), scale})
  <2>1. upper \in Int /\ increased \in Int /\ reduce \in Int /\ up.total * (scale \div 50) \in Int
    <3> HIDE DEF scale
    <3>1. 2 * scale \in Nat \ {0} /\ scale \div 10 \in Int /\ scale \div 50 \in Int
          BY <1>0
    <3> QED
        BY <1>0, <3>1
  <2> HIDE DEF scale, upper, increased, reduce
  <2>2. atLeast \in Int
        BY <1>0, <2>1, MaxOfThree, Zenon
  <2>3. Min({increased, upper}) \in Int
        BY <2>1, ExtremesOfTwo, Zenon
  <2>4. current * scale \in Int
        BY <1>0
  <2> HIDE DEF atLeast
  <2>5. IdleQuota(up, current, clients) \in
            {increased, Min({increased, upper}), current * scale, current * scale - atLeast,
             current * scale - reduce}
        BY DEF IdleQuota, scale, upper, increased, reduce, atLeast
  <2> QED
      BY <2>1, <2>2, <2>3, <2>4, <2>5
<1>3. ReducedQuota(current, used, clients) \in Int
  <2> DEFINE reduce == Min({2 * current * (scale \div 10), (current - used) * scale})
  <2>1. reduce \in Int
    <3> HIDE DEF scale
    <3>1. 2 * current * (scale \div 10) \in Int /\ (current - used) * scale \in Int
          BY <1>0
    <3> QED
        BY <3>1, ExtremesOfTwo, Zenon
  <2> HIDE DEF scale, reduce
  <2>2. Max({reduce, scale}) \in Int
        BY <1>0, <2>1, ExtremesOfTwo, Zenon
  <2>3. ReducedQuota(current, used, clients) \in
            {current * scale - Max({reduce, scale}), current * scale - reduce}
        BY DEF ReducedQuota, scale, reduce
  <2> QED
      BY <1>0, <2>1, <2>2, <2>3
<1>4. ASSUME NEW level
      PROVE  IncreasedQuota(up.total - up.allocated, current, level, clients) \in Int
  <2> DEFINE delta == 3 * current * (scale \div 10) * IF level > 100 THEN 2 ELSE 1
             rest == (up.total - up.allocated) * scale
  <2>1. delta \in Int /\ rest \in Int
    <3> HIDE DEF scale
    <3> QED
        BY <1>0
  <2> HIDE DEF delta, rest, scale
  <2>2. Min({delta, rest}) \in Int
        BY <2>1, ExtremesOfTwo, Zenon
  <2>3. IncreasedQuota(up.total - up.allocated, current, level, clients)
            = current * scale + Min({delta, rest})
        BY DEF IncreasedQuota, scale, delta, rest
  <2> QED
      BY <1>0, <2>2, <2>3
<1>5. current * scale \in Int
  <2> HIDE DEF scale
  <2> QED
      BY <1>0
<1> QED
    BY <1>1, <1>2, <1>3, <1>4, <1>5 DEF WantedQuota

\* No gateway gets more than it has and what is left of the total, with all minima and
\* after rounding up, and none is driven below 0.
LEMMA NextQuotaFits ==
    ASSUME NEW up, up.total \in Nat, up.allocated \in Int, up.allocated <= up.total,
           NEW current \in Nat, NEW used \in Int, NEW clients \in Nat
    PROVE  /\ NextQuota(up, current, used, clients) \in Nat
           /\ NextQuota(up, current, used, clients) <= current + up.total - up.allocated
<1> DEFINE scale == Scale(clients)
           wanted == WantedQuota(up, current, used, clients)
           least == up.total * (scale \div 500)
           atLeast == Max({wanted, scale, least})
           n == current + up.total - up.allocated
           next == Min({atLeast, n * scale})
<1>1. scale \in Nat \ {0} /\ wanted \in Int
      BY ScaleType, WantedType
<1> HIDE DEF scale, wanted
<1>2. least \in Int
      BY <1>1
<1> HIDE DEF least
<1>3. atLeast \in Int /\ atLeast >= scale
      BY <1>1, <1>2, MaxOfThree
<1> HIDE DEF atLeast
<1>4. n \in Nat
      OBVIOUS
<1> HIDE DEF n
<1>5. n * scale \in Nat
      BY <1>1, <1>4
<1>6. next \in Int /\ 0 <= next /\ next <= n * scale
  <2>1. PICK m \in Int : m = n * scale
        BY <1>5
  <2>2. next \in {atLeast, m} /\ next <= m
        BY <1>3, <2>1, ExtremesOfTwo, Zenon
  <2>3. 0 <= m /\ 0 <= atLeast
        BY <1>1, <1>3, <1>5, <2>1
  <2> QED
      BY <1>3, <2>1, <2>2, <2>3
<1>7. NextQuota(up, current, used, clients) = -((-next) \div scale)
      BY DEF NextQuota, next, atLeast, scale, wanted, least, n
<1> HIDE DEF next
<1>8. -((-next) \div scale) \in Nat /\ -((-next) \div scale) <= n
      BY <1>1, <1>4, <1>6, RoundedUp
<1> QED
    BY <1>7, <1>8 DEF n

-----------------------------------------------------------------------------
(* The quotas fit the total *)

\* What a scenario may say.
Scenarios ==
    [losses : Nat, delays : Nat, changes : Nat, deaths : Nat, misses : Nat, failures : Nat,
     cleanup : BOOLEAN, uses : SUBSET Nat, totals : SUBSET (Nat \ {0}),
     joined : SUBSET Gateways, joining : SUBSET Gateways]

ConditionType == [quota : Nat, used : Nat, labelled : BOOLEAN]

\* What the server's condition grants a gateway.
StoredQuota == [g \in Gateways |-> IF condition[g] = Absent THEN 0 ELSE condition[g].quota]

\* As long as nothing goes wrong the server knows what a gateway has, so that what it counts
\* as allocated covers all quotas. The state condition may count quotas of conditions that
\* were deleted since it was computed.
QuotaKnown ==
    /\ allowed \in Scenarios
    /\ status \in [Gateways -> {"new", "alive", "dead"}]
    /\ quota \in [Gateways -> Nat]
    /\ condition \in [Gateways -> ConditionType \cup {Absent}]
    /\ upstream.total \in Nat /\ upstream.allocated \in Int
    /\ \A g \in Gateways : /\ late[g] = Absent
                           /\ status[g] = "new" => condition[g] = Absent
                           /\ status[g] # "dead" => quota[g] = StoredQuota[g]
    /\ SumFunction(StoredQuota) <= upstream.allocated
    /\ upstream.allocated <= upstream.total

QuotaIInv == faultless => QuotaKnown

\* The quotas that the server stores are natural numbers.
LEMMA StoredQuotaType ==
    ASSUME condition \in [Gateways -> ConditionType \cup {Absent}]
    PROVE  StoredQuota \in [Gateways -> Nat]
<1>1. ASSUME NEW g \in Gateways, condition[g] # Absent PROVE condition[g].quota \in Nat
      BY <1>1 DEF ConditionType
<1> QED
    BY <1>1 DEF StoredQuota

\* Quotas fit the total as long as the server knows them: those of live gateways are part of
\* what it stores.
LEMMA KnownFits == QuotaIInv => QuotaFits
<1> SUFFICES ASSUME QuotaKnown PROVE SumFunctionOnSet(quota, Alive) <= upstream.total
    BY DEF QuotaIInv, QuotaFits
<1>1. StoredQuota \in [Gateways -> Nat]
      BY StoredQuotaType DEF QuotaKnown
<1>2. SumFunctionOnSet(quota, Alive) <= SumFunctionOnSet(StoredQuota, Gateways)
  <2>1. Alive \in SUBSET Gateways /\ IsFiniteSet(Gateways)
        BY QuotaAssumption DEF Alive
  <2>2. \A g \in Alive : quota[g] \in Int /\ quota[g] <= StoredQuota[g]
    <3> SUFFICES ASSUME NEW g \in Alive PROVE quota[g] \in Int /\ quota[g] <= StoredQuota[g]
        OBVIOUS
    <3>1. quota[g] \in Nat /\ quota[g] = StoredQuota[g]
          BY DEF QuotaKnown, Alive
    <3> QED
        BY <3>1
  <2>3. \A g \in Gateways : StoredQuota[g] \in Int /\ 0 <= StoredQuota[g]
        BY <1>1
  <2> HIDE DEF StoredQuota
  <2> QED
      BY <2>1, <2>2, <2>3, SumLeq
<1>3. SumFunctionOnSet(StoredQuota, Gateways) = SumFunction(StoredQuota)
      BY <1>1 DEF SumFunction
<1>4. /\ SumFunctionOnSet(quota, Alive) \in Int /\ SumFunctionOnSet(StoredQuota, Gateways) \in Int
  <2>1. IsFiniteSet(Alive) /\ IsFiniteSet(Gateways)
        BY QuotaAssumption, FS_Subset DEF Alive
  <2>2. \A g \in Alive : quota[g] \in Int
        BY DEF QuotaKnown, Alive
  <2>3. \A g \in Gateways : StoredQuota[g] \in Int
        BY <1>1
  <2> QED
      BY <2>1, <2>2, <2>3, SumType
<1>5. /\ SumFunction(StoredQuota) <= upstream.allocated /\ upstream.allocated <= upstream.total
      /\ upstream.total \in Int /\ upstream.allocated \in Int
      BY DEF QuotaKnown
<1> QED
    BY <1>2, <1>3, <1>4, <1>5

\* At the start nobody has a quota.
LEMMA InitQuotaIInv ==
    ASSUME NEW scenarios \in SUBSET Scenarios,
           \A s \in scenarios : \E t \in s.totals : \A u \in s.totals : t >= u,
           QuotaInit(scenarios)
    PROVE  QuotaIInv
<1>1. allowed \in Scenarios /\ Max(allowed.totals) \in Nat
  <2>1. /\ allowed \in Scenarios /\ \E t \in allowed.totals : \A u \in allowed.totals : t >= u
        BY DEF QuotaInit
  <2>2. Max(allowed.totals) \in allowed.totals
        BY <2>1 DEF Max
  <2> QED
      BY <2>1, <2>2 DEF Scenarios
<1>2. /\ status \in [Gateways -> {"new", "alive", "dead"}] /\ quota \in [Gateways -> Nat]
      /\ condition \in [Gateways -> ConditionType \cup {Absent}]
      /\ upstream.total = Max(allowed.totals) /\ upstream.allocated = 0
      /\ \A g \in Gateways : late[g] = Absent /\ condition[g] = Absent /\ quota[g] = 0
      BY DEF QuotaInit
<1>3. \A g \in Gateways : StoredQuota[g] = 0
      BY <1>2 DEF StoredQuota
<1>4. SumFunction(StoredQuota) = 0
  <2>1. StoredQuota \in [Gateways -> Int]
        BY <1>3 DEF StoredQuota
  <2> HIDE DEF StoredQuota
  <2> QED
      BY <1>3, <2>1, QuotaAssumption, SumZero
<1> QED
    BY <1>1, <1>2, <1>3, <1>4 DEF QuotaIInv, QuotaKnown

\* Steps that leave the conditions and the quotas alone.
LEMMA QuotasStay ==
    ASSUME QuotaKnown, UNCHANGED <<quota, condition, upstream, late>>, allowed' \in Scenarios,
           status' \in [Gateways -> {"new", "alive", "dead"}],
           \A g \in Gateways : /\ status'[g] = "new" => status[g] = "new"
                               /\ status'[g] # "dead" => status[g] # "dead"
    PROVE  QuotaKnown'
<1>1. StoredQuota' = StoredQuota
      BY DEF StoredQuota
<1> QED
    BY <1>1 DEF QuotaKnown

\* Cleanups that only take conditions of gateways that are not alive.
LEMMA ConditionsShrink ==
    ASSUME QuotaKnown, UNCHANGED <<status, quota, upstream, late, allowed>>,
           condition' \in [Gateways -> ConditionType \cup {Absent}],
           \A g \in Gateways : \/ condition'[g] = condition[g]
                               \/ condition'[g] = Absent /\ status[g] # "alive"
    PROVE  QuotaKnown'
<1>1. StoredQuota \in [Gateways -> Nat] /\ StoredQuota' \in [Gateways -> Nat]
  <2>1. StoredQuota \in [Gateways -> Nat]
        BY StoredQuotaType DEF QuotaKnown
  <2>2. (condition \in [Gateways -> ConditionType \cup {Absent}]
            => StoredQuota \in [Gateways -> Nat])'
        BY StoredQuotaType, PTL
  <2> QED
      BY <2>1, <2>2
<1>2. \A g \in Gateways : /\ status[g] = "new" => condition'[g] = Absent
                          /\ status[g] # "dead" => quota[g] = StoredQuota'[g]
  <2> SUFFICES ASSUME NEW g \in Gateways
               PROVE  /\ status[g] = "new" => condition'[g] = Absent
                      /\ status[g] # "dead" => quota[g] = StoredQuota'[g]
      OBVIOUS
  <2>1. status[g] \in {"new", "alive", "dead"} /\ (status[g] = "new" => condition[g] = Absent)
        /\ (status[g] # "dead" => quota[g] = StoredQuota[g])
        BY DEF QuotaKnown
  <2>2. status[g] # "dead" => condition'[g] = condition[g]
        BY <2>1
  <2>3. condition'[g] = condition[g] => StoredQuota'[g] = StoredQuota[g]
        BY DEF StoredQuota
  <2> QED
      BY <2>1, <2>2, <2>3
<1>3. SumFunction(StoredQuota') <= SumFunction(StoredQuota)
  <2>1. \A g \in Gateways : StoredQuota'[g] <= StoredQuota[g]
    <3> SUFFICES ASSUME NEW g \in Gateways PROVE StoredQuota'[g] <= StoredQuota[g]
        OBVIOUS
    <3>1. StoredQuota'[g] = 0 \/ StoredQuota'[g] = StoredQuota[g]
          BY DEF StoredQuota
    <3>2. StoredQuota[g] \in Nat
          BY <1>1
    <3> QED
        BY <3>1, <3>2
  <2>2. \A g \in Gateways : StoredQuota'[g] \in Int /\ StoredQuota[g] \in Int
        BY <1>1
  <2>3. DOMAIN StoredQuota' = Gateways /\ DOMAIN StoredQuota = Gateways
        BY <1>1
  <2> HIDE DEF StoredQuota
  <2>4. SumFunctionOnSet(StoredQuota', Gateways) <= SumFunctionOnSet(StoredQuota, Gateways)
        BY <2>1, <2>2, QuotaAssumption, SumLeq, Zenon
  <2> QED
      BY <2>3, <2>4 DEF SumFunction
<1>4. SumFunction(StoredQuota') \in Int /\ SumFunction(StoredQuota) \in Int
  <2>1. DOMAIN StoredQuota' = Gateways /\ DOMAIN StoredQuota = Gateways
        BY <1>1
  <2>2. \A g \in Gateways : StoredQuota'[g] \in Int /\ StoredQuota[g] \in Int
        BY <1>1
  <2> HIDE DEF StoredQuota
  <2> QED
      BY <2>1, <2>2, QuotaAssumption, SumType, Zenon DEF SumFunction
<1>5. SumFunction(StoredQuota') <= upstream.allocated
  <2>1. SumFunction(StoredQuota) <= upstream.allocated /\ upstream.allocated \in Int
        BY DEF QuotaKnown
  <2> QED
      BY <1>3, <1>4, <2>1
<1> QED
    BY <1>2, <1>5 DEF QuotaKnown

\* Spending something other than a death is a fault.
LEMMA OnlyDeaths == ASSUME NEW what, Spend(what), faultless' PROVE what = "deaths" /\ faultless
BY Zenon DEF Spend

\* reconcile: the new quota comes out of what the server does not count as allocated, and the
\* state condition that is computed next counts it.
LEMMA UpdateFits ==
    ASSUME QuotaKnown, NEW g \in Gateways, Update(g)
    PROVE  QuotaKnown'
<1> DEFINE clients == Cardinality({h \in Gateways : beat[h] # "none"})
<1>1. PICK used \in allowed.uses :
          /\ Allocate(g, quota[g], used, NextQuota(upstream, quota[g], used, clients))
          /\ quota' = [quota EXCEPT ![g] = NextQuota(upstream, quota[g], used, clients)]
      BY Zenon DEF Update
<1> DEFINE next == NextQuota(upstream, quota[g], used, clients)
           new == [quota |-> next, used |-> used, labelled |-> condition[g] # Absent]
           stored == {h \in Gateways : condition'[h] # Absent}
           granted == [h \in stored |-> condition'[h].quota]
<1>2. /\ quota \in [Gateways -> Nat] /\ quota[g] \in Nat /\ used \in Nat /\ clients \in Nat
      /\ condition \in [Gateways -> ConditionType \cup {Absent}]
      /\ upstream.total \in Nat /\ upstream.allocated \in Int
      /\ upstream.allocated <= upstream.total /\ SumFunction(StoredQuota) <= upstream.allocated
      /\ status \in [Gateways -> {"new", "alive", "dead"}] /\ allowed \in Scenarios
      /\ status[g] = "alive" /\ quota[g] = StoredQuota[g]
  <2>1. clients \in Nat
        BY QuotaAssumption, FS_Subset, FS_CardinalityType
  <2>2. used \in Nat
        BY DEF QuotaKnown, Scenarios
  <2> QED
      BY <2>1, <2>2 DEF QuotaKnown, Update
<1> HIDE DEF clients
<1>3. next \in Nat /\ next <= quota[g] + upstream.total - upstream.allocated
      BY <1>2, NextQuotaFits
<1>4. /\ condition' = [condition EXCEPT ![g] = new]
      /\ upstream'.total = upstream.total
      /\ upstream'.allocated = SumFunction(granted)
      /\ UNCHANGED <<status, late, allowed>>
      BY <1>1, Zenon DEF Allocate, UpstreamState, Update
<1>5. quota' = [quota EXCEPT ![g] = next]
      BY <1>1
<1> HIDE DEF next
<1>6. new \in ConditionType /\ new.quota = next /\ new # Absent
  <2>1. new \in ConditionType /\ new.quota = next
        BY <1>2, <1>3 DEF ConditionType
  <2>2. ConditionType \subseteq [quota : Int, used : Int, labelled : BOOLEAN]
        BY DEF ConditionType
  <2> QED
      BY <2>1, <2>2, QuotaAssumption
<1> HIDE DEF new
<1>7. /\ condition' \in [Gateways -> ConditionType \cup {Absent}] /\ condition'[g] = new
      /\ \A h \in Gateways \ {g} : condition'[h] = condition[h]
      /\ quota' \in [Gateways -> Nat] /\ quota'[g] = next
      /\ \A h \in Gateways \ {g} : quota'[h] = quota[h]
      BY <1>2, <1>3, <1>4, <1>5, <1>6
<1>8. StoredQuota \in [Gateways -> Nat] /\ StoredQuota' \in [Gateways -> Nat]
  <2>1. StoredQuota \in [Gateways -> Nat]
        BY <1>2, StoredQuotaType
  <2>2. (condition \in [Gateways -> ConditionType \cup {Absent}]
            => StoredQuota \in [Gateways -> Nat])'
        BY StoredQuotaType, PTL
  <2> QED
      BY <1>7, <2>1, <2>2
<1>9. /\ StoredQuota'[g] = next
      /\ \A h \in Gateways \ {g} : StoredQuota'[h] = StoredQuota[h]
      BY <1>6, <1>7, Zenon DEF StoredQuota
<1>10. SumFunction(StoredQuota') = SumFunction(StoredQuota) + next - quota[g]
  <2>1. StoredQuota \in [Gateways -> Int] /\ StoredQuota' \in [Gateways -> Int]
        BY <1>8
  <2> HIDE DEF StoredQuota
  <2>2. SumFunction(StoredQuota')
            = SumFunction(StoredQuota) + StoredQuota'[g] - StoredQuota[g]
        BY <1>9, <2>1, QuotaAssumption, SumChange
  <2> QED
      BY <1>2, <1>9, <2>2
<1>11. SumFunction(granted) = SumFunction(StoredQuota')
  <2>1. stored \in SUBSET Gateways
        OBVIOUS
  <2>2. \A h \in stored : granted[h] = StoredQuota'[h]
        BY DEF StoredQuota
  <2>3. \A h \in Gateways \ stored : StoredQuota'[h] = 0
        BY DEF StoredQuota
  <2>4. DOMAIN granted = stored /\ DOMAIN StoredQuota' = Gateways
        BY <1>8
  <2>5. \A h \in Gateways : StoredQuota'[h] \in Int
        BY <1>8
  <2> HIDE DEF granted, stored, StoredQuota
  <2>6. SumFunctionOnSet(granted, stored) = SumFunctionOnSet(StoredQuota', Gateways)
        BY <2>1, <2>2, <2>3, <2>5, QuotaAssumption, SumSupport
  <2> QED
      BY <2>4, <2>6, Zenon DEF SumFunction
<1>12. SumFunction(StoredQuota) \in Int
  <2>1. DOMAIN StoredQuota = Gateways /\ \A h \in Gateways : StoredQuota[h] \in Int
        BY <1>8
  <2> HIDE DEF StoredQuota
  <2> QED
      BY <2>1, QuotaAssumption, SumType, Zenon DEF SumFunction
<1> HIDE DEF granted, stored
<1>13. PICK sum \in Int : sum = SumFunction(StoredQuota)
       BY <1>12, Zenon
<1>14. /\ upstream'.allocated = sum + next - quota[g] /\ upstream'.allocated \in Int
       /\ upstream'.allocated <= upstream.total
       /\ SumFunction(StoredQuota') = upstream'.allocated
  <2>1. upstream'.allocated = sum + next - quota[g]
        BY <1>4, <1>10, <1>11, <1>13, Zenon
  <2>2. sum <= upstream.allocated
        BY <1>2, <1>13, Zenon
  <2>3. sum + next - quota[g] \in Int /\ sum + next - quota[g] <= upstream.total
        BY <1>2, <1>3, <2>2
  <2> QED
      BY <1>4, <1>11, <2>1, <2>3, Zenon
<1>15. \A h \in Gateways : /\ late'[h] = Absent
                           /\ status'[h] = "new" => condition'[h] = Absent
                           /\ status'[h] # "dead" => quota'[h] = StoredQuota'[h]
  <2> SUFFICES ASSUME NEW h \in Gateways
               PROVE  /\ late'[h] = Absent
                      /\ status'[h] = "new" => condition'[h] = Absent
                      /\ status'[h] # "dead" => quota'[h] = StoredQuota'[h]
      OBVIOUS
  <2>1. /\ late[h] = Absent /\ (status[h] = "new" => condition[h] = Absent)
        /\ (status[h] # "dead" => quota[h] = StoredQuota[h])
        BY DEF QuotaKnown
  <2>2. CASE h = g
        BY <1>2, <1>4, <1>7, <1>9, <2>1, <2>2, Zenon
  <2>3. CASE h # g
        BY <1>4, <1>7, <1>9, <2>1, <2>3, Zenon
  <2> QED
      BY <2>2, <2>3, Zenon
<1>16. SumFunction(StoredQuota') <= upstream'.allocated
       BY <1>14
<1> QED
    BY <1>2, <1>4, <1>7, <1>14, <1>15, <1>16 DEF QuotaKnown

\* Every step keeps what the server knows, or is a fault.
LEMMA NextQuotaIInv == QuotaIInv /\ [QuotaNext]_quotaVars => QuotaIInv'
<1> SUFFICES ASSUME QuotaIInv, [QuotaNext]_quotaVars, faultless' PROVE QuotaKnown'
    BY DEF QuotaIInv
<1>0. ASSUME faultless
      PROVE  /\ QuotaKnown /\ status \in [Gateways -> {"new", "alive", "dead"}]
             /\ allowed \in Scenarios /\ condition \in [Gateways -> ConditionType \cup {Absent}]
      BY <1>0, Zenon DEF QuotaIInv, QuotaKnown
<1>1. ASSUME NEW g \in Gateways, Join(g) PROVE QuotaKnown'
      BY <1>0, <1>1, QuotasStay, Zenon DEF Join, serverVars
<1>2. ASSUME NEW g \in Gateways, Die(g) PROVE QuotaKnown'
  <2>1. faultless
        BY <1>2, OnlyDeaths, Zenon DEF Die
  <2>2. allowed' \in Scenarios
    <3>1. allowed \in Scenarios /\ allowed' = [allowed EXCEPT !["deaths"] = @ - 1]
          /\ allowed["deaths"] > 0
          BY <1>0, <1>2, <2>1 DEF Die, Spend
    <3> QED
        BY <3>1 DEF Scenarios
  <2> QED
      BY <1>0, <1>2, <2>1, <2>2, QuotasStay, Zenon DEF Die, serverVars
<1>3. ASSUME NEW g \in Gateways, Heartbeat(g) \/ FindExpired(g) \/ DeleteClient(g)
      PROVE  QuotaKnown'
      BY <1>0, <1>3, QuotasStay, Zenon DEF Heartbeat, FindExpired, DeleteClient
<1>4. ASSUME NEW g \in Gateways, Expire(g) \/ Acquire(g) PROVE QuotaKnown'
  <2>1. UNCHANGED <<allowed, faultless, status, quota, condition, upstream, late>>
        BY <1>4, OnlyDeaths, Zenon DEF Expire, Acquire
  <2> QED
      BY <1>0, <2>1, QuotasStay
<1>5. ASSUME NEW g \in Gateways, Update(g) PROVE QuotaKnown'
      BY <1>0, <1>5, UpdateFits, Zenon DEF Update
<1>6. ASSUME NEW g \in Gateways, LoseAnswer(g) \/ Delay(g) PROVE FALSE
  <2>1. ~Spend("losses") /\ ~Spend("delays")
        BY OnlyDeaths
  <2> QED
      BY <1>6, <2>1 DEF LoseAnswer, Delay
<1>7. ASSUME NEW g \in Gateways, HandleLate(g) PROVE FALSE
      BY <1>0, <1>7, Zenon DEF HandleLate, QuotaKnown
<1>8. ASSUME NEW g \in Gateways, Forget(g) PROVE QuotaKnown'
  <2>1. /\ faultless /\ status[g] # "alive"
        /\ condition' = IF condition[g] # Absent /\ condition[g].labelled
                        THEN [condition EXCEPT ![g] = Absent] ELSE condition
        /\ UNCHANGED <<status, quota, upstream, late, allowed>>
    <3>1. ~Spend("failures")
          BY OnlyDeaths
    <3> QED
        BY <1>8, <3>1, Zenon DEF Forget
  <2>2. /\ condition' \in [Gateways -> ConditionType \cup {Absent}]
        /\ \A h \in Gateways : \/ condition'[h] = condition[h]
                               \/ condition'[h] = Absent /\ status[h] # "alive"
        BY <1>0, <2>1, Zenon
  <2> QED
      BY <1>0, <2>1, <2>2, ConditionsShrink
<1>9. CASE EndSweep
  <2> DEFINE unknown == Stored \ sweep
  <2>1. /\ faultless /\ \A h \in unknown : status[h] # "alive"
        /\ condition' = [h \in Gateways |-> IF h \in unknown THEN Absent ELSE condition[h]]
        /\ UNCHANGED <<status, quota, upstream, late, allowed>>
        BY <1>9, Zenon DEF EndSweep
  <2> HIDE DEF unknown
  <2>2. /\ condition' \in [Gateways -> ConditionType \cup {Absent}]
        /\ \A h \in Gateways : \/ condition'[h] = condition[h]
                               \/ condition'[h] = Absent /\ status[h] # "alive"
        BY <1>0, <2>1
  <2> QED
      BY <1>0, <2>1, <2>2, ConditionsShrink
<1>10. CASE ChangeTotal
       BY <1>10, OnlyDeaths DEF ChangeTotal
<1>11. CASE BeginSweep
       BY <1>0, <1>11, QuotasStay, Zenon DEF BeginSweep
<1>12. CASE UNCHANGED quotaVars
       BY <1>0, <1>12, QuotasStay DEF quotaVars, serverVars
<1> QED
    BY <1>1, <1>2, <1>3, <1>4, <1>5, <1>6, <1>7, <1>8, <1>9, <1>10, <1>11, <1>12
    DEF QuotaNext, Cleanup

\* GlobalAllocate never hands out more than the total, whatever the gateways report, in
\* whatever order they join, die, are cleaned up and get their answers: as long as answers
\* arrive, the total stays and no live gateway is cleaned up, the quotas that the live
\* gateways use fit the total, although each is raised to a minimum and rounded up.
THEOREM QuotasFitTotal ==
    ASSUME NEW scenarios \in SUBSET Scenarios,
           \A s \in scenarios : \E t \in s.totals : \A u \in s.totals : t >= u
    PROVE  QuotaInit(scenarios) /\ [][QuotaNext]_quotaVars => []QuotaFits
<1>1. QuotaInit(scenarios) => QuotaIInv
      BY InitQuotaIInv
<1>2. QuotaIInv /\ [QuotaNext]_quotaVars => QuotaIInv'
      BY NextQuotaIInv
<1>3. QuotaIInv => QuotaFits
      BY KnownFits
<1> QED
    BY <1>1, <1>2, <1>3, PTL

-----------------------------------------------------------------------------
(* The tokens that count as being acquired, and the calls that acquire them *)

\* An acquire call.
CallType == [hits : Nat, limit : Nat,
             phase : {"sent", "granted", "refused", "failed", "add", "none", "fail"}]

\* Scenarios whose reserves have a largest one.
TokenScenarioType ==
    {t \in [counting : BOOLEAN, reserves : SUBSET Nat, requests : Nat, refusals : Nat,
            errors : Nat, resizes : Nat, recreations : Nat] :
        \E m \in t.reserves : \A r \in t.reserves : r <= m}

\* After the first half of SetLimit nothing of the call is being acquired any more.
Settled(c) == c # NoCall /\ c.phase \in {"add", "none", "fail"} => c.hits = 0

\* What the arithmetic needs of the types.
TokenTypeOK ==
    /\ tokens \in Int /\ tokenInflight \in Int /\ overflow \in Int
    /\ reserve \in Nat
    /\ acquiring \in [Slots -> CallType \union {NoCall}]
    /\ trouble \in TokenScenarioType

\* NoPhantomTokens is not inductive: the second half of SetLimit forgets the call, and must
\* not forget tokens with it.
SettledCalls == \A s \in Slots : Settled(acquiring[s])

\* The tokens that the calls in progress have asked for, and not settled yet.
Asked == [s \in Slots |-> IF acquiring[s] = NoCall THEN 0 ELSE acquiring[s].hits]

\* No tokens count as being acquired that no call in progress will settle: they would lower
\* what ExpectToken asks for until the wrapper is made anew.
NoPhantomTokens == tokenInflight <= SumFunction(Asked)

\* The summands are natural numbers, and so is their sum.
LEMMA AskedType ==
    ASSUME acquiring \in [Slots -> CallType \union {NoCall}]
    PROVE  /\ Asked \in [Slots -> Int] /\ \A s \in Slots : Asked[s] >= 0
           /\ SumFunction(Asked) \in Int /\ SumFunction(Asked) >= 0
<1>1. \A s \in Slots : Asked[s] \in Nat
  BY DEF Asked, CallType
<1>2. Asked \in [Slots -> Int] /\ DOMAIN Asked = Slots
  BY <1>1 DEF Asked
<1>3. SumFunction(Asked) \in Int
  BY <1>1, <1>2, SumType, TokenAssumption, Zenon DEF SumFunction
<1>4. SumFunction(Asked) >= 0
  <2>1. SumFunctionOnSet(Asked, {}) <= SumFunctionOnSet(Asked, Slots)
    BY <1>1, SumLeq, TokenAssumption
  <2> QED
    BY <1>2, <2>1, SumEmpty, Zenon DEF SumFunction
<1> QED
  BY <1>1, <1>2, <1>3, <1>4

\* So it is after a step.
LEMMA TokenSum ==
    TokenTypeOK' => SumFunction(Asked') \in Int /\ SumFunction(Asked') >= 0
<1>1. (TokenTypeOK => SumFunction(Asked) \in Int /\ SumFunction(Asked) >= 0)'
  <2>1. TokenTypeOK => SumFunction(Asked) \in Int /\ SumFunction(Asked) >= 0
    BY AskedType DEF TokenTypeOK
  <2> QED
    BY <2>1, PTL
<1> QED
  BY <1>1

\* A call changes the sum by what it does to its own hits.
LEMMA AskedChange ==
    ASSUME acquiring \in [Slots -> CallType \union {NoCall}], SettledCalls, NEW s \in Slots,
           NEW c \in CallType \union {NoCall}, Settled(c), acquiring' = [acquiring EXCEPT ![s] = c]
    PROVE  /\ acquiring' \in [Slots -> CallType \union {NoCall}] /\ SettledCalls'
           /\ SumFunction(Asked')
                = SumFunction(Asked) + (IF c = NoCall THEN 0 ELSE c.hits) - Asked[s]
<1>1. acquiring' \in [Slots -> CallType \union {NoCall}]
  OBVIOUS
<1>2. Asked \in [Slots -> Int]
  BY AskedType
<1>3. (acquiring \in [Slots -> CallType \union {NoCall}] => Asked \in [Slots -> Int])'
  BY AskedType, PTL
<1>4. \A t \in Slots \ {s} : Asked'[t] = Asked[t]
  BY DEF Asked
<1>5. Asked'[s] = IF c = NoCall THEN 0 ELSE c.hits
  BY DEF Asked
<1>6. PICK a : a = Asked'
  OBVIOUS
<1>7. SumFunction(a) = SumFunction(Asked) + a[s] - Asked[s]
  BY <1>1, <1>2, <1>3, <1>4, <1>6, SumChange, TokenAssumption
<1>8. SettledCalls'
  BY DEF SettledCalls
<1> QED
  BY <1>1, <1>5, <1>6, <1>7, <1>8, Zenon

\* What the worker asks for is a natural number.
LEMMA ExpectType ==
    ASSUME TokenTypeOK
    PROVE  ExpectToken \subseteq Nat
<1> DEFINE expect == Max({reserve - tokens - tokenInflight, 0})
<1>1. PICK n \in Int : n = reserve - tokens - tokenInflight
  BY DEF TokenTypeOK
<1>2. expect \in Nat
  BY <1>1, ExtremesOfTwo
<1> HIDE DEF expect
<1>3. ExpectToken \subseteq {0, expect} \union (1..expect)
  BY DEF ExpectToken, expect
<1> QED
  BY <1>2, <1>3

\* A step that spends something of the scenario leaves a scenario.
LEMMA SufferType ==
    ASSUME trouble \in TokenScenarioType,
           NEW what \in {"refusals", "errors", "resizes", "recreations"}, Suffer(what)
    PROVE  trouble' \in TokenScenarioType
<1>1. /\ trouble[what] \in Nat /\ trouble[what] > 0
      /\ trouble' = [trouble EXCEPT ![what] = trouble[what] - 1]
  BY DEF Suffer, TokenScenarioType
<1>2. trouble'.reserves = trouble.reserves
  BY <1>1 DEF TokenScenarioType
<1> QED
  BY <1>1, <1>2 DEF TokenScenarioType

\* At first nothing is being acquired.
LEMMA InitTokens ==
    ASSUME NEW scenarios \in SUBSET TokenScenarioType, TokenInit(scenarios)
    PROVE  TokenTypeOK /\ SettledCalls /\ tokenInflight = SumFunction(Asked)
<1>1. trouble \in TokenScenarioType
  BY DEF TokenInit
<1>2. reserve \in Nat
  <2>1. PICK m \in trouble.reserves : \A r \in trouble.reserves : r <= m
    BY <1>1 DEF TokenScenarioType
  <2>2. trouble.reserves \subseteq Nat
    BY <1>1 DEF TokenScenarioType
  <2>3. Max(trouble.reserves) \in trouble.reserves
    BY <2>1, <2>2 DEF Max
  <2> QED
    BY <2>2, <2>3 DEF TokenInit
<1>3. TokenTypeOK
  BY <1>1, <1>2 DEF TokenInit, TokenTypeOK
<1>4. \A s \in Slots : Asked[s] = 0
  BY DEF TokenInit, Asked
<1>5. SumFunction(Asked) = 0
  BY <1>3, <1>4, AskedType, SumZero, TokenAssumption, Zenon DEF TokenTypeOK
<1> QED
  BY <1>3, <1>5 DEF TokenInit, SettledCalls, Settled

\* Every step but the creation of a new wrapper changes what is being acquired and what the
\* calls in progress have asked for by the same number.
LEMMA NextTokens ==
    ASSUME TokenTypeOK, SettledCalls, [TokenNext]_tokenVars
    PROVE  /\ TokenTypeOK' /\ SettledCalls'
           /\ \/ tokenInflight' - SumFunction(Asked') = tokenInflight - SumFunction(Asked)
              \/ Recreate
           /\ Recreate => tokenInflight' = 0
<1> DEFINE Same == tokenInflight' - SumFunction(Asked') = tokenInflight - SumFunction(Asked)
           Goal == TokenTypeOK' /\ SettledCalls' /\ Same
<1>0. Recreate => tokenInflight' = 0
  BY DEF Recreate
<1>1. /\ SumFunction(Asked) \in Int /\ \A s \in Slots : Asked[s] \in Int
      /\ tokenInflight \in Int /\ tokens \in Int /\ overflow \in Int
      /\ trouble \in TokenScenarioType
  BY AskedType DEF TokenTypeOK
<1>2. ASSUME UNCHANGED <<tokenInflight, acquiring, reserve>>, tokens' \in Int, overflow' \in Int,
             trouble' \in TokenScenarioType
      PROVE  Goal
  <2>1. Asked' = Asked /\ SettledCalls'
    BY <1>2 DEF Asked, SettledCalls
  <2> QED
    BY <1>2, <2>1 DEF TokenTypeOK
<1> HIDE DEF Goal
<1>3. ASSUME UNCHANGED tokenVars PROVE Goal
  BY <1>1, <1>2, <1>3 DEF tokenVars
<1>4. ASSUME FirstTry \/ TryAgain \/ \E try \in DOMAIN undoing : PutBack(try) PROVE Goal
  <2>1. /\ UNCHANGED <<tokenInflight, acquiring, reserve, overflow, trouble>>
        /\ tokens' \in {tokens - 1, tokens + 1}
    BY <1>4 DEF FirstTry, TryAgain, PutBack, TakeToken
  <2>2. tokens' \in Int
    BY <1>1, <2>1
  <2> QED
    BY <1>1, <1>2, <2>1, <2>2, Zenon
<1>5. ASSUME NEW s \in Slots, NEW c \in CallType \union {NoCall}, Settled(c),
             acquiring' = [acquiring EXCEPT ![s] = c],
             tokenInflight' = tokenInflight + (IF c = NoCall THEN 0 ELSE c.hits) - Asked[s],
             tokens' \in Int, trouble' \in TokenScenarioType, UNCHANGED <<reserve, overflow>>
      PROVE  Goal
  <2>1. /\ acquiring' \in [Slots -> CallType \union {NoCall}] /\ SettledCalls'
        /\ SumFunction(Asked') = SumFunction(Asked) + (IF c = NoCall THEN 0 ELSE c.hits) - Asked[s]
    BY <1>5, AskedChange, Zenon DEF TokenTypeOK
  <2>2. (IF c = NoCall THEN 0 ELSE c.hits) \in Int
    BY <1>5 DEF CallType
  <2>3. PICK n \in Int : n = IF c = NoCall THEN 0 ELSE c.hits
    BY <2>2
  <2>4. Same /\ tokenInflight' \in Int
    BY <1>1, <1>5, <2>1, <2>3
  <2> QED
    BY <1>5, <2>1, <2>4, Zenon DEF TokenTypeOK, Goal
<1>6. ASSUME NEW s \in Slots, Ask(s) PROVE Goal
  <2>1. PICK hits \in ExpectToken :
          /\ tokenInflight' = tokenInflight + hits
          /\ acquiring' = [acquiring EXCEPT ![s] = [hits |-> hits, phase |-> "sent", limit |-> 0]]
    BY <1>6, Zenon DEF Ask
  <2>2. hits \in Nat
    BY ExpectType
  <2>3. PICK c : c = [hits |-> hits, phase |-> "sent", limit |-> 0]
    BY Zenon
  <2>4. c \in CallType /\ c # NoCall /\ c.hits = hits /\ Settled(c)
    BY <2>2, <2>3, TokenAssumption DEF CallType, Settled
  <2>5. Asked[s] = 0 /\ UNCHANGED <<tokens, reserve, overflow, trouble>>
    BY <1>6 DEF Ask, Asked
  <2> QED
    <3>1. tokenInflight' = tokenInflight + c.hits - Asked[s]
      BY <1>1, <2>1, <2>2, <2>4, <2>5
    <3> QED
      BY <1>1, <1>5, <2>1, <2>3, <2>4, <2>5, <3>1, Zenon
<1>7. ASSUME NEW s \in Slots, acquiring[s] # NoCall
      PROVE  acquiring[s] \in CallType /\ Asked[s] = acquiring[s].hits /\ acquiring[s].hits \in Nat
  BY <1>7, Zenon DEF TokenTypeOK, Asked, CallType
<1>8. ASSUME NEW s \in Slots, Answer(s) PROVE Goal
  <2>1. /\ acquiring[s] # NoCall /\ UNCHANGED <<tokens, tokenInflight, reserve, overflow>>
        /\ UNCHANGED trouble \/ Suffer("refusals") \/ Suffer("errors")
    BY <1>8 DEF Answer
  <2>2. PICK n \in Nat, p \in {"granted", "refused", "failed"} :
          acquiring' = [acquiring EXCEPT ![s] = [acquiring[s] EXCEPT !.phase = p, !.limit = n]]
    <3>1. CASE \E n \in Grants(acquiring[s].hits) :
                 acquiring' = [acquiring EXCEPT ![s].phase = "granted", ![s].limit = n]
      <4>1. Grants(acquiring[s].hits) \subseteq Nat
        BY <1>7, <2>1 DEF Grants
      <4> QED
        BY <3>1, <4>1, Zenon
    <3>2. CASE \E p \in {"refused", "failed"} : acquiring' = [acquiring EXCEPT ![s].phase = p]
      <4>1. PICK p \in {"refused", "failed"} : acquiring' = [acquiring EXCEPT ![s].phase = p]
        BY <3>2, Zenon
      <4>2. [acquiring[s] EXCEPT !.phase = p]
              = [acquiring[s] EXCEPT !.phase = p, !.limit = acquiring[s].limit]
        BY <1>7, <2>1, Zenon DEF CallType
      <4>3. acquiring' = [acquiring EXCEPT ![s] = [acquiring[s] EXCEPT !.phase = p]]
        BY <4>1
      <4>4. acquiring[s].limit \in Nat
        BY <1>7, <2>1 DEF CallType
      <4> QED
        BY <4>2, <4>3, <4>4, Zenon
    <3> QED
      BY <1>8, <3>1, <3>2, Zenon DEF Answer
  <2>3. PICK c : c = [acquiring[s] EXCEPT !.phase = p, !.limit = n]
    OBVIOUS
  <2>4. c \in CallType /\ c.hits = acquiring[s].hits /\ c.phase = p
    BY <1>7, <2>1, <2>2, <2>3, Zenon DEF CallType
  <2>5. c # NoCall /\ Settled(c)
    BY <2>4, TokenAssumption DEF CallType, Settled
  <2>6. trouble' \in TokenScenarioType
    BY <2>1, SufferType DEF TokenTypeOK
  <2>7. tokenInflight' = tokenInflight + c.hits - Asked[s]
    BY <1>1, <1>7, <2>1, <2>4
  <2>8. acquiring' = [acquiring EXCEPT ![s] = c]
    BY <2>2, <2>3, Zenon
  <2> QED
    BY <1>5, <2>1, <2>4, <2>5, <2>6, <2>7, <2>8, Zenon DEF TokenTypeOK
<1>9. ASSUME NEW s \in Slots, Settle(s) PROVE Goal
  <2>1. /\ acquiring[s] # NoCall /\ UNCHANGED <<tokens, reserve, overflow, trouble>>
        /\ tokenInflight' = tokenInflight - acquiring[s].hits
    BY <1>9 DEF Settle
  <2>2. PICK p \in {"add", "none", "fail"} :
          acquiring' = [acquiring EXCEPT ![s] = [acquiring[s] EXCEPT !.hits = 0, !.phase = p]]
    BY <1>9, Zenon DEF Settle
  <2>3. PICK c : c = [acquiring[s] EXCEPT !.hits = 0, !.phase = p]
    OBVIOUS
  <2>4. c \in CallType /\ c.hits = 0
    BY <1>7, <2>1, <2>2, <2>3, Zenon DEF CallType
  <2>5. c # NoCall /\ Settled(c)
    BY <2>4, TokenAssumption DEF CallType, Settled
  <2>6. tokenInflight' = tokenInflight + c.hits - Asked[s]
    BY <1>1, <1>7, <2>1, <2>4
  <2>7. acquiring' = [acquiring EXCEPT ![s] = c]
    BY <2>2, <2>3, Zenon
  <2> QED
    BY <1>5, <2>1, <2>4, <2>5, <2>6, <2>7, Zenon DEF TokenTypeOK
<1>10. ASSUME NEW s \in Slots, Apply(s) PROVE Goal
  <2>1. /\ acquiring[s] # NoCall /\ acquiring[s].phase \in {"add", "none", "fail"}
        /\ UNCHANGED <<tokenInflight, reserve, overflow, trouble>>
        /\ tokens' = tokens + acquiring[s].limit
        /\ acquiring' = [acquiring EXCEPT ![s] = NoCall]
    BY <1>10 DEF Apply
  <2>2. Asked[s] = 0
    BY <1>7, <2>1 DEF SettledCalls, Settled
  <2>3. tokens' \in Int
    BY <1>7, <2>1 DEF CallType, TokenTypeOK
  <2>4. tokenInflight' = tokenInflight + 0 - Asked[s]
    BY <1>1, <2>1, <2>2
  <2>5. Settled(NoCall)
    BY DEF Settled
  <2> QED
    BY <1>5, <2>1, <2>3, <2>4, <2>5, Zenon DEF TokenTypeOK
<1>11. ASSUME ResetTokens PROVE Goal
  <2>1. UNCHANGED <<tokens, tokenInflight, reserve, overflow, acquiring>> /\ Suffer("errors")
    BY <1>11 DEF ResetTokens
  <2>2. trouble' \in TokenScenarioType
    BY <1>1, <2>1, SufferType, Zenon
  <2> QED
    BY <1>1, <1>2, <2>1, <2>2
<1>12. ASSUME EndResize PROVE Goal
  <2>1. /\ UNCHANGED <<tokenInflight, reserve, acquiring, trouble>>
        /\ overflow' = 0 /\ tokens' = tokens - overflow
    BY <1>12, Zenon DEF EndResize
  <2> QED
    BY <1>1, <1>2, <2>1
<1>13. ASSUME BeginResize PROVE Goal
  <2>1. PICK r \in trouble.reserves : reserve' = r /\ overflow' = Max({tokens - r, 0})
    BY <1>13 DEF BeginResize
  <2>2. r \in Nat
    BY DEF TokenTypeOK, TokenScenarioType
  <2>3. overflow' \in Int
    <3>1. PICK n \in Int : n = tokens - r
      BY <2>2 DEF TokenTypeOK
    <3> QED
      BY <2>1, <3>1, ExtremesOfTwo
  <2>4. UNCHANGED <<tokens, tokenInflight, acquiring>> /\ trouble' \in TokenScenarioType
    BY <1>13, SufferType, Zenon DEF BeginResize, TokenTypeOK
  <2>5. Asked' = Asked /\ SettledCalls'
    BY <2>4 DEF Asked, SettledCalls
  <2> QED
    BY <2>1, <2>2, <2>3, <2>4, <2>5 DEF TokenTypeOK, Goal
<1>14. CASE Recreate
  <2>1. /\ UNCHANGED <<reserve, overflow, acquiring>> /\ trouble' \in TokenScenarioType
        /\ tokens' = 0 /\ tokenInflight' = 0
    BY <1>14, SufferType DEF Recreate, TokenTypeOK
  <2> QED
    BY <1>14, <2>1 DEF TokenTypeOK, SettledCalls
<1> QED
  BY <1>0, <1>3, <1>4, <1>6, <1>8, <1>9, <1>10, <1>11, <1>12, <1>13, <1>14
  DEF TokenNext, Progress, Goal

\* Whichever answers are refused, fail, or reach a new wrapper under the old name, and however
\* requests, resizes and calls overlap: no tokens count as being acquired for good. Once all
\* calls are settled, ExpectToken asks for everything that is missing from the reserve.
THEOREM NoTokensStayInflight ==
    ASSUME NEW scenarios \in SUBSET TokenScenarioType
    PROVE  TokenInit(scenarios) /\ [][TokenNext]_tokenVars => []NoPhantomTokens
<1> DEFINE TInv == TokenTypeOK /\ SettledCalls /\ NoPhantomTokens
<1>1. TokenInit(scenarios) => TInv
  BY InitTokens, AskedType DEF NoPhantomTokens, TokenTypeOK
<1>2. TInv /\ [TokenNext]_tokenVars => TInv'
  <2> SUFFICES ASSUME TInv, [TokenNext]_tokenVars PROVE TInv'
    OBVIOUS
  <2>1. /\ TokenTypeOK' /\ SettledCalls'
        /\ \/ tokenInflight' - SumFunction(Asked') = tokenInflight - SumFunction(Asked)
           \/ tokenInflight' = 0
    BY NextTokens
  <2>2. SumFunction(Asked') \in Int /\ SumFunction(Asked') >= 0
    BY <2>1, TokenSum
  <2>3. SumFunction(Asked) \in Int
    BY AskedType DEF TokenTypeOK
  <2> QED
    BY <2>1, <2>2, <2>3 DEF NoPhantomTokens, TokenTypeOK
<1> QED
  BY <1>1, <1>2, PTL
-----------------------------------------------------------------------------
(* What admission does to the rules of a cluster does not change the policy of a request *)

\* "*" is not reversed, so that both filterRules keep it.
LEMMA MatchAllPositive == ~MatchAll.reverse
  BY DEF MatchAll, Entry

\* Normalising keeps "*" and does not add it.
LEMMA NormalizedMatchAll ==
    ASSUME NEW rules PROVE MatchAll \in Normalized(rules) <=> MatchAll \in rules
  BY MatchAllPositive DEF Normalized

\* Without "*", the matchers' filterRules sees the same entries after normalising.
LEMMA NormalizedFilter ==
    ASSUME NEW rules, MatchAll \notin rules
    PROVE  FilterRules(Normalized(rules)) = FilterRules(rules)
<1> DEFINE filtered == {r \in rules : ~r.reverse}
<1>1. CASE filtered # {}
  <2>1. Normalized(rules) = filtered
    BY <1>1 DEF Normalized
  <2>2. {r \in filtered : ~r.reverse} = filtered
    OBVIOUS
  <2>3. QED
    BY <1>1, <2>1, <2>2 DEF FilterRules
<1>2. CASE filtered = {}
  BY <1>2 DEF Normalized
<1>3. QED
  BY <1>1, <1>2, Zenon

\* Normalising leaves an empty list empty, and no other.
LEMMA NormalizedEmpty == ASSUME NEW rules PROVE Normalized(rules) = {} <=> rules = {}
  BY DEF Normalized

\* A field takes the same requests after normalising, one lemma for each matcher.
LEMMA SimpleKept ==
    ASSUME NEW rules, NEW requests
    PROVE  SimpleMatches(Normalized(rules), requests) <=> SimpleMatches(rules, requests)
<1>1. CASE MatchAll \in rules
  BY <1>1, NormalizedMatchAll, Zenon DEF SimpleMatches
<1>2. CASE MatchAll \notin rules
  <2>1. FilterRules(Normalized(rules)) = FilterRules(rules)
    BY <1>2, NormalizedFilter
  <2>2. MatchAll \notin Normalized(rules)
    BY <1>2, NormalizedMatchAll, Zenon
  <2>3. QED
    BY <1>2, <2>1, <2>2 DEF SimpleMatches
<1>3. QED
  BY <1>1, <1>2

\* resources, with rules such as "*/log"
LEMMA ResourceKept ==
    ASSUME NEW rules, NEW request
    PROVE  ResourceMatches(Normalized(rules), request) <=> ResourceMatches(rules, request)
<1>1. CASE MatchAll \in rules
  BY <1>1, NormalizedMatchAll, Zenon DEF ResourceMatches, SimpleMatches
<1>2. CASE MatchAll \notin rules
  <2>1. FilterRules(Normalized(rules)) = FilterRules(rules)
    BY <1>2, NormalizedFilter
  <2>2. MatchAll \notin Normalized(rules)
    BY <1>2, NormalizedMatchAll
  <2>3. QED
    BY <1>2, <2>1, <2>2, Zenon DEF ResourceMatches, SimpleMatches
<1>3. QED
  BY <1>1, <1>2

\* users, with rules such as "system:*"; service accounts are left as they are.
LEMMA UserKept ==
    ASSUME NEW rules, NEW accounts, NEW request
    PROVE  UserOrServiceAccountMatches(Normalized(rules), accounts, request)
             <=> UserOrServiceAccountMatches(rules, accounts, request)
<1>1. CASE MatchAll \in rules
  BY <1>1, NormalizedMatchAll, NormalizedEmpty, Zenon DEF UserOrServiceAccountMatches, SimpleMatches
<1>2. CASE MatchAll \notin rules
  <2>1. FilterRules(Normalized(rules)) = FilterRules(rules)
    BY <1>2, NormalizedFilter
  <2>2. MatchAll \notin Normalized(rules)
    BY <1>2, NormalizedMatchAll
  <2>3. QED
    BY <1>2, <2>1, <2>2, NormalizedEmpty, Zenon DEF UserOrServiceAccountMatches, SimpleMatches
<1>3. QED
  BY <1>1, <1>2, Zenon

\* non-resource URLs
LEMMA URLKept ==
    ASSUME NEW rules, NEW request
    PROVE  NonResourceURLMatches(Normalized(rules), request)
             <=> NonResourceURLMatches(rules, request)
<1>1. CASE MatchAll \in rules
  BY <1>1, NormalizedMatchAll, Zenon DEF NonResourceURLMatches
<1>2. CASE MatchAll \notin rules
  <2>1. FilterRules(Normalized(rules)) = FilterRules(rules)
    BY <1>2, NormalizedFilter
  <2>2. MatchAll \notin Normalized(rules)
    BY <1>2, NormalizedMatchAll
  <2>3. QED
    BY <1>2, <2>1, <2>2, Zenon DEF NonResourceURLMatches
<1>3. QED
  BY <1>1, <1>2

\* The fields of a rule, each with any entries.
Rules(E) ==
    [verbs : SUBSET E, apiGroups : SUBSET E, resources : SUBSET E, resourceNames : SUBSET E,
     users : SUBSET E, userGroups : SUBSET E, nonResourceURLs : SUBSET E,
     serviceAccounts : SUBSET E]

\* A rule takes the same requests after normalising.
LEMMA RuleKept ==
    ASSUME NEW E, NEW rule \in Rules(E), NEW request
    PROVE  RuleMatches(request, NormalizeRules(rule)) <=> RuleMatches(request, rule)
<1> DEFINE n == NormalizeRules(rule)
<1>1. /\ n.verbs = Normalized(rule.verbs)
      /\ n.apiGroups = Normalized(rule.apiGroups)
      /\ n.resources = Normalized(rule.resources)
      /\ n.resourceNames = Normalized(rule.resourceNames)
      /\ n.users = Normalized(rule.users)
      /\ n.userGroups = Normalized(rule.userGroups)
      /\ n.nonResourceURLs = Normalized(rule.nonResourceURLs)
      /\ n.serviceAccounts = rule.serviceAccounts
  BY Zenon DEF NormalizeRules, Rules
<1> HIDE DEF n
<1>2. /\ VerbMatches(n.verbs, request.verb) <=> VerbMatches(rule.verbs, request.verb)
      /\ APIGroupMatches(n.apiGroups, request.apiGroup)
           <=> APIGroupMatches(rule.apiGroups, request.apiGroup)
  BY <1>1, SimpleKept, Zenon DEF VerbMatches, APIGroupMatches
<1>3. ResourceMatches(n.resources, request.resource)
        <=> ResourceMatches(rule.resources, request.resource)
  BY <1>1, ResourceKept, Zenon
<1>4. ResourceNameMatches(n.resourceNames, request.name)
        <=> ResourceNameMatches(rule.resourceNames, request.name)
  BY <1>1, SimpleKept, NormalizedEmpty, Zenon DEF ResourceNameMatches
<1>5. UserGroupMatches(n.userGroups, request.groups)
        <=> UserGroupMatches(rule.userGroups, request.groups)
  BY <1>1, SimpleKept, NormalizedEmpty, Zenon DEF UserGroupMatches
<1>6. UserOrServiceAccountMatches(n.users, n.serviceAccounts, request.user)
        <=> UserOrServiceAccountMatches(rule.users, rule.serviceAccounts, request.user)
  BY <1>1, UserKept
<1>7. NonResourceURLMatches(n.nonResourceURLs, request.path)
        <=> NonResourceURLMatches(rule.nonResourceURLs, request.path)
  BY <1>1, URLKept, Zenon
<1>8. RuleMatches(request, n) <=> RuleMatches(request, rule)
  BY <1>2, <1>3, <1>4, <1>5, <1>6, <1>7, Zenon DEF RuleMatches
<1>9. QED
  BY <1>8, Zenon DEF n

\* normalizeRules: a request gets the same policy from the cluster that admission stores as
\* from the one the user has written, for any number of policies, rules and entries.
THEOREM AdmissionKeepsRouting ==
    ASSUME NEW E, NEW policies \in Seq(SUBSET Rules(E)), NEW request
    PROVE  LET admitted == [i \in 1..Len(policies) |-> {NormalizeRules(r) : r \in policies[i]}]
           IN  MatchPolicies(request, admitted) = MatchPolicies(request, policies)
<1> DEFINE admitted == [i \in 1..Len(policies) |-> {NormalizeRules(r) : r \in policies[i]}]
           Takes(ps, i) == \E rule \in ps[i] : RuleMatches(request, rule)
<1>1. Len(admitted) = Len(policies)
  OBVIOUS
<1>2. ASSUME NEW i \in 1..Len(policies)
      PROVE  Takes(admitted, i) <=> Takes(policies, i)
  <2>1. \A r \in policies[i] : r \in Rules(E)
    <3>1. policies[i] \in SUBSET Rules(E)
      OBVIOUS
    <3>2. QED
      BY <3>1
  <2>2. \A r \in policies[i] : RuleMatches(request, NormalizeRules(r)) <=> RuleMatches(request, r)
    BY <2>1, RuleKept
  <2>3. admitted[i] = {NormalizeRules(r) : r \in policies[i]}
    OBVIOUS
  <2> HIDE DEF admitted
  <2>4. Takes(admitted, i) <=> \E r \in policies[i] : RuleMatches(request, NormalizeRules(r))
    BY <2>3
  <2>5. QED
    BY <2>2, <2>4
<1> DEFINE Matching(ps) == {i \in 1..Len(ps) : Takes(ps, i)}
           First(S) == IF S = {} THEN 0 ELSE CHOOSE i \in S : \A j \in S : i <= j
<1>3. Matching(admitted) = Matching(policies)
  BY <1>1, <1>2, Zenon
<1>4. MatchPolicies(request, admitted) = First(Matching(admitted))
  BY DEF MatchPolicies
<1>5. MatchPolicies(request, policies) = First(Matching(policies))
  BY DEF MatchPolicies
<1> HIDE DEF Matching, First
<1>6. MatchPolicies(request, admitted) = MatchPolicies(request, policies)
  BY <1>3, <1>4, <1>5, Zenon
<1>7. QED
  BY <1>6

\* What a rule of a probe is made of.
LEMMA ProbeRule ==
    ASSUME NEW p \in Probes
    PROVE  [EveryRule EXCEPT ![p.field] = p.rules] \in Rules({MatchAll} \cup p.rules)
<1>1. PICK field \in DOMAIN EveryRule \ {"serviceAccounts"} :
         p \in [field : {field}, rules : SUBSET Entries(field), names : Requested(field)]
      BY DEF Probes
<1>2. p.field = field /\ p.field \in DOMAIN EveryRule
      BY <1>1, Zenon
<1>3. EveryRule \in Rules({MatchAll} \cup p.rules)
      BY Zenon DEF EveryRule, Rules
<1>4. p.field \in {"verbs", "apiGroups", "resources", "resourceNames", "users", "userGroups",
                   "nonResourceURLs", "serviceAccounts"}
      BY <1>2 DEF EveryRule
<1> QED
    BY <1>3, <1>4, Zenon DEF Rules

\* The same of every rule and request that TLC tries, in the form it tries them: no step
\* of a part changes the probe.
THEOREM ProbesKeepRouting == PartsSpec => []NormalizationKeepsRouting
<1> DEFINE Inv == probe \in Probes \cup {Absent}
<1>1. PartsInit => Inv
      BY DEF PartsInit
<1>2. Inv /\ [PartsNext]_<<quotaVars, discoveryVars, tokenVars, probe>> => Inv'
      BY DEF PartsNext
<1>3. Inv => NormalizationKeepsRouting
  <2> SUFFICES ASSUME probe \in Probes
               PROVE  Routed(probe, NormalizeRules) = Routed(probe, AsWritten)
      BY DEF NormalizationKeepsRouting
  <2> DEFINE request == Request(probe.field, probe.names)
             rule == [EveryRule EXCEPT ![probe.field] = probe.rules]
             Matching(ps) == {i \in 1..Len(ps) : \E r \in ps[i] : RuleMatches(request, r)}
             admitted == << {NormalizeRules(rule)}, {EveryRule} >>
             written == << {rule}, {EveryRule} >>
  <2>1. RuleMatches(request, NormalizeRules(rule)) <=> RuleMatches(request, rule)
    <3>1. rule \in Rules({MatchAll} \cup probe.rules)
          BY ProbeRule
    <3> HIDE DEF rule, request
    <3> QED
        BY <3>1, RuleKept, Zenon
  <2>2. /\ Routed(probe, NormalizeRules) = MatchPolicies(request, admitted)
        /\ Routed(probe, AsWritten) = MatchPolicies(request, written)
        BY DEF Routed, Policies, AsWritten
  <2> HIDE DEF rule, request
  <2>3. Matching(admitted) = Matching(written)
        BY <2>1
  <2>4. MatchPolicies(request, admitted) = MatchPolicies(request, written)
        BY <2>3 DEF MatchPolicies
  <2> QED
      BY <2>2, <2>4
<1> QED
    BY <1>1, <1>2, <1>3, PTL DEF PartsSpec

-----------------------------------------------------------------------------
(* Which requests a field of a rule takes, against docs/en/design.md *)

\* The entries that the matcher of a field knows, with names made of any parts.
FieldEntries(field, Part) ==
    {MatchAll} \cup
    [reverse : BOOLEAN, name : Seq(Part),
     star : CASE field = "resources" -> {"none", "prefix"}
              [] field \in {"users", "nonResourceURLs"} -> {"none", "suffix"}
              [] OTHER -> {"none"}]

\* Lists of which the code and the documentation say the same: one entry at least is not
\* reversed, or there is one entry, without a star.
Plain(rules) == (\E v \in rules : ~v.reverse) \/ (\E v : rules = {v} /\ v.star = "none")

\* "*" covers every name.
LEMMA MatchAllCovers == ASSUME NEW Part, NEW q \in Seq(Part) PROVE Covers(MatchAll, q)
<1>1. SubSeq(q, 1, 0) = << >>
  OBVIOUS
<1>2. 0 \in 0..Len(q)
  OBVIOUS
<1> QED
  BY <1>1, <1>2 DEF Covers, HasGlob, MatchAll, Entry

\* An entry without a star: what Match says of it.
LEMMA MatchExact ==
    ASSUME NEW v, v.star = "none", NEW q
    PROVE  IF v.reverse THEN Match(v, q) <=> ~Covers(v, q) ELSE Match(v, q) <=> Covers(v, q)
  BY DEF Match, Covers, HasGlob

\* The fields of which an empty list takes every request.
Optional(field) == field \in {"users", "userGroups", "resourceNames"}

\* simpleMatches on a list with a positive entry: all entries that count are exact, or "*".
LEMMA SimplePositive ==
    ASSUME NEW Part, NEW rules, \A v \in rules : v = MatchAll \/ v.star = "none",
           NEW requests \in SUBSET Seq(Part), requests # {}, \E v \in rules : ~v.reverse
    PROVE  SimpleMatches(rules, requests) <=> Selected(rules, requests)
<1> DEFINE positive == {v \in rules : ~v.reverse}
<1>1. FilterRules(rules) = positive /\ positive # {}
  BY DEF FilterRules
<1>2. Selected(rules, requests) <=> \E v \in positive, q \in requests : Covers(v, q)
  BY <1>1, Zenon DEF Selected
<1>3. CASE MatchAll \in rules
  <2>1. MatchAll \in positive
    BY <1>3, MatchAllPositive, Zenon
  <2>2. PICK q \in requests : Covers(MatchAll, q)
    BY MatchAllCovers, Zenon
  <2> QED
    BY <1>2, <1>3, <2>1, <2>2, Zenon DEF SimpleMatches
<1>4. CASE MatchAll \notin rules
  <2>1. \A v \in positive, q \in requests : Match(v, q) <=> Covers(v, q)
    BY <1>4, MatchExact, Zenon
  <2> QED
    BY <1>1, <1>2, <1>4, <2>1, Zenon DEF SimpleMatches
<1> QED
  BY <1>3, <1>4

\* A single reversed entry takes the requests that it does not name.
LEMMA OneReversed ==
    ASSUME NEW v, v.reverse, NEW requests
    PROVE  /\ FilterRules({v}) = {v}
           /\ MatchAll \notin {v}
           /\ Selected({v}, requests) <=> \E q \in requests : ~Covers(v, q)
<1>1. {r \in {v} : ~r.reverse} = {}
  OBVIOUS
<1>2. v # MatchAll
  BY MatchAllPositive, Zenon
<1> QED
  BY <1>1, <1>2, Zenon DEF FilterRules, Selected

\* A single entry with "-" and without a star takes the requests that it does not name.
LEMMA SimpleReversed ==
    ASSUME NEW v, v.reverse, v.star = "none", NEW requests
    PROVE  SimpleMatches({v}, requests) <=> Selected({v}, requests)
<1>1. \A q \in requests : Match(v, q) <=> ~Covers(v, q)
  BY MatchExact, Zenon
<1> QED
  BY <1>1, OneReversed DEF SimpleMatches

\* verbs, API groups, resource names and user groups
LEMMA SimpleAsDocumented ==
    ASSUME NEW Part, NEW rules, \A v \in rules : v = MatchAll \/ v.star = "none",
           NEW requests \in SUBSET Seq(Part), requests # {}, Plain(rules)
    PROVE  SimpleMatches(rules, requests) <=> Selected(rules, requests)
<1>1. CASE \E v \in rules : ~v.reverse
  BY <1>1, SimplePositive, Zenon
<1>2. CASE ~\E v \in rules : ~v.reverse
  <2>1. PICK v : rules = {v} /\ v.star = "none"
    BY <1>2 DEF Plain
  <2>2. v.reverse
    BY <1>2, <2>1, Zenon
  <2> QED
    BY <2>1, <2>2, SimpleReversed, Zenon
<1> QED
  BY <1>1, <1>2, Zenon

\* resources
LEMMA ResourceAsDocumented ==
    ASSUME NEW Part, NEW rules, NEW q \in Seq(Part), Plain(rules),
           \A v \in rules : v = MatchAll \/ v.star \in {"none", "prefix"}
    PROVE  ResourceMatches(rules, q) <=> Selected(rules, {q})
<1>1. CASE \E v \in rules : ~v.reverse
  <2> DEFINE positive == {v \in rules : ~v.reverse}
  <2>1. FilterRules(rules) = positive /\ positive # {}
    BY <1>1, Zenon DEF FilterRules
  <2>2. Selected(rules, {q}) <=> \E v \in positive : Covers(v, q)
    BY <2>1, Zenon DEF Selected
  <2>3. CASE MatchAll \in rules
    BY <2>2, <2>3, MatchAllPositive, MatchAllCovers, Zenon DEF ResourceMatches, SimpleMatches
  <2>4. CASE MatchAll \notin rules
    <3>1. \A v \in positive : Covers(v, q) <=> Match(v, q) \/ MatchesSubresource(v, q)
      BY <2>4, Zenon DEF Covers, Match, MatchesSubresource, HasGlob
    <3> QED
      BY <2>1, <2>2, <2>4, <3>1 DEF ResourceMatches, SimpleMatches
  <2> QED
    BY <2>3, <2>4, Zenon
<1>2. CASE ~\E v \in rules : ~v.reverse
  <2>1. PICK v : rules = {v} /\ v.star = "none"
    BY <1>2 DEF Plain
  <2>2. v.reverse
    BY <1>2, <2>1, Zenon
  <2>3. ~\E u \in FilterRules(rules) : MatchesSubresource(u, q)
    BY <2>1, <2>2, OneReversed DEF MatchesSubresource
  <2>4. SimpleMatches(rules, {q}) <=> Selected(rules, {q})
    BY <2>1, <2>2, SimpleReversed, Zenon
  <2> QED
    BY <2>3, <2>4, Zenon DEF ResourceMatches
<1> QED
  BY <1>1, <1>2, Zenon

\* users, of a rule without service accounts
LEMMA UserAsDocumented ==
    ASSUME NEW Part, NEW rules, NEW q \in Seq(Part), Plain(rules),
           \A v \in rules : v.star \in {"none", "suffix"}
    PROVE  UserOrServiceAccountMatches(rules, {}, q) <=> Selected(rules, {q})
<1>0. rules # {}
  BY DEF Plain
<1>1. CASE \E v \in rules : ~v.reverse
  <2> DEFINE positive == {v \in rules : ~v.reverse}
  <2>1. FilterRules(rules) = positive /\ positive # {}
    BY <1>1, Zenon DEF FilterRules
  <2>2. Selected(rules, {q}) <=> \E v \in positive : Covers(v, q)
    BY <2>1, Zenon DEF Selected
  <2>3. CASE MatchAll \in rules
    BY <2>2, <2>3, MatchAllPositive, MatchAllCovers DEF UserOrServiceAccountMatches, SimpleMatches
  <2>4. CASE MatchAll \notin rules
    <3>1. \A v \in positive : Covers(v, q) <=> Match(v, q) \/ HasGlob(v, q)
      BY <2>4, Zenon DEF Covers, Match
    <3> QED
      BY <1>0, <2>1, <2>2, <2>4, <3>1 DEF UserOrServiceAccountMatches, SimpleMatches
  <2> QED
    BY <2>3, <2>4, Zenon
<1>2. CASE ~\E v \in rules : ~v.reverse
  <2>1. PICK v : rules = {v} /\ v.star = "none"
    BY <1>2, Zenon DEF Plain
  <2>2. v.reverse
    BY <1>2, <2>1, Zenon
  <2>3. ~\E u \in FilterRules(rules) : HasGlob(u, q)
    <3>1. FilterRules(rules) = {v}
      BY <2>1, <2>2, OneReversed, Zenon
    <3>2. ~HasGlob(v, q)
      BY <2>1, Zenon DEF HasGlob
    <3> QED
      BY <3>1, <3>2, Zenon
  <2>4. SimpleMatches(rules, {q}) <=> Selected(rules, {q})
    BY <2>1, <2>2, SimpleReversed, Zenon
  <2> QED
    BY <1>0, <2>3, <2>4, Zenon DEF UserOrServiceAccountMatches
<1> QED
  BY <1>1, <1>2, Zenon

\* non-resource URLs: their matcher skips reversed entries
LEMMA URLAsDocumented ==
    ASSUME NEW Part, NEW rules, NEW q \in Seq(Part), \E v \in rules : ~v.reverse,
           \A v \in rules : v.star \in {"none", "suffix"}
    PROVE  NonResourceURLMatches(rules, q) <=> Selected(rules, {q})
<1> DEFINE positive == {v \in rules : ~v.reverse}
<1>1. FilterRules(rules) = positive /\ positive # {}
  BY Zenon DEF FilterRules
<1>2. Selected(rules, {q}) <=> \E v \in positive : Covers(v, q)
  BY <1>1, Zenon DEF Selected
<1>3. CASE MatchAll \in rules
  BY <1>2, <1>3, MatchAllPositive, MatchAllCovers, Zenon DEF NonResourceURLMatches
<1>4. CASE MatchAll \notin rules
  <2>1. \A v \in positive : Covers(v, q) <=> Match(v, q) \/ HasGlob(v, q)
    BY Zenon DEF Covers, Match
  <2> QED
    BY <1>1, <1>2, <1>4, <2>1, Zenon DEF NonResourceURLMatches
<1> QED
  BY <1>3, <1>4, Zenon

\* How the rule for one field decides, with the name that the request has in that field.
FieldMatches(field, rules, names) ==
    LET q == CHOOSE n \in names : TRUE
    IN  CASE field = "verbs" -> VerbMatches(rules, q)
          [] field = "apiGroups" -> APIGroupMatches(rules, q)
          [] field = "resources" -> ResourceMatches(rules, q)
          [] field = "resourceNames" -> ResourceNameMatches(rules, q)
          [] field = "users" -> UserOrServiceAccountMatches(rules, {}, q)
          [] field = "userGroups" -> UserGroupMatches(rules, names)
          [] OTHER -> NonResourceURLMatches(rules, q)

Fields == {"verbs", "apiGroups", "resources", "resourceNames", "users", "userGroups",
           "nonResourceURLs"}

\* docs/en/design.md on the field matchers of evaluation_helpers.go, for any entries that the
\* field knows and any names: a list takes a request as documented if one of its entries is
\* not reversed or, for all fields except URLs, it has one entry, without a star; an empty
\* list takes everything for the fields that may be left out, and nothing for the others.
THEOREM FieldsAsDocumented ==
    ASSUME NEW Part, NEW field \in Fields, NEW rules \in SUBSET FieldEntries(field, Part),
           NEW names \in SUBSET Seq(Part), names # {},
           field # "userGroups" => \E q : names = {q},
           rules = {} \/ Plain(rules),
           field = "nonResourceURLs" /\ rules # {} => \E v \in rules : ~v.reverse
    PROVE  FieldMatches(field, rules, names)
             <=> IF rules = {} THEN Optional(field) ELSE Selected(rules, names)
<1> DEFINE q == CHOOSE n \in names : TRUE
<1>1. q \in Seq(Part) /\ (field # "userGroups" => names = {q})
  OBVIOUS
<1>2. /\ \A v \in rules : v = MatchAll \/ v.star \in {"none", "prefix", "suffix"}
      /\ field = "resources" => \A v \in rules : v = MatchAll \/ v.star \in {"none", "prefix"}
      /\ field \in {"users", "nonResourceURLs"} => \A v \in rules : v.star \in {"none", "suffix"}
      /\ field \notin {"resources", "users", "nonResourceURLs"} =>
             \A v \in rules : v = MatchAll \/ v.star = "none"
  BY DEF FieldEntries, MatchAll, Entry
<1> HIDE DEF q
<1>3. CASE rules = {}
  <2>1. FilterRules(rules) = {}
    BY <1>3, Zenon DEF FilterRules
  <2> QED
    BY <1>3, <2>1, Zenon
    DEF FieldMatches, Optional, Fields, VerbMatches, APIGroupMatches, ResourceMatches,
      ResourceNameMatches, UserOrServiceAccountMatches, UserGroupMatches, NonResourceURLMatches,
      SimpleMatches
<1>4. CASE rules # {}
  <2>1. Plain(rules)
    BY <1>4
  <2>2. CASE field \in {"verbs", "apiGroups", "resourceNames"}
    <3>1. SimpleMatches(rules, {q}) <=> Selected(rules, names)
      BY <1>1, <1>2, <2>1, <2>2, SimpleAsDocumented, Zenon
    <3> QED
      BY <1>4, <2>2, <3>1, Zenon
      DEF FieldMatches, q, VerbMatches, APIGroupMatches, ResourceNameMatches
  <2>3. CASE field = "userGroups"
    <3>1. SimpleMatches(rules, names) <=> Selected(rules, names)
      BY <1>2, <2>1, <2>3, SimpleAsDocumented, Zenon
    <3> QED
      BY <1>4, <2>3, <3>1, Zenon DEF FieldMatches, UserGroupMatches
  <2>4. CASE field = "resources"
    <3>1. ResourceMatches(rules, q) <=> Selected(rules, names)
      BY <1>1, <1>2, <2>1, <2>4, ResourceAsDocumented
    <3> QED
      BY <1>4, <2>4, <3>1, Zenon DEF FieldMatches, q
  <2>5. CASE field = "users"
    <3>1. UserOrServiceAccountMatches(rules, {}, q) <=> Selected(rules, names)
      BY <1>1, <1>2, <2>1, <2>5, UserAsDocumented
    <3> QED
      BY <1>4, <2>5, <3>1, Zenon DEF FieldMatches, q
  <2>6. CASE field = "nonResourceURLs"
    <3>1. NonResourceURLMatches(rules, q) <=> Selected(rules, names)
      BY <1>1, <1>2, <1>4, <2>6, URLAsDocumented
    <3> QED
      BY <1>4, <2>6, <3>1, Zenon DEF FieldMatches, q
  <2> QED
    BY <2>2, <2>3, <2>4, <2>5, <2>6 DEF Fields
<1> QED
  BY <1>3, <1>4, Zenon

\* "*" in a field takes whatever the request has there.
LEMMA EveryFieldTaken ==
    ASSUME NEW q, NEW accounts
    PROVE  /\ VerbMatches({MatchAll}, q) /\ APIGroupMatches({MatchAll}, q)
           /\ ResourceMatches({MatchAll}, q) /\ ResourceNameMatches({MatchAll}, q)
           /\ UserOrServiceAccountMatches({MatchAll}, accounts, q)
           /\ UserGroupMatches({MatchAll}, q) /\ NonResourceURLMatches({MatchAll}, q)
<1> SimpleMatches({MatchAll}, {q}) /\ SimpleMatches({MatchAll}, q)
  BY DEF SimpleMatches
<1> QED
  BY Zenon DEF VerbMatches, APIGroupMatches, ResourceMatches, ResourceNameMatches,
    UserOrServiceAccountMatches, UserGroupMatches, NonResourceURLMatches

\* A rule that names all but one field "*" decides by that field.
LEMMA OneFieldDecides ==
    ASSUME NEW field \in Fields, NEW rules, NEW names
    PROVE  RuleMatches(Request(field, names), [EveryRule EXCEPT ![field] = rules])
             <=> FieldMatches(field, rules, names)
<1> DEFINE rule == [EveryRule EXCEPT ![field] = rules]
           request == Request(field, names)
           q == CHOOSE n \in names : TRUE
<1>1. /\ rule.verbs = IF field = "verbs" THEN rules ELSE {MatchAll}
      /\ rule.apiGroups = IF field = "apiGroups" THEN rules ELSE {MatchAll}
      /\ rule.resources = IF field = "resources" THEN rules ELSE {MatchAll}
      /\ rule.resourceNames = IF field = "resourceNames" THEN rules ELSE {MatchAll}
      /\ rule.users = IF field = "users" THEN rules ELSE {MatchAll}
      /\ rule.userGroups = IF field = "userGroups" THEN rules ELSE {MatchAll}
      /\ rule.nonResourceURLs = IF field = "nonResourceURLs" THEN rules ELSE {MatchAll}
      /\ rule.serviceAccounts = {}
  BY Zenon DEF EveryRule, Fields
<1>2. /\ request.isResource <=> field # "nonResourceURLs"
      /\ field = "verbs" => request.verb = q
      /\ field = "apiGroups" => request.apiGroup = q
      /\ field = "resources" => request.resource = q
      /\ field = "resourceNames" => request.name = q
      /\ field = "users" => request.user = q
      /\ field = "userGroups" => request.groups = names
      /\ field = "nonResourceURLs" => request.path = q
  BY Zenon DEF Request
<1>3. FieldMatches(field, rules, names) <=>
        CASE field = "verbs" -> VerbMatches(rules, q)
          [] field = "apiGroups" -> APIGroupMatches(rules, q)
          [] field = "resources" -> ResourceMatches(rules, q)
          [] field = "resourceNames" -> ResourceNameMatches(rules, q)
          [] field = "users" -> UserOrServiceAccountMatches(rules, {}, q)
          [] field = "userGroups" -> UserGroupMatches(rules, names)
          [] OTHER -> NonResourceURLMatches(rules, q)
  BY Zenon DEF FieldMatches
<1> HIDE DEF rule, request, q
<1>4. RuleMatches(request, rule) <=> FieldMatches(field, rules, names)
  <2>1. CASE field = "verbs"
    BY <1>1, <1>2, <1>3, <2>1, EveryFieldTaken DEF RuleMatches
  <2>2. CASE field = "apiGroups"
    BY <1>1, <1>2, <1>3, <2>2, EveryFieldTaken DEF RuleMatches
  <2>3. CASE field = "resources"
    BY <1>1, <1>2, <1>3, <2>3, EveryFieldTaken DEF RuleMatches
  <2>4. CASE field = "resourceNames"
    BY <1>1, <1>2, <1>3, <2>4, EveryFieldTaken DEF RuleMatches
  <2>5. CASE field = "users"
    BY <1>1, <1>2, <1>3, <2>5, EveryFieldTaken DEF RuleMatches
  <2>6. CASE field = "userGroups"
    BY <1>1, <1>2, <1>3, <2>6, EveryFieldTaken DEF RuleMatches
  <2>7. CASE field = "nonResourceURLs"
    BY <1>1, <1>2, <1>3, <2>7, EveryFieldTaken DEF RuleMatches
  <2> QED
    BY <2>1, <2>2, <2>3, <2>4, <2>5, <2>6, <2>7 DEF Fields
<1> QED
  BY <1>4, Zenon DEF rule, request

\* Of two policies the first that takes the request is the one.
LEMMA FirstOfTwo ==
    ASSUME NEW request, NEW rule
    PROVE  MatchPolicies(request, << {rule}, {EveryRule} >>)
             = IF RuleMatches(request, rule) THEN 1 ELSE 2
<1> DEFINE ps == << {rule}, {EveryRule} >>
           matching == {i \in 1..Len(ps) : \E r \in ps[i] : RuleMatches(request, r)}
<1>1. RuleMatches(request, EveryRule)
  BY EveryFieldTaken, Zenon DEF RuleMatches, EveryRule
<1>2. Len(ps) = 2 /\ ps[1] = {rule} /\ ps[2] = {EveryRule}
  OBVIOUS
<1>3. MatchPolicies(request, ps)
        = IF matching = {} THEN 0 ELSE CHOOSE i \in matching : \A j \in matching : i <= j
  BY DEF MatchPolicies
<1> HIDE DEF ps
<1>4. CASE RuleMatches(request, rule)
  <2>1. matching = {1, 2}
    BY <1>1, <1>2, <1>4
  <2> HIDE DEF matching
  <2>2. (CHOOSE i \in matching : \A j \in matching : i <= j) = 1
    BY <2>1
  <2> QED
    BY <1>3, <1>4, <2>1, <2>2, Zenon DEF ps
<1>5. CASE ~RuleMatches(request, rule)
  <2>1. matching = {2}
    BY <1>1, <1>2, <1>5
  <2> HIDE DEF matching
  <2>2. (CHOOSE i \in matching : \A j \in matching : i <= j) = 2
    BY <2>1
  <2> QED
    BY <1>3, <1>5, <2>1, <2>2, Zenon DEF ps
<1> QED
  BY <1>4, <1>5, Zenon

\* The parts of the names that TLC tries.
NameParts == {"pods", "log", "others"}

\* The names that TLC tries are made of them.
LEMMA NamesKnown ==
    /\ Pods \in Seq(NameParts) /\ PodsLog \in Seq(NameParts) /\ Others \in Seq(NameParts)
    /\ <<"log">> \in Seq(NameParts) /\ <<"others", "log">> \in Seq(NameParts)
  BY DEF Pods, PodsLog, Others, NameParts

\* The same entries, each once and reversed, are finitely many.
LEMMA BothWaysFinite ==
    ASSUME NEW a, NEW b, NEW c
    PROVE  IsFiniteSet({MatchAll} \cup BothWays({a, b, c}))
<1>1. \A x, y, z, T : IsFiniteSet(T) => IsFiniteSet(T \cup {x, y, z})
  <2> SUFFICES ASSUME NEW x, NEW y, NEW z, NEW T, IsFiniteSet(T)
               PROVE  IsFiniteSet(T \cup {x, y, z})
    BY Zenon
  <2>1. IsFiniteSet(((T \cup {x}) \cup {y}) \cup {z})
    BY FS_AddElement, Zenon
  <2>2. ((T \cup {x}) \cup {y}) \cup {z} = T \cup {x, y, z}
    OBVIOUS
  <2> QED
    BY <2>1, <2>2
<1>2. IsFiniteSet({MatchAll})
  BY FS_Singleton
<1>3. IsFiniteSet(({MatchAll} \cup {a, b, c}) \cup {Reversed(a), Reversed(b), Reversed(c)})
  BY <1>1, <1>2, Zenon
<1>4. {MatchAll} \cup BothWays({a, b, c})
        = ({MatchAll} \cup {a, b, c}) \cup {Reversed(a), Reversed(b), Reversed(c)}
  BY DEF BothWays
<1> QED
  BY <1>3, <1>4, Zenon

\* The entries that TLC tries in a field are finitely many, and the field knows them.
LEMMA EntriesKnown ==
    ASSUME NEW field \in Fields
    PROVE  IsFiniteSet(Entries(field)) /\ Entries(field) \subseteq FieldEntries(field, NameParts)
<1> DEFINE Stars == CASE field = "resources" -> {"none", "prefix"}
                      [] field \in {"users", "nonResourceURLs"} -> {"none", "suffix"}
                      [] OTHER -> {"none"}
           Base == CASE field = "resources" ->
                          {Exact(Pods), Exact(PodsLog), Entry(<<"log">>, "prefix")}
                     [] field \in {"users", "nonResourceURLs"} ->
                          {Exact(Pods), Exact(PodsLog), Entry(Pods, "suffix")}
                     [] OTHER -> {Exact(Pods), Exact(PodsLog)}
<1>1. Entries(field) = {MatchAll} \cup BothWays(Base)
  BY DEF Entries
<1>2. \E a, b, c : Base = {a, b, c}
  <2>1. {Exact(Pods), Exact(PodsLog)} = {Exact(Pods), Exact(PodsLog), Exact(PodsLog)}
    OBVIOUS
  <2>2. CASE field = "resources"
    BY <2>2, Zenon
  <2>3. CASE field \in {"users", "nonResourceURLs"}
    BY <2>3, Zenon
  <2>4. CASE field \notin {"resources", "users", "nonResourceURLs"}
    BY <2>1, <2>4, Zenon
  <2> QED
    BY <2>2, <2>3, <2>4, Zenon
<1>3. \A v \in Base : \E name \in Seq(NameParts), star \in Stars : v = Entry(name, star)
  BY NamesKnown, Zenon DEF Exact
<1> HIDE DEF Base, Stars
<1>4. \A name \in Seq(NameParts), star \in Stars :
        Entry(name, star) \in FieldEntries(field, NameParts)
          /\ Reversed(Entry(name, star)) \in FieldEntries(field, NameParts)
  BY Zenon DEF Entry, Reversed, FieldEntries, Stars
<1>5. MatchAll \in FieldEntries(field, NameParts)
  BY DEF FieldEntries
<1>6. BothWays(Base) \subseteq FieldEntries(field, NameParts)
  <2>1. \A v \in Base : v \in FieldEntries(field, NameParts)
                        /\ Reversed(v) \in FieldEntries(field, NameParts)
    BY <1>3, <1>4, Zenon
  <2> QED
    BY <2>1 DEF BothWays
<1> QED
  BY <1>1, <1>2, <1>5, <1>6, BothWaysFinite

\* What the request of a probe has in the field.
LEMMA RequestedKnown ==
    ASSUME NEW field, NEW names \in Requested(field)
    PROVE  /\ names \in SUBSET Seq(NameParts) /\ names # {}
           /\ field # "userGroups" => \E q : names = {q}
<1>1. CASE field = "userGroups"
  BY <1>1, NamesKnown, Zenon DEF Requested
<1>2. CASE field # "userGroups"
  BY <1>2, NamesKnown, Zenon DEF Requested
<1> QED
  BY <1>1, <1>2

\* A list is plain if none of the exceptions of RoutedAsDocumented applies to it.
LEMMA PlainOrNamed ==
    ASSUME NEW rules, IsFiniteSet(rules), rules # {},
           \/ {v \in rules : ~v.reverse} # {}
           \/ ~(Cardinality(rules) > 1) /\ ~\E v \in rules : v.star # "none"
    PROVE  Plain(rules)
<1>1. CASE {v \in rules : ~v.reverse} # {}
  BY <1>1, Zenon DEF Plain
<1>2. CASE ~(Cardinality(rules) > 1) /\ ~\E v \in rules : v.star # "none"
  <2>1. Cardinality(rules) \in Nat /\ Cardinality(rules) # 0
    BY FS_CardinalityType, FS_EmptySet, Zenon
  <2>2. Cardinality(rules) = 1
    BY <1>2, <2>1
  <2>3. PICK v : rules = {v}
    BY <2>2, FS_Singleton, Zenon
  <2> QED
    BY <1>2, <2>3, Zenon DEF Plain
<1> QED
  BY <1>1, <1>2

\* docs/en/design.md, of every rule and request that TLC tries: they reach the policy that
\* the documentation says, outside the lists that the property names.
THEOREM ProbesRoutedAsDocumented == PartsSpec => []RoutedAsDocumented
<1> DEFINE Inv == probe \in Probes \cup {Absent}
<1>1. PartsInit => Inv
  BY DEF PartsInit
<1>2. Inv /\ [PartsNext]_<<quotaVars, discoveryVars, tokenVars, probe>> => Inv'
  BY DEF PartsNext
<1>3. Inv => RoutedAsDocumented
  <2> SUFFICES ASSUME probe \in Probes PROVE RoutedAsDocumented
    BY DEF RoutedAsDocumented
  <2>1. PICK field \in DOMAIN EveryRule \ {"serviceAccounts"} :
           probe \in [field : {field}, rules : SUBSET Entries(field), names : Requested(field)]
    BY Zenon DEF Probes
  <2> DEFINE rules == probe.rules
             names == probe.names
             positive == {v \in rules : ~v.reverse}
             named == \/ probe.field = "nonResourceURLs"
                      \/ Cardinality(rules) > 1
                      \/ \E v \in rules : v.star # "none"
             taken == IF rules = {} THEN Optional(field) ELSE Selected(rules, names)
  <2>2. field \in Fields /\ probe.field = field
    BY <2>1, Zenon DEF EveryRule, Fields
  <2>3. IsFiniteSet(rules) /\ rules \in SUBSET FieldEntries(field, NameParts)
    BY <2>1, <2>2, EntriesKnown, FS_Subset, Zenon
  <2>4. /\ names \in SUBSET Seq(NameParts) /\ names # {}
        /\ field # "userGroups" => \E q : names = {q}
    BY <2>1, RequestedKnown, Zenon
  <2>5. Routed(probe, NormalizeRules)
          = IF FieldMatches(field, rules, names) THEN 1 ELSE 2
    <3> DEFINE request == Request(field, names)
               rule == [EveryRule EXCEPT ![field] = rules]
    <3>1. Routed(probe, NormalizeRules)
            = MatchPolicies(request, << {NormalizeRules(rule)}, {EveryRule} >>)
      BY <2>2, Zenon DEF Routed, Policies
    <3>2. RuleMatches(request, NormalizeRules(rule)) <=> RuleMatches(request, rule)
      <4>1. rule \in Rules({MatchAll} \cup rules)
        BY <2>2, ProbeRule, Zenon
      <4> HIDE DEF rule, request
      <4> QED
        BY <4>1, RuleKept, Zenon
    <3>3. RuleMatches(request, rule) <=> FieldMatches(field, rules, names)
      BY <2>2, OneFieldDecides, Zenon
    <3> HIDE DEF request, rule
    <3> QED
      BY <3>1, <3>2, <3>3, FirstOfTwo
  <2>6. ASSUME ~(positive = {} /\ named), rules # {}
        PROVE  Plain(rules) /\ (field = "nonResourceURLs" => \E v \in rules : ~v.reverse)
    <3>1. positive # {} => \E v \in rules : ~v.reverse
      BY Zenon
    <3>2. positive # {} \/ ~named
      BY <2>6, Zenon
    <3>3. field = "nonResourceURLs" => named
      BY <2>2, Zenon
    <3>4. \/ {v \in rules : ~v.reverse} # {}
          \/ ~(Cardinality(rules) > 1) /\ ~\E v \in rules : v.star # "none"
      BY <3>2
    <3>5. Plain(rules)
      <4> HIDE DEF rules
      <4> QED
        BY <2>3, <2>6, <3>4, PlainOrNamed, Zenon
    <3> QED
      BY <3>1, <3>2, <3>3, <3>5, Zenon
  <2>7. \/ Routed(probe, NormalizeRules) = IF taken THEN 1 ELSE 2
        \/ positive = {} /\ named
        => RoutedAsDocumented
    BY <2>2, Zenon DEF RoutedAsDocumented, Optional
  <2>8. CASE rules = {}
    <3>1. FieldMatches(field, rules, names) <=> taken
      BY <2>2, <2>3, <2>4, <2>8, FieldsAsDocumented, Zenon
    <3> QED
      BY <2>5, <2>7, <3>1, Zenon
  <2>9. CASE rules # {} /\ ~(positive = {} /\ named)
    <3>1. FieldMatches(field, rules, names) <=> taken
      BY <2>2, <2>3, <2>4, <2>6, <2>9, FieldsAsDocumented, Zenon
    <3> QED
      BY <2>5, <2>7, <3>1, Zenon
  <2> QED
    BY <2>7, <2>8, <2>9, Zenon
<1> QED
  BY <1>1, <1>2, <1>3, PTL DEF PartsSpec
=============================================================================
