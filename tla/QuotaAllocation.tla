--------------------------- MODULE QuotaAllocation ---------------------------
(***************************************************************************)
(* The GlobalAllocate strategy: each gateway reports its quota and its use *)
(* of a flow control (reconcile), and the rate limiter server answers with *)
(* the gateway's next quota out of a total (UpdateRateLimitConditionStatus *)
(* and calculateNextQuota).  The server also forgets gateways whose        *)
(* heartbeats stop (cleanupTimeoutClient, cleanupUnknownCondition): their  *)
(* conditions and the requests it counts for them (deleteGlobalFlowControl)*)
(*                                                                         *)
(* Quotas are whole numbers, the code's floats are fractions of Scale; the *)
(* numbers are those of a flow control of type MaxRequestsInflight.  One   *)
(* flow control, one upstream cluster and one leader.                      *)
(***************************************************************************)
EXTENDS Integers, FiniteSets, FiniteSetsExt, Functions

CONSTANTS
    Gateways,   \* gateway processes, each with its own instance id
    Absent      \* no condition, no request on its way

ASSUME QuotaAssumption ==
    /\ IsFiniteSet(Gateways)
    /\ Absent \notin [quota : Int, used : Int, labelled : BOOLEAN]

VARIABLES
    status,     \* a gateway is "new", "alive" or "dead"
    quota,      \* the quota the gateway knows, 0 before the first answer
    round,      \* flips with every reconcile, so that one that changes nothing is a step
    condition,  \* the server's condition of the gateway
    upstream,   \* the state condition: total, what is allocated, its request level
    beat,       \* clientCache: no entry, a "fresh" or an "expired" heartbeat
    counted,    \* whether the server counts requests for the gateway
    late,       \* an update the gateway has given up and the server has yet to handle
    cleaning,   \* cleanupTimeoutClient: "found" expired, entry deleted and "forgetting"
    sweep,      \* cleanupUnknownCondition: the clients it expects, or Absent
    allowed,    \* the scenario: what may still go wrong, and which uses gateways report
    faultless   \* nothing has gone wrong so far, and no live gateway was cleaned up

serverVars == <<condition, upstream, beat, counted, cleaning, sweep>>
quotaVars == <<status, quota, round, late, serverVars, allowed, faultless>>

Spend(what) ==
    /\ allowed[what] > 0
    /\ allowed' = [allowed EXCEPT ![what] = @ - 1]
    /\ faultless' = (faultless /\ what = "deaths")

Stored == {g \in Gateways : condition[g] # Absent}

\* The scenario says which gateways take part and whether they have joined before.
QuotaInit(scenarios) ==
    /\ allowed \in scenarios
    /\ faultless = TRUE
    /\ status = [g \in Gateways |-> IF g \in allowed.joined THEN "alive" ELSE "new"]
    /\ beat = [g \in Gateways |-> IF g \in allowed.joined THEN "fresh" ELSE "none"]
    /\ counted = [g \in Gateways |-> g \in allowed.joined]
    /\ quota = [g \in Gateways |-> 0]
    /\ round = [g \in Gateways |-> FALSE]
    /\ condition = [g \in Gateways |-> Absent]
    /\ upstream = [total |-> Max(allowed.totals), allocated |-> 0, level |-> 0]
    /\ late = [g \in Gateways |-> Absent]
    /\ cleaning = [g \in Gateways |-> "no"]
    /\ sweep = Absent

-----------------------------------------------------------------------------
(* calculateNextQuota *)

\* int32(a / b), and math.Sqrt(a / b) up to the 100 at which its only use is cut; b > 0.
Truncated(a, b) == IF a >= 0 THEN a \div b ELSE -((-a) \div b)
Root(a, b) == Max({k \in 0..100 : k * k * b <= a})

\* getRateLimitItemStatus: the use of a quota in percent.
RequestLevel(used, current) ==
    IF current = 0 THEN 0 ELSE IF current > 0 THEN Truncated(100 * used, current)
                               ELSE Truncated(-100 * used, -current)

\* The share of the total that is to be allocated at a request level, in percent.
ExpectedAllocatePercent(total, level) ==
    LET minPercent == Max({60, (7000 - total) \div 100})
    IN  (level * (100 - minPercent)) \div 100 + minPercent

TargetLevel(total, level, used) ==
    LET expectTotalLevel == (level * 95) \div 100 + 5
        expected == (expectTotalLevel * 100) \div ExpectedAllocatePercent(total, level)
    IN  Min({expected + Root(100 * used, total), 100})

\* Numbers from here on are in units of 1 / Scale(clients).
Scale(clients) == 1000 * Max({clients, 1})

\* The quota of a new gateway.
InitialQuota(remaining, clients) ==
    IF clients <= 10 THEN remaining * (Scale(clients) \div 20) ELSE remaining * 1000

IdleQuotaKept(up, current, clients) == current * Scale(clients)

\* The quota of a gateway without requests approaches its share of what is to be allocated.
IdleQuota(up, current, clients) ==
    LET scale == Scale(clients)
        remaining == up.total - up.allocated
        percent == ExpectedAllocatePercent(up.total, up.level)
        upper == ((1400 * up.total + scale) \div (2 * scale)) * scale
        increased == current * scale + 3 * remaining * (scale \div 10)
        reduce == 2 * current * (scale \div 10)
        atLeast == Max({reduce, up.total * (scale \div 50), scale})
    IN  IF 100 * up.allocated < (percent - 5) * up.total
        THEN IF clients = 0 THEN increased ELSE Min({increased, upper})
        ELSE IF 100 * up.allocated >= percent * up.total
                  \/ (clients > 0 /\ current * scale > upper)
        THEN current * scale - IF reduce > 0 THEN atLeast ELSE reduce
        ELSE current * scale

\* Quota that is not used is taken back, a fifth of the gateway's at a time.
ReducedQuota(current, used, clients) ==
    LET scale == Scale(clients)
        reduce == Min({2 * current * (scale \div 10), (current - used) * scale})
    IN  current * scale - IF reduce > 0 THEN Max({reduce, scale}) ELSE reduce

IncreasedQuota(remaining, current, requestLevel, clients) ==
    LET scale == Scale(clients)
        delta == 3 * current * (scale \div 10) * IF requestLevel > 100 THEN 2 ELSE 1
    IN  current * scale + Min({delta, remaining * scale})

WantedQuota(up, current, used, clients) ==
    LET remaining == up.total - up.allocated
        reported == RequestLevel(used, current)
        level == IF used <= current /\ reported > 100 THEN (100 * used) \div current ELSE reported
        target == TargetLevel(up.total, up.level, used)
        reducing == IF target > 50 THEN target - 5 ELSE target
        increasing == IF target > 50 THEN target ELSE target + 5
    IN  CASE current = 0 -> InitialQuota(remaining, clients)
          [] current # 0 /\ level = 0 -> IdleQuota(up, current, clients)
          [] current # 0 /\ level # 0 /\ level < reducing -> ReducedQuota(current, used, clients)
          [] current # 0 /\ level # 0 /\ level >= increasing ->
               IncreasedQuota(remaining, current, level, clients)
          [] OTHER -> current * Scale(clients)

NextQuotaAtLeastOne(up, current, used, clients) ==
    LET scale == Scale(clients)
        fitting == Min({WantedQuota(up, current, used, clients),
                        (current + up.total - up.allocated) * scale})
        next == Max({fitting, scale, up.total * (scale \div 500)})
    IN  -((-next) \div scale)

\* No less than 1 and 0.2% of the total, no more than remains, rounded up.
NextQuota(up, current, used, clients) ==
    LET scale == Scale(clients)
        atLeast == Max({WantedQuota(up, current, used, clients), scale,
                        up.total * (scale \div 500)})
        next == Min({atLeast, (current + up.total - up.allocated) * scale})
    IN  -((-next) \div scale)

-----------------------------------------------------------------------------
(* UpdateRateLimitConditionStatus *)

UpstreamStateOfBusy(conditions) ==
    LET stored == {g \in Gateways : conditions[g] # Absent}
    IN  [total |-> upstream.total,
         allocated |-> SumFunction([g \in {h \in stored : conditions[h].used > 0} |-> conditions[g].quota]),
         level |-> (100 * SumFunction([g \in stored |-> conditions[g].used])) \div upstream.total]

\* calculateUpstreamCondition
UpstreamState(conditions) ==
    LET stored == {g \in Gateways : conditions[g] # Absent}
    IN  [total |-> upstream.total,
         allocated |-> SumFunction([g \in stored |-> conditions[g].quota]),
         level |-> (100 * SumFunction([g \in stored |-> conditions[g].used])) \div upstream.total]

AllocateUnlabelled(g, current, used, next) ==
    LET clients == Cardinality({h \in Gateways : beat[h] # "none"})
        old == condition[g]
        new == [quota |-> next, used |-> used, labelled |-> old # Absent /\ old.labelled]
    IN  /\ next = NextQuota(upstream, current, used, clients)
        /\ condition' = [condition EXCEPT ![g] = new]
        /\ upstream' = UpstreamState(condition')
        /\ UNCHANGED <<beat, counted, cleaning, sweep>>

\* The server handles a report of g and answers with next. The instance label comes from the
\* old condition, so the first condition of a gateway has none. All is under the upstream's
\* mutex: the state condition that is fetched before is the stored object itself.
Allocate(g, current, used, next) ==
    LET clients == Cardinality({h \in Gateways : beat[h] # "none"})
        new == [quota |-> next, used |-> used, labelled |-> condition[g] # Absent]
    IN  /\ next = NextQuota(upstream, current, used, clients)
        /\ condition' = [condition EXCEPT ![g] = new]
        /\ upstream' = UpstreamState(condition')
        /\ UNCHANGED <<beat, counted, cleaning, sweep>>

\* reconcile, every 2 seconds: report, and take over the answer.
Update(g) ==
    /\ status[g] = "alive"
    /\ \E used \in allowed.uses :
         LET clients == Cardinality({h \in Gateways : beat[h] # "none"})
             next == NextQuota(upstream, quota[g], used, clients)
         IN  Allocate(g, quota[g], used, next) /\ quota' = [quota EXCEPT ![g] = next]
    /\ round' = [round EXCEPT ![g] = ~@]
    /\ UNCHANGED <<status, late, allowed, faultless>>

\* The server handles the report and the answer is lost.
LoseAnswer(g) ==
    /\ status[g] = "alive"
    /\ Spend("losses")
    /\ \E used \in allowed.uses :
         LET clients == Cardinality({h \in Gateways : beat[h] # "none"})
         IN  Allocate(g, quota[g], used, NextQuota(upstream, quota[g], used, clients))
    /\ UNCHANGED <<status, quota, round, late>>

\* The gateway gives up an update that the server will handle later.
Delay(g) ==
    /\ status[g] = "alive"
    /\ late[g] = Absent
    /\ Spend("delays")
    /\ \E used \in allowed.uses : late' = [late EXCEPT ![g] = [current |-> quota[g], used |-> used]]
    /\ UNCHANGED <<status, quota, round, serverVars>>

HandleLate(g) ==
    /\ late[g] # Absent
    /\ LET clients == Cardinality({h \in Gateways : beat[h] # "none"})
       IN  Allocate(g, late[g].current, late[g].used,
                    NextQuota(upstream, late[g].current, late[g].used, clients))
    /\ late' = [late EXCEPT ![g] = Absent]
    /\ UNCHANGED <<status, quota, round, allowed, faultless>>

\* UpstreamConditionHandler: the schema's total changes, what is allocated is not looked at.
ChangeTotal ==
    /\ Spend("changes")
    /\ \E total \in allowed.totals \ {upstream.total} : upstream' = [upstream EXCEPT !.total = total]
    /\ UNCHANGED <<status, quota, round, condition, beat, counted, late, cleaning, sweep>>

-----------------------------------------------------------------------------
(* Gateways and their heartbeats *)

Join(g) ==
    /\ status[g] = "new"
    /\ g \in allowed.joining
    /\ status' = [status EXCEPT ![g] = "alive"]
    /\ UNCHANGED <<quota, round, late, serverVars, allowed, faultless>>

Die(g) ==
    /\ status[g] = "alive"
    /\ Spend("deaths")
    /\ status' = [status EXCEPT ![g] = "dead"]
    /\ UNCHANGED <<quota, round, late, serverVars>>

\* clientCache.Heartbeat
Heartbeat(g) ==
    /\ status[g] = "alive"
    /\ beat[g] # "fresh"
    /\ beat' = [beat EXCEPT ![g] = "fresh"]
    /\ UNCHANGED <<status, quota, round, late, condition, upstream, counted, cleaning, sweep, allowed, faultless>>

\* ClientHeartBeatTimeout goes by without a heartbeat.
Expire(g) ==
    /\ beat[g] = "fresh"
    /\ beat' = [beat EXCEPT ![g] = "expired"]
    /\ \/ status[g] = "dead" /\ UNCHANGED <<allowed, faultless>>
       \/ status[g] = "alive" /\ Spend("misses")
    /\ UNCHANGED <<status, quota, round, late, condition, upstream, counted, cleaning, sweep>>

\* DoAcquire: the server counts the requests in flight that a gateway reports. A call of a
\* gateway that died meanwhile may still arrive.
Acquire(g) ==
    /\ ~counted[g]
    /\ \/ status[g] = "alive" /\ UNCHANGED <<allowed, faultless>>
       \/ status[g] = "dead" /\ Spend("delays")
    /\ counted' = [counted EXCEPT ![g] = TRUE]
    /\ UNCHANGED <<status, quota, round, late, condition, upstream, beat, cleaning, sweep>>

-----------------------------------------------------------------------------
(* cleanupTimeoutClient, every second: the loop compares the heartbeat it has read, deletes  *)
(* the entry and leaves the rest to a goroutine, which finds conditions by their label.      *)

FindExpired(g) ==
    /\ cleaning[g] = "no"
    /\ beat[g] = "expired"
    /\ cleaning' = [cleaning EXCEPT ![g] = "found"]
    /\ UNCHANGED <<status, quota, round, late, condition, upstream, beat, counted, sweep, allowed, faultless>>

DeleteClient(g) ==
    /\ cleaning[g] = "found"
    /\ cleaning' = [cleaning EXCEPT ![g] = "forgetting"]
    /\ beat' = [beat EXCEPT ![g] = "none"]
    /\ UNCHANGED <<status, quota, round, late, condition, upstream, counted, sweep, allowed, faultless>>

\* deleteCondition, which the API server may fail, and deleteGlobalFlowControl
Forget(g) ==
    /\ cleaning[g] = "forgetting"
    /\ cleaning' = [cleaning EXCEPT ![g] = "no"]
    /\ counted' = [counted EXCEPT ![g] = FALSE]
    /\ \/ /\ condition' = IF condition[g] # Absent /\ condition[g].labelled
                          THEN [condition EXCEPT ![g] = Absent] ELSE condition
          /\ faultless' = (faultless /\ status[g] # "alive")
          /\ UNCHANGED allowed
       \/ Spend("failures") /\ UNCHANGED condition
    /\ UNCHANGED <<status, quota, round, late, upstream, beat, sweep>>

\* cleanupUnknownCondition, every 30 seconds
BeginSweep ==
    /\ allowed.cleanup
    /\ sweep = Absent
    /\ sweep' = {g \in Gateways : beat[g] # "none"}
    /\ UNCHANGED <<status, quota, round, late, condition, upstream, beat, counted, cleaning, allowed, faultless>>

EndSweepByLabel ==
    LET unknown == {g \in Stored \ sweep : condition[g].labelled}
    IN  /\ sweep # Absent
        /\ sweep' = Absent
        /\ counted' = [g \in Gateways |-> counted[g] /\ g \notin unknown]
        /\ condition' = [g \in Gateways |-> IF g \in unknown THEN Absent ELSE condition[g]]
        /\ faultless' = (faultless /\ \A g \in unknown : status[g] # "alive")
        /\ UNCHANGED <<status, quota, round, late, upstream, beat, cleaning, allowed>>

EndSweep ==
    LET unknown == Stored \ sweep
    IN  /\ sweep # Absent
        /\ sweep' = Absent
        /\ counted' = [g \in Gateways |-> counted[g] /\ g \notin unknown]
        /\ condition' = [g \in Gateways |-> IF g \in unknown THEN Absent ELSE condition[g]]
        /\ faultless' = (faultless /\ \A g \in unknown : status[g] # "alive")
        /\ UNCHANGED <<status, quota, round, late, upstream, beat, cleaning, allowed>>

-----------------------------------------------------------------------------
Cleanup(g) == FindExpired(g) \/ DeleteClient(g) \/ Forget(g)

QuotaNext ==
    \/ \E g \in Gateways :
         \/ Join(g) \/ Die(g) \/ Heartbeat(g) \/ Expire(g) \/ Acquire(g)
         \/ Update(g) \/ LoseAnswer(g) \/ Delay(g) \/ HandleLate(g)
         \/ Cleanup(g)
    \/ ChangeTotal \/ BeginSweep \/ EndSweep

\* Gateways reconcile, report and send heartbeats by timers, and the server's cleanups run by
\* timers.  A dead gateway's heartbeat gets old, and an update does not stay on its way.
QuotaFairness ==
    /\ \A g \in Gateways :
         /\ []<>(status[g] # "alive") \/ []<><<round'[g] # round[g]>>_quotaVars
         /\ []<>(late[g] = Absent)
         /\ WF_quotaVars(Heartbeat(g))
         /\ WF_quotaVars(status[g] = "alive" /\ Acquire(g))
         /\ WF_quotaVars(status[g] = "dead" /\ Expire(g))
         /\ WF_quotaVars(Cleanup(g))
    /\ WF_quotaVars(BeginSweep \/ EndSweep)

-----------------------------------------------------------------------------
Alive == {g \in Gateways : status[g] = "alive"}

\* calculateNextQuota: as long as answers arrive, the total stays and no live gateway is
\* cleaned up, the quotas of the gateways fit the total, with all minima and rounding up.
QuotaFits == faultless => SumFunctionOnSet(quota, Alive) <= upstream.total

\* However many answers were lost, updates delayed, totals lowered and conditions cleaned up
\* by mistake: once that ends the quotas of the gateways fit the total, unless the lower total
\* has left one of them with a negative quota, which other gateways that use all of theirs
\* do not make up for (remoteWrapper.Sync takes it for an uint32, so it limits nothing).
QuotaHeals ==
    <>[]((\A g \in Alive : quota[g] >= 0) => SumFunctionOnSet(quota, Alive) <= upstream.total)

\* A gateway that was left without quota, or with less than none, gets some when the others
\* stop using theirs.
IdleRecovers ==
    <>[](\A g \in Stored : condition[g].used = 0) => <>[](\A g \in Alive : quota[g] >= 1)

\* cleanupTimeoutClient, cleanupUnknownCondition: a dead gateway's condition does not stay,
\* labelled or not, and neither do its counted requests if the server knew of the gateway
\* when it counted them.
ClientForgotten ==
    \A g \in Gateways :
        (status[g] = "dead" /\ (condition[g] # Absent \/ beat[g] # "none"))
          ~> (condition[g] = Absent /\ ~counted[g])

\* A gateway that is cleaned up although it is alive is known again in the end: its condition
\* has the label, and its requests are counted.
ClientRestored ==
    \A g \in Gateways :
        <>[](status[g] = "alive") =>
            <>[](condition[g] # Absent /\ condition[g].labelled /\ counted[g])
=============================================================================
