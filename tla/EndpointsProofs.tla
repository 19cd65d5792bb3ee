--------------------------- MODULE EndpointsProofs ---------------------------
(***************************************************************************)
(* Proofs about Endpoints, for any number of servers, EndpointInfo         *)
(* objects, health check generations and requests.                         *)
(***************************************************************************)
EXTENDS Endpoints, FiniteSetTheorems, TLAPS

\* The states of the requests.
ReqType == [pc : {"idle", "admitted", "picked", "proxying"},
            object : Objects \union {Nil}, transport : 0..MaxResets]

\* EndpointInfo objects.
ObjType == [endpoint : Endpoints \union {Nil}, disabled : BOOLEAN, healthy : BOOLEAN,
            unhealthyCount : 0..ResetTransportThreshold, transport : 0..MaxResets,
            live : BOOLEAN]

\* What ServeHTTP keeps: the tokens are counted, and a request that was given an
\* endpoint has one.
ReqIInv ==
    /\ inflight \in 0..MaxInflight
    /\ req \in [Requests -> ReqType]
    /\ TokensBalanced
    /\ \A q \in Requests : req[q].pc \in {"picked", "proxying"} => req[q].object \in Objects

\* The shape of the variables of the endpoints and their health checks.
HealthType ==
    /\ server \in [Endpoints -> {"up", "down", "hung"}]
    /\ epMap \in [Endpoints -> Objects \union {Nil}]
    /\ obj \in [Objects -> ObjType]
    /\ slot \in [Objects -> BOOLEAN]
    /\ check \in [Objects -> 0..MaxGen]
    /\ ticker \in [Objects -> [Gens -> {"off", "send", "wait", "exited"}]]
    /\ checker \in [Objects -> [Gens -> {"off", "idle", "up", "down", "hung", "exited"}]]
    /\ todo \subseteq Endpoints /\ disabled \subseteq Endpoints /\ stopped \in BOOLEAN

\* The map never shares an object, and every object in it has the health check that its
\* state asks for, also while syncEndpoints is running.
Mapped ==
    \A e \in Endpoints : epMap[e] # Nil =>
        /\ obj[epMap[e]].endpoint = e
        /\ obj[epMap[e]].live = ~stopped
        /\ check[epMap[e]] # 0 <=> ~obj[epMap[e]].disabled

\* A generation that is not cancelled runs.
CurrentRuns == \A o \in Objects : obj[o].live /\ check[o] # 0 => Running(o, check[o])

\* The context of an object that left the map is cancelled.
LiveMapped == \A o \in Objects : obj[o].live => \E e \in Endpoints : epMap[e] = o

\* A health check knows the address of its server.
Addressed == \A o \in Objects : \A g \in Gens :
                checker[o][g] # "off" => obj[o].endpoint \in Endpoints

\* syncEndpoints is not running any more when the cluster is stopped.
StoppedLast == stopped => todo = {}

HealthIInv == HealthType /\ Mapped /\ CurrentRuns /\ LiveMapped /\ Addressed /\ StoppedLast

\* OneHealthCheck says nothing of the endpoints that syncEndpoints has still to visit, and
\* the type of inflight depends on the tokens; together they are inductive.
EpIInv == ReqIInv /\ HealthIInv

\* A request takes a token and one becomes busy.
LEMMA TakesToken ==
    ASSUME ReqIInv, NEW q \in Requests, req[q].pc = "idle", inflight < MaxInflight,
           inflight' = inflight + 1, req' \in [Requests -> ReqType], req'[q].pc # "idle",
           \A p \in Requests \ {q} : req'[p] = req[p]
    PROVE  inflight' \in 0..MaxInflight /\ TokensBalanced'
<1> DEFINE Busy == {p \in Requests : req[p].pc # "idle"}
<1>1. IsFiniteSet(Busy) /\ q \notin Busy /\ Busy' = Busy \union {q}
      BY FS_Subset, EndpointsAssumption
<1>2. inflight = Cardinality(Busy)
      BY DEF ReqIInv, TokensBalanced
<1>3. Cardinality(Busy') = Cardinality(Busy) + 1
  <2> HIDE DEF Busy
  <2> QED
      BY <1>1, FS_AddElement, Zenon
<1>4. inflight' \in 0..MaxInflight
      BY EndpointsAssumption DEF ReqIInv
<1> QED
    BY <1>2, <1>3, <1>4 DEF TokensBalanced

\* A request that returns its token had one.
LEMMA ReturnsToken ==
    ASSUME ReqIInv, NEW q \in Requests, req[q].pc # "idle", Return(q)
    PROVE  ReqIInv'
<1> DEFINE Busy == {p \in Requests : req[p].pc # "idle"}
<1>0. Idle \in ReqType /\ Idle.pc = "idle"
      BY EndpointsAssumption DEF Idle, ReqType
<1>1. /\ req' \in [Requests -> ReqType] /\ req'[q] = Idle
      /\ \A p \in Requests \ {q} : req'[p] = req[p]
      BY <1>0 DEF Return, ReqIInv
<1>2. IsFiniteSet(Busy) /\ q \in Busy
      BY FS_Subset, EndpointsAssumption
<1>3. Busy' = Busy \ {q}
      BY <1>0, <1>1
<1>4. /\ Cardinality(Busy') = Cardinality(Busy) - 1
      /\ Cardinality(Busy) \in Nat /\ Cardinality(Busy') \in Nat
  <2> HIDE DEF Busy
  <2>1. IsFiniteSet(Busy \ {q})
        BY <1>2, FS_Subset
  <2> QED
      BY <1>2, <1>3, <2>1, FS_RemoveElement, FS_CardinalityType
<1>5. inflight = Cardinality(Busy) /\ inflight \in 0..MaxInflight
      BY DEF ReqIInv, TokensBalanced
<1>6. inflight' = Cardinality(Busy') /\ inflight' \in 0..MaxInflight
  <2> HIDE DEF Busy
  <2> QED
      BY <1>4, <1>5, EndpointsAssumption DEF Return
<1>7. \A p \in Requests : req'[p].pc \in {"picked", "proxying"} => req'[p].object \in Objects
      BY <1>0, <1>1 DEF ReqIInv
<1> QED
    BY <1>1, <1>6, <1>7 DEF ReqIInv, TokensBalanced

\* A request that stays busy keeps its token.
LEMMA KeepsToken ==
    ASSUME ReqIInv, NEW q \in Requests, req[q].pc # "idle", UNCHANGED inflight,
           NEW r \in ReqType, r.pc # "idle", r.object \in Objects,
           req' = [req EXCEPT ![q] = r]
    PROVE  ReqIInv'
<1>1. /\ req' \in [Requests -> ReqType] /\ req'[q] = r
      /\ \A p \in Requests \ {q} : req'[p] = req[p]
      BY DEF ReqIInv
<1>2. {p \in Requests : req[p].pc # "idle"}' = {p \in Requests : req[p].pc # "idle"}
      BY <1>1
<1>3. TokensBalanced'
      BY <1>2, Zenon DEF ReqIInv, TokensBalanced
<1>4. \A p \in Requests : req'[p].pc \in {"picked", "proxying"} => req'[p].object \in Objects
      BY <1>1 DEF ReqIInv
<1> QED
    BY <1>1, <1>3, <1>4 DEF ReqIInv

\* What requests do leaves the endpoints alone, but for a signal to a health check.
LEMMA HealthFrame ==
    ASSUME HealthIInv, slot' \in [Objects -> BOOLEAN],
           UNCHANGED <<server, epMap, obj, check, ticker, checker, syncVars>>
    PROVE  HealthIInv'
BY DEF HealthIInv, HealthType, Mapped, CurrentRuns, Running, LiveMapped, Addressed,
       StoppedLast, syncVars

\* And the other way round.
LEMMA ReqFrame ==
    ASSUME ReqIInv, UNCHANGED reqVars
    PROVE  ReqIInv'
BY DEF ReqIInv, TokensBalanced, reqVars

\* Every step of ServeHTTP.
LEMMA ServeHTTPStep ==
    ASSUME EpIInv, NEW q \in Requests, ServeHTTP(q)
    PROVE  EpIInv'
<1>0. /\ ReqIInv /\ HealthIInv /\ req \in [Requests -> ReqType]
      /\ slot \in [Objects -> BOOLEAN] /\ obj \in [Objects -> ObjType]
      BY DEF EpIInv, ReqIInv, HealthIInv, HealthType
<1>1. CASE Admit(q)
  <2>1. [req[q] EXCEPT !.pc = "admitted"] \in ReqType
        BY <1>0 DEF ReqType
  <2>2. /\ req' \in [Requests -> ReqType] /\ req'[q].pc = "admitted"
        /\ \A p \in Requests \ {q} : req'[p] = req[p]
        BY <1>0, <1>1, <2>1 DEF Admit, ReqType
  <2>3. inflight' \in 0..MaxInflight /\ TokensBalanced'
        BY <1>0, <1>1, <2>2, TakesToken DEF Admit
  <2>4. ReqIInv'
        BY <2>2, <2>3, <1>0 DEF ReqIInv
  <2>5. HealthIInv'
        BY <1>0, <1>1, HealthFrame DEF Admit, checkVars
  <2> QED
      BY <2>4, <2>5 DEF EpIInv
<1>2. ASSUME req[q].pc # "idle", Return(q), slot' \in [Objects -> BOOLEAN],
             UNCHANGED <<server, epMap, obj, check, ticker, checker, syncVars>>
      PROVE  EpIInv'
      BY <1>0, <1>2, ReturnsToken, HealthFrame DEF EpIInv
<1>3. CASE Pop(q)
  <2>1. CASE ReadyObjects = {} /\ Return(q)
        BY <1>0, <1>2, <1>3, <2>1 DEF Pop, checkVars
  <2>2. ASSUME NEW o \in ReadyObjects, UNCHANGED inflight,
               req' = [req EXCEPT ![q] = [@ EXCEPT !.pc = "picked", !.object = o]]
        PROVE  EpIInv'
    <3> DEFINE r == [req[q] EXCEPT !.pc = "picked", !.object = o]
    <3>1. o \in Objects /\ req' = [req EXCEPT ![q] = r]
          BY <2>2 DEF ReadyObjects
    <3>2. r \in ReqType /\ r.pc = "picked" /\ r.object = o
          BY <1>0, <3>1, Zenon DEF ReqType
    <3> HIDE DEF r
    <3>3. ReqIInv'
          BY <1>0, <1>3, <2>2, <3>1, <3>2, KeepsToken, Zenon DEF Pop
    <3>4. HealthIInv'
          BY <1>0, <1>3, HealthFrame, Zenon DEF Pop, checkVars
    <3> QED
        BY <3>3, <3>4 DEF EpIInv
  <2> QED
      BY <1>3, <2>1, <2>2, Zenon DEF Pop
<1>4. CASE Proxy(q)
  <2> DEFINE n == obj[req[q].object].transport
             r == [req[q] EXCEPT !.pc = "proxying", !.transport = n]
  <2>1. req[q].object \in Objects /\ n \in 0..MaxResets
        BY <1>0, <1>4 DEF Proxy, ReqIInv, ObjType
  <2>2. req' = [req EXCEPT ![q] = r]
        BY <1>0, <1>4, Zenon DEF Proxy, ReqType
  <2> HIDE DEF n
  <2>3. r \in ReqType /\ r.pc = "proxying" /\ r.object = req[q].object
        BY <1>0, <2>1, Zenon DEF ReqType
  <2> HIDE DEF r
  <2>4. ReqIInv'
        BY <1>0, <1>4, <2>1, <2>2, <2>3, KeepsToken, Zenon DEF Proxy
  <2>5. HealthIInv'
        BY <1>0, <1>4, HealthFrame DEF Proxy, checkVars
  <2> QED
      BY <2>4, <2>5 DEF EpIInv
<1>5. CASE Complete(q)
      BY <1>0, <1>2, <1>5 DEF Complete, checkVars
<1>6. CASE Refused(q)
  <2>1. slot' \in [Objects -> BOOLEAN]
        BY <1>0, <1>6, Zenon DEF Refused
  <2> QED
      BY <1>0, <1>2, <1>6, <2>1 DEF Refused
<1>7. CASE Cancelled(q)
      BY <1>0, <1>2, <1>7 DEF Cancelled, checkVars
<1> QED
    BY <1>1, <1>3, <1>4, <1>5, <1>6, <1>7 DEF ServeHTTP

\* A step of goroutines of one generation that leaves the other generations and the
\* state that syncEndpoints writes alone keeps everything, provided that the goroutines
\* of the current generation do not end.
LEMMA GoroutineStep ==
    ASSUME EpIInv, NEW o \in Objects, NEW g \in Gens,
           UNCHANGED <<server, epMap, check, syncVars, reqVars>>,
           slot' \in [Objects -> BOOLEAN],
           obj' \in [Objects -> ObjType],
           \A p \in Objects : /\ obj'[p].endpoint = obj[p].endpoint
                             /\ obj'[p].disabled = obj[p].disabled
                             /\ obj'[p].live = obj[p].live,
           NEW t \in {"off", "send", "wait", "exited"},
           NEW c \in {"off", "idle", "up", "down", "hung", "exited"},
           ticker' = [ticker EXCEPT ![o][g] = t],
           checker' = [checker EXCEPT ![o][g] = c],
           c # "off" => checker[o][g] # "off",
           Running(o, g) /\ ~CtxDone(o, g)
              => t \in {"send", "wait"} /\ c \notin {"off", "exited"}
    PROVE  EpIInv'
<1>0. /\ HealthType /\ Mapped /\ CurrentRuns /\ LiveMapped /\ Addressed /\ StoppedLast
      BY DEF EpIInv, HealthIInv
<1>1. ReqIInv'
      BY ReqFrame DEF EpIInv
<1>2. /\ ticker' \in [Objects -> [Gens -> {"off", "send", "wait", "exited"}]]
      /\ ticker'[o][g] = t
      /\ \A p \in Objects, n \in Gens : p # o \/ n # g => ticker'[p][n] = ticker[p][n]
      BY <1>0 DEF HealthType
<1>3. /\ checker' \in [Objects -> [Gens -> {"off", "idle", "up", "down", "hung", "exited"}]]
      /\ checker'[o][g] = c
      /\ \A p \in Objects, n \in Gens : p # o \/ n # g => checker'[p][n] = checker[p][n]
      BY <1>0 DEF HealthType
<1>4. HealthType'
      BY <1>0, <1>2, <1>3 DEF HealthType, syncVars
<1>5. Mapped'
      BY <1>0 DEF Mapped, HealthType, syncVars
<1>6. CurrentRuns'
  <2> SUFFICES ASSUME NEW p \in Objects, obj[p].live, check[p] # 0
               PROVE  Running(p, check[p])'
      BY DEF CurrentRuns
  <2>1. Running(p, check[p]) /\ check[p] \in Gens
        BY <1>0 DEF CurrentRuns, HealthType, Gens
  <2>2. CASE p = o /\ check[p] = g
        BY <2>1, <2>2, <1>2, <1>3 DEF Running, CtxDone
  <2>3. CASE p # o \/ check[p] # g
    <3>1. /\ ticker'[p][check[p]] = ticker[p][check[p]]
          /\ checker'[p][check[p]] = checker[p][check[p]]
          BY <2>1, <2>3, <1>2, <1>3
    <3> QED
        BY <2>1, <3>1 DEF Running
  <2> QED
      BY <2>2, <2>3
<1>7. LiveMapped' /\ StoppedLast'
      BY <1>0 DEF LiveMapped, StoppedLast, syncVars
<1>8. Addressed'
      BY <1>0, <1>3 DEF Addressed
<1> QED
    BY <1>1, <1>4, <1>5, <1>6, <1>7, <1>8 DEF EpIInv, HealthIInv

\* Replacing an element by itself.
LEMMA SameElement ==
    ASSUME NEW S, NEW T, NEW V, NEW f \in [S -> [T -> V]], NEW x, NEW y
    PROVE  f = [f EXCEPT ![x][y] = f[x][y]]
OBVIOUS

\* Every step of the goroutines that startGatewayHealthCheck starts.
LEMMA HealthStep ==
    ASSUME EpIInv, NEW o \in Objects, NEW g \in Gens, Health(o, g)
    PROVE  EpIInv'
<1>0. HealthType /\ Addressed
      BY DEF EpIInv, HealthIInv
<1>1. /\ ticker = [ticker EXCEPT ![o][g] = ticker[o][g]]
      /\ checker = [checker EXCEPT ![o][g] = checker[o][g]]
      BY <1>0, SameElement DEF HealthType
<1>2. /\ obj \in [Objects -> ObjType] /\ slot \in [Objects -> BOOLEAN]
      /\ ticker[o][g] \in {"off", "send", "wait", "exited"}
      /\ checker[o][g] \in {"off", "idle", "up", "down", "hung", "exited"}
      BY <1>0 DEF HealthType
<1>3. CASE TickerSends(o, g)
  <2>1. slot' \in [Objects -> BOOLEAN]
        BY <1>2, <1>3 DEF TickerSends
  <2> QED
      BY <1>1, <1>2, <1>3, <2>1, GoroutineStep, Zenon DEF TickerSends, Running
<1>4. CASE TickerWakes(o, g)
  <2>1. PICK next \in {"send"} \union (IF CtxDone(o, g) THEN {"exited"} ELSE {}) :
               ticker' = [ticker EXCEPT ![o][g] = next]
        BY <1>4, Zenon DEF TickerWakes
  <2>2. QED
    <3>1. /\ next \in {"send", "exited"} /\ (~CtxDone(o, g) => next = "send")
          /\ checker' = [checker EXCEPT ![o][g] = checker[o][g]] /\ ticker[o][g] = "wait"
          /\ UNCHANGED <<server, epMap, obj, slot, check, syncVars, reqVars>>
          BY <1>1, <1>4, <2>1 DEF TickerWakes
    <3>2. Running(o, g) => checker[o][g] \notin {"off", "exited"}
          BY DEF Running
    <3> QED
        BY <1>2, <2>1, <3>1, <3>2, GoroutineStep, Zenon
<1>5. CASE CheckerReceives(o, g)
  <2>1. slot' \in [Objects -> BOOLEAN]
        BY <1>2, <1>5 DEF CheckerReceives
  <2>2. server[obj[o].endpoint] \in {"up", "down", "hung"}
        BY <1>0, <1>5 DEF CheckerReceives, Addressed, HealthType
  <2> QED
      BY <1>1, <1>2, <1>5, <2>1, <2>2, GoroutineStep, Zenon DEF CheckerReceives, Running
<1>6. CASE CheckerExits(o, g)
      BY <1>1, <1>2, <1>6, GoroutineStep, Zenon DEF CheckerExits, Running
<1>7. CASE CheckerReports(o, g)
  <2>1. PICK h \in BOOLEAN, n \in 0..ResetTransportThreshold, t \in 0..MaxResets :
               obj' = [obj EXCEPT ![o] = [@ EXCEPT !.healthy = h, !.unhealthyCount = n,
                                                   !.transport = t]]
    <3> DEFINE h == checker[o][g] = "up"
               n == IF h THEN 0
                    ELSE IF obj[o].unhealthyCount < ResetTransportThreshold
                         THEN obj[o].unhealthyCount + 1 ELSE ResetTransportThreshold
               resets == /\ checker[o][g] = "hung"
                         /\ n = ResetTransportThreshold
                         /\ obj[o].transport < MaxResets
               t == IF resets THEN obj[o].transport + 1 ELSE obj[o].transport
    <3>1. obj[o].unhealthyCount \in 0..ResetTransportThreshold /\ obj[o].transport \in 0..MaxResets
          BY <1>2 DEF ObjType
    <3>2. h \in BOOLEAN
          OBVIOUS
    <3>3. n \in 0..ResetTransportThreshold
          BY <3>1, EndpointsAssumption
    <3>4. t \in 0..MaxResets
          BY <3>1, EndpointsAssumption
    <3>5. obj' = [obj EXCEPT ![o] = [@ EXCEPT !.healthy = h, !.unhealthyCount = n,
                                              !.transport = t]]
          BY <1>7, <1>2, Zenon DEF CheckerReports, ObjType
    <3> HIDE DEF h, n, t
    <3> QED
        BY <3>2, <3>3, <3>4, <3>5, Zenon
  <2>2. obj' \in [Objects -> ObjType]
        BY <1>2, <2>1, Zenon DEF ObjType
  <2>3. \A p \in Objects : /\ obj'[p].endpoint = obj[p].endpoint
                           /\ obj'[p].disabled = obj[p].disabled
                           /\ obj'[p].live = obj[p].live
        BY <1>2, <2>1 DEF ObjType
  <2>4. /\ checker[o][g] \in {"up", "down", "hung"}
        /\ checker' = [checker EXCEPT ![o][g] = "idle"]
        /\ UNCHANGED <<server, epMap, slot, check, ticker, syncVars, reqVars>>
        BY <1>7 DEF CheckerReports
  <2> QED
      BY <1>1, <1>2, <2>2, <2>3, <2>4, GoroutineStep, Zenon DEF Running
<1> QED
    BY <1>3, <1>4, <1>5, <1>6, <1>7 DEF Health

\* The first part of syncEndpoints.
LEMMA SyncEndpointsStep ==
    ASSUME EpIInv, NEW wanted \in SUBSET Endpoints, NEW off \in SUBSET wanted,
           SyncEndpoints(wanted, off)
    PROVE  EpIInv'
<1> DEFINE deleted == {e \in Endpoints \ wanted : epMap[e] # Nil}
<1>0. /\ HealthType /\ Mapped /\ CurrentRuns /\ LiveMapped /\ Addressed /\ StoppedLast
      BY DEF EpIInv, HealthIInv
<1>1. /\ epMap' = [e \in Endpoints |-> IF e \in deleted THEN Nil ELSE epMap[e]]
      /\ obj' = [o \in Objects |-> [obj[o] EXCEPT !.live =
                                        @ /\ ~\E e \in deleted : epMap[e] = o]]
      /\ todo' = wanted /\ disabled' = off /\ ~stopped
      /\ UNCHANGED <<server, slot, check, ticker, checker, stopped, reqVars>>
      BY DEF SyncEndpoints, checkVars
<1>2. deleted \subseteq Endpoints
      OBVIOUS
<1> HIDE DEF deleted
<1>3. obj \in [Objects -> ObjType] /\ epMap \in [Endpoints -> Objects \union {Nil}]
      BY <1>0 DEF HealthType
<1> DEFINE kept == [o \in Objects |-> obj[o].live /\ ~\E e \in deleted : epMap[e] = o]
<1>4. /\ kept \in [Objects -> BOOLEAN]
      /\ obj' = [o \in Objects |-> [obj[o] EXCEPT !.live = kept[o]]]
      BY <1>1, <1>3 DEF ObjType
<1>5. obj' \in [Objects -> ObjType]
  <2> HIDE DEF kept
  <2>1. \A o \in Objects : [obj[o] EXCEPT !.live = kept[o]] \in ObjType
        BY <1>3, <1>4 DEF ObjType
  <2> QED
      BY <1>4, <2>1
<1>6. \A o \in Objects : /\ obj'[o].endpoint = obj[o].endpoint
                         /\ obj'[o].disabled = obj[o].disabled
                         /\ obj'[o].live = (obj[o].live /\ ~\E e \in deleted : epMap[e] = o)
      BY <1>1, <1>3 DEF ObjType
<1>7. HealthType'
  <2>1. epMap' \in [Endpoints -> Objects \union {Nil}]
        BY <1>1, <1>3
  <2>2. todo' \subseteq Endpoints /\ disabled' \subseteq Endpoints
        BY <1>1
  <2> QED
      BY <1>0, <1>1, <1>5, <2>1, <2>2 DEF HealthType
<1>8. Mapped'
  <2> SUFFICES ASSUME NEW e \in Endpoints, epMap'[e] # Nil
               PROVE  /\ obj'[epMap'[e]].endpoint = e
                      /\ obj'[epMap'[e]].live = ~stopped'
                      /\ check'[epMap'[e]] # 0 <=> ~obj'[epMap'[e]].disabled
      BY DEF Mapped
  <2>1. e \notin deleted /\ epMap'[e] = epMap[e] /\ epMap[e] \in Objects
        BY <1>1, <1>3
  <2>2. /\ obj[epMap[e]].endpoint = e /\ obj[epMap[e]].live = ~stopped
        /\ check[epMap[e]] # 0 <=> ~obj[epMap[e]].disabled
        BY <1>0, <2>1, EndpointsAssumption DEF Mapped
  <2>3. \A d \in deleted : epMap[d] # epMap[e]
        BY <1>0, <1>2, <2>1, <2>2, EndpointsAssumption DEF Mapped
  <2>4. obj'[epMap[e]].live
    <3>1. ~\E d \in deleted : epMap[d] = epMap[e]
          BY <2>3
    <3>2. obj[epMap[e]].live
          BY <1>1, <2>2, Zenon
    <3> QED
        BY <1>6, <2>1, <3>1, <3>2, Zenon
  <2>5. /\ obj'[epMap[e]].endpoint = obj[epMap[e]].endpoint
        /\ obj'[epMap[e]].disabled = obj[epMap[e]].disabled
        BY <1>6, <2>1
  <2>6. check' = check /\ ~stopped'
        BY <1>1
  <2>7. obj'[epMap[e]].live \in BOOLEAN
        BY <1>5, <2>1 DEF ObjType
  <2> QED
      BY <2>1, <2>2, <2>4, <2>5, <2>6, <2>7, Zenon
<1>9. CurrentRuns'
      BY <1>0, <1>1, <1>6, Zenon DEF CurrentRuns, Running
<1>10. LiveMapped'
  <2> SUFFICES ASSUME NEW o \in Objects, obj'[o].live
               PROVE  \E e \in Endpoints : epMap'[e] = o
      BY DEF LiveMapped
  <2>1. obj[o].live /\ ~\E e \in deleted : epMap[e] = o
        BY <1>6, Zenon
  <2>2. PICK e \in Endpoints : epMap[e] = o
        BY <1>0, <2>1 DEF LiveMapped
  <2> QED
      BY <1>1, <2>1, <2>2
<1>11. Addressed'
      BY <1>0, <1>1, <1>6 DEF Addressed
<1>12. StoppedLast' /\ ReqIInv'
      BY <1>1, ReqFrame DEF StoppedLast, EpIInv
<1> QED
    BY <1>7, <1>8, <1>9, <1>10, <1>11, <1>12 DEF EpIInv, HealthIInv

\* addOrUpdateEndpoint for a server that has an object.
LEMMA UpdateEndpointStep ==
    ASSUME EpIInv, NEW e \in Endpoints, AddOrUpdateEndpoint(e), epMap[e] # Nil
    PROVE  EpIInv'
<1> DEFINE o == epMap[e]
           off == e \in disabled
           g == LastGen(o) + 1
           starts == ~off /\ check[o] = 0
<1>0. /\ HealthType /\ Mapped /\ CurrentRuns /\ LiveMapped /\ Addressed /\ StoppedLast
      BY DEF EpIInv, HealthIInv
<1>1. o \in Objects
      BY <1>0 DEF HealthType
<1>2. /\ starts => g \in Gens
      /\ check' = [check EXCEPT ![o] = IF off THEN 0 ELSE IF starts THEN g ELSE @]
      /\ ticker' = IF starts THEN [ticker EXCEPT ![o][g] = "send"] ELSE ticker
      /\ checker' = IF starts THEN [checker EXCEPT ![o][g] = "idle"] ELSE checker
      /\ obj' = [obj EXCEPT ![o].disabled = off]
      /\ UNCHANGED <<server, epMap, slot, stopped, reqVars>>
      /\ todo' = todo \ {e} /\ disabled' = disabled \ {e} /\ e \in todo
      BY DEF AddOrUpdateEndpoint, EnsureGatewayHealthCheck
<1>3. off \in BOOLEAN /\ obj[o].endpoint = e /\ (check[o] # 0 <=> ~obj[o].disabled)
      BY <1>0 DEF Mapped
<1> HIDE DEF off, g
<1>4. /\ obj \in [Objects -> ObjType] /\ check \in [Objects -> 0..MaxGen]
      /\ epMap \in [Endpoints -> Objects \union {Nil}]
      BY <1>0 DEF HealthType
<1>5. /\ obj' \in [Objects -> ObjType]
      /\ \A p \in Objects : obj'[p].live = obj[p].live /\ obj'[p].endpoint = obj[p].endpoint
      /\ obj'[o].disabled = off
      /\ \A p \in Objects \ {o} : obj'[p] = obj[p]
      BY <1>1, <1>2, <1>3, <1>4 DEF ObjType
<1>6. /\ check' \in [Objects -> 0..MaxGen]
      /\ check'[o] # 0 <=> ~off
      /\ \A p \in Objects \ {o} : check'[p] = check[p]
  <2>1. (IF off THEN 0 ELSE IF starts THEN g ELSE check[o]) \in 0..MaxGen
        BY <1>1, <1>2, <1>4, EndpointsAssumption DEF Gens
  <2>2. (IF off THEN 0 ELSE IF starts THEN g ELSE check[o]) # 0 <=> ~off
        BY <1>2 DEF Gens
  <2> QED
      BY <1>1, <1>2, <1>4, <2>1, <2>2
<1>7. /\ ticker' \in [Objects -> [Gens -> {"off", "send", "wait", "exited"}]]
      /\ checker' \in [Objects -> [Gens -> {"off", "idle", "up", "down", "hung", "exited"}]]
      /\ \A p \in Objects \ {o} : ticker'[p] = ticker[p] /\ checker'[p] = checker[p]
      /\ ~starts => ticker' = ticker /\ checker' = checker
      /\ starts => ticker'[o][g] = "send" /\ checker'[o][g] = "idle"
      BY <1>0, <1>1, <1>2 DEF HealthType
<1>8. HealthType'
      BY <1>0, <1>2, <1>5, <1>6, <1>7 DEF HealthType
<1>9. Mapped'
  <2> SUFFICES ASSUME NEW d \in Endpoints, epMap[d] # Nil
               PROVE  /\ obj'[epMap[d]].endpoint = d
                      /\ obj'[epMap[d]].live = ~stopped
                      /\ check'[epMap[d]] # 0 <=> ~obj'[epMap[d]].disabled
      BY <1>2 DEF Mapped
  <2>1. epMap[d] \in Objects
        BY <1>4
  <2>2. /\ obj[epMap[d]].endpoint = d /\ obj[epMap[d]].live = ~stopped
        /\ check[epMap[d]] # 0 <=> ~obj[epMap[d]].disabled
        BY <1>0 DEF Mapped
  <2>3. CASE epMap[d] = o
        BY <1>5, <1>6, <2>1, <2>2, <2>3
  <2>4. CASE epMap[d] # o
        BY <1>5, <1>6, <2>1, <2>2, <2>4
  <2> QED
      BY <2>3, <2>4
<1>10. CurrentRuns'
  <2> SUFFICES ASSUME NEW p \in Objects, obj'[p].live, check'[p] # 0
               PROVE  Running(p, check[p])'
      BY DEF CurrentRuns
  <2>1. CASE p # o
        BY <1>0, <1>5, <1>6, <1>7, <2>1 DEF CurrentRuns, Running
  <2>2. CASE p = o /\ starts
    <3>1. check'[o] = g
          BY <1>1, <1>2, <1>4, <2>2
    <3> QED
        BY <1>7, <2>2, <3>1 DEF Running
  <2>3. CASE p = o /\ ~starts
    <3>1. check'[o] = check[o]
          BY <1>1, <1>2, <1>4, <1>6, <2>3
    <3> QED
        BY <1>0, <1>5, <1>7, <2>3, <3>1 DEF CurrentRuns, Running
  <2> QED
      BY <2>1, <2>2, <2>3
<1>11. LiveMapped'
      BY <1>0, <1>2, <1>5 DEF LiveMapped
<1>12. Addressed'
      BY <1>0, <1>1, <1>3, <1>5, <1>7 DEF Addressed
<1>13. StoppedLast' /\ ReqIInv'
      BY <1>0, <1>2, ReqFrame DEF StoppedLast, EpIInv
<1> QED
    BY <1>8, <1>9, <1>10, <1>11, <1>12, <1>13 DEF EpIInv, HealthIInv

\* addOrUpdateEndpoint for a server that has none: the object it creates is nobody's.
LEMMA AddEndpointStep ==
    ASSUME EpIInv, NEW e \in Endpoints, AddOrUpdateEndpoint(e), epMap[e] = Nil
    PROVE  EpIInv'
<1> DEFINE off == e \in disabled
           first == IF off THEN 0 ELSE 1
           ticks == [g \in Gens |-> IF g = 1 /\ ~off THEN "send" ELSE "off"]
           checks == [g \in Gens |-> IF g = 1 /\ ~off THEN "idle" ELSE "off"]
<1>0. /\ HealthType /\ Mapped /\ CurrentRuns /\ LiveMapped /\ Addressed /\ StoppedLast
      BY DEF EpIInv, HealthIInv
<1>1. PICK o \in Objects :
         /\ Collected(o)
         /\ obj' = [obj EXCEPT ![o] = NewObject(e, off)]
         /\ epMap' = [epMap EXCEPT ![e] = o]
         /\ check' = [check EXCEPT ![o] = first]
         /\ ticker' = [ticker EXCEPT ![o] = ticks]
         /\ checker' = [checker EXCEPT ![o] = checks]
         /\ slot' = [slot EXCEPT ![o] = FALSE]
      BY DEF AddOrUpdateEndpoint, FirstHealthCheck
<1>2. /\ UNCHANGED <<server, stopped, reqVars>> /\ e \in todo
      /\ todo' = todo \ {e} /\ disabled' = disabled \ {e}
      BY DEF AddOrUpdateEndpoint
<1>3. /\ obj \in [Objects -> ObjType] /\ check \in [Objects -> 0..MaxGen]
      /\ epMap \in [Endpoints -> Objects \union {Nil}]
      BY <1>0 DEF HealthType
<1>4. /\ off \in BOOLEAN /\ 1 \in Gens /\ first \in 0..MaxGen /\ (first # 0 <=> ~off)
      /\ ticks \in [Gens -> {"off", "send", "wait", "exited"}]
      /\ checks \in [Gens -> {"off", "idle", "up", "down", "hung", "exited"}]
      /\ first # 0 => /\ first = 1 /\ ticks[first] = "send" /\ checks[first] = "idle"
      BY EndpointsAssumption DEF Gens
<1> HIDE DEF off, first, ticks, checks
<1>5. /\ NewObject(e, off) \in ObjType /\ NewObject(e, off).endpoint = e
      /\ NewObject(e, off).disabled = off /\ NewObject(e, off).live = TRUE
      BY <1>4, EndpointsAssumption DEF NewObject, ObjType
<1>6. /\ obj' \in [Objects -> ObjType] /\ obj'[o] = NewObject(e, off)
      /\ \A p \in Objects \ {o} : obj'[p] = obj[p]
      BY <1>1, <1>3, <1>5
<1>7. /\ check' \in [Objects -> 0..MaxGen] /\ check'[o] = first
      /\ ticker'[o] = ticks /\ checker'[o] = checks
      /\ \A p \in Objects \ {o} : /\ check'[p] = check[p]
                                  /\ ticker'[p] = ticker[p] /\ checker'[p] = checker[p]
      BY <1>0, <1>1, <1>3, <1>4 DEF HealthType
<1>8. /\ epMap' \in [Endpoints -> Objects \union {Nil}] /\ epMap'[e] = o
      /\ \A d \in Endpoints \ {e} : epMap'[d] = epMap[d]
      /\ \A d \in Endpoints : epMap[d] # o
      BY <1>1, <1>3 DEF Collected
<1>9. HealthType'
  <2>1. /\ ticker' \in [Objects -> [Gens -> {"off", "send", "wait", "exited"}]]
        /\ checker' \in [Objects -> [Gens -> {"off", "idle", "up", "down", "hung", "exited"}]]
        /\ slot' \in [Objects -> BOOLEAN]
        BY <1>0, <1>1, <1>4 DEF HealthType
  <2> QED
      BY <1>0, <1>2, <1>6, <1>7, <1>8, <2>1 DEF HealthType
<1>10. Mapped'
  <2> SUFFICES ASSUME NEW d \in Endpoints, epMap'[d] # Nil
               PROVE  /\ obj'[epMap'[d]].endpoint = d
                      /\ obj'[epMap'[d]].live = ~stopped'
                      /\ check'[epMap'[d]] # 0 <=> ~obj'[epMap'[d]].disabled
      BY DEF Mapped
  <2>1. CASE d = e
    <3>1. ~stopped /\ ~stopped'
          BY <1>0, <1>2 DEF StoppedLast
    <3> QED
        BY <1>4, <1>5, <1>6, <1>7, <1>8, <2>1, <3>1, Zenon
  <2>2. CASE d # e
    <3>1. epMap'[d] = epMap[d] /\ epMap[d] \in Objects \ {o} /\ epMap[d] # Nil
          BY <1>3, <1>8, <2>2
    <3>2. /\ obj[epMap[d]].endpoint = d /\ obj[epMap[d]].live = ~stopped
          /\ check[epMap[d]] # 0 <=> ~obj[epMap[d]].disabled
          BY <1>0, <3>1 DEF Mapped
    <3> QED
        BY <1>2, <1>6, <1>7, <3>1, <3>2
  <2> QED
      BY <2>1, <2>2
<1>11. CurrentRuns'
  <2> SUFFICES ASSUME NEW p \in Objects, obj'[p].live, check'[p] # 0
               PROVE  Running(p, check[p])'
      BY DEF CurrentRuns
  <2>1. CASE p = o
        BY <1>4, <1>7, <2>1 DEF Running
  <2>2. CASE p # o
        BY <1>0, <1>6, <1>7, <2>2 DEF CurrentRuns, Running
  <2> QED
      BY <2>1, <2>2
<1>12. LiveMapped'
  <2> SUFFICES ASSUME NEW p \in Objects, obj'[p].live
               PROVE  \E d \in Endpoints : epMap'[d] = p
      BY DEF LiveMapped
  <2>1. CASE p = o
        BY <1>8, <2>1
  <2>2. CASE p # o
    <3>1. PICK d \in Endpoints : epMap[d] = p
          BY <1>0, <1>6, <2>2 DEF LiveMapped
    <3>2. d # e
          BY <3>1, EndpointsAssumption
    <3> QED
        BY <1>8, <3>1, <3>2
  <2> QED
      BY <2>1, <2>2
<1>13. Addressed'
      BY <1>0, <1>5, <1>6, <1>7 DEF Addressed
<1>14. StoppedLast' /\ ReqIInv'
      BY <1>0, <1>2, ReqFrame DEF StoppedLast, EpIInv
<1> QED
    BY <1>9, <1>10, <1>11, <1>12, <1>13, <1>14 DEF EpIInv, HealthIInv

\* Stop, when syncEndpoints has ended.
LEMMA StopStep ==
    ASSUME EpIInv, Stop
    PROVE  EpIInv'
<1>0. /\ HealthType /\ Mapped /\ CurrentRuns /\ LiveMapped /\ Addressed /\ StoppedLast
      BY DEF EpIInv, HealthIInv
<1>1. /\ obj' = [o \in Objects |-> [obj[o] EXCEPT !.live = FALSE]]
      /\ stopped' = TRUE /\ todo = {}
      /\ UNCHANGED <<server, epMap, slot, check, ticker, checker, todo, disabled, reqVars>>
      BY DEF Stop, checkVars
<1>2. /\ obj \in [Objects -> ObjType] /\ epMap \in [Endpoints -> Objects \union {Nil}]
      BY <1>0 DEF HealthType
<1>3. \A o \in Objects : /\ obj'[o] \in ObjType /\ ~obj'[o].live
                         /\ obj'[o].endpoint = obj[o].endpoint
                         /\ obj'[o].disabled = obj[o].disabled
      BY <1>1, <1>2, Zenon DEF ObjType
<1>4. HealthType'
      BY <1>0, <1>1, <1>3 DEF HealthType
<1>5. Mapped'
  <2> SUFFICES ASSUME NEW e \in Endpoints, epMap[e] # Nil
               PROVE  /\ obj'[epMap[e]].endpoint = e
                      /\ obj'[epMap[e]].live = FALSE
                      /\ check[epMap[e]] # 0 <=> ~obj'[epMap[e]].disabled
      BY <1>1, Zenon DEF Mapped
  <2>1. epMap[e] \in Objects
        BY <1>2
  <2>2. obj[epMap[e]].endpoint = e /\ (check[epMap[e]] # 0 <=> ~obj[epMap[e]].disabled)
        BY <1>0 DEF Mapped
  <2>3. obj'[epMap[e]].live = FALSE
        BY <1>1, <1>2, <2>1 DEF ObjType
  <2> QED
      BY <1>3, <2>1, <2>2, <2>3
<1>6. CurrentRuns' /\ LiveMapped' /\ Addressed' /\ StoppedLast'
      BY <1>0, <1>1, <1>3, Zenon DEF CurrentRuns, LiveMapped, Addressed, StoppedLast
<1> QED
    BY <1>1, <1>4, <1>5, <1>6, ReqFrame DEF EpIInv, HealthIInv

\* At first there is no endpoint and no request.
LEMMA InitEpIInv == Init => EpIInv
<1> SUFFICES ASSUME Init PROVE EpIInv
    OBVIOUS
<1> USE EndpointsAssumption
<1>1. Idle \in ReqType /\ Idle.pc = "idle"
      BY DEF Idle, ReqType
<1>2. ReqIInv
  <2>1. {q \in Requests : req[q].pc # "idle"} = {}
        BY <1>1 DEF Init
  <2>2. TokensBalanced
        BY <2>1, FS_EmptySet DEF TokensBalanced, Init
  <2> QED
      BY <1>1, <2>2 DEF ReqIInv, Init
<1> DEFINE none == [NewObject(Nil, FALSE) EXCEPT !.live = FALSE]
<1>3. none \in ObjType /\ none.live = FALSE
  <2>1. NewObject(Nil, FALSE) \in ObjType
        BY DEF NewObject, ObjType
  <2> QED
      BY <2>1, Zenon DEF ObjType
<1>7. obj = [o \in Objects |-> none]
      BY DEF Init
<1> HIDE DEF none
<1>4. HealthType
  <2>1. /\ ticker \in [Objects -> [Gens -> {"off", "send", "wait", "exited"}]]
        /\ checker \in [Objects -> [Gens -> {"off", "idle", "up", "down", "hung", "exited"}]]
        BY DEF Init
  <2>2. obj \in [Objects -> ObjType]
        BY <1>3, <1>7
  <2>3. slot = [o \in Objects |-> FALSE] /\ check = [o \in Objects |-> 0]
        BY DEF Init
  <2>4. slot \in [Objects -> BOOLEAN]
        BY <2>3
  <2>5. check \in [Objects -> 0..MaxGen]
        BY <2>3
  <2> QED
      BY <2>1, <2>2, <2>4, <2>5, Zenon DEF Init, HealthType
<1>5. /\ \A o \in Objects : ~obj[o].live
      /\ \A o \in Objects : \A g \in Gens : checker[o][g] = "off"
      BY <1>3, <1>7, Zenon DEF Init
<1>6. Mapped /\ CurrentRuns /\ LiveMapped /\ Addressed /\ StoppedLast
      BY <1>5, Zenon DEF Init, Mapped, CurrentRuns, LiveMapped, Addressed, StoppedLast
<1> QED
    BY <1>2, <1>4, <1>6 DEF EpIInv, HealthIInv

\* Every step of syncEndpoints, the health checks and the requests.
LEMMA NextEpIInv == EpIInv /\ [Next]_vars => EpIInv'
<1> SUFFICES ASSUME EpIInv, [Next]_vars PROVE EpIInv'
    OBVIOUS
<1>1. ASSUME NEW e \in Endpoints, ServerChanges(e) PROVE EpIInv'
  <2>1. /\ UNCHANGED <<epMap, obj, checkVars, syncVars, reqVars>>
        /\ server' \in [Endpoints -> {"up", "down", "hung"}]
        BY <1>1 DEF ServerChanges, EpIInv, HealthIInv, HealthType
  <2>2. HealthIInv'
        BY <2>1 DEF EpIInv, HealthIInv, HealthType, Mapped, CurrentRuns, Running,
                    LiveMapped, Addressed, StoppedLast, checkVars, syncVars
  <2> QED
      BY <2>1, <2>2, ReqFrame DEF EpIInv
<1>2. CASE UNCHANGED vars
  <2>1. HealthIInv'
        BY <1>2, HealthFrame DEF EpIInv, HealthIInv, HealthType, vars, checkVars
  <2> QED
      BY <1>2, <2>1, ReqFrame DEF EpIInv, vars
<1> QED
    BY <1>1, <1>2, UpdateEndpointStep, AddEndpointStep, SyncEndpointsStep, StopStep,
       HealthStep, ServeHTTPStep
    DEF Next

\* The inductive invariant holds throughout.
THEOREM EpInvariance == Spec => []EpIInv
<1> QED
    BY InitEpIInv, NextEpIInv, PTL DEF Spec

\* The variables keep their shape; in particular the flow control never admits more than
\* MaxInflight requests and never counts below zero.
THEOREM EpTypeCorrect == Spec => []EpTypeOK
<1>1. EpIInv => EpTypeOK
      BY DEF EpIInv, ReqIInv, ReqType, HealthIInv, HealthType, ObjType, EpTypeOK
<1> QED
    BY <1>1, EpInvariance, PTL

\* Whatever syncEndpoints and Stop were called with and however late a cancelled
\* goroutine is, an endpoint has exactly the health check that its state asks for.
THEOREM AlwaysOneHealthCheck == Spec => []OneHealthCheck
<1>1. EpIInv => OneHealthCheck
      BY DEF EpIInv, HealthIInv, Mapped, CurrentRuns, LiveMapped, OneHealthCheck
<1> QED
    BY <1>1, EpInvariance, PTL

\* On every path through ServeHTTP (no endpoint, refused, cancelled, completed) the flow
\* control gets its token back once.
THEOREM TokensAreBalanced == Spec => []TokensBalanced
<1>1. EpIInv => TokensBalanced
      BY DEF EpIInv, ReqIInv
<1> QED
    BY <1>1, EpInvariance, PTL
=============================================================================
