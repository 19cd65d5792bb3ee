------------------------------ MODULE Endpoints ------------------------------
(***************************************************************************)
(* The endpoints of one upstream cluster: Sync adds, disables and removes  *)
(* them, two goroutines per endpoint check its health, and the dispatcher  *)
(* picks a ready one for every request.                                    *)
(*                                                                         *)
(* A health check is a generation: disabling an endpoint cancels the       *)
(* current one, enabling it starts the next.  All generations of an        *)
(* EndpointInfo share its one-slot channel, and the goroutines of a        *)
(* cancelled one may still run next to those of its successor.  The        *)
(* round robin over several ready endpoints is a free choice here.         *)
(***************************************************************************)
EXTENDS Naturals, FiniteSets

CONSTANTS
    Endpoints,    \* addresses of backend servers
    Objects,      \* addresses of EndpointInfo objects
    Nil,          \* no object
    Requests,     \* request handlers running at a time
    MaxInflight,  \* the limit of the requests' flow control
    ResetTransportThreshold,  \* hung health checks in a row before a new transport
    MaxGen,       \* bound: health check generations of an object
    MaxResets     \* bound: transports an object can go through

ASSUME EndpointsAssumption ==
    /\ Nil \notin Objects
    /\ IsFiniteSet(Requests)
    /\ MaxInflight \in Nat /\ MaxResets \in Nat
    /\ MaxGen \in Nat \ {0} /\ ResetTransportThreshold \in Nat \ {0}

VARIABLES
    server,     \* each server: "up", "down", or "hung": it answers but never ends
    epMap,      \* ClusterInfo.Endpoints
    obj,        \* EndpointInfo: address, status and whether its context is alive
    slot,       \* whether healthCheckCh is full
    check,      \* the current generation, 0 when cancelHealthCheck is nil
    ticker,     \* the goroutine of each generation that sends to the channel
    checker,    \* the goroutine of each generation that receives and probes
    todo,       \* servers that a running syncEndpoints has yet to add or update
    disabled,   \* servers that it disables
    stopped,    \* ClusterInfo.Stop was called
    inflight,   \* requests that the flow control has admitted
    req         \* where each request is, its endpoint and transport

syncVars == <<todo, disabled, stopped>>
checkVars == <<slot, check, ticker, checker>>
reqVars == <<inflight, req>>
vars == <<server, epMap, obj, checkVars, syncVars, reqVars>>

Gens == 1..MaxGen
Idle == [pc |-> "idle", object |-> Nil, transport |-> 0]

\* An EndpointInfo as addOrUpdateEndpoint creates it.
NewObject(e, off) == [endpoint |-> e, disabled |-> off, healthy |-> FALSE,
                      unhealthyCount |-> 0, transport |-> 0, live |-> TRUE]

Init ==
    /\ server \in [Endpoints -> {"up", "down"}]
    /\ epMap = [e \in Endpoints |-> Nil]
    /\ obj = [o \in Objects |-> [NewObject(Nil, FALSE) EXCEPT !.live = FALSE]]
    /\ slot = [o \in Objects |-> FALSE]
    /\ check = [o \in Objects |-> 0]
    /\ ticker = [o \in Objects |-> [g \in Gens |-> "off"]]
    /\ checker = [o \in Objects |-> [g \in Gens |-> "off"]]
    /\ todo = {} /\ disabled = {} /\ stopped = FALSE
    /\ inflight = 0
    /\ req = [q \in Requests |-> Idle]

\* IsReady
IsReady(o) == ~obj[o].disabled /\ obj[o].healthy

\* The context of a generation is done: it was cancelled, or the object's was.
CtxDone(o, g) == ~obj[o].live \/ check[o] # g

ServerChanges(e) ==
    /\ \E s \in {"up", "down", "hung"} \ {server[e]} : server' = [server EXCEPT ![e] = s]
    /\ UNCHANGED <<epMap, obj, checkVars, syncVars, reqVars>>

-----------------------------------------------------------------------------
(* ClusterInfo.Sync, called by one goroutine; requests read the map meanwhile. *)

SyncEndpointsWithoutCancel(wanted, off) ==
    /\ todo = {}
    /\ ~stopped
    /\ epMap' = [e \in Endpoints |-> IF e \in wanted THEN epMap[e] ELSE Nil]
    /\ todo' = wanted
    /\ disabled' = off
    /\ UNCHANGED <<server, obj, checkVars, stopped, reqVars>>

\* The first part of syncEndpoints: removed servers are deleted and cancelled.
SyncEndpoints(wanted, off) ==
    LET deleted == {e \in Endpoints \ wanted : epMap[e] # Nil}
    IN  /\ todo = {}
        /\ ~stopped
        /\ epMap' = [e \in Endpoints |-> IF e \in deleted THEN Nil ELSE epMap[e]]
        /\ obj' = [o \in Objects |-> [obj[o] EXCEPT !.live =
                                        @ /\ ~\E e \in deleted : epMap[e] = o]]
        /\ todo' = wanted
        /\ disabled' = off
        /\ UNCHANGED <<server, checkVars, stopped, reqVars>>

LastGen(o) == Cardinality({g \in Gens : ticker[o][g] # "off"})

EnsureStartsOnce(o, off) ==
    /\ check' = IF off THEN [check EXCEPT ![o] = 0] ELSE check
    /\ UNCHANGED <<slot, ticker, checker>>

\* EnsureGatewayHealthCheck after SetDisabled(off), and startGatewayHealthCheck.
EnsureGatewayHealthCheck(o, off) ==
    LET g == LastGen(o) + 1
        starts == ~off /\ check[o] = 0
    IN  /\ starts => g \in Gens
        /\ check' = [check EXCEPT ![o] = IF off THEN 0 ELSE IF starts THEN g ELSE @]
        /\ ticker' = IF starts THEN [ticker EXCEPT ![o][g] = "send"] ELSE ticker
        /\ checker' = IF starts THEN [checker EXCEPT ![o][g] = "idle"] ELSE checker
        /\ UNCHANGED slot

\* The first generation of a new object; its memory may have been another's.
FirstHealthCheck(o, off) ==
    /\ check' = [check EXCEPT ![o] = IF off THEN 0 ELSE 1]
    /\ ticker' = [ticker EXCEPT ![o] =
                    [g \in Gens |-> IF g = 1 /\ ~off THEN "send" ELSE "off"]]
    /\ checker' = [checker EXCEPT ![o] =
                     [g \in Gens |-> IF g = 1 /\ ~off THEN "idle" ELSE "off"]]
    /\ slot' = [slot EXCEPT ![o] = FALSE]

\* Memory that no goroutine refers to any more.
Collected(o) ==
    /\ \A e \in Endpoints : epMap[e] # o
    /\ \A q \in Requests : req[q].object # o
    /\ \A g \in Gens : /\ ticker[o][g] \in {"off", "exited"}
                       /\ checker[o][g] \in {"off", "exited"}

\* addOrUpdateEndpoint
AddOrUpdateEndpoint(e) ==
    /\ e \in todo
    /\ todo' = todo \ {e}
    /\ disabled' = disabled \ {e}
    /\ LET off == e \in disabled
       IN  \/ /\ epMap[e] # Nil
              /\ obj' = [obj EXCEPT ![epMap[e]].disabled = off]
              /\ EnsureGatewayHealthCheck(epMap[e], off)
              /\ UNCHANGED epMap
           \/ /\ epMap[e] = Nil
              /\ \E o \in Objects :
                    /\ Collected(o)
                    /\ obj' = [obj EXCEPT ![o] = NewObject(e, off)]
                    /\ epMap' = [epMap EXCEPT ![e] = o]
                    /\ FirstHealthCheck(o, off)
    /\ UNCHANGED <<server, stopped, reqVars>>

\* ClusterInfo.Stop cancels the context that all endpoints derive theirs from.
Stop ==
    /\ todo = {}
    /\ ~stopped
    /\ stopped' = TRUE
    /\ obj' = [o \in Objects |-> [obj[o] EXCEPT !.live = FALSE]]
    /\ UNCHANGED <<server, epMap, checkVars, todo, disabled, reqVars>>

-----------------------------------------------------------------------------
(* startGatewayHealthCheck: the goroutines of generation g of object o.       *)

\* A send to healthCheckCh, which blocks while the slot is full.
TickerSends(o, g) ==
    /\ ticker[o][g] = "send"
    /\ ~slot[o]
    /\ slot' = [slot EXCEPT ![o] = TRUE]
    /\ ticker' = [ticker EXCEPT ![o][g] = "wait"]
    /\ UNCHANGED <<server, epMap, obj, check, checker, syncVars, reqVars>>

\* The select of the ticker: a tick, or the end when its context is done.
TickerWakes(o, g) ==
    /\ ticker[o][g] = "wait"
    /\ \E next \in {"send"} \union (IF CtxDone(o, g) THEN {"exited"} ELSE {}) :
          ticker' = [ticker EXCEPT ![o][g] = next]
    /\ UNCHANGED <<server, epMap, obj, slot, check, checker, syncVars, reqVars>>

\* The select of the checker: GatewayHealthCheck asks the server, or the end.
CheckerReceives(o, g) ==
    /\ checker[o][g] = "idle"
    /\ slot[o]
    /\ slot' = [slot EXCEPT ![o] = FALSE]
    /\ checker' = [checker EXCEPT ![o][g] = server[obj[o].endpoint]]
    /\ UNCHANGED <<server, epMap, obj, check, ticker, syncVars, reqVars>>

CheckerExits(o, g) ==
    /\ checker[o][g] = "idle"
    /\ CtxDone(o, g)
    /\ checker' = [checker EXCEPT ![o][g] = "exited"]
    /\ UNCHANGED <<server, epMap, obj, slot, check, ticker, syncVars, reqVars>>

CheckerReportsOnlySuccess(o, g) ==
    /\ checker[o][g] \in {"up", "down", "hung"}
    /\ obj' = [obj EXCEPT ![o].healthy = @ \/ checker[o][g] = "up"]
    /\ checker' = [checker EXCEPT ![o][g] = "idle"]
    /\ UNCHANGED <<server, epMap, slot, check, ticker, syncVars, reqVars>>

\* The rest of GatewayHealthCheck: UpdateStatus with what the server answered, and
\* ResetTransport when it has hung ResetTransportThreshold times in a row.
CheckerReports(o, g) ==
    LET healthy == checker[o][g] = "up"
        count == IF healthy THEN 0
                 ELSE IF obj[o].unhealthyCount < ResetTransportThreshold
                      THEN obj[o].unhealthyCount + 1 ELSE ResetTransportThreshold
        resets == /\ checker[o][g] = "hung"
                  /\ count = ResetTransportThreshold
                  /\ obj[o].transport < MaxResets
    IN  /\ checker[o][g] \in {"up", "down", "hung"}
        /\ obj' = [obj EXCEPT ![o].healthy = healthy, ![o].unhealthyCount = count,
                              ![o].transport = IF resets THEN @ + 1 ELSE @]
        /\ checker' = [checker EXCEPT ![o][g] = "idle"]
        /\ UNCHANGED <<server, epMap, slot, check, ticker, syncVars, reqVars>>

-----------------------------------------------------------------------------
(* dispatcher.ServeHTTP for request q.                                        *)

\* MatchAttributes and TryAcquire; a refused request is answered 429.
Admit(q) ==
    /\ req[q].pc = "idle"
    /\ inflight < MaxInflight
    /\ inflight' = inflight + 1
    /\ req' = [req EXCEPT ![q].pc = "admitted"]
    /\ UNCHANGED <<server, epMap, obj, checkVars, syncVars>>

ReturnWithoutRelease(q) == inflight' = inflight /\ req' = [req EXCEPT ![q] = Idle]

ReturnReleasesTwice(q) == inflight' = inflight - 2 /\ req' = [req EXCEPT ![q] = Idle]

\* The deferred Release.
Return(q) ==
    /\ inflight' = inflight - 1
    /\ req' = [req EXCEPT ![q] = Idle]

ReadyObjects == {o \in Objects : IsReady(o) /\ \E e \in Endpoints : epMap[e] = o}

\* Pop: a ready endpoint, or the request is answered 503.
Pop(q) ==
    /\ req[q].pc = "admitted"
    /\ \/ \E o \in ReadyObjects :
             /\ req' = [req EXCEPT ![q] = [@ EXCEPT !.pc = "picked", !.object = o]]
             /\ UNCHANGED inflight
       \/ ReadyObjects = {} /\ Return(q)
    /\ UNCHANGED <<server, epMap, obj, checkVars, syncVars>>

\* NewUpgradeAwareHandler takes the endpoint's transport of the moment.
Proxy(q) ==
    /\ req[q].pc = "picked"
    /\ req' = [req EXCEPT ![q].pc = "proxying", ![q].transport = obj[req[q].object].transport]
    /\ UNCHANGED <<server, epMap, obj, checkVars, syncVars, inflight>>

\* The server has answered, or the client has left.
Complete(q) ==
    /\ req[q].pc = "proxying"
    /\ Return(q)
    /\ UNCHANGED <<server, epMap, obj, checkVars, syncVars>>

\* The connection was refused: the error responder calls TriggerHealthCheck.
Refused(q) ==
    /\ req[q].pc = "proxying"
    /\ server[obj[req[q].object].endpoint] = "down"
    /\ slot' = [slot EXCEPT ![req[q].object] = TRUE]
    /\ Return(q)
    /\ UNCHANGED <<server, epMap, obj, check, ticker, checker, syncVars>>

CancelledByTransportOnly(q) ==
    /\ req[q].pc = "proxying"
    /\ obj[req[q].object].transport # req[q].transport
    /\ Return(q)
    /\ UNCHANGED <<server, epMap, obj, checkVars, syncVars>>

\* The endpoint's context is done, or its transport was closed: the request is
\* cancelled.
Cancelled(q) ==
    /\ req[q].pc = "proxying"
    /\ ~obj[req[q].object].live \/ obj[req[q].object].transport # req[q].transport
    /\ Return(q)
    /\ UNCHANGED <<server, epMap, obj, checkVars, syncVars>>

Health(o, g) == \/ TickerSends(o, g) \/ TickerWakes(o, g)
                \/ CheckerReceives(o, g) \/ CheckerExits(o, g) \/ CheckerReports(o, g)

ServeHTTP(q) == \/ Admit(q) \/ Pop(q) \/ Proxy(q)
                \/ Complete(q) \/ Refused(q) \/ Cancelled(q)

Next ==
    \/ \E e \in Endpoints : ServerChanges(e) \/ AddOrUpdateEndpoint(e)
    \/ \E wanted \in SUBSET Endpoints : \E off \in SUBSET wanted : SyncEndpoints(wanted, off)
    \/ Stop
    \/ \E o \in Objects, g \in Gens : Health(o, g)
    \/ \E q \in Requests : ServeHTTP(q)

Spec == Init /\ [][Next]_vars

\* Goroutines are scheduled, tickers tick, /healthz is answered within its timeout,
\* and a cancelled request returns.  A select with two ready cases chooses at
\* random, so a goroutine whose context is done does not run forever.
Fairness ==
    /\ \A e \in Endpoints : WF_vars(AddOrUpdateEndpoint(e))
    /\ \A o \in Objects, g \in Gens : /\ WF_vars(TickerSends(o, g))
                                      /\ WF_vars(TickerWakes(o, g))
                                      /\ WF_vars(CheckerReceives(o, g))
                                      /\ SF_vars(CheckerExits(o, g))
                                      /\ WF_vars(CheckerReports(o, g))
    /\ \A q \in Requests : WF_vars(Pop(q)) /\ WF_vars(Proxy(q)) /\ WF_vars(Cancelled(q))

FairSpec == Spec /\ Fairness

-----------------------------------------------------------------------------
\* The shape of every variable.
EpTypeOK ==
    /\ server \in [Endpoints -> {"up", "down", "hung"}]
    /\ epMap \in [Endpoints -> Objects \union {Nil}]
    /\ obj \in [Objects -> [endpoint : Endpoints \union {Nil}, disabled : BOOLEAN,
                            healthy : BOOLEAN, unhealthyCount : 0..ResetTransportThreshold,
                            transport : 0..MaxResets, live : BOOLEAN]]
    /\ slot \in [Objects -> BOOLEAN]
    /\ check \in [Objects -> 0..MaxGen]
    /\ ticker \in [Objects -> [Gens -> {"off", "send", "wait", "exited"}]]
    /\ checker \in [Objects -> [Gens -> {"off", "idle", "up", "down", "hung", "exited"}]]
    /\ todo \subseteq Endpoints /\ disabled \subseteq Endpoints /\ stopped \in BOOLEAN
    /\ inflight \in 0..MaxInflight
    /\ req \in [Requests -> [pc : {"idle", "admitted", "picked", "proxying"},
                             object : Objects \union {Nil}, transport : 0..MaxResets]]

\* The goroutines of generation g run.
Running(o, g) == ticker[o][g] \in {"send", "wait"} /\ checker[o][g] \notin {"off", "exited"}

\* However often it was disabled, enabled, removed and added again, an endpoint is
\* checked by exactly one generation that is not cancelled when it is enabled, and
\* by none otherwise; that generation's goroutines have not ended.
OneHealthCheck ==
    /\ \A e \in Endpoints \ todo : epMap[e] # Nil =>
          LET o == epMap[e]
          IN  /\ obj[o].endpoint = e
              /\ obj[o].live = ~stopped
              /\ check[o] # 0 <=> ~obj[o].disabled
    /\ \A o \in Objects : obj[o].live /\ check[o] # 0 => Running(o, check[o])
    /\ \A o \in Objects : obj[o].live => \E e \in Endpoints : epMap[e] = o

\* On every path through ServeHTTP the flow control gets back the token it gave.
TokensBalanced == inflight = Cardinality({q \in Requests : req[q].pc # "idle"})

Configured(e) == epMap[e] # Nil /\ ~stopped

\* A server that stays up behind an endpoint that stays enabled is eventually ready
\* for good: no late answer to an earlier check, by whatever generation, lasts.
ReadyEventually ==
    \A e \in Endpoints :
        <>[](Configured(e) /\ ~obj[epMap[e]].disabled /\ server[e] = "up")
            => <>[](epMap[e] # Nil /\ IsReady(epMap[e]))

\* A server that stays down or hung is eventually never picked.
UnreadyEventually ==
    \A e \in Endpoints :
        <>[](Configured(e) /\ server[e] # "up") => <>[](epMap[e] # Nil /\ ~IsReady(epMap[e]))

\* "close this request if endpoint is stoped": a request to an endpoint that was
\* removed, or of a cluster that was stopped, at whatever moment after Pop, ends.
RequestsEnd ==
    \A q \in Requests :
        (req[q].object # Nil /\ ~obj[req[q].object].live) ~> req[q].pc = "idle"
=============================================================================
