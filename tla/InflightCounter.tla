--------------------------- MODULE InflightCounter ---------------------------
(***************************************************************************)
(* A global "max requests in flight" flow control seen from a gateway      *)
(* (maxInflightWrapper), the worker that reports it to the rate limiter    *)
(* server (globalCounterManager), the calls between them, which may        *)
(* overtake each other, time out or get lost, and the server's count       *)
(* (DoAcquire), which other gateways share and which a restart loses.      *)
(*                                                                         *)
(* Requests of the gateway are told apart only by what they do: inflight   *)
(* of them run and waitInflight of them wait for an answer of the server.  *)
(* Request times, the server's request ids, are compared and never         *)
(* computed with, so only their order is kept: Times are ranks, renumbered *)
(* by every step that drops one.                                           *)
(***************************************************************************)
EXTENDS Integers, FiniteSets, FiniteSetsExt

CONSTANTS
    Limit,     \* GlobalMaxRequestsInflight of the schema: the wrapper's max and the server's
    LocalMax,  \* MaxRequestsInflight of the schema
    Requests,  \* bound: requests of the gateway at the same time
    Calls,     \* bound: acquire calls whose goroutine is not done or whose request is on its way
    Lost       \* bound: the latter, where the gateway has given up

ASSUME CounterAssumption ==
    /\ {Limit, LocalMax, Requests, Calls} \subseteq Nat \ {0}
    /\ Lost \in 0..(Calls - 1)

VARIABLES
    inflight,         \* requests that run: the meter's count and the lock's
    waitInflight,     \* requests in waitAcquire
    size,             \* the size of the wrapped maxinflight lock
    acquired,         \* acquiredMaxInflight
    overLimited,      \* overLimited
    unavailable,      \* serverUnavailable
    lastAcquireTime,  \* lastAcquireTime
    calls,            \* acquire calls in progress
    lost,             \* requests that time out and are still on their way
    server,           \* the server's state of this gateway: count and requestId
    others,           \* the sum of the other gateways' counts
    up                \* whether a leader can be reached

clientVars == <<inflight, waitInflight, size, acquired, overLimited, unavailable>>
serverVars == <<server, others, up>>
vars == <<clientVars, lastAcquireTime, calls, lost, serverVars>>

Reserve == Max({(Limit * 2) \div 100, 1})
Batch == Max({(Limit * 20) \div 100, 1})

NoAnswer == [kind |-> "none", limit |-> 0]
Error == [kind |-> "error", limit |-> 0]
Answers == {NoAnswer, Error} \cup [kind : {"accept", "refuse", "tooOld"}, limit : 0..Limit]

Times == {lastAcquireTime, server.requestId} \cup {c.time : c \in calls \cup lost}

\* The new value of everything that holds a time, with the times renumbered.
Renumber(last, srv, cs, ls) ==
    LET times == {last, srv.requestId} \cup {c.time : c \in cs \cup ls}
        Rank(t) == Cardinality({u \in times : u < t})
    IN  /\ lastAcquireTime' = Rank(last)
        /\ server' = [srv EXCEPT !.requestId = Rank(@)]
        /\ calls' = {[c EXCEPT !.time = Rank(@)] : c \in cs}
        /\ lost' = {[c EXCEPT !.time = Rank(@)] : c \in ls}

Init ==
    /\ inflight = 0 /\ waitInflight = 0
    /\ size = Reserve /\ acquired = 0
    /\ overLimited = FALSE /\ unavailable = FALSE
    /\ lastAcquireTime = 0
    /\ calls = {} /\ lost = {}
    /\ server = [count |-> 0, requestId |-> 0]
    /\ others = 0
    /\ up = TRUE

-----------------------------------------------------------------------------
(* Requests of the gateway. The wrapped lock grants a request while fewer  *)
(* than size run (external: golib's maxinflight).                          *)

Granted == inflight < size

\* Without asking the server: it is unavailable, refuses, or max is reached.
Unasked == unavailable \/ overLimited \/ waitInflight + 1 + inflight > Limit

TryAcquire ==
    /\ inflight + waitInflight < Requests
    /\ \/ /\ Unasked /\ Granted
          /\ inflight' = inflight + 1
          /\ UNCHANGED waitInflight
       \/ /\ ~Unasked
          /\ IF waitInflight + 1 + inflight <= acquired /\ Granted
             THEN inflight' = inflight + 1 /\ UNCHANGED waitInflight
             ELSE waitInflight' = waitInflight + 1 /\ UNCHANGED inflight
    /\ UNCHANGED <<size, acquired, overLimited, unavailable, lastAcquireTime, calls, lost, serverVars>>

EndWaitLeaks ==
    /\ waitInflight > 0
    /\ inflight' = inflight + IF Granted THEN 1 ELSE 0
    /\ UNCHANGED <<waitInflight, size, acquired, overLimited, unavailable, lastAcquireTime,
                   calls, lost, serverVars>>

\* waitAcquire returns, after a broadcast or its timeout, and the lock is tried again.
EndWait ==
    /\ waitInflight > 0
    /\ waitInflight' = waitInflight - 1
    /\ inflight' = inflight + IF Granted THEN 1 ELSE 0
    /\ UNCHANGED <<size, acquired, overLimited, unavailable, lastAcquireTime, calls, lost, serverVars>>

Release ==
    /\ inflight > 0
    /\ inflight' = inflight - 1
    /\ UNCHANGED <<waitInflight, size, acquired, overLimited, unavailable, lastAcquireTime,
                   calls, lost, serverVars>>

-----------------------------------------------------------------------------
(* The worker of the globalCounterManager *)

ExpectTokenOfReserve == Max({inflight, Reserve})

ExpectToken ==
    LET acquire == IF ~overLimited /\ waitInflight > 0 THEN Min({Batch, waitInflight}) ELSE 0
    IN  Min({inflight + acquire, Limit})

\* doAcquire, for an event or because the last answer is too old.
DoAcquire ==
    /\ Cardinality(calls \cup lost) < Calls
    /\ LET c == [time |-> Max(Times) + 1, tokens |-> ExpectToken, phase |-> "sent",
                 answer |-> NoAnswer]
       IN  Renumber(lastAcquireTime, server, calls \cup {c}, lost)
    /\ UNCHANGED <<clientVars, others, up>>

-----------------------------------------------------------------------------
(* DoAcquire of the server. SetState is one step here; GlobalMaxInflight   *)
(* has its interleavings.                                                  *)

SetState(current, id) ==
    LET total == others + current
    IN  IF id <= server.requestId
        THEN [server |-> server, answer |-> [kind |-> "tooOld", limit |-> current]]
        ELSE IF total > Limit
        THEN [server |-> [server EXCEPT !.requestId = id],
              answer |-> [kind |-> "refuse", limit |-> server.count]]
        ELSE [server |-> [count |-> current, requestId |-> id],
              answer |-> [kind |-> IF total = Limit /\ current > 0 THEN "refuse" ELSE "accept",
                          limit |-> current]]

\* The answer RequestIDTooOld ends the call: SetLimit does nothing with it.
Handle(c) ==
    LET r == SetState(c.tokens, c.time)
    IN  /\ up
        /\ c.phase = "sent"
        /\ LET answered == {[c EXCEPT !.phase = "answered", !.answer = r.answer]}
           IN  Renumber(lastAcquireTime, r.server,
                        (calls \ {c}) \cup IF r.answer.kind = "tooOld" THEN {} ELSE answered, lost)
        /\ UNCHANGED <<clientVars, others, up>>

\* A request whose call has timed out arrives all the same.
HandleLost(c) ==
    /\ up
    /\ Renumber(lastAcquireTime, SetState(c.tokens, c.time).server, calls, lost \ {c})
    /\ UNCHANGED <<clientVars, others, up>>

\* Another gateway's count changes; the server accepts no more than fits.
OthersReport ==
    /\ up
    /\ \E n \in 0..Limit : /\ n # others
                           /\ n > others => n + server.count <= Limit
                           /\ others' = n
    /\ UNCHANGED <<clientVars, lastAcquireTime, calls, lost, server, up>>

\* The leader goes away; the next one has no counts.
Down ==
    /\ up
    /\ up' = FALSE
    /\ others' = 0
    /\ Renumber(lastAcquireTime, [count |-> 0, requestId |-> -1], calls, lost)
    /\ UNCHANGED clientVars

Restart ==
    /\ ~up
    /\ up' = TRUE
    /\ UNCHANGED <<clientVars, lastAcquireTime, calls, lost, server, others>>

-----------------------------------------------------------------------------
(* The goroutine of an acquire call, and SetLimit, whose check of the      *)
(* request time is outside its lock.                                       *)

\* The call fails or times out, and its error passes the check or not. Its request may
\* still arrive.
GiveUp(c) ==
    /\ c.phase \in {"sent", "answered"}
    /\ \E ls \in {lost} \cup
                 IF c.phase = "sent" /\ Cardinality(lost) < Lost THEN {lost \cup {c}} ELSE {} :
          Renumber(lastAcquireTime, server,
                   (calls \ {c}) \cup IF c.time <= lastAcquireTime THEN {}
                                      ELSE {[c EXCEPT !.phase = "checked", !.answer = Error]},
                   ls)
    /\ UNCHANGED <<clientVars, others, up>>

\* An answer that is too old changes nothing.
Check(c) ==
    /\ c.phase = "answered"
    /\ \/ /\ c.time <= lastAcquireTime
          /\ Renumber(lastAcquireTime, server, calls \ {c}, lost)
       \/ /\ c.time > lastAcquireTime
          /\ calls' = (calls \ {c}) \cup {[c EXCEPT !.phase = "checked"]}
          /\ UNCHANGED <<lastAcquireTime, lost, server>>
    /\ UNCHANGED <<clientVars, others, up>>

FallBackToPeak ==
    /\ \/ unavailable /\ UNCHANGED <<size, unavailable>>
       \/ /\ ~unavailable
          /\ unavailable' = TRUE
          /\ size' \in 0..Requests
    /\ UNCHANGED <<inflight, waitInflight, acquired, overLimited>>

\* SetLimit with an error, under its lock: the lock takes the size of the local schema, or
\* of the most requests the meter has lately seen.
FallBack ==
    /\ \/ unavailable /\ UNCHANGED <<size, unavailable>>
       \/ /\ ~unavailable
          /\ unavailable' = TRUE
          /\ \E maxInflight \in 0..Requests : size' = Max({maxInflight, LocalMax})
    /\ UNCHANGED <<inflight, waitInflight, acquired, overLimited>>

ApplyAnswerWithoutReserve(c) ==
    /\ c.answer.kind \in {"accept", "refuse"}
    /\ unavailable' = (unavailable /\ c.answer.kind = "refuse")
    /\ overLimited' = (c.answer.kind = "refuse")
    /\ acquired' = c.answer.limit /\ size' = c.answer.limit
    /\ UNCHANGED <<inflight, waitInflight>>

\* SetLimit with an answer, under its lock.
ApplyAnswer(c) ==
    LET limit == Min({Max({c.answer.limit, Reserve}), Limit})
    IN  \/ /\ c.answer.kind = "accept"
           /\ unavailable' = FALSE
           /\ overLimited' = FALSE
           /\ acquired' = limit /\ size' = limit
           /\ UNCHANGED <<inflight, waitInflight>>
        \/ /\ c.answer.kind = "refuse"
           /\ overLimited' = TRUE
           /\ acquired' = c.answer.limit /\ size' = c.answer.limit
           /\ UNCHANGED <<inflight, waitInflight, unavailable>>

SetLimit(c) ==
    /\ c.phase = "checked"
    /\ IF c.answer = Error
       THEN FallBack /\ Renumber(lastAcquireTime, server, calls \ {c}, lost)
       ELSE ApplyAnswer(c) /\ Renumber(c.time, server, calls \ {c}, lost)
    /\ UNCHANGED <<others, up>>

\* No answer for seconds, since no client of the server is ready.
ResetCheck ==
    /\ ~up
    /\ FallBack
    /\ UNCHANGED <<lastAcquireTime, calls, lost, serverVars>>

-----------------------------------------------------------------------------
Traffic == TryAcquire \/ Release
Disturbance ==
    Traffic \/ OthersReport \/ Down \/ Restart \/ \E c \in calls : GiveUp(c)

Call(c) == Handle(c) \/ Check(c) \/ SetLimit(c)

Next ==
    \/ Disturbance
    \/ EndWait \/ DoAcquire \/ ResetCheck
    \/ \E c \in calls : Call(c)
    \/ \E c \in lost : HandleLost(c)

\* waitAcquire has a timeout, the worker a timer, and a call that is not given up goes on.
Fairness ==
    /\ WF_vars(EndWait) /\ WF_vars(DoAcquire)
    /\ WF_vars(\E c \in calls : Call(c))

Spec == Init /\ [][Next]_vars /\ Fairness

-----------------------------------------------------------------------------
\* Type invariant.
CounterTypeOK ==
    LET times == 0..(Calls + 1)
    IN  /\ {inflight, waitInflight, inflight + waitInflight} \subseteq 0..Requests
        /\ size \in 0..Max({Limit, LocalMax, Requests})
        /\ acquired \in 0..Limit
        /\ {overLimited, unavailable, up} \subseteq BOOLEAN
        /\ lastAcquireTime \in times
        /\ calls \cup lost \subseteq [time : times, tokens : 0..Limit, answer : Answers,
                                      phase : {"sent", "answered", "checked"}]
        /\ server \in [count : 0..Limit, requestId : times]
        /\ others \in 0..Limit

\* SetLimit with an error: while the server is unavailable the gateway can run as many
\* requests as the local schema allows, except when the last answer refused it, which
\* leaves serverUnavailable set and the refused size in place.
FallbackServes == unavailable => size >= LocalMax \/ overLimited

\* acquireRequest, SetState: however calls were lost, late or overtaken, and whatever the
\* server forgot, once nothing else changes it counts the gateway's requests as they are,
\* unless they do not fit next to the other gateways'.
CountAgrees ==
    \/ []<><<Disturbance>>_vars
    \/ <>[]~up
    \/ <>[](server.count = inflight \/ inflight + others > Limit)

\* SetLimit: once nothing else changes, the wrapped lock has the size that the server
\* counts for the gateway, a stale answer or a fallback is not kept for ever, and the
\* reserve is there unless the server refuses.
LimitAgrees ==
    \/ []<><<Disturbance>>_vars
    \/ <>[]~up
    \/ <>[](IF overLimited THEN size = server.count
            ELSE size = Max({server.count, Reserve}) /\ ~unavailable)
=============================================================================
