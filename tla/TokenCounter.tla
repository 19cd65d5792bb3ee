---------------------------- MODULE TokenCounter ----------------------------
(***************************************************************************)
(* A global token bucket seen from a gateway (tokenBucketWrapper): requests*)
(* take tokens that the gateway holds, and the worker of the counter       *)
(* manager asks the rate limiter server for more, so that a reserve is at  *)
(* hand.  Tokens are taken and given back by atomic additions without a    *)
(* lock: a request that finds none has already taken one and puts it back, *)
(* an answer first ends what is being acquired and then adds its tokens,   *)
(* a resize subtracts what it has read before.                             *)
(*                                                                         *)
(* Requests are told apart only by what they do, and the server's bucket   *)
(* only by what it grants.  The wrapped local token bucket, which may turn *)
(* requests away before all this, is left out.                             *)
(***************************************************************************)
EXTENDS Integers, FiniteSets, FiniteSetsExt

CONSTANTS
    Slots,          \* bound: acquire calls at the same time
    NoCall          \* a slot that is free

ASSUME TokenAssumption ==
    /\ IsFiniteSet(Slots)
    /\ NoCall \notin [hits : Nat, limit : Nat,
                   phase : {"sent", "granted", "refused", "failed", "add", "none", "fail"}]

VARIABLES
    tokens,         \* tokens
    tokenInflight,  \* tokenInflight: tokens that are being acquired
    reserve,        \* reserve
    fallback,       \* serverUnavailable
    undoing,        \* requests about to put back the token of a "first" or of an "again" try
    waiting,        \* requests in waitAcquire
    overflow,       \* what a resize in progress is about to subtract
    acquiring,      \* acquire calls, by slot
    trouble         \* the scenario: whether the flow control is counted by the server,
                    \* its reserves, requests, and what may still go wrong

tokenVars == <<tokens, tokenInflight, reserve, fallback, undoing, waiting, overflow, acquiring, trouble>>

TokenInit(scenarios) ==
    /\ trouble \in scenarios
    /\ tokens = 0
    /\ tokenInflight = 0
    /\ reserve = Max(trouble.reserves)
    /\ fallback = FALSE
    /\ undoing = [first |-> 0, again |-> 0]
    /\ waiting = 0
    /\ overflow = 0
    /\ acquiring = [s \in Slots |-> NoCall]

Suffer(what) == trouble[what] > 0 /\ trouble' = [trouble EXCEPT ![what] = @ - 1]

-----------------------------------------------------------------------------
(* Requests: TryAcquire *)

\* tryAcquire: a token that is not there is put back by a step of its own.
TakeToken(try) ==
    /\ tokens' = tokens - 1
    /\ undoing' = IF tokens' < 0 THEN [undoing EXCEPT ![try] = @ + 1] ELSE undoing

FirstTry ==
    /\ undoing.first + undoing.again + waiting < trouble.requests
    /\ ~fallback
    /\ TakeToken("first")
    /\ UNCHANGED <<tokenInflight, reserve, fallback, waiting, overflow, acquiring, trouble>>

\* After the first try the request waits for an answer, after the second it is refused.
PutBack(try) ==
    /\ undoing[try] > 0
    /\ undoing' = [undoing EXCEPT ![try] = @ - 1]
    /\ tokens' = tokens + 1
    /\ waiting' = waiting + IF try = "first" THEN 1 ELSE 0
    /\ UNCHANGED <<tokenInflight, reserve, fallback, overflow, acquiring, trouble>>

\* waitAcquire ends, by a broadcast or its timeout.
TryAgain ==
    /\ waiting > 0
    /\ waiting' = waiting - 1
    /\ TakeToken("again")
    /\ UNCHANGED <<tokenInflight, reserve, fallback, overflow, acquiring, trouble>>

-----------------------------------------------------------------------------
(* The worker and its calls *)

\* The batch depends on the rate that the meter shows, and less than the smallest batch is
\* not worth a call for a while.
ExpectToken ==
    LET expect == Max({reserve - tokens - tokenInflight, 0})
        minBatch == Max({(reserve * 10) \div 100, 1})
    IN  IF expect < minBatch THEN {0, expect} ELSE 1..expect

\* acquireRequest and AddAcquiring; without tokens to ask for, the call is the resync.
Ask(s) ==
    /\ trouble.counting
    /\ acquiring[s] = NoCall
    /\ \E hits \in ExpectToken :
         /\ tokenInflight' = tokenInflight + hits
         /\ acquiring' = [acquiring EXCEPT ![s] = [hits |-> hits, phase |-> "sent", limit |-> 0]]
    /\ UNCHANGED <<tokens, reserve, fallback, undoing, waiting, overflow, trouble>>

\* DoAcquire of the server: as many tokens as asked for, or what is left after halving.
Grants(hits) == {hits} \union {n \in {hits \div 2, hits \div 4, hits \div 8} : n > 0}

\* The call ends with tokens, with a refusal, or with an error.
Answer(s) ==
    /\ acquiring[s] # NoCall
    /\ acquiring[s].phase = "sent"
    /\ \/ /\ \E n \in Grants(acquiring[s].hits) :
               acquiring' = [acquiring EXCEPT ![s].phase = "granted", ![s].limit = n]
          /\ UNCHANGED trouble
       \/ /\ acquiring[s].hits > 0
          /\ Suffer("refusals")
          /\ acquiring' = [acquiring EXCEPT ![s].phase = "refused"]
       \/ /\ Suffer("errors")
          /\ acquiring' = [acquiring EXCEPT ![s].phase = "failed"]
    /\ UNCHANGED <<tokens, tokenInflight, reserve, fallback, undoing, waiting, overflow>>

SettleOnlyAnswers(s) ==
    /\ acquiring[s] # NoCall
    /\ acquiring[s].phase \in {"granted", "refused", "failed"}
    /\ tokenInflight' = tokenInflight - IF acquiring[s].phase = "failed" THEN 0
                                        ELSE acquiring[s].hits
    /\ acquiring' = [acquiring EXCEPT ![s].hits = 0,
                                      ![s].phase = CASE @ = "granted" -> "add"
                                                     [] @ = "refused" -> "none"
                                                     [] @ = "failed" -> "fail"]
    /\ UNCHANGED <<tokens, reserve, fallback, undoing, waiting, overflow, trouble>>

\* SetLimit, first half: whatever the result, its tokens are no longer being acquired.
Settle(s) ==
    /\ acquiring[s] # NoCall
    /\ acquiring[s].phase \in {"granted", "refused", "failed"}
    /\ tokenInflight' = tokenInflight - acquiring[s].hits
    /\ acquiring' = [acquiring EXCEPT ![s].hits = 0,
                                      ![s].phase = CASE @ = "granted" -> "add"
                                                     [] @ = "refused" -> "none"
                                                     [] @ = "failed" -> "fail"]
    /\ UNCHANGED <<tokens, reserve, fallback, undoing, waiting, overflow, trouble>>

\* SetLimit, second half. The code computes a token count that is cut at the reserve and
\* then adds the uncut one.
Apply(s) ==
    /\ acquiring[s] # NoCall
    /\ acquiring[s].phase \in {"add", "none", "fail"}
    /\ tokens' = tokens + acquiring[s].limit
    /\ fallback' = CASE acquiring[s].phase = "add" -> FALSE
                     [] acquiring[s].phase = "none" -> fallback
                     [] acquiring[s].phase = "fail" -> TRUE
    /\ acquiring' = [acquiring EXCEPT ![s] = NoCall]
    /\ UNCHANGED <<tokenInflight, reserve, undoing, waiting, overflow, trouble>>

\* resetCheck: no answer for seconds
ResetTokens ==
    /\ Suffer("errors")
    /\ fallback' = TRUE
    /\ UNCHANGED <<tokens, tokenInflight, reserve, undoing, waiting, overflow, acquiring>>

-----------------------------------------------------------------------------
(* Changes of the schema *)

\* Resize sets the reserve and reads the tokens; what is too much is subtracted later.
BeginResize ==
    /\ overflow = 0
    /\ Suffer("resizes")
    /\ \E r \in trouble.reserves \ {reserve} :
         /\ reserve' = r
         /\ overflow' = Max({tokens - r, 0})
    /\ UNCHANGED <<tokens, tokenInflight, fallback, undoing, waiting, acquiring>>

EndResize ==
    /\ overflow > 0
    /\ overflow' = 0
    /\ tokens' = tokens - overflow
    /\ UNCHANGED <<tokenInflight, reserve, fallback, undoing, waiting, acquiring, trouble>>

\* newFlowControl: a change of type or strategy and back makes a new wrapper under the same
\* name, which gets the answers to the old one's calls. Requests that wait go on with the old.
Recreate ==
    /\ overflow = 0
    /\ Suffer("recreations")
    /\ tokens' = 0
    /\ tokenInflight' = 0
    /\ fallback' = FALSE
    /\ undoing' = [first |-> 0, again |-> 0]
    /\ waiting' = 0
    /\ UNCHANGED <<reserve, overflow, acquiring>>

-----------------------------------------------------------------------------
Progress(s) == Answer(s) \/ Settle(s) \/ Apply(s)

TokenNext ==
    \/ FirstTry \/ TryAgain \/ \E try \in DOMAIN undoing : PutBack(try)
    \/ \E s \in Slots : Ask(s) \/ Progress(s)
    \/ ResetTokens \/ BeginResize \/ EndResize \/ Recreate

\* waitAcquire has a timeout, the worker a timer, calls have a timeout.
TokenFairness ==
    /\ WF_tokenVars(TryAgain)
    /\ WF_tokenVars(\E try \in DOMAIN undoing : PutBack(try))
    /\ WF_tokenVars(EndResize)
    /\ \A s \in Slots : WF_tokenVars(Progress(s))
    /\ WF_tokenVars(\E s \in Slots : Ask(s))

-----------------------------------------------------------------------------
\* ExpectToken, SetLimit: whatever answers were lost, refused or applied to a new wrapper, and
\* however requests and a resize raced for tokens: when requests stop, the gateway has its
\* reserve again, and it follows the server.
TokensRefill ==
    []<><<FirstTry>>_tokenVars \/ <>[](trouble.counting => tokens >= reserve /\ ~fallback)
=============================================================================
