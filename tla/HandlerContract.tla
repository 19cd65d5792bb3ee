--------------------------- MODULE HandlerContract ---------------------------
(***************************************************************************)
(* What a controller may count on when it gives its handler to a SyncQueue *)
(* (pkg/syncqueue): the handler of an item runs at most once at a time;    *)
(* an event leads to a run that begins after the event; an item the        *)
(* handler failed on, or asked to see again, is run again later; nothing   *)
(* is forgotten before the queue is stopped.  Which worker runs an item    *)
(* and in which order is left open.                                        *)
(***************************************************************************)
CONSTANT Items

VARIABLES
    due,        \* items whose handler has to run
    later,      \* items that become due after a delay
    running,    \* items whose handler runs
    stopped

contractVars == <<due, later, running, stopped>>

ContractInit ==
    /\ due = {}
    /\ later = {}
    /\ running = {}
    /\ stopped = FALSE

\* An event asks for a run of the handler.
Notify(i) ==
    /\ ~stopped
    /\ due' = due \union {i}
    /\ UNCHANGED <<later, running, stopped>>

\* The delay of an item is over.
Wake(i) ==
    /\ ~stopped
    /\ i \in later
    /\ due' = due \union {i}
    /\ later' = later \ {i}
    /\ UNCHANGED <<running, stopped>>

Begin(i) ==
    /\ i \in due
    /\ i \notin running
    /\ due' = due \ {i}
    /\ running' = running \union {i}
    /\ UNCHANGED <<later, stopped>>

End(i) ==
    /\ i \in running
    /\ running' = running \ {i}
    /\ \/ later' = later
       \/ ~stopped /\ later' = later \union {i}
    /\ UNCHANGED <<due, stopped>>

Stop ==
    /\ ~stopped
    /\ stopped' = TRUE
    /\ UNCHANGED <<due, later, running>>

ContractNext == (\E i \in Items : Notify(i) \/ Wake(i) \/ Begin(i) \/ End(i)) \/ Stop

ContractSafety == ContractInit /\ [][ContractNext]_contractVars

\* A handler ends; what is due begins and what is delayed becomes due, until the queue stops.
ContractLiveness ==
    \A i \in Items :
        /\ (i \in running) ~> (i \notin running)
        /\ (i \in later) ~> (stopped \/ i \in due)
        /\ (i \in due) ~> (stopped \/ i \in running)

ContractSpec == ContractSafety /\ ContractLiveness
=============================================================================
