------------------------- MODULE MCGlobalMaxInflight -------------------------
(***************************************************************************)
(* Instances of GlobalMaxInflight for TLC.                                 *)
(***************************************************************************)
EXTENDS GlobalMaxInflight, TLC

CONSTANTS a, b, h1, h2, h3

\* Two calls of instance a overlap; those of b do not, and b may expire.
MixedHandlers == {h1, h2, h3}
MixedOwner == (h1 :> a) @@ (h2 :> a) @@ (h3 :> b)
MixedIDs == (h1 :> {1}) @@ (h2 :> {1}) @@ (h3 :> {0, 1, 2})

\* No calls of one instance overlap.
SerialHandlers == {h1, h3}
SerialOwner == (h1 :> a) @@ (h3 :> b)
SerialIDs == [h \in SerialHandlers |-> {0}]
=============================================================================
