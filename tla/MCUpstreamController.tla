------------------------ MODULE MCUpstreamController ------------------------
(***************************************************************************)
(* Instances of UpstreamController.  Clusters ca and cb compete for host   *)
(* hx, and cb also for the name of ca; cluster cf has a version whose      *)
(* endpoints cannot be set up.                                             *)
(***************************************************************************)
EXTENDS UpstreamController

CONSTANTS ca, cb, cf, hx, hy, a1, a2, b1, b2, f1, f2, f3

VersionCluster == [o \in Items |-> CASE o \in {a1, a2} -> ca
                                    [] o \in {b1, b2} -> cb
                                    [] OTHER -> cf]

VersionNames == [o \in Items |-> CASE o = a1 -> {ca}
                                  [] o = a2 -> {ca, hx}
                                  [] o = b1 -> {cb, hx}
                                  [] o = b2 -> {cb, ca}
                                  [] o = f1 -> {cf}
                                  [] OTHER -> {cf, hy}]

VersionFault == [o \in Items |-> IF o = f2 THEN "endpoints" ELSE "none"]
=============================================================================
