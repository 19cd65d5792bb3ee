---------------------- MODULE UpstreamControllerProofs ----------------------
(***************************************************************************)
(* Proofs about UpstreamController, for any clusters, versions, server     *)
(* names, faults and number of workers.                                    *)
(*                                                                         *)
(* The argument is local: a handler that runs for cluster c leaves every   *)
(* host of another cluster alone (OthersKept), because the conflict check  *)
(* has found none of the names it writes taken.  NoTheft follows at once,  *)
(* and RoutesExact has to be looked at for c only.  The second part joins  *)
(* the handler to its queue, through panics and restarts.                  *)
(***************************************************************************)
EXTENDS UpstreamController, SyncQueueProofs, FiniteSetTheorems, TLAPS

\* What the handler needs to know of the queue: it holds versions.
HoldsVersions ==
    /\ queue \in Seq(Items)
    /\ held \in [Workers -> Items \union {NoItem}]
    /\ worker \in [Workers -> {"parked", "polling", "busy", "exited"}]
    /\ \A w \in Workers : worker[w] = "busy" => held[w] \in Items

\* The inductive invariant.
CtlIInv == CtlTypeOK /\ HoldsVersions /\ RoutesExact

\* A step leaves the hosts of all clusters but c alone.
OthersKept(c) ==
    \A n \in ServerNames, d \in Clusters \ {c} :
        /\ RoutedTo(n, d) => /\ manager'[n] = manager[n]
                             /\ infos'[manager[n]] = infos[manager[n]]
        /\ RoutedTo(n, d)' => RoutedTo(n, d)

\* The empty routing table satisfies the invariant.
LEMMA InitCtlIInv == Init => CtlIInv
<1> SUFFICES ASSUME Init PROVE CtlIInv
  OBVIOUS
<1>1. CtlTypeOK
  BY DEF Init, CtlTypeOK, NoRoutes, UnusedInfo
<1>2. HoldsVersions
  BY DEF Init, QueueInit, HoldsVersions
<1>3. RoutesExact
  BY DEF Init, NoRoutes, RoutesExact, RoutesOf, RoutedTo, Sound
<1>4. QED
  BY <1>1, <1>2, <1>3 DEF CtlIInv

\* The version a worker handles, and what an accepted one may write.
LEMMA AcceptedNames ==
    ASSUME CtlIInv, NEW w \in Workers, Accepted(w)
    PROVE  /\ held[w] \in Items
           /\ ClusterOf[held[w]] \in Clusters /\ Clusters \subseteq ServerNames
           /\ ClusterOf[held[w]] \in NamesOf[held[w]]
           /\ NamesOf[held[w]] \subseteq ServerNames
           /\ \/ \A n \in NamesOf[held[w]] : ~TakenFrom(n, ClusterOf[held[w]])
              \/ /\ RoutedTo(ClusterOf[held[w]], ClusterOf[held[w]])
                 /\ infos[manager[ClusterOf[held[w]]]].names = NamesOf[held[w]]
           /\ manager[ClusterOf[held[w]]] # NoInfo
                 => RoutedTo(ClusterOf[held[w]], ClusterOf[held[w]])
<1> DEFINE o == held[w]
           c == ClusterOf[o]
<1>1. o \in Items /\ c \in Clusters /\ NamesOf[o] \subseteq ServerNames /\ c \in NamesOf[o]
  BY ControllerAssumption DEF Accepted, CtlIInv, HoldsVersions
<1>2. ~Conflict(c, o)
  BY DEF Accepted
<1>3. \/ \A n \in NamesOf[o] : ~TakenFrom(n, c)
      \/ RoutedTo(c, c) /\ infos[manager[c]].names = NamesOf[o]
  BY <1>2 DEF Conflict, RoutedTo
<1>4. manager[c] # NoInfo => RoutedTo(c, c)
  BY <1>1, <1>3 DEF TakenFrom, RoutedTo
<1>5. QED
  BY <1>1, <1>3, <1>4, ControllerAssumption

\* The queue's part of the end of a handler.
LEMMA FinishHolds ==
    ASSUME HoldsVersions, NEW w \in Workers, NEW out, Finish(w, out)
    PROVE  HoldsVersions'
<1>1. /\ worker[w] = "busy" /\ held[w] \in Items
      /\ queue' = queue \/ queue' = Append(queue, held[w])
      /\ held' = [held EXCEPT ![w] = NoItem]
      /\ worker' = [worker EXCEPT ![w] = NextRound(held[w], out)]
  BY DEF Finish, HoldsVersions
<1>2. NextRound(held[w], out) \in {"parked", "polling"}
  BY DEF NextRound
<1>3. queue' \in Seq(Items)
  BY <1>1 DEF HoldsVersions
<1>4. QED
  BY <1>1, <1>2, <1>3 DEF HoldsVersions

\* What NoTheft says of one step.
NoHostStolen ==
    \A n \in ServerNames, c \in Clusters :
        RoutedTo(n, c) => \A d \in Clusters \ {c} : ~RoutedTo(n, d)'

\* A step that leaves the other clusters alone needs checking for its own only.
LEMMA LocalStep ==
    ASSUME CtlIInv, NEW c \in Clusters, OthersKept(c), c \in Sound => RoutesOf(c)'
    PROVE  RoutesExact' /\ NoHostStolen
<1>1. ASSUME NEW d \in Sound, d # c PROVE RoutesOf(d)'
  <2>1. d \in Clusters \ {c} /\ d \in ServerNames /\ RoutesOf(d)
    BY <1>1, ControllerAssumption DEF Sound, CtlIInv, RoutesExact
  <2>2. \A n \in ServerNames : RoutedTo(n, d)' <=> RoutedTo(n, d)
    BY <2>1 DEF OthersKept, RoutedTo
  <2>3. \A n \in ServerNames : RoutedTo(n, d) => /\ manager'[n] = manager[n]
                                                 /\ infos'[manager[n]] = infos[manager[n]]
    BY <2>1 DEF OthersKept
  <2>4. QED
    BY <2>1, <2>2, <2>3 DEF RoutesOf
<1>2. RoutesExact'
  <2>1. Sound' = Sound
    BY DEF Sound
  <2>2. QED
    BY <1>1, <2>1 DEF RoutesExact
<1>3. NoHostStolen
  <2> SUFFICES ASSUME NEW n \in ServerNames, NEW a \in Clusters, NEW d \in Clusters \ {a},
                      RoutedTo(n, a), RoutedTo(n, d)'
               PROVE  FALSE
    BY DEF NoHostStolen
  <2>1. CASE d # c
    <3>1. RoutedTo(n, d)
      BY <2>1 DEF OthersKept
    <3>2. QED
      BY <3>1 DEF RoutedTo
  <2>2. CASE d = c
    <3>1. manager'[n] = manager[n] /\ infos'[manager[n]] = infos[manager[n]]
      BY <2>2 DEF OthersKept
    <3>2. QED
      BY <3>1 DEF RoutedTo
  <2>3. QED
    BY <2>1, <2>2
<1>4. QED
  BY <1>2, <1>3

\* DeleteForServerNames removes every host of the cluster and no other.
LEMMA DeletedStep ==
    ASSUME CtlIInv, NEW w \in Workers, SyncDeleted(w)
    PROVE  /\ CtlIInv' /\ NoHostStolen
           /\ OthersKept(ClusterOf[held[w]])
           /\ \A c \in Sound : c = ClusterOf[held[w]] =>
                  \A n \in ServerNames : ~RoutedTo(n, c)'
<1>0. PICK c \in Clusters : c = ClusterOf[held[w]]
  BY ControllerAssumption DEF SyncDeleted, CtlIInv, HoldsVersions
<1> DEFINE gone == DeleteForServerNames(c)
<1>1. /\ c \in Clusters /\ c \in ServerNames
      /\ manager' = [n \in ServerNames |-> IF n \in gone THEN NoInfo ELSE manager[n]]
      /\ infos' = [r \in Infos |-> [infos[r] EXCEPT !.stopped =
                                      @ \/ \E n \in gone : manager[n] = r]]
      /\ UNCHANGED <<lister, published, running>>
      /\ HoldsVersions'
  BY <1>0, FinishHolds, ControllerAssumption DEF SyncDeleted, CtlIInv
<1>2. \A n \in gone : RoutedTo(n, c)
  BY DEF DeleteForServerNames
<1>3. c \in Sound => \A n \in ServerNames : RoutedTo(n, c) => n \in gone
  BY <1>1 DEF CtlIInv, RoutesExact, RoutesOf, RoutedTo, Sound, DeleteForServerNames
<1> HIDE DEF gone
<1>4. CtlTypeOK'
  <2>1. manager' \in [ServerNames -> Infos \union {NoInfo}]
    BY <1>1 DEF CtlIInv, CtlTypeOK
  <2>2. infos' \in [Infos -> [cluster : Clusters \union {NoCluster}, names : SUBSET ServerNames,
                              config : Items \union {NoItem}, stopped : BOOLEAN]]
    <3> SUFFICES ASSUME NEW r \in Infos
                 PROVE  [infos[r] EXCEPT !.stopped = @ \/ \E n \in gone : manager[n] = r]
                          \in [cluster : Clusters \union {NoCluster}, names : SUBSET ServerNames,
                               config : Items \union {NoItem}, stopped : BOOLEAN]
      BY <1>1
    <3>1. PICK b \in BOOLEAN : b = (infos[r].stopped \/ \E n \in gone : manager[n] = r)
      BY Zenon DEF CtlIInv, CtlTypeOK
    <3>2. infos[r] \in [cluster : Clusters \union {NoCluster}, names : SUBSET ServerNames,
                        config : Items \union {NoItem}, stopped : BOOLEAN]
      BY DEF CtlIInv, CtlTypeOK
    <3>3. [infos[r] EXCEPT !.stopped = @ \/ \E n \in gone : manager[n] = r]
            = [infos[r] EXCEPT !.stopped = b]
      BY <3>1, <3>2
    <3>4. QED
      BY <3>2, <3>3
  <2>3. \A n \in ServerNames : manager'[n] # NoInfo => infos'[manager'[n]].cluster # NoCluster
    BY <1>1 DEF CtlIInv, CtlTypeOK
  <2>4. QED
    BY <1>1, <2>1, <2>2, <2>3 DEF CtlIInv, CtlTypeOK
<1>5. \A r \in Infos : infos'[r].cluster = infos[r].cluster /\ infos'[r].names = infos[r].names
  BY <1>1 DEF CtlIInv, CtlTypeOK
<1>6. \A r \in Infos : infos[r].cluster # c => infos'[r] = infos[r]
  BY <1>1, <1>2 DEF CtlIInv, CtlTypeOK, RoutedTo
<1>7. OthersKept(c)
  <2> SUFFICES ASSUME NEW n \in ServerNames, NEW d \in Clusters \ {c}
               PROVE  /\ RoutedTo(n, d) => /\ manager'[n] = manager[n]
                                           /\ infos'[manager[n]] = infos[manager[n]]
                      /\ RoutedTo(n, d)' => RoutedTo(n, d)
    BY DEF OthersKept
  <2>1. manager[n] \in Infos \union {NoInfo} /\ (manager'[n] = manager[n] \/ manager'[n] = NoInfo)
    BY <1>1 DEF CtlIInv, CtlTypeOK
  <2>2. RoutedTo(n, d) => n \notin gone /\ infos[manager[n]].cluster # c
    BY <1>2 DEF RoutedTo
  <2>3. RoutedTo(n, d) => manager'[n] = manager[n] /\ infos'[manager[n]] = infos[manager[n]]
    BY <2>1, <2>2, <1>1, <1>6 DEF RoutedTo
  <2>4. RoutedTo(n, d)' => RoutedTo(n, d)
    BY <2>1, <1>5 DEF RoutedTo
  <2>5. QED
    BY <2>3, <2>4
<1>8. c \in Sound => \A n \in ServerNames : ~RoutedTo(n, c)'
  <2> SUFFICES ASSUME c \in Sound PROVE \A n \in ServerNames : ~RoutedTo(n, c)'
    OBVIOUS
  <2>1. QED
    BY <1>1, <1>3, <1>5 DEF RoutedTo, CtlIInv, CtlTypeOK
<1>9. c \in Sound => RoutesOf(c)'
  <2> SUFFICES ASSUME c \in Sound PROVE \A n \in ServerNames : ~RoutedTo(n, c)'
    BY DEF RoutesOf
  <2>1. QED
    BY <1>8
<1>10. RoutesExact' /\ NoHostStolen
  BY <1>1, <1>7, <1>9, LocalStep
<1>11. QED
  BY <1>0, <1>1, <1>4, <1>7, <1>8, <1>10 DEF CtlIInv

\* A new ClusterInfo is registered under names that no other cluster has.
LEMMA CreateStep ==
    ASSUME CtlIInv, NEW w \in Workers, SyncCreate(w)
    PROVE  /\ CtlIInv' /\ NoHostStolen
           /\ OthersKept(ClusterOf[held[w]])
<1>0. PICK o, c, r : o = held[w] /\ c = ClusterOf[o] /\ r = CHOOSE f \in FreeInfos : TRUE
  OBVIOUS
<1>1. /\ o \in Items /\ c \in Clusters /\ c \in ServerNames /\ c \in NamesOf[o]
      /\ NamesOf[o] \subseteq ServerNames
      /\ \A n \in NamesOf[o] : ~TakenFrom(n, c)
      /\ manager[c] = NoInfo
  BY <1>0, AcceptedNames DEF SyncCreate, RoutedTo
<1>2. r \in Infos /\ \A n \in ServerNames : manager[n] # r
  <2>1. r \in FreeInfos
    BY <1>0 DEF SyncCreate
  <2>2. QED
    BY <2>1 DEF FreeInfos
<1>3. /\ infos' = [infos EXCEPT ![r] = [cluster |-> c, names |-> NamesOf[o],
                                        config |-> o, stopped |-> FALSE]]
      /\ manager' = [n \in ServerNames |-> IF n \in NamesOf[o] THEN r ELSE manager[n]]
      /\ UNCHANGED <<lister, published, running>>
      /\ HoldsVersions'
  BY <1>0, FinishHolds DEF SyncCreate, CtlIInv, AddOrUpdateForServerNames
<1>4. r # NoInfo
  BY <1>2, ControllerAssumption
<1>5. CtlTypeOK'
  <2>1. c # NoCluster
    BY <1>1, ControllerAssumption
  <2>2. infos' \in [Infos -> [cluster : Clusters \union {NoCluster}, names : SUBSET ServerNames,
                              config : Items \union {NoItem}, stopped : BOOLEAN]]
    BY <1>1, <1>3, Zenon DEF CtlIInv, CtlTypeOK
  <2>3. manager' \in [ServerNames -> Infos \union {NoInfo}]
    BY <1>2, <1>3 DEF CtlIInv, CtlTypeOK
  <2>4. \A n \in ServerNames : manager'[n] # NoInfo => infos'[manager'[n]].cluster # NoCluster
    BY <1>2, <1>3, <2>1 DEF CtlIInv, CtlTypeOK
  <2>5. QED
    BY <1>3, <2>2, <2>3, <2>4 DEF CtlIInv, CtlTypeOK
<1>6. infos'[r].cluster = c /\ infos'[r].names = NamesOf[o] /\ ~infos'[r].stopped
  BY <1>2, <1>3 DEF CtlIInv, CtlTypeOK
<1>7. \A n \in ServerNames : /\ n \in NamesOf[o] => manager'[n] = r
                             /\ n \notin NamesOf[o] => /\ manager'[n] = manager[n]
                                                       /\ infos'[manager[n]] = infos[manager[n]]
  BY <1>2, <1>3 DEF CtlIInv, CtlTypeOK
<1>8. OthersKept(c)
  BY <1>1, <1>6, <1>7 DEF OthersKept, RoutedTo, TakenFrom
<1>9. c \in Sound => RoutesOf(c)'
  <2> SUFFICES ASSUME c \in Sound PROVE RoutesOf(c)'
    OBVIOUS
  <2>1. \A n \in ServerNames : ~RoutedTo(n, c)
    BY <1>1 DEF CtlIInv, RoutesExact, RoutesOf, RoutedTo
  <2>2. \A n \in ServerNames : RoutedTo(n, c)' <=> n \in NamesOf[o]
    <3>1. ASSUME NEW n \in ServerNames, n \in NamesOf[o] PROVE RoutedTo(n, c)'
      BY <1>4, <1>6, <1>7, <3>1 DEF RoutedTo
    <3>2. ASSUME NEW n \in ServerNames, n \notin NamesOf[o] PROVE ~RoutedTo(n, c)'
      BY <1>7, <2>1, <3>2, Zenon DEF RoutedTo
    <3> QED
      BY <3>1, <3>2
  <2>3. QED
    BY <1>1, <1>6, <1>7, <2>2 DEF RoutesOf
<1>10. QED
  BY <1>0, <1>1, <1>3, <1>5, <1>8, <1>9, LocalStep DEF CtlIInv

\* The routes move from the old server names to the new ones.
LEMMA UpdateStep ==
    ASSUME CtlIInv, NEW w \in Workers, SyncUpdate(w)
    PROVE  /\ CtlIInv' /\ NoHostStolen
           /\ OthersKept(ClusterOf[held[w]])
<1>0. PICK o, c, r, old : /\ o = held[w] /\ c = ClusterOf[o]
                          /\ r = manager[c] /\ old = infos[r].names
  OBVIOUS
<1>1. /\ o \in Items /\ c \in Clusters /\ c \in ServerNames /\ c \in NamesOf[o]
      /\ NamesOf[o] \subseteq ServerNames
      /\ r # NoInfo /\ RoutedTo(c, c)
      /\ (\A n \in NamesOf[o] : ~TakenFrom(n, c)) \/ old = NamesOf[o]
  BY <1>0, AcceptedNames, Zenon DEF SyncUpdate
<1>2. r \in Infos /\ infos[r].cluster = c
  BY <1>0, <1>1, Zenon DEF CtlIInv, CtlTypeOK, RoutedTo
<1>3. /\ infos' = [infos EXCEPT ![r].names = NamesOf[o], ![r].config = o]
      /\ manager' = [n \in ServerNames |->
                        CASE n \in old \ NamesOf[o] /\ RoutedTo(n, c) -> NoInfo
                          [] n \in NamesOf[o] \ old -> r
                          [] OTHER -> manager[n]]
      /\ UNCHANGED <<lister, published, running>>
      /\ HoldsVersions'
  BY <1>0, FinishHolds DEF SyncUpdate, CtlIInv, AddOrUpdateForServerNames
<1>4. \A q \in Infos : infos'[q] = IF q = r THEN [infos[r] EXCEPT !.names = NamesOf[o], !.config = o]
                                   ELSE infos[q]
  BY <1>2, <1>3 DEF CtlIInv, CtlTypeOK
<1>5. /\ infos'[r].names = NamesOf[o]
      /\ infos'[r].cluster = c
      /\ infos'[r].stopped = infos[r].stopped
  BY <1>2, <1>4, Zenon DEF CtlIInv, CtlTypeOK
<1>6. ASSUME NEW n \in ServerNames
      PROVE  /\ n \in old \ NamesOf[o] /\ RoutedTo(n, c) => manager'[n] = NoInfo
             /\ n \in NamesOf[o] \ old => manager'[n] = r
             /\ ~(n \in old \ NamesOf[o] /\ RoutedTo(n, c)) /\ n \notin NamesOf[o] \ old
                   => manager'[n] = manager[n]
  BY <1>3
<1>7. CtlTypeOK'
  <2>1. infos' \in [Infos -> [cluster : Clusters \union {NoCluster}, names : SUBSET ServerNames,
                              config : Items \union {NoItem}, stopped : BOOLEAN]]
    <3> DEFINE Info == [cluster : Clusters \union {NoCluster}, names : SUBSET ServerNames,
                        config : Items \union {NoItem}, stopped : BOOLEAN]
               new == [infos[r] EXCEPT !.names = NamesOf[o], !.config = o]
    <3>1. infos \in [Infos -> Info]
      BY DEF CtlIInv, CtlTypeOK
    <3>2. new \in Info
      BY <1>1, <1>2, <3>1, Zenon
    <3>3. infos' = [infos EXCEPT ![r] = new]
      BY <1>2, <1>3, <3>1, Zenon
    <3>4. QED
      BY <1>2, <3>1, <3>2, <3>3
  <2>2. manager' \in [ServerNames -> Infos \union {NoInfo}]
    BY <1>2, <1>3 DEF CtlIInv, CtlTypeOK
  <2>3. \A q \in Infos : infos'[q].cluster = infos[q].cluster
    BY <1>2, <1>4, <1>5
  <2>4. \A n \in ServerNames : manager'[n] \in {NoInfo, r, manager[n]}
    BY <1>6
  <2>5. c # NoCluster
    BY <1>1, ControllerAssumption
  <2>6. \A n \in ServerNames : manager'[n] # NoInfo => infos'[manager'[n]].cluster # NoCluster
    BY <2>2, <2>3, <2>4, <2>5, <1>2 DEF CtlIInv, CtlTypeOK
  <2>7. QED
    BY <1>3, <2>1, <2>2, <2>6 DEF CtlIInv, CtlTypeOK
<1>8. OthersKept(c)
  <2> SUFFICES ASSUME NEW n \in ServerNames, NEW d \in Clusters \ {c}
               PROVE  /\ RoutedTo(n, d) => /\ manager'[n] = manager[n]
                                           /\ infos'[manager[n]] = infos[manager[n]]
                      /\ RoutedTo(n, d)' => RoutedTo(n, d)
    BY DEF OthersKept
  <2>1. RoutedTo(n, d) => /\ n \notin NamesOf[o] \ old
                          /\ ~RoutedTo(n, c) /\ manager[n] \in Infos /\ manager[n] # r
    BY <1>1, <1>2 DEF RoutedTo, TakenFrom, CtlIInv, CtlTypeOK
  <2>2. RoutedTo(n, d)' => manager'[n] = manager[n] /\ manager[n] \in Infos /\ manager[n] # r
    BY <1>5, <1>6 DEF RoutedTo, CtlIInv, CtlTypeOK
  <2>3. QED
    BY <2>1, <2>2, <1>4, <1>6 DEF RoutedTo
<1>9. c \in Sound => RoutesOf(c)'
  <2> SUFFICES ASSUME c \in Sound PROVE RoutesOf(c)'
    OBVIOUS
  <2>1. /\ \A n \in ServerNames : RoutedTo(n, c) <=> n \in old
        /\ \A n \in old : n \in ServerNames => manager[n] = r
        /\ ~infos[r].stopped
    BY <1>0, <1>1 DEF CtlIInv, RoutesExact, RoutesOf
  <2>2. \A n \in NamesOf[o] : manager'[n] = r
    BY <1>1, <1>6, <2>1
  <2>3. ASSUME NEW n \in ServerNames, n \notin NamesOf[o] PROVE ~RoutedTo(n, c)'
    <3>1. CASE n \in old
      BY <1>6, <2>1, <2>3, <3>1 DEF RoutedTo
    <3>2. CASE n \notin old
      <4>1. manager'[n] = manager[n] /\ ~RoutedTo(n, c)
        BY <1>6, <2>1, <2>3, <3>2
      <4>2. manager[n] \in Infos \union {NoInfo} /\ manager[n] # r
        BY <1>1, <1>2, <4>1 DEF RoutedTo, CtlIInv, CtlTypeOK
      <4>3. QED
        BY <1>4, <4>1, <4>2 DEF RoutedTo
    <3>3. QED
      BY <3>1, <3>2
  <2>4. \A n \in ServerNames : RoutedTo(n, c)' <=> n \in NamesOf[o]
    BY <1>1, <1>5, <2>2, <2>3 DEF RoutedTo
  <2>5. QED
    BY <1>1, <1>5, <2>1, <2>2, <2>4, Zenon DEF RoutesOf
<1>10. QED
  BY <1>0, <1>1, <1>3, <1>7, <1>8, <1>9, LocalStep, Zenon DEF CtlIInv

\* A failed Sync touches the ClusterInfo of its own, unsound cluster only.
LEMMA FailsStep ==
    ASSUME CtlIInv, NEW w \in Workers, SyncFails(w)
    PROVE  /\ CtlIInv' /\ NoHostStolen
           /\ OthersKept(ClusterOf[held[w]])
<1>0. PICK o, c, r : o = held[w] /\ c = ClusterOf[o] /\ r = manager[c]
  OBVIOUS
<1>1. /\ o \in Items /\ c \in Clusters /\ c \in ServerNames
      /\ NamesOf[o] \subseteq ServerNames
      /\ r # NoInfo /\ RoutedTo(c, c)
      /\ Fault[o] # "none"
  BY <1>0, AcceptedNames DEF SyncFails
<1>2. r \in Infos /\ infos[r].cluster = c
  BY <1>0, <1>1 DEF CtlIInv, CtlTypeOK, RoutedTo
<1>3. PICK names \in SUBSET ServerNames : infos' = [infos EXCEPT ![r].names = names]
  <2>1. infos' = [infos EXCEPT ![r].names = IF Fault[o] = "tls" THEN @ ELSE NamesOf[o]]
    BY <1>0 DEF SyncFails
  <2>2. infos[r].names \subseteq ServerNames
    BY <1>2 DEF CtlIInv, CtlTypeOK
  <2>3. QED
    BY <1>1, <2>1, <2>2, Zenon
<1>4. UNCHANGED <<lister, published, manager, running>> /\ HoldsVersions'
  BY FinishHolds DEF SyncFails, CtlIInv
<1>5. /\ \A q \in Infos : q # r => infos'[q] = infos[q]
      /\ infos'[r].cluster = c
  BY <1>2, <1>3 DEF CtlIInv, CtlTypeOK
<1>6. CtlTypeOK'
  BY <1>2, <1>3, <1>4, <1>5 DEF CtlIInv, CtlTypeOK
<1>7. OthersKept(c)
  BY <1>2, <1>4, <1>5 DEF OthersKept, RoutedTo, CtlIInv, CtlTypeOK
<1>8. c \notin Sound
  BY <1>0, <1>1 DEF Sound
<1>9. QED
  BY <1>0, <1>1, <1>4, <1>6, <1>7, <1>8, LocalStep DEF CtlIInv

\* Informer events and the queue's own steps leave the routes alone.
LEMMA EventStep ==
    ASSUME CtlIInv, UNCHANGED <<manager, infos>>,
           lister' \in [Clusters -> Items \union {NoItem}], published' \subseteq Items,
           \A c \in Clusters : lister'[c] # NoItem => ClusterOf[lister'[c]] = c,
           running' \in BOOLEAN, HoldsVersions'
    PROVE  CtlIInv' /\ NoHostStolen
<1>1. CtlTypeOK'
  BY DEF CtlIInv, CtlTypeOK
<1>2. \A n, c : RoutedTo(n, c)' <=> RoutedTo(n, c)
  BY DEF RoutedTo
<1>3. RoutesExact'
  <2>1. ASSUME NEW c \in Clusters PROVE RoutesOf(c)' <=> RoutesOf(c)
    BY DEF RoutesOf, RoutedTo
  <2>2. QED
    BY <2>1 DEF CtlIInv, RoutesExact, Sound
<1>4. NoHostStolen
  BY <1>2 DEF NoHostStolen, RoutedTo
<1>5. QED
  BY <1>1, <1>3, <1>4 DEF CtlIInv

\* The queue's steps other than the end of a handler hold versions only.
LEMMA QueueStepHolds ==
    ASSUME HoldsVersions,
           \/ \E i \in Items : Enqueue(i) \/ Ripen(i)
           \/ \E w \in Workers : StartWorker(w) \/ Get(w)
           \/ UNCHANGED queueVars
    PROVE  HoldsVersions'
<1>1. ASSUME NEW i \in Items, Enqueue(i) \/ Ripen(i) PROVE HoldsVersions'
  <2>1. queue' \in Seq(Items) /\ UNCHANGED <<worker, held>>
    <3>1. Append(queue, i) \in Seq(Items) /\ queue \in Seq(Items)
      BY DEF HoldsVersions
    <3>2. Add(i) /\ UNCHANGED <<worker, held>>
      BY <1>1 DEF Enqueue, Ripen
    <3>3. QED
      BY <3>1, <3>2 DEF Add
  <2>2. QED
    BY <2>1 DEF HoldsVersions
<1>2. ASSUME NEW w \in Workers, StartWorker(w) PROVE HoldsVersions'
  BY <1>2 DEF StartWorker, HoldsVersions
<1>3. ASSUME NEW w \in Workers, Get(w) PROVE HoldsVersions'
  <2>1. CASE queue = <<>>
    BY <1>3, <2>1 DEF Get, HoldsVersions
  <2>2. CASE queue # <<>>
    <3>1. /\ Head(queue) \in Items /\ Tail(queue) \in Seq(Items)
          /\ queue' = Tail(queue)
          /\ held' = [held EXCEPT ![w] = Head(queue)]
          /\ worker' = [worker EXCEPT ![w] = "busy"]
      BY <1>3, <2>2 DEF Get, HoldsVersions
    <3>2. QED
      BY <3>1 DEF HoldsVersions
  <2>3. QED
    BY <2>1, <2>2
<1>4. CASE UNCHANGED queueVars
  BY <1>4 DEF queueVars, HoldsVersions
<1>5. QED
  BY <1>1, <1>2, <1>3, <1>4

\* A sequence of the elements of a finite set holds each once.
LEMMA SeqOfSet ==
    ASSUME NEW S, IsFiniteSet(S), NEW q \in Bijection(1..Cardinality(S), S)
    PROVE  /\ q \in Seq(S)
           /\ \A m, n \in 1..Len(q) : q[m] = q[n] => m = n
           /\ \A x \in S : \E n \in 1..Len(q) : q[n] = x
           /\ \A n \in 1..Len(q) : q[n] \in S
<1> DEFINE D == 1..Cardinality(S)
<1>1. /\ q \in [D -> S] /\ \A m, n \in D : q[m] = q[n] => m = n
      /\ \A x \in S : \E n \in D : q[n] = x
  BY DEF Bijection, Injection, Surjection, IsInjective
<1>2. Cardinality(S) \in Nat
  BY FS_CardinalityType
<1>3. q \in Seq(S) /\ Len(q) = Cardinality(S)
  BY <1>1, <1>2
<1> QED
  BY <1>1, <1>3

\* The versions the lister holds, which a restart queues.
Listed == {lister[c] : c \in Clusters} \ {NoItem}

\* A restart queues every listed version once, in some order.
LEMMA RestartOrder ==
    ASSUME CtlIInv, Restart
    PROVE  /\ Listed \subseteq Items
           /\ queue' \in Seq(Listed)
           /\ \A m, n \in 1..Len(queue') : queue'[m] = queue'[n] => m = n
           /\ \A i \in Listed : \E n \in 1..Len(queue') : queue'[n] = i
           /\ \A n \in 1..Len(queue') : queue'[n] \in Listed
<1>1. Listed \subseteq Items
  BY DEF CtlIInv, CtlTypeOK, Listed
<1>2. IsFiniteSet(Listed)
  <2> DEFINE T == {lister[c] : c \in Clusters}
  <2>1. lister \in Surjection(Clusters, T)
    BY DEF CtlIInv, CtlTypeOK, Surjection
  <2>2. IsFiniteSet(T)
    <3> HIDE DEF T
    <3> QED
      BY <2>1, ControllerAssumption, FS_Surjection
  <2> QED
    BY <2>2, FS_Subset DEF Listed
<1>3. queue' \in Bijection(1..Cardinality(Listed), Listed)
  BY DEF Restart, Listed
<1> QED
  <2> PICK q : q = queue'
    OBVIOUS
  <2> QED
    BY <1>1, <1>2, <1>3, SeqOfSet

\* A panic forgets everything; a restart queues the listed versions.
LEMMA CrashStep ==
    ASSUME CtlIInv, (\E w \in Workers : SyncPanic(w)) \/ Restart
    PROVE  CtlIInv' /\ NoHostStolen
<1>1. ASSUME NEW w \in Workers, SyncPanic(w) PROVE CtlIInv' /\ NoHostStolen
  <2>1. /\ \A n \in ServerNames : manager'[n] = NoInfo
        /\ CtlTypeOK'
    BY <1>1, Zenon DEF SyncPanic, NoRoutes, UnusedInfo, CtlIInv, CtlTypeOK
  <2>2. HoldsVersions'
    <3>1. /\ queue' = <<>>
          /\ held' = [v \in Workers |-> NoItem]
          /\ worker' = [v \in Workers |-> "parked"]
      BY <1>1 DEF SyncPanic
    <3>2. QED
      BY <3>1 DEF HoldsVersions
  <2>3. \A n \in ServerNames, c \in Clusters : ~RoutedTo(n, c)'
    BY <2>1, Zenon DEF RoutedTo
  <2>4. QED
    BY <2>1, <2>2, <2>3 DEF CtlIInv, RoutesExact, RoutesOf, Sound, NoHostStolen
<1>2. CASE Restart
  <2>4. queue' \in Seq(Items)
    BY <1>2, RestartOrder
  <2>5. HoldsVersions'
    BY <1>2, <2>4 DEF Restart, CtlIInv, HoldsVersions
  <2>6. QED
    BY <1>2, <2>5, EventStep DEF Restart, CtlIInv, CtlTypeOK
<1>3. QED
  BY <1>1, <1>2

\* Every step keeps the inductive invariant and steals no host.
LEMMA NextCtlIInv == CtlIInv /\ [Next]_vars => CtlIInv' /\ NoHostStolen
<1> SUFFICES ASSUME CtlIInv, [Next]_vars PROVE CtlIInv' /\ NoHostStolen
  OBVIOUS
<1>1. ASSUME NEW o \in Items, Publish(o) PROVE CtlIInv' /\ NoHostStolen
  <2>1. HoldsVersions'
    BY <1>1, QueueStepHolds DEF Publish, CtlIInv
  <2>2. lister' \in [Clusters -> Items \union {NoItem}]
    BY <1>1, ControllerAssumption DEF Publish, CtlIInv, CtlTypeOK
  <2>3. \A c \in Clusters : lister'[c] # NoItem => ClusterOf[lister'[c]] = c
    BY <1>1, ControllerAssumption DEF Publish, CtlIInv, CtlTypeOK
  <2>4. QED
    BY <1>1, <2>1, <2>2, <2>3, EventStep DEF Publish, CtlIInv, CtlTypeOK
<1>2. ASSUME NEW c \in Clusters, DeleteCluster(c) \/ MissDelete(c)
      PROVE  CtlIInv' /\ NoHostStolen
  <2>1. lister[c] \in Items
    BY <1>2 DEF DeleteCluster, MissDelete, CtlIInv, CtlTypeOK
  <2>2. HoldsVersions'
    BY <1>2, <2>1, QueueStepHolds DEF DeleteCluster, MissDelete, CtlIInv
  <2>3. /\ lister' = [lister EXCEPT ![c] = NoItem]
        /\ UNCHANGED <<published, manager, infos, running>>
    BY <1>2 DEF DeleteCluster, MissDelete
  <2>4. QED
    BY <2>2, <2>3, EventStep DEF CtlIInv, CtlTypeOK
<1>3. ASSUME NEW w \in Workers, Sync(w) PROVE CtlIInv' /\ NoHostStolen
  <2>1. CASE SyncConflict(w)
    <3>1. HoldsVersions' /\ UNCHANGED ctlVars
      BY <2>1, FinishHolds DEF SyncConflict, CtlIInv
    <3>2. QED
      BY <3>1, EventStep DEF ctlVars, CtlIInv, CtlTypeOK
  <2>2. QED
    BY <1>3, <2>1, DeletedStep, CreateStep, UpdateStep, FailsStep, CrashStep, Zenon DEF Sync
<1>4. CASE Queueing \/ UNCHANGED vars
  <2>1. UNCHANGED ctlVars /\ HoldsVersions'
    BY <1>4, QueueStepHolds DEF Queueing, vars, CtlIInv
  <2>2. QED
    BY <2>1, EventStep DEF ctlVars, CtlIInv, CtlTypeOK
<1>5. CASE Restart
  BY <1>5, CrashStep
<1>6. QED
  BY <1>1, <1>2, <1>3, <1>4, <1>5 DEF Next

\* CtlIInv holds in every reachable state of the controller.
THEOREM CtlInvariance == Spec => []CtlIInv
<1>1. CtlIInv /\ [Next]_vars => CtlIInv'
  BY NextCtlIInv
<1>2. QED
  BY <1>1, InitCtlIInv, PTL DEF Spec

\* syncUpstreamCluster keeps the variables' shape; the manager only holds ClusterInfos
\* that were created for a cluster.
THEOREM CtlTypeCorrect == Spec => []CtlTypeOK
<1>1. CtlIInv => CtlTypeOK
  BY DEF CtlIInv
<1>2. QED
  BY <1>1, CtlInvariance, PTL

\* syncUpstreamCluster keeps the manager in step with the ClusterInfos of every cluster
\* whose versions all apply: no host is left behind, missing or routed to a stopped
\* ClusterInfo.
THEOREM RoutesAreExact == Spec => []RoutesExact
<1>1. CtlIInv => RoutesExact
  BY DEF CtlIInv
<1>2. QED
  BY <1>1, CtlInvariance, PTL

\* The conflict check keeps every cluster's hosts from every other cluster, faulty
\* versions, stale versions and restarts included.
THEOREM HostsAreNotStolen == Spec => NoTheft
<1>1. CtlIInv /\ [Next]_vars => [NoHostStolen]_vars
  BY NextCtlIInv
<1>2. Spec => [][NoHostStolen]_vars
  BY <1>1, CtlInvariance, PTL DEF Spec
<1>3. QED
  BY <1>2 DEF NoHostStolen, NoTheft

-----------------------------------------------------------------------------
(* The controller together with its queue *)

\* The queue is never shut down, and a process that is down holds nothing: no routes, no
\* item that is due, no busy worker.
DownIsEmpty ==
    /\ shuttingDown = FALSE
    /\ ~running => /\ manager = NoRoutes
                   /\ dirty = {}
                   /\ \A w \in Workers : worker[w] # "busy"

\* A deletion that the watch has seen is not forgotten: as long as a deleted cluster is
\* routed to, a version of it is due or with a worker.
DeletionsPending ==
    \A c \in Sound \ Missable :
        running /\ lister[c] = NoItem /\ (\E n \in ServerNames : RoutedTo(n, c)) =>
            \E o \in Items : ClusterOf[o] = c /\ (o \in dirty \/ \E w \in Workers : held[w] = o)

\* The results of syncUpstreamCluster are results of a handler.
LEMMA ResultsAreOutcomes == Done \in Outcomes /\ Later \in Outcomes
  BY ControllerAssumption DEF Done, Later, Outcomes

\* What a handler that returns does to the queue.
LEMMA SyncFinishes ==
    ASSUME NEW w \in Workers, Sync(w), ~SyncPanic(w)
    PROVE  /\ \E out \in Outcomes : Finish(w, out)
           /\ running' = running /\ lister' = lister
<1>1. Finish(w, Done) \/ Finish(w, Later)
  BY Zenon DEF Sync, SyncDeleted, SyncConflict, SyncCreate, SyncUpdate, SyncFails
<1>2. running' = running /\ lister' = lister
  BY Zenon DEF Sync, SyncDeleted, SyncConflict, SyncCreate, SyncUpdate, SyncFails, ctlVars
<1> QED
  BY <1>1, <1>2, ResultsAreOutcomes, Zenon

\* To the queue every step of the controller is one of its own steps, except for a panic and
\* the restart after it.
LEMMA ControllerUsesQueue ==
    ASSUME CtlIInv, [Next]_vars
    PROVE  \/ [QueueNext]_queueVars
           \/ \E w \in Workers : SyncPanic(w)
           \/ Restart
<1>1. ASSUME NEW o \in Items, Publish(o) PROVE QueueNext
  BY <1>1 DEF Publish, QueueNext
<1>2. ASSUME NEW c \in Clusters, DeleteCluster(c) PROVE QueueNext
  <2>1. lister[c] \in Items /\ Enqueue(lister[c])
    BY <1>2 DEF DeleteCluster, CtlIInv, CtlTypeOK
  <2> QED
    BY <2>1 DEF QueueNext
<1>3. ASSUME NEW c \in Clusters, MissDelete(c) PROVE UNCHANGED queueVars
  BY <1>3 DEF MissDelete
<1>4. ASSUME NEW w \in Workers, Sync(w), ~SyncPanic(w) PROVE QueueNext
  BY <1>4, SyncFinishes DEF QueueNext
<1>5. CASE Queueing
  BY <1>5 DEF Queueing, QueueNext
<1>6. CASE UNCHANGED vars
  BY <1>6 DEF vars
<1> QED
  BY <1>1, <1>2, <1>3, <1>4, <1>5, <1>6 DEF Next

\* A panic leaves an empty queue.
LEMMA PanicEmpties ==
    ASSUME DownIsEmpty, NEW w \in Workers, SyncPanic(w)
    PROVE  QueueIInv'
<1>1. QueueInit'
  BY DEF SyncPanic, QueueInit, DownIsEmpty
<1>2. (QueueInit => QueueIInv)'
  BY InitQueueIInv, PTL
<1> QED
  BY <1>1, <1>2

\* A restart queues every listed version, and nothing else is due.
LEMMA RestartQueues ==
    ASSUME CtlIInv, QueueIInv, DownIsEmpty, Restart
    PROVE  QueueIInv'
<1> DEFINE listed == Listed
<1>1. listed \subseteq Items
  BY RestartOrder
<1>3. /\ dirty' = listed
      /\ UNCHANGED <<processing, waiting, numRequeues, shuttingDown, worker, held>>
  BY DEF Restart, Listed
<1>4. /\ queue' \in Seq(listed)
      /\ \A m, n \in 1..Len(queue') : queue'[m] = queue'[n] => m = n
      /\ \A i \in listed : \E n \in 1..Len(queue') : queue'[n] = i
      /\ \A n \in 1..Len(queue') : queue'[n] \in listed
  BY RestartOrder
<1> HIDE DEF listed
<1>5. \A w \in Workers : held[w] = NoItem
  BY DEF Restart, DownIsEmpty, QueueIInv, QueueTypeOK
<1>6. processing = {}
  BY <1>5, QueueAssumption DEF QueueIInv, QueueTypeOK, ProcessingHeld
<1>7. QueueTypeOK'
  <2>1. queue' \in Seq(Items)
    BY <1>1, <1>4
  <2>2. \A w \in Workers : worker'[w] = "busy" <=> held'[w] # NoItem
    BY <1>3 DEF QueueIInv, QueueTypeOK
  <2> QED
    BY <1>1, <1>3, <1>4, <2>1, <2>2 DEF QueueIInv, QueueTypeOK
<1>8. QueuedDirty'
  BY <1>3, <1>4, <1>6 DEF QueuedDirty
<1>9. ProcessingHeld' /\ NoConcurrentHandler' /\ RetriesBounded'
  BY <1>3 DEF QueueIInv, ProcessingHeld, NoConcurrentHandler, RetriesBounded
<1>10. NeverLost'
  BY <1>3, <1>4 DEF NeverLost
<1> QED
  BY <1>7, <1>8, <1>9, <1>10 DEF QueueIInv

\* The queue keeps what it promises under the controller.
LEMMA NextControllerQueue ==
    ASSUME CtlIInv, DownIsEmpty, QueueIInv, [Next]_vars
    PROVE  QueueIInv'
<1>1. CASE [QueueNext]_queueVars
  BY <1>1, NextQueueIInv
<1> QED
  BY <1>1, ControllerUsesQueue, PanicEmpties, RestartQueues

\* Only a restart ends the time in which the process is down.
LEMMA NextDownIsEmpty ==
    ASSUME CtlIInv, DownIsEmpty, [Next]_vars
    PROVE  DownIsEmpty'
<1>1. ASSUME NEW w \in Workers, SyncPanic(w) PROVE DownIsEmpty'
  BY <1>1 DEF SyncPanic, DownIsEmpty
<1>2. CASE Restart
  BY <1>2 DEF Restart, DownIsEmpty
<1>3. ASSUME NEW w \in Workers, Sync(w), ~SyncPanic(w) PROVE DownIsEmpty'
  <2>1. PICK out \in Outcomes : Finish(w, out)
    BY <1>3, SyncFinishes
  <2>2. worker[w] = "busy" /\ shuttingDown' = shuttingDown
    BY <2>1 DEF Finish
  <2>3. running' = running
    BY <1>3, SyncFinishes
  <2> QED
    BY <2>2, <2>3 DEF DownIsEmpty
<1>4. ASSUME NEW o \in Items, Publish(o) PROVE DownIsEmpty'
  BY <1>4 DEF Publish, Enqueue, DownIsEmpty
<1>5. ASSUME NEW c \in Clusters, DeleteCluster(c) \/ MissDelete(c) PROVE DownIsEmpty'
  BY <1>5 DEF DeleteCluster, MissDelete, Enqueue, queueVars, DownIsEmpty
<1>6. CASE Queueing
  BY <1>6 DEF Queueing, Ripen, StartWorker, Get, ctlVars, DownIsEmpty
<1>7. CASE UNCHANGED vars
  BY <1>7 DEF vars, ctlVars, queueVars, DownIsEmpty
<1> QED
  BY <1>1, <1>2, <1>3, <1>4, <1>5, <1>6, <1>7 DEF Next

\* What DeletionsPending says of one cluster: some version of c is due or with a worker.
VersionPending(c) ==
    \E o \in Items : ClusterOf[o] = c /\ (o \in dirty \/ \E w \in Workers : held[w] = o)

\* The queue's own steps take no version away: an item that is due stays due until a worker
\* has it.
LEMMA QueueKeepsPending ==
    ASSUME QueueIInv, NEW c, VersionPending(c),
           \/ \E i \in Items : Enqueue(i) \/ Ripen(i)
           \/ \E w \in Workers : StartWorker(w) \/ Get(w)
           \/ UNCHANGED queueVars
    PROVE  VersionPending(c)'
<1>1. ASSUME NEW i \in Items, Enqueue(i) \/ Ripen(i) PROVE dirty \subseteq dirty' /\ held' = held
  BY <1>1 DEF Enqueue, Ripen, Add
<1>2. ASSUME NEW w \in Workers, StartWorker(w) PROVE dirty' = dirty /\ held' = held
  BY <1>2 DEF StartWorker
<1>3. ASSUME NEW w \in Workers, Get(w) PROVE VersionPending(c)'
  <2>1. CASE queue = <<>>
    BY <1>3, <2>1 DEF Get, VersionPending
  <2>2. CASE queue # <<>>
    <3>1. /\ dirty' = dirty \ {Head(queue)}
          /\ held' = [held EXCEPT ![w] = Head(queue)]
          /\ worker[w] = "polling"
      BY <1>3, <2>2 DEF Get
    <3>2. held[w] = NoItem /\ held \in [Workers -> Items \union {NoItem}]
      BY <3>1 DEF QueueIInv, QueueTypeOK
    <3>3. PICK o \in Items : ClusterOf[o] = c /\ (o \in dirty \/ \E v \in Workers : held[v] = o)
      BY DEF VersionPending
    <3>4. o # NoItem
      BY QueueAssumption
    <3>5. o \in dirty' \/ \E v \in Workers : held'[v] = o
      BY <3>1, <3>2, <3>3, <3>4
    <3> QED
      BY <3>3, <3>5 DEF VersionPending
  <2> QED
    BY <2>1, <2>2
<1>4. CASE UNCHANGED queueVars
  BY <1>4 DEF queueVars, VersionPending
<1> QED
  BY <1>1, <1>2, <1>3, <1>4 DEF VersionPending

\* A handler that returns takes away a version of its own cluster only.
LEMMA FinishKeepsPending ==
    ASSUME QueueIInv, NEW w \in Workers, NEW out \in Outcomes, Finish(w, out),
           NEW c, c # ClusterOf[held[w]], VersionPending(c)
    PROVE  VersionPending(c)'
<1>1. /\ dirty' = dirty
      /\ held' = [held EXCEPT ![w] = NoItem] /\ held \in [Workers -> Items \union {NoItem}]
  BY DEF Finish, QueueIInv, QueueTypeOK
<1>2. PICK o \in Items : ClusterOf[o] = c /\ (o \in dirty \/ \E v \in Workers : held[v] = o)
  BY DEF VersionPending
<1>3. o \in dirty' \/ \E v \in Workers : held'[v] = o
  BY <1>1, <1>2, Zenon
<1> QED
  BY <1>2, <1>3, Zenon DEF VersionPending

\* What a handler that returns does to the routes: those of other clusters do not grow, and
\* a deleted cluster loses all of its own.
LEMMA SyncRoutes ==
    ASSUME CtlIInv, NEW w \in Workers, Sync(w), ~SyncPanic(w),
           NEW c \in Sound, NEW n \in ServerNames, RoutedTo(n, c)', lister[c] = NoItem
    PROVE  RoutedTo(n, c) /\ c # ClusterOf[held[w]]
<1>1. c \in Clusters
  BY Zenon DEF Sound
<1>2. CASE SyncDeleted(w)
  <2>1. c # ClusterOf[held[w]]
    BY <1>2, DeletedStep
  <2>2. OthersKept(ClusterOf[held[w]])
    BY <1>2, DeletedStep
  <2> QED
    BY <1>1, <2>1, <2>2, Zenon DEF OthersKept
<1>3. CASE SyncConflict(w)
  BY <1>3, Zenon DEF SyncConflict, ctlVars, RoutedTo
<1>4. CASE SyncCreate(w) \/ SyncUpdate(w) \/ SyncFails(w)
  <2>1. c # ClusterOf[held[w]]
    BY <1>4, Zenon DEF SyncCreate, SyncUpdate, SyncFails, Accepted
  <2>2. OthersKept(ClusterOf[held[w]])
    BY <1>4, CreateStep, UpdateStep, FailsStep
  <2> QED
    BY <1>1, <2>1, <2>2 DEF OthersKept
<1> QED
  BY <1>2, <1>3, <1>4, Zenon DEF Sync

\* Every step keeps the deletions pending.
LEMMA NextDeletionsPending ==
    ASSUME CtlIInv, QueueIInv, DownIsEmpty, DeletionsPending, [Next]_vars
    PROVE  DeletionsPending'
<1> SUFFICES ASSUME NEW c \in Sound \ Missable, running', lister'[c] = NoItem,
                    NEW n \in ServerNames, RoutedTo(n, c)'
             PROVE  VersionPending(c)'
  BY DEF DeletionsPending, VersionPending, Sound
<1>0. c \in Clusters /\ c \in Sound
  BY DEF Sound
<1>1. running /\ lister[c] = NoItem /\ RoutedTo(n, c) => VersionPending(c)
  BY DEF DeletionsPending, VersionPending
<1>2. ASSUME NEW o \in Items, Publish(o) PROVE VersionPending(c)'
  <2>1. /\ running /\ Enqueue(o) /\ lister[c] = NoItem /\ RoutedTo(n, c)
    <3>1. o # NoItem
      BY QueueAssumption
    <3>2. lister' = [lister EXCEPT ![ClusterOf[o]] = o] /\ UNCHANGED <<manager, infos, running>>
          /\ Enqueue(o) /\ running
      BY <1>2 DEF Publish
    <3>3. lister[c] = NoItem
      BY <1>0, <3>1, <3>2 DEF CtlIInv, CtlTypeOK
    <3> QED
      BY <3>2, <3>3 DEF RoutedTo
  <2> QED
    BY <1>1, <2>1, QueueKeepsPending
<1>3. ASSUME NEW d \in Clusters, DeleteCluster(d) PROVE VersionPending(c)'
  <2>1. /\ running /\ lister[d] \in Items /\ Enqueue(lister[d]) /\ ClusterOf[lister[d]] = d
        /\ lister' = [lister EXCEPT ![d] = NoItem] /\ UNCHANGED <<manager, infos>>
    BY <1>3 DEF DeleteCluster, CtlIInv, CtlTypeOK
  <2>2. CASE c = d
    <3>1. lister[d] \in dirty'
      BY <2>1, Zenon DEF Enqueue, Add
    <3> QED
      BY <2>1, <2>2, <3>1, Zenon DEF VersionPending
  <2>3. CASE c # d
    <3>1. lister[c] = NoItem /\ RoutedTo(n, c)
      BY <1>0, <2>1, <2>3 DEF CtlIInv, CtlTypeOK, RoutedTo
    <3> QED
      BY <1>1, <2>1, <3>1, QueueKeepsPending, Zenon
  <2> QED
    BY <2>2, <2>3
<1>4. ASSUME NEW d \in Clusters, MissDelete(d) PROVE VersionPending(c)'
  <2>1. /\ running /\ c # d /\ lister' = [lister EXCEPT ![d] = NoItem]
        /\ UNCHANGED <<manager, infos, queueVars>>
    BY <1>4, Zenon DEF MissDelete
  <2>2. lister[c] = NoItem /\ RoutedTo(n, c)
    BY <1>0, <2>1 DEF CtlIInv, CtlTypeOK, RoutedTo
  <2> QED
    BY <1>1, <2>1, <2>2, QueueKeepsPending
<1>5. ASSUME NEW w \in Workers, Sync(w), ~SyncPanic(w) PROVE VersionPending(c)'
  <2>1. PICK out \in Outcomes : Finish(w, out)
    BY <1>5, SyncFinishes, Zenon
  <2>2. running /\ lister[c] = NoItem
    BY <1>5, SyncFinishes, Zenon
  <2>3. RoutedTo(n, c) /\ c # ClusterOf[held[w]]
    BY <1>0, <1>5, <2>2, SyncRoutes
  <2> QED
    BY <1>1, <2>1, <2>2, <2>3, FinishKeepsPending
<1>6. ASSUME NEW w \in Workers, SyncPanic(w) PROVE FALSE
  BY <1>6 DEF SyncPanic
<1>7. CASE Restart
  <2>1. manager' = NoRoutes
    BY <1>7, Zenon DEF Restart, DownIsEmpty
  <2> QED
    BY <2>1, Zenon DEF RoutedTo, NoRoutes
<1>8. CASE Queueing \/ UNCHANGED vars
  <2>1. UNCHANGED ctlVars
    BY <1>8, Zenon DEF Queueing, vars
  <2>2. running /\ lister[c] = NoItem /\ RoutedTo(n, c)
    BY <2>1 DEF ctlVars, RoutedTo
  <2>3. \/ \E i \in Items : Ripen(i)
        \/ \E w \in Workers : StartWorker(w) \/ Get(w)
        \/ UNCHANGED queueVars
    BY <1>8 DEF Queueing, vars
  <2> QED
    BY <1>1, <2>2, <2>3, QueueKeepsPending
<1> QED
  BY <1>2, <1>3, <1>4, <1>5, <1>6, <1>7, <1>8, Zenon DEF Next

\* The invariant of the controller together with its queue.
ControllerIInv == CtlIInv /\ QueueIInv /\ DownIsEmpty /\ DeletionsPending

\* It holds in every reachable state, across panics and restarts.
THEOREM ControllerInvariance == Spec => []ControllerIInv
<1>1. Init => ControllerIInv
  <2>1. Init => QueueIInv
    BY InitQueueIInv DEF Init
  <2>2. Init => DownIsEmpty /\ DeletionsPending
    BY DEF Init, QueueInit, DownIsEmpty, DeletionsPending, RoutedTo, NoRoutes
  <2> QED
    BY <2>1, <2>2, InitCtlIInv DEF ControllerIInv
<1>2. ControllerIInv /\ [Next]_vars => ControllerIInv'
  BY NextCtlIInv, NextControllerQueue, NextDownIsEmpty, NextDeletionsPending DEF ControllerIInv
<1> QED
  BY <1>1, <1>2, PTL DEF Spec

\* The queue under the controller keeps what it promises on its own, although a panic empties
\* it and a restart fills it from the lister: no version that is due is lost, and none is
\* handled by two workers at once.
THEOREM ControllerLosesNoVersion == Spec => [](NeverLost /\ NoConcurrentHandler)
<1>1. ControllerIInv => NeverLost /\ NoConcurrentHandler
  BY DEF ControllerIInv, QueueIInv
<1> QED
  BY <1>1, ControllerInvariance, PTL

\* syncUpstreamCluster forgets no deletion that the watch has seen: while hosts are still
\* routed to a deleted cluster, a version of it is due or being handled, so that the handler
\* will ask the lister again. The deletion's taking effect rests on this and on fairness.
THEOREM DeletionsArePending == Spec => []DeletionsPending
<1>1. ControllerIInv => DeletionsPending
  BY DEF ControllerIInv
<1> QED
  BY <1>1, ControllerInvariance, PTL
=============================================================================
