-------------------------- MODULE UpstreamController --------------------------
(***************************************************************************)
(* The gateway's UpstreamClusterController: it turns UpstreamCluster       *)
(* objects into ClusterInfos and registers each under its server names in  *)
(* the manager, which every proxied request looks its host up in.          *)
(*                                                                         *)
(* The queue is a passthrough SyncQueue: an item is a version of an        *)
(* object, not a key, and the handler applies the version it was queued    *)
(* with, asking the lister only whether the cluster still exists.          *)
(* One worker runs, so a handler's map operations are one action here.     *)
(***************************************************************************)
EXTENDS SyncQueue, Functions

CONSTANTS
    Clusters,      \* cluster names; each is also a server name
    ServerNames,   \* hosts that requests name
    ClusterOf,     \* the cluster each object version belongs to
    NamesOf,       \* its server names, the cluster's own name included
    Fault,         \* where Sync fails on it: "none", "tls" or "endpoints"
    Infos,         \* addresses of ClusterInfo objects
    NoInfo,        \* nil
    NoCluster,     \* the cluster of memory that holds no ClusterInfo
    Missable       \* clusters whose deletion the watch may miss

ASSUME ControllerAssumption ==
    /\ Clusters \subseteq ServerNames
    /\ IsFiniteSet(Clusters)
    /\ ClusterOf \in [Items -> Clusters]
    /\ NamesOf \in [Items -> SUBSET ServerNames]
    /\ \A o \in Items : ClusterOf[o] \in NamesOf[o]
    /\ Fault \in [Items -> {"none", "tls", "endpoints"}]
    /\ NoInfo \notin Infos
    /\ NoCluster \notin Clusters
    /\ Missable \subseteq Clusters
    /\ {0, 3} \subseteq MaxTimes

VARIABLES
    lister,     \* the informer's cache: the current version of each cluster
    published,  \* versions the API server has ever sent
    manager,    \* clusters.manager: the ClusterInfo behind each server name
    infos,      \* the ClusterInfo objects
    running     \* FALSE from a panic of the worker to the restart

ctlVars == <<lister, published, manager, infos, running>>
vars == <<ctlVars, queueVars>>

NoRoutes == [n \in ServerNames |-> NoInfo]

UnusedInfo == [cluster |-> NoCluster, names |-> {}, config |-> NoItem, stopped |-> TRUE]

Init ==
    /\ QueueInit
    /\ lister = [c \in Clusters |-> NoItem]
    /\ published = {}
    /\ manager = NoRoutes
    /\ infos = [r \in Infos |-> UnusedInfo]
    /\ running = TRUE

FreeInfos == {r \in Infos : \A n \in ServerNames : manager[n] # r}

\* Whether host n is routed to cluster c.
RoutedTo(n, c) == manager[n] # NoInfo /\ infos[manager[n]].cluster = c

\* Whether host n is routed to a cluster other than c.
TakenFrom(n, c) == manager[n] # NoInfo /\ infos[manager[n]].cluster # c

-----------------------------------------------------------------------------
(* Informer events.  The cache is updated first, then the handler runs.      *)

\* A cluster is created or updated: AddFunc or UpdateFunc enqueues the version.
Publish(o) ==
    /\ running
    /\ o \notin published
    /\ published' = published \union {o}
    /\ lister' = [lister EXCEPT ![ClusterOf[o]] = o]
    /\ Enqueue(o)
    /\ UNCHANGED <<manager, infos, running>>

\* A cluster is deleted: DeleteFunc enqueues its last version.
DeleteCluster(c) ==
    /\ running
    /\ lister[c] # NoItem
    /\ lister' = [lister EXCEPT ![c] = NoItem]
    /\ Enqueue(lister[c])
    /\ UNCHANGED <<published, manager, infos, running>>

\* The watch missed the deletion and a relist found it: DeleteFunc gets a
\* DeletedFinalStateUnknown, which is no runtime.Object, and returns.
MissDelete(c) ==
    /\ running
    /\ c \in Missable
    /\ lister[c] # NoItem
    /\ lister' = [lister EXCEPT ![c] = NoItem]
    /\ UNCHANGED <<published, manager, infos, running, queueVars>>

-----------------------------------------------------------------------------
(* syncUpstreamCluster on the version o = held[w].                           *)

Done == [err |-> FALSE, requeue |-> FALSE, maxRequeueTimes |-> 0]
Later == [err |-> FALSE, requeue |-> TRUE, maxRequeueTimes |-> 3]

ConflictIgnoresNewNames(c, o) ==
    LET old == IF manager[c] = NoInfo THEN {} ELSE infos[manager[c]].names
    IN  \E n \in old : TakenFrom(n, c)

\* checkServerNameConflict.  The lists begin with the cluster's own name, so
\* they are equal only for one cluster.
Conflict(c, o) ==
    LET r == manager[c]
        old == IF r = NoInfo THEN {} ELSE infos[r].names
    IN  /\ ~(RoutedTo(c, c) /\ old = NamesOf[o])
        /\ \E n \in NamesOf[o] \union old : TakenFrom(n, c)

DeleteOwnNameOnly(c) == {c} \intersect {n \in ServerNames : RoutedTo(n, c)}

AddOrUpdateKeepsDropped(old, new, c, r) ==
    [n \in ServerNames |-> IF n \in new THEN r ELSE manager[n]]

AddOrUpdateForgetsOthers(old, new, c, r) == [n \in new |-> r]

\* The hosts that DeleteForServerNames removes: those registered for c among the
\* server names of the ClusterInfo behind c's own name.
DeleteForServerNames(c) ==
    IF manager[c] = NoInfo THEN {}
    ELSE {n \in infos[manager[c]].names : RoutedTo(n, c)}

\* The manager after ClusterInfo r of cluster c got other server names: names it
\* dropped are deleted, new ones are added.
AddOrUpdateForServerNames(old, new, c, r) ==
    [n \in ServerNames |-> CASE n \in old \ new /\ RoutedTo(n, c) -> NoInfo
                            [] n \in new \ old -> r
                            [] OTHER -> manager[n]]

\* The cluster is gone: its hosts are deleted and its ClusterInfo is stopped.
SyncDeleted(w) ==
    LET c == ClusterOf[held[w]]
        gone == DeleteForServerNames(c)
    IN  /\ worker[w] = "busy"
        /\ lister[c] = NoItem
        /\ manager' = [n \in ServerNames |-> IF n \in gone THEN NoInfo ELSE manager[n]]
        /\ infos' = [r \in Infos |-> [infos[r] EXCEPT !.stopped =
                                        @ \/ \E n \in gone : manager[n] = r]]
        /\ Finish(w, Done)
        /\ UNCHANGED <<lister, published, running>>

\* A server name belongs to another cluster: try again in 5 seconds.
SyncConflict(w) ==
    LET o == held[w]
    IN  /\ worker[w] = "busy"
        /\ lister[ClusterOf[o]] # NoItem
        /\ Conflict(ClusterOf[o], o)
        /\ Finish(w, Later)
        /\ UNCHANGED ctlVars

Accepted(w) ==
    LET o == held[w]
    IN  /\ worker[w] = "busy"
        /\ lister[ClusterOf[o]] # NoItem
        /\ ~Conflict(ClusterOf[o], o)

\* Bootstrap: CreateClusterInfo, then AddOrUpdateForServerNames(nil, info), whose
\* conflict check repeats the one just made.
SyncCreate(w) ==
    LET o == held[w]
        r == CHOOSE r \in FreeInfos : TRUE
    IN  /\ Accepted(w)
        /\ manager[ClusterOf[o]] = NoInfo
        /\ Fault[o] = "none"
        /\ FreeInfos # {}
        /\ infos' = [infos EXCEPT ![r] = [cluster |-> ClusterOf[o], names |-> NamesOf[o],
                                          config |-> o, stopped |-> FALSE]]
        /\ manager' = AddOrUpdateForServerNames({}, NamesOf[o], ClusterOf[o], r)
        /\ Finish(w, Done)
        /\ UNCHANGED <<lister, published, running>>

\* CreateClusterInfo fails and returns nil; the deferred clusterInfo.Stop()
\* dereferences it and the panic ends the process.
SyncPanic(w) ==
    LET o == held[w]
    IN  /\ Accepted(w)
        /\ manager[ClusterOf[o]] = NoInfo
        /\ Fault[o] # "none"
        /\ running' = FALSE
        /\ manager' = NoRoutes
        /\ infos' = [r \in Infos |-> UnusedInfo]
        /\ queue' = <<>> /\ dirty' = {} /\ processing' = {} /\ waiting' = {}
        /\ numRequeues' = [i \in Items |-> 0]
        /\ worker' = [v \in Workers |-> "parked"]
        /\ held' = [v \in Workers |-> NoItem]
        /\ UNCHANGED <<lister, published, shuttingDown>>

\* info.Sync(cluster), then AddOrUpdateForServerNames(oldServerNames, info), whose
\* conflict check repeats the one just made.
SyncUpdate(w) ==
    LET o == held[w]
        c == ClusterOf[o]
        r == manager[c]
    IN  /\ Accepted(w)
        /\ r # NoInfo
        /\ Fault[o] = "none"
        /\ infos' = [infos EXCEPT ![r].names = NamesOf[o], ![r].config = o]
        /\ manager' = AddOrUpdateForServerNames(infos[r].names, NamesOf[o], c, r)
        /\ Finish(w, Done)
        /\ UNCHANGED <<lister, published, running>>

\* info.Sync fails: before the secure serving config is stored ("tls"), or after
\* it, with the new server names, but before the dispatch policies ("endpoints").
\* The manager is left as it was.
SyncFails(w) ==
    LET o == held[w]
        r == manager[ClusterOf[o]]
    IN  /\ Accepted(w)
        /\ r # NoInfo
        /\ Fault[o] # "none"
        /\ infos' = [infos EXCEPT ![r].names = IF Fault[o] = "tls" THEN @ ELSE NamesOf[o]]
        /\ Finish(w, Later)
        /\ UNCHANGED <<lister, published, manager, running>>

\* The process restarts, lists the clusters and enqueues them in some order.
Restart ==
    /\ ~running
    /\ running' = TRUE
    /\ LET listed == {lister[c] : c \in Clusters} \ {NoItem}
       IN  /\ dirty' = listed
           /\ queue' \in Bijection(1..Cardinality(listed), listed)
    /\ UNCHANGED <<lister, published, manager, infos, processing, waiting, numRequeues,
                   shuttingDown, worker, held>>

Sync(w) == \/ SyncDeleted(w) \/ SyncConflict(w) \/ SyncCreate(w)
           \/ SyncPanic(w) \/ SyncUpdate(w) \/ SyncFails(w)

Queueing == /\ running
            /\ \/ \E i \in Items : Ripen(i)
               \/ \E w \in Workers : StartWorker(w) \/ Get(w)
            /\ UNCHANGED ctlVars

Next ==
    \/ \E o \in Items : Publish(o)
    \/ \E c \in Clusters : DeleteCluster(c) \/ MissDelete(c)
    \/ \E w \in Workers : Sync(w)
    \/ Queueing
    \/ Restart

Spec == Init /\ [][Next]_vars

\* The worker is scheduled, its handlers return, timers fire, and the process
\* is started again when it exits.
Fairness ==
    /\ \A i \in Items : WF_vars(running /\ Ripen(i) /\ UNCHANGED ctlVars)
    /\ \A w \in Workers :
          /\ WF_vars(running /\ StartWorker(w) /\ UNCHANGED ctlVars)
          /\ WF_vars(running /\ Get(w) /\ UNCHANGED ctlVars)
          /\ WF_vars(Sync(w))
    /\ WF_vars(Restart)

FairSpec == Spec /\ Fairness

-----------------------------------------------------------------------------
\* The shape of every variable of the controller; the memory of a ClusterInfo
\* that some name routes to is in use.
CtlTypeOK ==
    /\ lister \in [Clusters -> Items \union {NoItem}]
    /\ published \subseteq Items
    /\ \A c \in Clusters : lister[c] # NoItem => ClusterOf[lister[c]] = c
    /\ manager \in [ServerNames -> Infos \union {NoInfo}]
    /\ infos \in [Infos -> [cluster : Clusters \union {NoCluster}, names : SUBSET ServerNames,
                            config : Items \union {NoItem}, stopped : BOOLEAN]]
    /\ \A n \in ServerNames : manager[n] # NoInfo => infos[manager[n]].cluster # NoCluster
    /\ running \in BOOLEAN

\* Clusters of which no version makes Sync fail half way.
Sound == {c \in Clusters : \A o \in Items : ClusterOf[o] = c => Fault[o] = "none"}

\* The hosts routed to c are the server names of its one ClusterInfo, which is not
\* stopped, or there are none.
RoutesOf(c) ==
    LET routed == {n \in ServerNames : RoutedTo(n, c)}
    IN  routed # {} => /\ c \in routed
                       /\ routed = infos[manager[c]].names
                       /\ \A n \in routed : manager[n] = manager[c]
                       /\ ~infos[manager[c]].stopped

\* The manager agrees with the ClusterInfos through any sequence of creations,
\* renamings, conflicts and deletions (AddOrUpdateForServerNames,
\* DeleteForServerNames), whatever the queue does in between.
RoutesExact == \A c \in Sound : RoutesOf(c)

\* A host never passes from one cluster to another in one step: the conflict check
\* lets a cluster take a name only after the other one has given it up.
NoTheft ==
    [][\A n \in ServerNames, c \in Clusters :
          RoutedTo(n, c) => \A d \in Clusters \ {c} : ~RoutedTo(n, d)']_vars

\* A deleted cluster is eventually not routed to under any name, unless it is
\* created again.
Removed(c) ==
    lister[c] = NoItem ~> (lister[c] # NoItem \/ \A n \in ServerNames : ~RoutedTo(n, c))

\* A deletion that the watch sees takes effect, even when older versions of the
\* cluster are still queued, waiting or being handled (syncUpstreamCluster asks the
\* lister before anything else).
RemovedEventually == \A c \in Sound \ Missable : Removed(c)

\* So does a deletion that the informer learns of from a relist.
MissedRemovedEventually == \A c \in Missable : Removed(c)

\* The controller is through with the current version of cluster c.
Settled(c) ==
    /\ running
    /\ lister[c] # NoItem
    /\ lister[c] \notin dirty \union processing \union waiting
    /\ Fault[lister[c]] = "none"

\* Once the controller is through with the current version of a cluster, that is
\* the version requests are served with.
CurrentVersionServed ==
    \A c \in Clusters : Settled(c) => RoutedTo(c, c) /\ infos[manager[c]].config = lister[c]

\* Once the controller is through with the current version of a cluster, every
\* server name of that version is routed to it.
ServerNamesRouted ==
    \A c \in Clusters : Settled(c) => \A n \in NamesOf[lister[c]] : RoutedTo(n, c)
=============================================================================
