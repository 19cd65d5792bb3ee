------------------------------- MODULE MCParts -------------------------------
(***************************************************************************)
(* Four parts that do not share state, checked next to each other: quota   *)
(* allocation, server discovery, token counting and policy matching.  In a *)
(* behaviour one of them takes steps, from one of its scenarios; the       *)
(* others are idle.                                                        *)
(***************************************************************************)
EXTENDS QuotaAllocation, ServerDiscovery, TokenCounter, PolicyMatch

CONSTANTS g1, g2

VARIABLE probe  \* a field of a dispatch policy rule and a request, or Absent

-----------------------------------------------------------------------------
(* Scenarios of QuotaAllocation *)

NoGateways ==
    [losses |-> 0, delays |-> 0, changes |-> 0, deaths |-> 0, misses |-> 0, failures |-> 0,
     cleanup |-> FALSE, uses |-> {0}, totals |-> {8}, joined |-> {}, joining |-> {}]

Quiet == [NoGateways EXCEPT !.joined = {g1, g2}]

QuotaScenarios == {
    \* answers are lost, the total changes, updates arrive late
    [Quiet EXCEPT !.losses = 1, !.uses = {0, 1, 8}],
    [Quiet EXCEPT !.changes = 1, !.losses = 1, !.uses = {0, 8}, !.totals = {8, 3}],
    [Quiet EXCEPT !.delays = 1, !.uses = {0, 8}],
    \* gateways join, die, miss heartbeats, and are cleaned up
    [NoGateways EXCEPT !.cleanup = TRUE, !.misses = 1, !.deaths = 1, !.delays = 1,
                       !.failures = 1, !.totals = {3}, !.joining = {g1}],
    [Quiet EXCEPT !.cleanup = TRUE, !.misses = 1, !.totals = {3}],
    [Quiet EXCEPT !.cleanup = TRUE, !.deaths = 1, !.delays = 1, !.totals = {3}] }

-----------------------------------------------------------------------------
(* Scenarios of ServerDiscovery *)

NoServers == [servers |-> {}, elections |-> 0, crashes |-> 0, losses |-> 0, cleanups |-> 0]

DiscoveryScenarios == {
    [servers |-> Servers, elections |-> 2, crashes |-> 1, losses |-> 1, cleanups |-> 1],
    [servers |-> Servers, elections |-> 1, crashes |-> 2, losses |-> 0, cleanups |-> 1],
    [servers |-> Servers, elections |-> 1, crashes |-> 0, losses |-> 2, cleanups |-> 0] }

Discovering == faults.servers # {}

-----------------------------------------------------------------------------
(* Scenarios of TokenCounter *)

NotCounting ==
    [counting |-> FALSE, reserves |-> {1}, requests |-> 0, refusals |-> 0, errors |-> 0,
     resizes |-> 0, recreations |-> 0]

Counting == [NotCounting EXCEPT !.counting = TRUE, !.requests = 1]

TokenScenarios == {
    [Counting EXCEPT !.requests = 2, !.refusals = 1],
    [Counting EXCEPT !.errors = 1, !.reserves = {2}],
    [Counting EXCEPT !.resizes = 1, !.reserves = {1, 2}],
    [Counting EXCEPT !.recreations = 1] }

-----------------------------------------------------------------------------
(* Rules and requests of PolicyMatch: one field at a time *)

EveryRule ==
    [verbs |-> {MatchAll}, apiGroups |-> {MatchAll}, resources |-> {MatchAll},
     resourceNames |-> {MatchAll}, users |-> {MatchAll}, userGroups |-> {MatchAll},
     nonResourceURLs |-> {MatchAll}, serviceAccounts |-> {}]

BothWays(entries) == entries \union {Reversed(v) : v \in entries}

Pods == <<"pods">>
PodsLog == <<"pods", "log">>
Others == <<"others">>

Entries(field) ==
    {MatchAll} \union BothWays(
        CASE field = "resources" -> {Exact(Pods), Exact(PodsLog), Entry(<<"log">>, "prefix")}
          [] field \in {"users", "nonResourceURLs"} ->
               {Exact(Pods), Exact(PodsLog), Entry(Pods, "suffix")}
          [] OTHER -> {Exact(Pods), Exact(PodsLog)})

\* What the request has in the field: user groups are a set of their own.
Requested(field) ==
    CASE field = "userGroups" -> {{Pods}, {PodsLog}, {Pods, PodsLog}, {Others}}
      [] OTHER -> {{Pods}, {PodsLog}, {Others}, {<<"others", "log">>}}

Request(field, names) ==
    LET name(f) == IF f = field THEN CHOOSE n \in names : TRUE ELSE Others
    IN  [verb |-> name("verbs"), user |-> name("users"),
         groups |-> IF field = "userGroups" THEN names ELSE {Others},
         isResource |-> field # "nonResourceURLs",
         apiGroup |-> name("apiGroups"), resource |-> name("resources"),
         name |-> name("resourceNames"), path |-> name("nonResourceURLs")]

Probes ==
    UNION {[field : {field}, rules : SUBSET Entries(field), names : Requested(field)] :
           field \in DOMAIN EveryRule \ {"serviceAccounts"}}

\* The policy under test before a policy that takes every request.
Policies(p, Admitted(_)) ==
    << {Admitted([EveryRule EXCEPT ![p.field] = p.rules])}, {EveryRule} >>

Routed(p, Admitted(_)) == MatchPolicies(Request(p.field, p.names), Policies(p, Admitted))
AsWritten(rule) == rule

-----------------------------------------------------------------------------
PartsInit ==
    \/ /\ QuotaInit(QuotaScenarios)
       /\ DiscoveryInit({NoServers}) /\ TokenInit({NotCounting}) /\ probe = Absent
    \/ /\ DiscoveryInit(DiscoveryScenarios)
       /\ QuotaInit({NoGateways}) /\ TokenInit({NotCounting}) /\ probe = Absent
    \/ /\ TokenInit(TokenScenarios)
       /\ QuotaInit({NoGateways}) /\ DiscoveryInit({NoServers}) /\ probe = Absent
    \/ /\ probe \in Probes
       /\ QuotaInit({NoGateways}) /\ DiscoveryInit({NoServers}) /\ TokenInit({NotCounting})

PartsNext ==
    \/ QuotaNext /\ UNCHANGED <<discoveryVars, tokenVars, probe>>
    \/ Discovering /\ DiscoveryNext /\ UNCHANGED <<quotaVars, tokenVars, probe>>
    \/ TokenNext /\ UNCHANGED <<quotaVars, discoveryVars, probe>>

\* None of it binds the parts that are idle.
PartsFairness == QuotaFairness /\ DiscoveryFairness /\ TokenFairness

PartsSpec ==
    PartsInit /\ [][PartsNext]_<<quotaVars, discoveryVars, tokenVars, probe>> /\ PartsFairness

-----------------------------------------------------------------------------
\* normalizeRules: admission rewrites the rules of a cluster, and every request is still
\* routed to the policy that it would get with the rules as the user has written them.
NormalizationKeepsRouting ==
    probe # Absent => Routed(probe, NormalizeRules) = Routed(probe, AsWritten)

\* docs/en/design.md: "*" takes all, entries with "-" exclude and only count if there is no
\* other entry. The code does that for all lists except those that consist of several
\* entries with "-" or of one with a star as well; an empty list of verbs, API groups,
\* resources or URLs takes nothing, and URLs know no "-".
RoutedAsDocumented ==
    probe # Absent =>
        LET positive == {v \in probe.rules : ~v.reverse}
            optional == probe.field \in {"users", "userGroups", "resourceNames"}
            taken == IF probe.rules = {} THEN optional ELSE Selected(probe.rules, probe.names)
        IN  \/ Routed(probe, NormalizeRules) = IF taken THEN 1 ELSE 2
            \/ positive = {} /\ \/ probe.field = "nonResourceURLs"
                                \/ Cardinality(probe.rules) > 1
                                \/ \E v \in probe.rules : v.star # "none"
=============================================================================
