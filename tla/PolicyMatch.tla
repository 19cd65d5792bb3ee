----------------------------- MODULE PolicyMatch -----------------------------
(***************************************************************************)
(* Which dispatch policy a request gets: MatchPolicies (pkg/clusters), the *)
(* field matchers of the API types (evaluation_helpers.go) and the         *)
(* normalisation of rules that admission does before a cluster is stored   *)
(* (normalizeRules).                                                       *)
(*                                                                         *)
(* A name is a sequence of parts: <<"pods">>, <<"pods", "log">>.  A field  *)
(* of a rule is a set of entries, since no matcher depends on their order; *)
(* an entry is reversed ("-pods") or not, and has a star at its end        *)
(* ("sys:*"), in front of its subresource ("*/log"), or none.              *)
(***************************************************************************)
EXTENDS Integers, Sequences, FiniteSets

Entry(name, star) == [reverse |-> FALSE, name |-> name, star |-> star]
Exact(name) == Entry(name, "none")
Reversed(entry) == [entry EXCEPT !.reverse = TRUE]
MatchAll == Entry(<<>>, "suffix")

\* HasSuffix(v, "*") && HasPrefix(request, TrimRight(v, "*"))
HasGlob(v, request) ==
    v.star = "suffix" /\ \E n \in 0..Len(request) : v.name = SubSeq(request, 1, n)

-----------------------------------------------------------------------------
(* evaluation_helpers.go *)

FilterRulesMixed(rules) == rules

\* filterRules: positive entries, or the reversed ones if there is no other.
FilterRules(rules) ==
    LET filtered == {r \in rules : ~r.reverse}
    IN  IF filtered # {} THEN filtered ELSE rules

MatchIgnoresReverse(v, request) == v.star = "none" /\ v.name = request

Match(v, request) ==
    LET same == v.star = "none" /\ v.name = request
    IN  IF v.reverse THEN ~same ELSE same

\* simpleMatches; what a caller passes as matchFn is a disjunct of the caller's.
SimpleMatches(rules, requests) ==
    \/ MatchAll \in rules
    \/ \E v \in FilterRules(rules), request \in requests : Match(v, request)

VerbMatches(verbs, request) == SimpleMatches(verbs, {request})

APIGroupMatches(groups, request) == SimpleMatches(groups, {request})

\* A rule for "*/log" matches the subresource of any resource.
MatchesSubresource(v, request) ==
    /\ Len(request) = 2
    /\ v.star = "prefix"
    /\ IF v.reverse THEN v.name # <<request[2]>> ELSE v.name = <<request[2]>>

ResourceMatches(resources, request) ==
    \/ SimpleMatches(resources, {request})
    \/ \E v \in FilterRules(resources) : MatchesSubresource(v, request)

ResourceNameMatches(names, request) == names = {} \/ SimpleMatches(names, {request})

UserOrServiceAccountMatches(users, serviceAccounts, request) ==
    \/ users = {} /\ serviceAccounts = {}
    \/ SimpleMatches(users, {request})
    \/ \E v \in FilterRules(users) : HasGlob(v, request)
    \/ request \in serviceAccounts

UserGroupMatches(groups, requests) == groups = {} \/ SimpleMatches(groups, requests)

NonResourceURLMatches(urls, request) ==
    \/ MatchAll \in urls
    \/ \E v \in FilterRules(urls) : ~v.reverse /\ (Match(v, request) \/ HasGlob(v, request))

-----------------------------------------------------------------------------
(* matcher.go *)

RuleMatches(request, rule) ==
    /\ VerbMatches(rule.verbs, request.verb)
    /\ UserOrServiceAccountMatches(rule.users, rule.serviceAccounts, request.user)
    /\ UserGroupMatches(rule.userGroups, request.groups)
    /\ IF request.isResource
       THEN /\ APIGroupMatches(rule.apiGroups, request.apiGroup)
            /\ ResourceMatches(rule.resources, request.resource)
            /\ ResourceNameMatches(rule.resourceNames, request.name)
       ELSE NonResourceURLMatches(rule.nonResourceURLs, request.path)

\* The index of the policy, 0 if there is none. A policy is a set of rules.
MatchPolicies(request, policies) ==
    LET matching == {i \in 1..Len(policies) : \E rule \in policies[i] : RuleMatches(request, rule)}
    IN  IF matching = {} THEN 0 ELSE CHOOSE i \in matching : \A j \in matching : i <= j

-----------------------------------------------------------------------------
(* normalizeRules of the admission plugin, with a filterRules of its own *)

Normalized(rules) ==
    LET filtered == {r \in rules : ~r.reverse}
    IN  IF MatchAll \in rules THEN {MatchAll} ELSE IF filtered # {} THEN filtered ELSE rules

NormalizeRules(rule) ==
    [field \in DOMAIN rule |-> IF field = "serviceAccounts" THEN rule[field]
                               ELSE Normalized(rule[field])]

-----------------------------------------------------------------------------
(* What the documentation says of a field (docs/en/design.md). *)

Covers(v, request) ==
    \/ v.star = "none" /\ v.name = request
    \/ HasGlob(v, request)
    \/ v.star = "prefix" /\ Len(request) = 2 /\ v.name = <<request[2]>>

Selected(rules, requests) ==
    LET positive == {r \in rules : ~r.reverse}
    IN  IF positive # {} THEN \E v \in positive, q \in requests : Covers(v, q)
        ELSE rules # {} /\ \E q \in requests : ~\E v \in rules : Covers(v, q)
=============================================================================
