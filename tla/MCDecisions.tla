----------------------------- MODULE MCDecisions -----------------------------
(***************************************************************************)
(* The decision procedures of AccessControl, Delegation and ProofChain on  *)
(* every input of a small set: a behaviour picks an input and evaluates    *)
(* the procedure it is for.  The properties compare the outcome with what  *)
(* the procedure promises.                                                 *)
(***************************************************************************)
EXTENDS Delegation, ProofChain

CONSTANTS MaxPattern, MaxText,   \* lengths of glob patterns and texts
          MaxLinks,              \* length of delegation chains
          MaxEvents,             \* length of event chains
          MaxDay                 \* days of the calendar after 1970-01-01

VARIABLES input, output

vars == <<input, output>>

Words(alphabet, n) == UNION {[1..k -> alphabet] : k \in 0..n}

(***************************************************************************)
(* Guards and queries                                                      *)
(***************************************************************************)
ReadName == <<"f", "r">>
Guards ==
  {[actions |-> {[name |-> ReadName, approval |-> ap, danger_tags |-> tags,
                  allow_targets |-> at, deny_targets |-> {<<"b">>},
                  allow_actors |-> aa, deny_actors |-> {}]},
    forbidden |-> {<<"f", "x">>}, negative |-> {},
    target_sets |-> {[name |-> <<"s">>, patterns |-> {<<"a", "/", "*">>}]}] :
   ap \in {"none", "required"}, tags \in {{}, {"privacy"}, {"financial"}},
   at \in {{}, {<<"a", "*">>, <<"@", "s">>}}, aa \in {{}, {<<"u", "*">>}}}

\* What an operator may add to a guard to refuse more.
Restrictions ==
  {[what |-> "negative", cap |-> [name |-> n, target |-> t]] :
     n \in {<<"f", "*">>, <<"g">>}, t \in {{}, {<<"a", "*">>}}}
  \cup {[what |-> "forbid", name |-> n] : n \in {ReadName, <<"f", "w">>}}
  \cup {[what |-> "deny-target", pattern |-> p] : p \in {<<"a">>, <<"@", "s">>, <<"@", "t">>}}
  \cup {[what |-> "deny-actor", pattern |-> p] : p \in {<<"u">>, <<"v", "*">>}}

Queries ==
  {[action |-> a, target |-> t, actor |-> u, actor_claim |-> v] :
     a \in {ReadName, <<"f", "w">>}, t \in {{}, {<<"a">>}, {<<"a", "/", "b">>}},
     u \in {{}, {<<"u">>}}, v \in {{}, {<<"v">>}}}

Restricted(g, r) ==
  LET deny(field, p) == {[a EXCEPT ![field] = @ \cup {p}] : a \in g.actions} IN
  CASE r.what = "negative"    -> [g EXCEPT !.negative = @ \cup {r.cap}]
    [] r.what = "forbid"      -> [g EXCEPT !.forbidden = @ \cup {r.name}]
    [] r.what = "deny-target" -> [g EXCEPT !.actions = deny("deny_targets", r.pattern)]
    [] r.what = "deny-actor"  -> [g EXCEPT !.actions = deny("deny_actors", r.pattern)]

(***************************************************************************)
(* Policies                                                                *)
(***************************************************************************)
Regexes == {[valid |-> TRUE, language |-> {<<"f">>}], [valid |-> FALSE, language |-> {}]}
Rules ==
  {[effect |-> e, action |-> {}, action_pattern |-> re, subject_pattern |-> {},
    target_patterns |-> tp, approval |-> ap] :
     e \in {"allow", "deny", "escalate", "log_only", "other"},
     re \in {{}} \cup {{r} : r \in Regexes}, tp \in {{}, {<<"a">>}},
     ap \in {{}, {"quorum"}}}
Policies ==
  {[rules |-> <<r, [r EXCEPT !.effect = "allow", !.action_pattern = {}]>>,
    negative |-> n] : r \in Rules, n \in {{}, {[name |-> <<"f">>, target |-> {}]}}}
CedarAnswers ==
  {[malformed |-> m, permit |-> p, forbid |-> f] :
     m \in {{}, {"subject"}, {"context"}}, p \in BOOLEAN, f \in BOOLEAN}
RegoAnswers ==
  {[shape |-> "bool", value |-> b] : b \in BOOLEAN}
  \cup {[shape |-> "object", decision |-> d] : d \in {{}, {"allow"}, {"escalate"}}}
  \cup {[shape |-> s] : s \in {"error", "not an object"}}
PolicyQueries ==
  {[action |-> <<"f">>, subject |-> <<"s">>, target |-> t, negative |-> n] :
     t \in {{}, {<<"a">>}},
     n \in {{}, {[name |-> <<"g">>, target |-> {}]}, {[name |-> <<"f">>, target |-> {<<"a">>}]}}}

(***************************************************************************)
(* Delegations                                                             *)
(***************************************************************************)
TimeWindow(f, u) == [kind |-> "time_window", from |-> f, until |-> u]
Quorum(n) == [kind |-> "quorum", quorum |-> n]
Constraints == {<<>>, <<TimeWindow({}, 2)>>, <<TimeWindow({1}, 1)>>, <<Quorum(2), TimeWindow({}, 1)>>}
Redelegations ==
  {{}, {[allowed |-> FALSE, max_depth |-> {}]}, {[allowed |-> TRUE, max_depth |-> {1}]},
   {[allowed |-> TRUE, max_depth |-> {2}]}}
Links == {[expires_at |-> e, constraints |-> cs, redelegation |-> r] :
            e \in {{}, {1}}, cs \in Constraints, r \in Redelegations}
Contexts == {[now |-> n, session |-> {}, target |-> {}, approvers |-> a, device |-> {}] :
               n \in 0..2, a \in {{}, {1}, {2}}}

\* For the intersection of constraint sets, every kind of constraint.
Target(ps) == [kind |-> "target", patterns |-> ps]
AnyConstraint ==
  {TimeWindow({}, 1), TimeWindow({1}, 2), Quorum(1), Quorum(2),
   Target(<<<<"a">>>>), Target(<<<<"b">>>>), Target(<<<<"*">>>>),
   [kind |-> "session", id |-> 1], [kind |-> "session", id |-> 2],
   [kind |-> "device_binding", id |-> 1], [kind |-> "approval", approval |-> "none"],
   [kind |-> "approval", approval |-> "required"], [kind |-> "quantity", max |-> 1],
   [kind |-> "rate", max |-> 2]}
AnyContext == {[now |-> n, session |-> s, target |-> t, approvers |-> a, device |-> d] :
                 n \in 0..2, s \in {{}, {1}, {2}}, t \in {{}, {<<"a">>}, {<<"b">>}},
                 a \in {{}, {1}, {2}}, d \in {{}, {1}}}

(***************************************************************************)
(* Revocations, postures and gates                                         *)
(***************************************************************************)
RevocationRecords == {[kind |-> k, id |-> i, effective_at |-> t] :
                  k \in {"actor", "key"}, i \in {1, 2}, t \in 0..2}

Postures ==
  [hardware_backed : BOOLEAN, attestation_verified : BOOLEAN, publicly_anchored : BOOLEAN,
   compliance_attested : BOOLEAN, recently_revoked : BOOLEAN,
   untrusted_relay_path : BOOLEAN, quorum_approvers : {{}, {1}, {2}},
   proof_level : {{}, {0}, {4}}, verified_ago : {{}, {1}, {2}}, stale_after : {1}]

Gates(spec) ==
  {[features |-> (spec.must \ m) \cup x, enforcement |-> e, proof |-> l,
    bridges |-> spec.bridges \ b, anchors |-> spec.anchors \ a] :
     m \in {{}} \cup {{f} : f \in spec.must}, x \in {{}, {"transport.websocket-only"}},
     e \in 3..4, l \in 1..3, b \in {{}} \cup {{y} : y \in spec.bridges},
     a \in {{}} \cup {{y} : y \in spec.anchors}}

(***************************************************************************)
(* Event chains                                                            *)
(***************************************************************************)
Built(bodies) ==
  FoldLeft(LAMBDA c, b : Append(c, [body |-> b, parent_hash |->
             IF c = <<>> THEN NoParent ELSE event_hash(Last(c))]), <<>>, bodies)
BuiltChains(n) == {Built(w) : w \in Words({1, 2}, n)}
Events == UNION {Range(c) : c \in BuiltChains(MaxEvents)}

-----------------------------------------------------------------------------
\* The inputs, one disjunct for each procedure.
SomeInput ==
  \/ \E p \in Words({"a", "b", "/", "*"}, MaxPattern), t \in Words({"a", "b", "/"}, MaxText) :
       input = [what |-> "glob", pattern |-> p, text |-> t]
  \/ \E g \in Guards, r \in Restrictions, q \in Queries :
       input = [what |-> "guard", guard |-> g, restriction |-> r, query |-> q]
  \/ \E p \in Policies, q \in PolicyQueries :
       input = [what |-> "policy", hint |-> {}, policy |-> p, cedar |-> {}, rego |-> {},
                query |-> q]
  \/ \E h \in {{"cedar"}, {"rego"}}, p \in Policies, q \in PolicyQueries,
        c \in {{}} \cup {{x} : x \in CedarAnswers}, r \in {{}} \cup {{x} : x \in RegoAnswers} :
       /\ p.rules[1].target_patterns = {} /\ p.rules[1].action_pattern = {}
       /\ q.negative = {} /\ q.target = {}
       /\ input = [what |-> "policy", hint |-> h, policy |-> p, cedar |-> c, rego |-> r,
                   query |-> q]
  \/ \E c \in Words(Links, MaxLinks), n \in 1..2 :
       input = [what |-> "chain", links |-> c, now |-> n]
  \/ \E a, b \in AnyConstraint : input = [what |-> "intersect", a |-> <<a>>, b |-> <<b>>]
  \/ \E r \in Words(RevocationRecords, 3) : input = [what |-> "revoked", records |-> r]
  \/ \E l \in {{}, {3}, {2, 5}}, p \in Postures :
       input = [what |-> "trust", levels |-> l, posture |-> p]
  \/ \E spec \in builtin_profiles : \E g \in Gates(spec) :
       input = [what |-> "profile", spec |-> spec, gate |-> g]
  \/ \E e \in Words(Events, MaxEvents) : input = [what |-> "events", events |-> e]
  \/ \E d \in 0..MaxDay, t \in {0, 86399} : input = [what |-> "time", secs |-> d * 86400 + t]

Levels == {"E0", "E1", "E2", "E3", "E4", "E5"}

Evaluated(i) ==
  CASE i.what = "glob"      -> glob_match(i.pattern, i.text)
    [] i.what = "guard"     ->
         [l \in Levels |-> [before |-> guard_check(i.guard, l, i.query),
                            after |-> guard_check(Restricted(i.guard, i.restriction), l, i.query)]]
    [] i.what = "policy"    -> evaluate_with_engine(i.hint, i.policy, i.cedar, i.rego, i.query)
    [] i.what = "chain"     -> walk_chain(i.links, i.now)
    [] i.what = "intersect" -> intersect_constraints(i.a, i.b)
    [] i.what = "revoked"   -> from_slice(i.records)
    [] i.what = "trust"     -> compose_trust_level(i.levels, i.posture)
    [] i.what = "profile"   -> select_profile(i.spec, i.gate)
    [] i.what = "events"    -> [ok |-> verify_chain(i.events), root |-> merkle_root(i.events),
                                hash |-> chain_hash(i.events)]
    [] i.what = "time"      -> secs_to_ymdhms(i.secs)

Init == SomeInput /\ output = <<>>
Evaluate == output = <<>> /\ output' = <<Evaluated(input)>> /\ UNCHANGED input
Next == Evaluate
Spec == Init /\ [][Next]_vars

\* An evaluated input of the given sort.
Is(what) == output # <<>> /\ input.what = what

-----------------------------------------------------------------------------
(***************************************************************************)
(* References: what a pattern means, by trying every split of the text,    *)
(* and the calendar by counting days.                                      *)
(***************************************************************************)
RECURSIVE Matches(_, _)
Matches(p, t) ==
  LET rest(k) == SubSeq(t, k + 1, Len(t)) IN
  CASE p = <<>>                 -> t = <<>>
    [] Len(p) > 1 /\ SubSeq(p, 1, 2) = <<"*", "*">>
                                -> \E k \in 0..Len(t) : Matches(SubSeq(p, 3, Len(p)), rest(k))
    [] p[1] = "*"               -> \E k \in 0..Len(t) : /\ \A i \in 1..k : t[i] # "/"
                                                        /\ Matches(Tail(p), rest(k))
    [] OTHER                    -> t # <<>> /\ t[1] = p[1] /\ Matches(Tail(p), Tail(t))

LeapYear(y) == y % 4 = 0 /\ (y % 100 # 0 \/ y % 400 = 0)
DaysIn(y, m) == IF m = 2 THEN IF LeapYear(y) THEN 29 ELSE 28
                ELSE IF m \in {4, 6, 9, 11} THEN 30 ELSE 31
\* The date after c.
NextDate(c) ==
  CASE c.day < DaysIn(c.year, c.month) -> <<c.year, c.month, c.day + 1>>
    [] c.month < 12                    -> <<c.year, c.month + 1, 1>>
    [] OTHER                           -> <<c.year + 1, 1, 1>>
Date(c) == <<c.year, c.month, c.day>>

(***************************************************************************)
(* The algorithms compute what they are for: glob_match's table decides    *)
(* what a pattern means by its definition; the revocation index answers as *)
(* a search of all records would, in whatever order they came (the code    *)
(* keeps one record per target); and the calendar starts at 1970-01-01,    *)
(* moves by one date a day across months, leap years and centuries, and    *)
(* unix_from_civil inverts it.                                             *)
(***************************************************************************)
AlgorithmsMatchReference ==
  /\ Is("glob") => output[1] = Matches(input.pattern, input.text)
  /\ Is("revoked") =>
       \A k \in {"actor", "key"}, i \in {1, 2}, t \in 0..2 :
         is_revoked(output[1], i, k, t)
           = \E r \in Range(input.records) : r.kind = k /\ r.id = i /\ r.effective_at <= t
  /\ Is("time") =>
       LET c == output[1] IN
       /\ unix_from_civil(c) = input.secs
       /\ input.secs = 0 => Date(c) = <<1970, 1, 1>>
       /\ input.secs % 86400 = 86399 => Date(secs_to_ymdhms(input.secs + 1)) = NextDate(c)

\* Whether a restriction speaks of a query.  A deny list of actors is not
\* consulted for a query without a proven actor.
Applies(r, q) ==
  CASE r.what = "negative"    -> /\ Matches(r.cap.name, q.action)
                                 /\ \A p \in r.cap.target : \E t \in q.target : Matches(p, t)
    [] r.what = "forbid"      -> r.name = q.action
    [] r.what = "deny-target" ->
         q.action = ReadName /\
         \E t \in q.target : Matches(IF r.pattern = <<"@", "s">> THEN <<"a", "/", "*">>
                                     ELSE r.pattern, t)
    [] r.what = "deny-actor"  ->
         q.action = ReadName /\ q.actor # {} /\
         \E w \in q.actor \cup q.actor_claim : Matches(r.pattern, w)

(***************************************************************************)
(* Whatever a contract says, a restriction added to it decides the queries *)
(* it speaks of and no others: those are denied (logged at E0, let pass    *)
(* with a warning at E1), and every other decision stays as it was, at     *)
(* every enforcement level and whatever allow lists, danger tags and       *)
(* approvals the action has.                                               *)
(***************************************************************************)
RestrictionsDecide ==
  Is("guard") => \A l \in Levels :
    LET d == output[1][l] IN
    IF Applies(input.restriction, input.query)
    THEN d.after.kind = CASE l = "E0" -> "log-only" [] l = "E1" -> "allow" [] OTHER -> "deny"
    ELSE d.after = d.before

(***************************************************************************)
(* Nothing is permitted by default: a decision other than a denial comes   *)
(* from the engine the hint names, configured, with every input well       *)
(* formed, and from an explicit permission of that engine; for the native  *)
(* engine from the first rule with an effect that matches, no negative     *)
(* capability in force speaking against it.                                *)
(***************************************************************************)
PermitIsExplicit ==
  Is("policy") /\ output[1].decision # "deny" =>
    CASE input.hint = {"cedar"} ->
           input.cedar # {} /\ LET c == The(input.cedar) IN
             c.malformed = {} /\ c.permit /\ ~c.forbid
      [] input.hint = {"rego"} ->
           input.rego # {} /\ LET r == The(input.rego) IN
             \/ r.shape = "bool" /\ r.value
             \/ r.shape = "object" /\ r.decision = {output[1].decision}
      [] OTHER ->
           LET q == input.query
               speaks(n) == n.name = q.action /\ \A p \in n.target : {p} = q.target
               hits(r) == /\ \A re \in r.action_pattern : re.valid
                          /\ r.target_patterns # {} => r.target_patterns = q.target
           IN /\ \A n \in input.policy.negative : q.negative = {} => ~speaks(n)
              /\ \A n \in q.negative : ~speaks(n)
              /\ hits(input.policy.rules[output[1].rule])
              /\ \A j \in 1..(output[1].rule - 1) :
                   hits(input.policy.rules[j]) => input.policy.rules[j].effect = "other"

(***************************************************************************)
(* A chain of delegations that walk_chain accepts grants no more than any  *)
(* of its links: no link after one that forbids redelegation, none beyond  *)
(* the depth any link allows, none expired, and whatever satisfies the     *)
(* effective constraints satisfies the time windows and quorums of every   *)
(* link.                                                                   *)
(***************************************************************************)
DelegationHolds ==
  Is("chain") /\ output[1].broken = {} =>
    \A i \in DOMAIN input.links :
      LET link == input.links[i] IN
      /\ \A e \in link.expires_at : input.now <= e
      /\ i < Len(input.links) => \A r \in link.redelegation : r.allowed
      /\ \A r \in link.redelegation : \A d \in r.max_depth : Len(input.links) - i <= d
      /\ \A ctx \in Contexts : constraints_satisfied(output[1].effective, ctx)
                                 => constraints_satisfied(link.constraints, ctx)

\* Better evidence for the same identity; worse circumstances.
Improved(p) ==
  {[p EXCEPT !.hardware_backed = TRUE], [p EXCEPT !.attestation_verified = TRUE],
   [p EXCEPT !.publicly_anchored = TRUE], [p EXCEPT !.compliance_attested = TRUE],
   [p EXCEPT !.quorum_approvers = {2}], [p EXCEPT !.proof_level = {5}],
   [p EXCEPT !.recently_revoked = FALSE], [p EXCEPT !.untrusted_relay_path = FALSE],
   [p EXCEPT !.verified_ago = {0}]}

(***************************************************************************)
(* More evidence never lowers a trust level, and the penalty for an        *)
(* untrusted relay always costs exactly one level of whatever the evidence *)
(* reached; more features, bridges, anchors or a higher level never fail a *)
(* profile that was met, unless the profile forbids the feature, and every *)
(* built-in profile can be met.                                            *)
(***************************************************************************)
StrongerNeverWorse ==
  /\ Is("trust") =>
       /\ \A p \in Improved(input.posture) : compose_trust_level(input.levels, p) >= output[1]
       /\ LET clean == compose_trust_level(input.levels,
                         [input.posture EXCEPT !.untrusted_relay_path = FALSE])
          IN input.posture.untrusted_relay_path /\ clean > 0 => output[1] = clean - 1
  /\ Is("profile") =>
       LET g == input.gate
           full == [features |-> input.spec.must, enforcement |-> 5, proof |-> 5,
                    bridges |-> input.spec.bridges, anchors |-> input.spec.anchors]
       IN /\ select_profile(input.spec, full) = {}
          /\ \A f \in input.spec.must :
               select_profile(input.spec, [g EXCEPT !.features = @ \cup {f}]) \subseteq output[1]
          /\ select_profile(input.spec, [g EXCEPT !.enforcement = 5]) \subseteq output[1]

(***************************************************************************)
(* A proof chain binds its events: what verify_chain accepts from the      *)
(* first event on is the chain of its bodies as it was built, nothing      *)
(* altered, left out, repeated or swapped; and then its Merkle root and    *)
(* its rolling hash are those of no other chain, although the tree         *)
(* duplicates the last node of an odd level.                               *)
(***************************************************************************)
ChainBinds ==
  Is("events") /\ output[1].ok /\ input.events # <<>> /\ input.events[1].parent_hash = NoParent =>
    /\ input.events = Built([i \in DOMAIN input.events |-> input.events[i].body])
    /\ \A c \in BuiltChains(MaxEvents + 1) :
         output[1].root = merkle_root(c) \/ output[1].hash = chain_hash(c) => c = input.events

(***************************************************************************)
(* What the comment on intersectConstraints says: "the result holds iff    *)
(* both input sets hold".                                                  *)
(***************************************************************************)
IntersectionHoldsIffBoth ==
  Is("intersect") => \A ctx \in AnyContext :
    constraints_satisfied(output[1], ctx)
      = (constraints_satisfied(input.a, ctx) /\ constraints_satisfied(input.b, ctx))
=============================================================================
