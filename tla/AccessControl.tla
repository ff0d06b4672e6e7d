---------------------------- MODULE AccessControl ----------------------------
(***************************************************************************)
(* The decision procedures of tf-types and its policy adapters: glob       *)
(* patterns (glob.rs), the agent guard and its enforcement levels          *)
(* (guard.rs), the native policy engine and the Cedar and Rego adapters.   *)
(* All of them are functions of their arguments.                           *)
(*                                                                         *)
(* Text is a sequence of characters (or of words, where no pattern looks   *)
(* inside them); an Option is a set with at most one member; ISO-8601      *)
(* times are numbers; reasons and other wording are left out.              *)
(***************************************************************************)
EXTENDS Integers, Sequences, FiniteSets, SequencesExt

The(option) == CHOOSE x \in option : TRUE

(***************************************************************************)
(* glob.rs: the tokens of a pattern and the dynamic programme over them.   *)
(* dp[j] says that the tokens so far match the first j characters.         *)
(***************************************************************************)
RECURSIVE Toks(_)
Toks(p) ==
  CASE p = <<>>                            -> <<>>
    [] Len(p) > 1 /\ p[1] = "*" /\ p[2] = "*"
                                           -> <<"**">> \o Toks(SubSeq(p, 3, Len(p)))
    [] OTHER                               -> <<p[1]>> \o Toks(Tail(p))

\* Mutant: the single star crosses a slash.
GreedyGlob(pattern, value) ==
  LET step(dp, tok) ==
        LET r[j \in 0..Len(value)] ==
              IF tok \in {"*", "**"} THEN dp[j] \/ (j > 0 /\ r[j - 1])
              ELSE j > 0 /\ dp[j - 1] /\ value[j] = tok
        IN r
  IN FoldLeft(step, [j \in 0..Len(value) |-> j = 0], Toks(pattern))[Len(value)]

glob_match(pattern, value) ==
  LET step(dp, tok) ==
        LET next[j \in 0..Len(value)] ==
              CASE tok = "**" -> dp[j] \/ (j > 0 /\ next[j - 1])
                [] tok = "*"  -> dp[j] \/ (j > 0 /\ next[j - 1] /\ value[j] # "/")
                [] OTHER      -> j > 0 /\ dp[j - 1] /\ value[j] = tok
        IN next
  IN FoldLeft(step, [j \in 0..Len(value) |-> j = 0], Toks(pattern))[Len(value)]

(***************************************************************************)
(* guard.rs.  A guard is a contract's index (actions by name, forbidden    *)
(* names, target sets) with the negative capabilities in force.            *)
(***************************************************************************)
Decision(kind, tags) == [kind |-> kind, tags |-> tags]

\* danger tags that call for escalation
EscalateTags == {"destructive", "irreversible", "financial", "security-sensitive",
                 "legal-exposure"}

negative_matches(neg, q) ==
  /\ glob_match(neg.name, q.action)
  /\ \A p \in neg.target : \E t \in q.target : glob_match(p, t)

\* "@name" stands for the patterns of a target set; an unknown set matches nothing.
match_target(g, pattern, value) ==
  IF pattern # <<>> /\ Head(pattern) = "@"
  THEN \E s \in g.target_sets : s.name = Tail(pattern)
                                /\ \E p \in s.patterns : glob_match(p, value)
  ELSE glob_match(pattern, value)

\* deny_actors before allow_actors, each against the proven and the claimed
\* name; without an actor an allow list refuses and a deny list does not.
ActorRefused(a, q) ==
  LET hits(patterns) ==
        \E p \in patterns, who \in q.actor \cup q.actor_claim : glob_match(p, who)
  IN IF q.actor = {} THEN a.allow_actors # {}
     ELSE hits(a.deny_actors) \/ (a.allow_actors # {} /\ ~hits(a.allow_actors))

TargetRefused(g, a, q) ==
  \E t \in q.target :
    \/ \E p \in a.deny_targets : match_target(g, p, t)
    \/ a.allow_targets # {} /\ ~\E p \in a.allow_targets : match_target(g, p, t)

check_raw(g, q) ==
  LET declared == {a \in g.actions : a.name = q.action}
      a == The(declared)
  IN CASE \E neg \in g.negative : negative_matches(neg, q)
                                       -> Decision("deny", {"explicit-denial"})
       [] q.action \in g.forbidden     -> Decision("deny", {})
       [] declared = {}                -> Decision("deny", {})
       [] ActorRefused(a, q)           -> Decision("deny", a.danger_tags)
       [] TargetRefused(g, a, q)       -> Decision("deny", a.danger_tags)
       [] a.danger_tags \cap EscalateTags # {}
                                       -> Decision("escalate", a.danger_tags)
       [] a.approval \in {"required", "quorum"}
                                       -> Decision("approval-required", a.danger_tags)
       [] OTHER                        -> Decision("allow", a.danger_tags)

\* tag_decision
Tagged(d, tag) == [d EXCEPT !.tags = @ \cup {tag}]

apply_enforcement_level(raw, level) ==
  CASE level = "E0" /\ raw.kind \in {"deny", "escalate", "approval-required"}
                                   -> Tagged([raw EXCEPT !.kind = "log-only"], "shadow")
    [] level = "E1" /\ raw.kind = "deny"
                                   -> Tagged([raw EXCEPT !.kind = "allow"], "warn")
    [] level = "E1" /\ raw.kind = "escalate"
                                   -> Tagged([raw EXCEPT !.kind = "log-only"], "warn")
    [] level = "E2"                -> Tagged(raw, "proof-log-required")
    [] level = "E3" /\ raw.kind = "allow" /\ raw.tags # {}
                                   -> [raw EXCEPT !.kind = "escalate"]
    [] level = "E5" /\ raw.kind \in {"escalate", "approval-required"}
                                   -> [raw EXCEPT !.kind = "deny"]
    [] level = "E5" /\ raw.kind = "allow" /\ raw.tags # {}
                                   -> [raw EXCEPT !.kind = "deny"]
    [] OTHER                       -> raw

guard_check(g, level, q) == apply_enforcement_level(check_raw(g, q), level)

(***************************************************************************)
(* policy_engine.rs.  A regular expression is the set of texts it matches, *)
(* or not valid.  The query's negative capabilities, when it has any,      *)
(* replace the policy's; their names are compared as they are.             *)
(***************************************************************************)
policy_negative_matches(neg, q) ==
  /\ neg.name = q.action
  /\ \A p \in neg.target : \E t \in q.target : glob_match(p, t)

rule_matches(rule, q) ==
  /\ \A a \in rule.action : a = q.action
  /\ \A re \in rule.action_pattern : re.valid /\ q.action \in re.language
  /\ \A re \in rule.subject_pattern : re.valid /\ q.subject \in re.language
  /\ rule.target_patterns # {} =>
       \E t \in q.target, p \in rule.target_patterns : glob_match(p, t)

PolicyVerdict(decision, rule, approval) ==
  [decision |-> decision, rule |-> rule, approval |-> approval]

native_evaluate(policy, q) ==
  LET caps == IF q.negative = {} THEN policy.negative ELSE q.negative
      known == {i \in DOMAIN policy.rules :
                  /\ rule_matches(policy.rules[i], q)
                  /\ policy.rules[i].effect \in {"allow", "deny", "escalate", "log_only"}}
      first == CHOOSE i \in known : \A j \in known : i <= j
      rule == policy.rules[first]
  IN CASE \E neg \in caps : policy_negative_matches(neg, q)
                                 -> PolicyVerdict("deny", 0, {})
       [] known = {}             -> PolicyVerdict("deny", 0, {})
       [] rule.effect = "allow"  -> PolicyVerdict("allow", first, rule.approval)
       [] rule.effect = "deny"   -> PolicyVerdict("deny", first, {})
       [] rule.effect = "log_only" -> PolicyVerdict("log-only", first, {})
       [] rule.effect = "escalate" /\ rule.approval = {"quorum"}
                                 -> PolicyVerdict("escalate", first, {"quorum"})
       [] rule.effect = "escalate"
                                 -> PolicyVerdict("approval-required", first,
                                      IF rule.approval = {} THEN {"required"}
                                      ELSE rule.approval)

\* tf-cedar: anything malformed denies; the authorizer (external) allows when
\* a permit policy and no forbid policy is satisfied.
cedar_evaluate(answer) ==
  PolicyVerdict(IF answer.malformed = {} /\ answer.permit /\ ~answer.forbid
                THEN "allow" ELSE "deny", 0, {})

\* tf-rego: the rule's value, a Boolean or an object whose decision is taken
\* as it stands; everything else denies.
rego_evaluate(answer) ==
  PolicyVerdict(CASE answer.shape = "bool" -> IF answer.value THEN "allow" ELSE "deny"
                  [] answer.shape = "object" /\ answer.decision # {}
                                           -> The(answer.decision)
                  [] OTHER                 -> "deny", 0, {})

\* Mutant: an engine that is not configured falls back to the native one.
FallbackToNative(hint, policy, cedar, rego, q) ==
  CASE hint = {"cedar"} /\ cedar # {} -> cedar_evaluate(The(cedar))
    [] hint = {"rego"} /\ rego # {}   -> rego_evaluate(The(rego))
    [] OTHER                          -> native_evaluate(policy, q)

\* The adapter named by the hint, a denial when it is not configured.
evaluate_with_engine(hint, policy, cedar, rego, q) ==
  CASE hint = {"cedar"} /\ cedar # {} -> cedar_evaluate(The(cedar))
    [] hint = {"rego"} /\ rego # {}   -> rego_evaluate(The(rego))
    [] hint \in {{"cedar"}, {"rego"}} -> PolicyVerdict("deny", 0, {})
    [] OTHER                          -> native_evaluate(policy, q)
=============================================================================
