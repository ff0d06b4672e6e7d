----------------------------- MODULE Delegation -----------------------------
(***************************************************************************)
(* Constraint sets and what is done with them (capability.rs), delegation  *)
(* chains (delegation.rs), the revocation index (revocation.rs), the trust *)
(* overlay (trust_overlay.rs) and profile selection (profile.rs).          *)
(* A constraint is a record with its kind; an Option is a set with at most *)
(* one member; times are numbers.                                          *)
(***************************************************************************)
EXTENDS AccessControl

(***************************************************************************)
(* capability.rs                                                           *)
(***************************************************************************)
\* Quantity and rate limits need a counter elsewhere and hold here.
satisfies(c, ctx) ==
  CASE c.kind = "time_window"    -> (\A f \in c.from : ctx.now >= f) /\ ctx.now <= c.until
    [] c.kind = "target"         -> \E t \in ctx.target, p \in Range(c.patterns) :
                                      glob_match(p, t)
    [] c.kind = "session"        -> ctx.session = {c.id}
    [] c.kind = "approval"       -> c.approval \in {"none", "conditional"}
    [] c.kind = "quorum"         -> \/ c.quorum <= 0
                                    \/ \E n \in ctx.approvers : n >= c.quorum
    [] c.kind = "device_binding" -> ctx.device = {c.id}
    [] OTHER                     -> TRUE

constraints_satisfied(cs, ctx) == \A i \in DOMAIN cs : satisfies(cs[i], ctx)

pick_later(a, b) == IF a = {} \/ b = {} THEN a \cup b
                    ELSE IF The(a) > The(b) THEN a ELSE b
pick_earlier(a, b) == IF a < b THEN a ELSE b

\* Kinds without a rule of their own (session, approval, device) keep a.
intersect_same(a, b) ==
  CASE a.kind = "time_window" -> [a EXCEPT !.from = pick_later(@, b.from),
                                           !.until = pick_earlier(@, b.until)]
    [] a.kind = "target"      ->
         LET shared == SelectSeq(a.patterns, LAMBDA p : p \in Range(b.patterns))
         IN [a EXCEPT !.patterns = IF shared = <<>> THEN @ \o b.patterns ELSE shared]
    [] a.kind \in {"quantity", "rate"}
                              -> [a EXCEPT !.max = pick_earlier(@, b.max)]
    [] a.kind = "quorum"      -> [a EXCEPT !.quorum = IF @ > b.quorum THEN @ ELSE b.quorum]
    [] OTHER                  -> a

\* The first constraint of the same kind is narrowed, a new kind is added.
intersect_constraints(as, bs) ==
  LET add(out, c) ==
        LET same == {i \in DOMAIN out : out[i].kind = c.kind}
            i == CHOOSE i \in same : \A j \in same : i <= j
        IN IF same = {} THEN Append(out, c)
           ELSE [out EXCEPT ![i] = intersect_same(@, c)]
  IN FoldLeft(add, as, bs)

(***************************************************************************)
(* delegation.rs walk_chain.  A link may name an expiry, constraints and a *)
(* rule for redelegation with a depth; i64::MAX is Unlimited.              *)
(***************************************************************************)
Unlimited == 1000

\* Mutant: a link's own depth replaces what is left of an earlier one.
LinkResets(walk, link, now) ==
  IF walk.broken # {} THEN walk
  ELSE IF (walk.step > 0 /\ (~walk.redelegate \/ walk.depth <= 0))
          \/ \E e \in link.expires_at : e < now
       THEN [walk EXCEPT !.broken = {walk.step}]
       ELSE [step |-> walk.step + 1, broken |-> {},
             effective |-> intersect_constraints(walk.effective, link.constraints),
             redelegate |-> \A r \in link.redelegation : r.allowed,
             depth |-> IF link.redelegation # {} /\ The(link.redelegation).max_depth # {}
                       THEN The(The(link.redelegation).max_depth)
                       ELSE IF walk.step > 0 THEN walk.depth - 1 ELSE walk.depth]

WalkLink(walk, link, now) ==
  LET depth == IF walk.step > 0 THEN walk.depth - 1 ELSE walk.depth
      limits == {depth} \cup UNION {r.max_depth : r \in link.redelegation}
  IN IF walk.broken # {} THEN walk
     ELSE IF \/ walk.step > 0 /\ (~walk.redelegate \/ walk.depth <= 0)
             \/ \E e \in link.expires_at : e < now
          THEN [walk EXCEPT !.broken = {walk.step}]
          ELSE [step |-> walk.step + 1, broken |-> {},
                effective |-> intersect_constraints(walk.effective, link.constraints),
                redelegate |-> \A r \in link.redelegation : r.allowed,
                depth |-> CHOOSE d \in limits : \A e \in limits : d <= e]

walk_chain(chain, now) ==
  FoldLeft(LAMBDA w, link : WalkLink(w, link, now),
           [step |-> 0, broken |-> {}, effective |-> <<>>, redelegate |-> TRUE,
            depth |-> Unlimited], chain)

(***************************************************************************)
(* revocation.rs: of several records for one target the earliest counts.   *)
(***************************************************************************)
from_slice(records) ==
  LET insert(idx, r) ==
        LET same == {x \in idx : x.kind = r.kind /\ x.id = r.id}
        IN IF \E x \in same : x.effective_at <= r.effective_at THEN idx
           ELSE (idx \ same) \cup {r}
  IN FoldLeft(insert, {}, records)

is_revoked(idx, id, kind, at) ==
  \E x \in idx : x.kind = kind /\ x.id = id /\ x.effective_at <= at

(***************************************************************************)
(* trust_overlay.rs: levels T0 to T7 are 0 to 7.                           *)
(***************************************************************************)
Highest(levels) == CHOOSE r \in levels : \A s \in levels : s <= r

\* proof_level_minimum_trust, L0 to L5
ProofLevelMinimumTrust == <<0, 1, 2, 3, 6, 7>>

compose_trust_level(levels, p) ==
  LET floors == {Highest({0} \cup levels)}
                \cup (IF p.hardware_backed \/ p.attestation_verified THEN {4} ELSE {})
                \cup (IF \E n \in p.quorum_approvers : n >= 2 THEN {5} ELSE {})
                \cup (IF p.publicly_anchored THEN {6} ELSE {})
                \cup (IF p.compliance_attested THEN {7} ELSE {})
                \cup {ProofLevelMinimumTrust[l + 1] : l \in p.proof_level}
      r == Highest(floors)
  IN CASE p.recently_revoked                                    -> 0
       [] \E s \in p.verified_ago : s > p.stale_after           -> 0
       [] p.untrusted_relay_path /\ r > 0                       -> r - 1
       [] OTHER                                                 -> r

(***************************************************************************)
(* profile.rs: the failures of a running daemon against a profile.         *)
(***************************************************************************)
select_profile(spec, gate) ==
  {<<"missing", f>> : f \in spec.must \ gate.features}
  \cup {<<"forbidden", f>> : f \in spec.must_not \cap gate.features}
  \cup {<<"enforcement", e>> : e \in {m \in spec.min_enforcement : gate.enforcement < m}}
  \cup {<<"proof", l>> : l \in {m \in spec.min_proof : gate.proof < m}}
  \cup {<<"bridge", b>> : b \in spec.bridges \ gate.bridges}
  \cup {<<"anchor", a>> : a \in spec.anchors \ gate.anchors}

builtin_profiles ==
  {[id |-> "home", must |-> {"agent-contract", "proof-log", "ed25519", "vault"},
    must_not |-> {}, min_enforcement |-> {3}, min_proof |-> {1}, bridges |-> {}, anchors |-> {}],
   [id |-> "enterprise",
    must |-> {"policy-engine", "quorum-collector", "continuous-reauth",
              "transparency-anchor.any", "federation", "webauthn", "agent-contract"},
    must_not |-> {}, min_enforcement |-> {4}, min_proof |-> {2},
    bridges |-> {"webauthn", "oauth", "spiffe"}, anchors |-> {"rfc6962"}],
   [id |-> "constrained",
    must |-> {"packet-mode", "fragment-reassembly", "offline-revocation-list",
              "emergency-authority"},
    must_not |-> {"transport.websocket-only", "transparency-anchor.always-online"},
    min_enforcement |-> {3}, min_proof |-> {1}, bridges |-> {}, anchors |-> {}],
   [id |-> "compliance-evidence",
    must |-> {"policy-engine", "quorum-collector", "signed-log-events", "evidence-bundle",
              "l4-encrypted-bundle", "l5-rfc3161-anchor", "continuous-reauth"},
    must_not |-> {}, min_enforcement |-> {4}, min_proof |-> {3}, bridges |-> {},
    anchors |-> {"rfc6962", "rfc3161"}]}
=============================================================================
