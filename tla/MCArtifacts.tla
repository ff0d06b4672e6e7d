----------------------------- MODULE MCArtifacts -----------------------------
(***************************************************************************)
(* Issuers, a courier and a verifier around the papers of Artifacts.  Each  *)
(* behaviour follows the papers of one subject (a kind of paper, or the    *)
(* transparency anchors), at most MaxPapers of them.                       *)
(***************************************************************************)
EXTENDS Artifacts

VARIABLE subject

Subjects == {"offline", "grant", "attestation", "migration", "orl", "relay",
             "evidence", "bundle", "plugin", "anchor"}

\* The log the evidence bundles are cut from.
EventLog == << [at |-> 0, actor |-> "x", level |-> 1],
               [at |-> 1, actor |-> "y", level |-> 3],
               [at |-> 2, actor |-> "x", level |-> 2] >>
Filters == {[started_at |-> s, ended_at |-> e, actors |-> a] :
              s \in {0, 2}, e \in {{}, {1}}, a \in {{}, {{"x"}}}}

\* Readers hold one KEM key each, except that the first reader's key has been
\* rotated in one of the recipient lists.
Recipients ==
  LET one(r, k) == [actor |-> r, kem_public |-> k]
  IN  {<<one(r, r)>> : r \in Readers}
      \cup {<<one(r, r), one(s, s)>> : <<r, s>> \in {q \in Readers \X Readers : q[1] # q[2]}}
      \cup {<<one(r, "old"), one(r, r)>> : r \in Readers}

\* The papers an issuer may sign now.
NewPapers(i) ==
  CASE subject = "offline" ->
         \* the responder's clock may be ahead
         {sign_offline_approval_packet(c, d, i, "qr", at) :
            c \in Contents, d \in {"approve", "deny"}, at \in {now, now + 1}}
    [] subject = "grant" ->
         {sign_permission_grant(c, "allow", i, from, until, now) :
            c \in Contents, from \in {{}, {now + 1}}, until \in {{}, {now + 1}}}
    [] subject = "attestation" ->
         UNION {sign_federation_attestation(id, "dom", actor, keys, now, now + 1, i) :
                  id \in {"a1", "a2"}, actor \in {{}, {"x"}}, keys \in SUBSET {"kx"}}
    [] subject = "migration" ->
         {migrate_session(c, g, "quic", i, now) :
            c \in Contents, g \in 1..MaxGeneration}
    [] subject = "orl" ->
         {sign_offline_revocation_list(r, now, now + 1, i) :
            r \in {{}, {<<"actor", "x">>}}}
    [] subject = "relay" ->
         {SignRelayAuthority("relay", h, u, i) : h \in {{}, {1}}, u \in {{}, {now}}}
    [] subject = "evidence" ->
         UNION {assemble_evidence_bundle(EventLog, f, i, now) : f \in Filters}
    [] subject = "bundle" ->
         {seal_bundle(c, r, i, now) : c \in Contents, r \in Recipients}
    [] subject = "plugin" ->
         {SignManifest(c, caps, i) : c \in Contents, caps \in SUBSET {"net"}}
    [] OTHER -> {}

\* What may stand in a field of a copy on its way.
FieldValues(p, f) ==
  CASE f = "signature" -> {q.signature : q \in papers}
    [] f = "algorithm" -> {"ed25519", "none"}
    [] f \in {"env_signer", "issuer", "responder", "signer", "identity_pub"} -> Issuers
    [] f \in {"responded_at", "issued_at", "migrated_at"} -> Times
    [] f = "valid_until" /\ p.kind \in {"orl", "attestation"} -> Times \cup {MaxNow + 1}
    [] f \in {"valid_from", "valid_until"} -> {{}} \cup {{t} : t \in Times}
    [] f = "generation" -> 1..MaxGeneration
    [] f \in {"request", "request_id", "session_id", "plugin_id"} -> Contents
    [] f = "decision" -> {"approve", "deny", "allow"}
    [] f = "transport_hint" -> {"qr", "usb"}
    [] f \in {"packet_version", "grant_version", "list_version"} -> {"1", "2"}
    [] f = "revoked" -> {{}, {<<"actor", "x">>}}
    [] f = "subject_actor" -> {{}, {"x"}}
    [] f = "trust_bundle" -> SUBSET {"kx", "ky"}
    [] f = "max_hop_count" -> {{}, {1}}
    [] f = "level" -> {1, 3}
    [] f = "events" -> {p.events, Tail(p.events)}
    [] f = "capabilities" -> SUBSET {"net"}
    [] f \in {"ciphertext", "wrapped_keys"} -> {q[f] : q \in papers}
    [] OTHER -> {p[f]}

Copies(p) == {[p EXCEPT ![f] = v] : <<f, v>> \in
                UNION {{f} \X FieldValues(p, f) : f \in DOMAIN p \ {"kind"}}}

-----------------------------------------------------------------------------
NoVerdict == [paper |-> {}, ok |-> FALSE, at |-> 0, last |-> {}, text |-> {}, reader |-> {}]

NotAsked == [ok |-> FALSE, matched |-> {}, keys |-> {}, at |-> 0]

Init ==
  /\ subject \in Subjects
  /\ now = 0 /\ papers = {} /\ verdict = NoVerdict
  /\ last_generation = {} /\ migrations = <<>>
  /\ orl = {} /\ by_id = <<>> /\ plugins = <<>>
  /\ foreign = NotAsked
  /\ entries = <<>> /\ proofs = <<>>

Stores == <<last_generation, migrations, orl, by_id, plugins, entries, proofs>>

\* verdict and foreign hold the answer just given, until its caller has it.
Answered == verdict # NoVerdict \/ foreign # NotAsked
Conclude ==
  /\ Answered
  /\ verdict' = NoVerdict /\ foreign' = NotAsked
  /\ UNCHANGED <<subject, now, papers, Stores>>

Tick ==
  /\ now < MaxNow
  /\ now' = now + 1
  /\ UNCHANGED <<subject, papers, verdict, foreign, Stores>>

Issue(i) ==
  /\ Cardinality(papers) < MaxPapers
  /\ \E p \in NewPapers(i) : papers' = papers \cup {p}
  /\ UNCHANGED <<subject, now, verdict, foreign, Stores>>

\* The session the verifier expects migrations of, and the request it waits
\* for: any content.
Expected == CHOOSE c \in Contents : TRUE

Verify(q) ==
  CASE q.kind = "offline"     -> verify_offline_approval_packet(q, Trusted, {now})
    [] q.kind = "grant"       -> verify_permission_grant(q, Trusted, {Expected}, now)
    [] q.kind = "attestation" -> verify_federation_attestation(q, Trusted, now)
    [] q.kind = "migration"   -> verify_session_migration(q, Trusted, last_generation, {Expected})
    [] q.kind = "orl"         -> load(q, Trusted, now)
    [] q.kind = "relay"       -> verify_relay_authority(q, Trusted)
    [] q.kind = "evidence"    -> verify_evidence_bundle(q, Trusted)
    [] q.kind = "plugin"      -> load_native(q)
    [] OTHER                  -> FALSE

\* A copy arrives and is verified; a paper found good is put to its use.
Present ==
  \E p \in papers : \E q \in Copies(p) :
    LET ok == Verify(q) IN
    /\ q.kind # "bundle"
    /\ verdict' = [NoVerdict EXCEPT !.paper = {q}, !.ok = ok, !.at = now, !.last = last_generation]
    /\ IF ok /\ q.kind = "migration"
       THEN /\ last_generation' = {q.generation}
            /\ migrations' = Append(migrations, q.generation)
       ELSE UNCHANGED <<last_generation, migrations>>
    /\ orl' = IF ok /\ q.kind = "orl" THEN {q} ELSE orl
    /\ by_id' = IF ok /\ q.kind = "attestation" THEN (q.attestation_id :> q) @@ by_id ELSE by_id
    /\ plugins' = IF ok /\ q.kind = "plugin" /\ Len(plugins) < MaxPapers
                  THEN Append(plugins, q) ELSE plugins
    /\ UNCHANGED <<subject, now, papers, foreign, entries, proofs>>

OpenBundle(r) ==
  \E p \in papers : \E q \in Copies(p) :
    /\ q.kind = "bundle"
    /\ LET text == open_bundle(q, r, r, {Trusted})
       IN  verdict' = [NoVerdict EXCEPT !.paper = {q}, !.ok = text # {}, !.at = now,
                                   !.text = text, !.reader = {r}]
    /\ UNCHANGED <<subject, now, papers, foreign, Stores>>

\* FederatedTrustStore::remove.
RemoveAttestation(id) ==
  /\ id \in DOMAIN by_id
  /\ by_id' = [i \in DOMAIN by_id \ {id} |-> by_id[i]]
  /\ UNCHANGED <<subject, now, papers, verdict, foreign, last_generation, migrations,
                 orl, plugins, entries, proofs>>

\* FederatedTrustStore::verify_foreign for actor x of domain dom, with an
\* optional message signature under one key.
VerifyForeign(keys) ==
  /\ subject = "attestation"
  /\ LET found == find_for(by_id, "x", "dom", now) IN
     \/ /\ found = {}
        /\ foreign' = [ok |-> FALSE, matched |-> {}, keys |-> keys, at |-> now]
     \/ \E a \in found :
          foreign' = [ok |-> keys \subseteq a.trust_bundle, matched |-> {a},
                      keys |-> keys, at |-> now]
  /\ UNCHANGED <<subject, now, papers, verdict, Stores>>

\* A bundle goes to an anchor; an HTTP log may fail, which leaves no trace.
Submit(b) ==
  /\ subject = "anchor"
  /\ Len(proofs) <= MaxPapers
  /\ LET memory == memory_submit(entries, b) IN
     \/ entries' = memory.entries /\ proofs' = Append(proofs, memory.proof)
     \/ entries' = entries /\ proofs' = Append(proofs, rfc6962_submit(b))
     \/ entries' = entries /\ proofs' = Append(proofs, sigstore_submit(b))
  /\ UNCHANGED <<subject, now, papers, verdict, last_generation, migrations, orl,
                 by_id, plugins, foreign>>

\* Every call of the verifier is over before the next step.
Next ==
  \/ Conclude
  \/ /\ ~Answered
     /\ \/ Tick
        \/ \E i \in Issuers : Issue(i)
        \/ Present
        \/ \E r \in Readers : OpenBundle(r)
        \/ \E id \in {"a1", "a2"} : RemoveAttestation(id)
        \/ \E keys \in {{}, {"kx"}} : VerifyForeign(keys)
        \/ \E b \in Contents : Submit(b)

Spec == Init /\ [][Next]_<<vars, subject>>

-----------------------------------------------------------------------------
\* The fields an accepted paper may differ in from the one that was issued:
\* what the code neither signs nor compares.
Unprotected(kind) ==
  CASE kind = "offline" -> {"transport_hint"}
    [] kind \in {"orl", "evidence", "bundle"} -> {"algorithm", "env_signer"}
    [] OTHER -> {}

SignedByTrusted(p) == p.kind = "plugin" \/ p.signature.key = Trusted

\* The paper is in force at t.
Timely(p, t) ==
  CASE p.kind = "offline" -> t - p.responded_at \in (-Skew)..MaxAge
    [] p.kind = "grant" -> (\A s \in p.valid_from : s <= t) /\ (\A e \in p.valid_until : t <= e)
    [] p.kind \in {"attestation", "orl"} -> p.issued_at <= t /\ t <= p.valid_until
    [] OTHER -> TRUE

\* Whatever copy of a paper the verifiers of offline_approval, permission,
\* federation, session_migration, constrained, no-std relay, evidence, bundle
\* and plugin accept, the trusted issuer issued it, it is unaltered in every
\* field other than those the code leaves unprotected, and it is in force.
AcceptedIsIssued ==
  \A q \in verdict.paper : verdict.ok =>
    /\ Timely(q, verdict.at)
    /\ \E p \in papers :
         /\ SignedByTrusted(p)
         /\ \A f \in DOMAIN q \ Unprotected(q.kind) : q[f] = p[f]

\* A paper the trusted issuer issued that arrives unaltered and in force is
\* accepted, so that signer and verifier agree on what is signed: a grant for
\* the request at hand, a migration of this session past the last one, and a
\* bundle opened with the first key wrapped for the reader.
IssuedIsAccepted ==
  \A q \in verdict.paper \cap papers :
    ( /\ SignedByTrusted(q)
      /\ Timely(q, verdict.at)
      /\ q.kind = "grant" => q.request_id = Expected
      /\ q.kind = "migration" =>
           q.session_id = Expected /\ \A g \in verdict.last : g < q.generation
      /\ \A r \in verdict.reader : \E i \in DOMAIN q.wrapped_keys :
           /\ q.wrapped_keys[i].recipient = r /\ q.wrapped_keys[i].under = r
           /\ \A j \in 1..(i - 1) : q.wrapped_keys[j].recipient # r )
    => verdict.ok /\ (q.kind = "bundle" => verdict.text = {q.ciphertext.text})

\* What the stores were told stays true of them: migrations only ever advance
\* the generation, the list in force and the attestation a foreign actor is
\* let in by are the trusted issuer's, the latter in force at the time and
\* naming the key used, and the answering plugin is an authentic one.
StoresFollowPapers ==
  /\ \A i, j \in DOMAIN migrations : i < j => migrations[i] < migrations[j]
  /\ \A l \in orl : \E p \in papers :
       p.signature.key = Trusted /\ p.kind = "orl" /\ p.revoked = l.revoked
  /\ foreign.ok =>
       \E a \in papers : /\ a.signature.key = Trusted
                         /\ foreign.matched = {a}
                         /\ a.issued_at <= foreign.at /\ foreign.at <= a.valid_until
                         /\ foreign.keys \subseteq a.trust_bundle
  /\ \A c \in Contents : Answering(plugins, c) \subseteq papers

\* MemoryAnchor, Rfc6962Anchor and SigstoreAnchor: no proof verifies for a
\* bundle it was not handed out for, and the newest proof of a bundle does
\* verify, however often bundles are resubmitted in between.
AnchorsTell ==
  \A i \in DOMAIN proofs : \A b \in Contents :
    /\ ProofVerifies(b, proofs[i]) => proofs[i].digest = b
    /\ (/\ proofs[i].digest = b
        /\ \A j \in (i + 1)..Len(proofs) :
             proofs[j].kind = proofs[i].kind => proofs[j].digest # b)
       => ProofVerifies(b, proofs[i])
=============================================================================
