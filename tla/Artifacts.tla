------------------------------ MODULE Artifacts ------------------------------
(***************************************************************************)
(* The signed papers of TrustForge and the code that verifies them:        *)
(* offline approval packets, permission grants, federation attestations,   *)
(* session migrations, offline revocation lists, relay authorities on the  *)
(* embedded side, evidence bundles, encrypted proof bundles and plugin     *)
(* manifests, with the stores fed from them (the federated trust store,    *)
(* the loaded revocation list, the plugin registry) and the in-memory      *)
(* transparency anchor.                                                    *)
(*                                                                         *)
(* Issuers issue papers; copies travel, possibly with one field altered or *)
(* with the signature of another paper; a verifier that pins the key of    *)
(* one issuer checks what arrives as time passes.                          *)
(*                                                                         *)
(* A paper is a record: its kind, the fields of the Rust struct that the   *)
(* code reads, and the flattened signature envelope (algorithm,            *)
(* env_signer, signature).  Times are numbers, an Option is a set with at  *)
(* most one member, and an issuer's key bears the issuer's name.           *)
(***************************************************************************)
EXTENDS SignedData, Integers, Sequences, FiniteSets

CONSTANTS
  Issuers,      \* actors that sign papers
  Trusted,      \* the issuer whose key the verifier pins
  Contents,     \* payloads: request ids, session ids, images of a grant...
  Readers,      \* actors with a KEM key, which bundles are sealed for
  MaxNow,       \* the clock stops here
  MaxAge,       \* offline_approval.rs: max_age_seconds (86_400)
  Skew,         \* offline_approval.rs: tolerated future (300)
  MaxGeneration,
  MaxPapers     \* papers issued in a behaviour

ASSUME ArtifactsAssumption ==
  /\ Trusted \in Issuers
  /\ MaxNow \in Nat /\ MaxAge \in Nat /\ Skew \in Nat

VARIABLES
  now,            \* the verifier's clock
  papers,         \* every paper issued so far
  verdict,        \* the last presentation: the paper, its verdict and when
  last_generation,\* Option: the generation of the last migration taken
  migrations,     \* history: the generations taken, in order
  orl,            \* Option: the revocation list in force
  by_id,          \* FederatedTrustStore.by_id
  plugins,        \* PluginRegistry.plugins: manifests in load order
  foreign,        \* the last verify_foreign: question and answer
  entries,        \* MemoryAnchor.entries: bundle -> sequence number
  proofs          \* history: the inclusion proofs handed out, in order

vars == <<now, papers, verdict, last_generation, migrations, orl, by_id,
          plugins, foreign, entries, proofs>>

Times == 0..MaxNow
Envelope == {"kind", "algorithm", "env_signer", "signature"}

\* What a paper's signature covers: every field but the envelope.
Body(p) == [f \in DOMAIN p \ Envelope |-> p[f]]

Enveloped(kind, body, over, signer, key) ==
  body @@ [kind |-> kind, algorithm |-> "ed25519", env_signer |-> signer,
           signature |-> Sign(key, over)]

-----------------------------------------------------------------------------
(* expiration.rs *)

Or(option, other) == IF option # {} THEN option ELSE other

AnyTime == [valid_from |-> {}, valid_until |-> {}, expires_at |-> {},
            not_before |-> {}, not_after |-> {}]

check_window(window, t) ==
  LET start == Or(window.valid_from, window.not_before)
      end   == Or(Or(window.valid_until, window.expires_at), window.not_after)
  IN  IF \E s \in start : t < s THEN "not-yet-valid"
      ELSE IF \E e \in end : t > e THEN "expired"
      ELSE "ok"

is_within_window(window, t) == check_window(window, t) = "ok"

-----------------------------------------------------------------------------
(* offline_approval.rs: the version and the transport hint are outside the *)
(* signed payload.                                                          *)

OfflinePayload(p) ==
  [f \in {"request", "decision", "responder", "responded_at"} |-> p[f]]

sign_offline_approval_packet(request, decision, responder, hint, at) ==
  LET payload == [request |-> request, decision |-> decision,
                  responder |-> responder, responded_at |-> at]
  IN  Enveloped("offline",
                payload @@ [packet_version |-> "1", transport_hint |-> hint],
                payload, responder, responder)

\* The decision left out of the digest that is checked.
DecisionUnsigned(p, key, t) ==
  /\ p.packet_version = "1"
  /\ p.env_signer = p.responder
  /\ p.algorithm = "ed25519"
  /\ \A s \in t : s - p.responded_at <= MaxAge /\ s - p.responded_at >= -Skew
  /\ p.signature.key = key
  /\ \A f \in {"request", "responder", "responded_at"} :
       f \in DOMAIN p.signature.over /\ p.signature.over[f] = p[f]

verify_offline_approval_packet(p, key, t) ==
  /\ p.packet_version = "1"
  /\ p.env_signer = p.responder
  /\ p.algorithm = "ed25519"
  /\ \A s \in t : s - p.responded_at <= MaxAge /\ s - p.responded_at >= -Skew
  /\ Verifies(key, OfflinePayload(p), p.signature)

-----------------------------------------------------------------------------
(* permission.rs *)

sign_permission_grant(request, decision, issuer, from, until, at) ==
  LET body == [grant_version |-> "1", request_id |-> request,
               decision |-> decision, valid_from |-> from,
               valid_until |-> until, issued_at |-> at, issuer |-> issuer]
  IN  Enveloped("grant", body, body, issuer, issuer)

\* The request is an Option: a caller may verify a grant on its own.
verify_permission_grant(g, key, request, t) ==
  /\ g.grant_version = "1"
  /\ g.env_signer = g.issuer
  /\ g.algorithm = "ed25519"
  /\ \A r \in request : g.request_id = r
  /\ is_within_window([AnyTime EXCEPT !.valid_from = g.valid_from,
                                      !.valid_until = g.valid_until], t)
  /\ Verifies(key, Body(g), g.signature)

-----------------------------------------------------------------------------
(* federation.rs *)

\* An empty trust bundle is refused (an empty Option here).
sign_federation_attestation(id, domain, actor, bundle, at, until, issuer) ==
  LET body == [attestation_version |-> "1", attestation_id |-> id,
               subject_domain |-> domain, subject_actor |-> actor,
               trust_bundle |-> bundle, issued_at |-> at,
               valid_until |-> until, issuer |-> issuer]
  IN  IF bundle = {} THEN {}
      ELSE {Enveloped("attestation", body, body, issuer, issuer)}

AttestationWindow(a) ==
  [AnyTime EXCEPT !.valid_from = {a.issued_at}, !.valid_until = {a.valid_until}]

verify_federation_attestation(a, key, t) ==
  /\ a.attestation_version = "1"
  /\ a.env_signer = a.issuer
  /\ a.algorithm = "ed25519"
  /\ is_within_window(AttestationWindow(a), t)
  /\ Verifies(key, Body(a), a.signature)

\* Attestations matched without looking at their window.
FindStale(store, actor, domain, t) ==
  {a \in {store[i] : i \in DOMAIN store} :
     a.subject_domain = domain /\ a.subject_actor \subseteq {actor}}

\* The attestations find_for may return: the map is walked in no fixed
\* order and the first match wins.
find_for(store, actor, domain, t) ==
  {a \in {store[i] : i \in DOMAIN store} :
     /\ a.subject_domain = domain
     /\ a.subject_actor \subseteq {actor}
     /\ is_within_window(AttestationWindow(a), t)}

-----------------------------------------------------------------------------
(* session_migration.rs *)

migrate_session(session, generation, to, signer, at) ==
  LET body == [migration_version |-> "1", session_id |-> session,
               generation |-> generation, to_binding |-> to,
               migrated_at |-> at, signer |-> signer]
  IN  Enveloped("migration", body, body, signer, signer)

verify_session_migration(m, key, last, session) ==
  /\ m.migration_version = "1"
  /\ m.env_signer = m.signer
  /\ m.algorithm = "ed25519"
  /\ \A s \in session : m.session_id = s
  /\ \A g \in last : m.generation > g
  /\ Verifies(key, Body(m), m.signature)

-----------------------------------------------------------------------------
(* constrained.rs: offline revocation lists.  Entries are <<kind, id>>.    *)

sign_offline_revocation_list(revoked, at, until, issuer) ==
  LET body == [list_version |-> "1", revoked |-> revoked, issued_at |-> at,
               valid_until |-> until, issuer |-> issuer]
  IN  Enveloped("orl", body, body, issuer, issuer)

verify_offline_revocation_list_signature(list, key) ==
  Verifies(key, Body(list), list.signature)

\* OfflineRevocationListRuntime::load: both ends of the window inclusive;
\* the envelope's algorithm and signer are not looked at.
load(list, key, t) ==
  /\ list.list_version = "1"
  /\ list.valid_until >= t
  /\ list.issued_at <= t
  /\ verify_offline_revocation_list_signature(list, key)

-----------------------------------------------------------------------------
(* tf-core-no-std relay.rs: every field goes into the digest with its      *)
(* length, so the digest stands for the record.  No clock on the device:   *)
(* the window is left to the caller.                                       *)

relay_authority_signing_bytes(a) == Body(a)

SignRelayAuthority(relay, hops, until, issuer) ==
  LET body == [relay_authority_version |-> "1", relay |-> relay,
               max_hop_count |-> hops, valid_until |-> until,
               issuer |-> issuer]
  IN  Enveloped("relay", body, body, issuer, issuer)

verify_relay_authority(a, key) ==
  /\ a.relay_authority_version = "1"
  /\ a.algorithm = "ed25519"
  /\ a.env_signer = a.issuer
  /\ Verifies(key, relay_authority_signing_bytes(a), a.signature)

-----------------------------------------------------------------------------
(* evidence.rs: events are [at, actor, level]; Filter is the incident's    *)
(* start, Optional end and Optional set of actors (the regular expression  *)
(* on the type is one more such test).                                     *)

Matching(events, filter) ==
  SelectSeq(events, LAMBDA e :
    /\ e.at >= filter.started_at
    /\ \A end \in filter.ended_at : e.at <= end
    /\ \A actors \in filter.actors : e.actor \in actors)

highest_level(events) ==
  LET levels == {events[i].level : i \in DOMAIN events}
  IN  CHOOSE l \in levels \cup {0} : \A k \in levels \cup {0} : k <= l

\* No matching event is an error (an empty Option).
assemble_evidence_bundle(events, filter, issuer, at) ==
  LET filtered == Matching(events, filter)
      body == [evidence_version |-> "1", incident |-> filter,
               actors |-> {filtered[i].actor : i \in DOMAIN filtered},
               events |-> filtered, level |-> highest_level(filtered),
               issued_at |-> at, issuer |-> issuer]
  IN  IF filtered = <<>> THEN {}
      ELSE {Enveloped("evidence", body, body, issuer, issuer)}

\* Only the outer signature is checked.
verify_evidence_bundle(b, key) == Verifies(key, Body(b), b.signature)

-----------------------------------------------------------------------------
(* bundle.rs: the data key of a bundle is fresh; it stands for the bundle's *)
(* content and sealing time.  A wrapped key is the data key under the       *)
(* recipient's KEM key.                                                     *)

seal_bundle(content, recipients, signer, at) ==
  LET data_key == <<content, at>>
      body == [bundle_version |-> "1",
               ciphertext |-> [under |-> data_key, text |-> content],
               wrapped_keys |-> [i \in DOMAIN recipients |->
                  [recipient |-> recipients[i].actor,
                   under |-> recipients[i].kem_public, key |-> data_key]],
               transparency_anchor |-> {}]
  IN  Enveloped("bundle", body, body, signer, signer)

\* The first wrapped key bearing the reader's name is the only one tried.
\* signer is an Option: without it the signature is not checked.
open_bundle(enc, kem, actor, signer) ==
  LET mine == SelectSeq(enc.wrapped_keys, LAMBDA w : w.recipient = actor)
  IN  IF /\ mine # <<>>
         /\ Head(mine).under = kem
         /\ enc.ciphertext.under = Head(mine).key
         /\ \A key \in signer : Verifies(key, Body(enc), enc.signature)
      THEN {enc.ciphertext.text}
      ELSE {}

-----------------------------------------------------------------------------
(* plugin.rs: the manifest carries its own key, and only the innermost     *)
(* signature field is cleared, so that the rest of the envelope is covered.*)

ManifestBody(p) == [f \in DOMAIN p \ {"kind", "signature"} |-> p[f]]

SignManifest(id, capabilities, author) ==
  LET body == [plugin_kind |-> "native", plugin_id |-> id,
               capabilities |-> capabilities, identity_pub |-> author,
               algorithm |-> "ed25519", env_signer |-> author]
  IN  body @@ [kind |-> "plugin", signature |-> Sign(author, body)]

verify_signature_value(manifest) ==
  Verifies(manifest.identity_pub, ManifestBody(manifest), manifest.signature)

load_native(manifest) ==
  manifest.plugin_kind = "native" /\ verify_signature_value(manifest)

\* invoke: the first plugin loaded under the id answers.
Answering(registry, id) ==
  LET hits == SelectSeq(registry, LAMBDA p : p.plugin_id = id)
  IN  IF hits = <<>> THEN {} ELSE {Head(hits)}

-----------------------------------------------------------------------------
(* bundle.rs: transparency anchors.  A digest stands for the bundle it is   *)
(* of.  The HTTP logs keep nothing on this side and their verify compares   *)
(* the digest alone; the in-memory one numbers its entries.                 *)

\* MemoryAnchor::submit: resubmitting a bundle renumbers it.
memory_submit(log, bundle) ==
  LET seq == Cardinality(DOMAIN log)
  IN  [entries |-> (bundle :> seq) @@ log,
       proof |-> [kind |-> "memory", digest |-> bundle, seq |-> seq]]

verify_inclusion(log, bundle, proof) ==
  /\ proof.digest = bundle
  /\ bundle \in DOMAIN log
  /\ proof.seq = log[bundle]

rfc6962_submit(bundle)        == [kind |-> "rfc6962", digest |-> bundle, seq |-> 0]
rfc6962_verify(bundle, proof) == proof.digest = bundle
sigstore_submit(bundle)        == [kind |-> "sigstore", digest |-> bundle, seq |-> 0]
sigstore_verify(bundle, proof) == proof.digest = bundle

ProofVerifies(bundle, proof) ==
  CASE proof.kind = "memory"   -> verify_inclusion(entries, bundle, proof)
    [] proof.kind = "rfc6962"  -> rfc6962_verify(bundle, proof)
    [] proof.kind = "sigstore" -> sigstore_verify(bundle, proof)
=============================================================================
