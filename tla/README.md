# TrustForge in TLA+

TLA+ models of TrustForge, the TLC configurations that check them on small
instances, and TLAPS proofs of the facts that matter most. Source paths are
relative to the repository root; `crates/tf-types/src/` is left out before file
names that occur only there. `PROJECT.json` maps every definition that models
code to its lines, and lists the hazards of the code with the properties that
would catch them going wrong.

## The system

TrustForge is a protocol and a set of libraries for authenticated, authorised
and audited calls between actors (people, services, agents).

| Part | Code | Model |
|---|---|---|
| Session handshake: HelloI, HelloR, Auth, ending in a pair of AEAD keys | `session.rs` | `SessionHandshake` |
| Session frames: numbered, sealed, with in-band rekey | `session.rs`, `crates/tf-session` | `SessionState`, `SecureSession`; promise: `OrderedChannel` |
| ProofRPC: eleven kinds of call over session frames, an enforcer before the handler | `rpc.rs` | `RpcCall` |
| Approval queue: requests that wait for a decision, with a default-deny timer | `approval.rs` | `ApprovalQueue` |
| Quorum: k-of-n votes on one request | `quorum.rs`, `tools/tf-types-ts/src/core/quorum.ts` | `QuorumCollector` |
| Agent guard, policy engines | `guard.rs`, `glob.rs`, `policy_engine.rs`, `crates/tf-cedar`, `crates/tf-rego` | `AccessControl` |
| Constraints, delegation, revocation index, trust overlay, profiles | `capability.rs`, `delegation.rs`, `revocation.rs`, `trust_overlay.rs`, `profile.rs` | `Delegation` |
| Proof chain, Merkle root, calendar | `chain.rs`, `offline_approval.rs` | `ProofChain` |
| Signed papers: approvals, grants, attestations, migrations, revocation lists, bundles, manifests | `offline_approval.rs`, `permission.rs`, `federation.rs`, `session_migration.rs`, `evidence.rs`, `bundle.rs`, `plugin.rs` | `Artifacts` over `SignedData` |
| Packet mode: fragments, relay, replay window, receipts | `packet.rs`, `relay.rs`, `constrained.rs` | `ConstrainedMode` |
| Embedded packet link | `crates/tf-core-no-std`, `crates/tf-embedded-hal`, `crates/embedded/tf-esp32c3-uart`, `tf-stm32wl-lora` | `EmbeddedLink` |
| Stores | `crates/tf-store-file`, `-sqlite`, `-postgres`, `-mysql`, `crates/tf-revoke-redis` | `FileStore`, `SqlStores` |
| Key vault | `vault.rs` | `KeyVault` |
| Gates: proxy, framework middlewares, Envoy filter | `crates/tf-proxy`, `crates/adapters`, `tools/native/envoy` | `Gateway` |
| Token verifiers: JWS, OAuth, GNAP, DPoP, Azure, Google | `jws.rs`, `bridge_oauth.rs`, `bridge_gnap.rs`, `crates/bridges/tf-bridge-azure`, `-gcp` | `TokenVerifiers` |
| Certificates: TLS chains, OCSP, CRL, WebAuthn | `bridge_tls.rs`, `webauthn_attestation.rs`, `bridge_webauthn.rs` | `CertBridges` |
| Names of peers: actor and instance ids, SPIFFE, service mesh, Matrix | `actor_id.rs`, `instance_id.rs`, `trust_domain.rs`, `bridge_spiffe.rs`, `bridge_service_mesh.rs`, `bridge_matrix.rs` | `PeerNames` |
| Webhooks, DIDs, MCP, A2A, registry of bridges | `bridge_webhook.rs`, `bridge_did.rs`, `bridge_mcp.rs`, `bridge_a2a.rs`, `bridges_registry.rs` | `EdgeBridges` |
| HTTP client of the bridges | `crates/tf-transport` | `HttpClient` |
| Metrics: Prometheus exporter, OpenTelemetry | `tools/native/prometheus-exporter`, `crates/tf-otel` | `Exporter` |
| Daemon's enforcer: guard, then approval queue or quorum | `tools/tf-daemon/src/index.ts`, `tools/tf-types-ts/src/core/approval.ts`, `quorum.ts` | `Enforcer` |
| Daemon: proof chain, revocation endpoint, session table | `tools/tf-daemon/src/index.ts` | `Daemon` |

The parts meet as follows. An established session gives RPC an ordered channel
(`OrderedChannel` is what `SecureSession` implements and what the carrier of
`RpcCall` assumes). The daemon accepts connections, runs the handshake, serves
RPC, and asks guard, approval queue and quorum before a handler runs; it writes
a signed, hash-linked proof event for what it did, and re-evaluates live sessions
when a revocation is posted. Gates put the daemon's decision in front of other
services. Bridges turn credentials and names of other systems into TrustForge's.
Where there is no session, signed packets and papers take its place. The stores
keep ledger, revocations and evidence; the vault keeps keys.

## Modules

Conventions. Cryptography is symbolic: a signature is its key and what it covers
(`SignedData`), a digest is its content, a session key is the lineage of secrets
it was derived from. An `Option` or `Result` is a set with at most one member.
Text is a sequence of tokens over an alphabet with one member of every class the
code tells apart. Times are numbers. Definitions named for a defect
(`PushInsertAppends`, `ListWithOnly`, ...) stand beside the ones they alter and
are used by no specification: they show that a property notices the defect.

**`ApprovalQueue`**. A call of `push` is a member of `Push`; the map of pending
records is the set of calls whose record is in it. The mutex covers the map
operations only, so the callback and the channel send of a resolver are a later
step (`Deliver`) on a record already removed (`taken`). `handle.abort()` stops a
timer only while it sleeps. A caller may be cancelled while it waits.

**`SessionState`, `SecureSession`**. `SessionState` has the operations of an end
as operators on a record (`AfterSealing`, `RotateKeys`, ...). `SecureSession`
lets two ends exchange frames over an ordered carrier, or over one that hands any
sealed frame over in any order, any number of times or never. Sequence numbers
wrap at `SeqModulus` (2^64 in the code). `Quiet` and `Retransmit` say how the
application drives a rekey, which the library leaves to it.

**`SessionHandshake`**. Initiator and responder objects of different versions,
suites and keys; every message ever sent can be delivered to anyone, repeatedly.
The network makes nothing up.

**`RpcCall`**. One call with its tasks: caller and pump, two listeners,
dispatcher, pipe pump, handler. Calls meet only in the carrier and are kept apart
by a random id, so one stands for many. Before the call's frame is written the
kind, its registration and the enforcer's answer are chosen.

**`QuorumCollector`**. `respond_as` under its lock is one action; anyone may vote
at any time, repeatedly.

**`AccessControl`, `Delegation`, `ProofChain`** are functions of their arguments,
kept under their source names. `MCDecisions` evaluates them on every input of a
small set and compares with an independent definition (what a glob means, which
queries a restriction speaks of, what a chain grants, when a day is).

**`Artifacts`**. Issuers issue papers; copies travel, possibly with one field
changed or another paper's signature; a verifier that pins one issuer's key
checks them as time passes, and feeds the federated trust store, the revocation
list, the plugin registry, the migrated session and the transparency anchor.
`MCArtifacts` has the kinds of paper and their alterations.

**`ConstrainedMode`**. A source signs packets and fragments those above the MTU,
a relay forwards frames under a signed authority, a receiver keeps a replay
window, reassembles and signs receipts. What was ever sent stays in `air`.

**`EmbeddedLink`**. Two node designs (a counter that restarts at reboot, a hash of
the payload) and the no-std receiver. The crate leaves the order of the replay
and the signature check to its caller, so `verifyFirst` is chosen once.

**`FileStore`**. An operation is a sequence of the system calls whose effect
outlives it, each of which may fail, with a crash between any two. The file
system is external: a crash may cut off appended bytes not yet synced, and undo a
rename that neither a sync of the directory nor a later sync of the renamed file
covers; synced bytes stay. A log record and its newline are separate writes.

**`SqlStores`**. Several clients of one database, of any of the four backends; an
answer may be lost before or after the commit and the call made again. A
transaction commits as one step; the serial number of an insert is taken when it
runs, before its commit.

**`KeyVault`**. Several handles on one file, each with the copy it read when it
opened; a write is temporary file, sync, rename, and may stop anywhere.

**`Gateway`**. One connection to one gate, several requests on it; the daemon
answers with any verb, fails, or stays silent.

**`TokenVerifiers`**. Concurrent callers share a verifier whose key set is fetched
and cached, while the issuer rotates its keys and fetches fail or answer late.

**`HttpClient`**. A response cut into arbitrary reads, in each of the three
framings, with an early end, a timeout or the size cap anywhere.

**`Exporter`**. A scrape is four requests to a daemon that moves between them; any
may fail with the earlier metrics already set.

**`CertBridges`, `PeerNames`, `EdgeBridges`** are functions again; `MCBridges`
evaluates them on small sets of chains, credentials, names, headers and tools.

**`Daemon`**. One event loop: the code between two `await`s is one step.
`Bind` and `Commit` are the two halves of `enqueueSigned`; `Post`, `Write`,
`Reevaluate`, `Record` are the pieces of the revocation endpoint; `Accept`,
`HandshakeHeard`, `Attached`, `AttachFails`, `Close` are the socket handlers.
`Restart` keeps the two files and nothing else. The field `alone` of events and
requests records whether another one was in flight, for the properties only.

**`Enforcer`** composes what the daemon asks before a handler runs. A check gets a
verdict of the guard; if that wants approval, the check awaits a record of the
TypeScript queue (`Push`) or, for a dangerous action with a quorum configured, a
ceremony whose handle is put into a map (`OpenCeremony`). `Admin` is the endpoint
that looks in the map first and in the queue second; `Vote` is an approver who
finds the handle; `TimesOut` and `Drain` deny; `Continue` is the code after the
await. Request ids may repeat.

`MCSecureSession`, `MCSignedData`, `MCStores` and `MCBoundary` each put several
components into one run. A variable chosen in the initial state (`part`, `road`,
`store`) says which component a behaviour follows; the variables of the others
hold the value "absent" throughout. Their properties name the component they are
about. This shares a run among components that do not interact; it does not
compose them.

## Runs

Deadlock is not checked in any run: each instance stops when its bounded inputs
are used up, a call is settled, or a store cannot be opened.

* **`approval`** (`ApprovalQueue.cfg`). Three pushes, two under one id, capacity
  two: the smallest instance in which a full queue, an overwritten record and a
  third, unrelated request coexist. Capacity holds, a waiting caller always has
  somebody who will answer it, a call is timed out only by its own timer and
  announced once, and every push returns. Fairness: tasks are polled and sleeps
  end, as the runtime guarantees; approvers need never act.

* **`session`** (`MCSecureSession.cfg`).
  *Datagrams*: both ends rekey (four ephemerals in all), retransmit and cross,
  two data frames a side, frames lost, repeated and reordered. The session still
  implements `OrderedChannel`, and no key and nonce pair seals two frames.
  *Stream*: ordered carrier, one end rekeys, three data frames a side. Keys stay
  paired, nothing fails to open before a close, rekeys complete, data arrives.
  The modulus, 16, is above what the bounds let a side send; see Observations for
  wrapping. *Call*: every kind, two values each way (order and loss need two), a
  carrier that may die, a handler that may return early, fail or panic. What is
  handed over is what was given, a call is settled once, and is settled.
  Fairness: the loop of `crates/tf-session` reads a stream whenever there is a
  frame, the runtime polls the tasks of a call, and a handler returns once its
  input is over. Datagrams, callers and the carrier owe nothing. That handlers
  return is an obligation of the application: one that never does keeps its call
  open in the code too.

* **`stores`** (`MCStores.cfg`). *File store*: two events, a revocation target, a
  bundle, two failing system calls and two crashes, which admits a failure or a
  crash during the recovery from another. *Databases*: two clients, three calls,
  every backend, answers lost and calls repeated. *Vault*: two handles with
  different passphrases, two entries, two writes, failures and power losses. What
  was acknowledged is what is read later; the tail of the sqlite ledger only
  grows; the vault file is always entire. Events are interchangeable (symmetry).

* **`daemon`** (`Daemon.cfg`). Two revocation requests, one connection, three
  events, one restart: two handlers suffice for every overlap the properties
  speak of, the third event shows what comes after one. The chain and the file go
  wrong by overlap only, a revocation reaches every active server before it is
  answered, and it is answered. Fairness: the event loop resumes every
  continuation.

* **`signed`** (`MCSignedData.cfg`). *Papers*: two papers of two issuers, each
  field of a copy altered in turn, three instants. *Link*: four messages (one of
  two fragments, one that reuses its id, one that expires, one that may not be
  signed), three frames in the air, a replay window of two, one hop, one forward
  a minute. *Radio*: both node designs, four frames, window two, a counter that
  wraps at three, one reboot. *Handshake*: four initiators and three responders
  of two versions and two suites, five ephemerals (two handshakes and a surplus,
  so that messages can be mixed up). Windows of two are the smallest in which an
  eviction can be told from a restart. Verifiers accept exactly what was signed,
  unaltered and in force; replays and losses are what the window explains;
  completed handshakes agree and no old session comes back.

* **`boundary`** (`MCBoundary.cfg`). *Quorum*: two of three actors and an outsider.
  *Decisions*: patterns and texts up to four characters, chains of three links or
  events, every day up to January 2038 (the end of TLC's integers). *Bridges*:
  every offer of `MCBridges`. *Gate*: every gate, two requests on one connection.
  *Enforcer*: two checks with two ids, a queue of one, a quorum of two and two
  outsiders, so that ids meet, the queue fills and stop comes between. *Tokens*: two callers, a clock to five with keys
  that live two, one token, three verdicts. *HTTP*: bodies up to three tokens cut
  anywhere. *Exporter*: a log of four with a window of two, so that events fall
  out of it. Fairness: the timers of the middlewares, of Envoy and of the approval
  queue fire, and the daemon's event loop resumes what was awaited; approvers need
  never vote, and a check whose ballot stays undecided is owed nothing.

Violation runs, each a disagreement between the code and what it says of itself:

* `session_crossing`: two rekey requests that cross leave the ends with different
  keys; the phase 3 design lets either side start one.
* `rpc_early`: a value that reaches the server before the dispatcher's first poll
  is dropped, and the handler sees a clean end; the doc comment of the handler
  says it receives every value.
* `filestore_atomic`: a crash between the two renames of `put` leaves a bundle
  `get` refuses; the roadmap calls evidence writes atomic.
* `mysql_schema`: `migrate` skips the piece of the schema that starts with the
  file's comment and holds the ledger table; the crate says the schema is applied
  at open.
* `daemon_fork`: events emitted while another is being signed carry the same
  `parent_hash`; a comment says each links to the one appended before it.
* `decisions_intersect`: the intersection of two constraint sets may hold where
  one of them does not; `capability.rs` says it computes the intersection.

## Proofs

All by TLAPS, for every value of the constants that the modules' named
assumptions admit. Each invariant below was checked with TLC first.

* `ApprovalQueueProofs`: `TypeCorrect`; `CapacityKept` (the map keeps its bound,
  one record per id); `NoCallerOrphaned` (a waiting caller always has a record in
  the map or a resolver holding its responder); `AnswersAlwaysJustified` (a call
  with an id of its own is timed out by its own timer only, and announced once).
  `NoOrphanedCaller` is not inductive: a timer could finish with its record still
  in the map. `RecordsLive` says a record in the map has an unfinished timer, and
  a record held by a resolver has left the map. `AnswersJustified` is not either:
  two resolvers could hold one record. `AnswerInv` says a record is in the map or
  with one resolver until its channel is written, that a resolver speaks for a
  call of the record's id, and that a timeout comes from a timer that is done.
  Assumed: finitely many calls, a natural capacity, decisions distinct from the
  queue's own markers.
* `DaemonProofs`: `DaemonTypes`; `KeptUnlessOverlappedAlways` (parents are logged
  before children, a call of `enqueueSigned` that was alone links to the event
  before it, and answered revocations are in the file unless two POSTs
  overlapped); `RevocationAlwaysReaches`. What makes them inductive: a call that
  is still alone is the only one in flight and carries the chain's present hash
  (`ChainInv`); a POST that is still alone has read the file as it still is, so
  writing it back loses nothing (`PostInv`); the servers a POST owes stay in the
  set its loop runs over, and the event it awaits is the only one it owns
  (`ReachInv`). Assumed: natural bounds, and that no request is the marker `None`.
* `SecureSessionProofs`: `TypeCorrect`, and `NonceUnique`: while no side has
  sealed as many frames as the sequence space holds, no key and nonce pair is
  used twice, for every carrier and discipline of the ends. The invariant says
  that each earlier frame was sealed under a key of no longer lineage, and frames
  under the current key with smaller numbers; a rotation lengthens the lineage,
  which makes the new key fresh.
* `QuorumCollectorProofs`: `TypeCorrect`, `ApprovalSound`, `DenialSound`, for
  every list of eligible actors, repetitions included. The code compares lengths
  of lists; the invariant `VoteInv` says the lists hold eligible actors, each
  once and none in both, so that lengths count actors.

Only model-checked: every liveness property, which is out of the prover's reach;
the refinement of `OrderedChannel`, whose mapping filters a sequence with an
operator the provers cannot instantiate; the algorithms of `AccessControl`,
`Delegation`, `ProofChain` and the bridges, which are recursive; `ExhaustionDecides`
of the quorum; and the invariants of handshake, calls, stores, vault, papers,
links, gates, enforcer, tokens, HTTP client and exporter.

## Observations

Behaviour met while modelling that no run keeps. Each is what the code does; the
models have it, or leave it out where the module says so.

Sessions, calls, approvals, daemon:
* Repeating a rekey request replaces the outstanding ephemeral, so an ack to the
  first no longer pairs. Data sent after a rekey request under the old key is
  skipped by a peer that has rotated. Sequence numbers wrap silently; after 2^64
  frames under one key a nonce would repeat. `NonceUnique` states the bound.
* A repeated HelloR or Auth empties an established handshake object.
* A stream of an unknown method ends without an error. A handler's panic leaves
  its in-flight entry behind.
* A reused approval id lets the timer of the first push deny the second.
* An actor listed twice in a quorum policy can leave everyone having voted and no
  outcome; hence the run lists each once and only soundness is proved in general.
* Two overlapping `POST /admin/revocations` can lose one update; a restart starts
  a new proof chain without a parent; a close that precedes the end of the
  handshake can leave a session's slot set.
* A check that waits for a quorum has no timer and is not drained by `stop`. The
  admin endpoint votes as `self_actor` only, so a quorum of two needs an approver
  who votes on the handle itself. Two checks that draw one id: the queue refuses
  the second, the map of ceremonies lets it replace the first, which nobody can
  then vote on.
* A comment of `handleDecideOne` says that with a rejected host token the decision
  "MUST be a deny"; the code hands an unresolved actor to the guard, which decides.

Decisions:
* In the native engine a query's negative capabilities replace the policy's, and
  are compared by name where the guard uses globs. `deny_actors` is not consulted
  when no actor is proven. A Rego decision string is passed on unvalidated.
* `merkle_root` of `[a,b,c]` equals that of `[a,b,c,c]`.
* Timestamps are compared as text, so "…00.500Z" sorts before "…00Z".

Papers and packets:
* `MemoryAnchor.submit` renumbers on resubmission. The federated store is searched
  in arbitrary order. `open_bundle` tries only the first wrapped key of a reader.
  Of two plugins with one id the first answers.
* The no-std revocation list is refused at `valid_until`, the others after it.
* The comment at `constrained.rs:64-65` is untrue once the window has evicted.
  Fragments do not verify on their own. The relay's bucket counts refused frames.
* The radio mock drops a frame before it reports that the buffer is too small.
  Nodes that name packets by a hash of the payload cannot repeat a reading within a window.

Stores and vault:
* A failed append that is retried may be in the log twice after a crash, which
  the loader folds to one, whose place may differ from the one it had in memory.
  A torn log keeps the store closed.
* Postgres and MySQL number an event before its commit, so a later number can be
  visible first; hence `DatabaseTailGrows` is about sqlite.
* A vault opened with a wrong passphrase opens; a failed `store` stays in memory
  and goes out with the next write; two handles overwrite each other's entries.

Gates and metrics:
* `log-only` and `escalate` answer 502 in the middlewares, while the proxy forwards
  a `log-only` request (but not a websocket). The proxy's call to the daemon has
  no timeout. A websocket is recognised from the first bytes peeked only. Rocket
  runs the handler and rewrites its response.
* The exporter counts equal events once, misses events beyond the window between
  two scrapes, and its set of seen keys only grows. A second `init_otel` sets the
  globals again, against its comment.

Bridges:
* A late, older JWKS response overwrites a newer one; an unknown `kid` is not
  fetched again; the "common" tenant's issuer matches no token; `nbf` is not
  checked. An empty audience refuses everything in OAuth and skips the check in
  Azure and Google. GNAP's `cnf` is checked only if present; DPoP's `iat` and `jti`
  are not.
* The validity of a TLS root is not checked, only the first issuer of a name is
  tried, and PEM reading stops at a damaged block. OCSP's first answer is taken
  without comparing its certificate id.
* HTTP bodies framed by the end of the connection are accepted when cut short.
* Linkerd's two header forms give one client two actor ids. Instance ids and
  Matrix senders with a "/" inside are ambiguous, WebAuthn slugs and MCP tool
  names may collide.
* A webhook's HMAC covers the body only; without a readable timestamp there is no
  age check. `ed25519_public_key_to_did_key` returns no "did:key:" prefix.

## Not modelled

* The daemon's HTTP endpoints other than approvals and revocations, its plugins and
  its profile gate: framing and lookups around the parts that are modelled.
* Codecs (CBOR, YAML, canonical JSON) and cryptographic primitives: functions over
  unbounded strings, used by contract.
* The TypeScript library, which mirrors the Rust one; only its approval queue,
  quorum collector and proof chain builder, which the daemon uses, are modelled. Its handshake keeps its state after an
  error, where the Rust object is left empty.
* AWS, Doppler and Vault bridges, bridge dispatch and the gRPC transport, the WASM
  host: one call to something external, no state of their own.
* Board examples and the bootloader example, firmware mains over hardware
  registers; the simulation harness; command line, dashboard, conformance and
  schema tools; adapters in other languages; generated types.
* In modelled parts: metadata RPC only hands through, scope strings, role tables,
  wording of reasons, X.509 and CBOR parsing, regular expressions of evidence
  filters, the ratchet of `session_migration.rs` (nothing drives it), the DER of
  RFC 3161 requests. The components of `PROJECT.json` say so one by one.
