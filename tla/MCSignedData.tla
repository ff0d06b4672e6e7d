---------------------------- MODULE MCSignedData ----------------------------
(***************************************************************************)
(* Signed data on its way to a verifier.  A behaviour follows one road:    *)
(* papers that are issued and presented (Artifacts), packets that pass a   *)
(* constrained link and its relay (ConstrainedMode), the frames of         *)
(* embedded nodes on a radio (EmbeddedLink), or the messages of a          *)
(* handshake (SessionHandshake).  A variable that several of them have     *)
(* belongs to the road taken; the others have no value.                    *)
(***************************************************************************)
EXTENDS MCArtifacts

CONSTANTS Mtu, WindowSize, MaxHopCount, RateLimit, ValidUntil, MinuteTicks,
          MaxAir, MaxAccepted, MaxForwards,
          Window, CounterModulus, Payloads, MaxSent, MaxRecorded, MaxBoots, MaxRadioNow,
          Initiators, Responders, MaxEph

VARIABLES
  road,
  air, relay, forwards, seen, accepted, evicted, delivered, receipts, authority,
  verifyFirst, counter, boots, sent, recorded, shadowed, taken, lost,
  st, msgs, derived, nextEph

\* A large message that needs two fragments and another that reuses its id,
\* and a small compressed one, dated ahead of the receiver's clock, that soon
\* expires: as an emergency, and as a P0 message that may not be signed.
Large(a) == [id |-> 1, raw |-> <<<<"b", a>>, <<"b", a + 1>>, <<"b", a>>>>,
             expires |-> 0, skew |-> 0, comp |-> "none", enc |-> "cbor",
             priority |-> "P3", emergency |-> FALSE]
Small(e) == [id |-> 2, raw |-> <<<<"b", 1>>>>, expires |-> 1, skew |-> 1,
             comp |-> "deflate", enc |-> "json", priority |-> "P0", emergency |-> e]
Messages == {Large(1), Large(2), Small(TRUE), Small(FALSE)}

MCPeer(ident, preferred, supported, offers, pq) ==
    [ident |-> ident, version |-> 0, preferred |-> preferred,
     supported |-> supported, offers |-> offers, pq |-> pq]

MCBoth == <<"classic", "hybrid">>

\* Objects that differ in version, suites and keys, and share identities: a
\* node runs several sessions at once, and both sides of them.  i2 sends only
\* its suite, as older peers do; i3 lacks the keys of the suite it offers; i4
\* is of a later version; r3 lacks the keys of the only suite it supports.
MCConfig ==
    [i1 |-> MCPeer("alice", "hybrid", MCBoth, TRUE, TRUE),
     i2 |-> MCPeer("bob", "classic", <<"classic">>, FALSE, FALSE),
     i3 |-> MCPeer("carol", "hybrid", <<"hybrid">>, TRUE, FALSE),
     i4 |-> [MCPeer("dave", "classic", MCBoth, TRUE, TRUE) EXCEPT !.version = 1],
     r1 |-> MCPeer("bob", "classic", MCBoth, TRUE, TRUE),
     r2 |-> MCPeer("bob", "hybrid", MCBoth, TRUE, TRUE),
     r3 |-> MCPeer("erin", "hybrid", <<"hybrid">>, TRUE, FALSE)]

Link == INSTANCE ConstrainedMode
Radio == INSTANCE EmbeddedLink WITH MaxNow <- MaxRadioNow
Handshake == INSTANCE SessionHandshake WITH I <- Initiators, R <- Responders, cfg <- MCConfig

paperVars == <<subject, papers, verdict, last_generation, migrations, by_id,
               plugins, foreign, entries>>
linkVars == <<air, relay, forwards, accepted, evicted, delivered, receipts, authority>>
radioVars == <<verifyFirst, counter, boots, sent, recorded, shadowed, taken, lost>>
handshakeVars == <<st, msgs, derived, nextEph>>

Without(v) == v = "absent"

PapersAbsent ==
  /\ Without(subject) /\ Without(papers) /\ Without(verdict)
  /\ Without(last_generation) /\ Without(migrations) /\ Without(by_id)
  /\ Without(plugins) /\ Without(foreign) /\ Without(entries)
LinkAbsent ==
  /\ Without(air) /\ Without(relay) /\ Without(forwards) /\ Without(accepted)
  /\ Without(evicted) /\ Without(delivered) /\ Without(receipts) /\ Without(authority)
RadioAbsent ==
  /\ Without(verifyFirst) /\ Without(counter) /\ Without(boots) /\ Without(sent)
  /\ Without(recorded) /\ Without(shadowed) /\ Without(taken) /\ Without(lost)
HandshakeAbsent ==
  Without(st) /\ Without(msgs) /\ Without(derived) /\ Without(nextEph)

SignedInit ==
  \/ /\ road = "papers" /\ Init /\ LinkAbsent /\ RadioAbsent /\ HandshakeAbsent
     /\ Without(seen)
  \/ /\ road = "link" /\ PapersAbsent /\ Link!Init /\ RadioAbsent /\ HandshakeAbsent
     /\ Without(orl)
  \/ /\ road = "radio" /\ PapersAbsent /\ LinkAbsent /\ Radio!Init /\ HandshakeAbsent
     /\ Without(proofs)
  \/ /\ road = "handshake" /\ PapersAbsent /\ LinkAbsent /\ RadioAbsent /\ Handshake!Init
     /\ Without(now) /\ Without(orl) /\ Without(proofs) /\ Without(seen)

SignedNext ==
  /\ UNCHANGED road
  /\ \/ /\ road = "papers" /\ Next
        /\ UNCHANGED <<linkVars, radioVars, handshakeVars, seen>>
     \/ /\ road = "link" /\ Link!Next
        /\ UNCHANGED <<paperVars, radioVars, handshakeVars, orl>>
     \/ /\ road = "radio" /\ Radio!Next
        /\ UNCHANGED <<paperVars, linkVars, handshakeVars, proofs>>
     \/ /\ road = "handshake" /\ Handshake!Next
        /\ UNCHANGED <<paperVars, linkVars, radioVars, now, orl, proofs, seen>>

SignedSpec ==
  SignedInit /\ [][SignedNext]_<<road, now, orl, proofs, seen, paperVars, linkVars,
                                  radioVars, handshakeVars>>

-----------------------------------------------------------------------------
\* The verifiers of offline_approval, permission, federation,
\* session_migration, constrained, no-std relay, evidence, bundle and plugin
\* accept exactly what they should: a copy they accept was issued by the
\* trusted issuer, is unaltered in every field the code protects and is in
\* force, and what was issued and arrives unaltered and in force is accepted.
PapersVerify == road = "papers" => AcceptedIsIssued /\ IssuedIsAccepted

\* The federated trust store, the revocation list, the migrated session and
\* the plugin registry only ever hold what the trusted issuer said, and an
\* anchor's proofs verify for the bundles they were handed out for, the newest
\* proof of a bundle always, and for no other.
StoresHoldPapers == road = "papers" => StoresFollowPapers /\ AnchorsTell

\* Over a link that loses, repeats, reorders and fragments packets the
\* application gets what the source sent and never a mixture; a packet id is
\* accepted twice only when the full window of PacketReceiver pushed it out;
\* and a receipt or proof of forwarding that verifies proves what it says.
LinkFaithful ==
  road = "link" => Link!DeliveredFaithful /\ Link!AcceptedOnce /\ Link!ReceiptsProve

\* RelayHandler forwards nothing without an authority that verifies, beyond
\* the hop cap, or above the rate limit in any minute.
RelayObeys == road = "link" => Link!RelayWithinAuthority

\* The embedded receiver takes only what a node signed, in whichever order the
\* caller consults window and signature, and records an id again only after
\* Window other ids; a good packet that was never taken is refused as a replay
\* only when its sender reused the id, or when the caller consults the window
\* first and a garbled copy got there before it.
RadioFaithful ==
  road = "radio" =>
    Radio!TakenGenuine /\ Radio!RecordedOncePerWindow /\ Radio!LossExplained

\* What a completed handshake means, whatever was replayed or misdelivered:
\* the two sides share keys, name each other's identity and settled on the
\* suite their lists lead to, and a side that completed first is not left with
\* a peer that cannot complete (process_hello_i, process_hello_r,
\* process_auth).
HandshakeAgrees ==
  road = "handshake" =>
    Handshake!Agreement /\ Handshake!HalfOpenCompletes /\ Handshake!SuiteNegotiated

\* A session is established with keys its side has never had before: a replay
\* of an old handshake, to the same object or to another one with the same
\* identity, brings no old session back.
NoSessionRevived == [][road = "handshake" => Handshake!Revives = {}]_handshakeVars
=============================================================================
