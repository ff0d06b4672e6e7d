--------------------------- MODULE ConstrainedMode ---------------------------
(***************************************************************************)
(* Packet mode over a constrained bearer (packet.rs, relay.rs and          *)
(* constrained.rs of tf-types): a source signs packets and splits those    *)
(* above the MTU into fragments, a relay forwards frames under a signed    *)
(* authority with a hop cap and a rate limit, a receiver filters them      *)
(* through a sliding replay window, reassembles fragments and signs        *)
(* delivery receipts.  The bearer loses, repeats and reorders frames: what *)
(* was ever sent stays in air and may be picked up any number of times.    *)
(*                                                                         *)
(* Time is a count of ticks, MinuteTicks of them to a minute; ISO-8601     *)
(* strings of one format compare as the instants they name.                *)
(***************************************************************************)
EXTENDS Integers, Sequences, FiniteSets, SequencesExt, SignedData

CONSTANTS Messages,      \* what the source sends
          Mtu,           \* FragmentOptions.mtu
          WindowSize,    \* PacketReceiver window_size
          MaxHopCount, RateLimit, ValidUntil,  \* of the relay authority
          MinuteTicks, MaxNow, MaxAir, MaxAccepted, MaxForwards   \* bounds of the model

VARIABLES now,
          air,        \* frames on the bearer: [pkt, hops]
          relay,      \* RelayHandler: validated, rate_bucket_minute, _count
          forwards,   \* history: the minute of each frame the relay passed on
          proofs,     \* proofs of forwarding the relay signed
          seen,       \* PacketReceiver.seen: [id, exp], oldest first
          accepted,   \* history: packets observe accepted, in order
          evicted,    \* history: ids the full window pushed out
          delivered,  \* payloads handed to the application: [id, whole, payload]
          receipts,   \* delivery receipts signed by the receiver
          authority   \* the RelayAuthority the relay was built with

vars == <<now, authority, air, relay, forwards, proofs, seen, accepted, evicted, delivered,
          receipts>>

None == 0

(***************************************************************************)
(* packet.rs: the payload's wire form.  An envelope is a header naming the *)
(* encoding and the length, then the bytes; deflate wraps that once more.  *)
(* Decoding anything but one whole envelope fails.                         *)
(***************************************************************************)
Envelope(enc, raw) == <<<<enc, Len(raw)>>>> \o raw
Deflate(comp, bytes) ==
  IF comp = "deflate" THEN <<<<"deflate", Len(bytes)>>>> \o bytes ELSE bytes

IsWrapped(tag, bytes) ==
  bytes # <<>> /\ Head(bytes) = <<tag, Len(bytes) - 1>>

\* verify_packet, its checks in the code's order, and the payload it yields.
verify_packet(p, key) ==
  LET inflated == IF p.compression = "deflate" THEN Tail(p.payload) ELSE p.payload IN
  CASE p.packet_version # "1"                         -> "unsupported packet_version"
    [] p.signature.signer # p.source                  -> "signer does not match source"
    [] p.priority = "P0" /\ ~p.emergency              -> "P0 reserved"
    [] p.expires_at # None /\ now > p.expires_at      -> "packet expired"
    [] ~EnvelopeOk(p, key)                            -> "signature verification failed"
    [] p.compression = "deflate" /\ ~IsWrapped("deflate", p.payload)
                                                      -> "deflate inflate failed"
    [] ~IsWrapped(p.encoding, inflated)               -> "envelope does not decode"
    [] OTHER                                          -> "ok"

VerifiedPayload(p) ==
  IF p.compression = "deflate" THEN Tail(Tail(p.payload)) ELSE Tail(p.payload)

Wire(m) == Deflate(m.comp, Envelope(m.enc, m.raw))

\* sign_packet: P0 without emergency is refused; otherwise the payload is
\* enveloped, compressed and the whole packet signed.
sign_packet(m, key) ==
  SignedBy([packet_version |-> "1", packet_id |-> <<m.id>>, source |-> key,
          priority |-> m.priority, emergency |-> m.emergency,
          created_at |-> now + m.skew, expires_at |-> m.expires,
          encoding |-> m.enc, compression |-> m.comp, payload |-> Wire(m),
          fragment |-> <<>>], key, key)
MaySign(m) == m.priority = "P0" => m.emergency

\* fragment_packet: a packet within the MTU goes as it is; a larger one as
\* slices of its wire payload, each a packet signed anew.
fragment_packet(p, key) ==
  LET total == Len(p.payload)
      count == (total + Mtu - 1) \div Mtu
      slice(i) == SubSeq(p.payload, i * Mtu + 1,
                         IF (i + 1) * Mtu < total THEN (i + 1) * Mtu ELSE total)
  IN IF total <= Mtu THEN {p}
     ELSE {SignedBy([SigningBytes(p) EXCEPT
             !.packet_id = Append(p.packet_id, i), !.payload = slice(i),
             !.fragment = <<[id |-> p.packet_id, index |-> i, count |-> count,
                             total |-> total, digest |-> p.payload]>>],
             p.source, key) :
           i \in 0..(count - 1)}

\* reassemble_fragments on packets in the order they arrived.
Slot(fs, k) == CHOOSE f \in Range(fs) : f.fragment[1].index = k
Assembled(fs) ==
  FlattenSeq([k \in 1..Len(fs) |-> Slot(fs, k - 1).payload])
FragmentsAgree(fs) ==
  /\ fs # <<>>
  /\ \A i \in DOMAIN fs : fs[i].fragment # <<>>
  /\ LET h == fs[1].fragment[1] IN
       /\ Len(fs) = h.count
       /\ \A i \in DOMAIN fs : /\ fs[i].fragment[1].id = h.id
                               /\ fs[i].fragment[1].count = h.count
       /\ \A i, j \in DOMAIN fs :
            fs[i].fragment[1].index = fs[j].fragment[1].index => i = j
       /\ Len(Assembled(fs)) = h.total
reassemble_fragments(fs) ==
  FragmentsAgree(fs) /\ Assembled(fs) = fs[1].fragment[1].digest

(***************************************************************************)
(* relay.rs                                                                *)
(***************************************************************************)
verify_relay_authority(a, issuer) ==
  /\ a.version = "1" /\ a.signature.signer = a.issuer
  /\ EnvelopeOk(a, issuer)

Authority(version, signer, key) ==
  SignedBy([version |-> version, relay |-> "edge", max_hop_count |-> MaxHopCount,
          rate_limit_per_minute |-> RateLimit, valid_from |-> 0,
          valid_until |-> ValidUntil, issuer |-> "root"], signer, key)

\* sign_relay_authority's product, and one that must not be honoured.
Authorities == {Authority("1", "root", "root"), Authority("1", "edge", "root")}

\* Mutant: the bucket of the instant, not of the minute.
BucketPerTick ==
  [relay EXCEPT !.validated = TRUE, !.minute = now,
                !.count = IF now = relay.minute THEN relay.count + 1 ELSE 1]

\* The rate bucket after one more frame at the current minute.
BucketAfter ==
  LET minute == now \div MinuteTicks IN
  [relay EXCEPT !.validated = TRUE, !.minute = minute,
                !.count = IF minute = relay.minute THEN relay.count + 1 ELSE 1]

(***************************************************************************)
(* constrained.rs                                                          *)
(***************************************************************************)
\* PacketReceiver::observe: the verdict.
Observe(p) ==
  CASE p.expires_at # None /\ p.expires_at < now     -> "expired"
    [] p.created_at > now                            -> "future-dated"
    [] \E i \in DOMAIN seen : seen[i].id = p.packet_id -> "replay"
    [] OTHER                                         -> "accept"

\* A receipt binds the packet's id and the digest of the whole packet.
sign_delivery_receipt(p) ==
  SignedBy([version |-> "1", packet_id |-> p.packet_id, packet_hash |-> p,
            receiver |-> "rx", received_at |-> now], "rx", "rx")

verify_delivery_receipt(r, p, key) ==
  /\ r.version = "1" /\ r.packet_id = p.packet_id /\ r.packet_hash = p
  /\ r.signature.signer = r.receiver /\ EnvelopeOk(r, key)

sign_proof_of_forwarding(p, hops) ==
  SignedBy([version |-> "1", packet_id |-> p.packet_id, packet_hash |-> p,
            relay |-> "edge", forwarded_at |-> now, hop_count |-> hops],
           "edge", "edge")

verify_proof_of_forwarding(r, p, key) ==
  /\ r.version = "1" /\ r.packet_id = p.packet_id /\ r.packet_hash = p
  /\ r.signature.signer = r.relay /\ EnvelopeOk(r, key)

-----------------------------------------------------------------------------
Init == /\ now = 0 /\ authority \in Authorities /\ air = {}
        /\ relay = [validated |-> FALSE, minute |-> -1, count |-> 0]
        /\ forwards = <<>> /\ proofs = {}
        /\ seen = <<>> /\ accepted = <<>> /\ evicted = {} /\ delivered = {}
        /\ receipts = {}

receiver == <<seen, accepted, evicted, delivered, receipts>>

\* The source signs a message (again, as a retry) and fragments it.
Send(m) ==
  /\ MaySign(m) /\ Cardinality(air) < MaxAir
  /\ air' = air \cup {[pkt |-> p, hops |-> 0] :
                        p \in fragment_packet(sign_packet(m, "src"), "src")}
  /\ UNCHANGED <<now, authority, relay, forwards, proofs>> /\ UNCHANGED receiver

\* RelayHandler::forward.  The bucket counts a frame before it is refused
\* for the rate, and only frames that passed the earlier tests.
Forward(f) ==
  /\ Len(forwards) < MaxForwards /\ relay.count <= MaxForwards
  /\ relay.validated \/ verify_relay_authority(authority, "root")
  /\ LET open == /\ authority.valid_from <= now /\ now <= authority.valid_until
                 /\ f.pkt.expires_at # None => f.pkt.expires_at >= now
                 /\ f.hops < authority.max_hop_count
         pass == open /\ BucketAfter.count <= authority.rate_limit_per_minute
     IN /\ relay' = IF open THEN BucketAfter ELSE [relay EXCEPT !.validated = TRUE]
        /\ air' = IF pass THEN air \cup {[f EXCEPT !.hops = @ + 1]} ELSE air
        /\ forwards' = IF pass THEN Append(forwards, now \div MinuteTicks)
                       ELSE forwards
        /\ proofs' = IF pass
                     THEN proofs \cup {sign_proof_of_forwarding(f.pkt, f.hops + 1)}
                     ELSE proofs
  /\ UNCHANGED <<now, authority>> /\ UNCHANGED receiver

\* The receiver observes a frame and, when it is accepted, acknowledges it
\* and verifies it; a fragment does not verify alone and waits.
Receive(f) ==
  /\ Len(accepted) < MaxAccepted
  /\ Observe(f.pkt) = "accept"
  /\ LET full == Len(seen) >= WindowSize IN
       /\ seen' = Append(IF full THEN Tail(seen) ELSE seen,
                         [id |-> f.pkt.packet_id, exp |-> f.pkt.expires_at])
       /\ evicted' = IF full THEN evicted \cup {seen[1].id} ELSE evicted
  /\ accepted' = Append(accepted, f.pkt)
  /\ receipts' = receipts \cup {sign_delivery_receipt(f.pkt)}
  /\ delivered' = IF verify_packet(f.pkt, "src") # "ok" THEN delivered
                  ELSE delivered \cup {[id |-> f.pkt.packet_id, whole |-> TRUE,
                                        payload |-> VerifiedPayload(f.pkt)]}
  /\ UNCHANGED <<now, authority, air, relay, forwards, proofs>>

\* The receiver passes some of the packets it holds to reassemble_fragments,
\* which yields the wire payload under the original's id.
Reassemble(I) ==
  LET fs == [k \in 1..Cardinality(I) |-> accepted[SetToSortSeq(I, <)[k]]] IN
  /\ reassemble_fragments(fs)
  /\ delivered' = delivered \cup {[id |-> fs[1].fragment[1].id, whole |-> FALSE,
                                   payload |-> Assembled(fs)]}
  /\ UNCHANGED <<now, authority, air, relay, forwards, proofs, seen, accepted,
                 evicted, receipts>>

\* Mutant: drops an entry in its last valid second.
ExpireEarly ==
  /\ seen' = SelectSeq(seen, LAMBDA e : e.exp = None \/ e.exp > now)
  /\ UNCHANGED <<now, authority, air, relay, forwards, proofs, accepted, evicted,
                 delivered, receipts>>

\* PacketReceiver::expire_older_than, called with the current time.
ExpireOlderThan ==
  /\ seen' = SelectSeq(seen, LAMBDA e : e.exp = None \/ e.exp >= now)
  /\ UNCHANGED <<now, authority, air, relay, forwards, proofs, accepted, evicted,
                 delivered, receipts>>

Tick == /\ now < MaxNow /\ now' = now + 1
        /\ UNCHANGED <<authority, air, relay, forwards, proofs>> /\ UNCHANGED receiver

Next == \/ \E m \in Messages : Send(m)
        \/ \E f \in air : Forward(f) \/ Receive(f)
        \/ \E I \in SUBSET (DOMAIN accepted) : Reassemble(I)
        \/ ExpireOlderThan \/ Tick

Spec == Init /\ [][Next]_vars

-----------------------------------------------------------------------------
(***************************************************************************)
(* What the application gets is what the source sent: the raw payload of a *)
(* packet that fitted the MTU, the wire payload of one reassembled from    *)
(* fragments, never a mixture, although reassemble_fragments checks no     *)
(* signature, an id may be used for two messages, and fragments arrive in  *)
(* any order, more than once and from several sends.                       *)
(***************************************************************************)
DeliveredFaithful ==
  \A d \in delivered : \E m \in Messages :
    d.id = <<m.id>> /\ d.payload = IF d.whole THEN m.raw ELSE Wire(m)

(***************************************************************************)
(* The relay never exceeds its authority: no forward without one that      *)
(* verifies, none beyond the hop cap, and in no minute more than the rate  *)
(* limit, whatever was refused in between.                                 *)
(***************************************************************************)
RelayWithinAuthority ==
  /\ forwards # <<>> => authority = Authority("1", "root", "root")
  /\ \A f \in air : f.hops <= MaxHopCount
  /\ \A k \in DOMAIN forwards :
       Cardinality({i \in DOMAIN forwards : forwards[i] = forwards[k]}) <= RateLimit

(***************************************************************************)
(* A packet id is accepted a second time only when the full window pushed  *)
(* it out: dropping entries by their expiry never reopens the window to a  *)
(* replay, because observe refuses as expired what expire_older_than drops.*)
(***************************************************************************)
AcceptedOnce ==
  \A i, j \in DOMAIN accepted :
    i # j /\ accepted[i].packet_id = accepted[j].packet_id
      => accepted[i].packet_id \in evicted

(***************************************************************************)
(* A receipt that verifies against a packet proves that this very packet   *)
(* was accepted, and a proof of forwarding that it left the relay with the *)
(* hop count it names, also when another packet carries the same id.       *)
(***************************************************************************)
ReceiptsProve ==
  \A f \in air :
    /\ \A r \in receipts : verify_delivery_receipt(r, f.pkt, "rx")
                             => f.pkt \in Range(accepted)
    /\ \A r \in proofs : verify_proof_of_forwarding(r, f.pkt, "edge")
                           => [pkt |-> f.pkt, hops |-> r.hop_count] \in air
=============================================================================
