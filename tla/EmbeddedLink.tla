---------------------------- MODULE EmbeddedLink ----------------------------
(***************************************************************************)
(* The embedded packet link: sensor nodes that sign readings with          *)
(* tf-core-no-std and a receiver built from the same crate (packet,        *)
(* nonce_cache, orl) reading frames from a tf-embedded-hal radio.  Two     *)
(* sender designs exist in the firmware: the ESP32-C3 node names packets   *)
(* by a RAM counter that restarts at every reboot, the STM32WL node by a   *)
(* hash of the payload.  Frames are lost, repeated, reordered and garbled. *)
(*                                                                         *)
(* The crate leaves the order of the replay check and the signature check  *)
(* to its caller, so verifyFirst is chosen once.                           *)
(***************************************************************************)
EXTENDS Naturals, Sequences, FiniteSets, SignedData

CONSTANTS Window,          \* N of PacketReceiver<N> (or capacity)
          CounterModulus,  \* 2^32 in the firmware
          Payloads,        \* sensor values of the hash-named node
          MaxSent, MaxRecorded, MaxBoots, MaxNow  \* bounds of the model

VARIABLES now,         \* the receiver's clock
          verifyFirst, \* the caller verifies before it consults the window
          counter,     \* the ESP32-C3 node's u32 in RAM
          boots,       \* how often that node has restarted
          sent,        \* every packet signed, in order, with the boot it is from
          seen,        \* PacketReceiver.seen
          orl,         \* the revoked actors of the loaded list
          recorded,    \* history: the ids observe has recorded, in order
          shadowed,    \* history: packets of which a garbled copy was recorded
          taken,       \* history: the number and frame of all that passed
          lost         \* history: packets refused as replays though never taken

vars == <<now, verifyFirst, counter, boots, sent, seen, orl, recorded,
          shadowed, taken, lost>>

Never == 99        \* "2099-01-01T00:00:00Z"
Noise == <<"noise", 0>>
LongId == <<"longer than PACKET_ID_CAP", 0>>
Overlong == <<"frame longer than the buffer", 0>>

(***************************************************************************)
(* packet.rs                                                               *)
(***************************************************************************)
\* sign_packet for payloads and ids within their caps, at a priority other
\* than P0 (refused: the crate never sets emergency).
sign_packet(payload, key, signer, id, priority, expires) ==
  Signed([packet_version |-> "1", packet_id |-> id, source |-> signer,
          priority |-> priority, emergency |-> FALSE, expires_at |-> expires,
          signer |-> signer, payload |-> payload], key)

\* verify_packet, in the code's order.
verify_packet(p, key) ==
  CASE p.packet_version # "1"                -> "UnsupportedVersion"
    [] p.signer # p.source                   -> "SignerMismatch"
    [] p.priority = "P0" /\ ~p.emergency     -> "P0NotEmergency"
    [] p.expires_at < now                    -> "Expired"
    [] ~SignatureOk(p, key)                  -> "SignatureInvalid"
    [] OTHER                                 -> "Ok"

(***************************************************************************)
(* nonce_cache.rs PacketReceiver::observe (the heapless build; the alloc   *)
(* build has no id cap): the verdict and the window that results.          *)
(***************************************************************************)
ObserveVerdict(p) ==
  CASE p.expires_at < now                            -> "Expired"
    [] p.packet_id = LongId                          -> "IdTooLarge"
    [] \E i \in DOMAIN seen : seen[i] = p.packet_id  -> "Replay"
    [] OTHER                                         -> "Accept"

\* Mutant: evicts one entry too early.
EarlyEvictWindow(id) ==
  Append(IF Len(seen) + 1 >= Window /\ seen # <<>> THEN Tail(seen) ELSE seen, id)

WindowAfter(id) ==
  Append(IF Len(seen) >= Window THEN Tail(seen) ELSE seen, id)

(***************************************************************************)
(* orl.rs OfflineRevocationListChecker::new, in the code's order: the      *)
(* error or the index of the list.  The expiry test refuses a list whose   *)
(* valid_until equals now.                                                 *)
(***************************************************************************)
OrlNew(list, issuer) ==
  CASE list.version # 1            -> "UnsupportedVersion"
    [] list.valid_until <= now     -> "Expired"
    [] now < list.issued_at        -> "FutureDated"
    [] ~SignatureOk(list, issuer)  -> "BadSignature"
    [] OTHER                       -> "Ok"

\* Lists a gateway may hand the device: they revoke the hash-named node, are
\* valid from the start or later, and are signed by the pinned issuer or not.
Lists == {Signed([version |-> v, issued_at |-> i, valid_until |-> 1,
                  revoked |-> {"wl55"}], k) :
          v \in {1, 2}, i \in {0, 1}, k \in {"root", "other"}}

-----------------------------------------------------------------------------
Init == /\ now = 0 /\ verifyFirst \in BOOLEAN
        /\ counter = 0 /\ boots = 0 /\ sent = <<>>
        /\ seen = <<>> /\ orl = {}
        /\ recorded = <<>> /\ shadowed = {} /\ taken = {} /\ lost = {}

receiver == <<seen, orl, recorded, shadowed, taken, lost>>

\* tf-esp32c3-uart main: one turn of the uplink loop (a constant reading).
C3Uplink ==
  /\ Len(sent) < MaxSent
  /\ counter' = (counter + 1) % CounterModulus
  /\ sent' = Append(sent, [boot |-> boots,
                pkt |-> sign_packet(<<"c3", 0>>, "c3", "c3", <<"c3", counter'>>,
                                    "P3", Never)])
  /\ UNCHANGED <<now, verifyFirst, boots>> /\ UNCHANGED receiver

\* The node loses power: the counter lives in RAM and starts again at 0.
C3Reboot ==
  /\ boots < MaxBoots
  /\ counter' = 0 /\ boots' = boots + 1
  /\ UNCHANGED <<now, verifyFirst, sent>> /\ UNCHANGED receiver

\* tf-stm32wl-lora build_signed_packet: the id is a hash of the payload.
Wl55Uplink ==
  /\ Len(sent) < MaxSent
  /\ \E v \in Payloads :
       sent' = Append(sent, [boot |-> 0,
                 pkt |-> sign_packet(<<"wl55", v>>, "wl55", "wl55", <<"wl55", v>>,
                                     "P3", Never)])
  /\ UNCHANGED <<now, verifyFirst, counter, boots>> /\ UNCHANGED receiver

\* What interference can make of a frame: a field read wrongly.
Garbled(p) == {[p EXCEPT !.payload = Noise], [p EXCEPT !.payload = Overlong],
               [p EXCEPT !.source = "?"], [p EXCEPT !.packet_version = "?"],
               [p EXCEPT !.priority = "P0"], [p EXCEPT !.packet_id = LongId],
               [p EXCEPT !.expires_at = 0]}

(***************************************************************************)
(* The radio hears packet i, any number of times and in any order, intact  *)
(* or garbled, and the receiver handles the frame.  recv (adapters.rs)     *)
(* removes a frame before it finds it too long, so such a frame is gone.   *)
(***************************************************************************)
Receive(i, p) ==
  /\ Len(recorded) < MaxRecorded
  /\ LET good    == verify_packet(p, p.signer) = "Ok"
         asked   == /\ p.payload # Overlong /\ p.signer \notin orl
                    /\ verifyFirst => good
         verdict == ObserveVerdict(p)
         accept  == asked /\ verdict = "Accept"
     IN /\ seen' = IF accept THEN WindowAfter(p.packet_id) ELSE seen
        /\ recorded' = IF accept THEN Append(recorded, p.packet_id) ELSE recorded
        /\ shadowed' = IF accept /\ ~good THEN shadowed \cup {i} ELSE shadowed
        /\ taken' = IF accept /\ good THEN taken \cup {[n |-> i, frame |-> p]} ELSE taken
        /\ lost' = IF /\ asked /\ verdict = "Replay" /\ good
                      /\ \A t \in taken : t.n # i
                   THEN lost \cup {i} ELSE lost
  /\ UNCHANGED <<now, verifyFirst, counter, boots, sent, orl>>

\* A new offline revocation list replaces the old one if it loads.
LoadOrl ==
  /\ \E l \in Lists : OrlNew(l, "root") = "Ok" /\ orl' = l.revoked
  /\ UNCHANGED <<now, verifyFirst, counter, boots, sent, seen, recorded,
                 shadowed, taken, lost>>

Tick == /\ now < MaxNow /\ now' = now + 1
        /\ UNCHANGED <<verifyFirst, counter, boots, sent>> /\ UNCHANGED receiver

Next == \/ C3Uplink \/ C3Reboot \/ Wl55Uplink \/ LoadOrl \/ Tick
        \/ \E i \in DOMAIN sent :
             \E p \in {sent[i].pkt} \cup Garbled(sent[i].pkt) : Receive(i, p)

Spec == Init /\ [][Next]_vars

-----------------------------------------------------------------------------
(***************************************************************************)
(* What the receiver takes is what a node signed, whatever the radio made  *)
(* of the frame and in whichever order the caller checks.                  *)
(***************************************************************************)
TakenGenuine == \A t \in taken : t.frame = sent[t.n].pkt

(***************************************************************************)
(* The window keeps its promise exactly: an id recorded once is recorded   *)
(* again only after Window other ids, never earlier (PacketReceiver evicts *)
(* first in, first out, and looks before it evicts).                       *)
(***************************************************************************)
RecordedOncePerWindow ==
  \A i, j \in DOMAIN recorded :
    i < j /\ recorded[i] = recorded[j] => j - i > Window

\* Two packets of the counter node between which the counter went round.
Wrapped(i, j) ==
  Cardinality({k \in DOMAIN sent : sent[k].pkt.signer = "c3"
                 /\ k \in ((i + 1)..j) \cup ((j + 1)..i)}) >= CounterModulus

(***************************************************************************)
(* A good packet that was never taken is refused as a replay only when the *)
(* sender reused its id (the hash node for an equal reading, the counter   *)
(* node after a reboot or when its counter has gone all the way round) or, *)
(* if the caller consults the window before the signature, when a garbled  *)
(* copy of such a packet got there before it.                              *)
(***************************************************************************)
LossExplained ==
  \A i \in lost :
    \/ ~verifyFirst /\ i \in shadowed
    \/ \E j \in DOMAIN sent \ {i} :
         /\ sent[j].pkt.packet_id = sent[i].pkt.packet_id
         /\ \/ sent[i].pkt.signer = "wl55"
            \/ sent[i].boot # sent[j].boot
            \/ Wrapped(i, j)
=============================================================================
