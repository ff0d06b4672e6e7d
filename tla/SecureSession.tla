--------------------------- MODULE SecureSession ---------------------------
(***************************************************************************)
(* Two ends of an established session exchanging frames over a carrier:    *)
(* SessionState of crates/tf-types/src/session.rs driven as the loop of    *)
(* crates/tf-session/src/lib.rs drives it (a frame that does not open ends *)
(* the loop), with rekey frames answered as crates/tf-types/tests/         *)
(* session.rs answers them.                                                *)
(*                                                                         *)
(* log[e] is every frame e has ever sealed.  Over an ordered carrier the   *)
(* peer is handed its members one by one; over an unordered one it may be  *)
(* handed any of them, in any order and any number of times, or never.     *)
(***************************************************************************)
EXTENDS SessionState, FiniteSets

CONSTANTS Ordered,      \* is the carrier a byte stream (TCP, WebSocket)?
          Quiet,        \* does a side that awaits rekey-ack send no data?
          Retransmit,   \* may it send another rekey-req instead?
          Rekeyers,     \* the sides that start rekeys
          MaxData,      \* bound: data frames per side
          MaxRekey      \* bound: ephemerals made for rekeys

ASSUME SessionAssumption ==
    /\ {Ordered, Quiet, Retransmit} \subseteq BOOLEAN
    /\ Rekeyers \subseteq Role
    /\ MaxData \in Nat /\ MaxRekey \in Nat

VARIABLES sess,         \* the SessionState of each end
          log,          \* the frames each end has sealed
          taken,        \* how many frames an ordered carrier handed to each end
          rcvd,         \* the data each end has been given
          stopped,      \* why an end's loop is over ("no" while it runs)
          nextEph       \* the next ephemeral

vars == <<sess, log, taken, rcvd, stopped, nextEph>>

HandshakeSecret == {0}

\* A datum is named by the position of its frame.
Data(v) == [kind |-> "data", value |-> v]
RekeyReq(eph) == [kind |-> "rekey-req", value |-> eph]
RekeyAck(eph) == [kind |-> "rekey-ack", value |-> eph]
CloseFrame == [kind |-> "close", value |-> 0]

Init ==
    /\ sess = [e \in Role |-> Derive(e, HandshakeSecret)]
    /\ log = [e \in Role |-> <<>>]
    /\ taken = [e \in Role |-> 0]
    /\ rcvd = [e \in Role |-> <<>>]
    /\ stopped = [e \in Role |-> "no"]
    /\ nextEph = 1

SentBy(e) == SelectSeq(log[e], LAMBDA f : f.body.kind = "data")

\* Seal a body with the session s and hand it to the carrier.
Seal(e, s, body) == log' = [log EXCEPT ![e] = Append(@, Sealed(s, body))]

-----------------------------------------------------------------------------
(* Sending                                                                 *)

SendData(e) ==
    /\ stopped[e] = "no"
    /\ Len(SentBy(e)) < MaxData
    /\ Quiet => sess[e].pending = NoRekey
    /\ Seal(e, sess[e], Data(Len(log[e]) + 1))
    /\ sess' = [sess EXCEPT ![e] = AfterSealing(@)]
    /\ UNCHANGED <<taken, rcvd, stopped, nextEph>>

\* request_rekey: a new ephemeral replaces any pending one.
RequestRekey(e) ==
    /\ stopped[e] = "no"
    /\ e \in Rekeyers
    /\ nextEph <= MaxRekey
    /\ Retransmit \/ sess[e].pending = NoRekey
    /\ Seal(e, sess[e], RekeyReq(nextEph))
    /\ sess' = [sess EXCEPT ![e] =
                  [AfterSealing(@) EXCEPT !.pending = nextEph]]
    /\ nextEph' = nextEph + 1
    /\ UNCHANGED <<taken, rcvd, stopped>>

\* The Close frame is sealed and sent, and the loop ends.
SendClose(e) ==
    /\ stopped[e] = "no"
    /\ Seal(e, sess[e], CloseFrame)
    /\ sess' = [sess EXCEPT ![e] = AfterSealing(@)]
    /\ stopped' = [stopped EXCEPT ![e] = "closed"]
    /\ UNCHANGED <<taken, rcvd, nextEph>>

\* The peer's loop is over and the carrier with it: a send fails.
SendFails(e) ==
    /\ stopped[e] = "no"
    /\ stopped[Peer(e)] # "no"
    /\ stopped' = [stopped EXCEPT ![e] = "closed"]
    /\ UNCHANGED <<sess, log, taken, rcvd, nextEph>>

-----------------------------------------------------------------------------
(* Receiving                                                               *)

\* The positions in the peer's log that the carrier may hand to e next.
Deliverable(e) ==
    IF Ordered THEN {k \in {taken[e] + 1} : k <= Len(log[Peer(e)])}
               ELSE 1..Len(log[Peer(e)])

\* Frame k of the peer arrives at a running loop and opens (or does not).
Arrives(e, k, opens) ==
    /\ stopped[e] = "no"
    /\ k \in Deliverable(e)
    /\ Opens(sess[e], log[Peer(e)][k]) = opens
    /\ taken' = IF Ordered THEN [taken EXCEPT ![e] = k] ELSE taken

ReceiveData(e, k) ==
    LET f == log[Peer(e)][k] IN
    /\ Arrives(e, k, TRUE)
    /\ f.body.kind = "data"
    /\ sess' = [sess EXCEPT ![e] = AfterOpening(@)]
    /\ rcvd' = [rcvd EXCEPT ![e] = Append(@, f.body.value)]
    /\ UNCHANGED <<log, stopped, nextEph>>

\* The keys are rotated first: the ack leaves under the new keys.
RotateThenAck(e, k) ==
    LET f == log[Peer(e)][k]
        s == RotateKeys(AfterOpening(sess[e]),
                        DiffieHellman(nextEph, f.body.value)) IN
    /\ Arrives(e, k, TRUE)
    /\ f.body.kind = "rekey-req"
    /\ nextEph' = nextEph + 1
    /\ Seal(e, s, RekeyAck(nextEph))
    /\ sess' = [sess EXCEPT ![e] = AfterSealing(s)]
    /\ UNCHANGED <<rcvd, stopped>>

\* The request is opened and not acted on.
IgnoreRekeyReq(e, k) ==
    /\ Arrives(e, k, TRUE)
    /\ log[Peer(e)][k].body.kind = "rekey-req"
    /\ sess' = [sess EXCEPT ![e] = AfterOpening(@)]
    /\ UNCHANGED <<log, rcvd, stopped, nextEph>>

\* process_rekey_req: the ack is sealed under the old keys, then they rotate.
ReceiveRekeyReq(e, k) ==
    LET f == log[Peer(e)][k]
        s == AfterOpening(sess[e]) IN
    /\ Arrives(e, k, TRUE)
    /\ f.body.kind = "rekey-req"
    /\ nextEph' = nextEph + 1
    /\ Seal(e, s, RekeyAck(nextEph))
    /\ sess' = [sess EXCEPT ![e] =
                  RotateKeys(AfterSealing(s), DiffieHellman(nextEph, f.body.value))]
    /\ UNCHANGED <<rcvd, stopped>>

\* process_rekey_ack: an error, with the frame consumed, unless one is pending.
ReceiveRekeyAck(e, k) ==
    LET f == log[Peer(e)][k]
        s == AfterOpening(sess[e]) IN
    /\ Arrives(e, k, TRUE)
    /\ f.body.kind = "rekey-ack"
    /\ sess' = [sess EXCEPT ![e] =
                  IF s.pending = NoRekey THEN s
                  ELSE [RotateKeys(s, DiffieHellman(s.pending, f.body.value))
                          EXCEPT !.pending = NoRekey]]
    /\ UNCHANGED <<log, rcvd, stopped, nextEph>>

ReceiveClose(e, k) ==
    /\ Arrives(e, k, TRUE)
    /\ log[Peer(e)][k].body.kind = "close"
    /\ sess' = [sess EXCEPT ![e] = AfterOpening(@)]
    /\ stopped' = [stopped EXCEPT ![e] = "closed"]
    /\ UNCHANGED <<log, rcvd, nextEph>>

\* Out of order or sealed under other keys: decrypt fails and the loop ends.
ReceiveFails(e, k) ==
    /\ Arrives(e, k, FALSE)
    /\ stopped' = [stopped EXCEPT ![e] = "failed"]
    /\ UNCHANGED <<sess, log, rcvd, nextEph>>

Receive(e) ==
    \E k \in Deliverable(e) :
        \/ ReceiveData(e, k) \/ ReceiveRekeyReq(e, k) \/ ReceiveRekeyAck(e, k)
        \/ ReceiveClose(e, k) \/ ReceiveFails(e, k)

Next ==
    \E e \in Role :
        \/ SendData(e) \/ RequestRekey(e) \/ SendClose(e) \/ SendFails(e)
        \/ Receive(e)

Spec == Init /\ [][Next]_vars

-----------------------------------------------------------------------------
Frame == [key: Key, seq: SeqNumber,
          body: [kind: {"data", "rekey-req", "rekey-ack", "close"}, value: Nat]]

TypeOK ==
    /\ sess \in [Role -> Session]
    /\ log \in [Role -> Seq(Frame)]
    /\ taken \in [Role -> Nat]
    /\ rcvd \in [Role -> Seq(Nat)]
    /\ stopped \in [Role -> {"no", "closed", "failed"}]
    /\ nextEph \in Nat

\* encrypt never uses a nonce twice under one key, in either direction and
\* across rotations: ChaCha20-Poly1305 is only safe if it does not.
NoNonceReuse ==
    \A d, e \in Role : \A j \in DOMAIN log[d], k \in DOMAIN log[e] :
        log[d][j].key = log[e][k].key /\ log[d][j].seq = log[e][k].seq
            => d = e /\ j = k

\* The ends are never more than one rotation apart, the one behind is the one
\* that waits for an ack, and ends of one generation hold each other's keys.
KeysAgree ==
    \A e \in Role :
        LET s == sess[e]  t == sess[Peer(e)] IN
        /\ s.generation = t.generation =>
              s.sendKey = t.recvKey /\ s.recvKey = t.sendKey
        /\ s.generation < t.generation =>
              s.generation + 1 = t.generation /\ s.pending # NoRekey

\* On an ordered carrier a frame fails to open only once its sender has
\* closed (a close sent while an ack is awaited meets a rotated peer).
NoDecryptFailure ==
    \A e \in Role : stopped[e] = "failed" => stopped[Peer(e)] = "closed"

\* Whatever the carrier does with the frames, the data each end is given are
\* the data its peer sent, in order, with no gap, repeat or substitution.
Channel == INSTANCE OrderedChannel WITH
    End <- Role,
    Value <- 1..(MaxData + 2 * MaxRekey),
    sent <- [e \in Role |-> [k \in DOMAIN SentBy(e) |-> SentBy(e)[k].body.value]],
    got <- [e \in Role |-> rcvd[Peer(e)]]

ChannelSpec == Channel!Spec
=============================================================================
