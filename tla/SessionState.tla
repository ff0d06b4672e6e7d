---------------------------- MODULE SessionState ----------------------------
(***************************************************************************)
(* SessionState of crates/tf-types/src/session.rs: the keys and counters   *)
(* of one end of an established session, and what sealing a frame, opening *)
(* a frame and rotating the keys do to them.                               *)
(*                                                                         *)
(* Cryptography is symbolic.  A Diffie-Hellman secret is the set of the    *)
(* two ephemerals it was made from; a key is the list of secrets it was    *)
(* derived from and which half of the HKDF output it is; a sealed frame    *)
(* opens under exactly the key and the sequence number that sealed it.     *)
(* `closed` is never set by this file and is left out.                     *)
(***************************************************************************)
EXTENDS Naturals, Sequences

CONSTANT SeqModulus    \* 2^64 in the code

ASSUME SeqModulusAssumption == SeqModulus \in Nat \ {0}

Role == {"initiator", "responder"}
Peer(e) == IF e = "initiator" THEN "responder" ELSE "initiator"

NoRekey == 0           \* pending_rekey_priv = None; ephemerals are positive

DiffieHellman(own, peer) == {own, peer}

Half == {1, 2}
OtherHalf(h) == 3 - h

Key == [lineage: Seq(SUBSET Nat), half: Half]
SeqNumber == 0..(SeqModulus - 1)
Session == [generation: Nat, sendKey: Key, recvKey: Key,
            sendSeq: SeqNumber, recvSeq: SeqNumber, pending: Nat]

KeyOf(lineage, half) == [lineage |-> lineage, half |-> half]

\* The initiator seals with the first half, the responder with the second.
Derive(role, secret) ==
    LET own == IF role = "initiator" THEN 1 ELSE 2 IN
    [generation |-> 0,
     sendKey |-> KeyOf(<<secret>>, own),
     recvKey |-> KeyOf(<<secret>>, OtherHalf(own)),
     sendSeq |-> 0, recvSeq |-> 0,
     pending |-> NoRekey]

NextSeq(n) == (n + 1) % SeqModulus

Sealed(s, body) == [key |-> s.sendKey, seq |-> s.sendSeq, body |-> body]

AfterSealing(s) == [s EXCEPT !.sendSeq = NextSeq(@)]

\* The sequence number is not compared.
OpensAnySeq(s, f) == f.key = s.recvKey

Opens(s, f) == f.seq = s.recvSeq /\ f.key = s.recvKey

AfterOpening(s) == [s EXCEPT !.recvSeq = NextSeq(@)]

\* The counters start again under the old keys.
RotateKeepsKeys(s, secret) ==
    [s EXCEPT !.sendSeq = 0, !.recvSeq = 0, !.generation = @ + 1]

\* The new pair is derived from the secret, the old pair and the generation;
\* the end whose send key was the lower half sends with the lower half again.
RotateKeys(s, secret) ==
    LET lineage == Append(s.sendKey.lineage, secret) IN
    [generation |-> s.generation + 1,
     sendKey |-> KeyOf(lineage, s.sendKey.half),
     recvKey |-> KeyOf(lineage, OtherHalf(s.sendKey.half)),
     sendSeq |-> 0, recvSeq |-> 0,
     pending |-> s.pending]
=============================================================================
