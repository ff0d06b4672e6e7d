------------------------ MODULE SecureSessionProofs ------------------------
(* Type correctness of the session and the uniqueness of nonces, for every  *)
(* carrier, every discipline of the ends and every bound.                   *)
EXTENDS SecureSession, TLAPS

\* The half of each derivation that an end seals with.
OwnHalf(e) == IF e = "initiator" THEN 1 ELSE 2

\* An end that seals under half h has sealed lg and is about to use sq under
\* sk: earlier keys have a shorter lineage, earlier frames under sk a smaller
\* number, and no two frames share key and number.
LogOK(h, sk, sq, lg) ==
    /\ sk.half = h
    /\ sq <= Len(lg)
    /\ \A k \in 1..Len(lg) :
          /\ lg[k].key.half = h
          /\ Len(lg[k].key.lineage) <= Len(sk.lineage)
          /\ lg[k].key = sk => lg[k].seq < sq
    /\ \A j, k \in 1..Len(lg) :
          lg[j].key = lg[k].key /\ lg[j].seq = lg[k].seq => j = k

\* No counter has wrapped yet.
FewFrames == \A e \in Role : Len(log[e]) < SeqModulus

\* What makes NoNonceReuse inductive.
NonceInv ==
    FewFrames =>
        \A e \in Role :
            LogOK(OwnHalf(e), sess[e].sendKey, sess[e].sendSeq, log[e])

-----------------------------------------------------------------------------
\* Counting modulo SeqModulus stays in range, and is plain counting until the
\* last number (encrypt's wrapping_add).
LEMMA NextSeqType ==
    ASSUME NEW n \in SeqNumber
    PROVE  /\ NextSeq(n) \in SeqNumber
           /\ n + 1 < SeqModulus => NextSeq(n) = n + 1
  BY SeqModulusAssumption DEF NextSeq, SeqNumber

\* Sealing and opening keep a session a session.
LEMMA StepTypes ==
    ASSUME NEW s \in Session
    PROVE  /\ AfterSealing(s) \in Session
           /\ AfterOpening(s) \in Session
           /\ AfterSealing(s).sendKey = s.sendKey
           /\ AfterSealing(s).sendSeq = NextSeq(s.sendSeq)
           /\ AfterOpening(s).sendKey = s.sendKey
           /\ AfterOpening(s).sendSeq = s.sendSeq
<1>1. s.sendSeq \in SeqNumber /\ s.recvSeq \in SeqNumber
  BY DEF Session
<1>2. NextSeq(s.sendSeq) \in SeqNumber /\ NextSeq(s.recvSeq) \in SeqNumber
  BY <1>1, NextSeqType
<1> QED
  BY <1>2 DEF AfterSealing, AfterOpening, Session

\* Rotating keeps a session a session, and the new send key is of the same
\* half with a lineage longer by one (rotate_keys).
LEMMA RotateType ==
    ASSUME NEW s \in Session, NEW secret \in SUBSET Nat
    PROVE  /\ RotateKeys(s, secret) \in Session
           /\ RotateKeys(s, secret).sendKey.half = s.sendKey.half
           /\ Len(RotateKeys(s, secret).sendKey.lineage)
                = Len(s.sendKey.lineage) + 1
           /\ RotateKeys(s, secret).sendSeq = 0
           /\ RotateKeys(s, secret).pending = s.pending
<1> DEFINE lineage == Append(s.sendKey.lineage, secret)
<1>1. /\ lineage \in Seq(SUBSET Nat)
      /\ Len(lineage) = Len(s.sendKey.lineage) + 1
      /\ s.sendKey.half \in Half
      /\ OtherHalf(s.sendKey.half) \in Half
  BY DEF Session, Key, Half, OtherHalf
<1>2. /\ KeyOf(lineage, s.sendKey.half) \in Key
      /\ KeyOf(lineage, OtherHalf(s.sendKey.half)) \in Key
      /\ KeyOf(lineage, s.sendKey.half).half = s.sendKey.half
      /\ KeyOf(lineage, s.sendKey.half).lineage = lineage
  BY <1>1 DEF KeyOf, Key
<1>3. 0 \in SeqNumber
  BY SeqModulusAssumption DEF SeqNumber
<1>4. RotateKeys(s, secret) =
        [generation |-> s.generation + 1,
         sendKey |-> KeyOf(lineage, s.sendKey.half),
         recvKey |-> KeyOf(lineage, OtherHalf(s.sendKey.half)),
         sendSeq |-> 0, recvSeq |-> 0, pending |-> s.pending]
  BY DEF RotateKeys
<1>5. s.generation + 1 \in Nat /\ s.pending \in Nat
  BY DEF Session
<1> HIDE DEF lineage
<1>6. RotateKeys(s, secret) \in Session
  BY <1>2, <1>3, <1>4, <1>5 DEF Session
<1> QED
  BY <1>1, <1>2, <1>4, <1>6

\* Sealing one more frame keeps LogOK while no counter wraps (encrypt).
LEMMA SealKeeps ==
    ASSUME NEW h \in Half, NEW sk \in Key, NEW sq \in SeqNumber,
           NEW lg \in Seq(Frame), NEW f \in Frame,
           f.key = sk, f.seq = sq, Len(lg) + 1 < SeqModulus,
           LogOK(h, sk, sq, lg)
    PROVE  LogOK(h, sk, NextSeq(sq), Append(lg, f))
<1> DEFINE new == Append(lg, f)
<1>1. /\ Len(new) = Len(lg) + 1
      /\ \A k \in 1..Len(lg) : new[k] = lg[k]
      /\ new[Len(lg) + 1] = f
      /\ Len(lg) \in Nat
  OBVIOUS
<1>2. NextSeq(sq) = sq + 1 /\ sq \in Nat
  BY NextSeqType, SeqModulusAssumption DEF LogOK, SeqNumber
<1>3. \A k \in 1..Len(new) : new[k] \in Frame
  BY <1>1
<1>4. Len(sk.lineage) \in Nat
  BY DEF Key
<1> HIDE DEF new
<1>5. \A k \in 1..Len(new) :
        /\ new[k].key.half = h
        /\ Len(new[k].key.lineage) <= Len(sk.lineage)
        /\ new[k].key = sk => new[k].seq < sq + 1
  <2> TAKE k \in 1..Len(new)
  <2>1. CASE k = Len(lg) + 1
    BY <1>1, <1>2, <1>4, <2>1 DEF LogOK
  <2>2. CASE k \in 1..Len(lg)
    <3>1. new[k].seq \in Nat
      BY <1>3, SeqModulusAssumption DEF Frame, SeqNumber
    <3> QED BY <1>1, <1>2, <2>2, <3>1 DEF LogOK
  <2> QED BY <1>1, <2>1, <2>2
<1>6. \A j, k \in 1..Len(new) :
        new[j].key = new[k].key /\ new[j].seq = new[k].seq => j = k
  <2> SUFFICES ASSUME NEW j \in 1..Len(new), NEW k \in 1..Len(new),
                      new[j].key = new[k].key, new[j].seq = new[k].seq
               PROVE  j = k
    OBVIOUS
  <2>1. CASE j \in 1..Len(lg) /\ k \in 1..Len(lg)
    BY <1>1, <2>1 DEF LogOK
  <2>2. CASE j = Len(lg) + 1 /\ k \in 1..Len(lg)
    BY <1>1, <1>2, <2>2 DEF LogOK
  <2>3. CASE k = Len(lg) + 1 /\ j \in 1..Len(lg)
    BY <1>1, <1>2, <2>3 DEF LogOK
  <2> QED BY <1>1, <2>1, <2>2, <2>3
<1> QED
  BY <1>1, <1>2, <1>5, <1>6 DEF LogOK, new

\* Moving to a longer key keeps LogOK (rotate_keys resets send_seq).
LEMMA RotateKeeps ==
    ASSUME NEW h \in Half, NEW sk \in Key, NEW sq \in SeqNumber,
           NEW lg \in Seq(Frame), NEW k2 \in Key,
           k2.half = h, Len(k2.lineage) = Len(sk.lineage) + 1,
           LogOK(h, sk, sq, lg)
    PROVE  LogOK(h, k2, 0, lg)
<1>1. Len(sk.lineage) \in Nat /\ Len(lg) \in Nat
  BY DEF Key
<1>2. \A k \in 1..Len(lg) : Len(lg[k].key.lineage) \in Nat
  BY DEF Frame, Key
<1>3. ASSUME NEW k \in 1..Len(lg)
      PROVE  /\ lg[k].key.half = h
             /\ Len(lg[k].key.lineage) <= Len(k2.lineage)
             /\ lg[k].key # k2
  BY <1>1, <1>2, <1>3 DEF LogOK
<1> QED
  BY <1>1, <1>3 DEF LogOK

-----------------------------------------------------------------------------
\* A fresh session is a session, and seals with its own half from 0.
LEMMA DeriveType ==
    ASSUME NEW e \in Role
    PROVE  /\ Derive(e, HandshakeSecret) \in Session
           /\ Derive(e, HandshakeSecret).sendKey.half = OwnHalf(e)
           /\ Derive(e, HandshakeSecret).sendSeq = 0
<1>1. <<HandshakeSecret>> \in Seq(SUBSET Nat)
  BY DEF HandshakeSecret
<1>2. \A h \in Half : /\ KeyOf(<<HandshakeSecret>>, h) \in Key
                      /\ KeyOf(<<HandshakeSecret>>, h).half = h
  BY <1>1 DEF KeyOf, Key
<1>3. 0 \in SeqNumber /\ OwnHalf(e) \in Half /\ OtherHalf(OwnHalf(e)) \in Half
  BY SeqModulusAssumption DEF SeqNumber, OwnHalf, OtherHalf, Half
<1>4. Derive(e, HandshakeSecret) =
        [generation |-> 0,
         sendKey |-> KeyOf(<<HandshakeSecret>>, OwnHalf(e)),
         recvKey |-> KeyOf(<<HandshakeSecret>>, OtherHalf(OwnHalf(e))),
         sendSeq |-> 0, recvSeq |-> 0, pending |-> 0]
  BY DEF Derive, OwnHalf, NoRekey
<1> QED
  BY <1>2, <1>3, <1>4 DEF Session

\* A sealed frame is a frame.
LEMMA SealedType ==
    ASSUME NEW s \in Session,
           NEW kind \in {"data", "rekey-req", "rekey-ack", "close"},
           NEW v \in Nat
    PROVE  LET f == Sealed(s, [kind |-> kind, value |-> v])
           IN  f \in Frame /\ f.key = s.sendKey /\ f.seq = s.sendSeq
  BY DEF Sealed, Session, Frame

\* What one step does to the session and the log of one end: nothing to what
\* it seals with, one more frame, a rotation, or one more frame and then a
\* rotation.  Every action of SecureSession is of one of these forms for each
\* end, and that is all the uniqueness of nonces depends on.
SealForm(s, t, lg, new) ==
    LET added(u, f) == /\ f \in Frame /\ f.key = s.sendKey /\ f.seq = s.sendSeq
                       /\ new = Append(lg, f)
                       /\ u \in Session /\ u.sendKey = s.sendKey
                       /\ u.sendSeq = NextSeq(s.sendSeq)
        rotated(u) == /\ t.sendKey.half = u.sendKey.half
                      /\ Len(t.sendKey.lineage) = Len(u.sendKey.lineage) + 1
                      /\ t.sendSeq = 0
    IN \/ new = lg /\ t.sendKey = s.sendKey /\ t.sendSeq = s.sendSeq
       \/ \E f \in Frame : added(t, f)
       \/ new = lg /\ rotated(s)
       \/ \E f \in Frame, u \in Session : added(u, f) /\ rotated(u)

\* An end whose step has one of the forms keeps LogOK.
LEMMA FormKeeps ==
    ASSUME NEW h \in Half, NEW s \in Session, NEW t \in Session,
           NEW lg \in Seq(Frame), NEW new \in Seq(Frame),
           SealForm(s, t, lg, new), Len(new) < SeqModulus,
           LogOK(h, s.sendKey, s.sendSeq, lg)
    PROVE  LogOK(h, t.sendKey, t.sendSeq, new)
<1>1. /\ s.sendKey \in Key /\ t.sendKey \in Key
      /\ s.sendSeq \in SeqNumber
      /\ s.sendKey.half = h
  BY DEF Session, LogOK
<1>2. CASE new = lg /\ t.sendKey = s.sendKey /\ t.sendSeq = s.sendSeq
  BY <1>2
<1>3. ASSUME NEW f \in Frame, f.key = s.sendKey, f.seq = s.sendSeq,
             new = Append(lg, f)
      PROVE  LogOK(h, s.sendKey, NextSeq(s.sendSeq), new)
  <2>1. Len(lg) + 1 < SeqModulus
    BY <1>3
  <2> QED BY <1>1, <1>3, <2>1, SealKeeps
<1>4. CASE \E f \in Frame :
             /\ f.key = s.sendKey /\ f.seq = s.sendSeq /\ new = Append(lg, f)
             /\ t.sendKey = s.sendKey /\ t.sendSeq = NextSeq(s.sendSeq)
  BY <1>3, <1>4
<1>5. CASE /\ new = lg /\ t.sendKey.half = s.sendKey.half
           /\ Len(t.sendKey.lineage) = Len(s.sendKey.lineage) + 1
           /\ t.sendSeq = 0
  BY <1>1, <1>5, RotateKeeps
<1>6. CASE \E f \in Frame, u \in Session :
             /\ f.key = s.sendKey /\ f.seq = s.sendSeq /\ new = Append(lg, f)
             /\ u.sendKey = s.sendKey /\ u.sendSeq = NextSeq(s.sendSeq)
             /\ t.sendKey.half = u.sendKey.half
             /\ Len(t.sendKey.lineage) = Len(u.sendKey.lineage) + 1
             /\ t.sendSeq = 0
  <2>1. LogOK(h, s.sendKey, NextSeq(s.sendSeq), new)
    BY <1>3, <1>6
  <2>2. /\ t.sendKey.half = h
        /\ Len(t.sendKey.lineage) = Len(s.sendKey.lineage) + 1
        /\ t.sendSeq = 0
    BY <1>1, <1>6
  <2>3. NextSeq(s.sendSeq) \in SeqNumber
    BY <1>1, NextSeqType
  <2>4. LogOK(h, t.sendKey, 0, new)
    BY <1>1, <2>1, <2>2, <2>3, RotateKeeps
  <2> QED BY <2>2, <2>4
<1> QED
  BY <1>2, <1>4, <1>5, <1>6 DEF SealForm

-----------------------------------------------------------------------------
\* One end seals a frame of its session and keeps or rotates its keys; the
\* rest of the state keeps its type (SendData, RequestRekey, SendClose,
\* ReceiveRekeyReq).
LEMMA SealingStep ==
    ASSUME TypeOK, NEW e \in Role,
           NEW s \in Session, NEW t \in Session, NEW v \in Nat,
           NEW kind \in {"data", "rekey-req", "rekey-ack", "close"},
           s.sendKey = sess[e].sendKey, s.sendSeq = sess[e].sendSeq,
           Seal(e, s, [kind |-> kind, value |-> v]),
           sess' = [sess EXCEPT ![e] = t],
           \/ t.sendKey = s.sendKey /\ t.sendSeq = NextSeq(s.sendSeq)
           \/ /\ t.sendKey.half = s.sendKey.half
              /\ Len(t.sendKey.lineage) = Len(s.sendKey.lineage) + 1
              /\ t.sendSeq = 0
    PROVE  /\ log' \in [Role -> Seq(Frame)]
           /\ sess' \in [Role -> Session]
           /\ \A d \in Role : SealForm(sess[d], sess'[d], log[d], log'[d])
<1> DEFINE f == Sealed(s, [kind |-> kind, value |-> v])
<1>1. f \in Frame /\ f.key = s.sendKey /\ f.seq = s.sendSeq
  BY SealedType
<1>2. log' = [log EXCEPT ![e] = Append(@, f)]
  BY DEF Seal
<1> HIDE DEF f
<1>3. /\ log' \in [Role -> Seq(Frame)]
      /\ log'[e] = Append(log[e], f)
      /\ \A d \in Role : d # e => log'[d] = log[d]
  BY <1>1, <1>2 DEF TypeOK
<1>4. /\ sess' \in [Role -> Session]
      /\ sess'[e] = t
      /\ \A d \in Role : d # e => sess'[d] = sess[d]
  BY DEF TypeOK
<1>5. \A d \in Role : d # e => SealForm(sess[d], sess'[d], log[d], log'[d])
  BY <1>3, <1>4 DEF SealForm
<1>6. AfterSealing(s) \in Session /\ AfterSealing(s).sendKey = s.sendKey
      /\ AfterSealing(s).sendSeq = NextSeq(s.sendSeq)
  BY StepTypes
<1>7. SealForm(sess[e], sess'[e], log[e], log'[e])
  <2>1. CASE t.sendKey = s.sendKey /\ t.sendSeq = NextSeq(s.sendSeq)
    BY <1>1, <1>3, <1>4, <2>1 DEF SealForm
  <2>2. CASE /\ t.sendKey.half = s.sendKey.half
             /\ Len(t.sendKey.lineage) = Len(s.sendKey.lineage) + 1
             /\ t.sendSeq = 0
    <3>1. \E g \in Frame, u \in Session :
             /\ g \in Frame /\ g.key = sess[e].sendKey /\ g.seq = sess[e].sendSeq
             /\ log'[e] = Append(log[e], g)
             /\ u \in Session /\ u.sendKey = sess[e].sendKey
             /\ u.sendSeq = NextSeq(sess[e].sendSeq)
             /\ sess'[e].sendKey.half = u.sendKey.half
             /\ Len(sess'[e].sendKey.lineage) = Len(u.sendKey.lineage) + 1
             /\ sess'[e].sendSeq = 0
      <4> WITNESS f \in Frame, AfterSealing(s) \in Session
      <4> QED BY <1>1, <1>3, <1>4, <1>6, <2>2
    <3> QED BY <3>1 DEF SealForm
  <2> QED BY <2>1, <2>2
<1> QED
  BY <1>3, <1>4, <1>5, <1>7

\* One end changes its session without sealing: it keeps its send key, or
\* rotates (ReceiveData, ReceiveRekeyAck, ReceiveClose).
LEMMA OpeningStep ==
    ASSUME TypeOK, NEW e \in Role, NEW t \in Session,
           log' = log, sess' = [sess EXCEPT ![e] = t],
           \/ t.sendKey = sess[e].sendKey /\ t.sendSeq = sess[e].sendSeq
           \/ /\ t.sendKey.half = sess[e].sendKey.half
              /\ Len(t.sendKey.lineage) = Len(sess[e].sendKey.lineage) + 1
              /\ t.sendSeq = 0
    PROVE  /\ sess' \in [Role -> Session]
           /\ \A d \in Role : SealForm(sess[d], sess'[d], log[d], log'[d])
<1>1. /\ sess' \in [Role -> Session]
      /\ sess'[e] = t
      /\ \A d \in Role : d # e => sess'[d] = sess[d]
  BY DEF TypeOK
<1>2. SealForm(sess[e], sess'[e], log[e], log'[e])
  BY <1>1 DEF SealForm
<1> QED
  BY <1>1, <1>2 DEF SealForm

\* Every step keeps the types and has one of the forms for each end.
LEMMA StepForm ==
    ASSUME TypeOK, [Next]_vars
    PROVE  /\ TypeOK'
           /\ \A d \in Role : SealForm(sess[d], sess'[d], log[d], log'[d])
<1> DEFINE Goal == /\ TypeOK'
                   /\ \A d \in Role :
                         SealForm(sess[d], sess'[d], log[d], log'[d])
<1>0. /\ \A e \in Role : sess[e] \in Session /\ Peer(e) \in Role
      /\ \A e \in Role : Len(log[e]) + 1 \in Nat
      /\ nextEph + 1 \in Nat
  BY DEF TypeOK, Peer, Role
<1>1. ASSUME NEW e \in Role, SendData(e) PROVE Goal
  <2>1. /\ Seal(e, sess[e], [kind |-> "data", value |-> Len(log[e]) + 1])
        /\ sess' = [sess EXCEPT ![e] = AfterSealing(sess[e])]
    BY <1>1 DEF SendData, Data
  <2>2. /\ AfterSealing(sess[e]) \in Session
        /\ AfterSealing(sess[e]).sendKey = sess[e].sendKey
        /\ AfterSealing(sess[e]).sendSeq = NextSeq(sess[e].sendSeq)
    BY <1>0, StepTypes
  <2>3. /\ log' \in [Role -> Seq(Frame)] /\ sess' \in [Role -> Session]
        /\ \A d \in Role : SealForm(sess[d], sess'[d], log[d], log'[d])
    BY <1>0, <2>1, <2>2, SealingStep
  <2> QED BY <1>1, <2>3 DEF SendData, TypeOK
<1>2. ASSUME NEW e \in Role, RequestRekey(e) PROVE Goal
  <2> DEFINE t == [AfterSealing(sess[e]) EXCEPT !.pending = nextEph]
  <2>1. /\ Seal(e, sess[e], [kind |-> "rekey-req", value |-> nextEph])
        /\ sess' = [sess EXCEPT ![e] = t]
    BY <1>2 DEF RequestRekey, RekeyReq
  <2>2. /\ AfterSealing(sess[e]) \in Session
        /\ AfterSealing(sess[e]).sendKey = sess[e].sendKey
        /\ AfterSealing(sess[e]).sendSeq = NextSeq(sess[e].sendSeq)
    BY <1>0, StepTypes
  <2>3. /\ t \in Session /\ t.sendKey = sess[e].sendKey
        /\ t.sendSeq = NextSeq(sess[e].sendSeq)
    BY <2>2 DEF TypeOK, Session
  <2> HIDE DEF t
  <2>4. /\ log' \in [Role -> Seq(Frame)] /\ sess' \in [Role -> Session]
        /\ \A d \in Role : SealForm(sess[d], sess'[d], log[d], log'[d])
    BY <1>0, <2>1, <2>3, SealingStep DEF TypeOK
  <2> QED BY <1>0, <1>2, <2>4 DEF RequestRekey, TypeOK
<1>3. ASSUME NEW e \in Role, SendClose(e) PROVE Goal
  <2>1. /\ Seal(e, sess[e], [kind |-> "close", value |-> 0])
        /\ sess' = [sess EXCEPT ![e] = AfterSealing(sess[e])]
    BY <1>3 DEF SendClose, CloseFrame
  <2>2. /\ AfterSealing(sess[e]) \in Session
        /\ AfterSealing(sess[e]).sendKey = sess[e].sendKey
        /\ AfterSealing(sess[e]).sendSeq = NextSeq(sess[e].sendSeq)
    BY <1>0, StepTypes
  <2>3. /\ log' \in [Role -> Seq(Frame)] /\ sess' \in [Role -> Session]
        /\ \A d \in Role : SealForm(sess[d], sess'[d], log[d], log'[d])
    BY <1>0, <2>1, <2>2, SealingStep
  <2> QED BY <1>3, <2>3 DEF SendClose, TypeOK
<1>4. ASSUME NEW e \in Role, SendFails(e) PROVE Goal
  BY <1>4 DEF SendFails, TypeOK, SealForm
<1>5. ASSUME NEW e \in Role, NEW k \in Deliverable(e)
      PROVE  /\ k \in 1..Len(log[Peer(e)]) /\ k \in Nat
             /\ log[Peer(e)][k] \in Frame
  <2>1. k \in 1..Len(log[Peer(e)])
    <3>1. CASE Ordered
      BY <1>0, <1>5, <3>1 DEF Deliverable, TypeOK
    <3>2. CASE ~Ordered
      BY <1>5, <3>2 DEF Deliverable
    <3> QED BY <3>1, <3>2
  <2> QED BY <1>0, <2>1 DEF TypeOK
<1>6. ASSUME NEW e \in Role, NEW k \in Deliverable(e), NEW b \in BOOLEAN,
             Arrives(e, k, b)
      PROVE  taken' \in [Role -> Nat]
  BY <1>5, <1>6 DEF Arrives, TypeOK
<1>7. ASSUME NEW e \in Role
      PROVE  /\ AfterOpening(sess[e]) \in Session
             /\ AfterOpening(sess[e]).sendKey = sess[e].sendKey
             /\ AfterOpening(sess[e]).sendSeq = sess[e].sendSeq
  BY <1>0, <1>7, StepTypes
<1>8. ASSUME NEW e \in Role, NEW k \in Deliverable(e), ReceiveData(e, k)
      PROVE  Goal
  <2>1. /\ taken' \in [Role -> Nat]
        /\ log[Peer(e)][k].body.value \in Nat
        /\ sess' = [sess EXCEPT ![e] = AfterOpening(sess[e])]
        /\ log' = log
    BY <1>5, <1>6, <1>8 DEF ReceiveData, Frame
  <2>2. /\ sess' \in [Role -> Session]
        /\ \A d \in Role : SealForm(sess[d], sess'[d], log[d], log'[d])
    BY <1>7, <2>1, OpeningStep
  <2> QED BY <1>8, <2>1, <2>2 DEF ReceiveData, TypeOK
<1>9. ASSUME NEW e \in Role, NEW k \in Deliverable(e), ReceiveRekeyReq(e, k)
      PROVE  Goal
  <2> DEFINE s == AfterOpening(sess[e])
             u == AfterSealing(s)
             secret == DiffieHellman(nextEph, log[Peer(e)][k].body.value)
             t == RotateKeys(u, secret)
  <2>1. /\ Seal(e, s, [kind |-> "rekey-ack", value |-> nextEph])
        /\ sess' = [sess EXCEPT ![e] = t]
    BY <1>9 DEF ReceiveRekeyReq, RekeyAck
  <2>2. secret \in SUBSET Nat
    BY <1>5 DEF DiffieHellman, TypeOK, Frame
  <2>3. u \in Session /\ u.sendKey = s.sendKey
    BY <1>7, StepTypes
  <2> HIDE DEF s, u, secret
  <2>4. /\ t \in Session /\ t.sendKey.half = u.sendKey.half
        /\ Len(t.sendKey.lineage) = Len(u.sendKey.lineage) + 1
        /\ t.sendSeq = 0
    BY <2>2, <2>3, RotateType
  <2> HIDE DEF t
  <2>5. /\ s \in Session /\ s.sendKey = sess[e].sendKey
        /\ s.sendSeq = sess[e].sendSeq
    BY <1>7 DEF s
  <2>6. /\ log' \in [Role -> Seq(Frame)] /\ sess' \in [Role -> Session]
        /\ \A d \in Role : SealForm(sess[d], sess'[d], log[d], log'[d])
    BY <2>1, <2>3, <2>4, <2>5, SealingStep DEF TypeOK
  <2> QED BY <1>0, <1>6, <1>9, <2>6 DEF ReceiveRekeyReq, TypeOK
<1>10. ASSUME NEW e \in Role, NEW k \in Deliverable(e), ReceiveRekeyAck(e, k)
       PROVE  Goal
  <2> DEFINE s == AfterOpening(sess[e])
             secret == DiffieHellman(s.pending, log[Peer(e)][k].body.value)
             r == RotateKeys(s, secret)
             t == IF s.pending = NoRekey THEN s
                  ELSE [r EXCEPT !.pending = NoRekey]
  <2>1. /\ log' = log /\ sess' = [sess EXCEPT ![e] = t]
    BY <1>10 DEF ReceiveRekeyAck
  <2>2. /\ s \in Session /\ s.sendKey = sess[e].sendKey
        /\ s.sendSeq = sess[e].sendSeq
    BY <1>7
  <2>3. secret \in SUBSET Nat
    BY <1>5, <2>2 DEF DiffieHellman, Frame, Session
  <2> HIDE DEF s, secret
  <2>4. /\ r \in Session /\ r.sendKey.half = s.sendKey.half
        /\ Len(r.sendKey.lineage) = Len(s.sendKey.lineage) + 1
        /\ r.sendSeq = 0
    BY <2>2, <2>3, RotateType
  <2> HIDE DEF r
  <2>5. /\ t \in Session
        /\ \/ t.sendKey = s.sendKey /\ t.sendSeq = s.sendSeq
           \/ /\ t.sendKey.half = s.sendKey.half
              /\ Len(t.sendKey.lineage) = Len(s.sendKey.lineage) + 1
              /\ t.sendSeq = 0
    BY <2>2, <2>4 DEF Session, NoRekey
  <2> HIDE DEF t
  <2>6. /\ sess' \in [Role -> Session]
        /\ \A d \in Role : SealForm(sess[d], sess'[d], log[d], log'[d])
    BY <2>1, <2>2, <2>5, OpeningStep
  <2> QED BY <1>6, <1>10, <2>6 DEF ReceiveRekeyAck, TypeOK
<1>11. ASSUME NEW e \in Role, NEW k \in Deliverable(e), ReceiveClose(e, k)
       PROVE  Goal
  <2>1. /\ log' = log /\ sess' = [sess EXCEPT ![e] = AfterOpening(sess[e])]
    BY <1>11 DEF ReceiveClose
  <2>2. /\ sess' \in [Role -> Session]
        /\ \A d \in Role : SealForm(sess[d], sess'[d], log[d], log'[d])
    BY <1>7, <2>1, OpeningStep
  <2> QED BY <1>6, <1>11, <2>2 DEF ReceiveClose, TypeOK
<1>12. ASSUME NEW e \in Role, NEW k \in Deliverable(e), ReceiveFails(e, k)
       PROVE  Goal
  <2>1. taken' \in [Role -> Nat]
    BY <1>6, <1>12 DEF ReceiveFails
  <2> QED BY <1>12, <2>1 DEF ReceiveFails, TypeOK, SealForm
<1>13. ASSUME UNCHANGED vars PROVE Goal
  BY <1>13 DEF vars, TypeOK, SealForm
<1> HIDE DEF Goal
<1>14. Goal
  BY <1>1, <1>2, <1>3, <1>4, <1>8, <1>9, <1>10, <1>11, <1>12, <1>13
     DEF Next, Receive
<1> QED
  BY <1>14 DEF Goal

-----------------------------------------------------------------------------
\* The session's state keeps its types, whatever the carrier delivers.
THEOREM TypeCorrect == Spec => []TypeOK
<1>1. Init => TypeOK
  BY DeriveType DEF Init, TypeOK
<1>2. TypeOK /\ [Next]_vars => TypeOK'
  BY StepForm
<1> QED
  BY <1>1, <1>2, PTL DEF Spec

\* Until one end has sealed as many frames as there are sequence numbers, no
\* key and nonce seal two frames: encrypt, request_rekey, process_rekey_req
\* and rotate_keys, over every carrier and with every behaviour of the ends.
THEOREM NonceUnique == Spec => [](FewFrames => NoNonceReuse)
<1>1. Init => NonceInv
  <2> SUFFICES ASSUME Init, NEW e \in Role
               PROVE  LogOK(OwnHalf(e), sess[e].sendKey, sess[e].sendSeq, log[e])
    BY DEF NonceInv
  <2>1. sess[e].sendKey.half = OwnHalf(e) /\ sess[e].sendSeq = 0
        /\ log[e] = <<>>
    BY DeriveType DEF Init
  <2> QED BY <2>1 DEF LogOK
<1>2. TypeOK /\ NonceInv /\ [Next]_vars => NonceInv'
  <2> SUFFICES ASSUME TypeOK, NonceInv, [Next]_vars, FewFrames',
                      NEW e \in Role
               PROVE  LogOK(OwnHalf(e), sess'[e].sendKey, sess'[e].sendSeq,
                            log'[e])
    BY DEF NonceInv
  <2>1. /\ TypeOK'
        /\ \A d \in Role : SealForm(sess[d], sess'[d], log[d], log'[d])
    BY StepForm
  <2>2. /\ \A d \in Role : /\ sess[d] \in Session /\ sess'[d] \in Session
                           /\ log[d] \in Seq(Frame) /\ log'[d] \in Seq(Frame)
    BY <2>1 DEF TypeOK
  <2>3. \A d \in Role : Len(log[d]) <= Len(log'[d])
    <3> TAKE d \in Role
    <3>1. log'[d] = log[d] \/ \E f \in Frame : log'[d] = Append(log[d], f)
      BY <2>1 DEF SealForm
    <3> QED BY <2>2, <3>1
  <2>4. FewFrames /\ Len(log'[e]) < SeqModulus
    BY <2>2, <2>3, SeqModulusAssumption DEF FewFrames
  <2>5. LogOK(OwnHalf(e), sess[e].sendKey, sess[e].sendSeq, log[e])
    BY <2>4 DEF NonceInv
  <2>6. OwnHalf(e) \in Half
    BY DEF OwnHalf, Half
  <2> QED
    BY <2>1, <2>2, <2>4, <2>5, <2>6, FormKeeps
<1>3. TypeOK /\ NonceInv => (FewFrames => NoNonceReuse)
  <2> SUFFICES ASSUME TypeOK, NonceInv, FewFrames,
                      NEW d \in Role, NEW e \in Role,
                      NEW j \in DOMAIN log[d], NEW k \in DOMAIN log[e],
                      log[d][j].key = log[e][k].key,
                      log[d][j].seq = log[e][k].seq
               PROVE  d = e /\ j = k
    BY DEF NoNonceReuse
  <2>1. j \in 1..Len(log[d]) /\ k \in 1..Len(log[e])
    BY DEF TypeOK
  <2>2. /\ LogOK(OwnHalf(d), sess[d].sendKey, sess[d].sendSeq, log[d])
        /\ LogOK(OwnHalf(e), sess[e].sendKey, sess[e].sendSeq, log[e])
    BY DEF NonceInv
  <2>3. OwnHalf(d) = OwnHalf(e)
    BY <2>1, <2>2 DEF LogOK
  <2>4. d = e
    BY <2>3 DEF OwnHalf, Role
  <2> QED
    BY <2>1, <2>2, <2>4 DEF LogOK
<1> QED
  BY <1>1, <1>2, <1>3, TypeCorrect, PTL DEF Spec
=============================================================================
