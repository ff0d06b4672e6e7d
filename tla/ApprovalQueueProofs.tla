------------------------ MODULE ApprovalQueueProofs ------------------------
(* Proofs that the approval queue keeps its capacity, never orphans a       *)
(* caller and answers each call in its own name only, for every set of      *)
(* calls, every assignment of ids (reused or not) and every capacity.       *)
EXTENDS ApprovalQueue, FiniteSetTheorems, TLAPS

\* A record in the map has a timer that has not finished, a record held by a
\* resolver is no longer in the map, and both belong to calls that have
\* started (so no call is inserted twice).
RecordsLive ==
    /\ \A p \in pending : /\ caller[p] # "idle"
                          /\ timer[p] \in {"sleeping", "running"}
    /\ \A t \in taken : t.record \notin pending /\ caller[t.record] # "idle"

\* What makes NoOrphanedCaller inductive.
CallerInv == TypeOK /\ RecordsLive /\ NoOrphanedCaller

-----------------------------------------------------------------------------
\* The variables of the queue keep their types: approval.rs, every operation.
THEOREM TypeCorrect == Spec => []TypeOK
<1> USE ConstantsAssumption DEF TypeOK, Result, CallerState,
        TimerState, Removal, RecordOf
<1>1. Init => TypeOK
  BY DEF Init
<1>2. TypeOK /\ [Next]_vars => TypeOK'
  <2> SUFFICES ASSUME TypeOK, [Next]_vars PROVE TypeOK'
    OBVIOUS
  <2>1. ASSUME NEW p \in Push, PushFull(p) PROVE TypeOK'
    BY <2>1 DEF PushFull
  <2>2. ASSUME NEW p \in Push, PushInsert(p) PROVE TypeOK'
    BY <2>2 DEF PushInsert
  <2>3. ASSUME NEW p \in Push,
               PushNotify(p) \/ PushReturn(p) \/ CallerDrops(p)
        PROVE TypeOK'
    BY <2>3 DEF PushNotify, PushReturn, CallerDrops
  <2>4. ASSUME NEW p \in Push, TimerElapses(p) PROVE TypeOK'
    BY <2>4 DEF TimerElapses
  <2>5. ASSUME NEW p \in Push, TimerRemoves(p) PROVE TypeOK'
    <3>1. ASSUME NEW t \in taken' PROVE t \in taken \/ t \in Removal
      <4>1. CASE \E q \in RecordOf(idOf[p]) :
              t = [record |-> q, names |-> p, result |-> "timeout",
                   aborts |-> FALSE]
        BY <4>1
      <4> QED BY <2>5, <3>1, <4>1 DEF TimerRemoves
    <3>2. taken' \subseteq Removal
      BY <3>1
    <3> QED
      BY <2>5, <3>2 DEF TimerRemoves
  <2>6. ASSUME NEW i \in Id, NEW d \in Decision, Respond(i, d) PROVE TypeOK'
    <3>1. \A q \in RecordOf(i) : RemovalBy(q, d) \in Removal
      BY DEF RemovalBy
    <3>2. taken' \subseteq Removal
      BY <2>6, <3>1 DEF Respond
    <3> QED
      BY <2>6, <3>2 DEF Respond
  <2>7. CASE DrainDeny
    <3>1. \A q \in pending : RemovalBy(q, "drain") \in Removal
      BY DEF RemovalBy
    <3>2. taken' \subseteq Removal
      BY <2>7, <3>1 DEF DrainDeny
    <3> QED
      BY <2>7, <3>2 DEF DrainDeny
  <2>8. ASSUME NEW t \in taken, Deliver(t) PROVE TypeOK'
    BY <2>8 DEF Deliver
  <2>9. CASE UNCHANGED vars
    BY <2>9 DEF vars
  <2> QED
    BY <2>1, <2>2, <2>3, <2>4, <2>5, <2>6, <2>7, <2>8, <2>9 DEF Next
<1> QED
  BY <1>1, <1>2, PTL DEF Spec

-----------------------------------------------------------------------------
\* The map stays within max_pending and holds one record per id: the test in
\* push and the insertion are one critical section (approval.rs 99-134).
THEOREM CapacityKept == Spec => []PendingBounded
<1> DEFINE Inv == pending \subseteq Push /\ PendingBounded
<1> USE ConstantsAssumption
<1>1. Init => Inv
  BY FS_EmptySet DEF Init, PendingBounded
<1>2. Inv /\ [Next]_vars => Inv'
  <2> SUFFICES ASSUME Inv, [Next]_vars PROVE Inv'
    OBVIOUS
  <2>1. IsFiniteSet(pending) /\ Cardinality(pending) \in Nat
    BY FS_Subset, FS_CardinalityType
  <2>2. ASSUME pending' \subseteq pending PROVE Inv'
    <3>1. Cardinality(pending') <= Cardinality(pending)
          /\ Cardinality(pending') \in Nat
      BY <2>1, <2>2, FS_Subset, FS_CardinalityType
    <3> QED
      BY <2>1, <2>2, <3>1 DEF PendingBounded
  <2>3. ASSUME NEW p \in Push, PushInsert(p) PROVE Inv'
    <3> DEFINE rest == pending \ RecordOf(idOf[p])
    <3>1. IsFiniteSet(rest) /\ Cardinality(rest) <= Cardinality(pending)
          /\ Cardinality(rest) \in Nat
      BY <2>1, FS_Subset, FS_CardinalityType
    <3>2. Cardinality(rest \cup {p}) <= Cardinality(rest) + 1
          /\ Cardinality(rest \cup {p}) \in Nat
      <4>1. /\ IsFiniteSet(rest \cup {p})
            /\ Cardinality(rest \cup {p}) =
                 IF p \in rest THEN Cardinality(rest) ELSE Cardinality(rest) + 1
        BY <3>1, FS_AddElement
      <4> QED BY <3>1, <4>1
    <3>3. Cardinality(pending) < MaxPending
      BY <2>1, <2>3 DEF PushInsert, IsFull
    <3>4. pending' = rest \cup {p}
      BY <2>3 DEF PushInsert
    <3>5. Cardinality(pending') <= MaxPending
      BY <2>1, <3>1, <3>2, <3>3, <3>4
    <3>6. \A q, r \in pending' : idOf[q] = idOf[r] => q = r
      BY <3>4 DEF RecordOf, PendingBounded
    <3> QED
      BY <3>4, <3>5, <3>6 DEF PendingBounded
  <2>4. [Next]_vars => pending' \subseteq pending \/ \E p \in Push : PushInsert(p)
    BY DEF Next, vars, PushFull, PushNotify, PushReturn, CallerDrops,
           TimerElapses, TimerRemoves, Respond, DrainDeny, Deliver
  <2> QED
    BY <2>2, <2>3, <2>4
<1>3. Inv => PendingBounded
  OBVIOUS
<1> QED
  BY <1>1, <1>2, <1>3, PTL DEF Spec

-----------------------------------------------------------------------------
\* Every operation of the queue keeps CallerInv: approval.rs, one step each.
LEMMA CallerInvStep == CallerInv /\ [Next]_vars /\ TypeOK' => CallerInv'
<1> SUFFICES ASSUME CallerInv, [Next]_vars, TypeOK'
             PROVE RecordsLive' /\ NoOrphanedCaller'
  BY DEF CallerInv
<1> USE ConstantsAssumption
    DEF CallerInv, TypeOK, RecordsLive, NoOrphanedCaller, RecordOf
<1>1. ASSUME NEW p \in Push, PushFull(p)
      PROVE RecordsLive' /\ NoOrphanedCaller'
  BY <1>1 DEF PushFull
<1>2. ASSUME NEW p \in Push, PushInsert(p)
      PROVE RecordsLive' /\ NoOrphanedCaller'
  <2>1. p \notin pending /\ \A t \in taken : t.record # p
    BY <1>2 DEF PushInsert
  <2>2. RecordsLive'
    BY <1>2, <2>1 DEF PushInsert, Removal
  <2>3. NoOrphanedCaller'
    BY <1>2, <2>1 DEF PushInsert
  <2> QED BY <2>2, <2>3
<1>3. ASSUME NEW p \in Push, PushNotify(p) \/ PushReturn(p) \/ CallerDrops(p)
      PROVE RecordsLive' /\ NoOrphanedCaller'
  BY <1>3 DEF PushNotify, PushReturn, CallerDrops, Removal
<1>4. ASSUME NEW p \in Push, TimerElapses(p)
      PROVE RecordsLive' /\ NoOrphanedCaller'
  BY <1>4 DEF TimerElapses
<1>5. ASSUME NEW p \in Push, TimerRemoves(p)
      PROVE RecordsLive' /\ NoOrphanedCaller'
  <2>1. RecordsLive'
    BY <1>5 DEF TimerRemoves
  <2>2. ASSUME NEW q \in Push, q \in RecordOf(idOf[p])
        PROVE \E t \in taken' : t.record = q
    <3> DEFINE rem == [record |-> q, names |-> p, result |-> "timeout",
                       aborts |-> FALSE]
    <3>1. rem \in taken'
      BY <1>5, <2>2 DEF TimerRemoves
    <3> QED BY <3>1
  <2>3. NoOrphanedCaller'
    BY <1>5, <2>2 DEF TimerRemoves
  <2> QED BY <2>1, <2>3
<1>6. ASSUME NEW i \in Id, NEW d \in Decision, Respond(i, d)
      PROVE RecordsLive' /\ NoOrphanedCaller'
  <2>1. RecordsLive'
    BY <1>6 DEF Respond, RemovalBy
  <2>2. ASSUME NEW q \in Push, q \in RecordOf(i)
        PROVE \E t \in taken' : t.record = q
    <3>1. RemovalBy(q, d) \in taken'
      BY <1>6, <2>2 DEF Respond
    <3> QED BY <3>1 DEF RemovalBy
  <2>3. NoOrphanedCaller'
    BY <1>6, <2>2 DEF Respond
  <2> QED BY <2>1, <2>3
<1>7. CASE DrainDeny
  <2>1. RecordsLive'
    BY <1>7 DEF DrainDeny, RemovalBy
  <2>2. ASSUME NEW q \in pending PROVE \E t \in taken' : t.record = q
    <3>1. RemovalBy(q, "drain") \in taken'
      BY <1>7 DEF DrainDeny
    <3> QED BY <3>1 DEF RemovalBy
  <2>3. NoOrphanedCaller'
    BY <1>7, <2>2 DEF DrainDeny
  <2> QED BY <2>1, <2>3
<1>8. ASSUME NEW t \in taken, Deliver(t)
      PROVE RecordsLive' /\ NoOrphanedCaller'
  <2>1. t.record \in Push /\ t.result # "none" /\ t.record \notin pending
    BY DEF Removal, Result
  <2>2. RecordsLive'
    BY <1>8, <2>1 DEF Deliver
  <2>3. NoOrphanedCaller'
    BY <1>8, <2>1 DEF Deliver
  <2> QED BY <2>2, <2>3
<1>9. CASE UNCHANGED vars
  BY <1>9 DEF vars
<1> QED
  BY <1>1, <1>2, <1>3, <1>4, <1>5, <1>6, <1>7, <1>8, <1>9 DEF Next

\* No caller is left waiting on a channel nobody will write to: removals take
\* the responder out with the record, and an overwritten record closes its
\* channel (approval.rs 111-133, 149-165, 171-188).
THEOREM NoCallerOrphaned == Spec => []NoOrphanedCaller
<1>1. Init => CallerInv
  BY TypeCorrect DEF Init, CallerInv, TypeOK, RecordsLive, NoOrphanedCaller,
     Result, CallerState, TimerState
<1>2. CallerInv => NoOrphanedCaller
  BY DEF CallerInv
<1> QED
  BY <1>1, <1>2, TypeCorrect, CallerInvStep, PTL DEF Spec

-----------------------------------------------------------------------------
\* A record has one responder: it is in the map or held by one resolver until
\* its channel is written, a resolver speaks for a call of the same id, and a
\* timeout comes from a timer that is done.
AnswerInv ==
    /\ \A p \in Push : caller[p] = "idle" => timer[p] = "none" /\ answer[p] = "none"
    /\ \A p \in pending : answer[p] = "none"
    /\ \A t \in taken : /\ answer[t.record] = "none"
                        /\ idOf[t.record] = idOf[t.names]
                        /\ t.result = "timeout" => timer[t.names] = "done"
    /\ \A t, u \in taken : t.record = u.record => t = u
    /\ AnswersJustified

\* A removal of records that are in the map, each with one new removal that
\* holds it, keeps AnswerInv; so do the respond, drain_deny and timer paths.
LEMMA RemovalKeeps ==
    ASSUME TypeOK, RecordsLive, AnswerInv, NEW gone \in SUBSET pending,
           UNCHANGED <<caller, answer, notified>>, timer' \in [Push -> TimerState],
           pending' = pending \ gone,
           taken \subseteq taken',
           \A t \in taken' \ taken :
              /\ t \in Removal /\ t.record \in gone
              /\ idOf[t.record] = idOf[t.names]
              /\ t.result = "timeout" => timer'[t.names] = "done",
           \A t, u \in taken' \ taken : t.record = u.record => t = u,
           \A p \in Push : \/ timer'[p] = timer[p]
                           \/ timer'[p] = "done" /\ caller[p] # "idle"
    PROVE  AnswerInv'
<1>1. \A p \in Push : timer[p] = "done" => timer'[p] = "done"
  OBVIOUS
<1>2. \A t \in taken : t.record \in Push /\ t.names \in Push /\ t.record \notin gone
  BY DEF TypeOK, RecordsLive, Removal
<1>3. \A t \in taken' \ taken : t.record \in pending /\ t.names \in Push
  BY DEF Removal
<1>4. AnswersJustified'
  BY <1>1 DEF AnswerInv, AnswersJustified, TimeoutIsOwn, NotifiedOnce, HasOwnId
<1>5. \A t \in taken' : /\ answer'[t.record] = "none"
                        /\ idOf[t.record] = idOf[t.names]
                        /\ t.result = "timeout" => timer'[t.names] = "done"
  BY <1>1, <1>2, <1>3 DEF AnswerInv
<1>6. \A t, u \in taken' : t.record = u.record => t = u
  BY <1>2 DEF AnswerInv
<1>7. \A p \in Push : caller'[p] = "idle" => timer'[p] = "none" /\ answer'[p] = "none"
  BY DEF AnswerInv
<1> QED
  BY <1>4, <1>5, <1>6, <1>7 DEF AnswerInv

\* Every operation of the queue keeps AnswerInv: approval.rs, one step each.
LEMMA AnswerInvStep == CallerInv /\ AnswerInv /\ [Next]_vars /\ TypeOK' => AnswerInv'
<1> SUFFICES ASSUME CallerInv, AnswerInv, [Next]_vars, TypeOK'
             PROVE AnswerInv'
  OBVIOUS
<1>0. TypeOK /\ RecordsLive
  BY DEF CallerInv
<1>1. ASSUME NEW p \in Push,
             PushFull(p) \/ PushNotify(p) \/ PushReturn(p) \/ CallerDrops(p)
      PROVE AnswerInv'
  <2>1. /\ UNCHANGED <<pending, answer, timer, taken, notified>>
        /\ \A q \in Push : caller'[q] = "idle" => caller[q] = "idle"
    BY <1>0, <1>1 DEF PushFull, PushNotify, PushReturn, CallerDrops, TypeOK
  <2> QED
    BY <2>1 DEF AnswerInv, AnswersJustified, TimeoutIsOwn, NotifiedOnce, HasOwnId
<1>2. ASSUME NEW p \in Push, PushInsert(p)
      PROVE AnswerInv'
  <2>1. /\ caller[p] = "idle" /\ timer[p] = "none" /\ answer[p] = "none"
        /\ p \notin pending /\ UNCHANGED <<taken, notified>>
    BY <1>0, <1>2 DEF PushInsert, AnswerInv, RecordsLive
  <2>2. \A q \in Push : /\ q # p => caller'[q] = caller[q] /\ timer'[q] = timer[q]
                        /\ q \notin RecordOf(idOf[p]) => answer'[q] = answer[q]
    BY <1>0, <1>2 DEF PushInsert, TypeOK
  <2>3. /\ caller'[p] = "inserted" /\ timer'[p] = "sleeping" /\ answer'[p] = "none"
        /\ p \notin RecordOf(idOf[p])
    BY <1>0, <1>2, <2>1 DEF PushInsert, TypeOK, RecordOf
  <2>4. \A t \in taken : /\ t.record \in Push /\ t.names \in Push /\ t.record # p
                         /\ t.record \notin RecordOf(idOf[p])
    BY <1>0, <2>1 DEF TypeOK, RecordsLive, Removal, RecordOf
  <2>5. \A q \in pending' : q \notin RecordOf(idOf[p])
    BY <1>2, <2>3 DEF PushInsert
  <2>6. \A t \in taken' : /\ answer'[t.record] = "none"
                          /\ idOf[t.record] = idOf[t.names]
                          /\ t.result = "timeout" => timer'[t.names] = "done"
    BY <2>1, <2>2, <2>4 DEF AnswerInv
  <2>7. \A q \in pending' : answer'[q] = "none"
    BY <1>0, <1>2, <2>2, <2>3, <2>5 DEF PushInsert, AnswerInv, TypeOK
  <2>8. \A q \in Push : caller'[q] = "idle" => timer'[q] = "none" /\ answer'[q] = "none"
    <3>1. \A q \in RecordOf(idOf[p]) : caller[q] # "idle" /\ q \in Push
      BY <1>0 DEF RecordOf, RecordsLive, TypeOK
    <3> QED BY <2>2, <2>3, <3>1 DEF AnswerInv
  <2>9. AnswersJustified'
    <3>1. ASSUME NEW q \in Push, HasOwnId(q)
          PROVE q \notin RecordOf(idOf[p])
      BY <2>1, <3>1 DEF HasOwnId, RecordOf
    <3>2. TimeoutIsOwn'
      BY <2>2, <2>3, <3>1
         DEF AnswerInv, AnswersJustified, TimeoutIsOwn, HasOwnId
    <3>3. NotifiedOnce'
      BY <2>1, <2>2, <3>1
         DEF AnswerInv, AnswersJustified, NotifiedOnce, HasOwnId
    <3> QED BY <3>2, <3>3 DEF AnswersJustified
  <2>10. \A t, u \in taken' : t.record = u.record => t = u
    BY <2>1 DEF AnswerInv
  <2> QED BY <2>6, <2>7, <2>8, <2>9, <2>10 DEF AnswerInv
<1>3. ASSUME NEW p \in Push, TimerElapses(p)
      PROVE AnswerInv'
  <2>1. /\ UNCHANGED <<pending, caller, answer, taken, notified>>
        /\ timer[p] = "sleeping" /\ timer'[p] = "running"
        /\ \A q \in Push : q # p => timer'[q] = timer[q]
    BY <1>0, <1>3 DEF TimerElapses, TypeOK
  <2>2. \A t \in taken : t.names \in Push
    BY <1>0 DEF TypeOK, Removal
  <2> QED
    BY <2>1, <2>2 DEF AnswerInv, AnswersJustified, TimeoutIsOwn, NotifiedOnce, HasOwnId
<1>4. ASSUME NEW p \in Push, TimerRemoves(p)
      PROVE AnswerInv'
  <2> DEFINE gone == RecordOf(idOf[p])
             rem(q) == [record |-> q, names |-> p, result |-> "timeout", aborts |-> FALSE]
  <2>1. /\ UNCHANGED <<caller, answer, notified>> /\ pending' = pending \ gone
        /\ taken' = taken \cup {rem(q) : q \in gone}
        /\ timer[p] = "running" /\ timer' = [timer EXCEPT ![p] = "done"]
    BY <1>4 DEF TimerRemoves
  <2>2. gone \in SUBSET pending /\ \A q \in gone : idOf[q] = idOf[p] /\ q \in Push
    BY <1>0 DEF RecordOf, TypeOK
  <2>3. \A q \in gone : /\ rem(q) \in Removal /\ rem(q).record = q /\ rem(q).names = p
    BY <2>2 DEF Removal, Result
  <2>4. caller[p] # "idle"
    BY <2>1 DEF AnswerInv
  <2>5. timer' \in [Push -> TimerState] /\ timer'[p] = "done"
        /\ \A q \in Push : q # p => timer'[q] = timer[q]
    BY <1>0, <2>1 DEF TypeOK, TimerState
  <2>6. \A t \in taken' \ taken : \E q \in gone : t = rem(q)
    BY <2>1
  <2> HIDE DEF gone, rem
  <2>7. \A t \in taken' \ taken : /\ t \in Removal /\ t.record \in gone
                                  /\ idOf[t.record] = idOf[t.names]
                                  /\ timer'[t.names] = "done"
    BY <2>2, <2>3, <2>5, <2>6
  <2>8. \A t, u \in taken' \ taken : t.record = u.record => t = u
    BY <2>3, <2>6
  <2> QED BY <1>0, <2>1, <2>2, <2>4, <2>5, <2>7, <2>8, RemovalKeeps
<1>5. ASSUME NEW gone \in SUBSET pending, NEW d \in Result \ {"timeout"},
             UNCHANGED <<caller, answer, timer, notified>>, pending' = pending \ gone,
             taken' = taken \cup {RemovalBy(q, d) : q \in gone}
      PROVE AnswerInv'
  <2>1. \A q \in gone : /\ RemovalBy(q, d) \in Removal
                        /\ RemovalBy(q, d).record = q /\ RemovalBy(q, d).names = q
                        /\ RemovalBy(q, d).result # "timeout"
    BY <1>0 DEF RemovalBy, Removal, TypeOK
  <2>2. \A t \in taken' \ taken : \E q \in gone : t = RemovalBy(q, d)
    BY <1>5
  <2>3. \A t \in taken' \ taken : /\ t \in Removal /\ t.record \in gone
                                  /\ idOf[t.record] = idOf[t.names]
                                  /\ t.result # "timeout"
    BY <2>1, <2>2
  <2>4. \A t, u \in taken' \ taken : t.record = u.record => t = u
    BY <2>1, <2>2
  <2>5. timer' \in [Push -> TimerState]
    BY <1>0, <1>5 DEF TypeOK
  <2> QED BY <1>0, <1>5, <2>3, <2>4, <2>5, RemovalKeeps
<1>6. ASSUME NEW i \in Id, NEW d \in Decision, Respond(i, d)
      PROVE AnswerInv'
  <2>1. d \in Result \ {"timeout"} /\ RecordOf(i) \in SUBSET pending
    BY ConstantsAssumption DEF Result, RecordOf
  <2> QED BY <1>5, <1>6, <2>1 DEF Respond
<1>7. CASE DrainDeny
  <2>1. "drain" \in Result \ {"timeout"} /\ pending' = pending \ pending
    BY <1>7 DEF Result, DrainDeny
  <2> QED BY <1>5, <1>7, <2>1 DEF DrainDeny
<1>8. ASSUME NEW t \in taken, Deliver(t)
      PROVE AnswerInv'
  <2>1. /\ t.record \in Push /\ t.names \in Push /\ t.result \in Result
        /\ t.record \notin pending /\ caller[t.record] # "idle"
        /\ answer[t.record] = "none" /\ idOf[t.record] = idOf[t.names]
        /\ t.result = "timeout" => timer[t.names] = "done"
    BY <1>0 DEF TypeOK, Removal, RecordsLive, AnswerInv
  <2>2. /\ UNCHANGED <<pending, caller>> /\ taken' = taken \ {t}
        /\ answer'[t.record] = t.result
        /\ \A q \in Push : q # t.record => answer'[q] = answer[q]
        /\ notified'[t.names] = notified[t.names] + 1
        /\ \A q \in Push : q # t.names => notified'[q] = notified[q]
    BY <1>0, <1>8, <2>1 DEF Deliver, TypeOK
  <2>3. \A q \in Push : \/ timer'[q] = timer[q]
                        \/ timer[q] = "sleeping" /\ caller[q] # "idle"
    BY <1>0, <1>8, <2>1 DEF Deliver, TypeOK
  <2>4. \A u \in taken' : /\ u \in taken /\ u.record # t.record
                          /\ u.record \in Push /\ u.names \in Push
    BY <1>0, <2>2 DEF AnswerInv, TypeOK, Removal
  <2>5. TimeoutIsOwn'
    <3>1. ASSUME NEW q \in Push, HasOwnId(q), answer'[q] = "timeout"
          PROVE timer[q] = "done"
      <4>1. CASE q = t.record
        BY <2>1, <2>2, <3>1, <4>1 DEF HasOwnId
      <4>2. CASE q # t.record
        BY <2>2, <3>1, <4>2 DEF AnswerInv, AnswersJustified, TimeoutIsOwn
      <4> QED BY <4>1, <4>2
    <3> QED BY <2>3, <3>1 DEF TimeoutIsOwn, HasOwnId
  <2>6. NotifiedOnce'
    <3>1. ASSUME NEW q \in Push, HasOwnId(q)
          PROVE notified'[q] = IF answer'[q] \in Result THEN 1 ELSE 0
      <4>1. notified[q] = IF answer[q] \in Result THEN 1 ELSE 0
        BY <3>1 DEF AnswerInv, AnswersJustified, NotifiedOnce
      <4>2. CASE q = t.record
        <5>1. t.names = q /\ answer[q] \notin Result
          BY <2>1, <3>1, <4>2, ConstantsAssumption DEF HasOwnId, Result
        <5> QED BY <2>1, <2>2, <4>1, <4>2, <5>1
      <4>3. CASE q # t.record
        <5>1. t.names # q
          BY <2>1, <3>1, <4>3 DEF HasOwnId
        <5> QED BY <2>2, <4>1, <4>3, <5>1
      <4> QED BY <4>2, <4>3
    <3> QED BY <3>1 DEF NotifiedOnce, HasOwnId
  <2>7. \A u \in taken' : /\ answer'[u.record] = "none"
                          /\ idOf[u.record] = idOf[u.names]
                          /\ u.result = "timeout" => timer'[u.names] = "done"
    BY <2>2, <2>3, <2>4 DEF AnswerInv
  <2>8. \A q \in pending' : answer'[q] = "none"
    BY <1>0, <2>1, <2>2 DEF AnswerInv, TypeOK
  <2>9. \A q \in Push : caller'[q] = "idle" => timer'[q] = "none" /\ answer'[q] = "none"
    BY <2>1, <2>2, <2>3 DEF AnswerInv
  <2>10. \A u, v \in taken' : u.record = v.record => u = v
    BY <2>4 DEF AnswerInv
  <2>11. AnswersJustified'
    BY <2>5, <2>6 DEF AnswersJustified
  <2> QED BY <2>7, <2>8, <2>9, <2>10, <2>11 DEF AnswerInv
<1>9. CASE UNCHANGED vars
  BY <1>9 DEF vars, AnswerInv, AnswersJustified, TimeoutIsOwn, NotifiedOnce, HasOwnId
<1> QED
  BY <1>1, <1>2, <1>3, <1>4, <1>6, <1>7, <1>8, <1>9 DEF Next

\* A call that shares its id with no other is answered with a timeout only
\* after its own timer ran out, and on_resolve has named it exactly once when
\* its answer is there (approval.rs 111-133, 149-165, 171-188).
THEOREM AnswersAlwaysJustified == Spec => []AnswersJustified
<1>1. Init => CallerInv
  BY TypeCorrect DEF Init, CallerInv, TypeOK, RecordsLive, NoOrphanedCaller,
     Result, CallerState, TimerState
<1>2. Init => AnswerInv
  BY ConstantsAssumption DEF Init, AnswerInv, AnswersJustified, TimeoutIsOwn,
     NotifiedOnce, Result
<1>3. AnswerInv => AnswersJustified
  BY DEF AnswerInv
<1> QED
  BY <1>1, <1>2, <1>3, TypeCorrect, CallerInvStep, AnswerInvStep, PTL DEF Spec
=============================================================================
