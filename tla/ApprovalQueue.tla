---------------------------- MODULE ApprovalQueue ----------------------------
(***************************************************************************)
(* The approval queue of crates/tf-types/src/approval.rs.                  *)
(*                                                                         *)
(* Every call of `push` is a member of Push and carries the request id     *)
(* idOf[p]; the HashMap of pending records is the set of the calls whose   *)
(* record is in it (at most one per id).  The mutex is held for the map    *)
(* operations only: callbacks and the oneshot send happen after it is      *)
(* released, so a record that a resolver has removed but not yet answered  *)
(* is in `taken`.  Tasks run on a multi-threaded runtime: any two steps    *)
(* may interleave.                                                         *)
(***************************************************************************)
EXTENDS Naturals, FiniteSets

CONSTANTS Push,        \* calls of ApprovalQueue::push
          Id,          \* request ids
          idOf,        \* the id each call carries
          MaxPending,  \* max_pending
          Decision     \* what approvers answer; the queue passes it on

ASSUME ConstantsAssumption ==
    /\ idOf \in [Push -> Id]
    /\ MaxPending \in Nat
    /\ IsFiniteSet(Push)
    /\ Decision \cap {"none", "closed", "timeout", "drain"} = {}

VARIABLES pending,     \* calls whose record is in the map
          caller,      \* where each call of push has got to
          answer,      \* what its oneshot channel holds
          timer,       \* the timer task spawned by each call
          taken,       \* records removed by a resolver, answer not yet sent
          notified     \* number of on_resolve callbacks that named each call

vars == <<pending, caller, answer, timer, taken, notified>>

Result == Decision \cup {"timeout", "drain"}
CallerState == {"idle", "inserted", "waiting", "returned", "full", "dropped"}
TimerState == {"none", "sleeping", "running", "aborted", "done"}

\* A removal in progress: whose responder it holds, the request its callback
\* will name, the result it will send, whether it aborts the record's timer.
Removal == [record: Push, names: Push, result: Result, aborts: BOOLEAN]

\* A call in the map with this id, if there is one.
RecordOf(i) == {q \in pending : idOf[q] = i}

Init ==
    /\ pending = {}
    /\ caller = [p \in Push |-> "idle"]
    /\ answer = [p \in Push |-> "none"]
    /\ timer = [p \in Push |-> "none"]
    /\ taken = {}
    /\ notified = [p \in Push |-> 0]

-----------------------------------------------------------------------------
(* push                                                                    *)

\* The early return with QueueFull.
IsFull == Cardinality(pending) >= MaxPending

PushFull(p) ==
    /\ caller[p] = "idle"
    /\ IsFull
    /\ caller' = [caller EXCEPT ![p] = "full"]
    /\ UNCHANGED <<pending, answer, timer, taken, notified>>

\* The records are a list: one already there under the id stays.
PushInsertAppends(p) ==
    /\ caller[p] = "idle"
    /\ ~IsFull
    /\ pending' = pending \cup {p}
    /\ timer' = [timer EXCEPT ![p] = "sleeping"]
    /\ caller' = [caller EXCEPT ![p] = "inserted"]
    /\ UNCHANGED <<answer, taken, notified>>

\* The critical section: spawn the timer, insert the record.  An insert under
\* an id already present drops the old record, and with it the old responder.
PushInsert(p) ==
    /\ caller[p] = "idle"
    /\ ~IsFull
    /\ pending' = (pending \ RecordOf(idOf[p])) \cup {p}
    /\ answer' = [q \in Push |->
                    IF q \in RecordOf(idOf[p]) THEN "closed" ELSE answer[q]]
    /\ timer' = [timer EXCEPT ![p] = "sleeping"]
    /\ caller' = [caller EXCEPT ![p] = "inserted"]
    /\ UNCHANGED <<taken, notified>>

\* on_push runs after the lock is released, before the await.
PushNotify(p) ==
    /\ caller[p] = "inserted"
    /\ caller' = [caller EXCEPT ![p] = "waiting"]
    /\ UNCHANGED <<pending, answer, timer, taken, notified>>

\* A closed channel does not wake the caller.
PushReturnUnlessClosed(p) ==
    /\ caller[p] = "waiting"
    /\ answer[p] \in Result
    /\ caller' = [caller EXCEPT ![p] = "returned"]
    /\ UNCHANGED <<pending, answer, timer, taken, notified>>

\* The await completes: an answer, or ChannelClosed if the sender is gone.
PushReturn(p) ==
    /\ caller[p] = "waiting"
    /\ answer[p] # "none"
    /\ caller' = [caller EXCEPT ![p] = "returned"]
    /\ UNCHANGED <<pending, answer, timer, taken, notified>>

\* The task awaiting push is cancelled: the receiver is dropped, the record
\* and its timer stay.
CallerDrops(p) ==
    /\ caller[p] = "waiting"
    /\ caller' = [caller EXCEPT ![p] = "dropped"]
    /\ UNCHANGED <<pending, answer, timer, taken, notified>>

-----------------------------------------------------------------------------
(* The timer task                                                          *)

TimerElapses(p) ==
    /\ timer[p] = "sleeping"
    /\ timer' = [timer EXCEPT ![p] = "running"]
    /\ UNCHANGED <<pending, caller, answer, taken, notified>>

\* It removes whatever record has its id, and will notify in its own name.
TimerRemoves(p) ==
    /\ timer[p] = "running"
    /\ timer' = [timer EXCEPT ![p] = "done"]
    /\ pending' = pending \ RecordOf(idOf[p])
    /\ taken' = taken \cup
         {[record |-> q, names |-> p, result |-> "timeout", aborts |-> FALSE] :
             q \in RecordOf(idOf[p])}
    /\ UNCHANGED <<caller, answer, notified>>

-----------------------------------------------------------------------------
(* respond and drain_deny                                                  *)

\* What a resolver that owns record q will do after releasing the lock.
RemovalBy(q, r) == [record |-> q, names |-> q, result |-> r, aborts |-> TRUE]

\* The record is removed, its responder forgotten.
RespondForgets(i, d) ==
    /\ RecordOf(i) # {}
    /\ pending' = pending \ RecordOf(i)
    /\ UNCHANGED <<caller, answer, timer, taken, notified>>

Respond(i, d) ==
    /\ RecordOf(i) # {}
    /\ pending' = pending \ RecordOf(i)
    /\ taken' = taken \cup {RemovalBy(q, d) : q \in RecordOf(i)}
    /\ UNCHANGED <<caller, answer, timer, notified>>

DrainDeny ==
    /\ pending # {}
    /\ pending' = {}
    /\ taken' = taken \cup {RemovalBy(q, "drain") : q \in pending}
    /\ UNCHANGED <<caller, answer, timer, notified>>

\* The answer is sent, on_resolve is not run.
DeliverSilently(t) ==
    /\ taken' = taken \ {t}
    /\ timer' = IF t.aborts /\ timer[t.record] = "sleeping"
                THEN [timer EXCEPT ![t.record] = "aborted"] ELSE timer
    /\ answer' = [answer EXCEPT ![t.record] = t.result]
    /\ UNCHANGED <<pending, caller, notified>>

\* After the lock: abort the timer (which stops it only while it sleeps),
\* run on_resolve, send on the oneshot channel.
Deliver(t) ==
    /\ taken' = taken \ {t}
    /\ timer' = IF t.aborts /\ timer[t.record] = "sleeping"
                THEN [timer EXCEPT ![t.record] = "aborted"] ELSE timer
    /\ notified' = [notified EXCEPT ![t.names] = @ + 1]
    /\ answer' = [answer EXCEPT ![t.record] = t.result]
    /\ UNCHANGED <<pending, caller>>

-----------------------------------------------------------------------------
Next ==
    \/ \E p \in Push :
          \/ PushFull(p) \/ PushInsert(p) \/ PushNotify(p) \/ PushReturn(p)
          \/ CallerDrops(p) \/ TimerElapses(p) \/ TimerRemoves(p)
    \/ \E i \in Id, d \in Decision : Respond(i, d)
    \/ DrainDeny
    \/ \E t \in taken : Deliver(t)

Spec == Init /\ [][Next]_vars

\* The runtime polls every runnable task and sleep() completes; approvers and
\* cancellation are not obliged to act.
Fairness ==
    /\ \A p \in Push : /\ WF_vars(PushNotify(p))
                       /\ WF_vars(PushReturn(p))
                       /\ WF_vars(TimerElapses(p))
                       /\ WF_vars(TimerRemoves(p))
    /\ \A t \in Removal : WF_vars(t \in taken /\ Deliver(t))

FairSpec == Spec /\ Fairness

-----------------------------------------------------------------------------
TypeOK ==
    /\ pending \subseteq Push
    /\ caller \in [Push -> CallerState]
    /\ answer \in [Push -> Result \cup {"none", "closed"}]
    /\ timer \in [Push -> TimerState]
    /\ taken \subseteq Removal
    /\ notified \in [Push -> Nat]

\* The map never holds more than max_pending records, and one per id, however
\* pushes, timers and responders interleave.
PendingBounded ==
    /\ Cardinality(pending) <= MaxPending
    /\ \A p, q \in pending : idOf[p] = idOf[q] => p = q

\* A caller still waiting with an empty channel can still be answered: its
\* record is in the map with a timer that will fire, or a resolver holds it.
NoOrphanedCaller ==
    \A p \in Push :
        caller[p] \in {"inserted", "waiting"} /\ answer[p] = "none" =>
            \/ p \in pending /\ timer[p] \in {"sleeping", "running"}
            \/ \E t \in taken : t.record = p

\* No other call has this one's id: a second push under an id drops the first
\* record and inherits its timer.
HasOwnId(p) == \A q \in Push : idOf[q] = idOf[p] => q = p

\* push documents that it resolves with Deny "if the default timeout elapses
\* first": a call is answered with a timeout only by its own timer, whatever
\* happens to other records.
TimeoutIsOwn ==
    \A p \in Push : HasOwnId(p) /\ answer[p] = "timeout" => timer[p] = "done"

\* on_resolve runs exactly once, before the answer is sent, for every call
\* that gets a result, and never for one that has none.
NotifiedOnce ==
    \A p \in Push : HasOwnId(p) =>
        notified[p] = IF answer[p] \in Result THEN 1 ELSE 0

\* Every accepted push returns, or its caller went away (the default-deny
\* timeout guarantees an answer even if nobody responds).
EveryPushAnswered ==
    \A p \in Push :
        caller[p] = "inserted" ~> caller[p] \in {"returned", "dropped"}

\* A call's answer is its own: "timeout" only from its own timer, and announced
\* by on_resolve exactly once, before it is sent, whatever timers, responders
\* and drain do to other records at the same time.
AnswersJustified == TimeoutIsOwn /\ NotifiedOnce
=============================================================================
