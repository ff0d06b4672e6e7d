------------------------------ MODULE Enforcer ------------------------------
(***************************************************************************)
(* How the daemon decides about a call: enforcerFromGuard of               *)
(* tools/tf-daemon/src/index.ts puts together the agent guard, the         *)
(* approval queue (approval.ts) and the quorum collector (quorum.ts), the  *)
(* admin endpoint answers for approvers, and stop drains the queue.        *)
(*                                                                         *)
(* One event loop: the code between two awaits is one step, and a promise  *)
(* that has been resolved is continued in a later one.  The id of a check  *)
(* is made of a clock and a random number, which may repeat.  The guard    *)
(* (AccessControl) may decide anything.                                    *)
(***************************************************************************)
EXTENDS Naturals, Sequences, FiniteSets

CONSTANTS
  Checks,        \* calls of check
  Ids,           \* request ids
  Actor,         \* who may vote
  Self,          \* self_actor, as whom the admin endpoint votes
  Of,            \* quorum_default.of
  MinApprovers,  \* quorum_default.min_approvers
  MaxPending     \* approval_queue.max_pending

VARIABLES
  quorum,     \* is quorum_default configured?
  at,         \* where each check has got to
  guarded,    \* what the guard said of it
  id,         \* its request id
  promise,    \* what it awaits: "open", or the decision it is resolved with
  votes,      \* [approve, deny]: who voted which way in its ceremony
  handles,    \* the map _quorum: of each id, the check it leads to
  story,      \* the proof events about the check, in order
  shutdown    \* "no", "drained", "closed"

enforcerVars == <<quorum, at, guarded, id, promise, votes, handles, story, shutdown>>

\* Danger tags matter to a decision that asks for approval only.
Verdicts == [kind : {"allow", "log-only", "deny"}, dangerous : {FALSE}] \cup
            [kind : {"approval-required", "escalate"}, dangerous : BOOLEAN]
NoId == 0
NoCheck == 0
Answers == {"allowed", "denied"}

EligibleList == {Of[i] : i \in DOMAIN Of}
Pending == {c \in Checks : at[c] = "queued" /\ promise[c] = "open"}

Init ==
  /\ quorum \in BOOLEAN
  /\ at = [c \in Checks |-> "new"]
  /\ guarded = [c \in Checks |-> [kind |-> "none", dangerous |-> FALSE]]
  /\ id = [c \in Checks |-> NoId]
  /\ promise = [c \in Checks |-> "open"]
  /\ votes = [c \in Checks |-> [approve |-> {}, deny |-> {}]]
  /\ handles = [i \in Ids |-> NoCheck]
  /\ story = [c \in Checks |-> <<>>]
  /\ shutdown = "no"

\* dangerous: an admin action, or one with a tag of QUORUM_DANGER_TAGS.
shouldRequireQuorum(g) == g.kind \in {"approval-required", "escalate"} /\ g.dangerous

Moves(c, where) == at' = [at EXCEPT ![c] = where]
Tells(c, events) == story' = [story EXCEPT ![c] = @ \o events]

\* The guard decides alone.
Direct(c, g) ==
  /\ \/ g.kind \in {"allow", "log-only"} /\ Moves(c, "allowed")
     \/ g.kind = "deny" /\ Moves(c, "denied")
  /\ UNCHANGED <<handles, story, id>>

\* A ceremony is opened and its handle put where approvers find it.
OpenCeremony(c, g, i) ==
  /\ shouldRequireQuorum(g) /\ quorum
  /\ Moves(c, "voting")
  /\ id' = [id EXCEPT ![c] = i]
  /\ handles' = [handles EXCEPT ![i] = c]
  /\ Tells(c, <<"quorum">>)

\* push: refused if the queue is full or has the id, which check turns into a
\* denial.
Push(c, g, i) ==
  /\ g.kind \in {"approval-required", "escalate"}
  /\ ~(shouldRequireQuorum(g) /\ quorum)
  /\ id' = [id EXCEPT ![c] = i]
  /\ IF Cardinality(Pending) >= MaxPending \/ \E q \in Pending : id[q] = i
     THEN Moves(c, "denied") /\ Tells(c, <<"click">>)
     ELSE Moves(c, "queued") /\ Tells(c, <<"click", "request">>)
  /\ UNCHANGED handles

Check(c) ==
  /\ at[c] = "new" /\ shutdown # "closed"
  /\ \E g \in Verdicts, i \in Ids :
       /\ guarded' = [guarded EXCEPT ![c] = g]
       /\ Direct(c, g) \/ OpenCeremony(c, g, i) \/ Push(c, g, i)
  /\ UNCHANGED <<quorum, promise, votes, shutdown>>

\* record.resolve for several records: out of the map, on_resolve, promise.
Resolve(cs, decision) ==
  /\ promise' = [c \in Checks |-> IF c \in cs THEN decision ELSE promise[c]]
  /\ story' = [c \in Checks |-> IF c \in cs THEN Append(story[c], decision) ELSE story[c]]
  /\ UNCHANGED <<quorum, at, guarded, id, votes, handles>>

TimesOut(c) ==
  /\ c \in Pending
  /\ Resolve({c}, "deny") /\ UNCHANGED shutdown

-----------------------------------------------------------------------------
(* Votes and the admin endpoint                                            *)

Voted(v) == v.approve \cup v.deny

\* The promise keeps the first decision it is resolved with.
Outcome(v, before) ==
  IF before # "open" THEN before
  ELSE IF Cardinality(v.approve) >= MinApprovers THEN "approve"
  ELSE IF Cardinality(Voted(v)) >= Len(Of) THEN "deny"
  ELSE "open"

\* Anyone may vote.
RespondsAsAnyone(c, a, decision) ==
  /\ a \notin Voted(votes[c])
  /\ LET v == [votes[c] EXCEPT ![decision] = @ \cup {a}] IN
     /\ votes' = [votes EXCEPT ![c] = v]
     /\ promise' = [promise EXCEPT ![c] = Outcome(v, @)]
  /\ UNCHANGED <<quorum, at, guarded, id, handles, story, shutdown>>

\* Ineligible actors and second votes change nothing.
respondAs(c, a, decision) ==
  /\ a \in EligibleList /\ a \notin Voted(votes[c])
  /\ LET v == [votes[c] EXCEPT ![decision] = @ \cup {a}] IN
     /\ votes' = [votes EXCEPT ![c] = v]
     /\ promise' = [promise EXCEPT ![c] = Outcome(v, @)]
  /\ UNCHANGED <<quorum, at, guarded, id, handles, story, shutdown>>

\* An external approver finds the handle on the queue.
Vote(i, a, decision) == handles[i] # NoCheck /\ respondAs(handles[i], a, decision)

\* POST /admin/approvals/<id>/<decision>: the handle first, then the queue.
Admin(i, decision) ==
  /\ shutdown # "closed"
  /\ IF handles[i] # NoCheck
     THEN respondAs(handles[i], Self, decision)
     ELSE \E c \in Pending : id[c] = i /\ Resolve({c}, decision) /\ UNCHANGED shutdown

\* The await in check returns; a ceremony's id is deleted from the map,
\* whichever check it now leads to.
Continue(c) ==
  /\ at[c] \in {"queued", "voting"} /\ promise[c] # "open"
  /\ Moves(c, IF promise[c] = "approve" THEN "allowed" ELSE "denied")
  /\ handles' = IF at[c] = "voting" THEN [handles EXCEPT ![id[c]] = NoCheck] ELSE handles
  /\ UNCHANGED <<quorum, guarded, id, promise, votes, story, shutdown>>

\* stop: the queue is drained, and the listeners are closed after an await.
Drain == shutdown = "no" /\ Resolve(Pending, "deny") /\ shutdown' = "drained"
Close ==
  /\ shutdown = "drained" /\ shutdown' = "closed"
  /\ UNCHANGED <<quorum, at, guarded, id, promise, votes, handles, story>>

LoopStep == \E c \in Checks : TimesOut(c) \/ Continue(c)

Next ==
  \/ \E c \in Checks : Check(c)
  \/ LoopStep
  \/ \E i \in Ids, a \in Actor, decision \in {"approve", "deny"} : Vote(i, a, decision)
  \/ \E i \in Ids, decision \in {"approve", "deny"} : Admin(i, decision)
  \/ Drain \/ Close

-----------------------------------------------------------------------------
Asked(c) == guarded[c].kind \in {"approval-required", "escalate"}
Ceremonial(c) == quorum /\ shouldRequireQuorum(guarded[c])
Answered(c) == at[c] \in Answers
\* Somebody waits who has a timer, or whose ballot is decided.
Owed(c) ==
  \/ at[c] = "queued"
  \/ at[c] = "voting" /\ \/ Cardinality(votes[c].approve) >= MinApprovers
                         \/ Voted(votes[c]) = EligibleList
OwnId(c) == \A q \in Checks \ {c} : id[q] # id[c]

\* What a check is answered with is what it rests on: the guard's word, one
\* approver's answer to this request, or MinApprovers eligible actors; a
\* dangerous action is never let through by one approver when a quorum is
\* configured, not even when two ids meet; and the proof log tells it so.
AnswersRest ==
  \A c \in Checks : Answered(c) =>
    IF ~Asked(c) THEN
      (at[c] = "allowed") = (guarded[c].kind # "deny") /\ story[c] = <<>>
    ELSE IF Ceremonial(c) THEN
      /\ votes[c].approve \subseteq EligibleList /\ votes[c].approve \cap votes[c].deny = {}
      /\ (at[c] = "allowed") = (Cardinality(votes[c].approve) >= MinApprovers)
      /\ at[c] = "denied" => Voted(votes[c]) = EligibleList
      /\ story[c] = <<"quorum">>
    ELSE
      story[c] \in (IF at[c] = "allowed" THEN {<<"click", "request", "approve">>}
                    ELSE {<<"click">>, <<"click", "request", "deny">>})

\* A check that waits can be reached: its record is in the queue, within its
\* bound, or its handle is in the map, unless another check drew its id.
WaitersReachable ==
  /\ Cardinality(Pending) <= MaxPending
  /\ \A c, q \in Pending : id[c] = id[q] => c = q
  /\ \A c \in Checks : at[c] = "voting" /\ OwnId(c) => handles[id[c]] = c
  /\ \A i \in Ids : handles[i] # NoCheck => at[handles[i]] = "voting" /\ id[handles[i]] = i
=============================================================================
