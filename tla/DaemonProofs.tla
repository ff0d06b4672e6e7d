---------------------------- MODULE DaemonProofs ----------------------------
(* What the daemon keeps goes wrong by overlap only, and a revocation is    *)
(* answered only when it has reached the servers, for any number of         *)
(* requests, sessions, events and restarts.                                 *)
EXTENDS Daemon, TLAPS

\* The chain advances with the log; a call of enqueueSigned that is alone is
\* the only one and is bound to the chain as it still is.
ChainInv ==
    /\ prev # None => Len(log) > 0 /\ log[Len(log)].event = prev
    /\ \A e \in Event : event[e].at = "signing" =>
          /\ \/ event[e].parent = None
             \/ \E j \in 1..Len(log) : log[j].event = event[e].parent
          /\ event[e].alone => Signing = {e} /\ event[e].parent = prev
    /\ \A k \in 1..Len(log) : event[log[k].event].at = "logged"
    /\ ParentLogged
    /\ AloneLinksToPrevious

Written == {"reevaluating", "recording", "answered"}
InFile(r) == \E k \in 1..Len(file) : file[k].id = r

\* A POST that is alone is the only one that signs and has the file as it
\* still is, so that writing it loses nothing.
PostInv ==
    /\ \A r \in Request :
          /\ request[r].at = "new" => request[r].alone
          /\ request[r].at = "signing" =>
                /\ request[r].target \in Target
                /\ request[r].alone => Overlapping = {r} /\ request[r].seen = file
    /\ (\A q \in Request : request[q].alone) =>
          \A r \in Request : request[r].at \in Written => InFile(r)

\* The servers a revocation owes a re-evaluation stay in the set its loop
\* runs over; a POST that awaits its event is past the loop and awaits no other.
ReachInv ==
    /\ \A r \in Request : request[r].at = "reevaluating" => request[r].due \subseteq servers
    /\ \A e \in Event : event[e].at = "signing" /\ event[e].owner # None =>
          request[event[e].owner].at = "recording"
    /\ \A d, e \in Event :
          /\ event[d].at = "signing" /\ event[e].at = "signing"
          /\ event[d].owner = event[e].owner /\ event[e].owner # None
          => d = e
    /\ RevocationReaches

-----------------------------------------------------------------------------
\* What Bind does to the events (enqueueSigned up to its await): an unused one
\* is bound to the chain, the ones being signed are no longer alone.
LEMMA BindEffect ==
    ASSUME TypeOK, NEW owner \in Request \cup {None}, Bind(owner)
    PROVE  \E n \in Event :
              /\ event[n].at = "unused"
              /\ event' \in [Event -> EventRecord]
              /\ event'[n].at = "signing" /\ event'[n].parent = prev
              /\ event'[n].owner = owner
              /\ event'[n].alone => \A e \in Event : event[e].at # "signing"
              /\ \A e \in Event \ {n} :
                    /\ event'[e].at = event[e].at
                    /\ event'[e].parent = event[e].parent
                    /\ event'[e].owner = event[e].owner
                    /\ event[e].at = "signing" => ~event'[e].alone
                    /\ event[e].at # "signing" => event'[e] = event[e]
<1> DEFINE n == NextEvent
           new == [at |-> "signing", parent |-> prev,
                   owner |-> owner, alone |-> Signing = {}]
<1>1. n \in Event /\ event[n].at = "unused"
  BY DEF Bind, NextEvent
<1>2. \A e \in Event : event[e] \in EventRecord
  BY DEF TypeOK
<1>3. new \in EventRecord
  BY DEF TypeOK, EventRecord, EventAt
<1>4. event' = [e \in Event |-> CASE e = n -> new
                                  [] e \in Signing -> [event[e] EXCEPT !.alone = FALSE]
                                  [] OTHER -> event[e]]
  BY DEF Bind
<1> HIDE DEF n, new
<1>5. event'[n] = new
  <2>1. n \notin Signing
    BY <1>1 DEF Signing
  <2> QED BY <1>1, <1>4, <2>1, Zenon
<1>6. ASSUME NEW e \in Event \ {n}
      PROVE  /\ event'[e] \in EventRecord
             /\ event'[e].at = event[e].at
             /\ event'[e].parent = event[e].parent
             /\ event'[e].owner = event[e].owner
             /\ event[e].at = "signing" => ~event'[e].alone
             /\ event[e].at # "signing" => event'[e] = event[e]
  <2>1. CASE event[e].at = "signing"
    <3>1. event'[e] = [event[e] EXCEPT !.alone = FALSE]
      BY <1>4, <1>6, <2>1 DEF Signing
    <3> QED BY <1>2, <2>1, <3>1 DEF EventRecord
  <2>2. CASE event[e].at # "signing"
    <3>1. event'[e] = event[e]
      BY <1>4, <1>6, <2>2 DEF Signing
    <3> QED BY <1>2, <2>2, <3>1
  <2> QED BY <2>1, <2>2
<1>7. event' \in [Event -> EventRecord]
  BY <1>3, <1>4, <1>5, <1>6
<1>8. /\ new.at = "signing" /\ new.parent = prev /\ new.owner = owner
      /\ new.alone => \A e \in Event : event[e].at # "signing"
  BY DEF new, Signing
<1> QED
  BY <1>1, <1>5, <1>6, <1>7, <1>8

-----------------------------------------------------------------------------
\* Moving a record on keeps it one (the handlers assign single fields).
LEMMA RecordUpdates ==
    /\ \A x \in EventRecord, a \in EventAt :
          /\ [x EXCEPT !.at = a] \in EventRecord
          /\ [x EXCEPT !.at = a].at = a
          /\ [x EXCEPT !.at = a].parent = x.parent
          /\ [x EXCEPT !.at = a].owner = x.owner
          /\ [x EXCEPT !.at = a].alone = x.alone
    /\ \A x \in RequestRecord, a \in RequestAt :
          /\ [x EXCEPT !.at = a] \in RequestRecord
          /\ [x EXCEPT !.at = a].at = a
          /\ [x EXCEPT !.at = a].target = x.target
          /\ [x EXCEPT !.at = a].seen = x.seen
          /\ [x EXCEPT !.at = a].due = x.due
          /\ [x EXCEPT !.at = a].alone = x.alone
    /\ \A x \in RequestRecord :
          /\ [x EXCEPT !.alone = FALSE] \in RequestRecord
          /\ [x EXCEPT !.alone = FALSE].at = x.at
          /\ [x EXCEPT !.alone = FALSE].target = x.target
          /\ [x EXCEPT !.alone = FALSE].seen = x.seen
          /\ [x EXCEPT !.alone = FALSE].due = x.due
          /\ ~[x EXCEPT !.alone = FALSE].alone
  BY DEF EventRecord, RequestRecord, EventAt, RequestAt

\* Request q of the next state is request q, moved on to a.
Moved(q, a) ==
    /\ request'[q].at = a
    /\ request'[q].target = request[q].target
    /\ request'[q].seen = request[q].seen
    /\ request'[q].alone = request[q].alone

\* enqueueSigned after its await, for events and requests.
LEMMA SignedEffect ==
    ASSUME TypeOK, NEW e \in Event, Signed(e)
    PROVE  /\ event' \in [Event -> EventRecord] /\ request' \in [Request -> RequestRecord]
           /\ event'[e].at = "logged" /\ event'[e].parent = event[e].parent
           /\ event'[e].alone = event[e].alone
           /\ \A d \in Event \ {e} : event'[d] = event[d]
           /\ \A r \in Request :
                 IF event[e].owner = r
                 THEN Moved(r, "answered") /\ request'[r].due = request[r].due
                 ELSE request'[r] = request[r]
<1>1. /\ \A d \in Event : event[d] \in EventRecord
      /\ \A r \in Request : request[r] \in RequestRecord
      /\ "logged" \in EventAt /\ "answered" \in RequestAt
  BY DEF TypeOK, EventAt, RequestAt
<1>2. event' = [event EXCEPT ![e] = [event[e] EXCEPT !.at = "logged"]]
  BY DEF Signed, TypeOK
<1>3. /\ event'[e] = [event[e] EXCEPT !.at = "logged"]
      /\ \A d \in Event \ {e} : event'[d] = event[d]
      /\ event' \in [Event -> EventRecord]
  BY <1>1, <1>2, RecordUpdates DEF TypeOK
<1>4. ASSUME NEW r \in Request
      PROVE  /\ request'[r] \in RequestRecord
             /\ event[e].owner # r => request'[r] = request[r]
             /\ event[e].owner = r =>
                   Moved(r, "answered") /\ request'[r].due = request[r].due
  <2>1. CASE event[e].owner = r
    <3>1. request'[r] = [request[r] EXCEPT !.at = "answered"]
      BY <2>1 DEF Signed
    <3> QED BY <1>1, <2>1, <3>1, RecordUpdates DEF Moved
  <2>2. CASE event[e].owner # r
    <3>1. request'[r] = request[r]
      BY <2>2 DEF Signed
    <3> QED BY <1>1, <2>2, <3>1
  <2> QED BY <2>1, <2>2
<1>5. request' \in [Request -> RequestRecord]
  <2>1. request' = [r \in Request |-> request'[r]]
    BY DEF Signed
  <2> QED BY <1>4, <2>1
<1> QED
  BY <1>1, <1>3, <1>4, <1>5, RecordUpdates

\* Writing the file, and going on to record, move one request.
LEMMA WriteEffect ==
    ASSUME TypeOK, PostInv, NEW r \in Request, Write(r)
    PROVE  /\ request' \in [Request -> RequestRecord]
           /\ Moved(r, "reevaluating") /\ request'[r].due = servers
           /\ \A q \in Request \ {r} : request'[q] = request[q]
           /\ file' = Append(request[r].seen, [id |-> r, target |-> request[r].target])
           /\ [id |-> r, target |-> request[r].target] \in Revocation
           /\ request[r].seen \in Seq(Revocation)
           /\ file' \in Seq(Revocation)
<1>1. request[r] \in RequestRecord /\ servers \subseteq Session
  BY DEF TypeOK
<1>2. request' = [request EXCEPT ![r] =
                    [request[r] EXCEPT !.at = "reevaluating", !.due = servers]]
  BY DEF Write, TypeOK
<1>3. request'[r] = [request[r] EXCEPT !.at = "reevaluating", !.due = servers]
  BY <1>2 DEF TypeOK
<1>4. request'[r] \in RequestRecord /\ Moved(r, "reevaluating") /\ request'[r].due = servers
  BY <1>1, <1>3 DEF RequestRecord, RequestAt, Moved
<1>5. \A q \in Request \ {r} : request'[q] = request[q]
  BY <1>2 DEF TypeOK
<1>6. request' \in [Request -> RequestRecord]
  BY <1>2, <1>3, <1>4 DEF TypeOK
<1>7. [id |-> r, target |-> request[r].target] \in Revocation
  BY DEF Write, PostInv, Revocation
<1>8. request[r].seen \in Seq(Revocation)
  BY <1>1 DEF RequestRecord
<1>9. file' = Append(request[r].seen, [id |-> r, target |-> request[r].target])
  BY DEF Write, ListWith
<1> QED
  BY <1>4, <1>5, <1>6, <1>7, <1>8, <1>9

\* Emitting the proof event of a revocation changes only where its request
\* stands: the servers it reached stay recorded.
LEMMA RecordEffect ==
    ASSUME TypeOK, NEW r \in Request, Record(r)
    PROVE  /\ request' \in [Request -> RequestRecord]
           /\ Moved(r, "recording") /\ request'[r].due = request[r].due
           /\ \A q \in Request \ {r} : request'[q] = request[q]
<1>1. request[r] \in RequestRecord /\ "recording" \in RequestAt
  BY DEF TypeOK, RequestAt
<1>2. request' = [request EXCEPT ![r] = [request[r] EXCEPT !.at = "recording"]]
  BY DEF Record, TypeOK
<1>3. request'[r] = [request[r] EXCEPT !.at = "recording"]
  BY <1>2 DEF TypeOK
<1>4. request'[r] \in RequestRecord /\ Moved(r, "recording") /\ request'[r].due = request[r].due
  BY <1>1, <1>3, RecordUpdates DEF Moved
<1> QED
  BY <1>2, <1>3, <1>4 DEF TypeOK

\* The first half of a POST answers a repetition, or enters the signers, who
\* are then no longer alone.
LEMMA PostEffect ==
    ASSUME TypeOK, NEW r \in Request, NEW t \in Target, Post(r, t)
    PROVE  /\ request' \in [Request -> RequestRecord]
           /\ \/ /\ request'[r].at = "deduped"
                 /\ \A q \in Request \ {r} : request'[q] = request[q]
              \/ /\ request'[r].at = "signing" /\ request'[r].target = t
                 /\ request'[r].seen = file
                 /\ request'[r].alone => \A q \in Request : request[q].at # "signing"
                 /\ \A q \in Request \ {r} :
                       /\ request'[q].at = request[q].at
                       /\ request'[q].target = request[q].target
                       /\ request'[q].due = request[q].due
                       /\ request[q].at = "signing" => ~request'[q].alone
                       /\ request[q].at # "signing" => request'[q] = request[q]
<1>1. /\ \A q \in Request : request[q] \in RequestRecord
      /\ file \in Seq(Revocation)
  BY DEF TypeOK
<1>2. CASE t \in Revoked(file)
  <2> DEFINE new == [at |-> "deduped", target |-> t, seen |-> <<>>, due |-> {}, alone |-> TRUE]
  <2>1. new \in RequestRecord /\ new.at = "deduped"
    BY DEF RequestRecord, RequestAt
  <2>2. request' = [request EXCEPT ![r] = new]
    BY <1>2 DEF Post
  <2> HIDE DEF new
  <2> QED BY <1>1, <2>1, <2>2 DEF TypeOK
<1>3. CASE t \notin Revoked(file)
  <2> DEFINE new == [at |-> "signing", target |-> t, seen |-> file,
                     due |-> {}, alone |-> Overlapping = {}]
  <2>1. new \in RequestRecord
    BY <1>1 DEF RequestRecord, RequestAt
  <2>2. /\ new.at = "signing" /\ new.target = t /\ new.seen = file
        /\ new.alone => \A q \in Request : request[q].at # "signing"
    BY DEF Overlapping
  <2>3. request' = [q \in Request |->
                     CASE q = r -> new
                       [] q \in Overlapping -> [request[q] EXCEPT !.alone = FALSE]
                       [] OTHER -> request[q]]
    BY <1>3 DEF Post
  <2>4. r \notin Overlapping
    BY DEF Post, Overlapping
  <2> HIDE DEF new
  <2>5. request'[r] = new
    BY <2>3, <2>4, Zenon
  <2>6. ASSUME NEW q \in Request \ {r}
        PROVE  /\ request'[q] \in RequestRecord
               /\ request'[q].at = request[q].at
               /\ request'[q].target = request[q].target
               /\ request'[q].due = request[q].due
               /\ request[q].at = "signing" => ~request'[q].alone
               /\ request[q].at # "signing" => request'[q] = request[q]
    <3>1. CASE request[q].at = "signing"
      <4>1. request'[q] = [request[q] EXCEPT !.alone = FALSE]
        BY <2>3, <2>6, <3>1 DEF Overlapping
      <4> QED BY <1>1, <2>6, <3>1, <4>1, RecordUpdates
    <3>2. CASE request[q].at # "signing"
      <4>1. request'[q] = request[q]
        BY <2>3, <2>6, <3>2 DEF Overlapping
      <4> QED BY <1>1, <2>6, <3>2, <4>1
    <3> QED BY <3>1, <3>2
  <2>7. request' \in [Request -> RequestRecord]
    <3>1. request' = [q \in Request |-> request'[q]]
      BY <2>3
    <3> QED BY <2>1, <2>5, <2>6, <3>1
  <2> QED BY <2>2, <2>5, <2>6, <2>7
<1> QED
  BY <1>2, <1>3

\* A restart drops what was in flight.
LEMMA RestartEffect ==
    ASSUME TypeOK, Restart
    PROVE  /\ event' \in [Event -> EventRecord] /\ request' \in [Request -> RequestRecord]
           /\ \A e \in Event :
                 /\ event[e].at = "signing" => event'[e].at = "lost"
                 /\ event[e].at # "signing" => event'[e] = event[e]
           /\ \A r \in Request :
                 \/ request[r].at \in {"new", "deduped", "answered"} /\ request'[r] = request[r]
                 \/ Moved(r, "lost")
<1>1. /\ \A e \in Event : event[e] \in EventRecord
      /\ \A r \in Request : request[r] \in RequestRecord
      /\ "lost" \in EventAt /\ "lost" \in RequestAt
  BY DEF TypeOK, EventAt, RequestAt
<1>2. ASSUME NEW e \in Event
      PROVE  /\ event'[e] \in EventRecord
             /\ event[e].at = "signing" => event'[e].at = "lost"
             /\ event[e].at # "signing" => event'[e] = event[e]
  <2>1. CASE event[e].at = "signing"
    <3>1. event'[e] = [event[e] EXCEPT !.at = "lost"]
      BY <2>1 DEF Restart, Signing
    <3> QED BY <1>1, <2>1, <3>1, RecordUpdates
  <2>2. CASE event[e].at # "signing"
    <3>1. event'[e] = event[e]
      BY <2>2 DEF Restart, Signing
    <3> QED BY <1>1, <2>2, <3>1
  <2> QED BY <2>1, <2>2
<1>3. ASSUME NEW r \in Request
      PROVE  /\ request'[r] \in RequestRecord
             /\ \/ request[r].at \in {"new", "deduped", "answered"} /\ request'[r] = request[r]
                \/ Moved(r, "lost")
  <2>1. CASE request[r].at \in {"new", "deduped", "answered"}
    <3>1. request'[r] = request[r]
      BY <2>1 DEF Restart
    <3> QED BY <1>1, <2>1, <3>1
  <2>2. CASE request[r].at \notin {"new", "deduped", "answered"}
    <3>1. request'[r] = [request[r] EXCEPT !.at = "lost"]
      BY <2>2 DEF Restart
    <3> QED BY <1>1, <3>1, RecordUpdates DEF Moved
  <2> QED BY <2>1, <2>2
<1>4. /\ event' = [e \in Event |-> event'[e]]
      /\ request' = [r \in Request |-> request'[r]]
  BY DEF Restart
<1>5. event' \in [Event -> EventRecord]
  BY <1>2, <1>4
<1>6. request' \in [Request -> RequestRecord]
  BY <1>3, <1>4
<1> QED
  BY <1>2, <1>3, <1>5, <1>6

-----------------------------------------------------------------------------
\* Every step keeps the types.
LEMMA TypeStep ==
    ASSUME TypeOK, PostInv, [Next]_vars
    PROVE  TypeOK'
<1>1. CASE Emit
  <2>1. Bind(None) /\ None \in Request \cup {None}
    BY <1>1 DEF Emit
  <2>2. event' \in [Event -> EventRecord]
    BY <2>1, BindEffect
  <2> QED BY <1>1, <2>2 DEF Emit, TypeOK, posts, conns
<1>2. CASE Restart
  <2>1. event' \in [Event -> EventRecord] /\ request' \in [Request -> RequestRecord]
    BY <1>2, RestartEffect
  <2>2. session' \in [Session -> SessionRecord]
    BY <1>2 DEF Restart, TypeOK, NoSession, SessionRecord
  <2> QED BY <1>2, <2>1, <2>2 DEF Restart, TypeOK
<1>3. ASSUME NEW e \in Event, Signed(e)
      PROVE  TypeOK'
  <2>1. event' \in [Event -> EventRecord] /\ request' \in [Request -> RequestRecord]
    BY <1>3, SignedEffect
  <2>2. log' \in Seq([event: Event, parent: Event \cup {None}])
    BY <1>3 DEF Signed, Commit, TypeOK, EventRecord
  <2> QED BY <1>3, <2>1, <2>2 DEF Signed, Commit, TypeOK, conns
<1>4. ASSUME NEW r \in Request, Write(r)
      PROVE  TypeOK'
  <2>1. request' \in [Request -> RequestRecord] /\ file' \in Seq(Revocation)
    BY <1>4, WriteEffect
  <2> QED BY <1>4, <2>1 DEF Write, TypeOK, chain, conns
<1>5. ASSUME NEW r \in Request, Record(r)
      PROVE  TypeOK'
  <2>1. Bind(r) /\ r \in Request \cup {None}
    BY <1>5 DEF Record
  <2>2. event' \in [Event -> EventRecord]
    BY <2>1, BindEffect
  <2>3. request' \in [Request -> RequestRecord]
    BY <1>5, RecordEffect
  <2> QED BY <1>5, <2>2, <2>3 DEF Record, TypeOK, conns
<1>6. ASSUME NEW r \in Request, NEW t \in Target, Post(r, t)
      PROVE  TypeOK'
  <2>1. request' \in [Request -> RequestRecord]
    BY <1>6, PostEffect
  <2> QED BY <1>6, <2>1 DEF Post, TypeOK, chain, conns
<1>7. ASSUME NEW r \in Request, NEW s \in Session, Reevaluate(r, s)
      PROVE  TypeOK'
  BY <1>7 DEF Reevaluate, TypeOK, chain, conns
<1>8. ASSUME NEW s \in Session,
             Accept(s) \/ HandshakeHeard(s) \/ Attached(s) \/ AttachFails(s) \/ Close(s)
      PROVE  TypeOK'
  <2>1. session' \in [Session -> SessionRecord]
    <3>1. session \in [Session -> SessionRecord]
      BY DEF TypeOK
    <3>2. CASE Accept(s)
      BY <3>1, <3>2 DEF Accept, SessionRecord
    <3>3. CASE HandshakeHeard(s)
      BY <3>1, <3>3 DEF HandshakeHeard, SessionRecord
    <3>4. CASE Attached(s)
      BY <3>1, <3>4 DEF Attached, SessionRecord
    <3>5. CASE AttachFails(s)
      BY <3>1, <3>5 DEF AttachFails, SessionRecord
    <3>6. CASE Close(s)
      BY <3>1, <3>6 DEF Close, SessionRecord
    <3> QED BY <1>8, <3>2, <3>3, <3>4, <3>5, <3>6
  <2>2. servers' \subseteq Session /\ UNCHANGED <<chain, posts, quorumBound, restarts>>
    BY <1>8 DEF Accept, HandshakeHeard, Attached, AttachFails, Close, TypeOK
  <2> QED BY <2>1, <2>2 DEF TypeOK, chain, posts
<1>9. CASE UNCHANGED vars
  BY <1>9 DEF TypeOK, vars, chain, posts, conns
<1> QED
  BY <1>1, <1>2, <1>3, <1>4, <1>5, <1>6, <1>7, <1>8, <1>9 DEF Next

-----------------------------------------------------------------------------
\* The log's entries name events.
LEMMA LogEntries ==
    ASSUME TypeOK
    PROVE  \A k \in 1..Len(log) : log[k].event \in Event
<1> DEFINE Entry == [event: Event, parent: Event \cup {None}]
<1>1. log \in Seq(Entry)
  BY DEF TypeOK
<1>2. \A x \in Entry : x.event \in Event
  OBVIOUS
<1> HIDE DEF Entry
<1>3. \A k \in 1..Len(log) : log[k] \in Entry
  BY <1>1
<1> QED
  BY <1>2, <1>3

\* Binding an event keeps the chain's invariant: the log is as it was, and
\* nothing in it is touched.
LEMMA BindKeepsChain ==
    ASSUME TypeOK, ChainInv, NEW owner \in Request \cup {None}, Bind(owner),
           UNCHANGED <<prev, log>>
    PROVE  ChainInv'
<1>1. PICK n \in Event :
        /\ event[n].at = "unused"
        /\ event'[n].at = "signing" /\ event'[n].parent = prev
        /\ event'[n].alone => \A e \in Event : event[e].at # "signing"
        /\ \A e \in Event \ {n} :
              /\ event'[e].at = event[e].at
              /\ event'[e].parent = event[e].parent
              /\ event[e].at = "signing" => ~event'[e].alone
              /\ event[e].at # "signing" => event'[e] = event[e]
  BY BindEffect
<1>2. \A k \in 1..Len(log) : log[k].event \in Event
  BY LogEntries
<1>3. \A k \in 1..Len(log) : /\ log[k].event # n
                             /\ event'[log[k].event] = event[log[k].event]
  BY <1>1, <1>2 DEF ChainInv
<1>4. ASSUME NEW e \in Event, event'[e].at = "signing"
      PROVE  /\ \/ event'[e].parent = None
                \/ \E j \in 1..Len(log) : log[j].event = event'[e].parent
             /\ event'[e].alone => Signing' = {e} /\ event'[e].parent = prev
  <2>1. CASE e = n
    <3>1. prev = None \/ \E j \in 1..Len(log) : log[j].event = prev
      BY DEF ChainInv, TypeOK
    <3>2. event'[n].alone => Signing' = {n}
      BY <1>1 DEF Signing
    <3> QED BY <1>1, <2>1, <3>1, <3>2
  <2>2. CASE e # n
    BY <1>1, <1>4, <2>2 DEF ChainInv
  <2> QED BY <2>1, <2>2
<1>5. /\ prev' # None => Len(log') > 0 /\ log'[Len(log')].event = prev'
      /\ ParentLogged'
  BY DEF ChainInv, ParentLogged
<1>6. AloneLinksToPrevious'
  BY <1>3 DEF ChainInv, AloneLinksToPrevious, TypeOK
<1> QED
  BY <1>1, <1>3, <1>4, <1>5, <1>6 DEF ChainInv

\* Every step keeps the chain's invariant.
LEMMA ChainStep ==
    ASSUME TypeOK, ChainInv, [Next]_vars
    PROVE  ChainInv'
<1>1. CASE Emit
  BY <1>1, BindKeepsChain DEF Emit
<1>2. CASE Restart
  <2>1. /\ \A e \in Event : event'[e].at # "signing"
        /\ \A e \in Event : event[e].at # "signing" => event'[e] = event[e]
    BY <1>2, RestartEffect
  <2>2. \A k \in 1..Len(log) : log[k].event \in Event /\ event'[log[k].event] = event[log[k].event]
    BY <2>1, LogEntries DEF ChainInv
  <2>3. prev' = None /\ log' = log
    BY <1>2 DEF Restart
  <2>4. AloneLinksToPrevious'
    BY <2>2, <2>3 DEF ChainInv, AloneLinksToPrevious, TypeOK
  <2> QED BY <2>1, <2>2, <2>3, <2>4 DEF ChainInv, ParentLogged
<1>3. ASSUME NEW e \in Event, Signed(e)
      PROVE  ChainInv'
  <2> DEFINE entry == [event |-> e, parent |-> event[e].parent]
             n == Len(log) + 1
  <2>1. /\ event[e].at = "signing" /\ prev' = e /\ log' = Append(log, entry)
    BY <1>3 DEF Signed, Commit
  <2>2. /\ event'[e].at = "logged" /\ event'[e].parent = event[e].parent
        /\ event'[e].alone = event[e].alone
        /\ \A d \in Event \ {e} : event'[d] = event[d]
    BY <1>3, SignedEffect
  <2>3. log \in Seq([event: Event, parent: Event \cup {None}]) /\ entry.event = e
        /\ entry.parent = event[e].parent
    BY DEF TypeOK
  <2> HIDE DEF entry
  <2>4. /\ Len(log) \in Nat /\ Len(log') = n /\ log'[n] = entry
        /\ \A k \in 1..Len(log) : log'[k] = log[k]
        /\ DOMAIN log = 1..Len(log) /\ DOMAIN log' = 1..n
    BY <2>1, <2>3
  <2>5. \A k \in 1..Len(log) : /\ log[k].event \in Event /\ log[k].event # e
                               /\ event'[log[k].event] = event[log[k].event]
    BY <2>1, <2>2, LogEntries DEF ChainInv
  <2>6. prev' # None => Len(log') > 0 /\ log'[Len(log')].event = prev'
    BY <2>1, <2>3, <2>4
  <2>7. ASSUME NEW d \in Event, event'[d].at = "signing"
        PROVE  /\ \/ event'[d].parent = None
                  \/ \E j \in 1..Len(log') : log'[j].event = event'[d].parent
               /\ ~event'[d].alone
    <3>1. d # e /\ event'[d] = event[d]
      BY <2>2, <2>7
    <3>2. \/ event[d].parent = None
          \/ \E j \in 1..Len(log) : log[j].event = event[d].parent
      BY <2>7, <3>1 DEF ChainInv
    <3>3. ~event[d].alone
      <4>1. Signing # {d}
        BY <2>1, <3>1 DEF Signing
      <4> QED BY <2>7, <3>1, <4>1 DEF ChainInv
    <3> QED BY <2>4, <3>1, <3>2, <3>3
  <2>8. \A k \in 1..Len(log') : event'[log'[k].event].at = "logged"
    BY <2>2, <2>3, <2>4, <2>5 DEF ChainInv
  <2>9. ParentLogged'
    <3>1. entry.parent = None \/ \E j \in 1..Len(log) : log[j].event = entry.parent
      BY <2>1, <2>3 DEF ChainInv
    <3> QED BY <2>4, <3>1 DEF ChainInv, ParentLogged
  <2>10. AloneLinksToPrevious'
    <3>1. event'[e].alone => \/ entry.parent = None
                             \/ n > 1 /\ entry.parent = log[n - 1].event
      <4>1. event[e].alone => entry.parent = prev
        BY <2>1, <2>3 DEF ChainInv
      <4>2. prev # None => n > 1 /\ log[n - 1].event = prev
        BY <2>4 DEF ChainInv
      <4> QED BY <2>2, <4>1, <4>2
    <3>2. ASSUME NEW k \in 1..Len(log), event'[log'[k].event].alone
          PROVE  log'[k].parent = None \/ (k > 1 /\ log'[k].parent = log'[k - 1].event)
      <4>1. event[log[k].event].alone
        BY <2>4, <2>5, <3>2
      <4>2. log[k].parent = None \/ (k > 1 /\ log[k].parent = log[k - 1].event)
        BY <2>4, <4>1 DEF ChainInv, AloneLinksToPrevious
      <4> QED BY <2>4, <4>2
    <3>3. n > 1 => log'[n - 1] = log[n - 1]
      BY <2>4
    <3> QED BY <2>3, <2>4, <3>1, <3>2, <3>3 DEF AloneLinksToPrevious
  <2> QED BY <2>6, <2>7, <2>8, <2>9, <2>10 DEF ChainInv
<1>4. ASSUME NEW r \in Request, Record(r)
      PROVE  ChainInv'
  BY <1>4, BindKeepsChain DEF Record
<1>5. CASE UNCHANGED chain
  BY <1>5 DEF ChainInv, ParentLogged, AloneLinksToPrevious, Signing, chain
<1>6. ASSUME NEW r \in Request, Write(r)
      PROVE  UNCHANGED chain
  BY <1>6 DEF Write
<1>7. ASSUME NEW r \in Request, NEW t \in Target, Post(r, t)
      PROVE  UNCHANGED chain
  BY <1>7 DEF Post
<1>8. ASSUME NEW r \in Request, NEW s \in Session, Reevaluate(r, s)
      PROVE  UNCHANGED chain
  BY <1>8 DEF Reevaluate
<1>9. ASSUME NEW s \in Session,
             Accept(s) \/ HandshakeHeard(s) \/ Attached(s) \/ AttachFails(s) \/ Close(s)
      PROVE  UNCHANGED chain
  BY <1>9 DEF Accept, HandshakeHeard, Attached, AttachFails, Close
<1> QED
  BY <1>1, <1>2, <1>3, <1>4, <1>5, <1>6, <1>7, <1>8, <1>9 DEF Next, vars

-----------------------------------------------------------------------------
\* Steps that change neither a request nor the file keep PostInv.
LEMMA PostUnchanged ==
    ASSUME PostInv, UNCHANGED <<request, file>>
    PROVE  PostInv'
  BY DEF PostInv, Overlapping, InFile

\* Every step keeps the invariant of the revocation file.
LEMMA PostStep ==
    ASSUME TypeOK, PostInv, ReachInv, [Next]_vars
    PROVE  PostInv'
<1>1. CASE Restart
  <2>1. /\ file' = file
        /\ \A r \in Request :
              \/ request[r].at \in {"new", "deduped", "answered"} /\ request'[r] = request[r]
              \/ Moved(r, "lost")
    BY <1>1, RestartEffect DEF Restart
  <2>2. \A r \in Request : /\ request'[r].at # "signing"
                           /\ request'[r].at = "new" => request'[r].alone
                           /\ request'[r].alone = request[r].alone
                           /\ request'[r].at \in Written => request[r].at \in Written
    BY <2>1 DEF Moved, PostInv, Written
  <2> QED BY <2>1, <2>2 DEF PostInv, InFile
<1>2. ASSUME NEW e \in Event, Signed(e)
      PROVE  PostInv'
  <2>1. /\ file' = file
        /\ \A r \in Request :
              IF event[e].owner = r
              THEN Moved(r, "answered") /\ request'[r].due = request[r].due
              ELSE request'[r] = request[r]
    BY <1>2, SignedEffect DEF Signed
  <2>2. \A r \in Request : event[e].owner = r => request[r].at = "recording"
    BY <1>2, DaemonAssumption DEF Signed, ReachInv, None
  <2>3. \A r \in Request : /\ request'[r].at = "signing" <=> request[r].at = "signing"
                           /\ request'[r].at = "signing" => request'[r] = request[r]
                           /\ request'[r].at = "new" => request'[r] = request[r]
                           /\ request'[r].alone = request[r].alone
                           /\ request'[r].at \in Written => request[r].at \in Written
    BY <2>1, <2>2 DEF Moved, Written
  <2>4. Overlapping' = Overlapping
    BY <2>3 DEF Overlapping
  <2> QED BY <2>1, <2>3, <2>4 DEF PostInv, InFile
<1>3. ASSUME NEW r \in Request, Write(r)
      PROVE  PostInv'
  <2> DEFINE entry == [id |-> r, target |-> request[r].target]
  <2>1. /\ Moved(r, "reevaluating")
        /\ \A q \in Request \ {r} : request'[q] = request[q]
        /\ file' = Append(request[r].seen, entry)
        /\ entry \in Revocation /\ request[r].seen \in Seq(Revocation)
    BY <1>3, WriteEffect
  <2>2. request[r].at = "signing" /\ entry.id = r
    BY <1>3 DEF Write
  <2> HIDE DEF entry
  <2>3. ASSUME NEW q \in Request
        PROVE  /\ request'[q].at = "new" => request'[q].alone
               /\ request'[q].at = "signing" =>
                     request'[q].target \in Target /\ ~request'[q].alone
    <3>1. CASE q = r
      BY <2>1, <3>1 DEF Moved
    <3>2. CASE q # r
      <4>1. request[q].at = "signing" => ~request[q].alone
        BY <2>2, <3>2 DEF PostInv, Overlapping
      <4> QED BY <2>1, <3>2, <4>1 DEF PostInv
    <3> QED BY <3>1, <3>2
  <2>4. ASSUME \A q \in Request : request'[q].alone, NEW q \in Request,
               request'[q].at \in Written
        PROVE  InFile(q)'
    <3>1. \A p \in Request : request[p].alone
      BY <2>1, <2>4 DEF Moved
    <3>2. file' = Append(file, entry) /\ file \in Seq(Revocation)
      BY <2>1, <2>2, <3>1 DEF PostInv, TypeOK
    <3>3. /\ Len(file) \in Nat /\ Len(file') = Len(file) + 1
          /\ file'[Len(file) + 1] = entry
          /\ \A k \in 1..Len(file) : file'[k] = file[k]
      BY <2>1, <3>2
    <3>4. CASE q = r
      BY <2>2, <3>3, <3>4 DEF InFile
    <3>5. CASE q # r
      <4>1. InFile(q)
        BY <2>1, <2>4, <3>1, <3>5 DEF PostInv
      <4> QED BY <3>3, <4>1 DEF InFile
    <3> QED BY <3>4, <3>5
  <2> QED BY <2>3, <2>4 DEF PostInv
<1>4. ASSUME NEW r \in Request, Record(r)
      PROVE  PostInv'
  <2>1. /\ Moved(r, "recording") /\ file' = file
        /\ \A q \in Request \ {r} : request'[q] = request[q]
        /\ request[r].at = "reevaluating"
    BY <1>4, RecordEffect DEF Record
  <2>2. \A q \in Request : /\ request'[q].at = "signing" <=> request[q].at = "signing"
                           /\ request'[q].at = "signing" => request'[q] = request[q]
                           /\ request'[q].at = "new" => request'[q] = request[q]
                           /\ request'[q].alone = request[q].alone
                           /\ request'[q].at \in Written => request[q].at \in Written
    BY <2>1 DEF Moved, Written
  <2>3. Overlapping' = Overlapping
    BY <2>2 DEF Overlapping
  <2> QED BY <2>1, <2>2, <2>3 DEF PostInv, InFile
<1>5. ASSUME NEW r \in Request, NEW t \in Target, Post(r, t)
      PROVE  PostInv'
  <2>1. request[r].at = "new" /\ request[r].alone /\ file' = file
    BY <1>5 DEF Post, PostInv
  <2>2. CASE /\ request'[r].at = "deduped"
             /\ \A q \in Request \ {r} : request'[q] = request[q]
    <3>1. Overlapping' = Overlapping
      BY <2>1, <2>2 DEF Overlapping
    <3>2. (\A q \in Request : request'[q].alone) => \A q \in Request : request[q].alone
      BY <2>1, <2>2
    <3> QED BY <2>1, <2>2, <3>1, <3>2 DEF PostInv, InFile, Written
  <2>3. CASE /\ request'[r].at = "signing" /\ request'[r].target = t
             /\ request'[r].seen = file
             /\ request'[r].alone => \A q \in Request : request[q].at # "signing"
             /\ \A q \in Request \ {r} :
                   /\ request'[q].at = request[q].at
                   /\ request'[q].target = request[q].target
                   /\ request[q].at = "signing" => ~request'[q].alone
                   /\ request[q].at # "signing" => request'[q] = request[q]
    <3>1. request'[r].alone => Overlapping' = {r}
      BY <2>3 DEF Overlapping
    <3>2. \A q \in Request : /\ request'[q].at = "new" => request'[q].alone
                             /\ request'[q].at = "signing" =>
                                   /\ request'[q].target \in Target
                                   /\ request'[q].alone => q = r
      BY <2>3 DEF PostInv
    <3>3. ASSUME \A q \in Request : request'[q].alone, NEW q \in Request,
                 request'[q].at \in Written
          PROVE  InFile(q)'
      <4>1. q # r /\ request[q].at \in Written
        BY <2>3, <3>3 DEF Written
      <4>2. \A p \in Request : request[p].alone
        BY <2>1, <2>3, <3>3
      <4> QED BY <2>1, <4>1, <4>2 DEF PostInv, InFile
    <3> QED BY <2>1, <2>3, <3>1, <3>2, <3>3 DEF PostInv
  <2> QED BY <1>5, <2>2, <2>3, PostEffect
<1>6. CASE UNCHANGED <<request, file>>
  BY <1>6, PostUnchanged
<1>7. Emit => UNCHANGED <<request, file>>
  BY DEF Emit, posts
<1>8. ASSUME NEW r \in Request, NEW s \in Session, Reevaluate(r, s)
      PROVE  UNCHANGED <<request, file>>
  BY <1>8 DEF Reevaluate
<1>9. ASSUME NEW s \in Session,
             Accept(s) \/ HandshakeHeard(s) \/ Attached(s) \/ AttachFails(s) \/ Close(s)
      PROVE  UNCHANGED <<request, file>>
  BY <1>9 DEF Accept, HandshakeHeard, Attached, AttachFails, Close, posts
<1> QED
  BY <1>1, <1>2, <1>3, <1>4, <1>5, <1>6, <1>7, <1>8, <1>9 DEF Next, vars, posts

-----------------------------------------------------------------------------
\* What is owed and what has been reached is kept by steps that leave the
\* events and requests alone and only add servers and visits.
LEMMA ReachGrows ==
    ASSUME TypeOK, ReachInv, UNCHANGED <<event, request>>, servers \subseteq servers',
           \A r \in Request : reached[r] \subseteq reached'[r]
    PROVE  ReachInv'
<1>1. RevocationReaches'
  BY DEF ReachInv, RevocationReaches
<1>2. \A r \in Request : request'[r].at = "reevaluating" => request'[r].due \subseteq servers'
  BY DEF ReachInv
<1> QED
  BY <1>1, <1>2 DEF ReachInv

\* Every step keeps ReachInv.
LEMMA ReachStep ==
    ASSUME TypeOK, ReachInv, PostInv, [Next]_vars
    PROVE  ReachInv'
<1>0. \A e \in Event : event[e].owner # None => event[e].owner \in Request
  BY DEF TypeOK, EventRecord
<1>1. CASE Emit
  <2>1. Bind(None) /\ UNCHANGED <<request, reached, servers>>
    BY <1>1 DEF Emit, posts, conns
  <2>2. PICK n \in Event :
          /\ event'[n].owner = None
          /\ \A e \in Event \ {n} :
                event'[e].at = event[e].at /\ event'[e].owner = event[e].owner
    BY <2>1, BindEffect
  <2>3. RevocationReaches'
    BY <2>1 DEF ReachInv, RevocationReaches
  <2> QED BY <2>1, <2>2, <2>3 DEF ReachInv
<1>2. CASE Restart
  <2>1. /\ UNCHANGED reached
        /\ \A e \in Event : event'[e].at # "signing"
        /\ \A r \in Request :
              \/ request[r].at \in {"new", "deduped", "answered"} /\ request'[r] = request[r]
              \/ Moved(r, "lost")
    BY <1>2, RestartEffect DEF Restart
  <2>2. \A r \in Request : /\ request'[r].at # "reevaluating"
                           /\ request'[r].at \in {"recording", "answered"} =>
                                 request[r].at = "answered" /\ request'[r] = request[r]
    BY <2>1 DEF Moved
  <2>3. RevocationReaches'
    BY <2>1, <2>2 DEF ReachInv, RevocationReaches
  <2> QED BY <2>1, <2>2, <2>3 DEF ReachInv
<1>3. ASSUME NEW e \in Event, Signed(e)
      PROVE  ReachInv'
  <2>1. /\ UNCHANGED <<reached, servers>> /\ event[e].at = "signing"
        /\ event'[e].at = "logged"
        /\ \A d \in Event \ {e} : event'[d] = event[d]
        /\ \A r \in Request :
              IF event[e].owner = r
              THEN Moved(r, "answered") /\ request'[r].due = request[r].due
              ELSE request'[r] = request[r]
    BY <1>3, SignedEffect DEF Signed, conns
  <2>2. \A r \in Request : event[e].owner = r => request[r].at = "recording"
    BY <2>1, DaemonAssumption DEF ReachInv, None
  <2>3. RevocationReaches'
    BY <2>1, <2>2 DEF ReachInv, RevocationReaches, Moved
  <2>4. ASSUME NEW d \in Event, event'[d].at = "signing", event'[d].owner # None
        PROVE  request'[event'[d].owner].at = "recording"
    <3>1. d # e /\ event'[d] = event[d]
      BY <2>1, <2>4
    <3>2. event[d].owner \in Request /\ event[d].owner # event[e].owner
      BY <1>0, <2>1, <2>4, <3>1 DEF ReachInv
    <3> QED BY <2>1, <2>4, <3>1, <3>2 DEF ReachInv
  <2>5. \A r \in Request : request'[r].at = "reevaluating" => request'[r].due \subseteq servers'
    BY <2>1 DEF ReachInv, Moved
  <2> QED BY <2>1, <2>3, <2>4, <2>5 DEF ReachInv
<1>4. ASSUME NEW r \in Request, Write(r)
      PROVE  ReachInv'
  <2>1. /\ UNCHANGED <<event, reached, servers>> /\ request[r].at = "signing"
        /\ request'[r].at = "reevaluating" /\ request'[r].due = servers
        /\ \A q \in Request \ {r} : request'[q] = request[q]
    BY <1>4, WriteEffect DEF Write, conns, chain, Moved
  <2>2. RevocationReaches'
    BY <2>1 DEF ReachInv, RevocationReaches
  <2> QED BY <1>0, <2>1, <2>2 DEF ReachInv
<1>5. ASSUME NEW r \in Request, Record(r)
      PROVE  ReachInv'
  <2>1. /\ Bind(r) /\ UNCHANGED <<reached, servers>> /\ request[r].at = "reevaluating"
        /\ servers \subseteq reached[r]
        /\ request'[r].at = "recording" /\ request'[r].due = request[r].due
        /\ \A q \in Request \ {r} : request'[q] = request[q]
    BY <1>5, RecordEffect DEF Record, conns, Moved
  <2>2. PICK n \in Event :
          /\ event'[n].owner = r
          /\ \A e \in Event \ {n} :
                event'[e].at = event[e].at /\ event'[e].owner = event[e].owner
    BY <2>1, BindEffect
  <2>3. RevocationReaches'
    BY <2>1 DEF ReachInv, RevocationReaches
  <2>4. \A e \in Event : event[e].at = "signing" => event[e].owner # r
    BY <2>1, DaemonAssumption DEF ReachInv, None
  <2> QED BY <1>0, <2>1, <2>2, <2>3, <2>4 DEF ReachInv
<1>6. ASSUME NEW r \in Request, NEW t \in Target, Post(r, t)
      PROVE  ReachInv'
  <2>1. /\ UNCHANGED <<event, reached, servers>> /\ request[r].at = "new"
        /\ request'[r].at \in {"deduped", "signing"}
        /\ \A q \in Request \ {r} : /\ request'[q].at = request[q].at
                                    /\ request'[q].due = request[q].due
    <3>1. UNCHANGED <<event, reached, servers>> /\ request[r].at = "new"
      BY <1>6 DEF Post, conns, chain
    <3> QED BY <1>6, <3>1, PostEffect
  <2>2. RevocationReaches'
    BY <2>1 DEF ReachInv, RevocationReaches
  <2> QED BY <1>0, <2>1, <2>2 DEF ReachInv
<1>7. ASSUME NEW r \in Request, NEW s \in Session, Reevaluate(r, s)
      PROVE  ReachInv'
  <2>1. /\ UNCHANGED <<event, request, servers>>
        /\ \A q \in Request : reached[q] \subseteq reached'[q]
    BY <1>7 DEF Reevaluate, chain, conns, TypeOK
  <2> QED BY <2>1, ReachGrows
<1>8. ASSUME NEW s \in Session,
             Accept(s) \/ HandshakeHeard(s) \/ Attached(s) \/ AttachFails(s) \/ Close(s)
      PROVE  ReachInv'
  <2>1. UNCHANGED <<event, request, reached>> /\ servers \subseteq servers'
    BY <1>8 DEF Accept, HandshakeHeard, Attached, AttachFails, Close, chain, posts
  <2> QED BY <2>1, ReachGrows
<1>9. CASE UNCHANGED vars
  BY <1>9, ReachGrows DEF vars, chain, posts, conns
<1> QED
  BY <1>1, <1>2, <1>3, <1>4, <1>5, <1>6, <1>7, <1>8, <1>9 DEF Next

-----------------------------------------------------------------------------
\* The inductive invariant holds of a daemon that has just started.
LEMMA InvInit == Init => TypeOK /\ ChainInv /\ PostInv /\ ReachInv
<1> SUFFICES ASSUME Init
             PROVE  TypeOK /\ ChainInv /\ PostInv /\ ReachInv
  OBVIOUS
<1>1. /\ NoEvent \in EventRecord /\ NoEvent.at = "unused"
      /\ NoSession \in SessionRecord
  BY DEF NoEvent, EventRecord, EventAt, NoSession, SessionRecord, None
<1>2. NoRequest \in RequestRecord /\ NoRequest.at = "new" /\ NoRequest.alone
  BY DEF NoRequest, RequestRecord, RequestAt
<1>3. /\ \A e \in Event : event[e] = NoEvent
      /\ \A r \in Request : request[r] = NoRequest
      /\ log = <<>> /\ prev = None
  BY DEF Init
<1>4. TypeOK
  BY <1>1, <1>2 DEF Init, TypeOK
<1>5. ChainInv
  BY <1>1, <1>3 DEF ChainInv, ParentLogged, AloneLinksToPrevious
<1>6. PostInv
  BY <1>2, <1>3 DEF PostInv, Written
<1>7. ReachInv
  BY <1>1, <1>2, <1>3 DEF ReachInv, RevocationReaches
<1> QED
  BY <1>4, <1>5, <1>6, <1>7

\* And of every state it reaches, restarts included.
LEMMA InvHolds == Spec => [](TypeOK /\ ChainInv /\ PostInv /\ ReachInv)
<1>1. TypeOK /\ ChainInv /\ PostInv /\ ReachInv /\ [Next]_vars
        => (TypeOK /\ ChainInv /\ PostInv /\ ReachInv)'
  BY TypeStep, ChainStep, PostStep, ReachStep
<1> QED
  BY <1>1, InvInit, PTL DEF Spec

\* The daemon's state keeps its shape.
THEOREM DaemonTypes == Spec => []TypeOK
  BY InvHolds, PTL

\* Whatever handlers overlap and however often the daemon restarts: a parent
\* hash names an event logged before its child, a fork of the chain is two
\* enqueueSigned calls that overlapped, and a revocation that was answered is
\* missing from the file only if two POSTs overlapped.
THEOREM KeptUnlessOverlappedAlways == Spec => []KeptUnlessOverlapped
<1>1. TypeOK /\ ChainInv /\ PostInv => KeptUnlessOverlapped
  <2> SUFFICES ASSUME TypeOK, ChainInv, PostInv
               PROVE  LostOnlyByOverlap
    BY DEF ChainInv, KeptUnlessOverlapped
  <2>1. DOMAIN file = 1..Len(file)
    BY DEF TypeOK
  <2> QED BY <2>1 DEF PostInv, LostOnlyByOverlap, InFile, Written
<1> QED
  BY <1>1, InvHolds, PTL

\* A POST is answered only when every server active at its write has been
\* re-evaluated, although the set it loops over changes under it.
THEOREM RevocationAlwaysReaches == Spec => []RevocationReaches
<1>1. ReachInv => RevocationReaches
  BY DEF ReachInv
<1> QED
  BY <1>1, InvHolds, PTL
=============================================================================
