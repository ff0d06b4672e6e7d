------------------------------ MODULE Daemon ------------------------------
(***************************************************************************)
(* The shared state of tools/tf-daemon/src/index.ts: the signed proof      *)
(* chain and its log, the revocation file behind POST /admin/revocations,  *)
(* and the table of sessions with their RPC servers.                       *)
(*                                                                         *)
(* The daemon runs on one event loop: code between two awaits is one step, *)
(* and any other handler may run at an await.  A restart forgets           *)
(* everything but the two files.                                           *)
(***************************************************************************)
EXTENDS Naturals, Sequences

CONSTANTS Request,      \* POST /admin/revocations requests
          Target,       \* revocation targets
          Session,      \* connections, in the order they may be accepted
          MaxEvents,    \* bound: proof events
          MaxRestarts   \* bound: restarts

ASSUME DaemonAssumption ==
    MaxEvents \in Nat /\ MaxRestarts \in Nat /\ 0 \notin Request

None == 0
Event == 1..MaxEvents

VARIABLES prev,         \* ProofChain.prevHash
          event,        \* the enqueueSigned call of every event
          log,          \* the .tflog: event and parent
          request,      \* the progress of every POST
          file,         \* the revocation file
          session,      \* socket, handshake and slot of every connection
          servers,      \* activeRpcServers
          quorumBound,  \* sessions with a call in flight whose check waits
                        \* for a quorum
          restarts,
          reached       \* reached[r]: servers r has re-evaluated

chain == <<prev, event, log>>
posts == <<request, file, reached>>
conns == <<session, servers, quorumBound>>
vars == <<chain, posts, conns, restarts>>

NoEvent == [at |-> "unused", parent |-> None, owner |-> None, alone |-> TRUE]
NoRequest == [at |-> "new", target |-> None, seen |-> <<>>, due |-> {}, alone |-> TRUE]
NoSession == [socket |-> "new", attach |-> "none", slot |-> "none"]

Init ==
    /\ prev = None /\ event = [e \in Event |-> NoEvent] /\ log = <<>>
    /\ request = [r \in Request |-> NoRequest] /\ file = <<>>
    /\ reached = [r \in Request |-> {}]
    /\ session = [s \in Session |-> NoSession] /\ servers = {}
    /\ quorumBound \in SUBSET Session
    /\ restarts = 0

-----------------------------------------------------------------------------
(* The proof chain                                                         *)

Signing == {e \in Event : event[e].at = "signing"}
NextEvent == CHOOSE e \in Event : event[e].at = "unused"

\* enqueueSigned up to its await: the event is bound to the chain as it is.
Bind(owner) ==
    /\ \E e \in Event : event[e].at = "unused"
    /\ event' = [e \in Event |->
          CASE e = NextEvent -> [at |-> "signing", parent |-> prev,
                                 owner |-> owner, alone |-> Signing = {}]
            [] e \in Signing -> [event[e] EXCEPT !.alone = FALSE]
            [] OTHER -> event[e]]

\* A guard decision, an approval, an RPC or a plugin reports an event.
Emit ==
    /\ Bind(None)
    /\ UNCHANGED <<prev, log, posts, conns, restarts>>

\* The chain advances and the event is appended to the file, in one step.
Commit(e) ==
    /\ prev' = e
    /\ log' = Append(log, [event |-> e, parent |-> event[e].parent])

\* enqueueSigned after its await; a POST that waited for it is answered.
Signed(e) ==
    /\ event[e].at = "signing"
    /\ Commit(e)
    /\ event' = [event EXCEPT ![e].at = "logged"]
    /\ request' = [r \in Request |->
          IF event[e].owner = r THEN [request[r] EXCEPT !.at = "answered"]
                                ELSE request[r]]
    /\ UNCHANGED <<file, reached, conns, restarts>>

-----------------------------------------------------------------------------
(* POST /admin/revocations                                                 *)

Revoked(list) == {list[k].target : k \in DOMAIN list}
Overlapping == {r \in Request : request[r].at = "signing"}

\* The body is there: read the file, answer a repetition, else go and sign.
Post(r, t) ==
    /\ request[r].at = "new"
    /\ request' =
         IF t \in Revoked(file)
         THEN [request EXCEPT ![r] = [at |-> "deduped", target |-> t, seen |-> <<>>,
                                      due |-> {}, alone |-> TRUE]]
         ELSE [q \in Request |->
                CASE q = r -> [at |-> "signing", target |-> t, seen |-> file,
                               due |-> {}, alone |-> Overlapping = {}]
                  [] q \in Overlapping -> [request[q] EXCEPT !.alone = FALSE]
                  [] OTHER -> request[q]]
    /\ UNCHANGED <<chain, file, reached, conns, restarts>>

\* The file is replaced by this revocation alone.
ListWithOnly(r) == <<[id |-> r, target |-> request[r].target]>>

\* The list read before the signature, with the revocation pushed.
ListWith(r) == Append(request[r].seen, [id |-> r, target |-> request[r].target])

\* Signed: write the file, then start on the RPC servers.
Write(r) ==
    /\ request[r].at = "signing"
    /\ file' = ListWith(r)
    /\ request' = [request EXCEPT ![r].at = "reevaluating", ![r].due = servers]
    /\ UNCHANGED <<chain, reached, conns, restarts>>

\* One turn of the loop over activeRpcServers: the set is live, a server that
\* joins meanwhile is visited too.  The turn waits for the check of every
\* call in flight, which for a quorum has no timeout.
Reevaluate(r, s) ==
    /\ request[r].at = "reevaluating"
    /\ s \in servers \ reached[r]
    /\ s \notin quorumBound
    /\ reached' = [reached EXCEPT ![r] = @ \cup {s}]
    /\ UNCHANGED <<chain, request, file, conns, restarts>>

\* The loop is not awaited.
RecordEarly(r) ==
    /\ request[r].at = "reevaluating"
    /\ Bind(r)
    /\ request' = [request EXCEPT ![r].at = "recording"]
    /\ UNCHANGED <<prev, log, file, reached, conns, restarts>>

\* The loop goes on as long as there are servers.
RecordWhenNone(r) ==
    /\ request[r].at = "reevaluating"
    /\ servers = {}
    /\ Bind(r)
    /\ request' = [request EXCEPT ![r].at = "recording"]
    /\ UNCHANGED <<prev, log, file, reached, conns, restarts>>

\* The loop is over: the proof event is enqueued and awaited.
Record(r) ==
    /\ request[r].at = "reevaluating"
    /\ servers \subseteq reached[r]
    /\ Bind(r)
    /\ request' = [request EXCEPT ![r].at = "recording"]
    /\ UNCHANGED <<prev, log, file, reached, conns, restarts>>

-----------------------------------------------------------------------------
(* Sessions                                                                *)

\* A socket opens: its slot is registered before the handshake.
Accept(s) ==
    /\ session[s].socket = "new"
    /\ session' = [session EXCEPT ![s] =
          [socket |-> "open", attach |-> "waiting", slot |-> "pending"]]
    /\ UNCHANGED <<chain, posts, servers, quorumBound, restarts>>

\* The last handshake message is delivered; attachResponder will resume.
HandshakeHeard(s) ==
    /\ session[s].socket = "open" /\ session[s].attach = "waiting"
    /\ session' = [session EXCEPT ![s].attach = "heard"]
    /\ UNCHANGED <<chain, posts, servers, quorumBound, restarts>>

\* onSessionConnected after attachResponder.
Attached(s) ==
    /\ session[s].attach = "heard"
    /\ session' = [session EXCEPT ![s].attach = "done", ![s].slot = "live"]
    /\ servers' = servers \cup {s}
    /\ UNCHANGED <<chain, posts, quorumBound, restarts>>

\* The handshake fails, or the socket closed before it was over.
AttachFails(s) ==
    /\ session[s].attach \in {"waiting", "heard"}
    /\ session' = [session EXCEPT ![s].attach = "failed", ![s].slot = "none"]
    /\ UNCHANGED <<chain, posts, servers, quorumBound, restarts>>

\* The socket closes: the slot goes, the RPC server stays.
Close(s) ==
    /\ session[s].socket = "open"
    /\ session' = [session EXCEPT ![s].socket = "closed", ![s].slot = "none"]
    /\ UNCHANGED <<chain, posts, servers, quorumBound, restarts>>

-----------------------------------------------------------------------------
\* The daemon stops and starts again: runDaemon makes a new chain, and the
\* requests and sockets of the old process are gone.
Restart ==
    /\ restarts < MaxRestarts
    /\ restarts' = restarts + 1
    /\ prev' = None
    /\ event' = [e \in Event |-> IF e \in Signing THEN [event[e] EXCEPT !.at = "lost"]
                                                  ELSE event[e]]
    /\ request' = [r \in Request |->
          IF request[r].at \in {"new", "deduped", "answered"} THEN request[r]
          ELSE [request[r] EXCEPT !.at = "lost"]]
    /\ session' = [s \in Session |->
          IF session[s].socket = "new" THEN NoSession
          ELSE [socket |-> "closed", attach |-> "failed", slot |-> "none"]]
    /\ servers' = {}
    /\ UNCHANGED <<log, file, reached, quorumBound>>

Next ==
    \/ Emit \/ Restart
    \/ \E e \in Event : Signed(e)
    \/ \E r \in Request : Write(r) \/ Record(r)
    \/ \E r \in Request, t \in Target : Post(r, t)
    \/ \E r \in Request, s \in Session : Reevaluate(r, s)
    \/ \E s \in Session :
          Accept(s) \/ HandshakeHeard(s) \/ Attached(s) \/ AttachFails(s) \/ Close(s)

Spec == Init /\ [][Next]_vars

\* The event loop resumes every continuation; clients need not do anything.
FairSpec ==
    /\ Spec
    /\ \A e \in Event : WF_vars(Signed(e))
    /\ \A r \in Request : WF_vars(Write(r)) /\ WF_vars(Record(r))
    /\ \A r \in Request, s \in Session : WF_vars(Reevaluate(r, s))

-----------------------------------------------------------------------------
Revocation == [id: Request, target: Target]
EventAt == {"unused", "signing", "logged", "lost"}
EventRecord == [at: EventAt, parent: Event \cup {None},
                owner: Request \cup {None}, alone: BOOLEAN]
RequestAt == {"new", "signing", "reevaluating", "recording",
              "answered", "deduped", "lost"}
RequestRecord == [at: RequestAt, target: Target \cup {None},
                  seen: Seq(Revocation), due: SUBSET Session, alone: BOOLEAN]
SessionRecord == [socket: {"new", "open", "closed"},
                  attach: {"none", "waiting", "heard", "done", "failed"},
                  slot: {"none", "pending", "live"}]

TypeOK ==
    /\ prev \in Event \cup {None}
    /\ event \in [Event -> EventRecord]
    /\ log \in Seq([event: Event, parent: Event \cup {None}])
    /\ request \in [Request -> RequestRecord]
    /\ file \in Seq(Revocation)
    /\ reached \in [Request -> SUBSET Session]
    /\ session \in [Session -> SessionRecord]
    /\ servers \subseteq Session /\ quorumBound \subseteq Session
    /\ restarts \in Nat

\* A parent hash always names an event that is in the log before its child,
\* across overlapping enqueueSigned calls and restarts.
ParentLogged ==
    \A k \in DOMAIN log : log[k].parent # None =>
        \E j \in 1..(k - 1) : log[j].event = log[k].parent

\* An event whose enqueueSigned overlapped no other links to the entry just
\* before it (or to nothing, the first after a start): forks come from
\* overlapping calls only.
AloneLinksToPrevious ==
    \A k \in DOMAIN log : event[log[k].event].alone =>
        \/ log[k].parent = None
        \/ k > 1 /\ log[k].parent = log[k - 1].event

\* As long as no two POSTs overlapped between their read of the file and their
\* write, every revocation that was answered is in the file, restarts
\* included: updates are lost by overlap only.
LostOnlyByOverlap ==
    \A r \in Request :
        request[r].at = "answered" /\ (\A q \in Request : request[q].alone) =>
            \E k \in DOMAIN file : file[k].id = r

\* A POST is answered only after every RPC server that was active when the
\* file was written has been re-evaluated.
RevocationReaches ==
    \A r \in Request : request[r].at \in {"recording", "answered"} =>
        request[r].due \subseteq reached[r]

\* A POST that has written its revocation is answered, unless the daemon is
\* restarted, a re-evaluated call waits for a quorum, or the model has no
\* event left to record it with.
PostAnswered ==
    \A r \in Request : request[r].at = "reevaluating" ~>
        \/ request[r].at \in {"answered", "lost"}
        \/ servers \cap quorumBound # {}
        \/ \A e \in Event : event[e].at # "unused"

\* "with parent_hash linking back to the previously-appended event", the
\* comment on the daemon's proof chain.
LinksToPrevious ==
    \A k \in 2..Len(log) : log[k].parent = log[k - 1].event

\* What the daemon keeps goes wrong by overlap only: a parent hash names an
\* event logged before its child, the one just before it unless enqueueSigned
\* calls overlapped, and an answered revocation is in the file unless two
\* POSTs overlapped, restarts included.
KeptUnlessOverlapped == ParentLogged /\ AloneLinksToPrevious /\ LostOnlyByOverlap
=============================================================================
