------------------------------- MODULE Gateway -------------------------------
(***************************************************************************)
(* The gates in front of application code: the reverse proxy tf-proxy, the *)
(* axum, actix-web, tonic and Rocket middlewares over tf-decide-client, and *)
(* the Envoy filter.  Each asks the daemon's /v1/decide about a request    *)
(* and then runs the handler (or forwards upstream), refuses, or hands     *)
(* out an approval.                                                        *)
(*                                                                         *)
(* One connection of a client to one gate is modelled, with up to          *)
(* MaxRequests requests on it, one after the other.  The daemon answers    *)
(* with any verb, fails, or stays silent; what it does not do is answer a  *)
(* call whose caller has given up.                                         *)
(***************************************************************************)
EXTENDS Integers, Sequences, FiniteSets

CONSTANT MaxRequests

VARIABLES
  gate,      \* which gate this is, with its options
  phase,     \* "idle", "asking", "spliced", "closed"
  request,   \* the request at hand
  done,      \* finished requests: what was asked, answered, run, returned
  waiting    \* "open" while the daemon may still answer, else "silent"

vars == <<gate, phase, request, done, waiting>>

Gates == [kind : {"axum", "actix", "tonic", "rocket"}, fail_open : BOOLEAN, mode : {"enforce"}]
         \cup [kind : {"envoy"}, fail_open : {FALSE}, mode : {"enforce"}]
         \cup [kind : {"proxy", "proxy-tls"}, fail_open : {FALSE},
               mode : {"enforce", "observe-only"}]

\* A request: does it ask for a websocket, and did the first segment of the
\* connection already show it (stream.peek sees what has arrived).
Requests == [upgrade : BOOLEAN, visible : BOOLEAN]

\* What comes back from the daemon: nothing usable, or a decision.
Verbs == {"allow", "ALLOW", "deny", "approval", "approval-required", "approval_required",
          "log-only", "log_only", "escalate", ""}
Replies == {[ok |-> FALSE, verb |-> ""]} \cup {[ok |-> TRUE, verb |-> v] : v \in Verbs}

Lower(verb) == IF verb = "ALLOW" THEN "allow" ELSE verb

\* What a gate does with a request: run the handler or not, and the status
\* returned when it does not (200 stands for what the handler or upstream
\* returns, its failures included).
Run == [run |-> TRUE, status |-> 200]
Refuse(status) == [run |-> FALSE, status |-> status]

Approvals == {"approval", "approval_required", "approval-required"}
Pending == {"approval-required", "approval_required"}
LogOnly == {"log-only", "log_only"}

-----------------------------------------------------------------------------
\* An unknown decision is let through.
UnknownRuns(reply, fail_open) ==
  IF ~reply.ok
  THEN IF fail_open THEN Run ELSE Refuse(503)
  ELSE CASE Lower(reply.verb) = "deny"    -> Refuse(403)
         [] Lower(reply.verb) \in Approvals -> Refuse(202)
         [] OTHER                         -> Run

\* axum: TrustForgeService::call after the daemon's answer.
axum_call(reply, fail_open) ==
  IF ~reply.ok
  THEN IF fail_open THEN Run ELSE Refuse(503)
  ELSE CASE Lower(reply.verb) = "allow"   -> Run
         [] Lower(reply.verb) = "deny"    -> Refuse(403)
         [] Lower(reply.verb) \in Approvals -> Refuse(202)
         [] OTHER                         -> Refuse(502)

\* actix-web: TrustForgeService::call.
actix_call(reply, fail_open) ==
  IF ~reply.ok
  THEN IF fail_open THEN Run ELSE Refuse(503)
  ELSE CASE Lower(reply.verb) = "allow"   -> Run
         [] Lower(reply.verb) = "deny"    -> Refuse(403)
         [] Lower(reply.verb) \in Approvals -> Refuse(202)
         [] OTHER                         -> Refuse(502)

\* tonic: TrustForgeInterceptor::check, with gRPC statuses (unavailable 14,
\* permission_denied 7, failed_precondition 9, internal 13).
tonic_check(reply, fail_open) ==
  IF ~reply.ok
  THEN IF fail_open THEN Run ELSE Refuse(14)
  ELSE CASE Lower(reply.verb) = "allow"   -> Run
         [] Lower(reply.verb) = "deny"    -> Refuse(7)
         [] Lower(reply.verb) \in Approvals -> Refuse(9)
         [] OTHER                         -> Refuse(13)

\* Rocket: on_request leaves an outcome in the request's slot ...
on_request(reply, fail_open) ==
  IF ~reply.ok
  THEN IF fail_open THEN "Allow" ELSE "Error"
  ELSE CASE Lower(reply.verb) = "allow"   -> "Allow"
         [] Lower(reply.verb) = "deny"    -> "Deny"
         [] Lower(reply.verb) \in Approvals -> "Approval"
         [] OTHER                         -> "Unknown"

\* ... and on_response, called after the handler, replaces its response.
on_response(slot) ==
  CASE slot = "Allow"    -> 200
    [] slot = "Deny"     -> 403
    [] slot = "Approval" -> 202
    [] slot = "Error"    -> 503
    [] slot = "Unknown"  -> 502

\* Envoy: on_http_call_response; a body that is missing (the callout failed
\* or timed out) or unreadable parses to an empty decision.
parse_decide_response(reply) == IF reply.ok THEN reply.verb ELSE ""
on_http_call_response(reply) ==
  IF parse_decide_response(reply) = "allow" THEN Run ELSE Refuse(403)

\* tf-proxy call_decide: an empty decision counts as an error.
call_decide(reply) == reply.ok /\ reply.verb # ""

\* tf-proxy handle_request: a request that is not an upgrade, or an upgrade
\* that is not noticed before hyper has taken the connection over.
handle_request(reply, mode) ==
  IF ~call_decide(reply) THEN Refuse(502)
  ELSE CASE reply.verb \in {"allow"} \cup LogOnly -> Run
         [] reply.verb \in Pending              -> Refuse(202)
         [] OTHER -> IF mode = "enforce" THEN Refuse(403) ELSE Run

\* tf-proxy serve_connection_inner: the websocket branch.
websocket_verdict(reply, mode) ==
  IF ~call_decide(reply) THEN Refuse(502)
  ELSE IF \/ reply.verb = "allow"
          \/ mode = "observe-only" /\ reply.verb \notin Pending
  THEN Run
  ELSE IF reply.verb \in Pending THEN Refuse(202) ELSE Refuse(403)

-----------------------------------------------------------------------------
Init ==
  /\ gate \in Gates
  /\ phase = "idle"
  /\ request = [upgrade |-> FALSE, visible |-> FALSE]
  /\ done = <<>>
  /\ waiting = "open"

\* serve_connection_inner looks at the first request only, and not under TLS.
Peeked(r) == gate.kind = "proxy" /\ done = <<>> /\ r.upgrade /\ r.visible

Arrive(r) ==
  /\ phase = "idle"
  /\ Len(done) < MaxRequests
  /\ r.upgrade => gate.kind \in {"proxy", "proxy-tls"}
  /\ phase' = "asking"
  /\ request' = r
  /\ waiting' = "open"
  /\ UNCHANGED <<gate, done>>

Finish(reply, act) ==
  done' = Append(done, [request |-> request, reply |-> reply,
                        run |-> act.run, status |-> act.status])

\* What the gate makes of the daemon's answer.  Rocket runs the handler
\* whatever the slot holds.
verdict(reply) ==
  CASE gate.kind = "axum"   -> axum_call(reply, gate.fail_open)
    [] gate.kind = "actix"  -> actix_call(reply, gate.fail_open)
    [] gate.kind = "tonic"  -> tonic_check(reply, gate.fail_open)
    [] gate.kind = "rocket" -> [run |-> TRUE,
                                status |-> on_response(on_request(reply, gate.fail_open))]
    [] gate.kind = "envoy"  -> on_http_call_response(reply)
    [] Peeked(request)      -> websocket_verdict(reply, gate.mode)
    [] OTHER                -> handle_request(reply, gate.mode)

\* The daemon's answer, or a failure of the call, reaches the gate.  A
\* websocket that may pass is spliced to the upstream, one that may not is
\* closed: either way no further request on the connection is looked at.
Answer(reply) ==
  /\ phase = "asking"
  /\ waiting = "open"
  /\ Finish(reply, verdict(reply))
  /\ phase' = IF ~Peeked(request) THEN "idle"
              ELSE IF verdict(reply).run THEN "spliced" ELSE "closed"
  /\ UNCHANGED <<gate, request, waiting>>

\* The daemon neither answers nor closes the connection.
FallSilent ==
  /\ phase = "asking"
  /\ waiting = "open"
  /\ waiting' = "silent"
  /\ UNCHANGED <<gate, phase, request, done>>

\* The request timer ends the call of tf-decide-client, the callout timer that
\* of Envoy.  The proxy's HTTP client sets no timer.
Timed == gate.kind \notin {"proxy", "proxy-tls"}
TimedOut == [ok |-> FALSE, verb |-> ""]

\* Only a daemon that is still being heard from is timed out.
TimeoutWhileOpen ==
  /\ waiting = "open"
  /\ phase = "asking"
  /\ Timed
  /\ Finish(TimedOut, verdict(TimedOut))
  /\ phase' = "idle"
  /\ UNCHANGED <<gate, request, waiting>>

Timeout ==
  /\ phase = "asking"
  /\ Timed
  /\ Finish(TimedOut, verdict(TimedOut))
  /\ phase' = "idle"
  /\ UNCHANGED <<gate, request, waiting>>

\* Envoy could not start the callout: it answers 503 at once.
DispatchFails ==
  /\ phase = "asking"
  /\ gate.kind = "envoy"
  /\ Finish(TimedOut, Refuse(503))
  /\ phase' = "idle"
  /\ UNCHANGED <<gate, request, waiting>>

\* The client closes the connection.
HangUp ==
  /\ phase \in {"idle", "spliced"}
  /\ phase' = "closed"
  /\ UNCHANGED <<gate, request, done, waiting>>

Next ==
  \/ \E r \in Requests : Arrive(r)
  \/ \E reply \in Replies : Answer(reply)
  \/ FallSilent
  \/ Timeout
  \/ DispatchFails
  \/ HangUp

\* Timers fire.
Spec == Init /\ [][Next]_vars /\ WF_vars(Timeout)

-----------------------------------------------------------------------------
\* What lets a request through: an allow; in the proxy a log-only answer to a
\* plain request, and in observe-only mode any decision but an approval; with
\* fail_open a daemon that cannot be asked.
Permitted(d) ==
  \/ d.reply.ok /\ d.reply.verb = "allow"
  \/ d.reply.ok /\ d.reply.verb = "ALLOW" /\ gate.kind \in {"axum", "actix", "tonic", "rocket"}
  \/ ~d.reply.ok /\ gate.fail_open
  \/ /\ gate.kind \in {"proxy", "proxy-tls"}
     /\ d.reply.verb \in LogOnly \/ gate.mode = "observe-only"
     /\ d.reply.verb \notin Pending \cup {""}

\* Handlers and upstreams see a request only when the daemon's answer to that
\* very request permits it, and a request kept from them is never answered as
\* though it had been served.  What is permitted is served, except a websocket
\* with a log-only answer, which the proxy refuses.  (Rocket, whose fairing
\* cannot stop the handler, rewrites the answer after the handler ran.)
GateHolds ==
  \A i \in DOMAIN done :
    /\ done[i].run /\ gate.kind # "rocket" => Permitted(done[i])
    /\ ~done[i].run => done[i].status # 200
    /\ done[i].status = 200 => Permitted(done[i])
    /\ Permitted(done[i]) => done[i].run \/ done[i].request.upgrade

\* Whoever is denied is told so, with the status each protocol reserves for
\* it; an approval is never reported as a denial by the middlewares and the
\* proxy, so that the client knows to come back.
RefusalsTold ==
  \A i \in DOMAIN done : LET d == done[i] IN
    /\ (d.reply.ok /\ d.reply.verb = "deny" /\ gate.mode = "enforce")
         => d.status \in {403, 7}
    /\ (d.reply.ok /\ d.reply.verb \in Pending /\ gate.kind # "envoy")
         => d.status \in {202, 9}
=============================================================================
