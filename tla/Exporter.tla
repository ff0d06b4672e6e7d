------------------------------- MODULE Exporter -------------------------------
(***************************************************************************)
(* The Prometheus exporter: scrape_once pulls sessions, approvals, plugins *)
(* and the tail of the proof log from the daemon, one HTTP request after   *)
(* the other, and mirrors what it sets to OpenTelemetry.  The daemon keeps *)
(* changing between the requests, and any of them may fail, which ends the *)
(* scrape with the earlier metrics already updated.                        *)
(***************************************************************************)
EXTENDS Integers, Sequences, FiniteSets, FiniteSetsExt

CONSTANTS
  Window,      \* how many events /admin/proofs returns (1000 in the code)
  EventKeys,   \* what {type, actor, context} of an event can be
  Revocations, \* those of them that are admin.revocation events
  MaxEvents,   \* bound on the daemon's log
  MaxDepth     \* bound on the daemon's pending approvals

VARIABLES
  log,        \* the daemon's proof log: a sequence of event keys
  depth,      \* the daemon's pending approvals
  at,         \* the request scrape_once is about to make
  gauge,      \* tf_approval_queue_depth
  otel,       \* sum of the deltas added to the OpenTelemetry counter
  seen,       \* ScrapeState.seen_event_keys
  counted,    \* tf_proof_events_total, per key
  active,     \* tf_revocations_active
  since,      \* history: events logged since the log was last pulled
  overrun     \* history: more than Window events came between two pulls

vars == <<log, depth, at, gauge, otel, seen, counted, active, since, overrun>>

Init ==
  /\ log = <<>> /\ depth = 0
  /\ at = "sessions"
  /\ gauge = 0 /\ otel = 0
  /\ seen = {} /\ counted = [k \in EventKeys |-> 0] /\ active = 0
  /\ since = 0 /\ overrun = FALSE

metrics == <<gauge, otel, seen, counted, active>>

\* The daemon's side, seen through its admin endpoints.
DaemonLogs(k) ==
  /\ Len(log) < MaxEvents
  /\ log' = Append(log, k)
  /\ since' = since + 1
  /\ overrun' = (overrun \/ since' > Window)
  /\ UNCHANGED <<depth, at, metrics>>

DaemonQueues(n) ==
  /\ n \in 0..MaxDepth /\ n # depth
  /\ depth' = n
  /\ UNCHANGED <<log, at, metrics, since, overrun>>

\* get_json fails: refused, timed out, not 2xx, or not the JSON expected.
RequestFails ==
  /\ at # "sessions"
  /\ at' = "sessions"
  /\ UNCHANGED <<log, depth, metrics, since, overrun>>

\* Sessions and plugins are plain gauges set from one answer.
PullSessions ==
  /\ at = "sessions"
  /\ at' = "approvals"
  /\ UNCHANGED <<log, depth, metrics, since, overrun>>

PullPlugins ==
  /\ at = "plugins"
  /\ at' = "proofs"
  /\ UNCHANGED <<log, depth, metrics, since, overrun>>

\* The gauge is set; OpenTelemetry gets the difference to the last value.
PullApprovals ==
  /\ at = "approvals"
  /\ gauge' = depth
  /\ otel' = otel + (depth - gauge)
  /\ at' = "plugins"
  /\ UNCHANGED <<log, depth, seen, counted, active, since, overrun>>

Pulled == IF Len(log) <= Window THEN log ELSE SubSeq(log, Len(log) - Window + 1, Len(log))

\* The set of seen keys is rebuilt from the answer.
PullForgetful ==
  /\ at = "proofs"
  /\ LET pulled == {Pulled[i] : i \in DOMAIN Pulled}
     IN  /\ seen' = pulled
         /\ counted' = [k \in EventKeys |->
                          counted[k] + IF k \in pulled \ seen THEN 1 ELSE 0]
  /\ active' = Cardinality({i \in DOMAIN Pulled : Pulled[i] \in Revocations})
  /\ at' = "sessions"
  /\ since' = 0
  /\ UNCHANGED <<log, depth, gauge, otel, overrun>>

\* Events whose key is new are counted; the revocation gauge is the number of
\* revocations in the answer.
PullProofs ==
  /\ at = "proofs"
  /\ LET pulled == {Pulled[i] : i \in DOMAIN Pulled}
     IN  /\ seen' = seen \cup pulled
         /\ counted' = [k \in EventKeys |->
                          counted[k] + IF k \in pulled \ seen THEN 1 ELSE 0]
  /\ active' = Cardinality({i \in DOMAIN Pulled : Pulled[i] \in Revocations})
  /\ at' = "sessions"
  /\ since' = 0
  /\ UNCHANGED <<log, depth, gauge, otel, overrun>>

Next ==
  \/ \E k \in EventKeys : DaemonLogs(k)
  \/ \E n \in 0..MaxDepth : DaemonQueues(n)
  \/ RequestFails
  \/ PullSessions
  \/ PullApprovals
  \/ PullPlugins
  \/ PullProofs

Spec == Init /\ [][Next]_vars

-----------------------------------------------------------------------------
\* However scrapes fail and the daemon moves between their requests: the
\* OpenTelemetry queue depth is the Prometheus one; an event is counted at most
\* once and never invented; the revocation gauge never exceeds the revocations
\* made; and as long as no more than Window events come between two pulls, a
\* pull leaves no logged key uncounted.
MetricsFaithful ==
  /\ otel = gauge
  /\ \A k \in EventKeys : counted[k] <= Cardinality({i \in DOMAIN log : log[i] = k})
  /\ \A k \in EventKeys : counted[k] = IF k \in seen THEN 1 ELSE 0
  /\ active <= Cardinality({i \in DOMAIN log : log[i] \in Revocations})
  /\ since = 0 /\ ~overrun => seen = {log[i] : i \in DOMAIN log}
=============================================================================
