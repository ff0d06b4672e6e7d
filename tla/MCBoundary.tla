----------------------------- MODULE MCBoundary -----------------------------
(***************************************************************************)
(* The edge of a TrustForge deployment: who is let in and what is let      *)
(* through.  A behaviour follows one part: a quorum of approvers, one      *)
(* decision of the access control algorithms, one offer to a bridge, a     *)
(* gate in front of a service, the daemon's enforcer, a verifier of bearer *)
(* tokens, the HTTP client the bridges use, or the metrics exporter.  The  *)
(* variables of the other parts have no value (a quorum: no votes).        *)
(***************************************************************************)
EXTENDS QuorumCollector

CONSTANTS MaxPattern, MaxText, MaxLinks, MaxEvents, MaxDay,     \* decisions
          MaxRequests,                                          \* gate
          Checks, Ids, Self, MaxPending,                        \* enforcer
          Callers, TTL, RequestLimit, Tolerance,
          MaxClock, MaxTokens, MaxVerdicts,                     \* tokens
          MaxBody, MaxResponse,                                 \* http
          Window, EventKeys, Revocations, MaxLogged, MaxDepth   \* exporter

VARIABLES
  part,
  input, output,
  offer, judged,
  gate, phase, request, done, waiting,
  quorum, stage, guarded, id, promise, votes, handles, story, shutdown,
  verifier, clock, published, since, last, minted, cache, call, verdict, verdicts,
  response, wire, got, ended, result,
  log, depth, at, gauge, otel, seen, counted, active, fresh, overrun

\* The eligible actors of the quorum, as a policy lists them; a shorter list
\* where two ceremonies may be open at once.
MCDistinct == <<"a", "b", "c">>
MCTwo == <<"a", "b">>

Decision == INSTANCE MCDecisions
Bridge == INSTANCE MCBridges
Gate == INSTANCE Gateway
Enforce == INSTANCE Enforcer WITH at <- stage, Of <- MCTwo
Token == INSTANCE TokenVerifiers
Http == INSTANCE HttpClient WITH outcome <- result
Export == INSTANCE Exporter WITH MaxEvents <- MaxLogged, since <- fresh

decisionVars == <<input, output>>
bridgeVars == <<offer, judged>>
gateVars == <<gate, phase, request, done, waiting>>
enforcerVars == <<quorum, stage, guarded, id, promise, votes, handles, story, shutdown>>
tokenVars == <<verifier, clock, published, since, last, minted, cache, call,
               verdict, verdicts>>
httpVars == <<response, wire, got, ended, result>>
exportVars == <<log, depth, at, gauge, otel, seen, counted, active, fresh, overrun>>

Without(v) == v = "absent"

NoDecision == Without(input) /\ Without(output)
NoBridge == Without(offer) /\ Without(judged)
NoGate ==
  /\ Without(gate) /\ Without(phase) /\ Without(request) /\ Without(done)
  /\ Without(waiting)
NoEnforcer ==
  /\ Without(quorum) /\ Without(stage) /\ Without(guarded) /\ Without(id)
  /\ Without(promise) /\ Without(votes) /\ Without(handles) /\ Without(story)
  /\ Without(shutdown)
NoToken ==
  /\ Without(verifier) /\ Without(clock) /\ Without(published) /\ Without(since)
  /\ Without(last) /\ Without(minted) /\ Without(cache) /\ Without(call)
  /\ Without(verdict) /\ Without(verdicts)
NoHttp ==
  /\ Without(response) /\ Without(wire) /\ Without(got) /\ Without(ended)
  /\ Without(result)
NoExport ==
  /\ Without(log) /\ Without(depth) /\ Without(at) /\ Without(gauge)
  /\ Without(otel) /\ Without(seen) /\ Without(counted) /\ Without(active)
  /\ Without(fresh) /\ Without(overrun)

BoundaryInit ==
  /\ part \in {"quorum", "decision", "bridge", "gate", "enforcer", "token", "http", "export"}
  /\ Init
  /\ IF part = "decision" THEN Decision!Init ELSE NoDecision
  /\ IF part = "bridge" THEN Bridge!BridgeInit ELSE NoBridge
  /\ IF part = "gate" THEN Gate!Init ELSE NoGate
  /\ IF part = "enforcer" THEN Enforce!Init ELSE NoEnforcer
  /\ IF part = "token" THEN Token!Init ELSE NoToken
  /\ IF part = "http" THEN Http!Init ELSE NoHttp
  /\ IF part = "export" THEN Export!Init ELSE NoExport

BoundaryNext ==
  /\ UNCHANGED part
  /\ \/ /\ part = "quorum" /\ Next
        /\ UNCHANGED <<decisionVars, bridgeVars, gateVars, enforcerVars, tokenVars, httpVars, exportVars>>
     \/ /\ part = "decision" /\ Decision!Next
        /\ UNCHANGED <<vars, bridgeVars, gateVars, enforcerVars, tokenVars, httpVars, exportVars>>
     \/ /\ part = "bridge" /\ Bridge!Judge
        /\ UNCHANGED <<vars, decisionVars, gateVars, enforcerVars, tokenVars, httpVars, exportVars>>
     \/ /\ part = "gate" /\ Gate!Next
        /\ UNCHANGED <<vars, decisionVars, bridgeVars, enforcerVars, tokenVars, httpVars, exportVars>>
     \/ /\ part = "enforcer" /\ Enforce!Next
        /\ UNCHANGED <<vars, decisionVars, bridgeVars, gateVars, tokenVars, httpVars, exportVars>>
     \/ /\ part = "token" /\ Token!Next
        /\ UNCHANGED <<vars, decisionVars, bridgeVars, gateVars, enforcerVars, httpVars, exportVars>>
     \/ /\ part = "http" /\ Http!Next
        /\ UNCHANGED <<vars, decisionVars, bridgeVars, gateVars, enforcerVars, tokenVars, exportVars>>
     \/ /\ part = "export" /\ Export!Next
        /\ UNCHANGED <<vars, decisionVars, bridgeVars, gateVars, enforcerVars, tokenVars, httpVars>>

\* Timers fire: a middleware's and Envoy's while they wait for the daemon, and
\* those of the daemon's event loop, which also resumes what was awaited.
TimersFire ==
  /\ \/ part = "gate" /\ Gate!Timeout /\ UNCHANGED enforcerVars
     \/ part = "enforcer" /\ Enforce!LoopStep /\ UNCHANGED gateVars
  /\ UNCHANGED <<part, vars, decisionVars, bridgeVars, tokenVars, httpVars, exportVars>>

BoundarySpec ==
  /\ BoundaryInit
  /\ [][BoundaryNext]_<<part, vars, decisionVars, bridgeVars, gateVars, enforcerVars, tokenVars,
                        httpVars, exportVars>>
  /\ WF_<<gateVars, enforcerVars>>(TimersFire)

-----------------------------------------------------------------------------
\* The algorithms of guard, revocation, proof chain and time keeping compute
\* what they are for: glob_match, the revocation index and the calendar agree
\* with their definitions, and verify_chain accepts a list of events exactly
\* if it is the one that was chained.
AlgorithmsCorrect ==
  part = "decision" => Decision!AlgorithmsMatchReference /\ Decision!ChainBinds

\* A restriction added to a contract decides the queries it speaks of and no
\* others, whatever else the guard's contract says; and policy_engine permits
\* nothing but what the engine the hint names permits explicitly.
NothingByDefault ==
  part = "decision" => Decision!RestrictionsDecide /\ Decision!PermitIsExplicit

\* walk_chain grants no more than any link of a delegation, and stronger
\* evidence or a better posture never lowers compose_trust_level's result.
AuthorityNarrows ==
  part = "decision" => Decision!DelegationHolds /\ Decision!StrongerNeverWorse

\* verify_chain accepts a leaf only if genuine, current signatures lead from
\* it to a configured root; and what the WebAuthn and webhook bridges take is
\* what its signer signed.
CredentialsGenuine ==
  part = "bridge" => Bridge!ChainsLeadToRoot /\ Bridge!CredentialsUnaltered

\* What one side writes the other reads back: DER lengths and keys, serial
\* numbers of revoked certificates, base 58 keys, the XFCC header with its
\* quotes and escapes, and the first SPIFFE string of an Istio message.
BridgeEncodings == part = "bridge" => Bridge!EncodingsInvert

\* Two peers are given one name only where the code's spelling rules make
\* them the same, and a name leads back to its peer.
BridgeNames == part = "bridge" => Bridge!NamesIdentify

\* Handlers and upstreams see a request only when the daemon's answer to that
\* very request permits it; what is permitted is served and what is refused is
\* told so, with the status each protocol reserves for it.
GatesHold == part = "gate" => Gate!GateHolds /\ Gate!RefusalsTold

\* Who asks is answered.  A request that reaches a middleware or the Envoy
\* filter is, even when the daemon never speaks: their timeouts see to it.  In
\* the daemon a check that waits for an approver is, by the queue's timer, and
\* one that waits for a quorum once its ballot is decided.
CallersAnswered ==
  /\ (part = "gate" /\ Gate!Timed /\ phase = "asking") ~> (phase # "asking")
  /\ \A c \in Checks :
       (part = "enforcer" /\ Enforce!Owed(c)) ~> (part = "enforcer" => Enforce!Answered(c))

\* The daemon's enforcer answers a check with what it rests on, the guard, one
\* approver or a quorum, and who waits can be reached, although requests,
\* votes, timers and stop interleave and request ids may repeat.
ChecksRestOnApproval ==
  part = "enforcer" => Enforce!AnswersRest /\ Enforce!WaitersReachable

\* An accepted token or proof of possession is one the issuer or the bound
\* client made, entire, for us and in force, under a key that left the JWKS
\* endpoint no longer ago than a cached set lives; and such a token is not
\* refused, in whatever order fetches, rotations and callers interleave.
TokensVerify == part = "token" => Token!TokensHonoured /\ Token!ProofsOfPossession

\* send returns the body the server framed, entire, or an error, however the
\* bytes are cut into reads and wherever the connection ends; and it connects
\* where the URL says, with every reserved header exactly once.
HttpWhole == part = "http" => Http!ResponsesWhole

\* However scrapes fail and the daemon moves between their requests, what the
\* exporter shows agrees with the daemon's log.
MetricsAgree == part = "export" => Export!MetricsFaithful
=============================================================================
