------------------------------ MODULE RpcCall ------------------------------
(***************************************************************************)
(* One call of the ProofRPC runtime of crates/tf-types/src/rpc.rs, from    *)
(* RpcClient through an ordered carrier (see OrderedChannel) to RpcServer, *)
(* its dispatcher and the application's handler, and back.  Calls are kept *)
(* apart by a random call_id in every map and share only the carrier, so   *)
(* one call stands for each of many; its kind, whether the method is       *)
(* registered and what the enforcer says are chosen at the start.          *)
(*                                                                         *)
(* The tasks are: the caller with the client's pump, the two carrier       *)
(* listeners, the dispatcher that the listener spawns, and the pump from   *)
(* the in-flight table to the handler.  The channel from a handler to its  *)
(* dispatcher loop has one reader, which forwards every item in order, so  *)
(* emitting and forwarding are one step.                                   *)
(***************************************************************************)
EXTENDS Naturals, Integers, Sequences, SequencesExt

CONSTANTS Kind,         \* the method kinds considered
          MaxIn,        \* bound: values the caller pushes
          MaxOut        \* bound: values the handler emits

Streaming == {"server-stream", "subscribe", "bidi", "command-channel",
              "remote-shell", "agent-session", "http-bridge"}
Piped == {"client-stream", "bidi", "command-channel", "bulk-transfer",
          "telemetry", "remote-shell", "agent-session", "http-bridge"}
\* Kinds whose input, and whose output, can carry an error item.
InputErrs == {"client-stream", "bidi", "command-channel", "telemetry"}
OutputErrs == Streaming \ {"remote-shell", "agent-session", "http-bridge"}

VARIABLES call,         \* the call: kind, known (registered), allowed
          up,           \* is the carrier alive?
          toServer, toClient,
          pending,      \* the client's entry for the call
          nextSeq,      \* its stream counter
          got, end,     \* what the caller has received, and how it ended
          pushed,       \* number of values the client's pump has sent
          pumpEnd,      \* how the caller ended its input
          task,         \* the server's dispatcher
          pipe,         \* is the call in the in-flight table?
          raw,          \* messages routed to it, not yet pumped
          input,        \* values handed to the handler
          inputEnd,     \* how they ended: "dropped" when it stopped reading
          reading,      \* does the handler still hold its input's receiver?
          emitted,      \* number of values the handler has emitted
          lost          \* client-stream frames dropped for want of a pipe

client == <<pending, nextSeq, got, end>>
caller == <<pushed, pumpEnd>>
handler == <<input, inputEnd, reading, emitted>>
vars == <<call, up, toServer, toClient, client, caller, task, pipe, raw,
          handler, lost>>

CallFrame == [type |-> "call", value |-> 0]
Item(v) == [type |-> "value", value |-> v]
EndItem(how) == [type |-> how, value |-> 0]
Response(ok) == [type |-> "response", seq |-> 0, more |-> FALSE, err |-> ~ok]
Stream(seq, more, err) ==
    [type |-> "stream", seq |-> seq, more |-> more, err |-> err]

Init ==
    /\ call \in [kind: Kind, known: BOOLEAN, allowed: BOOLEAN]
    /\ up = TRUE
    /\ toServer = <<>> /\ toClient = <<>>
    /\ pending = "none" /\ nextSeq = 0 /\ got = <<>> /\ end = "idle"
    /\ pushed = 0 /\ pumpEnd = "open"
    /\ task = "none" /\ pipe = FALSE /\ raw = <<>>
    /\ input = <<>> /\ inputEnd = "open" /\ reading = TRUE /\ emitted = 0
    /\ lost = <<>>

-----------------------------------------------------------------------------
(* The client                                                              *)

\* call_raw, server_stream_raw, ...: the entry is made before the frame goes.
Call ==
    /\ end = "idle"
    /\ end' = "open"
    /\ pending' = IF call.kind \in Streaming THEN "stream" ELSE "unary"
    /\ toServer' = Append(toServer, CallFrame)
    /\ UNCHANGED <<call, up, toClient, nextSeq, got, caller, task, pipe, raw,
                   handler, lost>>

SendItem(item) == toServer' = Append(toServer, item)

SendValue ==
    /\ pushed < MaxIn
    /\ pushed' = pushed + 1
    /\ SendItem(Item(pushed + 1))
    /\ UNCHANGED pumpEnd

SendEnd(how) ==
    /\ pumpEnd' = how
    /\ SendItem(EndItem(how))
    /\ UNCHANGED pushed

\* Values, then the end of the channel or an error the caller put in it.
ResultPump ==
    /\ call.kind \in InputErrs
    /\ SendValue \/ SendEnd("done") \/ SendEnd("error")

\* Exactly the chunks of the transfer, then the end.
BulkPump ==
    /\ call.kind = "bulk-transfer"
    /\ SendValue \/ (pushed = MaxIn /\ SendEnd("done"))

\* Values and the end; an http-bridge, which has no client in this crate, is
\* taken to be called the same way.
PlainPump ==
    /\ call.kind \in {"remote-shell", "agent-session", "http-bridge"}
    /\ SendValue \/ SendEnd("done")

\* The pump task of a call with client-side values.
PumpSends ==
    /\ end # "idle"
    /\ pumpEnd = "open"
    /\ ResultPump \/ BulkPump \/ PlainPump
    /\ UNCHANGED <<call, up, toClient, client, task, pipe, raw, handler, lost>>

\* An rpc-response: the entry is removed whatever it is, and only a unary one
\* hears the result; the receiver of a stream just ends.
ReceiveResponse(f) ==
    /\ f.type = "response"
    /\ pending' = "none"
    /\ end' = CASE pending = "unary" -> IF f.err THEN "error" ELSE "ok"
                [] pending = "stream" -> "closed"
                [] pending = "none" -> end
    /\ UNCHANGED <<nextSeq, got>>

\* A terminal frame does not remove the entry.
ReceiveStreamKeepsEntry(f) ==
    /\ f.type = "stream"
    /\ IF pending # "stream" THEN UNCHANGED client
       ELSE IF f.seq < 0 THEN
            /\ end' = IF f.more THEN end ELSE "closed"
            /\ UNCHANGED <<pending, nextSeq, got>>
       ELSE /\ nextSeq' = nextSeq + 1
            /\ end' = IF f.more THEN end ELSE IF f.err THEN "error" ELSE "closed"
            /\ got' = IF f.more THEN Append(got, f.seq + 1) ELSE got
            /\ UNCHANGED pending

\* An rpc-stream frame: ignored unless the entry is a stream; acks ride on a
\* negative number, and only a closing one has an effect; a wrong number ends
\* the stream with an error.
ReceiveStream(f) ==
    /\ f.type = "stream"
    /\ IF pending # "stream" THEN UNCHANGED client
       ELSE IF f.seq < 0 THEN
            /\ pending' = IF f.more THEN pending ELSE "none"
            /\ end' = IF f.more THEN end ELSE "closed"
            /\ UNCHANGED <<nextSeq, got>>
       ELSE IF f.seq # nextSeq THEN
            pending' = "none" /\ end' = "mismatch" /\ UNCHANGED <<nextSeq, got>>
       ELSE /\ nextSeq' = nextSeq + 1
            /\ pending' = IF f.more THEN pending ELSE "none"
            /\ end' = IF f.more THEN end ELSE IF f.err THEN "error" ELSE "closed"
            /\ got' = IF f.more THEN Append(got, f.seq + 1) ELSE got

ClientListener ==
    /\ up /\ toClient # <<>>
    /\ toClient' = Tail(toClient)
    /\ ReceiveResponse(Head(toClient)) \/ ReceiveStream(Head(toClient))
    /\ UNCHANGED <<call, up, toServer, caller, task, pipe, raw, handler, lost>>

-----------------------------------------------------------------------------
(* The server                                                              *)

\* An rpc-call: an unknown method is always answered with a response, a
\* denied one in the form of its kind, an allowed one spawns its dispatcher.
AcceptCall ==
    /\ Head(toServer).type = "call"
    /\ \/ /\ ~call.known
          /\ toClient' = Append(toClient, Response(FALSE))
          /\ UNCHANGED task
       \/ /\ call.known /\ ~call.allowed
          /\ toClient' = Append(toClient,
                IF call.kind \in Streaming THEN Stream(0, FALSE, TRUE)
                                           ELSE Response(FALSE))
          /\ UNCHANGED task
       \/ /\ call.known /\ call.allowed
          /\ task' = "spawned"
          /\ UNCHANGED toClient
    /\ UNCHANGED <<raw, lost>>

\* Each frame is routed by a task of its own, which may overtake another.
RouteItemUnordered ==
    /\ Head(toServer).type # "call"
    /\ IF pipe THEN raw' \in {Append(raw, Head(toServer)), <<Head(toServer)>> \o raw}
                    /\ UNCHANGED lost
               ELSE lost' = Append(lost, Head(toServer)) /\ UNCHANGED raw
    /\ UNCHANGED <<toClient, task>>

\* An rpc-client-stream frame goes to the call's pipe, if there is one.
RouteItem ==
    /\ Head(toServer).type # "call"
    /\ IF pipe THEN raw' = Append(raw, Head(toServer)) /\ UNCHANGED lost
               ELSE lost' = Append(lost, Head(toServer)) /\ UNCHANGED raw
    /\ UNCHANGED <<toClient, task>>

ServerListener ==
    /\ up /\ toServer # <<>>
    /\ toServer' = Tail(toServer)
    /\ AcceptCall \/ RouteItem
    /\ UNCHANGED <<call, up, client, caller, pipe, handler>>

\* A subscription is acknowledged, a command channel given its credit.
OpeningAck ==
    IF call.kind \in {"subscribe", "command-channel"}
    THEN <<Stream(-1, TRUE, FALSE)>> ELSE <<>>

\* The dispatcher's first poll: install the pipe, send the opening ack, start
\* the handler.
DispatchStarts ==
    /\ task = "spawned"
    /\ task' = "running"
    /\ pipe' = (call.kind \in Piped)
    /\ toClient' = toClient \o OpeningAck
    /\ UNCHANGED <<call, up, toServer, client, caller, raw, handler, lost>>

HandOver(m) == input' = Append(input, m.value) /\ UNCHANGED <<inputEnd, pipe>>

EndInput(how) == inputEnd' = how /\ UNCHANGED <<input, pipe>>

\* Values, and an error as one; it stops when nobody reads any more.
ResultPipe(m) ==
    /\ call.kind \in InputErrs
    /\ CASE m.type # "value" -> EndInput(m.type)
         [] m.type = "value" /\ reading -> HandOver(m)
         [] m.type = "value" /\ ~reading -> EndInput("dropped")

\* A chunk is collected before it is handed on, read or not.
BulkPipe(m) ==
    /\ call.kind = "bulk-transfer"
    /\ CASE m.type # "value" -> EndInput("done")
         [] m.type = "value" /\ reading -> HandOver(m)
         [] m.type = "value" /\ ~reading ->
              /\ input' = Append(input, m.value)
              /\ inputEnd' = "dropped"
              /\ UNCHANGED pipe

\* An error is an end like any other.
PlainPipe(m) ==
    /\ call.kind \in {"remote-shell", "agent-session"}
    /\ CASE m.type # "value" -> EndInput("done")
         [] m.type = "value" /\ reading -> HandOver(m)
         [] m.type = "value" /\ ~reading -> EndInput("dropped")

\* Goes on when nobody reads, and removes the in-flight entry at the end.
HttpPipe(m) ==
    /\ call.kind = "http-bridge"
    /\ IF m.type # "value"
       THEN inputEnd' = "done" /\ pipe' = FALSE /\ UNCHANGED input
       ELSE HandOver(m)

PipePump ==
    /\ task = "running" /\ raw # <<>> /\ inputEnd = "open"
    /\ raw' = Tail(raw)
    /\ \/ ResultPipe(Head(raw)) \/ BulkPipe(Head(raw))
       \/ PlainPipe(Head(raw)) \/ HttpPipe(Head(raw))
    /\ UNCHANGED <<call, up, toServer, toClient, client, caller, task,
                   reading, emitted, lost>>

-----------------------------------------------------------------------------
(* The handler and the end of its dispatcher                               *)

HandlerEmits ==
    /\ task = "running" /\ call.kind \in Streaming /\ emitted < MaxOut
    /\ emitted' = emitted + 1
    /\ toClient' = Append(toClient, Stream(emitted, TRUE, FALSE))
    /\ UNCHANGED <<call, up, toServer, client, caller, task, pipe, raw, input,
                   inputEnd, reading, lost>>

\* The handler may drop its input's receiver and go on.
HandlerStopsReading ==
    /\ task = "running" /\ call.kind \in Piped /\ reading
    /\ reading' = FALSE
    /\ UNCHANGED <<call, up, toServer, toClient, client, caller, task, pipe,
                   raw, input, inputEnd, emitted, lost>>

\* The hash the client announced is that of all its chunks.
HashMatches == input = [k \in 1..MaxIn |-> k]

\* The end of the server-stream loop, which bidi and command-channel share.
StreamEnd(ok) == <<Stream(emitted, FALSE, ~ok)>>

\* A shell, an agent session and an http-bridge have no error to send.
PlainEnd == <<Stream(emitted, FALSE, FALSE)>>

\* A subscription has a closing ack after its last frame.
SubscribeEnd(ok) == StreamEnd(ok) \o <<Stream(-1, FALSE, FALSE)>>

\* A transfer whose hash differs is dropped without an answer.
BulkEndSilent(ok) ==
    IF ok /\ ~HashMatches THEN <<>> ELSE <<Response(ok)>>

\* A transfer the handler accepted fails when the hash differs.
BulkEnd(ok) == <<Response(ok /\ HashMatches)>>

Farewell(ok) ==
    CASE call.kind = "subscribe" -> SubscribeEnd(ok)
      [] call.kind \in OutputErrs \ {"subscribe"} -> StreamEnd(ok)
      [] call.kind \in Streaming \ OutputErrs -> PlainEnd
      [] call.kind = "bulk-transfer" -> BulkEnd(ok)
      [] OTHER -> <<Response(ok)>>

\* The handler returns (a stream's handler drops its sender, or sends an
\* error): the frames go out and the pipe is removed.
HandlerReturns(ok) ==
    /\ task = "running"
    /\ ~ok => call.kind \in OutputErrs \/ call.kind \notin Streaming
    /\ task' = "over"
    /\ pipe' = FALSE
    /\ toClient' = toClient \o Farewell(ok)
    /\ UNCHANGED <<call, up, toServer, client, caller, raw, handler, lost>>

\* A handler the dispatcher awaits takes it down with it, and so does one of
\* a stream that panics before it returns its future; that future runs on its
\* own, and when it panics the dispatcher sees the sender dropped.
HandlerPanics ==
    /\ task = "running"
    /\ \/ /\ call.kind \in Streaming
          /\ task' = "over"
          /\ pipe' = FALSE
          /\ toClient' = toClient \o Farewell(TRUE)
       \/ /\ call.kind \in Streaming => emitted = 0
          /\ task' = "dead"
          /\ UNCHANGED <<pipe, toClient>>
    /\ UNCHANGED <<call, up, toServer, client, caller, raw, handler, lost>>

\* The carrier goes away; nothing tells the client's entries.
CarrierCloses ==
    /\ up
    /\ up' = FALSE
    /\ UNCHANGED <<call, toServer, toClient, client, caller, task, pipe, raw,
                   handler, lost>>

-----------------------------------------------------------------------------
Next ==
    \/ Call \/ PumpSends \/ ClientListener \/ ServerListener \/ DispatchStarts
    \/ PipePump \/ HandlerEmits \/ HandlerStopsReading \/ HandlerPanics \/ CarrierCloses
    \/ \E ok \in BOOLEAN : HandlerReturns(ok)

Spec == Init /\ [][Next]_vars

InputOver == call.kind \in Piped => inputEnd # "open" \/ ~reading

-----------------------------------------------------------------------------
TypeOK ==
    /\ pending \in {"none", "unary", "stream"}
    /\ end \in {"idle", "open", "ok", "error", "closed", "mismatch"}
    /\ task \in {"none", "spawned", "running", "over", "dead"}
    /\ inputEnd \in {"open", "done", "error", "dropped"}
    /\ pumpEnd \in {"open", "done", "error"}
    /\ nextSeq \in 0..(MaxOut + 1)
    /\ emitted \in 0..MaxOut
    /\ pushed \in 0..MaxIn

\* Over an ordered carrier the client's "stream seq mismatch" is never hit:
\* acknowledgements, errors and ends all keep the numbering.
NoSeqMismatch == end # "mismatch"

\* A stream hands its caller what the handler emitted, in order and without
\* gaps; one that ends without an error has handed over all of it, once the
\* handler was done.  (For an unknown method it ends without any.)
StreamFaithful ==
    /\ got = [k \in 1..Len(got) |-> k]
    /\ Len(got) <= emitted
    /\ end = "closed" /\ call.known => task = "over" /\ Len(got) = emitted

\* The caller has seen the end of its call.
Settled == end \notin {"idle", "open"}

\* A bulk transfer that succeeds has brought every chunk, in order, to the
\* server, although chunks that come before the pipe is there are dropped.
BulkComplete ==
    call.kind = "bulk-transfer" /\ end = "ok" => input = [k \in 1..MaxIn |-> k]

\* The handler's input has no gap, repetition or reordering: what is missing
\* is missing from its front.
InputContiguous ==
    \A k \in 1..(Len(input) - 1) : input[k + 1] = input[k] + 1

\* Its caller has ended its input and waits.
Awaited == end = "open" /\ (call.kind \in Piped => pumpEnd # "open")
\* The carrier or the handler died, or the end of the input was dropped for
\* want of a pipe.
Excused == ~up \/ task = "dead" \/ \E k \in DOMAIN lost : lost[k].type # "value"

\* "The handler receives the initial `request` plus every value the caller
\* pushes through `requests_rx`", client_stream_raw.
EveryValueReceived ==
    call.kind = "client-stream" /\ inputEnd = "done" => Len(input) = pushed
=============================================================================
