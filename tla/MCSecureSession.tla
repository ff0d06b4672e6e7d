-------------------------- MODULE MCSecureSession --------------------------
(***************************************************************************)
(* The session over its two kinds of carrier, and the calls made over it.  *)
(* A behaviour follows one part: datagrams, which the constants of the     *)
(* configuration describe (frames lost, repeated and reordered, both ends  *)
(* rekeying), an ordered byte stream on which one end rekeys, or a call    *)
(* (RpcCall), of which SecureSession's frames are the carrier.  Where no   *)
(* call is followed its variables have no value.                           *)
(***************************************************************************)
EXTENDS SecureSession

CONSTANTS Kind, MaxIn, MaxOut

VARIABLES part,
          call, up, toServer, toClient, pending, nextSeq, got, end, pushed,
          pumpEnd, task, pipe, raw, input, inputEnd, reading, emitted, lost

Stream == INSTANCE SecureSession WITH
    Ordered <- TRUE, Retransmit <- FALSE, Rekeyers <- {"initiator"}, MaxData <- 3
Rpc == INSTANCE RpcCall

rpcVars == <<call, up, toServer, toClient, pending, nextSeq, got, end, pushed,
             pumpEnd, task, pipe, raw, input, inputEnd, reading, emitted, lost>>

Without(v) == v = "absent"
NoCall ==
    /\ Without(call) /\ Without(up) /\ Without(toServer) /\ Without(toClient)
    /\ Without(pending) /\ Without(nextSeq) /\ Without(got) /\ Without(end)
    /\ Without(pushed) /\ Without(pumpEnd) /\ Without(task) /\ Without(pipe)
    /\ Without(raw) /\ Without(input) /\ Without(inputEnd) /\ Without(reading)
    /\ Without(emitted) /\ Without(lost)

MCInit ==
    \/ part = "datagrams" /\ Init /\ NoCall
    \/ part = "stream" /\ Stream!Init /\ NoCall
    \/ part = "call" /\ Init /\ Rpc!Init

MCNext ==
    /\ UNCHANGED part
    /\ \/ part = "datagrams" /\ Next /\ UNCHANGED rpcVars
       \/ part = "stream" /\ Stream!Next /\ UNCHANGED rpcVars
       \/ part = "call" /\ Rpc!Next /\ UNCHANGED vars

OnStream(A) == part = "stream" /\ A /\ UNCHANGED <<part, rpcVars>>
OnCall(A) == part = "call" /\ A /\ UNCHANGED <<part, vars>>

\* The loop at each end of a stream polls it; datagrams may never arrive, and
\* nobody is obliged to send, rekey or close.  The runtime polls the tasks of
\* a call, and a handler returns once its input has ended or it has stopped
\* reading it; callers, and the carrier, need not do anything.
MCSpec ==
    /\ MCInit /\ [][MCNext]_<<part, vars, rpcVars>>
    /\ \A e \in Role : WF_vars(OnStream(Stream!Receive(e)))
    /\ WF_rpcVars(OnCall(Rpc!ClientListener)) /\ WF_rpcVars(OnCall(Rpc!ServerListener))
    /\ WF_rpcVars(OnCall(Rpc!DispatchStarts)) /\ WF_rpcVars(OnCall(Rpc!PipePump))
    /\ WF_rpcVars(OnCall(Rpc!InputOver /\ Rpc!HandlerReturns(TRUE)))

-----------------------------------------------------------------------------
\* On a stream rotate_keys keeps the two ends together: they are never more
\* than one rotation apart, the one behind awaits an ack, and ends of one
\* generation hold each other's keys.  A frame fails to open only once its
\* sender has closed (a close sent while an ack is awaited meets a rotated
\* peer).
StreamKeysAgree ==
    part = "stream" => Stream!KeysAgree /\ Stream!NoDecryptFailure

\* On a stream a requested rekey completes and what was sent with encrypt
\* arrives, unless an end closes the session.
StreamProgress ==
    \A e \in Role :
        /\ part = "stream" /\ sess[e].pending # NoRekey ~>
              \/ sess[e].pending = NoRekey
              \/ \E d \in Role : stopped[d] = "closed"
        /\ \A n \in 1..3 :
              part = "stream" /\ Len(SentBy(e)) >= n ~>
                  \/ Len(rcvd[Peer(e)]) >= n
                  \/ \E d \in Role : stopped[d] = "closed"

\* What the two ends of a call hand over is what the other end gave them: the
\* client's stream without gaps and never out of step, a bulk transfer that
\* succeeds entire, and the handler's input contiguous, although frames that
\* come before the pipe is there are dropped.
CallFaithful ==
    part = "call" =>
        /\ Rpc!NoSeqMismatch /\ Rpc!StreamFaithful
        /\ Rpc!BulkComplete /\ Rpc!InputContiguous

\* A call is settled once: after its end nothing changes what its caller saw,
\* although frames of the call keep arriving (unsubscribed after the end).
SettledOnce == [][part = "call" /\ Rpc!Settled => UNCHANGED <<got, end>>]_rpcVars

\* A call whose caller has ended its input is settled, unless the carrier or
\* the handler died, or the end of the input was dropped for want of a pipe.
CallSettles ==
    (part = "call" /\ Rpc!Awaited) ~> (part = "call" => Rpc!Settled \/ Rpc!Excused)
=============================================================================
