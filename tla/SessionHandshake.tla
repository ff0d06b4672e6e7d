-------------------------- MODULE SessionHandshake --------------------------
(***************************************************************************)
(* The three-message handshake of crates/tf-types/src/session.rs: any      *)
(* number of Initiator and Responder objects and a network that may lose,  *)
(* repeat, reorder and misdeliver messages, but not make them up.          *)
(*                                                                         *)
(* Cryptography is symbolic: a signature names its signer and the messages *)
(* it covers, so it verifies under an identity exactly if that identity    *)
(* signed exactly the messages the verifier has; a Diffie-Hellman secret   *)
(* is the set of the two ephemerals.  Ephemerals and session ids are drawn *)
(* fresh, and one number stands for both.                                  *)
(***************************************************************************)
EXTENDS Naturals, Sequences, FiniteSets, SequencesExt

CONSTANTS I,            \* Initiator objects
          R,            \* Responder objects
          cfg,          \* SessionConfig of each: see Config
          MaxEph        \* bound: ephemerals ever drawn

Suite == {"classic", "hybrid"}

\* cfg \in [I \cup R -> Config], I and R disjoint.  ident: the identity key; version: SESSION_VERSION of the build; preferred
\* and supported: the suites; offers: is supported_suites sent (older peers
\* send only suite); pq: are ML-DSA keys configured.
Config == [ident: STRING, version: {0, 1}, preferred: Suite,
           supported: Seq(Suite), offers: BOOLEAN, pq: BOOLEAN]

VARIABLES st,           \* the state enum of each object
          msgs,         \* every message ever sent
          derived,      \* every session ever derived, with its owner
          nextEph

vars == <<st, msgs, derived, nextEph>>

Fresh == [at |-> "fresh"]
None == "none"

\* A signature by an identity over a transcript.
Signature(by, over) == [by |-> by, over |-> over]
Verifies(ident, over, sig) == sig = Signature(ident, over)

\* Every object draws the same ephemeral.
FreshEphReused == 1

\* make_ephemeral: never drawn before.
FreshEph == nextEph

\* Both signatures are dropped from what is signed.
Unsigned(m) == [m EXCEPT !.sig = None, !.pqSig = None]

\* SessionState::derive_with_claim: what the keys depend on.
SessionOf(owner, peer, secret, id, transcript, suite) ==
    [owner |-> owner, peer |-> peer, suite |-> suite,
     keys |-> <<secret, id, transcript>>]

Init ==
    /\ st = [x \in I \cup R |-> Fresh]
    /\ msgs = {}
    /\ derived = {}
    /\ nextEph = 1

-----------------------------------------------------------------------------
(* Initiator                                                               *)

\* supported_suites with the preferred one moved to the front.
Offer(c) == <<c.preferred>> \o SelectSeq(c.supported, LAMBDA s : s # c.preferred)

Start(i) ==
    LET c == cfg[i]
        hello == [type |-> "HelloI", version |-> c.version,
                  suite |-> c.preferred,
                  supported |-> IF c.offers THEN Offer(c) ELSE <<>>,
                  eph |-> FreshEph] IN
    /\ st[i] = Fresh
    /\ nextEph <= MaxEph
    /\ nextEph' = nextEph + 1
    /\ st' = [st EXCEPT ![i] = [at |-> "awaiting-hello-r", helloI |-> hello]]
    /\ msgs' = msgs \cup {hello}
    /\ UNCHANGED derived

\* The checks of process_hello_r on a HelloR, and on this side's own keys.
HelloROk(i, m) ==
    LET over == <<st[i].helloI, Unsigned(m)>> IN
    /\ Verifies(m.ident, over, m.sig)
    /\ m.suite = "hybrid" => /\ Verifies(m.ident, over, m.pqSig)
                             /\ cfg[i].pq

AuthFor(i, m) ==
    LET unsigned == [type |-> "Auth", ident |-> cfg[i].ident,
                     pqSig |-> None, sig |-> None]
        sig == Signature(cfg[i].ident, <<st[i].helloI, m, unsigned>>) IN
    [unsigned EXCEPT !.sig = sig,
                     !.pqSig = IF m.suite = "hybrid" THEN sig ELSE None]

\* The state is taken out first: any failure leaves the Initiator Fresh.
ProcessHelloR(i, m) ==
    LET auth == AuthFor(i, m)
        session == SessionOf(i, m.ident, {st[i].helloI.eph, m.eph},
                             st[i].helloI.eph,
                             <<st[i].helloI, m, Unsigned(auth)>>, m.suite) IN
    /\ m.type = "HelloR"
    /\ \/ /\ st[i].at = "awaiting-hello-r"
          /\ HelloROk(i, m)
          /\ st' = [st EXCEPT ![i] = [at |-> "established", session |-> session]]
          /\ msgs' = msgs \cup {auth}
          /\ derived' = derived \cup {session}
       \/ /\ st[i].at = "awaiting-hello-r" => ~HelloROk(i, m)
          /\ st[i] # Fresh
          /\ st' = [st EXCEPT ![i] = Fresh]
          /\ UNCHANGED <<msgs, derived>>
    /\ UNCHANGED nextEph

-----------------------------------------------------------------------------
(* Responder                                                               *)

\* The suites of a HelloI that the responder supports, in the initiator's
\* order.
Mutual(r, m) ==
    SelectSeq(IF m.supported = <<>> THEN <<m.suite>> ELSE m.supported,
              LAMBDA s : s \in ToSet(cfg[r].supported))

Chosen(r, m) == Head(Mutual(r, m))

\* A refused HelloI leaves the Responder as it is.
ProcessHelloI(r, m) ==
    LET suite == Chosen(r, m)
        unsigned == [type |-> "HelloR", eph |-> FreshEph,
                     ident |-> cfg[r].ident, suite |-> suite,
                     pqSig |-> None, sig |-> None]
        sig == Signature(cfg[r].ident, <<m, unsigned>>)
        hello == [unsigned EXCEPT
                    !.sig = sig,
                    !.pqSig = IF suite = "hybrid" THEN sig ELSE None] IN
    /\ m.type = "HelloI"
    /\ st[r] = Fresh
    /\ m.version = cfg[r].version
    /\ Mutual(r, m) # <<>>
    /\ suite = "hybrid" => cfg[r].pq
    /\ nextEph <= MaxEph
    /\ nextEph' = nextEph + 1
    /\ st' = [st EXCEPT ![r] = [at |-> "awaiting-auth", helloI |-> m,
                                helloR |-> hello]]
    /\ msgs' = msgs \cup {hello}
    /\ UNCHANGED derived

\* The signature is not tied to this handshake's messages.
AuthOkUnbound(r, m) == m.sig.by = m.ident

AuthOk(r, m) ==
    LET over == <<st[r].helloI, st[r].helloR, Unsigned(m)>> IN
    /\ Verifies(m.ident, over, m.sig)
    /\ st[r].helloR.suite = "hybrid" => Verifies(m.ident, over, m.pqSig)

\* As on the other side, any failure leaves the Responder Fresh.
ProcessAuth(r, m) ==
    LET session == SessionOf(r, m.ident, {st[r].helloI.eph, st[r].helloR.eph},
                             st[r].helloI.eph,
                             <<st[r].helloI, st[r].helloR, Unsigned(m)>>,
                             st[r].helloR.suite) IN
    /\ m.type = "Auth"
    /\ \/ /\ st[r].at = "awaiting-auth"
          /\ AuthOk(r, m)
          /\ st' = [st EXCEPT ![r] = [at |-> "established", session |-> session]]
          /\ derived' = derived \cup {session}
       \/ /\ st[r].at = "awaiting-auth" => ~AuthOk(r, m)
          /\ st[r] # Fresh
          /\ st' = [st EXCEPT ![r] = Fresh]
          /\ UNCHANGED derived
    /\ UNCHANGED <<msgs, nextEph>>

-----------------------------------------------------------------------------
Next ==
    \/ \E i \in I : Start(i)
    \/ \E i \in I, m \in msgs : ProcessHelloR(i, m)
    \/ \E r \in R, m \in msgs : ProcessHelloI(r, m)
    \/ \E r \in R, m \in msgs : ProcessAuth(r, m)

Spec == Init /\ [][Next]_vars

-----------------------------------------------------------------------------
TypeOK ==
    /\ \A x \in I : st[x].at \in {"fresh", "awaiting-hello-r", "established"}
    /\ \A x \in R : st[x].at \in {"fresh", "awaiting-auth", "established"}
    /\ \A m \in msgs : \/ m.type \in {"HelloI", "HelloR"} /\ m.eph \in 1..(nextEph - 1)
                       \/ m.type = "Auth"
    /\ \A s \in derived : s.owner \in I \cup R /\ s.suite \in Suite
    /\ nextEph \in 1..(MaxEph + 1)

\* A responder that completes shares its keys with an initiator that completed
\* with it: each names the other's identity and both settled on one suite,
\* whatever was replayed or misdelivered (process_auth, process_hello_r).
Agreement ==
    \A s \in derived : s.owner \in R =>
        \E t \in derived :
            /\ t.owner \in I
            /\ t.keys = s.keys
            /\ t.suite = s.suite
            /\ s.peer = cfg[t.owner].ident
            /\ t.peer = cfg[s.owner].ident

\* An initiator that completed is not left alone: the responder that still
\* waits on the same HelloR accepts an Auth that was sent, so it also has this
\* initiator's HelloI (process_hello_r binds HelloR to it).
HalfOpenCompletes ==
    \A s \in derived, r \in R :
        /\ s.owner \in I
        /\ st[r].at = "awaiting-auth"
        /\ st[r].helloR = s.keys[3][2]
        => \E m \in msgs : m.type = "Auth" /\ AuthOk(r, m)

\* The objects this step establishes with keys their side has had before.
Revives ==
    {x \in I \cup R :
        /\ st[x].at # "established"
        /\ st'[x].at = "established"
        /\ \E s \in derived : /\ s.keys = st'[x].session.keys
                              /\ (s.owner \in I) = (x \in I)}

\* The suite of a session is the first of the initiator's order that the
\* responder supports, and a hybrid one means both sides hold ML-DSA keys.
SuiteNegotiated ==
    \A s, t \in derived :
        s.keys = t.keys /\ s.owner \in I /\ t.owner \in R =>
            LET c == cfg[s.owner]
                offered == IF c.offers THEN Offer(c) ELSE <<c.preferred>>
                good == SelectSeq(offered, LAMBDA u : u \in ToSet(cfg[t.owner].supported))
            IN  /\ s.suite = Head(good)
                /\ s.suite = "hybrid" => c.pq /\ cfg[t.owner].pq
=============================================================================
