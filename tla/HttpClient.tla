------------------------------ MODULE HttpClient ------------------------------
(***************************************************************************)
(* The HTTP/1.1 client of tf-transport/src/lib.rs: one request per         *)
(* connection, the response read piece by piece until it is complete, the  *)
(* server closes, the size cap is passed or the caller's timeout expires.  *)
(* A response is a sequence of tokens; "nl" is CR LF, and the byte "0" of  *)
(* a body is also what a last chunk's size looks like.                     *)
(***************************************************************************)
EXTENDS Integers, Sequences, FiniteSets, SequencesExt

CONSTANTS
  MaxBody,     \* longest body of a response
  MaxResponse  \* max_response_bytes, in tokens

VARIABLES
  response,   \* what the server means to send: its head and its body
  wire,       \* the tokens it sends
  got,        \* how many of them have arrived
  ended,      \* the server has closed the connection
  outcome     \* <<>> while reading; <<"ok", body>>, <<"error">> (malformed),
              \* <<"cap">> or <<"timeout">>

vars == <<response, wire, got, ended, outcome>>

Bytes == {"0", "nl"}
SizeOf == [t \in {"0", "1", "2", "3"} |->
             CASE t = "0" -> 0 [] t = "1" -> 1 [] t = "2" -> 2 [] t = "3" -> 3]
TokenOf(n) == CHOOSE t \in DOMAIN SizeOf : SizeOf[t] = n
LengthOf == [h \in {"length1", "length2"} |-> IF h = "length1" THEN 1 ELSE 2]
\* Header lines: the framing ones, "gzip+chunked" (chunked last), "chunked+gzip"
\* (chunked not last), any other, and lines the parser refuses.
HeaderLines == DOMAIN LengthOf \cup {"chunked", "gzip+chunked", "chunked+gzip", "plain", "no colon"}
Bodies == UNION {[1..n -> Bytes] : n \in 0..MaxBody}

\* What servers send: the head, then the body as the head's framing has it.
Chunks(body, cut) ==
  LET Chunk(s) == IF s = <<>> THEN <<>> ELSE <<TokenOf(Len(s)), "nl">> \o s \o <<"nl">>
  IN Chunk(SubSeq(body, 1, cut)) \o Chunk(SubSeq(body, cut + 1, Len(body)))
Chunked(headers) == \E i \in 1..Len(headers) : headers[i] \in {"chunked", "gzip+chunked"}
Sent(r) ==
  <<r.status>> \o FoldLeft(LAMBDA s, h : s \o <<"nl", h>>, <<>>, r.headers) \o <<"nl", "nl">>
    \o IF Chunked(r.headers)
       THEN Chunks(r.body, r.cut) \o <<"0", "nl">> \o r.trailer \o <<"nl">>
       ELSE r.body

-----------------------------------------------------------------------------
\* find_header_end: the position after the first empty line, 0 when none.
find_header_end(raw) ==
  LET ends == {i \in 1..(Len(raw) - 1) : raw[i] = "nl" /\ raw[i + 1] = "nl"}
  IN IF ends = {} THEN 0 ELSE 1 + CHOOSE i \in ends : \A j \in ends : i <= j

Lines(raw) == SelectSeq(SubSeq(raw, 2, find_header_end(raw)), LAMBDA t : t # "nl")

\* response_framing: the declared lengths (all must agree), chunked or not;
\* "malformed" when a line has no colon, chunked is not the last coding, or
\* both are there.
response_framing(raw) ==
  LET lines == ToSet(Lines(raw))
      lengths == {LengthOf[h] : h \in lines \cap DOMAIN LengthOf}
      chunked == lines \cap {"chunked", "gzip+chunked"} # {}
  IN [malformed |-> \/ lines \cap {"no colon", "chunked+gzip"} # {}
                    \/ Cardinality(lengths) > 1
                    \/ chunked /\ lengths # {},
      length |-> lengths, chunked |-> chunked]

Incomplete == <<"error">>

\* decode_chunked: <<"ok", body>>, or an error while any part is missing; what
\* follows the last chunk's first line end is not looked at.
RECURSIVE decode_chunked(_, _)
decode_chunked(rest, out) ==
  LET nls == {i \in 1..Len(rest) : rest[i] = "nl"}
      line == CHOOSE i \in nls : \A j \in nls : i <= j
      size == SizeOf[rest[1]]
      after == SubSeq(rest, line + 1, Len(rest))
  IN IF nls = {} \/ line # 2 \/ rest[1] \notin DOMAIN SizeOf THEN Incomplete
     ELSE IF size = 0
     THEN IF "nl" \in ToSet(after) THEN <<"ok", out>> ELSE Incomplete
     ELSE IF Len(after) < size + 1 \/ after[size + 1] # "nl" THEN Incomplete
     ELSE decode_chunked(SubSeq(after, size + 2, Len(after)), out \o SubSeq(after, 1, size))

\* Stop at the first thing in the input that looks like a last chunk.
ScansForLastChunk(raw) ==
  LET end == find_header_end(raw)
      framing == response_framing(raw)
      body == SubSeq(raw, end + 1, Len(raw))
  IN /\ end # 0
     /\ \/ \E n \in framing.length : Len(raw) >= end + n
        \/ framing.chunked /\ \E i \in 1..(Len(body) - 2) : SubSeq(body, i, i + 2) = <<"0", "nl", "nl">>

\* response_complete: may the reader stop?  (A malformed head stops it too.)
response_complete(raw) ==
  LET end == find_header_end(raw)
      framing == response_framing(raw)
  IN /\ end # 0
     /\ \/ \E n \in framing.length : Len(raw) >= end + n
        \/ framing.chunked /\ decode_chunked(SubSeq(raw, end + 1, Len(raw)), <<>>) # Incomplete

\* parse_response: status line, framing, then the body by the framing.
parse_response(raw) ==
  LET end == find_header_end(raw)
      framing == response_framing(raw)
      body == SubSeq(raw, end + 1, Len(raw))
  IN IF end = 0 \/ raw[1] # "HTTP/1.1 200" \/ framing.malformed THEN <<"error">>
     ELSE IF framing.length # {}
     THEN LET n == CHOOSE l \in framing.length : TRUE
          IN IF Len(body) < n THEN <<"error">> ELSE <<"ok", SubSeq(body, 1, n)>>
     ELSE IF framing.chunked THEN decode_chunked(body, <<>>)
     ELSE <<"ok", body>>

-----------------------------------------------------------------------------
Init ==
  /\ \E status \in {"HTTP/1.1 200", "HTTP/2 200"}, n \in 0..2 :
     \E headers \in [1..n -> HeaderLines], body \in Bodies :
     \E cut \in 0..Len(body), trailer \in {<<>>, <<"plain", "nl">>} :
       /\ ~Chunked(headers) => cut = 0 /\ trailer = <<>>
       /\ response = [status |-> status, headers |-> headers, body |-> body,
                      cut |-> cut, trailer |-> trailer]
       /\ wire = Sent(response)
  /\ got = 0 /\ ended = FALSE
  /\ outcome = <<>>

\* send_inner's loop body: one read returns the next n tokens.
Read(n) ==
  LET raw == SubSeq(wire, 1, got + n)
  IN /\ outcome = <<>> /\ ~ended /\ got + n <= Len(wire)
     /\ got' = got + n
     /\ outcome' =
          CASE Len(raw) > MaxResponse -> <<"cap">>
            [] find_header_end(raw) # 0 /\ response_framing(raw).malformed -> <<"error">>
            [] response_complete(raw) -> parse_response(raw)
            [] OTHER -> <<>>
     /\ UNCHANGED <<response, wire, ended>>

\* The server closes, having sent everything or not: read returns 0.
ServerCloses ==
  /\ outcome = <<>> /\ ~ended
  /\ ended' = TRUE
  /\ outcome' = parse_response(SubSeq(wire, 1, got))
  /\ UNCHANGED <<response, wire, got>>

\* send: the caller's timeout covers the whole exchange.
TimesOut ==
  /\ outcome = <<>>
  /\ outcome' = <<"timeout">>
  /\ UNCHANGED <<response, wire, got, ended>>

Next == (\E n \in 1..Len(wire) : Read(n)) \/ ServerCloses \/ TimesOut
Spec == Init /\ [][Next]_vars

-----------------------------------------------------------------------------
\* validate_headers refuses the names the client writes itself, so that a
\* request it sends has each of them exactly once whatever its caller adds.
is_reserved_request_header(name) ==
  name \in {"host", "connection", "content-length", "transfer-encoding"}
validate_headers(names) ==
  \A i \in 1..Len(names) : names[i] \notin {"", "bad name", "two lines"}
                           /\ ~is_reserved_request_header(names[i])
\* send_inner's request head: nothing is sent when the headers are refused.
request_head(method, names, body) ==
  IF ~validate_headers(names) THEN <<>>
  ELSE <<"host", "connection">> \o names
         \o IF body # 0 \/ method = "POST" THEN <<"content-length">> ELSE <<>>

\* parse_url on the part between "http://" and the path: the address to
\* connect to and the Host header, or nothing.
valid_port(p) == p # <<>> /\ \A i \in 1..Len(p) : p[i] = "8"
parse_url(a) ==
  LET colons == {i \in 1..Len(a) : a[i] = ":"}
      close == {i \in 2..Len(a) : a[i] = "]"}
      end == CHOOSE i \in close : \A j \in close : i <= j
      From(i) == SubSeq(a, i, Len(a))
      c == CHOOSE i \in colons : TRUE
  IN IF a = <<>> \/ "@" \in ToSet(a) THEN {}
     ELSE IF a[1] = "["
     THEN IF close = {} \/ end = 2 THEN {}
          ELSE IF end = Len(a) THEN {[host |-> SubSeq(a, 1, end), port |-> <<"80">>, header |-> a]}
          ELSE IF a[end + 1] = ":" /\ valid_port(From(end + 2))
               THEN {[host |-> SubSeq(a, 1, end), port |-> From(end + 2), header |-> a]}
               ELSE {}
     ELSE IF Cardinality(colons) > 1 THEN {}
     ELSE IF colons = {} THEN {[host |-> a, port |-> <<"80">>, header |-> a]}
     ELSE IF c = 1 \/ ~valid_port(From(c + 1)) THEN {}
     ELSE {[host |-> SubSeq(a, 1, c - 1), port |-> From(c + 1), header |-> a]}

-----------------------------------------------------------------------------
WellFormed == /\ response.status = "HTTP/1.1 200"
              /\ ~response_framing(wire).malformed
Framed == Chunked(response.headers) \/ ToSet(response.headers) \cap DOMAIN LengthOf # {}
Declared == {LengthOf[h] : h \in ToSet(response.headers) \cap DOMAIN LengthOf}
\* The body the server's framing delimits; none when it sent less than it
\* declared.
Delimited ==
  IF Chunked(response.headers) THEN {response.body}
  ELSE {SubSeq(response.body, 1, n) : n \in {l \in Declared : l <= Len(response.body)}}

Authorities == UNION {[1..n -> {"h", ":", "8", "[", "]", "@"}] : n \in 0..4}
Names == {"x-trace", "host", "content-length", "transfer-encoding", "bad name", "two lines"}
Count(s, t) == Cardinality({i \in 1..Len(s) : s[i] = t})

\* A request is unambiguous: one Host, one Connection, one length when it has
\* a body, no transfer coding; and its URL names one host and one port, read
\* the same way back from the Host header.
RequestsClear ==
  /\ \A m \in {"GET", "POST"}, body \in 0..1, n \in 0..2 : \A names \in [1..n -> Names] :
       LET head == request_head(m, names, body)
       IN head # <<>> => /\ Count(head, "host") = 1 /\ Count(head, "connection") = 1
                         /\ Count(head, "transfer-encoding") = 0
                         /\ Count(head, "content-length") = IF body = 1 \/ m = "POST" THEN 1 ELSE 0
  /\ \A a \in Authorities : \A u \in parse_url(a) :
       /\ u.host # <<>> /\ u.port # <<>>
       /\ a \in {u.host, u.host \o <<":">> \o u.port}
       /\ parse_url(u.header) = {u}

\* However the network cuts a response and whenever the server hangs up: a
\* body handed to the caller is the one the server's framing delimits, never
\* a part of it, unless nothing but the close delimits it; a malformed head
\* is never accepted and a good response never refused; and a reader that has the whole of a framed response
\* has stopped, without waiting for the close.  The request before it was
\* unambiguous.
ResponsesWhole ==
  /\ wire = <<"HTTP/1.1 200", "nl", "nl">> /\ got = 0 => RequestsClear
  /\ outcome # <<>> /\ outcome[1] = "ok" =>
       /\ WellFormed
       /\ Framed => outcome[2] \in Delimited
       /\ ~Framed => ended /\ IsPrefix(outcome[2], response.body)
  /\ outcome = <<"error">> =>
       \/ ~WellFormed
       \/ Framed /\ Delimited = {}
       \/ ended /\ got < Len(wire)
  /\ got = Len(wire) /\ outcome = <<>> => Delimited = {}
=============================================================================
