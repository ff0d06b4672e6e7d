------------------------------ MODULE PeerNames ------------------------------
(***************************************************************************)
(* The names TrustForge gives to the peers it meets: its own actor and     *)
(* instance ids (actor_id.rs, instance_id.rs, trust_domain.rs), SPIFFE ids *)
(* (bridge_spiffe.rs), the identity headers of service meshes              *)
(* (bridge_service_mesh.rs) and Matrix senders (bridge_matrix.rs).         *)
(*                                                                         *)
(* A text is a sequence of tokens: a token is one character, or a word the *)
(* code searches for as a whole ("spiffe://", "tf:actor:service:", "ns").  *)
(* The Result of a parser is a set with at most one member; an error, of   *)
(* whatever kind, is the empty set.                                        *)
(***************************************************************************)
EXTENDS Integers, Sequences, FiniteSets, SequencesExt

At(s, c) == SelectInSeq(s, LAMBDA x : x = c)
LastAt(s, c) == SelectLastInSeq(s, LAMBDA x : x = c)
Before(s, i) == SubSeq(s, 1, i - 1)
After(s, i) == SubSeq(s, i + 1, Len(s))

RECURSIVE trim(_)
trim(s) ==
  IF s # <<>> /\ s[1] = " " THEN trim(Tail(s))
  ELSE IF s # <<>> /\ Last(s) = " " THEN trim(Front(s)) ELSE s

-----------------------------------------------------------------------------
(* actor_id.rs, instance_id.rs, trust_domain.rs *)
ActorTypes == {"human", "service", "device"}

split_scheme(s) ==
  LET rest == Tail(s)
      first == At(rest, ":")
      second == At(After(rest, first), ":")
  IN IF s = <<>> \/ s[1] # "tf:" \/ first = 0 \/ second = 0 THEN {}
     ELSE {[kind |-> Before(rest, first), type |-> Before(After(rest, first), second),
            path |-> After(After(rest, first), second)]}

parse_actor_id(s) ==
  {[type |-> p.type[1], path |-> p.path] :
     p \in {q \in split_scheme(s) : /\ q.kind = <<"actor">>
                                    /\ q.type \in {<<t>> : t \in ActorTypes}
                                    /\ q.path # <<>>}}
format_actor_id(type, path) ==
  IF path = <<>> THEN {} ELSE {<<"tf:", "actor", ":", type, ":">> \o path}
actor_id_equals(a, b) == parse_actor_id(a) # {} /\ parse_actor_id(a) = parse_actor_id(b)

\* Mutant: the instance begins at the first slash.
SplitsFirst(s) ==
  {[type |-> p.type[1], actor |-> Before(p.path, At(p.path, "/")), instance |-> After(p.path, At(p.path, "/"))] :
     p \in {q \in split_scheme(s) : /\ q.kind = <<"instance">>
                                    /\ q.type \in {<<t>> : t \in ActorTypes}
                                    /\ At(q.path, "/") \in 2..(Len(q.path) - 1)}}

parse_instance_id(s) ==
  {[type |-> p.type[1], actor |-> Before(p.path, LastAt(p.path, "/")), instance |-> After(p.path, LastAt(p.path, "/"))] :
     p \in {q \in split_scheme(s) : /\ q.kind = <<"instance">>
                                    /\ q.type \in {<<t>> : t \in ActorTypes}
                                    /\ LastAt(q.path, "/") \in 2..(Len(q.path) - 1)}}
format_instance_id(type, actor, instance) ==
  IF actor = <<>> \/ instance = <<>> THEN {}
  ELSE {<<"tf:", "instance", ":", type, ":">> \o actor \o <<"/">> \o instance}
to_actor_id(s) == UNION {format_actor_id(p.type, p.actor) : p \in parse_instance_id(s)}

Alnum == {"a", "A", "b"}
Lowercase(s) == [i \in DOMAIN s |-> IF s[i] = "A" THEN "a" ELSE s[i]]
\* trust_domain.rs: all characters, then the ends.
is_dns_like(s) ==
  /\ s # <<>> /\ s[1] \in Alnum /\ Last(s) \in Alnum
  /\ \A i \in DOMAIN s : s[i] \in Alnum \cup {".", "-"}
parse_trust_domain(s) ==
  CASE s = <<>> -> {}
    [] s[1] = "local/" -> IF Len(s) = 1 THEN {} ELSE {<<"local", Tail(s)>>}
    [] OTHER -> IF is_dns_like(s) THEN {<<"dns", Lowercase(s)>>} ELSE {}
trust_domain_equals(a, b) == parse_trust_domain(a) # {} /\ parse_trust_domain(a) = parse_trust_domain(b)

-----------------------------------------------------------------------------
(* bridge_spiffe.rs *)
\* The first character, then the last, then those between them.
spiffe_is_dns_like(s) ==
  /\ s # <<>> /\ s[1] \in Alnum
  /\ Len(s) = 1 \/ (Last(s) \in Alnum /\ \A i \in 2..(Len(s) - 1) : s[i] \in Alnum \cup {".", "-"})

parse_spiffe_id(id) ==
  LET rest == Tail(id)
      slash == At(rest, "/")
  IN IF \/ id = <<>> \/ id[1] # "spiffe://" \/ slash \in {0, 1, Len(rest)}
        \/ ~spiffe_is_dns_like(Before(rest, slash))
     THEN {} ELSE {[domain |-> Before(rest, slash), path |-> After(rest, slash)]}
spiffe_to_actor_id(id) ==
  {<<"tf:", "actor", ":", "service", ":">> \o p.domain \o <<"/">> \o p.path : p \in parse_spiffe_id(id)}

actor_id_to_spiffe(a) ==
  {<<"spiffe://">> \o p.path :
     p \in {q \in split_scheme(a) : /\ q.kind = <<"actor">> /\ q.type = <<"service">>
                                    /\ q.path # <<>> /\ At(q.path, "newline") = 0
                                    /\ At(q.path, "/") # 0}}

-----------------------------------------------------------------------------
(* bridge_service_mesh.rs: Envoy's X-Forwarded-Client-Cert *)
Scanned(s, sep) ==
  LET Step(a, c) ==
        CASE a.escaped -> [a EXCEPT !.piece = Append(@, c), !.escaped = FALSE]
          [] ~a.escaped /\ c = "\\" /\ a.quoted -> [a EXCEPT !.piece = Append(@, c), !.escaped = TRUE]
          [] ~a.escaped /\ c = "\"" -> [a EXCEPT !.piece = Append(@, c), !.quoted = ~@]
          [] ~a.escaped /\ c = sep /\ ~a.quoted ->
               [a EXCEPT !.pieces = Append(@, trim(a.piece)), !.piece = <<>>]
          [] OTHER -> [a EXCEPT !.piece = Append(@, c)]
      end == FoldLeft(Step, [pieces |-> <<>>, piece |-> <<>>, quoted |-> FALSE, escaped |-> FALSE], s)
  IN IF end.quoted THEN {}
     ELSE {SelectSeq(Append(end.pieces, trim(end.piece)), LAMBDA p : p # <<>>)}
split_xfcc_entries(header) == Scanned(header, ",")
split_xfcc_pairs(entry) == Scanned(entry, ";")

\* Mutant: the quotes go, the escapes stay.
StripsQuotes(raw) ==
  IF Len(raw) >= 2 /\ raw[1] = "\"" /\ Last(raw) = "\"" THEN {SubSeq(raw, 2, Len(raw) - 1)}
  ELSE IF At(raw, "\"") # 0 THEN {} ELSE {raw}

\* A quoted value loses its quotes and its escapes; an unknown escape is kept,
\* a bare quote or a dangling backslash is an error.
unquote_xfcc_value(raw) ==
  LET Step(a, c) ==
        CASE a.escaped -> [out |-> IF c \in {"\"", "\\"} THEN Append(a.out, c) ELSE a.out \o <<"\\", c>>,
                           escaped |-> FALSE, bad |-> a.bad]
          [] ~a.escaped /\ c = "\\" -> [a EXCEPT !.escaped = TRUE]
          [] OTHER -> [a EXCEPT !.out = Append(@, c), !.bad = @ \/ c = "\""]
      end == FoldLeft(Step, [out |-> <<>>, escaped |-> FALSE, bad |-> FALSE], SubSeq(raw, 2, Len(raw) - 1))
  IN IF Len(raw) >= 2 /\ raw[1] = "\"" /\ Last(raw) = "\""
     THEN IF end.bad \/ end.escaped THEN {} ELSE {end.out}
     ELSE IF At(raw, "\"") # 0 THEN {} ELSE {raw}

\* push_pair: {} or {<<key, value>>}.
push_pair(raw) ==
  LET eq == At(raw, "=")
      key == trim(Before(raw, eq))
  IN IF eq = 0 \/ key = <<>> THEN {}
     ELSE {<<IF Len(key) = 1 THEN key[1] ELSE "unknown", v>> : v \in unquote_xfcc_value(trim(After(raw, eq)))}

\* The last pair with a key decides; DNS names stand in for a missing subject.
parse_xfcc_entry(entry) ==
  LET FieldOf(pairs, key) ==
        LET hits == SelectSeq(pairs, LAMBDA p : p[1] = key)
        IN IF hits = <<>> THEN {} ELSE {Last(hits)[2]}
      Dns(pairs) == SelectSeq(pairs, LAMBDA p : p[1] = "DNS")
      Entry(pairs) ==
        [uri |-> FieldOf(pairs, "URI"), by |-> FieldOf(pairs, "By"),
         subject |-> IF FieldOf(pairs, "Subject") = {} /\ Dns(pairs) # <<>>
                     THEN {FoldLeft(LAMBDA a, p : a \o (IF Len(a) = 1 THEN <<>> ELSE <<",">>) \o p[2],
                                    <<"dns:">>, Dns(pairs))}
                     ELSE FieldOf(pairs, "Subject")]
  IN {Entry([i \in DOMAIN raws |-> CHOOSE p \in push_pair(raws[i]) : TRUE]) :
        raws \in {r \in split_xfcc_pairs(entry) : \A i \in DOMAIN r : push_pair(r[i]) # {}}}

parse_xfcc(header) ==
  {[i \in DOMAIN raws |-> CHOOSE e \in parse_xfcc_entry(raws[i]) : TRUE] :
     raws \in {r \in split_xfcc_entries(trim(header)) :
                 /\ r # <<>>
                 /\ \A i \in DOMAIN r : \E e \in parse_xfcc_entry(r[i]) :
                      e.uri # {} \/ e.subject # {} \/ e.by # {}}}

-----------------------------------------------------------------------------
(* bridge_service_mesh.rs: Istio *)
\* read_varint from position i, up to four bytes: {} or {<<value, bytes>>}.
MaxVarint == 4
RECURSIVE read_varint(_, _, _)
read_varint(b, i, shift) ==
  IF i > Len(b) \/ shift = MaxVarint THEN {}
  ELSE IF b[i] < 128 THEN {<<b[i], 1>>}
  ELSE {<<(b[i] - 128) + 128 * r[1], 1 + r[2]>> : r \in read_varint(b, i + 1, shift + 1)}

\* decode_istio_protobuf_principal from position i: a string that begins with
\* "spiffe://" begins with the byte 115 here; the first one is the principal.
RECURSIVE decode_istio_protobuf_principal(_, _, _)
decode_istio_protobuf_principal(b, i, best) ==
  LET tag == read_varint(b, i, 0)
      t == CHOOSE x \in tag : TRUE
      at == i + t[2]
      len == read_varint(b, at, 0)
      n == CHOOSE x \in len : TRUE
      Skip(k) == IF at + k - 1 > Len(b) THEN {} ELSE decode_istio_protobuf_principal(b, at + k, best)
      text == SubSeq(b, at + n[2], at + n[2] + n[1] - 1)
  IN IF i > Len(b) THEN best
     ELSE IF tag = {} THEN {}
     ELSE CASE t[1] % 8 = 0 -> IF len = {} THEN {} ELSE Skip(n[2])
            [] t[1] % 8 = 1 -> Skip(8)
            [] t[1] % 8 = 5 -> Skip(4)
            [] t[1] % 8 = 2 ->
                 IF len = {} \/ at + n[2] + n[1] - 1 > Len(b) THEN {}
                 ELSE decode_istio_protobuf_principal(b, at + n[2] + n[1],
                        IF best = {} /\ text # <<>> /\ text[1] = 115 THEN {text} ELSE best)
            [] OTHER -> {}

\* spiffe_to_principal: the namespace is what follows the first "ns".
spiffe_to_principal(id) ==
  {[spiffe |-> id, namespace |-> ns] :
     ns \in {n \in UNION {LET path == p.path
                              Ns(i) == path[i] = "ns" /\ (i = 1 \/ path[i-1] = "/") /\ i < Len(path) /\ path[i+1] = "/"
                              i == SelectInSeq([j \in DOMAIN path |-> Ns(j)], LAMBDA x : x)
                              rest == After(path, i + 1)
                          IN IF i = 0 THEN {} ELSE {IF At(rest, "/") = 0 THEN rest ELSE Before(rest, At(rest, "/"))}
                          : p \in parse_spiffe_id(id)} : n # <<>>}}

\* parse_istio_attributes: a JWT of an Istio issuer, else the protobuf.
is_istio_issuer(iss) == iss \in {"istio-ca", "istiod.", "kubernetes"}
try_parse_istio_jwt(h) ==
  IF ~is_istio_issuer(h.iss) THEN {}
  ELSE UNION {spiffe_to_principal(s) : s \in IF h.sub # {} THEN h.sub ELSE h.spiffe}
parse_istio_attributes(h) ==
  CASE h.form = "jwt" -> try_parse_istio_jwt(h)
    [] h.form = "protobuf" -> UNION {spiffe_to_principal(h.text[p]) :
                                       p \in decode_istio_protobuf_principal(h.bytes, 1, {})}
    [] OTHER -> {}

-----------------------------------------------------------------------------
(* bridge_service_mesh.rs: Linkerd; bridge_matrix.rs *)
\* <sa>.<ns>.serviceaccount.identity.<cluster>.cluster.local; both words are
\* searched for with their dots.
LegacyParts(h) ==
  LET i == At(h, ".serviceaccount.identity.")
      pre == Before(h, i)
      post == After(h, i)
      dot == At(pre, ".")
  IN IF i = 0 \/ post = <<>> \/ Last(post) # ".cluster.local" \/ dot = 0 THEN {}
     ELSE {[sa |-> Before(pre, dot), ns |-> After(pre, dot), cluster |-> Front(post)]}

parse_linkerd_client_id(header) ==
  LET h == trim(header)
  IN IF h # <<>> /\ h[1] = "spiffe://" THEN IF parse_spiffe_id(h) = {} THEN {} ELSE {h}
     ELSE IF At(h, "spiffe://") # 0 \/ At(h, "://") # 0 THEN {}
     ELSE {s \in {<<"spiffe://">> \o p.cluster \o <<"/", "ns", "/">> \o p.ns \o <<"/", "sa", "/">> \o p.sa :
                    p \in {q \in LegacyParts(h) : q.sa # <<>> /\ q.ns # <<>> /\ q.cluster # <<>>}} :
             parse_spiffe_id(s) # {}}

accept_envoy(entry) == UNION {spiffe_to_actor_id(u) : u \in entry.uri}
accept_istio(spiffe) == spiffe_to_actor_id(spiffe)
accept_linkerd(h) ==
  IF h # <<>> /\ h[1] = "spiffe://" THEN spiffe_to_actor_id(h)
  ELSE {<<"tf:", "actor", ":", "service", ":">> \o p.cluster \o <<"/">> \o p.ns \o <<"/">> \o p.sa : p \in LegacyParts(h)}

map_sender(s) ==
  LET colon == At(s, ":")
  IN IF s = <<>> \/ s[1] # "@" \/ colon = 0 THEN {}
     ELSE {<<"tf:", "actor", ":", "human", ":">> \o After(s, colon) \o <<"/">> \o SubSeq(s, 2, colon - 1)}
=============================================================================
