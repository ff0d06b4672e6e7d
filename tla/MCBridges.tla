------------------------------ MODULE MCBridges ------------------------------
(***************************************************************************)
(* The bridges on every input of a small set: certificate chains and       *)
(* hardware credentials (CertBridges), names and mesh headers (PeerNames), *)
(* webhooks, DID keys, tool lists and the registry (EdgeBridges).  A       *)
(* behaviour picks an input and judges it once.                            *)
(***************************************************************************)
EXTENDS Integers, Sequences, FiniteSets, SequencesExt, TLC

VARIABLES offer, judged

C == INSTANCE CertBridges
N == INSTANCE PeerNames
E == INSTANCE EdgeBridges

Texts(alphabet, n) == UNION {[1..k -> alphabet] : k \in 0..n}

(***************************************************************************)
(* Certificates                                                            *)
(***************************************************************************)
Cert(subject, issuer, key, signer, until) ==
  [subject |-> subject, issuer |-> issuer, key |-> key, signer |-> signer, from |-> 0, until |-> until,
   san_uris |-> <<>>, cn |-> {subject}, san_dns |-> <<>>, eku |-> {}]
Now == 1
RootR == Cert("R", "R", "kR", "kR", 2)
RootX == Cert("R", "R", "kX", "kX", 2)    \* of the same name
RootS == Cert("S", "S", "kS", "kR", 2)    \* not signed by itself
Leaves == {Cert("L", i, "kL", s, 2) : i \in {"I", "R", "S"}, s \in {"kI", "kR", "kX", "kS"}}
Others == {Cert("I", "R", "kI", s, u) : s \in {"kR", "kX"}, u \in {0, 2}}
          \cup {Cert("I", "R", "kJ", "kR", 2), Cert("I", "L", "kI", "kL", 2), RootR, RootX}
RootLists == {<<RootR>>, <<RootX, RootR>>, <<RootR, RootS>>}
Block(c) == [label |-> "CERTIFICATE", cert |-> c]
Damaged(c) == [label |-> "damaged", cert |-> c]
Bundles ==
  {<<<<Block(l)>> \o [i \in DOMAIN o |-> Block(o[i])]>> : l \in Leaves, o \in Texts(Others, 2)}
  \cup {<<<<Block(l), Damaged(a), Block(a)>>, <<Block(b)>>>> : l \in Leaves, a \in Others, b \in Others}

(***************************************************************************)
(* Hardware credentials: a genuine attestation, and copies of it with one  *)
(* field changed on the way.                                               *)
(***************************************************************************)
Key(name, alg) == [name |-> name, alg |-> alg, kty |-> C!KtyOf(alg)]
Attestation(fmt, alg, x5c, statement) ==
  LET a == [fmt |-> fmt, rp |-> "rp", present |-> TRUE, attested |-> TRUE, count |-> 0, aaguid |-> 1,
            credential |-> 1, key |-> Key("cred", alg), type |-> "webauthn.create", challenge |-> 1,
            origin |-> "here", stmt_alg |-> {statement}, sig |-> {},
            x5c |-> IF x5c THEN <<[key |-> Key("att", statement), kty |-> C!KtyOf(statement)]>> ELSE <<>>]
      signer == IF x5c THEN Key("att", statement) ELSE a.key
  IN IF fmt = "none" THEN [a EXCEPT !.stmt_alg = {}]
     ELSE [a EXCEPT !.sig = {C!Sign(signer, IF fmt = "packed" THEN C!PackedData(a) ELSE C!U2fData(a))}]
Attestations == {Attestation(f, g, x, s) : f \in {"packed", "fido-u2f", "none", "tpm"}, x \in BOOLEAN,
                                           g \in {"es256", "eddsa", "rs256"}, s \in {"es256", "eddsa", "rs256"}}
Altered(a) ==
  {a} \cup {[a EXCEPT !.rp = "other"], [a EXCEPT !.present = FALSE], [a EXCEPT !.attested = FALSE],
            [a EXCEPT !.count = 1], [a EXCEPT !.aaguid = 2], [a EXCEPT !.credential = 2],
            [a EXCEPT !.key = Key("other", "es256")], [a EXCEPT !.type = "webauthn.get"],
            [a EXCEPT !.challenge = 2], [a EXCEPT !.origin = "there"], [a EXCEPT !.stmt_alg = {"eddsa"}],
            [a EXCEPT !.fmt = "none"], [a EXCEPT !.fmt = "packed"], [a EXCEPT !.sig = {}],
            [a EXCEPT !.x5c = <<>>]}
Options == {[origin |-> "here", challenge |-> 1, rp |-> "rp", allowed |-> l, require_signature |-> r] :
              l \in {{}, {{"es256", "eddsa"}}}, r \in BOOLEAN}

Credentials ==
  {[key |-> "k", rp_id |-> rp, user_handle |-> u, algorithm |-> "es256", aaguid |-> g, from |-> f] :
     rp \in {<<"a">>, <<"a", "b">>}, u \in Texts({"a", "/", "+", "="}, 3), g \in {{}, {"m"}}, f \in {{}, {0}}}

Stamps == {[form |-> f, readable |-> r, at |-> t] : f \in {"number", "iso8601"}, r \in BOOLEAN, t \in {1, 3, 5}}
Webhooks ==
  {[body |-> b, timestamp |-> t, signature |-> s, now |-> 5, event_type |-> <<"a", "/", ".">>, event_id |-> 1] :
     b \in {"b1", "b2"}, t \in {{}} \cup {{x} : x \in Stamps},
     s \in {E!Sign(k, <<"b1">>) : k \in {"vendor", "other"}}
           \cup {E!Sign(k, <<x, "b1">>) : k \in {"vendor", "other"}, x \in Stamps}}
Hook(scheme) == [scheme |-> scheme, key |-> "vendor", max_age |-> 2, trust_domain |-> "td", vendor |-> "v"]

(***************************************************************************)
(* Bytes and headers                                                       *)
(***************************************************************************)
Lengths == {0, 1, 127, 128, 255, 256, 65535, 65536}
Fill(b, n) == <<b>> \o [i \in 1..(n - 1) |-> 255]
Moduli == {Fill(b, n) : b \in {0, 1, 127, 128}, n \in {1, 2, 100, 127, 128, 256}}
Serials == UNION {[1..k -> {0, 1, 128}] : k \in 1..3}
\* What an OCSP responder writes.
Tlv(tag, content) == <<tag>> \o C!der_len(Len(content)) \o content
Time(t) == Tlv(24, <<t, 90>>)
Single(x) ==
  Tlv(48, Tlv(48, <<5, 0>>) \o Tlv(CHOOSE g \in DOMAIN C!StatusOf : C!StatusOf[g] = x.status, <<>>) \o Time(x.this)
          \o FlattenSeq([i \in 1..Cardinality(x.next) |-> Tlv(160, Time(CHOOSE n \in x.next : TRUE))]))
OcspAnswer(a) ==
  LET tbs == (IF a.version THEN Tlv(160, <<2, 1, 0>>) ELSE <<>>) \o Tlv(162, Fill(4, a.name)) \o Time(0)
             \o Tlv(48, FlattenSeq([i \in DOMAIN a.singles |-> Single(a.singles[i])]))
      basic == Tlv(48, Tlv(48, tbs) \o Tlv(3, <<0>>))
  IN Tlv(48, Tlv(10, <<a.status>>)
             \o Tlv(160, Tlv(48, Tlv(6, IF a.basic THEN C!BasicOid ELSE <<43>>) \o Tlv(4, basic))))
Singles == {[status |-> x, this |-> t, next |-> n] :
              x \in {"good", "revoked", "unknown"}, t \in 0..2, n \in {{}, {0}, {1}, {2}}}
OcspAnswers ==
  {[status |-> st, basic |-> b, version |-> v, name |-> k, singles |-> s] :
     st \in {0, 6}, b \in BOOLEAN, v \in BOOLEAN, k \in {1, 20, 150},
     s \in {<<>>} \cup {<<x>> : x \in Singles}
           \cup {<<x, y>> : x \in Singles, y \in {z \in Singles : z.this = 1 /\ z.next = {}}}}
Bytes58 == Texts({0, 1, 57, 58, 255}, 4) \cup {Fill(b, n) : b \in {0, 1, 255}, n \in {8, 12}}

\* What Envoy writes: every value quoted, quotes and backslashes escaped.
Quoted(v) == <<"\"">> \o FlattenSeq([i \in DOMAIN v |-> IF v[i] \in {"\"", "\\"} THEN <<"\\", v[i]>> ELSE <<v[i]>>]) \o <<"\"">>
Pair(key, option) == IF option = {} THEN <<>> ELSE <<key, "=">> \o Quoted(CHOOSE v \in option : TRUE) \o <<";">>
Written(entries) ==
  FlattenSeq([i \in DOMAIN entries |->
    (IF i = 1 THEN <<>> ELSE <<",">>)
    \o Pair("By", entries[i].by) \o Pair("URI", entries[i].uri) \o Pair("Subject", entries[i].subject)])
HeaderValues == Texts({"a", ",", ";", "\"", "\\", "=", " "}, 2)
HeaderTexts == Texts({"URI", "a", "=", ",", ";", "\"", "\\", " "}, 5)
Entries == {[by |-> b, uri |-> {u}, subject |-> {}] : b \in {{}} \cup {{v} : v \in HeaderValues}, u \in HeaderValues}

RECURSIVE Varint(_)
Varint(n) == IF n < 128 THEN <<n>> ELSE <<128 + (n % 128)>> \o Varint(n \div 128)
Fields ==
  {[tag |-> 8 * f, body |-> Varint(v)] : f \in {1, 16}, v \in {0, 300}}
  \cup {[tag |-> 8 * f + 2, body |-> Varint(Len(s)) \o s] : f \in {1, 16}, s \in {<<>>, <<1>>, <<115>>, <<115, 2>>, Fill(115, 130)}}
  \cup {[tag |-> 9, body |-> Fill(115, 8)], [tag |-> 13, body |-> Fill(115, 4)]}
Message(fs) == FlattenSeq([i \in DOMAIN fs |-> Varint(fs[i].tag) \o fs[i].body])
Strings(fs) == SelectSeq([i \in DOMAIN fs |-> IF fs[i].tag % 8 # 2 THEN <<>> ELSE SubSeq(fs[i].body, IF Len(fs[i].body) > 128 THEN 3 ELSE 2, Len(fs[i].body))],
                         LAMBDA s : s # <<>> /\ s[1] = 115)

(***************************************************************************)
(* Names                                                                   *)
(***************************************************************************)
SpiffeIds == {<<"spiffe://">> \o t : t \in Texts({"a", "-", "/", "ns", ":", "newline"}, 5)}
Paths == Texts({"a", "/", ":"}, 3)
LinkerdIds ==
  {pre \o <<".serviceaccount.identity.">> \o post :
     pre \in Texts({"a", "b", ".", "/"}, 3), post \in {t \o <<".cluster.local">> : t \in Texts({"a", ".", "/"}, 2)}}
Senders == {<<"@">> \o t : t \in Texts({"a", ":", "/"}, 4)}
Domains == Texts({"a", "A", "b", ".", "-", "/", "local/"}, 3)
ToolNames == Texts({"a", "A", "1", "-", "_", "."}, 4)
Registries ==
  Texts({[kind |-> {k}, issuer_match |-> m, iss_pattern |-> p, capability_map |-> {}] :
           k \in {"oauth", "tls"}, m \in {{}, {<<"a", "b">>}}, p \in {{}, {<<"a">>}, {<<"b">>}}}, 2)
Maps == UNION {[D -> {<<"ok">>, E!Invalid}] : D \in SUBSET {"kind", "issuer_match", "other"}}
Files == {[state |-> s, doc |-> [unknown_key |-> u, default_profile |-> p, version |-> v, bridges |-> b]] :
            s \in {"missing", "unreadable", "text"}, u \in BOOLEAN, p \in {"tf-a-compatible", "invalid"},
            v \in {"1", "2"}, b \in {{}} \cup {{<<m>>} : m \in Maps}}
Cards == {[agent_id |-> a, trust_domain |-> "td", key |-> k, algorithm |-> g,
           capabilities |-> <<[name |-> n, risk |-> r]>>] :
            a \in {"", "ag"}, k \in {{}, {<<"pk">>}}, g \in {{}, {"p256"}}, n \in Texts({"a", "1", "-"}, 2), r \in {{}, {"R4"}}}

-----------------------------------------------------------------------------
Offered ==
  \/ \E b \in Bundles, r \in RootLists, m \in 2..3 :
       offer = [what |-> "chain", parts |-> b, cfg |-> [roots |-> r, max |-> m, required_san |-> {}]]
  \/ \E a \in Attestations : \E b \in Altered(a), o \in Options :
       offer = [what |-> "attestation", made |-> a, shown |-> b, opts |-> o]
  \/ \E c \in Credentials : offer = [what |-> "credential", cred |-> c]
  \/ \E w \in Webhooks, s \in {"HmacSha256", "HmacSha1", "Ed25519"} :
       offer = [what |-> "webhook", args |-> w, cfg |-> Hook(s)]
  \/ \E n \in Lengths : offer = [what |-> "length", n |-> n]
  \/ \E n \in Moduli, e \in {<<1, 0, 1>>, <<0, 128>>} : offer = [what |-> "spki", n |-> n, e |-> e]
  \/ \E a, b \in Serials : offer = [what |-> "serial", listed |-> a, asked |-> b]
  \/ \E a \in OcspAnswers, cut \in 0..1 : offer = [what |-> "ocsp", answer |-> a, cut |-> cut]
  \/ \E b \in Bytes58 : offer = [what |-> "base58", bytes |-> b]
  \/ \E e \in Entries, f \in {<<>>, <<[by |-> {}, uri |-> {<<"a">>}, subject |-> {<<",">>}]>>} :
       offer = [what |-> "xfcc", entries |-> <<e>> \o f]
  \/ \E h \in HeaderTexts : offer = [what |-> "header", text |-> h]
  \/ \E f \in Texts(Fields, 2), cut \in {0, 1, 2} : offer = [what |-> "istio", fields |-> f, cut |-> cut]
  \/ \E s \in SpiffeIds : offer = [what |-> "spiffe", id |-> s]
  \/ \E p \in Paths, i \in Paths : offer = [what |-> "instance", path |-> p, instance |-> i]
  \/ \E l \in LinkerdIds : offer = [what |-> "linkerd", id |-> l]
  \/ \E s \in Senders : offer = [what |-> "sender", id |-> s]
  \/ \E d \in Domains : offer = [what |-> "domain", text |-> d]
  \/ \E t \in ToolNames, p \in {{}, {<<>>}, {<<"a">>}} : offer = [what |-> "tool", name |-> t, prefix |-> p]
  \/ \E r \in Registries, e \in Registries, i \in {<<"a", "b">>, <<"a">>, <<"b">>, <<>>} :
       Len(e) = 1 /\ offer = [what |-> "registry", registry |-> r, added |-> e, iss |-> i]
  \/ \E f \in Files : offer = [what |-> "file", file |-> f]
  \/ \E c \in Cards, d \in {{}, {"R1"}} : offer = [what |-> "card", card |-> c, cfg |-> [default_risk |-> d]]

BridgeInit == Offered /\ judged = FALSE
Judge == ~judged /\ judged' = TRUE /\ UNCHANGED offer

Judged(what) == judged /\ offer.what = what

-----------------------------------------------------------------------------
\* A chain of genuine signatures leads from c to a configured root.
RECURSIVE Anchored(_, _, _, _)
Anchored(c, given, roots, n) ==
  \/ \E r \in roots : r.subject = c.issuer /\ r.key = c.signer /\ r.signer = r.key
  \/ n > 0 /\ \E d \in given : d.subject = c.issuer /\ d.key = c.signer /\ Anchored(d, given, roots, n - 1)

(***************************************************************************)
(* verify_chain accepts a leaf only if every certificate read from the     *)
(* bundle is current and genuine signatures lead from the leaf to a        *)
(* configured, self-signed root, whatever certificates of the same names,  *)
(* loops or roots the sender adds; and it accepts every such chain in      *)
(* which names are unique.  (The walk takes the first certificate with the *)
(* issuer's name and does not try another.)                                *)
(***************************************************************************)
ChainsLeadToRoot ==
  Judged("chain") =>
    LET read == FlattenSeq([i \in DOMAIN offer.parts |-> C!parse_pem_bundle(offer.parts[i])])
        certs == [i \in DOMAIN read |-> read[i].cert]
        given == ToSet(certs)
        roots == ToSet(offer.cfg.roots)
        anchored == Anchored(certs[1], given, roots, Len(certs))
        current == \A c \in given : c.until >= Now
        unique == /\ \A i, j \in DOMAIN certs : certs[i].subject = certs[j].subject => i = j
                  /\ \A r, q \in roots : r.subject = q.subject => r = q
                  /\ \A c \in given, r \in roots : c.subject = r.subject => c = r
        result == C!verify_chain(offer.cfg, offer.parts, Now)
    IN /\ \A id \in result : anchored /\ current /\ id.key = certs[1].key
       /\ anchored /\ current /\ unique /\ Len(certs) <= offer.cfg.max => result # {}

\* What the signature of an attestation covers, by its format.
Covered(fmt, a) == IF fmt = "packed" THEN C!PackedData(a) ELSE C!U2fData(a)
Supported(a) ==
  CASE a.fmt = "packed" -> a.stmt_alg # {"rs256"} /\ (a.x5c = <<>> => {a.key.alg} = a.stmt_alg)
    [] a.fmt = "fido-u2f" -> a.x5c # <<>> /\ a.key.alg = "es256" /\ a.stmt_alg = {"es256"}
    [] OTHER -> FALSE

(***************************************************************************)
(* What a bridge takes from a signed credential is what its signer signed: *)
(* an attestation changed on the way is accepted only where its format     *)
(* leaves the field uncovered, unsigned ones only if none is required, and *)
(* a genuine one of a supported kind always; a webhook's body is the       *)
(* vendor's, under Ed25519 its timestamp too, and a readable timestamp is  *)
(* recent.  A WebAuthn identity leads back to its credential, up to the    *)
(* spelling of the user handle, and that to the same identity unless the   *)
(* handle was only padding.                                                *)
(***************************************************************************)
CredentialsUnaltered ==
  /\ Judged("attestation") =>
       LET ok == C!verify_attestation(offer.shown, offer.opts)
       IN /\ ok => IF offer.shown.fmt = "none" THEN ~offer.opts.require_signature
                   ELSE Covered(offer.shown.fmt, offer.shown) = Covered(offer.shown.fmt, offer.made)
          /\ ok => \A algs \in offer.opts.allowed : offer.shown.key.alg \in algs
          /\ /\ offer.shown = offer.made /\ Supported(offer.made)
             /\ \A algs \in offer.opts.allowed : offer.made.key.alg \in algs
             => ok
  /\ Judged("webhook") =>
       \A event \in E!verify_webhook(offer.cfg, offer.args) :
         /\ offer.args.body = "b1" /\ offer.args.signature.key = "vendor"
         /\ offer.cfg.scheme = "Ed25519" =>
              \E t \in offer.args.timestamp : offer.args.signature.over = <<t, offer.args.body>>
         /\ \A t \in offer.args.timestamp :
              /\ t.readable => offer.args.now - t.at <= offer.cfg.max_age
              /\ ~t.readable => t.form = "iso8601"
  /\ Judged("credential") =>
       \A id \in C!accept([rp_id |-> <<>>, allowed |-> {}], offer.cred, Now) :
         LET back == C!reverse(id) IN
         /\ back = [offer.cred EXCEPT !.user_handle = C!slug(@), !.from = IF @ = {} THEN {Now} ELSE @]
         /\ back.user_handle # <<>> => C!accept([rp_id |-> <<>>, allowed |-> {}], back, Now + 1) = {id}

RECURSIVE Number(_)
Number(b) == IF b = <<>> THEN 0 ELSE 256 * Number(Front(b)) + Last(b)
\* An INTEGER's content for an unsigned number: no zeros but one for the sign.
Unsigned(b) == LET s == C!normalise_serial(b) IN (IF s[1] >= 128 THEN <<0>> ELSE <<>>) \o s
Content(buf, t) == SubSeq(buf, t.start, t.start + t.len - 1)

(***************************************************************************)
(* Reading gives back what was written.  The DER reader inverts the DER    *)
(* writer at every boundary of the length encoding, and reads no truncated *)
(* element; an OCSP answer is its first entry, whatever optional parts and *)
(* further entries surround it, as long as that entry is current; a        *)
(* revocation list finds a serial in whatever spelling; base 58 keeps      *)
(* leading zeros and never overflows its estimate of the size; the         *)
(* XFCC parser returns the entries Envoy wrote, whatever separators,       *)
(* quotes and escapes their values hold, and what it makes of any other    *)
(* text it accepts survives being written and read again; the protobuf     *)
(* reader finds the first SPIFFE string among fields of any wire type, and *)
(* a truncated message never yields another.                               *)
(***************************************************************************)
EncodingsInvert ==
  /\ Judged("length") =>
       C!read_length(C!der_len(offer.n), 1) = {<<offer.n, Len(C!der_len(offer.n))>>}
  /\ Judged("spki") =>
       LET buf == C!encode_rsa_spki(offer.n, offer.e)
           The(option) == CHOOSE t \in option : TRUE
           outer == The(C!read_seq(buf, 1))
           alg == The(C!read_seq(buf, outer.start))
           bits == The(C!read_tlv(buf, alg.start + alg.len))
           pair == The(C!read_seq(buf, bits.start + 1))
           n == The(C!read_tlv(buf, pair.start))
           e == The(C!read_tlv(buf, n.start + n.len))
       IN /\ outer.start + outer.len = Len(buf) + 1 /\ bits.start + bits.len = Len(buf) + 1
          /\ n.tag = 2 /\ Content(buf, n) = Unsigned(offer.n)
          /\ e.tag = 2 /\ Content(buf, e) = Unsigned(offer.e) /\ e.start + e.len = Len(buf) + 1
          /\ \A k \in {1, Len(buf) \div 2, Len(buf) - 1} : C!read_tlv(SubSeq(buf, 1, k), 1) = {}
  /\ Judged("serial") =>
       C!is_revoked(C!load_crl({offer.listed}), offer.asked) = (Number(offer.listed) = Number(offer.asked))
  /\ Judged("ocsp") =>
       LET a == offer.answer
           der == OcspAnswer(a)
       IN C!parse_response(SubSeq(der, 1, Len(der) - offer.cut), Now) =
            IF /\ offer.cut = 0 /\ a.status = 0 /\ a.basic /\ a.singles # <<>>
               /\ a.singles[1].this <= Now /\ \A n \in a.singles[1].next : n >= Now
            THEN {a.singles[1].status} ELSE {}
  /\ Judged("base58") =>
       /\ E!base58btc_decode(E!base58btc_encode(offer.bytes)) = {offer.bytes}
       /\ \A m \in E!ed25519_public_key_to_did_key(offer.bytes, 4) :
            E!accept_did([trust_domain |-> "td"],
                         E!Value(E!resolve_did_key([allowed_methods |-> {}], [method |-> "key", multibase |-> m])))
              = {[actor |-> <<"td", [method |-> "key", multibase |-> m]>>,
                  key |-> [algorithm |-> "ed25519", bytes |-> offer.bytes]]}
  /\ Judged("xfcc") => N!parse_xfcc(Written(offer.entries)) = {offer.entries}
  /\ Judged("header") => \A es \in N!parse_xfcc(offer.text) : N!parse_xfcc(Written(es)) = {es}
  /\ Judged("istio") =>
       LET whole == Message(offer.fields)
           first == IF Strings(offer.fields) = <<>> THEN {} ELSE {Strings(offer.fields)[1]}
           got == N!decode_istio_protobuf_principal(SubSeq(whole, 1, Len(whole) - offer.cut), 1, {})
       IN got \subseteq first /\ (offer.cut = 0 => got = first)

NoSlash(s) == N!At(s, "/") = 0
ServiceActor(path) == <<"tf:", "actor", ":", "service", ":">> \o path

(***************************************************************************)
(* Names keep peers apart.  Every SPIFFE id a bridge accepts gives a       *)
(* well-formed actor id that leads back to it (not with a newline in its   *)
(* path), and an Istio namespace is the one its path names; an instance id *)
(* leads back to its actor, and a Matrix sender and a Linkerd client can   *)
(* be told from their actor ids, as long as the parts hold no slash.  The  *)
(* copies of a check agree: host names (trust_domain.rs, bridge_spiffe.rs) *)
(* and action names (bridge_mcp.rs, bridge_a2a.rs, bridges_registry.rs),   *)
(* so whatever a tool list or an agent card is turned into, the registry   *)
(* and the contract accept.  A bridge added at the end of the registry     *)
(* takes over an issuer by naming it exactly, if none did, and no other    *)
(* way.                                                                    *)
(***************************************************************************)
NamesIdentify ==
  /\ Judged("spiffe") =>
       /\ \A a \in N!spiffe_to_actor_id(offer.id) :
            /\ N!parse_actor_id(a) # {}
            /\ N!actor_id_to_spiffe(a) = IF N!At(offer.id, "newline") = 0 THEN {offer.id} ELSE {}
            /\ N!accept_linkerd(offer.id) = {a} /\ N!accept_istio(offer.id) = {a}
            /\ N!accept_envoy([uri |-> {offer.id}]) = {a}
            /\ N!parse_linkerd_client_id(offer.id) = {offer.id}
       /\ \A form \in {"jwt", "text"}, iss \in {"istio-ca", "elsewhere"}, sub \in {{}, {offer.id}} :
            \A p \in N!parse_istio_attributes([form |-> form, iss |-> iss, sub |-> sub, spiffe |-> {offer.id}]) :
              /\ form = "jwt" /\ iss = "istio-ca"
              /\ NoSlash(p.namespace)
              /\ \E i \in DOMAIN offer.id :
                   SubSeq(offer.id, i, i + 1 + Len(p.namespace)) = <<"ns", "/">> \o p.namespace
  /\ Judged("instance") =>
       \A s \in N!format_instance_id("human", offer.path, offer.instance) :
         NoSlash(offer.instance) =>
           /\ N!parse_instance_id(s) = {[type |-> "human", actor |-> offer.path, instance |-> offer.instance]}
           /\ N!to_actor_id(s) = N!format_actor_id("human", offer.path)
           /\ \A a \in N!to_actor_id(s) : N!actor_id_equals(a, a) /\ ~N!actor_id_equals(a, s)
  /\ Judged("linkerd") =>
       \A s \in N!parse_linkerd_client_id(offer.id) :
         LET p == CHOOSE q \in N!LegacyParts(offer.id) : TRUE IN
         NoSlash(offer.id) =>
           /\ {q.namespace : q \in N!spiffe_to_principal(s)} = {p.ns}
           /\ N!accept_linkerd(offer.id) = {ServiceActor(p.cluster \o <<"/">> \o p.ns \o <<"/">> \o p.sa)}
           /\ offer.id = p.sa \o <<".">> \o p.ns \o <<".serviceaccount.identity.">> \o p.cluster \o <<".cluster.local">>
  /\ Judged("sender") =>
       \A a \in N!map_sender(offer.id) :
         LET path == SubSeq(a, 6, Len(a)) IN
         NoSlash(N!After(offer.id, N!At(offer.id, ":"))) =>
           offer.id = <<"@">> \o N!After(path, N!At(path, "/")) \o <<":">> \o N!Before(path, N!At(path, "/"))
  /\ Judged("domain") =>
       /\ N!is_dns_like(offer.text) = N!spiffe_is_dns_like(offer.text)
       /\ N!is_dns_like(offer.text) => N!trust_domain_equals(offer.text, N!Lowercase(offer.text))
  /\ Judged("tool") =>
       /\ E!is_valid_action_name(offer.name) = E!validate_action_name(offer.name)
       /\ E!is_valid_action_name(E!normalize_tool_name(offer.name, {}))
            = E!is_valid_action_name(E!a2a_normalise_capability(offer.name, {}))
       /\ \A actions \in E!mcp_to_contract_actions(<<[name |-> offer.name, description |-> "d"]>>,
                           [prefix |-> offer.prefix, danger |-> offer.name :> {"destructive"}]) :
            /\ E!validate_action_name(actions[1].name)
            /\ E!contract_to_mcp_tools(actions)[1].description[1] = {"destructive"}
  /\ Judged("card") =>
       \A p \in E!accept_agent_card(offer.cfg, offer.card) :
         /\ \A i \in DOMAIN p.capabilities : E!validate_action_name(p.capabilities[i][1])
         /\ p.algorithm = "external-attestation" <=> offer.card.key = {}
  /\ Judged("registry") =>
       LET before == E!resolve_by_issuer(offer.registry, offer.iss)
           after == E!resolve_by_issuer(offer.registry \o offer.added, offer.iss)
           exact == \E i \in DOMAIN offer.registry : offer.registry[i].issuer_match = {offer.iss}
       IN IF offer.added[1].issuer_match = {offer.iss} /\ ~exact THEN after = {offer.added[1]}
          ELSE before # {} => after = before
  /\ Judged("file") =>
       \A r \in E!load(offer.file) :
         /\ \A i \in DOMAIN r : r[i].kind # {} /\ \A k \in DOMAIN r[i] : r[i][k] # {E!Invalid}
         /\ offer.file.state = "missing" => \A k \in {"oauth", "tls"} : E!resolve_by_kind(r, k) = {}
=============================================================================
