----------------------------- MODULE CertBridges -----------------------------
(***************************************************************************)
(* Certificates and hardware credentials as TrustForge accepts them:       *)
(* chains of X.509 certificates (bridge_tls.rs), OCSP answers and          *)
(* revocation lists, the DER they are read from, and WebAuthn attestations *)
(* (webauthn_attestation.rs, bridge_webauthn.rs).  All of them functions   *)
(* of their arguments.                                                     *)
(*                                                                         *)
(* A certificate is a record of its names, its key, the key that signed    *)
(* it, and its validity; an Option is a set with at most one member; bytes *)
(* are numbers below 256.                                                  *)
(***************************************************************************)
EXTENDS Integers, Sequences, FiniteSets, SequencesExt, SignedData

Some1(option) == CHOOSE x \in option : TRUE
FirstOf(s, P(_)) ==
  LET hits == {i \in DOMAIN s : P(s[i])}
  IN IF hits = {} THEN {} ELSE {CHOOSE i \in hits : \A j \in hits : i <= j}

-----------------------------------------------------------------------------
(* bridge_tls.rs: TlsBridge *)
IsValidAt(c, now) == c.from <= now /\ now <= c.until
\* Mutant: an issuer is taken at its name.
NameSuffices(c, key) == TRUE

SignedByKey(c, key) == c.signer = key

\* project: the actor a leaf stands for.
project(cfg, leaf, root) ==
  IF \E u \in cfg.required_san : u \notin ToSet(leaf.san_uris) THEN {}
  ELSE LET spiffe == SelectSeq(leaf.san_uris, LAMBDA u : u[1] = "spiffe")
           name == CASE spiffe # <<>> -> spiffe[1]
                     [] leaf.cn # {} -> Some1(leaf.cn)
                     [] leaf.san_dns # <<>> -> leaf.san_dns[1]
                     [] OTHER -> leaf.subject
       IN {[type |-> IF spiffe # <<>> THEN "service" ELSE "device",
            level |-> IF spiffe # <<>> THEN 4 ELSE 3,
            name |-> name, key |-> leaf.key, root |-> root.subject,
            from |-> leaf.from, until |-> leaf.until,
            capabilities |-> IF "any" \in leaf.eku THEN {} ELSE leaf.eku]}

\* verify_chain's loop: the issuer is the first other certificate supplied
\* with that subject, else the first configured root with it; one that was
\* supplied never counts as an anchor.
RECURSIVE Walk(_, _, _, _, _)
Walk(cfg, chain, cur, visited, left) ==
  LET inter == FirstOf([i \in DOMAIN chain |-> IF i = cur THEN "-" ELSE chain[i].subject],
                       LAMBDA s : s = chain[cur].issuer)
      root == FirstOf(cfg.roots, LAMBDA r : r.subject = chain[cur].issuer)
      issuer == IF inter # {} THEN chain[Some1(inter)] ELSE cfg.roots[Some1(root)]
  IN CASE left = 0 -> {}
       [] inter = {} /\ root = {} -> {}
       [] ~SignedByKey(chain[cur], issuer.key) -> {}
       [] inter = {} -> IF SignedByKey(issuer, issuer.key) THEN project(cfg, chain[1], issuer) ELSE {}
       [] issuer.subject \in visited -> {}
       [] OTHER -> Walk(cfg, chain, Some1(inter), visited \cup {issuer.subject}, left - 1)

\* parse_pem_bundle: other blocks are skipped, and reading stops, without an
\* error, at a damaged one.
parse_pem_bundle(blocks) ==
  LET bad == FirstOf(blocks, LAMBDA b : b.label = "damaged")
      read == IF bad = {} THEN blocks ELSE SubSeq(blocks, 1, Some1(bad) - 1)
  IN SelectSeq(read, LAMBDA b : b.label = "CERTIFICATE")

\* verify_chain: the parts of chain_pem are bundles; every certificate of every
\* part must be current, the first is the leaf.
verify_chain(cfg, parts, now) ==
  LET blocks == FlattenSeq([i \in DOMAIN parts |-> parse_pem_bundle(parts[i])])
      chain == [i \in DOMAIN blocks |-> blocks[i].cert]
  IN IF chain = <<>> \/ Len(chain) > cfg.max \/ \E i \in DOMAIN chain : ~IsValidAt(chain[i], now)
     THEN {}
     ELSE Walk(cfg, chain, 1, {chain[1].subject}, cfg.max)

-----------------------------------------------------------------------------
(* Revocation lists: CrlIndex *)
\* normalise_serial: leading zero bytes go, but for the last byte.
RECURSIVE normalise_serial(_)
normalise_serial(s) == IF Len(s) > 1 /\ s[1] = 0 THEN normalise_serial(Tail(s)) ELSE s

\* CrlCheck::load and CrlIndex::is_revoked.
load_crl(serials) == {normalise_serial(s) : s \in serials}
is_revoked(index, serial) == normalise_serial(serial) \in index

-----------------------------------------------------------------------------
(* DER: what bridge_oauth.rs and bundle.rs write, bridge_tls.rs reads *)
RECURSIVE BigEndian(_)
BigEndian(n) == IF n = 0 THEN <<>> ELSE Append(BigEndian(n \div 256), n % 256)
der_len(n) ==
  IF n < 128 THEN <<n>> ELSE <<128 + Len(BigEndian(n))>> \o BigEndian(n)

RECURSIVE der_integer(_)
der_integer(b) ==
  IF Len(b) > 1 /\ b[1] = 0 THEN der_integer(Tail(b))
  ELSE LET body == (IF b[1] >= 128 THEN <<0>> ELSE <<>>) \o b
       IN <<2>> \o der_len(Len(body)) \o body
der_sequence(parts) == <<48>> \o der_len(Len(FlattenSeq(parts))) \o FlattenSeq(parts)

\* encode_rsa_spki: the algorithm, and the key as a bit string.
RsaOid == <<6, 9, 42, 134, 72, 134, 247, 13, 1, 1, 1>>
encode_rsa_spki(n, e) ==
  LET bits == <<0>> \o der_sequence(<<der_integer(n), der_integer(e)>>)
  IN der_sequence(<<der_sequence(<<RsaOid, <<5, 0>> >>), <<3>> \o der_len(Len(bits)) \o bits>>)

\* read_length: {} or {<<length, bytes it takes>>}; pos counts from 1.
RECURSIVE FromBytes(_)
FromBytes(s) == IF s = <<>> THEN 0 ELSE 256 * FromBytes(Front(s)) + Last(s)
read_length(buf, pos) ==
  LET n == buf[pos] - 128
  IN IF pos > Len(buf) THEN {}
     ELSE IF buf[pos] < 128 THEN {<<buf[pos], 1>>}
     ELSE IF n = 0 \/ n > 4 \/ pos + n > Len(buf) THEN {}
     ELSE {<<FromBytes(SubSeq(buf, pos + 1, pos + n)), 1 + n>>}

read_tlv(buf, pos) ==
  IF pos > Len(buf) THEN {}
  ELSE {[tag |-> buf[pos], start |-> pos + 1 + l[2], len |-> l[1]] :
          l \in {m \in read_length(buf, pos + 1) : pos + m[2] + m[1] <= Len(buf)}}
read_seq(buf, pos) == {t \in read_tlv(buf, pos) : t.tag = 48}

-----------------------------------------------------------------------------
(* OCSP answers, read from their DER.  Then chains readers: nothing is read *)
(* after one that failed.                                                   *)
Then(option, F(_)) == UNION {F(x) : x \in option}
Inside(buf, t) == SubSeq(buf, t.start, t.start + t.len - 1)
Past(t) == t.start + t.len

\* The date and the time of day are one byte here; "Z" must follow.
parse_generalized_time(b) == IF Len(b) = 2 /\ b[2] = 90 THEN {b[1]} ELSE {}

\* The optional [0] nextUpdate at p: {} when damaged, else {the Option}.
NextUpdate(der, p) ==
  IF p > Len(der) \/ der[p] # 160 THEN {{}}
  ELSE Then(read_tlv(der, p), LAMBDA outer :
       Then(read_tlv(der, outer.start), LAMBDA inner :
         IF inner.tag # 24 THEN {} ELSE {{t} : t \in parse_generalized_time(Inside(der, inner))}))

StatusOf == (128 :> "good") @@ (161 :> "revoked") @@ (130 :> "unknown")
parse_single_response(der) ==
  Then(read_seq(der, 1), LAMBDA cert_id :
  Then(read_tlv(der, Past(cert_id)), LAMBDA cs :
  Then(read_tlv(der, Past(cs)), LAMBDA tu :
    IF cs.tag \notin DOMAIN StatusOf \/ tu.tag # 24 THEN {}
    ELSE {[status |-> StatusOf[cs.tag], this |-> t, next |-> n] :
            t \in parse_generalized_time(Inside(der, tu)), n \in NextUpdate(der, Past(tu))})))

RECURSIVE Singles(_, _, _)
Singles(der, q, end) ==
  IF q >= end THEN {<<>>}
  ELSE Then(read_seq(der, q), LAMBDA sr :
         {<<s>> \o rest : s \in parse_single_response(Inside(der, sr)),
                         rest \in Singles(der, Past(sr), end)})

\* Past the version (optional), responderID and producedAt to the responses.
SkipIf(test, der, p) == IF test THEN {Past(t) : t \in read_tlv(der, p)} ELSE {p}
parse_basic_response(der) ==
  Then(read_seq(der, 1), LAMBDA basic :
  Then(read_seq(der, basic.start), LAMBDA tbs :
  Then(SkipIf(tbs.len > 0 /\ der[tbs.start] = 160, der, tbs.start), LAMBDA p1 :
  Then(SkipIf(p1 < Past(tbs), der, p1), LAMBDA p2 :
  Then(SkipIf(p2 < Past(tbs), der, p2), LAMBDA p3 :
  Then(read_seq(der, p3), LAMBDA list : Singles(der, list.start, Past(list))))))))

BasicOid == <<43, 6, 1, 5, 5, 7, 48, 1, 1>>
\* ResponseBytes at p: {} when damaged, else {the Option of a basic response}.
ResponseBytes(der, p, end) ==
  IF p >= end THEN {{}}
  ELSE Then(read_tlv(der, p), LAMBDA rb : IF rb.tag # 160 THEN {{}} ELSE
       Then(read_seq(der, rb.start), LAMBDA rb_seq :
       Then(read_tlv(der, rb_seq.start), LAMBDA oid :
         IF oid.tag # 6 THEN {}
         ELSE IF Inside(der, oid) # BasicOid THEN {{}}
         ELSE Then(read_tlv(der, Past(oid)), LAMBDA octets :
                IF octets.tag # 4 THEN {} ELSE {{b} : b \in parse_basic_response(Inside(der, octets))}))))
parse_ocsp_response(der) ==
  Then(read_seq(der, 1), LAMBDA outer :
  Then(read_tlv(der, outer.start), LAMBDA status :
    IF status.tag # 10 \/ status.len # 1 THEN {}
    ELSE {[status |-> der[status.start], basic |-> b] : b \in ResponseBytes(der, Past(status), Past(outer))}))

\* OcspCheck::parse_response: the first single response, if it is current.
parse_response(der, now) ==
  Then(parse_ocsp_response(der), LAMBDA parsed :
    IF parsed.status # 0 THEN {}
    ELSE Then(parsed.basic, LAMBDA singles :
           IF singles = <<>> \/ singles[1].this > now \/ (\E n \in singles[1].next : n < now) THEN {}
           ELSE {singles[1].status}))

-----------------------------------------------------------------------------
(* webauthn_attestation.rs.  Authenticator data, client data and the        *)
(* statement are the fields of one record.                                  *)
KtyOf(alg) == CASE alg = "es256" -> "ec2" [] alg = "eddsa" -> "okp" [] OTHER -> "rsa"

AuthData(a) == <<a.rp, a.present, a.attested, a.count, a.aaguid, a.credential, a.key>>
ClientHash(a) == <<a.type, a.challenge, a.origin>>
PackedData(a) == <<AuthData(a), ClientHash(a)>>
U2fData(a) == <<a.rp, ClientHash(a), a.credential, a.key>>

\* verify_with_cert: by the certificate's key type.
verify_with_cert(cert, data, sig, alg) ==
  cert.kty = KtyOf(alg) /\ alg # "rs256" /\ Verifies(cert.key, data, sig)
verify_cose_signature(key, data, sig, alg) ==
  key.kty = KtyOf(alg) /\ alg # "rs256" /\ Verifies(key, data, sig)

verify_packed(a) ==
  /\ a.sig # {} /\ a.stmt_alg # {}
  /\ IF a.x5c # <<>> THEN verify_with_cert(a.x5c[1], PackedData(a), Some1(a.sig), Some1(a.stmt_alg))
     ELSE verify_cose_signature(a.key, PackedData(a), Some1(a.sig), Some1(a.stmt_alg))
verify_fido_u2f(a) ==
  /\ a.sig # {} /\ a.x5c # <<>> /\ a.key.kty = "ec2"
  /\ verify_with_cert(a.x5c[1], U2fData(a), Some1(a.sig), "es256")

\* verify_attestation
verify_attestation(a, opts) ==
  /\ a.type = "webauthn.create"
  /\ a.origin = opts.origin /\ a.challenge = opts.challenge /\ a.rp = opts.rp
  /\ a.present /\ a.attested
  /\ \A algs \in opts.allowed : a.key.alg \in algs
  /\ CASE a.fmt = "packed" -> verify_packed(a)
       [] a.fmt = "fido-u2f" -> verify_fido_u2f(a)
       [] a.fmt = "none" -> ~opts.require_signature
       [] OTHER -> FALSE

(* bridge_webauthn.rs *)
\* slug: trailing padding goes, "/" and "+" become "_" and "-".
RECURSIVE slug(_)
slug(h) ==
  IF h # <<>> /\ Last(h) = "=" THEN slug(Front(h))
  ELSE [i \in DOMAIN h |-> CASE h[i] = "/" -> "_" [] h[i] = "+" -> "-" [] OTHER -> h[i]]

accept(cfg, cred, now) ==
  IF \/ cred.key = "" \/ cred.rp_id = <<>> \/ cred.user_handle = <<>>
     \/ (cfg.rp_id # <<>> /\ cfg.rp_id # cred.rp_id)
     \/ (\E algs \in cfg.allowed : cred.algorithm \notin algs)
  THEN {}
  ELSE {[actor |-> cred.rp_id \o <<"/">> \o slug(cred.user_handle),
         key |-> cred.key, algorithm |-> cred.algorithm,
         root |-> IF cred.aaguid = {} THEN "(unknown-aaguid)" ELSE Some1(cred.aaguid),
         from |-> IF cred.from = {} THEN now ELSE Some1(cred.from)]}

\* WebAuthnBridge::project with parse_actor_uri: the relying party ends at the
\* first slash.
reverse(id) ==
  LET slash == Some1(FirstOf(id.actor, LAMBDA c : c = "/"))
  IN [rp_id |-> SubSeq(id.actor, 1, slash - 1),
      user_handle |-> SubSeq(id.actor, slash + 1, Len(id.actor)),
      key |-> id.key, algorithm |-> id.algorithm,
      aaguid |-> IF id.root = "(unknown-aaguid)" THEN {} ELSE {id.root},
      from |-> {id.from}]
=============================================================================
