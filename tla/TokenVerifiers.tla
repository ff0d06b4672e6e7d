---------------------------- MODULE TokenVerifiers ----------------------------
(***************************************************************************)
(* The bearer tokens TrustForge accepts from other systems: compact JWS    *)
(* (jws.rs) as the OAuth, GNAP, Azure and Google bridges verify them.      *)
(* OAuth and GNAP are configured with the issuer's keys; the Azure and     *)
(* Google verifiers fetch them and keep them for cache_ttl_seconds, while  *)
(* the issuer replaces its keys and several callers verify at once.        *)
(*                                                                         *)
(* A token is a signed record of its header and claims (SignedData); an    *)
(* Option is a set with at most one member; a key is its type and a name.  *)
(***************************************************************************)
EXTENDS Integers, Sequences, FiniteSets, SignedData

CONSTANTS
  Callers,       \* concurrent users of one verifier
  TTL,           \* cache_ttl_seconds
  RequestLimit,  \* the HTTP client's timeout
  Tolerance,     \* clock_tolerance_seconds of the OAuth bridge
  MaxClock, MaxTokens, MaxVerdicts

VARIABLES
  verifier,    \* which bridge this behaviour is about
  clock,
  published,   \* kids at the issuer's JWKS endpoint
  since,       \* per kid: when it was last added to the endpoint
  last,        \* per kid: when it was last seen there
  minted,      \* tokens made so far
  cache,       \* {} or {[fetched_at, keys]}: the cached JWKS
  call,        \* per caller: the token at hand and how far its fetch is
  verdict,     \* the answer just given
  verdicts     \* how many so far

vars == <<verifier, clock, published, since, last, minted, cache, call, verdict, verdicts>>

The(option) == CHOOSE x \in option : TRUE

-----------------------------------------------------------------------------
(* jws.rs *)
Algorithms == {"RS256", "ES256", "EdDSA"}
\* DecodingKey::verify and EncodingKey::sign: key type and algorithm agree.
KeyFits(key, alg) ==
  key.kty = CASE alg = "RS256" -> "RSA" [] alg = "ES256" -> "EC" [] alg = "EdDSA" -> "OKP"
              [] OTHER -> "none"

encode(token, key) == IF KeyFits(key, token.alg) THEN {Signed(token, key)} ELSE {}

Validation(algs, leeway, exp, issuer, audience) ==
  [algorithms |-> algs, leeway |-> leeway, validate_exp |-> exp, issuer |-> issuer, audience |-> audience]

validate_registered_claims(t, v) ==
  /\ v.validate_exp => \E e \in t.exp : e + v.leeway >= clock
  /\ \A accepted \in v.issuer : \E i \in t.iss : i \in accepted
  /\ \A accepted \in v.audience : t.aud \cap accepted # {}

\* decode_header and Header::algorithm: the algorithm, when it is a known one.
decode_header(t) == {t.alg} \cap Algorithms

decode(t, key, v) ==
  /\ decode_header(t) \cap v.algorithms # {}
  /\ KeyFits(key, t.alg)
  /\ SignatureOk(t, key)
  /\ validate_registered_claims(t, v)

\* The first key of a JWKS (a sequence) with the token's kid.
FindJwk(jwks, t) ==
  LET hits == {i \in DOMAIN jwks : t.kid = {jwks[i].kid}}
  IN IF hits = {} THEN {} ELSE {jwks[CHOOSE i \in hits : \A j \in hits : i <= j]}

\* decoding_key_for: the key a JWK describes, when its members are there.
decoding_key_for(jwk) == IF jwk.complete THEN {jwk.key} ELSE {}
decoding_key_for_jwk(jwk) == IF jwk.complete THEN {jwk.key} ELSE {}
\* project_jwk_to_public_key: the same key as an identity shows it.
project_jwk_to_public_key(jwk) == IF jwk.complete THEN {jwk.key} ELSE {}

-----------------------------------------------------------------------------
(* bridge_oauth.rs and bridge_gnap.rs *)
ActorTypes == {"human", "agent", "device"}
Ours == "our issuer"
Audience == {"us"}
Jwk(kid, kty) == [kid |-> kid, key |-> [kty |-> kty, id |-> kid], complete |-> TRUE]
Configured == <<Jwk("k1", "EC"), Jwk("k2", "OKP"), [Jwk("k2", "EC") EXCEPT !.complete = FALSE]>>
Allowed == {"ES256", "EdDSA"}

Identity(domain, type, name, key, until) ==
  [actor |-> <<type, domain, name>>, keys |-> key, until |-> until]

\* OAuthBridge::verify_token: {} when refused.
verify_token(t) ==
  LET found == {j \in FindJwk(Configured, t) : decoding_key_for(j) # {}}
      types == IF t.type = {} THEN {"human"} ELSE t.type \cap ActorTypes
  IN IF /\ decode_header(t) \cap Allowed # {} /\ found # {}
        /\ decode(t, The(found).key,
                  Validation({t.alg}, Tolerance, TRUE, {{Ours}}, {Audience}))
        /\ t.sub # {} /\ types # {}
     THEN {Identity("oauth", The(types), The(t.sub),
                    project_jwk_to_public_key(The(found)), t.exp)}
     ELSE {}

\* jwk_thumbprint: of the members that make the key; kid is not one.
jwk_thumbprint(jwk) == jwk.key

\* GnapBridge::verify_access_token for a client's grant request.  A token
\* bound to a key (cnf) must be bound to the client's.
verify_access_token(t, client) ==
  LET found == {j \in FindJwk(Configured, t) : decoding_key_for_jwk(j) # {}}
      types == IF t.type = {} THEN {"agent"} ELSE t.type \cap ActorTypes
  IN IF /\ t.alg \in Allowed /\ found # {}
        /\ decode(t, The(found).key, Validation({t.alg}, 0, TRUE, {{Ours}}, {}))
        /\ \A jkt \in t.cnf : jkt = jwk_thumbprint(client)
        /\ types # {} /\ project_jwk_to_public_key(client) # {}
     THEN {Identity("gnap", The(types), IF t.sub = {} THEN "anonymous" ELSE The(t.sub),
                    project_jwk_to_public_key(client), t.exp)}
     ELSE {}

\* GnapBridge::verify_dpop_proof: the proof carries its own key, which must
\* have the expected thumbprint, and names the method, URI and access token.
verify_dpop_proof(t, htm, htu, ath, expected_jkt) ==
  /\ t.typ = "dpop+jwt"
  /\ \E jwk \in t.jwk :
       /\ jwk_thumbprint(jwk) = expected_jkt
       /\ decoding_key_for_jwk(jwk) # {}
       /\ decode(t, jwk.key, Validation({t.alg}, 0, FALSE, {}, {}))
  /\ t.htm = {htm} /\ t.htu = {htu}
  /\ \A a \in ath : t.ath = {a}
  /\ t.iat # {}

-----------------------------------------------------------------------------
(* The Azure and Google verifiers *)
CloudKey(kid) == [kty |-> "RSA", id |-> kid]
\* verify's last part, with the fetched keys at hand.
azure_verify(keys, t) ==
  IF /\ t.alg = "RS256" /\ t.kid # {} /\ t.kid \subseteq keys
     /\ decode(t, CloudKey(The(t.kid)), Validation({"RS256"}, 0, TRUE, {{Ours}}, {Audience}))
     /\ t.sub # {} /\ t.iss # {} /\ t.iat # {}
  THEN {t} ELSE {}
\* The Google verifier makes the same checks.
gcp_verify(keys, t) == azure_verify(keys, t)

\* managed_identity_to_actor: oid (or sub) in the tenant, a service when the
\* token is an application's.
managed_identity_to_actor(t) ==
  LET app == t.idtyp = {"app"} \/ (t.appid # {} /\ t.upn = {})
  IN {Identity(tid, IF app THEN "service" ELSE "human",
               The(IF t.oid = {} THEN t.sub ELSE t.oid), {}, t.exp) : tid \in t.tid}

\* fetch_keys, first part: the cached keys while they are young enough.
CacheForever == IF cache = {} THEN {} ELSE {The(cache).keys}
Cached == {c.keys : c \in {d \in cache : clock - d.fetched_at < TTL}}

-----------------------------------------------------------------------------
Clouds == {"azure", "gcp"}
Kids == {"k1", "k2"}
\* The keys the issuer signs with, and (for DPoP) the client's.
IssuerKeys == IF verifier \in Clouds THEN {CloudKey(k) : k \in published}
              ELSE {Configured[i].key : i \in {1, 2}}
Client == Jwk("client", "EC")
ClientKeys == {Client.key, [Client.key EXCEPT !.id = "other"]}

Plain == [alg |-> "ES256", kid |-> {}, typ |-> "JWT", jwk |-> {}, iss |-> {Ours}, aud |-> Audience,
          exp |-> {}, iat |-> {0}, sub |-> {"ann"}, type |-> {}, cnf |-> {},
          htm |-> {}, htu |-> {}, ath |-> {}, tid |-> {"t"}, oid |-> {}, appid |-> {},
          upn |-> {}, idtyp |-> {}]
AlgFor(key) == CASE key.kty = "RSA" -> "RS256" [] key.kty = "EC" -> "ES256" [] key.kty = "OKP" -> "EdDSA"
Drafts(key) ==
  IF verifier = "dpop"
  THEN {[Plain EXCEPT !.typ = "dpop+jwt", !.jwk = {[Client EXCEPT !.key = key]}, !.htm = {m},
                      !.htu = {"u"}, !.ath = a] : m \in {"GET", "POST"}, a \in {{}, {"hash"}}}
  ELSE IF verifier \in Clouds
  THEN {[Plain EXCEPT !.alg = "RS256", !.kid = {key.id}, !.exp = {e}, !.oid = o, !.appid = o] :
          e \in {2, MaxClock}, o \in IF verifier = "azure" THEN {{}, {"o"}} ELSE {{}}}
  ELSE {[Plain EXCEPT !.alg = AlgFor(key), !.kid = {key.id}, !.exp = e, !.sub = s, !.cnf = c] :
          e \in {{}, {1}, {MaxClock}}, s \in {{"ann"}, {}},
          c \in IF verifier = "gnap" THEN {{}} \cup {{k} : k \in ClientKeys} ELSE {{}}}

\* One field of a token changed on its way to the verifier.
Changes(t) ==
  IF verifier \in Clouds THEN {t, [t EXCEPT !.kid = {"k2"}]}
  ELSE {t} \cup {[t EXCEPT !.alg = a] : a \in Algorithms \cup {"none"}}
           \cup {[t EXCEPT !.kid = k] : k \in {{}, {"k1"}, {"k2"}, {"other"}}}
           \cup {[t EXCEPT !.exp = {MaxClock}], [t EXCEPT !.sub = {"bob"}], [t EXCEPT !.aud = {"them"}],
                 [t EXCEPT !.iss = {"other issuer"}], [t EXCEPT !.type = {"robot"}]}
           \cup (IF verifier = "dpop" THEN {[t EXCEPT !.htm = {"GET"}], [t EXCEPT !.ath = {"hash"}]} ELSE {})

NoCall == [step |-> "idle", token |-> {}, asked |-> 0, keys |-> {}]
NoVerdict == [token |-> {}, ok |-> FALSE, identity |-> {}]

Init ==
  /\ verifier \in Clouds \cup {"oauth", "gnap", "dpop"}
  /\ clock = 0 /\ published = {"k1"}
  /\ since = [k \in Kids |-> 0] /\ last = [k \in Kids |-> IF k = "k1" THEN 0 ELSE -100]
  /\ minted = {} /\ cache = {}
  /\ call = [c \in Callers |-> NoCall]
  /\ verdict = NoVerdict /\ verdicts = 0

\* A request in flight ends within the client's timeout.
Tick ==
  /\ clock < MaxClock
  /\ \A c \in Callers : call[c].step # "idle" => clock + 1 - call[c].asked <= RequestLimit
  /\ clock' = clock + 1
  /\ last' = [k \in Kids |-> IF k \in published THEN clock + 1 ELSE last[k]]
  /\ verdict' = NoVerdict
  /\ UNCHANGED <<verifier, published, since, minted, cache, call, verdicts>>

\* The issuer replaces its keys: k2 comes, k1 goes, at once or with overlap.
Rotate(keys) ==
  /\ verifier \in Clouds /\ keys # published
  /\ "k2" \in keys /\ ("k1" \in keys => "k1" \in published)
  /\ published' = keys
  /\ since' = [k \in Kids |-> IF k \in keys \ published THEN clock ELSE since[k]]
  /\ last' = [k \in Kids |-> IF k \in keys THEN clock ELSE last[k]]
  /\ verdict' = NoVerdict
  /\ UNCHANGED <<verifier, clock, minted, cache, call, verdicts>>

Mint ==
  /\ Cardinality(minted) < MaxTokens
  /\ \E key \in IF verifier = "dpop" THEN ClientKeys ELSE IssuerKeys : \E d \in Drafts(key) :
       \E t \in encode(d, key) : minted' = minted \cup {t}
  /\ verdict' = NoVerdict
  /\ UNCHANGED <<verifier, clock, published, since, last, cache, call, verdicts>>

Answered(t, identity) == verdict' = [token |-> {t}, ok |-> identity # {}, identity |-> identity]

\* A token is presented to a verifier that has the keys.
Present ==
  /\ verifier \notin Clouds /\ verdicts < MaxVerdicts
  /\ \E p \in minted : \E t \in Changes(p) :
       Answered(t, CASE verifier = "oauth" -> verify_token(t)
                     [] verifier = "gnap" -> verify_access_token(t, Client)
                     [] verifier = "dpop" ->
                          IF verify_dpop_proof(t, "POST", "u", {"hash"}, jwk_thumbprint(Client))
                          THEN {Client.key} ELSE {})
  /\ verdicts' = verdicts + 1
  /\ UNCHANGED <<verifier, clock, published, since, last, minted, cache, call>>

Verdict(keys, t) ==
  Answered(t, IF verifier = "azure"
              THEN UNION {managed_identity_to_actor(u) : u \in azure_verify(keys, t)}
              ELSE gcp_verify(keys, t))

\* verify: the header is checked before the keys are fetched; with cached
\* keys the answer comes at once.
Verify(c) ==
  /\ verifier \in Clouds /\ call[c].step = "idle" /\ verdicts < MaxVerdicts
  /\ \E p \in minted : \E t \in Changes(p) :
       /\ t.alg = "RS256" /\ t.kid # {}
       /\ IF Cached # {}
          THEN Verdict(The(Cached), t) /\ UNCHANGED call
          ELSE /\ call' = [call EXCEPT ![c] = [step |-> "sent", token |-> {t}, asked |-> clock, keys |-> {}]]
               /\ verdict' = NoVerdict
  /\ verdicts' = verdicts + 1
  /\ UNCHANGED <<verifier, clock, published, since, last, minted, cache>>

\* The endpoint answers with the keys it publishes at that moment.
Serve(c) ==
  /\ call[c].step = "sent"
  /\ call' = [call EXCEPT ![c].step = "served", ![c].keys = published]
  /\ verdict' = NoVerdict
  /\ UNCHANGED <<verifier, clock, published, since, last, minted, cache, verdicts>>

\* fetch_keys, second part: the response is cached, over a newer one if the
\* requests overtook each other, and verify goes on with it.
fetch_keys(c) ==
  /\ call[c].step = "served"
  /\ cache' = {[fetched_at |-> clock, keys |-> call[c].keys]}
  /\ Verdict(call[c].keys, The(call[c].token))
  /\ call' = [call EXCEPT ![c] = NoCall]
  /\ UNCHANGED <<verifier, clock, published, since, last, minted, verdicts>>

FetchFails(c) ==
  /\ call[c].step \in {"sent", "served"}
  /\ call' = [call EXCEPT ![c] = NoCall]
  /\ verdict' = NoVerdict
  /\ UNCHANGED <<verifier, clock, published, since, last, minted, cache, verdicts>>

Next ==
  \/ Tick
  \/ \E keys \in SUBSET Kids : Rotate(keys)
  \/ Mint
  \/ Present
  \/ \E c \in Callers : Verify(c) \/ Serve(c) \/ fetch_keys(c) \/ FetchFails(c)

Spec == Init /\ [][Next]_vars

-----------------------------------------------------------------------------
Leeway == IF verifier = "oauth" THEN Tolerance ELSE 0
\* A token whoever asks must honour: in force, ours, about someone.
Good(t) ==
  /\ t \in minted
  /\ t.iss = {Ours} /\ t.aud = Audience
  /\ \E e \in t.exp : e + Leeway >= clock
  /\ verifier # "gnap" => t.sub # {}
  /\ \A jkt \in t.cnf : jkt = Client.key

\* Whatever is presented, an accepted token is one the issuer minted, entire,
\* for us, bound to no other client and in force now; the cloud bridges
\* honour no key that left the issuer's endpoint longer ago than a cached set
\* can live (the time to live and one request), and refuse none that has been
\* there as long, in whatever order fetches, rotations and callers interleave.
\* The actor is the token's subject (the directory object, on Azure).
TokensHonoured ==
  \A t \in verdict.token : verifier # "dpop" =>
    /\ verdict.ok =>
         /\ Good(t)
         /\ verifier \in Clouds => last[The(t.kid)] >= clock - TTL - RequestLimit
         /\ verifier \in {"oauth", "azure"} => \A i \in verdict.identity :
              i.actor[3] = The(IF t.oid = {} THEN t.sub ELSE t.oid)
    /\ (/\ Good(t)
        /\ verifier \in Clouds => /\ t.kid \subseteq published
                                  /\ since[The(t.kid)] <= clock - TTL - RequestLimit)
       => verdict.ok

\* A proof of possession is accepted exactly when the client whose key the
\* access token is bound to made it for this method, address and token.
ProofsOfPossession ==
  \A t \in verdict.token : verifier = "dpop" =>
    (verdict.ok <=> /\ t \in minted /\ t.signature.key = Client.key
                    /\ t.htm = {"POST"} /\ t.ath = {"hash"})
=============================================================================
