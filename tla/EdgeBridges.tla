----------------------------- MODULE EdgeBridges -----------------------------
(***************************************************************************)
(* What TrustForge takes over from tools and services at its edge: signed  *)
(* webhooks (bridge_webhook.rs), DID keys (bridge_did.rs), the tools of an *)
(* MCP server (bridge_mcp.rs), the capabilities of an A2A agent card       *)
(* (bridge_a2a.rs), and the registry that says which bridge answers for an *)
(* issuer (bridges_registry.rs).  All of them functions of their           *)
(* arguments.                                                              *)
(*                                                                         *)
(* Texts are sequences of characters, from a small alphabet with one       *)
(* member of every class the code tells apart; bytes are numbers below     *)
(* 256; a Result or Option is a set with at most one member.               *)
(***************************************************************************)
EXTENDS Integers, Sequences, FiniteSets, SequencesExt, SignedData

Value(option) == CHOOSE x \in option : TRUE

-----------------------------------------------------------------------------
(* bridge_webhook.rs.  A timestamp is a number or an ISO 8601 text, that    *)
(* can be read or not; the secret names the key that signs.                 *)
\* What the timestamp says: an unreadable number is the epoch, an unreadable
\* ISO 8601 text says nothing.
parse_timestamp(ts) ==
  CASE ts.form = "number" -> {IF ts.readable THEN ts.at ELSE 0}
    [] ts.form = "iso8601" -> IF ts.readable THEN {ts.at} ELSE {}

signature_ok(scheme, key, args) ==
  IF scheme = "Ed25519"
  THEN args.timestamp # {} /\ Verifies(key, <<Value(args.timestamp), args.body>>, args.signature)
  ELSE Verifies(key, <<args.body>>, args.signature)

\* Every other character of the event type becomes an underscore.
EventName(text) == [i \in DOMAIN text |-> IF text[i] \in {"a", "1", ".", "_", "-"} THEN text[i] ELSE "_"]
Distance(a, b) == IF a > b THEN a - b ELSE b - a
verify_webhook(cfg, args) ==
  IF \/ ~signature_ok(cfg.scheme, cfg.key, args)
     \/ \E ts \in args.timestamp : \E t \in parse_timestamp(ts) : Distance(args.now, t) > cfg.max_age
  THEN {}
  ELSE {[actor |-> <<cfg.trust_domain, cfg.vendor>>, action |-> <<"webhook", cfg.vendor, EventName(args.event_type)>>,
         id |-> args.event_id, at |-> args.now]}

-----------------------------------------------------------------------------
(* bridge_did.rs.  A base-58 digit is its value; "1" is the digit 0.        *)
RECURSIVE LeadingZeros(_)
LeadingZeros(s) == IF s # <<>> /\ s[1] = 0 THEN 1 + LeadingZeros(Tail(s)) ELSE 0
RECURSIVE Zeros(_)
Zeros(n) == IF n = 0 THEN <<>> ELSE Append(Zeros(n - 1), 0)
Stripped(s) == SubSeq(s, LeadingZeros(s) + 1, Len(s))

\* One more digit of the input: the buffer times base_in plus the digit, in
\* base_out, from its last place to its first; <<buffer, what does not fit>>.
RECURSIVE Carried(_, _, _, _, _)
Carried(buf, j, carry, base_in, base_out) ==
  IF j = 0 THEN <<buf, carry>>
  ELSE LET c == carry + buf[j] * base_in
       IN Carried([buf EXCEPT ![j] = c % base_out], j - 1, c \div base_out, base_in, base_out)

CeilDiv(a, b) == (a + b - 1) \div b

base58btc_encode(bytes) ==
  IF bytes = <<>> THEN <<>>
  ELSE Zeros(LeadingZeros(bytes))
       \o Stripped(FoldLeft(LAMBDA buf, b : Carried(buf, Len(buf), b, 256, 58)[1],
                            Zeros(CeilDiv(Len(bytes) * 1366, 1000) + 1), Stripped(bytes)))

\* A digit outside the alphabet, 58 here, or a carry that does not fit, fails.
base58btc_decode(s) ==
  LET body == Stripped(s)
      Step(a, d) == LET c == Carried(a[1], Len(a[1]), d, 58, 256) IN <<c[1], a[2] \/ d = 58 \/ c[2] # 0>>
      end == FoldLeft(Step, <<Zeros(CeilDiv(Len(body) * 733, 1000) + 1), FALSE>>, body)
  IN IF s = <<>> THEN {<<>>}
     ELSE IF end[2] THEN {} ELSE {Zeros(LeadingZeros(s)) \o Stripped(end[1])}

\* The method, "key" or another, and the multibase text; resolve_did_key.
resolve_did_key(cfg, did) ==
  IF \/ \E allow \in cfg.allowed_methods : did.method \notin allow
     \/ did.method # "key"
  THEN {}
  ELSE {[id |-> did, methods |-> <<[multibase |-> {did.multibase}, jwk |-> {}]>>]}

ed25519_public_key_to_did_key(key, size) ==
  IF Len(key) # size THEN {} ELSE {[base |-> "z", digits |-> base58btc_encode(<<237, 1>> \o key)]}

decode_multibase(m) == IF m.base = "z" THEN base58btc_decode(m.digits) ELSE {}
extract_public_key(vm) ==
  CASE vm.multibase # {} ->
         {IF Len(d) >= 2 /\ d[1] = 237 /\ d[2] = 1
          THEN [algorithm |-> "ed25519", bytes |-> SubSeq(d, 3, Len(d))]
          ELSE [algorithm |-> "other", bytes |-> d] : d \in decode_multibase(Value(vm.multibase))}
    [] vm.multibase = {} /\ vm.jwk # {} -> {[algorithm |-> "ed25519", bytes |-> x] : x \in vm.jwk}
    [] OTHER -> {}
\* accept: the first verification method is the identity's key.
accept_did(cfg, doc) ==
  IF doc.methods = <<>> THEN {}
  ELSE {[actor |-> <<cfg.trust_domain, doc.id>>, key |-> k] : k \in extract_public_key(doc.methods[1])}

-----------------------------------------------------------------------------
(* Action names, as bridge_mcp.rs, bridge_a2a.rs and bridges_registry.rs    *)
(* make and check them.                                                     *)
Lower == {"a", "b"}
Upper == {"A"}
Digits == {"1"}
LowerOf(c) == IF c = "A" THEN "a" ELSE c

RECURSIVE Split(_, _)
Split(s, c) ==
  LET i == SelectInSeq(s, LAMBDA x : x = c)
  IN IF i = 0 THEN <<s>> ELSE <<SubSeq(s, 1, i - 1)>> \o Split(SubSeq(s, i + 1, Len(s)), c)

valid_action_segment(s) ==
  /\ s # <<>> /\ s[1] \in Lower
  /\ \A i \in 2..Len(s) : s[i] \in Lower \cup Digits \cup {"_"}
\* bridge_mcp.rs and bridge_a2a.rs count the segments, bridges_registry.rs the
\* segments after the first.
is_valid_action_name(s) ==
  LET segments == Split(s, ".") IN (\A i \in DOMAIN segments : valid_action_segment(segments[i])) /\ Len(segments) >= 2
validate_action_name(s) ==
  LET segments == Split(s, ".")
  IN /\ segments[1] # <<>> /\ valid_action_segment(segments[1])
     /\ \A i \in 2..Len(segments) : valid_action_segment(segments[i])
     /\ Len(segments) - 1 >= 1

RECURSIVE TrimUnderscores(_)
TrimUnderscores(s) ==
  IF s # <<>> /\ s[1] = "_" THEN TrimUnderscores(Tail(s))
  ELSE IF s # <<>> /\ Last(s) = "_" THEN TrimUnderscores(Front(s)) ELSE s
\* Runs of other characters become one underscore.
Scrubbed(name) ==
  LET Step(a, c) ==
        CASE c \in Lower \cup Upper \cup Digits -> [out |-> Append(a.out, LowerOf(c)), under |-> FALSE]
          [] OTHER -> IF a.under THEN a ELSE [out |-> Append(a.out, "_"), under |-> TRUE]
  IN TrimUnderscores(FoldLeft(Step, [out |-> <<>>, under |-> FALSE], name).out)
Prefixed(prefix, scrubbed, family) ==
  LET name == IF prefix = {} THEN scrubbed ELSE Value(prefix) \o <<".">> \o scrubbed
  IN IF SelectInSeq(name, LAMBDA c : c = ".") # 0 THEN name ELSE family \o <<".">> \o name

\* An empty prefix is no prefix to bridge_mcp.rs; to bridge_a2a.rs it is one.
normalize_tool_name(name, prefix) == Prefixed(prefix \ {<<>>}, Scrubbed(name), <<"a", "b">>)
a2a_normalise_capability(name, prefix) == Prefixed(prefix, Scrubbed(name), <<"b", "a">>)

\* mcp_to_contract_actions: one bad name refuses the whole list.
mcp_to_contract_actions(tools, opts) ==
  IF \E i \in DOMAIN tools : tools[i].name = <<>> \/ ~is_valid_action_name(normalize_tool_name(tools[i].name, opts.prefix))
  THEN {}
  ELSE {[i \in DOMAIN tools |->
           [name |-> normalize_tool_name(tools[i].name, opts.prefix), description |-> tools[i].description,
            danger |-> IF tools[i].name \in DOMAIN opts.danger THEN opts.danger[tools[i].name] ELSE {}]]}
\* contract_to_mcp_tools: the danger tags are told in the description.
contract_to_mcp_tools(actions) ==
  [i \in DOMAIN actions |-> [name |-> actions[i].name,
                             description |-> <<actions[i].danger, actions[i].description>>]]

\* accept_agent_card
accept_agent_card(cfg, card) ==
  LET Action(c) == a2a_normalise_capability(c.name, {})
  IN IF \/ card.agent_id = "" \/ card.trust_domain = ""
        \/ \E i \in DOMAIN card.capabilities : ~is_valid_action_name(Action(card.capabilities[i]))
     THEN {}
     ELSE {[actor |-> <<card.trust_domain, card.agent_id>>,
            algorithm |-> IF card.key = {} THEN "external-attestation"
                          ELSE IF card.algorithm = {} THEN "ed25519" ELSE Value(card.algorithm),
            key |-> IF card.key = {} THEN <<"agent-card", card.agent_id>> ELSE Value(card.key),
            capabilities |-> [i \in DOMAIN card.capabilities |->
              <<Action(card.capabilities[i]),
                IF card.capabilities[i].risk # {} THEN Value(card.capabilities[i].risk)
                ELSE IF cfg.default_risk # {} THEN Value(cfg.default_risk) ELSE "R2">>]]}

-----------------------------------------------------------------------------
(* bridges_registry.rs.  A document maps keys to values; "invalid" is a     *)
(* value of the wrong type or form, an absent or null key is missing.       *)
Invalid == <<"invalid">>
EntryKeys == {"kind", "issuer_match", "iss_pattern", "trust_domain", "trust_level", "capability_map", "profile"}
parse_entry(map) ==
  IF ~(DOMAIN map \subseteq EntryKeys) \/ "kind" \notin DOMAIN map \/ (\E k \in DOMAIN map : map[k] = Invalid)
  THEN {}
  ELSE {[k \in EntryKeys |-> IF k \in DOMAIN map THEN {map[k]} ELSE {}]}

from_str(doc) ==
  IF \/ doc.unknown_key \/ doc.default_profile = "invalid"
     \/ doc.version # "1" \/ doc.bridges = {}
     \/ \E i \in DOMAIN Value(doc.bridges) : parse_entry(Value(doc.bridges)[i]) = {}
  THEN {}
  ELSE {[i \in DOMAIN Value(doc.bridges) |-> Value(parse_entry(Value(doc.bridges)[i]))]}
\* load: no file is an empty registry, an unreadable one an error.
load(file) ==
  CASE file.state = "missing" -> {<<>>}
    [] file.state = "unreadable" -> {}
    [] file.state = "text" -> from_str(file.doc)

First(s, P(_)) ==
  LET i == SelectInSeq(s, P) IN IF i = 0 THEN {} ELSE {s[i]}
InText(p, t) == \E i \in 0..(Len(t) - Len(p)) : SubSeq(t, i + 1, i + Len(p)) = p

\* Exact matches first, then patterns, each in the order of the file.
resolve_by_issuer(registry, iss) ==
  LET exact == First(registry, LAMBDA e : e.issuer_match = {iss})
  IN IF iss = <<>> THEN {}
     ELSE IF exact # {} THEN exact
     ELSE First(registry, LAMBDA e : \E p \in e.iss_pattern : InText(p, iss))
resolve_by_kind(registry, kind) == First(registry, LAMBDA e : e.kind = {kind})
=============================================================================
