----------------------------- MODULE ProofChain -----------------------------
(***************************************************************************)
(* Hash chains of proof events (chain.rs) and the civil calendar in which  *)
(* every component stamps its artefacts (offline_approval.rs and its       *)
(* copies).  A digest is the content it is taken of: the hash of an event  *)
(* is the event without its signature, the hash of two concatenated        *)
(* digests the pair of them.                                               *)
(***************************************************************************)
EXTENDS Integers, Sequences, SequencesExt, SignedData

NoParent == <<>>
ZeroHash == <<"zero">>

\* Events are [body, parent_hash, signature]; the hash leaves the signature out.
event_hash(e) == <<"event", e.body, e.parent_hash>>

verify_chain(events) ==
  \A i \in 2..Len(events) :
    events[i].parent_hash # NoParent /\ events[i].parent_hash = event_hash(events[i - 1])

\* One level of the tree: the last node of an odd level is paired with itself.
RECURSIVE MerkleUp(_)
MerkleUp(level) ==
  LET even == IF Len(level) % 2 = 1 THEN Append(level, Last(level)) ELSE level
  IN IF Len(level) = 1 THEN level[1]
     ELSE MerkleUp([i \in 1..(Len(even) \div 2) |->
                      <<"pair", even[2 * i - 1], even[2 * i]>>])

merkle_root(events) ==
  IF events = <<>> THEN ZeroHash
  ELSE MerkleUp([i \in DOMAIN events |-> event_hash(events[i])])

chain_hash(events) ==
  FoldLeft(LAMBDA state, e : <<"pair", state, event_hash(e)>>, ZeroHash, events)

(***************************************************************************)
(* The calendar: days since 1970-01-01 to year, month and day, and back.   *)
(* TLA+'s \div rounds down where the code first adjusts negative numbers.  *)
(***************************************************************************)
secs_to_ymdhms(secs) ==
  LET days == secs \div 86400
      time == secs % 86400
      z == days + 719468
      era == z \div 146097
      doe == z - era * 146097
      yoe == (doe - doe \div 1460 + doe \div 36524 - doe \div 146096) \div 365
      doy == doe - (365 * yoe + yoe \div 4 - yoe \div 100)
      mp == (5 * doy + 2) \div 153
      m == IF mp < 10 THEN mp + 3 ELSE mp - 9
      y == yoe + era * 400
  IN [year |-> IF m <= 2 THEN y + 1 ELSE y, month |-> m,
      day |-> doy - (153 * mp + 2) \div 5 + 1,
      hour |-> time \div 3600, minute |-> (time % 3600) \div 60, second |-> time % 60]

unix_from_civil(c) ==
  LET y == IF c.month <= 2 THEN c.year - 1 ELSE c.year
      era == y \div 400
      yoe == y - era * 400
      m == IF c.month > 2 THEN c.month - 3 ELSE c.month + 9
      doy == (153 * m + 2) \div 5 + c.day - 1
      doe == yoe * 365 + yoe \div 4 - yoe \div 100 + doy
  IN (era * 146097 + doe - 719468) * 86400 + c.hour * 3600 + c.minute * 60 + c.second
=============================================================================
