--------------------------- MODULE OrderedChannel ---------------------------
(* What an established session promises its users, whatever happens to the *)
(* frames that carry it: each direction delivers the values sent on it, in *)
(* order, each at most once, and nothing else.                             *)
EXTENDS Naturals, Sequences

CONSTANTS End,         \* the two ends
          Value

VARIABLES sent,        \* sent[e]: the values end e has sent
          got          \* got[e]: those its peer has been given

Init == /\ sent = [e \in End |-> <<>>]
        /\ got = [e \in End |-> <<>>]

Send(e) == /\ \E v \in Value : sent' = [sent EXCEPT ![e] = Append(@, v)]
           /\ UNCHANGED got

Deliver(e) == /\ Len(got[e]) < Len(sent[e])
              /\ got' = [got EXCEPT ![e] = Append(@, sent[e][Len(@) + 1])]
              /\ UNCHANGED sent

Next == \E e \in End : Send(e) \/ Deliver(e)

Spec == Init /\ [][Next]_<<sent, got>>
=============================================================================
