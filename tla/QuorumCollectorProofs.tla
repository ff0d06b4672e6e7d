------------------------ MODULE QuorumCollectorProofs ------------------------
(***************************************************************************)
(* What an outcome of the quorum collector rests on, for every list of     *)
(* eligible actors (repetitions included) and every threshold.  The        *)
(* inductive invariant VoteInv says that the two lists of votes are        *)
(* disjoint, eligible and free of repetitions, so that their lengths,      *)
(* which is all the code compares, count actors.                           *)
(***************************************************************************)
EXTENDS QuorumCollector, FiniteSetTheorems, TLAPS

\* A list of votes: eligible actors, each once.
Counted(s) ==
    /\ Range(s) \subseteq Range(Of)
    /\ IsFiniteSet(Range(s))
    /\ Cardinality(Range(s)) = Len(s)

VoteInv ==
    /\ TypeOK
    /\ Counted(approvers)
    /\ Counted(deniers)
    /\ Range(approvers) \cap Range(deniers) = {}
    /\ Len(signers) = Len(approvers)
    /\ ApprovalJustified
    /\ DenialJustified

\* Appending a vote adds one actor to those who voted.
LEMMA AppendRange ==
    ASSUME NEW s \in Seq(Actor), NEW a \in Actor
    PROVE  Range(Append(s, a)) = Range(s) \cup {a}
<1>1. DOMAIN s = 1..Len(s) /\ DOMAIN Append(s, a) = 1..(Len(s) + 1)
  OBVIOUS
<1>2. \A i \in 1..Len(s) : Append(s, a)[i] = s[i]
  OBVIOUS
<1>3. Append(s, a)[Len(s) + 1] = a
  OBVIOUS
<1>4. ASSUME NEW x \in Range(Append(s, a)) PROVE x \in Range(s) \cup {a}
  <2>1. PICK i \in 1..(Len(s) + 1) : x = Append(s, a)[i]
    BY <1>1, <1>4 DEF Range
  <2>2. CASE i = Len(s) + 1
    BY <2>1, <2>2, <1>3
  <2>3. CASE i \in 1..Len(s)
    BY <2>1, <2>3, <1>1, <1>2 DEF Range
  <2>4. QED
    BY <2>2, <2>3
<1>5. ASSUME NEW x \in Range(s) PROVE x \in Range(Append(s, a))
  <2>1. PICK i \in 1..Len(s) : x = s[i]
    BY <1>1, <1>5 DEF Range
  <2>2. i \in DOMAIN Append(s, a) /\ Append(s, a)[i] = x
    BY <2>1, <1>1, <1>2
  <2>3. QED
    BY <2>2 DEF Range
<1>6. a \in Range(Append(s, a))
  <2>1. Len(s) + 1 \in DOMAIN Append(s, a)
    BY <1>1
  <2>2. QED
    BY <2>1, <1>3 DEF Range
<1>7. QED
  BY <1>4, <1>5, <1>6

\* A list of votes stays free of repetitions when a new eligible actor votes.
LEMMA CountedAppend ==
    ASSUME NEW s \in Seq(Actor), NEW a \in Actor, Counted(s),
           a \in Range(Of), a \notin Range(s)
    PROVE  Counted(Append(s, a))
<1>1. Range(Append(s, a)) = Range(s) \cup {a}
  BY AppendRange
<1>2. IsFiniteSet(Range(s) \cup {a})
      /\ Cardinality(Range(s) \cup {a}) = Cardinality(Range(s)) + 1
  BY FS_AddElement DEF Counted
<1>3. Len(Append(s, a)) = Len(s) + 1
  OBVIOUS
<1>4. QED
  BY <1>1, <1>2, <1>3 DEF Counted

\* The eligible actors are finitely many, at most as many as the list is long.
LEMMA EligibleFinite ==
    IsFiniteSet(Range(Of)) /\ Cardinality(Range(Of)) <= Len(Of)
<1>1. Of \in Surjection(1..Len(Of), Range(Of))
  <2>1. DOMAIN Of = 1..Len(Of) /\ Of \in [1..Len(Of) -> Actor]
    BY QuorumAssumption
  <2>2. Of \in [1..Len(Of) -> Range(Of)]
    BY <2>1 DEF Range
  <2>3. \A t \in Range(Of) : \E i \in 1..Len(Of) : Of[i] = t
    BY <2>1 DEF Range
  <2>4. QED
    BY <2>2, <2>3 DEF Surjection
<1>2. Len(Of) \in Nat
  BY QuorumAssumption
<1>3. IsFiniteSet(1..Len(Of)) /\ Cardinality(1..Len(Of)) = Len(Of)
  <2>1. /\ IsFiniteSet(1..Len(Of))
        /\ Cardinality(1..Len(Of)) = IF 1 > Len(Of) THEN 0 ELSE Len(Of) - 1 + 1
    BY <1>2, FS_Interval, 1 \in Int, Len(Of) \in Int
  <2>2. QED
    BY <2>1, <1>2
<1>4. QED
  BY <1>1, <1>3, FS_Surjection

\* Two disjoint lists of votes that are together as long as Of hold everyone.
LEMMA Exhausted ==
    ASSUME NEW s \in Seq(Actor), NEW t \in Seq(Actor), Counted(s), Counted(t),
           Range(s) \cap Range(t) = {}, Len(s) + Len(t) >= Len(Of)
    PROVE  Range(s) \cup Range(t) = Range(Of)
<1> DEFINE U == Range(s) \cup Range(t)
<1>1. IsFiniteSet(U)
      /\ Cardinality(U) = Cardinality(Range(s)) + Cardinality(Range(t))
                          - Cardinality(Range(s) \cap Range(t))
  BY FS_Union DEF Counted
<1>2. Cardinality(Range(s) \cap Range(t)) = 0
  BY FS_EmptySet, Zenon
<1>3. Cardinality(U) = Len(s) + Len(t)
  <2>1. Len(s) \in Nat /\ Len(t) \in Nat
    OBVIOUS
  <2>2. Cardinality(Range(s)) = Len(s) /\ Cardinality(Range(t)) = Len(t)
    BY DEF Counted
  <2>3. QED
    BY <1>1, <1>2, <2>1, <2>2
<1>4. U \in SUBSET Range(Of)
  BY DEF Counted
<1>5. Cardinality(U) <= Cardinality(Range(Of))
      /\ (Cardinality(Range(Of)) = Cardinality(U) => Range(Of) = U)
  BY <1>4, EligibleFinite, FS_Subset
<1>6. Cardinality(Range(Of)) \in Nat
  BY EligibleFinite, FS_CardinalityType
<1>7. Len(s) \in Nat /\ Len(t) \in Nat /\ Len(Of) \in Nat
  BY QuorumAssumption
<1>8. Cardinality(Range(Of)) = Cardinality(U)
  BY <1>3, <1>5, <1>6, <1>7, EligibleFinite
<1>9. QED
  BY <1>5, <1>8

\* Every vote keeps VoteInv: the voter was in neither list.
LEMMA VoteStep ==
    ASSUME VoteInv, Next
    PROVE  VoteInv'
<1>1. PICK a \in Actor, signer \in Actor, decision \in {"approve", "deny"} :
            RespondAs(a, decision, signer)
  BY DEF Next
<1>2. a \in Range(Of) /\ a \notin Range(approvers) /\ a \notin Range(deniers)
  BY <1>1 DEF RespondAs, HasVoted
<1>3. /\ approvers \in Seq(Actor) /\ deniers \in Seq(Actor) /\ signers \in Seq(Actor)
      /\ Len(signers) = Len(approvers)
      /\ Counted(approvers) /\ Counted(deniers)
      /\ Range(approvers) \cap Range(deniers) = {}
  BY DEF VoteInv, TypeOK
<1>4. /\ approvers' \in Seq(Actor) /\ deniers' \in Seq(Actor) /\ signers' \in Seq(Actor)
      /\ Len(signers') = Len(approvers')
      /\ Counted(approvers') /\ Counted(deniers')
      /\ Range(approvers') \cap Range(deniers') = {}
  <2>1. CASE /\ approvers' = Append(approvers, a)
             /\ signers' = Append(signers, signer)
             /\ deniers' = deniers
    <3>1. Counted(approvers')
      BY <2>1, <1>2, <1>3, CountedAppend
    <3>2. Range(approvers') = Range(approvers) \cup {a}
      BY <2>1, <1>3, AppendRange
    <3>3. Range(approvers') \cap Range(deniers') = {}
      BY <3>2, <2>1, <1>2, <1>3
    <3>4. /\ approvers' \in Seq(Actor) /\ signers' \in Seq(Actor)
          /\ Len(signers') = Len(approvers')
      BY <2>1, <1>3
    <3>5. QED
      BY <3>1, <3>3, <3>4, <2>1, <1>3
  <2>2. CASE /\ deniers' = Append(deniers, a)
             /\ approvers' = approvers
             /\ signers' = signers
    <3>1. Counted(deniers')
      BY <2>2, <1>2, <1>3, CountedAppend
    <3>2. Range(deniers') = Range(deniers) \cup {a}
      BY <2>2, <1>3, AppendRange
    <3>3. Range(approvers') \cap Range(deniers') = {}
      BY <3>2, <2>2, <1>2, <1>3
    <3>4. deniers' \in Seq(Actor)
      BY <2>2, <1>3
    <3>5. QED
      BY <3>1, <3>3, <3>4, <2>2, <1>3
  <2>3. QED
    BY <1>1, <2>1, <2>2 DEF RespondAs
<1>5. Counted(approvers)' /\ Counted(deniers)'
  BY <1>4 DEF Counted
<1>6. CASE outcome' = outcome
  <2>1. TypeOK' /\ ApprovalJustified' /\ DenialJustified'
    BY <1>4, <1>6 DEF VoteInv, TypeOK, ApprovalJustified, DenialJustified
  <2>2. QED
    BY <2>1, <1>4, <1>5 DEF VoteInv
<1>7. CASE outcome' = Materialise("approve") /\ Len(approvers') >= MinApprovers
  <2>1. TypeOK'
    BY <1>4, <1>7 DEF TypeOK, Outcome, Materialise
  <2>2. ApprovalJustified'
    BY <1>4, <1>7 DEF ApprovalJustified, Materialise, Counted
  <2>3. DenialJustified'
    BY <1>7 DEF DenialJustified, Materialise
  <2>4. QED
    BY <2>1, <2>2, <2>3, <1>4, <1>5 DEF VoteInv
<1>8. CASE /\ outcome' = Materialise("deny")
           /\ ~(Len(approvers') >= MinApprovers)
           /\ Len(approvers') + Len(deniers') >= Len(Of)
  <2>1. TypeOK'
    BY <1>4, <1>8 DEF TypeOK, Outcome, Materialise
  <2>2. ApprovalJustified'
    BY <1>8 DEF ApprovalJustified, Materialise
  <2>3. Range(approvers') \cup Range(deniers') = Range(Of)
    BY <1>4, <1>8, Exhausted
  <2>4. Cardinality(Range(approvers')) < MinApprovers
    <3>1. Cardinality(Range(approvers')) = Len(approvers')
      BY <1>4 DEF Counted
    <3>2. QED
      BY <3>1, <1>4, <1>8, QuorumAssumption
  <2>5. DenialJustified'
    BY <2>3, <2>4, <1>8 DEF DenialJustified, Materialise
  <2>6. QED
    BY <2>1, <2>2, <2>5, <1>4, <1>5 DEF VoteInv
<1>9. \/ outcome' = outcome
      \/ outcome' = Materialise("approve") /\ Len(approvers') >= MinApprovers
      \/ /\ outcome' = Materialise("deny")
         /\ Len(approvers') + Len(deniers') >= Len(Of)
         /\ outcome = NoOutcome
         /\ ~(Len(approvers') >= MinApprovers)
  BY <1>1 DEF RespondAs, Resolve
<1>10. QED
  BY <1>6, <1>7, <1>8, <1>9

\* VoteInv holds at the start and on every step.
LEMMA VoteInvariant == Spec => []VoteInv
<1>1. Init => VoteInv
  <2>1. Range(<<>>) = {}
    BY DEF Range
  <2>2. Cardinality({}) = 0 /\ IsFiniteSet({})
    BY FS_EmptySet
  <2>3. Counted(<<>>)
    BY <2>1, <2>2 DEF Counted
  <2>4. QED
    BY <2>1, <2>3 DEF Init, VoteInv, TypeOK, Outcome, NoOutcome,
                      ApprovalJustified, DenialJustified
<1>2. VoteInv /\ UNCHANGED vars => VoteInv'
  BY DEF VoteInv, vars, TypeOK, Counted, ApprovalJustified, DenialJustified
<1>3. VoteInv /\ [Next]_vars => VoteInv'
  BY <1>2, VoteStep
<1>4. QED
  BY <1>1, <1>3, PTL DEF Spec

\* The votes and the outcome keep their types.
THEOREM TypeCorrect == Spec => []TypeOK
<1>1. VoteInv => TypeOK
  BY DEF VoteInv
<1>2. QED
  BY <1>1, VoteInvariant, PTL

\* An approval always rests on MinApprovers different eligible actors, with a
\* signature each, whoever is listed how often in QuorumConfig::of.
THEOREM ApprovalSound == Spec => []ApprovalJustified
<1>1. VoteInv => ApprovalJustified
  BY DEF VoteInv
<1>2. QED
  BY <1>1, VoteInvariant, PTL

\* A denial is never premature: every eligible actor has voted and fewer than
\* MinApprovers approved.
THEOREM DenialSound == Spec => []DenialJustified
<1>1. VoteInv => DenialJustified
  BY DEF VoteInv
<1>2. QED
  BY <1>1, VoteInvariant, PTL
=============================================================================
