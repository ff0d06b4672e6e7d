--------------------------- MODULE QuorumCollector ---------------------------
(***************************************************************************)
(* QuorumApprovalCollector of crates/tf-types/src/quorum.rs: one handle,   *)
(* on which any actor may vote at any time, in any order and repeatedly.   *)
(* respond_as does all of its work on the votes under one lock, so it is   *)
(* one action.                                                             *)
(***************************************************************************)
EXTENDS Naturals, Sequences, FiniteSets, Functions

CONSTANTS Actor,         \* everyone who may call respond_as
          Of,            \* QuorumConfig::of, a list as the policy gives it
          MinApprovers   \* QuorumConfig::min_approvers

\* What QuorumApprovalCollector::new checks.
ASSUME QuorumAssumption ==
    /\ Of \in Seq(Actor)
    /\ MinApprovers \in Nat
    /\ 1 <= MinApprovers
    /\ MinApprovers <= Len(Of)

VARIABLES approvers, deniers, signers, outcome

vars == <<approvers, deniers, signers, outcome>>

NoOutcome == [decision |-> "none", approvers |-> <<>>, deniers |-> <<>>,
              signers |-> <<>>]

Outcome == [decision: {"none", "approve", "deny"}, approvers: Seq(Actor),
            deniers: Seq(Actor), signers: Seq(Actor)]

Init ==
    /\ approvers = <<>>
    /\ deniers = <<>>
    /\ signers = <<>>
    /\ outcome = NoOutcome

\* Nobody is remembered.
HasVotedNever(a) == FALSE

HasVoted(a) == a \in Range(approvers) \cup Range(deniers)

\* The outcome is a snapshot of the votes after this one.
Materialise(decision) ==
    [decision |-> decision, approvers |-> approvers', deniers |-> deniers',
     signers |-> signers']

\* MinApprovers votes of any kind decide.
ResolveEarly ==
    outcome' = IF Len(approvers') >= MinApprovers /\ outcome = NoOutcome
               THEN Materialise("approve")
               ELSE IF Len(approvers') + Len(deniers') >= MinApprovers /\ outcome = NoOutcome
                    THEN Materialise("deny")
               ELSE outcome

\* The last vote of the eligible set is not counted.
ResolveOffByOne ==
    outcome' = IF Len(approvers') >= MinApprovers /\ outcome = NoOutcome
               THEN Materialise("approve")
               ELSE IF Len(approvers') + Len(deniers') > Len(Of) /\ outcome = NoOutcome
                    THEN Materialise("deny")
               ELSE outcome

Resolve ==
    outcome' = IF Len(approvers') >= MinApprovers /\ outcome = NoOutcome
               THEN Materialise("approve")
               ELSE IF Len(approvers') + Len(deniers') >= Len(Of) /\ outcome = NoOutcome
                    THEN Materialise("deny")
               ELSE outcome

\* respond_as by an eligible actor who has not voted; every other call
\* changes nothing.  The signature comes from the caller, with its signer.
RespondAs(a, decision, signer) ==
    /\ a \in Range(Of)
    /\ ~HasVoted(a)
    /\ \/ /\ decision = "approve"
          /\ approvers' = Append(approvers, a)
          /\ signers' = Append(signers, signer)
          /\ UNCHANGED deniers
       \/ /\ decision = "deny"
          /\ deniers' = Append(deniers, a)
          /\ UNCHANGED <<approvers, signers>>
    /\ Resolve

Next == \E a, signer \in Actor, decision \in {"approve", "deny"} :
            RespondAs(a, decision, signer)

Spec == Init /\ [][Next]_vars

-----------------------------------------------------------------------------
TypeOK ==
    /\ approvers \in Seq(Actor)
    /\ deniers \in Seq(Actor)
    /\ signers \in Seq(Actor)
    /\ outcome \in Outcome

\* An approval rests on MinApprovers different eligible actors and as many
\* signatures, none of whom also denied (respond_as counts list entries).
ApprovalJustified ==
    outcome.decision = "approve" =>
        LET yes == Range(outcome.approvers) IN
        /\ Cardinality(yes) >= MinApprovers
        /\ yes \subseteq Range(Of)
        /\ yes \cap Range(outcome.deniers) = {}
        /\ Len(outcome.signers) = Cardinality(yes)

\* A denial means that every eligible actor has voted and too few approved:
\* no vote still to come could have changed it (respond_as compares counts).
DenialJustified ==
    outcome.decision = "deny" =>
        /\ Range(outcome.approvers) \cup Range(outcome.deniers) = Range(Of)
        /\ Cardinality(Range(outcome.approvers)) < MinApprovers

\* "Resolve when min_approvers has approved or the entire eligible set has
\* voted (deny wins by exhaustion)", tools/tf-types-ts/src/core/quorum.ts:104,
\* which quorum.rs mirrors.
ExhaustionDecides ==
    Range(Of) = Range(approvers) \cup Range(deniers) => outcome # NoOutcome
=============================================================================
