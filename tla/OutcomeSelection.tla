-------------------------- MODULE OutcomeSelection --------------------------
(***************************************************************************)
(* select_outcome: how an opening's entropy becomes a ticket.  Up to Tries *)
(* digests of the entropy are taken in turn; the first one outside the     *)
(* rejected band of the word is reduced to a ticket below the bound.       *)
(*                                                                         *)
(* A digest is an arbitrary word.  The bound is the inventory at           *)
(* allocation, and any word, because the handler checks it here.           *)
(***************************************************************************)
EXTENDS Integers, FiniteSets

CONSTANTS
  Word,            \* number of 64-bit words, 2^64
  MaxTotalWeight,  \* MAX_TOTAL_WEIGHT
  Tries            \* eight digests

ASSUME SelectionAssumption ==
  /\ Word \in Nat \ {0}
  /\ MaxTotalWeight \in 1 .. Word - 1
  /\ Tries \in Nat \ {0}

VARIABLES bound, counter, status, target

selectionVars == <<bound, counter, status, target>>

Words == 0 .. Word - 1
Targets == 0 .. MaxTotalWeight - 1

SelectionTypeOK ==
  /\ bound \in Words
  /\ counter \in 0 .. Tries
  /\ status \in {"drawing", "selected", "invalid", "exhausted"}
  /\ target \in Targets
  /\ status = "selected" => target < bound

SelectionInit ==
  /\ bound \in Words
  /\ counter = 0
  /\ status = IF bound \in 1 .. MaxTotalWeight THEN "drawing" ELSE "invalid"
  /\ target = 0

-----------------------------------------------------------------------------
(* accept_uniform_candidate                                                *)

WrappingNeg(b) == (Word - b) % Word

NoRejection(b) == 0                              \* mutated RejectionThreshold
RejectionThreshold(b) == WrappingNeg(b) % b

Accepted(candidate, b) == candidate >= RejectionThreshold(b)

UnreducedResidue(candidate, b) == candidate          \* mutated Residue
Residue(candidate, b) == candidate % b

-----------------------------------------------------------------------------

Sample(candidate) ==
  /\ status = "drawing"
  /\ counter < Tries
  /\ IF Accepted(candidate, bound)
       THEN /\ status' = "selected"
            /\ target' = Residue(candidate, bound)
            /\ UNCHANGED counter
       ELSE counter' = counter + 1 /\ UNCHANGED <<status, target>>
  /\ UNCHANGED bound

Exhaust ==
  /\ status = "drawing"
  /\ counter = Tries
  /\ status' = "exhausted"
  /\ UNCHANGED <<bound, counter, target>>

Returned == status # "drawing" /\ UNCHANGED selectionVars

SelectionNext == (\E candidate \in Words : Sample(candidate)) \/ Exhaust \/ Returned

SelectionSpec == SelectionInit /\ [][SelectionNext]_selectionVars

-----------------------------------------------------------------------------

\* Nobody is favoured: every ticket of the inventory is reached by the same
\* number of words, for every bound, so the draw has no modulo bias.
Preimages(t, b) == {c \in Words : Accepted(c, b) /\ Residue(c, b) = t}
Uniform ==
  status # "invalid" =>
    \A t, u \in 0 .. bound - 1 :
      Cardinality(Preimages(t, bound)) = Cardinality(Preimages(u, bound))

\* A digest is rejected with a probability below one half, so all the tries
\* together fail with one below 2^-Tries.
MostWordsAccepted ==
  status # "invalid" => 2 * RejectionThreshold(bound) < Word
=============================================================================
