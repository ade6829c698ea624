----------------------------- MODULE MCTreasury -----------------------------
(***************************************************************************)
(* Constants that make Treasury finite for TLC.  Each configuration picks  *)
(* the prizes that its question needs.                                     *)
(***************************************************************************)
EXTENDS TreasuryPromise, TLC

Sol(amount) == [kind |-> "sol", mint |-> "SOL", amount |-> amount]
Token(amount) == [kind |-> "token", mint |-> "TOKEN", amount |-> amount]
Badge == [kind |-> "badge", mint |-> "BADGE", amount |-> 1]

\* One plain prize: the question is about the draw, not about the slots.
SolOnly == {Sol(1)}

\* A prize that is held and one that is minted when it is claimed.
SolAndBadge == {Sol(1), Badge}

\* The same with the prize in the bundle's token account.
TokenAndBadge == {Token(1), Badge}

\* Openings are interchangeable until the oracle answers.
Openings == Permutations(Randomness)
=============================================================================
