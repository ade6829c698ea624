-------------------------- MODULE TreasuryPromise --------------------------
(***************************************************************************)
(* The treasury of the program keeps the promise of BoxPromise.            *)
(***************************************************************************)
EXTENDS Treasury

\* The openings in the queue, oldest first.
Position(k) ==
  CHOOSE r \in Queued : opening[r].sequence = template.nextAllocation + k - 1

Line == [k \in 1 .. template.pendingOpenings |-> Position(k)]

\* What was won and is not yet delivered.
Owing == {r \in Randomness : opening[r].status = "allocated"}

Winnings == {<<r, opening[r].selected>> : r \in Owing}

Promise == INSTANCE BoxPromise WITH
  Bundles  <- BundleIndex,
  Openings <- Randomness,
  sealed   <- Final,
  stock    <- remaining,
  boxes    <- boxMint.supply,
  queue    <- Line,
  won      <- Winnings

\* Every behaviour of the program is one that BoxPromise allows, including
\* that openings settle in order and that prizes are delivered in the end.
PromiseKept == Promise!Spec
=============================================================================
