------------------------------ MODULE Delivery ------------------------------
(***************************************************************************)
(* LootboxClient.claim: the assets of one drawn bundle are delivered by      *)
(* anybody who likes to, in transactions that each take as many assets as    *)
(* fit.  A claimer reads the opening, leaves out what its mask says has been *)
(* claimed, sends one batch, and reads the opening again before the next.    *)
(* Two claimers do this to the same opening without knowing of each other.   *)
(*                                                                           *)
(* An asset of a compressed tree is delivered with a proof that was read     *)
(* before, and that may be too old when the tree has moved.  The asset of a  *)
(* prize pool is drawn item by item, and its account may be closed when the  *)
(* treasury retires (PrizePool); claimOpening of the workshop finds out      *)
(* which item and proof the claim needs.                                     *)
(***************************************************************************)
EXTENDS Integers, FiniteSets, Sequences, SequencesExt

CONSTANTS
  Claimers,   \* pages and scripts that deliver
  Resolvers,  \* the claimers that come with proofs
  Assets,     \* assets of the bundle, 0 .. n
  Pool,       \* the asset of a prize pool, or -1
  Retires,    \* whether the pool may be closed before the delivery
  MaxFaults,  \* requests that fail and confirmations that time out
  MaxMoves    \* moves of the tree under a proof that was read

ASSUME DeliveryAssumption ==
  /\ IsFiniteSet(Assets) /\ Assets # {} /\ Assets = 0 .. Cardinality(Assets) - 1
  /\ Resolvers \subseteq Claimers
  /\ Pool \in Assets \union {-1}
  /\ MaxFaults \in Nat /\ MaxMoves \in Nat

VARIABLES
  mask,     \* claimed_mask of the opening
  paid,     \* how often each asset has been transferred
  closed,   \* whether the account of the opening is closed
  pool,     \* whether the account of the pool is there
  wire,     \* transactions in flight
  claimer,  \* where each claimer stands
  excused,  \* whether something has happened to its claim
  faults,   \* requests that have failed
  moves     \* moves of the tree

chain == <<mask, paid, closed, pool>>
vars == <<mask, paid, closed, pool, wire, claimer, excused, faults, moves>>

AssetCount == Cardinality(Assets)

Idle == [pc |-> "idle", proof |-> "none", seen |-> {}, at |-> 0, groups |-> <<>>,
         batch |-> {}, previous |-> {}, attempt |-> 0, report |-> "none"]

Init ==
  /\ mask = {}
  /\ paid = [a \in Assets |-> 0]
  /\ closed = FALSE
  /\ pool = TRUE
  /\ wire = {}
  /\ claimer = [c \in Claimers |-> Idle]
  /\ excused = [c \in Claimers |-> FALSE]
  /\ faults = 0
  /\ moves = 0

(***************************************************************************)
(* The program.                                                              *)
(***************************************************************************)
\* Mutant: the full mask is one bit short.
OneShort(m) == m # {} /\ 0 .. AssetCount - 2 \subseteq m

\* Status 3: every bit is set.
Completed(m) == m = Assets

\* Mutant: the bit of an asset is not looked at.
PaysAgain(batch) == ~closed /\ ~Completed(mask) /\ (Pool \in batch => pool)

RecordClaim(batch) ==
  /\ ~closed /\ ~Completed(mask)
  /\ batch \intersect mask = {}
  /\ Pool \in batch => pool

\* The item of the pool is there until it is delivered.
ItemExists == Pool \notin mask

ClosePrizePool ==
  /\ Retires /\ pool /\ Pool # -1
  /\ pool' = FALSE
  /\ UNCHANGED <<mask, paid, closed, wire, claimer, excused, faults, moves>>

CloseTemplateOpening ==
  /\ Completed(mask) /\ ~closed
  /\ closed' = TRUE
  /\ UNCHANGED <<mask, paid, pool, wire, claimer, excused, faults, moves>>

\* Another leaf of the tree moves: the proofs that were read are behind it.
TreeMoves ==
  /\ moves < MaxMoves
  /\ moves' = moves + 1
  /\ claimer' = [c \in Claimers |->
       IF claimer[c].proof = "fresh" THEN [claimer[c] EXCEPT !.proof = "old"] ELSE claimer[c]]
  /\ UNCHANGED <<chain, wire, excused, faults>>

(***************************************************************************)
(* A claim.                                                                  *)
(***************************************************************************)
Goes(c, next) ==
  /\ claimer' = [claimer EXCEPT ![c] = next]
  /\ UNCHANGED <<chain, wire, faults, moves>>

Throws(c, why) ==
  Goes(c, [Idle EXCEPT !.report = why]) /\ UNCHANGED excused

\* Throws for a reason outside the claim.
Fails(c) ==
  /\ Goes(c, [Idle EXCEPT !.report = "failed"])
  /\ excused' = [excused EXCEPT ![c] = TRUE]

Returns(c) == Goes(c, [Idle EXCEPT !.report = "done"]) /\ UNCHANGED excused

Continues(c, next) == Goes(c, next) /\ UNCHANGED excused

\* Someone presses Claim, or the relayer arrives at the opening.  A resolver asks
\* first which item the opening has been given.
Start(c) ==
  /\ claimer[c].pc = "idle" /\ claimer[c].report # "done"
  /\ claimer' = [claimer EXCEPT ![c] =
       [Idle EXCEPT !.pc = IF c \in Resolvers THEN "resolve" ELSE "opening"]]
  /\ excused' = [excused EXCEPT ![c] = FALSE]
  /\ UNCHANGED <<chain, wire, faults, moves>>

ClaimOpening(c) ==
  /\ claimer[c].pc = "resolve"
  /\ \/ closed /\ Fails(c)
     \/ ~closed /\ Completed(mask) /\ Returns(c)
     \/ /\ ~closed /\ ~Completed(mask)
        /\ Continues(c, [claimer[c] EXCEPT
             !.pc = IF Pool = -1 \/ Pool \in mask THEN "opening" ELSE "resolvePool"])

ResolvePool(c) ==
  /\ claimer[c].pc = "resolvePool"
  /\ \/ ~pool /\ Fails(c)
     \/ pool /\ Continues(c, [claimer[c] EXCEPT !.pc = "resolveItem"])

ResolveItem(c) ==
  /\ claimer[c].pc = "resolveItem"
  /\ Continues(c, [claimer[c] EXCEPT !.pc = "opening",
                                     !.proof = IF ItemExists THEN "fresh" ELSE "none"])

\* The top of the loop over attempts, and the end of the loop.
NextAttempt(c, next) ==
  \/ Completed(next.seen) /\ Returns(c)
  \/ ~Completed(next.seen) /\ next.attempt = AssetCount /\ Throws(c, "limit")
  \/ /\ ~Completed(next.seen) /\ next.attempt < AssetCount
     /\ Continues(c, [next EXCEPT !.pc = "asset", !.at = 0, !.groups = <<>>, !.batch = {}])

ReadOpening(c) ==
  /\ claimer[c].pc = "opening"
  /\ \/ closed /\ Fails(c)
     \/ ~closed /\ NextAttempt(c, [claimer[c] EXCEPT !.seen = mask])

\* Mutant: what has been claimed before is sent again.
SendsAll(c) == FALSE

Skips(c) == claimer[c].at \in claimer[c].seen

NextAsset(c, next) == [next EXCEPT !.pc = "asset", !.at = @ + 1]

\* One asset of the bundle: skipped, taken into a group, or looked up.
TakeAsset(c) ==
  LET me == claimer[c]
  IN  /\ me.pc = "asset" /\ me.at < AssetCount
      /\ \/ Skips(c) /\ Continues(c, NextAsset(c, me))
         \/ /\ ~Skips(c) /\ me.at # Pool
            /\ Continues(c, NextAsset(c, [me EXCEPT !.groups = Append(@, me.at)]))
         \/ ~Skips(c) /\ me.at = Pool /\ me.proof = "none" /\ Fails(c)
         \/ /\ ~Skips(c) /\ me.at = Pool /\ me.proof # "none"
            /\ Continues(c, [me EXCEPT !.pc = "pool"])

ReadPool(c) ==
  /\ claimer[c].pc = "pool"
  /\ \/ ~pool /\ Fails(c)
     \/ pool /\ Continues(c, [claimer[c] EXCEPT !.pc = "item"])

ReadItem(c) ==
  /\ claimer[c].pc = "item"
  /\ \/ /\ ItemExists
        /\ Continues(c, NextAsset(c, [claimer[c] EXCEPT !.groups = Append(@, Pool)]))
     \/ ~ItemExists /\ Continues(c, [claimer[c] EXCEPT !.pc = "missing"])

\* The item is gone: the opening is read again, and the walk over its assets goes
\* on with the new mask.  The groups that were taken before stay.
ReadMissing(c) ==
  /\ claimer[c].pc = "missing"
  /\ \/ closed /\ Fails(c)
     \/ /\ ~closed /\ Pool \in mask
        /\ Continues(c, NextAsset(c, [claimer[c] EXCEPT !.seen = mask]))
     \/ ~closed /\ Pool \notin mask /\ Throws(c, "missing")

\* The first batch of the groups, which are packed in their order.
Partition(c) ==
  LET me == claimer[c]
  IN  /\ me.pc = "asset" /\ me.at = AssetCount
      /\ \/ me.groups = <<>> /\ Throws(c, "empty")
         \/ \E k \in 1 .. Len(me.groups) :
              Continues(c, [me EXCEPT !.pc = "send", !.previous = me.seen,
                                      !.batch = ToSet(SubSeq(me.groups, 1, k))])

\* A proof that is behind the tree may be refused.
Refused(c) ==
  \/ ~RecordClaim(claimer[c].batch)
  \/ Pool \in claimer[c].batch /\ claimer[c].proof = "old"

\* The preflight refuses the batch, or it is on its way.
Send(c) ==
  /\ claimer[c].pc = "send"
  /\ \/ /\ Refused(c)
        /\ claimer' = [claimer EXCEPT ![c].pc = "after"]
        /\ excused' = [excused EXCEPT ![c] =
                         @ \/ (Pool \in claimer[c].batch /\ (~pool \/ claimer[c].proof = "old"))]
        /\ UNCHANGED wire
     \/ /\ RecordClaim(claimer[c].batch)
        /\ claimer' = [claimer EXCEPT ![c].pc = "polling"]
        /\ wire' = wire \union {[by |-> c, batch |-> claimer[c].batch, waits |-> TRUE]}
        /\ UNCHANGED excused
  /\ UNCHANGED <<chain, faults, moves>>

\* A transaction is executed: all of its claims or none.
Lands(t) ==
  /\ wire' = wire \ {t}
  /\ \/ /\ RecordClaim(t.batch)
        /\ mask' = mask \union t.batch
        /\ paid' = [a \in Assets |-> IF a \in t.batch THEN paid[a] + 1 ELSE paid[a]]
     \/ /\ ~RecordClaim(t.batch)
        /\ UNCHANGED <<mask, paid>>
  /\ claimer' = [claimer EXCEPT ![t.by].pc =
       IF ~t.waits THEN @ ELSE IF RecordClaim(t.batch) THEN "confirmed" ELSE "after"]
  /\ excused' = [excused EXCEPT ![t.by] =
       @ \/ (t.waits /\ Pool \in t.batch /\ ~pool)]
  /\ UNCHANGED <<closed, pool, faults, moves>>

\* Nobody waits for the transaction any more; it lands later or its blockhash
\* expires.
TimesOut(t) ==
  /\ faults < MaxFaults /\ t.waits
  /\ faults' = faults + 1
  /\ wire' = (wire \ {t}) \union {[t EXCEPT !.waits = FALSE]}
  /\ claimer' = [claimer EXCEPT ![t.by].pc = "after"]
  /\ excused' = [excused EXCEPT ![t.by] = TRUE]
  /\ UNCHANGED <<chain, moves>>

Expires(t) ==
  /\ ~t.waits
  /\ wire' = wire \ {t}
  /\ UNCHANGED <<chain, claimer, excused, faults, moves>>

\* Mutant: a batch that was refused is tried again whatever the mask.
AlwaysRetries(c) == TRUE

Advanced(c) == Completed(mask) \/ mask # claimer[c].previous

\* The batch was not confirmed: if another claimer has been faster, the claim goes on.
ReadAfterFailure(c) ==
  /\ claimer[c].pc = "after"
  /\ \/ closed /\ Fails(c)
     \/ ~closed /\ ~Advanced(c) /\ Throws(c, "refused")
     \/ /\ ~closed /\ Advanced(c)
        /\ NextAttempt(c, [claimer[c] EXCEPT !.seen = mask, !.attempt = @ + 1])

ReadAfterBatch(c) ==
  /\ claimer[c].pc = "confirmed"
  /\ \/ closed /\ Fails(c)
     \/ ~closed /\ ~Advanced(c) /\ Throws(c, "noProgress")
     \/ /\ ~closed /\ Advanced(c)
        /\ NextAttempt(c, [claimer[c] EXCEPT !.seen = mask, !.attempt = @ + 1])

\* A request fails, wherever the claim is.
RequestFails(c) ==
  /\ faults < MaxFaults
  /\ claimer[c].pc \notin {"idle", "asset", "polling"}
  /\ faults' = faults + 1
  /\ claimer' = [claimer EXCEPT ![c] =
       IF claimer[c].pc = "send" THEN [@ EXCEPT !.pc = "after"]
       ELSE [Idle EXCEPT !.report = "failed"]]
  /\ excused' = [excused EXCEPT ![c] = TRUE]
  /\ UNCHANGED <<chain, wire, moves>>

Step(c) ==
  \/ ClaimOpening(c) \/ ResolvePool(c) \/ ResolveItem(c) \/ ReadOpening(c)
  \/ TakeAsset(c) \/ ReadPool(c) \/ ReadItem(c) \/ ReadMissing(c)
  \/ Partition(c) \/ Send(c) \/ ReadAfterFailure(c) \/ ReadAfterBatch(c)

Next ==
  \/ \E c \in Claimers : Start(c) \/ Step(c) \/ RequestFails(c)
  \/ \E t \in wire : Lands(t) \/ TimesOut(t) \/ Expires(t)
  \/ ClosePrizePool \/ CloseTemplateOpening \/ TreeMoves

Spec == Init /\ [][Next]_vars

\* A claim that runs comes to an end, whoever is not done tries again, and a
\* transaction that is waited for is executed.
Fairness ==
  /\ \A c \in Claimers : WF_vars(Step(c)) /\ WF_vars(Start(c))
  /\ WF_vars(\E t \in wire : t.waits /\ Lands(t))

FairSpec == Spec /\ Fairness

(***************************************************************************)
(* Properties.                                                               *)
(***************************************************************************)
Places == {"idle", "resolve", "resolvePool", "resolveItem", "opening", "asset", "pool",
           "item", "missing", "send", "polling", "confirmed", "after"}

TypeOK ==
  /\ mask \subseteq Assets
  /\ \A c \in Claimers :
       /\ claimer[c].pc \in Places
       /\ claimer[c].seen \subseteq Assets /\ claimer[c].batch \subseteq Assets
       /\ claimer[c].at \in 0 .. AssetCount /\ claimer[c].attempt \in 0 .. AssetCount
       /\ Len(claimer[c].groups) <= AssetCount
  /\ faults \in 0 .. MaxFaults

\* However many claimers deliver, however late a batch lands, an asset is transferred
\* once, and exactly when its bit is set.
DeliveredOnce == \A a \in Assets : paid[a] = IF a \in mask THEN 1 ELSE 0

\* A claim that returns has the whole bundle delivered, by itself or by others.
DoneMeansDelivered ==
  \A c \in Claimers : claimer[c].report = "done" => \A a \in Assets : paid[a] = 1

\* As many attempts as there are assets are enough, and a confirmed batch has always
\* moved the mask: the last resorts of the loop are never reached.
WithinLimit ==
  \A c \in Claimers : claimer[c].report \notin {"limit", "noProgress", "missing"}

\* A claim fails only for a reason outside of it, a request that fails or an account
\* that is closed: a race with another claimer is not one.  So it is for bundles
\* without a pool, and not for the others.
LosersGoOn ==
  \A c \in Claimers :
    claimer[c].report \in {"refused", "empty", "limit", "noProgress"} => excused[c]

\* What claimers can rely on, whoever else delivers and whatever fails.
ClaimsSound == TypeOK /\ DeliveredOnce /\ DoneMeansDelivered /\ WithinLimit

\* The winner gets the whole bundle, whatever failed on the way.
AllDelivered == <>(mask = Assets)
=============================================================================
