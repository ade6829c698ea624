--------------------------- MODULE DeliveryProofs ---------------------------
(***************************************************************************)
(* What claimers can rely on while others deliver the same bundle, for     *)
(* every number of claimers, assets, failures and moves of the tree.       *)
(*                                                                         *)
(* The argument: every attempt after the first starts from a mask that is  *)
(* larger than the one before, so a claim has made at most as many         *)
(* attempts as there are assets in the mask it last read; and a batch that *)
(* was confirmed has put at least one asset into the mask.                 *)
(*                                                                         *)
(* The second part is about the page on which boxes are opened             *)
(* (OpeningPage): openings only ever move on, so a result that was         *)
(* recorded stays the one to show, and the launch site has one flow at a   *)
(* time, so a claim that comes back is the one the page is waiting for.    *)
(***************************************************************************)
EXTENDS Delivery, MCOpeningPage, Sums, FiniteSetTheorems, SequenceTheorems, TLAPS

-----------------------------------------------------------------------------
(* The inductive invariant.                                                *)

Claims ==
  [pc : Places, proof : {"none", "fresh", "old"}, seen : SUBSET Assets,
   at : 0 .. AssetCount, groups : Seq(Assets), batch : SUBSET Assets,
   previous : SUBSET Assets, attempt : 0 .. AssetCount,
   report : {"none", "failed", "done", "refused", "empty"}]

\* What is true of the state of a claim when the opening has mask m.
Fits(me, m) ==
  /\ me.seen \subseteq m
  /\ me.attempt <= Cardinality(me.seen)
  /\ Len(me.groups) <= me.at
  /\ me.pc \in {"pool", "item", "missing"} => me.at = Pool /\ me.at < AssetCount
  /\ me.pc = "missing" => Pool \in m
  /\ me.pc \in {"send", "polling", "confirmed", "after"} => me.previous = me.seen
  /\ me.pc \in {"send", "polling"} => me.batch # {}
  /\ me.pc = "confirmed" => m # me.previous
  /\ me.report = "done" => m = Assets

\* A transaction that is waited for is the one its claimer has just sent.
Flying(t) ==
  /\ t \in [by : Claimers, batch : SUBSET Assets, waits : BOOLEAN]
  /\ t.batch # {}
  /\ t.waits => claimer[t.by].pc = "polling" /\ claimer[t.by].batch = t.batch

IInv ==
  /\ mask \subseteq Assets
  /\ paid \in [Assets -> Nat] /\ DeliveredOnce
  /\ claimer \in [Claimers -> Claims]
  /\ \A c \in Claimers : Fits(claimer[c], mask)
  /\ \A t \in wire : Flying(t)
  /\ faults \in 0 .. MaxFaults

-----------------------------------------------------------------------------
(* The assets, and what a larger mask leaves true.                         *)

LEMMA AssetFacts ==
  /\ IsFiniteSet(Assets) /\ AssetCount \in Nat /\ Assets = 0 .. AssetCount - 1
  /\ MaxFaults \in Nat
  BY DeliveryAssumption, FS_CardinalityType DEF AssetCount

LEMMA Counts ==
  ASSUME NEW m \in SUBSET Assets
  PROVE  /\ Cardinality(m) \in 0 .. AssetCount
         /\ Cardinality(m) = AssetCount => m = Assets
         /\ \A s \in SUBSET m : Cardinality(s) \in Nat /\ Cardinality(s) <= Cardinality(m)
         /\ \A s \in SUBSET m : s # m => Cardinality(s) < Cardinality(m)
  <1>1. IsFiniteSet(Assets) /\ IsFiniteSet(m)
    BY AssetFacts, FS_Subset
  <1>2. /\ Cardinality(m) \in Nat /\ Cardinality(m) <= AssetCount
        /\ Cardinality(m) = AssetCount => m = Assets
    BY <1>1, FS_Subset, FS_CardinalityType DEF AssetCount
  <1>3. ASSUME NEW s \in SUBSET m
        PROVE  /\ Cardinality(s) \in Nat /\ Cardinality(s) <= Cardinality(m)
               /\ s # m => Cardinality(s) < Cardinality(m)
    BY <1>1, FS_Subset, FS_CardinalityType
  <1>4. QED
    BY <1>2, <1>3, AssetFacts

LEMMA FitsGrows ==
  ASSUME NEW m \in SUBSET Assets, NEW n \in SUBSET Assets, m \subseteq n,
         NEW me, Fits(me, m), me.previous \in SUBSET Assets
  PROVE  Fits(me, n)
  <1>1. me.pc = "confirmed" => n # me.previous
    BY DEF Fits
  <1>2. QED
    BY <1>1 DEF Fits

LEMMA IdleFits ==
  ASSUME NEW m \in SUBSET Assets,
         NEW why \in {"none", "failed", "done", "refused", "empty"},
         why = "done" => m = Assets
  PROVE  /\ [Idle EXCEPT !.report = why] \in Claims
         /\ Fits([Idle EXCEPT !.report = why], m)
  <1> DEFINE next == [Idle EXCEPT !.report = why]
  <1>1. Cardinality({}) = 0 /\ Len(<<>>) = 0 /\ <<>> \in Seq(Assets) /\ 0 \in 0 .. AssetCount
    BY FS_EmptySet, AssetFacts, EmptySeq
  <1>2. next \in Claims
    BY <1>1 DEF Idle, Claims, Places
  <1>3. /\ next.pc = "idle" /\ next.seen = {} /\ next.attempt = 0 /\ next.at = 0
        /\ next.groups = <<>> /\ next.report = why
    BY DEF Idle
  <1>4. Fits(next, m)
    <2> HIDE DEF next
    <2>1. QED
      BY <1>1, <1>3 DEF Fits
  <1>5. QED
    BY <1>2, <1>4

LEMMA StartFits ==
  ASSUME NEW m \in SUBSET Assets, NEW place \in {"resolve", "opening"}
  PROVE  /\ [Idle EXCEPT !.pc = place] \in Claims
         /\ Fits([Idle EXCEPT !.pc = place], m)
  <1> DEFINE next == [Idle EXCEPT !.pc = place]
  <1>1. Cardinality({}) = 0 /\ Len(<<>>) = 0 /\ <<>> \in Seq(Assets) /\ 0 \in 0 .. AssetCount
    BY FS_EmptySet, AssetFacts, EmptySeq
  <1>2. next \in Claims
    BY <1>1 DEF Idle, Claims, Places
  <1>3. /\ next.pc = place /\ next.seen = {} /\ next.attempt = 0 /\ next.at = 0
        /\ next.groups = <<>> /\ next.report = "none"
    BY DEF Idle
  <1>4. Fits(next, m)
    <2> HIDE DEF next
    <2>1. QED
      BY <1>1, <1>3 DEF Fits
  <1>5. QED
    BY <1>2, <1>4

-----------------------------------------------------------------------------
(* A claim goes on.                                                        *)

\* One claimer moves, and nothing it waits for is left behind.
LEMMA OneMoves ==
  ASSUME IInv, NEW c \in Claimers, claimer[c].pc # "polling",
         NEW next \in Claims, Fits(next, mask),
         claimer' = [claimer EXCEPT ![c] = next],
         mask' = mask, paid' = paid, wire' = wire, faults' \in 0 .. MaxFaults
  PROVE  IInv'
  <1>1. claimer' \in [Claimers -> Claims]
    BY DEF IInv
  <1>2. \A q \in Claimers : Fits(claimer'[q], mask)
    BY DEF IInv
  <1>3. ASSUME NEW t \in wire PROVE Flying(t)'
    <2>1. Flying(t)
      BY DEF IInv
    <2>2. t.waits => t.by # c
      BY <2>1 DEF Flying
    <2>3. t.by # c => claimer'[t.by] = claimer[t.by]
      BY <2>1 DEF IInv, Flying
    <2>4. QED
      BY <2>1, <2>2, <2>3 DEF Flying
  <1>4. QED
    BY <1>1, <1>2, <1>3 DEF IInv, DeliveredOnce

LEMMA GoesOn ==
  ASSUME IInv, NEW c \in Claimers, claimer[c].pc # "polling",
         NEW next \in Claims, Fits(next, mask), Goes(c, next)
  PROVE  IInv'
  <1>1. faults' \in 0 .. MaxFaults
    BY DEF Goes, IInv
  <1>2. QED
    BY <1>1, OneMoves DEF Goes, chain

\* The state of one claim, for the steps of it.
LEMMA OwnState ==
  ASSUME IInv, NEW c \in Claimers
  PROVE  /\ claimer[c] \in Claims /\ Fits(claimer[c], mask)
         /\ mask \in SUBSET Assets
  BY DEF IInv

LEMMA StopsAt ==
  ASSUME IInv, NEW c \in Claimers, claimer[c].pc # "polling",
         NEW why \in {"none", "failed", "done", "refused", "empty"},
         why = "done" => mask = Assets,
         Goes(c, [Idle EXCEPT !.report = why])
  PROVE  IInv'
  <1>1. mask \in SUBSET Assets
    BY DEF IInv
  <1>2. /\ [Idle EXCEPT !.report = why] \in Claims
        /\ Fits([Idle EXCEPT !.report = why], mask)
    BY <1>1, IdleFits
  <1>3. QED
    BY <1>2, GoesOn

LEMMA FailsInv ==
  ASSUME IInv, NEW c \in Claimers, claimer[c].pc # "polling", Fails(c)
  PROVE  IInv'
  BY StopsAt DEF Fails

LEMMA ReturnsInv ==
  ASSUME IInv, NEW c \in Claimers, claimer[c].pc # "polling",
         mask = Assets, Returns(c)
  PROVE  IInv'
  BY StopsAt DEF Returns

LEMMA ContinuesInv ==
  ASSUME IInv, NEW c \in Claimers, claimer[c].pc # "polling",
         NEW next \in Claims, Fits(next, mask), Continues(c, next)
  PROVE  IInv'
  BY GoesOn DEF Continues

\* An attempt starts from the mask that was just read; there is always one left.
LEMMA AttemptInv ==
  ASSUME IInv, NEW c \in Claimers, claimer[c].pc # "polling",
         NEW n \in Nat, n <= Cardinality(mask),
         NextAttempt(c, [claimer[c] EXCEPT !.seen = mask, !.attempt = n])
  PROVE  IInv'
  <1> DEFINE next == [claimer[c] EXCEPT !.seen = mask, !.attempt = n]
             first == [next EXCEPT !.pc = "asset", !.at = 0, !.groups = <<>>, !.batch = {}]
  <1>1. claimer[c] \in Claims /\ Fits(claimer[c], mask) /\ mask \in SUBSET Assets
    BY OwnState
  <1>2. Cardinality(mask) \in 0 .. AssetCount /\ (Cardinality(mask) = AssetCount => mask = Assets)
    BY <1>1, Counts
  <1>3. next.seen = mask /\ next.attempt = n
    BY <1>1 DEF Claims
  <1>4. CASE Completed(mask) /\ Returns(c)
    BY <1>4, ReturnsInv DEF Completed
  <1>5. CASE ~Completed(mask) /\ n = AssetCount
    BY <1>2, <1>5, AssetFacts DEF Completed
  <1>6. CASE n < AssetCount /\ Continues(c, first)
    <2>1. n \in 0 .. AssetCount /\ 0 \in 0 .. AssetCount /\ Len(<<>>) = 0 /\ <<>> \in Seq(Assets)
      BY <1>2, EmptySeq, AssetFacts
    <2>2. first \in Claims
      BY <1>1, <2>1 DEF Claims, Places
    <2>3. /\ first.seen = mask /\ first.attempt = n /\ first.groups = <<>> /\ first.at = 0
          /\ first.pc = "asset" /\ first.report = claimer[c].report
      BY <1>1 DEF Claims
    <2>4. Fits(first, mask)
      BY <1>1, <2>1, <2>3 DEF Fits
    <2>5. QED
      BY <1>6, <2>2, <2>4, ContinuesInv
  <1>7. QED
    BY <1>3, <1>4, <1>5, <1>6 DEF NextAttempt

-----------------------------------------------------------------------------
(* The steps of a claim.                                                   *)

LEMMA StartInv ==
  ASSUME IInv, NEW c \in Claimers, Start(c)
  PROVE  IInv'
  <1> DEFINE place == IF c \in Resolvers THEN "resolve" ELSE "opening"
  <1>1. mask \in SUBSET Assets /\ faults \in 0 .. MaxFaults
    BY DEF IInv
  <1>2. [Idle EXCEPT !.pc = place] \in Claims /\ Fits([Idle EXCEPT !.pc = place], mask)
    <2>1. place \in {"resolve", "opening"}
      OBVIOUS
    <2>2. QED
      BY <1>1, <2>1, StartFits
  <1>3. claimer' = [claimer EXCEPT ![c] = [Idle EXCEPT !.pc = place]]
    BY DEF Start
  <1>4. QED
    BY <1>1, <1>2, <1>3, OneMoves DEF Start, chain

\* The lookups of a resolver change where the claim stands and its proof.
LEMMA LooksUp ==
  ASSUME IInv, NEW c \in Claimers, claimer[c].pc \in {"resolve", "resolvePool", "resolveItem"},
         NEW place \in {"opening", "resolvePool", "resolveItem"},
         NEW fresh \in {"none", "fresh", "old"},
         Continues(c, [claimer[c] EXCEPT !.pc = place, !.proof = fresh])
  PROVE  IInv'
  <1> DEFINE next == [claimer[c] EXCEPT !.pc = place, !.proof = fresh]
  <1>1. claimer[c] \in Claims /\ Fits(claimer[c], mask)
    BY OwnState
  <1>2. next \in Claims
    BY <1>1 DEF Claims, Places
  <1>3. /\ next.pc = place /\ next.seen = claimer[c].seen /\ next.attempt = claimer[c].attempt
        /\ next.at = claimer[c].at /\ next.groups = claimer[c].groups
        /\ next.report = claimer[c].report
    BY <1>1 DEF Claims
  <1>4. Fits(next, mask)
    BY <1>1, <1>3 DEF Fits
  <1>5. QED
    BY <1>2, <1>4, ContinuesInv

LEMMA ClaimOpeningInv ==
  ASSUME IInv, NEW c \in Claimers, ClaimOpening(c)
  PROVE  IInv'
  <1> DEFINE place == IF Pool = -1 \/ Pool \in mask THEN "opening" ELSE "resolvePool"
  <1>1. claimer[c] \in Claims /\ claimer[c].pc = "resolve"
    BY OwnState DEF ClaimOpening
  <1>2. CASE Fails(c)
    BY <1>1, <1>2, FailsInv
  <1>3. CASE Completed(mask) /\ Returns(c)
    BY <1>1, <1>3, ReturnsInv DEF Completed
  <1>4. CASE Continues(c, [claimer[c] EXCEPT !.pc = place])
    <2>1. [claimer[c] EXCEPT !.pc = place] =
            [claimer[c] EXCEPT !.pc = place, !.proof = claimer[c].proof]
      BY <1>1 DEF Claims
    <2>2. claimer[c].proof \in {"none", "fresh", "old"}
      BY <1>1 DEF Claims
    <2>3. place \in {"opening", "resolvePool", "resolveItem"}
      OBVIOUS
    <2>4. Continues(c, [claimer[c] EXCEPT !.pc = place, !.proof = claimer[c].proof])
      BY <1>4, <2>1
    <2>5. QED
      BY <1>1, <2>2, <2>3, <2>4, LooksUp
  <1>5. QED
    BY <1>2, <1>3, <1>4 DEF ClaimOpening

LEMMA ResolvePoolInv ==
  ASSUME IInv, NEW c \in Claimers, ResolvePool(c)
  PROVE  IInv'
  <1>1. claimer[c] \in Claims /\ claimer[c].pc = "resolvePool"
    BY OwnState DEF ResolvePool
  <1>2. CASE Fails(c)
    BY <1>1, <1>2, FailsInv
  <1>3. CASE Continues(c, [claimer[c] EXCEPT !.pc = "resolveItem"])
    <2>1. [claimer[c] EXCEPT !.pc = "resolveItem"] =
            [claimer[c] EXCEPT !.pc = "resolveItem", !.proof = claimer[c].proof]
      BY <1>1 DEF Claims
    <2>2. claimer[c].proof \in {"none", "fresh", "old"}
      BY <1>1 DEF Claims
    <2>3. Continues(c, [claimer[c] EXCEPT !.pc = "resolveItem", !.proof = claimer[c].proof])
      BY <1>3, <2>1
    <2>4. QED
      BY <1>1, <2>2, <2>3, LooksUp
  <1>4. QED
    BY <1>2, <1>3 DEF ResolvePool

LEMMA ResolveItemInv ==
  ASSUME IInv, NEW c \in Claimers, ResolveItem(c)
  PROVE  IInv'
  <1> DEFINE fresh == IF ItemExists THEN "fresh" ELSE "none"
  <1>1. fresh \in {"none", "fresh", "old"}
    OBVIOUS
  <1>2. claimer[c].pc = "resolveItem"
        /\ Continues(c, [claimer[c] EXCEPT !.pc = "opening", !.proof = fresh])
    BY DEF ResolveItem
  <1>3. QED
    BY <1>1, <1>2, LooksUp

LEMMA ReadOpeningInv ==
  ASSUME IInv, NEW c \in Claimers, ReadOpening(c)
  PROVE  IInv'
  <1>1. /\ claimer[c] \in Claims /\ Fits(claimer[c], mask) /\ mask \in SUBSET Assets
        /\ claimer[c].pc = "opening"
    BY OwnState DEF ReadOpening
  <1>2. CASE Fails(c)
    BY <1>1, <1>2, FailsInv
  <1>3. CASE NextAttempt(c, [claimer[c] EXCEPT !.seen = mask])
    <2> DEFINE n == claimer[c].attempt
    <2>1. [claimer[c] EXCEPT !.seen = mask] = [claimer[c] EXCEPT !.seen = mask, !.attempt = n]
      BY <1>1 DEF Claims
    <2>2. n \in Nat /\ n <= Cardinality(claimer[c].seen) /\ claimer[c].seen \in SUBSET mask
      BY <1>1, AssetFacts DEF Claims, Fits
    <2>3. n <= Cardinality(mask)
      <3>1. /\ Cardinality(claimer[c].seen) \in Nat /\ Cardinality(mask) \in 0 .. AssetCount
            /\ Cardinality(claimer[c].seen) <= Cardinality(mask)
        BY <1>1, <2>2, Counts
      <3>2. QED
        BY <2>2, <3>1, AssetFacts
    <2>4. NextAttempt(c, [claimer[c] EXCEPT !.seen = mask, !.attempt = n])
      BY <1>3, <2>1
    <2>5. QED
      BY <1>1, <2>2, <2>3, <2>4, AttemptInv
  <1>4. QED
    BY <1>2, <1>3 DEF ReadOpening

\* The walk over the assets goes on after the one it is at, which is taken or not;
\* the mask may have been read again.
LEMMA WalksOn ==
  ASSUME IInv, NEW c \in Claimers,
         claimer[c].pc \in {"asset", "pool", "item", "missing"}, claimer[c].at < AssetCount,
         NEW next \in Claims,
         next.pc = "asset", next.at = claimer[c].at + 1, next.attempt = claimer[c].attempt,
         next.report = claimer[c].report, next.seen \in {claimer[c].seen, mask},
         \/ next.groups = claimer[c].groups
         \/ next.groups = Append(claimer[c].groups, claimer[c].at),
         Continues(c, next)
  PROVE  IInv'
  <1>1. claimer[c] \in Claims /\ Fits(claimer[c], mask) /\ mask \in SUBSET Assets
    BY OwnState
  <1>2. claimer[c].at \in Nat /\ claimer[c].groups \in Seq(Assets)
    BY <1>1, AssetFacts DEF Claims
  <1>3. Len(next.groups) <= next.at
    <2>1. Len(claimer[c].groups) \in Nat /\ Len(claimer[c].groups) <= claimer[c].at
      BY <1>1, <1>2, LenProperties DEF Fits
    <2>2. claimer[c].at \in Assets
      BY <1>2, AssetFacts
    <2>3. Len(Append(claimer[c].groups, claimer[c].at)) = Len(claimer[c].groups) + 1
      BY <1>2, <2>2, AppendProperties
    <2>4. QED
      BY <1>2, <2>1, <2>3
  <1>4. next.attempt <= Cardinality(next.seen) /\ next.seen \subseteq mask
    <2>1. /\ claimer[c].seen \in SUBSET mask /\ claimer[c].attempt \in Nat
          /\ claimer[c].attempt <= Cardinality(claimer[c].seen)
      BY <1>1, AssetFacts DEF Claims, Fits
    <2>2. /\ Cardinality(claimer[c].seen) \in Nat /\ Cardinality(mask) \in 0 .. AssetCount
          /\ Cardinality(claimer[c].seen) <= Cardinality(mask)
      BY <1>1, <2>1, Counts
    <2>3. QED
      BY <2>1, <2>2, AssetFacts
  <1>5. Fits(next, mask)
    BY <1>1, <1>3, <1>4 DEF Fits
  <1>6. QED
    BY <1>5, ContinuesInv

LEMMA TakeAssetInv ==
  ASSUME IInv, NEW c \in Claimers, TakeAsset(c)
  PROVE  IInv'
  <1> DEFINE me == claimer[c]
             skipped == NextAsset(c, me)
             taken == NextAsset(c, [me EXCEPT !.groups = Append(@, me.at)])
             looked == [me EXCEPT !.pc = "pool"]
  <1>1. /\ me \in Claims /\ Fits(me, mask) /\ mask \in SUBSET Assets
        /\ me.pc = "asset" /\ me.at < AssetCount
    BY OwnState DEF TakeAsset
  <1>2. me.at \in Assets /\ me.at + 1 \in 0 .. AssetCount
    BY <1>1, AssetFacts DEF Claims
  <1>3. CASE Continues(c, skipped)
    <2>1. skipped \in Claims
      BY <1>1, <1>2 DEF NextAsset, Claims, Places
    <2>2. /\ skipped.pc = "asset" /\ skipped.at = me.at + 1 /\ skipped.attempt = me.attempt
          /\ skipped.report = me.report /\ skipped.seen = me.seen
          /\ skipped.groups = me.groups
      BY <1>1 DEF NextAsset, Claims
    <2>3. QED
      BY <1>1, <1>3, <2>1, <2>2, WalksOn
  <1>4. CASE Continues(c, taken)
    <2>1. Append(me.groups, me.at) \in Seq(Assets)
      BY <1>1, <1>2 DEF Claims
    <2>2. taken \in Claims
      BY <1>1, <1>2, <2>1 DEF NextAsset, Claims, Places
    <2>3. /\ taken.pc = "asset" /\ taken.at = me.at + 1 /\ taken.attempt = me.attempt
          /\ taken.report = me.report /\ taken.seen = me.seen
          /\ taken.groups = Append(me.groups, me.at)
      BY <1>1 DEF NextAsset, Claims
    <2>4. QED
      BY <1>1, <1>4, <2>2, <2>3, WalksOn
  <1>5. CASE Fails(c)
    BY <1>1, <1>5, FailsInv
  <1>6. CASE me.at = Pool /\ Continues(c, looked)
    <2>1. looked \in Claims
      BY <1>1 DEF Claims, Places
    <2>2. /\ looked.pc = "pool" /\ looked.at = me.at /\ looked.attempt = me.attempt
          /\ looked.report = me.report /\ looked.seen = me.seen /\ looked.groups = me.groups
      BY <1>1 DEF Claims
    <2>3. Fits(looked, mask)
      <3> HIDE DEF looked
      <3>1. QED
        BY <1>1, <1>6, <2>2 DEF Fits
    <2>4. QED
      BY <1>1, <1>6, <2>1, <2>3, ContinuesInv
  <1>7. QED
    BY <1>3, <1>4, <1>5, <1>6 DEF TakeAsset

LEMMA ReadPoolInv ==
  ASSUME IInv, NEW c \in Claimers, ReadPool(c)
  PROVE  IInv'
  <1> DEFINE me == claimer[c]
             next == [me EXCEPT !.pc = "item"]
  <1>1. me \in Claims /\ Fits(me, mask) /\ me.pc = "pool"
    BY OwnState DEF ReadPool
  <1>2. CASE Fails(c)
    BY <1>1, <1>2, FailsInv
  <1>3. CASE Continues(c, next)
    <2>1. next \in Claims
      BY <1>1 DEF Claims, Places
    <2>2. /\ next.pc = "item" /\ next.at = me.at /\ next.attempt = me.attempt
          /\ next.report = me.report /\ next.seen = me.seen /\ next.groups = me.groups
      BY <1>1 DEF Claims
    <2>3. Fits(next, mask)
      <3> HIDE DEF next
      <3>1. QED
        BY <1>1, <2>2 DEF Fits
    <2>4. QED
      BY <1>1, <1>3, <2>1, <2>3, ContinuesInv
  <1>4. QED
    BY <1>2, <1>3 DEF ReadPool

LEMMA ReadItemInv ==
  ASSUME IInv, NEW c \in Claimers, ReadItem(c)
  PROVE  IInv'
  <1> DEFINE me == claimer[c]
             taken == NextAsset(c, [me EXCEPT !.groups = Append(@, Pool)])
             missed == [me EXCEPT !.pc = "missing"]
  <1>1. me \in Claims /\ Fits(me, mask) /\ me.pc = "item"
    BY OwnState DEF ReadItem
  <1>2. me.at = Pool /\ me.at < AssetCount /\ me.at \in Assets /\ me.at + 1 \in 0 .. AssetCount
    BY <1>1, AssetFacts DEF Claims, Fits
  <1>3. CASE Continues(c, taken)
    <2>1. Append(me.groups, Pool) \in Seq(Assets)
      BY <1>1, <1>2 DEF Claims
    <2>2. taken \in Claims
      BY <1>1, <1>2, <2>1 DEF NextAsset, Claims, Places
    <2>3. /\ taken.pc = "asset" /\ taken.at = me.at + 1 /\ taken.attempt = me.attempt
          /\ taken.report = me.report /\ taken.seen = me.seen
          /\ taken.groups = Append(me.groups, me.at)
      BY <1>1, <1>2 DEF NextAsset, Claims
    <2>4. QED
      BY <1>1, <1>2, <1>3, <2>2, <2>3, WalksOn
  <1>4. CASE Pool \in mask /\ Continues(c, missed)
    <2>1. missed \in Claims
      BY <1>1 DEF Claims, Places
    <2>2. /\ missed.pc = "missing" /\ missed.at = me.at /\ missed.attempt = me.attempt
          /\ missed.report = me.report /\ missed.seen = me.seen /\ missed.groups = me.groups
      BY <1>1 DEF Claims
    <2>3. Fits(missed, mask)
      <3> HIDE DEF missed
      <3>1. QED
        BY <1>1, <1>2, <1>4, <2>2 DEF Fits
    <2>4. QED
      BY <1>1, <1>4, <2>1, <2>3, ContinuesInv
  <1>5. QED
    BY <1>3, <1>4 DEF ReadItem, ItemExists

\* An item that is gone has been delivered, so the pool is in the mask.
LEMMA ReadMissingInv ==
  ASSUME IInv, NEW c \in Claimers, ReadMissing(c)
  PROVE  IInv'
  <1> DEFINE me == claimer[c]
             next == NextAsset(c, [me EXCEPT !.seen = mask])
  <1>1. me \in Claims /\ Fits(me, mask) /\ mask \in SUBSET Assets /\ me.pc = "missing"
    BY OwnState DEF ReadMissing
  <1>2. me.at < AssetCount /\ Pool \in mask /\ me.at + 1 \in 0 .. AssetCount
    BY <1>1, AssetFacts DEF Claims, Fits
  <1>3. CASE Fails(c)
    BY <1>1, <1>3, FailsInv
  <1>4. CASE Continues(c, next)
    <2>1. next \in Claims
      BY <1>1, <1>2 DEF NextAsset, Claims, Places
    <2>2. /\ next.pc = "asset" /\ next.at = me.at + 1 /\ next.attempt = me.attempt
          /\ next.report = me.report /\ next.seen = mask /\ next.groups = me.groups
      BY <1>1 DEF NextAsset, Claims
    <2>3. QED
      BY <1>1, <1>2, <1>4, <2>1, <2>2, WalksOn
  <1>5. QED
    BY <1>2, <1>3, <1>4 DEF ReadMissing

LEMMA PartitionInv ==
  ASSUME IInv, NEW c \in Claimers, Partition(c)
  PROVE  IInv'
  <1> DEFINE me == claimer[c]
             sent(k) == [me EXCEPT !.pc = "send", !.previous = me.seen,
                                   !.batch = ToSet(SubSeq(me.groups, 1, k))]
  <1>1. me \in Claims /\ Fits(me, mask) /\ mask \in SUBSET Assets /\ me.pc = "asset"
    BY OwnState DEF Partition
  <1>2. CASE Throws(c, "empty")
    BY <1>1, <1>2, StopsAt DEF Throws
  <1>3. ASSUME NEW k \in 1 .. Len(me.groups), Continues(c, sent(k))
        PROVE  IInv'
    <2> DEFINE some == SubSeq(me.groups, 1, k)
    <2>1. me.groups \in Seq(Assets)
      BY <1>1 DEF Claims
    <2>2. some \in Seq(Assets) /\ Len(some) = k /\ DOMAIN some = 1 .. k
      BY <2>1, LenProperties, SubSeqProperties
    <2>3. ToSet(some) \subseteq Assets /\ some[1] \in ToSet(some)
      <3> HIDE DEF some
      <3>1. 1 \in 1 .. k /\ \A i \in 1 .. k : some[i] \in Assets
        BY <2>2, ElementOfSeq
      <3>2. QED
        BY <2>2, <3>1 DEF ToSet
    <2>4. sent(k) \in Claims
      BY <1>1, <2>3 DEF Claims, Places
    <2>5. /\ sent(k).pc = "send" /\ sent(k).at = me.at /\ sent(k).attempt = me.attempt
          /\ sent(k).report = me.report /\ sent(k).seen = me.seen /\ sent(k).groups = me.groups
          /\ sent(k).previous = me.seen /\ sent(k).batch = ToSet(some)
      BY <1>1 DEF Claims
    <2>6. Fits(sent(k), mask)
      <3> HIDE DEF sent
      <3>1. QED
        BY <1>1, <2>3, <2>5 DEF Fits
    <2>7. QED
      BY <1>1, <1>3, <2>4, <2>6, ContinuesInv
  <1>4. QED
    BY <1>2, <1>3 DEF Partition

\* A claimer sends while no transaction of its own is waited for.
LEMMA SendInv ==
  ASSUME IInv, NEW c \in Claimers, Send(c)
  PROVE  IInv'
  <1> DEFINE me == claimer[c]
  <1>1. me \in Claims /\ Fits(me, mask) /\ mask \in SUBSET Assets /\ me.pc = "send"
    BY OwnState DEF Send
  <1>2. mask' = mask /\ paid' = paid /\ faults' = faults
    BY DEF Send, chain
  <1>3. CASE claimer' = [claimer EXCEPT ![c].pc = "after"] /\ UNCHANGED wire
    <2> DEFINE next == [me EXCEPT !.pc = "after"]
    <2>1. next \in Claims
      BY <1>1 DEF Claims, Places
    <2>2. /\ next.pc = "after" /\ next.at = me.at /\ next.attempt = me.attempt
          /\ next.report = me.report /\ next.seen = me.seen /\ next.groups = me.groups
          /\ next.previous = me.previous
      BY <1>1 DEF Claims
    <2>3. Fits(next, mask)
      <3> HIDE DEF next
      <3>1. QED
        BY <1>1, <2>2 DEF Fits
    <2>4. claimer' = [claimer EXCEPT ![c] = next] /\ faults' \in 0 .. MaxFaults
      BY <1>2, <1>3 DEF IInv
    <2>5. QED
      BY <1>1, <1>2, <1>3, <2>1, <2>3, <2>4, OneMoves
  <1>4. CASE /\ claimer' = [claimer EXCEPT ![c].pc = "polling"]
             /\ wire' = wire \union {[by |-> c, batch |-> me.batch, waits |-> TRUE]}
    <2> DEFINE next == [me EXCEPT !.pc = "polling"]
               sent == [by |-> c, batch |-> me.batch, waits |-> TRUE]
    <2>1. next \in Claims
      BY <1>1 DEF Claims, Places
    <2>2. /\ next.pc = "polling" /\ next.at = me.at /\ next.attempt = me.attempt
          /\ next.report = me.report /\ next.seen = me.seen /\ next.groups = me.groups
          /\ next.previous = me.previous /\ next.batch = me.batch
      BY <1>1 DEF Claims
    <2>3. Fits(next, mask)
      <3> HIDE DEF next
      <3>1. QED
        BY <1>1, <2>2 DEF Fits
    <2>4. claimer' = [claimer EXCEPT ![c] = next]
      BY <1>4
    <2>5. claimer' \in [Claimers -> Claims] /\ \A q \in Claimers : Fits(claimer'[q], mask)
      <3> HIDE DEF next
      <3>1. QED
        BY <2>1, <2>3, <2>4 DEF IInv
    <2>6. claimer'[c].pc = "polling" /\ claimer'[c].batch = me.batch
      <3> HIDE DEF next
      <3>1. QED
        BY <2>2, <2>4 DEF IInv
    <2>7. ASSUME NEW t, t = sent PROVE Flying(t)'
      <3>1. me.batch \in SUBSET Assets /\ me.batch # {}
        BY <1>1 DEF Claims, Fits
      <3>2. t.by = c /\ t.batch = me.batch /\ t.waits = TRUE
            /\ t \in [by : Claimers, batch : SUBSET Assets, waits : BOOLEAN]
        BY <2>7, <3>1
      <3>3. QED
        BY <2>6, <3>1, <3>2 DEF Flying
    <2>8. ASSUME NEW t \in wire PROVE Flying(t)'
      <3>1. Flying(t) /\ (t.waits => t.by # c)
        BY <1>1 DEF IInv, Flying
      <3>2. t.by # c => claimer'[t.by] = claimer[t.by]
        BY <2>4, <3>1 DEF IInv, Flying
      <3>3. QED
        BY <3>1, <3>2 DEF Flying
    <2>9. ASSUME NEW t \in wire' PROVE Flying(t)'
      <3>1. t \in wire \/ t = sent
        BY <1>4
      <3> HIDE DEF sent
      <3>2. QED
        BY <2>7, <2>8, <3>1
    <2>10. QED
      BY <1>2, <2>5, <2>9 DEF IInv, DeliveredOnce
  <1>5. QED
    BY <1>3, <1>4 DEF Send

\* The mask that was read is larger than the one the batch was made for.
LEMMA NextAttemptInv ==
  ASSUME IInv, NEW c \in Claimers,
         claimer[c].pc \in {"after", "confirmed"}, Advanced(c),
         NextAttempt(c, [claimer[c] EXCEPT !.seen = mask, !.attempt = @ + 1])
  PROVE  IInv'
  <1> DEFINE me == claimer[c]
             n == me.attempt + 1
  <1>1. me \in Claims /\ Fits(me, mask) /\ mask \in SUBSET Assets
    BY OwnState
  <1>2. /\ me.previous = me.seen /\ me.seen \in SUBSET mask
        /\ me.attempt \in Nat /\ me.attempt <= Cardinality(me.seen)
    BY <1>1, AssetFacts DEF Claims, Fits
  <1>3. CASE mask = me.seen
    <2>1. mask = Assets
      BY <1>2, <1>3 DEF Advanced, Completed
    <2>2. [me EXCEPT !.seen = mask, !.attempt = @ + 1].seen = mask
      BY <1>1 DEF Claims
    <2>3. Returns(c)
      BY <2>1, <2>2 DEF NextAttempt, Completed
    <2>4. QED
      BY <2>1, <2>3, ReturnsInv
  <1>4. CASE mask # me.seen
    <2>1. /\ Cardinality(me.seen) \in Nat /\ Cardinality(mask) \in 0 .. AssetCount
          /\ Cardinality(me.seen) < Cardinality(mask)
      BY <1>1, <1>2, <1>4, Counts
    <2>2. n \in Nat /\ n <= Cardinality(mask)
      BY <1>2, <2>1, AssetFacts
    <2>3. QED
      BY <2>2, AttemptInv
  <1>5. QED
    BY <1>3, <1>4

LEMMA ReadAfterFailureInv ==
  ASSUME IInv, NEW c \in Claimers, ReadAfterFailure(c)
  PROVE  IInv'
  <1>1. claimer[c].pc = "after"
    BY DEF ReadAfterFailure
  <1>2. CASE Fails(c)
    BY <1>1, <1>2, FailsInv
  <1>3. CASE Throws(c, "refused")
    BY <1>1, <1>3, StopsAt DEF Throws
  <1>4. QED
    BY <1>1, <1>2, <1>3, NextAttemptInv DEF ReadAfterFailure

LEMMA ReadAfterBatchInv ==
  ASSUME IInv, NEW c \in Claimers, ReadAfterBatch(c)
  PROVE  IInv'
  <1>1. claimer[c].pc = "confirmed"
    BY DEF ReadAfterBatch
  <1>2. Advanced(c)
    BY <1>1, OwnState DEF Fits, Advanced
  <1>3. CASE Fails(c)
    BY <1>1, <1>3, FailsInv
  <1>4. QED
    BY <1>1, <1>2, <1>3, NextAttemptInv DEF ReadAfterBatch

LEMMA RequestFailsInv ==
  ASSUME IInv, NEW c \in Claimers, RequestFails(c)
  PROVE  IInv'
  <1> DEFINE me == claimer[c]
             after == [me EXCEPT !.pc = "after"]
             failed == [Idle EXCEPT !.report = "failed"]
  <1>1. me \in Claims /\ Fits(me, mask) /\ mask \in SUBSET Assets /\ me.pc # "polling"
    BY OwnState DEF RequestFails
  <1>2. mask' = mask /\ paid' = paid /\ wire' = wire /\ faults' \in 0 .. MaxFaults
    BY AssetFacts DEF RequestFails, chain, IInv
  <1>3. CASE me.pc = "send"
    <2>1. after \in Claims
      BY <1>1 DEF Claims, Places
    <2>2. /\ after.pc = "after" /\ after.at = me.at /\ after.attempt = me.attempt
          /\ after.report = me.report /\ after.seen = me.seen /\ after.groups = me.groups
          /\ after.previous = me.previous
      BY <1>1 DEF Claims
    <2>3. Fits(after, mask)
      <3> HIDE DEF after
      <3>1. QED
        BY <1>1, <1>3, <2>2 DEF Fits
    <2>4. claimer' = [claimer EXCEPT ![c] = after]
      BY <1>3 DEF RequestFails
    <2>5. QED
      BY <1>1, <1>2, <2>1, <2>3, <2>4, OneMoves
  <1>4. CASE me.pc # "send"
    <2>1. claimer' = [claimer EXCEPT ![c] = failed]
      BY <1>4 DEF RequestFails
    <2>2. failed \in Claims /\ Fits(failed, mask)
      BY <1>1, IdleFits
    <2>3. QED
      BY <1>1, <1>2, <2>1, <2>2, OneMoves
  <1>5. QED
    BY <1>3, <1>4

-----------------------------------------------------------------------------
(* The chain, and the transactions in flight.                              *)

\* A transaction that lands moves the mask by all of its batch or by none of it.
LEMMA LandsMask ==
  ASSUME IInv, NEW t \in wire, Lands(t)
  PROVE  /\ mask \subseteq mask' /\ mask' \subseteq Assets
         /\ paid' \in [Assets -> Nat] /\ DeliveredOnce'
         /\ RecordClaim(t.batch) => mask' # mask
  <1>1. t.batch \in SUBSET Assets /\ t.batch # {} /\ mask \subseteq Assets
    BY DEF IInv, Flying
  <1>2. CASE ~RecordClaim(t.batch)
    BY <1>1, <1>2 DEF Lands, IInv, DeliveredOnce
  <1>3. CASE RecordClaim(t.batch)
    <2>1. /\ mask' = mask \union t.batch /\ t.batch \intersect mask = {}
          /\ paid' = [a \in Assets |-> IF a \in t.batch THEN paid[a] + 1 ELSE paid[a]]
      BY <1>3 DEF Lands, RecordClaim
    <2>2. paid' \in [Assets -> Nat]
      BY <2>1 DEF IInv
    <2>3. ASSUME NEW a \in Assets PROVE paid'[a] = IF a \in mask' THEN 1 ELSE 0
      BY <2>1 DEF IInv, DeliveredOnce
    <2>4. QED
      BY <1>1, <2>1, <2>2, <2>3 DEF DeliveredOnce
  <1>4. QED
    BY <1>2, <1>3

LEMMA LandsInv ==
  ASSUME IInv, NEW t \in wire, Lands(t)
  PROVE  IInv'
  <1> DEFINE c == t.by
             me == claimer[c]
             place == IF ~t.waits THEN me.pc
                      ELSE IF RecordClaim(t.batch) THEN "confirmed" ELSE "after"
             next == [me EXCEPT !.pc = place]
  <1>1. /\ mask \in SUBSET Assets /\ mask' \in SUBSET Assets /\ mask \subseteq mask'
        /\ paid' \in [Assets -> Nat] /\ DeliveredOnce'
        /\ RecordClaim(t.batch) => mask' # mask
    BY LandsMask DEF IInv
  <1>2. Flying(t) /\ c \in Claimers
    BY DEF IInv, Flying
  <1>3. me \in Claims /\ Fits(me, mask)
    BY <1>2, OwnState
  <1>4. claimer' = [claimer EXCEPT ![c] = next]
    BY <1>2 DEF Lands, IInv
  <1>5. next \in Claims
    <2>1. place \in Places
      BY <1>3 DEF Claims, Places
    <2> HIDE DEF place
    <2>2. QED
      BY <1>3, <2>1 DEF Claims
  <1>6. /\ next.pc = place /\ next.seen = me.seen /\ next.attempt = me.attempt
        /\ next.at = me.at /\ next.groups = me.groups /\ next.report = me.report
        /\ next.previous = me.previous /\ next.batch = me.batch
    <2> HIDE DEF place
    <2>1. QED
      BY <1>3 DEF Claims
  <1>7. Fits(me, mask')
    BY <1>1, <1>3, FitsGrows DEF Claims
  <1>8. Fits(next, mask')
    <2>1. CASE ~t.waits
      <3>1. next.pc = me.pc
        BY <1>6, <2>1
      <3> HIDE DEF next
      <3>2. QED
        BY <1>6, <1>7, <3>1 DEF Fits
    <2>2. CASE t.waits
      <3>1. me.pc = "polling"
        BY <1>2, <2>2 DEF Flying
      <3>2. next.pc \in {"confirmed", "after"} /\ (next.pc = "confirmed" => mask' # mask)
        BY <1>1, <1>6, <2>2
      <3>3. me.previous \subseteq mask
        BY <1>3, <3>1 DEF Fits
      <3>4. next.pc = "confirmed" => mask' # me.previous
        BY <1>1, <3>2, <3>3
      <3> HIDE DEF next
      <3>5. QED
        BY <1>6, <1>7, <3>1, <3>2, <3>4 DEF Fits
    <2>3. QED
      BY <1>2, <2>1, <2>2 DEF Flying
  <1> HIDE DEF next
  <1>9. claimer' \in [Claimers -> Claims]
    BY <1>2, <1>4, <1>5 DEF IInv
  <1>10. ASSUME NEW q \in Claimers PROVE Fits(claimer'[q], mask')
    <2>1. CASE q = c
      <3>1. claimer'[q] = next
        BY <1>4, <2>1 DEF IInv
      <3>2. QED
        BY <1>8, <3>1
    <2>2. CASE q # c
      <3>1. claimer'[q] = claimer[q]
        BY <1>4, <2>2 DEF IInv
      <3>2. Fits(claimer[q], mask) /\ claimer[q].previous \in SUBSET Assets
        BY OwnState DEF Claims
      <3>3. QED
        BY <1>1, <3>1, <3>2, FitsGrows
    <2>3. QED
      BY <2>1, <2>2
  <1>11. ASSUME NEW u \in wire' PROVE Flying(u)'
    <2>1. u \in wire /\ u # t
      BY DEF Lands
    <2>2. Flying(u)
      BY <2>1 DEF IInv
    <2>3. CASE ~u.waits
      BY <2>2, <2>3 DEF Flying
    <2>4. CASE u.waits /\ u.by # c
      <3>1. claimer'[u.by] = claimer[u.by]
        BY <1>4, <2>2, <2>4 DEF IInv, Flying
      <3>2. QED
        BY <2>2, <3>1 DEF Flying
    <2>5. CASE u.waits /\ u.by = c
      <3>1. ~t.waits
        <4>1. ASSUME t.waits PROVE FALSE
          <5>1. u.batch = t.batch /\ u.by = t.by /\ u.waits = t.waits
            BY <1>2, <2>2, <2>5, <4>1 DEF Flying
          <5>2. QED
            BY <1>2, <2>1, <2>2, <5>1 DEF Flying
        <4>2. QED
          BY <4>1
      <3>2. next.pc = me.pc /\ next.batch = me.batch
        BY <1>6, <3>1
      <3>3. claimer'[c] = next
        BY <1>2, <1>4 DEF IInv
      <3>4. QED
        BY <2>2, <2>5, <3>2, <3>3 DEF Flying
    <2>6. QED
      BY <2>3, <2>4, <2>5
  <1>12. faults' = faults
    BY DEF Lands
  <1>13. QED
    BY <1>1, <1>9, <1>10, <1>11, <1>12 DEF IInv

LEMMA TimesOutInv ==
  ASSUME IInv, NEW t \in wire, TimesOut(t)
  PROVE  IInv'
  <1> DEFINE c == t.by
             me == claimer[c]
             next == [me EXCEPT !.pc = "after"]
             silent == [t EXCEPT !.waits = FALSE]
  <1>1. mask' = mask /\ paid' = paid /\ faults' \in 0 .. MaxFaults
    BY AssetFacts DEF TimesOut, chain, IInv
  <1>2. Flying(t) /\ c \in Claimers /\ t.waits
    BY DEF IInv, Flying, TimesOut
  <1>3. me \in Claims /\ Fits(me, mask) /\ me.pc = "polling"
    BY <1>2, OwnState DEF Flying
  <1>4. next \in Claims
    BY <1>3 DEF Claims, Places
  <1>5. /\ next.pc = "after" /\ next.seen = me.seen /\ next.attempt = me.attempt
        /\ next.at = me.at /\ next.groups = me.groups /\ next.report = me.report
        /\ next.previous = me.previous
    BY <1>3 DEF Claims
  <1>6. claimer' = [claimer EXCEPT ![c] = next]
    BY DEF TimesOut
  <1> HIDE DEF next
  <1>7. Fits(next, mask)
    BY <1>3, <1>5 DEF Fits
  <1>8. claimer' \in [Claimers -> Claims] /\ \A q \in Claimers : Fits(claimer'[q], mask)
    BY <1>2, <1>4, <1>6, <1>7 DEF IInv
  <1>9. silent.by = t.by /\ silent.batch = t.batch /\ silent.waits = FALSE
        /\ silent \in [by : Claimers, batch : SUBSET Assets, waits : BOOLEAN]
    BY <1>2 DEF Flying
  <1>10. ASSUME NEW u \in wire' PROVE Flying(u)'
    <2>1. (u \in wire /\ u # t) \/ u = silent
      BY DEF TimesOut
    <2> HIDE DEF silent
    <2>2. CASE u = silent
      BY <1>2, <1>9, <2>2 DEF Flying
    <2>3. CASE u \in wire /\ u # t
      <3>1. Flying(u)
        BY <2>3 DEF IInv
      <3>2. u.waits => u.by # c
        <4>1. ASSUME u.waits, u.by = c PROVE FALSE
          <5>1. u.batch = t.batch /\ u.by = t.by /\ u.waits = t.waits
            BY <1>2, <3>1, <4>1 DEF Flying
          <5>2. /\ u \in [by : Claimers, batch : SUBSET Assets, waits : BOOLEAN]
                /\ t \in [by : Claimers, batch : SUBSET Assets, waits : BOOLEAN]
            BY <1>2, <3>1 DEF Flying
          <5>3. u = t
            BY <5>1, <5>2
          <5>4. QED
            BY <2>3, <5>3
        <4>2. QED
          BY <4>1
      <3>3. u.by # c => claimer'[u.by] = claimer[u.by]
        BY <1>6, <3>1 DEF IInv, Flying
      <3>4. QED
        BY <3>1, <3>2, <3>3 DEF Flying
    <2>4. QED
      BY <2>1, <2>2, <2>3
  <1>11. QED
    BY <1>1, <1>8, <1>10 DEF IInv, DeliveredOnce

LEMMA ExpiresInv ==
  ASSUME IInv, NEW t \in wire, Expires(t)
  PROVE  IInv'
  <1>1. /\ mask' = mask /\ paid' = paid /\ claimer' = claimer /\ faults' = faults
        /\ wire' \subseteq wire
    BY DEF Expires, chain
  <1>2. QED
    BY <1>1 DEF IInv, DeliveredOnce, Flying

LEMMA ClosesInv ==
  ASSUME IInv, ClosePrizePool \/ CloseTemplateOpening \/ UNCHANGED vars
  PROVE  IInv'
  <1>1. /\ mask' = mask /\ paid' = paid /\ claimer' = claimer /\ faults' = faults
        /\ wire' = wire
    BY DEF ClosePrizePool, CloseTemplateOpening, vars
  <1>2. QED
    BY <1>1 DEF IInv, DeliveredOnce, Flying

LEMMA TreeMovesInv ==
  ASSUME IInv, TreeMoves
  PROVE  IInv'
  <1>1. mask' = mask /\ paid' = paid /\ faults' = faults /\ wire' = wire
    BY DEF TreeMoves, chain
  <1>2. ASSUME NEW c \in Claimers
        PROVE  /\ claimer'[c] \in Claims /\ Fits(claimer'[c], mask)
               /\ claimer'[c].pc = claimer[c].pc /\ claimer'[c].batch = claimer[c].batch
    <2> DEFINE me == claimer[c]
               old == [me EXCEPT !.proof = "old"]
    <2>1. me \in Claims /\ Fits(me, mask)
      BY OwnState
    <2>2. old \in Claims
      BY <2>1 DEF Claims
    <2>3. /\ old.pc = me.pc /\ old.seen = me.seen /\ old.attempt = me.attempt
          /\ old.at = me.at /\ old.groups = me.groups /\ old.report = me.report
          /\ old.previous = me.previous /\ old.batch = me.batch
      BY <2>1 DEF Claims
    <2>4. claimer'[c] = me \/ claimer'[c] = old
      BY DEF TreeMoves
    <2> HIDE DEF old
    <2>5. Fits(old, mask)
      BY <2>1, <2>3 DEF Fits
    <2>6. QED
      BY <2>1, <2>2, <2>3, <2>4, <2>5
  <1>3. claimer' \in [Claimers -> Claims]
    <2>1. claimer' = [c \in Claimers |-> claimer'[c]]
      BY DEF TreeMoves
    <2>2. QED
      BY <1>2, <2>1
  <1>4. ASSUME NEW t \in wire PROVE Flying(t)'
    <2>1. Flying(t) /\ t.by \in Claimers
      BY DEF IInv, Flying
    <2>2. QED
      BY <1>2, <2>1 DEF Flying
  <1>5. QED
    BY <1>1, <1>2, <1>3, <1>4 DEF IInv, DeliveredOnce

-----------------------------------------------------------------------------
(* The theorem.                                                            *)

LEMMA InitInv ==
  ASSUME Init
  PROVE  IInv
  <1>1. Cardinality({}) = 0 /\ Len(<<>>) = 0 /\ <<>> \in Seq(Assets) /\ 0 \in 0 .. AssetCount
    BY FS_EmptySet, AssetFacts, EmptySeq
  <1>2. Idle \in Claims
    BY <1>1 DEF Idle, Claims, Places
  <1>3. Fits(Idle, {})
    BY <1>1 DEF Idle, Fits
  <1>4. 0 \in 0 .. MaxFaults
    BY AssetFacts
  <1>5. QED
    BY <1>2, <1>3, <1>4 DEF Init, IInv, DeliveredOnce

LEMMA NextInv ==
  ASSUME IInv, [Next]_vars
  PROVE  IInv'
  <1>1. ASSUME NEW c \in Claimers, Step(c) PROVE IInv'
    BY <1>1, ClaimOpeningInv, ResolvePoolInv, ResolveItemInv, ReadOpeningInv, TakeAssetInv,
       ReadPoolInv, ReadItemInv, ReadMissingInv, PartitionInv, SendInv, ReadAfterFailureInv,
       ReadAfterBatchInv DEF Step
  <1>2. ASSUME NEW c \in Claimers, Start(c) \/ RequestFails(c) PROVE IInv'
    BY <1>2, StartInv, RequestFailsInv
  <1>3. ASSUME NEW t \in wire, Lands(t) \/ TimesOut(t) \/ Expires(t) PROVE IInv'
    BY <1>3, LandsInv, TimesOutInv, ExpiresInv
  <1>4. QED
    BY <1>1, <1>2, <1>3, ClosesInv, TreeMovesInv DEF Next

\* No report of a claim is one of the last resorts, and one that returns has read a
\* mask that is full.
LEMMA SoundByInv ==
  ASSUME IInv
  PROVE  ClaimsSound
  <1>1. ASSUME NEW c \in Claimers
        PROVE  /\ claimer[c].report \notin {"limit", "noProgress", "missing"}
               /\ claimer[c].report = "done" => \A a \in Assets : paid[a] = 1
    <2>1. claimer[c] \in Claims /\ Fits(claimer[c], mask)
      BY OwnState
    <2>2. QED
      BY <2>1 DEF Claims, Fits, IInv, DeliveredOnce
  <1>2. ASSUME NEW c \in Claimers
        PROVE  /\ claimer[c].pc \in Places
               /\ claimer[c].seen \subseteq Assets /\ claimer[c].batch \subseteq Assets
               /\ claimer[c].at \in 0 .. AssetCount /\ claimer[c].attempt \in 0 .. AssetCount
               /\ Len(claimer[c].groups) <= AssetCount
    <2>1. claimer[c] \in Claims /\ Fits(claimer[c], mask)
      BY OwnState
    <2>2. Len(claimer[c].groups) \in Nat
      BY <2>1, LenProperties DEF Claims
    <2>3. Len(claimer[c].groups) <= AssetCount
      BY <2>1, <2>2, AssetFacts DEF Claims, Fits
    <2>4. QED
      BY <2>1, <2>3 DEF Claims
  <1>3. QED
    BY <1>1, <1>2 DEF ClaimsSound, TypeOK, DeliveredOnce, DoneMeansDelivered, WithinLimit, IInv

\* Whoever else delivers, whatever fails and however late a batch lands: an asset is
\* transferred once, exactly when its bit is set; a claim that returns has the whole
\* bundle delivered; and it never runs out of attempts, finds a confirmed batch
\* without effect, or an item that is gone and was not delivered.
THEOREM ClaimsAlwaysSound == Spec => []ClaimsSound
  <1>1. Init => IInv
    BY InitInv
  <1>2. IInv /\ [Next]_vars => IInv'
    BY NextInv
  <1>3. IInv => ClaimsSound
    BY SoundByInv
  <1>4. QED
    BY <1>1, <1>2, <1>3, PTL DEF Spec

-----------------------------------------------------------------------------
(* The page that opens boxes: what it shows is true of the chain.  The     *)
(* lemmas are about Of(s), the page in setting s.                          *)

Statuses == {-1, 0, 2, 3, 4}          \* Absent, Committed, ..., Forfeited

Onchain(s) ==
  /\ opening \in [Of(s)!Openings -> [status : Statuses,
                                     owner : s.wallets \union {Of(s)!NoWallet},
                                     bundle : {0} \union s.bundles]]
  /\ \A o \in Of(s)!Openings : opening[o].status \in {2, 3} => opening[o].bundle # 0

\* What machine m shows, when the openings on chain are p.
Drawn(s, m, p) ==
  /\ m \in Of(s)!Machine
  /\ m.phase \in {"claiming", "claimed"} => m.bundle # 0
  /\ m.bundle # 0 => /\ m.opening \in Of(s)!Openings
                     /\ \/ p[m.opening].status = 4
                        \/ p[m.opening].status \in {2, 3} /\ p[m.opening].bundle = m.bundle

\* A read that says allocated came from an opening that was.
Remembered(s, k, p) ==
  /\ k \in [boxes : Nat, status : [Of(s)!Openings -> Statuses],
            pending : {0} \union Of(s)!Openings]
  /\ \A o \in Of(s)!Openings : k.status[o] = 2 => p[o].status \in {2, 3}

\* So it is with what a read under way was answered.
Reading(s, rs, p) ==
  /\ rs \in [1 .. s.reads -> Of(s)!Reads]
  /\ \A i \in 1 .. s.reads : \A o \in Of(s)!Openings :
       rs[i].status[o] = 2 => p[o].status \in {2, 3}

\* The launch site has one flow at a time, and a claim is for what is shown.
OneClaim(s, m, fs, p) ==
  s.app = "web" =>
    /\ m.phase = "claiming" => \A f \in fs : f.kind = "claim" /\ f.opening = m.opening
    /\ m.phase = "claimed" => p[m.opening].status = 3

ScreenInv(s) ==
  /\ Of(s)!PageAssumption
  /\ Of(s)!TypeOK
  /\ Onchain(s)
  /\ \A f \in flows : f.kind # "open" => f.opening \in Of(s)!Openings
  /\ Remembered(s, known, opening)
  /\ Reading(s, reads, opening)
  /\ Drawn(s, machine, opening)
  /\ OneClaim(s, machine, flows, opening)

\* Openings only ever move on.
Onwards(s, p, q) ==
  \A o \in Of(s)!Openings :
    /\ p[o].status \in {2, 3, 4} => q[o].bundle = p[o].bundle
    /\ p[o].status \in {2, 3} => q[o].status \in {2, 3}
    /\ p[o].status \in {3, 4} => q[o].status = p[o].status

LEMMA StaysDrawn ==
  ASSUME NEW s, NEW m, NEW p, NEW q, Drawn(s, m, p), Onwards(s, p, q)
  PROVE  Drawn(s, m, q)
BY DEF Drawn, Onwards

LEMMA StaysRemembered ==
  ASSUME NEW s, NEW k, NEW p, NEW q, Remembered(s, k, p), Onwards(s, p, q)
  PROVE  Remembered(s, k, q)
BY DEF Remembered, Onwards

LEMMA StaysReading ==
  ASSUME NEW s, NEW rs, NEW p, NEW q, Reading(s, rs, p), Onwards(s, p, q)
  PROVE  Reading(s, rs, q)
BY DEF Reading, Onwards

\* Claimed stays claimed when machine and flows stay.
LEMMA StaysClaimed ==
  ASSUME NEW s, NEW m, NEW fs, NEW p, NEW q, Drawn(s, m, p), Onwards(s, p, q),
         OneClaim(s, m, fs, p)
  PROVE  OneClaim(s, m, fs, q)
BY DEF OneClaim, Drawn, Onwards

LEMMA Reduced ==
  ASSUME NEW s, NEW m, Drawn(s, m, opening),
         NEW type \in {"hold", "release", "charged", "revealFinished", "claim",
                       "claimed", "fail", "reset"}
  PROVE  /\ Drawn(s, Of(s)!openingReducer(m, Of(s)!Event(type)), opening)
         /\ Of(s)!openingReducer(m, Of(s)!Event(type)).phase = "claiming" =>
              \/ type = "claim" /\ m.phase # "claiming"
                   /\ Of(s)!openingReducer(m, Of(s)!Event(type)).opening = m.opening
              \/ Of(s)!openingReducer(m, Of(s)!Event(type)) = m
         /\ Of(s)!openingReducer(m, Of(s)!Event(type)).phase = "claimed" =>
              \/ type = "claimed" /\ m.phase = "claiming"
                   /\ Of(s)!openingReducer(m, Of(s)!Event(type)).opening = m.opening
              \/ Of(s)!openingReducer(m, Of(s)!Event(type)) = m
<1>1. m \in [phase : Of(s)!Phases, opening : {0} \union Of(s)!Openings,
             bundle : {0} \union s.bundles]
  BY DEF Drawn, Of!Machine
<1>2. CASE type = "hold"
  BY <1>1, <1>2 DEF Drawn, Of!openingReducer, Of!Event, Of!Accepts, Of!PhaseAfter,
                    Of!Carried, Of!Holds, Of!Machine, Of!Phases
<1>3. CASE type = "release"
  BY <1>1, <1>3 DEF Drawn, Of!openingReducer, Of!Event, Of!Accepts, Of!PhaseAfter,
                    Of!Carried, Of!Holds, Of!Machine, Of!Phases
<1>4. CASE type = "charged"
  BY <1>1, <1>4 DEF Drawn, Of!openingReducer, Of!Event, Of!Accepts, Of!PhaseAfter,
                    Of!Carried, Of!Holds, Of!Machine, Of!Phases
<1>5. CASE type = "revealFinished"
  BY <1>1, <1>5 DEF Drawn, Of!openingReducer, Of!Event, Of!Accepts, Of!PhaseAfter,
                    Of!Carried, Of!Holds, Of!Machine, Of!Phases
<1>6. CASE type = "claim"
  BY <1>1, <1>6 DEF Drawn, Of!openingReducer, Of!Event, Of!Accepts, Of!PhaseAfter,
                    Of!Carried, Of!Holds, Of!Machine, Of!Phases
<1>7. CASE type = "claimed"
  BY <1>1, <1>7 DEF Drawn, Of!openingReducer, Of!Event, Of!Accepts, Of!PhaseAfter,
                    Of!Carried, Of!Holds, Of!Machine, Of!Phases
<1>8. CASE type = "fail"
  BY <1>1, <1>8 DEF Drawn, Of!openingReducer, Of!Event, Of!Accepts, Of!PhaseAfter,
                    Of!Carried, Of!Holds, Of!Machine, Of!Phases
<1>9. CASE type = "reset"
  BY <1>1, <1>9 DEF Drawn, Of!openingReducer, Of!Event, Of!Accepts, Of!PhaseAfter,
                    Of!Carried, Of!Holds, Of!Machine, Of!Phases
<1> QED
  BY <1>2, <1>3, <1>4, <1>5, <1>6, <1>7, <1>8, <1>9

LEMMA Commits ==
  ASSUME NEW s, NEW m, NEW o \in Of(s)!Openings, Drawn(s, m, opening)
  PROVE  /\ Drawn(s, Of(s)!openingReducer(m, Of(s)!Committing(o)), opening)
         /\ \/ Of(s)!openingReducer(m, Of(s)!Committing(o)) = m
            \/ Of(s)!openingReducer(m, Of(s)!Committing(o)).phase = "rolling"
BY DEF Drawn, Of!openingReducer, Of!Committing, Of!Accepts, Of!PhaseAfter, Of!Carried,
       Of!Holds, Of!Machine, Of!Phases

LEMMA Records ==
  ASSUME NEW s, NEW m, NEW o \in Of(s)!Openings, Of(s)!PageAssumption, Onchain(s),
         Drawn(s, m, opening), opening[o].status \in {2, 3, 4}
  PROVE  /\ Drawn(s, Of(s)!openingReducer(m, Of(s)!Recorded(o)), opening)
         /\ \/ Of(s)!openingReducer(m, Of(s)!Recorded(o)) = m
            \/ Of(s)!openingReducer(m, Of(s)!Recorded(o)).phase = "revealing"
<1>1. opening[o].bundle \in {0} \union s.bundles /\ 1 \in s.bundles /\ 0 \notin s.bundles
  BY DEF Onchain, Of!PageAssumption
<1>2. opening[o].status \in {2, 3} => opening[o].bundle # 0
  BY DEF Onchain
<1> DEFINE b == Of(s)!Recorded(o).bundle
<1>3. b \in s.bundles /\ b # 0 /\ (opening[o].status = 4 \/ opening[o].bundle = b)
  BY <1>1, <1>2 DEF Of!Recorded
<1>4. Of(s)!Recorded(o).type = "recorded" /\ Of(s)!Recorded(o).opening = o
  BY DEF Of!Recorded
<1> HIDE DEF b
<1>5. Of(s)!openingReducer(m, Of(s)!Recorded(o)) =
        IF m.phase \notin {"rolling", "burning", "idle", "failed"} THEN m
        ELSE [phase |-> "revealing", opening |-> o, bundle |-> b]
  BY <1>4 DEF b, Of!openingReducer, Of!Accepts, Of!PhaseAfter, Of!Carried
<1> QED
  BY <1>3, <1>5 DEF Drawn, Of!Machine, Of!Phases

-----------------------------------------------------------------------------
\* Records of an opening, written field by field.
LEMMA Fields ==
  ASSUME NEW a, NEW b, NEW c, NEW y
  PROVE  /\ [[status |-> a, owner |-> b, bundle |-> c] EXCEPT !.owner = y]
              = [status |-> a, owner |-> y, bundle |-> c]
         /\ [[status |-> a, owner |-> b, bundle |-> c] EXCEPT !.bundle = y]
              = [status |-> a, owner |-> b, bundle |-> y]
OBVIOUS

LEMMA BurnedInv ==
  ASSUME NEW s, ScreenInv(s), NEW w \in s.wallets, Of(s)!Burned(w)
  PROVE  /\ boxes' \in [s.wallets -> Nat]
         /\ Onchain(s)'
         /\ Onwards(s, opening, opening')
<1>1. PICK o \in Of(s)!Openings :
        /\ opening[o].status = -1
        /\ boxes[w] > 0
        /\ boxes' = [boxes EXCEPT ![w] = @ - 1]
        /\ opening' = [opening EXCEPT ![o].status = 0, ![o].owner = w]
  BY DEF Of!Burned, Of!Absent, Of!Committed
<1>2. boxes \in [s.wallets -> Nat]
  BY DEF ScreenInv, Of!TypeOK
<1>3. boxes' \in [s.wallets -> Nat]
  BY <1>1, <1>2
<1>4. opening \in [Of(s)!Openings -> [status : Statuses,
                                      owner : s.wallets \union {Of(s)!NoWallet},
                                      bundle : {0} \union s.bundles]]
  BY DEF ScreenInv, Onchain
<1>5. opening' = [opening EXCEPT ![o] = [status |-> 0, owner |-> w,
                                         bundle |-> opening[o].bundle]]
  <2> DEFINE r == [opening[o] EXCEPT !.status = 0]
             once == [opening EXCEPT ![o] = r]
  <2>1. r = [status |-> 0, owner |-> opening[o].owner, bundle |-> opening[o].bundle]
    BY <1>4
  <2>2. [r EXCEPT !.owner = w] = [status |-> 0, owner |-> w, bundle |-> opening[o].bundle]
    <3> HIDE DEF r
    <3> QED
      BY <2>1, Fields
  <2>3. once[o] = r
    BY <1>4
  <2>4. opening' = [once EXCEPT ![o].owner = w]
    BY <1>1
  <2> HIDE DEF r
  <2>5. [once EXCEPT ![o].owner = w] = [once EXCEPT ![o] = [r EXCEPT !.owner = w]]
    BY <2>3
  <2>6. [once EXCEPT ![o] = [r EXCEPT !.owner = w]] = [opening EXCEPT ![o] = [r EXCEPT !.owner = w]]
    OBVIOUS
  <2> QED
    BY <2>2, <2>4, <2>5, <2>6
<1> DEFINE e == [status |-> 0, owner |-> w, bundle |-> opening[o].bundle]
<1>6. /\ e \in [status : Statuses, owner : s.wallets \union {Of(s)!NoWallet},
                bundle : {0} \union s.bundles]
      /\ e.status = 0
  BY <1>4 DEF Statuses
<1> HIDE DEF e
<1>7. opening' = [opening EXCEPT ![o] = e]
  BY <1>5 DEF e
<1>8. Onchain(s)'
  BY <1>4, <1>6, <1>7 DEF ScreenInv, Onchain
<1>9. Onwards(s, opening, opening')
  BY <1>1, <1>4, <1>5 DEF Onwards
<1> QED
  BY <1>3, <1>8, <1>9

\* The openings move on under a page that does nothing.
LEMMA OthersInv ==
  ASSUME NEW s, ScreenInv(s), boxes' \in [s.wallets -> Nat],
         Onchain(s)', Onwards(s, opening, opening'),
         UNCHANGED <<wallet, machine, flows, known, reads>>
  PROVE  ScreenInv(s)'
<1>1. Of(s)!TypeOK' /\ \A f \in flows' : f.kind # "open" => f.opening \in Of(s)!Openings
  BY DEF ScreenInv, Of!TypeOK
<1>2. Remembered(s, known', opening') /\ Reading(s, reads', opening')
  BY StaysRemembered, StaysReading DEF ScreenInv
<1>3. Drawn(s, machine', opening')
  BY StaysDrawn DEF ScreenInv
<1>4. OneClaim(s, machine', flows', opening')
  BY StaysClaimed DEF ScreenInv
<1> QED
  BY <1>1, <1>2, <1>3, <1>4 DEF ScreenInv

LEMMA ChainInv ==
  ASSUME NEW s, ScreenInv(s),
         \/ \E w \in s.wallets : Of(s)!BurnElsewhere(w)
         \/ \E o \in Of(s)!Openings : Of(s)!Settle(o) \/ Of(s)!Forfeit(o) \/ Of(s)!Deliver(o)
  PROVE  ScreenInv(s)'
<1>1. /\ boxes \in [s.wallets -> Nat]
      /\ opening \in [Of(s)!Openings -> [status : Statuses,
                                         owner : s.wallets \union {Of(s)!NoWallet},
                                         bundle : {0} \union s.bundles]]
      /\ Onchain(s)
  BY DEF ScreenInv, Of!TypeOK, Onchain
<1>2. 0 \notin s.bundles
  BY DEF ScreenInv, Of!PageAssumption
<1>3. ASSUME NEW w \in s.wallets, Of(s)!BurnElsewhere(w)
      PROVE  ScreenInv(s)'
  <2>1. Of(s)!Burned(w) /\ UNCHANGED <<wallet, machine, flows, known, reads>>
    BY <1>3 DEF Of!BurnElsewhere
  <2> QED
    BY <1>1, <2>1, BurnedInv, OthersInv
<1>4. ASSUME NEW o \in Of(s)!Openings, NEW e, opening' = [opening EXCEPT ![o] = e],
             e \in [status : Statuses, owner : s.wallets \union {Of(s)!NoWallet},
                    bundle : {0} \union s.bundles],
             \/ opening[o].status = 0 /\ e.status \in {2, 4}
             \/ opening[o].status = 2 /\ e.status = 3 /\ e.bundle = opening[o].bundle,
             e.status \in {2, 3} => e.bundle # 0,
             UNCHANGED <<boxes, wallet, machine, flows, known, reads>>
      PROVE  ScreenInv(s)'
  <2>1. Onchain(s)'
    BY <1>1, <1>4 DEF Onchain
  <2>2. Onwards(s, opening, opening')
    BY <1>1, <1>4 DEF Onwards
  <2> QED
    BY <1>1, <1>4, <2>1, <2>2, OthersInv
<1>5. ASSUME NEW o \in Of(s)!Openings, Of(s)!Settle(o)
      PROVE  ScreenInv(s)'
  <2>1. PICK b \in s.bundles : opening' = [opening EXCEPT ![o].status = 2, ![o].bundle = b]
    BY <1>5 DEF Of!Settle, Of!Allocated
  <2> DEFINE e == [status |-> 2, owner |-> opening[o].owner, bundle |-> b]
  <2>2. opening' = [opening EXCEPT ![o] = e]
    <3> DEFINE r == [opening[o] EXCEPT !.status = 2]
               once == [opening EXCEPT ![o] = r]
    <3>1. r = [status |-> 2, owner |-> opening[o].owner, bundle |-> opening[o].bundle]
      BY <1>1
    <3>2. [r EXCEPT !.bundle = b] = e
    <4> HIDE DEF r
    <4> QED
        BY <3>1, Fields
    <3>3. once[o] = r
      BY <1>1
    <3>4. opening' = [once EXCEPT ![o].bundle = b]
      BY <2>1
    <3> HIDE DEF r
    <3>5. [once EXCEPT ![o].bundle = b] = [once EXCEPT ![o] = [r EXCEPT !.bundle = b]]
      BY <3>3
    <3>6. [once EXCEPT ![o] = [r EXCEPT !.bundle = b]] = [opening EXCEPT ![o] = [r EXCEPT !.bundle = b]]
      OBVIOUS
    <3> QED
      BY <3>2, <3>4, <3>5, <3>6
  <2>3. /\ e \in [status : Statuses, owner : s.wallets \union {Of(s)!NoWallet},
                  bundle : {0} \union s.bundles]
        /\ e.status = 2 /\ e.bundle # 0
    BY <1>1, <1>2 DEF Statuses
  <2>4. opening[o].status = 0
        /\ UNCHANGED <<boxes, wallet, machine, flows, known, reads>>
    BY <1>5 DEF Of!Settle, Of!Committed
  <2> HIDE DEF e
  <2> QED
    BY <1>4, <2>2, <2>3, <2>4
<1>6. ASSUME NEW o \in Of(s)!Openings, Of(s)!Forfeit(o)
      PROVE  ScreenInv(s)'
  <2> DEFINE e == [opening[o] EXCEPT !.status = 4]
  <2>1. /\ opening[o].status = 0 /\ opening' = [opening EXCEPT ![o] = e]
        /\ UNCHANGED <<boxes, wallet, machine, flows, known, reads>>
    BY <1>6 DEF Of!Forfeit, Of!Committed, Of!Forfeited
  <2>2. /\ e \in [status : Statuses, owner : s.wallets \union {Of(s)!NoWallet},
                  bundle : {0} \union s.bundles]
        /\ e.status \in {2, 4} /\ e.status \notin {2, 3}
    BY <1>1 DEF Statuses
  <2> HIDE DEF e
  <2> QED
    BY <1>4, <2>1, <2>2
<1>7. ASSUME NEW o \in Of(s)!Openings, Of(s)!Deliver(o)
      PROVE  ScreenInv(s)'
  <2> DEFINE e == [opening[o] EXCEPT !.status = 3]
  <2>1. /\ opening[o].status = 2 /\ opening' = [opening EXCEPT ![o] = e]
        /\ UNCHANGED <<boxes, wallet, machine, flows, known, reads>>
    BY <1>7 DEF Of!Deliver, Of!Allocated, Of!Delivered
  <2>2. /\ e \in [status : Statuses, owner : s.wallets \union {Of(s)!NoWallet},
                  bundle : {0} \union s.bundles]
        /\ e.status = 3 /\ e.bundle = opening[o].bundle /\ e.bundle # 0
    BY <1>1, <2>1 DEF Statuses, Onchain
  <2> HIDE DEF e
  <2> QED
    BY <1>4, <2>1, <2>2
<1> QED
  BY <1>3, <1>5, <1>6, <1>7

-----------------------------------------------------------------------------
\* The page goes on while the chain stays.
LEMMA PageInv ==
  ASSUME NEW s, ScreenInv(s), UNCHANGED <<boxes, opening>>,
         wallet' \in s.wallets \union {Of(s)!NoWallet}, Reading(s, reads', opening),
         flows' \subseteq Of(s)!Flows,
         \A f \in flows' : f.kind # "open" => f.opening \in Of(s)!Openings,
         Remembered(s, known', opening), Drawn(s, machine', opening),
         OneClaim(s, machine', flows', opening)
  PROVE  ScreenInv(s)'
<1>1. boxes' \in [s.wallets -> Nat]
  BY DEF ScreenInv, Of!TypeOK
<1>2. machine' \in Of(s)!Machine /\ known'.boxes \in Nat
      /\ known'.pending \in {0} \union Of(s)!Openings
  BY DEF Drawn, Remembered
<1>3. reads' \in [1 .. s.reads -> Of(s)!Reads]
  BY DEF Reading
<1>4. Of(s)!TypeOK'
  BY <1>1, <1>2, <1>3 DEF Of!TypeOK
<1>5. Onchain(s)'
  BY DEF ScreenInv, Onchain
<1> QED
  BY <1>4, <1>5 DEF ScreenInv

\* An event of the page keeps the one claim the launch site has.
LEMMA OneClaimStays ==
  ASSUME NEW s, ScreenInv(s),
         NEW type \in {"hold", "release", "charged", "revealFinished", "claim",
                       "claimed", "fail", "reset"},
         NEW fs,
         type = "claim" /\ s.app = "web" =>
           \A f \in fs : f.kind = "claim" /\ f.opening = machine.opening,
         type = "claimed" /\ s.app = "web" /\ machine.phase = "claiming" =>
           opening[machine.opening].status = 3,
         type # "claim" => fs \subseteq flows \/ (s.app = "web" => machine.phase # "claiming")
  PROVE  /\ Drawn(s, Of(s)!openingReducer(machine, Of(s)!Event(type)), opening)
         /\ OneClaim(s, Of(s)!openingReducer(machine, Of(s)!Event(type)), fs, opening)
<1> DEFINE after == Of(s)!openingReducer(machine, Of(s)!Event(type))
<1>1. /\ Drawn(s, after, opening)
      /\ after.phase = "claiming" =>
           (type = "claim" /\ after.opening = machine.opening) \/ after = machine
      /\ after.phase = "claimed" =>
           \/ type = "claimed" /\ machine.phase = "claiming" /\ after.opening = machine.opening
           \/ after = machine
  BY Reduced DEF ScreenInv
<1>2. OneClaim(s, machine, flows, opening)
  BY DEF ScreenInv
<1> HIDE DEF after
<1>3. OneClaim(s, after, fs, opening)
  BY <1>1, <1>2 DEF OneClaim
<1> QED
  BY <1>1, <1>3 DEF after

\* What the invariant says of the flows and of the page.
LEMMA PageTyped ==
  ASSUME NEW s, ScreenInv(s)
  PROVE  /\ wallet \in s.wallets \union {Of(s)!NoWallet}
         /\ Reading(s, reads, opening) /\ flows \subseteq Of(s)!Flows
         /\ \A f \in flows : f.kind # "open" => f.opening \in Of(s)!Openings
         /\ Remembered(s, known, opening) /\ Drawn(s, machine, opening)
         /\ machine \in Of(s)!Machine
BY DEF ScreenInv, Of!TypeOK, Drawn

LEMMA ButtonInv ==
  ASSUME NEW s, ScreenInv(s),
         Of(s)!Hold \/ Of(s)!Release \/ Of(s)!RevealFinished \/ Of(s)!Reset
  PROVE  ScreenInv(s)'
<1>1. PICK type \in {"hold", "release", "revealFinished", "reset"} :
        machine' = Of(s)!openingReducer(machine, Of(s)!Event(type))
  BY DEF Of!Hold, Of!Release, Of!RevealFinished, Of!Reset, Of!Dispatch
<1>2. UNCHANGED <<boxes, opening, wallet, flows, known, reads>>
  BY DEF Of!Hold, Of!Release, Of!RevealFinished, Of!Reset, Of!chain
<1>3. Drawn(s, machine', opening) /\ OneClaim(s, machine', flows, opening)
  BY <1>1, OneClaimStays
<1> QED
  BY <1>2, <1>3, PageInv, PageTyped

LEMMA FlowStarts ==
  ASSUME NEW s, ScreenInv(s), NEW kind \in {"open", "resume", "claim"},
         NEW o \in {0} \union Of(s)!Openings, wallet # Of(s)!NoWallet,
         kind # "open" => o # 0, Of(s)!Start(kind, o),
         UNCHANGED <<boxes, opening, wallet, known, reads>>,
         Drawn(s, machine', opening), OneClaim(s, machine', flows', opening)
  PROVE  ScreenInv(s)'
<1>1. wallet \in s.wallets
  BY PageTyped
<1>2. flows' \subseteq Of(s)!Flows
      /\ \A f \in flows' : f.kind # "open" => f.opening \in Of(s)!Openings
  BY <1>1, PageTyped DEF Of!Start, Of!Flow, Of!Flows
<1> QED
  BY <1>2, PageInv, PageTyped

LEMMA OpenInv ==
  ASSUME NEW s, ScreenInv(s), Of(s)!Open
  PROVE  ScreenInv(s)'
<1>1. /\ machine' = Of(s)!openingReducer(machine, Of(s)!Event("charged"))
      /\ machine.phase # "claiming" /\ wallet # Of(s)!NoWallet
      /\ Of(s)!Start("open", 0)
      /\ UNCHANGED <<boxes, opening, wallet, known, reads>>
  BY DEF Of!Open, Of!Dispatch, Of!Shows, Of!chain
<1>2. Drawn(s, machine', opening) /\ OneClaim(s, machine', flows', opening)
  BY <1>1, OneClaimStays
<1> QED
  BY <1>1, <1>2, FlowStarts

LEMMA FinishInv ==
  ASSUME NEW s, ScreenInv(s),
         Of(s)!FinishFailed \/ \E o \in Of(s)!Openings : Of(s)!FinishListed(o)
  PROVE  ScreenInv(s)'
<1>1. PICK o \in Of(s)!Openings :
        /\ machine' = Of(s)!openingReducer(machine, Of(s)!Committing(o))
        /\ s.app = "web" => machine.phase \in {"failed", "idle"}
        /\ wallet # Of(s)!NoWallet
        /\ Of(s)!Start("resume", o)
        /\ UNCHANGED <<boxes, opening, wallet, known, reads>>
  <2>1. CASE Of(s)!FinishFailed
    BY <2>1, PageTyped DEF Of!FinishFailed, Of!Dispatch, Of!Shows, Of!chain, Of!Machine
  <2>2. ASSUME NEW o \in Of(s)!Openings, Of(s)!FinishListed(o)
        PROVE  /\ machine' = Of(s)!openingReducer(machine, Of(s)!Committing(o))
               /\ s.app = "web" => machine.phase \in {"failed", "idle"}
               /\ wallet # Of(s)!NoWallet
               /\ Of(s)!Start("resume", o)
               /\ UNCHANGED <<boxes, opening, wallet, known, reads>>
    BY <2>2 DEF Of!FinishListed, Of!Dispatch, Of!Listed, Of!Shows, Of!chain
  <2> QED
    BY <2>1, <2>2
<1>2. o # 0
  BY DEF Of!Openings
<1>3. Drawn(s, machine', opening) /\ (machine' = machine \/ machine'.phase = "rolling")
  BY <1>1, Commits, PageTyped
<1>4. OneClaim(s, machine', flows', opening)
  BY <1>1, <1>3 DEF ScreenInv, OneClaim
<1> QED
  BY <1>1, <1>2, <1>3, <1>4, FlowStarts

LEMMA ClaimInv ==
  ASSUME NEW s, ScreenInv(s), Of(s)!Claim
  PROVE  ScreenInv(s)'
<1>1. /\ machine' = Of(s)!openingReducer(machine, Of(s)!Event("claim"))
      /\ machine.bundle # 0 /\ wallet # Of(s)!NoWallet
      /\ s.app = "web" => flows = {}
      /\ Of(s)!Start("claim", machine.opening)
      /\ UNCHANGED <<boxes, opening, wallet, known, reads>>
  BY DEF Of!Claim, Of!Dispatch, Of!Shows, Of!chain, Of!Holds, Of!MayStart
<1>2. machine.opening \in Of(s)!Openings /\ machine.opening # 0
  BY <1>1, PageTyped DEF Drawn, Of!Openings
<1>3. s.app = "web" => \A f \in flows' : f.kind = "claim" /\ f.opening = machine.opening
  BY <1>1 DEF Of!Start, Of!Flow
<1>4. Drawn(s, machine', opening) /\ OneClaim(s, machine', flows', opening)
  BY <1>1, <1>3, OneClaimStays
<1> QED
  BY <1>1, <1>2, <1>4, FlowStarts

LEMMA ShowPrizeInv ==
  ASSUME NEW s, ScreenInv(s), NEW o \in Of(s)!Openings, Of(s)!ShowPrize(o)
  PROVE  ScreenInv(s)'
<1> DEFINE first == Of(s)!openingReducer(machine, Of(s)!Recorded(o))
<1>1. /\ s.app = "platform"
      /\ known.status[o] = 2
      /\ machine' = Of(s)!openingReducer(first, Of(s)!Event("revealFinished"))
      /\ UNCHANGED <<boxes, opening, wallet, flows, known, reads>>
  BY DEF Of!ShowPrize, Of!chain, Of!Allocated
<1>2. opening[o].status \in {2, 3, 4} /\ Onchain(s) /\ Of(s)!PageAssumption
  BY <1>1, PageTyped DEF ScreenInv, Remembered
<1>3. Drawn(s, first, opening)
  BY <1>2, Records, PageTyped
<1> HIDE DEF first
<1>4. Drawn(s, machine', opening)
  BY <1>1, <1>3, Reduced
<1>5. OneClaim(s, machine', flows', opening)
  BY <1>1 DEF OneClaim
<1> QED
  BY <1>1, <1>4, <1>5, PageInv, PageTyped

\* A refresh asks again, for the wallet it is for.
LEMMA RefreshReads ==
  ASSUME NEW s, ScreenInv(s), NEW w \in s.wallets, Of(s)!Refresh(w)
  PROVE  Reading(s, reads', opening)
<1> DEFINE e == Of(s)!Asked(w)
<1>1. e \in Of(s)!Reads /\ \A o \in Of(s)!Openings : e.status[o] # 2
  BY DEF Of!Asked, Of!Reads, Of!NoOpenings, Of!Absent, Of!Unanswered
<1>2. Reading(s, reads, opening) /\ 1 \in 1 .. s.reads
  BY DEF ScreenInv, Of!PageAssumption
<1> HIDE DEF e
<1>3. PICK i \in 1 .. s.reads : reads' = [reads EXCEPT ![i] = e]
  BY <1>2 DEF e, Of!Refresh
<1> QED
  BY <1>1, <1>2, <1>3 DEF Reading

LEMMA LookAgainInv ==
  ASSUME NEW s, ScreenInv(s), Of(s)!LookAgain
  PROVE  ScreenInv(s)'
<1>1. /\ wallet # Of(s)!NoWallet /\ Of(s)!Refresh(wallet)
      /\ UNCHANGED <<boxes, opening, wallet, machine, flows, known>>
  BY DEF Of!LookAgain, Of!Shows, Of!chain
<1>2. Reading(s, reads', opening)
  BY <1>1, RefreshReads, PageTyped
<1>3. OneClaim(s, machine', flows', opening)
  BY <1>1 DEF ScreenInv
<1> QED
  BY <1>1, <1>2, <1>3, PageInv, PageTyped

\* A flow ends: whether or not it reads again, what reads say stays true.
LEMMA EndsReads ==
  ASSUME NEW s, ScreenInv(s), NEW f \in flows, NEW e, Of(s)!Ends(f, e)
  PROVE  Reading(s, reads', opening)
<1>1. f.wallet \in s.wallets
  BY PageTyped DEF Of!Flows
<1>2. Of(s)!Refresh(f.wallet) \/ reads' = reads
  BY DEF Of!Ends
<1> QED
  BY <1>1, <1>2, RefreshReads, PageTyped

\* A flow that ends without a word about the chain.
LEMMA FailsScreen ==
  ASSUME NEW s, ScreenInv(s), NEW f \in flows, Of(s)!Fails(f)
  PROVE  ScreenInv(s)'
<1>1. /\ machine' = Of(s)!openingReducer(machine, Of(s)!Event("fail"))
      /\ flows' = flows \ {f} /\ Of(s)!Ends(f, Of(s)!Event("fail"))
      /\ UNCHANGED <<boxes, opening, wallet, known>>
  BY DEF Of!Fails, Of!Ends, Of!Dispatch
<1>2. Reading(s, reads', opening)
  BY <1>1, EndsReads
<1>3. Drawn(s, machine', opening) /\ OneClaim(s, machine', flows', opening)
  BY <1>1, OneClaimStays
<1> QED
  BY <1>1, <1>2, <1>3, PageInv, PageTyped

LEMMA SettleReturnsInv ==
  ASSUME NEW s, ScreenInv(s), NEW f \in flows, Of(s)!SettleReturns(f)
  PROVE  ScreenInv(s)'
<1>1. /\ machine' = Of(s)!openingReducer(machine, Of(s)!Recorded(f.opening))
      /\ flows' = flows \ {f} /\ Of(s)!Ends(f, Of(s)!Recorded(f.opening))
      /\ UNCHANGED <<boxes, opening, wallet, known>>
      /\ f.kind # "claim" /\ f.opening # 0 /\ opening[f.opening].status >= 2
  BY DEF Of!SettleReturns, Of!Ends, Of!Dispatch, Of!SettleDone, Of!Allocated
<1>2. f.opening \in Of(s)!Openings /\ Onchain(s) /\ Of(s)!PageAssumption
  BY <1>1, PageTyped DEF ScreenInv, Of!Flows
<1>3. Reading(s, reads', opening)
  BY <1>1, EndsReads
<1>4. opening[f.opening].status \in Statuses
  BY <1>2 DEF Onchain
<1>5. opening[f.opening].status \in {2, 3, 4}
  BY <1>1, <1>4 DEF Statuses
<1>6. /\ Drawn(s, machine', opening)
      /\ machine' = machine \/ machine'.phase = "revealing"
  BY <1>1, <1>2, <1>5, Records, PageTyped
<1>7. OneClaim(s, machine', flows', opening)
  BY <1>1, <1>6 DEF ScreenInv, OneClaim
<1> QED
  BY <1>1, <1>6, <1>7, <1>3, PageInv, PageTyped

LEMMA BurnConfirmedInv ==
  ASSUME NEW s, ScreenInv(s), NEW f \in flows, Of(s)!BurnConfirmed(f)
  PROVE  ScreenInv(s)'
<1>1. f.wallet \in s.wallets
  BY PageTyped DEF Of!Flows
<1>2. PICK o \in Of(s)!Openings :
        /\ machine' = Of(s)!openingReducer(machine, Of(s)!Committing(o))
        /\ flows' = (flows \ {f}) \union {[f EXCEPT !.opening = o]}
        /\ known' = [known EXCEPT !.pending = IF s.app = "web" THEN o ELSE @]
  BY DEF Of!BurnConfirmed, Of!Dispatch
<1>3. /\ f.kind = "open" /\ Of(s)!Burned(f.wallet)
      /\ Of(s)!Refresh(f.wallet) \/ reads' = reads
      /\ UNCHANGED wallet
  BY DEF Of!BurnConfirmed, Of!Burns
<1>4. Reading(s, reads', opening)
  BY <1>1, <1>3, RefreshReads, PageTyped
<1>5. /\ boxes' \in [s.wallets -> Nat]
      /\ Onchain(s)'
      /\ Onwards(s, opening, opening')
  BY <1>1, <1>3, BurnedInv
<1>6. Drawn(s, machine', opening) /\ (machine' = machine \/ machine'.phase = "rolling")
  BY <1>2, Commits, PageTyped
<1>7. Drawn(s, machine', opening')
  BY <1>5, <1>6, StaysDrawn
<1>8. OneClaim(s, machine, flows, opening)
  BY DEF ScreenInv
<1>9. s.app = "web" => machine.phase # "claiming"
  BY <1>3, <1>8 DEF OneClaim
<1>10. OneClaim(s, machine', flows', opening)
  BY <1>6, <1>8, <1>9 DEF OneClaim
<1>11. OneClaim(s, machine', flows', opening')
  BY <1>5, <1>6, <1>10, StaysClaimed
<1>12. Remembered(s, known', opening')
  <2>1. Remembered(s, known', opening)
    BY <1>2, PageTyped DEF Remembered
  <2> QED
    BY <1>5, <2>1, StaysRemembered
<1>13. Reading(s, reads', opening')
  BY <1>5, <1>4, StaysReading
<1>14. reads' \in [1 .. s.reads -> Of(s)!Reads]
  BY <1>4 DEF Reading
<1> DEFINE g == [f EXCEPT !.opening = o]
<1>15. g \in Of(s)!Flows /\ g.kind = f.kind /\ g.opening = o
  BY PageTyped DEF Of!Flows
<1> HIDE DEF g
<1>16. flows' = (flows \ {f}) \union {g}
  BY <1>2 DEF g
<1>17. flows' \subseteq Of(s)!Flows
       /\ \A h \in flows' : h.kind # "open" => h.opening \in Of(s)!Openings
  BY <1>15, <1>16, PageTyped
<1>18. machine' \in Of(s)!Machine /\ known'.boxes \in Nat
       /\ known'.pending \in {0} \union Of(s)!Openings
  BY <1>7, <1>12 DEF Drawn, Remembered
<1>19. Of(s)!TypeOK'
  BY <1>3, <1>5, <1>17, <1>18, <1>14, PageTyped DEF Of!TypeOK
<1> QED
  BY <1>5, <1>7, <1>11, <1>12, <1>17, <1>19, <1>13 DEF ScreenInv

LEMMA ClaimReturnsInv ==
  ASSUME NEW s, ScreenInv(s), NEW f \in flows, Of(s)!ClaimReturns(f)
  PROVE  ScreenInv(s)'
<1> DEFINE e == [opening[f.opening] EXCEPT !.status = 3]
<1>1. /\ f.kind = "claim" /\ opening[f.opening].status \in {2, 3}
      /\ opening' = [opening EXCEPT ![f.opening] = e]
      /\ flows' = flows \ {f}
      /\ machine' = Of(s)!openingReducer(machine, Of(s)!Event("claimed"))
      /\ Of(s)!Ends(f, Of(s)!Event("claimed"))
      /\ known' = [known EXCEPT !.pending = IF s.app = "web" THEN 0 ELSE @]
      /\ UNCHANGED <<boxes, wallet>>
  BY DEF Of!ClaimReturns, Of!Ends, Of!Dispatch, Of!Allocated, Of!Delivered
<1>2. f.opening \in Of(s)!Openings /\ Onchain(s)
  BY <1>1 DEF ScreenInv
<1>3. /\ e \in [status : Statuses, owner : s.wallets \union {Of(s)!NoWallet},
                bundle : {0} \union s.bundles]
      /\ e.status = 3 /\ e.bundle = opening[f.opening].bundle /\ e.bundle # 0
  BY <1>1, <1>2 DEF Onchain, Statuses
<1> HIDE DEF e
<1>4. Onchain(s)'
  BY <1>1, <1>2, <1>3 DEF Onchain
<1>5. Onwards(s, opening, opening')
  BY <1>1, <1>2, <1>3 DEF Onwards, Onchain
<1>6. Drawn(s, machine', opening)
  BY <1>1, Reduced, PageTyped
<1>7. Drawn(s, machine', opening')
  BY <1>5, <1>6, StaysDrawn
<1>8. OneClaim(s, machine', flows', opening')
  <2>1. /\ machine'.phase = "claiming" => machine' = machine
        /\ machine'.phase = "claimed" =>
             \/ machine.phase = "claiming" /\ machine'.opening = machine.opening
             \/ machine' = machine
    BY <1>1, Reduced, PageTyped
  <2>2. OneClaim(s, machine, flows, opening)
    BY DEF ScreenInv
  <2>3. OneClaim(s, machine, flows, opening')
    BY <1>5, <2>2, PageTyped, StaysClaimed
  <2>4. opening'[f.opening].status = 3
    BY <1>1, <1>2, <1>3 DEF Onchain
  <2> QED
    BY <1>1, <2>1, <2>2, <2>3, <2>4 DEF OneClaim
<1>9. Remembered(s, known', opening')
  <2>1. Remembered(s, known', opening)
    BY <1>1, PageTyped DEF Remembered
  <2> QED
    BY <1>5, <2>1, StaysRemembered
<1>10. Reading(s, reads', opening)
  BY <1>1, EndsReads
<1>11. Reading(s, reads', opening') /\ reads' \in [1 .. s.reads -> Of(s)!Reads]
  BY <1>5, <1>10, StaysReading DEF Reading
<1>12. flows' \subseteq Of(s)!Flows
       /\ \A h \in flows' : h.kind # "open" => h.opening \in Of(s)!Openings
  BY <1>1, PageTyped
<1>13. machine' \in Of(s)!Machine /\ known'.boxes \in Nat
       /\ known'.pending \in {0} \union Of(s)!Openings
  BY <1>7, <1>9 DEF Drawn, Remembered
<1>14. boxes' \in [s.wallets -> Nat]
  BY <1>1 DEF ScreenInv, Of!TypeOK
<1>15. Of(s)!TypeOK'
  BY <1>1, <1>12, <1>13, <1>14, <1>11, PageTyped DEF Of!TypeOK
<1> QED
  BY <1>4, <1>7, <1>8, <1>9, <1>12, <1>15, <1>11 DEF ScreenInv

\* A slot of the reads gets a value of which the same is true.
LEMMA SlotReads ==
  ASSUME NEW s, ScreenInv(s), NEW i \in 1 .. s.reads, NEW e \in Of(s)!Reads,
         \A o \in Of(s)!Openings : e.status[o] = 2 => opening[o].status \in {2, 3},
         reads' = [reads EXCEPT ![i] = e],
         UNCHANGED <<boxes, opening, wallet, machine, flows>>,
         Remembered(s, known', opening)
  PROVE  ScreenInv(s)'
<1>1. Reading(s, reads', opening)
  BY PageTyped DEF Reading
<1>2. OneClaim(s, machine', flows', opening)
  BY DEF ScreenInv
<1> QED
  BY <1>1, <1>2, PageInv, PageTyped

LEMMA AnswerInv ==
  ASSUME NEW s, ScreenInv(s), NEW i \in 1 .. s.reads,
         Of(s)!BoxesAnswered(i) \/ Of(s)!OpeningsAnswered(i)
  PROVE  ScreenInv(s)'
<1> DEFINE r == reads[i]
<1>1. /\ r \in Of(s)!Reads /\ r.wallet # Of(s)!NoWallet
      /\ \A o \in Of(s)!Openings : r.status[o] = 2 => opening[o].status \in {2, 3}
      /\ UNCHANGED <<boxes, opening, wallet, machine, flows, known>>
  BY PageTyped DEF Reading, Of!BoxesAnswered, Of!OpeningsAnswered, Of!Free, Of!chain
<1>2. /\ r.wallet \in s.wallets /\ r.boxes \in {-1} \union Nat
      /\ r.pending \in {-1, 0} \union Of(s)!Openings
      /\ r.status \in [Of(s)!Openings -> {-1, 0, 2}]
  BY <1>1 DEF Of!Reads, Of!Unanswered, Of!Absent, Of!Unfinished, Of!Committed, Of!Allocated
<1>3. CASE Of(s)!BoxesAnswered(i)
  <2> DEFINE e == [r EXCEPT !.boxes = boxes[r.wallet]]
  <2>1. boxes[r.wallet] \in Nat
    BY <1>2 DEF ScreenInv, Of!TypeOK
  <2>2. e \in Of(s)!Reads /\ e.status = r.status
    BY <1>1, <2>1 DEF Of!Reads
  <2>3. reads' = [reads EXCEPT ![i] = e]
    BY <1>3 DEF Of!BoxesAnswered
  <2>4. Remembered(s, known', opening)
    BY <1>1, PageTyped
  <2> HIDE DEF e
  <2> QED
    BY <1>1, <2>2, <2>3, <2>4, SlotReads
<1>4. CASE Of(s)!OpeningsAnswered(i)
  <2> DEFINE mine == Of(s)!UnfinishedOf(r.wallet)
             st == [o \in Of(s)!Openings |->
                      IF s.app = "platform" /\ o \in mine THEN opening[o].status ELSE -1]
  <2>1. PICK first \in {0} \union Of(s)!Openings :
          reads' = [reads EXCEPT ![i] = [wallet |-> r.wallet, boxes |-> r.boxes,
                                         status |-> st, pending |-> first]]
    BY <1>4 DEF Of!OpeningsAnswered, Of!Absent
  <2>2. \A o \in Of(s)!Openings :
          st[o] \in {-1, 0, 2} /\ (st[o] = 2 => opening[o].status \in {2, 3})
    BY DEF Of!UnfinishedOf, Of!Unfinished, Of!Committed, Of!Allocated
  <2>3. st \in [Of(s)!Openings -> {-1, 0, 2}]
    BY <2>2
  <2> HIDE DEF st
  <2> DEFINE e == [wallet |-> r.wallet, boxes |-> r.boxes, status |-> st, pending |-> first]
  <2>4. e \in Of(s)!Reads /\ e.status = st
    BY <1>2, <2>3 DEF Of!Reads, Of!Unanswered, Of!Absent, Of!Unfinished, Of!Committed,
                      Of!Allocated
  <2>5. Remembered(s, known', opening)
    BY <1>1, PageTyped
  <2>6. reads' = [reads EXCEPT ![i] = e]
    BY <2>1
  <2> HIDE DEF e
  <2> QED
    BY <1>1, <2>2, <2>4, <2>5, <2>6, SlotReads
<1> QED
  BY <1>3, <1>4

LEMMA ReturnInv ==
  ASSUME NEW s, ScreenInv(s), NEW i \in 1 .. s.reads,
         Of(s)!ReadReturns(i) \/ Of(s)!ReadFails(i)
  PROVE  ScreenInv(s)'
<1> DEFINE e == Of(s)!NoRead
<1>1. /\ reads' = [reads EXCEPT ![i] = e]
      /\ UNCHANGED <<boxes, opening, wallet, machine, flows>>
      /\ reads[i].boxes # -1 /\ reads[i].pending # -1
  BY DEF Of!ReadReturns, Of!ReadFails, Of!Answered, Of!Unanswered, Of!chain
<1>2. e \in Of(s)!Reads /\ \A o \in Of(s)!Openings : e.status[o] # 2
  BY DEF Of!NoRead, Of!Reads, Of!NoOpenings, Of!Absent, Of!Unanswered
<1>3. reads[i] \in Of(s)!Reads
      /\ \A o \in Of(s)!Openings : reads[i].status[o] = 2 => opening[o].status \in {2, 3}
  BY PageTyped DEF Reading
<1>4. /\ reads[i].boxes \in Nat /\ reads[i].pending \in {0} \union Of(s)!Openings
      /\ reads[i].status \in [Of(s)!Openings -> Statuses]
  BY <1>1, <1>3 DEF Of!Reads, Of!Unanswered, Of!Absent, Of!Unfinished, Of!Committed,
                    Of!Allocated, Statuses
<1>5. \/ known' = known
      \/ known' = [boxes |-> reads[i].boxes, status |-> reads[i].status,
                   pending |-> reads[i].pending]
  BY DEF Of!ReadReturns, Of!ReadFails
<1>6. Remembered(s, known', opening)
  BY <1>3, <1>4, <1>5, PageTyped DEF Remembered
<1> HIDE DEF e
<1> QED
  BY <1>1, <1>2, <1>6, SlotReads

LEMMA FirstReadsTyped ==
  ASSUME NEW s, NEW w \in s.wallets \union {Of(s)!NoWallet}
  PROVE  Reading(s, Of(s)!FirstReads(w), opening)
BY DEF Reading, Of!FirstReads, Of!Asked, Of!NoRead, Of!Reads, Of!NoOpenings, Of!Absent,
       Of!Unanswered

LEMMA VisitInv ==
  ASSUME NEW s, ScreenInv(s),
         Of(s)!Disconnect \/ Of(s)!Reload \/ \E w \in s.wallets : Of(s)!Connect(w)
  PROVE  ScreenInv(s)'
<1>1. CASE Of(s)!Disconnect
  <2>1. /\ machine' = Of(s)!openingReducer(machine, Of(s)!Event("reset"))
        /\ wallet' = Of(s)!NoWallet
        /\ known' = [known EXCEPT !.boxes = 0, !.pending = 0]
        /\ UNCHANGED <<boxes, opening, flows, reads>>
    BY <1>1 DEF Of!Disconnect, Of!Dispatch, Of!chain
  <2>2. Drawn(s, machine', opening) /\ OneClaim(s, machine', flows', opening)
    BY <2>1, OneClaimStays
  <2>3. Remembered(s, known', opening)
    BY <2>1, PageTyped DEF Remembered
  <2> QED
    BY <2>1, <2>2, <2>3, PageInv, PageTyped
<1>2. ASSUME NEW w \in s.wallets, Of(s)!Connect(w)
      PROVE  ScreenInv(s)'
  <2>1. /\ wallet' = w /\ Of(s)!Refresh(w)
        /\ UNCHANGED <<boxes, opening, machine, flows, known>>
    BY <1>2 DEF Of!Connect, Of!chain
  <2>2. OneClaim(s, machine', flows', opening)
    BY <2>1 DEF ScreenInv
  <2>3. Reading(s, reads', opening)
    BY <2>1, RefreshReads
  <2> QED
    BY <2>1, <2>2, <2>3, PageInv, PageTyped
<1>3. CASE Of(s)!Reload
  <2>1. /\ machine' = [phase |-> "idle", opening |-> 0, bundle |-> 0]
        /\ flows' = {} /\ reads' = Of(s)!FirstReads(wallet')
        /\ known' = [boxes |-> 0, status |-> [o \in Of(s)!Openings |-> -1], pending |-> 0]
        /\ wallet' \in {wallet, Of(s)!NoWallet} /\ UNCHANGED <<boxes, opening>>
    BY <1>3 DEF Of!Reload, Of!Idle, Of!Unread, Of!NoOpenings, Of!Absent, Of!chain
  <2>2. wallet' \in s.wallets \union {Of(s)!NoWallet} /\ Reading(s, reads', opening)
    BY <2>1, PageTyped, FirstReadsTyped
  <2>3. Drawn(s, machine', opening) /\ OneClaim(s, machine', flows', opening)
    BY <2>1 DEF Drawn, OneClaim, Of!Machine, Of!Phases
  <2>4. Remembered(s, known', opening)
    BY <2>1 DEF Remembered, Statuses
  <2> QED
    BY <2>1, <2>2, <2>3, <2>4, PageInv, PageTyped
<1> QED
  BY <1>1, <1>2, <1>3

LEMMA ScreenInit ==
  ASSUME NEW s, Of(s)!PageAssumption, Of(s)!Init
  PROVE  ScreenInv(s)
<1>1. /\ boxes = s.boxes /\ wallet \in s.wallets \union {Of(s)!NoWallet} /\ flows = {}
      /\ reads = Of(s)!FirstReads(wallet)
      /\ opening = [o \in Of(s)!Openings |->
                      [status |-> -1, owner |-> Of(s)!NoWallet, bundle |-> 0]]
      /\ machine = [phase |-> "idle", opening |-> 0, bundle |-> 0]
      /\ known = [boxes |-> 0, status |-> [o \in Of(s)!Openings |-> -1], pending |-> 0]
  BY DEF Of!Init, Of!Idle, Of!Unread, Of!NoOpenings, Of!Absent
<1>2. Reading(s, reads, opening) /\ reads \in [1 .. s.reads -> Of(s)!Reads]
  BY <1>1, FirstReadsTyped DEF Reading
<1>3. boxes \in [s.wallets -> Nat]
  BY <1>1 DEF Of!PageAssumption
<1>4. machine \in Of(s)!Machine
  BY <1>1 DEF Of!Machine, Of!Phases
<1>5. Of(s)!TypeOK
  BY <1>1, <1>3, <1>4, <1>2 DEF Of!TypeOK
<1>6. Onchain(s) /\ Remembered(s, known, opening)
  BY <1>1 DEF Onchain, Remembered, Statuses
<1>7. Drawn(s, machine, opening) /\ OneClaim(s, machine, flows, opening)
  BY <1>1, <1>4 DEF Drawn, OneClaim
<1> QED
  BY <1>1, <1>5, <1>6, <1>7, <1>2 DEF ScreenInv

LEMMA ScreenSteps ==
  ASSUME NEW s, ScreenInv(s), [Of(s)!Next]_(Of(s)!vars)
  PROVE  ScreenInv(s)'
<1>1. CASE Of(s)!Holder
  BY <1>1, ButtonInv, OpenInv, FinishInv, LookAgainInv, ClaimInv, ShowPrizeInv
     DEF Of!Holder
<1>2. CASE \E i \in 1 .. s.reads : \/ Of(s)!BoxesAnswered(i) \/ Of(s)!OpeningsAnswered(i)
                                    \/ Of(s)!ReadReturns(i) \/ Of(s)!ReadFails(i)
  BY <1>2, AnswerInv, ReturnInv
<1>3. CASE Of(s)!Disconnect \/ Of(s)!Reload \/ \E w \in s.wallets : Of(s)!Connect(w)
  BY <1>3, VisitInv
<1>4. CASE \/ \E w \in s.wallets : Of(s)!BurnElsewhere(w)
           \/ \E o \in Of(s)!Openings : Of(s)!Settle(o) \/ Of(s)!Forfeit(o) \/ Of(s)!Deliver(o)
  BY <1>4, ChainInv
<1>5. CASE \E f \in flows : Of(s)!Proceeds(f)
  BY <1>5, FailsScreen, BurnConfirmedInv, SettleReturnsInv, ClaimReturnsInv
     DEF Of!Proceeds, Of!Succeeds
<1>6. CASE UNCHANGED Of(s)!vars
  <2>1. UNCHANGED <<boxes, opening, wallet, machine, flows, known, reads>>
    BY <1>6 DEF Of!vars, Of!chain
  <2>2. OneClaim(s, machine', flows', opening)
    BY <2>1 DEF ScreenInv
  <2> QED
    BY <2>1, <2>2, PageInv, PageTyped
<1> QED
  BY <1>1, <1>2, <1>3, <1>4, <1>5, <1>6 DEF Of!Next

LEMMA ScreenTrueByInv ==
  ASSUME NEW s, ScreenInv(s)
  PROVE  Of(s)!ScreenIsTrue
<1>1. Of(s)!TypeOK
  BY DEF ScreenInv
<1>2. Of(s)!ResultIsDrawn
  BY PageTyped DEF Drawn, Of!ResultIsDrawn, Of!Holds, Of!Forfeited, Of!Allocated
<1>3. s.app = "web" => Of(s)!ClaimedIsDelivered
  BY DEF ScreenInv, OneClaim, Of!ClaimedIsDelivered, Of!Delivered
<1> QED
  BY <1>1, <1>2, <1>3 DEF Of!ScreenIsTrue

\* The prize on the screen is the one drawn and one announced as delivered is
\* delivered (OnEveryPage), for every setting of the three scenes.
THEOREM ScreenAlwaysTrue == SceneSpec => []OnEveryPage
<1> DEFINE Inv == \/ scene = "finish" /\ ScreenInv(Finish)
                  \/ scene = "site" /\ ScreenInv(Site)
                  \/ scene = "panel" /\ ScreenInv(Panel)
<1>1. SceneInit => Inv
  BY SettingsAssumption, ScreenInit DEF SceneInit
<1>2. Inv /\ [SceneNext]_<<scene, shown>> => Inv'
  <2> SUFFICES ASSUME Inv, [SceneNext]_<<scene, shown>>
               PROVE  Inv'
    OBVIOUS
  <2>1. scene' = scene
        /\ (scene = "finish" => [Of(Finish)!Next]_(Of(Finish)!vars))
        /\ (scene = "site" => [Of(Site)!Next]_(Of(Site)!vars))
        /\ (scene = "panel" => [Of(Panel)!Next]_(Of(Panel)!vars))
    BY DEF SceneNext, shown, Of!vars, Of!chain
  <2> QED
    BY <2>1, ScreenSteps
<1>3. Inv => OnEveryPage
  BY ScreenTrueByInv DEF OnEveryPage
<1> QED
  BY <1>1, <1>2, <1>3, PTL DEF SceneSpec
=============================================================================
