------------------------------ MODULE PrizePool ------------------------------
(***************************************************************************)
(* A prize pool of the lootbox program (templates/prize_pool.rs): a slot of a *)
(* bundle that stands for as many different compressed NFTs as the bundle has   *)
(* copies.  The leaves are deposited one by one, sealed, drawn one per opening,  *)
(* and delivered, or given back from the tail or after retirement.              *)
(*                                                                             *)
(* One action is one instruction, as in Treasury: what a handler checks is the   *)
(* guard, what it writes is one step, and a failing transfer of a leaf undoes    *)
(* it.  The treasury around the pool is kept to what the handlers read of it:    *)
(* one bundle, which is its first, and the counts that requests and allocations   *)
(* move.  A leaf has an owner and a verification flag, which its collection may   *)
(* toggle at any time and which changes the hashes of the leaf; a proof is given  *)
(* for the leaf as it is.  Other slots of the bundle are in Treasury.            *)
(***************************************************************************)
EXTENDS Integers, FiniteSets, Sequences, SequencesExt

CONSTANTS
  Leaves,     \* compressed NFTs of the pinned tree
  Quantity,   \* copies of the bundle
  Openings,   \* openings that are ever requested
  None        \* no account

Index == 0 .. Quantity - 1
Count == 0 .. Quantity

\* What is announced of a pool, one entry for a leaf.
Manifests == Seq(Leaves \X BOOLEAN)

PoolType == [status : {"funding", "sealed"}, cursor : Count, prepared : BOOLEAN,
             manifest : Manifests, unavailable : SUBSET Index,
             assigned : Count, claimed : Count, reclaimed : Count]

ItemType == [leaf : Leaves, verified : BOOLEAN, status : {"prepared", "deposited"},
             before : Manifests]

\* An opening that owns a leaf stands for its holder.
ASSUME PoolAssumption ==
  /\ Quantity \in Nat \ {0}
  /\ IsFiniteSet(Openings)
  /\ {"creator", "pool", "somebody"} \cap Openings = {}
  /\ None \notin PoolType \cup ItemType

VARIABLES
  template,  \* status, locked, revealed; minted, remaining, pending, supply
  bundle,    \* BundleState: status and the slot of the pool
  pool,      \* PrizePoolState
  item,      \* PrizePoolItemState of every index
  opening,   \* the openings, and the item each has been given
  owner,     \* who owns each leaf
  flag       \* whether each leaf is verified by its collection

vars == <<template, bundle, pool, item, opening, owner, flag>>

NoBundle == [status |-> "none", funded |-> FALSE, reserved |-> FALSE,
             commitment |-> None, released |-> 0, reclaimed |-> FALSE]

NewPool == [status |-> "funding", cursor |-> 0, prepared |-> FALSE, manifest |-> <<>>,
            unavailable |-> {}, assigned |-> 0, claimed |-> 0, reclaimed |-> 0]

NoOpening == [status |-> "none", item |-> 0]

Unlocked == ~template.locked
Editable == Unlocked /\ template.status = "live"
Retired == template.status = "retired"

Init ==
  /\ template = [status |-> "live", locked |-> FALSE, revealed |-> FALSE,
                 minted |-> 0, remaining |-> 0, pending |-> 0, supply |-> 0]
  /\ bundle = NoBundle
  /\ pool = None
  /\ item = [i \in Index |-> None]
  /\ opening = [o \in Openings |-> NoOpening]
  /\ owner = [l \in Leaves |-> "creator"]
  /\ flag = [l \in Leaves |-> FALSE]

(***************************************************************************)
(* Staging.                                                                  *)
(***************************************************************************)
AddBundle ==
  /\ Editable /\ bundle.status = "none"
  /\ bundle' = [NoBundle EXCEPT !.status = "funding"]
  /\ UNCHANGED <<template, pool, item, opening, owner, flag>>

CreatePrizePool ==
  /\ Editable /\ bundle.status = "funding" /\ ~bundle.funded
  /\ ~bundle.reserved /\ pool = None
  /\ pool' = NewPool
  /\ bundle' = [bundle EXCEPT !.reserved = TRUE]
  /\ UNCHANGED <<template, item, opening, owner, flag>>

\* The pool takes the next slot of a bundle that is being funded.
PoolIsNext == Editable /\ bundle.status = "funding" /\ ~bundle.funded /\ bundle.reserved

PreparePrizePoolItem(l, verified) ==
  /\ PoolIsNext /\ pool # None
  /\ pool.status = "funding" /\ ~pool.prepared /\ pool.cursor < Quantity
  /\ item[pool.cursor] = None
  /\ item' = [item EXCEPT ![pool.cursor] =
                [leaf |-> l, verified |-> verified, status |-> "prepared", before |-> <<>>]]
  /\ pool' = [pool EXCEPT !.prepared = TRUE]
  /\ UNCHANGED <<template, bundle, opening, owner, flag>>

CancelPrizePoolItem ==
  /\ Unlocked /\ bundle.status = "funding" /\ pool # None
  /\ pool.status = "funding" /\ pool.prepared
  /\ item' = [item EXCEPT ![pool.cursor] = None]
  /\ pool' = [pool EXCEPT !.prepared = FALSE]
  /\ UNCHANGED <<template, bundle, opening, owner, flag>>

\* Mutant: the leaf of the deposit is not compared with the item.
DepositsOther(l, verified) ==
  /\ PoolIsNext /\ pool # None
  /\ pool.status = "funding" /\ pool.prepared
  /\ owner[l] = "creator" /\ flag[l] = verified
  /\ owner' = [owner EXCEPT ![l] = "pool"]
  /\ item' = [item EXCEPT ![pool.cursor].status = "deposited",
                          ![pool.cursor].before = pool.manifest]
  /\ pool' = [pool EXCEPT !.cursor = @ + 1, !.prepared = FALSE,
                          !.manifest = Append(@, <<l, verified>>)]
  /\ UNCHANGED <<template, bundle, opening, flag>>

\* The leaf moves to the pool: it must be the creator's, as it was prepared.
DepositPrizePoolItem(l, verified) ==
  /\ PoolIsNext /\ pool # None
  /\ pool.status = "funding" /\ pool.prepared
  /\ item[pool.cursor].leaf = l /\ item[pool.cursor].verified = verified
  /\ owner[l] = "creator" /\ flag[l] = verified
  /\ owner' = [owner EXCEPT ![l] = "pool"]
  /\ item' = [item EXCEPT ![pool.cursor].status = "deposited",
                          ![pool.cursor].before = pool.manifest]
  /\ pool' = [pool EXCEPT !.cursor = @ + 1, !.prepared = FALSE,
                          !.manifest = Append(@, <<l, verified>>)]
  /\ UNCHANGED <<template, bundle, opening, flag>>

SealPrizePool ==
  /\ PoolIsNext /\ pool # None
  /\ pool.status = "funding" /\ ~pool.prepared /\ pool.cursor = Quantity
  /\ bundle.commitment = None
  /\ bundle' = [bundle EXCEPT !.funded = TRUE, !.commitment = pool.manifest]
  /\ pool' = [pool EXCEPT !.status = "sealed"]
  /\ UNCHANGED <<template, item, opening, owner, flag>>

ActivateBundle ==
  /\ Editable /\ bundle.status = "funding" /\ bundle.funded
  /\ ~bundle.reclaimed /\ bundle.released = 0
  /\ bundle' = [bundle EXCEPT !.status = "active"]
  /\ template' = [template EXCEPT !.remaining = Quantity]
  /\ UNCHANGED <<pool, item, opening, owner, flag>>

\* Mutant: the slot of a pool is taken for any other.
CancelsReserved ==
  /\ Unlocked /\ bundle.status = "funding"
  /\ bundle.funded = bundle.reclaimed
  /\ bundle' = NoBundle
  /\ UNCHANGED <<template, pool, item, opening, owner, flag>>

CancelBundle ==
  /\ Unlocked /\ bundle.status = "funding"
  /\ bundle.funded = bundle.reclaimed /\ ~bundle.reserved
  /\ bundle' = NoBundle
  /\ UNCHANGED <<template, pool, item, opening, owner, flag>>

(***************************************************************************)
(* What the treasury does meanwhile.                                         *)
(***************************************************************************)
IssueBox ==
  /\ Editable /\ template.minted < Quantity
  /\ template.supply + template.pending + 1 <= template.remaining
  /\ template' = [template EXCEPT !.minted = @ + 1, !.supply = @ + 1]
  /\ UNCHANGED <<bundle, pool, item, opening, owner, flag>>

LockTreasury ==
  /\ Editable /\ bundle.status = "active" /\ ~template.revealed
  /\ template.minted = Quantity /\ template.supply = Quantity
  /\ template' = [template EXCEPT !.locked = TRUE]
  /\ UNCHANGED <<bundle, pool, item, opening, owner, flag>>

Reveal ==
  /\ ~template.revealed
  /\ template' = [template EXCEPT !.revealed = TRUE]
  /\ UNCHANGED <<bundle, pool, item, opening, owner, flag>>

RequestTemplateOpen(o) ==
  /\ template.revealed /\ (template.locked \/ Retired)
  /\ template.supply > 0 /\ opening[o].status = "none"
  /\ opening' = [opening EXCEPT ![o].status = "pending"]
  /\ template' = [template EXCEPT !.supply = @ - 1, !.pending = @ + 1]
  /\ UNCHANGED <<bundle, pool, item, owner, flag>>

\* A holder destroys a box.
BurnBox ==
  /\ template.supply > 0
  /\ template' = [template EXCEPT !.supply = @ - 1]
  /\ UNCHANGED <<bundle, pool, item, opening, owner, flag>>

ForfeitTemplateOpen(o) ==
  /\ opening[o].status = "pending"
  /\ opening' = [opening EXCEPT ![o].status = "forfeited"]
  /\ template' = [template EXCEPT !.pending = @ - 1]
  /\ UNCHANGED <<bundle, pool, item, owner, flag>>

RetireTemplate ==
  /\ template.status = "live"
  /\ template.minted # 0 => template.locked \/ template.revealed
  /\ template' = [template EXCEPT !.status = "retired"]
  /\ UNCHANGED <<bundle, pool, item, opening, owner, flag>>

(***************************************************************************)
(* The draw.  The entropy of the opening picks a rank among the items that are *)
(* available: any of them.                                                    *)
(***************************************************************************)
Available == Quantity - (pool.assigned + pool.reclaimed)

AllocatePrizePoolOpen(o, i) ==
  /\ opening[o].status = "pending" /\ bundle.status = "active"
  /\ bundle.reserved /\ pool # None
  /\ pool.status = "sealed" /\ bundle.commitment = pool.manifest
  /\ Available = template.remaining /\ Available > 0
  /\ i \notin pool.unavailable
  /\ pool' = [pool EXCEPT !.unavailable = @ \union {i}, !.assigned = @ + 1]
  /\ opening' = [opening EXCEPT ![o] = [status |-> "allocated", item |-> i]]
  /\ template' = [template EXCEPT !.pending = @ - 1, !.remaining = @ - 1]
  /\ UNCHANGED <<bundle, item, owner, flag>>

(***************************************************************************)
(* Delivery.  The item names the leaf; what has toggled on it since the        *)
(* deposit does not matter.                                                   *)
(***************************************************************************)
ItemIdentity(i) == item[i] # None /\ item[i].status = "deposited"

RecordClaim(o) ==
  /\ opening[o].status = "allocated"
  /\ bundle.released < Quantity

\* Mutant: a pool that is closed takes its claims with it.
NeverStranded(o) == FALSE

CanClaimStranded(o) ==
  /\ RecordClaim(o) /\ Retired /\ bundle.reserved
  /\ ItemIdentity(opening[o].item)
  /\ owner[item[opening[o].item].leaf] = "pool"

CanClaimItem(o) ==
  /\ RecordClaim(o) /\ bundle.reserved
  /\ pool # None /\ pool.status = "sealed" /\ bundle.commitment = pool.manifest
  /\ pool.claimed < pool.assigned /\ opening[o].item \in pool.unavailable
  /\ ItemIdentity(opening[o].item)
  /\ owner[item[opening[o].item].leaf] = "pool"

\* Mutant: a claim takes the first item that was drawn, not the one of its opening.
DeliversFirst(o) ==
  LET drawn == {opening[u].item : u \in {v \in Openings : opening[v].status = "allocated"}}
      i == CHOOSE j \in drawn : \A k \in drawn : j <= k
  IN  /\ owner' = [owner EXCEPT ![item[i].leaf] = o]
      /\ item' = [item EXCEPT ![i] = None]
      /\ opening' = [opening EXCEPT ![o].status = "delivered"]
      /\ bundle' = [bundle EXCEPT !.released = @ + 1]

Deliver(o) ==
  LET i == opening[o].item
  IN  /\ owner' = [owner EXCEPT ![item[i].leaf] = o]
      /\ item' = [item EXCEPT ![i] = None]
      /\ opening' = [opening EXCEPT ![o].status = "delivered"]
      /\ bundle' = [bundle EXCEPT !.released = @ + 1]

ClaimPrizePoolItem(o) ==
  /\ CanClaimItem(o)
  /\ pool' = [pool EXCEPT !.claimed = @ + 1]
  /\ Deliver(o)
  /\ UNCHANGED <<template, flag>>

ClaimStrandedPrizePoolItem(o) ==
  /\ CanClaimStranded(o)
  /\ Deliver(o)
  /\ UNCHANGED <<template, pool, flag>>

(***************************************************************************)
(* Recovery.                                                                 *)
(***************************************************************************)
\* The item goes back with its leaf.
GiveBack(i) ==
  /\ owner[item[i].leaf] = "pool"
  /\ owner' = [owner EXCEPT ![item[i].leaf] = "creator"]
  /\ item' = [item EXCEPT ![i] = None]

\* Mutant: any item of an unfinished pool is given back.
TailOrNot(i) ==
  /\ Unlocked /\ bundle.status = "funding" /\ ~bundle.funded
  /\ pool.status = "funding" /\ ~pool.prepared

\* An unfinished pool is unwound from its tail.
IsTail(i) ==
  /\ Unlocked /\ bundle.status = "funding" /\ ~bundle.funded
  /\ pool.status = "funding" /\ ~pool.prepared /\ i + 1 = pool.cursor

ReclaimUnfinished(i) ==
  /\ pool # None /\ i < pool.cursor /\ ItemIdentity(i)
  /\ IsTail(i)
  /\ pool' = [pool EXCEPT !.cursor = @ - 1, !.manifest = item[i].before]
  /\ GiveBack(i)
  /\ UNCHANGED <<template, bundle, opening, flag>>

\* Mutant: a draw under way is not waited for.
IgnoresPending == Retired /\ template.supply = 0

NothingOutstanding == Retired /\ template.pending = 0 /\ template.supply = 0

\* How many items of a sealed pool may be given back.
Expected ==
  IF bundle.status = "funding" THEN Quantity ELSE template.remaining

ReclaimSealed(i) ==
  /\ pool # None /\ i < pool.cursor /\ ItemIdentity(i)
  /\ pool.status = "sealed" /\ bundle.reserved /\ i \notin pool.unavailable
  /\ bundle.commitment = pool.manifest
  /\ IF bundle.status = "funding" THEN Unlocked ELSE NothingOutstanding
  /\ pool.reclaimed + 1 <= Expected
  /\ bundle.released + 1 <= Quantity
  /\ bundle' = [bundle EXCEPT !.released = @ + 1,
                              !.reclaimed = @ \/ pool.reclaimed + 1 = Expected]
  /\ pool' = [pool EXCEPT !.reclaimed = @ + 1, !.unavailable = @ \union {i}]
  /\ GiveBack(i)
  /\ UNCHANGED <<template, opening, flag>>

EmptyUnsealed ==
  pool.status = "funding" /\ pool.cursor = 0 /\ ~pool.prepared /\ ~bundle.funded

RecoveredSealed ==
  /\ pool.status = "sealed" /\ bundle.status = "funding"
  /\ pool.reclaimed = Quantity /\ bundle.reclaimed

\* Mutant: a pool waits for the winners.
WaitsForWinners ==
  /\ pool.status = "sealed" /\ bundle.status = "active" /\ Retired
  /\ template.pending = 0 /\ template.remaining = pool.reclaimed
  /\ pool.claimed + pool.reclaimed = Quantity

ActiveTerminal ==
  /\ pool.status = "sealed" /\ bundle.status = "active" /\ Retired
  /\ template.pending = 0 /\ template.remaining = pool.reclaimed
  /\ pool.assigned + pool.reclaimed = Quantity

ClosePrizePool ==
  /\ pool # None
  /\ \/ /\ EmptyUnsealed \/ RecoveredSealed
        /\ Unlocked /\ bundle.reserved
        /\ bundle' = [bundle EXCEPT !.reserved = FALSE, !.commitment = None]
     \/ ActiveTerminal /\ bundle.commitment = pool.manifest /\ UNCHANGED bundle
  /\ pool' = None
  /\ UNCHANGED <<template, item, opening, owner, flag>>

(***************************************************************************)
(* The tree: the creator sells a leaf, a collection verifies or unverifies one. *)
(***************************************************************************)
SellLeaf(l) ==
  /\ owner[l] = "creator"
  /\ owner' = [owner EXCEPT ![l] = "somebody"]
  /\ UNCHANGED <<template, bundle, pool, item, opening, flag>>

ToggleFlag(l) ==
  /\ flag' = [flag EXCEPT ![l] = ~@]
  /\ UNCHANGED <<template, bundle, pool, item, opening, owner>>

Stage ==
  \/ AddBundle \/ CreatePrizePool
  \/ \E l \in Leaves :
       PreparePrizePoolItem(l, flag[l]) \/ DepositPrizePoolItem(l, flag[l])
  \/ CancelPrizePoolItem \/ SealPrizePool \/ ActivateBundle \/ CancelBundle

Treasury ==
  \/ IssueBox \/ LockTreasury \/ Reveal \/ BurnBox \/ RetireTemplate
  \/ \E o \in Openings : RequestTemplateOpen(o) \/ ForfeitTemplateOpen(o)

Draw ==
  \E o \in Openings :
    \/ \E i \in Index : AllocatePrizePoolOpen(o, i)
    \/ ClaimPrizePoolItem(o) \/ ClaimStrandedPrizePoolItem(o)

Recover ==
  (\E i \in Index : ReclaimUnfinished(i) \/ ReclaimSealed(i)) \/ ClosePrizePool

Tree == \E l \in Leaves : SellLeaf(l) \/ ToggleFlag(l)

Next == Stage \/ Treasury \/ Draw \/ Recover \/ Tree

Spec == Init /\ [][Next]_vars

\* The creator of a retired treasury takes back what is left.
Fairness ==
  /\ WF_vars(\E i \in Index : ReclaimSealed(i))
  /\ WF_vars(bundle.status = "active" /\ ClosePrizePool)

FairSpec == Spec /\ Fairness

(***************************************************************************)
(* Properties.                                                               *)
(***************************************************************************)
TemplateType == [status : {"live", "retired"}, locked : BOOLEAN, revealed : BOOLEAN,
                 minted : Count, remaining : Count, pending : Count, supply : Count]

BundleType == [status : {"none", "funding", "active"}, funded : BOOLEAN,
               reserved : BOOLEAN, commitment : Manifests \cup {None},
               released : Count, reclaimed : BOOLEAN]

OpeningType == [status : {"none", "pending", "forfeited", "allocated", "delivered"},
                item : Index]

TypeOK ==
  /\ template \in TemplateType
  /\ bundle \in BundleType
  /\ pool \in PoolType \cup {None}
  /\ item \in [Index -> ItemType \cup {None}]
  /\ opening \in [Openings -> OpeningType]
  /\ owner \in [Leaves -> Openings \cup {"creator", "pool", "somebody"}]
  /\ flag \in [Leaves -> BOOLEAN]

Deposited == {i \in Index : item[i] # None /\ item[i].status = "deposited"}

\* The pool owns exactly the leaves of its deposited items, one leaf each: none is
\* left in it without an item that says whose it is, and no item is without its leaf.
LeavesBacked ==
  /\ {item[i].leaf : i \in Deposited} = {l \in Leaves : owner[l] = "pool"}
  /\ \A i, j \in Deposited : item[i].leaf = item[j].leaf => i = j

\* The bitmap, the counters of the pool and the copies that remain in the bundle
\* agree at every draw, so the draw is never refused for a count that is off.
PoolAgrees ==
  pool # None /\ pool.status = "sealed" =>
    /\ Cardinality(pool.unavailable) = pool.assigned + pool.reclaimed
    /\ pool.claimed <= pool.assigned
    /\ bundle.status = "active" => template.remaining = Quantity - pool.assigned
    /\ template.pending + template.supply > 0 => Available = template.remaining

\* An unfinished pool announces what it holds, in order, whatever was given back
\* from its tail, and a sealed one what was sealed.
ManifestTrue ==
  pool # None =>
    /\ Len(pool.manifest) = pool.cursor
    /\ pool.status = "funding" =>
         \A i \in 0 .. pool.cursor - 1 :
           i \in Deposited /\ pool.manifest[i + 1] = <<item[i].leaf, item[i].verified>>
    /\ pool.status = "sealed" => bundle.commitment = pool.manifest

\* Nobody but the winner gets an item that was drawn, and he can always get it:
\* before or after the pool is closed, whatever else is drawn, toggled or recovered.
Deliverable ==
  /\ \A o \in Openings :
       opening[o].status = "allocated" => CanClaimItem(o) \/ CanClaimStranded(o)
  /\ \A o, u \in Openings :
       opening[o].status = "allocated" /\ opening[u].status = "allocated" /\ o # u =>
         opening[o].item # opening[u].item

\* A winner has got the leaf that was announced at the place he drew.
WinnerGetsAnnounced ==
  \A o \in Openings :
    opening[o].status = "delivered" =>
      owner[bundle.commitment[opening[o].item + 1][1]] = o

\* No item or leaf outlives the pool of a bundle that is not active, so the same
\* addresses can be used again.
NothingLeftBehind ==
  /\ pool = None /\ bundle.status # "active" => \A i \in Index : item[i] = None
  /\ bundle.status = "none" => pool = None

\* The pool is what it says it is, and every winner gets what he drew from it.
PoolSound ==
  TypeOK /\ LeavesBacked /\ PoolAgrees /\ ManifestTrue /\ Deliverable /\ WinnerGetsAnnounced
    /\ NothingLeftBehind

\* The creator of a retired treasury whose boxes are gone gets the pool's account
\* back, although a winner may never claim.
PoolWindsUp ==
  (Retired /\ bundle.status = "active" /\ NothingOutstanding) ~> (pool = None)

\* As the documents say: a pool closes only when every item has been claimed or
\* reclaimed.
CloseWaits ==
  pool = None /\ bundle.status = "active" =>
    \A o \in Openings : opening[o].status # "allocated"
=============================================================================
