------------------------------ MODULE Treasury ------------------------------
(***************************************************************************)
(* The finite-inventory treasury of the lootbox program: one template, its *)
(* prize bundles, its box mint, the openings in flight and the optional    *)
(* prepaid services (result receipts and settlement bounties).             *)
(*                                                                         *)
(* One action stands for one instruction of the program.  Solana executes  *)
(* an instruction atomically and rolls it back when a check fails, so a    *)
(* check is a guard and everything a handler writes is one step.  Callers  *)
(* interleave freely.  Three actions are the environment: the two clocks   *)
(* and a holder burning a box through the token program.                   *)
(*                                                                         *)
(* Not distinguished here: who holds a box and who receives a prize (boxes *)
(* are fungible and a prize goes to the beneficiary stored at request),    *)
(* which administrator signs, and NFT, pool and exclusive prize adapters.  *)
(***************************************************************************)
EXTENDS Integers, FiniteSets, Functions

CONSTANTS
  MaxBundles,      \* MAX_TEMPLATE_BUNDLES
  MaxAssets,       \* MAX_PRIZE_ASSETS, the slots of a bundle
  MaxTickets,      \* MAX_TOTAL_WEIGHT, the lifetime cap on bundle tickets
  Timeout,         \* RANDOMNESS_TIMEOUT_SLOTS
  OpensAt,         \* opens_at, the reveal time; the clock stops counting there
  Quantities,      \* quantities a creator gives to a bundle
  Prizes,          \* prizes a creator funds: records of kind, mint and amount
  Randomness,      \* randomness accounts; each names one opening PDA
  Entropy,         \* values the oracle reveals
  Rejecting,       \* those whose eight digests are all rejected
  ReceiptChoices,  \* result_receipts_enabled at creation
  Bounties,        \* settlement_bounty_lamports at creation
  ReceiptRent,     \* rent of a result receipt account
  RentMin,         \* rent of an account without data
  Donations        \* lamports found in the service vault when it is locked

PrizeKinds == {"sol", "quote_sol", "token", "quote_token", "badge"}
NativeKinds == {"sol", "quote_sol"}
TokenKinds == {"token", "quote_token"}

ASSUME BoundsAssumption ==
  /\ MaxBundles \in Nat \ {0}
  /\ MaxAssets \in Nat \ {0}
  /\ MaxTickets \in Nat \ {0}
  /\ Timeout \in Nat \ {0}
  /\ OpensAt \in Nat \ {0}

ASSUME TermsAssumption ==
  /\ Quantities \subseteq Nat \ {0}
  /\ \A p \in Prizes : /\ p.kind \in PrizeKinds
                       /\ p.amount \in Nat \ {0}
                       /\ p.kind = "badge" => p.amount = 1
  /\ Entropy \subseteq Nat
  /\ Rejecting \subseteq Entropy
  /\ 0 \in Entropy
  /\ IsFiniteSet(Randomness)

ASSUME ServiceAssumption ==
  /\ ReceiptChoices \subseteq BOOLEAN
  /\ Bounties \subseteq Nat
  /\ ReceiptRent \in Nat \ {0}
  /\ RentMin \in Nat \ {0}
  /\ Donations \subseteq {0} \cup {d \in Nat : d >= RentMin}

VARIABLES
  now,        \* unix time, from 1 to OpensAt
  template,   \* TemplateState header
  remaining,  \* TemplateState.remaining: undrawn tickets of each bundle
  bundle,     \* BundleState accounts; the record NoBundle where none exists
  asset,      \* the prize slots of each bundle and what they hold in escrow
  boxMint,    \* the box mint: its supply and who may mint
  badge,      \* the mint authority of each badge mint
  opening,    \* TemplateOpeningState and its randomness account
  vault,      \* lamports of the service vault
  receipts    \* ResultReceiptState accounts

vars == <<now, template, remaining, bundle, asset, boxMint, badge, opening,
          vault, receipts>>

adminVars == <<bundle, asset, badge>>       \* what openings never touch
serviceVars == <<vault, receipts>>

-----------------------------------------------------------------------------
(* Accounts.                                                               *)

BundleIndex == 0 .. MaxBundles     \* the last index only names an empty PDA
SlotIndex == 0 .. MaxAssets - 1
Mints == {p.mint : p \in Prizes}
Badges == {p.mint : p \in {q \in Prizes : q.kind = "badge"}}

NoBundle == [status |-> "none", quantity |-> 0, assetCount |-> 0,
             fundedAssets |-> 0, activatedRevision |-> 0]

NoAsset == [kind |-> "none", mint |-> "none", amount |-> 0, claimed |-> 0,
            reclaimed |-> FALSE, held |-> 0]
NoAssets == [s \in SlotIndex |-> NoAsset]

NoOpening == [status |-> "none", sequence |-> 0, age |-> 0,
              revealed |-> FALSE, entropy |-> 0, revision |-> 0,
              eligible |-> 0, selected |-> 0, claimed |-> {}]

\* A badge mint is controlled by the creator, then by a bundle, then by nobody.
Creator == <<"creator", 0>>
Held(i) == <<"bundle", i>>
Revoked == <<"nobody", 0>>

BundleType == [status : {"none", "funding", "active"},
               quantity : Nat,
               assetCount : 0 .. MaxAssets,
               fundedAssets : 0 .. MaxAssets,
               activatedRevision : Nat]

AssetType == [kind : PrizeKinds \cup {"none"},
              mint : Mints \cup {"none"},
              amount : Nat,
              claimed : Nat,
              reclaimed : BOOLEAN,
              held : Nat]

OpeningType == [status : {"none", "committed", "verified", "allocated",
                          "delivered", "forfeited"},
                sequence : Nat,
                age : 0 .. Timeout,
                revealed : BOOLEAN,
                entropy : Entropy,
                revision : Nat,
                eligible : 0 .. MaxBundles,
                selected : BundleIndex,
                claimed : SUBSET SlotIndex]

TemplateType == [status : {"draft", "live", "retired"},
                 lockedAt : 0 .. OpensAt,
                 bundleCount : 0 .. MaxBundles,
                 revision : Nat,
                 totalBundles : 0 .. MaxTickets,
                 totalMinted : Nat,
                 remainingBundles : Nat,
                 pendingOpenings : Nat,
                 nextRequest : Nat,
                 nextAllocation : Nat,
                 receiptsEnabled : BOOLEAN,
                 settlementBounty : Nat,
                 receiptRent : Nat,
                 remainingReceipts : Nat,
                 remainingBounties : Nat]

ReceiptType == [opening : Randomness, sequence : Nat, bundle : BundleIndex]

TypeOK ==
  /\ now \in 1 .. OpensAt
  /\ template \in TemplateType
  /\ remaining \in [BundleIndex -> Nat]
  /\ bundle \in [BundleIndex -> BundleType]
  /\ asset \in [BundleIndex -> [SlotIndex -> AssetType]]
  /\ boxMint \in [supply : Nat, authority : {"template", "nobody"}]
  /\ badge \in [Badges -> {Creator, Revoked} \cup {Held(i) : i \in BundleIndex}]
  /\ opening \in [Randomness -> OpeningType]
  /\ vault \in Nat
  /\ receipts \in SUBSET ReceiptType

-----------------------------------------------------------------------------
(* CreateTemplate runs once and is the initial state.  The clock may       *)
(* already be at the reveal time: opens_at is only checked not to be       *)
(* negative.                                                               *)

Init ==
  /\ now \in 1 .. OpensAt
  /\ \E receiptsEnabled \in ReceiptChoices, bounty \in Bounties :
       template = [status |-> "draft", lockedAt |-> 0, bundleCount |-> 0,
                   revision |-> 0, totalBundles |-> 0, totalMinted |-> 0,
                   remainingBundles |-> 0, pendingOpenings |-> 0,
                   nextRequest |-> 0, nextAllocation |-> 0,
                   receiptsEnabled |-> receiptsEnabled,
                   settlementBounty |-> bounty, receiptRent |-> 0,
                   remainingReceipts |-> 0, remainingBounties |-> 0]
  /\ remaining = [i \in BundleIndex |-> 0]
  /\ bundle = [i \in BundleIndex |-> NoBundle]
  /\ asset = [i \in BundleIndex |-> NoAssets]
  /\ boxMint = [supply |-> 0, authority |-> "template"]
  /\ badge = [m \in Badges |-> Creator]
  /\ opening = [r \in Randomness |-> NoOpening]
  /\ vault \in Donations
  /\ receipts = {}

-----------------------------------------------------------------------------
(* Staging: the creator builds the inventory one bundle at a time.         *)

Unlocked == template.lockedAt = 0

EditableWhenRetired == Unlocked                        \* mutated Editable
Editable == Unlocked /\ template.status # "retired"

FundedSlots(i) == 0 .. bundle[i].fundedAssets - 1

AddBundle(q, n) ==
  LET i == template.bundleCount
  IN /\ Editable
     /\ i < MaxBundles
     /\ bundle[i].status = "none"
     /\ bundle' = [bundle EXCEPT ![i] = [NoBundle EXCEPT !.status = "funding",
                                                         !.quantity = q,
                                                         !.assetCount = n]]
     /\ UNCHANGED <<now, template, remaining, asset, boxMint, badge, opening,
                    serviceVars>>

\* record_prize: the prize takes the next slot, unless its mint is in one.
RecordPrize(i, p, deposit) ==
  LET s == bundle[i].fundedAssets
  IN /\ Editable
     /\ bundle[i].status = "funding"
     /\ s < bundle[i].assetCount
     /\ \A t \in FundedSlots(i) : asset[i][t].mint # p.mint
     /\ bundle' = [bundle EXCEPT ![i].fundedAssets = s + 1]
     /\ asset' = [asset EXCEPT ![i][s] =
                    [kind |-> p.kind, mint |-> p.mint, amount |-> p.amount,
                     claimed |-> 0, reclaimed |-> FALSE, held |-> deposit]]
     /\ UNCHANGED <<now, template, remaining, boxMint, opening, serviceVars>>

\* FundSolPrize and FundQuoteSolPrize.  Native prizes share the zero mint.
FundSolPrize(i, p) ==
  /\ p.kind \in NativeKinds
  /\ RecordPrize(i, p, p.amount * bundle[i].quantity)
  /\ UNCHANGED badge

\* FundTokenPrize and FundQuoteTokenPrize, into the bundle's token account.
FundTokenPrize(i, p) ==
  /\ p.kind \in TokenKinds
  /\ RecordPrize(i, p, p.amount * bundle[i].quantity)
  /\ UNCHANGED badge

\* No badge is deposited: the bundle takes the right to mint it.
FundMintPrize(i, p) ==
  /\ p.kind = "badge"
  /\ badge[p.mint] = Creator
  /\ RecordPrize(i, p, 0)
  /\ badge' = [badge EXCEPT ![p.mint] = Held(i)]

ActivateBundle(i) ==
  LET q == bundle[i].quantity
  IN /\ Editable
     /\ bundle[i].status = "funding"
     /\ bundle[i].fundedAssets = bundle[i].assetCount
     /\ \A s \in FundedSlots(i) : ~asset[i][s].reclaimed /\ asset[i][s].claimed = 0
     /\ i = template.bundleCount
     /\ i < MaxBundles
     /\ template.totalBundles + q <= MaxTickets
     /\ template' = [template EXCEPT !.bundleCount = @ + 1,
                                     !.revision = @ + 1,
                                     !.totalBundles = @ + q,
                                     !.remainingBundles = @ + q]
     /\ remaining' = [remaining EXCEPT ![i] = q]
     /\ bundle' = [bundle EXCEPT ![i].status = "active",
                                 ![i].activatedRevision = template.revision + 1]
     /\ UNCHANGED <<now, asset, boxMint, badge, opening, serviceVars>>

\* Only an empty or fully reclaimed staging account is closed.
CancelBundle(i) ==
  /\ Unlocked
  /\ bundle[i].status = "funding"
  /\ i = template.bundleCount
  /\ \A s \in FundedSlots(i) : asset[i][s].reclaimed
  /\ bundle' = [bundle EXCEPT ![i] = NoBundle]
  /\ asset' = [asset EXCEPT ![i] = NoAssets]
  /\ UNCHANGED <<now, template, remaining, boxMint, badge, opening, serviceVars>>

SealTemplate ==
  /\ template.status = "draft"
  /\ template.bundleCount > 0
  /\ template' = [template EXCEPT !.status = "live"]
  /\ UNCHANGED <<now, remaining, adminVars, boxMint, opening, serviceVars>>

-----------------------------------------------------------------------------
(* Issuance and the market lock.                                           *)

\* validate_issuance: n more boxes stay within the tickets, both those ever
\* activated and those undrawn and not already owed to an opening.
IssuanceCoveredBefore(n) ==                     \* mutated IssuanceCovered
  /\ template.totalMinted <= template.totalBundles
  /\ boxMint.supply + template.pendingOpenings <= template.remainingBundles
IssuanceCovered(n) ==
  /\ template.totalMinted + n <= template.totalBundles
  /\ boxMint.supply + template.pendingOpenings + n <= template.remainingBundles

MintTemplateBoxes(n) ==
  /\ Editable
  /\ template.status = "live"
  /\ boxMint.authority = "template"
  /\ IssuanceCovered(n)
  /\ template' = [template EXCEPT !.totalMinted = @ + n]
  /\ boxMint' = [boxMint EXCEPT !.supply = @ + n]
  /\ UNCHANGED <<now, remaining, adminVars, opening, serviceVars>>

\* validate_market_lock: nothing drawn yet and one box for every ticket.
Pristine ==
  /\ template.totalBundles # 0
  /\ template.bundleCount # 0
  /\ template.remainingBundles = template.totalBundles
  /\ template.pendingOpenings = 0
  /\ template.nextRequest = 0
  /\ template.nextAllocation = 0

ExactSupply ==
  /\ template.totalMinted = template.totalBundles
  /\ boxMint.supply = template.totalBundles

\* service_budget: the services of every box, and the vault's own rent.
ServiceBudgetWithoutRent(rent) ==                 \* mutated ServiceBudget
  (rent + template.settlementBounty) * template.totalBundles
ServiceBudget(rent) ==
  LET reserve == (rent + template.settlementBounty) * template.totalBundles
  IN IF reserve = 0 THEN 0 ELSE reserve + RentMin

\* What the vault holds counts towards the budget: saturating_sub.
ToppedUp(budget) == IF vault >= budget THEN vault ELSE budget

LockTreasury ==
  LET rent == IF template.receiptsEnabled THEN ReceiptRent ELSE 0
  IN /\ template.status = "live"
     /\ Unlocked
     /\ OpensAt > now
     /\ boxMint.authority = "template"
     /\ Pristine
     /\ ExactSupply
     /\ bundle[template.bundleCount].status = "none"
     /\ vault' = ToppedUp(ServiceBudget(rent))
     /\ boxMint' = [boxMint EXCEPT !.authority = "nobody"]
     /\ template' =
          [template EXCEPT
             !.lockedAt = now,
             !.receiptRent = rent,
             !.remainingReceipts =
                IF template.receiptsEnabled THEN template.totalBundles ELSE 0,
             !.remainingBounties =
                IF template.settlementBounty = 0 THEN 0 ELSE template.totalBundles]
     /\ UNCHANGED <<now, remaining, adminVars, opening, receipts>>

-----------------------------------------------------------------------------
(* Openings.                                                               *)

HasServiceVault == template.receiptsEnabled \/ template.settlementBounty # 0

RequiredServiceBalance(t) ==
  t.receiptRent * t.remainingReceipts + t.settlementBounty * t.remainingBounties

\* The runtime leaves a System account empty or rent exempt.
RentExempt(balance) == balance = 0 \/ balance >= RentMin

\* pay_settlement_bounty; t is the template the handler has updated so far.
PaySettlementBounty(t) ==
  LET paid == [t EXCEPT !.remainingBounties = @ - 1]
      balance == vault - t.settlementBounty
  IN \/ /\ t.settlementBounty = 0
        /\ template' = t
        /\ vault' = vault
     \/ /\ t.settlementBounty # 0
        /\ t.remainingBounties > 0
        /\ vault >= RequiredServiceBalance(t)
        /\ balance >= RequiredServiceBalance(paid)
        /\ RentExempt(balance)
        /\ template' = paid
        /\ vault' = balance

\* The boxes, the openings in flight and the undrawn tickets still add up.
OpeningCovered ==
  (boxMint.supply - 1) + (template.pendingOpenings + 1) <= template.remainingBundles

\* A holder burns one box and commits a fresh randomness account in one step.
RequestTemplateOpen(r) ==
  /\ template.status # "draft"
  /\ ~Unlocked \/ template.status = "retired"
  /\ now >= OpensAt
  /\ boxMint.authority = IF Unlocked THEN "template" ELSE "nobody"
  /\ boxMint.supply > 0
  /\ OpeningCovered
  /\ opening[r].status = "none"
  /\ opening' = [opening EXCEPT ![r] =
                   [NoOpening EXCEPT !.status = "committed",
                                     !.sequence = template.nextRequest,
                                     !.revision = template.revision,
                                     !.eligible = template.bundleCount]]
  /\ template' = [template EXCEPT !.nextRequest = @ + 1,
                                  !.pendingOpenings = @ + 1]
  /\ boxMint' = [boxMint EXCEPT !.supply = @ - 1]
  /\ UNCHANGED <<now, remaining, adminVars, serviceVars>>

\* The oracle answers at a later slot than the commit, in any order between
\* openings and also after the timeout; whoever submits it earns the bounty.
FulfillAgain(r, e) ==                       \* mutated FulfillTemplateOpen
  /\ opening[r].status \in {"committed", "verified"}
  /\ opening' = [opening EXCEPT ![r].status = "verified",
                                ![r].revealed = TRUE,
                                ![r].entropy = e]
  /\ PaySettlementBounty(template)
  /\ UNCHANGED <<now, remaining, adminVars, boxMint, receipts>>
FulfillTemplateOpen(r, e) ==
  /\ opening[r].status = "committed"
  /\ ~opening[r].revealed
  /\ opening[r].age > 0
  /\ opening' = [opening EXCEPT ![r].status = "verified",
                                ![r].revealed = TRUE,
                                ![r].entropy = e]
  /\ PaySettlementBounty(template)
  /\ UNCHANGED <<now, remaining, adminVars, boxMint, receipts>>

AtAnyPosition(r) == opening[r].sequence >= template.nextAllocation  \* mutated
AtHead(r) == opening[r].sequence = template.nextAllocation

Expired(r) == opening[r].age >= Timeout

\* record_forfeit gives up the draw of the queue's head; no ticket is drawn.
ForfeitTakesTicket(t) ==                          \* mutated RecordForfeit
  [t EXCEPT !.pendingOpenings = @ - 1, !.nextAllocation = @ + 1,
            !.remainingBundles = @ - 1]
ForfeitKeepsHead(t) ==                            \* mutated RecordForfeit
  [t EXCEPT !.pendingOpenings = @ - 1]
RecordForfeit(t) ==
  [t EXCEPT !.pendingOpenings = @ - 1, !.nextAllocation = @ + 1]

ForfeitTemplateOpen(r) ==
  /\ opening[r].status = "committed"
  /\ ~opening[r].revealed
  /\ Expired(r)
  /\ AtHead(r)
  /\ template.pendingOpenings > 0
  /\ opening' = [opening EXCEPT ![r].status = "forfeited"]
  /\ PaySettlementBounty(RecordForfeit(template))
  /\ UNCHANGED <<now, remaining, adminVars, boxMint, receipts>>

-----------------------------------------------------------------------------
(* Allocation: the draw at the head of the queue.                          *)

AvailableInPrefix(n) == SumFunctionOnSet(remaining, 0 .. n - 1)

\* select_outcome on an entropy that some digest maps below the bound.
SelectOutcome(e, bound) == e % bound

\* bundle_for_target: bundle b owns the target ticket of the prefix.
BundleForTarget(n, target, b) ==
  /\ b \in 0 .. n - 1
  /\ AvailableInPrefix(b) <= target
  /\ target < AvailableInPrefix(b + 1)

Selects(r, b) ==
  LET inventory == AvailableInPrefix(opening[r].eligible)
  IN /\ inventory \in 1 .. MaxTickets
     /\ opening[r].entropy \notin Rejecting
     /\ BundleForTarget(opening[r].eligible,
                        SelectOutcome(opening[r].entropy, inventory), b)

\* allocate: one ticket, one pending opening, one step of the queue.
DrawnTwice(t) ==                                          \* mutated Drawn
  [t EXCEPT !.remainingBundles = @ - 1, !.pendingOpenings = @ - 2,
            !.nextAllocation = @ + 1]
Drawn(t) ==
  [t EXCEPT !.remainingBundles = @ - 1, !.pendingOpenings = @ - 1,
            !.nextAllocation = @ + 1]

StaleReceipt(r, b) ==                                   \* mutated Receipt
  [opening |-> r, sequence |-> opening[r].sequence,
   bundle |-> opening[r].selected]
Receipt(r, b) ==
  [opening |-> r, sequence |-> opening[r].sequence, bundle |-> b]

\* The receipt of opening r, paid from the vault when receipts are enabled;
\* t is the template after the draw.
IssueReceipt(t, r, b) ==
  LET paid == [t EXCEPT !.remainingReceipts = @ - 1]
      balance == vault - t.receiptRent
  IN \/ /\ ~t.receiptsEnabled
        /\ template' = t
        /\ UNCHANGED serviceVars
     \/ /\ t.receiptsEnabled
        /\ t.remainingReceipts > 0
        /\ vault >= RequiredServiceBalance(t)
        /\ balance >= RequiredServiceBalance(paid)
        /\ RentExempt(balance)
        /\ \A c \in receipts : <<c.opening, c.sequence>> # <<r, opening[r].sequence>>
        /\ template' = paid
        /\ vault' = balance
        /\ receipts' = receipts \cup {Receipt(r, b)}

AllocateTemplateOpen(r, b) ==
  /\ opening[r].status = "verified"
  /\ AtHead(r)
  /\ bundle[b].status = "active"
  /\ bundle[b].activatedRevision <= opening[r].revision
  /\ Selects(r, b)
  /\ opening[r].eligible <= template.bundleCount
  /\ opening[r].revision <= template.revision
  /\ remaining[b] > 0
  /\ template.remainingBundles > 0
  /\ template.pendingOpenings > 0
  /\ remaining' = [remaining EXCEPT ![b] = @ - 1]
  /\ opening' = [opening EXCEPT ![r].status = "allocated", ![r].selected = b]
  /\ IssueReceipt(Drawn(template), r, b)
  /\ UNCHANGED <<now, adminVars, boxMint>>

-----------------------------------------------------------------------------
(* Claims: each slot of the winning bundle is released once, in any order. *)

RecordClaim(r, s) ==
  LET b == opening[r].selected
      claimed == opening[r].claimed \cup {s}
  IN /\ opening[r].status = "allocated"
     /\ s < bundle[b].assetCount
     /\ s \notin opening[r].claimed
     /\ asset[b][s].claimed < bundle[b].quantity
     /\ opening' = [opening EXCEPT
                      ![r].claimed = claimed,
                      ![r].status = IF claimed = 0 .. bundle[b].assetCount - 1
                                      THEN "delivered" ELSE @]
     /\ UNCHANGED <<now, template, remaining, bundle, boxMint, serviceVars>>

\* Copies of a prize leave the inventory, with what they take from the escrow.
Release(a, copies, value) == [a EXCEPT !.claimed = @ + copies, !.held = @ - value]

\* What slot s of bundle b owes once `claimed` of its copies are released.
Owed(b, s, claimed) == asset[b][s].amount * (bundle[b].quantity - claimed)

ClaimSolPrize(r, s) ==
  LET b == opening[r].selected
  IN /\ asset[b][s].kind \in NativeKinds
     /\ RecordClaim(r, s)
     /\ asset[b][s].held - asset[b][s].amount >= Owed(b, s, asset[b][s].claimed + 1)
     /\ asset' = [asset EXCEPT
                    ![b][s] = Release(asset[b][s], 1, asset[b][s].amount)]
     /\ UNCHANGED badge

ClaimTokenPrize(r, s) ==
  LET b == opening[r].selected
  IN /\ asset[b][s].kind \in TokenKinds
     /\ RecordClaim(r, s)
     /\ asset[b][s].held >= asset[b][s].amount
     /\ asset' = [asset EXCEPT
                    ![b][s] = Release(asset[b][s], 1, asset[b][s].amount)]
     /\ UNCHANGED badge

\* A badge is minted on claim; the last copy gives up the mint authority.
FirstCopyIsLast(i, released) == TRUE                  \* mutated LastCopy
LastCopy(i, released) == released = bundle[i].quantity

ClaimMintPrize(r, s) ==
  LET b == opening[r].selected
      m == asset[b][s].mint
  IN /\ asset[b][s].kind = "badge"
     /\ badge[m] = Held(b)
     /\ RecordClaim(r, s)
     /\ asset' = [asset EXCEPT ![b][s] = Release(asset[b][s], 1, 0)]
     /\ badge' = IF LastCopy(b, asset[b][s].claimed + 1)
                   THEN [badge EXCEPT ![m] = Revoked] ELSE badge

-----------------------------------------------------------------------------
(* Retirement, recovery of undrawn inventory, and closing accounts.        *)

\* validate_retirement: issued boxes need the lock or a missed deadline.
NoRecovery == template.totalMinted # 0 => ~Unlocked \* mutated RetirementAllowed
RetirementAllowed ==
  template.totalMinted # 0 /\ Unlocked => OpensAt <= now

\* permissionless_retirement: from here anybody may retire the template.
PermissionlessRetirement ==
  template.status = "live" /\ Unlocked /\ now >= OpensAt

RetireTemplate ==
  /\ template.status = "live"
  /\ RetirementAllowed
  /\ template' = IF Unlocked
                   THEN [template EXCEPT !.status = "retired",
                                         !.receiptsEnabled = FALSE,
                                         !.settlementBounty = 0]
                   ELSE [template EXCEPT !.status = "retired"]
  /\ UNCHANGED <<now, remaining, adminVars, boxMint, opening, serviceVars>>

\* No box and no opening in flight can still win from the inventory.
NothingOutstanding == boxMint.supply = 0 /\ template.pendingOpenings = 0

\* A slot is reclaimed at most once.
Reclaim(a, copies, value) == [Release(a, copies, value) EXCEPT !.reclaimed = TRUE]

\* reclaim_amount: allocated and unclaimed copies stay with their winners.
UnusedAndUnclaimed(i) == bundle[i].quantity              \* mutated Unused
Unused(i) == IF bundle[i].status = "funding" THEN bundle[i].quantity ELSE remaining[i]

ReclaimAllowed(i, s) ==
  /\ bundle[i].status # "none"
  /\ bundle[i].status = "active" => template.status = "retired" /\ NothingOutstanding
  /\ s \in FundedSlots(i)
  /\ ~asset[i][s].reclaimed
  /\ asset[i][s].claimed + Unused(i) <= bundle[i].quantity
  /\ UNCHANGED <<now, template, remaining, bundle, boxMint, opening, serviceVars>>

ReclaimSolPrize(i, s) ==
  LET returned == asset[i][s].amount * Unused(i)
  IN /\ asset[i][s].kind \in NativeKinds
     /\ ReclaimAllowed(i, s)
     /\ asset[i][s].held - returned >= Owed(i, s, asset[i][s].claimed + Unused(i))
     /\ asset' = [asset EXCEPT ![i][s] = Reclaim(asset[i][s], Unused(i), returned)]
     /\ UNCHANGED badge

ReclaimTokenPrize(i, s) ==
  LET returned == asset[i][s].amount * Unused(i)
  IN /\ asset[i][s].kind \in TokenKinds
     /\ ReclaimAllowed(i, s)
     /\ asset[i][s].held >= returned
     /\ asset' = [asset EXCEPT ![i][s] = Reclaim(asset[i][s], Unused(i), returned)]
     /\ UNCHANGED badge

\* The authority is revoked here only when no winner still waits for a copy.
ReclaimMintPrize(i, s) ==
  LET m == asset[i][s].mint
  IN /\ asset[i][s].kind = "badge"
     /\ badge[m] = Held(i)
     /\ ReclaimAllowed(i, s)
     /\ asset' = [asset EXCEPT ![i][s] = Reclaim(asset[i][s], Unused(i), 0)]
     /\ badge' = IF LastCopy(i, asset[i][s].claimed + Unused(i))
                   THEN [badge EXCEPT ![m] = Revoked] ELSE badge

\* The opening and its randomness account close together.
CloseTemplateOpening(r) ==
  /\ opening[r].status \in {"delivered", "forfeited"}
  /\ opening' = [opening EXCEPT ![r] = NoOpening]
  /\ UNCHANGED <<now, template, remaining, adminVars, boxMint, serviceVars>>

\* On an empty vault the handler returns without a change.
CloseServiceVault ==
  /\ HasServiceVault
  /\ boxMint.authority = IF Unlocked THEN "template" ELSE "nobody"
  /\ template.status = "retired"
  /\ NothingOutstanding
  /\ vault > 0
  /\ vault' = 0
  /\ UNCHANGED <<now, template, remaining, adminVars, boxMint, opening, receipts>>

-----------------------------------------------------------------------------
(* The environment.                                                        *)

AdvanceClock ==
  /\ now < OpensAt
  /\ now' = now + 1
  /\ UNCHANGED <<template, remaining, adminVars, boxMint, opening, serviceVars>>

\* Slots pass for every opening that still waits for the oracle; an age
\* beyond the timeout makes no further difference.
Waiting(r) == opening[r].status = "committed" /\ opening[r].age < Timeout

AdvanceSlot ==
  /\ \E r \in Randomness : Waiting(r)
  /\ opening' = [r \in Randomness |->
                   IF Waiting(r) THEN [opening[r] EXCEPT !.age = @ + 1]
                                 ELSE opening[r]]
  /\ UNCHANGED <<now, template, remaining, adminVars, boxMint, serviceVars>>

\* The token program lets a holder destroy a box without opening it.
BurnBox ==
  /\ boxMint.supply > 0
  /\ boxMint' = [boxMint EXCEPT !.supply = @ - 1]
  /\ UNCHANGED <<now, template, remaining, adminVars, opening, serviceVars>>

\* Nothing is left to do: the only states in which the system may stop.
WoundUp ==
  /\ template.status = "retired"
  /\ NothingOutstanding
  /\ \A r \in Randomness : opening[r].status = "none"
  /\ \A i \in BundleIndex :
       /\ bundle[i].status # "funding"
       /\ \A s \in FundedSlots(i) :
            \/ asset[i][s].reclaimed
            \/ asset[i][s].kind = "badge" /\ asset[i][s].claimed = bundle[i].quantity
  /\ HasServiceVault => vault = 0
  /\ UNCHANGED vars

-----------------------------------------------------------------------------

Staging ==
  \/ \E q \in Quantities, n \in 1 .. MaxAssets : AddBundle(q, n)
  \/ \E i \in BundleIndex, p \in Prizes :
       FundSolPrize(i, p) \/ FundTokenPrize(i, p) \/ FundMintPrize(i, p)
  \/ \E i \in BundleIndex : ActivateBundle(i) \/ CancelBundle(i)
  \/ SealTemplate
  \/ \E n \in 1 .. MaxTickets : MintTemplateBoxes(n)
  \/ LockTreasury

Claim(r, s) == ClaimSolPrize(r, s) \/ ClaimTokenPrize(r, s) \/ ClaimMintPrize(r, s)

Opening ==
  \E r \in Randomness :
    \/ RequestTemplateOpen(r)
    \/ \E e \in Entropy : FulfillTemplateOpen(r, e)
    \/ ForfeitTemplateOpen(r)
    \/ \E b \in BundleIndex : AllocateTemplateOpen(r, b)
    \/ \E s \in SlotIndex : Claim(r, s)
    \/ CloseTemplateOpening(r)

Recovery ==
  \/ RetireTemplate
  \/ \E i \in BundleIndex, s \in SlotIndex :
       ReclaimSolPrize(i, s) \/ ReclaimTokenPrize(i, s) \/ ReclaimMintPrize(i, s)
  \/ CloseServiceVault

Next ==
  \/ Staging
  \/ Opening
  \/ Recovery
  \/ AdvanceClock
  \/ AdvanceSlot
  \/ BurnBox
  \/ WoundUp

Spec == Init /\ [][Next]_vars

\* Time passes, and instructions that anybody may send are sent eventually:
\* relayers and winners have every account and key they need.  Nothing is
\* assumed of the creator, of holders or of the oracle.
Fairness ==
  /\ WF_vars(AdvanceClock)
  /\ WF_vars(AdvanceSlot)
  /\ WF_vars(PermissionlessRetirement /\ RetireTemplate)
  /\ \A r \in Randomness :
       /\ WF_vars(ForfeitTemplateOpen(r))
       /\ WF_vars(\E b \in BundleIndex : AllocateTemplateOpen(r, b))
       /\ \A s \in SlotIndex : WF_vars(Claim(r, s))

FairSpec == Spec /\ Fairness

-----------------------------------------------------------------------------
(* Safety.                                                                 *)

\* The openings that burned a box and have not had their turn.
Queued == {r \in Randomness : opening[r].status \in {"committed", "verified"}}
Committed == {r \in Randomness : opening[r].status = "committed"}

\* Winners of bundle i who have not claimed slot s.
Winners(i, s) ==
  {r \in Randomness : /\ opening[r].status = "allocated"
                      /\ opening[r].selected = i
                      /\ s \notin opening[r].claimed}

\* Every unopened box and every opening in flight has a ticket behind it, so
\* no holder is ever turned away as insolvent, whatever was minted, burned,
\* drawn or forfeited before (RequestTemplateOpen's Insolvent check).
Solvent == boxMint.supply + template.pendingOpenings <= template.remainingBundles

\* The queue of openings has no hole and no duplicate: pending_openings,
\* next_request and next_allocation describe exactly the accounts that wait,
\* although accounts are closed and their addresses used again.
QueueExact ==
  /\ template.pendingOpenings = Cardinality(Queued)
  /\ template.pendingOpenings = template.nextRequest - template.nextAllocation
  /\ {opening[r].sequence : r \in Queued} =
       template.nextAllocation .. template.nextRequest - 1
  /\ \A r, q \in Queued : opening[r].sequence = opening[q].sequence => r = q

\* Whatever ticket the entropy of a waiting opening names, an active bundle of
\* the opening's own revision owns it and has a copy left: allocation cannot
\* be refused for lack of inventory or for a bundle appended too late.
SelectionLands ==
  \A r \in Queued :
    LET inventory == AvailableInPrefix(opening[r].eligible)
    IN /\ inventory = template.remainingBundles
       /\ inventory \in 1 .. MaxTickets
       /\ \A target \in 0 .. inventory - 1 :
            \E b \in BundleIndex :
              /\ BundleForTarget(opening[r].eligible, target, b)
              /\ bundle[b].status = "active"
              /\ bundle[b].activatedRevision <= opening[r].revision
              /\ remaining[b] > 0

\* The unreleased copies of every prize are exactly those of winners who have
\* not claimed and those still undrawn or reclaimed; the escrow holds their
\* amount, and the bundle may mint a badge for exactly as long as one is owed.
EscrowExact ==
  \A i \in BundleIndex : bundle[i].status = "active" =>
    \A s \in FundedSlots(i) :
      LET a == asset[i][s]
          unreleased == bundle[i].quantity - a.claimed
      IN /\ unreleased = Cardinality(Winners(i, s))
                           + (IF a.reclaimed THEN 0 ELSE remaining[i])
         /\ a.kind # "badge" => a.held = a.amount * unreleased
         /\ a.kind = "badge" =>
              badge[a.mint] = IF unreleased = 0 THEN Revoked ELSE Held(i)

\* While a box or an opening can still need a service, the locked vault pays
\* a receipt for each and a bounty for each unsettled one and stays rent
\* exempt: ServiceBudgetExhausted never blocks a settlement.
ServiceCovered ==
  LET open == boxMint.supply + template.pendingOpenings
  IN ~Unlocked /\ HasServiceVault /\ open > 0 =>
       /\ template.receiptsEnabled => template.remainingReceipts >= open
       /\ template.settlementBounty # 0 =>
            template.remainingBounties >= boxMint.supply + Cardinality(Committed)
       /\ vault >= RequiredServiceBalance(template) + RentMin

\* With receipts enabled each draw leaves one permanent receipt naming the
\* bundle won, no two receipts share a place in the queue, and an opening
\* that waits has none, even where its address served an earlier opening.
ReceiptsExact ==
  /\ ~Unlocked /\ template.receiptsEnabled =>
       /\ Cardinality(receipts) + template.remainingReceipts = template.totalBundles
       /\ \A r \in Randomness : opening[r].status \in {"allocated", "delivered"} =>
            Receipt(r, opening[r].selected) \in receipts
  /\ \A c, d \in receipts : c.sequence = d.sequence => c = d
  /\ \A c \in receipts, r \in Queued : c.sequence # opening[r].sequence

\* The books of the prizes and the books of the draws agree with the accounts.
AccountsExact == EscrowExact /\ ReceiptsExact

\* No step but its own allocation changes what the verified opening at the
\* head of the queue is going to win, and it wins that.
OutcomeFixed ==
  [][\A r \in Randomness : opening[r].status = "verified" /\ AtHead(r) =>
       \/ opening'[r].status = "verified" /\ \A b \in BundleIndex :
            Selects(r, b) <=> Selects(r, b)'
       \/ opening'[r].status = "allocated" /\ Selects(r, opening'[r].selected)]_vars

\* The terms are final once the treasury is locked or retired.
Final == ~Unlocked \/ template.status = "retired"

\* Once the treasury is locked or retired its terms stay as they are: no
\* ticket, box or bundle is added and no bundle changes its prizes.
TermsFrozen ==
  [][Final =>
       /\ Final'
       /\ template'.totalBundles = template.totalBundles
       /\ template'.bundleCount = template.bundleCount
       /\ boxMint'.supply <= boxMint.supply
       /\ \A i \in BundleIndex :
            /\ remaining'[i] <= remaining[i]
            /\ bundle[i].status = "active" =>
                 /\ bundle'[i] = bundle[i]
                 /\ \A s \in SlotIndex :
                      /\ asset'[i][s].mint = asset[i][s].mint
                      /\ asset'[i][s].amount = asset[i][s].amount]_vars

-----------------------------------------------------------------------------
(* Liveness, under FairSpec.                                               *)

\* Every requested opening has its turn: it is drawn, or forfeited after the
\* timeout, even when the oracle never answers.
RequestsSettle ==
  \A n \in 0 .. MaxTickets - 1 :
    template.nextRequest > n ~> template.nextAllocation > n

\* A creator who never locks a live treasury cannot keep holders waiting
\* beyond the reveal time: anybody retires it, and then boxes open.
MissedDeadlineRecovers ==
  template.status = "live" ~> ~Unlocked \/ template.status = "retired"

\* The oracle's answer settles an opening: once verified it is allocated,
\* because a deterministic fallback follows the eighth rejected digest (as
\* docs/architecture.md says of select_outcome).
VerifiedIsAllocated ==
  \A r \in Randomness : opening[r].status = "verified" ~> opening[r].status = "allocated"

\* Everything won is delivered, also when the creator has retired the
\* template and reclaimed the undrawn inventory in between.
WinningsDelivered ==
  \A r \in Randomness : opening[r].status = "allocated" ~> opening[r].status = "delivered"
=============================================================================
