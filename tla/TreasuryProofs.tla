--------------------------- MODULE TreasuryProofs ---------------------------
(***************************************************************************)
(* Theorems about Treasury for every value of its constants: its types,    *)
(* the invariants that tie its counters to its accounts, the accounts      *)
(* themselves (tickets, openings, prizes and receipts), and the promise of *)
(* a box, which it keeps.                                                  *)
(***************************************************************************)
EXTENDS Treasury, TreasuryPromise, Sums, FiniteSetTheorems, SequenceTheorems, TLAPS

USE DEF BundleIndex, SlotIndex

-----------------------------------------------------------------------------
(* Type correctness.                                                       *)

LEMMA InitTypeOK == Init => TypeOK
  <1> SUFFICES ASSUME Init PROVE TypeOK
    OBVIOUS
  <1> USE BoundsAssumption, TermsAssumption, ServiceAssumption DEF Init
  <1>1. now \in 1 .. OpensAt /\ vault \in Nat /\ receipts \in SUBSET ReceiptType
    OBVIOUS
  <1>2. template \in TemplateType
    BY DEF TemplateType
  <1>3. /\ remaining \in [BundleIndex -> Nat]
        /\ bundle \in [BundleIndex -> BundleType]
    BY DEF NoBundle, BundleType
  <1>4. asset \in [BundleIndex -> [SlotIndex -> AssetType]]
    BY DEF NoAssets, NoAsset, AssetType
  <1>5. /\ boxMint \in [supply : Nat, authority : {"template", "nobody"}]
        /\ badge \in [Badges -> {Creator, Revoked} \cup {Held(i) : i \in BundleIndex}]
    OBVIOUS
  <1>6. opening \in [Randomness -> OpeningType]
    BY DEF NoOpening, OpeningType
  <1>7. QED
    BY <1>1, <1>2, <1>3, <1>4, <1>5, <1>6 DEF TypeOK

\* The records of accounts that do not exist yet.
LEMMA BlankRecords ==
  /\ NoBundle \in BundleType
  /\ NoAsset \in AssetType
  /\ NoOpening \in OpeningType
  BY BoundsAssumption, TermsAssumption
     DEF NoBundle, BundleType, NoAsset, AssetType, NoOpening, OpeningType

\* The fields of a typed state, for steps that need only arithmetic.
LEMMA TypedTemplate ==
  ASSUME TypeOK
  PROVE  /\ template.status \in {"draft", "live", "retired"}
         /\ template.bundleCount \in 0 .. MaxBundles
         /\ template.revision \in Nat
         /\ template.totalBundles \in 0 .. MaxTickets
         /\ template.totalMinted \in Nat
         /\ template.remainingBundles \in Nat
         /\ template.pendingOpenings \in Nat
         /\ template.nextRequest \in Nat
         /\ template.nextAllocation \in Nat
         /\ template.receiptsEnabled \in BOOLEAN
         /\ template.settlementBounty \in Nat
         /\ template.receiptRent \in Nat
         /\ template.remainingReceipts \in Nat
         /\ template.remainingBounties \in Nat
         /\ boxMint.supply \in Nat
         /\ now \in 1 .. OpensAt
         /\ vault \in Nat
  BY DEF TypeOK, TemplateType

LEMMA TypedBundle ==
  ASSUME TypeOK, NEW i \in BundleIndex
  PROVE  /\ remaining[i] \in Nat
         /\ bundle[i] \in BundleType
         /\ bundle[i].quantity \in Nat
         /\ bundle[i].assetCount \in 0 .. MaxAssets
         /\ bundle[i].fundedAssets \in 0 .. MaxAssets
  BY DEF TypeOK, BundleType

LEMMA TypedAsset ==
  ASSUME TypeOK, NEW i \in BundleIndex, NEW s \in SlotIndex
  PROVE  /\ asset[i][s] \in AssetType
         /\ asset[i][s].amount \in Nat
         /\ asset[i][s].claimed \in Nat
         /\ asset[i][s].held \in Nat
  <1>1. asset \in [BundleIndex -> [SlotIndex -> AssetType]]
    BY DEF TypeOK
  <1>2. asset[i][s] \in AssetType
    BY <1>1
  <1>3. QED
    BY <1>2 DEF AssetType

LEMMA TypedOpening ==
  ASSUME TypeOK, NEW r \in Randomness
  PROVE  /\ opening[r] \in OpeningType
         /\ opening[r].selected \in BundleIndex
         /\ opening[r].claimed \in SUBSET SlotIndex
         /\ opening[r].age \in 0 .. Timeout
         /\ opening[r].sequence \in Nat
  <1>1. opening[r] \in OpeningType
    BY DEF TypeOK
  <1>2. QED
    BY <1>1 DEF OpeningType

LEMMA AddBundleTypeOK ==
  ASSUME TypeOK, NEW q \in Quantities, NEW n \in 1 .. MaxAssets, AddBundle(q, n)
  PROVE  TypeOK'
  <1> DEFINE staged == [NoBundle EXCEPT !.status = "funding", !.quantity = q,
                                        !.assetCount = n]
  <1>1. q \in Nat /\ n \in 0 .. MaxAssets
    BY BoundsAssumption, TermsAssumption
  <1>2. staged \in BundleType
    BY <1>1, BlankRecords DEF BundleType
  <1>3. bundle' = [bundle EXCEPT ![template.bundleCount] = staged]
    BY DEF AddBundle
  <1> HIDE DEF staged
  <1>4. bundle' \in [BundleIndex -> BundleType]
    BY <1>2, <1>3 DEF TypeOK
  <1>5. QED
    BY <1>4 DEF TypeOK, AddBundle, serviceVars

\* The three Fund actions: the slot is within the bundle, and the deposit is
\* a number of lamports or tokens.
LEMMA RecordPrizeTypeOK ==
  ASSUME TypeOK, NEW i \in BundleIndex, NEW p \in Prizes, NEW deposit \in Nat,
         RecordPrize(i, p, deposit)
  PROVE  /\ bundle' \in [BundleIndex -> BundleType]
         /\ asset' \in [BundleIndex -> [SlotIndex -> AssetType]]
         /\ UNCHANGED <<now, template, remaining, boxMint, opening, vault, receipts>>
  <1> DEFINE s == bundle[i].fundedAssets
             prize == [kind |-> p.kind, mint |-> p.mint, amount |-> p.amount,
                       claimed |-> 0, reclaimed |-> FALSE, held |-> deposit]
  <1>1. s \in SlotIndex /\ s + 1 \in 0 .. MaxAssets
    <2>1. s < bundle[i].assetCount
      BY DEF RecordPrize
    <2>2. QED
      BY <2>1, TypedBundle, BoundsAssumption
  <1>2. prize \in AssetType
    BY TermsAssumption DEF AssetType, Mints
  <1>3. bundle' = [bundle EXCEPT ![i].fundedAssets = s + 1]
        /\ asset' = [asset EXCEPT ![i][s] = prize]
    BY DEF RecordPrize
  <1> HIDE DEF s, prize
  <1>4. bundle' \in [BundleIndex -> BundleType]
    BY <1>1, <1>3, SMTT(30) DEF TypeOK, BundleType
  <1>5. asset' \in [BundleIndex -> [SlotIndex -> AssetType]]
    BY <1>1, <1>2, <1>3 DEF TypeOK
  <1>6. QED
    BY <1>4, <1>5 DEF RecordPrize, serviceVars

LEMMA FundTypeOK ==
  ASSUME TypeOK, NEW i \in BundleIndex, NEW p \in Prizes,
         FundSolPrize(i, p) \/ FundTokenPrize(i, p) \/ FundMintPrize(i, p)
  PROVE  TypeOK'
  <1>1. bundle[i].quantity \in Nat /\ p.amount \in Nat
    BY TermsAssumption DEF TypeOK, BundleType
  <1>2. p.amount * bundle[i].quantity \in Nat
    BY <1>1
  <1>3. badge' \in [Badges -> {Creator, Revoked} \cup {Held(j) : j \in BundleIndex}]
    BY DEF FundSolPrize, FundTokenPrize, FundMintPrize, TypeOK
  <1>4. \/ RecordPrize(i, p, p.amount * bundle[i].quantity)
        \/ RecordPrize(i, p, 0)
    BY DEF FundSolPrize, FundTokenPrize, FundMintPrize
  <1>5. QED
    BY <1>2, <1>3, <1>4, RecordPrizeTypeOK DEF TypeOK

LEMMA ActivateTypeOK ==
  ASSUME TypeOK, NEW i \in BundleIndex, ActivateBundle(i)
  PROVE  TypeOK'
  <1> DEFINE q == bundle[i].quantity
  <1>1. q \in Nat
    BY DEF TypeOK, BundleType
  <1>2. template.bundleCount < MaxBundles /\ template.totalBundles + q <= MaxTickets
    BY DEF ActivateBundle
  <1>3. /\ template.bundleCount + 1 \in 0 .. MaxBundles
        /\ template.revision + 1 \in Nat
        /\ template.totalBundles + q \in 0 .. MaxTickets
        /\ template.remainingBundles + q \in Nat
    BY <1>1, <1>2, TypedTemplate, BoundsAssumption
  <1>4. template' \in TemplateType
    BY <1>3 DEF TypeOK, ActivateBundle, TemplateType
  <1>5. remaining' \in [BundleIndex -> Nat]
    BY <1>1 DEF TypeOK, ActivateBundle
  <1>6. bundle' \in [BundleIndex -> BundleType]
    <2> DEFINE activated == [bundle[i] EXCEPT !.status = "active",
                               !.activatedRevision = template.revision + 1]
    <2>1. activated \in BundleType
      BY <1>3, TypedBundle DEF BundleType
    <2>2. bundle' = [bundle EXCEPT ![i] = activated]
      BY DEF ActivateBundle
    <2> HIDE DEF activated
    <2>3. QED
      BY <2>1, <2>2 DEF TypeOK
  <1>7. QED
    BY <1>4, <1>5, <1>6 DEF TypeOK, ActivateBundle, serviceVars

LEMMA CancelTypeOK ==
  ASSUME TypeOK, NEW i \in BundleIndex, CancelBundle(i)
  PROVE  TypeOK'
  <1>1. NoAssets \in [SlotIndex -> AssetType]
    BY BlankRecords DEF NoAssets
  <1>2. bundle' \in [BundleIndex -> BundleType]
    BY BlankRecords DEF TypeOK, CancelBundle
  <1>3. asset' \in [BundleIndex -> [SlotIndex -> AssetType]]
    BY <1>1 DEF TypeOK, CancelBundle
  <1>4. QED
    BY <1>2, <1>3 DEF TypeOK, CancelBundle, serviceVars

LEMMA SealTypeOK ==
  ASSUME TypeOK, SealTemplate
  PROVE  TypeOK'
  <1>1. template' \in TemplateType
    BY DEF TypeOK, SealTemplate, TemplateType
  <1>2. QED
    BY <1>1 DEF TypeOK, SealTemplate, adminVars, serviceVars

LEMMA MintTypeOK ==
  ASSUME TypeOK, NEW n \in 1 .. MaxTickets, MintTemplateBoxes(n)
  PROVE  TypeOK'
  <1>1. template.totalMinted + n \in Nat /\ boxMint.supply + n \in Nat
    BY TypedTemplate, BoundsAssumption
  <1>2. template' \in TemplateType
    BY <1>1 DEF TypeOK, MintTemplateBoxes, TemplateType
  <1>3. boxMint' \in [supply : Nat, authority : {"template", "nobody"}]
    BY <1>1 DEF TypeOK, MintTemplateBoxes
  <1>4. QED
    BY <1>2, <1>3 DEF TypeOK, MintTemplateBoxes, adminVars, serviceVars

LEMMA LockTypeOK ==
  ASSUME TypeOK, LockTreasury
  PROVE  TypeOK'
  <1> DEFINE rent == IF template.receiptsEnabled THEN ReceiptRent ELSE 0
             budget == ServiceBudget(rent)
  <1>1. rent \in Nat /\ RentMin \in Nat
    BY ServiceAssumption
  <1>2. /\ template.totalBundles \in Nat
        /\ template.settlementBounty \in Nat
        /\ now \in 0 .. OpensAt
        /\ vault \in Nat
    BY TypedTemplate, BoundsAssumption
  <1> HIDE DEF rent
  <1>3. (rent + template.settlementBounty) * template.totalBundles \in Nat
    BY <1>1, <1>2
  <1>4. budget \in Nat
    BY <1>1, <1>3 DEF ServiceBudget
  <1> HIDE DEF budget
  <1>5. vault' \in Nat
    BY <1>2, <1>4 DEF LockTreasury, ToppedUp, rent, budget
  <1>6. template' \in TemplateType
    <2> DEFINE receiptBudget == IF template.receiptsEnabled THEN template.totalBundles ELSE 0
               bountyBudget == IF template.settlementBounty = 0 THEN 0 ELSE template.totalBundles
    <2>1. receiptBudget \in Nat /\ bountyBudget \in Nat
      BY <1>2
    <2>2. template' = [template EXCEPT !.lockedAt = now, !.receiptRent = rent,
                                       !.remainingReceipts = receiptBudget,
                                       !.remainingBounties = bountyBudget]
      BY DEF LockTreasury, rent
    <2> HIDE DEF receiptBudget, bountyBudget
    <2>3. QED
      BY <1>1, <1>2, <2>1, <2>2 DEF TypeOK, TemplateType
  <1>7. boxMint' \in [supply : Nat, authority : {"template", "nobody"}]
    BY DEF TypeOK, LockTreasury
  <1>8. QED
    BY <1>5, <1>6, <1>7 DEF TypeOK, LockTreasury, adminVars

LEMMA RequestTypeOK ==
  ASSUME TypeOK, NEW r \in Randomness, RequestTemplateOpen(r)
  PROVE  TypeOK'
  <1>1. /\ template.nextRequest \in Nat /\ template.nextRequest + 1 \in Nat
        /\ template.pendingOpenings + 1 \in Nat
        /\ template.revision \in Nat
        /\ template.bundleCount \in 0 .. MaxBundles
    BY TypedTemplate
  <1>2. boxMint.supply - 1 \in Nat
    BY TypedTemplate DEF RequestTemplateOpen
  <1>3. template' \in TemplateType
    BY <1>1 DEF TypeOK, RequestTemplateOpen, TemplateType
  <1>4. opening' \in [Randomness -> OpeningType]
    <2> DEFINE fresh == [NoOpening EXCEPT !.status = "committed",
                                          !.sequence = template.nextRequest,
                                          !.revision = template.revision,
                                          !.eligible = template.bundleCount]
    <2>1. fresh \in OpeningType
      BY <1>1, BlankRecords DEF OpeningType
    <2>2. opening' = [opening EXCEPT ![r] = fresh]
      BY DEF RequestTemplateOpen
    <2> HIDE DEF fresh
    <2>3. QED
      BY <2>1, <2>2 DEF TypeOK
  <1>5. boxMint' \in [supply : Nat, authority : {"template", "nobody"}]
    BY <1>2 DEF TypeOK, RequestTemplateOpen
  <1>6. QED
    BY <1>3, <1>4, <1>5 DEF TypeOK, RequestTemplateOpen, adminVars, serviceVars

-----------------------------------------------------------------------------
(* Openings, claims and recovery.                                          *)

LEMMA RequiredIsNat ==
  ASSUME NEW t \in TemplateType
  PROVE  RequiredServiceBalance(t) \in Nat
  <1>1. /\ t.receiptRent \in Nat /\ t.remainingReceipts \in Nat
        /\ t.settlementBounty \in Nat /\ t.remainingBounties \in Nat
    BY DEF TemplateType
  <1>2. QED
    BY <1>1 DEF RequiredServiceBalance

LEMMA BountyTypeOK ==
  ASSUME TypeOK, NEW t \in TemplateType, PaySettlementBounty(t)
  PROVE  template' \in TemplateType /\ vault' \in Nat
  <1> DEFINE paid == [t EXCEPT !.remainingBounties = @ - 1]
  <1>1. CASE t.settlementBounty = 0
    BY <1>1 DEF PaySettlementBounty, TypeOK
  <1>2. CASE t.settlementBounty # 0
    <2>1. t.remainingBounties > 0 /\ t.remainingBounties \in Nat
      BY <1>2 DEF PaySettlementBounty, TemplateType
    <2>2. t.remainingBounties - 1 \in Nat
      BY <2>1
    <2>3. paid \in TemplateType
      BY <2>2 DEF TemplateType
    <2>4. /\ template' = paid
          /\ vault' = vault - t.settlementBounty
          /\ vault - t.settlementBounty >= RequiredServiceBalance(paid)
      BY <1>2 DEF PaySettlementBounty
    <2>5. t.settlementBounty \in Nat /\ vault \in Nat
      BY DEF TypeOK, TemplateType
    <2> HIDE DEF paid
    <2>6. RequiredServiceBalance(paid) \in Nat
      BY <2>3, RequiredIsNat
    <2>7. QED
      BY <2>3, <2>4, <2>5, <2>6
  <1>3. QED
    BY <1>1, <1>2

LEMMA FulfillTypeOK ==
  ASSUME TypeOK, NEW r \in Randomness, NEW e \in Entropy, FulfillTemplateOpen(r, e)
  PROVE  TypeOK'
  <1>1. template' \in TemplateType /\ vault' \in Nat
    BY BountyTypeOK DEF FulfillTemplateOpen, TypeOK
  <1>2. opening' \in [Randomness -> OpeningType]
    <2> DEFINE verified == [opening[r] EXCEPT !.status = "verified",
                                              !.revealed = TRUE, !.entropy = e]
    <2>1. verified \in OpeningType
      BY TypedOpening DEF OpeningType
    <2>2. opening' = [opening EXCEPT ![r] = verified]
      BY DEF FulfillTemplateOpen
    <2> HIDE DEF verified
    <2>3. QED
      BY <2>1, <2>2 DEF TypeOK
  <1>3. QED
    BY <1>1, <1>2 DEF TypeOK, FulfillTemplateOpen, adminVars

LEMMA ForfeitTypeOK ==
  ASSUME TypeOK, NEW r \in Randomness, ForfeitTemplateOpen(r)
  PROVE  TypeOK'
  <1>1. template.pendingOpenings - 1 \in Nat /\ template.nextAllocation + 1 \in Nat
    BY TypedTemplate DEF ForfeitTemplateOpen
  <1>2. RecordForfeit(template) \in TemplateType
    BY <1>1 DEF TypeOK, RecordForfeit, TemplateType
  <1>3. template' \in TemplateType /\ vault' \in Nat
    BY <1>2, BountyTypeOK DEF ForfeitTemplateOpen
  <1>4. opening' \in [Randomness -> OpeningType]
    BY TypedOpening, ZenonT(40) DEF ForfeitTemplateOpen, TypeOK, OpeningType
  <1>5. QED
    BY <1>3, <1>4 DEF TypeOK, ForfeitTemplateOpen, adminVars

LEMMA AllocateTypeOK ==
  ASSUME TypeOK, NEW r \in Randomness, NEW b \in BundleIndex, AllocateTemplateOpen(r, b)
  PROVE  TypeOK'
  <1> DEFINE t == Drawn(template)
             paid == [t EXCEPT !.remainingReceipts = @ - 1]
  <1>1. /\ template.remainingBundles - 1 \in Nat
        /\ template.pendingOpenings - 1 \in Nat
        /\ template.nextAllocation + 1 \in Nat
    BY TypedTemplate DEF AllocateTemplateOpen
  <1>2. t \in TemplateType
    BY <1>1 DEF TypeOK, Drawn, TemplateType
  <1> HIDE DEF t
  <1>3. IssueReceipt(t, r, b)
    BY DEF AllocateTemplateOpen, t
  <1>4. /\ template' \in TemplateType
        /\ vault' \in Nat
        /\ receipts' \in SUBSET ReceiptType
    <2>1. CASE ~t.receiptsEnabled
      BY <1>2, <1>3, <2>1 DEF IssueReceipt, TypeOK, serviceVars
    <2>2. CASE t.receiptsEnabled
      <3>1. /\ t.remainingReceipts > 0
            /\ template' = paid
            /\ vault' = vault - t.receiptRent
            /\ vault - t.receiptRent >= RequiredServiceBalance(paid)
            /\ receipts' = receipts \cup {Receipt(r, b)}
        BY <1>3, <2>2 DEF IssueReceipt
      <3>2. t.remainingReceipts - 1 \in Nat /\ t.receiptRent \in Nat
        BY <1>2, <3>1 DEF TemplateType
      <3>3. paid \in TemplateType
        BY <1>2, <3>2 DEF TemplateType
      <3> HIDE DEF paid
      <3>4. RequiredServiceBalance(paid) \in Nat
        BY <3>3, RequiredIsNat
      <3>5. vault' \in Nat
        BY <3>1, <3>2, <3>4, TypedTemplate
      <3>6. Receipt(r, b) \in ReceiptType
        BY TypedOpening DEF Receipt, ReceiptType
      <3>7. QED
        BY <3>1, <3>3, <3>5, <3>6 DEF TypeOK
    <2>3. QED
      BY <2>1, <2>2
  <1>5. remaining' \in [BundleIndex -> Nat]
    BY TypedBundle DEF AllocateTemplateOpen, TypeOK
  <1>6. opening' \in [Randomness -> OpeningType]
    <2> DEFINE after == [opening[r] EXCEPT !.status = "allocated", !.selected = b]
    <2>1. after \in OpeningType
      BY TypedOpening DEF OpeningType
    <2>2. opening' = [opening EXCEPT ![r] = after]
      BY DEF AllocateTemplateOpen
    <2> HIDE DEF after
    <2>3. QED
      BY <2>1, <2>2 DEF TypeOK
  <1>7. QED
    BY <1>4, <1>5, <1>6 DEF TypeOK, AllocateTemplateOpen, adminVars

LEMMA ReleaseType ==
  ASSUME NEW a \in AssetType, NEW copies \in Nat, NEW value \in Nat,
         a.held >= value
  PROVE  /\ Release(a, copies, value) \in AssetType
         /\ Reclaim(a, copies, value) \in AssetType
  <1>1. a.claimed + copies \in Nat /\ a.held - value \in Nat
    BY DEF AssetType
  <1>2. Release(a, copies, value) \in AssetType
    BY <1>1 DEF Release, AssetType
  <1>3. QED
    BY <1>2 DEF Reclaim, AssetType

LEMMA ClaimTypeOK ==
  ASSUME TypeOK, NEW r \in Randomness, NEW s \in SlotIndex, Claim(r, s)
  PROVE  TypeOK'
  <1> DEFINE b == opening[r].selected
             a == asset[b][s]
  <1>1. b \in BundleIndex /\ a \in AssetType /\ a.amount \in Nat /\ a.held \in Nat
    BY TypedOpening, TypedAsset
  <1>2. RecordClaim(r, s)
    BY DEF Claim, ClaimSolPrize, ClaimTokenPrize, ClaimMintPrize
  <1>3. opening' \in [Randomness -> OpeningType]
    <2> DEFINE claimed == opening[r].claimed \cup {s}
               status == IF claimed = 0 .. bundle[b].assetCount - 1
                           THEN "delivered" ELSE opening[r].status
               after == [opening[r] EXCEPT !.claimed = claimed, !.status = status]
    <2>1. claimed \in SUBSET SlotIndex
      BY TypedOpening
    <2>2. status \in {"allocated", "delivered"}
      BY <1>2 DEF RecordClaim
    <2>3. opening' = [opening EXCEPT ![r] = after]
      BY <1>2 DEF RecordClaim
    <2> HIDE DEF claimed, status
    <2>4. after \in OpeningType
      BY <2>1, <2>2, TypedOpening DEF OpeningType
    <2> HIDE DEF after
    <2>5. QED
      BY <2>3, <2>4 DEF TypeOK
  <1>4. \E value \in Nat : /\ a.held >= value
                           /\ asset' = [asset EXCEPT ![b][s] = Release(a, 1, value)]
    <2>1. CASE ClaimSolPrize(r, s)
      <3>1. a.claimed + 1 \in Nat /\ a.claimed < bundle[b].quantity
        BY <1>1, <1>2, TypedAsset DEF RecordClaim
      <3>2. bundle[b].quantity - (a.claimed + 1) \in Nat
        BY <1>1, <3>1, TypedBundle, TypedAsset
      <3>3. Owed(b, s, a.claimed + 1) \in Nat
        BY <1>1, <3>2 DEF Owed
      <3>4. a.held - a.amount >= Owed(b, s, a.claimed + 1)
        BY <2>1 DEF ClaimSolPrize
      <3>5. a.held >= a.amount
        BY <1>1, <3>3, <3>4
      <3>6. QED
        BY <1>1, <2>1, <3>5 DEF ClaimSolPrize
    <2>2. CASE ClaimTokenPrize(r, s)
      BY <1>1, <2>2 DEF ClaimTokenPrize
    <2>3. CASE ClaimMintPrize(r, s)
      <3>1. asset' = [asset EXCEPT ![b][s] = Release(a, 1, 0)] /\ a.held >= 0
        BY <1>1, <2>3 DEF ClaimMintPrize
      <3>2. QED
        BY <3>1
    <2>4. QED
      BY <2>1, <2>2, <2>3 DEF Claim
  <1>5. asset' \in [BundleIndex -> [SlotIndex -> AssetType]]
    <2>1. PICK value \in Nat : /\ a.held >= value
                               /\ asset' = [asset EXCEPT ![b][s] = Release(a, 1, value)]
      BY <1>4
    <2>2. Release(a, 1, value) \in AssetType
      BY <1>1, <2>1, ReleaseType
    <2>3. QED
      BY <1>1, <2>1, <2>2 DEF TypeOK
  <1>6. badge' \in [Badges -> {Creator, Revoked} \cup {Held(i) : i \in BundleIndex}]
    BY DEF Claim, ClaimSolPrize, ClaimTokenPrize, ClaimMintPrize, TypeOK
  <1>7. QED
    BY <1>2, <1>3, <1>5, <1>6 DEF RecordClaim, TypeOK, serviceVars

LEMMA RetireTypeOK ==
  ASSUME TypeOK, RetireTemplate
  PROVE  TypeOK'
  <1>1. template' \in TemplateType
    BY DEF TypeOK, RetireTemplate, TemplateType
  <1>2. QED
    BY <1>1 DEF TypeOK, RetireTemplate, adminVars, serviceVars

LEMMA ReclaimTypeOK ==
  ASSUME TypeOK, NEW i \in BundleIndex, NEW s \in SlotIndex,
         ReclaimSolPrize(i, s) \/ ReclaimTokenPrize(i, s) \/ ReclaimMintPrize(i, s)
  PROVE  TypeOK'
  <1> DEFINE a == asset[i][s]
             n == Unused(i)
  <1>1. /\ a \in AssetType /\ a.amount \in Nat /\ a.held \in Nat /\ a.claimed \in Nat
        /\ bundle[i].quantity \in Nat
    BY TypedAsset, TypedBundle
  <1>2. n \in Nat
    BY TypedBundle DEF Unused
  <1> HIDE DEF n
  <1>3. ReclaimAllowed(i, s)
    BY DEF ReclaimSolPrize, ReclaimTokenPrize, ReclaimMintPrize
  <1>4. a.amount * n \in Nat
    BY <1>1, <1>2
  <1>5. \E value \in Nat : /\ a.held >= value
                           /\ asset' = [asset EXCEPT ![i][s] = Reclaim(a, n, value)]
    <2>1. CASE ReclaimSolPrize(i, s)
      <3>1. a.claimed + n <= bundle[i].quantity
        BY <1>3 DEF ReclaimAllowed, n
      <3>2. bundle[i].quantity - (a.claimed + n) \in Nat
        BY <1>1, <1>2, <3>1
      <3>3. Owed(i, s, a.claimed + n) \in Nat
        BY <1>1, <3>2 DEF Owed
      <3>4. a.held - a.amount * n >= Owed(i, s, a.claimed + n)
        BY <2>1 DEF ReclaimSolPrize, n
      <3>5. a.held >= a.amount * n
        BY <1>1, <1>4, <3>3, <3>4
      <3>6. asset' = [asset EXCEPT ![i][s] = Reclaim(a, n, a.amount * n)]
        BY <2>1 DEF ReclaimSolPrize, n
      <3>7. QED
        BY <1>4, <3>5, <3>6
    <2>2. CASE ReclaimTokenPrize(i, s)
      <3>1. /\ a.held >= a.amount * n
            /\ asset' = [asset EXCEPT ![i][s] = Reclaim(a, n, a.amount * n)]
        BY <2>2 DEF ReclaimTokenPrize, n
      <3>2. QED
        BY <1>4, <3>1
    <2>3. CASE ReclaimMintPrize(i, s)
      <3>1. asset' = [asset EXCEPT ![i][s] = Reclaim(a, n, 0)] /\ a.held >= 0
        BY <1>1, <2>3 DEF ReclaimMintPrize, n
      <3>2. QED
        BY <3>1
    <2>4. QED
      BY <2>1, <2>2, <2>3
  <1>6. asset' \in [BundleIndex -> [SlotIndex -> AssetType]]
    <2>1. PICK value \in Nat : /\ a.held >= value
                               /\ asset' = [asset EXCEPT ![i][s] = Reclaim(a, n, value)]
      BY <1>5
    <2>2. Reclaim(a, n, value) \in AssetType
      BY <1>1, <1>2, <2>1, ReleaseType
    <2>3. QED
      BY <2>1, <2>2 DEF TypeOK
  <1>7. badge' \in [Badges -> {Creator, Revoked} \cup {Held(j) : j \in BundleIndex}]
    BY DEF ReclaimSolPrize, ReclaimTokenPrize, ReclaimMintPrize, TypeOK
  <1>8. QED
    BY <1>3, <1>6, <1>7 DEF ReclaimAllowed, TypeOK, serviceVars

LEMMA CloseTypeOK ==
  ASSUME TypeOK,
         (\E r \in Randomness : CloseTemplateOpening(r)) \/ CloseServiceVault
  PROVE  TypeOK'
  <1>1. ASSUME NEW r \in Randomness, CloseTemplateOpening(r)
        PROVE  TypeOK'
    BY <1>1, BlankRecords DEF TypeOK, CloseTemplateOpening, adminVars, serviceVars
  <1>2. CASE CloseServiceVault
    BY <1>2 DEF TypeOK, CloseServiceVault, adminVars
  <1>3. QED
    BY <1>1, <1>2

LEMMA EnvironmentTypeOK ==
  ASSUME TypeOK, AdvanceClock \/ AdvanceSlot \/ BurnBox \/ WoundUp \/ UNCHANGED vars
  PROVE  TypeOK'
  <1>1. CASE AdvanceClock
    BY <1>1, TypedTemplate, BoundsAssumption
       DEF TypeOK, AdvanceClock, adminVars, serviceVars
  <1>2. CASE AdvanceSlot
    <2>1. ASSUME NEW r \in Randomness, Waiting(r)
          PROVE  [opening[r] EXCEPT !.age = @ + 1] \in OpeningType
      <3>1. opening[r].age + 1 \in 0 .. Timeout
        BY <2>1, TypedOpening, BoundsAssumption DEF Waiting
      <3>2. QED
        BY <3>1, TypedOpening DEF OpeningType
    <2>2. opening' \in [Randomness -> OpeningType]
      BY <1>2, <2>1, TypedOpening DEF AdvanceSlot
    <2>3. QED
      BY <1>2, <2>2 DEF TypeOK, AdvanceSlot, adminVars, serviceVars
  <1>3. CASE BurnBox
    <2>1. boxMint.supply - 1 \in Nat
      BY <1>3, TypedTemplate DEF BurnBox
    <2>2. boxMint' \in [supply : Nat, authority : {"template", "nobody"}]
      BY <1>3, <2>1 DEF TypeOK, BurnBox
    <2>3. QED
      BY <1>3, <2>2 DEF TypeOK, BurnBox, adminVars, serviceVars
  <1>4. CASE WoundUp \/ UNCHANGED vars
    BY <1>4 DEF TypeOK, WoundUp, vars
  <1>5. QED
    BY <1>1, <1>2, <1>3, <1>4

LEMMA NextTypeOK == TypeOK /\ [Next]_vars => TypeOK'
  <1> SUFFICES ASSUME TypeOK, [Next]_vars PROVE TypeOK'
    OBVIOUS
  <1>1. CASE Staging
    <2> USE TypeOK
    <2>1. ASSUME NEW q \in Quantities, NEW n \in 1 .. MaxAssets, AddBundle(q, n)
          PROVE  TypeOK'
      BY <2>1, AddBundleTypeOK
    <2>2. ASSUME NEW i \in BundleIndex, NEW p \in Prizes,
                 FundSolPrize(i, p) \/ FundTokenPrize(i, p) \/ FundMintPrize(i, p)
          PROVE  TypeOK'
      BY <2>2, FundTypeOK
    <2>3. ASSUME NEW i \in BundleIndex, ActivateBundle(i) \/ CancelBundle(i)
          PROVE  TypeOK'
      BY <2>3, ActivateTypeOK, CancelTypeOK
    <2>4. ASSUME NEW n \in 1 .. MaxTickets, MintTemplateBoxes(n)
          PROVE  TypeOK'
      BY <2>4, MintTypeOK
    <2>5. QED
      BY <1>1, <2>1, <2>2, <2>3, <2>4, SealTypeOK, LockTypeOK DEF Staging
  <1>2. CASE Opening
    <2>1. PICK r \in Randomness :
            \/ RequestTemplateOpen(r)
            \/ \E e \in Entropy : FulfillTemplateOpen(r, e)
            \/ ForfeitTemplateOpen(r)
            \/ \E b \in BundleIndex : AllocateTemplateOpen(r, b)
            \/ \E s \in SlotIndex : Claim(r, s)
            \/ CloseTemplateOpening(r)
      BY <1>2 DEF Opening
    <2>2. QED
      BY <2>1, RequestTypeOK, FulfillTypeOK, ForfeitTypeOK, AllocateTypeOK,
         ClaimTypeOK, CloseTypeOK
  <1>3. CASE Recovery
    BY <1>3, RetireTypeOK, ReclaimTypeOK, CloseTypeOK DEF Recovery
  <1>4. CASE AdvanceClock \/ AdvanceSlot \/ BurnBox \/ WoundUp \/ UNCHANGED vars
    BY <1>4, EnvironmentTypeOK
  <1>5. QED
    BY <1>1, <1>2, <1>3, <1>4 DEF Next

\* Every variable keeps its type: counters never pass below zero, the number
\* of tickets stays within MAX_TOTAL_WEIGHT, an opening never waits longer
\* than the timeout is counted.
THEOREM TypeCorrect == Spec => []TypeOK
  BY InitTypeOK, NextTypeOK, PTL DEF Spec

-----------------------------------------------------------------------------
(* What the steps keep.                                                    *)

HIDE DEF BundleIndex, SlotIndex

\* A settlement bounty touches one field of the template it is given.
LEMMA BountyKeeps ==
  ASSUME NEW t \in TemplateType, PaySettlementBounty(t)
  PROVE  /\ template'.pendingOpenings = t.pendingOpenings
         /\ template'.nextRequest = t.nextRequest
         /\ template'.nextAllocation = t.nextAllocation
         /\ template'.remainingBundles = t.remainingBundles
         /\ template'.totalBundles = t.totalBundles
         /\ template'.bundleCount = t.bundleCount
         /\ template'.status = t.status
         /\ template'.lockedAt = t.lockedAt
         /\ template'.receiptsEnabled = t.receiptsEnabled
         /\ template'.settlementBounty = t.settlementBounty
         /\ template'.receiptRent = t.receiptRent
         /\ template'.remainingReceipts = t.remainingReceipts
  <1>1. template' = t \/ template' = [t EXCEPT !.remainingBounties = @ - 1]
    BY DEF PaySettlementBounty
  <1>2. QED
    BY <1>1 DEF TemplateType

\* So does a receipt.
LEMMA ReceiptKeeps ==
  ASSUME NEW t \in TemplateType, NEW r, NEW b, IssueReceipt(t, r, b)
  PROVE  /\ template'.pendingOpenings = t.pendingOpenings
         /\ template'.nextRequest = t.nextRequest
         /\ template'.nextAllocation = t.nextAllocation
         /\ template'.remainingBundles = t.remainingBundles
         /\ template'.totalBundles = t.totalBundles
         /\ template'.bundleCount = t.bundleCount
         /\ template'.status = t.status
         /\ template'.lockedAt = t.lockedAt
         /\ template'.receiptsEnabled = t.receiptsEnabled
         /\ template'.settlementBounty = t.settlementBounty
         /\ template'.receiptRent = t.receiptRent
         /\ template'.remainingBounties = t.remainingBounties
  <1>1. template' = t \/ template' = [t EXCEPT !.remainingReceipts = @ - 1]
    BY DEF IssueReceipt
  <1>2. QED
    BY <1>1 DEF TemplateType

\* The effect of a forfeit and of a draw on the counters.
LEMMA ForfeitEffect ==
  ASSUME TypeOK, template.pendingOpenings > 0
  PROVE  /\ RecordForfeit(template) \in TemplateType
         /\ RecordForfeit(template).pendingOpenings = template.pendingOpenings - 1
         /\ RecordForfeit(template).nextAllocation = template.nextAllocation + 1
         /\ RecordForfeit(template).nextRequest = template.nextRequest
         /\ RecordForfeit(template).remainingBundles = template.remainingBundles
         /\ RecordForfeit(template).totalBundles = template.totalBundles
         /\ RecordForfeit(template).bundleCount = template.bundleCount
         /\ RecordForfeit(template).status = template.status
         /\ RecordForfeit(template).lockedAt = template.lockedAt
         /\ RecordForfeit(template).receiptsEnabled = template.receiptsEnabled
         /\ RecordForfeit(template).settlementBounty = template.settlementBounty
         /\ RecordForfeit(template).receiptRent = template.receiptRent
         /\ RecordForfeit(template).remainingReceipts = template.remainingReceipts
         /\ RecordForfeit(template).remainingBounties = template.remainingBounties
  <1>1. template.pendingOpenings - 1 \in Nat /\ template.nextAllocation + 1 \in Nat
    BY TypedTemplate
  <1>2. RecordForfeit(template) \in TemplateType
    BY <1>1 DEF TypeOK, TemplateType, RecordForfeit
  <1>3. QED
    BY <1>2 DEF TypeOK, TemplateType, RecordForfeit

LEMMA DrawEffect ==
  ASSUME TypeOK, template.pendingOpenings > 0, template.remainingBundles > 0
  PROVE  /\ Drawn(template) \in TemplateType
         /\ Drawn(template).pendingOpenings = template.pendingOpenings - 1
         /\ Drawn(template).nextAllocation = template.nextAllocation + 1
         /\ Drawn(template).nextRequest = template.nextRequest
         /\ Drawn(template).remainingBundles = template.remainingBundles - 1
         /\ Drawn(template).totalBundles = template.totalBundles
         /\ Drawn(template).bundleCount = template.bundleCount
         /\ Drawn(template).status = template.status
         /\ Drawn(template).lockedAt = template.lockedAt
         /\ Drawn(template).receiptsEnabled = template.receiptsEnabled
         /\ Drawn(template).settlementBounty = template.settlementBounty
         /\ Drawn(template).receiptRent = template.receiptRent
         /\ Drawn(template).remainingReceipts = template.remainingReceipts
         /\ Drawn(template).remainingBounties = template.remainingBounties
  <1>1. /\ template.pendingOpenings - 1 \in Nat
        /\ template.nextAllocation + 1 \in Nat
        /\ template.remainingBundles - 1 \in Nat
    BY TypedTemplate
  <1>2. Drawn(template) \in TemplateType
    BY <1>1 DEF TypeOK, TemplateType, Drawn
  <1>3. QED
    BY <1>2 DEF TypeOK, TemplateType, Drawn

\* The steps that touch neither a counter of the queue, nor the tickets, nor
\* the supply of boxes: all of staging but activation and minting, the lock,
\* claims, recovery, and the environment but for a burned box.
QuietStaging ==
  \/ \E q \in Quantities, n \in 1 .. MaxAssets : AddBundle(q, n)
  \/ \E i \in BundleIndex, p \in Prizes :
       FundSolPrize(i, p) \/ FundTokenPrize(i, p) \/ FundMintPrize(i, p)
  \/ \E i \in BundleIndex : CancelBundle(i)
  \/ SealTemplate
QuietOpening ==
  \E r \in Randomness :
    (\E s \in SlotIndex : Claim(r, s)) \/ CloseTemplateOpening(r)
QuietRest == Recovery \/ AdvanceClock \/ AdvanceSlot \/ WoundUp \/ UNCHANGED vars

LEMMA QuietCounters ==
  ASSUME TypeOK, QuietStaging \/ LockTreasury \/ QuietOpening \/ QuietRest
  PROVE  /\ template'.pendingOpenings = template.pendingOpenings
         /\ template'.nextRequest = template.nextRequest
         /\ template'.nextAllocation = template.nextAllocation
         /\ template'.remainingBundles = template.remainingBundles
         /\ boxMint'.supply = boxMint.supply
  <1>1. CASE QuietStaging
    <2>1. CASE SealTemplate
      BY <2>1 DEF SealTemplate, TypeOK, TemplateType
    <2>2. CASE UNCHANGED <<template, boxMint>>
      BY <2>2
    <2>3. QED
      BY <1>1, <2>1, <2>2, ZenonT(40)
         DEF QuietStaging, AddBundle, FundSolPrize, FundTokenPrize, FundMintPrize,
             RecordPrize, CancelBundle
  <1>2. CASE LockTreasury
    <2>1. boxMint'.supply = boxMint.supply
      BY <1>2 DEF LockTreasury, TypeOK
    <2>2. /\ template'.pendingOpenings = template.pendingOpenings
          /\ template'.nextRequest = template.nextRequest
          /\ template'.nextAllocation = template.nextAllocation
          /\ template'.remainingBundles = template.remainingBundles
      BY <1>2 DEF LockTreasury, TypeOK, TemplateType
    <2>3. QED
      BY <2>1, <2>2
  <1>3. CASE QuietOpening
    <2>1. PICK r \in Randomness :
            (\E s \in SlotIndex : Claim(r, s)) \/ CloseTemplateOpening(r)
      BY <1>3 DEF QuietOpening
    <2>2. ASSUME NEW s \in SlotIndex, Claim(r, s)
          PROVE  UNCHANGED <<template, boxMint>>
      <3>1. RecordClaim(r, s)
        BY <2>2 DEF Claim, ClaimSolPrize, ClaimTokenPrize, ClaimMintPrize
      <3>2. QED
        BY <3>1 DEF RecordClaim
    <2>3. CASE CloseTemplateOpening(r)
      BY <2>3 DEF CloseTemplateOpening
    <2>4. QED
      BY <2>1, <2>2, <2>3
  <1>4. CASE QuietRest
    <2>1. CASE RetireTemplate
      BY <2>1 DEF RetireTemplate, TypeOK, TemplateType
    <2>2. CASE UNCHANGED <<template, boxMint>>
      BY <2>2
    <2>3. QED
      BY <1>4, <2>1, <2>2, ZenonT(40)
         DEF QuietRest, Recovery, ReclaimSolPrize, ReclaimTokenPrize, ReclaimMintPrize,
             ReclaimAllowed, CloseServiceVault, AdvanceClock, AdvanceSlot, WoundUp, vars
  <1>5. QED
    BY <1>1, <1>2, <1>3, <1>4

\* The disjuncts of Next, the quiet ones together.
LEMMA NextCases ==
  ASSUME [Next]_vars
  PROVE  \/ QuietStaging
         \/ LockTreasury
         \/ \E i \in BundleIndex : ActivateBundle(i)
         \/ \E n \in 1 .. MaxTickets : MintTemplateBoxes(n)
         \/ \E r \in Randomness : RequestTemplateOpen(r)
         \/ \E r \in Randomness, e \in Entropy : FulfillTemplateOpen(r, e)
         \/ \E r \in Randomness : ForfeitTemplateOpen(r)
         \/ \E r \in Randomness, b \in BundleIndex : AllocateTemplateOpen(r, b)
         \/ QuietOpening
         \/ QuietRest
         \/ BurnBox
  <1>1. CASE Staging
    BY <1>1 DEF Staging, QuietStaging
  <1>2. CASE Opening
    BY <1>2 DEF Opening, QuietOpening
  <1>3. CASE Recovery \/ AdvanceClock \/ AdvanceSlot \/ WoundUp \/ UNCHANGED vars
    BY <1>3 DEF QuietRest
  <1>4. QED
    BY <1>1, <1>2, <1>3 DEF Next

-----------------------------------------------------------------------------
(* Solvency.                                                               *)

LEMMA SolventStep == TypeOK /\ Solvent /\ [Next]_vars => Solvent'
  <1> SUFFICES ASSUME TypeOK, Solvent, [Next]_vars PROVE Solvent'
    OBVIOUS
  <1> DEFINE supply == boxMint.supply
             pending == template.pendingOpenings
             tickets == template.remainingBundles
  <1>1. supply \in Nat /\ pending \in Nat /\ tickets \in Nat
    BY TypedTemplate
  <1>2. supply + pending <= tickets
    BY DEF Solvent
  <1>3. CASE QuietStaging \/ LockTreasury \/ QuietOpening \/ QuietRest
    BY <1>2, <1>3, QuietCounters DEF Solvent
  <1>4. ASSUME NEW i \in BundleIndex, ActivateBundle(i) PROVE Solvent'
    <2>1. boxMint' = boxMint /\ template'.pendingOpenings = pending
      BY <1>4 DEF ActivateBundle, TypeOK, TemplateType
    <2>2. template'.remainingBundles = tickets + bundle[i].quantity
      BY <1>4 DEF ActivateBundle, TypeOK, TemplateType
    <2>3. QED
      BY <1>1, <1>2, <2>1, <2>2, TypedBundle DEF Solvent
  <1>5. ASSUME NEW n \in 1 .. MaxTickets, MintTemplateBoxes(n) PROVE Solvent'
    <2>1. boxMint'.supply = supply + n
      BY <1>5 DEF MintTemplateBoxes, TypeOK
    <2>2. template'.pendingOpenings = pending /\ template'.remainingBundles = tickets
      BY <1>5 DEF MintTemplateBoxes, TypeOK, TemplateType
    <2>3. supply + pending + n <= tickets
      BY <1>5 DEF MintTemplateBoxes, IssuanceCovered
    <2>4. n \in Nat
      BY BoundsAssumption
    <2>5. QED
      BY <1>1, <2>1, <2>2, <2>3, <2>4 DEF Solvent
  <1>6. ASSUME NEW r \in Randomness, RequestTemplateOpen(r) PROVE Solvent'
    <2>1. boxMint'.supply = supply - 1
      BY <1>6 DEF RequestTemplateOpen, TypeOK
    <2>2. /\ template'.pendingOpenings = pending + 1
          /\ template'.remainingBundles = tickets
      BY <1>6 DEF RequestTemplateOpen, TypeOK, TemplateType
    <2>3. QED
      BY <1>1, <1>2, <2>1, <2>2 DEF Solvent
  <1>7. ASSUME NEW r \in Randomness, NEW e \in Entropy, FulfillTemplateOpen(r, e)
        PROVE  Solvent'
    <2>1. PaySettlementBounty(template) /\ boxMint' = boxMint
      BY <1>7 DEF FulfillTemplateOpen
    <2>2. template \in TemplateType
      BY DEF TypeOK
    <2>3. QED
      BY <1>2, <2>1, <2>2, BountyKeeps DEF Solvent
  <1>8. ASSUME NEW r \in Randomness, ForfeitTemplateOpen(r) PROVE Solvent'
    <2>1. /\ template.pendingOpenings > 0
          /\ PaySettlementBounty(RecordForfeit(template))
          /\ boxMint' = boxMint
      BY <1>8 DEF ForfeitTemplateOpen
    <2>2. /\ template'.pendingOpenings = pending - 1
          /\ template'.remainingBundles = tickets
      BY <2>1, BountyKeeps, ForfeitEffect
    <2>3. QED
      BY <1>1, <1>2, <2>1, <2>2 DEF Solvent
  <1>9. ASSUME NEW r \in Randomness, NEW b \in BundleIndex, AllocateTemplateOpen(r, b)
        PROVE  Solvent'
    <2>1. /\ template.pendingOpenings > 0
          /\ template.remainingBundles > 0
          /\ IssueReceipt(Drawn(template), r, b)
          /\ boxMint' = boxMint
      BY <1>9 DEF AllocateTemplateOpen
    <2>2. /\ template'.pendingOpenings = pending - 1
          /\ template'.remainingBundles = tickets - 1
      BY <2>1, ReceiptKeeps, DrawEffect
    <2>3. QED
      BY <1>1, <1>2, <2>1, <2>2 DEF Solvent
  <1>10. CASE BurnBox
    <2>1. boxMint'.supply = supply - 1 /\ template' = template
      BY <1>10 DEF BurnBox, TypeOK
    <2>2. QED
      BY <1>1, <1>2, <2>1 DEF Solvent
  <1>11. QED
    BY <1>3, <1>4, <1>5, <1>6, <1>7, <1>8, <1>9, <1>10, NextCases

\* However boxes are minted, burned, opened, drawn and forfeited, a ticket
\* remains for each box and for each opening that waits, so the check for
\* insolvency in RequestTemplateOpen never turns a holder away.
THEOREM AlwaysSolvent == Spec => []Solvent
  <1>1. Init => Solvent
    BY DEF Init, Solvent
  <1>2. QED
    BY <1>1, SolventStep, TypeCorrect, PTL DEF Spec

-----------------------------------------------------------------------------
(* The queue of openings.                                                  *)

LEMMA QueueFinite == IsFiniteSet(Queued) /\ Cardinality(Queued) \in Nat
  <1>1. Queued \in SUBSET Randomness /\ IsFiniteSet(Randomness)
    BY TermsAssumption DEF Queued
  <1>2. QED
    BY <1>1, FS_Subset, FS_CardinalityType

LEMMA QueueKept ==
  ASSUME QueueExact, Queued' = Queued,
         \A r \in Queued : opening'[r].sequence = opening[r].sequence,
         template'.pendingOpenings = template.pendingOpenings,
         template'.nextRequest = template.nextRequest,
         template'.nextAllocation = template.nextAllocation
  PROVE  QueueExact'
  <1> DEFINE places == {opening[r].sequence : r \in Queued}
  <1>1. places' = places
    OBVIOUS
  <1>2. places = template.nextAllocation .. template.nextRequest - 1
    BY DEF QueueExact
  <1>3. places' = (template.nextAllocation .. template.nextRequest - 1)'
    BY <1>1, <1>2
  <1>4. \A r, q \in Queued' : opening'[r].sequence = opening'[q].sequence => r = q
    BY DEF QueueExact
  <1>5. Cardinality(Queued') = Cardinality(Queued)
    OBVIOUS
  <1>6. QED
    BY <1>3, <1>4, <1>5 DEF QueueExact

\* The head leaves.
LEMMA QueuePopped ==
  ASSUME TypeOK, QueueExact, NEW r \in Queued, AtHead(r),
         Queued' = Queued \ {r},
         \A q \in Queued' : opening'[q].sequence = opening[q].sequence,
         template'.pendingOpenings = template.pendingOpenings - 1,
         template'.nextRequest = template.nextRequest,
         template'.nextAllocation = template.nextAllocation + 1
  PROVE  QueueExact'
  <1> DEFINE first == template.nextAllocation
             next == template.nextRequest
  <1>1. first \in Nat /\ next \in Nat /\ template.pendingOpenings \in Nat
    BY TypedTemplate
  <1>2. Queued \subseteq Randomness
    BY DEF Queued
  <1>3. \A q \in Queued : opening[q].sequence \in Nat
    BY <1>2, TypedOpening
  <1>4. Cardinality(Queued') = Cardinality(Queued) - 1
    BY QueueFinite, FS_RemoveElement
  <1>5. \A q, p \in Queued' : opening'[q].sequence = opening'[p].sequence => q = p
    BY DEF QueueExact
  <1>6. {opening[q].sequence : q \in Queued} = first .. next - 1
    BY DEF QueueExact
  <1>7. \A q \in Queued' : opening[q].sequence # first
    BY DEF QueueExact, AtHead
  <1>8. {opening'[q].sequence : q \in Queued'} = (first + 1) .. next - 1
    <2>1. ASSUME NEW q \in Queued'
          PROVE  opening'[q].sequence \in (first + 1) .. next - 1
      <3>1. opening'[q].sequence \in first .. next - 1 /\ opening'[q].sequence # first
        BY <1>6, <1>7
      <3>2. QED
        BY <1>1, <3>1
    <2>2. ASSUME NEW n \in (first + 1) .. next - 1
          PROVE  \E q \in Queued' : opening'[q].sequence = n
      <3>1. n \in first .. next - 1 /\ n # first
        BY <1>1
      <3>2. PICK q \in Queued : opening[q].sequence = n
        BY <1>6, <3>1
      <3>3. q # r
        BY <3>1, <3>2 DEF AtHead
      <3>4. QED
        BY <3>2, <3>3
    <2>3. QED
      BY <2>1, <2>2
  <1>9. QED
    BY <1>1, <1>4, <1>5, <1>8 DEF QueueExact

\* A request joins at the end.
LEMMA QueuePushed ==
  ASSUME TypeOK, QueueExact, NEW r \in Randomness, r \notin Queued,
         Queued' = Queued \cup {r},
         \A q \in Queued : opening'[q].sequence = opening[q].sequence,
         opening'[r].sequence = template.nextRequest,
         template'.pendingOpenings = template.pendingOpenings + 1,
         template'.nextRequest = template.nextRequest + 1,
         template'.nextAllocation = template.nextAllocation
  PROVE  QueueExact'
  <1> DEFINE first == template.nextAllocation
             next == template.nextRequest
  <1>1. /\ first \in Nat /\ next \in Nat /\ template.pendingOpenings \in Nat
        /\ template.pendingOpenings = next - first
    BY TypedTemplate DEF QueueExact
  <1>2. first <= next
    BY <1>1
  <1>3. Cardinality(Queued') = Cardinality(Queued) + 1
    BY QueueFinite, FS_AddElement
  <1>4. {opening[q].sequence : q \in Queued} = first .. next - 1
    BY DEF QueueExact
  <1>5. \A q \in Queued : opening[q].sequence \in first .. next - 1
    BY <1>4
  <1>6. \A q \in Queued : opening[q].sequence # next
    BY <1>1, <1>5
  <1>7. \A q, p \in Queued' : opening'[q].sequence = opening'[p].sequence => q = p
    BY <1>6 DEF QueueExact
  <1>8. {opening'[q].sequence : q \in Queued'} = first .. (next + 1) - 1
    <2>1. ASSUME NEW q \in Queued' PROVE opening'[q].sequence \in first .. (next + 1) - 1
      BY <1>1, <1>2, <1>5
    <2>2. ASSUME NEW n \in first .. (next + 1) - 1
          PROVE  \E q \in Queued' : opening'[q].sequence = n
      <3>1. CASE n = next
        BY <3>1
      <3>2. CASE n # next
        <4>1. n \in first .. next - 1
          BY <1>1, <3>2
        <4>2. PICK q \in Queued : opening[q].sequence = n
          BY <1>4, <4>1
        <4>3. QED
          BY <4>2
      <3>3. QED
        BY <3>1, <3>2
    <2>3. QED
      BY <2>1, <2>2
  <1>9. QED
    BY <1>1, <1>3, <1>7, <1>8 DEF QueueExact

\* Claims, closing and the passing of slots leave the queue alone.
LEMMA QuietQueue ==
  ASSUME TypeOK, QuietStaging \/ LockTreasury \/ QuietOpening \/ QuietRest
  PROVE  /\ Queued' = Queued
         /\ \A q \in Queued : opening'[q].sequence = opening[q].sequence
         /\ Committed' = Committed
  <1>1. CASE UNCHANGED opening
    BY <1>1 DEF Queued, Committed
  <1>2. CASE AdvanceSlot
    <2>1. ASSUME NEW q \in Randomness
          PROVE  /\ opening'[q].status = opening[q].status
                 /\ opening'[q].sequence = opening[q].sequence
      <3>1. opening'[q] = IF Waiting(q) THEN [opening[q] EXCEPT !.age = @ + 1]
                                        ELSE opening[q]
        BY <1>2 DEF AdvanceSlot
      <3>2. QED
        BY <3>1, TypedOpening DEF OpeningType
    <2>2. QED
      BY <2>1 DEF Queued, Committed
  <1>3. CASE QuietOpening
    <2>1. PICK r \in Randomness :
            (\E s \in SlotIndex : Claim(r, s)) \/ CloseTemplateOpening(r)
      BY <1>3 DEF QuietOpening
    <2>2. \A q \in Randomness \ {r} : opening'[q] = opening[q]
      <3>1. ASSUME NEW s \in SlotIndex, Claim(r, s)
            PROVE  \A q \in Randomness \ {r} : opening'[q] = opening[q]
        <4>1. RecordClaim(r, s)
          BY <3>1 DEF Claim, ClaimSolPrize, ClaimTokenPrize, ClaimMintPrize
        <4>2. QED
          BY <4>1 DEF RecordClaim, TypeOK
      <3>2. CASE CloseTemplateOpening(r)
        BY <3>2 DEF CloseTemplateOpening, TypeOK
      <3>3. QED
        BY <2>1, <3>1, <3>2
    <2>3. /\ opening[r].status \notin {"committed", "verified"}
          /\ opening'[r].status \notin {"committed", "verified"}
      <3>1. ASSUME NEW s \in SlotIndex, Claim(r, s)
            PROVE  /\ opening[r].status = "allocated"
                   /\ opening'[r].status \in {"allocated", "delivered"}
        <4>1. RecordClaim(r, s)
          BY <3>1 DEF Claim, ClaimSolPrize, ClaimTokenPrize, ClaimMintPrize
        <4>2. opening[r].status = "allocated"
          BY <4>1 DEF RecordClaim
        <4>3. PICK c, st : /\ opening' = [opening EXCEPT ![r].claimed = c, ![r].status = st]
                           /\ st \in {"allocated", "delivered"}
          BY <4>1, <4>2 DEF RecordClaim
        <4>4. opening'[r].status = st
          BY <4>3 DEF TypeOK, OpeningType
        <4>5. QED
          BY <4>2, <4>3, <4>4
      <3>2. CASE CloseTemplateOpening(r)
        <4>1. opening[r].status \in {"delivered", "forfeited"}
          BY <3>2 DEF CloseTemplateOpening
        <4>2. opening'[r] = NoOpening
          BY <3>2 DEF CloseTemplateOpening, TypeOK
        <4>3. QED
          BY <4>1, <4>2 DEF NoOpening
      <3>3. QED
        BY <2>1, <3>1, <3>2
    <2>4. QED
      BY <2>2, <2>3 DEF Queued, Committed
  <1>4. CASE QuietStaging
    BY <1>1, <1>4, ZenonT(40)
       DEF QuietStaging, AddBundle, FundSolPrize, FundTokenPrize, FundMintPrize,
           RecordPrize, CancelBundle, SealTemplate
  <1>5. CASE LockTreasury
    BY <1>1, <1>5 DEF LockTreasury
  <1>6. CASE QuietRest
    BY <1>1, <1>2, <1>6, ZenonT(40)
       DEF QuietRest, Recovery, RetireTemplate, ReclaimSolPrize, ReclaimTokenPrize,
           ReclaimMintPrize, ReclaimAllowed, CloseServiceVault, AdvanceClock, WoundUp, vars
  <1>7. QED
    BY <1>3, <1>4, <1>5, <1>6

\* The effect of each step of an opening on the queue.
LEMMA RequestQueue ==
  ASSUME TypeOK, NEW r \in Randomness, RequestTemplateOpen(r)
  PROVE  /\ r \notin Queued
         /\ Queued' = Queued \cup {r}
         /\ Committed' = Committed \cup {r}
         /\ \A q \in Queued : opening'[q].sequence = opening[q].sequence
         /\ opening'[r].sequence = template.nextRequest
  <1> DEFINE new == [NoOpening EXCEPT !.status = "committed",
                                      !.sequence = template.nextRequest,
                                      !.revision = template.revision,
                                      !.eligible = template.bundleCount]
  <1>1. opening[r].status = "none" /\ opening' = [opening EXCEPT ![r] = new]
    BY DEF RequestTemplateOpen
  <1>2. new.status = "committed" /\ new.sequence = template.nextRequest
    BY DEF NoOpening
  <1> HIDE DEF new
  <1>3. opening'[r] = new /\ \A q \in Randomness \ {r} : opening'[q] = opening[q]
    BY <1>1 DEF TypeOK
  <1>4. QED
    BY <1>1, <1>2, <1>3 DEF Queued, Committed

LEMMA FulfillQueue ==
  ASSUME TypeOK, NEW r \in Randomness, NEW e \in Entropy, FulfillTemplateOpen(r, e)
  PROVE  /\ Queued' = Queued
         /\ r \in Committed
         /\ Committed' = Committed \ {r}
         /\ \A q \in Queued : opening'[q].sequence = opening[q].sequence
  <1>1. /\ opening[r].status = "committed"
        /\ opening' = [opening EXCEPT ![r].status = "verified", ![r].revealed = TRUE,
                                      ![r].entropy = e]
    BY DEF FulfillTemplateOpen
  <1>2. /\ opening'[r].status = "verified"
        /\ opening'[r].sequence = opening[r].sequence
        /\ \A q \in Randomness \ {r} : opening'[q] = opening[q]
    BY <1>1 DEF TypeOK, OpeningType
  <1>3. QED
    BY <1>1, <1>2 DEF Queued, Committed

LEMMA ForfeitQueue ==
  ASSUME TypeOK, NEW r \in Randomness, ForfeitTemplateOpen(r)
  PROVE  /\ r \in Queued /\ AtHead(r)
         /\ Queued' = Queued \ {r}
         /\ r \in Committed
         /\ Committed' = Committed \ {r}
         /\ \A q \in Queued' : opening'[q].sequence = opening[q].sequence
  <1>1. /\ opening[r].status = "committed" /\ AtHead(r)
        /\ opening' = [opening EXCEPT ![r].status = "forfeited"]
    BY DEF ForfeitTemplateOpen
  <1>2. /\ opening'[r].status = "forfeited"
        /\ \A q \in Randomness \ {r} : opening'[q] = opening[q]
    BY <1>1 DEF TypeOK, OpeningType
  <1>3. QED
    BY <1>1, <1>2 DEF Queued, Committed

LEMMA AllocateQueue ==
  ASSUME TypeOK, NEW r \in Randomness, NEW b \in BundleIndex, AllocateTemplateOpen(r, b)
  PROVE  /\ r \in Queued /\ AtHead(r)
         /\ Queued' = Queued \ {r}
         /\ Committed' = Committed
         /\ \A q \in Queued' : opening'[q].sequence = opening[q].sequence
  <1>1. /\ opening[r].status = "verified" /\ AtHead(r)
        /\ opening' = [opening EXCEPT ![r].status = "allocated", ![r].selected = b]
    BY DEF AllocateTemplateOpen
  <1>2. /\ opening'[r].status = "allocated"
        /\ \A q \in Randomness \ {r} : opening'[q] = opening[q]
    BY <1>1 DEF TypeOK, OpeningType
  <1>3. QED
    BY <1>1, <1>2 DEF Queued, Committed

LEMMA QueueStep == TypeOK /\ QueueExact /\ [Next]_vars => QueueExact'
  <1> SUFFICES ASSUME TypeOK, QueueExact, [Next]_vars PROVE QueueExact'
    OBVIOUS
  <1>1. template \in TemplateType
    BY DEF TypeOK
  <1>2. CASE QuietStaging \/ LockTreasury \/ QuietOpening \/ QuietRest
    BY <1>2, QuietCounters, QuietQueue, QueueKept
  <1>3. ASSUME NEW i \in BundleIndex, ActivateBundle(i) PROVE QueueExact'
    <2>1. /\ template'.pendingOpenings = template.pendingOpenings
          /\ template'.nextRequest = template.nextRequest
          /\ template'.nextAllocation = template.nextAllocation
      BY <1>3 DEF ActivateBundle, TypeOK, TemplateType
    <2>2. opening' = opening
      BY <1>3 DEF ActivateBundle
    <2>3. Queued' = Queued
      BY <2>2 DEF Queued
    <2>4. QED
      BY <2>1, <2>2, <2>3, QueueKept
  <1>4. ASSUME NEW n \in 1 .. MaxTickets, MintTemplateBoxes(n) PROVE QueueExact'
    <2>1. /\ template'.pendingOpenings = template.pendingOpenings
          /\ template'.nextRequest = template.nextRequest
          /\ template'.nextAllocation = template.nextAllocation
      BY <1>4 DEF MintTemplateBoxes, TypeOK, TemplateType
    <2>2. opening' = opening
      BY <1>4 DEF MintTemplateBoxes
    <2>3. Queued' = Queued
      BY <2>2 DEF Queued
    <2>4. QED
      BY <2>1, <2>2, <2>3, QueueKept
  <1>5. ASSUME NEW r \in Randomness, RequestTemplateOpen(r) PROVE QueueExact'
    <2>1. /\ template'.pendingOpenings = template.pendingOpenings + 1
          /\ template'.nextRequest = template.nextRequest + 1
          /\ template'.nextAllocation = template.nextAllocation
      BY <1>5 DEF RequestTemplateOpen, TypeOK, TemplateType
    <2>2. QED
      BY <1>5, <2>1, RequestQueue, QueuePushed
  <1>6. ASSUME NEW r \in Randomness, NEW e \in Entropy, FulfillTemplateOpen(r, e)
        PROVE  QueueExact'
    <2>1. PaySettlementBounty(template)
      BY <1>6 DEF FulfillTemplateOpen
    <2>2. QED
      BY <1>1, <1>6, <2>1, BountyKeeps, FulfillQueue, QueueKept
  <1>7. ASSUME NEW r \in Randomness, ForfeitTemplateOpen(r) PROVE QueueExact'
    <2>1. template.pendingOpenings > 0 /\ PaySettlementBounty(RecordForfeit(template))
      BY <1>7 DEF ForfeitTemplateOpen
    <2>2. /\ template'.pendingOpenings = template.pendingOpenings - 1
          /\ template'.nextRequest = template.nextRequest
          /\ template'.nextAllocation = template.nextAllocation + 1
      BY <2>1, BountyKeeps, ForfeitEffect
    <2>3. QED
      BY <1>7, <2>2, ForfeitQueue, QueuePopped
  <1>8. ASSUME NEW r \in Randomness, NEW b \in BundleIndex, AllocateTemplateOpen(r, b)
        PROVE  QueueExact'
    <2>1. /\ template.pendingOpenings > 0
          /\ template.remainingBundles > 0
          /\ IssueReceipt(Drawn(template), r, b)
      BY <1>8 DEF AllocateTemplateOpen
    <2>2. /\ template'.pendingOpenings = template.pendingOpenings - 1
          /\ template'.nextRequest = template.nextRequest
          /\ template'.nextAllocation = template.nextAllocation + 1
      BY <2>1, ReceiptKeeps, DrawEffect
    <2>3. QED
      BY <1>8, <2>2, AllocateQueue, QueuePopped
  <1>9. CASE BurnBox
    <2>1. template' = template /\ opening' = opening
      BY <1>9 DEF BurnBox
    <2>2. Queued' = Queued
      BY <2>1 DEF Queued
    <2>3. QED
      BY <2>1, <2>2, QueueKept
  <1>10. QED
    BY <1>2, <1>3, <1>4, <1>5, <1>6, <1>7, <1>8, <1>9, NextCases

\* The counters of the template describe the accounts that wait: their number,
\* and their places, from next_allocation to next_request without a hole or a
\* duplicate, however often accounts are closed and their addresses reused.
THEOREM QueueAlwaysExact == Spec => []QueueExact
  <1>1. Init => QueueExact
    <2> SUFFICES ASSUME Init PROVE QueueExact
      OBVIOUS
    <2>1. Queued = {}
      BY DEF Init, Queued, NoOpening
    <2>2. /\ template.pendingOpenings = 0
          /\ template.nextRequest = 0
          /\ template.nextAllocation = 0
      BY DEF Init
    <2>3. {opening[r].sequence : r \in Queued} = {} /\ 0 .. 0 - 1 = {}
      BY <2>1
    <2>4. QED
      BY <2>1, <2>2, <2>3, FS_EmptySet DEF QueueExact
  <1>2. QED
    BY <1>1, QueueStep, TypeCorrect, PTL DEF Spec

-----------------------------------------------------------------------------
(* The service vault.                                                      *)

LEMMA OneLess ==
  ASSUME NEW a \in Nat, NEW n \in Nat
  PROVE  a * (n - 1) = a * n - a /\ a * n \in Nat
  OBVIOUS

LEMMA CommittedFinite == IsFiniteSet(Committed) /\ Cardinality(Committed) \in Nat
  <1>1. Committed \in SUBSET Randomness /\ IsFiniteSet(Randomness)
    BY TermsAssumption DEF Committed
  <1>2. QED
    BY <1>1, FS_Subset, FS_CardinalityType

\* Outside the lock, the quiet steps keep the service terms of a locked
\* template, and only the closing of the vault, with nothing open, drains it.
LEMMA QuietServices ==
  ASSUME TypeOK, QuietStaging \/ QuietOpening \/ QuietRest
  PROVE  /\ template'.lockedAt = template.lockedAt
         /\ ~Unlocked =>
              /\ template'.receiptsEnabled = template.receiptsEnabled
              /\ template'.settlementBounty = template.settlementBounty
              /\ template'.receiptRent = template.receiptRent
              /\ template'.remainingReceipts = template.remainingReceipts
              /\ template'.remainingBounties = template.remainingBounties
         /\ vault' = vault \/ NothingOutstanding
  <1>1. CASE UNCHANGED <<template, vault>>
    BY <1>1
  <1>2. CASE SealTemplate
    BY <1>2 DEF SealTemplate, TypeOK, TemplateType, serviceVars
  <1>3. CASE RetireTemplate
    BY <1>3 DEF RetireTemplate, TypeOK, TemplateType, serviceVars
  <1>4. CASE CloseServiceVault
    BY <1>4 DEF CloseServiceVault
  <1>5. CASE QuietStaging
    BY <1>1, <1>2, <1>5, ZenonT(40)
       DEF QuietStaging, AddBundle, FundSolPrize, FundTokenPrize, FundMintPrize,
           RecordPrize, CancelBundle, serviceVars
  <1>6. CASE QuietOpening
    <2>1. PICK r \in Randomness :
            (\E s \in SlotIndex : Claim(r, s)) \/ CloseTemplateOpening(r)
      BY <1>6 DEF QuietOpening
    <2>2. ASSUME NEW s \in SlotIndex, Claim(r, s)
          PROVE  UNCHANGED <<template, vault>>
      <3>1. RecordClaim(r, s)
        BY <2>2 DEF Claim, ClaimSolPrize, ClaimTokenPrize, ClaimMintPrize
      <3>2. QED
        BY <3>1 DEF RecordClaim, serviceVars
    <2>3. CASE CloseTemplateOpening(r)
      BY <2>3 DEF CloseTemplateOpening, serviceVars
    <2>4. QED
      BY <1>1, <2>1, <2>2, <2>3
  <1>7. CASE QuietRest
    <2>1. CASE Recovery
      <3>1. ASSUME NEW i \in BundleIndex, NEW s \in SlotIndex,
                   \/ ReclaimSolPrize(i, s)
                   \/ ReclaimTokenPrize(i, s)
                   \/ ReclaimMintPrize(i, s)
            PROVE  UNCHANGED <<template, vault>>
        <4>1. ReclaimAllowed(i, s)
          BY <3>1 DEF ReclaimSolPrize, ReclaimTokenPrize, ReclaimMintPrize
        <4>2. QED
          BY <4>1 DEF ReclaimAllowed, serviceVars
      <3>2. QED
        BY <1>1, <1>3, <1>4, <2>1, <3>1 DEF Recovery
    <2>2. CASE AdvanceClock \/ AdvanceSlot
      BY <1>1, <2>2 DEF AdvanceClock, AdvanceSlot, serviceVars
    <2>3. CASE WoundUp \/ UNCHANGED vars
      BY <1>1, <2>3 DEF WoundUp, vars
    <2>4. QED
      BY <1>7, <2>1, <2>2, <2>3 DEF QuietRest
  <1>8. QED
    BY <1>5, <1>6, <1>7

\* The parts of ServiceCovered over plain numbers, for the steps below.
LEMMA CoveredFrom ==
  ASSUME ServiceCovered, ~Unlocked, HasServiceVault,
         boxMint.supply + template.pendingOpenings > 0
  PROVE  /\ template.receiptsEnabled =>
              template.remainingReceipts >= boxMint.supply + template.pendingOpenings
         /\ template.settlementBounty # 0 =>
              template.remainingBounties >= boxMint.supply + Cardinality(Committed)
         /\ vault >= RequiredServiceBalance(template) + RentMin
  BY DEF ServiceCovered

\* At the lock the vault holds the services of every box and its own rent.
LEMMA LockCovers ==
  ASSUME TypeOK, QueueExact, LockTreasury
  PROVE  ServiceCovered'
  <1> DEFINE total == template.totalBundles
             rent == IF template.receiptsEnabled THEN ReceiptRent ELSE 0
             bounty == template.settlementBounty
             reserve == (rent + bounty) * total
  <1>1. /\ total \in Nat /\ total # 0
        /\ rent \in Nat /\ bounty \in Nat /\ RentMin \in Nat /\ vault \in Nat
        /\ ReceiptRent \in Nat \ {0}
    BY TypedTemplate, BoundsAssumption, ServiceAssumption DEF LockTreasury, Pristine
  <1>2. /\ template'.receiptsEnabled = template.receiptsEnabled
        /\ template'.settlementBounty = bounty
        /\ template'.receiptRent = rent
        /\ template'.remainingReceipts = IF template.receiptsEnabled THEN total ELSE 0
        /\ template'.remainingBounties = IF bounty = 0 THEN 0 ELSE total
        /\ template'.pendingOpenings = template.pendingOpenings
    BY DEF LockTreasury, TypeOK, TemplateType
  <1>3. template.pendingOpenings = 0 /\ boxMint.supply = total
    BY DEF LockTreasury, Pristine, ExactSupply
  <1>4. boxMint'.supply = total
    BY <1>3 DEF LockTreasury, TypeOK
  <1>5. Cardinality(Committed') = 0
    <2>1. opening' = opening
      BY DEF LockTreasury
    <2>2. Queued = {}
      BY <1>3, QueueFinite, FS_EmptySet DEF QueueExact
    <2>3. Committed' = {}
      BY <2>1, <2>2 DEF Queued, Committed
    <2>4. QED
      BY <2>3, FS_EmptySet
  <1>6. vault' = ToppedUp(ServiceBudget(rent))
    BY DEF LockTreasury
  <1>7. ServiceBudget(rent) = IF reserve = 0 THEN 0 ELSE reserve + RentMin
    BY DEF ServiceBudget
  <1>8. reserve \in Nat
    BY <1>1
  <1>9. template.receiptsEnabled \/ bounty # 0 => reserve # 0
    <2>1. template.receiptsEnabled \/ bounty # 0 => rent + bounty # 0 /\ rent + bounty \in Nat
      BY <1>1
    <2>2. QED
      BY <1>1, <2>1
  <1>10. RequiredServiceBalance(template') = reserve
    <2>1. rent * template'.remainingReceipts = rent * total
      BY <1>1, <1>2
    <2>2. bounty * template'.remainingBounties = bounty * total
      BY <1>1, <1>2
    <2>3. rent * total + bounty * total = (rent + bounty) * total
      BY <1>1
    <2>4. QED
      BY <1>2, <2>1, <2>2, <2>3 DEF RequiredServiceBalance
  <1>11. template.receiptsEnabled \/ bounty # 0 => vault' >= reserve + RentMin
    <2>1. ASSUME template.receiptsEnabled \/ bounty # 0
          PROVE  vault' >= reserve + RentMin
      <3>1. ServiceBudget(rent) = reserve + RentMin
        BY <1>7, <1>9, <2>1
      <3> HIDE DEF reserve
      <3>2. QED
        BY <1>1, <1>6, <1>8, <3>1 DEF ToppedUp
    <2>2. QED
      BY <2>1
  <1> HIDE DEF reserve, rent
  <1>12. QED
    BY <1>1, <1>2, <1>3, <1>4, <1>5, <1>10, <1>11 DEF ServiceCovered, HasServiceVault

\* While nothing is paid, the cover is kept as long as the number of boxes and
\* openings does not grow, nor the number of those not yet settled.
LEMMA CoverKept ==
  ASSUME TypeOK, ServiceCovered, ~Unlocked => ~Unlocked',
         template'.lockedAt = template.lockedAt,
         ~Unlocked =>
           /\ template'.receiptsEnabled = template.receiptsEnabled
           /\ template'.settlementBounty = template.settlementBounty
           /\ template'.receiptRent = template.receiptRent
           /\ template'.remainingReceipts = template.remainingReceipts
           /\ template'.remainingBounties = template.remainingBounties,
         vault' = vault \/ NothingOutstanding,
         boxMint'.supply \in Nat, template'.pendingOpenings \in Nat,
         boxMint'.supply + template'.pendingOpenings
           <= boxMint.supply + template.pendingOpenings,
         boxMint'.supply + Cardinality(Committed')
           <= boxMint.supply + Cardinality(Committed),
         Cardinality(Committed') \in Nat
  PROVE  ServiceCovered'
  <1> SUFFICES ASSUME ~Unlocked', HasServiceVault',
                      boxMint'.supply + template'.pendingOpenings > 0
               PROVE  /\ template'.receiptsEnabled =>
                           template'.remainingReceipts
                             >= boxMint'.supply + template'.pendingOpenings
                      /\ template'.settlementBounty # 0 =>
                           template'.remainingBounties
                             >= boxMint'.supply + Cardinality(Committed')
                      /\ vault' >= RequiredServiceBalance(template') + RentMin
    BY DEF ServiceCovered
  <1>1. /\ boxMint.supply \in Nat /\ template.pendingOpenings \in Nat
        /\ template.remainingReceipts \in Nat /\ template.remainingBounties \in Nat
        /\ Cardinality(Committed) \in Nat
    BY TypedTemplate, CommittedFinite
  <1>2. boxMint.supply + template.pendingOpenings > 0
    BY <1>1
  <1>3. ~Unlocked
    BY DEF Unlocked
  <1>4. HasServiceVault
    BY <1>3 DEF HasServiceVault
  <1>5. vault' = vault
    BY <1>1, <1>2 DEF NothingOutstanding
  <1>6. RequiredServiceBalance(template') = RequiredServiceBalance(template)
    BY <1>3 DEF RequiredServiceBalance
  <1>7. QED
    BY <1>1, <1>2, <1>3, <1>4, <1>5, <1>6, CoveredFrom

\* A bounty paid for an opening that settles; t is the template before it.
LEMMA CoverAfterBounty ==
  ASSUME TypeOK, ServiceCovered, NEW t \in TemplateType, PaySettlementBounty(t),
         t.lockedAt = template.lockedAt,
         t.receiptsEnabled = template.receiptsEnabled,
         t.settlementBounty = template.settlementBounty,
         t.receiptRent = template.receiptRent,
         t.remainingReceipts = template.remainingReceipts,
         t.remainingBounties = template.remainingBounties,
         t.pendingOpenings <= template.pendingOpenings,
         boxMint' = boxMint,
         NEW r \in Committed, Committed' = Committed \ {r}
  PROVE  ServiceCovered'
  <1> SUFFICES ASSUME ~Unlocked', HasServiceVault',
                      boxMint'.supply + template'.pendingOpenings > 0
               PROVE  /\ template'.receiptsEnabled =>
                           template'.remainingReceipts
                             >= boxMint'.supply + template'.pendingOpenings
                      /\ template'.settlementBounty # 0 =>
                           template'.remainingBounties
                             >= boxMint'.supply + Cardinality(Committed')
                      /\ vault' >= RequiredServiceBalance(template') + RentMin
    BY DEF ServiceCovered
  <1> DEFINE bounty == template.settlementBounty
  <1>1. /\ boxMint.supply \in Nat /\ template.pendingOpenings \in Nat
        /\ template.remainingReceipts \in Nat /\ template.remainingBounties \in Nat
        /\ template.receiptRent \in Nat /\ bounty \in Nat /\ vault \in Nat
        /\ t.pendingOpenings \in Nat /\ RentMin \in Nat
    BY TypedTemplate, ServiceAssumption DEF TemplateType
  <1>2. /\ Cardinality(Committed) \in Nat
        /\ Cardinality(Committed') = Cardinality(Committed) - 1
    BY CommittedFinite, FS_RemoveElement
  <1>3. /\ template'.pendingOpenings = t.pendingOpenings
        /\ template'.lockedAt = template.lockedAt
        /\ template'.receiptsEnabled = template.receiptsEnabled
        /\ template'.settlementBounty = bounty
        /\ template'.receiptRent = template.receiptRent
        /\ template'.remainingReceipts = template.remainingReceipts
    BY BountyKeeps
  <1>4. /\ ~Unlocked /\ HasServiceVault
        /\ boxMint.supply + template.pendingOpenings > 0
    BY <1>1, <1>3 DEF Unlocked, HasServiceVault
  <1>5. /\ template.receiptsEnabled =>
             template.remainingReceipts >= boxMint.supply + template.pendingOpenings
        /\ bounty # 0 =>
             template.remainingBounties >= boxMint.supply + Cardinality(Committed)
        /\ vault >= RequiredServiceBalance(template) + RentMin
    BY <1>4, CoveredFrom
  <1>6. CASE bounty = 0
    <2>1. template' = t /\ vault' = vault
      BY <1>6 DEF PaySettlementBounty
    <2>2. RequiredServiceBalance(template') = RequiredServiceBalance(template)
      BY <2>1 DEF RequiredServiceBalance
    <2>3. QED
      BY <1>1, <1>3, <1>5, <1>6, <2>1, <2>2
  <1>7. CASE bounty # 0
    <2>1. /\ template' = [t EXCEPT !.remainingBounties = @ - 1]
          /\ vault' = vault - bounty
      BY <1>7 DEF PaySettlementBounty
    <2>2. template'.remainingBounties = template.remainingBounties - 1
      BY <2>1 DEF TemplateType
    <2>3. RequiredServiceBalance(template') = RequiredServiceBalance(template) - bounty
      <3> DEFINE forReceipts == template.receiptRent * template.remainingReceipts
      <3>1. forReceipts \in Nat
        BY <1>1
      <3>2. /\ bounty * (template.remainingBounties - 1)
                 = bounty * template.remainingBounties - bounty
            /\ bounty * template.remainingBounties \in Nat
        BY <1>1, OneLess
      <3>3. RequiredServiceBalance(template') =
              forReceipts + bounty * (template.remainingBounties - 1)
        BY <1>3, <2>2 DEF RequiredServiceBalance
      <3>4. RequiredServiceBalance(template) =
              forReceipts + bounty * template.remainingBounties
        BY DEF RequiredServiceBalance
      <3> HIDE DEF forReceipts
      <3>5. QED
        BY <1>1, <3>1, <3>2, <3>3, <3>4
    <2>4. RequiredServiceBalance(template) \in Nat
      BY RequiredIsNat DEF TypeOK
    <2>5. QED
      BY <1>1, <1>2, <1>3, <1>5, <1>7, <2>1, <2>2, <2>3, <2>4
  <1>8. QED
    BY <1>6, <1>7

\* A draw, with or without a receipt.
LEMMA CoverAfterDraw ==
  ASSUME TypeOK, ServiceCovered, NEW r \in Randomness, NEW b \in BundleIndex,
         AllocateTemplateOpen(r, b)
  PROVE  ServiceCovered'
  <1> DEFINE t == Drawn(template)
             rent == template.receiptRent
  <1>1. /\ boxMint.supply \in Nat /\ template.pendingOpenings \in Nat
        /\ template.remainingReceipts \in Nat /\ template.remainingBounties \in Nat
        /\ template.settlementBounty \in Nat /\ rent \in Nat /\ vault \in Nat
        /\ RentMin \in Nat
    BY TypedTemplate, ServiceAssumption
  <1>2. /\ template.pendingOpenings > 0
        /\ template.remainingBundles > 0
        /\ IssueReceipt(t, r, b)
        /\ boxMint' = boxMint
    BY DEF AllocateTemplateOpen
  <1>3. /\ template'.pendingOpenings = template.pendingOpenings - 1
        /\ template'.lockedAt = template.lockedAt
        /\ template'.receiptsEnabled = template.receiptsEnabled
        /\ template'.settlementBounty = template.settlementBounty
        /\ template'.receiptRent = rent
        /\ template'.remainingBounties = template.remainingBounties
    BY <1>2, DrawEffect, ReceiptKeeps
  <1>4. Committed' = Committed
    BY AllocateQueue
  <1>5. CASE ~template.receiptsEnabled
    <2>1. template' = t /\ vault' = vault
      BY <1>2, <1>5, DrawEffect DEF IssueReceipt, serviceVars
    <2>2. template'.remainingReceipts = template.remainingReceipts
      BY <1>2, <2>1, DrawEffect
    <2>3. /\ boxMint'.supply \in Nat /\ template'.pendingOpenings \in Nat
          /\ boxMint'.supply + template'.pendingOpenings
               <= boxMint.supply + template.pendingOpenings
      BY <1>1, <1>2, <1>3
    <2>4. /\ Cardinality(Committed') \in Nat
          /\ boxMint'.supply + Cardinality(Committed')
               <= boxMint.supply + Cardinality(Committed)
      BY <1>1, <1>2, <1>4, CommittedFinite
    <2>5. ~Unlocked => ~Unlocked'
      BY <1>3 DEF Unlocked
    <2>6. QED
      BY <1>3, <2>1, <2>2, <2>3, <2>4, <2>5, CoverKept
  <1>6. CASE template.receiptsEnabled
    <2> SUFFICES ASSUME ~Unlocked', boxMint'.supply + template'.pendingOpenings > 0
                 PROVE  /\ template'.remainingReceipts
                             >= boxMint'.supply + template'.pendingOpenings
                        /\ template'.settlementBounty # 0 =>
                             template'.remainingBounties
                               >= boxMint'.supply + Cardinality(Committed')
                        /\ vault' >= RequiredServiceBalance(template') + RentMin
      BY DEF ServiceCovered
    <2>1. /\ ~Unlocked /\ HasServiceVault
          /\ boxMint.supply + template.pendingOpenings > 0
      BY <1>1, <1>2, <1>3, <1>6 DEF Unlocked, HasServiceVault
    <2>2. /\ template.remainingReceipts >= boxMint.supply + template.pendingOpenings
          /\ template.settlementBounty # 0 =>
               template.remainingBounties >= boxMint.supply + Cardinality(Committed)
          /\ vault >= RequiredServiceBalance(template) + RentMin
      BY <1>6, <2>1, CoveredFrom
    <2>3. t.receiptsEnabled
      BY <1>2, <1>6, DrawEffect
    <2>4. /\ template' = [t EXCEPT !.remainingReceipts = @ - 1]
          /\ vault' = vault - t.receiptRent
      BY <1>2, <2>3 DEF IssueReceipt
    <2>5. /\ t \in TemplateType
          /\ t.remainingReceipts = template.remainingReceipts
          /\ t.receiptRent = rent
      BY <1>2, DrawEffect
    <2> HIDE DEF t
    <2>6. template'.remainingReceipts = template.remainingReceipts - 1
      BY <2>4, <2>5 DEF TemplateType
    <2>7. RequiredServiceBalance(template') = RequiredServiceBalance(template) - rent
      <3> DEFINE forBounties == template.settlementBounty * template.remainingBounties
      <3>1. forBounties \in Nat
        BY <1>1
      <3>2. /\ rent * (template.remainingReceipts - 1)
                 = rent * template.remainingReceipts - rent
            /\ rent * template.remainingReceipts \in Nat
        BY <1>1, OneLess
      <3>3. RequiredServiceBalance(template') =
              rent * (template.remainingReceipts - 1) + forBounties
        BY <1>3, <2>6 DEF RequiredServiceBalance
      <3>4. RequiredServiceBalance(template) =
              rent * template.remainingReceipts + forBounties
        BY DEF RequiredServiceBalance
      <3> HIDE DEF forBounties
      <3>5. QED
        BY <1>1, <3>1, <3>2, <3>3, <3>4
    <2>8. RequiredServiceBalance(template) \in Nat
      BY RequiredIsNat DEF TypeOK
    <2>9. QED
      BY <1>1, <1>2, <1>3, <1>4, <2>2, <2>4, <2>5, <2>6, <2>7, <2>8
  <1>7. QED
    BY <1>5, <1>6

LEMMA ServiceStep ==
  TypeOK /\ QueueExact /\ ServiceCovered /\ [Next]_vars => ServiceCovered'
  <1> SUFFICES ASSUME TypeOK, QueueExact, ServiceCovered, [Next]_vars
               PROVE  ServiceCovered'
    OBVIOUS
  <1>1. /\ TypeOK' /\ template \in TemplateType
        /\ boxMint.supply \in Nat /\ boxMint'.supply \in Nat
        /\ template.pendingOpenings \in Nat /\ template'.pendingOpenings \in Nat
    BY NextTypeOK DEF TypeOK, TemplateType
  <1>2. CASE QuietStaging \/ QuietOpening \/ QuietRest
    <2>1. ~Unlocked => ~Unlocked'
      BY <1>2, QuietServices DEF Unlocked
    <2>2. /\ boxMint'.supply = boxMint.supply
          /\ template'.pendingOpenings = template.pendingOpenings
          /\ Committed' = Committed
      BY <1>2, QuietCounters, QuietQueue
    <2>3. Cardinality(Committed') \in Nat
      BY <2>2, CommittedFinite
    <2>4. QED
      BY <1>1, <1>2, <2>1, <2>2, <2>3, QuietServices, CoverKept
  <1>3. CASE LockTreasury
    BY <1>3, LockCovers
  <1>4. ASSUME NEW i \in BundleIndex, ActivateBundle(i) PROVE ServiceCovered'
    <2>1. Unlocked /\ template'.lockedAt = template.lockedAt
      BY <1>4 DEF ActivateBundle, Editable, TypeOK, TemplateType
    <2>2. QED
      BY <2>1 DEF ServiceCovered, Unlocked
  <1>5. ASSUME NEW n \in 1 .. MaxTickets, MintTemplateBoxes(n) PROVE ServiceCovered'
    <2>1. Unlocked /\ template'.lockedAt = template.lockedAt
      BY <1>5 DEF MintTemplateBoxes, Editable, TypeOK, TemplateType
    <2>2. QED
      BY <2>1 DEF ServiceCovered, Unlocked
  <1>6. ASSUME NEW r \in Randomness, RequestTemplateOpen(r) PROVE ServiceCovered'
    <2>1. /\ boxMint'.supply = boxMint.supply - 1
          /\ vault' = vault
      BY <1>6 DEF RequestTemplateOpen, TypeOK, serviceVars
    <2>2. /\ template'.pendingOpenings = template.pendingOpenings + 1
          /\ template'.lockedAt = template.lockedAt
          /\ template'.receiptsEnabled = template.receiptsEnabled
          /\ template'.settlementBounty = template.settlementBounty
          /\ template'.receiptRent = template.receiptRent
          /\ template'.remainingReceipts = template.remainingReceipts
          /\ template'.remainingBounties = template.remainingBounties
      BY <1>6 DEF RequestTemplateOpen, TypeOK, TemplateType
    <2>3. /\ Cardinality(Committed) \in Nat
          /\ Cardinality(Committed') \in Nat
          /\ Cardinality(Committed') <= Cardinality(Committed) + 1
      <3>1. Committed' = Committed \cup {r}
        BY <1>6, RequestQueue
      <3>2. IsFiniteSet(Committed) /\ Cardinality(Committed) \in Nat
        BY CommittedFinite
      <3>3. Cardinality(Committed \cup {r}) =
              IF r \in Committed THEN Cardinality(Committed)
                                 ELSE Cardinality(Committed) + 1
        BY <3>2, FS_AddElement
      <3> QED
        BY <3>1, <3>2, <3>3
    <2>4. /\ boxMint'.supply + template'.pendingOpenings
               <= boxMint.supply + template.pendingOpenings
          /\ boxMint'.supply + Cardinality(Committed')
               <= boxMint.supply + Cardinality(Committed)
      BY <1>1, <2>1, <2>2, <2>3
    <2>5. ~Unlocked => ~Unlocked'
      BY <2>2 DEF Unlocked
    <2>6. QED
      BY <1>1, <2>1, <2>2, <2>3, <2>4, <2>5, CoverKept
  <1>7. ASSUME NEW r \in Randomness, NEW e \in Entropy, FulfillTemplateOpen(r, e)
        PROVE  ServiceCovered'
    <2>1. PaySettlementBounty(template) /\ boxMint' = boxMint
      BY <1>7 DEF FulfillTemplateOpen
    <2>2. QED
      BY <1>1, <1>7, <2>1, FulfillQueue, CoverAfterBounty
  <1>8. ASSUME NEW r \in Randomness, ForfeitTemplateOpen(r) PROVE ServiceCovered'
    <2>1. /\ template.pendingOpenings > 0
          /\ PaySettlementBounty(RecordForfeit(template))
          /\ boxMint' = boxMint
      BY <1>8 DEF ForfeitTemplateOpen
    <2>2. template.pendingOpenings - 1 <= template.pendingOpenings
      BY <1>1
    <2>3. QED
      BY <1>8, <2>1, <2>2, ForfeitEffect, ForfeitQueue, CoverAfterBounty
  <1>9. ASSUME NEW r \in Randomness, NEW b \in BundleIndex, AllocateTemplateOpen(r, b)
        PROVE  ServiceCovered'
    BY <1>9, CoverAfterDraw
  <1>10. CASE BurnBox
    <2>1. /\ boxMint'.supply = boxMint.supply - 1
          /\ template' = template /\ opening' = opening /\ vault' = vault
      BY <1>10 DEF BurnBox, TypeOK, serviceVars
    <2>2. Committed' = Committed /\ Cardinality(Committed) \in Nat
      BY <2>1, CommittedFinite DEF Committed
    <2>3. ~Unlocked => ~Unlocked'
      BY <2>1 DEF Unlocked
    <2>4. QED
      BY <1>1, <2>1, <2>2, <2>3, CoverKept
  <1>11. QED
    BY <1>2, <1>3, <1>4, <1>5, <1>6, <1>7, <1>8, <1>9, <1>10, NextCases

\* After the lock the vault can pay every receipt and every bounty that may
\* still fall due and stays rent exempt, whatever the prices and however the
\* boxes are burned, opened, answered, forfeited or drawn.
THEOREM ServicesAlwaysCovered == Spec => []ServiceCovered
  <1>1. Init => ServiceCovered
    BY DEF Init, ServiceCovered, Unlocked
  <1>2. QED
    BY <1>1, ServiceStep, TypeCorrect, QueueAlwaysExact, PTL DEF Spec

-----------------------------------------------------------------------------
(* What the steps keep.                                                    *)

\* The steps of the creator on one bundle, before it is active.
Prepares ==
  \/ \E q \in Quantities, n \in 1 .. MaxAssets : AddBundle(q, n)
  \/ \E i \in BundleIndex, p \in Prizes :
       FundSolPrize(i, p) \/ FundTokenPrize(i, p) \/ FundMintPrize(i, p)
  \/ \E i \in BundleIndex : CancelBundle(i)

Activates == \E i \in BundleIndex : ActivateBundle(i)
Allocates == \E r \in Randomness, b \in BundleIndex : AllocateTemplateOpen(r, b)
Reclaims ==
  \E i \in BundleIndex, s \in SlotIndex :
    ReclaimSolPrize(i, s) \/ ReclaimTokenPrize(i, s) \/ ReclaimMintPrize(i, s)
Claims == \E r \in Randomness, s \in SlotIndex : Claim(r, s)

\* The remaining steps of the openings.
Answers ==
  \/ \E r \in Randomness, e \in Entropy : FulfillTemplateOpen(r, e)
  \/ \E r \in Randomness : ForfeitTemplateOpen(r)
Requests == \E r \in Randomness : RequestTemplateOpen(r)
Closes == \E r \in Randomness : CloseTemplateOpening(r)
Mints1 == \E n \in 1 .. MaxTickets : MintTemplateBoxes(n)

\* The steps that touch neither an opening, nor a bundle, nor a prize.
Idles ==
  SealTemplate \/ Mints1 \/ LockTreasury \/ RetireTemplate \/ CloseServiceVault
  \/ AdvanceClock \/ BurnBox \/ WoundUp \/ UNCHANGED vars

LEMMA StepCases ==
  ASSUME [Next]_vars
  PROVE  \/ Prepares \/ Activates \/ Allocates \/ Reclaims \/ Claims
         \/ Answers \/ Requests \/ Closes \/ Idles \/ AdvanceSlot
  <1>1. CASE Staging
    BY <1>1 DEF Staging, Prepares, Activates, Mints1, Idles
  <1>2. CASE Opening
    BY <1>2 DEF Opening, Requests, Answers, Allocates, Claims, Closes
  <1>3. CASE Recovery
    BY <1>3 DEF Recovery, Idles, Reclaims
  <1>4. CASE AdvanceClock \/ AdvanceSlot \/ BurnBox \/ WoundUp \/ UNCHANGED vars
    BY <1>4 DEF Idles
  <1>5. QED
    BY <1>1, <1>2, <1>3, <1>4 DEF Next

\* Who writes what.
LEMMA PreparesFrame ==
  ASSUME Prepares
  PROVE  UNCHANGED <<now, template, remaining, boxMint, opening, vault, receipts>>
  BY ZenonT(40) DEF Prepares, AddBundle, FundSolPrize, FundTokenPrize, FundMintPrize,
         RecordPrize, CancelBundle, serviceVars

LEMMA ActivatesFrame ==
  ASSUME Activates
  PROVE  UNCHANGED <<now, asset, boxMint, badge, opening, vault, receipts>>
  BY DEF Activates, ActivateBundle, serviceVars

LEMMA AllocatesFrame ==
  ASSUME Allocates
  PROVE  UNCHANGED <<now, bundle, asset, badge, boxMint>>
  BY DEF Allocates, AllocateTemplateOpen, adminVars

LEMMA ReclaimsFrame ==
  ASSUME Reclaims
  PROVE  UNCHANGED <<now, template, remaining, bundle, boxMint, opening, vault, receipts>>
  BY DEF Reclaims, ReclaimSolPrize, ReclaimTokenPrize, ReclaimMintPrize,
         ReclaimAllowed, serviceVars

LEMMA ClaimsFrame ==
  ASSUME Claims
  PROVE  UNCHANGED <<now, template, remaining, bundle, boxMint, vault, receipts>>
  <1>1. PICK r \in Randomness, s \in SlotIndex : RecordClaim(r, s)
    BY DEF Claims, Claim, ClaimSolPrize, ClaimTokenPrize, ClaimMintPrize
  <1>2. QED
    BY <1>1 DEF RecordClaim, serviceVars

LEMMA AnswersFrame ==
  ASSUME Answers
  PROVE  UNCHANGED <<now, remaining, bundle, asset, badge, boxMint, receipts>>
  BY DEF Answers, FulfillTemplateOpen, ForfeitTemplateOpen, adminVars

LEMMA RequestsFrame ==
  ASSUME Requests
  PROVE  UNCHANGED <<now, remaining, bundle, asset, badge, vault, receipts>>
  BY DEF Requests, RequestTemplateOpen, adminVars, serviceVars

LEMMA ClosesFrame ==
  ASSUME Closes
  PROVE  UNCHANGED <<now, template, remaining, bundle, asset, badge, boxMint,
                     vault, receipts>>
  BY DEF Closes, CloseTemplateOpening, adminVars, serviceVars

LEMMA IdlesFrame ==
  ASSUME Idles
  PROVE  UNCHANGED <<remaining, bundle, asset, badge, opening, receipts>>
  BY DEF Idles, SealTemplate, Mints1, MintTemplateBoxes, LockTreasury, RetireTemplate,
         CloseServiceVault, AdvanceClock, BurnBox, WoundUp, vars, adminVars, serviceVars

LEMMA SlotFrame ==
  ASSUME AdvanceSlot
  PROVE  UNCHANGED <<now, template, remaining, bundle, asset, badge, boxMint,
                     vault, receipts>>
  BY DEF AdvanceSlot, adminVars, serviceVars

\* The header: what a draw, an answer and a request leave alone.
LEMMA AllocatesHeader ==
  ASSUME TypeOK, Allocates
  PROVE  /\ template'.status = template.status
         /\ template'.lockedAt = template.lockedAt
         /\ template'.bundleCount = template.bundleCount
         /\ template'.revision = template.revision
         /\ template'.totalBundles = template.totalBundles
         /\ template'.nextRequest = template.nextRequest
         /\ template'.nextAllocation = template.nextAllocation + 1
         /\ template'.pendingOpenings = template.pendingOpenings - 1
         /\ template'.remainingBundles = template.remainingBundles - 1
         /\ template'.receiptsEnabled = template.receiptsEnabled
  <1>1. PICK r \in Randomness, b \in BundleIndex : AllocateTemplateOpen(r, b)
    BY DEF Allocates
  <1>2. /\ template.pendingOpenings > 0
        /\ template.remainingBundles > 0
        /\ IssueReceipt(Drawn(template), r, b)
    BY <1>1 DEF AllocateTemplateOpen
  <1>3. Drawn(template) \in TemplateType /\ template \in TemplateType
    BY <1>2, DrawEffect DEF TypeOK
  <1>4. template'.revision = template.revision
    BY <1>2, <1>3 DEF IssueReceipt, Drawn, TemplateType
  <1>5. QED
    BY <1>2, <1>3, <1>4, ReceiptKeeps, DrawEffect

LEMMA AnswersHeader ==
  ASSUME TypeOK, Answers
  PROVE  /\ template'.status = template.status
         /\ template'.lockedAt = template.lockedAt
         /\ template'.bundleCount = template.bundleCount
         /\ template'.revision = template.revision
         /\ template'.totalBundles = template.totalBundles
         /\ template'.nextRequest = template.nextRequest
         /\ template'.nextAllocation >= template.nextAllocation
         /\ template'.pendingOpenings <= template.pendingOpenings
         /\ template'.remainingBundles = template.remainingBundles
         /\ template'.receiptsEnabled = template.receiptsEnabled
         /\ template'.remainingReceipts = template.remainingReceipts
  <1>0. template \in TemplateType
    BY DEF TypeOK
  <1>1. ASSUME NEW t \in TemplateType, PaySettlementBounty(t)
        PROVE  template'.revision = t.revision
    BY <1>1 DEF PaySettlementBounty, TemplateType
  <1>2. CASE PaySettlementBounty(template)
    BY <1>0, <1>1, <1>2, BountyKeeps, TypedTemplate
  <1>3. CASE template.pendingOpenings > 0 /\ PaySettlementBounty(RecordForfeit(template))
    <2>1. RecordForfeit(template).revision = template.revision
      BY <1>0 DEF RecordForfeit, TemplateType
    <2>2. QED
      BY <1>1, <1>3, <2>1, BountyKeeps, ForfeitEffect, TypedTemplate
  <1>4. QED
    BY <1>2, <1>3 DEF Answers, FulfillTemplateOpen, ForfeitTemplateOpen

LEMMA RequestsHeader ==
  ASSUME TypeOK, Requests
  PROVE  /\ template'.status = template.status
         /\ template'.lockedAt = template.lockedAt
         /\ template'.bundleCount = template.bundleCount
         /\ template'.revision = template.revision
         /\ template'.totalBundles = template.totalBundles
         /\ template'.nextRequest = template.nextRequest + 1
         /\ template'.nextAllocation = template.nextAllocation
         /\ template'.pendingOpenings = template.pendingOpenings + 1
         /\ template'.remainingBundles = template.remainingBundles
         /\ template'.receiptsEnabled = template.receiptsEnabled
         /\ template'.remainingReceipts = template.remainingReceipts
         /\ boxMint'.supply = boxMint.supply - 1
         /\ boxMint.supply > 0
         /\ Final
  BY DEF Requests, RequestTemplateOpen, TypeOK, TemplateType, Final, Unlocked

LEMMA IdlesHeader ==
  ASSUME TypeOK, Idles
  PROVE  /\ template'.bundleCount = template.bundleCount
         /\ template'.revision = template.revision
         /\ template'.totalBundles = template.totalBundles
         /\ template'.nextRequest = template.nextRequest
         /\ template'.nextAllocation = template.nextAllocation
         /\ template'.pendingOpenings = template.pendingOpenings
         /\ template'.remainingBundles = template.remainingBundles
         /\ Final => Final' /\ boxMint'.supply <= boxMint.supply
         /\ template.status = "retired" =>
              template'.status = "retired" /\ boxMint'.supply <= boxMint.supply
  <1> USE TypedTemplate, BoundsAssumption DEF Final, Unlocked
  <1>1. CASE SealTemplate
    BY <1>1 DEF SealTemplate, TypeOK, TemplateType
  <1>2. CASE Mints1
    BY <1>2 DEF Mints1, MintTemplateBoxes, Editable, TypeOK, TemplateType
  <1>3. CASE LockTreasury
    <2>1. boxMint'.supply = boxMint.supply
      BY <1>3 DEF LockTreasury, TypeOK
    <2>2. QED
      BY <1>3, <2>1 DEF LockTreasury, TypeOK, TemplateType
  <1>4. CASE RetireTemplate
    BY <1>4 DEF RetireTemplate, TypeOK, TemplateType
  <1>5. CASE BurnBox
    BY <1>5 DEF BurnBox, TypeOK
  <1>6. CASE CloseServiceVault \/ AdvanceClock \/ WoundUp \/ UNCHANGED vars
    BY <1>6 DEF CloseServiceVault, AdvanceClock, WoundUp, vars
  <1>7. QED
    BY <1>1, <1>2, <1>3, <1>4, <1>5, <1>6 DEF Idles

-----------------------------------------------------------------------------
(* The terms.                                                              *)

\* Prizes keep what they are when copies of them leave.
LEMMA ReleaseKeeps ==
  ASSUME NEW a \in AssetType, NEW copies, NEW value, NEW b,
         b = Release(a, copies, value) \/ b = Reclaim(a, copies, value)
  PROVE  /\ b.kind = a.kind
         /\ b.mint = a.mint
         /\ b.amount = a.amount
  BY DEF Release, Reclaim, AssetType

LEMMA ReleaseCounts ==
  ASSUME NEW a \in AssetType, NEW copies, NEW value, NEW b,
         b = Release(a, copies, value) \/ b = Reclaim(a, copies, value)
  PROVE  /\ b.claimed = a.claimed + copies
         /\ b.held = a.held - value
  BY DEF Release, Reclaim, AssetType

LEMMA ReclaimMarks ==
  ASSUME NEW a \in AssetType, NEW copies, NEW value
  PROVE  /\ Release(a, copies, value).reclaimed = a.reclaimed
         /\ Reclaim(a, copies, value).reclaimed
  BY DEF Release, Reclaim, AssetType

LEMMA ReleasesKeepTerms ==
  ASSUME TypeOK, Claims \/ Reclaims, NEW i \in BundleIndex, NEW s \in SlotIndex
  PROVE  /\ asset'[i][s].kind = asset[i][s].kind
         /\ asset'[i][s].mint = asset[i][s].mint
         /\ asset'[i][s].amount = asset[i][s].amount
  <1>1. /\ asset \in [BundleIndex -> [SlotIndex -> AssetType]]
        /\ asset[i][s] \in AssetType
    BY TypedAsset DEF TypeOK
  <1>2. CASE Claims
    <2>1. PICK r \in Randomness, t \in SlotIndex : \E v :
            asset' = [asset EXCEPT ![opening[r].selected][t] =
                        Release(asset[opening[r].selected][t], 1, v)]
      BY <1>2, ZenonT(40) DEF Claims, Claim, ClaimSolPrize, ClaimTokenPrize, ClaimMintPrize
    <2>2. opening[r].selected \in BundleIndex
      BY TypedOpening
    <2>3. \E v : asset'[i][s] = asset[i][s] \/ asset'[i][s] = Release(asset[i][s], 1, v)
      BY <1>1, <2>1, <2>2
    <2>4. QED
      BY <1>1, <2>3, ReleaseKeeps
  <1>3. CASE Reclaims
    <2>1. PICK j \in BundleIndex, t \in SlotIndex : \E n, v :
            asset' = [asset EXCEPT ![j][t] = Reclaim(asset[j][t], n, v)]
      BY <1>3 DEF Reclaims, ReclaimSolPrize, ReclaimTokenPrize, ReclaimMintPrize
    <2>2. PICK n, v :
            asset'[i][s] = asset[i][s] \/ asset'[i][s] = Reclaim(asset[i][s], n, v)
      BY <1>1, <2>1
    <2>3. QED
      <3>1. CASE asset'[i][s] = Reclaim(asset[i][s], n, v)
        BY <1>1, <3>1, ReleaseKeeps
      <3>2. QED
        BY <2>2, <3>1
  <1>5. QED
    BY <1>2, <1>3

\* Preparing a bundle leaves those that are active alone.
LEMMA PreparesInactive ==
  ASSUME TypeOK, Prepares, NEW i \in BundleIndex, bundle[i].status = "active"
  PROVE  bundle'[i] = bundle[i] /\ asset'[i] = asset[i]
  <1>1. /\ bundle \in [BundleIndex -> BundleType]
        /\ asset \in [BundleIndex -> [SlotIndex -> AssetType]]
        /\ template.bundleCount \in BundleIndex
    BY TypedTemplate DEF TypeOK, BundleIndex
  <1>2. ASSUME NEW q, NEW n, AddBundle(q, n)
        PROVE  bundle'[i] = bundle[i] /\ asset' = asset
    BY <1>1, <1>2 DEF AddBundle
  <1>3. ASSUME NEW j \in BundleIndex, NEW p, NEW v, RecordPrize(j, p, v)
        PROVE  bundle'[i] = bundle[i] /\ asset'[i] = asset[i]
    BY <1>1, <1>3 DEF RecordPrize
  <1>4. ASSUME NEW j \in BundleIndex, CancelBundle(j)
        PROVE  bundle'[i] = bundle[i] /\ asset'[i] = asset[i]
    BY <1>1, <1>4 DEF CancelBundle
  <1>5. QED
    BY <1>2, <1>3, <1>4 DEF Prepares, FundSolPrize, FundTokenPrize, FundMintPrize

\* One step of TermsFrozen.
FrozenStep ==
  Final =>
    /\ Final'
    /\ template'.totalBundles = template.totalBundles
    /\ template'.bundleCount = template.bundleCount
    /\ boxMint'.supply <= boxMint.supply
    /\ \A i \in BundleIndex :
         /\ remaining'[i] <= remaining[i]
         /\ bundle[i].status = "active" =>
              /\ bundle'[i] = bundle[i]
              /\ \A s \in SlotIndex :
                   /\ asset'[i][s].mint = asset[i][s].mint
                   /\ asset'[i][s].amount = asset[i][s].amount

LEMMA FrozenByStep == TypeOK /\ [Next]_vars => FrozenStep
  <1> SUFFICES ASSUME TypeOK, [Next]_vars, Final PROVE FrozenStep
    BY DEF FrozenStep
  <1>1. \A i \in BundleIndex : remaining[i] <= remaining[i]
    BY TypedBundle
  <1>2. boxMint.supply <= boxMint.supply
    BY TypedTemplate
  <1>3. CASE Prepares
    <2>1. UNCHANGED <<template, remaining, boxMint>>
      BY <1>3, PreparesFrame
    <2>2. QED
      BY <1>1, <1>2, <1>3, <2>1, PreparesInactive DEF FrozenStep, Final, Unlocked
  <1>4. CASE Activates
    BY <1>4 DEF Activates, ActivateBundle, Editable, Final
  <1>5. CASE Allocates
    <2>1. UNCHANGED <<bundle, asset, boxMint>>
      BY <1>5, AllocatesFrame
    <2>2. \A i \in BundleIndex : remaining'[i] <= remaining[i]
      <3>1. PICK b \in BundleIndex : remaining' = [remaining EXCEPT ![b] = @ - 1]
        BY <1>5 DEF Allocates, AllocateTemplateOpen
      <3>2. QED
        BY <3>1, TypedBundle DEF TypeOK
    <2>3. QED
      BY <1>2, <1>5, <2>1, <2>2, AllocatesHeader DEF FrozenStep, Final, Unlocked
  <1>6. CASE Reclaims \/ Claims
    <2>1. UNCHANGED <<template, remaining, bundle, boxMint>>
      BY <1>6, ReclaimsFrame, ClaimsFrame
    <2>2. QED
      BY <1>1, <1>2, <1>6, <2>1, ReleasesKeepTerms DEF FrozenStep, Final, Unlocked
  <1>7. CASE Answers
    BY <1>1, <1>2, <1>7, AnswersFrame, AnswersHeader DEF FrozenStep, Final, Unlocked
  <1>8. CASE Requests
    <2>1. boxMint'.supply <= boxMint.supply
      BY <1>8, RequestsHeader, TypedTemplate
    <2>2. QED
      BY <1>1, <1>8, <2>1, RequestsFrame, RequestsHeader DEF FrozenStep, Final, Unlocked
  <1>9. CASE Closes \/ AdvanceSlot
    <2>1. UNCHANGED <<template, remaining, bundle, asset, boxMint>>
      BY <1>9, ClosesFrame, SlotFrame
    <2>2. QED
      BY <1>1, <1>2, <2>1 DEF FrozenStep, Final, Unlocked
  <1>10. CASE Idles
    BY <1>1, <1>10, IdlesFrame, IdlesHeader DEF FrozenStep
  <1>11. QED
    BY <1>3, <1>4, <1>5, <1>6, <1>7, <1>8, <1>9, <1>10, StepCases

\* Once locked or retired, a treasury offers what it offered: a step adds no
\* ticket, no box and no bundle, and changes no prize of an active one.
THEOREM TermsAlwaysFrozen == Spec => TermsFrozen
  <1>1. TypeOK /\ [Next]_vars => [FrozenStep]_vars
    BY FrozenByStep
  <1>2. Spec => [][FrozenStep]_vars
    BY <1>1, TypeCorrect, PTL DEF Spec
  <1>3. QED
    BY <1>2 DEF FrozenStep, TermsFrozen

-----------------------------------------------------------------------------
(* The inventory.  SelectionLands and AccountsExact are not inductive by   *)
(* themselves; this is the part they need about bundles and tickets.       *)

\* Exactly the first bundles of the template are active; only they hold
\* tickets, and they are completely funded.
Shelf(i) ==
  /\ bundle[i].status = "active" <=> i < template.bundleCount
  /\ bundle[i].status # "active" => remaining[i] = 0
  /\ bundle[i].status = "active" => bundle[i].fundedAssets = bundle[i].assetCount
  /\ bundle[i].status = "active" => bundle[i].activatedRevision <= template.revision
  /\ bundle[i].status # "none" => bundle[i].quantity > 0
  /\ bundle[i].fundedAssets <= bundle[i].assetCount

Inventory ==
  /\ \A i \in BundleIndex : Shelf(i)
  /\ template.remainingBundles = SumFunctionOnSet(remaining, BundleIndex)
  /\ template.remainingBundles <= template.totalBundles

LEMMA BundlesFinite ==
  /\ IsFiniteSet(BundleIndex)
  /\ \A n \in 0 .. MaxBundles + 1 : 0 .. n - 1 \in SUBSET BundleIndex /\ IsFiniteSet(0 .. n - 1)
  <1>1. \A n \in 0 .. MaxBundles + 1 : 0 .. n - 1 \in SUBSET BundleIndex
    BY BoundsAssumption DEF BundleIndex
  <1>2. IsFiniteSet(BundleIndex)
    BY BoundsAssumption, FS_Interval DEF BundleIndex
  <1>3. QED
    BY <1>1, <1>2, FS_Subset

\* Nothing that the inventory speaks about changes.
LEMMA InventoryKept ==
  ASSUME Inventory, bundle' = bundle, remaining' = remaining,
         template'.bundleCount = template.bundleCount,
         template'.revision = template.revision,
         template'.totalBundles = template.totalBundles,
         template'.remainingBundles = template.remainingBundles
  PROVE  Inventory'
  BY DEF Inventory, Shelf

LEMMA PreparesShelf ==
  ASSUME TypeOK, Inventory, Prepares
  PROVE  Inventory'
  <1>1. /\ bundle \in [BundleIndex -> BundleType]
        /\ template.bundleCount \in BundleIndex
    BY TypedTemplate DEF TypeOK, BundleIndex
  <1>2. UNCHANGED <<template, remaining>>
    BY PreparesFrame
  <1>3. SUFFICES ASSUME NEW i \in BundleIndex PROVE Shelf(i)'
    BY <1>2 DEF Inventory
  <1>4. Shelf(i) /\ bundle[i] \in BundleType
    BY <1>1 DEF Inventory
  <1>5. CASE bundle'[i] = bundle[i]
    BY <1>2, <1>4, <1>5 DEF Shelf
  <1>6. ASSUME NEW q \in Quantities, NEW n \in 1 .. MaxAssets, AddBundle(q, n),
               i = template.bundleCount
        PROVE  Shelf(i)'
    <2>1. /\ bundle[i].status = "none"
          /\ bundle'[i] = [NoBundle EXCEPT !.status = "funding", !.quantity = q,
                                           !.assetCount = n]
      BY <1>1, <1>6 DEF AddBundle
    <2>2. /\ bundle'[i].status = "funding"
          /\ bundle'[i].quantity = q
          /\ bundle'[i].fundedAssets = 0
          /\ bundle'[i].assetCount = n
      BY <2>1 DEF NoBundle
    <2>3. q > 0 /\ 0 <= n
      BY <1>6, TermsAssumption, BoundsAssumption
    <2>4. QED
      BY <1>2, <1>4, <2>1, <2>2, <2>3 DEF Shelf
  <1>7. ASSUME NEW p, NEW v, RecordPrize(i, p, v)
        PROVE  Shelf(i)'
    <2>1. /\ bundle[i].status = "funding"
          /\ bundle[i].fundedAssets < bundle[i].assetCount
          /\ bundle'[i] = [bundle[i] EXCEPT !.fundedAssets = bundle[i].fundedAssets + 1]
      BY <1>1, <1>7 DEF RecordPrize
    <2>2. /\ bundle'[i].status = "funding"
          /\ bundle'[i].quantity = bundle[i].quantity
          /\ bundle'[i].fundedAssets = bundle[i].fundedAssets + 1
          /\ bundle'[i].assetCount = bundle[i].assetCount
      BY <1>4, <2>1 DEF BundleType
    <2>3. bundle'[i].fundedAssets <= bundle'[i].assetCount
      BY <1>4, <2>1, <2>2 DEF BundleType
    <2>4. QED
      BY <1>2, <1>4, <2>1, <2>2, <2>3 DEF Shelf
  <1>8. ASSUME CancelBundle(i)
        PROVE  Shelf(i)'
    <2>1. bundle[i].status = "funding" /\ bundle'[i] = NoBundle
      BY <1>1, <1>8 DEF CancelBundle
    <2>2. QED
      BY <1>2, <1>4, <2>1 DEF Shelf, NoBundle
  <1>9. CASE \E q \in Quantities, n \in 1 .. MaxAssets : AddBundle(q, n)
    <2>1. PICK q \in Quantities, n \in 1 .. MaxAssets : AddBundle(q, n)
      BY <1>9
    <2>2. i # template.bundleCount => bundle'[i] = bundle[i]
      BY <1>1, <2>1 DEF AddBundle
    <2>3. QED
      BY <1>5, <1>6, <2>1, <2>2
  <1>10. CASE \E j \in BundleIndex : \E p, v : RecordPrize(j, p, v)
    <2>1. PICK j \in BundleIndex : \E p, v : RecordPrize(j, p, v)
      BY <1>10
    <2>2. i # j => bundle'[i] = bundle[i]
      BY <1>1, <2>1 DEF RecordPrize
    <2>3. QED
      BY <1>5, <1>7, <2>1, <2>2
  <1>11. CASE \E j \in BundleIndex : CancelBundle(j)
    <2>1. PICK j \in BundleIndex : CancelBundle(j)
      BY <1>11
    <2>2. i # j => bundle'[i] = bundle[i]
      BY <1>1, <2>1 DEF CancelBundle
    <2>3. QED
      BY <1>5, <1>8, <2>1, <2>2
  <1>12. QED
    BY <1>9, <1>10, <1>11 DEF Prepares, FundSolPrize, FundTokenPrize, FundMintPrize

\* The numbers of an activation, in the form the sums need.
LEMMA ActivateEffect ==
  ASSUME TypeOK, NEW i \in BundleIndex, ActivateBundle(i)
  PROVE  /\ template'.bundleCount = template.bundleCount + 1
         /\ template'.revision = template.revision + 1
         /\ template'.totalBundles = template.totalBundles + bundle[i].quantity
         /\ template'.remainingBundles = template.remainingBundles + bundle[i].quantity
         /\ template'.nextRequest = template.nextRequest
         /\ template'.nextAllocation = template.nextAllocation
         /\ template'.pendingOpenings = template.pendingOpenings
         /\ template'.receiptsEnabled = template.receiptsEnabled
         /\ template'.status = template.status
         /\ template'.lockedAt = template.lockedAt
         /\ remaining'[i] = bundle[i].quantity
         /\ \A j \in BundleIndex \ {i} : remaining'[j] = remaining[j] /\ bundle'[j] = bundle[j]
         /\ bundle[i].status = "funding"
         /\ bundle[i].fundedAssets = bundle[i].assetCount
         /\ i = template.bundleCount
  BY DEF ActivateBundle, TypeOK, TemplateType

LEMMA ActivatedBundle ==
  ASSUME TypeOK, NEW i \in BundleIndex, ActivateBundle(i)
  PROVE  /\ bundle'[i].status = "active"
         /\ bundle'[i].activatedRevision = template.revision + 1
         /\ bundle'[i].quantity = bundle[i].quantity
         /\ bundle'[i].assetCount = bundle[i].assetCount
         /\ bundle'[i].fundedAssets = bundle[i].fundedAssets
  <1>1. bundle \in [BundleIndex -> BundleType]
    BY DEF TypeOK
  <1>2. bundle'[i] = [bundle[i] EXCEPT !.status = "active",
                                       !.activatedRevision = template.revision + 1]
    BY <1>1 DEF ActivateBundle
  <1>3. QED
    BY <1>1, <1>2 DEF BundleType

LEMMA ActivatesShelf ==
  ASSUME TypeOK, Inventory, Activates
  PROVE  Inventory'
  <1>1. PICK i \in BundleIndex : ActivateBundle(i)
    BY DEF Activates
  <1> DEFINE q == bundle[i].quantity
  <1>2. q \in Nat /\ template.totalBundles \in Nat /\ template.remainingBundles \in Nat
        /\ template.revision \in Nat /\ template.bundleCount \in Nat
    BY TypedTemplate, TypedBundle
  <1>3. remaining[i] = 0 /\ Shelf(i)
    BY <1>1, ActivateEffect DEF Inventory, Shelf
  <1>4. TypeOK'
    BY <1>1, ActivateTypeOK
  <1>5. \A j \in BundleIndex : remaining[j] \in Int /\ remaining'[j] \in Int
    BY <1>4, TypedBundle DEF TypeOK
  <1>6. SumFunctionOnSet(remaining', BundleIndex) =
          SumFunctionOnSet(remaining, BundleIndex) + (remaining'[i] - remaining[i])
    BY <1>1, <1>5, ActivateEffect, BundlesFinite, SumChanged
  <1>7. template'.remainingBundles = SumFunctionOnSet(remaining', BundleIndex)
    BY <1>1, <1>2, <1>3, <1>6, ActivateEffect DEF Inventory
  <1>8. template'.remainingBundles <= template'.totalBundles
    BY <1>1, <1>2, ActivateEffect DEF Inventory
  <1>9. ASSUME NEW j \in BundleIndex PROVE Shelf(j)'
    <2>1. CASE j = i
      <3>1. /\ i < template'.bundleCount
            /\ bundle'[i].activatedRevision <= template'.revision
        BY <1>1, <1>2, ActivateEffect, ActivatedBundle
      <3>2. bundle'[i].quantity > 0 /\ bundle'[i].fundedAssets = bundle'[i].assetCount
        BY <1>1, <1>3, ActivateEffect, ActivatedBundle DEF Shelf
      <3>3. bundle'[i].fundedAssets <= bundle'[i].assetCount
        BY <1>3, <1>1, ActivatedBundle DEF Shelf
      <3>4. QED
        BY <1>1, <2>1, <3>1, <3>2, <3>3, ActivatedBundle DEF Shelf
    <2>2. CASE j # i
      <3>1. Shelf(j) /\ bundle'[j] = bundle[j] /\ remaining'[j] = remaining[j]
        BY <1>1, <2>2, ActivateEffect DEF Inventory
      <3>2. j < template'.bundleCount <=> j < template.bundleCount
        BY <1>1, <1>2, <2>2, ActivateEffect DEF BundleIndex
      <3>3. bundle[j].status = "active" => bundle[j].activatedRevision <= template'.revision
        <4>1. bundle[j].activatedRevision \in Nat
          BY TypedBundle DEF BundleType
        <4>2. QED
          BY <1>1, <1>2, <3>1, <4>1, ActivateEffect DEF Shelf
      <3>4. QED
        BY <3>1, <3>2, <3>3 DEF Shelf
    <2>3. QED
      BY <2>1, <2>2
  <1>10. QED
    BY <1>7, <1>8, <1>9 DEF Inventory

LEMMA AllocatesShelf ==
  ASSUME TypeOK, Inventory, Allocates
  PROVE  Inventory'
  <1>1. PICK r \in Randomness, b \in BundleIndex : AllocateTemplateOpen(r, b)
    BY DEF Allocates
  <1>2. /\ remaining' = [remaining EXCEPT ![b] = remaining[b] - 1]
        /\ bundle[b].status = "active"
        /\ remaining[b] > 0
    BY <1>1 DEF AllocateTemplateOpen
  <1>3. remaining \in [BundleIndex -> Nat]
    BY DEF TypeOK
  <1>4. /\ remaining'[b] = remaining[b] - 1
        /\ \A j \in BundleIndex \ {b} : remaining'[j] = remaining[j]
        /\ \A j \in BundleIndex : remaining[j] \in Int /\ remaining'[j] \in Int
    BY <1>2, <1>3
  <1>5. SumFunctionOnSet(remaining', BundleIndex) =
          SumFunctionOnSet(remaining, BundleIndex) + (remaining'[b] - remaining[b])
    BY <1>4, BundlesFinite, SumChanged
  <1>6. template'.remainingBundles = SumFunctionOnSet(remaining', BundleIndex)
    BY <1>4, <1>5, AllocatesHeader, TypedTemplate DEF Inventory
  <1>7. template'.remainingBundles <= template'.totalBundles
    BY AllocatesHeader, TypedTemplate DEF Inventory
  <1>8. bundle' = bundle
    BY AllocatesFrame
  <1>9. \A j \in BundleIndex : Shelf(j)'
    BY <1>2, <1>4, <1>8, AllocatesHeader DEF Inventory, Shelf
  <1>10. QED
    BY <1>6, <1>7, <1>9 DEF Inventory

LEMMA InventoryStep == TypeOK /\ Inventory /\ [Next]_vars => Inventory'
  <1> SUFFICES ASSUME TypeOK, Inventory, [Next]_vars PROVE Inventory'
    OBVIOUS
  <1>1. CASE Reclaims \/ Claims \/ Closes \/ AdvanceSlot
    BY <1>1, ReclaimsFrame, ClaimsFrame, ClosesFrame, SlotFrame, InventoryKept
  <1>2. CASE Answers
    BY <1>2, AnswersFrame, AnswersHeader, InventoryKept
  <1>3. CASE Requests
    BY <1>3, RequestsFrame, RequestsHeader, InventoryKept
  <1>4. CASE Idles
    BY <1>4, IdlesFrame, IdlesHeader, InventoryKept
  <1>5. QED
    BY <1>1, <1>2, <1>3, <1>4, StepCases, PreparesShelf, ActivatesShelf, AllocatesShelf

LEMMA InitInventory == Init => Inventory
  <1> SUFFICES ASSUME Init PROVE Inventory
    OBVIOUS
  <1>1. template.bundleCount = 0 /\ template.totalBundles = 0 /\ template.remainingBundles = 0
    BY DEF Init
  <1>2. \A i \in BundleIndex : remaining[i] = 0 /\ bundle[i] = NoBundle
    BY DEF Init
  <1>3. SumFunctionOnSet(remaining, BundleIndex) = SumFunctionOnSet(remaining, {})
    BY <1>2, BundlesFinite, SumOfZeros
  <1>4. \A i \in BundleIndex : Shelf(i)
    BY <1>1, <1>2 DEF Shelf, NoBundle, BundleIndex
  <1>5. QED
    BY <1>1, <1>3, <1>4, SumOfNone DEF Inventory

-----------------------------------------------------------------------------
(* The openings.                                                           *)

\* Where an opening stands in the queue, and what it was promised.
Turn(r) ==
  /\ opening[r].status # "none" => opening[r].sequence < template.nextRequest
  /\ opening[r].status \in {"committed", "verified"} =>
       /\ opening[r].claimed = {}
       /\ opening[r].eligible = template.bundleCount
       /\ opening[r].revision = template.revision
  /\ opening[r].status \in {"allocated", "delivered"} =>
       /\ bundle[opening[r].selected].status = "active"
       /\ opening[r].sequence < template.nextAllocation

Turns ==
  /\ template.nextRequest > 0 => Final
  /\ \A r \in Randomness : Turn(r)

\* What the steps of one opening write.
LEMMA AnswersOpening ==
  ASSUME TypeOK, Answers
  PROVE  \E r \in Randomness :
           /\ opening[r].status = "committed"
           /\ opening'[r].status \in {"verified", "forfeited"}
           /\ opening'[r].sequence = opening[r].sequence
           /\ opening'[r].claimed = opening[r].claimed
           /\ opening'[r].eligible = opening[r].eligible
           /\ opening'[r].revision = opening[r].revision
           /\ opening'[r].selected = opening[r].selected
           /\ \A q \in Randomness \ {r} : opening'[q] = opening[q]
  <1>1. opening \in [Randomness -> OpeningType]
    BY DEF TypeOK
  <1>2. CASE \E r \in Randomness, e \in Entropy : FulfillTemplateOpen(r, e)
    BY <1>1, <1>2 DEF FulfillTemplateOpen, OpeningType
  <1>3. CASE \E r \in Randomness : ForfeitTemplateOpen(r)
    BY <1>1, <1>3 DEF ForfeitTemplateOpen, OpeningType
  <1>4. QED
    BY <1>2, <1>3 DEF Answers

LEMMA RequestsOpening ==
  ASSUME TypeOK, Requests
  PROVE  \E r \in Randomness :
           /\ opening[r].status = "none"
           /\ opening'[r].status = "committed"
           /\ opening'[r].sequence = template.nextRequest
           /\ opening'[r].claimed = {}
           /\ opening'[r].eligible = template.bundleCount
           /\ opening'[r].revision = template.revision
           /\ \A q \in Randomness \ {r} : opening'[q] = opening[q]
  <1>1. opening \in [Randomness -> OpeningType]
    BY DEF TypeOK
  <1>2. QED
    BY <1>1 DEF Requests, RequestTemplateOpen, NoOpening

LEMMA AllocatesOpening ==
  ASSUME TypeOK, NEW r \in Randomness, NEW b \in BundleIndex, AllocateTemplateOpen(r, b)
  PROVE  /\ opening[r].status = "verified"
         /\ AtHead(r)
         /\ bundle[b].status = "active"
         /\ opening'[r].status = "allocated"
         /\ opening'[r].selected = b
         /\ opening'[r].sequence = opening[r].sequence
         /\ opening'[r].claimed = opening[r].claimed
         /\ \A q \in Randomness \ {r} : opening'[q] = opening[q]
  <1>1. opening \in [Randomness -> OpeningType]
    BY DEF TypeOK
  <1>2. QED
    BY <1>1 DEF AllocateTemplateOpen, OpeningType

LEMMA RecordsClaim ==
  ASSUME TypeOK, NEW r \in Randomness, NEW s, RecordClaim(r, s)
  PROVE  /\ opening[r].status = "allocated"
         /\ s \notin opening[r].claimed
         /\ opening'[r].claimed = opening[r].claimed \cup {s}
         /\ opening'[r].status \in {"allocated", "delivered"}
         /\ opening'[r].status = "delivered" =>
              opening'[r].claimed = 0 .. bundle[opening[r].selected].assetCount - 1
         /\ opening'[r].sequence = opening[r].sequence
         /\ opening'[r].selected = opening[r].selected
         /\ \A q \in Randomness \ {r} : opening'[q] = opening[q]
  <1>1. opening \in [Randomness -> OpeningType]
    BY DEF TypeOK
  <1>2. QED
    BY <1>1 DEF RecordClaim, OpeningType

LEMMA ClaimsRecord ==
  ASSUME Claims
  PROVE  \E r \in Randomness, s \in SlotIndex : RecordClaim(r, s)
  BY DEF Claims, Claim, ClaimSolPrize, ClaimTokenPrize, ClaimMintPrize

LEMMA ClosesOpening ==
  ASSUME TypeOK, Closes
  PROVE  \E r \in Randomness :
           /\ opening[r].status \in {"delivered", "forfeited"}
           /\ opening'[r].status = "none"
           /\ \A q \in Randomness \ {r} : opening'[q] = opening[q]
  <1>1. opening \in [Randomness -> OpeningType]
    BY DEF TypeOK
  <1>2. QED
    BY <1>1 DEF Closes, CloseTemplateOpening, NoOpening

LEMMA SlotOpening ==
  ASSUME TypeOK, AdvanceSlot, NEW r \in Randomness
  PROVE  /\ opening'[r].status = opening[r].status
         /\ opening'[r].sequence = opening[r].sequence
         /\ opening'[r].revealed = opening[r].revealed
         /\ opening'[r].entropy = opening[r].entropy
         /\ opening'[r].revision = opening[r].revision
         /\ opening'[r].eligible = opening[r].eligible
         /\ opening'[r].selected = opening[r].selected
         /\ opening'[r].claimed = opening[r].claimed
  <1>1. opening[r] \in OpeningType
    BY TypedOpening
  <1>2. opening'[r] = opening[r] \/ opening'[r] = [opening[r] EXCEPT !.age = @ + 1]
    BY DEF AdvanceSlot
  <1>3. QED
    BY <1>1, <1>2 DEF OpeningType

\* A bundle that is active stays so.
LEMMA ActiveStays ==
  ASSUME TypeOK, [Next]_vars, NEW i \in BundleIndex, bundle[i].status = "active"
  PROVE  bundle'[i].status = "active"
  <1>1. CASE Prepares
    BY <1>1, PreparesInactive
  <1>2. CASE Activates
    <2>1. PICK j \in BundleIndex : ActivateBundle(j)
      BY <1>2 DEF Activates
    <2>2. QED
      BY <2>1, ActivateEffect
  <1>3. CASE Allocates \/ Reclaims \/ Claims \/ Answers \/ Requests \/ Closes \/ Idles
             \/ AdvanceSlot
    BY <1>3, AllocatesFrame, ReclaimsFrame, ClaimsFrame, AnswersFrame, RequestsFrame,
       ClosesFrame, IdlesFrame, SlotFrame
  <1>4. QED
    BY <1>1, <1>2, <1>3, StepCases

LEMMA TurnKept ==
  ASSUME TypeOK, Turns, [Next]_vars, NEW r \in Randomness,
         opening'[r].status = opening[r].status,
         opening'[r].sequence = opening[r].sequence,
         opening'[r].claimed = opening[r].claimed,
         opening'[r].eligible = opening[r].eligible,
         opening'[r].revision = opening[r].revision,
         opening'[r].selected = opening[r].selected,
         template'.nextRequest >= template.nextRequest,
         template'.nextAllocation >= template.nextAllocation,
         template'.bundleCount = template.bundleCount,
         template'.revision = template.revision,
         TypeOK'
  PROVE  Turn(r)'
  <1>1. Turn(r) /\ opening[r].selected \in BundleIndex /\ opening[r].sequence \in Nat
    BY TypedOpening DEF Turns
  <1>2. bundle[opening[r].selected].status = "active" =>
          bundle'[opening'[r].selected].status = "active"
    BY <1>1, ActiveStays
  <1>3. /\ template.nextRequest \in Nat /\ template'.nextRequest \in Nat
        /\ template.nextAllocation \in Nat /\ template'.nextAllocation \in Nat
    BY TypedTemplate DEF TypeOK, TemplateType
  <1>4. /\ opening[r].sequence < template.nextRequest =>
             opening'[r].sequence < template'.nextRequest
        /\ opening[r].sequence < template.nextAllocation =>
             opening'[r].sequence < template'.nextAllocation
    BY <1>1, <1>3
  <1>5. QED
    BY <1>1, <1>2, <1>4 DEF Turn

LEMMA TurnsStep == TypeOK /\ Turns /\ [Next]_vars => Turns'
  <1> SUFFICES ASSUME TypeOK, Turns, [Next]_vars PROVE Turns'
    OBVIOUS
  <1>0. /\ TypeOK'
        /\ template.nextRequest \in Nat /\ template.nextAllocation \in Nat
    BY NextTypeOK, TypedTemplate
  <1>1. Final => Final'
    BY FrozenByStep DEF FrozenStep
  <1>2. CASE Activates
    <2>1. PICK i \in BundleIndex : ActivateBundle(i)
      BY <1>2 DEF Activates
    <2>2. ~ Final
      BY <2>1 DEF ActivateBundle, Editable, Final
    <2>3. template'.nextRequest = 0 /\ template.nextRequest = 0
      BY <1>0, <2>1, <2>2, ActivateEffect DEF Turns
    <2>4. opening' = opening
      BY <1>2, ActivatesFrame
    <2>5. \A r \in Randomness : opening[r].status = "none"
      BY <2>3, TypedOpening DEF Turns, Turn
    <2>6. \A r \in Randomness : Turn(r)'
      BY <2>4, <2>5 DEF Turn
    <2>7. QED
      BY <2>3, <2>6 DEF Turns
  <1>3. CASE Prepares \/ Reclaims \/ Idles
    <2>1. /\ opening' = opening
          /\ template'.nextRequest = template.nextRequest
          /\ template'.nextAllocation = template.nextAllocation
          /\ template'.bundleCount = template.bundleCount
          /\ template'.revision = template.revision
      BY <1>3, PreparesFrame, ReclaimsFrame, IdlesFrame, IdlesHeader
    <2>2. \A r \in Randomness : Turn(r)'
      BY <1>0, <2>1, TurnKept
    <2>3. QED
      BY <1>1, <2>1, <2>2 DEF Turns
  <1>4. CASE AdvanceSlot
    <2>1. template' = template
      BY <1>4, SlotFrame
    <2>2. ASSUME NEW r \in Randomness PROVE Turn(r)'
      BY <1>0, <1>4, <2>1, SlotOpening, TurnKept
    <2>3. QED
      BY <1>1, <2>1, <2>2 DEF Turns
  <1>5. CASE Answers
    <2>1. PICK r \in Randomness :
            /\ opening[r].status = "committed"
            /\ opening'[r].status \in {"verified", "forfeited"}
            /\ opening'[r].sequence = opening[r].sequence
            /\ opening'[r].claimed = opening[r].claimed
            /\ opening'[r].eligible = opening[r].eligible
            /\ opening'[r].revision = opening[r].revision
            /\ \A q \in Randomness \ {r} : opening'[q] = opening[q]
      BY <1>5, AnswersOpening
    <2>2. \A q \in Randomness \ {r} : Turn(q)'
      BY <1>0, <1>5, <2>1, AnswersHeader, TurnKept
    <2>3. Turn(r)'
      BY <1>5, <2>1, AnswersHeader DEF Turns, Turn
    <2>4. QED
      BY <1>1, <1>5, <2>2, <2>3, AnswersHeader DEF Turns
  <1>6. CASE Requests
    <2>1. PICK r \in Randomness :
            /\ opening'[r].status = "committed"
            /\ opening'[r].sequence = template.nextRequest
            /\ opening'[r].claimed = {}
            /\ opening'[r].eligible = template.bundleCount
            /\ opening'[r].revision = template.revision
            /\ \A q \in Randomness \ {r} : opening'[q] = opening[q]
      BY <1>6, RequestsOpening
    <2>2. \A q \in Randomness \ {r} : Turn(q)'
      BY <1>0, <1>6, <2>1, RequestsHeader, TurnKept
    <2>3. Turn(r)'
      BY <1>0, <1>6, <2>1, RequestsHeader DEF Turn
    <2>4. QED
      BY <1>1, <1>6, <2>2, <2>3, RequestsHeader DEF Turns
  <1>7. CASE Allocates
    <2>1. PICK r \in Randomness, b \in BundleIndex : AllocateTemplateOpen(r, b)
      BY <1>7 DEF Allocates
    <2>2. \A q \in Randomness \ {r} : Turn(q)'
      BY <1>0, <1>7, <2>1, AllocatesHeader, AllocatesOpening, TurnKept
    <2>3. bundle'[b].status = "active"
      BY <2>1, AllocatesOpening, ActiveStays
    <2>4. opening[r].sequence < template'.nextAllocation
      BY <1>0, <1>7, <2>1, AllocatesOpening, AllocatesHeader DEF AtHead
    <2>5. opening'[r].sequence < template'.nextRequest
      BY <1>7, <2>1, AllocatesOpening, AllocatesHeader DEF Turns, Turn
    <2>6. Turn(r)'
      BY <2>1, <2>3, <2>4, <2>5, AllocatesOpening DEF Turn
    <2>7. QED
      BY <1>1, <1>7, <2>2, <2>6, AllocatesHeader DEF Turns
  <1>8. CASE Claims
    <2>1. PICK r \in Randomness, s \in SlotIndex : RecordClaim(r, s)
      BY <1>8, ClaimsRecord
    <2>2. template' = template /\ bundle' = bundle
      BY <1>8, ClaimsFrame
    <2>3. \A q \in Randomness \ {r} : Turn(q)'
      BY <1>0, <2>1, <2>2, RecordsClaim, TurnKept
    <2>4. Turn(r)'
      BY <2>1, <2>2, RecordsClaim DEF Turns, Turn
    <2>5. QED
      BY <1>1, <2>2, <2>3, <2>4 DEF Turns
  <1>9. CASE Closes
    <2>1. PICK r \in Randomness :
            /\ opening'[r].status = "none"
            /\ \A q \in Randomness \ {r} : opening'[q] = opening[q]
      BY <1>9, ClosesOpening
    <2>2. template' = template
      BY <1>9, ClosesFrame
    <2>3. \A q \in Randomness \ {r} : Turn(q)'
      BY <1>0, <2>1, <2>2, TurnKept
    <2>4. Turn(r)'
      BY <2>1 DEF Turn
    <2>5. QED
      BY <1>1, <2>2, <2>3, <2>4 DEF Turns
  <1>10. QED
    BY <1>2, <1>3, <1>4, <1>5, <1>6, <1>7, <1>8, <1>9, StepCases

LEMMA InitTurns == Init => Turns
  BY DEF Init, Turns, Turn, NoOpening

-----------------------------------------------------------------------------
(* The outcome.                                                            *)

LEMMA SelectsKept ==
  ASSUME remaining' = remaining, NEW r \in Randomness,
         opening'[r].eligible = opening[r].eligible,
         opening'[r].entropy = opening[r].entropy, NEW b
  PROVE  Selects(r, b) <=> Selects(r, b)'
  <1>1. \A n : AvailableInPrefix(n)' = AvailableInPrefix(n)
    BY DEF AvailableInPrefix
  <1>2. QED
    BY <1>1 DEF Selects, BundleForTarget

\* One step of OutcomeFixed.
FixedStep ==
  \A r \in Randomness : opening[r].status = "verified" /\ AtHead(r) =>
    \/ opening'[r].status = "verified" /\ \A b \in BundleIndex :
         Selects(r, b) <=> Selects(r, b)'
    \/ opening'[r].status = "allocated" /\ Selects(r, opening'[r].selected)

LEMMA FixedByStep == TypeOK /\ QueueExact /\ Turns /\ [Next]_vars => FixedStep
  <1> SUFFICES ASSUME TypeOK, QueueExact, Turns, [Next]_vars,
                      NEW r \in Randomness, opening[r].status = "verified", AtHead(r)
               PROVE  \/ opening'[r].status = "verified" /\ \A b \in BundleIndex :
                           Selects(r, b) <=> Selects(r, b)'
                      \/ opening'[r].status = "allocated" /\ Selects(r, opening'[r].selected)
    BY DEF FixedStep
  <1>1. CASE opening'[r] = opening[r] /\ remaining' = remaining
    BY <1>1, SelectsKept
  <1>2. CASE Activates
    <2>1. ~ Final
      BY <1>2 DEF Activates, ActivateBundle, Editable, Final
    <2>2. opening[r].sequence < template.nextRequest /\ opening[r].sequence \in Nat
      BY TypedOpening DEF Turns, Turn
    <2>3. QED
      BY <2>1, <2>2, TypedTemplate DEF Turns
  <1>3. CASE Allocates
    <2>1. PICK q \in Randomness, b \in BundleIndex : AllocateTemplateOpen(q, b)
      BY <1>3 DEF Allocates
    <2>2. opening[q].status = "verified" /\ AtHead(q)
      BY <2>1, AllocatesOpening
    <2>3. q = r
      BY <2>2 DEF QueueExact, Queued, AtHead
    <2>4. Selects(r, b)
      BY <2>1, <2>3 DEF AllocateTemplateOpen
    <2>5. QED
      BY <2>1, <2>3, <2>4, AllocatesOpening
  <1>4. CASE Answers
    BY <1>1, <1>4, AnswersFrame, AnswersOpening
  <1>5. CASE Requests
    BY <1>1, <1>5, RequestsFrame, RequestsOpening
  <1>6. CASE Closes
    BY <1>1, <1>6, ClosesFrame, ClosesOpening
  <1>7. CASE Claims
    <2>1. PICK q \in Randomness, s \in SlotIndex : RecordClaim(q, s)
      BY <1>7, ClaimsRecord
    <2>2. opening'[r] = opening[r]
      BY <2>1, RecordsClaim
    <2>3. QED
      BY <1>1, <1>7, <2>2, ClaimsFrame
  <1>8. CASE AdvanceSlot
    BY <1>8, SlotFrame, SlotOpening, SelectsKept
  <1>9. CASE Prepares \/ Reclaims \/ Idles
    BY <1>1, <1>9, PreparesFrame, ReclaimsFrame, IdlesFrame
  <1>10. QED
    BY <1>2, <1>3, <1>4, <1>5, <1>6, <1>7, <1>8, <1>9, StepCases

\* The inventory, the turns and the queue hold together.
LEMMA OrderInvariant ==
  Spec => [](TypeOK /\ QueueExact /\ Solvent /\ Inventory /\ Turns)
  <1>1. Spec => []Inventory
    BY InitInventory, InventoryStep, TypeCorrect, PTL DEF Spec
  <1>2. Spec => []Turns
    BY InitTurns, TurnsStep, TypeCorrect, PTL DEF Spec
  <1>3. QED
    BY <1>1, <1>2, TypeCorrect, QueueAlwaysExact, AlwaysSolvent, PTL

\* From the oracle's answer on, and whatever else is sent in any order, the
\* opening at the head of the queue wins what its entropy selects.
THEOREM OutcomeIsFixed == Spec => OutcomeFixed
  <1>1. TypeOK /\ QueueExact /\ Turns /\ [Next]_vars => [FixedStep]_vars
    BY FixedByStep
  <1>2. Spec => [][FixedStep]_vars
    BY <1>1, OrderInvariant, PTL DEF Spec
  <1>3. QED
    BY <1>2 DEF FixedStep, OutcomeFixed

-----------------------------------------------------------------------------
(* Every ticket has an owner.                                              *)

\* The eligible prefix of an opening in the queue is the whole inventory.
LEMMA WholeInventory ==
  ASSUME TypeOK, Inventory
  PROVE  AvailableInPrefix(template.bundleCount) = template.remainingBundles
  <1> DEFINE n == template.bundleCount
  <1>1. n \in 0 .. MaxBundles + 1 /\ n \in Nat
    BY TypedTemplate, BoundsAssumption
  <1>2. 0 .. n - 1 \in SUBSET BundleIndex /\ IsFiniteSet(BundleIndex)
    BY <1>1, BundlesFinite
  <1>3. \A i \in BundleIndex \ (0 .. n - 1) : remaining[i] = 0
    <2> SUFFICES ASSUME NEW i \in BundleIndex, i \notin 0 .. n - 1 PROVE remaining[i] = 0
      OBVIOUS
    <2>1. ~ (i < n)
      BY <1>1 DEF BundleIndex
    <2>2. QED
      BY <2>1 DEF Inventory, Shelf
  <1>4. \A i \in BundleIndex : remaining[i] \in Int
    BY TypedBundle
  <1>5. SumFunctionOnSet(remaining, BundleIndex) = SumFunctionOnSet(remaining, 0 .. n - 1)
    BY <1>2, <1>3, <1>4, SumOfZeros
  <1>6. QED
    BY <1>5 DEF Inventory, AvailableInPrefix

LEMMA LandsByInventory ==
  TypeOK /\ QueueExact /\ Solvent /\ Inventory /\ Turns => SelectionLands
  <1> SUFFICES ASSUME TypeOK, QueueExact, Solvent, Inventory, Turns, NEW r \in Queued
               PROVE  LET inventory == AvailableInPrefix(opening[r].eligible)
                      IN /\ inventory = template.remainingBundles
                         /\ inventory \in 1 .. MaxTickets
                         /\ \A target \in 0 .. inventory - 1 :
                              \E b \in BundleIndex :
                                /\ BundleForTarget(opening[r].eligible, target, b)
                                /\ bundle[b].status = "active"
                                /\ bundle[b].activatedRevision <= opening[r].revision
                                /\ remaining[b] > 0
    BY DEF SelectionLands
  <1> DEFINE n == template.bundleCount
             stock == template.remainingBundles
  <1>1. /\ r \in Randomness
        /\ opening[r].eligible = n
        /\ opening[r].revision = template.revision
    BY DEF Queued, Turns, Turn
  <1>2. AvailableInPrefix(n) = stock
    BY WholeInventory
  <1>3. stock \in 1 .. MaxTickets
    <2>1. template.pendingOpenings # 0
      BY QueueFinite, FS_EmptySet DEF QueueExact
    <2>2. /\ boxMint.supply + template.pendingOpenings <= stock
          /\ stock <= template.totalBundles
      BY DEF Solvent, Inventory
    <2>3. QED
      BY <2>1, <2>2, TypedTemplate, BoundsAssumption
  <1>4. n \in Nat /\ \A i \in 0 .. n - 1 : i \in BundleIndex /\ remaining[i] \in Nat
    <2>1. n \in 0 .. MaxBundles
      BY TypedTemplate
    <2>2. n \in Nat /\ \A i \in 0 .. n - 1 : i \in BundleIndex
      BY <2>1, BoundsAssumption DEF BundleIndex
    <2>3. QED
      BY <2>2, TypedBundle
  <1>5. ASSUME NEW target \in 0 .. stock - 1
        PROVE  \E b \in BundleIndex :
                 /\ BundleForTarget(n, target, b)
                 /\ bundle[b].status = "active"
                 /\ bundle[b].activatedRevision <= template.revision
                 /\ remaining[b] > 0
    <2>1. target \in Nat /\ target < SumFunctionOnSet(remaining, 0 .. n - 1)
      BY <1>2, <1>3, <1>5 DEF AvailableInPrefix
    <2>2. PICK b \in 0 .. n - 1 :
            /\ SumFunctionOnSet(remaining, 0 .. b - 1) <= target
            /\ target < SumFunctionOnSet(remaining, 0 .. b + 1 - 1)
            /\ remaining[b] > 0
      BY <1>4, <2>1, PrefixOwner
    <2>3. BundleForTarget(n, target, b)
      BY <2>2 DEF BundleForTarget, AvailableInPrefix
    <2>4. b \in BundleIndex /\ b < n
      BY <1>4, <2>2
    <2>5. bundle[b].status = "active" /\ bundle[b].activatedRevision <= template.revision
      BY <2>4 DEF Inventory, Shelf
    <2>6. QED
      BY <2>2, <2>3, <2>4, <2>5
  <1>6. QED
    BY <1>1, <1>2, <1>3, <1>5

\* The draw of an opening in the queue is never refused: its inventory is
\* what the header says, and every ticket in it belongs to an active bundle
\* of the opening's revision that has a copy left.
THEOREM SelectionAlwaysLands == Spec => []SelectionLands
  BY OrderInvariant, LandsByInventory, PTL

-----------------------------------------------------------------------------
(* Receipts.                                                               *)

\* Receipts are written from the lock on, in the order of the queue.
Filed ==
  /\ IsFiniteSet(receipts)
  /\ Unlocked => receipts = {}
  /\ Unlocked /\ template.status = "retired" => ~template.receiptsEnabled
  /\ \A c \in receipts : c.sequence < template.nextAllocation
  /\ \A c, d \in receipts : c.sequence = d.sequence => c = d

Recorded(r) ==
  opening[r].status \in {"allocated", "delivered"} =>
    Receipt(r, opening[r].selected) \in receipts

Issued ==
  ~Unlocked /\ template.receiptsEnabled =>
    /\ Cardinality(receipts) + template.remainingReceipts = template.totalBundles
    /\ \A r \in Randomness : Recorded(r)

LEMMA ReceiptsKept ==
  ASSUME TypeOK, TypeOK', Filed, Issued, receipts' = receipts,
         template'.nextAllocation >= template.nextAllocation,
         Unlocked' => Unlocked,
         (Unlocked /\ template.status = "retired" => ~template.receiptsEnabled)',
         ~Unlocked' => /\ ~Unlocked
                       /\ template'.receiptsEnabled = template.receiptsEnabled
                       /\ template'.remainingReceipts = template.remainingReceipts
                       /\ template'.totalBundles = template.totalBundles,
         \A r \in Randomness : opening'[r].status \in {"allocated", "delivered"} =>
           /\ opening[r].status \in {"allocated", "delivered"}
           /\ opening'[r].sequence = opening[r].sequence
           /\ opening'[r].selected = opening[r].selected
  PROVE  (Filed /\ Issued)'
  <1>1. template.nextAllocation \in Nat /\ template'.nextAllocation \in Nat
    BY TypedTemplate DEF TypeOK, TemplateType
  <1>2. \A c \in receipts : c.sequence \in Nat
    BY DEF TypeOK, ReceiptType
  <1>3. \A c \in receipts : c.sequence < template'.nextAllocation
    BY <1>1, <1>2 DEF Filed
  <1>4. Filed'
    BY <1>3 DEF Filed
  <1>5. ASSUME NEW r \in Randomness, Recorded(r) PROVE Recorded(r)'
    BY <1>5 DEF Recorded, Receipt
  <1>6. Issued'
    BY <1>5 DEF Issued
  <1>7. QED
    BY <1>4, <1>6

\* An idle step that is not the lock keeps the terms of a locked treasury.
LEMMA IdlesLocked ==
  ASSUME TypeOK, Idles, ~ LockTreasury
  PROVE  /\ template'.lockedAt = template.lockedAt
         /\ ~Unlocked => /\ template'.receiptsEnabled = template.receiptsEnabled
                         /\ template'.remainingReceipts = template.remainingReceipts
         /\ template'.status = "retired" =>
              \/ template.status = "retired" /\ template'.receiptsEnabled = template.receiptsEnabled
              \/ Unlocked => ~template'.receiptsEnabled
  BY ZenonT(40) DEF Idles, SealTemplate, Mints1, MintTemplateBoxes, RetireTemplate, Editable,
         CloseServiceVault, AdvanceClock, BurnBox, WoundUp, vars, TypeOK, TemplateType

LEMMA LockReceipts ==
  ASSUME TypeOK, Turns, Filed, LockTreasury
  PROVE  (Filed /\ Issued)'
  <1>1. /\ receipts' = receipts /\ receipts = {} /\ opening' = opening
        /\ template.nextRequest = 0
        /\ template.status = "live"
    BY DEF LockTreasury, Filed, Pristine
  <1>2. \A r \in Randomness : opening[r].status = "none"
    BY <1>1, TypedOpening DEF Turns, Turn
  <1>3. /\ template'.remainingReceipts =
             IF template.receiptsEnabled THEN template.totalBundles ELSE 0
        /\ template'.receiptsEnabled = template.receiptsEnabled
        /\ template'.totalBundles = template.totalBundles
        /\ template'.status = template.status
    BY DEF LockTreasury, TypeOK, TemplateType
  <1>4. Filed'
    BY <1>1, <1>3, FS_EmptySet DEF Filed
  <1>5. Cardinality(receipts') = 0 /\ template.totalBundles \in Nat
    BY <1>1, FS_EmptySet, TypedTemplate
  <1>6. Issued'
    BY <1>1, <1>2, <1>3, <1>5 DEF Issued, Recorded
  <1>7. QED
    BY <1>4, <1>6

LEMMA DrawReceipts ==
  ASSUME TypeOK, Filed, Issued, Turns, QueueExact,
         NEW r \in Randomness, NEW b \in BundleIndex, AllocateTemplateOpen(r, b)
  PROVE  (Filed /\ Issued)'
  <1> DEFINE c0 == Receipt(r, b)
  <1>0. Allocates
    BY DEF Allocates
  <1>1. /\ opening[r].sequence = template.nextAllocation
        /\ template.nextAllocation \in Nat
        /\ template'.nextAllocation = template.nextAllocation + 1
    BY <1>0, AllocatesOpening, AllocatesHeader, TypedTemplate DEF AtHead
  <1>2. \A c \in receipts : c.sequence \in Nat /\ c.sequence < template.nextAllocation
    BY DEF TypeOK, ReceiptType, Filed
  <1>3. c0.sequence = template.nextAllocation
    BY <1>1 DEF Receipt
  <1>4. c0 \notin receipts
    <2> HIDE DEF c0
    <2>1. QED
      BY <1>1, <1>2, <1>3
  <1>5. IssueReceipt(Drawn(template), r, b)
    BY DEF AllocateTemplateOpen
  <1>6. /\ template.pendingOpenings > 0 /\ template.remainingBundles > 0
    BY DEF AllocateTemplateOpen
  <1>7. /\ Drawn(template) \in TemplateType
        /\ Drawn(template).receiptsEnabled = template.receiptsEnabled
        /\ Drawn(template).remainingReceipts = template.remainingReceipts
    BY <1>6, DrawEffect
  <1>8. receipts' = IF template.receiptsEnabled THEN receipts \cup {c0} ELSE receipts
    BY <1>5, <1>7 DEF IssueReceipt, serviceVars
  <1>9. template.receiptsEnabled =>
          template'.remainingReceipts = template.remainingReceipts - 1
    BY <1>5, <1>7 DEF IssueReceipt, TemplateType
  <1>10. IsFiniteSet(receipts) /\ Cardinality(receipts) \in Nat
    BY FS_CardinalityType DEF Filed
  <1>11. /\ IsFiniteSet(receipts \cup {c0})
         /\ Cardinality(receipts \cup {c0}) = Cardinality(receipts) + 1
    BY <1>4, <1>10, FS_AddElement
  <1>12. Final
    <2>1. opening[r].status = "verified"
      BY AllocatesOpening
    <2>2. opening[r].sequence < template.nextRequest
      BY <2>1 DEF Turns, Turn
    <2>3. template.nextRequest > 0
      BY <1>1, <2>2, TypedTemplate
    <2>4. QED
      BY <2>3 DEF Turns
  <1>13. Filed'
    <2> HIDE DEF c0
    <2>1. IsFiniteSet(receipts')
      BY <1>8, <1>10, <1>11
    <2>2. \A c \in receipts' : c.sequence \in Nat /\ c.sequence < template'.nextAllocation
      BY <1>1, <1>2, <1>3, <1>8
    <2>3. \A c, d \in receipts' : c.sequence = d.sequence => c = d
      BY <1>1, <1>2, <1>3, <1>8 DEF Filed
    <2>4. Unlocked' => receipts' = {}
      <3>1. Unlocked' => Unlocked
        BY <1>0, AllocatesHeader DEF Unlocked
      <3>2. Unlocked => ~ template.receiptsEnabled
        BY <1>12 DEF Final, Filed
      <3>3. QED
        BY <1>8, <3>1, <3>2 DEF Filed
    <2>5. (Unlocked /\ template.status = "retired" => ~template.receiptsEnabled)'
      BY <1>0, AllocatesHeader DEF Filed, Unlocked
    <2>6. QED
      BY <2>1, <2>2, <2>3, <2>4, <2>5 DEF Filed
  <1>14. Issued'
    <2> HIDE DEF c0
    <2>1. ASSUME ~Unlocked', template'.receiptsEnabled
          PROVE  /\ Cardinality(receipts') + template'.remainingReceipts =
                      template'.totalBundles
                 /\ \A q \in Randomness : Recorded(q)'
      <3>1. ~Unlocked /\ template.receiptsEnabled
        BY <1>0, <2>1, AllocatesHeader DEF Unlocked
      <3>2. Cardinality(receipts') + template'.remainingReceipts = template'.totalBundles
        BY <1>0, <1>8, <1>9, <1>10, <1>11, <3>1, AllocatesHeader, TypedTemplate DEF Issued
      <3>3. \A q \in Randomness \ {r} : Recorded(q)'
        BY <1>8, <3>1, AllocatesOpening DEF Issued, Recorded, Receipt
      <3>4. Recorded(r)'
        <4>1. Receipt(r, b)' = c0
          BY AllocatesOpening DEF Receipt, c0
        <4>2. Receipt(r, opening[r].selected)' = c0
          BY AllocatesOpening DEF Receipt, c0
        <4>3. QED
          BY <1>8, <3>1, <4>2 DEF Recorded
      <3>5. QED
        BY <3>2, <3>3, <3>4
    <2>2. QED
      BY <2>1 DEF Issued
  <1>15. QED
    BY <1>13, <1>14

LEMMA FiledStep ==
  TypeOK /\ QueueExact /\ Turns /\ Filed /\ Issued /\ [Next]_vars => (Filed /\ Issued)'
  <1> SUFFICES ASSUME TypeOK, QueueExact, Turns, Filed, Issued, [Next]_vars
               PROVE  (Filed /\ Issued)'
    OBVIOUS
  <1>0. /\ TypeOK'
        /\ template.nextAllocation \in Nat
        /\ Unlocked /\ template.status = "retired" => ~template.receiptsEnabled
    BY NextTypeOK, TypedTemplate DEF Filed
  <1> DEFINE Kept == \A r \in Randomness :
               opening'[r].status \in {"allocated", "delivered"} =>
                 /\ opening[r].status \in {"allocated", "delivered"}
                 /\ opening'[r].sequence = opening[r].sequence
                 /\ opening'[r].selected = opening[r].selected
  <1>1. CASE Allocates
    BY <1>1, DrawReceipts DEF Allocates
  <1>2. CASE LockTreasury
    BY <1>2, LockReceipts
  <1>3. CASE Activates
    <2>1. PICK i \in BundleIndex : ActivateBundle(i)
      BY <1>3 DEF Activates
    <2>2. Unlocked /\ opening' = opening /\ receipts' = receipts
      BY <1>3, <2>1, ActivatesFrame DEF ActivateBundle, Editable
    <2>3. QED
      BY <1>0, <2>1, <2>2, ActivateEffect, ReceiptsKept DEF Unlocked
  <1>4. CASE Prepares \/ Reclaims \/ Closes \/ AdvanceSlot \/ Claims
    <2>1. template' = template /\ receipts' = receipts
      BY <1>4, PreparesFrame, ReclaimsFrame, ClosesFrame, SlotFrame, ClaimsFrame
    <2>2. Kept
      <3>1. CASE Prepares \/ Reclaims
        BY <3>1, PreparesFrame, ReclaimsFrame
      <3>2. CASE Closes
        BY <3>2, ClosesOpening
      <3>3. CASE AdvanceSlot
        BY <3>3, SlotOpening
      <3>4. CASE Claims
        <4>1. PICK q \in Randomness, s \in SlotIndex : RecordClaim(q, s)
          BY <3>4, ClaimsRecord
        <4>2. QED
          BY <4>1, RecordsClaim
      <3>5. QED
        BY <1>4, <3>1, <3>2, <3>3, <3>4
    <2>3. QED
      BY <1>0, <2>1, <2>2, ReceiptsKept DEF Unlocked
  <1>5. CASE Answers
    <2>1. Kept
      BY <1>5, AnswersOpening
    <2>2. QED
      BY <1>0, <1>5, <2>1, AnswersFrame, AnswersHeader, ReceiptsKept DEF Unlocked
  <1>6. CASE Requests
    <2>1. Kept
      BY <1>6, RequestsOpening
    <2>2. QED
      BY <1>0, <1>6, <2>1, RequestsFrame, RequestsHeader, ReceiptsKept DEF Unlocked
  <1>7. CASE Idles /\ ~ LockTreasury
    <2>1. (Unlocked /\ template.status = "retired" => ~template.receiptsEnabled)'
      BY <1>0, <1>7, IdlesLocked DEF Unlocked
    <2>2. QED
      BY <1>0, <1>7, <2>1, IdlesFrame, IdlesHeader, IdlesLocked, ReceiptsKept DEF Unlocked
  <1>8. QED
    BY <1>1, <1>2, <1>3, <1>4, <1>5, <1>6, <1>7, StepCases

LEMMA InitFiled == Init => Filed /\ Issued
  <1> SUFFICES ASSUME Init PROVE Filed /\ Issued
    OBVIOUS
  <1>1. receipts = {} /\ template.lockedAt = 0 /\ template.status = "draft"
    BY DEF Init
  <1>2. QED
    BY <1>1, FS_EmptySet DEF Filed, Issued, Unlocked

\* With QueueExact, what is filed has had its turn.
LEMMA ReceiptsByFiled == TypeOK /\ QueueExact /\ Filed /\ Issued => ReceiptsExact
  <1> SUFFICES ASSUME TypeOK, QueueExact, Filed, Issued PROVE ReceiptsExact
    OBVIOUS
  <1>1. ASSUME NEW c \in receipts, NEW r \in Queued PROVE c.sequence # opening[r].sequence
    <2>1. c.sequence \in Nat /\ c.sequence < template.nextAllocation
      BY DEF TypeOK, ReceiptType, Filed
    <2>2. opening[r].sequence \in template.nextAllocation .. template.nextRequest - 1
      BY DEF QueueExact
    <2>3. QED
      BY <2>1, <2>2, TypedTemplate
  <1>2. QED
    BY <1>1 DEF ReceiptsExact, Issued, Filed, Recorded

-----------------------------------------------------------------------------
(* The escrow.  EscrowExact speaks of active bundles; the invariant speaks *)
(* of every funded slot, so that it holds when a bundle becomes active.    *)

\* What is recorded in a slot, and the value that backs it.
Sound(i, s) ==
  LET a == asset[i][s]
  IN /\ a.kind \in PrizeKinds
     /\ a.kind = "badge" => a.mint \in Badges
     /\ a.claimed <= bundle[i].quantity
     /\ bundle[i].status = "funding" =>
          a.claimed = IF a.reclaimed THEN bundle[i].quantity ELSE 0
     /\ a.kind # "badge" => a.held = a.amount * (bundle[i].quantity - a.claimed)

\* No other slot of the bundle has the mint.
Apart(i, s) ==
  \A t \in FundedSlots(i) : t # s => asset[i][t].mint # asset[i][s].mint

\* The bundle holds a badge's authority until its last copy is released.
Minted(i, s) ==
  asset[i][s].kind = "badge" =>
    badge[asset[i][s].mint] =
      IF asset[i][s].claimed = bundle[i].quantity THEN Revoked ELSE Held(i)

\* Nothing is reclaimed while a box may still win it.
Recovered(i, s) ==
  bundle[i].status = "active" /\ asset[i][s].reclaimed =>
    template.status = "retired" /\ NothingOutstanding

\* The unreleased copies are those of winners and those undrawn.
Counted(i, s) ==
  bundle[i].status = "active" =>
    bundle[i].quantity - asset[i][s].claimed =
      Cardinality(Winners(i, s)) + (IF asset[i][s].reclaimed THEN 0 ELSE remaining[i])

Slots ==
  \A i \in BundleIndex : \A s \in FundedSlots(i) :
    Sound(i, s) /\ Apart(i, s) /\ Minted(i, s) /\ Recovered(i, s) /\ Counted(i, s)

LEMMA FundedIndex ==
  ASSUME TypeOK, NEW i \in BundleIndex, NEW s \in FundedSlots(i)
  PROVE  s \in SlotIndex /\ s < bundle[i].fundedAssets
  BY TypedBundle, BoundsAssumption DEF FundedSlots, SlotIndex

LEMMA WinnersFinite ==
  ASSUME NEW i, NEW s
  PROVE  /\ IsFiniteSet(Winners(i, s))
         /\ Cardinality(Winners(i, s)) \in Nat
  <1>1. Winners(i, s) \in SUBSET Randomness /\ IsFiniteSet(Randomness)
    BY TermsAssumption DEF Winners
  <1>2. QED
    BY <1>1, FS_Subset, FS_CardinalityType

LEMMA LessCopies ==
  ASSUME NEW a \in Nat, NEW n \in Nat, NEW k \in Nat
  PROVE  a * n - a * k = a * (n - k)
  OBVIOUS

\* The three kinds of authority are different.
LEMMA Authorities ==
  ASSUME NEW i \in BundleIndex, NEW j \in BundleIndex
  PROVE  /\ Held(i) # Creator
         /\ Held(i) # Revoked
         /\ Creator # Revoked
         /\ Held(i) = Held(j) => i = j
  BY DEF Held, Creator, Revoked

\* A claim, seen from the slot that is claimed and from the others.
LEMMA ClaimsSlot ==
  ASSUME TypeOK, Inventory, Turns, Claims
  PROVE  \E r \in Randomness, b \in BundleIndex, s \in SlotIndex :
           /\ RecordClaim(r, s)
           /\ b = opening[r].selected
           /\ bundle[b].status = "active"
           /\ s \in FundedSlots(b)
           /\ asset[b][s].claimed < bundle[b].quantity
           /\ \A i \in BundleIndex, t \in SlotIndex :
                <<i, t>> # <<b, s>> => asset'[i][t] = asset[i][t]
           /\ \E v \in Nat :
                /\ asset'[b][s] = Release(asset[b][s], 1, v)
                /\ asset[b][s].kind # "badge" => v = asset[b][s].amount
           /\ \/ asset[b][s].kind # "badge" /\ badge' = badge
              \/ /\ asset[b][s].kind = "badge"
                 /\ badge[asset[b][s].mint] = Held(b)
                 /\ badge' = IF asset[b][s].claimed + 1 = bundle[b].quantity
                               THEN [badge EXCEPT ![asset[b][s].mint] = Revoked] ELSE badge
  <1>1. PICK r \in Randomness, s \in SlotIndex : Claim(r, s)
    BY DEF Claims
  <1>2. RecordClaim(r, s)
    BY <1>1 DEF Claim, ClaimSolPrize, ClaimTokenPrize, ClaimMintPrize
  <1>3. PICK b \in BundleIndex : b = opening[r].selected /\ bundle[b].status = "active"
    BY <1>2, TypedOpening DEF RecordClaim, Turns, Turn
  <1>4. s \in FundedSlots(b) /\ asset[b][s].claimed < bundle[b].quantity
    <2>1. s < bundle[b].assetCount /\ bundle[b].fundedAssets = bundle[b].assetCount
      BY <1>2, <1>3 DEF RecordClaim, Inventory, Shelf
    <2>2. bundle[b].fundedAssets \in Nat /\ s \in Nat
      BY <1>3, TypedBundle, BoundsAssumption DEF SlotIndex
    <2>3. asset[b][s].claimed < bundle[b].quantity
      BY <1>2, <1>3 DEF RecordClaim
    <2>4. QED
      BY <2>1, <2>2, <2>3 DEF FundedSlots
  <1>5. asset \in [BundleIndex -> [SlotIndex -> AssetType]] /\ asset[b][s].amount \in Nat
    BY <1>3, TypedAsset DEF TypeOK
  <1>6. ASSUME NEW v, asset' = [asset EXCEPT ![b][s] = Release(asset[b][s], 1, v)]
        PROVE  /\ asset'[b][s] = Release(asset[b][s], 1, v)
               /\ \A i \in BundleIndex, t \in SlotIndex :
                    <<i, t>> # <<b, s>> => asset'[i][t] = asset[i][t]
    BY <1>3, <1>5, <1>6
  <1>7. CASE ClaimSolPrize(r, s) \/ ClaimTokenPrize(r, s)
    <2>1. /\ asset' = [asset EXCEPT ![b][s] = Release(asset[b][s], 1, asset[b][s].amount)]
          /\ badge' = badge
          /\ asset[b][s].kind # "badge"
      BY <1>3, <1>7 DEF ClaimSolPrize, ClaimTokenPrize, NativeKinds, TokenKinds
    <2>2. \E v \in Nat : /\ asset'[b][s] = Release(asset[b][s], 1, v)
                         /\ asset[b][s].kind # "badge" => v = asset[b][s].amount
      BY <1>5, <1>6, <2>1
    <2>3. \A i \in BundleIndex, t \in SlotIndex :
            <<i, t>> # <<b, s>> => asset'[i][t] = asset[i][t]
      BY <1>6, <2>1
    <2>4. QED
      BY <1>2, <1>3, <1>4, <2>1, <2>2, <2>3
  <1>8. CASE ClaimMintPrize(r, s)
    <2>1. /\ asset' = [asset EXCEPT ![b][s] = Release(asset[b][s], 1, 0)]
          /\ asset[b][s].kind = "badge"
          /\ badge[asset[b][s].mint] = Held(b)
          /\ badge' = IF asset[b][s].claimed + 1 = bundle[b].quantity
                        THEN [badge EXCEPT ![asset[b][s].mint] = Revoked] ELSE badge
      BY <1>3, <1>8 DEF ClaimMintPrize, LastCopy
    <2>2. \E v \in Nat : /\ asset'[b][s] = Release(asset[b][s], 1, v)
                         /\ asset[b][s].kind # "badge" => v = asset[b][s].amount
      BY <1>6, <2>1
    <2>3. \A i \in BundleIndex, t \in SlotIndex :
            <<i, t>> # <<b, s>> => asset'[i][t] = asset[i][t]
      BY <1>6, <2>1
    <2>4. QED
      BY <1>2, <1>3, <1>4, <2>1, <2>2, <2>3
  <1>9. QED
    BY <1>1, <1>7, <1>8 DEF Claim

\* A reclaim, in the same way.
LEMMA ReclaimsSlot ==
  ASSUME TypeOK, Reclaims
  PROVE  \E b \in BundleIndex, s \in SlotIndex, n \in Nat :
           /\ n = Unused(b)
           /\ s \in FundedSlots(b)
           /\ ~ asset[b][s].reclaimed
           /\ asset[b][s].claimed + n <= bundle[b].quantity
           /\ bundle[b].status = "active" =>
                template.status = "retired" /\ NothingOutstanding
           /\ \A i \in BundleIndex, t \in SlotIndex :
                <<i, t>> # <<b, s>> => asset'[i][t] = asset[i][t]
           /\ \E v \in Nat :
                /\ asset'[b][s] = Reclaim(asset[b][s], n, v)
                /\ asset[b][s].kind # "badge" => v = asset[b][s].amount * n
           /\ \/ asset[b][s].kind # "badge" /\ badge' = badge
              \/ /\ asset[b][s].kind = "badge"
                 /\ badge[asset[b][s].mint] = Held(b)
                 /\ badge' = IF asset[b][s].claimed + n = bundle[b].quantity
                               THEN [badge EXCEPT ![asset[b][s].mint] = Revoked] ELSE badge
  <1>1. PICK b \in BundleIndex, s \in SlotIndex :
          ReclaimSolPrize(b, s) \/ ReclaimTokenPrize(b, s) \/ ReclaimMintPrize(b, s)
    BY DEF Reclaims
  <1> DEFINE n == Unused(b)
  <1>2. ReclaimAllowed(b, s)
    BY <1>1 DEF ReclaimSolPrize, ReclaimTokenPrize, ReclaimMintPrize
  <1>3. /\ s \in FundedSlots(b)
        /\ ~ asset[b][s].reclaimed
        /\ asset[b][s].claimed + n <= bundle[b].quantity
        /\ bundle[b].status = "active" => template.status = "retired" /\ NothingOutstanding
    BY <1>2 DEF ReclaimAllowed
  <1>4. n \in Nat /\ asset[b][s].amount \in Nat
    BY TypedBundle, TypedAsset DEF Unused
  <1>5. asset \in [BundleIndex -> [SlotIndex -> AssetType]] /\ asset[b][s].amount * n \in Nat
    BY <1>4 DEF TypeOK
  <1>6. ASSUME NEW v, asset' = [asset EXCEPT ![b][s] = Reclaim(asset[b][s], n, v)]
        PROVE  /\ asset'[b][s] = Reclaim(asset[b][s], n, v)
               /\ \A i \in BundleIndex, t \in SlotIndex :
                    <<i, t>> # <<b, s>> => asset'[i][t] = asset[i][t]
    BY <1>5, <1>6
  <1>7. CASE ReclaimSolPrize(b, s) \/ ReclaimTokenPrize(b, s)
    <2>1. /\ asset' = [asset EXCEPT ![b][s] = Reclaim(asset[b][s], n, asset[b][s].amount * n)]
          /\ badge' = badge
          /\ asset[b][s].kind # "badge"
      BY <1>7 DEF ReclaimSolPrize, ReclaimTokenPrize, NativeKinds, TokenKinds
    <2> HIDE DEF n
    <2>2. QED
      BY <1>3, <1>4, <1>5, <1>6, <2>1 DEF n
  <1>8. CASE ReclaimMintPrize(b, s)
    <2>1. /\ asset' = [asset EXCEPT ![b][s] = Reclaim(asset[b][s], n, 0)]
          /\ asset[b][s].kind = "badge"
          /\ badge[asset[b][s].mint] = Held(b)
          /\ badge' = IF asset[b][s].claimed + n = bundle[b].quantity
                        THEN [badge EXCEPT ![asset[b][s].mint] = Revoked] ELSE badge
      BY <1>8 DEF ReclaimMintPrize, LastCopy
    <2> HIDE DEF n
    <2>2. QED
      BY <1>3, <1>4, <1>6, <2>1, ZenonT(40) DEF n
  <1>9. QED
    BY <1>1, <1>7, <1>8

\* Funding: a slot was there before, or is the one that takes the prize.
LEMMA PreparesSlot ==
  ASSUME TypeOK, Prepares, NEW i \in BundleIndex, NEW s \in FundedSlots(i)'
  PROVE  /\ bundle'[i].status = bundle[i].status
         /\ bundle'[i].quantity = bundle[i].quantity
         /\ \/ /\ s \in FundedSlots(i)
               /\ FundedSlots(i)' = FundedSlots(i)
               /\ asset'[i] = asset[i]
            \/ \E p \in Prizes : \E v :
                 /\ bundle[i].status = "funding"
                 /\ FundedSlots(i)' = FundedSlots(i) \cup {bundle[i].fundedAssets}
                 /\ bundle[i].fundedAssets \notin FundedSlots(i)
                 /\ bundle[i].fundedAssets \in SlotIndex
                 /\ \A t \in FundedSlots(i) : asset[i][t].mint # p.mint
                 /\ asset'[i] = [asset[i] EXCEPT ![bundle[i].fundedAssets] =
                      [kind |-> p.kind, mint |-> p.mint, amount |-> p.amount,
                       claimed |-> 0, reclaimed |-> FALSE, held |-> v]]
                 /\ p.kind # "badge" => v = p.amount * bundle[i].quantity
                 /\ p.kind = "badge" =>
                      badge[p.mint] = Creator /\ badge' = [badge EXCEPT ![p.mint] = Held(i)]
  <1>1. /\ bundle \in [BundleIndex -> BundleType]
        /\ asset \in [BundleIndex -> [SlotIndex -> AssetType]]
        /\ template.bundleCount \in BundleIndex
        /\ bundle[i] \in BundleType
        /\ bundle[i].fundedAssets \in 0 .. MaxAssets
        /\ bundle[i].assetCount \in 0 .. MaxAssets
        /\ s \in 0 .. bundle'[i].fundedAssets - 1
    BY TypedTemplate, TypedBundle DEF TypeOK, BundleIndex, FundedSlots
  <1>2. CASE bundle'[i] = bundle[i] /\ asset'[i] = asset[i]
    BY <1>2 DEF FundedSlots
  <1>3. ASSUME NEW q, NEW n, AddBundle(q, n), i = template.bundleCount
        PROVE  FALSE
    <2>1. bundle'[i] = [NoBundle EXCEPT !.status = "funding", !.quantity = q, !.assetCount = n]
      BY <1>1, <1>3 DEF AddBundle
    <2>2. bundle'[i].fundedAssets = 0
      BY <2>1 DEF NoBundle
    <2>3. QED
      BY <1>1, <2>2
  <1>4. ASSUME CancelBundle(i)
        PROVE  FALSE
    <2>1. bundle'[i].fundedAssets = 0
      BY <1>1, <1>4 DEF CancelBundle, NoBundle
    <2>2. QED
      BY <1>1, <2>1
  <1>5. ASSUME NEW p \in Prizes, NEW v, RecordPrize(i, p, v)
        PROVE  /\ bundle'[i].status = bundle[i].status
               /\ bundle'[i].quantity = bundle[i].quantity
               /\ bundle[i].status = "funding"
               /\ FundedSlots(i)' = FundedSlots(i) \cup {bundle[i].fundedAssets}
               /\ bundle[i].fundedAssets \notin FundedSlots(i)
               /\ bundle[i].fundedAssets \in SlotIndex
               /\ \A t \in FundedSlots(i) : asset[i][t].mint # p.mint
               /\ asset'[i] = [asset[i] EXCEPT ![bundle[i].fundedAssets] =
                    [kind |-> p.kind, mint |-> p.mint, amount |-> p.amount,
                     claimed |-> 0, reclaimed |-> FALSE, held |-> v]]
    <2> DEFINE f == bundle[i].fundedAssets
    <2>1. bundle'[i] = [bundle[i] EXCEPT !.fundedAssets = f + 1]
      BY <1>1, <1>5 DEF RecordPrize
    <2>2. /\ bundle'[i].status = bundle[i].status
          /\ bundle'[i].quantity = bundle[i].quantity
          /\ bundle'[i].fundedAssets = f + 1
      BY <1>1, <2>1 DEF BundleType
    <2>3. f < bundle[i].assetCount
      BY <1>5 DEF RecordPrize
    <2>4. f \in SlotIndex /\ f \notin FundedSlots(i)
      BY <1>1, <2>3, BoundsAssumption DEF SlotIndex, FundedSlots
    <2>5. FundedSlots(i)' = FundedSlots(i) \cup {f}
      <3>0. f \in Nat
        BY <1>1, BoundsAssumption
      <3>1. 0 .. (f + 1) - 1 = (0 .. f - 1) \cup {f}
        BY <3>0
      <3>2. QED
        BY <2>2, <3>1 DEF FundedSlots
    <2>6. asset'[i] = [asset[i] EXCEPT ![f] =
            [kind |-> p.kind, mint |-> p.mint, amount |-> p.amount,
             claimed |-> 0, reclaimed |-> FALSE, held |-> v]]
      BY <1>1, <1>5 DEF RecordPrize
    <2>7. bundle[i].status = "funding" /\ \A t \in FundedSlots(i) : asset[i][t].mint # p.mint
      BY <1>5 DEF RecordPrize
    <2>8. QED
      BY <2>2, <2>4, <2>5, <2>6, <2>7
  <1>6. CASE \E q \in Quantities, n \in 1 .. MaxAssets : AddBundle(q, n)
    <2>1. PICK q \in Quantities, n \in 1 .. MaxAssets : AddBundle(q, n)
      BY <1>6
    <2>2. i # template.bundleCount
      BY <1>3, <2>1
    <2>3. bundle'[i] = bundle[i] /\ asset'[i] = asset[i]
      BY <1>1, <2>1, <2>2 DEF AddBundle
    <2>4. QED
      BY <1>2, <2>3
  <1>7. CASE \E j \in BundleIndex : CancelBundle(j)
    <2>1. PICK j \in BundleIndex : CancelBundle(j)
      BY <1>7
    <2>2. i # j
      BY <1>4, <2>1
    <2>3. bundle'[i] = bundle[i] /\ asset'[i] = asset[i]
      BY <1>1, <2>1, <2>2 DEF CancelBundle
    <2>4. QED
      BY <1>2, <2>3
  <1>8. ASSUME NEW j \in BundleIndex, NEW p \in Prizes,
               FundSolPrize(j, p) \/ FundTokenPrize(j, p)
        PROVE  p.kind # "badge" /\ RecordPrize(j, p, p.amount * bundle[j].quantity)
    BY <1>8 DEF FundSolPrize, FundTokenPrize, NativeKinds, TokenKinds
  <1>9. ASSUME NEW j \in BundleIndex, NEW p \in Prizes, FundMintPrize(j, p)
        PROVE  /\ p.kind = "badge"
               /\ RecordPrize(j, p, 0)
               /\ badge[p.mint] = Creator
               /\ badge' = [badge EXCEPT ![p.mint] = Held(j)]
    BY <1>9 DEF FundMintPrize
  <1>10. CASE \E j \in BundleIndex, p \in Prizes :
               FundSolPrize(j, p) \/ FundTokenPrize(j, p) \/ FundMintPrize(j, p)
    <2>1. PICK j \in BundleIndex, p \in Prizes :
            FundSolPrize(j, p) \/ FundTokenPrize(j, p) \/ FundMintPrize(j, p)
      BY <1>10
    <2>2. PICK v : /\ RecordPrize(j, p, v)
                   /\ p.kind # "badge" => v = p.amount * bundle[j].quantity
      BY <1>8, <1>9, <2>1
    <2>3. p.kind = "badge" =>
            badge[p.mint] = Creator /\ badge' = [badge EXCEPT ![p.mint] = Held(j)]
      BY <1>8, <1>9, <2>1
    <2>4. CASE i = j
      <3>1. RecordPrize(i, p, v)
        BY <2>2, <2>4
      <3>2. p.kind # "badge" => v = p.amount * bundle[i].quantity
        BY <2>2, <2>4
      <3>3. p.kind = "badge" =>
              badge[p.mint] = Creator /\ badge' = [badge EXCEPT ![p.mint] = Held(i)]
        BY <2>3, <2>4
      <3> HIDE <2>1, <2>2, <2>3, <2>4
      <3>4. /\ bundle'[i].status = bundle[i].status
            /\ bundle'[i].quantity = bundle[i].quantity
        BY <1>5, <3>1
      <3>5. /\ bundle[i].status = "funding"
            /\ FundedSlots(i)' = FundedSlots(i) \cup {bundle[i].fundedAssets}
            /\ bundle[i].fundedAssets \notin FundedSlots(i)
            /\ bundle[i].fundedAssets \in SlotIndex
            /\ \A t \in FundedSlots(i) : asset[i][t].mint # p.mint
            /\ asset'[i] = [asset[i] EXCEPT ![bundle[i].fundedAssets] =
                 [kind |-> p.kind, mint |-> p.mint, amount |-> p.amount,
                  claimed |-> 0, reclaimed |-> FALSE, held |-> v]]
        BY <1>5, <3>1
      <3>6. QED
        BY <3>2, <3>3, <3>4, <3>5
    <2>5. CASE i # j
      <3>1. bundle'[i] = bundle[i] /\ asset'[i] = asset[i]
        BY <1>1, <2>2, <2>5 DEF RecordPrize
      <3>2. QED
        BY <1>2, <3>1
    <2>6. QED
      BY <2>4, <2>5
  <1>11. QED
    BY <1>6, <1>7, <1>10 DEF Prepares

\* Once nothing is outstanding in a retired template, nothing will be.
LEMMA OutstandingStays ==
  ASSUME TypeOK, [Next]_vars, template.status = "retired", NothingOutstanding
  PROVE  template'.status = "retired" /\ NothingOutstanding'
  <1>0. TypeOK'
    BY NextTypeOK
  <1>1. /\ template.pendingOpenings = 0 /\ boxMint.supply = 0
        /\ template'.pendingOpenings \in Nat /\ boxMint'.supply \in Nat
    BY <1>0, TypedTemplate DEF NothingOutstanding, TypeOK, TemplateType
  <1>2. CASE Prepares \/ Reclaims \/ Claims \/ Closes \/ AdvanceSlot
    BY <1>2, PreparesFrame, ReclaimsFrame, ClaimsFrame, ClosesFrame, SlotFrame
       DEF NothingOutstanding
  <1>3. CASE Activates
    BY <1>3 DEF Activates, ActivateBundle, Editable
  <1>4. CASE Allocates
    BY <1>1, <1>4 DEF Allocates, AllocateTemplateOpen
  <1>5. CASE Answers
    BY <1>1, <1>5, AnswersFrame, AnswersHeader DEF NothingOutstanding
  <1>6. CASE Requests
    BY <1>1, <1>6, RequestsHeader
  <1>7. CASE Idles
    BY <1>1, <1>7, IdlesHeader DEF NothingOutstanding
  <1>8. QED
    BY <1>2, <1>3, <1>4, <1>5, <1>6, <1>7, StepCases

LEMMA WinnersKept ==
  ASSUME NEW i, NEW s,
         \A r \in Randomness :
           /\ opening'[r].status = "allocated" <=> opening[r].status = "allocated"
           /\ opening[r].status = "allocated" =>
                /\ opening'[r].selected = opening[r].selected
                /\ opening'[r].claimed = opening[r].claimed
  PROVE  Winners(i, s)' = Winners(i, s)
  BY DEF Winners

\* The steps that leave bundles, prizes and their winners alone.
LEMMA QuietSlots ==
  ASSUME TypeOK, Slots, [Next]_vars,
         Answers \/ Requests \/ Closes \/ Idles \/ AdvanceSlot
  PROVE  Slots'
  <1>1. bundle' = bundle /\ asset' = asset /\ badge' = badge /\ remaining' = remaining
    BY AnswersFrame, RequestsFrame, ClosesFrame, IdlesFrame, SlotFrame
  <1>2. ASSUME NEW i, NEW s PROVE Winners(i, s)' = Winners(i, s)
    <2>1. CASE Answers
      BY <2>1, AnswersOpening, WinnersKept
    <2>2. CASE Requests
      BY <2>2, RequestsOpening, WinnersKept
    <2>3. CASE Closes
      BY <2>3, ClosesOpening, WinnersKept
    <2>4. CASE Idles
      BY <2>4, IdlesFrame DEF Winners
    <2>5. CASE AdvanceSlot
      BY <2>5, SlotOpening, WinnersKept
    <2>6. QED
      BY <2>1, <2>2, <2>3, <2>4, <2>5
  <1>3. \A i : FundedSlots(i)' = FundedSlots(i)
    BY <1>1 DEF FundedSlots
  <1>4. SUFFICES ASSUME NEW i \in BundleIndex, NEW s \in FundedSlots(i)
                 PROVE  (Sound(i, s) /\ Apart(i, s) /\ Minted(i, s)
                          /\ Recovered(i, s) /\ Counted(i, s))'
    BY <1>3 DEF Slots
  <1>5. Sound(i, s) /\ Apart(i, s) /\ Minted(i, s) /\ Recovered(i, s) /\ Counted(i, s)
    BY DEF Slots
  <1>6. Sound(i, s)' /\ Minted(i, s)'
    BY <1>1, <1>5 DEF Sound, Minted
  <1>7. Apart(i, s)'
    BY <1>1, <1>3, <1>5 DEF Apart
  <1>8. Recovered(i, s)'
    BY <1>1, <1>5, OutstandingStays DEF Recovered
  <1>9. Counted(i, s)'
    BY <1>1, <1>2, <1>5 DEF Counted
  <1>10. QED
    BY <1>6, <1>7, <1>8, <1>9

\* A badge that is being handed to a bundle was in no slot.
LEMMA PreparesBadge ==
  ASSUME Prepares
  PROVE  \/ badge' = badge
         \/ \E j \in BundleIndex : \E m :
              badge[m] = Creator /\ badge' = [badge EXCEPT ![m] = Held(j)]
  BY DEF Prepares, AddBundle, FundSolPrize, FundTokenPrize, FundMintPrize, CancelBundle

LEMMA PreparesMinted ==
  ASSUME TypeOK, Prepares, NEW i \in BundleIndex, NEW s \in SlotIndex,
         asset[i][s].kind = "badge" => asset[i][s].mint \in Badges,
         Minted(i, s), asset'[i][s] = asset[i][s],
         bundle'[i].quantity = bundle[i].quantity
  PROVE  Minted(i, s)'
  <1> DEFINE m == asset[i][s].mint
  <1> SUFFICES ASSUME asset[i][s].kind = "badge" PROVE badge'[m] = badge[m]
    BY DEF Minted
  <1>1. m \in Badges /\ badge[m] # Creator
    BY Authorities DEF Minted
  <1> HIDE DEF m
  <1>2. ASSUME NEW j \in BundleIndex, NEW n, badge[n] = Creator,
               badge' = [badge EXCEPT ![n] = Held(j)]
        PROVE  badge'[m] = badge[m]
    BY <1>1, <1>2 DEF TypeOK
  <1>3. QED
    BY <1>2, PreparesBadge

LEMMA PreparesSlots ==
  ASSUME TypeOK, Inventory, Slots, Prepares
  PROVE  Slots'
  <1> SUFFICES ASSUME NEW i \in BundleIndex, NEW s \in FundedSlots(i)'
               PROVE  (Sound(i, s) /\ Apart(i, s) /\ Minted(i, s)
                        /\ Recovered(i, s) /\ Counted(i, s))'
    BY DEF Slots
  <1>1. UNCHANGED <<template, remaining, boxMint, opening>>
    BY PreparesFrame
  <1>2. /\ bundle'[i].status = bundle[i].status
        /\ bundle'[i].quantity = bundle[i].quantity
    BY PreparesSlot
  <1>3. \A t : Winners(i, t)' = Winners(i, t)
    BY <1>1 DEF Winners
  <1>4. ASSUME s \in FundedSlots(i), asset'[i][s] = asset[i][s]
        PROVE  (Sound(i, s) /\ Minted(i, s) /\ Recovered(i, s) /\ Counted(i, s))'
    <2>1. Sound(i, s) /\ Minted(i, s) /\ Recovered(i, s) /\ Counted(i, s) /\ s \in SlotIndex
      BY <1>4, FundedIndex DEF Slots
    <2>2. Sound(i, s)'
      BY <1>2, <1>4, <2>1 DEF Sound
    <2>3. Minted(i, s)'
      BY <1>2, <1>4, <2>1, PreparesMinted DEF Sound
    <2>4. Recovered(i, s)'
      BY <1>1, <1>2, <1>4, <2>1 DEF Recovered, NothingOutstanding
    <2>5. Counted(i, s)'
      BY <1>1, <1>2, <1>3, <1>4, <2>1 DEF Counted
    <2>6. QED
      BY <2>2, <2>3, <2>4, <2>5
  <1>5. CASE s \in FundedSlots(i) /\ FundedSlots(i)' = FundedSlots(i) /\ asset'[i] = asset[i]
    <2>1. Apart(i, s)
      BY <1>5 DEF Slots
    <2>2. Apart(i, s)'
      BY <1>5, <2>1 DEF Apart
    <2>3. QED
      BY <1>4, <1>5, <2>2
  <1>6. ASSUME NEW p \in Prizes, NEW v,
               bundle[i].status = "funding",
               FundedSlots(i)' = FundedSlots(i) \cup {bundle[i].fundedAssets},
               bundle[i].fundedAssets \notin FundedSlots(i),
               bundle[i].fundedAssets \in SlotIndex,
               \A t \in FundedSlots(i) : asset[i][t].mint # p.mint,
               asset'[i] = [asset[i] EXCEPT ![bundle[i].fundedAssets] =
                 [kind |-> p.kind, mint |-> p.mint, amount |-> p.amount,
                  claimed |-> 0, reclaimed |-> FALSE, held |-> v]],
               p.kind # "badge" => v = p.amount * bundle[i].quantity,
               p.kind = "badge" =>
                 badge[p.mint] = Creator /\ badge' = [badge EXCEPT ![p.mint] = Held(i)]
        PROVE  (Sound(i, s) /\ Apart(i, s) /\ Minted(i, s)
                 /\ Recovered(i, s) /\ Counted(i, s))'
    <2> DEFINE f == bundle[i].fundedAssets
    <2>1. asset[i] \in [SlotIndex -> AssetType] /\ bundle[i].quantity \in Nat
      BY TypedBundle DEF TypeOK
    <2>2. /\ asset'[i][f].kind = p.kind
          /\ asset'[i][f].mint = p.mint
          /\ asset'[i][f].amount = p.amount
          /\ asset'[i][f].claimed = 0
          /\ asset'[i][f].reclaimed = FALSE
          /\ asset'[i][f].held = v
      BY <1>6, <2>1
    <2>3. \A t \in FundedSlots(i) : asset'[i][t] = asset[i][t] /\ t # f
      BY <1>6, <2>1, FundedIndex
    <2>4. bundle[i].quantity > 0
      BY <1>6 DEF Inventory, Shelf
    <2> HIDE DEF f
    <2>5. Apart(i, s)'
      <3>1. \A t \in FundedSlots(i), u \in FundedSlots(i) :
              t # u => asset[i][t].mint # asset[i][u].mint
        BY DEF Slots, Apart
      <3>2. \A t \in FundedSlots(i)' : t = f \/ t \in FundedSlots(i)
        BY <1>6 DEF f
      <3>3. \A t \in FundedSlots(i)' : t # s => asset'[i][t].mint # asset'[i][s].mint
        BY <1>6, <2>2, <2>3, <3>1, <3>2
      <3>4. QED
        BY <3>3 DEF Apart
    <2>6. CASE s = f
      <3>1. Sound(i, s)'
        <4>1. /\ p.kind \in PrizeKinds
              /\ p.kind = "badge" => p.mint \in Badges
              /\ p.amount \in Nat
          BY TermsAssumption DEF Badges
        <4>2. p.amount * (bundle[i].quantity - 0) = p.amount * bundle[i].quantity
          BY <2>1
        <4>3. QED
          BY <1>2, <1>6, <2>1, <2>2, <2>6, <4>1, <4>2 DEF Sound
      <3>2. Minted(i, s)'
        <4>1. p.kind = "badge" => p.mint \in Badges /\ badge'[p.mint] = Held(i)
          BY <1>6 DEF TypeOK, Badges
        <4>2. QED
          BY <1>2, <2>2, <2>4, <2>6, <4>1 DEF Minted
      <3>3. Recovered(i, s)' /\ Counted(i, s)'
        BY <1>2, <1>6 DEF Recovered, Counted
      <3>4. QED
        BY <2>5, <3>1, <3>2, <3>3
    <2>7. CASE s \in FundedSlots(i)
      BY <1>4, <2>3, <2>5, <2>7
    <2>8. QED
      BY <1>6, <2>6, <2>7 DEF f
  <1>7. CASE \E p \in Prizes : \E v :
               /\ bundle[i].status = "funding"
               /\ FundedSlots(i)' = FundedSlots(i) \cup {bundle[i].fundedAssets}
               /\ bundle[i].fundedAssets \notin FundedSlots(i)
               /\ bundle[i].fundedAssets \in SlotIndex
               /\ \A t \in FundedSlots(i) : asset[i][t].mint # p.mint
               /\ asset'[i] = [asset[i] EXCEPT ![bundle[i].fundedAssets] =
                    [kind |-> p.kind, mint |-> p.mint, amount |-> p.amount,
                     claimed |-> 0, reclaimed |-> FALSE, held |-> v]]
               /\ p.kind # "badge" => v = p.amount * bundle[i].quantity
               /\ p.kind = "badge" =>
                    badge[p.mint] = Creator /\ badge' = [badge EXCEPT ![p.mint] = Held(i)]
    BY <1>6, <1>7
  <1>8. QED
    BY <1>5, <1>7, PreparesSlot

\* A bundle has no winner before it is active.
LEMMA NoWinners ==
  ASSUME TypeOK, Turns, NEW i \in BundleIndex, bundle[i].status # "active", NEW s
  PROVE  Cardinality(Winners(i, s)) = 0
  <1>1. Winners(i, s) = {}
    BY DEF Winners, Turns, Turn
  <1>2. QED
    BY <1>1, FS_EmptySet

LEMMA ActivatesSlots ==
  ASSUME TypeOK, Inventory, Turns, Slots, [Next]_vars, Activates
  PROVE  Slots'
  <1>1. PICK j \in BundleIndex : ActivateBundle(j)
    BY DEF Activates
  <1>2. asset' = asset /\ badge' = badge /\ opening' = opening
    BY ActivatesFrame
  <1>3. ASSUME NEW i \in BundleIndex
        PROVE  /\ FundedSlots(i)' = FundedSlots(i)
               /\ bundle'[i].quantity = bundle[i].quantity
               /\ bundle'[i].status = "funding" => bundle[i].status = "funding"
    BY <1>1, ActivateEffect, ActivatedBundle DEF FundedSlots
  <1> SUFFICES ASSUME NEW i \in BundleIndex, NEW s \in FundedSlots(i)
               PROVE  (Sound(i, s) /\ Apart(i, s) /\ Minted(i, s)
                        /\ Recovered(i, s) /\ Counted(i, s))'
    BY <1>3 DEF Slots
  <1>4. Sound(i, s) /\ Apart(i, s) /\ Minted(i, s) /\ Recovered(i, s) /\ Counted(i, s)
    BY DEF Slots
  <1>5. Sound(i, s)' /\ Minted(i, s)'
    BY <1>2, <1>3, <1>4 DEF Sound, Minted
  <1>6. Apart(i, s)'
    BY <1>2, <1>3, <1>4 DEF Apart
  <1>7. Winners(i, s)' = Winners(i, s)
    BY <1>2 DEF Winners
  <1>8. CASE i = j
    <2>1. ~ asset[i][s].reclaimed /\ asset[i][s].claimed = 0
      BY <1>1, <1>8 DEF ActivateBundle
    <2>2. /\ Cardinality(Winners(i, s)) = 0
          /\ remaining'[i] = bundle[i].quantity
          /\ bundle[i].quantity \in Nat
      BY <1>1, <1>8, ActivateEffect, NoWinners, TypedBundle
    <2>3. Recovered(i, s)'
      BY <1>2, <2>1 DEF Recovered
    <2>4. Counted(i, s)'
      BY <1>2, <1>3, <1>7, <2>1, <2>2 DEF Counted
    <2>5. QED
      BY <1>5, <1>6, <2>3, <2>4
  <1>9. CASE i # j
    <2>1. bundle'[i] = bundle[i] /\ remaining'[i] = remaining[i]
      BY <1>1, <1>9, ActivateEffect
    <2>2. Recovered(i, s)'
      BY <1>2, <1>4, <2>1, OutstandingStays DEF Recovered
    <2>3. Counted(i, s)'
      BY <1>2, <1>4, <1>7, <2>1 DEF Counted
    <2>4. QED
      BY <1>5, <1>6, <2>2, <2>3
  <1>10. QED
    BY <1>8, <1>9

LEMMA AllocatesSlots ==
  ASSUME TypeOK, Turns, Slots, [Next]_vars, Allocates
  PROVE  Slots'
  <1>1. PICK r \in Randomness, b \in BundleIndex : AllocateTemplateOpen(r, b)
    BY DEF Allocates
  <1>2. bundle' = bundle /\ asset' = asset /\ badge' = badge
    BY AllocatesFrame
  <1>3. \A i : FundedSlots(i)' = FundedSlots(i)
    BY <1>2 DEF FundedSlots
  <1> SUFFICES ASSUME NEW i \in BundleIndex, NEW s \in FundedSlots(i)
               PROVE  (Sound(i, s) /\ Apart(i, s) /\ Minted(i, s)
                        /\ Recovered(i, s) /\ Counted(i, s))'
    BY <1>3 DEF Slots
  <1>4. Sound(i, s) /\ Apart(i, s) /\ Minted(i, s) /\ Recovered(i, s) /\ Counted(i, s)
    BY DEF Slots
  <1>5. Sound(i, s)' /\ Minted(i, s)'
    BY <1>2, <1>4 DEF Sound, Minted
  <1>6. Apart(i, s)'
    BY <1>2, <1>3, <1>4 DEF Apart
  <1>7. Recovered(i, s)'
    BY <1>2, <1>4, OutstandingStays DEF Recovered
  <1>8. /\ remaining[b] > 0 /\ template.pendingOpenings > 0
        /\ remaining' = [remaining EXCEPT ![b] = remaining[b] - 1]
        /\ bundle[b].status = "active"
    BY <1>1 DEF AllocateTemplateOpen
  <1>9. remaining \in [BundleIndex -> Nat]
    BY DEF TypeOK
  <1>10. /\ opening[r].status = "verified" /\ opening'[r].status = "allocated"
         /\ opening'[r].selected = b /\ opening'[r].claimed = {}
    BY <1>1, AllocatesOpening DEF Turns, Turn
  <1>11. Counted(i, s)'
    <2>1. CASE i = b
      <3>1. ~ asset[b][s].reclaimed
        BY <1>4, <1>8, <2>1 DEF Recovered, NothingOutstanding
      <3>2. r \notin Winners(b, s)
        BY <1>10 DEF Winners
      <3>3. Winners(b, s)' = Winners(b, s) \cup {r}
        <4>1. \A q \in Randomness \ {r} : opening'[q] = opening[q]
          BY <1>1, AllocatesOpening
        <4>2. QED
          BY <1>10, <4>1 DEF Winners
      <3>4. Cardinality(Winners(b, s)') = Cardinality(Winners(b, s)) + 1
        BY <3>2, <3>3, WinnersFinite, FS_AddElement
      <3>5. remaining'[b] = remaining[b] - 1
        BY <1>8, <1>9
      <3>6. bundle[b].quantity - asset[b][s].claimed =
              Cardinality(Winners(b, s)) + remaining[b]
        BY <1>4, <1>8, <2>1, <3>1 DEF Counted
      <3>7. Cardinality(Winners(b, s)) + remaining[b] =
              (Cardinality(Winners(b, s)) + 1) + (remaining[b] - 1)
        BY <1>9, WinnersFinite
      <3>8. QED
        BY <1>2, <2>1, <3>1, <3>4, <3>5, <3>6, <3>7 DEF Counted
    <2>2. CASE i # b
      <3>1. Winners(i, s)' = Winners(i, s)
        <4>1. \A q \in Randomness \ {r} : opening'[q] = opening[q]
          BY <1>1, AllocatesOpening
        <4>2. QED
          BY <1>10, <2>2, <4>1 DEF Winners
      <3>2. remaining'[i] = remaining[i]
        BY <1>8, <1>9, <2>2
      <3>3. QED
        BY <1>2, <1>4, <3>1, <3>2 DEF Counted
    <2>3. QED
      BY <2>1, <2>2
  <1>12. QED
    BY <1>5, <1>6, <1>7, <1>11

\* When copies of the badge in a slot leave, badges in other slots stay.
LEMMA OtherBadges ==
  ASSUME TypeOK, Slots, NEW b \in BundleIndex, NEW s \in FundedSlots(b),
         NEW i \in BundleIndex, NEW t \in FundedSlots(i), <<i, t>> # <<b, s>>,
         asset[i][t].kind = "badge",
         NEW n \in BOOLEAN,
         \/ badge' = badge
         \/ /\ asset[b][s].kind = "badge"
            /\ badge[asset[b][s].mint] = Held(b)
            /\ badge' = IF n THEN [badge EXCEPT ![asset[b][s].mint] = Revoked] ELSE badge
  PROVE  badge'[asset[i][t].mint] = badge[asset[i][t].mint]
  <1> DEFINE m == asset[i][t].mint
             k == asset[b][s].mint
  <1>1. m \in Badges /\ Minted(i, t) /\ Apart(i, t)
    BY DEF Slots, Sound
  <1>2. CASE badge' = badge
    BY <1>2
  <1>3. CASE badge[k] = Held(b) /\ badge' = IF n THEN [badge EXCEPT ![k] = Revoked] ELSE badge
    <2>1. m # k
      <3>1. CASE i = b
        BY <1>1, <3>1 DEF Apart
      <3>2. CASE i # b
        <4>1. badge[m] \in {Revoked, Held(i)}
          BY <1>1 DEF Minted
        <4>2. QED
          BY <1>3, <3>2, <4>1, Authorities
      <3>3. QED
        BY <3>1, <3>2
    <2>2. badge'[m] = badge[m]
      <3> HIDE DEF m, k
      <3>1. QED
        BY <1>1, <1>3, <2>1 DEF TypeOK
    <2>3. QED
      BY <2>2
  <1>4. QED
    BY <1>2, <1>3

\* A slot none of whose copies leave.
LEMMA SlotKept ==
  ASSUME TypeOK, Slots, NEW i \in BundleIndex, NEW t \in FundedSlots(i),
         bundle' = bundle, remaining' = remaining, template' = template,
         boxMint' = boxMint,
         asset'[i][t] = asset[i][t],
         asset[i][t].kind = "badge" =>
           badge'[asset[i][t].mint] = badge[asset[i][t].mint],
         Winners(i, t)' = Winners(i, t)
  PROVE  (Sound(i, t) /\ Minted(i, t) /\ Recovered(i, t) /\ Counted(i, t))'
  <1>1. Sound(i, t) /\ Minted(i, t) /\ Recovered(i, t) /\ Counted(i, t)
    BY DEF Slots
  <1>2. Sound(i, t)' /\ Minted(i, t)'
    BY <1>1 DEF Sound, Minted
  <1>3. Recovered(i, t)'
    BY <1>1 DEF Recovered, NothingOutstanding
  <1>4. Counted(i, t)'
    BY <1>1 DEF Counted
  <1>5. QED
    BY <1>2, <1>3, <1>4

\* Releasing copies keeps the mints of a bundle apart.
LEMMA ApartKept ==
  ASSUME TypeOK, Slots, Claims \/ Reclaims, bundle' = bundle,
         NEW i \in BundleIndex, NEW t \in FundedSlots(i)
  PROVE  Apart(i, t)'
  <1>1. Apart(i, t) /\ FundedSlots(i)' = FundedSlots(i)
    BY DEF Slots, FundedSlots
  <1>2. \A u \in FundedSlots(i) : asset'[i][u].mint = asset[i][u].mint
    BY FundedIndex, ReleasesKeepTerms
  <1>3. QED
    BY <1>1, <1>2 DEF Apart

LEMMA ClaimsSlots ==
  ASSUME TypeOK, Inventory, Turns, Slots, [Next]_vars, Claims
  PROVE  Slots'
  <1>1. PICK r \in Randomness, b \in BundleIndex, s \in SlotIndex :
          /\ RecordClaim(r, s)
          /\ b = opening[r].selected
          /\ bundle[b].status = "active"
          /\ s \in FundedSlots(b)
          /\ asset[b][s].claimed < bundle[b].quantity
          /\ \A i \in BundleIndex, t \in SlotIndex :
               <<i, t>> # <<b, s>> => asset'[i][t] = asset[i][t]
          /\ \E v \in Nat :
               /\ asset'[b][s] = Release(asset[b][s], 1, v)
               /\ asset[b][s].kind # "badge" => v = asset[b][s].amount
          /\ \/ asset[b][s].kind # "badge" /\ badge' = badge
             \/ /\ asset[b][s].kind = "badge"
                /\ badge[asset[b][s].mint] = Held(b)
                /\ badge' = IF asset[b][s].claimed + 1 = bundle[b].quantity
                              THEN [badge EXCEPT ![asset[b][s].mint] = Revoked] ELSE badge
    BY ClaimsSlot
  <1>2. UNCHANGED <<template, remaining, bundle, boxMint>>
    BY ClaimsFrame
  <1>3. \A i : FundedSlots(i)' = FundedSlots(i)
    BY <1>2 DEF FundedSlots
  <1>4. /\ opening[r].status = "allocated"
        /\ s \notin opening[r].claimed
        /\ opening'[r].claimed = opening[r].claimed \cup {s}
        /\ opening'[r].status \in {"allocated", "delivered"}
        /\ opening'[r].status = "delivered" =>
             opening'[r].claimed = 0 .. bundle[b].assetCount - 1
        /\ opening'[r].selected = b
        /\ \A q \in Randomness \ {r} : opening'[q] = opening[q]
    BY <1>1, RecordsClaim
  <1>5. ASSUME NEW i \in BundleIndex, NEW t \in FundedSlots(i), <<i, t>> # <<b, s>>
        PROVE  Winners(i, t)' = Winners(i, t)
    <2>1. CASE i = b
      <3>1. t # s /\ t \in 0 .. bundle[b].assetCount - 1
        BY <1>1, <1>5, <2>1 DEF FundedSlots, Inventory, Shelf
      <3>2. t \notin opening[r].claimed => t \notin opening'[r].claimed
        BY <1>4, <3>1
      <3>3. t \notin opening'[r].claimed => opening'[r].status = "allocated"
        BY <1>4, <3>1
      <3>4. r \in Winners(b, t)' <=> r \in Winners(b, t)
        BY <1>1, <1>4, <3>2, <3>3 DEF Winners
      <3>5. \A q \in Randomness \ {r} : q \in Winners(b, t)' <=> q \in Winners(b, t)
        BY <1>4 DEF Winners
      <3>6. Winners(b, t) \subseteq Randomness /\ Winners(b, t)' \subseteq Randomness
        BY DEF Winners
      <3>7. QED
        BY <2>1, <3>4, <3>5, <3>6
    <2>2. CASE i # b
      BY <1>1, <1>4, <2>2 DEF Winners
    <2>3. QED
      BY <2>1, <2>2
  <1>6. ASSUME NEW i \in BundleIndex, NEW t \in FundedSlots(i), <<i, t>> # <<b, s>>
        PROVE  (Sound(i, t) /\ Minted(i, t) /\ Recovered(i, t) /\ Counted(i, t))'
    <2>1. asset'[i][t] = asset[i][t]
      BY <1>1, <1>6, FundedIndex
    <2>2. asset[i][t].kind = "badge" =>
            badge'[asset[i][t].mint] = badge[asset[i][t].mint]
      BY <1>1, <1>6, OtherBadges
    <2>3. QED
      BY <1>2, <1>5, <1>6, <2>1, <2>2, SlotKept
  <1> DEFINE a == asset[b][s]
             q == bundle[b].quantity
  <1>7. /\ a \in AssetType /\ a.claimed \in Nat /\ a.amount \in Nat /\ q \in Nat
        /\ Sound(b, s) /\ Minted(b, s) /\ Recovered(b, s) /\ Counted(b, s)
    BY <1>1, TypedAsset, TypedBundle DEF Slots
  <1>8. PICK v \in Nat : /\ asset'[b][s] = Release(a, 1, v)
                         /\ a.kind # "badge" => v = a.amount
    BY <1>1
  <1>9. /\ asset'[b][s].kind = a.kind
        /\ asset'[b][s].mint = a.mint
        /\ asset'[b][s].amount = a.amount
        /\ asset'[b][s].claimed = a.claimed + 1
        /\ asset'[b][s].held = a.held - v
    BY <1>7, <1>8, ReleaseKeeps, ReleaseCounts
  <1>10. asset'[b][s].reclaimed = a.reclaimed
    BY <1>7, <1>8, ReclaimMarks
  <1>11. a.claimed < q
    BY <1>1
  <1>12. Sound(b, s)'
    <2>1. a.kind # "badge" => a.held = a.amount * (q - a.claimed)
      BY <1>7 DEF Sound
    <2>2. q - a.claimed \in Nat
      BY <1>7, <1>11
    <2>3. a.amount * ((q - a.claimed) - 1) = a.amount * (q - a.claimed) - a.amount
      BY <1>7, <2>2, OneLess
    <2>4. q - (a.claimed + 1) = (q - a.claimed) - 1
      BY <1>7
    <2>5. a.kind # "badge" => asset'[b][s].held = a.amount * (q - (a.claimed + 1))
      BY <1>8, <1>9, <2>1, <2>3, <2>4
    <2>6. a.claimed + 1 <= q
      BY <1>7, <1>11
    <2>7. bundle'[b].status # "funding" /\ bundle'[b].quantity = q
      BY <1>1, <1>2
    <2>8. a.kind \in PrizeKinds /\ (a.kind = "badge" => a.mint \in Badges)
      BY <1>7 DEF Sound
    <2> HIDE DEF a, q
    <2>9. QED
      BY <1>9, <2>5, <2>6, <2>7, <2>8 DEF Sound
  <1>13. Minted(b, s)'
    <2> SUFFICES ASSUME a.kind = "badge"
                 PROVE  badge'[a.mint] = IF a.claimed + 1 = q THEN Revoked ELSE Held(b)
      BY <1>2, <1>9 DEF Minted
    <2>1. a.mint \in Badges
      BY <1>7 DEF Sound
    <2>2. badge[a.mint] = Held(b)
          /\ badge' = IF a.claimed + 1 = q THEN [badge EXCEPT ![a.mint] = Revoked] ELSE badge
      BY <1>1
    <2> HIDE DEF a, q
    <2>3. QED
      BY <2>1, <2>2 DEF TypeOK
  <1>14. Recovered(b, s)'
    BY <1>2, <1>7, <1>10 DEF Recovered, NothingOutstanding
  <1>15. Counted(b, s)'
    <2>1. r \in Winners(b, s)
      BY <1>1, <1>4 DEF Winners
    <2>2. Winners(b, s)' = Winners(b, s) \ {r}
      BY <1>4 DEF Winners
    <2>3. Cardinality(Winners(b, s)') = Cardinality(Winners(b, s)) - 1
      BY <2>1, <2>2, WinnersFinite, FS_RemoveElement
    <2>4. q - a.claimed =
            Cardinality(Winners(b, s)) + (IF a.reclaimed THEN 0 ELSE remaining[b])
      BY <1>1, <1>7 DEF Counted
    <2>5. (IF a.reclaimed THEN 0 ELSE remaining[b]) \in Nat
      BY TypedBundle
    <2> DEFINE rest == IF a.reclaimed THEN 0 ELSE remaining[b]
    <2>6. q - (a.claimed + 1) = Cardinality(Winners(b, s)') + rest
      <3> HIDE DEF rest, a, q
      <3>1. QED
        BY <1>7, <2>3, <2>4, <2>5, WinnersFinite DEF rest
    <2>7. QED
      BY <1>2, <1>9, <1>10, <2>6 DEF Counted
  <1>16. \A i \in BundleIndex : \A t \in FundedSlots(i) :
           (Sound(i, t) /\ Minted(i, t) /\ Recovered(i, t) /\ Counted(i, t))'
    BY <1>6, <1>12, <1>13, <1>14, <1>15
  <1>17. \A i \in BundleIndex : \A t \in FundedSlots(i) : Apart(i, t)'
    BY <1>2, ApartKept
  <1>18. QED
    BY <1>3, <1>16, <1>17 DEF Slots

LEMMA ReclaimsSlots ==
  ASSUME TypeOK, Slots, [Next]_vars, Reclaims
  PROVE  Slots'
  <1>1. PICK b \in BundleIndex, s \in SlotIndex, n \in Nat :
          /\ n = Unused(b)
          /\ s \in FundedSlots(b)
          /\ ~ asset[b][s].reclaimed
          /\ asset[b][s].claimed + n <= bundle[b].quantity
          /\ bundle[b].status = "active" =>
               template.status = "retired" /\ NothingOutstanding
          /\ \A i \in BundleIndex, t \in SlotIndex :
               <<i, t>> # <<b, s>> => asset'[i][t] = asset[i][t]
          /\ \E v \in Nat :
               /\ asset'[b][s] = Reclaim(asset[b][s], n, v)
               /\ asset[b][s].kind # "badge" => v = asset[b][s].amount * n
          /\ \/ asset[b][s].kind # "badge" /\ badge' = badge
             \/ /\ asset[b][s].kind = "badge"
                /\ badge[asset[b][s].mint] = Held(b)
                /\ badge' = IF asset[b][s].claimed + n = bundle[b].quantity
                              THEN [badge EXCEPT ![asset[b][s].mint] = Revoked] ELSE badge
    BY ReclaimsSlot
  <1>2. UNCHANGED <<template, remaining, bundle, boxMint, opening>>
    BY ReclaimsFrame
  <1>3. \A i : FundedSlots(i)' = FundedSlots(i)
    BY <1>2 DEF FundedSlots
  <1>4. \A i, t : Winners(i, t)' = Winners(i, t)
    BY <1>2 DEF Winners
  <1>5. ASSUME NEW i \in BundleIndex, NEW t \in FundedSlots(i), <<i, t>> # <<b, s>>
        PROVE  (Sound(i, t) /\ Minted(i, t) /\ Recovered(i, t) /\ Counted(i, t))'
    <2>1. asset'[i][t] = asset[i][t]
      BY <1>1, <1>5, FundedIndex
    <2>2. asset[i][t].kind = "badge" =>
            badge'[asset[i][t].mint] = badge[asset[i][t].mint]
      BY <1>1, <1>5, OtherBadges
    <2>3. QED
      BY <1>2, <1>4, <1>5, <2>1, <2>2, SlotKept
  <1> DEFINE a == asset[b][s]
             q == bundle[b].quantity
  <1>6. /\ a \in AssetType /\ a.claimed \in Nat /\ a.amount \in Nat /\ q \in Nat
        /\ Sound(b, s) /\ Minted(b, s) /\ Recovered(b, s) /\ Counted(b, s)
        /\ bundle[b] \in BundleType
    BY <1>1, TypedAsset, TypedBundle DEF Slots
  <1>7. PICK v \in Nat : /\ asset'[b][s] = Reclaim(a, n, v)
                         /\ a.kind # "badge" => v = a.amount * n
    BY <1>1
  <1>8. /\ asset'[b][s].kind = a.kind
        /\ asset'[b][s].mint = a.mint
        /\ asset'[b][s].amount = a.amount
        /\ asset'[b][s].claimed = a.claimed + n
        /\ asset'[b][s].held = a.held - v
    <2>1. ASSUME NEW c, c = Reclaim(a, n, v)
          PROVE  c.kind = a.kind /\ c.mint = a.mint /\ c.amount = a.amount
      BY <1>6, <2>1, ReleaseKeeps
    <2>2. ASSUME NEW c, c = Reclaim(a, n, v)
          PROVE  c.claimed = a.claimed + n /\ c.held = a.held - v
      <3> HIDE DEF a
      <3>1. a \in AssetType
        BY <1>6
      <3>2. QED
        BY <2>2, <3>1, ReleaseCounts
    <2>3. QED
      BY <1>7, <2>1, <2>2
  <1>9. asset'[b][s].reclaimed
    BY <1>6, <1>7, ReclaimMarks
  <1>10. a.claimed + n <= q /\ ~ a.reclaimed
    BY <1>1
  <1>11. Sound(b, s)'
    <2>1. a.kind # "badge" => a.held = a.amount * (q - a.claimed)
      BY <1>6 DEF Sound
    <2>2. q - a.claimed \in Nat
      BY <1>6, <1>10
    <2>3. a.amount * (q - a.claimed) - a.amount * n = a.amount * ((q - a.claimed) - n)
      BY <1>6, <2>2, LessCopies
    <2>4. q - (a.claimed + n) = (q - a.claimed) - n
      BY <1>6
    <2>5. a.kind # "badge" => asset'[b][s].held = a.amount * (q - (a.claimed + n))
      BY <1>7, <1>8, <2>1, <2>3, <2>4
    <2>6. bundle[b].status = "funding" => a.claimed + n = q
      <3>1. bundle[b].status = "funding" => a.claimed = 0
        BY <1>6, <1>10 DEF Sound
      <3>2. bundle[b].status = "funding" => n = q
        BY <1>1 DEF Unused
      <3>3. QED
        BY <1>6, <3>1, <3>2
    <2>7. bundle' = bundle
      BY <1>2
    <2>8. a.kind \in PrizeKinds /\ (a.kind = "badge" => a.mint \in Badges)
      BY <1>6 DEF Sound
    <2> HIDE DEF a
    <2>9. QED
      BY <1>8, <1>9, <1>10, <2>5, <2>6, <2>7, <2>8 DEF Sound
  <1>12. Minted(b, s)'
    <2> SUFFICES ASSUME a.kind = "badge"
                 PROVE  badge'[a.mint] = IF a.claimed + n = q THEN Revoked ELSE Held(b)
      BY <1>2, <1>8 DEF Minted
    <2>1. a.mint \in Badges
      BY <1>6 DEF Sound
    <2>2. badge[a.mint] = Held(b)
          /\ badge' = IF a.claimed + n = q THEN [badge EXCEPT ![a.mint] = Revoked] ELSE badge
      BY <1>1
    <2> HIDE DEF a, q
    <2>3. QED
      BY <2>1, <2>2 DEF TypeOK
  <1>13. Recovered(b, s)'
    BY <1>1, <1>2 DEF Recovered, NothingOutstanding
  <1>14. Counted(b, s)'
    <2>1. CASE bundle[b].status = "active"
      <3>1. n = remaining[b]
        BY <1>1, <2>1 DEF Unused
      <3>2. q - a.claimed = Cardinality(Winners(b, s)) + remaining[b]
        BY <1>6, <1>10, <2>1 DEF Counted
      <3>3. q - (a.claimed + n) = Cardinality(Winners(b, s)) + 0
        <4> HIDE DEF a, q
        <4>1. QED
          BY <1>6, <3>1, <3>2, WinnersFinite
      <3>4. QED
        BY <1>2, <1>4, <1>8, <1>9, <3>3 DEF Counted
    <2>2. CASE bundle[b].status # "active"
      BY <1>2, <2>2 DEF Counted
    <2>3. QED
      BY <2>1, <2>2
  <1>15. \A i \in BundleIndex : \A t \in FundedSlots(i) :
           (Sound(i, t) /\ Minted(i, t) /\ Recovered(i, t) /\ Counted(i, t))'
    BY <1>5, <1>11, <1>12, <1>13, <1>14
  <1>16. \A i \in BundleIndex : \A t \in FundedSlots(i) : Apart(i, t)'
    BY <1>2, ApartKept
  <1>17. QED
    BY <1>3, <1>15, <1>16 DEF Slots

LEMMA SlotsStep ==
  TypeOK /\ Inventory /\ Turns /\ Slots /\ [Next]_vars => Slots'
  BY StepCases, PreparesSlots, ActivatesSlots, AllocatesSlots, ReclaimsSlots,
     ClaimsSlots, QuietSlots

LEMMA InitSlots == Init => Slots
  <1> SUFFICES ASSUME Init, NEW i \in BundleIndex, NEW s \in FundedSlots(i) PROVE FALSE
    BY DEF Slots
  <1>1. FundedSlots(i) = {}
    BY DEF Init, FundedSlots, NoBundle
  <1>2. QED
    BY <1>1

LEMMA EscrowBySlots ==
  ASSUME TypeOK, Slots
  PROVE  EscrowExact
  <1> SUFFICES ASSUME NEW i \in BundleIndex, bundle[i].status = "active",
                      NEW s \in FundedSlots(i)
               PROVE  LET a == asset[i][s]
                          unreleased == bundle[i].quantity - a.claimed
                      IN /\ unreleased = Cardinality(Winners(i, s))
                                           + (IF a.reclaimed THEN 0 ELSE remaining[i])
                         /\ a.kind # "badge" => a.held = a.amount * unreleased
                         /\ a.kind = "badge" =>
                              badge[a.mint] = IF unreleased = 0 THEN Revoked ELSE Held(i)
    BY DEF EscrowExact
  <1>1. Sound(i, s) /\ Minted(i, s) /\ Counted(i, s)
    BY DEF Slots
  <1>2. bundle[i].quantity \in Nat /\ asset[i][s].claimed \in Nat
    BY FundedIndex, TypedBundle, TypedAsset
  <1>3. bundle[i].quantity - asset[i][s].claimed = 0 <=>
          asset[i][s].claimed = bundle[i].quantity
    BY <1>2
  <1>4. asset[i][s].kind # "badge" =>
          asset[i][s].held = asset[i][s].amount * (bundle[i].quantity - asset[i][s].claimed)
    BY <1>1 DEF Sound
  <1>5. asset[i][s].kind = "badge" =>
          badge[asset[i][s].mint] =
            IF bundle[i].quantity - asset[i][s].claimed = 0 THEN Revoked ELSE Held(i)
    BY <1>1, <1>3 DEF Minted
  <1>6. QED
    BY <1>1, <1>4, <1>5 DEF Counted

\* Every unreleased copy of a prize is owed to a winner or still undrawn and
\* is backed by the escrow or by the authority to mint it, and every draw of
\* a locked treasury with receipts has left its receipt.
THEOREM AccountsAlwaysExact == Spec => []AccountsExact
  <1>1. Spec => []Slots
    BY InitSlots, SlotsStep, OrderInvariant, PTL DEF Spec
  <1>2. Spec => [](Filed /\ Issued)
    BY InitFiled, FiledStep, OrderInvariant, PTL DEF Spec
  <1>3. TypeOK /\ QueueExact /\ Slots /\ Filed /\ Issued => AccountsExact
    BY EscrowBySlots, ReceiptsByFiled DEF AccountsExact
  <1>4. QED
    BY <1>1, <1>2, <1>3, OrderInvariant, PTL

-----------------------------------------------------------------------------
(* The promise.                                                            *)

\* Each place of the line is that of one opening.
LineExact ==
  /\ Line \in Seq(Queued)
  /\ Len(Line) = template.pendingOpenings
  /\ DOMAIN Line = 1 .. template.pendingOpenings
  /\ \A k \in 1 .. template.pendingOpenings :
       /\ Line[k] \in Queued
       /\ opening[Line[k]].sequence = template.nextAllocation + k - 1
  /\ \A k \in 1 .. template.pendingOpenings, r \in Queued :
       opening[r].sequence = template.nextAllocation + k - 1 => Line[k] = r
  /\ \A r \in Queued : \E k \in 1 .. template.pendingOpenings : Line[k] = r

LEMMA LinePlaces == TypeOK /\ QueueExact => LineExact
  <1> SUFFICES ASSUME TypeOK, QueueExact PROVE LineExact
    OBVIOUS
  <1> DEFINE n == template.pendingOpenings
             first == template.nextAllocation
  <1>1. n \in Nat /\ first \in Nat /\ template.nextRequest \in Nat
        /\ n = template.nextRequest - first
    BY TypedTemplate DEF QueueExact
  <1>2. {opening[r].sequence : r \in Queued} = first .. template.nextRequest - 1
    BY DEF QueueExact
  <1>3. ASSUME NEW k \in 1 .. n
        PROVE  Position(k) \in Queued /\ opening[Position(k)].sequence = first + k - 1
    <2>1. first + k - 1 \in first .. template.nextRequest - 1
      BY <1>1
    <2>2. \E r \in Queued : opening[r].sequence = first + k - 1
      BY <1>2, <2>1
    <2>3. QED
      BY <2>2 DEF Position
  <1>4. \A k \in 1 .. n : Line[k] = Position(k)
    BY DEF Line
  <1>5. DOMAIN Line = 1 .. n /\ Line \in [1 .. n -> Queued]
    BY <1>3 DEF Line
  <1>6. Line \in Seq(Queued) /\ Len(Line) = n
    BY <1>1, <1>5
  <1>7. ASSUME NEW k \in 1 .. n, NEW r \in Queued, opening[r].sequence = first + k - 1
        PROVE  Line[k] = r
    BY <1>3, <1>4, <1>7 DEF QueueExact
  <1>8. ASSUME NEW r \in Queued PROVE \E k \in 1 .. n : Line[k] = r
    <2>1. opening[r].sequence \in first .. template.nextRequest - 1
      BY <1>2
    <2> DEFINE k == opening[r].sequence - first + 1
    <2>2. k \in 1 .. n /\ opening[r].sequence = first + k - 1
      BY <1>1, <2>1
    <2>3. QED
      BY <1>7, <2>2
  <1>9. QED
    BY <1>3, <1>4, <1>5, <1>6, <1>7, <1>8 DEF LineExact

LEMMA LinePlacesNext == TypeOK' /\ QueueExact' => LineExact'
  BY LinePlaces, PTL

LEMMA LineKept ==
  ASSUME Queued' = Queued,
         \A r \in Queued : opening'[r].sequence = opening[r].sequence,
         template'.pendingOpenings = template.pendingOpenings,
         template'.nextAllocation = template.nextAllocation
  PROVE  Line' = Line
  <1>1. \A k : Position(k)' = Position(k)
    BY DEF Position
  <1>2. QED
    BY <1>1 DEF Line

\* The head leaves the line.
LEMMA LineAdvances ==
  ASSUME TypeOK, QueueExact, TypeOK', QueueExact', NEW r \in Queued, AtHead(r),
         Queued' = Queued \ {r},
         \A q \in Queued' : opening'[q].sequence = opening[q].sequence,
         template'.pendingOpenings = template.pendingOpenings - 1,
         template'.nextAllocation = template.nextAllocation + 1
  PROVE  /\ Line # << >>
         /\ Head(Line) = r
         /\ Line' = Tail(Line)
  <1> DEFINE n == template.pendingOpenings
             first == template.nextAllocation
  <1>1. n \in Nat /\ first \in Nat
    BY TypedTemplate
  <1>2. Line \in Seq(Queued) /\ Len(Line) = n /\ DOMAIN Line = 1 .. n
    BY LinePlaces DEF LineExact
  <1>3. n # 0
    BY QueueFinite, FS_EmptySet DEF QueueExact
  <1>4. Line[1] = r
    BY <1>1, <1>3, LinePlaces DEF LineExact, AtHead
  <1>5. Line # << >> /\ Head(Line) = r
    BY <1>2, <1>3, <1>4
  <1>6. /\ Line' \in Seq(Queued') /\ Len(Line') = n - 1 /\ DOMAIN Line' = 1 .. n - 1
        /\ \A k \in 1 .. n - 1 :
             /\ Line'[k] \in Queued'
             /\ opening'[Line'[k]].sequence = (first + 1) + k - 1
    BY LinePlacesNext DEF LineExact
  <1>7. ASSUME NEW k \in 1 .. n - 1 PROVE Line'[k] = Line[k + 1]
    <2>1. Line'[k] \in Queued /\ opening[Line'[k]].sequence = (first + 1) + k - 1
      BY <1>6
    <2>2. k + 1 \in 1 .. n /\ (first + 1) + k - 1 = first + (k + 1) - 1
      BY <1>1
    <2>3. \A j \in 1 .. n, q \in Queued :
            opening[q].sequence = first + j - 1 => Line[j] = q
      BY LinePlaces DEF LineExact
    <2>4. QED
      BY <2>1, <2>2, <2>3
  <1>8. Tail(Line) \in Seq(Queued) /\ Len(Tail(Line)) = n - 1
        /\ \A k \in 1 .. n - 1 : Tail(Line)[k] = Line[k + 1]
    BY <1>2, <1>5
  <1>9. Line' \in Seq(Queued)
    BY <1>6
  <1>10. Line' = Tail(Line)
    BY <1>6, <1>7, <1>8, <1>9, SeqEqual
  <1>11. QED
    BY <1>5, <1>10

\* An opening joins the line.
LEMMA LineGrows ==
  ASSUME TypeOK, QueueExact, TypeOK', QueueExact', NEW r \in Randomness, r \notin Queued,
         Queued' = Queued \cup {r},
         \A q \in Queued : opening'[q].sequence = opening[q].sequence,
         opening'[r].sequence = template.nextRequest,
         template'.pendingOpenings = template.pendingOpenings + 1,
         template'.nextAllocation = template.nextAllocation
  PROVE  /\ r \notin Range(Line)
         /\ Line' = Append(Line, r)
  <1> DEFINE n == template.pendingOpenings
             first == template.nextAllocation
  <1>1. n \in Nat /\ first \in Nat /\ template.nextRequest = first + n
    BY TypedTemplate DEF QueueExact
  <1>2. Line \in Seq(Queued) /\ Len(Line) = n /\ DOMAIN Line = 1 .. n
        /\ \A k \in 1 .. n : /\ Line[k] \in Queued
                             /\ opening[Line[k]].sequence = first + k - 1
    BY LinePlaces DEF LineExact
  <1>3. r \notin Range(Line)
    BY <1>2 DEF Range
  <1>4. /\ Line' \in Seq(Queued') /\ Len(Line') = n + 1 /\ DOMAIN Line' = 1 .. n + 1
        /\ \A k \in 1 .. n + 1, q \in Queued' :
             opening'[q].sequence = first + k - 1 => Line'[k] = q
    BY LinePlacesNext DEF LineExact
  <1>5. ASSUME NEW k \in 1 .. n PROVE Line'[k] = Line[k]
    <2>1. Line[k] \in Queued' /\ opening'[Line[k]].sequence = first + k - 1
      BY <1>2
    <2>2. k \in 1 .. n + 1
      BY <1>1
    <2>3. QED
      BY <1>4, <2>1, <2>2
  <1>6. Line'[n + 1] = r
    <2>1. r \in Queued' /\ opening'[r].sequence = first + (n + 1) - 1
      BY <1>1
    <2>2. n + 1 \in 1 .. n + 1
      BY <1>1
    <2>3. QED
      BY <1>4, <2>1, <2>2
  <1>7. Line \in Seq(Queued')
    BY <1>2
  <1>8. /\ Append(Line, r) \in Seq(Queued') /\ Len(Append(Line, r)) = n + 1
        /\ Append(Line, r)[n + 1] = r
        /\ \A k \in 1 .. n : Append(Line, r)[k] = Line[k]
    BY <1>2, <1>7
  <1>9. \A k \in 1 .. n + 1 : Line'[k] = Append(Line, r)[k]
    <2> SUFFICES ASSUME NEW k \in 1 .. n + 1 PROVE Line'[k] = Append(Line, r)[k]
      OBVIOUS
    <2>1. k \in 1 .. n \/ k = n + 1
      BY <1>1
    <2>2. QED
      BY <1>5, <1>6, <1>8, <2>1
  <1>10. QED
    BY <1>3, <1>4, <1>8, <1>9, SeqEqual

LEMMA WinningsKept ==
  ASSUME \A r \in Randomness :
           /\ opening'[r].status = "allocated" <=> opening[r].status = "allocated"
           /\ opening[r].status = "allocated" =>
                opening'[r].selected = opening[r].selected
  PROVE  Winnings' = Winnings
  <1>1. Owing' = Owing
    BY DEF Owing
  <1>2. \A r \in Owing : opening'[r].selected = opening[r].selected
    BY DEF Owing
  <1>3. QED
    BY <1>1, <1>2 DEF Winnings

LEMMA PromiseInit == Init => Promise!Init
  <1> SUFFICES ASSUME Init PROVE Promise!Init
    OBVIOUS
  <1>1. /\ template.lockedAt = 0 /\ template.status = "draft"
        /\ template.pendingOpenings = 0
        /\ remaining = [i \in BundleIndex |-> 0]
        /\ boxMint.supply = 0
        /\ \A r \in Randomness : opening[r].status = "none"
    BY DEF Init, NoOpening
  <1>2. Final = FALSE
    BY <1>1 DEF Final, Unlocked
  <1>3. Line = << >>
    <2>1. 1 .. 0 = {}
      OBVIOUS
    <2>2. QED
      BY <1>1, <2>1 DEF Line
  <1>4. Winnings = {}
    BY <1>1 DEF Winnings, Owing
  <1>5. QED
    BY <1>1, <1>2, <1>3, <1>4 DEF Promise!Init

\* A step that the holder of a box does not see.
Unseen ==
  /\ Final' = Final
  /\ remaining' = remaining
  /\ boxMint'.supply = boxMint.supply
  /\ Line' = Line
  /\ Winnings' = Winnings

LEMMA UnseenStutters ==
  ASSUME Unseen
  PROVE  UNCHANGED Promise!promiseVars
  BY DEF Unseen, Promise!promiseVars

LEMMA SameOpenings ==
  ASSUME opening' = opening,
         template'.pendingOpenings = template.pendingOpenings,
         template'.nextAllocation = template.nextAllocation
  PROVE  Line' = Line /\ Winnings' = Winnings
  <1>1. Queued' = Queued
    BY DEF Queued
  <1>2. QED
    BY <1>1, LineKept, WinningsKept

LEMMA SameSum == \A f : Promise!SumFunction(f) = SumFunction(f)
  BY DEF Promise!SumFunction, Promise!SumFunctionOnSet, Promise!FoldFunctionOnSet,
         Promise!MapThenFoldSet, SumFunction, SumFunctionOnSet, FoldFunctionOnSet,
         MapThenFoldSet

LEMMA IdlesPromise ==
  ASSUME TypeOK, Solvent, Inventory, Idles
  PROVE  [Promise!Next]_(Promise!promiseVars)
  <1>1. /\ remaining' = remaining /\ Line' = Line /\ Winnings' = Winnings
    BY IdlesFrame, IdlesHeader, SameOpenings
  <1>2. CASE SealTemplate
    <2>1. Final' = Final /\ boxMint' = boxMint
      BY <1>2 DEF SealTemplate, Final, Unlocked, TypeOK, TemplateType
    <2>2. QED
      BY <1>1, <2>1, UnseenStutters DEF Unseen
  <1>3. CASE Mints1
    <2>1. PICK n \in 1 .. MaxTickets : MintTemplateBoxes(n)
      BY <1>3 DEF Mints1
    <2>2. /\ n \in Nat /\ n > 0
          /\ template.pendingOpenings \in Nat /\ boxMint.supply \in Nat
          /\ template.remainingBundles \in Nat
      BY TypedTemplate, BoundsAssumption
    <2>3. /\ boxMint'.supply = boxMint.supply + n
          /\ boxMint.supply + template.pendingOpenings + n <= template.remainingBundles
      BY <2>1 DEF MintTemplateBoxes, IssuanceCovered, TypeOK
    <2>4. Final = FALSE /\ Final' = FALSE
      <3>1. template'.status = template.status /\ template'.lockedAt = template.lockedAt
        BY <2>1 DEF MintTemplateBoxes, TypeOK, TemplateType
      <3>2. QED
        BY <2>1, <3>1 DEF MintTemplateBoxes, Editable, Final, Unlocked
    <2>5. SumFunction(remaining) = template.remainingBundles
      <3>1. DOMAIN remaining = BundleIndex
        BY DEF TypeOK
      <3>2. QED
        BY <3>1 DEF SumFunction, Inventory
    <2>6. boxMint'.supply > boxMint.supply /\ boxMint'.supply <= SumFunction(remaining)
      BY <2>2, <2>3, <2>5
    <2>7. Promise!Issue
      BY <1>1, <2>4, <2>6, SameSum DEF Promise!Issue
    <2>8. QED
      BY <2>7 DEF Promise!Next
  <1>4. CASE LockTreasury
    <2>1. boxMint'.supply = boxMint.supply /\ template'.lockedAt = now
      BY <1>4 DEF LockTreasury, TypeOK, TemplateType
    <2>2. Final' = TRUE
      BY <2>1, TypedTemplate DEF Final, Unlocked
    <2>3. Promise!Seal
      BY <1>1, <2>1, <2>2 DEF Promise!Seal
    <2>4. QED
      BY <2>3 DEF Promise!Next
  <1>5. CASE RetireTemplate
    <2>1. template'.status = "retired" /\ boxMint' = boxMint
      BY <1>5 DEF RetireTemplate, TypeOK, TemplateType
    <2>2. Final' = TRUE
      BY <2>1 DEF Final
    <2>3. Promise!Seal
      BY <1>1, <2>1, <2>2 DEF Promise!Seal
    <2>4. QED
      BY <2>3 DEF Promise!Next
  <1>6. CASE BurnBox
    <2>1. boxMint.supply > 0 /\ boxMint'.supply = boxMint.supply - 1 /\ Final' = Final
      BY <1>6 DEF BurnBox, TypeOK, Final, Unlocked
    <2>2. Promise!Discard
      BY <1>1, <2>1 DEF Promise!Discard
    <2>3. QED
      BY <2>2 DEF Promise!Next
  <1>7. CASE CloseServiceVault \/ AdvanceClock \/ WoundUp \/ UNCHANGED vars
    <2>1. Final' = Final /\ boxMint' = boxMint
      BY <1>7 DEF CloseServiceVault, AdvanceClock, WoundUp, vars, Final, Unlocked
    <2>2. QED
      BY <1>1, <2>1, UnseenStutters DEF Unseen
  <1>8. QED
    BY <1>2, <1>3, <1>4, <1>5, <1>6, <1>7 DEF Idles

LEMMA ActivatesPromise ==
  ASSUME TypeOK, Inventory, Activates
  PROVE  [Promise!Next]_(Promise!promiseVars)
  <1>1. PICK i \in BundleIndex : ActivateBundle(i)
    BY DEF Activates
  <1>2. boxMint' = boxMint /\ Line' = Line /\ Winnings' = Winnings
    BY <1>1, ActivatesFrame, ActivateEffect, SameOpenings
  <1>3. Final = FALSE /\ Final' = FALSE
    <2>1. Final = FALSE
      BY <1>1 DEF ActivateBundle, Editable, Final
    <2>2. QED
      BY <1>1, <2>1, ActivateEffect DEF Final, Unlocked
  <1>4. remaining[i] = 0 /\ remaining'[i] > 0
    BY <1>1, ActivateEffect DEF Inventory, Shelf
  <1>5. remaining' = [remaining EXCEPT ![i] = remaining'[i]]
    BY <1>1 DEF ActivateBundle, TypeOK
  <1>6. Promise!Stock(i)
    BY <1>2, <1>3, <1>4, <1>5 DEF Promise!Stock
  <1>7. QED
    BY <1>6 DEF Promise!Next

LEMMA AllocatesPromise ==
  ASSUME TypeOK, QueueExact, Turns, TypeOK', QueueExact', Allocates
  PROVE  [Promise!Next]_(Promise!promiseVars)
  <1>1. PICK r \in Randomness, b \in BundleIndex : AllocateTemplateOpen(r, b)
    BY DEF Allocates
  <1>2. boxMint' = boxMint /\ Final' = Final
    BY AllocatesFrame, AllocatesHeader DEF Final, Unlocked
  <1>3. Line # << >> /\ Head(Line) = r /\ Line' = Tail(Line)
    BY <1>1, AllocateQueue, AllocatesHeader, LineAdvances
  <1>4. remaining[b] > 0 /\ remaining' = [remaining EXCEPT ![b] = @ - 1]
    BY <1>1 DEF AllocateTemplateOpen
  <1>5. Winnings' = Winnings \cup {<<r, b>>}
    <2>1. /\ opening[r].status = "verified" /\ opening'[r].status = "allocated"
          /\ opening'[r].selected = b
          /\ \A q \in Randomness \ {r} : opening'[q] = opening[q]
      BY <1>1, AllocatesOpening
    <2>2. Owing' = Owing \cup {r} /\ r \notin Owing
      BY <2>1 DEF Owing
    <2>3. \A q \in Owing : opening'[q].selected = opening[q].selected
      BY <2>1, <2>2 DEF Owing
    <2>4. QED
      BY <2>1, <2>2, <2>3 DEF Winnings
  <1>6. Promise!Draw(b)
    BY <1>2, <1>3, <1>4, <1>5 DEF Promise!Draw
  <1>7. QED
    BY <1>6 DEF Promise!Next, Promise!Settle

LEMMA AnswersPromise ==
  ASSUME TypeOK, QueueExact, TypeOK', QueueExact', Answers
  PROVE  [Promise!Next]_(Promise!promiseVars)
  <1>1. boxMint' = boxMint /\ remaining' = remaining /\ Final' = Final
    BY AnswersFrame, AnswersHeader DEF Final, Unlocked
  <1>2. Winnings' = Winnings
    BY AnswersOpening, WinningsKept
  <1>3. CASE \E r \in Randomness, e \in Entropy : FulfillTemplateOpen(r, e)
    <2>1. PICK r \in Randomness, e \in Entropy : FulfillTemplateOpen(r, e)
      BY <1>3
    <2>2. /\ template'.pendingOpenings = template.pendingOpenings
          /\ template'.nextAllocation = template.nextAllocation
      <3>1. PaySettlementBounty(template) /\ template \in TemplateType
        BY <2>1 DEF FulfillTemplateOpen, TypeOK
      <3>2. QED
        BY <3>1, BountyKeeps
    <2>3. Line' = Line
      BY <2>1, <2>2, FulfillQueue, LineKept
    <2>4. QED
      BY <1>1, <1>2, <2>3, UnseenStutters DEF Unseen
  <1>4. CASE \E r \in Randomness : ForfeitTemplateOpen(r)
    <2>1. PICK r \in Randomness : ForfeitTemplateOpen(r)
      BY <1>4
    <2>2. /\ template'.pendingOpenings = template.pendingOpenings - 1
          /\ template'.nextAllocation = template.nextAllocation + 1
      <3>1. PaySettlementBounty(RecordForfeit(template)) /\ template.pendingOpenings > 0
        BY <2>1 DEF ForfeitTemplateOpen
      <3>2. QED
        BY <3>1, BountyKeeps, ForfeitEffect
    <2>3. Line # << >> /\ Line' = Tail(Line)
      BY <2>1, <2>2, ForfeitQueue, LineAdvances
    <2>4. Promise!Lapse
      BY <1>1, <1>2, <2>3 DEF Promise!Lapse
    <2>5. QED
      BY <2>4 DEF Promise!Next, Promise!Settle
  <1>5. QED
    BY <1>3, <1>4 DEF Answers

LEMMA RequestsPromise ==
  ASSUME TypeOK, QueueExact, TypeOK', QueueExact', Requests
  PROVE  [Promise!Next]_(Promise!promiseVars)
  <1>1. PICK r \in Randomness : RequestTemplateOpen(r)
    BY DEF Requests
  <1>2. /\ Final = TRUE /\ Final' = Final
        /\ boxMint.supply > 0 /\ boxMint'.supply = boxMint.supply - 1
        /\ remaining' = remaining
    BY RequestsFrame, RequestsHeader DEF Final, Unlocked
  <1>3. r \notin Range(Line) /\ Line' = Append(Line, r)
    BY <1>1, RequestQueue, RequestsHeader, LineGrows
  <1>4. opening[r].status = "none"
    BY <1>1 DEF RequestTemplateOpen
  <1>5. \A p \in Winnings : p[1] # r
    BY <1>4 DEF Winnings, Owing
  <1>6. Winnings' = Winnings
    BY RequestsOpening, WinningsKept
  <1>7. Promise!Open(r)
    BY <1>2, <1>3, <1>5, <1>6 DEF Promise!Open, Promise!Range, Range
  <1>8. QED
    BY <1>7 DEF Promise!Next

LEMMA ClaimsPromise ==
  ASSUME TypeOK, Claims
  PROVE  [Promise!Next]_(Promise!promiseVars)
  <1>1. PICK r \in Randomness, s \in SlotIndex : RecordClaim(r, s)
    BY ClaimsRecord
  <1>2. /\ template' = template /\ boxMint' = boxMint /\ remaining' = remaining
        /\ Final' = Final
    BY ClaimsFrame DEF Final, Unlocked
  <1>3. /\ opening[r].status = "allocated"
        /\ opening'[r].status \in {"allocated", "delivered"}
        /\ opening'[r].sequence = opening[r].sequence
        /\ opening'[r].selected = opening[r].selected
        /\ \A q \in Randomness \ {r} : opening'[q] = opening[q]
    BY <1>1, RecordsClaim
  <1>4. Queued' = Queued /\ \A q \in Queued : opening'[q].sequence = opening[q].sequence
    BY <1>3 DEF Queued
  <1>5. Line' = Line
    BY <1>2, <1>4, LineKept
  <1>6. CASE opening'[r].status = "allocated"
    <2>1. Winnings' = Winnings
      BY <1>3, <1>6, WinningsKept
    <2>2. QED
      BY <1>2, <1>5, <2>1, UnseenStutters DEF Unseen
  <1>7. CASE opening'[r].status = "delivered"
    <2> DEFINE p == <<r, opening[r].selected>>
    <2>1. r \in Owing /\ Owing' = Owing \ {r}
      BY <1>3, <1>7 DEF Owing
    <2>2. \A q \in Owing \ {r} : opening'[q].selected = opening[q].selected
      BY <1>3 DEF Owing
    <2>3. p \in Winnings /\ Winnings' = Winnings \ {p}
      BY <2>1, <2>2 DEF Winnings
    <2>4. p \in Randomness \X BundleIndex
      BY TypedOpening
    <2> HIDE DEF p
    <2>5. Promise!Deliver(p)
      BY <1>2, <1>5, <2>3 DEF Promise!Deliver
    <2>6. QED
      BY <2>4, <2>5 DEF Promise!Next
  <1>8. QED
    BY <1>3, <1>6, <1>7

LEMMA PromiseStep ==
  TypeOK /\ QueueExact /\ Solvent /\ Inventory /\ Turns /\ [Next]_vars =>
    [Promise!Next]_(Promise!promiseVars)
  <1> SUFFICES ASSUME TypeOK, QueueExact, Solvent, Inventory, Turns, [Next]_vars
               PROVE  [Promise!Next]_(Promise!promiseVars)
    OBVIOUS
  <1>1. TypeOK' /\ QueueExact'
    BY NextTypeOK, QueueStep
  <1>2. CASE Prepares \/ Reclaims
    <2>1. /\ template' = template /\ opening' = opening
          /\ boxMint' = boxMint /\ remaining' = remaining
      BY <1>2, PreparesFrame, ReclaimsFrame
    <2>2. QED
      BY <2>1, SameOpenings, UnseenStutters DEF Unseen, Final, Unlocked
  <1>3. CASE Closes \/ AdvanceSlot
    <2>1. template' = template /\ boxMint' = boxMint /\ remaining' = remaining
      BY <1>3, ClosesFrame, SlotFrame
    <2>2. Queued' = Queued /\ \A r \in Queued : opening'[r].sequence = opening[r].sequence
      BY <1>3, ClosesOpening, SlotOpening DEF Queued
    <2>3. Winnings' = Winnings
      BY <1>3, ClosesOpening, SlotOpening, WinningsKept
    <2>4. QED
      BY <2>1, <2>2, <2>3, LineKept, UnseenStutters DEF Unseen, Final, Unlocked
  <1>4. QED
    BY <1>1, <1>2, <1>3, StepCases, IdlesPromise, ActivatesPromise, AllocatesPromise,
       AnswersPromise, RequestsPromise, ClaimsPromise

\* Whatever the program does, a holder sees only what BoxPromise allows: the
\* safety of the refinement that the run Promise checks with its fairness.
THEOREM PromiseRespected ==
  Spec => Promise!Init /\ [][Promise!Next]_(Promise!promiseVars)
  <1>1. Init => Promise!Init
    BY PromiseInit
  <1>2. QED
    BY <1>1, PromiseStep, OrderInvariant, PTL DEF Spec
=============================================================================
