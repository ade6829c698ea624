\* Three boxes, terms inside and outside the limits, and one that only the fee
\* pushes over the largest amount.  The draw: words of four bits, bounds on both
\* sides of half of them.
SPECIFICATION SceneSpec
CONSTANTS
  creator = creator
  ann = ann
  None = none
  Wallets = {creator, ann}
  Creator = creator
  Pages = {creator}
  MaxTrade = 2
  SlippageBps = 100
  EndPrices = {2, 8, 22}
  Budgets = {0, 3, 8, 9, 20}
  MaxU64 = 36
  MinInventory = 2
  MinStartPrice = 3
  MaxFeeBps = 500
  Supply = 3
  ClosesAt = 2
  Rent = 2
  MaxGift = 1
  Inventories = {1, 2, 3}
  StartPrices = {2, 3}
  PriceSteps = {0, 2, 9}
  Fees = {0, 500, 501}
  Word = 16
  MaxTotalWeight = 13
  Tries = 8
INVARIANTS PricesExact BuybackGuaranteed DeliveryGuaranteed Uniform PagesAgree
PROPERTIES CreatorWaits TradesSound
CHECK_DEADLOCK FALSE
