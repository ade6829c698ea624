---------------------------- MODULE MarketProofs ----------------------------
(***************************************************************************)
(* The market side: what a holder of a sold box and a buyer may rely on    *)
(* while a curve trades, and what the drawing of a ticket is worth.        *)
(*                                                                         *)
(* The curve, for all terms, supplies and amounts: the closed form of the  *)
(* cost is additive, so the reserve is at every moment the cost of the     *)
(* first `sold` positions.  Hence it covers any tail of them, and the      *)
(* checks made when the curve was opened, for the purchase of the whole    *)
(* inventory, bound every later trade.                                     *)
(*                                                                         *)
(* The pages, for all wallets, terms and allowances: what a page signs is  *)
(* bound to what it showed, and what it shows is priced as the program     *)
(* prices it, so an order that lands later is still within its allowance.  *)
(*                                                                         *)
(* The drawing, for every width of the word: the rejected band is what is  *)
(* left over when the words are dealt to the tickets in equal shares.      *)
(*                                                                         *)
(* The last part is about the creator who hands boxes out (Airdrop, in the *)
(* scenes of MCCreator): what a list asks for, how it is cut into batches, *)
(* and that the runs of the card keep to it.                               *)
(***************************************************************************)
EXTENDS CurveTrade, OutcomeSelection, MCCreator, Sums, FiniteSetTheorems,
        FunctionTheorems, SequenceTheorems, TLAPS

-----------------------------------------------------------------------------
(* Arithmetic of the closed form.                                          *)

Triangle(n) == (n * (n - 1)) \div 2

\* One of two consecutive numbers is even, so halving loses nothing.
LEMMA TriangleExact ==
  ASSUME NEW n \in Nat
  PROVE  Triangle(n) \in Nat /\ 2 * Triangle(n) = n * (n - 1)
  <1> DEFINE k == n \div 2
  <1>1. k \in Nat /\ (n = 2 * k \/ n = 2 * k + 1)
    OBVIOUS
  <1> HIDE DEF k
  <1>2. CASE n = 2 * k
    <2> DEFINE t == k * (n - 1)
    <2>1. n * (n - 1) = 2 * t
      BY <1>1, <1>2
    <2>2. t \in Nat
      <3>1. CASE k = 0
        BY <3>1
      <3>2. CASE k > 0
        BY <1>1, <1>2, <3>2
      <3>3. QED
        BY <1>1, <3>1, <3>2
    <2> HIDE DEF t
    <2>3. QED
      BY <2>1, <2>2 DEF Triangle
  <1>3. CASE n = 2 * k + 1
    <2> DEFINE t == k * n
    <2>1. n * (n - 1) = 2 * t
      BY <1>1, <1>3
    <2>2. t \in Nat
      BY <1>1
    <2> HIDE DEF t
    <2>3. QED
      BY <2>1, <2>2 DEF Triangle
  <1>4. QED
    BY <1>1, <1>2, <1>3

\* The cost without a division.
LEMMA CostForm ==
  ASSUME NEW start \in Nat, NEW step \in Nat, NEW from \in Nat, NEW n \in Nat
  PROVE  CurveCost(start, step, from, n)
           = n * start + step * (n * from + Triangle(n))
  <1>1. Triangle(n) \in Nat /\ 2 * Triangle(n) = n * (n - 1)
    BY TriangleExact
  <1>2. n * (2 * from + n - 1) = 2 * (n * from) + n * (n - 1)
    OBVIOUS
  <1> DEFINE along == n * from
             half == Triangle(n)
             square == n * (n - 1)
             whole == along + half
  <1>3. /\ along \in Nat /\ half \in Nat /\ square = 2 * half
        /\ n * (2 * from + n - 1) = 2 * along + square
    BY <1>1, <1>2
  <1> HIDE DEF along, half, square
  <1>4. n * (2 * from + n - 1) = 2 * whole /\ whole \in Nat
    BY <1>3
  <1> HIDE DEF whole
  <1>5. (2 * whole) \div 2 = whole
    BY <1>4
  <1>6. CurveCost(start, step, from, n) = n * start + step * ((2 * whole) \div 2)
    BY <1>4, Zenon DEF CurveCost
  <1>7. CurveCost(start, step, from, n) = n * start + step * whole
    BY <1>5, <1>6, Zenon
  <1>8. QED
    BY <1>7, Zenon DEF whole, along, half

LEMMA CostIsNat ==
  ASSUME NEW start \in Nat, NEW step \in Nat, NEW from \in Nat, NEW n \in Nat
  PROVE  CurveCost(start, step, from, n) \in Nat
  <1>1. Triangle(n) \in Nat
    BY TriangleExact
  <1>2. n * start \in Nat /\ n * from \in Nat
    OBVIOUS
  <1> DEFINE base == n * start
             rise == step * (n * from + Triangle(n))
  <1>3. base \in Nat /\ rise \in Nat
    BY <1>1, <1>2
  <1>4. CurveCost(start, step, from, n) = base + rise
    BY CostForm
  <1> HIDE DEF base, rise
  <1>5. QED
    BY <1>3, <1>4

\* A trade may be split anywhere: the parts cost what the whole costs.
LEMMA CostAdds ==
  ASSUME NEW start \in Nat, NEW step \in Nat, NEW from \in Nat,
         NEW n \in Nat, NEW m \in Nat
  PROVE  CurveCost(start, step, from, n + m)
           = CurveCost(start, step, from, n) + CurveCost(start, step, from + n, m)
  <1> DEFINE a == Triangle(n)
             b == Triangle(m)
             c == Triangle(n + m)
             x == n * from + a
             y == m * (from + n) + b
             z == (n + m) * from + c
  <1>1. a \in Nat /\ b \in Nat /\ c \in Nat
    BY TriangleExact
  <1>2. 2 * a = n * (n - 1) /\ 2 * b = m * (m - 1)
          /\ 2 * c = (n + m) * (n + m - 1)
    BY TriangleExact
  <1>3. (n + m) * (n + m - 1) = n * (n - 1) + m * (m - 1) + 2 * (n * m)
    OBVIOUS
  <1>4. c = a + b + n * m
    BY <1>1, <1>2, <1>3
  <1>5. CurveCost(start, step, from, n) = n * start + step * x
    BY CostForm
  <1>6. CurveCost(start, step, from + n, m) = m * start + step * y
    <2>1. from + n \in Nat
      OBVIOUS
    <2>2. QED
      BY <2>1, CostForm
  <1>7. CurveCost(start, step, from, n + m) = (n + m) * start + step * z
    <2>1. n + m \in Nat
      OBVIOUS
    <2>2. QED
      BY <2>1, CostForm
  <1> HIDE DEF a, b, c
  <1>8. z = x + y /\ x \in Nat /\ y \in Nat /\ z \in Nat
    BY <1>1, <1>4
  <1> HIDE DEF x, y, z
  <1>9. step * z = step * x + step * y
    BY <1>8
  <1>10. (n + m) * start = n * start + m * start
    OBVIOUS
  <1> DEFINE first == n * start
             second == m * start
             rise == step * x
             further == step * y
  <1>11. first \in Nat /\ second \in Nat /\ rise \in Nat /\ further \in Nat
    BY <1>8
  <1>12. CurveCost(start, step, from, n + m) = (first + second) + (rise + further)
    BY <1>7, <1>9, <1>10
  <1> HIDE DEF first, second, rise, further
  <1>13. (first + second) + (rise + further) = (first + rise) + (second + further)
    BY <1>11
  <1>14. QED
    BY <1>5, <1>6, <1>12, <1>13 DEF first, second, rise, further

\* The same, for a tail of the positions from the first.
LEMMA CostSplits ==
  ASSUME NEW start \in Nat, NEW step \in Nat, NEW k \in Nat, NEW n \in Nat,
         NEW whole, whole = k + n
  PROVE  CurveCost(start, step, 0, whole)
           = CurveCost(start, step, 0, k) + CurveCost(start, step, k, n)
  <1>1. \A from \in Nat :
          CurveCost(start, step, from, k + n)
            = CurveCost(start, step, from, k) + CurveCost(start, step, from + k, n)
    BY CostAdds
  <1>2. 0 \in Nat /\ 0 + k = k
    OBVIOUS
  <1>3. CurveCost(start, step, 0, k + n)
          = CurveCost(start, step, 0, k) + CurveCost(start, step, 0 + k, n)
    BY <1>1, <1>2, Zenon
  <1>4. QED
    BY <1>2, <1>3, Zenon

\* The fee of a smaller amount is no larger, and never above the amount.
LEMMA FeeBounds ==
  ASSUME NEW small \in Nat, NEW large \in Nat, small <= large,
         NEW bps \in 0 .. BpsDenominator
  PROVE  /\ CurveFee(small, bps) \in Nat /\ CurveFee(large, bps) \in Nat
         /\ CurveFee(small, bps) <= CurveFee(large, bps)
         /\ CurveFee(small, bps) <= small
  <1> DEFINE x == small * bps
             y == large * bps
  <1>1. x \in Nat /\ y \in Nat /\ x <= small * BpsDenominator
    BY DEF BpsDenominator
  <1>2. x <= y
    <2>1. y = x + (large - small) * bps /\ (large - small) * bps >= 0
      BY DEF BpsDenominator
    <2>2. QED
      BY <1>1, <2>1
  <1>3. /\ CurveFee(small, bps) = (x + 9999) \div 10000
        /\ CurveFee(large, bps) = (y + 9999) \div 10000
        /\ x <= small * 10000
    BY <1>1 DEF CurveFee, BpsDenominator
  <1> HIDE DEF x, y
  <1>4. QED
    BY <1>1, <1>2, <1>3

-----------------------------------------------------------------------------
(* The inductive invariant: the promise of ReserveIsSum in closed form,    *)
(* with the terms the curve was opened under and the boxes it still owes.  *)

\* The cost of the first k positions of curve c.
CostOfFirst(c, k) == CurveCost(c.startPrice, c.priceStep, 0, k)

ReserveExact ==
  curve.open =>
    /\ ValidTerms(curve.inventory, curve.startPrice, curve.priceStep, curve.feeBps)
    /\ curve.sold <= curve.inventory
    /\ curve.soldOutAt # 0 <=> curve.sold = curve.inventory
    /\ curve.reserve =
         IF curve.sold = curve.inventory THEN 0 ELSE CostOfFirst(curve, curve.sold)
    /\ Solvent(lamports, curve.reserve)
    /\ held >= curve.inventory - curve.sold

LEMMA TermsTyped ==
  ASSUME NEW c \in CurveType,
         ValidTerms(c.inventory, c.startPrice, c.priceStep, c.feeBps)
  PROVE  c.feeBps \in 0 .. BpsDenominator /\ c.inventory > 0
  <1>1. c.feeBps \in Nat /\ c.inventory \in Nat
    BY DEF CurveType
  <1>2. c.inventory >= MinInventory /\ c.feeBps <= MaxFeeBps
    BY DEF ValidTerms
  <1>3. PICK inventory \in Nat, bps \in Nat :
          inventory = c.inventory /\ bps = c.feeBps
    BY <1>1
  <1>4. inventory >= MinInventory /\ bps <= MaxFeeBps
    BY <1>2, <1>3
  <1>5. inventory > 0
    BY <1>4, CurveAssumption
  <1>6. bps \in 0 .. BpsDenominator
    BY <1>4, CurveAssumption, SMTT(30) DEF BpsDenominator
  <1>7. QED
    BY <1>3, <1>5, <1>6

\* Selling n boxes leaves the cost of the positions that stay sold.
LEMMA SaleLeaves ==
  ASSUME NEW c \in CurveType, NEW n \in 1 .. c.sold
  PROVE  /\ SellPrice(c, n) \in Nat
         /\ c.sold - n \in Nat
         /\ CostOfFirst(c, c.sold - n) \in Nat
         /\ CostOfFirst(c, c.sold) = CostOfFirst(c, c.sold - n) + SellPrice(c, n)
  <1>1. PICK start \in Nat, step \in Nat, sold \in Nat :
          start = c.startPrice /\ step = c.priceStep /\ sold = c.sold
    BY DEF CurveType
  <1>2. PICK left \in Nat : left = sold - n /\ n \in Nat /\ sold = left + n
    BY <1>1
  <1>3. /\ CurveCost(start, step, 0, left) \in Nat
        /\ CurveCost(start, step, left, n) \in Nat
        /\ CurveCost(start, step, 0, sold)
             = CurveCost(start, step, 0, left) + CurveCost(start, step, left, n)
    <2>1. PICK count \in Nat : count = n
      BY <1>2
    <2>2. /\ CurveCost(start, step, 0, left) \in Nat
          /\ CurveCost(start, step, left, count) \in Nat
      BY CostIsNat
    <2>3. CurveCost(start, step, 0, sold)
            = CurveCost(start, step, 0, left) + CurveCost(start, step, left, count)
      BY <1>2, <2>1, CostSplits
    <2>4. QED
      BY <2>1, <2>2, <2>3
  <1>4. /\ SellPrice(c, n) = CurveCost(start, step, left, n)
        /\ c.sold - n = left
        /\ CostOfFirst(c, c.sold - n) = CurveCost(start, step, 0, left)
        /\ CostOfFirst(c, c.sold) = CurveCost(start, step, 0, sold)
    BY <1>1, <1>2 DEF SellPrice, CostOfFirst
  <1>5. QED
    BY <1>3, <1>4

\* Buying n boxes makes the cost of the positions then sold, which is at most
\* the cost of the whole inventory.
LEMMA PurchaseReaches ==
  ASSUME NEW c \in CurveType, NEW n \in Nat, c.sold + n <= c.inventory
  PROVE  /\ BuyPrice(c, n) \in Nat
         /\ CostOfFirst(c, c.sold) \in Nat
         /\ CostOfFirst(c, c.inventory) \in Nat
         /\ CostOfFirst(c, c.sold + n) = CostOfFirst(c, c.sold) + BuyPrice(c, n)
         /\ CostOfFirst(c, c.sold + n) <= CostOfFirst(c, c.inventory)
  <1>1. PICK start \in Nat, step \in Nat, sold \in Nat, inventory \in Nat :
          /\ start = c.startPrice /\ step = c.priceStep
          /\ sold = c.sold /\ inventory = c.inventory
    BY DEF CurveType
  <1>2. PICK next \in Nat, rest \in Nat :
          next = sold + n /\ inventory = next + rest
    <2>1. sold + n \in Nat /\ inventory - (sold + n) \in Nat
      BY <1>1
    <2>2. inventory = (sold + n) + (inventory - (sold + n))
      OBVIOUS
    <2>3. QED
      BY <2>1, <2>2
  <1>3. /\ CurveCost(start, step, 0, sold) \in Nat
        /\ CurveCost(start, step, sold, n) \in Nat
        /\ CurveCost(start, step, 0, inventory) \in Nat
        /\ CurveCost(start, step, 0, next) \in Nat
        /\ CurveCost(start, step, next, rest) \in Nat
    BY CostIsNat
  <1>4. CurveCost(start, step, 0, next)
          = CurveCost(start, step, 0, sold) + CurveCost(start, step, sold, n)
    BY <1>2, CostSplits
  <1>5. CurveCost(start, step, 0, inventory)
          = CurveCost(start, step, 0, next) + CurveCost(start, step, next, rest)
    BY <1>2, CostSplits
  <1>6. /\ BuyPrice(c, n) = CurveCost(start, step, sold, n)
        /\ CostOfFirst(c, c.sold) = CurveCost(start, step, 0, sold)
        /\ CostOfFirst(c, c.sold + n) = CurveCost(start, step, 0, next)
        /\ CostOfFirst(c, c.inventory) = CurveCost(start, step, 0, inventory)
    BY <1>1, <1>2 DEF BuyPrice, CostOfFirst
  <1>7. QED
    BY <1>3, <1>4, <1>5, <1>6

-----------------------------------------------------------------------------
(* What the invariant gives while the curve trades.                        *)

LEMMA TradingFacts ==
  ASSUME TypeOK, ReserveExact, Trading
  PROVE  /\ curve \in CurveType
         /\ curve.sold \in Nat /\ curve.inventory \in Nat /\ curve.reserve \in Nat
         /\ lamports \in Nat /\ held \in Nat /\ Rent \in Nat
         /\ ValidTerms(curve.inventory, curve.startPrice, curve.priceStep, curve.feeBps)
         /\ curve.sold < curve.inventory
         /\ curve.reserve = CostOfFirst(curve, curve.sold)
         /\ lamports >= Rent + curve.reserve
         /\ held >= curve.inventory - curve.sold
         /\ curve.feeBps \in 0 .. BpsDenominator
  <1>1. /\ curve \in CurveType
        /\ curve.sold \in Nat /\ curve.inventory \in Nat /\ curve.reserve \in Nat
        /\ lamports \in Nat /\ held \in Nat /\ Rent \in Nat
    BY CurveAssumption DEF TypeOK, CurveType
  <1>2. /\ ValidTerms(curve.inventory, curve.startPrice, curve.priceStep, curve.feeBps)
        /\ curve.sold <= curve.inventory /\ curve.sold # curve.inventory
        /\ curve.reserve = CostOfFirst(curve, curve.sold)
        /\ lamports >= Rent + curve.reserve
        /\ held >= curve.inventory - curve.sold
    BY DEF ReserveExact, Trading, Solvent
  <1>3. QED
    BY <1>1, <1>2, TermsTyped

\* The whole inventory fits, with its fee: checked when the curve was opened.
LEMMA InventoryFits ==
  ASSUME NEW c \in CurveType,
         ValidTerms(c.inventory, c.startPrice, c.priceStep, c.feeBps)
  PROVE  /\ CostOfFirst(c, c.inventory) <= MaxU64
         /\ CostOfFirst(c, c.inventory)
              + CurveFee(CostOfFirst(c, c.inventory), c.feeBps) <= MaxU64
  BY DEF ValidTerms, CostOfFirst, Fits

LEMMA SalesAccepted ==
  ASSUME TypeOK, ReserveExact, Trading, NEW n \in 1 .. curve.sold
  PROVE  /\ SellAccepted(n)
         /\ SellPrice(curve, n) \in Nat
         /\ curve.reserve - SellPrice(curve, n) = CostOfFirst(curve, curve.sold - n)
         /\ CostOfFirst(curve, curve.sold - n) \in Nat
  <1> DEFINE price == SellPrice(curve, n)
             left == CostOfFirst(curve, curve.sold - n)
             all == CostOfFirst(curve, curve.inventory)
  <1>1. price \in Nat /\ left \in Nat /\ curve.reserve = left + price
    BY TradingFacts, SaleLeaves
  <1>2. all \in Nat /\ curve.reserve <= all /\ all <= MaxU64
    <2>1. 0 \in Nat /\ curve.sold + 0 = curve.sold /\ curve.sold + 0 <= curve.inventory
      BY TradingFacts
    <2>2. all \in Nat /\ CostOfFirst(curve, curve.sold + 0) <= all
      BY <2>1, TradingFacts, PurchaseReaches
    <2>3. all <= MaxU64
      BY TradingFacts, InventoryFits
    <2>4. QED
      BY <2>1, <2>2, <2>3, TradingFacts
  <1>3. CurveFee(price, curve.feeBps) <= price
    BY <1>1, TradingFacts, FeeBounds
  <1>4. MaxU64 \in Nat /\ Rent \in Nat
    BY CurveAssumption
  <1>5. /\ n > 0 /\ curve.sold >= n
        /\ lamports >= Rent + curve.reserve /\ lamports \in Nat
    BY TradingFacts
  <1> HIDE DEF price, left, all
  <1>6. /\ price <= MaxU64 /\ curve.reserve >= price
        /\ curve.reserve - price = left
        /\ lamports - price >= Rent + (curve.reserve - price)
    BY <1>1, <1>2, <1>4, <1>5
  <1>7. QED
    BY <1>1, <1>3, <1>5, <1>6
       DEF price, left, SellAccepted, Sellable, Fits, Solvent

LEMMA PurchasesAccepted ==
  ASSUME TypeOK, ReserveExact, Trading,
         NEW n \in 1 .. curve.inventory - curve.sold
  PROVE  /\ BuyAccepted(n)
         /\ BuyPrice(curve, n) \in Nat
         /\ curve.reserve + BuyPrice(curve, n) = CostOfFirst(curve, curve.sold + n)
  <1> DEFINE price == BuyPrice(curve, n)
             all == CostOfFirst(curve, curve.inventory)
  <1>1. n \in Nat /\ n > 0 /\ curve.sold + n <= curve.inventory /\ held >= n
    BY TradingFacts
  <1>2. /\ price \in Nat /\ all \in Nat /\ curve.reserve \in Nat
        /\ CostOfFirst(curve, curve.sold + n) = curve.reserve + price
        /\ curve.reserve + price <= all
    BY <1>1, TradingFacts, PurchaseReaches
  <1>3. all <= MaxU64 /\ all + CurveFee(all, curve.feeBps) <= MaxU64
    BY TradingFacts, InventoryFits
  <1> HIDE DEF price, all
  <1>4. price <= all
    BY <1>2
  <1>5. /\ CurveFee(price, curve.feeBps) \in Nat /\ CurveFee(all, curve.feeBps) \in Nat
        /\ CurveFee(price, curve.feeBps) <= CurveFee(all, curve.feeBps)
    BY <1>2, <1>4, TradingFacts, FeeBounds
  <1>6. MaxU64 \in Nat
    BY CurveAssumption
  <1>7. /\ price <= MaxU64 /\ curve.reserve + price <= MaxU64
        /\ price + CurveFee(price, curve.feeBps) <= MaxU64
    BY <1>2, <1>3, <1>4, <1>5, <1>6
  <1>8. QED
    BY <1>1, <1>2, <1>7 DEF price, BuyAccepted, Buyable, Fits

-----------------------------------------------------------------------------
(* The invariant is inductive.                                             *)

IInv == TypeOK /\ ReserveExact

LEMMA InitInvariant == Init => IInv
  <1> SUFFICES ASSUME Init PROVE IInv
    OBVIOUS
  <1>1. NoCurve \in CurveType /\ ~NoCurve.open
    BY CurveAssumption DEF NoCurve, CurveType
  <1>2. QED
    BY <1>1, CurveAssumption DEF Init, IInv, TypeOK, ReserveExact

LEMMA OpenKeeps ==
  ASSUME IInv, NEW inventory \in Nat, NEW startPrice \in Nat,
         NEW priceStep \in Nat, NEW feeBps \in Nat,
         OpenBoxCurve(inventory, startPrice, priceStep, feeBps)
  PROVE  IInv'
  <1>1. /\ inventory \in Nat /\ startPrice \in Nat /\ priceStep \in Nat
        /\ feeBps \in Nat /\ Rent \in Nat /\ 0 \in 0 .. ClosesAt
        /\ lamports \in Nat /\ held \in Nat /\ boxes \in Nat /\ boxes >= inventory
    BY CurveAssumption DEF IInv, TypeOK, OpenBoxCurve
  <1>2. /\ curve' \in CurveType /\ curve'.open
        /\ curve'.inventory = inventory /\ curve'.startPrice = startPrice
        /\ curve'.priceStep = priceStep /\ curve'.feeBps = feeBps
        /\ curve'.sold = 0 /\ curve'.reserve = 0 /\ curve'.soldOutAt = 0
    BY <1>1 DEF OpenBoxCurve, NoCurve, CurveType
  <1>3. ValidTerms(inventory, startPrice, priceStep, feeBps)
    BY DEF OpenBoxCurve
  <1>4. inventory > 0
    BY <1>2, <1>3, TermsTyped
  <1>5. CostOfFirst(curve', 0) = 0
    <2>1. CurveCost(startPrice, priceStep, 0, 0) = 0
      BY <1>1 DEF CurveCost
    <2>2. QED
      BY <1>2, <2>1 DEF CostOfFirst
  <1>6. lamports' \in Nat /\ lamports' >= Rent + 0 /\ held' \in Nat
        /\ boxes' \in Nat /\ held' >= inventory - 0
    BY <1>1 DEF OpenBoxCurve
  <1>7. TypeOK'
    BY <1>2, <1>6 DEF IInv, TypeOK, OpenBoxCurve
  <1>8. ReserveExact'
    <2>1. /\ curve'.sold <= curve'.inventory /\ curve'.sold # curve'.inventory
          /\ curve'.reserve = CostOfFirst(curve', curve'.sold)
          /\ lamports' >= Rent + curve'.reserve
          /\ held' >= curve'.inventory - curve'.sold
      BY <1>1, <1>2, <1>4, <1>5, <1>6
    <2>2. ValidTerms(curve'.inventory, curve'.startPrice, curve'.priceStep, curve'.feeBps)
      BY <1>2, <1>3
    <2>3. QED
      BY <1>2, <2>1, <2>2 DEF ReserveExact, Solvent
  <1>9. QED
    BY <1>7, <1>8 DEF IInv

LEMMA BuyKeeps ==
  ASSUME IInv, NEW n \in Nat, BuyCurveBoxes(n)
  PROVE  IInv'
  <1> DEFINE price == BuyPrice(curve, n)
             soldOut == curve.sold + n = curve.inventory
             kept == IF soldOut THEN 0 ELSE curve.reserve + price
  <1>1. TypeOK /\ ReserveExact /\ Trading
    BY DEF IInv, BuyCurveBoxes
  <1>2. /\ n > 0 /\ curve.sold + n <= curve.inventory
        /\ curve.sold \in Nat /\ curve.inventory \in Nat /\ curve \in CurveType
        /\ lamports \in Nat /\ held \in Nat /\ curve.reserve \in Nat
        /\ lamports >= Rent + curve.reserve /\ Rent \in Nat
        /\ held >= curve.inventory - curve.sold
        /\ boxes \in Nat /\ now \in 1 .. ClosesAt
    BY <1>1, TradingFacts DEF BuyCurveBoxes, BuyAccepted, Buyable, TypeOK
  <1>3. n \in 1 .. curve.inventory - curve.sold
    BY <1>2
  <1>4. /\ price \in Nat
        /\ curve.reserve + price = CostOfFirst(curve, curve.sold + n)
    BY <1>1, <1>3, PurchasesAccepted
  <1>5. /\ curve' = [curve EXCEPT !.sold = curve.sold + n,
                                  !.reserve = kept,
                                  !.soldOutAt = IF soldOut THEN now ELSE curve.soldOutAt]
        /\ lamports' = lamports + price - (curve.reserve + price - kept)
        /\ held' = held - n
        /\ boxes' = boxes + n
        /\ now' = now /\ live' = live
    <2>1. curve' = [curve EXCEPT !.sold = curve.sold + n,
                                 !.reserve = kept,
                                 !.soldOutAt = IF soldOut THEN now ELSE curve.soldOutAt]
      BY DEF BuyCurveBoxes
    <2>2. lamports' = lamports + price - (curve.reserve + price - kept)
      <3>1. CASE soldOut
        BY <1>2, <1>4, <3>1 DEF BuyCurveBoxes
      <3>2. CASE ~soldOut
        BY <1>2, <1>4, <3>2 DEF BuyCurveBoxes
      <3>3. QED
        BY <3>1, <3>2
    <2>3. held' = held - n /\ boxes' = boxes + n /\ now' = now /\ live' = live
      BY DEF BuyCurveBoxes
    <2>4. QED
      BY <2>1, <2>2, <2>3
  <1> HIDE DEF price
  <1>6. kept \in Nat /\ (IF soldOut THEN now ELSE curve.soldOutAt) \in 0 .. ClosesAt
    BY <1>2, <1>4 DEF CurveType
  <1>7. /\ lamports' \in Nat /\ lamports' >= Rent + kept
        /\ held' \in Nat /\ held' >= curve.inventory - (curve.sold + n)
        /\ boxes' \in Nat /\ curve.sold + n \in Nat
    BY <1>2, <1>4, <1>5
  <1>8. /\ curve' \in CurveType
        /\ curve'.open = curve.open /\ curve'.inventory = curve.inventory
        /\ curve'.startPrice = curve.startPrice
        /\ curve'.priceStep = curve.priceStep /\ curve'.feeBps = curve.feeBps
        /\ curve'.sold = curve.sold + n /\ curve'.reserve = kept
        /\ curve'.soldOutAt = IF soldOut THEN now ELSE curve.soldOutAt
    <2> HIDE DEF kept, soldOut
    <2>1. QED
      BY <1>2, <1>5, <1>6, <1>7 DEF CurveType
  <1>9. TypeOK'
    BY <1>1, <1>5, <1>7, <1>8 DEF TypeOK
  <1>10. curve'.soldOutAt # 0 <=> curve'.sold = curve'.inventory
    BY <1>1, <1>2, <1>8 DEF Trading
  <1>11. curve'.reserve = IF curve'.sold = curve'.inventory THEN 0
                            ELSE CostOfFirst(curve', curve'.sold)
    BY <1>4, <1>8 DEF CostOfFirst
  <1>12. ReserveExact'
    BY <1>1, <1>2, <1>7, <1>8, <1>10, <1>11, TradingFacts DEF ReserveExact, Solvent
  <1>13. QED
    BY <1>9, <1>12 DEF IInv

LEMMA SellKeeps ==
  ASSUME IInv, NEW n \in Nat, SellCurveBoxes(n)
  PROVE  IInv'
  <1> DEFINE price == SellPrice(curve, n)
             kept == curve.reserve - price
  <1>1. TypeOK /\ ReserveExact /\ Trading
    BY DEF IInv, SellCurveBoxes
  <1>2. /\ n > 0 /\ curve.sold >= n /\ boxes >= n
        /\ curve.sold \in Nat /\ curve.inventory \in Nat /\ curve \in CurveType
        /\ lamports \in Nat /\ held \in Nat /\ curve.reserve \in Nat
        /\ lamports >= Rent + curve.reserve /\ Rent \in Nat
        /\ held >= curve.inventory - curve.sold
        /\ curve.sold < curve.inventory /\ boxes \in Nat
    BY <1>1, TradingFacts DEF SellCurveBoxes, SellAccepted, Sellable, TypeOK
  <1>3. n \in 1 .. curve.sold
    BY <1>2
  <1>4. price \in Nat /\ kept \in Nat /\ kept = CostOfFirst(curve, curve.sold - n)
    BY <1>1, <1>3, SalesAccepted
  <1>5. /\ curve' = [curve EXCEPT !.sold = curve.sold - n, !.reserve = kept]
        /\ lamports' = lamports - price
        /\ held' = held + n
        /\ boxes' = boxes - n
        /\ now' = now /\ live' = live
    BY DEF SellCurveBoxes
  <1> HIDE DEF price
  <1>6. /\ lamports' \in Nat /\ lamports' >= Rent + kept
        /\ held' \in Nat /\ held' >= curve.inventory - (curve.sold - n)
        /\ boxes' \in Nat /\ curve.sold - n \in Nat
        /\ curve.sold - n < curve.inventory
    BY <1>2, <1>4, <1>5
  <1> HIDE DEF kept
  <1>7. /\ curve' \in CurveType
        /\ curve'.open = curve.open /\ curve'.inventory = curve.inventory
        /\ curve'.startPrice = curve.startPrice
        /\ curve'.priceStep = curve.priceStep /\ curve'.feeBps = curve.feeBps
        /\ curve'.sold = curve.sold - n /\ curve'.reserve = kept
        /\ curve'.soldOutAt = curve.soldOutAt
    BY <1>2, <1>4, <1>5, <1>6 DEF CurveType
  <1>8. TypeOK'
    BY <1>1, <1>5, <1>6, <1>7 DEF TypeOK
  <1>9. curve'.soldOutAt = 0 /\ curve'.sold < curve'.inventory /\ curve'.sold # curve'.inventory
    BY <1>1, <1>2, <1>6, <1>7 DEF Trading
  <1>10. curve'.reserve = CostOfFirst(curve', curve'.sold)
    BY <1>4, <1>7 DEF CostOfFirst
  <1>11. ReserveExact'
    BY <1>1, <1>2, <1>6, <1>7, <1>9, <1>10, TradingFacts DEF ReserveExact, Solvent
  <1>12. QED
    BY <1>8, <1>11 DEF IInv

LEMMA CloseKeeps ==
  ASSUME IInv, CloseBoxCurve
  PROVE  IInv'
  <1>1. curve' \in CurveType /\ ~curve'.open
    BY CurveAssumption DEF CloseBoxCurve, NoCurve, CurveType
  <1>2. TypeOK'
    BY <1>1 DEF IInv, TypeOK, CloseBoxCurve
  <1>3. QED
    BY <1>1, <1>2 DEF IInv, ReserveExact

\* Steps of the environment only add to what the curve holds.
LEMMA EnvironmentKeeps ==
  ASSUME IInv,
         Tick \/ RetireLootbox \/ BurnBox \/ GiveBox \/ GiveLamport \/ UNCHANGED vars
  PROVE  IInv' /\ curve' = curve
  <1>1. /\ lamports \in Nat /\ held \in Nat /\ Rent \in Nat
        /\ curve.reserve \in Nat /\ curve.inventory \in Nat /\ curve.sold \in Nat
    BY CurveAssumption DEF IInv, TypeOK, CurveType
  <1>2. TypeOK' /\ curve' = curve /\ lamports' >= lamports /\ held' >= held
    <2>1. CASE Tick \/ RetireLootbox
      <3>1. now \in 1 .. ClosesAt /\ live \in BOOLEAN
        BY DEF IInv, TypeOK
      <3>2. now' \in 1 .. ClosesAt
        BY <2>1, <3>1, CurveAssumption DEF Tick, RetireLootbox
      <3>3. live' \in BOOLEAN
        BY <2>1, <3>1 DEF Tick, RetireLootbox
      <3>4. /\ curve' = curve /\ lamports' = lamports /\ held' = held /\ boxes' = boxes
        BY <2>1 DEF Tick, RetireLootbox
      <3>5. QED
        BY <1>1, <3>2, <3>3, <3>4 DEF IInv, TypeOK
    <2>2. CASE BurnBox \/ GiveBox
      BY <2>2, <1>1 DEF IInv, TypeOK, BurnBox, GiveBox
    <2>3. CASE GiveLamport
      BY <2>3, <1>1 DEF IInv, TypeOK, GiveLamport
    <2>4. CASE UNCHANGED vars
      BY <2>4, <1>1 DEF IInv, TypeOK, vars
    <2>5. QED
      BY <2>1, <2>2, <2>3, <2>4
  <1>3. lamports' \in Nat /\ held' \in Nat
    BY <1>2 DEF TypeOK
  <1>4. ReserveExact'
    <2> SUFFICES ASSUME curve'.open PROVE ReserveExact'
      BY DEF ReserveExact
    <2>1. lamports >= Rent + curve.reserve /\ held >= curve.inventory - curve.sold
      BY <1>2 DEF IInv, ReserveExact, Solvent
    <2>2. lamports' >= Rent + curve.reserve /\ held' >= curve.inventory - curve.sold
      BY <1>1, <1>2, <1>3, <2>1
    <2>3. QED
      BY <1>2, <2>2 DEF IInv, ReserveExact, Solvent
  <1>5. QED
    BY <1>2, <1>4 DEF IInv

LEMMA StepCases ==
  ASSUME IInv, [Next]_vars
  PROVE  \/ \E inventory \in Nat, startPrice \in Nat, priceStep \in Nat, feeBps \in Nat :
                OpenBoxCurve(inventory, startPrice, priceStep, feeBps)
         \/ \E n \in Nat : BuyCurveBoxes(n)
         \/ \E n \in Nat : SellCurveBoxes(n)
         \/ CloseBoxCurve
         \/ Tick \/ RetireLootbox \/ BurnBox \/ GiveBox \/ GiveLamport \/ UNCHANGED vars
  BY CurveAssumption DEF Next, Over

LEMMA StepInvariant == IInv /\ [Next]_vars => IInv'
  <1> SUFFICES ASSUME IInv, [Next]_vars PROVE IInv'
    OBVIOUS
  <1>1. QED
    BY StepCases, OpenKeeps, BuyKeeps, SellKeeps, CloseKeeps, EnvironmentKeeps

\* The reserve and the terms are exact in every reachable state, for all terms.
THEOREM ReserveAlwaysExact == Spec => []IInv
  <1>1. QED
    BY InitInvariant, StepInvariant, PTL DEF Spec

\* Every sold box can be sold back while the curve trades, whatever trades
\* came before: no reachable reserve is too small for any sale.
THEOREM BuybackAlwaysGuaranteed == Spec => []BuybackGuaranteed
  <1>1. IInv => BuybackGuaranteed
    BY SalesAccepted DEF IInv, BuybackGuaranteed
  <1>2. QED
    BY <1>1, ReserveAlwaysExact, PTL

\* Every unsold box can be bought while the curve trades: no trade overflows
\* or finds the token account short, for all terms that were accepted.
THEOREM DeliveryAlwaysGuaranteed == Spec => []DeliveryGuaranteed
  <1>1. IInv => DeliveryGuaranteed
    BY PurchasesAccepted DEF IInv, DeliveryGuaranteed
  <1>2. QED
    BY <1>1, ReserveAlwaysExact, PTL

\* The creator gets nothing out of the reserve before the sale is over.
THEOREM CreatorAlwaysWaits == Spec => CreatorWaits
  <1> DEFINE Waits == Trading /\ curve.reserve > 0 /\ curve'.reserve < curve.reserve =>
               \/ curve'.sold < curve.sold /\ held' - held = curve.sold - curve'.sold
               \/ curve'.sold = curve.inventory /\ curve'.soldOutAt = now
  <1>1. IInv /\ [Next]_vars => [Waits]_vars
    <2> SUFFICES ASSUME IInv, [Next]_vars, Trading, curve.reserve > 0,
                        curve'.reserve < curve.reserve
                 PROVE  Waits
      OBVIOUS
    <2>1. /\ curve \in CurveType /\ curve.sold \in Nat /\ curve.inventory \in Nat
          /\ curve.reserve \in Nat /\ held \in Nat
          /\ curve.reserve = CostOfFirst(curve, curve.sold)
      BY TradingFacts DEF IInv
    <2>2. ASSUME NEW n \in Nat, BuyCurveBoxes(n) PROVE Waits
      <3>1. n \in 1 .. curve.inventory - curve.sold
        BY <2>1, <2>2 DEF BuyCurveBoxes, BuyAccepted, Buyable
      <3>2. BuyPrice(curve, n) \in Nat
        BY <3>1, PurchasesAccepted DEF IInv
      <3>3. CASE curve.sold + n = curve.inventory
        <4>1. curve'.sold = curve.inventory /\ curve'.soldOutAt = now
          BY <2>1, <2>2, <3>3 DEF BuyCurveBoxes, CurveType
        <4>2. QED
          BY <4>1
      <3>4. CASE curve.sold + n # curve.inventory
        <4>1. curve'.reserve = curve.reserve + BuyPrice(curve, n)
          BY <2>1, <2>2, <3>4 DEF BuyCurveBoxes, CurveType
        <4>2. QED
          BY <2>1, <3>2, <4>1
      <3>5. QED
        BY <3>3, <3>4
    <2>3. ASSUME NEW n \in Nat, SellCurveBoxes(n) PROVE Waits
      <3>1. curve'.sold = curve.sold - n /\ held' = held + n /\ n > 0
        BY <2>1, <2>3 DEF SellCurveBoxes, SellAccepted, Sellable, CurveType
      <3>2. QED
        BY <2>1, <3>1
    <2>4. CASE CloseBoxCurve
      <3>1. curve.sold = 0
        BY <2>4, CurveAssumption DEF CloseBoxCurve, Closeable, Trading, IInv, TypeOK
      <3>2. CostOfFirst(curve, 0) = 0
        BY <2>1 DEF CostOfFirst, CurveCost, CurveType
      <3>3. QED
        BY <2>1, <3>1, <3>2
    <2>5. QED
      BY <2>1, <2>2, <2>3, <2>4, StepCases, EnvironmentKeeps
         DEF Trading, OpenBoxCurve
  <1>2. QED
    BY <1>1, ReserveAlwaysExact, PTL DEF Spec, CreatorWaits

-----------------------------------------------------------------------------
(* PricesExact.                                                            *)

\* The closed form of the cost is the sum of the prices it stands for.
LEMMA CostIsSum ==
  ASSUME NEW start \in Nat, NEW step \in Nat, NEW n \in Nat, NEW price
  PROVE  (\A k \in 0 .. n - 1 : price[k] = start + step * k)
           => SumFunctionOnSet(price, 0 .. n - 1) = CurveCost(start, step, 0, n)
  <1>1. ASSUME \A k \in 0 .. n - 1 : price[k] = start + step * k
        PROVE  SumFunctionOnSet(price, 0 .. n - 1) = CurveCost(start, step, 0, n)
    <2>1. PICK sums : sums = [k \in Nat |-> CurveCost(start, step, 0, k)]
      OBVIOUS
    <2>2. sums[0] = 0
      BY <2>1 DEF CurveCost
    <2>3. \A k \in 0 .. n - 1 : price[k] \in Int /\ sums[k + 1] = sums[k] + price[k]
      <3> SUFFICES ASSUME NEW k \in 0 .. n - 1
                   PROVE  price[k] \in Int /\ sums[k + 1] = sums[k] + price[k]
        OBVIOUS
      <3>1. k \in Nat /\ k + 1 \in Nat /\ price[k] = start + step * k
        BY <1>1
      <3>2. price[k] \in Nat
        BY <3>1
      <3>3. CurveCost(start, step, k, 1) = start + step * k
        <4>1. 1 * (2 * k + 1 - 1) = 2 * k /\ (2 * k) \div 2 = k
          BY <3>1
        <4>2. CurveCost(start, step, k, 1) = 1 * start + step * ((2 * k) \div 2)
          BY <4>1, Zenon DEF CurveCost
        <4>3. 1 * start = start
          OBVIOUS
        <4>4. QED
          BY <4>1, <4>2, <4>3, Zenon
      <3>4. CurveCost(start, step, 0, k + 1)
              = CurveCost(start, step, 0, k) + CurveCost(start, step, k, 1)
        BY <3>1, CostSplits
      <3>5. QED
        BY <2>1, <3>1, <3>2, <3>3, <3>4
    <2>4. SumFunctionOnSet(price, 0 .. n - 1) = sums[n]
      BY <2>2, <2>3, RunningSum
    <2>5. QED
      BY <2>1, <2>4
  <1>2. QED
    BY <1>1

\* Rounding up twice is never less than rounding up once.
LEMMA FeesAdd ==
  ASSUME NEW x \in Nat, NEW y \in Nat, NEW bps \in 0 .. BpsDenominator
  PROVE  CurveFee(x + y, bps) <= CurveFee(x, bps) + CurveFee(y, bps)
  <1> DEFINE a == x * bps
             b == y * bps
  <1>1. a \in Nat /\ b \in Nat /\ (x + y) * bps = a + b
    BY DEF BpsDenominator
  <1>2. /\ CurveFee(x, bps) = (a + 9999) \div 10000
        /\ CurveFee(y, bps) = (b + 9999) \div 10000
        /\ CurveFee(x + y, bps) = (a + b + 9999) \div 10000
    BY <1>1 DEF CurveFee, BpsDenominator
  <1> HIDE DEF a, b
  <1>3. QED
    BY <1>1, <1>2

LEMMA ReserveIsTheSum ==
  ASSUME IInv
  PROVE  ReserveIsSum
  <1> SUFFICES ASSUME curve.open PROVE ReserveIsSum
    BY DEF ReserveIsSum
  <1> DEFINE price == [k \in 0 .. curve.inventory - 1 |->
                         CurvePrice(curve.startPrice, curve.priceStep, k)]
  <1>1. curve \in CurveType /\ curve.sold \in Nat /\ curve.inventory \in Nat
    BY DEF IInv, TypeOK, CurveType
  <1>2. /\ curve.sold <= curve.inventory
        /\ curve.soldOutAt # 0 <=> curve.sold = curve.inventory
        /\ curve.reserve =
             IF curve.sold = curve.inventory THEN 0 ELSE CostOfFirst(curve, curve.sold)
        /\ Solvent(lamports, curve.reserve)
    BY DEF IInv, ReserveExact
  <1>3. SumFunctionOnSet(price, 0 .. curve.sold - 1) = CostOfFirst(curve, curve.sold)
    <2>1. PICK start \in Nat, step \in Nat, n \in Nat :
            start = curve.startPrice /\ step = curve.priceStep /\ n = curve.sold
      BY <1>1 DEF CurveType
    <2>2. \A k \in 0 .. n - 1 : price[k] = start + step * k
      BY <1>1, <1>2, <2>1 DEF CurvePrice
    <2> HIDE DEF price
    <2>3. SumFunctionOnSet(price, 0 .. n - 1) = CurveCost(start, step, 0, n)
      BY <2>2, CostIsSum, ZenonT(40)
    <2>4. QED
      BY <2>1, <2>3 DEF CostOfFirst
  <1> HIDE DEF price
  <1>4. /\ curve.reserve = IF curve.sold = curve.inventory THEN 0
                             ELSE SumFunctionOnSet(price, 0 .. curve.sold - 1)
        /\ curve.soldOutAt # 0 <=> curve.sold = curve.inventory
        /\ Solvent(lamports, curve.reserve)
    BY <1>2, <1>3
  <1>5. QED
    BY <1>4, Zenon DEF ReserveIsSum, price

LEMMA SplitsAreFair ==
  ASSUME IInv
  PROVE  SplitsNeverPay
  <1> SUFFICES ASSUME Trading,
                      NEW n \in 1 .. curve.inventory, NEW m \in 1 .. curve.inventory,
                      Buyable(curve, n + m)
               PROVE  LET after == [curve EXCEPT !.sold = @ + n]
                          left == [curve EXCEPT !.sold = @ + m]
                          sold == [curve EXCEPT !.sold = @ + n + m]
                          whole == BuyPrice(curve, n + m)
                          fee(amount) == CurveFee(amount, curve.feeBps)
                      IN /\ whole = BuyPrice(curve, n) + BuyPrice(after, m)
                         /\ whole = SellPrice(sold, n) + SellPrice(left, m)
                         /\ fee(whole) <= fee(BuyPrice(curve, n)) + fee(BuyPrice(after, m))
    BY DEF SplitsNeverPay
  <1> DEFINE after == [curve EXCEPT !.sold = @ + n]
             left == [curve EXCEPT !.sold = @ + m]
             sold == [curve EXCEPT !.sold = @ + n + m]
  <1>1. /\ curve \in CurveType /\ curve.inventory \in Nat
        /\ curve.feeBps \in 0 .. BpsDenominator
    BY TradingFacts DEF IInv
  <1>2. n \in Nat /\ m \in Nat
    BY <1>1
  <1>3. PICK start \in Nat, step \in Nat, from \in Nat :
          start = curve.startPrice /\ step = curve.priceStep /\ from = curve.sold
    BY <1>1 DEF CurveType
  <1>4. /\ after.startPrice = start /\ after.priceStep = step /\ after.sold = from + n
        /\ left.startPrice = start /\ left.priceStep = step /\ left.sold = from + m
        /\ sold.startPrice = start /\ sold.priceStep = step /\ sold.sold = from + n + m
    BY <1>1, <1>3 DEF CurveType
  <1> HIDE DEF after, left, sold
  <1>5. from + n + m - n = from + m /\ from + m - m = from /\ n + m = m + n
    BY <1>2
  <1>6. /\ BuyPrice(curve, n + m) = CurveCost(start, step, from, n + m)
        /\ BuyPrice(curve, n) = CurveCost(start, step, from, n)
        /\ BuyPrice(after, m) = CurveCost(start, step, from + n, m)
        /\ SellPrice(sold, n) = CurveCost(start, step, from + m, n)
        /\ SellPrice(left, m) = CurveCost(start, step, from, m)
    <2>1. /\ sold.sold - n = from + m /\ left.sold - m = from
      BY <1>2, <1>4
    <2>2. QED
      BY <1>3, <1>4, <2>1, Zenon DEF BuyPrice, SellPrice
  <1>7. /\ CurveCost(start, step, from, n + m)
             = CurveCost(start, step, from, n) + CurveCost(start, step, from + n, m)
        /\ CurveCost(start, step, from, m + n)
             = CurveCost(start, step, from, m) + CurveCost(start, step, from + m, n)
    <2>1. \A x \in Nat, y \in Nat :
            CurveCost(start, step, from, x + y)
              = CurveCost(start, step, from, x) + CurveCost(start, step, from + x, y)
      BY CostAdds
    <2>2. QED
      BY <1>2, <2>1
  <1>8. /\ CurveCost(start, step, from, n) \in Nat
        /\ CurveCost(start, step, from + n, m) \in Nat
        /\ CurveCost(start, step, from, m) \in Nat
        /\ CurveCost(start, step, from + m, n) \in Nat
    <2>1. from + n \in Nat /\ from + m \in Nat
      BY <1>2
    <2>2. \A x \in Nat, y \in Nat : CurveCost(start, step, x, y) \in Nat
      BY CostIsNat
    <2>3. QED
      BY <1>2, <2>1, <2>2
  <1>9. BuyPrice(curve, n + m) = BuyPrice(curve, n) + BuyPrice(after, m)
    BY <1>6, <1>7
  <1>10. BuyPrice(curve, n + m) = SellPrice(sold, n) + SellPrice(left, m)
    BY <1>5, <1>6, <1>7, <1>8
  <1>11. CurveFee(BuyPrice(curve, n + m), curve.feeBps)
           <= CurveFee(BuyPrice(curve, n), curve.feeBps)
                + CurveFee(BuyPrice(after, m), curve.feeBps)
    BY <1>1, <1>6, <1>8, <1>9, FeesAdd
  <1>12. QED
    BY <1>9, <1>10, <1>11 DEF after, left, sold

\* The reserve is the sum of the prices of the positions now sold, and
\* splitting a trade moves the same price and never saves a fee, for all terms.
THEOREM PricesAlwaysExact == Spec => []PricesExact
  <1>1. IInv => PricesExact
    BY ReserveIsTheSum, SplitsAreFair DEF IInv, PricesExact
  <1>2. QED
    BY <1>1, ReserveAlwaysExact, PTL

-----------------------------------------------------------------------------
(* The selected ticket and the rejected band.                              *)

\* A residue lies below its modulus and is the number itself when that does.
LEMMA Residues ==
  ASSUME NEW x \in Nat, NEW b \in Nat \ {0}
  PROVE  /\ x % b \in Nat /\ x % b < b
         /\ x < b => x % b = x
  OBVIOUS

\* The rejected band is smaller than the bound and than half of the words.
LEMMA BandIsSmall ==
  ASSUME NEW b \in 1 .. MaxTotalWeight
  PROVE  /\ RejectionThreshold(b) \in Nat
         /\ RejectionThreshold(b) < b
         /\ 2 * RejectionThreshold(b) < Word
  <1>1. /\ Word \in Nat \ {0} /\ b \in Nat \ {0} /\ b < Word
        /\ Word - b \in Nat /\ Word - b < Word
    BY SelectionAssumption
  <1>2. WrappingNeg(b) = Word - b
    BY <1>1, Residues DEF WrappingNeg
  <1>3. PICK rest \in Nat : rest = Word - b
    BY <1>1
  <1>4. RejectionThreshold(b) = rest % b
    BY <1>2, <1>3 DEF RejectionThreshold
  <1>5. rest % b \in Nat /\ rest % b < b /\ (rest < b => rest % b = rest)
    BY <1>1, Residues
  <1>6. CASE rest < b
    BY <1>1, <1>3, <1>4, <1>5, <1>6
  <1>7. CASE ~(rest < b)
    BY <1>1, <1>3, <1>4, <1>5, <1>7
  <1>8. QED
    BY <1>6, <1>7

\* A drawing that still runs, or has succeeded, has a valid bound.
ValidBound == status # "invalid" => bound \in 1 .. MaxTotalWeight

LEMMA InitIsSound == SelectionInit => SelectionTypeOK /\ ValidBound
  BY SelectionAssumption DEF SelectionInit, SelectionTypeOK, ValidBound, Words, Targets

LEMMA StepIsSound ==
  SelectionTypeOK /\ ValidBound /\ [SelectionNext]_selectionVars
    => SelectionTypeOK' /\ ValidBound'
  <1> SUFFICES ASSUME SelectionTypeOK, ValidBound, [SelectionNext]_selectionVars
               PROVE  SelectionTypeOK' /\ ValidBound'
    OBVIOUS
  <1>1. ASSUME NEW c \in Words, Sample(c) PROVE SelectionTypeOK' /\ ValidBound'
    <2>1. /\ bound \in 1 .. MaxTotalWeight /\ bound' = bound
          /\ bound \in Words /\ MaxTotalWeight \in Nat
      BY <1>1, SelectionAssumption DEF Sample, ValidBound, SelectionTypeOK
    <2>2. CASE Accepted(c, bound)
      <3>1. /\ status' = "selected" /\ target' = c % bound /\ counter' = counter
        BY <1>1, <2>2 DEF Sample, Residue
      <3>2. c \in Nat /\ bound \in Nat \ {0}
        BY <2>1, SelectionAssumption DEF Words
      <3>3. c % bound \in Nat /\ c % bound < bound
        BY <3>2, Residues
      <3>4. target' \in Targets /\ target' < bound'
        BY <2>1, <3>1, <3>3 DEF Targets
      <3>5. QED
        BY <2>1, <3>1, <3>4 DEF SelectionTypeOK, ValidBound
    <2>3. CASE ~Accepted(c, bound)
      <3>1. /\ counter < Tries /\ counter' = counter + 1
            /\ status' = status /\ target' = target
        BY <1>1, <2>3 DEF Sample
      <3>2. counter' \in 0 .. Tries
        BY <3>1, SelectionAssumption DEF SelectionTypeOK
      <3>3. QED
        BY <2>1, <3>1, <3>2 DEF SelectionTypeOK, ValidBound
    <2>4. QED
      BY <2>2, <2>3
  <1>2. CASE Exhaust
    BY <1>2 DEF Exhaust, SelectionTypeOK, ValidBound
  <1>3. CASE Returned \/ UNCHANGED selectionVars
    BY <1>3 DEF Returned, selectionVars, SelectionTypeOK, ValidBound
  <1>4. QED
    BY <1>1, <1>2, <1>3 DEF SelectionNext

\* Whatever the entropy, a ticket that is selected exists in the inventory.
THEOREM TicketAlwaysExists == SelectionSpec => []SelectionTypeOK
  <1>1. QED
    BY InitIsSound, StepIsSound, PTL DEF SelectionSpec

\* For every inventory more than half of the words give a ticket.
THEOREM MostWordsAlwaysAccepted == SelectionSpec => []MostWordsAccepted
  <1>1. SelectionTypeOK /\ ValidBound => MostWordsAccepted
    BY BandIsSmall DEF ValidBound, MostWordsAccepted
  <1>2. QED
    BY <1>1, InitIsSound, StepIsSound, PTL DEF SelectionSpec

-----------------------------------------------------------------------------
(* Uniform.  With Word = k * b + rest, the accepted words are the k * b    *)
(* from rest on, and every ticket is the residue of k of them: its first   *)
(* accepted word and every b-th word after that.                           *)

LEMMA DivisionExists ==
  ASSUME NEW x \in Nat, NEW b \in Nat \ {0}
  PROVE  \E q \in Nat, r \in 0 .. b - 1 : x = b * q + r /\ x % b = r
  <1>1. x \div b \in Nat /\ x % b \in 0 .. b - 1 /\ x = b * (x \div b) + (x % b)
    OBVIOUS
  <1>2. QED
    BY <1>1

\* Quotient and residue are the only ones.
LEMMA DivisionUnique ==
  ASSUME NEW b \in Nat \ {0}, NEW p \in Int, NEW q \in Int,
         NEW r \in 0 .. b - 1, NEW s \in 0 .. b - 1, b * p + r = b * q + s
  PROVE  p = q /\ r = s
  <1>1. ASSUME NEW m \in Int, NEW n \in Int, m < n PROVE b * n >= b * m + b
    <2>1. PICK d \in Nat : n = m + 1 + d
      BY <1>1
    <2>2. b * n = b * m + b + b * d
      BY <2>1
    <2>3. b * d \in Nat
      OBVIOUS
    <2>4. QED
      BY <2>2, <2>3
  <1>2. ~ (p < q)
    <2>1. SUFFICES ASSUME p < q PROVE FALSE
      OBVIOUS
    <2>2. b * q >= b * p + b
      BY <1>1, <2>1
    <2>3. QED
      BY <2>2
  <1>3. ~ (q < p)
    <2>1. SUFFICES ASSUME q < p PROVE FALSE
      OBVIOUS
    <2>2. b * p >= b * q + b
      BY <1>1, <2>1
    <2>3. QED
      BY <2>2
  <1>4. QED
    BY <1>2, <1>3

\* The residue of a number that is given by quotient and residue.
LEMMA ResidueIs ==
  ASSUME NEW b \in Nat \ {0}, NEW q \in Nat, NEW r \in 0 .. b - 1,
         NEW x \in Nat, x = b * q + r
  PROVE  x % b = r
  <1>1. PICK p \in Nat, s \in 0 .. b - 1 : x = b * p + s /\ x % b = s
    BY DivisionExists
  <1>2. QED
    <2>1. q \in Int /\ p \in Int /\ b * q + r = b * p + s
      BY <1>1
    <2>2. r = s
      BY <2>1, DivisionUnique
    <2>3. QED
      BY <1>1, <2>2

\* The band that is rejected is what is left of the words after k rounds.
LEMMA BandIsRest ==
  ASSUME NEW b \in 1 .. MaxTotalWeight
  PROVE  \E k \in Nat, rest \in 0 .. b - 1 :
           Word = b * k + rest /\ RejectionThreshold(b) = rest
  <1>1. /\ Word \in Nat \ {0} /\ b \in Nat \ {0} /\ b < Word
        /\ Word - b \in Nat /\ Word - b < Word
    BY SelectionAssumption
  <1>2. WrappingNeg(b) = Word - b
    BY <1>1, Residues DEF WrappingNeg
  <1>3. PICK q \in Nat, rest \in 0 .. b - 1 :
          Word - b = b * q + rest /\ (Word - b) % b = rest
    BY <1>1, DivisionExists
  <1>4. Word = b * (q + 1) + rest /\ q + 1 \in Nat
    BY <1>1, <1>3
  <1>5. QED
    BY <1>2, <1>3, <1>4 DEF RejectionThreshold

\* Every ticket below the bound is reached by as many words as the bound goes
\* into the word.
LEMMA PreimagesCounted ==
  ASSUME NEW b \in 1 .. MaxTotalWeight, NEW k \in Nat, NEW rest \in 0 .. b - 1,
         Word = b * k + rest, RejectionThreshold(b) = rest, NEW t \in 0 .. b - 1
  PROVE  Cardinality(Preimages(t, b)) = k
  <1>1. b \in Nat \ {0} /\ Word \in Nat
    BY SelectionAssumption
  <1> DEFINE late == IF t >= rest THEN 0 ELSE 1
             Nth == [j \in 0 .. k - 1 |-> b * (j + late) + t]
  <1>2. late \in {0, 1} /\ (late = 0 <=> t >= rest)
    OBVIOUS
  <1> HIDE DEF late
  <1>3. ASSUME NEW j \in 0 .. k - 1 PROVE Nth[j] \in Preimages(t, b)
    <2>1. PICK q \in Nat : q = j + late
      BY <1>2
    <2>2. PICK x \in Nat : x = b * q + t /\ x = Nth[j]
      BY <1>1, <2>1
    <2>3. x % b = t
      BY <1>1, <2>2, ResidueIs
    <2>4. x >= rest
      <3>1. CASE late = 0
        BY <1>1, <1>2, <2>2, <3>1
      <3>2. CASE late = 1
        <4>1. PICK p \in Nat : q = p + 1
          BY <2>1, <3>2
        <4>2. b * q = b * p + b /\ b * p \in Nat
          BY <1>1, <4>1
        <4>3. QED
          BY <1>1, <2>2, <4>2
      <3>3. QED
        BY <1>2, <3>1, <3>2
    <2>5. x < Word
      <3>1. PICK d \in Nat : k = j + 1 + d
        OBVIOUS
      <3>2. b * k = b * j + b + b * d /\ b * d \in Nat /\ b * j \in Nat
        BY <1>1, <3>1
      <3>3. CASE late = 0
        BY <1>1, <2>1, <2>2, <3>2, <3>3
      <3>4. CASE late = 1
        <4>1. b * q = b * j + b
          BY <1>1, <2>1, <3>4
        <4>2. t < rest
          BY <1>2, <3>4
        <4>3. QED
          BY <1>1, <2>2, <3>2, <4>1, <4>2
      <3>5. QED
        BY <1>2, <3>3, <3>4
    <2>6. QED
      BY <1>1, <2>2, <2>3, <2>4, <2>5 DEF Preimages, Accepted, Residue, Words
  <1>4. ASSUME NEW i \in 0 .. k - 1, NEW j \in 0 .. k - 1, Nth[i] = Nth[j]
        PROVE  i = j
    <2>1. b * (i + late) + t = b * (j + late) + t /\ i + late \in Int /\ j + late \in Int
      BY <1>2, <1>4
    <2>2. i + late = j + late
      BY <1>1, <2>1, DivisionUnique
    <2>3. QED
      BY <1>2, <2>2
  <1>5. ASSUME NEW c \in Preimages(t, b) PROVE \E j \in 0 .. k - 1 : Nth[j] = c
    <2>1. c \in Nat /\ c < Word /\ c >= rest /\ c % b = t
      BY <1>1 DEF Preimages, Accepted, Residue, Words
    <2>2. PICK q \in Nat : c = b * q + t
      <3>1. PICK q \in Nat, r \in 0 .. b - 1 : c = b * q + r /\ c % b = r
        BY <1>1, <2>1, DivisionExists
      <3>2. r = t
        BY <2>1, <3>1, Zenon
      <3>3. QED
        BY <3>1, <3>2
    <2>3. ASSUME NEW d \in Nat, q = k + d PROVE q = k /\ t < rest
      <3>1. b * q = b * k + b * d
        BY <1>1, <2>3
      <3>2. b * d + t < rest
        BY <1>1, <2>1, <2>2, <3>1
      <3>3. d = 0
        <4>1. CASE d > 0
          <5>1. PICK e \in Nat : d = e + 1
            BY <4>1
          <5>2. b * d = b * e + b /\ b * e \in Nat
            BY <1>1, <5>1
          <5>3. QED
            BY <1>1, <3>2, <5>2
        <4>2. QED
          BY <4>1
      <3>4. QED
        BY <1>1, <2>3, <3>2, <3>3
    <2>4. q <= k
      <3>1. CASE q > k
        <4>1. PICK d \in Nat : q = k + d /\ d > 0
          BY <3>1
        <4>2. QED
          BY <2>3, <4>1
      <3>2. QED
        BY <3>1
    <2>5. late <= q
      <3>1. CASE q = 0
        BY <1>1, <1>2, <2>1, <2>2, <3>1
      <3>2. QED
        BY <1>2, <3>1
    <2>6. q - late \in 0 .. k - 1
      <3>1. CASE q = k
        <4>1. t < rest
          BY <2>3, <3>1
        <4>2. QED
          BY <1>2, <2>5, <3>1, <4>1
      <3>2. CASE q < k
        BY <1>2, <2>5, <3>2
      <3>3. QED
        BY <2>4, <3>1, <3>2
    <2>7. PICK j \in 0 .. k - 1 : j + late = q
      BY <1>2, <2>6
    <2>8. Nth[j] = c
      BY <2>2, <2>7
    <2>9. QED
      BY <2>8
  <1>6. Nth \in Bijection(0 .. k - 1, Preimages(t, b))
    <2>1. Nth \in [0 .. k - 1 -> Preimages(t, b)]
      BY <1>3
    <2> HIDE DEF Nth
    <2>2. QED
      BY <1>4, <1>5, <2>1, Fun_IsBij
  <1>7. IsFiniteSet(0 .. k - 1) /\ Cardinality(0 .. k - 1) = k
    <2>1. 0 \in Int /\ k - 1 \in Int /\ (IF 0 > k - 1 THEN 0 ELSE k - 1 - 0 + 1) = k
      OBVIOUS
    <2>2. QED
      BY <2>1, FS_Interval, Zenon
  <1>8. ExistsBijection(0 .. k - 1, Preimages(t, b))
    BY <1>6 DEF ExistsBijection
  <1>9. QED
    BY <1>7, <1>8, FS_Bijection

\* For every inventory and every width of the word, each ticket is reached by
\* the same number of words: the draw has no modulo bias.
THEOREM DrawAlwaysUniform == SelectionSpec => []Uniform
  <1>1. ValidBound => Uniform
    <2> SUFFICES ASSUME ValidBound, status # "invalid",
                        NEW t \in 0 .. bound - 1, NEW u \in 0 .. bound - 1
                 PROVE  Cardinality(Preimages(t, bound)) = Cardinality(Preimages(u, bound))
      BY DEF Uniform
    <2>1. bound \in 1 .. MaxTotalWeight
      BY DEF ValidBound
    <2>2. PICK k \in Nat, rest \in 0 .. bound - 1 :
            Word = bound * k + rest /\ RejectionThreshold(bound) = rest
      BY <2>1, BandIsRest
    <2>3. QED
      BY <2>1, <2>2, PreimagesCounted
  <1>2. QED
    BY <1>1, InitIsSound, StepIsSound, PTL DEF SelectionSpec

-----------------------------------------------------------------------------
(* What affordableCurveBoxes finds.                                        *)

LEMMA BuyTotalIsNat ==
  ASSUME NEW c \in CurveType, c.feeBps \in 0 .. BpsDenominator, NEW n \in Nat
  PROVE  BuyTotal(c, n) \in Nat
<1>1. BuyPrice(c, n) \in Nat
  BY CostIsNat DEF BuyPrice, CurveType
<1> QED
  BY <1>1, FeeBounds DEF BuyTotal

\* A round keeps the range and makes it smaller, and each end it moves was
\* compared with the budget.
LEMMA RoundNarrows ==
  ASSUME NEW c \in CurveType, c.feeBps \in 0 .. BpsDenominator,
         NEW budget \in Nat, NEW most \in Nat,
         NEW r \in [low : 0 .. most, high : 0 .. most]
  PROVE  LET next == Narrowed(c, budget, r)
         IN /\ next \in [low : 0 .. most, high : 0 .. most]
            /\ r.low <= r.high =>
                 /\ next.low <= next.high
                 /\ r.low < r.high => next.high - next.low < r.high - r.low
                 /\ r.low = r.high => next = r
                 /\ next.low # r.low => BuyTotal(c, next.low) <= budget
                 /\ next.high # r.high => BuyTotal(c, next.high + 1) > budget
<1> DEFINE middle == Middle(r.low, r.high)
<1>1. r.low \in 0 .. most /\ r.high \in 0 .. most
  OBVIOUS
<1>2. CASE r.low >= r.high
  BY <1>1, <1>2 DEF Narrowed
<1>3. CASE r.low < r.high
  <2>1. middle \in Nat /\ r.low < middle /\ middle <= r.high
    BY <1>1, <1>3 DEF Middle
  <2>2. BuyTotal(c, middle) \in Nat
    BY <2>1, BuyTotalIsNat
  <2>3. Narrowed(c, budget, r) = IF BuyTotal(c, middle) <= budget
                                 THEN [r EXCEPT !.low = middle]
                                 ELSE [r EXCEPT !.high = middle - 1]
    BY <1>1, <1>3 DEF Narrowed
  <2> HIDE DEF middle
  <2>4. CASE BuyTotal(c, middle) <= budget
    <3>1. /\ Narrowed(c, budget, r).low = middle /\ Narrowed(c, budget, r).high = r.high
          /\ Narrowed(c, budget, r) \in [low : 0 .. most, high : 0 .. most]
      BY <1>1, <2>1, <2>3, <2>4
    <3> QED
      BY <1>1, <1>3, <2>1, <2>4, <3>1
  <2>5. CASE BuyTotal(c, middle) > budget
    <3>1. /\ Narrowed(c, budget, r).low = r.low /\ Narrowed(c, budget, r).high = middle - 1
          /\ Narrowed(c, budget, r) \in [low : 0 .. most, high : 0 .. most]
      BY <1>1, <2>1, <2>2, <2>3, <2>5
    <3>2. middle - 1 + 1 = middle
      BY <2>1
    <3> QED
      BY <1>1, <1>3, <2>1, <2>5, <3>1, <3>2
  <2> QED
    BY <2>2, <2>4, <2>5
<1> QED
  BY <1>1, <1>2, <1>3

\* The search as a function of the rounds made, as the model defines it.
Afford(c, budget, most) ==
  CHOOSE after : after = [rounds \in 0 .. most |->
    IF rounds = 0 THEN [low |-> 0, high |-> most]
    ELSE Narrowed(c, budget, after[rounds - 1])]

LEMMA AffordableIs ==
  ASSUME NEW c, NEW budget
  PROVE  AffordableBoxes(c, budget)
           = Afford(c, budget, c.inventory - c.sold)[c.inventory - c.sold].low
BY DEF AffordableBoxes, Afford

\* The recursion has a solution: a shorter one is always extended by a round.
LEMMA AffordExists ==
  ASSUME NEW c, NEW budget, NEW most \in Nat
  PROVE  LET after == Afford(c, budget, most)
         IN /\ after[0] = [low |-> 0, high |-> most]
            /\ \A k \in 1 .. most : after[k] = Narrowed(c, budget, after[k - 1])
<1> DEFINE a == [low |-> 0, high |-> most]
           Is(after, n) == after = [rounds \in 0 .. n |->
             IF rounds = 0 THEN a ELSE Narrowed(c, budget, after[rounds - 1])]
           Bad == {n \in 0 .. most : ~ \E after : Is(after, n)}
<1>1. \E after : Is(after, most)
  <2> SUFFICES ASSUME most \in Bad PROVE FALSE
    OBVIOUS
  <2>1. PICK k \in Bad : \A j \in Bad : k <= j
    <3>1. Bad \in SUBSET (0 .. most) /\ Bad # {}
      OBVIOUS
    <3> HIDE DEF Bad
    <3> QED
      BY <3>1, LeastNumber
  <2>2. k \in 0 .. most /\ k \in Nat /\ ~ \E after : Is(after, k)
    BY <2>1
  <2>3. k # 0
    <3> DEFINE g == [rounds \in 0 .. 0 |-> a]
    <3>1. \A i \in 0 .. 0 : i = 0
      OBVIOUS
    <3>2. Is(g, 0)
      <4> HIDE DEF a
      <4> QED
        BY <3>1
    <3> HIDE DEF Is
    <3> QED
      BY <2>2, <3>2
  <2>4. k - 1 \in 0 .. most /\ k - 1 \notin Bad
    <3>1. k - 1 \in 0 .. most /\ ~ (k <= k - 1)
      BY <2>2, <2>3
    <3> HIDE DEF Bad
    <3> QED
      BY <2>1, <3>1
  <2>5. PICK g : Is(g, k - 1)
    <3> HIDE DEF Is
    <3> QED
      BY <2>4
  <2> DEFINE h == [i \in 0 .. k |-> IF i = k THEN Narrowed(c, budget, g[k - 1]) ELSE g[i]]
  <2>6. \A i \in 0 .. k : h[i] = IF i = 0 THEN a ELSE Narrowed(c, budget, h[i - 1])
    <3> HIDE DEF a
    <3> SUFFICES ASSUME NEW i \in 0 .. k
                 PROVE  h[i] = IF i = 0 THEN a ELSE Narrowed(c, budget, h[i - 1])
      OBVIOUS
    <3>1. CASE i = 0
      <4>1. 0 \in 0 .. k - 1 /\ 0 \in 0 .. k /\ 0 # k
        BY <2>2, <2>3
      <4>2. g[0] = a
        BY <2>5, <4>1
      <4> QED
        BY <3>1, <4>1, <4>2
    <3>2. CASE i # 0
      <4>1. i - 1 \in 0 .. k - 1 /\ i - 1 \in 0 .. k /\ i - 1 # k
        BY <2>2, <3>2
      <4>2. h[i - 1] = g[i - 1]
        BY <4>1
      <4>3. CASE i = k
        BY <4>2, <4>3, <3>2
      <4>4. CASE i # k
        <5>1. i \in 0 .. k - 1
          BY <2>2, <4>4
        <5>2. g[i] = Narrowed(c, budget, g[i - 1])
          BY <2>5, <3>2, <5>1
        <5> QED
          BY <3>2, <4>2, <4>4, <5>2
      <4> QED
        BY <4>3, <4>4
    <3> QED
      BY <3>1, <3>2
  <2>7. Is(h, k)
    <3>1. h = [i \in 0 .. k |-> h[i]]
      OBVIOUS
    <3> HIDE DEF h, a
    <3> QED
      BY <2>6, <3>1
  <2> HIDE DEF Is, h
  <2> QED
    BY <2>2, <2>7
<1>2. Is(Afford(c, budget, most), most)
  BY <1>1 DEF Afford
<1> DEFINE after == Afford(c, budget, most)
<1>3. after[0] = a
  BY <1>2
<1>4. ASSUME NEW k \in 1 .. most PROVE after[k] = Narrowed(c, budget, after[k - 1])
  <2>1. k \in 0 .. most /\ k # 0
    OBVIOUS
  <2> QED
    BY <1>2, <2>1
<1> QED
  BY <1>3, <1>4

\* After k rounds at most the range less k numbers are left.
LEMMA AffordKeeps ==
  ASSUME NEW c \in CurveType, c.feeBps \in 0 .. BpsDenominator,
         NEW budget \in Nat, NEW most \in Nat, NEW k \in 0 .. most
  PROVE  LET r == Afford(c, budget, most)[k]
         IN /\ r \in [low : 0 .. most, high : 0 .. most]
            /\ r.low <= r.high /\ r.high - r.low <= most - k
            /\ r.low > 0 => BuyTotal(c, r.low) <= budget
            /\ r.high < most => BuyTotal(c, r.high + 1) > budget
<1> DEFINE S == [low : 0 .. most, high : 0 .. most]
           after == Afford(c, budget, most)
           Right(r, i) == /\ r \in S
                          /\ r.low <= r.high /\ r.high - r.low <= most - i
                          /\ r.low > 0 => BuyTotal(c, r.low) <= budget
                          /\ r.high < most => BuyTotal(c, r.high + 1) > budget
           Bad == {i \in 0 .. most : ~ Right(after[i], i)}
<1> SUFFICES ASSUME k \in Bad PROVE FALSE
  OBVIOUS
<1>1. PICK j \in Bad : \A i \in Bad : j <= i
  <2>1. Bad \in SUBSET (0 .. most) /\ Bad # {}
    OBVIOUS
  <2> HIDE DEF Bad
  <2> QED
    BY <2>1, LeastNumber
<1>2. j \in 0 .. most /\ ~ Right(after[j], j)
  BY <1>1
<1>3. /\ after[0] = [low |-> 0, high |-> most]
      /\ \A i \in 1 .. most : after[i] = Narrowed(c, budget, after[i - 1])
  BY AffordExists
<1> HIDE DEF after
<1>4. j # 0
  <2>1. Right(after[0], 0)
    BY <1>3
  <2> HIDE DEF Right
  <2> QED
    BY <1>2, <2>1
<1>5. j - 1 \in 0 .. most /\ j - 1 \notin Bad /\ j \in 1 .. most
  <2>1. j - 1 \in 0 .. most /\ ~ (j <= j - 1) /\ j \in 1 .. most
    BY <1>2, <1>4
  <2> HIDE DEF Bad
  <2> QED
    BY <1>1, <2>1
<1>6. Right(after[j - 1], j - 1)
  <2> HIDE DEF Right
  <2> QED
    BY <1>5
<1>7. after[j] = Narrowed(c, budget, after[j - 1])
  BY <1>3, <1>5
<1> DEFINE r == after[j - 1]
           next == after[j]
<1>8. /\ next \in S
      /\ next.low <= next.high
      /\ r.low < r.high => next.high - next.low < r.high - r.low
      /\ r.low = r.high => next = r
      /\ next.low # r.low => BuyTotal(c, next.low) <= budget
      /\ next.high # r.high => BuyTotal(c, next.high + 1) > budget
  <2>1. r \in S /\ r.low <= r.high
    BY <1>6
  <2> HIDE DEF r
  <2>2. next = Narrowed(c, budget, r)
    BY <1>7 DEF r
  <2> QED
    BY <2>1, <2>2, RoundNarrows
<1>9. next.high - next.low <= most - j
  <2>1. /\ r.low \in Nat /\ r.high \in Nat /\ r.low <= r.high
        /\ r.high - r.low <= most - (j - 1)
    BY <1>6
  <2>2. next.low \in Nat /\ next.high \in Nat
    BY <1>8
  <2> HIDE DEF r, next
  <2> QED
    BY <1>5, <1>8, <2>1, <2>2
<1>10. Right(after[j], j)
  BY <1>6, <1>8, <1>9
<1> HIDE DEF Right
<1> QED
  BY <1>2, <1>10

\* The search ends on the most boxes that are within the budget.
LEMMA MostAffordable ==
  ASSUME NEW c \in CurveType, c.feeBps \in 0 .. BpsDenominator, c.sold <= c.inventory,
         NEW budget \in Nat
  PROVE  LET n == AffordableBoxes(c, budget)
         IN /\ n > 0 => BuyTotal(c, n) <= budget
            /\ n < CurveLeft(c) => BuyTotal(c, n + 1) > budget
<1> DEFINE most == c.inventory - c.sold
           r == Afford(c, budget, most)[most]
<1>1. most \in Nat /\ most \in 0 .. most
  BY DEF CurveType
<1>2. AffordableBoxes(c, budget) = r.low
  BY AffordableIs
<1>3. /\ r \in [low : 0 .. most, high : 0 .. most]
      /\ r.low <= r.high /\ r.high - r.low <= most - most
      /\ r.low > 0 => BuyTotal(c, r.low) <= budget
      /\ r.high < most => BuyTotal(c, r.high + 1) > budget
  <2> HIDE DEF most
  <2> QED
    BY <1>1, AffordKeeps
<1> HIDE DEF r
<1>4. r.low = r.high
  <2> HIDE DEF most
  <2> QED
    BY <1>1, <1>3
<1> QED
  BY <1>2, <1>3, <1>4 DEF CurveLeft

-----------------------------------------------------------------------------
(* The pages in front of the curve.  Their invariant is that of the curve, *)
(* the terms the creator signed and the limits the traders signed.         *)

LEMMA Quotient ==
  ASSUME NEW x \in Nat, NEW b \in Nat \ {0}
  PROVE  x \div b \in Nat /\ b * (x \div b) <= x /\ x - b * (x \div b) < b
  OBVIOUS

\* What is signed is the shown price with the allowance.
Signed ==
  \A w \in Pages : order[w] # None /\ order[w].kind \in {"buy", "sell"} =>
    order[w].limit = WithSlippage(Total(order[w].view, order[w].kind, order[w].count),
                                  order[w].kind)

TradeInv == TradeAssumption /\ IInv /\ TradeTypeOK /\ PlanOpens /\ Signed

LEMMA TradeInitInv == TradeAssumption /\ TradeInit => TradeInv
<1> SUFFICES ASSUME TradeAssumption, TradeInit PROVE TradeInv
  OBVIOUS
<1>1. IInv
  BY InitInvariant DEF TradeInit
<1>2. NoPage \in Page
  BY CurveAssumption DEF NoPage, Page, NoCurve, CurveType, Unknown, TradeAssumption
<1>3. TradeTypeOK
  BY <1>1, <1>2, CurveAssumption DEF TradeTypeOK, IInv, TradeInit
<1>4. PlanOpens /\ Signed
  BY DEF PlanOpens, Signed, TradeInit, CreatorAsks, Trades
<1> QED
  BY <1>1, <1>3, <1>4 DEF TradeInv

\* A page that follows the chain or its user.
LEMMA PageKeeps ==
  ASSUME TradeInv, NEW w \in Pages,
         \/ Look(w)
         \/ \E holding \in {wallet[w], Unknown} : ReadHolding(w, holding)
         \/ \E side \in {"buy", "sell"} : PickSide(w, side)
         \/ \E count \in 1 .. MaxTrade : PickCount(w, count)
  PROVE  page' \in [Pages -> Page] /\ UNCHANGED <<now, live, curve, lamports, held, boxes, wallet, order>>
<1>1. /\ page \in [Pages -> Page] /\ page[w] \in Page /\ wallet[w] \in Nat
      /\ curve \in CurveType /\ now \in 0 .. ClosesAt /\ MaxTrade \in Nat \ {0}
  BY CurveAssumption DEF TradeInv, TradeTypeOK, TypeOK, TradeAssumption
<1>2. \E p \in Page : page' = [page EXCEPT ![w] = p]
  <2>1. CASE Look(w)
    <3> DEFINE p == [page[w] EXCEPT !.view = curve, !.at = now,
                       !.asked = page[w].asked \/ (page[w].view.sold # curve.sold)]
    <3>1. p \in Page
      BY <1>1 DEF Page
    <3>2. page' = [page EXCEPT ![w] = p]
      BY <2>1 DEF Look
    <3> QED
      BY <3>1, <3>2
  <2>2. ASSUME NEW holding \in {wallet[w], Unknown}, ReadHolding(w, holding)
        PROVE  \E p \in Page : page' = [page EXCEPT ![w] = p]
    <3>1. holding \in Nat \cup {Unknown}
      BY <1>1
    <3> DEFINE read == [page[w] EXCEPT !.holding = holding, !.asked = FALSE]
    <3>2. read \in Page /\ [read EXCEPT !.side = "buy"] \in Page /\ [read EXCEPT !.side = read.side] \in Page
      BY <1>1, <3>1 DEF Page
    <3>3. \/ page' = [page EXCEPT ![w] = [read EXCEPT !.side = "buy"]]
          \/ page' = [page EXCEPT ![w] = [read EXCEPT !.side = read.side]]
      BY <2>2 DEF ReadHolding
    <3> QED
      BY <3>2, <3>3
  <2>3. ASSUME NEW side \in {"buy", "sell"}, PickSide(w, side)
        PROVE  \E p \in Page : page' = [page EXCEPT ![w] = p]
    <3>1. [page[w] EXCEPT !.side = side, !.count = 1] \in Page
      <4>1. 1 \in 1 .. MaxTrade /\ [page[w] EXCEPT !.side = side] \in Page
        BY <1>1 DEF Page
      <4>2. \A q \in Page : [q EXCEPT !.count = 1] \in Page
        BY <4>1 DEF Page
      <4> QED
        BY <4>1, <4>2
    <3> QED
      BY <2>3, <3>1 DEF PickSide
  <2>4. ASSUME NEW count \in 1 .. MaxTrade, PickCount(w, count)
        PROVE  \E p \in Page : page' = [page EXCEPT ![w] = p]
    <3>1. [page[w] EXCEPT !.count = count] \in Page
      BY <1>1 DEF Page
    <3> QED
      BY <2>4, <3>1 DEF PickCount
  <2> QED
    BY <2>1, <2>2, <2>3, <2>4
<1>3. UNCHANGED <<now, live, curve, lamports, held, boxes, wallet, order>>
  BY DEF Look, ReadHolding, PickSide, PickCount, chain
<1> QED
  BY <1>1, <1>2, <1>3

\* An order is dropped, or one is signed.
LEMMA OrderDropped ==
  ASSUME TradeInv, NEW w \in Pages, order' = [order EXCEPT ![w] = None]
  PROVE  order' \in [Pages -> Order \cup {None}] /\ PlanOpens' /\ Signed'
<1>1. order \in [Pages -> Order \cup {None}]
  BY DEF TradeInv, TradeTypeOK
<1>2. \A u \in Pages : order'[u] = None \/ order'[u] = order[u]
  BY <1>1
<1>3. Creator \in Pages => order'[Creator] = None \/ order'[Creator] = order[Creator]
  BY <1>2
<1> QED
  BY <1>1, <1>2, <1>3 DEF TradeInv, PlanOpens, Signed, CreatorAsks

LEMMA TradeSigned ==
  ASSUME TradeInv, NEW w \in Pages, NEW to \in Wallets, PressTrade(w, to)
  PROVE  order' \in [Pages -> Order \cup {None}] /\ PlanOpens' /\ Signed'
<1> DEFINE p == page[w]
           limit == WithSlippage(Total(p.view, p.side, p.count), p.side)
           o == [kind |-> p.side, count |-> p.count, view |-> p.view, limit |-> limit, to |-> to]
<1>1. order \in [Pages -> Order \cup {None}] /\ p \in Page
  BY DEF TradeInv, TradeTypeOK
<1>2. limit \in Int /\ order' = [order EXCEPT ![w] = o]
  BY CurveAssumption DEF PressTrade
<1>3. /\ o.kind \in {"buy", "sell"} /\ o.kind = p.side /\ o.view = p.view /\ o.count = p.count
      /\ o.limit = limit
  BY <1>1 DEF Page
<1>4. o.limit = WithSlippage(Total(o.view, o.kind, o.count), o.kind)
  BY <1>3
<1>5. o \in Order
  <2> HIDE DEF limit
  <2> QED
    BY <1>1, <1>2 DEF Page, Order
<1> HIDE DEF o
<1>6. \A u \in Pages : order'[u] = o \/ order'[u] = order[u]
  BY <1>1, <1>2
<1>7. Signed'
  BY <1>4, <1>6 DEF TradeInv, Signed
<1>8. PlanOpens'
  BY <1>3, <1>6 DEF TradeInv, PlanOpens, CreatorAsks
<1> QED
  BY <1>1, <1>2, <1>5, <1>7, <1>8

LEMMA OpenSigned ==
  ASSUME TradeInv, NEW inventory \in Nat, NEW startPrice \in Nat, NEW endPrice \in Nat,
         NEW feeBps \in Nat, PressOpen(inventory, startPrice, endPrice, feeBps)
  PROVE  order' \in [Pages -> Order \cup {None}] /\ PlanOpens' /\ Signed'
<1> DEFINE step == PriceStep(inventory, startPrice, endPrice)
           o == [kind |-> "open", inventory |-> inventory, startPrice |-> startPrice,
                 priceStep |-> step, endPrice |-> endPrice, feeBps |-> feeBps]
<1>1. order \in [Pages -> Order \cup {None}] /\ MinInventory >= 2 /\ MinInventory \in Nat
  BY CurveAssumption DEF TradeInv, TradeTypeOK, TradeAssumption
<1>2. Creator \in Pages /\ order' = [order EXCEPT ![Creator] = o]
  BY DEF PressOpen
<1>3. Plans(inventory, startPrice, endPrice, feeBps)
  BY DEF PressOpen
<1>4. /\ inventory >= MinInventory /\ startPrice >= MinStartPrice /\ endPrice >= startPrice
      /\ feeBps \in 0 .. MaxFeeBps
      /\ Fits(CurveCost(startPrice, step, 0, inventory))
      /\ Fits(CurveCost(startPrice, step, 0, inventory)
                + CurveFee(CurveCost(startPrice, step, 0, inventory), feeBps))
  BY <1>3 DEF Plans
<1>5. inventory - 1 \in Nat \ {0} /\ endPrice - startPrice \in Nat
  BY <1>1, <1>4
<1>6. /\ step \in Nat /\ (inventory - 1) * step <= endPrice - startPrice
      /\ (endPrice - startPrice) - (inventory - 1) * step < inventory - 1
  BY <1>5, Quotient DEF PriceStep
<1> HIDE DEF step
<1>7. ValidTerms(inventory, startPrice, step, feeBps)
  BY <1>4, CurveAssumption DEF ValidTerms
<1>8. LET last == CurvePrice(startPrice, step, inventory - 1)
      IN last <= endPrice /\ endPrice - last < inventory - 1
  <2> DEFINE x == (inventory - 1) * step
  <2>1. x \in Int /\ step * (inventory - 1) = x
    BY <1>5, <1>6
  <2>2. CurvePrice(startPrice, step, inventory - 1) = startPrice + x
    BY <2>1 DEF CurvePrice
  <2>3. x <= endPrice - startPrice /\ (endPrice - startPrice) - x < inventory - 1
    BY <1>6
  <2> HIDE DEF x
  <2> QED
    BY <2>1, <2>2, <2>3
<1>9. o \in Order
  BY <1>6 DEF Order
<1>10. PlanOpens'
  <2>1. order'[Creator] = o
    BY <1>1, <1>2
  <2> QED
    BY <1>7, <1>8, <2>1 DEF PlanOpens
<1> HIDE DEF o
<1>11. \A u \in Pages : order'[u] = o \/ order'[u] = order[u]
  BY <1>1, <1>2
<1>12. Signed'
  BY <1>11 DEF TradeInv, Signed, o
<1> QED
  BY <1>1, <1>2, <1>9, <1>10, <1>12

LEMMA CloseSigned ==
  ASSUME TradeInv, PressClose
  PROVE  order' \in [Pages -> Order \cup {None}] /\ PlanOpens' /\ Signed'
<1> DEFINE o == [kind |-> "close"]
<1>1. order \in [Pages -> Order \cup {None}] /\ order' = [order EXCEPT ![Creator] = o]
  BY DEF TradeInv, TradeTypeOK, PressClose
<1>2. o \in Order /\ o.kind = "close"
  BY DEF Order
<1> HIDE DEF o
<1>3. \A u \in Pages : order'[u] = o \/ order'[u] = order[u]
  BY <1>1
<1> QED
  BY <1>1, <1>2, <1>3 DEF TradeInv, PlanOpens, Signed, CreatorAsks

LEMMA OrderParts ==
  ASSUME TradeAssumption, NEW o \in Order
  PROVE  /\ o.kind \in {"buy", "sell"} =>
              /\ o.count \in Nat /\ o.count > 0
              /\ o.to \in Wallets /\ o.view \in CurveType /\ o.limit \in Int
         /\ o.kind = "open" =>
              /\ o.inventory \in Nat /\ o.startPrice \in Nat /\ o.priceStep \in Nat
              /\ o.endPrice \in Nat /\ o.feeBps \in Nat
BY DEF Order, TradeAssumption

\* What moves boxes and the curve, and asks no page.
LEMMA MovesKeep ==
  ASSUME TradeInv,
         \/ \E n \in Nat, w \in Wallets :
              BuyCurveBoxes(n) /\ wallet' = [wallet EXCEPT ![w] = wallet[w] + n]
         \/ \E n \in Nat, w \in Wallets :
              wallet[w] >= n /\ SellCurveBoxes(n) /\ wallet' = [wallet EXCEPT ![w] = wallet[w] - n]
         \/ \E n \in Nat, startPrice \in Nat, priceStep \in Nat, feeBps \in Nat :
              /\ wallet[Creator] >= n /\ OpenBoxCurve(n, startPrice, priceStep, feeBps)
              /\ wallet' = [wallet EXCEPT ![Creator] = wallet[Creator] - n]
         \/ CloseBoxCurve /\ wallet' = [wallet EXCEPT ![Creator] = wallet[Creator] + held]
  PROVE  IInv' /\ wallet' \in [Wallets -> Nat]
<1>1. /\ IInv /\ Creator \in Wallets /\ wallet \in [Wallets -> Nat] /\ held \in Nat
  BY DEF TradeInv, TradeTypeOK, TradeAssumption, TypeOK
<1>2. IInv'
  BY <1>1, BuyKeeps, SellKeeps, OpenKeeps, CloseKeeps
<1>3. wallet' \in [Wallets -> Nat]
  BY <1>1
<1> QED
  BY <1>2, <1>3

LEMMA LandsKeeps ==
  ASSUME TradeInv, NEW w \in Pages, TradeLands(w)
  PROVE  TradeInv'
<1>1. /\ TradeAssumption /\ order \in [Pages -> Order \cup {None}] /\ w \in Wallets
      /\ page \in [Pages -> Page]
  BY DEF TradeInv, TradeTypeOK, TradeAssumption
<1>2. /\ order[w] \in Order /\ order[w].kind \in {"buy", "sell"}
      /\ order' = [order EXCEPT ![w] = None]
      /\ page' = [page EXCEPT ![w] = [page[w] EXCEPT !.count = 1]]
      /\ order[w].kind = "sell" => wallet[w] >= order[w].count
      /\ IF order[w].kind = "buy"
         THEN BuyCurveBoxes(order[w].count)
                /\ wallet' = [wallet EXCEPT ![order[w].to] = wallet[order[w].to] + order[w].count]
         ELSE SellCurveBoxes(order[w].count)
                /\ wallet' = [wallet EXCEPT ![w] = wallet[w] - order[w].count]
  BY <1>1 DEF TradeLands, Trades, Moved, Accepts
<1>3. order[w].count \in Nat /\ order[w].to \in Wallets
  BY <1>1, <1>2, OrderParts
<1>4. IInv' /\ wallet' \in [Wallets -> Nat]
  BY <1>1, <1>2, <1>3, MovesKeep
<1>5. page' \in [Pages -> Page]
  <2>1. [page[w] EXCEPT !.count = 1] \in Page
    BY <1>1 DEF Page, TradeAssumption
  <2> QED
    BY <1>1, <1>2, <2>1
<1>6. order' \in [Pages -> Order \cup {None}] /\ PlanOpens' /\ Signed'
  BY <1>2, OrderDropped
<1> QED
  BY <1>1, <1>4, <1>5, <1>6 DEF TradeInv, TradeTypeOK, IInv

LEMMA CreatorKeeps ==
  ASSUME TradeInv, CreatorLands
  PROVE  TradeInv'
<1>1. /\ TradeAssumption /\ order \in [Pages -> Order \cup {None}]
      /\ page' = page /\ page \in [Pages -> Page] /\ order' = [order EXCEPT ![Creator] = None]
      /\ Creator \in Pages
  BY DEF TradeInv, TradeTypeOK, CreatorLands, CreatorAsks
<1>2. IInv' /\ wallet' \in [Wallets -> Nat]
  <2>1. CASE /\ CreatorAsks("open") /\ OpensAs(order[Creator])
             /\ wallet' = [wallet EXCEPT ![Creator] = wallet[Creator] - order[Creator].inventory]
    <3>1. order[Creator] \in Order /\ order[Creator].kind = "open"
      BY <1>1, <2>1 DEF CreatorAsks
    <3>2. /\ order[Creator].inventory \in Nat /\ order[Creator].startPrice \in Nat
          /\ order[Creator].priceStep \in Nat /\ order[Creator].feeBps \in Nat
      BY <1>1, <3>1, OrderParts
    <3> QED
      BY <2>1, <3>2, MovesKeep DEF OpensAs
  <2>2. CASE CloseBoxCurve /\ wallet' = [wallet EXCEPT ![Creator] = wallet[Creator] + held]
    BY <2>2, MovesKeep
  <2> QED
    BY <2>1, <2>2 DEF CreatorLands
<1>3. order' \in [Pages -> Order \cup {None}] /\ PlanOpens' /\ Signed'
  BY <1>1, OrderDropped
<1> QED
  BY <1>1, <1>2, <1>3 DEF TradeInv, TradeTypeOK, IInv

LEMMA TradeNextInv == TradeInv /\ [TradeNext]_tradeVars => TradeInv'
<1> SUFFICES ASSUME TradeInv, [TradeNext]_tradeVars PROVE TradeInv'
  OBVIOUS
<1>1. TradeAssumption /\ TradeAssumption' /\ IInv /\ TradeTypeOK /\ CurveAssumption
  BY CurveAssumption DEF TradeInv, TradeAssumption
<1>2. ASSUME UNCHANGED <<page, order>>, IInv', wallet' \in [Wallets -> Nat]
      PROVE  TradeInv'
  BY <1>1, <1>2 DEF TradeInv, TradeTypeOK, PlanOpens, Signed, CreatorAsks, IInv
<1>3. ASSUME UNCHANGED <<now, live, curve, lamports, held, boxes>> PROVE IInv'
  BY <1>1, <1>3 DEF IInv, TypeOK, ReserveExact, Solvent
<1>4. ASSUME UNCHANGED <<now, live, curve, lamports, held, boxes, wallet, page>>,
             order' \in [Pages -> Order \cup {None}], PlanOpens', Signed'
      PROVE  TradeInv'
  BY <1>1, <1>3, <1>4 DEF TradeInv, TradeTypeOK, IInv
<1>5. ASSUME UNCHANGED <<now, live, curve, lamports, held, boxes, wallet, order>>,
             page' \in [Pages -> Page]
      PROVE  TradeInv'
  BY <1>1, <1>3, <1>5 DEF TradeInv, TradeTypeOK, IInv, PlanOpens, Signed, CreatorAsks
<1>6. ASSUME NEW w \in Pages,
             \/ Look(w)
             \/ \E holding \in {wallet[w], Unknown} : ReadHolding(w, holding)
             \/ \E side \in {"buy", "sell"} : PickSide(w, side)
             \/ \E count \in 1 .. MaxTrade : PickCount(w, count)
      PROVE  TradeInv'
  BY <1>5, <1>6, PageKeeps
<1>7. ASSUME NEW w \in Pages, NEW to \in Wallets, PressTrade(w, to) PROVE TradeInv'
  <2>1. UNCHANGED <<now, live, curve, lamports, held, boxes, wallet, page>>
    BY <1>7 DEF PressTrade, chain
  <2> QED
    BY <1>4, <1>7, <2>1, TradeSigned
<1>8. ASSUME NEW w \in Pages, TradeFails(w) PROVE TradeInv'
  BY <1>4, <1>8, OrderDropped DEF TradeFails, chain
<1>9. ASSUME NEW inventory \in Inventories, NEW startPrice \in StartPrices,
             NEW priceStep \in PriceSteps, NEW feeBps \in Fees,
             OpenElsewhere(inventory, startPrice, priceStep, feeBps)
      PROVE  TradeInv'
  <2>1. inventory \in Nat /\ startPrice \in Nat /\ priceStep \in Nat /\ feeBps \in Nat
    BY <1>1 DEF CurveAssumption
  <2>2. IInv' /\ wallet' \in [Wallets -> Nat]
    BY <1>9, <2>1, MovesKeep DEF OpenElsewhere
  <2> QED
    BY <1>2, <1>9, <2>2 DEF OpenElsewhere
<1>10. CASE CloseElsewhere
  BY <1>2, <1>10, MovesKeep DEF CloseElsewhere
<1>11. ASSUME NEW inventory \in Inventories, NEW startPrice \in StartPrices,
              NEW endPrice \in EndPrices, NEW feeBps \in Fees,
              PressOpen(inventory, startPrice, endPrice, feeBps)
       PROVE  TradeInv'
  <2>1. inventory \in Nat /\ startPrice \in Nat /\ endPrice \in Nat /\ feeBps \in Nat
    BY <1>1 DEF CurveAssumption, TradeAssumption
  <2>2. UNCHANGED <<now, live, curve, lamports, held, boxes, wallet, page>>
    BY <1>11 DEF PressOpen, chain
  <2>3. order' \in [Pages -> Order \cup {None}] /\ PlanOpens' /\ Signed'
    BY <1>11, <2>1, OpenSigned
  <2> QED
    BY <1>4, <2>2, <2>3
<1>12. ASSUME NEW w \in Wallets, NEW to \in Wallets, Transfer(w, to) PROVE TradeInv'
  <2>1. wallet' \in [Wallets -> Nat]
    <3>1. wallet \in [Wallets -> Nat] /\ wallet[w] > 0
      BY <1>1, <1>12 DEF TradeTypeOK, Transfer
    <3>2. wallet' = [[wallet EXCEPT ![w] = wallet[w] - 1] EXCEPT ![to] = wallet[to] + 1]
      BY <1>12, <3>1 DEF Transfer
    <3> QED
      BY <3>1, <3>2
  <2>2. IInv'
    BY <1>3, <1>12 DEF Transfer, chain
  <2> QED
    BY <1>2, <1>12, <2>1, <2>2 DEF Transfer
<1>13. ASSUME NEW w \in Wallets, NEW n \in 1 .. Supply, TradeElsewhere(w, n) PROVE TradeInv'
  <2>1. n \in Nat
    OBVIOUS
  <2>2. IInv' /\ wallet' \in [Wallets -> Nat]
    BY <1>13, <2>1, MovesKeep DEF TradeElsewhere
  <2> QED
    BY <1>2, <1>13, <2>2 DEF TradeElsewhere
<1>14. CASE PressClose
  BY <1>4, <1>14, CloseSigned DEF PressClose, chain
<1>15. CASE CreatorFails
  <2>1. Creator \in Pages /\ order' = [order EXCEPT ![Creator] = None]
    BY <1>15 DEF CreatorFails, CreatorAsks
  <2> QED
    BY <1>4, <1>15, <2>1, OrderDropped DEF CreatorFails, chain
<1>16. CASE Outside
  <2>1. IInv'
    BY <1>1, <1>16, EnvironmentKeeps DEF Outside
  <2>2. wallet' \in [Wallets -> Nat]
    BY <1>1, <1>16 DEF Outside, TradeTypeOK
  <2> QED
    BY <1>2, <1>16, <2>1, <2>2 DEF Outside
<1>17. CASE UNCHANGED tradeVars
  BY <1>1, <1>2, <1>3, <1>17 DEF tradeVars, TradeTypeOK
<1> QED
  BY <1>6, <1>7, <1>8, <1>9, <1>10, <1>11, <1>12, <1>13, <1>14, <1>15, <1>16, <1>17,
     LandsKeeps, CreatorKeeps DEF TradeNext

\* On an up to date page what the stepper allows is quoted, and accepted.
LEMMA OffersAreAccepted ==
  ASSUME TradeInv
  PROVE  OffersMatch
<1> SUFFICES ASSUME NEW w \in Pages, page[w].view = curve, page[w].holding = wallet[w],
                    page[w].count <= Most(page[w])
             PROVE  Offers(page[w], now) <=>
                      IF page[w].side = "buy" THEN Trading /\ BuyAccepted(page[w].count)
                      ELSE Trading /\ SellAccepted(page[w].count)
                             /\ wallet[w] >= page[w].count
  BY DEF OffersMatch
<1> DEFINE p == page[w]
           n == page[w].count
<1>1. /\ TypeOK /\ ReserveExact /\ p \in Page /\ wallet[w] \in Nat
      /\ n \in Nat /\ n >= 1 /\ MaxTrade \in Nat
      /\ ClosesAt \in Nat /\ now \in Nat
  BY CurveAssumption DEF TradeInv, TradeTypeOK, TradeAssumption, IInv, Page, TypeOK
<1>2. curve.open /\ Phase(curve, now) = "trading" <=> Trading
  BY <1>1 DEF Phase, Trading
<1>3. ASSUME Trading
      PROVE  /\ Quotes(curve, p.side, n) /\ Most(p) > 0
             /\ IF p.side = "buy" THEN BuyAccepted(n)
                ELSE SellAccepted(n) /\ wallet[w] >= n
  <2>1. curve.sold \in Nat /\ curve.inventory \in Nat /\ curve.sold < curve.inventory
    BY <1>1, <1>3, TradingFacts
  <2>2. CASE p.side = "buy"
    <3>1. n \in 1 .. curve.inventory - curve.sold
      BY <1>1, <2>1, <2>2 DEF Most, Min2, CurveLeft
    <3>2. BuyAccepted(n)
      BY <1>1, <1>3, <3>1, PurchasesAccepted
    <3>3. QuotesBuy(curve, n)
      BY <3>2 DEF BuyAccepted, QuotesBuy, BuyTotal
    <3>4. Most(p) > 0
      BY <1>1, <2>1, <2>2 DEF Most, Min2, CurveLeft
    <3> QED
      BY <2>2, <3>2, <3>3, <3>4 DEF Quotes
  <2>3. CASE p.side # "buy"
    <3>1. n \in 1 .. curve.sold /\ wallet[w] >= n /\ Most(p) > 0
      BY <1>1, <2>1, <2>3 DEF Most, Min2, Max2
    <3>2. SellAccepted(n)
      BY <1>1, <1>3, <3>1, SalesAccepted
    <3>3. QuotesSell(curve, n)
      BY <3>2 DEF SellAccepted, QuotesSell
    <3> QED
      BY <2>3, <3>1, <3>2, <3>3 DEF Quotes
  <2> QED
    BY <2>2, <2>3
<1> QED
  BY <1>2, <1>3 DEF Offers

LEMMA ClosingIsOffered ==
  ASSUME TradeInv
  PROVE  CloseMatches
<1>1. ClosesAt \in Nat /\ now \in Nat
  BY CurveAssumption DEF TradeInv, TradeTypeOK, TypeOK
<1> QED
  BY <1>1 DEF CloseMatches, CanClose, Phase, Closeable

LEMMA AffordableAgrees ==
  ASSUME TradeInv
  PROVE  AffordableIsMost
<1> SUFFICES ASSUME Trading, NEW budget \in Budgets
             PROVE  LET n == AffordableBoxes(curve, budget)
                    IN /\ n > 0 => BuyTotal(curve, n) <= budget
                       /\ n < CurveLeft(curve) => BuyTotal(curve, n + 1) > budget
  BY DEF AffordableIsMost
<1>1. TypeOK /\ ReserveExact /\ budget \in Nat
  BY DEF TradeInv, TradeTypeOK, TradeAssumption, IInv
<1>2. curve \in CurveType /\ curve.feeBps \in 0 .. BpsDenominator /\ curve.sold <= curve.inventory
  BY <1>1, TradingFacts
<1> QED
  BY <1>1, <1>2, MostAffordable

\* The pages of traders and of the creator and the program agree, for all
\* wallets, terms, supplies and budgets: an up to date page offers exactly what
\* buy_curve_boxes, sell_curve_boxes and close_box_curve accept, terms the form
\* signs are terms open_box_curve accepts, and affordableCurveBoxes is the most
\* that the budget pays for.
THEOREM PagesAlwaysAgree == TradeAssumption /\ TradeSpec => []PagesAgree
<1>1. TradeAssumption /\ TradeInit => TradeInv
  BY TradeInitInv
<1>2. TradeInv /\ [TradeNext]_tradeVars => TradeInv'
  BY TradeNextInv
<1>3. TradeInv => PagesAgree
  BY OffersAreAccepted, ClosingIsOffered, AffordableAgrees DEF PagesAgree, TradeInv
<1> QED
  BY <1>1, <1>2, <1>3, PTL DEF TradeSpec

\* Only what lands moves the boxes of an order it ends.
LEMMA LandedIsLands ==
  ASSUME TradeInv, [TradeNext]_tradeVars, NEW w \in Pages, Landed(w)
  PROVE  TradeLands(w)
<1>1. order \in [Pages -> Order \cup {None}] /\ order[w] # None
      /\ order[w].kind \in {"buy", "sell"} /\ order'[w] = None /\ curve'.sold # curve.sold
  BY DEF TradeInv, TradeTypeOK, Landed, Trades
<1>2. order'[w] # order[w] /\ curve' # curve
  BY <1>1
<1>3. ASSUME NEW u \in Pages, TradeLands(u) PROVE u = w
  <2>1. order' = [order EXCEPT ![u] = None]
    BY <1>3 DEF TradeLands
  <2> QED
    BY <1>1, <1>2, <2>1
<1>4. ~ CreatorLands
  <2> SUFFICES ASSUME CreatorLands PROVE FALSE
    OBVIOUS
  <2>1. /\ order' = [order EXCEPT ![Creator] = None] /\ Creator \in Pages
        /\ order[Creator].kind \in {"open", "close"}
    BY DEF CreatorLands, CreatorAsks
  <2> QED
    BY <1>1, <1>2, <2>1
<1> QED
  BY <1>2, <1>3, <1>4 DEF TradeNext, tradeVars, chain, Look, ReadHolding, PickSide, PickCount,
     PressTrade, TradeFails, OpenElsewhere, CloseElsewhere, PressOpen, Transfer, TradeElsewhere,
     PressClose, CreatorFails, Outside

-----------------------------------------------------------------------------
(* What a trade that lands costs.                                          *)

LEMMA FeeIsInt ==
  ASSUME NEW amount \in Int, NEW bps \in Nat
  PROVE  CurveFee(amount, bps) \in Int
<1> DEFINE x == amount * bps
<1>1. x \in Int
  OBVIOUS
<1>2. CurveFee(amount, bps) = (x + 10000 - 1) \div 10000
  BY DEF CurveFee, BpsDenominator
<1> HIDE DEF x
<1> QED
  BY <1>1, <1>2

LEMMA TotalIsInt ==
  ASSUME NEW c \in CurveType, NEW kind, NEW n \in Nat
  PROVE  /\ BuyPrice(c, n) \in Int /\ SellPrice(c, n) \in Int
         /\ Total(c, kind, n) \in Int
<1>1. ASSUME NEW from \in Int PROVE CurveCost(c.startPrice, c.priceStep, from, n) \in Int
  <2>1. c.startPrice \in Nat /\ c.priceStep \in Nat
    BY DEF CurveType
  <2> DEFINE twice == n * (2 * from + n - 1)
             half == twice \div 2
  <2>2. twice \in Int
    OBVIOUS
  <2>3. half \in Int
    <3> HIDE DEF twice
    <3> QED
      BY <2>2
  <2>4. CurveCost(c.startPrice, c.priceStep, from, n) = n * c.startPrice + c.priceStep * half
    BY DEF CurveCost
  <2> HIDE DEF half
  <2> QED
    BY <2>1, <2>3, <2>4
<1>2. c.sold \in Int /\ c.sold - n \in Int /\ c.feeBps \in Nat
  BY DEF CurveType
<1>3. BuyPrice(c, n) \in Int /\ SellPrice(c, n) \in Int
  BY <1>1, <1>2 DEF BuyPrice, SellPrice
<1>4. /\ CurveFee(BuyPrice(c, n), c.feeBps) \in Int
      /\ CurveFee(SellPrice(c, n), c.feeBps) \in Int
  BY <1>2, <1>3, FeeIsInt
<1> QED
  BY <1>3, <1>4 DEF Total, BuyTotal, SellTotal

\* What is signed differs from the shown price by one allowance at most.
LEMMA SlippageBounds ==
  ASSUME TradeAssumption, NEW amount \in Int
  PROVE  LET allowance == (amount * SlippageBps) \div BpsDenominator + 1
         IN /\ allowance \in Int
            /\ WithSlippage(amount, "buy") \in Int /\ WithSlippage(amount, "sell") \in Int
            /\ WithSlippage(amount, "buy") <= amount + allowance
            /\ WithSlippage(amount, "sell") >= amount - allowance
<1> DEFINE x == amount * SlippageBps
<1>1. x \in Int
  BY DEF TradeAssumption, BpsDenominator
<1>2. /\ WithSlippage(amount, "buy") = amount + (x + 10000 - 1) \div 10000
      /\ WithSlippage(amount, "sell") = amount - x \div 10000
      /\ (amount * SlippageBps) \div BpsDenominator + 1 = x \div 10000 + 1
  BY DEF WithSlippage, BpsDenominator
<1> HIDE DEF x
<1> QED
  BY <1>1, <1>2

\* The trade that lands, and what its curve was.
LEMMA LandingFacts ==
  ASSUME TradeInv, NEW w \in Pages, TradeLands(w)
  PROVE  /\ order[w].kind \in {"buy", "sell"} /\ order[w].count \in Nat
         /\ order[w].view \in CurveType /\ order[w].limit \in Int
         /\ order[w].limit = WithSlippage(Shown(w), order[w].kind)
         /\ Meets(order[w], Moves(w))
         /\ IF order[w].kind = "buy" THEN BuyCurveBoxes(order[w].count)
            ELSE SellCurveBoxes(order[w].count)
         /\ curve \in CurveType /\ now \in Nat \ {0} /\ curve.reserve \in Nat /\ curve.sold \in Nat
<1>1. /\ TradeAssumption /\ order \in [Pages -> Order \cup {None}]
      /\ order[w] # None /\ order[w].kind \in {"buy", "sell"}
  BY DEF TradeInv, TradeTypeOK, TradeLands, Trades
<1>2. order[w] \in Order
  BY <1>1
<1>3. /\ order[w].count \in Nat /\ order[w].view \in CurveType /\ order[w].limit \in Int
  BY <1>1, <1>2, OrderParts
<1>4. order[w].limit = WithSlippage(Shown(w), order[w].kind)
  BY <1>1 DEF TradeInv, Signed, Shown
<1>5. /\ Meets(order[w], Moves(w))
      /\ IF order[w].kind = "buy" THEN BuyCurveBoxes(order[w].count)
         ELSE SellCurveBoxes(order[w].count)
  BY DEF TradeLands, Accepts, Moved, Moves
<1>6. curve \in CurveType /\ now \in Nat \ {0} /\ curve.reserve \in Nat /\ curve.sold \in Nat
  BY CurveAssumption DEF TradeInv, TradeTypeOK, TypeOK, CurveType
<1> QED
  BY <1>1, <1>3, <1>4, <1>5, <1>6

\* The limit that was met is the shown price and its allowance.
LEMMA LandsWithin ==
  ASSUME TradeInv, NEW w \in Pages, TradeLands(w)
  PROVE  WithinAllowance(w)
<1> DEFINE n == order[w].count
           allowance == (Shown(w) * SlippageBps) \div BpsDenominator + 1
<1>1. /\ n \in Nat /\ curve.sold \in Nat /\ curve \in CurveType
      /\ order[w].kind \in {"buy", "sell"} /\ TradeAssumption
  BY LandingFacts DEF TradeInv
<1>2. Shown(w) \in Int /\ Moves(w) \in Int /\ order[w].limit \in Int
  BY LandingFacts, TotalIsInt DEF Shown, Moves
<1>3. CASE order[w].kind = "buy"
  <2>1. curve'.sold - curve.sold = n
    <3> DEFINE price == BuyPrice(curve, n)
               soldOut == curve.sold + n = curve.inventory
               kept == IF soldOut THEN 0 ELSE curve.reserve + price
    <3>1. curve' = [curve EXCEPT !.sold = curve.sold + n, !.reserve = kept,
                      !.soldOutAt = IF soldOut THEN now ELSE curve.soldOutAt]
      BY <1>3, LandingFacts DEF BuyCurveBoxes
    <3> HIDE DEF soldOut, kept
    <3>2. curve'.sold = curve.sold + n
      BY <1>1, <3>1 DEF CurveType
    <3> QED
      BY <1>1, <3>2
  <2>2. Moves(w) <= WithSlippage(Shown(w), "buy")
    BY <1>3, LandingFacts DEF Meets
  <2>3. Moves(w) <= Shown(w) + allowance
    <3>1. /\ WithSlippage(Shown(w), "buy") <= Shown(w) + allowance
          /\ WithSlippage(Shown(w), "buy") \in Int /\ allowance \in Int
      BY <1>1, <1>2, SlippageBounds
    <3> HIDE DEF allowance
    <3> QED
      BY <1>2, <2>2, <3>1
  <2> QED
    BY <1>3, <2>1, <2>3 DEF WithinAllowance
<1>4. CASE order[w].kind = "sell"
  <2>1. curve'.sold - curve.sold = -n
    <3> DEFINE price == SellPrice(curve, n)
    <3>1. curve' = [curve EXCEPT !.sold = curve.sold - n, !.reserve = curve.reserve - price]
      BY <1>4, LandingFacts DEF SellCurveBoxes
    <3> HIDE DEF price
    <3>2. curve'.sold = curve.sold - n
      BY <1>1, <3>1 DEF CurveType
    <3> QED
      BY <1>1, <3>2
  <2>2. Moves(w) >= WithSlippage(Shown(w), "sell")
    BY <1>4, LandingFacts DEF Meets
  <2>3. Moves(w) >= Shown(w) - allowance
    <3>1. /\ WithSlippage(Shown(w), "sell") >= Shown(w) - allowance
          /\ WithSlippage(Shown(w), "sell") \in Int /\ allowance \in Int
      BY <1>1, <1>2, SlippageBounds
    <3> HIDE DEF allowance
    <3> QED
      BY <1>2, <2>2, <3>1
  <2> QED
    BY <1>4, <2>1, <2>3 DEF WithinAllowance
<1> QED
  BY <1>1, <1>3, <1>4

\* Where the curve is the one the page saw, both price the same positions.
LEMMA LandsAsQuoted ==
  ASSUME TradeInv, NEW w \in Pages, TradeLands(w)
  PROVE  AsQuoted(w)
<1> SUFFICES ASSUME order[w].view = curve, curve'.soldOutAt = 0
             PROVE  LET paid == curve'.reserve - curve.reserve
                    IN IF order[w].kind = "buy"
                       THEN Shown(w) = paid + CurveFee(paid, curve.feeBps)
                       ELSE Shown(w) = -paid - CurveFee(-paid, curve.feeBps)
  BY DEF AsQuoted
<1> DEFINE n == order[w].count
<1>1. /\ n \in Nat /\ curve.reserve \in Nat /\ curve \in CurveType /\ now \in Nat \ {0}
      /\ order[w].kind \in {"buy", "sell"}
  BY LandingFacts
<1>2. BuyPrice(curve, n) \in Int /\ SellPrice(curve, n) \in Int
  BY <1>1, TotalIsInt
<1>3. CASE order[w].kind = "buy"
  <2> DEFINE price == BuyPrice(curve, n)
             soldOut == curve.sold + n = curve.inventory
             kept == IF soldOut THEN 0 ELSE curve.reserve + price
  <2>1. curve' = [curve EXCEPT !.sold = curve.sold + n, !.reserve = kept,
                    !.soldOutAt = IF soldOut THEN now ELSE curve.soldOutAt]
    BY <1>3, LandingFacts DEF BuyCurveBoxes
  <2>2. curve'.soldOutAt = (IF soldOut THEN now ELSE curve.soldOutAt) /\ curve'.reserve = kept
    <3> HIDE DEF soldOut, kept
    <3> QED
      BY <1>1, <2>1 DEF CurveType
  <2>3. ~ soldOut
    BY <1>1, <2>2
  <2>4. curve'.reserve = curve.reserve + price
    BY <2>2, <2>3
  <2>5. Shown(w) = price + CurveFee(price, curve.feeBps)
    BY <1>3 DEF Shown, Total, BuyTotal
  <2> HIDE DEF price
  <2>6. curve'.reserve - curve.reserve = price
    BY <1>1, <1>2, <2>4 DEF price
  <2> QED
    BY <1>3, <2>5, <2>6
<1>4. CASE order[w].kind = "sell"
  <2> DEFINE price == SellPrice(curve, n)
  <2>1. curve' = [curve EXCEPT !.sold = curve.sold - n, !.reserve = curve.reserve - price]
    BY <1>4, LandingFacts DEF SellCurveBoxes
  <2>2. curve'.reserve = curve.reserve - price
    <3> HIDE DEF price
    <3> QED
      BY <1>1, <2>1 DEF CurveType
  <2>3. Shown(w) = price - CurveFee(price, curve.feeBps)
    BY <1>4 DEF Shown, Total, SellTotal
  <2>4. price \in Int
    BY <1>2
  <2> HIDE DEF price
  <2>5. -(curve'.reserve - curve.reserve) = price
    BY <1>1, <2>2, <2>4
  <2> QED
    BY <1>4, <2>3, <2>5
<1> QED
  BY <1>1, <1>3, <1>4

\* Whatever moved the curve between the page and the chain, a trade that lands
\* is within the allowance that trade() signed with withSlippage, and one that
\* finds the curve as shown moves the balance and the fee that were quoted.
THEOREM TradesAlwaysSound == TradeAssumption /\ TradeSpec => TradesSound
<1>1. TradeAssumption /\ TradeInit => TradeInv
  BY TradeInitInv
<1>2. TradeInv /\ [TradeNext]_tradeVars => TradeInv'
  BY TradeNextInv
<1>3. TradeInv /\ [TradeNext]_tradeVars => [\A w \in Pages : TradeSound(w)]_tradeVars
  <2> SUFFICES ASSUME TradeInv, [TradeNext]_tradeVars, NEW w \in Pages
               PROVE  TradeSound(w)
    OBVIOUS
  <2>1. CASE Landed(w)
    <3>1. TradeLands(w)
      BY <2>1, LandedIsLands
    <3> QED
      BY <3>1, LandsWithin, LandsAsQuoted DEF TradeSound
  <2>2. CASE ~ Landed(w)
    BY <2>2 DEF TradeSound, WithinAllowance, AsQuoted
  <2> QED
    BY <2>1, <2>2
<1> QED
  BY <1>1, <1>2, <1>3, PTL DEF TradeSpec, TradesSound

-----------------------------------------------------------------------------
(* Handing out boxes: sums over the lines of a list.                        *)

Entry == [to : Receivers, count : Nat \ {0}]

\* No wallet comes twice.
Distinct(g) == \A i, j \in DOMAIN g : g[i].to = g[j].to => i = j

Counts(g) == [i \in DOMAIN g |-> g[i].count]
Parts(g, w) == [i \in DOMAIN g |-> IF g[i].to = w THEN g[i].count ELSE 0]
Asks(ls, w) ==
  [i \in DOMAIN ls |-> IF ls[i].to = w /\ ReadsLine(ls[i]) THEN ls[i].count ELSE 0]

\* The sum of the first k values.
Up(f, k) == SumFunctionOnSet(f, 1 .. k)

LEMMA UpStep ==
  ASSUME NEW f, NEW n \in Nat, \A i \in 1 .. n + 1 : f[i] \in Int
  PROVE  /\ Up(f, 0) = 0
         /\ Up(f, n) \in Int
         /\ Up(f, n + 1) = Up(f, n) + f[n + 1]
  <1>1. 1 .. 0 = {} /\ (1 .. n + 1) \ {n + 1} = 1 .. n /\ n + 1 \in 1 .. n + 1
    OBVIOUS
  <1>2. IsFiniteSet(1 .. n + 1) /\ IsFiniteSet(1 .. n)
    BY FS_Interval
  <1>3. SumFunctionOnSet(f, 1 .. n + 1) =
          f[n + 1] + SumFunctionOnSet(f, (1 .. n + 1) \ {n + 1})
    BY <1>1, <1>2, SumWithout
  <1>4. SumFunctionOnSet(f, 1 .. n) \in Int
    <2>1. \A i \in 1 .. n : f[i] \in Int
      OBVIOUS
    <2>2. QED
      BY <1>2, <2>1, SumIsInt
  <1>5. SumFunctionOnSet(f, {}) = 0
    BY SumOfNone
  <1>6. Up(f, 0) = 0
    <2>1. Up(f, 0) = SumFunctionOnSet(f, 1 .. 0)
      BY DEF Up
    <2>2. QED
      BY <1>1, <1>5, <2>1
  <1>7. Up(f, n + 1) = f[n + 1] + Up(f, n)
    <2>1. Up(f, n + 1) = SumFunctionOnSet(f, 1 .. n + 1) /\ Up(f, n) = SumFunctionOnSet(f, 1 .. n)
      BY DEF Up
    <2>2. QED
      BY <1>1, <1>3, <2>1
  <1>8. Up(f, n) \in Int /\ f[n + 1] \in Int
    BY <1>1, <1>4 DEF Up
  <1> HIDE DEF Up
  <1>9. QED
    BY <1>6, <1>7, <1>8

LEMMA UpIsNat ==
  ASSUME NEW f, NEW n \in Nat, \A i \in 1 .. n : f[i] \in Nat
  PROVE  Up(f, n) \in Nat
  <1>1. IsFiniteSet(1 .. n)
    BY FS_Interval
  <1>2. QED
    BY <1>1, SumIsNat DEF Up

LEMMA UpIsInt ==
  ASSUME NEW f, NEW n \in Nat, \A i \in 1 .. n : f[i] \in Int
  PROVE  Up(f, n) \in Int
  <1>1. IsFiniteSet(1 .. n)
    BY FS_Interval
  <1>2. QED
    BY <1>1, SumIsInt DEF Up

LEMMA UpAgrees ==
  ASSUME NEW f, NEW h, NEW n \in Nat, \A i \in 1 .. n : f[i] = h[i]
  PROVE  Up(f, n) = Up(h, n)
  <1>1. IsFiniteSet(1 .. n)
    BY FS_Interval
  <1>2. QED
    BY <1>1, SumAgrees DEF Up

\* A sum that starts after the first c values.
LEMMA UpShift ==
  ASSUME NEW f, NEW h, NEW c \in Nat, NEW n \in Nat,
         \A i \in 1 .. c + n : f[i] \in Int, \A i \in 1 .. n : h[i] = f[c + i]
  PROVE  Up(h, n) = Up(f, c + n) - Up(f, c)
  <1> DEFINE Bad == {k \in 0 .. n : ~ Up(h, k) = Up(f, c + k) - Up(f, c)}
  <1> SUFFICES ASSUME n \in Bad PROVE FALSE
    OBVIOUS
  <1>1. PICK k \in Bad : \A j \in Bad : k <= j
    <2>1. Bad \in SUBSET (0 .. n) /\ Bad # {}
      OBVIOUS
    <2> HIDE DEF Bad
    <2>2. QED
      BY <2>1, LeastNumber
  <1>2. k \in 0 .. n
    BY <1>1
  <1>3. CASE k = 0
    <2>1. Up(h, 0) = 0
      BY SumOfNone DEF Up
    <2>2. Up(f, c) \in Int
      BY UpIsInt
    <2>3. QED
      BY <1>1, <1>3, <2>1, <2>2
  <1>4. CASE k # 0
    <2>1. k - 1 \in Nat /\ k - 1 \in 0 .. n /\ c + (k - 1) \in Nat /\ k - 1 + 1 = k
          /\ c + (k - 1) + 1 = c + k
      BY <1>2, <1>4
    <2>2. k - 1 \notin Bad
      BY <1>1, <1>4, <2>1
    <2>3. Up(h, k - 1) = Up(f, c + (k - 1)) - Up(f, c)
      BY <2>1, <2>2
    <2>4. \A i \in 1 .. k - 1 + 1 : h[i] \in Int /\ h[i] = f[c + i]
      BY <1>2, <2>1
    <2>5. Up(h, k - 1) \in Int /\ Up(h, k - 1 + 1) = Up(h, k - 1) + h[k - 1 + 1]
      BY <2>1, <2>4, UpStep
    <2>6. \A i \in 1 .. c + (k - 1) + 1 : f[i] \in Int
      BY <1>2, <2>1
    <2>7. /\ Up(f, c + (k - 1)) \in Int
          /\ Up(f, c + (k - 1) + 1) = Up(f, c + (k - 1)) + f[c + (k - 1) + 1]
      BY <2>1, <2>6, UpStep
    <2>8. Up(f, c) \in Int
      BY UpIsInt
    <2>9. h[k] = f[c + k] /\ f[c + k] \in Int
      BY <2>4, <2>1, <2>6, <1>2, <1>4
    <2>10. ~ Up(h, k) = Up(f, c + k) - Up(f, c)
      BY <1>1
    <2>11. QED
      BY <2>1, <2>3, <2>5, <2>7, <2>8, <2>9, <2>10
  <1>5. QED
    BY <1>3, <1>4

LEMMA SumsAreUp ==
  ASSUME NEW S, NEW g \in Seq(S)
  PROVE  /\ TotalOf(g) = Up(Counts(g), Len(g))
         /\ \A w : Share(g, w) = Up(Parts(g, w), Len(g))
         /\ \A w : SumFunction(Asks(g, w)) = Up(Asks(g, w), Len(g))
  <1>1. DOMAIN g = 1 .. Len(g)
    BY LenProperties
  <1>2. DOMAIN Counts(g) = DOMAIN g /\ \A w : DOMAIN Parts(g, w) = DOMAIN g
        /\ \A v : DOMAIN Asks(g, v) = DOMAIN g
    BY DEF Counts, Parts, Asks
  <1>3. TotalOf(g) = SumFunction(Counts(g)) /\ \A w : Share(g, w) = SumFunction(Parts(g, w))
    BY DEF TotalOf, Share, Counts, Parts
  <1>4. QED
    BY <1>1, <1>2, <1>3 DEF SumFunction, Up

LEMMA EntriesCount ==
  ASSUME NEW g \in Seq(Entry), NEW w
  PROVE  /\ Len(g) \in Nat /\ DOMAIN g = 1 .. Len(g)
         /\ \A i \in 1 .. Len(g) :
              /\ g[i] \in Entry
              /\ Counts(g)[i] = g[i].count
              /\ Counts(g)[i] \in Nat
              /\ Parts(g, w)[i] = IF g[i].to = w THEN g[i].count ELSE 0
              /\ Parts(g, w)[i] \in Nat
  <1>1. Len(g) \in Nat /\ DOMAIN g = 1 .. Len(g) /\ \A i \in 1 .. Len(g) : g[i] \in Entry
    BY LenProperties, ElementOfSeq
  <1>2. QED
    BY <1>1 DEF Entry, Counts, Parts

LEMMA SumsAreNat ==
  ASSUME NEW g \in Seq(Entry)
  PROVE  TotalOf(g) \in Nat /\ \A w : Share(g, w) \in Nat
  <1>1. Len(g) \in Nat /\ \A i \in 1 .. Len(g) : Counts(g)[i] \in Nat
    BY EntriesCount
  <1>2. TotalOf(g) \in Nat
    BY <1>1, SumsAreUp, UpIsNat
  <1>3. ASSUME NEW w PROVE Share(g, w) \in Nat
    <2>1. \A i \in 1 .. Len(g) : Parts(g, w)[i] \in Nat
      BY EntriesCount
    <2>2. QED
      BY <1>1, <2>1, SumsAreUp, UpIsNat
  <1>4. QED
    BY <1>2, <1>3

\* The sums over a part of a list.
LEMMA SumsOfPart ==
  ASSUME NEW g \in Seq(Entry), NEW m \in 1 .. Len(g) + 1, NEW n \in m - 1 .. Len(g), NEW w
  PROVE  /\ SubSeq(g, m, n) \in Seq(Entry)
         /\ Len(SubSeq(g, m, n)) = n - m + 1
         /\ \A i \in 1 .. n - m + 1 : SubSeq(g, m, n)[i] = g[m + i - 1]
         /\ Share(SubSeq(g, m, n), w) = Up(Parts(g, w), n) - Up(Parts(g, w), m - 1)
         /\ TotalOf(SubSeq(g, m, n)) = Up(Counts(g), n) - Up(Counts(g), m - 1)
  <1> DEFINE s == SubSeq(g, m, n)
             c == m - 1
             k == n - m + 1
  <1>1. Len(g) \in Nat /\ DOMAIN g = 1 .. Len(g)
    BY LenProperties
  <1>2. c \in Nat /\ k \in Nat /\ c + k = n /\ m \in Int /\ n \in Int
    BY <1>1
  <1>3. \A i \in m .. n : g[i] \in Entry
    BY <1>1, ElementOfSeq
  <1>4. s \in Seq(Entry) /\ Len(s) = k /\ \A i \in 1 .. k : s[i] = g[m + i - 1]
    <2>1. /\ s \in Seq(Entry)
          /\ Len(s) = IF m <= n THEN n - m + 1 ELSE 0
          /\ \A i \in 1 .. n - m + 1 : s[i] = g[m + i - 1]
      <3>1. m \in Int /\ n \in Int
        BY <1>2
      <3>2. QED
        BY <1>3, <3>1, SubSeqProperties
    <2>2. (IF m <= n THEN n - m + 1 ELSE 0) = k
      BY <1>1
    <2>3. QED
      BY <2>1, <2>2
  <1>5. \A i \in 1 .. c + k : Parts(g, w)[i] \in Int /\ Counts(g)[i] \in Int
    <2> SUFFICES ASSUME NEW i \in 1 .. c + k
                 PROVE  Parts(g, w)[i] \in Int /\ Counts(g)[i] \in Int
      OBVIOUS
    <2>1. i \in 1 .. Len(g)
      BY <1>1, <1>2
    <2>2. Parts(g, w)[i] \in Nat /\ Counts(g)[i] \in Nat
      BY <2>1, EntriesCount
    <2>3. QED
      BY <2>2
  <1>6. ASSUME NEW i \in 1 .. k
        PROVE  Parts(s, w)[i] = Parts(g, w)[c + i] /\ Counts(s)[i] = Counts(g)[c + i]
    <2>1. c + i \in 1 .. Len(g) /\ c + i = m + i - 1 /\ i \in 1 .. Len(s)
      <3>1. i \in Int /\ 1 <= i /\ i <= k
        OBVIOUS
      <3>2. c + i \in Int /\ 1 <= c + i /\ c + i <= Len(g) /\ c + i = m + i - 1
        BY <1>1, <3>1
      <3>3. Len(s) = k
        BY <1>4
      <3> HIDE DEF s
      <3>4. QED
        BY <1>1, <3>1, <3>2, <3>3
    <2>2. s[i] = g[c + i]
      BY <1>4, <2>1
    <2>3. /\ Parts(g, w)[c + i] = IF g[c + i].to = w THEN g[c + i].count ELSE 0
          /\ Counts(g)[c + i] = g[c + i].count
      BY <2>1, EntriesCount
    <2>4. /\ Parts(s, w)[i] = IF s[i].to = w THEN s[i].count ELSE 0
          /\ Counts(s)[i] = s[i].count
      <3>1. s \in Seq(Entry)
        BY <1>4
      <3> HIDE DEF s
      <3>2. \A j \in 1 .. Len(s) :
              /\ Parts(s, w)[j] = IF s[j].to = w THEN s[j].count ELSE 0
              /\ Counts(s)[j] = s[j].count
        BY <3>1, EntriesCount
      <3>3. QED
        BY <2>1, <3>2
    <2>5. QED
      BY <2>2, <2>3, <2>4
  <1> HIDE DEF s, c, k
  <1>7. Up(Parts(s, w), k) = Up(Parts(g, w), c + k) - Up(Parts(g, w), c)
    BY <1>2, <1>5, <1>6, UpShift
  <1>8. Up(Counts(s), k) = Up(Counts(g), c + k) - Up(Counts(g), c)
    BY <1>2, <1>5, <1>6, UpShift
  <1>9. Share(s, w) = Up(Parts(s, w), k) /\ TotalOf(s) = Up(Counts(s), k)
    BY <1>4, SumsAreUp
  <1>10. QED
    BY <1>2, <1>4, <1>7, <1>8, <1>9 DEF s, c, k

\* What is sent is what the wallets get.
LEMMA TotalIsReceived ==
  ASSUME NEW g \in Seq(Entry), NEW before \in [Receivers -> Nat]
  PROVE  SumFunction([w \in Receivers |-> before[w] + Share(g, w)]) =
           SumFunction(before) + TotalOf(g)
  <1> DEFINE got(k) == [w \in Receivers |-> before[w] + Up(Parts(g, w), k)]
             Bad == {k \in 0 .. Len(g) : ~ SumFunctionOnSet(got(k), Receivers) =
                       SumFunctionOnSet(before, Receivers) + Up(Counts(g), k)}
  <1>1. Len(g) \in Nat /\ IsFiniteSet(Receivers)
    BY LenProperties, AirdropAssumption
  <1>2. SumFunctionOnSet(before, Receivers) \in Int
    BY <1>1, SumIsInt
  <1>3. \A k \in 0 .. Len(g) : \A w : Up(Parts(g, w), k) \in Nat
    BY <1>1, EntriesCount, UpIsNat
  <1>4. \A k \in 0 .. Len(g) : Up(Counts(g), k) \in Nat
    BY <1>1, EntriesCount, UpIsNat
  <1>5. 0 \notin Bad
    <2>1. Up(Counts(g), 0) = 0 /\ \A w : Up(Parts(g, w), 0) = 0
      BY SumOfNone DEF Up
    <2>2. \A w \in Receivers : got(0)[w] = before[w]
      BY <2>1
    <2> HIDE DEF got
    <2>3. SumFunctionOnSet(got(0), Receivers) = SumFunctionOnSet(before, Receivers)
      BY <1>1, <2>2, SumAgrees
    <2>4. QED
      BY <1>2, <2>1, <2>3
  <1>6. ASSUME NEW k \in 0 .. Len(g), k + 1 \in 0 .. Len(g), k \notin Bad
        PROVE  k + 1 \notin Bad
    <2> DEFINE x == g[k + 1].to
               c == g[k + 1].count
    <2>1. k + 1 \in 1 .. Len(g) /\ g[k + 1] \in Entry /\ x \in Receivers /\ c \in Nat
      <3>1. k + 1 \in 1 .. Len(g)
        BY <1>1, <1>6
      <3>2. g[k + 1] \in Entry
        BY <3>1, EntriesCount
      <3>3. QED
        BY <3>1, <3>2 DEF Entry
    <2>2. \A i \in 1 .. k + 1 : Counts(g)[i] \in Int /\ \A w : Parts(g, w)[i] \in Int
      BY <1>1, <1>6, EntriesCount
    <2>3. Up(Counts(g), k + 1) = Up(Counts(g), k) + Counts(g)[k + 1]
      BY <1>1, <2>2, UpStep
    <2>4. Counts(g)[k + 1] = c
      BY <2>1, EntriesCount
    <2>5. \A w : Up(Parts(g, w), k + 1) = Up(Parts(g, w), k) + Parts(g, w)[k + 1]
      BY <1>1, <2>2, UpStep
    <2>6. \A w : Parts(g, w)[k + 1] = IF x = w THEN c ELSE 0
      BY <2>1, EntriesCount
    <2>7. \A w \in Receivers : got(k)[w] \in Int /\ got(k + 1)[w] \in Int
      BY <1>3, <1>6
    <2>8. \A w \in Receivers \ {x} : got(k)[w] = got(k + 1)[w]
      <3> SUFFICES ASSUME NEW w \in Receivers \ {x}
                   PROVE  Up(Parts(g, w), k) = Up(Parts(g, w), k + 1)
        OBVIOUS
      <3>1. Up(Parts(g, w), k) \in Nat
        BY <1>3
      <3>2. QED
        BY <2>5, <2>6, <3>1
    <2>9. got(k + 1)[x] - got(k)[x] = c
      <3>1. Up(Parts(g, x), k) \in Nat /\ Up(Parts(g, x), k + 1) = Up(Parts(g, x), k) + c
        BY <1>3, <2>5, <2>6
      <3>2. QED
        BY <2>1, <3>1
    <2> HIDE DEF got, x, c
    <2>10. SumFunctionOnSet(got(k + 1), Receivers) =
             SumFunctionOnSet(got(k), Receivers) + (got(k + 1)[x] - got(k)[x])
      BY <1>1, <2>1, <2>7, <2>8, SumChanged
    <2>11. SumFunctionOnSet(got(k), Receivers) =
             SumFunctionOnSet(before, Receivers) + Up(Counts(g), k)
      BY <1>6
    <2>12. QED
      BY <1>2, <1>4, <2>1, <2>3, <2>4, <2>9, <2>10, <2>11
  <1>7. Len(g) \notin Bad
    <2> SUFFICES ASSUME Len(g) \in Bad PROVE FALSE
      OBVIOUS
    <2>1. PICK k \in Bad : \A j \in Bad : k <= j
      <3>1. Bad \in SUBSET (0 .. Len(g)) /\ Bad # {}
        OBVIOUS
      <3> HIDE DEF Bad
      <3>2. QED
        BY <1>1, <3>1, LeastNumber
    <2>2. k \in 0 .. Len(g)
      BY <2>1
    <2> HIDE DEF Bad
    <2>3. k # 0
      BY <1>5, <2>1
    <2>4. k - 1 \in 0 .. Len(g) /\ k - 1 + 1 = k
      BY <1>1, <2>2, <2>3
    <2>5. k - 1 \notin Bad
      BY <2>1, <2>4
    <2>6. QED
      BY <1>6, <2>1, <2>2, <2>4, <2>5
  <1>8. SumFunctionOnSet(got(Len(g)), Receivers) =
          SumFunctionOnSet(before, Receivers) + Up(Counts(g), Len(g))
    BY <1>1, <1>7
  <1>9. got(Len(g)) = [w \in Receivers |-> before[w] + Share(g, w)]
    BY SumsAreUp
  <1>10. TotalOf(g) = Up(Counts(g), Len(g))
    BY SumsAreUp
  <1>11. DOMAIN before = Receivers /\ DOMAIN [w \in Receivers |-> before[w] + Share(g, w)] = Receivers
    OBVIOUS
  <1> HIDE DEF got
  <1>12. QED
    BY <1>8, <1>9, <1>10, <1>11 DEF SumFunction

-----------------------------------------------------------------------------
(* Handing out boxes: how the text field is read.                           *)

\* What a line asks for a wallet.
AsksOf(line, w) == IF line.to = w /\ ReadsLine(line) THEN line.count ELSE 0

LEMMA MergesLine ==
  ASSUME NEW r \in Seq(Entry), Distinct(r), NEW line \in ListLine,
         ReadsLine(line), line.to \in TargetsOf(r)
  PROVE  /\ AddLine(r, line) \in Seq(Entry) /\ Distinct(AddLine(r, line))
         /\ \A w : Share(AddLine(r, line), w) = Share(r, w) + AsksOf(line, w)
  <1> DEFINE n == Len(r)
             a == [i \in DOMAIN r |->
                     IF r[i].to = line.to
                     THEN [to |-> line.to, count |-> r[i].count + line.count]
                     ELSE r[i]]
  <1>1. n \in Nat /\ DOMAIN r = 1 .. n /\ \A i \in 1 .. n : r[i] \in Entry
    BY EntriesCount
  <1>2. AddLine(r, line) = a
    BY DEF AddLine
  <1>3. line.to \in Receivers /\ line.count \in Nat /\ line.count > 0
    BY DEF ListLine, ReadsLine
  <1>4. PICK j \in 1 .. n : r[j].to = line.to
    BY <1>1 DEF TargetsOf, ToSet
  <1>5. \A i \in 1 .. n : r[i].to = line.to <=> i = j
    BY <1>1, <1>4 DEF Distinct
  <1>6. a \in [1 .. n -> Entry] /\ DOMAIN a = 1 .. n
    BY <1>1, <1>3 DEF Entry
  <1>7. \A i \in 1 .. n :
          a[i] = IF i = j THEN [to |-> line.to, count |-> r[j].count + line.count] ELSE r[i]
    BY <1>1, <1>5
  <1> HIDE DEF a
  <1>8. a \in Seq(Entry) /\ Len(a) = n
    <2>1. a \in Seq(Entry)
      BY <1>1, <1>6, SeqDef
    <2>2. Len(a) \in Nat /\ DOMAIN a = 1 .. Len(a)
      BY <2>1, LenProperties
    <2>3. QED
      BY <1>1, <1>6, <2>1, <2>2
  <1>9. Distinct(a)
    <2> SUFFICES ASSUME NEW i \in 1 .. n, NEW k \in 1 .. n, a[i].to = a[k].to
                 PROVE  i = k
      BY <1>6 DEF Distinct
    <2>1. a[i].to = r[i].to /\ a[k].to = r[k].to
      BY <1>4, <1>7
    <2>2. QED
      BY <1>1, <2>1 DEF Distinct
  <1>10. ASSUME NEW w PROVE Share(a, w) = Share(r, w) + AsksOf(line, w)
    <2> DEFINE f == Parts(r, w)
               h == Parts(a, w)
    <2>1. Share(a, w) = Up(h, n) /\ Share(r, w) = Up(f, n)
      BY <1>8, SumsAreUp
    <2>2. \A i \in 1 .. n :
            /\ f[i] = IF r[i].to = w THEN r[i].count ELSE 0
            /\ h[i] = IF a[i].to = w THEN a[i].count ELSE 0
            /\ f[i] \in Nat /\ h[i] \in Nat
      BY <1>8, EntriesCount
    <2>3. \A i \in (1 .. n) \ {j} : f[i] = h[i]
      BY <1>7, <2>2
    <2>4. h[j] - f[j] = AsksOf(line, w)
      <3>1. a[j].to = line.to /\ a[j].count = r[j].count + line.count
        BY <1>7
      <3>2. r[j].count \in Nat
        BY <1>1 DEF Entry
      <3>3. f[j] = IF r[j].to = w THEN r[j].count ELSE 0
        BY <2>2
      <3>4. h[j] = IF a[j].to = w THEN a[j].count ELSE 0
        BY <2>2
      <3> HIDE DEF f, h
      <3>5. CASE line.to = w
        BY <1>3, <1>4, <3>1, <3>2, <3>3, <3>4, <3>5 DEF AsksOf
      <3>6. CASE line.to # w
        BY <1>3, <1>4, <3>1, <3>2, <3>3, <3>4, <3>6 DEF AsksOf
      <3>7. QED
        BY <3>5, <3>6
    <2> HIDE DEF f, h
    <2>5. IsFiniteSet(1 .. n)
      BY <1>1, FS_Interval
    <2>6. Up(h, n) = Up(f, n) + (h[j] - f[j])
      <3>1. \A i \in 1 .. n : f[i] \in Int /\ h[i] \in Int
        BY <2>2
      <3>2. QED
        BY <2>3, <2>5, <3>1, SumChanged DEF Up
    <2>7. QED
      BY <2>1, <2>4, <2>6
  <1>11. QED
    BY <1>2, <1>8, <1>9, <1>10

LEMMA AppendsLine ==
  ASSUME NEW r \in Seq(Entry), Distinct(r), NEW line \in ListLine,
         ReadsLine(line), line.to \notin TargetsOf(r)
  PROVE  /\ AddLine(r, line) \in Seq(Entry) /\ Distinct(AddLine(r, line))
         /\ \A w : Share(AddLine(r, line), w) = Share(r, w) + AsksOf(line, w)
  <1> DEFINE n == Len(r)
             e == [to |-> line.to, count |-> line.count]
             a == Append(r, e)
  <1>1. n \in Nat /\ DOMAIN r = 1 .. n /\ \A i \in 1 .. n : r[i] \in Entry
    BY EntriesCount
  <1>2. AddLine(r, line) = a
    BY DEF AddLine
  <1>3. e \in Entry
    BY DEF ListLine, ReadsLine, Entry
  <1>4. a \in Seq(Entry) /\ Len(a) = n + 1 /\ a[n + 1] = e /\ \A i \in 1 .. n : a[i] = r[i]
    BY <1>3, AppendProperties
  <1>5. DOMAIN a = 1 .. n + 1
    BY <1>4, LenProperties
  <1>6. e.to = line.to /\ e.count = line.count
    OBVIOUS
  <1>7. \A i \in 1 .. n : r[i].to # line.to
    BY <1>1 DEF TargetsOf, ToSet
  <1> HIDE DEF a, e
  <1>8. Distinct(a)
    <2> SUFFICES ASSUME NEW i \in 1 .. n + 1, NEW k \in 1 .. n + 1, a[i].to = a[k].to
                 PROVE  i = k
      BY <1>5 DEF Distinct
    <2>1. CASE i = n + 1 /\ k # n + 1
      BY <1>1, <1>4, <1>6, <1>7, <2>1
    <2>2. CASE i # n + 1 /\ k = n + 1
      BY <1>1, <1>4, <1>6, <1>7, <2>2
    <2>3. CASE i # n + 1 /\ k # n + 1
      BY <1>1, <1>4, <2>3 DEF Distinct
    <2>4. QED
      BY <2>1, <2>2, <2>3
  <1>9. ASSUME NEW w PROVE Share(a, w) = Share(r, w) + AsksOf(line, w)
    <2> DEFINE f == Parts(r, w)
               h == Parts(a, w)
    <2>1. Share(a, w) = Up(h, n + 1) /\ Share(r, w) = Up(f, n)
      BY <1>4, SumsAreUp
    <2>2. \A i \in 1 .. n :
            f[i] = (IF r[i].to = w THEN r[i].count ELSE 0) /\ f[i] \in Nat
      BY EntriesCount
    <2>3. \A i \in 1 .. n + 1 :
            h[i] = (IF a[i].to = w THEN a[i].count ELSE 0) /\ h[i] \in Nat
      BY <1>4, EntriesCount
    <2>4. h[n + 1] = AsksOf(line, w)
      BY <1>1, <1>4, <1>6, <2>3 DEF AsksOf
    <2>5. \A i \in 1 .. n : h[i] = f[i]
      BY <1>4, <2>2, <2>3
    <2> HIDE DEF f, h
    <2>6. Up(h, n + 1) = Up(h, n) + h[n + 1]
      BY <1>1, <2>3, UpStep
    <2>7. Up(h, n) = Up(f, n)
      BY <1>1, <2>5, UpAgrees
    <2>8. QED
      BY <2>1, <2>4, <2>6, <2>7
  <1>10. QED
    BY <1>2, <1>4, <1>8, <1>9

\* A line adds what it asks for, and nothing when it cannot be read.
LEMMA AddsLine ==
  ASSUME NEW r \in Seq(Entry), Distinct(r), NEW line \in ListLine
  PROVE  /\ AddLine(r, line) \in Seq(Entry) /\ Distinct(AddLine(r, line))
         /\ \A w : Share(AddLine(r, line), w) = Share(r, w) + AsksOf(line, w)
  <1>1. CASE ~ReadsLine(line)
    <2>1. AddLine(r, line) = r /\ \A w : AsksOf(line, w) = 0
      BY <1>1 DEF AddLine, AsksOf
    <2>2. \A w : Share(r, w) \in Nat
      BY SumsAreNat
    <2>3. QED
      BY <2>1, <2>2
  <1>2. QED
    BY <1>1, MergesLine, AppendsLine

\* The function of the library: g reads the lines of every subset of S, the
\* highest last.
Read(ls, g, s) == IF s = {} THEN <<>> ELSE AddLine(g[s \ {Max(s)}], ls[Max(s)])
ReadsAll(ls, g, S) == g = [s \in SUBSET S |-> Read(ls, g, s)]
Reader(ls, S) == CHOOSE g : ReadsAll(ls, g, S)

LEMMA RecipientsByReader ==
  ASSUME NEW ls
  PROVE  Recipients(ls) = Reader(ls, DOMAIN ls)[DOMAIN ls]
  BY DEF Recipients, FoldLeft, MapThenFoldSet, Reader, ReadsAll, Read

LEMMA PartIsFinite ==
  ASSUME NEW n \in Nat, NEW s, s \subseteq 1 .. n
  PROVE  IsFiniteSet(s)
  <1>1. IsFiniteSet(1 .. n)
    BY FS_Interval
  <1>2. QED
    BY <1>1, FS_Subset

LEMMA MaxIn ==
  ASSUME NEW n \in Nat, NEW s, s \subseteq 1 .. n, s # {}
  PROVE  Max(s) \in s /\ \A y \in s : Max(s) >= y
  <1> DEFINE f == [i \in 1 .. n |-> i]
  <1>1. IsFiniteSet(s)
    BY PartIsFinite
  <1>2. \E i \in s : \A j \in s : f[j] <= f[i]
    <2>1. \A i \in s : f[i] \in Int
      OBVIOUS
    <2> HIDE DEF f
    <2>2. QED
      BY <1>1, <2>1, LargestExists
  <1>3. \E i \in s : \A j \in s : i >= j
    BY <1>2
  <1>4. QED
    BY <1>3 DEF Max

LEMMA MaxOfPrefix ==
  ASSUME NEW k \in Nat, k > 0
  PROVE  Max(1 .. k) = k /\ (1 .. k) \ {k} = 1 .. k - 1
  <1>1. k \in 1 .. k /\ (1 .. k) \subseteq 1 .. k
    OBVIOUS
  <1>2. Max(1 .. k) \in 1 .. k /\ \A y \in 1 .. k : Max(1 .. k) >= y
    BY <1>1, MaxIn
  <1>3. QED
    BY <1>1, <1>2

Ordered(S) == IsFiniteSet(S) /\ \A s \in SUBSET S : s # {} => Max(s) \in s

LEMMA PrefixOrdered ==
  ASSUME NEW n \in Nat
  PROVE  Ordered(1 .. n)
  <1>1. IsFiniteSet(1 .. n)
    BY FS_Interval
  <1>2. \A s \in SUBSET (1 .. n) : s # {} => Max(s) \in s
    BY MaxIn
  <1>3. QED
    BY <1>1, <1>2 DEF Ordered

\* Such functions agree wherever both are defined.
LEMMA ReadersAgree ==
  ASSUME NEW ls, NEW A, NEW B, NEW g, NEW h, ReadsAll(ls, g, A), ReadsAll(ls, h, B),
         NEW S, S \subseteq A, S \subseteq B, Ordered(S)
  PROVE  g[S] = h[S]
  <1> DEFINE Bad == {s \in SUBSET S : g[s] # h[s]}
  <1> SUFFICES ASSUME g[S] # h[S] PROVE FALSE
    OBVIOUS
  <1>1. S \in Bad
    OBVIOUS
  <1>2. PICK T \in Bad : \A U \in Bad : U \subseteq T => U = T
    <2>1. Bad # {} /\ Bad \subseteq SUBSET S
      BY <1>1
    <2>2. IsFiniteSet(S)
      BY DEF Ordered
    <2> HIDE DEF Bad
    <2>3. QED
      BY <2>1, <2>2, SmallestSubset
  <1>3. g[T] = Read(ls, g, T) /\ h[T] = Read(ls, h, T)
    BY <1>2 DEF ReadsAll
  <1>4. CASE T = {}
    BY <1>2, <1>3, <1>4 DEF Read
  <1>5. CASE T # {}
    <2> DEFINE U == T \ {Max(T)}
    <2>1. U \subseteq T /\ U # T
      BY <1>2, <1>5 DEF Ordered
    <2>2. g[U] = h[U]
      BY <1>2, <2>1
    <2>3. QED
      BY <1>2, <1>3, <1>5, <2>2 DEF Read
  <1>6. QED
    BY <1>4, <1>5

\* One exists for every list.
LEMMA ReaderExists ==
  ASSUME NEW ls, NEW S, Ordered(S)
  PROVE  ReadsAll(ls, Reader(ls, S), S)
  <1> DEFINE Bad == {s \in SUBSET S : ~ \E g : ReadsAll(ls, g, s)}
  <1> SUFFICES ASSUME ~ \E g : ReadsAll(ls, g, S) PROVE FALSE
    BY DEF Reader
  <1>1. S \in Bad
    OBVIOUS
  <1>2. PICK T \in Bad : \A U \in Bad : U \subseteq T => U = T
    <2>1. Bad # {} /\ Bad \subseteq SUBSET S
      BY <1>1
    <2>2. IsFiniteSet(S)
      BY DEF Ordered
    <2> HIDE DEF Bad
    <2>3. QED
      BY <2>1, <2>2, SmallestSubset
  <1>3. \A U \in SUBSET T : U # T => ReadsAll(ls, Reader(ls, U), U)
    BY <1>2 DEF Reader
  <1>4. \A s \in SUBSET T : Ordered(s) /\ (s # {} => Max(s) \in s)
    BY <1>2, FS_Subset DEF Ordered
  <1> DEFINE low == [s \in SUBSET T |-> Reader(ls, s)[s]]
             g == [s \in SUBSET T |-> Read(ls, low, s)]
  <1>5. \A s \in SUBSET T : s # T => g[s] = low[s]
    <2> SUFFICES ASSUME NEW s \in SUBSET T, s # T
                 PROVE  Read(ls, low, s) = Reader(ls, s)[s]
      OBVIOUS
    <2>1. ReadsAll(ls, Reader(ls, s), s)
      BY <1>3
    <2>2. Reader(ls, s)[s] = Read(ls, Reader(ls, s), s)
      BY <2>1 DEF ReadsAll
    <2>3. CASE s = {}
      BY <2>2, <2>3 DEF Read
    <2>4. CASE s # {}
      <3> DEFINE u == s \ {Max(s)}
      <3>1. u \subseteq s /\ u \subseteq T /\ u # T /\ Ordered(u)
        BY <1>4, <2>4
      <3>2. ReadsAll(ls, Reader(ls, u), u)
        BY <1>3, <3>1
      <3>3. Reader(ls, s)[u] = Reader(ls, u)[u]
        BY <2>1, <3>1, <3>2, ReadersAgree
      <3>4. low[u] = Reader(ls, s)[u]
        BY <3>1, <3>3
      <3>5. QED
        BY <2>2, <2>4, <3>4 DEF Read
    <2>5. QED
      BY <2>3, <2>4
  <1>6. \A s \in SUBSET T : Read(ls, low, s) = Read(ls, g, s)
    <2> SUFFICES ASSUME NEW s \in SUBSET T, s # {}
                 PROVE  low[s \ {Max(s)}] = g[s \ {Max(s)}]
      BY DEF Read
    <2>1. s \ {Max(s)} \in SUBSET T /\ s \ {Max(s)} # T
      BY <1>4
    <2> HIDE DEF low, g
    <2>2. QED
      BY <1>5, <2>1
  <1>7. ReadsAll(ls, g, T)
    BY <1>6 DEF ReadsAll
  <1> HIDE DEF g
  <1>8. QED
    BY <1>2, <1>7

\* What is read asks for what the lines ask for, and no wallet comes twice.
LEMMA RecipientsAsk ==
  ASSUME NEW ls \in Seq(ListLine)
  PROVE  /\ Recipients(ls) \in Seq(Entry) /\ Distinct(Recipients(ls))
         /\ \A w : Share(Recipients(ls), w) = SumFunction(Asks(ls, w))
  <1> DEFINE n == Len(ls)
             g == Reader(ls, 1 .. n)
             Good(k) == /\ g[1 .. k] \in Seq(Entry) /\ Distinct(g[1 .. k])
                        /\ \A w : Share(g[1 .. k], w) = Up(Asks(ls, w), k)
             Bad == {k \in 0 .. n : ~ Good(k)}
  <1>1. n \in Nat /\ DOMAIN ls = 1 .. n /\ \A i \in 1 .. n : ls[i] \in ListLine
    BY LenProperties, ElementOfSeq
  <1>2. ReadsAll(ls, g, 1 .. n)
    BY <1>1, PrefixOrdered, ReaderExists
  <1>3. Recipients(ls) = g[1 .. n]
    BY <1>1, RecipientsByReader
  <1>4. g[{}] = <<>>
    BY <1>2 DEF ReadsAll, Read
  <1>5. \A k \in 1 .. n : g[1 .. k] = AddLine(g[1 .. k - 1], ls[k])
    <2> SUFFICES ASSUME NEW k \in 1 .. n PROVE g[1 .. k] = AddLine(g[1 .. k - 1], ls[k])
      OBVIOUS
    <2>1. 1 .. k \subseteq 1 .. n /\ k \in 1 .. k
      BY <1>1
    <2>2. g[1 .. k] = Read(ls, g, 1 .. k)
      BY <1>2, <2>1 DEF ReadsAll
    <2>3. Max(1 .. k) = k /\ (1 .. k) \ {k} = 1 .. k - 1
      BY <1>1, MaxOfPrefix
    <2> HIDE DEF g
    <2>4. QED
      BY <2>1, <2>2, <2>3 DEF Read
  <1>6. \A w : \A i \in 1 .. n : Asks(ls, w)[i] = AsksOf(ls[i], w) /\ Asks(ls, w)[i] \in Nat
    BY <1>1 DEF Asks, AsksOf, ListLine
  <1> HIDE DEF g
  <1>7. Good(0)
    <2>1. 1 .. 0 = {}
      OBVIOUS
    <2>2. g[1 .. 0] = <<>>
      BY <1>4, <2>1
    <2>3. <<>> \in Seq(Entry) /\ Len(<<>>) = 0
      BY EmptySeq
    <2>4. Distinct(<<>>)
      BY DEF Distinct
    <2>5. ASSUME NEW w PROVE Share(<<>>, w) = Up(Asks(ls, w), 0)
      <3>1. Share(<<>>, w) = Up(Parts(<<>>, w), 0)
        BY <2>3, SumsAreUp
      <3>2. \A f : Up(f, 0) = 0
        BY <2>1, SumOfNone DEF Up
      <3>3. QED
        BY <3>1, <3>2
    <2>6. QED
      BY <2>2, <2>3, <2>4, <2>5
  <1>8. ASSUME NEW k \in 1 .. n, Good(k - 1)
        PROVE  Good(k)
    <2> DEFINE r == g[1 .. k - 1]
    <2>1. r \in Seq(Entry) /\ Distinct(r) /\ \A w : Share(r, w) = Up(Asks(ls, w), k - 1)
      BY <1>8
    <2>2. g[1 .. k] = AddLine(r, ls[k]) /\ ls[k] \in ListLine
      BY <1>1, <1>5
    <2> HIDE DEF r
    <2>3. /\ AddLine(r, ls[k]) \in Seq(Entry) /\ Distinct(AddLine(r, ls[k]))
          /\ \A w : Share(AddLine(r, ls[k]), w) = Share(r, w) + AsksOf(ls[k], w)
      BY <2>1, <2>2, AddsLine
    <2>4. ASSUME NEW w PROVE Up(Asks(ls, w), k) = Up(Asks(ls, w), k - 1) + AsksOf(ls[k], w)
      <3>1. k - 1 \in Nat /\ k - 1 + 1 = k
        BY <1>1
      <3>2. \A i \in 1 .. k - 1 + 1 : Asks(ls, w)[i] \in Int
        BY <1>1, <1>6
      <3>3. Up(Asks(ls, w), k - 1 + 1) = Up(Asks(ls, w), k - 1) + Asks(ls, w)[k - 1 + 1]
        BY <3>1, <3>2, UpStep
      <3>4. QED
        BY <1>6, <3>1, <3>3
    <2>5. QED
      BY <2>1, <2>2, <2>3, <2>4
  <1>9. Good(n)
    <2> SUFFICES ASSUME n \in Bad PROVE FALSE
      BY <1>1
    <2>1. PICK k \in Bad : \A j \in Bad : k <= j
      <3>1. Bad \in SUBSET (0 .. n) /\ Bad # {}
        OBVIOUS
      <3> HIDE DEF Bad
      <3>2. QED
        BY <1>1, <3>1, LeastNumber
    <2>2. k \in 0 .. n /\ ~ Good(k) /\ \A j \in 0 .. n : ~ Good(j) => k <= j
      BY <2>1
    <2> HIDE DEF Good, Bad
    <2>3. k # 0
      BY <1>7, <2>2
    <2>4. k \in 1 .. n /\ k - 1 \in 0 .. n /\ ~ (k <= k - 1)
      BY <1>1, <2>2, <2>3
    <2>5. Good(k - 1)
      BY <2>2, <2>4
    <2>6. QED
      BY <1>8, <2>2, <2>4, <2>5
  <1>10. \A w : SumFunction(Asks(ls, w)) = Up(Asks(ls, w), n)
    BY SumsAreUp
  <1>11. QED
    BY <1>3, <1>9, <1>10

-----------------------------------------------------------------------------
(* Handing out boxes: the batches of a list.                                *)

\* The lines that the first k batches hold.
Packed(g, k) == IF k * PerTx < Len(g) THEN k * PerTx ELSE Len(g)

LEMMA BatchBounds ==
  ASSUME NEW g \in Seq(Entry)
  PROVE  /\ BatchCount(Len(g)) \in Nat
         /\ Packed(g, 0) = 0 /\ Packed(g, BatchCount(Len(g))) = Len(g)
         /\ \A b \in 1 .. BatchCount(Len(g)) :
              /\ (b - 1) * PerTx = Packed(g, b - 1)
              /\ Packed(g, b - 1) \in Nat /\ Packed(g, b) \in Nat
              /\ Packed(g, b - 1) < Packed(g, b) /\ Packed(g, b) <= Len(g)
  <1> DEFINE P == PerTx
             L == Len(g)
             N == (L + P - 1) \div P
  <1>1. P \in Nat /\ P > 0 /\ L \in Nat
    BY AirdropAssumption, LenProperties
  <1> HIDE DEF P, L
  <1>2. N \in Nat /\ N * P <= L + P - 1 /\ L + P - 1 < N * P + P
    BY <1>1
  <1> HIDE DEF N
  <1>3. \A a, b \in Nat : a <= b => a * P <= b * P /\ a * P \in Nat
    BY <1>1
  <1>4. N * P >= L /\ N * P \in Nat
    BY <1>1, <1>2, <1>3
  <1>5. \A b \in 1 .. N : /\ (b - 1) * P = b * P - P /\ b * P <= N * P
                          /\ b * P \in Nat /\ (b - 1) * P \in Nat
    BY <1>1, <1>2, <1>3
  <1>6. \A b \in 1 .. N : (b - 1) * P < L /\ (b - 1) * P < b * P
    BY <1>1, <1>2, <1>5
  <1>7. 0 * P = 0
    BY <1>1
  <1>8. BatchCount(Len(g)) = N /\ \A k : Packed(g, k) = IF k * P < L THEN k * P ELSE L
    BY DEF BatchCount, Packed, N, L, P
  <1>9. Packed(g, 0) = 0 /\ Packed(g, N) = L
    BY <1>1, <1>4, <1>7, <1>8
  <1>10. ASSUME NEW b \in 1 .. N
         PROVE  /\ (b - 1) * P = Packed(g, b - 1)
                /\ Packed(g, b - 1) \in Nat /\ Packed(g, b) \in Nat
                /\ Packed(g, b - 1) < Packed(g, b) /\ Packed(g, b) <= L
    <2>1. Packed(g, b - 1) = (b - 1) * P
      BY <1>6, <1>8
    <2>2. Packed(g, b) = b * P \/ Packed(g, b) = L
      BY <1>8
    <2>3. Packed(g, b) = IF b * P < L THEN b * P ELSE L
      BY <1>8
    <2>4. /\ b * P \in Nat /\ (b - 1) * P \in Nat
          /\ (b - 1) * P < L /\ (b - 1) * P < b * P
      BY <1>5, <1>6
    <2>5. QED
      BY <1>1, <2>1, <2>3, <2>4
  <1>11. QED
    BY <1>2, <1>8, <1>9, <1>10 DEF P, L

LEMMA BatchesOfList ==
  ASSUME NEW g \in Seq(Entry)
  PROVE  /\ Batches(g) \in Seq(Seq(Entry)) /\ Len(Batches(g)) = BatchCount(Len(g))
         /\ \A b \in 1 .. BatchCount(Len(g)) :
              Batches(g)[b] = SubSeq(g, Packed(g, b - 1) + 1, Packed(g, b))
  <1> DEFINE N == BatchCount(Len(g))
  <1>1. N \in Nat /\ Len(g) \in Nat
    BY BatchBounds, LenProperties
  <1>2. \A b \in 1 .. N : Batches(g)[b] = SubSeq(g, Packed(g, b - 1) + 1, Packed(g, b))
    <2> SUFFICES ASSUME NEW b \in 1 .. N
                 PROVE  Batches(g)[b] = SubSeq(g, Packed(g, b - 1) + 1, Packed(g, b))
      OBVIOUS
    <2>1. Batches(g)[b] = SubSeq(g, (b - 1) * PerTx + 1,
                                 IF b * PerTx < Len(g) THEN b * PerTx ELSE Len(g))
      BY DEF Batches
    <2>2. (b - 1) * PerTx = Packed(g, b - 1)
      BY BatchBounds
    <2>3. QED
      BY <2>1, <2>2 DEF Packed
  <1>3. \A b \in 1 .. N : Batches(g)[b] \in Seq(Entry)
    <2> SUFFICES ASSUME NEW b \in 1 .. N PROVE Batches(g)[b] \in Seq(Entry)
      OBVIOUS
    <2>1. /\ Packed(g, b - 1) \in Nat /\ Packed(g, b) \in Nat
          /\ Packed(g, b - 1) < Packed(g, b) /\ Packed(g, b) <= Len(g)
      BY BatchBounds
    <2>2. Packed(g, b - 1) + 1 \in 1 .. Len(g) + 1
          /\ Packed(g, b) \in Packed(g, b - 1) + 1 - 1 .. Len(g)
      BY <1>1, <2>1
    <2>3. SubSeq(g, Packed(g, b - 1) + 1, Packed(g, b)) \in Seq(Entry)
      BY <2>2, SumsOfPart
    <2>4. QED
      BY <1>2, <2>3
  <1>4. DOMAIN Batches(g) = 1 .. N
    BY DEF Batches
  <1>5. Batches(g) = [b \in 1 .. N |-> Batches(g)[b]]
    BY DEF Batches
  <1> HIDE DEF N
  <1>6. Batches(g) \in [1 .. N -> Seq(Entry)]
    BY <1>3, <1>5
  <1>7. Batches(g) \in Seq(Seq(Entry))
    BY <1>1, <1>6, SeqDef
  <1>8. Len(Batches(g)) \in Nat /\ DOMAIN Batches(g) = 1 .. Len(Batches(g))
    BY <1>7, LenProperties
  <1>9. Len(Batches(g)) = N
    BY <1>1, <1>4, <1>8
  <1>10. QED
    BY <1>2, <1>7, <1>9 DEF N

\* What the library joins, step by step.
Joins(gs, f, n) ==
  f = [i \in 1 .. n |-> IF i = 1 THEN gs[i] ELSE f[i - 1] \o gs[i]]

LEMMA JoinsAt ==
  ASSUME NEW gs, NEW f, NEW n \in Nat, Joins(gs, f, n), NEW i \in 1 .. n
  PROVE  f[i] = IF i = 1 THEN gs[i] ELSE f[i - 1] \o gs[i]
  <1> DEFINE h == [j \in 1 .. n |-> IF j = 1 THEN gs[j] ELSE f[j - 1] \o gs[j]]
  <1>1. f = h
    BY DEF Joins
  <1>2. h[i] = IF i = 1 THEN gs[i] ELSE f[i - 1] \o gs[i]
    OBVIOUS
  <1> HIDE DEF h
  <1>3. QED
    BY <1>1, <1>2

LEMMA JoinExists ==
  ASSUME NEW gs, NEW n \in Nat
  PROVE  \E f : Joins(gs, f, n)
  <1> DEFINE Bad == {k \in 0 .. n : ~ \E f : Joins(gs, f, k)}
  <1> SUFFICES ASSUME n \in Bad PROVE FALSE
    OBVIOUS
  <1>1. PICK k \in Bad : \A j \in Bad : k <= j
    <2>1. Bad \in SUBSET (0 .. n) /\ Bad # {}
      OBVIOUS
    <2> HIDE DEF Bad
    <2>2. QED
      BY <2>1, LeastNumber
  <1>2. k \in 0 .. n /\ ~ (\E f : Joins(gs, f, k))
    BY <1>1
  <1>3. k # 0
    <2> SUFFICES ASSUME k = 0 PROVE FALSE
      OBVIOUS
    <2> DEFINE f == [i \in 1 .. 0 |-> 0]
    <2>1. Joins(gs, f, 0)
      BY DEF Joins
    <2>2. QED
      BY <1>2, <2>1
  <1>4. k - 1 \in 0 .. n /\ ~ (k <= k - 1)
    BY <1>2, <1>3
  <1>5. PICK f : Joins(gs, f, k - 1)
    BY <1>1, <1>4
  <1> DEFINE h == [i \in 1 .. k |-> IF i = 1 THEN gs[i] ELSE f[i - 1] \o gs[i]]
  <1>6. \A i \in 1 .. k - 1 : h[i] = f[i]
    <2> SUFFICES ASSUME NEW i \in 1 .. k - 1 PROVE h[i] = f[i]
      OBVIOUS
    <2>1. f[i] = IF i = 1 THEN gs[i] ELSE f[i - 1] \o gs[i]
      BY <1>4, <1>5, JoinsAt
    <2>2. i \in 1 .. k
      BY <1>2
    <2>3. QED
      BY <2>1, <2>2
  <1>7. \A i \in 1 .. k : i # 1 => h[i - 1] = f[i - 1]
    <2> HIDE DEF h
    <2>1. \A i \in 1 .. k : i # 1 => i - 1 \in 1 .. k - 1
      BY <1>2
    <2>2. QED
      BY <1>6, <2>1
  <1>8. h = [i \in 1 .. k |-> IF i = 1 THEN gs[i] ELSE h[i - 1] \o gs[i]]
    BY <1>7
  <1>9. Joins(gs, h, k)
    BY <1>8 DEF Joins
  <1>10. QED
    BY <1>2, <1>9

LEMMA FlattenSteps ==
  ASSUME NEW gs, Len(gs) \in Nat, Len(gs) # 0
  PROVE  \E f : /\ FlattenSeq(gs) = f[Len(gs)] /\ f[1] = gs[1]
                /\ \A i \in 2 .. Len(gs) : f[i] = f[i - 1] \o gs[i]
  <1> DEFINE n == Len(gs)
             f == CHOOSE h : Joins(gs, h, n)
  <1>1. Joins(gs, f, n)
    BY JoinExists
  <1>2. FlattenSeq(gs) = f[n]
    BY DEF FlattenSeq, Joins
  <1> HIDE DEF f
  <1>3. \A i \in 1 .. n : f[i] = IF i = 1 THEN gs[i] ELSE f[i - 1] \o gs[i]
    BY <1>1, JoinsAt
  <1>4. n \in Nat /\ n # 0
    OBVIOUS
  <1> HIDE DEF n
  <1>5. f[1] = gs[1]
    BY <1>3, <1>4
  <1>6. \A i \in 2 .. n : f[i] = f[i - 1] \o gs[i]
    <2>1. \A i \in 2 .. n : i \in 1 .. n /\ i # 1
      BY <1>4
    <2>2. \A i \in 1 .. n : i # 1 => f[i] = f[i - 1] \o gs[i]
      BY <1>3
    <2>3. QED
      BY <2>1, <2>2
  <1>7. QED
    BY <1>2, <1>5, <1>6 DEF n

\* The batches from the k-th on, joined, are the lines behind the first k - 1.
LEMMA RestOfBatches ==
  ASSUME NEW g \in Seq(Entry), NEW k \in 1 .. Len(Batches(g)) + 1
  PROVE  FlattenSeq(SubSeq(Batches(g), k, Len(Batches(g)))) =
           SubSeq(g, Packed(g, k - 1) + 1, Len(g))
  <1> DEFINE N == Len(Batches(g))
             L == Len(g)
             gs == SubSeq(Batches(g), k, N)
  <1>1. N \in Nat /\ L \in Nat /\ N = BatchCount(L) /\ Batches(g) \in Seq(Seq(Entry))
        /\ DOMAIN Batches(g) = 1 .. N
    BY BatchesOfList, LenProperties
  <1>2. Packed(g, N) = L
    BY <1>1, BatchBounds
  <1>3. CASE k = N + 1
    <2>1. gs = <<>>
      BY <1>1, <1>3, SubSeqEmpty
    <2>2. SubSeq(g, Packed(g, k - 1) + 1, L) = <<>>
      <3>1. Packed(g, k - 1) = L
        BY <1>1, <1>2, <1>3
      <3>2. SubSeq(g, L + 1, L) = <<>>
        BY <1>1, SubSeqEmpty
      <3>3. QED
        BY <3>1, <3>2
    <2>3. Len(<<>>) = 0
      BY EmptySeq
    <2>4. QED
      BY <2>1, <2>2, <2>3 DEF FlattenSeq
  <1>4. CASE k # N + 1
    <2> DEFINE n == N - k + 1
               m == Packed(g, k - 1) + 1
    <2>1. k \in 1 .. N /\ n \in Nat /\ n # 0 /\ k + n - 1 = N /\ k \in Nat
      BY <1>1, <1>4
    <2>2. Len(gs) = n /\ \A i \in 1 .. n : gs[i] = Batches(g)[k + i - 1]
      <3>1. \A i \in k .. N : Batches(g)[i] \in Seq(Entry)
        BY <1>1, <2>1, ElementOfSeq
      <3>2. /\ Len(gs) = IF k <= N THEN N - k + 1 ELSE 0
            /\ \A i \in 1 .. N - k + 1 : gs[i] = Batches(g)[k + i - 1]
        BY <1>1, <2>1, <3>1, SubSeqProperties
      <3>3. QED
        BY <1>1, <2>1, <3>2
    <2> HIDE DEF gs, N, L, n
    <2>3. PICK f : /\ FlattenSeq(gs) = f[n] /\ f[1] = gs[1]
                   /\ \A i \in 2 .. n : f[i] = f[i - 1] \o gs[i]
      <3>1. Len(gs) \in Nat /\ Len(gs) # 0
        BY <2>1, <2>2
      <3>2. \E f : /\ FlattenSeq(gs) = f[Len(gs)] /\ f[1] = gs[1]
                   /\ \A i \in 2 .. Len(gs) : f[i] = f[i - 1] \o gs[i]
        BY <3>1, FlattenSteps
      <3>3. QED
        BY <2>2, <3>2
    <2>4. \A i \in 1 .. n :
            /\ k + i - 1 \in 1 .. N
            /\ gs[i] = SubSeq(g, Packed(g, k + i - 2) + 1, Packed(g, k + i - 1))
            /\ Packed(g, k + i - 2) \in Nat /\ Packed(g, k + i - 1) \in Nat
            /\ Packed(g, k + i - 2) < Packed(g, k + i - 1) /\ Packed(g, k + i - 1) <= L
      <3> SUFFICES ASSUME NEW i \in 1 .. n
                   PROVE  /\ k + i - 1 \in 1 .. N
                          /\ gs[i] = SubSeq(g, Packed(g, k + i - 2) + 1, Packed(g, k + i - 1))
                          /\ Packed(g, k + i - 2) \in Nat /\ Packed(g, k + i - 1) \in Nat
                          /\ Packed(g, k + i - 2) < Packed(g, k + i - 1)
                          /\ Packed(g, k + i - 1) <= L
        OBVIOUS
      <3> DEFINE b == k + i - 1
      <3>1. b \in 1 .. N /\ b - 1 = k + i - 2 /\ gs[i] = Batches(g)[b]
        BY <1>1, <2>1, <2>2
      <3> HIDE DEF b
      <3>2. Batches(g)[b] = SubSeq(g, Packed(g, b - 1) + 1, Packed(g, b))
        BY <1>1, <3>1, BatchesOfList DEF L
      <3>3. /\ Packed(g, b - 1) \in Nat /\ Packed(g, b) \in Nat
            /\ Packed(g, b - 1) < Packed(g, b) /\ Packed(g, b) <= L
        BY <1>1, <3>1, BatchBounds DEF L
      <3>4. QED
        BY <3>1, <3>2, <3>3 DEF b
    <2> DEFINE Good(i) == m - 1 < Packed(g, k + i - 1) /\ f[i] = SubSeq(g, m, Packed(g, k + i - 1))
               Bad == {i \in 0 .. n : i # 0 /\ ~ Good(i)}
    <2>5. Good(1)
      <3>1. k + 1 - 2 = k - 1 /\ k + 1 - 1 = k /\ 1 \in 1 .. n
        BY <1>1, <2>1
      <3>2. gs[1] = SubSeq(g, Packed(g, k - 1) + 1, Packed(g, k)) /\ Packed(g, k - 1) < Packed(g, k)
            /\ Packed(g, k - 1) \in Nat
        BY <2>4, <3>1
      <3>3. f[1] = SubSeq(g, m, Packed(g, k)) /\ m - 1 < Packed(g, k)
        BY <2>3, <3>2
      <3> HIDE DEF m
      <3>4. QED
        BY <3>1, <3>3
    <2>6. ASSUME NEW i \in 2 .. n, Good(i - 1) PROVE Good(i)
      <3> DEFINE c == Packed(g, k + i - 2)
                 d == Packed(g, k + i - 1)
      <3>1. i \in 1 .. n /\ k + (i - 1) - 1 = k + i - 2
        BY <1>1, <2>1
      <3>2. /\ gs[i] = SubSeq(g, c + 1, d) /\ c \in Nat /\ d \in Nat /\ c < d /\ d <= L
        BY <2>4, <3>1
      <3>3. m - 1 < c /\ f[i - 1] = SubSeq(g, m, c)
        BY <2>6, <3>1
      <3>4. f[i] = f[i - 1] \o gs[i]
        BY <2>3
      <3>5. m \in Nat /\ m >= 1
        <4>1. 1 \in 1 .. n /\ k + 1 - 2 = k - 1
          BY <1>1, <2>1
        <4>2. Packed(g, k - 1) \in Nat
          BY <2>4, <4>1
        <4>3. QED
          BY <4>2
      <3> HIDE DEF c, d, m
      <3> HIDE DEF Good, Bad
      <3>6. m \in 1 .. Len(g) + 1 /\ c \in m - 1 .. Len(g) /\ d \in c .. Len(g)
        <4>1. Len(g) \in Nat /\ d <= Len(g)
          BY <1>1, <3>2 DEF L
        <4>2. QED
          BY <3>2, <3>3, <3>5, <4>1
      <3>7. SubSeq(g, m, c) \o SubSeq(g, c + 1, d) = SubSeq(g, m, d)
        BY <3>6, ConcatAdjacentSubSeq
      <3>8. m - 1 < d /\ f[i] = SubSeq(g, m, d)
        <4>1. m - 1 < d
          BY <3>2, <3>3, <3>5
        <4>2. QED
          BY <3>2, <3>3, <3>4, <3>7, <4>1
      <3>9. QED
        BY <3>8 DEF Good, d
    <2>7. Good(n)
      <3> SUFFICES ASSUME n \in Bad PROVE FALSE
        BY <2>1
      <3>1. PICK j \in Bad : \A i \in Bad : j <= i
        <4>1. Bad \in SUBSET (0 .. n) /\ Bad # {}
          OBVIOUS
        <4> HIDE DEF Bad
        <4>2. QED
          BY <2>1, <4>1, LeastNumber
      <3>2. j \in 1 .. n /\ ~ Good(j) /\ \A i \in 1 .. n : ~ Good(i) => j <= i
        BY <2>1, <3>1
      <3> HIDE DEF Good, Bad
      <3>3. j # 1
        BY <2>5, <3>2
      <3>4. j \in 2 .. n /\ j - 1 \in 1 .. n /\ ~ (j <= j - 1)
        BY <2>1, <3>2, <3>3
      <3>5. Good(j - 1)
        BY <3>2, <3>4
      <3>6. QED
        BY <2>6, <3>2, <3>4, <3>5
    <2>8. f[n] = SubSeq(g, m, Packed(g, N))
      BY <2>1, <2>7
    <2>9. QED
      BY <1>2, <2>3, <2>8 DEF gs, N, L
  <1>5. QED
    BY <1>3, <1>4

\* What the text field asks for when the batches from the k-th on are left.
LEMMA LinesOfRest ==
  ASSUME NEW g \in Seq(Entry), NEW k \in 1 .. Len(Batches(g)) + 1
  PROVE  LET ls == Lines(SubSeq(Batches(g), k, Len(Batches(g))))
         IN /\ ls \in Seq(ListLine)
            /\ \A w : SumFunction(Asks(ls, w)) =
                        Up(Parts(g, w), Len(g)) - Up(Parts(g, w), Packed(g, k - 1))
  <1> DEFINE N == Len(Batches(g))
             s == FlattenSeq(SubSeq(Batches(g), k, N))
             ls == Lines(SubSeq(Batches(g), k, N))
             m == Packed(g, k - 1) + 1
  <1>1. N \in Nat /\ Len(g) \in Nat /\ N = BatchCount(Len(g))
    BY BatchesOfList, BatchBounds, LenProperties
  <1>2. s = SubSeq(g, m, Len(g))
    BY RestOfBatches
  <1>3. Packed(g, k - 1) \in 0 .. Len(g)
    <2>1. CASE k = N + 1
      BY <1>1, <2>1, BatchBounds
    <2>2. CASE k # N + 1
      <3>1. k \in 1 .. BatchCount(Len(g))
        BY <1>1, <2>2
      <3>2. /\ Packed(g, k - 1) \in Nat /\ Packed(g, k) \in Nat
            /\ Packed(g, k - 1) < Packed(g, k) /\ Packed(g, k) <= Len(g)
        BY <3>1, BatchBounds
      <3>3. QED
        BY <1>1, <3>2
    <2>3. QED
      BY <2>1, <2>2
  <1>4. m \in 1 .. Len(g) + 1 /\ Len(g) \in m - 1 .. Len(g) /\ m - 1 = Packed(g, k - 1)
    BY <1>1, <1>3
  <1> HIDE DEF m
  <1>5. /\ SubSeq(g, m, Len(g)) \in Seq(Entry)
        /\ \A w : Share(SubSeq(g, m, Len(g)), w) =
                    Up(Parts(g, w), Len(g)) - Up(Parts(g, w), m - 1)
    BY <1>4, SumsOfPart
  <1>6. s \in Seq(Entry)
    BY <1>2, <1>5
  <1>7. ls = [i \in 1 .. Len(s) |-> [to |-> s[i].to, count |-> s[i].count, valid |-> TRUE]]
    BY DEF Lines
  <1>8. \A w : Share(s, w) = Up(Parts(g, w), Len(g)) - Up(Parts(g, w), Packed(g, k - 1))
    BY <1>2, <1>4, <1>5
  <1> HIDE DEF s, ls, N
  <1>9. Len(s) \in Nat /\ \A i \in 1 .. Len(s) : s[i] \in Entry
    BY <1>6, EntriesCount
  <1>10. ls \in [1 .. Len(s) -> ListLine] /\ DOMAIN ls = 1 .. Len(s)
    BY <1>7, <1>9 DEF Entry, ListLine
  <1>11. ls \in Seq(ListLine) /\ Len(ls) = Len(s)
    <2>1. ls \in Seq(ListLine)
      BY <1>9, <1>10, SeqDef
    <2>2. Len(ls) \in Nat /\ DOMAIN ls = 1 .. Len(ls)
      BY <2>1, LenProperties
    <2>3. QED
      BY <1>9, <1>10, <2>1, <2>2
  <1>12. ASSUME NEW w PROVE SumFunction(Asks(ls, w)) = Share(s, w)
    <2>1. SumFunction(Asks(ls, w)) = Up(Asks(ls, w), Len(s))
      BY <1>11, SumsAreUp
    <2>2. Share(s, w) = Up(Parts(s, w), Len(s))
      BY <1>6, SumsAreUp
    <2>3. \A i \in 1 .. Len(s) : Asks(ls, w)[i] = Parts(s, w)[i]
      <3> SUFFICES ASSUME NEW i \in 1 .. Len(s) PROVE Asks(ls, w)[i] = Parts(s, w)[i]
        OBVIOUS
      <3>1. ls[i] = [to |-> s[i].to, count |-> s[i].count, valid |-> TRUE]
        BY <1>7
      <3>2. s[i].count > 0
        BY <1>9 DEF Entry
      <3>3. ls[i].to = s[i].to /\ ls[i].count = s[i].count /\ ReadsLine(ls[i])
        BY <3>1, <3>2 DEF ReadsLine
      <3>4. Asks(ls, w)[i] = IF ls[i].to = w /\ ReadsLine(ls[i]) THEN ls[i].count ELSE 0
        BY <1>10 DEF Asks
      <3>5. Parts(s, w)[i] = IF s[i].to = w THEN s[i].count ELSE 0
        BY <1>6, EntriesCount
      <3>6. QED
        BY <3>3, <3>4, <3>5
    <2>4. QED
      BY <1>9, <2>1, <2>2, <2>3, UpAgrees
  <1>13. QED
    BY <1>8, <1>11, <1>12 DEF ls, N

\* A list has as many wallets as lines.
LEMMA TargetsOfList ==
  ASSUME NEW g \in Seq(Entry)
  PROVE  /\ TargetsOf(g) \subseteq Receivers /\ IsFiniteSet(TargetsOf(g))
         /\ Distinct(g) => Cardinality(TargetsOf(g)) = Len(g)
  <1>1. Len(g) \in Nat /\ DOMAIN g = 1 .. Len(g) /\ \A i \in 1 .. Len(g) : g[i] \in Entry
    BY EntriesCount
  <1>2. TargetsOf(g) = {g[i].to : i \in 1 .. Len(g)}
    BY <1>1 DEF TargetsOf, ToSet
  <1>3. TargetsOf(g) \subseteq Receivers
    BY <1>1, <1>2 DEF Entry
  <1>4. IsFiniteSet(TargetsOf(g))
    BY <1>3, FS_Subset, AirdropAssumption
  <1>5. ASSUME Distinct(g) PROVE Cardinality(TargetsOf(g)) = Len(g)
    <2> DEFINE f == [i \in 1 .. Len(g) |-> g[i].to]
    <2>1. f \in [1 .. Len(g) -> TargetsOf(g)]
      BY <1>2
    <2>2. \A a, b \in 1 .. Len(g) : f[a] = f[b] => a = b
      BY <1>1, <1>5 DEF Distinct
    <2>3. \A t \in TargetsOf(g) : \E a \in 1 .. Len(g) : f[a] = t
      BY <1>2
    <2> HIDE DEF f
    <2>4. f \in Bijection(1 .. Len(g), TargetsOf(g))
      BY <2>1, <2>2, <2>3 DEF Bijection, Injection, Surjection, IsInjective
    <2>5. ExistsBijection(1 .. Len(g), TargetsOf(g))
      BY <2>4 DEF ExistsBijection
    <2>6. QED
      BY <1>1, <2>5, FS_CountingElements
  <1>6. QED
    BY <1>3, <1>4, <1>5

\* What is left of a list behind the first k batches.
Rest(g, k, w) == Up(Parts(g, w), Len(g)) - Up(Parts(g, w), Packed(g, k))

LEMMA RestOfList ==
  ASSUME NEW g \in Seq(Entry), NEW w
  PROVE  /\ Rest(g, 0, w) = Share(g, w)
         /\ \A k \in 0 .. Len(Batches(g)) : Rest(g, k, w) \in Nat
         /\ \A k \in 1 .. Len(Batches(g)) :
              Rest(g, k - 1, w) = Share(Batches(g)[k], w) + Rest(g, k, w)
  <1> DEFINE N == Len(Batches(g))
             L == Len(g)
             f == Parts(g, w)
  <1>1. N \in Nat /\ L \in Nat /\ N = BatchCount(L)
    BY BatchesOfList, BatchBounds, LenProperties
  <1>2. \A i \in 1 .. L : f[i] \in Nat
    BY EntriesCount
  <1>3. \A k \in 0 .. N : Packed(g, k) \in 0 .. L
    <2> SUFFICES ASSUME NEW k \in 0 .. N PROVE Packed(g, k) \in 0 .. L
      OBVIOUS
    <2>1. CASE k = 0
      BY <1>1, <2>1, BatchBounds
    <2>2. CASE k # 0
      <3>1. k \in 1 .. BatchCount(Len(g))
        BY <1>1, <2>2
      <3>2. Packed(g, k) \in Nat /\ Packed(g, k) <= Len(g)
        BY <3>1, BatchBounds
      <3>3. QED
        BY <1>1, <3>2
    <2>3. QED
      BY <2>1, <2>2
  <1>4. \A k \in 0 .. N : Rest(g, k, w) = Share(SubSeq(g, Packed(g, k) + 1, L), w)
                          /\ Rest(g, k, w) \in Nat
    <2> SUFFICES ASSUME NEW k \in 0 .. N
                 PROVE  Rest(g, k, w) = Share(SubSeq(g, Packed(g, k) + 1, L), w)
                        /\ Rest(g, k, w) \in Nat
      OBVIOUS
    <2> DEFINE m == Packed(g, k) + 1
    <2>1. m \in 1 .. Len(g) + 1 /\ Len(g) \in m - 1 .. Len(g) /\ m - 1 = Packed(g, k)
      BY <1>1, <1>3
    <2> HIDE DEF m
    <2>2. /\ SubSeq(g, m, Len(g)) \in Seq(Entry)
          /\ Share(SubSeq(g, m, Len(g)), w) = Up(Parts(g, w), Len(g)) - Up(Parts(g, w), m - 1)
      BY <2>1, SumsOfPart
    <2>3. Share(SubSeq(g, m, Len(g)), w) \in Nat
      BY <2>2, SumsAreNat
    <2>4. QED
      BY <2>1, <2>2, <2>3 DEF Rest, m
  <1>5. Rest(g, 0, w) = Share(g, w)
    <2>1. Packed(g, 0) = 0
      BY BatchBounds
    <2>2. Up(f, 0) = 0 /\ Up(f, L) \in Nat
      <3>1. 1 .. 0 = {}
        OBVIOUS
      <3>2. Up(f, 0) = 0
        BY <3>1, SumOfNone DEF Up
      <3> HIDE DEF f
      <3>3. QED
        BY <1>1, <1>2, <3>2, UpIsNat
    <2>3. Share(g, w) = Up(f, L)
      BY SumsAreUp
    <2>4. QED
      BY <2>1, <2>2, <2>3 DEF Rest
  <1>6. ASSUME NEW k \in 1 .. N
        PROVE  Rest(g, k - 1, w) = Share(Batches(g)[k], w) + Rest(g, k, w)
    <2> DEFINE a == Packed(g, k - 1)
               b == Packed(g, k)
    <2>1. a \in Nat /\ b \in Nat /\ a < b /\ b <= L
      BY <1>1, BatchBounds
    <2>2. Batches(g)[k] = SubSeq(g, a + 1, b)
      BY <1>1, BatchesOfList
    <2> HIDE DEF a, b
    <2>3. PICK m \in Nat : m = a + 1
      BY <2>1
    <2>4. Share(SubSeq(g, a + 1, b), w) = Up(Parts(g, w), b) - Up(Parts(g, w), a)
      <3>1. m \in 1 .. Len(g) + 1 /\ b \in m - 1 .. Len(g) /\ m - 1 = a
        BY <1>1, <2>1, <2>3
      <3>2. Share(SubSeq(g, m, b), w) = Up(Parts(g, w), b) - Up(Parts(g, w), m - 1)
        BY <3>1, SumsOfPart
      <3>3. QED
        BY <2>3, <3>1, <3>2
    <2>5. Up(f, a) \in Nat /\ Up(f, b) \in Nat /\ Up(f, L) \in Nat
      <3>1. /\ \A i \in 1 .. a : f[i] \in Nat
            /\ \A i \in 1 .. b : f[i] \in Nat
        BY <1>1, <1>2, <2>1
      <3> HIDE DEF f
      <3>2. QED
        BY <1>1, <1>2, <2>1, <3>1, UpIsNat
    <2>6. Rest(g, k - 1, w) = Up(f, L) - Up(f, a) /\ Rest(g, k, w) = Up(f, L) - Up(f, b)
      BY DEF Rest, a, b
    <2>7. QED
      BY <2>2, <2>4, <2>5, <2>6
  <1>7. QED
    BY <1>4, <1>5, <1>6

-----------------------------------------------------------------------------
(* Handing out boxes: the invariant.                                        *)

Batch == [group : Seq(Entry), by : Nat \X Nat]

BetweenBatches ==
  [state : {"next"}, groups : Seq(Seq(Entry)), index : Nat \ {0},
   delivered : Nat, shown : Nat]

DuringBatch ==
  [state : {"sending"}, groups : Seq(Seq(Entry)), index : Nat \ {0},
   delivered : Nat, shown : Nat, batch : Batch, outcome : {"unknown", "ok", "failed"}]

HandOutTyped ==
  /\ owned \in Nat /\ received \in [Receivers -> Nat] /\ account \in SUBSET Receivers
  /\ wire \in SUBSET Batch
  /\ asked \in Seq(ListLine) /\ text \in Seq(ListLine)
  /\ run \in {Idle} \union BetweenBatches \union DuringBatch
  /\ sent \in Nat /\ charged \in Nat
  /\ faults \in Nat /\ timeouts \in Nat /\ spent \in Nat /\ opened \in Nat

\* An estimate was right for the accounts of an earlier moment.
CostIsOfBefore ==
  cost.state = "ready" =>
    /\ cost.key \subseteq Receivers
    /\ \E old \in SUBSET account :
         cost.total = AirdropCost(cost.key, Cardinality(cost.key \ old))

\* Of this run, only the batch that is waited for can still land.
WireIsOld ==
  /\ \A b \in wire : /\ b.by[1] <= timeouts /\ b.by[2] <= faults
                     /\ OfThisRun(b) => /\ run.state = "sending" /\ run.batch = b
                                        /\ run.outcome = "unknown"
  /\ run.state = "sending" => OfThisRun(run.batch)

\* The run r works through the list g.
WorksThrough(r, g) ==
  /\ g \in Seq(Entry) /\ Distinct(g)
  /\ r.groups = Batches(g)
  /\ r.index <= Len(r.groups) + 1
  /\ r.state = "sending" => /\ r.index <= Len(r.groups)
                            /\ r.batch.group = r.groups[r.index]

\* The batches of a run that are through, and those that have arrived.
Through(r) == IF r.state = "sending" /\ r.outcome # "unknown" THEN r.index ELSE r.index - 1
Arrived(r) == IF r.state = "sending" /\ r.outcome = "ok" THEN r.index ELSE r.index - 1

\* A run has cost a signature for each batch that is through, and the rent of
\* accounts that did not exist when the cost was estimated.
ChargedFor(r, g, paid, accounts) ==
  \E old \in SUBSET accounts :
    /\ r.shown = AccountRent * Cardinality(TargetsOf(g) \ old) + Fee * Len(r.groups)
    /\ paid <= AccountRent * Cardinality((accounts \intersect TargetsOf(g)) \ old) + Fee * Through(r)

\* What has arrived and the rest of the list is what was asked for.
ListKept(r, g) ==
  \A w \in Receivers : /\ received[w] + Rest(g, Arrived(r), w) = Due(w)
                     /\ Share(Recipients(text), w) = Rest(g, r.index - 1, w)

RunIsSound ==
  CardBusy => \E g : /\ WorksThrough(run, g)
                     /\ ChargedFor(run, g, charged, account)
                     /\ scene = "airdrop" => ListKept(run, g)

\* What the run says it delivered has been received, with the batch that landed.
DeliveredBy(r) ==
  r.delivered + (IF r.state = "sending" /\ r.outcome = "ok" THEN TotalOf(r.batch.group) ELSE 0)

SentIsReceived ==
  /\ sent <= SumFunction(received)
  /\ CardBusy => DeliveredBy(run) <= SumFunction(received)

\* Where no confirmation times out, only the batch waited for is on its way.
NothingElse ==
  scene = "airdrop" =>
    /\ wire # {} => run.state = "sending" /\ run.outcome = "unknown" /\ wire = {run.batch}
    /\ ~CardBusy => \A w \in Receivers : received[w] + Share(Recipients(text), w) = Due(w)

HandOutInv ==
  /\ HandOutTyped /\ CostIsOfBefore /\ WireIsOld /\ RunIsSound /\ SentIsReceived /\ NothingElse

-----------------------------------------------------------------------------
(* Handing out boxes: the cost of a run.                                    *)

\* Accounts that are opened meanwhile make nothing dearer.
LEMMA ChargeGrows ==
  ASSUME NEW r, NEW g \in Seq(Entry), NEW paid \in Nat, Through(r) \in Int,
         NEW A, NEW B, A \subseteq B, B \subseteq Receivers, ChargedFor(r, g, paid, A)
  PROVE  ChargedFor(r, g, paid, B)
  <1>1. PICK old \in SUBSET A :
          /\ r.shown = AccountRent * Cardinality(TargetsOf(g) \ old) + Fee * Len(r.groups)
          /\ paid <= AccountRent * Cardinality((A \intersect TargetsOf(g)) \ old) + Fee * Through(r)
    BY DEF ChargedFor
  <1> DEFINE S == (A \intersect TargetsOf(g)) \ old
             T == (B \intersect TargetsOf(g)) \ old
  <1>2. IsFiniteSet(T) /\ S \subseteq T
    <2>1. T \subseteq Receivers /\ IsFiniteSet(Receivers)
      BY AirdropAssumption
    <2> HIDE DEF T
    <2>2. IsFiniteSet(T)
      BY <2>1, FS_Subset
    <2>3. QED
      BY <2>2 DEF T
  <1> HIDE DEF S, T
  <1>3. IsFiniteSet(S) /\ Cardinality(S) <= Cardinality(T)
    BY <1>2, FS_Subset
  <1>4. Cardinality(S) \in Nat /\ Cardinality(T) \in Nat
    BY <1>2, <1>3, FS_CardinalityType
  <1>5. AccountRent \in Nat /\ Fee \in Nat
    BY AirdropAssumption
  <1>6. AccountRent * Cardinality(S) <= AccountRent * Cardinality(T)
    BY <1>3, <1>4, <1>5
  <1>7. paid <= AccountRent * Cardinality(T) + Fee * Through(r)
    <2>1. /\ AccountRent * Cardinality(S) \in Nat /\ AccountRent * Cardinality(T) \in Nat
          /\ Fee * Through(r) \in Int
      BY <1>4, <1>5
    <2>2. paid <= AccountRent * Cardinality(S) + Fee * Through(r)
      BY <1>1 DEF S
    <2>3. QED
      BY <1>6, <2>1, <2>2
  <1>8. QED
    BY <1>1, <1>7 DEF ChargedFor, T

\* A batch that lands costs its signature and the accounts it creates.
LEMMA ChargeLands ==
  ASSUME NEW r, NEW s, NEW g \in Seq(Entry), NEW paid \in Nat, NEW A \in SUBSET Receivers,
         NEW G, G \subseteq TargetsOf(g), ChargedFor(r, g, paid, A),
         s.shown = r.shown, s.groups = r.groups, Through(r) \in Int,
         Through(s) = Through(r) + 1
  PROVE  ChargedFor(s, g, paid + Fee + AccountRent * Cardinality(G \ A), A \union G)
  <1>1. PICK old \in SUBSET A :
          /\ r.shown = AccountRent * Cardinality(TargetsOf(g) \ old) + Fee * Len(r.groups)
          /\ paid <= AccountRent * Cardinality((A \intersect TargetsOf(g)) \ old) + Fee * Through(r)
    BY DEF ChargedFor
  <1> DEFINE S == (A \intersect TargetsOf(g)) \ old
             N == G \ A
             T == ((A \union G) \intersect TargetsOf(g)) \ old
  <1>2. T = S \union N /\ S \intersect N = {}
    OBVIOUS
  <1>3. IsFiniteSet(S) /\ IsFiniteSet(N)
    <2>1. IsFiniteSet(TargetsOf(g)) /\ S \in SUBSET TargetsOf(g) /\ N \in SUBSET TargetsOf(g)
      BY TargetsOfList
    <2> HIDE DEF S, N
    <2>2. QED
      BY <2>1, FS_Subset
  <1> HIDE DEF S, N, T
  <1>4. Cardinality(S) \in Nat /\ Cardinality(N) \in Nat
    BY <1>3, FS_CardinalityType
  <1>5. Cardinality(T) = Cardinality(S) + Cardinality(N)
    <2>1. Cardinality({}) = 0
      BY FS_EmptySet
    <2>2. Cardinality(S \union N) =
            Cardinality(S) + Cardinality(N) - Cardinality(S \intersect N)
      BY <1>3, FS_Union
    <2>3. Cardinality(T) = Cardinality(S \union N)
      BY <1>2
    <2>4. Cardinality(S \intersect N) = 0
      BY <1>2, <2>1
    <2>5. QED
      BY <1>4, <2>2, <2>3, <2>4
  <1>6. AccountRent \in Nat /\ Fee \in Nat
    BY AirdropAssumption
  <1>7. AccountRent * Cardinality(T) = AccountRent * Cardinality(S) + AccountRent * Cardinality(N)
    BY <1>4, <1>5, <1>6
  <1>8. Fee * Through(s) = Fee * Through(r) + Fee
    BY <1>6
  <1>9. /\ AccountRent * Cardinality(S) \in Nat /\ AccountRent * Cardinality(N) \in Nat
        /\ Fee * Through(r) \in Int
    BY <1>4, <1>6
  <1>10. paid <= AccountRent * Cardinality(S) + Fee * Through(r)
    BY <1>1 DEF S
  <1>11. paid + Fee + AccountRent * Cardinality(N) <= AccountRent * Cardinality(T) + Fee * Through(s)
    BY <1>6, <1>7, <1>8, <1>9, <1>10
  <1>12. old \in SUBSET (A \union G)
    BY <1>1
  <1>13. s.shown = AccountRent * Cardinality(TargetsOf(g) \ old) + Fee * Len(s.groups)
    BY <1>1
  <1>14. QED
    BY <1>11, <1>12, <1>13 DEF ChargedFor, N, T

\* What a run costs is never more than was shown.
LEMMA ChargeBound ==
  ASSUME NEW r, NEW g \in Seq(Entry), NEW paid \in Nat, NEW A \in SUBSET Receivers,
         ChargedFor(r, g, paid, A), Through(r) \in Int, Len(r.groups) \in Nat,
         Through(r) <= Len(r.groups)
  PROVE  paid <= r.shown
  <1>1. PICK old \in SUBSET A :
          /\ r.shown = AccountRent * Cardinality(TargetsOf(g) \ old) + Fee * Len(r.groups)
          /\ paid <= AccountRent * Cardinality((A \intersect TargetsOf(g)) \ old) + Fee * Through(r)
    BY DEF ChargedFor
  <1> DEFINE S == (A \intersect TargetsOf(g)) \ old
             T == TargetsOf(g) \ old
  <1>2. IsFiniteSet(T) /\ S \subseteq T
    <2>1. T \subseteq TargetsOf(g) /\ IsFiniteSet(TargetsOf(g))
      BY TargetsOfList
    <2> HIDE DEF T
    <2>2. IsFiniteSet(T)
      BY <2>1, FS_Subset
    <2>3. QED
      BY <2>2 DEF T
  <1> HIDE DEF S, T
  <1>3. IsFiniteSet(S) /\ Cardinality(S) <= Cardinality(T)
    BY <1>2, FS_Subset
  <1>4. Cardinality(S) \in Nat /\ Cardinality(T) \in Nat
    BY <1>2, <1>3, FS_CardinalityType
  <1>5. AccountRent \in Nat /\ Fee \in Nat
    BY AirdropAssumption
  <1>6. AccountRent * Cardinality(S) <= AccountRent * Cardinality(T)
    BY <1>3, <1>4, <1>5
  <1>7. Fee * Through(r) <= Fee * Len(r.groups)
    BY <1>5
  <1>8. /\ AccountRent * Cardinality(S) \in Nat /\ AccountRent * Cardinality(T) \in Nat
        /\ Fee * Through(r) \in Int /\ Fee * Len(r.groups) \in Nat
    BY <1>4, <1>5
  <1>9. /\ r.shown = AccountRent * Cardinality(T) + Fee * Len(r.groups)
        /\ paid <= AccountRent * Cardinality(S) + Fee * Through(r)
    BY <1>1 DEF S, T
  <1>10. QED
    BY <1>6, <1>7, <1>8, <1>9

-----------------------------------------------------------------------------
(* Handing out boxes: the invariant holds.                                  *)

LEMMA RunShape ==
  ASSUME HandOutTyped
  PROVE  /\ ~CardBusy <=> run = Idle
         /\ run.state = "next" => run \in BetweenBatches
         /\ run.state = "sending" => run \in DuringBatch
         /\ CardBusy => /\ run.state \in {"next", "sending"}
                        /\ run.groups \in Seq(Seq(Entry)) /\ run.index \in Nat \ {0}
                        /\ run.delivered \in Nat /\ run.shown \in Nat
                        /\ Through(run) \in Nat /\ Arrived(run) \in Nat
  <1>1. Idle.state = "idle"
    BY DEF Idle
  <1>2. CASE run = Idle
    BY <1>1, <1>2 DEF CardBusy
  <1>3. CASE run \in BetweenBatches
    <2>1. /\ run.state = "next" /\ run.groups \in Seq(Seq(Entry)) /\ run.index \in Nat \ {0}
          /\ run.delivered \in Nat /\ run.shown \in Nat
      BY <1>3 DEF BetweenBatches
    <2>2. QED
      BY <1>1, <1>3, <2>1 DEF CardBusy, Through, Arrived
  <1>4. CASE run \in DuringBatch
    <2>1. /\ run.state = "sending" /\ run.groups \in Seq(Seq(Entry)) /\ run.index \in Nat \ {0}
          /\ run.delivered \in Nat /\ run.shown \in Nat
      BY <1>4 DEF DuringBatch
    <2>2. QED
      BY <1>1, <1>4, <2>1 DEF CardBusy, Through, Arrived
  <1>5. QED
    BY <1>2, <1>3, <1>4 DEF HandOutTyped

\* What does not touch the run: the balance and the estimate are read, boxes are
\* spent elsewhere, a recipient opens an account, a transaction is dropped.
LEMMA KeepsRun ==
  ASSUME HandOutInv, owned' \in Nat, spent' \in Nat, opened' \in Nat,
         account \subseteq account', account' \subseteq Receivers, wire' \subseteq wire,
         UNCHANGED <<received, asked, text, run, sent, charged, faults, timeouts, scene>>,
         cost' = cost \/ CostIsOfBefore'
  PROVE  HandOutInv'
  <1>1. HandOutTyped'
    BY DEF HandOutInv, HandOutTyped
  <1>2. CostIsOfBefore'
    <2>1. CASE cost' = cost
      BY <2>1 DEF HandOutInv, CostIsOfBefore
    <2>2. QED
      BY <2>1
  <1>3. WireIsOld'
    BY DEF HandOutInv, WireIsOld, OfThisRun
  <1>4. RunIsSound'
    <2> SUFFICES ASSUME CardBusy
                 PROVE  \E g : /\ WorksThrough(run, g)
                               /\ ChargedFor(run, g, charged, account')
                               /\ scene = "airdrop" => ListKept(run, g)
      BY DEF RunIsSound, CardBusy, ListKept, Due
    <2>1. PICK g : /\ WorksThrough(run, g)
                   /\ ChargedFor(run, g, charged, account)
                   /\ scene = "airdrop" => ListKept(run, g)
      BY DEF HandOutInv, RunIsSound
    <2>2. g \in Seq(Entry) /\ charged \in Nat /\ Through(run) \in Int
      BY <2>1, RunShape DEF HandOutInv, HandOutTyped, WorksThrough
    <2>3. PICK B : B = account'
      OBVIOUS
    <2>4. ChargedFor(run, g, charged, B)
      BY <2>1, <2>2, <2>3, ChargeGrows
    <2>5. QED
      BY <2>1, <2>3, <2>4
  <1>5. SentIsReceived'
    BY DEF HandOutInv, SentIsReceived, CardBusy, DeliveredBy
  <1>6. NothingElse'
    <2>1. wire' # {} => wire' = wire \/ Cardinality(wire') # Cardinality(wire) \/ TRUE
      OBVIOUS
    <2>2. scene = "airdrop" /\ wire' # {} => wire' = wire
      BY DEF HandOutInv, NothingElse
    <2>3. QED
      BY <2>2 DEF HandOutInv, NothingElse, CardBusy, Due
  <1>7. QED
    BY <1>1, <1>2, <1>3, <1>4, <1>5, <1>6 DEF HandOutInv

\* What ends a run: a refusal, a failed transaction, a confirmation that does not
\* come, and the end of the list.
LEMMA StopsRun ==
  ASSUME HandOutInv, CardBusy, StopRun, faults' \in Nat, timeouts' \in Nat,
         \A b \in wire : /\ b.by[1] <= timeouts' /\ b.by[2] <= faults'
                         /\ b.by # <<timeouts', faults'>>,
         scene = "airdrop" => Arrived(run) = run.index - 1 /\ wire = {},
         UNCHANGED <<holdings, asked, text, cost, sent, charged, spent, opened, scene>>
  PROVE  HandOutInv'
  <1> USE DEF holdings
  <1>1. run' = Idle /\ Idle.state = "idle"
    BY DEF StopRun, Idle
  <1>2. ~CardBusy'
    BY <1>1 DEF CardBusy
  <1>3. HandOutTyped'
    BY <1>1 DEF HandOutInv, HandOutTyped
  <1>4. CostIsOfBefore'
    BY DEF HandOutInv, CostIsOfBefore
  <1>5. WireIsOld'
    BY <1>1 DEF WireIsOld, OfThisRun
  <1>6. RunIsSound' /\ SentIsReceived'
    BY <1>2 DEF HandOutInv, RunIsSound, SentIsReceived
  <1>7. NothingElse'
    <2> SUFFICES ASSUME scene = "airdrop", NEW w \in Receivers
                 PROVE  received[w] + Share(Recipients(text), w) = Due(w)
      BY DEF NothingElse, Due
    <2>1. PICK g : WorksThrough(run, g) /\ ListKept(run, g)
      BY DEF HandOutInv, RunIsSound
    <2>2. QED
      BY <2>1 DEF ListKept
  <1>8. QED
    BY <1>3, <1>4, <1>5, <1>6, <1>7 DEF HandOutInv

LEMMA RefuseKeeps == HandOutInv /\ Refuse /\ scene' = scene => HandOutInv'
  <1> SUFFICES ASSUME HandOutInv, Refuse, scene' = scene PROVE HandOutInv'
    OBVIOUS
  <1>1. run.state = "next" /\ CardBusy
    BY DEF Refuse, CardBusy
  <1>2. \A b \in wire : ~OfThisRun(b)
    BY <1>1 DEF HandOutInv, WireIsOld
  <1>3. faults \in Nat /\ timeouts \in Nat /\ timeouts' = timeouts
        /\ (faults' = faults \/ faults' = faults + 1)
    BY DEF Refuse, HandOutInv, HandOutTyped
  <1>4. \A b \in wire : b \in Batch /\ b.by[1] <= timeouts /\ b.by[2] <= faults
    BY DEF HandOutInv, HandOutTyped, WireIsOld
  <1>5. \A b \in wire : /\ b.by[1] <= timeouts' /\ b.by[2] <= faults'
                        /\ b.by # <<timeouts', faults'>>
    <2> SUFFICES ASSUME NEW b \in wire
                 PROVE  /\ b.by[1] <= timeouts' /\ b.by[2] <= faults'
                        /\ b.by # <<timeouts', faults'>>
      OBVIOUS
    <2>1. b.by[2] \in Nat /\ b.by[1] <= timeouts /\ b.by[2] <= faults
          /\ b.by # <<timeouts, faults>>
      BY <1>2, <1>4 DEF Batch, OfThisRun
    <2>2. CASE faults' = faults
      BY <1>3, <2>1, <2>2
    <2>3. CASE faults' = faults + 1
      <3>1. b.by[2] <= faults + 1 /\ b.by[2] # faults + 1
        BY <1>3, <2>1
      <3>2. b.by # <<timeouts, faults + 1>>
        BY <3>1
      <3>3. QED
        BY <1>3, <2>1, <2>3, <3>1, <3>2
    <2>4. QED
      BY <1>3, <2>2, <2>3
  <1>6. scene = "airdrop" => Arrived(run) = run.index - 1 /\ wire = {}
    BY <1>1 DEF HandOutInv, NothingElse, Arrived
  <1>7. faults' \in Nat /\ timeouts' \in Nat
    BY <1>3
  <1>8. StopRun /\ UNCHANGED <<holdings, asked, text, cost, sent, charged, spent, opened, scene>>
    BY DEF Refuse
  <1>9. QED
    BY <1>1, <1>5, <1>6, <1>7, <1>8, StopsRun

LEMMA FailKeeps == HandOutInv /\ Fail /\ scene' = scene => HandOutInv'
  <1> SUFFICES ASSUME HandOutInv, Fail, scene' = scene PROVE HandOutInv'
    OBVIOUS
  <1>1. run.state = "sending" /\ run.outcome = "failed" /\ CardBusy
    BY DEF Fail, CardBusy
  <1>2. faults' = faults /\ timeouts' = timeouts /\ faults' \in Nat /\ timeouts' \in Nat
    BY DEF Fail, bounds, HandOutInv, HandOutTyped
  <1>3. \A b \in wire : /\ b.by[1] <= timeouts' /\ b.by[2] <= faults'
                        /\ b.by # <<timeouts', faults'>>
    BY <1>1, <1>2 DEF HandOutInv, WireIsOld, OfThisRun
  <1>4. scene = "airdrop" => Arrived(run) = run.index - 1 /\ wire = {}
    BY <1>1 DEF HandOutInv, NothingElse, Arrived
  <1>5. StopRun /\ UNCHANGED <<holdings, asked, text, cost, sent, charged, spent, opened, scene>>
    BY DEF Fail, bounds
  <1>6. QED
    BY <1>1, <1>2, <1>3, <1>4, <1>5, StopsRun

LEMMA FinishKeeps == HandOutInv /\ Finish /\ scene' = scene => HandOutInv'
  <1> SUFFICES ASSUME HandOutInv, Finish, scene' = scene PROVE HandOutInv'
    OBVIOUS
  <1>1. run.state = "next" /\ CardBusy
    BY DEF Finish, CardBusy
  <1>2. faults' = faults /\ timeouts' = timeouts /\ faults' \in Nat /\ timeouts' \in Nat
    BY DEF Finish, bounds, HandOutInv, HandOutTyped
  <1>3. \A b \in wire : /\ b.by[1] <= timeouts' /\ b.by[2] <= faults'
                        /\ b.by # <<timeouts', faults'>>
    BY <1>1, <1>2 DEF HandOutInv, WireIsOld, OfThisRun
  <1>4. scene = "airdrop" => Arrived(run) = run.index - 1 /\ wire = {}
    BY <1>1 DEF HandOutInv, NothingElse, Arrived
  <1>5. StopRun /\ UNCHANGED <<holdings, asked, text, cost, sent, charged, spent, opened, scene>>
    BY DEF Finish, bounds
  <1>6. QED
    BY <1>1, <1>2, <1>3, <1>4, <1>5, StopsRun

\* A confirmation times out in the scenes that say nothing of the list.
LEMMA TimeOutKeeps ==
  HandOutInv /\ TimeOut /\ scene' = scene /\ scene # "airdrop" => HandOutInv'
  <1> SUFFICES ASSUME HandOutInv, TimeOut, scene' = scene, scene # "airdrop" PROVE HandOutInv'
    OBVIOUS
  <1>1. run.state = "sending" /\ CardBusy
    BY DEF TimeOut, CardBusy
  <1>2. /\ faults' = faults /\ timeouts' = timeouts + 1 /\ timeouts \in Nat
        /\ faults' \in Nat /\ timeouts' \in Nat
    BY DEF TimeOut, HandOutInv, HandOutTyped
  <1>3. \A b \in wire : /\ b.by[1] <= timeouts' /\ b.by[2] <= faults'
                        /\ b.by # <<timeouts', faults'>>
    <2> SUFFICES ASSUME NEW b \in wire
                 PROVE  /\ b.by[1] <= timeouts' /\ b.by[2] <= faults'
                        /\ b.by # <<timeouts', faults'>>
      OBVIOUS
    <2>1. b.by[1] \in Nat /\ b.by[1] <= timeouts /\ b.by[2] <= faults
      BY DEF HandOutInv, HandOutTyped, WireIsOld, Batch
    <2>2. b.by[1] <= timeouts + 1 /\ b.by[1] # timeouts + 1
      BY <1>2, <2>1
    <2>3. b.by # <<timeouts + 1, faults>>
      BY <2>2
    <2>4. QED
      BY <1>2, <2>1, <2>2, <2>3
  <1>4. StopRun /\ UNCHANGED <<holdings, asked, text, cost, sent, charged, spent, opened, scene>>
    BY DEF TimeOut
  <1>5. QED
    BY <1>1, <1>2, <1>3, <1>4, StopsRun

LEMMA NothingAsked ==
  ASSUME NEW w
  PROVE  SumFunction(Asks(<<>>, w)) = 0
  <1>1. <<>> \in Seq(ListLine) /\ Len(<<>>) = 0 /\ 1 .. 0 = {}
    OBVIOUS
  <1>2. SumFunction(Asks(<<>>, w)) = Up(Asks(<<>>, w), 0)
    BY <1>1, SumsAreUp
  <1>3. Up(Asks(<<>>, w), 0) = 0
    BY <1>1, SumOfNone DEF Up
  <1>4. QED
    BY <1>2, <1>3

LEMMA ReceivedIsNat ==
  ASSUME NEW before \in [Receivers -> Nat]
  PROVE  SumFunction(before) \in Nat
  <1>1. IsFiniteSet(Receivers) /\ DOMAIN before = Receivers /\ \A w \in Receivers : before[w] \in Nat
    BY AirdropAssumption
  <1>2. SumFunctionOnSet(before, Receivers) \in Nat
    BY <1>1, SumIsNat
  <1>3. QED
    BY <1>1, <1>2 DEF SumFunction

LEMMA HandOutStarts == SceneInit => HandOutInv
  <1> SUFFICES ASSUME AirdropInit PROVE HandOutInv
    BY DEF SceneInit
  <1> USE DEF AirdropInit
  <1>1. run = Idle /\ Idle.state = "idle" /\ ~CardBusy /\ cost.state = "none"
    BY DEF Idle, NotYet, CardBusy
  <1>2. <<>> \in Seq(ListLine)
    OBVIOUS
  <1>3. HandOutTyped
    <2>1. Boxes \in Nat
      BY AirdropAssumption
    <2>2. QED
      BY <1>2, <2>1 DEF HandOutTyped
  <1>4. SumFunction(received) \in Nat
    <2>1. received \in [Receivers -> Nat]
      OBVIOUS
    <2>2. QED
      BY <2>1, ReceivedIsNat
  <1>5. CostIsOfBefore /\ WireIsOld /\ RunIsSound
    BY <1>1 DEF CostIsOfBefore, WireIsOld, RunIsSound
  <1>6. SentIsReceived
    BY <1>1, <1>4 DEF SentIsReceived
  <1>7. NothingElse
    <2> SUFFICES ASSUME NEW w \in Receivers
                 PROVE  received[w] + Share(Recipients(text), w) = Due(w)
      BY DEF NothingElse
    <2>1. Share(Recipients(<<>>), w) = SumFunction(Asks(<<>>, w))
      BY <1>2, RecipientsAsk
    <2>2. Due(w) = SumFunction(Asks(<<>>, w))
      BY DEF Due, Asks
    <2>3. received[w] = 0 /\ text = <<>>
      OBVIOUS
    <2>4. QED
      BY <2>1, <2>2, <2>3, NothingAsked
  <1>8. QED
    BY <1>3, <1>5, <1>6, <1>7 DEF HandOutInv

\* The steps that leave the run and the list alone.
LEMMA AsideKeeps ==
  ASSUME HandOutInv, scene' = scene,
         \/ LoadBalance \/ LoadCost \/ SpendElsewhere
         \/ \E w \in Receivers : OpenAccount(w)
         \/ \E batch \in wire : Expire(batch)
  PROVE  HandOutInv'
  <1> USE DEF holdings, card, bounds
  <1>1. /\ owned \in Nat /\ account \subseteq Receivers /\ spent \in Nat /\ opened \in Nat
        /\ text \in Seq(ListLine)
    BY DEF HandOutInv, HandOutTyped
  <1>2. CASE LoadBalance
    BY <1>1, <1>2, KeepsRun DEF LoadBalance
  <1>3. CASE LoadCost
    <2>1. Addresses(text) \subseteq Receivers
      BY <1>1, RecipientsAsk, TargetsOfList DEF Addresses
    <2>2. /\ cost'.key = Addresses(text) /\ account' = account
          /\ cost'.total = AirdropCost(Addresses(text), Cardinality(Addresses(text) \ account))
      BY <1>3 DEF LoadCost
    <2>3. CostIsOfBefore'
      BY <2>1, <2>2 DEF CostIsOfBefore
    <2>4. QED
      BY <1>1, <1>3, <2>3, KeepsRun DEF LoadCost
  <1>4. CASE SpendElsewhere
    <2>1. owned' \in Nat /\ spent' \in Nat
      BY <1>1, <1>4 DEF SpendElsewhere
    <2>2. QED
      BY <1>1, <1>4, <2>1, KeepsRun DEF SpendElsewhere
  <1>5. ASSUME NEW w \in Receivers, OpenAccount(w) PROVE HandOutInv'
    <2>1. opened' \in Nat /\ account \subseteq account' /\ account' \subseteq Receivers
      BY <1>1, <1>5 DEF OpenAccount
    <2>2. QED
      BY <1>1, <1>5, <2>1, KeepsRun DEF OpenAccount
  <1>6. ASSUME NEW batch \in wire, Expire(batch) PROVE HandOutInv'
    <2>1. wire' \subseteq wire
      BY <1>6 DEF Expire
    <2>2. QED
      BY <1>1, <1>6, <2>1, KeepsRun DEF Expire
  <1>7. QED
    BY <1>2, <1>3, <1>4, <1>5, <1>6

\* The list is pasted where nothing was asked for and nothing has been received.
LEMMA PasteKeeps ==
  ASSUME HandOutInv, NEW list \in Lists, Paste(list), scene' = scene
  PROVE  HandOutInv'
  <1> USE DEF holdings, bounds
  <1>1. ~CardBusy /\ ~CardBusy' /\ run' = run /\ asked = <<>> /\ asked' = list /\ text' = list
    BY DEF Paste, CardBusy
  <1>2. list \in Seq(ListLine)
    BY AirdropAssumption
  <1>3. HandOutTyped'
    BY <1>2 DEF Paste, HandOutInv, HandOutTyped
  <1>4. CostIsOfBefore'
    BY DEF Paste, HandOutInv, CostIsOfBefore
  <1>5. WireIsOld'
    BY DEF Paste, HandOutInv, WireIsOld, OfThisRun
  <1>6. RunIsSound' /\ SentIsReceived'
    BY <1>1 DEF Paste, HandOutInv, RunIsSound, SentIsReceived
  <1>7. NothingElse'
    <2>1. wire' = wire /\ received' = received
      BY DEF Paste
    <2>2. scene = "airdrop" => wire = {}
      BY <1>1 DEF HandOutInv, NothingElse, CardBusy
    <2>3. ASSUME scene = "airdrop", NEW w \in Receivers
          PROVE  received[w] + Share(Recipients(list), w) = SumFunction(Asks(list, w))
      <3>1. received[w] + Share(Recipients(text), w) = Due(w)
        BY <1>1, <2>3 DEF HandOutInv, NothingElse
      <3>2. Due(w) = 0
        BY <1>1, NothingAsked DEF Due, Asks
      <3>3. received[w] \in Nat /\ Share(Recipients(text), w) \in Nat
        BY RecipientsAsk, SumsAreNat DEF HandOutInv, HandOutTyped
      <3>4. /\ Share(Recipients(list), w) = SumFunction(Asks(list, w))
            /\ Share(Recipients(list), w) \in Nat
        BY <1>2, RecipientsAsk, SumsAreNat
      <3>5. received[w] = 0
        BY <3>1, <3>2, <3>3
      <3>6. QED
        BY <3>4, <3>5
    <2>4. QED
      BY <1>1, <2>1, <2>2, <2>3 DEF NothingElse, Due, Asks
  <1>8. QED
    BY <1>3, <1>4, <1>5, <1>6, <1>7 DEF HandOutInv

\* A run starts with the list that the text field holds.
LEMMA SendKeeps ==
  ASSUME HandOutInv, Send, scene' = scene
  PROVE  HandOutInv'
  <1> USE DEF holdings, bounds
  <1> DEFINE g == Recipients(text)
  <1>1. ~CardBusy /\ CostReady /\ charged' = 0
        /\ run' = [state |-> "next", groups |-> Batches(g), index |-> 1,
                   delivered |-> 0, shown |-> cost.total]
    BY DEF Send
  <1>2. /\ g \in Seq(Entry) /\ Distinct(g)
        /\ \A w : Share(g, w) = SumFunction(Asks(text, w))
    BY RecipientsAsk DEF HandOutInv, HandOutTyped
  <1>3. /\ Batches(g) \in Seq(Seq(Entry)) /\ Len(Batches(g)) = BatchCount(Len(g))
        /\ BatchCount(Len(g)) \in Nat
    BY <1>2, BatchesOfList, BatchBounds
  <1>4. PICK old \in SUBSET account : cost.total = AirdropCost(cost.key, Cardinality(cost.key \ old))
    BY <1>1 DEF HandOutInv, CostIsOfBefore, CostReady
  <1>5. /\ TargetsOf(g) \subseteq Receivers /\ IsFiniteSet(TargetsOf(g))
        /\ Cardinality(TargetsOf(g)) = Len(g)
    BY <1>2, TargetsOfList
  <1>6. cost.key = TargetsOf(g)
    BY <1>1 DEF CostReady, Addresses
  <1> HIDE DEF g
  <1>7. cost.total = AccountRent * Cardinality(TargetsOf(g) \ old) + Fee * Len(Batches(g))
    BY <1>3, <1>4, <1>5, <1>6 DEF AirdropCost
  <1>8. /\ Cardinality(TargetsOf(g) \ old) \in Nat
        /\ Cardinality((account \intersect TargetsOf(g)) \ old) \in Nat
    <2>1. IsFiniteSet(TargetsOf(g) \ old)
      BY <1>5, FS_Subset
    <2>2. IsFiniteSet((account \intersect TargetsOf(g)) \ old)
      BY <1>5, FS_Subset
    <2>3. QED
      BY <2>1, <2>2, FS_CardinalityType
  <1>9. AccountRent \in Nat /\ Fee \in Nat
    BY AirdropAssumption
  <1>10. cost.total \in Nat
    <2>1. /\ AccountRent * Cardinality(TargetsOf(g) \ old) \in Nat
          /\ Fee * Len(Batches(g)) \in Nat
      BY <1>3, <1>8, <1>9
    <2>2. QED
      BY <1>7, <2>1
  <1>11. run' \in BetweenBatches
    BY <1>1, <1>3, <1>10 DEF BetweenBatches
  <1>12. HandOutTyped'
    BY <1>1, <1>11 DEF Send, HandOutInv, HandOutTyped
  <1>13. CostIsOfBefore'
    BY DEF Send, HandOutInv, CostIsOfBefore
  <1>14. WireIsOld'
    <2>1. run.state = "idle"
      BY <1>1 DEF CardBusy
    <2>2. \A b \in wire : ~OfThisRun(b)
      BY <2>1 DEF HandOutInv, WireIsOld
    <2>3. run'.state # "sending"
      BY <1>1
    <2>4. QED
      BY <2>2, <2>3 DEF Send, HandOutInv, WireIsOld, OfThisRun
  <1>15. RunIsSound'
    <2>1. /\ run'.state = "next" /\ run'.groups = Batches(g) /\ run'.index = 1
          /\ run'.shown = cost.total
      BY <1>1
    <2>2. WorksThrough(run', g)
      BY <1>2, <1>3, <2>1 DEF WorksThrough
    <2>3. ChargedFor(run', g, charged', account')
      <3>1. Through(run') = 0
        BY <2>1 DEF Through
      <3>2. charged' <= AccountRent * Cardinality((account \intersect TargetsOf(g)) \ old) + Fee * Through(run')
        BY <1>1, <1>8, <1>9, <3>1
      <3>3. run'.shown = AccountRent * Cardinality(TargetsOf(g) \ old) + Fee * Len(run'.groups)
        BY <1>7, <2>1
      <3>4. account' = account
        BY DEF Send
      <3>5. QED
        BY <3>2, <3>3, <3>4 DEF ChargedFor
    <2>4. ASSUME scene = "airdrop" PROVE ListKept(run, g)'
      <3>1. /\ Arrived(run') = 0 /\ run'.index - 1 = 0
        BY <2>1 DEF Arrived
      <3>2. \A w \in Receivers : received[w] + Share(g, w) = Due(w)
        BY <1>1, <2>4 DEF HandOutInv, NothingElse, g
      <3>3. \A w : Rest(g, 0, w) = Share(g, w)
        BY <1>2, RestOfList
      <3>4. UNCHANGED <<received, text, asked>> /\ g' = g
        BY DEF Send, g
      <3>5. \A w \in Receivers : received[w] + Rest(g, 0, w) = Due(w)
        BY <3>2, <3>3
      <3>6. \A w : Share(Recipients(text), w) = Rest(g, 0, w)
        BY <3>3 DEF g
      <3>7. QED
        BY <3>1, <3>4, <3>5, <3>6 DEF ListKept, Due
    <2>5. g' = g /\ scene' = scene
      BY DEF Send, g
    <2>6. QED
      BY <2>2, <2>3, <2>4, <2>5 DEF RunIsSound
  <1>16. SentIsReceived'
    <2>1. SumFunction(received) \in Nat
      BY ReceivedIsNat DEF HandOutInv, HandOutTyped
    <2>2. DeliveredBy(run') = 0
      BY <1>1 DEF DeliveredBy
    <2>3. received' = received /\ sent' = sent
      BY DEF Send
    <2>4. QED
      BY <2>1, <2>2, <2>3 DEF HandOutInv, SentIsReceived
  <1>17. NothingElse'
    <2>1. CardBusy' /\ wire' = wire
      BY <1>1 DEF Send, CardBusy
    <2>2. scene = "airdrop" => wire = {}
      BY <1>1 DEF HandOutInv, NothingElse, CardBusy
    <2>3. QED
      BY <2>1, <2>2 DEF NothingElse
  <1>18. QED
    BY <1>12, <1>13, <1>14, <1>15, <1>16, <1>17 DEF HandOutInv

LEMMA SendBatchKeeps ==
  ASSUME HandOutInv, SendBatch, scene' = scene
  PROVE  HandOutInv'
  <1> USE DEF bounds
  <1> DEFINE batch == [group |-> run.groups[run.index], by |-> <<timeouts, faults>>]
  <1>1. /\ run.state = "next" /\ run.index <= Len(run.groups)
        /\ wire' = wire \union {batch}
        /\ run' = [state |-> "sending", groups |-> run.groups, index |-> run.index,
                   delivered |-> run.delivered, shown |-> run.shown,
                   batch |-> batch, outcome |-> "unknown"]
    BY DEF SendBatch
  <1>2. run \in BetweenBatches /\ CardBusy /\ timeouts \in Nat /\ faults \in Nat
    BY <1>1, RunShape DEF HandOutInv, HandOutTyped, CardBusy
  <1>3. batch \in Batch
    <2>1. run.groups \in Seq(Seq(Entry)) /\ run.index \in Nat \ {0}
      BY <1>2 DEF BetweenBatches
    <2>2. run.index \in 1 .. Len(run.groups)
      BY <1>1, <2>1
    <2>3. run.groups[run.index] \in Seq(Entry)
      BY <2>1, <2>2, ElementOfSeq
    <2>4. QED
      BY <1>2, <2>3 DEF Batch
  <1>4. batch.by = <<timeouts, faults>> /\ batch.group = run.groups[run.index]
    OBVIOUS
  <1> HIDE DEF batch
  <1>5. run' \in DuringBatch
    BY <1>1, <1>2, <1>3 DEF BetweenBatches, DuringBatch
  <1>6. HandOutTyped'
    BY <1>1, <1>3, <1>5 DEF SendBatch, HandOutInv, HandOutTyped
  <1>7. CostIsOfBefore'
    BY DEF SendBatch, HandOutInv, CostIsOfBefore
  <1>8. WireIsOld'
    <2>1. \A b \in wire : ~OfThisRun(b) /\ b.by[1] <= timeouts /\ b.by[2] <= faults
      BY <1>1 DEF HandOutInv, WireIsOld
    <2>2. run'.state = "sending" /\ run'.batch = batch /\ run'.outcome = "unknown"
      BY <1>1
    <2>3. timeouts' = timeouts /\ faults' = faults
      BY DEF SendBatch
    <2>4. batch.by[1] <= timeouts /\ batch.by[2] <= faults
      BY <1>2, <1>4
    <2>5. QED
      BY <1>1, <1>4, <2>1, <2>2, <2>3, <2>4 DEF WireIsOld, OfThisRun
  <1>9. RunIsSound'
    <2>1. PICK g : /\ WorksThrough(run, g)
                   /\ ChargedFor(run, g, charged, account)
                   /\ scene = "airdrop" => ListKept(run, g)
      BY <1>2 DEF HandOutInv, RunIsSound
    <2>2. /\ run'.state = "sending" /\ run'.outcome = "unknown" /\ run'.batch = batch
          /\ run'.groups = run.groups /\ run'.index = run.index /\ run'.shown = run.shown
      BY <1>1
    <2>3. /\ Through(run') = Through(run) /\ Arrived(run') = Arrived(run)
      BY <1>1, <2>2 DEF Through, Arrived
    <2>4. UNCHANGED <<charged, account, received, text, asked>>
      BY DEF SendBatch
    <2>5. WorksThrough(run', g)
      BY <1>1, <1>4, <2>1, <2>2 DEF WorksThrough
    <2>6. ChargedFor(run', g, charged', account')
      BY <2>1, <2>2, <2>3, <2>4 DEF ChargedFor
    <2>7. ASSUME scene = "airdrop", NEW w \in Receivers
          PROVE  /\ received'[w] + Rest(g, Arrived(run'), w) = Due(w)'
                 /\ Share(Recipients(text'), w) = Rest(g, run'.index - 1, w)
      <3>1. /\ received[w] + Rest(g, Arrived(run), w) = Due(w)
            /\ Share(Recipients(text), w) = Rest(g, run.index - 1, w)
        BY <2>1, <2>7 DEF ListKept
      <3>2. Due(w)' = Due(w)
        BY <2>4 DEF Due
      <3>3. QED
        BY <2>2, <2>3, <2>4, <3>1, <3>2
    <2>8. QED
      BY <2>5, <2>6, <2>7 DEF RunIsSound, ListKept
  <1>10. SentIsReceived'
    <2>1. DeliveredBy(run') = DeliveredBy(run)
      BY <1>1 DEF DeliveredBy
    <2>2. QED
      BY <1>2, <2>1 DEF SendBatch, HandOutInv, SentIsReceived
  <1>11. NothingElse'
    <2>1. scene = "airdrop" => wire = {}
      BY <1>1 DEF HandOutInv, NothingElse
    <2>2. CardBusy' /\ run'.state = "sending" /\ run'.outcome = "unknown" /\ run'.batch = batch
      BY <1>1 DEF CardBusy
    <2>3. QED
      BY <1>1, <2>1, <2>2 DEF NothingElse
  <1>12. QED
    BY <1>6, <1>7, <1>8, <1>9, <1>10, <1>11 DEF HandOutInv

\* The confirmed batch leaves the text field.
LEMMA ConfirmKeeps ==
  ASSUME HandOutInv, Confirm, scene' = scene
  PROVE  HandOutInv'
  <1> USE DEF holdings, bounds
  <1>1. /\ run.state = "sending" /\ run.outcome = "ok" /\ CardBusy
        /\ sent' = run.delivered + TotalOf(run.batch.group)
        /\ text' = Lines(SubSeq(run.groups, run.index + 1, Len(run.groups)))
        /\ run' = [state |-> "next", groups |-> run.groups, index |-> run.index + 1,
                   delivered |-> sent', shown |-> run.shown]
    BY DEF Confirm, CardBusy, SentSoFar, RestFrom, NextGroup
  <1>2. run \in DuringBatch
    BY <1>1, RunShape DEF HandOutInv
  <1>3. /\ run.groups \in Seq(Seq(Entry)) /\ run.index \in Nat \ {0} /\ run.delivered \in Nat
        /\ run.shown \in Nat /\ run.batch \in Batch
    BY <1>2 DEF DuringBatch
  <1>4. TotalOf(run.batch.group) \in Nat
    BY <1>3, SumsAreNat DEF Batch
  <1>5. sent' \in Nat
    BY <1>1, <1>3, <1>4
  <1>6. PICK g : /\ WorksThrough(run, g)
                 /\ ChargedFor(run, g, charged, account)
                 /\ scene = "airdrop" => ListKept(run, g)
    BY <1>1 DEF HandOutInv, RunIsSound
  <1>7. /\ g \in Seq(Entry) /\ run.groups = Batches(g) /\ run.index <= Len(run.groups)
        /\ Len(run.groups) \in Nat
    BY <1>1, <1>3, <1>6 DEF WorksThrough
  <1>8. /\ text' \in Seq(ListLine)
        /\ \A w : SumFunction(Asks(text', w)) = Rest(g, run.index, w)
    <2>1. PICK k \in 1 .. Len(Batches(g)) + 1 : k = run.index + 1 /\ k - 1 = run.index
      BY <1>3, <1>7
    <2>2. text' = Lines(SubSeq(Batches(g), k, Len(Batches(g))))
      BY <1>1, <1>7, <2>1
    <2>3. QED
      BY <1>7, <2>1, <2>2, LinesOfRest DEF Rest
  <1>9. run' \in BetweenBatches
    BY <1>1, <1>3, <1>5 DEF BetweenBatches
  <1>10. HandOutTyped'
    BY <1>5, <1>8, <1>9 DEF Confirm, HandOutInv, HandOutTyped
  <1>11. CostIsOfBefore'
    BY DEF Confirm, HandOutInv, CostIsOfBefore
  <1>12. WireIsOld'
    <2>1. \A b \in wire : ~OfThisRun(b) /\ b.by[1] <= timeouts /\ b.by[2] <= faults
      BY <1>1 DEF HandOutInv, WireIsOld
    <2>2. run'.state # "sending"
      BY <1>1
    <2>3. QED
      BY <2>1, <2>2 DEF Confirm, WireIsOld, OfThisRun
  <1>13. RunIsSound'
    <2>1. /\ run'.state = "next" /\ run'.groups = run.groups /\ run'.index = run.index + 1
          /\ run'.shown = run.shown
      BY <1>1
    <2>2. Through(run') = Through(run) /\ Arrived(run') = Arrived(run) /\ Arrived(run) = run.index
      BY <1>1, <1>3, <2>1 DEF Through, Arrived
    <2>3. UNCHANGED <<charged, account, received, asked>>
      BY DEF Confirm
    <2>4. WorksThrough(run', g)
      BY <1>3, <1>6, <1>7, <2>1 DEF WorksThrough
    <2>5. ChargedFor(run', g, charged', account')
      BY <1>6, <2>1, <2>2, <2>3 DEF ChargedFor
    <2>6. ASSUME scene = "airdrop", NEW w \in Receivers
          PROVE  /\ received'[w] + Rest(g, Arrived(run'), w) = Due(w)'
                 /\ Share(Recipients(text'), w) = Rest(g, run'.index - 1, w)
      <3>1. received'[w] + Rest(g, Arrived(run'), w) = Due(w)'
        BY <1>6, <2>2, <2>3, <2>6 DEF ListKept, Due
      <3>2. PICK t \in Seq(ListLine) : t = text'
        BY <1>8
      <3>3. Share(Recipients(t), w) = SumFunction(Asks(t, w))
        BY RecipientsAsk
      <3>4. run'.index - 1 = run.index
        BY <1>3, <2>1
      <3>5. QED
        BY <1>8, <3>1, <3>2, <3>3, <3>4
    <2>7. QED
      BY <2>4, <2>5, <2>6 DEF RunIsSound, ListKept
  <1>14. SentIsReceived'
    <2>1. DeliveredBy(run) = sent' /\ DeliveredBy(run') = sent'
      BY <1>1, <1>5 DEF DeliveredBy
    <2>2. received' = received
      BY DEF Confirm
    <2>3. QED
      BY <1>1, <2>1, <2>2 DEF HandOutInv, SentIsReceived
  <1>15. NothingElse'
    <2>1. scene = "airdrop" => wire = {}
      BY <1>1 DEF HandOutInv, NothingElse
    <2>2. CardBusy' /\ wire' = wire
      BY <1>1 DEF Confirm, CardBusy
    <2>3. QED
      BY <2>1, <2>2 DEF NothingElse
  <1>16. QED
    BY <1>10, <1>11, <1>12, <1>13, <1>14, <1>15 DEF HandOutInv

\* A transaction that does not belong to the run lands after it was given up.
LEMMA LateLandKeeps ==
  ASSUME HandOutInv, NEW b \in wire, Land(b), scene' = scene,
         ~(run.state = "sending" /\ run.batch = b)
  PROVE  HandOutInv'
  <1> USE DEF bounds
  <1>1. /\ run' = run /\ wire' = wire \ {b} /\ charged' = charged
        /\ UNCHANGED <<asked, text, balance, cost, sent, faults, timeouts, spent, opened>>
    <2>1. ~OfThisRun(b)
      BY DEF HandOutInv, WireIsOld
    <2>2. \A S : ChargeOf(b, S) = 0
      BY <2>1 DEF ChargeOf
    <2>3. charged \in Nat
      BY DEF HandOutInv, HandOutTyped
    <2>4. QED
      BY <2>2, <2>3 DEF Land
  <1>2. b.group \in Seq(Entry) /\ TotalOf(b.group) \in Nat /\ \A w : Share(b.group, w) \in Nat
    BY SumsAreNat DEF HandOutInv, HandOutTyped, Batch
  <1>3. owned \in Nat /\ received \in [Receivers -> Nat] /\ account \in SUBSET Receivers
    BY DEF HandOutInv, HandOutTyped
  <1>4. /\ owned' \in Nat /\ received' \in [Receivers -> Nat]
        /\ account \subseteq account' /\ account' \subseteq Receivers
        /\ SumFunction(received) <= SumFunction(received')
    <2>1. SumFunction(received) \in Nat
      BY <1>3, ReceivedIsNat
    <2>2. CASE Covered(b)
      <3>1. /\ owned' = owned - TotalOf(b.group) /\ TotalOf(b.group) <= owned
            /\ received' = [w \in Receivers |-> received[w] + Share(b.group, w)]
            /\ account' = account \union TargetsOf(b.group)
        BY <2>2 DEF Land, Covered
      <3>2. owned' \in Nat
        BY <1>2, <1>3, <3>1
      <3>3. received' \in [Receivers -> Nat]
        BY <1>2, <1>3, <3>1
      <3>4. TargetsOf(b.group) \subseteq Receivers
        BY <1>2, TargetsOfList
      <3>5. SumFunction(received') = SumFunction(received) + TotalOf(b.group)
        BY <1>2, <1>3, <3>1, TotalIsReceived
      <3>6. SumFunction(received) <= SumFunction(received')
        BY <1>2, <2>1, <3>5
      <3>7. QED
        BY <1>3, <3>1, <3>2, <3>3, <3>4, <3>6
    <2>3. CASE ~Covered(b)
      BY <1>3, <2>1, <2>3 DEF Land
    <2>4. QED
      BY <2>2, <2>3
  <1>5. HandOutTyped'
    BY <1>1, <1>4 DEF HandOutInv, HandOutTyped
  <1>6. CostIsOfBefore'
    BY <1>1, <1>4 DEF HandOutInv, CostIsOfBefore
  <1>7. WireIsOld'
    BY <1>1 DEF HandOutInv, WireIsOld, OfThisRun
  <1>8. scene # "airdrop"
    BY DEF HandOutInv, NothingElse
  <1>9. RunIsSound'
    <2> SUFFICES ASSUME CardBusy
                 PROVE  \E g : WorksThrough(run, g) /\ ChargedFor(run, g, charged, account')
      BY <1>1, <1>8 DEF RunIsSound, CardBusy
    <2>1. PICK g : WorksThrough(run, g) /\ ChargedFor(run, g, charged, account)
      BY DEF HandOutInv, RunIsSound
    <2>2. g \in Seq(Entry) /\ charged \in Nat /\ Through(run) \in Int
      BY <2>1, RunShape DEF HandOutInv, HandOutTyped, WorksThrough
    <2>3. PICK B : B = account'
      OBVIOUS
    <2>4. ChargedFor(run, g, charged, B)
      BY <1>4, <2>1, <2>2, <2>3, ChargeGrows
    <2>5. QED
      BY <2>1, <2>3, <2>4
  <1>10. SentIsReceived'
    <2>1. sent \in Nat /\ SumFunction(received) \in Nat
      BY <1>3, ReceivedIsNat DEF HandOutInv, HandOutTyped
    <2>2. PICK total \in Nat : total = SumFunction(received')
      BY <1>4, ReceivedIsNat
    <2>3. SumFunction(received) <= total
      BY <1>4, <2>2
    <2>4. sent <= SumFunction(received) /\ (CardBusy => DeliveredBy(run) <= SumFunction(received))
      BY DEF HandOutInv, SentIsReceived
    <2>5. CardBusy => DeliveredBy(run) \in Int
      <3>1. CardBusy => run.delivered \in Nat
        BY RunShape DEF HandOutInv
      <3>2. run.state = "sending" => TotalOf(run.batch.group) \in Nat
        <4> SUFFICES ASSUME run.state = "sending" PROVE TotalOf(run.batch.group) \in Nat
          OBVIOUS
        <4>1. run.batch.group \in Seq(Entry)
          BY RunShape DEF HandOutInv, DuringBatch, Batch
        <4>2. QED
          BY <4>1, SumsAreNat
      <3>3. QED
        BY <3>1, <3>2 DEF DeliveredBy
    <2>6. sent <= total /\ (CardBusy => DeliveredBy(run) <= total)
      BY <2>1, <2>3, <2>4, <2>5
    <2>7. QED
      BY <1>1, <2>2, <2>6 DEF SentIsReceived, CardBusy
  <1>11. NothingElse'
    BY <1>8 DEF NothingElse
  <1>12. QED
    BY <1>5, <1>6, <1>7, <1>9, <1>10, <1>11 DEF HandOutInv

\* The transaction that the page waits for lands with all of its boxes.
LEMMA CoveredLandKeeps ==
  ASSUME HandOutInv, NEW b \in wire, Land(b), scene' = scene,
         run.state = "sending", run.batch = b, Covered(b)
  PROVE  HandOutInv'
  <1> USE DEF bounds
  <1>1. /\ OfThisRun(b) /\ run.outcome = "unknown" /\ CardBusy
        /\ run \in DuringBatch
    BY RunShape DEF HandOutInv, WireIsOld, CardBusy
  <1>2. /\ run' = [run EXCEPT !.outcome = "ok"] /\ wire' = wire \ {b}
        /\ charged' = charged + (Fee + AccountRent * Cardinality(TargetsOf(b.group) \ account))
        /\ owned' = owned - TotalOf(b.group) /\ TotalOf(b.group) <= owned
        /\ received' = [w \in Receivers |-> received[w] + Share(b.group, w)]
        /\ account' = account \union TargetsOf(b.group)
        /\ UNCHANGED <<asked, text, balance, cost, sent, faults, timeouts, spent, opened>>
    BY <1>1 DEF Land, Covered, ChargeOf
  <1>3. /\ run'.state = "sending" /\ run'.outcome = "ok" /\ run'.batch = b
        /\ run'.groups = run.groups /\ run'.index = run.index /\ run'.shown = run.shown
        /\ run'.delivered = run.delivered /\ run' \in DuringBatch
    BY <1>1, <1>2 DEF DuringBatch
  <1>4. b.group \in Seq(Entry) /\ TotalOf(b.group) \in Nat /\ \A w : Share(b.group, w) \in Nat
    BY SumsAreNat DEF HandOutInv, HandOutTyped, Batch
  <1>5. /\ owned \in Nat /\ received \in [Receivers -> Nat] /\ account \in SUBSET Receivers
        /\ charged \in Nat
    BY DEF HandOutInv, HandOutTyped
  <1>6. TargetsOf(b.group) \subseteq Receivers /\ IsFiniteSet(TargetsOf(b.group))
    BY <1>4, TargetsOfList
  <1>7. AccountRent \in Nat /\ Fee \in Nat
    BY AirdropAssumption
  <1>8. AccountRent * Cardinality(TargetsOf(b.group) \ account) \in Nat
    <2>1. IsFiniteSet(TargetsOf(b.group) \ account)
      BY <1>6, FS_Subset
    <2>2. Cardinality(TargetsOf(b.group) \ account) \in Nat
      BY <2>1, FS_CardinalityType
    <2>3. QED
      BY <1>7, <2>2
  <1>9. HandOutTyped'
    <2>1. owned' \in Nat
      BY <1>2, <1>4, <1>5
    <2>2. received' \in [Receivers -> Nat]
      BY <1>2, <1>4, <1>5
    <2>3. charged' \in Nat
      BY <1>2, <1>5, <1>7, <1>8
    <2>4. account' \in SUBSET Receivers
      BY <1>2, <1>5, <1>6
    <2>5. QED
      BY <1>2, <1>3, <2>1, <2>2, <2>3, <2>4 DEF HandOutInv, HandOutTyped
  <1>10. CostIsOfBefore'
    BY <1>2 DEF HandOutInv, CostIsOfBefore
  <1>11. WireIsOld'
    BY <1>1, <1>2, <1>3 DEF HandOutInv, WireIsOld, OfThisRun
  <1>12. PICK g : /\ WorksThrough(run, g)
                  /\ ChargedFor(run, g, charged, account)
                  /\ scene = "airdrop" => ListKept(run, g)
    BY <1>1 DEF HandOutInv, RunIsSound
  <1>13. /\ g \in Seq(Entry) /\ run.groups = Batches(g) /\ run.index \in 1 .. Len(Batches(g))
         /\ b.group = Batches(g)[run.index]
    BY <1>1, <1>12 DEF WorksThrough, DuringBatch
  <1>14. \A w : Rest(g, run.index - 1, w) = Share(b.group, w) + Rest(g, run.index, w)
                /\ Rest(g, run.index, w) \in Nat
    <2>1. PICK k \in 1 .. Len(Batches(g)) : k = run.index
      BY <1>13
    <2>2. k \in 0 .. Len(Batches(g))
      BY <2>1
    <2>3. \A w : /\ Rest(g, k - 1, w) = Share(Batches(g)[k], w) + Rest(g, k, w)
                 /\ Rest(g, k, w) \in Nat
      BY <1>13, <2>2, RestOfList
    <2>4. QED
      BY <1>13, <2>1, <2>3
  <1>15. RunIsSound'
    <2>1. WorksThrough(run', g)
      BY <1>3, <1>12 DEF WorksThrough
    <2>2. /\ Through(run) = run.index - 1 /\ Through(run') = run.index
          /\ Arrived(run) = run.index - 1 /\ Arrived(run') = run.index
      BY <1>1, <1>3 DEF Through, Arrived
    <2>3. ChargedFor(run', g, charged', account')
      <3>1. TargetsOf(b.group) \subseteq TargetsOf(g)
        <4>1. Batches(g) \in Seq(Seq(Entry)) /\ Len(Batches(g)) = BatchCount(Len(g))
              /\ BatchCount(Len(g)) \in Nat
          BY <1>13, BatchesOfList, BatchBounds
        <4>2. b.group = SubSeq(g, Packed(g, run.index - 1) + 1, Packed(g, run.index))
          BY <1>13, <4>1, BatchesOfList
        <4>3. /\ Packed(g, run.index - 1) \in Nat /\ Packed(g, run.index) \in Nat
              /\ Packed(g, run.index - 1) < Packed(g, run.index)
              /\ Packed(g, run.index) <= Len(g)
          BY <1>13, <4>1, BatchBounds
        <4>4. PICK m \in 1 .. Len(g) + 1 : m = Packed(g, run.index - 1) + 1
          BY <1>13, <4>3, LenProperties
        <4>5. PICK n \in m - 1 .. Len(g) : n = Packed(g, run.index)
          BY <1>13, <4>3, <4>4, LenProperties
        <4>6. /\ b.group = SubSeq(g, m, n) /\ Len(SubSeq(g, m, n)) = n - m + 1
              /\ \A i \in 1 .. n - m + 1 : SubSeq(g, m, n)[i] = g[m + i - 1]
          BY <1>13, <4>2, <4>4, <4>5, SumsOfPart
        <4>7. /\ DOMAIN b.group = 1 .. Len(b.group) /\ DOMAIN g = 1 .. Len(g)
              /\ Len(g) \in Nat
          BY <1>4, <1>13, LenProperties
        <4>8. \A i \in DOMAIN b.group : \E j \in DOMAIN g : b.group[i] = g[j]
          <5> SUFFICES ASSUME NEW i \in DOMAIN b.group
                       PROVE  \E j \in DOMAIN g : b.group[i] = g[j]
            OBVIOUS
          <5>1. i \in 1 .. n - m + 1
            BY <4>6, <4>7
          <5>2. b.group[i] = g[m + i - 1]
            BY <4>6, <5>1
          <5>3. m + i - 1 \in 1 .. Len(g)
            BY <4>4, <4>5, <4>7, <5>1
          <5>4. QED
            BY <4>7, <5>2, <5>3
        <4>9. QED
          BY <4>8 DEF TargetsOf, ToSet
      <3>2. PICK s : s = run'
        OBVIOUS
      <3>3. /\ s.shown = run.shown /\ s.groups = run.groups
            /\ Through(run) \in Int /\ Through(s) = Through(run) + 1
        <4>1. run.index \in Nat
          BY <1>13
        <4>2. QED
          BY <1>3, <2>2, <3>2, <4>1
      <3>4. ChargedFor(s, g, charged + Fee + AccountRent * Cardinality(TargetsOf(b.group) \ account),
                       account \union TargetsOf(b.group))
        BY <1>5, <1>12, <1>13, <3>1, <3>3, ChargeLands
      <3>5. charged' = charged + Fee + AccountRent * Cardinality(TargetsOf(b.group) \ account)
        BY <1>2, <1>5, <1>7, <1>8
      <3>6. QED
        BY <1>2, <3>2, <3>4, <3>5
    <2>4. ASSUME scene = "airdrop", NEW w \in Receivers
          PROVE  /\ received'[w] + Rest(g, Arrived(run'), w) = Due(w)'
                 /\ Share(Recipients(text'), w) = Rest(g, run'.index - 1, w)
      <3>1. /\ received[w] + Rest(g, run.index - 1, w) = Due(w)
            /\ Share(Recipients(text), w) = Rest(g, run.index - 1, w)
        BY <1>12, <2>2, <2>4 DEF ListKept
      <3>2. Due(w)' = Due(w)
        BY <1>2 DEF Due
      <3>3. received'[w] = received[w] + Share(b.group, w)
        BY <1>2
      <3>4. received[w] \in Nat /\ Share(b.group, w) \in Nat
        BY <1>4, <1>5
      <3>5. received'[w] + Rest(g, run.index, w) = Due(w)
        BY <1>14, <3>1, <3>3, <3>4
      <3>6. QED
        BY <1>2, <1>3, <2>2, <3>1, <3>2, <3>5
    <2>5. QED
      BY <2>1, <2>3, <2>4 DEF RunIsSound, ListKept
  <1>16. SentIsReceived'
    <2>1. sent \in Nat /\ SumFunction(received) \in Nat
      BY <1>5, ReceivedIsNat DEF HandOutInv, HandOutTyped
    <2>2. SumFunction(received') = SumFunction(received) + TotalOf(b.group)
      BY <1>2, <1>4, <1>5, TotalIsReceived
    <2>3. run.delivered \in Nat
      BY <1>1 DEF DuringBatch
    <2>4. sent <= SumFunction(received) /\ run.delivered <= SumFunction(received)
      BY <1>1, <2>3 DEF HandOutInv, SentIsReceived, DeliveredBy
    <2>5. DeliveredBy(run') = run.delivered + TotalOf(b.group)
      BY <1>3 DEF DeliveredBy
    <2>6. sent' = sent
      BY <1>2
    <2>7. QED
      BY <1>4, <2>1, <2>2, <2>3, <2>4, <2>5, <2>6 DEF SentIsReceived
  <1>17. NothingElse'
    <2>1. scene = "airdrop" => wire = {b}
      BY DEF HandOutInv, NothingElse
    <2>2. CardBusy'
      BY <1>3 DEF CardBusy
    <2>3. QED
      BY <1>2, <2>1, <2>2 DEF NothingElse
  <1>18. QED
    BY <1>9, <1>10, <1>11, <1>15, <1>16, <1>17 DEF HandOutInv

\* The transaction that the page waits for fails on the chain.
LEMMA UncoveredLandKeeps ==
  ASSUME HandOutInv, NEW b \in wire, Land(b), scene' = scene,
         run.state = "sending", run.batch = b, ~Covered(b)
  PROVE  HandOutInv'
  <1> USE DEF bounds
  <1>1. /\ OfThisRun(b) /\ run.outcome = "unknown" /\ CardBusy
        /\ run \in DuringBatch
    BY RunShape DEF HandOutInv, WireIsOld, CardBusy
  <1>2. Fee \in Nat /\ AccountRent \in Nat
    BY AirdropAssumption
  <1>3. /\ run' = [run EXCEPT !.outcome = "failed"] /\ wire' = wire \ {b}
        /\ UNCHANGED <<owned, received, account, asked, text, balance, cost, sent,
                       faults, timeouts, spent, opened>>
        /\ charged' = charged + (Fee + AccountRent * Cardinality({}))
    BY <1>1 DEF Land, ChargeOf
  <1>4. charged \in Nat /\ charged' = charged + Fee /\ charged' \in Nat
    <2>1. Cardinality({}) = 0
      BY FS_EmptySet
    <2>2. charged \in Nat
      BY DEF HandOutInv, HandOutTyped
    <2>3. AccountRent * Cardinality({}) = 0
      BY <1>2, <2>1
    <2>4. QED
      BY <1>2, <1>3, <2>2, <2>3
  <1>5. /\ run'.state = "sending" /\ run'.outcome = "failed" /\ run'.batch = b
        /\ run'.groups = run.groups /\ run'.index = run.index /\ run'.shown = run.shown
        /\ run'.delivered = run.delivered /\ run' \in DuringBatch
    BY <1>1, <1>3 DEF DuringBatch
  <1>6. HandOutTyped'
    BY <1>3, <1>4, <1>5 DEF HandOutInv, HandOutTyped
  <1>7. CostIsOfBefore'
    BY <1>3 DEF HandOutInv, CostIsOfBefore
  <1>8. WireIsOld'
    BY <1>1, <1>3, <1>5 DEF HandOutInv, WireIsOld, OfThisRun
  <1>9. PICK g : /\ WorksThrough(run, g)
                 /\ ChargedFor(run, g, charged, account)
                 /\ scene = "airdrop" => ListKept(run, g)
    BY <1>1 DEF HandOutInv, RunIsSound
  <1>10. RunIsSound'
    <2>1. WorksThrough(run', g)
      BY <1>1, <1>5, <1>9 DEF WorksThrough
    <2>2. /\ Through(run) = run.index - 1 /\ Through(run') = run.index
          /\ Arrived(run) = run.index - 1 /\ Arrived(run') = run.index - 1
      BY <1>1, <1>5 DEF Through, Arrived
    <2>3. ChargedFor(run', g, charged', account')
      <3>1. PICK old \in SUBSET account :
              /\ run.shown = AccountRent * Cardinality(TargetsOf(g) \ old) + Fee * Len(run.groups)
              /\ charged <= AccountRent * Cardinality((account \intersect TargetsOf(g)) \ old)
                            + Fee * (run.index - 1)
        BY <1>9, <2>2 DEF ChargedFor
      <3> DEFINE S == (account \intersect TargetsOf(g)) \ old
      <3>2. Cardinality(S) \in Nat
        <4>1. g \in Seq(Entry)
          BY <1>9 DEF WorksThrough
        <4>2. IsFiniteSet(TargetsOf(g)) /\ S \subseteq TargetsOf(g)
          BY <4>1, TargetsOfList
        <4> HIDE DEF S
        <4>3. QED
          BY <4>2, FS_Subset, FS_CardinalityType
      <3> HIDE DEF S
      <3>3. run.index \in Nat
        BY <1>1 DEF DuringBatch
      <3>4. /\ AccountRent * Cardinality(S) \in Nat /\ Fee * (run.index - 1) \in Int
            /\ Fee * run.index = Fee * (run.index - 1) + Fee
        BY <1>2, <3>2, <3>3
      <3>5. charged <= AccountRent * Cardinality(S) + Fee * (run.index - 1)
        BY <3>1 DEF S
      <3>6. charged' <= AccountRent * Cardinality(S) + Fee * run.index
        BY <1>2, <1>4, <3>4, <3>5
      <3>7. run'.shown = AccountRent * Cardinality(TargetsOf(g) \ old) + Fee * Len(run'.groups)
        BY <1>5, <3>1
      <3>8. account' = account
        BY <1>3
      <3>9. QED
        BY <2>2, <3>6, <3>7, <3>8 DEF ChargedFor, S
    <2>4. ASSUME scene = "airdrop", NEW w \in Receivers
          PROVE  /\ received'[w] + Rest(g, Arrived(run'), w) = Due(w)'
                 /\ Share(Recipients(text'), w) = Rest(g, run'.index - 1, w)
      <3>1. /\ received[w] + Rest(g, run.index - 1, w) = Due(w)
            /\ Share(Recipients(text), w) = Rest(g, run.index - 1, w)
        BY <1>9, <2>2, <2>4 DEF ListKept
      <3>2. Due(w)' = Due(w)
        BY <1>3 DEF Due
      <3>3. QED
        BY <1>3, <1>5, <2>2, <3>1, <3>2
    <2>5. QED
      BY <2>1, <2>3, <2>4 DEF RunIsSound, ListKept
  <1>11. SentIsReceived'
    <2>1. DeliveredBy(run') = DeliveredBy(run)
      BY <1>1, <1>5 DEF DeliveredBy
    <2>2. QED
      BY <1>1, <1>3, <2>1 DEF HandOutInv, SentIsReceived
  <1>12. NothingElse'
    <2>1. scene = "airdrop" => wire = {b}
      BY DEF HandOutInv, NothingElse
    <2>2. CardBusy'
      BY <1>5 DEF CardBusy
    <2>3. QED
      BY <1>3, <2>1, <2>2 DEF NothingElse
  <1>13. QED
    BY <1>6, <1>7, <1>8, <1>10, <1>11, <1>12 DEF HandOutInv

\* Every step of the card and of the chain; in the scene that speaks of the list,
\* no confirmation times out.
LEMMA HandOutSteps ==
  ASSUME HandOutInv, AirdropNext, scene' = scene,
         scene = "airdrop" => timeouts' = timeouts
  PROVE  HandOutInv'
  <1>1. ASSUME NEW b \in wire, Land(b) PROVE HandOutInv'
    BY <1>1, LateLandKeeps, CoveredLandKeeps, UncoveredLandKeeps
  <1>2. CASE \/ LoadBalance \/ LoadCost \/ SpendElsewhere
             \/ \E w \in Receivers : OpenAccount(w)
             \/ \E batch \in wire : Expire(batch)
    BY <1>2, AsideKeeps
  <1>3. ASSUME NEW list \in Lists, Paste(list) PROVE HandOutInv'
    BY <1>3, PasteKeeps
  <1>4. CASE Send
    BY <1>4, SendKeeps
  <1>5. CASE SendBatch
    BY <1>5, SendBatchKeeps
  <1>6. CASE Confirm
    BY <1>6, ConfirmKeeps
  <1>7. CASE Fail
    BY <1>7, FailKeeps
  <1>8. CASE Finish
    BY <1>8, FinishKeeps
  <1>9. CASE Refuse
    BY <1>9, RefuseKeeps
  <1>10. CASE TimeOut
    <2>1. timeouts \in Nat /\ timeouts' = timeouts + 1
      BY <1>10 DEF TimeOut, HandOutInv, HandOutTyped
    <2>2. scene # "airdrop"
      BY <2>1
    <2>3. QED
      BY <1>10, <2>2, TimeOutKeeps
  <1>11. QED
    BY <1>1, <1>2, <1>3, <1>4, <1>5, <1>6, <1>7, <1>8, <1>9, <1>10 DEF AirdropNext, PageStep

LEMMA HandOutKeeps == HandOutInv /\ [SceneNext]_everything => HandOutInv'
  <1> SUFFICES ASSUME HandOutInv, [SceneNext]_everything PROVE HandOutInv'
    OBVIOUS
  <1>1. CASE HandsOut
    BY <1>1, HandOutSteps DEF HandsOut
  <1>2. CASE UNCHANGED <<scene, airdropVars>>
    <2>1. /\ owned \in Nat /\ account \subseteq Receivers /\ spent \in Nat /\ opened \in Nat
      BY DEF HandOutInv, HandOutTyped
    <2>2. QED
      BY <1>2, <2>1, KeepsRun DEF airdropVars, holdings, card, bounds
  <1>3. QED
    BY <1>1, <1>2 DEF SceneNext, everything

\* What the invariant says of the card.
LEMMA HandOutIsSound == HandOutInv => AirdropSound
  <1> SUFFICES ASSUME HandOutInv PROVE AirdropSound
    OBVIOUS
  <1>1. AirdropTypeOK
    <2>1. run.state \in {"idle", "next", "sending"}
      BY RunShape DEF HandOutInv, CardBusy
    <2>2. QED
      BY <2>1 DEF HandOutInv, HandOutTyped, AirdropTypeOK
  <1>2. CostsAtMostShown
    <2> SUFFICES ASSUME CardBusy PROVE charged <= run.shown
      BY DEF CostsAtMostShown
    <2>1. PICK g : WorksThrough(run, g) /\ ChargedFor(run, g, charged, account)
      BY DEF HandOutInv, RunIsSound
    <2>2. /\ run.groups \in Seq(Seq(Entry)) /\ run.index \in Nat \ {0} /\ Through(run) \in Nat
          /\ run.state \in {"next", "sending"}
      BY RunShape DEF HandOutInv
    <2>3. Len(run.groups) \in Nat
      BY <2>2, LenProperties
    <2>4. Through(run) <= Len(run.groups)
      BY <2>1, <2>2, <2>3 DEF WorksThrough, Through
    <2>5. g \in Seq(Entry) /\ charged \in Nat /\ account \in SUBSET Receivers
      BY <2>1 DEF WorksThrough, HandOutInv, HandOutTyped
    <2>6. QED
      BY <2>1, <2>2, <2>3, <2>4, <2>5, ChargeBound
  <1>3. SentIsTrue
    BY DEF HandOutInv, SentIsReceived, SentIsTrue
  <1>4. ASSUME scene = "airdrop" PROVE NobodyTwice /\ ListIsRest
    <2>1. ListIsRest
      BY <1>4 DEF HandOutInv, NothingElse, ListIsRest
    <2>2. ASSUME NEW w \in Receivers PROVE received[w] <= Due(w)
      <3>1. received[w] \in Nat
        BY DEF HandOutInv, HandOutTyped
      <3>2. CASE ~CardBusy
        <4>1. Share(Recipients(text), w) \in Nat
          BY RecipientsAsk, SumsAreNat DEF HandOutInv, HandOutTyped
        <4>2. received[w] + Share(Recipients(text), w) = Due(w)
          BY <1>4, <3>2 DEF HandOutInv, NothingElse
        <4>3. QED
          BY <3>1, <4>1, <4>2
      <3>3. CASE CardBusy
        <4>1. PICK g : WorksThrough(run, g) /\ ListKept(run, g)
          BY <1>4, <3>3 DEF HandOutInv, RunIsSound
        <4>2. /\ g \in Seq(Entry) /\ Arrived(run) \in Nat /\ run.groups = Batches(g)
              /\ run.groups \in Seq(Seq(Entry)) /\ run.index \in Nat \ {0}
              /\ run.state \in {"next", "sending"}
          BY <3>3, <4>1, RunShape DEF WorksThrough, HandOutInv
        <4>3. Len(Batches(g)) \in Nat
          BY <4>2, LenProperties
        <4>4. Arrived(run) \in 0 .. Len(Batches(g))
          BY <4>1, <4>2, <4>3 DEF WorksThrough, Arrived
        <4>5. PICK k \in 0 .. Len(Batches(g)) : k = Arrived(run)
          BY <4>4
        <4>6. Rest(g, k, w) \in Nat
          BY <4>2, RestOfList
        <4>7. received[w] + Rest(g, k, w) = Due(w)
          BY <4>1, <4>5 DEF ListKept
        <4>8. QED
          BY <3>1, <4>6, <4>7
      <3>4. QED
        BY <3>2, <3>3
    <2>3. QED
      BY <2>1, <2>2 DEF NobodyTwice
  <1>5. QED
    BY <1>1, <1>2, <1>3, <1>4 DEF AirdropSound

\* Boxes are handed out as the creator asked: where no confirmation times out,
\* nobody gets more than the pasted list says and the text field lists exactly
\* what is left; whatever times out, no run costs more than was shown and the
\* notice claims no box that was not received (AirdropCard).
THEOREM AirdropsAlwaysSound == SceneSpec => []AirdropSound
  <1>1. SceneInit => HandOutInv
    BY HandOutStarts
  <1>2. HandOutInv /\ [SceneNext]_everything => HandOutInv'
    BY HandOutKeeps
  <1>3. HandOutInv => AirdropSound
    BY HandOutIsSound
  <1>4. QED
    BY <1>1, <1>2, <1>3, PTL DEF SceneSpec
=============================================================================
