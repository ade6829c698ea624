------------------------------ MODULE BoxCurve ------------------------------
(***************************************************************************)
(* The bonding curve that sells the boxes of one locked lootbox: the curve *)
(* account with its reserve, the token account with the unsold boxes, and  *)
(* the boxes outside it.                                                   *)
(*                                                                         *)
(* One action stands for one instruction.  The limit a trader signs        *)
(* (max_lamports, min_lamports) is not a parameter: a trade that meets     *)
(* some limit is a trade, one that misses its limit changes nothing.       *)
(* Buyers pay from their own wallets, which are not part of the state, and *)
(* neither is the creator's, which fees and the reserve are paid into.     *)
(***************************************************************************)
EXTENDS Integers, Functions

CONSTANTS
  MaxU64,         \* the largest amount of lamports
  MinInventory,   \* MIN_CURVE_INVENTORY
  MinStartPrice,  \* MIN_CURVE_START_PRICE
  MaxFeeBps,      \* MAX_CURVE_FEE_BPS
  Supply,         \* boxes in circulation when the treasury was locked
  ClosesAt,       \* opens_at of the lootbox; the clock stops counting there
  Rent,           \* rent minimum of the curve account
  MaxGift,        \* bound: lamports a stranger leaves in the curve account
  Inventories, StartPrices, PriceSteps, Fees   \* terms a creator may ask for

BpsDenominator == 10000

ASSUME CurveAssumption ==
  /\ MaxU64 \in Nat
  /\ MinInventory \in Nat \ {0}
  /\ MinStartPrice \in Nat \ {0}
  /\ MaxFeeBps \in 0 .. BpsDenominator
  /\ Supply \in Nat
  /\ ClosesAt \in Nat \ {0}
  /\ Rent \in Nat
  /\ MaxGift \in Nat
  /\ Inventories \subseteq Nat /\ StartPrices \subseteq Nat
  /\ PriceSteps \subseteq Nat /\ Fees \subseteq Nat

VARIABLES
  now,       \* unix time, from 1 to ClosesAt
  live,      \* the lootbox is live, not retired
  curve,     \* BoxCurveState, the record NoCurve where there is none
  lamports,  \* balance of the curve account
  held,      \* boxes in the curve's token account
  boxes      \* boxes anywhere else

vars == <<now, live, curve, lamports, held, boxes>>

NoCurve == [open |-> FALSE, inventory |-> 0, sold |-> 0, startPrice |-> 0,
            priceStep |-> 0, feeBps |-> 0, reserve |-> 0, soldOutAt |-> 0]

CurveType == [open : BOOLEAN,
              inventory : Nat,
              sold : Nat,
              startPrice : Nat,
              priceStep : Nat,
              feeBps : Nat,
              reserve : Nat,
              soldOutAt : 0 .. ClosesAt]

TypeOK ==
  /\ now \in 1 .. ClosesAt
  /\ live \in BOOLEAN
  /\ curve \in CurveType
  /\ lamports \in Nat
  /\ held \in Nat
  /\ boxes \in Nat

Init ==
  /\ now \in 1 .. ClosesAt
  /\ live = TRUE
  /\ curve = NoCurve
  /\ lamports \in 0 .. MaxGift
  /\ held = 0
  /\ boxes = Supply

-----------------------------------------------------------------------------
(* Prices.  A result above MaxU64 is an overflow and fails the instruction; *)
(* the closed form is computed in 128 bits, wide enough for any inventory.  *)

Fits(amount) == amount <= MaxU64

CurvePrice(startPrice, priceStep, position) == startPrice + priceStep * position

CurveCostUneven(startPrice, priceStep, from, count) ==     \* mutated CurveCost
  count * startPrice + priceStep * ((count * (2 * from + count)) \div 2)
CurveCost(startPrice, priceStep, from, count) ==
  count * startPrice + priceStep * ((count * (2 * from + count - 1)) \div 2)

\* Rounded up: div_ceil.
CurveFeeRoundedDown(amount, bps) == (amount * bps) \div BpsDenominator \* mutated
CurveFee(amount, bps) ==
  (amount * bps + BpsDenominator - 1) \div BpsDenominator

\* Buying the whole inventory at once, fee included, must fit.
ValidTermsUnbounded(inventory, startPrice, priceStep, feeBps) == \* mutated
  /\ inventory >= MinInventory
  /\ startPrice >= MinStartPrice
  /\ feeBps <= MaxFeeBps
ValidTerms(inventory, startPrice, priceStep, feeBps) ==
  LET cost == CurveCost(startPrice, priceStep, 0, inventory)
  IN /\ inventory >= MinInventory
     /\ startPrice >= MinStartPrice
     /\ feeBps <= MaxFeeBps
     /\ Fits(cost)
     /\ Fits(cost + CurveFee(cost, feeBps))

\* The price of n boxes bought from the curve, and of n sold back to it.
BuyPrice(c, n) == CurveCost(c.startPrice, c.priceStep, c.sold, n)
SellPriceAtNext(c, n) == CurveCost(c.startPrice, c.priceStep, c.sold, n) \* mutated
SellPrice(c, n) == CurveCost(c.startPrice, c.priceStep, c.sold - n, n)

Buyable(c, n) == n > 0 /\ c.sold + n <= c.inventory
SellableBlindly(c, n) == n > 0                              \* mutated Sellable
Sellable(c, n) == n > 0 /\ c.sold >= n

\* assert_curve_solvent
Solvent(balance, reserve) == balance >= Rent + reserve

-----------------------------------------------------------------------------
(* The four instructions.                                                  *)

\* The curve account may hold lamports already; it is topped up to its rent.
OpenBoxCurve(inventory, startPrice, priceStep, feeBps) ==
  /\ ~curve.open
  /\ live
  /\ now < ClosesAt
  /\ ValidTerms(inventory, startPrice, priceStep, feeBps)
  /\ boxes >= inventory
  /\ curve' = [NoCurve EXCEPT !.open = TRUE,
                              !.inventory = inventory,
                              !.startPrice = startPrice,
                              !.priceStep = priceStep,
                              !.feeBps = feeBps]
  /\ lamports' = IF lamports >= Rent THEN lamports ELSE Rent
  /\ held' = held + inventory
  /\ boxes' = boxes - inventory
  /\ UNCHANGED <<now, live>>

Trading == curve.open /\ curve.soldOutAt = 0 /\ now < ClosesAt

BuyAccepted(n) ==
  LET price == BuyPrice(curve, n)
  IN /\ Buyable(curve, n)
     /\ Fits(price)
     /\ Fits(price + CurveFee(price, curve.feeBps))
     /\ Fits(curve.reserve + price)
     /\ held >= n

\* The buyer pays the price into the curve and the fee to the creator; the
\* purchase of the last box pays the creator the whole reserve.
BuyCurveBoxes(n) ==
  LET price == BuyPrice(curve, n)
      reserve == curve.reserve + price
      soldOut == curve.sold + n = curve.inventory
      kept == IF soldOut THEN 0 ELSE reserve
  IN /\ Trading
     /\ BuyAccepted(n)
     /\ curve' = [curve EXCEPT !.sold = @ + n,
                               !.reserve = kept,
                               !.soldOutAt = IF soldOut THEN now ELSE @]
     /\ lamports' = lamports + price - (reserve - kept)
     /\ Solvent(lamports', kept)
     /\ held' = held - n
     /\ boxes' = boxes + n
     /\ UNCHANGED <<now, live>>

\* The fee comes out of the price, the reserve pays both.
SellAccepted(n) ==
  LET price == SellPrice(curve, n)
  IN /\ Sellable(curve, n)
     /\ Fits(price)
     /\ CurveFee(price, curve.feeBps) <= price
     /\ curve.reserve >= price
     /\ Solvent(lamports - price, curve.reserve - price)

SellCurveBoxes(n) ==
  LET price == SellPrice(curve, n)
  IN /\ Trading
     /\ SellAccepted(n)
     /\ boxes >= n
     /\ curve' = [curve EXCEPT !.sold = @ - n, !.reserve = @ - price]
     /\ lamports' = lamports - price
     /\ held' = held + n
     /\ boxes' = boxes - n
     /\ UNCHANGED <<now, live>>

\* The creator takes everything once trading is over, or nothing is sold.
CloseableAlways == TRUE                                    \* mutated Closeable
Closeable == curve.soldOutAt # 0 \/ now >= ClosesAt \/ curve.sold = 0

CloseBoxCurve ==
  /\ curve.open
  /\ Closeable
  /\ curve' = NoCurve
  /\ lamports' = 0
  /\ held' = 0
  /\ boxes' = boxes + held
  /\ UNCHANGED <<now, live>>

-----------------------------------------------------------------------------
(* The environment: time, the lootbox, and transfers that need no curve.   *)

Tick == now < ClosesAt /\ now' = now + 1
        /\ UNCHANGED <<live, curve, lamports, held, boxes>>

\* The creator may retire a locked lootbox at any time; a curve goes on.
RetireLootbox == live /\ live' = FALSE
                 /\ UNCHANGED <<now, curve, lamports, held, boxes>>

\* A box leaves circulation: burned by its holder, or opened.
BurnBox == boxes > 0 /\ boxes' = boxes - 1
           /\ UNCHANGED <<now, live, curve, lamports, held>>

\* Anybody may send boxes to the curve's token account, whose address is
\* known before the curve exists, and lamports to the curve account.
GiveBox == boxes > 0 /\ boxes' = boxes - 1 /\ held' = held + 1
           /\ UNCHANGED <<now, live, curve, lamports>>

GiveLamport ==
  /\ lamports < MaxGift + (IF curve.open THEN Rent + curve.reserve ELSE 0)
  /\ lamports' = lamports + 1
  /\ UNCHANGED <<now, live, curve, held, boxes>>

\* Trading is over and the curve is closed: the only states to stop in.
Over == now = ClosesAt /\ ~curve.open /\ UNCHANGED vars

Next ==
  \/ \E inventory \in Inventories, startPrice \in StartPrices,
        priceStep \in PriceSteps, feeBps \in Fees :
       OpenBoxCurve(inventory, startPrice, priceStep, feeBps)
  \/ \E n \in 1 .. Supply : BuyCurveBoxes(n) \/ SellCurveBoxes(n)
  \/ CloseBoxCurve
  \/ Tick
  \/ RetireLootbox
  \/ BurnBox
  \/ GiveBox
  \/ GiveLamport
  \/ Over

Spec == Init /\ [][Next]_vars

-----------------------------------------------------------------------------
(* Properties.                                                             *)

\* Until the curve sells out the reserve is the sum of the prices of the
\* positions now sold, however the boxes were bought and sold back in between;
\* afterwards it is empty.  The account holds it on top of its rent.
ReserveIsSum ==
  curve.open =>
    LET price == [k \in 0 .. curve.inventory - 1 |->
                    CurvePrice(curve.startPrice, curve.priceStep, k)]
    IN /\ curve.reserve = IF curve.sold = curve.inventory THEN 0
                            ELSE SumFunctionOnSet(price, 0 .. curve.sold - 1)
       /\ curve.soldOutAt # 0 <=> curve.sold = curve.inventory
       /\ Solvent(lamports, curve.reserve)

\* While the curve trades it accepts every number of boxes up to those sold:
\* it can pay, the fee is no more than the price, and it stays solvent.
BuybackGuaranteed == Trading => \A n \in 1 .. curve.sold : SellAccepted(n)

\* While the curve trades it delivers every number of boxes up to those
\* unsold, and no amount on the way overflows, which is what
\* validate_curve_terms checks once for all later trades.
DeliveryGuaranteed ==
  Trading => \A n \in 1 .. curve.inventory - curve.sold : BuyAccepted(n)

\* Splitting a purchase moves the same price and never saves a fee, and boxes
\* bought one way and sold back another never return more than they cost.
SplitsNeverPay ==
  Trading => \A n, m \in 1 .. curve.inventory :
    Buyable(curve, n + m) =>
      LET after == [curve EXCEPT !.sold = @ + n]
          left == [curve EXCEPT !.sold = @ + m]
          sold == [curve EXCEPT !.sold = @ + n + m]
          whole == BuyPrice(curve, n + m)
          fee(amount) == CurveFee(amount, curve.feeBps)
      IN /\ whole = BuyPrice(curve, n) + BuyPrice(after, m)
         /\ whole = SellPrice(sold, n) + SellPrice(left, m)
         /\ fee(whole) <= fee(BuyPrice(curve, n)) + fee(BuyPrice(after, m))

\* The reserve and every split of a trade follow one list of prices.
PricesExact == TypeOK /\ ReserveIsSum /\ SplitsNeverPay

\* While boxes can be sold back nobody takes from the reserve but a seller,
\* who returns boxes, and the purchase that ends the sale: the creator waits.
CreatorWaits ==
  [][Trading /\ curve.reserve > 0 /\ curve'.reserve < curve.reserve =>
       \/ curve'.sold < curve.sold /\ held' - held = curve.sold - curve'.sold
       \/ curve'.sold = curve.inventory /\ curve'.soldOutAt = now]_vars
=============================================================================
