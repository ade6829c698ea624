----------------------------- MODULE CurveTrade -----------------------------
(***************************************************************************)
(* People at the box curve: the creator who plans, opens and closes it     *)
(* from the manage page, and the traders who buy and sell on the lootbox's *)
(* page, each in front of a view of the curve that others change meanwhile. *)
(*                                                                         *)
(* BoxCurve is the chain.  A page prices a trade from its own view and     *)
(* signs that price with an allowance; the transaction lands later, on     *)
(* whatever the curve has become, or is refused.  Every wallet may also    *)
(* act elsewhere, in another tab or with the SDK.                          *)
(***************************************************************************)
EXTENDS BoxCurve

CONSTANTS
  Wallets, Creator,
  Pages,         \* the wallets whose page is followed
  None,          \* no order
  MaxTrade,      \* MAX_TRADE: most boxes of one trade
  SlippageBps,   \* the default of withSlippage
  EndPrices,     \* last prices the creator asks for in the curve form
  Budgets        \* amounts affordableCurveBoxes is asked about

TradeAssumption ==
  /\ Creator \in Wallets /\ Pages \subseteq Wallets
  /\ MaxTrade \in Nat \ {0} /\ MinInventory >= 2
  /\ SlippageBps \in 0 .. BpsDenominator
  /\ EndPrices \subseteq Nat /\ Budgets \subseteq Nat

VARIABLES
  wallet,   \* boxes in each wallet
  page,     \* what each page shows: its view, the wallet's boxes, the form
  order     \* the request each page is waiting for, None when not busy

tradeVars == <<now, live, curve, lamports, held, boxes, wallet, page, order>>
chain == <<now, live, curve, lamports, held, boxes>>

Unknown == -1   \* setHolding(null)

Page == [view : CurveType, at : 0 .. ClosesAt, holding : Nat \cup {Unknown},
         asked : BOOLEAN, side : {"buy", "sell"}, count : 1 .. MaxTrade]

Order ==
  [kind : {"buy", "sell"}, count : 1 .. MaxTrade, view : CurveType,
   limit : Int, to : Wallets]
  \cup [kind : {"open"}, inventory : Nat, startPrice : Nat, priceStep : Nat,
        endPrice : Nat, feeBps : Nat]
  \cup [kind : {"close"}]

TradeTypeOK ==
  /\ TypeOK
  /\ wallet \in [Wallets -> Nat]
  /\ page \in [Pages -> Page]
  /\ order \in [Pages -> Order \cup {None}]

NoPage == [view |-> NoCurve, at |-> 0, holding |-> Unknown,
           asked |-> TRUE, side |-> "buy", count |-> 1]

TradeInit ==
  /\ Init
  /\ wallet = [w \in Wallets |-> IF w = Creator THEN Supply ELSE 0]
  /\ page = [w \in Pages |-> NoPage]
  /\ order = [w \in Pages |-> None]

Min2(a, b) == IF a <= b THEN a ELSE b
Max2(a, b) == IF a >= b THEN a ELSE b

-----------------------------------------------------------------------------
(* The SDK's prices.  An amount outside u64 is an error, here no quote.    *)

BuyTotalBeforeFee(c, n) == BuyPrice(c, n)                  \* mutated BuyTotal
BuyTotal(c, n) == BuyPrice(c, n) + CurveFee(BuyPrice(c, n), c.feeBps)
SellTotal(c, n) == SellPrice(c, n) - CurveFee(SellPrice(c, n), c.feeBps)

QuotesBuy(c, n) ==
  /\ Buyable(c, n)
  /\ Fits(BuyPrice(c, n))
  /\ Fits(BuyTotal(c, n))

QuotesSell(c, n) == Sellable(c, n) /\ Fits(SellPrice(c, n))

Quotes(c, kind, n) == IF kind = "buy" THEN QuotesBuy(c, n) ELSE QuotesSell(c, n)
Total(c, kind, n) == IF kind = "buy" THEN BuyTotal(c, n) ELSE SellTotal(c, n)

\* Rounded up for a buyer, down for a seller.
WithSlippage(amount, kind) ==
  IF kind = "buy"
  THEN amount + (amount * SlippageBps + BpsDenominator - 1) \div BpsDenominator
  ELSE amount - (amount * SlippageBps) \div BpsDenominator

\* planBoxCurve: the step is floored to whole lamports per box.
PriceStepOver(inventory, startPrice, endPrice) ==               \* mutated
  (endPrice - startPrice) \div inventory + 1
PriceStep(inventory, startPrice, endPrice) ==
  (endPrice - startPrice) \div (inventory - 1)

Plans(inventory, startPrice, endPrice, feeBps) ==
  /\ inventory >= MinInventory
  /\ startPrice >= MinStartPrice
  /\ endPrice >= startPrice
  /\ feeBps \in 0 .. MaxFeeBps
  /\ LET step == PriceStep(inventory, startPrice, endPrice)
         sellOut == CurveCost(startPrice, step, 0, inventory)
     IN /\ Fits(sellOut)
        /\ Fits(sellOut + CurveFee(sellOut, feeBps))
        /\ Fits(CurvePrice(startPrice, step, inventory - 1))

Halfway(low, high) == (low + high) \div 2                       \* mutated Middle
Middle(low, high) == (low + high + 1) \div 2

\* affordableCurveBoxes: a round of its binary search, which keeps the last
\* number that is affordable in the range, and the end of it, reached after no
\* more rounds than there are boxes left.
Narrowed(c, budget, range) ==
  LET middle == Middle(range.low, range.high)
  IN IF range.low >= range.high THEN range
     ELSE IF BuyTotal(c, middle) <= budget
     THEN [range EXCEPT !.low = middle]
     ELSE [range EXCEPT !.high = middle - 1]

AffordableBoxes(c, budget) ==
  LET most == c.inventory - c.sold
      after[rounds \in 0 .. most] ==
        IF rounds = 0 THEN [low |-> 0, high |-> most]
        ELSE Narrowed(c, budget, after[rounds - 1])
  IN after[most].low

-----------------------------------------------------------------------------
(* The pages.                                                              *)

PhaseLate(view, at) ==                                     \* mutated Phase
  IF view.soldOutAt # 0 THEN "soldOut"
  ELSE IF at > ClosesAt THEN "closed" ELSE "trading"
Phase(view, at) ==
  IF view.soldOutAt # 0 THEN "soldOut"
  ELSE IF at >= ClosesAt THEN "closed" ELSE "trading"

CurveLeft(view) == view.inventory - view.sold
\* Most boxes the stepper goes to.
Most(p) == IF p.side = "buy" THEN Min2(CurveLeft(p.view), MaxTrade)
           ELSE Min2(Min2(Max2(p.holding, 0), p.view.sold), MaxTrade)

CanSell(p) == p.holding > 0 /\ p.view.sold > 0
Busy(w) == order[w] # None

\* The page's clock started at the chain's and may lag behind it since.
Clock(p) == p.at .. now

\* The loader shows the curve as it is; where the number sold is another, the
\* form asks for the wallet's boxes again.
Look(w) ==
  /\ page' = [page EXCEPT ![w] =
       [page[w] EXCEPT !.view = curve, !.at = now,
          !.asked = page[w].asked \/ (page[w].view.sold # curve.sold)]]
  /\ UNCHANGED <<chain, wallet, order>>

\* boxBalance answers, or fails.  A wallet with nothing to sell leaves the
\* sell side, and keeps the number it had chosen there.
ReadHolding(w, holding) ==
  LET read == [page[w] EXCEPT !.holding = holding, !.asked = FALSE]
      strands == holding # Unknown /\ ~CanSell(read)
  IN /\ page[w].asked
     /\ page' = [page EXCEPT ![w] =
          [read EXCEPT !.side = IF strands THEN "buy" ELSE @]]
     /\ UNCHANGED <<chain, wallet, order>>

PickSide(w, side) ==
  /\ Phase(page[w].view, page[w].at) = "trading"
  /\ page[w].view.open /\ CanSell(page[w])
  /\ page' = [page EXCEPT ![w] = [@ EXCEPT !.side = side, !.count = 1]]
  /\ UNCHANGED <<chain, wallet, order>>

\* The stepper stays between one and the most the side allows.
PickCount(w, count) ==
  /\ page[w].view.open /\ ~Busy(w)
  /\ count <= Most(page[w])
  /\ page' = [page EXCEPT ![w] = [@ EXCEPT !.count = count]]
  /\ UNCHANGED <<chain, wallet, order>>

\* The trade button is enabled.
Offers(p, at) ==
  /\ p.view.open
  /\ Phase(p.view, at) = "trading"
  /\ Quotes(p.view, p.side, p.count)
  /\ Most(p) > 0

\* trade(): what is signed is the page's price with the allowance, within
\* u64.  Bought boxes go to any wallet, a sale is the trader's own.
PressTrade(w, to) ==
  LET p == page[w]
      limit == WithSlippage(Total(p.view, p.side, p.count), p.side)
  IN /\ ~Busy(w)
     /\ \E at \in Clock(p) : Offers(p, at)
     /\ p.side = "sell" => to = w
     /\ limit \in 0 .. MaxU64
     /\ order' = [order EXCEPT ![w] =
          [kind |-> p.side, count |-> p.count, view |-> p.view,
           limit |-> limit, to |-> to]]
     /\ UNCHANGED <<chain, wallet, page>>

Meets(o, total) == IF o.kind = "buy" THEN total <= o.limit ELSE total >= o.limit

\* The instruction accepts the order on the curve as it is now.
Accepts(o, w) ==
  /\ Trading
  /\ IF o.kind = "buy" THEN BuyAccepted(o.count)
     ELSE SellAccepted(o.count) /\ wallet[w] >= o.count
  /\ Meets(o, Total(curve, o.kind, o.count))

Moved(o, w) ==
  IF o.kind = "buy"
  THEN BuyCurveBoxes(o.count) /\ wallet' = [wallet EXCEPT ![o.to] = @ + o.count]
  ELSE SellCurveBoxes(o.count) /\ wallet' = [wallet EXCEPT ![w] = @ - o.count]

Trades(o) == o # None /\ o.kind \in {"buy", "sell"}

\* The form goes back to one box; the page's view follows with a later Look.
TradeLandsAtAnyPrice(w) ==                               \* mutated TradeLands
  /\ Trades(order[w])
  /\ order[w].kind = "sell" => wallet[w] >= order[w].count
  /\ Moved(order[w], w)
  /\ order' = [order EXCEPT ![w] = None]
  /\ page' = [page EXCEPT ![w] = [@ EXCEPT !.count = 1]]
TradeLands(w) ==
  /\ Trades(order[w])
  /\ Accepts(order[w], w)
  /\ Moved(order[w], w)
  /\ order' = [order EXCEPT ![w] = None]
  /\ page' = [page EXCEPT ![w] = [@ EXCEPT !.count = 1]]

\* Refused by the client, which finds no curve, or by the program: an error.
TradeFails(w) ==
  /\ Trades(order[w])
  /\ ~Accepts(order[w], w)
  /\ order' = [order EXCEPT ![w] = None]
  /\ UNCHANGED <<chain, wallet, page>>

\* The stepper bounds the inventory by a balance read before.
PressOpen(inventory, startPrice, endPrice, feeBps) ==
  LET p == page[Creator]
  IN /\ Creator \in Pages /\ ~Busy(Creator)
     /\ ~p.view.open /\ \E at \in Clock(p) : at < ClosesAt
     /\ p.holding = Unknown \/ p.holding >= MinInventory
     /\ inventory <= Supply
     /\ Plans(inventory, startPrice, endPrice, feeBps)
     /\ order' = [order EXCEPT ![Creator] =
          [kind |-> "open", inventory |-> inventory, startPrice |-> startPrice,
           priceStep |-> PriceStep(inventory, startPrice, endPrice),
           endPrice |-> endPrice, feeBps |-> feeBps]]
     /\ UNCHANGED <<chain, wallet, page>>

CanCloseWhileSelling(view, at) == view.open              \* mutated CanClose
CanClose(view, at) ==
  view.open /\ (Phase(view, at) # "trading" \/ view.sold = 0)

PressClose ==
  /\ Creator \in Pages /\ ~Busy(Creator)
  /\ \E at \in Clock(page[Creator]) : CanClose(page[Creator].view, at)
  /\ order' = [order EXCEPT ![Creator] = [kind |-> "close"]]
  /\ UNCHANGED <<chain, wallet, page>>

CreatorAsks(kind) ==
  Creator \in Pages /\ order[Creator] # None /\ order[Creator].kind = kind

OpensAs(o) ==
  /\ wallet[Creator] >= o.inventory
  /\ OpenBoxCurve(o.inventory, o.startPrice, o.priceStep, o.feeBps)

\* The tools card reloads the page when it is done.
CreatorLands ==
  /\ \/ /\ CreatorAsks("open")
        /\ OpensAs(order[Creator])
        /\ wallet' = [wallet EXCEPT ![Creator] = @ - order[Creator].inventory]
     \/ /\ CreatorAsks("close")
        /\ CloseBoxCurve
        /\ wallet' = [wallet EXCEPT ![Creator] = @ + held]
  /\ order' = [order EXCEPT ![Creator] = None]
  /\ UNCHANGED page

CreatorFails ==
  /\ \/ /\ CreatorAsks("open")
        /\ \/ curve.open \/ ~live \/ now >= ClosesAt
           \/ wallet[Creator] < order[Creator].inventory
           \/ ~ValidTerms(order[Creator].inventory, order[Creator].startPrice,
                          order[Creator].priceStep, order[Creator].feeBps)
     \/ /\ CreatorAsks("close")
        /\ ~(curve.open /\ Closeable)
  /\ order' = [order EXCEPT ![Creator] = None]
  /\ UNCHANGED <<chain, wallet, page>>

\* A box changes hands outside the curve.
Transfer(w, to) ==
  /\ wallet[w] > 0 /\ w # to
  /\ wallet' = [wallet EXCEPT ![w] = @ - 1, ![to] = @ + 1]
  /\ UNCHANGED <<chain, page, order>>

\* What is done elsewhere is not priced by a page: a trade at a limit its
\* maker accepts, and the creator's part with terms of any kind.
TradeElsewhere(w, n) ==
  /\ \/ BuyCurveBoxes(n) /\ wallet' = [wallet EXCEPT ![w] = @ + n]
     \/ /\ wallet[w] >= n
        /\ SellCurveBoxes(n)
        /\ wallet' = [wallet EXCEPT ![w] = @ - n]
  /\ UNCHANGED <<page, order>>

OpenElsewhere(inventory, startPrice, priceStep, feeBps) ==
  /\ wallet[Creator] >= inventory
  /\ OpenBoxCurve(inventory, startPrice, priceStep, feeBps)
  /\ wallet' = [wallet EXCEPT ![Creator] = @ - inventory]
  /\ UNCHANGED <<page, order>>

CloseElsewhere ==
  /\ CloseBoxCurve
  /\ wallet' = [wallet EXCEPT ![Creator] = @ + held]
  /\ UNCHANGED <<page, order>>

Outside == (Tick \/ RetireLootbox) /\ UNCHANGED <<wallet, page, order>>

TradeNext ==
  \/ \E w \in Pages :
       \/ Look(w)
       \/ \E holding \in {wallet[w], Unknown} : ReadHolding(w, holding)
       \/ \E side \in {"buy", "sell"} : PickSide(w, side)
       \/ \E count \in 1 .. MaxTrade : PickCount(w, count)
       \/ \E to \in Wallets : PressTrade(w, to)
       \/ TradeLands(w)
       \/ TradeFails(w)
  \/ \E inventory \in Inventories, startPrice \in StartPrices,
        priceStep \in PriceSteps, feeBps \in Fees :
       OpenElsewhere(inventory, startPrice, priceStep, feeBps)
  \/ CloseElsewhere
  \/ \E inventory \in Inventories, startPrice \in StartPrices,
        endPrice \in EndPrices, feeBps \in Fees :
       PressOpen(inventory, startPrice, endPrice, feeBps)
  \/ \E w, to \in Wallets : Transfer(w, to)
  \/ \E w \in Wallets, n \in 1 .. Supply : TradeElsewhere(w, n)
  \/ PressClose
  \/ CreatorLands
  \/ CreatorFails
  \/ Outside

TradeSpec == TradeInit /\ [][TradeNext]_tradeVars

-----------------------------------------------------------------------------
(* Properties.                                                             *)

\* The order w was waiting for has just moved boxes: wallets and the curve
\* changed together in the step that ended it.
Landed(w) == Trades(order[w]) /\ order'[w] = None /\ curve'.sold # curve.sold

\* What that step charged the buyer or paid the seller.
Moves(w) == Total(curve, order[w].kind, order[w].count)
Shown(w) == Total(order[w].view, order[w].kind, order[w].count)

\* However far the curve has moved since the page was read, whoever moved it,
\* a trade that lands moves the number of boxes the page showed, and costs no
\* more and pays no less than the shown price by over one allowance (and the
\* lamport it is rounded to): withSlippage signed as the program's limit.
WithinAllowance(w) ==
  Landed(w) =>
    /\ curve'.sold - curve.sold =
         IF order[w].kind = "buy" THEN order[w].count ELSE -order[w].count
    /\ LET allowance == (Shown(w) * SlippageBps) \div BpsDenominator + 1
       IN IF order[w].kind = "buy" THEN Moves(w) <= Shown(w) + allowance
          ELSE Moves(w) >= Shown(w) - allowance

\* "The page quotes exactly what the program charges": a trade that lands
\* where the page saw the curve changes the curve's balance and pays the
\* creator's fee to the amount that was shown.
AsQuoted(w) ==
  Landed(w) /\ order[w].view = curve /\ curve'.soldOutAt = 0 =>
    LET paid == curve'.reserve - curve.reserve
    IN IF order[w].kind = "buy"
       THEN Shown(w) = paid + CurveFee(paid, curve.feeBps)
       ELSE Shown(w) = -paid - CurveFee(-paid, curve.feeBps)

\* Terms the form accepts are terms the program accepts, the last box costs
\* no more than the creator asked, and less than one lamport per box below it.
PlanOpens ==
  CreatorAsks("open") =>
    LET o == order[Creator]
        last == CurvePrice(o.startPrice, o.priceStep, o.inventory - 1)
    IN /\ ValidTerms(o.inventory, o.startPrice, o.priceStep, o.feeBps)
       /\ last <= o.endPrice /\ o.endPrice - last < o.inventory - 1

\* A page that is up to date never offers a trade the program refuses, nor
\* hides one it accepts: the button, the stepper and the program agree.
OffersMatch ==
  \A w \in Pages :
    LET p == page[w]
    IN p.view = curve /\ p.holding = wallet[w] /\ p.count <= Most(p) =>
         (Offers(p, now) <=>
            IF p.side = "buy" THEN Trading /\ BuyAccepted(p.count)
            ELSE Trading /\ SellAccepted(p.count) /\ wallet[w] >= p.count)

\* The manage page offers to close exactly when the program lets it close.
CloseMatches ==
  Creator \in Pages /\ page[Creator].view = curve =>
    (CanClose(page[Creator].view, now) <=> curve.open /\ Closeable)

\* affordableCurveBoxes: the number can be bought for the budget, and one box
\* more cannot, or there is none.
AffordableIsMost ==
  Trading => \A budget \in Budgets :
    LET n == AffordableBoxes(curve, budget)
    IN /\ n > 0 => BuyTotal(curve, n) <= budget
       /\ n < CurveLeft(curve) => BuyTotal(curve, n + 1) > budget

\* The pages and the program agree on what can be bought, sold, opened, closed
\* and afforded.
PagesAgree == TradeTypeOK /\ OffersMatch /\ AffordableIsMost /\ PlanOpens /\ CloseMatches

\* A trade that lands cost what the page said, within the allowance it signed.
TradeSound(w) == WithinAllowance(w) /\ AsQuoted(w)
TradesSound == [][\A w \in Pages : TradeSound(w)]_tradeVars

\* "A trade that lands just after someone else's still goes through": the
\* doc of withSlippage.  An order for boxes the curve still has, one box
\* after the place the page saw, is not refused for its price.
GoesThrough ==
  [][\A w \in Pages :
       /\ Trades(order[w]) /\ order'[w] = None
       /\ order[w].kind = "buy" /\ Trading /\ BuyAccepted(order[w].count)
       /\ curve = [order[w].view EXCEPT !.sold = @ + 1, !.reserve = curve.reserve]
       => curve'.sold # curve.sold]_tradeVars

\* "Sold n back for x": what the page says when a sale has landed is what
\* the curve paid.
SaysWhatItPaid ==
  [][\A w \in Pages :
       Landed(w) /\ order[w].kind = "sell" => Shown(w) = Moves(w)]_tradeVars
=============================================================================
