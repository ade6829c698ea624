------------------------------ MODULE MCMarket ------------------------------
(***************************************************************************)
(* The arithmetic of the program and the pages that quote it, in four        *)
(* scenes: the bonding curve by itself (BoxCurve), the draw of a ticket      *)
(* (OutcomeSelection), and CurveTrade with a page that trades or with the    *)
(* creator's desk.  The initial states choose the scene that moves; what is  *)
(* not in it rests.                                                          *)
(***************************************************************************)
EXTENDS CurveTrade, OutcomeSelection, TLC

CONSTANTS creator, ann

VARIABLE scene

pages == <<wallet, page, order>>
everything == <<scene, tradeVars, selectionVars>>

ASSUME TradeAssumption

Ask == order'[creator]

\* The page trades and so does ann, on a curve, flat or steep, of three boxes:
\* the fewest with a position in between.
Trader ==
  /\ curve'.open => /\ curve'.inventory = 3 /\ curve'.startPrice = 3
                    /\ curve'.priceStep \in {0, 2} /\ curve'.feeBps = 500
  /\ Ask # None => Ask.kind \in {"buy", "sell"}

\* The creator, alone, opens and closes the curve from the page too, with a
\* last price that the step does not divide, and one that only the fee pushes
\* over MaxU64.
Desk ==
  /\ curve'.open => curve'.inventory = 3 /\ curve'.priceStep # 0
  /\ Ask # None =>
       CASE Ask.kind = "open" -> Ask.inventory = 3
         [] Ask.kind \in {"buy", "sell"} -> Ask.to = creator
         [] Ask.kind = "close" -> TRUE
  /\ wallet'[ann] = 0 /\ page'[creator].count = 1

SceneInit ==
  /\ TradeInit /\ SelectionInit
  /\ scene \in {"curve", "draw", "trader", "desk"}
  \* What rests has one state to rest in.
  /\ scene # "curve" => lamports = 0
  /\ scene = "draw" => now = 1
  /\ scene # "draw" => bound = 1

SceneNext ==
  \/ scene = "curve" /\ Next /\ UNCHANGED <<scene, selectionVars, pages>>
  \/ scene = "draw" /\ SelectionNext /\ UNCHANGED <<scene, tradeVars>>
  \/ /\ scene = "trader" /\ TradeNext /\ Trader
     /\ UNCHANGED <<scene, selectionVars>>
  \/ /\ scene = "desk" /\ TradeNext /\ Desk
     /\ UNCHANGED <<scene, selectionVars>>

SceneSpec == SceneInit /\ [][SceneNext]_everything
=============================================================================
