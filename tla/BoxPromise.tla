----------------------------- MODULE BoxPromise -----------------------------
(***************************************************************************)
(* What a treasury promises the holder of a box, with no word about how:   *)
(* boxes are issued only against stock, the stock is sealed before the     *)
(* first box is opened, openings have their turn in the order in which     *)
(* they were requested, each takes one item from the sealed stock or       *)
(* lapses, and what was won is delivered.                                  *)
(***************************************************************************)
EXTENDS Integers, Sequences, Functions

CONSTANTS Bundles, Openings

VARIABLES
  sealed,   \* stock and boxes are final
  stock,    \* undrawn items of each bundle
  boxes,    \* unopened boxes
  queue,    \* openings that have not had their turn, oldest first
  won       \* pairs of an opening and the bundle it won, not yet delivered

promiseVars == <<sealed, stock, boxes, queue, won>>

Init ==
  /\ sealed = FALSE
  /\ stock = [b \in Bundles |-> 0]
  /\ boxes = 0
  /\ queue = << >>
  /\ won = {}

\* A bundle is stocked once, with any number of items.
Stock(b) ==
  /\ ~sealed
  /\ stock[b] = 0
  /\ stock'[b] > 0
  /\ stock' = [stock EXCEPT ![b] = stock'[b]]
  /\ UNCHANGED <<sealed, boxes, queue, won>>

\* Any number of boxes that the stock covers.
Issue ==
  /\ ~sealed
  /\ boxes' > boxes
  /\ boxes' <= SumFunction(stock)
  /\ UNCHANGED <<sealed, stock, queue, won>>

Discard ==
  /\ boxes > 0
  /\ boxes' = boxes - 1
  /\ UNCHANGED <<sealed, stock, queue, won>>

Seal ==
  /\ sealed' = TRUE
  /\ UNCHANGED <<stock, boxes, queue, won>>

Open(r) ==
  /\ sealed
  /\ boxes > 0
  /\ r \notin Range(queue)
  /\ \A p \in won : p[1] # r
  /\ boxes' = boxes - 1
  /\ queue' = Append(queue, r)
  /\ UNCHANGED <<sealed, stock, won>>

Draw(b) ==
  /\ queue # << >>
  /\ stock[b] > 0
  /\ stock' = [stock EXCEPT ![b] = @ - 1]
  /\ won' = won \cup {<<Head(queue), b>>}
  /\ queue' = Tail(queue)
  /\ UNCHANGED <<sealed, boxes>>

Lapse ==
  /\ queue # << >>
  /\ queue' = Tail(queue)
  /\ UNCHANGED <<sealed, stock, boxes, won>>

Deliver(p) ==
  /\ p \in won
  /\ won' = won \ {p}
  /\ UNCHANGED <<sealed, stock, boxes, queue>>

Settle == Lapse \/ \E b \in Bundles : Draw(b)

Next ==
  \/ \E b \in Bundles : Stock(b)
  \/ Issue
  \/ Discard
  \/ Seal
  \/ \E r \in Openings : Open(r)
  \/ Settle
  \/ \E p \in Openings \X Bundles : Deliver(p)

\* The queue moves and prizes are delivered; nobody is made to open a box.
Fairness ==
  /\ WF_promiseVars(Settle)
  /\ \A p \in Openings \X Bundles : WF_promiseVars(Deliver(p))

Spec == Init /\ [][Next]_promiseVars /\ Fairness
=============================================================================
