---------------------------- MODULE RelayProofs ----------------------------
(***************************************************************************)
(* Theorems about those who act on a chain they read before.  Relay: what a *)
(* caller of a relayer may believe of its report, and what the queue of     *)
(* openings keeps whoever relays it, for every number of relayers,          *)
(* openings, bundles, tickets and transactions in flight.  ManagePage: what *)
(* its pages show and save, for every number of tabs.                       *)
(*                                                                         *)
(* The argument for relayers: a view is the chain of an earlier moment, and *)
(* a status only grows.  So an opening that a pass left behind needs no     *)
(* work now either, and the openings before the one it is at have been      *)
(* settled.  Where a relayer is refused, then, either the opening moved on, *)
(* or its inventory is stale, and that takes another sender's draw since it *)
(* was read: a transaction somebody waits for is the one its sender would   *)
(* send again, and nothing of its own is sent between two readings.         *)
(***************************************************************************)
EXTENDS MCRelay, Sums, SequenceTheorems

-----------------------------------------------------------------------------
(* The inductive invariant.                                                *)

Typed ==
  /\ TypeOK
  /\ answer \in [Openings -> Entropy]
  /\ confirmed \in [status : [Openings -> Status], slot : 0 .. MaxSlot]
  /\ overtaken \in [Relayers -> BOOLEAN]
  /\ faulted \in [Relayers -> BOOLEAN]

\* Openings are requested one after the other.
InOrder(status) ==
  \A o \in Openings : \A p \in Openings :
    p < o /\ status[o] # Absent => status[p] # Absent

Drawn(b) == {o \in Openings : o < head /\ opening[o].bundle = b}

\* The openings before the head have an end, the others have drawn nothing, and
\* every opening to come still finds a ticket.
Queue ==
  /\ InOrder(Statuses)
  /\ \A o \in Openings : o < head <=> opening[o].status >= Allocated
  /\ \A o \in Openings : o >= head => opening[o].bundle = 0
  /\ \A b \in Bundles : remaining[b] = Stock[b] - Cardinality(Drawn(b))
  /\ SumFunction(remaining) >= MaxOpenings - head + 1

\* What was read is the chain of some earlier moment.
Earlier(status, at) ==
  /\ InOrder(status)
  /\ \A o \in Openings : status[o] <= opening[o].status
  /\ at <= slot

Within(r) == relayer[r].pc \in {"walk", "wait", "error", "reread", "retemplate"}

\* A pass leaves no opening behind, and is at one that it works on.
Position(r) ==
  /\ relayer[r].pc # "idle" => relayer[r].report = "none"
  /\ Within(r) =>
       /\ relayer[r].at >= 1
       /\ \A o \in Openings :
            o < relayer[r].at /\ relayer[r].view[o] \in OnChain
            => ~NeedsWork(r, relayer[r].view[o])
  /\ relayer[r].pc \in {"wait", "error", "reread", "retemplate"} =>
       relayer[r].at \in Openings
  /\ relayer[r].pc \in {"wait", "error", "reread"} => NeedsWork(r, Seen(r))

\* Nobody overtook a relayer: it knows the inventory, and where it is refused
\* without a fault somebody was faster at this opening.
Knows(r) ==
  ~overtaken[r] =>
    /\ relayer[r].pc \in {"list", "walk", "wait"} => relayer[r].inventory = remaining
    /\ relayer[r].pc = "error" /\ ~faulted[r] =>
         opening[relayer[r].at].status > Seen(r)

Honest(r) ==
  /\ relayer[r].report = "failed" => overtaken[r] \/ faulted[r]
  /\ relayer[r].report = "done" =>
       \A o \in Openings :
         /\ relayer[r].view[o] \in OnChain
         /\ Until[r] # 0 => o <= Until[r]
         => ~NeedsWork(r, opening[o].status)

Sent(r) == [by |-> r, step |-> StepFor(Seen(r)), opening |-> relayer[r].at,
            bundle |-> Predicted(r), late |-> FALSE]

\* A transaction somebody waits for is the one its sender would send again.
Vouched(t) ==
  ~t.late =>
    /\ relayer[t.by].pc = "wait"
    /\ t = Sent(t.by)
    /\ ~WaitForSeed(t.by)
    /\ Predictable(t.by)

Own(r) ==
  /\ Earlier(relayer[r].view, relayer[r].slot)
  /\ Position(r) /\ Knows(r) /\ Honest(r)

IInv ==
  /\ Typed
  /\ Queue
  /\ Earlier(confirmed.status, confirmed.slot)
  /\ \A t \in wire : Vouched(t)
  /\ \A r \in Relayers : Own(r)

-----------------------------------------------------------------------------
(* The sampler.                                                            *)

LEMMA Sizes ==
  /\ Len(Stock) \in Nat /\ Bundles = 1 .. Len(Stock) /\ Stock \in [Bundles -> Nat]
  /\ IsFiniteSet(Bundles) /\ IsFiniteSet(Openings)
  /\ MaxOpenings \in Nat /\ MaxOpenings >= 1 /\ MaxSlot \in Nat /\ Timeout \in Nat
  <1>1. /\ Len(Stock) \in Nat /\ Bundles = 1 .. Len(Stock) /\ Stock \in [Bundles -> Nat]
    BY RelayAssumption, LenProperties DEF Bundles
  <1>2. IsFiniteSet(Bundles) /\ IsFiniteSet(Openings)
    BY <1>1, RelayAssumption, FS_Interval DEF Openings
  <1>3. QED
    BY <1>1, <1>2, RelayAssumption

Total(inventory) == SumFunctionOnSet(inventory, Bundles)

LEMMA TotalIsSum ==
  ASSUME NEW inventory \in [Bundles -> Nat]
  PROVE  SumFunction(inventory) = Total(inventory) /\ Total(inventory) \in Nat
  <1>1. DOMAIN inventory = Bundles /\ \A b \in Bundles : inventory[b] \in Nat
    OBVIOUS
  <1>2. Total(inventory) \in Nat
    BY <1>1, Sizes, SumIsNat DEF Total
  <1>3. QED
    BY <1>1, <1>2 DEF SumFunction, Total

\* The running totals grow by one bundle at a time.
LEMMA UpTo ==
  ASSUME NEW inventory \in [Bundles -> Nat], NEW b \in Bundles
  PROVE  /\ SumFunctionOnSet(inventory, 1 .. b - 1) \in Nat
         /\ SumFunctionOnSet(inventory, 1 .. b) =
              SumFunctionOnSet(inventory, 1 .. b - 1) + inventory[b]
  <1>1. b \in 1 .. Len(Stock) /\ Len(Stock) \in Nat /\ Bundles = 1 .. Len(Stock)
    BY Sizes
  <1>2. /\ IsFiniteSet(1 .. b) /\ IsFiniteSet(1 .. b - 1)
        /\ (1 .. b) \ {b} = 1 .. b - 1 /\ b \in 1 .. b
        /\ 1 .. b \subseteq Bundles /\ 1 .. b - 1 \subseteq Bundles
    <2>1. b \in Int /\ b - 1 \in Int /\ b >= 1 /\ b <= Len(Stock)
      BY <1>1
    <2>2. IsFiniteSet(1 .. b) /\ IsFiniteSet(1 .. b - 1)
      BY <2>1, FS_Interval
    <2>3. (1 .. b) \ {b} = 1 .. b - 1 /\ b \in 1 .. b
      BY <2>1
    <2>4. 1 .. b \subseteq Bundles /\ 1 .. b - 1 \subseteq Bundles
      BY <1>1, <2>1
    <2>5. QED
      BY <2>2, <2>3, <2>4
  <1>3. \A x \in 1 .. b : inventory[x] \in Nat
    BY <1>2
  <1>4. SumFunctionOnSet(inventory, 1 .. b - 1) \in Nat
    BY <1>2, <1>3, SumIsNat
  <1>5. SumFunctionOnSet(inventory, 1 .. b) =
          inventory[b] + SumFunctionOnSet(inventory, 1 .. b - 1)
    BY <1>2, <1>3, SumWithout
  <1>6. QED
    BY <1>3, <1>4, <1>5, <1>2

LEMMA Residue ==
  ASSUME NEW e \in Nat, NEW n \in Nat, n > 0
  PROVE  e % n \in Nat /\ e % n < n
  OBVIOUS

\* A bundle is selected while a ticket is left, and it is the one that owns the
\* ticket the answer points at.
LEMMA Selects ==
  ASSUME NEW inventory \in [Bundles -> Nat], NEW e \in Nat, SumFunction(inventory) > 0
  PROVE  LET b == Select(inventory, e)
             target == e % SumFunction(inventory)
         IN  /\ b \in Bundles
             /\ SumFunctionOnSet(inventory, 1 .. b - 1) <= target
             /\ target < SumFunctionOnSet(inventory, 1 .. b - 1) + inventory[b]
             /\ inventory[b] > 0
  <1> DEFINE target == e % SumFunction(inventory)
             Above == {b \in Bundles : target < SumFunctionOnSet(inventory, 1 .. b)}
             UpToThis(b) == SumFunctionOnSet(inventory, 1 .. b)
  <1>1. /\ SumFunction(inventory) = Total(inventory)
        /\ SumFunction(inventory) \in Nat
    BY TotalIsSum
  <1>2. target \in Nat /\ target < SumFunction(inventory)
    BY <1>1, Residue
  <1>3. Len(Stock) \in Nat /\ Bundles = 1 .. Len(Stock)
    BY Sizes
  <1>4. Len(Stock) # 0
    <2>1. Len(Stock) = 0 => Bundles = {}
      BY <1>3
    <2>2. Len(Stock) = 0 => Total(inventory) = 0
      BY <2>1, SumOfNone DEF Total
    <2>3. QED
      BY <1>1, <2>2
  <1>5. Len(Stock) \in Above
    BY <1>1, <1>2, <1>3, <1>4 DEF Total
  <1>6. Above \in SUBSET (0 .. Len(Stock)) /\ Above # {}
    BY <1>3, <1>5
  <1>7. \E k \in Above : \A j \in Above : k <= j
    <2> HIDE DEF Above
    <2>1. QED
      BY <1>3, <1>6, LeastNumber
  <1> DEFINE b == Select(inventory, e)
  <1>8. b \in Above /\ \A j \in Above : b <= j
    <2>1. b = CHOOSE k \in Above : \A j \in Above : k <= j
      BY DEF Select, Min
    <2> HIDE DEF Above, b
    <2>2. QED
      BY <1>7, <2>1
  <1> HIDE DEF b
  <1>9. b \in Bundles /\ target < UpToThis(b) /\ b \in 1 .. Len(Stock)
    BY <1>8, <1>3
  <1>10. /\ UpToThis(b - 1) \in Nat /\ UpToThis(b) = UpToThis(b - 1) + inventory[b]
         /\ inventory[b] \in Nat
    BY <1>9, UpTo
  <1>11. UpToThis(b - 1) <= target
    <2>1. CASE b = 1
      <3>1. 1 .. 1 - 1 = {}
        OBVIOUS
      <3>2. SumFunctionOnSet(inventory, 1 .. 1 - 1) = 0
        BY <3>1, SumOfNone
      <3>3. QED
        BY <1>2, <2>1, <3>2
    <2>2. CASE b # 1
      <3>1. b - 1 \in Bundles /\ ~ (b <= b - 1)
        BY <1>3, <1>9, <2>2
      <3>2. b - 1 \notin Above
        BY <1>8, <3>1
      <3>3. ~ (target < UpToThis(b - 1))
        BY <3>1, <3>2
      <3> HIDE DEF target, UpToThis
      <3>4. QED
        BY <1>2, <1>10, <3>3
    <2>3. QED
      BY <2>1, <2>2
  <1>12. inventory[b] > 0
    <2> HIDE DEF target, UpToThis
    <2>1. QED
      BY <1>2, <1>9, <1>10, <1>11
  <1>13. QED
    BY <1>9, <1>10, <1>11, <1>12 DEF b

-----------------------------------------------------------------------------
(* The chain.  A status only grows, and the queue is kept.                 *)

OnTheChain ==
  /\ answer \in [Openings -> Entropy]
  /\ opening \in [Openings -> [status : Status, seed : 0 .. MaxSlot,
                               bundle : {0} \cup Bundles]]
  /\ remaining \in [Bundles -> Nat]
  /\ head \in 1 .. MaxOpenings + 1
  /\ slot \in 0 .. MaxSlot
  /\ Queue

Grows ==
  /\ answer' = answer /\ slot <= slot'
  /\ \A o \in Openings :
       /\ opening[o].status <= opening'[o].status
       /\ opening[o].status # Absent =>
            opening'[o].status # Absent /\ opening'[o].seed = opening[o].seed

USE DEF Absent, Committed, Revealed, Allocated, Delivered, ForfeitedStatus, Closed

LEMMA Known ==
  ASSUME OnTheChain
  PROVE  /\ \A o \in Openings : /\ opening[o].status \in -1 .. 5
                                /\ opening[o].seed \in 0 .. MaxSlot
                                /\ opening[o].bundle \in {0} \cup Bundles
                                /\ Statuses[o] = opening[o].status
                                /\ o \in Int /\ o >= 1 /\ o <= MaxOpenings
         /\ \A b \in Bundles : b \in Int /\ b >= 1 /\ b # 0
         /\ head \in Nat /\ slot \in Nat
         /\ \A b \in Bundles : IsFiniteSet(Drawn(b))
  <1>1. \A b \in Bundles : IsFiniteSet(Drawn(b))
    BY Sizes, FS_Subset DEF Drawn
  <1>2. QED
    BY <1>1, Sizes DEF OnTheChain, Status, Statuses, Openings

\* An opening's status changes and the head stays.
LEMMA StatusMoves ==
  ASSUME OnTheChain, NEW o \in Openings, NEW s \in Status, NEW d \in 0 .. MaxSlot,
         opening[o].status < s, opening[o].status # Absent => d = opening[o].seed,
         opening' = [opening EXCEPT ![o].status = s, ![o].seed = d],
         s >= Allocated <=> opening[o].status >= Allocated,
         \A p \in Openings : p < o => opening[p].status # Absent,
         answer' = answer, remaining' = remaining, head' = head, slot' = slot
  PROVE  OnTheChain' /\ Grows
  <1>1. /\ opening' \in [Openings -> [status : Status, seed : 0 .. MaxSlot,
                                      bundle : {0} \cup Bundles]]
        /\ \A p \in Openings : opening'[p].bundle = opening[p].bundle
        /\ \A p \in Openings : p # o => opening'[p] = opening[p]
        /\ opening'[o].status = s /\ opening'[o].seed = d
    BY DEF OnTheChain
  <1>2. Grows
    BY <1>1, Known DEF Grows, OnTheChain, Status
  <1>3. InOrder(Statuses)'
    <2>1. \A p \in Openings : Statuses'[p] = opening'[p].status
      BY DEF Statuses
    <2>2. InOrder(Statuses) /\ \A p \in Openings : Statuses[p] = opening[p].status
      BY DEF Statuses, OnTheChain, Queue
    <2> SUFFICES ASSUME NEW q \in Openings, NEW p \in Openings, p < q,
                        opening'[q].status # Absent
                 PROVE  opening'[p].status # Absent
      BY <2>1 DEF InOrder
    <2>3. CASE q = o
      BY <1>2, <2>3 DEF Grows
    <2>4. CASE q # o
      BY <1>1, <1>2, <2>2, <2>4 DEF InOrder, Grows
    <2>5. QED
      BY <2>3, <2>4
  <1>4. \A p \in Openings : p < head' <=> opening'[p].status >= Allocated
    BY <1>1 DEF OnTheChain, Queue
  <1>5. \A p \in Openings : p >= head' => opening'[p].bundle = 0
    BY <1>1 DEF OnTheChain, Queue
  <1>6. \A b \in Bundles : remaining'[b] = Stock[b] - Cardinality(Drawn(b)')
    <2>1. \A b \in Bundles : Drawn(b)' = Drawn(b)
      BY <1>1 DEF Drawn
    <2>2. QED
      BY <2>1 DEF OnTheChain, Queue
  <1>7. QED
    BY <1>1, <1>2, <1>3, <1>4, <1>5, <1>6 DEF OnTheChain, Queue

LEMMA RequestOpenKeeps ==
  ASSUME OnTheChain, NEW o \in Openings, RequestOpen(o)
  PROVE  OnTheChain' /\ Grows
  <1>1. /\ opening[o].status = Absent
        /\ \A p \in Openings : p < o => opening[p].status # Absent
        /\ opening' = [opening EXCEPT ![o].status = Committed, ![o].seed = slot]
        /\ answer' = answer /\ remaining' = remaining /\ head' = head /\ slot' = slot
    BY DEF RequestOpen
  <1>2. /\ Committed \in Status /\ slot \in 0 .. MaxSlot
        /\ opening[o].status < Committed
        /\ Committed >= Allocated <=> opening[o].status >= Allocated
    BY <1>1 DEF Status, OnTheChain
  <1>3. QED
    BY <1>1, <1>2, StatusMoves

\* The same without a new seed.
LEMMA StatusOnly ==
  ASSUME OnTheChain, NEW o \in Openings, NEW s \in Status,
         opening[o].status < s, opening[o].status # Absent,
         opening' = [opening EXCEPT ![o].status = s],
         s >= Allocated <=> opening[o].status >= Allocated,
         answer' = answer, remaining' = remaining, head' = head, slot' = slot
  PROVE  OnTheChain' /\ Grows
  <1>1. opening[o].seed \in 0 .. MaxSlot /\ \A p \in Openings : Statuses[p] = opening[p].status
    BY Known
  <1>2. opening' = [opening EXCEPT ![o].status = s, ![o].seed = opening[o].seed]
    BY DEF OnTheChain
  <1>3. \A p \in Openings : p < o => opening[p].status # Absent
    BY <1>1 DEF OnTheChain, Queue, InOrder
  <1>4. QED
    BY <1>1, <1>2, <1>3, StatusMoves

LEMMA FulfillKeeps ==
  ASSUME OnTheChain, NEW o \in Openings, Fulfill(o)
  PROVE  OnTheChain' /\ Grows
  <1>1. /\ opening[o].status = Committed
        /\ opening' = [opening EXCEPT ![o].status = Revealed]
        /\ answer' = answer /\ remaining' = remaining /\ head' = head /\ slot' = slot
    BY DEF Fulfill
  <1>2. /\ Revealed \in Status /\ opening[o].status < Revealed /\ opening[o].status # Absent
        /\ Revealed >= Allocated <=> opening[o].status >= Allocated
    BY <1>1 DEF Status
  <1>3. QED
    BY <1>1, <1>2, StatusOnly

LEMMA CloseKeeps ==
  ASSUME OnTheChain, NEW o \in Openings, Close(o)
  PROVE  OnTheChain' /\ Grows
  <1>1. /\ opening[o].status \in {Delivered, ForfeitedStatus}
        /\ opening' = [opening EXCEPT ![o].status = Closed]
        /\ answer' = answer /\ remaining' = remaining /\ head' = head /\ slot' = slot
    BY DEF Close
  <1>2. /\ Closed \in Status /\ opening[o].status < Closed /\ opening[o].status # Absent
        /\ Closed >= Allocated <=> opening[o].status >= Allocated
    BY <1>1 DEF Status
  <1>3. QED
    BY <1>1, <1>2, StatusOnly

LEMMA TickKeeps ==
  ASSUME OnTheChain, Tick
  PROVE  OnTheChain' /\ Grows
  <1>1. slot' \in 0 .. MaxSlot /\ slot <= slot' /\ UNCHANGED <<answer, opening, remaining, head>>
    BY Known, Sizes DEF Tick, OnTheChain
  <1>2. OnTheChain'
    BY <1>1 DEF OnTheChain, Queue, InOrder, Statuses, Drawn
  <1>3. Grows
    BY <1>1, Known DEF Grows
  <1>4. QED
    BY <1>2, <1>3

LEMMA ChainRests ==
  ASSUME OnTheChain, UNCHANGED chain
  PROVE  OnTheChain' /\ Grows
  <1>1. OnTheChain'
    BY DEF chain, OnTheChain, Queue, InOrder, Statuses, Drawn
  <1>2. Grows
    BY Known DEF Grows, chain
  <1>3. QED
    BY <1>1, <1>2

\* The head settles: it takes a ticket of bundle b, or none for b = 0.
LEMMA HeadMoves ==
  ASSUME OnTheChain, NEW o \in Openings, o = head, NEW s \in {Allocated, ForfeitedStatus},
         opening[o].status \in {Committed, Revealed},
         NEW b \in {0} \cup Bundles,
         opening' = [opening EXCEPT ![o].status = s, ![o].bundle = b],
         b = 0 => remaining' = remaining,
         b # 0 => remaining[b] > 0 /\ remaining' = [remaining EXCEPT ![b] = @ - 1],
         head' = head + 1, answer' = answer, slot' = slot
  PROVE  OnTheChain' /\ Grows
  <1>1. /\ opening' \in [Openings -> [status : Status, seed : 0 .. MaxSlot,
                                      bundle : {0} \cup Bundles]]
        /\ \A p \in Openings : opening'[p].seed = opening[p].seed
        /\ \A p \in Openings : p # o => opening'[p] = opening[p]
        /\ opening'[o].status = s /\ opening'[o].bundle = b
    <2>1. s \in Status
      BY DEF Status
    <2>2. opening[o] \in [status : Status, seed : 0 .. MaxSlot, bundle : {0} \cup Bundles]
      BY DEF OnTheChain
    <2> DEFINE settled == [opening[o] EXCEPT !.status = s, !.bundle = b]
    <2>3. settled \in [status : Status, seed : 0 .. MaxSlot, bundle : {0} \cup Bundles]
      BY <2>1, <2>2
    <2>4. opening' = [opening EXCEPT ![o] = settled]
      BY <2>2 DEF OnTheChain
    <2>5. settled.status = s /\ settled.bundle = b /\ settled.seed = opening[o].seed
      BY <2>2
    <2> HIDE DEF settled
    <2>6. opening' \in [Openings -> [status : Status, seed : 0 .. MaxSlot,
                                      bundle : {0} \cup Bundles]]
      BY <2>3, <2>4 DEF OnTheChain
    <2>7. opening'[o] = settled /\ \A p \in Openings : p # o => opening'[p] = opening[p]
      BY <2>4 DEF OnTheChain
    <2>8. QED
      BY <2>5, <2>6, <2>7
  <1>2. Grows
    BY <1>1, Known DEF Grows
  <1>3. remaining' \in [Bundles -> Nat] /\ head' \in 1 .. MaxOpenings + 1
    <2>1. remaining' \in [Bundles -> Nat]
      BY DEF OnTheChain
    <2>2. QED
      BY <2>1, Known, Sizes
  <1>4. InOrder(Statuses)'
    <2>1. \A p \in Openings : Statuses'[p] = opening'[p].status
      BY DEF Statuses
    <2>2. InOrder(Statuses) /\ \A p \in Openings : Statuses[p] = opening[p].status
      BY DEF Statuses, OnTheChain, Queue
    <2>3. QED
      BY <1>1, <2>1, <2>2 DEF InOrder
  <1>5. \A p \in Openings : p < head' <=> opening'[p].status >= Allocated
    <2> SUFFICES ASSUME NEW p \in Openings
                 PROVE  p < head' <=> opening'[p].status >= Allocated
      OBVIOUS
    <2>1. p < head <=> opening[p].status >= Allocated
      BY DEF OnTheChain, Queue
    <2>2. p \in Int /\ head \in Int
      BY Known
    <2>3. CASE p = o
      BY <1>1, <2>2, <2>3
    <2>4. CASE p # o
      BY <1>1, <2>1, <2>2, <2>4
    <2>5. QED
      BY <2>3, <2>4
  <1>6. \A p \in Openings : p >= head' => opening'[p].bundle = 0
    BY <1>1, Known DEF OnTheChain, Queue
  <1>7. \A c \in Bundles : remaining'[c] = Stock[c] - Cardinality(Drawn(c)')
    <2> SUFFICES ASSUME NEW c \in Bundles
                 PROVE  remaining'[c] = Stock[c] - Cardinality(Drawn(c)')
      OBVIOUS
    <2>1. remaining[c] = Stock[c] - Cardinality(Drawn(c)) /\ o \notin Drawn(c)
      <3>1. remaining[c] = Stock[c] - Cardinality(Drawn(c))
        BY DEF OnTheChain, Queue
      <3>2. ~ (o < head)
        BY Known
      <3>3. QED
        BY <3>1, <3>2 DEF Drawn
    <2>2. CASE c = b
      <3>1. Drawn(c)' = Drawn(c) \cup {o}
        BY <1>1, <2>2, Known DEF Drawn
      <3>2. /\ Cardinality(Drawn(c)') = Cardinality(Drawn(c)) + 1
            /\ Cardinality(Drawn(c)) \in Nat
        BY <2>1, <3>1, Known, FS_AddElement, FS_CardinalityType
      <3>3. remaining'[c] = remaining[c] - 1
        BY <2>2, Known DEF OnTheChain
      <3>4. QED
        BY <2>1, <3>2, <3>3, Sizes
    <2>3. CASE c # b
      <3>1. Drawn(c)' = Drawn(c)
        BY <1>1, <2>3, Known DEF Drawn
      <3>2. remaining'[c] = remaining[c]
        BY <2>3 DEF OnTheChain
      <3>3. QED
        BY <2>1, <3>1, <3>2
    <2>4. QED
      BY <2>2, <2>3
  <1>8. SumFunction(remaining)' >= MaxOpenings - head' + 1
    <2>1. /\ SumFunction(remaining) = Total(remaining) /\ Total(remaining) \in Nat
          /\ SumFunction(remaining)' = Total(remaining)' /\ Total(remaining)' \in Nat
      <3>1. remaining \in [Bundles -> Nat]
        BY DEF OnTheChain
      <3>2. SumFunction(remaining) = Total(remaining) /\ Total(remaining) \in Nat
        BY <3>1, TotalIsSum
      <3>3. SumFunction(remaining') = Total(remaining') /\ Total(remaining') \in Nat
        BY <1>3, TotalIsSum
      <3>4. QED
        BY <3>2, <3>3
    <2>2. Total(remaining)' >= Total(remaining) - 1
      <3>1. CASE b = 0
        BY <2>1, <3>1
      <3>2. CASE b # 0
        <4>1. /\ \A c \in Bundles : remaining[c] \in Int /\ remaining'[c] \in Int
              /\ \A c \in Bundles \ {b} : remaining[c] = remaining'[c]
              /\ b \in Bundles /\ remaining'[b] = remaining[b] - 1
          BY <1>3, <3>2 DEF OnTheChain
        <4>2. Total(remaining)' = Total(remaining) + (remaining'[b] - remaining[b])
          <5>1. IsFiniteSet(Bundles)
            BY Sizes
          <5>2. SumFunctionOnSet(remaining', Bundles) =
                  SumFunctionOnSet(remaining, Bundles) + (remaining'[b] - remaining[b])
            BY <4>1, <5>1, SumChanged
          <5>3. QED
            BY <5>2 DEF Total, Bundles
        <4>3. QED
          BY <2>1, <4>1, <4>2
      <3>3. QED
        BY <3>1, <3>2
    <2>3. SumFunction(remaining) >= MaxOpenings - head + 1
      BY DEF OnTheChain, Queue
    <2>4. QED
      BY <2>1, <2>2, <2>3, Known, Sizes
  <1>9. QED
    BY <1>1, <1>2, <1>3, <1>4, <1>5, <1>6, <1>7, <1>8 DEF OnTheChain, Queue

LEMMA ForfeitKeeps ==
  ASSUME OnTheChain, NEW o \in Openings, Forfeit(o)
  PROVE  OnTheChain' /\ Grows
  <1>1. opening[o].bundle = 0
    BY Known DEF Forfeit, OnTheChain, Queue
  <1>2. opening' = [opening EXCEPT ![o].status = ForfeitedStatus, ![o].bundle = 0]
    BY <1>1 DEF Forfeit, OnTheChain
  <1>3. QED
    <2>1. /\ o = head /\ opening[o].status = Committed
          /\ answer' = answer /\ remaining' = remaining /\ head' = head + 1 /\ slot' = slot
      BY DEF Forfeit
    <2>2. 0 \in {0} \cup Bundles /\ ForfeitedStatus \in {Allocated, ForfeitedStatus}
      OBVIOUS
    <2>3. QED
      BY <1>2, <2>1, <2>2, HeadMoves

\* The head that is not settled finds a ticket.
LEMMA TicketLeft ==
  ASSUME OnTheChain, head \in Openings
  PROVE  /\ SumFunction(remaining) \in Nat /\ SumFunction(remaining) > 0
         /\ answer[head] \in Nat
         /\ Select(remaining, answer[head]) \in Bundles
         /\ remaining[Select(remaining, answer[head])] > 0
  <1>1. remaining \in [Bundles -> Nat] /\ SumFunction(remaining) >= MaxOpenings - head + 1
    BY DEF OnTheChain, Queue
  <1>2. SumFunction(remaining) \in Nat
    BY <1>1, TotalIsSum
  <1>3. SumFunction(remaining) > 0
    BY <1>1, <1>2, Known, Sizes
  <1>4. answer[head] \in Nat
    BY RelayAssumption DEF OnTheChain
  <1>5. QED
    BY <1>1, <1>2, <1>3, <1>4, Selects

LEMMA ExecuteKeeps ==
  ASSUME OnTheChain, NEW t \in Transactions, Accepted(t), Execute(t)
  PROVE  OnTheChain' /\ Grows
  <1> DEFINE o == t.opening
  <1>1. o \in Openings /\ t.step \in {"settle", "allocate", "claim"}
    BY DEF Transactions, Steps
  <1>2. CASE t.step = "claim"
    <2>1. /\ opening[o].status = Allocated
          /\ opening' = [opening EXCEPT ![o].status = Delivered]
          /\ answer' = answer /\ remaining' = remaining /\ head' = head /\ slot' = slot
      BY <1>2 DEF Accepted, Execute
    <2>2. /\ Delivered \in Status /\ opening[o].status < Delivered
          /\ opening[o].status # Absent
          /\ Delivered >= Allocated <=> opening[o].status >= Allocated
      BY <2>1 DEF Status
    <2> HIDE DEF o
    <2>3. QED
      BY <1>1, <2>1, <2>2, StatusOnly
  <1>3. CASE t.step # "claim"
    <2>1. /\ opening[o].status \in {Committed, Revealed} /\ o = head
          /\ t.bundle = Select(remaining, answer[o])
      BY <1>1, <1>3 DEF Accepted
    <2>2. t.bundle \in Bundles /\ remaining[t.bundle] > 0
      BY <1>1, <2>1, TicketLeft
    <2>3. /\ opening' = [opening EXCEPT ![o].status = Allocated, ![o].bundle = t.bundle]
          /\ remaining' = [remaining EXCEPT ![t.bundle] = @ - 1]
          /\ head' = head + 1 /\ UNCHANGED <<answer, slot>>
      BY <1>3 DEF Execute
    <2>4. t.bundle # 0
      BY <2>2, Known
    <2> HIDE DEF o
    <2>5. QED
      BY <1>1, <2>1, <2>2, <2>3, <2>4, HeadMoves
  <1>4. QED
    BY <1>2, <1>3

-----------------------------------------------------------------------------
(* What a relayer knows stays true while others move.                      *)

LEMMA InvariantParts ==
  ASSUME IInv
  PROVE  /\ OnTheChain
         /\ wire \subseteq Transactions /\ relayer \in [Relayers -> Relayer]
         /\ overtaken \in [Relayers -> BOOLEAN] /\ faulted \in [Relayers -> BOOLEAN]
         /\ \A r \in Relayers : Own(r)
         /\ \A t \in wire : Vouched(t)
  BY DEF IInv, Typed, TypeOK, OnTheChain

LEMMA RelayerFields ==
  ASSUME relayer \in [Relayers -> Relayer], NEW r \in Relayers
  PROVE  /\ relayer[r].inventory \in [Bundles -> Nat]
         /\ relayer[r].slot \in 0 .. MaxSlot
         /\ relayer[r].view \in [Openings -> Status]
         /\ \A o \in Openings : relayer[r].view[o] \in -1 .. 5
         /\ relayer[r].at \in 0 .. MaxOpenings + 1
         /\ relayer[r].pc \in {"idle", "list", "walk", "wait", "error", "reread", "retemplate"}
         /\ relayer[r].report \in {"none", "done", "stopped", "blocked", "failed"}
  BY DEF Relayer, Status

\* What was read stays behind the chain.
LEMMA StaysEarlier ==
  ASSUME OnTheChain, OnTheChain', Grows,
         NEW status \in [Openings -> Status], NEW at \in 0 .. MaxSlot,
         Earlier(status, at)
  PROVE  /\ InOrder(status)
         /\ \A o \in Openings : status[o] <= opening'[o].status
         /\ at <= slot'
  <1>1. \A o \in Openings : /\ status[o] \in -1 .. 5 /\ opening[o].status \in -1 .. 5
                            /\ opening'[o].status \in -1 .. 5
    BY Known DEF Status, OnTheChain
  <1>2. at \in Int /\ slot \in Int /\ slot' \in Int
    BY Sizes DEF OnTheChain
  <1>3. QED
    BY <1>1, <1>2 DEF Earlier, Grows

LEMMA OwnStays ==
  ASSUME IInv, OnTheChain', Grows, NEW r \in Relayers, relayer'[r] = relayer[r],
         ~overtaken'[r] => ~overtaken[r] /\ remaining' = remaining,
         faulted'[r] = faulted[r]
  PROVE  Own(r)'
  <1>1. /\ OnTheChain /\ relayer \in [Relayers -> Relayer] /\ Own(r)
        /\ overtaken \in [Relayers -> BOOLEAN] /\ faulted \in [Relayers -> BOOLEAN]
    BY InvariantParts
  <1>2. /\ relayer[r].slot \in 0 .. MaxSlot /\ relayer[r].view \in [Openings -> Status]
        /\ \A o \in Openings : relayer[r].view[o] \in -1 .. 5
    BY <1>1, RelayerFields
  <1>3. Earlier(relayer[r].view, relayer[r].slot)'
    <2>1. Earlier(relayer[r].view, relayer[r].slot)
      BY <1>1 DEF Own
    <2>2. /\ InOrder(relayer[r].view)
          /\ \A o \in Openings : relayer[r].view[o] <= opening'[o].status
          /\ relayer[r].slot <= slot'
      BY <1>1, <1>2, <2>1, StaysEarlier
    <2>3. QED
      BY <2>2 DEF Earlier, InOrder
  <1>4. Position(r)'
    BY <1>1 DEF Own, Position, Within, Seen
  <1>5. \A o \in Openings : /\ opening[o].status \in -1 .. 5 /\ opening'[o].status \in -1 .. 5
                            /\ opening[o].status <= opening'[o].status
    BY <1>1, Known DEF OnTheChain, Status, Grows
  <1>6. Knows(r)'
    <2> SUFFICES ASSUME ~overtaken'[r]
                 PROVE  /\ relayer[r].pc \in {"list", "walk", "wait"} =>
                             relayer[r].inventory = remaining
                        /\ relayer[r].pc = "error" /\ ~faulted'[r] =>
                             opening'[relayer[r].at].status > relayer[r].view[relayer[r].at]
      BY DEF Knows, Seen
    <2>1. Knows(r)
      BY <1>1 DEF Own
    <2>2. ~overtaken[r] /\ remaining' = remaining
      OBVIOUS
    <2>3. relayer[r].pc \in {"list", "walk", "wait"} => relayer[r].inventory = remaining
      BY <2>1, <2>2 DEF Knows
    <2>4. ASSUME relayer[r].pc = "error", ~faulted'[r]
          PROVE  opening'[relayer[r].at].status > relayer[r].view[relayer[r].at]
      <3>1. ~faulted[r]
        BY <2>4
      <3>2. opening[relayer[r].at].status > relayer[r].view[relayer[r].at]
        BY <2>1, <2>2, <2>4, <3>1 DEF Knows, Seen
      <3>3. relayer[r].at \in Openings
        BY <1>1, <2>4 DEF Own, Position
      <3>4. QED
        BY <1>2, <1>5, <3>2, <3>3
    <2>5. QED
      BY <2>2, <2>3, <2>4
  <1>7. Honest(r)'
    <2>1. Honest(r) /\ Earlier(relayer[r].view, relayer[r].slot)
      BY <1>1 DEF Own
    <2>2. relayer[r].report = "failed" => overtaken'[r] \/ faulted'[r]
      BY <2>1 DEF Honest
    <2>3. ASSUME relayer[r].report = "done", NEW o \in Openings,
                 relayer[r].view[o] \in OnChain, Until[r] # 0 => o <= Until[r]
          PROVE  ~NeedsWork(r, opening'[o].status)
      <3>1. ~NeedsWork(r, opening[o].status)
        BY <2>1, <2>3 DEF Honest
      <3>2. relayer[r].view[o] <= opening[o].status
        BY <2>1 DEF Earlier
      <3>3. QED
        BY <1>2, <1>5, <2>3, <3>1, <3>2 DEF NeedsWork, OnChain
    <2>4. QED
      BY <2>2, <2>3 DEF Honest
  <1>8. QED
    BY <1>3, <1>4, <1>6, <1>7 DEF Own

LEMMA VouchedStays ==
  ASSUME IInv, OnTheChain', Grows, NEW t \in wire, t.late \/ relayer'[t.by] = relayer[t.by]
  PROVE  Vouched(t)'
  <1> SUFFICES ASSUME ~t.late PROVE Vouched(t)'
    BY DEF Vouched
  <1> DEFINE r == t.by
  <1>1. /\ OnTheChain /\ relayer \in [Relayers -> Relayer] /\ r \in Relayers
        /\ Own(r) /\ Vouched(t)
    BY InvariantParts DEF Transactions
  <1>2. relayer[r].pc = "wait" /\ relayer[r].at \in Openings
    BY <1>1 DEF Vouched, Own, Position
  <1>3. Seen(r)' = Seen(r) /\ Predicted(r)' = Predicted(r) /\ Predictable(r)' = Predictable(r)
    BY DEF Seen, Predicted, Predictable, Grows
  <1>4. t = Sent(r)'
    BY <1>1, <1>3 DEF Vouched, Sent
  <1>5. ~WaitForSeed(r)'
    <2>1. ASSUME Seen(r) = Committed PROVE opening'[relayer[r].at].seed = opening[relayer[r].at].seed
      <3>1. relayer[r].view[relayer[r].at] <= opening[relayer[r].at].status
        BY <1>1, <1>2 DEF Own, Earlier
      <3>2. opening[relayer[r].at].status # Absent
        BY <1>1, <1>2, <2>1, <3>1, Known DEF Seen
      <3>3. QED
        BY <1>2, <3>2 DEF Grows
    <2>2. ~WaitForSeed(r)
      BY <1>1 DEF Vouched
    <2>3. QED
      BY <1>3, <2>1, <2>2 DEF WaitForSeed
  <1>6. QED
    BY <1>1, <1>2, <1>3, <1>4, <1>5 DEF Vouched

\* The parts of the invariant again, after a step.
LEMMA Reassemble ==
  ASSUME IInv, OnTheChain', Grows, confirmed' = confirmed,
         wire' \subseteq Transactions, relayer' \in [Relayers -> Relayer],
         overtaken' \in [Relayers -> BOOLEAN], faulted' \in [Relayers -> BOOLEAN],
         \A t \in wire' : Vouched(t)', \A r \in Relayers : Own(r)'
  PROVE  IInv'
  <1>1. OnTheChain /\ confirmed \in [status : [Openings -> Status], slot : 0 .. MaxSlot]
    BY InvariantParts DEF IInv, Typed
  <1>2. Earlier(confirmed.status, confirmed.slot)'
    <2>1. /\ Earlier(confirmed.status, confirmed.slot)
          /\ confirmed.status \in [Openings -> Status] /\ confirmed.slot \in 0 .. MaxSlot
      BY <1>1 DEF IInv
    <2>2. /\ InOrder(confirmed.status)
          /\ \A o \in Openings : confirmed.status[o] <= opening'[o].status
          /\ confirmed.slot <= slot'
      BY <1>1, <2>1, StaysEarlier
    <2>3. QED
      BY <2>2 DEF Earlier, InOrder
  <1>3. Typed'
    BY <1>1 DEF Typed, TypeOK, OnTheChain
  <1>4. QED
    BY <1>2, <1>3 DEF IInv, OnTheChain

\* Only the chain moves, and no ticket is drawn; transactions may vanish.
LEMMA ChainMoves ==
  ASSUME IInv, OnTheChain', Grows, wire' \subseteq wire, remaining' = remaining,
         UNCHANGED <<confirmed, relayer, overtaken, faulted>>
  PROVE  IInv'
  <1>1. \A r \in Relayers : Own(r)'
    BY OwnStays
  <1>2. \A t \in wire' : Vouched(t)'
    BY VouchedStays
  <1>3. QED
    BY <1>1, <1>2, Reassemble, InvariantParts

\* Only what relayer r knows changes.
LEMMA RelayerMoves ==
  ASSUME IInv, UNCHANGED <<chain, confirmed>>, NEW r \in Relayers, NEW x \in Relayer,
         relayer' = [relayer EXCEPT ![r] = x],
         overtaken' \in [Relayers -> BOOLEAN], faulted' \in [Relayers -> BOOLEAN],
         \A q \in Relayers : q # r => overtaken'[q] = overtaken[q] /\ faulted'[q] = faulted[q],
         wire' \subseteq Transactions,
         \A t \in wire' : \/ t \in wire /\ (t.late \/ t.by # r)
                          \/ Vouched(t)',
         Own(r)'
  PROVE  IInv'
  <1>1. OnTheChain' /\ Grows
    BY ChainRests, InvariantParts
  <1>2. relayer' \in [Relayers -> Relayer] /\ \A q \in Relayers : q # r => relayer'[q] = relayer[q]
    BY InvariantParts
  <1>3. \A q \in Relayers : Own(q)'
    <2> SUFFICES ASSUME NEW q \in Relayers, q # r PROVE Own(q)'
      OBVIOUS
    <2>1. remaining' = remaining
      BY DEF chain
    <2>2. QED
      BY <1>1, <1>2, <2>1, OwnStays
  <1>4. \A t \in wire' : Vouched(t)'
    <2> SUFFICES ASSUME NEW t \in wire, t.late \/ t.by # r PROVE Vouched(t)'
      OBVIOUS
    <2>1. t.by \in Relayers
      BY InvariantParts DEF Transactions
    <2>2. QED
      BY <1>1, <1>2, <2>1, VouchedStays
  <1>5. confirmed' = confirmed
    OBVIOUS
  <1>6. QED
    BY <1>1, <1>2, <1>3, <1>4, <1>5, Reassemble

-----------------------------------------------------------------------------
(* The steps of a pass.                                                    *)

LEMMA Listing ==
  ASSUME NEW view \in [Openings -> Status], NEW from \in 1 .. MaxOpenings + 1
  PROVE  /\ FirstListed(view, from) \in 1 .. MaxOpenings + 1
         /\ \A o \in Openings : from <= o /\ o < FirstListed(view, from) => view[o] \notin OnChain
  <1> DEFINE listed == Listed(view, from)
  <1>1. MaxOpenings \in Nat /\ Openings = 1 .. MaxOpenings
    BY Sizes DEF Openings
  <1>2. CASE listed = {}
    <2>1. FirstListed(view, from) = MaxOpenings + 1
      BY <1>2 DEF FirstListed
    <2>2. QED
      BY <1>1, <1>2, <2>1 DEF Listed
  <1>3. CASE listed # {}
    <2>1. listed \in SUBSET (0 .. MaxOpenings)
      BY <1>1 DEF Listed
    <2>2. \E k \in listed : \A j \in listed : k <= j
      <3> HIDE DEF listed
      <3>1. QED
        BY <1>1, <1>3, <2>1, LeastNumber
    <2>3. FirstListed(view, from) = CHOOSE k \in listed : \A j \in listed : k <= j
      BY <1>3 DEF FirstListed, Min
    <2>4. /\ FirstListed(view, from) \in listed
          /\ \A j \in listed : FirstListed(view, from) <= j
      <3> HIDE DEF listed
      <3>1. QED
        BY <2>2, <2>3
    <2> DEFINE first == FirstListed(view, from)
    <2>5. first \in Openings
      BY <2>4 DEF Listed
    <2> HIDE DEF first
    <2>6. \A o \in Openings : o < first => o \notin listed
      BY <1>1, <2>4, <2>5 DEF first
    <2>7. \A o \in Openings : from <= o /\ o < first => view[o] \notin OnChain
      BY <1>1, <2>6 DEF Listed
    <2>8. QED
      BY <1>1, <2>5, <2>7 DEF first
  <1>4. QED
    BY <1>2, <1>3

\* Only a relayer that waits has a transaction that somebody waits for.
LEMMA NothingAwaited ==
  ASSUME IInv, NEW r \in Relayers, relayer[r].pc # "wait"
  PROVE  \A t \in wire : t.late \/ t.by # r
  BY InvariantParts DEF Vouched

LEMMA AtRest ==
  /\ Resting \in Relayer
  /\ Resting.pc = "idle" /\ Resting.inventory = Stock /\ Resting.slot = 0
  /\ Resting.at = 0 /\ Resting.report = "none"
  /\ Resting.view \in [Openings -> Status] /\ \A o \in Openings : Resting.view[o] = Absent
  <1>1. Absent \in Status /\ 0 \in 0 .. MaxSlot /\ 0 \in 0 .. MaxOpenings + 1
    BY Sizes DEF Status
  <1>2. Stock \in [Bundles -> Nat]
    BY Sizes
  <1>3. QED
    BY <1>1, <1>2 DEF Resting, Relayer

\* A relayer that starts again has read nothing.
LEMMA NothingRead ==
  ASSUME IInv, OnTheChain', NEW view \in [Openings -> Status],
         \A o \in Openings : view[o] = Absent
  PROVE  /\ InOrder(view)
         /\ \A o \in Openings : view[o] <= opening'[o].status
         /\ 0 <= slot'
  <1>1. \A o \in Openings : opening'[o].status \in -1 .. 5
    BY DEF OnTheChain, Status
  <1>2. slot' \in Nat
    BY Sizes DEF OnTheChain
  <1>3. QED
    BY <1>1, <1>2 DEF InOrder

LEMMA ReturnKeeps ==
  ASSUME IInv, NEW r \in Relayers, relayer[r].pc # "wait",
         NEW report \in {"done", "stopped", "blocked", "failed"}, Return(r, report),
         report = "failed" => overtaken[r] \/ faulted[r],
         report = "done" =>
           \A o \in Openings :
             relayer[r].view[o] \in OnChain /\ (Until[r] # 0 => o <= Until[r])
             => ~NeedsWork(r, relayer[r].view[o])
  PROVE  IInv'
  <1> DEFINE view == IF report = "done" THEN relayer[r].view ELSE Resting.view
             x == [Resting EXCEPT !.report = report, !.view = view]
  <1>1. /\ UNCHANGED chain /\ confirmed' = confirmed /\ wire' = wire
        /\ relayer' = [relayer EXCEPT ![r] = x]
        /\ overtaken' = [overtaken EXCEPT ![r] = report = "failed" /\ @]
        /\ faulted' = [faulted EXCEPT ![r] = report = "failed" /\ @]
    BY DEF Return
  <1>2. /\ OnTheChain /\ wire \subseteq Transactions /\ relayer \in [Relayers -> Relayer]
        /\ overtaken \in [Relayers -> BOOLEAN] /\ faulted \in [Relayers -> BOOLEAN]
        /\ Own(r)
    BY InvariantParts
  <1>3. /\ relayer[r].view \in [Openings -> Status]
        /\ \A o \in Openings : relayer[r].view[o] \in -1 .. 5
        /\ relayer[r].slot \in 0 .. MaxSlot
    BY <1>2, RelayerFields
  <1>4. view \in [Openings -> Status]
    BY <1>3, AtRest
  <1>5. /\ x \in Relayer /\ x.report = report /\ x.view = view /\ x.pc = "idle"
        /\ x.slot = 0
    <2> HIDE DEF view
    <2>1. QED
      BY <1>4, AtRest DEF Relayer
  <1>6. /\ overtaken' \in [Relayers -> BOOLEAN] /\ faulted' \in [Relayers -> BOOLEAN]
        /\ \A q \in Relayers : q # r => overtaken'[q] = overtaken[q] /\ faulted'[q] = faulted[q]
        /\ report = "failed" => overtaken'[r] \/ faulted'[r]
    BY <1>1, <1>2
  <1>7. OnTheChain' /\ Grows
    BY <1>1, <1>2, ChainRests
  <1> HIDE DEF x
  <1>8. relayer'[r] = x
    BY <1>1, <1>2
  <1>9. Own(r)'
    <2>1. /\ InOrder(view) /\ \A o \in Openings : view[o] <= opening'[o].status
          /\ 0 <= slot'
      <3>1. CASE report = "done"
        <4>1. Earlier(relayer[r].view, relayer[r].slot)
          BY <1>2 DEF Own
        <4>2. /\ InOrder(relayer[r].view)
              /\ \A o \in Openings : relayer[r].view[o] <= opening'[o].status
          BY <1>2, <1>3, <1>7, <4>1, StaysEarlier
        <4>3. slot' \in Nat
          BY <1>7, Sizes DEF OnTheChain
        <4>4. QED
          BY <3>1, <4>2, <4>3
      <3>2. CASE report # "done"
        <4>1. view = Resting.view
          BY <3>2
        <4>2. QED
          BY <1>7, <4>1, AtRest, NothingRead
      <3>3. QED
        BY <3>1, <3>2
    <2> HIDE DEF view
    <2>2. Earlier(relayer[r].view, relayer[r].slot)'
      BY <1>5, <1>8, <2>1 DEF Earlier, InOrder
    <2>3. Position(r)' /\ Knows(r)'
      BY <1>5, <1>8 DEF Position, Within, Knows
    <2>4. Honest(r)'
      <3>1. ASSUME report = "done", NEW o \in Openings, view[o] \in OnChain,
                   Until[r] # 0 => o <= Until[r]
            PROVE  ~NeedsWork(r, opening'[o].status)
        <4>1. view = relayer[r].view
          BY <3>1 DEF view
        <4>2. ~NeedsWork(r, view[o]) /\ view[o] \in -1 .. 5
          BY <1>3, <3>1, <4>1
        <4>3. view[o] <= opening'[o].status /\ opening'[o].status \in -1 .. 5
          BY <1>7, <2>1 DEF OnTheChain, Status
        <4>4. QED
          BY <3>1, <4>2, <4>3 DEF NeedsWork, OnChain
      <3>2. QED
        BY <1>5, <1>6, <1>8, <3>1 DEF Honest
    <2>5. QED
      BY <2>2, <2>3, <2>4 DEF Own
  <1>10. QED
    BY <1>1, <1>2, <1>5, <1>6, <1>9, NothingAwaited, RelayerMoves

\* Relayer r goes to another place and knows no more than before.
LEMMA PlaceMoves ==
  ASSUME IInv, UNCHANGED <<chain, confirmed>>, NEW r \in Relayers, relayer[r].pc # "idle",
         NEW pc \in {"walk", "wait", "error", "reread"}, NEW at \in 0 .. MaxOpenings + 1,
         relayer' = [relayer EXCEPT ![r].pc = pc, ![r].at = at],
         overtaken' = overtaken, faulted' \in [Relayers -> BOOLEAN],
         \A q \in Relayers : q # r => faulted'[q] = faulted[q],
         wire' \subseteq Transactions,
         \A t \in wire' : \/ t \in wire /\ (t.late \/ t.by # r)
                          \/ Vouched(t)',
         Position(r)', Knows(r)'
  PROVE  IInv'
  <1> DEFINE x == [relayer[r] EXCEPT !.pc = pc, !.at = at]
  <1>1. /\ OnTheChain /\ relayer \in [Relayers -> Relayer] /\ Own(r)
        /\ overtaken \in [Relayers -> BOOLEAN]
    BY InvariantParts
  <1>2. relayer' = [relayer EXCEPT ![r] = x] /\ relayer'[r] = x
    BY <1>1
  <1>3. relayer[r] \in Relayer
    BY <1>1
  <1>4. /\ x \in Relayer /\ x.view = relayer[r].view /\ x.slot = relayer[r].slot
        /\ x.report = relayer[r].report
    BY <1>3 DEF Relayer
  <1> HIDE DEF x
  <1>5. opening' = opening /\ slot' = slot
    BY DEF chain
  <1>6. Own(r)'
    <2>1. Earlier(relayer[r].view, relayer[r].slot)'
      BY <1>1, <1>2, <1>4, <1>5 DEF Own, Earlier, InOrder
    <2>2. Honest(r)'
      <3>1. relayer[r].report = "none"
        BY <1>1 DEF Own, Position
      <3>2. QED
        BY <1>2, <1>4, <3>1 DEF Honest
    <2>3. QED
      BY <2>1, <2>2 DEF Own
  <1>7. /\ overtaken' \in [Relayers -> BOOLEAN]
        /\ \A q \in Relayers : q # r => overtaken'[q] = overtaken[q] /\ faulted'[q] = faulted[q]
    BY <1>1
  <1>8. QED
    BY <1>2, <1>4, <1>6, <1>7, RelayerMoves

LEMMA SamePlace ==
  ASSUME IInv, NEW r \in Relayers, NEW pc, relayer' = [relayer EXCEPT ![r].pc = pc]
  PROVE  /\ relayer' = [relayer EXCEPT ![r].pc = pc, ![r].at = relayer[r].at]
         /\ relayer[r].at \in 0 .. MaxOpenings + 1
         /\ relayer'[r].pc = pc
         /\ relayer'[r].at = relayer[r].at
         /\ relayer'[r].view = relayer[r].view
         /\ relayer'[r].slot = relayer[r].slot
         /\ relayer'[r].inventory = relayer[r].inventory
         /\ relayer'[r].report = relayer[r].report
  <1>1. relayer \in [Relayers -> Relayer]
    BY InvariantParts
  <1>2. relayer[r] \in Relayer
    BY <1>1
  <1>3. relayer'[r] = [relayer[r] EXCEPT !.pc = pc]
    BY <1>1
  <1>4. [relayer[r] EXCEPT !.pc = pc] = [relayer[r] EXCEPT !.pc = pc, !.at = relayer[r].at]
    BY <1>2 DEF Relayer
  <1>5. relayer' = [relayer EXCEPT ![r].pc = pc, ![r].at = relayer[r].at]
    BY <1>1, <1>4
  <1>6. QED
    BY <1>1, <1>2, <1>3, <1>5 DEF Relayer

\* What a relayer that walks, or stands at an opening, knows of it.
LEMMA AtWork ==
  ASSUME IInv, NEW r \in Relayers, relayer[r].at \in Openings
  PROVE  /\ Seen(r) \in -1 .. 5 /\ opening[relayer[r].at].status \in -1 .. 5
         /\ Seen(r) <= opening[relayer[r].at].status
         /\ NeedsWork(r, Seen(r)) => Seen(r) \in 0 .. 2 /\ Seen(r) # Absent
         /\ answer[relayer[r].at] \in Nat
         /\ relayer[r].inventory \in [Bundles -> Nat]
         /\ slot \in Nat /\ relayer[r].slot \in Nat /\ relayer[r].slot <= slot
  <1>1. OnTheChain /\ relayer \in [Relayers -> Relayer] /\ Own(r)
    BY InvariantParts
  <1>2. Seen(r) \in -1 .. 5 /\ relayer[r].inventory \in [Bundles -> Nat] /\ relayer[r].slot \in Nat
    BY <1>1, RelayerFields, Sizes DEF Seen
  <1>3. opening[relayer[r].at].status \in -1 .. 5 /\ slot \in Nat
    BY <1>1, Known
  <1>4. Seen(r) <= opening[relayer[r].at].status /\ relayer[r].slot <= slot
    BY <1>1 DEF Own, Earlier, Seen
  <1>5. answer[relayer[r].at] \in Nat
    BY <1>1, RelayAssumption DEF OnTheChain
  <1>6. QED
    BY <1>2, <1>3, <1>4, <1>5 DEF NeedsWork

\* An opening whose step is still to be done is the head of the queue.
LEMMA WorkIsAtHead ==
  ASSUME IInv, NEW r \in Relayers, Within(r), relayer[r].at \in Openings,
         NeedsWork(r, Seen(r)), Seen(r) # Allocated,
         opening[relayer[r].at].status = Seen(r)
  PROVE  relayer[r].at = head
  <1> DEFINE at == relayer[r].at
  <1>1. OnTheChain /\ relayer \in [Relayers -> Relayer] /\ Own(r)
    BY InvariantParts
  <1>2. Seen(r) \in {Committed, Revealed}
    BY DEF NeedsWork
  <1>3. ~ (at < head)
    BY <1>1, <1>2 DEF OnTheChain, Queue
  <1>4. at \in Int /\ head \in Int /\ at <= MaxOpenings /\ head >= 1 /\ MaxOpenings \in Nat
    BY <1>1, Known, Sizes DEF OnTheChain
  <1>5. ASSUME head < at PROVE FALSE
    <2>1. head \in Openings
      BY <1>4, <1>5 DEF Openings
    <2>2. relayer[r].view[head] # Absent
      BY <1>1, <1>2, <1>5, <2>1 DEF Own, Earlier, InOrder, Seen
    <2>3. relayer[r].view[head] <= opening[head].status
      BY <1>1, <2>1 DEF Own, Earlier
    <2>4. ~ (opening[head].status >= Allocated)
      BY <1>1, <1>4, <2>1 DEF OnTheChain, Queue
    <2>5. relayer[r].view[head] \in -1 .. 5 /\ opening[head].status \in -1 .. 5
      BY <1>1, <2>1, RelayerFields, Known
    <2>6. relayer[r].view[head] \in {Committed, Revealed}
      BY <2>2, <2>3, <2>4, <2>5
    <2>7. ~NeedsWork(r, relayer[r].view[head])
      BY <1>1, <1>5, <2>1, <2>6 DEF Own, Position, OnChain
    <2>8. QED
      BY <2>6, <2>7 DEF NeedsWork
  <1>6. QED
    BY <1>3, <1>4, <1>5

LEMMA StopEarlyKeeps ==
  ASSUME IInv, NEW r \in Relayers, StopEarly(r)
  PROVE  IInv'
  BY ReturnKeeps DEF StopEarly, Walking

LEMMA WaitForSeedSlotKeeps ==
  ASSUME IInv, NEW r \in Relayers, WaitForSeedSlot(r)
  PROVE  IInv'
  BY ReturnKeeps DEF WaitForSeedSlot, Walking

LEMMA EndOfListKeeps ==
  ASSUME IInv, NEW r \in Relayers, EndOfList(r)
  PROVE  IInv'
  <1>1. relayer[r].pc = "walk" /\ relayer[r].at \notin Openings /\ Return(r, "done")
    BY DEF EndOfList
  <1>2. relayer \in [Relayers -> Relayer] /\ Position(r)
    BY InvariantParts DEF Own
  <1>3. relayer[r].at >= 1 /\ relayer[r].at \in 0 .. MaxOpenings + 1
    BY <1>1, <1>2, RelayerFields DEF Position, Within
  <1>4. \A o \in Openings : o < relayer[r].at
    BY <1>1, <1>3, Sizes DEF Openings
  <1>5. \A o \in Openings : relayer[r].view[o] \in OnChain => ~NeedsWork(r, relayer[r].view[o])
    BY <1>1, <1>2, <1>4 DEF Position, Within
  <1>6. QED
    BY <1>1, <1>5, ReturnKeeps

LEMMA NextOpeningKeeps ==
  ASSUME IInv, NEW r \in Relayers, NextOpening(r)
  PROVE  IInv'
  <1> DEFINE at == relayer[r].at
             view == relayer[r].view
  <1>1. relayer[r].pc = "walk" /\ at \in Openings /\ ~NeedsWork(r, view[at])
    BY DEF NextOpening, Walking, Seen
  <1>2. relayer \in [Relayers -> Relayer] /\ Position(r) /\ Knows(r)
        /\ wire \subseteq Transactions
        /\ overtaken \in [Relayers -> BOOLEAN] /\ faulted \in [Relayers -> BOOLEAN]
    BY InvariantParts DEF Own
  <1>3. view \in [Openings -> Status] /\ at \in 1 .. MaxOpenings /\ MaxOpenings \in Nat
    BY <1>1, <1>2, RelayerFields, Sizes DEF Openings
  <1>4. \A o \in Openings : o <= at /\ view[o] \in OnChain => ~NeedsWork(r, view[o])
    BY <1>1, <1>2, <1>3 DEF Position, Within, Openings
  <1>5. CASE Until[r] = at
    <2>1. Return(r, "done")
      BY <1>5 DEF NextOpening
    <2>2. Until[r] # 0
      BY <1>3, <1>5
    <2>3. QED
      BY <1>1, <1>4, <1>5, <2>1, <2>2, ReturnKeeps
  <1>6. CASE Until[r] # at
    <2> DEFINE next == FirstListed(view, at + 1)
    <2>1. /\ relayer' = [relayer EXCEPT ![r].at = next]
          /\ UNCHANGED <<chain, confirmed>> /\ wire' = wire
          /\ overtaken' = overtaken /\ faulted' = faulted
      BY <1>6 DEF NextOpening
    <2>2. /\ next \in 1 .. MaxOpenings + 1
          /\ \A o \in Openings : at + 1 <= o /\ o < next => view[o] \notin OnChain
      BY <1>3, Listing
    <2> HIDE DEF next
    <2>3. /\ relayer' = [relayer EXCEPT ![r].pc = "walk", ![r].at = next]
          /\ relayer'[r].pc = "walk" /\ relayer'[r].at = next
          /\ relayer'[r].view = view /\ relayer'[r].report = relayer[r].report
          /\ relayer'[r].inventory = relayer[r].inventory
      <3>1. relayer[r] \in Relayer
        BY <1>2
      <3>2. relayer'[r] = [relayer[r] EXCEPT !.at = next]
        BY <1>2, <2>1
      <3>3. [relayer[r] EXCEPT !.at = next] = [relayer[r] EXCEPT !.pc = "walk", !.at = next]
        BY <1>1, <3>1 DEF Relayer
      <3>4. relayer' = [relayer EXCEPT ![r].pc = "walk", ![r].at = next]
        BY <1>2, <2>1, <3>3
      <3>5. QED
        BY <1>1, <3>1, <3>2, <3>4 DEF Relayer
    <2>4. Position(r)'
      <3>1. \A o \in Openings : o < next /\ view[o] \in OnChain => ~NeedsWork(r, view[o])
        BY <1>3, <1>4, <2>2 DEF Openings
      <3>2. next >= 1
        BY <2>2
      <3>3. QED
        BY <1>1, <1>2, <2>3, <3>1, <3>2 DEF Position, Within
    <2>5. Knows(r)'
      <3>1. remaining' = remaining
        BY <2>1 DEF chain
      <3>2. QED
        BY <1>1, <1>2, <2>1, <2>3, <3>1 DEF Knows
    <2>6. next \in 0 .. MaxOpenings + 1
      BY <2>2
    <2>7. QED
      BY <1>1, <1>2, <2>1, <2>3, <2>4, <2>5, <2>6, NothingAwaited, PlaceMoves
  <1>7. QED
    BY <1>5, <1>6

\* Relayer r stops where it is: it was refused, or it failed.
LEMMA StopsAt ==
  ASSUME IInv, UNCHANGED <<chain, confirmed>>, NEW r \in Relayers,
         relayer[r].pc \in {"walk", "wait"}, relayer[r].at \in Openings, NeedsWork(r, Seen(r)),
         relayer' = [relayer EXCEPT ![r].pc = "error"],
         overtaken' = overtaken, faulted' \in [Relayers -> BOOLEAN],
         \A q \in Relayers : q # r => faulted'[q] = faulted[q],
         wire' \subseteq Transactions,
         \A t \in wire' : (t \in wire /\ (t.late \/ t.by # r)) \/ Vouched(t)',
         faulted'[r] \/ overtaken[r] \/ opening[relayer[r].at].status > Seen(r)
  PROVE  IInv'
  <1>1. /\ relayer' = [relayer EXCEPT ![r].pc = "error", ![r].at = relayer[r].at]
        /\ relayer[r].at \in 0 .. MaxOpenings + 1
        /\ relayer'[r].pc = "error" /\ relayer'[r].at = relayer[r].at
        /\ relayer'[r].view = relayer[r].view /\ relayer'[r].report = relayer[r].report
    BY SamePlace
  <1>2. Position(r)'
    <2>1. Position(r)
      BY InvariantParts DEF Own
    <2>2. QED
      BY <1>1, <2>1 DEF Position, Within, Seen
  <1>3. Knows(r)'
    <2>1. opening' = opening
      BY DEF chain
    <2>2. QED
      BY <1>1, <2>1 DEF Knows, Seen
  <1>4. QED
    BY <1>1, <1>2, <1>3, PlaceMoves

LEMMA SamplerThrowsKeeps ==
  ASSUME IInv, NEW r \in Relayers, SamplerThrows(r)
  PROVE  IInv'
  <1>1. /\ relayer[r].pc = "walk" /\ relayer[r].at \in Openings /\ NeedsWork(r, Seen(r))
        /\ ~Predictable(r)
        /\ relayer' = [relayer EXCEPT ![r].pc = "error"]
        /\ UNCHANGED <<chain, confirmed>> /\ wire' = wire
        /\ overtaken' = overtaken /\ faulted' = faulted
    BY DEF SamplerThrows, Walking
  <1>2. OnTheChain /\ Knows(r) /\ wire \subseteq Transactions /\ faulted \in [Relayers -> BOOLEAN]
    BY InvariantParts DEF Own
  <1>3. overtaken[r] \/ opening[relayer[r].at].status > Seen(r)
    <2> SUFFICES ASSUME ~overtaken[r], ~ (opening[relayer[r].at].status > Seen(r))
                 PROVE  FALSE
      OBVIOUS
    <2>1. opening[relayer[r].at].status = Seen(r) /\ Seen(r) # Allocated
      BY <1>1, AtWork DEF Predictable
    <2>2. relayer[r].at = head
      BY <1>1, <2>1, WorkIsAtHead DEF Within
    <2>3. relayer[r].inventory = remaining
      BY <1>1, <1>2 DEF Knows
    <2>4. SumFunction(remaining) > 0
      BY <1>1, <1>2, <2>2, TicketLeft
    <2>5. QED
      BY <1>1, <2>3, <2>4 DEF Predictable
  <1>4. QED
    BY <1>1, <1>2, <1>3, NothingAwaited, StopsAt

LEMMA CallFailsKeeps ==
  ASSUME IInv, NEW r \in Relayers, CallFails(r)
  PROVE  IInv'
  <1>1. /\ relayer[r].pc = "walk" /\ relayer[r].at \in Openings /\ NeedsWork(r, Seen(r))
        /\ relayer' = [relayer EXCEPT ![r].pc = "error"]
        /\ UNCHANGED <<chain, confirmed>> /\ wire' = wire
        /\ overtaken' = overtaken /\ faulted' = [faulted EXCEPT ![r] = TRUE]
    BY DEF CallFails, Walking
  <1>2. wire \subseteq Transactions /\ faulted \in [Relayers -> BOOLEAN]
    BY InvariantParts
  <1>3. /\ faulted' \in [Relayers -> BOOLEAN] /\ faulted'[r]
        /\ \A q \in Relayers : q # r => faulted'[q] = faulted[q]
    BY <1>1, <1>2
  <1>4. QED
    BY <1>1, <1>2, <1>3, NothingAwaited, StopsAt

LEMMA TimeOutKeeps ==
  ASSUME IInv, NEW t \in wire, TimeOut(t)
  PROVE  IInv'
  <1> DEFINE r == t.by
             u == [t EXCEPT !.late = TRUE]
  <1>1. /\ ~t.late /\ wire' = (wire \ {t}) \cup {u}
        /\ relayer' = [relayer EXCEPT ![r].pc = "error"]
        /\ UNCHANGED <<chain, confirmed>>
        /\ overtaken' = overtaken /\ faulted' = [faulted EXCEPT ![r] = TRUE]
    BY DEF TimeOut
  <1>2. /\ wire \subseteq Transactions /\ faulted \in [Relayers -> BOOLEAN]
        /\ r \in Relayers /\ Vouched(t) /\ \A v \in wire : Vouched(v)
    BY InvariantParts DEF Transactions
  <1>3. relayer[r].pc = "wait"
    BY <1>1, <1>2 DEF Vouched
  <1>4. relayer[r].at \in Openings /\ NeedsWork(r, Seen(r))
    BY <1>2, <1>3, InvariantParts DEF Own, Position
  <1>5. /\ faulted' \in [Relayers -> BOOLEAN] /\ faulted'[r]
        /\ \A q \in Relayers : q # r => faulted'[q] = faulted[q]
    BY <1>1, <1>2
  <1>6. u \in Transactions /\ u.late
    BY <1>2 DEF Transactions
  <1>7. \A v \in wire' : (v \in wire /\ (v.late \/ v.by # r)) \/ Vouched(v)'
    <2> SUFFICES ASSUME NEW v \in wire', ~v.late
                 PROVE  v \in wire /\ v.by # r
      BY DEF Vouched
    <2>1. v # u
      BY <1>6
    <2>2. v \in wire /\ v # t
      BY <1>1, <2>1
    <2>3. v.by = r => v = t
      BY <1>1, <1>2, <2>2 DEF Vouched
    <2>4. QED
      BY <2>2, <2>3
  <1>8. wire' \subseteq Transactions
    BY <1>1, <1>2, <1>6
  <1> HIDE DEF r, u
  <1>9. QED
    BY <1>1, <1>2, <1>3, <1>4, <1>5, <1>7, <1>8, StopsAt

LEMMA AdvanceKeeps ==
  ASSUME IInv, NEW r \in Relayers, Advance(r)
  PROVE  IInv'
  <1>1. /\ relayer[r].pc = "walk" /\ relayer[r].at \in Openings /\ NeedsWork(r, Seen(r))
        /\ ~WaitForSeed(r) /\ Predictable(r)
        /\ wire' = wire \cup {Sent(r)}
        /\ relayer' = [relayer EXCEPT ![r].pc = "wait"]
        /\ UNCHANGED <<chain, confirmed>>
        /\ overtaken' = overtaken /\ faulted' = faulted
    BY DEF Advance, Walking, Sent
  <1>2. /\ wire \subseteq Transactions /\ faulted \in [Relayers -> BOOLEAN]
        /\ Position(r) /\ Knows(r)
    BY InvariantParts DEF Own
  <1>3. /\ relayer' = [relayer EXCEPT ![r].pc = "wait", ![r].at = relayer[r].at]
        /\ relayer[r].at \in 0 .. MaxOpenings + 1
        /\ relayer'[r].pc = "wait" /\ relayer'[r].at = relayer[r].at
        /\ relayer'[r].view = relayer[r].view /\ relayer'[r].report = relayer[r].report
        /\ relayer'[r].inventory = relayer[r].inventory /\ relayer'[r].slot = relayer[r].slot
    BY <1>1, SamePlace
  <1>4. opening' = opening /\ remaining' = remaining /\ answer' = answer
    BY <1>1 DEF chain
  <1>5. Position(r)'
    BY <1>1, <1>2, <1>3 DEF Position, Within, Seen
  <1>6. Knows(r)'
    BY <1>1, <1>2, <1>3, <1>4 DEF Knows
  <1>7. Predicted(r) \in {0} \cup Bundles
    <2>1. CASE Seen(r) = Allocated
      BY <2>1 DEF Predicted
    <2>2. CASE Seen(r) # Allocated
      <3>1. /\ relayer[r].inventory \in [Bundles -> Nat] /\ answer[relayer[r].at] \in Nat
            /\ SumFunction(relayer[r].inventory) > 0
        BY <1>1, <2>2, AtWork DEF Predictable
      <3>2. Select(relayer[r].inventory, answer[relayer[r].at]) \in Bundles
        BY <3>1, Selects
      <3>3. QED
        BY <2>2, <3>2 DEF Predicted
    <2>3. QED
      BY <2>1, <2>2
  <1>8. Sent(r) \in Transactions
    <2>1. StepFor(Seen(r)) \in Steps
      BY DEF StepFor, Steps
    <2>2. QED
      BY <1>1, <1>7, <2>1 DEF Sent, Transactions
  <1>9. ASSUME NEW t, t = Sent(r) PROVE Vouched(t)'
    <2>1. Seen(r)' = Seen(r)
      BY <1>3 DEF Seen
    <2>2. Predicted(r)' = Predicted(r) /\ Predictable(r)' = Predictable(r)
      BY <1>3, <1>4, <2>1 DEF Predicted, Predictable
    <2>3. WaitForSeed(r)' = WaitForSeed(r)
      BY <1>3, <1>4, <2>1 DEF WaitForSeed
    <2>4. Sent(r)' = Sent(r)
      BY <1>3, <2>1, <2>2 DEF Sent
    <2>5. t.by = r /\ ~t.late
      BY <1>9 DEF Sent
    <2>6. QED
      BY <1>1, <1>3, <1>9, <2>2, <2>3, <2>4, <2>5 DEF Vouched
  <1>10. /\ wire' \subseteq Transactions
         /\ \A t \in wire' : (t \in wire /\ (t.late \/ t.by # r)) \/ Vouched(t)'
    <2>1. \A t \in wire : t.late \/ t.by # r
      BY <1>1, NothingAwaited
    <2>2. QED
      BY <1>1, <1>2, <1>8, <1>9, <2>1
  <1>11. QED
    BY <1>1, <1>2, <1>3, <1>5, <1>6, <1>10, PlaceMoves

LEMMA ReadTemplateKeeps ==
  ASSUME IInv, NEW r \in Relayers, ReadTemplate(r)
  PROVE  IInv'
  <1> DEFINE x == [Resting EXCEPT !.pc = "list", !.inventory = remaining]
  <1>1. /\ relayer[r].pc = "idle" /\ relayer' = [relayer EXCEPT ![r] = x]
        /\ UNCHANGED <<chain, confirmed>> /\ wire' = wire
        /\ overtaken' = [overtaken EXCEPT ![r] = FALSE]
        /\ faulted' = [faulted EXCEPT ![r] = FALSE]
    BY DEF ReadTemplate
  <1>2. /\ OnTheChain /\ wire \subseteq Transactions /\ relayer \in [Relayers -> Relayer]
        /\ overtaken \in [Relayers -> BOOLEAN] /\ faulted \in [Relayers -> BOOLEAN]
        /\ remaining \in [Bundles -> Nat]
    BY InvariantParts DEF OnTheChain
  <1>3. /\ x \in Relayer /\ x.pc = "list" /\ x.inventory = remaining /\ x.slot = 0
        /\ x.view = Resting.view /\ x.report = "none"
    BY <1>2, AtRest DEF Relayer
  <1> HIDE DEF x
  <1>4. relayer'[r] = x /\ OnTheChain' /\ remaining' = remaining
    BY <1>1, <1>2, ChainRests DEF chain
  <1>5. Own(r)'
    <2>1. /\ InOrder(Resting.view)
          /\ \A o \in Openings : Resting.view[o] <= opening'[o].status
          /\ 0 <= slot'
      BY <1>4, AtRest, NothingRead
    <2>2. Earlier(relayer[r].view, relayer[r].slot)'
      BY <1>3, <1>4, <2>1 DEF Earlier, InOrder
    <2>3. Position(r)' /\ Knows(r)' /\ Honest(r)'
      BY <1>3, <1>4 DEF Position, Within, Knows, Honest
    <2>4. QED
      BY <2>2, <2>3 DEF Own
  <1>6. /\ overtaken' \in [Relayers -> BOOLEAN] /\ faulted' \in [Relayers -> BOOLEAN]
        /\ \A q \in Relayers : q # r => overtaken'[q] = overtaken[q] /\ faulted'[q] = faulted[q]
    BY <1>1, <1>2
  <1>7. QED
    BY <1>1, <1>2, <1>3, <1>5, <1>6, NothingAwaited, RelayerMoves

LEMMA ListOpeningsKeeps ==
  ASSUME IInv, NEW r \in Relayers, ListOpenings(r)
  PROVE  IInv'
  <1> DEFINE first == FirstListed(confirmed.status, 1)
             x == [relayer[r] EXCEPT !.pc = "walk", !.view = confirmed.status,
                                     !.slot = confirmed.slot, !.at = first]
  <1>1. /\ relayer[r].pc = "list" /\ UNCHANGED <<chain, confirmed>> /\ wire' = wire
        /\ overtaken' = overtaken /\ faulted' = faulted
    BY DEF ListOpenings
  <1>2. /\ OnTheChain /\ wire \subseteq Transactions /\ relayer \in [Relayers -> Relayer]
        /\ overtaken \in [Relayers -> BOOLEAN] /\ faulted \in [Relayers -> BOOLEAN]
        /\ Own(r) /\ relayer[r] \in Relayer
    BY InvariantParts
  <1>3. /\ confirmed.status \in [Openings -> Status] /\ confirmed.slot \in 0 .. MaxSlot
        /\ Earlier(confirmed.status, confirmed.slot)
    BY DEF IInv, Typed
  <1>4. /\ first \in 1 .. MaxOpenings + 1
        /\ \A o \in Openings : 1 <= o /\ o < first => confirmed.status[o] \notin OnChain
    BY <1>3, Listing, Sizes
  <1> HIDE DEF first
  <1>5. relayer' = [relayer EXCEPT ![r] = x]
    BY <1>2 DEF ListOpenings, first
  <1>6. /\ x \in Relayer /\ x.pc = "walk" /\ x.view = confirmed.status
        /\ x.slot = confirmed.slot /\ x.at = first /\ x.report = relayer[r].report
        /\ x.inventory = relayer[r].inventory
    <2>1. first \in 0 .. MaxOpenings + 1
      BY <1>4
    <2>2. QED
      BY <1>2, <1>3, <2>1 DEF Relayer
  <1> HIDE DEF x
  <1>7. relayer'[r] = x /\ UNCHANGED <<opening, slot, remaining>>
    BY <1>1, <1>2, <1>5 DEF chain
  <1>8. Own(r)'
    <2>1. Earlier(relayer[r].view, relayer[r].slot)'
      BY <1>3, <1>6, <1>7 DEF Earlier, InOrder
    <2>2. relayer[r].report = "none"
      BY <1>1, <1>2 DEF Own, Position
    <2>3. Position(r)'
      <3>1. first >= 1 /\ \A o \in Openings : o < first => confirmed.status[o] \notin OnChain
        BY <1>4, Sizes DEF Openings
      <3>2. QED
        BY <1>6, <1>7, <2>2, <3>1 DEF Position, Within
    <2>4. Knows(r)'
      BY <1>1, <1>2, <1>6, <1>7 DEF Own, Knows
    <2>5. Honest(r)'
      BY <1>6, <1>7, <2>2 DEF Honest
    <2>6. QED
      BY <2>1, <2>3, <2>4, <2>5 DEF Own
  <1>9. QED
    BY <1>1, <1>2, <1>5, <1>6, <1>8, NothingAwaited, RelayerMoves

LEMMA HandleErrorKeeps ==
  ASSUME IInv, NEW r \in Relayers, HandleError(r)
  PROVE  IInv'
  <1>1. relayer[r].pc = "error" /\ Position(r) /\ Knows(r) /\ wire \subseteq Transactions
        /\ faulted \in [Relayers -> BOOLEAN]
    BY InvariantParts DEF HandleError, Own
  <1>2. CASE opening[relayer[r].at].status > Seen(r)
    <2>1. /\ relayer' = [relayer EXCEPT ![r].pc = "reread"]
          /\ UNCHANGED <<chain, confirmed>> /\ wire' = wire
          /\ overtaken' = overtaken /\ faulted' = faulted
      BY <1>2 DEF HandleError
    <2>2. /\ relayer' = [relayer EXCEPT ![r].pc = "reread", ![r].at = relayer[r].at]
          /\ relayer[r].at \in 0 .. MaxOpenings + 1
          /\ relayer'[r].pc = "reread" /\ relayer'[r].at = relayer[r].at
          /\ relayer'[r].view = relayer[r].view /\ relayer'[r].report = relayer[r].report
      BY <2>1, SamePlace
    <2>3. Position(r)' /\ Knows(r)'
      BY <1>1, <2>2 DEF Position, Within, Knows, Seen
    <2>4. QED
      BY <1>1, <2>1, <2>2, <2>3, NothingAwaited, PlaceMoves
  <1>3. CASE ~ (opening[relayer[r].at].status > Seen(r))
    <2>1. Return(r, "failed")
      BY <1>3 DEF HandleError
    <2>2. overtaken[r] \/ faulted[r]
      BY <1>1, <1>3 DEF Knows
    <2>3. QED
      BY <1>1, <2>1, <2>2, ReturnKeeps
  <1>4. QED
    BY <1>2, <1>3

LEMMA RereadKeeps ==
  ASSUME IInv, NEW r \in Relayers, Reread(r)
  PROVE  IInv'
  <1> DEFINE at == relayer[r].at
             sees == opening[at].status
             view == [relayer[r].view EXCEPT ![at] = sees]
             x == [relayer[r] EXCEPT !.pc = "retemplate", !.view = view]
  <1>1. /\ relayer[r].pc = "reread" /\ UNCHANGED <<chain, confirmed>> /\ wire' = wire
        /\ overtaken' = overtaken /\ faulted' = faulted
    BY DEF Reread
  <1>2. /\ OnTheChain /\ wire \subseteq Transactions /\ relayer \in [Relayers -> Relayer]
        /\ overtaken \in [Relayers -> BOOLEAN] /\ faulted \in [Relayers -> BOOLEAN]
        /\ Own(r) /\ relayer[r] \in Relayer
    BY InvariantParts
  <1>3. /\ at \in Openings /\ NeedsWork(r, Seen(r))
        /\ relayer[r].view \in [Openings -> Status]
    BY <1>1, <1>2, RelayerFields DEF Own, Position
  <1>4. Seen(r) # Absent /\ sees # Absent /\ sees \in Status
    <2>1. Seen(r) \in 0 .. 2 /\ Seen(r) <= sees /\ sees \in -1 .. 5
      BY <1>3, AtWork
    <2>2. QED
      BY <2>1 DEF Status
  <1>5. /\ view \in [Openings -> Status] /\ view[at] = sees
        /\ \A o \in Openings : o # at => view[o] = relayer[r].view[o]
    BY <1>3, <1>4
  <1>6. relayer' = [relayer EXCEPT ![r] = x]
    BY <1>2 DEF Reread
  <1> HIDE DEF view
  <1>7. /\ x \in Relayer /\ x.pc = "retemplate" /\ x.view = view
        /\ x.slot = relayer[r].slot /\ x.at = at /\ x.report = relayer[r].report
    BY <1>2, <1>5 DEF Relayer
  <1> HIDE DEF x
  <1>8. relayer'[r] = x /\ UNCHANGED <<opening, slot, remaining>>
    BY <1>1, <1>2, <1>6 DEF chain
  <1>9. Own(r)'
    <2>1. Earlier(relayer[r].view, relayer[r].slot)'
      <3>1. InOrder(relayer[r].view) /\ relayer[r].slot <= slot
            /\ \A o \in Openings : relayer[r].view[o] <= opening[o].status
        BY <1>2 DEF Own, Earlier
      <3>2. \A o \in Openings : view[o] = Absent <=> relayer[r].view[o] = Absent
        BY <1>4, <1>5 DEF Seen
      <3>3. InOrder(view)
        BY <3>1, <3>2 DEF InOrder
      <3>4. \A o \in Openings : view[o] <= opening[o].status
        BY <1>2, <1>5, <3>1, Known
      <3>5. QED
        BY <1>7, <1>8, <3>1, <3>3, <3>4 DEF Earlier, InOrder
    <2>2. Position(r)'
      <3>1. /\ at >= 1 /\ relayer[r].report = "none"
            /\ \A o \in Openings : o < at /\ relayer[r].view[o] \in OnChain
                                   => ~NeedsWork(r, relayer[r].view[o])
        BY <1>1, <1>2 DEF Own, Position, Within
      <3>2. \A o \in Openings : o < at => view[o] = relayer[r].view[o]
        BY <1>3, <1>5, Sizes DEF Openings
      <3>3. QED
        BY <1>3, <1>7, <1>8, <3>1, <3>2 DEF Position, Within
    <2>3. Knows(r)' /\ Honest(r)'
      <3>1. relayer[r].report = "none"
        BY <1>1, <1>2 DEF Own, Position
      <3>2. QED
        BY <1>7, <1>8, <3>1 DEF Knows, Honest
    <2>4. QED
      BY <2>1, <2>2, <2>3 DEF Own
  <1>10. QED
    BY <1>1, <1>2, <1>6, <1>7, <1>9, NothingAwaited, RelayerMoves

LEMMA RereadTemplateKeeps ==
  ASSUME IInv, NEW r \in Relayers, RereadTemplate(r)
  PROVE  IInv'
  <1> DEFINE x == [relayer[r] EXCEPT !.pc = "walk", !.inventory = remaining]
  <1>1. /\ relayer[r].pc = "retemplate" /\ UNCHANGED <<chain, confirmed>> /\ wire' = wire
        /\ overtaken' = [overtaken EXCEPT ![r] = FALSE] /\ faulted' = faulted
    BY DEF RereadTemplate
  <1>2. /\ OnTheChain /\ wire \subseteq Transactions /\ relayer \in [Relayers -> Relayer]
        /\ overtaken \in [Relayers -> BOOLEAN] /\ faulted \in [Relayers -> BOOLEAN]
        /\ Own(r) /\ relayer[r] \in Relayer /\ remaining \in [Bundles -> Nat]
    BY InvariantParts DEF OnTheChain
  <1>3. relayer' = [relayer EXCEPT ![r] = x]
    BY <1>2 DEF RereadTemplate
  <1>4. /\ x \in Relayer /\ x.pc = "walk" /\ x.inventory = remaining
        /\ x.view = relayer[r].view /\ x.slot = relayer[r].slot /\ x.at = relayer[r].at
        /\ x.report = relayer[r].report
    BY <1>2 DEF Relayer
  <1> HIDE DEF x
  <1>5. relayer'[r] = x /\ UNCHANGED <<opening, slot, remaining>>
    BY <1>1, <1>2, <1>3 DEF chain
  <1>6. Own(r)'
    <2>1. Earlier(relayer[r].view, relayer[r].slot)'
      BY <1>2, <1>4, <1>5 DEF Own, Earlier, InOrder
    <2>2. Position(r)'
      BY <1>1, <1>2, <1>4, <1>5 DEF Own, Position, Within
    <2>3. Knows(r)' /\ Honest(r)'
      <3>1. relayer[r].report = "none"
        BY <1>1, <1>2 DEF Own, Position
      <3>2. QED
        BY <1>4, <1>5, <3>1 DEF Knows, Honest
    <2>4. QED
      BY <2>1, <2>2, <2>3 DEF Own
  <1>7. /\ overtaken' \in [Relayers -> BOOLEAN] /\ faulted' \in [Relayers -> BOOLEAN]
        /\ \A q \in Relayers : q # r => overtaken'[q] = overtaken[q] /\ faulted'[q] = faulted[q]
    BY <1>1, <1>2
  <1>8. QED
    BY <1>1, <1>2, <1>3, <1>4, <1>6, <1>7, NothingAwaited, RelayerMoves

-----------------------------------------------------------------------------
(* A transaction lands.                                                    *)

\* What somebody waits for is refused only where another sender was faster.
LEMMA Refused ==
  ASSUME IInv, NEW t \in wire, ~t.late, ~Accepted(t), ~overtaken[t.by]
  PROVE  opening[relayer[t.by].at].status > Seen(t.by)
  <1> DEFINE r == t.by
             at == relayer[r].at
  <1>1. /\ OnTheChain /\ r \in Relayers /\ Vouched(t) /\ Own(r)
        /\ relayer \in [Relayers -> Relayer]
    BY InvariantParts DEF Transactions
  <1>2. /\ relayer[r].pc = "wait" /\ t = Sent(r) /\ ~WaitForSeed(r) /\ Predictable(r)
        /\ at \in Openings /\ NeedsWork(r, Seen(r)) /\ relayer[r].inventory = remaining
    BY <1>1 DEF Vouched, Own, Position, Knows
  <1>3. t.opening = at /\ t.step = StepFor(Seen(r)) /\ t.bundle = Predicted(r)
    BY <1>2 DEF Sent
  <1> HIDE DEF r
  <1> SUFFICES ASSUME ~ (opening[at].status > Seen(r)) PROVE FALSE
    BY DEF r
  <1>4. opening[at].status = Seen(r) /\ Seen(r) \in 0 .. 2
    BY <1>1, <1>2, AtWork
  <1>5. CASE Seen(r) = Allocated
    <2>1. t.step = "claim"
      BY <1>3, <1>5 DEF StepFor
    <2>2. Accepted(t)
      BY <1>3, <1>4, <1>5, <2>1 DEF Accepted
    <2>3. QED
      BY <2>2
  <1>6. CASE Seen(r) # Allocated
    <2>1. at = head
      BY <1>1, <1>2, <1>4, <1>6, WorkIsAtHead DEF Within
    <2>2. t.bundle = Select(remaining, answer[at])
      BY <1>2, <1>3, <1>6 DEF Predicted
    <2>3. CASE Seen(r) = Committed
      <3>1. t.step = "settle"
        BY <1>3, <2>3 DEF StepFor
      <3>2. slot > opening[at].seed
        <4>1. ~ (relayer[r].slot <= opening[at].seed)
          BY <1>2, <2>3 DEF WaitForSeed
        <4>2. relayer[r].slot <= slot /\ slot \in Nat /\ relayer[r].slot \in Nat
          BY <1>1, <1>2, AtWork
        <4>3. opening[at].seed \in Nat
          BY <1>1, <1>2, Known, Sizes
        <4>4. QED
          BY <4>1, <4>2, <4>3
      <3>3. QED
        BY <1>3, <1>4, <2>1, <2>2, <2>3, <3>1, <3>2 DEF Accepted
    <2>4. CASE Seen(r) = Revealed
      <3>1. t.step = "allocate"
        BY <1>3, <2>4 DEF StepFor
      <3>2. QED
        BY <1>3, <1>4, <2>1, <2>2, <2>4, <3>1 DEF Accepted
    <2>5. QED
      BY <1>4, <1>6, <2>3, <2>4
  <1>7. QED
    BY <1>5, <1>6

LEMMA LandKeeps ==
  ASSUME IInv, NEW t \in wire, Land(t)
  PROVE  IInv'
  <1> DEFINE r == t.by
  <1>1. /\ OnTheChain /\ wire \subseteq Transactions /\ relayer \in [Relayers -> Relayer]
        /\ overtaken \in [Relayers -> BOOLEAN] /\ faulted \in [Relayers -> BOOLEAN]
        /\ t \in Transactions /\ r \in Relayers /\ Vouched(t)
        /\ \A u \in wire : Vouched(u)
    BY InvariantParts DEF Transactions
  <1>2. /\ wire' = wire \ {t} /\ confirmed' = confirmed /\ faulted' = faulted
        /\ overtaken' = [q \in Relayers |->
                           overtaken[q] \/ (Accepted(t) /\ t.step # "claim" /\ ~Awaits(q, t))]
    BY DEF Land
  <1>3. OnTheChain' /\ Grows
    <2>1. CASE Accepted(t)
      BY <1>1, <2>1, ExecuteKeeps DEF Land
    <2>2. CASE ~Accepted(t)
      BY <1>1, <2>2, ChainRests DEF Land
    <2>3. QED
      BY <2>1, <2>2
  <1>4. ~t.late => \A u \in wire' : u.late \/ u.by # r
    BY <1>1, <1>2 DEF Vouched
  <1>5. overtaken' \in [Relayers -> BOOLEAN] /\ faulted' \in [Relayers -> BOOLEAN]
        /\ wire' \subseteq Transactions
    BY <1>1, <1>2
  <1>6. \A q \in Relayers : q # r \/ t.late =>
          (~overtaken'[q] => ~overtaken[q] /\ remaining' = remaining)
    <2> SUFFICES ASSUME NEW q \in Relayers, q # r \/ t.late, ~overtaken'[q]
                 PROVE  ~overtaken[q] /\ remaining' = remaining
      OBVIOUS
    <2>1. ~overtaken[q] /\ ~ (Accepted(t) /\ t.step # "claim" /\ ~Awaits(q, t))
      BY <1>2
    <2>2. ~Awaits(q, t)
      BY DEF Awaits
    <2>3. CASE ~Accepted(t)
      BY <2>1, <2>3 DEF Land, chain
    <2>4. CASE Accepted(t) /\ t.step = "claim"
      BY <2>1, <2>4 DEF Land, Execute
    <2>5. QED
      BY <2>1, <2>2, <2>3, <2>4
  <1>7. CASE t.late
    <2>1. relayer' = relayer
      BY <1>7 DEF Land
    <2>2. \A q \in Relayers : Own(q)'
      BY <1>2, <1>3, <1>6, <1>7, <2>1, OwnStays
    <2>3. \A u \in wire' : Vouched(u)'
      BY <1>2, <1>3, <2>1, VouchedStays
    <2>4. QED
      BY <1>1, <1>2, <1>3, <1>5, <2>1, <2>2, <2>3, Reassemble
  <1>8. CASE ~t.late /\ ~Accepted(t)
    <2>1. UNCHANGED <<chain, confirmed>> /\ relayer' = [relayer EXCEPT ![r].pc = "error"]
      BY <1>2, <1>8 DEF Land
    <2>2. overtaken' = overtaken
      BY <1>1, <1>2, <1>8
    <2>3. relayer[r].pc = "wait" /\ relayer[r].at \in Openings /\ NeedsWork(r, Seen(r))
      BY <1>1, <1>8, InvariantParts DEF Vouched, Own, Position
    <2>4. overtaken[r] \/ opening[relayer[r].at].status > Seen(r)
      BY <1>8, Refused
    <2>5. \A u \in wire' : (u \in wire /\ (u.late \/ u.by # r)) \/ Vouched(u)'
      BY <1>2, <1>4, <1>8
    <2> HIDE DEF r
    <2>6. QED
      BY <1>1, <1>2, <1>5, <2>1, <2>2, <2>3, <2>4, <2>5, StopsAt
  <1>9. CASE ~t.late /\ Accepted(t)
    <2>1. relayer' = [relayer EXCEPT ![r].pc = "reread"]
      BY <1>9 DEF Land
    <2>2. relayer[r] \in Relayer /\ Own(r)
      BY <1>1, InvariantParts
    <2>3. /\ relayer'[r].pc = "reread" /\ relayer'[r].at = relayer[r].at
          /\ relayer'[r].view = relayer[r].view /\ relayer'[r].report = relayer[r].report
          /\ relayer'[r].slot = relayer[r].slot
          /\ relayer'[r] \in Relayer /\ relayer' \in [Relayers -> Relayer]
          /\ \A q \in Relayers : q # r => relayer'[q] = relayer[q]
      <3> DEFINE x == [relayer[r] EXCEPT !.pc = "reread"]
      <3>1. relayer' = [relayer EXCEPT ![r] = x] /\ relayer'[r] = x
        BY <1>1, <2>1
      <3>2. /\ x \in Relayer /\ x.pc = "reread" /\ x.at = relayer[r].at
            /\ x.view = relayer[r].view /\ x.report = relayer[r].report
            /\ x.slot = relayer[r].slot
        BY <2>2 DEF Relayer
      <3> HIDE DEF x
      <3>3. QED
        BY <1>1, <3>1, <3>2
    <2>4. relayer[r].pc = "wait" /\ relayer[r].report = "none"
      BY <1>1, <1>9, <2>2 DEF Vouched, Own, Position
    <2>5. Own(r)'
      <3>1. Earlier(relayer[r].view, relayer[r].slot)'
        <4>1. Earlier(relayer[r].view, relayer[r].slot)
          BY <2>2 DEF Own
        <4>2. relayer[r].view \in [Openings -> Status] /\ relayer[r].slot \in 0 .. MaxSlot
          BY <1>1, RelayerFields
        <4>3. /\ InOrder(relayer[r].view)
              /\ \A o \in Openings : relayer[r].view[o] <= opening'[o].status
              /\ relayer[r].slot <= slot'
          BY <1>1, <1>3, <4>1, <4>2, StaysEarlier
        <4>4. QED
          BY <2>3, <4>3 DEF Earlier, InOrder
      <3>2. Position(r)'
        BY <2>2, <2>3, <2>4 DEF Own, Position, Within, Seen
      <3>3. Knows(r)' /\ Honest(r)'
        BY <2>3, <2>4 DEF Knows, Honest
      <3>4. QED
        BY <3>1, <3>2, <3>3 DEF Own
    <2>6. \A q \in Relayers : Own(q)'
      <3> SUFFICES ASSUME NEW q \in Relayers, q # r PROVE Own(q)'
        BY <2>5
      <3>1. relayer'[q] = relayer[q] /\ faulted'[q] = faulted[q]
        BY <1>2, <2>3
      <3>2. ~overtaken'[q] => ~overtaken[q] /\ remaining' = remaining
        BY <1>6
      <3>3. QED
        BY <1>3, <3>1, <3>2, OwnStays
    <2>7. \A u \in wire' : Vouched(u)'
      <3> SUFFICES ASSUME NEW u \in wire' PROVE Vouched(u)'
        OBVIOUS
      <3>1. u \in wire /\ u.by \in Relayers
        BY <1>1, <1>2 DEF Transactions
      <3>2. u.late \/ relayer'[u.by] = relayer[u.by]
        BY <1>4, <1>9, <2>3, <3>1
      <3>3. QED
        BY <1>3, <3>1, <3>2, VouchedStays
    <2>8. QED
      BY <1>1, <1>2, <1>3, <1>5, <2>3, <2>6, <2>7, Reassemble
  <1>10. QED
    BY <1>7, <1>8, <1>9

-----------------------------------------------------------------------------
(* The reports of a pass are true.                                         *)

LEMMA ConfirmKeeps ==
  ASSUME IInv, Confirm
  PROVE  IInv'
  <1>1. /\ UNCHANGED chain /\ wire' = wire /\ relayer' = relayer
        /\ overtaken' = overtaken /\ faulted' = faulted /\ remaining' = remaining
        /\ opening' = opening /\ slot' = slot
        /\ confirmed' = [status |-> Statuses, slot |-> slot]
    BY DEF Confirm, chain
  <1>2. OnTheChain /\ OnTheChain' /\ Grows
    BY <1>1, InvariantParts, ChainRests
  <1>3. \A r \in Relayers : Own(r)'
    BY <1>1, <1>2, OwnStays
  <1>4. \A t \in wire' : Vouched(t)'
    BY <1>1, <1>2, VouchedStays
  <1>5. /\ Statuses \in [Openings -> Status] /\ InOrder(Statuses)
        /\ \A o \in Openings : Statuses[o] = opening[o].status /\ opening[o].status \in -1 .. 5
        /\ slot \in 0 .. MaxSlot /\ slot \in Nat
    BY <1>2, Known DEF OnTheChain, Queue, Statuses
  <1> DEFINE sees == Statuses
  <1>6. Earlier(sees, slot)
    BY <1>5 DEF Earlier
  <1>7. confirmed'.status = sees /\ confirmed'.slot = slot
    BY <1>1
  <1>8. Earlier(confirmed.status, confirmed.slot)'
    <2> HIDE DEF sees
    <2>1. QED
      BY <1>1, <1>6, <1>7 DEF Earlier, InOrder
  <1>9. confirmed' \in [status : [Openings -> Status], slot : 0 .. MaxSlot]
    BY <1>1, <1>5
  <1>10. Typed'
    BY <1>1, <1>2, <1>9, InvariantParts DEF Typed, TypeOK, OnTheChain
  <1>11. QED
    BY <1>2, <1>3, <1>4, <1>8, <1>10 DEF IInv, OnTheChain

LEMMA Initially ==
  ASSUME Init
  PROVE  IInv
  <1>1. /\ answer \in [Openings -> Entropy] /\ remaining = Stock /\ head = 1 /\ slot = 0
        /\ opening = [o \in Openings |-> [status |-> Absent, seed |-> 0, bundle |-> 0]]
        /\ confirmed = [status |-> Statuses, slot |-> 0] /\ wire = {}
        /\ relayer = [r \in Relayers |-> Resting]
        /\ overtaken = [r \in Relayers |-> FALSE] /\ faulted = [r \in Relayers |-> FALSE]
    BY DEF Init
  <1>2. /\ 0 \in 0 .. MaxSlot /\ Absent \in Status /\ 1 \in 1 .. MaxOpenings + 1
        /\ Stock \in [Bundles -> Nat]
    BY Sizes DEF Status
  <1>3. /\ opening \in [Openings -> [status : Status, seed : 0 .. MaxSlot,
                                     bundle : {0} \cup Bundles]]
        /\ \A o \in Openings : opening[o].status = Absent /\ opening[o].bundle = 0
    BY <1>1, <1>2
  <1>4. Statuses \in [Openings -> Status] /\ \A o \in Openings : Statuses[o] = Absent
    BY <1>2, <1>3 DEF Statuses
  <1>5. Queue
    <2>1. InOrder(Statuses)
      BY <1>4 DEF InOrder
    <2>2. \A o \in Openings : ~ (o < head)
      BY <1>1, Sizes DEF Openings
    <2>3. \A b \in Bundles : remaining[b] = Stock[b] - Cardinality(Drawn(b))
      <3>1. \A b \in Bundles : Drawn(b) = {}
        BY <2>2 DEF Drawn
      <3>2. \A b \in Bundles : Cardinality(Drawn(b)) = 0
        BY <3>1, FS_EmptySet
      <3>3. QED
        BY <1>1, <1>2, <3>2
    <2>4. SumFunction(remaining) >= MaxOpenings - head + 1
      <3>1. SumFunction(remaining) \in Nat /\ SumFunction(remaining) >= MaxOpenings
        BY <1>1, <1>2, TotalIsSum, RelayAssumption
      <3>2. QED
        BY <1>1, <3>1, Sizes
    <2>5. QED
      BY <1>3, <2>1, <2>2, <2>3, <2>4 DEF Queue
  <1>6. Typed
    BY <1>1, <1>2, <1>3, <1>4, AtRest DEF Typed, TypeOK
  <1>7. Earlier(confirmed.status, confirmed.slot)
    <2> DEFINE sees == Statuses
    <2>1. InOrder(sees) /\ \A o \in Openings : sees[o] <= opening[o].status
      BY <1>3, <1>4, <1>5 DEF Queue
    <2>2. confirmed.status = sees /\ confirmed.slot = 0
      BY <1>1
    <2> HIDE DEF sees
    <2>3. QED
      BY <1>1, <2>1, <2>2 DEF Earlier
  <1>8. ASSUME NEW r \in Relayers PROVE Own(r)
    <2>1. relayer[r] = Resting
      BY <1>1
    <2>2. Earlier(relayer[r].view, relayer[r].slot)
      <3>1. InOrder(Resting.view) /\ \A o \in Openings : Resting.view[o] <= opening[o].status
        BY <1>3, AtRest DEF InOrder
      <3>2. QED
        BY <1>1, <2>1, <3>1, AtRest DEF Earlier
    <2>3. Position(r) /\ Knows(r) /\ Honest(r)
      BY <2>1, AtRest DEF Position, Within, Knows, Honest
    <2>4. QED
      BY <2>2, <2>3 DEF Own
  <1>9. QED
    BY <1>1, <1>5, <1>6, <1>7, <1>8 DEF IInv

LEMMA EnvironmentKeeps ==
  ASSUME IInv, Environment
  PROVE  IInv'
  <1>1. OnTheChain
    BY InvariantParts
  <1>2. CASE Tick
    <2>1. OnTheChain' /\ Grows
      BY <1>1, <1>2, TickKeeps
    <2>2. QED
      BY <1>2, <2>1, ChainMoves DEF Tick
  <1>3. CASE Confirm
    BY <1>3, ConfirmKeeps
  <1>4. ASSUME NEW o \in Openings, RequestOpen(o) \/ Fulfill(o) \/ Forfeit(o) \/ Close(o)
        PROVE  IInv'
    <2>1. OnTheChain' /\ Grows
      BY <1>1, <1>4, RequestOpenKeeps, FulfillKeeps, ForfeitKeeps, CloseKeeps
    <2>2. wire' = wire /\ remaining' = remaining
          /\ UNCHANGED <<confirmed, relayer, overtaken, faulted>>
      BY <1>4 DEF RequestOpen, Fulfill, Forfeit, Close
    <2>3. QED
      BY <2>1, <2>2, ChainMoves
  <1>5. ASSUME NEW t \in wire, TimeOut(t)
        PROVE  IInv'
    BY <1>5, TimeOutKeeps
  <1>6. ASSUME NEW t \in wire, Expire(t)
        PROVE  IInv'
    <2>1. OnTheChain' /\ Grows
      BY <1>1, <1>6, ChainRests DEF Expire
    <2>2. wire' \subseteq wire /\ remaining' = remaining
          /\ UNCHANGED <<confirmed, relayer, overtaken, faulted>>
      BY <1>6 DEF Expire, chain
    <2>3. QED
      BY <2>1, <2>2, ChainMoves
  <1>7. ASSUME NEW r \in Relayers, StopEarly(r) \/ CallFails(r)
        PROVE  IInv'
    BY <1>7, StopEarlyKeeps, CallFailsKeeps
  <1>8. QED
    BY <1>2, <1>3, <1>4, <1>5, <1>6, <1>7 DEF Environment

LEMMA WalkKeeps ==
  ASSUME IInv, NEW r \in Relayers, Walk(r)
  PROVE  IInv'
  BY ReadTemplateKeeps, ListOpeningsKeeps, EndOfListKeeps, NextOpeningKeeps,
     WaitForSeedSlotKeeps, SamplerThrowsKeeps, HandleErrorKeeps, RereadKeeps,
     RereadTemplateKeeps
  DEF Walk

LEMMA Inductive ==
  ASSUME IInv, [Next]_vars
  PROVE  IInv'
  <1>1. CASE Environment
    BY <1>1, EnvironmentKeeps
  <1>2. ASSUME NEW t \in wire, Land(t) PROVE IInv'
    BY <1>2, LandKeeps
  <1>3. ASSUME NEW r \in Relayers, Walk(r) \/ Advance(r) PROVE IInv'
    BY <1>3, WalkKeeps, AdvanceKeeps
  <1>4. CASE UNCHANGED vars
    <2>1. OnTheChain' /\ Grows
      BY <1>4, InvariantParts, ChainRests DEF vars, chain
    <2>2. wire' \subseteq wire /\ remaining' = remaining
          /\ UNCHANGED <<confirmed, relayer, overtaken, faulted>>
      BY <1>4 DEF vars
    <2>3. QED
      BY <2>1, <2>2, ChainMoves
  <1>5. QED
    BY <1>1, <1>2, <1>3, <1>4 DEF Next

LEMMA RelayInvariant == Spec => []IInv
  BY Initially, Inductive, PTL DEF Spec

\* Every report of relayTemplateOpenings is true, for every number of relayers,
\* openings and tickets, every delay of the lists and every late transaction: a
\* failure has a cause, and a pass that ends leaves nothing behind.
THEOREM PassAlwaysSound == Spec => []PassSound
  <1>1. IInv => PassSound
    <2> SUFFICES ASSUME IInv PROVE PassSound
      OBVIOUS
    <2>1. TypeOK
      BY DEF IInv, Typed
    <2>2. \A r \in Relayers : Honest(r)
      BY DEF IInv, Own
    <2>3. FailureExplained
      BY <2>2 DEF Honest, FailureExplained
    <2>4. PassComplete
      BY <2>2 DEF Honest, PassComplete
    <2>5. QED
      BY <2>1, <2>3, <2>4 DEF PassSound
  <1>2. QED
    BY <1>1, RelayInvariant, PTL

-----------------------------------------------------------------------------
(* The queue implements the one that was promised.                         *)

Requested == Cardinality({o \in Openings : opening[o].status # Absent})
Result == [o \in 1 .. head - 1 |-> opening[o].bundle]

LEMMA ResultIsSeq ==
  ASSUME OnTheChain
  PROVE  /\ Result \in Seq({0} \cup Bundles) /\ Len(Result) = head - 1
         /\ DOMAIN Result = 1 .. head - 1
         /\ \A o \in 1 .. head - 1 : o \in Openings /\ Result[o] = opening[o].bundle
  <1>1. head - 1 \in Nat /\ head - 1 <= MaxOpenings
    BY Known, Sizes DEF OnTheChain
  <1>2. \A o \in 1 .. head - 1 : o \in Openings /\ opening[o].bundle \in {0} \cup Bundles
    BY <1>1, Known, Sizes DEF Openings
  <1>3. Result \in [1 .. head - 1 -> {0} \cup Bundles]
    BY <1>2 DEF Result
  <1>4. Result \in Seq({0} \cup Bundles)
    BY <1>1, <1>3
  <1>5. QED
    BY <1>1, <1>2, <1>3, <1>4, LenProperties DEF Result

\* The operators that SettledQueue extends are those of Relay.
LEMMA SameCardinality ==
  ASSUME NEW S
  PROVE  Settled!Cardinality(S) = Cardinality(S)
  BY DEF Settled!Cardinality, Cardinality

LEMMA SameSum ==
  ASSUME NEW f, NEW S
  PROVE  /\ Settled!SumFunctionOnSet(f, S) = SumFunctionOnSet(f, S)
         /\ Settled!SumFunction(f) = SumFunction(f)
  BY DEF Settled!SumFunctionOnSet, Settled!FoldFunctionOnSet, Settled!MapThenFoldSet,
         Settled!SumFunction, SumFunctionOnSet, FoldFunctionOnSet, MapThenFoldSet, SumFunction

\* The tickets that the promise leaves are those on chain.
LEMMA TicketsAgree ==
  ASSUME OnTheChain
  PROVE  [c \in DOMAIN Stock |-> Settled!TicketsLeft(c)] = remaining
  <1>1. ASSUME NEW b \in Bundles PROVE Settled!TicketsLeft(b) = remaining[b]
    <2>1. {i \in DOMAIN Result : Result[i] = b} = Drawn(b)
      <3>1. \A o \in Openings : o < head <=> o \in 1 .. head - 1
        BY Known, Sizes DEF OnTheChain, Openings
      <3>2. QED
        BY <3>1, ResultIsSeq DEF Drawn
    <2>2. remaining[b] = Stock[b] - Cardinality(Drawn(b))
      BY DEF OnTheChain, Queue
    <2>3. QED
      BY <2>1, <2>2, SameCardinality DEF Settled!TicketsLeft, Result
  <1>2. QED
    BY <1>1 DEF OnTheChain, Bundles

LEMMA OwnsAgree ==
  ASSUME OnTheChain, NEW b \in Bundles, NEW e \in Nat, SumFunction(remaining) > 0,
         b = Select(remaining, e)
  PROVE  Settled!Owns(b, e)
  <1>1. [c \in DOMAIN Stock |-> Settled!TicketsLeft(c)] = remaining
    BY TicketsAgree
  <1>2. Settled!TicketsLeft(b) = remaining[b]
    BY <1>1 DEF Bundles
  <1>3. Settled!TicketsBefore(b) = SumFunctionOnSet(remaining, {c \in Bundles : c < b})
    BY <1>1, SameSum DEF Settled!TicketsBefore, Bundles
  <1>4. {c \in Bundles : c < b} = 1 .. b - 1
    BY Sizes
  <1>5. remaining \in [Bundles -> Nat]
    BY DEF OnTheChain
  <1>6. /\ SumFunctionOnSet(remaining, 1 .. b - 1) <= e % SumFunction(remaining)
        /\ e % SumFunction(remaining) < SumFunctionOnSet(remaining, 1 .. b - 1) + remaining[b]
    BY <1>5, Selects
  <1>7. /\ SumFunctionOnSet(remaining, 1 .. b - 1) \in Nat /\ remaining[b] \in Nat
    BY <1>5, UpTo
  <1>8. e % SumFunction(remaining) \in Nat
    BY <1>5, TotalIsSum, Residue
  <1>9. e % SumFunction(remaining) \in
          Settled!TicketsBefore(b) .. Settled!TicketsBefore(b) + Settled!TicketsLeft(b) - 1
    <2> DEFINE before == SumFunctionOnSet(remaining, 1 .. b - 1)
               target == e % SumFunction(remaining)
    <2>1. Settled!TicketsBefore(b) = before /\ Settled!TicketsLeft(b) = remaining[b]
      BY <1>2, <1>3, <1>4
    <2>2. /\ before \in Nat /\ remaining[b] \in Nat /\ target \in Nat
          /\ before <= target /\ target < before + remaining[b]
      BY <1>6, <1>7, <1>8
    <2> HIDE DEF before, target
    <2>3. target \in before .. before + remaining[b] - 1
      BY <2>2
    <2>4. QED
      BY <2>1, <2>3 DEF target
  <1>10. QED
    BY <1>1, <1>9, SameSum DEF Settled!Owns

LEMMA SettledInit ==
  ASSUME Init
  PROVE  Settled!Init
  <1>1. IInv
    BY Initially
  <1>2. OnTheChain /\ head = 1 /\ \A o \in Openings : opening[o].status = Absent
    BY <1>1, InvariantParts DEF Init
  <1>3. answer \in [1 .. MaxOpenings -> Entropy]
    BY <1>2 DEF OnTheChain, Openings
  <1>4. Requested = 0
    <2>1. {o \in Openings : opening[o].status # Absent} = {}
      BY <1>2
    <2>2. QED
      BY <2>1, FS_EmptySet DEF Requested
  <1>5. Result = << >>
    BY <1>2, ResultIsSeq, EmptySeq
  <1>6. QED
    BY <1>3, <1>4, <1>5 DEF Settled!Init, Requested, Result

\* A step that neither requests nor settles an opening is not seen.
LEMMA Unseen ==
  ASSUME answer' = answer, head' = head,
         \A o \in Openings : /\ opening'[o].bundle = opening[o].bundle
                             /\ opening'[o].status # Absent <=> opening[o].status # Absent,
         OnTheChain
  PROVE  UNCHANGED Settled!vars
  <1>1. {o \in Openings : opening'[o].status # Absent} = {o \in Openings : opening[o].status # Absent}
    OBVIOUS
  <1>2. Requested' = Requested
    BY <1>1 DEF Requested
  <1>3. Result' = Result
    BY ResultIsSeq DEF Result
  <1>4. QED
    BY <1>2, <1>3 DEF Settled!vars, Requested, Result

LEMMA RequestSeen ==
  ASSUME OnTheChain, NEW o \in Openings, RequestOpen(o)
  PROVE  Settled!Request
  <1> DEFINE before == {p \in Openings : opening[p].status # Absent}
  <1>1. /\ opening[o].status = Absent /\ answer' = answer /\ head' = head
        /\ opening' = [opening EXCEPT ![o].status = Committed, ![o].seed = slot]
    BY DEF RequestOpen
  <1>2. /\ {p \in Openings : opening'[p].status # Absent} = before \cup {o}
        /\ \A p \in Openings : opening'[p].bundle = opening[p].bundle
    BY <1>1 DEF OnTheChain
  <1>3. IsFiniteSet(before) /\ before \subseteq Openings \ {o} /\ o \notin before
    BY <1>1, Sizes, FS_Subset
  <1>4. Requested' = Requested + 1
    BY <1>2, <1>3, FS_AddElement DEF Requested
  <1>5. Requested < MaxOpenings
    <2>1. IsFiniteSet(Openings) /\ Cardinality(Openings) = MaxOpenings
      BY Sizes, FS_Interval DEF Openings
    <2>2. IsFiniteSet(Openings \ {o}) /\ Cardinality(Openings \ {o}) = MaxOpenings - 1
      BY <2>1, FS_RemoveElement
    <2>3. Cardinality(before) <= MaxOpenings - 1 /\ Cardinality(before) \in Nat
      BY <1>3, <2>2, FS_Subset, FS_CardinalityType
    <2>4. QED
      BY <2>3, Sizes DEF Requested
  <1>6. Result' = Result
    BY <1>1, <1>2, ResultIsSeq DEF Result
  <1>7. QED
    BY <1>1, <1>4, <1>5, <1>6 DEF Settled!Request, Requested, Result

\* The head takes its result.
LEMMA HeadSeen ==
  ASSUME OnTheChain, OnTheChain', NEW o \in Openings, o = head,
         opening[o].status # Absent,
         NEW b \in {0} \cup Bundles, opening'[o].bundle = b,
         \A p \in Openings : /\ p # o => opening'[p].bundle = opening[p].bundle
                             /\ opening'[p].status # Absent <=> opening[p].status # Absent,
         head' = head + 1
  PROVE  /\ Len(Result) < Requested /\ Len(Result) + 1 = head
         /\ Result' = Append(Result, b) /\ Requested' = Requested
  <1>1. {p \in Openings : opening'[p].status # Absent} = {p \in Openings : opening[p].status # Absent}
    OBVIOUS
  <1>2. Requested' = Requested
    BY <1>1 DEF Requested
  <1>3. head \in Nat /\ head >= 1 /\ head <= MaxOpenings /\ MaxOpenings \in Nat
    BY Known, Sizes
  <1>4. Len(Result) < Requested /\ Len(Result) + 1 = head
    <2> DEFINE all == {p \in Openings : opening[p].status # Absent}
    <2>1. 1 .. head \subseteq all
      <3>1. \A p \in 1 .. head : p \in Openings /\ (p = head \/ p < head)
        BY <1>3 DEF Openings
      <3>2. \A p \in Openings : Statuses[p] = opening[p].status
        BY Known
      <3>3. QED
        BY <3>1, <3>2 DEF OnTheChain, Queue, InOrder
    <2>2. IsFiniteSet(all)
      BY Sizes, FS_Subset
    <2>3. Cardinality(1 .. head) = head
      <3>1. 1 \in Int /\ head \in Int /\ ~ (1 > head) /\ head - 1 + 1 = head
        BY <1>3
      <3>2. QED
        BY <3>1, FS_Interval
    <2>4. head <= Cardinality(all) /\ Cardinality(all) \in Nat
      BY <2>1, <2>2, <2>3, FS_Subset, FS_CardinalityType
    <2>5. Len(Result) = head - 1
      BY ResultIsSeq
    <2>6. QED
      BY <1>3, <2>4, <2>5 DEF Requested
  <1>5. Result' = Append(Result, b)
    <2> DEFINE S == {0} \cup Bundles
               new == Result'
    <2>1. /\ Result \in Seq(S) /\ Len(Result) = head - 1
          /\ \A p \in 1 .. head - 1 : p \in Openings /\ Result[p] = opening[p].bundle
      BY ResultIsSeq
    <2>2. Result' = [p \in 1 .. head |-> opening'[p].bundle]
      BY <1>3 DEF Result
    <2>3. /\ new \in Seq(S) /\ Len(new) = head
          /\ \A p \in 1 .. head : new[p] = opening'[p].bundle
      <3>1. \A p \in 1 .. head : opening'[p].bundle \in S
        BY <1>3 DEF OnTheChain, Openings
      <3>2. Result' \in [1 .. head -> S]
        BY <2>2, <3>1
      <3>3. new \in Seq(S)
        BY <1>3, <3>2
      <3>4. QED
        BY <1>3, <2>2, <3>2, <3>3, LenProperties
    <2>4. /\ Append(Result, b) \in Seq(S) /\ Len(Append(Result, b)) = head
          /\ \A p \in 1 .. head - 1 : Append(Result, b)[p] = Result[p]
          /\ Append(Result, b)[head] = b
      BY <1>3, <2>1, AppendProperties
    <2>5. \A p \in 1 .. head : new[p] = Append(Result, b)[p]
      <3> SUFFICES ASSUME NEW p \in 1 .. head PROVE new[p] = Append(Result, b)[p]
        OBVIOUS
      <3>1. CASE p = head
        BY <1>3, <2>3, <2>4, <3>1
      <3>2. CASE p # head
        <4>1. p \in 1 .. head - 1
          BY <1>3, <3>2
        <4>2. QED
          BY <2>1, <2>3, <2>4, <3>2, <4>1
      <3>3. QED
        BY <3>1, <3>2
    <2> HIDE DEF S, new
    <2>6. new = Append(Result, b)
      BY <2>3, <2>4, <2>5, SeqEqual
    <2>7. QED
      BY <2>6 DEF new
  <1>6. QED
    BY <1>2, <1>4, <1>5

LEMMA ForfeitSeen ==
  ASSUME OnTheChain, OnTheChain', NEW o \in Openings, Forfeit(o)
  PROVE  Settled!Forfeit
  <1>1. /\ o = head /\ opening[o].status = Committed /\ head' = head + 1 /\ answer' = answer
        /\ opening' = [opening EXCEPT ![o].status = ForfeitedStatus]
    BY DEF Forfeit
  <1>2. opening[o].bundle = 0
    BY <1>1, Known DEF OnTheChain, Queue
  <1>3. /\ opening'[o].bundle = 0
        /\ \A p \in Openings : /\ p # o => opening'[p].bundle = opening[p].bundle
                               /\ opening'[p].status # Absent <=> opening[p].status # Absent
    BY <1>1, <1>2 DEF OnTheChain
  <1>4. /\ Len(Result) < Requested
        /\ Result' = Append(Result, 0) /\ Requested' = Requested
    BY <1>1, <1>3, HeadSeen
  <1>5. QED
    BY <1>1, <1>4 DEF Settled!Forfeit, Requested, Result

LEMMA LandSeen ==
  ASSUME IInv, IInv', NEW t \in wire, Land(t)
  PROVE  Settled!Settle \/ UNCHANGED Settled!vars
  <1>1. OnTheChain /\ OnTheChain' /\ t \in Transactions
    BY InvariantParts DEF IInv, Typed, TypeOK, OnTheChain
  <1> DEFINE o == t.opening
  <1>2. o \in Openings /\ t.step \in {"settle", "allocate", "claim"}
    BY <1>1 DEF Transactions, Steps
  <1> HIDE DEF o
  <1>3. CASE ~Accepted(t)
    <2>1. answer' = answer /\ head' = head /\ opening' = opening
      BY <1>3 DEF Land, chain
    <2>2. QED
      BY <1>1, <2>1, Unseen
  <1>4. CASE Accepted(t) /\ t.step = "claim"
    <2>1. /\ answer' = answer /\ head' = head
          /\ opening' = [opening EXCEPT ![o].status = Delivered]
          /\ opening[o].status = Allocated
      BY <1>4 DEF Land, Execute, Accepted, o
    <2>2. \A p \in Openings : /\ opening'[p].bundle = opening[p].bundle
                              /\ opening'[p].status # Absent <=> opening[p].status # Absent
      BY <1>1, <2>1 DEF OnTheChain
    <2>3. QED
      BY <1>1, <2>1, <2>2, Unseen
  <1>5. CASE Accepted(t) /\ t.step # "claim"
    <2> DEFINE b == t.bundle
    <2>1. /\ answer' = answer /\ head' = head + 1 /\ o = head
          /\ opening' = [opening EXCEPT ![o].status = Allocated, ![o].bundle = b]
          /\ opening[o].status \in {Committed, Revealed}
          /\ b = Select(remaining, answer[o])
      BY <1>2, <1>5 DEF Land, Execute, Accepted, o
    <2>2. /\ SumFunction(remaining) > 0 /\ answer[o] \in Nat /\ b \in Bundles
      BY <1>1, <1>2, <2>1, TicketLeft
    <2>3. Settled!Owns(b, answer[o])
      BY <1>1, <2>1, <2>2, OwnsAgree
    <2> HIDE DEF b
    <2>4. /\ opening'[o].bundle = b
          /\ \A p \in Openings : /\ p # o => opening'[p].bundle = opening[p].bundle
                                 /\ opening'[p].status # Absent <=> opening[p].status # Absent
      BY <1>1, <1>2, <2>1 DEF OnTheChain
    <2>5. /\ Len(Result) < Requested /\ Len(Result) + 1 = o
          /\ Result' = Append(Result, b) /\ Requested' = Requested
      <3>1. b \in {0} \cup Bundles /\ opening[o].status # Absent
        BY <2>1, <2>2
      <3>2. QED
        BY <1>1, <1>2, <2>1, <2>4, <3>1, HeadSeen
    <2>6. b \in DOMAIN Stock
      BY <2>2 DEF Bundles
    <2>7. Settled!Owns(b, answer[Len(Result) + 1])
      BY <2>3, <2>5
    <2>8. QED
      BY <2>1, <2>5, <2>6, <2>7 DEF Settled!Settle, Requested, Result
  <1>6. QED
    BY <1>3, <1>4, <1>5

LEMMA ChainUnseen ==
  ASSUME OnTheChain, UNCHANGED chain
  PROVE  UNCHANGED Settled!vars
  BY Unseen DEF chain

LEMMA RelaySteps ==
  ASSUME IInv, IInv', [Next]_vars
  PROVE  [Settled!Next]_(Settled!vars)
  <1>1. OnTheChain /\ OnTheChain'
    BY InvariantParts DEF IInv, Typed, TypeOK, OnTheChain
  <1>2. CASE Tick \/ Confirm
    <2>1. answer' = answer /\ head' = head /\ opening' = opening
      BY <1>2 DEF Tick, Confirm, chain
    <2>2. QED
      BY <1>1, <2>1, Unseen
  <1>3. ASSUME NEW o \in Openings, RequestOpen(o) PROVE Settled!Next
    BY <1>1, <1>3, RequestSeen DEF Settled!Next
  <1>4. ASSUME NEW o \in Openings, Forfeit(o) PROVE Settled!Next
    BY <1>1, <1>4, ForfeitSeen DEF Settled!Next
  <1>5. ASSUME NEW o \in Openings, Fulfill(o) \/ Close(o)
        PROVE  UNCHANGED Settled!vars
    <2>1. /\ answer' = answer /\ head' = head
          /\ opening' = [opening EXCEPT ![o].status = opening'[o].status]
          /\ opening[o].status # Absent /\ opening'[o].status # Absent
      BY <1>1, <1>5 DEF Fulfill, Close, OnTheChain
    <2>2. \A p \in Openings : /\ opening'[p].bundle = opening[p].bundle
                              /\ opening'[p].status # Absent <=> opening[p].status # Absent
      BY <1>1, <2>1 DEF OnTheChain
    <2>3. QED
      BY <1>1, <2>1, <2>2, Unseen
  <1>6. ASSUME NEW t \in wire, TimeOut(t) \/ Expire(t)
        PROVE  UNCHANGED Settled!vars
    BY <1>1, <1>6, ChainUnseen DEF TimeOut, Expire
  <1>7. ASSUME NEW t \in wire, Land(t)
        PROVE  Settled!Next \/ UNCHANGED Settled!vars
    BY <1>7, LandSeen DEF Settled!Next
  <1>8. ASSUME NEW r \in Relayers, StopEarly(r) \/ CallFails(r) \/ Walk(r) \/ Advance(r)
        PROVE  UNCHANGED chain
    BY <1>8 DEF StopEarly, CallFails, Walk, Advance, Return, ReadTemplate, ListOpenings,
                EndOfList, NextOpening, WaitForSeedSlot, SamplerThrows, HandleError, Reread,
                RereadTemplate
  <1>9. CASE UNCHANGED vars
    BY <1>1, <1>9, ChainUnseen DEF vars, chain
  <1>10. QED
    BY <1>1, <1>2, <1>3, <1>4, <1>5, <1>6, <1>7, <1>8, <1>9, ChainUnseen DEF Next, Environment

\* Relayers with stale views, transactions that land late and forfeits keep the
\* queue that was promised to holders, step by step: the safety of the refinement
\* that the run Settling checks with its fairness.
THEOREM QueueRespected ==
  Spec => Settled!Init /\ [][Settled!Next]_(Settled!vars)
  BY SettledInit, RelaySteps, RelayInvariant, PTL DEF Spec

-----------------------------------------------------------------------------
(* The Manage page: what it shows is what the chain was, and a label names    *)
(* what its tab put on chain.                                               *)

Moments == [phase : {"match", "rest", "answer"}, view : Pages!Views \union {None}, age : Nat]

Labels == [index : Nat \ {0}, prize : Prizes]

SavesOf(L) == [phase : {"match", "rest", "answer"}, view : Pages!Views \union {None},
               age : Nat, labels : L]

Saves == SavesOf(SUBSET Labels)

Actions ==
  {Pages!NoRun} \union [phase : {"start"}, prize : Prizes]
    \union [phase : {"append"}, prize : Prizes, start : Nat]
    \union [phase : {"post"}, index : Nat \ {0}, prize : Prizes]
    \union [phase : {"ready"}, shown : Int]
    \union [phase : {"lock"}, shown : Int, mint : Int]
    \union [phase : {"retire"}]

Chain == [bundles : Seq(Prizes), minted : Nat, locked : BOOLEAN,
          status : {"live", "retired"}]

Screen == [view : Pages!Views \union {None}, seenAt : Nat, run : Actions]

PagesTyped ==
  /\ now \in 1 .. MaxTime
  /\ treasury \in Chain
  /\ record \subseteq Labels
  /\ req \in [Tabs -> Moments]
  /\ post \in [Tabs -> {Pages!NoReq, [phase |-> "record"]} \union Saves]
  /\ tab \in [Tabs -> Screen]
  /\ cache # None => cache \in [view : Pages!Views, until : Nat]

Treasury ==
  /\ Len(treasury.bundles) \in 1 .. MaxBundles
  /\ treasury.minted <= Len(treasury.bundles)
  /\ treasury.locked => treasury.minted = Len(treasury.bundles)

\* A view is of the past.
Past(view) == view.at <= now /\ view.time <= now

\* A read takes MaxRead at most, and what is answered is younger than a cached
\* view may be and a read together.
Reads(q) ==
  /\ q.phase = "rest" => q.view \in Pages!Views /\ Past(q.view) /\ now - q.view.at <= MaxRead
  /\ q.age < TTL + MaxRead
  /\ q.phase = "answer" /\ q.view # None => q.view \in Pages!Views /\ Past(q.view)

CacheSound ==
  cache # None => Past(cache.view) /\ cache.until <= cache.view.at + MaxRead + TTL

\* The view was of the past when it came.
TabSound(t) ==
  tab[t].view # None =>
    /\ tab[t].view \in Pages!Views
    /\ tab[t].view.time <= tab[t].seenAt /\ tab[t].seenAt <= now

Describes(l) == l.index <= Len(treasury.bundles) /\ treasury.bundles[l.index] = l.prize

\* A save is on its way exactly while its tab waits for it.
Saving(t) ==
  /\ post[t].phase # "none" <=> tab[t].run.phase = "post"
  /\ tab[t].run.phase = "post" => Describes(tab[t].run)
  /\ post[t].phase \in {"match", "rest", "answer"} =>
       \A l \in post[t].labels : Describes(l)

PagesInv ==
  /\ PagesTyped /\ Treasury /\ CacheSound
  /\ \A t \in Tabs : Reads(req[t]) /\ TabSound(t) /\ Saving(t)
  /\ \A t \in Tabs : post[t].phase \in {"match", "rest", "answer"} => Reads(post[t])
  /\ \A l \in record : Describes(l)

LEMMA Bounds ==
  /\ TTL \in Nat \ {0} /\ MaxRead \in Nat \ {0} /\ OpensAt \in Nat \ {0}
  /\ MaxTime \in Nat \ {0} /\ MaxBundles \in Nat \ {0} /\ Lag \in Nat
  BY PagesAssumption DEF Pages!ManagePageAssumption

LEMMA InitPages == Pages!Init => PagesInv
  <1> SUFFICES ASSUME Pages!Init PROVE PagesInv
    OBVIOUS
  <1>1. PICK p \in Prizes, m \in {0, 1} :
          /\ treasury = [bundles |-> <<p>>, minted |-> m, locked |-> FALSE,
                         status |-> "live"]
          /\ record = {[index |-> 1, prize |-> p]}
    BY DEF Pages!Init
  <1>2. <<p>> \in Seq(Prizes) /\ Len(<<p>>) = 1 /\ <<p>>[1] = p
    OBVIOUS
  <1>3. PagesTyped
    BY <1>1, <1>2, Bounds DEF Chain, Screen, Pages!Init, PagesTyped, Labels, Moments, Actions, Pages!Starts,
       Pages!NoReq, Pages!NoTab, Pages!NoRun
  <1>4. Treasury /\ \A l \in record : Describes(l)
    BY <1>1, <1>2, Bounds DEF Treasury, Describes
  <1>5. CacheSound /\ \A t \in Tabs : Reads(req[t]) /\ TabSound(t) /\ Saving(t)
    BY Bounds DEF Pages!Init, CacheSound, Reads, TabSound, Saving, Pages!Starts, Pages!NoTab,
       Pages!NoReq, Pages!NoRun
  <1>6. QED
    BY <1>3, <1>4, <1>5 DEF PagesInv, Pages!Init, Pages!NoReq

Follows(q, r) ==
  /\ q \in Moments => r \in Moments
  /\ \A L : q \in SavesOf(L) => r \in SavesOf(L) /\ r.labels = q.labels

Holds(c) ==
  c # None =>
    /\ c \in [view : Pages!Views, until : Nat]
    /\ Past(c.view) /\ c.until <= c.view.at + MaxRead + TTL

\* What a step of cachedChainRead leaves.
LEMMA ChainReadSound ==
  ASSUME PagesInv, NEW L, NEW q \in Moments \union SavesOf(L), Reads(q),
         NEW step \in Pages!ChainRead(q)
  PROVE  Follows(q, step.next) /\ Reads(step.next) /\ Holds(step.cache)
  <1> USE Bounds
  <1>1. now \in Nat /\ Len(treasury.bundles) \in Nat /\ treasury.minted \in Nat
        /\ treasury.locked \in BOOLEAN /\ treasury.status \in {"live", "retired"}
    BY DEF Chain, Screen, PagesInv, PagesTyped
  <1>2. Holds(cache)
    BY DEF PagesInv, PagesTyped, CacheSound, Holds
  <1>3. CASE q.phase = "match" /\ step.next = Pages!ReadTemplate(q) /\ step.cache = cache
    <2> DEFINE view == [bundles |-> Len(treasury.bundles), minted |-> treasury.minted,
                        locked |-> treasury.locked, status |-> treasury.status,
                        supply |-> 0, time |-> 0, at |-> now]
    <2>1. view \in Pages!Views /\ Past(view) /\ view.at = now
      BY <1>1 DEF Pages!Views, Past
    <2>2. step.next = [q EXCEPT !.phase = "rest", !.view = view]
      BY <1>3 DEF Pages!ReadTemplate
    <2> HIDE DEF view
    <2>3. Follows(q, step.next)
      BY <2>1, <2>2 DEF Follows, Moments, SavesOf
    <2>4. Reads(step.next)
      BY <1>1, <2>1, <2>2 DEF Reads, Moments, SavesOf
    <2>5. QED
      BY <1>2, <1>3, <2>3, <2>4
  <1>4. ASSUME NEW view \in Pages!Views, Past(view), now - view.at < TTL + MaxRead,
               step.next = Pages!Answer(q, view)
        PROVE  Follows(q, step.next) /\ Reads(step.next)
    <2>1. now - view.at \in Nat
      BY <1>1, <1>4 DEF Past, Pages!Views
    <2>2. Follows(q, step.next)
      BY <1>4, <2>1 DEF Follows, Moments, SavesOf, Pages!Answer
    <2>3. Reads(step.next)
      BY <1>4, <2>1 DEF Reads, Moments, SavesOf, Pages!Answer
    <2>4. QED
      BY <2>2, <2>3
  <1>5. CASE /\ q.phase = "match" /\ Pages!Fresh
             /\ step.next = Pages!Answer(q, cache.view) /\ step.cache = cache
    <2>1. /\ cache.view \in Pages!Views /\ Past(cache.view)
          /\ now - cache.view.at < TTL + MaxRead
      BY <1>1, <1>2, <1>5 DEF Pages!Fresh, Holds, Pages!Views
    <2>2. QED
      BY <1>2, <1>4, <1>5, <2>1
  <1>6. CASE q.phase = "rest" /\ step \in Pages!Produce(q)
    <2>1. q.view \in Pages!Views /\ Past(q.view) /\ now - q.view.at <= MaxRead
      BY <1>6 DEF Reads
    <2> PICK v \in Pages!Views : v = q.view
      BY <2>1
    <2> DEFINE view == [v EXCEPT !.supply = treasury.minted, !.time = now]
    <2>2. view \in Pages!Views /\ view.at = v.at /\ view.time = now
      BY <1>1 DEF Pages!Views
    <2>3. q.view.at \in Nat
      BY <2>1 DEF Pages!Views
    <2>4. /\ view \in Pages!Views /\ view.at = q.view.at /\ view.time = now
          /\ now - view.at < TTL + MaxRead /\ now <= view.at + MaxRead
      BY <1>1, <2>1, <2>2, <2>3
    <2>5. step.next = Pages!Answer(q, view)
          /\ (step.cache = cache \/ step.cache = [view |-> view, until |-> now + TTL])
      BY <1>6 DEF Pages!Produce
    <2> HIDE DEF view
    <2>6. Holds([view |-> view, until |-> now + TTL])
      <3>1. \A u \in Nat : /\ [view |-> view, until |-> u].view = view
                          /\ [view |-> view, until |-> u].until = u
        OBVIOUS
      <3>2. Past(view) /\ now + TTL \in Nat /\ now + TTL <= view.at + MaxRead + TTL
        BY <1>1, <2>1, <2>4, <2>3 DEF Past
      <3>3. QED
        BY <2>4, <3>1, <3>2 DEF Holds, Past
    <2>7. QED
      BY <1>1, <1>2, <1>4, <2>1, <2>4, <2>5, <2>6 DEF Past
  <1>7. CASE q.phase = "rest" /\ step \in Pages!Unreachable(q)
    <2>1. step.next = [q EXCEPT !.phase = "answer", !.view = None] /\ step.cache = cache
      BY <1>7 DEF Pages!Unreachable
    <2>2. Follows(q, step.next)
      BY <2>1 DEF Follows, Moments, SavesOf
    <2>3. Reads(step.next)
      BY <2>1 DEF Reads, Moments, SavesOf
    <2>4. QED
      BY <1>2, <2>1, <2>2, <2>3
  <1>8. q.phase \in {"match", "rest"}
    BY DEF Pages!ChainRead
  <1>9. CASE q.phase = "match"
    BY <1>3, <1>5, <1>9 DEF Pages!ChainRead, Pages!Match
  <1>10. CASE q.phase = "rest"
    BY <1>6, <1>7, <1>10 DEF Pages!ChainRead
  <1>11. QED
    BY <1>8, <1>9, <1>10

LEMMA TickPages ==
  ASSUME PagesInv, Pages!Tick
  PROVE  PagesInv'
  <1> USE Bounds
  <1>1. now \in Nat /\ now' = now + 1 /\ now' \in 1 .. MaxTime
        /\ UNCHANGED <<treasury, cache, record, req, post, tab>>
    BY DEF Pages!Tick, PagesInv, PagesTyped
  <1>2. PagesTyped' /\ Treasury' /\ \A l \in record' : Describes(l)'
    BY <1>1 DEF PagesInv, PagesTyped, Treasury, Chain, Describes
  <1>3. ASSUME NEW q, Reads(q), Pages!InTime(q) PROVE Reads(q)'
    <2>1. \A v \in Pages!Views : v.at \in Nat /\ v.time \in Nat
      BY DEF Pages!Views
    <2>2. QED
      BY <1>1, <1>3, <2>1 DEF Reads, Past, Pages!InTime
  <1>4. ASSUME NEW t \in Tabs
        PROVE  /\ Reads(req[t])' /\ TabSound(t)' /\ Saving(t)'
               /\ (post[t].phase \in {"match", "rest", "answer"} => Reads(post[t]))'
    <2>1. Reads(req[t])
          /\ (post[t].phase \in {"match", "rest", "answer"} => Reads(post[t]))
      BY <1>4 DEF PagesInv
    <2>2. Pages!InTime(req[t]) /\ Pages!InTime(post[t])
      BY <1>4 DEF Pages!Tick
    <2>3. Reads(req[t])'
      BY <1>1, <1>3, <2>1, <2>2
    <2>4. (post[t].phase \in {"match", "rest", "answer"} => Reads(post[t]))'
      BY <1>1, <1>3, <2>1, <2>2
    <2>5. TabSound(t)' /\ Saving(t)'
      BY <1>1, <1>4 DEF Chain, Screen, PagesInv, PagesTyped, TabSound, Saving, Describes
    <2>6. QED
      BY <2>3, <2>4, <2>5
  <1>5. CacheSound'
    BY <1>1 DEF PagesInv, PagesTyped, CacheSound, Past, Pages!Views
  <1>6. QED
    BY <1>2, <1>4, <1>5 DEF PagesInv

LEMMA SetRun ==
  ASSUME NEW t \in Tabs, NEW run \in Actions, PagesInv, Pages!Runs(t, run)
  PROVE  /\ tab' \in [Tabs -> Screen]
         /\ tab'[t].run = run
         /\ \A u \in Tabs \ {t} : tab'[u] = tab[u]
         /\ \A u \in Tabs : tab'[u].view = tab[u].view /\ tab'[u].seenAt = tab[u].seenAt
  <1>1. tab \in [Tabs -> Screen]
    BY DEF PagesInv, PagesTyped
  <1>2. PICK x \in Screen : x = tab[t]
    BY <1>1
  <1>3. /\ [x EXCEPT !.run = run] \in Screen /\ [x EXCEPT !.run = run].run = run
        /\ [x EXCEPT !.run = run].view = x.view /\ [x EXCEPT !.run = run].seenAt = x.seenAt
    BY DEF Screen
  <1>4. tab' = [tab EXCEPT ![t] = [x EXCEPT !.run = run]]
    BY <1>2 DEF Pages!Runs
  <1>5. QED
    BY <1>1, <1>2, <1>3, <1>4

\* Steps that begin, go on with or end what a tab does, while nothing is saved.
LEMMA RunsPages ==
  ASSUME PagesInv, NEW t \in Tabs, NEW run \in Actions, Pages!Runs(t, run),
         run.phase # "post", tab[t].run.phase # "post",
         UNCHANGED <<now, cache, record, post>>,
         req' = req \/ req' = [req EXCEPT ![t] = Pages!Starts],
         treasury' \in Chain,
         treasury'.bundles = treasury.bundles, Treasury'
  PROVE  PagesInv'
  <1> USE Bounds
  <1>1. PagesTyped'
    <2>1. req \in [Tabs -> Moments]
      BY DEF PagesInv, PagesTyped
    <2>2. tab' \in [Tabs -> Screen]
      BY SetRun
    <2>3. Pages!Starts \in Moments
      BY DEF Pages!Starts, Moments
    <2>4. req' \in [Tabs -> Moments]
      BY <2>1, <2>3
    <2>5. QED
      BY <2>2, <2>4 DEF PagesInv, PagesTyped
  <1>2. (\A l \in record : Describes(l))' /\ CacheSound'
    BY DEF PagesInv, Describes, CacheSound, Past
  <1>3. /\ tab'[t].run = run
        /\ \A u \in Tabs \ {t} : tab'[u] = tab[u]
        /\ \A u \in Tabs : tab'[u].view = tab[u].view /\ tab'[u].seenAt = tab[u].seenAt
    BY SetRun
  <1>4. ASSUME NEW u \in Tabs
        PROVE  /\ Reads(req[u])' /\ TabSound(u)' /\ Saving(u)'
               /\ (post[u].phase \in {"match", "rest", "answer"} => Reads(post[u]))'
    <2>1. Reads(req[u]) /\ (req'[u] = req[u] \/ req'[u] = Pages!Starts)
      BY <1>4 DEF PagesInv, PagesTyped
    <2>2. Reads(req[u])'
      BY <2>1 DEF Reads, Past, Pages!Starts
    <2>3. TabSound(u)'
      BY <1>3, <1>4 DEF PagesInv, TabSound
    <2>4. Saving(u)'
      BY <1>3, <1>4 DEF PagesInv, Saving, Describes
    <2>5. (post[u].phase \in {"match", "rest", "answer"} => Reads(post[u]))'
      BY <1>4 DEF PagesInv, Reads, Past
    <2>6. QED
      BY <2>2, <2>3, <2>4, <2>5
  <1>5. QED
    BY <1>1, <1>2, <1>4 DEF PagesInv

LEMMA BeginsPages ==
  ASSUME PagesInv, NEW t \in Tabs,
         Pages!AddPrizes(t) \/ Pages!PressLock(t) \/ Pages!PressRetire(t)
  PROVE  PagesInv'
  <1>1. /\ treasury' \in Chain
        /\ treasury'.bundles = treasury.bundles /\ Treasury'
        /\ UNCHANGED <<now, cache, record, post, req>>
        /\ tab[t].run.phase # "post"
    BY DEF Pages!AddPrizes, Pages!PressLock, Pages!PressRetire, Pages!Idle, PagesInv, PagesTyped,
       Treasury
  <1>2. CASE Pages!AddPrizes(t)
    <2> PICK p \in Prizes : Pages!Runs(t, [phase |-> "start", prize |-> p])
      BY <1>2 DEF Pages!AddPrizes
    <2>1. [phase |-> "start", prize |-> p] \in Actions
      BY DEF Actions
    <2>2. QED
      BY <1>1, <2>1, RunsPages
  <1>3. CASE Pages!PressLock(t)
    <2> DEFINE shown == tab[t].view.bundles - tab[t].view.supply
    <2>1. tab[t].view \in Pages!Views
      BY <1>3 DEF Pages!PressLock, Pages!Editable, Pages!Shows, PagesInv, TabSound
    <2>2. shown \in Int /\ [phase |-> "ready", shown |-> shown] \in Actions
      BY <2>1 DEF Actions, Pages!Views
    <2>3. Pages!Runs(t, [phase |-> "ready", shown |-> shown])
      BY <1>3 DEF Pages!PressLock
    <2>4. QED
      BY <1>1, <2>2, <2>3, RunsPages
  <1>4. CASE Pages!PressRetire(t)
    <2>1. Pages!Runs(t, [phase |-> "retire"]) /\ [phase |-> "retire"] \in Actions
      BY <1>4 DEF Pages!PressRetire, Actions
    <2>2. QED
      BY <1>1, <2>1, RunsPages
  <1>5. QED
    BY <1>2, <1>3, <1>4

LEMMA EndsPages ==
  ASSUME PagesInv, NEW t \in Tabs,
         Pages!AppendFails(t) \/ Pages!LockTreasury(t) \/ Pages!RetireTemplate(t)
  PROVE  PagesInv'
  <1>1. Pages!Runs(t, Pages!NoRun) /\ req' = [req EXCEPT ![t] = Pages!Starts]
        /\ Pages!NoRun \in Actions /\ Pages!NoRun.phase # "post"
    BY DEF Pages!AppendFails, Pages!LockTreasury, Pages!RetireTemplate, Pages!Ends, Actions,
       Pages!NoRun
  <1>2. UNCHANGED <<now, cache, record, post>> /\ tab[t].run.phase # "post"
    BY DEF Pages!AppendFails, Pages!LockTreasury, Pages!RetireTemplate
  <1>3. /\ treasury' \in Chain
        /\ treasury'.bundles = treasury.bundles /\ Treasury'
    <2>1. CASE Pages!AppendFails(t)
      BY <2>1 DEF Pages!AppendFails, PagesInv, PagesTyped, Treasury
    <2>2. CASE Pages!RetireTemplate(t)
      BY <2>2 DEF Chain, Screen, Pages!RetireTemplate, PagesInv, PagesTyped, Treasury
    <2>3. CASE Pages!LockTreasury(t)
      <3>1. CASE ~Pages!Locks(t)
        BY <2>3, <3>1 DEF Pages!LockTreasury, PagesInv, PagesTyped, Treasury
      <3>2. CASE Pages!Locks(t)
        <4>1. treasury.minted + tab[t].run.mint = Len(treasury.bundles)
          BY <3>2 DEF Pages!Locks, Pages!ExactSupply
        <4>2. treasury' = [treasury EXCEPT !.minted = Len(treasury.bundles), !.locked = TRUE]
          BY <2>3, <3>2, <4>1 DEF Pages!LockTreasury
        <4>3. treasury \in Chain
              /\ Len(treasury.bundles) \in Nat
          BY DEF PagesInv, PagesTyped
        <4>4. treasury' \in Chain
              /\ treasury'.bundles = treasury.bundles
              /\ treasury'.minted = Len(treasury.bundles)
          BY <4>2, <4>3 DEF Chain, Screen
        <4>5. QED
          BY <4>3, <4>4, Bounds DEF PagesInv, Treasury
      <3>3. QED
        BY <3>1, <3>2
    <2>4. QED
      BY <2>1, <2>2, <2>3
  <1>4. QED
    BY <1>1, <1>2, <1>3, RunsPages

LEMMA ReadStartPages ==
  ASSUME PagesInv, NEW t \in Tabs, Pages!ReadStart(t)
  PROVE  PagesInv'
  <1> DEFINE run == [phase |-> "append", prize |-> tab[t].run.prize,
                     start |-> Len(treasury.bundles)]
  <1>1. tab[t].run \in Actions /\ tab[t].run.phase = "start"
    BY DEF Chain, Screen, PagesInv, PagesTyped, Pages!ReadStart
  <1>2. tab[t].run.prize \in Prizes
    BY <1>1 DEF Actions, Pages!NoRun
  <1>3. run \in Actions
    BY <1>2 DEF Actions, PagesInv, PagesTyped
  <1>4. Pages!Runs(t, run) /\ UNCHANGED <<now, cache, record, post, req, treasury>>
    BY DEF Pages!ReadStart
  <1>5. /\ treasury' \in Chain
        /\ treasury'.bundles = treasury.bundles /\ Treasury'
    BY <1>4 DEF PagesInv, PagesTyped, Treasury, Chain
  <1>6. run.phase # "post"
    OBVIOUS
  <1> HIDE DEF run
  <1>7. QED
    BY <1>1, <1>3, <1>4, <1>5, <1>6, RunsPages

LEMMA ReadReadinessPages ==
  ASSUME PagesInv, NEW t \in Tabs, Pages!ReadReadiness(t)
  PROVE  PagesInv'
  <1> DEFINE run == [phase |-> "lock", shown |-> tab[t].run.shown,
                     mint |-> Len(treasury.bundles) - treasury.minted]
  <1>1. tab[t].run \in Actions /\ tab[t].run.phase = "ready"
    BY DEF Chain, Screen, PagesInv, PagesTyped, Pages!ReadReadiness
  <1>2. tab[t].run.shown \in Int
    BY <1>1 DEF Actions, Pages!NoRun
  <1>3. run \in Actions /\ run.phase # "post"
    BY <1>2 DEF Chain, Screen, Actions, PagesInv, PagesTyped
  <1>4. /\ (Pages!Runs(t, run) /\ UNCHANGED req) \/ Pages!Ends(t)
        /\ UNCHANGED <<now, cache, record, post, treasury>>
    BY DEF Pages!ReadReadiness
  <1>5. /\ treasury' \in Chain
        /\ treasury'.bundles = treasury.bundles /\ Treasury'
    BY <1>4 DEF PagesInv, PagesTyped, Treasury, Chain
  <1>6. Pages!NoRun \in Actions /\ Pages!NoRun.phase # "post"
    BY DEF Pages!NoRun, Actions
  <1> HIDE DEF run
  <1>7. CASE Pages!Runs(t, run) /\ UNCHANGED req
    BY <1>1, <1>3, <1>4, <1>5, <1>7, RunsPages
  <1>8. CASE Pages!Ends(t)
    <2>1. Pages!Runs(t, Pages!NoRun) /\ req' = [req EXCEPT ![t] = Pages!Starts]
      BY <1>8 DEF Pages!Ends
    <2>2. QED
      BY <1>1, <1>4, <1>5, <1>6, <2>1, RunsPages
  <1>9. QED
    BY <1>4, <1>7, <1>8

\* Requests of pages, and what they show.
LEMMA ServePagePages ==
  ASSUME PagesInv, NEW t \in Tabs, Pages!ServePage(t)
  PROVE  PagesInv'
  <1>1. PICK step \in Pages!ChainRead(req[t]) :
          req' = [req EXCEPT ![t] = step.next] /\ cache' = step.cache
    BY DEF Pages!ServePage
  <1>2. req[t] \in Moments /\ Reads(req[t]) /\ UNCHANGED <<now, treasury, record, post, tab>>
    BY DEF PagesInv, PagesTyped, Pages!ServePage
  <1>3. Follows(req[t], step.next) /\ Reads(step.next) /\ Holds(step.cache)
    BY <1>2, ChainReadSound
  <1>4. PagesTyped' /\ CacheSound'
    <2>1. req' \in [Tabs -> Moments]
      BY <1>1, <1>2, <1>3 DEF PagesInv, PagesTyped, Follows
    <2>2. QED
      BY <1>1, <1>2, <1>3, <2>1 DEF PagesInv, PagesTyped, CacheSound, Holds, Past
  <1>5. Treasury' /\ (\A l \in record : Describes(l))'
    BY <1>2 DEF PagesInv, Treasury, Describes
  <1>6. ASSUME NEW u \in Tabs
        PROVE  /\ Reads(req[u])' /\ TabSound(u)' /\ Saving(u)'
               /\ (post[u].phase \in {"match", "rest", "answer"} => Reads(post[u]))'
    <2>1. Reads(req[u])'
      BY <1>1, <1>2, <1>3, <1>6 DEF PagesInv, PagesTyped, Reads, Past
    <2>2. QED
      BY <1>2, <1>6, <2>1 DEF PagesInv, TabSound, Saving, Describes, Reads, Past
  <1>7. QED
    BY <1>4, <1>5, <1>6 DEF PagesInv

LEMMA ShowPagePages ==
  ASSUME PagesInv, NEW t \in Tabs, Pages!ShowPage(t)
  PROVE  PagesInv'
  <1> USE Bounds
  <1>1. /\ req' = [req EXCEPT ![t] = Pages!Starts]
        /\ tab' = [tab EXCEPT ![t] = [@ EXCEPT !.view = req[t].view, !.seenAt = now]]
        /\ UNCHANGED <<now, treasury, cache, record, post>>
        /\ req[t].phase = "answer"
    BY DEF Pages!ShowPage
  <1>2. /\ req \in [Tabs -> Moments] /\ now \in Nat
        /\ tab \in [Tabs -> Screen]
    BY DEF PagesInv, PagesTyped
  <1>3. Pages!Starts \in Moments /\ req[t].view \in Pages!Views \union {None}
    BY <1>2 DEF Moments, Pages!Starts
  <1>4. PICK x \in Screen : x = tab[t]
    BY <1>2
  <1> DEFINE y == [x EXCEPT !.view = req[t].view, !.seenAt = now]
  <1>5. y \in Screen /\ y.run = x.run /\ y.view = req[t].view /\ y.seenAt = now
    BY <1>2, <1>3 DEF Screen
  <1>6. tab' = [tab EXCEPT ![t] = y]
    BY <1>1, <1>4
  <1> HIDE DEF y
  <1>7. PagesTyped'
    <2>1. req' \in [Tabs -> Moments]
      BY <1>1, <1>2, <1>3
    <2>2. tab' \in [Tabs -> Screen]
      BY <1>2, <1>5, <1>6
    <2>3. QED
      BY <1>1, <2>1, <2>2 DEF PagesInv, PagesTyped
  <1>8. Treasury' /\ CacheSound' /\ (\A l \in record : Describes(l))'
    BY <1>1 DEF PagesInv, Treasury, Describes, CacheSound, Past
  <1>9. ASSUME NEW u \in Tabs
        PROVE  /\ Reads(req[u])' /\ TabSound(u)' /\ Saving(u)'
               /\ (post[u].phase \in {"match", "rest", "answer"} => Reads(post[u]))'
    <2>1. Reads(req[u]) /\ (req'[u] = req[u] \/ req'[u] = Pages!Starts)
      BY <1>1, <1>2, <1>9 DEF PagesInv
    <2>2. Reads(req[u])'
      BY <1>1, <2>1 DEF Reads, Past, Pages!Starts
    <2>3. tab'[u].run = tab[u].run
          /\ (u # t => tab'[u] = tab[u])
          /\ (u = t => tab'[u].view = req[t].view /\ tab'[u].seenAt = now)
      BY <1>2, <1>9, <1>4, <1>5, <1>6
    <2>4. TabSound(u)'
      BY <1>1, <1>2, <1>9, <2>3 DEF PagesInv, TabSound, Reads, Past
    <2>5. QED
      BY <1>1, <1>9, <2>2, <2>3, <2>4 DEF PagesInv, Saving, Describes, Reads, Past
  <1>10. QED
    BY <1>7, <1>8, <1>9 DEF PagesInv

\* Saving the labels of an addition.
LEMMA AppendBundlePages ==
  ASSUME PagesInv, NEW t \in Tabs, Pages!AppendBundle(t)
  PROVE  PagesInv'
  <1> USE Bounds
  <1> DEFINE run == tab[t].run
             save == [phase |-> "post", index |-> run.start + 1, prize |-> run.prize]
  <1>1. run \in Actions /\ run.phase = "append"
    BY DEF Chain, Screen, PagesInv, PagesTyped, Pages!AppendBundle
  <1>2. run.start \in Nat /\ run.prize \in Prizes
    BY <1>1 DEF Actions, Pages!NoRun
  <1>3. /\ treasury \in Chain
        /\ tab \in [Tabs -> Screen]
        /\ post \in [Tabs -> {Pages!NoReq, [phase |-> "record"]} \union Saves]
        /\ Len(treasury.bundles) \in Nat
    BY DEF PagesInv, PagesTyped
  <1>4. /\ treasury' = IF Len(treasury.bundles) = run.start + 1 THEN treasury
                       ELSE [treasury EXCEPT !.bundles = Append(@, run.prize)]
        /\ tab' = [tab EXCEPT ![t].run = save]
        /\ post' = [post EXCEPT ![t] = [phase |-> "record"]]
        /\ UNCHANGED <<now, cache, record, req>>
        /\ ~treasury.locked /\ run.start < MaxBundles
        /\ \/ Len(treasury.bundles) = run.start
           \/ /\ Len(treasury.bundles) = run.start + 1
              /\ treasury.bundles[run.start + 1] = run.prize
    BY DEF Pages!AppendBundle, Pages!Runs, Pages!OpenForEdits, Pages!MatchesHistory,
       Pages!HasRoom
  <1>5. /\ save \in Actions /\ save.phase = "post" /\ save.index = run.start + 1
        /\ save.prize = run.prize
    BY <1>2 DEF Actions
  <1> HIDE DEF run, save
  <1>6. /\ tab' \in [Tabs -> Screen]
        /\ tab'[t].run = save
        /\ \A u \in Tabs \ {t} : tab'[u] = tab[u]
        /\ \A u \in Tabs : tab'[u].view = tab[u].view /\ tab'[u].seenAt = tab[u].seenAt
    BY <1>4, <1>5, SetRun DEF Pages!Runs
  \* What was there stays, and the bundle of the addition is there.
  <1>7. /\ treasury' \in Chain
        /\ Len(treasury'.bundles) \in Nat
        /\ Len(treasury'.bundles) = run.start + 1
        /\ Len(treasury.bundles) <= Len(treasury'.bundles)
        /\ \A i \in 1 .. Len(treasury.bundles) : treasury'.bundles[i] = treasury.bundles[i]
        /\ treasury'.bundles[run.start + 1] = run.prize
        /\ treasury'.minted = treasury.minted /\ ~treasury'.locked
    <2>1. CASE Len(treasury.bundles) = run.start + 1
      BY <1>2, <1>3, <1>4, <2>1
    <2>2. CASE Len(treasury.bundles) = run.start
      <3>1. treasury' = [treasury EXCEPT !.bundles = Append(treasury.bundles, run.prize)]
        BY <1>2, <1>4, <2>2
      <3>2. treasury.bundles \in Seq(Prizes)
        BY <1>3 DEF Chain, Screen
      <3>3. PICK old \in Seq(Prizes) : old = treasury.bundles
        BY <3>2
      <3>4. /\ Append(old, run.prize) \in Seq(Prizes)
            /\ Len(Append(old, run.prize)) = Len(old) + 1
            /\ \A i \in 1 .. Len(old) : Append(old, run.prize)[i] = old[i]
            /\ Append(old, run.prize)[Len(old) + 1] = run.prize
        BY <1>2
      <3>5. PICK c \in Chain : c = treasury
        BY <1>3
      <3>6. treasury' = [c EXCEPT !.bundles = Append(old, run.prize)]
        BY <3>1, <3>3, <3>5
      <3>7. treasury'.bundles = Append(old, run.prize) /\ treasury'.minted = treasury.minted
            /\ treasury'.locked = treasury.locked
            /\ treasury' \in Chain
        BY <3>4, <3>5, <3>6 DEF Chain
      <3>8. QED
        BY <1>2, <1>3, <1>4, <2>2, <3>3, <3>4, <3>7
    <2>3. QED
      BY <1>4, <2>1, <2>2
  <1>8. ASSUME NEW l, l.index \in Nat \ {0}, Describes(l) PROVE Describes(l)'
    BY <1>3, <1>7, <1>8 DEF Describes
  <1>9. PagesTyped'
    <2>1. tab' \in [Tabs -> Screen]
      BY <1>6
    <2>2. post' \in [Tabs -> {Pages!NoReq, [phase |-> "record"]} \union Saves]
      BY <1>3, <1>4
    <2>3. QED
      BY <1>4, <1>7, <2>1, <2>2 DEF PagesInv, PagesTyped
  <1>10. Treasury' /\ CacheSound'
    BY <1>2, <1>3, <1>4, <1>7 DEF Chain, Screen, PagesInv, Treasury, CacheSound, Past
  <1>11. \A l \in record' : Describes(l)'
    BY <1>4, <1>8 DEF PagesInv, PagesTyped, Labels
  <1>12. ASSUME NEW u \in Tabs
         PROVE  /\ Reads(req[u])' /\ TabSound(u)' /\ Saving(u)'
                /\ (post[u].phase \in {"match", "rest", "answer"} => Reads(post[u]))'
    <2>1. /\ u # t => tab'[u] = tab[u] /\ post'[u] = post[u]
          /\ u = t => tab'[u].run = save /\ post'[u] = [phase |-> "record"]
          /\ tab'[u].view = tab[u].view /\ tab'[u].seenAt = tab[u].seenAt
      BY <1>3, <1>4, <1>12, <1>6
    <2>2. Reads(req[u])' /\ TabSound(u)'
      BY <1>4, <1>12, <2>1 DEF PagesInv, TabSound, Reads, Past
    <2>3. (post[u].phase \in {"match", "rest", "answer"} => Reads(post[u]))'
      BY <1>4, <1>12, <2>1 DEF PagesInv, Reads, Past
    <2>4. CASE u = t
      <3>1. /\ save.index <= Len(treasury'.bundles)
            /\ treasury'.bundles[save.index] = save.prize
        BY <1>2, <1>5, <1>7
      <3>2. tab'[u].run = save /\ post'[u].phase = "record"
        BY <2>1, <2>4
      <3>3. Saving(u)'
        BY <1>5, <3>1, <3>2 DEF Saving, Describes
      <3>4. QED
        BY <2>2, <2>3, <3>3
    <2>5. CASE u # t
      <3>1. Saving(u) /\ tab[u].run \in Actions
            /\ post[u] \in {Pages!NoReq, [phase |-> "record"]} \union Saves
        BY <1>3, <1>12 DEF Chain, Screen, PagesInv
      <3>2. tab[u].run.phase = "post" => Describes(tab[u].run) /\ tab[u].run.index \in Nat \ {0}
        BY <3>1 DEF Saving, Actions, Pages!NoRun
      <3>3. post[u].phase \in {"match", "rest", "answer"} => post[u].labels \subseteq Labels
        BY <3>1 DEF Saves, SavesOf, Pages!NoReq
      <3>4. tab[u].run.phase = "post" => Describes(tab[u].run)'
        <4>1. SUFFICES ASSUME tab[u].run.phase = "post" PROVE Describes(tab[u].run)'
          OBVIOUS
        <4>2. PICK l : l = tab[u].run
          OBVIOUS
        <4>3. l.index \in Nat \ {0} /\ Describes(l)
          BY <3>2, <4>1, <4>2
        <4>4. Describes(l)' /\ tab'[u].run = l
          BY <1>7, <1>3, <2>1, <2>5, <4>2, <4>3 DEF Describes
        <4>5. QED
          BY <4>4 DEF Describes
      <3>5. QED
        BY <1>8, <2>1, <2>2, <2>3, <2>5, <3>1, <3>3, <3>4 DEF Saving, Describes, Labels
    <2>6. QED
      BY <2>4, <2>5
  <1>13. QED
    BY <1>9, <1>10, <1>11, <1>12 DEF PagesInv

\* The other requests of a save leave the chain alone.
LEMMA SavesPages ==
  ASSUME PagesInv, NEW t \in Tabs, NEW next \in {[phase |-> "record"]} \union Saves,
         tab[t].run.phase = "post", post' = [post EXCEPT ![t] = next],
         next \in Saves => Reads(next) /\ \A l \in next.labels : Describes(l),
         Holds(cache'), UNCHANGED <<now, treasury, record, req, tab>>
  PROVE  PagesInv'
  <1>1. post \in [Tabs -> {Pages!NoReq, [phase |-> "record"]} \union Saves]
    BY DEF PagesInv, PagesTyped
  <1>2. PagesTyped' /\ CacheSound'
    <2>1. post' \in [Tabs -> {Pages!NoReq, [phase |-> "record"]} \union Saves]
      BY <1>1
    <2>2. QED
      BY <2>1 DEF PagesInv, PagesTyped, CacheSound, Holds, Past
  <1>3. Treasury' /\ (\A l \in record : Describes(l))'
    BY DEF PagesInv, Treasury, Describes
  <1>4. next.phase # "none" /\ (next.phase \in {"match", "rest", "answer"} => next \in Saves)
    BY DEF Saves, SavesOf
  <1>5. ASSUME NEW u \in Tabs
        PROVE  /\ Reads(req[u])' /\ TabSound(u)' /\ Saving(u)'
               /\ (post[u].phase \in {"match", "rest", "answer"} => Reads(post[u]))'
    <2>1. Reads(req[u])' /\ TabSound(u)'
      BY <1>5 DEF PagesInv, TabSound, Reads, Past
    <2>2. CASE u = t
      <3>1. post'[u] = next
        BY <1>1, <2>2
      <3>2. (post[u].phase \in {"match", "rest", "answer"} => Reads(post[u]))'
        BY <1>4, <3>1 DEF Reads, Past
      <3>3. Saving(u)'
        BY <1>4, <1>5, <2>2, <3>1 DEF PagesInv, Saving, Describes
      <3>4. QED
        BY <2>1, <3>2, <3>3
    <2>3. CASE u # t
      <3>1. post'[u] = post[u]
        BY <1>1, <1>5, <2>3
      <3>2. QED
        BY <1>5, <2>1, <3>1 DEF PagesInv, Saving, Describes, Reads, Past
    <2>4. QED
      BY <2>2, <2>3
  <1>6. QED
    BY <1>2, <1>3, <1>5 DEF PagesInv

LEMMA SavePhase ==
  ASSUME PagesInv, NEW t \in Tabs, post[t].phase \in {"match", "rest", "answer"}
  PROVE  /\ post[t] \in Saves /\ Reads(post[t]) /\ tab[t].run.phase = "post"
         /\ \A l \in post[t].labels : Describes(l)
  BY DEF PagesInv, PagesTyped, Saving, Pages!NoReq

LEMMA ReadRecordPages ==
  ASSUME PagesInv, NEW t \in Tabs, Pages!ReadRecord(t)
  PROVE  PagesInv'
  <1> DEFINE next == [phase |-> "match", view |-> None, age |-> 0, labels |-> record]
  <1>1. next \in Saves /\ Reads(next)
    BY Bounds DEF Saves, SavesOf, Reads, PagesInv, PagesTyped
  <1>2. \A l \in next.labels : Describes(l)
    BY DEF PagesInv
  <1>3. Holds(cache') /\ tab[t].run.phase = "post"
    BY DEF PagesInv, PagesTyped, CacheSound, Holds, Past, Pages!ReadRecord, Saving
  <1>4. post' = [post EXCEPT ![t] = next] /\ UNCHANGED <<now, treasury, record, req, tab>>
    BY DEF Pages!ReadRecord
  <1> HIDE DEF next
  <1>5. QED
    BY <1>1, <1>2, <1>3, <1>4, SavesPages

LEMMA ServePostPages ==
  ASSUME PagesInv, NEW t \in Tabs, Pages!ServePost(t)
  PROVE  PagesInv'
  <1>1. PICK step \in Pages!ChainRead(post[t]) :
          post' = [post EXCEPT ![t] = step.next] /\ cache' = step.cache
    BY DEF Pages!ServePost
  <1>2. post[t].phase \in {"match", "rest", "answer"}
    BY <1>1 DEF Pages!ChainRead
  <1>3. /\ post[t] \in Saves /\ Reads(post[t]) /\ tab[t].run.phase = "post"
        /\ \A l \in post[t].labels : Describes(l)
    BY <1>2, SavePhase
  <1>4. Follows(post[t], step.next) /\ Reads(step.next) /\ Holds(step.cache)
    BY <1>3, ChainReadSound DEF Saves
  <1>5. step.next \in Saves /\ step.next.labels = post[t].labels
    BY <1>3, <1>4 DEF Saves, Follows
  <1>6. UNCHANGED <<now, treasury, record, req, tab>>
    BY DEF Pages!ServePost
  <1>7. Holds(cache')
    BY <1>1, <1>4
  <1>8. QED
    BY <1>1, <1>3, <1>4, <1>5, <1>6, <1>7, SavesPages

LEMMA SaveEndsPages ==
  ASSUME PagesInv, NEW t \in Tabs, Pages!SaveLabels(t) \/ Pages!LabelsNotSaved(t)
  PROVE  PagesInv'
  <1>1. /\ post' = [post EXCEPT ![t] = Pages!NoReq]
        /\ tab' = [tab EXCEPT ![t].run = Pages!NoRun]
        /\ req' = [req EXCEPT ![t] = Pages!Starts]
        /\ UNCHANGED <<now, treasury, cache>> /\ post[t].phase = "answer"
    BY DEF Pages!SaveLabels, Pages!LabelsNotSaved, Pages!Ends, Pages!Runs, Pages!Answered
  <1>2. /\ post[t] \in Saves /\ tab[t].run.phase = "post"
        /\ \A l \in post[t].labels : Describes(l)
    BY <1>1, SavePhase
  <1>3. /\ post \in [Tabs -> {Pages!NoReq, [phase |-> "record"]} \union Saves]
        /\ req \in [Tabs -> Moments] /\ Pages!Starts \in Moments /\ Pages!NoRun \in Actions
        /\ tab \in [Tabs -> Screen]
    BY DEF PagesInv, PagesTyped, Pages!Starts, Moments, Actions
  <1>4. /\ tab' \in [Tabs -> Screen]
        /\ tab'[t].run = Pages!NoRun
        /\ \A u \in Tabs \ {t} : tab'[u] = tab[u]
        /\ \A u \in Tabs : tab'[u].view = tab[u].view /\ tab'[u].seenAt = tab[u].seenAt
    BY <1>1, <1>3, SetRun DEF Pages!Runs
  <1>5. record' \subseteq Labels /\ \A l \in record' : Describes(l)
    <2>1. CASE Pages!LabelsNotSaved(t)
      BY <2>1 DEF Pages!LabelsNotSaved, PagesInv, PagesTyped
    <2>2. CASE Pages!SaveLabels(t)
      <3> DEFINE label == [index |-> tab[t].run.index, prize |-> tab[t].run.prize]
      <3>1. record' \subseteq post[t].labels \union {label}
        BY <2>2 DEF Pages!SaveLabels, Pages!Merged
      <3>2. tab[t].run \in Actions /\ Describes(tab[t].run)
        BY <1>2, <1>3 DEF Screen, PagesInv, Saving
      <3>3. label \in Labels /\ Describes(label)
        BY <1>2, <3>2 DEF Actions, Pages!NoRun, Labels, Describes
      <3>4. post[t].labels \subseteq Labels
        BY <1>2 DEF Saves, SavesOf
      <3> HIDE DEF label
      <3>5. QED
        BY <1>2, <3>1, <3>3, <3>4
    <2>3. QED
      BY <2>1, <2>2
  <1>6. PagesTyped'
    <2>1. post' \in [Tabs -> {Pages!NoReq, [phase |-> "record"]} \union Saves]
      BY <1>1, <1>3
    <2>2. req' \in [Tabs -> Moments]
      BY <1>1, <1>3
    <2>3. tab' \in [Tabs -> Screen]
      BY <1>4
    <2>4. QED
      BY <1>1, <1>5, <2>1, <2>2, <2>3 DEF PagesInv, PagesTyped
  <1>7. Treasury' /\ CacheSound' /\ \A l \in record' : Describes(l)'
    BY <1>1, <1>5 DEF PagesInv, Treasury, CacheSound, Past, Describes
  <1>8. ASSUME NEW u \in Tabs
        PROVE  /\ Reads(req[u])' /\ TabSound(u)' /\ Saving(u)'
               /\ (post[u].phase \in {"match", "rest", "answer"} => Reads(post[u]))'
    <2>1. Reads(req[u]) /\ (req'[u] = req[u] \/ req'[u] = Pages!Starts)
      BY <1>1, <1>3, <1>8 DEF PagesInv
    <2>2. Reads(req[u])'
      BY <1>1, <2>1, Bounds DEF Reads, Past, Pages!Starts
    <2>3. /\ tab'[u].view = tab[u].view /\ tab'[u].seenAt = tab[u].seenAt
          /\ u # t => tab'[u] = tab[u] /\ post'[u] = post[u]
          /\ u = t => tab'[u].run.phase = "idle" /\ post'[u].phase = "none"
      BY <1>1, <1>3, <1>8, <1>4 DEF Pages!NoRun, Pages!NoReq
    <2>4. TabSound(u)'
      BY <1>1, <1>8, <2>3 DEF PagesInv, TabSound
    <2>5. Saving(u)' /\ (post[u].phase \in {"match", "rest", "answer"} => Reads(post[u]))'
      BY <1>1, <1>8, <2>3 DEF PagesInv, Saving, Describes, Reads, Past
    <2>6. QED
      BY <2>2, <2>4, <2>5
  <1>9. QED
    BY <1>6, <1>7, <1>8 DEF PagesInv

LEMMA NextPages == PagesInv /\ [Pages!Next]_(Pages!vars) => PagesInv'
  <1> SUFFICES ASSUME PagesInv, [Pages!Next]_(Pages!vars) PROVE PagesInv'
    OBVIOUS
  <1>1. CASE UNCHANGED Pages!vars
    BY <1>1 DEF Pages!vars, PagesInv, PagesTyped, Treasury, CacheSound, Past, Reads, TabSound,
       Describes, Saving
  <1>2. CASE Pages!Tick
    BY <1>2, TickPages
  <1>3. ASSUME NEW t \in Tabs, Pages!ServePage(t) \/ Pages!ShowPage(t) \/ Pages!TabStep(t)
        PROVE  PagesInv'
    BY <1>3, ServePagePages, ShowPagePages, BeginsPages, EndsPages, ReadStartPages,
       ReadReadinessPages, AppendBundlePages, ReadRecordPages, ServePostPages, SaveEndsPages
       DEF Pages!TabStep
  <1>4. QED
    BY <1>1, <1>2, <1>3 DEF Pages!Next

\* Whatever tabs do, and however old the views they act on: no view is older than
\* the cache and a read allow, no page is ahead of the clock, every saved label
\* names what is on chain, and a locked treasury has a box for every bundle.
THEOREM PagesAlwaysSound == Pages!Spec => []PagesSound
  <1>1. PagesInv => PagesSound
    <2> SUFFICES ASSUME PagesInv PROVE PagesSound
      OBVIOUS
    <2>1. Pages!TypeOK /\ Pages!LockedIsExact
      BY DEF PagesInv, PagesTyped, Treasury, Chain, TabSound, Pages!TypeOK, Pages!LockedIsExact, Pages!Shows
    <2>2. Pages!BoundedAge
      BY DEF PagesInv, Reads, Pages!BoundedAge
    <2>3. Pages!NeverAhead
      <3> SUFFICES ASSUME NEW t \in Tabs, Pages!Shows(t) PROVE Pages!PageClock(t) <= now
        BY DEF Pages!NeverAhead
      <3>1. tab[t].view \in Pages!Views /\ tab[t].view.time <= tab[t].seenAt
            /\ tab[t].seenAt \in Nat /\ now \in Nat
        BY DEF Screen, PagesInv, PagesTyped, TabSound, Pages!Shows
      <3>2. tab[t].view.time \in Nat
        BY <3>1 DEF Pages!Views
      <3>3. QED
        BY <3>1, <3>2 DEF Pages!PageClock
    <2>4. Pages!LabelsDescribeChain
      BY DEF PagesInv, Describes, Pages!LabelsDescribeChain
    <2>5. QED
      BY <2>1, <2>2, <2>3, <2>4 DEF PagesSound, Pages!PageSound
  <1>2. QED
    BY <1>1, InitPages, NextPages, PTL DEF Pages!Spec
=============================================================================
