-------------------------- MODULE PrizePoolProofs --------------------------
(***************************************************************************)
(* A prize pool is what it announces and every winner gets what he drew,   *)
(* for every number of copies, leaves and openings.                        *)
(***************************************************************************)
EXTENDS MCPool, FiniteSetTheorems, SequenceTheorems, TLAPS

Pending == {o \in Openings : opening[o].status = "pending"}
Owed == {o \in Openings : opening[o].status = "allocated"}
Done == {o \in Openings : opening[o].status = "delivered"}
Drawn == Owed \cup Done

\* Nothing is issued, opened or locked before the bundle is active.
Quiet ==
  bundle.status # "active" =>
    /\ template.remaining = 0
    /\ \A o \in Openings : opening[o].status = "none"

\* The counts of the treasury and the pool are those of the openings.
Counted ==
  /\ template.supply + template.pending <= template.remaining
  /\ template.pending = Cardinality(Pending)
  /\ pool # None => /\ pool.assigned = Cardinality(Drawn)
                    /\ pool.claimed <= Cardinality(Done)
  /\ \A o, u \in Drawn : o # u => opening[o].item # opening[u].item

\* A pool that is being filled: its leaves so far, in order, and how to unwind.
Stacked(i) ==
  IF i < pool.cursor
    THEN /\ item[i] # None
         /\ item[i].status = "deposited"
         /\ pool.manifest[i + 1] = <<item[i].leaf, item[i].verified>>
         /\ Len(item[i].before) = i
         /\ \A k \in 1 .. i : item[i].before[k] = pool.manifest[k]
    ELSE IF i = pool.cursor /\ pool.prepared
      THEN item[i] # None /\ item[i].status = "prepared"
      ELSE item[i] = None

Filling ==
  pool # None /\ pool.status = "funding" =>
    /\ bundle.status = "funding" /\ bundle.reserved /\ bundle.commitment = None
    /\ ~bundle.funded /\ ~bundle.reclaimed /\ bundle.released = 0
    /\ pool.unavailable = {} /\ pool.reclaimed = 0
    /\ pool.prepared => pool.cursor < Quantity
    /\ Len(pool.manifest) = pool.cursor
    /\ \A i \in Index : Stacked(i)

\* What is left of an item once the pool is sealed: it waits for a draw or for
\* its winner, or is gone.
Kept(i) ==
  item[i] # None =>
    /\ item[i].status = "deposited"
    /\ item[i].leaf = bundle.commitment[i + 1][1]
    /\ \/ pool # None /\ i \notin pool.unavailable
       \/ \E o \in Owed : opening[o].item = i

Sealed ==
  pool # None /\ pool.status = "sealed" =>
    /\ bundle.status # "none" /\ bundle.reserved /\ bundle.funded
    /\ bundle.commitment = pool.manifest
    /\ pool.cursor = Quantity /\ Len(pool.manifest) = Quantity
    /\ Cardinality(pool.unavailable) = pool.assigned + pool.reclaimed
    /\ bundle.released = Cardinality(Done) + pool.reclaimed
    /\ bundle.status = "funding" => (bundle.reclaimed <=> pool.reclaimed = Quantity)
    /\ bundle.status = "active" =>
         /\ template.remaining = Quantity - pool.assigned
         /\ pool.reclaimed > 0 => NothingOutstanding
    /\ \A i \in Index : Kept(i) /\ (i \notin pool.unavailable => item[i] # None)
    /\ \A o \in Drawn : opening[o].item \in pool.unavailable
    /\ \A o \in Owed : item[opening[o].item] # None

\* Where there is no pool, before there was one or after it was closed.
Closed ==
  pool = None =>
    IF bundle.status = "active"
      THEN /\ Retired /\ bundle.reserved
           /\ bundle.released + Cardinality(Owed) <= Quantity
           /\ \A i \in Index : Kept(i)
           /\ \A o \in Owed : item[opening[o].item] # None
      ELSE /\ \A i \in Index : item[i] = None
           /\ ~bundle.reserved /\ bundle.commitment = None
           /\ bundle.funded = bundle.reclaimed
           /\ ~bundle.funded => bundle.released = 0

Placed == (bundle.status = "none" => pool = None) /\ Filling /\ Sealed /\ Closed

IInv ==
  TypeOK /\ Quiet /\ Counted /\ Placed /\ LeavesBacked /\ WinnerGetsAnnounced

-----------------------------------------------------------------------------
(* Types and counts.                                                       *)

LEMMA TypedTemplate ==
  ASSUME TypeOK
  PROVE  /\ Quantity \in Nat /\ Quantity > 0
         /\ template \in TemplateType
         /\ template.minted \in Count /\ template.remaining \in Count
         /\ template.pending \in Count /\ template.supply \in Count
         /\ template.minted \in Nat /\ template.remaining \in Nat
         /\ template.pending \in Nat /\ template.supply \in Nat
         /\ template.locked \in BOOLEAN /\ template.revealed \in BOOLEAN
         /\ template.status \in {"live", "retired"}
  BY PoolAssumption DEF TypeOK, TemplateType, Count

LEMMA TypedBundle ==
  ASSUME TypeOK
  PROVE  /\ bundle \in BundleType
         /\ bundle.status \in {"none", "funding", "active"}
         /\ bundle.funded \in BOOLEAN /\ bundle.reserved \in BOOLEAN
         /\ bundle.reclaimed \in BOOLEAN
         /\ bundle.commitment \in Manifests \cup {None}
         /\ bundle.released \in Count /\ bundle.released \in Nat
  BY PoolAssumption DEF TypeOK, BundleType, Count

LEMMA TypedPool ==
  ASSUME TypeOK, pool # None
  PROVE  /\ pool \in PoolType
         /\ pool.status \in {"funding", "sealed"}
         /\ pool.cursor \in Count /\ pool.cursor \in Nat
         /\ pool.prepared \in BOOLEAN
         /\ pool.manifest \in Manifests
         /\ pool.unavailable \subseteq Index
         /\ pool.assigned \in Count /\ pool.assigned \in Nat
         /\ pool.claimed \in Count /\ pool.claimed \in Nat
         /\ pool.reclaimed \in Count /\ pool.reclaimed \in Nat
  BY PoolAssumption DEF TypeOK, PoolType, Count

LEMMA TypedOpening ==
  ASSUME TypeOK, NEW o \in Openings
  PROVE  /\ opening[o] \in OpeningType
         /\ opening[o].item \in Index
         /\ opening[o].status
              \in {"none", "pending", "forfeited", "allocated", "delivered"}
  BY DEF TypeOK, OpeningType

LEMMA TypedItem ==
  ASSUME TypeOK, NEW i \in Index
  PROVE  /\ item[i] # None => /\ item[i] \in ItemType
                              /\ item[i].leaf \in Leaves
                              /\ item[i].verified \in BOOLEAN
                              /\ item[i].status \in {"prepared", "deposited"}
                              /\ item[i].before \in Manifests
         /\ i \in Nat /\ i < Quantity /\ i + 1 \in 1 .. Quantity
  BY PoolAssumption DEF TypeOK, ItemType, Index

LEMMA NewIsNotNone ==
  /\ \A r \in PoolType \cup ItemType : r # None
  /\ NewPool \in PoolType /\ NewPool # None
  <1>1. \A r \in PoolType \cup ItemType : r # None
    BY PoolAssumption
  <1>2. <<>> \in Manifests
    BY DEF Manifests
  <1>3. 0 \in Count /\ {} \in SUBSET Index
    BY PoolAssumption DEF Count
  <1>4. NewPool \in PoolType
    BY <1>2, <1>3 DEF NewPool, PoolType
  <1>5. QED
    BY <1>1, <1>4

\* Sets of openings, and their sizes.
LEMMA OpeningsFinite ==
  ASSUME NEW S \in SUBSET Openings
  PROVE  IsFiniteSet(S) /\ Cardinality(S) \in Nat /\ (S = {} <=> Cardinality(S) = 0)
  <1>1. IsFiniteSet(S)
    BY PoolAssumption, FS_Subset
  <1>2. QED
    BY <1>1, FS_CardinalityType, FS_EmptySet

LEMMA IndexFinite ==
  /\ IsFiniteSet(Index) /\ Cardinality(Index) = Quantity
  /\ \A S \in SUBSET Index :
       /\ IsFiniteSet(S) /\ Cardinality(S) \in Nat /\ Cardinality(S) <= Quantity
       /\ Cardinality(S) = Quantity => S = Index
  <1>1. IsFiniteSet(Index) /\ Cardinality(Index) = Quantity
    <2>1. 0 \in Int /\ Quantity - 1 \in Int /\ ~ (0 > Quantity - 1)
          /\ Quantity - 1 - 0 + 1 = Quantity
      BY PoolAssumption
    <2>2. QED
      BY <2>1, FS_Interval, Zenon DEF Index
  <1>2. ASSUME NEW S \in SUBSET Index
        PROVE  /\ IsFiniteSet(S) /\ Cardinality(S) \in Nat
               /\ Cardinality(S) <= Quantity
               /\ Cardinality(S) = Quantity => S = Index
    BY <1>1, FS_Subset, FS_CardinalityType
  <1>3. QED
    BY <1>1, <1>2

\* Before the bundle is active no opening is pending, owed or delivered.
LEMMA NoneOpened ==
  ASSUME Quiet, bundle.status # "active"
  PROVE  /\ Pending = {} /\ Owed = {} /\ Done = {} /\ Drawn = {}
         /\ Cardinality(Pending) = 0 /\ Cardinality(Done) = 0
         /\ Cardinality(Drawn) = 0 /\ Cardinality(Owed) = 0
  <1>1. Pending = {} /\ Owed = {} /\ Done = {} /\ Drawn = {}
    BY DEF Quiet, Pending, Owed, Done, Drawn
  <1>2. QED
    BY <1>1, FS_EmptySet

\* What is owed and what is delivered are what was drawn.
LEMMA DrawnCounts ==
  /\ Owed \cap Done = {}
  /\ Cardinality(Owed) \in Nat /\ Cardinality(Done) \in Nat /\ Cardinality(Drawn) \in Nat
  /\ Cardinality(Drawn) = Cardinality(Owed) + Cardinality(Done)
  <1>1. Owed \subseteq Openings /\ Done \subseteq Openings /\ Owed \cap Done = {}
    BY DEF Owed, Done
  <1>2. /\ IsFiniteSet(Owed) /\ IsFiniteSet(Done)
        /\ Cardinality(Owed) \in Nat /\ Cardinality(Done) \in Nat
    BY <1>1, OpeningsFinite
  <1>3. Cardinality(Owed \cap Done) = 0
    BY <1>1, FS_EmptySet
  <1>4. Cardinality(Drawn) = Cardinality(Owed) + Cardinality(Done) - 0
    BY <1>2, <1>3, FS_Union DEF Drawn
  <1>5. QED
    BY <1>1, <1>2, <1>4

\* A phase of the pool: it is being filled only in a bundle that is funded.
LEMMA Phases ==
  ASSUME IInv
  PROVE  /\ TypeOK /\ Quiet /\ Counted /\ Filling /\ Sealed /\ Closed
         /\ LeavesBacked /\ WinnerGetsAnnounced
         /\ pool # None => bundle.reserved /\ bundle.status # "none"
         /\ pool # None /\ pool.status = "funding" => bundle.status = "funding" /\ ~bundle.funded
         /\ pool # None /\ bundle.status = "active" => pool.status = "sealed"
  <1>1. /\ TypeOK /\ Quiet /\ Counted /\ Filling /\ Sealed /\ Closed
        /\ LeavesBacked /\ WinnerGetsAnnounced /\ (bundle.status = "none" => pool = None)
    BY DEF IInv, Placed
  <1>2. pool # None /\ pool.status = "funding" =>
          bundle.status = "funding" /\ bundle.reserved /\ ~bundle.funded
    BY <1>1 DEF Filling
  <1>3. pool # None /\ pool.status = "sealed" => bundle.reserved
    BY <1>1 DEF Sealed
  <1>4. QED
    BY <1>1, <1>2, <1>3, TypedPool

-----------------------------------------------------------------------------
(* The first state, and steps of the treasury and of the tree.             *)

LEMMA InitInvariant == Init => IInv
  <1> SUFFICES ASSUME Init PROVE IInv
    OBVIOUS
  <1>1. 0 \in Index /\ 0 \in Count
    BY PoolAssumption DEF Index, Count
  <1>2. TypeOK
    BY <1>1 DEF Init, TypeOK, TemplateType, BundleType, OpeningType, NoBundle, NoOpening
  <1>3. Quiet
    BY DEF Init, Quiet, NoOpening
  <1>4. Counted
    BY <1>3, NoneOpened DEF Init, Counted, NoBundle
  <1>5. Placed
    BY DEF Init, Placed, Filling, Sealed, Closed, NoBundle
  <1>6. LeavesBacked
    <2>1. Deposited = {} /\ {l \in Leaves : owner[l] = "pool"} = {}
      BY DEF Init, Deposited
    <2>2. QED
      BY <2>1 DEF LeavesBacked
  <1>7. WinnerGetsAnnounced
    BY DEF Init, WinnerGetsAnnounced, NoOpening
  <1>8. QED
    BY <1>2, <1>3, <1>4, <1>5, <1>6, <1>7 DEF IInv

\* The invariant reads of the treasury its counts and whether it is retired.
LEMMA TemplateKeeps ==
  ASSUME IInv, UNCHANGED <<bundle, pool, item, opening, owner>>,
         template' \in TemplateType, flag' \in [Leaves -> BOOLEAN],
         template'.remaining = template.remaining,
         template'.pending = template.pending,
         template'.supply + template'.pending <= template'.remaining,
         Retired => Retired' /\ template'.supply <= template.supply
  PROVE  IInv'
  <1>1. /\ TypeOK /\ Quiet /\ Counted /\ Filling /\ Sealed /\ Closed
        /\ LeavesBacked /\ WinnerGetsAnnounced
    BY Phases
  <1>2. TypeOK'
    BY <1>1 DEF TypeOK
  <1>3. Pending' = Pending /\ Owed' = Owed /\ Done' = Done /\ Drawn' = Drawn
    BY DEF Pending, Owed, Done, Drawn
  <1>4. Quiet'
    BY <1>1 DEF Quiet
  <1>5. Counted'
    BY <1>1, <1>3 DEF Counted
  <1>6. NothingOutstanding => NothingOutstanding'
    <2>1. template.supply \in Nat /\ template'.supply \in Nat
      BY <1>1, <1>2, TypedTemplate DEF TypeOK, TemplateType, Count
    <2>2. QED
      BY <2>1 DEF NothingOutstanding
  <1>7. \A i \in Index : (Stacked(i) => Stacked(i)') /\ (Kept(i) => Kept(i)')
    BY <1>3 DEF Stacked, Kept
  <1>8. Filling'
    BY <1>1, <1>7 DEF Filling
  <1>9. Sealed'
    BY <1>1, <1>3, <1>6, <1>7 DEF Sealed
  <1>10. Closed'
    BY <1>1, <1>3, <1>7 DEF Closed
  <1>11. LeavesBacked' /\ WinnerGetsAnnounced'
    BY <1>1 DEF LeavesBacked, WinnerGetsAnnounced, Deposited
  <1>12. QED
    BY <1>2, <1>4, <1>5, <1>8, <1>9, <1>10, <1>11 DEF IInv, Placed

LEMMA TreasuryKeeps ==
  ASSUME IInv, IssueBox \/ LockTreasury \/ Reveal \/ BurnBox \/ RetireTemplate \/ Tree
  PROVE  IInv'
  <1>1. TypeOK /\ Counted
    BY DEF IInv
  <1>2. flag \in [Leaves -> BOOLEAN] /\ template.supply + template.pending <= template.remaining
    BY <1>1 DEF TypeOK, Counted
  <1>3. CASE IssueBox
    <2>1. template' = [template EXCEPT !.minted = @ + 1, !.supply = @ + 1]
          /\ template.minted < Quantity
          /\ template.supply + template.pending + 1 <= template.remaining
          /\ ~Retired
      BY <1>3 DEF IssueBox, Editable, Retired
    <2>2. template.minted + 1 \in Count /\ template.supply + 1 \in Count
      BY <1>1, <2>1, TypedTemplate DEF Count
    <2>3. /\ template' \in TemplateType
          /\ template'.remaining = template.remaining
          /\ template'.pending = template.pending
          /\ template'.supply = template.supply + 1
      BY <1>1, <2>1, <2>2, TypedTemplate DEF TemplateType
    <2>4. template'.supply + template'.pending <= template'.remaining
      BY <1>1, <2>1, <2>3, TypedTemplate
    <2>5. QED
      BY <1>2, <1>3, <2>1, <2>3, <2>4, TemplateKeeps DEF IssueBox
  <1>4. CASE LockTreasury \/ Reveal \/ RetireTemplate
    <2>1. /\ template' \in TemplateType
          /\ template'.remaining = template.remaining
          /\ template'.pending = template.pending
          /\ template'.supply = template.supply
          /\ Retired => Retired'
      <3>1. CASE LockTreasury
        BY <1>1, <3>1, TypedTemplate DEF LockTreasury, TemplateType, Retired
      <3>2. CASE Reveal
        BY <1>1, <3>2, TypedTemplate DEF Reveal, TemplateType, Retired
      <3>3. CASE RetireTemplate
        BY <1>1, <3>3, TypedTemplate DEF RetireTemplate, TemplateType, Retired
      <3>4. QED
        BY <1>4, <3>1, <3>2, <3>3
    <2>2. UNCHANGED <<bundle, pool, item, opening, owner, flag>>
      BY <1>4 DEF LockTreasury, Reveal, RetireTemplate
    <2>3. template'.supply <= template.supply
      BY <1>1, <2>1, TypedTemplate
    <2>4. QED
      BY <1>2, <2>1, <2>2, <2>3, TemplateKeeps
  <1>5. CASE BurnBox
    <2>1. template' = [template EXCEPT !.supply = @ - 1] /\ template.supply > 0
      BY <1>5 DEF BurnBox
    <2>2. template.supply - 1 \in Count
      BY <1>1, <2>1, TypedTemplate DEF Count
    <2>3. /\ template' \in TemplateType
          /\ template'.remaining = template.remaining
          /\ template'.pending = template.pending
          /\ template'.supply = template.supply - 1
          /\ template'.status = template.status
      BY <1>1, <2>1, <2>2, TypedTemplate DEF TemplateType
    <2>4. /\ template'.supply + template'.pending <= template'.remaining
          /\ template'.supply <= template.supply
      BY <1>1, <1>2, <2>3, TypedTemplate
    <2>5. QED
      BY <1>2, <1>5, <2>3, <2>4, TemplateKeeps DEF BurnBox, Retired
  <1>6. CASE \E l \in Leaves : ToggleFlag(l)
    <2>1. /\ template' = template /\ flag' \in [Leaves -> BOOLEAN]
          /\ UNCHANGED <<bundle, pool, item, opening, owner>>
      BY <1>2, <1>6 DEF ToggleFlag
    <2>2. /\ template' \in TemplateType /\ template'.supply <= template.supply
      BY <1>1, <2>1, TypedTemplate
    <2>3. QED
      BY <1>2, <2>1, <2>2, TemplateKeeps DEF Retired
  <1>7. CASE \E l \in Leaves : SellLeaf(l)
    <2>1. PICK l \in Leaves : SellLeaf(l)
      BY <1>7
    <2>2. /\ owner \in [Leaves -> Openings \cup {"creator", "pool", "somebody"}]
          /\ owner' = [owner EXCEPT ![l] = "somebody"] /\ owner[l] = "creator"
          /\ UNCHANGED <<template, bundle, pool, item, opening, flag>>
      BY <1>1, <2>1 DEF SellLeaf, TypeOK
    <2>3. /\ TypeOK'
          /\ \A m \in Leaves : owner'[m] = "pool" <=> owner[m] = "pool"
          /\ \A m \in Leaves, o \in Openings : owner[m] = o => owner'[m] = o
      BY <1>1, <2>2, PoolAssumption DEF TypeOK
    <2>4. Quiet' /\ Counted' /\ Placed'
      <3>1. Pending' = Pending /\ Owed' = Owed /\ Done' = Done /\ Drawn' = Drawn
        BY <2>2 DEF Pending, Owed, Done, Drawn
      <3>2. Quiet' /\ Counted'
        BY <2>2, <3>1 DEF IInv, Quiet, Counted
      <3>3. \A i \in Index : (Stacked(i) => Stacked(i)') /\ (Kept(i) => Kept(i)')
        BY <2>2, <3>1 DEF Stacked, Kept
      <3>4. Filling'
        BY <2>2, <3>3 DEF IInv, Placed, Filling
      <3>5. Sealed'
        BY <2>2, <3>1, <3>3 DEF IInv, Placed, Sealed, NothingOutstanding, Retired
      <3>6. Closed'
        BY <2>2, <3>1, <3>3 DEF IInv, Placed, Closed, Retired
      <3>7. QED
        BY <2>2, <3>2, <3>4, <3>5, <3>6 DEF IInv, Placed
    <2>5. LeavesBacked'
      BY <2>2, <2>3 DEF IInv, LeavesBacked, Deposited
    <2>6. WinnerGetsAnnounced'
      BY <2>2, <2>3 DEF IInv, WinnerGetsAnnounced
    <2>7. QED
      BY <2>3, <2>4, <2>5, <2>6 DEF IInv
  <1>8. QED
    BY <1>3, <1>4, <1>5, <1>6, <1>7 DEF Tree

-----------------------------------------------------------------------------
(* Openings that come to nothing yet.                                      *)

\* An opening that is requested or forfeited moves nothing of the pool.
LEMMA OpeningKeeps ==
  ASSUME IInv, UNCHANGED <<bundle, pool, item, owner, flag>>, bundle.status = "active",
         NEW o \in Openings, opening[o].status \in {"none", "pending"},
         NEW s \in {"pending", "forfeited"},
         opening' = [opening EXCEPT ![o].status = s],
         template' \in TemplateType, ~NothingOutstanding,
         template'.status = template.status,
         template'.remaining = template.remaining,
         template'.supply + template'.pending <= template'.remaining,
         template'.pending = Cardinality(Pending')
  PROVE  IInv'
  <1>1. /\ TypeOK /\ Counted /\ Sealed /\ Closed /\ Filling
        /\ LeavesBacked /\ WinnerGetsAnnounced
        /\ pool # None => pool.status = "sealed"
    BY Phases
  <1>2. opening \in [Openings -> OpeningType] /\ opening' \in [Openings -> OpeningType]
    BY <1>1 DEF TypeOK, OpeningType
  <1>3. TypeOK'
    BY <1>1, <1>2 DEF TypeOK
  <1>4. \A u \in Openings : opening'[u].item = opening[u].item
    BY <1>2 DEF OpeningType
  <1>5. /\ \A u \in Openings : opening'[u].status = "allocated" <=> opening[u].status = "allocated"
        /\ \A u \in Openings : opening'[u].status = "delivered" <=> opening[u].status = "delivered"
    BY <1>2 DEF OpeningType
  <1>6. Owed' = Owed /\ Done' = Done /\ Drawn' = Drawn /\ Drawn \subseteq Openings
    BY <1>5 DEF Owed, Done, Drawn
  <1>7. Quiet' /\ Filling'
    BY <1>1 DEF Quiet, Filling
  <1>8. Counted'
    <2>1. \A u, v \in Drawn' : u # v => opening'[u].item # opening'[v].item
      BY <1>1, <1>4, <1>6 DEF Counted
    <2>2. QED
      BY <1>1, <1>6, <2>1 DEF Counted
  <1>9. \A i \in Index : Kept(i) => Kept(i)'
    BY <1>4, <1>6 DEF Kept, Owed
  <1>10. Sealed'
    <2>1. pool # None => ~(pool.reclaimed > 0)
      BY <1>1 DEF Sealed
    <2>2. \A u \in Drawn : opening'[u].item = opening[u].item
      BY <1>4, <1>6
    <2>3. Owed \subseteq Drawn
      BY DEF Drawn
    <2>4. QED
      BY <1>1, <1>6, <1>9, <2>1, <2>2, <2>3 DEF Sealed
  <1>11. Closed'
    <2>1. \A u \in Owed : opening'[u].item = opening[u].item
      BY <1>4 DEF Owed
    <2>2. Retired' <=> Retired
      BY DEF Retired
    <2>3. QED
      BY <1>1, <1>6, <1>9, <2>1, <2>2 DEF Closed
  <1>12. LeavesBacked' /\ WinnerGetsAnnounced'
    BY <1>1, <1>4, <1>5 DEF LeavesBacked, WinnerGetsAnnounced, Deposited
  <1>13. QED
    BY <1>3, <1>7, <1>8, <1>10, <1>11, <1>12 DEF IInv, Placed

LEMMA RequestKeeps ==
  ASSUME IInv, NEW o \in Openings, RequestTemplateOpen(o)
  PROVE  IInv'
  <1>1. TypeOK /\ Quiet /\ Counted
    BY Phases
  <1>2. /\ template.supply > 0 /\ opening[o].status = "none"
        /\ opening' = [opening EXCEPT ![o].status = "pending"]
        /\ template' = [template EXCEPT !.supply = @ - 1, !.pending = @ + 1]
        /\ UNCHANGED <<bundle, pool, item, owner, flag>>
    BY DEF RequestTemplateOpen
  <1>3. template.supply + template.pending <= template.remaining
    BY <1>1 DEF Counted
  <1>4. bundle.status = "active"
    BY <1>1, <1>2, <1>3, TypedTemplate DEF Quiet
  <1>5. template.supply - 1 \in Count /\ template.pending + 1 \in Count
    BY <1>1, <1>2, <1>3, TypedTemplate DEF Count
  <1>6. /\ template' \in TemplateType
        /\ template'.supply = template.supply - 1
        /\ template'.pending = template.pending + 1
        /\ template'.remaining = template.remaining
        /\ template'.status = template.status
    BY <1>1, <1>2, <1>5, TypedTemplate DEF TemplateType
  <1>7. template'.supply + template'.pending <= template'.remaining
    BY <1>1, <1>3, <1>6, TypedTemplate
  <1>8. template'.pending = Cardinality(Pending')
    <2>1. Pending' = Pending \cup {o} /\ o \notin Pending /\ Pending \in SUBSET Openings
      BY <1>1, <1>2 DEF Pending, TypeOK, OpeningType
    <2>2. Cardinality(Pending') = Cardinality(Pending) + 1
      BY <2>1, OpeningsFinite, FS_AddElement
    <2>3. QED
      BY <1>1, <1>6, <2>2 DEF Counted
  <1>9. ~NothingOutstanding
    BY <1>2 DEF NothingOutstanding
  <1>10. QED
    BY <1>2, <1>4, <1>6, <1>7, <1>8, <1>9, OpeningKeeps

LEMMA ForfeitKeeps ==
  ASSUME IInv, NEW o \in Openings, ForfeitTemplateOpen(o)
  PROVE  IInv'
  <1>1. TypeOK /\ Quiet /\ Counted
    BY Phases
  <1>2. /\ opening[o].status = "pending"
        /\ opening' = [opening EXCEPT ![o].status = "forfeited"]
        /\ template' = [template EXCEPT !.pending = @ - 1]
        /\ UNCHANGED <<bundle, pool, item, owner, flag>>
    BY DEF ForfeitTemplateOpen
  <1>3. bundle.status = "active"
    BY <1>1, <1>2 DEF Quiet
  <1>4. /\ o \in Pending /\ Pending' = Pending \ {o} /\ Pending \in SUBSET Openings
    BY <1>1, <1>2 DEF Pending, TypeOK, OpeningType
  <1>5. /\ template.pending = Cardinality(Pending) /\ template.pending # 0
        /\ Cardinality(Pending') = template.pending - 1
    BY <1>1, <1>4, OpeningsFinite, FS_RemoveElement DEF Counted
  <1>6. template.pending - 1 \in Count
    BY <1>1, <1>5, TypedTemplate DEF Count
  <1>7. /\ template' \in TemplateType
        /\ template'.supply = template.supply
        /\ template'.pending = template.pending - 1
        /\ template'.remaining = template.remaining
        /\ template'.status = template.status
    BY <1>1, <1>2, <1>6, TypedTemplate DEF TemplateType
  <1>8. template'.supply + template'.pending <= template'.remaining
    BY <1>1, <1>7, TypedTemplate DEF Counted
  <1>9. ~NothingOutstanding
    BY <1>5 DEF NothingOutstanding
  <1>10. QED
    BY <1>2, <1>3, <1>5, <1>7, <1>8, <1>9, OpeningKeeps

-----------------------------------------------------------------------------
(* Steps before the bundle is active: nothing is drawn or delivered.       *)

LEMMA StagingKeeps ==
  ASSUME IInv, bundle.status # "active", bundle'.status # "active",
         UNCHANGED <<template, opening, flag>>,
         pool' # None => pool'.assigned = 0 /\ pool'.claimed = 0,
         bundle'.status = "none" => pool' = None,
         TypeOK', Filling', Sealed', Closed', LeavesBacked'
  PROVE  IInv'
  <1>1. TypeOK /\ Quiet /\ Counted
    BY Phases
  <1>2. Quiet'
    BY <1>1 DEF Quiet
  <1>3. Pending' = Pending /\ Done' = Done /\ Drawn' = Drawn
    BY DEF Pending, Done, Drawn, Owed
  <1>4. Drawn = {} /\ Cardinality(Drawn) = 0 /\ Cardinality(Done) = 0
    BY <1>1, NoneOpened
  <1>5. Counted'
    BY <1>1, <1>3, <1>4 DEF Counted
  <1>6. WinnerGetsAnnounced'
    BY <1>1 DEF Quiet, WinnerGetsAnnounced
  <1>7. QED
    BY <1>2, <1>5, <1>6 DEF IInv, Placed

\* What a step before the bundle is active finds.
LEMMA StagingState ==
  ASSUME IInv, bundle.status # "active"
  PROVE  /\ TypeOK /\ Filling /\ Sealed /\ Closed /\ LeavesBacked
         /\ Owed = {} /\ Done = {} /\ Drawn = {}
         /\ Cardinality(Owed) = 0 /\ Cardinality(Done) = 0
         /\ pool # None => pool.assigned = 0 /\ pool.claimed = 0
  <1>1. TypeOK /\ Quiet /\ Counted /\ Filling /\ Sealed /\ Closed /\ LeavesBacked
    BY Phases
  <1>2. /\ Owed = {} /\ Done = {} /\ Drawn = {}
        /\ Cardinality(Owed) = 0 /\ Cardinality(Done) = 0 /\ Cardinality(Drawn) = 0
    BY <1>1, NoneOpened
  <1>3. pool # None => pool.assigned = 0 /\ pool.claimed = 0
    BY <1>1, <1>2, TypedPool DEF Counted
  <1>4. QED
    BY <1>1, <1>2, <1>3

\* A bundle that is being funded without its pool is as it was added.
LEMMA Unreserved ==
  ASSUME IInv, bundle.status # "active", ~bundle.reserved \/ bundle.status = "none"
  PROVE  pool = None /\ \A i \in Index : item[i] = None
  BY Phases DEF Closed

LEMMA BundleKeeps ==
  ASSUME IInv, AddBundle \/ CancelBundle
  PROVE  IInv'
  <1>1. /\ bundle.status # "active" /\ (~bundle.reserved \/ bundle.status = "none")
        /\ bundle' = [NoBundle EXCEPT !.status = "funding"] \/ bundle' = NoBundle
        /\ UNCHANGED <<template, pool, item, opening, owner, flag>>
    BY DEF AddBundle, CancelBundle
  <1>2. TypeOK /\ LeavesBacked /\ pool = None /\ \A i \in Index : item[i] = None
    BY <1>1, StagingState, Unreserved
  <1>3. /\ bundle' \in BundleType /\ bundle'.status # "active"
        /\ ~bundle'.reserved /\ bundle'.commitment = None
        /\ bundle'.funded = FALSE /\ bundle'.reclaimed = FALSE /\ bundle'.released = 0
    <2>1. 0 \in Count
      BY PoolAssumption DEF Count
    <2>2. CASE bundle' = NoBundle
      BY <2>1, <2>2 DEF NoBundle, BundleType
    <2>3. CASE bundle' = [NoBundle EXCEPT !.status = "funding"]
      BY <2>1, <2>3 DEF NoBundle, BundleType
    <2>4. QED
      BY <1>1, <2>2, <2>3
  <1>4. TypeOK'
    BY <1>1, <1>2, <1>3 DEF TypeOK
  <1>5. Filling' /\ Sealed'
    BY <1>1, <1>2 DEF Filling, Sealed
  <1>6. Closed'
    BY <1>1, <1>2, <1>3 DEF Closed
  <1>7. LeavesBacked'
    BY <1>1, <1>2 DEF LeavesBacked, Deposited
  <1>8. QED
    BY <1>1, <1>2, <1>3, <1>4, <1>5, <1>6, <1>7, StagingKeeps

LEMMA CreateKeeps ==
  ASSUME IInv, CreatePrizePool
  PROVE  IInv'
  <1>1. /\ bundle.status = "funding" /\ ~bundle.funded /\ ~bundle.reserved /\ pool = None
        /\ pool' = NewPool /\ bundle' = [bundle EXCEPT !.reserved = TRUE]
        /\ UNCHANGED <<template, item, opening, owner, flag>>
    BY DEF CreatePrizePool
  <1>2. TypeOK /\ Closed /\ LeavesBacked
    BY <1>1, StagingState
  <1>3. /\ \A i \in Index : item[i] = None
        /\ bundle.commitment = None /\ ~bundle.reclaimed /\ bundle.released = 0
    BY <1>1, <1>2 DEF Closed
  <1>4. /\ bundle' \in BundleType
        /\ bundle'.status = "funding" /\ bundle'.reserved /\ bundle'.commitment = None
        /\ ~bundle'.funded /\ ~bundle'.reclaimed /\ bundle'.released = 0
    BY <1>1, <1>2, <1>3, TypedBundle DEF BundleType
  <1>5. TypeOK'
    BY <1>1, <1>2, <1>4, NewIsNotNone DEF TypeOK
  <1>6. Filling'
    <2>1. /\ pool'.cursor = 0 /\ ~pool'.prepared /\ pool'.manifest = <<>>
          /\ pool'.unavailable = {} /\ pool'.reclaimed = 0
      BY <1>1 DEF NewPool
    <2>2. \A i \in Index : Stacked(i)'
      BY <1>1, <1>3, <2>1, PoolAssumption DEF Stacked, Index
    <2>3. QED
      BY <1>4, <2>1, <2>2 DEF Filling
  <1>7. Sealed' /\ Closed' /\ LeavesBacked'
    BY <1>1, <1>2, NewIsNotNone DEF NewPool, Sealed, Closed, LeavesBacked, Deposited
  <1>8. pool'.assigned = 0 /\ pool'.claimed = 0 /\ bundle'.status = "funding"
    BY <1>1, <1>4 DEF NewPool
  <1>9. QED
    BY <1>1, <1>5, <1>6, <1>7, <1>8, StagingKeeps

\* A pool that is being filled, and what a step that leaves it so must show.
LEMMA FillingState ==
  ASSUME IInv, pool # None, pool.status = "funding"
  PROVE  /\ bundle.status = "funding" /\ bundle.reserved /\ bundle.commitment = None
         /\ ~bundle.funded /\ ~bundle.reclaimed /\ bundle.released = 0
         /\ pool.assigned = 0 /\ pool.claimed = 0
         /\ pool.unavailable = {} /\ pool.reclaimed = 0
         /\ pool.prepared => pool.cursor \in Index
         /\ pool.manifest \in Manifests /\ Len(pool.manifest) = pool.cursor
         /\ \A i \in Index : Stacked(i)
  <1>1. bundle.status = "funding" /\ TypeOK /\ Filling
    BY Phases
  <1>2. pool.assigned = 0 /\ pool.claimed = 0
    BY <1>1, StagingState
  <1>3. pool.prepared => pool.cursor \in Index
    BY <1>1, TypedPool, PoolAssumption DEF Filling, Index
  <1>4. QED
    BY <1>1, <1>2, <1>3, TypedPool DEF Filling

LEMMA FillingKeeps ==
  ASSUME IInv, pool # None, pool.status = "funding",
         pool' \in PoolType,
         pool'.status = pool.status, pool'.unavailable = pool.unavailable,
         pool'.reclaimed = pool.reclaimed, pool'.assigned = pool.assigned,
         pool'.claimed = pool.claimed,
         item' \in [Index -> ItemType \cup {None}],
         owner' \in [Leaves -> Openings \cup {"creator", "pool", "somebody"}],
         UNCHANGED <<template, bundle, opening, flag>>,
         pool'.prepared => pool'.cursor < Quantity,
         Len(pool'.manifest) = pool'.cursor,
         \A i \in Index : Stacked(i)',
         LeavesBacked'
  PROVE  IInv'
  <1>1. /\ bundle.status = "funding" /\ bundle' = bundle /\ TypeOK
        /\ bundle.reserved /\ bundle.commitment = None
        /\ ~bundle.funded /\ ~bundle.reclaimed /\ bundle.released = 0
        /\ pool.assigned = 0 /\ pool.claimed = 0
        /\ pool.unavailable = {} /\ pool.reclaimed = 0
    BY FillingState, Phases
  <1>2. TypeOK' /\ pool' # None
    BY <1>1, NewIsNotNone DEF TypeOK
  <1>3. Filling'
    BY <1>1 DEF Filling
  <1>4. Sealed' /\ Closed'
    BY <1>2 DEF Sealed, Closed
  <1>5. QED
    BY <1>1, <1>2, <1>3, <1>4, StagingKeeps

LEMMA PrepareKeeps ==
  ASSUME IInv, NEW l \in Leaves, NEW v \in BOOLEAN, PreparePrizePoolItem(l, v)
  PROVE  IInv'
  <1> DEFINE c == pool.cursor
             made == [leaf |-> l, verified |-> v, status |-> "prepared", before |-> <<>>]
  <1>1. /\ pool # None /\ pool.status = "funding" /\ ~pool.prepared /\ c < Quantity
        /\ item[c] = None /\ item' = [item EXCEPT ![c] = made]
        /\ pool' = [pool EXCEPT !.prepared = TRUE]
        /\ UNCHANGED <<template, bundle, opening, owner, flag>>
    BY DEF PreparePrizePoolItem
  <1>2. TypeOK /\ LeavesBacked /\ \A i \in Index : Stacked(i)
    BY <1>1, Phases, FillingState
  <1>3. c \in Index /\ c \in Nat /\ Len(pool.manifest) = c
    BY <1>1, <1>2, TypedPool, FillingState, PoolAssumption DEF Index
  <1>4. made \in ItemType /\ made # None /\ made.status = "prepared"
    <2>1. <<>> \in Manifests
      BY DEF Manifests
    <2>2. QED
      BY <2>1, NewIsNotNone DEF ItemType
  <1> HIDE DEF made
  <1>5. /\ item' \in [Index -> ItemType \cup {None}]
        /\ item'[c] = made /\ \A i \in Index : i # c => item'[i] = item[i]
    BY <1>1, <1>2, <1>3, <1>4 DEF TypeOK
  <1>6. /\ pool' \in PoolType /\ pool'.cursor = c /\ pool'.prepared = TRUE
        /\ pool'.manifest = pool.manifest /\ pool'.status = pool.status
        /\ pool'.unavailable = pool.unavailable /\ pool'.reclaimed = pool.reclaimed
        /\ pool'.assigned = pool.assigned /\ pool'.claimed = pool.claimed
    BY <1>1, <1>2, TypedPool DEF PoolType
  <1>7. \A i \in Index : Stacked(i)'
    <2> SUFFICES ASSUME NEW i \in Index PROVE Stacked(i)'
      OBVIOUS
    <2>1. i \in Nat /\ Stacked(i)
      BY <1>2, TypedItem
    <2>2. CASE i = c
      BY <1>3, <1>4, <1>5, <1>6, <2>2 DEF Stacked
    <2>3. CASE i # c
      BY <1>1, <1>5, <1>6, <2>1, <2>3 DEF Stacked
    <2>4. QED
      BY <2>2, <2>3
  <1>8. LeavesBacked'
    <2>1. Deposited' = Deposited
      BY <1>1, <1>3, <1>4, <1>5 DEF Deposited
    <2>2. \A i \in Deposited : item'[i] = item[i]
      BY <1>1, <1>3, <1>5 DEF Deposited
    <2>3. QED
      BY <1>1, <1>2, <2>1, <2>2 DEF LeavesBacked
  <1>9. owner' \in [Leaves -> Openings \cup {"creator", "pool", "somebody"}]
    BY <1>1, <1>2 DEF TypeOK
  <1>10. QED
    BY <1>1, <1>3, <1>5, <1>6, <1>7, <1>8, <1>9, FillingKeeps

LEMMA CancelKeeps ==
  ASSUME IInv, CancelPrizePoolItem
  PROVE  IInv'
  <1> DEFINE c == pool.cursor
  <1>1. /\ pool # None /\ pool.status = "funding" /\ pool.prepared
        /\ item' = [item EXCEPT ![c] = None]
        /\ pool' = [pool EXCEPT !.prepared = FALSE]
        /\ UNCHANGED <<template, bundle, opening, owner, flag>>
    BY DEF CancelPrizePoolItem
  <1>2. TypeOK /\ LeavesBacked /\ \A i \in Index : Stacked(i)
    BY <1>1, Phases, FillingState
  <1>3. c \in Index /\ c \in Nat /\ Len(pool.manifest) = c
    BY <1>1, <1>2, TypedPool, FillingState
  <1>4. item[c].status = "prepared"
    BY <1>1, <1>2, <1>3 DEF Stacked
  <1>5. /\ item' \in [Index -> ItemType \cup {None}]
        /\ item'[c] = None /\ \A i \in Index : i # c => item'[i] = item[i]
    BY <1>1, <1>2, <1>3 DEF TypeOK
  <1>6. /\ pool' \in PoolType /\ pool'.cursor = c /\ pool'.prepared = FALSE
        /\ pool'.manifest = pool.manifest /\ pool'.status = pool.status
        /\ pool'.unavailable = pool.unavailable /\ pool'.reclaimed = pool.reclaimed
        /\ pool'.assigned = pool.assigned /\ pool'.claimed = pool.claimed
    BY <1>1, <1>2, TypedPool DEF PoolType
  <1>7. \A i \in Index : Stacked(i)'
    <2> SUFFICES ASSUME NEW i \in Index PROVE Stacked(i)'
      OBVIOUS
    <2>1. i \in Nat /\ Stacked(i)
      BY <1>2, TypedItem
    <2>2. CASE i = c
      BY <1>3, <1>5, <1>6, <2>2 DEF Stacked
    <2>3. CASE i # c
      BY <1>1, <1>5, <1>6, <2>1, <2>3 DEF Stacked
    <2>4. QED
      BY <2>2, <2>3
  <1>8. LeavesBacked'
    <2>1. Deposited' = Deposited
      BY <1>3, <1>4, <1>5 DEF Deposited
    <2>2. \A i \in Deposited : item'[i] = item[i]
      BY <1>4, <1>5 DEF Deposited
    <2>3. QED
      BY <1>1, <1>2, <2>1, <2>2 DEF LeavesBacked
  <1>9. owner' \in [Leaves -> Openings \cup {"creator", "pool", "somebody"}]
    BY <1>1, <1>2 DEF TypeOK
  <1>10. QED
    BY <1>1, <1>3, <1>5, <1>6, <1>7, <1>8, <1>9, FillingKeeps

\* A leaf goes back and forth between the creator and the item that names it.
LEMMA LeafTaken ==
  ASSUME TypeOK, LeavesBacked, NEW c \in Index, NEW l \in Leaves,
         c \notin Deposited, owner[l] # "pool",
         Deposited' = Deposited \cup {c}, item'[c].leaf = l,
         \A i \in Deposited : item'[i].leaf = item[i].leaf,
         owner' = [owner EXCEPT ![l] = "pool"]
  PROVE  LeavesBacked'
  <1>1. /\ owner'[l] = "pool" /\ \A m \in Leaves : m # l => owner'[m] = owner[m]
        /\ \A i \in Deposited : i \in Index /\ item[i].leaf \in Leaves /\ item[i].leaf # l
    <2>1. \A i \in Deposited : i \in Index /\ item[i].leaf \in Leaves
      BY TypedItem DEF Deposited
    <2>2. \A i \in Deposited : item[i].leaf # l
      BY DEF LeavesBacked
    <2>3. QED
      BY <2>1, <2>2 DEF TypeOK
  <1>2. {item'[i].leaf : i \in Deposited'} = {m \in Leaves : owner'[m] = "pool"}
    <2>1. {item'[i].leaf : i \in Deposited'} = {item[i].leaf : i \in Deposited} \cup {l}
      OBVIOUS
    <2>2. {m \in Leaves : owner'[m] = "pool"} = {m \in Leaves : owner[m] = "pool"} \cup {l}
      BY <1>1
    <2>3. QED
      BY <2>1, <2>2 DEF LeavesBacked
  <1>3. \A i, j \in Deposited' : item'[i].leaf = item'[j].leaf => i = j
    BY <1>1 DEF LeavesBacked
  <1>4. QED
    BY <1>2, <1>3 DEF LeavesBacked

LEMMA LeafGiven ==
  ASSUME TypeOK, LeavesBacked, NEW c \in Deposited, NEW to, to # "pool",
         item' = [item EXCEPT ![c] = None],
         owner' = [owner EXCEPT ![item[c].leaf] = to]
  PROVE  /\ Deposited' = Deposited \ {c}
         /\ LeavesBacked'
  <1>1. /\ \A i \in Deposited : i \in Index /\ item[i].leaf \in Leaves
        /\ \A i \in Deposited : item[i].leaf = item[c].leaf => i = c
        /\ item'[c] = None /\ \A i \in Index : i # c => item'[i] = item[i]
        /\ owner'[item[c].leaf] = to
        /\ \A m \in Leaves : m # item[c].leaf => owner'[m] = owner[m]
    <2>1. \A i \in Deposited : i \in Index /\ item[i].leaf \in Leaves
      BY TypedItem DEF Deposited
    <2>2. QED
      BY <2>1 DEF TypeOK, LeavesBacked
  <1>2. Deposited' = Deposited \ {c}
    BY <1>1 DEF Deposited
  <1>3. \A i \in Deposited' : item'[i] = item[i]
    BY <1>1, <1>2
  <1>4. {item'[i].leaf : i \in Deposited'} = {m \in Leaves : owner'[m] = "pool"}
    <2>1. {item'[i].leaf : i \in Deposited'} = {item[i].leaf : i \in Deposited} \ {item[c].leaf}
      BY <1>1, <1>2, <1>3
    <2>2. {m \in Leaves : owner'[m] = "pool"}
            = {m \in Leaves : owner[m] = "pool"} \ {item[c].leaf}
      BY <1>1
    <2>3. QED
      BY <2>1, <2>2 DEF LeavesBacked
  <1>5. QED
    BY <1>2, <1>3, <1>4 DEF LeavesBacked

LEMMA DepositKeeps ==
  ASSUME IInv, NEW l \in Leaves, DepositPrizePoolItem(l, flag[l])
  PROVE  IInv'
  <1> DEFINE c == pool.cursor
  <1>1. /\ pool # None /\ pool.status = "funding" /\ pool.prepared
        /\ item[c].leaf = l /\ item[c].verified = flag[l] /\ owner[l] = "creator"
        /\ owner' = [owner EXCEPT ![l] = "pool"]
        /\ item' = [item EXCEPT ![c].status = "deposited", ![c].before = pool.manifest]
        /\ pool' = [pool EXCEPT !.cursor = @ + 1, !.prepared = FALSE,
                                !.manifest = Append(@, <<l, flag[l]>>)]
        /\ UNCHANGED <<template, bundle, opening, flag>>
    BY DEF DepositPrizePoolItem
  <1>2. TypeOK /\ LeavesBacked /\ (\A i \in Index : Stacked(i)) /\ Filling
    BY <1>1, Phases, FillingState
  <1>3. /\ c \in Index /\ c \in Nat /\ c < Quantity /\ c + 1 \in Count
        /\ pool.manifest \in Manifests /\ Len(pool.manifest) = c
    BY <1>1, <1>2, TypedPool, FillingState, TypedItem DEF Count
  <1>4. item[c] # None /\ item[c].status = "prepared" /\ item[c] \in ItemType
    BY <1>1, <1>2, <1>3, TypedItem DEF Stacked
  <1>5. /\ item' \in [Index -> ItemType \cup {None}]
        /\ item'[c] \in ItemType /\ item'[c] # None
        /\ item'[c].status = "deposited" /\ item'[c].leaf = l
        /\ item'[c].verified = flag[l] /\ item'[c].before = pool.manifest
        /\ \A i \in Index : i # c => item'[i] = item[i]
    <2> DEFINE made == [item[c] EXCEPT !.status = "deposited", !.before = pool.manifest]
    <2>1. /\ made \in ItemType /\ made.status = "deposited" /\ made.leaf = l
          /\ made.verified = flag[l] /\ made.before = pool.manifest
      BY <1>1, <1>3, <1>4 DEF ItemType
    <2>2. item' = [item EXCEPT ![c] = made]
      BY <1>1, <1>2, <1>3 DEF TypeOK
    <2>3. made # None
      BY <2>1, NewIsNotNone
    <2> HIDE DEF made
    <2>4. QED
      BY <1>2, <1>3, <2>1, <2>2, <2>3 DEF TypeOK
  <1> DEFINE entry == <<l, flag[l]>>
  <1>6. /\ entry \in Leaves \X BOOLEAN
        /\ Append(pool.manifest, entry) \in Manifests
        /\ Len(Append(pool.manifest, entry)) = c + 1
        /\ Append(pool.manifest, entry)[c + 1] = entry
        /\ \A k \in 1 .. c : Append(pool.manifest, entry)[k] = pool.manifest[k]
    <2>1. entry \in Leaves \X BOOLEAN
      BY <1>2 DEF TypeOK
    <2> HIDE DEF entry
    <2>2. QED
      BY <1>3, <2>1, AppendProperties DEF Manifests
  <1>7. /\ pool' \in PoolType /\ pool'.cursor = c + 1 /\ pool'.prepared = FALSE
        /\ pool'.manifest = Append(pool.manifest, entry) /\ pool'.status = pool.status
        /\ pool'.unavailable = pool.unavailable /\ pool'.reclaimed = pool.reclaimed
        /\ pool'.assigned = pool.assigned /\ pool'.claimed = pool.claimed
    BY <1>1, <1>2, <1>3, <1>6, TypedPool DEF PoolType
  <1>8. \A i \in Index : Stacked(i)'
    <2> SUFFICES ASSUME NEW i \in Index PROVE Stacked(i)'
      OBVIOUS
    <2>1. i \in Nat /\ Stacked(i)
      BY <1>2, TypedItem
    <2>2. CASE i = c
      <3>1. pool'.manifest[i + 1] = <<item'[i].leaf, item'[i].verified>>
        BY <1>5, <1>6, <1>7, <2>2
      <3>2. i < pool'.cursor
        BY <1>3, <1>7, <2>2
      <3> HIDE DEF entry
      <3>3. Len(item'[i].before) = i /\ \A k \in 1 .. i : item'[i].before[k] = pool'.manifest[k]
        BY <1>3, <1>5, <1>6, <1>7, <2>2
      <3>4. QED
        BY <1>5, <2>2, <3>1, <3>2, <3>3 DEF Stacked
    <2>3. CASE i < c
      <3> HIDE DEF entry
      <3>1. i + 1 \in 1 .. c /\ (1 .. i) \subseteq 1 .. c /\ i < pool'.cursor
        BY <1>3, <1>7, <2>1, <2>3
      <3>2. pool'.manifest[i + 1] = pool.manifest[i + 1]
        BY <1>6, <1>7, <3>1
      <3>3. \A k \in 1 .. i : pool'.manifest[k] = pool.manifest[k]
        BY <1>6, <1>7, <3>1
      <3>4. item'[i] = item[i]
        BY <1>3, <1>5, <2>1, <2>3
      <3>5. QED
        BY <2>1, <2>3, <3>1, <3>2, <3>3, <3>4 DEF Stacked
    <2>4. CASE i > c
      BY <1>3, <1>5, <1>7, <2>1, <2>4 DEF Stacked
    <2>5. QED
      BY <1>3, <2>1, <2>2, <2>3, <2>4
  <1>9. LeavesBacked'
    <2>1. c \notin Deposited /\ Deposited' = Deposited \cup {c}
      BY <1>3, <1>4, <1>5 DEF Deposited
    <2>2. \A i \in Deposited : item'[i].leaf = item[i].leaf
      BY <1>5, <2>1 DEF Deposited
    <2>3. QED
      BY <1>1, <1>2, <1>3, <1>5, <2>1, <2>2, LeafTaken
  <1>10. owner' \in [Leaves -> Openings \cup {"creator", "pool", "somebody"}]
    BY <1>1, <1>2 DEF TypeOK
  <1>11. Len(pool'.manifest) = pool'.cursor
    BY <1>6, <1>7
  <1>12. QED
    BY <1>1, <1>5, <1>7, <1>8, <1>9, <1>10, <1>11, FillingKeeps

\* The tail is given back, and the manifest is again what it was before it.
LEMMA UnwindKeeps ==
  ASSUME IInv, NEW i \in Index, ReclaimUnfinished(i)
  PROVE  IInv'
  <1>1. /\ pool # None /\ pool.status = "funding" /\ ~pool.prepared /\ i + 1 = pool.cursor
        /\ pool' = [pool EXCEPT !.cursor = @ - 1, !.manifest = item[i].before]
        /\ owner' = [owner EXCEPT ![item[i].leaf] = "creator"]
        /\ item' = [item EXCEPT ![i] = None]
        /\ UNCHANGED <<template, bundle, opening, flag>>
    BY DEF ReclaimUnfinished, IsTail, GiveBack
  <1>2. TypeOK /\ LeavesBacked /\ \A j \in Index : Stacked(j)
    BY <1>1, Phases, FillingState
  <1>3. i \in Nat /\ i < Quantity /\ pool.cursor \in Nat /\ i < pool.cursor /\ i \in Count
    BY <1>1, <1>2, TypedPool, TypedItem, PoolAssumption DEF Count
  <1>4. /\ item[i] # None /\ item[i].status = "deposited" /\ item[i] \in ItemType
        /\ item[i].before \in Manifests /\ Len(item[i].before) = i
        /\ \A k \in 1 .. i : item[i].before[k] = pool.manifest[k]
    BY <1>2, <1>3, TypedItem DEF Stacked
  <1>5. /\ item' \in [Index -> ItemType \cup {None}]
        /\ item'[i] = None /\ \A j \in Index : j # i => item'[j] = item[j]
    BY <1>1, <1>2 DEF TypeOK
  <1>6. /\ pool' \in PoolType /\ pool'.cursor = i /\ pool'.prepared = FALSE
        /\ pool'.manifest = item[i].before /\ pool'.status = pool.status
        /\ pool'.unavailable = pool.unavailable /\ pool'.reclaimed = pool.reclaimed
        /\ pool'.assigned = pool.assigned /\ pool'.claimed = pool.claimed
    <2>1. pool.cursor - 1 = i
      BY <1>1, <1>3
    <2>2. QED
      BY <1>1, <1>2, <1>3, <1>4, <2>1, TypedPool DEF PoolType
  <1>7. \A j \in Index : Stacked(j)'
    <2> SUFFICES ASSUME NEW j \in Index PROVE Stacked(j)'
      OBVIOUS
    <2>1. j \in Nat /\ Stacked(j)
      BY <1>2, TypedItem
    <2>2. CASE j = i
      BY <1>3, <1>5, <1>6, <2>2 DEF Stacked
    <2>3. CASE j > i
      BY <1>1, <1>3, <1>5, <1>6, <2>1, <2>3 DEF Stacked
    <2>4. CASE j < i
      <3>1. j + 1 \in 1 .. i /\ (1 .. j) \subseteq 1 .. i /\ j < pool.cursor
        BY <1>3, <2>1, <2>4
      <3>2. \A k \in 1 .. i : pool'.manifest[k] = pool.manifest[k]
        BY <1>4, <1>6
      <3>3. item'[j] = item[j]
        BY <1>3, <1>5, <2>1, <2>4
      <3>4. pool'.manifest[j + 1] = pool.manifest[j + 1]
            /\ \A k \in 1 .. j : pool'.manifest[k] = pool.manifest[k]
        BY <3>1, <3>2
      <3>5. QED
        BY <1>6, <2>1, <2>4, <3>1, <3>3, <3>4 DEF Stacked
    <2>5. QED
      BY <1>3, <2>1, <2>2, <2>3, <2>4
  <1>8. LeavesBacked'
    <2>1. i \in Deposited
      BY <1>4 DEF Deposited
    <2>2. QED
      BY <1>1, <1>2, <2>1, LeafGiven
  <1>9. owner' \in [Leaves -> Openings \cup {"creator", "pool", "somebody"}]
    BY <1>1, <1>2 DEF TypeOK
  <1>10. Len(pool'.manifest) = pool'.cursor
    BY <1>4, <1>6
  <1>11. QED
    BY <1>1, <1>5, <1>6, <1>7, <1>8, <1>9, <1>10, FillingKeeps

LEMMA SealKeeps ==
  ASSUME IInv, SealPrizePool
  PROVE  IInv'
  <1>1. /\ pool # None /\ pool.status = "funding" /\ pool.cursor = Quantity
        /\ bundle' = [bundle EXCEPT !.funded = TRUE, !.commitment = pool.manifest]
        /\ pool' = [pool EXCEPT !.status = "sealed"]
        /\ UNCHANGED <<template, item, opening, owner, flag>>
    BY DEF SealPrizePool
  <1>2. /\ TypeOK /\ LeavesBacked /\ (\A i \in Index : Stacked(i))
        /\ bundle.status = "funding" /\ bundle.reserved
        /\ ~bundle.reclaimed /\ bundle.released = 0
        /\ pool.assigned = 0 /\ pool.claimed = 0
        /\ pool.unavailable = {} /\ pool.reclaimed = 0
        /\ pool.manifest \in Manifests /\ Len(pool.manifest) = pool.cursor
    BY <1>1, Phases, FillingState
  <1>3. /\ bundle' \in BundleType /\ bundle'.funded = TRUE
        /\ bundle'.commitment = pool.manifest
        /\ bundle'.status = "funding" /\ bundle'.reserved
        /\ bundle'.reclaimed = FALSE /\ bundle'.released = 0
    BY <1>1, <1>2, TypedBundle DEF BundleType
  <1>4. /\ pool' \in PoolType /\ pool'.cursor = pool.cursor /\ pool'.manifest = pool.manifest
        /\ pool'.status = "sealed" /\ pool'.unavailable = {} /\ pool'.reclaimed = 0
        /\ pool'.assigned = 0 /\ pool'.claimed = 0
    BY <1>1, <1>2, TypedPool DEF PoolType
  <1>5. TypeOK' /\ pool' # None
    BY <1>1, <1>2, <1>3, <1>4, NewIsNotNone DEF TypeOK
  <1>6. Sealed'
    <2>1. Done = {} /\ Drawn = {} /\ Owed = {} /\ Cardinality(Done) = 0
      BY <1>2, StagingState
    <2>2. Done' = {} /\ Drawn' = {} /\ Owed' = {} /\ Cardinality(Done') = 0
      BY <1>1, <2>1 DEF Done, Drawn, Owed
    <2>3. Cardinality(pool'.unavailable) = 0
      BY <1>4, FS_EmptySet
    <2>4. ASSUME NEW i \in Index
          PROVE  Kept(i)' /\ item'[i] # None
      <3>1. i \in Nat /\ i < pool.cursor /\ Stacked(i)
        BY <1>1, <1>2, TypedItem
      <3>2. /\ item[i] # None /\ item[i].status = "deposited"
            /\ pool.manifest[i + 1] = <<item[i].leaf, item[i].verified>>
        BY <3>1 DEF Stacked
      <3>3. bundle'.commitment[i + 1][1] = item'[i].leaf
        BY <1>1, <1>3, <3>2
      <3>4. i \notin pool'.unavailable
        BY <1>4
      <3>5. QED
        BY <1>1, <1>5, <3>2, <3>3, <3>4 DEF Kept
    <2>5. 0 # Quantity
      BY PoolAssumption
    <2>6. QED
      BY <1>1, <1>2, <1>3, <1>4, <2>2, <2>3, <2>4, <2>5 DEF Sealed
  <1>7. Filling' /\ Closed'
    BY <1>4, <1>5 DEF Filling, Closed
  <1>8. LeavesBacked'
    BY <1>1, <1>2 DEF LeavesBacked, Deposited
  <1>9. QED
    BY <1>1, <1>2, <1>3, <1>4, <1>5, <1>6, <1>7, <1>8, StagingKeeps

LEMMA ActivateKeeps ==
  ASSUME IInv, ActivateBundle
  PROVE  IInv'
  <1>1. /\ bundle.status = "funding" /\ bundle.funded /\ ~bundle.reclaimed
        /\ bundle.released = 0
        /\ bundle' = [bundle EXCEPT !.status = "active"]
        /\ template' = [template EXCEPT !.remaining = Quantity]
        /\ UNCHANGED <<pool, item, opening, owner, flag>>
    BY DEF ActivateBundle
  <1>2. /\ TypeOK /\ Filling /\ Sealed /\ Closed /\ Quiet /\ Counted
        /\ LeavesBacked /\ WinnerGetsAnnounced
    BY Phases
  <1>3. pool # None /\ pool.status = "sealed"
    BY <1>1, <1>2, TypedPool DEF Closed, Filling
  <1>4. /\ bundle' \in BundleType /\ bundle'.status = "active"
        /\ bundle'.funded = bundle.funded /\ bundle'.reserved = bundle.reserved
        /\ bundle'.commitment = bundle.commitment /\ bundle'.released = bundle.released
    BY <1>1, <1>2, TypedBundle DEF BundleType
  <1>5. Quantity \in Count /\ Quantity \in Nat
    BY PoolAssumption DEF Count
  <1>6. /\ template' \in TemplateType /\ template'.remaining = Quantity
        /\ template'.supply = template.supply /\ template'.pending = template.pending
    BY <1>1, <1>2, <1>5, TypedTemplate DEF TemplateType
  <1>7. TypeOK'
    BY <1>1, <1>2, <1>4, <1>6 DEF TypeOK
  <1>8. template.supply + template.pending = 0
    BY <1>1, <1>2, TypedTemplate DEF Quiet, Counted
  <1>9. /\ Pending' = Pending /\ Owed' = Owed /\ Done' = Done /\ Drawn' = Drawn
        /\ Drawn = {} /\ Cardinality(Done) = 0 /\ pool.assigned = 0
    BY <1>1, <1>2, <1>3, StagingState DEF Pending, Owed, Done, Drawn
  <1>10. Counted'
    BY <1>1, <1>2, <1>5, <1>6, <1>8, <1>9 DEF Counted
  <1>11. Sealed'
    <2>1. ~(pool.reclaimed > 0)
      BY <1>1, <1>2, <1>3, <1>9, TypedPool DEF Sealed
    <2>2. \A i \in Index : Kept(i) => Kept(i)'
      BY <1>1, <1>4, <1>9 DEF Kept
    <2>3. QED
      BY <1>1, <1>2, <1>3, <1>4, <1>5, <1>6, <1>9, <2>1, <2>2 DEF Sealed
  <1>12. Filling' /\ Closed' /\ Quiet'
    BY <1>1, <1>3, <1>4 DEF Filling, Closed, Quiet
  <1>13. LeavesBacked' /\ WinnerGetsAnnounced'
    BY <1>1, <1>2, <1>4 DEF LeavesBacked, WinnerGetsAnnounced, Deposited
  <1>14. QED
    BY <1>4, <1>7, <1>10, <1>11, <1>12, <1>13 DEF IInv, Placed

-----------------------------------------------------------------------------
(* The draw, and the delivery of what was drawn.                           *)

LEMMA AllocateKeeps ==
  ASSUME IInv, NEW o \in Openings, NEW i \in Index, AllocatePrizePoolOpen(o, i)
  PROVE  IInv'
  <1>1. /\ opening[o].status = "pending" /\ bundle.status = "active"
        /\ pool # None /\ pool.status = "sealed"
        /\ Quantity - (pool.assigned + pool.reclaimed) > 0 /\ i \notin pool.unavailable
        /\ pool' = [pool EXCEPT !.unavailable = @ \union {i}, !.assigned = @ + 1]
        /\ opening' = [opening EXCEPT ![o] = [status |-> "allocated", item |-> i]]
        /\ template' = [template EXCEPT !.pending = @ - 1, !.remaining = @ - 1]
        /\ UNCHANGED <<bundle, item, owner, flag>>
    BY DEF AllocatePrizePoolOpen, Available
  <1>2. /\ TypeOK /\ Filling /\ Sealed /\ Closed /\ Quiet /\ Counted
        /\ LeavesBacked /\ WinnerGetsAnnounced
    BY Phases
  <1>3. /\ o \in Pending /\ o \notin Drawn /\ o \notin Owed /\ o \notin Done
        /\ Pending \in SUBSET Openings /\ Drawn \in SUBSET Openings
    BY <1>1 DEF Pending, Drawn, Owed, Done
  <1>4. /\ opening'[o].status = "allocated" /\ opening'[o].item = i
        /\ opening'[o] \in OpeningType
        /\ \A u \in Openings : u # o => opening'[u] = opening[u]
        /\ opening' \in [Openings -> OpeningType]
    BY <1>1, <1>2 DEF TypeOK, OpeningType
  <1>5. /\ Pending' = Pending \ {o} /\ Owed' = Owed \cup {o} /\ Done' = Done
        /\ Drawn' = Drawn \cup {o}
    BY <1>1, <1>4 DEF Pending, Owed, Done, Drawn
  <1>6. /\ Cardinality(Pending) \in Nat /\ Cardinality(Pending) # 0
        /\ Cardinality(Pending') = Cardinality(Pending) - 1
        /\ Cardinality(Drawn') = Cardinality(Drawn) + 1
    BY <1>3, <1>5, OpeningsFinite, FS_RemoveElement, FS_AddElement
  <1>7. /\ template.pending = Cardinality(Pending) /\ template.pending > 0
        /\ template.remaining = Quantity - pool.assigned
        /\ pool.reclaimed = 0 /\ pool.assigned < Quantity
    <2>1. template.pending = Cardinality(Pending)
      BY <1>2 DEF Counted
    <2>2. ~NothingOutstanding
      BY <1>6, <2>1 DEF NothingOutstanding
    <2>3. template.remaining = Quantity - pool.assigned /\ ~(pool.reclaimed > 0)
      BY <1>1, <1>2, <2>2 DEF Sealed
    <2>4. QED
      BY <1>1, <1>2, <1>6, <2>1, <2>3, TypedPool, PoolAssumption
  <1>8. /\ pool.assigned + 1 \in Count /\ template.pending - 1 \in Count
        /\ template.remaining - 1 \in Count
    BY <1>1, <1>2, <1>7, TypedPool, TypedTemplate DEF Count
  <1>9. /\ pool' \in PoolType /\ pool'.unavailable = pool.unavailable \cup {i}
        /\ pool'.assigned = pool.assigned + 1 /\ pool'.reclaimed = pool.reclaimed
        /\ pool'.claimed = pool.claimed /\ pool'.cursor = pool.cursor
        /\ pool'.manifest = pool.manifest /\ pool'.status = "sealed"
    BY <1>1, <1>2, <1>8, TypedPool DEF PoolType
  <1>10. /\ template' \in TemplateType /\ template'.pending = template.pending - 1
         /\ template'.remaining = template.remaining - 1
         /\ template'.supply = template.supply /\ template'.status = template.status
    BY <1>1, <1>2, <1>8, TypedTemplate DEF TemplateType
  <1>11. pool' # None
    BY <1>9, NewIsNotNone
  <1>12. TypeOK'
    BY <1>1, <1>2, <1>4, <1>9, <1>10 DEF TypeOK
  <1>13. /\ \A u \in Drawn : u \in Openings /\ u # o /\ opening'[u] = opening[u]
         /\ \A u \in Drawn : opening[u].item # i
    <2>1. \A u \in Drawn : opening[u].item \in pool.unavailable
      BY <1>1, <1>2 DEF Sealed
    <2>2. QED
      BY <1>1, <1>3, <1>4, <2>1
  <1>14. Counted'
    <2>1. template'.supply + template'.pending <= template'.remaining
      BY <1>2, <1>10, TypedTemplate DEF Counted
    <2>2. template'.pending = Cardinality(Pending')
      BY <1>6, <1>7, <1>10
    <2>3. pool'.assigned = Cardinality(Drawn') /\ pool'.claimed <= Cardinality(Done')
      BY <1>1, <1>2, <1>5, <1>6, <1>9 DEF Counted
    <2>4. ASSUME NEW u \in Drawn', NEW v \in Drawn', u # v
          PROVE  opening'[u].item # opening'[v].item
      <3>1. CASE u = o
        BY <1>4, <1>5, <1>13, <2>4, <3>1
      <3>2. CASE v = o
        BY <1>4, <1>5, <1>13, <2>4, <3>2
      <3>3. CASE u # o /\ v # o
        BY <1>2, <1>5, <1>13, <2>4, <3>3 DEF Counted
      <3>4. QED
        BY <3>1, <3>2, <3>3
    <2>5. QED
      BY <2>1, <2>2, <2>3, <2>4 DEF Counted
  <1>15. Sealed'
    <2>1. Cardinality(pool'.unavailable) = pool'.assigned + pool'.reclaimed
      <3>1. Cardinality(pool.unavailable \cup {i}) = Cardinality(pool.unavailable) + 1
        BY <1>1, <1>2, TypedPool, IndexFinite, FS_AddElement
      <3>2. QED
        BY <1>1, <1>2, <1>9, <3>1, TypedPool DEF Sealed
    <2>2. ASSUME NEW j \in Index
          PROVE  Kept(j)' /\ (j \notin pool'.unavailable => item'[j] # None)
      <3>1. Kept(j) /\ (j \notin pool.unavailable => item[j] # None)
        BY <1>1, <1>2 DEF Sealed
      <3>2. CASE j = i
        BY <1>1, <1>4, <1>5, <1>9, <3>1, <3>2 DEF Kept
      <3>3. CASE j # i
        <4>1. \A u \in Owed : u \in Owed' /\ opening'[u] = opening[u]
          BY <1>5, <1>13 DEF Drawn
        <4>2. QED
          BY <1>1, <1>9, <1>11, <3>1, <3>3, <4>1 DEF Kept
      <3>4. QED
        BY <3>2, <3>3
    <2>3. \A u \in Drawn' : opening'[u].item \in pool'.unavailable
      BY <1>1, <1>2, <1>4, <1>5, <1>9, <1>13 DEF Sealed
    <2>4. \A u \in Owed' : item'[opening'[u].item] # None
      <3>1. item[i] # None /\ \A u \in Owed : item[opening[u].item] # None
        BY <1>1, <1>2 DEF Sealed
      <3>2. \A u \in Owed : opening'[u] = opening[u]
        BY <1>13 DEF Drawn
      <3>3. QED
        BY <1>1, <1>4, <1>5, <3>1, <3>2
    <2>5. template'.remaining = Quantity - pool'.assigned
      BY <1>1, <1>2, <1>7, <1>9, <1>10, TypedPool, PoolAssumption
    <2>6. bundle.reserved /\ bundle.funded /\ bundle.commitment = pool.manifest
          /\ pool.cursor = Quantity /\ Len(pool.manifest) = Quantity
          /\ bundle.released = Cardinality(Done) + pool.reclaimed
      BY <1>1, <1>2 DEF Sealed
    <2>7. QED
      BY <1>1, <1>5, <1>7, <1>9, <2>1, <2>2, <2>3, <2>4, <2>5, <2>6 DEF Sealed
  <1>16. Filling' /\ Closed' /\ Quiet'
    BY <1>1, <1>9, <1>11 DEF Filling, Closed, Quiet
  <1>17. LeavesBacked' /\ WinnerGetsAnnounced'
    BY <1>1, <1>2, <1>4 DEF LeavesBacked, WinnerGetsAnnounced, Deposited
  <1>18. QED
    BY <1>1, <1>12, <1>14, <1>15, <1>16, <1>17 DEF IInv, Placed

\* What is owed is there: its item names the leaf that was announced.
LEMMA OwedItem ==
  ASSUME IInv, NEW o \in Owed
  PROVE  /\ o \in Openings /\ o \in Drawn /\ opening[o].item \in Index
         /\ bundle.status = "active" /\ bundle.reserved
         /\ opening[o].item \in Deposited
         /\ item[opening[o].item].leaf \in Leaves
         /\ item[opening[o].item].leaf = bundle.commitment[opening[o].item + 1][1]
         /\ owner[item[opening[o].item].leaf] = "pool"
  <1> DEFINE i == opening[o].item
  <1>1. /\ TypeOK /\ Filling /\ Sealed /\ Closed /\ Quiet /\ LeavesBacked
        /\ o \in Openings /\ o \in Drawn /\ opening[o].status = "allocated"
    BY Phases DEF Owed, Drawn
  <1>2. bundle.status = "active" /\ i \in Index
    BY <1>1, TypedOpening DEF Quiet
  <1>3. /\ bundle.reserved /\ item[i] # None /\ Kept(i)
    <2>1. CASE pool = None
      BY <1>1, <1>2, <2>1 DEF Closed
    <2>2. CASE pool # None
      BY <1>1, <1>2, <2>2, Phases DEF Sealed
    <2>3. QED
      BY <2>1, <2>2
  <1>4. item[i].status = "deposited" /\ item[i].leaf = bundle.commitment[i + 1][1]
    BY <1>3 DEF Kept
  <1>5. i \in Deposited
    BY <1>2, <1>3, <1>4 DEF Deposited
  <1>6. item[i].leaf \in Leaves
    BY <1>1, <1>2, <1>3, TypedItem
  <1>7. owner[item[i].leaf] = "pool"
    BY <1>1, <1>5 DEF LeavesBacked
  <1>8. QED
    BY <1>1, <1>2, <1>3, <1>4, <1>5, <1>6, <1>7

LEMMA DeliverKeeps ==
  ASSUME IInv, NEW o \in Openings,
         ClaimPrizePoolItem(o) \/ ClaimStrandedPrizePoolItem(o)
  PROVE  IInv'
  <1> DEFINE i == opening[o].item
             l == item[i].leaf
  <1>1. /\ opening[o].status = "allocated" /\ bundle.released < Quantity
        /\ owner' = [owner EXCEPT ![l] = o]
        /\ item' = [item EXCEPT ![i] = None]
        /\ opening' = [opening EXCEPT ![o].status = "delivered"]
        /\ bundle' = [bundle EXCEPT !.released = @ + 1]
        /\ UNCHANGED <<template, flag>>
    BY DEF ClaimPrizePoolItem, ClaimStrandedPrizePoolItem, CanClaimItem,
           CanClaimStranded, RecordClaim, Deliver
  <1>2. /\ TypeOK /\ Filling /\ Sealed /\ Closed /\ Quiet /\ Counted
        /\ LeavesBacked /\ WinnerGetsAnnounced
    BY Phases
  <1>3. /\ o \in Owed /\ o \in Drawn /\ o \notin Done
        /\ Owed \in SUBSET Openings /\ Done \in SUBSET Openings
    BY <1>1 DEF Owed, Done, Drawn
  <1>4. /\ i \in Index /\ i \in Deposited /\ bundle.status = "active" /\ bundle.reserved
        /\ l \in Leaves /\ owner[l] = "pool" /\ l = bundle.commitment[i + 1][1]
    BY <1>3, OwedItem
  <1>5. /\ bundle' \in BundleType /\ bundle'.released = bundle.released + 1
        /\ bundle'.status = "active" /\ bundle'.reserved = bundle.reserved
        /\ bundle'.commitment = bundle.commitment /\ bundle'.funded = bundle.funded
    <2>1. bundle.released + 1 \in Count
      BY <1>1, <1>2, TypedBundle, PoolAssumption DEF Count
    <2>2. QED
      BY <1>1, <1>2, <1>4, <2>1, TypedBundle DEF BundleType
  <1>6. /\ opening' \in [Openings -> OpeningType]
        /\ opening'[o].status = "delivered"
        /\ \A u \in Openings : opening'[u].item = opening[u].item
        /\ \A u \in Openings : u # o => opening'[u].status = opening[u].status
    BY <1>1, <1>2 DEF TypeOK, OpeningType
  <1>7. /\ item' \in [Index -> ItemType \cup {None}]
        /\ item'[i] = None /\ \A j \in Index : j # i => item'[j] = item[j]
    BY <1>1, <1>2, <1>4 DEF TypeOK
  <1>8. /\ owner' \in [Leaves -> Openings \cup {"creator", "pool", "somebody"}]
        /\ owner'[l] = o /\ \A m \in Leaves : m # l => owner'[m] = owner[m]
    BY <1>1, <1>2, <1>4 DEF TypeOK
  <1>9. /\ \/ pool' = pool
           \/ /\ pool # None /\ pool.claimed < pool.assigned
              /\ pool' = [pool EXCEPT !.claimed = @ + 1]
    BY DEF ClaimPrizePoolItem, ClaimStrandedPrizePoolItem, CanClaimItem
  <1>10. pool # None =>
           /\ pool' \in PoolType
           /\ pool'.claimed = pool.claimed \/ pool'.claimed = pool.claimed + 1
           /\ pool'.unavailable = pool.unavailable /\ pool'.assigned = pool.assigned
           /\ pool'.reclaimed = pool.reclaimed /\ pool'.cursor = pool.cursor
           /\ pool'.manifest = pool.manifest /\ pool'.status = pool.status
    <2> HAVE pool # None
    <2>1. CASE pool' = pool
      BY <1>2, <2>1, TypedPool
    <2>2. CASE pool.claimed < pool.assigned /\ pool' = [pool EXCEPT !.claimed = @ + 1]
      <3>1. pool.claimed + 1 \in Count
        BY <1>2, <2>2, TypedPool, PoolAssumption DEF Count
      <3>2. QED
        BY <1>2, <2>2, <3>1, TypedPool DEF PoolType
    <2>3. QED
      BY <1>9, <2>1, <2>2
  <1>11. pool = None <=> pool' = None
    BY <1>9, <1>10, NewIsNotNone
  <1>12. TypeOK'
    BY <1>1, <1>2, <1>5, <1>6, <1>7, <1>8, <1>11, <1>10 DEF TypeOK
  <1>13. /\ Pending' = Pending /\ Owed' = Owed \ {o} /\ Done' = Done \cup {o}
         /\ Drawn' = Drawn
    BY <1>1, <1>3, <1>6 DEF Pending, Owed, Done, Drawn
  <1>14. /\ Cardinality(Owed') = Cardinality(Owed) - 1
         /\ Cardinality(Done') = Cardinality(Done) + 1
         /\ Cardinality(Owed) \in Nat /\ Cardinality(Done) \in Nat
    BY <1>3, <1>13, OpeningsFinite, FS_RemoveElement, FS_AddElement
  <1>15. Counted'
    <2>1. pool' # None => pool'.assigned = Cardinality(Drawn') /\ pool'.claimed <= Cardinality(Done')
      BY <1>2, <1>11, <1>10, <1>13, <1>14, TypedPool DEF Counted
    <2>2. \A u, v \in Drawn' : u # v => opening'[u].item # opening'[v].item
      BY <1>2, <1>6, <1>13 DEF Counted, Drawn, Owed, Done
    <2>3. QED
      BY <1>1, <1>2, <1>13, <2>1, <2>2 DEF Counted
  <1>16. ASSUME NEW u \in Owed, u # o
         PROVE  u \in Owed' /\ opening'[u].item = opening[u].item /\ opening[u].item # i
    <2>1. u \in Drawn /\ u \in Openings
      BY DEF Drawn, Owed
    <2>2. opening[u].item # i
      BY <1>2, <1>3, <1>16, <2>1 DEF Counted
    <2>3. QED
      BY <1>6, <1>13, <1>16, <2>1, <2>2
  <1>17. ASSUME NEW j \in Index, Kept(j)
         PROVE  Kept(j)'
    <2>1. CASE j = i
      BY <1>7, <2>1 DEF Kept
    <2>2. CASE j # i /\ item[j] # None
      <3>1. CASE pool # None /\ j \notin pool.unavailable
        BY <1>5, <1>7, <1>11, <1>10, <1>17, <2>2, <3>1 DEF Kept
      <3>2. CASE \E u \in Owed : opening[u].item = j
        <4>1. PICK u \in Owed : opening[u].item = j
          BY <3>2
        <4>2. u \in Owed' /\ opening'[u].item = j
          BY <1>16, <2>2, <4>1
        <4>3. QED
          BY <1>5, <1>7, <1>17, <2>2, <4>2 DEF Kept
      <3>3. QED
        BY <1>17, <2>2, <3>1, <3>2 DEF Kept
    <2>3. CASE j # i /\ item[j] = None
      BY <1>7, <2>3 DEF Kept
    <2>4. QED
      BY <2>1, <2>2, <2>3
  <1>18. ASSUME \A u \in Owed : item[opening[u].item] # None
         PROVE  \A u \in Owed' : item'[opening'[u].item] # None
    <2> SUFFICES ASSUME NEW u \in Owed' PROVE item'[opening'[u].item] # None
      OBVIOUS
    <2>1. u \in Owed /\ u # o /\ u \in Openings
      BY <1>13 DEF Owed
    <2>2. opening'[u].item = opening[u].item /\ opening[u].item # i /\ opening[u].item \in Index
      BY <1>2, <1>16, <2>1, TypedOpening
    <2>3. QED
      BY <1>7, <1>18, <2>1, <2>2
  <1>19. Sealed'
    <2>1. CASE pool = None
      BY <1>11, <2>1 DEF Sealed
    <2>2. CASE pool # None
      <3>1. pool.status = "sealed"
        BY <1>4, <2>2, Phases
      <3>2. \A j \in Index : Kept(j)' /\ (j \notin pool'.unavailable => item'[j] # None)
        <4>1. i \in pool'.unavailable
          BY <1>2, <1>3, <1>10, <2>2, <3>1 DEF Sealed
        <4>2. \A j \in Index : Kept(j) /\ (j \notin pool.unavailable => item[j] # None)
          BY <1>2, <2>2, <3>1 DEF Sealed
        <4>3. QED
          BY <1>7, <1>10, <1>17, <2>2, <4>1, <4>2
      <3>3. \A u \in Drawn' : opening'[u].item \in pool'.unavailable
        BY <1>2, <1>6, <1>10, <1>13, <2>2, <3>1 DEF Sealed, Drawn, Owed, Done
      <3>4. \A u \in Owed' : item'[opening'[u].item] # None
        BY <1>2, <1>18, <2>2, <3>1 DEF Sealed
      <3>5. bundle'.released = Cardinality(Done') + pool'.reclaimed
        <4>1. bundle.released = Cardinality(Done) + pool.reclaimed
          BY <1>2, <2>2, <3>1 DEF Sealed
        <4>2. pool'.reclaimed = pool.reclaimed /\ pool.reclaimed \in Nat
          BY <1>2, <1>10, <2>2, TypedPool
        <4>3. QED
          BY <1>5, <1>14, <4>1, <4>2
      <3>6. NothingOutstanding' <=> NothingOutstanding
        BY <1>1 DEF NothingOutstanding, Retired
      <3>7. QED
        BY <1>1, <1>2, <1>4, <1>5, <1>11, <1>10, <2>2, <3>1, <3>2, <3>3, <3>4, <3>5, <3>6
           DEF Sealed
    <2>3. QED
      BY <2>1, <2>2
  <1>20. Closed'
    <2>1. CASE pool # None
      BY <1>11, <2>1 DEF Closed
    <2>2. CASE pool = None
      <3>1. /\ Retired /\ bundle.released + Cardinality(Owed) <= Quantity
            /\ \A j \in Index : Kept(j)
            /\ \A u \in Owed : item[opening[u].item] # None
        BY <1>2, <1>4, <2>2 DEF Closed
      <3>2. bundle'.released + Cardinality(Owed') <= Quantity
        BY <1>2, <1>5, <1>14, <3>1, TypedBundle, PoolAssumption
      <3>3. Retired'
        BY <1>1, <3>1 DEF Retired
      <3>4. (\A j \in Index : Kept(j)') /\ \A u \in Owed' : item'[opening'[u].item] # None
        BY <1>17, <1>18, <3>1
      <3>5. QED
        BY <1>4, <1>5, <3>2, <3>3, <3>4 DEF Closed
    <2>3. QED
      BY <2>1, <2>2
  <1>21. Filling' /\ Quiet'
    <2>1. pool # None => pool'.status # "funding"
      BY <1>4, <1>10, Phases
    <2>2. QED
      BY <1>5, <1>11, <2>1 DEF Filling, Quiet
  <1>22. LeavesBacked'
    <2>1. o # "pool"
      BY PoolAssumption
    <2>2. QED
      BY <1>1, <1>2, <1>4, <2>1, LeafGiven
  <1>23. WinnerGetsAnnounced'
    <2> SUFFICES ASSUME NEW u \in Openings, opening'[u].status = "delivered"
                 PROVE  owner'[bundle'.commitment[opening'[u].item + 1][1]] = u
      BY DEF WinnerGetsAnnounced
    <2>1. CASE u = o
      BY <1>4, <1>5, <1>6, <1>8, <2>1
    <2>2. CASE u # o
      <3> DEFINE m == bundle.commitment[opening[u].item + 1][1]
      <3>1. owner[m] = u /\ u # "pool"
        BY <1>2, <1>6, <2>2, PoolAssumption DEF WinnerGetsAnnounced
      <3>2. m # l
        BY <1>4, <3>1
      <3>3. owner'[m] = owner[m]
        BY <1>1, <1>2, <3>2 DEF TypeOK
      <3>4. QED
        BY <1>5, <1>6, <3>1, <3>3
    <2>3. QED
      BY <2>1, <2>2
  <1>24. QED
    BY <1>5, <1>12, <1>15, <1>19, <1>20, <1>21, <1>22, <1>23 DEF IInv, Placed

-----------------------------------------------------------------------------
(* Recovery.                                                               *)

LEMMA RecoverKeeps ==
  ASSUME IInv, NEW i \in Index, ReclaimSealed(i)
  PROVE  IInv'
  <1> DEFINE l == item[i].leaf
  <1>1. /\ pool # None /\ pool.status = "sealed" /\ i \notin pool.unavailable
        /\ item[i] # None /\ item[i].status = "deposited"
        /\ IF bundle.status = "funding" THEN Unlocked ELSE NothingOutstanding
        /\ pool.reclaimed + 1 <= Expected /\ bundle.released + 1 <= Quantity
        /\ bundle' = [bundle EXCEPT !.released = @ + 1,
                                    !.reclaimed = @ \/ pool.reclaimed + 1 = Expected]
        /\ pool' = [pool EXCEPT !.reclaimed = @ + 1, !.unavailable = @ \union {i}]
        /\ owner' = [owner EXCEPT ![l] = "creator"]
        /\ item' = [item EXCEPT ![i] = None]
        /\ UNCHANGED <<template, opening, flag>>
    BY DEF ReclaimSealed, ItemIdentity, GiveBack
  <1>2. /\ TypeOK /\ Filling /\ Sealed /\ Closed /\ Quiet /\ Counted
        /\ LeavesBacked /\ WinnerGetsAnnounced
    BY Phases
  <1>3. /\ i \in Deposited /\ l \in Leaves /\ owner[l] = "pool"
    <2>1. i \in Deposited /\ l \in Leaves
      BY <1>1, <1>2, TypedItem DEF Deposited
    <2>2. QED
      BY <1>2, <2>1 DEF LeavesBacked
  <1>4. Expected \in Nat /\ Expected <= Quantity
    BY <1>2, TypedTemplate, PoolAssumption DEF Expected, Count
  <1>5. /\ bundle' \in BundleType /\ bundle'.released = bundle.released + 1
        /\ bundle'.status = bundle.status /\ bundle'.reserved = bundle.reserved
        /\ bundle'.commitment = bundle.commitment /\ bundle'.funded = bundle.funded
        /\ bundle'.reclaimed <=> bundle.reclaimed \/ pool.reclaimed + 1 = Expected
    <2>1. bundle.released + 1 \in Count
      BY <1>1, <1>2, TypedBundle, PoolAssumption DEF Count
    <2>2. (bundle.reclaimed \/ pool.reclaimed + 1 = Expected) \in BOOLEAN
      OBVIOUS
    <2>3. QED
      BY <1>1, <1>2, <2>1, <2>2, TypedBundle DEF BundleType
  <1>6. /\ pool' \in PoolType /\ pool'.unavailable = pool.unavailable \cup {i}
        /\ pool'.assigned = pool.assigned /\ pool'.reclaimed = pool.reclaimed + 1
        /\ pool'.claimed = pool.claimed /\ pool'.cursor = pool.cursor
        /\ pool'.manifest = pool.manifest /\ pool'.status = "sealed"
    <2>1. pool.reclaimed + 1 \in Count
      BY <1>1, <1>2, <1>4, TypedPool, PoolAssumption DEF Count
    <2>2. QED
      BY <1>1, <1>2, <2>1, TypedPool DEF PoolType
  <1>7. pool' # None
    BY <1>6, NewIsNotNone
  <1>8. /\ item' \in [Index -> ItemType \cup {None}]
        /\ item'[i] = None /\ \A j \in Index : j # i => item'[j] = item[j]
    BY <1>1, <1>2 DEF TypeOK
  <1>9. owner' \in [Leaves -> Openings \cup {"creator", "pool", "somebody"}]
        /\ \A m \in Leaves : m # l => owner'[m] = owner[m]
    BY <1>1, <1>2 DEF TypeOK
  <1>10. TypeOK'
    BY <1>1, <1>2, <1>5, <1>6, <1>8, <1>9 DEF TypeOK
  <1>11. Pending' = Pending /\ Owed' = Owed /\ Done' = Done /\ Drawn' = Drawn
    BY <1>1 DEF Pending, Owed, Done, Drawn
  <1>12. Counted' /\ Quiet'
    BY <1>1, <1>2, <1>5, <1>6, <1>11 DEF Counted, Quiet
  <1>13. \A u \in Owed : u \in Drawn /\ opening[u].item \in Index /\ opening[u].item # i
    BY <1>1, <1>2, OwedItem DEF Sealed
  <1>14. Sealed'
    <2>1. Cardinality(pool'.unavailable) = pool'.assigned + pool'.reclaimed
      <3>1. Cardinality(pool.unavailable \cup {i}) = Cardinality(pool.unavailable) + 1
        BY <1>1, <1>2, TypedPool, IndexFinite, FS_AddElement
      <3>2. QED
        BY <1>1, <1>2, <1>6, <3>1, TypedPool DEF Sealed
    <2>2. bundle'.released = Cardinality(Done') + pool'.reclaimed
      <3>1. bundle.released = Cardinality(Done) + pool.reclaimed
        BY <1>1, <1>2 DEF Sealed
      <3>2. pool.reclaimed \in Nat /\ Cardinality(Done) \in Nat
        BY <1>1, <1>2, TypedPool, DrawnCounts
      <3>3. QED
        BY <1>5, <1>6, <1>11, <3>1, <3>2
    <2>3. bundle'.status = "funding" => (bundle'.reclaimed <=> pool'.reclaimed = Quantity)
      <3>1. bundle.status = "funding" => Expected = Quantity
        BY DEF Expected
      <3>2. bundle.status = "funding" => ~bundle.reclaimed
        BY <1>1, <1>2, <3>1, TypedPool, PoolAssumption DEF Sealed
      <3>3. QED
        BY <1>5, <1>6, <3>1, <3>2
    <2>4. bundle'.status = "active" =>
            /\ template'.remaining = Quantity - pool'.assigned
            /\ pool'.reclaimed > 0 => NothingOutstanding'
      BY <1>1, <1>2, <1>5, <1>6 DEF Sealed, NothingOutstanding, Retired
    <2>5. ASSUME NEW j \in Index
          PROVE  Kept(j)' /\ (j \notin pool'.unavailable => item'[j] # None)
      <3>1. Kept(j) /\ (j \notin pool.unavailable => item[j] # None)
        BY <1>1, <1>2 DEF Sealed
      <3>2. CASE j = i
        BY <1>6, <1>8, <3>2 DEF Kept
      <3>3. CASE j # i
        <4>1. item'[j] = item[j] /\ (j \notin pool.unavailable <=> j \notin pool'.unavailable)
          BY <1>6, <1>8, <3>3
        <4>2. QED
          BY <1>1, <1>5, <1>7, <1>11, <3>1, <4>1 DEF Kept
      <3>4. QED
        BY <3>2, <3>3
    <2>6. \A u \in Drawn' : opening'[u].item \in pool'.unavailable
      BY <1>1, <1>2, <1>6, <1>11 DEF Sealed
    <2>7. \A u \in Owed' : item'[opening'[u].item] # None
      BY <1>1, <1>2, <1>8, <1>11, <1>13 DEF Sealed
    <2>8. /\ bundle.status # "none" /\ bundle.reserved /\ bundle.funded
          /\ bundle.commitment = pool.manifest
          /\ pool.cursor = Quantity /\ Len(pool.manifest) = Quantity
      BY <1>1, <1>2 DEF Sealed
    <2>9. QED
      BY <1>5, <1>6, <2>1, <2>2, <2>3, <2>4, <2>5, <2>6, <2>7, <2>8 DEF Sealed
  <1>15. Filling' /\ Closed'
    BY <1>6, <1>7 DEF Filling, Closed
  <1>16. LeavesBacked'
    BY <1>1, <1>2, <1>3, LeafGiven
  <1>17. WinnerGetsAnnounced'
    <2> SUFFICES ASSUME NEW u \in Openings, opening'[u].status = "delivered"
                 PROVE  owner'[bundle'.commitment[opening'[u].item + 1][1]] = u
      BY DEF WinnerGetsAnnounced
    <2> DEFINE m == bundle.commitment[opening[u].item + 1][1]
    <2>1. owner[m] = u /\ u # "pool"
      BY <1>1, <1>2, PoolAssumption DEF WinnerGetsAnnounced
    <2>2. m # l
      BY <1>3, <2>1
    <2>3. owner'[m] = owner[m]
      BY <1>1, <1>2, <2>2 DEF TypeOK
    <2>4. QED
      BY <1>1, <1>5, <2>1, <2>3
  <1>18. bundle'.status = "none" => pool' = None
    BY <1>1, <1>2, <1>5 DEF Sealed
  <1>19. QED
    BY <1>10, <1>12, <1>14, <1>15, <1>16, <1>17, <1>18 DEF IInv, Placed

\* A pool that gave everything away or back has no item left but those owed.
LEMMA NothingAvailable ==
  ASSUME IInv, pool # None, pool.status = "sealed",
         pool.assigned + pool.reclaimed = Quantity
  PROVE  /\ pool.unavailable = Index
         /\ \A i \in Index : item[i] # None => \E o \in Owed : opening[o].item = i
  <1>1. TypeOK /\ Sealed
    BY Phases
  <1>2. Cardinality(pool.unavailable) = Quantity /\ pool.unavailable \in SUBSET Index
    BY <1>1, TypedPool DEF Sealed
  <1>3. pool.unavailable = Index
    BY <1>2, IndexFinite
  <1>4. QED
    BY <1>1, <1>3 DEF Sealed, Kept

LEMMA CloseUnusedKeeps ==
  ASSUME IInv, ClosePrizePool, EmptyUnsealed \/ RecoveredSealed,
         bundle' = [bundle EXCEPT !.reserved = FALSE, !.commitment = None]
  PROVE  IInv'
  <1>1. /\ pool # None /\ pool' = None
        /\ UNCHANGED <<template, item, opening, owner, flag>>
    BY DEF ClosePrizePool
  <1>2. /\ bundle.status = "funding" /\ TypeOK /\ LeavesBacked
        /\ \A i \in Index : item[i] = None
        /\ bundle.funded = bundle.reclaimed
        /\ ~bundle.funded => bundle.released = 0
    <2>1. CASE EmptyUnsealed
      <3>1. pool.status = "funding" /\ pool.cursor = 0 /\ ~pool.prepared
        BY <2>1 DEF EmptyUnsealed
      <3>2. /\ bundle.status = "funding" /\ ~bundle.funded /\ ~bundle.reclaimed
            /\ bundle.released = 0 /\ \A i \in Index : Stacked(i)
        BY <1>1, <3>1, FillingState
      <3>3. TypeOK /\ LeavesBacked
        BY Phases
      <3>4. bundle.funded = bundle.reclaimed
        BY <3>2, <3>3, TypedBundle
      <3>5. \A i \in Index : item[i] = None
        BY <3>1, <3>2, <3>3, TypedItem DEF Stacked
      <3>6. QED
        BY <3>2, <3>3, <3>4, <3>5
    <2>2. CASE RecoveredSealed
      <3>1. /\ pool.status = "sealed" /\ bundle.status = "funding"
            /\ pool.reclaimed = Quantity /\ bundle.reclaimed
        BY <2>2 DEF RecoveredSealed
      <3>2. /\ TypeOK /\ LeavesBacked /\ Sealed /\ Owed = {} /\ pool.assigned = 0
        BY <1>1, <3>1, StagingState
      <3>3. pool.assigned + pool.reclaimed = Quantity
        BY <3>1, <3>2, PoolAssumption
      <3>4. \A i \in Index : item[i] = None
        BY <1>1, <3>1, <3>2, <3>3, NothingAvailable
      <3>5. bundle.funded = bundle.reclaimed /\ bundle.funded
        BY <1>1, <3>1, <3>2, TypedBundle DEF Sealed
      <3>6. QED
        BY <3>1, <3>2, <3>4, <3>5
    <2>3. QED
      BY <2>1, <2>2
  <1>3. /\ bundle' \in BundleType /\ bundle'.status = "funding"
        /\ ~bundle'.reserved /\ bundle'.commitment = None
        /\ bundle'.funded = bundle.funded /\ bundle'.reclaimed = bundle.reclaimed
        /\ bundle'.released = bundle.released
    BY <1>2, TypedBundle DEF BundleType
  <1>4. TypeOK'
    BY <1>1, <1>2, <1>3 DEF TypeOK
  <1>5. Filling' /\ Sealed'
    BY <1>1 DEF Filling, Sealed
  <1>6. Closed'
    BY <1>1, <1>2, <1>3 DEF Closed
  <1>7. LeavesBacked'
    BY <1>1, <1>2 DEF LeavesBacked, Deposited
  <1>8. QED
    BY <1>1, <1>2, <1>3, <1>4, <1>5, <1>6, <1>7, StagingKeeps

LEMMA CloseUsedKeeps ==
  ASSUME IInv, ClosePrizePool, ActiveTerminal, UNCHANGED bundle
  PROVE  IInv'
  <1>1. /\ pool # None /\ pool' = None
        /\ UNCHANGED <<template, bundle, item, opening, owner, flag>>
        /\ pool.status = "sealed" /\ bundle.status = "active" /\ Retired
        /\ pool.assigned + pool.reclaimed = Quantity
    BY DEF ClosePrizePool, ActiveTerminal
  <1>2. /\ TypeOK /\ Sealed /\ Quiet /\ Counted /\ LeavesBacked /\ WinnerGetsAnnounced
    BY Phases
  <1>3. Pending' = Pending /\ Owed' = Owed /\ Done' = Done /\ Drawn' = Drawn
    BY <1>1 DEF Pending, Owed, Done, Drawn
  <1>4. TypeOK' /\ Quiet' /\ Counted'
    BY <1>1, <1>2, <1>3 DEF TypeOK, Quiet, Counted
  <1>5. Filling' /\ Sealed'
    BY <1>1 DEF Filling, Sealed
  <1>6. Closed'
    <2>1. bundle.released + Cardinality(Owed) <= Quantity
      <3>1. bundle.released = Cardinality(Done) + pool.reclaimed
            /\ pool.assigned = Cardinality(Drawn)
        BY <1>1, <1>2 DEF Sealed, Counted
      <3>2. QED
        BY <1>1, <1>2, <3>1, DrawnCounts, TypedPool, PoolAssumption
    <2>2. \A i \in Index : Kept(i)'
      <3>1. \A i \in Index : Kept(i) /\ (item[i] # None => \E o \in Owed : opening[o].item = i)
        BY <1>1, <1>2, NothingAvailable DEF Sealed
      <3>2. QED
        BY <1>1, <1>3, <3>1 DEF Kept
    <2>3. bundle.reserved /\ \A o \in Owed : item[opening[o].item] # None
      BY <1>1, <1>2 DEF Sealed
    <2>4. QED
      BY <1>1, <1>3, <2>1, <2>2, <2>3 DEF Closed, Retired
  <1>7. LeavesBacked' /\ WinnerGetsAnnounced'
    BY <1>1, <1>2 DEF LeavesBacked, WinnerGetsAnnounced, Deposited
  <1>8. QED
    BY <1>1, <1>4, <1>5, <1>6, <1>7 DEF IInv, Placed

-----------------------------------------------------------------------------
(* Every step keeps the invariant.                                         *)

LEMMA StepInvariant == IInv /\ [Next]_vars => IInv'
  <1> SUFFICES ASSUME IInv, [Next]_vars PROVE IInv'
    OBVIOUS
  <1>1. CASE Stage
    <2>1. \A l \in Leaves : flag[l] \in BOOLEAN
      BY Phases DEF TypeOK
    <2>2. QED
      BY <1>1, <2>1, BundleKeeps, CreateKeeps, PrepareKeeps, DepositKeeps, CancelKeeps,
         SealKeeps, ActivateKeeps DEF Stage
  <1>2. CASE Treasury
    BY <1>2, TreasuryKeeps, RequestKeeps, ForfeitKeeps DEF Treasury
  <1>3. CASE Draw
    BY <1>3, AllocateKeeps, DeliverKeeps DEF Draw
  <1>4. CASE Recover
    <2>1. CASE ClosePrizePool
      BY <2>1, CloseUnusedKeeps, CloseUsedKeeps DEF ClosePrizePool
    <2>2. CASE \E i \in Index : ReclaimUnfinished(i) \/ ReclaimSealed(i)
      BY <2>2, UnwindKeeps, RecoverKeeps
    <2>3. QED
      BY <1>4, <2>1, <2>2 DEF Recover
  <1>5. CASE Tree
    BY <1>5, TreasuryKeeps
  <1>6. CASE UNCHANGED vars
    <2>1. UNCHANGED <<template, bundle, pool, item, opening, owner, flag>>
      BY <1>6 DEF vars
    <2>2. /\ TypeOK /\ Counted
      BY Phases
    <2>3. /\ template' \in TemplateType /\ flag' \in [Leaves -> BOOLEAN]
          /\ template'.supply <= template.supply
          /\ template'.supply + template'.pending <= template'.remaining
      BY <2>1, <2>2, TypedTemplate DEF TypeOK, Counted
    <2>4. QED
      BY <2>1, <2>3, TemplateKeeps DEF Retired
  <1>7. QED
    BY <1>1, <1>2, <1>3, <1>4, <1>5, <1>6 DEF Next

LEMMA SoundFromInvariant == IInv => PoolSound
  <1> SUFFICES ASSUME IInv PROVE PoolSound
    OBVIOUS
  <1>1. /\ TypeOK /\ Quiet /\ Counted /\ Filling /\ Sealed /\ Closed
        /\ LeavesBacked /\ WinnerGetsAnnounced
    BY Phases
  <1>2. PoolAgrees
    <2> SUFFICES ASSUME pool # None, pool.status = "sealed"
                 PROVE  /\ Cardinality(pool.unavailable) = pool.assigned + pool.reclaimed
                        /\ pool.claimed <= pool.assigned
                        /\ bundle.status = "active" =>
                             template.remaining = Quantity - pool.assigned
                        /\ template.pending + template.supply > 0 =>
                             Available = template.remaining
      BY DEF PoolAgrees
    <2>1. /\ Cardinality(pool.unavailable) = pool.assigned + pool.reclaimed
          /\ bundle.status = "active" =>
               template.remaining = Quantity - pool.assigned
               /\ (pool.reclaimed > 0 => NothingOutstanding)
      BY <1>1 DEF Sealed
    <2>2. pool.claimed <= pool.assigned
      BY <1>1, DrawnCounts, TypedPool DEF Counted
    <2>3. ASSUME template.pending + template.supply > 0
          PROVE  Available = template.remaining
      <3>1. bundle.status = "active"
        BY <1>1, <2>3, TypedTemplate DEF Quiet, Counted
      <3>2. ~NothingOutstanding
        BY <1>1, <2>3, TypedTemplate DEF NothingOutstanding
      <3>3. pool.reclaimed = 0
        BY <1>1, <2>1, <3>1, <3>2, TypedPool
      <3>4. QED
        BY <1>1, <2>1, <3>1, <3>3, TypedPool DEF Available
    <2>4. QED
      BY <2>1, <2>2, <2>3
  <1>3. ManifestTrue
    <2> SUFFICES ASSUME pool # None
                 PROVE  /\ Len(pool.manifest) = pool.cursor
                        /\ pool.status = "funding" =>
                             \A i \in 0 .. pool.cursor - 1 :
                               i \in Deposited
                               /\ pool.manifest[i + 1] = <<item[i].leaf, item[i].verified>>
                        /\ pool.status = "sealed" => bundle.commitment = pool.manifest
      BY DEF ManifestTrue
    <2>1. pool.status = "sealed" =>
            Len(pool.manifest) = pool.cursor /\ bundle.commitment = pool.manifest
      BY <1>1 DEF Sealed
    <2>2. ASSUME pool.status = "funding"
          PROVE  /\ Len(pool.manifest) = pool.cursor
                 /\ \A i \in 0 .. pool.cursor - 1 :
                      i \in Deposited
                      /\ pool.manifest[i + 1] = <<item[i].leaf, item[i].verified>>
      <3>1. Len(pool.manifest) = pool.cursor /\ \A i \in Index : Stacked(i)
        BY <2>2, FillingState
      <3>2. ASSUME NEW i \in 0 .. pool.cursor - 1
            PROVE  i \in Deposited /\ pool.manifest[i + 1] = <<item[i].leaf, item[i].verified>>
        <4>1. i \in Index /\ i < pool.cursor
          BY <1>1, TypedPool, PoolAssumption DEF Index, Count
        <4>2. QED
          BY <3>1, <4>1 DEF Stacked, Deposited
      <3>3. QED
        BY <3>1, <3>2
    <2>3. QED
      BY <1>1, <2>1, <2>2, TypedPool
  <1>4. ASSUME NEW o \in Openings, opening[o].status = "allocated"
        PROVE  CanClaimItem(o) \/ CanClaimStranded(o)
    <2>1. o \in Owed
      BY <1>4 DEF Owed
    <2>2. /\ opening[o].item \in Index /\ opening[o].item \in Deposited /\ o \in Drawn
          /\ bundle.status = "active" /\ bundle.reserved
          /\ owner[item[opening[o].item].leaf] = "pool"
      BY <2>1, OwedItem
    <2>3. ItemIdentity(opening[o].item)
      BY <2>2 DEF ItemIdentity, Deposited
    <2>4. /\ Cardinality(Owed) \in Nat /\ Cardinality(Owed) > 0
          /\ Cardinality(Done) \in Nat
          /\ Cardinality(Drawn) = Cardinality(Owed) + Cardinality(Done)
      <3>1. Owed \in SUBSET Openings /\ Owed # {}
        BY <2>1 DEF Owed
      <3>2. QED
        BY <3>1, OpeningsFinite, DrawnCounts
    <2>5. CASE pool = None
      <3>1. Retired /\ bundle.released + Cardinality(Owed) <= Quantity
        BY <1>1, <2>2, <2>5 DEF Closed
      <3>2. bundle.released < Quantity
        BY <1>1, <2>4, <3>1, TypedBundle, PoolAssumption
      <3>3. QED
        BY <1>4, <2>2, <2>3, <3>1, <3>2 DEF CanClaimStranded, RecordClaim
    <2>6. CASE pool # None
      <3>1. pool.status = "sealed"
        BY <2>2, <2>6, Phases
      <3>2. /\ bundle.commitment = pool.manifest /\ opening[o].item \in pool.unavailable
            /\ Cardinality(pool.unavailable) = pool.assigned + pool.reclaimed
            /\ bundle.released = Cardinality(Done) + pool.reclaimed
        BY <1>1, <2>2, <2>6, <3>1 DEF Sealed
      <3>3. pool.assigned = Cardinality(Drawn) /\ pool.claimed <= Cardinality(Done)
        BY <1>1, <2>6 DEF Counted
      <3>4. pool.assigned + pool.reclaimed <= Quantity
        BY <1>1, <2>6, <3>2, TypedPool, IndexFinite
      <3>5. /\ pool.claimed < pool.assigned /\ bundle.released < Quantity
        BY <1>1, <2>4, <2>6, <3>2, <3>3, <3>4, TypedPool, PoolAssumption
      <3>6. QED
        BY <1>4, <2>2, <2>3, <2>6, <3>1, <3>2, <3>5 DEF CanClaimItem, RecordClaim
    <2>7. QED
      BY <2>5, <2>6
  <1>5. Deliverable
    <2>1. ASSUME NEW o \in Openings, NEW u \in Openings, o # u,
                 opening[o].status = "allocated", opening[u].status = "allocated"
          PROVE  opening[o].item # opening[u].item
      <3>1. o \in Drawn /\ u \in Drawn
        BY <2>1 DEF Drawn, Owed
      <3>2. QED
        BY <1>1, <2>1, <3>1 DEF Counted
    <2>2. QED
      BY <1>4, <2>1 DEF Deliverable
  <1>6. NothingLeftBehind
    BY <1>1 DEF NothingLeftBehind, Closed, IInv, Placed
  <1>7. QED
    BY <1>1, <1>2, <1>3, <1>5, <1>6 DEF PoolSound

\* However a pool is staged, drawn from, claimed, given back and closed: its items
\* and the leaves it owns match one to one, its bitmap and counts agree with the
\* bundle, its manifest is what it holds, a drawn item stays claimable by its winner,
\* with the pool or without it, and a delivered leaf is the one announced at its
\* place (templates/prize_pool.rs).
THEOREM PoolAlwaysSound == Spec => []PoolSound
  <1>1. Spec => []IInv
    BY InitInvariant, StepInvariant, PTL DEF Spec
  <1>2. QED
    BY <1>1, SoundFromInvariant, PTL

-----------------------------------------------------------------------------
(* A client fills the pool (PoolFunding).                                  *)

IsTask(r) == DOMAIN r = {"pc", "plan", "pool", "at", "proof"} /\ r.at \in Int

TasksTyped ==
  /\ DOMAIN tab = Tabs /\ \A t \in Tabs : IsTask(tab[t])
  /\ count \in [drafts : Nat, toggles : Nat, faults : Nat, lates : Nat]

\* What a tab does, and what a transaction carries, is of a draft.
OfDraft(r, P) ==
  r.pc # "idle" =>
    /\ r.plan = P
    /\ r.pc = "prepare" => r.proof = P[r.at + 1][2]
    /\ r.pc \in {"item", "reclaim"} => r.at >= 0

Carries(x, P) ==
  /\ x.op = "prepare" => x.leaf = P[x.index + 1][1] /\ x.flag = P[x.index + 1][2]
  /\ x.op = "reclaim" => x.index \in Nat

Drafted ==
  /\ asked \subseteq [1 .. Quantity -> Leaves \X BOOLEAN]
  /\ saved = None \/ saved \in asked
  /\ \A t \in Tabs : tab[t].pc = "idle" \/ \E P \in asked : OfDraft(tab[t], P)
  /\ \A x \in late : \E P \in asked : Carries(x, P)

Clients == IInv /\ TasksTyped /\ Drafted

\* A transaction keeps the pool sound.
LEMMA ExecutesKeeps ==
  ASSUME IInv, NEW P \in [1 .. Quantity -> Leaves \X BOOLEAN], NEW x,
         Carries(x, P), Executes(x)
  PROVE  IInv'
  <1>1. CASE x.op = "prepare" /\ pool # None /\ pool.cursor = x.index
             /\ PreparePrizePoolItem(x.leaf, x.flag)
    <2>1. pool.cursor \in Nat /\ pool.cursor < Quantity
      BY <1>1, Phases, TypedPool DEF PreparePrizePoolItem
    <2>2. P[x.index + 1] \in Leaves \X BOOLEAN
      BY <1>1, <2>1, PoolAssumption
    <2>3. x.leaf \in Leaves /\ x.flag \in BOOLEAN
      BY <1>1, <2>2 DEF Carries
    <2>4. QED
      BY <1>1, <2>3, PrepareKeeps
  <1>2. CASE pool # None /\ DepositPrizePoolItem(x.leaf, x.flag)
    <2>1. /\ x.leaf = item[pool.cursor].leaf /\ x.flag = flag[x.leaf]
          /\ pool.status = "funding" /\ pool.prepared
      BY <1>2 DEF DepositPrizePoolItem
    <2>2. pool.cursor \in Index /\ item[pool.cursor] # None
      BY <1>2, <2>1, FillingState DEF Stacked
    <2>3. x.leaf \in Leaves
      BY <2>1, <2>2, Phases, TypedItem
    <2>4. QED
      BY <1>2, <2>1, <2>3, DepositKeeps
  <1>3. CASE x.op = "reclaim" /\ (ReclaimUnfinished(x.index) \/ ReclaimSealed(x.index))
    <2>1. pool # None /\ x.index \in Nat /\ x.index < pool.cursor
      BY <1>3 DEF ReclaimUnfinished, ReclaimSealed, Carries
    <2>2. pool.cursor \in 0 .. Quantity
      BY <2>1, Phases, TypedPool DEF Count
    <2>3. x.index \in Index
      BY <2>1, <2>2, PoolAssumption DEF Index
    <2>4. QED
      BY <1>3, <2>3, UnwindKeeps, RecoverKeeps
  <1>4. CASE ClosePrizePool
    BY <1>4, CloseUnusedKeeps, CloseUsedKeeps DEF ClosePrizePool
  <1>5. CASE \/ AddBundle \/ CreatePrizePool \/ SealPrizePool \/ ActivateBundle
             \/ CancelPrizePoolItem \/ CancelBundle
    BY <1>5, BundleKeeps, CreateKeeps, CancelKeeps, SealKeeps, ActivateKeeps
  <1>6. QED
    BY <1>1, <1>2, <1>3, <1>4, <1>5 DEF Executes

-----------------------------------------------------------------------------
(* Whatever it does, a tab keeps to its draft, or is done with it.         *)

\* A tab that goes on, or sends a transaction, with what its draft says.
Works(t, P) ==
  \E next :
    /\ IsTask(next) /\ OfDraft(next, P)
    /\ Goes(t, next) \/ \E x : Carries(x, P) /\ Sends(t, x, next)

\* A draft is done with when nothing is staged, or the bundle is live.
Finishes(t) ==
  /\ bundle.status \in {"none", "active"}
  /\ saved' = None
  /\ tab' = [tab EXCEPT ![t] = NoTask]
  /\ UNCHANGED <<vars, late, asked, count>>

Special == {"prepare", "item", "reclaim"}

LEMMA IdleTask ==
  NoTask.pc = "idle" /\ IsTask(NoTask) /\ \A P : OfDraft(NoTask, P)
  BY DEF NoTask, IsTask, OfDraft

LEMMA Onward ==
  ASSUME NEW t \in Tabs, NEW P, IsTask(tab[t]), OfDraft(tab[t], P), tab[t].pc # "idle",
         NEW pc, pc \notin Special
  PROVE  /\ IsTask([tab[t] EXCEPT !.pc = pc]) /\ OfDraft([tab[t] EXCEPT !.pc = pc], P)
         /\ \A q : /\ IsTask([tab[t] EXCEPT !.pc = pc, !.pool = q])
                   /\ OfDraft([tab[t] EXCEPT !.pc = pc, !.pool = q], P)
  BY DEF IsTask, OfDraft, Special

LEMMA MovesWork ==
  ASSUME NEW t \in Tabs, NEW P, IsTask(tab[t]), OfDraft(tab[t], P), tab[t].pc # "idle"
  PROVE  /\ Throws(t) => Works(t, P)
         /\ \A pc : pc \notin Special /\ (To(t, pc) \/ Reads(t, pc)) => Works(t, P)
  <1>1. ASSUME Throws(t) PROVE Works(t, P)
    BY <1>1, IdleTask DEF Throws, Works
  <1>2. ASSUME NEW pc, pc \notin Special, To(t, pc) \/ Reads(t, pc) PROVE Works(t, P)
    BY <1>2, Onward DEF To, Reads, Works
  <1>3. QED
    BY <1>1, <1>2

LEMMA WritesWork ==
  ASSUME NEW t \in Tabs, NEW P, IsTask(tab[t]), OfDraft(tab[t], P), tab[t].pc # "idle",
         NEW pc, pc \notin Special, NEW x, Carries(x, P),
         Sends(t, x, [tab[t] EXCEPT !.pc = pc])
  PROVE  Works(t, P)
  BY Onward DEF Works

\* A step that only reads.
LEMMA PlansWork ==
  ASSUME NEW t \in Tabs, NEW P, IsTask(tab[t]), OfDraft(tab[t], P), tab[t].pc # "idle",
         NEW next, Goes(t, next), IsTask(next), next.plan = tab[t].plan,
         next.pc = "prepare" => next.proof = tab[t].plan[next.at + 1][2],
         next.pc \in {"item", "reclaim"} => next.at >= 0
  PROVE  Works(t, P)
  <1>1. OfDraft(next, P)
    BY DEF OfDraft
  <1>2. QED
    BY <1>1 DEF Works

LEMMA FundReads ==
  ASSUME NEW t \in Tabs, NEW P, IsTask(tab[t]), OfDraft(tab[t], P),
         \/ ReadBundle(t) \/ ReadPool(t) \/ ReadPrepared(t) \/ Reread(t)
  PROVE  Works(t, P) \/ Finishes(t)
  <1>1. CASE ReadBundle(t)
    <2>1. tab[t].pc # "idle"
      BY <1>1 DEF ReadBundle, At
    <2>2. \/ \E pc : pc \notin Special /\ To(t, pc)
          \/ /\ bundle.status = "active" /\ saved' = None
             /\ tab' = [tab EXCEPT ![t] = NoTask] /\ UNCHANGED <<vars, late, asked, count>>
      BY <1>1 DEF ReadBundle, Special
    <2>3. QED
      BY <2>1, <2>2, MovesWork DEF Finishes
  <1>2. CASE ReadPool(t) \/ ReadPrepared(t) \/ Reread(t)
    <2>1. tab[t].pc # "idle"
      BY <1>2 DEF ReadPool, ReadPrepared, Reread, At
    <2>2. Throws(t) \/ \E pc : pc \notin Special /\ (To(t, pc) \/ Reads(t, pc))
      BY <1>2 DEF ReadPool, ReadPrepared, Reread, Special
    <2>3. QED
      BY <2>1, <2>2, MovesWork
  <1>3. QED
    BY <1>1, <1>2

LEMMA FundChecks ==
  ASSUME NEW t \in Tabs, NEW P, IsTask(tab[t]), OfDraft(tab[t], P),
         CheckItem(t) \/ Resolve(t) \/ ResolveAgain(t) \/ ReadDeposited(t)
  PROVE  Works(t, P) \/ Finishes(t)
  <1>1. tab[t].pc # "idle"
    BY DEF CheckItem, Resolve, ResolveAgain, ReadDeposited, At
  <1>2. IsTask(tab[t])
    OBVIOUS
  <1>3. CASE CheckItem(t)
    <2> DEFINE next == [tab[t] EXCEPT !.at = @ + 1]
    <2>1. CASE Goes(t, next) /\ tab[t].pc = "check"
      <3>1. IsTask(next) /\ next.plan = tab[t].plan /\ next.pc = "check"
        BY <1>2, <2>1 DEF IsTask
      <3> HIDE DEF next
      <3>2. QED
        BY <1>1, <2>1, <3>1, PlansWork
    <2>2. CASE Throws(t) \/ \E pc : pc \notin Special /\ To(t, pc)
      BY <1>1, <2>2, MovesWork
    <2>3. QED
      BY <1>3, <2>1, <2>2 DEF CheckItem, At, Special
  <1>4. CASE Resolve(t)
    <2> DEFINE next == [tab[t] EXCEPT !.proof = Fresh(t, tab[t].at),
                                      !.pc = IF tab[t].pool.prepared THEN "prepared" ELSE "prepare"]
    <2>1. CASE Throws(t)
      BY <1>1, <2>1, MovesWork
    <2>2. CASE Unchanged(t) /\ Goes(t, next)
      <3>1. /\ IsTask(next) /\ next.plan = tab[t].plan /\ next.at = tab[t].at
            /\ next.pc \in {"prepared", "prepare"} /\ next.proof = Fresh(t, tab[t].at)
        BY <1>2 DEF IsTask
      <3> HIDE DEF next
      <3>2. next.proof = tab[t].plan[next.at + 1][2]
        BY <2>2, <3>1 DEF Unchanged, Planned
      <3>3. QED
        BY <1>1, <2>2, <3>1, <3>2, PlansWork
    <2>3. QED
      BY <1>4, <2>1, <2>2 DEF Resolve
  <1>5. CASE ResolveAgain(t)
    <2> DEFINE next == [tab[t] EXCEPT !.pc = "deposit", !.proof = Fresh(t, tab[t].at)]
    <2>1. CASE Throws(t)
      BY <1>1, <2>1, MovesWork
    <2>2. CASE Goes(t, next)
      <3>1. IsTask(next) /\ next.plan = tab[t].plan /\ next.pc = "deposit"
        BY <1>2 DEF IsTask
      <3> HIDE DEF next
      <3>2. QED
        BY <1>1, <2>2, <3>1, PlansWork
    <2>3. QED
      BY <1>5, <2>1, <2>2 DEF ResolveAgain
  <1>6. CASE ReadDeposited(t)
    <2> DEFINE next == [tab[t] EXCEPT !.pool = pool, !.at = @ + 1,
                                      !.pc = IF tab[t].at + 1 < Quantity THEN "resolve" ELSE "seal"]
    <2>1. CASE Throws(t)
      BY <1>1, <2>1, MovesWork
    <2>2. CASE Goes(t, next)
      <3>1. IsTask(next) /\ next.plan = tab[t].plan /\ next.pc \in {"resolve", "seal"}
        BY <1>2 DEF IsTask
      <3> HIDE DEF next
      <3>2. QED
        BY <1>1, <2>2, <3>1, PlansWork
    <2>3. QED
      BY <1>6, <2>1, <2>2 DEF ReadDeposited
  <1>7. QED
    BY <1>3, <1>4, <1>5, <1>6

LEMMA SimpleCarries ==
  ASSUME NEW P
  PROVE  /\ \A op : op \notin {"prepare", "reclaim"} => Carries(Simple(op), P)
         /\ \A op, i, l, f : op \notin {"prepare", "reclaim"} => Carries(Tx(op, i, l, f), P)
  BY DEF Carries, Simple, Tx

LEMMA FundWrites ==
  ASSUME NEW t \in Tabs, NEW P, IsTask(tab[t]), OfDraft(tab[t], P),
         \/ AddsBundle(t) \/ CreatesPool(t) \/ Prepares(t) \/ Deposits(t) \/ Seals(t)
         \/ Activates(t)
  PROVE  Works(t, P) \/ Finishes(t)
  <1>1. tab[t].pc # "idle"
    BY DEF AddsBundle, CreatesPool, Prepares, Deposits, Seals, Activates, At
  <1>2. ASSUME NEW op \in {"addBundle", "create", "seal", "activate"}, NEW pc \in {"bundle", "pool"},
               Sends(t, Simple(op), [tab[t] EXCEPT !.pc = pc])
        PROVE  Works(t, P) \/ Finishes(t)
    <2>1. Carries(Simple(op), P)
      BY SimpleCarries
    <2>2. pc \notin Special
      BY DEF Special
    <2>3. QED
      BY <1>1, <1>2, <2>1, <2>2, WritesWork
  <1>3. CASE AddsBundle(t)
    BY <1>2, <1>3 DEF AddsBundle
  <1>4. CASE CreatesPool(t)
    BY <1>2, <1>4 DEF CreatesPool
  <1>5. CASE Seals(t)
    BY <1>2, <1>5 DEF Seals
  <1>6. CASE Activates(t)
    BY <1>2, <1>6 DEF Activates
  <1>7. CASE Prepares(t)
    <2>1. Carries(ItemTx(t, "prepare"), P)
      <3>1. tab[t].plan = P /\ tab[t].proof = P[tab[t].at + 1][2]
        BY <1>7 DEF Prepares, At, OfDraft
      <3>2. QED
        BY <3>1 DEF Carries, ItemTx, Tx, Planned
    <2>2. Sends(t, ItemTx(t, "prepare"), [tab[t] EXCEPT !.pc = "reread"]) /\ "reread" \notin Special
      BY <1>7 DEF Prepares, Special
    <2>3. QED
      BY <1>1, <2>1, <2>2, WritesWork
  <1>8. CASE Deposits(t)
    <2>1. Carries(ItemTx(t, "deposit"), P)
      BY SimpleCarries DEF ItemTx
    <2>2. Sends(t, ItemTx(t, "deposit"), [tab[t] EXCEPT !.pc = "deposited"])
          /\ "deposited" \notin Special
      BY <1>8 DEF Deposits, Special
    <2>3. QED
      BY <1>1, <2>1, <2>2, WritesWork
  <1>9. QED
    BY <1>3, <1>4, <1>5, <1>6, <1>7, <1>8

LEMMA CancelReads ==
  ASSUME NEW t \in Tabs, NEW P, IsTask(tab[t]), OfDraft(tab[t], P),
         \/ ReadStaged(t) \/ ReadPartial(t) \/ ReadUnprepared(t) \/ ReadReclaim(t)
         \/ ReadCancelled(t) \/ Validate(t) \/ NextTail(t) \/ ReadItem(t) \/ ReadReclaimed(t)
  PROVE  Works(t, P) \/ Finishes(t)
  <1>1. tab[t].pc # "idle" /\ IsTask(tab[t])
    BY DEF ReadStaged, ReadPartial, ReadUnprepared, ReadReclaim, ReadCancelled, Validate,
           NextTail, ReadItem, ReadReclaimed, At
  <1>2. CASE ReadStaged(t)
    <2>1. \/ bundle.status = "none" /\ Discards(t)
          \/ Throws(t) \/ \E pc : pc \notin Special /\ To(t, pc)
      BY <1>2 DEF ReadStaged, Special
    <2>2. QED
      BY <1>1, <2>1, MovesWork DEF Discards, Finishes
  <1>3. CASE ReadPartial(t) \/ ReadUnprepared(t)
    <2>1. Throws(t) \/ \E pc : pc \notin Special /\ (To(t, pc) \/ Reads(t, pc))
      BY <1>3 DEF ReadPartial, ReadUnprepared, Special
    <2>2. QED
      BY <1>1, <2>1, MovesWork
  <1>4. ASSUME Goes(t, [tab[t] EXCEPT !.pc = "validate", !.pool = pool, !.at = 0])
        PROVE  Works(t, P) \/ Finishes(t)
    <2> DEFINE next == [tab[t] EXCEPT !.pc = "validate", !.pool = pool, !.at = 0]
    <2>1. IsTask(next) /\ next.plan = tab[t].plan /\ next.pc = "validate" /\ Goes(t, next)
      BY <1>1, <1>4 DEF IsTask
    <2> HIDE DEF next
    <2>2. QED
      BY <1>1, <2>1, PlansWork
  <1>5. CASE ReadReclaim(t)
    <2>1. \/ \E pc : pc \notin Special /\ (To(t, pc) \/ Reads(t, pc))
          \/ Goes(t, [tab[t] EXCEPT !.pc = "validate", !.pool = pool, !.at = 0])
      BY <1>5 DEF ReadReclaim, Special
    <2>2. QED
      BY <1>1, <1>4, <2>1, MovesWork
  <1>6. CASE ReadCancelled(t)
    BY <1>1, <1>4, <1>6, MovesWork DEF ReadCancelled
  <1>7. CASE Validate(t)
    <2>1. CASE Throws(t)
      BY <1>1, <2>1, MovesWork
    <2>2. CASE Goes(t, [tab[t] EXCEPT !.at = @ + 1]) /\ tab[t].pc = "validate"
      <3> DEFINE next == [tab[t] EXCEPT !.at = @ + 1]
      <3>1. IsTask(next) /\ next.plan = tab[t].plan /\ next.pc = "validate" /\ Goes(t, next)
        BY <1>1, <2>2 DEF IsTask
      <3> HIDE DEF next
      <3>2. QED
        BY <1>1, <3>1, PlansWork
    <2>3. CASE Goes(t, [tab[t] EXCEPT !.pc = "tail", !.at = @ - 1])
      <3> DEFINE next == [tab[t] EXCEPT !.pc = "tail", !.at = @ - 1]
      <3>1. IsTask(next) /\ next.plan = tab[t].plan /\ next.pc = "tail" /\ Goes(t, next)
        BY <1>1, <2>3 DEF IsTask
      <3> HIDE DEF next
      <3>2. QED
        BY <1>1, <3>1, PlansWork
    <2>4. QED
      BY <1>7, <2>1, <2>2, <2>3 DEF Validate, At
  <1>8. CASE NextTail(t)
    <2>1. CASE To(t, "closeEmpty")
      BY <1>1, <2>1, MovesWork DEF Special
    <2>2. CASE Goes(t, [tab[t] EXCEPT !.at = @ - 1]) /\ tab[t].pc = "tail"
      <3> DEFINE next == [tab[t] EXCEPT !.at = @ - 1]
      <3>1. IsTask(next) /\ next.plan = tab[t].plan /\ next.pc = "tail" /\ Goes(t, next)
        BY <1>1, <2>2 DEF IsTask
      <3> HIDE DEF next
      <3>2. QED
        BY <1>1, <3>1, PlansWork
    <2>3. CASE tab[t].at >= 0
               /\ Goes(t, [tab[t] EXCEPT !.pc = "item", !.proof = Fresh(t, Position(t))])
      <3> DEFINE next == [tab[t] EXCEPT !.pc = "item", !.proof = Fresh(t, Position(t))]
      <3>1. /\ IsTask(next) /\ next.plan = tab[t].plan /\ next.pc = "item" /\ next.at >= 0
            /\ Goes(t, next)
        BY <1>1, <2>3 DEF IsTask
      <3> HIDE DEF next
      <3>2. QED
        BY <1>1, <3>1, PlansWork
    <2>4. QED
      BY <1>8, <2>1, <2>2, <2>3 DEF NextTail, At
  <1>9. CASE ReadItem(t)
    <2>1. CASE Throws(t)
      BY <1>1, <2>1, MovesWork
    <2>2. CASE To(t, "reclaim")
      <3> DEFINE next == [tab[t] EXCEPT !.pc = "reclaim"]
      <3>1. tab[t].at >= 0
        BY <1>9 DEF OfDraft, ReadItem, At
      <3>2. /\ IsTask(next) /\ next.plan = tab[t].plan /\ next.pc = "reclaim" /\ next.at >= 0
            /\ Goes(t, next)
        BY <1>1, <2>2, <3>1 DEF IsTask, To
      <3> HIDE DEF next
      <3>3. QED
        BY <1>1, <3>2, PlansWork
    <2>3. QED
      BY <1>9, <2>1, <2>2 DEF ReadItem
  <1>10. CASE ReadReclaimed(t)
    <2>1. CASE Throws(t)
      BY <1>1, <2>1, MovesWork
    <2>2. CASE Goes(t, [tab[t] EXCEPT !.pc = "tail", !.pool = pool, !.at = @ - 1])
      <3> DEFINE next == [tab[t] EXCEPT !.pc = "tail", !.pool = pool, !.at = @ - 1]
      <3>1. IsTask(next) /\ next.plan = tab[t].plan /\ next.pc = "tail" /\ Goes(t, next)
        BY <1>1, <2>2 DEF IsTask
      <3> HIDE DEF next
      <3>2. QED
        BY <1>1, <3>1, PlansWork
    <2>3. QED
      BY <1>10, <2>1, <2>2 DEF ReadReclaimed
  <1>11. QED
    BY <1>2, <1>3, <1>5, <1>6, <1>7, <1>8, <1>9, <1>10

LEMMA CancelWrites ==
  ASSUME NEW t \in Tabs, NEW P, IsTask(tab[t]), OfDraft(tab[t], P),
         \/ CancelsItem(t, "cancelPrepared", "unprepared") \/ Closes(t, "closeEmpty")
         \/ CancelsBundle(t) \/ CancelsItem(t, "cancelReclaim", "cancelled") \/ Reclaims(t)
  PROVE  Works(t, P) \/ Finishes(t)
  <1>1. tab[t].pc # "idle" /\ IsTask(tab[t])
    BY DEF CancelsItem, Closes, CancelsBundle, Reclaims, At
  <1>2. CASE Reclaims(t)
    <2> DEFINE x == Tx("reclaim", Position(t), Planned(t, Position(t))[1], tab[t].proof)
    <2>1. Sends(t, x, [tab[t] EXCEPT !.pc = "reclaimed"]) /\ "reclaimed" \notin Special
      BY <1>2 DEF Reclaims, Special
    <2>2. tab[t].at \in Nat
      BY <1>2 DEF OfDraft, Reclaims, At, IsTask
    <2>3. Carries(x, P)
      BY <2>2 DEF Carries, Tx, Position
    <2> HIDE DEF x
    <2>4. QED
      BY <1>1, <2>1, <2>3, WritesWork
  <1>3. CASE CancelsItem(t, "cancelPrepared", "unprepared")
             \/ CancelsItem(t, "cancelReclaim", "cancelled")
    <2> DEFINE x == Tx("cancelItem", tab[t].pool.cursor, None, FALSE)
    <2>1. \E pc : pc \notin Special /\ Sends(t, x, [tab[t] EXCEPT !.pc = pc])
      BY <1>3 DEF CancelsItem, Special
    <2>2. Carries(x, P)
      BY SimpleCarries
    <2> HIDE DEF x
    <2>3. QED
      BY <1>1, <2>1, <2>2, WritesWork
  <1>4. CASE Closes(t, "closeEmpty") \/ CancelsBundle(t)
    <2>1. \E op \in {"close", "cancelBundle"} : \E pc :
            pc \notin Special /\ Sends(t, Simple(op), [tab[t] EXCEPT !.pc = pc])
      BY <1>4 DEF Closes, CancelsBundle, Special
    <2>2. \A op \in {"close", "cancelBundle"} : Carries(Simple(op), P)
      BY SimpleCarries
    <2>3. QED
      BY <1>1, <2>1, <2>2, WritesWork
  <1>5. QED
    BY <1>2, <1>3, <1>4

LEMMA TabsWork ==
  ASSUME NEW t \in Tabs, NEW P, IsTask(tab[t]), OfDraft(tab[t], P), Fund(t) \/ Cancel(t)
  PROVE  tab[t].pc # "idle" /\ (Works(t, P) \/ Finishes(t))
  <1>1. tab[t].pc # "idle"
    BY DEF Fund, Cancel, ReadBundle, AddsBundle, ReadPool, CreatesPool, CheckItem, Resolve,
           ReadPrepared, Prepares, Reread, ResolveAgain, Deposits, ReadDeposited, Seals,
           Activates, ReadStaged, ReadPartial, CancelsItem, ReadUnprepared, Closes,
           CancelsBundle, ReadReclaim, ReadCancelled, Validate, NextTail, ReadItem, Reclaims,
           ReadReclaimed, At
  <1>2. QED
    BY <1>1, FundReads, FundChecks, FundWrites, CancelReads, CancelWrites DEF Fund, Cancel

-----------------------------------------------------------------------------
(* What clients send keeps the pool sound.                                 *)

LEMMA TabKeeps ==
  ASSUME Clients, NEW t \in Tabs, NEW P \in asked', NEW next,
         IsTask(next), OfDraft(next, P), tab' = [tab EXCEPT ![t] = next],
         asked \subseteq asked', asked' \subseteq [1 .. Quantity -> Leaves \X BOOLEAN],
         saved' = None \/ saved' \in asked',
         count' \in [drafts : Nat, toggles : Nat, faults : Nat, lates : Nat],
         \A x \in late' : \E Q \in asked' : Carries(x, Q),
         IInv'
  PROVE  Clients'
  <1>1. DOMAIN tab = Tabs /\ \A u \in Tabs : IsTask(tab[u])
    BY DEF Clients, TasksTyped
  <1>2. tab'[t] = next /\ \A u \in Tabs : u # t => tab'[u] = tab[u]
    BY <1>1
  <1>3. DOMAIN tab' = Tabs /\ \A u \in Tabs : IsTask(tab'[u])
    BY <1>1, <1>2
  <1>4. ASSUME NEW u \in Tabs
        PROVE  tab'[u].pc = "idle" \/ \E Q \in asked' : OfDraft(tab'[u], Q)
    <2>1. CASE u = t
      BY <1>2, <2>1
    <2>2. CASE u # t
      <3>1. tab[u].pc = "idle" \/ \E Q \in asked : OfDraft(tab[u], Q)
        BY DEF Clients, Drafted
      <3>2. QED
        BY <1>2, <2>2, <3>1
    <2>3. QED
      BY <2>1, <2>2
  <1>5. TasksTyped'
    BY <1>3 DEF TasksTyped, IsTask
  <1>6. Drafted'
    BY <1>4 DEF Drafted, OfDraft, Carries
  <1>7. QED
    BY <1>5, <1>6 DEF Clients

\* What there is of a client's state, and of the program's when it is not touched.
LEMMA ClientState ==
  ASSUME Clients
  PROVE  /\ IInv /\ asked \subseteq [1 .. Quantity -> Leaves \X BOOLEAN]
         /\ saved = None \/ saved \in asked
         /\ count \in [drafts : Nat, toggles : Nat, faults : Nat, lates : Nat]
         /\ \A x \in late : \E Q \in asked : Carries(x, Q)
         /\ UNCHANGED vars => IInv'
  BY StepInvariant DEF Clients, TasksTyped, Drafted

LEMMA WorksKeeps ==
  ASSUME Clients, NEW t \in Tabs, NEW P \in asked, Works(t, P)
  PROVE  Clients'
  <1>1. PICK next : /\ IsTask(next) /\ OfDraft(next, P)
                    /\ Goes(t, next) \/ \E x : Carries(x, P) /\ Sends(t, x, next)
    BY DEF Works
  <1>2. CASE Goes(t, next)
    BY <1>1, <1>2, ClientState, TabKeeps DEF Goes
  <1>3. ASSUME NEW x, Carries(x, P), Sends(t, x, next)
        PROVE  Clients'
    <2>1. CASE Executes(x) /\ tab' = [tab EXCEPT ![t] = next]
               /\ UNCHANGED <<saved, late, asked, count>>
      <3>1. P \in [1 .. Quantity -> Leaves \X BOOLEAN]
        BY ClientState
      <3>2. IInv'
        BY <1>3, <2>1, <3>1, ClientState, ExecutesKeeps
      <3>3. QED
        BY <1>1, <2>1, <3>2, ClientState, TabKeeps
    <2>2. CASE tab' = [tab EXCEPT ![t] = NoTask] /\ UNCHANGED <<vars, saved, late, asked, count>>
      BY <2>2, IdleTask, ClientState, TabKeeps
    <2>3. CASE /\ count' = [count EXCEPT !.lates = @ + 1]
               /\ late' = late \union {x}
               /\ tab' = [tab EXCEPT ![t] = NoTask]
               /\ UNCHANGED <<vars, saved, asked>>
      <3>1. count' \in [drafts : Nat, toggles : Nat, faults : Nat, lates : Nat]
        BY <2>3, ClientState
      <3>2. \A y \in late' : \E Q \in asked' : Carries(y, Q)
        BY <1>3, <2>3, ClientState
      <3>3. QED
        BY <2>3, <3>1, <3>2, IdleTask, ClientState, TabKeeps
    <2>4. QED
      BY <1>3, <2>1, <2>2, <2>3 DEF Sends
  <1>4. QED
    BY <1>1, <1>2, <1>3

LEMMA NewPlan ==
  ASSUME IInv, NEW p \in Plans
  PROVE  WithFlags(p) \in [1 .. Quantity -> Leaves \X BOOLEAN]
  <1>1. \A l \in Leaves : flag[l] \in BOOLEAN
    BY Phases DEF TypeOK
  <1>2. QED
    BY <1>1 DEF Plans, WithFlags

LEMMA StartsKeep ==
  ASSUME Clients, NEW t \in Tabs, Begin(t) \/ BeginCancel(t)
  PROVE  Clients'
  <1>1. CASE /\ count' = [count EXCEPT !.drafts = @ + 1] /\ UNCHANGED <<vars, late>>
             /\ \E p \in Plans :
                  /\ saved' = WithFlags(p)
                  /\ asked' = asked \union {WithFlags(p)}
                  /\ tab' = [tab EXCEPT ![t] =
                               [NoTask EXCEPT !.pc = "bundle", !.plan = WithFlags(p)]]
    <2>1. PICK p \in Plans :
            /\ saved' = WithFlags(p)
            /\ asked' = asked \union {WithFlags(p)}
            /\ tab' = [tab EXCEPT ![t] = [NoTask EXCEPT !.pc = "bundle", !.plan = WithFlags(p)]]
      BY <1>1
    <2>2. PICK P : P = WithFlags(p)
      OBVIOUS
    <2> DEFINE next == [NoTask EXCEPT !.pc = "bundle", !.plan = P]
    <2>3. P \in [1 .. Quantity -> Leaves \X BOOLEAN]
      BY <2>2, NewPlan, ClientState
    <2>4. IsTask(next) /\ OfDraft(next, P) /\ tab' = [tab EXCEPT ![t] = next]
      BY <2>1, <2>2 DEF NoTask, IsTask, OfDraft
    <2>5. count' \in [drafts : Nat, toggles : Nat, faults : Nat, lates : Nat]
      BY <1>1, ClientState
    <2> HIDE DEF next
    <2>6. /\ P \in asked' /\ asked \subseteq asked' /\ saved' \in asked'
          /\ asked' \subseteq [1 .. Quantity -> Leaves \X BOOLEAN]
      BY <2>1, <2>2, <2>3, ClientState
    <2>7. IInv' /\ \A x \in late' : \E Q \in asked' : Carries(x, Q)
      BY <1>1, <2>6, ClientState
    <2>8. QED
      BY <2>4, <2>5, <2>6, <2>7, TabKeeps
  <1>2. CASE /\ saved # None /\ UNCHANGED <<vars, saved, late, asked, count>>
             /\ \E pc \in {"bundle", "staged"} :
                  tab' = [tab EXCEPT ![t] = [NoTask EXCEPT !.pc = pc, !.plan = saved]]
    <2>1. PICK pc \in {"bundle", "staged"} :
            tab' = [tab EXCEPT ![t] = [NoTask EXCEPT !.pc = pc, !.plan = saved]]
      BY <1>2
    <2> DEFINE next == [NoTask EXCEPT !.pc = pc, !.plan = saved]
    <2>2. IsTask(next) /\ next.pc = pc /\ next.plan = saved /\ tab' = [tab EXCEPT ![t] = next]
      BY <2>1 DEF NoTask, IsTask
    <2> HIDE DEF next
    <2>3. OfDraft(next, saved) /\ saved \in asked'
      BY <1>2, <2>2, ClientState DEF OfDraft
    <2>4. QED
      BY <1>2, <2>2, <2>3, ClientState, TabKeeps
  <1>3. QED
    BY <1>1, <1>2 DEF Begin, BeginCancel

\* The tabs go on as they are.
LEMMA TabsStay ==
  ASSUME Clients, UNCHANGED <<tab, saved, asked>>, late' \subseteq late, IInv',
         count' \in [drafts : Nat, toggles : Nat, faults : Nat, lates : Nat]
  PROVE  Clients'
  BY DEF Clients, TasksTyped, IsTask, Drafted, OfDraft, Carries

LEMMA ClientsKeep ==
  ASSUME Clients, FundingNext
  PROVE  Clients'
  <1>1. ASSUME NEW t \in Tabs, Fund(t) \/ Cancel(t) PROVE Clients'
    <2>1. IsTask(tab[t])
      BY DEF Clients, TasksTyped
    <2>2. CASE \E P \in asked : OfDraft(tab[t], P)
      <3>1. PICK P \in asked : OfDraft(tab[t], P)
        BY <2>2
      <3>2. CASE Works(t, P)
        BY <3>1, <3>2, WorksKeeps
      <3>3. CASE Finishes(t)
        BY <3>1, <3>3, IdleTask, ClientState, TabKeeps DEF Finishes
      <3>4. QED
        BY <1>1, <2>1, <3>1, <3>2, <3>3, TabsWork
    <2>3. CASE tab[t].pc = "idle"
      <3>1. \A P : OfDraft(tab[t], P)
        BY <2>3 DEF OfDraft
      <3>2. QED
        BY <1>1, <2>1, <2>3, <3>1, TabsWork
    <2>4. QED
      BY <2>2, <2>3 DEF Clients, Drafted
  <1>2. ASSUME NEW t \in Tabs, Stops(t) PROVE Clients'
    <2>1. /\ count' = [count EXCEPT !.faults = @ + 1] /\ tab' = [tab EXCEPT ![t] = NoTask]
          /\ UNCHANGED <<vars, saved, late, asked>> /\ tab[t].pc # "idle"
      BY <1>2 DEF Stops, At
    <2>2. count' \in [drafts : Nat, toggles : Nat, faults : Nat, lates : Nat]
      BY <2>1, ClientState
    <2>3. PICK P \in asked : OfDraft(tab[t], P)
      BY <2>1 DEF Clients, Drafted
    <2>4. QED
      BY <2>1, <2>2, <2>3, IdleTask, ClientState, TabKeeps
  <1>3. ASSUME NEW x \in late, LandsLate(x) \/ Expires(x) PROVE Clients'
    <2>1. /\ late' = late \ {x} /\ UNCHANGED <<tab, saved, asked, count>>
          /\ Executes(x) \/ UNCHANGED vars
      BY <1>3 DEF LandsLate, Expires
    <2>2. PICK P \in asked : Carries(x, P)
      BY ClientState
    <2>3. IInv'
      BY <2>1, <2>2, ClientState, ExecutesKeeps
    <2>4. QED
      BY <2>1, <2>3, ClientState, TabsStay
  <1>4. ASSUME NEW l \in Leaves, Toggles(l) PROVE Clients'
    <2>1. /\ ToggleFlag(l) /\ count' = [count EXCEPT !.toggles = @ + 1]
          /\ UNCHANGED <<tab, saved, late, asked>>
      BY <1>4 DEF Toggles
    <2>2. IInv'
      BY <2>1, ClientState, StepInvariant DEF Next, Tree
    <2>3. count' \in [drafts : Nat, toggles : Nat, faults : Nat, lates : Nat]
      BY <2>1, ClientState
    <2>4. QED
      BY <2>1, <2>2, <2>3, TabsStay
  <1>5. QED
    BY <1>1, <1>2, <1>3, <1>4, StartsKeep DEF FundingNext

LEMMA ClientsBegin == FundingInit => Clients
  <1> SUFFICES ASSUME FundingInit PROVE Clients
    OBVIOUS
  <1>1. /\ tab = [t \in Tabs |-> NoTask] /\ saved = None /\ late = {} /\ asked = {}
        /\ IInv
    BY InitInvariant DEF FundingInit
  <1>2. count \in [drafts : Nat, toggles : Nat, faults : Nat, lates : Nat]
    BY DEF FundingInit
  <1>3. TasksTyped
    BY <1>1, <1>2, IdleTask DEF TasksTyped
  <1>4. Drafted
    BY <1>1, IdleTask DEF Drafted
  <1>5. QED
    BY <1>1, <1>3, <1>4 DEF Clients

LEMMA ClientsStep == Clients /\ [SceneNext]_<<scene, allVars>> => Clients'
  <1> SUFFICES ASSUME Clients, [SceneNext]_<<scene, allVars>> PROVE Clients'
    OBVIOUS
  <1>1. CASE FundingNext
    BY <1>1, ClientsKeep
  <1>2. CASE [Next]_vars /\ UNCHANGED <<tab, saved, late, asked, count>>
    BY <1>2, ClientState, StepInvariant, TabsStay
  <1>3. QED
    BY <1>1, <1>2 DEF SceneNext, allVars

\* A pool stays sound whatever clients send: in any number of tabs, from drafts that
\* are begun, stopped, taken up again and cancelled, with transactions that are refused
\* or land late (client.ts, templates/prize_pool.rs).
THEOREM FundedPoolsSound == SceneSpec => []PoolSound
  <1>1. SceneInit => Clients
    BY ClientsBegin DEF SceneInit
  <1>2. Clients => PoolSound
    BY SoundFromInvariant DEF Clients
  <1>3. QED
    BY <1>1, <1>2, ClientsStep, PTL DEF SceneSpec

-----------------------------------------------------------------------------
(* One draft.                                                              *)

\* Everything that happens to the pool follows one draft: there is only one, or the
\* one tab that works awaits every transaction.
Single == scene = "tabs" \/ MaxDrafts <= 1

OneTab == late = {} /\ \A t \in Tabs : t # t1 => tab[t].pc = "idle"

\* What is in the pool is of the draft, and so is what is sealed.
Holding(P) ==
  /\ \A i \in Index : item[i] # None => <<item[i].leaf, item[i].verified>> = P[i + 1]
  /\ bundle.funded /\ bundle.reserved => bundle.commitment = P
  /\ bundle.status = "active" => bundle.commitment = P

UnderWay(P) ==
  /\ saved \in {None, P}
  /\ \A t \in Tabs : OfDraft(tab[t], P)
  /\ \A x \in late : Carries(x, P)
  /\ Holding(P)
  /\ IF Single THEN count.drafts >= 1
     ELSE saved = None => bundle.status = "active" /\ \A t \in Tabs : tab[t].pc = "idle"

NotBegun ==
  /\ saved = None /\ late = {} /\ bundle.status = "none"
  /\ \A t \in Tabs : tab[t].pc = "idle"

FromOneDraft == (Single \/ OneTab) /\ (NotBegun \/ \E P \in asked : UnderWay(P))

Funding == Clients /\ FromOneDraft

LEMMA SealedHolds ==
  ASSUME IInv, NEW P \in [1 .. Quantity -> Leaves \X BOOLEAN], Holding(P), SealPrizePool
  PROVE  pool.manifest = P
  <1>1. /\ pool # None /\ pool.status = "funding" /\ pool.cursor = Quantity
    BY DEF SealPrizePool
  <1>2. /\ pool.manifest \in Seq(Leaves \X BOOLEAN) /\ Len(pool.manifest) = Quantity
        /\ \A i \in Index : Stacked(i)
    BY <1>1, FillingState DEF Manifests
  <1>3. ASSUME NEW k \in 1 .. Quantity
        PROVE  pool.manifest[k] = P[k]
    <2>1. k - 1 \in Index /\ k - 1 < pool.cursor /\ (k - 1) + 1 = k
      BY <1>1, PoolAssumption DEF Index
    <2>2. /\ item[k - 1] # None
          /\ pool.manifest[k] = <<item[k - 1].leaf, item[k - 1].verified>>
      BY <1>2, <2>1 DEF Stacked
    <2>3. QED
      BY <2>1, <2>2 DEF Holding
  <1>4. QED
    BY <1>2, <1>3, PoolAssumption

\* An item is of the draft when it was, or is made of what the transaction carries.
LEMMA ItemsKeep ==
  ASSUME NEW P, Holding(P),
         \A i \in Index : item'[i] # None =>
           \/ <<item'[i].leaf, item'[i].verified>> = P[i + 1]
           \/ /\ item[i] # None /\ item'[i].leaf = item[i].leaf
              /\ item'[i].verified = item[i].verified,
         bundle'.funded /\ bundle'.reserved => bundle'.commitment = P,
         bundle'.status = "active" => bundle'.commitment = P
  PROVE  Holding(P)'
  BY DEF Holding

LEMMA HoldingKeeps ==
  ASSUME IInv, NEW P \in [1 .. Quantity -> Leaves \X BOOLEAN], NEW x,
         Carries(x, P), Holding(P), Executes(x)
  PROVE  Holding(P)'
  <1>1. /\ TypeOK /\ bundle \in BundleType
        /\ bundle.status = "active" => bundle.commitment = P
        /\ bundle.funded /\ bundle.reserved => bundle.commitment = P
    BY Phases, TypedBundle DEF Holding
  <1>2. item \in [Index -> ItemType \cup {None}]
    BY <1>1 DEF TypeOK
  <1>3. CASE x.op = "prepare" /\ pool # None /\ pool.cursor = x.index
             /\ PreparePrizePoolItem(x.leaf, x.flag)
    <2>1. pool.cursor \in Nat /\ pool.cursor < Quantity
      BY <1>3, Phases, TypedPool DEF PreparePrizePoolItem
    <2>2. P[x.index + 1] \in Leaves \X BOOLEAN
      BY <1>3, <2>1, PoolAssumption
    <2>3. <<x.leaf, x.flag>> = P[x.index + 1]
      BY <1>3, <2>2 DEF Carries
    <2>4. \A i \in Index : item'[i] # None =>
            \/ <<item'[i].leaf, item'[i].verified>> = P[i + 1]
            \/ item'[i] = item[i]
      BY <1>2, <1>3, <2>3 DEF PreparePrizePoolItem
    <2>5. UNCHANGED bundle
      BY <1>3 DEF PreparePrizePoolItem
    <2>6. QED
      BY <1>1, <2>4, <2>5, ItemsKeep
  <1>4. CASE pool # None /\ DepositPrizePoolItem(x.leaf, x.flag)
    <2> DEFINE c == pool.cursor
               filled == [item[c] EXCEPT !.status = "deposited", !.before = pool.manifest]
    <2>1. pool.status = "funding" /\ pool.prepared /\ UNCHANGED bundle
      BY <1>4 DEF DepositPrizePoolItem
    <2>2. c \in Index /\ item[c] # None
      BY <1>4, <2>1, FillingState DEF Stacked
    <2>3. item[c] \in ItemType
      BY <1>2, <2>2
    <2>4. filled.leaf = item[c].leaf /\ filled.verified = item[c].verified
      BY <2>3 DEF ItemType
    <2>5. item'[c] = filled /\ \A i \in Index : i # c => item'[i] = item[i]
      BY <1>2, <1>4, <2>2 DEF DepositPrizePoolItem
    <2> HIDE DEF filled
    <2>6. \A i \in Index : item'[i] # None =>
            item[i] # None /\ item'[i].leaf = item[i].leaf /\ item'[i].verified = item[i].verified
      BY <2>2, <2>4, <2>5
    <2>7. QED
      BY <1>1, <2>1, <2>6, ItemsKeep
  <1>5. CASE CancelPrizePoolItem
    <2>1. UNCHANGED bundle /\ \A i \in Index : item'[i] = None \/ item'[i] = item[i]
      BY <1>2, <1>5 DEF CancelPrizePoolItem
    <2>2. QED
      BY <1>1, <2>1, ItemsKeep
  <1>6. CASE ReclaimUnfinished(x.index) \/ ReclaimSealed(x.index)
    <2>1. \A i \in Index : item'[i] = None \/ item'[i] = item[i]
      BY <1>2, <1>6 DEF ReclaimUnfinished, ReclaimSealed, GiveBack
    <2>2. /\ bundle'.funded = bundle.funded /\ bundle'.reserved = bundle.reserved
          /\ bundle'.commitment = bundle.commitment /\ bundle'.status = bundle.status
      BY <1>1, <1>6 DEF ReclaimUnfinished, ReclaimSealed, BundleType
    <2>3. QED
      BY <1>1, <2>1, <2>2, ItemsKeep
  <1>7. CASE ClosePrizePool
    <2>1. CASE UNCHANGED bundle
      BY <1>1, <1>7, <2>1, ItemsKeep DEF ClosePrizePool
    <2>2. CASE /\ EmptyUnsealed \/ RecoveredSealed
               /\ bundle' = [bundle EXCEPT !.reserved = FALSE, !.commitment = None]
      <3>1. bundle.status = "funding"
        BY <1>7, <2>2, FillingState DEF ClosePrizePool, EmptyUnsealed, RecoveredSealed
      <3>2. bundle'.reserved = FALSE /\ bundle'.status = "funding"
        BY <1>1, <2>2, <3>1 DEF BundleType
      <3>3. UNCHANGED item
        BY <1>7 DEF ClosePrizePool
      <3>4. QED
        BY <1>1, <3>2, <3>3, ItemsKeep
    <2>3. QED
      BY <1>7, <2>1, <2>2 DEF ClosePrizePool
  <1>8. CASE SealPrizePool
    <2>1. bundle'.commitment = P /\ UNCHANGED item
      BY <1>1, <1>8, SealedHolds DEF SealPrizePool, BundleType
    <2>2. QED
      BY <1>1, <2>1, ItemsKeep
  <1>9. CASE ActivateBundle
    <2>1. bundle.funded /\ ~bundle.reclaimed /\ bundle.status = "funding"
      BY <1>9 DEF ActivateBundle
    <2>2. bundle.reserved
      BY <2>1, Phases DEF Closed
    <2>3. bundle'.commitment = P /\ UNCHANGED item
      BY <1>1, <1>9, <2>1, <2>2 DEF ActivateBundle, BundleType
    <2>4. QED
      BY <1>1, <2>3, ItemsKeep
  <1>10. CASE AddBundle \/ CancelBundle
    <2>1. /\ bundle'.funded = FALSE /\ bundle'.status # "active" /\ UNCHANGED item
      BY <1>10 DEF AddBundle, CancelBundle, NoBundle
    <2>2. QED
      BY <1>1, <2>1, ItemsKeep
  <1>11. CASE CreatePrizePool
    <2>1. /\ bundle'.funded = FALSE /\ bundle'.status = "funding" /\ UNCHANGED item
      BY <1>1, <1>11 DEF CreatePrizePool, BundleType
    <2>2. QED
      BY <1>1, <2>1, ItemsKeep
  <1>12. QED
    BY <1>3, <1>4, <1>5, <1>6, <1>7, <1>8, <1>9, <1>10, <1>11 DEF Executes

\* What is so of the draft that is under way.
LEMMA AtWork ==
  ASSUME Funding, NEW t \in Tabs, tab[t].pc # "idle"
  PROVE  /\ \E P \in asked : UnderWay(P)
         /\ ~Single => t = t1 /\ late = {} /\ saved # None /\ OneTab
  BY DEF Funding, FromOneDraft, OneTab, NotBegun, UnderWay

LEMMA FundingState ==
  ASSUME Funding
  PROVE  /\ Clients /\ IInv /\ DOMAIN tab = Tabs /\ (Single \/ OneTab)
         /\ asked \subseteq [1 .. Quantity -> Leaves \X BOOLEAN]
         /\ count \in [drafts : Nat, toggles : Nat, faults : Nat, lates : Nat]
         /\ \A P : UnderWay(P) /\ UNCHANGED vars => Holding(P)'
  BY DEF Funding, FromOneDraft, Clients, TasksTyped, Drafted, UnderWay, vars, Holding

\* A tab at work goes on, with its task or without it, and the draft stays.
LEMMA TabStays ==
  ASSUME Funding, Clients', NEW t \in Tabs, tab[t].pc # "idle",
         NEW P \in asked, UnderWay(P), NEW next, OfDraft(next, P),
         tab' = [tab EXCEPT ![t] = next], UNCHANGED <<scene, saved, asked>>,
         count'.drafts = count.drafts,
         \A x \in late' : Carries(x, P), ~Single => late' = {}, Holding(P)'
  PROVE  Funding'
  <1>1. tab'[t] = next /\ \A u \in Tabs : u # t => tab'[u] = tab[u]
    BY FundingState
  <1>2. Single' <=> Single
    BY DEF Single
  <1>3. ~Single => t = t1 /\ saved # None /\ OneTab
    BY AtWork
  <1>4. (Single \/ OneTab)'
    BY <1>1, <1>2, <1>3 DEF OneTab
  <1>5. \A u \in Tabs : OfDraft(tab'[u], P)
    BY <1>1 DEF UnderWay
  <1>6. UnderWay(P)'
    BY <1>2, <1>3, <1>5 DEF UnderWay
  <1>7. QED
    BY <1>4, <1>6 DEF Funding, FromOneDraft

LEMMA WorksStays ==
  ASSUME MaxLate = 0 \/ MaxDrafts <= 1,
         Funding, Clients', UNCHANGED scene, NEW t \in Tabs, tab[t].pc # "idle",
         NEW P \in asked, UnderWay(P), Works(t, P)
  PROVE  Funding'
  <1>1. PICK next : /\ IsTask(next) /\ OfDraft(next, P)
                    /\ Goes(t, next) \/ \E x : Carries(x, P) /\ Sends(t, x, next)
    BY DEF Works
  <1>2. \A x \in late : Carries(x, P)
    BY DEF UnderWay
  <1>3. ~Single => late = {}
    BY AtWork
  <1>4. CASE Goes(t, next)
    BY <1>1, <1>2, <1>3, <1>4, FundingState, TabStays DEF Goes
  <1>5. ASSUME NEW x, Carries(x, P), Sends(t, x, next)
        PROVE  Funding'
    <2>1. CASE Executes(x) /\ tab' = [tab EXCEPT ![t] = next]
               /\ UNCHANGED <<saved, late, asked, count>>
      <3>1. P \in [1 .. Quantity -> Leaves \X BOOLEAN] /\ Holding(P) /\ IInv
        BY FundingState DEF UnderWay
      <3>2. Holding(P)'
        BY <1>5, <2>1, <3>1, HoldingKeeps
      <3>3. QED
        BY <1>1, <1>2, <1>3, <2>1, <3>2, TabStays
    <2>2. CASE tab' = [tab EXCEPT ![t] = NoTask] /\ UNCHANGED <<vars, saved, late, asked, count>>
      BY <1>2, <1>3, <2>2, IdleTask, FundingState, TabStays
    <2>3. CASE /\ count.lates < MaxLate
               /\ count' = [count EXCEPT !.lates = @ + 1]
               /\ late' = late \union {x}
               /\ tab' = [tab EXCEPT ![t] = NoTask]
               /\ UNCHANGED <<vars, saved, asked>>
      <3>1. count'.drafts = count.drafts /\ count.lates \in Nat
        BY <2>3, FundingState
      <3>2. Single
        BY <2>3, <3>1 DEF Single
      <3>3. \A y \in late' : Carries(y, P)
        BY <1>2, <1>5, <2>3
      <3>4. QED
        BY <2>3, <3>1, <3>2, <3>3, IdleTask, FundingState, TabStays
    <2>4. QED
      BY <1>5, <2>1, <2>2, <2>3 DEF Sends
  <1>6. QED
    BY <1>1, <1>4, <1>5

\* A draft that is done with leaves nothing, or a live bundle.
LEMMA FinishesStays ==
  ASSUME Funding, Clients', UNCHANGED scene, NEW t \in Tabs, tab[t].pc # "idle", Finishes(t)
  PROVE  Funding'
  <1>1. PICK P \in asked : UnderWay(P)
    BY AtWork
  <1>2. /\ UNCHANGED <<bundle, late, asked, count>> /\ saved' = None
        /\ bundle.status \in {"none", "active"} /\ Holding(P)'
    BY <1>1, FundingState DEF Finishes, vars
  <1>3. tab'[t] = NoTask /\ \A u \in Tabs : u # t => tab'[u] = tab[u]
    BY FundingState DEF Finishes
  <1>4. Single' <=> Single
    BY DEF Single
  <1>5. ~Single => t = t1 /\ late = {} /\ OneTab
    BY AtWork
  <1>6. (Single \/ OneTab)' /\ (~Single => \A u \in Tabs : tab'[u].pc = "idle")
    BY <1>2, <1>3, <1>4, <1>5, IdleTask DEF OneTab
  <1>7. \A u \in Tabs : OfDraft(tab'[u], P)
    BY <1>1, <1>3, IdleTask DEF UnderWay
  <1>8. CASE Single \/ bundle.status = "active"
    <2>1. UnderWay(P)'
      BY <1>1, <1>2, <1>4, <1>6, <1>7, <1>8 DEF UnderWay
    <2>2. QED
      BY <1>1, <1>2, <1>6, <2>1 DEF Funding, FromOneDraft
  <1>9. CASE ~Single /\ bundle.status = "none"
    <2>1. NotBegun'
      BY <1>2, <1>5, <1>6, <1>9 DEF NotBegun
    <2>2. QED
      BY <1>6, <2>1 DEF Funding, FromOneDraft
  <1>10. QED
    BY <1>2, <1>8, <1>9

\* A saved draft is the one that is under way, and an idle tab takes it up.
LEMMA ResumesStays ==
  ASSUME Funding, Clients', UNCHANGED scene, NEW t \in Tabs, Single \/ t = t1, saved # None,
         NEW pc \in {"bundle", "staged"},
         tab' = [tab EXCEPT ![t] = [NoTask EXCEPT !.pc = pc, !.plan = saved]],
         UNCHANGED <<vars, saved, late, asked, count>>
  PROVE  Funding'
  <1>1. saved \in asked /\ UnderWay(saved)
    BY DEF Funding, FromOneDraft, NotBegun, UnderWay
  <1> DEFINE next == [NoTask EXCEPT !.pc = pc, !.plan = saved]
  <1>2. next.pc = pc /\ next.plan = saved /\ tab' = [tab EXCEPT ![t] = next]
    BY DEF NoTask
  <1> HIDE DEF next
  <1>3. OfDraft(next, saved)
    BY <1>2 DEF OfDraft
  <1>4. tab'[t] = next /\ \A u \in Tabs : u # t => tab'[u] = tab[u]
    BY <1>2, FundingState
  <1>5. Single' <=> Single
    BY DEF Single
  <1>6. (Single \/ OneTab)'
    BY <1>4, <1>5, FundingState DEF OneTab
  <1>7. \A u \in Tabs : OfDraft(tab'[u], saved)
    BY <1>1, <1>3, <1>4 DEF UnderWay
  <1>8. Holding(saved)' /\ saved' = saved
    BY <1>1, FundingState
  <1>9. PICK P : P = saved
    OBVIOUS
  <1>10. UnderWay(P)'
    BY <1>1, <1>5, <1>7, <1>8, <1>9 DEF UnderWay, Holding
  <1>11. QED
    BY <1>1, <1>6, <1>9, <1>10 DEF Funding, FromOneDraft

\* A new draft is begun when nothing was, and finds nothing in the pool.
LEMMA BeginsStays ==
  ASSUME Funding, Clients', UNCHANGED scene, NEW t \in Tabs, Single \/ t = t1,
         saved = None, count.drafts < MaxDrafts, bundle.status # "active",
         scene = "tabs" => count'.drafts <= 1,
         count' = [count EXCEPT !.drafts = @ + 1], NEW p \in Plans,
         saved' = WithFlags(p), asked' = asked \union {WithFlags(p)},
         tab' = [tab EXCEPT ![t] = [NoTask EXCEPT !.pc = "bundle", !.plan = WithFlags(p)]],
         UNCHANGED <<vars, late>>
  PROVE  Funding'
  <1>1. PICK P : P = WithFlags(p)
    OBVIOUS
  <1> DEFINE next == [NoTask EXCEPT !.pc = "bundle", !.plan = P]
  <1>2. count'.drafts = count.drafts + 1 /\ count'.drafts >= 1 /\ count.drafts \in Nat
    BY FundingState
  <1>3. Single' <=> Single
    BY DEF Single
  <1>4. NotBegun
    <2> SUFFICES ASSUME NEW Q \in asked, UnderWay(Q) PROVE FALSE
      BY DEF Funding, FromOneDraft
    <2>1. Single /\ count.drafts >= 1
      BY DEF UnderWay
    <2>2. QED
      BY <1>2, <2>1, FundingAssumption DEF Single
  <1>5. P # None
    BY <1>1, NewPlan, FundingState, FundingAssumption
  <1>6. next.pc = "bundle" /\ next.plan = P /\ tab' = [tab EXCEPT ![t] = next]
    BY <1>1 DEF NoTask
  <1> HIDE DEF next
  <1>7. tab'[t] = next /\ \A u \in Tabs : u # t => tab'[u] = tab[u]
    BY <1>6, FundingState
  <1>8. (Single \/ OneTab)'
    BY <1>3, <1>4, <1>7 DEF NotBegun, OneTab
  <1>9. Holding(P)'
    <2>1. (\A i \in Index : item[i] = None) /\ ~bundle.reserved
      BY <1>4, FundingState, Phases DEF NotBegun, IInv, Placed, Closed
    <2>2. QED
      BY <1>4, <2>1 DEF Holding, NotBegun, vars
  <1>10. \A u \in Tabs : OfDraft(tab'[u], P)
    BY <1>4, <1>6, <1>7 DEF NotBegun, OfDraft
  <1>11. UnderWay(P)'
    BY <1>1, <1>2, <1>3, <1>4, <1>5, <1>9, <1>10 DEF UnderWay, NotBegun
  <1>12. P \in asked'
    BY <1>1
  <1>13. QED
    BY <1>8, <1>11, <1>12 DEF Funding, FromOneDraft

\* The tabs are as they were: a transaction lands late or expires, or a flag toggles.
LEMMA AroundTabs ==
  ASSUME Funding, Clients', UNCHANGED <<scene, tab, saved, asked>>, late' \subseteq late,
         count'.drafts = count.drafts,
         NotBegun \/ ~Single => UNCHANGED bundle,
         \A P \in asked : UnderWay(P) => Holding(P)'
  PROVE  Funding'
  <1>1. Single' <=> Single
    BY DEF Single
  <1>2. (Single \/ OneTab)'
    BY <1>1 DEF Funding, FromOneDraft, OneTab
  <1>3. CASE NotBegun
    <2>1. NotBegun'
      BY <1>3 DEF NotBegun
    <2>2. QED
      BY <1>2, <2>1 DEF Funding, FromOneDraft
  <1>4. ASSUME NEW P \in asked, UnderWay(P) PROVE Funding'
    <2>1. UnderWay(P)'
      BY <1>1, <1>4 DEF UnderWay
    <2>2. QED
      BY <1>2, <1>4, <2>1 DEF Funding, FromOneDraft
  <1>5. QED
    BY <1>3, <1>4 DEF Funding, FromOneDraft

LEMMA LandsStays ==
  ASSUME Funding, Clients', UNCHANGED scene, NEW x \in late, LandsLate(x) \/ Expires(x)
  PROVE  Funding'
  <1>1. /\ late' = late \ {x} /\ UNCHANGED <<tab, saved, asked, count>>
        /\ Executes(x) \/ UNCHANGED vars
    BY DEF LandsLate, Expires
  <1>2. Single /\ ~NotBegun
    BY DEF Funding, FromOneDraft, OneTab, NotBegun
  <1>3. ASSUME NEW P \in asked, UnderWay(P) PROVE Holding(P)'
    <2>1. P \in [1 .. Quantity -> Leaves \X BOOLEAN] /\ Carries(x, P) /\ Holding(P) /\ IInv
      BY <1>3, FundingState DEF UnderWay
    <2>2. QED
      BY <1>1, <1>3, <2>1, HoldingKeeps, FundingState
  <1>4. late' \subseteq late /\ count'.drafts = count.drafts
    BY <1>1
  <1>5. QED
    BY <1>1, <1>2, <1>3, <1>4, AroundTabs

LEMMA TogglesStays ==
  ASSUME Funding, Clients', UNCHANGED scene, NEW l \in Leaves, Toggles(l)
  PROVE  Funding'
  <1>1. /\ count' = [count EXCEPT !.toggles = @ + 1]
        /\ UNCHANGED <<tab, saved, late, asked>> /\ UNCHANGED <<bundle, item>>
    BY DEF Toggles, ToggleFlag
  <1>2. count'.drafts = count.drafts
    BY <1>1, FundingState
  <1>3. \A P \in asked : UnderWay(P) => Holding(P)'
    BY <1>1 DEF UnderWay, Holding
  <1>4. late' \subseteq late
    BY <1>1
  <1>5. QED
    BY <1>1, <1>2, <1>3, <1>4, AroundTabs

LEMMA FundingKeeps ==
  ASSUME MaxLate = 0 \/ MaxDrafts <= 1,
         Funding, FundingNext, UNCHANGED scene,
         scene = "tabs" => count'.drafts <= 1,
         scene # "tabs" => \A t \in Tabs \ {t1} : tab'[t] = tab[t]
  PROVE  Funding'
  <1>1. Clients'
    BY FundingState, ClientsKeep
  <1>2. ASSUME NEW t \in Tabs, Fund(t) \/ Cancel(t) PROVE Funding'
    <2>1. IsTask(tab[t])
      BY FundingState DEF Clients, TasksTyped
    <2>2. tab[t].pc # "idle"
      <3>1. tab[t].pc = "idle" => \A P : OfDraft(tab[t], P)
        BY DEF OfDraft
      <3>2. QED
        BY <1>2, <2>1, <3>1, TabsWork
    <2>3. PICK P \in asked : UnderWay(P)
      BY <2>2, AtWork
    <2>4. Works(t, P) \/ Finishes(t)
      BY <1>2, <2>1, <2>3, TabsWork DEF UnderWay
    <2>5. QED
      BY <1>1, <2>2, <2>3, <2>4, WorksStays, FinishesStays
  <1>3. ASSUME NEW t \in Tabs, Begin(t) \/ BeginCancel(t) PROVE Funding'
    <2>1. tab[t].pc = "idle"
      BY <1>3 DEF Begin, BeginCancel, At
    <2>2. tab'[t].pc # "idle"
      <3>1. \E P, pc : /\ pc \in {"bundle", "staged"}
                       /\ tab' = [tab EXCEPT ![t] = [NoTask EXCEPT !.pc = pc, !.plan = P]]
        BY <1>3 DEF Begin, BeginCancel
      <3>2. PICK P, pc : /\ pc \in {"bundle", "staged"}
                         /\ tab' = [tab EXCEPT ![t] = [NoTask EXCEPT !.pc = pc, !.plan = P]]
        BY <3>1
      <3>3. tab'[t] = [NoTask EXCEPT !.pc = pc, !.plan = P]
        BY <3>2, FundingState
      <3>4. QED
        BY <3>2, <3>3 DEF NoTask
    <2>3. Single \/ t = t1
      BY <2>1, <2>2 DEF Single
    <2>4. CASE saved = None
      BY <1>1, <1>3, <2>3, <2>4, BeginsStays DEF Begin, BeginCancel
    <2>5. CASE saved # None
      BY <1>1, <1>3, <2>3, <2>5, ResumesStays DEF Begin, BeginCancel
    <2>6. QED
      BY <2>4, <2>5
  <1>4. ASSUME NEW t \in Tabs, Stops(t) PROVE Funding'
    <2>1. /\ tab[t].pc # "idle" /\ count' = [count EXCEPT !.faults = @ + 1]
          /\ tab' = [tab EXCEPT ![t] = NoTask] /\ UNCHANGED <<vars, saved, late, asked>>
      BY <1>4 DEF Stops, At
    <2>2. PICK P \in asked : UnderWay(P)
      BY <2>1, AtWork
    <2>3. count'.drafts = count.drafts /\ Holding(P)'
      BY <2>1, <2>2, FundingState
    <2>4. (\A x \in late' : Carries(x, P)) /\ (~Single => late' = {})
      BY <2>1, <2>2, AtWork DEF UnderWay
    <2>5. QED
      BY <1>1, <2>1, <2>2, <2>3, <2>4, IdleTask, TabStays
  <1>5. QED
    BY <1>1, <1>2, <1>3, <1>4, LandsStays, TogglesStays DEF FundingNext

LEMMA FundingBegins == FundingInit => Funding
  <1> SUFFICES ASSUME FundingInit PROVE Funding
    OBVIOUS
  <1>1. \A t \in Tabs : tab[t].pc = "idle"
    BY IdleTask DEF FundingInit
  <1>2. NotBegun /\ OneTab
    BY <1>1 DEF NotBegun, OneTab, FundingInit, Init, NoBundle
  <1>3. QED
    BY <1>2, ClientsBegin DEF Funding, FromOneDraft

\* A bundle only goes live with the leaves of one draft, each at its place and as it
\* was when the draft was begun: of one draft, in any number of tabs that share it and
\* with transactions that land late; and of any number of drafts in one tab, where
\* none lands late. With late ones, or in two tabs, two drafts can be mixed
\* (fundPrizePool, cancelFundingBundle and reclaimPrizePool of client.ts).
THEOREM LiveAlwaysFromOneDraft ==
  ASSUME MaxLate = 0 \/ MaxDrafts <= 1
  PROVE  SceneSpec => []LiveFromOneDraft
  <1> DEFINE J == scene # "program" => Funding
  <1>1. SceneInit => J
    BY FundingBegins DEF SceneInit
  <1>2. J /\ [SceneNext]_<<scene, allVars>> => J'
    <2> SUFFICES ASSUME J, [SceneNext]_<<scene, allVars>>, scene' # "program" PROVE Funding'
      OBVIOUS
    <2>1. UNCHANGED scene
      BY DEF SceneNext
    <2>2. Funding
      BY <2>1
    <2>3. CASE UNCHANGED <<scene, allVars>>
      <3>1. UNCHANGED <<tab, saved, late, asked, count, vars>> /\ UNCHANGED bundle
        BY <2>3 DEF allVars, vars
      <3>2. Clients'
        BY <2>2, <2>3, ClientsStep, FundingState
      <3>3. late' \subseteq late /\ \A P \in asked : UnderWay(P) => Holding(P)'
        BY <2>2, <3>1, FundingState
      <3>4. QED
        BY <2>1, <2>2, <3>1, <3>2, <3>3, AroundTabs
    <2>4. CASE SceneNext
      BY <2>1, <2>2, <2>4, FundingKeeps DEF SceneNext, Retries, OneDraft
    <2>5. QED
      BY <2>3, <2>4
  <1>3. J => LiveFromOneDraft
    BY DEF LiveFromOneDraft, LiveAsPlanned, Funding, FromOneDraft, NotBegun, UnderWay, Holding
  <1> HIDE DEF J
  <1>4. QED
    BY <1>1, <1>2, <1>3, PTL DEF SceneSpec
=============================================================================
