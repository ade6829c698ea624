----------------------------- MODULE PlatformProofs -----------------------------
(***************************************************************************)
(* Theorems about the work the Worker does on a schedule, for every value   *)
(* of its constants.  Cron: the two limits of the relayer keep the senders  *)
(* of two runs apart.  Storage: requests, drafts, pages and the hourly pass *)
(* leave every cover that is referred to in its place.  And about how a     *)
(* treasury is filled (Staging): no prize is lost, what goes live is what    *)
(* was asked for, and a draft is there for as long as it is needed.          *)
(***************************************************************************)
EXTENDS MCPlatform, MCStaging, FiniteSetTheorems, SequenceTheorems, TLAPS

\* The steps of one run, and the faults that stop it.
LEMMA RunSteps ==
  ASSUME NEW r \in Runs, Step(r) \/ Fault(r)
  PROVE  \/ Start(r) \/ Acquire(r) \/ Refused(r) \/ AcquireLost(r)
         \/ ReadCursor(r) \/ ReadPage(r) \/ NextLootbox(r) \/ Finish(r)
         \/ SaveCursor(r) \/ Reserve(r) \/ Send(r) \/ SendRefused(r)
         \/ EndSend(r) \/ EndWalk(r) \/ Throw(r) \/ Release(r) \/ Crash(r)
  BY DEF Step, Fault

LEMMA PagesAreIds ==
  ASSUME TypeOK, NEW n
  PROVE  PageAfter(n) \in SUBSET Ids
  BY DEF TypeOK, PageAfter

LEMMA NextId ==
  ASSUME TypeOK, AddLootbox
  PROVE  lootboxes' \subseteq Ids
  <1>1. IsFiniteSet(Ids)
    BY FS_Interval, LimitsAssumption DEF Ids
  <1>2. IsFiniteSet(lootboxes)
    BY <1>1, FS_Subset DEF TypeOK
  <1> DEFINE n == Cardinality(lootboxes)
  <1>3. n \in Nat
    BY <1>2, FS_CardinalityType
  <1>4. n < MaxId /\ lootboxes' = lootboxes \union {n + 1}
    BY DEF AddLootbox
  <1> HIDE DEF n
  <1>5. n + 1 \in Ids
    BY <1>3, <1>4, LimitsAssumption DEF Ids
  <1>6. QED
    BY <1>4, <1>5 DEF TypeOK

\* What every step of one run leaves as it was, and the types of the rest.
LEMMA PlacesOfARun ==
  ASSUME TypeOK, NEW r \in Runs, NEW place \in Places, Goto(r, place)
  PROVE  pc' \in [Runs -> Places]
  BY DEF TypeOK, Goto

LEMMA EndTypeOK ==
  ASSUME TypeOK, NEW r \in Runs, End(r)
  PROVE  /\ pc' \in [Runs -> Places]
         /\ left' \in [Runs -> -Past..Duration]
         /\ call' \in [Runs -> 0..RpcTimeout]
         /\ from' \in [Runs -> 0..MaxId]
         /\ page' \in [Runs -> SUBSET Ids]
         /\ attempts' \in [Runs -> 0..Transactions]
         /\ local' \in [Runs -> 0..PerLootbox]
  <1>1. /\ -Past \in -Past..Duration
        /\ 0 \in 0..RpcTimeout /\ 0 \in 0..MaxId
        /\ 0 \in 0..Transactions /\ 0 \in 0..PerLootbox
    BY TimesAssumption, LimitsAssumption
  <1>2. "off" \in Places
    BY DEF Places
  <1>3. QED
    BY <1>1, <1>2 DEF TypeOK, End, Goto

LEMMA TakeLeaseTypeOK ==
  ASSUME TypeOK, NEW r \in Runs, TakeLease(r)
  PROVE  lease' \in [holder : Runs \union {None}, left : -(Past + Duration)..Ttl]
  <1>1. left[r] \in -Past..Duration
    BY DEF TypeOK
  <1>2. left[r] - Duration + Ttl \in -(Past + Duration)..Ttl
    BY <1>1, TimesAssumption
  <1>3. QED
    BY <1>2 DEF TakeLease

LEMMA DropLeaseTypeOK ==
  ASSUME TypeOK, NEW r \in Runs, DropLease(r)
  PROVE  lease' \in [holder : Runs \union {None}, left : -(Past + Duration)..Ttl]
  <1>1. 0 \in -(Past + Duration)..Ttl
    BY TimesAssumption
  <1>2. QED
    BY <1>1 DEF TypeOK, DropLease

LEMMA TickTypeOK ==
  ASSUME TypeOK, Tick
  PROVE  TypeOK'
  <1>1. ASSUME NEW r \in Runs
        PROVE  /\ (IF left[r] > -Past THEN left[r] - 1 ELSE left[r])
                    \in -Past..Duration
               /\ (IF pc[r] = "send" THEN call[r] - 1 ELSE call[r])
                    \in 0..RpcTimeout
    <2>1. left[r] \in -Past..Duration /\ call[r] \in 0..RpcTimeout
      BY DEF TypeOK
    <2>2. pc[r] = "send" => call[r] > 0
      BY DEF Tick
    <2>3. QED
      BY <2>1, <2>2, TimesAssumption
  <1>2. left' \in [Runs -> -Past..Duration] /\ call' \in [Runs -> 0..RpcTimeout]
    BY <1>1 DEF Tick
  <1>3. lease.left \in -(Past + Duration)..Ttl
    BY DEF TypeOK
  <1>4. lease.left > -(Past + Duration) => lease.left - 1 \in -(Past + Duration)..Ttl
    BY <1>3, TimesAssumption
  <1>5. lease' \in [holder : Runs \union {None}, left : -(Past + Duration)..Ttl]
    BY <1>3, <1>4 DEF Tick, TypeOK
  <1>6. QED
    BY <1>2, <1>5 DEF Tick, TypeOK

LEMMA RunTypeOK ==
  ASSUME TypeOK, NEW r \in Runs, Step(r) \/ Fault(r)
  PROVE  TypeOK'
  <1>1. CASE Start(r)
    <2>1. Duration \in -Past..Duration
      BY TimesAssumption
    <2>2. left' \in [Runs -> -Past..Duration]
      BY <1>1, <2>1 DEF TypeOK, Start
    <2>3. QED
      BY <1>1, <2>2, PlacesOfARun DEF TypeOK, Start, Places
  <1>2. CASE Acquire(r)
    BY <1>2, TakeLeaseTypeOK, PlacesOfARun DEF TypeOK, Acquire, Places
  <1>3. CASE AcquireLost(r)
    BY <1>3, TakeLeaseTypeOK, EndTypeOK DEF TypeOK, AcquireLost
  <1>4. CASE Refused(r)
    BY <1>4, EndTypeOK DEF TypeOK, Refused
  <1>5. CASE ReadCursor(r)
    BY <1>5, PlacesOfARun DEF TypeOK, ReadCursor, Places
  <1>6. CASE ReadPage(r)
    <2>1. PageAfter(from[r]) \in SUBSET Ids /\ PageAfter(0) \in SUBSET Ids
      BY PagesAreIds
    <2>2. page' \in [Runs -> SUBSET Ids]
      BY <1>6, <2>1 DEF TypeOK, ReadPage
    <2>3. QED
      BY <1>6, <2>2, PlacesOfARun DEF TypeOK, ReadPage, Places
  <1>7. CASE NextLootbox(r) \/ Finish(r) \/ SendRefused(r) \/ EndWalk(r) \/ Throw(r)
    BY <1>7, PlacesOfARun
       DEF TypeOK, NextLootbox, Finish, SendRefused, EndWalk, Throw, Places
  <1>8. CASE SaveCursor(r)
    <2>1. PICK l \in page[r] : cursor' = l /\ page' = [page EXCEPT ![r] = @ \ {l}]
      BY <1>8 DEF SaveCursor
    <2>2. l \in Ids /\ page' \in [Runs -> SUBSET Ids]
      BY <2>1 DEF TypeOK
    <2>3. cursor' \in 0..MaxId
      BY <2>1, <2>2, LimitsAssumption DEF Ids
    <2>4. local' \in [Runs -> 0..PerLootbox]
      BY <1>8, LimitsAssumption DEF TypeOK, SaveCursor
    <2>5. QED
      BY <1>8, <2>2, <2>3, <2>4, PlacesOfARun DEF TypeOK, SaveCursor, Places
  <1>9. CASE Reserve(r)
    <2>1. attempts[r] \in 0..Transactions /\ local[r] \in 0..PerLootbox
      BY DEF TypeOK
    <2>2. ~(attempts[r] >= Transactions) /\ ~(local[r] >= PerLootbox)
      BY <1>9 DEF Reserve, LootboxStop, ShouldStop
    <2>3. attempts[r] + 1 \in 0..Transactions /\ local[r] + 1 \in 0..PerLootbox
      BY <2>1, <2>2, LimitsAssumption
    <2>4. attempts' \in [Runs -> 0..Transactions] /\ local' \in [Runs -> 0..PerLootbox]
      BY <1>9, <2>3 DEF TypeOK, Reserve
    <2>5. QED
      BY <1>9, <2>4, PlacesOfARun DEF TypeOK, Reserve, Places
  <1>10. CASE Send(r)
    <2>1. RpcTimeout \in 0..RpcTimeout
      BY TimesAssumption
    <2>2. call' \in [Runs -> 0..RpcTimeout]
      BY <1>10, <2>1 DEF TypeOK, Send
    <2>3. QED
      BY <1>10, <2>2, PlacesOfARun DEF TypeOK, Send, Places
  <1>11. CASE EndSend(r)
    <2>1. 0 \in 0..RpcTimeout
      BY TimesAssumption
    <2>2. call' \in [Runs -> 0..RpcTimeout]
      BY <1>11, <2>1 DEF TypeOK, EndSend
    <2>3. QED
      BY <1>11, <2>2, PlacesOfARun DEF TypeOK, EndSend, Places
  <1>12. CASE Release(r)
    BY <1>12, DropLeaseTypeOK, EndTypeOK DEF TypeOK, Release
  <1>13. CASE Crash(r)
    BY <1>13, EndTypeOK DEF TypeOK, Crash
  <1>14. QED
    BY <1>1, <1>2, <1>3, <1>4, <1>5, <1>6, <1>7, <1>8, <1>9, <1>10, <1>11,
       <1>12, <1>13, RunSteps

-----------------------------------------------------------------------------
(* The lease outlives the run that took it.                                 *)

\* A run that still has time to send holds a lease that no other run can find
\* expired, whenever that other run looked at its clock.
LEMMA NoOtherFindsItFree ==
  ASSUME IInv, NEW q \in Runs, NEW r \in Runs,
         pc[q] \in InPossession, left[q] > -RpcTimeout
  PROVE  ~LeaseIsFree(r)
  <1>1. /\ left[q] \in -Past..Duration
        /\ left[r] \in -Past..Duration
    BY DEF IInv, TypeOK
  <1>2. lease.holder = q /\ lease.left = left[q] + (Ttl - Duration)
    BY DEF IInv, LeaseOutlivesRun
  <1>3. lease.holder # None
    BY <1>2, LimitsAssumption
  <1>4. left[q] + (Ttl - Duration) > left[r] - Duration
    BY <1>1, TimesAssumption
  <1>5. ~(lease.left <= left[r] - Duration)
    <2> DEFINE x == left[q] + (Ttl - Duration)
    <2>1. x \in Int /\ left[r] - Duration \in Int
      BY <1>1, TimesAssumption
    <2>2. x > left[r] - Duration /\ lease.left = x
      BY <1>2, <1>4
    <2> HIDE DEF x
    <2>3. ~(x <= left[r] - Duration)
      BY <2>1, <2>2
    <2>4. QED
      BY <2>2, <2>3
  <1>6. QED
    BY <1>3, <1>5 DEF LeaseIsFree

\* The parts of the invariant, for one run, after a step of another.
LEMMA OtherRunsKeepTheirs ==
  ASSUME IInv, NEW r \in Runs, Step(r) \/ Fault(r), NEW q \in Runs, q # r
  PROVE  /\ pc'[q] = pc[q] /\ left'[q] = left[q] /\ call'[q] = call[q]
         /\ pc[q] \in InPossession /\ left[q] > -RpcTimeout => lease' = lease
  <1>1. /\ Acquire(r) => LeaseIsFree(r)
        /\ AcquireLost(r) => LeaseIsFree(r)
    BY DEF Acquire, AcquireLost
  <1>2. pc[q] \in InPossession /\ left[q] > -RpcTimeout =>
          lease.holder = q /\ ~Acquire(r) /\ ~AcquireLost(r)
    BY <1>1, NoOtherFindsItFree DEF IInv, LeaseOutlivesRun
  <1>3. pc'[q] = pc[q] /\ left'[q] = left[q] /\ call'[q] = call[q]
    BY RunSteps
       DEF Start, Acquire, Refused, AcquireLost, ReadCursor, ReadPage,
           NextLootbox, Finish, SaveCursor, Reserve, Send, SendRefused, EndSend,
           EndWalk, Throw, Release, Crash, Goto, End, IInv, TypeOK
  <1>4. ASSUME lease.holder = q, ~Acquire(r), ~AcquireLost(r)
        PROVE  lease' = lease
    BY <1>4, RunSteps
       DEF Start, Refused, ReadCursor, ReadPage,
           NextLootbox, Finish, SaveCursor, Reserve, Send, SendRefused, EndSend,
           EndWalk, Throw, Release, Crash, DropLease
  <1>5. QED
    BY <1>2, <1>3, <1>4

\* The run that takes a step keeps its own part.
LEMMA OwnPart ==
  ASSUME IInv, NEW r \in Runs, Step(r) \/ Fault(r)
  PROVE  /\ pc'[r] \in InPossession /\ left'[r] > -RpcTimeout =>
              lease'.holder = r /\ lease'.left = left'[r] + (Ttl - Duration)
         /\ pc'[r] = "send" => left'[r] + RpcTimeout > call'[r]
  <1> DEFINE Holds == lease.holder = r /\ lease.left = left[r] + (Ttl - Duration)
  <1>1. pc[r] \in InPossession /\ left[r] > -RpcTimeout => Holds
    BY DEF IInv, LeaseOutlivesRun
  <1>2. pc \in [Runs -> Places] /\ left[r] \in -Past..Duration /\ call[r] \in 0..RpcTimeout
    BY DEF IInv, TypeOK
  <1>3. CASE Start(r)
    BY <1>2, <1>3 DEF Start, Goto, InPossession
  <1>4. CASE Acquire(r)
    <2>1. left[r] - Duration + Ttl = left[r] + (Ttl - Duration)
      BY <1>2, TimesAssumption
    <2>2. lease' = [holder |-> r, left |-> left[r] - Duration + Ttl]
      BY <1>4 DEF Acquire, TakeLease
    <2>3. pc'[r] = "cursor" /\ left' = left
      BY <1>2, <1>4 DEF Acquire, Goto
    <2>4. QED
      BY <2>1, <2>2, <2>3
  <1>5. CASE Refused(r) \/ AcquireLost(r) \/ Release(r) \/ Crash(r)
    <2>1. pc'[r] = "off"
      BY <1>2, <1>5 DEF Refused, AcquireLost, Release, Crash, End, Goto
    <2>2. QED
      BY <2>1 DEF InPossession
  <1>6. CASE Send(r)
    <2>1. left[r] > 0 /\ pc[r] = "sign" /\ left' = left /\ lease' = lease
      BY <1>2, <1>6 DEF Send, Expired
    <2>2. pc'[r] = "send" /\ call'[r] = RpcTimeout
      BY <1>2, <1>6 DEF Send, Goto, IInv, TypeOK
    <2>3. left[r] + RpcTimeout > RpcTimeout
      BY <1>2, <2>1, TimesAssumption
    <2>4. pc[r] \in InPossession
      BY <2>1 DEF InPossession, Places
    <2>5. QED
      BY <1>1, <2>1, <2>2, <2>3, <2>4
  <1>7. CASE \/ ReadCursor(r) \/ ReadPage(r) \/ NextLootbox(r) \/ Finish(r)
             \/ SaveCursor(r) \/ Reserve(r) \/ SendRefused(r) \/ EndSend(r)
             \/ EndWalk(r) \/ Throw(r)
    <2>1. lease' = lease /\ left' = left
      BY <1>7 DEF ReadCursor, ReadPage, NextLootbox, Finish, SaveCursor, Reserve,
                  SendRefused, EndSend, EndWalk, Throw
    <2>2. pc[r] \in InPossession /\ pc'[r] # "send"
      BY <1>2, <1>7 DEF ReadCursor, ReadPage, NextLootbox, Finish, SaveCursor, Reserve,
                  SendRefused, EndSend, EndWalk, Throw, Goto, InPossession, Places
    <2>3. QED
      BY <1>1, <2>1, <2>2
  <1>8. QED
    BY <1>3, <1>4, <1>5, <1>6, <1>7, RunSteps

LEMMA RunInductive ==
  ASSUME IInv, NEW r \in Runs, Step(r) \/ Fault(r)
  PROVE  IInv'
  <1>1. TypeOK'
    BY RunTypeOK DEF IInv
  <1>2. LeaseOutlivesRun'
    <2> SUFFICES ASSUME NEW q \in Runs, pc'[q] \in InPossession, left'[q] > -RpcTimeout
                 PROVE  lease'.holder = q /\ lease'.left = left'[q] + (Ttl - Duration)
      BY DEF LeaseOutlivesRun, InPossession, Places
    <2>1. CASE q = r
      BY <2>1, OwnPart
    <2>2. CASE q # r
      BY <2>2, OtherRunsKeepTheirs DEF IInv, LeaseOutlivesRun
    <2>3. QED
      BY <2>1, <2>2
  <1>3. SendInTime'
    <2> SUFFICES ASSUME NEW q \in Runs, pc'[q] = "send"
                 PROVE  left'[q] + RpcTimeout > call'[q]
      BY DEF SendInTime
    <2>1. CASE q = r
      BY <2>1, OwnPart
    <2>2. CASE q # r
      BY <2>2, OtherRunsKeepTheirs DEF IInv, SendInTime
    <2>3. QED
      BY <2>1, <2>2
  <1>4. QED
    BY <1>1, <1>2, <1>3 DEF IInv

LEMMA TickInductive ==
  ASSUME IInv, Tick
  PROVE  IInv'
  <1>1. TypeOK'
    BY TickTypeOK DEF IInv
  <1>2. ASSUME NEW q \in Runs
        PROVE  /\ pc'[q] = pc[q]
               /\ left[q] \in -Past..Duration /\ call[q] \in 0..RpcTimeout
               /\ left'[q] = IF left[q] > -Past THEN left[q] - 1 ELSE left[q]
               /\ call'[q] = IF pc[q] = "send" THEN call[q] - 1 ELSE call[q]
    BY DEF Tick, IInv, TypeOK
  <1>3. LeaseOutlivesRun'
    <2> SUFFICES ASSUME NEW q \in Runs, pc'[q] \in InPossession, left'[q] > -RpcTimeout
                 PROVE  lease'.holder = q /\ lease'.left = left'[q] + (Ttl - Duration)
      BY DEF LeaseOutlivesRun, InPossession, Places
    <2>1. left[q] > -RpcTimeout /\ left'[q] = left[q] - 1
      BY <1>2, TimesAssumption
    <2>2. lease.holder = q /\ lease.left = left[q] + (Ttl - Duration)
      BY <1>2, <2>1 DEF IInv, LeaseOutlivesRun
    <2>3. lease.holder # None
      BY <2>2, LimitsAssumption
    <2>4. left[q] + (Ttl - Duration) > -(Past + Duration)
      BY <1>2, <2>1, TimesAssumption
    <2>5. lease'.holder = lease.holder /\ lease'.left = lease.left - 1
      BY <2>2, <2>3, <2>4 DEF Tick
    <2>6. PICK x \in Int : x = left[q] + (Ttl - Duration)
      BY <1>2, TimesAssumption
    <2>7. lease'.left = x - 1
      BY <2>2, <2>5, <2>6, Zenon
    <2>8. left'[q] + (Ttl - Duration) = x - 1
      BY <1>2, <2>1, <2>6, TimesAssumption
    <2>9. QED
      BY <2>2, <2>5, <2>7, <2>8, Zenon
  <1>4. SendInTime'
    <2> SUFFICES ASSUME NEW q \in Runs, pc'[q] = "send"
                 PROVE  left'[q] + RpcTimeout > call'[q]
      BY DEF SendInTime
    <2>1. left[q] + RpcTimeout > call[q]
      BY <1>2 DEF IInv, SendInTime
    <2>2. call'[q] = call[q] - 1 /\ left'[q] \in {left[q], left[q] - 1}
      BY <1>2
    <2>3. QED
      BY <1>2, <2>1, <2>2, TimesAssumption
  <1>5. QED
    BY <1>1, <1>3, <1>4 DEF IInv

LEMMA InitInductive == Init => IInv
  <1> SUFFICES ASSUME Init PROVE IInv
    OBVIOUS
  <1>1. /\ -Past \in -Past..Duration
        /\ 0 \in 0..RpcTimeout /\ 0 \in 0..MaxId /\ 0 \in -(Past + Duration)..Ttl
        /\ 0 \in 0..Transactions /\ 0 \in 0..PerLootbox
    BY TimesAssumption, LimitsAssumption
  <1>2. TypeOK
    BY <1>1 DEF Init, TypeOK, Places
  <1>3. LeaseOutlivesRun /\ SendInTime
    BY DEF Init, LeaseOutlivesRun, SendInTime, InPossession
  <1>4. QED
    BY <1>2, <1>3 DEF IInv

LEMMA NextInductive == IInv /\ [Next]_vars => IInv'
  <1> SUFFICES ASSUME IInv, [Next]_vars PROVE IInv'
    OBVIOUS
  <1>1. CASE AddLootbox
    <2>1. lootboxes' \subseteq Ids
      BY <1>1, NextId DEF IInv
    <2>2. UNCHANGED <<lease, cursor, pc, left, call, from, page, attempts, local>>
      BY <1>1 DEF AddLootbox
    <2>3. QED
      BY <2>1, <2>2 DEF IInv, TypeOK, LeaseOutlivesRun, SendInTime
  <1>2. CASE Tick
    BY <1>2, TickInductive
  <1>3. CASE \E r \in Runs : Step(r) \/ Fault(r)
    BY <1>3, RunInductive
  <1>4. CASE UNCHANGED vars
    BY <1>4 DEF vars, IInv, TypeOK, LeaseOutlivesRun, SendInTime
  <1>5. QED
    BY <1>1, <1>2, <1>3, <1>4 DEF Next

\* Every variable of the runs, the lease and the cursor keeps its type: the
\* budgets are kept, since attempts and local are bounded by them.
THEOREM CronTypeCorrect == Spec => []TypeOK
  <1>1. IInv => TypeOK
    BY DEF IInv
  <1>2. QED
    BY <1>1, InitInductive, NextInductive, PTL DEF Spec

\* Two runs of the relayer never have a transaction in flight at the same time,
\* if the duration of a run and the timeout of a call are together shorter than
\* the lease: 180 and 8 seconds against 240.
THEOREM RunsNeverSendTogether == Spec => []OneSender
  <1>1. IInv => OneSender
    <2> SUFFICES ASSUME IInv, NEW r \in Runs, NEW q \in Runs,
                        pc[r] = "send", pc[q] = "send"
                 PROVE  r = q
      BY DEF OneSender
    <2>1. /\ left[r] \in -Past..Duration /\ call[r] \in 0..RpcTimeout
          /\ left[q] \in -Past..Duration /\ call[q] \in 0..RpcTimeout
      BY DEF IInv, TypeOK
    <2>2. left[r] + RpcTimeout > call[r] /\ left[q] + RpcTimeout > call[q]
      BY DEF IInv, SendInTime
    <2>3. left[r] > -RpcTimeout /\ left[q] > -RpcTimeout
      BY <2>1, <2>2, TimesAssumption
    <2>4. QED
      BY <2>3 DEF IInv, LeaseOutlivesRun, InPossession, Places
  <1>2. QED
    BY <1>1, InitInductive, NextInductive, PTL DEF Spec

\* A lootbox gets its turn only while the run can still send a transaction for it.
THEOREM TurnsHaveBudget == Spec => []TurnHasBudget
  <1> DEFINE Both == TypeOK /\ TurnHasBudget
  <1>1. Init => Both
    BY InitInductive DEF IInv, Init, TurnHasBudget
  <1>2. IInv /\ Both /\ [Next]_vars => Both'
    <2> SUFFICES ASSUME IInv, Both, [Next]_vars PROVE TurnHasBudget'
      BY NextInductive DEF IInv
    <2>1. CASE AddLootbox \/ Tick \/ UNCHANGED vars
      BY <2>1 DEF AddLootbox, Tick, vars, TurnHasBudget
    <2>2. ASSUME NEW r \in Runs, Step(r) \/ Fault(r)
          PROVE  TurnHasBudget'
      <3> SUFFICES ASSUME NEW q \in Runs, pc'[q] = "save"
                   PROVE  attempts'[q] < Transactions
        BY DEF TurnHasBudget
      <3>1. CASE NextLootbox(r) /\ q = r
        <4>1. attempts[r] \in 0..Transactions /\ ~(attempts[r] >= Transactions)
          BY <3>1 DEF NextLootbox, ShouldStop, TypeOK
        <4>2. attempts' = attempts
          BY <3>1 DEF NextLootbox
        <4>3. QED
          BY <3>1, <4>1, <4>2, LimitsAssumption
      <3>2. CASE ~(NextLootbox(r) /\ q = r)
        <4>1. pc[q] = "save" /\ attempts'[q] = attempts[q]
          BY <2>2, <3>2, RunSteps
             DEF TypeOK, Start, Acquire, Refused, AcquireLost, ReadCursor, ReadPage,
                 NextLootbox, Finish, SaveCursor, Reserve, Send, SendRefused, EndSend,
                 EndWalk, Throw, Release, Crash, Goto, End
        <4>2. QED
          BY <4>1 DEF TurnHasBudget
      <3>3. QED
        BY <3>1, <3>2
    <2>3. QED
      BY <2>1, <2>2 DEF Next
  <1>3. Both => TurnHasBudget
    OBVIOUS
  <1>4. QED
    BY <1>1, <1>2, <1>3, InitInductive, NextInductive, PTL DEF Spec

\* Every state of the relayer is of its type, has at most one sender, and records
\* a turn only with budget left.
THEOREM RunsAreSound == Spec => []RelayerSound
  BY CronTypeCorrect, RunsNeverSendTogether, TurnsHaveBudget, PTL DEF RelayerSound

-----------------------------------------------------------------------------
(* The images: an object is in the bucket while its row says so, a row goes *)
(* after its object, and what is fenced is neither uploaded nor referred to. *)

Stored == {k \in Keys : Images!InTable(k)}

Passes ==
  [at : {"idle", "list", "retire", "object", "row"}, key : Images!Covers, todo : SUBSET Keys]

Typed ==
  /\ row \in [Keys -> Images!RowStates]
  /\ born \in Seq(Keys)
  /\ old \subseteq Keys /\ bucket \subseteq Keys /\ known \subseteq Keys
  /\ upload \in [Uploads -> [at : {"idle", "put", "complete"}, key : Images!Covers]]
  /\ draft \in [Drafts -> [status : {"none", "editing", "signing", "published"},
                         cover : Images!Covers]]
  /\ shown \in [Drafts -> Images!Covers \union {NoPage}]
  /\ publish \in [Drafts -> [at : {"idle", "insert", "mark"}, key : Images!Covers]]
  /\ remove \in [Requests -> [at : {"idle", "object", "row"}, key : Images!Covers]]
  /\ pass \in Passes

\* A key has one upload, and nobody knows of it before it has ended.
Uploading ==
  /\ \A u \in Uploads :
       upload[u].at # "idle" =>
         /\ row[upload[u].key] = "pending" /\ upload[u].key \in Keys
         /\ upload[u].key \notin known \union old \union pass.todo
         /\ upload[u].at = "complete" => upload[u].key \in bucket
  /\ \A u \in Uploads : \A v \in Uploads :
       upload[u].at # "idle" /\ upload[v].at # "idle" /\ upload[u].key = upload[v].key => u = v

\* Keys that somebody names have been reserved.
Named ==
  /\ \A k \in known : row[k] \notin {"unused", "pending"}
  /\ \A k \in old \union pass.todo : row[k] # "unused"

\* The bucket between the states of the rows.
Kept ==
  /\ \A k \in Keys : row[k] = "ready" => k \in bucket
  /\ \A k \in bucket : Images!InTable(k)
  /\ \A k \in Keys : Images!Referenced(k) => row[k] = "ready"

\* The object goes before its row, and nothing of a fenced key comes back.
Fenced(work) ==
  work.at \in {"object", "row"} =>
    /\ work.key \in Keys /\ row[work.key] \in {"deleting", "gone"}
    /\ work.at = "row" => work.key \notin bucket

Launching ==
  \A d \in Drafts :
    /\ publish[d].at # "idle" => draft[d].status \in {"signing", "published"}
    /\ publish[d].at = "insert" => draft[d].cover = publish[d].key

ImagesInv ==
  /\ Typed /\ Cardinality(Stored) <= Quota
  /\ Uploading /\ Named /\ Kept /\ Launching
  /\ Fenced(pass) /\ \A r \in Requests : Fenced(remove[r])

LEMMA StoredFinite ==
  /\ IsFiniteSet(Stored) /\ Cardinality(Stored) \in Nat /\ Quota \in Nat
  /\ None \notin Keys /\ NoPage \notin Keys
  <1>1. IsFiniteSet(Keys)
    BY ImagesAssumption DEF Images!StorageAssumption, Images!IsFiniteSet, IsFiniteSet
  <1>2. QED
    BY <1>1, ImagesAssumption, FS_Subset, FS_CardinalityType DEF Stored,
       Images!StorageAssumption

LEMMA ReserveInv ==
  ASSUME ImagesInv, NEW u \in Uploads, NEW k \in Keys, Images!Reserve(u, k)
  PROVE  ImagesInv'
  <1>1. Typed'
    BY DEF ImagesInv, Typed, Passes, Images!Reserve, Images!RowStates, Images!Covers
  <1>2. Cardinality(Stored)' <= Quota
    <2>1. Stored' = Stored \union {k}
      BY DEF ImagesInv, Typed, Passes, Images!Reserve, Stored, Images!InTable
    <2>2. Cardinality(Stored) < Quota
      BY DEF Images!Reserve, Images!HasBudget, Stored, Images!Cardinality, Cardinality
    <2>3. Cardinality(Stored)' <= Cardinality(Stored) + 1
      BY <2>1, StoredFinite, FS_AddElement
    <2>4. Cardinality(Stored)' \in Nat
      BY <2>1, StoredFinite, FS_AddElement
    <2>5. QED
      BY <2>2, <2>3, <2>4, StoredFinite
  <1>3. Uploading'
    BY DEF ImagesInv, Typed, Passes, Images!Reserve, Uploading, Named, Kept,
       Images!InTable
  <1>4. Named' /\ Launching'
    BY DEF ImagesInv, Typed, Passes, Images!Reserve, Named, Launching
  <1>5. Kept'
    BY DEF ImagesInv, Typed, Passes, Images!Reserve, Kept, Images!InTable,
       Images!Referenced, Images!OnPage, Images!InDraft
  <1>6. Fenced(pass)' /\ \A r \in Requests : Fenced(remove[r])'
    BY DEF ImagesInv, Typed, Passes, Images!Reserve, Fenced
  <1>7. QED
    BY <1>1, <1>2, <1>3, <1>4, <1>5, <1>6 DEF ImagesInv

\* What leaves the rows alone, or only lets them go, keeps the quota.
LEMMA QuotaKept ==
  ASSUME ImagesInv, \A k \in Keys : Images!InTable(k)' => Images!InTable(k)
  PROVE  Cardinality(Stored)' <= Quota
  <1>1. Stored' \subseteq Stored
    BY DEF Stored
  <1>2. Cardinality(Stored') \in Nat /\ Cardinality(Stored') <= Cardinality(Stored)
    BY <1>1, StoredFinite, FS_Subset, FS_CardinalityType
  <1>3. QED
    BY <1>2, StoredFinite DEF ImagesInv

LEMMA PutInv ==
  ASSUME ImagesInv, NEW u \in Uploads, Images!Put(u)
  PROVE  ImagesInv'
  <1>1. Typed'
    BY DEF ImagesInv, Typed, Passes, Images!Put, Uploading
  <1>2. Cardinality(Stored)' <= Quota
    BY QuotaKept DEF Images!Put, Images!InTable
  <1>3. Uploading'
    BY DEF ImagesInv, Typed, Passes, Images!Put, Uploading
  <1>4. Named' /\ Launching'
    BY DEF ImagesInv, Typed, Passes, Images!Put, Named, Launching
  <1>5. Kept'
    BY DEF ImagesInv, Typed, Passes, Images!Put, Kept, Images!InTable, Images!Referenced,
       Images!OnPage, Images!InDraft, Uploading
  <1>6. Fenced(pass)' /\ \A r \in Requests : Fenced(remove[r])'
    BY DEF ImagesInv, Typed, Passes, Images!Put, Fenced, Uploading
  <1>7. QED
    BY <1>1, <1>2, <1>3, <1>4, <1>5, <1>6 DEF ImagesInv

LEMMA CompleteInv ==
  ASSUME ImagesInv, NEW u \in Uploads, Images!Complete(u)
  PROVE  ImagesInv'
  <1>1. Typed'
    BY DEF ImagesInv, Typed, Passes, Images!Complete, Images!Completed, Uploading,
       Images!Idle, Images!Covers, Images!RowStates
  <1>2. Cardinality(Stored)' <= Quota
    BY QuotaKept DEF Images!Complete, Images!Completed, Images!InTable, ImagesInv, Typed,
       Passes
  <1>3. Uploading'
    BY DEF ImagesInv, Typed, Passes, Images!Complete, Images!Completed, Uploading,
       Images!Idle
  <1>4. Named' /\ Launching'
    BY DEF ImagesInv, Typed, Passes, Images!Complete, Images!Completed, Named, Launching,
       Uploading
  <1>5. Kept'
    BY DEF ImagesInv, Typed, Passes, Images!Complete, Images!Completed, Kept,
       Images!InTable, Images!Referenced, Images!OnPage, Images!InDraft, Uploading
  <1>6. Fenced(pass)' /\ \A r \in Requests : Fenced(remove[r])'
    BY DEF ImagesInv, Typed, Passes, Images!Complete, Images!Completed, Fenced, Uploading
  <1>7. QED
    BY <1>1, <1>2, <1>3, <1>4, <1>5, <1>6 DEF ImagesInv

\* An upload that dies does at most what its next call would have done.
LEMMA UploadDiesInv ==
  ASSUME ImagesInv, NEW u \in Uploads, Images!UploadDies(u)
  PROVE  ImagesInv'
  <1>1. Typed'
    BY DEF ImagesInv, Typed, Passes, Images!UploadDies, Images!Completed, Uploading,
       Images!Idle, Images!Covers, Images!RowStates
  <1>2. Cardinality(Stored)' <= Quota
    BY QuotaKept DEF Images!UploadDies, Images!Completed, Images!InTable, ImagesInv,
       Typed, Passes
  <1>3. Uploading'
    BY DEF ImagesInv, Typed, Passes, Images!UploadDies, Images!Completed, Uploading,
       Images!Idle
  <1>4. Named' /\ Launching'
    BY DEF ImagesInv, Typed, Passes, Images!UploadDies, Images!Completed, Named,
       Launching, Uploading
  <1>5. Kept'
    BY DEF ImagesInv, Typed, Passes, Images!UploadDies, Images!Completed, Kept,
       Images!InTable, Images!Referenced, Images!OnPage, Images!InDraft,
           Uploading
  <1>6. Fenced(pass)' /\ \A r \in Requests : Fenced(remove[r])'
    BY DEF ImagesInv, Typed, Passes, Images!UploadDies, Images!Completed, Fenced,
       Uploading
  <1>7. QED
    BY <1>1, <1>2, <1>3, <1>4, <1>5, <1>6 DEF ImagesInv

LEMMA AgeInv ==
  ASSUME ImagesInv, NEW k \in Keys, Images!Age(k)
  PROVE  ImagesInv'
  <1>1. Cardinality(Stored)' <= Quota
    BY QuotaKept DEF Images!Age, Images!InTable
  <1>2. Typed' /\ Launching' /\ Kept'
    BY DEF ImagesInv, Typed, Passes, Launching, Kept, Images!InTable, Images!Referenced,
       Images!OnPage, Images!InDraft, Images!Age
  <1>3. Uploading' /\ Named'
    BY DEF ImagesInv, Typed, Passes, Uploading, Named, Images!InTable, Images!Age
  <1>4. Fenced(pass)' /\ \A r \in Requests : Fenced(remove[r])'
    BY DEF ImagesInv, Fenced, Images!Age
  <1>5. QED
    BY <1>1, <1>2, <1>3, <1>4 DEF ImagesInv

-----------------------------------------------------------------------------
(* Drafts and pages.                                                       *)

\* What is written to drafts and pages refers to covers that are ready.
LEMMA WritesInv ==
  ASSUME ImagesInv, Typed', Launching',
         \A k \in Keys : Images!Referenced(k)' => Images!Referenced(k) \/ row[k] = "ready",
         UNCHANGED <<row, born, old, bucket, known, upload, remove>>,
         pass'.at = pass.at \/ (pass'.at = "list" /\ pass.at = "idle"),
         pass'.key = pass.key, pass'.todo = pass.todo
  PROVE  ImagesInv'
  <1>1. Cardinality(Stored)' <= Quota
    BY QuotaKept DEF Images!InTable
  <1>2. Kept'
    BY DEF ImagesInv, Kept, Images!InTable
  <1>3. Uploading' /\ Named'
    BY DEF ImagesInv, Uploading, Named
  <1>4. Fenced(pass)' /\ \A r \in Requests : Fenced(remove[r])'
    BY DEF ImagesInv, Fenced
  <1>5. QED
    BY <1>1, <1>2, <1>3, <1>4 DEF ImagesInv

LEMMA SaveDraftInv ==
  ASSUME ImagesInv, NEW d \in Drafts, NEW c \in Images!Covers, Images!SaveDraft(d, c)
  PROVE  ImagesInv'
  <1>1. Typed' /\ Launching'
    BY DEF ImagesInv, Typed, Passes, Launching, Images!SaveDraft
  <1>2. \A k \in Keys : Images!Referenced(k)' => Images!Referenced(k) \/ row[k] = "ready"
    BY StoredFinite DEF ImagesInv, Typed, Passes, Images!SaveDraft, Images!Available,
       Images!Referenced, Images!OnPage, Images!InDraft
  <1>3. QED
    BY <1>1, <1>2, WritesInv DEF Images!SaveDraft

LEMMA DiscardDraftInv ==
  ASSUME ImagesInv, NEW d \in Drafts, Images!DiscardDraft(d)
  PROVE  ImagesInv'
  <1>1. Typed' /\ Launching'
    BY DEF ImagesInv, Typed, Passes, Launching, Images!DiscardDraft, Images!NoDraft,
       Images!Covers
  <1>2. \A k \in Keys : Images!Referenced(k)' => Images!Referenced(k) \/ row[k] = "ready"
    BY StoredFinite DEF ImagesInv, Typed, Passes, Images!DiscardDraft, Images!NoDraft,
       Images!Referenced, Images!OnPage, Images!InDraft
  <1>3. QED
    BY <1>1, <1>2, WritesInv DEF Images!DiscardDraft

LEMMA PinInv ==
  ASSUME ImagesInv, NEW d \in Drafts, Images!Pin(d)
  PROVE  ImagesInv'
  <1>1. Typed' /\ Launching'
    BY DEF ImagesInv, Typed, Passes, Launching, Images!Pin
  <1>2. \A k \in Keys : Images!Referenced(k)' => Images!Referenced(k) \/ row[k] = "ready"
    BY DEF ImagesInv, Typed, Passes, Images!Pin, Images!Referenced, Images!OnPage,
       Images!InDraft
  <1>3. QED
    BY <1>1, <1>2, WritesInv DEF Images!Pin

\* The cover of a draft that is being launched stays what the launch has read.
LEMMA PublishInv ==
  ASSUME ImagesInv, NEW d \in Drafts,
         \/ Images!ReadDraft(d) \/ Images!InsertPage(d)
         \/ Images!MarkPublished(d) \/ Images!PublishDies(d)
  PROVE  ImagesInv'
  <1>1. CASE Images!ReadDraft(d)
    <2>1. Typed' /\ Launching'
      BY <1>1 DEF ImagesInv, Typed, Passes, Launching, Images!ReadDraft
    <2>2. \A k \in Keys : Images!Referenced(k)' => Images!Referenced(k)
      BY <1>1 DEF Images!ReadDraft, Images!Referenced, Images!OnPage, Images!InDraft
    <2>3. QED
      BY <1>1, <2>1, <2>2, WritesInv DEF Images!ReadDraft
  <1>2. CASE Images!InsertPage(d)
    <2>1. Typed' /\ Launching'
      BY <1>2 DEF ImagesInv, Typed, Passes, Launching, Images!InsertPage
    <2>2. \A k \in Keys : Images!Referenced(k)' => Images!Referenced(k) \/ row[k] = "ready"
      BY <1>2, StoredFinite
         DEF ImagesInv, Typed, Passes, Images!InsertPage, Images!Available,
            Images!Referenced, Images!OnPage, Images!InDraft
    <2>3. QED
      BY <1>2, <2>1, <2>2, WritesInv DEF Images!InsertPage
  <1>3. CASE Images!MarkPublished(d)
    <2>1. Typed' /\ Launching'
      <3>1. /\ draft' = [draft EXCEPT ![d].status = "published"]
            /\ publish' = [publish EXCEPT ![d] = Images!Idle]
        BY <1>3 DEF Images!MarkPublished
      <3>2. Typed'
        <4>1. Images!Idle \in [at : {"idle", "insert", "mark"}, key : Images!Covers]
          BY DEF Images!Idle, Images!Covers
        <4>2. publish' \in [Drafts -> [at : {"idle", "insert", "mark"}, key : Images!Covers]]
          BY <3>1, <4>1 DEF ImagesInv, Typed, Passes
        <4>3. draft' \in [Drafts -> [status : {"none", "editing", "signing", "published"},
                                     cover : Images!Covers]]
          BY <3>1 DEF ImagesInv, Typed, Passes
        <4>4. QED
          BY <1>3, <4>2, <4>3 DEF ImagesInv, Typed, Passes, Images!MarkPublished
      <3>3. Launching'
        BY <3>1 DEF ImagesInv, Typed, Passes, Launching, Images!Idle
      <3>4. QED
        BY <3>2, <3>3
    <2>2. \A k \in Keys : Images!Referenced(k)' => Images!Referenced(k)
      BY <1>3 DEF ImagesInv, Typed, Passes, Images!MarkPublished, Images!Referenced,
         Images!OnPage, Images!InDraft
    <2>3. QED
      BY <1>3, <2>1, <2>2, WritesInv DEF Images!MarkPublished
  <1>4. CASE Images!PublishDies(d)
    <2>1. Typed' /\ Launching'
      BY <1>4 DEF ImagesInv, Typed, Passes, Launching, Images!PublishDies, Images!Idle,
         Images!Covers
    <2>2. \A k \in Keys : Images!Referenced(k)' => Images!Referenced(k)
      BY <1>4 DEF Images!PublishDies, Images!Referenced, Images!OnPage, Images!InDraft
    <2>3. QED
      BY <1>4, <2>1, <2>2, WritesInv DEF Images!PublishDies
  <1>5. QED
    BY <1>1, <1>2, <1>3, <1>4

LEMMA UpdateDisplayInv ==
  ASSUME ImagesInv, NEW d \in Drafts, NEW c \in Images!Covers, Images!UpdateDisplay(d, c)
  PROVE  ImagesInv'
  <1>1. Typed' /\ Launching'
    BY DEF ImagesInv, Typed, Passes, Launching, Images!UpdateDisplay
  <1>2. \A k \in Keys : Images!Referenced(k)' => Images!Referenced(k) \/ row[k] = "ready"
    BY StoredFinite DEF ImagesInv, Typed, Passes, Images!UpdateDisplay, Images!Available,
       Images!Referenced, Images!OnPage, Images!InDraft
  <1>3. QED
    BY <1>1, <1>2, WritesInv DEF Images!UpdateDisplay

LEMMA StartPassInv ==
  ASSUME ImagesInv, NEW gone \in SUBSET Drafts, Images!StartPass(gone)
  PROVE  ImagesInv'
  <1>1. \A d \in Drafts : draft'[d] = IF d \in gone THEN Images!NoDraft ELSE draft[d]
    BY DEF Images!StartPass
  <1>2. Typed'
    BY DEF ImagesInv, Typed, Passes, Images!StartPass, Images!NoDraft, Images!Covers
  <1>3. Launching'
    BY <1>1 DEF ImagesInv, Typed, Passes, Launching, Images!StartPass
  <1>4. \A k \in Keys : Images!Referenced(k)' => Images!Referenced(k) \/ row[k] = "ready"
    BY <1>1, StoredFinite DEF Images!StartPass, Images!NoDraft, Images!Referenced,
       Images!OnPage, Images!InDraft
  <1>5. /\ pass'.at = "list" /\ pass.at = "idle"
        /\ pass'.key = pass.key /\ pass'.todo = pass.todo
    BY DEF ImagesInv, Typed, Passes, Images!StartPass
  <1>6. QED
    BY <1>2, <1>3, <1>4, <1>5, WritesInv DEF Images!StartPass

-----------------------------------------------------------------------------
(* Deleting.                                                               *)

\* A row that nothing refers to is fenced, by a request or by the pass.
LEMMA FenceInv ==
  ASSUME ImagesInv, NEW k \in Keys, Images!MayRetire(k), Images!Retired(k),
         \A u \in Uploads : upload[u].at # "idle" => upload[u].key # k,
         UNCHANGED <<born, old, bucket, known, upload, draft, shown, publish>>
  PROVE  /\ row' \in [Keys -> Images!RowStates] /\ row'[k] = "deleting"
         /\ Cardinality(Stored)' <= Quota /\ Kept' /\ Launching'
         /\ pass'.todo \subseteq pass.todo => Uploading' /\ Named'
         /\ \A work \in {pass} \union {remove[r] : r \in Requests} : Fenced(work)'
  <1>1. row' = [row EXCEPT ![k] = "deleting"] /\ Images!InTable(k) /\ ~Images!Referenced(k)
    BY DEF Images!Retired, Images!MayRetire
  <1>2. row' \in [Keys -> Images!RowStates] /\ row'[k] = "deleting"
    BY <1>1 DEF ImagesInv, Typed, Passes, Images!RowStates
  <1>3. Cardinality(Stored)' <= Quota
    BY <1>1, QuotaKept DEF Images!InTable, ImagesInv, Typed, Passes
  <1>4. Kept' /\ Launching'
    BY <1>1 DEF ImagesInv, Typed, Passes, Kept, Images!InTable, Images!Referenced,
       Images!OnPage, Images!InDraft, Launching
  <1>5. pass'.todo \subseteq pass.todo => Uploading' /\ Named'
    BY <1>1 DEF ImagesInv, Typed, Passes, Uploading, Named
  <1>6. QED
    BY <1>1, <1>2, <1>3, <1>4, <1>5 DEF ImagesInv, Typed, Passes, Fenced

LEMMA RetireInv ==
  ASSUME ImagesInv, NEW r \in Requests, NEW k \in Keys, Images!Retire(r, k)
  PROVE  ImagesInv'
  <1>1. \A u \in Uploads : upload[u].at # "idle" => upload[u].key # k
    BY DEF ImagesInv, Uploading, Images!Retire
  <1>2. /\ row' \in [Keys -> Images!RowStates] /\ row'[k] = "deleting"
        /\ Cardinality(Stored)' <= Quota /\ Kept' /\ Launching' /\ Uploading' /\ Named'
        /\ \A work \in {pass} \union {remove[q] : q \in Requests} : Fenced(work)'
    BY <1>1, FenceInv DEF Images!Retire
  <1>3. Typed'
    BY <1>2 DEF ImagesInv, Typed, Passes, Images!Retire, Images!Covers
  <1>4. Fenced(pass)' /\ \A q \in Requests : Fenced(remove[q])'
    BY <1>2 DEF ImagesInv, Typed, Passes, Images!Retire, Fenced
  <1>5. QED
    BY <1>2, <1>3, <1>4 DEF ImagesInv

\* An object that is deleted is that of a fenced row.
LEMMA ObjectInv ==
  ASSUME ImagesInv, NEW k \in Keys, row[k] \in {"deleting", "gone"},
         bucket' = bucket \/ bucket' = bucket \ {k},
         UNCHANGED <<row, born, old, known, upload, draft, shown, publish>>,
         pass'.todo \subseteq pass.todo
  PROVE  /\ bucket' \subseteq Keys
         /\ Cardinality(Stored)' <= Quota /\ Kept' /\ Launching' /\ Uploading' /\ Named'
         /\ \A work : Fenced(work) => Fenced(work)'
  <1>1. Cardinality(Stored)' <= Quota
    BY QuotaKept DEF Images!InTable
  <1>2. bucket' \subseteq Keys /\ Kept' /\ Launching'
    BY DEF ImagesInv, Typed, Passes, Kept, Images!InTable, Images!Referenced,
       Images!OnPage, Images!InDraft, Launching
  <1>3. Uploading' /\ Named'
    BY DEF ImagesInv, Uploading, Named
  <1>4. QED
    BY <1>1, <1>2, <1>3 DEF Fenced

\* A row that is deleted has been fenced, and its object is gone.
LEMMA RowInv ==
  ASSUME ImagesInv, NEW k \in Keys, row[k] \in {"deleting", "gone"}, k \notin bucket,
         Images!RowDeleted(k),
         UNCHANGED <<born, old, bucket, known, upload, draft, shown, publish>>,
         pass'.todo \subseteq pass.todo
  PROVE  /\ row' \in [Keys -> Images!RowStates]
         /\ Cardinality(Stored)' <= Quota /\ Kept' /\ Launching' /\ Uploading' /\ Named'
         /\ \A work : Fenced(work) => Fenced(work)'
  <1>1. /\ row' \in [Keys -> Images!RowStates]
        /\ \A j \in Keys : row'[j] = row[j] \/ (j = k /\ row'[j] = "gone")
    BY DEF ImagesInv, Typed, Passes, Images!RowDeleted, Images!RowStates
  <1>2. Cardinality(Stored)' <= Quota
    BY <1>1, QuotaKept DEF Images!InTable
  <1>3. Kept' /\ Launching'
    BY <1>1 DEF ImagesInv, Typed, Passes, Kept, Images!InTable, Images!Referenced,
       Images!OnPage, Images!InDraft, Launching
  <1>4. Uploading' /\ Named'
    BY <1>1 DEF ImagesInv, Typed, Passes, Uploading, Named
  <1>5. QED
    BY <1>1, <1>2, <1>3, <1>4 DEF Fenced

LEMMA RemoveInv ==
  ASSUME ImagesInv, NEW r \in Requests,
         Images!DeleteObject(r) \/ Images!DeleteRow(r) \/ Images!RemoveDies(r)
  PROVE  ImagesInv'
  <1> DEFINE k == remove[r].key
  <1>1. \A q \in Requests : Fenced(remove[q])
    BY DEF ImagesInv
  <1>2. CASE Images!DeleteObject(r)
    <2>1. k \in Keys /\ row[k] \in {"deleting", "gone"}
      BY <1>1, <1>2 DEF Fenced, Images!DeleteObject
    <2>2. /\ bucket' \subseteq Keys
          /\ Cardinality(Stored)' <= Quota /\ Kept' /\ Launching' /\ Uploading' /\ Named'
          /\ \A work : Fenced(work) => Fenced(work)'
      BY <1>2, <2>1, ObjectInv DEF Images!DeleteObject
    <2>3. Typed'
      BY <1>2, <2>2 DEF ImagesInv, Typed, Passes, Images!DeleteObject
    <2>4. Fenced(pass)'
      BY <1>2, <2>2 DEF ImagesInv, Images!DeleteObject, Fenced
    <2>5. ASSUME NEW q \in Requests PROVE Fenced(remove[q])'
      BY <1>1, <1>2, <2>1 DEF ImagesInv, Typed, Passes, Images!DeleteObject, Fenced
    <2>6. QED
      BY <2>2, <2>3, <2>4, <2>5 DEF ImagesInv
  <1>3. CASE Images!DeleteRow(r)
    <2>1. k \in Keys /\ row[k] \in {"deleting", "gone"} /\ k \notin bucket
      BY <1>1, <1>3 DEF Fenced, Images!DeleteRow
    <2>2. /\ row' \in [Keys -> Images!RowStates]
          /\ Cardinality(Stored)' <= Quota /\ Kept' /\ Launching' /\ Uploading' /\ Named'
          /\ \A work : Fenced(work) => Fenced(work)'
      BY <1>3, <2>1, RowInv DEF Images!DeleteRow
    <2>3. Typed'
      BY <1>3, <2>2 DEF ImagesInv, Typed, Passes, Images!DeleteRow, Images!Idle,
         Images!Covers
    <2>4. Fenced(pass)'
      BY <1>3, <2>2 DEF ImagesInv, Images!DeleteRow, Fenced
    <2>5. ASSUME NEW q \in Requests PROVE Fenced(remove[q])'
      BY <1>1, <1>3, <2>2 DEF ImagesInv, Typed, Passes, Images!DeleteRow, Fenced,
         Images!Idle
    <2>6. QED
      BY <2>2, <2>3, <2>4, <2>5 DEF ImagesInv
  <1>4. CASE Images!RemoveDies(r)
    <2>1. k \in Keys /\ row[k] \in {"deleting", "gone"}
      BY <1>1, <1>4 DEF Fenced, Images!RemoveDies, ImagesInv, Typed, Passes
    <2>2. /\ bucket' \subseteq Keys
          /\ Cardinality(Stored)' <= Quota /\ Kept' /\ Launching' /\ Uploading' /\ Named'
          /\ \A work : Fenced(work) => Fenced(work)'
      BY <1>4, <2>1, ObjectInv DEF Images!RemoveDies
    <2>3. Typed'
      BY <1>4, <2>2 DEF ImagesInv, Typed, Passes, Images!RemoveDies, Images!Idle,
         Images!Covers
    <2>4. Fenced(pass)'
      BY <1>4, <2>2 DEF ImagesInv, Images!RemoveDies, Fenced
    <2>5. ASSUME NEW q \in Requests PROVE Fenced(remove[q])'
      BY <1>1, <1>4, <2>2 DEF ImagesInv, Typed, Passes, Images!RemoveDies, Fenced,
         Images!Idle
    <2>6. QED
      BY <2>2, <2>3, <2>4, <2>5 DEF ImagesInv
  <1>5. QED
    BY <1>2, <1>3, <1>4

-----------------------------------------------------------------------------
(* The hourly pass.                                                        *)

LEMMA NextUploadTyped ==
  ASSUME ImagesInv, NEW k \in Keys
  PROVE  /\ Images!NextUpload(k) \in Passes
         /\ Images!NextUpload(k).at \notin {"object", "row"}
         /\ Images!NextUpload(k).todo \subseteq pass.todo
  BY DEF Images!NextUpload, Images!NoPass, ImagesInv, Typed, Passes, Images!Covers

\* What is listed is old or fenced already.
LEMMA ListUploadsInv ==
  ASSUME ImagesInv, Images!ListUploads
  PROVE  ImagesInv'
  <1>1. Images!Expired \subseteq Keys /\ \A k \in Images!Expired : Images!IsExpired(k)
    BY DEF Images!Expired
  <1>2. \A k \in Images!Expired : row[k] \in {"pending", "ready", "deleting"}
                            /\ (row[k] = "deleting" \/ k \in old)
    BY <1>1 DEF Images!IsExpired, Images!InTable
  <1>3. /\ pass' \in Passes
        /\ pass'.at \notin {"object", "row"} /\ pass'.todo \subseteq Images!Expired
    BY <1>1 DEF Images!ListUploads, Images!NoPass, ImagesInv, Typed, Passes, Images!Covers
  <1>4. Cardinality(Stored)' <= Quota
    BY QuotaKept DEF Images!ListUploads, Images!InTable
  <1>5. Typed' /\ Kept' /\ Launching'
    BY <1>3 DEF ImagesInv, Typed, Passes, Kept, Images!InTable, Images!Referenced,
       Images!OnPage, Images!InDraft, Launching, Images!ListUploads
  <1>6. Named'
    BY <1>2, <1>3 DEF ImagesInv, Named, Images!ListUploads
  <1>7. Uploading'
    BY <1>2, <1>3 DEF ImagesInv, Uploading, Images!ListUploads
  <1>8. Fenced(pass)' /\ \A q \in Requests : Fenced(remove[q])'
    BY <1>3 DEF ImagesInv, Images!ListUploads, Fenced
  <1>9. QED
    BY <1>4, <1>5, <1>6, <1>7, <1>8 DEF ImagesInv

LEMMA PassRetireInv ==
  ASSUME ImagesInv, NEW k \in Keys, Images!PassRetire(k)
  PROVE  ImagesInv'
  <1>1. k \in pass.todo /\ pass.at = "retire"
    BY DEF Images!PassRetire
  <1>2. CASE /\ Images!MayRetire(k) /\ Images!Retired(k)
             /\ pass' = [pass EXCEPT !.at = "object", !.key = k]
    <2>1. \A u \in Uploads : upload[u].at # "idle" => upload[u].key # k
      BY <1>1 DEF ImagesInv, Uploading
    <2>2. /\ pass'.at = "object" /\ pass'.key = k /\ pass'.todo = pass.todo
          /\ pass' \in Passes
      BY <1>2 DEF ImagesInv, Typed, Passes, Images!Covers
    <2>3. /\ row' \in [Keys -> Images!RowStates] /\ row'[k] = "deleting"
          /\ Cardinality(Stored)' <= Quota /\ Kept' /\ Launching' /\ Uploading' /\ Named'
          /\ \A work \in {pass} \union {remove[q] : q \in Requests} : Fenced(work)'
      BY <1>2, <2>1, <2>2, FenceInv DEF Images!PassRetire
    <2>4. Typed'
      BY <2>2, <2>3 DEF ImagesInv, Typed, Passes, Images!PassRetire
    <2>5. Fenced(pass)' /\ \A q \in Requests : Fenced(remove[q])'
      BY <2>2, <2>3 DEF Images!PassRetire, Fenced
    <2>6. QED
      BY <2>3, <2>4, <2>5 DEF ImagesInv
  <1>3. CASE pass' = Images!NextUpload(k) /\ UNCHANGED row
    <2>1. /\ pass' \in Passes
          /\ pass'.at \notin {"object", "row"} /\ pass'.todo \subseteq pass.todo
      BY <1>3, NextUploadTyped
    <2>2. Cardinality(Stored)' <= Quota
      BY <1>3, QuotaKept DEF Images!PassRetire, Images!InTable
    <2>3. Typed' /\ Kept' /\ Launching'
      BY <1>3, <2>1 DEF ImagesInv, Typed, Passes, Kept, Images!InTable,
         Images!Referenced, Images!OnPage, Images!InDraft, Launching, Images!PassRetire
    <2>4. Uploading' /\ Named'
      BY <1>3, <2>1 DEF ImagesInv, Uploading, Named, Images!PassRetire
    <2>5. Fenced(pass)' /\ \A q \in Requests : Fenced(remove[q])'
      BY <1>3, <2>1 DEF ImagesInv, Images!PassRetire, Fenced
    <2>6. QED
      BY <2>2, <2>3, <2>4, <2>5 DEF ImagesInv
  <1>4. QED
    BY <1>2, <1>3 DEF Images!PassRetire

LEMMA PassObjectInv ==
  ASSUME ImagesInv, Images!PassObject
  PROVE  ImagesInv'
  <1> DEFINE k == pass.key
  <1>1. k \in Keys /\ row[k] \in {"deleting", "gone"}
    BY DEF ImagesInv, Fenced, Images!PassObject
  <1>2. /\ pass'.at = "row" /\ pass'.key = k /\ pass'.todo = pass.todo
        /\ pass' \in Passes
    BY DEF ImagesInv, Typed, Passes, Images!PassObject
  <1>3. /\ bucket' \subseteq Keys
        /\ Cardinality(Stored)' <= Quota /\ Kept' /\ Launching' /\ Uploading' /\ Named'
        /\ \A work : Fenced(work) => Fenced(work)'
    BY <1>1, <1>2, ObjectInv DEF Images!PassObject
  <1>4. Typed'
    BY <1>2, <1>3 DEF ImagesInv, Typed, Passes, Images!PassObject
  <1>5. Fenced(pass)'
    BY <1>1, <1>2 DEF Images!PassObject, Fenced
  <1>6. \A q \in Requests : Fenced(remove[q])'
    BY <1>3 DEF ImagesInv, Images!PassObject, Fenced
  <1>7. QED
    BY <1>3, <1>4, <1>5, <1>6 DEF ImagesInv

LEMMA PassRowInv ==
  ASSUME ImagesInv, Images!PassRow
  PROVE  ImagesInv'
  <1> DEFINE k == pass.key
  <1>1. k \in Keys /\ row[k] \in {"deleting", "gone"} /\ k \notin bucket
    BY DEF ImagesInv, Fenced, Images!PassRow
  <1>2. /\ pass' \in Passes
        /\ pass'.at \notin {"object", "row"} /\ pass'.todo \subseteq pass.todo
    BY <1>1, NextUploadTyped DEF Images!PassRow
  <1>3. /\ row' \in [Keys -> Images!RowStates]
        /\ Cardinality(Stored)' <= Quota /\ Kept' /\ Launching' /\ Uploading' /\ Named'
        /\ \A work : Fenced(work) => Fenced(work)'
    BY <1>1, <1>2, RowInv DEF Images!PassRow
  <1>4. Typed'
    BY <1>2, <1>3 DEF ImagesInv, Typed, Passes, Images!PassRow
  <1>5. Fenced(pass)'
    BY <1>2 DEF Fenced
  <1>6. \A q \in Requests : Fenced(remove[q])'
    BY <1>3 DEF ImagesInv, Images!PassRow, Fenced
  <1>7. QED
    BY <1>3, <1>4, <1>5, <1>6 DEF ImagesInv

LEMMA PassDiesInv ==
  ASSUME ImagesInv, Images!PassDies
  PROVE  ImagesInv'
  <1>1. pass' \in Passes
        /\ pass'.at = "idle" /\ pass'.todo = {}
    BY DEF Images!PassDies, Images!NoPass, Images!Covers, Passes
  <1>2. CASE pass.at = "object"
    <2>1. pass.key \in Keys /\ row[pass.key] \in {"deleting", "gone"}
      BY <1>2 DEF ImagesInv, Fenced
    <2>2. /\ bucket' \subseteq Keys
          /\ Cardinality(Stored)' <= Quota /\ Kept' /\ Launching' /\ Uploading' /\ Named'
          /\ \A work : Fenced(work) => Fenced(work)'
      BY <1>1, <2>1, ObjectInv DEF Images!PassDies
    <2>3. Typed'
      BY <1>1, <2>2 DEF ImagesInv, Typed, Passes, Images!PassDies
    <2>4. Fenced(pass)' /\ \A q \in Requests : Fenced(remove[q])'
      BY <1>1, <2>2 DEF ImagesInv, Images!PassDies, Fenced
    <2>5. QED
      BY <2>2, <2>3, <2>4 DEF ImagesInv
  <1>3. CASE pass.at # "object"
    <2>1. bucket' = bucket
      BY <1>3 DEF Images!PassDies, ImagesInv, Typed, Passes
    <2>2. Cardinality(Stored)' <= Quota
      BY QuotaKept DEF Images!PassDies, Images!InTable
    <2>3. Typed' /\ Kept' /\ Launching'
      BY <1>1, <2>1 DEF ImagesInv, Typed, Passes, Kept, Images!InTable,
         Images!Referenced, Images!OnPage, Images!InDraft, Launching, Images!PassDies
    <2>4. Uploading' /\ Named'
      BY <1>1, <2>1 DEF ImagesInv, Uploading, Named, Images!PassDies
    <2>5. Fenced(pass)' /\ \A q \in Requests : Fenced(remove[q])'
      BY <1>1, <2>1 DEF ImagesInv, Images!PassDies, Fenced
    <2>6. QED
      BY <2>2, <2>3, <2>4, <2>5 DEF ImagesInv
  <1>4. QED
    BY <1>2, <1>3

-----------------------------------------------------------------------------
(* The theorem.                                                            *)

LEMMA StutterInv ==
  ASSUME ImagesInv, UNCHANGED Images!vars
  PROVE  ImagesInv'
  <1>1. Cardinality(Stored)' <= Quota
    BY QuotaKept DEF Images!vars, Images!InTable
  <1>2. QED
    BY <1>1 DEF ImagesInv, Typed, Passes, Uploading, Named, Kept, Images!InTable,
       Images!Referenced, Images!OnPage, Images!InDraft,
                Launching, Fenced, Images!vars

LEMMA StorageInit ==
  ASSUME Images!Init
  PROVE  ImagesInv
  <1>1. Stored = {}
    BY DEF Images!Init, Stored, Images!InTable
  <1>2. Cardinality(Stored) <= Quota
    BY <1>1, StoredFinite, FS_EmptySet
  <1>3. Typed
    BY EmptySeq DEF Images!Init, Typed, Passes, Images!Idle, Images!NoDraft,
       Images!Covers, Images!RowStates
  <1>4. Uploading /\ Named /\ Kept /\ Launching
    BY StoredFinite DEF Images!Init, Uploading, Named, Kept, Images!InTable,
       Images!Referenced, Images!OnPage, Images!InDraft, Launching,
                        Images!Idle, Images!NoDraft
  <1>5. Fenced(pass) /\ \A r \in Requests : Fenced(remove[r])
    BY DEF Images!Init, Fenced, Images!Idle
  <1>6. QED
    BY <1>2, <1>3, <1>4, <1>5 DEF ImagesInv

LEMMA StorageNext ==
  ASSUME ImagesInv, [Images!Next]_(Images!vars)
  PROVE  ImagesInv'
  <1>1. ASSUME NEW u \in Uploads,
               \/ \E k \in Keys : Images!Reserve(u, k)
               \/ Images!Put(u) \/ Images!Complete(u) \/ Images!UploadDies(u)
        PROVE  ImagesInv'
    BY <1>1, ReserveInv, PutInv, CompleteInv, UploadDiesInv
  <1>2. ASSUME NEW d \in Drafts,
               \/ \E c \in Images!Covers : Images!SaveDraft(d, c) \/ Images!UpdateDisplay(d, c)
               \/ Images!DiscardDraft(d) \/ Images!Pin(d)
               \/ Images!ReadDraft(d) \/ Images!InsertPage(d)
               \/ Images!MarkPublished(d) \/ Images!PublishDies(d)
        PROVE  ImagesInv'
    BY <1>2, SaveDraftInv, UpdateDisplayInv, DiscardDraftInv, PinInv, PublishInv
  <1>3. ASSUME NEW r \in Requests,
               \/ \E k \in Keys : Images!Retire(r, k)
               \/ Images!DeleteObject(r) \/ Images!DeleteRow(r) \/ Images!RemoveDies(r)
        PROVE  ImagesInv'
    BY <1>3, RetireInv, RemoveInv
  <1>4. ASSUME \/ \E k \in Keys : Images!Age(k) \/ Images!PassRetire(k)
               \/ \E gone \in SUBSET Drafts : Images!StartPass(gone)
               \/ Images!ListUploads \/ Images!PassObject \/ Images!PassRow \/ Images!PassDies
        PROVE  ImagesInv'
    BY <1>4, AgeInv, PassRetireInv, StartPassInv, ListUploadsInv, PassObjectInv,
       PassRowInv,
       PassDiesInv
  <1>5. QED
    BY <1>1, <1>2, <1>3, <1>4, StutterInv DEF Images!Next

\* A cover that a draft or a page refers to is served, a launch keeps the cover it
\* has read, and no object lies in the bucket uncounted.
THEOREM StorageAlwaysSound == Images!Spec => []StorageSound
  <1>1. Images!Init => ImagesInv
    BY StorageInit
  <1>2. ImagesInv /\ [Images!Next]_(Images!vars) => ImagesInv'
    BY StorageNext
  <1>3. ImagesInv => StorageSound
    BY DEF ImagesInv, Typed, Passes, Kept, Launching, StorageSound, Images!StorageSound,
           Cardinality, Images!Cardinality, Images!TypeOK,
       Images!CoversAreServed, Stored,
           Images!ObjectsAreCounted, Images!LaunchKeepsCover, Images!Available,
           Images!Referenced, Images!InDraft, Images!Covers
  <1>4. QED
    BY <1>1, <1>2, <1>3, PTL DEF Images!Spec

-----------------------------------------------------------------------------
(* Filling a treasury (Staging), whoever does it.                           *)

AtStake(c, p) ==
  c.staged # Nothing /\ \E k \in 1 .. Len(c.staged.prizes) :
                          k \notin c.staged.reclaimed /\ c.staged.prizes[k] = p

GivenAway(c, p) ==
  \E i \in 1 .. Len(c.live) : \E k \in 1 .. Len(c.live[i].prizes) : c.live[i].prizes[k] = p

\* Exactly one of the three.
InOnePlace(c, p) ==
  /\ p \in c.wallet \/ AtStake(c, p) \/ GivenAway(c, p)
  /\ ~(p \in c.wallet /\ AtStake(c, p))
  /\ ~(p \in c.wallet /\ GivenAway(c, p))
  /\ ~(AtStake(c, p) /\ GivenAway(c, p))

ChainTyped(c) ==
  c \in [template : {"none", "mint", "draft", "live"}, live : Seq(Fill!Bundles),
         staged : Fill!StagedBundles \union {Nothing}, wallet : SUBSET Prizes]

\* Prizes that are all different, and prizes that are all among others.
Different(p) == \A i, j \in 1 .. Len(p) : i # j => p[i] # p[j]

Among(p, q) == \A i \in 1 .. Len(p) : \E k \in 1 .. Len(q) : p[i] = q[k]

\* A staged bundle.
StageSound(c) ==
  c.staged # Nothing =>
    /\ Len(c.staged.prizes) <= c.staged.size
    /\ Different(c.staged.prizes)
    /\ c.staged.reclaimed \subseteq 1 .. Len(c.staged.prizes)

\* What the program keeps, whatever is sent to it.
ChainSound(c) ==
  /\ ChainTyped(c)
  /\ StageSound(c)
  /\ c.template \in {"none", "mint"} => c.staged = Nothing /\ c.live = <<>>
  /\ \A p \in Prizes \ Fungible : InOnePlace(c, p)

\* What is sent for a draft d.
SentFor(tx, d) ==
  /\ tx.kind \in {"add", "fund"} => tx.at - d.start \in 1 .. Len(d.plan)
  /\ tx.kind = "add" => /\ tx.copies = d.plan[tx.at - d.start].copies
                        /\ tx.size = Len(d.plan[tx.at - d.start].prizes)
  /\ tx.kind = "fund" =>
       \E k \in 1 .. Len(d.plan[tx.at - d.start].prizes) :
         tx.prize = d.plan[tx.at - d.start].prizes[k]

\* A tab that sends has something to send, does not end with a reclaim, and sends
\* what its plan asks for.
SendsOn(t) ==
  t.at = "send" => /\ Len(t.queue) > 0
                   /\ t.queue[Len(t.queue)].kind # "reclaim"
                   /\ \A i \in 1 .. Len(t.queue) : SentFor(t.queue[i], t)

TabsSound ==
  tab \in [Tabs -> Fill!TabStates] /\ \A s \in Tabs : SendsOn(tab[s])

FillTyped ==
  /\ ChainSound(chain) /\ TabsSound
  /\ late \subseteq Fill!Transactions /\ IsFiniteSet(late)
  /\ lates \in 0 .. MaxLate /\ Cardinality(late) <= lates
  /\ saved \in Fill!SavedDrafts \union {Nothing}
  /\ asked \subseteq Fill!Requests /\ form \subseteq Forms

\* What is staged for a draft d.
StagedFor(c, d) ==
  LET n == Len(c.live) + 1 - d.start
  IN  c.staged # Nothing =>
        /\ n \in 1 .. Len(d.plan)
        /\ c.staged.copies = d.plan[n].copies
        /\ c.staged.size = Len(d.plan[n].prizes)
        /\ Among(c.staged.prizes, d.plan[n].prizes)

Planned(g, d, n) ==
  /\ n \in 1 .. Len(d.plan)
  /\ d.plan[n].copies = g.copies
  /\ Among(g.prizes, d.plan[n].prizes) /\ Among(d.plan[n].prizes, g.prizes)

LivePlanned(c, A) ==
  \A i \in 1 .. Len(c.live) : \E d \in A : Planned(c.live[i], d, i - d.start)

WorksFor(t, d) == t.at # "idle" => t.plan = d.plan /\ t.start = d.start

SavedFor(d) ==
  saved # Nothing =>
    /\ saved.plan = d.plan /\ saved.start = d.start
    /\ saved.mode = "create" => saved.start = 0

\* As long as one draft has been begun, everything is for this draft.
ForOneDraft ==
  /\ form = {}
  /\ asked = {} => /\ late = {} /\ saved = Nothing /\ chain.staged = Nothing
                   /\ chain.live = <<>>
                   /\ \A s \in Tabs : tab[s].at = "idle"
  /\ \A d : asked = {d} =>
       /\ \A s \in Tabs : WorksFor(tab[s], d)
       /\ \A tx \in late : SentFor(tx, d)
       /\ SavedFor(d) /\ StagedFor(chain, d) /\ LivePlanned(chain, {d})

\* One tab of which nothing is late.  The tab t has the saved draft v as long as it
\* works, and what it has read of the template is so.
HasDraft(t, v) == t.at # "idle" => v # Nothing /\ WorksFor(t, v)

Open(c) == c.template \in {"draft", "live"}

HasRead(t, c) ==
  /\ t.at \in {"bundle", "staged", "publish"}
       => Open(c) /\ (t.draft <=> c.template = "draft")
  /\ t.at = "send" =>
       \/ t.queue[1].kind \in {"mint", "template"}
       \/ /\ Open(c) /\ (t.draft <=> c.template = "draft")
          /\ \A i \in 1 .. Len(t.queue) : t.queue[i].kind \notin {"mint", "template"}

Sending(t, kinds) == t.at = "send" /\ t.queue[1].kind \in kinds

\* It begins with the first bundle, it is at a bundle up to the next one, and it
\* forgets a draft or publishes a template when nothing is staged.
IsAt(t, c) ==
  /\ t.at = "template" \/ Sending(t, {"mint", "template"}) => t.n = 1
  /\ t.at = "bundle" \/ Sending(t, {"add", "fund", "activate"}) =>
       Len(c.live) >= t.start + t.n - 1 /\ (t.flow = "create" \/ ~t.draft)
  /\ Sending(t, {"reclaim"}) =>
       \A i \in 1 .. Len(t.queue) : t.queue[i].kind \in {"reclaim", "cancel"}
  /\ t.at = "staged" => t.count = Len(c.live)
  /\ t.at = "publish" \/ Sending(t, {"seal"}) => c.staged = Nothing

Along(t, c, v) == HasDraft(t, v) /\ HasRead(t, c) /\ IsAt(t, c)

\* The saved draft v, of those in A, is the one of what is staged.
DraftKept(c, v, A) ==
  /\ v # Nothing =>
       /\ v.mode = "create" => v.start = 0
       /\ \E d \in A : d.plan = v.plan /\ d.start = v.start
       /\ StagedFor(c, v)
  /\ v = Nothing => c.staged = Nothing /\ c.template # "draft"

Alone ==
  /\ form = {} /\ late = {}
  /\ \A s \in Tabs : (s # t1 => tab[s].at = "idle") /\ Along(tab[s], chain, saved)
  /\ DraftKept(chain, saved, asked) /\ LivePlanned(chain, asked)

\* A tab goes from u to t, and works on for the same draft if it works on.
Goes(u, t) ==
  /\ t \in Fill!TabStates /\ SendsOn(t)
  /\ t.at # "idle" => t.plan = u.plan /\ t.start = u.start

Moves(s) == \E t : Goes(tab[s], t) /\ tab' = [tab EXCEPT ![s] = t]

\* The chain with these parts.
ChainOf(t, l, s, w) == [template |-> t, live |-> l, staged |-> s, wallet |-> w]

\* What a transaction needs of the chain c, and the chain d that it leaves, by kind.
Mints(c, tx, d) ==
  /\ tx.kind = "mint" /\ c.template = "none"
  /\ d = ChainOf("mint", c.live, c.staged, c.wallet)

Opens(c, tx, d) ==
  /\ tx.kind = "template" /\ c.template = "mint"
  /\ d = ChainOf("draft", c.live, c.staged, c.wallet)

Seals(c, tx, d) ==
  /\ tx.kind = "seal" /\ c.template = "draft"
  /\ d = ChainOf("live", c.live, c.staged, c.wallet)

Adds(c, tx, d) ==
  /\ tx.kind = "add" /\ c.template \in {"draft", "live"} /\ c.staged = Nothing
  /\ tx.at = Len(c.live) + 1 /\ tx.copies \in Nat \ {0} /\ tx.size \in Nat
  /\ d = ChainOf(c.template, c.live, [copies |-> tx.copies, size |-> tx.size,
                                      prizes |-> <<>>, reclaimed |-> {}], c.wallet)

Funds(c, tx, d) ==
  /\ tx.kind = "fund" /\ c.staged # Nothing /\ tx.at = Len(c.live) + 1
  /\ Len(c.staged.prizes) # c.staged.size /\ tx.prize \in c.wallet /\ tx.prize \in Prizes
  /\ \A k \in 1 .. Len(c.staged.prizes) : c.staged.prizes[k] # tx.prize
  /\ d = ChainOf(c.template, c.live,
                 [copies |-> c.staged.copies, size |-> c.staged.size,
                  prizes |-> Append(c.staged.prizes, tx.prize),
                  reclaimed |-> c.staged.reclaimed],
                 c.wallet \ ({tx.prize} \ Fungible))

Activates(c, tx, d) ==
  /\ tx.kind = "activate" /\ c.staged # Nothing /\ tx.at = Len(c.live) + 1
  /\ Len(c.staged.prizes) = c.staged.size /\ c.staged.reclaimed = {}
  /\ d = ChainOf(c.template,
                 Append(c.live, [copies |-> c.staged.copies, prizes |-> c.staged.prizes]),
                 Nothing, c.wallet)

Reclaims(c, tx, d) ==
  /\ tx.kind = "reclaim" /\ c.staged # Nothing /\ tx.at = Len(c.live) + 1
  /\ tx.slot \in 1 .. Len(c.staged.prizes) /\ tx.slot \notin c.staged.reclaimed
  /\ c.staged.prizes[tx.slot] = tx.prize /\ tx.prize \in Prizes /\ tx.slot \in Nat
  /\ d = ChainOf(c.template, c.live,
                 [copies |-> c.staged.copies, size |-> c.staged.size,
                  prizes |-> c.staged.prizes,
                  reclaimed |-> c.staged.reclaimed \union {tx.slot}],
                 c.wallet \union {tx.prize})

Cancels(c, tx, d) ==
  /\ tx.kind = "cancel" /\ c.staged # Nothing /\ tx.at = Len(c.live) + 1
  /\ c.staged.reclaimed = 1 .. Len(c.staged.prizes)
  /\ d = ChainOf(c.template, c.live, Nothing, c.wallet)

LEMMA LandsAs ==
  ASSUME NEW c, NEW tx \in Fill!Transactions, NEW d,
         ChainTyped(c), Fill!Lands(tx, c), d = Fill!Landed(tx, c)
  PROVE  \/ Mints(c, tx, d) \/ Opens(c, tx, d) \/ Seals(c, tx, d) \/ Adds(c, tx, d)
         \/ Funds(c, tx, d) \/ Activates(c, tx, d) \/ Reclaims(c, tx, d)
         \/ Cancels(c, tx, d)
  <1> DEFINE g == c.staged
             l == c.live
  <1>1. c = ChainOf(c.template, l, g, c.wallet)
    BY DEF ChainTyped, ChainOf
  <1>2. g # Nothing => /\ g \in Fill!StagedBundles
                       /\ g = [copies |-> g.copies, size |-> g.size, prizes |-> g.prizes,
                               reclaimed |-> g.reclaimed]
    BY DEF ChainTyped, Fill!StagedBundles
  <1>3. \/ tx.kind \in {"mint", "template", "seal"}
        \/ tx.kind = "add" /\ tx.copies \in Nat \ {0} /\ tx.size \in Nat
        \/ tx.kind = "fund" /\ tx.prize \in Prizes
        \/ tx.kind \in {"activate", "cancel"}
        \/ tx.kind = "reclaim" /\ tx.slot \in Nat /\ tx.prize \in Prizes
    BY DEF Fill!Transactions
  <1>4. CASE tx.kind = "mint"
    <2>1. c.template = "none"
      BY <1>4 DEF Fill!Lands
    <2>2. d = [c EXCEPT !.template = "mint"]
      BY <1>4 DEF Fill!Landed
    <2>3. d = ChainOf("mint", l, g, c.wallet)
      BY <1>1, <2>2 DEF ChainOf
    <2>4. QED
      BY <1>4, <2>1, <2>3 DEF Mints
  <1>5. CASE tx.kind = "template"
    <2>1. c.template = "mint"
      BY <1>5 DEF Fill!Lands
    <2>2. d = [c EXCEPT !.template = "draft"]
      BY <1>5 DEF Fill!Landed
    <2>3. d = ChainOf("draft", l, g, c.wallet)
      BY <1>1, <2>2 DEF ChainOf
    <2>4. QED
      BY <1>5, <2>1, <2>3 DEF Opens
  <1>6. CASE tx.kind = "seal"
    <2>1. c.template = "draft"
      BY <1>6 DEF Fill!Lands
    <2>2. d = [c EXCEPT !.template = "live"]
      BY <1>6 DEF Fill!Landed
    <2>3. d = ChainOf("live", l, g, c.wallet)
      BY <1>1, <2>2 DEF ChainOf
    <2>4. QED
      BY <1>6, <2>1, <2>3 DEF Seals
  <1>7. CASE tx.kind = "add"
    <2>1. c.template \in {"draft", "live"} /\ g = Nothing /\ tx.at = Len(l) + 1
      BY <1>7 DEF Fill!Lands, Fill!Editable, Fill!StagedAt
    <2>2. d = [c EXCEPT !.staged = [copies |-> tx.copies, size |-> tx.size,
                                    prizes |-> <<>>, reclaimed |-> {}]]
      BY <1>7 DEF Fill!Landed
    <2>3. d = ChainOf(c.template, l, [copies |-> tx.copies, size |-> tx.size,
                                      prizes |-> <<>>, reclaimed |-> {}], c.wallet)
      BY <1>1, <2>2 DEF ChainOf
    <2>4. QED
      BY <1>3, <1>7, <2>1, <2>3 DEF Adds
  <1>8. CASE tx.kind = "fund"
    <2>1. Fill!CanFund(tx, c)
      BY <1>8 DEF Fill!Lands
    <2>2. /\ g # Nothing /\ tx.at = Len(l) + 1
          /\ Len(g.prizes) # g.size /\ tx.prize \in c.wallet
          /\ \A k \in 1 .. Len(g.prizes) : g.prizes[k] # tx.prize
      BY <2>1 DEF Fill!CanFund, Fill!StagedAt, Fill!Full, Fill!Unseen
    <2>3. d = [c EXCEPT !.staged.prizes = Append(@, tx.prize),
                        !.wallet = @ \ ({tx.prize} \ Fungible)]
      BY <1>8 DEF Fill!Landed
    <2>4. d = ChainOf(c.template, l,
                      [copies |-> g.copies, size |-> g.size,
                       prizes |-> Append(g.prizes, tx.prize), reclaimed |-> g.reclaimed],
                      c.wallet \ ({tx.prize} \ Fungible))
      BY <1>1, <1>2, <2>2, <2>3 DEF ChainOf
    <2>5. QED
      BY <1>3, <1>8, <2>2, <2>4 DEF Funds
  <1>9. CASE tx.kind = "activate"
    <2>1. Fill!CanActivate(tx, c)
      BY <1>9 DEF Fill!Lands
    <2>2. /\ g # Nothing /\ tx.at = Len(l) + 1
          /\ Len(g.prizes) = g.size /\ g.reclaimed = {}
      BY <2>1 DEF Fill!CanActivate, Fill!StagedAt, Fill!Full
    <2>3. d = [c EXCEPT !.live = Append(@, [copies |-> c.staged.copies,
                                            prizes |-> c.staged.prizes]),
                        !.staged = Nothing]
      BY <1>9 DEF Fill!Landed
    <2>4. d = ChainOf(c.template, Append(l, [copies |-> g.copies, prizes |-> g.prizes]),
                      Nothing, c.wallet)
      BY <1>1, <2>3 DEF ChainOf
    <2>5. QED
      BY <1>9, <2>2, <2>4 DEF Activates
  <1>10. CASE tx.kind = "reclaim"
    <2>1. Fill!CanReclaim(tx, c)
      BY <1>10 DEF Fill!Lands
    <2>2. /\ g # Nothing /\ tx.at = Len(l) + 1
          /\ tx.slot \in 1 .. Len(g.prizes) /\ tx.slot \notin g.reclaimed
          /\ g.prizes[tx.slot] = tx.prize
      BY <2>1 DEF Fill!CanReclaim, Fill!StagedAt
    <2>3. d = [c EXCEPT !.staged.reclaimed = @ \union {tx.slot},
                        !.wallet = @ \union {tx.prize}]
      BY <1>10 DEF Fill!Landed
    <2>4. d = ChainOf(c.template, l,
                      [copies |-> g.copies, size |-> g.size, prizes |-> g.prizes,
                       reclaimed |-> g.reclaimed \union {tx.slot}],
                      c.wallet \union {tx.prize})
      BY <1>1, <1>2, <2>2, <2>3 DEF ChainOf
    <2>5. QED
      BY <1>3, <1>10, <2>2, <2>4 DEF Reclaims
  <1>11. CASE tx.kind = "cancel"
    <2>1. Fill!CanCancel(tx, c)
      BY <1>11 DEF Fill!Lands
    <2>2. /\ g # Nothing /\ tx.at = Len(l) + 1
          /\ g.reclaimed = 1 .. Len(g.prizes)
      BY <2>1 DEF Fill!CanCancel, Fill!StagedAt
    <2>3. d = [c EXCEPT !.staged = Nothing]
      BY <1>11 DEF Fill!Landed
    <2>4. d = ChainOf(c.template, l, Nothing, c.wallet)
      BY <1>1, <2>3 DEF ChainOf
    <2>5. QED
      BY <1>11, <2>2, <2>4 DEF Cancels
  <1>12. QED
    BY <1>3, <1>4, <1>5, <1>6, <1>7, <1>8, <1>9, <1>10, <1>11

LEMMA PartsOfChain ==
  ASSUME NEW t, NEW l, NEW s, NEW w
  PROVE  LET c == ChainOf(t, l, s, w)
         IN  c.template = t /\ c.live = l /\ c.staged = s /\ c.wallet = w
  BY DEF ChainOf

LEMMA NothingIsNoBundle ==
  ASSUME NEW g \in Fill!StagedBundles \union {Nothing}
  PROVE  g # Nothing <=> g \in Fill!StagedBundles
  BY FillAssumption DEF Fill!StagingAssumption

\* The prizes of a staged bundle with one more.
LEMMA OneMorePrize ==
  ASSUME NEW s \in Seq(Prizes), NEW p \in Prizes
  PROVE  /\ Append(s, p) \in Seq(Prizes) /\ Len(s) \in Nat
         /\ Len(Append(s, p)) = Len(s) + 1
         /\ \A i \in 1 .. Len(s) : Append(s, p)[i] = s[i]
         /\ Append(s, p)[Len(s) + 1] = p
  BY AppendProperties, LenProperties

\* A chain whose staged bundle has another stake.
LEMMA SameElsewhere ==
  ASSUME NEW c, NEW d, NEW p, InOnePlace(c, p),
         p \in d.wallet <=> p \in c.wallet,
         AtStake(d, p) <=> AtStake(c, p),
         GivenAway(d, p) <=> GivenAway(c, p)
  PROVE  InOnePlace(d, p)
  BY DEF InOnePlace

LEMMA AddSound ==
  ASSUME NEW c, NEW g, NEW tx, ChainSound(c), c.staged = Nothing,
         tx.copies \in Nat \ {0}, tx.size \in Nat, c.template \in {"draft", "live"},
         g = [copies |-> tx.copies, size |-> tx.size, prizes |-> <<>>, reclaimed |-> {}]
  PROVE  ChainSound(ChainOf(c.template, c.live, g, c.wallet))
  <1> DEFINE d == ChainOf(c.template, c.live, g, c.wallet)
  <1>1. d.template = c.template /\ d.live = c.live /\ d.staged = g /\ d.wallet = c.wallet
    BY PartsOfChain
  <1>2. g \in Fill!StagedBundles /\ g.prizes = <<>> /\ Len(g.prizes) = 0 /\ g.reclaimed = {}
        /\ g.size \in Nat
    BY DEF Fill!StagedBundles
  <1>3. ChainTyped(d)
    BY <1>2 DEF ChainTyped, ChainSound, ChainOf
  <1> HIDE DEF d
  <1>4. StageSound(d)
    BY <1>1, <1>2 DEF StageSound, Different
  <1>5. ASSUME NEW p \in Prizes \ Fungible
        PROVE  InOnePlace(d, p)
    <2>1. ~AtStake(d, p) /\ ~AtStake(c, p)
      BY <1>1, <1>2 DEF AtStake
    <2>2. GivenAway(d, p) <=> GivenAway(c, p)
      BY <1>1 DEF GivenAway
    <2>3. QED
      BY <1>1, <2>1, <2>2, SameElsewhere DEF ChainSound
  <1>6. QED
    BY <1>1, <1>3, <1>4, <1>5 DEF ChainSound, d

LEMMA FundSound ==
  ASSUME NEW c, NEW p \in Prizes, NEW g, ChainSound(c), c.staged # Nothing,
         Len(c.staged.prizes) # c.staged.size, p \in c.wallet,
         \A k \in 1 .. Len(c.staged.prizes) : c.staged.prizes[k] # p,
         g = [copies |-> c.staged.copies, size |-> c.staged.size,
              prizes |-> Append(c.staged.prizes, p), reclaimed |-> c.staged.reclaimed]
  PROVE  ChainSound(ChainOf(c.template, c.live, g, c.wallet \ ({p} \ Fungible)))
  <1> DEFINE w == c.wallet \ ({p} \ Fungible)
             d == ChainOf(c.template, c.live, g, w)
             s == c.staged.prizes
             n == Len(s)
  <1>1. d.template = c.template /\ d.live = c.live /\ d.staged = g /\ d.wallet = w
    BY PartsOfChain
  <1>2. c.staged \in Fill!StagedBundles
    BY NothingIsNoBundle DEF ChainSound, ChainTyped
  <1>3. /\ s \in Seq(Prizes) /\ c.staged.size \in Nat /\ c.staged.copies \in Nat \ {0}
        /\ c.staged.reclaimed \in SUBSET Nat /\ c.wallet \in SUBSET Prizes
    BY <1>2 DEF Fill!StagedBundles, ChainSound, ChainTyped
  <1>4. /\ g.prizes = Append(s, p) /\ g.size = c.staged.size
        /\ g.reclaimed = c.staged.reclaimed
    OBVIOUS
  <1>5. /\ n \in Nat /\ g.prizes \in Seq(Prizes) /\ Len(g.prizes) = n + 1
        /\ \A i \in 1 .. n : g.prizes[i] = s[i]
        /\ g.prizes[n + 1] = p
    BY <1>3, <1>4, OneMorePrize
  <1>6. g \in Fill!StagedBundles /\ g # Nothing
    <2>1. g \in Fill!StagedBundles
      BY <1>3, <1>4, <1>5 DEF Fill!StagedBundles
    <2>2. QED
      BY <2>1, NothingIsNoBundle
  <1>7. ChainTyped(d)
    BY <1>6 DEF ChainTyped, ChainSound, ChainOf
  <1>8. /\ n < c.staged.size
        /\ \A i, j \in 1 .. n : i # j => s[i] # s[j]
        /\ c.staged.reclaimed \subseteq 1 .. n
    <2>1. /\ n <= c.staged.size /\ n # c.staged.size
          /\ c.staged.reclaimed \subseteq 1 .. n
          /\ \A i, j \in 1 .. n : i # j => s[i] # s[j]
      BY DEF ChainSound, StageSound, Different
    <2>2. n < c.staged.size
      BY <1>3, <1>5, <2>1
    <2>3. QED
      BY <2>1, <2>2
  <1> HIDE DEF d, s, n, w
  <1>9. StageSound(d)
    <2>1. \A i, j \in 1 .. n + 1 : i # j => g.prizes[i] # g.prizes[j]
      <3> SUFFICES ASSUME NEW i \in 1 .. n + 1, NEW j \in 1 .. n + 1, i # j
                   PROVE  g.prizes[i] # g.prizes[j]
        OBVIOUS
      <3>1. \A k \in 1 .. n : s[k] # p
        BY DEF s, n
      <3>2. (i \in 1 .. n \/ i = n + 1) /\ (j \in 1 .. n \/ j = n + 1)
        BY <1>5
      <3>3. QED
        BY <1>5, <1>8, <3>1, <3>2
    <2>2. Len(g.prizes) <= g.size /\ g.reclaimed \subseteq 1 .. Len(g.prizes)
      BY <1>3, <1>4, <1>5, <1>8
    <2>3. QED
      BY <1>1, <1>5, <2>1, <2>2 DEF StageSound, Different
  <1>10. ASSUME NEW q \in Prizes \ Fungible
         PROVE  InOnePlace(d, q)
    <2>1. InOnePlace(c, q)
      BY DEF ChainSound
    <2>2. GivenAway(d, q) <=> GivenAway(c, q)
      BY <1>1 DEF GivenAway
    <2>3. AtStake(c, q) <=> \E k \in 1 .. n : k \notin c.staged.reclaimed /\ s[k] = q
      BY DEF AtStake, s, n
    <2>4. AtStake(d, q) <=> \E k \in 1 .. n + 1 : k \notin g.reclaimed /\ g.prizes[k] = q
      BY <1>1, <1>5, <1>6 DEF AtStake
    <2>5. n + 1 \notin g.reclaimed
      BY <1>4, <1>5, <1>8
    <2>6. AtStake(d, q) <=> AtStake(c, q) \/ q = p
      <3>1. ASSUME AtStake(d, q) PROVE AtStake(c, q) \/ q = p
        <4>1. PICK k \in 1 .. n + 1 : k \notin g.reclaimed /\ g.prizes[k] = q
          BY <2>4, <3>1
        <4>2. k \in 1 .. n \/ k = n + 1
          BY <1>5
        <4>3. QED
          BY <1>4, <1>5, <2>3, <4>1, <4>2
      <3>2. ASSUME AtStake(c, q) PROVE AtStake(d, q)
        <4>1. PICK k \in 1 .. n : k \notin c.staged.reclaimed /\ s[k] = q
          BY <2>3, <3>2
        <4>2. k \in 1 .. n + 1
          BY <1>5
        <4>3. QED
          BY <1>4, <1>5, <2>4, <4>1, <4>2
      <3>3. ASSUME q = p PROVE AtStake(d, q)
        <4>1. n + 1 \in 1 .. n + 1
          BY <1>5
        <4>2. QED
          BY <1>5, <2>4, <2>5, <3>3, <4>1
      <3>4. QED
        BY <3>1, <3>2, <3>3
    <2>7. q \in d.wallet <=> q \in c.wallet /\ q # p
      BY <1>1 DEF w
    <2>8. QED
      BY <2>1, <2>2, <2>6, <2>7 DEF InOnePlace
  <1>11. c.template \in {"none", "mint"} => FALSE
    BY DEF ChainSound
  <1>12. QED
    BY <1>1, <1>7, <1>9, <1>10, <1>11 DEF ChainSound, d, w

LEMMA ReclaimSound ==
  ASSUME NEW c, NEW k \in Nat, NEW p \in Prizes, NEW g, ChainSound(c), c.staged # Nothing,
         k \in 1 .. Len(c.staged.prizes), k \notin c.staged.reclaimed,
         c.staged.prizes[k] = p,
         g = [copies |-> c.staged.copies, size |-> c.staged.size,
              prizes |-> c.staged.prizes, reclaimed |-> c.staged.reclaimed \union {k}]
  PROVE  ChainSound(ChainOf(c.template, c.live, g, c.wallet \union {p}))
  <1> DEFINE w == c.wallet \union {p}
             d == ChainOf(c.template, c.live, g, w)
             s == c.staged.prizes
             n == Len(s)
  <1>1. d.template = c.template /\ d.live = c.live /\ d.staged = g /\ d.wallet = w
    BY PartsOfChain
  <1>2. c.staged \in Fill!StagedBundles
    BY NothingIsNoBundle DEF ChainSound, ChainTyped
  <1>3. /\ s \in Seq(Prizes) /\ c.staged.size \in Nat /\ c.staged.copies \in Nat \ {0}
        /\ c.staged.reclaimed \in SUBSET Nat /\ c.wallet \in SUBSET Prizes
    BY <1>2 DEF Fill!StagedBundles, ChainSound, ChainTyped
  <1>4. /\ g.prizes = s /\ g.size = c.staged.size
        /\ g.reclaimed = c.staged.reclaimed \union {k}
    OBVIOUS
  <1>5. g \in Fill!StagedBundles /\ g # Nothing
    <2>1. g \in Fill!StagedBundles
      BY <1>3, <1>4 DEF Fill!StagedBundles
    <2>2. QED
      BY <2>1, NothingIsNoBundle
  <1>6. ChainTyped(d)
    BY <1>5 DEF ChainTyped, ChainSound, ChainOf
  <1>7. /\ n <= c.staged.size
        /\ \A i, j \in 1 .. n : i # j => s[i] # s[j]
        /\ c.staged.reclaimed \subseteq 1 .. n
    BY DEF ChainSound, StageSound, Different
  <1>8. k \in 1 .. n /\ s[k] = p /\ k \notin c.staged.reclaimed
    OBVIOUS
  <1> HIDE DEF d, s, n, w
  <1>9. Len(g.prizes) = n
    BY <1>4 DEF n
  <1>10. StageSound(d)
    BY <1>1, <1>4, <1>7, <1>8, <1>9 DEF StageSound, Different
  <1>11. ASSUME NEW q \in Prizes \ Fungible
         PROVE  InOnePlace(d, q)
    <2>1. InOnePlace(c, q)
      BY DEF ChainSound
    <2>2. GivenAway(d, q) <=> GivenAway(c, q)
      BY <1>1 DEF GivenAway
    <2>3. AtStake(c, q) <=> \E i \in 1 .. n : i \notin c.staged.reclaimed /\ s[i] = q
      BY DEF AtStake, s, n
    <2>4. AtStake(d, q) <=> \E i \in 1 .. n : i \notin g.reclaimed /\ s[i] = q
      BY <1>1, <1>4, <1>5, <1>9 DEF AtStake
    <2>5. AtStake(d, q) <=> AtStake(c, q) /\ q # p
      BY <1>4, <1>7, <1>8, <2>3, <2>4
    <2>6. q = p => AtStake(c, q)
      BY <1>8, <2>3
    <2>7. q \in d.wallet <=> q \in c.wallet \/ q = p
      BY <1>1 DEF w
    <2>8. QED
      BY <2>1, <2>2, <2>5, <2>6, <2>7 DEF InOnePlace
  <1>12. c.template \in {"none", "mint"} => FALSE
    BY DEF ChainSound
  <1>13. QED
    BY <1>1, <1>6, <1>10, <1>11, <1>12 DEF ChainSound, d, w

LEMMA CancelSound ==
  ASSUME NEW c, ChainSound(c), c.staged # Nothing,
         c.staged.reclaimed = 1 .. Len(c.staged.prizes)
  PROVE  ChainSound(ChainOf(c.template, c.live, Nothing, c.wallet))
  <1> DEFINE d == ChainOf(c.template, c.live, Nothing, c.wallet)
  <1>1. /\ d.template = c.template /\ d.live = c.live
        /\ d.staged = Nothing /\ d.wallet = c.wallet
    BY PartsOfChain
  <1>2. ChainTyped(d)
    BY DEF ChainTyped, ChainSound, ChainOf
  <1> HIDE DEF d
  <1>3. StageSound(d)
    BY <1>1 DEF StageSound
  <1>4. ASSUME NEW p \in Prizes \ Fungible
        PROVE  InOnePlace(d, p)
    <2>1. ~AtStake(d, p) /\ ~AtStake(c, p)
      BY <1>1 DEF AtStake
    <2>2. GivenAway(d, p) <=> GivenAway(c, p)
      BY <1>1 DEF GivenAway
    <2>3. QED
      BY <1>1, <2>1, <2>2, SameElsewhere DEF ChainSound
  <1>5. QED
    BY <1>1, <1>2, <1>3, <1>4 DEF ChainSound, d

LEMMA ActivateSound ==
  ASSUME NEW c, NEW g, ChainSound(c), c.staged # Nothing, c.staged.reclaimed = {},
         g = [copies |-> c.staged.copies, prizes |-> c.staged.prizes]
  PROVE  ChainSound(ChainOf(c.template, Append(c.live, g), Nothing, c.wallet))
  <1>0. PICK l : l = Append(c.live, g)
    OBVIOUS
  <1> DEFINE d == ChainOf(c.template, l, Nothing, c.wallet)
             n == Len(c.live)
  <1>1. d.template = c.template /\ d.live = l /\ d.staged = Nothing /\ d.wallet = c.wallet
    BY PartsOfChain
  <1>2. c.staged \in Fill!StagedBundles
    BY NothingIsNoBundle DEF ChainSound, ChainTyped
  <1>3. g \in Fill!Bundles
    BY <1>2 DEF Fill!StagedBundles, Fill!Bundles
  <1>4. c.live \in Seq(Fill!Bundles)
    BY DEF ChainSound, ChainTyped
  <1>5. /\ l \in Seq(Fill!Bundles) /\ n \in Nat /\ Len(l) = n + 1
        /\ \A i \in 1 .. n : l[i] = c.live[i]
        /\ l[n + 1] = g
    BY <1>0, <1>3, <1>4, AppendProperties, LenProperties
  <1> HIDE DEF n
  <1>6. ChainTyped(d)
    BY <1>5 DEF ChainTyped, ChainSound, ChainOf
  <1> HIDE DEF d
  <1>7. StageSound(d)
    BY <1>1 DEF StageSound
  <1>8. ASSUME NEW p \in Prizes \ Fungible
        PROVE  InOnePlace(d, p)
    <2>1. InOnePlace(c, p)
      BY DEF ChainSound
    <2>2. ~AtStake(d, p)
      BY <1>1 DEF AtStake
    <2>3. AtStake(c, p) <=> \E k \in 1 .. Len(g.prizes) : g.prizes[k] = p
      BY DEF AtStake
    <2>4. GivenAway(c, p) <=>
            \E i \in 1 .. n : \E k \in 1 .. Len(c.live[i].prizes) : c.live[i].prizes[k] = p
      BY DEF GivenAway, n
    <2>5. GivenAway(d, p) <=>
            \E i \in 1 .. n + 1 : \E k \in 1 .. Len(l[i].prizes) : l[i].prizes[k] = p
      BY <1>1, <1>5 DEF GivenAway
    <2>6. \A i : i \in 1 .. n + 1 <=> i \in 1 .. n \/ i = n + 1
      BY <1>5
    <2>7. GivenAway(d, p) <=> GivenAway(c, p) \/ AtStake(c, p)
      BY <1>5, <2>3, <2>4, <2>5, <2>6
    <2>8. QED
      BY <1>1, <2>1, <2>2, <2>7 DEF InOnePlace
  <1>9. c.template \in {"none", "mint"} => FALSE
    BY DEF ChainSound
  <1>10. QED
    BY <1>0, <1>1, <1>6, <1>7, <1>8, <1>9 DEF ChainSound, d

LEMMA TemplateSound ==
  ASSUME NEW c, NEW t \in {"mint", "draft", "live"}, ChainSound(c),
         t = "mint" => c.template = "none"
  PROVE  ChainSound(ChainOf(t, c.live, c.staged, c.wallet))
  <1> DEFINE d == ChainOf(t, c.live, c.staged, c.wallet)
  <1>1. d.template = t /\ d.live = c.live /\ d.staged = c.staged /\ d.wallet = c.wallet
    BY PartsOfChain
  <1>2. ChainTyped(d)
    BY DEF ChainTyped, ChainSound, ChainOf
  <1> HIDE DEF d
  <1>3. StageSound(d)
    BY <1>1 DEF StageSound, ChainSound
  <1>4. ASSUME NEW p \in Prizes \ Fungible
        PROVE  InOnePlace(d, p)
    BY <1>1 DEF ChainSound, InOnePlace, AtStake, GivenAway
  <1>5. d.template \in {"none", "mint"} => d.staged = Nothing /\ d.live = <<>>
    BY <1>1 DEF ChainSound
  <1>6. QED
    BY <1>2, <1>3, <1>4, <1>5 DEF ChainSound, d

\* Whatever is accepted keeps the chain sound.
LEMMA LandsSound ==
  ASSUME NEW c, NEW tx \in Fill!Transactions, NEW d,
         ChainSound(c), Fill!Lands(tx, c), d = Fill!Landed(tx, c)
  PROVE  ChainSound(d)
  <1>1. ChainTyped(c)
    BY DEF ChainSound
  <1>2. CASE Mints(c, tx, d)
    BY <1>2, TemplateSound DEF Mints
  <1>3. CASE Opens(c, tx, d)
    BY <1>3, TemplateSound DEF Opens
  <1>4. CASE Seals(c, tx, d)
    BY <1>4, TemplateSound DEF Seals
  <1>5. CASE Adds(c, tx, d)
    BY <1>5, AddSound DEF Adds
  <1>6. CASE Funds(c, tx, d)
    BY <1>6, FundSound DEF Funds
  <1>7. CASE Activates(c, tx, d)
    BY <1>7, ActivateSound DEF Activates
  <1>8. CASE Reclaims(c, tx, d)
    <2>1. PICK h : h = [copies |-> c.staged.copies, size |-> c.staged.size,
                        prizes |-> c.staged.prizes,
                        reclaimed |-> c.staged.reclaimed \union {tx.slot}]
      OBVIOUS
    <2>2. ChainSound(ChainOf(c.template, c.live, h, c.wallet \union {tx.prize}))
      BY <1>8, <2>1, ReclaimSound DEF Reclaims
    <2>3. QED
      BY <1>8, <2>1, <2>2 DEF Reclaims
  <1>9. CASE Cancels(c, tx, d)
    BY <1>9, CancelSound DEF Cancels
  <1>10. QED
    BY <1>1, <1>2, <1>3, <1>4, <1>5, <1>6, <1>7, <1>8, <1>9, LandsAs

\* As many different prizes as were planned, all of them planned: those that were planned.
LEMMA FullIsPlanned ==
  ASSUME NEW p, NEW q, Len(p) \in Nat, Len(p) = Len(q),
         Different(p), Among(p, q)
  PROVE  Among(q, p)
  <1>0. PICK n \in Nat : n = Len(p) /\ n = Len(q)
    OBVIOUS
  <1>1. ASSUME NEW m \in 1 .. n
        PROVE  \E i \in 1 .. n : p[i] = q[m]
    <2> SUFFICES ASSUME \A i \in 1 .. n : p[i] # q[m]
                 PROVE  FALSE
      OBVIOUS
    <2> DEFINE S == 1 .. n
               T == S \ {m}
    <2>1. \A i \in S : \E k \in T : p[i] = q[k]
      BY <1>0 DEF Among
    <2>2. PICK f \in [S -> T] : \A i \in S : p[i] = q[f[i]]
      <3> DEFINE g == [i \in S |-> CHOOSE k \in T : p[i] = q[k]]
      <3>1. \A i \in S : (CHOOSE k \in T : p[i] = q[k]) \in T
                          /\ p[i] = q[CHOOSE k \in T : p[i] = q[k]]
        BY <2>1
      <3> HIDE DEF S, T
      <3>2. g \in [S -> T] /\ \A i \in S : p[i] = q[g[i]]
        BY <3>1
      <3>3. QED
        BY <3>2
    <2>3. IsFiniteSet(S) /\ Cardinality(S) = n
      <3>1. 1 \in Int /\ n \in Int
        OBVIOUS
      <3>2. n >= 1
        OBVIOUS
      <3>3. QED
        BY <3>1, <3>2, FS_Interval
    <2>4. IsFiniteSet(T) /\ Cardinality(T) = n - 1
      BY <2>3, FS_RemoveElement
    <2> HIDE DEF S, T
    <2>5. Cardinality(T) < Cardinality(S)
      BY <2>3, <2>4
    <2>6. \E x, y \in S : x # y /\ f[x] = f[y]
      BY <2>2, <2>3, <2>4, <2>5, FS_PigeonHole
    <2>7. PICK x \in S, y \in S : x # y /\ f[x] = f[y]
      BY <2>6
    <2>8. p[x] = p[y]
      BY <2>2, <2>7
    <2>9. QED
      BY <1>0, <2>7, <2>8 DEF S, Different
  <1>2. QED
    BY <1>0, <1>1 DEF Among

\* What is sent for a request r leaves in the staged bundle what r asks for.
LEMMA LandsForDraft ==
  ASSUME NEW c, NEW tx \in Fill!Transactions, NEW d, NEW r,
         r.start \in Nat, r.plan \in Seq(Fill!Bundles), ChainSound(c),
         Fill!Lands(tx, c), d = Fill!Landed(tx, c),
         SentFor(tx, r), StagedFor(c, r)
  PROVE  StagedFor(d, r)
  <1>1. ChainTyped(c)
    BY DEF ChainSound
  <1>2. CASE Mints(c, tx, d) \/ Opens(c, tx, d) \/ Seals(c, tx, d)
    <2>1. d.staged = c.staged /\ d.live = c.live
      BY <1>2, PartsOfChain DEF Mints, Opens, Seals
    <2>2. QED
      BY <2>1 DEF StagedFor
  <1>3. CASE Adds(c, tx, d)
    <2>1. /\ d.live = c.live
          /\ d.staged = [copies |-> tx.copies, size |-> tx.size,
                         prizes |-> <<>>, reclaimed |-> {}]
      BY <1>3, PartsOfChain DEF Adds
    <2>2. tx.kind = "add" /\ tx.at = Len(c.live) + 1
      BY <1>3 DEF Adds
    <2>3. Len(d.staged.prizes) = 0 /\ d.staged.copies = tx.copies /\ d.staged.size = tx.size
      BY <2>1
    <2>4. QED
      BY <2>1, <2>2, <2>3 DEF StagedFor, SentFor, Among
  <1>4. CASE Funds(c, tx, d)
    <2> DEFINE n == Len(c.live) + 1 - r.start
               s == c.staged.prizes
    <2>1. /\ d.live = c.live /\ d.staged.prizes = Append(s, tx.prize)
          /\ d.staged.copies = c.staged.copies /\ d.staged.size = c.staged.size
      BY <1>4 DEF Funds, ChainOf
    <2>2. /\ c.staged # Nothing /\ tx.kind = "fund" /\ tx.at = Len(c.live) + 1
          /\ tx.prize \in Prizes
      BY <1>4 DEF Funds
    <2>3. /\ n \in 1 .. Len(r.plan)
          /\ c.staged.copies = r.plan[n].copies
          /\ c.staged.size = Len(r.plan[n].prizes)
          /\ \A i \in 1 .. Len(s) :
               \E k \in 1 .. Len(r.plan[n].prizes) : s[i] = r.plan[n].prizes[k]
      BY <2>2 DEF StagedFor, Among
    <2>4. tx.at - r.start = n
      BY <2>2
    <2>5. \E k \in 1 .. Len(r.plan[n].prizes) : tx.prize = r.plan[n].prizes[k]
      BY <2>2, <2>4 DEF SentFor
    <2>6. s \in Seq(Prizes)
      BY <1>1, <2>2, NothingIsNoBundle DEF ChainTyped, Fill!StagedBundles
    <2>7. /\ Len(s) \in Nat /\ Len(d.staged.prizes) = Len(s) + 1
          /\ \A i \in 1 .. Len(s) : d.staged.prizes[i] = s[i]
          /\ d.staged.prizes[Len(s) + 1] = tx.prize
      BY <2>1, <2>2, <2>6, OneMorePrize
    <2> HIDE DEF s, n
    <2>8. Among(d.staged.prizes, r.plan[n].prizes)
      <3> SUFFICES ASSUME NEW i \in 1 .. Len(s) + 1
                   PROVE  \E k \in 1 .. Len(r.plan[n].prizes) :
                            d.staged.prizes[i] = r.plan[n].prizes[k]
        BY <2>7 DEF Among
      <3>1. i \in 1 .. Len(s) \/ i = Len(s) + 1
        BY <2>7
      <3>2. QED
        BY <2>3, <2>5, <2>7, <3>1
    <2>9. QED
      BY <2>1, <2>3, <2>8 DEF StagedFor, n
  <1>5. CASE Activates(c, tx, d) \/ Cancels(c, tx, d)
    <2>1. d.staged = Nothing
      BY <1>5, PartsOfChain DEF Activates, Cancels
    <2>2. QED
      BY <2>1 DEF StagedFor
  <1>6. CASE Reclaims(c, tx, d)
    <2>1. /\ d.live = c.live /\ d.staged.prizes = c.staged.prizes /\ c.staged # Nothing
          /\ d.staged.copies = c.staged.copies /\ d.staged.size = c.staged.size
      BY <1>6, PartsOfChain DEF Reclaims
    <2>2. QED
      BY <2>1 DEF StagedFor
  <1>7. QED
    BY <1>1, <1>2, <1>3, <1>4, <1>5, <1>6, LandsAs

\* A bundle that goes live is as r asks, if what is staged is there for r.
LEMMA LandsPlanned ==
  ASSUME NEW c, NEW tx \in Fill!Transactions, NEW d, NEW r, NEW A,
         r \in A \/ \E v \in A : v.plan = r.plan /\ v.start = r.start,
         r.start \in Nat, r.plan \in Seq(Fill!Bundles), ChainSound(c),
         Fill!Lands(tx, c), d = Fill!Landed(tx, c),
         StagedFor(c, r), LivePlanned(c, A)
  PROVE  LivePlanned(d, A)
  <1>1. ChainTyped(c)
    BY DEF ChainSound
  <1>2. CASE d.live = c.live
    BY <1>2 DEF LivePlanned
  <1>3. CASE Activates(c, tx, d)
    <2> DEFINE n == Len(c.live)
    <2>1. PICK g : g = [copies |-> c.staged.copies, prizes |-> c.staged.prizes]
      OBVIOUS
    <2>2. /\ d.live = Append(c.live, g) /\ c.staged # Nothing
          /\ Len(c.staged.prizes) = c.staged.size
      BY <1>3, <2>1 DEF Activates, ChainOf
    <2>3. c.staged \in Fill!StagedBundles
      BY <1>1, <2>2, NothingIsNoBundle DEF ChainTyped
    <2>4. g \in Fill!Bundles /\ c.live \in Seq(Fill!Bundles)
      BY <1>1, <2>1, <2>3 DEF ChainTyped, Fill!StagedBundles, Fill!Bundles
    <2>5. /\ n \in Nat /\ Len(d.live) = n + 1 /\ d.live[n + 1] = g
          /\ \A i \in 1 .. n : d.live[i] = c.live[i]
      BY <2>2, <2>4, AppendProperties, LenProperties
    <2>6. PICK m : m = n + 1 - r.start
      OBVIOUS
    <2>7. /\ m \in 1 .. Len(r.plan)
          /\ c.staged.copies = r.plan[m].copies
          /\ c.staged.size = Len(r.plan[m].prizes)
          /\ Among(c.staged.prizes, r.plan[m].prizes)
      BY <2>2, <2>6 DEF StagedFor
    <2>8. g.prizes = c.staged.prizes /\ g.copies = c.staged.copies
      BY <2>1
    <2>9. /\ Len(c.staged.prizes) \in Nat
          /\ Len(c.staged.prizes) = Len(r.plan[m].prizes)
      BY <2>2, <2>3, <2>7 DEF Fill!StagedBundles
    <2>10. Different(c.staged.prizes)
      BY <2>2 DEF ChainSound, StageSound
    <2>11. Among(r.plan[m].prizes, c.staged.prizes)
      BY <2>7, <2>9, <2>10, FullIsPlanned
    <2>12. Planned(g, r, m)
      BY <2>7, <2>8, <2>11 DEF Planned
    <2>13. PICK v \in A : v.plan = r.plan /\ v.start = r.start
      OBVIOUS
    <2>14. \A i : i = n + 1 => Planned(d.live[i], v, i - v.start)
      <3> SUFFICES ASSUME NEW i, i = n + 1
                   PROVE  Planned(d.live[i], v, i - v.start)
        OBVIOUS
      <3>1. i - v.start = m /\ v.plan = r.plan
        BY <2>6, <2>13
      <3>2. d.live[i] = g
        BY <2>5
      <3>3. QED
        BY <2>12, <3>1, <3>2 DEF Planned
    <2>15. \A i \in 1 .. n : \E u \in A : Planned(d.live[i], u, i - u.start)
      BY <2>5 DEF LivePlanned
    <2> HIDE DEF n
    <2>16. ASSUME NEW i \in 1 .. n + 1
           PROVE  \E u \in A : Planned(d.live[i], u, i - u.start)
      <3>1. i \in 1 .. n \/ i = n + 1
        BY <2>5
      <3>2. CASE i = n + 1
        BY <2>13, <2>14, <3>2
      <3>3. QED
        BY <2>15, <3>1, <3>2
    <2>17. QED
      BY <2>5, <2>16 DEF LivePlanned
  <1>4. CASE ~Activates(c, tx, d)
    <2>1. d.live = c.live
      BY <1>1, <1>4, LandsAs DEF Mints, Opens, Seals, Adds, Funds, Reclaims, Cancels, ChainOf
    <2>2. QED
      BY <1>2, <2>1
  <1>5. QED
    BY <1>3, <1>4

-----------------------------------------------------------------------------
(* What a tab does.                                                          *)

LEMMA CountsAlike ==
  ASSUME NEW S
  PROVE  Fill!Cardinality(S) = Cardinality(S) /\ (Fill!IsFiniteSet(S) <=> IsFiniteSet(S))
  BY DEF Fill!Cardinality, Cardinality, Fill!IsFiniteSet, IsFiniteSet

LEMMA IdleGoes ==
  ASSUME NEW u
  PROVE  Goes(u, Fill!Idle) /\ Fill!Idle.at = "idle"
  <1>1. Fill!Idle \in Fill!TabStates
    BY DEF Fill!Idle, Fill!TabStates
  <1>2. Fill!Idle.at = "idle"
    BY DEF Fill!Idle
  <1>3. QED
    BY <1>1, <1>2 DEF Goes, SendsOn

LEMMA StopsMoves ==
  ASSUME NEW s \in Tabs, Fill!Stop(s)
  PROVE  Moves(s)
  BY IdleGoes DEF Fill!Stop, Moves

LEMMA SendsGoes ==
  ASSUME NEW u \in Fill!TabStates, NEW q \in Seq(Fill!Transactions), NEW t,
         t = [u EXCEPT !.at = "send", !.queue = q],
         Len(q) > 0, q[Len(q)].kind # "reclaim",
         \A i \in 1 .. Len(q) : SentFor(q[i], u)
  PROVE  Goes(u, t)
  <1>1. /\ t.at = "send" /\ t.queue = q /\ t.plan = u.plan /\ t.start = u.start
        /\ t \in Fill!TabStates
    BY DEF Fill!TabStates
  <1>2. \A i \in 1 .. Len(q) : SentFor(q[i], t)
    BY <1>1 DEF SentFor
  <1>3. QED
    BY <1>1, <1>2 DEF Goes, SendsOn

LEMMA OneSent ==
  ASSUME NEW tx \in Fill!Transactions
  PROVE  <<tx>> \in Seq(Fill!Transactions) /\ Len(<<tx>>) = 1 /\ <<tx>>[1] = tx
  OBVIOUS

\* One transaction that is not a reclaim.
LEMMA SendsMoves ==
  ASSUME TabsSound, NEW s \in Tabs, NEW tx \in Fill!Transactions,
         tx.kind # "reclaim", SentFor(tx, tab[s]), Fill!Sends(s, <<tx>>)
  PROVE  Moves(s)
  <1>1. tab[s] \in Fill!TabStates
    BY DEF TabsSound
  <1>2. PICK t : t = [tab[s] EXCEPT !.at = "send", !.queue = <<tx>>]
    OBVIOUS
  <1>3. tab' = [tab EXCEPT ![s] = t]
    BY <1>2 DEF Fill!Sends
  <1>4. PICK q \in Seq(Fill!Transactions) :
          q = <<tx>> /\ Len(q) = 1 /\ q[1] = tx
    BY OneSent
  <1>5. q[Len(q)].kind # "reclaim" /\ Len(q) > 0
    BY <1>4
  <1>6. \A i \in 1 .. Len(q) : SentFor(q[i], tab[s])
    <2>1. \A i \in 1 .. Len(q) : i = 1
      BY <1>4
    <2>2. QED
      BY <1>4, <2>1
  <1>7. Goes(tab[s], t)
    BY <1>1, <1>2, <1>4, <1>5, <1>6, SendsGoes
  <1>8. QED
    BY <1>3, <1>7 DEF Moves

LEMMA SnapshotMoves ==
  ASSUME TabsSound, ChainTyped(chain), NEW s \in Tabs,
         NEW at \in {"bundle", "staged", "publish"}, Fill!Snapshot(s, at)
  PROVE  Moves(s)
  <1>1. tab[s] \in Fill!TabStates
    BY DEF TabsSound
  <1>2. Len(chain.live) \in Nat
    BY DEF ChainTyped
  <1>3. PICK t : t = [tab[s] EXCEPT !.at = at, !.count = Len(chain.live),
                                    !.draft = (chain.template = "draft")]
    OBVIOUS
  <1>4. tab' = [tab EXCEPT ![s] = t]
    BY <1>3 DEF Fill!Snapshot
  <1>5. t \in Fill!TabStates
    BY <1>1, <1>2, <1>3 DEF Fill!TabStates
  <1>6. t.at # "send" /\ t.plan = tab[s].plan /\ t.start = tab[s].start
    BY <1>1, <1>3 DEF Fill!TabStates
  <1>7. QED
    BY <1>4, <1>5, <1>6 DEF Moves, Goes, SendsOn

LEMMA ReadForCreateMoves ==
  ASSUME TabsSound, ChainTyped(chain), NEW s \in Tabs, Fill!ReadForCreate(s)
  PROVE  Moves(s)
  <1>1. CASE Fill!Sends(s, <<[kind |-> "mint"]>>)
    <2>1. [kind |-> "mint"] \in Fill!Transactions
      BY DEF Fill!Transactions
    <2>2. SentFor([kind |-> "mint"], tab[s])
      BY DEF SentFor
    <2>3. QED
      BY <1>1, <2>1, <2>2, SendsMoves
  <1>2. CASE Fill!Sends(s, <<[kind |-> "template"]>>)
    <2>1. [kind |-> "template"] \in Fill!Transactions
      BY DEF Fill!Transactions
    <2>2. SentFor([kind |-> "template"], tab[s])
      BY DEF SentFor
    <2>3. QED
      BY <1>2, <2>1, <2>2, SendsMoves
  <1>3. CASE Fill!Snapshot(s, "bundle")
    BY <1>3, SnapshotMoves
  <1>4. CASE Fill!Stop(s)
    BY <1>4, StopsMoves
  <1>5. QED
    BY <1>1, <1>2, <1>3, <1>4 DEF Fill!ReadForCreate

LEMMA ReadForAppendMoves ==
  ASSUME TabsSound, ChainTyped(chain), NEW s \in Tabs, Fill!ReadForAppend(s)
  PROVE  Moves(s)
  BY SnapshotMoves, StopsMoves DEF Fill!ReadForAppend

LEMMA ReadForCancelMoves ==
  ASSUME TabsSound, ChainTyped(chain), NEW s \in Tabs, Fill!ReadForCancel(s)
  PROVE  Moves(s)
  <1>1. CASE Fill!Stop(s)
    BY <1>1, StopsMoves
  <1>2. ASSUME NEW at \in {"publish", "staged"}, Fill!Snapshot(s, at)
        PROVE  Moves(s)
    BY <1>2, SnapshotMoves
  <1>3. QED
    BY <1>1, <1>2 DEF Fill!ReadForCancel

LEMMA SealIsSent ==
  ASSUME TabsSound, NEW s \in Tabs, Fill!Sends(s, <<[kind |-> "seal"]>>)
  PROVE  Moves(s)
  <1>1. [kind |-> "seal"] \in Fill!Transactions
    BY DEF Fill!Transactions
  <1>2. SentFor([kind |-> "seal"], tab[s])
    BY DEF SentFor
  <1>3. QED
    BY <1>1, <1>2, SendsMoves

LEMMA FinishStagingMoves ==
  ASSUME TabsSound, NEW s \in Tabs, Fill!FinishStaging(s)
  PROVE  Moves(s)
  BY SealIsSent, StopsMoves DEF Fill!FinishStaging

LEMMA FinishCancelMoves ==
  ASSUME TabsSound, NEW s \in Tabs, Fill!FinishCancel(s)
  PROVE  Moves(s)
  BY SealIsSent, StopsMoves DEF Fill!FinishCancel

\* The bundle at hand, and its slots.
LEMMA BundleAtHand ==
  ASSUME TabsSound, ChainTyped(chain), NEW s \in Tabs, tab[s].n <= Len(tab[s].plan)
  PROVE  /\ Fill!Position(s) \in Nat /\ Fill!Position(s) - tab[s].start = tab[s].n
         /\ tab[s].n \in 1 .. Len(tab[s].plan)
         /\ Fill!Planned(s) = tab[s].plan[tab[s].n] /\ Fill!Planned(s) \in Fill!Bundles
         /\ Fill!Exists(s) => Fill!OnChain(s).prizes \in Seq(Prizes)
         /\ Fill!Exists(s) => Fill!NextSlot(s) \in Nat \ {0}
  <1>1. tab[s] \in Fill!TabStates
    BY DEF TabsSound
  <1>2. /\ tab[s].n \in Nat \ {0} /\ tab[s].start \in Nat /\ tab[s].slot \in Nat
        /\ tab[s].plan \in Seq(Fill!Bundles)
    BY <1>1 DEF Fill!TabStates
  <1>3. tab[s].n \in 1 .. Len(tab[s].plan)
    BY <1>2
  <1>4. Fill!Planned(s) = tab[s].plan[tab[s].n] /\ Fill!Planned(s) \in Fill!Bundles
    BY <1>2, <1>3 DEF Fill!Planned
  <1>5. Fill!Position(s) \in Nat \ {0} /\ Fill!Position(s) - tab[s].start = tab[s].n
    BY <1>2 DEF Fill!Position
  <1>6. ASSUME Fill!Exists(s)
        PROVE  Fill!OnChain(s).prizes \in Seq(Prizes)
    <2>1. CASE Fill!IsLive(s)
      <3>1. Fill!Position(s) \in 1 .. Len(chain.live) /\ chain.live \in Seq(Fill!Bundles)
        BY <1>5, <2>1 DEF Fill!IsLive, ChainTyped
      <3>2. chain.live[Fill!Position(s)] \in Fill!Bundles
        BY <3>1
      <3>3. Fill!OnChain(s).prizes = chain.live[Fill!Position(s)].prizes
        BY <2>1 DEF Fill!OnChain
      <3>4. QED
        BY <3>2, <3>3 DEF Fill!Bundles
    <2>2. CASE ~Fill!IsLive(s)
      <3>1. chain.staged # Nothing
        BY <1>6, <2>2 DEF Fill!Exists, Fill!IsStaged
      <3>2. chain.staged \in Fill!StagedBundles
        BY <3>1, NothingIsNoBundle DEF ChainTyped
      <3>3. Fill!OnChain(s).prizes = chain.staged.prizes
        BY <2>2 DEF Fill!OnChain
      <3>4. QED
        BY <3>2, <3>3 DEF Fill!StagedBundles
    <2>3. QED
      BY <2>1, <2>2
  <1>7. ASSUME Fill!Exists(s)
        PROVE  Fill!NextSlot(s) \in Nat \ {0}
    <2>1. PICK m : m = Len(Fill!OnChain(s).prizes)
      OBVIOUS
    <2>2. m \in Nat
      BY <1>6, <1>7, <2>1, LenProperties
    <2>3. Fill!NextSlot(s) = IF m < tab[s].slot THEN tab[s].slot ELSE m + 1
      BY <2>1 DEF Fill!NextSlot
    <2>4. QED
      BY <1>2, <2>2, <2>3
  <1>8. QED
    BY <1>3, <1>4, <1>5, <1>6, <1>7

LEMMA ReadBundleMoves ==
  ASSUME TabsSound, ChainTyped(chain), NEW s \in Tabs, Fill!ReadBundle(s)
  PROVE  Moves(s)
  <1> DEFINE u == tab[s]
             at == Fill!Position(s)
             g == Fill!Planned(s)
             k == Fill!NextSlot(s)
  <1>1. u \in Fill!TabStates
    BY DEF TabsSound
  <1>2. u.n <= Len(u.plan)
    BY DEF Fill!ReadBundle
  <1>3. /\ at \in Nat /\ at - u.start = u.n /\ u.n \in 1 .. Len(u.plan)
        /\ g = u.plan[u.n] /\ g \in Fill!Bundles
        /\ Fill!Exists(s) => k \in Nat \ {0}
    BY <1>2, BundleAtHand
  <1>4. /\ g.copies \in Nat \ {0} /\ g.prizes \in Seq(Prizes) /\ Len(g.prizes) \in Nat
    <2>1. PICK h : h = g
      OBVIOUS
    <2>2. h \in Fill!Bundles
      BY <1>3, <2>1
    <2>3. h.copies \in Nat \ {0} /\ h.prizes \in Seq(Prizes) /\ Len(h.prizes) \in Nat
      BY <2>2 DEF Fill!Bundles
    <2>4. QED
      BY <2>1, <2>3
  <1>5. CASE Fill!Stop(s)
    BY <1>5, StopsMoves
  <1>6. CASE Fill!Sends(s, <<[kind |-> "add", at |-> at, copies |-> g.copies,
                              size |-> Len(g.prizes)]>>)
    <2>1. PICK tx : tx = [kind |-> "add", at |-> at, copies |-> g.copies,
                          size |-> Len(g.prizes)]
      OBVIOUS
    <2>2. tx \in Fill!Transactions
      BY <1>3, <1>4, <2>1 DEF Fill!Transactions
    <2>3. /\ tx.kind = "add" /\ tx.at = at /\ tx.copies = g.copies
          /\ tx.size = Len(g.prizes)
      BY <2>1
    <2>4. SentFor(tx, u)
      BY <1>3, <2>3 DEF SentFor
    <2>5. QED
      BY <1>6, <2>1, <2>2, <2>3, <2>4, SendsMoves
  <1>7. CASE /\ Fill!Exists(s) /\ k <= Len(g.prizes)
             /\ tab' = [tab EXCEPT ![s] =
                  [@ EXCEPT !.at = "send", !.slot = k,
                            !.queue = <<[kind |-> "fund", at |-> at,
                                         prize |-> g.prizes[k]]>>]]
    <2>1. PICK tx : tx = [kind |-> "fund", at |-> at, prize |-> g.prizes[k]]
      OBVIOUS
    <2>2. k \in 1 .. Len(g.prizes) /\ g.prizes[k] \in Prizes
      BY <1>3, <1>4, <1>7
    <2>3. tx \in Fill!Transactions
      BY <1>3, <2>1, <2>2 DEF Fill!Transactions
    <2>4. tx.kind = "fund" /\ tx.at = at /\ tx.prize = g.prizes[k]
      BY <2>1
    <2>5. SentFor(tx, u)
      BY <1>3, <2>2, <2>4 DEF SentFor
    <2>6. PICK q \in Seq(Fill!Transactions) :
            q = <<tx>> /\ Len(q) = 1 /\ q[1] = tx
      BY <2>3, OneSent
    <2>7. PICK t : t = [u EXCEPT !.at = "send", !.slot = k, !.queue = q]
      OBVIOUS
    <2>8. tab' = [tab EXCEPT ![s] = t]
      BY <1>7, <2>1, <2>6, <2>7
    <2>9. /\ t \in Fill!TabStates /\ t.at = "send" /\ t.queue = q
          /\ t.plan = u.plan /\ t.start = u.start
      BY <1>1, <1>3, <1>7, <2>7 DEF Fill!TabStates
    <2>10. \A i \in 1 .. Len(q) : i = 1
      BY <2>6
    <2>11. SentFor(tx, t)
      BY <2>5, <2>9 DEF SentFor
    <2>12. \A i \in 1 .. Len(q) : SentFor(q[i], t)
      BY <2>6, <2>10, <2>11
    <2>13. q[Len(q)].kind # "reclaim" /\ Len(q) > 0
      BY <2>4, <2>6
    <2>14. Goes(u, t)
      BY <2>9, <2>12, <2>13 DEF Goes, SendsOn
    <2>15. QED
      BY <2>8, <2>14 DEF Moves
  <1>8. CASE Fill!Sends(s, <<[kind |-> "activate", at |-> at]>>)
    <2>1. PICK tx : tx = [kind |-> "activate", at |-> at]
      OBVIOUS
    <2>2. tx \in Fill!Transactions /\ tx.kind = "activate"
      BY <1>3, <2>1 DEF Fill!Transactions
    <2>3. SentFor(tx, u)
      BY <2>2 DEF SentFor
    <2>4. QED
      BY <1>8, <2>1, <2>2, <2>3, SendsMoves
  <1>9. CASE tab' = [tab EXCEPT ![s] = Fill!NextBundle(s)]
    <2>1. PICK t : t = Fill!NextBundle(s)
      OBVIOUS
    <2>2. /\ t \in Fill!TabStates /\ t.at = "bundle"
          /\ t.plan = u.plan /\ t.start = u.start
      <3>1. PICK v : v = u
        OBVIOUS
      <3>2. t = [v EXCEPT !.at = "bundle", !.n = v.n + 1, !.slot = 0, !.queue = <<>>]
        BY <2>1, <3>1 DEF Fill!NextBundle
      <3>3. v \in Fill!TabStates /\ v.n \in Nat \ {0} /\ v.n + 1 \in Nat \ {0}
        BY <1>1, <3>1 DEF Fill!TabStates
      <3>4. /\ t \in Fill!TabStates /\ t.at = "bundle"
            /\ t.plan = v.plan /\ t.start = v.start
        <4>1. <<>> \in Seq(Fill!Transactions)
          OBVIOUS
        <4>2. QED
          BY <3>2, <3>3, <4>1 DEF Fill!TabStates
      <3>5. QED
        BY <3>1, <3>4
    <2>3. Goes(u, t)
      BY <2>2 DEF Goes, SendsOn
    <2>4. QED
      BY <1>9, <2>1, <2>3 DEF Moves
  <1>10. QED
    BY <1>5, <1>6, <1>7, <1>8, <1>9 DEF Fill!ReadBundle

LEMMA ReadStagedMoves ==
  ASSUME TabsSound, ChainSound(chain), NEW s \in Tabs, Fill!ReadStaged(s)
  PROVE  Moves(s)
  <1> DEFINE u == tab[s]
             at == u.count + 1
             todo == Fill!Unreclaimed(chain.staged)
             m == Fill!Cardinality(todo)
  <1>1. u \in Fill!TabStates
    BY DEF TabsSound
  <1>2. CASE tab' = [tab EXCEPT ![s].at = "publish"]
    <2>1. PICK t : t = [u EXCEPT !.at = "publish"]
      OBVIOUS
    <2>2. tab' = [tab EXCEPT ![s] = t]
      BY <1>2, <2>1
    <2>3. /\ t \in Fill!TabStates /\ t.at = "publish"
          /\ t.plan = u.plan /\ t.start = u.start
      BY <1>1, <2>1 DEF Fill!TabStates
    <2>4. Goes(u, t)
      BY <2>3 DEF Goes, SendsOn
    <2>5. QED
      BY <2>2, <2>4 DEF Moves
  <1>3. CASE /\ at = Fill!StagedAt(chain) /\ chain.staged # Nothing
             /\ \E slots \in [1 .. m -> todo] :
                  Fill!Sends(s, Append([i \in 1 .. m |->
                                          [kind |-> "reclaim", at |-> at, slot |-> slots[i],
                                           prize |-> chain.staged.prizes[slots[i]]]],
                                       [kind |-> "cancel", at |-> at]))
    <2>1. chain.staged \in Fill!StagedBundles /\ chain.staged # Nothing
      BY <1>3, NothingIsNoBundle DEF ChainSound, ChainTyped
    <2>2. chain.staged.prizes \in Seq(Prizes) /\ Len(chain.staged.prizes) \in Nat
      BY <2>1 DEF Fill!StagedBundles
    <2>3. todo \subseteq 1 .. Len(chain.staged.prizes)
      BY DEF Fill!Unreclaimed
    <2>4. m \in Nat
      <3>1. 1 \in Int /\ Len(chain.staged.prizes) \in Int
        BY <2>2
      <3>2. IsFiniteSet(1 .. Len(chain.staged.prizes))
        BY <3>1, FS_Interval
      <3>3. IsFiniteSet(todo)
        BY <2>3, <3>2, FS_Subset
      <3>4. QED
        BY <3>3, CountsAlike, FS_CardinalityType
    <2>5. at \in Nat
      BY <1>1 DEF Fill!TabStates
    <2>6. PICK slots \in [1 .. m -> todo] :
            Fill!Sends(s, Append([i \in 1 .. m |->
                                    [kind |-> "reclaim", at |-> at, slot |-> slots[i],
                                     prize |-> chain.staged.prizes[slots[i]]]],
                                 [kind |-> "cancel", at |-> at]))
      BY <1>3
    <2>7. PICK r : r = [i \in 1 .. m |->
                          [kind |-> "reclaim", at |-> at, slot |-> slots[i],
                           prize |-> chain.staged.prizes[slots[i]]]]
      OBVIOUS
    <2>8. PICK last : last = [kind |-> "cancel", at |-> at]
      OBVIOUS
    <2>9. last \in Fill!Transactions /\ last.kind = "cancel"
      BY <2>5, <2>8 DEF Fill!Transactions
    <2> HIDE DEF m, todo, at
    <2>10. \A i \in 1 .. m : r[i] \in Fill!Transactions /\ r[i].kind = "reclaim"
      <3> SUFFICES ASSUME NEW i \in 1 .. m
                   PROVE  r[i] \in Fill!Transactions /\ r[i].kind = "reclaim"
        OBVIOUS
      <3>1. r[i] = [kind |-> "reclaim", at |-> at, slot |-> slots[i],
                    prize |-> chain.staged.prizes[slots[i]]]
        BY <2>7
      <3>2. slots[i] \in 1 .. Len(chain.staged.prizes)
        BY <2>3
      <3>3. slots[i] \in Nat /\ chain.staged.prizes[slots[i]] \in Prizes
        BY <2>2, <3>2
      <3>4. QED
        BY <2>5, <3>1, <3>3 DEF Fill!Transactions
    <2>11. r \in Seq(Fill!Transactions) /\ Len(r) = m
      <3>1. r \in [1 .. m -> Fill!Transactions]
        BY <2>7, <2>10
      <3>2. QED
        BY <2>4, <3>1
    <2>12. PICK q : q = Append(r, last)
      OBVIOUS
    <2>13. /\ q \in Seq(Fill!Transactions) /\ Len(q) = m + 1 /\ q[m + 1] = last
           /\ \A i \in 1 .. m : q[i] = r[i]
      BY <2>4, <2>9, <2>11, <2>12, AppendProperties
    <2>14. \A i \in 1 .. Len(q) : SentFor(q[i], u)
      <3> SUFFICES ASSUME NEW i \in 1 .. Len(q)
                   PROVE  SentFor(q[i], u)
        OBVIOUS
      <3>1. i \in 1 .. m \/ i = m + 1
        BY <2>4, <2>13
      <3>2. q[i].kind \in {"reclaim", "cancel"}
        BY <2>9, <2>10, <2>13, <3>1
      <3>3. QED
        BY <3>2 DEF SentFor
    <2>15. q[Len(q)].kind # "reclaim" /\ Len(q) > 0
      BY <2>4, <2>9, <2>13
    <2>16. PICK t : t = [u EXCEPT !.at = "send", !.queue = q]
      OBVIOUS
    <2>17. tab' = [tab EXCEPT ![s] = t]
      BY <2>6, <2>7, <2>8, <2>12, <2>16 DEF Fill!Sends
    <2>18. Goes(u, t)
      BY <1>1, <2>13, <2>14, <2>15, <2>16, SendsGoes
    <2>19. QED
      BY <2>17, <2>18 DEF Moves
  <1>4. CASE at = Fill!StagedAt(chain) /\ chain.staged # Nothing
    <2>1. \E slots \in [1 .. m -> todo] :
             Fill!Sends(s, Append([i \in 1 .. m |->
                                     [kind |-> "reclaim", at |-> at, slot |-> slots[i],
                                      prize |-> chain.staged.prizes[slots[i]]]],
                                  [kind |-> "cancel", at |-> at]))
      <3>1. IF at = Fill!StagedAt(chain) /\ chain.staged # Nothing
            THEN \E slots \in [1 .. m -> todo] :
                   /\ \A i, j \in DOMAIN slots : i < j => slots[i] < slots[j]
                   /\ Fill!Sends(s, Append([i \in 1 .. m |->
                                              [kind |-> "reclaim", at |-> at, slot |-> slots[i],
                                               prize |-> chain.staged.prizes[slots[i]]]],
                                           [kind |-> "cancel", at |-> at]))
            ELSE tab' = [tab EXCEPT ![s].at = "publish"]
        BY DEF Fill!ReadStaged
      <3>2. QED
        BY <1>4, <3>1, Zenon
    <2>2. QED
      BY <1>3, <1>4, <2>1, Zenon
  <1>5. CASE ~(at = Fill!StagedAt(chain) /\ chain.staged # Nothing)
    BY <1>2, <1>5, Zenon DEF Fill!ReadStaged
  <1>6. QED
    BY <1>4, <1>5

\* The tab after its transaction has been confirmed.
LEMMA AfterIs ==
  ASSUME TabsSound, ChainTyped(chain'), NEW s \in Tabs, tab[s].at = "send",
         NEW u, u = tab[s], NEW tx, tx = u.queue[1], NEW t, t = Fill!After(s)
  PROVE  /\ t \in Fill!TabStates
         /\ tx.kind # "seal" => t.plan = u.plan /\ t.start = u.start /\ t.flow = u.flow
         /\ tx.kind \in {"mint", "template"} => t.at = "template" /\ t.n = u.n
         /\ tx.kind \in {"add", "fund"} => t.at = "bundle" /\ t.n = u.n /\ t.draft = u.draft
         /\ tx.kind = "activate" =>
              t.at = "bundle" /\ t.n = u.n + 1 /\ t.draft = (chain'.template = "draft")
         /\ tx.kind = "reclaim" =>
              t.at = "send" /\ t.queue = Tail(u.queue) /\ t.draft = u.draft
         /\ tx.kind = "cancel" =>
              /\ t.at = "publish" /\ t.count = Len(chain'.live)
              /\ t.draft = (chain'.template = "draft")
         /\ tx.kind = "seal" => t = Fill!Idle
  <1>1. /\ u \in Fill!TabStates /\ u.queue \in Seq(Fill!Transactions)
        /\ Len(u.queue) > 0
    BY DEF TabsSound, SendsOn, Fill!TabStates
  <1>2. /\ tx = Head(u.queue) /\ tx = Fill!Sent(s) /\ tx \in Fill!Transactions
        /\ Tail(u.queue) \in Seq(Fill!Transactions)
    BY <1>1 DEF Fill!Sent
  <1>3. Len(chain'.live) \in Nat
    BY DEF ChainTyped
  <1>4. tx.kind \in {"mint", "template", "add", "fund", "activate", "reclaim", "cancel",
                     "seal"}
    BY <1>2 DEF Fill!Transactions
  <1>5. PICK v : v = [u EXCEPT !.queue = Tail(u.queue)]
    OBVIOUS
  <1>6. /\ v \in Fill!TabStates /\ v.queue = Tail(u.queue) /\ v.at = "send"
        /\ v.plan = u.plan /\ v.start = u.start /\ v.flow = u.flow
        /\ v.n = u.n /\ v.draft = u.draft /\ v.slot \in Nat
    BY <1>1, <1>2, <1>5 DEF Fill!TabStates
  <1>7. CASE tx.kind \in {"mint", "template"}
    <2>1. t = [v EXCEPT !.at = "template"]
      BY <1>2, <1>5, <1>7 DEF Fill!After
    <2>2. /\ t \in Fill!TabStates /\ t.at = "template" /\ t.n = v.n
          /\ t.plan = v.plan /\ t.start = v.start /\ t.flow = v.flow
      BY <1>6, <2>1 DEF Fill!TabStates
    <2>3. QED
      BY <1>6, <1>7, <2>2
  <1>8. CASE tx.kind = "add"
    <2>1. t = [v EXCEPT !.at = "bundle", !.slot = 1]
      BY <1>2, <1>5, <1>8 DEF Fill!After
    <2>2. PICK k \in Nat : k = 1
      OBVIOUS
    <2>3. /\ t \in Fill!TabStates /\ t.at = "bundle" /\ t.n = v.n /\ t.draft = v.draft
          /\ t.plan = v.plan /\ t.start = v.start /\ t.flow = v.flow
      <3>1. t = [v EXCEPT !.at = "bundle", !.slot = k]
        BY <2>1, <2>2
      <3>2. QED
        BY <1>6, <3>1 DEF Fill!TabStates
    <2>4. QED
      BY <1>6, <1>8, <2>3
  <1>9. CASE tx.kind = "fund"
    <2>1. t = [v EXCEPT !.at = "bundle", !.slot = v.slot + 1]
      BY <1>2, <1>5, <1>9 DEF Fill!After
    <2>2. v.slot + 1 \in Nat
      BY <1>6
    <2>3. /\ t \in Fill!TabStates /\ t.at = "bundle" /\ t.n = v.n /\ t.draft = v.draft
          /\ t.plan = v.plan /\ t.start = v.start /\ t.flow = v.flow
      BY <1>6, <2>1, <2>2 DEF Fill!TabStates
    <2>4. QED
      BY <1>6, <1>9, <2>3
  <1>10. CASE tx.kind = "activate"
    <2>1. PICK w : w = [u EXCEPT !.at = "bundle", !.n = u.n + 1, !.slot = 0,
                                 !.queue = <<>>]
      OBVIOUS
    <2>2. t = [w EXCEPT !.count = Len(chain'.live), !.draft = (chain'.template = "draft")]
      BY <1>2, <1>10, <2>1 DEF Fill!After, Fill!NextBundle
    <2>3. u.n \in Nat \ {0} /\ u.n + 1 \in Nat \ {0} /\ <<>> \in Seq(Fill!Transactions)
      BY <1>1 DEF Fill!TabStates
    <2>4. /\ w \in Fill!TabStates /\ w.at = "bundle" /\ w.n = u.n + 1
          /\ w.plan = u.plan /\ w.start = u.start /\ w.flow = u.flow
      BY <1>1, <2>1, <2>3 DEF Fill!TabStates
    <2>5. /\ t \in Fill!TabStates /\ t.at = "bundle" /\ t.n = w.n
          /\ t.draft = (chain'.template = "draft")
          /\ t.plan = w.plan /\ t.start = w.start /\ t.flow = w.flow
      BY <1>3, <2>2, <2>4 DEF Fill!TabStates
    <2>6. QED
      BY <1>10, <2>4, <2>5
  <1>11. CASE tx.kind = "reclaim"
    <2>1. t = v
      BY <1>2, <1>5, <1>11 DEF Fill!After
    <2>2. QED
      BY <1>6, <1>11, <2>1
  <1>12. CASE tx.kind = "cancel"
    <2>1. PICK w : w = [v EXCEPT !.at = "publish"]
      OBVIOUS
    <2>2. t = [w EXCEPT !.count = Len(chain'.live), !.draft = (chain'.template = "draft")]
      BY <1>2, <1>5, <1>12, <2>1 DEF Fill!After
    <2>3. /\ w \in Fill!TabStates /\ w.at = "publish"
          /\ w.plan = v.plan /\ w.start = v.start /\ w.flow = v.flow
      BY <1>6, <2>1 DEF Fill!TabStates
    <2>4. /\ t \in Fill!TabStates /\ t.at = "publish" /\ t.count = Len(chain'.live)
          /\ t.draft = (chain'.template = "draft")
          /\ t.plan = w.plan /\ t.start = w.start /\ t.flow = w.flow
      BY <1>3, <2>2, <2>3 DEF Fill!TabStates
    <2>5. QED
      BY <1>6, <1>12, <2>3, <2>4
  <1>13. CASE tx.kind = "seal"
    <2>1. t = Fill!Idle
      BY <1>2, <1>13 DEF Fill!After
    <2>2. t \in Fill!TabStates
      BY <2>1, IdleGoes DEF Goes
    <2>3. QED
      BY <1>13, <2>1, <2>2
  <1>14. QED
    BY <1>4, <1>7, <1>8, <1>9, <1>10, <1>11, <1>12, <1>13

\* What is left to send.
LEMMA RestOfQueue ==
  ASSUME NEW q \in Seq(Fill!Transactions), Len(q) > 1
  PROVE  /\ Len(Tail(q)) = Len(q) - 1 /\ Len(Tail(q)) > 0 /\ Len(q) \in Nat
         /\ Tail(q) \in Seq(Fill!Transactions)
         /\ \A i \in 1 .. Len(Tail(q)) : i + 1 \in 1 .. Len(q) /\ Tail(q)[i] = q[i + 1]
         /\ Tail(q)[Len(Tail(q))] = q[Len(q)]
  <1>1. /\ Len(q) \in Nat /\ Tail(q) \in Seq(Fill!Transactions) /\ Len(Tail(q)) = Len(q) - 1
        /\ \A i \in 1 .. Len(Tail(q)) : Tail(q)[i] = q[i + 1]
    BY HeadTailProperties
  <1>2. Len(Tail(q)) \in 1 .. Len(Tail(q))
    BY <1>1
  <1>3. QED
    BY <1>1, <1>2

LEMMA ConfirmedMoves ==
  ASSUME TabsSound, ChainTyped(chain'), NEW s \in Tabs, Fill!Confirmed(s)
  PROVE  Moves(s)
  <1>1. PICK u : u = tab[s]
    OBVIOUS
  <1>2. PICK t : t = Fill!After(s)
    OBVIOUS
  <1>3. PICK tx : tx = u.queue[1]
    OBVIOUS
  <1>4. u.at = "send" /\ tab' = [tab EXCEPT ![s] = t]
    BY <1>1, <1>2 DEF Fill!Confirmed
  <1>5. /\ u \in Fill!TabStates /\ u.queue \in Seq(Fill!Transactions)
        /\ SendsOn(u)
    BY <1>1 DEF TabsSound, Fill!TabStates
  <1>6. /\ t \in Fill!TabStates
        /\ tx.kind # "seal" => t.plan = u.plan /\ t.start = u.start
        /\ tx.kind \in {"mint", "template"} => t.at = "template"
        /\ tx.kind \in {"add", "fund"} => t.at = "bundle"
        /\ tx.kind = "activate" => t.at = "bundle"
        /\ tx.kind = "reclaim" => t.at = "send" /\ t.queue = Tail(u.queue)
        /\ tx.kind = "cancel" => t.at = "publish"
        /\ tx.kind = "seal" => t = Fill!Idle
    BY <1>1, <1>2, <1>3, <1>4, AfterIs
  <1>7. tx.kind \in {"mint", "template", "add", "fund", "activate", "reclaim", "cancel",
                     "seal"}
    <2>1. Len(u.queue) > 0
      BY <1>4, <1>5 DEF SendsOn
    <2>2. tx \in Fill!Transactions
      BY <1>3, <1>5, <2>1
    <2>3. QED
      BY <2>2 DEF Fill!Transactions
  <1>8. CASE tx.kind = "reclaim"
    <2>1. /\ Len(u.queue) > 0 /\ u.queue[Len(u.queue)].kind # "reclaim"
          /\ \A i \in 1 .. Len(u.queue) : SentFor(u.queue[i], u)
      BY <1>4, <1>5 DEF SendsOn
    <2>2. Len(u.queue) > 1
      BY <1>3, <1>5, <1>8, <2>1
    <2>3. PICK q : q = Tail(u.queue)
      OBVIOUS
    <2>4. /\ Len(q) > 0 /\ q[Len(q)] = u.queue[Len(u.queue)]
          /\ \A i \in 1 .. Len(q) : i + 1 \in 1 .. Len(u.queue) /\ q[i] = u.queue[i + 1]
      BY <1>5, <2>2, <2>3, RestOfQueue
    <2>5. \A i \in 1 .. Len(q) : SentFor(q[i], u)
      BY <2>1, <2>4
    <2>6. t.plan = u.plan /\ t.start = u.start /\ t.queue = q /\ t.at = "send"
      BY <1>6, <1>8, <2>3
    <2>7. \A i \in 1 .. Len(q) : SentFor(q[i], t)
      BY <2>5, <2>6 DEF SentFor
    <2>8. QED
      BY <1>4, <1>6, <1>1, <2>1, <2>4, <2>6, <2>7 DEF Moves, Goes, SendsOn
  <1>9. CASE tx.kind = "seal"
    BY <1>4, <1>6, <1>9, IdleGoes DEF Moves
  <1>10. CASE tx.kind \notin {"reclaim", "seal"}
    <2>1. t.at # "send" /\ t.plan = u.plan /\ t.start = u.start
      BY <1>6, <1>7, <1>10
    <2>2. QED
      BY <1>1, <1>4, <1>6, <2>1 DEF Moves, Goes, SendsOn
  <1>11. QED
    BY <1>8, <1>9, <1>10

\* Every step of a tab that has begun.
LEMMA TabMoves ==
  ASSUME TabsSound, ChainSound(chain), ChainTyped(chain'), NEW s \in Tabs,
         \/ Fill!Works(s) \/ Fill!Refused(s) \/ Fill!TimesOut(s) \/ Fill!Closes(s)
  PROVE  Moves(s)
  <1>1. ChainTyped(chain)
    BY DEF ChainSound
  <1>2. CASE Fill!Works(s)
    BY <1>1, <1>2, ReadForCreateMoves, ReadForAppendMoves, ReadForCancelMoves,
       ReadBundleMoves, FinishStagingMoves, ReadStagedMoves, FinishCancelMoves,
       ConfirmedMoves DEF Fill!Works
  <1>3. CASE Fill!Refused(s) \/ Fill!TimesOut(s) \/ Fill!Closes(s)
    BY <1>3, StopsMoves DEF Fill!Refused, Fill!TimesOut, Fill!Closes
  <1>4. QED
    BY <1>2, <1>3

\* What a tab begins.
LEMMA StartState ==
  ASSUME NEW f \in {"create", "append", "page", "cancel"}, NEW plan \in Seq(Fill!Bundles),
         NEW start \in Nat, NEW t, t = Fill!Start(f, plan, start, "template")
  PROVE  /\ t \in Fill!TabStates /\ t.at = "template" /\ t.flow = f
         /\ t.plan = plan /\ t.start = start
  <1>1. PICK v : v = Fill!Idle
    OBVIOUS
  <1>2. v \in Fill!TabStates
    BY <1>1, IdleGoes DEF Goes
  <1>3. t = [v EXCEPT !.flow = f, !.plan = plan, !.start = start, !.at = "template"]
    BY <1>1 DEF Fill!Start
  <1>4. QED
    BY <1>2, <1>3 DEF Fill!TabStates

LEMMA MovedTabs ==
  ASSUME TabsSound, NEW s \in Tabs, NEW t \in Fill!TabStates, SendsOn(t),
         tab' = [tab EXCEPT ![s] = t]
  PROVE  TabsSound'
  <1>1. tab' \in [Tabs -> Fill!TabStates]
    BY DEF TabsSound
  <1>2. \A x \in Tabs : tab'[x] = IF x = s THEN t ELSE tab[x]
    BY DEF TabsSound
  <1>3. \A x \in Tabs : SendsOn(tab'[x])
    BY <1>2 DEF TabsSound
  <1>4. QED
    BY <1>1, <1>3 DEF TabsSound

LEMMA MovesSound ==
  ASSUME TabsSound, NEW s \in Tabs, Moves(s)
  PROVE  TabsSound'
  BY MovedTabs DEF Moves, Goes

\* The transaction that a tab sends.
LEMMA SentIsOne ==
  ASSUME TabsSound, NEW s \in Tabs, tab[s].at = "send"
  PROVE  /\ Fill!Sent(s) = tab[s].queue[1] /\ Fill!Sent(s) \in Fill!Transactions
         /\ SentFor(Fill!Sent(s), tab[s])
         /\ 1 \in 1 .. Len(tab[s].queue) /\ tab[s].queue \in Seq(Fill!Transactions)
  <1>1. /\ tab[s].queue \in Seq(Fill!Transactions) /\ Len(tab[s].queue) > 0
        /\ \A i \in 1 .. Len(tab[s].queue) : SentFor(tab[s].queue[i], tab[s])
    BY DEF TabsSound, SendsOn, Fill!TabStates
  <1>2. 1 \in 1 .. Len(tab[s].queue)
    BY <1>1
  <1>3. Fill!Sent(s) = tab[s].queue[1]
    BY <1>1 DEF Fill!Sent
  <1>4. QED
    BY <1>1, <1>2, <1>3

\* The chain after a step.
LEMMA ChainKept ==
  ASSUME FillTyped, Fill!Next
  PROVE  ChainSound(chain')
  <1>1. ChainSound(chain) /\ TabsSound /\ late \subseteq Fill!Transactions
    BY DEF FillTyped
  <1>2. CASE UNCHANGED chain
    BY <1>1, <1>2
  <1>3. ASSUME NEW s \in Tabs, Fill!Confirmed(s)
        PROVE  ChainSound(chain')
    <2>1. tab[s].at = "send" /\ Fill!Lands(Fill!Sent(s), chain)
          /\ chain' = Fill!Landed(Fill!Sent(s), chain)
      BY <1>3 DEF Fill!Confirmed
    <2>2. QED
      BY <1>1, <2>1, SentIsOne, LandsSound
  <1>4. ASSUME NEW tx \in late, Fill!LandsLate(tx)
        PROVE  ChainSound(chain')
    <2>1. Fill!Lands(tx, chain) /\ chain' = Fill!Landed(tx, chain)
      BY <1>4 DEF Fill!LandsLate
    <2>2. QED
      BY <1>1, <2>1, LandsSound
  <1>5. UNCHANGED chain \/ (\E s \in Tabs : Fill!Confirmed(s))
          \/ (\E tx \in late : Fill!LandsLate(tx))
    BY DEF Fill!Next, Fill!Works, Fill!CreateDrop, Fill!AppendDrop, Fill!AddPrizes,
           Fill!CancelDraft, Fill!ReadForCreate, Fill!ReadForAppend, Fill!ReadForCancel,
           Fill!ReadBundle, Fill!FinishStaging, Fill!ReadStaged, Fill!FinishCancel,
           Fill!Refused, Fill!TimesOut, Fill!Closes, Fill!Expires
  <1>6. QED
    BY <1>2, <1>3, <1>4, <1>5

\* What a step of a tab that has begun leaves of the rest.
LEMMA RestOfWork ==
  ASSUME NEW s, Fill!Works(s) \/ Fill!Refused(s) \/ Fill!Closes(s)
  PROVE  /\ UNCHANGED <<late, lates, asked>>
         /\ saved' \in {saved, Nothing}
         /\ form' \in {form, form \ {tab[s].plan}}
  BY DEF Fill!Works, Fill!ReadForCreate, Fill!ReadForAppend, Fill!ReadForCancel,
         Fill!ReadBundle, Fill!FinishStaging, Fill!ReadStaged, Fill!FinishCancel,
         Fill!Confirmed, Fill!Refused, Fill!Closes, Fill!NoDraft

LEMMA BeginsTyped ==
  ASSUME FillTyped, NEW s \in Tabs,
         \/ \E plan \in Plans : Fill!CreateDrop(s, plan) \/ Fill!AppendDrop(s, plan)
         \/ \E plan \in Forms : Fill!AddPrizes(s, plan)
         \/ Fill!CancelDraft(s)
  PROVE  FillTyped'
  <1>1. /\ ChainSound(chain) /\ ChainTyped(chain) /\ TabsSound
        /\ Len(chain.live) \in Nat
        /\ saved \in Fill!SavedDrafts \union {Nothing}
        /\ asked \subseteq Fill!Requests /\ form \subseteq Forms
    BY DEF FillTyped, ChainSound, ChainTyped
  <1>2. Plans \union Forms \subseteq Seq(Fill!Bundles)
    BY FillAssumption DEF Fill!StagingAssumption
  <1>3. UNCHANGED <<chain, late, lates, form>>
    BY DEF Fill!CreateDrop, Fill!AppendDrop, Fill!AddPrizes, Fill!CancelDraft
  <1>4. ASSUME NEW f \in {"create", "append", "page", "cancel"},
               NEW plan \in Seq(Fill!Bundles), NEW start \in Nat,
               tab' = [tab EXCEPT ![s] = Fill!Start(f, plan, start, "template")],
               saved' \in Fill!SavedDrafts \union {Nothing}, asked' \subseteq Fill!Requests
        PROVE  FillTyped'
    <2>1. PICK t : t = Fill!Start(f, plan, start, "template")
      OBVIOUS
    <2>2. t \in Fill!TabStates /\ SendsOn(t)
      BY <2>1, StartState DEF SendsOn
    <2>3. TabsSound'
      BY <1>1, <1>4, <2>1, <2>2, MovedTabs
    <2>4. QED
      BY <1>3, <1>4, <2>3 DEF FillTyped
  <1>5. ASSUME NEW plan \in Seq(Fill!Bundles), NEW start \in Nat
        PROVE  [plan |-> plan, start |-> start] \in Fill!Requests
    BY DEF Fill!Requests
  <1>6. ASSUME NEW mode \in {"create", "append"}, NEW plan \in Seq(Fill!Bundles),
               NEW start \in Nat
        PROVE  /\ Fill!NewDraft(mode, plan, start) \in Fill!SavedDrafts
               /\ Fill!NewDraft(mode, plan, start).start \in Nat
    <2>1. CASE Fill!NewDraft(mode, plan, start) = saved /\ saved # Nothing
      BY <1>1, <2>1 DEF Fill!SavedDrafts
    <2>2. CASE Fill!NewDraft(mode, plan, start)
                 = [mode |-> mode, plan |-> plan, start |-> start]
      BY <2>2 DEF Fill!SavedDrafts
    <2>3. QED
      BY <2>1, <2>2 DEF Fill!NewDraft, Fill!NoDraft
  <1>7. ASSUME NEW plan \in Plans, Fill!CreateDrop(s, plan)
        PROVE  FillTyped'
    <2>1. /\ saved' = Fill!NewDraft("create", plan, 0)
          /\ asked' \in {asked, asked \union {[plan |-> plan, start |-> 0]}}
          /\ tab' = [tab EXCEPT ![s] = Fill!Start("create", plan, 0, "template")]
      BY <1>7 DEF Fill!CreateDrop
    <2>2. plan \in Seq(Fill!Bundles) /\ 0 \in Nat
      BY <1>2
    <2>3. saved' \in Fill!SavedDrafts
      BY <1>6, <2>1, <2>2
    <2>4. asked' \subseteq Fill!Requests
      BY <1>1, <1>5, <2>1, <2>2
    <2>5. QED
      BY <1>4, <2>1, <2>2, <2>3, <2>4
  <1>8. ASSUME NEW plan \in Plans, Fill!AppendDrop(s, plan)
        PROVE  FillTyped'
    <2>1. PICK kept : kept = Fill!NewDraft("append", plan, Len(chain.live))
      OBVIOUS
    <2>2. /\ saved' = kept
          /\ asked' \in {asked, asked \union {[plan |-> plan, start |-> kept.start]}}
          /\ tab' = [tab EXCEPT ![s] = Fill!Start("append", plan, kept.start, "template")]
      BY <1>8, <2>1 DEF Fill!AppendDrop
    <2>3. plan \in Seq(Fill!Bundles)
      BY <1>2
    <2>4. kept \in Fill!SavedDrafts /\ kept.start \in Nat
      BY <1>1, <1>6, <2>1, <2>3
    <2>5. asked' \subseteq Fill!Requests
      BY <1>1, <1>5, <2>2, <2>3, <2>4
    <2>6. QED
      BY <1>4, <2>2, <2>3, <2>4, <2>5
  <1>9. ASSUME NEW plan \in Forms, Fill!AddPrizes(s, plan)
        PROVE  FillTyped'
    <2>1. /\ saved' = saved
          /\ asked' \in {asked, asked \union {[plan |-> plan, start |-> Len(chain.live)]}}
          /\ tab' = [tab EXCEPT ![s] = Fill!Start("page", plan, Len(chain.live), "template")]
      BY <1>9 DEF Fill!AddPrizes
    <2>2. plan \in Seq(Fill!Bundles)
      BY <1>2
    <2>3. asked' \subseteq Fill!Requests
      BY <1>1, <1>5, <2>1, <2>2
    <2>4. QED
      BY <1>1, <1>4, <2>1, <2>2, <2>3
  <1>10. CASE Fill!CancelDraft(s)
    <2>1. /\ saved # Nothing /\ saved' = saved /\ asked' = asked
          /\ tab' = [tab EXCEPT ![s] = Fill!Start("cancel", saved.plan, saved.start,
                                                  "template")]
      BY <1>10 DEF Fill!CancelDraft, Fill!NoDraft
    <2>2. saved.plan \in Seq(Fill!Bundles) /\ saved.start \in Nat
      BY <1>1, <2>1 DEF Fill!SavedDrafts
    <2>3. QED
      BY <1>1, <1>4, <2>1, <2>2
  <1>11. QED
    BY <1>7, <1>8, <1>9, <1>10

\* The types, and what the program and each tab keep, are inductive.
LEMMA FillTypedKept ==
  ASSUME FillTyped, Fill!Next
  PROVE  FillTyped'
  <1>1. /\ ChainSound(chain) /\ TabsSound
        /\ late \subseteq Fill!Transactions /\ IsFiniteSet(late)
        /\ lates \in 0 .. MaxLate /\ Cardinality(late) <= lates
    BY DEF FillTyped
  <1>2. ChainSound(chain') /\ ChainTyped(chain')
    BY ChainKept DEF ChainSound
  <1>3. MaxLate \in Nat
    BY FillAssumption DEF Fill!StagingAssumption
  <1>4. ASSUME NEW s \in Tabs, Fill!Works(s) \/ Fill!Refused(s) \/ Fill!Closes(s)
        PROVE  FillTyped'
    <2>1. TabsSound'
      BY <1>1, <1>2, <1>4, TabMoves, MovesSound
    <2>2. /\ UNCHANGED <<late, lates, asked>> /\ saved' \in {saved, Nothing}
          /\ form' \subseteq form
      BY <1>4, RestOfWork
    <2>3. QED
      BY <1>2, <2>1, <2>2 DEF FillTyped
  <1>5. ASSUME NEW s \in Tabs, Fill!TimesOut(s)
        PROVE  FillTyped'
    <2>1. TabsSound'
      BY <1>1, <1>2, <1>5, TabMoves, MovesSound
    <2>2. /\ tab[s].at = "send" /\ lates < MaxLate /\ lates' = lates + 1
          /\ late' = late \union {Fill!Sent(s)} /\ UNCHANGED <<saved, form, asked>>
      BY <1>5 DEF Fill!TimesOut
    <2>3. Fill!Sent(s) \in Fill!Transactions
      BY <1>1, <2>2, SentIsOne
    <2>4. IsFiniteSet(late') /\ Cardinality(late') <= Cardinality(late) + 1
      <3>1. /\ IsFiniteSet(late \union {Fill!Sent(s)})
            /\ Cardinality(late \union {Fill!Sent(s)})
                 = IF Fill!Sent(s) \in late THEN Cardinality(late) ELSE Cardinality(late) + 1
        BY <1>1, FS_AddElement
      <3>2. Cardinality(late) \in Nat
        BY <1>1, FS_CardinalityType
      <3>3. QED
        BY <2>2, <3>1, <3>2
    <2>5. Cardinality(late') <= lates' /\ lates' \in 0 .. MaxLate
      <3>1. Cardinality(late) \in Nat /\ Cardinality(late') \in Nat
        BY <1>1, <2>4, FS_CardinalityType
      <3>2. QED
        BY <1>1, <1>3, <2>2, <2>4, <3>1
    <2>6. late' \subseteq Fill!Transactions
      BY <1>1, <2>2, <2>3
    <2>7. QED
      BY <1>2, <2>1, <2>2, <2>4, <2>5, <2>6 DEF FillTyped
  <1>6. ASSUME NEW tx \in late, Fill!LandsLate(tx) \/ Fill!Expires(tx)
        PROVE  FillTyped'
    <2>1. late' = late \ {tx} /\ UNCHANGED <<lates, saved, form, tab, asked>>
      BY <1>6 DEF Fill!LandsLate, Fill!Expires
    <2>2. IsFiniteSet(late') /\ Cardinality(late') <= Cardinality(late)
          /\ Cardinality(late) \in Nat /\ Cardinality(late') \in Nat
      <3>1. late' \subseteq late
        BY <2>1
      <3>2. IsFiniteSet(late') /\ Cardinality(late') <= Cardinality(late)
        BY <1>1, <3>1, FS_Subset
      <3>3. QED
        BY <1>1, <3>2, FS_CardinalityType
    <2>3. Cardinality(late') <= lates'
      BY <1>1, <2>1, <2>2
    <2>4. TabsSound'
      BY <1>1, <2>1 DEF TabsSound
    <2>5. QED
      BY <1>1, <1>2, <2>1, <2>2, <2>3, <2>4 DEF FillTyped
  <1>7. QED
    BY <1>4, <1>5, <1>6, BeginsTyped DEF Fill!Next

-----------------------------------------------------------------------------
(* One draft, in however many tabs.                                          *)

LEMMA SentForAlike ==
  ASSUME NEW tx, NEW t, NEW d, t.plan = d.plan, t.start = d.start, SentFor(tx, t)
  PROVE  SentFor(tx, d)
  BY DEF SentFor

LEMMA ChainForOne ==
  ASSUME FillTyped, Fill!Next, NEW d \in Fill!Requests,
         \A s \in Tabs : WorksFor(tab[s], d), \A tx \in late : SentFor(tx, d),
         StagedFor(chain, d), LivePlanned(chain, {d})
  PROVE  StagedFor(chain', d) /\ LivePlanned(chain', {d})
  <1>1. /\ ChainSound(chain) /\ TabsSound /\ late \subseteq Fill!Transactions
        /\ d.start \in Nat /\ d.plan \in Seq(Fill!Bundles) /\ d \in {d}
    BY DEF FillTyped, Fill!Requests
  <1>2. CASE UNCHANGED chain
    BY <1>2
  <1>3. ASSUME NEW tx \in Fill!Transactions, SentFor(tx, d),
               Fill!Lands(tx, chain), chain' = Fill!Landed(tx, chain)
        PROVE  StagedFor(chain', d) /\ LivePlanned(chain', {d})
    <2>1. PICK c : c = chain
      OBVIOUS
    <2>2. PICK e : e = chain'
      OBVIOUS
    <2>3. /\ ChainSound(c) /\ Fill!Lands(tx, c) /\ e = Fill!Landed(tx, c)
          /\ StagedFor(c, d) /\ LivePlanned(c, {d})
      BY <1>1, <1>3, <2>1, <2>2
    <2>4. StagedFor(e, d)
      BY <1>1, <1>3, <2>3, LandsForDraft
    <2>5. LivePlanned(e, {d})
      BY <1>1, <1>3, <2>3, LandsPlanned
    <2>6. QED
      BY <2>2, <2>4, <2>5
  <1>4. ASSUME NEW s \in Tabs, Fill!Confirmed(s)
        PROVE  StagedFor(chain', d) /\ LivePlanned(chain', {d})
    <2>1. tab[s].at = "send" /\ Fill!Lands(Fill!Sent(s), chain)
          /\ chain' = Fill!Landed(Fill!Sent(s), chain)
      BY <1>4 DEF Fill!Confirmed
    <2>2. tab[s].plan = d.plan /\ tab[s].start = d.start
      BY <2>1 DEF WorksFor
    <2>3. Fill!Sent(s) \in Fill!Transactions /\ SentFor(Fill!Sent(s), d)
      BY <1>1, <2>1, <2>2, SentIsOne, SentForAlike
    <2>4. QED
      BY <1>3, <2>1, <2>3
  <1>5. ASSUME NEW tx \in late, Fill!LandsLate(tx)
        PROVE  StagedFor(chain', d) /\ LivePlanned(chain', {d})
    BY <1>1, <1>3, <1>5 DEF Fill!LandsLate
  <1>6. UNCHANGED chain \/ (\E s \in Tabs : Fill!Confirmed(s))
          \/ (\E tx \in late : Fill!LandsLate(tx))
    BY DEF Fill!Next, Fill!Works, Fill!CreateDrop, Fill!AppendDrop, Fill!AddPrizes,
           Fill!CancelDraft, Fill!ReadForCreate, Fill!ReadForAppend, Fill!ReadForCancel,
           Fill!ReadBundle, Fill!FinishStaging, Fill!ReadStaged, Fill!FinishCancel,
           Fill!Refused, Fill!TimesOut, Fill!Closes, Fill!Expires
  <1>7. QED
    BY <1>2, <1>4, <1>5, <1>6

\* The tabs, of which one has begun or gone on.
LEMMA TabsForOne ==
  ASSUME TabsSound, NEW d, NEW s \in Tabs, NEW t, WorksFor(t, d),
         tab' = [tab EXCEPT ![s] = t], \A x \in Tabs : WorksFor(tab[x], d)
  PROVE  \A x \in Tabs : WorksFor(tab'[x], d)
  <1>1. \A x \in Tabs : tab'[x] = IF x = s THEN t ELSE tab[x]
    BY DEF TabsSound
  <1>2. QED
    BY <1>1

LEMMA StartsFor ==
  ASSUME NEW f, NEW plan, NEW start, NEW d, d.plan = plan, d.start = start
  PROVE  WorksFor(Fill!Start(f, plan, start, "template"), d)
  BY DEF WorksFor, Fill!Start, Fill!Idle

\* The first draft.
LEMMA FirstForOne ==
  ASSUME FillTyped, ForOneDraft, Fill!Next, asked = {}
  PROVE  ForOneDraft'
  <1>1. /\ form = {} /\ late = {} /\ saved = Nothing /\ chain.staged = Nothing
        /\ chain.live = <<>> /\ \A s \in Tabs : tab[s].at = "idle"
    BY DEF ForOneDraft
  <1>2. TabsSound
    BY DEF FillTyped
  <1>3. ASSUME NEW s \in Tabs, NEW f, NEW plan, NEW start, NEW mode,
               tab' = [tab EXCEPT ![s] = Fill!Start(f, plan, start, "template")],
               asked' = {[plan |-> plan, start |-> start]},
               saved' = [mode |-> mode, plan |-> plan, start |-> start],
               mode = "create" => start = 0,
               UNCHANGED <<chain, late, form>>
        PROVE  ForOneDraft'
    <2>1. PICK d : d = [plan |-> plan, start |-> start]
      OBVIOUS
    <2>2. d.plan = plan /\ d.start = start
      BY <2>1
    <2>3. \A x \in Tabs : WorksFor(tab[x], d)
      BY <1>1 DEF WorksFor
    <2>4. \A x \in Tabs : WorksFor(tab'[x], d)
      <3>1. PICK t : t = Fill!Start(f, plan, start, "template")
        OBVIOUS
      <3>2. WorksFor(t, d)
        BY <2>2, <3>1, StartsFor
      <3>3. tab' = [tab EXCEPT ![s] = t]
        BY <1>3, <3>1
      <3>4. QED
        BY <1>2, <2>3, <3>2, <3>3, TabsForOne
    <2>5. /\ saved'.plan = d.plan /\ saved'.start = d.start /\ saved'.mode = mode
      BY <1>3, <2>2
    <2>6. SavedFor(d)'
      BY <1>3, <2>2, <2>5 DEF SavedFor
    <2>7. StagedFor(chain', d) /\ LivePlanned(chain', {d})
      BY <1>1, <1>3 DEF StagedFor, LivePlanned
    <2>8. \A e : asked' = {e} => e = d
      BY <1>3, <2>1
    <2>9. asked' # {}
      BY <1>3
    <2>10. QED
      BY <1>1, <1>3, <2>4, <2>6, <2>7, <2>8, <2>9 DEF ForOneDraft
  <1>4. ASSUME NEW s \in Tabs, NEW plan \in Plans, Fill!CreateDrop(s, plan)
        PROVE  ForOneDraft'
    <2>1. /\ saved' = [mode |-> "create", plan |-> plan, start |-> 0]
          /\ asked' = {[plan |-> plan, start |-> 0]}
          /\ tab' = [tab EXCEPT ![s] = Fill!Start("create", plan, 0, "template")]
          /\ UNCHANGED <<chain, late, form>>
      BY <1>1, <1>4 DEF Fill!CreateDrop, Fill!NewDraft, Fill!NoDraft
    <2>2. QED
      BY <1>3, <2>1
  <1>5. ASSUME NEW s \in Tabs, NEW plan \in Plans, Fill!AppendDrop(s, plan)
        PROVE  ForOneDraft'
    <2>1. PICK kept : kept = [mode |-> "append", plan |-> plan, start |-> Len(chain.live)]
      OBVIOUS
    <2>2. kept.start = Len(chain.live)
      BY <2>1
    <2>3. Fill!NewDraft("append", plan, Len(chain.live)) = kept
      BY <1>1, <2>1 DEF Fill!NewDraft, Fill!NoDraft
    <2>4. /\ saved' = kept
          /\ asked' = asked \union {[plan |-> plan, start |-> kept.start]}
          /\ tab' = [tab EXCEPT ![s] = Fill!Start("append", plan, kept.start, "template")]
          /\ UNCHANGED <<chain, late, form>>
      BY <1>1, <1>5, <2>3 DEF Fill!AppendDrop, Fill!NoDraft
    <2>5. asked' = {[plan |-> plan, start |-> Len(chain.live)]}
      BY <2>2, <2>4
    <2>6. QED
      BY <1>3, <2>1, <2>2, <2>4, <2>5
  <1>6. ASSUME NEW s \in Tabs, Fill!Works(s) \/ Fill!Refused(s) \/ Fill!TimesOut(s)
                                 \/ Fill!Closes(s) \/ Fill!CancelDraft(s)
                                 \/ \E plan \in Forms : Fill!AddPrizes(s, plan)
        PROVE  FALSE
    BY <1>1, <1>6
    DEF Fill!Works, Fill!ReadForCreate, Fill!ReadForAppend, Fill!ReadForCancel,
        Fill!ReadBundle, Fill!FinishStaging, Fill!ReadStaged, Fill!FinishCancel,
        Fill!Confirmed, Fill!Refused, Fill!TimesOut, Fill!Closes, Fill!CancelDraft,
        Fill!AddPrizes, Fill!NoDraft
  <1>7. QED
    BY <1>1, <1>4, <1>5, <1>6 DEF Fill!Next

\* What goes on with it.
LEMMA OthersForOne ==
  ASSUME FillTyped, ForOneDraft, Fill!Next, NEW d, asked = {d}, asked' = {d}
  PROVE  ForOneDraft'
  <1>1. /\ form = {} /\ \A s \in Tabs : WorksFor(tab[s], d)
        /\ \A tx \in late : SentFor(tx, d)
        /\ SavedFor(d) /\ StagedFor(chain, d) /\ LivePlanned(chain, {d})
    BY DEF ForOneDraft
  <1>2. d \in Fill!Requests /\ TabsSound /\ ChainSound(chain)
    BY DEF FillTyped
  <1>3. StagedFor(chain', d) /\ LivePlanned(chain', {d})
    BY <1>1, <1>2, ChainForOne
  <1>4. SUFFICES /\ \A s \in Tabs : WorksFor(tab'[s], d)
                 /\ \A tx \in late' : SentFor(tx, d)
                 /\ SavedFor(d)' /\ form' = {}
    BY <1>3 DEF ForOneDraft
  <1>5. ChainTyped(chain')
    BY ChainKept DEF ChainSound
  <1>6. ASSUME NEW s \in Tabs, Fill!Works(s) \/ Fill!Refused(s) \/ Fill!Closes(s)
        PROVE  /\ \A x \in Tabs : WorksFor(tab'[x], d)
               /\ \A tx \in late' : SentFor(tx, d)
               /\ SavedFor(d)' /\ form' = {}
    <2>1. PICK t : Goes(tab[s], t) /\ tab' = [tab EXCEPT ![s] = t]
      BY <1>2, <1>5, <1>6, TabMoves DEF Moves
    <2>2. WorksFor(t, d)
      <3>1. CASE tab[s].at = "idle"
        BY <1>6, <3>1
        DEF Fill!Works, Fill!ReadForCreate, Fill!ReadForAppend, Fill!ReadForCancel,
            Fill!ReadBundle, Fill!FinishStaging, Fill!ReadStaged, Fill!FinishCancel,
            Fill!Confirmed, Fill!Refused, Fill!Closes
      <3>2. CASE tab[s].at # "idle"
        BY <1>1, <2>1, <3>2 DEF WorksFor, Goes
      <3>3. QED
        BY <3>1, <3>2
    <2>3. \A x \in Tabs : WorksFor(tab'[x], d)
      BY <1>1, <1>2, <2>1, <2>2, TabsForOne
    <2>4. late' = late /\ saved' \in {saved, Nothing} /\ form' = {}
      BY <1>1, <1>6, RestOfWork
    <2>5. SavedFor(d)'
      BY <1>1, <2>4 DEF SavedFor
    <2>6. QED
      BY <1>1, <2>3, <2>4, <2>5
  <1>7. ASSUME NEW s \in Tabs, Fill!TimesOut(s)
        PROVE  /\ \A x \in Tabs : WorksFor(tab'[x], d)
               /\ \A tx \in late' : SentFor(tx, d)
               /\ SavedFor(d)' /\ form' = {}
    <2>1. /\ tab[s].at = "send" /\ late' = late \union {Fill!Sent(s)}
          /\ UNCHANGED <<saved, form>> /\ tab' = [tab EXCEPT ![s] = Fill!Idle]
      BY <1>7 DEF Fill!TimesOut, Fill!Stop
    <2>2. tab[s].plan = d.plan /\ tab[s].start = d.start
      BY <1>1, <2>1 DEF WorksFor
    <2>3. SentFor(Fill!Sent(s), d)
      BY <1>2, <2>1, <2>2, SentIsOne, SentForAlike
    <2>4. WorksFor(Fill!Idle, d)
      BY IdleGoes DEF WorksFor
    <2>5. \A x \in Tabs : WorksFor(tab'[x], d)
      BY <1>1, <1>2, <2>1, <2>4, TabsForOne
    <2>6. QED
      BY <1>1, <2>1, <2>3, <2>5 DEF SavedFor
  <1>8. ASSUME NEW s \in Tabs, NEW f, NEW plan, NEW start,
               tab' = [tab EXCEPT ![s] = Fill!Start(f, plan, start, "template")],
               plan = d.plan, start = d.start
        PROVE  \A x \in Tabs : WorksFor(tab'[x], d)
    <2>1. PICK t : t = Fill!Start(f, plan, start, "template")
      OBVIOUS
    <2>2. WorksFor(t, d)
      BY <1>8, <2>1, StartsFor
    <2>3. tab' = [tab EXCEPT ![s] = t]
      BY <1>8, <2>1
    <2>4. QED
      BY <1>1, <1>2, <2>2, <2>3, TabsForOne
  <1>9. ASSUME NEW s \in Tabs, NEW plan \in Plans, Fill!CreateDrop(s, plan)
        PROVE  /\ \A x \in Tabs : WorksFor(tab'[x], d)
               /\ \A tx \in late' : SentFor(tx, d)
               /\ SavedFor(d)' /\ form' = {}
    <2>1. saved # Nothing /\ saved.mode = "create" /\ saved.plan = plan
      BY <1>9 DEF Fill!CreateDrop, Fill!MaySave, Fill!NoDraft
    <2>2. saved' = saved /\ UNCHANGED <<late, form>>
          /\ tab' = [tab EXCEPT ![s] = Fill!Start("create", plan, 0, "template")]
      BY <1>9, <2>1 DEF Fill!CreateDrop, Fill!NewDraft, Fill!NoDraft
    <2>3. plan = d.plan /\ 0 = d.start
      BY <1>1, <2>1 DEF SavedFor
    <2>4. \A x \in Tabs : WorksFor(tab'[x], d)
      BY <1>8, <2>2, <2>3
    <2>5. QED
      BY <1>1, <2>2, <2>4 DEF SavedFor
  <1>10. ASSUME NEW s \in Tabs, NEW plan \in Plans, Fill!AppendDrop(s, plan)
         PROVE  /\ \A x \in Tabs : WorksFor(tab'[x], d)
                /\ \A tx \in late' : SentFor(tx, d)
                /\ SavedFor(d)' /\ form' = {}
    <2>1. PICK kept : kept = Fill!NewDraft("append", plan, Len(chain.live))
      OBVIOUS
    <2>2. /\ saved' = kept /\ Fill!MaySave("append", plan)
          /\ asked' = IF saved = Nothing
                      THEN asked \union {[plan |-> plan, start |-> kept.start]} ELSE asked
          /\ tab' = [tab EXCEPT ![s] = Fill!Start("append", plan, kept.start, "template")]
          /\ UNCHANGED <<late, form>>
      BY <1>10, <2>1 DEF Fill!AppendDrop, Fill!NoDraft
    <2>3. kept.plan = d.plan /\ kept.start = d.start /\ kept.mode = "append" /\ plan = d.plan
      <3>1. CASE saved = Nothing
        <4>1. kept = [mode |-> "append", plan |-> plan, start |-> Len(chain.live)]
          BY <2>1, <3>1 DEF Fill!NewDraft, Fill!NoDraft
        <4>2. kept.plan = plan /\ kept.mode = "append"
          BY <4>1
        <4>3. PICK e : e = [plan |-> plan, start |-> kept.start]
          OBVIOUS
        <4>4. e.plan = plan /\ e.start = kept.start /\ e = d
          BY <2>2, <3>1, <4>3
        <4>5. QED
          BY <4>2, <4>4
      <3>2. CASE saved # Nothing
        <4>1. saved.mode = "append" /\ saved.plan = plan
          BY <2>2, <3>2 DEF Fill!MaySave, Fill!NoDraft
        <4>2. kept = saved
          BY <2>1, <3>2, <4>1 DEF Fill!NewDraft, Fill!NoDraft
        <4>3. QED
          BY <1>1, <3>2, <4>1, <4>2 DEF SavedFor
      <3>3. QED
        BY <3>1, <3>2
    <2>4. \A x \in Tabs : WorksFor(tab'[x], d)
      BY <1>8, <2>2, <2>3
    <2>5. SavedFor(d)'
      BY <2>2, <2>3 DEF SavedFor
    <2>6. QED
      BY <1>1, <2>2, <2>4, <2>5
  <1>11. ASSUME NEW s \in Tabs, Fill!CancelDraft(s)
         PROVE  /\ \A x \in Tabs : WorksFor(tab'[x], d)
                /\ \A tx \in late' : SentFor(tx, d)
                /\ SavedFor(d)' /\ form' = {}
    <2>1. /\ saved # Nothing /\ UNCHANGED <<late, saved, form>>
          /\ tab' = [tab EXCEPT ![s] = Fill!Start("cancel", saved.plan, saved.start,
                                                  "template")]
      BY <1>11 DEF Fill!CancelDraft, Fill!NoDraft
    <2>2. saved.plan = d.plan /\ saved.start = d.start
      BY <1>1, <2>1 DEF SavedFor
    <2>3. \A x \in Tabs : WorksFor(tab'[x], d)
      BY <1>8, <2>1, <2>2
    <2>4. QED
      BY <1>1, <2>1, <2>3 DEF SavedFor
  <1>12. ASSUME NEW s \in Tabs, NEW plan \in Forms, Fill!AddPrizes(s, plan)
         PROVE  FALSE
    BY <1>1, <1>12 DEF Fill!AddPrizes
  <1>13. ASSUME NEW tx \in late, Fill!LandsLate(tx) \/ Fill!Expires(tx)
         PROVE  /\ \A x \in Tabs : WorksFor(tab'[x], d)
                /\ \A y \in late' : SentFor(y, d)
                /\ SavedFor(d)' /\ form' = {}
    <2>1. late' \subseteq late /\ UNCHANGED <<saved, form, tab>>
      BY <1>13 DEF Fill!LandsLate, Fill!Expires
    <2>2. QED
      BY <1>1, <2>1 DEF SavedFor
  <1>14. QED
    BY <1>6, <1>7, <1>9, <1>10, <1>11, <1>12, <1>13 DEF Fill!Next

LEMMA ForOneDraftKept ==
  ASSUME FillTyped, ForOneDraft, Fill!Next
  PROVE  ForOneDraft'
  <1>1. CASE asked = {}
    BY <1>1, FirstForOne
  <1>2. form = {} /\ form' = {} /\ asked \subseteq asked'
    BY DEF ForOneDraft, Fill!Next, Fill!Works, Fill!CreateDrop, Fill!AppendDrop,
           Fill!AddPrizes, Fill!CancelDraft, Fill!ReadForCreate, Fill!ReadForAppend,
           Fill!ReadForCancel, Fill!ReadBundle, Fill!FinishStaging, Fill!ReadStaged,
           Fill!FinishCancel, Fill!Confirmed, Fill!Refused, Fill!TimesOut, Fill!Closes,
           Fill!LandsLate, Fill!Expires
  <1>3. CASE asked # {} /\ \E d : asked' = {d}
    <2>1. PICK d : asked' = {d}
      BY <1>3
    <2>2. asked = {d}
      BY <1>2, <1>3, <2>1
    <2>3. QED
      BY <2>1, <2>2, OthersForOne
  <1>4. CASE asked # {} /\ ~\E d : asked' = {d}
    BY <1>2, <1>4 DEF ForOneDraft
  <1>5. QED
    BY <1>1, <1>3, <1>4

-----------------------------------------------------------------------------
(* One tab, of which nothing is late.                                        *)

LEMMA IdleAlong ==
  ASSUME NEW t, NEW c, NEW v, t.at = "idle"
  PROVE  Along(t, c, v)
  BY DEF Along, HasDraft, HasRead, IsAt, Sending

LEMMA AloneAfter ==
  ASSUME TabsSound, Alone, NEW t, t1 \in Tabs,
         tab' = [tab EXCEPT ![t1] = t], form' = {}, late' = {},
         Along(t, chain', saved'), DraftKept(chain', saved', asked'),
         LivePlanned(chain', asked')
  PROVE  Alone'
  <1>1. \A s \in Tabs : tab'[s] = IF s = t1 THEN t ELSE tab[s]
    BY DEF TabsSound
  <1>2. ASSUME NEW s \in Tabs
        PROVE  (s # t1 => tab'[s].at = "idle") /\ Along(tab'[s], chain', saved')
    <2>1. CASE s = t1
      BY <1>1, <2>1
    <2>2. CASE s # t1
      <3>1. tab'[s] = tab[s] /\ tab[s].at = "idle"
        BY <1>1, <2>2 DEF Alone
      <3>2. QED
        BY <3>1, IdleAlong
    <2>3. QED
      BY <2>1, <2>2
  <1>3. QED
    BY <1>2 DEF Alone

\* With nothing to be live, a staged bundle is one of the draft.
LEMMA NothingBeyond ==
  ASSUME NEW c, NEW v, StagedFor(c, v), v.start \in Nat, v.plan \in Seq(Fill!Bundles),
         c.live \in Seq(Fill!Bundles), Len(c.live) >= v.start + Len(v.plan)
  PROVE  c.staged = Nothing
  BY DEF StagedFor

\* The tab goes on and the chain is as it was.
LEMMA GoesOnAlone ==
  ASSUME TabsSound, Alone, NEW t, t1 \in Tabs, tab' = [tab EXCEPT ![t1] = t],
         UNCHANGED <<chain, late, form, asked, saved>>,
         HasRead(t, chain), IsAt(t, chain),
         t.plan = tab[t1].plan, t.start = tab[t1].start, tab[t1].at # "idle"
  PROVE  Alone'
  <1>1. HasDraft(tab[t1], saved)
    BY DEF Alone, Along
  <1>2. Along(t, chain, saved)
    BY <1>1 DEF Along, HasDraft, WorksFor
  <1>3. QED
    BY <1>2, AloneAfter DEF Alone

\* It stops, and keeps or forgets the draft.
LEMMA StopsAlone ==
  ASSUME TabsSound, Alone, t1 \in Tabs, Fill!Stop(t1), UNCHANGED <<chain, late, asked>>,
         form' = {},
         \/ saved' = saved
         \/ saved' = Nothing /\ chain.staged = Nothing /\ chain.template # "draft"
  PROVE  Alone'
  <1>1. PICK t : t = Fill!Idle
    OBVIOUS
  <1>2. t.at = "idle" /\ tab' = [tab EXCEPT ![t1] = t]
    BY <1>1, IdleGoes DEF Fill!Stop
  <1>3. Along(t, chain', saved')
    BY <1>2, IdleAlong
  <1>4. DraftKept(chain', saved', asked')
    BY DEF Alone, DraftKept
  <1>5. LivePlanned(chain', asked') /\ late' = {}
    BY DEF Alone
  <1>6. QED
    BY <1>2, <1>3, <1>4, <1>5, AloneAfter

LEMMA CreateAlone ==
  ASSUME FillTyped, Alone, t1 \in Tabs, NEW plan \in Plans, Fill!CreateDrop(t1, plan)
  PROVE  Alone'
  <1>1. TabsSound /\ DraftKept(chain, saved, asked) /\ LivePlanned(chain, asked)
    BY DEF FillTyped, Alone
  <1>2. PICK t : t = Fill!Start("create", plan, 0, "template")
    OBVIOUS
  <1>3. plan \in Seq(Fill!Bundles)
    BY FillAssumption DEF Fill!StagingAssumption
  <1>4. t.at = "template" /\ t.n = 1 /\ t.plan = plan /\ t.start = 0
    BY <1>2 DEF Fill!Start, Fill!Idle
  <1>5. /\ tab' = [tab EXCEPT ![t1] = t] /\ UNCHANGED <<chain, late, form>>
        /\ saved' = Fill!NewDraft("create", plan, 0) /\ Fill!MaySave("create", plan)
        /\ asked' = IF saved = Nothing THEN asked \union {[plan |-> plan, start |-> 0]}
                    ELSE asked
    BY <1>2 DEF Fill!CreateDrop, Fill!NoDraft
  <1>6. saved' \in Fill!SavedDrafts /\ saved'.plan = plan /\ saved'.start = 0
        /\ DraftKept(chain, saved', asked')
    <2>1. CASE saved = Nothing
      <3>1. saved' = [mode |-> "create", plan |-> plan, start |-> 0]
        BY <1>5, <2>1 DEF Fill!NewDraft, Fill!NoDraft
      <3>2. saved' \in Fill!SavedDrafts /\ saved'.plan = plan /\ saved'.start = 0
        BY <1>3, <3>1 DEF Fill!SavedDrafts
      <3>3. chain.staged = Nothing
        BY <1>1, <2>1 DEF DraftKept
      <3>4. StagedFor(chain, saved')
        BY <3>3 DEF StagedFor
      <3>5. PICK d : d = [plan |-> plan, start |-> 0]
        OBVIOUS
      <3>6. d \in asked' /\ d.plan = plan /\ d.start = 0
        BY <1>5, <2>1, <3>5
      <3>7. saved' # Nothing
        BY <3>2, FillAssumption DEF Fill!StagingAssumption
      <3>8. QED
        BY <3>2, <3>4, <3>6, <3>7 DEF DraftKept
    <2>2. CASE saved # Nothing
      <3>1. saved.mode = "create" /\ saved.plan = plan
        BY <1>5, <2>2 DEF Fill!MaySave, Fill!NoDraft
      <3>2. saved' = saved /\ asked' = asked
        BY <1>5, <2>2, <3>1 DEF Fill!NewDraft, Fill!NoDraft
      <3>3. saved \in Fill!SavedDrafts
        BY <2>2 DEF FillTyped
      <3>4. QED
        BY <1>1, <2>2, <3>1, <3>2, <3>3 DEF DraftKept
    <2>3. QED
      BY <2>1, <2>2
  <1>7. saved' # Nothing
    BY <1>6, FillAssumption DEF Fill!StagingAssumption
  <1>8. Along(t, chain, saved')
    BY <1>4, <1>6, <1>7 DEF Along, HasDraft, WorksFor, HasRead, IsAt, Sending
  <1>9. LivePlanned(chain, asked')
    <2>1. asked \subseteq asked'
      BY <1>5
    <2>2. QED
      BY <1>1, <2>1 DEF LivePlanned
  <1>10. form' = {} /\ late' = {} /\ chain' = chain
    BY <1>5 DEF Alone
  <1>11. QED
    BY <1>1, <1>5, <1>6, <1>8, <1>9, <1>10, AloneAfter

LEMMA AppendAlone ==
  ASSUME FillTyped, Alone, t1 \in Tabs, NEW plan \in Plans, Fill!AppendDrop(t1, plan)
  PROVE  Alone'
  <1>1. TabsSound /\ DraftKept(chain, saved, asked) /\ LivePlanned(chain, asked)
        /\ Len(chain.live) \in Nat
    BY DEF FillTyped, Alone, ChainSound, ChainTyped
  <1>2. PICK kept : kept = Fill!NewDraft("append", plan, Len(chain.live))
    OBVIOUS
  <1>3. PICK t : t = Fill!Start("append", plan, kept.start, "template")
    OBVIOUS
  <1>4. plan \in Seq(Fill!Bundles)
    BY FillAssumption DEF Fill!StagingAssumption
  <1>5. t.at = "template" /\ t.n = 1 /\ t.plan = plan /\ t.start = kept.start
    BY <1>3 DEF Fill!Start, Fill!Idle
  <1>6. /\ tab' = [tab EXCEPT ![t1] = t] /\ UNCHANGED <<chain, late, form>>
        /\ saved' = kept /\ Fill!MaySave("append", plan)
        /\ asked' = IF saved = Nothing
                    THEN asked \union {[plan |-> plan, start |-> kept.start]} ELSE asked
    BY <1>2, <1>3 DEF Fill!AppendDrop, Fill!NoDraft
  <1>7. kept \in Fill!SavedDrafts /\ kept.plan = plan /\ DraftKept(chain, kept, asked')
    <2>1. CASE saved = Nothing
      <3>1. kept = [mode |-> "append", plan |-> plan, start |-> Len(chain.live)]
        BY <1>2, <2>1 DEF Fill!NewDraft, Fill!NoDraft
      <3>2. kept \in Fill!SavedDrafts /\ kept.plan = plan /\ kept.mode = "append"
        BY <1>1, <1>4, <3>1 DEF Fill!SavedDrafts
      <3>3. chain.staged = Nothing
        BY <1>1, <2>1 DEF DraftKept
      <3>4. StagedFor(chain, kept)
        BY <3>3 DEF StagedFor
      <3>5. PICK d : d = [plan |-> plan, start |-> kept.start]
        OBVIOUS
      <3>6. d \in asked' /\ d.plan = plan /\ d.start = kept.start
        BY <1>6, <2>1, <3>5
      <3>7. kept # Nothing
        BY <3>2, FillAssumption DEF Fill!StagingAssumption
      <3>8. QED
        BY <3>2, <3>4, <3>6, <3>7 DEF DraftKept
    <2>2. CASE saved # Nothing
      <3>1. saved.mode = "append" /\ saved.plan = plan
        BY <1>6, <2>2 DEF Fill!MaySave, Fill!NoDraft
      <3>2. kept = saved /\ asked' = asked
        BY <1>2, <1>6, <2>2, <3>1 DEF Fill!NewDraft, Fill!NoDraft
      <3>3. saved \in Fill!SavedDrafts
        BY <2>2 DEF FillTyped
      <3>4. QED
        BY <1>1, <2>2, <3>1, <3>2, <3>3 DEF DraftKept
    <2>3. QED
      BY <2>1, <2>2
  <1>8. kept # Nothing
    BY <1>7, FillAssumption DEF Fill!StagingAssumption
  <1>9. Along(t, chain, kept)
    BY <1>5, <1>7, <1>8 DEF Along, HasDraft, WorksFor, HasRead, IsAt, Sending
  <1>10. LivePlanned(chain, asked')
    <2>1. asked \subseteq asked'
      BY <1>6
    <2>2. QED
      BY <1>1, <2>1 DEF LivePlanned
  <1>11. form' = {} /\ late' = {} /\ chain' = chain
    BY <1>6 DEF Alone
  <1>12. QED
    BY <1>1, <1>6, <1>7, <1>9, <1>10, <1>11, AloneAfter

LEMMA CancelDraftAlone ==
  ASSUME FillTyped, Alone, t1 \in Tabs, Fill!CancelDraft(t1)
  PROVE  Alone'
  <1>1. TabsSound /\ DraftKept(chain, saved, asked) /\ LivePlanned(chain, asked)
    BY DEF FillTyped, Alone
  <1>2. PICK t : t = Fill!Start("cancel", saved.plan, saved.start, "template")
    OBVIOUS
  <1>3. t.at = "template" /\ t.n = 1 /\ t.plan = saved.plan /\ t.start = saved.start
    BY <1>2 DEF Fill!Start, Fill!Idle
  <1>4. /\ tab' = [tab EXCEPT ![t1] = t] /\ saved # Nothing
        /\ UNCHANGED <<chain, late, saved, form, asked>>
    BY <1>2 DEF Fill!CancelDraft, Fill!NoDraft
  <1>5. Along(t, chain, saved)
    BY <1>3, <1>4 DEF Along, HasDraft, WorksFor, HasRead, IsAt, Sending
  <1>6. QED
    BY <1>1, <1>4, <1>5, AloneAfter DEF Alone

\* What holds of the tab that works.
LEMMA Working ==
  ASSUME FillTyped, Alone, t1 \in Tabs, NEW u, u = tab[t1], u.at # "idle"
  PROVE  /\ TabsSound /\ u \in Fill!TabStates /\ HasRead(u, chain) /\ IsAt(u, chain)
         /\ saved # Nothing /\ saved \in Fill!SavedDrafts
         /\ u.plan = saved.plan /\ u.start = saved.start
         /\ u.start \in Nat /\ u.n \in Nat \ {0} /\ u.plan \in Seq(Fill!Bundles)
         /\ StagedFor(chain, saved) /\ DraftKept(chain, saved, asked)
         /\ LivePlanned(chain, asked)
         /\ ChainSound(chain) /\ chain.live \in Seq(Fill!Bundles) /\ Len(chain.live) \in Nat
         /\ form = {} /\ late = {}
  <1>1. TabsSound /\ u \in Fill!TabStates /\ Along(u, chain, saved)
    BY DEF FillTyped, TabsSound, Alone
  <1>2. saved # Nothing /\ u.plan = saved.plan /\ u.start = saved.start
    BY <1>1 DEF Along, HasDraft, WorksFor
  <1>3. u.start \in Nat /\ u.n \in Nat \ {0} /\ u.plan \in Seq(Fill!Bundles)
    BY <1>1 DEF Fill!TabStates
  <1>4. saved \in Fill!SavedDrafts /\ ChainSound(chain)
    BY <1>2 DEF FillTyped
  <1>5. chain.live \in Seq(Fill!Bundles) /\ Len(chain.live) \in Nat
    BY <1>4 DEF ChainSound, ChainTyped
  <1>6. DraftKept(chain, saved, asked) /\ LivePlanned(chain, asked) /\ form = {} /\ late = {}
    BY DEF Alone
  <1>7. StagedFor(chain, saved)
    BY <1>2, <1>6 DEF DraftKept
  <1>8. QED
    BY <1>1, <1>2, <1>3, <1>4, <1>5, <1>6, <1>7 DEF Along

\* It decides on one transaction.
LEMMA SendsAlone ==
  ASSUME FillTyped, Alone, t1 \in Tabs, tab[t1].at # "idle",
         NEW tx, NEW t, t = [tab[t1] EXCEPT !.at = "send", !.queue = <<tx>>],
         tab' = [tab EXCEPT ![t1] = t],
         UNCHANGED <<chain, late, saved, form, asked>>,
         tx.kind \in {"mint", "template"} => tab[t1].n = 1,
         tx.kind \notin {"mint", "template"} =>
           Open(chain) /\ (tab[t1].draft <=> chain.template = "draft"),
         tx.kind \in {"add", "fund", "activate"} =>
           /\ Len(chain.live) >= tab[t1].start + tab[t1].n - 1
           /\ tab[t1].flow = "create" \/ ~tab[t1].draft,
         tx.kind \in {"mint", "template", "add", "fund", "activate", "seal"},
         tx.kind = "seal" => chain.staged = Nothing
  PROVE  Alone'
  <1>1. PICK u : u = tab[t1]
    OBVIOUS
  <1>2. TabsSound /\ u \in Fill!TabStates
    BY <1>1, Working
  <1>3. PICK q : q = <<tx>>
    OBVIOUS
  <1>4. Len(q) = 1 /\ q[1] = tx
    BY <1>3
  <1>5. /\ t.at = "send" /\ t.queue = q /\ t.plan = u.plan /\ t.start = u.start
        /\ t.n = u.n /\ t.flow = u.flow /\ t.draft = u.draft
    BY <1>1, <1>2, <1>3 DEF Fill!TabStates
  <1>6. \A i \in 1 .. Len(q) : q[i] = tx
    BY <1>4
  <1>7. HasRead(t, chain)
    <2>1. CASE tx.kind \in {"mint", "template"}
      BY <1>4, <1>5, <2>1 DEF HasRead
    <2>2. CASE tx.kind \notin {"mint", "template"}
      BY <1>1, <1>5, <1>6, <2>2 DEF HasRead
    <2>3. QED
      BY <2>1, <2>2
  <1>8. IsAt(t, chain)
    BY <1>1, <1>4, <1>5 DEF IsAt, Sending
  <1>9. QED
    BY <1>1, <1>2, <1>5, <1>7, <1>8, GoesOnAlone

\* It reads the template.
LEMMA SnapshotAlone ==
  ASSUME FillTyped, Alone, t1 \in Tabs, tab[t1].at # "idle",
         NEW at \in {"bundle", "staged", "publish"}, Fill!Snapshot(t1, at), Open(chain),
         UNCHANGED <<chain, late, saved, form, asked>>,
         at = "bundle" =>
           /\ Len(chain.live) >= tab[t1].start + tab[t1].n - 1
           /\ tab[t1].flow = "create" \/ chain.template # "draft",
         at = "publish" => chain.staged = Nothing
  PROVE  Alone'
  <1>1. PICK u : u = tab[t1]
    OBVIOUS
  <1>2. TabsSound /\ u \in Fill!TabStates
    BY <1>1, Working
  <1>3. PICK t : t = [u EXCEPT !.at = at, !.count = Len(chain.live),
                               !.draft = (chain.template = "draft")]
    OBVIOUS
  <1>4. tab' = [tab EXCEPT ![t1] = t]
    BY <1>1, <1>3 DEF Fill!Snapshot
  <1>5. /\ t.at = at /\ t.plan = u.plan /\ t.start = u.start /\ t.n = u.n /\ t.flow = u.flow
        /\ t.draft = (chain.template = "draft") /\ t.count = Len(chain.live)
    BY <1>2, <1>3 DEF Fill!TabStates
  <1>6. HasRead(t, chain)
    BY <1>5 DEF HasRead
  <1>7. IsAt(t, chain)
    BY <1>1, <1>5 DEF IsAt, Sending
  <1>8. QED
    BY <1>1, <1>2, <1>4, <1>5, <1>6, <1>7, GoesOnAlone

LEMMA ReadForCreateAlone ==
  ASSUME FillTyped, Alone, t1 \in Tabs, Fill!ReadForCreate(t1)
  PROVE  Alone'
  <1>1. PICK u : u = tab[t1]
    OBVIOUS
  <1>2. /\ u.at = "template" /\ u.flow = "create"
        /\ UNCHANGED <<chain, late, lates, saved, form, asked>>
    BY <1>1 DEF Fill!ReadForCreate
  <1>3. /\ TabsSound /\ u \in Fill!TabStates /\ IsAt(u, chain) /\ u.start \in Nat
        /\ Len(chain.live) \in Nat /\ form = {}
    BY <1>1, <1>2, Working
  <1>4. u.n = 1
    BY <1>2, <1>3 DEF IsAt
  <1>5. ASSUME NEW kind \in {"mint", "template"}, Fill!Sends(t1, <<[kind |-> kind]>>)
        PROVE  Alone'
    <2>1. PICK tx : tx = [kind |-> kind]
      OBVIOUS
    <2>2. tx.kind = kind
      BY <2>1
    <2>3. PICK t : t = [u EXCEPT !.at = "send", !.queue = <<tx>>]
      OBVIOUS
    <2>4. tab' = [tab EXCEPT ![t1] = t]
      BY <1>1, <1>5, <2>1, <2>3 DEF Fill!Sends
    <2>5. QED
      BY <1>1, <1>2, <1>4, <1>5, <2>2, <2>3, <2>4, SendsAlone
  <1>6. CASE Open(chain) /\ Fill!InHistory(t1) /\ Fill!Snapshot(t1, "bundle")
    <2>1. Len(chain.live) >= u.start
      BY <1>1, <1>3, <1>6 DEF Fill!InHistory
    <2>2. Len(chain.live) >= u.start + u.n - 1
      BY <1>3, <1>4, <2>1
    <2>3. QED
      BY <1>1, <1>2, <1>6, <2>2, SnapshotAlone
  <1>7. CASE Fill!Stop(t1)
    BY <1>2, <1>3, <1>7, StopsAlone
  <1>8. QED
    BY <1>5, <1>6, <1>7 DEF Fill!ReadForCreate, Fill!Editable, Open

LEMMA ReadForAppendAlone ==
  ASSUME FillTyped, Alone, t1 \in Tabs, Fill!ReadForAppend(t1)
  PROVE  Alone'
  <1>1. PICK u : u = tab[t1]
    OBVIOUS
  <1>2. u.at = "template" /\ UNCHANGED <<chain, late, lates, saved, form, asked>>
    BY <1>1 DEF Fill!ReadForAppend
  <1>3. /\ TabsSound /\ u \in Fill!TabStates /\ IsAt(u, chain) /\ u.start \in Nat
        /\ Len(chain.live) \in Nat /\ form = {}
    BY <1>1, <1>2, Working
  <1>4. u.n = 1
    BY <1>2, <1>3 DEF IsAt
  <1>5. CASE chain.template = "live" /\ Fill!InHistory(t1) /\ Fill!Snapshot(t1, "bundle")
    <2>1. Len(chain.live) >= u.start
      BY <1>1, <1>3, <1>5 DEF Fill!InHistory
    <2>2. Len(chain.live) >= u.start + u.n - 1
      BY <1>3, <1>4, <2>1
    <2>3. Open(chain) /\ chain.template # "draft"
      BY <1>5 DEF Open
    <2>4. QED
      BY <1>1, <1>2, <1>5, <2>2, <2>3, SnapshotAlone
  <1>6. CASE Fill!Stop(t1)
    BY <1>2, <1>3, <1>6, StopsAlone
  <1>7. QED
    BY <1>5, <1>6 DEF Fill!ReadForAppend

LEMMA ReadForCancelAlone ==
  ASSUME FillTyped, Alone, t1 \in Tabs, Fill!ReadForCancel(t1)
  PROVE  Alone'
  <1>1. PICK u : u = tab[t1]
    OBVIOUS
  <1>2. u.at = "template" /\ UNCHANGED <<chain, late, lates, form, asked>>
    BY <1>1 DEF Fill!ReadForCancel
  <1>3. /\ TabsSound /\ saved # Nothing /\ StagedFor(chain, saved) /\ ChainSound(chain)
        /\ u.plan = saved.plan /\ u.start = saved.start /\ form = {}
        /\ u.start \in Nat /\ u.plan \in Seq(Fill!Bundles)
        /\ chain.live \in Seq(Fill!Bundles) /\ Len(chain.live) \in Nat
    BY <1>1, <1>2, Working
  <1>4. CASE chain.template \in {"none", "mint"} /\ saved' = Nothing /\ Fill!Stop(t1)
    <2>1. chain.staged = Nothing /\ chain.template # "draft"
      BY <1>3, <1>4 DEF ChainSound
    <2>2. QED
      BY <1>2, <1>3, <1>4, <2>1, StopsAlone
  <1>5. CASE Fill!Stop(t1) /\ UNCHANGED saved
    BY <1>2, <1>3, <1>5, StopsAlone
  <1>6. CASE /\ Open(chain) /\ UNCHANGED saved
             /\ Len(chain.live) - u.start = Len(u.plan) /\ Fill!Snapshot(t1, "publish")
    <2>1. Len(chain.live) >= saved.start + Len(saved.plan)
      BY <1>3, <1>6
    <2>2. chain.staged = Nothing
      BY <1>3, <2>1, NothingBeyond
    <2>3. QED
      BY <1>1, <1>2, <1>6, <2>2, SnapshotAlone
  <1>7. CASE Open(chain) /\ UNCHANGED saved /\ Fill!Snapshot(t1, "staged")
    BY <1>1, <1>2, <1>7, SnapshotAlone
  <1>8. QED
    BY <1>1, <1>4, <1>5, <1>6, <1>7
    DEF Fill!ReadForCancel, Fill!NoDraft, Fill!Editable, Open

LEMMA SealAlone ==
  ASSUME FillTyped, Alone, t1 \in Tabs, tab[t1].at # "idle",
         Fill!Sends(t1, <<[kind |-> "seal"]>>), chain.staged = Nothing, Open(chain),
         tab[t1].draft <=> chain.template = "draft",
         UNCHANGED <<chain, late, saved, form, asked>>
  PROVE  Alone'
  <1>1. PICK tx : tx = [kind |-> "seal"]
    OBVIOUS
  <1>2. tx.kind = "seal"
    BY <1>1
  <1>3. PICK t : t = [tab[t1] EXCEPT !.at = "send", !.queue = <<tx>>]
    OBVIOUS
  <1>4. tab' = [tab EXCEPT ![t1] = t]
    BY <1>1, <1>3 DEF Fill!Sends
  <1>5. QED
    BY <1>2, <1>3, <1>4, SendsAlone

LEMMA FinishStagingAlone ==
  ASSUME FillTyped, Alone, t1 \in Tabs, Fill!FinishStaging(t1)
  PROVE  Alone'
  <1>1. PICK u : u = tab[t1]
    OBVIOUS
  <1>2. u.at = "bundle" /\ u.n > Len(u.plan) /\ UNCHANGED <<chain, late, lates, asked>>
    BY <1>1 DEF Fill!FinishStaging
  <1>3. /\ TabsSound /\ StagedFor(chain, saved) /\ HasRead(u, chain) /\ IsAt(u, chain)
        /\ u.plan = saved.plan /\ u.start = saved.start /\ form = {}
        /\ u.start \in Nat /\ u.n \in Nat \ {0} /\ u.plan \in Seq(Fill!Bundles)
        /\ chain.live \in Seq(Fill!Bundles) /\ Len(chain.live) \in Nat
    BY <1>1, <1>2, Working
  <1>4. /\ Open(chain) /\ (u.draft <=> chain.template = "draft")
        /\ Len(chain.live) >= u.start + u.n - 1 /\ (u.flow = "create" \/ ~u.draft)
    BY <1>2, <1>3 DEF HasRead, IsAt
  <1>5. Len(chain.live) >= saved.start + Len(saved.plan)
    <2>1. Len(u.plan) \in Nat
      BY <1>3
    <2>2. QED
      BY <1>2, <1>3, <1>4, <2>1
  <1>6. chain.staged = Nothing
    BY <1>3, <1>5, NothingBeyond
  <1>7. CASE Fill!Sends(t1, <<[kind |-> "seal"]>>) /\ UNCHANGED <<saved, form>>
    BY <1>1, <1>2, <1>4, <1>6, <1>7, SealAlone
  <1>8. CASE /\ ~(u.flow = "create" /\ u.draft) /\ Fill!Stop(t1)
             /\ saved' \in {saved, Nothing} /\ form' \subseteq form
    <2>1. chain.template # "draft" /\ form' = {}
      BY <1>3, <1>4, <1>8
    <2>2. QED
      BY <1>2, <1>3, <1>6, <1>8, <2>1, StopsAlone
  <1>9. QED
    BY <1>1, <1>7, <1>8 DEF Fill!FinishStaging, Fill!NoDraft

LEMMA FinishCancelAlone ==
  ASSUME FillTyped, Alone, t1 \in Tabs, Fill!FinishCancel(t1)
  PROVE  Alone'
  <1>1. PICK u : u = tab[t1]
    OBVIOUS
  <1>2. u.at = "publish" /\ UNCHANGED <<chain, late, lates, form, asked>>
    BY <1>1 DEF Fill!FinishCancel
  <1>3. TabsSound /\ HasRead(u, chain) /\ IsAt(u, chain) /\ form = {}
    BY <1>1, <1>2, Working
  <1>4. /\ Open(chain) /\ (u.draft <=> chain.template = "draft") /\ chain.staged = Nothing
    BY <1>2, <1>3 DEF HasRead, IsAt
  <1>5. CASE Fill!Sends(t1, <<[kind |-> "seal"]>>) /\ UNCHANGED saved
    BY <1>1, <1>2, <1>4, <1>5, SealAlone
  <1>6. CASE Fill!Stop(t1) /\ UNCHANGED saved
    BY <1>2, <1>3, <1>6, StopsAlone
  <1>7. CASE /\ ~u.draft \/ chain.template = "live"
             /\ Fill!Stop(t1) /\ saved' = Nothing
    BY <1>2, <1>3, <1>4, <1>7, StopsAlone
  <1>8. QED
    BY <1>1, <1>5, <1>6, <1>7 DEF Fill!FinishCancel, Fill!NoDraft

LEMMA ReadBundleAlone ==
  ASSUME FillTyped, Alone, t1 \in Tabs, Fill!ReadBundle(t1)
  PROVE  Alone'
  <1>1. PICK u : u = tab[t1]
    OBVIOUS
  <1>2. u.at = "bundle" /\ UNCHANGED <<chain, late, lates, saved, form, asked>>
    BY <1>1 DEF Fill!ReadBundle
  <1>3. /\ TabsSound /\ u \in Fill!TabStates /\ HasRead(u, chain) /\ IsAt(u, chain)
        /\ u.start \in Nat /\ u.n \in Nat \ {0} /\ Len(chain.live) \in Nat /\ form = {}
    BY <1>1, <1>2, Working
  <1>4. /\ Open(chain) /\ (u.draft <=> chain.template = "draft")
        /\ Len(chain.live) >= u.start + u.n - 1 /\ (u.flow = "create" \/ ~u.draft)
    BY <1>2, <1>3 DEF HasRead, IsAt
  <1>5. CASE Fill!Stop(t1)
    BY <1>2, <1>3, <1>5, StopsAlone
  <1>6. ASSUME NEW tx, tx.kind \in {"add", "activate"}, Fill!Sends(t1, <<tx>>)
        PROVE  Alone'
    <2>1. PICK t : t = [u EXCEPT !.at = "send", !.queue = <<tx>>]
      OBVIOUS
    <2>2. tab' = [tab EXCEPT ![t1] = t]
      BY <1>1, <1>6, <2>1 DEF Fill!Sends
    <2>3. QED
      BY <1>1, <1>2, <1>4, <1>6, <2>1, <2>2, SendsAlone
  <1>7. CASE Fill!Sends(t1, <<[kind |-> "add", at |-> Fill!Position(t1),
                               copies |-> Fill!Planned(t1).copies,
                               size |-> Len(Fill!Planned(t1).prizes)]>>)
    <2>1. PICK tx : tx = [kind |-> "add", at |-> Fill!Position(t1),
                          copies |-> Fill!Planned(t1).copies,
                          size |-> Len(Fill!Planned(t1).prizes)]
      OBVIOUS
    <2>2. tx.kind = "add"
      BY <2>1
    <2>3. QED
      BY <1>6, <1>7, <2>1, <2>2
  <1>8. CASE tab' = [tab EXCEPT ![t1] =
                       [@ EXCEPT !.at = "send", !.slot = Fill!NextSlot(t1),
                                 !.queue = <<[kind |-> "fund", at |-> Fill!Position(t1),
                                              prize |-> Fill!Planned(t1).prizes[
                                                          Fill!NextSlot(t1)]]>>]]
    <2>1. PICK tx : tx = [kind |-> "fund", at |-> Fill!Position(t1),
                          prize |-> Fill!Planned(t1).prizes[Fill!NextSlot(t1)]]
      OBVIOUS
    <2>2. tx.kind = "fund"
      BY <2>1
    <2>3. PICK q : q = <<tx>>
      OBVIOUS
    <2>4. PICK k : k = Fill!NextSlot(t1)
      OBVIOUS
    <2>5. PICK t : t = [u EXCEPT !.at = "send", !.slot = k, !.queue = q]
      OBVIOUS
    <2>6. tab' = [tab EXCEPT ![t1] = t]
      BY <1>1, <1>8, <2>1, <2>3, <2>4, <2>5
    <2>7. Len(q) = 1 /\ q[1] = tx
      BY <2>3
    <2>8. /\ t.at = "send" /\ t.queue = q /\ t.plan = u.plan /\ t.start = u.start
          /\ t.n = u.n /\ t.flow = u.flow /\ t.draft = u.draft
      BY <1>3, <2>5 DEF Fill!TabStates
    <2>9. \A i \in 1 .. Len(q) : q[i] = tx
      BY <2>7
    <2>10. HasRead(t, chain)
      BY <1>4, <2>2, <2>8, <2>9 DEF HasRead
    <2>11. IsAt(t, chain)
      BY <1>4, <2>2, <2>7, <2>8 DEF IsAt, Sending
    <2>12. QED
      BY <1>1, <1>2, <1>3, <2>6, <2>8, <2>10, <2>11, GoesOnAlone
  <1>9. CASE Fill!Sends(t1, <<[kind |-> "activate", at |-> Fill!Position(t1)]>>)
    <2>1. PICK tx : tx = [kind |-> "activate", at |-> Fill!Position(t1)]
      OBVIOUS
    <2>2. tx.kind = "activate"
      BY <2>1
    <2>3. QED
      BY <1>6, <1>9, <2>1, <2>2
  <1>10. CASE Fill!IsLive(t1) /\ tab' = [tab EXCEPT ![t1] = Fill!NextBundle(t1)]
    <2>1. PICK t : t = Fill!NextBundle(t1)
      OBVIOUS
    <2>2. t = [u EXCEPT !.at = "bundle", !.n = u.n + 1, !.slot = 0, !.queue = <<>>]
      BY <1>1, <2>1 DEF Fill!NextBundle
    <2>3. /\ t.at = "bundle" /\ t.plan = u.plan /\ t.start = u.start
          /\ t.n = u.n + 1 /\ t.flow = u.flow /\ t.draft = u.draft
      BY <1>3, <2>2 DEF Fill!TabStates
    <2>4. Len(chain.live) >= u.start + (u.n + 1) - 1
      BY <1>1, <1>3, <1>10 DEF Fill!IsLive, Fill!Position
    <2>5. HasRead(t, chain)
      BY <1>4, <2>3 DEF HasRead
    <2>6. IsAt(t, chain)
      BY <1>4, <2>3, <2>4 DEF IsAt, Sending
    <2>7. QED
      BY <1>1, <1>2, <1>3, <1>10, <2>1, <2>3, <2>5, <2>6, GoesOnAlone
  <1>11. QED
    BY <1>5, <1>7, <1>8, <1>9, <1>10 DEF Fill!ReadBundle

LEMMA ReadStagedAlone ==
  ASSUME FillTyped, Alone, t1 \in Tabs, Fill!ReadStaged(t1)
  PROVE  Alone'
  <1>1. PICK u : u = tab[t1]
    OBVIOUS
  <1>2. u.at = "staged" /\ UNCHANGED <<chain, late, lates, saved, form, asked>>
    BY <1>1 DEF Fill!ReadStaged
  <1>3. /\ TabsSound /\ u \in Fill!TabStates /\ HasRead(u, chain) /\ IsAt(u, chain)
        /\ u.start \in Nat /\ u.n \in Nat \ {0} /\ Len(chain.live) \in Nat
    BY <1>1, <1>2, Working
  <1>4. /\ Open(chain) /\ (u.draft <=> chain.template = "draft")
        /\ u.count = Len(chain.live)
    BY <1>2, <1>3 DEF HasRead, IsAt
  <1>5. u.count + 1 = Fill!StagedAt(chain)
    BY <1>4 DEF Fill!StagedAt
  <1>6. CASE chain.staged = Nothing
    <2>1. tab' = [tab EXCEPT ![t1].at = "publish"]
      BY <1>6 DEF Fill!ReadStaged
    <2>2. PICK t : t = [u EXCEPT !.at = "publish"]
      OBVIOUS
    <2>3. tab' = [tab EXCEPT ![t1] = t]
      BY <1>1, <2>1, <2>2
    <2>4. /\ t.at = "publish" /\ t.plan = u.plan /\ t.start = u.start
          /\ t.draft = u.draft
      BY <1>3, <2>2 DEF Fill!TabStates
    <2>5. HasRead(t, chain)
      BY <1>4, <2>4 DEF HasRead
    <2>6. IsAt(t, chain)
      BY <1>6, <2>4 DEF IsAt, Sending
    <2>7. QED
      BY <1>1, <1>2, <1>3, <2>3, <2>4, <2>5, <2>6, GoesOnAlone
  <1>7. CASE chain.staged # Nothing
    <2> DEFINE todo == Fill!Unreclaimed(chain.staged)
               m == Fill!Cardinality(todo)
    <2>1. PICK slots :
            Fill!Sends(t1, Append([i \in 1 .. m |->
                                     [kind |-> "reclaim", at |-> u.count + 1,
                                      slot |-> slots[i],
                                      prize |-> chain.staged.prizes[slots[i]]]],
                                  [kind |-> "cancel", at |-> u.count + 1]))
      <3>1. IF tab[t1].count + 1 = Fill!StagedAt(chain) /\ chain.staged # Nothing
            THEN \E slots \in [1 .. m -> todo] :
                   /\ \A i, j \in DOMAIN slots : i < j => slots[i] < slots[j]
                   /\ Fill!Sends(t1, Append([i \in 1 .. m |->
                                               [kind |-> "reclaim", at |-> tab[t1].count + 1,
                                                slot |-> slots[i],
                                                prize |-> chain.staged.prizes[slots[i]]]],
                                            [kind |-> "cancel", at |-> tab[t1].count + 1]))
            ELSE tab' = [tab EXCEPT ![t1].at = "publish"]
        BY DEF Fill!ReadStaged
      <3>2. QED
        BY <1>1, <1>5, <1>7, <3>1, Zenon
    <2>2. PICK r : r = [i \in 1 .. m |->
                          [kind |-> "reclaim", at |-> u.count + 1, slot |-> slots[i],
                           prize |-> chain.staged.prizes[slots[i]]]]
      OBVIOUS
    <2>3. PICK last : last = [kind |-> "cancel", at |-> u.count + 1]
      OBVIOUS
    <2>4. PICK q : q = Append(r, last)
      OBVIOUS
    <2>5. PICK t : t = [u EXCEPT !.at = "send", !.queue = q]
      OBVIOUS
    <2>6. tab' = [tab EXCEPT ![t1] = t]
      BY <1>1, <2>1, <2>2, <2>3, <2>4, <2>5 DEF Fill!Sends
    <2>7. m \in Nat
      <3>1. chain.staged \in Fill!StagedBundles
        BY <1>7, NothingIsNoBundle DEF FillTyped, ChainSound, ChainTyped
      <3>2. 1 \in Int /\ Len(chain.staged.prizes) \in Int
        BY <3>1 DEF Fill!StagedBundles
      <3>3. IsFiniteSet(1 .. Len(chain.staged.prizes))
        BY <3>2, FS_Interval
      <3>4. todo \subseteq 1 .. Len(chain.staged.prizes)
        BY DEF Fill!Unreclaimed
      <3>5. IsFiniteSet(todo)
        BY <3>3, <3>4, FS_Subset
      <3>6. QED
        BY <3>5, CountsAlike, FS_CardinalityType
    <2> HIDE DEF m, todo
    <2>8. PICK S : S = {r[i] : i \in 1 .. m} \union {last}
      OBVIOUS
    <2>9. r \in Seq(S) /\ Len(r) = m /\ last \in S
      <3>1. r \in [1 .. m -> S] /\ last \in S
        BY <2>2, <2>8
      <3>2. QED
        BY <2>7, <3>1
    <2>10. /\ Len(q) = m + 1 /\ q[m + 1] = last
           /\ \A i \in 1 .. m : q[i] = r[i]
      BY <2>4, <2>7, <2>9, AppendProperties
    <2>11. \A i \in 1 .. m : r[i].kind = "reclaim"
      BY <2>2
    <2>12. last.kind = "cancel"
      BY <2>3
    <2>13. \A i \in 1 .. Len(q) : q[i].kind \in {"reclaim", "cancel"}
      <3> SUFFICES ASSUME NEW i \in 1 .. Len(q)
                   PROVE  q[i].kind \in {"reclaim", "cancel"}
        OBVIOUS
      <3>1. i \in 1 .. m \/ i = m + 1
        BY <2>7, <2>10
      <3>2. QED
        BY <2>10, <2>11, <2>12, <3>1
    <2>14. q[1].kind \in {"reclaim", "cancel"}
      <3>1. 1 \in 1 .. Len(q)
        BY <2>7, <2>10
      <3>2. QED
        BY <2>13, <3>1
    <2>15. /\ t.at = "send" /\ t.queue = q /\ t.plan = u.plan /\ t.start = u.start
           /\ t.draft = u.draft
      BY <1>3, <2>5 DEF Fill!TabStates
    <2>16. HasRead(t, chain)
      BY <1>4, <2>13, <2>15 DEF HasRead
    <2>17. IsAt(t, chain)
      BY <2>13, <2>14, <2>15 DEF IsAt, Sending
    <2>18. QED
      BY <1>1, <1>2, <1>3, <2>6, <2>15, <2>16, <2>17, GoesOnAlone
  <1>8. QED
    BY <1>6, <1>7

LEMMA ConfirmedAlone ==
  ASSUME FillTyped, Alone, t1 \in Tabs, Fill!Confirmed(t1)
  PROVE  Alone'
  <1>1. PICK u : u = tab[t1]
    OBVIOUS
  <1>2. PICK t : t = Fill!After(t1)
    OBVIOUS
  <1>3. PICK tx : tx = u.queue[1]
    OBVIOUS
  <1>4. PICK c : c = chain
    OBVIOUS
  <1>5. PICK d : d = chain'
    OBVIOUS
  <1>6. /\ u.at = "send" /\ tab' = [tab EXCEPT ![t1] = t]
        /\ Fill!Lands(Fill!Sent(t1), chain) /\ chain' = Fill!Landed(Fill!Sent(t1), chain)
        /\ saved' = IF Fill!Sent(t1).kind = "seal" THEN Nothing ELSE saved
        /\ UNCHANGED <<late, lates, form, asked>>
    BY <1>1, <1>2 DEF Fill!Confirmed, Fill!NoDraft
  <1>7. /\ TabsSound /\ u \in Fill!TabStates /\ HasRead(u, c) /\ IsAt(u, c)
        /\ saved # Nothing /\ saved \in Fill!SavedDrafts
        /\ u.plan = saved.plan /\ u.start = saved.start
        /\ u.start \in Nat /\ u.n \in Nat \ {0}
        /\ StagedFor(c, saved) /\ DraftKept(c, saved, asked) /\ LivePlanned(c, asked)
        /\ ChainSound(c) /\ c.live \in Seq(Fill!Bundles) /\ Len(c.live) \in Nat
        /\ form = {} /\ late = {}
    BY <1>1, <1>4, <1>6, Working
  <1>8. /\ tx = Fill!Sent(t1) /\ tx \in Fill!Transactions /\ SentFor(tx, u)
        /\ 1 \in 1 .. Len(u.queue) /\ u.queue \in Seq(Fill!Transactions) /\ SendsOn(u)
    BY <1>1, <1>3, <1>6, <1>7, SentIsOne DEF TabsSound
  <1>9. Fill!Lands(tx, c) /\ d = Fill!Landed(tx, c)
    BY <1>4, <1>5, <1>6, <1>8
  <1>10. saved.start \in Nat /\ saved.plan \in Seq(Fill!Bundles)
    BY <1>7 DEF Fill!SavedDrafts
  <1>11. SentFor(tx, saved)
    BY <1>7, <1>8, SentForAlike
  <1>12. StagedFor(d, saved)
    BY <1>7, <1>8, <1>9, <1>10, <1>11, LandsForDraft
  <1>13. LivePlanned(d, asked)
    <2>1. \E v \in asked : v.plan = saved.plan /\ v.start = saved.start
      BY <1>7 DEF DraftKept
    <2>2. QED
      BY <1>7, <1>8, <1>9, <1>10, <2>1, LandsPlanned
  <1>14. ChainTyped(c) /\ ChainTyped(d) /\ ChainTyped(chain')
    BY <1>5, <1>7, <1>8, <1>9, LandsSound DEF ChainSound
  <1>15. /\ tx.kind # "seal" => t.plan = u.plan /\ t.start = u.start /\ t.flow = u.flow
         /\ tx.kind \in {"mint", "template"} => t.at = "template" /\ t.n = u.n
         /\ tx.kind \in {"add", "fund"} => t.at = "bundle" /\ t.n = u.n /\ t.draft = u.draft
         /\ tx.kind = "activate" =>
              t.at = "bundle" /\ t.n = u.n + 1 /\ t.draft = (d.template = "draft")
         /\ tx.kind = "reclaim" =>
              t.at = "send" /\ t.queue = Tail(u.queue) /\ t.draft = u.draft
         /\ tx.kind = "cancel" =>
              /\ t.at = "publish" /\ t.count = Len(d.live)
              /\ t.draft = (d.template = "draft")
         /\ tx.kind = "seal" => t = Fill!Idle
    BY <1>1, <1>2, <1>3, <1>5, <1>6, <1>7, <1>14, AfterIs
  <1>16. tx.kind \notin {"mint", "template"} =>
           Open(c) /\ (u.draft <=> c.template = "draft")
    BY <1>3, <1>6, <1>7 DEF HasRead
  <1>17. ASSUME tx.kind # "seal", HasRead(t, d), IsAt(t, d)
         PROVE  Alone'
    <2>1. saved' = saved
      BY <1>6, <1>8, <1>17
    <2>2. t.plan = saved.plan /\ t.start = saved.start
      BY <1>7, <1>15, <1>17
    <2>3. Along(t, d, saved)
      BY <1>7, <1>17, <2>2 DEF Along, HasDraft, WorksFor
    <2>4. DraftKept(d, saved, asked)
      BY <1>7, <1>12 DEF DraftKept
    <2>5. /\ Along(t, chain', saved') /\ DraftKept(chain', saved', asked')
          /\ LivePlanned(chain', asked') /\ form' = {} /\ late' = {}
      BY <1>5, <1>6, <1>7, <1>13, <2>1, <2>3, <2>4
    <2>6. QED
      BY <1>6, <1>7, <2>5, AloneAfter
  <1>18. CASE Mints(c, tx, d) \/ Opens(c, tx, d)
    <2>1. t.at = "template" /\ t.n = 1 /\ tx.kind # "seal"
      <3>1. tx.kind \in {"mint", "template"}
        BY <1>18 DEF Mints, Opens
      <3>2. u.n = 1
        BY <1>3, <1>6, <1>7, <3>1 DEF IsAt, Sending
      <3>3. QED
        BY <1>15, <3>1, <3>2
    <2>2. HasRead(t, d) /\ IsAt(t, d)
      BY <2>1 DEF HasRead, IsAt, Sending
    <2>3. QED
      BY <1>17, <2>1, <2>2
  <1>19. CASE Seals(c, tx, d)
    <2>1. tx.kind = "seal" /\ d.template = "live" /\ d.staged = c.staged
      BY <1>19 DEF Seals, ChainOf
    <2>2. c.staged = Nothing
      BY <1>3, <1>6, <1>7, <2>1 DEF IsAt, Sending
    <2>3. saved' = Nothing /\ t = Fill!Idle
      BY <1>6, <1>8, <1>15, <2>1
    <2>4. Along(t, d, Nothing)
      BY <2>3, IdleGoes, IdleAlong
    <2>5. DraftKept(d, Nothing, asked)
      BY <2>1, <2>2 DEF DraftKept
    <2>6. /\ Along(t, chain', saved') /\ DraftKept(chain', saved', asked')
          /\ LivePlanned(chain', asked') /\ form' = {} /\ late' = {}
      BY <1>5, <1>6, <1>7, <1>13, <2>3, <2>4, <2>5
    <2>7. QED
      BY <1>6, <1>7, <2>6, AloneAfter
  <1>20. CASE Adds(c, tx, d) \/ Funds(c, tx, d)
    <2>1. tx.kind \in {"add", "fund"} /\ d.live = c.live /\ d.template = c.template
      BY <1>20 DEF Adds, Funds, ChainOf
    <2>2. Len(c.live) >= u.start + u.n - 1 /\ (u.flow = "create" \/ ~u.draft)
      BY <1>3, <1>6, <1>7, <2>1 DEF IsAt, Sending
    <2>3. /\ t.at = "bundle" /\ t.n = u.n /\ t.draft = u.draft
          /\ t.start = u.start /\ t.flow = u.flow
      BY <1>15, <2>1
    <2>4. HasRead(t, d)
      BY <1>16, <2>1, <2>3 DEF HasRead, Open
    <2>5. IsAt(t, d)
      BY <2>1, <2>2, <2>3 DEF IsAt, Sending
    <2>6. QED
      BY <1>17, <2>1, <2>4, <2>5
  <1>21. CASE Activates(c, tx, d)
    <2>1. PICK g : g = [copies |-> c.staged.copies, prizes |-> c.staged.prizes]
      OBVIOUS
    <2>2. /\ tx.kind = "activate" /\ d.live = Append(c.live, g) /\ d.template = c.template
          /\ c.staged # Nothing
      BY <1>21, <2>1 DEF Activates, ChainOf
    <2>3. g \in Fill!Bundles
      BY <1>14, <2>1, <2>2, NothingIsNoBundle
      DEF ChainTyped, Fill!StagedBundles, Fill!Bundles
    <2>4. Len(d.live) = Len(c.live) + 1
      BY <1>7, <2>2, <2>3, AppendProperties
    <2>5. Len(c.live) >= u.start + u.n - 1 /\ (u.flow = "create" \/ ~u.draft)
      BY <1>3, <1>6, <1>7, <2>2 DEF IsAt, Sending
    <2>6. /\ t.at = "bundle" /\ t.n = u.n + 1 /\ t.draft = (d.template = "draft")
          /\ t.start = u.start /\ t.flow = u.flow
      BY <1>15, <2>2
    <2>7. Open(d) /\ (u.draft <=> d.template = "draft")
      BY <1>16, <2>2 DEF Open
    <2>8. HasRead(t, d)
      BY <2>6, <2>7 DEF HasRead
    <2>9. Len(d.live) >= t.start + t.n - 1
      BY <1>7, <2>4, <2>5, <2>6
    <2>10. IsAt(t, d)
      BY <2>5, <2>6, <2>7, <2>9 DEF IsAt, Sending
    <2>11. QED
      BY <1>17, <2>2, <2>8, <2>10
  <1>22. CASE Reclaims(c, tx, d)
    <2>1. tx.kind = "reclaim" /\ d.live = c.live /\ d.template = c.template
      BY <1>22 DEF Reclaims, ChainOf
    <2>2. \A i \in 1 .. Len(u.queue) : u.queue[i].kind \in {"reclaim", "cancel"}
      BY <1>3, <1>6, <1>7, <2>1 DEF IsAt, Sending
    <2>3. Len(u.queue) > 1
      <3>1. Len(u.queue) > 0 /\ u.queue[Len(u.queue)].kind # "reclaim" /\ Len(u.queue) \in Nat
        BY <1>6, <1>8 DEF SendsOn
      <3>2. QED
        BY <1>3, <2>1, <3>1
    <2>4. PICK q : q = Tail(u.queue)
      OBVIOUS
    <2>5. /\ Len(q) > 0 /\ Len(q) \in Nat
          /\ \A i \in 1 .. Len(q) : i + 1 \in 1 .. Len(u.queue) /\ q[i] = u.queue[i + 1]
      BY <1>8, <2>3, <2>4, RestOfQueue
    <2>6. \A i \in 1 .. Len(q) : q[i].kind \in {"reclaim", "cancel"}
      BY <2>2, <2>5
    <2>7. q[1].kind \in {"reclaim", "cancel"}
      BY <2>5, <2>6
    <2>8. t.at = "send" /\ t.queue = q /\ t.draft = u.draft
      BY <1>15, <2>1, <2>4
    <2>9. HasRead(t, d)
      BY <1>16, <2>1, <2>6, <2>8 DEF HasRead, Open
    <2>10. IsAt(t, d)
      BY <2>6, <2>7, <2>8 DEF IsAt, Sending
    <2>11. QED
      BY <1>17, <2>1, <2>9, <2>10
  <1>23. CASE Cancels(c, tx, d)
    <2>1. tx.kind = "cancel" /\ d.template = c.template /\ d.staged = Nothing
      BY <1>23 DEF Cancels, ChainOf
    <2>2. t.at = "publish" /\ t.draft = (d.template = "draft")
      BY <1>15, <2>1
    <2>3. HasRead(t, d)
      BY <1>16, <2>1, <2>2 DEF HasRead, Open
    <2>4. IsAt(t, d)
      BY <2>1, <2>2 DEF IsAt, Sending
    <2>5. QED
      BY <1>17, <2>1, <2>3, <2>4
  <1>24. QED
    BY <1>8, <1>9, <1>14, <1>18, <1>19, <1>20, <1>21, <1>22, <1>23, LandsAs

LEMMA AloneKept ==
  ASSUME FillTyped, Alone, Fill!Next, lates' = 0,
         \A s \in Tabs \ {t1} : tab'[s] = Fill!Idle
  PROVE  Alone'
  <1>1. /\ form = {} /\ late = {} /\ TabsSound /\ lates \in Nat
        /\ \A s \in Tabs \ {t1} : tab[s].at = "idle"
    BY DEF Alone, FillTyped
  <1>2. ASSUME NEW s \in Tabs, Fill!Works(s) \/ Fill!Refused(s) \/ Fill!Closes(s)
        PROVE  Alone'
    <2>1. tab[s].at # "idle"
      BY <1>2
      DEF Fill!Works, Fill!ReadForCreate, Fill!ReadForAppend, Fill!ReadForCancel,
          Fill!ReadBundle, Fill!FinishStaging, Fill!ReadStaged, Fill!FinishCancel,
          Fill!Confirmed, Fill!Refused, Fill!Closes
    <2>2. s = t1 /\ t1 \in Tabs
      BY <1>1, <2>1
    <2>3. CASE Fill!Works(s)
      BY <2>2, <2>3, ReadForCreateAlone, ReadForAppendAlone, ReadForCancelAlone,
         ReadBundleAlone, FinishStagingAlone, ReadStagedAlone, FinishCancelAlone,
         ConfirmedAlone DEF Fill!Works
    <2>4. CASE Fill!Refused(s) \/ Fill!Closes(s)
      BY <1>1, <2>2, <2>4, StopsAlone DEF Fill!Refused, Fill!Closes
    <2>5. QED
      BY <1>2, <2>3, <2>4
  <1>3. ASSUME NEW s \in Tabs, Fill!TimesOut(s)
        PROVE  FALSE
    BY <1>1, <1>3 DEF Fill!TimesOut
  <1>4. ASSUME NEW s \in Tabs, NEW f, NEW plan, NEW start,
               tab' = [tab EXCEPT ![s] = Fill!Start(f, plan, start, "template")]
        PROVE  s = t1
    <2>1. tab'[s].at = "template"
      BY <1>1, <1>4 DEF TabsSound, Fill!Start, Fill!Idle
    <2>2. QED
      BY <2>1, IdleGoes
  <1>5. ASSUME NEW s \in Tabs, NEW plan \in Plans, Fill!CreateDrop(s, plan)
        PROVE  Alone'
    <2>1. s = t1
      BY <1>4, <1>5 DEF Fill!CreateDrop
    <2>2. QED
      BY <1>5, <2>1, CreateAlone
  <1>6. ASSUME NEW s \in Tabs, NEW plan \in Plans, Fill!AppendDrop(s, plan)
        PROVE  Alone'
    <2>1. s = t1
      BY <1>4, <1>6 DEF Fill!AppendDrop
    <2>2. QED
      BY <1>6, <2>1, AppendAlone
  <1>7. ASSUME NEW s \in Tabs, Fill!CancelDraft(s)
        PROVE  Alone'
    <2>1. s = t1
      BY <1>4, <1>7 DEF Fill!CancelDraft
    <2>2. QED
      BY <1>7, <2>1, CancelDraftAlone
  <1>8. ASSUME NEW s \in Tabs, NEW plan \in Forms, Fill!AddPrizes(s, plan)
        PROVE  FALSE
    BY <1>1, <1>8 DEF Fill!AddPrizes
  <1>9. QED
    BY <1>1, <1>2, <1>3, <1>5, <1>6, <1>7, <1>8 DEF Fill!Next

-----------------------------------------------------------------------------
(* What follows for the properties.                                          *)

LEMMA TypedAll ==
  ASSUME FillTyped
  PROVE  Fill!TypeOK
  <1>1. ChainTyped(chain) /\ StageSound(chain)
    BY DEF FillTyped, ChainSound
  <1>2. ASSUME chain.staged # Nothing
        PROVE  /\ Len(chain.staged.prizes) <= chain.staged.size
               /\ Fill!IsInjective(chain.staged.prizes)
               /\ chain.staged.reclaimed \subseteq 1 .. Len(chain.staged.prizes)
    <2>1. chain.staged.prizes \in Seq(Prizes)
      BY <1>1, <1>2, NothingIsNoBundle DEF ChainTyped, Fill!StagedBundles
    <2>2. PICK p \in Seq(Prizes) : p = chain.staged.prizes
      BY <2>1
    <2>3. Different(p)
      BY <1>1, <1>2, <2>2 DEF StageSound
    <2>4. DOMAIN p = 1 .. Len(p)
      OBVIOUS
    <2>5. Fill!IsInjective(p)
      BY <2>3, <2>4 DEF Fill!IsInjective, Different
    <2>6. QED
      BY <1>1, <1>2, <2>2, <2>5 DEF StageSound
  <1>3. /\ late \subseteq Fill!Transactions /\ Fill!IsFiniteSet(late)
        /\ lates \in 0 .. MaxLate /\ Fill!Cardinality(late) <= lates
        /\ saved \in Fill!SavedDrafts \union {Fill!NoDraft}
        /\ asked \subseteq Fill!Requests /\ form \subseteq Forms
        /\ tab \in [Tabs -> Fill!TabStates]
    BY CountsAlike DEF FillTyped, TabsSound, Fill!NoDraft
  <1>4. chain \in [template : {"none", "mint", "draft", "live"}, live : Seq(Fill!Bundles),
                   staged : Fill!StagedBundles \union {Nothing}, wallet : SUBSET Prizes]
    BY <1>1 DEF ChainTyped
  <1>5. QED
    BY <1>2, <1>3, <1>4 DEF Fill!TypeOK

LEMMA KeptAll ==
  ASSUME FillTyped
  PROVE  Fill!PrizesKept
  <1> SUFFICES ASSUME NEW p \in Prizes \ Fungible
               PROVE  Fill!Cardinality({w \in {"wallet", "staged", "live"} :
                                          \/ w = "wallet" /\ p \in chain.wallet
                                          \/ w = "staged" /\ p \in Fill!Staked
                                          \/ w = "live" /\ p \in Fill!LivePrizes}) = 1
    BY DEF Fill!PrizesKept
  <1>1. InOnePlace(chain, p) /\ ChainTyped(chain)
    BY DEF FillTyped, ChainSound
  <1>2. p \in Fill!Staked <=> AtStake(chain, p)
    BY DEF Fill!Staked, AtStake
  <1>3. p \in Fill!LivePrizes <=> GivenAway(chain, p)
    <2>0. \A i \in 1 .. Len(chain.live) : chain.live[i] \in Fill!Bundles
      BY <1>1 DEF ChainTyped
    <2>1. \A i \in 1 .. Len(chain.live) : chain.live[i].prizes \in Seq(Prizes)
      BY <2>0 DEF Fill!Bundles
    <2>2. DOMAIN chain.live = 1 .. Len(chain.live)
      BY <1>1 DEF ChainTyped
    <2>3. \A i \in 1 .. Len(chain.live) :
            p \in Fill!ToSet(chain.live[i].prizes)
              <=> \E k \in 1 .. Len(chain.live[i].prizes) : chain.live[i].prizes[k] = p
      BY <2>1 DEF Fill!ToSet
    <2>4. p \in Fill!LivePrizes
            <=> \E i \in 1 .. Len(chain.live) : p \in Fill!ToSet(chain.live[i].prizes)
      BY <2>2 DEF Fill!LivePrizes
    <2>5. QED
      BY <2>3, <2>4 DEF GivenAway
  <1> DEFINE S == {w \in {"wallet", "staged", "live"} :
                     \/ w = "wallet" /\ p \in chain.wallet
                     \/ w = "staged" /\ p \in Fill!Staked
                     \/ w = "live" /\ p \in Fill!LivePrizes}
  <1>4. S = {"wallet"} \/ S = {"staged"} \/ S = {"live"}
    BY <1>1, <1>2, <1>3 DEF InOnePlace
  <1> HIDE DEF S
  <1>5. Cardinality(S) = 1
    BY <1>4, FS_Singleton
  <1>6. Fill!Cardinality(S) = 1
    BY <1>5, CountsAlike
  <1>7. QED
    BY <1>6 DEF S

\* The prizes of a sequence, as a set.
LEMMA AmongAsSets ==
  ASSUME NEW p \in Seq(Prizes), NEW q \in Seq(Prizes), Among(p, q)
  PROVE  Fill!ToSet(p) \subseteq Fill!ToSet(q)
  BY DEF Among, Fill!ToSet

LEMMA PlannedAll ==
  ASSUME FillTyped, LivePlanned(chain, asked)
  PROVE  Fill!LiveAsPlanned
  <1>1. /\ chain.live \in Seq(Fill!Bundles) /\ DOMAIN chain.live = 1 .. Len(chain.live)
        /\ asked \subseteq Fill!Requests
    BY DEF FillTyped, ChainSound, ChainTyped
  <1>2. ASSUME NEW i \in 1 .. Len(chain.live)
        PROVE  \E d \in asked :
                 /\ i - d.start \in DOMAIN d.plan
                 /\ d.plan[i - d.start].copies = chain.live[i].copies
                 /\ Fill!ToSet(d.plan[i - d.start].prizes) = Fill!ToSet(chain.live[i].prizes)
    <2>1. PICK d \in asked : Planned(chain.live[i], d, i - d.start)
      BY DEF LivePlanned
    <2>2. PICK n : n = i - d.start
      OBVIOUS
    <2>3. /\ n \in 1 .. Len(d.plan) /\ d.plan[n].copies = chain.live[i].copies
          /\ Among(chain.live[i].prizes, d.plan[n].prizes)
          /\ Among(d.plan[n].prizes, chain.live[i].prizes)
      BY <2>1, <2>2 DEF Planned
    <2>4. d.plan \in Seq(Fill!Bundles)
      BY <1>1 DEF Fill!Requests
    <2>9. chain.live[i] \in Fill!Bundles /\ d.plan[n] \in Fill!Bundles
      BY <1>1, <2>3, <2>4
    <2>5. chain.live[i].prizes \in Seq(Prizes) /\ d.plan[n].prizes \in Seq(Prizes)
      BY <2>9 DEF Fill!Bundles
    <2>6. Fill!ToSet(d.plan[n].prizes) = Fill!ToSet(chain.live[i].prizes)
      BY <2>3, <2>5, AmongAsSets
    <2>7. n \in DOMAIN d.plan
      BY <2>3, <2>4
    <2>8. QED
      BY <2>2, <2>3, <2>6, <2>7
  <1>3. QED
    BY <1>1, <1>2 DEF Fill!LiveAsPlanned

LEMMA SharedAll ==
  ASSUME FillTyped, IsFiniteSet(asked), ForOneDraft
  PROVE  Fill!SharedAsPlanned
  <1> SUFFICES ASSUME Cardinality(asked) <= 1
               PROVE  Fill!LiveAsPlanned
    BY CountsAlike DEF Fill!SharedAsPlanned
  <1>1. Cardinality(asked) \in Nat
    BY FS_CardinalityType
  <1>2. CASE asked = {}
    <2>1. chain.live = <<>>
      BY <1>2 DEF ForOneDraft
    <2>2. LivePlanned(chain, asked)
      BY <2>1 DEF LivePlanned
    <2>3. QED
      BY <2>2, PlannedAll
  <1>3. CASE asked # {}
    <2>1. Cardinality(asked) # 0
      BY <1>3, FS_EmptySet
    <2>2. Cardinality(asked) = 1
      BY <1>1, <2>1
    <2>3. \E d : asked = {d}
      BY <2>2, FS_Singleton
    <2>4. LivePlanned(chain, asked)
      BY <2>3 DEF ForOneDraft
    <2>5. QED
      BY <2>4, PlannedAll
  <1>4. QED
    BY <1>2, <1>3

LEMMA DraftThere ==
  ASSUME FillTyped, Alone
  PROVE  Fill!DraftIsThere
  <1>1. DraftKept(chain, saved, asked) /\ ChainTyped(chain)
        /\ saved \in Fill!SavedDrafts \union {Nothing}
    BY DEF Alone, FillTyped, ChainSound
  <1>2. ASSUME chain.staged # Nothing
        PROVE  /\ saved # Fill!NoDraft
               /\ Fill!StagedAt(chain) - saved.start \in DOMAIN saved.plan
               /\ Fill!ToSet(chain.staged.prizes) \subseteq
                    Fill!ToSet(saved.plan[Fill!StagedAt(chain) - saved.start].prizes)
    <2>1. saved # Nothing /\ StagedFor(chain, saved)
      BY <1>1, <1>2 DEF DraftKept
    <2>11. Fill!StagedAt(chain) = Len(chain.live) + 1 /\ Fill!NoDraft = Nothing
      BY DEF Fill!StagedAt, Fill!NoDraft
    <2>12. chain.live \in Seq(Fill!Bundles) /\ saved.start \in Nat
      BY <1>1, <2>1 DEF ChainTyped, Fill!SavedDrafts
    <2>2. PICK n : n = Fill!StagedAt(chain) - saved.start
      OBVIOUS
    <2>10. n = Len(chain.live) + 1 - saved.start /\ Fill!NoDraft = Nothing
      BY <2>2, <2>11, <2>12
    <2>3. n \in 1 .. Len(saved.plan) /\ Among(chain.staged.prizes, saved.plan[n].prizes)
      BY <1>2, <2>1, <2>10 DEF StagedFor
    <2>4. saved.plan \in Seq(Fill!Bundles)
      BY <1>1, <2>1 DEF Fill!SavedDrafts
    <2>9. saved.plan[n] \in Fill!Bundles /\ n \in DOMAIN saved.plan
      BY <2>3, <2>4
    <2>5. saved.plan[n].prizes \in Seq(Prizes) /\ n \in DOMAIN saved.plan
      BY <2>9 DEF Fill!Bundles
    <2>6. chain.staged.prizes \in Seq(Prizes)
      BY <1>1, <1>2, NothingIsNoBundle DEF ChainTyped, Fill!StagedBundles
    <2>7. Fill!ToSet(chain.staged.prizes) \subseteq Fill!ToSet(saved.plan[n].prizes)
      BY <2>3, <2>5, <2>6, AmongAsSets
    <2>8. QED
      BY <2>1, <2>2, <2>5, <2>7, <2>10
  <1>3. chain.template = "draft" => saved # Nothing
    BY <1>1 DEF DraftKept
  <1>4. Fill!StagedHasDraft
    BY <1>2 DEF Fill!StagedHasDraft
  <1>5. Fill!TemplateHasDraft
    BY <1>3 DEF Fill!TemplateHasDraft, Fill!NoDraft
  <1>6. QED
    BY <1>4, <1>5 DEF Fill!DraftIsThere

\* What is always so, in each scene.
StagingInv ==
  /\ FillTyped /\ IsFiniteSet(asked)
  /\ workScene # "page" => ForOneDraft
  /\ workScene = "workshop" => Alone /\ lates = 0

\* A treasury begins empty, with no tab at work.
LEMMA StagingBegins ==
  ASSUME FillInit
  PROVE  StagingInv
  <1>1. chain \in [template : {"none", "live"}, live : {<<>>}, staged : {Nothing},
                   wallet : {Prizes}]
    BY DEF FillInit, Fill!Init
  <1>20. late = {} /\ lates = 0 /\ saved = Nothing /\ asked = {}
    BY DEF FillInit, Fill!Init, Fill!NoDraft
  <1>21. tab = [s \in Tabs |-> Fill!Idle]
    BY DEF FillInit, Fill!Init
  <1>22. form \subseteq Forms /\ (workScene # "page" => form = {})
    BY DEF FillInit, Fill!Init
  <1>2. MaxLate \in Nat
    BY FillAssumption DEF Fill!StagingAssumption
  <1>3. PICK t \in {"none", "live"} : chain = ChainOf(t, <<>>, Nothing, Prizes)
    BY <1>1 DEF ChainOf
  <1>14. chain.live = <<>> /\ chain.staged = Nothing /\ chain.wallet = Prizes
    BY <1>3 DEF ChainOf
  <1>4. ChainTyped(chain)
    <2>1. <<>> \in Seq(Fill!Bundles) /\ Prizes \in SUBSET Prizes
      OBVIOUS
    <2>2. QED
      BY <1>3, <2>1 DEF ChainTyped, ChainOf
  <1>5. ASSUME NEW p \in Prizes
        PROVE  InOnePlace(chain, p)
    BY <1>14, <1>5 DEF InOnePlace, AtStake, GivenAway
  <1>6. ChainSound(chain)
    BY <1>14, <1>4, <1>5 DEF ChainSound, StageSound
  <1>7. \A s \in Tabs : tab[s] = Fill!Idle /\ tab[s].at = "idle"
    BY <1>21, IdleGoes
  <1>8. TabsSound
    <2>1. Fill!Idle \in Fill!TabStates /\ SendsOn(Fill!Idle)
      BY IdleGoes DEF Goes
    <2>2. QED
      BY <1>21, <2>1, <1>7 DEF TabsSound
  <1>9. Cardinality(late) = 0 /\ IsFiniteSet(late) /\ IsFiniteSet(asked)
    BY <1>20, FS_EmptySet
  <1>10. FillTyped
    <2>1. lates \in 0 .. MaxLate /\ Cardinality(late) <= lates
      BY <1>20, <1>2, <1>9
    <2>2. late \subseteq Fill!Transactions /\ asked \subseteq Fill!Requests
      BY <1>20
    <2>3. QED
      BY <1>20, <1>22, <1>6, <1>8, <1>9, <2>1, <2>2 DEF FillTyped
  <1>11. workScene # "page" => ForOneDraft
    <2>1. ~\E d : asked = {d}
      BY <1>20
    <2>2. QED
      BY <1>20, <1>22, <1>14, <1>7, <2>1 DEF ForOneDraft
  <1>12. workScene = "workshop" => Alone
    <2>1. \A s \in Tabs : Along(tab[s], chain, saved)
      BY <1>7, IdleAlong
    <2>2. DraftKept(chain, saved, asked) /\ LivePlanned(chain, asked)
      BY <1>20, <1>3, <1>14 DEF DraftKept, LivePlanned, ChainOf
    <2>3. ASSUME workScene = "workshop"
          PROVE  form = {} /\ late = {} /\ \A s \in Tabs : tab[s].at = "idle"
      BY <1>20, <1>22, <1>7, <2>3
    <2>4. QED
      BY <2>1, <2>2, <2>3 DEF Alone
  <1>13. QED
    BY <1>20, <1>9, <1>10, <1>11, <1>12 DEF StagingInv

\* One more draft at a time.
LEMMA AskedFinite ==
  ASSUME IsFiniteSet(asked), Fill!Next
  PROVE  IsFiniteSet(asked')
  <1>1. asked' = asked \/ \E d : asked' = asked \union {d}
    BY DEF Fill!Next, Fill!Works, Fill!CreateDrop, Fill!AppendDrop, Fill!AddPrizes,
           Fill!CancelDraft, Fill!ReadForCreate, Fill!ReadForAppend, Fill!ReadForCancel,
           Fill!ReadBundle, Fill!FinishStaging, Fill!ReadStaged, Fill!FinishCancel,
           Fill!Confirmed, Fill!Refused, Fill!TimesOut, Fill!Closes, Fill!LandsLate,
           Fill!Expires
  <1>2. QED
    BY <1>1, FS_AddElement

LEMMA StagingStep ==
  ASSUME StagingInv, [FillNext]_everyPart
  PROVE  StagingInv'
  <1>1. CASE Filled
    <2>1. Fill!Next /\ workScene' = workScene
      BY <1>1 DEF Filled
    <2>2. FillTyped' /\ IsFiniteSet(asked)'
      BY <2>1, FillTypedKept, AskedFinite DEF StagingInv
    <2>3. workScene # "page" => ForOneDraft'
      BY <2>1, ForOneDraftKept DEF StagingInv
    <2>4. ASSUME workScene = "workshop"
          PROVE  Alone' /\ lates' = 0
      <3>1. lates' <= 0 /\ \A s \in Tabs \ {t1} : tab'[s] = Fill!Idle
        BY <1>1, <2>4 DEF Filled, OneTab, Within
      <3>2. lates' = 0
        BY <2>2, <3>1 DEF FillTyped
      <3>3. QED
        BY <2>1, <2>4, <3>1, <3>2, AloneKept DEF StagingInv
    <2>5. QED
      BY <2>1, <2>2, <2>3, <2>4 DEF StagingInv
  <1>2. CASE UNCHANGED <<workScene, filling>>
    <2>1. UNCHANGED <<workScene, chain, late, lates, saved, form, tab, asked>>
      BY <1>2 DEF filling
    <2>2. FillTyped' <=> FillTyped
      BY <2>1 DEF FillTyped, TabsSound
    <2>3. ForOneDraft' <=> ForOneDraft
      BY <2>1 DEF ForOneDraft, SavedFor
    <2>4. Alone' <=> Alone
      BY <2>1 DEF Alone
    <2>5. QED
      BY <2>1, <2>2, <2>3, <2>4 DEF StagingInv
  <1>3. QED
    BY <1>1, <1>2 DEF FillNext, everyPart

\* Nothing is lost on the way into a treasury (NothingLost: the prizes of
\* createTemplate, appendBundles, publishTemplate and cancelFundingBundle are in one
\* place; what goes live is what was asked for; a draft is kept for as long as it is
\* needed), for every set of tabs, prizes and plans, as many drafts and
\* transactions that land late as there may be.  Of the scene "late" it leaves out
\* the live bundles of several drafts, of which one late transaction is not enough
\* to mix them up but two are.
THEOREM StagingAlwaysSound ==
  FillSpec => [](/\ workScene # "late" => NothingLost
                 /\ Fill!TypeOK /\ Fill!PrizesKept
                 /\ workScene # "page" => Fill!SharedAsPlanned)
  <1>1. FillInit => StagingInv
    BY StagingBegins
  <1>2. StagingInv /\ [FillNext]_everyPart => StagingInv'
    BY StagingStep
  <1>3. StagingInv => /\ workScene # "late" => NothingLost
                      /\ Fill!TypeOK /\ Fill!PrizesKept
                      /\ workScene # "page" => Fill!SharedAsPlanned
    <2> SUFFICES ASSUME StagingInv
                 PROVE  /\ workScene # "late" => NothingLost
                        /\ Fill!TypeOK /\ Fill!PrizesKept
                        /\ workScene # "page" => Fill!SharedAsPlanned
      OBVIOUS
    <2>1. Fill!TypeOK /\ Fill!PrizesKept
      BY TypedAll, KeptAll DEF StagingInv
    <2>2. workScene # "page" => Fill!SharedAsPlanned
      BY SharedAll DEF StagingInv
    <2>3. workScene = "workshop" => Fill!LiveAsPlanned /\ Fill!DraftIsThere
      BY PlannedAll, DraftThere DEF StagingInv, Alone
    <2>4. QED
      BY <2>1, <2>2, <2>3 DEF NothingLost
  <1>4. QED
    BY <1>1, <1>2, <1>3, PTL DEF FillSpec
==============================================================================
