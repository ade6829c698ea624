-------------------------------- MODULE Cron --------------------------------
(***************************************************************************)
(* The runs of the hosted relayer (app/lib/.server/relayer.ts of the        *)
(* platform).  Every minute the Worker starts a run; a row of the database   *)
(* leases the work to one of them, a second row remembers the last lootbox   *)
(* that was looked at, and a budget of time and of transactions ends the     *)
(* run before its lease does.  What a run does with one lootbox is module     *)
(* Relay; here it is a series of transactions.                                *)
(*                                                                          *)
(* Times are kept as what is left of them: left[r] is the time to the         *)
(* deadline of run r, lease.left the time to the end of the lease, negative   *)
(* when it is past.  Times further in the past than Past are not told apart.  *)
(***************************************************************************)
EXTENDS Integers, FiniteSets

CONSTANTS
  Runs,           \* names for the runs that exist at one time
  None,           \* no holder: the lease row does not exist
  MaxId,          \* bound: lootboxes have the ids 1..MaxId
  Ttl,            \* LEASE_TTL_SECONDS
  Duration,       \* RELAYER_RUN_LIMITS.durationSeconds
  RpcTimeout,     \* timeoutMs of the relayer's RPC transport
  DbTimeout,      \* the longest wait for the lease row
  Past,           \* bound: how far a time is followed after it has come
  PageSize,       \* RELAYER_RUN_LIMITS.lootboxes
  Transactions,   \* RELAYER_RUN_LIMITS.transactions
  PerLootbox      \* RELAYER_RUN_LIMITS.transactionsPerLootbox

ASSUME TimesAssumption ==
  /\ Ttl \in Nat /\ Duration \in Nat /\ RpcTimeout \in Nat /\ Past \in Nat
  /\ Duration > 0 /\ RpcTimeout <= Past
  /\ Duration + RpcTimeout < Ttl

ASSUME LimitsAssumption ==
  /\ MaxId \in Nat /\ PageSize \in Nat /\ Transactions \in Nat
  /\ PerLootbox \in Nat /\ PageSize > 0
  /\ None \notin Runs

VARIABLES
  lease,      \* relayer_leases: its holder and what is left of it
  cursor,     \* relayer_cursor.lootbox_id, 0 when there is no row
  lootboxes,  \* the ids of the table lootboxes on the relayer's clusters
  pc,         \* where each run is
  left,       \* the time to the deadline of each run
  call,       \* what is left of the timeout of a sendTransaction in flight
  from,       \* the cursor that the run has read
  page,       \* the lootboxes the run still has to look at
  attempts,   \* the transactions the run has reserved
  local       \* those it has reserved for the lootbox it is at

vars == <<lease, cursor, lootboxes, pc, left, call, from, page, attempts, local>>

Places == {"off", "acquire", "cursor", "page", "loop", "save", "walk", "sign",
           "send", "leave"}

Ids == 1..MaxId

Init ==
  /\ lease = [holder |-> None, left |-> 0]
  /\ cursor = 0
  /\ lootboxes = {}
  /\ pc = [r \in Runs |-> "off"]
  /\ left = [r \in Runs |-> -Past]
  /\ call = [r \in Runs |-> 0]
  /\ from = [r \in Runs |-> 0]
  /\ page = [r \in Runs |-> {}]
  /\ attempts = [r \in Runs |-> 0]
  /\ local = [r \in Runs |-> 0]

(***************************************************************************)
(* The budget.  A run sends nothing after its deadline, and no more than     *)
(* its share for the lootbox it is at.                                        *)
(***************************************************************************)
Expired(r) == left[r] <= 0

\* Mutant: the limit on transactions is for each lootbox only.
StopAtDeadline(r) == Expired(r)

ShouldStop(r) == Expired(r) \/ attempts[r] >= Transactions

LootboxStop(r) == ShouldStop(r) \/ local[r] >= PerLootbox

(***************************************************************************)
(* The database.                                                             *)
(***************************************************************************)
\* A new lootbox gets the next id.
AddLootbox ==
  /\ Cardinality(lootboxes) < MaxId
  /\ lootboxes' = lootboxes \union {Cardinality(lootboxes) + 1}
  /\ UNCHANGED <<lease, cursor, pc, left, call, from, page, attempts, local>>

\* Mutant: the page starts with the lootbox of the cursor.
PageFrom(n) ==
  LET after == {l \in lootboxes : l >= n}
  IN  {l \in after : Cardinality({k \in after : k < l}) < PageSize}

\* The ids after n, at most PageSize of them in their order.
PageAfter(n) ==
  LET after == {l \in lootboxes : l > n}
  IN  {l \in after : Cardinality({k \in after : k < l}) < PageSize}

\* The row is taken when there is none, or when it had expired at the time
\* that the run has passed, which is the time it started.
LeaseIsFree(r) == lease.holder = None \/ lease.left <= left[r] - Duration

TakeLease(r) == lease' = [holder |-> r, left |-> left[r] - Duration + Ttl]

\* Mutant: the row is deleted whoever holds it.
DropAnyLease(r) == lease' = [holder |-> None, left |-> 0]

DropLease(r) ==
  lease' = IF lease.holder = r THEN [holder |-> None, left |-> 0] ELSE lease

(***************************************************************************)
(* The steps of a run.                                                       *)
(***************************************************************************)
Goto(r, place) == pc' = [pc EXCEPT ![r] = place]

\* The run is over and its variables are gone.
End(r) ==
  /\ Goto(r, "off")
  /\ left' = [left EXCEPT ![r] = -Past]
  /\ call' = [call EXCEPT ![r] = 0]
  /\ from' = [from EXCEPT ![r] = 0]
  /\ page' = [page EXCEPT ![r] = {}]
  /\ attempts' = [attempts EXCEPT ![r] = 0]
  /\ local' = [local EXCEPT ![r] = 0]

\* The deadline is fixed before the lease is asked for.
Start(r) ==
  /\ pc[r] = "off"
  /\ Goto(r, "acquire")
  /\ left' = [left EXCEPT ![r] = Duration]
  /\ UNCHANGED <<lease, cursor, lootboxes, call, from, page, attempts, local>>

Acquire(r) ==
  /\ pc[r] = "acquire"
  /\ LeaseIsFree(r)
  /\ TakeLease(r)
  /\ Goto(r, "cursor")
  /\ UNCHANGED <<cursor, lootboxes, left, call, from, page, attempts, local>>

Refused(r) ==
  /\ pc[r] = "acquire"
  /\ ~LeaseIsFree(r)
  /\ End(r)
  /\ UNCHANGED <<lease, cursor, lootboxes>>

\* The row is written, and the answer is lost: the run ends with an error and
\* nobody releases the lease.
AcquireLost(r) ==
  /\ pc[r] = "acquire"
  /\ LeaseIsFree(r)
  /\ TakeLease(r)
  /\ End(r)
  /\ UNCHANGED <<cursor, lootboxes>>

ReadCursor(r) ==
  /\ pc[r] = "cursor"
  /\ from' = [from EXCEPT ![r] = cursor]
  /\ Goto(r, "page")
  /\ UNCHANGED <<lease, cursor, lootboxes, left, call, page, attempts, local>>

\* The page after the cursor, or the first one when nothing is after it.
ReadPage(r) ==
  /\ pc[r] = "page"
  /\ page' = [page EXCEPT ![r] = IF PageAfter(from[r]) = {}
                                 THEN PageAfter(0) ELSE PageAfter(from[r])]
  /\ Goto(r, "loop")
  /\ UNCHANGED <<lease, cursor, lootboxes, left, call, from, attempts, local>>

NextLootbox(r) ==
  /\ pc[r] = "loop"
  /\ page[r] # {}
  /\ ~ShouldStop(r)
  /\ Goto(r, "save")
  /\ UNCHANGED <<lease, cursor, lootboxes, left, call, from, page, attempts, local>>

Finish(r) ==
  /\ pc[r] = "loop"
  /\ page[r] = {} \/ ShouldStop(r)
  /\ Goto(r, "leave")
  /\ UNCHANGED <<lease, cursor, lootboxes, left, call, from, page, attempts, local>>

\* The cursor moves before the lootbox is looked at.
SaveCursor(r) ==
  /\ pc[r] = "save"
  /\ \E l \in page[r] :
       /\ \A k \in page[r] : l <= k
       /\ cursor' = l
       /\ page' = [page EXCEPT ![r] = @ \ {l}]
  /\ local' = [local EXCEPT ![r] = 0]
  /\ Goto(r, "walk")
  /\ UNCHANGED <<lease, lootboxes, left, call, from, attempts>>

\* Mutant: the attempt is counted without a look at the budget.
ReserveAnyway(r) ==
  /\ pc[r] = "walk"
  /\ attempts' = [attempts EXCEPT ![r] = @ + 1]
  /\ local' = [local EXCEPT ![r] = @ + 1]
  /\ Goto(r, "sign")
  /\ UNCHANGED <<lease, cursor, lootboxes, left, call, from, page>>

\* beforeTransaction: the attempt is counted before it is signed.
Reserve(r) ==
  /\ pc[r] = "walk"
  /\ ~LootboxStop(r)
  /\ attempts' = [attempts EXCEPT ![r] = @ + 1]
  /\ local' = [local EXCEPT ![r] = @ + 1]
  /\ Goto(r, "sign")
  /\ UNCHANGED <<lease, cursor, lootboxes, left, call, from, page>>

\* The transport looks at the deadline once more, after the signature.
Send(r) ==
  /\ pc[r] = "sign"
  /\ ~Expired(r)
  /\ call' = [call EXCEPT ![r] = RpcTimeout]
  /\ Goto(r, "send")
  /\ UNCHANGED <<lease, cursor, lootboxes, left, from, page, attempts, local>>

SendRefused(r) ==
  /\ pc[r] = "sign"
  /\ Expired(r)
  /\ Goto(r, "walk")
  /\ UNCHANGED <<lease, cursor, lootboxes, left, call, from, page, attempts, local>>

\* The node answers, the call times out, or the run's signal aborts it.
EndSend(r) ==
  /\ pc[r] = "send"
  /\ call' = [call EXCEPT ![r] = 0]
  /\ Goto(r, "walk")
  /\ UNCHANGED <<lease, cursor, lootboxes, left, from, page, attempts, local>>

\* relayTemplateOpenings returns or its error is caught; the events are kept.
EndWalk(r) ==
  /\ pc[r] = "walk"
  /\ Goto(r, "loop")
  /\ UNCHANGED <<lease, cursor, lootboxes, left, call, from, page, attempts, local>>

\* The signal, the database or the configuration throws: the finally releases.
Throw(r) ==
  /\ pc[r] \in {"cursor", "page", "save", "walk"}
  /\ Goto(r, "leave")
  /\ UNCHANGED <<lease, cursor, lootboxes, left, call, from, page, attempts, local>>

Release(r) ==
  /\ pc[r] = "leave"
  /\ DropLease(r)
  /\ End(r)
  /\ UNCHANGED <<cursor, lootboxes>>

\* The Worker is stopped, or the release fails: the lease stays.
Crash(r) ==
  /\ pc[r] # "off"
  /\ End(r)
  /\ UNCHANGED <<lease, cursor, lootboxes>>

\* One second.  A call does not outlive its timeout, nor does the database take
\* longer than DbTimeout to take the lease or to fail.
Tick ==
  /\ \A r \in Runs :
       /\ pc[r] = "send" => call[r] > 0
       /\ pc[r] = "acquire" => left[r] > Duration - DbTimeout
  /\ left' = [r \in Runs |-> IF left[r] > -Past THEN left[r] - 1 ELSE left[r]]
  /\ call' = [r \in Runs |-> IF pc[r] = "send" THEN call[r] - 1 ELSE call[r]]
  /\ lease' = [holder |-> lease.holder,
               left |-> IF lease.holder # None /\ lease.left > -(Past + Duration)
                        THEN lease.left - 1 ELSE lease.left]
  /\ UNCHANGED <<cursor, lootboxes, pc, from, page, attempts, local>>

Step(r) ==
  \/ Start(r) \/ Acquire(r) \/ Refused(r) \/ ReadCursor(r) \/ ReadPage(r)
  \/ NextLootbox(r) \/ Finish(r) \/ SaveCursor(r) \/ Reserve(r) \/ Send(r)
  \/ SendRefused(r) \/ EndSend(r) \/ EndWalk(r) \/ Release(r)

Fault(r) == AcquireLost(r) \/ Throw(r) \/ Crash(r)

Next == AddLootbox \/ Tick \/ \E r \in Runs : Step(r) \/ Fault(r)

Spec == Init /\ [][Next]_vars

(***************************************************************************)
(* Fairness.  Time passes and a run that is not stopped goes on.  Runs are   *)
(* stopped anywhere, by the Worker's limits or by a lootbox that kills every *)
(* run that walks it, and the database may use up their time; but not every   *)
(* run ends so before its first lootbox: each step up to the cursor's is       *)
(* taken in time again and again if it is possible in time again and again.   *)
(* The Worker starts a run every minute, so also when no lease is in force.    *)
(***************************************************************************)
Fairness ==
  /\ WF_vars(Tick)
  /\ \A r \in Runs : WF_vars(Step(r))
  /\ SF_vars(\E r \in Runs : lease.left <= 0 /\ Start(r))
  /\ SF_vars(\E r \in Runs : ~Expired(r) /\ Acquire(r))
  /\ SF_vars(\E r \in Runs : ~Expired(r) /\ ReadCursor(r))
  /\ SF_vars(\E r \in Runs : ~Expired(r) /\ ReadPage(r))
  /\ SF_vars(\E r \in Runs : NextLootbox(r))
  /\ SF_vars(\E r \in Runs : SaveCursor(r))

FairSpec == Spec /\ Fairness

(***************************************************************************)
(* Properties.                                                               *)
(***************************************************************************)
TypeOK ==
  /\ lease \in [holder : Runs \union {None}, left : -(Past + Duration)..Ttl]
  /\ cursor \in 0..MaxId
  /\ lootboxes \subseteq Ids
  /\ pc \in [Runs -> Places]
  /\ left \in [Runs -> -Past..Duration]
  /\ call \in [Runs -> 0..RpcTimeout]
  /\ from \in [Runs -> 0..MaxId]
  /\ page \in [Runs -> SUBSET Ids]
  /\ attempts \in [Runs -> 0..Transactions]
  /\ local \in [Runs -> 0..PerLootbox]

\* Two runs never have a transaction on its way to the chain at the same time:
\* a slow lease, a stale answer of the database, a killed run and a signature
\* that takes too long included.
OneSender ==
  \A r, q \in Runs : pc[r] = "send" /\ pc[q] = "send" => r = q

\* A lootbox whose turn is recorded had a transaction of the run's budget left
\* for it: the page is longer than the budget, and a lootbox at its end waits
\* for the next run instead of being passed over.
TurnHasBudget ==
  \A r \in Runs : pc[r] = "save" => attempts[r] < Transactions

\* What a run relies on while it holds the lease.
RelayerSound == TypeOK /\ OneSender /\ TurnHasBudget

\* Every lootbox gets its turn again and again, although runs are killed, the
\* table grows, stale runs move the cursor back and a lootbox may kill every
\* run that walks it.
EveryLootboxHasTurns ==
  \A l \in Ids : [](l \in lootboxes => <>(cursor = l))

(***************************************************************************)
(* What makes OneSender inductive: until its deadline and the timeout of a   *)
(* call have passed, a run in possession is named in the row, and the row's   *)
(* time is its own plus the difference of the two limits.                     *)
(***************************************************************************)
InPossession == Places \ {"off", "acquire"}

LeaseOutlivesRun ==
  \A r \in Runs :
    pc[r] \in InPossession /\ left[r] > -RpcTimeout =>
      /\ lease.holder = r
      /\ lease.left = left[r] + (Ttl - Duration)

SendInTime ==
  \A r \in Runs : pc[r] = "send" => left[r] + RpcTimeout > call[r]

IInv == TypeOK /\ LeaseOutlivesRun /\ SendInTime

=============================================================================
