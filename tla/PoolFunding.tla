----------------------------- MODULE PoolFunding -----------------------------
(***************************************************************************)
(* Filling a prize pool from a client, and emptying it again: fundPrizePool,   *)
(* the pools of cancelFundingBundle, and reclaimPrizePool of the SDK            *)
(* (client.ts).  The program is PrizePool; every instruction the client sends    *)
(* is one of its actions, and is refused when that action cannot be taken.        *)
(*                                                                             *)
(* The pool is the only asset of a staged bundle, as Staging has the others.       *)
(* The plan of a draft is the leaves in their order, each with the verification    *)
(* flag, and so the hashes, it had when the draft was begun; the draft is saved   *)
(* in the browser and shared by the tabs of one wallet.  Before each write the     *)
(* client asks for a fresh proof, which shows the leaf as it is.                   *)
(***************************************************************************)
EXTENDS PrizePool

CONSTANTS
  Tabs,        \* tabs with the creator's wallet
  MaxDrafts,   \* drafts begun, bound of the model
  MaxToggles,  \* changes of a leaf by its collection, bound of the model
  MaxFaults,   \* requests that fail and pages that are reloaded, bound of the model
  MaxLate      \* confirmations that time out, bound of the model

ASSUME FundingAssumption ==
  /\ Quantity <= Cardinality(Leaves)
  /\ {MaxDrafts, MaxToggles, MaxFaults, MaxLate} \subseteq Nat
  /\ None \notin [1 .. Quantity -> Leaves \X BOOLEAN]

VARIABLES
  tab,    \* what each tab is doing
  saved,  \* the plan of the saved draft
  late,   \* transactions nobody waits for that may still land
  asked,  \* the plans of all drafts that were begun
  count   \* drafts begun, flags toggled, requests failed, confirmations timed out

allVars == <<vars, tab, saved, late, asked, count>>

\* The orders in which a draft may name leaves that the wallet holds.
Plans == {p \in [1 .. Quantity -> {l \in Leaves : owner[l] = "creator"}] : IsInjective(p)}

WithFlags(p) == [i \in 1 .. Quantity |-> <<p[i], flag[p[i]]>>]

NoTask == [pc |-> "idle", plan |-> <<>>, pool |-> None, at |-> 0, proof |-> FALSE]

FundingInit ==
  /\ Init
  /\ tab = [t \in Tabs |-> NoTask]
  /\ saved = None
  /\ late = {}
  /\ asked = {}
  /\ count = [drafts |-> 0, toggles |-> 0, faults |-> 0, lates |-> 0]

(***************************************************************************)
(* Transactions.                                                             *)
(***************************************************************************)
Tx(op, i, l, f) == [op |-> op, index |-> i, leaf |-> l, flag |-> f]

Simple(op) == Tx(op, 0, None, FALSE)

\* A leaf moves only with a proof that shows it as it is.
Proven(i, f) == item[i] # None /\ flag[item[i].leaf] = f

Executes(x) ==
  \/ x.op = "addBundle" /\ AddBundle
  \/ x.op = "create" /\ CreatePrizePool
  \/ /\ x.op = "prepare" /\ pool # None /\ pool.cursor = x.index
     /\ PreparePrizePoolItem(x.leaf, x.flag)
  \/ /\ x.op = "deposit" /\ pool # None /\ pool.cursor = x.index
     /\ DepositPrizePoolItem(x.leaf, x.flag)
  \/ x.op = "seal" /\ SealPrizePool
  \/ x.op = "activate" /\ ActivateBundle
  \/ x.op = "cancelItem" /\ pool # None /\ pool.cursor = x.index /\ CancelPrizePoolItem
  \/ /\ x.op = "reclaim" /\ Proven(x.index, x.flag) /\ item[x.index].leaf = x.leaf
     /\ ReclaimUnfinished(x.index) \/ ReclaimSealed(x.index)
  \/ x.op = "close" /\ ClosePrizePool
  \/ x.op = "cancelBundle" /\ CancelBundle

Refuses(x) == ~ENABLED Executes(x)

\* A tab sends a transaction and waits for it: it is executed, or refused, or its
\* confirmation times out and it may be executed later.
Sends(t, x, next) ==
  \/ /\ Executes(x)
     /\ tab' = [tab EXCEPT ![t] = next]
     /\ UNCHANGED <<saved, late, asked, count>>
  \/ /\ Refuses(x)
     /\ tab' = [tab EXCEPT ![t] = NoTask]
     /\ UNCHANGED <<vars, saved, late, asked, count>>
  \/ /\ count.lates < MaxLate
     /\ count' = [count EXCEPT !.lates = @ + 1]
     /\ late' = late \union {x}
     /\ tab' = [tab EXCEPT ![t] = NoTask]
     /\ UNCHANGED <<vars, saved, asked>>

LandsLate(x) ==
  /\ late' = late \ {x}
  /\ \/ Executes(x)
     \/ Refuses(x) /\ UNCHANGED vars
  /\ UNCHANGED <<tab, saved, asked, count>>

Expires(x) == late' = late \ {x} /\ UNCHANGED <<vars, tab, saved, asked, count>>

(***************************************************************************)
(* Steps of a tab that only read.                                            *)
(***************************************************************************)
Goes(t, next) == tab' = [tab EXCEPT ![t] = next] /\ UNCHANGED <<vars, saved, late, asked, count>>

To(t, pc) == Goes(t, [tab[t] EXCEPT !.pc = pc])

Throws(t) == Goes(t, NoTask)

At(t, pc) == tab[t].pc = pc

\* What the tab last read of the pool.
Reads(t, pc) == Goes(t, [tab[t] EXCEPT !.pc = pc, !.pool = pool])

(***************************************************************************)
(* Funding.                                                                  *)
(***************************************************************************)
\* A new draft, when none is saved, or the saved one is resumed.
Begin(t) ==
  /\ At(t, "idle")
  /\ \/ /\ saved = None /\ count.drafts < MaxDrafts
        /\ bundle.status # "active"
        /\ \E p \in Plans :
             /\ saved' = WithFlags(p)
             /\ asked' = asked \union {WithFlags(p)}
             /\ tab' = [tab EXCEPT ![t] = [NoTask EXCEPT !.pc = "bundle", !.plan = WithFlags(p)]]
        /\ count' = [count EXCEPT !.drafts = @ + 1]
     \/ /\ saved # None
        /\ tab' = [tab EXCEPT ![t] = [NoTask EXCEPT !.pc = "bundle", !.plan = saved]]
        /\ UNCHANGED <<saved, asked, count>>
  /\ UNCHANGED <<vars, late>>

ReadBundle(t) ==
  /\ At(t, "bundle")
  /\ \/ bundle.status = "none" /\ To(t, "addBundle")
     \/ bundle.status = "funding" /\ ~bundle.funded /\ To(t, "pool")
     \/ bundle.status = "funding" /\ bundle.funded /\ To(t, "activate")
     \/ /\ bundle.status = "active"
        /\ saved' = None
        /\ tab' = [tab EXCEPT ![t] = NoTask]
        /\ UNCHANGED <<vars, late, asked, count>>

AddsBundle(t) == At(t, "addBundle") /\ Sends(t, Simple("addBundle"), [tab[t] EXCEPT !.pc = "bundle"])

\* The leaf of an item of the plan, as saved, and as a proof shows it now.
Planned(t, i) == tab[t].plan[i + 1]
Fresh(t, i) == flag[Planned(t, i)[1]]

ReadPool(t) ==
  /\ At(t, "pool")
  /\ \/ pool = None /\ To(t, "create")
     \/ /\ pool # None /\ pool.status = "sealed"
        /\ IF pool.manifest = tab[t].plan /\ bundle.commitment = tab[t].plan
           THEN To(t, "bundle") ELSE Throws(t)
     \/ pool # None /\ pool.status = "funding" /\ Reads(t, "check")

CreatesPool(t) == At(t, "create") /\ Sends(t, Simple("create"), [tab[t] EXCEPT !.pc = "pool"])

\* Mutant: only the pool is compared with the plan, not what is in it.
TrustsItems(t, i) == TRUE

SavedItem(t, i) ==
  /\ item[i] # None /\ item[i].status = "deposited"
  /\ <<item[i].leaf, item[i].verified>> = Planned(t, i)

\* Every item below the cursor is compared with the plan, one by one.
CheckItem(t) ==
  LET me == tab[t]
  IN  /\ At(t, "check")
      /\ \/ me.at < me.pool.cursor /\ SavedItem(t, me.at) /\ Goes(t, [me EXCEPT !.at = @ + 1])
         \/ me.at < me.pool.cursor /\ ~SavedItem(t, me.at) /\ Throws(t)
         \/ me.at = me.pool.cursor /\ me.at < Quantity /\ To(t, "resolve")
         \/ me.at = Quantity /\ To(t, "seal")

\* Mutant: a fresh proof is taken as it comes.
AnyProof(t) == TRUE

\* The leaf is as it was when the draft was begun.
Unchanged(t) == Fresh(t, tab[t].at) = Planned(t, tab[t].at)[2]

\* A fresh proof of the next leaf.
Resolve(t) ==
  LET me == tab[t]
  IN  /\ At(t, "resolve")
      /\ \/ ~Unchanged(t) /\ Throws(t)
         \/ /\ Unchanged(t)
            /\ Goes(t, [me EXCEPT !.proof = Fresh(t, me.at),
                                  !.pc = IF me.pool.prepared THEN "prepared" ELSE "prepare"])

PreparedItem(t, i) ==
  /\ item[i] # None /\ item[i].status = "prepared"
  /\ item[i].leaf = Planned(t, i)[1] /\ item[i].verified = tab[t].proof

ReadPrepared(t) ==
  /\ At(t, "prepared")
  /\ IF PreparedItem(t, tab[t].at) THEN To(t, "deposit") ELSE Throws(t)

ItemTx(t, op) == Tx(op, tab[t].at, Planned(t, tab[t].at)[1], tab[t].proof)

Prepares(t) == At(t, "prepare") /\ Sends(t, ItemTx(t, "prepare"), [tab[t] EXCEPT !.pc = "reread"])

Reread(t) ==
  /\ At(t, "reread")
  /\ IF pool # None /\ pool.prepared THEN Reads(t, "again") ELSE Throws(t)

ResolveAgain(t) ==
  /\ At(t, "again")
  /\ IF Unchanged(t)
     THEN Goes(t, [tab[t] EXCEPT !.pc = "deposit", !.proof = Fresh(t, tab[t].at)])
     ELSE Throws(t)

Deposits(t) == At(t, "deposit") /\ Sends(t, ItemTx(t, "deposit"), [tab[t] EXCEPT !.pc = "deposited"])

Progress(t) == pool # None /\ ~pool.prepared /\ pool.cursor = tab[t].at + 1

ReadDeposited(t) ==
  /\ At(t, "deposited")
  /\ IF Progress(t)
     THEN Goes(t, [tab[t] EXCEPT !.pool = pool, !.at = @ + 1,
                                 !.pc = IF tab[t].at + 1 < Quantity THEN "resolve" ELSE "seal"])
     ELSE Throws(t)

Seals(t) == At(t, "seal") /\ Sends(t, Simple("seal"), [tab[t] EXCEPT !.pc = "bundle"])

Activates(t) == At(t, "activate") /\ Sends(t, Simple("activate"), [tab[t] EXCEPT !.pc = "bundle"])

Fund(t) ==
  \/ ReadBundle(t) \/ AddsBundle(t) \/ ReadPool(t) \/ CreatesPool(t) \/ CheckItem(t)
  \/ Resolve(t) \/ ReadPrepared(t) \/ Prepares(t) \/ Reread(t) \/ ResolveAgain(t)
  \/ Deposits(t) \/ ReadDeposited(t) \/ Seals(t) \/ Activates(t)

(***************************************************************************)
(* Cancelling.                                                               *)
(***************************************************************************)
BeginCancel(t) ==
  /\ At(t, "idle") /\ saved # None
  /\ tab' = [tab EXCEPT ![t] = [NoTask EXCEPT !.pc = "staged", !.plan = saved]]
  /\ UNCHANGED <<vars, saved, late, asked, count>>

\* Nothing is staged: the draft is done with.
Discards(t) ==
  /\ saved' = None
  /\ tab' = [tab EXCEPT ![t] = NoTask]
  /\ UNCHANGED <<vars, late, asked, count>>

ReadStaged(t) ==
  /\ At(t, "staged")
  /\ \/ bundle.status = "none" /\ Discards(t)
     \/ bundle.status = "active" /\ Throws(t)
     \/ bundle.status = "funding" /\ ~bundle.funded /\ To(t, "partial")
     \/ bundle.status = "funding" /\ bundle.funded /\ To(t, "reclaimPool")

\* The unfinished pool: an item that was only prepared is cancelled, an empty pool
\* is closed, and any other is reclaimed.
ReadPartial(t) ==
  /\ At(t, "partial")
  /\ \/ pool = None /\ To(t, "cancelBundle")
     \/ /\ pool # None
        /\ Reads(t, IF pool.status # "funding" THEN "reclaimPool"
                    ELSE IF pool.prepared THEN "cancelPrepared"
                    ELSE IF pool.cursor = 0 THEN "closeEmpty" ELSE "reclaimPool")

CancelsItem(t, pc, next) ==
  /\ At(t, pc)
  /\ Sends(t, Tx("cancelItem", tab[t].pool.cursor, None, FALSE), [tab[t] EXCEPT !.pc = next])

ReadUnprepared(t) ==
  /\ At(t, "unprepared")
  /\ IF pool # None /\ ~pool.prepared
     THEN Reads(t, IF pool.cursor = 0 THEN "closeEmpty" ELSE "reclaimPool")
     ELSE Throws(t)

Closes(t, pc) == At(t, pc) /\ Sends(t, Simple("close"), [tab[t] EXCEPT !.pc = "cancelBundle"])

CancelsBundle(t) ==
  /\ At(t, "cancelBundle")
  /\ Sends(t, Simple("cancelBundle"), [tab[t] EXCEPT !.pc = "staged"])

ReadReclaim(t) ==
  /\ At(t, "reclaimPool")
  /\ \/ pool = None /\ To(t, "cancelBundle")
     \/ pool # None /\ pool.prepared /\ Reads(t, "cancelReclaim")
     \/ /\ pool # None /\ ~pool.prepared
        /\ Goes(t, [tab[t] EXCEPT !.pc = "validate", !.pool = pool, !.at = 0])

ReadCancelled(t) ==
  /\ At(t, "cancelled")
  /\ IF pool # None /\ ~pool.prepared
     THEN Goes(t, [tab[t] EXCEPT !.pc = "validate", !.pool = pool, !.at = 0])
     ELSE Throws(t)

Holds(t, i) ==
  item[i] # None /\ item[i].status = "deposited" /\ item[i].leaf = Planned(t, i)[1]

Unavailable(t, i) == i \in tab[t].pool.unavailable

\* What is still in the pool must be what the draft says, before anything is moved.
Validate(t) ==
  LET me == tab[t]
  IN  /\ At(t, "validate")
      /\ \/ /\ me.at < me.pool.cursor /\ (Unavailable(t, me.at) \/ Holds(t, me.at))
            /\ Goes(t, [me EXCEPT !.at = @ + 1])
         \/ me.at < me.pool.cursor /\ ~Unavailable(t, me.at) /\ ~Holds(t, me.at) /\ Throws(t)
         \/ me.at = me.pool.cursor /\ Goes(t, [me EXCEPT !.pc = "tail", !.at = @ - 1])

\* Mutant: the pool is emptied from its first item.
FromHead(t) == Quantity - 1 - tab[t].at

Position(t) == tab[t].at

\* From the last item to the first: a fresh proof, the item, and the transaction.
NextTail(t) ==
  LET me == tab[t]
  IN  /\ At(t, "tail")
      /\ \/ me.at < 0 /\ To(t, "closeEmpty")
         \/ me.at >= 0 /\ Unavailable(t, Position(t)) /\ Goes(t, [me EXCEPT !.at = @ - 1])
         \/ /\ me.at >= 0 /\ ~Unavailable(t, Position(t))
            /\ Goes(t, [me EXCEPT !.pc = "item", !.proof = Fresh(t, Position(t))])

ReadItem(t) ==
  /\ At(t, "item")
  /\ IF Holds(t, Position(t)) THEN To(t, "reclaim") ELSE Throws(t)

Reclaims(t) ==
  /\ At(t, "reclaim")
  /\ Sends(t, Tx("reclaim", Position(t), Planned(t, Position(t))[1], tab[t].proof),
           [tab[t] EXCEPT !.pc = "reclaimed"])

ReadReclaimed(t) ==
  /\ At(t, "reclaimed")
  /\ IF pool # None
     THEN Goes(t, [tab[t] EXCEPT !.pc = "tail", !.pool = pool, !.at = @ - 1])
     ELSE Throws(t)

Cancel(t) ==
  \/ ReadStaged(t) \/ ReadPartial(t) \/ CancelsItem(t, "cancelPrepared", "unprepared")
  \/ ReadUnprepared(t) \/ Closes(t, "closeEmpty") \/ CancelsBundle(t) \/ ReadReclaim(t)
  \/ CancelsItem(t, "cancelReclaim", "cancelled") \/ ReadCancelled(t) \/ Validate(t)
  \/ NextTail(t) \/ ReadItem(t) \/ Reclaims(t) \/ ReadReclaimed(t)

(***************************************************************************)
(* Around the tabs.                                                          *)
(***************************************************************************)
\* A request fails or the page is reloaded; what is in the browser's storage stays.
Stops(t) ==
  /\ ~At(t, "idle") /\ count.faults < MaxFaults
  /\ count' = [count EXCEPT !.faults = @ + 1]
  /\ tab' = [tab EXCEPT ![t] = NoTask]
  /\ UNCHANGED <<vars, saved, late, asked>>

Toggles(l) ==
  /\ count.toggles < MaxToggles
  /\ count' = [count EXCEPT !.toggles = @ + 1]
  /\ ToggleFlag(l)
  /\ UNCHANGED <<tab, saved, late, asked>>

FundingNext ==
  \/ \E t \in Tabs : Begin(t) \/ BeginCancel(t) \/ Fund(t) \/ Cancel(t) \/ Stops(t)
  \/ \E x \in late : LandsLate(x) \/ Expires(x)
  \/ \E l \in Leaves : Toggles(l)

FundingSpec == FundingInit /\ [][FundingNext]_allVars

\* The creator finishes or cancels: every tab goes on, and somebody cancels again
\* and again while a draft is left.
FundingFairness ==
  \A t \in Tabs : WF_allVars(Fund(t) \/ Cancel(t)) /\ SF_allVars(BeginCancel(t))

FairFunding == FundingSpec /\ FundingFairness

(***************************************************************************)
(* Properties.                                                               *)
(***************************************************************************)
\* A bundle goes live with the leaves of one draft, each at its place and as it was
\* when the draft was begun, whatever tabs, retries, cancellations and toggles came
\* in between: never with a mixture of two.
LiveAsPlanned == bundle.status = "active" => bundle.commitment \in asked

\* A staged pool goes live or its leaves go back and its accounts are closed,
\* whatever stopped, landed late or was toggled on the way.
PoolWoundUp == bundle.status = "funding" ~> bundle.status # "funding"
=============================================================================
