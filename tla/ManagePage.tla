----------------------------- MODULE ManagePage -----------------------------
(***************************************************************************)
(* The Manage page of a lootbox that is not locked yet: tabs of the creator  *)
(* append bundles, save their labels, lock and retire; the server answers    *)
(* every request with a view of the chain that it takes from an edge cache.  *)
(*                                                                           *)
(* A view is made of two reads of the chain (readLootboxChain): the template *)
(* first, then supply and clock.  Every bundle has one copy.  The            *)
(* transactions of an append are in Staging; here it is the moment the       *)
(* bundle becomes active.                                                    *)
(***************************************************************************)
EXTENDS Integers, Sequences, FiniteSets

CONSTANTS
  Tabs,           \* tabs of the creator
  Prizes,         \* what a bundle may hold
  None,
  Cached,         \* FALSE where there is no Workers cache, as in local development
  TTL,            \* VIEW_TTL_SECONDS
  MaxRead,        \* ticks the slowest read of the chain takes
  Lag,            \* ticks getBlockTime may lag the clock
  OpensAt,        \* the reveal
  MaxTime,        \* ticks of a behaviour
  MaxBundles,     \* MAX_TEMPLATE_BUNDLES
  MaxFaults       \* reads the RPC does not answer

ManagePageAssumption ==
  /\ {TTL, MaxRead, OpensAt, MaxTime, MaxBundles} \subseteq Nat \ {0}
  /\ {Lag, MaxFaults} \subseteq Nat
  /\ Cached \in BOOLEAN

VARIABLES
  now,     \* the clock of the cluster
  chain,   \* the template: bundles, boxes minted, locked, status
  cache,   \* the view the edge keeps, and until when
  record,  \* the labels of the lootbox in the database
  req,     \* the request for the page of every tab
  post,    \* the request that saves labels of every tab
  tab,     \* what a tab shows and does
  faults

vars == <<now, chain, cache, record, req, post, tab, faults>>

NoReq == [phase |-> "none"]
Starts == [phase |-> "match", view |-> None, age |-> 0]
NoRun == [phase |-> "idle"]
NoTab == [view |-> None, seenAt |-> 0, run |-> NoRun]

\* The lootbox was launched with one bundle, labelled, with or without a box.
Init ==
  /\ now = 1
  /\ \E p \in Prizes, minted \in {0, 1} :
       /\ chain = [bundles |-> <<p>>, minted |-> minted, locked |-> FALSE,
                   status |-> "live"]
       /\ record = {[index |-> 1, prize |-> p]}
  /\ cache = None
  /\ req = [t \in Tabs |-> Starts]
  /\ post = [t \in Tabs |-> NoReq]
  /\ tab = [t \in Tabs |-> NoTab]
  /\ faults = 0

-----------------------------------------------------------------------------
(* cachedChainRead, used by page requests and label requests alike: the     *)
(* steps the request q may take, with the cache and the faults they leave.    *)

\* Mutant: a view in the cache is good for ever.
AnyHit == cache # None

Fresh == cache # None /\ now < cache.until

Answer(q, view) ==
  [q EXCEPT !.phase = "answer", !.view = view, !.age = now - view.at]

ReadTemplate(q) ==
  [q EXCEPT !.phase = "rest",
     !.view = [bundles |-> Len(chain.bundles), minted |-> chain.minted,
               locked |-> chain.locked, status |-> chain.status,
               supply |-> 0, time |-> 0, at |-> now]]

\* match: a hit answers; after a miss, or when the cache throws, the template
\* is read, before everything else.
Match(q) ==
  {[next |-> r, cache |-> cache, faults |-> faults] :
     r \in {ReadTemplate(q)} \cup (IF Fresh THEN {Answer(q, cache.view)} ELSE {})}

\* Supply and clock are read, and the view is put and answered; put may fail.
Produce(q) ==
  LET view == [q.view EXCEPT !.supply = chain.minted, !.time = now]
      put  == IF Cached THEN {[view |-> view, until |-> now + TTL]} ELSE {}
  IN {[next |-> Answer(q, view), cache |-> c, faults |-> faults] : c \in {cache} \cup put}

\* readChain: an RPC that does not answer is reported.
Unreachable(q) ==
  {[next |-> [q EXCEPT !.phase = "answer", !.view = None],
    cache |-> cache, faults |-> f] : f \in {faults + 1} \cap 0..MaxFaults}

ChainRead(q) ==
  CASE q.phase = "match" -> Match(q)
    [] q.phase = "rest"  -> Produce(q) \cup Unreachable(q)
    [] OTHER             -> {}

\* No read takes longer than MaxRead.
InTime(q) == q.phase = "rest" => now - q.view.at < MaxRead

Tick ==
  /\ now < MaxTime
  /\ \A t \in Tabs : InTime(req[t]) /\ InTime(post[t])
  /\ now' = now + 1
  /\ UNCHANGED <<chain, cache, record, req, post, tab, faults>>

-----------------------------------------------------------------------------
(* Pages.                                                                   *)

\* The first visit, the refresh every 20 seconds and on focus.
ServePage(t) ==
  /\ \E step \in ChainRead(req[t]) :
       /\ req' = [req EXCEPT ![t] = step.next]
       /\ cache' = step.cache
       /\ faults' = step.faults
  /\ UNCHANGED <<now, chain, record, post, tab>>

\* useLoaderData: the page shows what the loader returned.
ShowPage(t) ==
  /\ req[t].phase = "answer"
  /\ req' = [req EXCEPT ![t] = Starts]
  /\ tab' = [tab EXCEPT ![t] = [@ EXCEPT !.view = req[t].view, !.seenAt = now]]
  /\ UNCHANGED <<now, chain, cache, record, post, faults>>

\* Mutant: the seconds since the view came are rounded up.
RoundedUp(t) == tab[t].view.time + (now - tab[t].seenAt) + 1

\* useChainClock: the clock of the view, advanced locally.
PageClock(t) == tab[t].view.time + (now - tab[t].seenAt)

Shows(t) == tab[t].view # None
Editable(t) == Shows(t) /\ ~tab[t].view.locked /\ tab[t].view.status = "live"
BeforeReveal(t) == PageClock(t) < OpensAt

-----------------------------------------------------------------------------
(* useChainRunner: one action of a tab at a time.                           *)

Idle(t) == tab[t].run.phase = "idle"
Runs(t, run) == tab' = [tab EXCEPT ![t].run = run]

\* The action is over, well or not: the page is read again.
Ends(t) ==
  /\ Runs(t, NoRun)
  /\ req' = [req EXCEPT ![t] = Starts]

\* Add prizes: offered before the reveal while the treasury is not locked.
AddPrizes(t) ==
  /\ Idle(t) /\ Editable(t) /\ BeforeReveal(t)
  /\ \E p \in Prizes : Runs(t, [phase |-> "start", prize |-> p])
  /\ UNCHANGED <<now, chain, cache, record, req, post, faults>>

\* client.template: where the addition starts.
ReadStart(t) ==
  /\ tab[t].run.phase = "start"
  /\ Runs(t, [phase |-> "append", prize |-> tab[t].run.prize,
              start |-> Len(chain.bundles)])
  /\ UNCHANGED <<now, chain, cache, record, req, post, faults>>

\* Mutant: an addition goes behind whatever there is by then.
AnyHistory(run) == TRUE

HasRoom(run) == run.start < MaxBundles

\* Nothing was appended since, or exactly this addition.
MatchesHistory(run) ==
  \/ Len(chain.bundles) = run.start
  \/ Len(chain.bundles) = run.start + 1 /\ chain.bundles[run.start + 1] = run.prize

OpenForEdits == chain.status = "live" /\ ~chain.locked

AppendBundle(t) ==
  LET run == tab[t].run IN
  /\ run.phase = "append"
  /\ OpenForEdits /\ MatchesHistory(run) /\ HasRoom(run)
  /\ chain' = IF Len(chain.bundles) = run.start + 1 THEN chain
              ELSE [chain EXCEPT !.bundles = Append(@, run.prize)]
  /\ Runs(t, [phase |-> "post", index |-> run.start + 1, prize |-> run.prize])
  /\ post' = [post EXCEPT ![t] = [phase |-> "record"]]
  /\ UNCHANGED <<now, cache, record, req, faults>>

AppendFails(t) ==
  /\ tab[t].run.phase = "append"
  /\ ~(OpenForEdits /\ MatchesHistory(tab[t].run) /\ HasRoom(tab[t].run))
  /\ Ends(t)
  /\ UNCHANGED <<now, chain, cache, record, post, faults>>

-----------------------------------------------------------------------------
(* The request that saves the labels of an addition.                        *)

\* requireLootbox: the labels as they are when the request begins.
ReadRecord(t) ==
  /\ post[t].phase = "record"
  /\ post' = [post EXCEPT ![t] =
       [phase |-> "match", view |-> None, age |-> 0, labels |-> record]]
  /\ UNCHANGED <<now, chain, cache, record, req, tab, faults>>

\* requireCreator: the view decides who controls the treasury.
ServePost(t) ==
  /\ \E step \in ChainRead(post[t]) :
       /\ post' = [post EXCEPT ![t] = step.next]
       /\ cache' = step.cache
       /\ faults' = step.faults
  /\ UNCHANGED <<now, chain, record, req, tab>>

Answered(t) == post[t].phase = "answer" /\ post[t].view # None

\* 409: "That bundle is not on chain yet".
Refused(t) == Answered(t) /\ tab[t].run.index > post[t].view.bundles

\* mergeBundleLabels: a label of the same bundle is replaced.
Merged(labels, label) == {l \in labels : l.index # label.index} \union {label}

SaveLabels(t) ==
  /\ Answered(t) /\ ~Refused(t)
  /\ record' = Merged(post[t].labels,
                      [index |-> tab[t].run.index, prize |-> tab[t].run.prize])
  /\ post' = [post EXCEPT ![t] = NoReq]
  /\ Ends(t)
  /\ UNCHANGED <<now, chain, cache, faults>>

\* "Prizes added on chain, but their labels were not saved"
LabelsNotSaved(t) ==
  /\ post[t].phase = "answer"
  /\ post[t].view = None \/ Refused(t)
  /\ post' = [post EXCEPT ![t] = NoReq]
  /\ Ends(t)
  /\ UNCHANGED <<now, chain, cache, record, faults>>

-----------------------------------------------------------------------------
(* Lock and retire.                                                         *)

\* LockPanel: "N will be minted now".
PressLock(t) ==
  /\ Idle(t) /\ Editable(t) /\ BeforeReveal(t)
  /\ Runs(t, [phase |-> "ready", shown |-> tab[t].view.bundles - tab[t].view.supply])
  /\ UNCHANGED <<now, chain, cache, record, req, post, faults>>

\* marketLockReadiness, by the time of the block the client read.
CanLock(time) == OpenForEdits /\ time < OpensAt

ReadReadiness(t) ==
  /\ tab[t].run.phase = "ready"
  /\ \E time \in now - Lag .. now :
       IF CanLock(time)
       THEN /\ Runs(t, [phase |-> "lock", shown |-> tab[t].run.shown,
                        mint |-> Len(chain.bundles) - chain.minted])
            /\ UNCHANGED req
       ELSE Ends(t)
  /\ UNCHANGED <<now, chain, cache, record, post, faults>>

\* Mutant: the lock does not ask for one box per prize copy.
AnySupply(supply) == TRUE

ExactSupply(supply) == supply = Len(chain.bundles)

Locks(t) ==
  OpenForEdits /\ now < OpensAt /\ ExactSupply(chain.minted + tab[t].run.mint)

\* Mint and lock are one transaction.
LockTreasury(t) ==
  /\ tab[t].run.phase = "lock"
  /\ chain' = IF Locks(t)
              THEN [chain EXCEPT !.minted = @ + tab[t].run.mint, !.locked = TRUE]
              ELSE chain
  /\ Ends(t)
  /\ UNCHANGED <<now, cache, record, post, faults>>

\* WindDown: boxes that are minted but not locked wait until the reveal.
CanRetire(t) ==
  /\ Shows(t) /\ tab[t].view.status = "live"
  /\ ~(~tab[t].view.locked /\ tab[t].view.minted > 0 /\ BeforeReveal(t))

PressRetire(t) ==
  /\ Idle(t) /\ CanRetire(t)
  /\ Runs(t, [phase |-> "retire"])
  /\ UNCHANGED <<now, chain, cache, record, req, post, faults>>

Retires ==
  /\ chain.status = "live"
  /\ chain.locked \/ chain.minted = 0 \/ now >= OpensAt

RetireTemplate(t) ==
  /\ tab[t].run.phase = "retire"
  /\ chain' = IF Retires THEN [chain EXCEPT !.status = "retired"] ELSE chain
  /\ Ends(t)
  /\ UNCHANGED <<now, cache, record, post, faults>>

-----------------------------------------------------------------------------
TabStep(t) ==
  \/ AddPrizes(t) \/ ReadStart(t) \/ AppendBundle(t) \/ AppendFails(t)
  \/ ReadRecord(t) \/ ServePost(t) \/ SaveLabels(t) \/ LabelsNotSaved(t)
  \/ PressLock(t) \/ ReadReadiness(t) \/ LockTreasury(t)
  \/ PressRetire(t) \/ RetireTemplate(t)

Next ==
  \/ Tick
  \/ \E t \in Tabs : ServePage(t) \/ ShowPage(t) \/ TabStep(t)

Spec == Init /\ [][Next]_vars

-----------------------------------------------------------------------------
Views == [bundles : Nat, minted : Nat, locked : BOOLEAN, status : {"live", "retired"},
          supply : Nat, time : Nat, at : Nat]

TypeOK ==
  /\ now \in 1 .. MaxTime
  /\ chain.bundles \in Seq(Prizes) /\ Len(chain.bundles) \in 1 .. MaxBundles
  /\ chain.minted \in 0 .. Len(chain.bundles)
  /\ cache # None => cache.view \in Views /\ cache.until \in Nat
  /\ \A t \in Tabs : Shows(t) => tab[t].view \in Views

\* No answer is older than the life of a cached view and the slowest read
\* together, whichever reader filled the cache (cachedChainRead).
BoundedAge ==
  /\ \A t \in Tabs : req[t].phase = "answer" => req[t].age < TTL + MaxRead
  /\ \A t \in Tabs : post[t].phase = "answer" => post[t].age < TTL + MaxRead

\* No answer is older than the life of a cached view (chain-cache.ts).
ExactlyTTL ==
  \A t \in Tabs : req[t].phase = "answer" => req[t].age <= TTL

\* The clock of a page is never ahead of the cluster's: no page offers to open,
\* or calls the lock missed, before the reveal (useChainClock, revealState).
NeverAhead == \A t \in Tabs : Shows(t) => PageClock(t) <= now

\* Every saved label names a bundle that is on chain, and the prize the creator
\* put into that bundle, whichever tab came first (api.lootboxes.bundles).
LabelsDescribeChain ==
  \A l \in record :
    l.index <= Len(chain.bundles) /\ chain.bundles[l.index] = l.prize

\* A locked treasury has one box for every copy of every bundle, however many
\* tabs added bundles meanwhile (lockTreasury).
LockedIsExact == chain.locked => chain.minted = Len(chain.bundles)

\* Labels of a bundle that is on chain are not refused (api.lootboxes.bundles).
OnlyMissingRefused == \A t \in Tabs : Refused(t) => tab[t].run.index > Len(chain.bundles)

\* Saving the labels of a bundle keeps those of all others (mergeBundleLabels).
LabelsKept ==
  [][\A l \in record : \E k \in record' : k.index = l.index]_vars

\* Pages tell the age and the time of the chain truly, labels name what is on it,
\* and a lock covers every bundle.
PageSound == TypeOK /\ BoundedAge /\ NeverAhead /\ LabelsDescribeChain /\ LockedIsExact

\* What is minted by the lock is what the panel said (LockPanel).
MintsShown == \A t \in Tabs : tab[t].run.phase = "lock" => tab[t].run.mint = tab[t].run.shown
=============================================================================
