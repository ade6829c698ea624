------------------------------ MODULE Staging ------------------------------
(***************************************************************************)
(* Filling a treasury from a client: createTemplate, appendBundles,            *)
(* publishTemplate and cancelFundingBundle of the SDK (client.ts), as the        *)
(* workshop runs them on a draft saved in the browser (lootbox/playground.ts)     *)
(* and the creator's page on a form that is not saved (lootbox.manage.tsx).       *)
(*                                                                             *)
(* A client reads an account, decides on one transaction, and sends it.  Other    *)
(* tabs act in between, and a transaction whose confirmation times out may land   *)
(* later, when the client that sent it has long stopped.                         *)
(*                                                                             *)
(* A bundle is the copies of it and the prizes in it, in the order of their       *)
(* slots; the accounts of bundles are named by their position.  Prize pools and   *)
(* attachments of an exclusive collection reserve their slots otherwise and are   *)
(* not part of this module.                                                      *)
(***************************************************************************)
EXTENDS Integers, FiniteSets, Sequences, SequencesExt

CONSTANTS
  Tabs,       \* tabs with the creator's wallet
  Prizes,     \* prizes
  Fungible,   \* the prizes the wallet has enough of for every plan
  Plans,      \* what the workshop may be asked to add: sequences of bundles
  Forms,      \* what the creator's page may be asked to add
  None,       \* no draft, no bundle
  MaxDrafts,  \* drafts begun, bound of the model
  MaxLive,    \* bundles that are live when the form is sent again, bound of the model
  MaxLate     \* transactions whose confirmation times out, bound of the model

Bundles == [copies : Nat \ {0}, prizes : Seq(Prizes)]

StagedBundles ==
  [copies : Nat \ {0}, size : Nat, prizes : Seq(Prizes), reclaimed : SUBSET Nat]

\* What is asked for: the bundles, and how many are live before them.
Requests == [plan : Seq(Bundles), start : Nat]

SavedDrafts == [mode : {"create", "append"}, plan : Seq(Bundles), start : Nat]

Transactions ==
  [kind : {"mint", "template", "seal"}]
    \union [kind : {"add"}, at : Nat, copies : Nat \ {0}, size : Nat]
    \union [kind : {"fund"}, at : Nat, prize : Prizes]
    \union [kind : {"activate", "cancel"}, at : Nat]
    \union [kind : {"reclaim"}, at : Nat, slot : Nat, prize : Prizes]

StagingAssumption ==
  /\ Plans \union Forms \subseteq Seq(Bundles)
  /\ Fungible \subseteq Prizes
  /\ MaxDrafts \in Nat /\ MaxLive \in Nat /\ MaxLate \in Nat
  /\ None \notin StagedBundles \union SavedDrafts

VARIABLES
  chain,   \* the template, its bundles, the staged bundle, the wallet
  late,    \* transactions that may still land although nobody waits for them
  lates,   \* how many have timed out
  saved,   \* the draft in the browser's storage, which the tabs share
  form,    \* what the form of the creator's page holds
  tab,     \* what each tab is doing
  asked    \* every draft and form that was begun anew, with its position

vars == <<chain, late, lates, saved, form, tab, asked>>

(***************************************************************************)
(* The program.  A transaction lands when the program accepts it.             *)
(***************************************************************************)
Full(b) == Len(b.prizes) = b.size

\* The position of the bundle that is, or would be, staged.
StagedAt(c) == Len(c.live) + 1

\* Mutant: a prize may be recorded twice.
NewOrNot(c, p) == TRUE

Unseen(c, p) == \A k \in 1..Len(c.staged.prizes) : c.staged.prizes[k] # p

Editable(c) == c.template \in {"draft", "live"}

CanFund(tx, c) ==
  /\ c.staged # None /\ tx.at = StagedAt(c)
  /\ ~Full(c.staged) /\ Unseen(c, tx.prize) /\ tx.prize \in c.wallet

\* Mutant: a bundle with reclaimed prizes may go live.
ActivatesReclaimed(tx, c) ==
  c.staged # None /\ tx.at = StagedAt(c) /\ Full(c.staged)

CanActivate(tx, c) ==
  c.staged # None /\ tx.at = StagedAt(c) /\ Full(c.staged) /\ c.staged.reclaimed = {}

CanReclaim(tx, c) ==
  /\ c.staged # None /\ tx.at = StagedAt(c)
  /\ tx.slot \in 1..Len(c.staged.prizes) \ c.staged.reclaimed
  /\ c.staged.prizes[tx.slot] = tx.prize

\* Mutant: a staged bundle is closed with what it holds.
CancelsFunded(tx, c) == c.staged # None /\ tx.at = StagedAt(c)

CanCancel(tx, c) ==
  /\ c.staged # None /\ tx.at = StagedAt(c)
  /\ c.staged.reclaimed = 1..Len(c.staged.prizes)

Lands(tx, c) ==
  CASE tx.kind = "mint" -> c.template = "none"
    [] tx.kind = "template" -> c.template = "mint"
    [] tx.kind = "add" -> Editable(c) /\ c.staged = None /\ tx.at = StagedAt(c)
    [] tx.kind = "fund" -> CanFund(tx, c)
    [] tx.kind = "activate" -> CanActivate(tx, c)
    [] tx.kind = "seal" -> c.template = "draft" /\ c.live # <<>>
    [] tx.kind = "reclaim" -> CanReclaim(tx, c)
    [] tx.kind = "cancel" -> CanCancel(tx, c)

Landed(tx, c) ==
  CASE tx.kind = "mint" -> [c EXCEPT !.template = "mint"]
    [] tx.kind = "template" -> [c EXCEPT !.template = "draft"]
    [] tx.kind = "add" ->
         [c EXCEPT !.staged = [copies |-> tx.copies, size |-> tx.size,
                               prizes |-> <<>>, reclaimed |-> {}]]
    [] tx.kind = "fund" ->
         [c EXCEPT !.staged.prizes = Append(@, tx.prize),
                   !.wallet = @ \ ({tx.prize} \ Fungible)]
    [] tx.kind = "activate" ->
         [c EXCEPT !.live = Append(@, [copies |-> c.staged.copies, prizes |-> c.staged.prizes]),
                   !.staged = None]
    [] tx.kind = "seal" -> [c EXCEPT !.template = "live"]
    [] tx.kind = "reclaim" ->
         [c EXCEPT !.staged.reclaimed = @ \union {tx.slot}, !.wallet = @ \union {tx.prize}]
    [] tx.kind = "cancel" -> [c EXCEPT !.staged = None]

(***************************************************************************)
(* A tab.  `at' is what it does next; `plan' and `start' are what it was asked *)
(* to add; `n' is the bundle it is at and `slot' the prize, 0 before the bundle  *)
(* has been read; `count' and `draft' are what it last read of the template;     *)
(* `queue' holds the transactions it has decided on.                           *)
(***************************************************************************)
Idle == [at |-> "idle", flow |-> "none", plan |-> <<>>, start |-> 0, n |-> 1, slot |-> 0,
         count |-> 0, draft |-> FALSE, queue |-> <<>>]

Start(flow, plan, start, at) ==
  [Idle EXCEPT !.flow = flow, !.plan = plan, !.start = start, !.at = at]

Stop(s) == tab' = [tab EXCEPT ![s] = Idle]

Sends(s, queue) == tab' = [tab EXCEPT ![s] = [@ EXCEPT !.at = "send", !.queue = queue]]

Sent(s) == Head(tab[s].queue)

NoDraft == None

\* Mutant: a draft with another plan replaces the one that is saved.
Replaces(mode, plan) == TRUE

\* loadDraft: the saved draft is resumed, or a new one is saved.
MaySave(mode, plan) ==
  saved # NoDraft => saved.mode = mode /\ saved.plan = plan

NewDraft(mode, plan, start) ==
  IF saved # NoDraft /\ saved.mode = mode /\ saved.plan = plan
  THEN saved
  ELSE [mode |-> mode, plan |-> plan, start |-> start]

\* A new draft of a treasury has a template of its own: the model follows one.
CreateDrop(s, plan) ==
  /\ tab[s].at = "idle"
  /\ MaySave("create", plan)
  /\ saved = NoDraft => asked = {}
  /\ saved' = NewDraft("create", plan, 0)
  /\ asked' = IF saved = NoDraft THEN asked \union {[plan |-> plan, start |-> 0]} ELSE asked
  /\ tab' = [tab EXCEPT ![s] = Start("create", plan, 0, "template")]
  /\ UNCHANGED <<chain, late, lates, form>>

AppendDrop(s, plan) ==
  LET draft == NewDraft("append", plan, Len(chain.live))
  IN  /\ tab[s].at = "idle" /\ chain.template = "live"
      /\ MaySave("append", plan)
      /\ saved = NoDraft => Cardinality(asked) < MaxDrafts
      /\ saved' = draft
      /\ asked' = IF saved = NoDraft
                  THEN asked \union {[plan |-> plan, start |-> draft.start]} ELSE asked
      /\ tab' = [tab EXCEPT ![s] = Start("append", plan, draft.start, "template")]
      /\ UNCHANGED <<chain, late, lates, form>>

\* The form of the creator's page reads its position when the button is pressed;
\* pressing it again with what the form still holds asks for nothing new.
AddPrizes(s, plan) ==
  /\ tab[s].at = "idle" /\ chain.template = "live"
  /\ plan \in form /\ Len(chain.live) < MaxLive
  /\ asked' = IF \E a \in asked : a.plan = plan
              THEN asked ELSE asked \union {[plan |-> plan, start |-> Len(chain.live)]}
  /\ tab' = [tab EXCEPT ![s] = Start("page", plan, Len(chain.live), "template")]
  /\ UNCHANGED <<chain, late, lates, saved, form>>

CancelDraft(s) ==
  /\ tab[s].at = "idle" /\ saved # NoDraft
  /\ tab' = [tab EXCEPT ![s] = Start("cancel", saved.plan, saved.start, "template")]
  /\ UNCHANGED <<chain, late, lates, saved, form, asked>>

(***************************************************************************)
(* Reading the template.                                                     *)
(***************************************************************************)
InHistory(s) ==
  Len(chain.live) \in tab[s].start..(tab[s].start + Len(tab[s].plan))

Snapshot(s, at) ==
  tab' = [tab EXCEPT ![s] = [@ EXCEPT !.at = at, !.count = Len(chain.live),
                                      !.draft = chain.template = "draft"]]

ReadForCreate(s) ==
  /\ tab[s].at = "template" /\ tab[s].flow = "create"
  /\ \/ chain.template = "none" /\ Sends(s, <<[kind |-> "mint"]>>)
     \/ chain.template = "mint" /\ Sends(s, <<[kind |-> "template"]>>)
     \/ Editable(chain) /\ InHistory(s) /\ Snapshot(s, "bundle")
     \/ Editable(chain) /\ ~InHistory(s) /\ Stop(s)
  /\ UNCHANGED <<chain, late, lates, saved, form, asked>>

ReadForAppend(s) ==
  /\ tab[s].at = "template" /\ tab[s].flow \in {"append", "page"}
  /\ IF chain.template = "live" /\ InHistory(s) THEN Snapshot(s, "bundle") ELSE Stop(s)
  /\ UNCHANGED <<chain, late, lates, saved, form, asked>>

\* cancelSavedDraft: without a template there is nothing to reclaim.
ReadForCancel(s) ==
  /\ tab[s].at = "template" /\ tab[s].flow = "cancel"
  /\ \/ chain.template \in {"none", "mint"} /\ saved' = NoDraft /\ Stop(s)
     \/ Editable(chain) /\ ~InHistory(s) /\ Stop(s) /\ UNCHANGED saved
     \/ /\ Editable(chain) /\ InHistory(s) /\ UNCHANGED saved
        /\ Snapshot(s, IF Len(chain.live) - tab[s].start = Len(tab[s].plan)
                       THEN "publish" ELSE "staged")
  /\ UNCHANGED <<chain, late, lates, form, asked>>

(***************************************************************************)
(* Reading the bundle at hand, and what is sent for it.                       *)
(***************************************************************************)
Position(s) == tab[s].start + tab[s].n

IsLive(s) == Position(s) <= Len(chain.live)

IsStaged(s) == Position(s) = StagedAt(chain) /\ chain.staged # None

Exists(s) == IsLive(s) \/ IsStaged(s)

OnChain(s) == IF IsLive(s)
              THEN LET b == chain.live[Position(s)]
                   IN  [copies |-> b.copies, size |-> Len(b.prizes), prizes |-> b.prizes]
              ELSE [copies |-> chain.staged.copies, size |-> chain.staged.size,
                    prizes |-> chain.staged.prizes]

Planned(s) == tab[s].plan[tab[s].n]

SameShape(s) ==
  OnChain(s).copies = Planned(s).copies /\ OnChain(s).size = Len(Planned(s).prizes)

\* Mutant: what is funded is taken for what was planned.
TrustsChain(s) == tab[s].slot <= 1 => SameShape(s)

\* The shape of a bundle is compared when it is first read, its prizes from the
\* one the client is at; those before it it has compared or funded itself.
Matches(s) ==
  /\ tab[s].slot <= 1 => SameShape(s)
  /\ \A k \in 1..Len(OnChain(s).prizes) :
       k >= tab[s].slot /\ k <= Len(Planned(s).prizes) =>
         OnChain(s).prizes[k] = Planned(s).prizes[k]

\* The next slot to fund.
NextSlot(s) == IF Len(OnChain(s).prizes) < tab[s].slot
               THEN tab[s].slot ELSE Len(OnChain(s).prizes) + 1

NextBundle(s) == [tab[s] EXCEPT !.at = "bundle", !.n = @ + 1, !.slot = 0, !.queue = <<>>]

\* The client has not yet read the bundle and does not find it.
MayAdd(s) ==
  /\ tab[s].slot = 0
  /\ tab[s].flow = "create" => Position(s) = tab[s].count + 1

ReadBundle(s) ==
  /\ tab[s].at = "bundle" /\ tab[s].n <= Len(tab[s].plan)
  /\ \/ /\ tab[s].flow = "create" /\ Position(s) > tab[s].count + 1
        /\ Stop(s)
     \/ /\ ~(tab[s].flow = "create" /\ Position(s) > tab[s].count + 1)
        /\ \/ /\ ~Exists(s) /\ MayAdd(s)
              /\ Sends(s, <<[kind |-> "add", at |-> Position(s), copies |-> Planned(s).copies,
                             size |-> Len(Planned(s).prizes)]>>)
           \/ ~Exists(s) /\ ~MayAdd(s) /\ Stop(s)
           \/ Exists(s) /\ ~Matches(s) /\ Stop(s)
           \/ /\ Exists(s) /\ Matches(s)
              /\ \/ /\ NextSlot(s) <= Len(Planned(s).prizes)
                    /\ tab' = [tab EXCEPT ![s] =
                         [@ EXCEPT !.at = "send", !.slot = NextSlot(s),
                                   !.queue = <<[kind |-> "fund", at |-> Position(s),
                                                prize |-> Planned(s).prizes[NextSlot(s)]]>>]]
                 \/ /\ NextSlot(s) > Len(Planned(s).prizes) /\ IsStaged(s)
                    /\ Sends(s, <<[kind |-> "activate", at |-> Position(s)]>>)
                 \/ /\ NextSlot(s) > Len(Planned(s).prizes) /\ IsLive(s)
                    /\ tab' = [tab EXCEPT ![s] = NextBundle(s)]
  /\ UNCHANGED <<chain, late, lates, saved, form, asked>>

\* Every bundle has been added: the template is sealed if it was read as a draft,
\* and the draft, or the form, is forgotten.
FinishStaging(s) ==
  /\ tab[s].at = "bundle" /\ tab[s].n > Len(tab[s].plan)
  /\ IF tab[s].flow = "create" /\ tab[s].draft
     THEN Sends(s, <<[kind |-> "seal"]>>) /\ UNCHANGED <<saved, form>>
     ELSE /\ Stop(s)
          /\ IF tab[s].flow = "page"
             THEN form' \in {form, form \ {tab[s].plan}} /\ UNCHANGED saved
             ELSE saved' = NoDraft /\ UNCHANGED form
  /\ UNCHANGED <<chain, late, lates, asked>>

(***************************************************************************)
(* Cancelling.                                                               *)
(***************************************************************************)
\* Mutant: what has been reclaimed is reclaimed again.
AllFunded(b) == 1..Len(b.prizes)

Unreclaimed(b) == 1..Len(b.prizes) \ b.reclaimed

\* cancelFundingBundle: the bundle after the last one that was read as live is
\* unwound as it stands now, in the order of its slots.
ReadStaged(s) ==
  /\ tab[s].at = "staged"
  /\ LET at == tab[s].count + 1
         todo == Unreclaimed(chain.staged)
         reclaim(k) == [kind |-> "reclaim", at |-> at, slot |-> k,
                        prize |-> chain.staged.prizes[k]]
     IN  IF at = StagedAt(chain) /\ chain.staged # None
         THEN \E slots \in [1..Cardinality(todo) -> todo] :
                /\ \A i, j \in DOMAIN slots : i < j => slots[i] < slots[j]
                /\ Sends(s, Append([i \in 1..Cardinality(todo) |-> reclaim(slots[i])],
                                   [kind |-> "cancel", at |-> at]))
         ELSE tab' = [tab EXCEPT ![s].at = "publish"]
  /\ UNCHANGED <<chain, late, lates, saved, form, asked>>

\* Mutant: an empty treasury loses its draft.
ForgetsEmpty(s) ==
  /\ tab[s].at = "publish"
  /\ \/ /\ tab[s].draft /\ chain.template = "draft" /\ tab[s].count > 0
        /\ Sends(s, <<[kind |-> "seal"]>>) /\ UNCHANGED saved
     \/ /\ ~tab[s].draft \/ tab[s].count = 0 \/ chain.template = "live"
        /\ Stop(s) /\ saved' = NoDraft
  /\ UNCHANGED <<chain, late, lates, form, asked>>

\* A new treasury keeps the bundles that are live and is published with them; an
\* empty one keeps its draft.
FinishCancel(s) ==
  /\ tab[s].at = "publish"
  /\ \/ /\ tab[s].draft /\ chain.template = "draft" /\ tab[s].count > 0
        /\ Sends(s, <<[kind |-> "seal"]>>) /\ UNCHANGED saved
     \/ tab[s].draft /\ tab[s].count = 0 /\ Stop(s) /\ UNCHANGED saved
     \/ /\ \/ ~tab[s].draft
           \/ tab[s].count > 0 /\ chain.template = "live"
        /\ Stop(s) /\ saved' = NoDraft
  /\ UNCHANGED <<chain, late, lates, form, asked>>

(***************************************************************************)
(* Sending.                                                                  *)
(***************************************************************************)
\* What the client does after its transaction has been confirmed.
After(s) ==
  LET kind == Sent(s).kind
      t == [tab[s] EXCEPT !.queue = Tail(@)]
      fresh(u) == [u EXCEPT !.count = Len(chain'.live), !.draft = chain'.template = "draft"]
  IN  CASE kind \in {"mint", "template"} -> [t EXCEPT !.at = "template"]
        [] kind = "add" -> [t EXCEPT !.at = "bundle", !.slot = 1]
        [] kind = "fund" -> [t EXCEPT !.at = "bundle", !.slot = @ + 1]
        [] kind = "activate" -> fresh(NextBundle(s))
        [] kind = "reclaim" -> t
        [] kind = "cancel" -> fresh([t EXCEPT !.at = "publish"])
        [] kind = "seal" -> Idle

Confirmed(s) ==
  /\ tab[s].at = "send" /\ Lands(Sent(s), chain)
  /\ chain' = Landed(Sent(s), chain)
  /\ tab' = [tab EXCEPT ![s] = After(s)]
  /\ saved' = IF Sent(s).kind = "seal" THEN NoDraft ELSE saved
  /\ UNCHANGED <<late, lates, form, asked>>

\* The program refuses it, the wallet does, or the network does not take it.
Refused(s) ==
  /\ tab[s].at = "send"
  /\ Stop(s)
  /\ UNCHANGED <<chain, late, lates, saved, form, asked>>

TimesOut(s) ==
  /\ tab[s].at = "send" /\ lates < MaxLate
  /\ late' = late \union {Sent(s)}
  /\ lates' = lates + 1
  /\ Stop(s)
  /\ UNCHANGED <<chain, saved, form, asked>>

LandsLate(tx) ==
  /\ Lands(tx, chain)
  /\ chain' = Landed(tx, chain)
  /\ late' = late \ {tx}
  /\ UNCHANGED <<lates, saved, form, tab, asked>>

Expires(tx) ==
  /\ late' = late \ {tx}
  /\ UNCHANGED <<chain, lates, saved, form, tab, asked>>

\* A read fails, or the tab is closed.
Closes(s) ==
  /\ tab[s].at \notin {"idle", "send"}
  /\ Stop(s)
  /\ UNCHANGED <<chain, late, lates, saved, form, asked>>

Init ==
  /\ chain \in [template : IF Plans = {} THEN {"live"} ELSE {"none"},
                live : {<<>>}, staged : {None}, wallet : {Prizes}]
  /\ late = {} /\ lates = 0
  /\ saved = NoDraft
  /\ form \in SUBSET Forms
  /\ tab = [s \in Tabs |-> Idle]
  /\ asked = {}

Works(s) ==
  \/ ReadForCreate(s) \/ ReadForAppend(s) \/ ReadForCancel(s)
  \/ ReadBundle(s) \/ FinishStaging(s) \/ ReadStaged(s) \/ FinishCancel(s) \/ Confirmed(s)

Next ==
  \/ \E s \in Tabs :
       \/ \E plan \in Plans : CreateDrop(s, plan) \/ AppendDrop(s, plan)
       \/ \E plan \in Forms : AddPrizes(s, plan)
       \/ CancelDraft(s)
       \/ Works(s)
       \/ Refused(s) \/ TimesOut(s) \/ Closes(s)
  \/ \E tx \in late : LandsLate(tx) \/ Expires(tx)

Spec == Init /\ [][Next]_vars

(***************************************************************************)
(* Fairness: a tab goes on with what it does, and a creator who sees a staged *)
(* bundle keeps asking to cancel until a cancellation gets through.             *)
(***************************************************************************)
Fairness ==
  \A s \in Tabs :
    /\ WF_vars(Works(s) \/ Refused(s))
    /\ SF_vars(CancelDraft(s))
    /\ SF_vars(ReadForCancel(s)) /\ SF_vars(ReadStaged(s))
    /\ SF_vars(tab[s].flow = "cancel" /\ Confirmed(s))

FairSpec == Spec /\ Fairness

(***************************************************************************)
(* Properties.                                                               *)
(***************************************************************************)
TabStates ==
  [at : {"idle", "template", "bundle", "staged", "publish", "send"},
   flow : {"none", "create", "append", "page", "cancel"},
   plan : Seq(Bundles), start : Nat, n : Nat \ {0}, slot : Nat,
   count : Nat, draft : BOOLEAN, queue : Seq(Transactions)]

TypeOK ==
  /\ chain \in [template : {"none", "mint", "draft", "live"}, live : Seq(Bundles),
                staged : StagedBundles \union {None}, wallet : SUBSET Prizes]
  /\ chain.staged # None =>
       /\ Len(chain.staged.prizes) <= chain.staged.size
       /\ IsInjective(chain.staged.prizes)
       /\ chain.staged.reclaimed \subseteq 1..Len(chain.staged.prizes)
  /\ late \subseteq Transactions /\ IsFiniteSet(late)
  /\ lates \in 0..MaxLate /\ Cardinality(late) <= lates
  /\ saved \in SavedDrafts \union {NoDraft}
  /\ asked \subseteq Requests /\ form \subseteq Forms
  /\ tab \in [Tabs -> TabStates]

\* A bundle that goes live is one that was asked for, with its copies and its
\* prizes, at the position it was asked for, whatever was repeated, cancelled, or
\* landed late in between.  (The order of the prizes can change when one tab
\* cancels and refills what another tab is about to activate.)
LiveAsPlanned ==
  \A i \in DOMAIN chain.live :
    \E a \in asked :
      /\ i - a.start \in DOMAIN a.plan
      /\ a.plan[i - a.start].copies = chain.live[i].copies
      /\ ToSet(a.plan[i - a.start].prizes) = ToSet(chain.live[i].prizes)

Staked == IF chain.staged = None THEN {}
          ELSE {chain.staged.prizes[k] : k \in 1..Len(chain.staged.prizes) \ chain.staged.reclaimed}

LivePrizes == UNION {ToSet(chain.live[i].prizes) : i \in DOMAIN chain.live}

\* A prize that there is once is in one place: the wallet, the staged bundle, or a
\* live one.  None is lost with a bundle that is closed, none goes live twice or
\* after it has been given back.
PrizesKept ==
  \A p \in Prizes \ Fungible :
    Cardinality({w \in {"wallet", "staged", "live"} :
                   \/ w = "wallet" /\ p \in chain.wallet
                   \/ w = "staged" /\ p \in Staked
                   \/ w = "live" /\ p \in LivePrizes}) = 1

\* What is staged belongs to the saved draft, which is what is needed to finish or
\* to reclaim it.
StagedHasDraft ==
  chain.staged # None =>
    /\ saved # NoDraft
    /\ StagedAt(chain) - saved.start \in DOMAIN saved.plan
    /\ ToSet(chain.staged.prizes) \subseteq
         ToSet(saved.plan[StagedAt(chain) - saved.start].prizes)

\* A template that is not published has its draft: nothing else knows its identity.
TemplateHasDraft == chain.template = "draft" => saved # NoDraft

\* Several tabs that share one draft.  (When one of them cancels it and begins
\* another, what a second one sends for the first draft lands in the bundle that
\* is staged for the other.)
SharedAsPlanned == Cardinality(asked) <= 1 => LiveAsPlanned

\* One tab whose transactions are all confirmed: the draft is there for as long as
\* it is needed.
DraftIsThere == StagedHasDraft /\ TemplateHasDraft

\* A bundle goes live as often as it was asked for, however often the client
\* starts again.
AddedOnce ==
  \A b \in ToSet(chain.live) :
    Cardinality({i \in DOMAIN chain.live : chain.live[i] = b})
      <= Cardinality({a \in asked : b \in ToSet(a.plan)})

\* What is staged goes live or back, whatever stopped on the way.
WoundUp == chain.staged # None ~> chain.staged = None
=============================================================================
