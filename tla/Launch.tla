------------------------------- MODULE Launch -------------------------------
(***************************************************************************)
(* How a creator launches a lootbox on the platform: the wizard of /create   *)
(* edits a draft and saves it as the creator types (create/draft.ts), the     *)
(* launch pins the identity of the treasury, builds it on the chain and        *)
(* publishes the page (create/launch.ts), and the server keeps the draft and   *)
(* the page (routes/api.drafts*.ts, routes/api.lootboxes.ts, db.ts).           *)
(*                                                                          *)
(* One draft, the one every browser of its creator loads.  Its contents are    *)
(* versions, numbered as they are edited; any two differ in the bundle that    *)
(* is staged first.  Templates are numbered in the order in which launches     *)
(* make their keys.  How the treasury is built is module Staging.              *)
(***************************************************************************)
EXTENDS Integers, FiniteSets

CONSTANTS
  Browsers,     \* where the creator opens the wizard: tabs of his browsers
  StoreOf,      \* whose local storage it has, as tabs of one browser share
                \* theirs: [Browsers -> Browsers]
  Flows,        \* presses of the button Launch
  BrowserOf,    \* the browser a flow runs in: [Flows -> Browsers]
  None,         \* no flow, no template
  MaxTemplates, \* bound: templates for which keys are made
  MaxEdits,     \* bound: versions of the draft
  MaxFaults,    \* bound: reloads, lost answers and server errors
  Reorder,      \* requests may overtake each other, and a reload of the page
  EditsGoOn,    \* the creator edits on when a launch has begun
  TimePasses    \* the reveal time comes near while the lootbox is launched

ASSUME LaunchAssumption ==
  /\ MaxTemplates \in Nat /\ MaxEdits \in Nat /\ MaxFaults \in Nat
  /\ Reorder \in BOOLEAN /\ EditsGoOn \in BOOLEAN /\ TimePasses \in BOOLEAN
  /\ BrowserOf \in [Flows -> Browsers] /\ StoreOf \in [Browsers -> Browsers]
  /\ None \notin Flows /\ None \notin Nat

VARIABLES
  edits,    \* versions made so far
  soon,     \* less than ten minutes are left until the reveal time of the draft
  faults,   \* faults that have happened
  made,     \* templates for which keys have been made
  draft,    \* the row of the table drafts
  page,     \* the row of the table lootboxes, or its absence
  chain,    \* for each template what the chain has of it
  saves,    \* POST /api/drafts that the server has not served
  pins,     \* POST /api/drafts/:id/signing that it has not served
  keys,     \* the template whose launch keys each storage holds, or None
  ui,       \* the state of each browser's wizard
  flow      \* the state of each launch

vars == <<edits, soon, faults, made, draft, page, chain, saves, pins, keys, ui, flow>>

Versions == 0..MaxEdits

Templates == 1..MaxTemplates

Stages == {"none", "mint", "staged", "live"}

Places == {"idle", "flush", "identity", "make", "pin", "stage", "publish", "insert", "mark"}

Drafts ==
  [status : {"editing", "signing", "published"}, data : Versions,
   template : Templates \union {None}]

Wizards ==
  [data : Versions, step : {"edit", "launch"}, signing : BOOLEAN,
   pinned : Templates \union {None}, timer : BOOLEAN]

\* The template of a flow is the pinned one it was pressed with, then the one
\* whose keys it has.
Launches ==
  [at : Places, data : Versions, read : Versions, open : BOOLEAN,
   template : Templates \union {None}]

NoFlow == [at |-> "idle", data |-> 0, read |-> 0, open |-> TRUE, template |-> None]

\* What the wizard starts from: the draft as the server has it.
Loaded ==
  [data |-> draft.data,
   step |-> IF draft.status = "signing" THEN "launch" ELSE "edit",
   signing |-> draft.status = "signing",
   pinned |-> draft.template,
   timer |-> FALSE]

Init ==
  /\ edits = 0
  /\ soon = FALSE
  /\ faults = 0
  /\ made = 0
  /\ draft = [status |-> "editing", data |-> 0, template |-> None]
  /\ page = [template |-> None, data |-> 0]
  /\ chain = [t \in Templates |-> [stage |-> "none", data |-> 0]]
  /\ saves = {}
  /\ pins = {}
  /\ keys = [b \in Browsers |-> None]
  /\ ui = [b \in Browsers |-> Loaded]
  /\ flow = [f \in Flows |-> NoFlow]

Fault == faults < MaxFaults /\ faults' = faults + 1

In(b) == {f \in Flows : BrowserOf[f] = b}

\* What the page of the wizard waits for.
Running(b) == {f \in In(b) : flow[f].at # "idle" /\ flow[f].open}

\* The creator has pressed nothing yet, or edits all the same.
MayEdit(b) == EditsGoOn \/ (Running(b) = {} /\ draft.status = "editing")

(***************************************************************************)
(* The wizard.  Every edit and every change of the step starts the timer of   *)
(* the autosave again, until the wizard learns that the identity is pinned.   *)
(***************************************************************************)
\* Details and the network are locked from then on, the bundles are not; a
\* change of the details may choose another reveal time.
Edit(b) ==
  /\ edits < MaxEdits
  /\ ui[b].step = "edit"
  /\ MayEdit(b)
  /\ edits' = edits + 1
  /\ UNCHANGED soon \/ (~ui[b].signing /\ soon' = FALSE)
  /\ ui' = [ui EXCEPT ![b] = [@ EXCEPT !.data = edits + 1, !.timer = ~ui[b].signing]]
  /\ UNCHANGED <<faults, made, draft, page, chain, saves, pins, keys, flow>>

RevealNears ==
  /\ TimePasses
  /\ ~soon
  /\ soon' = TRUE
  /\ UNCHANGED <<edits, faults, made, draft, page, chain, saves, pins, keys, ui, flow>>

\* No step is entered while the details have a problem.
GoToLaunch(b) ==
  /\ ui[b].step = "edit"
  /\ ~soon
  /\ ui' = [ui EXCEPT ![b] = [@ EXCEPT !.step = "launch", !.timer = ~ui[b].signing]]
  /\ UNCHANGED <<edits, soon, faults, made, draft, page, chain, saves, pins, keys, flow>>

\* The button is there until the identity is pinned, also while a launch runs.
BackToReview(b) ==
  /\ ui[b].step = "launch"
  /\ ~ui[b].signing
  /\ MayEdit(b)
  /\ ui' = [ui EXCEPT ![b] = [@ EXCEPT !.step = "edit", !.timer = TRUE]]
  /\ UNCHANGED <<edits, soon, faults, made, draft, page, chain, saves, pins, keys, flow>>

\* The timer fires: a request is on its way, and nobody waits for it.
Autosave(b) ==
  /\ ui[b].timer
  /\ ui' = [ui EXCEPT ![b] = [@ EXCEPT !.timer = FALSE]]
  /\ saves' = saves \union {[data |-> ui[b].data, flow |-> None]}
  /\ UNCHANGED <<edits, soon, faults, made, draft, page, chain, pins, keys, flow>>

\* The wizard is loaded again: its flows end where they are, requests do not but
\* nobody reads their answers, and the server goes on publishing for a page that
\* is gone.
Abandoned(f) ==
  IF flow[f].at \in {"insert", "mark"} THEN [flow[f] EXCEPT !.open = FALSE] ELSE NoFlow

Reload(b) ==
  /\ Fault
  /\ draft.status # "published"
  /\ Reorder \/ (saves = {} /\ pins = {})
  /\ ui' = [ui EXCEPT ![b] = Loaded]
  /\ flow' = [f \in Flows |-> IF f \in In(b) THEN Abandoned(f) ELSE flow[f]]
  /\ saves' = {IF s.flow \in In(b) THEN [s EXCEPT !.flow = None] ELSE s : s \in saves}
  /\ pins' = {IF p.flow \in In(b) THEN [p EXCEPT !.flow = None] ELSE p : p \in pins}
  /\ UNCHANGED <<edits, soon, made, draft, page, chain, keys>>

(***************************************************************************)
(* The server's drafts.                                                      *)
(***************************************************************************)
\* upsertDraft: only a draft that is still edited is changed, and the caller
\* gets the same answer when it is not.
UpsertDraft(data) ==
  draft' = IF draft.status = "editing" THEN [draft EXCEPT !.data = data] ELSE draft

\* Mutant: a draft that is being launched may be given another template.
AnyTemplate(t) == draft.status # "published"

\* Mutant: a draft is pinned once.
OnceOnly(t) == draft.status = "editing"

\* markDraftSigning: its condition.
MayPin(t) ==
  \/ draft.status = "editing"
  \/ draft.status = "signing" /\ draft.template = t

SaveArrives(s) ==
  /\ s \in saves
  /\ Reorder \/ \A q \in saves : s.data <= q.data
  /\ UpsertDraft(s.data)
  /\ saves' = saves \ {s}
  /\ flow' = IF s.flow # None /\ flow[s.flow].at = "flush"
             THEN [flow EXCEPT ![s.flow].at = "identity"] ELSE flow
  /\ UNCHANGED <<edits, soon, faults, made, page, chain, pins, keys, ui>>

\* The answer of a save is lost, or the request is.
SaveFails(s) ==
  /\ s \in saves
  /\ Fault
  /\ UNCHANGED draft \/ UpsertDraft(s.data)
  /\ saves' = saves \ {s}
  /\ flow' = IF s.flow # None /\ flow[s.flow].at = "flush"
             THEN [flow EXCEPT ![s.flow] = NoFlow] ELSE flow
  /\ UNCHANGED <<edits, soon, made, page, chain, pins, keys, ui>>

(***************************************************************************)
(* The launch.                                                               *)
(***************************************************************************)
At(f, place) == flow' = [flow EXCEPT ![f].at = place]

Stop(f) == flow' = [flow EXCEPT ![f] = NoFlow]

\* Mutant: the draft is not saved before its identity is pinned.
PressUnsaved(f) ==
  /\ flow[f].at = "idle"
  /\ ui[BrowserOf[f]].step = "launch"
  /\ ~soon
  /\ EditsGoOn \/ Running(BrowserOf[f]) = {}
  /\ draft.status # "published"
  /\ flow' = [flow EXCEPT ![f] = [NoFlow EXCEPT !.data = ui[BrowserOf[f]].data,
                    !.template = ui[BrowserOf[f]].pinned, !.at = "identity"]]
  /\ UNCHANGED <<edits, soon, faults, made, draft, page, chain, saves, pins, keys, ui>>

\* The button is disabled while its own launch runs and while the reveal time is
\* near; a wizard that went back and came again has a new button.  The draft is saved first, unless its
\* identity is pinned already.
Press(f) ==
  LET b == BrowserOf[f]
  IN  /\ flow[f].at = "idle"
      /\ ui[b].step = "launch"
      /\ ~soon
      /\ EditsGoOn \/ Running(b) = {}
      /\ draft.status # "published"
      /\ flow' = [flow EXCEPT ![f] = [NoFlow EXCEPT !.data = ui[b].data,
                    !.template = ui[b].pinned,
                    !.at = IF ui[b].signing THEN "identity" ELSE "flush"]]
      /\ saves' = IF ui[b].signing THEN saves
                  ELSE saves \union {[data |-> ui[b].data, flow |-> f]}
      /\ UNCHANGED <<edits, soon, faults, made, draft, page, chain, pins, keys, ui>>

\* prepareIdentity.  The request to pin a template is sent as soon as its keys
\* are there.
PostPin(f, t) ==
  /\ pins' = pins \union {[flow |-> f, template |-> t]}
  /\ flow' = [flow EXCEPT ![f] = [@ EXCEPT !.at = "pin", !.template = t]]

\* The keys in the storage are used; without any, and unless the draft was
\* pinned when the button was pressed, new ones are to be made.
ReadKeys(f) ==
  LET stored == keys[StoreOf[BrowserOf[f]]]
  IN  /\ flow[f].at = "identity"
      /\ \/ stored # None /\ PostPin(f, stored)
         \/ stored = None /\ flow[f].template = None /\ At(f, "make") /\ UNCHANGED pins
      /\ UNCHANGED <<edits, soon, faults, made, draft, page, chain, saves, keys, ui>>

StartedElsewhere(f) ==
  /\ flow[f].at = "identity"
  /\ keys[StoreOf[BrowserOf[f]]] = None /\ flow[f].template # None
  /\ Stop(f)
  /\ UNCHANGED <<edits, soon, faults, made, draft, page, chain, saves, pins, keys, ui>>

\* The new keys are derived while other tabs and flows go on, and then written,
\* over whatever the storage holds by now.
WriteKeys(f) ==
  /\ flow[f].at = "make"
  /\ made < MaxTemplates
  /\ made' = made + 1
  /\ keys' = [keys EXCEPT ![StoreOf[BrowserOf[f]]] = made + 1]
  /\ PostPin(f, made + 1)
  /\ UNCHANGED <<edits, soon, faults, draft, page, chain, saves, ui>>

Pinned(t) == [draft EXCEPT !.status = "signing", !.template = t]

Pinning(p) == p.flow # None /\ flow[p.flow].at = "pin"

\* The server pins the identity; the wizard learns it from the answer.
PinArrives(p) ==
  /\ p \in pins
  /\ MayPin(p.template)
  /\ draft' = Pinned(p.template)
  /\ pins' = pins \ {p}
  /\ IF Pinning(p)
     THEN /\ At(p.flow, "stage")
          /\ ui' = [ui EXCEPT ![BrowserOf[p.flow]] =
                      [@ EXCEPT !.signing = TRUE, !.pinned = p.template, !.timer = FALSE]]
     ELSE UNCHANGED <<flow, ui>>
  /\ UNCHANGED <<edits, soon, faults, made, page, chain, saves, keys>>

PinRefused(p) ==
  /\ p \in pins
  /\ ~MayPin(p.template)
  /\ pins' = pins \ {p}
  /\ IF Pinning(p) THEN Stop(p.flow) ELSE UNCHANGED flow
  /\ UNCHANGED <<edits, soon, faults, made, draft, page, chain, saves, keys, ui>>

\* The request is lost, or its answer: the wizard does not learn that the
\* draft is pinned.
PinFails(p) ==
  /\ p \in pins
  /\ Fault
  /\ UNCHANGED draft \/ (MayPin(p.template) /\ draft' = Pinned(p.template))
  /\ pins' = pins \ {p}
  /\ IF Pinning(p) THEN Stop(p.flow) ELSE UNCHANGED flow
  /\ UNCHANGED <<edits, soon, made, page, chain, saves, keys, ui>>

\* createTemplate: what the chain has is compared with the plan and kept.
CreateMint(f) ==
  LET t == flow[f].template
  IN  /\ flow[f].at = "stage"
      /\ chain[t].stage = "none"
      /\ chain' = [chain EXCEPT ![t] = [stage |-> "mint", data |-> 0]]
      /\ UNCHANGED <<edits, soon, faults, made, draft, page, saves, pins, keys, ui, flow>>

StageBundles(f) ==
  LET t == flow[f].template
  IN  /\ flow[f].at = "stage"
      /\ chain[t].stage = "mint"
      /\ chain' = [chain EXCEPT ![t] = [stage |-> "staged", data |-> flow[f].data]]
      /\ UNCHANGED <<edits, soon, faults, made, draft, page, saves, pins, keys, ui, flow>>

SealTemplate(f) ==
  LET t == flow[f].template
  IN  /\ flow[f].at = "stage"
      /\ chain[t].stage = "staged"
      /\ chain[t].data = flow[f].data
      /\ chain' = [chain EXCEPT ![t].stage = "live"]
      /\ UNCHANGED <<edits, soon, faults, made, draft, page, saves, pins, keys, ui, flow>>

Forget(f) == keys' = [keys EXCEPT ![StoreOf[BrowserOf[f]]] = None]

\* Mutant: the keys have done their work once the treasury is live.
ForgetWhenLive(f) ==
  /\ flow[f].at = "stage"
  /\ chain[flow[f].template].stage = "live"
  /\ chain[flow[f].template].data = flow[f].data
  /\ At(f, "publish")
  /\ Forget(f)
  /\ UNCHANGED <<edits, soon, faults, made, draft, page, chain, saves, pins, ui>>

TemplateIsLive(f) ==
  LET t == flow[f].template
  IN  /\ flow[f].at = "stage"
      /\ chain[t].stage = "live"
      /\ chain[t].data = flow[f].data
      /\ At(f, "publish")
      /\ UNCHANGED <<edits, soon, faults, made, draft, page, chain, saves, pins, keys, ui>>

SavedBundleDiffers(f) ==
  LET t == flow[f].template
  IN  /\ flow[f].at = "stage"
      /\ chain[t].stage \in {"staged", "live"}
      /\ chain[t].data # flow[f].data
      /\ Stop(f)
      /\ UNCHANGED <<edits, soon, faults, made, draft, page, chain, saves, pins, keys, ui>>

\* A transaction, a read or a request of the launch fails.
LaunchFails(f) ==
  /\ flow[f].at \in {"stage", "publish", "insert", "mark"}
  /\ Fault
  /\ Stop(f)
  /\ UNCHANGED <<edits, soon, made, draft, page, chain, saves, pins, keys, ui>>

(***************************************************************************)
(* Publishing: the server reads the draft, looks for the page, reads the      *)
(* chain, inserts the page and marks the draft.  Only then the browser        *)
(* forgets its keys and leaves for the page.                                  *)
(***************************************************************************)
Leaves(f) ==
  /\ IF flow[f].open THEN Forget(f) ELSE UNCHANGED keys
  /\ Stop(f)

MayPublish(f) ==
  /\ draft.template = flow[f].template
  /\ chain[flow[f].template].stage = "live"

ReadDraft(f) ==
  /\ flow[f].at = "publish"
  /\ MayPublish(f)
  /\ page.template = None
  /\ flow' = [flow EXCEPT ![f] = [@ EXCEPT !.at = "insert", !.read = draft.data]]
  /\ UNCHANGED <<edits, soon, faults, made, draft, page, chain, saves, pins, keys, ui>>

PageExists(f) ==
  /\ flow[f].at = "publish"
  /\ MayPublish(f)
  /\ page.template # None
  /\ Leaves(f)
  /\ UNCHANGED <<edits, soon, faults, made, draft, page, chain, saves, pins, ui>>

PublishRefused(f) ==
  /\ flow[f].at = "publish"
  /\ ~MayPublish(f)
  /\ Stop(f)
  /\ UNCHANGED <<edits, soon, faults, made, draft, page, chain, saves, pins, keys, ui>>

\* Cluster and template are unique in the table: a second insert fails.
InsertPage(f) ==
  /\ flow[f].at = "insert"
  /\ IF page.template = None
     THEN /\ page' = [template |-> flow[f].template, data |-> flow[f].read]
          /\ At(f, "mark")
     ELSE /\ Stop(f)
          /\ UNCHANGED page
  /\ UNCHANGED <<edits, soon, faults, made, draft, chain, saves, pins, keys, ui>>

MarkPublished(f) ==
  /\ flow[f].at = "mark"
  /\ draft' = [draft EXCEPT !.status = "published"]
  /\ Leaves(f)
  /\ UNCHANGED <<edits, soon, faults, made, page, chain, saves, pins, ui>>

Wizard(b) == Edit(b) \/ GoToLaunch(b) \/ BackToReview(b)

Server(p) == PinArrives(p) \/ PinRefused(p)

Work(f) ==
  \/ ReadKeys(f) \/ StartedElsewhere(f) \/ WriteKeys(f)
  \/ CreateMint(f) \/ StageBundles(f) \/ SealTemplate(f) \/ TemplateIsLive(f)
  \/ SavedBundleDiffers(f) \/ ReadDraft(f) \/ PageExists(f) \/ PublishRefused(f)
  \/ InsertPage(f) \/ MarkPublished(f)

Next ==
  \/ RevealNears
  \/ \E b \in Browsers : Wizard(b) \/ Autosave(b) \/ Reload(b)
  \/ \E s \in saves : SaveArrives(s) \/ SaveFails(s)
  \/ \E p \in pins : Server(p) \/ PinFails(p)
  \/ \E f \in Flows : Press(f) \/ Work(f) \/ LaunchFails(f)

Spec == Init /\ [][Next]_vars

(***************************************************************************)
(* Fairness: requests arrive, timers fire, launches go on, and the creator    *)
(* of a launch that stopped goes to its step and presses Resume.               *)
(***************************************************************************)
Fairness ==
  /\ \A b \in Browsers : WF_vars(GoToLaunch(b)) /\ WF_vars(Autosave(b))
  /\ WF_vars(\E s \in saves : SaveArrives(s)) /\ WF_vars(\E p \in pins : Server(p))
  /\ \A f \in Flows : WF_vars(Press(f)) /\ WF_vars(Work(f))

FairSpec == Spec /\ Fairness

(***************************************************************************)
(* Properties.                                                               *)
(***************************************************************************)
TypeOK ==
  /\ edits \in Versions /\ soon \in BOOLEAN /\ faults \in 0..MaxFaults
  /\ draft \in Drafts
  /\ made \in 0..MaxTemplates
  /\ page \in [template : Templates \union {None}, data : Versions]
  /\ chain \in [Templates -> [stage : Stages, data : Versions]]
  /\ saves \subseteq [data : Versions, flow : Flows \union {None}]
  /\ pins \subseteq [flow : Flows \union {None}, template : Templates]
  /\ keys \in [Browsers -> Templates \union {None}]
  /\ ui \in [Browsers -> Wizards]
  /\ flow \in [Flows -> Launches]

\* The creator never pays for a treasury that the server does not know: from
\* the first transaction on, the draft names the template and keeps naming it,
\* so that there is never a second one, whatever browsers do at the same time.
TreasuryIsPinned ==
  \A t \in Templates : chain[t].stage # "none" => draft.template = t

\* The page describes the bundles that are in the treasury: what was pinned is
\* what was built.
PageShowsTreasury ==
  page.template # None => page.data = chain[page.template].data

\* The launches of one browser take turns: no two of them are between looking for
\* the keys and keeping new ones.  The code does not see to it.
TakeTurns ==
  \A f, g \in Flows :
    /\ flow[f].at = "make" /\ flow[g].at = "make"
    /\ StoreOf[BrowserOf[f]] = StoreOf[BrowserOf[g]]
    => f = g

\* If they do, the keys of the pinned template are kept until the launch has its
\* page, wherever they were made: the creator can always go back to the browser
\* that has them and resume.
KeysOutliveLaunch ==
  draft.template # None /\ page.template = None =>
    \E b \in Browsers : keys[StoreOf[b]] = draft.template

\* A launch whose identity is pinned gets its page.
LaunchEnds == draft.status = "signing" ~> page.template # None

\* A published draft is not the creator's unfinished one for ever.
PublishedIsFinished == page.template # None ~> draft.status = "published"
=============================================================================
