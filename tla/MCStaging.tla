----------------------------- MODULE MCStaging -----------------------------
(***************************************************************************)
(* How a treasury is filled (Staging) and how a launch drives it from the     *)
(* platform (Launch), in scenes of which the initial states choose one: a     *)
(* workshop in one tab, in two tabs, and with transactions that land late;    *)
(* the form of the creator's page; a launch from one browser that waits for   *)
(* its requests.                                                              *)
(***************************************************************************)
EXTENDS Integers, FiniteSets

CONSTANTS Tabs, Prizes, Fungible, Plans, Forms, MaxDrafts, MaxLive, MaxLate,
          sol, nft, art, t1, t2, home, press1, press2, Nothing

VARIABLES workScene, chain, late, lates, saved, form, tab, asked, edits, soon, faults, made,
          launchDraft, launchPage, treasury, saves, pins, keys, ui, flow

Fill == INSTANCE Staging WITH None <- Nothing

\* Two bundles; two others, of which the first can be staged where the second of
\* those was; and two of which it has the same number of copies besides.
Two == <<[copies |-> 1, prizes |-> <<sol, nft>>], [copies |-> 2, prizes |-> <<sol>>]>>
More == <<[copies |-> 3, prizes |-> <<art>>], [copies |-> 1, prizes |-> <<sol>>]>>
Alike == <<[copies |-> 2, prizes |-> <<art>>], [copies |-> 1, prizes |-> <<sol>>]>>
AllPlans == {Two, More, Alike}

\* The form of the creator's page.
Form == <<[copies |-> 1, prizes |-> <<sol>>], [copies |-> 2, prizes |-> <<nft>>]>>
AllForms == {Form}

OneBrowser == [f \in {press1, press2} |-> home]

Resumed == INSTANCE Launch WITH
  Browsers <- {home}, Flows <- {press1, press2}, BrowserOf <- OneBrowser,
  StoreOf <- [b \in {home} |-> b], MaxTemplates <- 1,
  MaxEdits <- 1, MaxFaults <- 2, Reorder <- FALSE, EditsGoOn <- FALSE,
  TimePasses <- FALSE, None <- Nothing,
  chain <- treasury, draft <- launchDraft, page <- launchPage

ASSUME FillAssumption == Fill!StagingAssumption

filling == <<chain, late, lates, saved, form, tab, asked>>
launch == <<edits, soon, faults, made, launchDraft, launchPage, treasury, saves, pins, keys,
            ui, flow>>
everyPart == <<workScene, filling, launch>>

FillInit ==
  /\ workScene \in {"workshop", "tabs", "late", "page", "launch"}
  /\ Fill!Init /\ form = IF workScene = "page" THEN Forms ELSE {}
  /\ Resumed!Init

\* Nobody but t1 fills the treasury.
OneTab == \A s \in Tabs \ {t1} : tab'[s] = Fill!Idle

\* At most n drafts of these plans, and m transactions that land late.
Within(plans, n, m) ==
  /\ \A r \in asked' : r.plan \in plans
  /\ Cardinality(asked') <= n
  /\ lates' <= m

Filled ==
  /\ Fill!Next
  /\ \/ workScene = "workshop" /\ OneTab /\ Within({Two, More}, 3, 0)
     \/ workScene = "tabs" /\ Within({Two, More}, 2, 0)
     \/ workScene = "late" /\ OneTab /\ Within({Two, Alike}, 3, 1)
     \/ workScene = "page" /\ OneTab /\ Within({Two} \union Forms, 3, 1)
  /\ UNCHANGED <<workScene, launch>>

FillNext ==
  \/ Filled
  \/ workScene = "launch" /\ Resumed!Next /\ UNCHANGED <<workScene, filling>>

\* The fairness of both modules, for the scenes of which something is to come.
FillFairness ==
  /\ LET Does(A) == workScene = "workshop" /\ A /\ UNCHANGED <<workScene, launch>>
     IN  /\ WF_everyPart(Does(Fill!Works(t1) \/ Fill!Refused(t1)))
         /\ SF_everyPart(Does(Fill!CancelDraft(t1)))
         /\ SF_everyPart(Does(Fill!ReadForCancel(t1)))
         /\ SF_everyPart(Does(Fill!ReadStaged(t1)))
         /\ SF_everyPart(Does(tab[t1].flow = "cancel" /\ Fill!Confirmed(t1)))
  /\ LET Does(A) == workScene = "launch" /\ A /\ UNCHANGED <<workScene, filling>>
     IN  /\ WF_everyPart(Does(Resumed!GoToLaunch(home)))
         /\ WF_everyPart(Does(Resumed!Autosave(home)))
         /\ WF_everyPart(Does(\E s \in saves : Resumed!SaveArrives(s)))
         /\ WF_everyPart(Does(\E p \in pins : Resumed!Server(p)))
         /\ \A f \in {press1, press2} :
              /\ WF_everyPart(Does(Resumed!Press(f)))
              /\ WF_everyPart(Does(Resumed!Work(f)))

FillSpec == FillInit /\ [][FillNext]_everyPart /\ FillFairness

\* Prizes are in one place, what is live was asked for, and a draft is kept for
\* as long as something depends on it.
NothingLost ==
  /\ Fill!TypeOK /\ Fill!PrizesKept
  /\ workScene # "page" => Fill!SharedAsPlanned
  /\ workScene \in {"workshop", "late"} => Fill!LiveAsPlanned
  /\ workScene = "workshop" => Fill!DraftIsThere

\* What is staged goes live or back.
StagedEnds == workScene = "workshop" => Fill!WoundUp

\* A launch whose identity is pinned gets its page.
LaunchEnds == workScene = "launch" => Resumed!LaunchEnds
=============================================================================
