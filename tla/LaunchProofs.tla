----------------------------- MODULE LaunchProofs -----------------------------
(***************************************************************************)
(* The launch keeps to one treasury, and the browser that builds it can go *)
(* on until it has its page: for every number of browsers, flows, edits    *)
(* and faults; and the page of a creator who waits is true.  Signing in    *)
(* and the draft follow, for every set of tabs and wallets: the lemmas are *)
(* about Of(T, W), the Session of the tabs T and the wallets W.            *)
(***************************************************************************)
EXTENDS MCWizard, Sums

Working == {"stage", "publish", "insert", "mark"}

\* What the flow of a launch is, for the proofs that look at its place only.
FlowTyped ==
  /\ flow \in [Flows -> Launches]
  /\ chain \in [Templates -> [stage : Stages, data : Versions]]
  /\ draft \in Drafts
  /\ pins \subseteq [flow : Flows \union {None}, template : Templates]

\* A request to pin that somebody waits for is for the template of that launch.
PinsAreAwaited ==
  \A p \in pins : p.flow # None =>
    flow[p.flow].at = "pin" /\ flow[p.flow].template = p.template

\* A launch that builds or publishes has had its identity pinned, and what is on
\* the chain has been built by such a launch.
FlowsArePinned ==
  \A f \in Flows : flow[f].at \in Working =>
    /\ draft.status # "editing" /\ draft.template = flow[f].template
    /\ flow[f].template \in Templates

BuiltIsPinned ==
  \A t \in Templates : chain[t].stage # "none" =>
    draft.status # "editing" /\ draft.template = t

\* Some storage has the keys of the template.
Held(t) == \E b \in Browsers : keys[StoreOf[b]] = t

\* Until there is a page, keys are written where there are none, and before the
\* identity is pinned.
MarksHavePages == \A f \in Flows : flow[f].at = "mark" => page.template # None

NewKeysFit ==
  page.template = None =>
    \A f \in Flows : flow[f].at = "make" => keys[StoreOf[BrowserOf[f]]] = None

PinsAreHeld ==
  page.template = None =>
    /\ \A p \in pins : Held(p.template)
    /\ draft.template # None => Held(draft.template)

Inv ==
  /\ FlowsArePinned
  /\ BuiltIsPinned
  /\ PinsAreAwaited
  /\ MarksHavePages

\* What the helpers of the model return.
LEMMA NoFlowTyped == NoFlow \in Launches
BY LaunchAssumption DEF NoFlow, Launches, Places, Versions

LEMMA AtTyped ==
  ASSUME flow \in [Flows -> Launches], NEW f \in Flows, NEW place \in Places, At(f, place)
  PROVE  flow' \in [Flows -> Launches]
BY DEF At, Launches

LEMMA StopTyped ==
  ASSUME flow \in [Flows -> Launches], NEW f \in Flows, Stop(f)
  PROVE  flow' \in [Flows -> Launches]
BY NoFlowTyped DEF Stop

LEMMA LoadedTyped == draft \in Drafts => Loaded \in Wizards
BY DEF Loaded, Drafts, Wizards

LEMMA PinnedTyped ==
  ASSUME draft \in Drafts, NEW t \in Templates
  PROVE  Pinned(t) \in Drafts
BY DEF Pinned, Drafts

LEMMA UpsertTyped ==
  ASSUME draft \in Drafts, NEW d \in Versions, UpsertDraft(d)
  PROVE  draft' \in Drafts
BY DEF UpsertDraft, Drafts

\* A wizard keeps its type when parts of its state take other values.
LEMMA WizardFields ==
  ASSUME NEW w \in Wizards
  PROVE  /\ w.data \in Versions /\ (~w.signing) \in BOOLEAN
         /\ w.pinned \in Templates \union {None}
<1>1. /\ w.data \in Versions /\ w.signing \in BOOLEAN
      /\ w.pinned \in Templates \union {None}
  BY DEF Wizards
<1> QED
  BY <1>1

LEMMA WizardEdited ==
  ASSUME NEW w \in Wizards, NEW d \in Versions, NEW timer \in BOOLEAN
  PROVE  [w EXCEPT !.data = d, !.timer = timer] \in Wizards
BY DEF Wizards

LEMMA WizardMoved ==
  ASSUME NEW w \in Wizards, NEW step \in {"edit", "launch"}, NEW timer \in BOOLEAN
  PROVE  [w EXCEPT !.step = step, !.timer = timer] \in Wizards
BY DEF Wizards

LEMMA WizardSaved ==
  ASSUME NEW w \in Wizards
  PROVE  [w EXCEPT !.timer = FALSE] \in Wizards
BY DEF Wizards

LEMMA WizardPinned ==
  ASSUME NEW w \in Wizards, NEW t \in Templates
  PROVE  [w EXCEPT !.signing = TRUE, !.pinned = t, !.timer = FALSE] \in Wizards
BY DEF Wizards

LEMMA PressTyped ==
  ASSUME NEW d \in Versions, NEW t \in Templates \union {None}, NEW place \in Places
  PROVE  [NoFlow EXCEPT !.data = d, !.template = t, !.at = place] \in Launches
BY NoFlowTyped DEF Launches

LEMMA ChainTyped ==
  ASSUME chain \in [Templates -> [stage : Stages, data : Versions]], NEW t, NEW r,
         t \in Templates => r \in [stage : Stages, data : Versions],
         chain' = [chain EXCEPT ![t] = r]
  PROVE  chain' \in [Templates -> [stage : Stages, data : Versions]]
OBVIOUS

LEMMA PostPinTyped ==
  ASSUME flow \in [Flows -> Launches], NEW f \in Flows, NEW t \in Templates, PostPin(f, t),
         pins \subseteq [flow : Flows \union {None}, template : Templates]
  PROVE  /\ flow' \in [Flows -> Launches]
         /\ pins' \subseteq [flow : Flows \union {None}, template : Templates]
<1>1. [flow[f] EXCEPT !.at = "pin", !.template = t] \in Launches
  BY DEF Launches, Places
<1> QED
  BY <1>1 DEF PostPin

\* Every step is one of the actions.
LEMMA LaunchSteps ==
  ASSUME Next
  PROVE  \/ RevealNears
         \/ \E b \in Browsers : \/ Edit(b) \/ GoToLaunch(b) \/ BackToReview(b)
                                \/ Autosave(b) \/ Reload(b)
         \/ \E s \in saves : SaveArrives(s) \/ SaveFails(s)
         \/ \E p \in pins : PinArrives(p) \/ PinRefused(p) \/ PinFails(p)
         \/ \E f \in Flows : \/ Press(f) \/ ReadKeys(f) \/ StartedElsewhere(f)
              \/ WriteKeys(f) \/ CreateMint(f) \/ StageBundles(f) \/ SealTemplate(f)
              \/ TemplateIsLive(f) \/ SavedBundleDiffers(f) \/ ReadDraft(f)
              \/ PageExists(f) \/ PublishRefused(f) \/ InsertPage(f)
              \/ MarkPublished(f) \/ LaunchFails(f)
BY Zenon DEF Next, Wizard, Work, Server

LEMMA InitTyped == Init => TypeOK
<1> SUFFICES ASSUME Init PROVE TypeOK
  OBVIOUS
<1>1. draft \in Drafts
  BY LaunchAssumption DEF Init, Drafts, Versions
<1>2. ui \in [Browsers -> Wizards]
  BY <1>1, LoadedTyped DEF Init
<1>3. flow \in [Flows -> Launches]
  BY NoFlowTyped DEF Init
<1>4. chain \in [Templates -> [stage : Stages, data : Versions]]
  BY LaunchAssumption DEF Init, Versions, Stages
<1>5. page \in [template : Templates \union {None}, data : Versions]
  BY LaunchAssumption DEF Init, Versions
<1>6. edits \in Versions /\ faults \in 0..MaxFaults
  BY LaunchAssumption DEF Init, Versions
<1>7. soon \in BOOLEAN
  BY DEF Init
<1>8. saves = {} /\ pins = {} /\ made \in 0..MaxTemplates
  BY LaunchAssumption DEF Init
<1>9. keys \in [Browsers -> Templates \union {None}]
  BY DEF Init
<1> QED
  BY <1>1, <1>2, <1>3, <1>4, <1>5, <1>6, <1>7, <1>8, <1>9 DEF TypeOK

LEMMA NextTyped == TypeOK /\ [Next]_vars => TypeOK'
<1> SUFFICES ASSUME TypeOK, [Next]_vars PROVE TypeOK'
  OBVIOUS
<1>1. CASE RevealNears
  BY <1>1 DEF RevealNears, TypeOK
<1>2. ASSUME NEW b \in Browsers, Edit(b) PROVE TypeOK'
  <2>1. ui[b] \in Wizards /\ edits + 1 \in Versions
    BY <1>2, LaunchAssumption DEF Edit, TypeOK, Versions
  <2>2. [ui[b] EXCEPT !.data = edits + 1, !.timer = ~ui[b].signing] \in Wizards
    BY <2>1, WizardFields, WizardEdited
  <2>3. ui' \in [Browsers -> Wizards]
    BY <1>2, <2>2 DEF Edit, TypeOK
  <2>4. soon' \in BOOLEAN
    BY <1>2 DEF Edit, TypeOK
  <2> QED
    BY <1>2, <2>1, <2>3, <2>4 DEF Edit, TypeOK
<1>3. ASSUME NEW b \in Browsers, GoToLaunch(b) PROVE TypeOK'
  <2>1. [ui[b] EXCEPT !.step = "launch", !.timer = ~ui[b].signing] \in Wizards
    BY WizardFields, WizardMoved DEF TypeOK
  <2>2. ui' \in [Browsers -> Wizards]
    BY <1>3, <2>1 DEF GoToLaunch, TypeOK
  <2> QED
    BY <1>3, <2>2 DEF GoToLaunch, TypeOK
<1>4. ASSUME NEW b \in Browsers, BackToReview(b) PROVE TypeOK'
  <2>1. [ui[b] EXCEPT !.step = "edit", !.timer = TRUE] \in Wizards
    BY WizardMoved DEF TypeOK
  <2>2. ui' \in [Browsers -> Wizards]
    BY <1>4, <2>1 DEF BackToReview, TypeOK
  <2> QED
    BY <1>4, <2>2 DEF BackToReview, TypeOK
<1>5. ASSUME NEW b \in Browsers, Autosave(b) PROVE TypeOK'
  <2>1. ui[b].data \in Versions /\ [ui[b] EXCEPT !.timer = FALSE] \in Wizards
    BY WizardFields, WizardSaved DEF TypeOK
  <2>2. ui' \in [Browsers -> Wizards]
    BY <1>5, <2>1 DEF Autosave, TypeOK
  <2>3. saves' \subseteq [data : Versions, flow : Flows \union {None}]
    BY <1>5, <2>1 DEF Autosave, TypeOK
  <2> QED
    BY <1>5, <2>2, <2>3 DEF Autosave, TypeOK
<1>6. ASSUME NEW b \in Browsers, Reload(b) PROVE TypeOK'
  <2>1. ui' \in [Browsers -> Wizards]
    BY <1>6, LoadedTyped DEF Reload, TypeOK
  <2>2. flow' \in [Flows -> Launches]
    BY <1>6, NoFlowTyped DEF Reload, TypeOK, Abandoned, Launches, Places
  <2>3. faults' \in 0..MaxFaults
    BY <1>6, LaunchAssumption DEF Reload, TypeOK, Fault
  <2>4. saves' \subseteq [data : Versions, flow : Flows \union {None}]
    BY <1>6 DEF Reload, TypeOK
  <2>5. pins' \subseteq [flow : Flows \union {None}, template : Templates]
    BY <1>6 DEF Reload, TypeOK
  <2> QED
    BY <1>6, <2>1, <2>2, <2>3, <2>4, <2>5 DEF Reload, TypeOK
<1>7. ASSUME NEW s \in saves, SaveArrives(s) PROVE TypeOK'
  <2>1. draft' \in Drafts
    BY <1>7, UpsertTyped DEF SaveArrives, TypeOK
  <2>2. saves' \subseteq [data : Versions, flow : Flows \union {None}]
    BY <1>7 DEF SaveArrives, TypeOK
  <2>3. flow' \in [Flows -> Launches]
    BY <1>7 DEF SaveArrives, TypeOK, Launches, Places
  <2> QED
    BY <1>7, <2>1, <2>2, <2>3 DEF SaveArrives, TypeOK
<1>8. ASSUME NEW s \in saves, SaveFails(s) PROVE TypeOK'
  <2>1. draft' \in Drafts
    BY <1>8, UpsertTyped DEF SaveFails, TypeOK
  <2>2. saves' \subseteq [data : Versions, flow : Flows \union {None}]
    BY <1>8 DEF SaveFails, TypeOK
  <2>3. flow' \in [Flows -> Launches]
    BY <1>8, NoFlowTyped DEF SaveFails, TypeOK
  <2>4. faults' \in 0..MaxFaults
    BY <1>8, LaunchAssumption DEF SaveFails, TypeOK, Fault
  <2> QED
    BY <1>8, <2>1, <2>2, <2>3, <2>4 DEF SaveFails, TypeOK
<1>9. ASSUME NEW f \in Flows, Press(f) PROVE TypeOK'
  <2>1. ui[BrowserOf[f]].data \in Versions
        /\ ui[BrowserOf[f]].pinned \in Templates \union {None}
    BY LaunchAssumption, WizardFields DEF TypeOK
  <2>2. \A place \in Places :
          [NoFlow EXCEPT !.data = ui[BrowserOf[f]].data,
                         !.template = ui[BrowserOf[f]].pinned, !.at = place] \in Launches
    BY <2>1, PressTyped
  <2>3. \E place \in Places : flow' = [flow EXCEPT ![f] =
          [NoFlow EXCEPT !.data = ui[BrowserOf[f]].data,
                         !.template = ui[BrowserOf[f]].pinned, !.at = place]]
    BY <1>9 DEF Press, Places
  <2>4. flow' \in [Flows -> Launches]
    BY <2>2, <2>3 DEF TypeOK
  <2>5. saves' \subseteq [data : Versions, flow : Flows \union {None}]
    BY <1>9, <2>1 DEF Press, TypeOK
  <2> QED
    BY <1>9, <2>4, <2>5 DEF Press, TypeOK
<1>10. ASSUME NEW f \in Flows, ReadKeys(f) PROVE TypeOK'
  <2> DEFINE stored == keys[StoreOf[BrowserOf[f]]]
  <2>1. CASE stored # None /\ PostPin(f, stored)
    <3>1. stored \in Templates
      BY <2>1, LaunchAssumption DEF TypeOK
    <3> QED
      BY <1>10, <2>1, <3>1, PostPinTyped DEF ReadKeys, TypeOK
  <2>2. CASE At(f, "make") /\ UNCHANGED pins
    <3>1. flow' \in [Flows -> Launches]
      BY <2>2, AtTyped DEF TypeOK, Places
    <3> QED
      BY <1>10, <2>2, <3>1 DEF ReadKeys, TypeOK
  <2> QED
    BY <1>10, <2>1, <2>2 DEF ReadKeys
<1>11. ASSUME NEW f \in Flows, WriteKeys(f) PROVE TypeOK'
  <2>1. made + 1 \in Templates /\ made' \in 0..MaxTemplates
    BY <1>11, LaunchAssumption DEF WriteKeys, TypeOK, Templates
  <2>2. keys' \in [Browsers -> Templates \union {None}]
    BY <1>11, <2>1 DEF WriteKeys, TypeOK
  <2>3. /\ flow' \in [Flows -> Launches]
        /\ pins' \subseteq [flow : Flows \union {None}, template : Templates]
    BY <1>11, <2>1, PostPinTyped DEF WriteKeys, TypeOK
  <2> QED
    BY <1>11, <2>1, <2>2, <2>3 DEF WriteKeys, TypeOK
<1>12. ASSUME NEW f \in Flows, StartedElsewhere(f) PROVE TypeOK'
  <2>1. flow' \in [Flows -> Launches]
    BY <1>12, StopTyped DEF StartedElsewhere, TypeOK
  <2> QED
    BY <1>12, <2>1 DEF StartedElsewhere, TypeOK
<1>13. ASSUME NEW f \in Flows, CreateMint(f) PROVE TypeOK'
  <2>1. [stage |-> "mint", data |-> 0] \in [stage : Stages, data : Versions]
    BY LaunchAssumption DEF Stages, Versions
  <2>2. chain' \in [Templates -> [stage : Stages, data : Versions]]
    BY <1>13, <2>1, ChainTyped DEF CreateMint, TypeOK
  <2> QED
    BY <1>13, <2>2 DEF CreateMint, TypeOK
<1>14. ASSUME NEW f \in Flows, StageBundles(f) PROVE TypeOK'
  <2>1. flow[f] \in Launches
    BY DEF TypeOK
  <2>2. [stage |-> "staged", data |-> flow[f].data] \in [stage : Stages, data : Versions]
    BY <2>1 DEF Stages, Launches
  <2>3. chain' \in [Templates -> [stage : Stages, data : Versions]]
    BY <1>14, <2>2, ChainTyped DEF StageBundles, TypeOK
  <2> QED
    BY <1>14, <2>3 DEF StageBundles, TypeOK
<1>15. ASSUME NEW f \in Flows, SealTemplate(f) PROVE TypeOK'
  <2> DEFINE t == flow[f].template
             r == [chain[t] EXCEPT !.stage = "live"]
  <2>1. t \in Templates => r \in [stage : Stages, data : Versions]
    BY DEF TypeOK, Stages
  <2>2. chain' = [chain EXCEPT ![t] = r]
    BY <1>15 DEF SealTemplate
  <2> HIDE DEF t, r
  <2>3. chain' \in [Templates -> [stage : Stages, data : Versions]]
    BY <2>1, <2>2, ChainTyped DEF TypeOK
  <2> QED
    BY <1>15, <2>3 DEF SealTemplate, TypeOK
<1>16. ASSUME NEW f \in Flows, TemplateIsLive(f) PROVE TypeOK'
  <2>1. flow' \in [Flows -> Launches]
    BY <1>16, AtTyped DEF TemplateIsLive, TypeOK, Places
  <2> QED
    BY <1>16, <2>1 DEF TemplateIsLive, TypeOK
<1>17. ASSUME NEW f \in Flows, SavedBundleDiffers(f) PROVE TypeOK'
  <2>1. flow' \in [Flows -> Launches]
    BY <1>17, StopTyped DEF SavedBundleDiffers, TypeOK
  <2> QED
    BY <1>17, <2>1 DEF SavedBundleDiffers, TypeOK
<1>18. ASSUME NEW f \in Flows, ReadDraft(f) PROVE TypeOK'
  <2>1. draft.data \in Versions /\ flow[f] \in Launches
    BY DEF TypeOK, Drafts
  <2>2. [flow[f] EXCEPT !.at = "insert", !.read = draft.data] \in Launches
    BY <2>1 DEF Launches, Places
  <2>3. flow' \in [Flows -> Launches]
    BY <1>18, <2>2 DEF ReadDraft, TypeOK
  <2> QED
    BY <1>18, <2>3 DEF ReadDraft, TypeOK
<1>19. ASSUME NEW f \in Flows, PageExists(f) PROVE TypeOK'
  <2>1. flow' \in [Flows -> Launches]
    BY <1>19, StopTyped DEF PageExists, TypeOK, Leaves
  <2>2. keys' \in [Browsers -> Templates \union {None}]
    BY <1>19 DEF PageExists, TypeOK, Leaves, Forget
  <2> QED
    BY <1>19, <2>1, <2>2 DEF PageExists, TypeOK, Leaves
<1>20. ASSUME NEW f \in Flows, PublishRefused(f) PROVE TypeOK'
  <2>1. flow' \in [Flows -> Launches]
    BY <1>20, StopTyped DEF PublishRefused, TypeOK
  <2> QED
    BY <1>20, <2>1 DEF PublishRefused, TypeOK
<1>21. ASSUME NEW f \in Flows, InsertPage(f) PROVE TypeOK'
  <2>1. flow' \in [Flows -> Launches]
    BY <1>21, AtTyped, StopTyped DEF InsertPage, TypeOK, Places
  <2>2. page' \in [template : Templates \union {None}, data : Versions]
    BY <1>21, LaunchAssumption DEF InsertPage, TypeOK, Launches
  <2> QED
    BY <1>21, <2>1, <2>2 DEF InsertPage, TypeOK
<1>22. ASSUME NEW f \in Flows, MarkPublished(f) PROVE TypeOK'
  <2>1. flow' \in [Flows -> Launches]
    BY <1>22, StopTyped DEF MarkPublished, TypeOK, Leaves
  <2>2. keys' \in [Browsers -> Templates \union {None}]
    BY <1>22 DEF MarkPublished, TypeOK, Leaves, Forget
  <2>3. draft' \in Drafts
    BY <1>22 DEF MarkPublished, TypeOK, Drafts
  <2> QED
    BY <1>22, <2>1, <2>2, <2>3 DEF MarkPublished, TypeOK, Leaves
<1>23. ASSUME NEW p \in pins, PinArrives(p) PROVE TypeOK'
  <2>1. p.template \in Templates /\ p.flow \in Flows \union {None}
    BY DEF TypeOK
  <2>2. draft' \in Drafts
    BY <1>23, <2>1, PinnedTyped DEF PinArrives, TypeOK
  <2>3. pins' \subseteq [flow : Flows \union {None}, template : Templates]
    BY <1>23 DEF PinArrives, TypeOK
  <2>4. CASE Pinning(p)
    <3>1. p.flow \in Flows
      BY <2>1, <2>4 DEF Pinning
    <3>2. BrowserOf[p.flow] \in Browsers
      BY <3>1, LaunchAssumption
    <3>3. [ui[BrowserOf[p.flow]] EXCEPT !.signing = TRUE, !.pinned = p.template,
                                        !.timer = FALSE] \in Wizards
      BY <2>1, <3>2, WizardPinned DEF TypeOK
    <3>4. ui' \in [Browsers -> Wizards]
      BY <1>23, <2>4, <3>3 DEF PinArrives, TypeOK
    <3>5. flow' \in [Flows -> Launches]
      BY <1>23, <2>4, <3>1, AtTyped DEF PinArrives, TypeOK, Places
    <3> QED
      BY <1>23, <2>2, <2>3, <3>4, <3>5 DEF PinArrives, TypeOK
  <2>5. CASE ~Pinning(p)
    BY <1>23, <2>2, <2>3, <2>5 DEF PinArrives, TypeOK
  <2> QED
    BY <2>4, <2>5
<1>24. ASSUME NEW p \in pins, PinRefused(p) PROVE TypeOK'
  <2>1. flow' \in [Flows -> Launches]
    BY <1>24, StopTyped DEF PinRefused, TypeOK, Pinning
  <2>2. pins' \subseteq [flow : Flows \union {None}, template : Templates]
    BY <1>24 DEF PinRefused, TypeOK
  <2> QED
    BY <1>24, <2>1, <2>2 DEF PinRefused, TypeOK
<1>25. ASSUME NEW p \in pins, PinFails(p) PROVE TypeOK'
  <2>1. draft' \in Drafts
    BY <1>25, PinnedTyped DEF PinFails, TypeOK
  <2>2. pins' \subseteq [flow : Flows \union {None}, template : Templates]
    BY <1>25 DEF PinFails, TypeOK
  <2>3. flow' \in [Flows -> Launches]
    BY <1>25, StopTyped DEF PinFails, TypeOK, Pinning
  <2>4. faults' \in 0..MaxFaults
    BY <1>25, LaunchAssumption DEF PinFails, TypeOK, Fault
  <2> QED
    BY <1>25, <2>1, <2>2, <2>3, <2>4 DEF PinFails, TypeOK
<1>26. ASSUME NEW f \in Flows, LaunchFails(f) PROVE TypeOK'
  <2>1. flow' \in [Flows -> Launches]
    BY <1>26, StopTyped DEF LaunchFails, TypeOK
  <2>2. faults' \in 0..MaxFaults
    BY <1>26, LaunchAssumption DEF LaunchFails, TypeOK, Fault
  <2> QED
    BY <1>26, <2>1, <2>2 DEF LaunchFails, TypeOK
<1>27. CASE Next
  BY <1>27, LaunchSteps, <1>1, <1>2, <1>3, <1>4, <1>5, <1>6, <1>7, <1>8, <1>9, <1>10,
    <1>12, <1>13, <1>14, <1>15, <1>16, <1>17, <1>18, <1>19, <1>20, <1>21, <1>22,
    <1>23, <1>24, <1>25, <1>26, <1>11, Zenon
<1>28. CASE UNCHANGED vars
  BY <1>28 DEF vars, TypeOK
<1> QED
  BY <1>27, <1>28

\* The tables, the requests, the keys and the wizards keep their types.
THEOREM LaunchTypeCorrect == Spec => []TypeOK
BY InitTyped, NextTyped, PTL DEF Spec

\* A request to pin is answered to the launch that has made it, or to nobody.
LEMMA AwaitedStep == FlowTyped /\ PinsAreAwaited /\ [Next]_vars => PinsAreAwaited'
<1> SUFFICES ASSUME FlowTyped /\ PinsAreAwaited, [Next]_vars PROVE PinsAreAwaited'
  OBVIOUS
<1>1. CASE RevealNears
  BY <1>1 DEF RevealNears, FlowTyped, Launches, PinsAreAwaited
<1>2. ASSUME NEW b \in Browsers, Edit(b) PROVE PinsAreAwaited'
  BY <1>2, LaunchAssumption DEF Edit, FlowTyped, Launches, PinsAreAwaited
<1>3. ASSUME NEW b \in Browsers, GoToLaunch(b) PROVE PinsAreAwaited'
  BY <1>3, LaunchAssumption DEF GoToLaunch, FlowTyped, Launches, PinsAreAwaited
<1>4. ASSUME NEW b \in Browsers, BackToReview(b) PROVE PinsAreAwaited'
  BY <1>4, LaunchAssumption DEF BackToReview, FlowTyped, Launches, PinsAreAwaited
<1>5. ASSUME NEW b \in Browsers, Autosave(b) PROVE PinsAreAwaited'
  BY <1>5, LaunchAssumption DEF Autosave, FlowTyped, Launches, PinsAreAwaited
<1>6. ASSUME NEW b \in Browsers, Reload(b) PROVE PinsAreAwaited'
  BY <1>6, LaunchAssumption DEF Reload, Fault, Loaded, Abandoned, NoFlow, In, FlowTyped,
    Launches, PinsAreAwaited
<1>7. ASSUME NEW s \in saves, SaveArrives(s) PROVE PinsAreAwaited'
  BY <1>7, LaunchAssumption DEF SaveArrives, UpsertDraft, FlowTyped, Launches,
    PinsAreAwaited
<1>8. ASSUME NEW s \in saves, SaveFails(s) PROVE PinsAreAwaited'
  BY <1>8, LaunchAssumption DEF SaveFails, Fault, UpsertDraft, NoFlow, FlowTyped,
    Launches, PinsAreAwaited
<1>9. ASSUME NEW f \in Flows, Press(f) PROVE PinsAreAwaited'
  BY <1>9, LaunchAssumption DEF Press, NoFlow, FlowTyped, Launches, PinsAreAwaited
<1>10. ASSUME NEW f \in Flows, ReadKeys(f) PROVE PinsAreAwaited'
  <2> DEFINE stored == keys[StoreOf[BrowserOf[f]]]
  <2>1. CASE stored # None /\ PostPin(f, stored)
    <3>1. UNCHANGED <<draft, page>> /\ flow[f].at = "identity"
      BY <1>10 DEF ReadKeys
    <3> HIDE DEF stored
    <3> QED
      BY <2>1, <3>1, LaunchAssumption DEF PostPin, FlowTyped, Launches, PinsAreAwaited
  <2>2. CASE At(f, "make") /\ UNCHANGED pins
    <3>1. UNCHANGED <<draft, page>> /\ flow[f].at = "identity"
      BY <1>10 DEF ReadKeys
    <3> QED
      BY <2>2, <3>1, LaunchAssumption DEF At, FlowTyped, Launches, PinsAreAwaited
  <2> QED
    BY <1>10, <2>1, <2>2 DEF ReadKeys
<1>11. ASSUME NEW f \in Flows, StartedElsewhere(f) PROVE PinsAreAwaited'
  BY <1>11, LaunchAssumption DEF StartedElsewhere, Stop, NoFlow, FlowTyped, Launches,
    PinsAreAwaited
<1>12. ASSUME NEW f \in Flows, WriteKeys(f) PROVE PinsAreAwaited'
  BY <1>12, LaunchAssumption DEF WriteKeys, PostPin, FlowTyped, Launches, PinsAreAwaited
<1>13. ASSUME NEW f \in Flows, CreateMint(f) PROVE PinsAreAwaited'
  BY <1>13, LaunchAssumption DEF CreateMint, FlowTyped, Launches, PinsAreAwaited
<1>14. ASSUME NEW f \in Flows, StageBundles(f) PROVE PinsAreAwaited'
  BY <1>14, LaunchAssumption DEF StageBundles, FlowTyped, Launches, PinsAreAwaited
<1>15. ASSUME NEW f \in Flows, SealTemplate(f) PROVE PinsAreAwaited'
  BY <1>15, LaunchAssumption DEF SealTemplate, FlowTyped, Launches, PinsAreAwaited
<1>16. ASSUME NEW f \in Flows, TemplateIsLive(f) PROVE PinsAreAwaited'
  BY <1>16, LaunchAssumption DEF TemplateIsLive, At, FlowTyped, Launches, PinsAreAwaited
<1>17. ASSUME NEW f \in Flows, SavedBundleDiffers(f) PROVE PinsAreAwaited'
  BY <1>17, LaunchAssumption DEF SavedBundleDiffers, Stop, NoFlow, FlowTyped, Launches,
    PinsAreAwaited
<1>18. ASSUME NEW f \in Flows, ReadDraft(f) PROVE PinsAreAwaited'
  BY <1>18, LaunchAssumption DEF ReadDraft, MayPublish, FlowTyped, Launches,
    PinsAreAwaited
<1>19. ASSUME NEW f \in Flows, PageExists(f) PROVE PinsAreAwaited'
  BY <1>19, LaunchAssumption DEF PageExists, Leaves, Stop, NoFlow, FlowTyped, Launches,
    PinsAreAwaited
<1>20. ASSUME NEW f \in Flows, PublishRefused(f) PROVE PinsAreAwaited'
  BY <1>20, LaunchAssumption DEF PublishRefused, Stop, NoFlow, FlowTyped, Launches,
    PinsAreAwaited
<1>21. ASSUME NEW f \in Flows, InsertPage(f) PROVE PinsAreAwaited'
  BY <1>21, LaunchAssumption DEF InsertPage, At, Stop, NoFlow, FlowTyped, Launches,
    PinsAreAwaited
<1>22. ASSUME NEW f \in Flows, MarkPublished(f) PROVE PinsAreAwaited'
  BY <1>22, LaunchAssumption DEF MarkPublished, Leaves, Stop, NoFlow, FlowTyped,
    Launches, PinsAreAwaited
<1>23. ASSUME NEW f \in Flows, LaunchFails(f) PROVE PinsAreAwaited'
  BY <1>23, LaunchAssumption DEF LaunchFails, Fault, Stop, NoFlow, FlowTyped, Launches,
    PinsAreAwaited
<1>24. ASSUME NEW p \in pins, PinArrives(p) PROVE PinsAreAwaited'
  BY <1>24, LaunchAssumption DEF PinArrives, Pinned, Pinning, MayPin, At, FlowTyped,
    Launches, PinsAreAwaited
<1>25. ASSUME NEW p \in pins, PinRefused(p) PROVE PinsAreAwaited'
  BY <1>25, LaunchAssumption DEF PinRefused, Pinning, Stop, NoFlow, FlowTyped, Launches,
    PinsAreAwaited
<1>26. ASSUME NEW p \in pins, PinFails(p) PROVE PinsAreAwaited'
  BY <1>26, LaunchAssumption DEF PinFails, Fault, Pinned, Pinning, MayPin, Stop, NoFlow,
    FlowTyped, Launches, PinsAreAwaited
<1>27. CASE Next
  BY <1>27, LaunchSteps, <1>1, <1>2, <1>3, <1>4, <1>5, <1>6, <1>7, <1>8, <1>9, <1>10,
    <1>11, <1>12, <1>13, <1>14, <1>15, <1>16, <1>17, <1>18, <1>19, <1>20, <1>21, <1>22,
    <1>23, <1>24, <1>25, <1>26, Zenon
<1>28. CASE UNCHANGED vars
  BY <1>28 DEF vars, FlowTyped, Launches, PinsAreAwaited
<1> QED
  BY <1>27, <1>28

\* Only an identity that is being edited, or the same one, is pinned.
LEMMA PinnedStep == FlowTyped /\ FlowsArePinned /\ BuiltIsPinned /\ PinsAreAwaited /\ [Next]_vars => FlowsArePinned'
<1> SUFFICES ASSUME FlowTyped /\ FlowsArePinned /\ BuiltIsPinned /\ PinsAreAwaited, [Next]_vars PROVE FlowsArePinned'
  OBVIOUS
<1>1. CASE RevealNears
  BY <1>1 DEF RevealNears, FlowTyped, Launches, Drafts, FlowsArePinned, PinsAreAwaited, Working
<1>2. ASSUME NEW b \in Browsers, Edit(b) PROVE FlowsArePinned'
  BY <1>2, LaunchAssumption DEF Edit, FlowTyped, Launches, Drafts, FlowsArePinned,
    PinsAreAwaited, Working
<1>3. ASSUME NEW b \in Browsers, GoToLaunch(b) PROVE FlowsArePinned'
  BY <1>3, LaunchAssumption DEF GoToLaunch, FlowTyped, Launches, Drafts, FlowsArePinned,
    PinsAreAwaited, Working
<1>4. ASSUME NEW b \in Browsers, BackToReview(b) PROVE FlowsArePinned'
  BY <1>4, LaunchAssumption DEF BackToReview, FlowTyped, Launches, Drafts,
    FlowsArePinned, PinsAreAwaited, Working
<1>5. ASSUME NEW b \in Browsers, Autosave(b) PROVE FlowsArePinned'
  BY <1>5, LaunchAssumption DEF Autosave, FlowTyped, Launches, Drafts, FlowsArePinned,
    PinsAreAwaited, Working
<1>6. ASSUME NEW b \in Browsers, Reload(b) PROVE FlowsArePinned'
  BY <1>6, LaunchAssumption DEF Reload, Fault, Loaded, Abandoned, NoFlow, In, FlowTyped,
    Launches, Drafts, FlowsArePinned, PinsAreAwaited, Working
<1>7. ASSUME NEW s \in saves, SaveArrives(s) PROVE FlowsArePinned'
  BY <1>7, LaunchAssumption DEF SaveArrives, UpsertDraft, FlowTyped, Launches, Drafts,
    FlowsArePinned, PinsAreAwaited, Working
<1>8. ASSUME NEW s \in saves, SaveFails(s) PROVE FlowsArePinned'
  BY <1>8, LaunchAssumption DEF SaveFails, Fault, UpsertDraft, NoFlow, FlowTyped,
    Launches, Drafts, FlowsArePinned, PinsAreAwaited, Working
<1>9. ASSUME NEW f \in Flows, Press(f) PROVE FlowsArePinned'
  BY <1>9, LaunchAssumption DEF Press, NoFlow, FlowTyped, Launches, Drafts,
    FlowsArePinned, PinsAreAwaited, Working
<1>10. ASSUME NEW f \in Flows, ReadKeys(f) PROVE FlowsArePinned'
  <2> DEFINE stored == keys[StoreOf[BrowserOf[f]]]
  <2>1. CASE stored # None /\ PostPin(f, stored)
    <3>1. UNCHANGED <<draft, page>> /\ flow[f].at = "identity"
      BY <1>10 DEF ReadKeys
    <3> HIDE DEF stored
    <3> QED
      BY <2>1, <3>1, LaunchAssumption DEF PostPin, FlowTyped, Launches, FlowsArePinned, Working
  <2>2. CASE At(f, "make") /\ UNCHANGED pins
    <3>1. UNCHANGED <<draft, page>> /\ flow[f].at = "identity"
      BY <1>10 DEF ReadKeys
    <3> QED
      BY <2>2, <3>1, LaunchAssumption DEF At, FlowTyped, Launches, FlowsArePinned, Working
  <2> QED
    BY <1>10, <2>1, <2>2 DEF ReadKeys
<1>11. ASSUME NEW f \in Flows, StartedElsewhere(f) PROVE FlowsArePinned'
  BY <1>11, LaunchAssumption DEF StartedElsewhere, Stop, NoFlow, FlowTyped, Launches,
    Drafts, FlowsArePinned, PinsAreAwaited, Working
<1>12. ASSUME NEW f \in Flows, WriteKeys(f) PROVE FlowsArePinned'
  BY <1>12, LaunchAssumption DEF WriteKeys, PostPin, FlowTyped, Launches, Drafts,
    FlowsArePinned, PinsAreAwaited, Working
<1>13. ASSUME NEW f \in Flows, CreateMint(f) PROVE FlowsArePinned'
  BY <1>13, LaunchAssumption DEF CreateMint, FlowTyped, Launches, Drafts, FlowsArePinned,
    PinsAreAwaited, Working
<1>14. ASSUME NEW f \in Flows, StageBundles(f) PROVE FlowsArePinned'
  BY <1>14, LaunchAssumption DEF StageBundles, FlowTyped, Launches, Drafts,
    FlowsArePinned, PinsAreAwaited, Working
<1>15. ASSUME NEW f \in Flows, SealTemplate(f) PROVE FlowsArePinned'
  BY <1>15, LaunchAssumption DEF SealTemplate, FlowTyped, Launches, Drafts,
    FlowsArePinned, PinsAreAwaited, Working
<1>16. ASSUME NEW f \in Flows, TemplateIsLive(f) PROVE FlowsArePinned'
  BY <1>16, LaunchAssumption DEF TemplateIsLive, At, FlowTyped, Launches, Drafts,
    FlowsArePinned, PinsAreAwaited, Working
<1>17. ASSUME NEW f \in Flows, SavedBundleDiffers(f) PROVE FlowsArePinned'
  BY <1>17, LaunchAssumption DEF SavedBundleDiffers, Stop, NoFlow, FlowTyped, Launches,
    Drafts, FlowsArePinned, PinsAreAwaited, Working
<1>18. ASSUME NEW f \in Flows, ReadDraft(f) PROVE FlowsArePinned'
  BY <1>18, LaunchAssumption DEF ReadDraft, MayPublish, FlowTyped, Launches, Drafts,
    FlowsArePinned, PinsAreAwaited, Working
<1>19. ASSUME NEW f \in Flows, PageExists(f) PROVE FlowsArePinned'
  BY <1>19, LaunchAssumption DEF PageExists, Leaves, Stop, NoFlow, FlowTyped, Launches,
    Drafts, FlowsArePinned, PinsAreAwaited, Working
<1>20. ASSUME NEW f \in Flows, PublishRefused(f) PROVE FlowsArePinned'
  BY <1>20, LaunchAssumption DEF PublishRefused, Stop, NoFlow, FlowTyped, Launches,
    Drafts, FlowsArePinned, PinsAreAwaited, Working
<1>21. ASSUME NEW f \in Flows, InsertPage(f) PROVE FlowsArePinned'
  BY <1>21, LaunchAssumption DEF InsertPage, At, Stop, NoFlow, FlowTyped, Launches,
    Drafts, FlowsArePinned, PinsAreAwaited, Working
<1>22. ASSUME NEW f \in Flows, MarkPublished(f) PROVE FlowsArePinned'
  BY <1>22, LaunchAssumption DEF MarkPublished, Leaves, Stop, NoFlow, FlowTyped,
    Launches, Drafts, FlowsArePinned, PinsAreAwaited, Working
<1>23. ASSUME NEW f \in Flows, LaunchFails(f) PROVE FlowsArePinned'
  BY <1>23, LaunchAssumption DEF LaunchFails, Fault, Stop, NoFlow, FlowTyped, Launches,
    Drafts, FlowsArePinned, PinsAreAwaited, Working
<1>24. ASSUME NEW p \in pins, PinArrives(p) PROVE FlowsArePinned'
  BY <1>24, LaunchAssumption DEF PinArrives, Pinned, Pinning, MayPin, At, FlowTyped,
    Launches, Drafts, FlowsArePinned, PinsAreAwaited, Working
<1>25. ASSUME NEW p \in pins, PinRefused(p) PROVE FlowsArePinned'
  BY <1>25, LaunchAssumption DEF PinRefused, Pinning, Stop, NoFlow, FlowTyped, Launches,
    Drafts, FlowsArePinned, PinsAreAwaited, Working
<1>26. ASSUME NEW p \in pins, PinFails(p) PROVE FlowsArePinned'
  <2>1. \A g \in Flows : flow'[g].at \in Working =>
          flow[g].at \in Working /\ flow'[g].template = flow[g].template
    BY <1>26 DEF PinFails, Stop, NoFlow, FlowTyped, Launches, Working
  <2>2. CASE UNCHANGED draft
    BY <2>1, <2>2, Zenon DEF FlowsArePinned
  <2>3. CASE MayPin(p.template) /\ draft' = Pinned(p.template)
    BY <2>1, <2>3 DEF MayPin, Pinned, FlowTyped, Drafts, FlowsArePinned
  <2> QED
    BY <1>26, <2>2, <2>3, Zenon DEF PinFails
<1>27. CASE Next
  BY <1>27, LaunchSteps, <1>1, <1>2, <1>3, <1>4, <1>5, <1>6, <1>7, <1>8, <1>9, <1>10,
    <1>11, <1>12, <1>13, <1>14, <1>15, <1>16, <1>17, <1>18, <1>19, <1>20, <1>21, <1>22,
    <1>23, <1>24, <1>25, <1>26, Zenon
<1>28. CASE UNCHANGED vars
  BY <1>28 DEF vars, FlowTyped, Launches, Drafts, FlowsArePinned, PinsAreAwaited, Working
<1> QED
  BY <1>27, <1>28

\* Only a launch that is pinned builds.
LEMMA BuiltStep == FlowTyped /\ FlowsArePinned /\ BuiltIsPinned /\ PinsAreAwaited /\ [Next]_vars => BuiltIsPinned'
<1> SUFFICES ASSUME FlowTyped /\ FlowsArePinned /\ BuiltIsPinned /\ PinsAreAwaited, [Next]_vars PROVE BuiltIsPinned'
  OBVIOUS
<1>1. CASE RevealNears
  BY <1>1 DEF RevealNears, FlowTyped, Drafts, FlowsArePinned, BuiltIsPinned, Working
<1>2. ASSUME NEW b \in Browsers, Edit(b) PROVE BuiltIsPinned'
  BY <1>2, LaunchAssumption DEF Edit, FlowTyped, Drafts, FlowsArePinned, BuiltIsPinned,
    Working
<1>3. ASSUME NEW b \in Browsers, GoToLaunch(b) PROVE BuiltIsPinned'
  BY <1>3, LaunchAssumption DEF GoToLaunch, FlowTyped, Drafts, FlowsArePinned,
    BuiltIsPinned, Working
<1>4. ASSUME NEW b \in Browsers, BackToReview(b) PROVE BuiltIsPinned'
  BY <1>4, LaunchAssumption DEF BackToReview, FlowTyped, Drafts, FlowsArePinned,
    BuiltIsPinned, Working
<1>5. ASSUME NEW b \in Browsers, Autosave(b) PROVE BuiltIsPinned'
  BY <1>5, LaunchAssumption DEF Autosave, FlowTyped, Drafts, FlowsArePinned,
    BuiltIsPinned, Working
<1>6. ASSUME NEW b \in Browsers, Reload(b) PROVE BuiltIsPinned'
  BY <1>6, LaunchAssumption DEF Reload, Fault, Loaded, Abandoned, NoFlow, In, FlowTyped,
    Drafts, FlowsArePinned, BuiltIsPinned, Working
<1>7. ASSUME NEW s \in saves, SaveArrives(s) PROVE BuiltIsPinned'
  BY <1>7, LaunchAssumption DEF SaveArrives, UpsertDraft, FlowTyped, Drafts,
    FlowsArePinned, BuiltIsPinned, Working
<1>8. ASSUME NEW s \in saves, SaveFails(s) PROVE BuiltIsPinned'
  BY <1>8, LaunchAssumption DEF SaveFails, Fault, UpsertDraft, NoFlow, FlowTyped, Drafts,
    FlowsArePinned, BuiltIsPinned, Working
<1>9. ASSUME NEW f \in Flows, Press(f) PROVE BuiltIsPinned'
  BY <1>9, LaunchAssumption DEF Press, NoFlow, FlowTyped, Drafts, FlowsArePinned,
    BuiltIsPinned, Working
<1>10. ASSUME NEW f \in Flows, ReadKeys(f) PROVE BuiltIsPinned'
  BY <1>10, LaunchAssumption DEF ReadKeys, At, PostPin, FlowTyped, Drafts, FlowsArePinned,
    BuiltIsPinned, Working
<1>11. ASSUME NEW f \in Flows, StartedElsewhere(f) PROVE BuiltIsPinned'
  BY <1>11, LaunchAssumption DEF StartedElsewhere, Stop, NoFlow, FlowTyped, Drafts,
    FlowsArePinned, BuiltIsPinned, Working
<1>12. ASSUME NEW f \in Flows, WriteKeys(f) PROVE BuiltIsPinned'
  BY <1>12, LaunchAssumption DEF WriteKeys, PostPin, FlowTyped, Drafts, FlowsArePinned,
    BuiltIsPinned, Working
<1>13. ASSUME NEW f \in Flows, CreateMint(f) PROVE BuiltIsPinned'
  BY <1>13, LaunchAssumption DEF CreateMint, FlowTyped, Drafts, FlowsArePinned,
    BuiltIsPinned, Working
<1>14. ASSUME NEW f \in Flows, StageBundles(f) PROVE BuiltIsPinned'
  BY <1>14, LaunchAssumption DEF StageBundles, FlowTyped, Drafts, FlowsArePinned,
    BuiltIsPinned, Working
<1>15. ASSUME NEW f \in Flows, SealTemplate(f) PROVE BuiltIsPinned'
  BY <1>15, LaunchAssumption DEF SealTemplate, FlowTyped, Drafts, FlowsArePinned,
    BuiltIsPinned, Working
<1>16. ASSUME NEW f \in Flows, TemplateIsLive(f) PROVE BuiltIsPinned'
  BY <1>16, LaunchAssumption DEF TemplateIsLive, At, FlowTyped, Drafts, FlowsArePinned,
    BuiltIsPinned, Working
<1>17. ASSUME NEW f \in Flows, SavedBundleDiffers(f) PROVE BuiltIsPinned'
  BY <1>17, LaunchAssumption DEF SavedBundleDiffers, Stop, NoFlow, FlowTyped, Drafts,
    FlowsArePinned, BuiltIsPinned, Working
<1>18. ASSUME NEW f \in Flows, ReadDraft(f) PROVE BuiltIsPinned'
  BY <1>18, LaunchAssumption DEF ReadDraft, MayPublish, FlowTyped, Drafts,
    FlowsArePinned, BuiltIsPinned, Working
<1>19. ASSUME NEW f \in Flows, PageExists(f) PROVE BuiltIsPinned'
  BY <1>19, LaunchAssumption DEF PageExists, Leaves, Stop, NoFlow, FlowTyped, Drafts,
    FlowsArePinned, BuiltIsPinned, Working
<1>20. ASSUME NEW f \in Flows, PublishRefused(f) PROVE BuiltIsPinned'
  BY <1>20, LaunchAssumption DEF PublishRefused, Stop, NoFlow, FlowTyped, Drafts,
    FlowsArePinned, BuiltIsPinned, Working
<1>21. ASSUME NEW f \in Flows, InsertPage(f) PROVE BuiltIsPinned'
  BY <1>21, LaunchAssumption DEF InsertPage, At, Stop, NoFlow, FlowTyped, Drafts,
    FlowsArePinned, BuiltIsPinned, Working
<1>22. ASSUME NEW f \in Flows, MarkPublished(f) PROVE BuiltIsPinned'
  BY <1>22, LaunchAssumption DEF MarkPublished, Leaves, Stop, NoFlow, FlowTyped, Drafts,
    FlowsArePinned, BuiltIsPinned, Working
<1>23. ASSUME NEW f \in Flows, LaunchFails(f) PROVE BuiltIsPinned'
  BY <1>23, LaunchAssumption DEF LaunchFails, Fault, Stop, NoFlow, FlowTyped, Drafts,
    FlowsArePinned, BuiltIsPinned, Working
<1>24. ASSUME NEW p \in pins, PinArrives(p) PROVE BuiltIsPinned'
  BY <1>24, LaunchAssumption DEF PinArrives, Pinned, Pinning, MayPin, At, FlowTyped,
    Drafts, FlowsArePinned, BuiltIsPinned, Working
<1>25. ASSUME NEW p \in pins, PinRefused(p) PROVE BuiltIsPinned'
  BY <1>25, LaunchAssumption DEF PinRefused, Pinning, Stop, NoFlow, FlowTyped, Drafts,
    FlowsArePinned, BuiltIsPinned, Working
<1>26. ASSUME NEW p \in pins, PinFails(p) PROVE BuiltIsPinned'
  BY <1>26, LaunchAssumption DEF PinFails, Fault, Pinned, Pinning, MayPin, Stop, NoFlow,
    FlowTyped, Drafts, FlowsArePinned, BuiltIsPinned, Working
<1>27. CASE Next
  BY <1>27, LaunchSteps, <1>1, <1>2, <1>3, <1>4, <1>5, <1>6, <1>7, <1>8, <1>9, <1>10,
    <1>11, <1>12, <1>13, <1>14, <1>15, <1>16, <1>17, <1>18, <1>19, <1>20, <1>21, <1>22,
    <1>23, <1>24, <1>25, <1>26, Zenon
<1>28. CASE UNCHANGED vars
  BY <1>28 DEF vars, FlowTyped, Drafts, FlowsArePinned, BuiltIsPinned, Working
<1> QED
  BY <1>27, <1>28

\* A launch marks the draft when it has inserted the page.
LEMMA MarksStep == FlowTyped /\ FlowsArePinned /\ MarksHavePages /\ [Next]_vars => MarksHavePages'
<1> SUFFICES ASSUME FlowTyped /\ FlowsArePinned /\ MarksHavePages, [Next]_vars PROVE MarksHavePages'
  OBVIOUS
<1>1. CASE RevealNears
  BY <1>1 DEF RevealNears, FlowTyped, Launches, FlowsArePinned, MarksHavePages, Working
<1>2. ASSUME NEW b \in Browsers, Edit(b) PROVE MarksHavePages'
  BY <1>2, LaunchAssumption DEF Edit, FlowTyped, Launches, FlowsArePinned,
    MarksHavePages, Working
<1>3. ASSUME NEW b \in Browsers, GoToLaunch(b) PROVE MarksHavePages'
  BY <1>3, LaunchAssumption DEF GoToLaunch, FlowTyped, Launches, FlowsArePinned,
    MarksHavePages, Working
<1>4. ASSUME NEW b \in Browsers, BackToReview(b) PROVE MarksHavePages'
  BY <1>4, LaunchAssumption DEF BackToReview, FlowTyped, Launches, FlowsArePinned,
    MarksHavePages, Working
<1>5. ASSUME NEW b \in Browsers, Autosave(b) PROVE MarksHavePages'
  BY <1>5, LaunchAssumption DEF Autosave, FlowTyped, Launches, FlowsArePinned,
    MarksHavePages, Working
<1>6. ASSUME NEW b \in Browsers, Reload(b) PROVE MarksHavePages'
  BY <1>6, LaunchAssumption DEF Reload, Fault, Loaded, Abandoned, NoFlow, In, FlowTyped,
    Launches, FlowsArePinned, MarksHavePages, Working
<1>7. ASSUME NEW s \in saves, SaveArrives(s) PROVE MarksHavePages'
  BY <1>7, LaunchAssumption DEF SaveArrives, UpsertDraft, FlowTyped, Launches,
    FlowsArePinned, MarksHavePages, Working
<1>8. ASSUME NEW s \in saves, SaveFails(s) PROVE MarksHavePages'
  BY <1>8, LaunchAssumption DEF SaveFails, Fault, UpsertDraft, NoFlow, FlowTyped,
    Launches, FlowsArePinned, MarksHavePages, Working
<1>9. ASSUME NEW f \in Flows, Press(f) PROVE MarksHavePages'
  BY <1>9, LaunchAssumption DEF Press, NoFlow, FlowTyped, Launches, FlowsArePinned,
    MarksHavePages, Working
<1>10. ASSUME NEW f \in Flows, ReadKeys(f) PROVE MarksHavePages'
  BY <1>10, LaunchAssumption DEF ReadKeys, At, PostPin, FlowTyped, Launches,
    FlowsArePinned, MarksHavePages, Working
<1>11. ASSUME NEW f \in Flows, StartedElsewhere(f) PROVE MarksHavePages'
  BY <1>11, LaunchAssumption DEF StartedElsewhere, Stop, NoFlow, FlowTyped, Launches,
    FlowsArePinned, MarksHavePages, Working
<1>12. ASSUME NEW f \in Flows, WriteKeys(f) PROVE MarksHavePages'
  BY <1>12, LaunchAssumption DEF WriteKeys, PostPin, FlowTyped, Launches, FlowsArePinned,
    MarksHavePages, Working
<1>13. ASSUME NEW f \in Flows, CreateMint(f) PROVE MarksHavePages'
  BY <1>13, LaunchAssumption DEF CreateMint, FlowTyped, Launches, FlowsArePinned,
    MarksHavePages, Working
<1>14. ASSUME NEW f \in Flows, StageBundles(f) PROVE MarksHavePages'
  BY <1>14, LaunchAssumption DEF StageBundles, FlowTyped, Launches, FlowsArePinned,
    MarksHavePages, Working
<1>15. ASSUME NEW f \in Flows, SealTemplate(f) PROVE MarksHavePages'
  BY <1>15, LaunchAssumption DEF SealTemplate, FlowTyped, Launches, FlowsArePinned,
    MarksHavePages, Working
<1>16. ASSUME NEW f \in Flows, TemplateIsLive(f) PROVE MarksHavePages'
  BY <1>16, LaunchAssumption DEF TemplateIsLive, At, FlowTyped, Launches, FlowsArePinned,
    MarksHavePages, Working
<1>17. ASSUME NEW f \in Flows, SavedBundleDiffers(f) PROVE MarksHavePages'
  BY <1>17, LaunchAssumption DEF SavedBundleDiffers, Stop, NoFlow, FlowTyped, Launches,
    FlowsArePinned, MarksHavePages, Working
<1>18. ASSUME NEW f \in Flows, ReadDraft(f) PROVE MarksHavePages'
  BY <1>18, LaunchAssumption DEF ReadDraft, MayPublish, FlowTyped, Launches,
    FlowsArePinned, MarksHavePages, Working
<1>19. ASSUME NEW f \in Flows, PageExists(f) PROVE MarksHavePages'
  BY <1>19, LaunchAssumption DEF PageExists, Leaves, Stop, NoFlow, FlowTyped, Launches,
    FlowsArePinned, MarksHavePages, Working
<1>20. ASSUME NEW f \in Flows, PublishRefused(f) PROVE MarksHavePages'
  BY <1>20, LaunchAssumption DEF PublishRefused, Stop, NoFlow, FlowTyped, Launches,
    FlowsArePinned, MarksHavePages, Working
<1>21. ASSUME NEW f \in Flows, InsertPage(f) PROVE MarksHavePages'
  <2>1. CASE page.template = None
    <3>1. page' = [template |-> flow[f].template, data |-> flow[f].read]
      BY <1>21, <2>1 DEF InsertPage
    <3>2. flow[f].template \in Templates
      BY <1>21 DEF InsertPage, FlowsArePinned, Working
    <3>3. page'.template # None
      BY <3>1, <3>2, LaunchAssumption DEF Templates
    <3> QED
      BY <3>3 DEF MarksHavePages
  <2>2. CASE page.template # None
    BY <1>21, <2>2 DEF InsertPage, MarksHavePages
  <2> QED
    BY <2>1, <2>2
<1>22. ASSUME NEW f \in Flows, MarkPublished(f) PROVE MarksHavePages'
  BY <1>22, LaunchAssumption DEF MarkPublished, Leaves, Stop, NoFlow, FlowTyped,
    Launches, FlowsArePinned, MarksHavePages, Working
<1>23. ASSUME NEW f \in Flows, LaunchFails(f) PROVE MarksHavePages'
  BY <1>23, LaunchAssumption DEF LaunchFails, Fault, Stop, NoFlow, FlowTyped, Launches,
    FlowsArePinned, MarksHavePages, Working
<1>24. ASSUME NEW p \in pins, PinArrives(p) PROVE MarksHavePages'
  BY <1>24, LaunchAssumption DEF PinArrives, Pinned, Pinning, MayPin, At, FlowTyped,
    Launches, FlowsArePinned, MarksHavePages, Working
<1>25. ASSUME NEW p \in pins, PinRefused(p) PROVE MarksHavePages'
  BY <1>25, LaunchAssumption DEF PinRefused, Pinning, Stop, NoFlow, FlowTyped, Launches,
    FlowsArePinned, MarksHavePages, Working
<1>26. ASSUME NEW p \in pins, PinFails(p) PROVE MarksHavePages'
  BY <1>26, LaunchAssumption DEF PinFails, Fault, Pinned, Pinning, MayPin, Stop, NoFlow,
    FlowTyped, Launches, FlowsArePinned, MarksHavePages, Working
<1>27. CASE Next
  BY <1>27, LaunchSteps, <1>1, <1>2, <1>3, <1>4, <1>5, <1>6, <1>7, <1>8, <1>9, <1>10,
    <1>11, <1>12, <1>13, <1>14, <1>15, <1>16, <1>17, <1>18, <1>19, <1>20, <1>21, <1>22,
    <1>23, <1>24, <1>25, <1>26, Zenon
<1>28. CASE UNCHANGED vars
  BY <1>28 DEF vars, FlowTyped, Launches, FlowsArePinned, MarksHavePages, Working
<1> QED
  BY <1>27, <1>28

LEMMA InitInv == Init => Inv
BY LaunchAssumption DEF Init, Inv, FlowsArePinned, BuiltIsPinned, PinsAreAwaited,
  MarksHavePages, NoFlow, Working

LEMMA InvHolds == Spec => []Inv
<1>1. TypeOK => FlowTyped
  BY DEF TypeOK, FlowTyped
<1>2. TypeOK /\ Inv /\ [Next]_vars => Inv'
  BY <1>1, AwaitedStep, PinnedStep, BuiltStep, MarksStep, Zenon DEF Inv
<1> QED
  BY InitInv, LaunchTypeCorrect, <1>2, PTL DEF Spec

\* Whatever browsers do at the same time, and whatever requests and answers are
\* lost, a treasury that has begun on the chain is the one the draft names:
\* markDraftSigning comes before the first transaction and is never undone.
THEOREM OneTreasury == Spec => []TreasuryIsPinned
<1>1. Inv => TreasuryIsPinned
  BY DEF Inv, BuiltIsPinned, TreasuryIsPinned
<1> QED
  BY InvHolds, <1>1, PTL

-----------------------------------------------------------------------------
(* The keys of the pinned template, when launches take turns.              *)

\* A step that writes no keys, pins nothing and asks for nothing new.
KeepsKeys ==
  /\ UNCHANGED keys
  /\ page.template # None => page'.template # None
  /\ draft'.template = draft.template
  /\ \A p \in pins' : \E q \in pins : q.template = p.template
  /\ \A f \in Flows : flow'[f].at = "make" => flow[f].at = "make"

LEMMA KeysKept ==
  ASSUME NewKeysFit, PinsAreHeld, KeepsKeys
  PROVE  NewKeysFit' /\ PinsAreHeld'
<1>1. \A t : Held(t) => Held(t)'
  BY DEF KeepsKeys, Held
<1>2. NewKeysFit'
  BY DEF KeepsKeys, NewKeysFit
<1>3. PinsAreHeld'
  BY <1>1 DEF KeepsKeys, PinsAreHeld
<1> QED
  BY <1>2, <1>3

LEMMA QuietKeys ==
  ASSUME FlowTyped,
         \/ RevealNears
         \/ \E b \in Browsers : \/ Edit(b) \/ GoToLaunch(b) \/ BackToReview(b)
                                \/ Autosave(b) \/ Reload(b)
         \/ \E s \in saves : SaveArrives(s) \/ SaveFails(s)
         \/ \E p \in pins : PinRefused(p)
         \/ \E f \in Flows : \/ Press(f) \/ StartedElsewhere(f)
              \/ CreateMint(f) \/ StageBundles(f) \/ SealTemplate(f)
              \/ TemplateIsLive(f) \/ SavedBundleDiffers(f) \/ ReadDraft(f)
              \/ PublishRefused(f) \/ InsertPage(f) \/ LaunchFails(f)
  PROVE  KeepsKeys
<1>1. CASE RevealNears
  BY <1>1 DEF RevealNears, KeepsKeys
<1>2. ASSUME NEW b \in Browsers, Edit(b) PROVE KeepsKeys
  BY <1>2 DEF Edit, FlowTyped, Launches, Drafts, KeepsKeys
<1>3. ASSUME NEW b \in Browsers, GoToLaunch(b) PROVE KeepsKeys
  BY <1>3 DEF GoToLaunch, FlowTyped, Launches, Drafts, KeepsKeys
<1>4. ASSUME NEW b \in Browsers, BackToReview(b) PROVE KeepsKeys
  BY <1>4 DEF BackToReview, FlowTyped, Launches, Drafts, KeepsKeys
<1>5. ASSUME NEW b \in Browsers, Autosave(b) PROVE KeepsKeys
  BY <1>5 DEF Autosave, FlowTyped, Launches, Drafts, KeepsKeys
<1>6. ASSUME NEW b \in Browsers, Reload(b) PROVE KeepsKeys
  BY <1>6 DEF Reload, Fault, Loaded, Abandoned, NoFlow, In, FlowTyped, Launches, Drafts,
    KeepsKeys
<1>7. ASSUME NEW s \in saves, SaveArrives(s) PROVE KeepsKeys
  BY <1>7 DEF SaveArrives, UpsertDraft, FlowTyped, Launches, Drafts, KeepsKeys
<1>8. ASSUME NEW s \in saves, SaveFails(s) PROVE KeepsKeys
  BY <1>8 DEF SaveFails, Fault, UpsertDraft, NoFlow, FlowTyped, Launches, Drafts,
    KeepsKeys
<1>9. ASSUME NEW f \in Flows, Press(f) PROVE KeepsKeys
  BY <1>9 DEF Press, NoFlow, FlowTyped, Launches, Drafts, KeepsKeys
<1>10. ASSUME NEW f \in Flows, StartedElsewhere(f) PROVE KeepsKeys
  BY <1>10 DEF StartedElsewhere, Stop, NoFlow, FlowTyped, Launches, Drafts, KeepsKeys
<1>11. ASSUME NEW f \in Flows, CreateMint(f) PROVE KeepsKeys
  BY <1>11 DEF CreateMint, FlowTyped, Launches, Drafts, KeepsKeys
<1>12. ASSUME NEW f \in Flows, StageBundles(f) PROVE KeepsKeys
  BY <1>12 DEF StageBundles, FlowTyped, Launches, Drafts, KeepsKeys
<1>13. ASSUME NEW f \in Flows, SealTemplate(f) PROVE KeepsKeys
  BY <1>13 DEF SealTemplate, FlowTyped, Launches, Drafts, KeepsKeys
<1>14. ASSUME NEW f \in Flows, TemplateIsLive(f) PROVE KeepsKeys
  BY <1>14 DEF TemplateIsLive, At, FlowTyped, Launches, Drafts, KeepsKeys
<1>15. ASSUME NEW f \in Flows, SavedBundleDiffers(f) PROVE KeepsKeys
  BY <1>15 DEF SavedBundleDiffers, Stop, NoFlow, FlowTyped, Launches, Drafts, KeepsKeys
<1>16. ASSUME NEW f \in Flows, ReadDraft(f) PROVE KeepsKeys
  BY <1>16 DEF ReadDraft, MayPublish, FlowTyped, Launches, Drafts, KeepsKeys
<1>17. ASSUME NEW f \in Flows, PublishRefused(f) PROVE KeepsKeys
  BY <1>17 DEF PublishRefused, Stop, NoFlow, FlowTyped, Launches, Drafts, KeepsKeys
<1>18. ASSUME NEW f \in Flows, InsertPage(f) PROVE KeepsKeys
  BY <1>18 DEF InsertPage, At, Stop, NoFlow, FlowTyped, Launches, Drafts, KeepsKeys
<1>19. ASSUME NEW f \in Flows, LaunchFails(f) PROVE KeepsKeys
  BY <1>19 DEF LaunchFails, Fault, Stop, NoFlow, FlowTyped, Launches, Drafts, KeepsKeys
<1>20. ASSUME NEW p \in pins, PinRefused(p) PROVE KeepsKeys
  BY <1>20 DEF PinRefused, Pinning, Stop, NoFlow, FlowTyped, Launches, Drafts, KeepsKeys
<1> QED
  BY <1>1, <1>2, <1>3, <1>4, <1>5, <1>6, <1>7, <1>8, <1>9, <1>10, <1>11, <1>12, <1>13,
    <1>14, <1>15, <1>16, <1>17, <1>18, <1>19, <1>20, Zenon

\* What is stored is used, and new keys are written where there are none.
LEMMA ReadKeysKeeps ==
  ASSUME TypeOK, NewKeysFit, PinsAreHeld, NEW f \in Flows, ReadKeys(f)
  PROVE  NewKeysFit' /\ PinsAreHeld'
<1> DEFINE stored == keys[StoreOf[BrowserOf[f]]]
<1>1. UNCHANGED <<draft, page, keys>> /\ flow \in [Flows -> Launches]
  BY DEF ReadKeys, TypeOK
<1>2. BrowserOf[f] \in Browsers
  BY LaunchAssumption
<1>3. \A t : Held(t) => Held(t)'
  BY <1>1 DEF Held
<1>4. CASE stored # None /\ PostPin(f, stored)
  <2>1. Held(stored)
    BY <1>2 DEF Held
  <2>2. flow'[f].at = "pin" /\ \A g \in Flows \ {f} : flow'[g] = flow[g]
    BY <1>1, <1>4 DEF PostPin, Launches
  <2>3. pins' = pins \union {[flow |-> f, template |-> stored]}
    BY <1>4 DEF PostPin
  <2> HIDE DEF stored
  <2>4. NewKeysFit'
    BY <1>1, <2>2 DEF NewKeysFit
  <2>5. PinsAreHeld'
    BY <1>1, <1>3, <2>1, <2>3 DEF PinsAreHeld
  <2> QED
    BY <2>4, <2>5
<1>5. CASE stored = None /\ At(f, "make") /\ UNCHANGED pins
  <2>1. \A g \in Flows \ {f} : flow'[g] = flow[g]
    BY <1>1, <1>5 DEF At
  <2>2. NewKeysFit'
    BY <1>1, <1>5, <2>1 DEF NewKeysFit
  <2>3. PinsAreHeld'
    BY <1>1, <1>3, <1>5 DEF PinsAreHeld
  <2> QED
    BY <2>2, <2>3
<1> QED
  BY <1>4, <1>5 DEF ReadKeys

LEMMA WriteKeysKeeps ==
  ASSUME TypeOK, TakeTurns, NewKeysFit, PinsAreHeld, NEW f \in Flows, WriteKeys(f)
  PROVE  NewKeysFit' /\ PinsAreHeld'
<1> DEFINE store == StoreOf[BrowserOf[f]]
<1>1. PICK new : new = made + 1
  OBVIOUS
<1>2. /\ UNCHANGED <<draft, page>> /\ flow[f].at = "make" /\ flow \in [Flows -> Launches]
      /\ keys \in [Browsers -> Templates \union {None}]
      /\ keys' = [keys EXCEPT ![store] = new]
      /\ pins' = pins \union {[flow |-> f, template |-> new]}
  BY <1>1 DEF WriteKeys, TypeOK, PostPin
<1>3. BrowserOf[f] \in Browsers /\ store \in Browsers
  BY LaunchAssumption
<1>4. flow'[f].at = "pin" /\ \A g \in Flows \ {f} : flow'[g] = flow[g]
  BY <1>2 DEF WriteKeys, PostPin, Launches
<1>5. page.template = None => keys[store] = None
  BY <1>2 DEF NewKeysFit
<1>6. \A g \in Flows \ {f} : flow[g].at = "make" => StoreOf[BrowserOf[g]] # store
  BY <1>2 DEF TakeTurns
<1>7. \A t : page.template = None /\ t # None /\ Held(t) => Held(t)'
  BY <1>2, <1>3, <1>5, LaunchAssumption DEF Held
<1>8. Held(new)'
  BY <1>2, <1>3 DEF Held
<1>9. \A p \in pins : p.template # None
  BY LaunchAssumption DEF TypeOK, Templates
<1> HIDE DEF store
<1>10. NewKeysFit'
  <2> SUFFICES ASSUME page'.template = None, NEW g \in Flows, flow'[g].at = "make"
               PROVE  keys'[StoreOf[BrowserOf[g]]] = None
    BY DEF NewKeysFit
  <2>1. g # f /\ flow[g].at = "make"
    BY <1>4
  <2>2. StoreOf[BrowserOf[g]] # store /\ StoreOf[BrowserOf[g]] \in Browsers
    BY <1>6, <2>1, LaunchAssumption
  <2>3. keys[StoreOf[BrowserOf[g]]] = None
    BY <1>2, <2>1 DEF NewKeysFit
  <2> QED
    BY <1>2, <2>2, <2>3
<1>11. PinsAreHeld'
  <2> SUFFICES ASSUME page'.template = None
               PROVE  /\ \A p \in pins' : Held(p.template)'
                      /\ draft'.template # None => Held(draft.template)'
    BY DEF PinsAreHeld
  <2>1. \A p \in pins : Held(p.template)'
    BY <1>2, <1>7, <1>9 DEF PinsAreHeld
  <2>2. draft'.template # None => Held(draft.template)'
    <3>1. PICK t : t = draft.template
      OBVIOUS
    <3>2. t # None => Held(t)
      BY <1>2, <3>1 DEF PinsAreHeld
    <3>3. t # None => Held(t)'
      BY <1>2, <1>7, <3>2
    <3>4. t' = draft'.template
      BY <1>2, <3>1
    <3> QED
      BY <1>2, <3>1, <3>3, <3>4
  <2> QED
    BY <1>2, <1>8, <2>1, <2>2
<1> QED
  BY <1>10, <1>11

\* They are forgotten when there is a page.
LEMMA LeavingKeeps ==
  ASSUME MarksHavePages, NEW f \in Flows, PageExists(f) \/ MarkPublished(f)
  PROVE  NewKeysFit' /\ PinsAreHeld'
<1>1. page'.template # None
  BY DEF PageExists, MarkPublished, MarksHavePages
<1> QED
  BY <1>1 DEF NewKeysFit, PinsAreHeld

LEMMA PinningKeeps ==
  ASSUME FlowTyped, NewKeysFit, PinsAreHeld, NEW p \in pins, PinArrives(p) \/ PinFails(p)
  PROVE  NewKeysFit' /\ PinsAreHeld'
<1>1. UNCHANGED <<page, keys>> /\ pins' = pins \ {p}
  BY DEF PinArrives, PinFails
<1>2. \A t : Held(t) => Held(t)'
  BY <1>1 DEF Held
<1>3. \A f \in Flows : flow'[f].at = "make" => flow[f].at = "make"
  BY DEF FlowTyped, Launches, PinArrives, PinFails, At, Stop, NoFlow
<1>4. draft'.template \in {draft.template, p.template}
  BY DEF FlowTyped, Drafts, PinArrives, PinFails, Pinned
<1>5. NewKeysFit'
  BY <1>1, <1>3 DEF NewKeysFit
<1>6. PinsAreHeld'
  <2> SUFFICES ASSUME page.template = None
               PROVE  /\ \A q \in pins' : Held(q.template)'
                      /\ draft'.template # None => Held(draft.template)'
    BY <1>1 DEF PinsAreHeld
  <2>1. \A q \in pins' : Held(q.template)'
    BY <1>1, <1>2 DEF PinsAreHeld
  <2>2. PICK t : t = draft'.template
    OBVIOUS
  <2>3. t # None => Held(t)
    BY <1>4, <2>2 DEF PinsAreHeld
  <2>4. t # None => \E b \in Browsers : keys'[StoreOf[b]] = t
    BY <1>1, <2>3 DEF Held
  <2> QED
    BY <2>1, <2>2, <2>4 DEF Held
<1> QED
  BY <1>5, <1>6

LEMMA KeysStep ==
  TypeOK /\ MarksHavePages /\ TakeTurns /\ NewKeysFit /\ PinsAreHeld /\ [Next]_vars
    => NewKeysFit' /\ PinsAreHeld'
<1> SUFFICES ASSUME TypeOK, MarksHavePages, TakeTurns, NewKeysFit, PinsAreHeld, [Next]_vars
             PROVE  NewKeysFit' /\ PinsAreHeld'
  OBVIOUS
<1>1. FlowTyped
  BY DEF TypeOK, FlowTyped
<1>2. CASE KeepsKeys
  BY <1>2, KeysKept
<1>3. CASE UNCHANGED vars
  BY <1>3, KeysKept DEF vars, KeepsKeys
<1>4. CASE \E f \in Flows : \/ ReadKeys(f) \/ WriteKeys(f) \/ PageExists(f)
                            \/ MarkPublished(f)
  BY <1>4, ReadKeysKeeps, WriteKeysKeeps, LeavingKeeps, Zenon
<1>5. CASE \E p \in pins : PinArrives(p) \/ PinFails(p)
  BY <1>1, <1>5, PinningKeeps, Zenon
<1> QED
  BY <1>1, <1>2, <1>3, <1>4, <1>5, QuietKeys, LaunchSteps, Zenon

\* The keys of the template that is pinned are in some storage until the launch
\* has its page, whatever is loaded again, lost or pressed twice: if no two
\* launches of one browser are at once between readKeys and writeKeys, which
\* prepareIdentity awaits in between and nothing keeps apart.
THEOREM KeysAreKept == Spec /\ []TakeTurns => []KeysOutliveLaunch
<1>1. Init => NewKeysFit /\ PinsAreHeld
  BY DEF Init, NewKeysFit, PinsAreHeld, NoFlow
<1>2. Inv => MarksHavePages
  BY DEF Inv
<1>3. PinsAreHeld => KeysOutliveLaunch
  BY DEF PinsAreHeld, Held, KeysOutliveLaunch
<1> QED
  BY <1>1, <1>2, <1>3, KeysStep, InvHolds, LaunchTypeCorrect, PTL DEF Spec

-----------------------------------------------------------------------------
(* The page, when the creator waits.                                       *)

InForm == ui[b1].data

\* Contents grow from what is pinned to what is saved to what is shown, and they
\* are one and the same from the time the identity is pinned.
DataInOrder ==
  /\ InForm <= edits /\ draft.data <= InForm
  /\ \A s \in saves : s.data <= InForm
  /\ draft.status # "editing" => draft.data = InForm
  /\ ui[b1].signing => draft.status # "editing"

\* A launch has the contents that are shown; one that nobody waits for publishes.
Waiting(f) ==
  /\ flow[f].at # "idle" => BrowserOf[f] = b1 /\ flow[f].data = InForm
  /\ flow[f].at # "idle" => flow[f].open \/ flow[f].at \in Working

PinsAreWanted == \A p \in pins : p.flow # None

SavesAreAwaited ==
  \A s \in saves : s.flow # None =>
    /\ s.flow \in Flows /\ flow[s.flow].at = "flush"
    /\ s.data = flow[s.flow].data

\* Before it is pinned, its contents are saved and no save is under way that
\* would change them.
Saved(f) ==
  flow[f].at \in {"identity", "make", "pin"} /\ draft.status = "editing" =>
    /\ draft.data = InForm
    /\ \A s \in saves : s.data = InForm

\* What is on the chain, read and shown is what was pinned.
BuiltAsPinned ==
  /\ \A t \in Templates : chain[t].stage \in {"staged", "live"} => chain[t].data = draft.data
  /\ \A f \in Flows : flow[f].at = "insert" =>
       chain[flow[f].template].stage = "live" /\ flow[f].read = draft.data
  /\ page.template # None =>
       chain[page.template].stage = "live" /\ page.data = draft.data

WaitInv ==
  /\ DataInOrder
  /\ \A f \in Flows : Waiting(f) /\ Saved(f)
  /\ SavesAreAwaited
  /\ PinsAreWanted
  /\ BuiltAsPinned

\* What it waits for, said of the actions of a creator who does not.
LEMMA WaitSteps ==
  ASSUME Waits!Next
  PROVE  \/ RevealNears
         \/ \E b \in Browsers :
              \/ (Edit(b) \/ BackToReview(b)) /\ Running(b) = {} /\ draft.status = "editing"
              \/ GoToLaunch(b) \/ Autosave(b)
              \/ Reload(b) /\ saves = {} /\ pins = {}
         \/ \E s \in saves : \/ SaveArrives(s) /\ \A q \in saves : s.data <= q.data
                             \/ SaveFails(s)
         \/ \E p \in pins : PinArrives(p) \/ PinRefused(p) \/ PinFails(p)
         \/ \E f \in Flows : \/ Press(f) \/ ReadKeys(f) \/ StartedElsewhere(f)
              \/ WriteKeys(f) \/ CreateMint(f) \/ StageBundles(f) \/ SealTemplate(f)
              \/ TemplateIsLive(f) \/ SavedBundleDiffers(f) \/ ReadDraft(f)
              \/ PageExists(f) \/ PublishRefused(f) \/ InsertPage(f)
              \/ MarkPublished(f) \/ LaunchFails(f)
<1>1. CASE RevealNears
  BY <1>1
<1>2. ASSUME NEW b \in Browsers, Waits!Edit(b)
      PROVE  Edit(b) /\ Running(b) = {} /\ draft.status = "editing"
  BY <1>2 DEF Waits!Edit, Edit, Waits!MayEdit, MayEdit, Waits!Running, Running, Waits!In, In
<1>3. ASSUME NEW b \in Browsers, Waits!BackToReview(b)
      PROVE  BackToReview(b) /\ Running(b) = {} /\ draft.status = "editing"
  BY <1>3 DEF Waits!BackToReview, BackToReview, Waits!MayEdit, MayEdit, Waits!Running, Running, Waits!In, In
<1>4. ASSUME NEW b \in Browsers, Waits!Reload(b)
      PROVE  Reload(b) /\ saves = {} /\ pins = {}
  BY <1>4 DEF Waits!Reload, Reload, Waits!Fault, Fault, Waits!Loaded, Loaded,
    Waits!Abandoned, Abandoned, Waits!NoFlow, NoFlow, Waits!In, In
<1>5. ASSUME NEW s \in saves, Waits!SaveArrives(s)
      PROVE  SaveArrives(s) /\ \A q \in saves : s.data <= q.data
  BY <1>5 DEF Waits!SaveArrives, SaveArrives, Waits!UpsertDraft, UpsertDraft
<1>6. ASSUME NEW f \in Flows, Waits!Press(f) PROVE Press(f)
  BY <1>6 DEF Waits!Press, Press, Waits!Running, Running, Waits!In, In, Waits!NoFlow, NoFlow
<1>7. ASSUME NEW b \in Browsers PROVE (Waits!GoToLaunch(b) <=> GoToLaunch(b)) /\ (Waits!Autosave(b) <=> Autosave(b))
  BY DEF Waits!GoToLaunch, GoToLaunch, Waits!Autosave, Autosave
<1>8. ASSUME NEW s \in saves PROVE Waits!SaveFails(s) <=> SaveFails(s)
  BY DEF Waits!SaveFails, SaveFails, Waits!Fault, Fault, Waits!UpsertDraft, UpsertDraft, Waits!NoFlow, NoFlow
<1>9. ASSUME NEW f \in Flows PROVE Waits!ReadKeys(f) <=> ReadKeys(f)
  BY DEF Waits!ReadKeys, ReadKeys, Waits!At, At, Waits!PostPin, PostPin
<1>25. ASSUME NEW f \in Flows PROVE Waits!WriteKeys(f) <=> WriteKeys(f)
  BY DEF Waits!WriteKeys, WriteKeys, Waits!PostPin, PostPin
<1>10. ASSUME NEW f \in Flows PROVE Waits!StartedElsewhere(f) <=> StartedElsewhere(f)
  BY DEF Waits!StartedElsewhere, StartedElsewhere, Waits!Stop, Stop, Waits!NoFlow, NoFlow
<1>11. ASSUME NEW f \in Flows PROVE Waits!CreateMint(f) <=> CreateMint(f)
  BY DEF Waits!CreateMint, CreateMint
<1>12. ASSUME NEW f \in Flows PROVE Waits!StageBundles(f) <=> StageBundles(f)
  BY DEF Waits!StageBundles, StageBundles
<1>13. ASSUME NEW f \in Flows PROVE Waits!SealTemplate(f) <=> SealTemplate(f)
  BY DEF Waits!SealTemplate, SealTemplate
<1>14. ASSUME NEW f \in Flows PROVE Waits!TemplateIsLive(f) <=> TemplateIsLive(f)
  BY DEF Waits!TemplateIsLive, TemplateIsLive, Waits!At, At
<1>15. ASSUME NEW f \in Flows PROVE Waits!SavedBundleDiffers(f) <=> SavedBundleDiffers(f)
  BY DEF Waits!SavedBundleDiffers, SavedBundleDiffers, Waits!Stop, Stop, Waits!NoFlow, NoFlow
<1>16. ASSUME NEW f \in Flows PROVE Waits!ReadDraft(f) <=> ReadDraft(f)
  BY DEF Waits!ReadDraft, ReadDraft, Waits!MayPublish, MayPublish
<1>17. ASSUME NEW f \in Flows PROVE Waits!PageExists(f) <=> PageExists(f)
  BY DEF Waits!PageExists, PageExists, Waits!Leaves, Leaves, Waits!Forget, Forget, Waits!MayPublish, MayPublish, Waits!Stop, Stop, Waits!NoFlow, NoFlow
<1>18. ASSUME NEW f \in Flows PROVE Waits!PublishRefused(f) <=> PublishRefused(f)
  BY DEF Waits!PublishRefused, PublishRefused, Waits!Stop, Stop, Waits!MayPublish, MayPublish, Waits!NoFlow, NoFlow
<1>19. ASSUME NEW f \in Flows PROVE Waits!InsertPage(f) <=> InsertPage(f)
  BY DEF Waits!InsertPage, InsertPage, Waits!At, At, Waits!Stop, Stop, Waits!NoFlow, NoFlow
<1>20. ASSUME NEW f \in Flows PROVE Waits!MarkPublished(f) <=> MarkPublished(f)
  BY DEF Waits!MarkPublished, MarkPublished, Waits!Leaves, Leaves, Waits!Forget, Forget, Waits!Stop, Stop, Waits!NoFlow, NoFlow
<1>21. ASSUME NEW p \in pins PROVE Waits!PinArrives(p) <=> PinArrives(p)
  BY DEF Waits!PinArrives, PinArrives, Waits!Pinning, Pinning, Waits!At, At, Waits!MayPin, MayPin, Waits!Pinned, Pinned
<1>22. ASSUME NEW p \in pins PROVE Waits!PinRefused(p) <=> PinRefused(p)
  BY DEF Waits!PinRefused, PinRefused, Waits!Pinning, Pinning, Waits!Stop, Stop, Waits!MayPin, MayPin, Waits!NoFlow, NoFlow
<1>23. ASSUME NEW p \in pins PROVE Waits!PinFails(p) <=> PinFails(p)
  BY DEF Waits!PinFails, PinFails, Waits!Pinning, Pinning, Waits!Stop, Stop, Waits!MayPin, MayPin, Waits!Pinned, Pinned, Waits!Fault, Fault, Waits!NoFlow, NoFlow
<1>24. ASSUME NEW f \in Flows PROVE Waits!LaunchFails(f) <=> LaunchFails(f)
  BY DEF Waits!LaunchFails, LaunchFails, Waits!Stop, Stop, Waits!Fault, Fault, Waits!NoFlow, NoFlow
<1> QED
  BY <1>1, <1>2, <1>3, <1>4, <1>5, <1>6, <1>7, <1>8, <1>9, <1>10, <1>11, <1>12, <1>13, <1>14, <1>15, <1>16, <1>17, <1>18, <1>19, <1>20, <1>21, <1>22, <1>23, <1>24, <1>25, Zenon DEF Waits!Next, Waits!Wizard, Waits!Work, Waits!Server, Waits!RevealNears, RevealNears

\* What a step finds and keeps: types, and that only what is pinned is built.
WaitContext ==
  /\ TypeOK /\ FlowsArePinned /\ BuiltIsPinned /\ PinsAreAwaited /\ WaitInv
  /\ Only({b1})
  /\ FlowsArePinned'

LEMMA WaitTypes ==
  ASSUME TypeOK
  PROVE  /\ draft.data \in Nat /\ InForm \in Nat /\ edits \in Nat
         /\ ui[b1] \in Wizards /\ ui \in [Browsers -> Wizards]
         /\ flow \in [Flows -> Launches]
         /\ \A f \in Flows : flow[f] \in Launches /\ BrowserOf[f] \in Browsers
         /\ \A s \in saves : s.data \in Nat
<1>1. /\ draft \in Drafts /\ ui \in [Browsers -> Wizards] /\ edits \in Nat
      /\ flow \in [Flows -> Launches] /\ BrowserOf \in [Flows -> Browsers]
      /\ Versions \subseteq Nat
  BY LaunchAssumption DEF TypeOK, Versions
<1>2. ui[b1] \in Wizards
  BY <1>1, BrowserAssumption
<1>3. draft.data \in Versions /\ InForm \in Versions
  BY <1>1, <1>2 DEF Drafts, Wizards, InForm
<1>4. \A s \in saves : s.data \in Versions
  BY DEF TypeOK
<1> QED
  BY <1>1, <1>2, <1>3, <1>4

\* Nothing of it is touched.
LEMMA QuietWaits ==
  ASSUME WaitContext, UNCHANGED <<draft, chain, page, saves, pins, flow>>,
         edits' \in Nat, edits <= edits', InForm' = InForm, (ui[b1].signing)' = ui[b1].signing
  PROVE  WaitInv'
<1>1. DataInOrder'
  BY WaitTypes DEF WaitContext, WaitInv, DataInOrder
<1>2. \A f \in Flows : Waiting(f)' /\ Saved(f)'
  BY DEF WaitContext, WaitInv, Waiting, Saved
<1>3. SavesAreAwaited' /\ PinsAreWanted' /\ BuiltAsPinned'
  BY DEF WaitContext, WaitInv, SavesAreAwaited, PinsAreWanted, BuiltAsPinned
<1> QED
  BY <1>1, <1>2, <1>3 DEF WaitInv

LEMMA PinsStay ==
  ASSUME WaitContext, \A p \in pins' : p \in pins \/ p.flow # None
  PROVE  PinsAreWanted'
BY DEF WaitContext, WaitInv, PinsAreWanted

\* What is edited is newer than what is saved, and no launch runs.
LEMMA EditWaits ==
  ASSUME WaitContext, NEW b \in Browsers, Edit(b), Running(b) = {}, draft.status = "editing"
  PROVE  WaitInv'
<1>1. /\ edits' = edits + 1 /\ edits \in Nat
      /\ UNCHANGED <<draft, chain, page, saves, pins, flow>>
  BY WaitTypes DEF WaitContext, Edit
<1>2. CASE b # b1
  <2>1. UNCHANGED ui[b1]
    BY <1>2, BrowserAssumption, WaitTypes DEF WaitContext, Edit
  <2> QED
    BY <1>1, <2>1, QuietWaits DEF InForm
<1>3. CASE b = b1
  <2>1. InForm' = edits + 1 /\ (ui[b1].signing)' = ui[b1].signing
    BY <1>3, WaitTypes DEF WaitContext, Edit, InForm, Wizards
  <2>2. ~ui[b1].signing
    BY DEF WaitContext, WaitInv, DataInOrder
  <2>3. \A f \in Flows : flow[f].at = "idle"
    BY <1>3 DEF WaitContext, WaitInv, Waiting, Running, In, FlowsArePinned
  <2>4. DataInOrder'
    BY <1>1, <2>1, <2>2, WaitTypes DEF WaitContext, WaitInv, DataInOrder
  <2>5. \A f \in Flows : Waiting(f)' /\ Saved(f)'
    BY <1>1, <2>3 DEF WaitContext, WaitInv, Waiting, Saved
  <2>6. SavesAreAwaited' /\ PinsAreWanted' /\ BuiltAsPinned'
    BY <1>1 DEF WaitContext, WaitInv, SavesAreAwaited, PinsAreWanted, BuiltAsPinned
  <2> QED
    BY <2>4, <2>5, <2>6 DEF WaitInv
<1> QED
  BY <1>2, <1>3

\* A save is sent that has the contents shown.
LEMMA AutosaveWaits ==
  ASSUME WaitContext, NEW b \in Browsers, Autosave(b)
  PROVE  WaitInv'
<1>1. b = b1
  BY WaitTypes DEF WaitContext, Only, Autosave, Wizards
<1>2. /\ InForm' = InForm /\ (ui[b1].signing)' = ui[b1].signing
      /\ UNCHANGED <<edits, draft, chain, page, pins, flow>>
      /\ saves' = saves \union {[data |-> InForm, flow |-> None]}
  BY <1>1, WaitTypes DEF WaitContext, Autosave, InForm, Wizards
<1>3. DataInOrder'
  BY <1>2, WaitTypes DEF WaitContext, WaitInv, DataInOrder
<1>4. \A f \in Flows : Waiting(f)' /\ Saved(f)'
  BY <1>2 DEF WaitContext, WaitInv, Waiting, Saved
<1>5. SavesAreAwaited' /\ PinsAreWanted' /\ BuiltAsPinned'
  BY <1>2 DEF WaitContext, WaitInv, SavesAreAwaited, PinsAreWanted, BuiltAsPinned
<1> QED
  BY <1>3, <1>4, <1>5 DEF WaitInv

\* What is loaded is what the server has: nothing is under way, and a launch
\* that goes on is pinned.
LEMMA ReloadWaits ==
  ASSUME WaitContext, NEW b \in Browsers, Reload(b), saves = {}, pins = {}
  PROVE  WaitInv'
<1>1. UNCHANGED <<edits, draft, chain, page, saves, pins>>
  <2>1. saves' = {} /\ pins' = {}
    BY DEF Reload
  <2> QED
    BY <2>1 DEF Reload
<1>2. CASE b # b1
  <2>1. UNCHANGED ui[b1]
    BY <1>2, BrowserAssumption, WaitTypes DEF WaitContext, Reload
  <2>2. UNCHANGED flow
    <3>1. \A f \in Flows : BrowserOf[f] = b => flow[f].at = "idle"
      BY <1>2 DEF WaitContext, WaitInv, Waiting
    <3>2. \A f \in Flows : flow'[f] = flow[f]
      BY <1>2 DEF WaitContext, Only, Reload, In
    <3> QED
      BY <3>2, WaitTypes DEF WaitContext, Reload
  <2> QED
    BY <1>1, <2>1, <2>2, QuietWaits, WaitTypes DEF InForm, WaitContext
<1>3. CASE b = b1
  <2>1. InForm' = draft.data /\ ((ui[b1].signing)' => draft.status # "editing")
    BY <1>3, WaitTypes DEF WaitContext, Reload, InForm, Loaded
  <2>2. \A f \in Flows :
          \/ flow'[f].at = "idle"
          \/ /\ flow[f].at \in {"insert", "mark"} /\ flow'[f].at = flow[f].at
             /\ flow'[f].data = flow[f].data /\ flow'[f].read = flow[f].read
             /\ flow'[f].template = flow[f].template /\ BrowserOf[f] = b1
    BY <1>3, WaitTypes DEF WaitContext, WaitInv, Waiting, Reload, Abandoned, NoFlow,
      Launches, In
  <2>3. DataInOrder'
    BY <1>1, <2>1, WaitTypes DEF WaitContext, WaitInv, DataInOrder
  <2>4. \A f \in Flows : Waiting(f)' /\ Saved(f)'
    BY <1>1, <2>1, <2>2 DEF WaitContext, WaitInv, DataInOrder, Waiting, Saved,
      FlowsArePinned, Working
  <2>5. SavesAreAwaited' /\ PinsAreWanted' /\ BuiltAsPinned'
    BY <1>1, <2>2 DEF WaitContext, WaitInv, SavesAreAwaited, PinsAreWanted, BuiltAsPinned
  <2> QED
    BY <2>3, <2>4, <2>5 DEF WaitInv
<1> QED
  BY <1>2, <1>3

\* What was pinned stays what is on the chain and read, where that is not touched.
LEMMA SameWhenPinned ==
  ASSUME WaitContext, UNCHANGED <<page, chain>>,
         draft.status # "editing" => draft'.data = draft.data,
         \A f \in Flows : flow'[f].at = "insert" =>
           /\ flow[f].at = "insert" /\ flow'[f].read = flow[f].read
           /\ flow'[f].template = flow[f].template
  PROVE  BuiltAsPinned'
<1>1. page.template # None => page.template \in Templates
  BY DEF WaitContext, TypeOK
<1>2. \A t \in Templates : chain[t].stage \in {"staged", "live"} => draft.status # "editing"
  BY DEF WaitContext, BuiltIsPinned
<1>3. \A f \in Flows : flow[f].at = "insert" => draft.status # "editing"
  BY DEF WaitContext, FlowsArePinned, Working
<1> QED
  BY <1>1, <1>2, <1>3 DEF WaitContext, WaitInv, BuiltAsPinned

\* What has not been served is still waited for.
LEMMA StillAwaited ==
  ASSUME WaitContext, NEW s \in saves, saves' = saves \ {s},
         \A f \in Flows : flow'[f] = flow[f] \/ s.flow = f
  PROVE  SavesAreAwaited'
<1> SUFFICES ASSUME NEW q \in saves', q.flow # None
             PROVE  q.flow \in Flows /\ flow'[q.flow].at = "flush" /\ q.data = flow'[q.flow].data
  BY DEF SavesAreAwaited
<1>1. /\ q \in saves /\ q # s /\ q.flow \in Flows /\ flow[q.flow].at = "flush"
      /\ q.data = flow[q.flow].data
  BY DEF WaitContext, WaitInv, SavesAreAwaited
<1>2. s.flow # q.flow
  <2>1. s.flow = q.flow => s.data = q.data
    BY DEF WaitContext, WaitInv, SavesAreAwaited
  <2>2. q \in [data : Versions, flow : Flows \union {None}]
        /\ s \in [data : Versions, flow : Flows \union {None}]
    BY DEF WaitContext, TypeOK
  <2> QED
    BY <1>1, <2>1, <2>2
<1> QED
  BY <1>1, <1>2

\* A save that is served, or not, leaves what is pinned and is older than what is
\* shown.
LEMMA ServedWaits ==
  ASSUME WaitContext, NEW s \in saves, UNCHANGED draft \/ UpsertDraft(s.data),
         UNCHANGED <<edits, page, chain, pins, ui>>, saves' = saves \ {s}
  PROVE  /\ DataInOrder' /\ draft'.status = draft.status /\ draft'.data \in {draft.data, s.data}
         /\ draft.status # "editing" => draft'.data = draft.data
<1>1. /\ draft'.status = draft.status /\ draft'.data \in {draft.data, s.data}
      /\ draft.status # "editing" => draft'.data = draft.data
  BY DEF UpsertDraft, WaitContext, TypeOK, Drafts
<1> QED
  BY <1>1, WaitTypes DEF WaitContext, WaitInv, DataInOrder, InForm

LEMMA SaveArrivesWaits ==
  ASSUME WaitContext, NEW s \in saves, SaveArrives(s), \A q \in saves : s.data <= q.data
  PROVE  WaitInv'
<1>1. /\ UNCHANGED <<edits, page, chain, pins, ui, InForm>> /\ saves' = saves \ {s}
      /\ UpsertDraft(s.data)
  BY DEF SaveArrives, InForm
<1>2. /\ DataInOrder' /\ draft'.status = draft.status /\ draft'.data \in {draft.data, s.data}
      /\ draft.status # "editing" => draft'.data = draft.data
  BY <1>1, ServedWaits
<1>3. \A f \in Flows :
        \/ flow'[f] = flow[f]
        \/ /\ s.flow = f /\ flow[f].at = "flush" /\ flow'[f].at = "identity"
           /\ flow'[f].data = flow[f].data /\ flow'[f].open = flow[f].open
           /\ s.data = InForm /\ BrowserOf[f] = b1
  <2>1. s.flow # None => s.flow \in Flows /\ flow[s.flow].at = "flush" /\ s.data = flow[s.flow].data
    BY DEF WaitContext, WaitInv, SavesAreAwaited
  <2>2. \A f \in Flows : flow[f].at = "flush" => flow[f].data = InForm /\ BrowserOf[f] = b1
    BY DEF WaitContext, WaitInv, Waiting
  <2>3. CASE s.flow = None
    BY <2>3, <2>2, WaitTypes DEF SaveArrives, WaitContext
  <2>4. CASE s.flow # None
    BY <2>4, <2>1, <2>2, WaitTypes DEF SaveArrives, WaitContext, Launches
  <2> QED
    BY <2>3, <2>4
<1>4. s.data = InForm => \A q \in saves : q.data = InForm
  BY WaitTypes DEF WaitContext, WaitInv, DataInOrder
<1>5. \A f \in Flows : Waiting(f)'
  BY <1>1, <1>3 DEF WaitContext, WaitInv, Waiting, Working
<1>6. \A f \in Flows : Saved(f)'
  <2> SUFFICES ASSUME NEW f \in Flows, flow'[f].at \in {"identity", "make", "pin"}, draft'.status = "editing"
               PROVE  draft'.data = InForm' /\ \A q \in saves' : q.data = InForm'
    BY DEF Saved
  <2>1. CASE flow'[f] = flow[f]
    BY <2>1, <1>1, <1>2 DEF WaitContext, WaitInv, Saved
  <2>2. CASE s.flow = f /\ s.data = InForm
    <3>1. draft'.data = s.data
      BY <1>1, <1>2 DEF UpsertDraft, WaitContext, TypeOK, Drafts
    <3> QED
      BY <3>1, <2>2, <1>1, <1>4
  <2> QED
    BY <2>1, <2>2, <1>3
<1>7. SavesAreAwaited'
  BY <1>1, <1>3, StillAwaited
<1>8. BuiltAsPinned'
  BY <1>1, <1>2, <1>3, SameWhenPinned
<1>9. PinsAreWanted'
  BY <1>1, PinsStay
<1> QED
  BY <1>2, <1>5, <1>6, <1>7, <1>8, <1>9 DEF WaitInv

LEMMA SaveFailsWaits ==
  ASSUME WaitContext, NEW s \in saves, SaveFails(s)
  PROVE  WaitInv'
<1>1. /\ UNCHANGED <<edits, page, chain, pins, ui, InForm>> /\ saves' = saves \ {s}
      /\ UNCHANGED draft \/ UpsertDraft(s.data)
  BY DEF SaveFails, InForm
<1>2. /\ DataInOrder' /\ draft'.status = draft.status /\ draft'.data \in {draft.data, s.data}
      /\ draft.status # "editing" => draft'.data = draft.data
  BY <1>1, ServedWaits
<1>3. \A f \in Flows :
        \/ flow'[f] = flow[f]
        \/ s.flow = f /\ flow[f].at = "flush" /\ flow'[f] = NoFlow
  <2>1. s.flow # None => s.flow \in Flows /\ flow[s.flow].at = "flush"
    BY DEF WaitContext, WaitInv, SavesAreAwaited
  <2>2. CASE s.flow = None
    BY <2>2, WaitTypes DEF SaveFails, WaitContext
  <2>3. CASE s.flow # None
    BY <2>3, <2>1, WaitTypes DEF SaveFails, WaitContext
  <2> QED
    BY <2>2, <2>3
<1>4. \A f \in Flows : Waiting(f)'
  BY <1>1, <1>3 DEF WaitContext, WaitInv, Waiting, NoFlow
<1>5. \A f \in Flows : Saved(f)'
  BY <1>1, <1>2, <1>3 DEF WaitContext, WaitInv, Saved, NoFlow
<1>6. SavesAreAwaited'
  BY <1>1, <1>3, StillAwaited
<1>7. BuiltAsPinned'
  BY <1>1, <1>2, <1>3, SameWhenPinned DEF NoFlow
<1>8. PinsAreWanted'
  BY <1>1, PinsStay
<1> QED
  BY <1>2, <1>4, <1>5, <1>6, <1>7, <1>8 DEF WaitInv

\* The launch has the contents shown, and saves them unless they are pinned.
LEMMA PressWaits ==
  ASSUME WaitContext, NEW f \in Flows, Press(f)
  PROVE  WaitInv'
<1> DEFINE unsaved == ~ui[BrowserOf[f]].signing
<1>1. UNCHANGED <<edits, draft, page, chain, pins, ui, InForm>> /\ flow[f].at = "idle"
  BY DEF Press, InForm
<1>2. /\ flow'[f].data = ui[BrowserOf[f]].data /\ flow'[f].open
      /\ flow'[f].at = IF unsaved THEN "flush" ELSE "identity"
      /\ \A g \in Flows \ {f} : flow'[g] = flow[g]
  BY WaitTypes DEF WaitContext, Press, NoFlow
<1>3. BrowserOf[f] = b1 /\ ui[BrowserOf[f]].data = InForm
  BY <1>1, <1>2 DEF WaitContext, Only, InForm
<1>4. saves' = IF unsaved THEN saves \union {[data |-> InForm, flow |-> f]} ELSE saves
  BY <1>3 DEF Press
<1>5. ~unsaved => draft.status # "editing"
  BY <1>3 DEF WaitContext, WaitInv, DataInOrder
<1> HIDE DEF unsaved
<1>6. DataInOrder'
  BY <1>1, <1>4, WaitTypes DEF WaitContext, WaitInv, DataInOrder
<1>7. \A g \in Flows : Waiting(g)'
  BY <1>1, <1>2, <1>3 DEF WaitContext, WaitInv, Waiting
<1>8. \A g \in Flows : Saved(g)'
  BY <1>1, <1>2, <1>4, <1>5 DEF WaitContext, WaitInv, Saved
<1>9. SavesAreAwaited'
  BY <1>1, <1>2, <1>3, <1>4 DEF WaitContext, WaitInv, SavesAreAwaited
<1>10. BuiltAsPinned'
  BY <1>1, <1>2, SameWhenPinned
<1>11. PinsAreWanted'
  BY <1>1, PinsStay
<1> QED
  BY <1>6, <1>7, <1>8, <1>9, <1>10, <1>11 DEF WaitInv

\* The identity is asked for with what is saved.
LEMMA PrepareWaits ==
  ASSUME WaitContext, NEW f \in Flows, ReadKeys(f) \/ WriteKeys(f)
  PROVE  WaitInv'
<1>1. /\ UNCHANGED <<edits, draft, page, chain, saves, ui, InForm>>
      /\ flow[f].at \in {"identity", "make"}
      /\ \A p \in pins' : p \in pins \/ p.flow # None
  BY LaunchAssumption DEF ReadKeys, WriteKeys, PostPin, InForm
<1>2. /\ flow'[f].data = flow[f].data /\ flow'[f].at \in {"make", "pin"}
      /\ flow'[f].open = flow[f].open
      /\ \A g \in Flows \ {f} : flow'[g] = flow[g]
  <2>1. flow \in [Flows -> Launches] /\ flow[f] \in Launches
    BY WaitTypes DEF WaitContext
  <2>2. ASSUME NEW t, PostPin(f, t)
        PROVE  /\ flow'[f].data = flow[f].data /\ flow'[f].at = "pin"
               /\ flow'[f].open = flow[f].open
               /\ \A g \in Flows \ {f} : flow'[g] = flow[g]
    BY <2>1, <2>2 DEF PostPin, Launches
  <2>3. CASE At(f, "make")
    BY <2>1, <2>3 DEF At, Launches
  <2> QED
    BY <2>2, <2>3 DEF ReadKeys, WriteKeys
<1>3. DataInOrder'
  BY <1>1 DEF WaitContext, WaitInv, DataInOrder
<1>4. \A g \in Flows : Waiting(g)' /\ Saved(g)'
  BY <1>1, <1>2 DEF WaitContext, WaitInv, Waiting, Saved, Working
<1>5. SavesAreAwaited'
  BY <1>1, <1>2 DEF WaitContext, WaitInv, SavesAreAwaited
<1>6. BuiltAsPinned'
  BY <1>1, <1>2, SameWhenPinned
<1>7. PinsAreWanted'
  BY <1>1, PinsStay
<1> QED
  BY <1>3, <1>4, <1>5, <1>6, <1>7 DEF WaitInv

LEMMA ChainWaits ==
  ASSUME WaitContext, NEW f \in Flows, CreateMint(f) \/ StageBundles(f) \/ SealTemplate(f)
  PROVE  WaitInv'
<1>1. UNCHANGED <<edits, draft, page, saves, pins, ui, flow, InForm>>
  BY DEF CreateMint, StageBundles, SealTemplate, InForm
<1>2. /\ DataInOrder' /\ SavesAreAwaited' /\ PinsAreWanted'
      /\ \A g \in Flows : Waiting(g)' /\ Saved(g)'
  BY <1>1 DEF WaitContext, WaitInv, DataInOrder, SavesAreAwaited, PinsAreWanted,
    Waiting, Saved
<1>3. flow[f].data = draft.data
  BY DEF CreateMint, StageBundles, SealTemplate, WaitContext, WaitInv, Waiting, DataInOrder,
    FlowsArePinned, Working
<1>4. \A t \in Templates :
        \/ chain'[t] = chain[t] /\ t # flow[f].template
        \/ /\ t = flow[f].template /\ chain[t].stage # "live"
           /\ chain'[t].stage \in {"staged", "live"} => chain'[t].data = draft.data
  BY <1>3, WaitTypes DEF CreateMint, StageBundles, SealTemplate, WaitContext, TypeOK
<1>5. page.template # None => page.template \in Templates
  BY DEF WaitContext, TypeOK
<1>6. \A g \in Flows : flow[g].at = "insert" => flow[g].template \in Templates
  BY DEF WaitContext, FlowsArePinned, Working
<1>7. BuiltAsPinned'
  BY <1>1, <1>4, <1>5, <1>6 DEF WaitContext, WaitInv, BuiltAsPinned
<1> QED
  BY <1>2, <1>7 DEF WaitInv

\* A flow takes a step of its own, or ends.
LEMMA FlowWaits ==
  ASSUME WaitContext, NEW f \in Flows, UNCHANGED <<edits, draft, page, chain, saves, ui>>,
         flow[f].at # "flush", pins' \subseteq pins, NEW g, flow' = [flow EXCEPT ![f] = g],
         \/ g.at = "idle"
         \/ g.at \in Working /\ g.data = flow[f].data /\ flow[f].at # "idle",
         g.at = "insert" => chain[g.template].stage = "live" /\ g.read = draft.data
  PROVE  WaitInv'
<1>1. flow'[f] = g /\ (\A h \in Flows \ {f} : flow'[h] = flow[h]) /\ InForm' = InForm
  BY WaitTypes DEF WaitContext, InForm
<1>2. DataInOrder'
  BY <1>1 DEF WaitContext, WaitInv, DataInOrder
<1>3. \A h \in Flows : Waiting(h)' /\ Saved(h)'
  BY <1>1 DEF WaitContext, WaitInv, Waiting, Saved, Working
<1>4. SavesAreAwaited'
  BY <1>1 DEF WaitContext, WaitInv, SavesAreAwaited
<1>5. BuiltAsPinned'
  BY <1>1 DEF WaitContext, WaitInv, BuiltAsPinned
<1>6. PinsAreWanted'
  BY PinsStay
<1> QED
  BY <1>2, <1>3, <1>4, <1>5, <1>6 DEF WaitInv

LEMMA StopWaits ==
  ASSUME WaitContext, NEW f \in Flows,
         \/ StartedElsewhere(f) \/ SavedBundleDiffers(f) \/ PublishRefused(f)
         \/ PageExists(f) \/ LaunchFails(f)
  PROVE  WaitInv'
<1>1. UNCHANGED <<edits, draft, page, chain, saves, pins, ui>>
  BY DEF StartedElsewhere, SavedBundleDiffers, PublishRefused, PageExists, LaunchFails
<1>2. flow[f].at # "flush" /\ flow' = [flow EXCEPT ![f] = NoFlow]
  BY DEF StartedElsewhere, SavedBundleDiffers, PublishRefused, PageExists,
    LaunchFails, Leaves, Stop
<1> QED
  BY <1>1, <1>2, FlowWaits DEF NoFlow

LEMMA RefusedWaits ==
  ASSUME WaitContext, NEW p \in pins, PinRefused(p)
  PROVE  WaitInv'
<1>1. UNCHANGED <<edits, draft, page, chain, saves, ui>> /\ pins' \subseteq pins
  BY DEF PinRefused
<1>2. p.flow # None /\ flow[p.flow].at = "pin"
  BY DEF WaitContext, WaitInv, PinsAreWanted, PinsAreAwaited
<1>3. p.flow \in Flows
  BY <1>2 DEF WaitContext, TypeOK
<1>4. flow' = [flow EXCEPT ![p.flow] = NoFlow]
  BY <1>2 DEF PinRefused, Pinning, Stop
<1> QED
  BY <1>1, <1>2, <1>3, <1>4, FlowWaits DEF NoFlow

LEMMA GoesOnWaits ==
  ASSUME WaitContext, NEW f \in Flows, TemplateIsLive(f) \/ ReadDraft(f)
  PROVE  WaitInv'
<1>1. CASE TemplateIsLive(f)
  <2>1. [flow[f] EXCEPT !.at = "publish"].at = "publish"
        /\ [flow[f] EXCEPT !.at = "publish"].data = flow[f].data
    BY WaitTypes DEF WaitContext, Launches
  <2> QED
    BY <1>1, <2>1, FlowWaits DEF TemplateIsLive, At, Working
<1>2. CASE ReadDraft(f)
  <2> DEFINE g == [flow[f] EXCEPT !.at = "insert", !.read = draft.data]
  <2>1. g.at = "insert" /\ g.read = draft.data /\ g.data = flow[f].data
        /\ g.template = flow[f].template
    BY WaitTypes DEF WaitContext, Launches
  <2>2. flow' = [flow EXCEPT ![f] = g]
    BY <1>2 DEF ReadDraft
  <2> HIDE DEF g
  <2> QED
    BY <1>2, <2>1, <2>2, FlowWaits DEF ReadDraft, MayPublish, Working
<1> QED
  BY <1>1, <1>2

\* The page that is inserted is the draft that was read.
LEMMA InsertWaits ==
  ASSUME WaitContext, NEW f \in Flows, InsertPage(f)
  PROVE  WaitInv'
<1>1. UNCHANGED <<edits, draft, chain, saves, pins, ui, InForm>> /\ flow[f].at = "insert"
  BY DEF InsertPage, InForm
<1>2. /\ flow'[f].at \in {"mark", "idle"}
      /\ flow'[f].at = "mark" => flow'[f].data = flow[f].data
      /\ \A g \in Flows \ {f} : flow'[g] = flow[g]
  BY WaitTypes DEF WaitContext, InsertPage, At, Stop, NoFlow, Launches
<1>3. DataInOrder'
  BY <1>1 DEF WaitContext, WaitInv, DataInOrder
<1>4. \A g \in Flows : Waiting(g)' /\ Saved(g)'
  BY <1>1, <1>2 DEF WaitContext, WaitInv, Waiting, Saved, Working
<1>5. SavesAreAwaited'
  BY <1>1, <1>2 DEF WaitContext, WaitInv, SavesAreAwaited
<1>6. /\ chain[flow[f].template].stage = "live" /\ flow[f].read = draft.data
      /\ \/ page' = [template |-> flow[f].template, data |-> flow[f].read]
         \/ page' = page
  BY <1>1 DEF WaitContext, WaitInv, BuiltAsPinned, InsertPage
<1>7. BuiltAsPinned'
  BY <1>1, <1>2, <1>6 DEF WaitContext, WaitInv, BuiltAsPinned
<1>8. PinsAreWanted'
  BY <1>1, PinsStay
<1> QED
  BY <1>3, <1>4, <1>5, <1>7, <1>8 DEF WaitInv

LEMMA MarkWaits ==
  ASSUME WaitContext, NEW f \in Flows, MarkPublished(f)
  PROVE  WaitInv'
<1>1. UNCHANGED <<edits, page, chain, saves, pins, ui, InForm>> /\ flow[f].at = "mark"
  BY DEF MarkPublished, InForm
<1>2. flow'[f].at = "idle" /\ \A g \in Flows \ {f} : flow'[g] = flow[g]
  BY WaitTypes DEF WaitContext, MarkPublished, Leaves, Stop, NoFlow
<1>3. draft'.status = "published" /\ draft'.data = draft.data /\ draft.status # "editing"
  BY <1>1 DEF MarkPublished, WaitContext, TypeOK, Drafts, FlowsArePinned, Working
<1>4. DataInOrder'
  BY <1>1, <1>3 DEF WaitContext, WaitInv, DataInOrder
<1>5. \A g \in Flows : Waiting(g)' /\ Saved(g)'
  BY <1>1, <1>2, <1>3 DEF WaitContext, WaitInv, Waiting, Saved
<1>6. SavesAreAwaited'
  BY <1>1, <1>2 DEF WaitContext, WaitInv, SavesAreAwaited
<1>7. BuiltAsPinned'
  BY <1>1, <1>2, <1>3, SameWhenPinned
<1>8. PinsAreWanted'
  BY <1>1, PinsStay
<1> QED
  BY <1>4, <1>5, <1>6, <1>7, <1>8 DEF WaitInv

\* What is pinned is what was saved for the launch that asked for it.
LEMMA PinWaits ==
  ASSUME WaitContext, NEW p \in pins, PinArrives(p) \/ PinFails(p)
  PROVE  WaitInv'
<1>0. PICK f \in Flows : f = p.flow /\ flow[f].at = "pin" /\ p.flow # None
  <2>1. p.flow # None /\ flow[p.flow].at = "pin"
    BY DEF WaitContext, WaitInv, PinsAreWanted, PinsAreAwaited
  <2>2. p.flow \in Flows
    BY <2>1 DEF WaitContext, TypeOK
  <2> QED
    BY <2>1, <2>2
<1>1. /\ UNCHANGED <<edits, page, chain, saves, InForm>> /\ BrowserOf[f] = b1
      /\ pins' = pins \ {p}
  <2>1. UNCHANGED <<edits, page, chain, saves>> /\ pins' = pins \ {p}
    BY DEF PinArrives, PinFails
  <2>2. BrowserOf[f] = b1
    BY <1>0 DEF WaitContext, WaitInv, Waiting
  <2>3. \/ UNCHANGED ui
        \/ ui' = [ui EXCEPT ![b1] = [ui[b1] EXCEPT !.signing = TRUE, !.pinned = p.template,
                                                   !.timer = FALSE]]
    BY <1>0, <2>2 DEF PinArrives, PinFails
  <2>4. InForm' = InForm
    <3>1. ui \in [Browsers -> Wizards]
      BY WaitTypes DEF WaitContext
    <3>2. ui[b1] \in Wizards
      BY <3>1, BrowserAssumption
    <3>3. [ui[b1] EXCEPT !.signing = TRUE, !.pinned = p.template, !.timer = FALSE].data
            = ui[b1].data
      BY <3>2 DEF Wizards
    <3> QED
      BY <2>3, <3>1, <3>3, BrowserAssumption DEF InForm
  <2> QED
    BY <2>1, <2>2, <2>4
<1>2. /\ flow'[f].at \in {"stage", "idle"}
      /\ flow'[f].at = "stage" => flow'[f].data = flow[f].data
      /\ \A g \in Flows \ {f} : flow'[g] = flow[g]
  <2>1. flow \in [Flows -> Launches] /\ flow[f] \in Launches
    BY WaitTypes DEF WaitContext
  <2>2. At(f, "stage") \/ Stop(f)
    BY <1>0 DEF PinArrives, PinFails, Pinning
  <2> QED
    BY <2>1, <2>2 DEF At, Stop, NoFlow, Launches
<1>3. /\ draft'.data = draft.data
      /\ draft'.status = "editing" => draft.status = "editing"
      /\ (ui[b1].signing)' => ui[b1].signing \/ draft'.status # "editing"
  BY DEF WaitContext, TypeOK, Drafts, PinArrives, PinFails, Pinned, MayPin
<1>4. draft.data = InForm
  BY <1>0 DEF WaitContext, WaitInv, Saved, DataInOrder
<1>5. draft.status # "editing" => draft'.status # "editing"
  BY <1>3
<1>6. DataInOrder'
  BY <1>1, <1>3, <1>4, <1>5 DEF WaitContext, WaitInv, DataInOrder
<1>7. \A g \in Flows : Waiting(g)' /\ Saved(g)'
  BY <1>0, <1>1, <1>2, <1>3 DEF WaitContext, WaitInv, Waiting, Saved, Working
<1>8. SavesAreAwaited'
  BY <1>0, <1>1, <1>2 DEF WaitContext, WaitInv, SavesAreAwaited
<1>9. BuiltAsPinned'
  BY <1>1, <1>2, <1>3, SameWhenPinned
<1>10. PinsAreWanted'
  BY <1>1, PinsStay
<1> QED
  BY <1>6, <1>7, <1>8, <1>9, <1>10 DEF WaitInv

LEMMA WaitKept ==
  ASSUME WaitContext, Waits!Next
  PROVE  WaitInv'
<1>1. edits \in Nat
  BY WaitTypes DEF WaitContext
<1>2. CASE RevealNears
  BY <1>1, <1>2, QuietWaits DEF RevealNears, InForm
<1>3. ASSUME NEW b \in Browsers, GoToLaunch(b) \/ BackToReview(b)
      PROVE  WaitInv'
  <2>1. InForm' = InForm /\ (ui[b1].signing)' = ui[b1].signing
    <3>1. CASE b = b1
      <4>1. ui[b1] \in Wizards /\ ui \in [Browsers -> Wizards]
        BY WaitTypes DEF WaitContext
      <4>2. \E step, timer : ui'[b1] = [ui[b1] EXCEPT !.step = step, !.timer = timer]
        <5>1. CASE GoToLaunch(b)
          <6>1. ui'[b1] = [ui[b1] EXCEPT !.step = "launch", !.timer = ~ui[b1].signing]
            BY <5>1, <3>1, <4>1, BrowserAssumption DEF GoToLaunch
          <6> QED
            BY <6>1
        <5>2. CASE BackToReview(b)
          <6>1. ui'[b1] = [ui[b1] EXCEPT !.step = "edit", !.timer = TRUE]
            BY <5>2, <3>1, <4>1, BrowserAssumption DEF BackToReview
          <6> QED
            BY <6>1
        <5> QED
          BY <1>3, <5>1, <5>2
      <4>3. \A step, timer :
              LET w == [ui[b1] EXCEPT !.step = step, !.timer = timer]
              IN w.data = ui[b1].data /\ w.signing = ui[b1].signing
        BY <4>1 DEF Wizards
      <4> QED
        BY <4>2, <4>3 DEF InForm
    <3>2. CASE b # b1
      BY <1>3, <3>2, WaitTypes, BrowserAssumption
        DEF WaitContext, GoToLaunch, BackToReview, InForm
    <3> QED
      BY <3>1, <3>2
  <2>2. UNCHANGED <<edits, draft, chain, page, saves, pins, flow>>
    BY <1>3 DEF GoToLaunch, BackToReview
  <2> QED
    BY <1>1, <2>1, <2>2, QuietWaits
<1> QED
  BY <1>2, <1>3, WaitSteps, EditWaits, AutosaveWaits, ReloadWaits, SaveArrivesWaits,
    SaveFailsWaits, PressWaits, PrepareWaits, ChainWaits, StopWaits, RefusedWaits, GoesOnWaits,
    InsertWaits, MarkWaits, PinWaits, Zenon

\* Every step of a creator who waits is a step of a creator.
LEMMA WaitsIsLaunch == Waits!Next => Next
BY WaitSteps, Zenon DEF Next, Wizard, Work, Server

\* The page shows the bundles that are in the treasury, however often the launch
\* is stopped, loaded again and resumed, whatever answers are lost, and with as
\* many edits before it: for a creator with one browser, who does not edit while
\* the launch runs, and with requests that keep their order.
THEOREM PageAlwaysTrue == SceneSpec => []PageIsTrue
<1> DEFINE Alike1 == TypeOK /\ FlowsArePinned /\ BuiltIsPinned /\ PinsAreAwaited
           Scene == Alike1 /\ (scene = "alone" => WaitInv)
<1>1. SceneInit => Scene
  <2>1. Init => Alike1
    BY InitTyped, InitInv DEF Inv
  <2>2. Init => WaitInv
    <3> SUFFICES ASSUME Init PROVE WaitInv
      OBVIOUS
    <3>1. /\ edits = 0 /\ draft.data = 0 /\ draft.status = "editing" /\ saves = {} /\ pins = {}
          /\ page.template = None /\ \A t \in Templates : chain[t].stage = "none"
      BY DEF Init
    <3>2. ui[b1] = Loaded
      BY BrowserAssumption DEF Init
    <3>3. InForm = 0 /\ ~ui[b1].signing
      <4>1. Loaded.data = draft.data /\ Loaded.signing = (draft.status = "signing")
        BY DEF Loaded
      <4> QED
        BY <3>1, <3>2, <4>1 DEF InForm
    <3>4. \A f \in Flows : flow[f].at = "idle"
      BY DEF Init, NoFlow
    <3> QED
      BY <3>1, <3>3, <3>4 DEF WaitInv, DataInOrder, Waiting, Saved, SavesAreAwaited,
        BuiltAsPinned, PinsAreWanted
  <2> QED
    BY <2>1, <2>2 DEF SceneInit
<1>2. Scene /\ [SceneNext]_<<scene, vars, session>> => Scene'
  <2> SUFFICES ASSUME Scene, [SceneNext]_<<scene, vars, session>> PROVE Scene'
    OBVIOUS
  <2>1. [Next]_vars /\ (scene' = "alone" => scene = "alone")
    BY WaitsIsLaunch DEF SceneNext
  <2>2. Alike1'
    BY <2>1, NextTyped, AwaitedStep, PinnedStep, BuiltStep DEF FlowTyped, TypeOK
  <2>3. CASE scene = "alone" /\ Waits!Next /\ Only({b1})
    BY <2>1, <2>2, <2>3, WaitKept DEF WaitContext
  <2>4. CASE UNCHANGED vars
    <3>1. WaitInv => WaitInv'
      BY <2>4 DEF vars, WaitInv, DataInOrder, Waiting, Saved, SavesAreAwaited,
        BuiltAsPinned, PinsAreWanted, InForm
    <3> QED
      BY <2>1, <2>2, <3>1
  <2>5. CASE scene # "alone"
    BY <2>1, <2>2, <2>5
  <2> QED
    BY <2>3, <2>4, <2>5 DEF SceneNext
<1>3. Scene => PageIsTrue
  BY DEF PageIsTrue, PageShowsTreasury, WaitInv, BuiltAsPinned, TypeOK
<1> HIDE DEF Scene
<1> QED
  BY <1>1, <1>2, <1>3, PTL DEF SceneSpec

-----------------------------------------------------------------------------
(* Signing in, and the draft: the types.                                   *)

Typed(T, W) == Of(T, W)!SessionAssumption /\ Of(T, W)!TypeOK

LEMMA LatestDraftTyped ==
  ASSUME NEW T, NEW W, Typed(T, W), NEW w
  PROVE  Of(T, W)!LatestDraft(w) \in Of(T, W)!Draft \union {None}
<1> DEFINE D == Of(T, W)!DraftsOf(w)
           at == [i \in D |-> drafts[i].at]
<1>1. D \subseteq Ids /\ IsFiniteSet(D)
  <2>1. PICK n \in Nat : Ids = 1 .. n
    BY DEF Typed, Of!SessionAssumption
  <2>2. IsFiniteSet(Ids)
    BY <2>1, FS_Interval
  <2> QED
    BY <2>2, FS_Subset DEF Of!DraftsOf
<1>2. \A i \in D : drafts[i] \in Of(T, W)!Row
  BY DEF Typed, Of!TypeOK, Of!DraftsOf
<1>3. \A i \in D : at[i] \in Int /\ drafts[i].data \in Of(T, W)!Versions
  BY <1>2 DEF Of!Row
<1>4. CASE D # {} /\ w # None
  <2> DEFINE Last(i) == \A j \in D : drafts[j].at <= drafts[i].at
  <2>1. \E i \in D : Last(i)
    <3> HIDE DEF D
    <3>1. \E i \in D : \A j \in D : at[j] <= at[i]
      <4> HIDE DEF at
      <4> QED
      BY <1>1, <1>3, <1>4, LargestExists
    <3> QED
      BY <3>1
  <2>2. (CHOOSE i \in D : Last(i)) \in D
    BY <2>1
  <2>3. Of(T, W)!LatestDraft(w) =
          [id |-> CHOOSE i \in D : Last(i), data |-> drafts[CHOOSE i \in D : Last(i)].data]
    BY <1>4 DEF Of!LatestDraft
  <2> HIDE DEF D, Last
  <2> QED
    BY <1>1, <1>3, <2>2, <2>3 DEF Of!Draft
<1>5. CASE ~ (D # {} /\ w # None)
  BY <1>5 DEF Of!LatestDraft
<1> QED
  BY <1>4, <1>5

LEMMA LatestTyped ==
  ASSUME NEW T, NEW W, Typed(T, W)
  PROVE  Of(T, W)!Latest \in Nat
<1> DEFINE D == {i \in Ids : drafts[i] # None}
           S == D \union {0}
           at == [i \in S |-> IF i = 0 THEN 0 ELSE drafts[i].at]
           M == Of(T, W)!Saved \union {0}
<1>1. IsFiniteSet(S) /\ 0 \notin D
  <2>1. PICK n \in Nat : Ids = 1 .. n
    BY DEF Typed, Of!SessionAssumption
  <2>2. IsFiniteSet(Ids)
    BY <2>1, FS_Interval
  <2>3. D \subseteq Ids
    OBVIOUS
  <2> HIDE DEF D
  <2>4. IsFiniteSet(D)
    BY <2>2, <2>3, FS_Subset
  <2> QED
    BY <2>1, <2>3, <2>4, FS_AddElement
<1>2. \A i \in D : drafts[i].at \in Nat
  <2>1. \A i \in D : drafts[i] \in Of(T, W)!Row
    BY DEF Typed, Of!TypeOK
  <2> QED
    BY <2>1 DEF Of!Row
<1>3. M = {at[i] : i \in S} /\ \A i \in S : at[i] \in Nat
  BY <1>1, <1>2 DEF Of!Saved
<1>4. \E i \in S : \A j \in S : at[j] <= at[i]
  <2>1. \A i \in S : at[i] \in Int
    BY <1>3
  <2>2. S # {}
    OBVIOUS
  <2> HIDE DEF S, at
  <2> QED
    BY <1>1, <2>1, <2>2, LargestExists
<1> HIDE DEF at, S
<1>5. \E x \in M : \A z_ \in M : x >= z_
  BY <1>3, <1>4
<1>6. M \subseteq Nat
  BY <1>3
<1> HIDE DEF M
<1>7. Of(T, W)!Max(M) \in Nat
  BY <1>5, <1>6 DEF Of!Max
<1> QED
  BY <1>7 DEF Of!Latest, M

LEMMA AddressTyped ==
  ASSUME NEW T, NEW W, Typed(T, W), NEW token \in Of(T, W)!Tokens \union {None}
  PROVE  Of(T, W)!Address(token) \in W \union {None}
<1>1. sessions \in [Of(T, W)!Tokens -> [address : W, expires : Nat] \union {None}]
  BY DEF Typed, Of!TypeOK
<1> QED
  BY <1>1 DEF Of!Address

LEMMA LoadedPageTyped ==
  ASSUME NEW T, NEW W, Typed(T, W), NEW t \in T
  PROVE  Of(T, W)!Loaded(t) \in Of(T, W)!Page
<1>1. jar \in Of(T, W)!Tokens \union {None} /\ tab[t] \in Of(T, W)!Page
  BY DEF Typed, Of!TypeOK
<1> QED
  BY <1>1, AddressTyped, LatestDraftTyped DEF Of!Loaded, Of!Page

LEMMA NewWizardTyped ==
  ASSUME NEW T, NEW W, Typed(T, W), NEW draft_ \in Of(T, W)!Draft \union {None},
         draft_ = None => fresh \in Ids
  PROVE  Of(T, W)!NewWizard(draft_) \in Of(T, W)!Wizard
<1>1. MaxTyped \in Nat
  BY DEF Typed, Of!SessionAssumption
<1> QED
  BY <1>1 DEF Of!NewWizard, Of!Wizard, Of!Draft, Of!Versions

\* What goes with a page has nobody who waits for it.
LEMMA UnreadTyped ==
  ASSUME NEW T, NEW W, Typed(T, W), NEW t \in T
  PROVE  /\ Of(T, W)!Unread(t) \subseteq Of(T, W)!Save
         /\ \A s \in Of(T, W)!Unread(t) : s.live => s \in posts /\ s.tab # t
         /\ \A s \in Of(T, W)!Unread(t) : \E q \in posts :
              s = q \/ s = [q EXCEPT !.live = FALSE]
<1>1. posts \subseteq Of(T, W)!Save
  BY DEF Typed, Of!TypeOK
<1>2. \A s \in Of(T, W)!Save :
        /\ [s EXCEPT !.live = FALSE] \in Of(T, W)!Save
        /\ ~[s EXCEPT !.live = FALSE].live
  BY DEF Of!Save
<1>3. Of(T, W)!Unread(t) =
        {IF s.tab = t THEN [s EXCEPT !.live = FALSE] ELSE s : s \in posts}
  BY DEF Of!Unread
<1> QED
  BY <1>1, <1>2, <1>3

LEMMA BecomesTyped ==
  ASSUME NEW T, NEW W, Typed(T, W), NEW t \in T, NEW page_ \in Of(T, W)!Page,
         page_.wizard = tab[t].wizard,
         Of(T, W)!Becomes(t, page_)
  PROVE  /\ tab' \in [T -> Of(T, W)!Page]
         /\ fresh' \in Nat
         /\ posts' \subseteq Of(T, W)!Save
<1> DEFINE shown == Of(T, W)!Shows(page_, t)
<1>1. /\ tab \in [T -> Of(T, W)!Page] /\ fresh \in Nat
  BY DEF Typed, Of!TypeOK
<1>2. page_.draft \in Of(T, W)!Draft \union {None} /\ tab[t].wizard \in Of(T, W)!Wizard \union {None}
  BY <1>1 DEF Of!Page
<1>3. shown \in Of(T, W)!Page
  <2>1. \/ shown = page_
        \/ shown = [page_ EXCEPT !.wizard = None]
        \/ shown = [page_ EXCEPT !.wizard = Of(T, W)!NewWizard(page_.draft)]
    BY DEF Of!Shows
  <2>2. CASE shown = [page_ EXCEPT !.wizard = Of(T, W)!NewWizard(page_.draft)]
    <3>1. shown.wizard = Of(T, W)!NewWizard(page_.draft)
      BY <2>2 DEF Of!Page
    <3>2. shown.wizard \in Of(T, W)!Wizard \union {None}
      <4>1. CASE shown.wizard = tab[t].wizard
        BY <4>1, <1>2
      <4>2. CASE shown.wizard = None
        BY <4>2
      <4>3. CASE shown.wizard # tab[t].wizard /\ shown.wizard # None
        <5>1. page_.draft = None => fresh \in Ids
          BY <4>3 DEF Of!Becomes, Of!Mounts
        <5> QED
          BY <1>2, <3>1, <5>1, NewWizardTyped
      <4> QED
        BY <4>1, <4>2, <4>3
    <3> QED
      BY <2>2, <3>1, <3>2 DEF Of!Page
  <2>3. CASE shown = [page_ EXCEPT !.wizard = None]
    BY <2>3 DEF Of!Page
  <2> QED
    BY <2>1, <2>2, <2>3
<1>4. tab' = [tab EXCEPT ![t] = shown] /\ fresh' \in {fresh, fresh + 1}
  BY DEF Of!Becomes
<1>5. posts' \in {posts, Of(T, W)!Unread(t)}
  BY DEF Of!Becomes
<1> HIDE DEF shown
<1>6. tab' \in [T -> Of(T, W)!Page]
  BY <1>1, <1>3, <1>4
<1>7. posts' \subseteq Of(T, W)!Save
  BY <1>5, UnreadTyped DEF Typed, Of!TypeOK
<1> QED
  BY <1>1, <1>4, <1>6, <1>7

\* A page keeps its type when parts of it take other values.
LEMMA PageParts ==
  ASSUME NEW T, NEW W, NEW p \in Of(T, W)!Page
  PROVE  /\ \A w \in W \union {None} : [p EXCEPT !.account = w] \in Of(T, W)!Page
         /\ \A w \in Of(T, W)!Wizard \union {None} : [p EXCEPT !.wizard = w] \in Of(T, W)!Page
         /\ \A b \in BOOLEAN : [p EXCEPT !.reload = b] \in Of(T, W)!Page
         /\ p.wizard \in Of(T, W)!Wizard \union {None}
         /\ p.draft \in Of(T, W)!Draft \union {None}
         /\ p.account \in W \union {None} /\ p.session \in W \union {None}
BY DEF Of!Page

LEMMA WizardParts ==
  ASSUME NEW T, NEW W, NEW w \in Of(T, W)!Wizard
  PROVE  /\ w.id \in Ids /\ w.data \in Of(T, W)!Versions
         /\ \A d \in Of(T, W)!Versions : [w EXCEPT !.data = d, !.timer = TRUE] \in Of(T, W)!Wizard
         /\ \A a \in BOOLEAN :
              [w EXCEPT !.timer = FALSE, !.status = "saving", !.sent = w.data, !.alone = a]
                \in Of(T, W)!Wizard
         /\ \A x \in {"saved", "error"} : [w EXCEPT !.status = x] \in Of(T, W)!Wizard
BY DEF Of!Wizard

\* The actions of the page.
LEMMA PageTyped ==
  ASSUME NEW T, NEW W, Typed(T, W), NEW t \in T,
         \/ \E w \in W \union {None} : Of(T, W)!SelectWallet(t, w)
         \/ Of(T, W)!Revalidate(t) \/ Of(T, W)!OpenPage(t)
  PROVE  Of(T, W)!TypeOK'
<1>1. /\ tab \in [T -> Of(T, W)!Page] /\ tab[t] \in Of(T, W)!Page /\ fresh \in Nat
      /\ auth \in [T -> Of(T, W)!Challenge \union {None}]
  BY DEF Typed, Of!TypeOK
<1>2. ASSUME NEW w \in W \union {None}, Of(T, W)!SelectWallet(t, w)
      PROVE  Of(T, W)!TypeOK'
  <2>1. [tab[t] EXCEPT !.account = w] \in Of(T, W)!Page
    BY <1>1, PageParts
  <2>2. [tab[t] EXCEPT !.account = w].wizard = tab[t].wizard
    BY <1>1 DEF Of!Page
  <2> QED
    BY <1>2, <2>1, <2>2, BecomesTyped DEF Typed, Of!TypeOK, Of!SelectWallet, Of!server
<1>3. CASE Of(T, W)!Revalidate(t)
  <2>1. Of(T, W)!Loaded(t).wizard = tab[t].wizard
    BY <1>1 DEF Of!Page, Of!Loaded
  <2> QED
    BY <1>3, <2>1, LoadedPageTyped, BecomesTyped DEF Typed, Of!TypeOK, Of!Revalidate, Of!server
<1>4. CASE Of(T, W)!OpenPage(t)
  <2> DEFINE p == [Of(T, W)!Loaded(t) EXCEPT !.wizard = None]
             shown == IF Of(T, W)!SignedIn(p)
                      THEN [p EXCEPT !.wizard = Of(T, W)!NewWizard(p.draft)] ELSE p
  <2>1. p \in Of(T, W)!Page
    BY LoadedPageTyped, PageParts
  <2>2. /\ Of(T, W)!SignedIn(p) /\ p.draft = None => fresh \in Ids
        /\ tab' = [tab EXCEPT ![t] = shown]
        /\ fresh' \in {fresh, fresh + 1}
        /\ auth' = [auth EXCEPT ![t] = None]
        /\ posts' = Of(T, W)!Unread(t)
        /\ UNCHANGED <<now, issued, nonces, sessions, drafts, typed, jar, verify, logout>>
    BY <1>4, <1>1 DEF Of!OpenPage, Of!server
  <2> HIDE DEF p
  <2>3. shown \in Of(T, W)!Page
    BY <2>1, <2>2, NewWizardTyped, PageParts
  <2> HIDE DEF shown
  <2>4. tab' \in [T -> Of(T, W)!Page] /\ fresh' \in Nat
    BY <1>1, <2>2, <2>3
  <2>5. posts' \subseteq Of(T, W)!Save
    BY <2>2, UnreadTyped
  <2>6. auth' \in [T -> Of(T, W)!Challenge \union {None}]
    BY <1>1, <2>2
  <2> QED
    BY <2>2, <2>4, <2>5, <2>6 DEF Typed, Of!TypeOK
<1> QED
  BY <1>2, <1>3, <1>4

\* What SendVerify sends.
Sends(T, W, t, m, extra) ==
  LET r == [message |-> m, at |-> "sent"]
  IN /\ auth[t] # None /\ nonces[auth[t].nonce] # None
     /\ m.nonce = auth[t].nonce /\ m.wallet = auth[t].wallet
     /\ m.issuedAt \in Int /\ m.expires = nonces[m.nonce].expires
     /\ m.issuedAt \in {m.expires - NonceTTL} \union now - ClockSkew .. now + ClockSkew
     /\ r \in Of(T, W)!Request /\ extra \in {r, None}
     /\ verify' = [verify EXCEPT ![<<t, 1>>] = r, ![<<t, 2>>] = extra]
     /\ auth' = [auth EXCEPT ![t] = [auth[t] EXCEPT !.sent = TRUE]]

LEMMA RequestTyped ==
  ASSUME NEW T, NEW W, Typed(T, W), NEW t \in T, NEW issuedAt \in Int,
         Of(T, W)!SendVerify(t, issuedAt)
  PROVE  \E m \in Of(T, W)!Message, extra \in Of(T, W)!Request \union {None} :
           Sends(T, W, t, m, extra)
<1>1. auth[t] \in Of(T, W)!Challenge /\ nonces[auth[t].nonce] # None
  BY DEF Typed, Of!TypeOK, Of!SendVerify
<1>2. auth[t].nonce \in Nonces /\ auth[t].wallet \in W
  BY <1>1 DEF Of!Challenge
<1>3. nonces[auth[t].nonce].expires \in Nat
  BY <1>1, <1>2 DEF Typed, Of!TypeOK, Of!NonceRow
<1> DEFINE m == [nonce |-> auth[t].nonce, wallet |-> auth[t].wallet,
                 issuedAt |-> issuedAt, expires |-> nonces[auth[t].nonce].expires]
           request == [message |-> m, at |-> "sent"]
<1>4. m \in Of(T, W)!Message
  BY <1>2, <1>3 DEF Of!Message
<1>5. request \in Of(T, W)!Request
  BY <1>4 DEF Of!Request
<1>6. \E extra \in Of(T, W)!Request \union {None} :
        extra \in {request, None} /\ verify' = [verify EXCEPT ![<<t, 1>>] = request, ![<<t, 2>>] = extra]
  BY <1>5 DEF Of!SendVerify
<1>7. /\ issuedAt \in {m.expires - NonceTTL} \union now - ClockSkew .. now + ClockSkew
      /\ auth[t] # None
      /\ auth' = [auth EXCEPT ![t] = [auth[t] EXCEPT !.sent = TRUE]]
  BY DEF Of!SendVerify, Of!IssueTimes
<1> QED
  BY <1>1, <1>4, <1>5, <1>6, <1>7 DEF Sends

\* The request for a challenge writes one row; expired rows go.
LEMMA UnexpiredTyped ==
  ASSUME NEW T, NEW W, NEW D, NEW R, NEW rows \in [D -> R \union {None}]
  PROVE  /\ Of(T, W)!Unexpired(rows) \in [D -> R \union {None}]
         /\ \A k \in D : Of(T, W)!Unexpired(rows)[k]
                = IF rows[k] # None /\ rows[k].expires < now THEN None ELSE rows[k]
BY DEF Of!Unexpired

LEMMA ChallengeTyped ==
  ASSUME NEW T, NEW W, Typed(T, W), NEW t \in T,
         \/ Of(T, W)!RequestChallenge(t) \/ Of(T, W)!SignInFails(t)
         \/ \E issuedAt \in Int : Of(T, W)!SendVerify(t, issuedAt)
  PROVE  Of(T, W)!TypeOK'
<1>1. /\ tab \in [T -> Of(T, W)!Page] /\ now \in Nat
      /\ nonces \in [Nonces -> Of(T, W)!NonceRow \union {None}]
      /\ auth \in [T -> Of(T, W)!Challenge \union {None}]
      /\ verify \in [T \X {1, 2} -> Of(T, W)!Request \union {None}]
      /\ NonceTTL \in Nat /\ ClockSkew \in Nat /\ MaxTime \in Nat
  BY DEF Typed, Of!TypeOK, Of!SessionAssumption, Of!Copies
<1>2. CASE Of(T, W)!RequestChallenge(t)
  <2> DEFINE row == [expires |-> now + NonceTTL, used |-> FALSE]
             asked == [nonce |-> issued', wallet |-> tab[t].account, sent |-> FALSE]
  <2>1. /\ issued' \in Nonces /\ issued' = issued + 1 /\ tab[t].account # None
        /\ nonces' = [Of(T, W)!Unexpired(nonces) EXCEPT ![issued'] = row]
        /\ auth' = [auth EXCEPT ![t] = asked]
        /\ UNCHANGED <<now, sessions, drafts, fresh, typed, jar, tab, verify, logout, posts>>
    BY <1>2 DEF Of!RequestChallenge
  <2>2. row \in Of(T, W)!NonceRow
    BY <1>1 DEF Of!NonceRow
  <2>3. tab[t].account \in W
    BY <1>1, <2>1 DEF Of!Page
  <2>4. asked \in Of(T, W)!Challenge
    BY <2>1, <2>3 DEF Of!Challenge
  <2> HIDE DEF row, asked
  <2>5. nonces' \in [Nonces -> Of(T, W)!NonceRow \union {None}]
    BY <1>1, <2>1, <2>2, UnexpiredTyped
  <2>6. auth' \in [T -> Of(T, W)!Challenge \union {None}]
    BY <1>1, <2>1, <2>4
  <2> QED
    BY <2>1, <2>5, <2>6 DEF Typed, Of!TypeOK
<1>3. CASE Of(T, W)!SignInFails(t)
  <2>1. auth' \in [T -> Of(T, W)!Challenge \union {None}]
    BY <1>1, <1>3 DEF Of!SignInFails
  <2> QED
    BY <1>3, <2>1 DEF Typed, Of!TypeOK, Of!SignInFails, Of!server
<1>4. ASSUME NEW issuedAt \in Int, Of(T, W)!SendVerify(t, issuedAt)
      PROVE  Of(T, W)!TypeOK'
  <2>2. PICK r \in Of(T, W)!Request, extra \in Of(T, W)!Request \union {None} :
           /\ verify' = [verify EXCEPT ![<<t, 1>>] = r, ![<<t, 2>>] = extra]
           /\ auth[t] # None
           /\ auth' = [auth EXCEPT ![t] = [auth[t] EXCEPT !.sent = TRUE]]
    <3>1. PICK m \in Of(T, W)!Message, extra \in Of(T, W)!Request \union {None} :
           Sends(T, W, t, m, extra)
      BY <1>4, RequestTyped
    <3> QED
      BY <3>1 DEF Sends
  <2>3. verify' \in [T \X {1, 2} -> Of(T, W)!Request \union {None}]
    <3>1. [verify EXCEPT ![<<t, 1>>] = r] \in [T \X {1, 2} -> Of(T, W)!Request \union {None}]
      BY <1>1
    <3>2. verify' = [[verify EXCEPT ![<<t, 1>>] = r] EXCEPT ![<<t, 2>>] = extra]
      BY <2>2
    <3> QED
      BY <3>1, <3>2
  <2>4. [auth[t] EXCEPT !.sent = TRUE] \in Of(T, W)!Challenge
    BY <1>1, <2>2 DEF Of!Challenge
  <2>5. auth' \in [T -> Of(T, W)!Challenge \union {None}]
    BY <1>1, <2>2, <2>4
  <2> QED
    BY <1>4, <2>3, <2>5 DEF Typed, Of!TypeOK, Of!SendVerify, Of!server, Of!Copies
<1> QED
  BY <1>2, <1>3, <1>4

LEMMA AnsweredTyped ==
  ASSUME NEW T, NEW W, Typed(T, W), NEW t \in T, NEW c, Of(T, W)!Answered(t, c)
  PROVE  /\ verify' \in [T \X Of(T, W)!Copies -> Of(T, W)!Request \union {None}]
         /\ auth' \in [T -> Of(T, W)!Challenge \union {None}]
BY DEF Typed, Of!TypeOK, Of!Answered, Of!Copies

LEMMA VerifyTyped ==
  ASSUME NEW T, NEW W, Typed(T, W), NEW t \in T, NEW c \in {1, 2},
         \/ Of(T, W)!ConsumeNonce(t, c) \/ Of(T, W)!RefuseVerify(t, c)
         \/ Of(T, W)!InsertSession(t, c) \/ Of(T, W)!LoseVerify(t, c)
  PROVE  Of(T, W)!TypeOK'
<1>1. /\ verify \in [T \X {1, 2} -> Of(T, W)!Request \union {None}]
      /\ nonces \in [Nonces -> Of(T, W)!NonceRow \union {None}]
      /\ sessions \in [Of(T, W)!Tokens -> [address : W, expires : Nat] \union {None}]
      /\ tab \in [T -> Of(T, W)!Page] /\ now \in Nat /\ SessionTTL \in Nat
  BY DEF Typed, Of!TypeOK, Of!SessionAssumption, Of!Copies
<1> DEFINE m == verify[<<t, c>>].message
<1>2. verify[<<t, c>>] # None => m \in Of(T, W)!Message /\ m.nonce \in Nonces /\ m.wallet \in W
  BY <1>1 DEF Of!Request, Of!Message
<1>3. CASE Of(T, W)!ConsumeNonce(t, c)
  <2>1. /\ verify[<<t, c>>] # None /\ nonces[m.nonce] # None
        /\ nonces' = [nonces EXCEPT ![m.nonce] = [nonces[m.nonce] EXCEPT !.used = TRUE]]
        /\ verify' = [verify EXCEPT ![<<t, c>>] = [verify[<<t, c>>] EXCEPT !.at = "consumed"]]
    BY <1>3 DEF Of!ConsumeNonce, Of!Consumable
  <2>2. [nonces[m.nonce] EXCEPT !.used = TRUE] \in Of(T, W)!NonceRow
    BY <1>1, <1>2, <2>1 DEF Of!NonceRow
  <2>3. [verify[<<t, c>>] EXCEPT !.at = "consumed"] \in Of(T, W)!Request
    BY <1>1, <2>1 DEF Of!Request
  <2>4. nonces' \in [Nonces -> Of(T, W)!NonceRow \union {None}]
    BY <1>1, <1>2, <2>1, <2>2
  <2>5. verify' \in [T \X {1, 2} -> Of(T, W)!Request \union {None}]
    BY <1>1, <2>1, <2>3
  <2> QED
    BY <1>3, <2>4, <2>5 DEF Typed, Of!TypeOK, Of!ConsumeNonce, Of!Copies
<1>4. CASE Of(T, W)!RefuseVerify(t, c) \/ Of(T, W)!LoseVerify(t, c)
  <2>1. Of(T, W)!Answered(t, c)
    BY <1>4 DEF Of!RefuseVerify, Of!LoseVerify
  <2>2. /\ verify' \in [T \X Of(T, W)!Copies -> Of(T, W)!Request \union {None}]
        /\ auth' \in [T -> Of(T, W)!Challenge \union {None}]
    BY <2>1, AnsweredTyped
  <2> QED
    BY <1>4, <2>2 DEF Typed, Of!TypeOK, Of!RefuseVerify, Of!LoseVerify, Of!server
<1>5. CASE Of(T, W)!InsertSession(t, c)
  <2> DEFINE row == [address |-> m.wallet, expires |-> now + SessionTTL]
  <2>1. /\ verify[<<t, c>>] # None /\ Of(T, W)!Answered(t, c)
        /\ sessions' = [Of(T, W)!Unexpired(sessions) EXCEPT ![<<m.nonce, c>>] = row]
        /\ jar' = IF c = 1 THEN <<m.nonce, 1>> ELSE jar
        /\ tab' = IF c = 1 THEN [tab EXCEPT ![t] = [tab[t] EXCEPT !.reload = TRUE]] ELSE tab
        /\ UNCHANGED <<now, issued, nonces, drafts, fresh, typed, logout, posts>>
    BY <1>5 DEF Of!InsertSession
  <2>2. row \in [address : W, expires : Nat]
    BY <1>1, <1>2, <2>1
  <2>3. <<m.nonce, c>> \in Of(T, W)!Tokens /\ <<m.nonce, 1>> \in Of(T, W)!Tokens
    BY <1>2, <2>1 DEF Of!Tokens, Of!Copies
  <2> HIDE DEF row, m
  <2>4. sessions' \in [Of(T, W)!Tokens -> [address : W, expires : Nat] \union {None}]
    BY <1>1, <2>1, <2>2, UnexpiredTyped
  <2>5. tab' \in [T -> Of(T, W)!Page]
    BY <1>1, <2>1, PageParts
  <2>6. jar' \in Of(T, W)!Tokens \union {None}
    BY <2>1, <2>3 DEF Typed, Of!TypeOK
  <2> QED
    <3>1. /\ verify' \in [T \X Of(T, W)!Copies -> Of(T, W)!Request \union {None}]
          /\ auth' \in [T -> Of(T, W)!Challenge \union {None}]
      BY <2>1, AnsweredTyped
    <3> QED
      BY <2>1, <2>4, <2>5, <2>6, <3>1 DEF Typed, Of!TypeOK
<1> QED
  BY <1>3, <1>4, <1>5

\* An answer that somebody waits for is one to what the wizard shown has sent.
Saving ==
  \A s \in posts : s.live => tab[s.tab].wizard # None /\ tab[s.tab].wizard.id = s.id

\* What the server does with a save.
Serves(T, W, s) ==
  \/ Of(T, W)!SaveChecked(s) \/ Of(T, W)!SaveWrites(s)
  \/ Of(T, W)!SaveFails(s) \/ Of(T, W)!SaveDropped(s)

\* An answer is written in the status of the wizard, if that has not gone.
LEMMA AnswerTyped ==
  ASSUME NEW T, NEW W, Typed(T, W), Saving, NEW s \in posts, s.live,
         NEW x \in {"saved", "error"},
         Of(T, W)!SetWizard(s.tab, [tab[s.tab].wizard EXCEPT !.status = x])
  PROVE  tab' \in [T -> Of(T, W)!Page]
<1>1. tab \in [T -> Of(T, W)!Page] /\ s.tab \in T
  <2>1. posts \subseteq Of(T, W)!Save
    BY DEF Typed, Of!TypeOK
  <2>2. s \in Of(T, W)!Save
    BY <2>1
  <2> QED
    BY <2>2 DEF Typed, Of!TypeOK, Of!Save
<1>2. tab[s.tab].wizard # None /\ tab[s.tab] \in Of(T, W)!Page
  BY <1>1 DEF Saving
<1>3. tab[s.tab].wizard \in Of(T, W)!Wizard
  BY <1>2, PageParts
<1>4. [tab[s.tab].wizard EXCEPT !.status = x] \in Of(T, W)!Wizard
  BY <1>3, WizardParts
<1>5. [tab[s.tab] EXCEPT !.wizard = [tab[s.tab].wizard EXCEPT !.status = x]]
        \in Of(T, W)!Page
  BY <1>2, <1>4, PageParts
<1> QED
  BY <1>1, <1>5 DEF Of!SetWizard

LEMMA ServesTyped ==
  ASSUME NEW T, NEW W, Typed(T, W), Saving, NEW s \in posts, Serves(T, W, s)
  PROVE  Of(T, W)!TypeOK'
<1>1. /\ posts \subseteq Of(T, W)!Save /\ s \in Of(T, W)!Save
      /\ tab \in [T -> Of(T, W)!Page]
      /\ drafts \in [Ids -> Of(T, W)!Row \union {None}]
  BY DEF Typed, Of!TypeOK
<1>2. /\ s.id \in Ids /\ s.data \in Of(T, W)!Versions /\ s.wallet \in W \union {None}
      /\ s.token \in Of(T, W)!Tokens \union {None}
      /\ [s EXCEPT !.live = FALSE] \in Of(T, W)!Save
      /\ \A w \in W : [s EXCEPT !.wallet = w] \in Of(T, W)!Save
  BY <1>1 DEF Of!Save
<1>3. UNCHANGED <<now, issued, nonces, sessions, fresh, typed, jar, auth, verify, logout>>
  BY DEF Serves, Of!SaveChecked, Of!SaveWrites, Of!SaveFails, Of!SaveDropped, Of!server
<1>4. tab' \in [T -> Of(T, W)!Page]
  <2>1. \/ UNCHANGED tab
        \/ s.live /\ \E x \in {"saved", "error"} :
             Of(T, W)!SetWizard(s.tab, [tab[s.tab].wizard EXCEPT !.status = x])
    BY DEF Serves, Of!SaveChecked, Of!SaveWrites, Of!SaveFails, Of!SaveDropped,
      Of!SaveAnswered
  <2> QED
    BY <1>1, <2>1, AnswerTyped
<1>5. posts' \subseteq Of(T, W)!Save
  <2>1. Of(T, W)!Address(s.token) \in W \union {None}
    BY <1>2, AddressTyped
  <2>2. \/ posts' = posts \ {s}
        \/ posts' = (posts \ {s}) \union {[s EXCEPT !.live = FALSE]}
        \/ \E w \in W : posts' = (posts \ {s}) \union {[s EXCEPT !.wallet = w]}
    BY <2>1 DEF Serves, Of!SaveChecked, Of!SaveWrites, Of!SaveFails, Of!SaveDropped,
      Of!SaveAnswered
  <2>3. ASSUME NEW q \in Of(T, W)!Save, posts' = (posts \ {s}) \union {q}
        PROVE  posts' \subseteq Of(T, W)!Save
    BY <1>1, <2>3
  <2>4. posts' = posts \ {s} => posts' \subseteq Of(T, W)!Save
    BY <1>1
  <2> QED
    BY <1>2, <2>2, <2>3, <2>4
<1>6. drafts' \in [Ids -> Of(T, W)!Row \union {None}]
  <2>1. \/ drafts' = drafts
        \/ s.wallet # None /\ drafts' = Of(T, W)!Upsert(s.wallet, s)
    BY DEF Serves, Of!SaveChecked, Of!SaveWrites, Of!SaveFails, Of!SaveDropped
  <2>2. Of(T, W)!Latest \in Nat
    BY LatestTyped
  <2>3. s.wallet # None =>
          [creator |-> s.wallet, data |-> s.data, at |-> Of(T, W)!Latest] \in Of(T, W)!Row
    BY <1>2, <2>2 DEF Of!Row
  <2> QED
    BY <1>1, <1>2, <2>1, <2>3 DEF Of!Upsert
<1> QED
  BY <1>3, <1>4, <1>5, <1>6 DEF Typed, Of!TypeOK

\* Signing out, and the draft.
LEMMA DraftTyped ==
  ASSUME NEW T, NEW W, Typed(T, W), NEW t \in T,
         \/ Of(T, W)!PressSignOut(t) \/ Of(T, W)!SignOut(t)
         \/ Of(T, W)!Edit(t) \/ Of(T, W)!Autosave(t)
  PROVE  Of(T, W)!TypeOK'
<1>1. /\ tab \in [T -> Of(T, W)!Page] /\ tab[t] \in Of(T, W)!Page
      /\ sessions \in [Of(T, W)!Tokens -> [address : W, expires : Nat] \union {None}]
      /\ logout \in [T -> [token : Of(T, W)!Tokens \union {None}] \union {None}]
      /\ posts \subseteq Of(T, W)!Save
      /\ jar \in Of(T, W)!Tokens \union {None}
      /\ drafts \in [Ids -> Of(T, W)!Row \union {None}]
      /\ MaxTyped \in Nat /\ typed \in 0 .. MaxTyped
  BY DEF Typed, Of!TypeOK, Of!SessionAssumption, Of!Versions
<1>2. tab[t].wizard # None => tab[t].wizard \in Of(T, W)!Wizard
  BY <1>1, PageParts
<1>3. CASE Of(T, W)!PressSignOut(t)
  <2>1. logout' \in [T -> [token : Of(T, W)!Tokens \union {None}] \union {None}]
    BY <1>1, <1>3 DEF Of!PressSignOut
  <2> QED
    BY <1>3, <2>1 DEF Typed, Of!TypeOK, Of!PressSignOut, Of!server
<1>4. CASE Of(T, W)!SignOut(t)
  <2>1. sessions' \in [Of(T, W)!Tokens -> [address : W, expires : Nat] \union {None}]
    BY <1>1, <1>4 DEF Of!SignOut, Of!DeleteSession
  <2>2. tab' \in [T -> Of(T, W)!Page]
    BY <1>1, <1>4, PageParts DEF Of!SignOut
  <2>3. logout' \in [T -> [token : Of(T, W)!Tokens \union {None}] \union {None}]
    BY <1>1, <1>4 DEF Of!SignOut
  <2> QED
    BY <1>4, <2>1, <2>2, <2>3 DEF Typed, Of!TypeOK, Of!SignOut, Of!server
<1>5. CASE Of(T, W)!Edit(t)
  <2>1. typed' \in Of(T, W)!Versions
    BY <1>1, <1>5 DEF Of!Edit, Of!Versions
  <2>2. tab' \in [T -> Of(T, W)!Page]
    BY <1>1, <1>2, <1>5, <2>1, PageParts, WizardParts DEF Of!Edit, Of!SetWizard
  <2> QED
    BY <1>5, <2>1, <2>2 DEF Typed, Of!TypeOK, Of!Edit, Of!server
<1>6. CASE Of(T, W)!Autosave(t)
  <2>1. tab' \in [T -> Of(T, W)!Page]
    BY <1>1, <1>2, <1>6, PageParts, WizardParts DEF Of!Autosave, Of!SetWizard
  <2>2. [tab |-> t, id |-> tab[t].wizard.id, data |-> tab[t].wizard.data, token |-> jar,
         wallet |-> None, live |-> TRUE] \in Of(T, W)!Save
    BY <1>1, <1>2, <1>6, WizardParts DEF Of!Autosave, Of!Save
  <2>3. posts' \subseteq Of(T, W)!Save
    BY <1>1, <1>6, <2>2 DEF Of!Autosave
  <2> QED
    BY <1>6, <2>1, <2>3 DEF Typed, Of!TypeOK, Of!Autosave, Of!server
<1> QED
  BY <1>3, <1>4, <1>5, <1>6

\* Every step is one of the actions.
LEMMA SessionSteps ==
  ASSUME NEW T, NEW W, Of(T, W)!SessionAssumption, Of(T, W)!Next
  PROVE  \/ \E t \in T :
              \/ \E w \in W \union {None} : Of(T, W)!SelectWallet(t, w)
              \/ Of(T, W)!Revalidate(t) \/ Of(T, W)!OpenPage(t)
         \/ \E t \in T :
              \/ Of(T, W)!RequestChallenge(t) \/ Of(T, W)!SignInFails(t)
              \/ \E issuedAt \in Int : Of(T, W)!SendVerify(t, issuedAt)
         \/ \E t \in T, c \in {1, 2} :
              \/ Of(T, W)!ConsumeNonce(t, c) \/ Of(T, W)!RefuseVerify(t, c)
              \/ Of(T, W)!InsertSession(t, c) \/ Of(T, W)!LoseVerify(t, c)
         \/ \E t \in T :
              \/ Of(T, W)!PressSignOut(t) \/ Of(T, W)!SignOut(t)
              \/ Of(T, W)!Edit(t) \/ Of(T, W)!Autosave(t)
         \/ \E s \in posts : Serves(T, W, s)
         \/ Of(T, W)!Tick
<1>1. -ClockSkew .. MaxTime + ClockSkew \subseteq Int
  BY DEF Of!SessionAssumption
<1> QED
  BY <1>1 DEF Of!Next, Of!Copies, Serves

LEMMA SessionTyped ==
  ASSUME NEW T, NEW W, Typed(T, W), Saving, Of(T, W)!Next \/ UNCHANGED Of(T, W)!vars
  PROVE  Typed(T, W)'
<1>1. Of(T, W)!SessionAssumption
  BY DEF Typed
<1>2. Of(T, W)!TypeOK'
  <2>1. CASE Of(T, W)!Tick
    <3>1. now' \in 0 .. MaxTime
      BY <2>1 DEF Typed, Of!TypeOK, Of!Tick, Of!SessionAssumption
    <3> QED
      BY <2>1, <3>1 DEF Typed, Of!TypeOK, Of!Tick, Of!server
  <2>2. CASE UNCHANGED Of(T, W)!vars
    BY <2>2 DEF Typed, Of!TypeOK, Of!vars
  <2> QED
    BY <1>1, <2>1, <2>2, SessionSteps, PageTyped, ChallengeTyped, VerifyTyped, DraftTyped,
      ServesTyped
<1> QED
  BY <1>1, <1>2 DEF Typed, Of!SessionAssumption

-----------------------------------------------------------------------------
(* A signature is used once, and its dates are those of its nonce.         *)

\* A nonce that was used, or whose row has expired, stays so.
Spent(last, rows, n) == n <= last /\ (rows[n] = None \/ rows[n].used)

Consumed(q) == verify[q] # None /\ verify[q].at = "consumed"

\* A request that has consumed its nonce is the only one with this nonce, and
\* its session is still to come.
OneUse(T) ==
  /\ \A n \in Nonces : nonces[n] # None =>
       n <= issued /\ NonceTTL <= nonces[n].expires /\ nonces[n].expires <= now + NonceTTL
  /\ \A t \in T : auth[t] # None => auth[t].nonce <= issued
  /\ \A q \in T \X {1, 2} : Consumed(q) =>
       /\ Spent(issued, nonces, verify[q].message.nonce)
       /\ \A c \in {1, 2} : sessions[<<verify[q].message.nonce, c>>] = None
       /\ \A r \in T \X {1, 2} :
            Consumed(r) /\ verify[r].message.nonce = verify[q].message.nonce => r = q
  /\ \A n \in Nonces, c \in {1, 2} : sessions[<<n, c>>] # None => Spent(issued, nonces, n)
  /\ \A n \in Nonces, c \in {1, 2}, d \in {1, 2} :
       sessions[<<n, c>>] # None /\ sessions[<<n, d>>] # None => c = d

\* A message has the dates of its nonce, which are of the past.
Dated(T) ==
  \A q \in T \X {1, 2} : verify[q] # None =>
    LET m == verify[q].message
    IN /\ m.nonce <= issued
       /\ m.expires - NonceTTL - ClockSkew <= m.issuedAt /\ m.issuedAt <= now + ClockSkew
       /\ IF nonces[m.nonce] = None THEN m.expires < now
          ELSE m.expires = nonces[m.nonce].expires

NonceRows == [expires : Nat, used : BOOLEAN]

SignInTyped(T) ==
  /\ now \in Nat /\ issued \in Nat /\ NonceTTL \in Nat /\ ClockSkew \in Nat
  /\ Nonces \subseteq Nat
  /\ nonces \in [Nonces -> NonceRows \union {None}] /\ None \notin NonceRows
  /\ DOMAIN sessions = Nonces \X {1, 2} /\ sessions = [k \in Nonces \X {1, 2} |-> sessions[k]]
  /\ DOMAIN auth = T /\ auth = [t \in T |-> auth[t]]
  /\ \A t \in T : auth[t] # None => auth[t].nonce \in Nonces
  /\ DOMAIN verify = T \X {1, 2} /\ verify = [q \in T \X {1, 2} |-> verify[q]]
  /\ \A q \in T \X {1, 2} : verify[q] # None =>
       /\ verify[q].message.nonce \in Nonces
       /\ verify[q].message.issuedAt \in Int /\ verify[q].message.expires \in Nat
       /\ verify[q] = [message |-> verify[q].message, at |-> verify[q].at]

LEMMA SignInTypes == ASSUME NEW T, NEW W, Typed(T, W) PROVE SignInTyped(T)
<1>1. PICK n \in Nat : Nonces = 1 .. n
  BY DEF Typed, Of!SessionAssumption
<1>2. Nonces \subseteq Nat /\ issued \in Nat /\ NonceTTL \in Nat /\ ClockSkew \in Nat /\ now \in Nat
  BY <1>1 DEF Typed, Of!TypeOK, Of!SessionAssumption
<1> None \notin NonceRows
  BY DEF Typed, Of!SessionAssumption, Of!NonceRow, NonceRows
<1>3. /\ nonces \in [Nonces -> NonceRows \union {None}]
      /\ sessions \in [Nonces \X {1, 2} -> [address : W, expires : Nat] \union {None}]
      /\ auth \in [T -> Of(T, W)!Challenge \union {None}]
      /\ verify \in [T \X {1, 2} -> Of(T, W)!Request \union {None}]
  BY DEF Typed, Of!TypeOK, Of!Tokens, Of!Copies, Of!NonceRow, NonceRows
<1>4. \A t \in T : auth[t] # None => auth[t].nonce \in Nonces
  BY <1>3 DEF Of!Challenge
<1>5. ASSUME NEW q \in T \X {1, 2}, verify[q] # None
      PROVE  /\ verify[q].message.nonce \in Nonces
             /\ verify[q].message.issuedAt \in Int /\ verify[q].message.expires \in Nat
             /\ verify[q] = [message |-> verify[q].message, at |-> verify[q].at]
  <2>1. verify[q] \in Of(T, W)!Request
    BY <1>3, <1>5
  <2> QED
    BY <2>1 DEF Of!Request, Of!Message
<1> QED
  BY <1>2, <1>3, <1>4, <1>5 DEF SignInTyped

LEMMA SignInQuiet ==
  ASSUME NEW T, SignInTyped(T), OneUse(T), Dated(T),
         UNCHANGED <<issued, nonces>>, now' \in {now, now + 1},
         \A t \in T : auth'[t] \in {auth[t], None},
         \A q \in T \X {1, 2} : verify'[q] \in {verify[q], None},
         \A k \in Nonces \X {1, 2} : sessions'[k] \in {sessions[k], None}
  PROVE  OneUse(T)' /\ Dated(T)'
<1>1. now' \in Nat /\ now <= now' /\ now \in Nat /\ NonceTTL \in Nat /\ ClockSkew \in Nat
  BY DEF SignInTyped
<1>2. \A n : Spent(issued, nonces, n) <=> Spent(issued', nonces', n)
  BY DEF Spent
<1>3. \A q \in T \X {1, 2} : Consumed(q)' => Consumed(q) /\ verify'[q] = verify[q]
  BY DEF Consumed
<1>4. \A n \in Nonces, c \in {1, 2} : sessions[<<n, c>>] = None => sessions'[<<n, c>>] = None
  OBVIOUS
<1>5. \A q \in T \X {1, 2} : verify[q] # None => verify[q].message.nonce \in Nonces
  BY DEF SignInTyped
<1>6. OneUse(T)'
  <2>1. \A n \in Nonces : nonces'[n] # None =>
          n <= issued' /\ NonceTTL <= nonces'[n].expires /\ nonces'[n].expires <= now' + NonceTTL
    <3>1. \A n \in Nonces : nonces[n] # None => nonces[n].expires \in Nat
      BY DEF SignInTyped, NonceRows
    <3> QED
      BY <1>1, <3>1 DEF OneUse
  <2>2. \A t \in T : auth'[t] # None => auth'[t].nonce <= issued'
    BY DEF OneUse
  <2>3. \A q \in T \X {1, 2} : Consumed(q)' =>
          /\ Spent(issued, nonces, verify'[q].message.nonce)
          /\ \A c \in {1, 2} : sessions'[<<verify'[q].message.nonce, c>>] = None
          /\ \A r \in T \X {1, 2} :
               Consumed(r)' /\ verify'[r].message.nonce = verify'[q].message.nonce => r = q
    <3>1. \A q \in T \X {1, 2} : Consumed(q) => verify[q].message.nonce \in Nonces
      BY <1>5 DEF Consumed
    <3> QED
      BY <1>3, <1>4, <3>1 DEF OneUse
  <2>4. \A n \in Nonces, c \in {1, 2} : sessions'[<<n, c>>] # None => Spent(issued, nonces, n)
    BY <1>4 DEF OneUse
  <2>5. \A n \in Nonces, c \in {1, 2}, d \in {1, 2} :
          sessions'[<<n, c>>] # None /\ sessions'[<<n, d>>] # None => c = d
    BY <1>4 DEF OneUse
  <2>6. \A n : (n <= issued' /\ (nonces'[n] = None \/ nonces'[n].used)) <=> Spent(issued, nonces, n)
    BY DEF Spent
  <2> QED
    BY <2>1, <2>2, <2>3, <2>4, <2>5, <2>6 DEF OneUse, Spent
<1>7. Dated(T)'
  <2> SUFFICES ASSUME NEW q \in T \X {1, 2}, verify'[q] # None
               PROVE  LET m == verify'[q].message
                      IN /\ m.nonce <= issued'
                         /\ m.expires - NonceTTL - ClockSkew <= m.issuedAt
                         /\ m.issuedAt <= now' + ClockSkew
                         /\ IF nonces'[m.nonce] = None THEN m.expires < now'
                            ELSE m.expires = nonces'[m.nonce].expires
    BY DEF Dated
  <2>1. verify'[q] = verify[q] /\ verify[q] # None
    OBVIOUS
  <2>2. verify[q].message.issuedAt \in Int /\ verify[q].message.expires \in Nat
    BY <2>1 DEF SignInTyped
  <2> QED
    BY <1>1, <2>1, <2>2 DEF Dated
<1> QED
  BY <1>6, <1>7

LEMMA RequestKeeps ==
  ASSUME NEW T, NEW W, SignInTyped(T), OneUse(T), Dated(T), NEW t \in T,
         Of(T, W)!RequestChallenge(t)
  PROVE  OneUse(T)' /\ Dated(T)'
<1> DEFINE row == [expires |-> now + NonceTTL, used |-> FALSE]
<1>1. /\ issued' = issued + 1 /\ issued' \in Nonces
      /\ nonces' = [Of(T, W)!Unexpired(nonces) EXCEPT ![issued'] = row]
      /\ auth' = [auth EXCEPT ![t] =
                    [nonce |-> issued', wallet |-> tab[t].account, sent |-> FALSE]]
      /\ UNCHANGED <<now, sessions, verify>>
  BY DEF Of!RequestChallenge
<1>2. /\ now \in Nat /\ NonceTTL \in Nat /\ issued \in Nat /\ Nonces \subseteq Nat
      /\ nonces \in [Nonces -> NonceRows \union {None}]
  BY DEF SignInTyped
<1> DEFINE left == Of(T, W)!Unexpired(nonces)
<1> left = [n \in Nonces |->
             IF nonces[n] # None /\ nonces[n].expires < now THEN None ELSE nonces[n]]
  BY <1>2 DEF Of!Unexpired
<1> nonces' = [left EXCEPT ![issued'] = row]
  BY <1>1
<1> HIDE DEF left
<1>3. \A n \in Nonces : n <= issued =>
        nonces'[n] = IF nonces[n] # None /\ nonces[n].expires < now THEN None ELSE nonces[n]
  BY <1>1, <1>2
<1>4. \A n \in Nonces : nonces'[n] # None /\ n # issued' => nonces'[n] = nonces[n]
  BY <1>1, <1>2
<1>5. nonces'[issued'] = row
  BY <1>1, <1>2
<1>6. \A n \in Nonces : Spent(issued, nonces, n) => n <= issued' /\ (nonces'[n] = None \/ nonces'[n].used)
  BY <1>1, <1>2, <1>3 DEF Spent
<1>7. OneUse(T)'
  <2>1. \A n \in Nonces : nonces'[n] # None =>
          n <= issued' /\ NonceTTL <= nonces'[n].expires /\ nonces'[n].expires <= now' + NonceTTL
    <3>1. \A n \in Nonces : nonces[n] # None => nonces[n].expires \in Nat
      BY <1>2 DEF NonceRows
    <3> QED
      BY <1>1, <1>2, <1>4, <1>5, <3>1 DEF OneUse
  <2>2. \A u \in T : auth'[u] # None => auth'[u].nonce <= issued'
    <3> SUFFICES ASSUME NEW u \in T, auth'[u] # None PROVE auth'[u].nonce <= issued'
      OBVIOUS
    <3>1. CASE u = t
      BY <1>1, <1>2, <3>1 DEF SignInTyped
    <3>2. CASE u # t
      <4>1. auth'[u] = auth[u]
        BY <1>1, <3>2 DEF SignInTyped
      <4>2. auth[u].nonce <= issued /\ auth[u].nonce \in Nat
        BY <1>2, <4>1 DEF OneUse, SignInTyped
      <4> QED
        BY <1>1, <1>2, <4>1, <4>2
    <3> QED
      BY <3>1, <3>2
  <2>3. \A q \in T \X {1, 2} : Consumed(q)' => Consumed(q) /\ verify[q].message.nonce \in Nonces
    BY <1>1 DEF Consumed, SignInTyped
  <2>4. \A q \in T \X {1, 2} : Consumed(q) => Consumed(q)'
    BY <1>1 DEF Consumed
  <2>5. \A n \in Nonces : Spent(issued, nonces, n) => Spent(issued', nonces', n)
    BY <1>6 DEF Spent
  <2>6. sessions' = sessions /\ verify' = verify
    BY <1>1
  <2>7. \A q \in T \X {1, 2} : Consumed(q)' =>
          /\ Spent(issued', nonces', verify'[q].message.nonce)
          /\ \A c \in {1, 2} : sessions'[<<verify'[q].message.nonce, c>>] = None
          /\ \A r \in T \X {1, 2} :
               Consumed(r)' /\ verify'[r].message.nonce = verify'[q].message.nonce => r = q
    BY <2>3, <2>5, <2>6 DEF OneUse
  <2>8. \A n \in Nonces, c \in {1, 2} : sessions'[<<n, c>>] # None => Spent(issued', nonces', n)
    BY <2>5, <2>6 DEF OneUse
  <2>9. \A n \in Nonces, c \in {1, 2}, d \in {1, 2} :
          sessions'[<<n, c>>] # None /\ sessions'[<<n, d>>] # None => c = d
    BY <2>6 DEF OneUse
  <2> QED
    BY <2>1, <2>2, <2>7, <2>8, <2>9 DEF OneUse
<1>8. Dated(T)'
  <2> SUFFICES ASSUME NEW q \in T \X {1, 2}, verify[q] # None
               PROVE  LET m == verify[q].message
                      IN /\ m.nonce <= issued'
                         /\ m.expires - NonceTTL - ClockSkew <= m.issuedAt
                         /\ m.issuedAt <= now + ClockSkew
                         /\ IF nonces'[m.nonce] = None THEN m.expires < now
                            ELSE m.expires = nonces'[m.nonce].expires
    BY <1>1 DEF Dated
  <2>1. verify[q].message.nonce \in Nonces
    BY DEF SignInTyped
  <2>2. verify[q].message.nonce <= issued
    BY DEF Dated
  <2>3. nonces[verify[q].message.nonce] # None
          => nonces[verify[q].message.nonce].expires \in Nat
    BY <1>2, <2>1 DEF NonceRows
  <2> DEFINE m == verify[q].message
  <2>4. m.nonce <= issued' /\ m.nonce \in Nonces /\ m.nonce <= issued
    <3>1. issued' = issued + 1
      BY <1>1
    <3>2. m.nonce \in Nat
      BY <1>2, <2>1
    <3> QED
      BY <1>2, <2>1, <2>2, <3>1, <3>2
  <2>5. /\ m.expires - NonceTTL - ClockSkew <= m.issuedAt /\ m.issuedAt <= now + ClockSkew
        /\ IF nonces[m.nonce] = None THEN m.expires < now
           ELSE m.expires = nonces[m.nonce].expires
    BY DEF Dated
  <2> HIDE DEF m
  <2>6. IF nonces'[m.nonce] = None THEN m.expires < now
        ELSE m.expires = nonces'[m.nonce].expires
    BY <1>3, <2>4, <2>5
  <2> QED
    BY <2>4, <2>5, <2>6 DEF m
<1> QED
  BY <1>7, <1>8

LEMMA SendKeeps ==
  ASSUME NEW T, NEW W, Typed(T, W), SignInTyped(T), OneUse(T), Dated(T), NEW t \in T,
         NEW issuedAt \in Int, Of(T, W)!SendVerify(t, issuedAt)
  PROVE  OneUse(T)' /\ Dated(T)'
<1>1. PICK m \in Of(T, W)!Message, extra \in Of(T, W)!Request \union {None} :
        Sends(T, W, t, m, extra)
  BY RequestTyped
<1> DEFINE r == [message |-> m, at |-> "sent"]
<1>2. UNCHANGED <<now, issued, nonces, sessions>>
  BY DEF Of!SendVerify, Of!server
<1>3. /\ extra \in {r, None}
      /\ verify' = [verify EXCEPT ![<<t, 1>>] = r, ![<<t, 2>>] = extra]
      /\ auth' = [auth EXCEPT ![t] = [auth[t] EXCEPT !.sent = TRUE]]
      /\ auth[t] # None /\ m.nonce = auth[t].nonce /\ nonces[m.nonce] # None
      /\ m.issuedAt \in Int /\ m.expires = nonces[m.nonce].expires
      /\ m.issuedAt \in {m.expires - NonceTTL} \union now - ClockSkew .. now + ClockSkew
  BY <1>1 DEF Sends
<1>4. \A q \in T \X {1, 2} : verify'[q] \in {verify[q], r, None}
  BY <1>3 DEF SignInTyped
<1>5. r.message = m /\ r.at = "sent"
  OBVIOUS
<1> HIDE DEF r
<1>6. \A q \in T \X {1, 2} : Consumed(q)' => Consumed(q) /\ verify'[q] = verify[q]
  BY <1>4, <1>5 DEF Consumed
<1>7. \A u \in T : auth'[u] # None => auth[u] # None /\ auth'[u].nonce = auth[u].nonce
  BY <1>3 DEF SignInTyped
<1>8. \A n : Spent(issued, nonces, n) <=> Spent(issued', nonces', n)
  BY <1>2 DEF Spent
<1>9. OneUse(T)'
  BY <1>2, <1>6, <1>7, <1>8 DEF OneUse
<1>10. Dated(T)'
  <2>1. /\ now \in Nat /\ NonceTTL \in Nat /\ ClockSkew \in Nat
        /\ m.nonce \in Nonces /\ nonces[m.nonce].expires \in Nat
    BY <1>3 DEF SignInTyped, NonceRows
  <2>2. /\ m.nonce <= issued /\ nonces[m.nonce].expires <= now + NonceTTL
    BY <1>3, <2>1 DEF OneUse
  <2>3. m.expires - NonceTTL - ClockSkew <= m.issuedAt /\ m.issuedAt <= now + ClockSkew
    BY <1>3, <2>1, <2>2
  <2> SUFFICES ASSUME NEW q \in T \X {1, 2}, verify'[q] # None
               PROVE  LET d == verify'[q].message
                      IN /\ d.nonce <= issued
                         /\ d.expires - NonceTTL - ClockSkew <= d.issuedAt
                         /\ d.issuedAt <= now + ClockSkew
                         /\ IF nonces[d.nonce] = None THEN d.expires < now
                            ELSE d.expires = nonces[d.nonce].expires
    BY <1>2 DEF Dated
  <2>4. CASE verify'[q] = verify[q]
    BY <2>4 DEF Dated
  <2>5. CASE verify'[q] = r
    BY <1>3, <1>5, <2>2, <2>3, <2>5
  <2> QED
    BY <1>4, <2>4, <2>5
<1> QED
  BY <1>9, <1>10

LEMMA ConsumeKeeps ==
  ASSUME NEW T, NEW W, SignInTyped(T), OneUse(T), Dated(T), NEW t \in T, NEW c \in {1, 2},
         Of(T, W)!ConsumeNonce(t, c)
  PROVE  OneUse(T)' /\ Dated(T)'
<1> DEFINE p == <<t, c>>
           n0 == verify[p].message.nonce
<1>1. /\ verify[p] # None /\ nonces[n0] # None /\ ~nonces[n0].used
      /\ nonces' = [nonces EXCEPT ![n0] = [nonces[n0] EXCEPT !.used = TRUE]]
      /\ verify' = [verify EXCEPT ![p] = [verify[p] EXCEPT !.at = "consumed"]]
      /\ UNCHANGED <<now, issued, sessions, auth>>
  BY DEF Of!ConsumeNonce, Of!Consumable
<1>2. /\ p \in T \X {1, 2} /\ n0 \in Nonces /\ ~Spent(issued, nonces, n0)
      /\ nonces \in [Nonces -> NonceRows \union {None}]
      /\ n0 <= issued
  BY <1>1 DEF SignInTyped, Spent, OneUse
<1>3. /\ \A n \in Nonces : n # n0 => nonces'[n] = nonces[n]
      /\ nonces'[n0].used /\ nonces'[n0].expires = nonces[n0].expires
      /\ nonces'[n0] # None
  <2>1. nonces[n0] \in NonceRows
    BY <1>1, <1>2
  <2>2. nonces'[n0] = [nonces[n0] EXCEPT !.used = TRUE]
    BY <1>1, <1>2
  <2>3. nonces'[n0].expires = nonces[n0].expires /\ nonces'[n0].used
    BY <2>1, <2>2 DEF NonceRows
  <2>4. \A n \in Nonces : n # n0 => nonces'[n] = nonces[n]
    BY <1>1, <1>2
  <2>5. nonces'[n0] # None
    BY <2>1, <2>2 DEF SignInTyped, NonceRows
  <2> QED
    BY <2>3, <2>4, <2>5
<1>4. verify'[p].message = verify[p].message
  <2>1. verify[p] = [message |-> verify[p].message, at |-> verify[p].at]
    BY <1>1, <1>2 DEF SignInTyped
  <2>2. verify'[p] = [verify[p] EXCEPT !.at = "consumed"]
    BY <1>1, <1>2 DEF SignInTyped
  <2> QED
    BY <2>1, <2>2
<1>5. \A q \in T \X {1, 2} : q # p => verify'[q] = verify[q]
  BY <1>1, <1>2 DEF SignInTyped
<1> HIDE DEF p, n0
<1>6. \A q \in T \X {1, 2} : Consumed(q)' => q = p \/ (Consumed(q) /\ q # p)
  BY <1>5 DEF Consumed
<1>7. \A n \in Nonces : Spent(issued', nonces', n) <=> Spent(issued, nonces, n) \/ n = n0
  BY <1>1, <1>2, <1>3 DEF Spent
<1>8. \A q \in T \X {1, 2} : Consumed(q) =>
        verify[q].message.nonce \in Nonces /\ verify[q].message.nonce # n0
  BY <1>2 DEF Consumed, OneUse, SignInTyped
<1>9. verify'[p].message.nonce = n0
  BY <1>4 DEF n0
<1>10. \A d \in {1, 2} : sessions[<<n0, d>>] = None
  BY <1>2 DEF OneUse
<1>11. OneUse(T)'
  <2>1. \A n \in Nonces : nonces'[n] # None =>
          n <= issued' /\ NonceTTL <= nonces'[n].expires /\ nonces'[n].expires <= now' + NonceTTL
    BY <1>1, <1>2, <1>3 DEF OneUse
  <2>2. \A u \in T : auth'[u] # None => auth'[u].nonce <= issued'
    BY <1>1 DEF OneUse
  <2>3. \A q \in T \X {1, 2} : Consumed(q)' =>
          /\ Spent(issued', nonces', verify'[q].message.nonce)
          /\ \A d \in {1, 2} : sessions'[<<verify'[q].message.nonce, d>>] = None
          /\ \A r \in T \X {1, 2} :
               Consumed(r)' /\ verify'[r].message.nonce = verify'[q].message.nonce => r = q
    <3> SUFFICES ASSUME NEW q \in T \X {1, 2}, Consumed(q)'
                 PROVE  /\ Spent(issued', nonces', verify'[q].message.nonce)
                        /\ \A d \in {1, 2} : sessions'[<<verify'[q].message.nonce, d>>] = None
                        /\ \A r \in T \X {1, 2} :
                             Consumed(r)' /\ verify'[r].message.nonce = verify'[q].message.nonce
                               => r = q
      OBVIOUS
    <3>1. CASE q = p
      BY <1>1, <1>2, <1>5, <1>6, <1>7, <1>8, <1>9, <1>10, <3>1
    <3>2. CASE q # p
      <4>1. Consumed(q) /\ verify'[q] = verify[q]
        BY <1>5, <1>6, <3>2
      <4>2. verify[q].message.nonce \in Nonces /\ verify[q].message.nonce # n0
        BY <1>8, <4>1
      <4>3. Spent(issued', nonces', verify[q].message.nonce)
        BY <1>7, <4>1, <4>2 DEF OneUse
      <4>4. \A d \in {1, 2} : sessions'[<<verify[q].message.nonce, d>>] = None
        BY <1>1, <4>1 DEF OneUse
      <4>5. \A r \in T \X {1, 2} :
              Consumed(r)' /\ verify'[r].message.nonce = verify[q].message.nonce => r = q
        BY <1>5, <1>6, <1>9, <4>1, <4>2 DEF OneUse
      <4> QED
        BY <4>1, <4>3, <4>4, <4>5
    <3> QED
      BY <3>1, <3>2
  <2>4. \A n \in Nonces, d \in {1, 2} : sessions'[<<n, d>>] # None => Spent(issued', nonces', n)
    BY <1>1, <1>7 DEF OneUse
  <2>5. \A n \in Nonces, d \in {1, 2}, e \in {1, 2} :
          sessions'[<<n, d>>] # None /\ sessions'[<<n, e>>] # None => d = e
    BY <1>1 DEF OneUse
  <2> QED
    BY <2>1, <2>2, <2>3, <2>4, <2>5 DEF OneUse
<1>12. Dated(T)'
  <2> SUFFICES ASSUME NEW q \in T \X {1, 2}, verify'[q] # None
               PROVE  LET m == verify'[q].message
                      IN /\ m.nonce <= issued
                         /\ m.expires - NonceTTL - ClockSkew <= m.issuedAt
                         /\ m.issuedAt <= now + ClockSkew
                         /\ IF nonces'[m.nonce] = None THEN m.expires < now
                            ELSE m.expires = nonces'[m.nonce].expires
    BY <1>1 DEF Dated
  <2>1. verify[q] # None /\ verify'[q].message = verify[q].message
    BY <1>1, <1>4, <1>5
  <2>2. verify[q].message.nonce \in Nonces
    BY <2>1 DEF SignInTyped
  <2>3. /\ nonces'[verify[q].message.nonce] = None <=> nonces[verify[q].message.nonce] = None
        /\ nonces'[verify[q].message.nonce] # None =>
             nonces'[verify[q].message.nonce].expires = nonces[verify[q].message.nonce].expires
    BY <1>1, <1>3, <2>2
  <2> QED
    BY <2>1, <2>3 DEF Dated
<1> QED
  BY <1>11, <1>12

LEMMA InsertKeeps ==
  ASSUME NEW T, NEW W, SignInTyped(T), OneUse(T), Dated(T), NEW t \in T, NEW c \in {1, 2},
         Of(T, W)!InsertSession(t, c)
  PROVE  OneUse(T)' /\ Dated(T)'
<1> DEFINE p == <<t, c>>
           n0 == verify[p].message.nonce
           row == [address |-> verify[p].message.wallet, expires |-> now + SessionTTL]
           left == Of(T, W)!Unexpired(sessions)
<1>1. /\ verify[p] # None /\ verify[p].at = "consumed"
      /\ sessions' = [left EXCEPT ![<<n0, c>>] = row]
      /\ verify' = [verify EXCEPT ![p] = None]
      /\ auth' = auth \/ auth' = [auth EXCEPT ![t] = None]
      /\ UNCHANGED <<now, issued, nonces>>
  BY DEF Of!InsertSession, Of!Answered
<1>2. p \in T \X {1, 2} /\ Consumed(p) /\ n0 \in Nonces
  BY <1>1 DEF SignInTyped, Consumed
<1> DEFINE kept == [sessions EXCEPT ![<<n0, c>>] = row]
<1>3. /\ \A k \in Nonces \X {1, 2} : k # <<n0, c>> => sessions'[k] \in {sessions[k], None}
  <2>1. left = [k \in Nonces \X {1, 2} |->
                 IF sessions[k] # None /\ sessions[k].expires < now THEN None ELSE sessions[k]]
    BY DEF Of!Unexpired, SignInTyped
  <2> HIDE DEF left, p
  <2> QED
    BY <1>1, <1>2, <2>1
<1> HIDE DEF p, n0, row, left
<1>4. /\ \A q \in T \X {1, 2} : verify'[q] \in {verify[q], None}
      /\ verify'[p] = None
      /\ \A u \in T : auth'[u] \in {auth[u], None}
  BY <1>1, <1>2 DEF SignInTyped
<1>5. \A q \in T \X {1, 2} : Consumed(q)' => verify'[q] = verify[q] /\ Consumed(q) /\ q # p
  BY <1>4 DEF Consumed
<1>6. \A q \in T \X {1, 2} : Consumed(q) /\ q # p =>
        verify[q].message.nonce \in Nonces /\ verify[q].message.nonce # n0
  BY <1>2 DEF Consumed, OneUse, SignInTyped, n0
<1>7. Spent(issued, nonces, n0) /\ \A d \in {1, 2} : sessions[<<n0, d>>] = None
  BY <1>2 DEF OneUse, n0
<1>8. \A n : Spent(issued, nonces, n) <=> Spent(issued', nonces', n)
  BY <1>1 DEF Spent
<1>9. \A n \in Nonces, d \in {1, 2} :
        n # n0 /\ sessions[<<n, d>>] = None => sessions'[<<n, d>>] = None
  BY <1>3
<1>10. \A d \in {1, 2} : d # c => sessions'[<<n0, d>>] = None
  BY <1>2, <1>3, <1>7
<1>11. OneUse(T)'
  <2>1. \A n \in Nonces : nonces'[n] # None =>
          n <= issued' /\ NonceTTL <= nonces'[n].expires /\ nonces'[n].expires <= now' + NonceTTL
    BY <1>1 DEF OneUse
  <2>2. \A u \in T : auth'[u] # None => auth'[u].nonce <= issued'
    BY <1>1, <1>4 DEF OneUse
  <2>3. \A q \in T \X {1, 2} : Consumed(q)' =>
          /\ Spent(issued', nonces', verify'[q].message.nonce)
          /\ \A d \in {1, 2} : sessions'[<<verify'[q].message.nonce, d>>] = None
          /\ \A r \in T \X {1, 2} :
               Consumed(r)' /\ verify'[r].message.nonce = verify'[q].message.nonce => r = q
    BY <1>5, <1>6, <1>8, <1>9 DEF OneUse
  <2>4. \A n \in Nonces, d \in {1, 2} : sessions'[<<n, d>>] # None => Spent(issued', nonces', n)
    BY <1>7, <1>8, <1>9 DEF OneUse
  <2>5. \A n \in Nonces, d \in {1, 2}, e \in {1, 2} :
          sessions'[<<n, d>>] # None /\ sessions'[<<n, e>>] # None => d = e
    BY <1>9, <1>10 DEF OneUse
  <2> QED
    BY <2>1, <2>2, <2>3, <2>4, <2>5 DEF OneUse
<1>12. Dated(T)'
  BY <1>1, <1>4 DEF Dated
<1> QED
  BY <1>11, <1>12

\* What does not sign in only takes away requests and sessions.
LEMMA SignInKeeps ==
  ASSUME NEW T, NEW W, Typed(T, W), OneUse(T), Dated(T),
         Of(T, W)!Next \/ UNCHANGED Of(T, W)!vars
  PROVE  OneUse(T)' /\ Dated(T)'
<1>1. SignInTyped(T) /\ Of(T, W)!SessionAssumption
  BY SignInTypes DEF Typed
<1> DEFINE Quiet == /\ UNCHANGED <<issued, nonces>> /\ now' \in {now, now + 1}
                    /\ \A t \in T : auth'[t] \in {auth[t], None}
                    /\ \A q \in T \X {1, 2} : verify'[q] \in {verify[q], None}
                    /\ \A k \in Nonces \X {1, 2} : sessions'[k] \in {sessions[k], None}
<1>2. Quiet => OneUse(T)' /\ Dated(T)'
  BY <1>1, SignInQuiet
<1>3. \A t \in T : auth = [u \in T |-> auth[u]] /\ verify = [q \in T \X {1, 2} |-> verify[q]]
                  /\ sessions = [k \in Nonces \X {1, 2} |-> sessions[k]]
  BY <1>1 DEF SignInTyped
<1>4. UNCHANGED Of(T, W)!vars \/ Of(T, W)!Tick => Quiet
  BY DEF Of!vars, Of!Tick, Of!server
<1>5. ASSUME NEW t \in T,
             \/ \E w \in W \union {None} : Of(T, W)!SelectWallet(t, w)
             \/ Of(T, W)!Revalidate(t) \/ Of(T, W)!OpenPage(t) \/ Of(T, W)!SignInFails(t)
      PROVE  Quiet
  BY <1>3, <1>5 DEF Of!SelectWallet, Of!Revalidate, Of!OpenPage, Of!SignInFails, Of!server
<1>6. ASSUME NEW t \in T, NEW c \in {1, 2}, Of(T, W)!RefuseVerify(t, c) \/ Of(T, W)!LoseVerify(t, c)
      PROVE  Quiet
  BY <1>3, <1>6 DEF Of!RefuseVerify, Of!LoseVerify, Of!Answered, Of!server
<1>7. ASSUME NEW t \in T,
             \/ Of(T, W)!PressSignOut(t) \/ Of(T, W)!SignOut(t)
             \/ Of(T, W)!Edit(t) \/ Of(T, W)!Autosave(t)
      PROVE  Quiet
  BY <1>3, <1>7 DEF Of!PressSignOut, Of!SignOut, Of!DeleteSession, Of!Edit, Of!Autosave,
       Of!server
<1>8. ASSUME NEW s \in posts, Serves(T, W, s) PROVE Quiet
  BY <1>8 DEF Serves, Of!SaveChecked, Of!SaveWrites, Of!SaveFails, Of!SaveDropped, Of!server
<1> HIDE DEF Quiet
<1> QED
  BY <1>1, <1>2, <1>4, <1>5, <1>6, <1>7, <1>8, SessionSteps, RequestKeeps, SendKeeps, ConsumeKeeps,
     InsertKeeps

-----------------------------------------------------------------------------
(* A wizard stays with its wallet and with its saves.                      *)

\* Where a wizard is shown, the page is signed in.
Shown(T, W) == \A t \in T : tab[t].wizard # None => Of(T, W)!SignedIn(tab[t])

LEMMA SavesTyped ==
  ASSUME NEW T, NEW W, Typed(T, W), NEW s \in posts
  PROVE  /\ s \in Of(T, W)!Save /\ s.tab \in T /\ s.id \in Ids
         /\ s.data \in Of(T, W)!Versions /\ s.token \in Of(T, W)!Tokens \union {None}
         /\ s.wallet \in W \union {None}
<1>1. posts \subseteq Of(T, W)!Save
  BY DEF Typed, Of!TypeOK
<1>2. s \in Of(T, W)!Save
  BY <1>1
<1> QED
  BY <1>2 DEF Of!Save

LEMMA BecomesKeeps ==
  ASSUME NEW T, NEW W, Typed(T, W), Saving, Shown(T, W), NEW t \in T,
         NEW page_ \in Of(T, W)!Page, page_.wizard = tab[t].wizard,
         Of(T, W)!Becomes(t, page_)
  PROVE  Saving' /\ Shown(T, W)'
<1> DEFINE shown == Of(T, W)!Shows(page_, t)
           left == Of(T, W)!Unread(t)
<1>1. tab \in [T -> Of(T, W)!Page]
  BY DEF Typed, Of!TypeOK
<1>2. tab' = [tab EXCEPT ![t] = shown]
  BY DEF Of!Becomes
<1>3. posts' = IF tab[t].wizard # None /\ shown.wizard # tab[t].wizard THEN left ELSE posts
  BY DEF Of!Becomes
<1>4. shown.wizard # None => Of(T, W)!SignedIn(shown)
  <2>1. \/ shown = page_ /\ Of(T, W)!SignedIn(page_)
        \/ shown = [page_ EXCEPT !.wizard = None]
        \/ shown = [page_ EXCEPT !.wizard = Of(T, W)!NewWizard(page_.draft)]
             /\ Of(T, W)!SignedIn(page_)
    BY DEF Of!Shows
  <2> QED
    BY <2>1 DEF Of!SignedIn, Of!Page
<1>5. \A s \in left : s.live => s \in posts /\ s.tab # t
  BY UnreadTyped
<1> HIDE DEF shown, left
<1>6. Shown(T, W)'
  BY <1>1, <1>2, <1>4 DEF Shown, Of!SignedIn
<1>7. Saving'
  <2> SUFFICES ASSUME NEW s \in posts', s.live
               PROVE  tab'[s.tab].wizard # None /\ tab'[s.tab].wizard.id = s.id
    BY DEF Saving
  <2>1. s \in posts /\ (s.tab = t => posts' = posts)
    BY <1>3, <1>5
  <2>2. s.tab \in T /\ tab[s.tab].wizard # None /\ tab[s.tab].wizard.id = s.id
    BY <2>1, SavesTyped DEF Saving
  <2>3. s.tab = t => shown.wizard = tab[t].wizard
    BY <1>3, <1>5, <2>2
  <2>4. tab'[s.tab].wizard = tab[s.tab].wizard
    BY <1>1, <1>2, <2>2, <2>3
  <2> QED
    BY <2>2, <2>4
<1> QED
  BY <1>6, <1>7

\* A tab that keeps its wallet and its wizard, which may be changed.
Calm(t) ==
  /\ tab'[t].account = tab[t].account /\ tab'[t].session = tab[t].session
  /\ IF tab[t].wizard = None THEN tab'[t].wizard = None
     ELSE tab'[t].wizard # None /\ tab'[t].wizard.id = tab[t].wizard.id

LEMMA CalmKeeps ==
  ASSUME NEW T, NEW W, Shown(T, W), \A t \in T : Calm(t),
         \A s \in posts' : s.live =>
           s.tab \in T /\ tab[s.tab].wizard # None /\ tab[s.tab].wizard.id = s.id
  PROVE  Saving' /\ Shown(T, W)'
BY DEF Calm, Saving, Shown, Of!SignedIn

LEMMA AltersCalmly ==
  ASSUME NEW T, NEW W, Typed(T, W), NEW t \in T, tab[t].wizard # None,
         NEW v \in Of(T, W)!Wizard, v.id = tab[t].wizard.id, Of(T, W)!SetWizard(t, v)
  PROVE  /\ \A u \in T : Calm(u)
         /\ tab'[t].wizard = v /\ \A u \in T \ {t} : tab'[u] = tab[u]
<1>1. tab \in [T -> Of(T, W)!Page] /\ None \notin Of(T, W)!Wizard
  BY DEF Typed, Of!TypeOK, Of!SessionAssumption
<1>2. tab' = [tab EXCEPT ![t] = [tab[t] EXCEPT !.wizard = v]]
  BY DEF Of!SetWizard
<1>3. /\ tab'[t].wizard = v /\ tab'[t].account = tab[t].account
      /\ tab'[t].session = tab[t].session
      /\ \A u \in T \ {t} : tab'[u] = tab[u]
  BY <1>1, <1>2 DEF Of!Page
<1> QED
  BY <1>1, <1>3 DEF Calm

LEMMA OpenKeeps ==
  ASSUME NEW T, NEW W, Typed(T, W), Saving, Shown(T, W), NEW t \in T, Of(T, W)!OpenPage(t)
  PROVE  Saving' /\ Shown(T, W)'
<1> DEFINE p == [Of(T, W)!Loaded(t) EXCEPT !.wizard = None]
           shown == IF Of(T, W)!SignedIn(p)
                    THEN [p EXCEPT !.wizard = Of(T, W)!NewWizard(p.draft)] ELSE p
<1>1. tab \in [T -> Of(T, W)!Page]
  BY DEF Typed, Of!TypeOK
<1>2. tab' = [tab EXCEPT ![t] = shown] /\ posts' = Of(T, W)!Unread(t)
  BY DEF Of!OpenPage
<1>3. p \in Of(T, W)!Page /\ p.wizard = None
  BY LoadedPageTyped, PageParts DEF Of!Page
<1> HIDE DEF p
<1>4. shown.wizard # None => Of(T, W)!SignedIn(shown)
  BY <1>3 DEF Of!Page, Of!SignedIn
<1> HIDE DEF shown
<1>5. Shown(T, W)'
  BY <1>1, <1>2, <1>4 DEF Shown, Of!SignedIn
<1>6. \A s \in posts' : s.live => s \in posts /\ s.tab # t
  BY <1>2, UnreadTyped
<1>7. \A s \in posts' : s.live => tab'[s.tab] = tab[s.tab]
  BY <1>1, <1>2, <1>6, SavesTyped
<1>8. Saving'
  BY <1>6, <1>7 DEF Saving
<1> QED
  BY <1>5, <1>8

LEMMA DraftKeeps ==
  ASSUME NEW T, NEW W, Typed(T, W), Saving, Shown(T, W), NEW t \in T,
         Of(T, W)!Edit(t) \/ Of(T, W)!Autosave(t)
  PROVE  Saving' /\ Shown(T, W)'
<1> DEFINE w == tab[t].wizard
<1>1. w # None /\ w \in Of(T, W)!Wizard
  <2>1. w # None /\ tab[t] \in Of(T, W)!Page
    BY DEF Of!Edit, Of!Autosave, Typed, Of!TypeOK
  <2> QED
    BY <2>1, PageParts
<1>2. \A s \in posts : s.live => s.tab \in T /\ tab[s.tab].wizard # None
                                 /\ tab[s.tab].wizard.id = s.id
  BY SavesTyped DEF Saving
<1>3. CASE Of(T, W)!Edit(t)
  <2> DEFINE v == [w EXCEPT !.data = typed', !.timer = TRUE]
  <2>1. Of(T, W)!SetWizard(t, v) /\ posts' = posts
    BY <1>3 DEF Of!Edit
  <2>2. typed' \in Of(T, W)!Versions
    BY <1>3 DEF Of!Edit, Of!Versions, Typed, Of!TypeOK, Of!SessionAssumption
  <2>3. v \in Of(T, W)!Wizard
    BY <1>1, <2>2, WizardParts
  <2>4. v.id = w.id
    BY <1>1 DEF Of!Wizard
  <2> HIDE DEF v
  <2>5. \A u \in T : Calm(u)
    BY <1>1, <2>1, <2>3, <2>4, AltersCalmly
  <2> QED
    BY <1>2, <2>1, <2>5, CalmKeeps
<1>4. CASE Of(T, W)!Autosave(t)
  <2>1. PICK a \in BOOLEAN : Of(T, W)!SetWizard(t,
          [w EXCEPT !.timer = FALSE, !.status = "saving", !.sent = w.data, !.alone = a])
    BY <1>4 DEF Of!Autosave
  <2> DEFINE v == [w EXCEPT !.timer = FALSE, !.status = "saving", !.sent = w.data, !.alone = a]
             save == [tab |-> t, id |-> w.id, data |-> w.data, token |-> jar,
                      wallet |-> None, live |-> TRUE]
  <2>2. posts' = posts \union {save}
    BY <1>4 DEF Of!Autosave
  <2>3. v \in Of(T, W)!Wizard
    BY <1>1, WizardParts
  <2>4. v.id = w.id
    BY <1>1 DEF Of!Wizard
  <2>5. save.tab = t /\ save.id = w.id
    OBVIOUS
  <2> HIDE DEF save, v
  <2>6. \A u \in T : Calm(u)
    <3>1. Of(T, W)!SetWizard(t, v)
      BY <2>1 DEF v
    <3> QED
      BY <1>1, <2>3, <2>4, <3>1, AltersCalmly
  <2>7. \A s \in posts' : s.live => s.tab \in T /\ tab[s.tab].wizard # None
                                    /\ tab[s.tab].wizard.id = s.id
    BY <1>1, <1>2, <2>2, <2>5
  <2> QED
    BY <2>6, <2>7, CalmKeeps
<1> QED
  BY <1>3, <1>4

\* What an answer does to the tabs.
LEMMA AnswerCalm ==
  ASSUME NEW T, NEW W, Typed(T, W), Saving, NEW s \in posts, s.live,
         NEW x \in {"saved", "error"},
         Of(T, W)!SetWizard(s.tab, [tab[s.tab].wizard EXCEPT !.status = x])
  PROVE  /\ \A u \in T : Calm(u)
         /\ tab'[s.tab].wizard = [tab[s.tab].wizard EXCEPT !.status = x]
         /\ tab[s.tab].wizard \in Of(T, W)!Wizard
<1>1. /\ s.tab \in T /\ tab[s.tab].wizard # None /\ tab[s.tab] \in Of(T, W)!Page
  BY SavesTyped DEF Saving, Typed, Of!TypeOK
<1>2. tab[s.tab].wizard \in Of(T, W)!Wizard
  BY <1>1, PageParts
<1>3. PICK v : v = [tab[s.tab].wizard EXCEPT !.status = x]
  OBVIOUS
<1>4. v \in Of(T, W)!Wizard
  BY <1>2, <1>3, WizardParts
<1>5. v.id = tab[s.tab].wizard.id
  BY <1>2, <1>3 DEF Of!Wizard
<1>6. Of(T, W)!SetWizard(s.tab, v)
  BY <1>3
<1>7. (\A u \in T : Calm(u)) /\ tab'[s.tab].wizard = v
  BY <1>1, <1>4, <1>5, <1>6, AltersCalmly
<1> QED
  BY <1>2, <1>3, <1>7

LEMMA ServesKeeps ==
  ASSUME NEW T, NEW W, Typed(T, W), Saving, Shown(T, W), NEW s \in posts, Serves(T, W, s)
  PROVE  Saving' /\ Shown(T, W)'
<1>1. \/ UNCHANGED tab
      \/ s.live /\ \E x \in {"saved", "error"} :
           Of(T, W)!SetWizard(s.tab, [tab[s.tab].wizard EXCEPT !.status = x])
  BY DEF Serves, Of!SaveChecked, Of!SaveWrites, Of!SaveFails, Of!SaveDropped,
    Of!SaveAnswered
<1>2. \A u \in T : Calm(u)
  BY <1>1, AnswerCalm DEF Calm
<1>3. s \in Of(T, W)!Save
  BY SavesTyped
<1>4. \A r \in posts' : r.live => \E q \in posts : q.live /\ q.tab = r.tab /\ q.id = r.id
  <2>1. \/ posts' = posts \ {s}
        \/ posts' = (posts \ {s}) \union {[s EXCEPT !.live = FALSE]}
        \/ posts' = (posts \ {s}) \union {[s EXCEPT !.wallet = Of(T, W)!Address(s.token)]}
    BY DEF Serves, Of!SaveChecked, Of!SaveWrites, Of!SaveFails, Of!SaveDropped,
      Of!SaveAnswered
  <2>2. ASSUME NEW w, NEW r, r = [s EXCEPT !.wallet = w]
        PROVE  r.live = s.live /\ r.tab = s.tab /\ r.id = s.id
    BY <1>3, <2>2 DEF Of!Save
  <2>3. ~[s EXCEPT !.live = FALSE].live
    BY <1>3 DEF Of!Save
  <2> QED
    BY <2>1, <2>2, <2>3
<1>5. \A r \in posts' : r.live => r.tab \in T /\ tab[r.tab].wizard # None
                                  /\ tab[r.tab].wizard.id = r.id
  BY <1>4, SavesTyped DEF Saving
<1> QED
  BY <1>2, <1>5, CalmKeeps

\* The steps that leave every wizard with its wallet.
LEMMA SessionKeeps ==
  ASSUME NEW T, NEW W, Typed(T, W), Saving, Shown(T, W),
         Of(T, W)!Next \/ UNCHANGED Of(T, W)!vars
  PROVE  Saving' /\ Shown(T, W)'
<1>1. /\ tab \in [T -> Of(T, W)!Page] /\ Of(T, W)!SessionAssumption
  BY DEF Typed, Of!TypeOK
<1>2. ASSUME UNCHANGED <<tab, posts>> PROVE Saving' /\ Shown(T, W)'
  BY <1>2 DEF Saving, Shown, Of!SignedIn
<1>3. ASSUME NEW t \in T, posts' = posts,
             tab' = [tab EXCEPT ![t] = [tab[t] EXCEPT !.reload = TRUE]]
      PROVE  Saving' /\ Shown(T, W)'
  <2>1. /\ \A u \in T : u # t => tab'[u] = tab[u]
        /\ tab'[t].wizard = tab[t].wizard /\ tab'[t].account = tab[t].account
        /\ tab'[t].session = tab[t].session
    BY <1>1, <1>3 DEF Of!Page
  <2>2. \A u \in T : Calm(u)
    BY <2>1 DEF Calm
  <2>3. \A s \in posts' : s.live => s.tab \in T /\ tab[s.tab].wizard # None
                                    /\ tab[s.tab].wizard.id = s.id
    BY <1>3, SavesTyped DEF Saving
  <2> QED
    BY <2>2, <2>3, CalmKeeps
<1>4. ASSUME NEW t \in T, NEW w \in W \union {None}, Of(T, W)!SelectWallet(t, w)
      PROVE  Saving' /\ Shown(T, W)'
  <2>1. [tab[t] EXCEPT !.account = w] \in Of(T, W)!Page
    BY <1>1, PageParts
  <2>2. [tab[t] EXCEPT !.account = w].wizard = tab[t].wizard
    BY <1>1 DEF Of!Page
  <2> QED
    BY <1>4, <2>1, <2>2, BecomesKeeps DEF Of!SelectWallet
<1>5. ASSUME NEW t \in T, Of(T, W)!Revalidate(t)
      PROVE  Saving' /\ Shown(T, W)'
  <2>1. Of(T, W)!Loaded(t).wizard = tab[t].wizard
    BY <1>1 DEF Of!Page, Of!Loaded
  <2> QED
    BY <1>5, <2>1, LoadedPageTyped, BecomesKeeps DEF Of!Revalidate
<1>6. ASSUME NEW t \in T,
             \/ Of(T, W)!RequestChallenge(t) \/ Of(T, W)!SignInFails(t)
             \/ \E issuedAt \in Int : Of(T, W)!SendVerify(t, issuedAt)
             \/ Of(T, W)!PressSignOut(t)
      PROVE  UNCHANGED <<tab, posts>>
  BY <1>6 DEF Of!RequestChallenge, Of!SignInFails, Of!SendVerify, Of!PressSignOut
<1>7. ASSUME NEW t \in T, NEW c \in {1, 2},
             \/ Of(T, W)!ConsumeNonce(t, c) \/ Of(T, W)!RefuseVerify(t, c)
             \/ Of(T, W)!LoseVerify(t, c)
      PROVE  UNCHANGED <<tab, posts>>
  BY <1>7 DEF Of!ConsumeNonce, Of!RefuseVerify, Of!LoseVerify
<1>8. UNCHANGED Of(T, W)!vars \/ Of(T, W)!Tick => UNCHANGED <<tab, posts>>
  BY DEF Of!vars, Of!Tick
<1>9. ASSUME NEW t \in T, NEW c \in {1, 2}, Of(T, W)!InsertSession(t, c)
      PROVE  Saving' /\ Shown(T, W)'
  BY <1>2, <1>3, <1>9 DEF Of!InsertSession
<1>10. ASSUME NEW t \in T, Of(T, W)!SignOut(t)
       PROVE  Saving' /\ Shown(T, W)'
  BY <1>3, <1>10 DEF Of!SignOut
<1> QED
  BY <1>1, <1>2, <1>4, <1>5, <1>6, <1>7, <1>8, <1>9, <1>10, SessionSteps, OpenKeeps,
     DraftKeeps, ServesKeeps

-----------------------------------------------------------------------------
(* The invariant, and what it says of a step.                              *)

\* The invariant of a browser with the tabs T and the wallets W.
Sound(T, W) == Typed(T, W) /\ Saving /\ Shown(T, W) /\ OneUse(T) /\ Dated(T)

LEMMA SoundInit ==
  ASSUME NEW T, NEW W, Of(T, W)!SessionAssumption, Of(T, W)!Init
  PROVE  Sound(T, W)
<1>1. PICK n \in Nat : Nonces = 1 .. n
  BY DEF Of!SessionAssumption
<1>2. MaxTime \in Nat /\ MaxTyped \in Nat
  BY DEF Of!SessionAssumption
<1>3. Of(T, W)!NoPage \in Of(T, W)!Page /\ Of(T, W)!NoPage.wizard = None
  BY DEF Of!NoPage, Of!Page
<1>4. Typed(T, W)
  BY <1>2, <1>3 DEF Typed, Of!TypeOK, Of!Init, Of!Versions
<1>5. Saving /\ Shown(T, W)
  BY <1>3 DEF Saving, Shown, Of!Init
<1>6. OneUse(T) /\ Dated(T)
  BY DEF OneUse, Dated, Consumed, Of!Init, Of!Copies, Of!Tokens
<1> QED
  BY <1>4, <1>5, <1>6 DEF Sound

LEMMA SoundNext ==
  ASSUME NEW T, NEW W, Sound(T, W), Of(T, W)!Next \/ UNCHANGED Of(T, W)!vars
  PROVE  Sound(T, W)'
BY SessionTyped, SessionKeeps, SignInKeeps DEF Sound

LEMMA RefusedOnlyForCause ==
  ASSUME NEW T, NEW W, Sound(T, W), Of(T, W)!Next \/ UNCHANGED Of(T, W)!vars, NEW t \in T
  PROVE  Of(T, W)!RefusedForCause(t)
<1> DEFINE q == <<t, 1>>
           m == verify[q].message
<1>1. /\ SignInTyped(T) /\ Of(T, W)!SessionAssumption
      /\ verify \in [T \X {1, 2} -> Of(T, W)!Request \union {None}]
      /\ None \notin Of(T, W)!Request
  BY SignInTypes DEF Sound, Typed, Of!TypeOK, Of!Copies, Of!SessionAssumption
<1>2. SUFFICES ASSUME verify[q] # None, verify[q].at = "sent", verify'[q] = None
               PROVE  m.expires <= now \/ nonces[m.nonce].used
  BY DEF Of!RefusedForCause
<1>3. Of(T, W)!RefuseVerify(t, 1)
  <2>1. CASE verify' = verify
    BY <1>2, <2>1
  <2>2. ASSUME NEW u \in T, NEW issuedAt \in Int, Of(T, W)!SendVerify(u, issuedAt) PROVE FALSE
    <3>1. PICK r, extra : verify' = [verify EXCEPT ![<<u, 1>>] = r, ![<<u, 2>>] = extra]
      BY <2>2 DEF Of!SendVerify
    <3>2. verify[<<u, 1>>] = None
      BY <2>2 DEF Of!SendVerify, Of!Copies
    <3>3. u # t
      BY <1>2, <3>2
    <3> QED
      BY <1>1, <1>2, <3>1, <3>3
  <2>3. ASSUME NEW u \in T, NEW c \in {1, 2}, Of(T, W)!ConsumeNonce(u, c) PROVE FALSE
    <3>1. /\ verify' = [verify EXCEPT ![<<u, c>>] = [verify[<<u, c>>] EXCEPT !.at = "consumed"]]
          /\ verify[<<u, c>>] # None
      BY <2>3 DEF Of!ConsumeNonce
    <3>2. [verify[<<u, c>>] EXCEPT !.at = "consumed"] \in Of(T, W)!Request
      BY <1>1, <3>1 DEF Of!Request
    <3> QED
      BY <1>1, <1>2, <3>1, <3>2
  <2>4. ASSUME NEW u \in T, NEW c \in {1, 2},
               Of(T, W)!InsertSession(u, c) \/ Of(T, W)!LoseVerify(u, c)
        PROVE  FALSE
    <3>1. /\ verify' = [verify EXCEPT ![<<u, c>>] = None]
          /\ verify[<<u, c>>].at = "consumed"
      BY <2>4 DEF Of!InsertSession, Of!LoseVerify, Of!Answered
    <3> QED
      BY <1>1, <1>2, <3>1
  <2>5. ASSUME NEW u \in T, NEW c \in {1, 2}, Of(T, W)!RefuseVerify(u, c)
        PROVE  Of(T, W)!RefuseVerify(t, 1)
    <3>1. verify' = [verify EXCEPT ![<<u, c>>] = None]
      BY <2>5 DEF Of!RefuseVerify, Of!Answered
    <3>2. u = t /\ c = 1
      BY <1>1, <1>2, <3>1
    <3> QED
      BY <2>5, <3>2
  <2>6. UNCHANGED Of(T, W)!vars \/ Of(T, W)!Tick => verify' = verify
    BY DEF Of!vars, Of!Tick
  <2>7. ASSUME NEW u \in T,
               \/ \E w \in W \union {None} : Of(T, W)!SelectWallet(u, w)
               \/ Of(T, W)!Revalidate(u) \/ Of(T, W)!OpenPage(u)
               \/ Of(T, W)!RequestChallenge(u) \/ Of(T, W)!SignInFails(u)
               \/ Of(T, W)!PressSignOut(u) \/ Of(T, W)!SignOut(u)
               \/ Of(T, W)!Edit(u) \/ Of(T, W)!Autosave(u)
        PROVE  verify' = verify
    BY <2>7 DEF Of!SelectWallet, Of!Revalidate, Of!OpenPage, Of!RequestChallenge,
         Of!SignInFails, Of!PressSignOut, Of!SignOut, Of!Edit, Of!Autosave
  <2>8. ASSUME NEW s \in posts, Serves(T, W, s) PROVE verify' = verify
    BY <2>8 DEF Serves, Of!SaveChecked, Of!SaveWrites, Of!SaveFails, Of!SaveDropped
  <2> QED
    BY <1>1, <2>1, <2>2, <2>3, <2>4, <2>5, <2>6, <2>7, <2>8, SessionSteps
<1>4. ~(Of(T, W)!InTime(m) /\ Of(T, W)!Consumable(m.nonce))
  BY <1>3 DEF Of!RefuseVerify
<1>5. /\ m.expires - NonceTTL - ClockSkew <= m.issuedAt /\ m.issuedAt <= now + ClockSkew
      /\ IF nonces[m.nonce] = None THEN m.expires < now
         ELSE m.expires = nonces[m.nonce].expires
  BY <1>2 DEF Sound, Dated
<1>6. /\ now \in Nat /\ NonceTTL \in Nat /\ ClockSkew \in Nat
      /\ m.issuedAt \in Int /\ m.expires \in Nat
  BY <1>1, <1>2 DEF SignInTyped
<1> HIDE DEF m, q
<1>7. SUFFICES ASSUME m.expires > now PROVE nonces[m.nonce].used
  BY <1>6
<1>8. Of(T, W)!InTime(m)
  BY <1>5, <1>6, <1>7 DEF Of!InTime
<1>9. nonces[m.nonce] # None /\ nonces[m.nonce].expires > now
  BY <1>5, <1>6, <1>7
<1> QED
  BY <1>4, <1>8, <1>9 DEF Of!Consumable

LEMMA SignedOutForGood ==
  ASSUME NEW T, NEW W, Sound(T, W), Of(T, W)!Next \/ UNCHANGED Of(T, W)!vars, NEW t \in T
  PROVE  Of(T, W)!SignOutEnds(t)
<1> DEFINE token == logout[t].token
<1>1. /\ logout \in [T -> [token : Of(T, W)!Tokens \union {None}] \union {None}]
      /\ sessions \in [Of(T, W)!Tokens -> [address : W, expires : Nat] \union {None}]
      /\ Of(T, W)!SessionAssumption
  BY DEF Sound, Typed, Of!TypeOK
<1>2. SUFFICES ASSUME logout[t] # None, logout'[t] = None,
                      NEW s \in posts, s.token = token, s.wallet = None
               PROVE  ~Of(T, W)!Valid(s.token)'
  BY DEF Of!SignOutEnds
<1>3. Of(T, W)!SignOut(t)
  <2>1. CASE logout' = logout
    BY <1>2, <2>1
  <2>2. ASSUME NEW v \in T, Of(T, W)!PressSignOut(v) PROVE FALSE
    <3>1. logout' = [logout EXCEPT ![v] = [token |-> jar]] /\ logout[v] = None
      BY <2>2 DEF Of!PressSignOut
    <3> QED
      BY <1>1, <1>2, <3>1
  <2>3. ASSUME NEW v \in T, Of(T, W)!SignOut(v) PROVE Of(T, W)!SignOut(t)
    <3>1. logout' = [logout EXCEPT ![v] = None]
      BY <2>3 DEF Of!SignOut
    <3>2. v = t
      BY <1>1, <1>2, <3>1
    <3> QED
      BY <2>3, <3>2
  <2>4. UNCHANGED Of(T, W)!vars \/ Of(T, W)!Tick => logout' = logout
    BY DEF Of!vars, Of!Tick
  <2>5. ASSUME NEW v \in T,
               \/ \E w \in W \union {None} : Of(T, W)!SelectWallet(v, w)
               \/ Of(T, W)!Revalidate(v) \/ Of(T, W)!OpenPage(v)
               \/ Of(T, W)!RequestChallenge(v) \/ Of(T, W)!SignInFails(v)
               \/ \E issuedAt \in Int : Of(T, W)!SendVerify(v, issuedAt)
               \/ Of(T, W)!Edit(v) \/ Of(T, W)!Autosave(v)
        PROVE  logout' = logout
    BY <2>5 DEF Of!SelectWallet, Of!Revalidate, Of!OpenPage, Of!RequestChallenge,
         Of!SignInFails, Of!SendVerify, Of!Edit, Of!Autosave
  <2>6. ASSUME NEW v \in T, NEW c \in {1, 2},
               \/ Of(T, W)!ConsumeNonce(v, c) \/ Of(T, W)!RefuseVerify(v, c)
               \/ Of(T, W)!InsertSession(v, c) \/ Of(T, W)!LoseVerify(v, c)
        PROVE  logout' = logout
    BY <2>6 DEF Of!ConsumeNonce, Of!RefuseVerify, Of!InsertSession, Of!LoseVerify
  <2>7. ASSUME NEW r \in posts, Serves(T, W, r) PROVE logout' = logout
    BY <2>7 DEF Serves, Of!SaveChecked, Of!SaveWrites, Of!SaveFails, Of!SaveDropped
  <2> QED
    BY <1>1, <2>1, <2>2, <2>3, <2>4, <2>5, <2>6, <2>7, SessionSteps
<1>4. sessions' = Of(T, W)!DeleteSession(token)
  BY <1>3 DEF Of!SignOut
<1>5. token \in Of(T, W)!Tokens \union {None}
  BY <1>1, <1>2
<1>6. token # None => sessions'[token] = None
  BY <1>1, <1>4, <1>5 DEF Of!DeleteSession
<1> HIDE DEF token
<1> QED
  BY <1>2, <1>4, <1>6 DEF Of!Valid

\* What a step does to the saves that are under way.
LEMMA SavesGoOn ==
  ASSUME NEW T, NEW W, Sound(T, W), Of(T, W)!Next \/ UNCHANGED Of(T, W)!vars, NEW s \in posts'
  PROVE  \/ s.wallet = None
         \/ \E q \in posts : s = q \/ s = [q EXCEPT !.live = FALSE]
         \/ \E q \in posts : /\ Of(T, W)!SaveChecked(q) /\ Of(T, W)!Address(q.token) # None
                             /\ s = [q EXCEPT !.wallet = Of(T, W)!Address(q.token)]
<1> DEFINE Kept == \E q \in posts : s = q \/ s = [q EXCEPT !.live = FALSE]
<1>1. posts' = posts => Kept
  OBVIOUS
<1>2. ASSUME NEW t \in T, posts' = Of(T, W)!Unread(t) PROVE Kept
  BY <1>2, UnreadTyped DEF Sound
<1>3. ASSUME NEW t \in T,
             \/ \E w \in W \union {None} : Of(T, W)!SelectWallet(t, w)
             \/ Of(T, W)!Revalidate(t) \/ Of(T, W)!OpenPage(t)
      PROVE  Kept
  <2>1. posts' \in {posts, Of(T, W)!Unread(t)}
    BY <1>3 DEF Of!SelectWallet, Of!Revalidate, Of!OpenPage, Of!Becomes
  <2> QED
    BY <1>1, <1>2, <2>1
<1>4. ASSUME NEW t \in T,
             \/ Of(T, W)!RequestChallenge(t) \/ Of(T, W)!SignInFails(t)
             \/ \E issuedAt \in Int : Of(T, W)!SendVerify(t, issuedAt)
             \/ Of(T, W)!PressSignOut(t) \/ Of(T, W)!SignOut(t) \/ Of(T, W)!Edit(t)
      PROVE  posts' = posts
  BY <1>4 DEF Of!RequestChallenge, Of!SignInFails, Of!SendVerify, Of!PressSignOut,
    Of!SignOut, Of!Edit
<1>5. ASSUME NEW t \in T, NEW c \in {1, 2},
             \/ Of(T, W)!ConsumeNonce(t, c) \/ Of(T, W)!RefuseVerify(t, c)
             \/ Of(T, W)!InsertSession(t, c) \/ Of(T, W)!LoseVerify(t, c)
      PROVE  posts' = posts
  BY <1>5 DEF Of!ConsumeNonce, Of!RefuseVerify, Of!InsertSession, Of!LoseVerify
<1>6. UNCHANGED Of(T, W)!vars \/ Of(T, W)!Tick => posts' = posts
  BY DEF Of!vars, Of!Tick
<1>7. ASSUME NEW t \in T, Of(T, W)!Autosave(t) PROVE Kept \/ s.wallet = None
  <2> DEFINE save == [tab |-> t, id |-> tab[t].wizard.id, data |-> tab[t].wizard.data,
                      token |-> jar, wallet |-> None, live |-> TRUE]
  <2>1. posts' = posts \union {save}
    BY <1>7 DEF Of!Autosave
  <2>2. save.wallet = None
    OBVIOUS
  <2> HIDE DEF save
  <2> QED
    BY <2>1, <2>2
<1>8. ASSUME NEW q \in posts, Serves(T, W, q)
      PROVE  \/ Kept
             \/ /\ Of(T, W)!SaveChecked(q) /\ Of(T, W)!Address(q.token) # None
                /\ s = [q EXCEPT !.wallet = Of(T, W)!Address(q.token)]
  <2>1. \/ posts' = posts \ {q}
        \/ posts' = (posts \ {q}) \union {[q EXCEPT !.live = FALSE]}
        \/ /\ Of(T, W)!SaveChecked(q) /\ Of(T, W)!Address(q.token) # None
           /\ posts' = (posts \ {q}) \union {[q EXCEPT !.wallet = Of(T, W)!Address(q.token)]}
    BY <1>8 DEF Serves, Of!SaveChecked, Of!SaveWrites, Of!SaveFails, Of!SaveDropped,
      Of!SaveAnswered
  <2> QED
    BY <2>1
<1> HIDE DEF Kept
<1>9. Of(T, W)!SessionAssumption
  BY DEF Sound, Typed
<1>10. \/ Kept \/ s.wallet = None
       \/ \E q \in posts : /\ Of(T, W)!SaveChecked(q) /\ Of(T, W)!Address(q.token) # None
                           /\ s = [q EXCEPT !.wallet = Of(T, W)!Address(q.token)]
  BY <1>1, <1>3, <1>4, <1>5, <1>6, <1>7, <1>8, <1>9, SessionSteps
<1> QED
  BY <1>10 DEF Kept

\* requireWallet finds a session that is valid.
LEMMA OnlyCheckedInSession ==
  ASSUME NEW T, NEW W, Sound(T, W), Of(T, W)!Next \/ UNCHANGED Of(T, W)!vars
  PROVE  Of(T, W)!CheckedInSession
<1> SUFFICES ASSUME NEW s \in posts', s.wallet # None,
                    ~ \E q \in posts : s = q \/ s = [q EXCEPT !.live = FALSE]
             PROVE  Of(T, W)!Valid(s.token) /\ sessions[s.token].address = s.wallet
  BY DEF Of!CheckedInSession
<1>1. PICK q \in posts : /\ Of(T, W)!Address(q.token) # None
                         /\ s = [q EXCEPT !.wallet = Of(T, W)!Address(q.token)]
  BY SavesGoOn
<1>2. q \in Of(T, W)!Save /\ q.token \in Of(T, W)!Tokens \union {None}
  BY SavesTyped DEF Sound
<1>3. PICK token, w : token = q.token /\ w = Of(T, W)!Address(q.token)
  OBVIOUS
<1>4. s.token = token /\ s.wallet = w
  BY <1>1, <1>2, <1>3 DEF Of!Save
<1>5. /\ token # None /\ sessions[token] # None /\ sessions[token].expires > now
      /\ w = sessions[token].address
  BY <1>1, <1>3 DEF Of!Address
<1>6. now \in Int /\ sessions[token].expires \in Int
  <2>1. /\ sessions \in [Of(T, W)!Tokens -> [address : W, expires : Nat] \union {None}]
        /\ MaxTime \in Nat /\ now \in 0 .. MaxTime
    BY DEF Sound, Typed, Of!TypeOK, Of!SessionAssumption
  <2>2. sessions[token] \in [address : W, expires : Nat]
    BY <1>2, <1>3, <1>5, <2>1
  <2> QED
    BY <2>1, <2>2
<1> QED
  BY <1>4, <1>5, <1>6 DEF Of!Valid

LEMMA DraftsStay ==
  ASSUME NEW T, NEW W, Sound(T, W), Of(T, W)!Next \/ UNCHANGED Of(T, W)!vars, NEW i \in Ids
  PROVE  Of(T, W)!StaysWithCreator(i)
<1>1. /\ drafts \in [Ids -> Of(T, W)!Row \union {None}]
      /\ Of(T, W)!SessionAssumption
  BY DEF Sound, Typed, Of!TypeOK
<1>2. SUFFICES ASSUME drafts'[i] # drafts[i]
               PROVE  /\ \E s \in posts \ posts' : /\ s.id = i /\ s.data = drafts'[i].data
                                                   /\ s.wallet = drafts'[i].creator
                      /\ drafts'[i].creator # None
                      /\ drafts[i] # None => drafts[i].creator = drafts'[i].creator
  BY DEF Of!StaysWithCreator
<1>3. PICK s \in posts : Of(T, W)!SaveWrites(s)
  <2>1. UNCHANGED Of(T, W)!vars \/ Of(T, W)!Tick => drafts' = drafts
    BY DEF Of!vars, Of!Tick
  <2>2. ASSUME NEW v \in T,
               \/ \E w \in W \union {None} : Of(T, W)!SelectWallet(v, w)
               \/ Of(T, W)!Revalidate(v) \/ Of(T, W)!OpenPage(v)
               \/ Of(T, W)!RequestChallenge(v) \/ Of(T, W)!SignInFails(v)
               \/ \E issuedAt \in Int : Of(T, W)!SendVerify(v, issuedAt)
               \/ Of(T, W)!PressSignOut(v) \/ Of(T, W)!SignOut(v)
               \/ Of(T, W)!Edit(v) \/ Of(T, W)!Autosave(v)
        PROVE  drafts' = drafts
    BY <2>2 DEF Of!SelectWallet, Of!Revalidate, Of!OpenPage, Of!RequestChallenge,
         Of!SignInFails, Of!SendVerify, Of!PressSignOut, Of!SignOut, Of!Edit, Of!Autosave
  <2>3. ASSUME NEW v \in T, NEW c \in {1, 2},
               \/ Of(T, W)!ConsumeNonce(v, c) \/ Of(T, W)!RefuseVerify(v, c)
               \/ Of(T, W)!InsertSession(v, c) \/ Of(T, W)!LoseVerify(v, c)
        PROVE  drafts' = drafts
    BY <2>3 DEF Of!ConsumeNonce, Of!RefuseVerify, Of!InsertSession, Of!LoseVerify
  <2>4. ASSUME NEW s \in posts, Serves(T, W, s)
        PROVE  drafts' = drafts \/ Of(T, W)!SaveWrites(s)
    BY <2>4 DEF Serves, Of!SaveChecked, Of!SaveFails, Of!SaveDropped
  <2> QED
    BY <1>1, <1>2, <2>1, <2>2, <2>3, <2>4, SessionSteps
<1> DEFINE row == [creator |-> s.wallet, data |-> s.data, at |-> Of(T, W)!Latest]
<1>4. /\ s.wallet # None /\ drafts' = Of(T, W)!Upsert(s.wallet, s)
      /\ posts' = posts \ {s}
  BY <1>3 DEF Of!SaveWrites, Of!SaveAnswered
<1>5. drafts' = [drafts EXCEPT ![s.id] = row]
      /\ ~(drafts[s.id] # None /\ drafts[s.id].creator # s.wallet)
  BY <1>2, <1>4 DEF Of!Upsert
<1>6. s.id = i /\ drafts'[i] = row
  BY <1>1, <1>2, <1>5
<1>7. drafts'[i].creator = s.wallet /\ drafts'[i].data = s.data
  BY <1>6
<1> HIDE DEF row
<1> QED
  BY <1>4, <1>5, <1>6, <1>7

LEMMA SoundSteps ==
  ASSUME NEW T, NEW W, Sound(T, W), Of(T, W)!Next \/ UNCHANGED Of(T, W)!vars
  PROVE  Of(T, W)!SoundStep
BY OnlyCheckedInSession, RefusedOnlyForCause, SignedOutForGood, DraftsStay DEF Of!SoundStep

-----------------------------------------------------------------------------
(* The draft of one tab.                                                   *)

\* With one tab: of the draft whose last save was sent alone no other is under way,
\* and what the page calls saved is stored.
Stored(t) ==
  LET o == tab[t].wizard
  IN o # None /\ o.alone =>
       /\ \A s, q \in posts : s.id = o.id /\ q.id = o.id => s = q
       /\ \A s \in posts : s.id = o.id => s.data = o.sent
       /\ o.status = "saved" =>
            /\ \A s \in posts : s.id # o.id
            /\ drafts[o.id] # None /\ drafts[o.id].data = o.sent

LEMMA SavedTrue ==
  ASSUME NEW t, NEW w, Sound({t}, {w}), Stored(t)
  PROVE  Of({t}, {w})!SavedIsStored
<1>1. SUFFICES ASSUME tab[t].wizard # None, tab[t].wizard.status = "saved",
                      tab[t].wizard.alone
               PROVE  /\ drafts[tab[t].wizard.id] # None
                      /\ drafts[tab[t].wizard.id].creator = tab[t].account
                      /\ drafts[tab[t].wizard.id].data = tab[t].wizard.sent
  BY DEF Of!SavedIsStored
<1>2. /\ tab[t] \in Of({t}, {w})!Page
      /\ drafts \in [Ids -> Of({t}, {w})!Row \union {None}]
  BY DEF Sound, Typed, Of!TypeOK
<1>3. tab[t].account = w
  <2>1. tab[t].account \in {w, None}
    BY <1>2, PageParts
  <2>2. tab[t].account # None
    BY <1>1 DEF Sound, Shown, Of!SignedIn
  <2> QED
    BY <2>1, <2>2
<1>4. tab[t].wizard.id \in Ids
  <2>1. tab[t].wizard \in Of({t}, {w})!Wizard
    BY <1>1, <1>2, PageParts
  <2> QED
    BY <2>1 DEF Of!Wizard
<1>5. /\ drafts[tab[t].wizard.id] # None
      /\ drafts[tab[t].wizard.id].data = tab[t].wizard.sent
  BY <1>1 DEF Stored
<1>6. drafts[tab[t].wizard.id].creator = w
  BY <1>2, <1>4, <1>5 DEF Of!Row
<1> QED
  BY <1>3, <1>5, <1>6

\* A step that lets the saves and the drafts be, and of the wizard changes what is
\* typed only; or after which there is none, or a new one.
LEMMA StoredQuiet ==
  ASSUME NEW t, Stored(t),
         LET o == tab[t].wizard
             v == tab'[t].wizard
         IN v # None /\ v.alone =>
              /\ o # None /\ v.id = o.id /\ v.sent = o.sent /\ v.status = o.status
              /\ o.alone /\ posts' = posts /\ drafts' = drafts
  PROVE  Stored(t)'
BY DEF Stored

LEMMA StoredAutosave ==
  ASSUME NEW t, NEW w, Sound({t}, {w}), Of({t}, {w})!Autosave(t)
  PROVE  Stored(t)'
<1> DEFINE o == tab[t].wizard
           a == \A s \in posts : s.id # o.id
           v == [o EXCEPT !.timer = FALSE, !.status = "saving", !.sent = o.data, !.alone = a]
           save == [tab |-> t, id |-> o.id, data |-> o.data, token |-> jar,
                    wallet |-> None, live |-> TRUE]
<1>1. /\ o # None /\ posts' = posts \union {save}
      /\ Of({t}, {w})!SetWizard(t, v)
  BY DEF Of!Autosave
<1>2. o \in Of({t}, {w})!Wizard
  <2>1. tab[t] \in Of({t}, {w})!Page
    BY DEF Sound, Typed, Of!TypeOK
  <2> QED
    BY <1>1, <2>1, PageParts
<1>3. v.id = o.id /\ v.sent = o.data /\ v.status = "saving" /\ (v.alone <=> a)
  BY <1>2 DEF Of!Wizard
<1>4. v \in Of({t}, {w})!Wizard
  <2>1. a \in BOOLEAN
    OBVIOUS
  <2> QED
    BY <1>2, <2>1, WizardParts
<1>5. save.id = o.id /\ save.data = o.data
  OBVIOUS
<1>6. o = tab[t].wizard /\ (a <=> \A s \in posts : s.id # o.id)
  OBVIOUS
<1> HIDE DEF v, save, o, a
<1>7. tab'[t].wizard = v
  BY <1>1, <1>3, <1>4, <1>6, AltersCalmly DEF Sound
<1>8. v.alone => \A s \in posts' : s.id = v.id => s = save
  BY <1>1, <1>3, <1>6
<1> QED
  BY <1>3, <1>5, <1>7, <1>8 DEF Stored

\* The save that is written is the one sent last.
LEMMA StoredServed ==
  ASSUME NEW t, NEW w, Sound({t}, {w}), Stored(t), NEW s \in posts, Serves({t}, {w}, s)
  PROVE  Stored(t)'
<1> DEFINE o == tab[t].wizard
           v == tab'[t].wizard
<1>1. /\ s.tab = t /\ s \in Of({t}, {w})!Save /\ s.id \in Ids /\ s.wallet \in {w, None}
      /\ drafts \in [Ids -> Of({t}, {w})!Row \union {None}]
      /\ None \notin Of({t}, {w})!Row
  <2>1. s \in Of({t}, {w})!Save /\ s.tab \in {t} /\ s.id \in Ids /\ s.wallet \in {w} \union {None}
    BY SavesTyped DEF Sound
  <2>2. /\ drafts \in [Ids -> Of({t}, {w})!Row \union {None}]
        /\ None \notin Of({t}, {w})!Row
    BY DEF Sound, Typed, Of!TypeOK, Of!SessionAssumption
  <2> QED
    BY <2>1, <2>2
<1>2. \/ UNCHANGED tab
      \/ /\ s.live
         /\ \E x \in {"saved", "error"} :
              /\ Of({t}, {w})!SetWizard(s.tab, [tab[s.tab].wizard EXCEPT !.status = x])
              /\ x = "saved" => Of({t}, {w})!SaveWrites(s)
  BY DEF Serves, Of!SaveChecked, Of!SaveWrites, Of!SaveFails, Of!SaveDropped,
    Of!SaveAnswered
<1>3. \/ v = o
      \/ /\ o # None /\ o.id = s.id
         /\ v.id = o.id /\ v.sent = o.sent /\ v.alone = o.alone
         /\ v.status = "saved" => Of({t}, {w})!SaveWrites(s)
  <2>1. CASE UNCHANGED tab
    BY <2>1
  <2>2. ASSUME s.live, NEW x \in {"saved", "error"},
               Of({t}, {w})!SetWizard(s.tab, [tab[s.tab].wizard EXCEPT !.status = x])
        PROVE  /\ o # None /\ o.id = s.id
               /\ v.id = o.id /\ v.sent = o.sent /\ v.alone = o.alone /\ v.status = x
    <3>1. o # None /\ o.id = s.id
      BY <1>1, <2>2 DEF Sound, Saving
    <3>2. Typed({t}, {w}) /\ Saving
      BY DEF Sound
    <3>3. /\ tab'[s.tab].wizard = [tab[s.tab].wizard EXCEPT !.status = x]
          /\ tab[s.tab].wizard \in Of({t}, {w})!Wizard
      BY <2>2, <3>2, AnswerCalm
    <3>4. v = [o EXCEPT !.status = x] /\ o \in Of({t}, {w})!Wizard
      BY <1>1, <3>3
    <3> HIDE DEF o, v
    <3> QED
      BY <3>1, <3>4 DEF Of!Wizard
  <2> QED
    BY <1>2, <2>1, <2>2
<1>4. \E r : r.id = s.id /\ r.data = s.data /\ posts' \subseteq (posts \ {s}) \union {r}
  <2>1. \/ posts' = posts \ {s}
        \/ posts' = (posts \ {s}) \union {[s EXCEPT !.live = FALSE]}
        \/ posts' = (posts \ {s}) \union {[s EXCEPT !.wallet = Of({t}, {w})!Address(s.token)]}
    BY DEF Serves, Of!SaveChecked, Of!SaveWrites, Of!SaveFails, Of!SaveDropped,
      Of!SaveAnswered
  <2>2. ASSUME NEW x PROVE /\ [s EXCEPT !.live = x].id = s.id
                           /\ [s EXCEPT !.live = x].data = s.data
                           /\ [s EXCEPT !.wallet = x].id = s.id
                           /\ [s EXCEPT !.wallet = x].data = s.data
    BY <1>1 DEF Of!Save
  <2>3. CASE posts' = posts \ {s}
    BY <2>3
  <2>4. CASE posts' = (posts \ {s}) \union {[s EXCEPT !.live = FALSE]}
    BY <2>2, <2>4
  <2>5. CASE posts' = (posts \ {s}) \union {[s EXCEPT !.wallet = Of({t}, {w})!Address(s.token)]}
    BY <2>2, <2>5
  <2> QED
    BY <2>1, <2>3, <2>4, <2>5
<1>5. PICK r : r.id = s.id /\ r.data = s.data /\ posts' \subseteq (posts \ {s}) \union {r}
  BY <1>4
<1>6. /\ \A i \in Ids : i # s.id => drafts'[i] = drafts[i]
      /\ Of({t}, {w})!SaveWrites(s) =>
           /\ posts' = posts \ {s}
           /\ drafts'[s.id] # None /\ drafts'[s.id].data = s.data
  <2>1. ASSUME Of({t}, {w})!SaveWrites(s)
        PROVE  /\ \A i \in Ids : i # s.id => drafts'[i] = drafts[i]
               /\ posts' = posts \ {s}
               /\ drafts'[s.id] # None /\ drafts'[s.id].data = s.data
    <3> DEFINE row == [creator |-> s.wallet, data |-> s.data, at |-> Of({t}, {w})!Latest]
    <3>1. /\ s.wallet # None /\ drafts' = Of({t}, {w})!Upsert(s.wallet, s)
          /\ posts' = posts \ {s}
      BY <2>1 DEF Of!SaveWrites, Of!SaveAnswered
    <3>2. drafts[s.id] # None => drafts[s.id].creator = w
      BY <1>1 DEF Of!Row
    <3>3. drafts' = [drafts EXCEPT ![s.id] = row]
      BY <1>1, <3>1, <3>2 DEF Of!Upsert
    <3>4. s.wallet = w /\ s.data \in Of({t}, {w})!Versions /\ Of({t}, {w})!Latest \in Nat
      BY <1>1, <3>1, SavesTyped, LatestTyped DEF Sound
    <3>5. row \in Of({t}, {w})!Row /\ row.data = s.data
      BY <3>4 DEF Of!Row
    <3> HIDE DEF row
    <3> QED
      BY <1>1, <3>1, <3>3, <3>5
  <2>2. Of({t}, {w})!SaveWrites(s) \/ drafts' = drafts
    BY DEF Serves, Of!SaveChecked, Of!SaveFails, Of!SaveDropped
  <2> QED
    BY <2>1, <2>2
<1>7. o # None => o.id \in Ids
  <2>1. tab[t] \in Of({t}, {w})!Page
    BY DEF Sound, Typed, Of!TypeOK
  <2>2. o # None => o \in Of({t}, {w})!Wizard
    BY <2>1, PageParts
  <2> QED
    BY <2>2 DEF Of!Wizard
<1>8. SUFFICES ASSUME v # None, v.alone
               PROVE  /\ \A x, q \in posts' : x.id = o.id /\ q.id = o.id => x = q
                      /\ \A x \in posts' : x.id = o.id => x.data = o.sent
                      /\ v.status = "saved" =>
                           /\ \A x \in posts' : x.id # o.id
                           /\ drafts'[o.id] # None /\ drafts'[o.id].data = o.sent
  BY <1>3 DEF Stored
<1>9. /\ o # None
      /\ \A x, q \in posts : x.id = o.id /\ q.id = o.id => x = q
      /\ \A x \in posts : x.id = o.id => x.data = o.sent
      /\ o.status = "saved" => /\ \A x \in posts : x.id # o.id
                               /\ drafts[o.id] # None /\ drafts[o.id].data = o.sent
  BY <1>3, <1>8 DEF Stored
<1> HIDE DEF o, v
<1>10. \A x, q \in posts' : x.id = o.id /\ q.id = o.id => x = q
  BY <1>5, <1>9
<1>11. \A x \in posts' : x.id = o.id => x.data = o.sent
  BY <1>5, <1>9
<1>12. ASSUME v.status = "saved"
       PROVE  /\ \A x \in posts' : x.id # o.id
              /\ drafts'[o.id] # None /\ drafts'[o.id].data = o.sent
  <2>1. CASE v = o
    BY <1>5, <1>6, <1>7, <1>9, <1>12, <2>1
  <2>2. CASE o.id = s.id /\ Of({t}, {w})!SaveWrites(s)
    BY <1>6, <1>9, <2>2
  <2> QED
    BY <1>3, <1>12, <2>1, <2>2
<1> QED
  BY <1>10, <1>11, <1>12

LEMMA StoredKept ==
  ASSUME NEW t, NEW w, Sound({t}, {w}), Stored(t),
         Of({t}, {w})!Next \/ UNCHANGED Of({t}, {w})!vars
  PROVE  Stored(t)'
<1>1. /\ tab \in [{t} -> Of({t}, {w})!Page] /\ tab[t] \in Of({t}, {w})!Page
      /\ Of({t}, {w})!SessionAssumption
  BY DEF Sound, Typed, Of!TypeOK
<1> DEFINE o == tab[t].wizard
<1>2. ASSUME \/ tab'[t].wizard = None
             \/ \E d : tab'[t].wizard = Of({t}, {w})!NewWizard(d)
      PROVE  Stored(t)'
  <2>1. \A d : ~Of({t}, {w})!NewWizard(d).alone
    BY DEF Of!NewWizard
  <2> QED
    BY <1>2, <2>1, StoredQuiet
<1>3. ASSUME tab'[t].wizard = tab[t].wizard, posts' = posts, drafts' = drafts
      PROVE  Stored(t)'
  BY <1>3, StoredQuiet
<1>4. ASSUME NEW page_, page_.wizard = o, Of({t}, {w})!Becomes(t, page_),
             page_ \in Of({t}, {w})!Page, drafts' = drafts
      PROVE  Stored(t)'
  <2> DEFINE shown == Of({t}, {w})!Shows(page_, t)
  <2>1. shown.wizard \in {None, o, Of({t}, {w})!NewWizard(page_.draft)}
    <3>1. \/ shown = page_
          \/ shown = [page_ EXCEPT !.wizard = None]
          \/ shown = [page_ EXCEPT !.wizard = Of({t}, {w})!NewWizard(page_.draft)]
      BY DEF Of!Shows
    <3> QED
      BY <1>4, <3>1 DEF Of!Page
  <2>2. tab' = [tab EXCEPT ![t] = shown] /\ (shown.wizard = o => posts' = posts)
    BY <1>4 DEF Of!Becomes
  <2> HIDE DEF shown
  <2>3. tab'[t].wizard = shown.wizard
    BY <1>1, <2>2
  <2> QED
    BY <1>2, <1>3, <1>4, <2>1, <2>2, <2>3
<1>5. ASSUME NEW v \in {w, None}, Of({t}, {w})!SelectWallet(t, v)
      PROVE  Stored(t)'
  <2>1. [tab[t] EXCEPT !.account = v] \in Of({t}, {w})!Page
    BY <1>1, PageParts
  <2>2. [tab[t] EXCEPT !.account = v].wizard = o
    BY <1>1 DEF Of!Page
  <2> QED
    BY <1>4, <1>5, <2>1, <2>2 DEF Of!SelectWallet
<1>6. CASE Of({t}, {w})!Revalidate(t)
  <2>1. Of({t}, {w})!Loaded(t).wizard = o
    BY <1>1 DEF Of!Page, Of!Loaded
  <2>2. Of({t}, {w})!Loaded(t) \in Of({t}, {w})!Page
    BY LoadedPageTyped DEF Sound
  <2> QED
    BY <1>4, <1>6, <2>1, <2>2 DEF Of!Revalidate
<1>7. CASE Of({t}, {w})!OpenPage(t)
  <2> DEFINE p == [Of({t}, {w})!Loaded(t) EXCEPT !.wizard = None]
             shown == IF Of({t}, {w})!SignedIn(p)
                      THEN [p EXCEPT !.wizard = Of({t}, {w})!NewWizard(p.draft)] ELSE p
  <2>1. p \in Of({t}, {w})!Page /\ p.wizard = None
    <3>1. Of({t}, {w})!Loaded(t) \in Of({t}, {w})!Page
      BY LoadedPageTyped DEF Sound
    <3> QED
      BY <3>1 DEF Of!Page
  <2>2. tab' = [tab EXCEPT ![t] = shown]
    BY <1>7 DEF Of!OpenPage
  <2> HIDE DEF p
  <2>3. shown.wizard = None \/ shown.wizard = Of({t}, {w})!NewWizard(p.draft)
    BY <2>1 DEF Of!Page
  <2> HIDE DEF shown
  <2> QED
    BY <1>1, <1>2, <2>2, <2>3
<1>8. ASSUME UNCHANGED <<tab, posts, drafts>> PROVE Stored(t)'
  BY <1>3, <1>8
<1>9. ASSUME NEW issuedAt, Of({t}, {w})!SendVerify(t, issuedAt) PROVE Stored(t)'
  BY <1>8, <1>9 DEF Of!SendVerify
<1>10. CASE \/ Of({t}, {w})!RequestChallenge(t) \/ Of({t}, {w})!SignInFails(t)
            \/ Of({t}, {w})!PressSignOut(t) \/ Of({t}, {w})!Tick \/ UNCHANGED Of({t}, {w})!vars
  BY <1>8, <1>10 DEF Of!RequestChallenge, Of!SignInFails, Of!PressSignOut, Of!Tick, Of!vars
<1>11. ASSUME NEW c \in {1, 2},
              \/ Of({t}, {w})!ConsumeNonce(t, c) \/ Of({t}, {w})!RefuseVerify(t, c)
              \/ Of({t}, {w})!LoseVerify(t, c)
       PROVE  Stored(t)'
  BY <1>8, <1>11 DEF Of!ConsumeNonce, Of!RefuseVerify, Of!LoseVerify
<1>12. ASSUME posts' = posts, drafts' = drafts,
              tab' = [tab EXCEPT ![t] = [tab[t] EXCEPT !.reload = TRUE]]
       PROVE  Stored(t)'
  <2>1. tab'[t].wizard = tab[t].wizard
    BY <1>1, <1>12 DEF Of!Page
  <2> QED
    BY <1>3, <1>12, <2>1
<1>13. ASSUME NEW c \in {1, 2}, Of({t}, {w})!InsertSession(t, c) PROVE Stored(t)'
  BY <1>8, <1>12, <1>13 DEF Of!InsertSession
<1>14. CASE Of({t}, {w})!SignOut(t)
  BY <1>12, <1>14 DEF Of!SignOut
<1>15. CASE Of({t}, {w})!Edit(t)
  <2> DEFINE v == [o EXCEPT !.data = typed', !.timer = TRUE]
  <2>1. /\ o # None /\ Of({t}, {w})!SetWizard(t, v) /\ posts' = posts /\ drafts' = drafts
    BY <1>15 DEF Of!Edit
  <2>2. o \in Of({t}, {w})!Wizard
    BY <1>1, <2>1, PageParts
  <2>3. v.id = o.id /\ v.sent = o.sent /\ v.status = o.status /\ (v.alone <=> o.alone)
    BY <2>2 DEF Of!Wizard
  <2> HIDE DEF v
  <2>4. tab'[t].wizard = v
    BY <1>1, <2>1 DEF Of!SetWizard, Of!Page
  <2> QED
    BY <2>1, <2>3, <2>4, StoredQuiet
<1> QED
  <2>1. \A s \in posts : Serves({t}, {w}, s) => Stored(t)'
    BY StoredServed
  <2>2. Of({t}, {w})!Autosave(t) => Stored(t)'
    BY StoredAutosave
  <2>3. Of({t}, {w})!Next => Stored(t)'
    BY <1>1, <1>5, <1>6, <1>7, <1>9, <1>10, <1>11, <1>13, <1>14, <1>15, <2>1, <2>2,
       SessionSteps
  <2> QED
    BY <1>10, <2>3

-----------------------------------------------------------------------------
(* The scenes.                                                             *)

LEMMA SoundStored ==
  ASSUME NEW T, NEW W, Sound(T, W)
  PROVE  Of(T, W)!TypeOK /\ Of(T, W)!OneSessionPerNonce
BY DEF Sound, Typed, OneUse, Of!OneSessionPerNonce, Of!Copies

\* What a step of the scenes does to the sessions.
LEMMA SceneSteps ==
  ASSUME [SceneNext]_<<scene, vars, session>>
  PROVE  /\ scene' = "draft" <=> scene = "draft"
         /\ scene # "draft" => [Of(Tabs, Wallets)!Next]_(Of(Tabs, Wallets)!vars)
         /\ scene = "draft" => [Of({home}, {y})!Next]_(Of({home}, {y})!vars)
BY DEF SceneNext, session, Of!vars

\* A signed message opens one session at most; and with one tab and one wallet
\* "Draft saved" is true of a save that was sent when no other of its draft was
\* under way, however many overlap before and after it: in every behaviour of the
\* sessions, whatever the tabs and wallets, and so in the scenes that the model
\* checker walks.
THEOREM SavesAlwaysTrue ==
  /\ Of(Tabs, Wallets)!Spec => [](scene # "draft" => StoredAsShown)
  /\ Of({home}, {y})!Spec => [](scene = "draft" => StoredAsShown)
  /\ SceneSpec => []StoredAsShown
<1> DEFINE Many == Sound(Tabs, Wallets)
           One == Sound({home}, {y}) /\ Stored(home)
           Scene == IF scene = "draft" THEN One ELSE Many
<1>1. Of(Tabs, Wallets)!Init => Many
  BY SoundInit, SessionsAssumption
<1>2. Many /\ [Of(Tabs, Wallets)!Next]_(Of(Tabs, Wallets)!vars) => Many'
  BY SoundNext
<1>3. Many => (scene # "draft" => StoredAsShown)
  BY SoundStored DEF StoredAsShown
<1>4. Of({home}, {y})!Init => One
  <2>1. Of({home}, {y})!Init => Stored(home)
    BY DEF Of!Init, Of!NoPage, Stored
  <2> QED
    BY <2>1, SoundInit, SessionsAssumption
<1>5. One /\ [Of({home}, {y})!Next]_(Of({home}, {y})!vars) => One'
  BY SoundNext, StoredKept
<1>6. One => (scene = "draft" => StoredAsShown)
  BY SavedTrue, SoundStored DEF StoredAsShown
<1> HIDE DEF Many, One
<1>7. SceneInit => Scene
  BY <1>1, <1>4 DEF SceneInit
<1>8. Scene /\ [SceneNext]_<<scene, vars, session>> => Scene'
  BY <1>2, <1>5, SceneSteps
<1>9. Scene => StoredAsShown
  BY <1>3, <1>6
<1> HIDE DEF Scene
<1>10. Of(Tabs, Wallets)!Spec => [](scene # "draft" => StoredAsShown)
  BY <1>1, <1>2, <1>3, PTL DEF Of!Spec
<1>11. Of({home}, {y})!Spec => [](scene = "draft" => StoredAsShown)
  BY <1>4, <1>5, <1>6, PTL DEF Of!Spec
<1>12. SceneSpec => []StoredAsShown
  BY <1>7, <1>8, <1>9, PTL DEF SceneSpec
<1> QED
  BY <1>10, <1>11, <1>12

\* No sign-in is refused but for a message that has expired or was used; a save
\* passes requireWallet with a session that is live at that moment only, which no
\* session is whose sign-out was answered; and a draft changes only by a save that
\* has passed it, for the wallet that was found then: likewise.
THEOREM SessionsAlwaysSound ==
  /\ [](scene # "draft") /\ Of(Tabs, Wallets)!Spec => SessionsSound
  /\ [](scene = "draft") /\ Of({home}, {y})!Spec => SessionsSound
  /\ SceneSpec => SessionsSound
<1> DEFINE Many == Sound(Tabs, Wallets)
           One == Sound({home}, {y})
           Scene == IF scene = "draft" THEN One ELSE Many
           Step == IF scene = "draft" THEN Of({home}, {y})!SoundStep
                   ELSE Of(Tabs, Wallets)!SoundStep
<1>1. Of(Tabs, Wallets)!Init => Many
  BY SoundInit, SessionsAssumption
<1>2. Many /\ [Of(Tabs, Wallets)!Next]_(Of(Tabs, Wallets)!vars) => Many'
  BY SoundNext
<1>3. Many /\ [Of(Tabs, Wallets)!Next]_(Of(Tabs, Wallets)!vars) /\ scene # "draft"
        => [Step]_<<scene, session>>
  BY SoundSteps
<1>4. Of({home}, {y})!Init => One
  BY SoundInit, SessionsAssumption
<1>5. One /\ [Of({home}, {y})!Next]_(Of({home}, {y})!vars) => One'
  BY SoundNext
<1>6. One /\ [Of({home}, {y})!Next]_(Of({home}, {y})!vars) /\ scene = "draft"
        => [Step]_<<scene, session>>
  BY SoundSteps
<1> HIDE DEF Many, One, Step
<1>7. SceneInit => Scene
  BY <1>1, <1>4 DEF SceneInit
<1>8. Scene /\ [SceneNext]_<<scene, vars, session>> => Scene' /\ [Step]_<<scene, session>>
  BY <1>2, <1>3, <1>5, <1>6, SceneSteps
<1> HIDE DEF Scene
<1>9. [](scene # "draft") /\ Of(Tabs, Wallets)!Spec => [][Step]_<<scene, session>>
  BY <1>1, <1>2, <1>3, PTL DEF Of!Spec
<1>10. [](scene = "draft") /\ Of({home}, {y})!Spec => [][Step]_<<scene, session>>
  BY <1>4, <1>5, <1>6, PTL DEF Of!Spec
<1>11. SceneSpec => [][Step]_<<scene, session>>
  BY <1>7, <1>8, PTL DEF SceneSpec
<1> QED
  BY <1>9, <1>10, <1>11 DEF SessionsSound, Step
=============================================================================
