------------------------------ MODULE MCWizard ------------------------------
(***************************************************************************)
(* The creator's side of the platform, in scenes: a launch from two        *)
(* browsers at once, from two tabs of one browser, and from one tab whose  *)
(* requests keep their order (Launch), sign-ins of two tabs, two wallets   *)
(* that take turns in a tab, and one wallet that writes a draft (Session). *)
(* The initial states choose the scene that moves; the other module rests. *)
(***************************************************************************)
EXTENDS Launch, TLC

CONSTANTS b1, b2, b3, press1, press2, press3, t1, t2, home, y, z,
          Tabs, Wallets, Nonces, Ids, NonceTTL, SessionTTL, ClockSkew, Repeats,
          MaxTime, MaxTyped

VARIABLES scene, now, issued, nonces, sessions, drafts, fresh, typed, jar, tab, auth,
          verify, logout, posts

\* Two tabs of one browser, and one of another, each with its button.
EachTheirs == press1 :> b1 @@ press2 :> b2 @@ press3 :> b3
Stores == b1 :> b1 @@ b2 :> b1 @@ b3 :> b3

\* The creator does not edit behind a launch, and requests keep their order.
Waits == INSTANCE Launch WITH Reorder <- FALSE, EditsGoOn <- FALSE

\* Only these are used.
Only(used) ==
  /\ \A b \in Browsers \ used : ui'[b] = ui[b]
  /\ \A f \in Flows : BrowserOf[f] \notin used => flow'[f] = flow[f]

\* One edit, in b1, and one fault; the reveal time is far.
Both ==
  /\ edits' <= 1 /\ (edits' # edits => ui'[b1] # ui[b1])
  /\ faults' <= 1 /\ ~soon'

\* Nobody goes back while a launch runs.
Stays ==
  /\ edits' # edits => \A b \in Browsers : Running(b) = {}
  /\ \A b \in Browsers : Running(b) # {} => ui'[b].step = "launch" \/ Running(b)' = {}

ASSUME BrowserAssumption == b1 \in Browsers

\* The tabs that are open, and the wallets in them.
Of(tabs, wallets) == INSTANCE Session WITH
  Tabs <- tabs, Wallets <- wallets, MaxEdits <- MaxTyped, edits <- typed, saves <- posts

ASSUME SessionsAssumption ==
  Of(Tabs, Wallets)!SessionAssumption /\ Of({home}, {y})!SessionAssumption

\* The tabs of the sign-ins are interchangeable.
Alike == Permutations({t1, t2})

session == <<now, issued, nonces, sessions, drafts, fresh, typed, jar, tab, auth,
             verify, logout, posts>>

\* Two challenges of two tabs, signed by clocks that drift, repeated on the
\* way, answered late or too late; nobody edits or disconnects.
OneWallet ==
  /\ typed' = 0 /\ fresh' < 3
  /\ \A t \in Tabs : tab'[t].account \in {y, tab[t].account}

\* Two wallets take turns in one tab while a save is under way.
OneTab ==
  /\ now' = now /\ Cardinality(posts') <= 1
  /\ \E t \in Tabs : \A u \in Tabs \ {t} : tab'[u] = Of(Tabs, Wallets)!NoPage
  /\ \A t \in Tabs : verify'[t, 2] = None /\ (tab'[t].wizard # None => tab'[t].wizard.status # "error")

\* One wallet in one tab: selected and not, signed in and out, with a wizard
\* that is left and comes back, in time and when the session has expired.
AtHome == verify'[home, 2] = None /\ now' <= SessionTTL

SceneInit ==
  /\ Init
  /\ \/ scene \in {"browsers", "tabs", "alone", "sign-ins", "turns"} /\ Of(Tabs, Wallets)!Init
     \/ scene = "draft" /\ Of({home}, {y})!Init

SceneNext ==
  \/ scene = "browsers" /\ Next /\ Only({b1, b3}) /\ Both /\ UNCHANGED <<scene, session>>
  \/ /\ scene \in {"tabs", "crossed"} /\ Next /\ Only({b1, b2}) /\ Both /\ Stays
     /\ scene' = IF TakeTurns' THEN scene ELSE "crossed"
     /\ UNCHANGED session
  \/ scene = "alone" /\ Waits!Next /\ Only({b1}) /\ UNCHANGED <<scene, session>>
  \/ scene = "sign-ins" /\ Of(Tabs, Wallets)!Next /\ OneWallet /\ UNCHANGED <<scene, vars>>
  \/ scene = "turns" /\ Of(Tabs, Wallets)!Next /\ OneTab /\ UNCHANGED <<scene, vars>>
  \/ scene = "draft" /\ Of({home}, {y})!Next /\ AtHome /\ UNCHANGED <<scene, vars>>

SceneSpec == SceneInit /\ [][SceneNext]_<<scene, vars, session>>

\* The page of a creator who waits describes the treasury that was built.
PageIsTrue == TypeOK /\ (scene = "alone" => PageShowsTreasury)

\* The keys are kept until the page is there: by every browser, and by one whose
\* tabs have not looked for them at the same time.
KeptTillThePage == scene # "crossed" => KeysOutliveLaunch

\* A signature opens one session, and "Draft saved" is true.
StoredAsShown ==
  IF scene = "draft" THEN Of({home}, {y})!TypeOK /\ Of({home}, {y})!SavedIsStored
  ELSE Of(Tabs, Wallets)!TypeOK /\ Of(Tabs, Wallets)!OneSessionPerNonce

\* Sessions begin in time, end with the sign-out, and write their own drafts.
SessionsSound ==
  [][IF scene = "draft" THEN Of({home}, {y})!SoundStep
     ELSE Of(Tabs, Wallets)!SoundStep]_<<scene, session>>
=============================================================================
