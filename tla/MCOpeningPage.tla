--------------------------- MODULE MCOpeningPage ---------------------------
(***************************************************************************)
(* OpeningPage in three scenes on the same variables, one of which the       *)
(* initial states choose: the launch site without forfeits, where every box  *)
(* must be opened in the end; the launch site with wallets that take turns,  *)
(* forfeits and reloads; and the platform's panel, where flows overlap.      *)
(***************************************************************************)
EXTENDS Naturals

CONSTANTS Finish, Site, Panel,   \* the settings of the scenes
          MaxOpenings

VARIABLES scene, boxes, opening, wallet, machine, flows, known, reads

\* A page in a setting.
Of(s) == INSTANCE OpeningPage WITH
  App <- s.app, Wallets <- s.wallets, Boxes <- s.boxes, Bundles <- s.bundles, MayForfeit <- s.forfeits,
  Impatient <- s.impatient, MaxReads <- s.reads

ASSUME SettingsAssumption ==
  Of(Finish)!PageAssumption /\ Of(Site)!PageAssumption /\ Of(Panel)!PageAssumption

TwoBoxes ==
  [app |-> "web", wallets |-> {"w1"}, boxes |-> [w \in {"w1"} |-> 2],
   bundles |-> {1}, forfeits |-> FALSE, impatient |-> FALSE, reads |-> 2]
Turns ==
  [app |-> "web", wallets |-> {"w1", "w2"}, boxes |-> [w \in {"w1", "w2"} |-> IF w = "w1" THEN 1 ELSE 0],
   bundles |-> {1, 2}, forfeits |-> TRUE, impatient |-> TRUE, reads |-> 2]
Overlapping ==
  [app |-> "platform", wallets |-> {"w1"}, boxes |-> [w \in {"w1"} |-> 2],
   bundles |-> {1}, forfeits |-> TRUE, impatient |-> TRUE, reads |-> 1]

shown == <<boxes, opening, wallet, machine, flows, known, reads>>

SceneInit ==
  \/ scene = "finish" /\ Of(Finish)!Init
  \/ scene = "site" /\ Of(Site)!Init
  \/ scene = "panel" /\ Of(Panel)!Init

SceneNext ==
  \/ scene = "finish" /\ Of(Finish)!Next /\ UNCHANGED scene
  \/ scene = "site" /\ Of(Site)!Next /\ UNCHANGED scene
  \/ scene = "panel" /\ Of(Panel)!Next /\ UNCHANGED scene

SceneFairness ==
  LET Does(A) == scene = "finish" /\ A /\ UNCHANGED scene
      seen == <<scene, shown>>
      slots == 1 .. Finish.reads
  IN  /\ WF_seen(Does(Of(Finish)!RevealFinished)) /\ WF_seen(Does(Of(Finish)!Claim))
      /\ WF_seen(Does(Of(Finish)!Reset)) /\ WF_seen(Does(Of(Finish)!FinishFailed))
      /\ SF_seen(Does(Of(Finish)!Open))
      /\ SF_seen(Does(\E o \in Of(Finish)!Openings : Of(Finish)!FinishListed(o)))
      /\ \A o \in Of(Finish)!Openings :
           WF_seen(Does(Of(Finish)!Settle(o))) /\ WF_seen(Does(Of(Finish)!ShowPrize(o)))
      /\ WF_seen(Does(\E f \in flows : Of(Finish)!Proceeds(f)))
      /\ SF_seen(Does(\E f \in flows : Of(Finish)!Succeeds(f)))
      /\ WF_seen(Does(\E i \in slots : Of(Finish)!BoxesAnswered(i)))
      /\ WF_seen(Does(\E i \in slots : Of(Finish)!OpeningsAnswered(i)))
      /\ SF_seen(Does(\E i \in slots : Of(Finish)!ReadReturns(i)))
      /\ WF_seen(Does(Of(Finish)!Reload))
      /\ WF_seen(Does(\E w \in Finish.wallets : Of(Finish)!Connect(w)))

SceneSpec == SceneInit /\ [][SceneNext]_<<scene, shown>> /\ SceneFairness

\* A prize on the screen is the one drawn, and one announced as delivered is.
OnEveryPage ==
  /\ scene = "finish" => Of(Finish)!ScreenIsTrue
  /\ scene = "site" => Of(Site)!ScreenIsTrue
  /\ scene = "panel" => Of(Panel)!ScreenIsTrue

\* Every box is opened and every prize delivered; a page that offers nothing is
\* loaded again.
EveryBoxOpensInTheEnd == scene = "finish" => Of(Finish)!EveryBoxOpens
=============================================================================
