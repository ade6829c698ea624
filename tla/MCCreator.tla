------------------------------ MODULE MCCreator ------------------------------
(***************************************************************************)
(* What a creator starts and has to bring to an end, in scenes on separate    *)
(* variables, of which the initial states choose one: handing boxes out       *)
(* (Airdrop) with refusals, with confirmations that time out, and by somebody *)
(* who keeps pressing the button; a prize pool of which winners do not claim  *)
(* (PrizePool); and a staged pool that is cancelled (PoolFunding).            *)
(***************************************************************************)
EXTENDS Airdrop, TLC

CONSTANTS w1, w2, w3, l1, l2, o1, o2, t1, NoPool

VARIABLES scene, poolTemplate, poolBundle, pool, item, poolOpening, owner, flag,
          tab, saved, stagedLate, drafts, stagedCount

Row(w, n) == [to |-> w, count |-> n, valid |-> TRUE]

\* A wallet that comes twice, one batch and a half, a line that is not a wallet
\* and one without a count, and a list that is too long for the boxes.
SomeLists ==
  {<<Row(w1, 1), Row(w2, 2), Row(w1, 1), Row(w3, 1)>>,
   <<Row(w3, 1), Row(w2, 1)>>,
   <<Row(w1, 1), [Row(w2, 1) EXCEPT !.valid = FALSE], Row(w3, 0)>>,
   <<Row(w1, 4), Row(w2, 2), Row(w3, 1)>>}

Unclaimed == INSTANCE PrizePool WITH
  Leaves <- {l1, l2}, Quantity <- 2, Openings <- {o1, o2}, None <- NoPool,
  template <- poolTemplate, bundle <- poolBundle, opening <- poolOpening

Staged == INSTANCE PoolFunding WITH
  Leaves <- {l1, l2}, Quantity <- 2, Openings <- {}, None <- NoPool, Tabs <- {t1},
  template <- poolTemplate, bundle <- poolBundle, opening <- poolOpening,
  MaxDrafts <- 2, MaxToggles <- 1, MaxFaults <- 2, MaxLate <- 0,
  asked <- drafts, late <- stagedLate, count <- stagedCount

poolVars == <<poolTemplate, poolBundle, pool, item, poolOpening, owner, flag>>
fundingVars == <<tab, saved, stagedLate, drafts, stagedCount>>
everything == <<scene, airdropVars, poolVars, fundingVars>>

NoFunding ==
  /\ tab = <<>> /\ saved = NoPool /\ drafts = {}
  /\ stagedLate = {} /\ stagedCount = <<>>

SceneInit ==
  /\ AirdropInit
  /\ \/ scene = "pool" /\ Unclaimed!Init /\ NoFunding
     \/ scene = "staged" /\ Staged!FundingInit
     \/ /\ scene \in {"airdrop", "timeouts", "persistent"}
        /\ Unclaimed!Init /\ NoFunding

\* Recipients and refusals come in once, and n confirmations time out.
Once(n) == timeouts' <= n /\ faults' <= 1 /\ spent' <= 1 /\ opened' <= 1

\* No confirmation times out where the page is refused.
HandsOut ==
  /\ \/ scene = "airdrop" /\ AirdropNext /\ timeouts' = timeouts
     \/ scene = "timeouts" /\ AirdropNext /\ Once(2)
     \/ scene = "persistent" /\ AirdropNext /\ Once(1)
  /\ UNCHANGED <<scene, poolVars, fundingVars>>

SceneNext ==
  \/ HandsOut
  \/ scene = "pool" /\ Unclaimed!Next /\ UNCHANGED <<scene, airdropVars, fundingVars>>
  \/ scene = "staged" /\ Staged!FundingNext /\ UNCHANGED <<scene, airdropVars>>

\* The fairness of the modules, for the scenes of which something is to come.
SceneFairness ==
  /\ LET Does(A) == scene = "persistent" /\ A /\ UNCHANGED <<scene, poolVars, fundingVars>>
     IN  /\ WF_everything(Does(PageStep))
         /\ WF_everything(Does(Send))
         /\ WF_everything(Does(\E batch \in wire : Land(batch)))
  /\ LET Does(A) == scene = "pool" /\ A /\ UNCHANGED <<scene, airdropVars, fundingVars>>
     IN  /\ WF_everything(Does(\E i \in {0, 1} : Unclaimed!ReclaimSealed(i)))
         /\ WF_everything(Does(poolBundle.status = "active" /\ Unclaimed!ClosePrizePool))
  /\ LET Does(A) == scene = "staged" /\ A /\ UNCHANGED <<scene, airdropVars>>
     IN  /\ WF_everything(Does(Staged!Fund(t1) \/ Staged!Cancel(t1)))
         /\ SF_everything(Does(Staged!BeginCancel(t1)))

SceneSpec == SceneInit /\ [][SceneNext]_everything /\ SceneFairness

\* Nobody gets boxes twice and no run is dearer than shown.
AirdropSound ==
  /\ AirdropTypeOK /\ CostsAtMostShown /\ SentIsTrue
  /\ scene = "airdrop" => NobodyTwice /\ ListIsRest

\* Who keeps pressing the button has served the whole list in the end.
ListIsServed == scene = "persistent" => AllServed

\* A pool is wound up although winners do not claim; a staged one goes live or back.
PoolsWindUp ==
  /\ scene = "pool" => Unclaimed!PoolWindsUp
  /\ scene = "staged" => Staged!PoolWoundUp
=============================================================================
