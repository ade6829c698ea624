------------------------------- MODULE MCPool -------------------------------
(***************************************************************************)
(* The prize pool in three scenes on the same variables, of which the initial *)
(* states choose one: the program by itself (PrizePool), any instruction at    *)
(* any time; and its funding and cancellation by a client (PoolFunding), in one *)
(* tab with transactions that land late, or of one draft in the other tabs      *)
(* while the collection toggles a leaf.  A client only sends instructions, so   *)
(* that the pool is sound in all of them.                                      *)
(***************************************************************************)
EXTENDS PoolFunding, TLC

CONSTANTS l1, l2, l3, o1, o2, o3, t1, t2, t3

VARIABLE scene

\* Leaves, openings and the two tabs are interchangeable.
Alike ==
  Permutations({l1, l2, l3}) \cup Permutations({o1, o2, o3}) \cup Permutations({t2, t3})

SceneInit == scene \in {"retries", "tabs", "program"} /\ FundingInit

\* What one tab does with its leaves as they are, however often it starts again.
Retries == flag' = flag /\ \A t \in Tabs \ {t1} : tab'[t] = tab[t]

\* What the other tabs do with one draft, of which every transaction is awaited.
OneDraft == count'.drafts <= 1 /\ count'.lates = 0 /\ tab'[t1] = tab[t1]

SceneNext ==
  /\ UNCHANGED scene
  /\ \/ scene = "retries" /\ FundingNext /\ Retries
     \/ scene = "tabs" /\ FundingNext /\ OneDraft
     \/ scene = "program" /\ Next /\ UNCHANGED <<tab, saved, late, asked, count>>

SceneSpec == SceneInit /\ [][SceneNext]_<<scene, allVars>>

\* A bundle goes live with the leaves of one draft, never with a mixture.
LiveFromOneDraft == scene # "program" => LiveAsPlanned
=============================================================================
