----------------------------- MODULE MCPlatform -----------------------------
(***************************************************************************)
(* The two things the Worker does on a schedule: the runs of the relayer      *)
(* (Cron) and the pass over unused images with the requests it races           *)
(* (Storage).  They share no state, so the initial states choose which of the  *)
(* two moves, and the other one rests.                                         *)
(***************************************************************************)
EXTENDS Cron, TLC

CONSTANTS a, b, Keys, Drafts, Uploads, Requests, NoPage, Quota, Limit

VARIABLES scene, row, born, old, bucket, known, upload, draft, shown, publish, remove,
          pass

Images == INSTANCE Storage WITH page <- shown

ASSUME ImagesAssumption == Images!StorageAssumption

MCRuns == {a, b}

images == <<row, born, old, bucket, known, upload, draft, shown, publish, remove, pass>>
everything == <<scene, vars, images>>

SceneInit == scene \in {"relayer", "images"} /\ Init /\ Images!Init

SceneNext ==
  \/ scene = "relayer" /\ Next /\ UNCHANGED <<scene, images>>
  \/ scene = "images" /\ Images!Next /\ UNCHANGED <<scene, vars>>

\* The fairness of Cron, for the scene in which it moves.
SceneFairness ==
  LET Does(A) == scene = "relayer" /\ A /\ UNCHANGED <<scene, images>>
  IN  /\ WF_everything(Does(Tick))
      /\ \A r \in Runs : WF_everything(Does(Step(r)))
      /\ SF_everything(Does(\E r \in Runs : lease.left <= 0 /\ Start(r)))
      /\ SF_everything(Does(\E r \in Runs : ~Expired(r) /\ Acquire(r)))
      /\ SF_everything(Does(\E r \in Runs : ~Expired(r) /\ ReadCursor(r)))
      /\ SF_everything(Does(\E r \in Runs : ~Expired(r) /\ ReadPage(r)))
      /\ SF_everything(Does(\E r \in Runs : NextLootbox(r)))
      /\ SF_everything(Does(\E r \in Runs : SaveCursor(r)))

SceneSpec == SceneInit /\ [][SceneNext]_everything /\ SceneFairness

\* Covers that are referred to are served, a launch keeps the cover it has read,
\* and no object lies in the bucket uncounted.
StorageSound == Images!StorageSound
=============================================================================
