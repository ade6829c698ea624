----------------------------- MODULE MCSettling -----------------------------
(***************************************************************************)
(* Delivery and Relay side by side.  They share no state: a relayer takes an *)
(* opening to its draw, a claimer delivers what was drawn.  So the initial    *)
(* states choose which of the two moves, and the other one rests.             *)
(***************************************************************************)
EXTENDS Delivery

CONSTANTS cron, browser, Relayers, Until, MaxOpenings, Stock, Entropy, MaxSlot, Timeout,
          Faults, MaxLate

VARIABLES scene, answer, opening, remaining, head, slot, confirmed, sent, relayer,
          overtaken, faulted

Relaying == INSTANCE Relay WITH
  Claimers <- {},
  wire     <- sent

Three == 0 .. 2

\* Two bundles of one ticket: what the second draw takes depends on the first.
TwoBundles == <<1, 1>>
BrowserStops == [r \in Relayers |-> IF r = browser THEN 2 ELSE 0]

relaying == <<answer, opening, remaining, head, slot, confirmed, sent, relayer, overtaken,
              faulted>>
everything == <<scene, vars, relaying>>

SceneInit == scene \in {"relay", "claim"} /\ Init /\ Relaying!Init

SceneNext ==
  \/ scene = "relay" /\ Relaying!Next /\ UNCHANGED <<scene, vars>>
  \/ scene = "claim" /\ Next /\ UNCHANGED <<scene, relaying>>

\* The fairness of both modules, each for the scene in which it moves.
SceneFairness ==
  /\ WF_everything(scene = "relay" /\ Relaying!Tick /\ UNCHANGED <<scene, vars>>)
  /\ SF_everything(scene = "relay" /\ Relaying!Confirm /\ UNCHANGED <<scene, vars>>)
  /\ \A r \in Relayers :
       LET Does(A) == scene = "relay" /\ A /\ UNCHANGED <<scene, vars>>
       IN  /\ WF_everything(Does(Relaying!Walk(r)))
           /\ SF_everything(Does(Relaying!NextOpening(r)))
           /\ SF_everything(Does(Relaying!Advance(r)))
           /\ SF_everything(Does(\E t \in sent : Relaying!Awaits(r, t) /\ Relaying!Land(t)))
  /\ LET Does(A) == scene = "claim" /\ A /\ UNCHANGED <<scene, relaying>>
     IN  /\ \A c \in Claimers : WF_everything(Does(Step(c))) /\ WF_everything(Does(Start(c)))
         /\ WF_everything(Does(\E t \in wire : t.waits /\ Lands(t)))

SceneSpec == SceneInit /\ [][SceneNext]_everything /\ SceneFairness

\* Relayers take the openings out of the queue in their order, whoever they are and
\* however late their transactions land: Relay implements SettledQueue.
QueueKept == Relaying!QueueKept

\* The winner gets the whole bundle, whatever failed on the way.
DeliveredInTheEnd == scene = "claim" => AllDelivered
=============================================================================
