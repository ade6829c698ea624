------------------------------ MODULE MCRelay ------------------------------
(***************************************************************************)
(* Actors that act on a chain they read a moment ago, in scenes of which the  *)
(* initial states choose one: relayers that advance the same openings         *)
(* (Relay), one tab of a creator behind an edge cache, and two tabs that      *)
(* append bundles and lock (ManagePage).                                      *)
(***************************************************************************)
EXTENDS Relay

CONSTANTS cron, browser, t1, t2, p1, p2,
          Tabs, Prizes, None, Cached, TTL, MaxRead, Lag, OpensAt, MaxTime, MaxBundles,
          MaxFaults

VARIABLES scene, now, treasury, cache, record, req, post, tab, faults

\* Two bundles of one ticket: what the second draw takes depends on the first.
TwoBundles == <<1, 1>>
BrowserStops == [r \in Relayers |-> IF r = browser THEN 2 ELSE 0]

Pages == INSTANCE ManagePage WITH chain <- treasury

ASSUME PagesAssumption == Pages!ManagePageAssumption

manage == <<now, treasury, cache, record, req, post, tab, faults>>
everything == <<scene, vars, manage>>

\* No box is minted yet, and the two prizes are alike.
OneKind == treasury.minted = 0 /\ treasury.bundles = <<p1>>

\* One tab that adds one kind of prize, as time goes by.
OneTab ==
  /\ <<req[t2], post[t2], tab[t2]>>' = <<req[t2], post[t2], tab[t2]>>
  /\ tab'[t1].run.phase = "start" => tab'[t1].run.prize = p1

\* Two tabs in one moment, with nothing in the cache and no faults.
TwoTabs == cache' = None /\ faults' = 0 /\ now' = now

SceneInit ==
  /\ Init /\ Pages!Init
  /\ \/ scene \in {"race", "tabs"} /\ OneKind
     \/ scene = "cached" /\ treasury.bundles = <<p1>>

SceneNext ==
  \/ scene = "race" /\ Next /\ UNCHANGED <<scene, manage>>
  \/ scene = "cached" /\ Pages!Next /\ OneTab /\ UNCHANGED <<scene, vars>>
  \/ scene = "tabs" /\ Pages!Next /\ TwoTabs /\ UNCHANGED <<scene, vars>>

SceneSpec == SceneInit /\ [][SceneNext]_everything

\* Pages show the chain as it is or was a moment ago, and act on it as shown.
PagesSound == Pages!PageSound
=============================================================================
