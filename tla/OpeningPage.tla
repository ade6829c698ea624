---------------------------- MODULE OpeningPage ----------------------------
(***************************************************************************)
(* The page a holder opens boxes on, in its two forms: HolderPanel of the  *)
(* platform and LaunchApp of the launch site.  Both drive the same reducer *)
(* from asynchronous functions that burn a box, wait for its settlement or *)
(* deliver its prize, while relayers, other devices and the oracle timeout *)
(* move the openings underneath.  An asynchronous function is a flow: it   *)
(* ends with an event for the reducer, whatever the reducer shows by then. *)
(*                                                                         *)
(* What a page knows of the chain is what the last read to come back said. *)
(* A read asks for the boxes and for the unfinished openings, which are    *)
(* answered at two moments, and comes back at a third; on the launch site  *)
(* reads overlap and a read is for the wallet it was asked for, whichever  *)
(* is connected by then.  Animation, hold timing, gifts of boxes and       *)
(* eligibility check boxes are left out.                                   *)
(***************************************************************************)
EXTENDS Integers, FiniteSets

CONSTANTS
  App,          \* "platform" or "web"
  Wallets,      \* wallets that may be connected in this tab, one after another
  Boxes,        \* boxes of each wallet to begin with
  MaxOpenings,  \* openings ever requested
  Bundles,      \* prizes an opening may draw
  MayForfeit,   \* whether an oracle answer may miss its timeout
  Impatient,    \* whether the page is loaded again at any time
  MaxReads      \* bound on the reads of a page under way at a time

NoWallet == "nobody"
Openings == 1 .. MaxOpenings

PageAssumption ==
  /\ App \in {"platform", "web"}
  /\ NoWallet \notin Wallets
  /\ Boxes \in [Wallets -> Nat]
  /\ MaxOpenings \in Nat
  /\ Bundles \subseteq Nat /\ 1 \in Bundles /\ 0 \notin Bundles
  /\ MayForfeit \in BOOLEAN /\ Impatient \in BOOLEAN
  /\ MaxReads \in Nat \ {0}

VARIABLES
  boxes,      \* boxes on chain
  opening,    \* openings on chain
  wallet,     \* the connected wallet
  machine,    \* what openingReducer shows
  flows,      \* asynchronous functions under way
  known,      \* what the page last read
  reads       \* reads under way

chain == <<boxes, opening>>
vars == <<boxes, opening, wallet, machine, flows, known, reads>>

Absent == -1
Committed == 0
Allocated == 2
Delivered == 3
Forfeited == 4
Unfinished == {Committed, Allocated}

Phases == {"idle", "charging", "burning", "rolling", "revealing", "revealed",
           "claiming", "claimed", "failed"}

\* The opening and the bundle a state carries; 0 where the source has null.
Machine == [phase : Phases, opening : {0} \cup Openings, bundle : {0} \cup Bundles]
Idle == [phase |-> "idle", opening |-> 0, bundle |-> 0]

\* An asynchronous function: startOpening burns a box and then settles its
\* opening, resumeOpening or finish only settles, claim delivers.
Flows == [kind : {"open", "resume", "claim"}, opening : {0} \cup Openings,
          wallet : Wallets]

\* A read under way, with what is answered of it.
Unanswered == -1
NoOpenings == [o \in Openings |-> Absent]
Reads == [wallet : Wallets \cup {NoWallet}, boxes : {Unanswered} \cup Nat,
          status : [Openings -> {Absent} \cup Unfinished],
          pending : {Unanswered, 0} \cup Openings]
NoRead == [wallet |-> NoWallet, boxes |-> 0, status |-> NoOpenings, pending |-> 0]
Asked(w) == [wallet |-> w, boxes |-> Unanswered, status |-> NoOpenings,
             pending |-> Unanswered]

\* A page reads as soon as there is a wallet.
FirstReads(w) ==
  [i \in 1 .. MaxReads |-> IF i = 1 /\ w # NoWallet THEN Asked(w) ELSE NoRead]

Unread == [boxes |-> 0, status |-> NoOpenings, pending |-> 0]

Init ==
  /\ boxes = Boxes
  /\ opening = [o \in Openings |->
                  [status |-> Absent, owner |-> NoWallet, bundle |-> 0]]
  /\ wallet \in IF App = "web" THEN {NoWallet} ELSE Wallets
  /\ machine = Idle
  /\ flows = {}
  /\ known = Unread
  /\ reads = FirstReads(wallet)

-----------------------------------------------------------------------------
(* openingReducer.                                                         *)

Holds(s) == s.bundle # 0                     \* "result" in state && state.result

Event(type) == [type |-> type, opening |-> 0, bundle |-> 0]
Committing(o) == [type |-> "committed", opening |-> o, bundle |-> 0]

\* recordedResult shows selectedBundle, which is the first bundle until the
\* program has drawn one.
Recorded(o) ==
  LET drawn == opening[o].bundle
  IN [type |-> "recorded", opening |-> o, bundle |-> IF drawn = 0 THEN 1 ELSE drawn]

Accepts(type) ==
  CASE type = "hold" -> {"idle"}
    [] type = "release" -> {"charging"}
    [] type = "charged" -> {"charging", "idle"}
    [] type = "committed" -> {"burning", "failed", "idle"}
    [] type = "recorded" -> {"rolling", "burning", "idle", "failed"}
    [] type = "revealFinished" -> {"revealing"}
    [] type = "claim" -> {"revealed", "revealing", "failed"}
    [] type = "claimed" -> {"claiming"}
    [] type \in {"fail", "reset"} -> Phases

PhaseAfter(type) ==
  CASE type = "hold" -> "charging"
    [] type = "charged" -> "burning"
    [] type = "committed" -> "rolling"
    [] type = "recorded" -> "revealing"
    [] type = "revealFinished" -> "revealed"
    [] type = "claim" -> "claiming"
    [] type = "claimed" -> "claimed"
    [] type = "fail" -> "failed"
    [] type \in {"release", "reset"} -> "idle"

Carried(s, e) ==
  CASE e.type \in {"committed", "recorded"} -> <<e.opening, e.bundle>>
    [] e.type \in {"hold", "release", "charged", "reset"} -> <<0, 0>>
    [] e.type = "fail" ->
         <<IF s.phase = "rolling" \/ Holds(s) THEN s.opening ELSE 0, s.bundle>>
    [] OTHER -> <<s.opening, s.bundle>>

openingReducer(s, e) ==
  IF s.phase \notin Accepts(e.type) \/ (e.type = "claim" /\ ~Holds(s))
  THEN s
  ELSE [phase |-> PhaseAfter(e.type),
        opening |-> Carried(s, e)[1], bundle |-> Carried(s, e)[2]]

Dispatch(e) == machine' = openingReducer(machine, e)

-----------------------------------------------------------------------------
(* The chain, moved by others.                                             *)

Burned(w) ==
  \E o \in Openings :
    /\ opening[o].status = Absent
    /\ \A p \in Openings : p < o => opening[p].status # Absent
    /\ boxes[w] > 0
    /\ boxes' = [boxes EXCEPT ![w] = @ - 1]
    /\ opening' = [opening EXCEPT ![o].status = Committed, ![o].owner = w]

\* The holder opens a box in another tab or did in an earlier visit, or a burn
\* that this page gave up on lands after all.
BurnElsewhere(w) ==
  /\ Burned(w)
  /\ UNCHANGED <<wallet, machine, flows, known, reads>>

Settle(o) ==
  /\ opening[o].status = Committed
  /\ \E b \in Bundles :
       opening' = [opening EXCEPT ![o].status = Allocated, ![o].bundle = b]
  /\ UNCHANGED <<boxes, wallet, machine, flows, known, reads>>

Forfeit(o) ==
  /\ MayForfeit
  /\ opening[o].status = Committed
  /\ opening' = [opening EXCEPT ![o].status = Forfeited]
  /\ UNCHANGED <<boxes, wallet, machine, flows, known, reads>>

Deliver(o) ==
  /\ opening[o].status = Allocated
  /\ opening' = [opening EXCEPT ![o].status = Delivered]
  /\ UNCHANGED <<boxes, wallet, machine, flows, known, reads>>

-----------------------------------------------------------------------------
(* The page reads a wallet's boxes and unfinished openings.                *)

Free(i) == reads[i].wallet = NoWallet

\* refreshWallet, whose reads overlap, and refresh of the platform, after which
\* an earlier read is not looked at.
Refresh(w) ==
  IF App = "platform"
  THEN reads' = [reads EXCEPT ![1] = Asked(w)]
  ELSE \E i \in 1 .. MaxReads :
         /\ Free(i) /\ \A j \in 1 .. MaxReads : Free(j) => i <= j
         /\ reads' = [reads EXCEPT ![i] = Asked(w)]

UnfinishedOf(w) == {o \in Openings : opening[o].owner = w /\ opening[o].status \in Unfinished}

BoxesAnswered(i) ==
  /\ ~Free(i) /\ reads[i].boxes = Unanswered
  /\ reads' = [reads EXCEPT ![i].boxes = boxes[reads[i].wallet]]
  /\ UNCHANGED <<chain, wallet, machine, flows, known>>

\* The platform keeps the list, the launch site its first entry.
OpeningsAnswered(i) ==
  LET mine == UnfinishedOf(reads[i].wallet)
      status == [o \in Openings |->
                   IF App = "platform" /\ o \in mine THEN opening[o].status ELSE Absent]
  IN  /\ ~Free(i) /\ reads[i].pending = Unanswered
      /\ \E first \in {0} \cup Openings :
           /\ IF App = "platform" \/ mine = {} THEN first = 0
              ELSE first \in mine /\ \A o \in mine : first <= o
           /\ reads' = [reads EXCEPT ![i] =
                          [wallet |-> reads[i].wallet, boxes |-> reads[i].boxes,
                           status |-> status, pending |-> first]]
      /\ UNCHANGED <<chain, wallet, machine, flows, known>>

\* Promise.all resolves, and what it read replaces what the page knew.
Answered(i) ==
  ~Free(i) /\ reads[i].boxes # Unanswered /\ reads[i].pending # Unanswered

ReadReturns(i) ==
  /\ Answered(i)
  /\ known' = [boxes |-> reads[i].boxes, status |-> reads[i].status,
                pending |-> reads[i].pending]
  /\ reads' = [reads EXCEPT ![i] = NoRead]
  /\ UNCHANGED <<chain, wallet, machine, flows>>

\* Or it fails, and the page knows what it knew; one that fails early stands
\* for one that fails late.
ReadFails(i) ==
  /\ Answered(i)
  /\ reads' = [reads EXCEPT ![i] = NoRead]
  /\ UNCHANGED <<chain, wallet, machine, flows, known>>

-----------------------------------------------------------------------------
(* Flows.  Each of them ends with an event.                                *)

Flow(kind, o) == [kind |-> kind, opening |-> o, wallet |-> wallet]

\* inFlight of the launch site lets no second flow start; the platform has
\* no such guard.
MayStart == App = "web" => flows = {}

Start(kind, o) == flows' = flows \cup {Flow(kind, o)}

\* What a flow does in the end; resumeOpening of the launch site refreshes the
\* series and not the wallet.
Ends(f, e) ==
  /\ flows' = flows \ {f}
  /\ Dispatch(e)
  /\ IF App = "web" /\ f.kind = "resume" THEN UNCHANGED reads ELSE Refresh(f.wallet)
  /\ UNCHANGED wallet

\* A call failed, or was given up on.
Fails(f) ==
  /\ f \in flows
  /\ Ends(f, Event("fail"))
  /\ UNCHANGED <<boxes, opening, known>>

Burns(f) == f.kind = "open" /\ f.opening = 0

\* requestOpen returns: the box is burned and the flow goes on to settle it.
BurnConfirmed(f) ==
  /\ f \in flows
  /\ Burns(f)
  /\ Burned(f.wallet)
  /\ \E o \in Openings :
       /\ opening[o].status = Absent /\ opening'[o].status = Committed
       /\ Dispatch(Committing(o))
       /\ flows' = (flows \ {f}) \cup {[f EXCEPT !.opening = o]}
       /\ known' = [known EXCEPT !.pending = IF App = "web" THEN o ELSE @]
  /\ IF App = "web" THEN Refresh(f.wallet) ELSE UNCHANGED reads
  /\ UNCHANGED wallet

\* settle and settleThrough come back once the opening is past status 1.
SettledTooSoon(o) == TRUE                                   \* mutated SettleDone
SettleDone(o) == opening[o].status >= Allocated

SettleReturns(f) ==
  /\ f \in flows
  /\ f.kind \in {"open", "resume"} /\ f.opening # 0
  /\ SettleDone(f.opening)
  /\ Ends(f, Recorded(f.opening))
  /\ UNCHANGED <<boxes, opening, known>>

\* client.claim comes back only when the opening is delivered.
ClaimReturns(f) ==
  /\ f \in flows
  /\ f.kind = "claim"
  /\ opening[f.opening].status \in {Allocated, Delivered}
  /\ opening' = [opening EXCEPT ![f.opening].status = Delivered]
  /\ Ends(f, Event("claimed"))
  /\ known' = [known EXCEPT !.pending = IF App = "web" THEN 0 ELSE @]
  /\ UNCHANGED boxes

-----------------------------------------------------------------------------
(* What the holder can do with what is on the screen.                      *)

Armed == known.boxes > 0 /\ (App = "web" => machine.phase = "idle")

Shows(phases) == wallet # NoWallet /\ machine.phase \in phases

Hold ==
  /\ Shows({"idle"}) /\ Armed
  /\ Dispatch(Event("hold"))
  /\ UNCHANGED <<chain, wallet, flows, known, reads>>

Release ==
  /\ Shows({"charging"})
  /\ Dispatch(Event("release"))
  /\ UNCHANGED <<chain, wallet, flows, known, reads>>

\* A full charge, or the button that opens without holding.
Open ==
  /\ Shows({"charging"}) \/ (Shows({"idle"}) /\ Armed)
  /\ MayStart
  /\ Dispatch(Event("charged"))
  /\ Start("open", 0)
  /\ UNCHANGED <<chain, wallet, known, reads>>

RevealFinished ==
  /\ Shows({"revealing"})
  /\ Dispatch(Event("revealFinished"))
  /\ UNCHANGED <<chain, wallet, flows, known, reads>>

Busy == machine.phase \in {"burning", "rolling", "claiming"}

\* "Finish opening" and "Resume opening" of the opening a failure left.
FinishFailed ==
  /\ Shows({"failed"})
  /\ machine.opening # 0 /\ ~Holds(machine)
  /\ App = "platform" => known.status[machine.opening] # Absent
  /\ MayStart
  /\ Dispatch(Committing(machine.opening))
  /\ Start("resume", machine.opening)
  /\ UNCHANGED <<chain, wallet, known, reads>>

\* "Finish opening" of an opening the platform's list does not hold reads it
\* again.
LookAgain ==
  /\ App = "platform" /\ Shows({"failed"})
  /\ machine.opening # 0 /\ ~Holds(machine)
  /\ known.status[machine.opening] = Absent
  /\ Refresh(wallet)
  /\ UNCHANGED <<chain, wallet, machine, flows, known>>

\* The list of unfinished openings, or the one the launch site resumes.
Listed(o) ==
  IF App = "platform"
  THEN ~Busy /\ known.status[o] # Absent /\ ~(Holds(machine) /\ machine.opening = o)
  ELSE Shows({"idle"}) /\ known.pending = o

FinishListed(o) ==
  /\ wallet # NoWallet
  /\ Listed(o)
  /\ App = "platform" => known.status[o] = Committed
  /\ MayStart
  /\ Dispatch(Committing(o))
  /\ Start("resume", o)
  /\ UNCHANGED <<chain, wallet, known, reads>>

ShowPrize(o) ==
  /\ App = "platform" /\ wallet # NoWallet
  /\ Listed(o)
  /\ known.status[o] = Allocated
  /\ machine' = openingReducer(openingReducer(machine, Recorded(o)),
                               Event("revealFinished"))
  /\ UNCHANGED <<chain, wallet, flows, known, reads>>

Claim ==
  /\ Shows({"revealed", "failed"})
  /\ Holds(machine)
  /\ MayStart
  /\ Dispatch(Event("claim"))
  /\ Start("claim", machine.opening)
  /\ UNCHANGED <<chain, wallet, known, reads>>

\* The platform dispatches no reset: only a reload of the page starts over.
NeverReset == FALSE                                          \* mutated Resets
Resets ==
  /\ App = "web"
  /\ \/ Shows({"claimed"})
     \/ Shows({"failed"}) /\ ~Holds(machine)

Reset ==
  /\ Resets
  /\ Dispatch(Event("reset"))
  /\ UNCHANGED <<chain, wallet, flows, known, reads>>

Disconnect ==
  /\ App = "web" /\ Cardinality(Wallets) > 1
  /\ wallet # NoWallet
  /\ wallet' = NoWallet
  /\ known' = [known EXCEPT !.boxes = 0, !.pending = 0]
  /\ Dispatch(Event("reset"))
  /\ UNCHANGED <<chain, flows, reads>>

Connect(w) ==
  /\ wallet = NoWallet
  /\ wallet' = w
  /\ Refresh(w)
  /\ UNCHANGED <<chain, machine, flows, known>>

\* The launch site has nothing for the holder to press and nothing under way.
OffersNothing ==
  /\ App = "web" /\ Shows({"idle"})
  /\ known.boxes = 0 /\ known.pending = 0
  /\ flows = {} /\ \A i \in 1 .. MaxReads : Free(i)

\* A new visit: the flows and reads of the old page are gone, what they sent is
\* not.  On the launch site a wallet is connected again.
Reload ==
  /\ Impatient \/ OffersNothing
  /\ wallet' = IF App = "web" THEN NoWallet ELSE wallet
  /\ machine' = Idle
  /\ flows' = {}
  /\ known' = Unread
  /\ reads' = FirstReads(wallet')
  /\ UNCHANGED chain

Holder ==
  \/ Hold \/ Release \/ Open \/ RevealFinished \/ FinishFailed \/ LookAgain \/ Claim
  \/ Reset \/ \E o \in Openings : FinishListed(o) \/ ShowPrize(o)

Succeeds(f) == BurnConfirmed(f) \/ SettleReturns(f) \/ ClaimReturns(f)

Proceeds(f) == Fails(f) \/ Succeeds(f)

Next ==
  \/ Holder \/ Disconnect \/ Reload
  \/ \E w \in Wallets : BurnElsewhere(w) \/ Connect(w)
  \/ \E o \in Openings : Settle(o) \/ Forfeit(o) \/ Deliver(o)
  \/ \E f \in flows : Proceeds(f)
  \/ \E i \in 1 .. MaxReads :
       BoxesAnswered(i) \/ OpeningsAnswered(i) \/ ReadReturns(i) \/ ReadFails(i)

\* Relayers settle openings, repeated calls and reads succeed in the end, and
\* the holder goes on pressing what the page offers, or loads it again when it
\* offers nothing.
Fairness ==
  /\ WF_vars(RevealFinished) /\ WF_vars(Claim) /\ WF_vars(Reset) /\ WF_vars(FinishFailed)
  /\ SF_vars(Open) /\ SF_vars(\E o \in Openings : FinishListed(o))
  /\ \A o \in Openings : WF_vars(Settle(o)) /\ WF_vars(ShowPrize(o))
  /\ WF_vars(\E f \in flows : Proceeds(f))
  /\ SF_vars(\E f \in flows : Succeeds(f))
  /\ WF_vars(\E i \in 1 .. MaxReads : BoxesAnswered(i))
  /\ WF_vars(\E i \in 1 .. MaxReads : OpeningsAnswered(i))
  /\ SF_vars(\E i \in 1 .. MaxReads : ReadReturns(i))
  /\ WF_vars(Reload) /\ WF_vars(\E w \in Wallets : Connect(w))

Spec == Init /\ [][Next]_vars /\ Fairness

-----------------------------------------------------------------------------
TypeOK ==
  /\ boxes \in [Wallets -> Nat]
  /\ wallet \in Wallets \cup {NoWallet}
  /\ machine \in Machine
  /\ flows \subseteq Flows
  /\ known.boxes \in Nat /\ known.pending \in {0} \cup Openings
  /\ reads \in [1 .. MaxReads -> Reads]

\* Whatever flows end in whatever order, a prize on the screen is the one the
\* program drew for that opening, unless the opening was forfeited.
ResultIsDrawn ==
  Holds(machine) =>
    LET o == opening[machine.opening]
    IN o.status = Forfeited \/ (o.status >= Allocated /\ o.bundle = machine.bundle)

\* "reveal of the already-recorded result": a prize is shown only for an
\* opening that was allocated one.
ShownPrizeIsRecorded ==
  Holds(machine) => opening[machine.opening].status \in {Allocated, Delivered}

\* The announcement "... delivered to your wallet" is made only about an
\* opening that is delivered, although claims, retries and other openings of
\* the same holder overlap.
ClaimedIsDelivered ==
  machine.phase = "claimed" => opening[machine.opening].status = Delivered

\* What the screen says of an opening is what the chain says of it.
ScreenIsTrue == TypeOK /\ ResultIsDrawn /\ (App = "web" => ClaimedIsDelivered)

\* ... and only to the wallet that won it.
DeliveredToYou ==
  machine.phase = "claimed" => opening[machine.opening].owner = wallet

\* A holder who goes on pressing what the page offers, and loads it again when
\* it offers nothing, opens every box and receives every prize.
EveryBoxOpens ==
  <>[](/\ \A w \in Wallets : boxes[w] = 0
       /\ \A o \in Openings : opening[o].status \notin Unfinished)
=============================================================================
