-------------------------------- MODULE Relay --------------------------------
(***************************************************************************)
(* relayTemplateOpenings of the SDK: several relayers (the platform's cron *)
(* run, a script that also claims, a holder's browser that walks up to its *)
(* own opening) advance the same queue of openings without talking to each *)
(* other.  Each reads the template, then the list of openings, then sends  *)
(* one transaction per step; in between the chain moves.  The list is read *)
(* at the "confirmed" commitment and everything else at "processed", so it *)
(* may be behind.  A sender that stops polling after 20 seconds leaves its *)
(* transaction in flight, and it may still land.                           *)
(*                                                                         *)
(* The chain is kept to what a relayer can tell apart: the status of each  *)
(* opening, the tickets left, the head of the queue and the slot.  The     *)
(* program's own rules are Treasury's; a claim is one transaction here and *)
(* is taken apart in Delivery.  All bundles are in the snapshot of every   *)
(* opening, as they are once a template is sealed.                         *)
(***************************************************************************)
EXTENDS Integers, FiniteSets, Sequences, FiniteSetsExt, Functions

CONSTANTS
  Relayers,     \* independent processes
  Claimers,     \* the relayers with the option `claim`
  Until,        \* the opening at which each relayer stops, 0 for none
  MaxOpenings,  \* openings ever requested
  Stock,        \* tickets of each bundle, numbered from 1
  Entropy,      \* answers the oracle may give
  MaxSlot,      \* bound on the slot clock
  Timeout,      \* slots after which a committed head may be forfeited
  Faults,       \* whether oracle calls fail
  MaxLate       \* bound on transactions in flight that nobody waits for

Openings == 1 .. MaxOpenings
Bundles == DOMAIN Stock

ASSUME RelayAssumption ==
  /\ Claimers \subseteq Relayers
  /\ MaxOpenings \in Nat \ {0}
  /\ Until \in [Relayers -> 0 .. MaxOpenings]
  /\ Stock \in Seq(Nat)
  /\ SumFunction(Stock) >= MaxOpenings
  /\ Entropy \subseteq Nat
  /\ MaxSlot \in Nat /\ Timeout \in Nat
  /\ Faults \in BOOLEAN
  /\ MaxLate \in Nat

VARIABLES
  answer,     \* the oracle's answer to each opening
  opening,    \* openings on chain: status, seed slot and drawn bundle
  remaining,  \* tickets left on chain
  head,       \* next_allocation: the opening that may be allocated
  slot,       \* the chain's clock
  confirmed,  \* opening statuses and slot at the confirmed commitment
  wire,       \* transactions in flight
  relayer,    \* what each relayer knows and where it stands
  overtaken,  \* whether another sender changed the draw since it was read
  faulted     \* whether a fault has hit this pass

chain == <<answer, opening, remaining, head, slot>>
vars == <<answer, opening, remaining, head, slot, confirmed, wire, relayer,
          overtaken, faulted>>

\* OPENING_STATUS; -1 before the request and 5 after the account is closed.
Absent == -1
Committed == 0
Revealed == 1
Allocated == 2
Delivered == 3
ForfeitedStatus == 4
Closed == 5
OnChain == Committed .. ForfeitedStatus
Status == Absent .. Closed

Steps == {"settle", "allocate", "claim"}
Transactions == [by : Relayers, step : Steps, opening : Openings,
                 bundle : {0} \cup Bundles, late : BOOLEAN]

Relayer == [pc : {"idle", "list", "walk", "wait", "error", "reread", "retemplate"},
            inventory : [Bundles -> Nat], slot : 0 .. MaxSlot,
            view : [Openings -> Status], at : 0 .. MaxOpenings + 1,
            report : {"none", "done", "stopped", "blocked", "failed"}]

Statuses == [o \in Openings |-> opening[o].status]

Resting == [pc |-> "idle", inventory |-> Stock, slot |-> 0,
            view |-> [o \in Openings |-> Absent], at |-> 0, report |-> "none"]

Init ==
  /\ answer \in [Openings -> Entropy]
  /\ opening = [o \in Openings |-> [status |-> Absent, seed |-> 0, bundle |-> 0]]
  /\ remaining = Stock
  /\ head = 1
  /\ slot = 0
  /\ confirmed = [status |-> Statuses, slot |-> 0]
  /\ wire = {}
  /\ relayer = [r \in Relayers |-> Resting]
  /\ overtaken = [r \in Relayers |-> FALSE]
  /\ faulted = [r \in Relayers |-> FALSE]

-----------------------------------------------------------------------------
(* The chain.                                                              *)

\* selectTemplateBundle: the first bundle whose running total passes the
\* target.  The digests of the program's sampler are the answer itself.
Select(inventory, e) ==
  LET target == e % SumFunction(inventory)
  IN Min({b \in Bundles : target < SumFunctionOnSet(inventory, 1 .. b)})

RequestOpen(o) ==
  /\ opening[o].status = Absent
  /\ slot < MaxSlot          \* the bounded clock still reaches the seed slot
  /\ \A p \in Openings : p < o => opening[p].status # Absent
  /\ opening' = [opening EXCEPT ![o].status = Committed, ![o].seed = slot]
  /\ UNCHANGED <<answer, remaining, head, slot, confirmed, wire, relayer,
                 overtaken, faulted>>

Tick ==
  /\ slot < MaxSlot
  /\ slot' = slot + 1
  /\ UNCHANGED <<answer, opening, remaining, head, confirmed, wire, relayer,
                 overtaken, faulted>>

Confirm ==
  /\ confirmed' = [status |-> Statuses, slot |-> slot]
  /\ UNCHANGED <<chain, wire, relayer, overtaken, faulted>>

\* Some other program reveals an opening without allocating it.
Fulfill(o) ==
  /\ opening[o].status = Committed
  /\ slot > opening[o].seed
  /\ opening' = [opening EXCEPT ![o].status = Revealed]
  /\ UNCHANGED <<answer, remaining, head, slot, confirmed, wire, relayer,
                 overtaken, faulted>>

\* Anyone gives up a head that got no answer in time; no ticket is drawn.
Forfeit(o) ==
  /\ opening[o].status = Committed
  /\ o = head
  /\ slot >= opening[o].seed + Timeout
  /\ opening' = [opening EXCEPT ![o].status = ForfeitedStatus]
  /\ head' = head + 1
  /\ UNCHANGED <<answer, remaining, slot, confirmed, wire, relayer,
                 overtaken, faulted>>

Close(o) ==
  /\ opening[o].status \in {Delivered, ForfeitedStatus}
  /\ opening' = [opening EXCEPT ![o].status = Closed]
  /\ UNCHANGED <<answer, remaining, head, slot, confirmed, wire, relayer,
                 overtaken, faulted>>

\* What the program requires of each transaction.
AcceptedWithAnyBundle(t) ==                                  \* mutated Accepted
  LET o == opening[t.opening]
  IN \/ t.step = "settle" /\ o.status = Committed /\ t.opening = head
     \/ t.step = "allocate" /\ o.status = Revealed /\ t.opening = head
     \/ t.step = "claim" /\ o.status = Allocated
Accepted(t) ==
  LET o == opening[t.opening]
      drawable == /\ t.opening = head
                  /\ t.bundle = Select(remaining, answer[t.opening])
  IN \/ t.step = "settle" /\ o.status = Committed /\ slot > o.seed /\ drawable
     \/ t.step = "allocate" /\ o.status = Revealed /\ drawable
     \/ t.step = "claim" /\ o.status = Allocated

Execute(t) ==
  IF t.step = "claim"
  THEN /\ opening' = [opening EXCEPT ![t.opening].status = Delivered]
       /\ UNCHANGED <<answer, remaining, head, slot>>
  ELSE /\ opening' = [opening EXCEPT ![t.opening].status = Allocated,
                                     ![t.opening].bundle = t.bundle]
       /\ remaining' = [remaining EXCEPT ![t.bundle] = @ - 1]
       /\ head' = head + 1
       /\ UNCHANGED <<answer, slot>>

-----------------------------------------------------------------------------
(* send: a transaction is submitted, executes at most once at a later time *)
(* and its sender waits for the status until it gives up.                  *)

Awaits(r, t) == t.by = r /\ ~t.late

Land(t) ==
  /\ wire' = wire \ {t}
  /\ \/ Accepted(t) /\ Execute(t)
     \/ ~Accepted(t) /\ UNCHANGED chain
  /\ relayer' = IF t.late THEN relayer
                ELSE [relayer EXCEPT ![t.by].pc =
                        IF Accepted(t) THEN "reread" ELSE "error"]
  /\ overtaken' = [r \in Relayers |->
                     \/ overtaken[r]
                     \/ Accepted(t) /\ t.step # "claim" /\ ~Awaits(r, t)]
  /\ UNCHANGED <<confirmed, faulted>>

TimeOut(t) ==
  /\ ~t.late
  /\ Cardinality({u \in wire : u.late}) < MaxLate
  /\ wire' = (wire \ {t}) \cup {[t EXCEPT !.late = TRUE]}
  /\ relayer' = [relayer EXCEPT ![t.by].pc = "error"]
  /\ faulted' = [faulted EXCEPT ![t.by] = TRUE]
  /\ UNCHANGED <<chain, confirmed, overtaken>>

\* The blockhash of a transaction nobody waits for expires.
Expire(t) ==
  /\ t.late
  /\ wire' = wire \ {t}
  /\ UNCHANGED <<chain, confirmed, relayer, overtaken, faulted>>

-----------------------------------------------------------------------------
(* relayTemplateOpenings.                                                  *)

Claims(r) == r \in Claimers

NeedsWork(r, status) ==
  \/ status \in {Committed, Revealed}
  \/ Claims(r) /\ status = Allocated

Pending == \E o \in Openings : opening[o].status \in {Committed, Revealed}

\* The template is read first; an idle treasury is left at once.
ReadTemplate(r) ==
  /\ relayer[r].pc = "idle"
  /\ Until[r] # 0 => opening[Until[r]].status # Absent
  /\ Claims(r) \/ Pending
  /\ relayer' = [relayer EXCEPT ![r] = [Resting EXCEPT !.pc = "list",
                                                       !.inventory = remaining]]
  /\ overtaken' = [overtaken EXCEPT ![r] = FALSE]
  /\ faulted' = [faulted EXCEPT ![r] = FALSE]
  /\ UNCHANGED <<chain, confirmed, wire>>

Listed(view, from) == {o \in Openings : o >= from /\ view[o] \in OnChain}

\* The first listed opening at or after `from`, past the end if there is none.
FirstListed(view, from) ==
  LET listed == Listed(view, from)
  IN IF listed = {} THEN MaxOpenings + 1 ELSE Min(listed)

ListOpenings(r) ==
  /\ relayer[r].pc = "list"
  /\ relayer' = [relayer EXCEPT ![r].pc = "walk",
                                ![r].view = confirmed.status,
                                ![r].slot = confirmed.slot,
                                ![r].at = FirstListed(confirmed.status, 1)]
  /\ UNCHANGED <<chain, confirmed, wire, overtaken, faulted>>

\* The caller keeps the result; the locals of the pass are gone.  The list
\* stays with a complete pass, and the reasons with a failed one.
Return(r, report) ==
  LET failed == report = "failed"
  IN /\ relayer' = [relayer EXCEPT ![r] =
                      [Resting EXCEPT
                         !.report = report,
                         !.view = IF report = "done" THEN relayer[r].view ELSE @]]
     /\ overtaken' = [overtaken EXCEPT ![r] = failed /\ @]
     /\ faulted' = [faulted EXCEPT ![r] = failed /\ @]
     /\ UNCHANGED <<chain, confirmed, wire>>

Walking(r) == relayer[r].pc = "walk" /\ relayer[r].at \in Openings

Seen(r) == relayer[r].view[relayer[r].at]

EndOfList(r) ==
  /\ relayer[r].pc = "walk"
  /\ relayer[r].at \notin Openings
  /\ Return(r, "done")

\* shouldStop: the caller's budget, deadline or exit.
StopEarly(r) ==
  /\ Walking(r)
  /\ Return(r, "stopped")

NextOpening(r) ==
  /\ Walking(r)
  /\ ~NeedsWork(r, Seen(r))
  /\ IF Until[r] = relayer[r].at
     THEN Return(r, "done")
     ELSE /\ relayer' = [relayer EXCEPT ![r].at =
                           FirstListed(relayer[r].view, relayer[r].at + 1)]
          /\ UNCHANGED <<chain, confirmed, wire, overtaken, faulted>>

WaitForSeed(r) == Seen(r) = Committed /\ relayer[r].slot <= opening[relayer[r].at].seed

WaitForSeedSlot(r) ==
  /\ Walking(r)
  /\ WaitForSeed(r)
  /\ Return(r, "blocked")

StepFor(status) ==
  CASE status = Committed -> "settle"
    [] status = Revealed -> "allocate"
    [] OTHER -> "claim"

\* The bundle of a draw is predicted from the template as it was last read; a
\* claim names none.
Predicted(r) ==
  IF Seen(r) = Allocated THEN 0 ELSE Select(relayer[r].inventory, answer[relayer[r].at])

\* The sampler throws when the template that was read has no ticket left.
Predictable(r) == Seen(r) = Allocated \/ SumFunction(relayer[r].inventory) > 0

SamplerThrows(r) ==
  /\ Walking(r)
  /\ NeedsWork(r, Seen(r))
  /\ ~WaitForSeed(r) /\ ~Predictable(r)
  /\ relayer' = [relayer EXCEPT ![r].pc = "error"]
  /\ UNCHANGED <<chain, confirmed, wire, overtaken, faulted>>

Advance(r) ==
  /\ Walking(r)
  /\ NeedsWork(r, Seen(r))
  /\ ~WaitForSeed(r) /\ Predictable(r)
  /\ wire' = wire \cup {[by |-> r, step |-> StepFor(Seen(r)),
                         opening |-> relayer[r].at, bundle |-> Predicted(r),
                         late |-> FALSE]}
  /\ relayer' = [relayer EXCEPT ![r].pc = "wait"]
  /\ UNCHANGED <<chain, confirmed, overtaken, faulted>>

\* The gateway, the oracle or the RPC node refuses before anything is sent.
CallFails(r) ==
  /\ Faults
  /\ Walking(r)
  /\ NeedsWork(r, Seen(r))
  /\ ~WaitForSeed(r)
  /\ relayer' = [relayer EXCEPT ![r].pc = "error"]
  /\ faulted' = [faulted EXCEPT ![r] = TRUE]
  /\ UNCHANGED <<chain, confirmed, wire, overtaken>>

\* The opening is read again: was the step done by somebody else?
LeaveOpening(r) ==                                          \* mutated HandleError
  /\ relayer[r].pc = "error"
  /\ IF opening[relayer[r].at].status > Seen(r)
     THEN /\ relayer' = [relayer EXCEPT ![r].pc = "walk",
                           ![r].at = FirstListed(relayer[r].view, relayer[r].at + 1)]
          /\ UNCHANGED <<chain, confirmed, wire, overtaken, faulted>>
     ELSE Return(r, "failed")
HandleError(r) ==
  /\ relayer[r].pc = "error"
  /\ IF opening[relayer[r].at].status > Seen(r)
     THEN /\ relayer' = [relayer EXCEPT ![r].pc = "reread"]
          /\ UNCHANGED <<chain, confirmed, wire, overtaken, faulted>>
     ELSE Return(r, "failed")

Reread(r) ==
  /\ relayer[r].pc = "reread"
  /\ relayer' = [relayer EXCEPT ![r].pc = "retemplate",
                   ![r].view = [@ EXCEPT ![relayer[r].at] =
                                  opening[relayer[r].at].status]]
  /\ UNCHANGED <<chain, confirmed, wire, overtaken, faulted>>

KeepTemplate(r) ==                                    \* mutated RereadTemplate
  /\ relayer[r].pc = "retemplate"
  /\ relayer' = [relayer EXCEPT ![r].pc = "walk"]
  /\ overtaken' = [overtaken EXCEPT ![r] = FALSE]
  /\ UNCHANGED <<chain, confirmed, wire, faulted>>
RereadTemplate(r) ==
  /\ relayer[r].pc = "retemplate"
  /\ relayer' = [relayer EXCEPT ![r].pc = "walk", ![r].inventory = remaining]
  /\ overtaken' = [overtaken EXCEPT ![r] = FALSE]
  /\ UNCHANGED <<chain, confirmed, wire, faulted>>

Walk(r) ==
  \/ ReadTemplate(r) \/ ListOpenings(r) \/ EndOfList(r) \/ NextOpening(r)
  \/ WaitForSeedSlot(r) \/ SamplerThrows(r) \/ HandleError(r) \/ Reread(r) \/ RereadTemplate(r)

Environment ==
  \/ Tick \/ Confirm
  \/ \E o \in Openings : RequestOpen(o) \/ Fulfill(o) \/ Forfeit(o) \/ Close(o)
  \/ \E t \in wire : TimeOut(t) \/ Expire(t)
  \/ \E r \in Relayers : StopEarly(r) \/ CallFails(r)

Next ==
  \/ Environment
  \/ \E t \in wire : Land(t)
  \/ \E r \in Relayers : Walk(r) \/ Advance(r)

\* Relayers run again and again; the chain confirms what it processed; calls
\* that are repeated for ever do not fail for ever, nor do the transactions a
\* relayer waits for always time out; and a caller's budget, spent on attempts
\* only, does not end every pass at the same opening.
Fairness ==
  /\ WF_vars(Tick) /\ SF_vars(Confirm)
  /\ \A r \in Relayers :
       /\ WF_vars(Walk(r))
       /\ SF_vars(NextOpening(r)) /\ SF_vars(Advance(r))
       /\ SF_vars(\E t \in wire : Awaits(r, t) /\ Land(t))

Spec == Init /\ [][Next]_vars /\ Fairness

-----------------------------------------------------------------------------
TypeOK ==
  /\ opening \in [Openings -> [status : Status, seed : 0 .. MaxSlot,
                               bundle : {0} \cup Bundles]]
  /\ remaining \in [Bundles -> Nat]
  /\ head \in 1 .. MaxOpenings + 1
  /\ slot \in 0 .. MaxSlot
  /\ wire \subseteq Transactions
  /\ relayer \in [Relayers -> Relayer]

\* A relayer reports a failure only after a fault or after some other sender
\* drew a ticket since it read the inventory: its own steps never make its
\* prediction for the next opening stale (the template is read again after
\* every step).
FailureExplained ==
  \A r \in Relayers :
    relayer[r].report = "failed" => overtaken[r] \/ faulted[r]

\* What the relayers' comments say of races: losing one is progress, so only
\* a fault is ever reported as a failure.
RaceIsProgress ==
  \A r \in Relayers : relayer[r].report = "failed" => faulted[r]

\* A pass that comes back without being stopped or blocked leaves no opening
\* of its list behind, although others advanced some of them half way: each
\* is allocated (delivered, for a claiming relayer), forfeited or closed.
PassComplete ==
  \A r \in Relayers :
    relayer[r].report = "done" =>
      \A o \in Openings :
        /\ relayer[r].view[o] \in OnChain
        /\ Until[r] # 0 => o <= Until[r]
        => ~NeedsWork(r, opening[o].status)

\* Every report of a pass is true: a failure has a cause, and an end leaves nothing.
PassSound == TypeOK /\ FailureExplained /\ PassComplete

\* Relayers, stale views, late transactions and forfeits together implement
\* the queue that was promised: request order, the draw of the recorded
\* answer, and an end for every opening.
Settled == INSTANCE SettledQueue WITH
  Forfeited <- 0,
  requested <- Cardinality({o \in Openings : opening[o].status # Absent}),
  result <- [o \in 1 .. head - 1 |-> opening[o].bundle]
QueueKept == Settled!Spec
=============================================================================
