------------------------------- MODULE Airdrop -------------------------------
(***************************************************************************)
(* AirdropCard of the Manage page: the creator pastes a list of wallets and  *)
(* counts, sees what the delivery costs, and the page sends the boxes in     *)
(* batches, one transaction and one signature each.  The list in the text    *)
(* field is the only record of what is left to do: it loses a batch when the *)
(* batch is confirmed, and the creator resumes by pressing the button again. *)
(*                                                                           *)
(* The chain holds the boxes and the recipients' box accounts.  A            *)
(* transaction that the page gave up on can still land: its blockhash stays  *)
(* valid longer than the page waits (LootboxClient.send).                    *)
(***************************************************************************)
EXTENDS Integers, Sequences, SequencesExt, FiniteSets, Functions

CONSTANTS
  Receivers,    \* the recipients
  Lists,        \* lists the creator may paste, sequences of lines
  PerTx,        \* TRANSFERS_PER_TRANSACTION
  Boxes,        \* boxes in the creator's wallet at first
  AccountRent,  \* of one box account
  Fee,          \* of one signature
  MaxFaults,    \* refused signatures and failed requests
  MaxTimeouts,  \* confirmations that time out
  MaxSpent,     \* boxes the creator moves elsewhere meanwhile
  MaxOpened     \* box accounts the recipients open themselves

ListLine == [to : Receivers, count : Nat, valid : BOOLEAN]

ASSUME AirdropAssumption ==
  /\ IsFiniteSet(Receivers)
  /\ Lists \subseteq Seq(ListLine)
  /\ PerTx \in Nat \ {0}
  /\ {Boxes, AccountRent, Fee, MaxFaults, MaxTimeouts, MaxSpent, MaxOpened} \subseteq Nat

VARIABLES
  owned,     \* boxes in the creator's wallet
  received,  \* boxes each wallet has got from the list
  account,   \* wallets with a box account
  wire,      \* batches that were sent and have not landed
  asked,     \* the list as the creator pasted it
  text,      \* the lines in the text field
  balance,   \* the balance the card shows
  cost,      \* the estimate it shows
  run,       \* the run of the button
  sent,      \* boxes the notice says were sent
  charged,   \* what the run has cost so far
  faults, timeouts, spent, opened

holdings == <<owned, received, account, wire>>
card == <<asked, text, balance, cost, run, sent, charged>>
bounds == <<faults, timeouts, spent, opened>>
airdropVars == <<holdings, card, bounds>>

NotYet == [state |-> "none"]
Idle == [state |-> "idle"]

AirdropInit ==
  /\ owned = Boxes
  /\ received = [w \in Receivers |-> 0]
  /\ account = {}
  /\ wire = {}
  /\ asked = <<>> /\ text = <<>>
  /\ balance = NotYet
  /\ cost = NotYet
  /\ run = Idle
  /\ sent = 0 /\ charged = 0
  /\ faults = 0 /\ timeouts = 0 /\ spent = 0 /\ opened = 0

-----------------------------------------------------------------------------
(* The list.                                                                *)

TotalOf(group) == SumFunction([i \in DOMAIN group |-> group[i].count])

\* The boxes that a group has for one wallet.
Share(group, w) ==
  SumFunction([i \in DOMAIN group |-> IF group[i].to = w THEN group[i].count ELSE 0])

TargetsOf(group) == {r.to : r \in ToSet(group)}

ReadsLine(line) == line.valid /\ line.count > 0

\* One more line of the list: the counts of one wallet are added up.
AddLine(recipients, line) ==
  IF ~ReadsLine(line) THEN recipients
  ELSE IF line.to \in TargetsOf(recipients)
  THEN [i \in DOMAIN recipients |->
          IF recipients[i].to = line.to
          THEN [to |-> line.to, count |-> recipients[i].count + line.count]
          ELSE recipients[i]]
  ELSE Append(recipients, [to |-> line.to, count |-> line.count])

Recipients(lines) == FoldLeft(AddLine, <<>>, lines)

HasErrors(lines) == \E line \in ToSet(lines) : ~ReadsLine(line)

BatchCount(n) == (n + PerTx - 1) \div PerTx

Batches(items) ==
  [b \in 1 .. BatchCount(Len(items)) |->
     SubSeq(items, (b - 1) * PerTx + 1,
            IF b * PerTx < Len(items) THEN b * PerTx ELSE Len(items))]

\* The lines that groups leave in the text field.
Lines(groups) ==
  [i \in 1 .. Len(FlattenSeq(groups)) |->
     LET r == FlattenSeq(groups)[i]
     IN [to |-> r.to, count |-> r.count, valid |-> TRUE]]

AirdropCost(addresses, missing) ==
  AccountRent * missing + Fee * BatchCount(Cardinality(addresses))

-----------------------------------------------------------------------------
(* The chain.                                                               *)

\* The transactions of the run that is going on, not of one that was given up.
OfThisRun(batch) == batch.by = <<timeouts, faults>>

\* What a landed batch costs: the signature, and the rent of new accounts.
ChargeOf(batch, created) ==
  IF OfThisRun(batch) THEN Fee + AccountRent * Cardinality(created) ELSE 0

Covered(batch) == TotalOf(batch.group) <= owned

\* A batch is one transaction: all of its transfers happen, or none.
Land(batch) ==
  /\ batch \in wire
  /\ wire' = wire \ {batch}
  /\ IF Covered(batch)
     THEN /\ owned' = owned - TotalOf(batch.group)
          /\ received' = [w \in Receivers |-> received[w] + Share(batch.group, w)]
          /\ account' = account \union TargetsOf(batch.group)
          /\ charged' = charged + ChargeOf(batch, TargetsOf(batch.group) \ account)
          /\ run' = IF run.state = "sending" /\ run.batch = batch
                    THEN [run EXCEPT !.outcome = "ok"] ELSE run
     ELSE /\ UNCHANGED <<owned, received, account>>
          /\ charged' = charged + ChargeOf(batch, {})
          /\ run' = IF run.state = "sending" /\ run.batch = batch
                    THEN [run EXCEPT !.outcome = "failed"] ELSE run
  /\ UNCHANGED <<asked, text, balance, cost, sent, bounds>>

\* A transaction that is not included before its blockhash expires is gone.
Expire(batch) ==
  /\ batch \in wire
  /\ ~(run.state = "sending" /\ run.batch = batch)
  /\ wire' = wire \ {batch}
  /\ UNCHANGED <<owned, received, account, card, bounds>>

\* The creator sends boxes from another page, or sells them.
SpendElsewhere ==
  /\ spent < MaxSpent /\ owned > 0
  /\ owned' = owned - 1
  /\ spent' = spent + 1
  /\ UNCHANGED <<received, account, wire, card, faults, timeouts, opened>>

\* A recipient opens a box account before the boxes come.
OpenAccount(w) ==
  /\ opened < MaxOpened /\ w \notin account
  /\ account' = account \union {w}
  /\ opened' = opened + 1
  /\ UNCHANGED <<owned, received, wire, card, faults, timeouts, spent>>

-----------------------------------------------------------------------------
(* The card.                                                                *)

CardBusy == run.state # "idle"

\* The creator pastes a list; the field is disabled while the card is busy.
Paste(list) ==
  /\ ~CardBusy /\ asked = <<>>
  /\ asked' = list /\ text' = list
  /\ UNCHANGED <<holdings, balance, cost, run, sent, charged, bounds>>

\* useBoxBalance: the balance is read when the card opens and after a run.
LoadBalance ==
  /\ balance = NotYet
  /\ balance' = [state |-> "ready", boxes |-> owned]
  /\ UNCHANGED <<holdings, asked, text, cost, run, sent, charged, bounds>>

Addresses(lines) == TargetsOf(Recipients(lines))

\* useAirdropCost: an estimate belongs to the addresses it was made for.
CostReady == cost.state = "ready" /\ cost.key = Addresses(text)

LoadCost ==
  /\ Recipients(text) # <<>> /\ ~CostReady
  /\ cost' = [state |-> "ready", key |-> Addresses(text),
              total |-> AirdropCost(Addresses(text),
                          Cardinality(Addresses(text) \ account))]
  /\ UNCHANGED <<holdings, asked, text, balance, run, sent, charged, bounds>>

Short == balance # NotYet /\ TotalOf(Recipients(text)) > balance.boxes

Ready == Recipients(text) # <<>> /\ ~HasErrors(text) /\ ~Short

\* The button: the groups of this run are made once, from the list it reads.
Send ==
  /\ ~CardBusy /\ Ready /\ CostReady
  /\ run' = [state |-> "next", groups |-> Batches(Recipients(text)), index |-> 1,
             delivered |-> 0, shown |-> cost.total]
  /\ charged' = 0
  /\ UNCHANGED <<holdings, asked, text, balance, cost, sent, bounds>>

\* LootboxClient.send of the next batch: signed and submitted.
SendBatch ==
  /\ run.state = "next" /\ run.index <= Len(run.groups)
  /\ LET batch == [group |-> run.groups[run.index], by |-> <<timeouts, faults>>]
     IN /\ wire' = wire \union {batch}
        /\ run' = [state |-> "sending", groups |-> run.groups, index |-> run.index,
                   delivered |-> run.delivered, shown |-> run.shown,
                   batch |-> batch, outcome |-> "unknown"]
  /\ UNCHANGED <<owned, received, account, asked, text, balance, cost, sent,
                 charged, bounds>>

\* run is over: HandOut reads the balance again.
StopRun == run' = Idle /\ balance' = NotYet

\* The wallet refuses, a request fails before the transaction is submitted, or
\* the node's preflight finds too few boxes.
Refuse ==
  /\ run.state = "next" /\ run.index <= Len(run.groups)
  /\ \/ /\ faults < MaxFaults
        /\ faults' = faults + 1
     \/ /\ TotalOf(run.groups[run.index]) > owned
        /\ UNCHANGED faults
  /\ StopRun
  /\ UNCHANGED <<holdings, asked, text, cost, sent, charged, timeouts, spent, opened>>

\* Mutant: the group after the confirmed one leaves the list as well.
SkipsOne(index) == index + 2
\* The first group that stays in the list when the one at index is confirmed.
RestFrom(index) == index + 1

\* Mutant: the loop does not go on to the next group.
SameGroup(index) == index

NextGroup(index) == index + 1

SentSoFar(r) == r.delivered + TotalOf(r.batch.group)

Confirm ==
  /\ run.state = "sending" /\ run.outcome = "ok"
  /\ sent' = SentSoFar(run)
  /\ text' = Lines(SubSeq(run.groups, RestFrom(run.index), Len(run.groups)))
  /\ run' = [state |-> "next", groups |-> run.groups, index |-> NextGroup(run.index),
             delivered |-> sent', shown |-> run.shown]
  /\ UNCHANGED <<holdings, asked, balance, cost, charged, bounds>>

Fail ==
  /\ run.state = "sending" /\ run.outcome = "failed"
  /\ StopRun
  /\ UNCHANGED <<holdings, asked, text, cost, sent, charged, bounds>>

\* Eighty looks at the signature, and no answer: "Confirmation timed out."
TimeOut ==
  /\ timeouts < MaxTimeouts
  /\ run.state = "sending"
  /\ timeouts' = timeouts + 1
  /\ StopRun
  /\ UNCHANGED <<holdings, asked, text, cost, sent, charged, faults, spent, opened>>

Finish ==
  /\ run.state = "next" /\ run.index > Len(run.groups)
  /\ StopRun
  /\ UNCHANGED <<holdings, asked, text, cost, sent, charged, bounds>>

PageStep == LoadBalance \/ LoadCost \/ SendBatch \/ Confirm \/ Fail \/ Finish

AirdropNext ==
  \/ \E batch \in wire : Land(batch) \/ Expire(batch)
  \/ SpendElsewhere
  \/ \E w \in Receivers : OpenAccount(w)
  \/ \E list \in Lists : Paste(list)
  \/ PageStep \/ Send \/ Refuse \/ TimeOut

AirdropSpec == AirdropInit /\ [][AirdropNext]_airdropVars

\* The page goes on, a transaction the page waits for lands, and the creator
\* presses the button again as long as the card lets them.
FairAirdropSpec ==
  /\ AirdropSpec
  /\ WF_airdropVars(PageStep)
  /\ WF_airdropVars(Send)
  /\ WF_airdropVars(\E batch \in wire : Land(batch))

-----------------------------------------------------------------------------
AirdropTypeOK ==
  /\ owned \in Nat
  /\ received \in [Receivers -> Nat]
  /\ account \subseteq Receivers
  /\ run.state \in {"idle", "next", "sending"}
  /\ text \in Seq(ListLine) /\ asked \in Seq(ListLine)
  /\ {sent, charged} \subseteq Nat

\* What the pasted list asks for a wallet, counted line by line.
Due(w) ==
  SumFunction([i \in DOMAIN asked |->
                 IF asked[i].to = w /\ ReadsLine(asked[i]) THEN asked[i].count ELSE 0])

\* Nobody gets more boxes than the list says, however often a run stops and is
\* resumed (AirdropCard, "Retain only undelivered recipients").
NobodyTwice == \A w \in Receivers : received[w] <= Due(w)

\* Between two runs the text field lists exactly what has not been delivered:
\* a resumed run neither repeats nor forgets a wallet.
ListIsRest ==
  ~CardBusy => \A w \in Receivers : received[w] + Share(Recipients(text), w) = Due(w)

\* A run never costs the creator more than the card showed when the button was
\* pressed, whatever accounts the recipients open meanwhile (airdropCost).
CostsAtMostShown == CardBusy => charged <= run.shown

\* The notice never claims more boxes than have left the wallet for the list.
SentIsTrue == sent <= SumFunction(received)

\* A creator who keeps pressing the button delivers the whole list, unless the
\* list cannot be read or there are not enough boxes for the rest of it.
AllServed ==
  asked # <<>> ~>
    \/ \A w \in Receivers : received[w] >= Due(w)
    \/ HasErrors(asked)
    \/ TotalOf(Recipients(text)) > owned
=============================================================================
