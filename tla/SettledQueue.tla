---------------------------- MODULE SettledQueue ----------------------------
(***************************************************************************)
(* What a template's queue of openings promises to holders, whoever        *)
(* relays it: openings settle in request order, one at a time; the prize   *)
(* of an opening depends on its oracle answer and on the openings before   *)
(* it and on nothing else; and every opening settles in the end.           *)
(***************************************************************************)
EXTENDS Integers, FiniteSets, Sequences, Functions

CONSTANTS
  MaxOpenings,  \* openings ever requested
  Stock,        \* tickets of each bundle when the queue starts
  Entropy,      \* answers the oracle may give
  Forfeited     \* the result of an opening that got no answer in time

VARIABLES
  answer,       \* the oracle's answer to each opening, fixed by its commitment
  requested,    \* how many openings have been requested
  result        \* what each settled opening got, in request order

vars == <<answer, requested, result>>

Init ==
  /\ answer \in [1 .. MaxOpenings -> Entropy]
  /\ requested = 0
  /\ result = <<>>

Request ==
  /\ requested < MaxOpenings
  /\ requested' = requested + 1
  /\ UNCHANGED <<answer, result>>

TicketsLeft(b) == Stock[b] - Cardinality({i \in DOMAIN result : result[i] = b})

TicketsBefore(b) == SumFunctionOnSet([c \in DOMAIN Stock |-> TicketsLeft(c)],
                                     {c \in DOMAIN Stock : c < b})

\* Bundle b holds the ticket that the answer points at.
Owns(b, e) ==
  LET target == e % SumFunction([c \in DOMAIN Stock |-> TicketsLeft(c)])
  IN target \in TicketsBefore(b) .. TicketsBefore(b) + TicketsLeft(b) - 1

Settle ==
  /\ Len(result) < requested
  /\ \E b \in DOMAIN Stock :
       /\ Owns(b, answer[Len(result) + 1])
       /\ result' = Append(result, b)
  /\ UNCHANGED <<answer, requested>>

Forfeit ==
  /\ Len(result) < requested
  /\ result' = Append(result, Forfeited)
  /\ UNCHANGED <<answer, requested>>

Next == Request \/ Settle \/ Forfeit

Spec == Init /\ [][Next]_vars /\ WF_vars(Settle \/ Forfeit)
=============================================================================
