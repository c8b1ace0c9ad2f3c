---------------------------- MODULE TicketLedger ----------------------------
(***************************************************************************)
(* What duplicate suppression promises an operator, without files,         *)
(* processes or HTTP: a ticket is only ever opened for a problem the       *)
(* ledger does not list, a listed problem stays listed with the ticket it  *)
(* was first listed with, and that ticket was opened for that problem.     *)
(* A ticket may stay unlisted (the process died in between), so two        *)
(* tickets for one problem are possible; two *listed* ones are not.        *)
(***************************************************************************)
EXTENDS Naturals, Sequences

CONSTANT Keys          \* the "source:event_id" pairs

VARIABLES tickets,     \* the keys of the tickets opened in GLPI; ids are indices
          ledger       \* key -> the ticket id listed for it, or 0

Unlisted == [k \in Keys |-> 0]

Init == /\ tickets = << >>
        /\ ledger = Unlisted

Issue(k) == /\ ledger[k] = 0
            /\ tickets' = Append(tickets, k)
            /\ UNCHANGED ledger

List(k, id) == /\ ledger[k] = 0
               /\ id \in 1..Len(tickets)
               /\ tickets[id] = k
               /\ ledger' = [ledger EXCEPT ![k] = id]
               /\ UNCHANGED tickets

Next == \E k \in Keys : \/ Issue(k)
                        \/ \E id \in 1..Len(tickets) : List(k, id)

Spec == Init /\ [][Next]_<<tickets, ledger>>
=============================================================================
