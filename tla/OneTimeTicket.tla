---------------------------- MODULE OneTimeTicket ----------------------------
(***************************************************************************)
(* What a one-time credential promises: it is issued once, taken by one    *)
(* taker at most while it is open, and never opens again.                  *)
(***************************************************************************)
CONSTANTS Tickets, Takers

VARIABLES open,   \* tickets that can be taken
          taken   \* who took each ticket

Issue(k) == /\ k \notin open /\ taken[k] = {}
            /\ open' = open \cup {k} /\ UNCHANGED taken

Take(k, t) == /\ k \in open
              /\ open' = open \ {k} /\ taken' = [taken EXCEPT ![k] = {t}]

TicketInit == open = {} /\ taken = [k \in Tickets |-> {}]

TicketNext == \E k \in Tickets : Issue(k) \/ \E t \in Takers : Take(k, t)

TicketSpec == TicketInit /\ [][TicketNext]_<<open, taken>>
=============================================================================
