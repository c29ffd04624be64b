--------------------------- MODULE OneTimeApproval ---------------------------
(***************************************************************************)
(* What a step-up challenge promises, without calls, rows or clocks.  Each *)
(* request is for one ask (who asks, under which session, for which        *)
(* operation).  It is granted at most once and only before it lapses, it   *)
(* is redeemed at most once, only by the same ask, only before it lapses,  *)
(* and at most one receipt is handed out for it.                           *)
(* The promise is the one in the header of                                 *)
(* apps/api/src/modules/step-up/service.ts (lines 15-26).                  *)
(***************************************************************************)
EXTENDS Sequences

CONSTANTS
  Requests,   \* the challenges
  Asks,       \* what a request can be for
  NoAsk       \* the ask of a request not made yet

VARIABLES
  state,      \* how far each request has come
  asked,      \* what each request is for
  lapsed,     \* the requests whose time is over
  receipts    \* the approvals handed out for each request

vars == <<state, asked, lapsed, receipts>>

Init ==
  /\ state = [x \in Requests |-> "none"]
  /\ asked = [x \in Requests |-> NoAsk]
  /\ lapsed = {}
  /\ receipts = [x \in Requests |-> <<>>]

Move(x, from, to) ==
  /\ state[x] \in from
  /\ state' = [state EXCEPT ![x] = to]

Ask(x, a) ==
  /\ Move(x, {"none"}, "asked")
  /\ asked' = [asked EXCEPT ![x] = a]
  /\ UNCHANGED <<lapsed, receipts>>

Grant(x) ==
  /\ x \notin lapsed
  /\ Move(x, {"asked"}, "granted")
  /\ UNCHANGED <<asked, lapsed, receipts>>

Close(x) ==
  /\ Move(x, {"asked", "granted"}, "closed")
  /\ UNCHANGED <<asked, lapsed, receipts>>

Redeem(x) ==
  /\ x \notin lapsed
  /\ Move(x, {"granted"}, "redeemed")
  /\ UNCHANGED <<asked, lapsed, receipts>>

Deliver(x) ==
  /\ state[x] = "redeemed"
  /\ receipts[x] = <<>>
  /\ receipts' = [receipts EXCEPT ![x] = <<asked[x]>>]
  /\ UNCHANGED <<state, asked, lapsed>>

Lapse(x) ==
  /\ state[x] # "none"
  /\ lapsed' = lapsed \cup {x}
  /\ UNCHANGED <<state, asked, receipts>>

Next ==
  \E x \in Requests :
    \/ \E a \in Asks : Ask(x, a)
    \/ Grant(x) \/ Close(x) \/ Redeem(x) \/ Deliver(x) \/ Lapse(x)

Spec == Init /\ [][Next]_vars

=============================================================================
