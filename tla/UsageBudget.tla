----------------------------- MODULE UsageBudget -----------------------------
(***************************************************************************)
(* What an authority grant promises, without tokens, calls or rows: it may *)
(* be used while it is open and while every bound on its uses allows one   *)
(* more; once shut (revoked or past its validity) it is never used or      *)
(* opened again.  The promise is the one of                                *)
(* docs/AUTHORITY_FOUNDATION_V1.md:21.                                     *)
(***************************************************************************)
EXTENDS Naturals

CONSTANTS
  Grants,
  Bounds      \* the sets of numbers a grant's uses can be bounded by

VARIABLES
  state,      \* how far each grant has come
  bounds,     \* the bounds on each grant's uses; none at all is no limit
  used        \* how often each grant was used

vars == <<state, bounds, used>>

Init ==
  /\ state = [g \in Grants |-> "none"]
  /\ bounds = [g \in Grants |-> {}]
  /\ used = [g \in Grants |-> 0]

Open(g, b) ==
  /\ state[g] = "none"
  /\ state' = [state EXCEPT ![g] = "open"]
  /\ bounds' = [bounds EXCEPT ![g] = b]
  /\ UNCHANGED used

Use(g) ==
  /\ state[g] = "open"
  /\ \A n \in bounds[g] : used[g] < n
  /\ used' = [used EXCEPT ![g] = @ + 1]
  /\ UNCHANGED <<state, bounds>>

Shut(g) ==
  /\ state[g] = "open"
  /\ state' = [state EXCEPT ![g] = "shut"]
  /\ UNCHANGED <<bounds, used>>

Next ==
  \E g \in Grants :
    \/ \E b \in Bounds : Open(g, b)
    \/ Use(g) \/ Shut(g)

Spec == Init /\ [][Next]_vars

=============================================================================
