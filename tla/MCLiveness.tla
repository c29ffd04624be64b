------------------------------ MODULE MCLiveness ------------------------------
(***************************************************************************)
(* The liveness of three components on one small instance each: device     *)
(* approval, step-up and delegated authority.  A behaviour runs one of     *)
(* them, chosen at the start; the others stay in their initial states, in  *)
(* which no fair action of theirs is enabled.  The constants, variables and *)
(* properties of DigiAuthority are this module's own.                      *)
(***************************************************************************)
EXTENDS DigiAuthority, Sequences

CONSTANTS c1, c2, c3

VARIABLES component,
          row, late, held, guestCall, device, sessions, decisions,
          ch, expired, active, stepUpCall, approvals, crashes

approvalVars == <<row, late, held, guestCall, device, sessions, decisions>>
stepUpVars == <<ch, expired, active, stepUpCall, approvals, crashes>>

Approval == INSTANCE DeviceApproval
  WITH call <- guestCall, MasterCalls <- {c1}, GuestCalls <- {c2}, Crashes <- FALSE,
       Masters <- {"m1"}, NewDevices <- {"d1"}, SessionIds <- {"s1"}, NoDevice <- None

StepUp == INSTANCE StepUp
  WITH call <- stepUpCall, RpCalls <- {c1}, SubjectCalls <- {c2, c3}, Challenges <- {"x1"},
       Accesses <- {[token |-> "t1", client |-> "p1", user |-> "u1"]}, Terms <- {"o1"},
       Users <- {"u1"}, Keys <- {"k1"}, KeyOwner <- [k \in {"k1"} |-> "u1"], FaceUsers <- {"u1"},
       PadReady <- TRUE, MaxFailedAttempts <- 2, MaxPending <- 1, MaxCrashes <- 0

\* One rule allows publishing once for each grant, another allows it a single time.
Rule(k) == [decision |-> IF k = "publish" THEN "ALLOW_WITH_LIMITS" ELSE "ALLOW",
            limits |-> IF k = "publish" THEN {1} ELSE {},
            oneTime |-> k = "single", requireStepUp |-> FALSE, payment |-> FALSE]

Rules == [k \in Keys |-> Rule(k)]

TwoHomes == [c \in Calls |-> c]

LiveInit ==
  /\ component \in {"approval", "step-up", "authority"}
  /\ Approval!Init /\ StepUp!Init /\ Init

LiveNext ==
  /\ \/ /\ component = "approval" /\ Approval!Next
        /\ UNCHANGED <<stepUpVars, vars>>
     \/ /\ component = "step-up" /\ StepUp!Next
        /\ UNCHANGED <<approvalVars, vars>>
     \/ /\ component = "authority" /\ Next
        /\ UNCHANGED <<approvalVars, stepUpVars>>
  /\ UNCHANGED component

LiveSpec ==
  /\ LiveInit /\ [][LiveNext]_<<component, approvalVars, stepUpVars, vars>>
  /\ Approval!Fairness /\ StepUp!Fairness /\ Fairness

-----------------------------------------------------------------------------
(* DeviceApproval: a guest that waits sees its request settled.             *)
GuestIsAnswered == Approval!GuestIsAnswered

(* StepUp: the limit on wrong answers is applied once it is reached, and a  *)
(* consumed challenge yields its signed approval.                           *)
StepUpIsFinished == StepUp!LimitIsApplied /\ StepUp!ConsumedIsDelivered
=============================================================================
