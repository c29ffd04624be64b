--------------------------- MODULE MCDeviceApproval ---------------------------
(***************************************************************************)
(* Small instances of DeviceApproval.  The module's own constants describe *)
(* one without crashes, in which two guests claim one request; in a second *)
(* one, with two masters and one guest, calls may stop half way.  A        *)
(* behaviour of PairSpec runs one of the two, chosen at the start.         *)
(***************************************************************************)
EXTENDS DeviceApproval, TLC

CONSTANTS c1, c2, c3, m1, d1, d2, s1, s2, s3

VARIABLES instance,
          row2, late2, held2, call2, device2, sessions2, decisions2

Dying == INSTANCE DeviceApproval
  WITH row <- row2, late <- late2, held <- held2, call <- call2, device <- device2,
       sessions <- sessions2, decisions <- decisions2,
       MasterCalls <- {c1, c2}, GuestCalls <- {c3}, Crashes <- TRUE, Masters <- {m1},
       NewDevices <- {d1}, SessionIds <- {s1}

dyingVars == <<row2, late2, held2, call2, device2, sessions2, decisions2>>

PairInit == instance \in {"claims", "dying"} /\ Init /\ Dying!Init

PairNext ==
  /\ \/ instance = "claims" /\ Next /\ UNCHANGED dyingVars
     \/ instance = "dying" /\ Dying!Next /\ UNCHANGED vars
  /\ UNCHANGED instance

PairSpec == PairInit /\ [][PairNext]_<<instance, vars, dyingVars>>

(* Calls of one side are interchangeable.                                   *)
MCSymmetry == Permutations({c1, c2})

(* Where two masters decide at once and calls die between two awaits, every *)
(* row stays well formed and the guest still gets only what was decided, on *)
(* a device of its kind (transitionApprovalFsm, claimApprovalResult).       *)
DyingCallsAreSafe ==
  Dying!TypeOK /\ Dying!AccessNeedsDecision /\ Dying!SessionKindMatchesDevice
=============================================================================
