---------------------------- MODULE LegacyChallenge ----------------------------
(***************************************************************************)
(* The older master challenges of one subject                              *)
(* (modules/trust-id/challenges.ts, master-device.ts): issued under a cap, *)
(* looked at, approved or used for a device verification by the subject's  *)
(* Master Device.  Approval is one conditional update; expiry is an update *)
(* by id after a read.                                                     *)
(***************************************************************************)
EXTENDS Naturals, FiniteSets

CONSTANTS LegacyCalls, Masters,
          LegacyIds,   \* challenge rows, one more than the cap and the calls can make
          MaxPending   \* LEGACY_MAX_PENDING_CHALLENGES

ASSUME LegacyAssumption == MaxPending \in Nat \ {0}

VARIABLES legacy,     \* status of each challenge
          elapsed,    \* challenges past expiresAt
          masterDevice,  \* the active step-up Master Device
          legacyCall, \* what each call is doing
          issuePeak,  \* history: the most issue calls in flight at once
          slow,       \* history: challenges that elapsed between a read and its check
          rekeyed     \* history: calls whose device was replaced after it was compared

legacyVars == <<legacy, elapsed, masterDevice, legacyCall, issuePeak, slow, rekeyed>>

LGoto(c, pc) ==
  legacyCall' = [legacyCall EXCEPT ![c] = IF pc = "idle" THEN [pc |-> pc] ELSE [@ EXCEPT !.pc = pc]]
LBusy(c) == legacyCall[c].pc # "idle"
KeepRest == UNCHANGED <<elapsed, masterDevice, issuePeak, slow, rekeyed>>

PendingNow == {x \in LegacyIds : legacy[x] = "PENDING" /\ x \notin elapsed}

\* issueMasterChallenge: count, then create.
StartLegacyIssue(c) ==
  /\ ~LBusy(c) /\ legacyCall' = [legacyCall EXCEPT ![c] = [op |-> "issue", pc |-> "count"]]
  /\ LET n == 1 + Cardinality({o \in LegacyCalls : LBusy(o) /\ legacyCall[o].op = "issue"}) IN
     issuePeak' = IF n > issuePeak THEN n ELSE issuePeak
  /\ UNCHANGED <<legacy, elapsed, masterDevice, slow, rekeyed>>

CountPending_inclusive(c) ==
  /\ legacyCall[c].pc = "count"
  /\ LGoto(c, IF Cardinality(PendingNow) <= MaxPending THEN "create" ELSE "idle")
  /\ UNCHANGED legacy /\ KeepRest

CountPending(c) ==
  /\ legacyCall[c].pc = "count"
  /\ LGoto(c, IF Cardinality(PendingNow) < MaxPending THEN "create" ELSE "idle")
  /\ UNCHANGED legacy /\ KeepRest

CreateChallenge(c) ==
  \E x \in LegacyIds :
    /\ legacyCall[c].pc = "create" /\ LGoto(c, "idle")
    /\ legacy[x] = "none" /\ legacy' = [legacy EXCEPT ![x] = "PENDING"]
    /\ KeepRest

ChallengeLapses(x) ==
  /\ legacy[x] # "none" /\ x \notin elapsed /\ elapsed' = elapsed \cup {x}
  /\ slow' = IF \E c \in LegacyCalls : legacyCall[c].pc = "check" /\ legacyCall[c].x = x THEN slow \cup {x} ELSE slow
  /\ UNCHANGED <<legacy, masterDevice, legacyCall, issuePeak, rekeyed>>

\* The device is replaced elsewhere (Enrolment or revocation of step-up keys).
MasterChanges(d) ==
  /\ masterDevice # d /\ masterDevice' = d
  /\ rekeyed' = {c \in LegacyCalls : legacyCall[c].pc = "decide"}
  /\ UNCHANGED <<legacy, elapsed, legacyCall, issuePeak, slow>>

-----------------------------------------------------------------------------
\* getMasterChallenge, approveMasterChallenge, verifyMasterDeviceBinding: the row is read first.
ReadLegacy(c, op) ==
  \E x \in LegacyIds, d \in Masters :
    /\ ~LBusy(c) /\ legacy[x] # "none"
    /\ legacyCall' = [legacyCall EXCEPT ![c] = [op |-> op, pc |-> "check", x |-> x, seen |-> legacy[x], by |-> d]]
    /\ UNCHANGED legacy /\ KeepRest

ReadToGet(c) == ReadLegacy(c, "get")
ReadToApprove(c) == ReadLegacy(c, "approve")
ReadToVerify(c) == ReadLegacy(c, "verify")

\* expireIfNeeded, or the refusal of a row that is not pending.
CheckLegacy(c) ==
  LET x == legacyCall[c].x  pending == legacyCall[c].seen = "PENDING" IN
  /\ legacyCall[c].pc = "check"
  /\ LGoto(c, IF pending /\ x \in elapsed /\ legacyCall[c].op # "verify" THEN "expire"
              ELSE IF pending /\ x \notin elapsed /\ legacyCall[c].op # "get" THEN "device" ELSE "idle")
  /\ UNCHANGED legacy /\ KeepRest

ExpireLegacy(c) ==
  /\ legacyCall[c].pc = "expire" /\ LGoto(c, "idle")
  /\ legacy' = [legacy EXCEPT ![legacyCall[c].x] = "EXPIRED"]
  /\ KeepRest

\* activeStepUpDevice, its fingerprint, and its signature over the challenge.
CheckDevice_anyDevice(c) ==
  /\ legacyCall[c].pc = "device" /\ LGoto(c, "decide")
  /\ UNCHANGED legacy /\ KeepRest

CheckDevice(c) ==
  /\ legacyCall[c].pc = "device"
  /\ LGoto(c, IF masterDevice = legacyCall[c].by THEN "decide" ELSE "idle")
  /\ UNCHANGED legacy /\ KeepRest

Decided(c) == LGoto(c, "idle") /\ rekeyed' = rekeyed \ {c} /\ UNCHANGED <<elapsed, masterDevice, issuePeak, slow>>

DecideLegacy_byId(c) ==
  /\ legacyCall[c].pc = "decide" /\ Decided(c)
  /\ legacy' = [legacy EXCEPT ![legacyCall[c].x] = "APPROVED"]

DecideLegacy(c) ==
  /\ legacyCall[c].pc = "decide" /\ Decided(c)
  /\ legacy' = [legacy EXCEPT ![legacyCall[c].x] = IF legacyCall[c].x \in PendingNow THEN "APPROVED" ELSE @]

LegacyInit ==
  /\ legacy = [x \in LegacyIds |-> "none"] /\ elapsed = {} /\ masterDevice \in Masters
  /\ legacyCall = [c \in LegacyCalls |-> [pc |-> "idle"]]
  /\ issuePeak = 0 /\ slow = {} /\ rekeyed = {}

LegacyNext ==
  \/ \E x \in LegacyIds : ChallengeLapses(x)
  \/ \E d \in Masters : MasterChanges(d)
  \/ \E c \in LegacyCalls :
       StartLegacyIssue(c) \/ CountPending(c) \/ CreateChallenge(c) \/ ReadToGet(c) \/ ReadToApprove(c) \/ ReadToVerify(c) \/ CheckLegacy(c)
         \/ ExpireLegacy(c) \/ CheckDevice(c) \/ DecideLegacy(c)

LegacySpec == LegacyInit /\ [][LegacyNext]_legacyVars

-----------------------------------------------------------------------------
(* The cap on open challenges is passed by at most one challenge for each   *)
(* issue call that was in flight beside another one.                        *)
PendingBounded == Cardinality(PendingNow) < MaxPending + issuePeak \/ issuePeak = 0

(* A decided challenge stays decided: an approval is overwritten by EXPIRED *)
(* only when the challenge elapsed while another call sat between its read   *)
(* and its look at the clock, and an expired one is never approved.         *)
LegacyDecidedOnce ==
  \A x \in LegacyIds :
    legacy[x] \in {"APPROVED", "EXPIRED"} /\ legacy'[x] # legacy[x] => legacy[x] = "APPROVED" /\ x \in slow

(* Who approves is the Master Device enrolled at that moment, or was until  *)
(* it was replaced between the comparison of its signature and the update.  *)
SignedByMaster ==
  \A c \in LegacyCalls :
    legacyCall[c].pc = "decide" /\ legacyCall'[c].pc = "idle" /\ legacy' # legacy =>
      legacyCall[c].by = masterDevice \/ c \in rekeyed

(* The cap on open challenges holds up to the issues in flight, and each    *)
(* challenge is decided once, by the Master Device.                         *)
LegacyIsSound ==
  /\ []PendingBounded
  /\ [][LegacyDecidedOnce /\ SignedByMaster]_legacyVars
=============================================================================
