---------------------------- MODULE AmbientAuth ----------------------------
(***************************************************************************)
(* The identity-first sign-in of the client (packages/ui-react):           *)
(* useAmbientTrustIdAuth and the screens of TrustIdAmbientAuthProvider.    *)
(* Each attempt scans a face and looks it up; the user then retries, uses  *)
(* a fingerprint, switches account, waits for the Master Device or creates *)
(* a Trust ID.  Whatever was awaited is modelled by a record that answers  *)
(* later, when the user may be elsewhere.  A face is named by the attempt  *)
(* its capture began in.  allowAutoEnroll is off, its default.             *)
(***************************************************************************)
EXTENDS Naturals

CONSTANTS MaxAttempts,  \* bound: retries and sign-outs, plus the first attempt
          MaxEnrols     \* bound: presses of Create TrustID

ASSUME AmbientAssumption == MaxAttempts \in Nat \ {0} /\ MaxEnrols \in Nat \ {0}

VARIABLES screen,     \* phase, with its error text where the buttons depend on it
          attempt,    \* how many scans were scheduled
          current,    \* the attempt runIdRef still accepts, 0 if it was moved on
          signal,     \* whose capture captureAbortRef may still abort: all others are aborted
          scan,       \* runAmbient of each attempt
          enrol,      \* confirmCreateAccount, one record per press
          candidate,  \* sessionCandidate: a face, and how it came to be there (history)
          payload,    \* pendingPayloadRef: a face or 0
          inflight,   \* the attempt whose capture captureInflightRef holds, or 0
          finger,     \* useFingerprintLogin: "idle", or the screen to go back to
          claims      \* claims of an approval that are not answered

ambVars == <<screen, attempt, current, signal, scan, enrol, candidate, payload, inflight, finger, claims>>

Attempts == 1..MaxAttempts
Presses == 1..MaxEnrols
NoCandidate == [face |-> 0, how |-> "none"]
Unstarted == [pc |-> "none", face |-> 0]
NoCapture == [by |-> "none", n |-> 0]
Scanning(a) == [by |-> "scan", n |-> a]
Enrolling(k) == [by |-> "enrol", n |-> k]

\* isUserChoicePhase; SERVICE_DOWN is ERROR with a service message.
Offered == {"NO_MATCH", "FACE_NOT_READ", "SWITCH_ACCOUNT", "NEEDS_APPROVAL",
            "ERROR", "SERVICE_DOWN", "AUTHENTICATED"}
Failures == {"ERROR", "SERVICE_DOWN"}

\* setPhaseSafe: every choice aborts the capture, and none is replaced by searching.
Show(s) ==
  /\ screen' = IF s = "PROMPTING" /\ screen \in Offered \ {"AUTHENTICATED"} THEN screen ELSE s
  /\ signal' = IF s \in Offered THEN NoCapture ELSE signal

\* enterNoMatch, enterFaceNotRead, enterServiceError: the attempt is over.
Settle(a, s) == IF current = a THEN Show(s) /\ current' = 0 ELSE UNCHANGED <<screen, signal, current>>

\* finishAuthenticated; the effect on identity ends the attempt.
SignedIn == Show("AUTHENTICATED") /\ current' = 0

Answered(a) == scan' = [scan EXCEPT ![a].pc = "done"]
Ended(k) == enrol' = [enrol EXCEPT ![k] = [pc |-> "done", face |-> 0]]
Hold(a) == [face |-> a, how |-> IF a = attempt THEN "now" ELSE "late"]
KeepFaces == UNCHANGED <<candidate, payload, inflight>>

-----------------------------------------------------------------------------
(* The attempt. *)

\* The effect: timers of earlier attempts are cleared, a new one is set.
ScheduleScan ==
  /\ attempt < MaxAttempts /\ attempt' = attempt + 1 /\ current' = attempt'
  /\ scan' = [a \in Attempts |-> IF a = attempt' THEN [pc |-> "timer", face |-> 0]
                                 ELSE IF scan[a].pc = "timer" THEN Unstarted ELSE scan[a]]
  /\ signal' = NoCapture

StartScan(a) ==
  /\ scan[a].pc = "timer"
  /\ IF screen \in Offered \ {"AUTHENTICATED"}
     THEN Answered(a) /\ UNCHANGED <<screen, signal, payload>>
     ELSE /\ screen' = "PROMPTING" /\ signal' = Scanning(a) /\ payload' = 0
          /\ scan' = [scan EXCEPT ![a].pc = "ready"]
  /\ UNCHANGED <<attempt, current, enrol, candidate, inflight, finger, claims>>

\* getInstallId, then waitForBiometricReadiness: ready, stalled or failed.
Prepared(a) ==
  /\ scan[a].pc = "ready"
  /\ \/ /\ signal = Scanning(a) /\ current = a
        /\ scan' = [scan EXCEPT ![a].pc = "capture"] /\ inflight' = a
        /\ UNCHANGED <<screen, signal, current>>
     \/ /\ signal = Scanning(a) /\ Answered(a) /\ UNCHANGED inflight
        /\ \E s \in {"FACE_NOT_READ", "SERVICE_DOWN"} : Settle(a, s)
     \/ /\ signal # Scanning(a) \/ current # a
        /\ Answered(a) /\ UNCHANGED <<inflight, screen, signal, current>>
  /\ UNCHANGED <<attempt, enrol, candidate, payload, finger, claims>>

\* The scan window closes first; the aborted capture still returns some day.
ScanTimesOut(a) ==
  /\ scan[a].pc = "capture" /\ signal = Scanning(a)
  /\ \E s \in {"FACE_NOT_READ", "SERVICE_DOWN"} : Settle(a, s)
  /\ KeepFaces /\ UNCHANGED <<attempt, scan, enrol, finger, claims>>

\* A face is kept while its attempt is current, and afterwards on a choice
\* screen that has none: of which attempt that screen is, nobody asks.
Keeps(a) == current = a \/ (screen \in {"NO_MATCH", "FACE_NOT_READ"} /\ payload = 0)

FaceCaptured(a) ==
  /\ scan[a].pc = "capture"
  /\ payload' = IF Keeps(a) THEN a ELSE payload
  /\ candidate' = IF Keeps(a) THEN Hold(a) ELSE candidate
  /\ scan' = [scan EXCEPT ![a] = [pc |-> IF signal = Scanning(a) /\ current = a THEN "lookup" ELSE "done",
                                  face |-> a]]
  /\ UNCHANGED <<screen, attempt, current, signal, enrol, inflight, finger, claims>>

NoFaceCaptured(a) ==
  /\ scan[a].pc = "capture" /\ Answered(a)
  /\ IF signal = Scanning(a)
     THEN \E s \in {"FACE_NOT_READ", "SERVICE_DOWN"} : Settle(a, s)
     ELSE UNCHANGED <<screen, signal, current>>
  /\ KeepFaces /\ UNCHANGED <<attempt, enrol, finger, claims>>

\* An abort makes the request throw, and only the attempt is compared then.
LookupFails(a) ==
  /\ scan[a].pc = "lookup" /\ Answered(a)
  /\ \E s \in Failures : Settle(a, s)
  /\ KeepFaces /\ UNCHANGED <<attempt, enrol, finger, claims>>

LookupAnswers(a) ==
  /\ scan[a].pc = "lookup" /\ Answered(a)
  /\ IF signal = Scanning(a) /\ current = a
     THEN \/ Settle(a, "NO_MATCH")
          \/ \E s \in {"NEEDS_APPROVAL", "SWITCH_ACCOUNT", "ERROR"} : Show(s) /\ UNCHANGED current
          \/ SignedIn
     ELSE UNCHANGED <<screen, signal, current>>
  /\ KeepFaces /\ UNCHANGED <<attempt, enrol, finger, claims>>

-----------------------------------------------------------------------------
(* The user's choices. *)
Retry_keepsCandidate ==
  /\ \/ screen \in {"NO_MATCH", "FACE_NOT_READ"} /\ finger = "idle"
     \/ screen \in Failures \cup {"SWITCH_ACCOUNT"}
  /\ ScheduleScan /\ screen' = "PROMPTING"
  /\ payload' = 0
  /\ UNCHANGED <<enrol, candidate, inflight, finger, claims>>

\* retry forgets the face; not the capture that may still bring one.
Retry ==
  /\ \/ screen \in {"NO_MATCH", "FACE_NOT_READ"} /\ finger = "idle"
     \/ screen \in Failures \cup {"SWITCH_ACCOUNT"}
  /\ ScheduleScan /\ screen' = "PROMPTING"
  /\ candidate' = NoCandidate /\ payload' = 0
  /\ UNCHANGED <<enrol, inflight, finger, claims>>

\* confirmSwitchAccount.
SwitchAccount ==
  /\ screen = "SWITCH_ACCOUNT" /\ SignedIn
  /\ KeepFaces /\ UNCHANGED <<attempt, scan, enrol, finger, claims>>

\* logout: the effect scans again, and the candidate is still there.
Logout ==
  /\ screen = "AUTHENTICATED" /\ ScheduleScan
  /\ candidate' = IF candidate.face = 0 THEN candidate ELSE [candidate EXCEPT !.how = "kept"]
  /\ UNCHANGED <<screen, enrol, payload, inflight, finger, claims>>

StartFingerprint ==
  /\ screen \in Failures \cup {"NO_MATCH", "FACE_NOT_READ"} /\ finger = "idle"
  /\ finger' = IF screen = "FACE_NOT_READ" THEN "FACE_NOT_READ" ELSE "NO_MATCH"
  /\ KeepFaces /\ UNCHANGED <<screen, attempt, current, signal, scan, enrol, claims>>

FingerprintAnswers ==
  /\ finger # "idle" /\ finger' = "idle"
  /\ \/ SignedIn
     \/ \E s \in {finger, "NEEDS_APPROVAL"} : Show(s) /\ UNCHANGED current
  /\ KeepFaces /\ UNCHANGED <<attempt, scan, enrol, claims>>

\* A push, a poll or Continue finds the approval decided and claims it.
Claim ==
  /\ screen = "NEEDS_APPROVAL" /\ claims < 2 /\ claims' = claims + 1
  /\ KeepFaces /\ UNCHANGED <<screen, attempt, current, signal, scan, enrol, finger>>

Refused ==
  /\ screen = "NEEDS_APPROVAL" /\ Show("ERROR")
  /\ KeepFaces /\ UNCHANGED <<attempt, current, scan, enrol, finger, claims>>

ClaimAnswers ==
  /\ claims > 0 /\ claims' = claims - 1
  /\ \/ SignedIn
     \/ \E s \in {"NEEDS_APPROVAL", "ERROR"} : Show(s) /\ UNCHANGED current
     \/ UNCHANGED <<screen, signal, current>>
  /\ KeepFaces /\ UNCHANGED <<attempt, scan, enrol, finger>>

-----------------------------------------------------------------------------
(* confirmCreateAccount. *)
Saved == IF candidate.face # 0 THEN candidate ELSE IF payload # 0 THEN Hold(payload) ELSE NoCandidate

Create(k) ==
  /\ enrol[k].pc = "none" /\ \A j \in Presses : j < k => enrol[j].pc # "none"
  /\ \/ screen \in {"NO_MATCH", "FACE_NOT_READ"} /\ finger = "idle"
     \/ screen = "ERROR"
  /\ screen' = "ENROLLING" /\ signal' = Enrolling(k)
  /\ enrol' = [enrol EXCEPT ![k] =
                 [pc |-> IF Saved.face # 0 THEN "register" ELSE IF inflight # 0 THEN "wait" ELSE "capture",
                  face |-> Saved.face, how |-> Saved.how, asked |-> attempt]]
  /\ candidate' = IF Saved.face # 0 THEN Saved ELSE candidate
  /\ UNCHANGED <<attempt, current, scan, payload, inflight, finger, claims>>

\* What a face brings: it is kept, and registered unless the capture was aborted.
EnrolFace(k, face, how) ==
  /\ payload' = face /\ candidate' = [face |-> face, how |-> how]
  /\ IF signal = Enrolling(k)
     THEN enrol' = [enrol EXCEPT ![k] = [@ EXCEPT !.pc = "register", !.face = face, !.how = how]]
     ELSE Ended(k)

\* settleWithin(captureInflightRef): the last scan's capture, whichever attempt began it.
InflightSettles(k) ==
  /\ enrol[k].pc = "wait"
  /\ \/ /\ scan[inflight].face # 0
        /\ EnrolFace(k, inflight, IF inflight = attempt THEN "now" ELSE "late")
     \/ /\ enrol' = [enrol EXCEPT ![k].pc = "capture"]
        /\ UNCHANGED <<payload, candidate>>
  /\ UNCHANGED <<screen, attempt, current, signal, scan, inflight, finger, claims>>

EnrolCaptures(k) ==
  /\ enrol[k].pc = "capture"
  /\ \/ /\ EnrolFace(k, enrol[k].asked, IF enrol[k].asked = attempt THEN "now" ELSE "late")
        /\ UNCHANGED <<screen, signal>>
     \/ /\ Ended(k) /\ UNCHANGED <<payload, candidate>>
        /\ IF signal = Enrolling(k)
           THEN \E s \in {"FACE_NOT_READ", "SERVICE_DOWN"} : Show(s)
           ELSE UNCHANGED <<screen, signal>>
  /\ UNCHANGED <<attempt, current, scan, inflight, finger, claims>>

\* registerTrustId is not told of the abort; its answer shows whatever is on screen.
Registered(k) ==
  /\ enrol[k].pc = "register" /\ Ended(k)
  /\ \/ SignedIn /\ candidate' = NoCandidate
     \/ Show("ERROR") /\ UNCHANGED <<candidate, current>>
  /\ UNCHANGED <<attempt, scan, payload, inflight, finger, claims>>

-----------------------------------------------------------------------------
AmbInit ==
  /\ screen = "CHECKING" /\ attempt = 1 /\ current = 1 /\ signal = NoCapture
  /\ scan = [a \in Attempts |-> IF a = 1 THEN [pc |-> "timer", face |-> 0] ELSE Unstarted]
  /\ enrol = [k \in Presses |-> Unstarted]
  /\ candidate = NoCandidate /\ payload = 0 /\ inflight = 0 /\ finger = "idle" /\ claims = 0

AmbNext ==
  \/ \E a \in Attempts : \/ StartScan(a) \/ Prepared(a) \/ ScanTimesOut(a) \/ FaceCaptured(a)
                         \/ NoFaceCaptured(a) \/ LookupFails(a) \/ LookupAnswers(a)
  \/ Retry \/ SwitchAccount \/ Logout \/ StartFingerprint \/ FingerprintAnswers
  \/ Claim \/ Refused \/ ClaimAnswers
  \/ \E k \in Presses : Create(k) \/ InflightSettles(k) \/ EnrolCaptures(k) \/ Registered(k)

AmbSpec == AmbInit /\ [][AmbNext]_ambVars

-----------------------------------------------------------------------------
(* The face sent for a new Trust ID was captured in the attempt the user     *)
(* was looking at when pressing Create: a retry leaves no earlier face       *)
(* behind.  Two faces escape it, and are named: one whose capture returned   *)
(* after its attempt was over, and one that outlived a sign-out.             *)
EnrolsTheFaceScanned ==
  \A k \in Presses : enrol[k].pc = "register" =>
     enrol[k].face = enrol[k].asked \/ enrol[k].how \in {"late", "kept"}
=============================================================================
