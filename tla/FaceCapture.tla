---------------------------- MODULE FaceCapture ----------------------------
(***************************************************************************)
(* Face captures in the browser (capture/silent-camera-web.ts and          *)
(* biometric/face-scan-loop.ts): silent scans and enrolment captures that  *)
(* share one camera slot.  A capture that starts aborts the one it finds   *)
(* in the slot, waits for it to let go, but not longer than three seconds, *)
(* and takes the slot.                                                     *)
(*                                                                         *)
(* A step runs from one await to the next.  Which reason a capture fails   *)
(* with, and the counters behind it, are left out, and so is a frame that  *)
(* is missing, stale, blank or dark: its pixels are wiped and the loop     *)
(* goes on.                                                                *)
(***************************************************************************)
EXTENDS Naturals, FiniteSets

CONSTANTS Captures,      \* calls of the two capture functions
          NoCamera,
          MaxFrames      \* bound: frames an enrolment collects

ASSUME CameraAssumption == NoCamera \notin Captures

VARIABLES capture,       \* the state of each call
          activeCamera,  \* the slot: the call that owns the camera
          orphaned,      \* ghost: owners replaced in the slot by a call that did not abort them
          impatient      \* ghost: owners whose release somebody stopped waiting for

captureVars == <<capture, activeCamera, orphaned, impatient>>

(* stream: "pending" while getUserMedia is asked; kept: frames whose pixels *)
(* are not wiped; best: a scan holds a face below the confidence it accepts *)
UnusedCapture == [pc |-> "unused", op |-> "scan", previous |-> NoCamera, aborted |-> FALSE,
                  stream |-> "none", kept |-> 0, best |-> FALSE, answer |-> "none"]

CapAt(c, pc) == capture[c].pc = pc

(* The abort listener of a scan stops its stream at once; an enrolment has  *)
(* no such listener and stops it when it ends.                              *)
Aborting(r) ==
  [r EXCEPT !.aborted = TRUE,
            !.stream = IF r.op = "scan" /\ @ = "live" THEN "stopped" ELSE @]

CapGoto(c, pc) == capture' = [capture EXCEPT ![c].pc = pc]

KeepSlot == UNCHANGED <<activeCamera, orphaned, impatient>>

(* As it would be if the stream were only stopped by the abort listener.    *)
EndCapture_keepsStream(c, answer) ==
  /\ capture' = [capture EXCEPT ![c] =
       [@ EXCEPT !.pc = "done", !.kept = 0, !.best = FALSE, !.answer = answer, !.previous = NoCamera]]
  /\ activeCamera' = IF activeCamera = c THEN NoCamera ELSE activeCamera
  /\ UNCHANGED <<orphaned, impatient>>

(* The finally block: the stream is stopped, the frames are wiped and the   *)
(* slot is freed unless somebody else has taken it.                         *)
Ended(r, answer) ==
  [r EXCEPT !.pc = "done", !.kept = 0, !.best = FALSE, !.answer = answer, !.previous = NoCamera,
            !.stream = IF @ = "live" THEN "stopped" ELSE @]

EndCapture(c, answer) ==
  /\ capture' = [capture EXCEPT ![c] = Ended(@, answer)]
  /\ activeCamera' = IF activeCamera = c THEN NoCamera ELSE activeCamera
  /\ UNCHANGED <<orphaned, impatient>>

-----------------------------------------------------------------------------
(* A scan asks for the slot at once, an enrolment after an import.          *)
StartCapture(c, op) ==
  /\ CapAt(c, "unused")
  /\ capture' = [capture EXCEPT ![c] = [@ EXCEPT !.pc = "acquire", !.op = op]]
  /\ KeepSlot

(* The caller's signal aborts the capture.                                  *)
CallerAborts(c) ==
  /\ ~CapAt(c, "unused") /\ ~CapAt(c, "done") /\ ~capture[c].aborted
  /\ capture' = [capture EXCEPT ![c] = Aborting(@)]
  /\ KeepSlot

(* As it would be if the wait alone were relied on.                         *)
AcquireCamera_noAbort(c) ==
  /\ CapAt(c, "acquire")
  /\ IF activeCamera = NoCamera
     THEN /\ capture' = [capture EXCEPT ![c] = [@ EXCEPT !.pc = "requesting", !.stream = "pending"]]
          /\ activeCamera' = c
     ELSE /\ capture' = [capture EXCEPT ![c] = [@ EXCEPT !.pc = "waiting", !.previous = activeCamera]]
          /\ UNCHANGED activeCamera
  /\ UNCHANGED <<orphaned, impatient>>

(* acquireCamera up to its await.                                           *)
AcquireCamera(c) ==
  /\ CapAt(c, "acquire")
  /\ IF activeCamera = NoCamera
     THEN /\ capture' = [capture EXCEPT ![c] = [@ EXCEPT !.pc = "requesting", !.stream = "pending"]]
          /\ activeCamera' = c
     ELSE /\ capture' = [capture EXCEPT ![c] = [@ EXCEPT !.pc = "waiting", !.previous = activeCamera],
                                        ![activeCamera] = Aborting(@)]
          /\ UNCHANGED activeCamera
  /\ UNCHANGED <<orphaned, impatient>>

(* The slot is overwritten whoever is in it by now, and the camera is asked *)
(* for, even by a call that was aborted while it waited.                    *)
TakeSlot(c) ==
  LET previous == capture[c].previous IN
  /\ CapAt(c, "waiting")
  /\ capture' = [capture EXCEPT ![c] = [@ EXCEPT !.pc = "requesting", !.stream = "pending",
                                                 !.previous = NoCamera]]
  /\ activeCamera' = c
  /\ orphaned' = orphaned \cup ({activeCamera} \ {NoCamera, previous})
  /\ impatient' = IF CapAt(previous, "done") THEN impatient ELSE impatient \cup {previous}

-----------------------------------------------------------------------------
(* openCamera                                                               *)
StreamGranted(c) ==
  /\ CapAt(c, "requesting") /\ ~capture[c].aborted
  /\ capture' = [capture EXCEPT ![c] = [@ EXCEPT !.pc = "opening", !.stream = "live"]]
  /\ KeepSlot

StreamRefused(c) ==
  /\ CapAt(c, "requesting") /\ ~capture[c].aborted
  /\ capture' = [capture EXCEPT ![c] = [@ EXCEPT !.pc = "failing", !.stream = "none"]]
  /\ KeepSlot

(* The stream of a capture that was aborted before it came.                 *)
LateStream(c) ==
  /\ CapAt(c, "done") /\ capture[c].stream = "pending"
  /\ capture' = [capture EXCEPT ![c].stream = "stopped"]
  /\ KeepSlot

(* The first frame is presented.                                            *)
VideoReady(c) == CapAt(c, "opening") /\ ~capture[c].aborted /\ CapGoto(c, "models") /\ KeepSlot

ModelsReady(c) ==
  /\ CapAt(c, "models") /\ ~capture[c].aborted
  /\ CapGoto(c, IF capture[c].op = "scan" THEN "frame" ELSE "blink")
  /\ KeepSlot

(* No video track, no metadata, no frame or no models.                      *)
OpeningFails(c) ==
  /\ \/ CapAt(c, "failing")
     \/ (CapAt(c, "opening") \/ CapAt(c, "models")) /\ ~capture[c].aborted
  /\ EndCapture(c, "failure")

(* raceAbort rejects whatever these waits would still bring.                *)
Unwind(c) ==
  /\ capture[c].aborted /\ capture[c].pc \in {"requesting", "opening", "models"}
  /\ EndCapture(c, "failure")

-----------------------------------------------------------------------------
(* runFaceScanLoop: the abort is looked at before each frame and after it,  *)
(* a detection or an embedding is not interrupted.                          *)
FrameArrives(c) ==
  /\ CapAt(c, "frame") /\ ~capture[c].aborted
  /\ capture' = [capture EXCEPT ![c] = [@ EXCEPT !.pc = "detecting", !.kept = 1]]
  /\ KeepSlot

(* Aborted, or out of time: a face found so far is the answer.              *)
ScanEnds(c) ==
  /\ CapAt(c, "frame")
  /\ EndCapture(c, IF capture[c].best THEN "face" ELSE "failure")

(* No face, several, a poor one, or an error of the detector.               *)
FrameRejected(c) ==
  /\ CapAt(c, "detecting") \/ CapAt(c, "embedding")
  /\ capture' = [capture EXCEPT ![c] = [@ EXCEPT !.pc = "frame", !.kept = 0]]
  /\ KeepSlot

FrameAccepted(c) == CapAt(c, "detecting") /\ CapGoto(c, "embedding") /\ KeepSlot

Embedded(c) ==
  /\ CapAt(c, "embedding")
  /\ \/ EndCapture(c, "face")
     \/ /\ capture' = [capture EXCEPT ![c] = [@ EXCEPT !.pc = "frame", !.kept = 0, !.best = TRUE]]
        /\ KeepSlot

(* The models are gone, or liveness is not confirmed.                       *)
ScanFails(c) ==
  /\ CapAt(c, "detecting") \/ CapAt(c, "embedding")
  /\ EndCapture(c, "failure")

-----------------------------------------------------------------------------
(* captureSilentFaceEnrollmentFromWebCamera after the camera is open: a     *)
(* blink, then more frames, then one face made of them.                     *)
BlinkSeen(c) ==
  /\ CapAt(c, "blink")
  /\ capture' = [capture EXCEPT ![c] = [@ EXCEPT !.pc = "collect", !.kept = 1]]
  /\ KeepSlot

NoBlink(c) == CapAt(c, "blink") /\ EndCapture(c, "failure")

CollectFrame(c) ==
  /\ CapAt(c, "collect") /\ capture[c].kept < MaxFrames
  /\ capture' = [capture EXCEPT ![c].kept = @ + 1]
  /\ KeepSlot

Collected(c) == CapAt(c, "collect") /\ CapGoto(c, "aggregate") /\ KeepSlot

Aggregated(c) ==
  /\ CapAt(c, "aggregate")
  /\ \E answer \in {"face", "failure"} : EndCapture(c, answer)

-----------------------------------------------------------------------------
CapInit ==
  /\ capture = [c \in Captures |-> UnusedCapture]
  /\ activeCamera = NoCamera
  /\ orphaned = {} /\ impatient = {}

CapNext ==
  \E c \in Captures :
    \/ \E op \in {"scan", "enrol"} : StartCapture(c, op)
    \/ CallerAborts(c) \/ AcquireCamera(c) \/ TakeSlot(c)
    \/ StreamGranted(c) \/ StreamRefused(c) \/ LateStream(c)
    \/ VideoReady(c) \/ ModelsReady(c) \/ OpeningFails(c) \/ Unwind(c)
    \/ FrameArrives(c) \/ ScanEnds(c) \/ FrameRejected(c) \/ FrameAccepted(c)
    \/ Embedded(c) \/ ScanFails(c)
    \/ BlinkSeen(c) \/ NoBlink(c) \/ CollectFrame(c) \/ Collected(c) \/ Aggregated(c)

CapSpec == CapInit /\ [][CapNext]_captureVars

-----------------------------------------------------------------------------
Filming == {c \in Captures : capture[c].stream = "live"}

(* Two captures film at once only if one of them was pushed out of the slot *)
(* by a call that queued on the same predecessor and never aborted it, or   *)
(* is an enrolment that took longer than its successor waited; and a        *)
(* capture that has ended films no more, keeps no pixels and leaves the     *)
(* slot, whatever overlapped it.                                            *)
CameraIsShared ==
  /\ \A c, d \in Filming :
       c # d => \E e \in {c, d} :
                  e \in orphaned \/ (e \in impatient /\ capture[e].op = "enrol")
  /\ \A c \in Captures :
       CapAt(c, "done") => c \notin Filming /\ capture[c].kept = 0 /\ activeCamera # c
=============================================================================
