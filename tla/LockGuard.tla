------------------------------ MODULE LockGuard ------------------------------
(***************************************************************************)
(* The enforcement of the App Locker on Android: the accessibility service *)
(* that sees windows change, the opaque overlay it draws, and the guard    *)
(* activity that asks for a biometric.  Events, posted runnables and       *)
(* launches wait for the main thread and for the system.                   *)
(***************************************************************************)
EXTENDS Naturals, Sequences, SequencesExt

CONSTANTS Packages,   \* apps that may be locked
          MaxWindows, \* window events on their way
          MaxEdits    \* changes of the list of locked apps, and process ends

Other == "home"   \* the launcher, TrustID itself or an app nobody locks

Nil == "none"

ASSUME GuardAssumption == Other \notin Packages /\ Nil \notin Packages

VARIABLES locked,    \* readLockedPackages
          grace,     \* grace_until_ms lies ahead
          front,     \* the app in front, below the guard
          events,    \* window events on their way to the service
          trigger,   \* the last package intercepted, and whether 400 ms ago
          veilDue,   \* the package a posted runnable draws the overlay for
          veil,      \* the package of the overlay
          launch,    \* the guard activity on its way
          guard,     \* the guard activity: none, in front or behind
          overlays,  \* the permission to draw over other apps
          edits,
          passed     \* why the app in front was let through

guardVars == <<locked, grace, front, events, trigger, veilDue, veil, launch, guard,
               overlays, edits, passed>>

Emits(p) == events' = IF p = Other THEN events ELSE Append(events, p)

-----------------------------------------------------------------------------
(* The person brings an app to the front; the guard, if any, goes behind.   *)
Switch ==
  /\ Len(events) < MaxWindows
  /\ \E p \in (Packages \cup {Other}) \ {front} :
       /\ front' = p /\ Emits(p)
  /\ guard' = IF guard = Nil THEN Nil ELSE "behind"
  /\ passed' = Nil
  /\ UNCHANGED <<locked, grace, trigger, veilDue, veil, launch, overlays, edits>>

(* The app in front opens another window.                                   *)
WindowChanges ==
  /\ Len(events) < MaxWindows /\ front # Other /\ guard # "front"
  /\ Emits(front)
  /\ UNCHANGED <<locked, grace, front, trigger, veilDue, veil, launch, guard, overlays, edits,
                 passed>>

(* As it would be if any interception silenced the next one.                *)
Throttled_anyPackage(p) == trigger.recent

(* The same package within 400 ms.                                          *)
Throttled(p) == trigger.pkg = p /\ trigger.recent

LetThrough(p, why) ==
  /\ passed' = IF p = front THEN why ELSE passed
  /\ UNCHANGED <<trigger, veilDue, launch>>

(* onAccessibilityEvent and interceptLockedLaunch.                          *)
HandleEvent ==
  /\ events # <<>> /\ events' = Tail(events)
  /\ LET p == Head(events) IN
       \/ p \notin locked /\ LetThrough(p, "free")
       \/ p \in locked /\ grace /\ LetThrough(p, "grace")
       \/ p \in locked /\ ~grace /\ Throttled(p) /\ LetThrough(p, "throttle")
       \/ /\ p \in locked /\ ~grace /\ ~Throttled(p)
          /\ trigger' = [pkg |-> p, recent |-> TRUE]
          /\ veilDue' = IF overlays THEN p ELSE veilDue
          /\ launch' = p
          /\ passed' = IF p = front THEN Nil ELSE passed
  /\ UNCHANGED <<locked, grace, front, veil, guard, overlays, edits>>

(* OverlayWindowGuard.show, posted before the activity was started.         *)
ShowVeil ==
  /\ veilDue # Nil /\ veilDue' = Nil
  /\ veil' = IF overlays THEN veilDue ELSE veil
  /\ UNCHANGED <<locked, grace, front, events, trigger, launch, guard, overlays, edits, passed>>

(* A tap on the overlay starts the guard anew.                              *)
TapVeil ==
  /\ veil # Nil /\ guard # "front" /\ launch' = veil
  /\ UNCHANGED <<locked, grace, front, events, trigger, veilDue, veil, guard, overlays, edits,
                 passed>>

(* onCreate of OverlayGuardActivity, in place of the one before.            *)
OpenGuard ==
  /\ launch # Nil /\ veilDue = Nil
  /\ launch' = Nil /\ guard' = "front"
  /\ UNCHANGED <<locked, grace, front, events, trigger, veilDue, veil, overlays, edits, passed>>

(* dismissIfPresent and finish: the app below shows its window again.       *)
CloseGuard ==
  /\ guard' = Nil /\ veil' = Nil
  /\ IF guard = "front" THEN Emits(front) ELSE UNCHANGED events

(* As it would be if the success only finished the activity.                *)
Pass_keepsVeil ==
  /\ guard = "front" /\ grace' = TRUE
  /\ guard' = Nil /\ Emits(front)
  /\ UNCHANGED <<veil, locked, front, trigger, veilDue, launch, overlays, edits, passed>>

(* onAuthenticationSucceeded.                                               *)
Pass ==
  /\ guard = "front" /\ grace' = TRUE
  /\ CloseGuard
  /\ UNCHANGED <<locked, front, trigger, veilDue, launch, overlays, edits, passed>>

(* onAuthenticationError, a cancelled prompt behind another app included:   *)
(* deny sends the task of the guard back, and the app below shows.          *)
Deny ==
  /\ guard # Nil /\ CloseGuard
  /\ passed' = IF guard = "front" THEN Nil ELSE passed
  /\ UNCHANGED <<locked, grace, front, trigger, veilDue, launch, overlays, edits>>

-----------------------------------------------------------------------------
(* 400 ms, and postAuthGraceMs.                                             *)
ThrottleEnds ==
  /\ trigger.recent /\ trigger' = [trigger EXCEPT !.recent = FALSE]
  /\ UNCHANGED <<locked, grace, front, events, veilDue, veil, launch, guard, overlays, edits,
                 passed>>

GraceEnds ==
  /\ grace /\ grace' = FALSE
  /\ UNCHANGED <<locked, front, events, trigger, veilDue, veil, launch, guard, overlays, edits,
                 passed>>

(* The plugin writes the preferences the service reads; nobody looks at the *)
(* app that is already in front.                                            *)
EditList ==
  /\ edits < MaxEdits /\ edits' = edits + 1
  /\ \E s \in SUBSET Packages : locked' = s
  /\ passed' = IF front \in locked' \ locked THEN "free" ELSE passed
  /\ UNCHANGED <<grace, front, events, trigger, veilDue, veil, launch, guard, overlays>>

(* The process ends: the system connects the service again and the events   *)
(* in between are lost.  The grace is stored.                               *)
ServiceRestarts ==
  /\ edits < MaxEdits /\ edits' = edits + 1
  /\ events' = <<>> /\ trigger' = [pkg |-> Nil, recent |-> FALSE]
  /\ veilDue' = Nil /\ veil' = Nil /\ launch' = Nil /\ guard' = Nil
  /\ passed' = "restart"
  /\ UNCHANGED <<locked, grace, front, overlays>>

GuardInit ==
  /\ locked \in SUBSET Packages /\ grace = FALSE /\ front = Other /\ events = <<>>
  /\ trigger = [pkg |-> Nil, recent |-> FALSE]
  /\ veilDue = Nil /\ veil = Nil /\ launch = Nil /\ guard = Nil
  /\ overlays \in BOOLEAN /\ edits = 0 /\ passed = Nil

GuardNext ==
  \/ Switch \/ WindowChanges \/ HandleEvent \/ ShowVeil \/ TapVeil \/ OpenGuard \/ Pass \/ Deny
  \/ ThrottleEnds \/ GraceEnds \/ EditList \/ ServiceRestarts

GuardSpec == GuardInit /\ [][GuardNext]_guardVars

-----------------------------------------------------------------------------
Covered == veil # Nil \/ guard = "front"

(* What may leave a locked app in front with neither overlay nor guard: the *)
(* service is about to see it or to cover it, or let it through before it   *)
(* was locked, in the grace, or around its own restart.                     *)
AboutToCover == launch # Nil \/ veilDue # Nil \/ front \in Range(events)

LetIn == passed \in {"free", "grace", "restart"}

(* A locked app is in front and uncovered for those reasons only, or else   *)
(* because its event fell into the 400 ms after its own interception.  That *)
(* last exception is of the code and not of its documentation: the guard    *)
(* lifts the overlay on every error of the prompt, and a denial inside the  *)
(* throttle leaves the app open without success (TargetStaysObscured).      *)
LockedAreCovered ==
  front \in locked /\ ~Covered => AboutToCover \/ LetIn \/ (passed = "throttle" /\ trigger.pkg = front)

(* "The target task stays obscured until success", as the documentation of  *)
(* the app locker has it: a locked app is uncovered for no other reason     *)
(* than those two.  interceptLockedLaunch and deny do not keep it: an app   *)
(* whose prompt ends at once shows its window inside the throttle, and no   *)
(* guard opens again.                                                       *)
TargetStaysObscured == front \in locked /\ ~Covered => AboutToCover \/ LetIn

(* The black overlay never outlives the guard that lifts it.                *)
VeilIsLifted == veil # Nil => guard # Nil \/ launch # Nil

ShieldIsSound == LockedAreCovered /\ VeilIsLifted
=============================================================================
