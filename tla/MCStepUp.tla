------------------------------- MODULE MCStepUp -------------------------------
(***************************************************************************)
(* Small instances of StepUp.  u1 is the subject, p1 a relying party, t1   *)
(* and t2 are two access tokens held for u1.  The module's own constants   *)
(* describe one instance; a second one, with two subject calls, two        *)
(* challenges, limits of one and no crashes, is for the limits.  A         *)
(* behaviour of PairSpec runs one of the two, chosen at the start.         *)
(***************************************************************************)
EXTENDS StepUp, TLC

CONSTANTS t1, t2, p1, u1, u2, k1, k3, r1, r2, s1, s2, x1, x2

OneAccess == {[token |-> t1, client |-> p1, user |-> u1]}

TwoTokens == OneAccess \cup {[token |-> t2, client |-> p1, user |-> u1]}

(* k1 is u1's Master Device, k3 is u2's.                                    *)
OwnerOf == [k \in Keys |-> IF k = k3 THEN u2 ELSE u1]

VARIABLES instance, ch2, expired2, active2, call2, approvals2, crashes2

limitVars == <<ch2, expired2, active2, call2, approvals2, crashes2>>

Limits == INSTANCE StepUp
  WITH ch <- ch2, expired <- expired2, active <- active2, call <- call2,
       approvals <- approvals2, crashes <- crashes2,
       RpCalls <- {r1, r2}, SubjectCalls <- {s1, s2}, Challenges <- {x1, x2},
       Accesses <- OneAccess, Terms <- {"o1"}, Users <- {u1, u2}, Keys <- {}, KeyOwner <- <<>>,
       FaceUsers <- {u1}, PadReady <- TRUE, MaxFailedAttempts <- 1, MaxPending <- 1,
       MaxCrashes <- 0

PairInit == instance \in {"contract", "limits"} /\ Init /\ Limits!Init

PairNext ==
  /\ \/ instance = "contract" /\ Next /\ UNCHANGED limitVars
     \/ instance = "limits" /\ Limits!Next /\ UNCHANGED vars
  /\ UNCHANGED instance

PairSpec == PairInit /\ [][PairNext]_<<instance, vars, limitVars>>

(* Challenge ids and the calls of one side are interchangeable.             *)
MCSymmetry == Permutations({x1, x2}) \cup Permutations({r1, r2})
                \cup Permutations({s1, s2})

(* Where two answers, by face, are wrong at once and two creates overlap,   *)
(* the rows stay well formed and the limits are passed by no more than that *)
(* (recordFailedAttempt, createStepUpChallenge).                            *)
OverlapsAreBounded == Limits!TypeOK /\ Limits!LimitsAreKept
=============================================================================
