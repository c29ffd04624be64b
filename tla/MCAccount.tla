------------------------------ MODULE MCAccount ------------------------------
(***************************************************************************)
(* Small instances of the components around an account: its devices and    *)
(* passkeys, pairing, the sync of its devices, enrolment of its face,      *)
(* sign-in by face and sign-in without a form.  A behaviour runs one of    *)
(* them, chosen at the start; the others stay as they are.                 *)
(***************************************************************************)
EXTENDS Devices, Pairing, DeviceSync, Faces, SignIn, SilentLogin, TLC

CONSTANTS x1, x2, x3, y1, y2

(* The calls, rows or people a component has of one kind are interchangeable. *)
MCSymmetry == Permutations({x1, x2, x3}) \cup Permutations({y1, y2})

VARIABLE chosen   \* the component this behaviour runs

AccountInit ==
  /\ chosen \in {"devices", "pairing", "device sync", "faces", "sign-in", "silent login"}
  /\ DevInit
  /\ chosen # "devices" => passkey[1] = "active" /\ device[2] = Absent
  /\ PairInit
  /\ SyncInit
  /\ FaceInit
  /\ chosen # "faces" => shared = envelope /\ \A u \in People : envelope[u] = NoFace
  /\ SignInit
  /\ chosen # "sign-in" => standing = [master |-> FALSE, owner |-> "nobody"]
  /\ SilentInit

AccountNext ==
  /\ \/ /\ chosen = "devices" /\ DevNext
        /\ UNCHANGED <<pairVars, syncVars, faceVars, signVars,
                       silentVars>>
     \/ /\ chosen = "pairing" /\ PairNext
        /\ UNCHANGED <<devVars, syncVars, faceVars, signVars, silentVars>>
     \/ /\ chosen = "device sync" /\ SyncNext
        /\ UNCHANGED <<devVars, pairVars, faceVars, signVars, silentVars>>
     \/ /\ chosen = "faces" /\ FaceNext
        /\ UNCHANGED <<devVars, pairVars, syncVars, signVars, silentVars>>
     \/ /\ chosen = "sign-in" /\ SignNext
        /\ UNCHANGED <<devVars, pairVars, syncVars, faceVars, silentVars>>
     \/ /\ chosen = "silent login" /\ SilentNext
        /\ UNCHANGED <<devVars, pairVars, syncVars, faceVars, signVars>>
  /\ UNCHANGED chosen

accountVars == <<devVars, pairVars, syncVars, faceVars, signVars, silentVars, chosen>>

AccountSpec == AccountInit /\ [][AccountNext]_accountVars
=============================================================================
