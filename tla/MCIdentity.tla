----------------------------- MODULE MCIdentity ------------------------------
(***************************************************************************)
(* Small instances of the components that prove who a user is: WebAuthn    *)
(* ceremonies, the verified identity and its portrait, recovery by         *)
(* guardians, the keys and the media of a phone and the guard of its       *)
(* locked apps.  A behaviour runs one of them, chosen at the start; the    *)
(* others stay as they are.                                                *)
(***************************************************************************)
EXTENDS Ceremonies, VerifiedIdentity, Recovery, DeviceKeys, LockGuard, TLC

CONSTANTS x1, x2, y1, y2, z1, z2

(* Calls, rows and accounts of one kind are interchangeable.                *)
MCSymmetry == Permutations({x1, x2}) \cup Permutations({y1, y2}) \cup Permutations({z1, z2})

VARIABLE chosen   \* the component this behaviour runs

IdentityInit ==
  /\ chosen \in {"ceremonies", "verified identity", "recovery", "device keys", "lock guard"}
  /\ CerInit
  /\ chosen # "ceremonies" => \A u \in Accounts : account[u] = "none"
  /\ IdInit
  /\ chosen # "verified identity" => profile.version = 1
  /\ RecInit
  /\ KeysInit
  /\ GuardInit
  /\ chosen # "lock guard" => locked = {} /\ overlays

IdentityNext ==
  /\ \/ /\ chosen = "ceremonies" /\ CerNext
        /\ UNCHANGED <<idVars, recVars, keyVars, guardVars>>
     \/ /\ chosen = "verified identity" /\ IdNext
        /\ UNCHANGED <<cerVars, recVars, keyVars, guardVars>>
     \/ /\ chosen = "recovery" /\ RecNext
        /\ UNCHANGED <<cerVars, idVars, keyVars, guardVars>>
     \/ /\ chosen = "device keys" /\ KeysNext
        /\ UNCHANGED <<cerVars, idVars, recVars, guardVars>>
     \/ /\ chosen = "lock guard" /\ GuardNext
        /\ UNCHANGED <<cerVars, idVars, recVars, keyVars>>
  /\ UNCHANGED chosen

identityVars == <<cerVars, idVars, recVars, keyVars, guardVars, chosen>>

IdentitySpec == IdentityInit /\ [][IdentityNext]_identityVars
=============================================================================
