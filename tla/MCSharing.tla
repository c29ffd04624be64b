------------------------------ MODULE MCSharing ------------------------------
(***************************************************************************)
(* Small instances of components whose callers share one record: the       *)
(* consent and the codes of OAuth, the assertions of the trust bridge, the *)
(* camera of a page and the vault of a device.  A behaviour runs one of    *)
(* them, chosen at the start; the others stay as they are.                 *)
(***************************************************************************)
EXTENDS OAuth, TrustBridge, FaceCapture, SovereignVault, TLC

CONSTANTS c1, c2, c3, u1, u2

(* Concurrent calls are interchangeable, and so are two rows of one kind.   *)
MCSymmetry == Permutations({c1, c2, c3}) \cup Permutations({u1, u2})

VARIABLE chosen   \* the component this behaviour runs

SharingInit ==
  /\ chosen \in {"oauth", "trust bridge", "face capture", "vault"}
  /\ OAuthInit
  /\ BridgeInit
  /\ CapInit
  /\ VaultInit
  /\ chosen # "vault" => policy.protected

SharingNext ==
  /\ \/ /\ chosen = "oauth" /\ OAuthNext
        /\ UNCHANGED <<bridgeVars, captureVars, vaultVars>>
     \/ /\ chosen = "trust bridge" /\ BridgeNext
        /\ UNCHANGED <<oauthVars, captureVars, vaultVars>>
     \/ /\ chosen = "face capture" /\ CapNext
        /\ UNCHANGED <<oauthVars, bridgeVars, vaultVars>>
     \/ /\ chosen = "vault" /\ VaultNext
        /\ UNCHANGED <<oauthVars, bridgeVars, captureVars>>
  /\ UNCHANGED chosen

sharingVars == <<oauthVars, bridgeVars, captureVars, vaultVars, chosen>>

SharingSpec == SharingInit /\ [][SharingNext]_sharingVars
=============================================================================
