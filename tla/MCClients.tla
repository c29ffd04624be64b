------------------------------ MODULE MCClients ------------------------------
(***************************************************************************)
(* Small instances of programs away from the account server: the ambient   *)
(* sign-in screen, the face engine of a page and the delivery of its       *)
(* binaries, the self-updater and the list of locked apps of the Android   *)
(* app, and the store of the biometric evaluation.  A behaviour runs one   *)
(* of them, chosen at the start; the others stay as they are.              *)
(***************************************************************************)
EXTENDS AmbientAuth, BiometricEngine, AssetDelivery, Updater, AppLocker, EvalStore, TLC

CONSTANTS A, B, C, p1, p2, q1, q2

(* A and B are published as one version, each with its own file; C follows. *)
Ver == [r \in {A, B, C} |-> IF r = C THEN 3 ELSE 2]

(* Calls, apps, subjects and sessions of one kind are interchangeable.      *)
MCSymmetry == Permutations({p1, p2}) \cup Permutations({q1, q2})

VARIABLE chosen   \* the component this behaviour runs

ClientsInit ==
  /\ chosen \in {"ambient sign-in", "face engine", "asset delivery", "updater", "app locker", "evaluation store"}
  /\ AmbInit
  /\ EngineInit
  /\ AssetInit
  /\ chosen # "asset delivery" => bundle.file = <<>>
  /\ UpdInit
  /\ chosen # "updater" => published = A
  /\ LockerInit
  /\ EvalInit

ClientsNext ==
  /\ \/ /\ chosen = "ambient sign-in" /\ AmbNext
        /\ UNCHANGED <<engineVars, assetVars, updVars, lockerVars,
                       evalVars>>
     \/ /\ chosen = "face engine" /\ EngineNext
        /\ UNCHANGED <<ambVars, assetVars, updVars, lockerVars, evalVars>>
     \/ /\ chosen = "asset delivery" /\ AssetNext
        /\ UNCHANGED <<ambVars, engineVars, updVars, lockerVars,
                       evalVars>>
     \/ /\ chosen = "updater" /\ UpdNext
        /\ UNCHANGED <<ambVars, engineVars, assetVars, lockerVars,
                       evalVars>>
     \/ /\ chosen = "app locker" /\ LockerNext
        /\ UNCHANGED <<ambVars, engineVars, assetVars, updVars, evalVars>>
     \/ /\ chosen = "evaluation store" /\ EvalNext
        /\ UNCHANGED <<ambVars, engineVars, assetVars, updVars,
                       lockerVars>>
  /\ UNCHANGED chosen

clientsVars == <<ambVars, engineVars, assetVars, updVars, lockerVars, evalVars, chosen>>

ClientsSpec == ClientsInit /\ [][ClientsNext]_clientsVars
=============================================================================
