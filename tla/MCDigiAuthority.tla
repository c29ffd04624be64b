--------------------------- MODULE MCDigiAuthority ---------------------------
(***************************************************************************)
(* Small instances of the two components that decide on requests by one    *)
(* row each: DigiAuthority, and beside it the legacy challenges.  The      *)
(* policies are those of policy.ts: publishing is allowed with a limit of  *)
(* one, and payments ask the owner (as a rule that leaves step-up to the   *)
(* approval); single stands for a rule that allows an action once.         *)
(***************************************************************************)
EXTENDS DigiAuthority, LegacyChallenge, TLC

CONSTANTS publish, single, pay, c1, c2

Rules ==
  [k \in Keys |->
     [decision |-> IF k = publish THEN "ALLOW_WITH_LIMITS"
                   ELSE IF k = single THEN "ALLOW" ELSE "ASK_OWNER",
      limits |-> IF k = publish THEN {1} ELSE {},
      oneTime |-> k = single, requireStepUp |-> FALSE, payment |-> k = pay]]

OneHome == [c \in Calls |-> "p"]

TwoHomes == [c \in Calls |-> IF c = c1 THEN "p" ELSE "q"]

MCSymmetry == Permutations(Grants) \cup Permutations(Requests)
                \cup Permutations(Tokens)

(* In one process the calls are interchangeable too.                        *)
MCOneHomeSymmetry == MCSymmetry \cup Permutations(Calls)

VARIABLE chosen   \* the component this behaviour runs

RequestsInit ==
  /\ chosen \in {"authority", "legacy challenge"}
  /\ Init
  /\ LegacyInit
  /\ chosen # "legacy challenge" => masterDevice = CHOOSE m \in Masters : TRUE

RequestsNext ==
  /\ \/ chosen = "authority" /\ Next /\ UNCHANGED legacyVars
     \/ chosen = "legacy challenge" /\ LegacyNext /\ UNCHANGED vars
  /\ UNCHANGED chosen

RequestsSpec == RequestsInit /\ [][RequestsNext]_<<vars, legacyVars, chosen>>
=============================================================================
