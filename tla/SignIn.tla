-------------------------------- MODULE SignIn --------------------------------
(***************************************************************************)
(* Sign-in by face or fingerprint on one terminal                          *)
(* (modules/trust-id/fusion.ts and its routes): both modalities are        *)
(* matched, the results are fused, and the answer is a session, an         *)
(* approval request, a new identity, or a refusal.  The matcher's answers  *)
(* are arbitrary here; Faces has them.                                     *)
(***************************************************************************)
EXTENDS Naturals, FiniteSets

CONSTANTS SignCalls, MaxChanges  \* bound: how often the terminal's standing changes

ASSUME SignInAssumption == MaxChanges \in Nat

VARIABLES standing,  \* the terminal: is it u's active Master Device, who owns its install
          changes,   \* how often that changed
          signIn,    \* what each call is doing
          opened,    \* sessions: the call and the kind
          registered, \* identities created, by what the two modalities had said
          shifted    \* history: calls during which the terminal's standing changed

signVars == <<standing, changes, signIn, opened, registered, shifted>>

\* u is the person the terminal may belong to, w another one.
Answers == {"absent", "u", "w", "no_match", "failed"}
Persons == {"u", "w"}

SBusy(c) == signIn[c].pc \notin {"idle", "done"}
Sign(c, pc) ==  \* a finished call leaves nothing behind
  signIn' = [signIn EXCEPT ![c] = IF pc = "done" THEN [pc |-> pc] ELSE [@ EXCEPT !.pc = pc]]
OnlySign == UNCHANGED <<standing, changes, opened, registered, shifted>>

StartSignIn(c, op) ==
  \E face, print \in Answers, clear \in BOOLEAN :
    /\ signIn[c].pc = "idle" /\ {face, print} # {"absent"}
    /\ op \in {"verify", "lookup"} => print = "absent"
    /\ signIn' = [signIn EXCEPT ![c] =
         [op |-> op, pc |-> "fuse", face |-> face, print |-> print, clear |-> clear, who |-> "nobody"]]
    /\ OnlySign

LookUpFace(c) == StartSignIn(c, "lookup")
SignInAmbiently(c) == StartSignIn(c, "ambient")
VerifyBiometric(c) == StartSignIn(c, "verify")

-----------------------------------------------------------------------------
(* matchMultiModalFusion *)
Recognised(c) == {signIn[c].face, signIn[c].print} \cap Persons
Winner(c) == IF signIn[c].face \in Persons THEN signIn[c].face ELSE signIn[c].print

GenuineNoMatch_anyError(c) == Recognised(c) = {}

GenuineNoMatch(c) == {signIn[c].face, signIn[c].print} \subseteq {"absent", "no_match"}

Fuse(c) ==
  /\ signIn[c].pc = "fuse" /\ Cardinality(Recognised(c)) = 1
  /\ signIn' = [signIn EXCEPT ![c].pc = "evaluate", ![c].who = Winner(c)]
  /\ OnlySign

\* Only a clear, unknown face may enrol; a conflict of the modalities is refused.
MayEnrol(c) == /\ signIn[c].op = "ambient" /\ GenuineNoMatch(c)
               /\ signIn[c].face # "absent" /\ signIn[c].clear

NobodyMatches(c) ==
  /\ signIn[c].pc = "fuse" /\ Cardinality(Recognised(c)) # 1
  /\ Sign(c, IF MayEnrol(c) THEN "occupancy" ELSE "done")
  /\ OnlySign

(* evaluateMaster: the Master Device row, then the owner of the install.    *)
EvaluateMaster(c) ==
  LET master == standing.master /\ signIn[c].who = "u" IN
  /\ signIn[c].pc = "evaluate"
  /\ Sign(c, IF master THEN "session"
             ELSE IF signIn[c].op = "verify" THEN "plain" ELSE "install")
  /\ OnlySign

EvaluateInstall(c) ==
  /\ signIn[c].pc = "install"
  /\ Sign(c, IF standing.owner = signIn[c].who THEN "session" ELSE "approval")
  /\ OnlySign

-----------------------------------------------------------------------------
(* ambientSignInAndSession and verifyBiometricAndSession *)
OpenSession(c, kind) == opened' = opened \cup {<<c, kind>>}

OpenMasterSession(c) ==
  /\ signIn[c].pc = "session" /\ Sign(c, "done") /\ OpenSession(c, "master")
  /\ UNCHANGED <<standing, changes, registered, shifted>>

OpenPlainSession(c) ==
  /\ signIn[c].pc = "plain" /\ Sign(c, "done") /\ OpenSession(c, "biometric")
  /\ UNCHANGED <<standing, changes, registered, shifted>>

\* The approval request waits at the Master Device, or cannot be made: no session either way.
AskMaster_opensAnyway(c) ==
  /\ signIn[c].pc = "approval" /\ Sign(c, "done") /\ OpenSession(c, "master")
  /\ UNCHANGED <<standing, changes, registered, shifted>>

AskMaster(c) ==
  /\ signIn[c].pc = "approval" /\ Sign(c, "done")
  /\ OnlySign

CheckOccupancy(c) ==
  /\ signIn[c].pc = "occupancy" /\ Sign(c, IF standing.owner # "nobody" THEN "done" ELSE "mint")
  /\ OnlySign

\* autoEnrollFromBiometrics, which checks the install once more, and its first session.
MintIdentity(c) ==
  /\ signIn[c].pc = "mint"
  /\ IF standing.owner # "nobody" THEN Sign(c, "done") /\ UNCHANGED <<standing, registered>>
     ELSE /\ Sign(c, "first") /\ registered' = registered \cup {<<signIn[c].face, signIn[c].print>>}
          /\ standing' = [standing EXCEPT !.owner = "new"]
  /\ UNCHANGED <<changes, opened, shifted>>

OpenFirstSession(c) ==
  /\ signIn[c].pc = "first" /\ Sign(c, "done") /\ OpenSession(c, "ambient_enroll")
  /\ UNCHANGED <<standing, changes, registered, shifted>>

\* Elsewhere: the Master Device is superseded or bound, the install is bound or cleared.
StandingChanges ==
  /\ changes < MaxChanges /\ changes' = changes + 1
  /\ standing' \in [master : BOOLEAN, owner : Persons \cup {"nobody"}] \ {standing}
  /\ shifted' = shifted \cup {c \in SignCalls : SBusy(c)}
  /\ UNCHANGED <<signIn, opened, registered>>

SignInit ==
  /\ standing \in [master : BOOLEAN, owner : Persons \cup {"nobody"}] /\ changes = 0
  /\ signIn = [c \in SignCalls |-> [pc |-> "idle"]]
  /\ opened = {} /\ registered = {} /\ shifted = {}

SignNext ==
  \/ StandingChanges
  \/ \E c \in SignCalls :
       LookUpFace(c) \/ SignInAmbiently(c) \/ VerifyBiometric(c) \/ Fuse(c) \/ NobodyMatches(c)
         \/ EvaluateMaster(c) \/ EvaluateInstall(c) \/ OpenMasterSession(c) \/ OpenPlainSession(c) \/ AskMaster(c) \/ CheckOccupancy(c) \/ MintIdentity(c) \/ OpenFirstSession(c)

SignSpec == SignInit /\ [][SignNext]_signVars

-----------------------------------------------------------------------------
(* A master session opens on a terminal that is the person's Master Device  *)
(* or owns the install, or stopped being so while the call ran: the         *)
(* standing is not looked at again when the session is made.                *)
MasterOnOwnTerminal ==
  \A c \in SignCalls : <<c, "master">> \in opened' \ opened =>
    \/ standing.master /\ signIn[c].who = "u"
    \/ standing.owner = signIn[c].who
    \/ c \in shifted

(* No identity is registered for somebody a modality recognised or could    *)
(* not judge: an outage or a stale template is not a no-match (fusion.ts).  *)
MintsOnlyUnknown == registered' \subseteq {"no_match"} \X {"absent", "no_match"}

(* What a sign-in may open and register.                                    *)
SignInIsSound == [][MasterOnOwnTerminal /\ MintsOnlyUnknown]_signVars
=============================================================================
