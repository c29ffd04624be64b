------------------------------- MODULE Devices -------------------------------
(***************************************************************************)
(* The devices, passkeys and sessions of one account: revocation,          *)
(* promotion, passkey removal and registration, passkey login, and the     *)
(* binding of a Master Device (modules devices, passkeys, authentication   *)
(* and trust-id/register.ts).  Each call is one handler, one action is one *)
(* database statement.  A device is named by its place in the order of     *)
(* trustedAt, which is the order of creation.  Each passkey is made with a *)
(* device of its own, so passkeys are named by their device.               *)
(***************************************************************************)
EXTENDS Naturals, FiniteSets

CONSTANTS DeviceCalls,   \* handler invocations
          MaxDevices     \* bound: devices ever created

ASSUME DevicesAssumption == MaxDevices \in Nat \ {0, 1} /\ 0 \notin DeviceCalls

Dev == 1 .. MaxDevices

VARIABLES device,     \* the Device rows
          passkey,    \* the Credential of each device
          session,    \* the device of each unrevoked session, by the call that made it; 0 is the first
          handler,    \* what each call is doing
          together    \* history: pairs of operations that were in flight at once

devVars == <<device, passkey, session, handler, together>>

Levels == {"primary", "standard", "temporary"}
Ops == {"revoke", "promote", "remove", "register", "add", "login", "unlock", "bind"}
Absent == [status |-> "none", level |-> "standard"]

Active(d) == device[d].status = "active"
Trusted == {d \in Dev : Active(d) /\ device[d].level # "temporary"}
Primaries == {d \in Dev : Active(d) /\ device[d].level = "primary"}
ActivePasskeys == {d \in Dev : passkey[d] = "active"}

At(c, step) == handler[c].pc = step
InFlight(c) == handler[c].pc \notin {"idle", "done"}
Oldest(S) == {d \in S : \A e \in S : d <= e}

\* resolveSession: the session row is live and its device is not revoked.
SignedInOn(d) == Active(d) /\ \E s \in DeviceCalls \cup {0} : session[s] = d

-----------------------------------------------------------------------------
Goto(c, step) ==  \* a finished call leaves nothing behind
  handler' = [handler EXCEPT ![c] = IF step = "done" THEN [pc |-> step] ELSE [@ EXCEPT !.pc = step]]
Note(c, step, d) == handler' = [handler EXCEPT ![c].pc = step, ![c].pick = d]

OnlyHandler == UNCHANGED <<device, passkey, session, together>>

\* verifyReauthentication: a passkey on the acting device itself.
Reauthenticates(a) == passkey[a] = "active" /\ a \in Trusted

CanStart(op, a, t) ==
  CASE op = "revoke" -> SignedInOn(a) /\ Reauthenticates(a)
    [] op \in {"promote", "remove"} -> SignedInOn(a)
    [] op \in {"add", "bind"} -> SignedInOn(a) /\ t = a
    [] OTHER -> t = a

FirstStep(op) ==
  CASE op = "revoke" -> "read"
    [] op = "promote" -> "ensure"
    [] op \in {"register", "add"} -> "one"
    [] op = "bind" -> "rebind"
    [] op = "unlock" -> "first"
    [] OTHER -> "credential"

StartDeviceCall(c) ==
  \E op \in Ops, a, t \in Dev :
    /\ At(c, "idle") /\ CanStart(op, a, t)
    /\ handler' = [handler EXCEPT ![c] =
         [op |-> op, pc |-> FirstStep(op), actor |-> a, target |-> t, pick |-> 0, level |-> "standard"]]
    /\ together' = together \cup {{op, handler[o].op} : o \in {o \in DeviceCalls : InFlight(o)}}
    /\ UNCHANGED <<device, passkey, session>>

(* ensurePrimaryDevice and assertPrimaryDevice, shared by revoke and promote. *)
CountPrimaries(c) ==
  /\ At(c, "ensure") /\ OnlyHandler
  /\ Goto(c, IF Primaries # {} THEN "assert" ELSE "oldest")

FindOldest(c) ==
  /\ At(c, "oldest") /\ OnlyHandler
  /\ IF Trusted = {} THEN Goto(c, "assert") ELSE \E d \in Oldest(Trusted) : Note(c, "crown", d)

CrownOldest(c) ==
  /\ At(c, "crown") /\ Goto(c, "assert")
  /\ device' = [device EXCEPT ![handler[c].pick].level = "primary"]
  /\ UNCHANGED <<passkey, session, together>>

AssertPrimary(c) ==
  /\ At(c, "assert") /\ OnlyHandler
  /\ Goto(c, IF handler[c].actor \notin Primaries THEN "done"
             ELSE IF handler[c].op = "promote" THEN "reauth"
             ELSE IF handler[c].level = "primary" THEN "others" ELSE "write")

(* revokeDevice *)
ReadTarget(c) ==
  /\ At(c, "read") /\ OnlyHandler
  /\ IF Active(handler[c].target)
     THEN handler' = [handler EXCEPT ![c].pc = "ensure", ![c].level = device[handler[c].target].level]
     ELSE Goto(c, "done")

CountOtherPrimaries_forgotten(c) ==
  /\ At(c, "others") /\ OnlyHandler
  /\ Goto(c, "write")

CountOtherPrimaries(c) ==
  /\ At(c, "others") /\ OnlyHandler
  /\ Goto(c, IF Primaries \ {handler[c].target} = {} THEN "done" ELSE "write")

SignOut(d) == session' = [s \in DOMAIN session |-> IF session[s] = d THEN 0 ELSE session[s]]

RevokeWrite(c) ==
  LET t == handler[c].target IN
  /\ At(c, "write") /\ Goto(c, "done")
  /\ device' = [device EXCEPT ![t].status = "revoked"]
  /\ passkey' = [passkey EXCEPT ![t] = IF @ = "active" THEN "revoked" ELSE @]
  /\ SignOut(t)
  /\ UNCHANGED together

(* promoteDeviceToPrimary *)
PromoteReauth(c) ==
  /\ At(c, "reauth") /\ OnlyHandler
  /\ Goto(c, IF Reauthenticates(handler[c].actor) THEN "promotee" ELSE "done")

ReadPromotee(c) ==
  /\ At(c, "promotee") /\ OnlyHandler
  /\ Goto(c, IF handler[c].target \in Trusted \ Primaries THEN "swap" ELSE "done")

SwapPrimary(c) ==
  /\ At(c, "swap") /\ Goto(c, "done")
  /\ device' = [d \in Dev |-> IF d = handler[c].target THEN [device[d] EXCEPT !.level = "primary"]
                              ELSE IF d \in Primaries THEN [device[d] EXCEPT !.level = "standard"]
                              ELSE device[d]]
  /\ UNCHANGED <<passkey, session, together>>

(* removePasskey and verifyLogin read the credential first. *)
ReadCredential(c) ==
  /\ At(c, "credential") /\ OnlyHandler
  /\ Goto(c, IF passkey[handler[c].target] # "active" THEN "done"
             ELSE IF handler[c].op = "remove" THEN "remaining"
             ELSE IF Active(handler[c].target) THEN "session" ELSE "done")

CountRemaining_any(c) ==
  /\ At(c, "remaining") /\ OnlyHandler
  /\ Goto(c, "forget")

CountRemaining(c) ==
  /\ At(c, "remaining") /\ OnlyHandler
  /\ Goto(c, IF ActivePasskeys \ {handler[c].target} = {} THEN "done" ELSE "forget")

RevokePasskey(c) ==
  /\ At(c, "forget") /\ Goto(c, "retire")
  /\ passkey' = [passkey EXCEPT ![handler[c].target] = "revoked"]
  /\ SignOut(handler[c].target)
  /\ UNCHANGED <<device, together>>

\* No other credential is on the device, so the device goes with it.
RetireDevice(c) ==
  /\ At(c, "retire") /\ Goto(c, "done")
  /\ device' = [device EXCEPT ![handler[c].target].status = "revoked"]
  /\ UNCHANGED <<passkey, session, together>>

(* verifyRegistration *)
CountPasskeys_never(c) ==
  /\ At(c, "one") /\ OnlyHandler
  /\ Goto(c, "level")

CountPasskeys(c) ==
  /\ At(c, "one") /\ OnlyHandler
  /\ Goto(c, IF ActivePasskeys # {} THEN "done" ELSE "level")

ChooseInitialTrustLevel(c) ==
  /\ At(c, "level") /\ OnlyHandler
  /\ handler' = [handler EXCEPT ![c].pc = "device",
                                ![c].level = IF Trusted = {} THEN "primary" ELSE "standard"]

CreateDevice(c) ==
  /\ At(c, "device")
  /\ \E d \in Dev :
       /\ device[d].status = "none" /\ \A e \in 1 .. d - 1 : device[e].status # "none"
       /\ device' = [device EXCEPT ![d] = [status |-> "active", level |-> handler[c].level]]
       /\ handler' = [handler EXCEPT ![c].pc = "key", ![c].target = d]
  /\ UNCHANGED <<passkey, session, together>>

CreatePasskey(c) ==
  /\ At(c, "key") /\ Goto(c, IF handler[c].op = "add" THEN "done" ELSE "session")
  /\ passkey' = [passkey EXCEPT ![handler[c].target] = "active"]
  /\ UNCHANGED <<device, session, together>>

\* The credential id is taken: the device just made is deleted again.
DropDevice(c) ==
  /\ At(c, "key") /\ Goto(c, "done")
  /\ device' = [device EXCEPT ![handler[c].target] = Absent]
  /\ UNCHANGED <<passkey, session, together>>

CreateSession(c) ==
  /\ At(c, "session") /\ Goto(c, "done")
  /\ session' = [session EXCEPT ![c] = handler[c].target]
  /\ UNCHANGED <<device, passkey, together>>

(* unlockSessionForBoundInstall: a session on the oldest primary, or on no device. *)
UnlockOnPrimary(c) ==
  /\ At(c, "first") /\ OnlyHandler
  /\ IF Primaries = {} THEN Goto(c, "done")
     ELSE \E d \in Oldest(Primaries) :
            handler' = [handler EXCEPT ![c].pc = "session", ![c].target = d]

(* bindMasterDeviceForUser, called with a device name: by id, whatever the row says now. *)
RebindMaster(c) ==
  /\ At(c, "rebind") /\ Goto(c, "done")
  /\ device' = [device EXCEPT ![handler[c].actor] = [status |-> "active", level |-> "primary"]]
  /\ UNCHANGED <<passkey, session, together>>

\* Device approval grants a new standard device and a session on it.
TrustByApproval(c) ==
  /\ At(c, "idle") /\ Goto(c, "done")
  /\ \E d \in Dev :
       /\ device[d].status = "none" /\ \A e \in 1 .. d - 1 : device[e].status # "none"
       /\ device' = [device EXCEPT ![d] = [status |-> "active", level |-> "standard"]]
       /\ session' = [session EXCEPT ![c] = d]
  /\ UNCHANGED <<passkey, together>>

-----------------------------------------------------------------------------
\* The account starts from a first registration, with or without a device approved later,
\* or from a face enrolment, which makes no passkey.
DevInit ==
  /\ \E key \in {"active", "none"}, trusted \in {{1}, {1, 2}} :
       /\ key = "active" \/ trusted = {1}
       /\ device = [d \in Dev |-> IF d \notin trusted THEN Absent
                                 ELSE [status |-> "active", level |-> IF d = 1 THEN "primary" ELSE "standard"]]
       /\ passkey = [d \in Dev |-> IF d = 1 THEN key ELSE "none"]
  /\ session = [s \in DeviceCalls \cup {0} |-> IF s = 0 THEN 1 ELSE 0]
  /\ handler = [c \in DeviceCalls |-> [pc |-> "idle"]]
  /\ together = {}

DevStep(c) ==
  \/ StartDeviceCall(c) \/ CountPrimaries(c) \/ FindOldest(c) \/ CrownOldest(c) \/ AssertPrimary(c)
  \/ ReadTarget(c) \/ CountOtherPrimaries(c) \/ RevokeWrite(c)
  \/ PromoteReauth(c) \/ ReadPromotee(c) \/ SwapPrimary(c)
  \/ ReadCredential(c) \/ CountRemaining(c) \/ RevokePasskey(c) \/ RetireDevice(c)
  \/ CountPasskeys(c) \/ ChooseInitialTrustLevel(c) \/ CreateDevice(c) \/ CreatePasskey(c)
  \/ DropDevice(c) \/ CreateSession(c) \/ UnlockOnPrimary(c) \/ RebindMaster(c) \/ TrustByApproval(c)

DevNext == \E c \in DeviceCalls : DevStep(c)

DevSpec == DevInit /\ [][DevNext]_devVars

-----------------------------------------------------------------------------
RegistrationsMet == together \cap {{"register"}, {"add"}, {"register", "add"}} # {}

RemovalMetAnother == \E pair \in together : pair \cap {"revoke", "remove"} # {}

(* An account is left without a primary device only after a revocation or   *)
(* a passkey removal overlapped another operation (revokeDevice counts the  *)
(* other primaries, and reads whether its target is one, before it writes), *)
(* or after two registrations overlapped, which makes the second passkey    *)
(* that removePasskey asks for.  Without overlaps a primary always remains. *)
KeepsPrimary == Primaries = {} => RemovalMetAnother \/ RegistrationsMet

(* One passkey per Trust ID (verifyRegistration counts, then creates): the  *)
(* account has a second one only after two registrations overlapped.        *)
SinglePasskey == Cardinality(ActivePasskeys) > 1 => RegistrationsMet

(* What the account keeps through revocations, removals and registrations.  *)
DevicesAreSound == KeepsPrimary /\ SinglePasskey
=============================================================================
