-------------------------------- MODULE StepUp --------------------------------
(***************************************************************************)
(* Authenticated step-up: apps/api/src/modules/step-up/service.ts.  A      *)
(* relying party holding an access token of the subject creates a          *)
(* challenge for one operation; the subject approves it with the Master    *)
(* Device's signature or with a 1:1 face match; the relying party consumes *)
(* the approval for one signed statement.                                  *)
(*                                                                          *)
(* Handlers are asynchronous; each database statement is a step.  Unlike   *)
(* the device-approval handlers these use compare-and-set updates, and     *)
(* after its first read a handler relies only on columns no update changes, *)
(* so a call in flight keeps the challenge's name and not a copy of it.    *)
(*                                                                          *)
(* A definition named X_y is X with a plausible bug y; no specification    *)
(* uses it.                                                                 *)
(***************************************************************************)
EXTENDS Naturals, Sequences, FiniteSets

CONSTANTS
  Challenges,         \* challenge ids, random and never reused
  RpCalls,            \* handler invocations made by relying parties
  SubjectCalls,       \* handler invocations made by signed-in subjects
  Accesses,           \* access tokens: records [token, client, user]
  Terms,              \* what is compared by value: session binding and operation
  Users,
  Keys,               \* step-up Master Devices, each with its P-256 key
  KeyOwner,           \* the account each Master Device row belongs to
  FaceUsers,          \* accounts with an active face template
  PadReady,           \* pad-policy.ts: FALSE in this build
  MaxFailedAttempts,  \* STEP_UP_MAX_FAILED_ATTEMPTS (3)
  MaxPending,         \* STEP_UP_MAX_PENDING_PER_CLIENT (10)
  MaxCrashes,         \* bound: how many calls may die half way
  None

StepUpCalls == RpCalls \cup SubjectCalls

ASSUME ConstantsAssumption ==
  /\ \A a \in Accesses : a.user \in Users
  /\ KeyOwner \in [Keys -> Users]
  /\ FaceUsers \subseteq Users
  /\ PadReady \in BOOLEAN
  /\ MaxFailedAttempts \in Nat /\ MaxPending \in Nat /\ MaxCrashes \in Nat
  /\ None \notin Challenges \cup Keys \cup Users

VARIABLES
  ch,         \* the StepUpChallenge rows
  expired,    \* challenges whose expiresAt is past
  active,     \* Master Device rows with isMasterDevice and status "active"
  call,       \* the state of each handler invocation
  approvals,  \* the signed approvals returned for each challenge, in order
  crashes     \* how many calls have died

vars == <<ch, expired, active, call, approvals, crashes>>

-----------------------------------------------------------------------------
Methods == {"master_device", "biometric"}

Statuses == {"pending", "approved", "denied", "cancelled", "consumed"}

Asks == [access : Accesses, terms : Terms]

NoAsk == [access |-> None, terms |-> None]

(* by: what approvalEvidence stands for, the key that signed or the face    *)
NoChallenge == [status |-> "absent", ask |-> NoAsk, method |-> "none",
                master |-> None, attempts |-> 0, by |-> None]

Challenge == [status : Statuses \cup {"absent"}, ask : Asks \cup {NoAsk},
              method : Methods \cup {"none"}, master : Keys \cup {None},
              attempts : Nat, by : Keys \cup Users \cup {None}]

(* What the subject sends: a key's signature over some challenge's payload, *)
(* or a face.  The payload holds the challenge id and every bound field.    *)
Signature == [from : Keys, over : Challenges]
Face == [from : Users, over : {None}]
NoProof == [from |-> None, over |-> None]

(* pc: the statement the handler executes next *)
Pcs == {"idle", "enrolled", "insert", "verify", "fail", "limit", "approve",
        "deny", "consume", "sign"}

IdleCall == [pc |-> "idle", x |-> None, ask |-> NoAsk, method |-> "none",
             key |-> None, proof |-> NoProof]

Call == [pc : Pcs, x : Challenges \cup {None}, ask : Asks \cup {NoAsk},
         method : Methods \cup {"none"}, key : Keys \cup {None},
         proof : Signature \cup Face \cup {NoProof}]

User(x) == ch[x].ask.access.user

effectiveStatus(x) ==
  IF ch[x].status \in {"pending", "approved"} /\ x \in expired
  THEN "expired" ELSE ch[x].status

(* Open challenges one client holds for one subject *)
Open(a) == {x \in Challenges :
              /\ effectiveStatus(x) = "pending"
              /\ ch[x].ask.access.client = a.client
              /\ User(x) = a.user}

Finish(c) == call' = [call EXCEPT ![c] = IdleCall]

Goto(c, pc) == call' = [call EXCEPT ![c].pc = pc]

SetStatus(x, s) == ch' = [ch EXCEPT ![x].status = s]

-----------------------------------------------------------------------------
Init ==
  /\ ch = [x \in Challenges |-> NoChallenge]
  /\ expired = {}
  /\ active = Keys
  /\ call = [c \in StepUpCalls |-> IdleCall]
  /\ approvals = [x \in Challenges |-> <<>>]
  /\ crashes = 0

(* createStepUpChallenge: count, check enrolment, insert.                   *)
CountOpen_inclusive(c, a, t, m) ==
  /\ call[c].pc = "idle"
  /\ Cardinality(Open(a)) <= MaxPending
  /\ call' = [call EXCEPT ![c] = [IdleCall EXCEPT !.pc = "enrolled",
                                    !.ask = [access |-> a, terms |-> t],
                                    !.method = m]]
  /\ UNCHANGED <<ch, expired, active, approvals, crashes>>

CountOpen(c, a, t, m) ==
  /\ call[c].pc = "idle"
  /\ Cardinality(Open(a)) < MaxPending
  /\ call' = [call EXCEPT ![c] = [IdleCall EXCEPT !.pc = "enrolled",
                                    !.ask = [access |-> a, terms |-> t],
                                    !.method = m]]
  /\ UNCHANGED <<ch, expired, active, approvals, crashes>>

(* activeStepUpDevice takes the most recently updated of these.             *)
StepUpDevices(u) == {k \in active : KeyOwner[k] = u}

CheckEnrolled(c) ==
  LET u == call[c].ask.access.user IN
  /\ call[c].pc = "enrolled"
  /\ \/ /\ call[c].method = "master_device"
        /\ \E k \in StepUpDevices(u) :
             call' = [call EXCEPT ![c] = [@ EXCEPT !.pc = "insert", !.key = k]]
     \/ call[c].method = "master_device" /\ StepUpDevices(u) = {} /\ Finish(c)
     \/ call[c].method = "biometric" /\ u \in FaceUsers /\ Goto(c, "insert")
     \/ call[c].method = "biometric" /\ u \notin FaceUsers /\ Finish(c)
  /\ UNCHANGED <<ch, expired, active, approvals, crashes>>

Insert(c) ==
  /\ call[c].pc = "insert"
  /\ \E x \in Challenges :
       /\ ch[x].status = "absent"
       /\ ch' = [ch EXCEPT ![x] = [status |-> "pending", ask |-> call[c].ask,
                                   method |-> call[c].method,
                                   master |-> call[c].key,
                                   attempts |-> 0, by |-> None]]
  /\ Finish(c)
  /\ UNCHANGED <<expired, active, approvals, crashes>>

(* The bound on rows: with no id left the insert throws.                    *)
InsertThrows(c) ==
  /\ call[c].pc = "insert"
  /\ \A x \in Challenges : ch[x].status # "absent"
  /\ Finish(c)
  /\ UNCHANGED <<ch, expired, active, approvals, crashes>>

(* cancelStepUpChallenge: the read compares columns that never change, so   *)
(* it is one step with the update.                                          *)
Cancel(c, a, x) ==
  /\ call[c].pc = "idle"
  /\ ch[x].status \in {"pending", "approved"}
  /\ ch[x].ask.access.client = a.client /\ User(x) = a.user
  /\ SetStatus(x, "cancelled")
  /\ UNCHANGED <<expired, active, call, approvals, crashes>>

(* consumeStepUpChallenge: read and check, compare-and-set, sign.           *)
ReadApproved_anyTerms(c, a, t, x) ==
  /\ call[c].pc = "idle"
  /\ effectiveStatus(x) = "approved"
  /\ ch[x].ask.access = a
  /\ call' = [call EXCEPT ![c] = [IdleCall EXCEPT !.pc = "consume", !.x = x,
                                    !.ask = [access |-> a, terms |-> t]]]
  /\ UNCHANGED <<ch, expired, active, approvals, crashes>>

ReadApproved(c, a, t, x) ==
  /\ call[c].pc = "idle"
  /\ effectiveStatus(x) = "approved"
  /\ ch[x].ask = [access |-> a, terms |-> t]
  /\ call' = [call EXCEPT ![c] = [IdleCall EXCEPT !.pc = "consume", !.x = x,
                                    !.ask = [access |-> a, terms |-> t]]]
  /\ UNCHANGED <<ch, expired, active, approvals, crashes>>

Consume_unconditional(c) ==
  /\ call[c].pc = "consume"
  /\ SetStatus(call[c].x, "consumed")
  /\ Goto(c, "sign")
  /\ UNCHANGED <<expired, active, approvals, crashes>>

Consume_winnerFails(c) ==
  LET x == call[c].x IN
  /\ call[c].pc = "consume"
  /\ \/ /\ ch[x].status = "approved" /\ x \notin expired
        /\ SetStatus(x, "consumed")
     \/ /\ ch[x].status # "approved" \/ x \in expired
        /\ UNCHANGED ch
  /\ Finish(c)
  /\ UNCHANGED <<expired, active, approvals, crashes>>

Consume(c) ==
  LET x == call[c].x IN
  /\ call[c].pc = "consume"
  /\ \/ /\ ch[x].status = "approved" /\ x \notin expired
        /\ SetStatus(x, "consumed")
        /\ Goto(c, "sign")
     \/ /\ ch[x].status # "approved" \/ x \in expired
        /\ Finish(c)
        /\ UNCHANGED ch
  /\ UNCHANGED <<expired, active, approvals, crashes>>

Sign(c) ==
  LET x == call[c].x IN
  /\ call[c].pc = "sign"
  /\ approvals' = [approvals EXCEPT ![x] = Append(@, call[c].ask)]
  /\ Finish(c)
  /\ UNCHANGED <<ch, expired, active, crashes>>

-----------------------------------------------------------------------------
(* approveWithMasterDevice, approveWithBiometric and denyStepUp start by    *)
(* reading the challenge: its subject's session, and still pending.         *)
ReadPending(c, u, x, pc, proof) ==
  /\ call[c].pc = "idle"
  /\ effectiveStatus(x) = "pending"
  /\ User(x) = u
  /\ call' = [call EXCEPT ![c] = [IdleCall EXCEPT !.pc = pc, !.x = x,
                                    !.proof = proof]]
  /\ UNCHANGED <<ch, expired, active, approvals, crashes>>

StartMasterApproval(c, u, x) ==
  /\ ch[x].method = "master_device"
  /\ \E p \in Signature : ReadPending(c, u, x, "verify", p)

StartBiometricApproval_noPad(c, u, x) ==
  /\ ch[x].method = "biometric"
  /\ \E p \in Face : ReadPending(c, u, x, "verify", p)

StartBiometricApproval(c, u, x) ==
  /\ ch[x].method = "biometric"
  /\ PadReady
  /\ \E p \in Face : ReadPending(c, u, x, "verify", p)

StartDenial(c, u, x) == ReadPending(c, u, x, "deny", NoProof)

(* The bound Master Device, still active, over this challenge's payload;    *)
(* or the subject's own face (1:1).                                         *)
Verified_anyKey(x, p) ==
  IF ch[x].method = "master_device"
  THEN p.from \in active /\ p.over = x
  ELSE p.from = User(x)

Verified(x, p) ==
  IF ch[x].method = "master_device"
  THEN p.from = ch[x].master /\ p.from \in active /\ p.over = x
  ELSE p.from = User(x)

(* The face service may also answer with an error, which is no attempt.     *)
Verify(c) ==
  LET x == call[c].x IN
  /\ call[c].pc = "verify"
  /\ \/ Verified(x, call[c].proof) /\ Goto(c, "approve")
     \/ ~Verified(x, call[c].proof) /\ Goto(c, "fail")
     \/ ch[x].method = "biometric" /\ Finish(c)
  /\ UNCHANGED <<ch, expired, active, approvals, crashes>>

(* recordFailedAttempt: two updates.                                        *)
CountFailure(c) ==
  LET x == call[c].x IN
  /\ call[c].pc = "fail"
  /\ \/ ch[x].status = "pending" /\ ch' = [ch EXCEPT ![x].attempts = @ + 1]
     \/ ch[x].status # "pending" /\ UNCHANGED ch
  /\ Goto(c, "limit")
  /\ UNCHANGED <<expired, active, approvals, crashes>>

OverLimit_offByOne(x) == ch[x].attempts > MaxFailedAttempts

OverLimit(x) == ch[x].attempts >= MaxFailedAttempts

ApplyLimit(c) ==
  LET x == call[c].x IN
  /\ call[c].pc = "limit"
  /\ \/ ch[x].status = "pending" /\ OverLimit(x) /\ SetStatus(x, "denied")
     \/ ~(ch[x].status = "pending" /\ OverLimit(x)) /\ UNCHANGED ch
  /\ Finish(c)
  /\ UNCHANGED <<expired, active, approvals, crashes>>

MarkApproved(c) ==
  LET x == call[c].x IN
  /\ call[c].pc = "approve"
  /\ \/ /\ ch[x].status = "pending" /\ x \notin expired
        /\ ch' = [ch EXCEPT ![x] = [@ EXCEPT !.status = "approved",
                                             !.by = call[c].proof.from]]
     \/ (ch[x].status # "pending" \/ x \in expired) /\ UNCHANGED ch
  /\ Finish(c)
  /\ UNCHANGED <<expired, active, approvals, crashes>>

Deny(c) ==
  LET x == call[c].x IN
  /\ call[c].pc = "deny"
  /\ \/ ch[x].status = "pending" /\ SetStatus(x, "denied")
     \/ ch[x].status # "pending" /\ UNCHANGED ch
  /\ Finish(c)
  /\ UNCHANGED <<expired, active, approvals, crashes>>

-----------------------------------------------------------------------------
(* The clock passes expiresAt.  No row is written: expiry is derived.        *)
Expire(x) ==
  /\ ch[x].status # "absent"
  /\ x \notin expired
  /\ expired' = expired \cup {x}
  /\ UNCHANGED <<ch, active, call, approvals, crashes>>

(* A Master Device is revoked; nothing in the repository does it, the       *)
(* service only reads the row's status.                                     *)
RevokeKey(k) ==
  /\ k \in active
  /\ active' = active \ {k}
  /\ UNCHANGED <<ch, expired, call, approvals, crashes>>

(* A statement throws or the process dies: the rest of the call is lost.    *)
Crash(c) ==
  /\ call[c].pc # "idle"
  /\ crashes < MaxCrashes
  /\ crashes' = crashes + 1
  /\ Finish(c)
  /\ UNCHANGED <<ch, expired, active, approvals>>

RpStep(c) ==
  \/ \E a \in Accesses, t \in Terms, m \in Methods : CountOpen(c, a, t, m)
  \/ CheckEnrolled(c) \/ Insert(c) \/ InsertThrows(c)
  \/ \E a \in Accesses, x \in Challenges : Cancel(c, a, x)
  \/ \E a \in Accesses, t \in Terms, x \in Challenges : ReadApproved(c, a, t, x)
  \/ Consume(c) \/ Sign(c)

SubjectStep(c) ==
  \/ \E u \in Users, x \in Challenges :
       StartMasterApproval(c, u, x) \/ StartBiometricApproval(c, u, x)
         \/ StartDenial(c, u, x)
  \/ Verify(c) \/ CountFailure(c) \/ ApplyLimit(c) \/ MarkApproved(c) \/ Deny(c)

Next ==
  \/ \E c \in RpCalls : RpStep(c)
  \/ \E c \in SubjectCalls : SubjectStep(c)
  \/ \E c \in StepUpCalls : Crash(c)
  \/ \E x \in Challenges : Expire(x)
  \/ \E k \in Keys : RevokeKey(k)

Spec == Init /\ [][Next]_vars

(* A running handler gets its turn; relying parties, subjects, operators    *)
(* and crashes owe nothing.                                                 *)
Fairness ==
  /\ \A c \in RpCalls : WF_vars(CheckEnrolled(c) \/ Insert(c) \/ InsertThrows(c)
                                  \/ Consume(c) \/ Sign(c))
  /\ \A c \in SubjectCalls : WF_vars(Verify(c) \/ CountFailure(c) \/ ApplyLimit(c)
                                       \/ MarkApproved(c) \/ Deny(c))

FairSpec == Spec /\ Fairness

-----------------------------------------------------------------------------
(* Properties *)

(* Every variable stays in its domain (the columns of StepUpChallenge).     *)
TypeOK ==
  /\ ch \in [Challenges -> Challenge]
  /\ expired \subseteq Challenges
  /\ active \subseteq Keys
  /\ call \in [StepUpCalls -> Call]
  /\ approvals \in [Challenges -> Seq(Asks)]
  /\ crashes \in Nat

(* An approved (or by now consumed) challenge was approved by the Master    *)
(* Device it was created for, which belongs to its subject, or by the       *)
(* subject's own face while presentation-attack detection was in force.     *)
ApprovalIsProven ==
  \A x \in Challenges :
    ch[x].status \in {"approved", "consumed"} =>
      \/ /\ ch[x].method = "master_device"
         /\ ch[x].by = ch[x].master
         /\ KeyOwner[ch[x].by] = User(x)
      \/ /\ ch[x].method = "biometric"
         /\ ch[x].by = User(x)
         /\ PadReady

Counting(a) == {c \in RpCalls : /\ call[c].pc \in {"enrolled", "insert"}
                                /\ call[c].ask.access.client = a.client
                                /\ call[c].ask.access.user = a.user}

(* The count and the insert are apart, so the cap on open challenges can be *)
(* passed, but by no more than the create calls that ran side by side.      *)
OpenBounded ==
  \A a \in Accesses :
    Cardinality(Open(a)) + Cardinality(Counting(a))
      <= MaxPending + Cardinality(RpCalls) - 1

(* Guessing is bounded: however handlers overlap, a challenge takes fewer   *)
(* failed attempts than the limit plus the calls running side by side and   *)
(* those that died between the two updates of recordFailedAttempt.          *)
AttemptsBounded ==
  \A x \in Challenges :
    ch[x].attempts < MaxFailedAttempts + Cardinality(SubjectCalls) + crashes

(* Challenges consumed for an approval nobody signed, and no call is about  *)
(* to sign.                                                                 *)
Wasted == {x \in Challenges : /\ ch[x].status = "consumed" /\ approvals[x] = <<>>
                              /\ \A c \in RpCalls : ~(call[c].pc = "sign" /\ call[c].x = x)}

(* An approval the subject gave is lost only to a crash between the update  *)
(* of consumeStepUpChallenge and its signature, one for each crash.         *)
LossesBounded == Cardinality(Wasted) <= crashes

(* Neither limit of step-up is passed by more than the calls that overlap   *)
(* (createStepUpChallenge, recordFailedAttempt), and no more approvals are  *)
(* lost than calls die.                                                     *)
LimitsAreKept == OpenBounded /\ AttemptsBounded /\ LossesBounded

(* tests/step-up.test.ts:183: after three failures "a correct signature no  *)
(* longer approves it".                                                     *)
ThreeFailuresDeny ==
  [][\A x \in Challenges :
       ch[x].status = "pending" /\ OverLimit(x) => ch'[x].status # "approved"]_vars

(* The third failed attempt does end the challenge, unless it is settled    *)
(* otherwise first.                                                         *)
LimitIsApplied ==
  \A x \in Challenges : (ch[x].attempts >= MaxFailedAttempts) ~> (ch[x].status # "pending")

(* Whoever wins the consume gets the signed approval it paid for: no path   *)
(* but a crash loses it between the update and the signature.               *)
ConsumedIsDelivered ==
  \A x \in Challenges : (ch[x].status = "consumed") ~> (approvals[x] # <<>>)

(* What a challenge's status means to OneTimeApproval                       *)
Promise(s) ==
  CASE s = "absent"   -> "none"
    [] s = "pending"  -> "asked"
    [] s = "approved" -> "granted"
    [] s = "consumed" -> "redeemed"
    [] OTHER          -> "closed"

Contract == INSTANCE OneTimeApproval WITH
  Requests <- Challenges,
  state <- [x \in Challenges |-> Promise(ch[x].status)],
  asked <- [x \in Challenges |-> ch[x].ask],
  lapsed <- expired,
  receipts <- approvals

(* Step-up keeps the promise of OneTimeApproval: status moves once and only *)
(* forward, nothing is approved or consumed after expiry, and at most one   *)
(* approval is signed, for exactly the ask the challenge was created for.   *)
KeepsContract == Contract!Spec

=============================================================================
