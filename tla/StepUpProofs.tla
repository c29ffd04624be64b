----------------------------- MODULE StepUpProofs -----------------------------
(* Theorems about StepUp for any number of challenges, calls, tokens, keys *)
(* and crashes and for every value of its limits.                          *)
EXTENDS StepUp, FiniteSetTheorems, TLAPS

-----------------------------------------------------------------------------
(* The inductive invariant *)

(* What stands behind an approval of x: the device or the face f.           *)
Proven(x, f) ==
  \/ ch[x].method = "master_device" /\ f = ch[x].master
  \/ ch[x].method = "biometric" /\ f = User(x) /\ PadReady

(* A challenge was made for a proper ask and a device of its subject, is    *)
(* approved with proof, and has an approval only if it is consumed.         *)
RowInv(x) ==
  /\ ch[x].status # "absent" =>
       /\ ch[x].ask \in Asks
       /\ ch[x].method \in Methods
       /\ ch[x].method = "master_device" => /\ ch[x].master \in Keys
                                            /\ KeyOwner[ch[x].master] = User(x)
  /\ ch[x].status \in {"approved", "consumed"} => Proven(x, ch[x].by)
  /\ \/ approvals[x] = <<>>
     \/ ch[x].status = "consumed" /\ approvals[x] = <<ch[x].ask>>

(* What a call in flight has established so far.                            *)
Good(r) ==
  /\ r.pc \in {"enrolled", "insert"} => r.ask \in Asks /\ r.method \in Methods
  /\ r.pc = "insert" /\ r.method = "master_device" =>
       r.key \in Keys /\ KeyOwner[r.key] = r.ask.access.user
  /\ r.pc \in Pcs \ {"idle", "enrolled", "insert"} =>
       r.x \in Challenges /\ ch[r.x].status # "absent"
  /\ r.pc = "verify" /\ ch[r.x].method = "biometric" => PadReady
  /\ r.pc = "approve" => Proven(r.x, r.proof.from)
  /\ r.pc \in {"consume", "sign"} => r.ask = ch[r.x].ask
  /\ r.pc = "sign" => ch[r.x].status = "consumed" /\ approvals[r.x] = <<>>

CallsInv == \A c \in StepUpCalls : Good(call[c])

(* The compare-and-set of consume has one winner.                           *)
OneSigner ==
  \A c, d \in StepUpCalls :
    call[c].pc = "sign" /\ call[d].pc = "sign" /\ call[c].x = call[d].x => c = d

IInv == TypeOK /\ (\A x \in Challenges : RowInv(x)) /\ CallsInv /\ OneSigner

-----------------------------------------------------------------------------
LEMMA IdleIsCall == IdleCall \in Call
BY DEF IdleCall, Call, Pcs, NoProof

LEMMA InitIInv == Init => IInv
<1> SUFFICES ASSUME Init PROVE IInv
  OBVIOUS
<1> USE DEF Init
<1>1. NoChallenge \in Challenge
  BY DEF NoChallenge, Challenge
<1>2. TypeOK
  BY <1>1, IdleIsCall, ConstantsAssumption DEF TypeOK
<1>3. \A x \in Challenges : RowInv(x)
  BY DEF RowInv, NoChallenge
<1>4. CallsInv /\ OneSigner
  BY DEF CallsInv, OneSigner, Good, IdleCall
<1> QED BY <1>2, <1>3, <1>4 DEF IInv

-----------------------------------------------------------------------------
(* Type correctness *)

LEMMA NextType == IInv /\ [Next]_vars => TypeOK'
<1> SUFFICES ASSUME TypeOK, \A x \in Challenges : RowInv(x), CallsInv, [Next]_vars
             PROVE  TypeOK'
  BY DEF IInv
<1> USE DEF TypeOK
<1>f. ASSUME NEW c \in StepUpCalls, Finish(c) PROVE call' \in [StepUpCalls -> Call]
  BY <1>f, IdleIsCall DEF Finish
<1>g. ASSUME NEW c \in StepUpCalls, NEW pc \in Pcs, Goto(c, pc) PROVE call' \in [StepUpCalls -> Call]
  <2>1. [call[c] EXCEPT !.pc = pc] \in Call
    BY DEF Call
  <2> QED BY <1>g, <2>1 DEF Goto
<1>s. ASSUME NEW x \in Challenges, NEW s \in Statuses, SetStatus(x, s)
      PROVE ch' \in [Challenges -> Challenge]
  <2>1. [ch[x] EXCEPT !.status = s] \in Challenge
    BY DEF Challenge
  <2> QED BY <1>s, <2>1 DEF SetStatus
<1>x. ASSUME NEW c \in StepUpCalls,
             call[c].pc \in {"verify", "fail", "limit", "approve", "deny", "consume", "sign"}
      PROVE call[c].x \in Challenges
  BY <1>x DEF CallsInv, Good, Pcs
<1>a. \A a \in Accesses, t \in Terms : [access |-> a, terms |-> t] \in Asks
  BY DEF Asks
<1>1. ASSUME NEW c \in StepUpCalls, NEW a \in Accesses, NEW t \in Terms, NEW m \in Methods,
             CountOpen(c, a, t, m)
      PROVE TypeOK'
  <2>1. [IdleCall EXCEPT !.pc = "enrolled", !.ask = [access |-> a, terms |-> t],
                         !.method = m] \in Call
    BY <1>a, IdleIsCall DEF Call, Pcs
  <2> QED BY <1>1, <2>1 DEF CountOpen
<1>2. ASSUME NEW c \in StepUpCalls, CheckEnrolled(c) PROVE TypeOK'
  <2>1. \A k \in Keys : [call[c] EXCEPT !.pc = "insert", !.key = k] \in Call
    BY DEF Call, Pcs
  <2>2. ASSUME NEW k \in active,
               call' = [call EXCEPT ![c] = [@ EXCEPT !.pc = "insert", !.key = k]]
        PROVE call' \in [StepUpCalls -> Call]
    BY <2>1, <2>2
  <2>3. "insert" \in Pcs
    BY DEF Pcs
  <2>4. call' \in [StepUpCalls -> Call]
    BY <1>2, <1>f, <1>g, <2>2, <2>3 DEF CheckEnrolled, StepUpDevices
  <2> QED BY <1>2, <2>4 DEF CheckEnrolled
<1>3. ASSUME NEW c \in StepUpCalls, Insert(c) PROVE TypeOK'
  <2>1. [status |-> "pending", ask |-> call[c].ask, method |-> call[c].method,
         master |-> call[c].key, attempts |-> 0, by |-> None] \in Challenge
    BY DEF Challenge, Call, Statuses
  <2>2. ch' \in [Challenges -> Challenge]
    BY <1>3, <2>1 DEF Insert
  <2> QED BY <1>3, <1>f, <2>2 DEF Insert
<1>4. ASSUME NEW c \in StepUpCalls, InsertThrows(c) PROVE TypeOK'
  BY <1>4, <1>f DEF InsertThrows
<1>5. ASSUME NEW c \in StepUpCalls, NEW a \in Accesses, NEW x \in Challenges, Cancel(c, a, x)
      PROVE TypeOK'
  BY <1>5, <1>s DEF Cancel, Statuses
<1>6. ASSUME NEW c \in StepUpCalls, NEW a \in Accesses, NEW t \in Terms, NEW x \in Challenges,
             ReadApproved(c, a, t, x)
      PROVE TypeOK'
  <2>1. [IdleCall EXCEPT !.pc = "consume", !.x = x,
                         !.ask = [access |-> a, terms |-> t]] \in Call
    BY <1>a, IdleIsCall DEF Call, Pcs
  <2> QED BY <1>6, <2>1 DEF ReadApproved
<1>7. ASSUME NEW c \in StepUpCalls, Consume(c) PROVE TypeOK'
  <2>1. ch' \in [Challenges -> Challenge]
    BY <1>7, <1>s, <1>x DEF Consume, Statuses
  <2>2. call' \in [StepUpCalls -> Call]
    BY <1>7, <1>f, <1>g DEF Consume, Pcs
  <2> QED BY <1>7, <2>1, <2>2 DEF Consume
<1>8. ASSUME NEW c \in StepUpCalls, Sign(c) PROVE TypeOK'
  <2>1. /\ call[c].x \in Challenges /\ ch[call[c].x].status = "consumed"
        /\ ch[call[c].x].ask = call[c].ask
    BY <1>8 DEF Sign, CallsInv, Good, Pcs
  <2>2. call[c].ask \in Asks
    BY <2>1 DEF RowInv
  <2>3. approvals' \in [Challenges -> Seq(Asks)]
    BY <1>8, <2>1, <2>2 DEF Sign
  <2> QED BY <1>8, <1>f, <2>3 DEF Sign
<1>9. ASSUME NEW c \in StepUpCalls, NEW u \in Users, NEW x \in Challenges,
             \/ StartMasterApproval(c, u, x) \/ StartBiometricApproval(c, u, x)
             \/ StartDenial(c, u, x)
      PROVE TypeOK'
  <2>1. ASSUME NEW pc \in Pcs, NEW p \in Signature \cup Face \cup {NoProof},
               ReadPending(c, u, x, pc, p)
        PROVE TypeOK'
    <3>1. [IdleCall EXCEPT !.pc = pc, !.x = x, !.proof = p] \in Call
      BY IdleIsCall DEF Call
    <3> QED BY <2>1, <3>1 DEF ReadPending
  <2>2. "verify" \in Pcs /\ "deny" \in Pcs
    BY DEF Pcs
  <2> QED BY <1>9, <2>1, <2>2
      DEF StartMasterApproval, StartBiometricApproval, StartDenial
<1>10. ASSUME NEW c \in StepUpCalls, Verify(c) PROVE TypeOK'
  <2>1. "approve" \in Pcs /\ "fail" \in Pcs
    BY DEF Pcs
  <2> QED BY <1>10, <1>f, <1>g, <2>1 DEF Verify
<1>11. ASSUME NEW c \in StepUpCalls, CountFailure(c) PROVE TypeOK'
  <2>1. "limit" \in Pcs /\ call[c].x \in Challenges
    BY <1>11, <1>x DEF Pcs, CountFailure
  <2>2. \A r \in Challenge, n \in Nat : [r EXCEPT !.attempts = n] \in Challenge
    BY DEF Challenge
  <2>3. ch[call[c].x].attempts + 1 \in Nat
    BY <2>1 DEF Challenge
  <2>4. \/ UNCHANGED ch
        \/ ch' = [ch EXCEPT ![call[c].x] = [ch[call[c].x] EXCEPT
                                            !.attempts = ch[call[c].x].attempts + 1]]
    BY <1>11 DEF CountFailure
  <2>5. [ch[call[c].x] EXCEPT !.attempts = ch[call[c].x].attempts + 1] \in Challenge
    BY <2>1, <2>2, <2>3
  <2>6. ch' \in [Challenges -> Challenge]
    BY <2>1, <2>4, <2>5
  <2> QED BY <1>11, <1>g, <2>1, <2>6 DEF CountFailure
<1>12. ASSUME NEW c \in StepUpCalls, ApplyLimit(c) \/ Deny(c) PROVE TypeOK'
  <2>1. "denied" \in Statuses /\ call[c].x \in Challenges
    BY <1>12, <1>x DEF Statuses, ApplyLimit, Deny
  <2>2. ch' \in [Challenges -> Challenge]
    BY <1>12, <1>s, <2>1 DEF ApplyLimit, Deny
  <2> QED BY <1>12, <1>f, <2>2 DEF ApplyLimit, Deny
<1>13. ASSUME NEW c \in StepUpCalls, MarkApproved(c) PROVE TypeOK'
  <2>1. call[c].x \in Challenges /\ call[c].proof.from \in Keys \cup Users \cup {None}
    BY <1>13, <1>x DEF MarkApproved, Call, Signature, Face, NoProof
  <2>2. \A x \in Challenges, f \in Keys \cup Users \cup {None} :
          [ch[x] EXCEPT !.status = "approved", !.by = f] \in Challenge
    BY DEF Challenge, Statuses
  <2>3. ch' \in [Challenges -> Challenge]
    BY <1>13, <2>1, <2>2 DEF MarkApproved
  <2> QED BY <1>13, <1>f, <2>3 DEF MarkApproved
<1>14. ASSUME NEW x \in Challenges, Expire(x) PROVE TypeOK'
  BY <1>14 DEF Expire
<1>15. ASSUME NEW k \in Keys, RevokeKey(k) PROVE TypeOK'
  BY <1>15 DEF RevokeKey
<1>16. ASSUME NEW c \in StepUpCalls, Crash(c) PROVE TypeOK'
  BY <1>16, <1>f DEF Crash
<1>17. CASE UNCHANGED vars
  BY <1>17 DEF vars
<1>18. ASSUME NEW c \in RpCalls, RpStep(c) PROVE TypeOK'
  BY <1>18, <1>1, <1>2, <1>3, <1>4, <1>5, <1>6, <1>7, <1>8 DEF RpStep, StepUpCalls
<1>19. ASSUME NEW c \in SubjectCalls, SubjectStep(c) PROVE TypeOK'
  BY <1>19, <1>9, <1>10, <1>11, <1>12, <1>13 DEF SubjectStep, StepUpCalls
<1> QED
  BY <1>14, <1>15, <1>16, <1>17, <1>18, <1>19 DEF Next

-----------------------------------------------------------------------------
(* What every step keeps of a challenge: what it was made for, and having   *)
(* been consumed.                                                           *)
Kept ==
  \A x \in Challenges :
    ch[x].status # "absent" =>
      /\ ch'[x].status # "absent"
      /\ ch'[x].ask = ch[x].ask /\ ch'[x].method = ch[x].method
      /\ ch'[x].master = ch[x].master
      /\ ch[x].status = "consumed" => ch'[x] = ch[x]

(* The rows change in one of five ways.                                     *)
LEMMA NextKept == IInv /\ [Next]_vars => Kept
<1> SUFFICES ASSUME IInv, [Next]_vars PROVE Kept
  OBVIOUS
<1> USE DEF IInv, TypeOK
<1>1. ASSUME UNCHANGED ch PROVE Kept
  BY <1>1 DEF Kept
<1>2. ASSUME NEW x \in Challenges, NEW s \in Statuses, SetStatus(x, s),
             ch[x].status \notin {"consumed", "absent"}
      PROVE  Kept
  BY <1>2 DEF SetStatus, Kept, Challenge, Statuses
<1>x. ASSUME NEW c \in StepUpCalls,
             call[c].pc \in {"verify", "fail", "limit", "approve", "deny", "consume", "sign"}
      PROVE call[c].x \in Challenges
  BY <1>x DEF CallsInv, Good, Pcs
<1>3. ASSUME NEW c \in StepUpCalls, Insert(c) PROVE Kept
  BY <1>3 DEF Insert, Kept
<1>4. ASSUME NEW c \in StepUpCalls, NEW a \in Accesses, NEW x \in Challenges, Cancel(c, a, x)
      PROVE  Kept
  BY <1>2, <1>4 DEF Cancel, Statuses
<1>5. ASSUME NEW c \in StepUpCalls, Consume(c) PROVE Kept
  BY <1>1, <1>2, <1>5, <1>x DEF Consume, Statuses
<1>6. ASSUME NEW c \in StepUpCalls, CountFailure(c) PROVE Kept
  <2>1. call[c].x \in Challenges
    BY <1>6, <1>x DEF CountFailure
  <2>2. CASE UNCHANGED ch
    BY <2>2, <1>1
  <2>3. CASE ch[call[c].x].status = "pending" /\ ch' = [ch EXCEPT ![call[c].x].attempts = @ + 1]
    BY <2>1, <2>3 DEF Kept, Challenge
  <2> QED BY <1>6, <2>2, <2>3 DEF CountFailure
<1>7. ASSUME NEW c \in StepUpCalls, ApplyLimit(c) \/ Deny(c) PROVE Kept
  BY <1>1, <1>2, <1>7, <1>x DEF ApplyLimit, Deny, Statuses
<1>8. ASSUME NEW c \in StepUpCalls, MarkApproved(c) PROVE Kept
  <2>1. call[c].x \in Challenges
    BY <1>8, <1>x DEF MarkApproved
  <2>2. CASE UNCHANGED ch
    BY <2>2, <1>1
  <2>3. CASE /\ ch[call[c].x].status = "pending"
             /\ ch' = [ch EXCEPT ![call[c].x] = [@ EXCEPT !.status = "approved",
                                                          !.by = call[c].proof.from]]
    BY <2>1, <2>3 DEF Kept, Challenge
  <2> QED BY <1>8, <2>2, <2>3 DEF MarkApproved
<1>9. ASSUME NEW c \in StepUpCalls, RpStep(c) PROVE Kept
  BY <1>1, <1>3, <1>4, <1>5, <1>9
  DEF RpStep, CountOpen, CheckEnrolled, InsertThrows, ReadApproved, Sign
<1>10. ASSUME NEW c \in StepUpCalls, SubjectStep(c) PROVE Kept
  BY <1>1, <1>6, <1>7, <1>8, <1>10
  DEF SubjectStep, StartMasterApproval, StartBiometricApproval, StartDenial, ReadPending,
      Verify
<1>11. CASE UNCHANGED vars
  BY <1>1, <1>11 DEF vars
<1> QED
  BY <1>1, <1>9, <1>10, <1>11 DEF Next, StepUpCalls, Crash, Expire, RevokeKey

(* What a call has established stays true while other calls run.            *)
LEMMA GoodKept ==
  ASSUME Kept, NEW r, Good(r), r.pc = "sign" => approvals'[r.x] = approvals[r.x]
  PROVE  Good(r)'
<1>1. r.pc \in Pcs \ {"idle", "enrolled", "insert"} =>
        /\ r.x \in Challenges /\ ch'[r.x].status # "absent"
        /\ ch'[r.x].ask = ch[r.x].ask /\ ch'[r.x].method = ch[r.x].method
        /\ ch'[r.x].master = ch[r.x].master
        /\ ch[r.x].status = "consumed" => ch'[r.x] = ch[r.x]
  BY DEF Good, Kept
<1> QED BY <1>1 DEF Good, Proven, User, Pcs

-----------------------------------------------------------------------------
(* Preservation *)

(* A step that gives call c a new record, signs only where c was about to,  *)
(* and makes c a signer only where nobody is.                               *)
LEMMA CallMoves ==
  ASSUME IInv, Kept, NEW c \in StepUpCalls, NEW r,
         call' = [call EXCEPT ![c] = r],
         Good(r)',
         approvals' = approvals \/
           (call[c].pc = "sign" /\ \A x \in Challenges \ {call[c].x} : approvals'[x] = approvals[x]),
         r.pc = "sign" => \A d \in StepUpCalls : ~(call[d].pc = "sign" /\ call[d].x = r.x)
  PROVE  CallsInv' /\ OneSigner'
<1>1. \A d \in StepUpCalls : call'[d] = IF d = c THEN r ELSE call[d]
  BY DEF IInv, TypeOK
<1>2. ASSUME NEW d \in StepUpCalls, d # c PROVE Good(call[d])'
  <2>1. Good(call[d])
    BY DEF IInv, CallsInv
  <2>2. call[d].pc = "sign" => approvals'[call[d].x] = approvals[call[d].x]
    BY <1>2, <2>1 DEF IInv, OneSigner, Good, Pcs
  <2> QED BY <1>1, <1>2, <2>1, <2>2, GoodKept DEF Good, Proven, User
<1>3. Good(call[c])'
  BY <1>1 DEF Good, Proven, User
<1>4. CallsInv'
  BY <1>2, <1>3 DEF CallsInv
<1>5. OneSigner'
  BY <1>1 DEF OneSigner, IInv
<1> QED BY <1>4, <1>5

LEMMA NextIInv == IInv /\ [Next]_vars => IInv'
<1> SUFFICES ASSUME IInv, [Next]_vars PROVE IInv'
  OBVIOUS
<1>T. TypeOK /\ TypeOK'
  BY NextType DEF IInv
<1>K. Kept
  BY NextKept
<1>x. ASSUME NEW c \in StepUpCalls, call[c].pc \in Pcs \ {"idle", "enrolled", "insert"}
      PROVE  call[c].x \in Challenges /\ ch[call[c].x].status # "absent"
  BY <1>x DEF IInv, CallsInv, Good
<1>i. Good(IdleCall)'
  BY DEF Good, IdleCall
<1>f. ASSUME NEW c \in StepUpCalls, Finish(c), UNCHANGED approvals
      PROVE  CallsInv' /\ OneSigner'
  <2>1. IdleCall.pc # "sign"
    BY DEF IdleCall
  <2> QED BY <1>f, <1>i, <1>K, <2>1, CallMoves DEF Finish
<1>c. ASSUME UNCHANGED <<call, approvals>> PROVE CallsInv' /\ OneSigner'
  <2>1. ASSUME NEW c \in StepUpCalls PROVE Good(call[c])'
    BY <1>c, <1>K, GoodKept DEF IInv, CallsInv, Good, Proven, User
  <2> QED BY <1>c, <2>1 DEF IInv, CallsInv, OneSigner
<1> DEFINE rows == \A x \in Challenges : RowInv(x)
<1>r. ASSUME NEW x \in Challenges, ch'[x] = ch[x], approvals'[x] = approvals[x]
      PROVE  RowInv(x)'
  BY <1>r DEF IInv, RowInv, Proven, User
<1>a. ASSUME UNCHANGED <<ch, approvals>> PROVE rows'
  BY <1>a, <1>r
<1>s. ASSUME NEW x \in Challenges, NEW s \in {"denied", "cancelled"}, SetStatus(x, s),
             ch[x].status \in {"pending", "approved"}, UNCHANGED approvals
      PROVE  rows'
  <2>1. /\ ch'[x].status = s /\ ch'[x].ask = ch[x].ask /\ ch'[x].method = ch[x].method
        /\ ch'[x].master = ch[x].master
    BY <1>s, <1>T DEF SetStatus, TypeOK, Challenge
  <2>2. RowInv(x)'
    BY <2>1, <1>s DEF IInv, RowInv, User
  <2>3. \A y \in Challenges \ {x} : ch'[y] = ch[y]
    BY <1>s, <1>T DEF SetStatus, TypeOK
  <2> QED BY <1>r, <1>s, <2>2, <2>3
<1>g. ASSUME NEW c \in StepUpCalls, NEW pc, Goto(c, pc), pc # "sign", UNCHANGED approvals,
             NEW r, r = [call[c] EXCEPT !.pc = pc], Good(r)'
      PROVE  CallsInv' /\ OneSigner'
  <2>1. r.pc # "sign"
    BY <1>g, <1>T DEF TypeOK, Call
  <2>2. call' = [call EXCEPT ![c] = r]
    BY <1>g DEF Goto
  <2> QED BY <1>g, <1>K, <2>1, <2>2, CallMoves
<1>1. ASSUME NEW c \in StepUpCalls, NEW a \in Accesses, NEW t \in Terms, NEW m \in Methods,
             CountOpen(c, a, t, m)
      PROVE  rows' /\ CallsInv' /\ OneSigner'
  <2> DEFINE r == [IdleCall EXCEPT !.pc = "enrolled", !.ask = [access |-> a, terms |-> t],
                                   !.method = m]
  <2>1. r.pc = "enrolled" /\ r.ask \in Asks /\ r.method \in Methods
    BY DEF IdleCall, Asks
  <2>2. Good(r)'
    BY <2>1 DEF Good
  <2>3. call' = [call EXCEPT ![c] = r]
    BY <1>1 DEF CountOpen
  <2> HIDE DEF r
  <2> QED BY <1>1, <1>a, <1>K, <2>1, <2>2, <2>3, CallMoves DEF CountOpen
<1>2. ASSUME NEW c \in StepUpCalls, CheckEnrolled(c) PROVE rows' /\ CallsInv' /\ OneSigner'
  <2>1. call[c].ask \in Asks /\ call[c].method \in Methods
    BY <1>2 DEF CheckEnrolled, IInv, CallsInv, Good
  <2>2. ASSUME NEW k \in StepUpDevices(call[c].ask.access.user),
               call' = [call EXCEPT ![c] = [call[c] EXCEPT !.pc = "insert", !.key = k]]
        PROVE  CallsInv' /\ OneSigner'
    <3>0. PICK r : r = [call[c] EXCEPT !.pc = "insert", !.key = k]
      OBVIOUS
    <3>1. r.pc = "insert" /\ r.ask = call[c].ask /\ r.method = call[c].method /\ r.key = k
      BY <3>0, <1>T DEF TypeOK, Call
    <3>2. k \in Keys /\ KeyOwner[k] = call[c].ask.access.user
      BY <1>T DEF TypeOK, StepUpDevices
    <3>3. Good(r)'
      BY <2>1, <3>1, <3>2 DEF Good
    <3>4. call' = [call EXCEPT ![c] = r]
      BY <2>2, <3>0
    <3> QED BY <1>2, <1>K, <3>1, <3>3, <3>4, CallMoves DEF CheckEnrolled
  <2>3. ASSUME call[c].method = "biometric", Goto(c, "insert")
        PROVE  CallsInv' /\ OneSigner'
    <3>0. PICK r : r = [call[c] EXCEPT !.pc = "insert"]
      OBVIOUS
    <3>1. r.pc = "insert" /\ r.ask = call[c].ask /\ r.method = "biometric"
      BY <3>0, <1>T, <2>3 DEF TypeOK, Call
    <3>2. Good(r)'
      BY <2>1, <3>1 DEF Good, Methods
    <3> QED BY <1>2, <1>g, <2>3, <3>0, <3>2 DEF CheckEnrolled
  <2> QED BY <1>2, <1>a, <1>f, <2>2, <2>3 DEF CheckEnrolled
<1>3. ASSUME NEW c \in StepUpCalls, Insert(c) PROVE rows' /\ CallsInv' /\ OneSigner'
  <2>1. PICK x \in Challenges :
          /\ ch[x].status = "absent"
          /\ ch' = [ch EXCEPT ![x] = [status |-> "pending", ask |-> call[c].ask,
                                      method |-> call[c].method, master |-> call[c].key,
                                      attempts |-> 0, by |-> None]]
    BY <1>3 DEF Insert
  <2>2. Good(call[c])
    BY DEF IInv, CallsInv
  <2>3. approvals[x] = <<>>
    BY <2>1 DEF IInv, RowInv
  <2>4. RowInv(x)'
    BY <1>3, <1>T, <2>1, <2>2, <2>3 DEF TypeOK, Insert, Good, RowInv, User
  <2>5. \A y \in Challenges \ {x} : ch'[y] = ch[y]
    BY <1>T, <2>1 DEF TypeOK
  <2>6. rows'
    BY <1>3, <1>r, <2>4, <2>5 DEF Insert
  <2> QED BY <1>3, <1>f, <2>6 DEF Insert
<1>4. ASSUME NEW c \in StepUpCalls, InsertThrows(c) PROVE rows' /\ CallsInv' /\ OneSigner'
  BY <1>4, <1>a, <1>f DEF InsertThrows
<1>5. ASSUME NEW c \in StepUpCalls, NEW a \in Accesses, NEW x \in Challenges, Cancel(c, a, x)
      PROVE  rows' /\ CallsInv' /\ OneSigner'
  BY <1>5, <1>c, <1>s DEF Cancel
<1>6. ASSUME NEW c \in StepUpCalls, NEW a \in Accesses, NEW t \in Terms, NEW x \in Challenges,
             ReadApproved(c, a, t, x)
      PROVE  rows' /\ CallsInv' /\ OneSigner'
  <2> DEFINE r == [IdleCall EXCEPT !.pc = "consume", !.x = x,
                                   !.ask = [access |-> a, terms |-> t]]
  <2>1. r.pc = "consume" /\ r.x = x /\ r.ask = ch[x].ask /\ UNCHANGED ch
    BY <1>6 DEF ReadApproved, IdleCall
  <2>2. ch[x].status # "absent"
    BY <1>6 DEF ReadApproved, effectiveStatus
  <2>3. Good(r)'
    BY <2>1, <2>2 DEF Good
  <2>4. call' = [call EXCEPT ![c] = r]
    BY <1>6 DEF ReadApproved
  <2> HIDE DEF r
  <2> QED BY <1>6, <1>a, <1>K, <2>1, <2>3, <2>4, CallMoves DEF ReadApproved
<1>7. ASSUME NEW c \in StepUpCalls, Consume(c) PROVE rows' /\ CallsInv' /\ OneSigner'
  <2>1. CASE Finish(c) /\ UNCHANGED ch
    BY <1>7, <1>a, <1>f, <2>1 DEF Consume
  <2>2. CASE ch[call[c].x].status = "approved" /\ SetStatus(call[c].x, "consumed")
             /\ Goto(c, "sign")
    <3>1. PICK x \in Challenges : x = call[c].x
      BY <1>7, <1>x DEF Consume, Pcs
    <3>2. PICK r : r = [call[c] EXCEPT !.pc = "sign"]
      OBVIOUS
    <3>3. call[c].ask = ch[x].ask
      BY <1>7, <3>1 DEF Consume, IInv, CallsInv, Good
    <3>4. approvals[x] = <<>> /\ approvals' = approvals
      BY <1>7, <2>2, <3>1 DEF Consume, IInv, RowInv
    <3>5. /\ ch'[x].status = "consumed" /\ ch'[x].ask = ch[x].ask
          /\ ch'[x].method = ch[x].method /\ ch'[x].master = ch[x].master
          /\ ch'[x].by = ch[x].by
      BY <1>T, <2>2, <3>1 DEF SetStatus, TypeOK, Challenge
    <3>6. r.pc = "sign" /\ r.x = x /\ r.ask = ch[x].ask
      BY <1>T, <3>1, <3>2, <3>3 DEF TypeOK, Call
    <3>7. Good(r)'
      BY <3>4, <3>5, <3>6 DEF Good
    <3>8. \A d \in StepUpCalls : ~(call[d].pc = "sign" /\ call[d].x = x)
      BY <2>2, <3>1 DEF IInv, CallsInv, Good
    <3>9. call' = [call EXCEPT ![c] = r]
      BY <2>2, <3>2 DEF Goto
    <3>10. CallsInv' /\ OneSigner'
      BY <1>K, <3>4, <3>6, <3>7, <3>8, <3>9, CallMoves
    <3>11. RowInv(x)'
      BY <2>2, <3>1, <3>4, <3>5 DEF IInv, RowInv, Proven, User
    <3>12. \A y \in Challenges \ {x} : ch'[y] = ch[y]
      BY <1>T, <2>2, <3>1 DEF SetStatus, TypeOK
    <3> QED BY <1>r, <3>4, <3>10, <3>11, <3>12
  <2> QED BY <1>7, <2>1, <2>2 DEF Consume
<1>8. ASSUME NEW c \in StepUpCalls, Sign(c) PROVE rows' /\ CallsInv' /\ OneSigner'
  <2>1. PICK x \in Challenges : x = call[c].x
    BY <1>8, <1>x DEF Sign, Pcs
  <2>2. ch[x].status = "consumed" /\ call[c].ask = ch[x].ask /\ approvals[x] = <<>>
    BY <1>8, <2>1 DEF Sign, IInv, CallsInv, Good
  <2>3. approvals' = [approvals EXCEPT ![x] = Append(approvals[x], call[c].ask)]
        /\ UNCHANGED ch
    BY <1>8, <2>1 DEF Sign
  <2>4. approvals'[x] = <<ch[x].ask>>
    BY <1>T, <2>2, <2>3 DEF TypeOK
  <2>5. \A y \in Challenges \ {x} : approvals'[y] = approvals[y]
    BY <1>T, <2>3 DEF TypeOK
  <2>6. RowInv(x)'
    BY <2>2, <2>3, <2>4 DEF IInv, RowInv, Proven, User
  <2>7. IdleCall.pc # "sign"
    BY DEF IdleCall
  <2>8. CallsInv' /\ OneSigner'
    BY <1>8, <1>i, <1>K, <2>1, <2>5, <2>7, CallMoves DEF Sign, Finish
  <2> QED BY <1>r, <2>3, <2>5, <2>6, <2>8
<1>9. ASSUME NEW c \in StepUpCalls, NEW u \in Users, NEW x \in Challenges,
             \/ StartMasterApproval(c, u, x) \/ StartBiometricApproval(c, u, x)
             \/ StartDenial(c, u, x)
      PROVE  rows' /\ CallsInv' /\ OneSigner'
  <2>1. ASSUME NEW pc, NEW p, ReadPending(c, u, x, pc, p),
               pc \in {"deny", "verify"},
               pc = "verify" /\ ch[x].method = "biometric" => PadReady
        PROVE  rows' /\ CallsInv' /\ OneSigner'
    <3>1. PICK r : r = [IdleCall EXCEPT !.pc = pc, !.x = x, !.proof = p]
      OBVIOUS
    <3>2. r.pc = pc /\ r.x = x
      BY <3>1 DEF IdleCall
    <3>3. ch[x].status # "absent" /\ UNCHANGED <<ch, approvals>>
      BY <2>1 DEF ReadPending, effectiveStatus
    <3>4. Good(r)'
      BY <2>1, <3>2, <3>3 DEF Good
    <3>5. call' = [call EXCEPT ![c] = r]
      BY <2>1, <3>1 DEF ReadPending
    <3> QED BY <1>a, <1>K, <2>1, <3>2, <3>3, <3>4, <3>5, CallMoves
  <2>2. CASE StartMasterApproval(c, u, x)
    <3>1. PICK p \in Signature : ReadPending(c, u, x, "verify", p)
      BY <2>2 DEF StartMasterApproval
    <3>2. ch[x].method # "biometric"
      BY <2>2 DEF StartMasterApproval
    <3> QED BY <2>1, <3>1, <3>2
  <2>3. CASE StartBiometricApproval(c, u, x)
    <3>1. PICK p \in Face : ReadPending(c, u, x, "verify", p)
      BY <2>3 DEF StartBiometricApproval
    <3> QED BY <2>1, <2>3, <3>1 DEF StartBiometricApproval
  <2>4. CASE StartDenial(c, u, x)
    <3>1. PICK p : ReadPending(c, u, x, "deny", p)
      BY <2>4 DEF StartDenial
    <3> QED BY <2>1, <3>1
  <2> QED BY <1>9, <2>2, <2>3, <2>4
<1>10. ASSUME NEW c \in StepUpCalls, Verify(c) PROVE rows' /\ CallsInv' /\ OneSigner'
  <2>1. call[c].x \in Challenges /\ ch[call[c].x].status # "absent"
        /\ (ch[call[c].x].method = "biometric" => PadReady)
    BY <1>10, <1>x DEF Verify, Pcs, IInv, CallsInv, Good
  <2>2. ASSUME Goto(c, "approve"), Verified(call[c].x, call[c].proof)
        PROVE  CallsInv' /\ OneSigner'
    <3>1. PICK r : r = [call[c] EXCEPT !.pc = "approve"]
      OBVIOUS
    <3>2. r.pc = "approve" /\ r.x = call[c].x /\ r.proof = call[c].proof
      BY <1>T, <3>1 DEF TypeOK, Call
    <3>3. ch[r.x].method \in Methods
      BY <2>1, <3>2 DEF IInv, RowInv
    <3>4. Proven(r.x, r.proof.from)
      BY <2>1, <2>2, <3>2, <3>3 DEF Verified, Proven, Methods
    <3>5. UNCHANGED <<ch, approvals>>
      BY <1>10 DEF Verify
    <3>6. Good(r)'
      BY <2>1, <3>2, <3>4, <3>5 DEF Good, Proven, User
    <3> QED BY <1>g, <2>2, <3>1, <3>5, <3>6
  <2>3. ASSUME Goto(c, "fail") PROVE CallsInv' /\ OneSigner'
    <3>1. PICK r : r = [call[c] EXCEPT !.pc = "fail"]
      OBVIOUS
    <3>2. r.pc = "fail" /\ r.x = call[c].x
      BY <1>T, <3>1 DEF TypeOK, Call
    <3>3. UNCHANGED <<ch, approvals>>
      BY <1>10 DEF Verify
    <3>4. Good(r)'
      BY <2>1, <3>2, <3>3 DEF Good
    <3> QED BY <1>g, <2>3, <3>1, <3>3, <3>4
  <2> QED BY <1>10, <1>a, <1>f, <2>2, <2>3 DEF Verify
<1>11. ASSUME NEW c \in StepUpCalls, CountFailure(c) PROVE rows' /\ CallsInv' /\ OneSigner'
  <2>1. PICK x \in Challenges : x = call[c].x /\ ch[x].status # "absent"
    BY <1>11, <1>x DEF CountFailure, Pcs
  <2>2. /\ ch'[x].status = ch[x].status /\ ch'[x].ask = ch[x].ask
        /\ ch'[x].method = ch[x].method /\ ch'[x].master = ch[x].master
        /\ ch'[x].by = ch[x].by
    <3>1. CASE UNCHANGED ch
      BY <3>1
    <3>2. CASE ch' = [ch EXCEPT ![x].attempts = @ + 1]
      BY <1>T, <3>2 DEF TypeOK, Challenge
    <3> QED BY <1>11, <2>1, <3>1, <3>2 DEF CountFailure
  <2>3. RowInv(x)'
    BY <1>11, <2>2 DEF CountFailure, IInv, RowInv, Proven, User
  <2>4. \A y \in Challenges \ {x} : ch'[y] = ch[y]
    BY <1>11, <1>T, <2>1 DEF CountFailure, TypeOK
  <2>5. PICK r : r = [call[c] EXCEPT !.pc = "limit"]
    OBVIOUS
  <2>6. r.pc = "limit" /\ r.x = x
    BY <1>T, <2>1, <2>5 DEF TypeOK, Call
  <2>7. Good(r)'
    BY <2>1, <2>2, <2>6 DEF Good
  <2> QED BY <1>11, <1>g, <1>r, <2>3, <2>4, <2>5, <2>7 DEF CountFailure
<1>12. ASSUME NEW c \in StepUpCalls, ApplyLimit(c) \/ Deny(c)
       PROVE  rows' /\ CallsInv' /\ OneSigner'
  <2>1. call[c].x \in Challenges
    BY <1>12, <1>x DEF ApplyLimit, Deny, Pcs
  <2> QED BY <1>12, <1>a, <1>f, <1>s, <2>1 DEF ApplyLimit, Deny
<1>13. ASSUME NEW c \in StepUpCalls, MarkApproved(c) PROVE rows' /\ CallsInv' /\ OneSigner'
  <2>1. PICK x \in Challenges : x = call[c].x
    BY <1>13, <1>x DEF MarkApproved, Pcs
  <2>2. CASE UNCHANGED ch
    BY <1>13, <1>a, <1>f, <2>2 DEF MarkApproved
  <2>3. CASE /\ ch[x].status = "pending"
             /\ ch' = [ch EXCEPT ![x] = [@ EXCEPT !.status = "approved",
                                                  !.by = call[c].proof.from]]
    <3>1. /\ ch'[x].status = "approved" /\ ch'[x].ask = ch[x].ask
          /\ ch'[x].method = ch[x].method /\ ch'[x].master = ch[x].master
          /\ ch'[x].by = call[c].proof.from
      BY <1>T, <2>3 DEF TypeOK, Challenge
    <3>2. Proven(x, call[c].proof.from)
      BY <1>13, <2>1 DEF MarkApproved, IInv, CallsInv, Good
    <3>3. RowInv(x)'
      BY <1>13, <2>3, <3>1, <3>2 DEF MarkApproved, IInv, RowInv, Proven, User
    <3>4. \A y \in Challenges \ {x} : ch'[y] = ch[y]
      BY <1>T, <2>3 DEF TypeOK
    <3> QED BY <1>13, <1>f, <1>r, <3>3, <3>4 DEF MarkApproved
  <2> QED BY <1>13, <2>1, <2>2, <2>3 DEF MarkApproved
<1>14. ASSUME UNCHANGED <<ch, call, approvals>> PROVE rows' /\ CallsInv' /\ OneSigner'
  BY <1>14, <1>a, <1>c
<1>15. ASSUME NEW c \in StepUpCalls, Crash(c) PROVE rows' /\ CallsInv' /\ OneSigner'
  BY <1>15, <1>a, <1>f DEF Crash
<1>16. ASSUME NEW c \in RpCalls, RpStep(c) PROVE rows' /\ CallsInv' /\ OneSigner'
  BY <1>16, <1>1, <1>2, <1>3, <1>4, <1>5, <1>6, <1>7, <1>8 DEF RpStep, StepUpCalls
<1>17. ASSUME NEW c \in SubjectCalls, SubjectStep(c) PROVE rows' /\ CallsInv' /\ OneSigner'
  BY <1>17, <1>9, <1>10, <1>11, <1>12, <1>13 DEF SubjectStep, StepUpCalls
<1>18. rows' /\ CallsInv' /\ OneSigner'
  BY <1>14, <1>15, <1>16, <1>17 DEF Next, Expire, RevokeKey, vars
<1> QED BY <1>T, <1>18 DEF IInv

-----------------------------------------------------------------------------
(* The invariant holds throughout.                                          *)
THEOREM Invariance == Spec => []IInv
<1> QED BY InitIInv, NextIInv, PTL DEF Spec

(* Every variable of step-up stays in its domain.                           *)
THEOREM TypeCorrect == Spec => []TypeOK
<1>1. IInv => TypeOK
  BY DEF IInv
<1> QED BY <1>1, Invariance, PTL

(* Nothing is approved but by the bound Master Device or, with PAD, by the  *)
(* subject's face.                                                          *)
THEOREM ApprovalsAreProven == Spec => []ApprovalIsProven
<1>1. IInv => ApprovalIsProven
  <2> SUFFICES ASSUME IInv, NEW x \in Challenges, ch[x].status \in {"approved", "consumed"}
               PROVE  \/ /\ ch[x].method = "master_device"
                         /\ ch[x].by = ch[x].master
                         /\ KeyOwner[ch[x].by] = User(x)
                      \/ /\ ch[x].method = "biometric"
                         /\ ch[x].by = User(x)
                         /\ PadReady
    BY DEF ApprovalIsProven
  <2> QED BY DEF IInv, RowInv, Proven
<1> QED BY <1>1, Invariance, PTL

-----------------------------------------------------------------------------
(* The contract *)

(* Every step of step-up is a step of OneTimeApproval or changes nothing in *)
(* it, so a challenge is approved and consumed at most once, never late,    *)
(* and yields at most one signed approval, for the ask it was created for.  *)
THEOREM ContractKept == Spec => KeepsContract
<1>1. Init => Contract!Init
  BY DEF Init, Contract!Init, Promise, NoChallenge
<1>2. IInv /\ [Next]_vars => [Contract!Next]_Contract!vars
  <2> SUFFICES ASSUME IInv, [Next]_vars PROVE [Contract!Next]_Contract!vars
    OBVIOUS
  <2>T. TypeOK /\ CallsInv
    BY DEF IInv
  <2>x. ASSUME NEW c \in StepUpCalls, call[c].pc \in Pcs \ {"idle", "enrolled", "insert"}
        PROVE  call[c].x \in Challenges
    BY <2>x, <2>T DEF CallsInv, Good
  <2>u. ASSUME UNCHANGED <<ch, expired, approvals>> PROVE UNCHANGED Contract!vars
    BY <2>u DEF Contract!vars
  <2>m. ASSUME NEW x \in Challenges, NEW r \in Challenge, ch' = [ch EXCEPT ![x] = r],
               r.ask = ch[x].ask, UNCHANGED <<expired, approvals>>
        PROVE  /\ \A from : Promise(ch[x].status) \in from
                             => Contract!Move(x, from, Promise(r.status))
               /\ [y \in Challenges |-> ch[y].ask]' = [y \in Challenges |-> ch[y].ask]
               /\ r.status = ch[x].status => UNCHANGED Contract!vars
    <3>1. \A y \in Challenges : ch'[y] = IF y = x THEN r ELSE ch[y]
      BY <2>m, <2>T DEF TypeOK
    <3>2. [y \in Challenges |-> Promise(ch[y].status)]'
            = [[y \in Challenges |-> Promise(ch[y].status)] EXCEPT ![x] = Promise(r.status)]
      BY <3>1
    <3>3. [y \in Challenges |-> ch[y].ask]' = [y \in Challenges |-> ch[y].ask]
      BY <3>1, <2>m
    <3>4. ASSUME NEW from, Promise(ch[x].status) \in from
          PROVE  Contract!Move(x, from, Promise(r.status))
      BY <3>2, <3>4 DEF Contract!Move
    <3>5. ASSUME r.status = ch[x].status PROVE UNCHANGED Contract!vars
      BY <2>m, <3>1, <3>3, <3>5 DEF Contract!vars
    <3> QED BY <3>3, <3>4, <3>5
  <2>s. ASSUME NEW x \in Challenges, NEW s \in {"denied", "cancelled"}, SetStatus(x, s),
               ch[x].status \in {"pending", "approved"}, UNCHANGED <<expired, approvals>>
        PROVE  Contract!Next
    <3>1. PICK r : r = [ch[x] EXCEPT !.status = s]
      OBVIOUS
    <3>2. r \in Challenge /\ r.status = s /\ r.ask = ch[x].ask
      BY <2>T, <3>1 DEF TypeOK, Challenge, Statuses
    <3>3. ch' = [ch EXCEPT ![x] = r]
      BY <2>s, <3>1 DEF SetStatus
    <3>4. Contract!Close(x)
      BY <2>m, <2>s, <3>2, <3>3 DEF Contract!Close, Promise
    <3> QED BY <3>4 DEF Contract!Next
  <2>1. ASSUME NEW c \in StepUpCalls, Insert(c) PROVE Contract!Next
    <3>1. PICK x \in Challenges :
            /\ ch[x].status = "absent"
            /\ ch' = [ch EXCEPT ![x] = [status |-> "pending", ask |-> call[c].ask,
                                        method |-> call[c].method, master |-> call[c].key,
                                        attempts |-> 0, by |-> None]]
      BY <2>1 DEF Insert
    <3>2. call[c].ask \in Asks
      BY <2>1, <2>T DEF Insert, CallsInv, Good
    <3>3. \A y \in Challenges \ {x} : ch'[y] = ch[y]
      BY <2>T, <3>1 DEF TypeOK
    <3>4. ch'[x].status = "pending" /\ ch'[x].ask = call[c].ask
      BY <2>T, <3>1 DEF TypeOK
    <3>5. [y \in Challenges |-> Promise(ch[y].status)]'
            = [[y \in Challenges |-> Promise(ch[y].status)] EXCEPT ![x] = "asked"]
      BY <3>3, <3>4 DEF Promise
    <3>6. [y \in Challenges |-> ch[y].ask]'
            = [[y \in Challenges |-> ch[y].ask] EXCEPT ![x] = call[c].ask]
      BY <3>3, <3>4
    <3>7. Promise(ch[x].status) = "none" /\ UNCHANGED <<expired, approvals>>
      BY <2>1, <3>1 DEF Insert, Promise
    <3>8. PICK a \in Asks : a = call[c].ask
      BY <3>2
    <3>9. Contract!Ask(x, a)
      BY <3>5, <3>6, <3>7, <3>8 DEF Contract!Ask, Contract!Move
    <3> QED BY <3>9 DEF Contract!Next
  <2>2. ASSUME NEW c \in StepUpCalls, Consume(c) PROVE [Contract!Next]_Contract!vars
    <3>1. CASE UNCHANGED ch
      BY <2>2, <2>u, <3>1 DEF Consume
    <3>2. CASE /\ ch[call[c].x].status = "approved" /\ call[c].x \notin expired
               /\ SetStatus(call[c].x, "consumed")
      <4>1. PICK x \in Challenges : x = call[c].x
        BY <2>2, <2>x DEF Consume, Pcs
      <4>2. PICK r : r = [ch[x] EXCEPT !.status = "consumed"]
        OBVIOUS
      <4>3. r \in Challenge /\ r.status = "consumed" /\ r.ask = ch[x].ask
        BY <2>T, <4>2 DEF TypeOK, Challenge, Statuses
      <4>4. ch' = [ch EXCEPT ![x] = r]
        BY <3>2, <4>1, <4>2 DEF SetStatus
      <4>5. Contract!Redeem(x)
        BY <2>2, <2>m, <3>2, <4>1, <4>3, <4>4 DEF Consume, Contract!Redeem, Promise
      <4> QED BY <4>5 DEF Contract!Next
    <3> QED BY <2>2, <3>1, <3>2 DEF Consume
  <2>3. ASSUME NEW c \in StepUpCalls, Sign(c) PROVE Contract!Next
    <3>1. PICK x \in Challenges : x = call[c].x
      BY <2>3, <2>x DEF Sign, Pcs
    <3>2. ch[x].status = "consumed" /\ call[c].ask = ch[x].ask /\ approvals[x] = <<>>
      BY <2>3, <2>T, <3>1 DEF Sign, CallsInv, Good
    <3>3. approvals' = [approvals EXCEPT ![x] = <<ch[x].ask>>]
      BY <2>3, <2>T, <3>1, <3>2 DEF Sign, TypeOK
    <3>4. Contract!Deliver(x)
      BY <2>3, <3>2, <3>3 DEF Sign, Contract!Deliver, Promise
    <3> QED BY <3>4 DEF Contract!Next
  <2>4. ASSUME NEW c \in StepUpCalls, CountFailure(c) PROVE [Contract!Next]_Contract!vars
    <3>1. CASE UNCHANGED ch
      BY <2>4, <2>u, <3>1 DEF CountFailure
    <3>2. CASE ch' = [ch EXCEPT ![call[c].x].attempts = @ + 1]
      <4>1. PICK x \in Challenges : x = call[c].x
        BY <2>4, <2>x DEF CountFailure, Pcs
      <4>2. \A y \in Challenges : ch'[y].status = ch[y].status /\ ch'[y].ask = ch[y].ask
        BY <2>T, <3>2, <4>1 DEF TypeOK, Challenge
      <4> QED BY <2>4, <4>2 DEF CountFailure, Contract!vars
    <3> QED BY <2>4, <3>1, <3>2 DEF CountFailure
  <2>5. ASSUME NEW c \in StepUpCalls, ApplyLimit(c) \/ Deny(c) PROVE [Contract!Next]_Contract!vars
    BY <2>5, <2>s, <2>u, <2>x DEF ApplyLimit, Deny, Pcs
  <2>6. ASSUME NEW c \in StepUpCalls, MarkApproved(c) PROVE [Contract!Next]_Contract!vars
    <3>1. CASE UNCHANGED ch
      BY <2>6, <2>u, <3>1 DEF MarkApproved
    <3>2. CASE /\ ch[call[c].x].status = "pending" /\ call[c].x \notin expired
               /\ ch' = [ch EXCEPT ![call[c].x] = [@ EXCEPT !.status = "approved",
                                                            !.by = call[c].proof.from]]
      <4>1. PICK x \in Challenges : x = call[c].x
        BY <2>6, <2>x DEF MarkApproved, Pcs
      <4>2. \A y \in Challenges :
              /\ ch'[y].ask = ch[y].ask
              /\ ch'[y].status = IF y = x THEN "approved" ELSE ch[y].status
        BY <2>T, <3>2, <4>1 DEF TypeOK, Challenge
      <4>3. [y \in Challenges |-> Promise(ch[y].status)]'
              = [[y \in Challenges |-> Promise(ch[y].status)] EXCEPT ![x] = "granted"]
        BY <4>2 DEF Promise
      <4>4. [y \in Challenges |-> ch[y].ask]' = [y \in Challenges |-> ch[y].ask]
        BY <4>2
      <4>5. Contract!Grant(x)
        BY <2>6, <3>2, <4>1, <4>3, <4>4 DEF MarkApproved, Contract!Grant, Contract!Move, Promise
      <4> QED BY <4>5 DEF Contract!Next
    <3> QED BY <2>6, <3>1, <3>2 DEF MarkApproved
  <2>7. ASSUME NEW x \in Challenges, Expire(x) PROVE Contract!Next
    <3>1. Promise(ch[x].status) # "none"
      BY <2>7, <2>T DEF Expire, Promise, TypeOK, Challenge, Statuses
    <3>2. Contract!Lapse(x)
      BY <2>7, <3>1 DEF Expire, Contract!Lapse
    <3> QED BY <3>2 DEF Contract!Next
  <2>8. ASSUME NEW c \in RpCalls, RpStep(c) PROVE [Contract!Next]_Contract!vars
    BY <2>8, <2>1, <2>2, <2>3, <2>s, <2>u
    DEF RpStep, CountOpen, CheckEnrolled, InsertThrows, Cancel, ReadApproved, StepUpCalls
  <2>9. ASSUME NEW c \in SubjectCalls, SubjectStep(c) PROVE [Contract!Next]_Contract!vars
    BY <2>9, <2>4, <2>5, <2>6, <2>u
    DEF SubjectStep, StartMasterApproval, StartBiometricApproval, StartDenial, ReadPending,
        Verify, StepUpCalls
  <2> QED
    BY <2>7, <2>8, <2>9, <2>u DEF Next, Crash, RevokeKey, vars
<1> QED BY <1>1, <1>2, Invariance, PTL DEF Spec, KeepsContract, Contract!Spec

(* A challenge that was refused, cancelled or redeemed stays so, and none   *)
(* is approved or consumed once its time is over (the conditional updates   *)
(* of markApproved, consumeStepUpChallenge, deny and cancel).               *)
SettledForGood ==
  [][\A x \in Challenges :
       /\ ch[x].status \in {"denied", "cancelled", "consumed"} =>
            Promise(ch'[x].status) = Promise(ch[x].status)
       /\ x \in expired /\ ch'[x].status \in {"approved", "consumed"} =>
            ch'[x].status = ch[x].status]_vars

(* Read off OneTimeApproval, which step-up implements.                      *)
THEOREM SettledStays == Spec => SettledForGood
<1> DEFINE Forward(x) ==
             /\ Promise(ch[x].status) \in {"closed", "redeemed"} =>
                  Promise(ch'[x].status) = Promise(ch[x].status)
             /\ x \in expired /\ Promise(ch'[x].status) \in {"granted", "redeemed"} =>
                  Promise(ch'[x].status) = Promise(ch[x].status)
<1>1. ASSUME [Contract!Next]_Contract!vars, NEW x \in Challenges PROVE Forward(x)
  <2>1. ASSUME NEW y \in Challenges,
               \/ \E a \in Asks : Contract!Ask(y, a)
               \/ Contract!Grant(y) \/ Contract!Close(y) \/ Contract!Redeem(y)
        PROVE  Forward(x)
    <3>1. CASE x = y
      BY <2>1, <3>1
      DEF Contract!Ask, Contract!Grant, Contract!Close, Contract!Redeem, Contract!Move
    <3>2. CASE x # y
      BY <2>1, <3>2
      DEF Contract!Ask, Contract!Grant, Contract!Close, Contract!Redeem, Contract!Move
    <3> QED BY <3>1, <3>2
  <2>2. ASSUME NEW y \in Challenges, Contract!Deliver(y) \/ Contract!Lapse(y) PROVE Forward(x)
    BY <2>2 DEF Contract!Deliver, Contract!Lapse
  <2>3. CASE UNCHANGED Contract!vars
    BY <2>3 DEF Contract!vars
  <2> QED BY <1>1, <2>1, <2>2, <2>3 DEF Contract!Next
<1>2. ASSUME TypeOK, TypeOK', NEW x \in Challenges, Forward(x)
      PROVE  /\ ch[x].status \in {"denied", "cancelled", "consumed"} =>
                  Promise(ch'[x].status) = Promise(ch[x].status)
             /\ x \in expired /\ ch'[x].status \in {"approved", "consumed"} =>
                  ch'[x].status = ch[x].status
  <2>1. ch[x].status \in Statuses \cup {"absent"} /\ ch'[x].status \in Statuses \cup {"absent"}
    BY <1>2 DEF TypeOK, Challenge
  <2> QED BY <1>2, <2>1 DEF Promise, Statuses
<1>3. TypeOK /\ TypeOK' /\ [Contract!Next]_Contract!vars =>
        \A x \in Challenges :
          /\ ch[x].status \in {"denied", "cancelled", "consumed"} =>
               Promise(ch'[x].status) = Promise(ch[x].status)
          /\ x \in expired /\ ch'[x].status \in {"approved", "consumed"} =>
               ch'[x].status = ch[x].status
  BY <1>1, <1>2
<1> QED BY <1>3, ContractKept, TypeCorrect, PTL DEF KeepsContract, Contract!Spec, SettledForGood

-----------------------------------------------------------------------------
(* The limits *)

Creating(f) == f.pc \in {"enrolled", "insert"}

(* Calls that counted a wrong answer to x and have not applied the limit.   *)
Limiting(x) == {c \in SubjectCalls : call[c].pc = "limit" /\ call[c].x = x}

(* A wrong answer is counted ahead of the limit only by calls that still    *)
(* have to apply it, or died before they did.                               *)
AttemptsInv ==
  \A x \in Challenges :
    /\ ch[x].status = "pending" =>
         ch[x].attempts < MaxFailedAttempts + Cardinality(Limiting(x)) + crashes
    /\ ch[x].attempts < MaxFailedAttempts + Cardinality(SubjectCalls) + crashes

OpenInv == OpenBounded /\ \A a \in Accesses : IsFiniteSet(Open(a))

FiniteCalls == /\ IsFiniteSet(RpCalls) /\ IsFiniteSet(SubjectCalls)
               /\ RpCalls # {} /\ MaxFailedAttempts # 0

LEMMA CallSets ==
  ASSUME FiniteCalls
  PROVE  /\ Cardinality(RpCalls) \in Nat \ {0} /\ Cardinality(SubjectCalls) \in Nat
         /\ \A a : /\ IsFiniteSet(Counting(a)) /\ Cardinality(Counting(a)) \in Nat
                   /\ Cardinality(Counting(a)) <= Cardinality(RpCalls)
         /\ \A x : /\ IsFiniteSet(Limiting(x)) /\ Cardinality(Limiting(x)) \in Nat
                   /\ Cardinality(Limiting(x)) <= Cardinality(SubjectCalls)
<1> USE DEF FiniteCalls
<1>1. Cardinality(RpCalls) \in Nat \ {0} /\ Cardinality(SubjectCalls) \in Nat
  BY FS_CardinalityType, FS_EmptySet
<1>2. ASSUME NEW a
      PROVE  /\ IsFiniteSet(Counting(a)) /\ Cardinality(Counting(a)) \in Nat
             /\ Cardinality(Counting(a)) <= Cardinality(RpCalls)
  <2>1. Counting(a) \subseteq RpCalls
    BY DEF Counting
  <2> QED BY <2>1, FS_Subset, FS_CardinalityType
<1>3. ASSUME NEW x
      PROVE  /\ IsFiniteSet(Limiting(x)) /\ Cardinality(Limiting(x)) \in Nat
             /\ Cardinality(Limiting(x)) <= Cardinality(SubjectCalls)
  <2>1. Limiting(x) \subseteq SubjectCalls
    BY DEF Limiting
  <2> QED BY <2>1, FS_Subset, FS_CardinalityType
<1> QED BY <1>1, <1>2, <1>3

(* The same in the next state.                                              *)
LEMMA CallSetsNext ==
  ASSUME FiniteCalls
  PROVE  /\ \A a : /\ IsFiniteSet(Counting(a)') /\ Cardinality(Counting(a)') \in Nat
                   /\ Cardinality(Counting(a)') <= Cardinality(RpCalls)
         /\ \A x : /\ IsFiniteSet(Limiting(x)') /\ Cardinality(Limiting(x)') \in Nat
                   /\ Cardinality(Limiting(x)') <= Cardinality(SubjectCalls)
<1> USE DEF FiniteCalls
<1>2. ASSUME NEW a
      PROVE  /\ IsFiniteSet(Counting(a)') /\ Cardinality(Counting(a)') \in Nat
             /\ Cardinality(Counting(a)') <= Cardinality(RpCalls)
  <2>1. Counting(a)' \subseteq RpCalls
    BY DEF Counting
  <2> QED BY <2>1, FS_Subset, FS_CardinalityType
<1>3. ASSUME NEW x
      PROVE  /\ IsFiniteSet(Limiting(x)') /\ Cardinality(Limiting(x)') \in Nat
             /\ Cardinality(Limiting(x)') <= Cardinality(SubjectCalls)
  <2>1. Limiting(x)' \subseteq SubjectCalls
    BY DEF Limiting
  <2> QED BY <2>1, FS_Subset, FS_CardinalityType
<1> QED BY <1>2, <1>3

(* Where no challenge is opened anew and no create begins, the cap holds on. *)
NothingOpened ==
  /\ expired \subseteq expired'
  /\ \A x \in Challenges : ch'[x].status = "pending" => ch[x].status = "pending"

NothingBegun(calls) ==
  \A c \in calls : Creating(call'[c]) => Creating(call[c]) /\ call'[c].ask = call[c].ask

LEMMA OpenShrinks ==
  ASSUME Kept, NothingOpened, NEW a PROVE Open(a)' \subseteq Open(a)
BY DEF Open, NothingOpened, Kept, effectiveStatus, User

LEMMA CountingShrinks ==
  ASSUME NothingBegun(RpCalls), NEW a PROVE Counting(a)' \subseteq Counting(a)
BY DEF NothingBegun, Creating, Counting

LEMMA OpenKept ==
  ASSUME FiniteCalls, Kept, OpenInv, NothingOpened, NothingBegun(RpCalls)
  PROVE  OpenInv'
<1>1. ASSUME NEW a \in Accesses
      PROVE  /\ IsFiniteSet(Open(a)')
             /\ Cardinality(Open(a)') + Cardinality(Counting(a)')
                  <= MaxPending + Cardinality(RpCalls) - 1
  <2>1. Open(a)' \subseteq Open(a) /\ Counting(a)' \subseteq Counting(a)
    BY OpenShrinks, CountingShrinks
  <2>2. IsFiniteSet(Open(a)) /\ IsFiniteSet(Counting(a))
    BY CallSets DEF OpenInv
  <2>3. /\ IsFiniteSet(Open(a)') /\ Cardinality(Open(a)') <= Cardinality(Open(a))
        /\ Cardinality(Counting(a)') <= Cardinality(Counting(a))
    BY <2>1, <2>2, FS_Subset
  <2>4. /\ Cardinality(Open(a)) \in Nat /\ Cardinality(Open(a)') \in Nat
        /\ Cardinality(Counting(a)) \in Nat /\ Cardinality(Counting(a)') \in Nat
    BY <2>2, <2>3, CallSets, CallSetsNext, FS_CardinalityType
  <2>5. Cardinality(Open(a)) + Cardinality(Counting(a)) <= MaxPending + Cardinality(RpCalls) - 1
    BY DEF OpenInv, OpenBounded
  <2> QED BY <2>3, <2>4, <2>5, CallSets, ConstantsAssumption
<1> QED BY <1>1 DEF OpenInv, OpenBounded

(* Where no wrong answer is counted and nobody leaves the limit, the limit  *)
(* on attempts holds on.                                                    *)
NothingCounted ==
  \A x \in Challenges :
    \/ ch'[x].attempts = 0
    \/ /\ ch'[x].attempts = ch[x].attempts
       /\ ch'[x].status = "pending" => ch[x].status = "pending"

LEMMA AttemptsKept ==
  ASSUME FiniteCalls, TypeOK, AttemptsInv, NothingCounted, crashes' = crashes,
         \A c \in SubjectCalls : call[c].pc = "limit" => call'[c] = call[c]
  PROVE  AttemptsInv'
<1>1. ASSUME NEW x \in Challenges
      PROVE  Cardinality(Limiting(x)) <= Cardinality(Limiting(x)')
  <2>1. Limiting(x) \subseteq Limiting(x)'
    BY DEF Limiting
  <2> QED BY <2>1, CallSetsNext, FS_Subset
<1>2. \A x \in Challenges : ch[x].attempts \in Nat
  BY DEF TypeOK, Challenge
<1>3. crashes \in Nat /\ MaxFailedAttempts \in Nat \ {0}
  BY ConstantsAssumption DEF TypeOK, FiniteCalls
<1>4. ASSUME NEW x \in Challenges
      PROVE  /\ ch'[x].status = "pending" =>
                  ch'[x].attempts < MaxFailedAttempts + Cardinality(Limiting(x)') + crashes'
             /\ ch'[x].attempts < MaxFailedAttempts + Cardinality(SubjectCalls) + crashes'
  <2>1. CASE ch'[x].attempts = 0
    BY <1>3, <2>1, CallSets, CallSetsNext
  <2>2. CASE /\ ch'[x].attempts = ch[x].attempts
             /\ ch'[x].status = "pending" => ch[x].status = "pending"
    BY <1>1, <1>2, <1>3, <2>2, CallSets, CallSetsNext DEF AttemptsInv
  <2> QED BY <2>1, <2>2 DEF NothingCounted
<1> QED BY <1>4 DEF AttemptsInv

LEMMA NextLimits ==
  ASSUME FiniteCalls, IInv, OpenInv, AttemptsInv, [Next]_vars
  PROVE  OpenInv' /\ AttemptsInv'
<1>T. TypeOK /\ TypeOK' /\ Kept
  BY NextType, NextKept DEF IInv
<1>x. ASSUME NEW c \in StepUpCalls, call[c].pc \in Pcs \ {"idle", "enrolled", "insert"}
      PROVE  call[c].x \in Challenges
  BY <1>x DEF IInv, CallsInv, Good
<1>N. /\ MaxFailedAttempts \in Nat \ {0} /\ MaxPending \in Nat /\ crashes \in Nat
      /\ \A x \in Challenges : ch[x].attempts \in Nat
  BY <1>T, ConstantsAssumption DEF TypeOK, Challenge, FiniteCalls
<1>i. IdleCall.pc = "idle"
  BY DEF IdleCall
<1>u. ASSUME UNCHANGED <<ch, expired>> PROVE NothingOpened /\ NothingCounted
  BY <1>u DEF NothingOpened, NothingCounted
<1>s. ASSUME NEW x \in Challenges, NEW s, SetStatus(x, s), s # "pending", UNCHANGED expired
      PROVE  NothingOpened /\ NothingCounted
  <2>1. \A y \in Challenges : /\ ch'[y].attempts = ch[y].attempts
                              /\ ch'[y].status = IF y = x THEN s ELSE ch[y].status
    BY <1>s, <1>T DEF SetStatus, TypeOK, Challenge
  <2> QED BY <1>s, <2>1 DEF NothingOpened, NothingCounted
<1>m. ASSUME NEW c \in StepUpCalls, NEW r, call' = [call EXCEPT ![c] = r], call[c].pc # "limit",
             Creating(r) => Creating(call[c]) /\ r.ask = call[c].ask,
             NothingOpened, NothingCounted, crashes' = crashes
      PROVE  OpenInv' /\ AttemptsInv'
  <2>1. \A d \in StepUpCalls : call'[d] = IF d = c THEN r ELSE call[d]
    BY <1>m, <1>T DEF TypeOK
  <2>2. NothingBegun(RpCalls)
    BY <1>m, <2>1 DEF NothingBegun, StepUpCalls
  <2>3. \A d \in SubjectCalls : call[d].pc = "limit" => call'[d] = call[d]
    BY <1>m, <2>1 DEF StepUpCalls
  <2> QED BY <1>m, <1>T, <2>2, <2>3, OpenKept, AttemptsKept
<1>f. ASSUME NEW c \in StepUpCalls, Finish(c), call[c].pc # "limit",
             NothingOpened, NothingCounted, crashes' = crashes
      PROVE  OpenInv' /\ AttemptsInv'
  BY <1>f, <1>i, <1>m DEF Finish, Creating
<1>g. ASSUME NEW c \in StepUpCalls, NEW pc, Goto(c, pc), call[c].pc # "limit",
             pc \in {"enrolled", "insert"} => Creating(call[c]),
             NothingOpened, NothingCounted, crashes' = crashes
      PROVE  OpenInv' /\ AttemptsInv'
  <2>0. PICK r : r = [call[c] EXCEPT !.pc = pc]
    OBVIOUS
  <2>1. r.pc = pc /\ r.ask = call[c].ask /\ call' = [call EXCEPT ![c] = r]
    BY <1>g, <1>T, <2>0 DEF Goto, TypeOK, Call
  <2> QED BY <1>g, <1>m, <2>1 DEF Creating
<1>c. ASSUME UNCHANGED call, NothingOpened, NothingCounted, crashes' = crashes
      PROVE  OpenInv' /\ AttemptsInv'
  <2>1. NothingBegun(RpCalls)
    BY <1>c DEF NothingBegun
  <2> QED BY <1>c, <1>T, <2>1, OpenKept, AttemptsKept
<1>1. ASSUME NEW c \in RpCalls, NEW a \in Accesses, NEW t \in Terms, NEW m \in Methods,
             CountOpen(c, a, t, m)
      PROVE  OpenInv' /\ AttemptsInv'
  <2>0. PICK r : r = [IdleCall EXCEPT !.pc = "enrolled", !.ask = [access |-> a, terms |-> t],
                                      !.method = m]
    OBVIOUS
  <2>1. r.ask.access = a /\ call' = [call EXCEPT ![c] = r] /\ call[c].pc = "idle"
        /\ UNCHANGED <<ch, expired, crashes>>
    BY <1>1, <2>0 DEF CountOpen, IdleCall
  <2>2. \A d \in StepUpCalls : call'[d] = IF d = c THEN r ELSE call[d]
    BY <1>T, <2>1 DEF TypeOK, StepUpCalls
  <2>3. \A d \in SubjectCalls : call[d].pc = "limit" => call'[d] = call[d]
    BY <2>1, <2>2 DEF StepUpCalls
  <2>4. AttemptsInv'
    BY <1>T, <1>u, <2>1, <2>3, AttemptsKept
  <2>5. ASSUME NEW b \in Accesses
        PROVE  /\ IsFiniteSet(Open(b)')
               /\ Cardinality(Open(b)') + Cardinality(Counting(b)')
                    <= MaxPending + Cardinality(RpCalls) - 1
    <3>1. Open(b)' = Open(b) /\ IsFiniteSet(Open(b)) /\ Cardinality(Open(b)) \in Nat
      BY <2>1, FS_CardinalityType DEF Open, effectiveStatus, User, OpenInv
    <3>2. CASE b.client = a.client /\ b.user = a.user
      <4>1. Open(b) = Open(a)
        BY <3>2 DEF Open
      <4>2. Cardinality(Open(b)) < MaxPending
        BY <1>1, <4>1 DEF CountOpen
      <4> QED BY <1>N, <3>1, <4>2, CallSets, CallSetsNext
    <3>3. CASE ~(b.client = a.client /\ b.user = a.user)
      <4>1. Counting(b)' \subseteq Counting(b)
        BY <2>1, <2>2, <3>3 DEF Counting, StepUpCalls
      <4>2. Cardinality(Counting(b)') <= Cardinality(Counting(b))
        BY <4>1, CallSets, FS_Subset
      <4>3. Cardinality(Open(b)) + Cardinality(Counting(b)) <= MaxPending + Cardinality(RpCalls) - 1
        BY DEF OpenInv, OpenBounded
      <4> QED BY <1>N, <3>1, <4>2, <4>3, CallSets, CallSetsNext
    <3> QED BY <3>2, <3>3
  <2> QED BY <2>4, <2>5 DEF OpenInv, OpenBounded
<1>2. ASSUME NEW c \in StepUpCalls, CheckEnrolled(c) PROVE OpenInv' /\ AttemptsInv'
  <2>0. call[c].pc = "enrolled" /\ NothingOpened /\ NothingCounted /\ crashes' = crashes
    BY <1>2, <1>u DEF CheckEnrolled
  <2>1. CASE Finish(c) \/ Goto(c, "insert")
    BY <1>f, <1>g, <2>0, <2>1 DEF Creating
  <2>2. ASSUME NEW k, call' = [call EXCEPT ![c] = [call[c] EXCEPT !.pc = "insert", !.key = k]]
        PROVE  OpenInv' /\ AttemptsInv'
    <3>0. PICK r : r = [call[c] EXCEPT !.pc = "insert", !.key = k]
      OBVIOUS
    <3>1. r.ask = call[c].ask
      BY <1>T, <3>0 DEF TypeOK, Call
    <3> QED BY <1>m, <2>0, <2>2, <3>0, <3>1 DEF Creating
  <2> QED BY <1>2, <2>1, <2>2 DEF CheckEnrolled
<1>3. ASSUME NEW c \in RpCalls, Insert(c) PROVE OpenInv' /\ AttemptsInv'
  <2>0. c \in StepUpCalls /\ call[c].pc = "insert" /\ UNCHANGED <<expired, crashes>>
    BY <1>3 DEF Insert, StepUpCalls
  <2>1. PICK x \in Challenges :
          /\ ch[x].status = "absent"
          /\ ch' = [ch EXCEPT ![x] = [status |-> "pending", ask |-> call[c].ask,
                                      method |-> call[c].method, master |-> call[c].key,
                                      attempts |-> 0, by |-> None]]
    BY <1>3 DEF Insert
  <2>2. /\ \A y \in Challenges \ {x} : ch'[y] = ch[y]
        /\ ch'[x].attempts = 0 /\ ch'[x].ask = call[c].ask
    BY <1>T, <2>1 DEF TypeOK
  <2>3. NothingCounted
    BY <2>2 DEF NothingCounted
  <2>4. \A d \in StepUpCalls : call'[d] = IF d = c THEN IdleCall ELSE call[d]
    BY <1>3, <1>T DEF Insert, Finish, TypeOK
  <2>5. AttemptsInv'
    BY <1>T, <2>0, <2>3, <2>4, AttemptsKept DEF StepUpCalls
  <2>6. ASSUME NEW b \in Accesses
        PROVE  /\ IsFiniteSet(Open(b)')
               /\ Cardinality(Open(b)') + Cardinality(Counting(b)')
                    <= MaxPending + Cardinality(RpCalls) - 1
    <3> DEFINE mine == /\ call[c].ask.access.client = b.client
                       /\ call[c].ask.access.user = b.user
    <3>1. Counting(b)' = Counting(b) \ {c} /\ (mine => c \in Counting(b))
      BY <1>i, <2>0, <2>4 DEF Counting, StepUpCalls
    <3>2. Open(b)' \subseteq Open(b) \cup {x} /\ (~mine => Open(b)' \subseteq Open(b))
      BY <2>0, <2>2 DEF Open, effectiveStatus, User
    <3> HIDE DEF mine
    <3>3. IsFiniteSet(Open(b)) /\ Cardinality(Open(b)) \in Nat
      BY FS_CardinalityType DEF OpenInv
    <3>4. Cardinality(Open(b)) + Cardinality(Counting(b)) <= MaxPending + Cardinality(RpCalls) - 1
      BY DEF OpenInv, OpenBounded
    <3>5. /\ IsFiniteSet(Open(b) \cup {x})
          /\ Cardinality(Open(b) \cup {x}) <= Cardinality(Open(b)) + 1
          /\ Cardinality(Open(b) \cup {x}) \in Nat
      <4>1. /\ IsFiniteSet(Open(b) \cup {x})
            /\ Cardinality(Open(b) \cup {x}) =
                 IF x \in Open(b) THEN Cardinality(Open(b)) ELSE Cardinality(Open(b)) + 1
        BY <3>3, FS_AddElement
      <4> QED BY <3>3, <4>1
    <3>6. /\ IsFiniteSet(Open(b)')
          /\ Cardinality(Open(b)') <= Cardinality(Open(b) \cup {x})
      BY <3>2, <3>5, FS_Subset
    <3>7. Cardinality(Open(b)') \in Nat
      BY <3>6, FS_CardinalityType
    <3>8. CASE mine
      <4>1. Cardinality(Counting(b)') = Cardinality(Counting(b)) - 1
        BY <3>1, <3>8, CallSets, FS_RemoveElement
      <4> QED BY <1>N, <3>3, <3>4, <3>5, <3>6, <3>7, <4>1, CallSets, CallSetsNext
    <3>9. CASE ~mine
      <4>1. Cardinality(Counting(b)') <= Cardinality(Counting(b))
        BY <3>1, CallSets, FS_Subset
      <4>2. Cardinality(Open(b)') <= Cardinality(Open(b))
        BY <3>2, <3>3, <3>9, FS_Subset
      <4> QED BY <1>N, <3>3, <3>4, <3>6, <3>7, <4>1, <4>2, CallSets, CallSetsNext
    <3> QED BY <3>8, <3>9
  <2> QED BY <2>5, <2>6 DEF OpenInv, OpenBounded
<1>4. ASSUME NEW c \in StepUpCalls, InsertThrows(c) \/ Sign(c) PROVE OpenInv' /\ AttemptsInv'
  BY <1>4, <1>f, <1>u DEF InsertThrows, Sign
<1>5. ASSUME NEW c \in StepUpCalls, NEW a \in Accesses, NEW x \in Challenges, Cancel(c, a, x)
      PROVE  OpenInv' /\ AttemptsInv'
  BY <1>5, <1>c, <1>s DEF Cancel
<1>6. ASSUME NEW c \in StepUpCalls, NEW a \in Accesses, NEW t \in Terms, NEW x \in Challenges,
             ReadApproved(c, a, t, x)
      PROVE  OpenInv' /\ AttemptsInv'
  <2>0. PICK r : r = [IdleCall EXCEPT !.pc = "consume", !.x = x,
                                      !.ask = [access |-> a, terms |-> t]]
    OBVIOUS
  <2>1. r.pc = "consume"
    BY <2>0 DEF IdleCall
  <2> QED BY <1>6, <1>m, <1>u, <2>0, <2>1 DEF ReadApproved, Creating
<1>7. ASSUME NEW c \in StepUpCalls, Consume(c) PROVE OpenInv' /\ AttemptsInv'
  <2>1. call[c].x \in Challenges /\ call[c].pc = "consume"
    BY <1>7, <1>x DEF Consume, Pcs
  <2> QED BY <1>7, <1>f, <1>g, <1>s, <1>u, <2>1 DEF Consume
<1>8. ASSUME NEW c \in StepUpCalls, NEW u \in Users, NEW x \in Challenges,
             \/ StartMasterApproval(c, u, x) \/ StartBiometricApproval(c, u, x)
             \/ StartDenial(c, u, x)
      PROVE  OpenInv' /\ AttemptsInv'
  <2>1. ASSUME NEW pc \in {"verify", "deny"}, NEW p, ReadPending(c, u, x, pc, p)
        PROVE  OpenInv' /\ AttemptsInv'
    <3>0. PICK r : r = [IdleCall EXCEPT !.pc = pc, !.x = x, !.proof = p]
      OBVIOUS
    <3>1. r.pc = pc
      BY <3>0 DEF IdleCall
    <3> QED BY <1>m, <1>u, <2>1, <3>0, <3>1 DEF ReadPending, Creating
  <2> QED BY <1>8, <2>1 DEF StartMasterApproval, StartBiometricApproval, StartDenial
<1>9. ASSUME NEW c \in StepUpCalls, Verify(c) PROVE OpenInv' /\ AttemptsInv'
  BY <1>9, <1>f, <1>g, <1>u DEF Verify
<1>10. ASSUME NEW c \in SubjectCalls, CountFailure(c) PROVE OpenInv' /\ AttemptsInv'
  <2>0. PICK x \in Challenges : x = call[c].x
    BY <1>10, <1>x DEF CountFailure, Pcs, StepUpCalls
  <2>1. PICK r : r = [call[c] EXCEPT !.pc = "limit"]
    OBVIOUS
  <2>2. /\ r.pc = "limit" /\ r.x = x /\ call[c].pc = "fail" /\ c \in StepUpCalls
        /\ UNCHANGED <<expired, crashes>>
    BY <1>10, <1>T, <2>0, <2>1 DEF CountFailure, TypeOK, Call, StepUpCalls
  <2>3. \A d \in StepUpCalls : call'[d] = IF d = c THEN r ELSE call[d]
    BY <1>10, <1>T, <2>1 DEF CountFailure, Goto, TypeOK
  <2>4. \/ UNCHANGED ch /\ ch[x].status # "pending"
        \/ /\ ch[x].status = "pending"
           /\ ch' = [ch EXCEPT ![x] = [ch[x] EXCEPT !.attempts = ch[x].attempts + 1]]
    BY <1>10, <2>0 DEF CountFailure
  <2>5. /\ \A y \in Challenges \ {x} : ch'[y] = ch[y]
        /\ ch'[x].status = ch[x].status
        /\ ch'[x].attempts =
             IF ch[x].status = "pending" THEN ch[x].attempts + 1 ELSE ch[x].attempts
    BY <1>T, <2>4 DEF TypeOK, Challenge
  <2>6. NothingOpened /\ NothingBegun(RpCalls)
    BY <2>2, <2>3, <2>5 DEF NothingOpened, NothingBegun, Creating, StepUpCalls
  <2>7. OpenInv'
    BY <1>T, <2>6, OpenKept
  <2>8. ASSUME NEW y \in Challenges
        PROVE  /\ ch'[y].status = "pending" =>
                    ch'[y].attempts < MaxFailedAttempts + Cardinality(Limiting(y)') + crashes'
               /\ ch'[y].attempts < MaxFailedAttempts + Cardinality(SubjectCalls) + crashes'
    <3>1. Limiting(y)' = IF y = x THEN Limiting(y) \cup {c} ELSE Limiting(y)
      BY <2>2, <2>3 DEF Limiting, StepUpCalls
    <3>2. c \notin Limiting(y)
      BY <2>2 DEF Limiting
    <3>3. Cardinality(Limiting(y)') =
            IF y = x THEN Cardinality(Limiting(y)) + 1 ELSE Cardinality(Limiting(y))
      BY <3>1, <3>2, CallSets, FS_AddElement
    <3>4. /\ ch[y].status = "pending" =>
               ch[y].attempts < MaxFailedAttempts + Cardinality(Limiting(y)) + crashes
          /\ ch[y].attempts < MaxFailedAttempts + Cardinality(SubjectCalls) + crashes
      BY DEF AttemptsInv
    <3>5. CASE y = x
      BY <1>N, <2>2, <2>5, <3>3, <3>4, <3>5, CallSets, CallSetsNext
    <3>6. CASE y # x
      BY <1>N, <2>2, <2>5, <3>3, <3>4, <3>6, CallSets, CallSetsNext
    <3> QED BY <3>5, <3>6
  <2> QED BY <2>7, <2>8 DEF AttemptsInv
<1>11. ASSUME NEW c \in SubjectCalls, ApplyLimit(c) PROVE OpenInv' /\ AttemptsInv'
  <2>0. PICK x \in Challenges : x = call[c].x
    BY <1>11, <1>x DEF ApplyLimit, Pcs, StepUpCalls
  <2>2. call[c].pc = "limit" /\ c \in StepUpCalls /\ UNCHANGED <<expired, crashes>>
    BY <1>11 DEF ApplyLimit, StepUpCalls
  <2>3. \A d \in StepUpCalls : call'[d] = IF d = c THEN IdleCall ELSE call[d]
    BY <1>11, <1>T DEF ApplyLimit, Finish, TypeOK
  <2>4. /\ \A y \in Challenges : ch'[y].attempts = ch[y].attempts
        /\ \A y \in Challenges \ {x} : ch'[y] = ch[y]
        /\ ch'[x].status = "pending" =>
             ch[x].status = "pending" /\ ch[x].attempts < MaxFailedAttempts
    <3>1. CASE UNCHANGED ch /\ ~(ch[x].status = "pending" /\ OverLimit(x))
      BY <1>N, <3>1 DEF OverLimit
    <3>2. CASE SetStatus(x, "denied")
      BY <1>T, <3>2 DEF SetStatus, TypeOK, Challenge
    <3> QED BY <1>11, <2>0, <3>1, <3>2 DEF ApplyLimit
  <2>6. NothingOpened /\ NothingBegun(RpCalls)
    BY <1>i, <2>2, <2>3, <2>4 DEF NothingOpened, NothingBegun, Creating, StepUpCalls
  <2>7. OpenInv'
    BY <1>T, <2>6, OpenKept
  <2>8. ASSUME NEW y \in Challenges
        PROVE  /\ ch'[y].status = "pending" =>
                    ch'[y].attempts < MaxFailedAttempts + Cardinality(Limiting(y)') + crashes'
               /\ ch'[y].attempts < MaxFailedAttempts + Cardinality(SubjectCalls) + crashes'
    <3>1. y # x => Limiting(y)' = Limiting(y)
      BY <1>i, <2>0, <2>3 DEF Limiting, StepUpCalls
    <3>2. /\ ch[y].status = "pending" =>
               ch[y].attempts < MaxFailedAttempts + Cardinality(Limiting(y)) + crashes
          /\ ch[y].attempts < MaxFailedAttempts + Cardinality(SubjectCalls) + crashes
      BY DEF AttemptsInv
    <3>3. CASE y = x
      BY <1>N, <2>2, <2>4, <3>2, <3>3, CallSets, CallSetsNext
    <3>4. CASE y # x
      BY <1>N, <2>2, <2>4, <3>1, <3>2, <3>4
    <3> QED BY <3>3, <3>4
  <2> QED BY <2>7, <2>8 DEF AttemptsInv
<1>12. ASSUME NEW c \in StepUpCalls, MarkApproved(c) PROVE OpenInv' /\ AttemptsInv'
  <2>0. PICK x \in Challenges : x = call[c].x
    BY <1>12, <1>x DEF MarkApproved, Pcs
  <2>1. NothingOpened /\ NothingCounted
    <3>1. CASE UNCHANGED ch
      BY <1>12, <1>u, <3>1 DEF MarkApproved
    <3>2. CASE ch' = [ch EXCEPT ![x] = [@ EXCEPT !.status = "approved",
                                                 !.by = call[c].proof.from]]
      <4>1. \A y \in Challenges :
              /\ ch'[y].attempts = ch[y].attempts
              /\ ch'[y].status = IF y = x THEN "approved" ELSE ch[y].status
        BY <1>T, <3>2 DEF TypeOK, Challenge
      <4> QED BY <1>12, <4>1 DEF MarkApproved, NothingOpened, NothingCounted
    <3> QED BY <1>12, <2>0, <3>1, <3>2 DEF MarkApproved
  <2> QED BY <1>12, <1>f, <2>1 DEF MarkApproved
<1>13. ASSUME NEW c \in StepUpCalls, Deny(c) PROVE OpenInv' /\ AttemptsInv'
  <2>0. call[c].x \in Challenges
    BY <1>13, <1>x DEF Deny, Pcs
  <2> QED BY <1>13, <1>f, <1>s, <1>u, <2>0 DEF Deny
<1>14. ASSUME NEW x \in Challenges, Expire(x) PROVE OpenInv' /\ AttemptsInv'
  BY <1>14, <1>c DEF Expire, NothingOpened, NothingCounted
<1>15. ASSUME NEW k \in Keys, RevokeKey(k) PROVE OpenInv' /\ AttemptsInv'
  BY <1>15, <1>c, <1>u DEF RevokeKey
<1>16. ASSUME NEW c \in StepUpCalls, Crash(c) PROVE OpenInv' /\ AttemptsInv'
  <2>1. crashes' = crashes + 1 /\ UNCHANGED <<ch, expired>>
    BY <1>16 DEF Crash
  <2>2. \A d \in StepUpCalls : call'[d] = IF d = c THEN IdleCall ELSE call[d]
    BY <1>16, <1>T DEF Crash, Finish, TypeOK
  <2>3. NothingOpened /\ NothingBegun(RpCalls)
    BY <1>i, <1>u, <2>1, <2>2 DEF NothingBegun, Creating, StepUpCalls
  <2>4. OpenInv'
    BY <1>T, <2>3, OpenKept
  <2>5. ASSUME NEW y \in Challenges
        PROVE  /\ ch'[y].status = "pending" =>
                    ch'[y].attempts < MaxFailedAttempts + Cardinality(Limiting(y)') + crashes'
               /\ ch'[y].attempts < MaxFailedAttempts + Cardinality(SubjectCalls) + crashes'
    <3>1. Limiting(y) \ {c} \subseteq Limiting(y)'
      BY <2>2 DEF Limiting, StepUpCalls
    <3>2. Cardinality(Limiting(y) \ {c}) <= Cardinality(Limiting(y)')
      BY <3>1, CallSetsNext, FS_Subset
    <3>3. /\ Cardinality(Limiting(y)) - 1 <= Cardinality(Limiting(y) \ {c})
          /\ Cardinality(Limiting(y) \ {c}) \in Nat
      <4>1. Cardinality(Limiting(y)) \in Nat /\ IsFiniteSet(Limiting(y))
        BY CallSets
      <4>2. /\ IsFiniteSet(Limiting(y) \ {c})
            /\ Cardinality(Limiting(y) \ {c}) =
                 IF c \in Limiting(y) THEN Cardinality(Limiting(y)) - 1
                                      ELSE Cardinality(Limiting(y))
        BY <4>1, FS_RemoveElement
      <4>3. Cardinality(Limiting(y) \ {c}) \in Nat
        BY <4>2, FS_CardinalityType
      <4> QED BY <4>1, <4>2, <4>3
    <3>4. /\ ch[y].status = "pending" =>
               ch[y].attempts < MaxFailedAttempts + Cardinality(Limiting(y)) + crashes
          /\ ch[y].attempts < MaxFailedAttempts + Cardinality(SubjectCalls) + crashes
      BY DEF AttemptsInv
    <3> QED BY <1>N, <2>1, <3>2, <3>3, <3>4, CallSets, CallSetsNext
  <2> QED BY <2>4, <2>5 DEF AttemptsInv
<1>17. ASSUME NEW c \in RpCalls, RpStep(c) PROVE OpenInv' /\ AttemptsInv'
  BY <1>17, <1>1, <1>2, <1>3, <1>4, <1>5, <1>6, <1>7 DEF RpStep, StepUpCalls
<1>18. ASSUME NEW c \in SubjectCalls, SubjectStep(c) PROVE OpenInv' /\ AttemptsInv'
  BY <1>18, <1>8, <1>9, <1>10, <1>11, <1>12, <1>13 DEF SubjectStep, StepUpCalls
<1>19. CASE UNCHANGED vars
  BY <1>19, <1>c, <1>u DEF vars
<1> QED BY <1>14, <1>15, <1>16, <1>17, <1>18, <1>19 DEF Next

(* Nothing is lost but by a crash: every other step that leaves a challenge *)
(* consumed leaves somebody to sign for it, or its approval signed.         *)
LossInv == IsFiniteSet(Wasted) /\ Cardinality(Wasted) <= crashes

LEMMA NothingWasted ==
  ASSUME LossInv, crashes' = crashes, Wasted' \subseteq Wasted, crashes \in Nat PROVE LossInv'
<1>1. IsFiniteSet(Wasted') /\ Cardinality(Wasted') <= Cardinality(Wasted)
  BY FS_Subset DEF LossInv
<1>2. Cardinality(Wasted) \in Nat /\ Cardinality(Wasted') \in Nat
  BY <1>1, FS_CardinalityType DEF LossInv
<1> QED BY <1>1, <1>2 DEF LossInv

LEMMA NextLosses == ASSUME IInv, LossInv, [Next]_vars PROVE LossInv'
<1>T. TypeOK /\ crashes \in Nat
  BY DEF IInv, TypeOK
<1>x. ASSUME NEW c \in StepUpCalls, call[c].pc \in {"fail", "limit", "approve", "deny", "consume", "sign"}
      PROVE  call[c].x \in Challenges
  BY <1>x DEF IInv, CallsInv, Good, Pcs
(* A call that is not signing moves, and no challenge is newly consumed.    *)
<1>m. ASSUME UNCHANGED <<approvals, crashes>>,
             \A x \in Challenges : ch'[x].status = "consumed" => ch[x].status = "consumed",
             \A c \in RpCalls : call[c].pc = "sign" => call'[c] = call[c]
      PROVE  LossInv'
  <2>1. Wasted' \subseteq Wasted
    BY <1>m DEF Wasted
  <2> QED BY <1>m, <1>T, <2>1, NothingWasted
<1>u. ASSUME UNCHANGED <<ch, approvals, crashes>>, NEW c \in StepUpCalls, call[c].pc # "sign",
             \E r : call' = [call EXCEPT ![c] = r]
      PROVE  LossInv'
  <2>1. \A d \in RpCalls : call[d].pc = "sign" => call'[d] = call[d]
    BY <1>u, <1>T DEF TypeOK, StepUpCalls
  <2> QED BY <1>m, <1>u, <2>1
<1>s. ASSUME NEW x \in Challenges, NEW s, SetStatus(x, s), s # "consumed"
      PROVE  \A y \in Challenges : ch'[y].status = "consumed" => ch[y].status = "consumed"
  BY <1>s, <1>T DEF SetStatus, TypeOK, Challenge
<1>f. ASSUME NEW c \in StepUpCalls, Finish(c) \/ \E pc : Goto(c, pc), call[c].pc # "sign",
             UNCHANGED <<approvals, crashes>>,
             \A x \in Challenges : ch'[x].status = "consumed" => ch[x].status = "consumed"
      PROVE  LossInv'
  <2>1. \E r : call' = [call EXCEPT ![c] = r]
    BY <1>f DEF Finish, Goto
  <2>2. \A d \in RpCalls : call[d].pc = "sign" => call'[d] = call[d]
    BY <1>f, <1>T, <2>1 DEF TypeOK, StepUpCalls
  <2> QED BY <1>m, <1>f, <2>2
<1>1. ASSUME NEW c \in StepUpCalls, NEW a \in Accesses, NEW t \in Terms, NEW m \in Methods,
             CountOpen(c, a, t, m)
      PROVE  LossInv'
  BY <1>1, <1>u DEF CountOpen
<1>2. ASSUME NEW c \in StepUpCalls, CheckEnrolled(c) \/ InsertThrows(c) \/ Verify(c) PROVE LossInv'
  BY <1>2, <1>u DEF CheckEnrolled, InsertThrows, Verify, Finish, Goto
<1>3. ASSUME NEW c \in StepUpCalls, Insert(c) PROVE LossInv'
  <2>1. \A x \in Challenges : ch'[x].status = "consumed" => ch[x].status = "consumed"
    BY <1>3, <1>T DEF Insert, TypeOK
  <2> QED BY <1>3, <1>f, <2>1 DEF Insert
<1>4. ASSUME NEW c \in StepUpCalls, NEW a \in Accesses, NEW x \in Challenges, Cancel(c, a, x)
      PROVE  LossInv'
  BY <1>4, <1>m, <1>s DEF Cancel
<1>5. ASSUME NEW c \in StepUpCalls, NEW a \in Accesses, NEW t \in Terms, NEW x \in Challenges,
             ReadApproved(c, a, t, x)
      PROVE  LossInv'
  BY <1>5, <1>u DEF ReadApproved
(* The winner of the update is the one who will sign.                       *)
<1>6. ASSUME NEW c \in RpCalls, Consume(c) PROVE LossInv'
  <2> DEFINE x == call[c].x
  <2>1. c \in StepUpCalls /\ call[c].pc = "consume" /\ x \in Challenges /\ UNCHANGED <<approvals, crashes>>
    BY <1>6, <1>x DEF Consume, StepUpCalls
  <2>2. CASE SetStatus(x, "consumed") /\ Goto(c, "sign")
    <3>1. /\ call'[c].pc = "sign" /\ call'[c].x = x
          /\ \A d \in RpCalls \ {c} : call'[d] = call[d]
      BY <2>1, <2>2, <1>T DEF Goto, TypeOK, Call, StepUpCalls
    <3>2. \A y \in Challenges \ {x} : ch'[y] = ch[y]
      BY <2>2, <1>T DEF SetStatus, TypeOK
    <3>3. Wasted' \subseteq Wasted
      BY <1>6, <2>1, <3>1, <3>2 DEF Wasted
    <3> QED BY <1>T, <2>1, <3>3, NothingWasted
  <2>3. CASE Finish(c) /\ UNCHANGED ch
    BY <1>f, <2>1, <2>3
  <2> QED BY <1>6, <2>2, <2>3 DEF Consume
<1>7. ASSUME NEW c \in RpCalls, Sign(c) PROVE LossInv'
  <2> DEFINE x == call[c].x
  <2>1. c \in StepUpCalls /\ call[c].pc = "sign" /\ x \in Challenges /\ UNCHANGED <<ch, crashes>>
    BY <1>7, <1>x DEF Sign, StepUpCalls
  <2>2. approvals' = [approvals EXCEPT ![x] = Append(approvals[x], call[c].ask)] /\ Finish(c)
    BY <1>7 DEF Sign
  <2>3. approvals'[x] # <<>> /\ \A y \in Challenges \ {x} : approvals'[y] = approvals[y]
    <3>1. approvals[x] = <<>>
      BY <2>1 DEF IInv, CallsInv, Good
    <3>2. Append(approvals[x], call[c].ask) # <<>>
      BY <3>1
    <3>3. approvals \in [Challenges -> Seq(Asks)]
      BY <1>T DEF TypeOK
    <3> QED BY <2>1, <2>2, <3>2, <3>3
  <2>4. \A d \in RpCalls \ {c} : call'[d] = call[d]
    BY <2>1, <2>2, <1>T DEF Finish, TypeOK, StepUpCalls
  <2>5. Wasted' \subseteq Wasted
    BY <2>1, <2>3, <2>4 DEF Wasted
  <2> QED BY <1>T, <2>1, <2>5, NothingWasted
<1>8. ASSUME NEW c \in StepUpCalls, NEW u \in Users, NEW x \in Challenges,
             \/ StartMasterApproval(c, u, x) \/ StartBiometricApproval(c, u, x) \/ StartDenial(c, u, x)
      PROVE  LossInv'
  BY <1>8, <1>u DEF StartMasterApproval, StartBiometricApproval, StartDenial, ReadPending
<1>9. ASSUME NEW c \in StepUpCalls, CountFailure(c) \/ MarkApproved(c) PROVE LossInv'
  <2>1. call[c].x \in Challenges
    BY <1>9, <1>x DEF CountFailure, MarkApproved
  <2>2. \A x \in Challenges : ch'[x].status = "consumed" => ch[x].status = "consumed"
    <3>1. PICK y \in Challenges :
            \/ UNCHANGED ch
            \/ ch' = [ch EXCEPT ![y] = [ch[y] EXCEPT !.attempts = ch[y].attempts + 1]]
            \/ ch' = [ch EXCEPT ![y] = [ch[y] EXCEPT !.status = "approved", !.by = call[c].proof.from]]
      BY <1>9, <2>1 DEF CountFailure, MarkApproved
    <3>2. ch[y] \in Challenge /\ \A x \in Challenges \ {y} : ch'[x] = ch[x]
      BY <3>1, <1>T DEF TypeOK
    <3>3. ch'[y].status = "consumed" => ch[y].status = "consumed"
      <4>1. CASE UNCHANGED ch
        BY <4>1
      <4>2. CASE ch' = [ch EXCEPT ![y] = [ch[y] EXCEPT !.attempts = ch[y].attempts + 1]]
        BY <3>2, <4>2, <1>T DEF TypeOK, Challenge
      <4>3. CASE ch' = [ch EXCEPT ![y] = [ch[y] EXCEPT !.status = "approved", !.by = call[c].proof.from]]
        BY <3>2, <4>3, <1>T DEF TypeOK, Challenge
      <4> QED BY <3>1, <4>1, <4>2, <4>3
    <3> QED BY <3>2, <3>3
  <2> QED BY <1>9, <1>f, <2>2 DEF CountFailure, MarkApproved
<1>10. ASSUME NEW c \in StepUpCalls, ApplyLimit(c) \/ Deny(c) PROVE LossInv'
  <2>1. call[c].x \in Challenges
    BY <1>10, <1>x DEF ApplyLimit, Deny
  <2> QED BY <1>10, <1>f, <1>s, <2>1 DEF ApplyLimit, Deny
<1>11. CASE \/ UNCHANGED vars
            \/ \E x \in Challenges : Expire(x)
            \/ \E k \in Keys : RevokeKey(k)
  BY <1>11, <1>m DEF vars, Expire, RevokeKey
(* Where a call dies, the challenge it would have signed for is lost.       *)
<1>12. ASSUME NEW c \in StepUpCalls, Crash(c) PROVE LossInv'
  <2> DEFINE x == call[c].x
  <2>1. crashes' = crashes + 1 /\ Finish(c) /\ UNCHANGED <<ch, approvals>>
    BY <1>12 DEF Crash
  <2>2. \A d \in RpCalls \ {c} : call'[d] = call[d]
    BY <2>1, <1>T DEF Finish, TypeOK, StepUpCalls
  <2>3. Wasted' \subseteq Wasted \cup {x}
    BY <2>1, <2>2 DEF Wasted
  <2>4. /\ IsFiniteSet(Wasted \cup {x})
        /\ Cardinality(Wasted \cup {x}) = IF x \in Wasted THEN Cardinality(Wasted) ELSE Cardinality(Wasted) + 1
    BY FS_AddElement DEF LossInv
  <2>5. IsFiniteSet(Wasted') /\ Cardinality(Wasted') <= Cardinality(Wasted \cup {x})
    BY <2>3, <2>4, FS_Subset
  <2>6. Cardinality(Wasted) \in Nat /\ Cardinality(Wasted') \in Nat
    BY <2>5, FS_CardinalityType DEF LossInv
  <2> QED BY <1>T, <2>1, <2>4, <2>5, <2>6 DEF LossInv
<1>13. ASSUME NEW c \in RpCalls, RpStep(c) PROVE LossInv'
  BY <1>13, <1>1, <1>2, <1>3, <1>4, <1>5, <1>6, <1>7 DEF RpStep, StepUpCalls
<1>14. ASSUME NEW c \in SubjectCalls, SubjectStep(c) PROVE LossInv'
  BY <1>14, <1>2, <1>8, <1>9, <1>10 DEF SubjectStep, StepUpCalls
<1> QED BY <1>11, <1>12, <1>13, <1>14 DEF Next

(* However many relying parties race to consume, and wherever calls die: no *)
(* more approvals are consumed without being signed for than calls died.    *)
(* For any number of challenges and calls, finite or not.                   *)
THEOREM LossesAreBounded == Spec => []LossesBounded
<1>1. Init => LossInv
  <2> SUFFICES ASSUME Init PROVE LossInv
    OBVIOUS
  <2>1. Wasted = {} /\ crashes = 0
    BY DEF Init, NoChallenge, Wasted
  <2> QED BY <2>1, FS_EmptySet DEF LossInv
<1>2. LossInv => LossesBounded
  BY DEF LossInv, LossesBounded
<1> QED BY <1>1, <1>2, NextLosses, Invariance, PTL DEF Spec

(* However many creates overlap, a client passes its cap on open challenges *)
(* by fewer than the create calls, and however many answers overlap or die, *)
(* a challenge passes its limit on wrong ones by fewer than those; and      *)
(* crashes lose no more approvals than there are crashes.                   *)
THEOREM LimitsHold ==
  /\ IsFiniteSet(RpCalls) /\ IsFiniteSet(SubjectCalls)
  /\ RpCalls # {} /\ MaxFailedAttempts # 0
  /\ Spec
  => []LimitsAreKept
<1> SUFFICES ASSUME FiniteCalls PROVE Spec => []LimitsAreKept
  BY DEF FiniteCalls
<1> DEFINE I == OpenInv /\ AttemptsInv
<1>1. Init => I
  <2> SUFFICES ASSUME Init PROVE I
    OBVIOUS
  <2>1. /\ \A x \in Challenges : ch[x].status = "absent" /\ ch[x].attempts = 0
        /\ \A c \in StepUpCalls : call[c].pc = "idle"
        /\ crashes = 0
    BY DEF Init, NoChallenge, IdleCall
  <2>2. \A a \in Accesses : Open(a) = {} /\ Counting(a) = {}
    BY <2>1 DEF Open, effectiveStatus, Counting, StepUpCalls
  <2>3. OpenInv
    <3>1. IsFiniteSet({}) /\ Cardinality({}) = 0
      BY FS_EmptySet
    <3>2. MaxPending \in Nat /\ Cardinality(RpCalls) \in Nat \ {0}
      BY CallSets, ConstantsAssumption
    <3>3. ASSUME NEW a \in Accesses
          PROVE  /\ IsFiniteSet(Open(a))
                 /\ Cardinality(Open(a)) + Cardinality(Counting(a))
                      <= MaxPending + Cardinality(RpCalls) - 1
      <4>1. Open(a) = {} /\ Counting(a) = {}
        BY <2>2
      <4>2. Cardinality(Open(a)) = 0 /\ Cardinality(Counting(a)) = 0 /\ IsFiniteSet(Open(a))
        BY <3>1, <4>1
      <4> QED BY <3>2, <4>2
    <3> QED BY <3>3 DEF OpenInv, OpenBounded
  <2>4. AttemptsInv
    BY <2>1, CallSets, ConstantsAssumption DEF AttemptsInv, FiniteCalls
  <2> QED BY <2>3, <2>4
<1>2. I /\ IInv /\ [Next]_vars => I'
  BY NextLimits
<1>3. I /\ LossesBounded => LimitsAreKept
  BY DEF AttemptsInv, AttemptsBounded, OpenInv, LimitsAreKept
<1> HIDE DEF I
<1> QED BY <1>1, <1>2, <1>3, LossesAreBounded, Invariance, PTL DEF Spec
=============================================================================
