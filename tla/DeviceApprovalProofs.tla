------------------------ MODULE DeviceApprovalProofs ------------------------
(* Theorems about DeviceApproval, for any number of calls, devices and      *)
(* sessions, with and without crashes.                                      *)
EXTENDS DeviceApproval, FiniteSetTheorems, FunctionTheorems, TLAPS

-----------------------------------------------------------------------------
(* The inductive invariant *)

(* A granting status, stored in the row or held in a stale copy of it, was  *)
(* decided.                                                                 *)
Backed(r) ==
  /\ r.status = "approved" => Decided("trust")
  /\ r.status = "temporary" => Decided("temporary")

(* An unclaimed temporary grant names a temporary device.                   *)
NamesTemporary(r) ==
  r.status = "temporary" /\ ~r.claimed =>
    r.resulting \in Devices /\ device[r.resulting].level = "temporary"

RowInv == Backed(row) /\ NamesTemporary(row)

(* Decision handlers run in masters' calls; a temporary grant about to be   *)
(* written carries the device made for it.                                  *)
MasterInv(c) ==
  /\ call[c].op \in MasterOps => c \in MasterCalls /\ call[c].by \in Devices
  /\ At(c, "temporary", "write") =>
       call[c].dev \in Devices /\ device[call[c].dev].level = "temporary"

(* A claim goes on only with an unclaimed grant, and its device is of the   *)
(* kind of the grant.                                                       *)
ClaimInv(c) ==
  call[c].op = "claim" =>
    /\ call[c].pc \in {"device", "session", "consume"} =>
         ~call[c].seen.claimed /\ call[c].seen.status \in {"approved", "temporary"}
    /\ call[c].pc \in {"session", "consume"} =>
         /\ call[c].dev \in Devices
         /\ IF call[c].seen.status = "approved"
              THEN device[call[c].dev].level \in {"standard", "primary"}
              ELSE device[call[c].dev].level = "temporary"

(* The copy a call works on may be stale, but it was true when it was read, *)
(* and what it says of decisions and devices stays true.                    *)
CallInv(c) ==
  /\ Backed(call[c].seen) /\ NamesTemporary(call[c].seen)
  /\ MasterInv(c) /\ ClaimInv(c)

(* A temporary device keeps its level and a trusted one stays trusted, so   *)
(* the kind recorded when a session was made still fits.                    *)
SessionInv ==
  \A s \in sessions :
    IF s.kind = "standard" THEN device[s.dev].level \in {"standard", "primary"}
                           ELSE device[s.dev].level = "temporary"

IInv == /\ TypeOK /\ AccessNeedsDecision /\ RowInv /\ SessionInv
        /\ \A c \in ApprovalCalls : CallInv(c)

-----------------------------------------------------------------------------
(* What fsm.ts's table yields for each event, when it yields anything       *)
LEMMA NextState ==
  ASSUME NEW s, NEW e, nextApprovalState(s, e) # "null"
  PROVE  /\ s \in Active
         /\ nextApprovalState(s, e) \in {"viewed", "pushed", "approved", "temporary",
                                          "declined", "expired"}
         /\ nextApprovalState(s, e) = "approved" => e = "approved"
         /\ nextApprovalState(s, e) = "temporary" => e = "temporary_granted"
BY DEF nextApprovalState, Active, Terminal

LEMMA InitIInv == Init => IInv
<1> SUFFICES ASSUME Init PROVE IInv
  OBVIOUS
<1> USE ConstantsAssumption DEF Devices
<1>1. NoRow \in Row /\ IdleCall \in Call
  BY DEF NoRow, Row, IdleCall, Call
<1>2. TypeOK
  <2> PICK p \in Masters :
        device = [d \in Devices |->
                    [level |-> IF d \in NewDevices THEN "none"
                               ELSE IF d = p THEN "primary" ELSE "standard",
                     active |-> d \in Masters]]
    BY DEF Init
  <2>1. device \in [Devices -> Device]
    BY DEF Device
  <2> QED
    BY <1>1, <2>1 DEF Init, TypeOK
<1>3. AccessNeedsDecision /\ RowInv /\ SessionInv
  BY DEF Init, AccessNeedsDecision, RowInv, SessionInv, Backed, NamesTemporary, NoRow
<1>4. \A c \in ApprovalCalls : CallInv(c)
  BY DEF Init, CallInv, MasterInv, ClaimInv, At, IdleCall, NoRow, Backed,
         NamesTemporary, MasterOps
<1> QED
  BY <1>2, <1>3, <1>4 DEF IInv

-----------------------------------------------------------------------------
(* Type correctness *)

LEMMA NextType == IInv /\ [Next]_vars => TypeOK'
<1> SUFFICES ASSUME TypeOK, \A c \in ApprovalCalls : CallInv(c), [Next]_vars PROVE TypeOK'
  BY DEF IInv
<1> USE DEF TypeOK, Ops, MasterOps, GuestOps, Pcs
<1>c. NoRow \in Row /\ IdleCall \in Call
  BY DEF NoRow, Row, IdleCall, Call
<1>f. ASSUME NEW c \in ApprovalCalls, Finish(c) PROVE call' \in [ApprovalCalls -> Call]
  BY <1>c, <1>f DEF Finish
<1>g. ASSUME NEW c \in ApprovalCalls, NEW pc \in Pcs, Goto(c, pc) PROVE call' \in [ApprovalCalls -> Call]
  BY <1>g DEF Goto, Call
<1>s. ASSUME NEW c \in ApprovalCalls, NEW e, Transition(c, e) PROVE row' \in Row
  BY <1>s, NextState DEF Transition, SetStatus, Row, Active, Terminal
<1>d. ASSUME NEW d \in FreshDevices, NEW level \in {"standard", "temporary"},
             CreatedDevice(d, level)
      PROVE device' \in [Devices -> Device]
  BY <1>d DEF CreatedDevice, Device
<1>1. ASSUME NEW c \in ApprovalCalls, CreateRequest(c) PROVE TypeOK'
  <2>1. row' \in Row
    BY <1>1, <1>c DEF CreateRequest, Row, Active
  <2>2. [IdleCall EXCEPT !.op = "create", !.pc = "push1", !.seen = row'] \in Call
    BY <1>c, <2>1 DEF Call
  <2> QED BY <1>1, <2>1, <2>2 DEF CreateRequest
<1>2. ASSUME NEW c \in ApprovalCalls, PushDispatched(c) PROVE TypeOK'
  BY <1>2, <1>f, <1>s DEF PushDispatched
<1>3. ASSUME NEW c \in ApprovalCalls, PushFallsThrough(c) PROVE TypeOK'
  BY <1>3, <1>g, <1>s DEF PushFallsThrough
<1>4. ASSUME NEW c \in ApprovalCalls, PushFailed(c) PROVE TypeOK'
  BY <1>4, <1>f DEF PushFailed
<1>5. ASSUME NEW c \in ApprovalCalls, WriteExpired(c) PROVE TypeOK'
  BY <1>5, <1>f, <1>s DEF WriteExpired
<1>6. ASSUME NEW c \in ApprovalCalls, Poll(c) PROVE TypeOK'
  BY <1>6, <1>c DEF Poll, Call
<1>7. ASSUME NEW c \in ApprovalCalls, NEW m \in Devices, NEW op \in MasterOps, Respond(c, m, op)
      PROVE TypeOK'
  BY <1>7, <1>c DEF Respond, Call
<1>8. ASSUME NEW c \in ApprovalCalls, LoadRow(c) PROVE TypeOK'
  <2> DEFINE go(pc) == [call[c] EXCEPT !.pc = pc, !.seen = row]
  <2>1. \A pc \in Pcs : go(pc) \in Call
    BY DEF Call
  <2>2. \/ call' = [call EXCEPT ![c] = IdleCall]
        \/ \E pc \in {"expire", "write", "confirm"} : call' = [call EXCEPT ![c] = go(pc)]
    BY <1>8 DEF LoadRow, Finish
  <2> HIDE DEF go
  <2> QED BY <1>8, <1>c, <2>1, <2>2 DEF LoadRow
<1>9. ASSUME NEW c \in ApprovalCalls, Confirm(c) PROVE TypeOK'
  BY <1>9, <1>f, <1>g DEF Confirm
<1>10. ASSUME NEW c \in ApprovalCalls, CreateTemporaryDevice(c) PROVE TypeOK'
  <2>1. PICK d \in FreshDevices :
          /\ CreatedDevice(d, "temporary")
          /\ call' = [call EXCEPT ![c].pc = "write", ![c].dev = d]
    BY <1>10 DEF CreateTemporaryDevice
  <2>2. call' = [call EXCEPT ![c] = [@ EXCEPT !.pc = "write", !.dev = d]]
    BY <2>1
  <2>3. [call[c] EXCEPT !.pc = "write", !.dev = d] \in Call
    BY DEF Call, FreshDevices, Devices
  <2>4. call' \in [ApprovalCalls -> Call]
    BY <2>2, <2>3
  <2> QED BY <1>10, <1>d, <2>1, <2>4 DEF CreateTemporaryDevice
<1>11. ASSUME NEW c \in ApprovalCalls, WriteViewed(c) PROVE TypeOK'
  BY <1>11, <1>f, <1>s DEF WriteViewed
<1>12. ASSUME NEW c \in ApprovalCalls, WriteTrust(c) \/ WriteDeclined(c) PROVE TypeOK'
  BY <1>12, <1>f, <1>s DEF WriteTrust, WriteDeclined, CallInv, MasterInv, At
<1>13. ASSUME NEW c \in ApprovalCalls, WriteTemporary(c) PROVE TypeOK'
  <2>1. row' \in Row
    BY <1>13 DEF WriteTemporary, Row, Active, Terminal, Call
  <2> QED BY <1>13, <1>f, <2>1 DEF WriteTemporary, CallInv, MasterInv, At
<1>14. ASSUME NEW c \in ApprovalCalls, Claim(c) PROVE TypeOK'
  <2>1. \A pc \in Pcs : [IdleCall EXCEPT !.op = "claim", !.pc = pc, !.seen = row] \in Call
    BY <1>c DEF Call
  <2> QED BY <1>14, <2>1 DEF Claim
<1>15. ASSUME NEW c \in ApprovalCalls, ClaimCreatesDevice(c) PROVE TypeOK'
  <2>1. PICK d \in FreshDevices :
          /\ CreatedDevice(d, "standard")
          /\ call' = [call EXCEPT ![c].pc = "session", ![c].dev = d]
    BY <1>15 DEF ClaimCreatesDevice
  <2>2. call' = [call EXCEPT ![c] = [@ EXCEPT !.pc = "session", !.dev = d]]
    BY <2>1
  <2>3. [call[c] EXCEPT !.pc = "session", !.dev = d] \in Call
    BY DEF Call, FreshDevices, Devices
  <2>4. call' \in [ApprovalCalls -> Call]
    BY <2>2, <2>3
  <2> QED BY <1>15, <1>d, <2>1, <2>4 DEF ClaimCreatesDevice
<1>16. ASSUME NEW c \in ApprovalCalls, ClaimFindsDevice(c) PROVE TypeOK'
  BY <1>16, <1>f DEF ClaimFindsDevice, Call, Row
<1>17. ASSUME NEW c \in ApprovalCalls, ClaimCreatesSession(c) PROVE TypeOK'
  <2>1. call[c].dev \in Devices
    BY <1>17 DEF ClaimCreatesSession, CallInv, ClaimInv, At
  <2>2. \A i \in FreshSessions, kind \in {"standard", "temporary"} :
          [id |-> i, dev |-> call[c].dev, kind |-> kind, live |-> TRUE] \in Session
    BY <2>1 DEF Session, FreshSessions
  <2>3. sessions' \subseteq Session
    BY <1>17, <2>2 DEF ClaimCreatesSession, CreatedSession
  <2> QED BY <1>17, <1>g, <2>3 DEF ClaimCreatesSession
<1>18. ASSUME NEW c \in ApprovalCalls, ClaimConsumes(c) PROVE TypeOK'
  <2>1. row' \in Row
    BY <1>18 DEF ClaimConsumes, Row, Call
  <2> QED BY <1>18, <1>f, <2>1 DEF ClaimConsumes
<1>19. ASSUME NEW c \in ApprovalCalls, CreateThrows(c) \/ Abort(c) PROVE TypeOK'
  BY <1>19, <1>f DEF CreateThrows, Abort
<1>20. ASSUME NEW d \in Devices, RevokeDevice(d) \/ TerminateTemporaryDevice(d) PROVE TypeOK'
  <2>1. device' \in [Devices -> Device]
    BY <1>20 DEF RevokeDevice, TerminateTemporaryDevice, Device
  <2>2. \A s \in Session, b \in BOOLEAN : [s EXCEPT !.live = b] \in Session
    BY DEF Session
  <2>3. \A s \in sessions : (s.live /\ s.dev # d) \in BOOLEAN
    OBVIOUS
  <2>4. WithoutSessionsOf(d) \subseteq Session
    BY <2>2, <2>3 DEF WithoutSessionsOf
  <2>5. sessions' \subseteq Session
    BY <1>20, <2>4 DEF RevokeDevice, TerminateTemporaryDevice
  <2> QED BY <1>20, <2>1, <2>5 DEF RevokeDevice, TerminateTemporaryDevice
<1>21. ASSUME NEW d \in Devices, PromoteDevice(d) PROVE TypeOK'
  BY <1>21 DEF PromoteDevice, Device
<1>22. CASE Deadline
  BY <1>22 DEF Deadline
<1>23. CASE UNCHANGED vars
  BY <1>23 DEF vars
<1> QED
  BY <1>1, <1>2, <1>3, <1>4, <1>5, <1>6, <1>7, <1>8, <1>9, <1>10, <1>11, <1>12, <1>13,
     <1>14, <1>15, <1>16, <1>17, <1>18, <1>19, <1>20, <1>21, <1>22, <1>23
  DEF Next, MasterStep, GuestStep, ReaderStep, DeviceStep
-----------------------------------------------------------------------------
(* What every step keeps *)

(* A device's level only moves between standard and primary, or from none,  *)
(* and decisions are never forgotten.                                       *)
Kept ==
  /\ decisions \subseteq decisions'
  /\ \A d \in Devices :
       /\ device[d].level = "temporary" => device'[d].level = "temporary"
       /\ device[d].level \in {"standard", "primary"} =>
            device'[d].level \in {"standard", "primary"}

LEMMA NextKept == TypeOK /\ [Next]_vars => Kept
<1> SUFFICES ASSUME TypeOK, [Next]_vars PROVE Kept
  OBVIOUS
<1> USE DEF TypeOK
<1>1. ASSUME NEW d \in FreshDevices, NEW level, CreatedDevice(d, level), UNCHANGED decisions
      PROVE Kept
  BY <1>1 DEF CreatedDevice, FreshDevices, Kept, Device
<1>2. ASSUME NEW d \in Devices, DeviceStep(d) PROVE Kept
  <2>1. CASE RevokeDevice(d) \/ TerminateTemporaryDevice(d)
    BY <2>1 DEF RevokeDevice, TerminateTemporaryDevice, Kept, Device
  <2>2. CASE PromoteDevice(d)
    BY <2>2 DEF PromoteDevice, Primaries, Kept, Device
  <2> QED BY <1>2, <2>1, <2>2 DEF DeviceStep
<1>3. ASSUME UNCHANGED device, decisions \subseteq decisions' PROVE Kept
  BY <1>3 DEF Kept
<1>4. ASSUME NEW c \in ApprovalCalls, MasterStep(c) PROVE Kept
  BY <1>1, <1>3, <1>4 DEF MasterStep, Respond, LoadRow, Confirm, CreateTemporaryDevice,
     WriteViewed, WriteTrust, WriteTemporary, WriteDeclined
<1>5. ASSUME NEW c \in ApprovalCalls, GuestStep(c) PROVE Kept
  BY <1>1, <1>3, <1>5 DEF GuestStep, CreateRequest, PushDispatched, PushFallsThrough,
     PushFailed, Claim, ClaimCreatesDevice, ClaimFindsDevice, ClaimCreatesSession,
     ClaimConsumes
<1>6. ASSUME NEW c \in ApprovalCalls, ReaderStep(c) \/ CreateThrows(c) \/ Abort(c) PROVE Kept
  BY <1>3, <1>6 DEF ReaderStep, Poll, WriteExpired, CreateThrows, Abort
<1>7. CASE Deadline \/ UNCHANGED vars
  BY <1>3, <1>7 DEF Deadline, vars
<1> QED
  BY <1>2, <1>4, <1>5, <1>6, <1>7 DEF Next

LEMMA RowsKept ==
  ASSUME Kept, NEW r, Backed(r), NamesTemporary(r)
  PROVE  Backed(r)' /\ NamesTemporary(r)'
BY DEF Kept, Backed, NamesTemporary, Decided

(* A call that a step leaves alone keeps its invariant.                     *)
LEMMA CallsKept ==
  ASSUME Kept, NEW c \in ApprovalCalls, CallInv(c), UNCHANGED call[c]
  PROVE  CallInv(c)'
<1>1. Backed(call[c].seen)' /\ NamesTemporary(call[c].seen)'
  BY RowsKept DEF CallInv, Backed, NamesTemporary, Decided
<1>2. MasterInv(c)' /\ ClaimInv(c)'
  BY DEF CallInv, MasterInv, ClaimInv, At, Kept
<1> QED BY <1>1, <1>2 DEF CallInv

-----------------------------------------------------------------------------
(* Each conjunct of the invariant, over all steps *)

LEMMA NextIInv == IInv /\ [Next]_vars => IInv'
<1> SUFFICES ASSUME IInv, [Next]_vars PROVE IInv'
  OBVIOUS
<1>T. TypeOK /\ TypeOK'
  BY NextType DEF IInv
<1>K. Kept
  BY <1>T, NextKept
<1>R. RowInv'
  <2>1. ASSUME UNCHANGED row PROVE RowInv'
    BY <2>1, <1>K, RowsKept DEF IInv, RowInv, Backed, NamesTemporary, Decided
  <2>2. ASSUME NEW c, NEW e \in {"viewed", "push_dispatched", "denied", "expired"},
               Transition(c, e)
        PROVE  RowInv'
    BY <2>2, <1>T, NextState
    DEF TypeOK, Row, Transition, SetStatus, RowInv, Backed, NamesTemporary
  <2>3. ASSUME NEW c \in ApprovalCalls, WriteTrust(c) PROVE RowInv'
    <3>1. row'.status = "approved"
      BY <2>3, <1>T DEF WriteTrust, Transition, SetStatus, nextApprovalState, TypeOK, Row
    <3>2. Decided("trust")'
      <4>1. [op |-> "trust", by |-> call[c].by] \in decisions'
        BY <2>3 DEF WriteTrust
      <4> QED BY <4>1 DEF Decided
    <3> QED BY <3>1, <3>2 DEF RowInv, Backed, NamesTemporary
  <2>4. ASSUME NEW c \in ApprovalCalls, WriteTemporary(c) PROVE RowInv'
    <3>1. row'.status = "temporary" /\ row'.resulting = call[c].dev
      BY <2>4, <1>T DEF WriteTemporary, TypeOK, Row
    <3>2. Decided("temporary")'
      <4>1. [op |-> "temporary", by |-> call[c].by] \in decisions'
        BY <2>4 DEF WriteTemporary
      <4> QED BY <4>1 DEF Decided
    <3>3. call[c].dev \in Devices /\ device'[call[c].dev].level = "temporary"
      BY <2>4 DEF WriteTemporary, IInv, CallInv, MasterInv
    <3> QED BY <3>1, <3>2, <3>3 DEF RowInv, Backed, NamesTemporary
  <2>5. ASSUME NEW c \in ApprovalCalls, ClaimConsumes(c) PROVE RowInv'
    BY <2>5, <1>T, <1>K, RowsKept
    DEF ClaimConsumes, TypeOK, Row, IInv, RowInv, Backed, NamesTemporary, Decided
  <2>6. ASSUME NEW c \in ApprovalCalls, CreateRequest(c) PROVE RowInv'
    BY <2>6 DEF CreateRequest, NoRow, RowInv, Backed, NamesTemporary
  <2>7. ASSUME NEW c \in ApprovalCalls, MasterStep(c) PROVE RowInv'
    BY <2>1, <2>2, <2>3, <2>4, <2>7
    DEF MasterStep, Respond, LoadRow, Confirm, CreateTemporaryDevice, WriteViewed, WriteDeclined
  <2>8. ASSUME NEW c \in ApprovalCalls, GuestStep(c) PROVE RowInv'
    BY <2>1, <2>2, <2>5, <2>6, <2>8
    DEF GuestStep, PushDispatched, PushFallsThrough, PushFailed, Claim, ClaimCreatesDevice,
        ClaimFindsDevice, ClaimCreatesSession
  <2>9. ASSUME NEW c \in ApprovalCalls, ReaderStep(c) \/ CreateThrows(c) \/ Abort(c) PROVE RowInv'
    BY <2>1, <2>2, <2>9 DEF ReaderStep, Poll, WriteExpired, CreateThrows, Abort
  <2>10. ASSUME NEW d \in Devices, DeviceStep(d) PROVE RowInv'
    BY <2>1, <2>10 DEF DeviceStep, RevokeDevice, TerminateTemporaryDevice, PromoteDevice
  <2>11. CASE Deadline \/ UNCHANGED vars
    BY <2>1, <2>11 DEF Deadline, vars
  <2> QED
    BY <2>7, <2>8, <2>9, <2>10, <2>11 DEF Next
<1>C. \A c \in ApprovalCalls : CallInv(c)'
  <2> USE <1>T, <1>K DEF TypeOK
  <2>u. ASSUME UNCHANGED call PROVE \A c \in ApprovalCalls : CallInv(c)'
    BY <2>u, CallsKept DEF IInv
  <2>o. ASSUME NEW c \in ApprovalCalls, NEW r, call' = [call EXCEPT ![c] = r], CallInv(c)'
        PROVE  \A k \in ApprovalCalls : CallInv(k)'
    <3>1. ASSUME NEW k \in ApprovalCalls, k # c PROVE CallInv(k)'
      BY <2>o, <3>1, CallsKept DEF IInv
    <3> QED BY <2>o, <3>1
  <2>f. ASSUME NEW c \in ApprovalCalls, Finish(c) PROVE CallInv(c)'
    BY <2>f DEF Finish, IdleCall, NoRow, CallInv, Backed, NamesTemporary, MasterInv, ClaimInv,
       At, MasterOps
  <2>r. Backed(row)' /\ NamesTemporary(row)'
    BY <1>R DEF RowInv
  <2>w. ASSUME UNCHANGED row, NEW c \in ApprovalCalls, call'[c].seen = row
        PROVE  Backed(call[c].seen)' /\ NamesTemporary(call[c].seen)'
    BY <2>w, <2>r DEF Backed, NamesTemporary, Decided
  <2>g. ASSUME NEW c \in ApprovalCalls, NEW pc \in {"push2", "push3"}, Goto(c, pc) PROVE CallInv(c)'
    <3>1. call'[c] = [call[c] EXCEPT !.pc = pc]
      BY <2>g DEF Goto
    <3>2. /\ call'[c].seen = call[c].seen /\ call'[c].pc = pc
          /\ call'[c].op = call[c].op /\ call'[c].by = call[c].by
      BY <3>1 DEF Call
    <3>3. Backed(call[c].seen)' /\ NamesTemporary(call[c].seen)'
      BY <3>2, RowsKept DEF IInv, CallInv, Backed, NamesTemporary, Decided
    <3> QED BY <3>2, <3>3 DEF IInv, CallInv, MasterInv, ClaimInv, At
  <2>1. ASSUME NEW c \in ApprovalCalls, CreateRequest(c) PROVE CallInv(c)'
    BY <2>1, <2>r DEF CreateRequest, IdleCall, CallInv, MasterInv, ClaimInv, Backed,
       NamesTemporary, Decided, At, MasterOps
  <2>2. ASSUME NEW c \in ApprovalCalls, PushFallsThrough(c) PROVE CallInv(c)'
    BY <2>2, <2>g DEF PushFallsThrough
  <2>3. ASSUME NEW c \in ApprovalCalls, Poll(c) PROVE CallInv(c)'
    BY <2>3, <2>w DEF Poll, IdleCall, CallInv, MasterInv, ClaimInv, At, MasterOps
  <2>4. ASSUME NEW c \in ApprovalCalls, LoadRow(c) PROVE CallInv(c)'
    <3> DEFINE going(pc) == [call[c] EXCEPT !.pc = pc, !.seen = row]
    <3>1. \/ Finish(c)
          \/ \E pc \in {"expire", "write", "confirm"} :
               /\ call' = [call EXCEPT ![c] = going(pc)]
               /\ pc = "write" => call[c].op = "view"
      BY <2>4 DEF LoadRow
    <3>2. ASSUME NEW pc \in {"expire", "write", "confirm"},
                 call' = [call EXCEPT ![c] = going(pc)],
                 pc = "write" => call[c].op = "view"
          PROVE  CallInv(c)'
      <4>1. call'[c] = going(pc)
        BY <3>2
      <4>2. /\ call'[c].seen = row /\ call'[c].pc = pc
            /\ call'[c].op = call[c].op /\ call'[c].by = call[c].by
        BY <4>1 DEF Call
      <4>3. Backed(call[c].seen)' /\ NamesTemporary(call[c].seen)'
        BY <2>4, <2>w, <4>2 DEF LoadRow
      <4> QED BY <3>2, <4>2, <4>3 DEF IInv, CallInv, MasterInv, ClaimInv, At
    <3> QED BY <2>f, <3>1, <3>2
  <2>5. ASSUME NEW c \in ApprovalCalls, Confirm(c) PROVE CallInv(c)'
    BY <2>5, <2>f, RowsKept
    DEF Confirm, IInv, Goto, CallInv, MasterInv, ClaimInv, Backed, NamesTemporary, At,
        MasterOps, Kept, Call, Row, Decided
  <2>6. ASSUME NEW c \in ApprovalCalls, CreateTemporaryDevice(c) PROVE CallInv(c)'
    <3>1. PICK d \in FreshDevices :
            /\ CreatedDevice(d, "temporary")
            /\ call' = [call EXCEPT ![c] = [call[c] EXCEPT !.pc = "write", !.dev = d]]
      BY <2>6 DEF CreateTemporaryDevice
    <3>2. /\ call'[c].seen = call[c].seen /\ call'[c].dev = d
          /\ call'[c].op = "temporary" /\ call'[c].by = call[c].by
      <4>1. call[c].op = "temporary"
        BY <2>6 DEF CreateTemporaryDevice, At
      <4> QED BY <3>1, <4>1 DEF Call
    <3>3. d \in Devices /\ device'[d].level = "temporary"
      BY <3>1 DEF CreatedDevice, FreshDevices, Devices
    <3>4. Backed(call[c].seen)' /\ NamesTemporary(call[c].seen)'
      BY <3>2, RowsKept DEF IInv, CallInv, Backed, NamesTemporary, Decided
    <3> QED BY <2>6, <3>2, <3>3, <3>4
            DEF CreateTemporaryDevice, IInv, CallInv, MasterInv, ClaimInv, At, MasterOps
  <2>7. ASSUME NEW c \in ApprovalCalls, Claim(c) PROVE CallInv(c)'
    <3>1. PICK pc \in {"expire", "device"} :
            /\ call' = [call EXCEPT ![c] =
                          [IdleCall EXCEPT !.op = "claim", !.pc = pc, !.seen = row]]
            /\ pc = "device" => ~row.claimed /\ row.status \in {"approved", "temporary"}
      BY <2>7 DEF Claim
    <3>2. call'[c].seen = row /\ call'[c].op = "claim" /\ call'[c].pc = pc
      BY <3>1 DEF IdleCall
    <3>3. Backed(call[c].seen)' /\ NamesTemporary(call[c].seen)'
      BY <2>7, <2>w, <3>2 DEF Claim
    <3> QED BY <3>1, <3>2, <3>3 DEF CallInv, MasterInv, ClaimInv, At, MasterOps
  <2>8. ASSUME NEW c \in ApprovalCalls, ClaimCreatesDevice(c) PROVE CallInv(c)'
    <3>1. PICK d \in FreshDevices :
            /\ CreatedDevice(d, "standard")
            /\ call' = [call EXCEPT ![c] = [call[c] EXCEPT !.pc = "session", !.dev = d]]
      BY <2>8 DEF ClaimCreatesDevice
    <3>2. /\ call'[c].seen = call[c].seen /\ call'[c].dev = d
          /\ call'[c].op = "claim" /\ call'[c].pc = "session"
      BY <2>8, <3>1 DEF ClaimCreatesDevice, Call, At
    <3>3. d \in Devices /\ device'[d].level = "standard"
      BY <3>1 DEF CreatedDevice, FreshDevices, Devices
    <3>4. Backed(call[c].seen)' /\ NamesTemporary(call[c].seen)'
      BY <3>2, RowsKept DEF IInv, CallInv, Backed, NamesTemporary, Decided
    <3> QED BY <2>8, <3>2, <3>3, <3>4
            DEF ClaimCreatesDevice, IInv, CallInv, MasterInv, ClaimInv, At, MasterOps
  <2>9. ASSUME NEW c \in ApprovalCalls, ClaimFindsDevice(c) PROVE CallInv(c)'
    BY <2>9, <2>f, RowsKept
    DEF ClaimFindsDevice, IInv, CallInv, MasterInv, ClaimInv, Backed, NamesTemporary, At,
        MasterOps, Kept, Call, Row, Decided
  <2>10. ASSUME NEW c \in ApprovalCalls, ClaimCreatesSession(c) PROVE CallInv(c)'
    BY <2>10, RowsKept
    DEF ClaimCreatesSession, Goto, IInv, CallInv, MasterInv, ClaimInv, Backed,
        NamesTemporary, At, MasterOps, Kept, Call, Row, Decided
  <2>11. ASSUME NEW c \in ApprovalCalls, NEW m \in Devices, NEW op \in MasterOps, Respond(c, m, op)
         PROVE  CallInv(c)'
    BY <2>11 DEF Respond, IdleCall, NoRow, CallInv, MasterInv, ClaimInv, Backed,
       NamesTemporary, At, MasterOps
  <2>12. ASSUME NEW c \in ApprovalCalls, MasterStep(c) PROVE \A k \in ApprovalCalls : CallInv(k)'
    <3>1. CASE \E m \in Devices, op \in MasterOps : Respond(c, m, op)
      BY <2>o, <2>11, <3>1 DEF Respond
    <3>2. CASE LoadRow(c)
      BY <2>o, <2>4, <3>2 DEF LoadRow, Finish
    <3>3. CASE Confirm(c)
      BY <2>o, <2>5, <3>3 DEF Confirm, Finish, Goto
    <3>4. CASE CreateTemporaryDevice(c)
      BY <2>o, <2>6, <3>4 DEF CreateTemporaryDevice
    <3>5. CASE WriteViewed(c) \/ WriteTrust(c) \/ WriteTemporary(c) \/ WriteDeclined(c)
      <4>1. Finish(c)
        BY <3>5 DEF WriteViewed, WriteTrust, WriteTemporary, WriteDeclined
      <4> QED BY <2>f, <2>o, <4>1 DEF Finish
    <3> QED BY <2>12, <3>1, <3>2, <3>3, <3>4, <3>5 DEF MasterStep
  <2>13. ASSUME NEW c \in ApprovalCalls, GuestStep(c) PROVE \A k \in ApprovalCalls : CallInv(k)'
    <3>1. CASE CreateRequest(c)
      BY <2>o, <2>1, <3>1 DEF CreateRequest
    <3>2. CASE PushFallsThrough(c)
      BY <2>o, <2>2, <3>2 DEF PushFallsThrough, Goto
    <3>3. CASE Claim(c)
      BY <2>o, <2>7, <3>3 DEF Claim
    <3>4. CASE ClaimCreatesDevice(c)
      BY <2>o, <2>8, <3>4 DEF ClaimCreatesDevice
    <3>5. CASE ClaimFindsDevice(c)
      BY <2>o, <2>9, <3>5 DEF ClaimFindsDevice, Finish
    <3>6. CASE ClaimCreatesSession(c)
      BY <2>o, <2>10, <3>6 DEF ClaimCreatesSession, Goto
    <3>7. CASE PushDispatched(c) \/ PushFailed(c) \/ ClaimConsumes(c)
      <4>1. Finish(c)
        BY <3>7 DEF PushDispatched, PushFailed, ClaimConsumes
      <4> QED BY <2>f, <2>o, <4>1 DEF Finish
    <3> QED BY <2>13, <3>1, <3>2, <3>3, <3>4, <3>5, <3>6, <3>7 DEF GuestStep
  <2>14. ASSUME NEW c \in ApprovalCalls, ReaderStep(c) \/ CreateThrows(c) \/ Abort(c)
         PROVE  \A k \in ApprovalCalls : CallInv(k)'
    <3>1. CASE Poll(c)
      BY <2>o, <2>3, <3>1 DEF Poll
    <3>2. CASE WriteExpired(c) \/ CreateThrows(c) \/ Abort(c)
      <4>1. Finish(c)
        BY <3>2 DEF WriteExpired, CreateThrows, Abort
      <4> QED BY <2>f, <2>o, <4>1 DEF Finish
    <3> QED BY <2>14, <3>1, <3>2 DEF ReaderStep
  <2>15. ASSUME NEW d \in Devices, DeviceStep(d) PROVE \A k \in ApprovalCalls : CallInv(k)'
    BY <2>u, <2>15 DEF DeviceStep, RevokeDevice, TerminateTemporaryDevice, PromoteDevice
  <2>16. CASE Deadline \/ UNCHANGED vars
    BY <2>u, <2>16 DEF Deadline, vars
  <2> QED
    BY <2>12, <2>13, <2>14, <2>15, <2>16 DEF Next
<1>S. SessionInv'
  <2> USE <1>T, <1>K DEF TypeOK
  <2>1. ASSUME UNCHANGED sessions PROVE SessionInv'
    BY <2>1 DEF IInv, SessionInv, Kept, Session
  <2>2. ASSUME NEW d \in Devices, sessions' = WithoutSessionsOf(d) PROVE SessionInv'
    BY <2>2 DEF IInv, SessionInv, Kept, Session, WithoutSessionsOf
  <2>3. ASSUME NEW c \in ApprovalCalls, ClaimCreatesSession(c) PROVE SessionInv'
    <3> DEFINE kind == IF call[c].seen.status = "approved" THEN "standard" ELSE "temporary"
    <3>1. PICK i \in FreshSessions : sessions' = sessions \cup
            {[id |-> i, dev |-> call[c].dev, kind |-> kind, live |-> TRUE]}
      BY <2>3 DEF ClaimCreatesSession, CreatedSession
    <3>2. /\ call[c].dev \in Devices
          /\ IF kind = "standard" THEN device'[call[c].dev].level \in {"standard", "primary"}
                                  ELSE device'[call[c].dev].level = "temporary"
      BY <2>3 DEF ClaimCreatesSession, IInv, CallInv, ClaimInv, At, Kept
    <3> HIDE DEF kind
    <3>3. ASSUME NEW s \in sessions
          PROVE  IF s.kind = "standard" THEN device'[s.dev].level \in {"standard", "primary"}
                                        ELSE device'[s.dev].level = "temporary"
      BY <3>3 DEF IInv, SessionInv, Kept, Session
    <3> QED BY <3>1, <3>2, <3>3 DEF SessionInv
  <2>4. ASSUME NEW c \in ApprovalCalls, MasterStep(c) \/ GuestStep(c) PROVE SessionInv'
    BY <2>1, <2>3, <2>4
    DEF MasterStep, GuestStep, Respond, LoadRow, Confirm, CreateTemporaryDevice, WriteViewed,
        WriteTrust, WriteTemporary, WriteDeclined, CreateRequest, PushDispatched,
        PushFallsThrough, PushFailed, Claim, ClaimCreatesDevice, ClaimFindsDevice, ClaimConsumes
  <2>5. ASSUME NEW c \in ApprovalCalls, ReaderStep(c) \/ CreateThrows(c) \/ Abort(c) PROVE SessionInv'
    BY <2>1, <2>5 DEF ReaderStep, Poll, WriteExpired, CreateThrows, Abort
  <2>6. ASSUME NEW d \in Devices, DeviceStep(d) PROVE SessionInv'
    BY <2>1, <2>2, <2>6 DEF DeviceStep, RevokeDevice, TerminateTemporaryDevice, PromoteDevice
  <2>7. CASE Deadline \/ UNCHANGED vars
    BY <2>1, <2>7 DEF Deadline, vars
  <2> QED
    BY <2>4, <2>5, <2>6, <2>7 DEF Next
<1>A. AccessNeedsDecision'
  <2> USE <1>T, <1>K DEF TypeOK
  <2> DEFINE backed(k) == Decided(IF k = "standard" THEN "trust" ELSE "temporary")
             sessionsBacked == \A s \in sessions : backed(s.kind)
             devicesBacked == \A d \in NewDevices :
               device[d].level \in {"standard", "primary"} => Decided("trust")
  <2>k. \A op : Decided(op) => Decided(op)'
    BY DEF Kept, Decided
  <2>1. ASSUME UNCHANGED sessions PROVE sessionsBacked'
    BY <2>1, <2>k DEF IInv, AccessNeedsDecision
  <2>2. ASSUME NEW d \in Devices, sessions' = WithoutSessionsOf(d) PROVE sessionsBacked'
    BY <2>2, <2>k DEF IInv, AccessNeedsDecision, WithoutSessionsOf, Session
  <2>3. ASSUME NEW c \in ApprovalCalls, ClaimCreatesSession(c) PROVE sessionsBacked'
    <3> DEFINE kind == IF call[c].seen.status = "approved" THEN "standard" ELSE "temporary"
    <3>1. PICK i \in FreshSessions : sessions' = sessions \cup
            {[id |-> i, dev |-> call[c].dev, kind |-> kind, live |-> TRUE]}
      BY <2>3 DEF ClaimCreatesSession, CreatedSession
    <3>2. backed(kind)
      BY <2>3 DEF ClaimCreatesSession, IInv, CallInv, ClaimInv, At, Backed
    <3>3. \A s \in sessions : backed(s.kind)
      BY DEF IInv, AccessNeedsDecision
    <3> HIDE DEF kind
    <3> QED BY <2>k, <3>1, <3>2, <3>3
  <2>4. ASSUME UNCHANGED device PROVE devicesBacked'
    BY <2>4, <2>k DEF IInv, AccessNeedsDecision
  <2>5. ASSUME NEW d \in Devices, DeviceStep(d) PROVE devicesBacked'
    <3>1. \A e \in NewDevices : device'[e].level \in {"standard", "primary"} =>
            device[e].level \in {"standard", "primary"}
      BY <2>5 DEF DeviceStep, RevokeDevice, TerminateTemporaryDevice, PromoteDevice,
         Primaries, Devices, Device
    <3> QED BY <2>k, <3>1 DEF IInv, AccessNeedsDecision
  <2>6. ASSUME NEW c \in ApprovalCalls, ClaimCreatesDevice(c) PROVE devicesBacked'
    <3>1. Decided("trust")
      BY <2>6 DEF ClaimCreatesDevice, IInv, CallInv, Backed
    <3> QED BY <2>k, <3>1
  <2>7. ASSUME NEW c \in ApprovalCalls, CreateTemporaryDevice(c) PROVE devicesBacked'
    <3>1. \A e \in NewDevices : device'[e].level \in {"standard", "primary"} =>
            device[e].level \in {"standard", "primary"}
      BY <2>7 DEF CreateTemporaryDevice, CreatedDevice, Devices, Device, FreshDevices
    <3> QED BY <2>k, <3>1 DEF IInv, AccessNeedsDecision
  <2> HIDE DEF sessionsBacked, devicesBacked
  <2>8. ASSUME NEW c \in ApprovalCalls, MasterStep(c) \/ GuestStep(c)
        PROVE  sessionsBacked' /\ devicesBacked'
    BY <2>1, <2>3, <2>4, <2>6, <2>7, <2>8
    DEF MasterStep, GuestStep, Respond, LoadRow, Confirm, CreateTemporaryDevice, WriteViewed,
        WriteTrust, WriteTemporary, WriteDeclined, CreateRequest, PushDispatched,
        PushFallsThrough, PushFailed, Claim, ClaimCreatesDevice, ClaimFindsDevice,
        ClaimCreatesSession, ClaimConsumes
  <2>9. ASSUME NEW c \in ApprovalCalls, ReaderStep(c) \/ CreateThrows(c) \/ Abort(c)
        PROVE  sessionsBacked' /\ devicesBacked'
    BY <2>1, <2>4, <2>9 DEF ReaderStep, Poll, WriteExpired, CreateThrows, Abort
  <2>10. ASSUME NEW d \in Devices, DeviceStep(d) PROVE sessionsBacked' /\ devicesBacked'
    BY <2>1, <2>2, <2>5, <2>10 DEF DeviceStep, RevokeDevice, TerminateTemporaryDevice, PromoteDevice
  <2>11. ASSUME Deadline \/ UNCHANGED vars PROVE sessionsBacked' /\ devicesBacked'
    BY <2>1, <2>4, <2>11 DEF Deadline, vars
  <2>12. sessionsBacked' /\ devicesBacked'
    BY <2>8, <2>9, <2>10, <2>11 DEF Next
  <2> QED
    BY <2>12 DEF AccessNeedsDecision, sessionsBacked, devicesBacked
<1> QED
  BY <1>T, <1>R, <1>C, <1>S, <1>A DEF IInv

-----------------------------------------------------------------------------
(* The theorems *)

THEOREM Invariance == Spec => []IInv
<1> QED BY InitIInv, NextIInv, PTL DEF Spec

(* Type correctness of every reachable state.                               *)
THEOREM TypeCorrect == Spec => []TypeOK
<1>1. IInv => TypeOK
  BY DEF IInv
<1> QED BY <1>1, Invariance, PTL

(* However many stale handlers overlap, the guest gets only the access a    *)
(* primary device decided.                                                  *)
THEOREM AccessIsDecided == Spec => []AccessNeedsDecision
<1>1. IInv => AccessNeedsDecision
  BY DEF IInv
<1> QED BY <1>1, Invariance, PTL

(* Temporary sessions hang on temporary devices and only they do.           *)
THEOREM KindsMatch == Spec => []SessionKindMatchesDevice
<1>1. IInv => SessionKindMatchesDevice
  BY DEF IInv, TypeOK, SessionInv, SessionKindMatchesDevice, Session
<1> QED BY <1>1, Invariance, PTL

(* Past the deadline, with no decision loaded, a request stays unapproved.  *)
THEOREM DeadlineCloses == Spec => ClosedStaysClosed
<1>1. IInv /\ [Next]_vars => (Closed => Closed')
  <2> SUFFICES ASSUME IInv, [Next]_vars, Closed PROVE Closed'
    OBVIOUS
  <2> USE DEF Closed
  <2>T. TypeOK
    BY DEF IInv
  <2>m. ASSUME NEW c \in ApprovalCalls, call[c].op \in MasterOps, call[c].pc \in {"confirm", "device", "write"}
        PROVE  FALSE
    BY <2>m DEF IInv, CallInv, MasterInv
  <2>r. ASSUME NEW c, NEW e \in {"viewed", "push_dispatched", "denied", "expired"}, Transition(c, e)
        PROVE  row'.status \notin {"approved", "temporary"}
    BY <2>r, <2>T, NextState DEF TypeOK, Row, Transition, SetStatus
  <2>1. late' = TRUE
    BY DEF Next, MasterStep, GuestStep, ReaderStep, DeviceStep, Respond, LoadRow, Confirm,
       CreateTemporaryDevice, WriteViewed, WriteTrust, WriteTemporary, WriteDeclined,
       CreateRequest, PushDispatched, PushFallsThrough, PushFailed, Claim, ClaimCreatesDevice,
       ClaimFindsDevice, ClaimCreatesSession, ClaimConsumes, Poll, WriteExpired, CreateThrows,
       Abort, RevokeDevice, TerminateTemporaryDevice, PromoteDevice, Deadline, vars
  <2> DEFINE ungranted == row.status \notin {"approved", "temporary"}
             unloaded == \A c \in MasterCalls : call[c].pc \notin {"confirm", "device", "write"}
  <2>u. ASSUME UNCHANGED row PROVE ungranted'
    BY <2>u
  <2>f. ASSUME NEW c \in ApprovalCalls, NEW r, call' = [call EXCEPT ![c] = r],
               r.pc \notin {"confirm", "device", "write"} \/ c \notin MasterCalls
        PROVE  unloaded'
    BY <2>f, <2>T DEF TypeOK, ApprovalCalls
  <2>i. IdleCall.pc \notin {"confirm", "device", "write"}
    BY DEF IdleCall
  <2>d. ASSUME NEW c \in ApprovalCalls, Finish(c) PROVE unloaded'
    BY <2>d, <2>f, <2>i DEF Finish
  <2>g. ASSUME NEW c \in ApprovalCalls, NEW pc, Goto(c, pc),
               pc \notin {"confirm", "device", "write"} \/ c \notin MasterCalls
        PROVE  unloaded'
    BY <2>g, <2>T DEF Goto, TypeOK, Call, ApprovalCalls
  <2>2. ASSUME NEW c \in ApprovalCalls, MasterStep(c) PROVE ungranted' /\ unloaded'
    <3>1. ASSUME NEW m \in Devices, NEW op \in MasterOps, Respond(c, m, op)
          PROVE ungranted' /\ unloaded'
      BY <2>f, <2>u, <3>1 DEF Respond, IdleCall
    <3>2. CASE LoadRow(c)
      <4>1. \/ Finish(c)
            \/ call' = [call EXCEPT ![c] = [call[c] EXCEPT !.pc = "expire", !.seen = row]]
        BY <3>2 DEF LoadRow, Overdue
      <4>2. [call[c] EXCEPT !.pc = "expire", !.seen = row].pc = "expire"
        BY <2>T DEF TypeOK, Call
      <4> QED BY <2>d, <2>f, <2>u, <3>2, <4>1, <4>2 DEF LoadRow
    <3>3. CASE Confirm(c)
      BY <2>d, <2>g, <2>u, <3>3 DEF Confirm
    <3>4. CASE CreateTemporaryDevice(c)
      <4>1. c \notin MasterCalls
        BY <3>4 DEF CreateTemporaryDevice, At
      <4>2. PICK r : call' = [call EXCEPT ![c] = r]
        BY <3>4 DEF CreateTemporaryDevice
      <4> QED BY <2>f, <2>u, <3>4, <4>1, <4>2 DEF CreateTemporaryDevice
    <3>5. CASE WriteViewed(c) \/ WriteDeclined(c)
      BY <2>d, <2>r, <3>5 DEF WriteViewed, WriteDeclined
    <3>6. CASE WriteTrust(c) \/ WriteTemporary(c)
      BY <2>m, <3>6 DEF WriteTrust, WriteTemporary, At, MasterOps
    <3> QED BY <2>2, <3>1, <3>2, <3>3, <3>4, <3>5, <3>6 DEF MasterStep
  <2>3. ASSUME NEW c \in ApprovalCalls, GuestStep(c) PROVE ungranted' /\ unloaded'
    <3>1. CASE CreateRequest(c)
      BY <2>f, <3>1 DEF CreateRequest, IdleCall, NoRow
    <3>2. CASE PushDispatched(c) \/ PushFailed(c)
      BY <2>d, <2>r, <2>u, <3>2 DEF PushDispatched, PushFailed
    <3>3. CASE PushFallsThrough(c)
      BY <2>g, <2>r, <2>u, <3>3 DEF PushFallsThrough
    <3>4. CASE Claim(c)
      BY <2>f, <2>u, <3>4 DEF Claim, IdleCall
    <3>5. CASE ClaimCreatesDevice(c)
      <4>1. PICK d \in FreshDevices :
              call' = [call EXCEPT ![c] = [call[c] EXCEPT !.pc = "session", !.dev = d]]
        BY <3>5 DEF ClaimCreatesDevice
      <4>2. [call[c] EXCEPT !.pc = "session", !.dev = d].pc = "session"
        BY <2>T DEF TypeOK, Call
      <4> QED BY <2>f, <2>u, <3>5, <4>1, <4>2 DEF ClaimCreatesDevice
    <3>6. CASE ClaimFindsDevice(c)
      <4>1. \/ Finish(c)
            \/ \E d : call' = [call EXCEPT ![c] = [call[c] EXCEPT !.pc = "session", !.dev = d]]
        BY <3>6 DEF ClaimFindsDevice
      <4>2. \A d : [call[c] EXCEPT !.pc = "session", !.dev = d].pc = "session"
        BY <2>T DEF TypeOK, Call
      <4> QED BY <2>d, <2>f, <2>u, <3>6, <4>1, <4>2 DEF ClaimFindsDevice
    <3>7. CASE ClaimCreatesSession(c)
      BY <2>g, <2>u, <3>7 DEF ClaimCreatesSession
    <3>8. CASE ClaimConsumes(c)
      BY <2>d, <2>T, <3>8 DEF ClaimConsumes, TypeOK, Row
    <3> QED BY <2>3, <3>1, <3>2, <3>3, <3>4, <3>5, <3>6, <3>7, <3>8 DEF GuestStep
  <2>4. ASSUME NEW c \in ApprovalCalls, ReaderStep(c) \/ CreateThrows(c) \/ Abort(c)
        PROVE  ungranted' /\ unloaded'
    <3>1. CASE Poll(c)
      BY <2>f, <2>u, <3>1 DEF Poll, IdleCall
    <3>2. CASE WriteExpired(c) \/ CreateThrows(c) \/ Abort(c)
      BY <2>d, <2>r, <2>u, <3>2 DEF WriteExpired, CreateThrows, Abort
    <3> QED BY <2>4, <3>1, <3>2 DEF ReaderStep
  <2>5. ASSUME UNCHANGED <<row, call>> PROVE ungranted' /\ unloaded'
    BY <2>5
  <2> HIDE DEF ungranted, unloaded
  <2>6. ungranted' /\ unloaded'
    BY <2>2, <2>3, <2>4, <2>5 DEF Next, DeviceStep, RevokeDevice, TerminateTemporaryDevice,
       PromoteDevice, Deadline, vars
  <2> QED BY <2>1, <2>6 DEF ungranted, unloaded
<1> QED BY <1>1, Invariance, PTL DEF Spec, ClosedStaysClosed

-----------------------------------------------------------------------------
(* Sessions and the claims that make them *)

Opening(f) == {c \in GuestCalls : f[c].op = "claim" /\ f[c].pc \in {"device", "session"}}

Consuming(f) == {c \in GuestCalls : f[c].op = "claim" /\ f[c].pc = "consume"}

(* Until a claim is recorded, whoever made a session is about to record it. *)
(* From then on no claim begins, and those under way make one session each. *)
ClaimsInv ==
  /\ \A c \in ApprovalCalls :
       call[c].op = "claim" => c \in GuestCalls /\ row.status # "absent"
  /\ row.claimed => row.status # "absent"
  /\ IsFiniteSet(sessions)
  /\ ~row.claimed => Cardinality(sessions) <= Cardinality(Consuming(call))
  /\ row.claimed =>
       Cardinality(sessions) + Cardinality(Opening(call)) <= Cardinality(GuestCalls)

LEMMA ClaimSets ==
  ASSUME IsFiniteSet(GuestCalls), NEW f
  PROVE  /\ IsFiniteSet(Opening(f)) /\ Cardinality(Opening(f)) \in Nat
         /\ IsFiniteSet(Consuming(f)) /\ Cardinality(Consuming(f)) \in Nat
         /\ Cardinality(Opening(f)) + Cardinality(Consuming(f)) <= Cardinality(GuestCalls)
         /\ Cardinality(GuestCalls) \in Nat
<1>1. Opening(f) \subseteq GuestCalls /\ Consuming(f) \subseteq GuestCalls
      /\ Opening(f) \cup Consuming(f) \subseteq GuestCalls
      /\ Opening(f) \cap Consuming(f) = {}
  BY DEF Opening, Consuming
<1>2. IsFiniteSet(Opening(f)) /\ IsFiniteSet(Consuming(f))
  BY <1>1, FS_Subset
<1>3. /\ Cardinality(Opening(f)) \in Nat /\ Cardinality(Consuming(f)) \in Nat
      /\ Cardinality(GuestCalls) \in Nat
  BY <1>2, FS_CardinalityType
<1>4. Cardinality(Opening(f) \cup Consuming(f))
        = Cardinality(Opening(f)) + Cardinality(Consuming(f))
  <2>1. Cardinality(Opening(f) \cup Consuming(f))
          = Cardinality(Opening(f)) + Cardinality(Consuming(f))
              - Cardinality(Opening(f) \cap Consuming(f))
    BY <1>2, FS_Union
  <2>2. Cardinality(Opening(f) \cap Consuming(f)) = 0
    BY <1>1, FS_EmptySet
  <2> QED BY <1>3, <2>1, <2>2
<1>5. Cardinality(Opening(f) \cup Consuming(f)) <= Cardinality(GuestCalls)
  BY <1>1, FS_Subset
<1> QED BY <1>2, <1>3, <1>4, <1>5

(* A step that leaves the row there, and recorded as claimed or not.         *)
SameClaim == row'.claimed = row.claimed /\ (row.status # "absent" => row'.status # "absent")

(* A step of a call that is not about to record its claim, makes no session *)
(* and begins a claim only while none is recorded.                          *)
LEMMA ClaimsKept ==
  ASSUME IsFiniteSet(GuestCalls), TypeOK, ClaimsInv, NEW c \in ApprovalCalls, NEW r,
         call' = [call EXCEPT ![c] = r], UNCHANGED sessions, SameClaim,
         r.op = "claim" => c \in GuestCalls /\ row.status # "absent",
         ~At(c, "claim", "consume"),
         (r.op = "claim" /\ r.pc \in {"device", "session"}) =>
           (~row.claimed \/ (call[c].op = "claim" /\ call[c].pc \in {"device", "session"}))
  PROVE  ClaimsInv'
<1>1. \A d \in ApprovalCalls : call'[d] = IF d = c THEN r ELSE call[d]
  BY DEF TypeOK
<1>2. /\ \A d \in ApprovalCalls :
           call'[d].op = "claim" => d \in GuestCalls /\ row'.status # "absent"
      /\ row'.claimed => row'.status # "absent"
  BY <1>1 DEF ClaimsInv, SameClaim
<1>3. Consuming(call) \subseteq Consuming(call')
  BY <1>1 DEF Consuming, At, ApprovalCalls
<1>4. Cardinality(Consuming(call)) <= Cardinality(Consuming(call'))
  BY <1>3, ClaimSets, FS_Subset
<1>5. row.claimed => Opening(call') \subseteq Opening(call)
  BY <1>1 DEF Opening, ApprovalCalls
<1>6. row.claimed => Cardinality(Opening(call')) <= Cardinality(Opening(call))
  BY <1>5, ClaimSets, FS_Subset
<1>7. Cardinality(sessions) \in Nat
  BY FS_CardinalityType DEF ClaimsInv
<1>8. ~row'.claimed => Cardinality(sessions') <= Cardinality(Consuming(call'))
  BY <1>4, <1>7, ClaimSets DEF ClaimsInv, SameClaim
<1>9. row'.claimed =>
        Cardinality(sessions') + Cardinality(Opening(call')) <= Cardinality(GuestCalls)
  BY <1>6, <1>7, ClaimSets DEF ClaimsInv, SameClaim
<1> QED BY <1>2, <1>8, <1>9 DEF ClaimsInv

(* Ending sessions makes them no more.                                      *)
LEMMA EndedSessions ==
  ASSUME NEW d, IsFiniteSet(sessions)
  PROVE  /\ IsFiniteSet(WithoutSessionsOf(d))
         /\ Cardinality(WithoutSessionsOf(d)) <= Cardinality(sessions)
<1> DEFINE f == [s \in sessions |-> [s EXCEPT !.live = s.live /\ s.dev # d]]
<1>1. f \in Surjection(sessions, WithoutSessionsOf(d))
  BY DEF Surjection, WithoutSessionsOf
<1> HIDE DEF f
<1> QED BY <1>1, FS_Surjection

LEMMA NextClaims ==
  ASSUME ~Crashes, IsFiniteSet(GuestCalls), TypeOK, ClaimsInv, [Next]_vars
  PROVE  ClaimsInv'
<1>n. Cardinality(sessions) \in Nat
  BY FS_CardinalityType DEF ClaimsInv
<1>i. IdleCall.op = "none" /\ IdleCall.pc = "idle"
  BY DEF IdleCall
<1>f. ASSUME NEW c \in ApprovalCalls, Finish(c), UNCHANGED sessions, SameClaim,
             ~At(c, "claim", "consume")
      PROVE  ClaimsInv'
  BY <1>f, <1>i, ClaimsKept DEF Finish
<1>g. ASSUME NEW c \in ApprovalCalls, NEW r, call' = [call EXCEPT ![c] = r], UNCHANGED sessions,
             SameClaim, r.op # "claim", call[c].pc # "consume"
      PROVE  ClaimsInv'
  BY <1>g, ClaimsKept DEF At
<1>h. ASSUME NEW c \in ApprovalCalls, NEW pc, Goto(c, pc), UNCHANGED sessions, SameClaim,
             call[c].pc # "consume", pc \in {"device", "session"} => call[c].op # "claim"
      PROVE  ClaimsInv'
  <2>0. PICK r : r = [call[c] EXCEPT !.pc = pc]
    OBVIOUS
  <2>1. r.op = call[c].op /\ r.pc = pc /\ call' = [call EXCEPT ![c] = r]
    BY <1>h, <2>0 DEF TypeOK, Call, Goto
  <2>2. call[c].op = "claim" => c \in GuestCalls /\ row.status # "absent"
    BY DEF ClaimsInv
  <2> QED BY <1>h, <2>1, <2>2, ClaimsKept DEF At
<1>t. ASSUME NEW c, NEW e, Transition(c, e) PROVE SameClaim
  BY <1>t, NextState DEF Transition, SetStatus, TypeOK, Row, SameClaim
<1>u. ASSUME UNCHANGED row PROVE SameClaim
  BY <1>u DEF SameClaim
<1>1. ASSUME NEW c \in ApprovalCalls, CreateRequest(c) PROVE ClaimsInv'
  <2>0. PICK r : r = [IdleCall EXCEPT !.op = "create", !.pc = "push1", !.seen = row']
    OBVIOUS
  <2>1. r.op = "create" /\ r.pc = "push1"
    BY <2>0 DEF IdleCall
  <2>2. SameClaim
    BY <1>1 DEF CreateRequest, NoRow, SameClaim, ClaimsInv, TypeOK, Row
  <2> QED BY <1>1, <1>g, <2>0, <2>1, <2>2 DEF CreateRequest
<1>2. ASSUME NEW c \in ApprovalCalls, PushDispatched(c) \/ PushFailed(c) PROVE ClaimsInv'
  BY <1>2, <1>f, <1>t, <1>u DEF PushDispatched, PushFailed, At
<1>3. ASSUME NEW c \in ApprovalCalls, PushFallsThrough(c) PROVE ClaimsInv'
  BY <1>3, <1>h, <1>t, <1>u DEF PushFallsThrough
<1>4. ASSUME NEW c \in ApprovalCalls, WriteExpired(c) PROVE ClaimsInv'
  BY <1>4, <1>f, <1>t DEF WriteExpired, At
<1>5. ASSUME NEW c \in ApprovalCalls, Poll(c) PROVE ClaimsInv'
  <2>0. PICK r : r = [IdleCall EXCEPT !.op = "poll", !.pc = "expire", !.seen = row]
    OBVIOUS
  <2>1. r.op = "poll"
    BY <2>0 DEF IdleCall
  <2> QED BY <1>5, <1>g, <1>u, <2>0, <2>1 DEF Poll
<1>6. ASSUME NEW c \in ApprovalCalls, NEW m \in Devices, NEW op \in MasterOps, Respond(c, m, op)
      PROVE ClaimsInv'
  <2>0. PICK r : r = [IdleCall EXCEPT !.op = op, !.pc = "load", !.by = m]
    OBVIOUS
  <2>1. r.op = op /\ op # "claim"
    BY <2>0 DEF IdleCall, MasterOps
  <2> QED BY <1>6, <1>g, <1>u, <2>0, <2>1 DEF Respond
<1>7. ASSUME NEW c \in ApprovalCalls, LoadRow(c) PROVE ClaimsInv'
  <2>1. CASE Finish(c)
    BY <1>7, <1>f, <1>u, <2>1 DEF LoadRow, At
  <2>2. ASSUME NEW pc \in {"expire", "write", "confirm"},
               call' = [call EXCEPT ![c] = [call[c] EXCEPT !.pc = pc, !.seen = row]]
        PROVE  ClaimsInv'
    <3>0. PICK r : r = [call[c] EXCEPT !.pc = pc, !.seen = row]
      OBVIOUS
    <3>1. r.op = call[c].op /\ r.pc = pc
      BY <3>0 DEF TypeOK, Call
    <3>2. call[c].op = "claim" => c \in GuestCalls /\ row.status # "absent"
      BY DEF ClaimsInv
    <3> QED BY <1>7, <1>u, <2>2, <3>0, <3>1, <3>2, ClaimsKept DEF LoadRow, At
  <2> QED BY <1>7, <2>1, <2>2 DEF LoadRow
<1>8. ASSUME NEW c \in ApprovalCalls, Confirm(c) PROVE ClaimsInv'
  <2>1. CASE Finish(c)
    BY <1>8, <1>f, <1>u, <2>1 DEF Confirm, At
  <2>2. CASE Goto(c, "write")
    BY <1>8, <1>h, <1>u, <2>2 DEF Confirm
  <2>3. CASE Goto(c, "device") /\ call[c].op = "temporary"
    BY <1>8, <1>h, <1>u, <2>3 DEF Confirm
  <2> QED BY <1>8, <2>1, <2>2, <2>3 DEF Confirm
<1>9. ASSUME NEW c \in ApprovalCalls, CreateTemporaryDevice(c) PROVE ClaimsInv'
  <2>1. PICK d : call' = [call EXCEPT ![c] = [call[c] EXCEPT !.pc = "write", !.dev = d]]
    BY <1>9 DEF CreateTemporaryDevice
  <2>2. PICK r : r = [call[c] EXCEPT !.pc = "write", !.dev = d]
    OBVIOUS
  <2>3. r.op = "temporary"
    BY <1>9, <2>2 DEF CreateTemporaryDevice, At, TypeOK, Call
  <2> QED BY <1>9, <1>g, <1>u, <2>1, <2>2, <2>3 DEF CreateTemporaryDevice, At
<1>10. ASSUME NEW c \in ApprovalCalls, WriteViewed(c) \/ WriteTrust(c) \/ WriteDeclined(c)
       PROVE  ClaimsInv'
  BY <1>10, <1>f, <1>t DEF WriteViewed, WriteTrust, WriteDeclined, At
<1>11. ASSUME NEW c \in ApprovalCalls, WriteTemporary(c) PROVE ClaimsInv'
  <2>1. SameClaim
    BY <1>11 DEF WriteTemporary, SameClaim, TypeOK, Row
  <2> QED BY <1>11, <1>f, <2>1 DEF WriteTemporary, At
<1>12. ASSUME NEW c \in ApprovalCalls, Claim(c) PROVE ClaimsInv'
  <2>1. PICK pc \in {"expire", "device"} :
          /\ call' = [call EXCEPT ![c] = [IdleCall EXCEPT !.op = "claim", !.pc = pc, !.seen = row]]
          /\ pc = "device" => ~row.claimed
    BY <1>12 DEF Claim
  <2>2. PICK r : r = [IdleCall EXCEPT !.op = "claim", !.pc = pc, !.seen = row]
    OBVIOUS
  <2>3. r.op = "claim" /\ r.pc = pc
    BY <2>2 DEF IdleCall
  <2>4. row.status # "absent" /\ c \in GuestCalls /\ call[c].pc = "idle" /\ SameClaim
    BY <1>12, <1>u DEF Claim, Overdue, Active
  <2> QED BY <1>12, <2>1, <2>2, <2>3, <2>4, ClaimsKept DEF Claim, At
<1>13. ASSUME NEW c \in ApprovalCalls, ClaimCreatesDevice(c) \/ ClaimFindsDevice(c)
       PROVE  ClaimsInv'
  <2>1. CASE Finish(c)
    BY <1>13, <1>f, <1>u, <2>1 DEF ClaimCreatesDevice, ClaimFindsDevice, At
  <2>2. ASSUME NEW d, call' = [call EXCEPT ![c] = [call[c] EXCEPT !.pc = "session", !.dev = d]]
        PROVE  ClaimsInv'
    <3>0. PICK r : r = [call[c] EXCEPT !.pc = "session", !.dev = d]
      OBVIOUS
    <3>1. r.op = "claim" /\ r.pc = "session" /\ call[c].op = "claim" /\ call[c].pc = "device"
      BY <1>13, <3>0 DEF ClaimCreatesDevice, ClaimFindsDevice, At, TypeOK, Call
    <3>2. c \in GuestCalls /\ row.status # "absent"
      BY <3>1 DEF ClaimsInv
    <3>3. UNCHANGED <<row, sessions>>
      BY <1>13 DEF ClaimCreatesDevice, ClaimFindsDevice
    <3> QED BY <1>u, <2>2, <3>0, <3>1, <3>2, <3>3, ClaimsKept DEF At
  <2> QED BY <1>13, <2>1, <2>2 DEF ClaimCreatesDevice, ClaimFindsDevice
<1>14. ASSUME NEW c \in ApprovalCalls, CreateThrows(c) PROVE ClaimsInv'
  BY <1>14, <1>f, <1>u DEF CreateThrows, At
<1>15. ASSUME NEW c \in ApprovalCalls, ClaimCreatesSession(c) PROVE ClaimsInv'
  <2>1. PICK s : sessions' = sessions \cup {s}
    BY <1>15 DEF ClaimCreatesSession, CreatedSession
  <2>2. IsFiniteSet(sessions') /\ Cardinality(sessions') <= Cardinality(sessions) + 1
        /\ Cardinality(sessions') \in Nat
    <3>1. IsFiniteSet(sessions)
      BY DEF ClaimsInv
    <3>2. /\ IsFiniteSet(sessions')
          /\ Cardinality(sessions') =
               IF s \in sessions THEN Cardinality(sessions) ELSE Cardinality(sessions) + 1
      BY <2>1, <3>1, FS_AddElement
    <3> QED BY <1>n, <3>2
  <2>3. PICK r : r = [call[c] EXCEPT !.pc = "consume"]
    OBVIOUS
  <2>4. r.op = "claim" /\ r.pc = "consume" /\ call' = [call EXCEPT ![c] = r]
        /\ call[c].op = "claim" /\ call[c].pc = "session" /\ UNCHANGED row
    BY <1>15, <2>3 DEF ClaimCreatesSession, Goto, At, TypeOK, Call
  <2>5. \A d \in ApprovalCalls : call'[d] = IF d = c THEN r ELSE call[d]
    BY <2>4 DEF TypeOK
  <2>6. c \in GuestCalls /\ row.status # "absent"
    BY <2>4 DEF ClaimsInv
  <2>7. Consuming(call') = Consuming(call) \cup {c} /\ c \notin Consuming(call)
        /\ Opening(call') = Opening(call) \ {c} /\ c \in Opening(call)
    BY <2>4, <2>5, <2>6 DEF Consuming, Opening, ApprovalCalls
  <2>8. Cardinality(Consuming(call')) = Cardinality(Consuming(call)) + 1
    BY <2>7, ClaimSets, FS_AddElement
  <2>9. Cardinality(Opening(call')) = Cardinality(Opening(call)) - 1
    BY <2>7, ClaimSets, FS_RemoveElement
  <2>10. \A d \in ApprovalCalls : call'[d].op = "claim" => d \in GuestCalls /\ row'.status # "absent"
    BY <2>4, <2>5, <2>6 DEF ClaimsInv
  <2>11. row'.claimed => row'.status # "absent"
    BY <2>4 DEF ClaimsInv
  <2>12. ~row'.claimed => Cardinality(sessions') <= Cardinality(Consuming(call'))
    BY <1>n, <2>2, <2>4, <2>8, ClaimSets DEF ClaimsInv
  <2>13. row'.claimed =>
           Cardinality(sessions') + Cardinality(Opening(call')) <= Cardinality(GuestCalls)
    BY <1>n, <2>2, <2>4, <2>9, ClaimSets DEF ClaimsInv
  <2> QED BY <2>2, <2>10, <2>11, <2>12, <2>13 DEF ClaimsInv
<1>16. ASSUME NEW c \in ApprovalCalls, ClaimConsumes(c) PROVE ClaimsInv'
  <2>1. row'.claimed /\ row'.status = row.status /\ UNCHANGED sessions
    BY <1>16 DEF ClaimConsumes, TypeOK, Row
  <2>2. \A d \in ApprovalCalls : call'[d] = IF d = c THEN IdleCall ELSE call[d]
    BY <1>16 DEF ClaimConsumes, Finish, TypeOK
  <2>3. row.status # "absent"
    BY <1>16 DEF ClaimConsumes, At, ClaimsInv
  <2>4. \A d \in ApprovalCalls : call'[d].op = "claim" => d \in GuestCalls /\ row'.status # "absent"
    BY <1>i, <2>1, <2>2, <2>3 DEF ClaimsInv
  <2>5. Opening(call') \subseteq Opening(call)
    BY <1>i, <2>2 DEF Opening, ApprovalCalls
  <2>6. Cardinality(Opening(call')) <= Cardinality(Opening(call))
    BY <2>5, ClaimSets, FS_Subset
  <2>7. Cardinality(sessions) + Cardinality(Opening(call)) <= Cardinality(GuestCalls)
    BY <1>n, ClaimSets DEF ClaimsInv
  <2>8. Cardinality(sessions') + Cardinality(Opening(call')) <= Cardinality(GuestCalls)
    BY <1>n, <2>1, <2>6, <2>7, ClaimSets
  <2>9. IsFiniteSet(sessions')
    BY <2>1 DEF ClaimsInv
  <2> QED BY <2>1, <2>3, <2>4, <2>8, <2>9 DEF ClaimsInv
<1>17. ASSUME NEW d, UNCHANGED <<row, call>>, sessions' = WithoutSessionsOf(d) PROVE ClaimsInv'
  <2>1. IsFiniteSet(sessions') /\ Cardinality(sessions') <= Cardinality(sessions)
        /\ Cardinality(sessions') \in Nat
    BY <1>17, EndedSessions, FS_CardinalityType DEF ClaimsInv
  <2> QED BY <1>17, <1>n, <2>1, ClaimSets DEF ClaimsInv
<1>18. ASSUME UNCHANGED <<row, call, sessions>> PROVE ClaimsInv'
  BY <1>18 DEF ClaimsInv
<1>19. ASSUME NEW c \in ApprovalCalls, MasterStep(c) PROVE ClaimsInv'
  BY <1>19, <1>6, <1>7, <1>8, <1>9, <1>10, <1>11 DEF MasterStep
<1>20. ASSUME NEW c \in ApprovalCalls, GuestStep(c) PROVE ClaimsInv'
  BY <1>20, <1>1, <1>2, <1>3, <1>12, <1>13, <1>15, <1>16 DEF GuestStep
<1>21. ASSUME NEW c \in ApprovalCalls, ReaderStep(c) PROVE ClaimsInv'
  BY <1>21, <1>4, <1>5 DEF ReaderStep
<1>22. ASSUME NEW d \in Devices, DeviceStep(d) PROVE ClaimsInv'
  BY <1>22, <1>17, <1>18 DEF DeviceStep, RevokeDevice, TerminateTemporaryDevice, PromoteDevice
<1> QED BY <1>14, <1>18, <1>19, <1>20, <1>21, <1>22 DEF Next, Abort, Deadline, vars

(* Without deaths, an approval yields at most one session for each claim    *)
(* that was in flight before the first was recorded: never more than there  *)
(* are guest calls.                                                         *)
THEOREM ClaimsStayBounded == IsFiniteSet(GuestCalls) /\ Spec => []ClaimsAreBounded
<1> SUFFICES ASSUME IsFiniteSet(GuestCalls) PROVE Spec => []ClaimsAreBounded
  OBVIOUS
<1> DEFINE I == ~Crashes => ClaimsInv
<1>1. Init => I
  <2> SUFFICES ASSUME Init PROVE ClaimsInv
    OBVIOUS
  <2>1. /\ \A c \in ApprovalCalls : call[c].op = "none"
        /\ row.status = "absent" /\ row.claimed = FALSE /\ sessions = {}
    BY DEF Init, IdleCall, NoRow
  <2>2. Cardinality(Consuming(call)) \in Nat
    BY ClaimSets
  <2> QED BY <2>1, <2>2, FS_EmptySet DEF ClaimsInv
<1>2. I /\ IInv /\ [Next]_vars => I'
  BY NextClaims DEF IInv
<1>3. I => ClaimsAreBounded
  <2> SUFFICES ASSUME ClaimsInv PROVE ClaimsAreBounded
    BY DEF ClaimsAreBounded
  <2>1. Cardinality(sessions) \in Nat
    BY FS_CardinalityType DEF ClaimsInv
  <2> QED BY <2>1, ClaimSets DEF ClaimsInv, ClaimsAreBounded
<1> HIDE DEF I
<1> QED BY <1>1, <1>2, <1>3, Invariance, PTL DEF Spec
=============================================================================
