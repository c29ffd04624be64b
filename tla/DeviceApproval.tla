--------------------------- MODULE DeviceApproval ---------------------------
(***************************************************************************)
(* Cross-device approval of one login: apps/api/src/modules/device-approval. *)
(* An unknown terminal (the guest) creates a DeviceApprovalRequest, a       *)
(* primary trusted device (the master) decides it, the guest polls and      *)
(* claims the result.                                                       *)
(*                                                                          *)
(* Every HTTP handler is asynchronous: it reads the request's row, awaits,  *)
(* and later updates the row by its id alone.  A call in flight is a record *)
(* that holds the row AS IT WAS READ (seen), so that the decision a handler *)
(* takes on a stale row is visible.  Timestamps, audit events, broadcasts   *)
(* and notifications are left out: nothing reads them back.                 *)
(*                                                                          *)
(* A definition named X_y is X with a plausible bug y; no specification     *)
(* uses it.  Substituting it for X shows that a property can fail.          *)
(***************************************************************************)
EXTENDS Naturals, FiniteSets

CONSTANTS
  MasterCalls,   \* handler invocations made from signed-in trusted devices
  GuestCalls,    \* handler invocations made from the unknown terminal
  Masters,       \* devices the account already trusts
  NewDevices,    \* identifiers of Device rows not created yet
  SessionIds,    \* identifiers of Session rows
  NoDevice,      \* a null deviceId
  Crashes        \* TRUE when a call may die half way (a throw, a killed function)

ApprovalCalls == MasterCalls \cup GuestCalls
Devices == Masters \cup NewDevices

ASSUME ConstantsAssumption ==
  /\ Crashes \in BOOLEAN
  /\ NoDevice \notin Devices
  /\ Masters \cap NewDevices = {}

VARIABLES
  row,        \* the DeviceApprovalRequest row
  late,       \* TRUE once Date.now() is past row.expiresAt
  held,       \* TRUE once the guest has been given its poll token
  call,       \* the state of each handler invocation
  device,     \* the account's Device rows
  sessions,   \* the Session rows created by claims
  decisions   \* history: the decision events ever written to the row

vars == <<row, late, held, call, device, sessions, decisions>>

-----------------------------------------------------------------------------
(* Statuses and the transition table of fsm.ts *)

Active == {"pending", "pushed", "viewed"}
Terminal == {"approved", "temporary", "declined", "expired"}

nextApprovalState_denyApproves(s, e) ==
  CASE s \in Terminal -> "null"
    [] e = "viewed" /\ s \in {"pending", "pushed"} -> "viewed"
    [] e = "push_dispatched" /\ s = "pending" -> "pushed"
    [] e \in {"approved", "denied"} -> "approved"
    [] e = "temporary_granted" -> "temporary"
    [] e = "expired" -> "expired"
    [] OTHER -> "null"

nextApprovalState(s, e) ==
  CASE s \in Terminal -> "null"
    [] e = "viewed" /\ s \in {"pending", "pushed"} -> "viewed"
    [] e = "push_dispatched" /\ s = "pending" -> "pushed"
    [] e = "approved" /\ s \in Active -> "approved"
    [] e = "temporary_granted" /\ s \in Active -> "temporary"
    [] e = "denied" /\ s \in Active -> "declined"
    [] e = "expired" /\ s \in Active -> "expired"
    [] OTHER -> "null"

Row == [status : Active \cup Terminal \cup {"absent"},
        claimed : BOOLEAN,
        resulting : Devices \cup {NoDevice}]

NoRow == [status |-> "absent", claimed |-> FALSE, resulting |-> NoDevice]

MasterOps == {"view", "trust", "temporary", "decline"}
GuestOps == {"create", "claim"}
Ops == MasterOps \cup GuestOps \cup {"poll"}

(* pc: where the handler's next await returns *)
Pcs == {"push1", "push2", "push3", "load", "confirm", "device", "write",
        "expire", "session", "consume"}

IdleCall == [op |-> "none", pc |-> "idle", by |-> NoDevice,
             seen |-> NoRow, dev |-> NoDevice]

Call == [op : Ops \cup {"none"}, pc : Pcs \cup {"idle"},
         by : Devices \cup {NoDevice}, seen : Row, dev : Devices \cup {NoDevice}]

Device == [level : {"none", "primary", "standard", "temporary"}, active : BOOLEAN]

Session == [id : SessionIds, dev : Devices, kind : {"standard", "temporary"},
            live : BOOLEAN]

Primaries == {d \in Devices : device[d].level = "primary" /\ device[d].active}

FreshDevices == {d \in NewDevices : device[d].level = "none"}

FreshSessions == SessionIds \ {s.id : s \in sessions}

-----------------------------------------------------------------------------
(* A row update is by id and carries no condition on the stored status.     *)

SetStatus(s) == row' = [row EXCEPT !.status = s]

At(c, op, pc) == call[c].op = op /\ call[c].pc = pc

Goto(c, pc) == call' = [call EXCEPT ![c].pc = pc]

Finish(c) == call' = [call EXCEPT ![c] = IdleCall]

(* transitionApprovalFsm: the guard is on the row the handler read, the     *)
(* update on whatever the row is by now.                                    *)
Transition(c, event) ==
  LET next == nextApprovalState(call[c].seen.status, event)
  IN next # "null" /\ SetStatus(next)

CreatedDevice(d, level) ==
  device' = [device EXCEPT ![d] = [level |-> level, active |-> TRUE]]

CreatedSession(d, kind) ==
  \E i \in FreshSessions :
    sessions' = sessions \cup
                  {[id |-> i, dev |-> d, kind |-> kind, live |-> TRUE]}

(* The bound on rows: when no identifier of a kind is left, the create that *)
(* needs one throws and its handler ends there.                             *)
CreateThrows(c) ==
  /\ \/ call[c].pc = "device" /\ call[c].seen.status # "temporary" /\ FreshDevices = {}
     \/ call[c].pc = "session" /\ FreshSessions = {}
  /\ Finish(c)
  /\ UNCHANGED <<row, late, held, device, sessions, decisions>>

WithoutSessionsOf(d) ==
  {[s EXCEPT !.live = s.live /\ s.dev # d] : s \in sessions}

-----------------------------------------------------------------------------
Init ==
  /\ row = NoRow
  /\ late = FALSE
  /\ held = FALSE
  /\ call = [c \in ApprovalCalls |-> IdleCall]
  /\ \E p \in Masters :
       device = [d \in Devices |->
                   [level |-> IF d \in NewDevices THEN "none"
                              ELSE IF d = p THEN "primary" ELSE "standard",
                    active |-> d \in Masters]]
  /\ sessions = {}
  /\ decisions = {}

-----------------------------------------------------------------------------
(* The guest creates the request; the handler then awaits the push that     *)
(* tells the masters, although they can already see the row.                *)

CreateRequest(c) ==
  /\ c \in GuestCalls /\ call[c].pc = "idle"
  /\ row.status = "absent"
  /\ Primaries # {}
  /\ row' = [NoRow EXCEPT !.status = "pending"]
  /\ call' = [call EXCEPT ![c] = [IdleCall EXCEPT !.op = "create", !.pc = "push1",
                                                  !.seen = row']]
  /\ UNCHANGED <<late, held, device, sessions, decisions>>

(* One of the three delivery paths accepted the push and its transition     *)
(* completed: the handler returns the poll token.                           *)
PushDispatched(c) ==
  /\ call[c].pc \in {"push1", "push2", "push3"}
  /\ Transition(c, "push_dispatched")
  /\ Finish(c)
  /\ held' = TRUE
  /\ UNCHANGED <<late, device, sessions, decisions>>

(* A path is unbound, is refused, or throws; a throw may come after its     *)
(* transition has already updated the row.  The next path is tried with the *)
(* same row as read at creation.                                            *)
PushFallsThrough(c) ==
  /\ \/ call[c].pc = "push1" /\ Goto(c, "push2")
     \/ call[c].pc = "push2" /\ Goto(c, "push3")
  /\ UNCHANGED row \/ Transition(c, "push_dispatched")
  /\ UNCHANGED <<late, held, device, sessions, decisions>>

(* All paths failed: push_failed only stamps pushFailedAt.                  *)
PushFailed(c) ==
  /\ call[c].pc = "push3"
  /\ Finish(c)
  /\ held' = TRUE
  /\ UNCHANGED <<row, late, device, sessions, decisions>>

-----------------------------------------------------------------------------
(* expireApprovalIfNeeded, shared by every reader of the row                *)

Overdue_pendingOnly(r) == r.status = "pending" /\ late

Overdue(r) == r.status \in Active /\ late

WriteExpired(c) ==
  /\ call[c].pc = "expire"
  /\ Transition(c, "expired")
  /\ Finish(c)
  /\ UNCHANGED <<late, held, device, sessions, decisions>>

(* The guest polls, or a master lists its requests.                         *)
Poll(c) ==
  /\ call[c].pc = "idle"
  /\ row.status # "absent"
  /\ c \in GuestCalls => held
  /\ Overdue(row)
  /\ call' = [call EXCEPT ![c] = [IdleCall EXCEPT !.op = "poll", !.pc = "expire",
                                                  !.seen = row]]
  /\ UNCHANGED <<row, late, held, device, sessions, decisions>>

-----------------------------------------------------------------------------
(* A master decides: loadActiveForPrimary, confirmMasterAction, transition  *)

(* assertPrimaryDevice, the first await of loadActiveForPrimary             *)
Respond(c, m, op) ==
  /\ c \in MasterCalls /\ call[c].pc = "idle"
  /\ op \in MasterOps
  /\ row.status # "absent"
  /\ m \in Primaries
  /\ call' = [call EXCEPT ![c] = [IdleCall EXCEPT !.op = op, !.pc = "load", !.by = m]]
  /\ UNCHANGED <<row, late, held, device, sessions, decisions>>

(* The row is read: overdue rows are expired first, a resolved row (or a    *)
(* second view) ends the call, otherwise the handler goes on with this row. *)
LoadRow(c) ==
  /\ call[c].pc = "load"
  /\ LET goOn(pc) == call' = [call EXCEPT ![c] = [@ EXCEPT !.pc = pc, !.seen = row]]
         viewing == call[c].op = "view"
     IN \/ Overdue(row) /\ goOn("expire")
        \/ row.status \notin Active /\ Finish(c)
        \/ /\ row.status \in Active /\ ~Overdue(row)
           /\ \/ viewing /\ row.status = "viewed" /\ Finish(c)
              \/ viewing /\ row.status # "viewed" /\ goOn("write")
              \/ ~viewing /\ goOn("confirm")
  /\ UNCHANGED <<row, late, held, device, sessions, decisions>>

(* Passkey reauthentication, or none when the account has no passkey.  The  *)
(* device must still be an active primary here; it is not checked again.    *)
Confirm(c) ==
  /\ call[c].pc = "confirm"
  /\ IF call[c].by \in Primaries
       THEN Goto(c, IF call[c].op = "temporary" THEN "device" ELSE "write")
            \/ Finish(c)
       ELSE Finish(c)
  /\ UNCHANGED <<row, late, held, device, sessions, decisions>>

CreateTemporaryDevice_trusted(c) ==
  /\ At(c, "temporary", "device")
  /\ \E d \in FreshDevices :
       /\ CreatedDevice(d, "standard")
       /\ call' = [call EXCEPT ![c].pc = "write", ![c].dev = d]
  /\ UNCHANGED <<row, late, held, sessions, decisions>>

(* approveTemporaryAccess creates the Device row before the transition.     *)
CreateTemporaryDevice(c) ==
  /\ At(c, "temporary", "device")
  /\ \E d \in FreshDevices :
       /\ CreatedDevice(d, "temporary")
       /\ call' = [call EXCEPT ![c].pc = "write", ![c].dev = d]
  /\ UNCHANGED <<row, late, held, sessions, decisions>>

WriteViewed(c) ==
  /\ At(c, "view", "write")
  /\ Transition(c, "viewed")
  /\ Finish(c)
  /\ UNCHANGED <<late, held, device, sessions, decisions>>

WriteTrust(c) ==
  /\ At(c, "trust", "write")
  /\ Transition(c, "approved")
  /\ decisions' = decisions \cup {[op |-> "trust", by |-> call[c].by]}
  /\ Finish(c)
  /\ UNCHANGED <<late, held, device, sessions>>

WriteTemporary(c) ==
  /\ At(c, "temporary", "write")
  /\ nextApprovalState(call[c].seen.status, "temporary_granted") # "null"
  /\ row' = [row EXCEPT !.status = "temporary", !.resulting = call[c].dev]
  /\ decisions' = decisions \cup {[op |-> "temporary", by |-> call[c].by]}
  /\ Finish(c)
  /\ UNCHANGED <<late, held, device, sessions>>

WriteDeclined(c) ==
  /\ At(c, "decline", "write")
  /\ Transition(c, "denied")
  /\ decisions' = decisions \cup {[op |-> "decline", by |-> call[c].by]}
  /\ Finish(c)
  /\ UNCHANGED <<late, held, device, sessions>>

-----------------------------------------------------------------------------
(* The guest claims: claimApprovalResult                                    *)

Claim_again(c) ==
  /\ c \in GuestCalls /\ call[c].pc = "idle"
  /\ held
  /\ row.status \in {"approved", "temporary"}
  /\ call' = [call EXCEPT ![c] = [IdleCall EXCEPT !.op = "claim", !.pc = "device",
                                                  !.seen = row]]
  /\ UNCHANGED <<row, late, held, device, sessions, decisions>>

(* Reads the row once; everything after works on that copy.  A claimed,     *)
(* declined or undecided row ends the call with an error and no change.     *)
Claim(c) ==
  /\ c \in GuestCalls /\ call[c].pc = "idle"
  /\ held
  /\ LET go(pc) == call' = [call EXCEPT ![c] =
                     [IdleCall EXCEPT !.op = "claim", !.pc = pc, !.seen = row]]
     IN \/ Overdue(row) /\ go("expire")
        \/ /\ ~row.claimed
           /\ \/ row.status = "approved"
              \/ row.status = "temporary" /\ row.resulting # NoDevice
           /\ go("device")
  /\ UNCHANGED <<row, late, held, device, sessions, decisions>>

(* APPROVED: a new STANDARD device for the guest terminal.                  *)
ClaimCreatesDevice(c) ==
  /\ At(c, "claim", "device")
  /\ call[c].seen.status = "approved"
  /\ \E d \in FreshDevices :
       /\ CreatedDevice(d, "standard")
       /\ call' = [call EXCEPT ![c].pc = "session", ![c].dev = d]
  /\ UNCHANGED <<row, late, held, sessions, decisions>>

(* TEMPORARY: the device made by the master must not have been revoked.     *)
ClaimFindsDevice(c) ==
  /\ At(c, "claim", "device")
  /\ call[c].seen.status = "temporary"
  /\ LET d == call[c].seen.resulting
     IN IF device[d].active
          THEN call' = [call EXCEPT ![c].pc = "session", ![c].dev = d]
          ELSE Finish(c)
  /\ UNCHANGED <<row, late, held, device, sessions, decisions>>

ClaimCreatesSession(c) ==
  /\ At(c, "claim", "session")
  /\ CreatedSession(call[c].dev,
                    IF call[c].seen.status = "approved" THEN "standard" ELSE "temporary")
  /\ Goto(c, "consume")
  /\ UNCHANGED <<row, late, held, device, decisions>>

(* claimConsumedAt is set only now, unconditionally.                        *)
ClaimConsumes(c) ==
  /\ At(c, "claim", "consume")
  /\ row' = [row EXCEPT !.claimed = TRUE,
                        !.resulting = IF call[c].seen.status = "approved"
                                        THEN call[c].dev ELSE @]
  /\ Finish(c)
  /\ UNCHANGED <<late, held, device, sessions, decisions>>

-----------------------------------------------------------------------------
(* Device management around the request (atomic here)                       *)

RevokeDevice(d) ==
  /\ device[d].level \in {"primary", "standard"} /\ device[d].active
  /\ Primaries \ {d} # {}
  /\ device' = [device EXCEPT ![d].active = FALSE]
  /\ sessions' = WithoutSessionsOf(d)
  /\ UNCHANGED <<row, late, held, call, decisions>>

TerminateTemporaryDevice(d) ==
  /\ device[d].level = "temporary" /\ device[d].active
  /\ device' = [device EXCEPT ![d].active = FALSE]
  /\ sessions' = WithoutSessionsOf(d)
  /\ UNCHANGED <<row, late, held, call, decisions>>

PromoteDevice(t) ==
  /\ device[t].level = "standard" /\ device[t].active
  /\ Primaries # {}
  /\ device' = [d \in Devices |->
                  IF d = t THEN [device[d] EXCEPT !.level = "primary"]
                  ELSE IF d \in Primaries THEN [device[d] EXCEPT !.level = "standard"]
                  ELSE device[d]]
  /\ UNCHANGED <<row, late, held, call, sessions, decisions>>

-----------------------------------------------------------------------------
Deadline ==
  /\ row.status # "absent" /\ ~late
  /\ late' = TRUE
  /\ UNCHANGED <<row, held, call, device, sessions, decisions>>

(* The call dies between two awaits; what it has written stays written.     *)
Abort(c) ==
  /\ Crashes
  /\ call[c].pc # "idle"
  /\ Finish(c)
  /\ UNCHANGED <<row, late, held, device, sessions, decisions>>

MasterStep(c) ==
  \/ \E m \in Devices, op \in MasterOps : Respond(c, m, op)
  \/ LoadRow(c) \/ Confirm(c) \/ CreateTemporaryDevice(c)
  \/ WriteViewed(c) \/ WriteTrust(c) \/ WriteTemporary(c) \/ WriteDeclined(c)

GuestStep(c) ==
  \/ CreateRequest(c)
  \/ PushDispatched(c) \/ PushFallsThrough(c) \/ PushFailed(c)
  \/ Claim(c) \/ ClaimCreatesDevice(c) \/ ClaimFindsDevice(c)
  \/ ClaimCreatesSession(c) \/ ClaimConsumes(c)

ReaderStep(c) == Poll(c) \/ WriteExpired(c)

DeviceStep(d) == RevokeDevice(d) \/ TerminateTemporaryDevice(d) \/ PromoteDevice(d)

Next ==
  \/ \E c \in ApprovalCalls :
       MasterStep(c) \/ GuestStep(c) \/ ReaderStep(c) \/ CreateThrows(c) \/ Abort(c)
  \/ \E d \in Devices : DeviceStep(d)
  \/ Deadline

Spec == Init /\ [][Next]_vars

(* Node runs an accepted handler to its end; the waiting page polls every   *)
(* 2.5 s (WaitingApproval.tsx:62) and time passes.  Nobody makes a master   *)
(* answer, and nobody makes a guest claim.                                  *)
Fairness ==
  /\ \A c \in GuestCalls :
       /\ WF_vars(PushDispatched(c) \/ PushFallsThrough(c) \/ PushFailed(c))
       /\ WF_vars(ClaimCreatesDevice(c) \/ ClaimFindsDevice(c)
                    \/ ClaimCreatesSession(c) \/ ClaimConsumes(c) \/ CreateThrows(c))
       /\ WF_vars(Poll(c))
       /\ WF_vars(WriteExpired(c))
  /\ \A c \in MasterCalls :
       /\ WF_vars(LoadRow(c) \/ Confirm(c) \/ CreateTemporaryDevice(c) \/ CreateThrows(c))
       /\ WF_vars(WriteViewed(c) \/ WriteTrust(c) \/ WriteTemporary(c) \/ WriteDeclined(c))
       /\ WF_vars(WriteExpired(c))
  /\ WF_vars(Deadline)

FairSpec == Spec /\ Fairness

-----------------------------------------------------------------------------
(* Properties *)

(* The row, the devices, the sessions and every handler's variables stay in *)
(* their domains (the columns of DeviceApprovalRequest, Device, Session).   *)
TypeOK ==
  /\ row \in Row
  /\ late \in BOOLEAN
  /\ held \in BOOLEAN
  /\ call \in [ApprovalCalls -> Call]
  /\ device \in [Devices -> Device]
  /\ sessions \subseteq Session
  /\ decisions \subseteq [op : {"trust", "temporary", "decline"}, by : Devices]

Decided(op) == \E x \in decisions : x.op = op

(* Whatever stale rows the handlers work on, the guest gets exactly the     *)
(* access a primary device decided: a standard session or a standing device *)
(* only after a TRUST decision, a temporary session only after a TEMPORARY  *)
(* one (claimApprovalResult against approveTrustDevice and                  *)
(* approveTemporaryAccess).                                                 *)
AccessNeedsDecision ==
  /\ \A s \in sessions :
       Decided(IF s.kind = "standard" THEN "trust" ELSE "temporary")
  /\ \A d \in NewDevices :
       device[d].level \in {"standard", "primary"} => Decided("trust")

(* A temporary session hangs on a temporary device, and a standard one      *)
(* never does, although row.resultingDeviceId is overwritten by claims and  *)
(* by late decisions: terminating temporary devices reaches every temporary *)
(* session (claimApprovalResult, terminateTemporaryDevice).                 *)
SessionKindMatchesDevice ==
  \A s \in sessions : (s.kind = "temporary") <=> (device[s.dev].level = "temporary")

(* One approval yields at most one session per claim the guest had in       *)
(* flight before the first of them recorded claimConsumedAt: no later claim *)
(* gets through (claimApprovalResult's "already claimed" check).            *)
ClaimsAreBounded ==
  ~Crashes => Cardinality(sessions) <= Cardinality(GuestCalls)

(* Past the deadline with no decision already loaded, the request can never *)
(* become approved any more: every reader expires the row instead           *)
(* (loadActiveForPrimary, expireApprovalIfNeeded).                          *)
Closed ==
  /\ late
  /\ row.status \notin {"approved", "temporary"}
  /\ \A c \in MasterCalls : call[c].pc \notin {"confirm", "device", "write"}

ClosedStaysClosed == [][Closed => Closed']_vars

(* The guest is never left waiting: once it holds a poll token the request  *)
(* settles in a terminal status, even when no master ever answers and even  *)
(* though a late push or view can reopen a decided row for a while.         *)
GuestIsAnswered == held ~> [](row.status \in Terminal)

(* "Terminal approval outcomes" (packages/shared/src/index.ts:99): a decided *)
(* or expired request keeps its outcome (fsm.ts throws 409 for an event on  *)
(* a terminal row).                                                         *)
TerminalIsFinal == [][row.status \in Terminal => row'.status = row.status]_vars

=============================================================================
