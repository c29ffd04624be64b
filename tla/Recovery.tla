------------------------------- MODULE Recovery -------------------------------
(***************************************************************************)
(* Guardian recovery of one account (modules/recovery/service.ts): circles *)
(* with sealed shares, and sessions that collect share indexes.  Every     *)
(* handler reads a row, and writes it by id after an await, whatever it    *)
(* says now.                                                               *)
(***************************************************************************)
EXTENDS Naturals, FiniteSets

CONSTANTS RecCalls, Circles, RecSessions, Indexes,
          Quorate,      \* threshold of every circle
          NoCircle

ASSUME RecoveryAssumption == Quorate \in Nat \ {0} /\ NoCircle \notin Circles

VARIABLES circle,    \* status of each RecoveryGuardianCircle
          claimed,   \* circles of which a guardian claimed a share
          rec,       \* RecoverySession rows: circle, status, collected indexes
          recLate,   \* sessions past expiresAt
          recCall,   \* what each call is doing
          acked,     \* history: session and index of every submission told ok
          collided,  \* history: sessions with two submissions in flight at once
          underway,  \* history: circles revoked while a recovery of theirs was running or starting
          doubled    \* history: a circle was made beside a recovering one, or two at once

recVars == <<circle, claimed, rec, recLate, recCall, acked, collided, underway, doubled>>

RAt(c, pc) == recCall[c].pc = pc
RBusy(c) == recCall[c].pc # "idle"
RGoto(c, pc) ==
  recCall' = [recCall EXCEPT ![c] = IF pc = "idle" THEN [pc |-> pc] ELSE [@ EXCEPT !.pc = pc]]
OnlyRecCall == UNCHANGED <<circle, claimed, rec, recLate, acked, collided, underway, doubled>>
KeepSessions == UNCHANGED <<rec, recLate, acked, collided>>

With(statuses) == {k \in Circles : circle[k] \in statuses}

-----------------------------------------------------------------------------
(* createGuardianCircle looks for an active circle, then makes one with its shares. *)
FindActive_skipped(c) ==
  /\ recCall[c].pc = "idle" /\ OnlyRecCall
  /\ recCall' = [recCall EXCEPT ![c] = [pc |-> "create"]]

FindActive(c) ==
  /\ ~RBusy(c) /\ With({"active"}) = {}
  /\ recCall' = [recCall EXCEPT ![c] = [pc |-> "create"]]
  /\ doubled' = (doubled \/ With({"recovering"}) # {} \/ \E o \in RecCalls : RAt(o, "create"))
  /\ KeepSessions /\ UNCHANGED <<circle, claimed, underway>>

CreateCircle(c) ==
  \E k \in Circles :
    /\ RAt(c, "create") /\ RGoto(c, "idle")
    /\ circle[k] = "none" /\ circle' = [circle EXCEPT ![k] = "active"]
    /\ KeepSessions /\ UNCHANGED <<claimed, underway, doubled>>

(* revokeGuardianCircle *)
FindRevocable(c) ==
  \E k \in With({"active", "recovering"}) :
    /\ ~RBusy(c) /\ OnlyRecCall
    /\ recCall' = [recCall EXCEPT ![c] = [pc |-> "revoke", at |-> k]]

RevokeCircle(c) ==
  /\ RAt(c, "revoke") /\ RGoto(c, "idle")
  /\ LET k == recCall[c].at IN
     /\ circle' = [circle EXCEPT ![k] = "revoked"]
     /\ underway' = IF \/ \E s \in RecSessions : rec[s].circle = k /\ rec[s].status = "collecting"
                       \/ \E o \in RecCalls : recCall[o].pc \in {"recover", "session", "reopen", "collect"} /\ recCall[o].at = k
                    THEN underway \cup {k} ELSE underway
  /\ KeepSessions /\ UNCHANGED <<claimed, doubled>>

(* claimGuardianShare: the invite code names the share; claiming twice is allowed. *)
FindInvite(c) ==
  \E k \in With({"active", "recovering"}) :
    /\ ~RBusy(c) /\ OnlyRecCall
    /\ recCall' = [recCall EXCEPT ![c] = [pc |-> "claim", at |-> k]]

ClaimShare(c) ==
  /\ RAt(c, "claim") /\ RGoto(c, "idle")
  /\ claimed' = claimed \cup {recCall[c].at}
  /\ KeepSessions /\ UNCHANGED <<circle, underway, doubled>>

(* startRecoverySession *)
FindRecoverable_any(c) ==
  \E k \in Circles :
    /\ recCall[c].pc = "idle" /\ OnlyRecCall /\ circle[k] # "none"
    /\ recCall' = [recCall EXCEPT ![c] = [pc |-> "recover", at |-> k]]

FindRecoverable(c) ==
  \E k \in With({"active"}) :
    /\ ~RBusy(c) /\ OnlyRecCall
    /\ recCall' = [recCall EXCEPT ![c] = [pc |-> "recover", at |-> k]]

MarkRecovering(c) ==
  /\ RAt(c, "recover") /\ RGoto(c, "session")
  /\ circle' = [circle EXCEPT ![recCall[c].at] = "recovering"]
  /\ KeepSessions /\ UNCHANGED <<claimed, underway, doubled>>

OpenRecoverySession(c) ==
  \E s \in RecSessions :
    /\ RAt(c, "session") /\ RGoto(c, "idle")
    /\ rec[s].status = "none"
    /\ rec' = [rec EXCEPT ![s] = [circle |-> recCall[c].at, status |-> "collecting", indexes |-> {}]]
    /\ UNCHANGED <<circle, claimed, recLate, acked, collided, underway, doubled>>

RecoveryExpires(s) ==
  /\ rec[s].status = "collecting" /\ s \notin recLate /\ recLate' = recLate \cup {s}
  /\ UNCHANGED <<circle, claimed, rec, recCall, acked, collided, underway, doubled>>

(* submitRecoveryShareIndex: any index is counted, whether the circle has such a share or not. *)
ReadSession(c) ==
  \E s \in RecSessions, i \in Indexes :
    /\ ~RBusy(c) /\ rec[s].status = "collecting"
    /\ recCall' = [recCall EXCEPT ![c] =
         IF s \in recLate THEN [pc |-> "expire", session |-> s, at |-> rec[s].circle]
         ELSE [pc |-> "collect", session |-> s, at |-> rec[s].circle, index |-> i,
               indexes |-> rec[s].indexes \cup {i}]]
    /\ collided' = IF \E o \in RecCalls : recCall[o].pc \in {"collect", "expire"} /\ recCall[o].session = s
                   THEN collided \cup {s} ELSE collided
    /\ UNCHANGED <<circle, claimed, rec, recLate, acked, underway, doubled>>

ExpireRecovery(c) ==
  /\ RAt(c, "expire") /\ RGoto(c, "idle")
  /\ rec' = [rec EXCEPT ![recCall[c].session].status = "expired"]
  /\ UNCHANGED <<circle, claimed, recLate, acked, collided, underway, doubled>>

Met(c) == Cardinality(recCall[c].indexes) >= Quorate

CollectIndex_onlyOwn(c) ==
  LET s == recCall[c].session IN
  /\ RAt(c, "collect") /\ RGoto(c, IF Met(c) THEN "reopen" ELSE "idle")
  /\ rec' = [rec EXCEPT ![s].indexes = {recCall[c].index}, ![s].status = IF Met(c) THEN "completed" ELSE "collecting"]
  /\ acked' = acked \cup {<<s, recCall[c].index>>}
  /\ UNCHANGED <<circle, claimed, recLate, collided, underway, doubled>>

CollectIndex(c) ==
  LET s == recCall[c].session IN
  /\ RAt(c, "collect") /\ RGoto(c, IF Met(c) THEN "reopen" ELSE "idle")
  /\ rec' = [rec EXCEPT ![s].indexes = recCall[c].indexes, ![s].status = IF Met(c) THEN "completed" ELSE "collecting"]
  /\ acked' = acked \cup {<<s, recCall[c].index>>}
  /\ UNCHANGED <<circle, claimed, recLate, collided, underway, doubled>>

ReopenCircle(c) ==
  /\ RAt(c, "reopen") /\ RGoto(c, "idle")
  /\ circle' = [circle EXCEPT ![recCall[c].at] = "active"]
  /\ KeepSessions /\ UNCHANGED <<claimed, underway, doubled>>

\* The process stops: the call is forgotten between two of its writes.
RecCallDies(c) == RBusy(c) /\ RGoto(c, "idle") /\ OnlyRecCall

-----------------------------------------------------------------------------
RecInit ==
  /\ circle = [k \in Circles |-> "none"] /\ claimed = {}
  /\ rec = [s \in RecSessions |-> [circle |-> NoCircle, status |-> "none", indexes |-> {}]]
  /\ recCall = [c \in RecCalls |-> [pc |-> "idle"]]
  /\ recLate = {} /\ acked = {} /\ collided = {} /\ underway = {} /\ doubled = FALSE

RecNext ==
  \/ \E s \in RecSessions : RecoveryExpires(s)
  \/ \E c \in RecCalls :
       \/ FindActive(c) \/ CreateCircle(c) \/ FindRevocable(c) \/ RevokeCircle(c) \/ FindInvite(c) \/ ClaimShare(c)
       \/ FindRecoverable(c) \/ MarkRecovering(c) \/ OpenRecoverySession(c)
       \/ ReadSession(c) \/ ExpireRecovery(c) \/ CollectIndex(c) \/ ReopenCircle(c) \/ RecCallDies(c)

RecSpec == RecInit /\ [][RecNext]_recVars

-----------------------------------------------------------------------------
(* submitRecoveryShareIndex writes the list it read back whole: an index it *)
(* acknowledged stays in the session unless two submissions to that session *)
(* overlapped.                                                              *)
SharesKept == \A a \in acked : a[2] \in rec[a[1]].indexes \/ a[1] \in collided

(* createGuardianCircle refuses beside an active circle only: two circles   *)
(* are active at once only after one was made while another was recovering, *)
(* or was revoked with a recovery under way, or after two creations met.    *)
OneActiveCircle == Cardinality(With({"active"})) > 1 => doubled \/ underway # {}

(* A revoked circle comes back only when a recovery of it was already       *)
(* running, or was being started, when it was revoked (startRecoverySession *)
(* and submitRecoveryShareIndex set the status by id).                      *)
RevokedStaysRevoked ==
  [][\A k \in Circles : circle[k] = "revoked" /\ circle'[k] # "revoked" => k \in underway]_recVars

(* What guardians gave is kept, and one circle at a time holds the account.  *)
RecoveryIsSound == SharesKept /\ OneActiveCircle
=============================================================================
