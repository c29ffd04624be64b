------------------------------- MODULE Pairing -------------------------------
(***************************************************************************)
(* One DevicePairingRequest (modules/devices/enrollment.ts, service.ts):   *)
(* either a sign-in code, which a trusted session makes already approved,  *)
(* or a pairing request that waits for approval.  A code is claimed for a  *)
(* session; an approved request yields a token for a passkey registration. *)
(* Every handler reads the row, and writes it back by id after its awaits. *)
(***************************************************************************)
EXTENDS Naturals, FiniteSets

CONSTANTS PairCalls, PairDeaths

ASSUME PairingAssumption == PairDeaths \in Nat

VARIABLES pairing,   \* the row: status, whether it has a code, whether it has a token
          pastTtl,   \* expiresAt (and enrollmentTokenExpires) are past
          holder,    \* some client holds the plaintext enrollment token
          pairCall,  \* what each call is doing
          entered,   \* sessions that claims of the code made
          enrolled,  \* registrations the token made
          claimsMet, \* history: two claims were in flight at once
          dead       \* calls that died

pairVars == <<pairing, pastTtl, holder, pairCall, entered, enrolled, claimsMet, dead>>

Statuses == {"none", "pending", "approved", "rejected", "completed", "expired"}

PairAt(c, op, pc) == pairCall[c].op = op /\ pairCall[c].pc = pc
PairGoto(c, pc) == pairCall' = [pairCall EXCEPT ![c].pc = pc]
OnlyPairCall == UNCHANGED <<pairing, pastTtl, holder, entered, enrolled, claimsMet, dead>>
OnlyRow == UNCHANGED <<pastTtl, holder, entered, enrolled, claimsMet, dead>>

CreateEnrollmentInvite ==
  /\ pairing.status = "none"
  /\ pairing' = [status |-> "approved", code |-> TRUE, token |-> TRUE]
  /\ OnlyRow /\ UNCHANGED pairCall

CreatePairingRequest ==
  /\ pairing.status = "none"
  /\ pairing' = [status |-> "pending", code |-> FALSE, token |-> FALSE]
  /\ OnlyRow /\ UNCHANGED pairCall

Expire == /\ pairing.status # "none" /\ ~pastTtl /\ pastTtl' = TRUE
          /\ UNCHANGED <<pairing, holder, pairCall, entered, enrolled, claimsMet, dead>>

\* The first read of each handler, and what it makes of the row.
NextStep(op) ==
  LET overdue == pastTtl /\ pairing.status \notin {"completed", "expired"} IN
  CASE op \in {"view", "claim"} -> IF overdue THEN "expire"
                                   ELSE IF op = "claim" /\ pairing.status = "approved" THEN "again" ELSE "done"
    [] op \in {"approve", "reject"} -> IF pairing.status # "pending" THEN "done"
                                       ELSE IF pastTtl THEN "expire" ELSE "write"
    [] op = "redeem" -> IF pairing.status = "approved" /\ pairing.token /\ ~pastTtl THEN "register" ELSE "done"

ReadPairing(c) ==
  \E op \in {"view", "claim", "approve", "reject", "redeem"} :
    /\ pairCall[c].pc = "idle" /\ pairing.status # "none"
    /\ op \in {"view", "claim"} => pairing.code
    /\ op = "redeem" => holder
    /\ pairCall' = [pairCall EXCEPT ![c] = [op |-> op, pc |-> NextStep(op)]]
    /\ claimsMet' = (claimsMet \/ (op = "claim" /\ \E o \in PairCalls : pairCall[o].op = "claim" /\ pairCall[o].pc \notin {"idle", "done"}))
    /\ UNCHANGED <<pairing, pastTtl, holder, entered, enrolled, dead>>

\* An overdue row is marked by id, whatever it says by now.
MarkExpired(c) ==
  /\ pairCall[c].pc = "expire" /\ PairGoto(c, "done")
  /\ pairing' = [pairing EXCEPT !.status = "expired"]
  /\ OnlyRow

ApproveEnrollment(c) ==
  /\ PairAt(c, "approve", "write") /\ PairGoto(c, "done")
  /\ pairing' = [pairing EXCEPT !.status = "approved", !.token = TRUE]
  /\ holder' = TRUE
  /\ UNCHANGED <<pastTtl, entered, enrolled, claimsMet, dead>>

RejectPairing(c) ==
  /\ PairAt(c, "reject", "write") /\ PairGoto(c, "done")
  /\ pairing' = [pairing EXCEPT !.status = "rejected"]
  /\ OnlyRow

\* claimEnrollment reads the row a second time: the token must still be there.
ReadAgain(c) ==
  /\ PairAt(c, "claim", "again") /\ OnlyPairCall
  /\ PairGoto(c, IF pairing.token /\ ~pastTtl THEN "session" ELSE "done")

ClaimSession(c) ==
  /\ PairAt(c, "claim", "session") /\ PairGoto(c, "complete")
  /\ entered' = entered \cup {c}
  /\ UNCHANGED <<pairing, pastTtl, holder, enrolled, claimsMet, dead>>

\* verifyRegistration may refuse, then the row stays.
RegisterByToken(c) ==
  /\ PairAt(c, "redeem", "register")
  /\ \/ /\ enrolled' = enrolled \cup {c} /\ PairGoto(c, "complete")
     \/ /\ PairGoto(c, "done") /\ UNCHANGED enrolled
  /\ UNCHANGED <<pairing, pastTtl, holder, entered, claimsMet, dead>>

CompletePairing_keepsToken(c) ==
  /\ pairCall[c].pc = "complete" /\ PairGoto(c, "done")
  /\ UNCHANGED pairing /\ OnlyRow

CompletePairing(c) ==
  /\ pairCall[c].pc = "complete" /\ PairGoto(c, "done")
  /\ pairing' = [pairing EXCEPT !.status = "completed", !.token = FALSE]
  /\ OnlyRow

PairCallDies(c) ==
  /\ pairCall[c].pc \notin {"idle", "done"} /\ Cardinality(dead) < PairDeaths
  /\ PairGoto(c, "done") /\ dead' = dead \cup {c}
  /\ UNCHANGED <<pairing, pastTtl, holder, entered, enrolled, claimsMet>>

PairInit ==
  /\ pairing = [status |-> "none", code |-> FALSE, token |-> FALSE]
  /\ pastTtl = FALSE /\ holder = FALSE /\ claimsMet = FALSE
  /\ pairCall = [c \in PairCalls |-> [op |-> "view", pc |-> "idle"]]
  /\ entered = {} /\ enrolled = {} /\ dead = {}

PairNext ==
  \/ CreateEnrollmentInvite \/ CreatePairingRequest \/ Expire
  \/ \E c \in PairCalls :
       ReadPairing(c) \/ MarkExpired(c) \/ ApproveEnrollment(c) \/ RejectPairing(c) \/ ReadAgain(c)
         \/ ClaimSession(c) \/ RegisterByToken(c) \/ CompletePairing(c) \/ PairCallDies(c)

PairSpec == PairInit /\ [][PairNext]_pairVars

-----------------------------------------------------------------------------
(* A sign-in code opens one session: claimEnrollment marks the code used    *)
(* only after it made the session, so a second session appears only when    *)
(* two claims overlapped or one died in between.                            *)
CodeOpensOnce == Cardinality(entered) > 1 => claimsMet \/ entered \cap dead # {}
=============================================================================
