----------------------------- MODULE TrustBridge -----------------------------
(***************************************************************************)
(* How a Trust ID becomes an owner of the relying party Digi: the API      *)
(* issues a signed subject assertion (modules/trust-bridge/                *)
(* digi-assertion.ts), and Digi exchanges it for a session of its own      *)
(* (packages/digi-bridge, apps/digi-rp).                                   *)
(*                                                                         *)
(* Digi verifies outside of any transaction, with a cached copy of the     *)
(* published keys; the three writes of an exchange are one transaction of  *)
(* PostgreSQL.  A row a transaction inserted is invisible to the others    *)
(* until it commits, and an insert of the same key waits for its outcome.  *)
(***************************************************************************)
EXTENDS Naturals, FiniteSets

CONSTANTS IssueCalls,     \* calls of POST /trust/assertions/digi, each one jti
          ExchangeCalls,  \* calls of POST /auth/trustid/exchange, each one owner id
          Subjects,       \* Trust IDs
          MaxPerWindow,   \* issueMaxPerWindow: assertions of a user per window
          MaxWindows,     \* bound: windows of the rate limit that pass
          MaxFailures     \* bound: database failures

ASSUME TrustBridgeAssumption == MaxPerWindow \in Nat \ {0} /\ MaxWindows \in Nat /\ MaxFailures \in Nat

VARIABLES keys,        \* number of AssertionSigningKey rows; the newest one signs
          hits,        \* per user, issues in the current window
          windows,
          issue,       \* what each issuing call is doing
          minted,      \* assertions handed out: [jti, subject, kid]
          lapsed,      \* jtis past their exp claim
          cache,       \* kids Digi holds; {} before the first load
          pending,     \* rows inserted by a transaction still open: [by, row]
          spent,       \* consumed_assertions
          identities,  \* external_identities: [subject, owner]
          owners,      \* digi_owners
          sessions,    \* digi_sessions: [id, owner, jti]
          ended,       \* sessions expired or revoked
          exchange,    \* what each exchanging call is doing
          failures

bridgeVars == <<keys, hits, windows, issue, minted, lapsed, cache, pending, spent,
                identities, owners, sessions, ended, exchange, failures>>

KeepIssue == UNCHANGED <<keys, hits, windows, issue, minted>>
KeepTables == UNCHANGED <<spent, identities, owners, sessions>>
KeepDigi == /\ UNCHANGED <<cache, pending, exchange, failures, ended>> /\ KeepTables

-----------------------------------------------------------------------------
(* Issuing.  The rate limit and the account are checked before the first    *)
(* await that matters; two first calls may both find no key and make one.   *)
StartIssue(c, s) ==
  /\ issue[c].pc = "idle" /\ hits[s] < MaxPerWindow
  /\ hits' = [hits EXCEPT ![s] = @ + 1]
  /\ issue' = [issue EXCEPT ![c] = IF keys = 0 THEN [pc |-> "make", subject |-> s]
                                               ELSE [pc |-> "sign", subject |-> s, kid |-> keys]]
  /\ UNCHANGED <<keys, windows, minted, lapsed>> /\ KeepDigi

RefuseIssue(c, s) ==
  /\ issue[c].pc = "idle" /\ hits[s] >= MaxPerWindow
  /\ issue' = [issue EXCEPT ![c] = [pc |-> "done"]]
  /\ UNCHANGED <<keys, hits, windows, minted, lapsed>> /\ KeepDigi

WindowPasses ==
  /\ windows < MaxWindows /\ windows' = windows + 1
  /\ hits' = [s \in Subjects |-> 0]
  /\ UNCHANGED <<keys, issue, minted, lapsed>> /\ KeepDigi

MakeKey(c) ==
  /\ issue[c].pc = "make"
  /\ keys' = keys + 1
  /\ issue' = [issue EXCEPT ![c] = [pc |-> "sign", subject |-> @.subject, kid |-> keys + 1]]
  /\ UNCHANGED <<hits, windows, minted, lapsed>> /\ KeepDigi

\* Signing, the assertionJti row and the answer.
Mint(c) ==
  /\ issue[c].pc = "sign"
  /\ minted' = minted \cup {[jti |-> c, subject |-> issue[c].subject, kid |-> issue[c].kid]}
  /\ issue' = [issue EXCEPT ![c] = [pc |-> "done"]]
  /\ UNCHANGED <<keys, hits, windows, lapsed>> /\ KeepDigi

AssertionLapses(a) ==
  /\ a \in minted /\ a.jti \notin lapsed /\ lapsed' = lapsed \cup {a.jti}
  /\ KeepIssue /\ KeepDigi

\* getJwks publishes the newest five keys.
Published == {k \in 1..keys : k > keys - 5}

-----------------------------------------------------------------------------
(* Verification: the kid must be in the cache, loaded again at most once.   *)
ExGoto(c, pc) == exchange' = [exchange EXCEPT ![c] = IF pc = "done" THEN [pc |-> pc] ELSE [@ EXCEPT !.pc = pc]]

StartExchange(c, a) ==
  /\ exchange[c].pc = "idle" /\ a \in minted
  /\ \E pc \in {"fetch"} \cup {"verify" : k \in cache \cap {a.kid}} :
        exchange' = [exchange EXCEPT ![c] = [pc |-> pc, a |-> a]]
  /\ UNCHANGED <<lapsed, cache, pending, failures, ended>> /\ KeepTables /\ KeepIssue

\* The keys are loaded: at the first use, when they are old, or once more for an unknown kid.
\* Without them the answer is 503.
FetchKeys(c) ==
  /\ exchange[c].pc = "fetch"
  /\ \/ cache' = Published /\ ExGoto(c, IF exchange[c].a.kid \in Published THEN "verify" ELSE "done")
     \/ cache' = cache /\ ExGoto(c, "done")
  /\ UNCHANGED <<lapsed, pending, failures, ended>> /\ KeepTables /\ KeepIssue

Verify(c) ==
  /\ exchange[c].pc = "verify"
  /\ ExGoto(c, IF exchange[c].a.jti \in lapsed THEN "done" ELSE "consume")
  /\ UNCHANGED <<lapsed, cache, pending, failures, ended>> /\ KeepTables /\ KeepIssue

-----------------------------------------------------------------------------
(* The transaction: jti, owner and identity, session, COMMIT.               *)
Inserted(c) == {p \in pending : p.by = c}
HeldByAnother(c, row) == \E p \in pending : p.by # c /\ p.row = row
Insert(c, row) == pending' = pending \cup {[by |-> c, row |-> row]}

JtiRow(a) == [table |-> "consumed_assertions", key |-> a.jti]
SubjectRow(a) == [table |-> "external_identities", key |-> a.subject]

TryConsume(c) ==
  LET a == exchange[c].a IN
  /\ exchange[c].pc = "consume" /\ ~HeldByAnother(c, JtiRow(a))
  /\ IF a.jti \in spent
     THEN ExGoto(c, "done") /\ UNCHANGED pending
     ELSE ExGoto(c, "owner") /\ Insert(c, JtiRow(a))
  /\ UNCHANGED <<lapsed, cache, failures, ended>> /\ KeepTables /\ KeepIssue

ResolveOrCreate_always(c) ==
  /\ exchange[c].pc = "owner"
  /\ Insert(c, SubjectRow(exchange[c].a))
  /\ exchange' = [exchange EXCEPT ![c] = [pc |-> "session", a |-> @.a, owner |-> c]]
  /\ UNCHANGED <<lapsed, cache, failures, ended>> /\ KeepTables /\ KeepIssue

\* The owner inserted first is deleted again when the subject turns out to have one.
ResolveOrCreate(c) ==
  LET a == exchange[c].a
      known == {i \in identities : i.subject = a.subject}
  IN
  /\ exchange[c].pc = "owner" /\ ~HeldByAnother(c, SubjectRow(a))
  /\ IF known = {}
     THEN /\ Insert(c, SubjectRow(a))
          /\ exchange' = [exchange EXCEPT ![c] = [pc |-> "session", a |-> a, owner |-> c]]
     ELSE /\ UNCHANGED pending
          /\ \E i \in known : exchange' = [exchange EXCEPT ![c] = [pc |-> "session", a |-> a, owner |-> i.owner]]
  /\ UNCHANGED <<lapsed, cache, failures, ended>> /\ KeepTables /\ KeepIssue

CreateRpSession(c) ==
  /\ exchange[c].pc = "session" /\ ExGoto(c, "commit")
  /\ UNCHANGED <<lapsed, cache, pending, failures, ended>> /\ KeepTables /\ KeepIssue

\* The answer follows, whether or not the audit sink takes its records.
Commit(c) ==
  LET e == exchange[c]
      new == {p \in Inserted(c) : p.row.table = "external_identities"} # {}
  IN
  /\ e.pc = "commit" /\ ExGoto(c, "done")
  /\ pending' = pending \ Inserted(c)
  /\ spent' = spent \cup {e.a.jti}
  /\ identities' = IF new THEN identities \cup {[subject |-> e.a.subject, owner |-> c]} ELSE identities
  /\ owners' = IF new THEN owners \cup {c} ELSE owners
  /\ sessions' = sessions \cup {[id |-> c, owner |-> e.owner, jti |-> e.a.jti]}
  /\ UNCHANGED <<lapsed, cache, failures, ended>> /\ KeepIssue

Rollback_keepsJti(c) ==
  /\ exchange[c].pc \in {"owner", "session", "commit"} /\ failures < MaxFailures
  /\ failures' = failures + 1 /\ ExGoto(c, "done")
  /\ pending' = pending \ Inserted(c)
  /\ spent' = spent \cup {exchange[c].a.jti}
  /\ UNCHANGED <<identities, owners, sessions, lapsed, cache, ended>> /\ KeepIssue

\* A statement fails, or the process ends: PostgreSQL rolls back, the answer is 503.
Rollback(c) ==
  /\ exchange[c].pc \in {"owner", "session", "commit"} /\ failures < MaxFailures
  /\ failures' = failures + 1 /\ ExGoto(c, "done")
  /\ pending' = pending \ Inserted(c)
  /\ UNCHANGED <<lapsed, cache, ended>> /\ KeepTables /\ KeepIssue

\* revoke, or the eight hours of a session are over; resolve then answers null.
SessionEnds(s) ==
  /\ s \in sessions /\ s.id \notin ended /\ ended' = ended \cup {s.id}
  /\ UNCHANGED <<lapsed, cache, pending, exchange, failures>> /\ KeepTables /\ KeepIssue

-----------------------------------------------------------------------------
BridgeInit ==
  /\ keys = 0 /\ hits = [s \in Subjects |-> 0] /\ windows = 0 /\ failures = 0
  /\ issue = [c \in IssueCalls |-> [pc |-> "idle"]]
  /\ exchange = [c \in ExchangeCalls |-> [pc |-> "idle"]]
  /\ minted = {} /\ lapsed = {} /\ cache = {} /\ pending = {} /\ spent = {}
  /\ identities = {} /\ owners = {} /\ sessions = {} /\ ended = {}

BridgeNext ==
  \/ WindowPasses
  \/ \E c \in IssueCalls, s \in Subjects : StartIssue(c, s) \/ RefuseIssue(c, s)
  \/ \E c \in IssueCalls : MakeKey(c) \/ Mint(c)
  \/ \E a \in minted : AssertionLapses(a)
  \/ \E c \in ExchangeCalls, a \in minted : StartExchange(c, a)
  \/ \E c \in ExchangeCalls :
       \/ FetchKeys(c) \/ Verify(c) \/ TryConsume(c) \/ ResolveOrCreate(c)
       \/ CreateRpSession(c) \/ Commit(c) \/ Rollback(c)
  \/ \E s \in sessions : SessionEnds(s)

BridgeSpec == BridgeInit /\ [][BridgeNext]_bridgeVars

-----------------------------------------------------------------------------
(* An assertion is spent exactly when it gave a session, and one only; a    *)
(* subject has one owner, whichever of its first exchanges ran at once,     *)
(* every owner stands for a subject, and sessions are of the owner of the   *)
(* assertion's subject.                                                     *)
OneSessionEach ==
  /\ spent = {s.jti : s \in sessions}
  /\ \A s, t \in sessions : s.jti = t.jti => s = t
  /\ \A i, j \in identities : i.subject = j.subject => i = j
  /\ owners = {i.owner : i \in identities}
  /\ \A s \in sessions : \E a \in minted, i \in identities :
        a.jti = s.jti /\ i.subject = a.subject /\ i.owner = s.owner

(* An assertion as a one-time ticket: issued when it is handed out, taken   *)
(* by the exchange whose transaction commits.                               *)
Assertion == INSTANCE OneTimeTicket
               WITH Tickets <- IssueCalls, Takers <- ExchangeCalls,
                    open <- {a.jti : a \in minted} \ spent,
                    taken <- [k \in IssueCalls |-> {s.id : s \in {t \in sessions : t.jti = k}}]

(* However exchanges race, fail and try again, an assertion is taken once,  *)
(* by one of them, and a failed exchange leaves it usable                   *)
(* (postgres-stores.ts: "an assertion is consumed only when the session     *)
(* commit succeeds").  No step leaves an assertion spent for nothing.       *)
SpentForOneSession ==
  /\ OneSessionEach /\ [][OneSessionEach']_bridgeVars
  /\ Assertion!TicketSpec
=============================================================================
