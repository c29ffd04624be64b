------------------------------ MODULE Ceremonies ------------------------------
(***************************************************************************)
(* Sign-in ceremonies (modules/authentication): WebAuthn and silent        *)
(* challenges, the signature counter, and the first registration on a      *)
(* phone, known by its install id.  A challenge row is read, judged and    *)
(* then consumed by an unconditional update, so the checks of two calls    *)
(* may interleave.  Whether an authenticator's answer verifies is the      *)
(* library's affair: it may or it may not.                                 *)
(***************************************************************************)
EXTENDS Naturals, FiniteSets

CONSTANTS CerCalls, Chals, Accounts, Installs, Nobody,
          MaxTicks      \* bound: assertions one authenticator makes

ASSUME CeremoniesAssumption == MaxTicks \in Nat

VARIABLES chal,      \* WebAuthnChallenge rows
          overdue,   \* challenges past expiresAt
          account,   \* users: none, pending_verification or active
          install,   \* DeviceInstall: the user each phone is bound to
          counter,   \* Credential.counter of the one passkey of each account
          tick,      \* the counter inside that account's authenticator
          warned,    \* accounts with a signature counter warning in the audit log
          ceremony,  \* what each call is doing
          accepted,  \* history: challenge and call of every consumption that was told ok
          met,       \* history: challenges read open by two calls in flight at once
          raced,     \* history: accounts with two assertions in flight at once
          crowded    \* history: installs with two registrations in flight at once

cerVars == <<chal, overdue, account, install, counter, tick, warned, ceremony,
             accepted, met, raced, crowded>>

Purposes == {"registration", "authentication", "reauthentication", "silent"}

Wanted(op) == CASE op = "register" -> {"registration"}
                [] op = "login" -> {"authentication", "reauthentication"}
                [] op = "reauth" -> {"reauthentication"}
                [] op = "silent" -> {"silent"}

Cer(c) == ceremony[c]
CerAt(c, pc) == Cer(c).pc = pc
CerBusy(c) == Cer(c).pc \notin {"idle", "done", "stray"}
CerGoto(c, pc) ==  \* a finished call leaves nothing behind
  ceremony' = [ceremony EXCEPT ![c] = IF pc = "done" THEN [pc |-> pc] ELSE [@ EXCEPT !.pc = pc]]

NotPhone == UNCHANGED <<account, install, crowded>>
NotCounter == UNCHANGED <<counter, tick, warned, raced>>
NotChal == UNCHANGED <<chal, overdue, accepted, met>>

-----------------------------------------------------------------------------
\* The options handlers store a challenge; a sign-in may or may not name its user.
Store(x, p, u) ==
  /\ chal[x].status = "none"
  /\ chal' = [chal EXCEPT ![x] = [status |-> "open", purpose |-> p, user |-> u]]
  /\ UNCHANGED <<overdue, accepted, met, ceremony>> /\ NotPhone /\ NotCounter

OfferRegistration(x) == \E u \in Accounts : account[u] # "none" /\ Store(x, "registration", u)
OfferLogin(x) == \E u \in Accounts \cup {Nobody} : Store(x, "authentication", u)
OfferReauthentication(x) == \E u \in Accounts : account[u] = "active" /\ Store(x, "reauthentication", u)
OfferSilent(x) == Store(x, "silent", Nobody)

ChallengeExpires(x) ==
  /\ chal[x].status = "open" /\ x \notin overdue /\ overdue' = overdue \cup {x}
  /\ UNCHANGED <<chal, accepted, met, ceremony>> /\ NotPhone /\ NotCounter

\* beginSilentRegistration and registerIdentity: a new user, on a phone that is not bound.
BeginRegistration(u) ==
  /\ account[u] = "none" /\ \E i \in Installs : install[i] = Nobody
  /\ account' = [account EXCEPT ![u] = "pending"]
  /\ UNCHANGED <<install, crowded, ceremony>> /\ NotChal /\ NotCounter

\* assertInstallAvailableForNewTrustId
PhoneFree_unchecked(op, i) == TRUE

PhoneFree(op, i) == op = "register" => install[i] = Nobody

StartCeremony(c) ==
  \E op \in {"register", "login", "reauth", "silent"}, x \in Chals, u \in Accounts, i \in Installs, n \in 0 .. MaxTicks :
    /\ CerAt(c, "idle") /\ chal[x].status # "none" /\ account[u] # "none"
    /\ (op # "register") => account[u] = "active"
    /\ PhoneFree(op, i)
    /\ LET asserts == op \in {"login", "reauth"}
           others == {o \in CerCalls : CerBusy(o)} IN
       /\ IF asserts THEN n > tick[u] ELSE n = 0  \* the authenticator counts for other sites too
       /\ ceremony' = [ceremony EXCEPT ![c] =
            [op |-> op, pc |-> "read", x |-> x, user |-> u, at |-> i, stored |-> counter[u], new |-> n]]
       /\ tick' = IF asserts THEN [tick EXCEPT ![u] = n] ELSE tick
       /\ raced' = IF asserts /\ \E o \in others : Cer(o).op \in {"login", "reauth"} /\ Cer(o).user = u
                   THEN raced \cup {u} ELSE raced
       /\ crowded' = IF op = "register" /\ \E o \in others : Cer(o).op = "register" /\ Cer(o).at = i
                     THEN crowded \cup {i} ELSE crowded
    /\ UNCHANGED <<account, install, counter, warned>> /\ NotChal

\* consumeWebAuthnChallenge: the read and its checks ...
UserFits(c) ==
  Cer(c).op \in {"register", "reauth"} => chal[Cer(c).x].user \in {Nobody, Cer(c).user}

ReadChallenge_replayable(c) ==
  LET x == Cer(c).x IN
  /\ CerAt(c, "read")
  /\ CerGoto(c, IF x \in overdue THEN "spoil" ELSE "consume")
  /\ UNCHANGED <<chal, overdue, accepted, met>> /\ NotPhone /\ NotCounter

ReadChallenge(c) ==
  LET x == Cer(c).x
      passes == chal[x].purpose \in Wanted(Cer(c).op) /\ UserFits(c) IN
  /\ CerAt(c, "read")
  /\ CerGoto(c, IF chal[x].status = "used" THEN "done"
                ELSE IF x \in overdue THEN "spoil" ELSE IF passes THEN "consume" ELSE "done")
  /\ met' = IF \E o \in CerCalls \ {c} : CerAt(o, "consume") /\ Cer(o).x = x THEN met \cup {x} ELSE met
  /\ UNCHANGED <<chal, overdue, accepted>> /\ NotPhone /\ NotCounter

SpoilChallenge(c) ==
  /\ CerAt(c, "spoil") /\ CerGoto(c, "done")
  /\ chal' = [chal EXCEPT ![Cer(c).x].status = "used"]
  /\ UNCHANGED <<overdue, accepted, met>> /\ NotPhone /\ NotCounter

\* ... and the update, by id alone.  A login then compares the user the challenge was made for.
ConsumeChallenge(c) ==
  LET x == Cer(c).x IN
  /\ CerAt(c, "consume")
  /\ chal' = [chal EXCEPT ![x].status = "used"]
  /\ accepted' = accepted \cup {<<x, c>>}
  /\ CerGoto(c, IF Cer(c).op = "login" /\ chal[x].user \notin {Nobody, Cer(c).user} THEN "done" ELSE "verify")
  /\ UNCHANGED <<overdue, met>> /\ NotPhone /\ NotCounter

VerifyAnswer(c) ==
  /\ CerAt(c, "verify") /\ Cer(c).op # "silent"
  /\ \/ CerGoto(c, "done")
     \/ CerGoto(c, IF Cer(c).op = "register" THEN "credential" ELSE "counter")
  /\ NotChal /\ NotPhone /\ NotCounter

\* silentAssertNative: the signature is checked with the key stored for the device; no counter.
AnswerSilently(c) ==
  /\ CerAt(c, "verify") /\ Cer(c).op = "silent" /\ CerGoto(c, "done")
  /\ NotChal /\ NotPhone /\ NotCounter

\* evaluateSignatureCounter: never refuses, warns when the counter did not grow.
CounterWarns_onlyEqual(stored, new) == new = stored /\ new # 0
CounterWarns(stored, new) == ~(new > stored) /\ ~(new = 0 /\ stored = 0)

\* The warning is judged against the row as it was read; the update is by id.  Reauthentication
\* throws the judgement away.
StoreCounter(c) ==
  LET u == Cer(c).user IN
  /\ CerAt(c, "counter") /\ CerGoto(c, "done")
  /\ counter' = [counter EXCEPT ![u] = Cer(c).new]
  /\ warned' = IF Cer(c).op = "login" /\ CounterWarns(Cer(c).stored, Cer(c).new) THEN warned \cup {u} ELSE warned
  /\ UNCHANGED <<tick, raced>> /\ NotChal /\ NotPhone

\* A passkey restored from a backup, or a clone, counts from an earlier value.
AuthenticatorRestored(u) ==
  /\ tick[u] > 0 /\ tick' = [tick EXCEPT ![u] = 0]
  /\ UNCHANGED <<counter, warned, raced, ceremony>> /\ NotChal /\ NotPhone

\* verifyRegistration writes the device and the credential, activates the user ...
ActivateAccount(c) ==
  /\ CerAt(c, "credential") /\ CerGoto(c, "bind")
  /\ account' = [account EXCEPT ![Cer(c).user] = "active"]
  /\ UNCHANGED <<install, crowded>> /\ NotChal /\ NotCounter

\* ... and only then binds the phone; a phone bound to another meanwhile fails the call, the account stays.
BindInstall(c) ==
  /\ CerAt(c, "bind") /\ CerGoto(c, IF install[Cer(c).at] \in {Nobody, Cer(c).user} THEN "done" ELSE "stray")
  /\ install' = [install EXCEPT ![Cer(c).at] = IF @ = Nobody THEN Cer(c).user ELSE @]
  /\ UNCHANGED <<account, crowded>> /\ NotChal /\ NotCounter

CerInit ==
  /\ chal = [x \in Chals |-> [status |-> "none", purpose |-> "silent", user |-> Nobody]]
  /\ overdue = {} /\ accepted = {} /\ met = {} /\ raced = {} /\ crowded = {} /\ warned = {}
  /\ \E s \in {"none", "active"} : account = [u \in Accounts |-> s]
  /\ install = [i \in Installs |-> Nobody]
  /\ counter = [u \in Accounts |-> 0] /\ tick = [u \in Accounts |-> 0]
  /\ ceremony = [c \in CerCalls |-> [pc |-> "idle"]]

CerStep(c) ==
  \/ StartCeremony(c) \/ ReadChallenge(c) \/ SpoilChallenge(c) \/ ConsumeChallenge(c) \/ VerifyAnswer(c)
  \/ AnswerSilently(c) \/ StoreCounter(c) \/ ActivateAccount(c) \/ BindInstall(c)

CerNext ==
  \/ \E x \in Chals :
       \/ OfferRegistration(x) \/ OfferLogin(x) \/ OfferReauthentication(x) \/ OfferSilent(x)
       \/ ChallengeExpires(x)
  \/ \E u \in Accounts : BeginRegistration(u) \/ AuthenticatorRestored(u)
  \/ \E c \in CerCalls : CerStep(c)

CerSpec == CerInit /\ [][CerNext]_cerVars

-----------------------------------------------------------------------------
(* A challenge is accepted once, except by calls that both read it before   *)
(* either consumed it: consumeWebAuthnChallenge and consumeSilentChallenge  *)
(* update the row without asking whether it is still unconsumed.            *)
AcceptedOnce ==
  \A x \in Chals, c, d \in CerCalls : <<x, c>> \in accepted /\ <<x, d>> \in accepted /\ c # d => x \in met

(* The stored signature counter goes back only with a warning in the audit  *)
(* log, by a reauthentication (which ignores the judgement), or when two    *)
(* assertions of the account were judged against one stored value.          *)
RollbackIsWarned ==
  \A u \in Accounts :
    counter'[u] < counter[u] =>
      \/ u \in warned' \cup raced
      \/ \E c \in CerCalls : CerAt(c, "counter") /\ Cer(c).op = "reauth" /\ Cer(c).user = u

(* verifyRegistration activates the account before it binds the phone: an   *)
(* account is left active on a phone that already belongs to another one    *)
(* only when two registrations on that phone were in flight at once.        *)
StrayAccountsMet == \A c \in CerCalls : CerAt(c, "stray") => Cer(c).at \in crowded

(* A challenge and a phone's first account are used once, and no counter    *)
(* goes back in silence.                                                    *)
CeremoniesAreSound ==
  /\ [](AcceptedOnce /\ StrayAccountsMet)
  /\ [][RollbackIsWarned]_cerVars
=============================================================================
