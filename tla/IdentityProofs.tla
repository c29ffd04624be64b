-------------------------- MODULE IdentityProofs ---------------------------
(* Theorems about the components that prove who a user is.  They hold for  *)
(* any number of calls, portraits, circles and sessions; the runs of       *)
(* MCIdentity check the same properties on small instances.                *)
EXTENDS Ceremonies, VerifiedIdentity, Recovery, DeviceKeys, LockGuard, FiniteSetTheorems, SequenceTheorems, TLAPS

-----------------------------------------------------------------------------
(* Sign-in ceremonies *)

CerPcs == {"read", "spoil", "consume", "verify", "credential", "counter", "bind", "stray"}

(* A call in flight, or left with a stray account.                          *)
CeremonyRecord ==
  [op : {"register", "login", "reauth", "silent"}, pc : CerPcs, x : Chals, user : Accounts,
   at : Installs, stored : Nat, new : Nat]

CerTypeOK ==
  /\ chal \in [Chals -> [status : {"none", "open", "used"}, purpose : Purposes,
                         user : Accounts \cup {Nobody}]]
  /\ install \in [Installs -> Accounts \cup {Nobody}]
  /\ counter \in [Accounts -> Nat] /\ tick \in [Accounts -> Nat]
  /\ ceremony \in [CerCalls -> [pc : {"idle", "done"}] \cup CeremonyRecord]
  /\ \A c \in CerCalls :
       /\ Cer(c).pc \in CerPcs => Cer(c) \in CeremonyRecord
       /\ Cer(c).pc \in {"credential", "bind", "stray"} => Cer(c).op = "register"
       /\ Cer(c).pc = "counter" => Cer(c).op \in {"login", "reauth"}

(* An accepted challenge is used, and of the calls that read one open, a    *)
(* second to consume it was met by the first.                               *)
AcceptInv ==
  /\ \A x \in Chals, c \in CerCalls : <<x, c>> \in accepted => chal[x].status = "used"
  /\ \A c, d \in CerCalls :
       c # d /\ CerAt(c, "consume")
             /\ \/ CerAt(d, "consume") /\ Cer(d).x = Cer(c).x
                \/ <<Cer(c).x, d>> \in accepted
       => Cer(c).x \in met
  /\ AcceptedOnce

Registers(c) == CerBusy(c) /\ Cer(c).op = "register"

(* A phone bound under a registration was bound by another one beside it.   *)
PhoneInv ==
  /\ \A c \in CerCalls : Registers(c) /\ install[Cer(c).at] # Nobody => Cer(c).at \in crowded
  /\ \A c, d \in CerCalls :
       c # d /\ Registers(c) /\ Registers(d) /\ Cer(c).at = Cer(d).at => Cer(c).at \in crowded
  /\ StrayAccountsMet

AnswersFor(c) == CerBusy(c) /\ Cer(c).op \in {"login", "reauth"}

(* The counter a call judges against is the stored one, but in a race.      *)
CountInv ==
  /\ \A c \in CerCalls : AnswersFor(c) => Cer(c).stored = counter[Cer(c).user] \/ Cer(c).user \in raced
  /\ \A c, d \in CerCalls :
       c # d /\ AnswersFor(c) /\ AnswersFor(d) /\ Cer(c).user = Cer(d).user => Cer(c).user \in raced

CerInv == CerTypeOK /\ AcceptInv /\ PhoneInv /\ CountInv

LEMMA CerInitInv == CerInit => CerInv
<1> SUFFICES ASSUME CerInit PROVE CerInv
  OBVIOUS
<1>1. \A c \in CerCalls : Cer(c) = [pc |-> "idle"] /\ ~CerBusy(c)
  BY DEF CerInit, Cer, CerBusy
<1>2. CerTypeOK
  BY <1>1 DEF CerInit, CerTypeOK, CerPcs, Purposes
<1>3. AcceptInv
  BY <1>1 DEF CerInit, AcceptInv, AcceptedOnce, CerAt
<1>4. PhoneInv /\ CountInv
  BY <1>1 DEF PhoneInv, CountInv, StrayAccountsMet, Registers, AnswersFor, CerAt
<1> QED BY <1>2, <1>3, <1>4 DEF CerInv

(* A call in flight afterwards was in flight before, for the same things.   *)
Continues(c) ==
  CerBusy(c)' => /\ CerBusy(c) /\ Cer(c)'.op = Cer(c).op /\ Cer(c)'.x = Cer(c).x
                 /\ Cer(c)'.user = Cer(c).user /\ Cer(c)'.at = Cer(c).at
                 /\ Cer(c)'.stored = Cer(c).stored

LEMMA Goes ==
  ASSUME CerTypeOK, NEW c \in CerCalls, CerBusy(c), NEW pc \in CerPcs \cup {"done"}, CerGoto(c, pc),
         pc \in {"credential", "bind", "stray"} => Cer(c).op = "register",
         pc = "counter" => Cer(c).op \in {"login", "reauth"}
  PROVE  /\ Cer(c)'.pc = pc /\ \A d \in CerCalls \ {c} : Cer(d)' = Cer(d)
         /\ \A d \in CerCalls : Continues(d)
         /\ pc # "done" => Cer(c)'.at = Cer(c).at /\ Cer(c)'.x = Cer(c).x
         /\ ceremony' \in [CerCalls -> [pc : {"idle", "done"}] \cup CeremonyRecord]
         /\ \A d \in CerCalls :
              /\ Cer(d)'.pc \in CerPcs => Cer(d)' \in CeremonyRecord
              /\ Cer(d)'.pc \in {"credential", "bind", "stray"} => Cer(d)'.op = "register"
              /\ Cer(d)'.pc = "counter" => Cer(d)'.op \in {"login", "reauth"}
<1>1. Cer(c) \in CeremonyRecord
  BY DEF CerTypeOK, CerBusy, Cer, CerPcs, CeremonyRecord
<1>2. \A d \in CerCalls \ {c} : Cer(d)' = Cer(d)
  BY DEF CerTypeOK, CerGoto, Cer
<1>3. CASE pc = "done"
  <2>1. Cer(c)' = [pc |-> "done"]
    BY <1>3 DEF CerTypeOK, CerGoto, Cer
  <2>2. ceremony' \in [CerCalls -> [pc : {"idle", "done"}] \cup CeremonyRecord]
    BY <1>3 DEF CerTypeOK, CerGoto
  <2> QED BY <1>2, <1>3, <2>1, <2>2 DEF CerTypeOK, Continues, CerBusy, CerPcs
<1>4. CASE pc # "done"
  <2>1. Cer(c)' = [Cer(c) EXCEPT !.pc = pc]
    BY <1>4 DEF CerTypeOK, CerGoto, Cer
  <2>2. Cer(c)' \in CeremonyRecord /\ Cer(c)'.pc = pc /\ Cer(c)'.op = Cer(c).op
        /\ Cer(c)'.x = Cer(c).x /\ Cer(c)'.user = Cer(c).user /\ Cer(c)'.at = Cer(c).at
        /\ Cer(c)'.stored = Cer(c).stored
    BY <1>1, <1>4, <2>1 DEF CeremonyRecord
  <2>3. ceremony' \in [CerCalls -> [pc : {"idle", "done"}] \cup CeremonyRecord]
    BY <1>4, <2>2 DEF CerTypeOK, CerGoto, Cer
  <2> QED BY <1>2, <1>4, <2>2, <2>3 DEF CerTypeOK, Continues, CerBusy
<1> QED BY <1>3, <1>4

LEMMA AcceptStands ==
  ASSUME AcceptInv, UNCHANGED <<accepted, met>>,
         \A c \in CerCalls : CerAt(c, "consume")' => CerAt(c, "consume") /\ Cer(c)'.x = Cer(c).x,
         \A x \in Chals : chal[x].status = "used" => chal'[x].status = "used"
  PROVE  AcceptInv'
  BY DEF AcceptInv, AcceptedOnce

LEMMA PhoneStands ==
  ASSUME PhoneInv, \A c \in CerCalls : Continues(c), UNCHANGED <<install, crowded>>,
         \A c \in CerCalls : CerAt(c, "stray")' => CerAt(c, "stray") /\ Cer(c)'.at = Cer(c).at
  PROVE  PhoneInv'
  BY DEF PhoneInv, StrayAccountsMet, Registers, Continues

LEMMA CountStands ==
  ASSUME CountInv, \A c \in CerCalls : Continues(c), UNCHANGED <<counter, raced>>
  PROVE  CountInv'
  BY DEF CountInv, AnswersFor, Continues

(* A call begins: it stands beside those in flight, which are noted.        *)
LEMMA StartStep ==
  ASSUME CerInv, NEW c \in CerCalls, StartCeremony(c)
  PROVE  CerInv'
<1>0. PICK op \in {"register", "login", "reauth", "silent"}, x \in Chals, u \in Accounts,
           i \in Installs, n \in 0 .. MaxTicks :
    /\ CerAt(c, "idle") /\ chal[x].status # "none" /\ account[u] # "none"
    /\ (op # "register") => account[u] = "active"
    /\ PhoneFree(op, i)
    /\ LET asserts == op \in {"login", "reauth"}
           others == {o \in CerCalls : CerBusy(o)} IN
       /\ IF asserts THEN n > tick[u] ELSE n = 0
       /\ ceremony' = [ceremony EXCEPT ![c] =
            [op |-> op, pc |-> "read", x |-> x, user |-> u, at |-> i, stored |-> counter[u], new |-> n]]
       /\ tick' = IF asserts THEN [tick EXCEPT ![u] = n] ELSE tick
       /\ raced' = IF asserts /\ \E o \in others : Cer(o).op \in {"login", "reauth"} /\ Cer(o).user = u
                   THEN raced \cup {u} ELSE raced
       /\ crowded' = IF op = "register" /\ \E o \in others : Cer(o).op = "register" /\ Cer(o).at = i
                     THEN crowded \cup {i} ELSE crowded
    /\ UNCHANGED <<account, install, counter, warned>> /\ NotChal
  BY DEF StartCeremony
<1> UNCHANGED <<chal, accepted, met, install, counter>>
  BY <1>0 DEF NotChal
<1>1. /\ n \in Nat /\ counter[u] \in Nat
      /\ tick' \in [Accounts -> Nat]
  BY <1>0, CeremoniesAssumption DEF CerInv, CerTypeOK
<1>2. /\ Cer(c)' = [op |-> op, pc |-> "read", x |-> x, user |-> u, at |-> i, stored |-> counter[u], new |-> n]
      /\ \A d \in CerCalls \ {c} : Cer(d)' = Cer(d)
  BY <1>0 DEF CerInv, CerTypeOK, Cer
<1>3. Cer(c)' \in CeremonyRecord
  BY <1>1, <1>2 DEF CeremonyRecord, CerPcs
<1>4. CerTypeOK'
  <2>1. ceremony' \in [CerCalls -> [pc : {"idle", "done"}] \cup CeremonyRecord]
    <3>1. \A d \in CerCalls : ceremony'[d] \in [pc : {"idle", "done"}] \cup CeremonyRecord
      BY <1>2, <1>3 DEF CerInv, CerTypeOK, Cer
    <3>2. ceremony' = [d \in CerCalls |-> ceremony'[d]]
      BY <1>0 DEF CerInv, CerTypeOK
    <3> QED BY <3>1, <3>2
  <2>2. \A d \in CerCalls :
          /\ Cer(d)'.pc \in CerPcs => Cer(d)' \in CeremonyRecord
          /\ Cer(d)'.pc \in {"credential", "bind", "stray"} => Cer(d)'.op = "register"
          /\ Cer(d)'.pc = "counter" => Cer(d)'.op \in {"login", "reauth"}
    BY <1>2, <1>3 DEF CerInv, CerTypeOK
  <2> QED BY <1>1, <2>1, <2>2 DEF CerInv, CerTypeOK
<1>5. AcceptInv'
  BY <1>0, <1>2, AcceptStands DEF CerInv, CerAt
<1>6. ~CerBusy(c) /\ CerBusy(c)' /\ \A d \in CerCalls \ {c} : CerBusy(d)' <=> CerBusy(d)
  BY <1>0, <1>2 DEF CerBusy, CerAt
<1>7. PhoneInv'
  <2>1. crowded \subseteq crowded' /\ \A d \in CerCalls \ {c} : Registers(d)' <=> Registers(d)
    BY <1>0, <1>2, <1>6 DEF Registers
  <2>2. Registers(c)' => op = "register" /\ Cer(c)'.at = i /\ install[i] = Nobody
    BY <1>0, <1>2 DEF Registers, PhoneFree
  <2>3. \A d \in CerCalls \ {c} : Registers(c)' /\ Registers(d) /\ Cer(d).at = i => i \in crowded'
    BY <1>0, <2>2 DEF Registers
  <2>4. StrayAccountsMet'
    BY <1>2, <2>1 DEF CerInv, PhoneInv, StrayAccountsMet, CerAt
  <2>5. \A d \in CerCalls : Registers(d)' /\ install'[Cer(d)'.at] # Nobody => Cer(d)'.at \in crowded'
    BY <1>2, <2>1, <2>2 DEF CerInv, PhoneInv
  <2>6. \A d, e \in CerCalls :
          d # e /\ Registers(d)' /\ Registers(e)' /\ Cer(d)'.at = Cer(e)'.at => Cer(d)'.at \in crowded'
    BY <1>2, <2>1, <2>2, <2>3 DEF CerInv, PhoneInv
  <2> QED BY <2>4, <2>5, <2>6 DEF PhoneInv
<1>8. CountInv'
  <2>1. raced \subseteq raced' /\ \A d \in CerCalls \ {c} : AnswersFor(d)' <=> AnswersFor(d)
    BY <1>0, <1>2, <1>6 DEF AnswersFor
  <2>2. AnswersFor(c)' => op \in {"login", "reauth"}
    BY <1>2 DEF AnswersFor
  <2>3. Cer(c)'.user = u /\ Cer(c)'.stored = counter[u]
    BY <1>2
  <2>4. \A d \in CerCalls \ {c} : AnswersFor(c)' /\ AnswersFor(d) /\ Cer(d).user = u => u \in raced'
    BY <1>0, <2>2 DEF AnswersFor
  <2>5. \A d \in CerCalls : AnswersFor(d)' => Cer(d)'.stored = counter'[Cer(d)'.user] \/ Cer(d)'.user \in raced'
    BY <1>2, <2>1, <2>3 DEF CerInv, CountInv
  <2>6. \A d, e \in CerCalls :
          d # e /\ AnswersFor(d)' /\ AnswersFor(e)' /\ Cer(d)'.user = Cer(e)'.user => Cer(d)'.user \in raced'
    BY <1>2, <2>1, <2>3, <2>4 DEF CerInv, CountInv
  <2> QED BY <2>5, <2>6 DEF CountInv
<1> QED BY <1>4, <1>5, <1>7, <1>8 DEF CerInv

(* The first call to read a challenge open does not see the second; the     *)
(* second sees the first.                                                   *)
LEMMA ReadStep ==
  ASSUME CerInv, NEW c \in CerCalls, ReadChallenge(c)
  PROVE  CerInv'
<1> PICK pc \in {"done", "spoil", "consume"} :
      CerGoto(c, pc) /\ (pc = "consume" => chal[Cer(c).x].status # "used")
  BY DEF ReadChallenge
<1>1. CerBusy(c) /\ CerTypeOK /\ Cer(c) \in CeremonyRecord
  BY DEF ReadChallenge, CerAt, CerBusy, CerInv, CerTypeOK, CerPcs
<1>2. /\ Cer(c)'.pc = pc /\ \A d \in CerCalls \ {c} : Cer(d)' = Cer(d)
      /\ \A d \in CerCalls : Continues(d)
      /\ pc # "done" => Cer(c)'.x = Cer(c).x
      /\ CerTypeOK'
  BY <1>1, Goes DEF CerPcs, ReadChallenge, NotPhone, NotCounter, CerTypeOK
<1>3. PhoneInv' /\ CountInv'
  BY <1>2, PhoneStands, CountStands DEF ReadChallenge, NotPhone, NotCounter, CerInv, CerAt
<1>4. AcceptInv'
  <2> DEFINE x == Cer(c).x
  <2>1. UNCHANGED <<chal, accepted>> /\ met \subseteq met' /\ x \in Chals
    BY <1>1 DEF ReadChallenge, CeremonyRecord
  <2>2. \A d \in CerCalls \ {c} : CerAt(d, "consume") /\ Cer(d).x = x => x \in met'
    BY DEF ReadChallenge
  <2>3. \A d \in CerCalls : CerAt(c, "consume")' => <<x, d>> \notin accepted
    BY <1>2, <2>1 DEF CerAt, CerInv, AcceptInv
  <2>4. \A d \in CerCalls \ {c} : CerAt(d, "consume")' <=> CerAt(d, "consume")
    BY <1>2 DEF CerAt
  <2>5. CerAt(c, "consume")' => Cer(c)'.x = x
    BY <1>2 DEF CerAt
  <2>6. ASSUME NEW d \in CerCalls, NEW e \in CerCalls, d # e, CerAt(d, "consume")',
               \/ CerAt(e, "consume")' /\ Cer(e)'.x = Cer(d)'.x
               \/ <<Cer(d)'.x, e>> \in accepted'
        PROVE  Cer(d)'.x \in met'
    <3>1. CASE d = c
      BY <2>1, <2>2, <2>3, <2>4, <2>5, <2>6, <3>1, <1>2
    <3>2. CASE d # c
      <4>1. CerAt(d, "consume") /\ Cer(d)'.x = Cer(d).x
        BY <2>4, <2>6, <3>2, <1>2
      <4>2. CASE e = c /\ CerAt(e, "consume")'
        BY <2>2, <2>5, <2>6, <4>1, <4>2, <2>1 DEF CerInv, AcceptInv
      <4>3. CASE e # c \/ ~CerAt(e, "consume")'
        BY <2>1, <2>4, <2>6, <4>1, <4>3, <1>2 DEF CerInv, AcceptInv
      <4> QED BY <4>2, <4>3
    <3> QED BY <3>1, <3>2
  <2>7. AcceptedOnce' /\ \A y \in Chals, d \in CerCalls : <<y, d>> \in accepted' => chal'[y].status = "used"
    BY <2>1 DEF CerInv, AcceptInv, AcceptedOnce
  <2> QED BY <2>6, <2>7 DEF AcceptInv
<1> QED BY <1>2, <1>3, <1>4 DEF CerInv

LEMMA ConsumeStep ==
  ASSUME CerInv, NEW c \in CerCalls, ConsumeChallenge(c)
  PROVE  CerInv'
<1> DEFINE x == Cer(c).x
<1> PICK pc \in {"done", "verify"} : CerGoto(c, pc)
  BY DEF ConsumeChallenge
<1>1. CerBusy(c) /\ CerTypeOK /\ x \in Chals
  BY DEF ConsumeChallenge, CerAt, CerBusy, CerInv, CerTypeOK, CerPcs, CeremonyRecord
<1>2. /\ Cer(c)'.pc = pc /\ \A d \in CerCalls \ {c} : Cer(d)' = Cer(d)
      /\ \A d \in CerCalls : Continues(d)
      /\ ceremony' \in [CerCalls -> [pc : {"idle", "done"}] \cup CeremonyRecord]
      /\ \A d \in CerCalls :
           /\ Cer(d)'.pc \in CerPcs => Cer(d)' \in CeremonyRecord
           /\ Cer(d)'.pc \in {"credential", "bind", "stray"} => Cer(d)'.op = "register"
           /\ Cer(d)'.pc = "counter" => Cer(d)'.op \in {"login", "reauth"}
  BY <1>1, Goes DEF CerPcs
<1>3. CerTypeOK'
  BY <1>1, <1>2 DEF ConsumeChallenge, NotPhone, NotCounter, CerTypeOK
<1>4. PhoneInv' /\ CountInv'
  BY <1>2, PhoneStands, CountStands DEF ConsumeChallenge, NotPhone, NotCounter, CerInv, CerAt
<1>5. AcceptInv'
  <2>1. /\ chal'[x].status = "used" /\ \A y \in Chals : chal[y].status = "used" => chal'[y].status = "used"
        /\ accepted' = accepted \cup {<<x, c>>} /\ UNCHANGED met /\ CerAt(c, "consume")
    BY <1>1 DEF ConsumeChallenge, CerTypeOK
  <2>2. \A d \in CerCalls : CerAt(d, "consume")' => d # c /\ CerAt(d, "consume") /\ Cer(d)'.x = Cer(d).x
    BY <1>2 DEF CerAt
  <2>3. \A y \in Chals, d \in CerCalls : <<y, d>> \in accepted' => chal'[y].status = "used"
    BY <2>1 DEF CerInv, AcceptInv
  <2>4. \A d \in CerCalls \ {c} : CerAt(d, "consume") /\ Cer(d).x = x => x \in met
    BY <2>1 DEF CerInv, AcceptInv
  <2>5. \A d \in CerCalls \ {c} : <<x, d>> \in accepted => x \in met
    BY <2>1 DEF CerInv, AcceptInv
  <2>6. \A d, e \in CerCalls :
          d # e /\ CerAt(d, "consume")'
                /\ \/ CerAt(e, "consume")' /\ Cer(e)'.x = Cer(d)'.x
                   \/ <<Cer(d)'.x, e>> \in accepted'
          => Cer(d)'.x \in met'
    BY <2>1, <2>2, <2>4 DEF CerInv, AcceptInv
  <2>7. AcceptedOnce'
    BY <2>1, <2>5 DEF CerInv, AcceptInv, AcceptedOnce
  <2> QED BY <2>3, <2>6, <2>7 DEF AcceptInv
<1> QED BY <1>3, <1>4, <1>5 DEF CerInv

(* The steps that only move the call on.                                    *)
LEMMA MoveStep ==
  ASSUME CerInv, NEW c \in CerCalls,
         SpoilChallenge(c) \/ VerifyAnswer(c) \/ AnswerSilently(c) \/ ActivateAccount(c)
  PROVE  CerInv'
<1>1. CerBusy(c) /\ CerTypeOK /\ Cer(c) \in CeremonyRecord
  BY DEF SpoilChallenge, VerifyAnswer, AnswerSilently, ActivateAccount, CerAt, CerBusy, CerInv,
         CerTypeOK, CerPcs
<1>2. PICK pc \in {"done", "credential", "counter", "bind"} :
        /\ CerGoto(c, pc) /\ (pc \in {"credential", "bind"} => Cer(c).op = "register")
        /\ pc = "counter" => Cer(c).op \in {"login", "reauth"}
  BY <1>1 DEF SpoilChallenge, VerifyAnswer, AnswerSilently, ActivateAccount, CerInv, CerTypeOK,
              CeremonyRecord, CerAt
<1>3. /\ Cer(c)'.pc = pc /\ \A d \in CerCalls \ {c} : Cer(d)' = Cer(d)
      /\ \A d \in CerCalls : Continues(d)
      /\ ceremony' \in [CerCalls -> [pc : {"idle", "done"}] \cup CeremonyRecord]
      /\ \A d \in CerCalls :
           /\ Cer(d)'.pc \in CerPcs => Cer(d)' \in CeremonyRecord
           /\ Cer(d)'.pc \in {"credential", "bind", "stray"} => Cer(d)'.op = "register"
           /\ Cer(d)'.pc = "counter" => Cer(d)'.op \in {"login", "reauth"}
  BY <1>1, <1>2, Goes DEF CerPcs
<1>4. /\ UNCHANGED <<install, crowded, counter, tick, raced, accepted, met>>
      /\ chal' \in {chal, [chal EXCEPT ![Cer(c).x].status = "used"]}
  BY DEF SpoilChallenge, VerifyAnswer, AnswerSilently, ActivateAccount, NotChal, NotPhone, NotCounter
<1>5. Cer(c).x \in Chals
  BY <1>1 DEF CeremonyRecord
<1>6. CerTypeOK'
  BY <1>1, <1>3, <1>4, <1>5 DEF CerTypeOK
<1>7. PhoneInv' /\ CountInv'
  BY <1>3, <1>4, PhoneStands, CountStands DEF CerInv, CerAt
<1>8. AcceptInv'
  BY <1>1, <1>3, <1>4, <1>5, AcceptStands DEF CerInv, CerAt, CerTypeOK
<1> QED BY <1>6, <1>7, <1>8 DEF CerInv

LEMMA CountStep ==
  ASSUME CerInv, NEW c \in CerCalls, StoreCounter(c)
  PROVE  CerInv'
<1> DEFINE u == Cer(c).user
<1>1. /\ CerBusy(c) /\ CerTypeOK /\ Cer(c) \in CeremonyRecord /\ u \in Accounts /\ Cer(c).new \in Nat
      /\ AnswersFor(c)
  BY DEF StoreCounter, CerAt, CerBusy, CerInv, CerTypeOK, CerPcs, CeremonyRecord, AnswersFor
<1>2. /\ Cer(c)'.pc = "done" /\ \A d \in CerCalls \ {c} : Cer(d)' = Cer(d)
      /\ \A d \in CerCalls : Continues(d)
      /\ ceremony' \in [CerCalls -> [pc : {"idle", "done"}] \cup CeremonyRecord]
      /\ \A d \in CerCalls :
           /\ Cer(d)'.pc \in CerPcs => Cer(d)' \in CeremonyRecord
           /\ Cer(d)'.pc \in {"credential", "bind", "stray"} => Cer(d)'.op = "register"
           /\ Cer(d)'.pc = "counter" => Cer(d)'.op \in {"login", "reauth"}
  BY <1>1, Goes DEF StoreCounter
<1>3. CerTypeOK'
  BY <1>1, <1>2 DEF StoreCounter, NotPhone, NotChal, CerTypeOK
<1>4. PhoneInv' /\ AcceptInv'
  BY <1>2, PhoneStands, AcceptStands DEF StoreCounter, NotPhone, NotChal, CerInv, CerAt
<1>5. CountInv'
  <2>1. UNCHANGED raced /\ \A v \in Accounts \ {u} : counter'[v] = counter[v]
    BY DEF StoreCounter, CerInv, CerTypeOK
  <2>2. \A d \in CerCalls : AnswersFor(d)' => d # c /\ AnswersFor(d) /\ Cer(d)' = Cer(d)
                                              /\ Cer(d).user \in Accounts
    <3> SUFFICES ASSUME NEW d \in CerCalls, AnswersFor(d)'
                 PROVE  d # c /\ AnswersFor(d) /\ Cer(d)' = Cer(d) /\ Cer(d).user \in Accounts
      OBVIOUS
    <3>1. d # c /\ Cer(d)' = Cer(d) /\ AnswersFor(d)
      BY <1>2 DEF AnswersFor, CerBusy
    <3>2. Cer(d) \in CeremonyRecord
      BY <1>1, <3>1 DEF AnswersFor, CerBusy, CerTypeOK, CerPcs, CeremonyRecord, Cer
    <3> QED BY <3>1, <3>2 DEF CeremonyRecord
  <2>3. \A d \in CerCalls \ {c} : AnswersFor(d) /\ Cer(d).user = u => u \in raced
    BY <1>1 DEF CerInv, CountInv
  <2> QED BY <2>1, <2>2, <2>3 DEF CerInv, CountInv
<1> QED BY <1>3, <1>4, <1>5 DEF CerInv

LEMMA BindStep ==
  ASSUME CerInv, NEW c \in CerCalls, BindInstall(c)
  PROVE  CerInv'
<1> DEFINE i == Cer(c).at
<1> PICK pc \in {"done", "stray"} : CerGoto(c, pc) /\ (pc = "stray" => install[i] # Nobody)
  BY DEF BindInstall
<1>1. /\ CerBusy(c) /\ CerTypeOK /\ Cer(c) \in CeremonyRecord /\ i \in Installs
      /\ Cer(c).user \in Accounts /\ Cer(c).op = "register" /\ Registers(c)
  BY DEF BindInstall, CerAt, CerBusy, CerInv, CerTypeOK, CerPcs, CeremonyRecord, Registers
<1>2. /\ Cer(c)'.pc = pc /\ \A d \in CerCalls \ {c} : Cer(d)' = Cer(d)
      /\ \A d \in CerCalls : Continues(d)
      /\ pc # "done" => Cer(c)'.at = Cer(c).at
      /\ ceremony' \in [CerCalls -> [pc : {"idle", "done"}] \cup CeremonyRecord]
      /\ \A d \in CerCalls :
           /\ Cer(d)'.pc \in CerPcs => Cer(d)' \in CeremonyRecord
           /\ Cer(d)'.pc \in {"credential", "bind", "stray"} => Cer(d)'.op = "register"
           /\ Cer(d)'.pc = "counter" => Cer(d)'.op \in {"login", "reauth"}
  BY <1>1, Goes DEF CerPcs
<1>3. CerTypeOK'
  BY <1>1, <1>2 DEF BindInstall, NotChal, NotCounter, CerTypeOK
<1>4. AcceptInv' /\ CountInv'
  BY <1>2, AcceptStands, CountStands DEF BindInstall, NotChal, NotCounter, CerInv, CerAt
<1>5. PhoneInv'
  <2>1. UNCHANGED crowded /\ \A j \in Installs \ {i} : install'[j] = install[j]
    BY DEF BindInstall, CerInv, CerTypeOK
  <2>2. \A d \in CerCalls : Registers(d)' => d # c /\ Registers(d) /\ Cer(d)' = Cer(d)
                                             /\ Cer(d).at \in Installs
    <3> SUFFICES ASSUME NEW d \in CerCalls, Registers(d)'
                 PROVE  d # c /\ Registers(d) /\ Cer(d)' = Cer(d) /\ Cer(d).at \in Installs
      OBVIOUS
    <3>1. d # c /\ Cer(d)' = Cer(d) /\ Registers(d)
      BY <1>2 DEF Registers, CerBusy
    <3>2. Cer(d) \in CeremonyRecord
      BY <1>1, <3>1 DEF Registers, CerBusy, CerTypeOK, CerPcs, CeremonyRecord, Cer
    <3> QED BY <3>1, <3>2 DEF CeremonyRecord
  <2>3. \A d \in CerCalls \ {c} : Registers(d) /\ Cer(d).at = i => i \in crowded
    BY <1>1 DEF CerInv, PhoneInv
  <2>4. pc = "stray" => i \in crowded
    BY <1>1 DEF CerInv, PhoneInv
  <2>5. StrayAccountsMet'
    BY <1>2, <2>1, <2>4 DEF CerInv, PhoneInv, StrayAccountsMet, CerAt
  <2> QED BY <2>1, <2>2, <2>3, <2>5 DEF CerInv, PhoneInv
<1> QED BY <1>3, <1>4, <1>5 DEF CerInv

LEMMA CerNextInv == CerInv /\ [CerNext]_cerVars => CerInv'
<1> SUFFICES ASSUME CerInv, [CerNext]_cerVars PROVE CerInv'
  OBVIOUS
<1>1. ASSUME UNCHANGED <<install, counter, ceremony, accepted, met, raced, crowded>>,
             tick' \in [Accounts -> Nat],
             chal' \in [Chals -> [status : {"none", "open", "used"}, purpose : Purposes,
                                  user : Accounts \cup {Nobody}]],
             \A x \in Chals : chal[x].status = "used" => chal'[x].status = "used"
      PROVE  CerInv'
  <2>1. CerTypeOK'
    BY <1>1 DEF CerInv, CerTypeOK, Cer
  <2>2. AcceptInv' /\ PhoneInv' /\ CountInv'
    BY <1>1, AcceptStands, PhoneStands, CountStands DEF CerInv, CerAt, Cer, Continues, CerBusy
  <2> QED BY <2>1, <2>2 DEF CerInv
<1>2. CASE UNCHANGED cerVars
  BY <1>1, <1>2 DEF cerVars, CerInv, CerTypeOK
<1>3. ASSUME NEW x \in Chals,
             OfferRegistration(x) \/ OfferLogin(x) \/ OfferReauthentication(x) \/ OfferSilent(x)
      PROVE  CerInv'
  <2>1. PICK p \in Purposes, u \in Accounts \cup {Nobody} : Store(x, p, u)
    BY <1>3 DEF OfferRegistration, OfferLogin, OfferReauthentication, OfferSilent, Purposes
  <2> QED BY <1>1, <2>1 DEF Store, NotPhone, NotCounter, CerInv, CerTypeOK
<1>4. ASSUME NEW x \in Chals, ChallengeExpires(x) PROVE CerInv'
  BY <1>1, <1>4 DEF ChallengeExpires, NotPhone, NotCounter, CerInv, CerTypeOK
<1>5. ASSUME NEW u \in Accounts, BeginRegistration(u) \/ AuthenticatorRestored(u) PROVE CerInv'
  BY <1>1, <1>5 DEF BeginRegistration, AuthenticatorRestored, NotPhone, NotCounter, NotChal,
                    CerInv, CerTypeOK
<1>6. ASSUME NEW c \in CerCalls, CerStep(c) PROVE CerInv'
  BY <1>6, StartStep, ReadStep, ConsumeStep, MoveStep, CountStep, BindStep DEF CerStep
<1> QED BY <1>2, <1>3, <1>4, <1>5, <1>6 DEF CerNext

(* Only StoreCounter writes a counter; a login that does not warn has one   *)
(* above what it judged against.                                            *)
LEMMA RollbackStep == CerInv /\ [CerNext]_cerVars => [RollbackIsWarned]_cerVars
<1> SUFFICES ASSUME CerInv, CerNext PROVE RollbackIsWarned
  OBVIOUS
<1>1. ASSUME UNCHANGED counter PROVE RollbackIsWarned
  BY <1>1 DEF RollbackIsWarned, CerInv, CerTypeOK
<1>2. ASSUME NEW c \in CerCalls, StoreCounter(c) PROVE RollbackIsWarned
  <2> DEFINE u == Cer(c).user
  <2>1. /\ u \in Accounts /\ Cer(c).new \in Nat /\ Cer(c).stored \in Nat /\ AnswersFor(c)
    BY <1>2 DEF StoreCounter, CerAt, CerBusy, CerInv, CerTypeOK, CerPcs, CeremonyRecord, AnswersFor
  <2>2. counter' = [counter EXCEPT ![u] = Cer(c).new]
    BY <1>2 DEF StoreCounter
  <2>3. Cer(c).stored = counter[u] \/ u \in raced
    BY <2>1 DEF CerInv, CountInv
  <2>4. CASE Cer(c).op = "reauth"
    <3>1. CerAt(c, "counter") /\ \A v \in Accounts \ {u} : ~(counter'[v] < counter[v])
      BY <1>2, <2>2 DEF StoreCounter, CerInv, CerTypeOK
    <3> QED BY <2>4, <3>1 DEF RollbackIsWarned
  <2>5. CASE Cer(c).op = "login"
    <3>1. u \in warned' \/ Cer(c).new > Cer(c).stored \/ Cer(c).new = Cer(c).stored
      BY <1>2, <2>1, <2>5 DEF StoreCounter, CounterWarns
    <3> QED BY <2>1, <2>2, <2>3, <3>1 DEF RollbackIsWarned, CerInv, CerTypeOK
  <2> QED BY <2>1, <2>4, <2>5 DEF AnswersFor
<1>3. ASSUME NEW x \in Chals,
             \/ OfferRegistration(x) \/ OfferLogin(x) \/ OfferReauthentication(x) \/ OfferSilent(x)
             \/ ChallengeExpires(x)
      PROVE  RollbackIsWarned
  BY <1>1, <1>3 DEF OfferRegistration, OfferLogin, OfferReauthentication, OfferSilent, Store,
                    ChallengeExpires, NotCounter
<1>4. ASSUME NEW u \in Accounts, BeginRegistration(u) \/ AuthenticatorRestored(u)
      PROVE  RollbackIsWarned
  BY <1>1, <1>4 DEF BeginRegistration, AuthenticatorRestored, NotCounter
<1>5. ASSUME NEW c \in CerCalls, CerStep(c) PROVE RollbackIsWarned
  BY <1>1, <1>2, <1>5 DEF CerStep, StartCeremony, ReadChallenge, SpoilChallenge, ConsumeChallenge,
       VerifyAnswer, AnswerSilently, ActivateAccount, BindInstall, NotCounter
<1> QED BY <1>3, <1>4, <1>5 DEF CerNext

(* CeremoniesAreSound: a challenge is accepted twice, an account left on a  *)
(* phone of another one, and a counter turned back in silence only through  *)
(* the overlaps that are named (consumeWebAuthnChallenge,                   *)
(* verifyRegistration, evaluateSignatureCounter).                           *)
THEOREM CeremoniesAreSoundHolds == CerSpec => CeremoniesAreSound
<1>1. CerInv => AcceptedOnce /\ StrayAccountsMet
  BY DEF CerInv, AcceptInv, PhoneInv
<1>2. CerSpec => []CerInv
  BY CerInitInv, CerNextInv, PTL DEF CerSpec
<1>3. CerSpec => [](AcceptedOnce /\ StrayAccountsMet)
  BY <1>1, <1>2, PTL
<1>4. CerSpec => [][RollbackIsWarned]_cerVars
  BY <1>2, RollbackStep, PTL DEF CerSpec
<1> QED BY <1>3, <1>4 DEF CeremoniesAreSound

-----------------------------------------------------------------------------
(* Verified identity: assertions and the verified portrait *)

ProfileRecord ==
  [identity : {"unverified", "pending", "verified", "revoked"}, status : {"active", "revoked"},
   portrait : Pics \cup {NoPic}, version : Nat]

IdRecord ==
  [pc : {"idle"}]
    \cup [op : {"upload"}, pc : {"upload"}]
    \cup [op : {"upload", "start", "complete"}, pc : {"bump"}, to : {"unverified", "pending"}, version : Nat]
    \cup [op : {"start"}, pc : {"pending", "row"}, pic : Pics]
    \cup [op : {"complete"}, pc : {"provider", "reject", "others"}, ver : Verifications, pic : Pics]
    \cup [op : {"complete"}, pc : {"retire"}, pic : Pics, old : SUBSET Pics]
    \cup [op : {"complete"}, pc : {"publish"}, pic : Pics, version : Nat]
    \cup [op : {"revoke"}, pc : {"portrait", "withdraw"}, pic : Pics, version : Nat]
    \cup [op : {"assert"}, pc : {"lookup", "sign"}, claims : ProfileRecord]
    \cup [op : {"verify"}, pc : {"use", "compare"}, jti : Assertions]

(* A completion works on a row that exists.                                 *)
NamesItsPortrait ==
  \A c \in IdCalls : idCall[c].pc = "provider" => ver[idCall[c].ver].status # "none"

IdTypeOK ==
  /\ pic \in [Pics -> {"none", "uploaded", "pending", "verified", "rejected", "revoked"}]
  /\ ver \in [Verifications -> [status : {"none", "pending", "failed", "verified"}, pic : Pics \cup {NoPic}]]
  /\ \A v \in Verifications : ver[v].status # "none" => ver[v].pic \in Pics
  /\ profile \in ProfileRecord
  /\ jti \in [Assertions -> [status : {"none", "issued", "used"}, claims : ProfileRecord]]
  /\ idCall \in [IdCalls -> IdRecord] /\ NamesItsPortrait
  /\ misled \subseteq {"profile", "portrait"} /\ lostBump \in BOOLEAN /\ halted \in BOOLEAN /\ stops \in Nat
  /\ mixed \in {"no", "changes", "completions"}

(* Claims of the version the profile has are the profile, but for a portrait *)
(* that was left out.                                                       *)
Older(claims) ==
  /\ claims.version <= profile.version
  /\ claims.version = profile.version => SaysProfile(claims)

VersionInv ==
  ~lostBump =>
    /\ "profile" \notin misled
    /\ \A a \in Assertions : Older(jti[a].claims)
    /\ \A c \in IdCalls : idCall[c].pc \in {"lookup", "sign"} => Older(idCall[c].claims)

(* The row of the portrait was read last: it is what the profile says it is *)
(* until a change writes a row, and from there on that change is between.   *)
Names(claims) == claims.version = profile.version => SaysPortrait(claims)

NamesInv ==
  ~lostBump /\ ~halted =>
    /\ "portrait" \notin misled
    /\ \A a \in Assertions : Names(jti[a].claims)
    /\ \A c \in IdCalls : idCall[c].pc = "sign" => Names(idCall[c].claims)

(* A portrait that is yet to be looked up is the profile's as it was read.  *)
LookUpInv ==
  ~lostBump =>
    \A c \in IdCalls :
      idCall[c].pc = "lookup" =>
        /\ HasPortrait(idCall[c].claims)
        /\ idCall[c].claims.version = profile.version => idCall[c].claims = profile

Changing(c) == idCall[c].pc # "idle" /\ idCall[c].op \in Changes
Completing(c) == idCall[c].pc # "idle" /\ idCall[c].op = "complete"

MixedInv ==
  /\ mixed = "no" => \A c, d \in IdCalls : Changing(c) /\ Changing(d) => c = d
  /\ mixed # "completions" => \A c, d \in IdCalls : Completing(c) /\ Completing(d) => c = d

(* A completion that is alone has listed every other verified portrait.     *)
PortraitInv ==
  mixed # "completions" =>
    /\ \A p, q \in Pics : pic[p] = "verified" /\ pic[q] = "verified" => p = q
    /\ \A c \in IdCalls, p \in Pics :
         idCall[c].pc = "retire" /\ pic[p] = "verified" => p \in idCall[c].old \/ p = idCall[c].pic

(* No change has written a row and not yet the profile.                     *)
Settled == \A c \in IdCalls : ~Between(c)

SettledInv ==
  mixed = "no" /\ ~halted =>
    /\ \A c \in IdCalls : idCall[c].pc = "publish" => pic[idCall[c].pic] = "verified"
    /\ Settled /\ profile.identity = "verified" => profile.portrait # NoPic /\ pic[profile.portrait] = "verified"

IdentityInv == IdTypeOK /\ VersionInv /\ NamesInv /\ LookUpInv /\ MixedInv /\ PortraitInv /\ SettledInv

LEMMA IdInitInv == IdInit => IdentityInv
<1> SUFFICES ASSUME IdInit PROVE IdentityInv
  OBVIOUS
<1>1. /\ jti = [a \in Assertions |-> [status |-> "none", claims |-> [profile EXCEPT !.portrait = Told]]]
      /\ idCall = [c \in IdCalls |-> [pc |-> "idle"]]
      /\ misled = {} /\ lostBump = FALSE /\ halted = FALSE /\ stops = 0 /\ mixed = "no"
  BY DEF IdInit
<1>2. ASSUME profile \in ProfileRecord
      PROVE  /\ jti \in [Assertions -> [status : {"none", "issued", "used"}, claims : ProfileRecord]]
             /\ VersionInv /\ NamesInv /\ LookUpInv /\ MixedInv
  <2> DEFINE claims == [profile EXCEPT !.portrait = Told]
  <2>1. Told \in {NoPic, profile.portrait} /\ profile.portrait \in Pics \cup {NoPic}
    BY <1>2 DEF Told, ProfileRecord
  <2>2. /\ claims \in ProfileRecord /\ claims.version = profile.version /\ claims.portrait = Told
        /\ claims.identity = profile.identity /\ claims.status = profile.status
    BY <1>2, <2>1 DEF ProfileRecord
  <2>3. profile.version \in Nat
    BY <1>2 DEF ProfileRecord
  <2> HIDE DEF claims
  <2>4. Older(claims) /\ Names(claims)
    BY <2>1, <2>2, <2>3 DEF Older, Names, SaysProfile, SaysPortrait
  <2>5. jti = [a \in Assertions |-> [status |-> "none", claims |-> claims]]
    BY <1>1 DEF claims
  <2> QED BY <1>1, <2>2, <2>4, <2>5 DEF VersionInv, NamesInv, LookUpInv, MixedInv, Changing, Completing
<1>3. CASE /\ pic = [p \in Pics |-> "none"] /\ ver = [v \in Verifications |-> NoVerification]
           /\ profile = [identity |-> "unverified", status |-> "active", portrait |-> NoPic, version |-> 1]
  <2>1. profile \in ProfileRecord
    BY <1>3 DEF ProfileRecord
  <2>2. IdTypeOK
    BY <1>1, <1>2, <1>3, <2>1 DEF IdTypeOK, NamesItsPortrait, NoVerification, IdRecord
  <2>3. PortraitInv /\ SettledInv
    BY <1>1, <1>3 DEF PortraitInv, SettledInv
  <2> QED BY <1>2, <2>1, <2>2, <2>3 DEF IdentityInv
<1>4. ASSUME NEW p \in Pics, NEW v \in Verifications,
             pic = [q \in Pics |-> IF q = p THEN "verified" ELSE "none"],
             ver = [w \in Verifications |-> IF w = v THEN [status |-> "verified", pic |-> p] ELSE NoVerification],
             profile = [identity |-> "verified", status |-> "active", portrait |-> p, version |-> 4]
      PROVE  IdentityInv
  <2>1. profile \in ProfileRecord
    BY <1>4 DEF ProfileRecord
  <2>2. /\ ver \in [Verifications -> [status : {"none", "pending", "failed", "verified"}, pic : Pics \cup {NoPic}]]
        /\ \A w \in Verifications : ver[w].status # "none" => ver[w].pic \in Pics
    BY <1>4 DEF NoVerification
  <2>3. IdTypeOK
    BY <1>1, <1>2, <1>4, <2>1, <2>2 DEF IdTypeOK, NamesItsPortrait, IdRecord
  <2>4. PortraitInv /\ SettledInv
    BY <1>1, <1>4, VerifiedIdentityAssumption DEF PortraitInv, SettledInv
  <2> QED BY <1>2, <2>1, <2>3, <2>4 DEF IdentityInv
<1>5. ASSUME NEW p \in Pics, NEW q \in Pics, NEW v \in Verifications, NEW w \in Verifications, p # q, v # w,
             pic = [r \in Pics |-> CASE r = p -> "verified" [] r = q -> "pending" [] OTHER -> "none"],
             ver = [x \in Verifications |-> CASE x = v -> [status |-> "verified", pic |-> p]
                                             [] x = w -> [status |-> "pending", pic |-> q]
                                             [] OTHER -> NoVerification],
             profile = [identity |-> "pending", status |-> "active", portrait |-> p, version |-> 6]
      PROVE  IdentityInv
  <2>1. profile \in ProfileRecord
    BY <1>5 DEF ProfileRecord
  <2>2. ASSUME NEW x \in Verifications
        PROVE  /\ ver[x] \in [status : {"none", "pending", "failed", "verified"}, pic : Pics \cup {NoPic}]
               /\ ver[x].status # "none" => ver[x].pic \in Pics
    <3>1. \/ ver[x] = [status |-> "verified", pic |-> p]
          \/ ver[x] = [status |-> "pending", pic |-> q]
          \/ ver[x] = [status |-> "none", pic |-> NoPic]
      BY <1>5 DEF NoVerification
    <3> QED BY <3>1
  <2>3. /\ pic \in [Pics -> {"none", "uploaded", "pending", "verified", "rejected", "revoked"}]
        /\ \A r \in Pics : pic[r] = "verified" => r = p
    BY <1>5
  <2>4. ver \in [Verifications -> [status : {"none", "pending", "failed", "verified"}, pic : Pics \cup {NoPic}]]
    BY <1>5, <2>2
  <2>5. IdTypeOK
    BY <1>1, <1>2, <2>1, <2>2, <2>3, <2>4 DEF IdTypeOK, NamesItsPortrait, IdRecord
  <2>6. PortraitInv /\ SettledInv
    BY <1>1, <1>5, <2>3 DEF PortraitInv, SettledInv
  <2> QED BY <1>2, <2>1, <2>5, <2>6 DEF IdentityInv
<1> QED BY <1>3, <1>4, <1>5 DEF IdInit

(* What the profile and the portrait's row say lasts until one of them is   *)
(* written, and a call that is between them stays so.                       *)
LEMMA NamesStands ==
  ASSUME NEW c \in IdCalls, UNCHANGED profile, \A d \in IdCalls \ {c} : idCall'[d] = idCall[d],
         Between(c)' \/ (UNCHANGED pic /\ ~Between(c)), NEW claims, Names(claims)
  PROVE  Names(claims)'
<1> SUFFICES ASSUME claims.version = profile.version PROVE SaysPortrait(claims)'
  BY DEF Names
<1>1. CASE Between(c)'
  BY <1>1 DEF SaysPortrait
<1>2. CASE UNCHANGED pic /\ ~Between(c)
  <2>1. Told' = Told
    BY <1>2 DEF Told, HasPortrait
  <2>2. \A d \in IdCalls : Between(d) => Between(d)'
    BY <1>2 DEF Between
  <2> QED BY <2>1, <2>2 DEF Names, SaysPortrait
<1> QED BY <1>1, <1>2

(* What Begin notes of the calls it meets.                                  *)
LEMMA BeginNotes ==
  ASSUME IdTypeOK, NEW c \in IdCalls, NEW r \in IdRecord, r.pc # "idle", Begin(c, r)
  PROVE  /\ mixed' \in {"no", "changes", "completions"}
         /\ mixed' # "completions" => mixed # "completions"
         /\ mixed' = "no" => mixed = "no"
         /\ mixed' = "no" /\ r.op \in Changes => \A d \in IdCalls : ~Changing(d)
         /\ mixed' # "completions" /\ r.op = "complete" => \A d \in IdCalls : ~Completing(d)
<1> DEFINE beside == {idCall[o].op : o \in {o \in IdCalls : IdBusy(o)}} \cap Changes
<1>1. mixed' = CASE r.op \notin Changes \/ beside = {} -> mixed
                 [] r.op = "complete" /\ "complete" \in beside -> "completions"
                 [] OTHER -> IF mixed = "no" THEN "changes" ELSE mixed
  BY DEF Begin
<1>2. \A d \in IdCalls : Changing(d) => beside # {}
  BY DEF Changing, IdBusy
<1>3. \A d \in IdCalls : Completing(d) => "complete" \in beside
  BY DEF Completing, IdBusy, Changes
<1>4. mixed \in {"no", "changes", "completions"}
  BY DEF IdTypeOK
<1> HIDE DEF beside
<1>5. CASE r.op \notin Changes
  BY <1>1, <1>4, <1>5 DEF Changes
<1>6. CASE r.op \in Changes /\ beside = {}
  BY <1>1, <1>2, <1>3, <1>4, <1>6
<1>7. CASE r.op \in Changes /\ beside # {} /\ r.op = "complete" /\ "complete" \in beside
  BY <1>1, <1>4, <1>7
<1>8. CASE r.op \in Changes /\ beside # {} /\ ~(r.op = "complete" /\ "complete" \in beside)
  BY <1>1, <1>3, <1>4, <1>8
<1> QED BY <1>5, <1>6, <1>7, <1>8

(* A call that begins has only read.                                        *)
LEMMA IdBegins ==
  ASSUME IdentityInv, NEW c \in IdCalls, NEW r \in IdRecord, Begin(c, r),
         r.pc \in {"upload", "pending", "provider", "portrait", "lookup", "sign", "use", "compare"},
         r.pc = "lookup" => r.claims = profile /\ HasPortrait(profile),
         r.pc = "sign" => ~HasPortrait(profile) /\ r.claims = [profile EXCEPT !.portrait = NoPic],
         r.pc = "provider" => ver[r.ver].status # "none"
  PROVE  IdentityInv'
<1> USE DEF IdentityInv
<1>1. /\ idCall[c].pc = "idle" /\ UNCHANGED <<pic, ver, profile, jti, misled, lostBump, halted, stops>>
      /\ idCall' \in [IdCalls -> IdRecord] /\ idCall'[c] = r
      /\ \A d \in IdCalls \ {c} : idCall'[d] = idCall[d]
  BY DEF Begin, IdBusy, KeepRows2, IdTypeOK
<1>2. /\ mixed' \in {"no", "changes", "completions"}
      /\ mixed' # "completions" => mixed # "completions"
      /\ mixed' = "no" => mixed = "no"
      /\ mixed' = "no" /\ r.op \in Changes => \A d \in IdCalls : ~Changing(d)
      /\ mixed' # "completions" /\ r.op = "complete" => \A d \in IdCalls : ~Completing(d)
  BY BeginNotes
<1>3. IdTypeOK'
  BY <1>1, <1>2 DEF IdTypeOK, NamesItsPortrait
<1>4. VersionInv' /\ NamesInv' /\ LookUpInv'
  <2>1. profile \in ProfileRecord /\ profile.version \in Nat
    BY DEF IdTypeOK, ProfileRecord
  <2>2. r.pc = "sign" => /\ SaysProfile(r.claims) /\ r.claims.version = profile.version
                         /\ r.claims.portrait = Told
    BY <2>1 DEF SaysProfile, Told, ProfileRecord
  <2>3. r.pc = "lookup" => SaysProfile(r.claims)
    BY DEF SaysProfile
  <2>4. VersionInv'
    BY <1>1, <2>1, <2>2, <2>3 DEF VersionInv, Older, SaysProfile
  <2>5. LookUpInv'
    BY <1>1 DEF LookUpInv, HasPortrait
  <2>6. \A claims : Names(claims) => Names(claims)'
    BY <1>1, NamesStands DEF Between
  <2>7. r.pc = "sign" => Names(r.claims)
    BY <2>2 DEF Names, SaysPortrait
  <2>8. NamesInv'
    BY <1>1, <2>6, <2>7 DEF NamesInv
  <2> QED BY <2>4, <2>5, <2>8
<1>5. MixedInv'
  BY <1>1, <1>2 DEF MixedInv, Changing, Completing
<1>6. PortraitInv'
  BY <1>1, <1>2 DEF PortraitInv
<1>7. SettledInv'
  <2>1. Settled' => Settled
    BY <1>1 DEF Settled, Between
  <2> QED BY <1>1, <1>2, <2>1 DEF SettledInv
<1> QED BY <1>3, <1>4, <1>5, <1>6, <1>7

(* A call that goes on keeps its operation, or ends.                        *)
LEMMA IdGoesOn ==
  ASSUME IdentityInv, NEW c \in IdCalls, NEW r \in IdRecord, idCall' = [idCall EXCEPT ![c] = r],
         idCall[c].pc # "idle", r.pc = "idle" \/ r.op = idCall[c].op, UNCHANGED mixed
  PROVE  /\ idCall' \in [IdCalls -> IdRecord] /\ idCall'[c] = r
         /\ \A d \in IdCalls \ {c} : idCall'[d] = idCall[d]
         /\ MixedInv'
<1>1. /\ idCall' \in [IdCalls -> IdRecord] /\ idCall'[c] = r
      /\ \A d \in IdCalls \ {c} : idCall'[d] = idCall[d]
  BY DEF IdentityInv, IdTypeOK
<1> QED BY <1>1 DEF IdentityInv, MixedInv, Changing, Completing

LEMMA IdMoves ==
  ASSUME IdTypeOK, NEW c \in IdCalls, NEW pc, IdGoto(c, pc),
         \/ pc = "idle"
         \/ idCall[c].pc = "pending" /\ pc = "row"
         \/ idCall[c].pc = "provider" /\ pc \in {"reject", "others"}
         \/ idCall[c].pc = "portrait" /\ pc = "withdraw"
         \/ idCall[c].pc = "use" /\ pc = "compare"
  PROVE  \E r \in IdRecord : /\ idCall' = [idCall EXCEPT ![c] = r]
                             /\ r.pc = pc /\ (pc # "idle" => r.op = idCall[c].op)
<1>1. idCall[c] \in IdRecord
  BY DEF IdTypeOK
<1>2. CASE pc = "idle"
  <2>1. [pc |-> "idle"] \in IdRecord
    BY DEF IdRecord
  <2>2. idCall' = [idCall EXCEPT ![c] = [pc |-> "idle"]]
    BY <1>2 DEF IdGoto
  <2> QED BY <1>2, <2>1, <2>2
<1>3. CASE pc # "idle"
  <2> DEFINE r == [idCall[c] EXCEPT !.pc = pc]
  <2>1. idCall' = [idCall EXCEPT ![c] = r]
    BY <1>3 DEF IdGoto
  <2>2. r \in IdRecord /\ r.pc = pc /\ r.op = idCall[c].op
    BY <1>1, <1>3 DEF IdRecord
  <2> HIDE DEF r
  <2> QED BY <2>1, <2>2
<1> QED BY <1>2, <1>3

(* A change that writes rows other than the profile, and goes on.           *)
LEMMA IdWritesRows ==
  ASSUME IdentityInv, NEW c \in IdCalls, NEW r \in IdRecord, idCall' = [idCall EXCEPT ![c] = r],
         Changing(c), r.op = idCall[c].op, r.pc \notin {"idle", "provider"},
         UNCHANGED <<profile, jti, misled, lostBump, halted, stops, mixed>>,
         \/ r.pc \in {"row", "bump", "retire", "publish", "withdraw"}
         \/ UNCHANGED pic /\ idCall[c].pc = "provider",
         pic' \in [Pics -> {"none", "uploaded", "pending", "verified", "rejected", "revoked"}],
         ver' \in [Verifications -> [status : {"none", "pending", "failed", "verified"}, pic : Pics \cup {NoPic}]],
         \A v \in Verifications : ver'[v].status # "none" => ver'[v].pic \in Pics,
         \A v \in Verifications : ver[v].status # "none" => ver'[v].status # "none",
         (mixed # "completions" =>
           /\ \A p \in Pics : pic'[p] = "verified" => pic[p] = "verified" \/ (idCall[c].op = "complete" /\ p = idCall[c].pic /\ r.pc = "publish")
           /\ r.pc = "publish" => \A p \in Pics : pic'[p] = "verified" => p = idCall[c].pic
           /\ r.pc = "retire" => \A p \in Pics : pic'[p] = "verified" => p \in r.old \/ p = r.pic),
         r.pc = "publish" => pic'[r.pic] = "verified"
  PROVE  IdentityInv'
<1> USE DEF IdentityInv
<1>1. /\ idCall' \in [IdCalls -> IdRecord] /\ idCall'[c] = r
      /\ \A d \in IdCalls \ {c} : idCall'[d] = idCall[d]
      /\ MixedInv'
  BY IdGoesOn DEF Changing
<1>2. IdTypeOK'
  <2>1. NamesItsPortrait'
    <3>1. \A d \in IdCalls : idCall[d].pc = "provider" => idCall[d].ver \in Verifications
      BY DEF IdTypeOK, IdRecord
    <3> QED BY <1>1, <3>1 DEF IdTypeOK, NamesItsPortrait
  <2> QED BY <1>1, <2>1 DEF IdTypeOK
<1>6. Between(c)' \/ (UNCHANGED pic /\ ~Between(c))
  BY <1>1 DEF Between
<1>3. VersionInv' /\ NamesInv' /\ LookUpInv'
  <2>1. r.pc \notin {"lookup", "sign"}
    BY DEF IdRecord, Changing, Changes
  <2>2. VersionInv' /\ LookUpInv'
    BY <1>1, <2>1 DEF VersionInv, Older, SaysProfile, LookUpInv, HasPortrait
  <2>3. \A claims : Names(claims) => Names(claims)'
    BY <1>1, <1>6, NamesStands
  <2>4. NamesInv'
    BY <1>1, <2>1, <2>3 DEF NamesInv
  <2> QED BY <2>2, <2>4
<1>4. PortraitInv'
  <2> SUFFICES ASSUME mixed # "completions"
               PROVE  /\ \A p, q \in Pics : pic'[p] = "verified" /\ pic'[q] = "verified" => p = q
                      /\ \A d \in IdCalls, p \in Pics :
                           idCall'[d].pc = "retire" /\ pic'[p] = "verified" => p \in idCall'[d].old \/ p = idCall'[d].pic
    BY DEF PortraitInv
  <2>1. \A d \in IdCalls : idCall[d].pc = "retire" => Completing(d)
    BY DEF IdTypeOK, IdRecord, Completing
  <2>2. ASSUME NEW d \in IdCalls \ {c}, NEW p \in Pics, idCall[d].pc = "retire", pic'[p] = "verified"
        PROVE  p \in idCall[d].old \/ p = idCall[d].pic
    <3>1. idCall[c].op # "complete"
      BY <2>1, <2>2 DEF MixedInv, Completing, Changing
    <3> QED BY <2>2, <3>1 DEF PortraitInv
  <2>3. \A p, q \in Pics : pic'[p] = "verified" /\ pic'[q] = "verified" => p = q
    BY DEF PortraitInv
  <2> QED BY <1>1, <2>2, <2>3
<1>5. SettledInv'
  <2>1. Settled' => UNCHANGED pic /\ Settled
    BY <1>1, <1>6 DEF Settled, Between
  <2>2. ASSUME mixed = "no", NEW d \in IdCalls \ {c} PROVE idCall[d].pc # "publish"
    BY <2>2 DEF MixedInv, Changing, Changes, IdTypeOK, IdRecord
  <2> QED BY <1>1, <2>1, <2>2 DEF SettledInv
<1> QED BY <1>1, <1>2, <1>3, <1>4, <1>5

(* The last step of a change: the profile is written, one version on.       *)
LEMMA IdWritesProfile ==
  ASSUME IdentityInv, NEW c \in IdCalls, Changing(c), IdGoto(c, "idle"), idCall[c].version \in Nat,
         NEW new \in ProfileRecord, WriteProfile(c, new), UNCHANGED <<pic, ver, jti>>,
         new.identity = "verified" => idCall[c].pc = "publish" /\ new.portrait = idCall[c].pic
  PROVE  IdentityInv'
<1> USE DEF IdentityInv
<1>1. /\ profile' = [new EXCEPT !.version = idCall[c].version + 1] /\ UNCHANGED <<misled, stops, halted, mixed>>
      /\ lostBump' = (lostBump \/ idCall[c].version # profile.version)
  BY DEF WriteProfile
<1>2. PICK r \in IdRecord : idCall' = [idCall EXCEPT ![c] = r] /\ r.pc = "idle"
  BY IdMoves
<1>3. /\ idCall' \in [IdCalls -> IdRecord] /\ idCall'[c] = r
      /\ \A d \in IdCalls \ {c} : idCall'[d] = idCall[d]
      /\ MixedInv'
  BY <1>1, <1>2, IdGoesOn DEF Changing
<1>4. /\ profile' \in ProfileRecord /\ profile'.version = idCall[c].version + 1
      /\ profile'.identity = new.identity /\ profile'.portrait = new.portrait
  BY <1>1 DEF ProfileRecord
<1>5. IdTypeOK'
  <2>1. NamesItsPortrait'
    BY <1>2, <1>3 DEF IdTypeOK, NamesItsPortrait
  <2> QED BY <1>1, <1>3, <1>4, <2>1 DEF IdTypeOK
<1>6. VersionInv' /\ NamesInv' /\ LookUpInv'
  <2> SUFFICES ASSUME ~lostBump' PROVE VersionInv' /\ NamesInv' /\ LookUpInv'
    BY DEF VersionInv, NamesInv, LookUpInv
  <2>1. ~lostBump /\ profile'.version = profile.version + 1 /\ profile.version \in Nat
    BY <1>1, <1>4 DEF IdTypeOK, ProfileRecord
  <2>2. ASSUME NEW claims \in ProfileRecord, claims.version <= profile.version
        PROVE  claims.version <= profile'.version /\ claims.version # profile'.version
    <3>1. claims.version \in Nat
      BY DEF ProfileRecord
    <3> QED BY <2>1, <2>2, <3>1
  <2>3. \A a \in Assertions : jti[a].claims.version <= profile'.version /\ jti[a].claims.version # profile'.version
    BY <2>1, <2>2 DEF VersionInv, Older, IdTypeOK
  <2>4. \A d \in IdCalls :
          idCall'[d].pc \in {"lookup", "sign"} =>
            /\ idCall'[d] = idCall[d]
            /\ idCall[d].claims.version <= profile'.version /\ idCall[d].claims.version # profile'.version
    <3>1. \A d \in IdCalls : idCall[d].pc \in {"lookup", "sign"} => idCall[d].claims \in ProfileRecord
      BY DEF IdTypeOK, IdRecord
    <3> QED BY <1>2, <1>3, <2>1, <2>2, <3>1 DEF VersionInv, Older
  <2>5. VersionInv'
    BY <1>1, <2>1, <2>3, <2>4 DEF VersionInv, Older
  <2>6. NamesInv'
    BY <1>1, <2>1, <2>3, <2>4 DEF NamesInv, Names
  <2>7. LookUpInv'
    BY <2>1, <2>4 DEF LookUpInv, HasPortrait
  <2> QED BY <2>5, <2>6, <2>7
<1>7. PortraitInv'
  BY <1>1, <1>2, <1>3 DEF PortraitInv
<1>8. SettledInv'
  <2> SUFFICES ASSUME mixed = "no", ~halted PROVE SettledInv'
    BY <1>1 DEF SettledInv
  <2>1. \A d \in IdCalls : idCall'[d].pc = "publish" => pic[idCall'[d].pic] = "verified"
    BY <1>2, <1>3 DEF SettledInv
  <2>2. new.identity = "verified" => new.portrait \in Pics /\ pic[new.portrait] = "verified"
    BY DEF SettledInv, IdTypeOK, IdRecord
  <2> QED BY <1>1, <1>4, <2>1, <2>2, VerifiedIdentityAssumption DEF SettledInv
<1> QED BY <1>3, <1>5, <1>6, <1>7, <1>8

(* Every step keeps the invariant.                                          *)
LEMMA IdNextInv == ASSUME IdentityInv, [IdNext]_idVars PROVE IdentityInv'
<1> USE DEF IdentityInv
<1>0. CASE UNCHANGED idVars
  BY <1>0 DEF idVars, IdTypeOK, NamesItsPortrait, VersionInv, NamesInv, LookUpInv, MixedInv, PortraitInv, SettledInv,
              Settled, Between, Older, Names, SaysProfile, SaysPortrait, Told, HasPortrait, Changing, Completing
<1> SUFFICES ASSUME IdNext PROVE IdentityInv'
  BY <1>0
<1> PICK c \in IdCalls :
      \/ BumpProfileVersion(c) \/ StartUpload(c) \/ UploadPortrait(c)
      \/ FindPortrait(c) \/ MarkPortraitPending(c) \/ CreateVerification(c)
      \/ FindVerification(c) \/ ProviderAnswers(c) \/ RejectPortrait(c)
      \/ FindPrevious(c) \/ RetirePortrait(c) \/ IssueVerifiedPortrait(c) \/ PublishProfile(c)
      \/ StartRevocation(c) \/ RevokePortrait(c) \/ RevokeProfile(c)
      \/ ReadClaims(c) \/ ReadPortrait(c) \/ SignAssertion(c) \/ FindJti(c) \/ UseJti(c) \/ CompareProfile(c)
      \/ CallStops(c)
  BY DEF IdNext
<1>a. /\ idCall[c] \in IdRecord /\ profile \in ProfileRecord /\ profile.version \in Nat
      /\ pic \in [Pics -> {"none", "uploaded", "pending", "verified", "rejected", "revoked"}]
      /\ ver \in [Verifications -> [status : {"none", "pending", "failed", "verified"}, pic : Pics \cup {NoPic}]]
      /\ \A v \in Verifications : ver[v].status # "none" => ver[v].pic \in Pics
      /\ jti \in [Assertions -> [status : {"none", "issued", "used"}, claims : ProfileRecord]]
  BY DEF IdTypeOK, ProfileRecord
<1>1. CASE StartUpload(c)
  <2>1. [op |-> "upload", pc |-> "upload"] \in IdRecord
    BY DEF IdRecord
  <2>2. Begin(c, [op |-> "upload", pc |-> "upload"])
    BY <1>1 DEF StartUpload
  <2> QED BY <2>1, <2>2, IdBegins
<1>2. CASE FindPortrait(c)
  <2>1. PICK p \in Pics : Begin(c, [op |-> "start", pc |-> "pending", pic |-> p])
    BY <1>2 DEF FindPortrait
  <2>2. [op |-> "start", pc |-> "pending", pic |-> p] \in IdRecord
    BY DEF IdRecord
  <2> QED BY <2>1, <2>2, IdBegins
<1>3. CASE FindVerification(c)
  <2>1. PICK v \in Verifications :
          ver[v].pic \in Pics /\ ver[v].status # "none" /\ Begin(c, [op |-> "complete", pc |-> "provider", ver |-> v, pic |-> ver[v].pic])
    BY <1>3, <1>a DEF FindVerification
  <2>2. [op |-> "complete", pc |-> "provider", ver |-> v, pic |-> ver[v].pic] \in IdRecord
    BY <2>1 DEF IdRecord
  <2> QED BY <2>1, <2>2, IdBegins
<1>4. CASE StartRevocation(c)
  <2>1. [op |-> "revoke", pc |-> "portrait", pic |-> profile.portrait, version |-> profile.version] \in IdRecord
    BY <1>4, <1>a DEF IdRecord, ProfileRecord, StartRevocation
  <2>2. Begin(c, [op |-> "revoke", pc |-> "portrait", pic |-> profile.portrait, version |-> profile.version])
    BY <1>4 DEF StartRevocation
  <2> QED BY <2>1, <2>2, IdBegins
<1>5. CASE ReadClaims(c)
  <2>1. CASE HasPortrait(profile)
    <3>1. [op |-> "assert", pc |-> "lookup", claims |-> profile] \in IdRecord
      BY <1>a DEF IdRecord
    <3>2. Begin(c, [op |-> "assert", pc |-> "lookup", claims |-> profile])
      BY <1>5, <2>1 DEF ReadClaims
    <3> QED BY <2>1, <3>1, <3>2, IdBegins
  <2>2. CASE ~HasPortrait(profile)
    <3> DEFINE claims == [profile EXCEPT !.portrait = NoPic]
    <3>1. claims \in ProfileRecord
      BY <1>a DEF ProfileRecord
    <3>2. Begin(c, [op |-> "assert", pc |-> "sign", claims |-> claims])
      BY <1>5, <2>2 DEF ReadClaims
    <3>3. claims = [profile EXCEPT !.portrait = NoPic]
      OBVIOUS
    <3> HIDE DEF claims
    <3>4. [op |-> "assert", pc |-> "sign", claims |-> claims] \in IdRecord
      BY <3>1 DEF IdRecord
    <3> QED BY <2>2, <3>2, <3>3, <3>4, IdBegins
  <2> QED BY <2>1, <2>2
<1>6. CASE FindJti(c)
  <2>1. PICK a \in Assertions, consume \in BOOLEAN :
          Begin(c, [op |-> "verify", pc |-> IF consume THEN "use" ELSE "compare", jti |-> a])
    BY <1>6 DEF FindJti
  <2>2. [op |-> "verify", pc |-> IF consume THEN "use" ELSE "compare", jti |-> a] \in IdRecord
    BY DEF IdRecord
  <2> QED BY <2>1, <2>2, IdBegins
<1>7. CASE UploadPortrait(c)
  <2>1. PICK p \in Pics : /\ IdAt(c, "upload", "upload") /\ pic[p] = "none" /\ pic' = [pic EXCEPT ![p] = "uploaded"]
                          /\ idCall' = [idCall EXCEPT ![c] = ReadyToBump(c, "unverified")]
    BY <1>7 DEF UploadPortrait
  <2>2. UNCHANGED <<ver, profile, jti, misled, lostBump, halted, stops, mixed>>
    BY <1>7 DEF UploadPortrait, KeepPast
  <2>3. /\ ReadyToBump(c, "unverified") \in IdRecord
        /\ ReadyToBump(c, "unverified").op = idCall[c].op /\ ReadyToBump(c, "unverified").pc = "bump"
    BY <1>a, <2>1 DEF ReadyToBump, IdRecord, IdAt
  <2>4. Changing(c)
    BY <2>1 DEF Changing, Changes, IdAt
  <2>5. /\ pic' \in [Pics -> {"none", "uploaded", "pending", "verified", "rejected", "revoked"}]
        /\ \A q \in Pics : pic'[q] = "verified" => pic[q] = "verified"
    BY <1>a, <2>1
  <2> QED BY <1>a, <2>1, <2>2, <2>3, <2>4, <2>5, IdWritesRows
<1>8. CASE MarkPortraitPending(c)
  <2>1. /\ IdAt(c, "start", "pending") /\ IdGoto(c, "row")
        /\ pic' = [pic EXCEPT ![idCall[c].pic] = "pending"]
        /\ UNCHANGED <<ver, profile, jti, misled, lostBump, halted, stops, mixed>>
    BY <1>8 DEF MarkPortraitPending, KeepPast
  <2>2. PICK r \in IdRecord : idCall' = [idCall EXCEPT ![c] = r] /\ r.pc = "row" /\ r.op = idCall[c].op
    BY <2>1, IdMoves DEF IdAt
  <2>3. Changing(c)
    BY <2>1 DEF Changing, Changes, IdAt
  <2>4. /\ pic' \in [Pics -> {"none", "uploaded", "pending", "verified", "rejected", "revoked"}]
        /\ \A q \in Pics : pic'[q] = "verified" => pic[q] = "verified"
    BY <1>a, <2>1
  <2> QED BY <1>a, <2>1, <2>2, <2>3, <2>4, IdWritesRows
<1>9. CASE CreateVerification(c)
  <2>1. PICK v \in Verifications :
          /\ IdAt(c, "start", "row") /\ ver' = [ver EXCEPT ![v] = [status |-> "pending", pic |-> idCall[c].pic]]
          /\ idCall' = [idCall EXCEPT ![c] = ReadyToBump(c, "pending")]
    BY <1>9 DEF CreateVerification
  <2>2. UNCHANGED <<pic, profile, jti, misled, lostBump, halted, stops, mixed>>
    BY <1>9 DEF CreateVerification, KeepPast
  <2>3. /\ ReadyToBump(c, "pending") \in IdRecord
        /\ ReadyToBump(c, "pending").op = idCall[c].op /\ ReadyToBump(c, "pending").pc = "bump"
    BY <1>a, <2>1 DEF ReadyToBump, IdRecord, IdAt
  <2>4. Changing(c)
    BY <2>1 DEF Changing, Changes, IdAt
  <2>5. idCall[c].pic \in Pics
    BY <1>a, <2>1 DEF IdRecord, IdAt
  <2>6. /\ ver' \in [Verifications -> [status : {"none", "pending", "failed", "verified"}, pic : Pics \cup {NoPic}]]
        /\ \A w \in Verifications : ver'[w].status # "none" => ver'[w].pic \in Pics
        /\ \A w \in Verifications : ver[w].status # "none" => ver'[w].status # "none"
    BY <1>a, <2>1, <2>5
  <2> QED BY <1>a, <2>1, <2>2, <2>3, <2>4, <2>6, IdWritesRows
<1>10. CASE ProviderAnswers(c)
  <2>1. PICK status \in {"pending", "failed", "verified"} :
          /\ IdAt(c, "complete", "provider") /\ ver' = [ver EXCEPT ![idCall[c].ver].status = status]
          /\ IdGoto(c, CASE status = "pending" -> "idle" [] status = "failed" -> "reject" [] OTHER -> "others")
    BY <1>10 DEF ProviderAnswers
  <2>2. UNCHANGED <<pic, profile, jti, misled, lostBump, halted, stops, mixed>>
    BY <1>10 DEF ProviderAnswers, KeepPast
  <2>3. /\ ver' \in [Verifications -> [status : {"none", "pending", "failed", "verified"}, pic : Pics \cup {NoPic}]]
        /\ \A w \in Verifications : ver'[w].status # "none" => ver'[w].pic \in Pics
        /\ \A w \in Verifications : ver[w].status # "none" => ver'[w].status # "none"
    <3>1. idCall[c].ver \in Verifications /\ idCall[c].pic \in Pics
      BY <1>a, <2>1 DEF IdRecord, IdAt
    <3>2. ver[idCall[c].ver].pic \in Pics
      BY <2>1, <3>1 DEF NamesItsPortrait, IdTypeOK, IdAt
    <3> QED BY <1>a, <2>1, <3>1, <3>2
  <2>4. Changing(c)
    BY <2>1 DEF Changing, Changes, IdAt
  <2>5. CASE status = "pending"
    <3>1. IdGoto(c, "idle")
      BY <2>1, <2>5
    <3>2. PICK r \in IdRecord : idCall' = [idCall EXCEPT ![c] = r] /\ r.pc = "idle"
      BY <3>1, IdMoves
    <3>3. /\ idCall' \in [IdCalls -> IdRecord] /\ idCall'[c] = r
          /\ \A d \in IdCalls \ {c} : idCall'[d] = idCall[d]
          /\ MixedInv'
      BY <2>2, <2>4, <3>2, IdGoesOn DEF Changing
    <3>8. NamesItsPortrait'
      <4>1. \A d \in IdCalls : idCall[d].pc = "provider" => idCall[d].ver \in Verifications
        BY DEF IdTypeOK, IdRecord
      <4> QED BY <2>3, <3>2, <3>3, <4>1 DEF IdTypeOK, NamesItsPortrait
    <3>4. IdTypeOK'
      BY <2>2, <2>3, <3>2, <3>3, <3>8 DEF IdTypeOK
    <3>9. ~Between(c)
      BY <2>1 DEF Between, IdAt
    <3>10. \A claims : Names(claims) => Names(claims)'
      BY <2>2, <3>3, <3>9, NamesStands
    <3>5. VersionInv' /\ NamesInv' /\ LookUpInv'
      BY <2>2, <3>2, <3>3, <3>10 DEF VersionInv, Older, SaysProfile, NamesInv, LookUpInv, HasPortrait
    <3>6. PortraitInv'
      BY <2>2, <3>2, <3>3 DEF PortraitInv
    <3>7. SettledInv'
      <4>1. Settled' => Settled
        BY <3>3, <3>9 DEF Settled, Between
      <4> QED BY <2>2, <3>2, <3>3, <4>1 DEF SettledInv
    <3> QED BY <3>3, <3>4, <3>5, <3>6, <3>7
  <2>6. CASE status # "pending"
    <3>1. PICK pc \in {"reject", "others"} : IdGoto(c, pc)
      BY <2>1, <2>6
    <3>2. PICK r \in IdRecord : idCall' = [idCall EXCEPT ![c] = r] /\ r.pc = pc /\ r.op = idCall[c].op
      BY <2>1, <3>1, IdMoves DEF IdAt
    <3>3. idCall[c].pc = "provider"
      BY <2>1 DEF IdAt
    <3> QED BY <1>a, <2>2, <2>3, <2>4, <3>1, <3>2, <3>3, IdWritesRows
  <2> QED BY <2>5, <2>6
<1>11. CASE RejectPortrait(c)
  <2>1. /\ IdAt(c, "complete", "reject")
        /\ pic' = [pic EXCEPT ![idCall[c].pic] = "rejected"]
        /\ idCall' = [idCall EXCEPT ![c] = ReadyToBump(c, "unverified")]
        /\ UNCHANGED <<ver, profile, jti, misled, lostBump, halted, stops, mixed>>
    BY <1>11 DEF RejectPortrait, KeepPast
  <2>2. /\ ReadyToBump(c, "unverified") \in IdRecord
        /\ ReadyToBump(c, "unverified").op = idCall[c].op /\ ReadyToBump(c, "unverified").pc = "bump"
    BY <1>a, <2>1 DEF ReadyToBump, IdRecord, IdAt
  <2>3. Changing(c)
    BY <2>1 DEF Changing, Changes, IdAt
  <2>4. /\ pic' \in [Pics -> {"none", "uploaded", "pending", "verified", "rejected", "revoked"}]
        /\ \A q \in Pics : pic'[q] = "verified" => pic[q] = "verified"
    BY <1>a, <2>1
  <2> QED BY <1>a, <2>1, <2>2, <2>3, <2>4, IdWritesRows
<1>12. CASE FindPrevious(c)
  <2> DEFINE r == [op |-> "complete", pc |-> "retire", pic |-> idCall[c].pic,
                   old |-> {p \in Pics \ {idCall[c].pic} : pic[p] = "verified"}]
  <2>1. /\ IdAt(c, "complete", "others") /\ idCall' = [idCall EXCEPT ![c] = r]
        /\ UNCHANGED <<pic, ver, profile, jti, misled, lostBump, halted, stops, mixed>>
    BY <1>12 DEF FindPrevious, KeepPast, KeepRows2
  <2>2. r \in IdRecord /\ r.op = idCall[c].op /\ r.pc = "retire"
    BY <1>a, <2>1 DEF IdRecord, IdAt
  <2>3. \A p \in Pics : pic[p] = "verified" => p \in r.old \/ p = r.pic
    OBVIOUS
  <2>4. Changing(c)
    BY <2>1 DEF Changing, Changes, IdAt
  <2> HIDE DEF r
  <2> QED BY <1>a, <2>1, <2>2, <2>3, <2>4, IdWritesRows
<1>13. CASE RetirePortrait(c)
  <2>1. PICK p \in Pics : /\ IdAt(c, "complete", "retire") /\ p \in idCall[c].old
                          /\ pic' = [pic EXCEPT ![p] = "revoked"]
                          /\ idCall' = [idCall EXCEPT ![c] = [idCall[c] EXCEPT !.old = idCall[c].old \ {p}]]
    BY <1>a, <1>13 DEF RetirePortrait, IdTypeOK
  <2> DEFINE r == [idCall[c] EXCEPT !.old = idCall[c].old \ {p}]
  <2>2. UNCHANGED <<ver, profile, jti, misled, lostBump, halted, stops, mixed>>
    BY <1>13 DEF RetirePortrait, KeepPast
  <2>3. /\ r \in IdRecord /\ r.op = idCall[c].op /\ r.pc = "retire"
        /\ r.pic = idCall[c].pic /\ r.old = idCall[c].old \ {p}
    BY <1>a, <2>1 DEF IdRecord, IdAt
  <2>4. /\ pic' \in [Pics -> {"none", "uploaded", "pending", "verified", "rejected", "revoked"}]
        /\ \A q \in Pics : pic'[q] = "verified" => q # p /\ pic[q] = "verified"
    BY <1>a, <2>1
  <2>5. Changing(c) /\ idCall[c].pc = "retire"
    BY <2>1 DEF Changing, Changes, IdAt
  <2>6. mixed # "completions" => \A q \in Pics : pic'[q] = "verified" => q \in r.old \/ q = r.pic
    BY <2>3, <2>4, <2>5 DEF PortraitInv
  <2> HIDE DEF r
  <2>7. idCall' = [idCall EXCEPT ![c] = r]
    BY <2>1 DEF r
  <2> QED BY <1>a, <2>2, <2>3, <2>4, <2>5, <2>6, <2>7, IdWritesRows
<1>14. CASE IssueVerifiedPortrait(c)
  <2> DEFINE r == [op |-> "complete", pc |-> "publish", pic |-> idCall[c].pic, version |-> profile.version]
  <2>1. /\ IdAt(c, "complete", "retire") /\ idCall[c].old = {}
        /\ pic' = [pic EXCEPT ![idCall[c].pic] = "verified"] /\ idCall' = [idCall EXCEPT ![c] = r]
        /\ UNCHANGED <<ver, profile, jti, misled, lostBump, halted, stops, mixed>>
    BY <1>14 DEF IssueVerifiedPortrait, KeepPast
  <2>2. idCall[c].pic \in Pics
    BY <1>a, <2>1 DEF IdRecord, IdAt
  <2>3. r \in IdRecord /\ r.op = idCall[c].op /\ r.pc = "publish" /\ r.pic = idCall[c].pic
    BY <1>a, <2>1, <2>2 DEF IdRecord, IdAt
  <2>4. Changing(c) /\ idCall[c].pc = "retire" /\ idCall[c].op = "complete"
    BY <2>1 DEF Changing, Changes, IdAt
  <2>5. /\ pic' \in [Pics -> {"none", "uploaded", "pending", "verified", "rejected", "revoked"}]
        /\ \A q \in Pics : pic'[q] = "verified" => pic[q] = "verified" \/ q = idCall[c].pic
        /\ pic'[idCall[c].pic] = "verified"
    BY <1>a, <2>1, <2>2
  <2>6. mixed # "completions" => \A q \in Pics : pic'[q] = "verified" => q = idCall[c].pic
    BY <2>1, <2>4, <2>5 DEF PortraitInv
  <2> HIDE DEF r
  <2> QED BY <1>a, <2>1, <2>2, <2>3, <2>4, <2>5, <2>6, IdWritesRows
<1>15. CASE RevokePortrait(c)
  <2>1. /\ IdAt(c, "revoke", "portrait") /\ IdGoto(c, "withdraw")
        /\ pic' = [pic EXCEPT ![idCall[c].pic] = "revoked"]
        /\ UNCHANGED <<ver, profile, jti, misled, lostBump, halted, stops, mixed>>
    BY <1>15 DEF RevokePortrait, KeepPast
  <2>2. PICK r \in IdRecord : idCall' = [idCall EXCEPT ![c] = r] /\ r.pc = "withdraw" /\ r.op = idCall[c].op
    BY <2>1, IdMoves DEF IdAt
  <2>3. Changing(c)
    BY <2>1 DEF Changing, Changes, IdAt
  <2>4. /\ pic' \in [Pics -> {"none", "uploaded", "pending", "verified", "rejected", "revoked"}]
        /\ \A q \in Pics : pic'[q] = "verified" => pic[q] = "verified"
    BY <1>a, <2>1
  <2> QED BY <1>a, <2>1, <2>2, <2>3, <2>4, IdWritesRows
<1>16. CASE BumpProfileVersion(c)
  <2> DEFINE new == [profile EXCEPT !.identity = idCall[c].to]
  <2>1. /\ idCall[c].pc = "bump" /\ IdGoto(c, "idle") /\ WriteProfile(c, new) /\ UNCHANGED <<pic, ver, jti>>
    BY <1>16 DEF BumpProfileVersion
  <2>2. Changing(c) /\ idCall[c].version \in Nat
    BY <1>a, <2>1 DEF Changing, Changes, IdRecord
  <2>3. new \in ProfileRecord /\ new.identity # "verified"
    BY <1>a, <2>1 DEF IdRecord, ProfileRecord
  <2> HIDE DEF new
  <2> QED BY <2>1, <2>2, <2>3, IdWritesProfile
<1>17. CASE PublishProfile(c)
  <2> DEFINE new == [profile EXCEPT !.identity = "verified", !.status = "active", !.portrait = idCall[c].pic]
  <2>1. /\ IdAt(c, "complete", "publish") /\ IdGoto(c, "idle") /\ WriteProfile(c, new) /\ UNCHANGED <<pic, ver, jti>>
    BY <1>17 DEF PublishProfile
  <2>2. Changing(c) /\ idCall[c].version \in Nat /\ idCall[c].pc = "publish"
    BY <1>a, <2>1 DEF Changing, Changes, IdRecord, IdAt
  <2>3. new \in ProfileRecord /\ new.portrait = idCall[c].pic
    BY <1>a, <2>1 DEF IdRecord, ProfileRecord, IdAt
  <2> HIDE DEF new
  <2> QED BY <2>1, <2>2, <2>3, IdWritesProfile
<1>18. CASE RevokeProfile(c)
  <2> DEFINE new == [profile EXCEPT !.identity = "revoked", !.status = "revoked", !.portrait = NoPic]
  <2>1. /\ IdAt(c, "revoke", "withdraw") /\ IdGoto(c, "idle") /\ WriteProfile(c, new) /\ UNCHANGED <<pic, ver, jti>>
    BY <1>18 DEF RevokeProfile
  <2>2. Changing(c) /\ idCall[c].version \in Nat
    BY <1>a, <2>1 DEF Changing, Changes, IdRecord, IdAt
  <2>3. new \in ProfileRecord /\ new.identity # "verified"
    BY <1>a, <2>1 DEF ProfileRecord
  <2> HIDE DEF new
  <2> QED BY <2>1, <2>2, <2>3, IdWritesProfile
<1>19. CASE ReadPortrait(c)
  <2> DEFINE named == IF pic[idCall[c].claims.portrait] = "verified" THEN idCall[c].claims.portrait ELSE NoPic
             claims == Named(idCall[c].claims)
             r == [idCall[c] EXCEPT !.pc = "sign", !.claims = claims]
  <2>1. /\ UNCHANGED <<pic, ver, profile, jti, misled, lostBump, halted, stops, mixed>>
        /\ idCall[c].pc = "lookup" /\ idCall[c].op = "assert" /\ idCall[c].claims \in ProfileRecord
    BY <1>a, <1>19 DEF ReadPortrait, KeepPast, KeepRows2, IdAt, IdRecord
  <2>2. named \in {NoPic, idCall[c].claims.portrait}
    OBVIOUS
  <2>3. /\ claims \in ProfileRecord /\ claims.portrait = named /\ claims.version = idCall[c].claims.version
        /\ claims.identity = idCall[c].claims.identity /\ claims.status = idCall[c].claims.status
    BY <2>1, <2>2 DEF Named, ProfileRecord
  <2>4. idCall' = [idCall EXCEPT ![c] = r]
    BY <1>a, <1>19 DEF ReadPortrait, IdTypeOK
  <2>5. ~lostBump /\ claims.version = profile.version => named = Told
    BY <2>1, <2>3 DEF LookUpInv, Told
  <2> HIDE DEF named
  <2>6. ~lostBump => Older(claims)
    BY <2>1, <2>2, <2>3 DEF VersionInv, LookUpInv, Older, SaysProfile
  <2>7. ~lostBump => Names(claims)
    BY <2>3, <2>5 DEF Names, SaysPortrait
  <2> HIDE DEF claims
  <2>8. r \in IdRecord /\ r.pc = "sign" /\ r.op = "assert" /\ r.claims = claims
    BY <1>a, <2>1, <2>3 DEF IdRecord
  <2> HIDE DEF r
  <2>9. /\ idCall' \in [IdCalls -> IdRecord] /\ idCall'[c] = r
        /\ \A d \in IdCalls \ {c} : idCall'[d] = idCall[d]
        /\ MixedInv'
    BY <2>1, <2>4, <2>8, IdGoesOn
  <2>10. IdTypeOK'
    BY <2>1, <2>8, <2>9 DEF IdTypeOK, NamesItsPortrait
  <2>11. \A X : Names(X) => Names(X)'
    BY <2>1, <2>9, NamesStands DEF Between
  <2>12. VersionInv' /\ LookUpInv'
    BY <2>1, <2>6, <2>8, <2>9 DEF VersionInv, LookUpInv, Older, SaysProfile, HasPortrait
  <2>13. NamesInv'
    BY <2>1, <2>7, <2>8, <2>9, <2>11 DEF NamesInv
  <2>14. PortraitInv'
    BY <2>1, <2>8, <2>9 DEF PortraitInv
  <2>15. SettledInv'
    <3>1. Settled' => Settled
      BY <2>1, <2>9 DEF Settled, Between
    <3> QED BY <2>1, <2>8, <2>9, <3>1 DEF SettledInv
  <2> QED BY <2>9, <2>10, <2>12, <2>13, <2>14, <2>15
<1>20. CASE SignAssertion(c) \/ UseJti(c) \/ CompareProfile(c)
  <2>1. /\ UNCHANGED <<pic, ver, profile, lostBump, halted, stops, mixed>> /\ ~Between(c) /\ idCall[c].pc # "idle"
        /\ misled' \subseteq {"profile", "portrait"}
    BY <1>20 DEF SignAssertion, UseJti, CompareProfile, KeepPast, KeepRows2, IdAt, Between, IdTypeOK
  <2>2. PICK pc \in {"idle", "compare"} :
          IdGoto(c, pc) /\ (pc = "compare" => idCall[c].pc = "use")
    BY <1>20 DEF SignAssertion, UseJti, CompareProfile, IdAt
  <2>3. PICK r \in IdRecord : /\ idCall' = [idCall EXCEPT ![c] = r] /\ r.pc = pc
                              /\ (pc # "idle" => r.op = idCall[c].op)
    BY <2>2, IdMoves
  <2>4. /\ idCall' \in [IdCalls -> IdRecord] /\ idCall'[c] = r
        /\ \A d \in IdCalls \ {c} : idCall'[d] = idCall[d]
        /\ MixedInv'
    BY <2>1, <2>2, <2>3, IdGoesOn
  <2>5. \A X : Names(X) => Names(X)'
    BY <2>1, <2>4, NamesStands
  <2>6. /\ jti' \in [Assertions -> [status : {"none", "issued", "used"}, claims : ProfileRecord]]
        /\ \A a \in Assertions : \/ jti'[a].claims = jti[a].claims
                                 \/ idCall[c].pc = "sign" /\ jti'[a].claims = idCall[c].claims
    <3>1. CASE SignAssertion(c)
      <4>1. PICK a \in Assertions : /\ idCall[c].pc = "sign"
                                    /\ jti' = [jti EXCEPT ![a] = [status |-> "issued", claims |-> idCall[c].claims]]
        BY <3>1 DEF SignAssertion, IdAt
      <4>2. idCall[c].claims \in ProfileRecord
        BY <1>a, <4>1 DEF IdRecord
      <4> QED BY <1>a, <4>1, <4>2
    <3>2. CASE UseJti(c)
      <4>1. idCall[c].pc = "use" /\ jti' = [jti EXCEPT ![idCall[c].jti].status = "used"]
        BY <3>2 DEF UseJti, IdAt
      <4>2. idCall[c].jti \in Assertions
        BY <1>a, <4>1 DEF IdRecord
      <4> QED BY <1>a, <4>1, <4>2
    <3>3. CASE CompareProfile(c)
      BY <1>a, <3>3 DEF CompareProfile, KeepRows2
    <3> QED BY <1>20, <3>1, <3>2, <3>3
  <2>7. /\ ~lostBump => "profile" \notin misled'
        /\ ~lostBump /\ ~halted => "portrait" \notin misled'
    <3>1. CASE CompareProfile(c)
      <4> DEFINE claims == jti[idCall[c].jti].claims
      <4>1. idCall[c].jti \in Assertions
        BY <1>a, <3>1 DEF IdRecord, CompareProfile, IdAt
      <4>2. /\ misled' \subseteq misled \cup {"profile", "portrait"}
            /\ "profile" \in misled' => "profile" \in misled \/ (claims.version = profile.version /\ ~SaysProfile(claims))
            /\ "portrait" \in misled' => "portrait" \in misled \/ (claims.version = profile.version /\ ~SaysPortrait(claims))
        BY <3>1 DEF CompareProfile, Current
      <4>3. ~lostBump => Older(claims)
        BY <4>1 DEF VersionInv
      <4>4. ~lostBump /\ ~halted => Names(claims)
        BY <4>1 DEF NamesInv
      <4> HIDE DEF claims
      <4> QED BY <4>2, <4>3, <4>4 DEF VersionInv, NamesInv, Older, Names
    <3> QED BY <1>20, <3>1 DEF SignAssertion, UseJti, KeepPast, VersionInv, NamesInv
  <2>8. IdTypeOK'
    <3>1. NamesItsPortrait'
      BY <2>1, <2>2, <2>3, <2>4 DEF IdTypeOK, NamesItsPortrait
    <3> QED BY <2>1, <2>4, <2>6, <3>1 DEF IdTypeOK
  <2>9. VersionInv' /\ NamesInv' /\ LookUpInv'
    <3>1. VersionInv'
      BY <2>1, <2>2, <2>3, <2>4, <2>6, <2>7 DEF VersionInv, Older, SaysProfile
    <3>2. NamesInv'
      BY <2>1, <2>2, <2>3, <2>4, <2>5, <2>6, <2>7 DEF NamesInv
    <3>3. LookUpInv'
      BY <2>1, <2>2, <2>3, <2>4 DEF LookUpInv, HasPortrait
    <3> QED BY <3>1, <3>2, <3>3
  <2>10. PortraitInv'
    BY <2>1, <2>2, <2>3, <2>4 DEF PortraitInv
  <2>11. SettledInv'
    <3>1. Settled' => Settled
      BY <2>1, <2>4 DEF Settled, Between
    <3> QED BY <2>1, <2>2, <2>3, <2>4, <3>1 DEF SettledInv
  <2> QED BY <2>4, <2>8, <2>9, <2>10, <2>11
<1>21. CASE CallStops(c)
  <2>1. /\ UNCHANGED <<pic, ver, profile, jti, misled, lostBump, mixed>> /\ idCall[c].pc # "idle"
        /\ IdGoto(c, "idle") /\ halted' = (halted \/ Between(c)) /\ halted' \in BOOLEAN /\ stops' \in Nat
    BY <1>21 DEF CallStops, KeepRows2, IdBusy, IdTypeOK
  <2>2. PICK r \in IdRecord : idCall' = [idCall EXCEPT ![c] = r] /\ r.pc = "idle"
    BY <2>1, IdMoves
  <2>3. /\ idCall' \in [IdCalls -> IdRecord] /\ idCall'[c] = r
        /\ \A d \in IdCalls \ {c} : idCall'[d] = idCall[d]
        /\ MixedInv'
    BY <2>1, <2>2, IdGoesOn
  <2>4. IdTypeOK'
    BY <2>1, <2>2, <2>3 DEF IdTypeOK, NamesItsPortrait
  <2>5. ~halted' => ~halted /\ ~Between(c)
    BY <2>1
  <2>6. VersionInv' /\ LookUpInv'
    BY <2>1, <2>2, <2>3 DEF VersionInv, Older, SaysProfile, LookUpInv, HasPortrait
  <2>7. NamesInv'
    <3>1. ~halted' => \A X : Names(X) => Names(X)'
      BY <2>1, <2>3, <2>5, NamesStands
    <3> QED BY <2>1, <2>2, <2>3, <2>5, <3>1 DEF NamesInv
  <2>8. PortraitInv'
    BY <2>1, <2>2, <2>3 DEF PortraitInv
  <2>9. SettledInv'
    <3>1. ~halted' /\ Settled' => Settled
      BY <2>3, <2>5 DEF Settled, Between
    <3> QED BY <2>1, <2>2, <2>3, <2>5, <3>1 DEF SettledInv
  <2> QED BY <2>3, <2>4, <2>6, <2>7, <2>8, <2>9
<1> QED BY <1>1, <1>2, <1>3, <1>4, <1>5, <1>6, <1>7, <1>8, <1>9, <1>10, <1>11, <1>12, <1>13, <1>14, <1>15,
           <1>16, <1>17, <1>18, <1>19, <1>20, <1>21

(* However many changes and checks of a verified identity run at once:      *)
(* until a write of the profile is lost, claims of the version the profile  *)
(* has say what the profile says; the portrait they name is the one to name *)
(* until a change is between its rows and the profile; and a completion     *)
(* that is alone has listed the portraits it must retire.                   *)
THEOREM IdentityInvariant == IdSpec => []IdentityInv
<1>1. IdInit => IdentityInv
  BY IdInitInv
<1>2. IdentityInv /\ [IdNext]_idVars => IdentityInv'
  BY IdNextInv
<1> QED BY <1>1, <1>2, PTL DEF IdSpec

(* A relying party is told what the profile says unless a version was       *)
(* written twice (bumpProfileVersion); the portrait it is told of, read by  *)
(* itself (issueIdentityAssertion), is verified and the profile's, but for  *)
(* a change that is between its rows and the profile, or stopped there      *)
(* (revokeVerifiedPortrait, issueVerifiedPortrait).  One portrait is        *)
(* verified unless two completions overlapped.  All this for any portraits, *)
(* verifications, calls and calls that stop.                                *)
THEOREM IdentityIsSoundHolds == IdSpec => []IdentityIsSound
<1>1. IdentityInv => IdentityIsSound
  <2> SUFFICES ASSUME IdentityInv PROVE IdentityIsSound
    OBVIOUS
  <2> USE DEF IdentityInv
  <2>1. AssertionsAreCurrent
    BY DEF AssertionsAreCurrent, VersionInv, NamesInv, IdTypeOK
  <2>2. mixed # "completions" => Cardinality({p \in Pics : pic[p] = "verified"}) <= 1
    <3> DEFINE S == {p \in Pics : pic[p] = "verified"}
    <3> SUFFICES ASSUME mixed # "completions" PROVE Cardinality(S) <= 1
      OBVIOUS
    <3>1. \A p, q \in S : p = q
      BY DEF PortraitInv
    <3> HIDE DEF S
    <3>2. CASE S = {}
      BY <3>2, FS_EmptySet
    <3>3. CASE S # {}
      <4>1. PICK p : p \in S
        BY <3>3
      <4>2. S = {p}
        BY <3>1, <4>1
      <4>3. Cardinality({p}) = 1
        BY FS_Singleton
      <4> QED BY <4>2, <4>3
    <3> QED BY <3>2, <3>3
  <2>3. ASSUME profile.identity = "verified", mixed = "no", ~halted,
               \A c \in IdCalls : IdBusy(c) => idCall[c].op \notin Changes
        PROVE  profile.portrait # NoPic /\ pic[profile.portrait] = "verified"
    <3>1. Settled
      BY <2>3 DEF Settled, Between, IdTypeOK, IdRecord, IdBusy, Changes
    <3> QED BY <2>3, <3>1 DEF SettledInv
  <2> QED BY <2>1, <2>2, <2>3 DEF IdentityIsSound, VerifiedPortraitIsOne
<1> QED BY <1>1, IdentityInvariant, PTL

-----------------------------------------------------------------------------
(* Guardian recovery: circles and the shares collected *)

RecoveryRecord ==
  [pc : {"idle", "create"}]
    \cup [pc : {"revoke", "claim", "recover", "session"}, at : Circles]
    \cup [pc : {"expire"}, session : RecSessions, at : Circles]
    \cup [pc : {"collect", "reopen"}, session : RecSessions, at : Circles,
          index : Indexes, indexes : SUBSET Indexes]

RecoveryTypeOK ==
  /\ circle \in [Circles -> {"none", "active", "recovering", "revoked"}]
  /\ rec \in [RecSessions -> [circle : Circles \cup {NoCircle}, indexes : SUBSET Indexes,
                              status : {"none", "collecting", "completed", "expired"}]]
  /\ recCall \in [RecCalls -> RecoveryRecord]
  /\ acked \subseteq RecSessions \X Indexes
  /\ collided \subseteq RecSessions /\ underway \subseteq Circles
  /\ doubled \in BOOLEAN

(* Calls that can still set a circle active or recovering.                  *)
Recovering(c, k) == recCall[c].pc \in {"recover", "session", "reopen", "collect"} /\ recCall[c].at = k

(* Sessions are of circles made, and submissions of sessions made.          *)
RowsInv ==
  /\ \A s \in RecSessions : rec[s].status # "none" => rec[s].circle \in Circles /\ circle[rec[s].circle] # "none"
  /\ \A c \in RecCalls, k \in Circles : Recovering(c, k) => circle[k] # "none"
  /\ \A c \in RecCalls :
       /\ recCall[c].pc \in {"collect", "expire", "reopen"} =>
            rec[recCall[c].session].status # "none" /\ rec[recCall[c].session].circle = recCall[c].at
       /\ recCall[c].pc = "collect" => recCall[c].index \in recCall[c].indexes
  /\ \A a \in acked : rec[a[1]].status # "none"

(* What could still reopen a revoked circle was noted when it was revoked.  *)
UnderwayInv ==
  \A k \in Circles :
    /\ circle[k] = "revoked"
    /\ \/ \E c \in RecCalls : Recovering(c, k)
       \/ \E s \in RecSessions : rec[s].status = "collecting" /\ rec[s].circle = k
    => k \in underway

(* A submission that is alone in its session writes back all it read.       *)
CollectInv ==
  /\ \A c, d \in RecCalls :
       /\ recCall[c].pc \in {"collect", "expire"} /\ recCall[d].pc \in {"collect", "expire"}
       /\ recCall[c].session = recCall[d].session /\ c # d
       => recCall[c].session \in collided
  /\ \A c \in RecCalls :
       recCall[c].pc = "collect" =>
         recCall[c].session \in collided \/ rec[recCall[c].session].indexes \subseteq recCall[c].indexes

Live(k) == circle[k] \in {"active", "recovering"}

OneLiveCircle ==
  ~doubled /\ underway = {} =>
    /\ \A k, l \in Circles : Live(k) /\ Live(l) => k = l
    /\ \A c \in RecCalls : recCall[c].pc = "create" => \A k \in Circles : ~Live(k)
    /\ \A c, d \in RecCalls : recCall[c].pc = "create" /\ recCall[d].pc = "create" => c = d

RecoveryInv == RecoveryTypeOK /\ RowsInv /\ UnderwayInv /\ CollectInv /\ OneLiveCircle /\ SharesKept

LEMMA RecInitInv == RecInit => RecoveryInv
<1> SUFFICES ASSUME RecInit PROVE RecoveryInv
  OBVIOUS
<1> USE DEF RecInit
<1>1. RecoveryTypeOK
  BY DEF RecoveryTypeOK, RecoveryRecord
<1>2. RowsInv /\ UnderwayInv /\ CollectInv
  BY DEF RowsInv, UnderwayInv, CollectInv, Recovering
<1>3. OneLiveCircle /\ SharesKept
  BY DEF OneLiveCircle, Live, SharesKept
<1> QED BY <1>1, <1>2, <1>3 DEF RecoveryInv

LEMMA RecMoves ==
  ASSUME RecoveryTypeOK, NEW c \in RecCalls, NEW pc, RGoto(c, pc),
         \/ pc = "idle"
         \/ recCall[c].pc = "recover" /\ pc = "session"
         \/ recCall[c].pc = "collect" /\ pc = "reopen"
  PROVE  /\ recCall' \in [RecCalls -> RecoveryRecord]
         /\ recCall'[c].pc = pc
         /\ pc # "idle" => recCall'[c].at = recCall[c].at
         /\ pc = "reopen" => recCall'[c].session = recCall[c].session
         /\ \A d \in RecCalls \ {c} : recCall'[d] = recCall[d]
<1>1. recCall \in [RecCalls -> RecoveryRecord] /\ recCall[c] \in RecoveryRecord
  BY DEF RecoveryTypeOK
<1>2. CASE pc = "idle"
  BY <1>1, <1>2 DEF RGoto, RecoveryRecord
<1>3. CASE pc # "idle"
  <2> DEFINE r == [recCall[c] EXCEPT !.pc = pc]
  <2>1. recCall' = [recCall EXCEPT ![c] = r]
    BY <1>3 DEF RGoto
  <2>2. /\ r \in RecoveryRecord /\ r.pc = pc /\ r.at = recCall[c].at
        /\ pc = "reopen" => r.session = recCall[c].session
    BY <1>1, <1>3 DEF RecoveryRecord
  <2> HIDE DEF r
  <2> QED BY <1>1, <2>1, <2>2
<1> QED BY <1>2, <1>3

(* A step of one call alone, the rows staying as they are.                  *)
LEMMA RecAlone ==
  ASSUME RecoveryInv, NEW c \in RecCalls, recCall' \in [RecCalls -> RecoveryRecord],
         \A d \in RecCalls \ {c} : recCall'[d] = recCall[d],
         UNCHANGED <<circle, rec, acked, collided, underway, doubled>>,
         recCall'[c].pc \in {"idle", "revoke", "claim"}
           \/ (recCall'[c].pc = "recover" /\ circle[recCall'[c].at] = "active")
  PROVE  RecoveryInv'
<1> USE DEF RecoveryInv
<1>1. RecoveryTypeOK' /\ SharesKept'
  BY DEF RecoveryTypeOK, SharesKept
<1>2. RowsInv'
  BY DEF RowsInv, Recovering
<1>3. UnderwayInv'
  BY DEF UnderwayInv, Recovering
<1>4. CollectInv'
  BY DEF CollectInv
<1>5. OneLiveCircle'
  BY DEF OneLiveCircle, Live
<1> QED BY <1>1, <1>2, <1>3, <1>4, <1>5

(* A call sets the circle it is at, which is not a new one.                 *)
LEMMA RecSetsCircle ==
  ASSUME RecoveryInv, NEW c \in RecCalls, NEW k \in Circles, Recovering(c, k),
         NEW status \in {"active", "recovering"}, circle' = [circle EXCEPT ![k] = status],
         recCall' \in [RecCalls -> RecoveryRecord], \A d \in RecCalls \ {c} : recCall'[d] = recCall[d],
         UNCHANGED <<rec, acked, collided, underway, doubled>>,
         recCall'[c].pc = "idle" \/ (recCall'[c].pc = "session" /\ recCall'[c].at = k)
  PROVE  RecoveryInv'
<1> USE DEF RecoveryInv
<1>0. /\ circle' \in [Circles -> {"none", "active", "recovering", "revoked"}]
      /\ circle'[k] = status /\ \A l \in Circles \ {k} : circle'[l] = circle[l]
  BY DEF RecoveryTypeOK
<1>1. RecoveryTypeOK' /\ SharesKept'
  BY <1>0 DEF RecoveryTypeOK, SharesKept
<1>2. \A l \in Circles : circle[l] # "none" => circle'[l] # "none"
  BY <1>0
<1>3. RowsInv'
  BY <1>2 DEF RowsInv, Recovering
<1>4. UnderwayInv'
  BY <1>0 DEF UnderwayInv, Recovering
<1>5. CollectInv'
  BY DEF CollectInv
<1>6. underway = {} => Live(k)
  BY DEF UnderwayInv, RowsInv, RecoveryTypeOK, Live
<1>7. underway = {} => \A l \in Circles : Live(l)' <=> Live(l)
  BY <1>0, <1>6 DEF Live
<1>8. OneLiveCircle'
  BY <1>7 DEF OneLiveCircle
<1> QED BY <1>1, <1>3, <1>4, <1>5, <1>8

LEMMA RecNextInv == RecoveryInv /\ [RecNext]_recVars => RecoveryInv'
<1> SUFFICES ASSUME RecoveryInv, [RecNext]_recVars PROVE RecoveryInv'
  OBVIOUS
<1> USE DEF RecoveryInv
<1>u. ASSUME UNCHANGED <<circle, rec, recCall, acked, collided, underway, doubled>> PROVE RecoveryInv'
  <2>1. RecoveryTypeOK' /\ SharesKept'
    BY <1>u DEF RecoveryTypeOK, SharesKept
  <2>2. RowsInv' /\ UnderwayInv' /\ CollectInv'
    BY <1>u DEF RowsInv, UnderwayInv, CollectInv, Recovering
  <2>3. OneLiveCircle'
    BY <1>u DEF OneLiveCircle, Live
  <2> QED BY <2>1, <2>2, <2>3
<1>a. CASE UNCHANGED recVars
  BY <1>a, <1>u DEF recVars
<1>b. ASSUME NEW s \in RecSessions, RecoveryExpires(s) PROVE RecoveryInv'
  BY <1>b, <1>u DEF RecoveryExpires
<1>c. ASSUME NEW c \in RecCalls, FindActive(c) PROVE RecoveryInv'
  <2>1. /\ recCall[c].pc = "idle" /\ recCall' = [recCall EXCEPT ![c] = [pc |-> "create"]]
        /\ UNCHANGED <<circle, rec, acked, collided, underway>>
        /\ \A k \in Circles : circle[k] # "active"
    BY <1>c DEF FindActive, RBusy, KeepSessions, With
  <2>2. /\ doubled' \in BOOLEAN
        /\ ~doubled' => /\ ~doubled /\ \A k \in Circles : circle[k] # "recovering"
                        /\ \A o \in RecCalls : recCall[o].pc # "create"
    BY <1>c DEF FindActive, With, RAt, RecoveryTypeOK
  <2>3. /\ recCall' \in [RecCalls -> RecoveryRecord] /\ recCall'[c].pc = "create"
        /\ \A d \in RecCalls \ {c} : recCall'[d] = recCall[d]
    BY <2>1 DEF RecoveryTypeOK, RecoveryRecord
  <2>4. RecoveryTypeOK' /\ SharesKept'
    BY <2>1, <2>2, <2>3 DEF RecoveryTypeOK, SharesKept
  <2>5. RowsInv' /\ UnderwayInv' /\ CollectInv'
    BY <2>1, <2>3 DEF RowsInv, UnderwayInv, CollectInv, Recovering
  <2>6. OneLiveCircle'
    BY <2>1, <2>2, <2>3 DEF OneLiveCircle, Live
  <2> QED BY <2>4, <2>5, <2>6
<1>d. ASSUME NEW c \in RecCalls, CreateCircle(c) PROVE RecoveryInv'
  <2>1. PICK k \in Circles : circle[k] = "none" /\ circle' = [circle EXCEPT ![k] = "active"]
    BY <1>d DEF CreateCircle
  <2>2. recCall[c].pc = "create" /\ RGoto(c, "idle") /\ UNCHANGED <<rec, acked, collided, underway, doubled>>
    BY <1>d DEF CreateCircle, RAt, KeepSessions
  <2>3. /\ recCall' \in [RecCalls -> RecoveryRecord] /\ recCall'[c].pc = "idle"
        /\ \A d \in RecCalls \ {c} : recCall'[d] = recCall[d]
    BY <2>2, RecMoves
  <2>4. /\ circle' \in [Circles -> {"none", "active", "recovering", "revoked"}]
        /\ circle'[k] = "active" /\ \A l \in Circles \ {k} : circle'[l] = circle[l]
    BY <2>1 DEF RecoveryTypeOK
  <2>5. RecoveryTypeOK' /\ SharesKept'
    BY <2>2, <2>3, <2>4 DEF RecoveryTypeOK, SharesKept
  <2>6. \A l \in Circles : circle[l] # "none" => circle'[l] # "none"
    BY <2>4
  <2>7. RowsInv'
    BY <2>2, <2>3, <2>6 DEF RowsInv, Recovering
  <2>8. UnderwayInv' /\ CollectInv'
    BY <2>2, <2>3, <2>4 DEF UnderwayInv, CollectInv, Recovering
  <2>9. OneLiveCircle'
    BY <2>2, <2>3, <2>4 DEF OneLiveCircle, Live
  <2> QED BY <2>5, <2>7, <2>8, <2>9
<1>e. ASSUME NEW c \in RecCalls, FindRevocable(c) \/ FindInvite(c) \/ FindRecoverable(c) PROVE RecoveryInv'
  <2>1. PICK k \in Circles, pc \in {"revoke", "claim", "recover"} :
          recCall' = [recCall EXCEPT ![c] = [pc |-> pc, at |-> k]] /\ (pc = "recover" => circle[k] = "active")
    BY <1>e DEF FindRevocable, FindInvite, FindRecoverable, With
  <2>2. UNCHANGED <<circle, rec, acked, collided, underway, doubled>>
    BY <1>e DEF FindRevocable, FindInvite, FindRecoverable, OnlyRecCall
  <2>3. [pc |-> pc, at |-> k] \in RecoveryRecord
    BY DEF RecoveryRecord
  <2>4. /\ recCall' \in [RecCalls -> RecoveryRecord] /\ recCall'[c] = [pc |-> pc, at |-> k]
        /\ \A d \in RecCalls \ {c} : recCall'[d] = recCall[d]
    BY <2>1, <2>3 DEF RecoveryTypeOK
  <2> QED BY <2>1, <2>2, <2>4, RecAlone
<1>f. ASSUME NEW c \in RecCalls, ClaimShare(c) \/ RecCallDies(c) PROVE RecoveryInv'
  <2>1. RGoto(c, "idle") /\ UNCHANGED <<circle, rec, acked, collided, underway, doubled>>
    BY <1>f DEF ClaimShare, RecCallDies, KeepSessions, OnlyRecCall
  <2> QED BY <2>1, RecAlone, RecMoves
<1>g. ASSUME NEW c \in RecCalls, RevokeCircle(c) PROVE RecoveryInv'
  <2> DEFINE k == recCall[c].at
  <2>1. /\ recCall[c].pc = "revoke" /\ RGoto(c, "idle") /\ UNCHANGED <<rec, acked, collided, doubled>>
        /\ k \in Circles /\ circle' = [circle EXCEPT ![k] = "revoked"]
    BY <1>g DEF RevokeCircle, RAt, KeepSessions, RecoveryTypeOK, RecoveryRecord
  <2>2. /\ underway' \in {underway, underway \cup {k}}
        /\ \/ \E s \in RecSessions : rec[s].circle = k /\ rec[s].status = "collecting"
           \/ \E o \in RecCalls : Recovering(o, k)
           => k \in underway'
    BY <1>g DEF RevokeCircle, Recovering
  <2>3. /\ recCall' \in [RecCalls -> RecoveryRecord] /\ recCall'[c].pc = "idle"
        /\ \A d \in RecCalls \ {c} : recCall'[d] = recCall[d]
    BY <2>1, RecMoves
  <2>4. /\ circle' \in [Circles -> {"none", "active", "recovering", "revoked"}]
        /\ circle'[k] = "revoked" /\ \A l \in Circles \ {k} : circle'[l] = circle[l]
    BY <2>1 DEF RecoveryTypeOK
  <2>5. RecoveryTypeOK' /\ SharesKept'
    BY <2>1, <2>2, <2>3, <2>4 DEF RecoveryTypeOK, SharesKept
  <2>6. \A l \in Circles : circle[l] # "none" => circle'[l] # "none"
    BY <2>4
  <2>7. RowsInv'
    BY <2>1, <2>3, <2>6 DEF RowsInv, Recovering
  <2>8. \A d \in RecCalls, l \in Circles : Recovering(d, l)' => Recovering(d, l)
    BY <2>3 DEF Recovering
  <2>9. UnderwayInv'
    BY <2>1, <2>2, <2>4, <2>8 DEF UnderwayInv
  <2>10. CollectInv'
    BY <2>1, <2>3 DEF CollectInv
  <2>11. OneLiveCircle'
    <3>1. \A l \in Circles : Live(l)' => Live(l)
      BY <2>4 DEF Live
    <3>2. underway' = {} => underway = {}
      BY <2>2
    <3> QED BY <2>1, <2>3, <3>1, <3>2 DEF OneLiveCircle
  <2> QED BY <2>5, <2>7, <2>9, <2>10, <2>11
<1>h. ASSUME NEW c \in RecCalls, MarkRecovering(c) PROVE RecoveryInv'
  <2> DEFINE k == recCall[c].at
  <2>1. /\ recCall[c].pc = "recover" /\ RGoto(c, "session") /\ circle' = [circle EXCEPT ![k] = "recovering"]
        /\ UNCHANGED <<rec, acked, collided, underway, doubled>> /\ k \in Circles
    BY <1>h DEF MarkRecovering, RAt, KeepSessions, RecoveryTypeOK, RecoveryRecord
  <2>2. /\ recCall' \in [RecCalls -> RecoveryRecord] /\ recCall'[c].pc = "session" /\ recCall'[c].at = k
        /\ \A d \in RecCalls \ {c} : recCall'[d] = recCall[d]
    BY <2>1, RecMoves
  <2> QED BY <2>1, <2>2, RecSetsCircle DEF Recovering
<1>i. ASSUME NEW c \in RecCalls, ReopenCircle(c) PROVE RecoveryInv'
  <2> DEFINE k == recCall[c].at
  <2>1. /\ recCall[c].pc = "reopen" /\ RGoto(c, "idle") /\ circle' = [circle EXCEPT ![k] = "active"]
        /\ UNCHANGED <<rec, acked, collided, underway, doubled>> /\ k \in Circles
    BY <1>i DEF ReopenCircle, RAt, KeepSessions, RecoveryTypeOK, RecoveryRecord
  <2>2. /\ recCall' \in [RecCalls -> RecoveryRecord] /\ recCall'[c].pc = "idle"
        /\ \A d \in RecCalls \ {c} : recCall'[d] = recCall[d]
    BY <2>1, RecMoves
  <2> QED BY <2>1, <2>2, RecSetsCircle DEF Recovering
<1>j. ASSUME NEW c \in RecCalls, OpenRecoverySession(c) PROVE RecoveryInv'
  <2> DEFINE k == recCall[c].at
  <2>1. /\ recCall[c].pc = "session" /\ RGoto(c, "idle") /\ k \in Circles
        /\ UNCHANGED <<circle, acked, collided, underway, doubled>>
    BY <1>j DEF OpenRecoverySession, RAt, RecoveryTypeOK, RecoveryRecord
  <2>2. PICK s \in RecSessions :
          /\ rec[s].status = "none"
          /\ rec' = [rec EXCEPT ![s] = [circle |-> k, status |-> "collecting", indexes |-> {}]]
    BY <1>j DEF OpenRecoverySession
  <2>3. /\ recCall' \in [RecCalls -> RecoveryRecord] /\ recCall'[c].pc = "idle"
        /\ \A d \in RecCalls \ {c} : recCall'[d] = recCall[d]
    BY <2>1, RecMoves
  <2>4. /\ rec' \in [RecSessions -> [circle : Circles \cup {NoCircle}, indexes : SUBSET Indexes,
                                     status : {"none", "collecting", "completed", "expired"}]]
        /\ rec'[s] = [circle |-> k, status |-> "collecting", indexes |-> {}]
        /\ \A t \in RecSessions \ {s} : rec'[t] = rec[t]
    BY <2>1, <2>2 DEF RecoveryTypeOK
  <2>5. Recovering(c, k)
    BY <2>1 DEF Recovering
  <2>6. RecoveryTypeOK'
    BY <2>1, <2>3, <2>4 DEF RecoveryTypeOK
  <2>7. \A d \in RecCalls : recCall[d].pc \in {"collect", "expire", "reopen"} => recCall[d].session \in RecSessions \ {s}
    BY <2>2 DEF RowsInv, RecoveryTypeOK, RecoveryRecord
  <2>8. \A a \in acked : a[1] \in RecSessions \ {s}
    BY <2>2 DEF RowsInv, RecoveryTypeOK
  <2>9. RowsInv'
    BY <2>1, <2>3, <2>4, <2>5, <2>7, <2>8 DEF RowsInv, Recovering
  <2>10. UnderwayInv'
    BY <2>1, <2>3, <2>4, <2>5 DEF UnderwayInv, Recovering
  <2>11. CollectInv'
    BY <2>1, <2>3, <2>4, <2>7 DEF CollectInv
  <2>12. OneLiveCircle' /\ SharesKept'
    BY <2>1, <2>3, <2>4, <2>8 DEF OneLiveCircle, Live, SharesKept
  <2> QED BY <2>6, <2>9, <2>10, <2>11, <2>12
<1>k. ASSUME NEW c \in RecCalls, ReadSession(c) PROVE RecoveryInv'
  <2>1. PICK s \in RecSessions, i \in Indexes :
          /\ rec[s].status = "collecting"
          /\ \/ recCall' = [recCall EXCEPT ![c] = [pc |-> "expire", session |-> s, at |-> rec[s].circle]]
             \/ recCall' = [recCall EXCEPT ![c] = [pc |-> "collect", session |-> s, at |-> rec[s].circle, index |-> i,
                                                   indexes |-> rec[s].indexes \cup {i}]]
          /\ collided' = IF \E o \in RecCalls : recCall[o].pc \in {"collect", "expire"} /\ recCall[o].session = s
                         THEN collided \cup {s} ELSE collided
    BY <1>k DEF ReadSession
  <2>2. UNCHANGED <<circle, rec, acked, underway, doubled>>
    BY <1>k DEF ReadSession
  <2>3. rec[s].circle \in Circles /\ circle[rec[s].circle] # "none"
    BY <2>1 DEF RowsInv
  <2>4. /\ [pc |-> "expire", session |-> s, at |-> rec[s].circle] \in RecoveryRecord
        /\ [pc |-> "collect", session |-> s, at |-> rec[s].circle, index |-> i,
            indexes |-> rec[s].indexes \cup {i}] \in RecoveryRecord
    BY <2>3 DEF RecoveryRecord, RecoveryTypeOK
  <2>5. /\ recCall' \in [RecCalls -> RecoveryRecord]
        /\ recCall'[c].pc \in {"collect", "expire"} /\ recCall'[c].session = s /\ recCall'[c].at = rec[s].circle
        /\ recCall'[c].pc = "collect" => recCall'[c].index = i /\ recCall'[c].indexes = rec[s].indexes \cup {i}
        /\ \A d \in RecCalls \ {c} : recCall'[d] = recCall[d]
    <3>1. PICK r \in RecoveryRecord :
            /\ recCall' = [recCall EXCEPT ![c] = r]
            /\ r.pc \in {"collect", "expire"} /\ r.session = s /\ r.at = rec[s].circle
            /\ r.pc = "collect" => r.index = i /\ r.indexes = rec[s].indexes \cup {i}
      BY <2>1, <2>4
    <3> QED BY <3>1 DEF RecoveryTypeOK
  <2>6. /\ collided \subseteq collided' /\ collided' \subseteq RecSessions
        /\ s \in collided' \/ \A o \in RecCalls : ~(recCall[o].pc \in {"collect", "expire"} /\ recCall[o].session = s)
    BY <2>1 DEF RecoveryTypeOK
  <2>7. RecoveryTypeOK' /\ SharesKept'
    BY <2>2, <2>5, <2>6 DEF RecoveryTypeOK, SharesKept
  <2>8. RowsInv'
    BY <2>1, <2>2, <2>3, <2>5 DEF RowsInv, Recovering
  <2>9. UnderwayInv'
    BY <2>1, <2>2, <2>5 DEF UnderwayInv, Recovering
  <2>10. CollectInv'
    BY <2>2, <2>5, <2>6 DEF CollectInv
  <2>11. OneLiveCircle'
    BY <2>2, <2>5 DEF OneLiveCircle, Live
  <2> QED BY <2>7, <2>8, <2>9, <2>10, <2>11
<1>l. ASSUME NEW c \in RecCalls, ExpireRecovery(c) PROVE RecoveryInv'
  <2> DEFINE s == recCall[c].session
  <2>1. /\ recCall[c].pc = "expire" /\ RGoto(c, "idle") /\ s \in RecSessions
        /\ rec' = [rec EXCEPT ![s].status = "expired"]
        /\ UNCHANGED <<circle, acked, collided, underway, doubled>>
    BY <1>l DEF ExpireRecovery, RAt, RecoveryTypeOK, RecoveryRecord
  <2>2. /\ recCall' \in [RecCalls -> RecoveryRecord] /\ recCall'[c].pc = "idle"
        /\ \A d \in RecCalls \ {c} : recCall'[d] = recCall[d]
    BY <2>1, RecMoves
  <2>3. /\ rec' \in [RecSessions -> [circle : Circles \cup {NoCircle}, indexes : SUBSET Indexes,
                                     status : {"none", "collecting", "completed", "expired"}]]
        /\ rec'[s].status = "expired"
        /\ \A t \in RecSessions : rec'[t].circle = rec[t].circle /\ rec'[t].indexes = rec[t].indexes
        /\ \A t \in RecSessions \ {s} : rec'[t] = rec[t]
    BY <2>1 DEF RecoveryTypeOK
  <2>4. rec[s].status # "none"
    BY <2>1 DEF RowsInv
  <2>5. \A t \in RecSessions : (rec'[t].status # "none") = (rec[t].status # "none")
    BY <2>3, <2>4
  <2>6. RecoveryTypeOK' /\ SharesKept'
    BY <2>1, <2>2, <2>3 DEF RecoveryTypeOK, SharesKept
  <2>7. \A d \in RecCalls : recCall[d].pc \in {"collect", "expire", "reopen"} => recCall[d].session \in RecSessions
    BY DEF RecoveryTypeOK, RecoveryRecord
  <2>8. RowsInv'
    BY <2>1, <2>2, <2>3, <2>5, <2>7 DEF RowsInv, Recovering, RecoveryTypeOK
  <2>9. UnderwayInv'
    BY <2>1, <2>2, <2>3 DEF UnderwayInv, Recovering
  <2>10. CollectInv'
    BY <2>1, <2>2, <2>3, <2>7 DEF CollectInv
  <2>11. OneLiveCircle'
    BY <2>1, <2>2 DEF OneLiveCircle, Live
  <2> QED BY <2>6, <2>8, <2>9, <2>10, <2>11
<1>m. ASSUME NEW c \in RecCalls, CollectIndex(c) PROVE RecoveryInv'
  <2> DEFINE s == recCall[c].session
  <2>1. /\ recCall[c].pc = "collect" /\ s \in RecSessions /\ recCall[c].index \in Indexes /\ recCall[c].indexes \in SUBSET Indexes
        /\ acked' = acked \cup {<<s, recCall[c].index>>}
        /\ UNCHANGED <<circle, collided, underway, doubled>>
    BY <1>m DEF CollectIndex, RAt, RecoveryTypeOK, RecoveryRecord
  <2>2. PICK pc \in {"reopen", "idle"}, status \in {"completed", "collecting"} :
          /\ RGoto(c, pc)
          /\ rec' = [rec EXCEPT ![s].indexes = recCall[c].indexes, ![s].status = status]
    BY <1>m DEF CollectIndex
  <2>3. /\ recCall' \in [RecCalls -> RecoveryRecord] /\ recCall'[c].pc = pc
        /\ pc = "reopen" => recCall'[c].at = recCall[c].at /\ recCall'[c].session = s
        /\ \A d \in RecCalls \ {c} : recCall'[d] = recCall[d]
    BY <2>1, <2>2, RecMoves
  <2>4. /\ rec' \in [RecSessions -> [circle : Circles \cup {NoCircle}, indexes : SUBSET Indexes,
                                     status : {"none", "collecting", "completed", "expired"}]]
        /\ rec'[s].status = status /\ rec'[s].indexes = recCall[c].indexes
        /\ \A t \in RecSessions : rec'[t].circle = rec[t].circle
        /\ \A t \in RecSessions \ {s} : rec'[t] = rec[t]
    BY <2>1, <2>2 DEF RecoveryTypeOK
  <2>5. rec[s].status # "none" /\ rec[s].circle = recCall[c].at /\ recCall[c].index \in recCall[c].indexes
    BY <2>1 DEF RowsInv
  <2>6. \A t \in RecSessions : (rec'[t].status # "none") = (rec[t].status # "none")
    BY <2>4, <2>5
  <2>7. RecoveryTypeOK'
    BY <2>1, <2>3, <2>4 DEF RecoveryTypeOK
  <2>8. SharesKept'
    <3> SUFFICES ASSUME NEW a \in acked' PROVE a[2] \in rec'[a[1]].indexes \/ a[1] \in collided
      BY <2>1 DEF SharesKept
    <3>1. CASE a = <<s, recCall[c].index>>
      BY <2>4, <2>5, <3>1
    <3>2. CASE a \in acked
      BY <2>1, <2>4, <3>2 DEF SharesKept, CollectInv, RecoveryTypeOK
    <3> QED BY <2>1, <3>1, <3>2
  <2>9. \A d \in RecCalls : recCall[d].pc \in {"collect", "expire", "reopen"} => recCall[d].session \in RecSessions
    BY DEF RecoveryTypeOK, RecoveryRecord
  <2>10. RowsInv'
    <3>1. \A t \in RecSessions : rec'[t].status # "none" => rec'[t].circle \in Circles /\ circle'[rec'[t].circle] # "none"
      <4>1. \A t \in RecSessions : rec'[t].status # "none" => rec[t].circle \in Circles /\ circle[rec[t].circle] # "none"
        BY <2>6 DEF RowsInv
      <4>2. \A t \in RecSessions : rec'[t].circle = rec[t].circle
        BY <2>4
      <4> QED BY <2>1, <4>1, <4>2
    <3>2. \A d \in RecCalls, k \in Circles : Recovering(d, k)' => Recovering(d, k)
      BY <2>1, <2>3 DEF Recovering
    <3>3. \A d \in RecCalls :
            /\ recCall'[d].pc \in {"collect", "expire", "reopen"} =>
                 rec'[recCall'[d].session].status # "none" /\ rec'[recCall'[d].session].circle = recCall'[d].at
            /\ recCall'[d].pc = "collect" => recCall'[d].index \in recCall'[d].indexes
      <4>1. ASSUME NEW d \in RecCalls \ {c}
            PROVE  /\ recCall[d].pc \in {"collect", "expire", "reopen"} =>
                        rec'[recCall[d].session].status # "none" /\ rec'[recCall[d].session].circle = recCall[d].at
                   /\ recCall[d].pc = "collect" => recCall[d].index \in recCall[d].indexes
        BY <2>4, <2>6, <2>9 DEF RowsInv
      <4>2. pc = "reopen" => rec'[s].status # "none" /\ rec'[s].circle = recCall[c].at
        BY <2>1, <2>4, <2>5, <2>6
      <4> QED BY <2>3, <4>1, <4>2
    <3>4. \A a \in acked' : rec'[a[1]].status # "none"
      BY <2>1, <2>5, <2>6 DEF RowsInv, RecoveryTypeOK
    <3> QED BY <2>1, <3>1, <3>2, <3>3, <3>4 DEF RowsInv
  <2>11. UnderwayInv'
    <3>1. \A d \in RecCalls, k \in Circles : Recovering(d, k)' => Recovering(d, k)
      BY <2>1, <2>3 DEF Recovering
    <3>2. Recovering(c, rec[s].circle)
      BY <2>1, <2>5 DEF Recovering
    <3> QED BY <2>1, <2>4, <3>1, <3>2 DEF UnderwayInv
  <2>12. CollectInv'
    BY <2>1, <2>3, <2>4, <2>9 DEF CollectInv
  <2>13. OneLiveCircle'
    BY <2>1, <2>3 DEF OneLiveCircle, Live
  <2> QED BY <2>7, <2>8, <2>10, <2>11, <2>12, <2>13
<1> QED
  BY <1>a, <1>b, <1>c, <1>d, <1>e, <1>f, <1>g, <1>h, <1>i, <1>j, <1>k, <1>l, <1>m DEF RecNext

(* Sessions are of circles that were made, and until two submissions of a   *)
(* session meet, the one in flight has read every share it writes back.     *)
THEOREM RecoveryInvariant == RecSpec => []RecoveryInv
BY RecInitInv, RecNextInv, PTL DEF RecSpec

(* A share that was acknowledged is in its session, and a user has one      *)
(* active circle, but for the overlaps named in the two properties: for any *)
(* circles, sessions and number of calls of the recovery service.           *)
THEOREM RecoveryIsSoundHolds == RecSpec => []RecoveryIsSound
<1>1. RecoveryInv => RecoveryIsSound
  <2> SUFFICES ASSUME RecoveryInv PROVE RecoveryIsSound
    OBVIOUS
  <2>1. ASSUME ~doubled, underway = {} PROVE ~(Cardinality(With({"active"})) > 1)
    <3>1. \A k, l \in With({"active"}) : k = l
      BY <2>1 DEF RecoveryInv, OneLiveCircle, Live, With
    <3>2. With({"active"}) = {} \/ \E k : With({"active"}) = {k}
      BY <3>1
    <3>3. Cardinality(With({"active"})) = 0 \/ Cardinality(With({"active"})) = 1
      BY <3>2, FS_EmptySet, FS_Singleton
    <3> QED BY <3>3
  <2> QED BY <2>1 DEF RecoveryIsSound, OneActiveCircle, RecoveryInv
<1> QED
  BY RecoveryInvariant, <1>1, PTL

(* No step of any call takes a revoked circle back, except of a recovery    *)
(* that was running or being started when revokeGuardianCircle wrote.       *)
THEOREM RevokedStaysRevokedHolds == RecSpec => RevokedStaysRevoked
<1> DEFINE Kept == \A k \in Circles : circle[k] = "revoked" /\ circle'[k] # "revoked" => k \in underway
<1>1. RecoveryInv /\ [RecNext]_recVars => [Kept]_recVars
  <2> SUFFICES ASSUME RecoveryInv, RecNext, NEW k \in Circles, circle[k] = "revoked", circle'[k] # "revoked"
               PROVE  k \in underway
    OBVIOUS
  <2> USE DEF RecoveryInv
  <2>1. ASSUME NEW c \in RecCalls, Recovering(c, k) PROVE k \in underway
    BY <2>1 DEF UnderwayInv
  <2>2. ASSUME NEW c \in RecCalls, CreateCircle(c) PROVE FALSE
    BY <2>2 DEF CreateCircle, RecoveryTypeOK
  <2>3. ASSUME NEW c \in RecCalls, RevokeCircle(c) PROVE FALSE
    BY <2>3 DEF RevokeCircle, RecoveryTypeOK
  <2>4. ASSUME NEW c \in RecCalls, MarkRecovering(c) \/ ReopenCircle(c) PROVE Recovering(c, k)
    BY <2>4 DEF MarkRecovering, ReopenCircle, RAt, Recovering, RecoveryTypeOK
  <2>5. ASSUME NEW s \in RecSessions, RecoveryExpires(s) PROVE FALSE
    BY <2>5 DEF RecoveryExpires
  <2>6. ASSUME NEW c \in RecCalls,
               \/ FindActive(c) \/ FindRevocable(c) \/ FindInvite(c) \/ ClaimShare(c) \/ FindRecoverable(c)
               \/ OpenRecoverySession(c) \/ ReadSession(c) \/ ExpireRecovery(c) \/ CollectIndex(c) \/ RecCallDies(c)
        PROVE  FALSE
    BY <2>6 DEF FindActive, FindRevocable, FindInvite, ClaimShare, FindRecoverable, OpenRecoverySession,
                ReadSession, ExpireRecovery, CollectIndex, RecCallDies, OnlyRecCall
  <2> QED BY <2>1, <2>2, <2>3, <2>4, <2>5, <2>6 DEF RecNext
<1> QED
  BY RecoveryInvariant, <1>1, PTL DEF RecSpec, RevokedStaysRevoked

-----------------------------------------------------------------------------
(* The keys and the media of the phone *)

TaskRecord ==
  [op : {"none", "unlock", "sign", "import", "open", "remove"},
   pc : {"none", "prepare", "prompt"}, media : Media \cup {NoMedia}, wipe : BOOLEAN,
   gen : Nat, pub : Nat, made : Nat]

KeysTypeOK ==
  /\ epoch \in Nat /\ key \in [Aliases -> [gen : Nat, epoch : Nat]]
  /\ sealed \in [Media -> Nat] /\ original \in [Media -> {"kept", "asked", "wiped"}]
  /\ catalog \subseteq Media /\ storedCat \subseteq Media
  /\ tasks \in [KeyCalls -> TaskRecord]

(* What a prompt was shown for: the gate's public key is of the entry that  *)
(* signs, and the vault's cipher has the key every file is sealed with.     *)
TaskOK(r) ==
  /\ r.op \in {"import", "open", "remove"} => r.media \in Media
  /\ r.pc = "prompt" /\ r.op \in {"unlock", "sign"} => r.pub = r.gen
  /\ r.pc = "prompt" /\ r.op = "import" => r.gen = key["dek"].gen /\ r.gen # 0

KeysInv == KeysTypeOK /\ (\A c \in KeyCalls : TaskOK(tasks[c])) /\ MediaIsSafe

LEMMA InactiveOK == Inactive \in TaskRecord /\ Inactive.op = "none" /\ Inactive.pc = "none"
  BY DEF Inactive, TaskRecord, NoMedia

LEMMA KeysInitInv == KeysInit => KeysInv
<1> SUFFICES ASSUME KeysInit PROVE KeysInv
  OBVIOUS
<1>1. KeysTypeOK
  BY InactiveOK DEF KeysInit, KeysTypeOK
<1>2. \A c \in KeyCalls : TaskOK(tasks[c])
  BY InactiveOK DEF KeysInit, TaskOK
<1>3. MediaIsSafe
  BY DEF KeysInit, MediaIsSafe, SignaturesVerify, OneKeyForAllFiles, FilesAreListed, OriginalsSurvive
<1> QED BY <1>1, <1>2, <1>3 DEF KeysInv

(* A step of one call that leaves the media and the vault's key alone.      *)
LEMMA TaskMoves ==
  ASSUME KeysInv, NEW c \in KeyCalls, NEW r \in TaskRecord, tasks' = [tasks EXCEPT ![c] = r], TaskOK(r),
         UNCHANGED <<epoch, key, answer>>, KeepVault
  PROVE  KeysInv'
<1>1. KeysTypeOK'
  BY DEF KeysInv, KeysTypeOK, KeepVault
<1>2. \A d \in KeyCalls : TaskOK(tasks[d])'
  BY DEF KeysInv, KeysTypeOK, TaskOK
<1>3. MediaIsSafe'
  BY DEF KeysInv, KeepVault, MediaIsSafe, SignaturesVerify, OneKeyForAllFiles, FilesAreListed,
         OriginalsSurvive
<1> QED BY <1>1, <1>2, <1>3 DEF KeysInv

(* A key made where there was none seals no file yet.                       *)
LEMMA KeyIsMade ==
  ASSUME KeysInv, NEW c \in KeyCalls, NEW r \in TaskRecord, tasks' = [tasks EXCEPT ![c] = r],
         NEW a \in Aliases, key' = Made(a), a = "dek" => key["dek"].gen = 0,
         UNCHANGED <<epoch, answer>>, KeepVault, TaskOK(r)'
  PROVE  KeysInv'
<1>1. /\ key' \in [Aliases -> [gen : Nat, epoch : Nat]]
      /\ key["dek"].gen # 0 => key'["dek"] = key["dek"]
  BY DEF KeysInv, KeysTypeOK, Made, Aliases, Gate
<1>2. KeysTypeOK'
  BY <1>1 DEF KeysInv, KeysTypeOK, KeepVault
<1>3. \A d \in KeyCalls : TaskOK(tasks[d])'
  BY <1>1 DEF KeysInv, KeysTypeOK, TaskOK
<1>4. \A m \in Media : sealed[m] # 0 => key["dek"].gen # 0
  BY DEF KeysInv, MediaIsSafe, OneKeyForAllFiles
<1>5. MediaIsSafe'
  BY <1>1, <1>4 DEF KeysInv, KeepVault, MediaIsSafe, SignaturesVerify, OneKeyForAllFiles, FilesAreListed,
                    OriginalsSurvive
<1> QED BY <1>2, <1>3, <1>5 DEF KeysInv

LEMMA AskStep == ASSUME KeysInv, NEW c \in KeyCalls, Ask(c) PROVE KeysInv'
<1>1. UNCHANGED <<epoch, key, answer>> /\ KeepVault
  BY DEF Ask, KeepKeys
<1>2. CASE \E op \in {"unlock", "sign"} :
             tasks' = [tasks EXCEPT ![c] = [Inactive EXCEPT !.op = op, !.pc = "prepare"]]
  <2>1. PICK op \in {"unlock", "sign"} :
          tasks' = [tasks EXCEPT ![c] = [Inactive EXCEPT !.op = op, !.pc = "prepare"]]
    BY <1>2
  <2> DEFINE r == [Inactive EXCEPT !.op = op, !.pc = "prepare"]
  <2>2. r \in TaskRecord /\ TaskOK(r)
    BY InactiveOK DEF Inactive, TaskRecord, TaskOK
  <2> HIDE DEF r
  <2> QED BY <1>1, <2>1, <2>2, TaskMoves DEF r
<1>3. CASE \E m \in Media, op \in {"import", "open", "remove"}, w \in BOOLEAN :
             tasks' = [tasks EXCEPT ![c] = [Inactive EXCEPT !.op = op, !.pc = "prepare",
                                                            !.media = m, !.wipe = w]]
  <2>1. PICK m \in Media, op \in {"import", "open", "remove"}, w \in BOOLEAN :
          tasks' = [tasks EXCEPT ![c] = [Inactive EXCEPT !.op = op, !.pc = "prepare",
                                                         !.media = m, !.wipe = w]]
    BY <1>3
  <2> DEFINE r == [Inactive EXCEPT !.op = op, !.pc = "prepare", !.media = m, !.wipe = w]
  <2>2. r \in TaskRecord /\ TaskOK(r)
    BY InactiveOK DEF Inactive, TaskRecord, TaskOK
  <2> HIDE DEF r
  <2> QED BY <1>1, <2>1, <2>2, TaskMoves DEF r
<1> QED BY <1>2, <1>3 DEF Ask

LEMMA PrepareStep ==
  ASSUME KeysInv, NEW c \in KeyCalls, PrepareSignature(c) \/ PrepareCipher(c)
  PROVE  KeysInv'
<1>1. UNCHANGED <<epoch, answer>> /\ KeepVault /\ tasks[c] \in TaskRecord /\ TaskOK(tasks[c])
  BY DEF PrepareSignature, PrepareCipher, KeysInv, KeysTypeOK
<1>2. CASE PrepareSignature(c)
  <2> DEFINE a == AliasOf(tasks[c].op)
  <2>1. /\ tasks[c].op \in {"unlock", "sign"} /\ a \in Aliases /\ a # "dek"
        /\ key' \in {key, Made(a)}
        /\ tasks' = [tasks EXCEPT ![c] = [@ EXCEPT !.pc = "prompt", !.gen = key'[a].gen,
                                          !.pub = key'[a].gen, !.made = key'[a].epoch]]
    BY <1>2 DEF PrepareSignature, AliasOf, Aliases, Gate, KeysInv, KeysTypeOK
  <2>2. key'[a].gen \in Nat /\ key'[a].epoch \in Nat
    BY <2>1 DEF Made, KeysInv, KeysTypeOK
  <2> HIDE DEF a
  <2>3. PICK g \in Nat, e \in Nat : g = key'[a].gen /\ e = key'[a].epoch
    BY <2>2
  <2> DEFINE r == [tasks[c] EXCEPT !.pc = "prompt", !.gen = g, !.pub = g, !.made = e]
  <2>4. PICK q : q = r
    OBVIOUS
  <2>5. tasks' = [tasks EXCEPT ![c] = q]
    BY <2>1, <2>3, <2>4 DEF KeysInv, KeysTypeOK
  <2>6. q \in TaskRecord /\ q.op \in {"unlock", "sign"} /\ q.pub = q.gen
    BY <1>1, <2>1, <2>4 DEF TaskRecord
  <2>7. TaskOK(q) /\ TaskOK(q)'
    BY <2>6 DEF TaskOK
  <2> QED BY <1>1, <2>1, <2>5, <2>6, <2>7, TaskMoves, KeyIsMade
<1>3. CASE PrepareCipher(c) /\ Missing(c)
  BY <1>1, <1>3, InactiveOK, TaskMoves DEF PrepareCipher, Leave, TaskOK
<1>4. CASE PrepareCipher(c) /\ ~Missing(c)
  <2>1. /\ tasks[c].op \in {"import", "open"} /\ "dek" \in Aliases /\ key' = EnsureKey
        /\ tasks' = [tasks EXCEPT ![c] = [@ EXCEPT !.pc = "prompt", !.gen = key'["dek"].gen,
                                          !.made = epoch]]
    BY <1>4 DEF PrepareCipher, Aliases, KeysInv, KeysTypeOK
  <2>2. PICK g \in Nat \ {0} : g = key'["dek"].gen
    BY <2>1 DEF EnsureKey, Made, KeysInv, KeysTypeOK
  <2>3. PICK q : q = [tasks[c] EXCEPT !.pc = "prompt", !.gen = g, !.made = epoch]
    OBVIOUS
  <2>4. tasks' = [tasks EXCEPT ![c] = q]
    BY <2>1, <2>2, <2>3 DEF KeysInv, KeysTypeOK
  <2>5. q \in TaskRecord /\ q.gen = g /\ q.op \in {"import", "open"} /\ q.media = tasks[c].media
    BY <1>1, <2>1, <2>3 DEF TaskRecord, KeysInv, KeysTypeOK
  <2>6. TaskOK(q)'
    BY <1>1, <2>1, <2>2, <2>5 DEF TaskOK
  <2>7. CASE key' = key
    <3>1. TaskOK(q)
      BY <2>6, <2>7 DEF TaskOK
    <3> QED BY <1>1, <2>4, <2>5, <2>7, <3>1, TaskMoves
  <2>8. CASE key["dek"].gen = 0 /\ key' = Made("dek")
    BY <1>1, <2>1, <2>4, <2>5, <2>6, <2>8, KeyIsMade
  <2> QED BY <2>1, <2>7, <2>8 DEF EnsureKey
<1> QED BY <1>2, <1>3, <1>4

(* The steps that write a file, the catalog or an original: one medium.     *)
LEMMA VaultStep ==
  ASSUME KeysInv, NEW c \in KeyCalls, Import(c) \/ RemoveMedia(c)
  PROVE  KeysInv'
<1> DEFINE m == tasks[c].media
<1>1. /\ UNCHANGED <<epoch, key, answer, storedCat, torn>> /\ removed \subseteq removed'
      /\ tasks[c] \in TaskRecord /\ TaskOK(tasks[c]) /\ m \in Media
      /\ tasks' = [tasks EXCEPT ![c] = Inactive]
  BY DEF Import, RemoveMedia, Leave, KeepKeys, KeysInv, KeysTypeOK, TaskOK
<1>2. \A d \in KeyCalls : TaskOK(tasks[d])'
  BY <1>1, InactiveOK DEF KeysInv, KeysTypeOK, TaskOK
<1>3. /\ tasks[c].op = "import" => tasks[c].gen \in Nat
      /\ Import(c) => tasks[c].gen = key["dek"].gen /\ tasks[c].gen # 0
  BY <1>1 DEF Import, Unlocks, TaskOK, TaskRecord
<1>4. KeysTypeOK'
  BY <1>1, <1>3, InactiveOK DEF Import, RemoveMedia, KeysInv, KeysTypeOK
<1>5. SignaturesVerify' /\ OneKeyForAllFiles'
  BY <1>1, <1>3 DEF Import, RemoveMedia, KeysInv, KeysTypeOK, MediaIsSafe, SignaturesVerify,
                    OneKeyForAllFiles
<1>6. FilesAreListed'
  BY <1>1, <1>3 DEF Import, RemoveMedia, KeysInv, KeysTypeOK, MediaIsSafe, FilesAreListed
<1>7. OriginalsSurvive'
  BY <1>1, <1>3 DEF Import, RemoveMedia, KeysInv, KeysTypeOK, MediaIsSafe, OriginalsSurvive
<1> QED BY <1>2, <1>4, <1>5, <1>6, <1>7 DEF KeysInv, MediaIsSafe

LEMMA EndStep == KeysInv /\ ProcessEnds => KeysInv'
<1> SUFFICES ASSUME KeysInv, ProcessEnds PROVE KeysInv'
  OBVIOUS
<1>1. KeysTypeOK'
  BY InactiveOK DEF ProcessEnds, KeepKeys, KeysInv, KeysTypeOK
<1>2. \A d \in KeyCalls : TaskOK(tasks[d])'
  BY InactiveOK DEF ProcessEnds, TaskOK
<1>3. \A m \in Media \ torn' : m \notin torn /\ (m \in catalog' <=> m \in catalog)
  BY DEF ProcessEnds
<1>4. MediaIsSafe'
  BY <1>3 DEF ProcessEnds, KeepKeys, KeysInv, MediaIsSafe, SignaturesVerify, OneKeyForAllFiles,
              FilesAreListed, OriginalsSurvive
<1> QED BY <1>1, <1>2, <1>4 DEF KeysInv

LEMMA KeysNextInv == KeysInv /\ [KeysNext]_keyVars => KeysInv'
<1> SUFFICES ASSUME KeysInv, [KeysNext]_keyVars PROVE KeysInv'
  OBVIOUS
<1> USE DEF KeepKeys, KeepVault
<1>1. ASSUME UNCHANGED <<key, sealed, catalog, tasks, removed, torn>>,
             epoch' \in Nat, storedCat' \in {storedCat, catalog},
             original' \in [Media -> {"kept", "asked", "wiped"}],
             \A m \in Media : original'[m] = "kept" <=> original[m] = "kept",
             answer'.by = answer'.named
      PROVE  KeysInv'
  <2>1. KeysTypeOK'
    BY <1>1 DEF KeysInv, KeysTypeOK
  <2>2. \A d \in KeyCalls : TaskOK(tasks[d])'
    BY <1>1 DEF KeysInv, TaskOK
  <2>3. MediaIsSafe'
    BY <1>1 DEF KeysInv, MediaIsSafe, SignaturesVerify, OneKeyForAllFiles, FilesAreListed,
                OriginalsSurvive
  <2> QED BY <2>1, <2>2, <2>3 DEF KeysInv
<1>2. CASE UNCHANGED keyVars \/ LockVault \/ Enrol \/ FlushCatalog
  BY <1>1, <1>2 DEF keyVars, LockVault, Enrol, FlushCatalog, KeysInv, KeysTypeOK, MediaIsSafe,
                    SignaturesVerify
<1>3. CASE ConfirmWipe
  BY <1>1, <1>3 DEF ConfirmWipe, KeysInv, KeysTypeOK, MediaIsSafe, SignaturesVerify
<1>4. CASE CipherThrows \/ Killed
  BY <1>4, EndStep DEF CipherThrows, Killed
<1>5. ASSUME NEW c \in KeyCalls, Rejected(c) \/ Open(c) PROVE KeysInv'
  BY <1>5, InactiveOK, TaskMoves DEF Rejected, Open, Leave, TaskOK
<1>6. ASSUME NEW c \in KeyCalls, Authenticated(c) PROVE KeysInv'
  <2>1. answer'.by = answer'.named /\ tasks' = [tasks EXCEPT ![c] = Inactive]
        /\ UNCHANGED <<epoch, key, sealed, catalog, storedCat, original, removed, torn>>
    BY <1>6 DEF Authenticated, Unlocks, Leave, KeysInv, TaskOK
  <2>2. KeysTypeOK' /\ \A d \in KeyCalls : TaskOK(tasks[d])'
    BY <2>1, InactiveOK DEF KeysInv, KeysTypeOK, TaskOK
  <2>3. MediaIsSafe'
    BY <2>1 DEF KeysInv, MediaIsSafe, SignaturesVerify, OneKeyForAllFiles, FilesAreListed,
                OriginalsSurvive
  <2> QED BY <2>2, <2>3 DEF KeysInv
<1> QED BY <1>2, <1>3, <1>4, <1>5, <1>6, AskStep, PrepareStep, VaultStep DEF KeysNext

(* MediaIsSafe: a signature verifies under the public key it is answered    *)
(* with, the key of the vault is never replaced under the files it sealed,  *)
(* files and catalog agree but for what an end of the process tore apart,   *)
(* and no original is given up before its copy is there                     *)
(* (BiometricGatePlugin and MediaVaultPlugin of the Android shell).         *)
THEOREM MediaIsSafeHolds == KeysSpec => []MediaIsSafe
<1>1. KeysInv => MediaIsSafe
  BY DEF KeysInv
<1> QED BY <1>1, KeysInitInv, KeysNextInv, PTL DEF KeysSpec

-----------------------------------------------------------------------------
(* The shield of the locked apps *)

(* Why a locked app may be in front while the guard is not: the service is  *)
(* about to see it, or the guard is on its way, or it was let through.      *)
Excused ==
  \/ launch # Nil \/ front \in Range(events)
  \/ passed \in {"free", "grace", "restart"}
  \/ passed = "throttle" /\ trigger.pkg = front

(* An overlay comes with a guard on its way, and goes with the guard; it is *)
(* no excuse of its own, as Deny takes it down from a guard left behind.    *)
GuardInv ==
  /\ locked \subseteq Packages /\ front \in Packages \cup {Other} /\ events \in Seq(Packages)
  /\ trigger \in [pkg : Packages \cup {Nil}, recent : BOOLEAN]
  /\ veilDue # Nil => launch # Nil
  /\ VeilIsLifted
  /\ front \in locked /\ guard # "front" => Excused

LEMMA GuardInitInv == GuardInit => GuardInv
  BY GuardAssumption DEF GuardInit, GuardInv, VeilIsLifted, Nil

(* A window event joins the end of the queue.                               *)
LEMMA Queued ==
  ASSUME events \in Seq(Packages), NEW p \in Packages \cup {Other}, Emits(p)
  PROVE  /\ events' \in Seq(Packages)
         /\ Range(events) \subseteq Range(events')
         /\ p # Other => p \in Range(events')
<1>1. CASE p = Other
  BY <1>1 DEF Emits
<1>2. CASE p # Other
  <2>1. events' = Append(events, p) /\ p \in Packages
    BY <1>2 DEF Emits
  <2>2. /\ events' \in Seq(Packages) /\ Len(events') = Len(events) + 1
        /\ \A i \in 1..Len(events) : events'[i] = events[i]
        /\ events'[Len(events) + 1] = p
    BY <2>1
  <2>3. DOMAIN events = 1..Len(events) /\ DOMAIN events' = 1..(Len(events) + 1) /\ Len(events) \in Nat
    BY <2>2
  <2> QED BY <2>2, <2>3 DEF Range
<1> QED BY <1>1, <1>2

(* Of the queue only its head is handled.                                   *)
LEMMA Handled ==
  ASSUME events \in Seq(Packages), events # <<>>, events' = Tail(events)
  PROVE  /\ events' \in Seq(Packages) /\ Head(events) \in Packages
         /\ \A p \in Range(events) : p = Head(events) \/ p \in Range(events')
<1>1. /\ events' \in Seq(Packages) /\ Head(events) \in Packages /\ Head(events) = events[1]
      /\ Len(events') = Len(events) - 1 /\ Len(events) \in Nat \ {0}
      /\ \A i \in 1..Len(events') : events'[i] = events[i + 1]
  OBVIOUS
<1>2. DOMAIN events = 1..Len(events) /\ DOMAIN events' = 1..(Len(events) - 1)
  BY <1>1
<1>3. ASSUME NEW i \in 1..Len(events), i # 1 PROVE events[i] \in Range(events')
  <2>1. i - 1 \in 1..(Len(events) - 1) /\ events'[i - 1] = events[i]
    BY <1>1, <1>3
  <2> QED BY <2>1, <1>2 DEF Range
<1> QED BY <1>1, <1>2, <1>3 DEF Range

LEMMA GuardNextInv == GuardInv /\ [GuardNext]_guardVars => GuardInv'
<1> SUFFICES ASSUME GuardInv, [GuardNext]_guardVars PROVE GuardInv'
  OBVIOUS
<1> USE DEF GuardInv
<1>1. CASE UNCHANGED guardVars
  BY <1>1 DEF guardVars, VeilIsLifted, Excused
<1>2. CASE Switch
  <2>1. PICK p \in Packages \cup {Other} : front' = p /\ Emits(p)
    BY <1>2 DEF Switch
  <2>2. events' \in Seq(Packages) /\ (p # Other => p \in Range(events'))
    BY <2>1, Queued
  <2>3. p \in locked => p # Other
    BY GuardAssumption
  <2> QED BY <1>2, <2>1, <2>2, <2>3 DEF Switch, VeilIsLifted, Excused, Nil
<1>3. CASE WindowChanges
  <2>1. events' \in Seq(Packages) /\ Range(events) \subseteq Range(events')
    BY <1>3, Queued DEF WindowChanges
  <2> QED BY <1>3, <2>1 DEF WindowChanges, VeilIsLifted, Excused
<1>4. CASE HandleEvent
  <2> DEFINE p == Head(events)
  <2>1. events' \in Seq(Packages) /\ p \in Packages /\ p # Nil
        /\ \A q \in Range(events) : q = p \/ q \in Range(events')
    BY <1>4, Handled, GuardAssumption DEF HandleEvent
  <2>2. UNCHANGED <<locked, grace, front, veil, guard, overlays, edits>>
    BY <1>4 DEF HandleEvent
  <2>3. CASE p \in locked /\ launch' = p /\ trigger' = [pkg |-> p, recent |-> TRUE]
             /\ veilDue' \in {p, veilDue}
    BY <2>1, <2>2, <2>3 DEF VeilIsLifted, Excused
  <2>4. ASSUME NEW why \in {"free", "grace", "throttle"}, LetThrough(p, why),
               why = "free" => p \notin locked, why = "throttle" => trigger.pkg = p
        PROVE  GuardInv'
    BY <2>1, <2>2, <2>4 DEF LetThrough, VeilIsLifted, Excused
  <2> HIDE DEF p
  <2> QED BY <1>4, <2>3, <2>4 DEF HandleEvent, Throttled, p
<1>5. CASE ShowVeil
  BY <1>5 DEF ShowVeil, VeilIsLifted, Excused
<1>6. CASE TapVeil
  BY <1>6 DEF TapVeil, VeilIsLifted, Excused
<1>7. CASE OpenGuard
  BY <1>7 DEF OpenGuard, VeilIsLifted, Excused, Nil
<1>8. CASE Pass \/ Deny
  <2>1. CloseGuard /\ UNCHANGED <<locked, front, trigger, veilDue, launch>> /\ guard # Nil
        /\ (guard # "front" => UNCHANGED passed)
    BY <1>8 DEF Pass, Deny, Nil
  <2>2. CASE guard = "front"
    <3>1. events' \in Seq(Packages) /\ (front # Other => front \in Range(events'))
      BY <2>1, <2>2, Queued DEF CloseGuard
    <3>2. front \in locked => front # Other
      BY GuardAssumption
    <3> QED BY <2>1, <3>1, <3>2 DEF CloseGuard, VeilIsLifted, Excused
  <2>3. CASE guard # "front"
    BY <2>1, <2>3 DEF CloseGuard, VeilIsLifted, Excused
  <2> QED BY <2>2, <2>3
<1>9. CASE ThrottleEnds
  BY <1>9 DEF ThrottleEnds, VeilIsLifted, Excused
<1>10. CASE GraceEnds
  BY <1>10 DEF GraceEnds, VeilIsLifted, Excused
<1>11. CASE EditList
  BY <1>11 DEF EditList, VeilIsLifted, Excused
<1>12. CASE ServiceRestarts
  BY <1>12 DEF ServiceRestarts, VeilIsLifted, Excused
<1> QED
  BY <1>1, <1>2, <1>3, <1>4, <1>5, <1>6, <1>7, <1>8, <1>9, <1>10, <1>11, <1>12 DEF GuardNext

(* ShieldIsSound: a locked app is in front and uncovered only while it is   *)
(* about to be seen or covered, or was let through for a named reason (the  *)
(* throttle is one, which the documentation does not grant), and no overlay *)
(* outlives its guard (onAccessibilityEvent, OverlayGuardActivity).         *)
THEOREM ShieldIsSoundHolds == GuardSpec => []ShieldIsSound
<1>1. GuardInv => ShieldIsSound
  BY DEF GuardInv, ShieldIsSound, LockedAreCovered, AboutToCover, LetIn, Covered, Excused
<1> QED BY <1>1, GuardInitInv, GuardNextInv, PTL DEF GuardSpec
=============================================================================
