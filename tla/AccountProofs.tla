--------------------------- MODULE AccountProofs ---------------------------
(* Theorems about the components around an account.  They hold for any     *)
(* number of calls, devices, keys and envelopes; the runs of MCAccount     *)
(* check the same properties on small instances.                           *)
EXTENDS Pairing, DeviceSync, Devices, SignIn, SilentLogin, FiniteSetTheorems, SequenceTheorems, TLAPS

-----------------------------------------------------------------------------
(* Pairing: a sign-in code opens one session *)

PairOps == {"view", "claim", "approve", "reject", "redeem"}
PairPcs == {"idle", "done", "expire", "again", "write", "register", "session", "complete"}

PairTypeOK ==
  /\ pairing \in [status : Statuses, code : BOOLEAN, token : BOOLEAN]
  /\ pairCall \in [PairCalls -> [op : PairOps, pc : PairPcs]]
  /\ entered \subseteq PairCalls
  /\ claimsMet \in BOOLEAN

Claiming(c) == pairCall[c].op = "claim" /\ pairCall[c].pc \notin {"idle", "done"}

(* The row with a code is made approved: no approval writes a token into it.*)
CodeInv ==
  /\ pairing.status = "none" => \A c \in PairCalls : pairCall[c].pc = "idle"
  /\ pairing.status = "pending" => ~pairing.code
  /\ \A c \in PairCalls : pairCall[c].pc = "write" => ~pairing.code
  /\ \A c \in PairCalls : Claiming(c) => pairing.code

EnteredInv ==
  /\ \A e \in entered : pairCall[e].op = "claim" /\ pairCall[e].pc \in {"complete", "done"} /\ pairing.code
  /\ ~claimsMet => \A c, d \in PairCalls : Claiming(c) /\ Claiming(d) => c = d

(* Whoever entered takes the token away before the next claim gets as far.  *)
OneEntered ==
  ~claimsMet /\ entered \cap dead = {} =>
    /\ \A e \in entered : pairCall[e].pc = "complete" \/ ~pairing.token
    /\ \A c \in PairCalls : PairAt(c, "claim", "session") => entered = {}
    /\ \A e, f \in entered : e = f

PairInv == PairTypeOK /\ CodeInv /\ EnteredInv /\ OneEntered

LEMMA PairInitInv == PairInit => PairInv
<1> SUFFICES ASSUME PairInit PROVE PairInv
  OBVIOUS
<1> USE DEF PairInit
<1>1. PairTypeOK
  BY DEF PairTypeOK, Statuses, PairOps, PairPcs
<1>2. CodeInv /\ EnteredInv /\ OneEntered
  BY DEF CodeInv, EnteredInv, OneEntered, Claiming, PairAt
<1> QED BY <1>1, <1>2 DEF PairInv

LEMMA PairMoves ==
  ASSUME PairTypeOK, NEW c \in PairCalls, NEW pc \in PairPcs, PairGoto(c, pc)
  PROVE  /\ pairCall' \in [PairCalls -> [op : PairOps, pc : PairPcs]]
         /\ pairCall'[c].pc = pc /\ pairCall'[c].op = pairCall[c].op
         /\ \A d \in PairCalls \ {c} : pairCall'[d] = pairCall[d]
BY DEF PairTypeOK, PairGoto

(* What a handler makes of the row it read.                                 *)
LEMMA NextStepIs ==
  ASSUME NEW op \in PairOps
  PROVE  /\ NextStep(op) \in {"done", "expire", "again", "write", "register"}
         /\ NextStep(op) = "write" => pairing.status = "pending"
<1>1. CASE op \in {"view", "claim"}
  BY <1>1 DEF NextStep
<1>2. CASE op \in {"approve", "reject"}
  BY <1>2 DEF NextStep
<1>3. CASE op = "redeem"
  BY <1>3 DEF NextStep
<1> QED BY <1>1, <1>2, <1>3 DEF PairOps

LEMMA PairNextInv == PairInv /\ [PairNext]_pairVars => PairInv'
<1> SUFFICES ASSUME PairInv, [PairNext]_pairVars PROVE PairInv'
  OBVIOUS
<1> USE DEF PairInv
<1>u. ASSUME UNCHANGED <<pairing, pairCall, entered, claimsMet, dead>> PROVE PairInv'
  <2>1. PairTypeOK'
    BY <1>u DEF PairTypeOK
  <2>2. CodeInv' /\ EnteredInv' /\ OneEntered'
    BY <1>u DEF CodeInv, EnteredInv, OneEntered, Claiming, PairAt
  <2> QED BY <2>1, <2>2
<1>a. CASE UNCHANGED pairVars \/ Expire
  BY <1>a, <1>u DEF pairVars, Expire
<1>b. CASE CreateEnrollmentInvite \/ CreatePairingRequest
  <2>1. /\ pairing.status = "none" /\ UNCHANGED <<pairCall, entered, claimsMet, dead>>
        /\ \/ pairing' = [status |-> "approved", code |-> TRUE, token |-> TRUE]
           \/ pairing' = [status |-> "pending", code |-> FALSE, token |-> FALSE]
    BY <1>b DEF CreateEnrollmentInvite, CreatePairingRequest, OnlyRow
  <2>2. entered = {}
    BY <2>1 DEF CodeInv, EnteredInv, PairTypeOK
  <2>3. PairTypeOK'
    <3>1. pairing' \in [status : Statuses, code : BOOLEAN, token : BOOLEAN]
      <4>1. [status |-> "approved", code |-> TRUE, token |-> TRUE] \in [status : Statuses, code : BOOLEAN, token : BOOLEAN]
        BY DEF Statuses
      <4>2. [status |-> "pending", code |-> FALSE, token |-> FALSE] \in [status : Statuses, code : BOOLEAN, token : BOOLEAN]
        BY DEF Statuses
      <4> QED BY <2>1, <4>1, <4>2
    <3> QED BY <2>1, <3>1 DEF PairTypeOK
  <2>4. CodeInv' /\ EnteredInv' /\ OneEntered'
    BY <2>1, <2>2 DEF CodeInv, EnteredInv, OneEntered, Claiming, PairAt
  <2> QED BY <2>3, <2>4
<1>c. ASSUME NEW c \in PairCalls, ReadPairing(c) PROVE PairInv'
  <2>1. PICK op \in PairOps :
          /\ op \in {"view", "claim"} => pairing.code
          /\ pairCall' = [pairCall EXCEPT ![c] = [op |-> op, pc |-> NextStep(op)]]
          /\ claimsMet' = (claimsMet \/ (op = "claim" /\ \E o \in PairCalls : Claiming(o)))
    BY <1>c DEF ReadPairing, PairOps, Claiming
  <2>2. pairCall[c].pc = "idle" /\ pairing.status # "none" /\ UNCHANGED <<pairing, entered, dead>>
    BY <1>c DEF ReadPairing
  <2>3. NextStep(op) \in {"done", "expire", "again", "write", "register"} /\ (NextStep(op) = "write" => ~pairing.code)
    BY NextStepIs DEF CodeInv
  <2>4. /\ pairCall' \in [PairCalls -> [op : PairOps, pc : PairPcs]]
        /\ pairCall'[c].op = op /\ pairCall'[c].pc = NextStep(op)
        /\ \A d \in PairCalls \ {c} : pairCall'[d] = pairCall[d]
    BY <2>1, <2>3 DEF PairTypeOK, PairPcs
  <2>5. PairTypeOK'
    BY <2>1, <2>2, <2>4 DEF PairTypeOK
  <2>6. CodeInv'
    BY <2>1, <2>2, <2>3, <2>4 DEF CodeInv, Claiming
  <2>7. c \notin entered
    BY <2>2 DEF EnteredInv
  <2>8. EnteredInv'
    BY <2>1, <2>2, <2>4, <2>7 DEF EnteredInv, Claiming, PairTypeOK
  <2>9. OneEntered'
    BY <2>1, <2>2, <2>3, <2>4, <2>7 DEF OneEntered, PairAt, PairTypeOK
  <2> QED BY <2>5, <2>6, <2>8, <2>9
(* A call ends, and writes the row without making a token.                  *)
<1>1. ASSUME NEW c \in PairCalls, PairGoto(c, "done"), pairCall[c].pc # "idle", UNCHANGED <<entered, claimsMet>>,
             pairing' \in [status : Statuses \ {"none", "pending"}, code : BOOLEAN, token : BOOLEAN] \/ pairing' = pairing,
             pairing'.code = pairing.code, pairing'.token => pairing.token \/ ~pairing.code,
             dead' = dead \cup {c} \/ (dead' = dead /\ (pairCall[c].pc = "complete" => ~pairing'.token))
      PROVE  PairInv'
  <2>1. /\ pairCall' \in [PairCalls -> [op : PairOps, pc : PairPcs]]
        /\ pairCall'[c].pc = "done" /\ pairCall'[c].op = pairCall[c].op
        /\ \A d \in PairCalls \ {c} : pairCall'[d] = pairCall[d]
    BY <1>1, PairMoves DEF PairPcs
  <2>2. PairTypeOK'
    BY <1>1, <2>1 DEF PairTypeOK
  <2>3. CodeInv'
    BY <1>1, <2>1 DEF CodeInv, Claiming
  <2>4. EnteredInv'
    BY <1>1, <2>1 DEF EnteredInv, Claiming, PairTypeOK
  <2>5. OneEntered'
    BY <1>1, <2>1 DEF OneEntered, EnteredInv, PairAt, PairTypeOK
  <2> QED BY <2>2, <2>3, <2>4, <2>5
<1>d. ASSUME NEW c \in PairCalls, MarkExpired(c) PROVE PairInv'
  BY <1>d, <1>1 DEF MarkExpired, OnlyRow, PairTypeOK, Statuses
<1>e. ASSUME NEW c \in PairCalls, ApproveEnrollment(c) PROVE PairInv'
  BY <1>e, <1>1 DEF ApproveEnrollment, PairAt, PairTypeOK, Statuses, CodeInv
<1>f. ASSUME NEW c \in PairCalls, RejectPairing(c) PROVE PairInv'
  BY <1>f, <1>1 DEF RejectPairing, PairAt, OnlyRow, PairTypeOK, Statuses
<1>g. ASSUME NEW c \in PairCalls, ReadAgain(c) PROVE PairInv'
  <2>1. pairCall[c].op = "claim" /\ pairCall[c].pc = "again" /\ UNCHANGED <<pairing, entered, claimsMet, dead>>
    BY <1>g DEF ReadAgain, PairAt, OnlyPairCall
  <2>2. PICK pc \in {"session", "done"} : PairGoto(c, pc) /\ (pc = "session" => pairing.token)
    BY <1>g DEF ReadAgain
  <2>3. /\ pairCall' \in [PairCalls -> [op : PairOps, pc : PairPcs]]
        /\ pairCall'[c].pc = pc /\ pairCall'[c].op = "claim"
        /\ \A d \in PairCalls \ {c} : pairCall'[d] = pairCall[d]
    BY <2>1, <2>2, PairMoves DEF PairPcs
  <2>4. PairTypeOK' /\ CodeInv' /\ EnteredInv'
    BY <2>1, <2>3 DEF PairTypeOK, CodeInv, EnteredInv, Claiming
  <2>5. ASSUME ~claimsMet, entered \cap dead = {}, pc = "session" PROVE entered = {}
    <3> SUFFICES ASSUME NEW e \in entered PROVE FALSE
      OBVIOUS
    <3>1. pairCall[e].pc = "complete" /\ pairCall[e].op = "claim"
      BY <2>2, <2>5 DEF OneEntered, EnteredInv
    <3>2. Claiming(e) /\ Claiming(c) /\ e \in PairCalls
      BY <2>1, <3>1 DEF Claiming, PairTypeOK
    <3> QED BY <2>1, <2>5, <3>1, <3>2 DEF EnteredInv
  <2>6. OneEntered'
    BY <2>1, <2>3, <2>5 DEF OneEntered, EnteredInv, PairAt, PairTypeOK
  <2> QED BY <2>4, <2>6
<1>h. ASSUME NEW c \in PairCalls, ClaimSession(c) PROVE PairInv'
  <2>1. /\ pairCall[c].op = "claim" /\ pairCall[c].pc = "session" /\ UNCHANGED <<pairing, claimsMet, dead>>
        /\ entered' = entered \cup {c} /\ PairGoto(c, "complete")
    BY <1>h DEF ClaimSession, PairAt
  <2>2. /\ pairCall' \in [PairCalls -> [op : PairOps, pc : PairPcs]]
        /\ pairCall'[c].pc = "complete" /\ pairCall'[c].op = "claim"
        /\ \A d \in PairCalls \ {c} : pairCall'[d] = pairCall[d]
    BY <2>1, PairMoves DEF PairPcs
  <2>3. PairTypeOK' /\ CodeInv' /\ EnteredInv'
    BY <2>1, <2>2 DEF PairTypeOK, CodeInv, EnteredInv, Claiming
  <2>4. OneEntered'
    BY <2>1, <2>2 DEF OneEntered, EnteredInv, PairAt, PairTypeOK, Claiming
  <2> QED BY <2>3, <2>4
<1>i. ASSUME NEW c \in PairCalls, RegisterByToken(c) PROVE PairInv'
  <2>1. /\ pairCall[c].op = "redeem" /\ pairCall[c].pc = "register" /\ UNCHANGED <<pairing, entered, claimsMet, dead>>
    BY <1>i DEF RegisterByToken, PairAt
  <2>2. PICK pc \in {"complete", "done"} : PairGoto(c, pc)
    BY <1>i DEF RegisterByToken
  <2>3. /\ pairCall' \in [PairCalls -> [op : PairOps, pc : PairPcs]]
        /\ pairCall'[c].pc = pc /\ pairCall'[c].op = "redeem"
        /\ \A d \in PairCalls \ {c} : pairCall'[d] = pairCall[d]
    BY <2>1, <2>2, PairMoves DEF PairPcs
  <2>4. PairTypeOK' /\ CodeInv' /\ EnteredInv'
    BY <2>1, <2>3 DEF PairTypeOK, CodeInv, EnteredInv, Claiming
  <2>5. OneEntered'
    BY <2>1, <2>3 DEF OneEntered, EnteredInv, PairAt, PairTypeOK
  <2> QED BY <2>4, <2>5
<1>j. ASSUME NEW c \in PairCalls, CompletePairing(c) PROVE PairInv'
  BY <1>j, <1>1 DEF CompletePairing, OnlyRow, PairTypeOK, Statuses
<1>k. ASSUME NEW c \in PairCalls, PairCallDies(c) PROVE PairInv'
  BY <1>k, <1>1 DEF PairCallDies
<1> QED
  BY <1>a, <1>b, <1>c, <1>d, <1>e, <1>f, <1>g, <1>h, <1>i, <1>j, <1>k DEF PairNext

(* A sign-in code opened twice means that two calls of claimEnrollment met  *)
(* or that one died between its session and the mark on the code, however   *)
(* many calls there are.                                                    *)
THEOREM CodeOpensOnceHolds == PairSpec => []CodeOpensOnce
<1>1. PairInv => CodeOpensOnce
  <2> SUFFICES ASSUME PairInv, ~claimsMet, entered \cap dead = {} PROVE ~(Cardinality(entered) > 1)
    BY DEF CodeOpensOnce
  <2>1. entered = {} \/ \E e : entered = {e}
    BY DEF PairInv, OneEntered
  <2>2. Cardinality(entered) = 0 \/ Cardinality(entered) = 1
    BY <2>1, FS_EmptySet, FS_Singleton
  <2> QED BY <2>2
<1> QED
  BY PairInitInv, PairNextInv, <1>1, PTL DEF PairSpec

-----------------------------------------------------------------------------
(* Device sync: one-time keys and envelopes *)

(* Lists of one-time keys, none of them twice.                              *)
KeyLists == {s \in Seq(Nat) : \A i, j \in 1 .. Len(s) : s[i] = s[j] => i = j}
Listed(k, s) == \E i \in 1 .. Len(s) : s[i] = k

SyncRecord ==
  [pc : {"idle", "done", "upsert", "list"}]
    \cup [pc : {"shift"}, keys : KeyLists \ {<<>>}]
    \cup [pc : {"queue", "consume"}, env : Envelopes]

SyncTypeOK ==
  /\ prekeys \in KeyLists /\ published \in Nat
  /\ inbox \in [Envelopes -> [at : {"nowhere", "zone", "local"}, consumed : BOOLEAN]]
  /\ syncCall \in [SyncCalls -> SyncRecord]
  /\ handedOut \subseteq Nat \X SyncCalls
  /\ taken \subseteq Envelopes \X SyncCalls

SyncBusy(c) == syncCall[c].pc \notin {"idle", "done"}
Solo(c) == \A pair \in pairUp : c \notin pair

PairsInv == \A c, d \in SyncCalls : c # d /\ SyncBusy(c) /\ SyncBusy(d) => {c, d} \in pairUp

(* Keys are numbered as they are published, and a key that went to a call   *)
(* which met no other is in no list any more.                               *)
KeysInv ==
  /\ \A k \in Nat : Listed(k, prekeys) => k <= published * BundleSize
  /\ \A c \in SyncCalls, k \in Nat :
       syncCall[c].pc = "shift" /\ Listed(k, syncCall[c].keys) => k <= published * BundleSize
  /\ \A h \in handedOut :
       /\ h[1] <= published * BundleSize
       /\ Solo(h[2]) => /\ ~Listed(h[1], prekeys)
                        /\ \A c \in SyncCalls : syncCall[c].pc = "shift" => ~Listed(h[1], syncCall[c].keys)

EnvelopesInv ==
  \A t \in taken :
    /\ inbox[t[1]].consumed
    /\ \A c \in SyncCalls : syncCall[c].pc = "consume" /\ syncCall[c].env = t[1] => {c, t[2]} \in pairUp

SyncInv == SyncTypeOK /\ PairsInv /\ KeysInv /\ EnvelopesInv /\ OneTimeUse

LEMMA RestOfKeys ==
  ASSUME NEW s \in KeyLists, s # <<>>
  PROVE  /\ Tail(s) \in KeyLists /\ Head(s) \in Nat /\ Listed(Head(s), s)
         /\ ~Listed(Head(s), Tail(s))
         /\ \A k : Listed(k, Tail(s)) => Listed(k, s)
<1>1. s \in Seq(Nat) /\ Len(s) \in Nat /\ Len(s) > 0
  BY EmptySeq DEF KeyLists
<1>2. /\ Tail(s) \in Seq(Nat) /\ Len(Tail(s)) = Len(s) - 1 /\ Head(s) = s[1]
      /\ \A i \in 1 .. Len(Tail(s)) : Tail(s)[i] = s[i + 1]
  BY <1>1
<1>3. \A i \in 1 .. Len(Tail(s)) : i + 1 \in 1 .. Len(s) /\ i + 1 # 1
  BY <1>1, <1>2
<1>4. 1 \in 1 .. Len(s)
  BY <1>1
<1>5. \A i, j \in 1 .. Len(s) : s[i] = s[j] => i = j
  BY DEF KeyLists
<1>6. Tail(s) \in KeyLists
  <2>1. \A i, j \in 1 .. Len(Tail(s)) : Tail(s)[i] = Tail(s)[j] => i = j
    BY <1>1, <1>2, <1>3, <1>5
  <2> QED BY <1>2, <2>1 DEF KeyLists
<1>7. Head(s) \in Nat /\ Listed(Head(s), s)
  BY <1>1, <1>2, <1>4, ElementOfSeq DEF Listed
<1>8. \A i \in 1 .. Len(Tail(s)) : Tail(s)[i] # Head(s)
  BY <1>2, <1>3, <1>4, <1>5
<1>9. \A k : Listed(k, Tail(s)) => Listed(k, s)
  BY <1>2, <1>3 DEF Listed
<1> QED BY <1>6, <1>7, <1>8, <1>9 DEF Listed

LEMMA FreshKeyList ==
  ASSUME published \in Nat
  PROVE  /\ FreshKeys \in KeyLists
         /\ \A k : Listed(k, FreshKeys) => k > published * BundleSize /\ k <= (published + 1) * BundleSize
<1> DEFINE base == published * BundleSize
<1>1. BundleSize \in Nat /\ base \in Nat /\ (published + 1) * BundleSize = base + BundleSize
  BY DeviceSyncAssumption
<1> HIDE DEF base
<1>2. FreshKeys = [i \in 1 .. BundleSize |-> base + i]
  BY DEF FreshKeys, base
<1>3. FreshKeys \in [1 .. BundleSize -> Nat]
  BY <1>1, <1>2
<1>4. FreshKeys \in Seq(Nat) /\ Len(FreshKeys) = BundleSize
  BY <1>1, <1>3
<1>5. \A i \in 1 .. BundleSize : FreshKeys[i] = base + i
  BY <1>2
<1>6. FreshKeys \in KeyLists
  BY <1>1, <1>4, <1>5 DEF KeyLists
<1>7. \A k : Listed(k, FreshKeys) => k > base /\ k <= base + BundleSize
  BY <1>1, <1>4, <1>5 DEF Listed
<1> QED BY <1>1, <1>6, <1>7 DEF base

LEMMA SyncInitInv == SyncInit => SyncInv
<1> SUFFICES ASSUME SyncInit PROVE SyncInv
  OBVIOUS
<1> USE DEF SyncInit
<1>1. <<>> \in KeyLists /\ \A k : ~Listed(k, <<>>)
  BY DEF KeyLists, Listed
<1>2. SyncTypeOK
  BY <1>1 DEF SyncTypeOK, SyncRecord
<1>3. PairsInv /\ KeysInv /\ EnvelopesInv /\ OneTimeUse
  BY <1>1 DEF PairsInv, KeysInv, EnvelopesInv, OneTimeUse, SyncBusy
<1> QED BY <1>2, <1>3 DEF SyncInv

LEMMA SyncNextInv == SyncInv /\ [SyncNext]_syncVars => SyncInv'
<1> SUFFICES ASSUME SyncInv, [SyncNext]_syncVars PROVE SyncInv'
  OBVIOUS
<1> USE DEF SyncInv
<1>u. CASE UNCHANGED syncVars
  <2>1. SyncTypeOK' /\ PairsInv'
    BY <1>u DEF syncVars, SyncTypeOK, PairsInv, SyncBusy
  <2>2. KeysInv' /\ EnvelopesInv' /\ OneTimeUse'
    BY <1>u DEF syncVars, KeysInv, EnvelopesInv, OneTimeUse, Solo
  <2> QED BY <2>1, <2>2
<1>x. ASSUME NEW e \in Envelopes, EnvelopeExpires(e) PROVE SyncInv'
  <2> USE <1>x DEF EnvelopeExpires, KeepKeys
  <2>1. SyncTypeOK' /\ PairsInv'
    BY DEF SyncTypeOK, PairsInv, SyncBusy
  <2>2. KeysInv' /\ EnvelopesInv' /\ OneTimeUse'
    BY DEF KeysInv, EnvelopesInv, OneTimeUse, Solo
  <2> QED BY <2>1, <2>2
(* A call that starts changes nothing but itself, and meets those in flight.*)
<1>1. ASSUME NEW c \in SyncCalls, NEW r \in SyncRecord, Enter(c, r), KeepKeys, KeepInbox,
             r.pc = "shift" => r.keys = prekeys,
             r.pc = "consume" => ~inbox[r.env].consumed
      PROVE  SyncInv'
  <2>1. /\ syncCall[c].pc = "idle" /\ UNCHANGED <<prekeys, published, handedOut, inbox, stale, taken>>
        /\ syncCall' \in [SyncCalls -> SyncRecord] /\ syncCall'[c] = r
        /\ \A d \in SyncCalls \ {c} : syncCall'[d] = syncCall[d]
    BY <1>1 DEF Enter, SyAt, KeepKeys, KeepInbox, SyncTypeOK
  <2>2. /\ pairUp \subseteq pairUp'
        /\ \A d \in SyncCalls \ {c} : SyncBusy(d) => {c, d} \in pairUp' /\ {d, c} \in pairUp'
    <3>1. pairUp' = pairUp \cup {{c, o} : o \in {o \in SyncCalls : SyncBusy(o)}}
      BY <1>1 DEF Enter, SyAt, SyncBusy
    <3>2. \A d : {c, d} = {d, c}
      OBVIOUS
    <3> QED BY <3>1, <3>2
  <2>3. SyncTypeOK'
    BY <2>1 DEF SyncTypeOK
  <2>4. PairsInv'
    BY <2>1, <2>2 DEF PairsInv, SyncBusy
  <2>5. \A d : Solo(d)' => Solo(d)
    BY <2>2 DEF Solo
  <2>6. KeysInv'
    BY <1>1, <2>1, <2>5 DEF KeysInv
  <2>7. EnvelopesInv'
    BY <1>1, <2>1, <2>2 DEF EnvelopesInv
  <2>8. OneTimeUse'
    BY <2>1, <2>2 DEF OneTimeUse
  <2> QED BY <2>3, <2>4, <2>6, <2>7, <2>8
<1>a. ASSUME NEW c \in SyncCalls, StartPublish(c) PROVE SyncInv'
  <2>1. [pc |-> "upsert"] \in SyncRecord
    BY DEF SyncRecord
  <2> QED BY <1>a, <1>1, <2>1 DEF StartPublish
<1>b. ASSUME NEW c \in SyncCalls, StartList(c) PROVE SyncInv'
  <2>1. [pc |-> "list"] \in SyncRecord
    BY DEF SyncRecord
  <2> QED BY <1>b, <1>1, <2>1 DEF StartList
<1>c. ASSUME NEW c \in SyncCalls, ReadBundle(c) PROVE SyncInv'
  <2>1. [pc |-> "done"] \in SyncRecord /\ (prekeys # <<>> => [pc |-> "shift", keys |-> prekeys] \in SyncRecord)
    BY DEF SyncRecord, SyncTypeOK
  <2> QED BY <1>c, <1>1, <2>1 DEF ReadBundle
<1>d. ASSUME NEW c \in SyncCalls, StartQueue(c) PROVE SyncInv'
  <2>1. \A e \in Envelopes : [pc |-> "queue", env |-> e] \in SyncRecord
    BY DEF SyncRecord
  <2> QED BY <1>d, <1>1, <2>1 DEF StartQueue
<1>e. ASSUME NEW c \in SyncCalls, FindEnvelope(c) PROVE SyncInv'
  <2>1. [pc |-> "done"] \in SyncRecord /\ \A e \in Envelopes : [pc |-> "consume", env |-> e] \in SyncRecord
    BY DEF SyncRecord
  <2>2. PICK e \in Envelopes :
          Enter(c, IF Open(e) THEN [pc |-> "consume", env |-> e] ELSE [pc |-> "done"]) /\ KeepKeys /\ KeepInbox
    BY <1>e DEF FindEnvelope
  <2> QED BY <1>1, <2>1, <2>2 DEF Open
(* A call ends.                                                             *)
<1>2. ASSUME NEW c \in SyncCalls, SyGoto(c, "done")
      PROVE  /\ syncCall' \in [SyncCalls -> SyncRecord] /\ syncCall'[c].pc = "done"
             /\ \A d \in SyncCalls \ {c} : syncCall'[d] = syncCall[d]
             /\ UNCHANGED pairUp => PairsInv'
  <2>1. /\ syncCall' \in [SyncCalls -> SyncRecord] /\ syncCall'[c].pc = "done"
        /\ \A d \in SyncCalls \ {c} : syncCall'[d] = syncCall[d]
    BY <1>2 DEF SyGoto, SyncTypeOK, SyncRecord
  <2> QED BY <2>1 DEF PairsInv, SyncBusy
<1>f. ASSUME NEW c \in SyncCalls, PublishPrekeyBundle(c) PROVE SyncInv'
  <2>1. /\ SyGoto(c, "done") /\ prekeys' = FreshKeys /\ published' = published + 1
        /\ UNCHANGED <<handedOut, pairUp, inbox, taken>>
    BY <1>f DEF PublishPrekeyBundle, KeepInbox
  <2>2. /\ syncCall' \in [SyncCalls -> SyncRecord] /\ syncCall'[c].pc = "done"
        /\ \A d \in SyncCalls \ {c} : syncCall'[d] = syncCall[d] 
        /\ PairsInv'
    BY <1>2, <2>1
  <2>3. /\ prekeys' \in KeyLists
        /\ \A k : Listed(k, prekeys') => k > published * BundleSize /\ k <= published' * BundleSize
    BY <2>1, FreshKeyList DEF SyncTypeOK
  <2>4. SyncTypeOK'
    BY <2>1, <2>2, <2>3 DEF SyncTypeOK
  <2>5. published * BundleSize \in Nat /\ published' * BundleSize \in Nat /\ published * BundleSize <= published' * BundleSize
    BY <2>1, DeviceSyncAssumption DEF SyncTypeOK
  <2>6. KeysInv'
    <3> DEFINE old == published * BundleSize
               new == published' * BundleSize
    <3>1. old \in Nat /\ new \in Nat /\ old <= new
      BY <2>5
    <3>2. \A h \in handedOut : h[1] \in Nat
      BY DEF SyncTypeOK
    <3>3. \A d : Solo(d)' <=> Solo(d)
      BY <2>1 DEF Solo
    <3>4. \A k \in Nat : Listed(k, prekeys') => k > old /\ k <= new
      BY <2>3
    <3>5. \A d \in SyncCalls : syncCall'[d].pc = "shift" => syncCall'[d] = syncCall[d]
      BY <2>2
    <3>6. KeysInv <=>
            /\ \A k \in Nat : Listed(k, prekeys) => k <= old
            /\ \A d \in SyncCalls, k \in Nat : syncCall[d].pc = "shift" /\ Listed(k, syncCall[d].keys) => k <= old
            /\ \A h \in handedOut :
                 /\ h[1] <= old
                 /\ Solo(h[2]) => /\ ~Listed(h[1], prekeys)
                                  /\ \A d \in SyncCalls : syncCall[d].pc = "shift" => ~Listed(h[1], syncCall[d].keys)
      BY DEF KeysInv
    <3>7. KeysInv' <=>
            /\ \A k \in Nat : Listed(k, prekeys') => k <= new
            /\ \A d \in SyncCalls, k \in Nat : syncCall'[d].pc = "shift" /\ Listed(k, syncCall'[d].keys) => k <= new
            /\ \A h \in handedOut' :
                 /\ h[1] <= new
                 /\ Solo(h[2])' => /\ ~Listed(h[1], prekeys')
                                   /\ \A d \in SyncCalls : syncCall'[d].pc = "shift" => ~Listed(h[1], syncCall'[d].keys)
      BY DEF KeysInv, Listed
    <3> HIDE DEF old, new
    <3> QED BY <2>1, <3>1, <3>2, <3>3, <3>4, <3>5, <3>6, <3>7
  <2>7. EnvelopesInv' /\ OneTimeUse'
    BY <2>1, <2>2 DEF EnvelopesInv, OneTimeUse
  <2> QED BY <2>2, <2>4, <2>6, <2>7
<1>g. ASSUME NEW c \in SyncCalls, ShiftPrekey(c) PROVE SyncInv'
  <2> DEFINE keys == syncCall[c].keys
             k == Head(keys)
  <2>1. /\ syncCall[c].pc = "shift" /\ SyGoto(c, "done") /\ prekeys' = Tail(keys)
        /\ handedOut' = handedOut \cup {<<k, c>>} /\ UNCHANGED <<published, pairUp, inbox, taken>>
    BY <1>g DEF ShiftPrekey, SyAt, KeepInbox
  <2>2. keys \in KeyLists /\ keys # <<>>
    BY <2>1 DEF SyncTypeOK, SyncRecord
  <2>3. /\ Tail(keys) \in KeyLists /\ k \in Nat /\ Listed(k, keys) /\ ~Listed(k, Tail(keys))
        /\ \A j : Listed(j, Tail(keys)) => Listed(j, keys)
    BY <2>2, RestOfKeys
  <2>4. /\ syncCall' \in [SyncCalls -> SyncRecord] /\ syncCall'[c].pc = "done"
        /\ \A d \in SyncCalls \ {c} : syncCall'[d] = syncCall[d] 
        /\ PairsInv'
    BY <1>2, <2>1
  <2>5. SyncTypeOK'
    BY <2>1, <2>3, <2>4 DEF SyncTypeOK
  <2>6. ASSUME NEW d \in SyncCalls, d # c, syncCall[d].pc = "shift" PROVE ~Solo(c)
    BY <2>1, <2>6 DEF PairsInv, SyncBusy, Solo
  <2>7. \A d : Solo(d)' <=> Solo(d)
    BY <2>1 DEF Solo
  <2>8. KeysInv'
    <3>1. (\A j \in Nat : Listed(j, prekeys) => j <= published * BundleSize)'
      BY <2>1, <2>3 DEF KeysInv, Listed
    <3>2. (\A d \in SyncCalls, j \in Nat :
             syncCall[d].pc = "shift" /\ Listed(j, syncCall[d].keys) => j <= published * BundleSize)'
      BY <2>1, <2>4 DEF KeysInv, Listed
    <3>3. ASSUME NEW h \in handedOut'
          PROVE  /\ h[1] <= published * BundleSize
                 /\ Solo(h[2]) => /\ ~Listed(h[1], Tail(keys))
                                  /\ \A d \in SyncCalls : syncCall'[d].pc = "shift" => ~Listed(h[1], syncCall[d].keys)
      <4>1. CASE h = <<k, c>>
        BY <2>1, <2>3, <2>4, <2>6, <4>1 DEF KeysInv
      <4>2. CASE h \in handedOut
        BY <2>1, <2>3, <2>4, <4>2 DEF KeysInv
      <4> QED BY <2>1, <4>1, <4>2
    <3>4. \A d \in SyncCalls : syncCall'[d].pc = "shift" => syncCall'[d] = syncCall[d]
      BY <2>4
    <3> QED BY <2>1, <2>7, <3>1, <3>2, <3>3, <3>4 DEF KeysInv, Listed
  <2>9. EnvelopesInv'
    BY <2>1, <2>4 DEF EnvelopesInv
  <2>10. OneTimeUse'
    <3>1. \A h \in handedOut : h[1] = k => ~Solo(h[2])
      BY <2>1, <2>3 DEF KeysInv
    <3>2. \A h \in handedOut : h[1] = k => \E pair \in pairUp : h[2] \in pair
      BY <3>1 DEF Solo
    <3>3. ASSUME NEW a \in handedOut', NEW b \in handedOut', a[1] = b[1], a[2] # b[2]
          PROVE  \E pair \in pairUp' : pair \cap {a[2], b[2]} # {}
      <4>1. CASE a \in handedOut /\ b \in handedOut
        BY <2>1, <3>3, <4>1 DEF OneTimeUse
      <4>2. CASE a = <<k, c>> /\ b \in handedOut
        BY <2>1, <3>2, <3>3, <4>2
      <4>3. CASE b = <<k, c>> /\ a \in handedOut
        BY <2>1, <3>2, <3>3, <4>3
      <4> QED BY <2>1, <3>3, <4>1, <4>2, <4>3
    <3> QED BY <2>1, <3>3 DEF OneTimeUse
  <2> QED BY <2>4, <2>5, <2>8, <2>9, <2>10
<1>h. ASSUME NEW c \in SyncCalls, QueueEnvelope(c) PROVE SyncInv'
  <2> DEFINE e == syncCall[c].env
  <2>1. /\ syncCall[c].pc = "queue" /\ SyGoto(c, "done") /\ UNCHANGED <<prekeys, published, handedOut, pairUp, taken>>
    BY <1>h DEF QueueEnvelope, SyAt, KeepKeys
  <2>2. PICK place \in {"zone", "local"} : inbox' = [inbox EXCEPT ![e].at = place]
    BY <1>h DEF QueueEnvelope
  <2>3. /\ inbox' \in [Envelopes -> [at : {"nowhere", "zone", "local"}, consumed : BOOLEAN]]
        /\ \A f \in Envelopes : inbox'[f].consumed = inbox[f].consumed
    BY <2>1, <2>2 DEF SyncTypeOK, SyncRecord
  <2>4. /\ syncCall' \in [SyncCalls -> SyncRecord] /\ syncCall'[c].pc = "done"
        /\ \A d \in SyncCalls \ {c} : syncCall'[d] = syncCall[d] 
        /\ PairsInv'
    BY <1>2, <2>1
  <2>5. SyncTypeOK'
    BY <2>1, <2>3, <2>4 DEF SyncTypeOK
  <2>6. KeysInv'
    BY <2>1, <2>4 DEF KeysInv, Solo
  <2>7. EnvelopesInv' /\ OneTimeUse'
    BY <2>1, <2>3, <2>4 DEF EnvelopesInv, OneTimeUse, SyncTypeOK
  <2> QED BY <2>4, <2>5, <2>6, <2>7
<1>i. ASSUME NEW c \in SyncCalls, ListInbox(c) PROVE SyncInv'
  <2>1. SyGoto(c, "done") /\ UNCHANGED <<prekeys, published, handedOut, pairUp, inbox, taken>>
    BY <1>i DEF ListInbox, KeepKeys, KeepInbox
  <2>2. /\ syncCall' \in [SyncCalls -> SyncRecord] /\ syncCall'[c].pc = "done"
        /\ \A d \in SyncCalls \ {c} : syncCall'[d] = syncCall[d] 
        /\ PairsInv'
    BY <1>2, <2>1
  <2>3. SyncTypeOK'
    BY <2>1, <2>2 DEF SyncTypeOK
  <2>4. KeysInv'
    BY <2>1, <2>2 DEF KeysInv, Solo
  <2>5. EnvelopesInv' /\ OneTimeUse'
    BY <2>1, <2>2 DEF EnvelopesInv, OneTimeUse
  <2> QED BY <2>2, <2>3, <2>4, <2>5
<1>j. ASSUME NEW c \in SyncCalls, ConsumeEnvelope(c) PROVE SyncInv'
  <2> DEFINE e == syncCall[c].env
  <2>1. /\ syncCall[c].pc = "consume" /\ SyGoto(c, "done") /\ UNCHANGED <<prekeys, published, handedOut, pairUp>>
        /\ inbox' = [inbox EXCEPT ![e].consumed = TRUE] /\ taken' = taken \cup {<<e, c>>} /\ e \in Envelopes
    BY <1>j DEF ConsumeEnvelope, SyAt, KeepKeys, SyncTypeOK, SyncRecord
  <2>2. /\ inbox' \in [Envelopes -> [at : {"nowhere", "zone", "local"}, consumed : BOOLEAN]]
        /\ inbox'[e].consumed
        /\ \A f \in Envelopes : inbox[f].consumed => inbox'[f].consumed
    BY <2>1 DEF SyncTypeOK
  <2>3. /\ syncCall' \in [SyncCalls -> SyncRecord] /\ syncCall'[c].pc = "done"
        /\ \A d \in SyncCalls \ {c} : syncCall'[d] = syncCall[d] 
        /\ PairsInv'
    BY <1>2, <2>1
  <2>4. SyncTypeOK'
    BY <2>1, <2>2, <2>3 DEF SyncTypeOK
  <2>5. KeysInv'
    BY <2>1, <2>3 DEF KeysInv, Solo
  <2>6. EnvelopesInv'
    <3> SUFFICES ASSUME NEW t \in taken'
                 PROVE  /\ inbox'[t[1]].consumed
                        /\ \A d \in SyncCalls :
                             syncCall'[d].pc = "consume" /\ syncCall'[d].env = t[1] => {d, t[2]} \in pairUp
      BY <2>1 DEF EnvelopesInv
    <3>1. CASE t \in taken
      BY <2>1, <2>2, <2>3, <3>1 DEF EnvelopesInv, SyncTypeOK
    <3>2. CASE t = <<e, c>>
      BY <2>1, <2>2, <2>3, <3>2 DEF PairsInv, SyncBusy
    <3> QED BY <2>1, <3>1, <3>2
  <2>7. OneTimeUse'
    <3>1. \A t \in taken : t[1] = e => {c, t[2]} \in pairUp /\ {t[2], c} \in pairUp
      <4>1. \A d : {c, d} = {d, c}
        OBVIOUS
      <4> QED BY <2>1, <4>1 DEF EnvelopesInv
    <3> QED BY <2>1, <3>1 DEF OneTimeUse
  <2> QED BY <2>3, <2>4, <2>5, <2>6, <2>7
<1> QED
  BY <1>u, <1>x, <1>a, <1>b, <1>c, <1>d, <1>e, <1>f, <1>g, <1>h, <1>i, <1>j DEF SyncNext

(* A one-time prekey or an envelope reaches two calls only if they          *)
(* overlapped with another (fetchPrekeyBundle, consumeEnvelope), for any    *)
(* number of calls, bundles and keys in a bundle.                           *)
THEOREM OneTimeUseHolds == SyncSpec => []OneTimeUse
<1>1. SyncInv => OneTimeUse
  BY DEF SyncInv
<1> QED
  BY SyncInitInv, SyncNextInv, <1>1, PTL DEF SyncSpec

-----------------------------------------------------------------------------
(* The devices of an account: a primary remains, and one passkey *)

Counting == {"ensure", "oldest", "crown", "assert"}

DevSteps ==
  Counting \cup {"read", "others", "write", "reauth", "promotee", "swap", "credential", "remaining", "forget",
                 "retire", "one", "level", "device", "key", "session", "first", "rebind"}

DevRecord ==
  [pc : {"idle", "done"}]
    \cup [op : Ops, pc : DevSteps, actor : Dev, target : Dev, pick : Dev \cup {0}, level : Levels]

DevTypeOK ==
  /\ device \in [Dev -> [status : {"none", "active", "revoked"}, level : Levels]]
  /\ passkey \in [Dev -> {"none", "active", "revoked"}]
  /\ session \in [DeviceCalls \cup {0} -> Dev \cup {0}]
  /\ handler \in [DeviceCalls -> DevRecord]

(* Registrations past their count of the account's passkeys.                *)
Registering == {"level", "device", "key"}

(* The steps only one operation, or two, can be at.                         *)
Fits(op, pc) ==
  /\ pc \in Counting => op \in {"revoke", "promote"}
  /\ pc \in {"read", "others", "write"} => op = "revoke"
  /\ pc \in {"reauth", "promotee", "swap"} => op = "promote"
  /\ pc \in {"remaining", "forget", "retire"} => op = "remove"
  /\ pc \in Registering \cup {"one"} => op \in {"register", "add"}

AllFit == \A c \in DeviceCalls : InFlight(c) => Fits(handler[c].op, handler[c].pc)

(* Operations in flight at once have met.                                   *)
AllMet ==
  \A c \in DeviceCalls : \A o \in DeviceCalls \ {c} :
    InFlight(c) /\ InFlight(o) => {handler[c].op, handler[o].op} \in together

(* Without overlapping registrations there is one passkey, and none while a *)
(* registration is about to make one.                                       *)
OnePasskey ==
  /\ \A d \in ActivePasskeys : \A e \in ActivePasskeys : d = e
  /\ \A c \in DeviceCalls : handler[c].pc \in Registering => ActivePasskeys = {}

Overlapped == RemovalMetAnother \/ RegistrationsMet

(* A revocation knows whether its target is a primary, and before it writes *)
(* that another one remains.                                                *)
RevokesSafely(r) ==
  r.pc \in Counting \cup {"others", "write"} /\ r.op = "revoke" =>
    \/ r.target \notin Primaries
    \/ r.level = "primary" /\ (r.pc = "write" => Primaries \ {r.target} # {})

(* What a call in flight can count on while nothing has overlapped it.      *)
GoesSafely(r) ==
  /\ r.pc \notin {"oldest", "crown", "forget", "retire"}
  /\ r.pc \in {"device", "key"} => r.level = "standard"
  /\ r.pc = "remaining" => passkey[r.target] = "active"
  /\ r.pc \in {"promotee", "swap"} => ActivePasskeys # {}
  /\ r.pc = "swap" => Active(r.target)

(* A call that will open a session on a device, make its key, or bind it.   *)
Uses(r, d) ==
  \/ r.pc \in {"session", "key"} /\ r.target = d
  \/ r.pc = "rebind" /\ r.actor = d

Unseen(d) == \A s \in DeviceCalls \cup {0} : session[s] # d

(* Nobody knows of a device that is not made, or is about to get its key.   *)
FreshAreUnknown ==
  /\ \A d \in Dev : device[d].status = "none" => Unseen(d) /\ \A c \in DeviceCalls : ~Uses(handler[c], d)
  /\ \A c \in DeviceCalls : handler[c].pc = "key" =>
       /\ handler[c].target \notin Primaries /\ device[handler[c].target].status # "none"
       /\ Unseen(handler[c].target)
       /\ \A o \in DeviceCalls \ {c} : ~Uses(handler[o], handler[c].target)

PrimaryIsKept ==
  /\ Primaries # {} /\ FreshAreUnknown
  /\ \A c \in DeviceCalls : RevokesSafely(handler[c]) /\ GoesSafely(handler[c])

DevInv ==
  /\ DevTypeOK /\ AllFit /\ AllMet
  /\ RegistrationsMet \/ OnePasskey
  /\ Overlapped \/ PrimaryIsKept

LEMMA OverlapStays ==
  ASSUME together \subseteq together'
  PROVE  (RegistrationsMet => RegistrationsMet') /\ (Overlapped => Overlapped')
<1>1. RegistrationsMet => RegistrationsMet'
  BY DEF RegistrationsMet
<1>2. RemovalMetAnother => RemovalMetAnother'
  BY DEF RemovalMetAnother
<1> QED BY <1>1, <1>2 DEF Overlapped

(* Two calls in flight, while nothing has overlapped.                       *)
LEMMA NoOverlap ==
  ASSUME DevTypeOK, AllMet, NEW c \in DeviceCalls, NEW o \in DeviceCalls \ {c}, InFlight(c), InFlight(o)
  PROVE  /\ ~RegistrationsMet => ~(handler[c].op \in {"register", "add"} /\ handler[o].op \in {"register", "add"})
         /\ ~Overlapped => handler[c].op \notin {"revoke", "remove"} /\ handler[o].op \notin {"revoke", "remove"}
<1> DEFINE pair == {handler[c].op, handler[o].op}
<1>1. pair \in together
  BY DEF AllMet
<1>2. ASSUME handler[c].op \in {"register", "add"} /\ handler[o].op \in {"register", "add"} PROVE RegistrationsMet
  <2>1. pair \in {{"register"}, {"add"}, {"register", "add"}}
    BY <1>2
  <2> HIDE DEF pair
  <2> QED BY <1>1, <2>1 DEF RegistrationsMet
<1>3. ASSUME ~Overlapped PROVE handler[c].op \notin {"revoke", "remove"} /\ handler[o].op \notin {"revoke", "remove"}
  <2>1. pair \cap {"revoke", "remove"} = {}
    BY <1>1, <1>3 DEF Overlapped, RemovalMetAnother
  <2> QED BY <2>1
<1> QED BY <1>2, <1>3

(* A call that goes on, or is done.                                         *)
LEMMA HandlerMoves ==
  ASSUME DevTypeOK, AllFit, AllMet, NEW c \in DeviceCalls, InFlight(c), UNCHANGED together,
         NEW r \in DevRecord, handler' = [handler EXCEPT ![c] = r],
         r.pc = "done" \/ (r.pc \in DevSteps /\ r.op = handler[c].op /\ Fits(r.op, r.pc))
  PROVE  /\ handler' \in [DeviceCalls -> DevRecord] /\ handler'[c] = r
         /\ \A o \in DeviceCalls \ {c} : handler'[o] = handler[o]
         /\ AllFit' /\ AllMet'
<1>1. /\ handler' \in [DeviceCalls -> DevRecord] /\ handler'[c] = r
      /\ \A o \in DeviceCalls \ {c} : handler'[o] = handler[o]
  BY DEF DevTypeOK
<1>2. AllFit'
  BY <1>1 DEF AllFit, InFlight, Fits
<1>3. \A o \in DeviceCalls : InFlight(o)' => InFlight(o) /\ handler'[o].op = handler[o].op
  BY <1>1 DEF InFlight
<1>4. AllMet'
  BY <1>3 DEF AllMet
<1> QED BY <1>1, <1>2, <1>4

LEMMA InFlightIsFull ==
  ASSUME DevTypeOK, NEW c \in DeviceCalls, handler[c].pc \notin {"idle", "done"}
  PROVE  handler[c] \in [op : Ops, pc : DevSteps, actor : Dev, target : Dev, pick : Dev \cup {0}, level : Levels]
BY DEF DevTypeOK, DevRecord

(* One call that goes to a step of its own.                                 *)
LEMMA GotoGoesOn ==
  ASSUME DevTypeOK, AllFit, AllMet, NEW c \in DeviceCalls, InFlight(c), UNCHANGED together,
         NEW step \in DevSteps \cup {"done"}, Goto(c, step),
         step # "done" => Fits(handler[c].op, step)
  PROVE  /\ handler' \in [DeviceCalls -> DevRecord] /\ handler'[c].pc = step
         /\ \A o \in DeviceCalls \ {c} : handler'[o] = handler[o]
         /\ step # "done" => /\ handler'[c].op = handler[c].op /\ handler'[c].target = handler[c].target
                             /\ handler'[c].actor = handler[c].actor /\ handler'[c].level = handler[c].level
         /\ AllFit' /\ AllMet'
<1>1. handler[c] \in [op : Ops, pc : DevSteps, actor : Dev, target : Dev, pick : Dev \cup {0}, level : Levels]
  BY InFlightIsFull DEF InFlight
<1>2. CASE step = "done"
  <2> DEFINE r == [pc |-> step]
  <2>1. handler' = [handler EXCEPT ![c] = r]
    BY <1>2 DEF Goto
  <2>2. r \in DevRecord /\ r.pc = "done"
    BY <1>2 DEF DevRecord
  <2> HIDE DEF r
  <2> QED BY <1>2, <2>1, <2>2, HandlerMoves
<1>3. CASE step # "done"
  <2> DEFINE r == [handler[c] EXCEPT !.pc = step]
  <2>1. handler' = [handler EXCEPT ![c] = r]
    BY <1>3 DEF Goto
  <2>2. /\ r \in DevRecord /\ r.pc = step /\ r.pc \in DevSteps /\ r.op = handler[c].op
        /\ r.target = handler[c].target /\ r.actor = handler[c].actor /\ r.level = handler[c].level
    BY <1>1, <1>3 DEF DevRecord
  <2>3. Fits(r.op, r.pc)
    BY <1>3
  <2> HIDE DEF r
  <2> QED BY <1>3, <2>1, <2>2, <2>3, HandlerMoves
<1> QED BY <1>2, <1>3

(* A call that only reads, whatever it goes on to.                          *)
LEMMA ReadKeepsInv ==
  ASSUME DevInv, NEW c \in DeviceCalls, InFlight(c), UNCHANGED <<device, passkey, session, together>>,
         NEW r \in DevRecord, handler' = [handler EXCEPT ![c] = r],
         r.pc = "done" \/ (r.pc \in DevSteps /\ r.op = handler[c].op /\ Fits(r.op, r.pc)),
         r.pc \in Registering => handler[c].pc \in Registering \/ ActivePasskeys = {},
         ~Overlapped /\ PrimaryIsKept =>
           /\ RevokesSafely(r) /\ GoesSafely(r) /\ r.pc # "key"
           /\ \A d \in Dev : Uses(r, d) =>
                Uses(handler[c], d)
                  \/ (device[d].status # "none" /\ \A o \in DeviceCalls : handler[o].pc = "key" => handler[o].target # d)
  PROVE  DevInv'
<1>1. /\ handler' \in [DeviceCalls -> DevRecord] /\ handler'[c] = r
      /\ \A o \in DeviceCalls \ {c} : handler'[o] = handler[o]
      /\ AllFit' /\ AllMet'
  BY HandlerMoves DEF DevInv
<1>2. DevTypeOK'
  BY <1>1 DEF DevInv, DevTypeOK
<1>3. (RegistrationsMet <=> RegistrationsMet') /\ (Overlapped <=> Overlapped')
  BY DEF RegistrationsMet, RemovalMetAnother, Overlapped
<1>4. ASSUME OnePasskey PROVE OnePasskey'
  BY <1>1, <1>4 DEF OnePasskey, ActivePasskeys
<1>5. ASSUME ~Overlapped, PrimaryIsKept PROVE PrimaryIsKept'
  <2>1. Primaries' = Primaries /\ ActivePasskeys' = ActivePasskeys
    BY DEF Primaries, ActivePasskeys, Active
  <2>2. \A o \in DeviceCalls : RevokesSafely(handler'[o]) /\ GoesSafely(handler'[o])
    BY <1>1, <1>5 DEF PrimaryIsKept
  <2>3. (\A o \in DeviceCalls : RevokesSafely(handler[o]) /\ GoesSafely(handler[o]))'
    BY <2>1, <2>2 DEF RevokesSafely, GoesSafely, Active
  <2>4. \A d \in Dev : device[d].status = "none" => Unseen(d) /\ \A o \in DeviceCalls : ~Uses(handler'[o], d)
    BY <1>1, <1>5 DEF PrimaryIsKept, FreshAreUnknown
  <2>5. \A k \in DeviceCalls : handler'[k].pc = "key" =>
          /\ handler'[k].target \notin Primaries /\ device[handler'[k].target].status # "none"
          /\ Unseen(handler'[k].target)
          /\ \A o \in DeviceCalls \ {k} : ~Uses(handler'[o], handler'[k].target)
    <3> SUFFICES ASSUME NEW k \in DeviceCalls, handler'[k].pc = "key"
                 PROVE  /\ handler'[k].target \notin Primaries /\ device[handler'[k].target].status # "none"
                        /\ Unseen(handler'[k].target)
                        /\ \A o \in DeviceCalls \ {k} : ~Uses(handler'[o], handler'[k].target)
      OBVIOUS
    <3>1. k # c /\ handler'[k] = handler[k] /\ handler[k].target \in Dev
      BY <1>1, <1>5, InFlightIsFull DEF DevInv
    <3>2. \A o \in DeviceCalls \ {k} : ~Uses(handler[o], handler[k].target)
      BY <1>5, <3>1 DEF PrimaryIsKept, FreshAreUnknown
    <3>3. \A o \in DeviceCalls \ {k} : ~Uses(handler'[o], handler[k].target)
      BY <1>1, <1>5, <3>1, <3>2
    <3> QED BY <1>5, <3>1, <3>3 DEF PrimaryIsKept, FreshAreUnknown
  <2>6. FreshAreUnknown'
    BY <2>1, <2>4, <2>5 DEF FreshAreUnknown, Uses, Unseen
  <2> QED BY <1>5, <2>1, <2>3, <2>6 DEF PrimaryIsKept
<1> QED BY <1>1, <1>2, <1>3, <1>4, <1>5 DEF DevInv

(* What such a call needs of the step it goes to.                           *)
ReadyFor(r, step) ==
  /\ step \notin {"oldest", "crown", "forget", "retire", "device", "key", "rebind"}
  /\ step \in Counting \cup {"others", "write"} /\ r.op = "revoke" =>
       \/ r.target \notin Primaries
       \/ r.level = "primary" /\ (step = "write" => Primaries \ {r.target} # {})
  /\ step = "remaining" => passkey[r.target] = "active"
  /\ step \in {"promotee", "swap"} => ActivePasskeys # {}
  /\ step = "swap" => Active(r.target)
  /\ step = "session" => /\ device[r.target].status # "none"
                         /\ \A o \in DeviceCalls : handler[o].pc = "key" => handler[o].target # r.target

LEMMA GotoKeepsInv ==
  ASSUME DevInv, NEW c \in DeviceCalls, InFlight(c), OnlyHandler, NEW step \in DevSteps \cup {"done"}, Goto(c, step),
         step # "done" => Fits(handler[c].op, step),
         step \in Registering => handler[c].pc \in Registering \/ ActivePasskeys = {},
         ~Overlapped /\ PrimaryIsKept => ReadyFor(handler[c], step)
  PROVE  DevInv'
<1>1. handler[c] \in [op : Ops, pc : DevSteps, actor : Dev, target : Dev, pick : Dev \cup {0}, level : Levels]
  BY InFlightIsFull DEF InFlight, DevInv
<1>2. CASE step = "done"
  <2> DEFINE r == [pc |-> step]
  <2>1. handler' = [handler EXCEPT ![c] = r]
    BY <1>2 DEF Goto
  <2>2. r \in DevRecord /\ r.pc = "done"
    BY <1>2 DEF DevRecord
  <2> HIDE DEF r
  <2>3. RevokesSafely(r) /\ GoesSafely(r) /\ (\A d \in Dev : ~Uses(r, d)) /\ r.pc \notin Registering
    BY <2>2 DEF RevokesSafely, GoesSafely, Uses, Counting, Registering
  <2> QED BY <2>1, <2>2, <2>3, ReadKeepsInv DEF OnlyHandler
<1>3. CASE step # "done"
  <2> DEFINE r == [handler[c] EXCEPT !.pc = step]
  <2>1. handler' = [handler EXCEPT ![c] = r]
    BY <1>3 DEF Goto
  <2>2. /\ r \in DevRecord /\ r.pc = step /\ r.pc \in DevSteps /\ r.op = handler[c].op
        /\ r.target = handler[c].target /\ r.actor = handler[c].actor /\ r.level = handler[c].level
    BY <1>1, <1>3 DEF DevRecord
  <2> HIDE DEF r
  <2>3. ASSUME ~Overlapped, PrimaryIsKept
        PROVE  /\ RevokesSafely(r) /\ GoesSafely(r) /\ r.pc # "key"
               /\ \A d \in Dev : Uses(r, d) =>
                    device[d].status # "none" /\ \A o \in DeviceCalls : handler[o].pc = "key" => handler[o].target # d
    <3>1. ReadyFor(handler[c], step)
      BY <2>3
    <3>2. RevokesSafely(r) /\ GoesSafely(r) /\ r.pc # "key"
      BY <2>2, <3>1 DEF ReadyFor, RevokesSafely, GoesSafely
    <3>3. \A d \in Dev : Uses(r, d) => r.pc = "session" /\ d = handler[c].target
      BY <2>2, <3>1 DEF ReadyFor, Uses
    <3> QED BY <2>2, <3>1, <3>2, <3>3 DEF ReadyFor
  <2> QED BY <2>1, <2>2, <2>3, ReadKeepsInv DEF OnlyHandler
<1> QED BY <1>2, <1>3

LEMMA CountKeepsInv ==
  ASSUME DevInv, NEW c \in DeviceCalls,
         \/ CountPrimaries(c) \/ AssertPrimary(c) \/ CountOtherPrimaries(c) \/ PromoteReauth(c) \/ ReadPromotee(c)
         \/ CountRemaining(c) \/ CountPasskeys(c)
  PROVE  DevInv'
<1> USE DEF Counting
<1>a. /\ InFlight(c) => handler[c] \in [op : Ops, pc : DevSteps, actor : Dev, target : Dev, pick : Dev \cup {0}, level : Levels]
      /\ InFlight(c) => Fits(handler[c].op, handler[c].pc)
      /\ PrimaryIsKept => RevokesSafely(handler[c]) /\ GoesSafely(handler[c])
  BY InFlightIsFull DEF InFlight, DevInv, AllFit, PrimaryIsKept
<1>1. CASE CountPrimaries(c)
  <2> DEFINE step == IF Primaries # {} THEN "assert" ELSE "oldest"
  <2>1. handler[c].pc = "ensure" /\ OnlyHandler /\ Goto(c, step) /\ step \in {"assert", "oldest"}
    BY <1>1 DEF CountPrimaries, At
  <2>2. InFlight(c) /\ step \in DevSteps /\ Fits(handler[c].op, step) /\ step \notin Registering
    BY <1>a, <2>1 DEF InFlight, DevSteps, Fits, Registering
  <2>3. ~Overlapped /\ PrimaryIsKept => ReadyFor(handler[c], step)
    <3> SUFFICES ASSUME PrimaryIsKept PROVE ReadyFor(handler[c], step)
      OBVIOUS
    <3>1. step = "assert"
      BY DEF PrimaryIsKept
    <3> HIDE DEF step
    <3> QED BY <1>a, <2>1, <3>1 DEF ReadyFor, RevokesSafely
  <2> HIDE DEF step
  <2> QED BY <2>1, <2>2, <2>3, GotoKeepsInv
<1>2. CASE AssertPrimary(c)
  <2> DEFINE step == IF handler[c].actor \notin Primaries THEN "done"
                     ELSE IF handler[c].op = "promote" THEN "reauth"
                     ELSE IF handler[c].level = "primary" THEN "others" ELSE "write"
  <2>1. handler[c].pc = "assert" /\ OnlyHandler /\ Goto(c, step)
    BY <1>2 DEF AssertPrimary, At
  <2>2. /\ InFlight(c) /\ step \in {"done", "reauth", "others", "write"}
        /\ step = "reauth" => handler[c].op = "promote"
        /\ step \in {"others", "write"} => handler[c].op # "promote"
        /\ step = "write" => handler[c].level # "primary"
    BY <2>1 DEF InFlight
  <2> HIDE DEF step
  <2>3. step \in DevSteps \cup {"done"} /\ step \notin Registering /\ (step # "done" => Fits(handler[c].op, step))
    BY <1>a, <2>1, <2>2 DEF DevSteps, Fits, Registering
  <2>4. ASSUME PrimaryIsKept PROVE ReadyFor(handler[c], step)
    <3>1. handler[c].op = "revoke" => handler[c].target \notin Primaries \/ handler[c].level = "primary"
      BY <1>a, <2>1, <2>4 DEF RevokesSafely
    <3>2. handler[c].op = "revoke" /\ step = "write" => handler[c].target \notin Primaries
      BY <2>2, <3>1
    <3> QED BY <2>2, <3>1, <3>2 DEF ReadyFor
  <2> QED BY <2>1, <2>2, <2>3, <2>4, GotoKeepsInv
<1>3. CASE CountOtherPrimaries(c)
  <2> DEFINE step == IF Primaries \ {handler[c].target} = {} THEN "done" ELSE "write"
  <2>1. handler[c].pc = "others" /\ OnlyHandler /\ Goto(c, step)
    BY <1>3 DEF CountOtherPrimaries, At
  <2>2. InFlight(c) /\ step \in {"done", "write"} /\ (step = "write" => Primaries \ {handler[c].target} # {})
    BY <2>1 DEF InFlight
  <2> HIDE DEF step
  <2>3. step \in DevSteps \cup {"done"} /\ step \notin Registering /\ (step # "done" => Fits(handler[c].op, step))
    BY <1>a, <2>1, <2>2 DEF DevSteps, Fits, Registering
  <2>4. PrimaryIsKept => ReadyFor(handler[c], step)
    BY <1>a, <2>1, <2>2 DEF ReadyFor, RevokesSafely
  <2> QED BY <2>1, <2>2, <2>3, <2>4, GotoKeepsInv
<1>4. CASE PromoteReauth(c)
  <2> DEFINE step == IF Reauthenticates(handler[c].actor) THEN "promotee" ELSE "done"
  <2>1. handler[c].pc = "reauth" /\ OnlyHandler /\ Goto(c, step)
    BY <1>4 DEF PromoteReauth, At
  <2>2. InFlight(c) /\ step \in {"done", "promotee"} /\ (step = "promotee" => ActivePasskeys # {})
    BY <1>a, <2>1 DEF InFlight, Reauthenticates, ActivePasskeys
  <2> HIDE DEF step
  <2>3. step \in DevSteps \cup {"done"} /\ step \notin Registering /\ (step # "done" => Fits(handler[c].op, step))
    BY <1>a, <2>1, <2>2 DEF DevSteps, Fits, Registering
  <2>4. ReadyFor(handler[c], step)
    BY <2>2 DEF ReadyFor
  <2> QED BY <2>1, <2>2, <2>3, <2>4, GotoKeepsInv
<1>5. CASE ReadPromotee(c)
  <2> DEFINE step == IF handler[c].target \in Trusted \ Primaries THEN "swap" ELSE "done"
  <2>1. handler[c].pc = "promotee" /\ OnlyHandler /\ Goto(c, step)
    BY <1>5 DEF ReadPromotee, At
  <2>2. InFlight(c) /\ step \in {"done", "swap"} /\ (step = "swap" => Active(handler[c].target))
    BY <2>1 DEF InFlight, Trusted
  <2> HIDE DEF step
  <2>3. step \in DevSteps \cup {"done"} /\ step \notin Registering /\ (step # "done" => Fits(handler[c].op, step))
    BY <1>a, <2>1, <2>2 DEF DevSteps, Fits, Registering
  <2>4. PrimaryIsKept => ReadyFor(handler[c], step)
    BY <1>a, <2>1, <2>2 DEF ReadyFor, GoesSafely
  <2> QED BY <2>1, <2>2, <2>3, <2>4, GotoKeepsInv
<1>6. CASE CountRemaining(c)
  <2> DEFINE step == IF ActivePasskeys \ {handler[c].target} = {} THEN "done" ELSE "forget"
  <2>1. handler[c].pc = "remaining" /\ OnlyHandler /\ Goto(c, step)
    BY <1>6 DEF CountRemaining, At
  <2>2. InFlight(c) /\ step \in {"done", "forget"}
    BY <2>1 DEF InFlight
  <2>3. ASSUME ~Overlapped, PrimaryIsKept PROVE step = "done"
    <3>1. handler[c].target \in ActivePasskeys
      BY <1>a, <2>1, <2>2, <2>3 DEF GoesSafely, ActivePasskeys
    <3>2. OnePasskey
      BY <2>3 DEF DevInv, Overlapped
    <3> QED BY <3>1, <3>2 DEF OnePasskey
  <2> HIDE DEF step
  <2>4. step \in DevSteps \cup {"done"} /\ step \notin Registering /\ (step # "done" => Fits(handler[c].op, step))
    BY <1>a, <2>1, <2>2 DEF DevSteps, Fits, Registering
  <2>5. ~Overlapped /\ PrimaryIsKept => ReadyFor(handler[c], step)
    BY <2>3 DEF ReadyFor
  <2> QED BY <2>1, <2>2, <2>4, <2>5, GotoKeepsInv
<1>7. CASE CountPasskeys(c)
  <2> DEFINE step == IF ActivePasskeys # {} THEN "done" ELSE "level"
  <2>1. handler[c].pc = "one" /\ OnlyHandler /\ Goto(c, step)
    BY <1>7 DEF CountPasskeys, At
  <2>2. InFlight(c) /\ step \in {"done", "level"} /\ (step = "level" => ActivePasskeys = {})
    BY <2>1 DEF InFlight
  <2> HIDE DEF step
  <2>3. /\ step \in DevSteps \cup {"done"} /\ (step \in Registering => ActivePasskeys = {})
        /\ step # "done" => Fits(handler[c].op, step)
    BY <1>a, <2>1, <2>2 DEF DevSteps, Fits, Registering
  <2>4. ReadyFor(handler[c], step)
    BY <2>2 DEF ReadyFor
  <2> QED BY <2>1, <2>2, <2>3, <2>4, GotoKeepsInv
<1> QED BY <1>1, <1>2, <1>3, <1>4, <1>5, <1>6, <1>7

LEMMA ReadTargetKeepsInv == ASSUME DevInv, NEW c \in DeviceCalls, ReadTarget(c) PROVE DevInv'
<1>1. handler[c].pc = "read" /\ OnlyHandler /\ InFlight(c)
  BY DEF ReadTarget, At, InFlight
<1>2. /\ handler[c] \in [op : Ops, pc : DevSteps, actor : Dev, target : Dev, pick : Dev \cup {0}, level : Levels]
      /\ Fits(handler[c].op, handler[c].pc)
  BY <1>1, InFlightIsFull DEF DevInv, AllFit
<1>3. CASE Active(handler[c].target)
  <2> DEFINE read == device[handler[c].target].level
             r == [handler[c] EXCEPT !.pc = "ensure", !.level = read]
  <2>1. handler' = [handler EXCEPT ![c] = r]
    BY <1>3 DEF ReadTarget
  <2>2. read \in Levels
    BY <1>2 DEF DevInv, DevTypeOK
  <2>3. handler[c].target \notin Primaries \/ read = "primary"
    BY DEF Primaries
  <2> HIDE DEF read
  <2>4. /\ r \in DevRecord /\ r.pc = "ensure" /\ r.pc \in DevSteps /\ r.op = handler[c].op
        /\ r.target = handler[c].target /\ r.level = read
    BY <1>2, <2>2 DEF DevRecord, DevSteps, Counting
  <2> HIDE DEF r
  <2>5. Fits(r.op, r.pc) /\ r.pc \notin Registering
    BY <1>1, <1>2, <2>4 DEF Fits, Counting, Registering
  <2>6. RevokesSafely(r) /\ GoesSafely(r) /\ \A d \in Dev : ~Uses(r, d)
    BY <2>3, <2>4 DEF RevokesSafely, GoesSafely, Uses
  <2> QED BY <1>1, <2>1, <2>4, <2>5, <2>6, ReadKeepsInv DEF OnlyHandler
<1>4. CASE ~Active(handler[c].target)
  <2>1. Goto(c, "done") /\ "done" \notin Registering
    BY <1>4 DEF ReadTarget, Registering
  <2>2. PrimaryIsKept => ReadyFor(handler[c], "done")
    BY DEF ReadyFor, Counting
  <2> QED BY <1>1, <2>1, <2>2, GotoKeepsInv
<1> QED BY <1>3, <1>4

LEMMA FindOldestKeepsInv == ASSUME DevInv, NEW c \in DeviceCalls, FindOldest(c) PROVE DevInv'
<1>1. handler[c].pc = "oldest" /\ OnlyHandler /\ InFlight(c)
  BY DEF FindOldest, At, InFlight
<1>2. /\ handler[c] \in [op : Ops, pc : DevSteps, actor : Dev, target : Dev, pick : Dev \cup {0}, level : Levels]
      /\ Fits(handler[c].op, handler[c].pc)
  BY <1>1, InFlightIsFull DEF DevInv, AllFit
<1>3. ~PrimaryIsKept
  BY <1>1 DEF PrimaryIsKept, GoesSafely
<1>4. CASE Trusted = {}
  <2>1. Goto(c, "assert") /\ "assert" \in DevSteps /\ "assert" \notin Registering
    BY <1>4 DEF FindOldest, Registering, DevSteps, Counting
  <2>2. Fits(handler[c].op, "assert")
    BY <1>1, <1>2 DEF Fits, Counting, Registering
  <2> QED BY <1>1, <1>3, <2>1, <2>2, GotoKeepsInv
<1>5. CASE Trusted # {}
  <2>1. PICK d \in Oldest(Trusted) : Note(c, "crown", d)
    BY <1>5 DEF FindOldest
  <2> DEFINE r == [handler[c] EXCEPT !.pc = "crown", !.pick = d]
  <2>2. handler' = [handler EXCEPT ![c] = r]
    BY <2>1 DEF Note
  <2>3. d \in Dev
    BY DEF Oldest, Trusted
  <2>4. r \in DevRecord /\ r.pc = "crown" /\ r.pc \in DevSteps /\ r.op = handler[c].op
    BY <1>2, <2>3 DEF DevRecord, DevSteps, Counting
  <2> HIDE DEF r
  <2>5. Fits(r.op, r.pc) /\ r.pc \notin Registering
    BY <1>1, <1>2, <2>4 DEF Fits, Counting, Registering
  <2> QED BY <1>1, <1>3, <2>2, <2>4, <2>5, ReadKeepsInv DEF OnlyHandler
<1> QED BY <1>4, <1>5

(* No call is about to make the key of a device that has one, or is primary. *)
LEMMA KnownIsNotFresh ==
  ASSUME DevInv, ~Overlapped, NEW d \in Dev, Active(d), d \in Primaries \/ passkey[d] = "active"
  PROVE  device[d].status # "none" /\ \A o \in DeviceCalls : handler[o].pc = "key" => handler[o].target # d
<1>1. PrimaryIsKept /\ OnePasskey
  BY DEF DevInv, Overlapped
<1>2. device[d].status # "none"
  BY DEF Active
<1>3. ASSUME NEW o \in DeviceCalls, handler[o].pc = "key" PROVE handler[o].target # d
  <2>1. handler[o].target \notin Primaries /\ ActivePasskeys = {}
    BY <1>1, <1>3 DEF PrimaryIsKept, FreshAreUnknown, OnePasskey, Registering
  <2> QED BY <2>1 DEF ActivePasskeys
<1> QED BY <1>2, <1>3

LEMMA ReadCredentialKeepsInv == ASSUME DevInv, NEW c \in DeviceCalls, ReadCredential(c) PROVE DevInv'
<1> DEFINE step == IF passkey[handler[c].target] # "active" THEN "done"
                   ELSE IF handler[c].op = "remove" THEN "remaining"
                   ELSE IF Active(handler[c].target) THEN "session" ELSE "done"
<1>1. handler[c].pc = "credential" /\ OnlyHandler /\ InFlight(c) /\ Goto(c, step)
  BY DEF ReadCredential, At, InFlight
<1>2. handler[c].target \in Dev
  BY <1>1, InFlightIsFull DEF DevInv
<1>3. /\ step \in {"done", "remaining", "session"}
      /\ step # "done" => passkey[handler[c].target] = "active"
      /\ step = "remaining" => handler[c].op = "remove"
      /\ step = "session" => Active(handler[c].target)
  OBVIOUS
<1> HIDE DEF step
<1>4. step \in DevSteps \cup {"done"} /\ step \notin Registering /\ (step # "done" => Fits(handler[c].op, step))
  BY <1>3 DEF DevSteps, Fits, Registering, Counting
<1>5. ASSUME ~Overlapped, PrimaryIsKept PROVE ReadyFor(handler[c], step)
  <2>1. step = "session" => /\ device[handler[c].target].status # "none"
                            /\ \A o \in DeviceCalls : handler[o].pc = "key" => handler[o].target # handler[c].target
    BY <1>2, <1>3, <1>5, KnownIsNotFresh
  <2> QED BY <1>3, <2>1 DEF ReadyFor, Counting
<1> QED BY <1>1, <1>4, <1>5, GotoKeepsInv

LEMMA UnlockKeepsInv == ASSUME DevInv, NEW c \in DeviceCalls, UnlockOnPrimary(c) PROVE DevInv'
<1>1. handler[c].pc = "first" /\ OnlyHandler /\ InFlight(c)
  BY DEF UnlockOnPrimary, At, InFlight
<1>2. handler[c] \in [op : Ops, pc : DevSteps, actor : Dev, target : Dev, pick : Dev \cup {0}, level : Levels]
  BY <1>1, InFlightIsFull DEF DevInv
<1>3. CASE Primaries = {}
  <2>1. Goto(c, "done") /\ "done" \notin Registering
    BY <1>3 DEF UnlockOnPrimary, Registering
  <2>2. ReadyFor(handler[c], "done")
    BY DEF ReadyFor, Counting
  <2> QED BY <1>1, <2>1, <2>2, GotoKeepsInv
<1>4. CASE Primaries # {}
  <2>1. PICK d \in Oldest(Primaries) : handler' = [handler EXCEPT ![c].pc = "session", ![c].target = d]
    BY <1>4 DEF UnlockOnPrimary
  <2> DEFINE r == [handler[c] EXCEPT !.pc = "session", !.target = d]
  <2>2. handler' = [handler EXCEPT ![c] = r]
    BY <2>1
  <2>3. d \in Dev /\ d \in Primaries /\ Active(d)
    BY DEF Oldest, Primaries
  <2>4. r \in DevRecord /\ r.pc = "session" /\ r.pc \in DevSteps /\ r.op = handler[c].op /\ r.target = d
    BY <1>2, <2>3 DEF DevRecord, DevSteps
  <2> HIDE DEF r
  <2>5. Fits(r.op, r.pc) /\ r.pc \notin Registering
    BY <2>4 DEF Fits, Counting, Registering
  <2>6. RevokesSafely(r) /\ GoesSafely(r) /\ \A e \in Dev : Uses(r, e) => e = d
    BY <2>4 DEF RevokesSafely, GoesSafely, Uses, Counting
  <2> QED BY <1>1, <2>2, <2>3, <2>4, <2>5, <2>6, KnownIsNotFresh, ReadKeepsInv DEF OnlyHandler
<1> QED BY <1>3, <1>4

LEMMA ChooseLevelKeepsInv == ASSUME DevInv, NEW c \in DeviceCalls, ChooseInitialTrustLevel(c) PROVE DevInv'
<1> DEFINE level == IF Trusted = {} THEN "primary" ELSE "standard"
           r == [handler[c] EXCEPT !.pc = "device", !.level = level]
<1>1. handler[c].pc = "level" /\ OnlyHandler /\ InFlight(c) /\ handler' = [handler EXCEPT ![c] = r]
  BY DEF ChooseInitialTrustLevel, At, InFlight
<1>2. /\ handler[c] \in [op : Ops, pc : DevSteps, actor : Dev, target : Dev, pick : Dev \cup {0}, level : Levels]
      /\ Fits(handler[c].op, handler[c].pc)
  BY <1>1, InFlightIsFull DEF DevInv, AllFit
<1>3. level \in Levels /\ (PrimaryIsKept => level = "standard")
  BY DEF Levels, PrimaryIsKept, Primaries, Trusted
<1> HIDE DEF level
<1>4. r \in DevRecord /\ r.pc = "device" /\ r.pc \in DevSteps /\ r.op = handler[c].op /\ r.level = level
  BY <1>2, <1>3 DEF DevRecord, DevSteps
<1> HIDE DEF r
<1>5. Fits(r.op, r.pc) /\ handler[c].pc \in Registering
  BY <1>1, <1>2, <1>4 DEF Fits, Counting, Registering
<1>6. PrimaryIsKept => RevokesSafely(r) /\ GoesSafely(r) /\ \A d \in Dev : ~Uses(r, d)
  BY <1>3, <1>4 DEF RevokesSafely, GoesSafely, Uses, Counting
<1> QED BY <1>1, <1>4, <1>5, <1>6, ReadKeepsInv DEF OnlyHandler

LEMMA OnePasskeyStays ==
  ASSUME OnePasskey, NEW c \in DeviceCalls, \A o \in DeviceCalls \ {c} : handler'[o] = handler[o],
         ActivePasskeys' \subseteq ActivePasskeys, handler'[c].pc \in Registering => handler[c].pc \in Registering
  PROVE  OnePasskey'
BY DEF OnePasskey

(* A removal, whatever it writes, has met another call or runs alone.       *)
LEMMA CrownKeepsInv == ASSUME DevInv, NEW c \in DeviceCalls, CrownOldest(c) PROVE DevInv'
<1>1. /\ handler[c].pc = "crown" /\ InFlight(c) /\ Goto(c, "assert") /\ UNCHANGED <<passkey, session, together>>
      /\ device' = [device EXCEPT ![handler[c].pick].level = "primary"]
  BY DEF CrownOldest, At, InFlight
<1>2. /\ handler[c] \in [op : Ops, pc : DevSteps, actor : Dev, target : Dev, pick : Dev \cup {0}, level : Levels]
      /\ Fits(handler[c].op, handler[c].pc)
  BY <1>1, InFlightIsFull DEF DevInv, AllFit
<1>3. "assert" \in DevSteps /\ Fits(handler[c].op, "assert")
  BY <1>1, <1>2 DEF DevSteps, Counting, Fits, Registering
<1>4. /\ handler' \in [DeviceCalls -> DevRecord] /\ handler'[c].pc = "assert"
      /\ (\A o \in DeviceCalls \ {c} : handler'[o] = handler[o]) /\ AllFit' /\ AllMet'
  BY <1>1, <1>3, GotoGoesOn DEF DevInv
<1>5. DevTypeOK'
  BY <1>1, <1>4 DEF DevInv, DevTypeOK, Levels
<1>6. Overlapped /\ Overlapped'
  <2>1. Overlapped
    BY <1>1 DEF DevInv, PrimaryIsKept, GoesSafely
  <2> QED BY <1>1, <2>1, OverlapStays
<1>7. OnePasskey => OnePasskey'
  BY <1>1, <1>4, OnePasskeyStays DEF ActivePasskeys, Registering
<1> QED BY <1>1, <1>4, <1>5, <1>6, <1>7, OverlapStays DEF DevInv

LEMMA RemoveKeepsInv == ASSUME DevInv, NEW c \in DeviceCalls, RevokePasskey(c) \/ RetireDevice(c) PROVE DevInv'
<1>1. /\ handler[c].pc \in {"forget", "retire"} /\ InFlight(c) /\ UNCHANGED together
      /\ Goto(c, "retire") \/ Goto(c, "done")
  BY DEF RevokePasskey, RetireDevice, At, InFlight
<1>2. /\ handler[c] \in [op : Ops, pc : DevSteps, actor : Dev, target : Dev, pick : Dev \cup {0}, level : Levels]
      /\ Fits(handler[c].op, handler[c].pc)
  BY <1>1, InFlightIsFull DEF DevInv, AllFit
<1>3. "retire" \in DevSteps /\ Fits(handler[c].op, "retire")
  BY <1>1, <1>2 DEF DevSteps, Counting, Fits, Registering
<1>4. /\ handler' \in [DeviceCalls -> DevRecord] /\ handler'[c].pc \in {"retire", "done"}
      /\ (\A o \in DeviceCalls \ {c} : handler'[o] = handler[o]) /\ AllFit' /\ AllMet'
  BY <1>1, <1>3, GotoGoesOn DEF DevInv
<1>5. DevTypeOK' /\ ActivePasskeys' \subseteq ActivePasskeys
  <2>1. CASE RevokePasskey(c)
    <3>1. passkey' = [passkey EXCEPT ![handler[c].target] = "revoked"] /\ UNCHANGED device
      BY <2>1 DEF RevokePasskey
    <3>2. session' = [s \in DOMAIN session |-> IF session[s] = handler[c].target THEN 0 ELSE session[s]]
      BY <2>1 DEF RevokePasskey, SignOut
    <3>3. session' \in [DeviceCalls \cup {0} -> Dev \cup {0}]
      BY <3>2 DEF DevInv, DevTypeOK
    <3> QED BY <1>2, <1>4, <3>1, <3>3 DEF DevInv, DevTypeOK, ActivePasskeys
  <2>2. CASE RetireDevice(c)
    BY <1>2, <1>4, <2>2 DEF RetireDevice, DevInv, DevTypeOK, ActivePasskeys
  <2> QED BY <2>1, <2>2
<1>6. Overlapped /\ Overlapped'
  <2>1. Overlapped
    BY <1>1 DEF DevInv, PrimaryIsKept, GoesSafely
  <2> QED BY <1>1, <2>1, OverlapStays
<1>7. OnePasskey => OnePasskey'
  BY <1>4, <1>5, OnePasskeyStays DEF Registering
<1> QED BY <1>1, <1>4, <1>5, <1>6, <1>7, OverlapStays DEF DevInv

LEMMA RevokeKeepsInv == ASSUME DevInv, NEW c \in DeviceCalls, RevokeWrite(c) PROVE DevInv'
<1> DEFINE t == handler[c].target
<1>1. /\ handler[c].pc = "write" /\ InFlight(c) /\ Goto(c, "done") /\ UNCHANGED together
      /\ device' = [device EXCEPT ![t].status = "revoked"]
      /\ passkey' = [passkey EXCEPT ![t] = IF @ = "active" THEN "revoked" ELSE @]
      /\ session' = [s \in DOMAIN session |-> IF session[s] = t THEN 0 ELSE session[s]]
  BY DEF RevokeWrite, At, InFlight, SignOut
<1>2. t \in Dev /\ handler[c].op = "revoke"
  BY <1>1, InFlightIsFull DEF DevInv, AllFit, Fits
<1>3. /\ handler' \in [DeviceCalls -> DevRecord] /\ handler'[c].pc = "done"
      /\ (\A o \in DeviceCalls \ {c} : handler'[o] = handler[o]) /\ AllFit' /\ AllMet'
  BY <1>1, GotoGoesOn DEF DevInv
<1>4. session' \in [DeviceCalls \cup {0} -> Dev \cup {0}]
  BY <1>1 DEF DevInv, DevTypeOK
<1>5. DevTypeOK' /\ ActivePasskeys' \subseteq ActivePasskeys
  BY <1>1, <1>2, <1>3, <1>4 DEF DevInv, DevTypeOK, ActivePasskeys
<1>6. OnePasskey => OnePasskey'
  BY <1>3, <1>5, OnePasskeyStays DEF Registering
<1>7. (Overlapped <=> Overlapped') /\ (RegistrationsMet <=> RegistrationsMet')
  BY <1>1 DEF Overlapped, RegistrationsMet, RemovalMetAnother
<1>8. ASSUME ~Overlapped PROVE PrimaryIsKept'
  <2>1. PrimaryIsKept
    BY <1>8 DEF DevInv
  <2>2. \A o \in DeviceCalls : handler'[o].pc \in {"idle", "done"}
    BY <1>1, <1>2, <1>3, <1>8, NoOverlap DEF InFlight, DevInv
  <2>3. \A o \in DeviceCalls : (RevokesSafely(handler[o]))' /\ (GoesSafely(handler[o]))'
    BY <2>2 DEF RevokesSafely, GoesSafely, Counting
  <2>4. Primaries \ {t} # {}
    BY <1>1, <1>2, <2>1 DEF PrimaryIsKept, RevokesSafely
  <2>5. Primaries' = Primaries \ {t}
    BY <1>1, <1>2 DEF Primaries, Active, DevInv, DevTypeOK
  <2>6. \A d \in Dev : device'[d].status = "none" => device[d].status = "none"
    BY <1>1, <1>2 DEF DevInv, DevTypeOK
  <2>7. \A d \in Dev : Unseen(d) => \A s \in DeviceCalls \cup {0} : session'[s] # d
    BY <1>1, DevicesAssumption DEF DevInv, DevTypeOK, Unseen, Dev
  <2>8. FreshAreUnknown'
    BY <2>1, <2>2, <2>6, <2>7 DEF PrimaryIsKept, FreshAreUnknown, Uses, Unseen
  <2> QED BY <2>3, <2>4, <2>5, <2>8 DEF PrimaryIsKept
<1> QED BY <1>3, <1>5, <1>6, <1>7, <1>8 DEF DevInv

LEMMA SwapKeepsInv == ASSUME DevInv, NEW c \in DeviceCalls, SwapPrimary(c) PROVE DevInv'
<1> DEFINE t == handler[c].target
<1>1. /\ handler[c].pc = "swap" /\ InFlight(c) /\ Goto(c, "done") /\ UNCHANGED <<passkey, session, together>>
      /\ device' = [d \in Dev |-> IF d = t THEN [device[d] EXCEPT !.level = "primary"]
                                  ELSE IF d \in Primaries THEN [device[d] EXCEPT !.level = "standard"]
                                  ELSE device[d]]
  BY DEF SwapPrimary, At, InFlight
<1>2. t \in Dev
  BY <1>1, InFlightIsFull DEF DevInv
<1>3. /\ handler' \in [DeviceCalls -> DevRecord] /\ handler'[c].pc = "done"
      /\ (\A o \in DeviceCalls \ {c} : handler'[o] = handler[o]) /\ AllFit' /\ AllMet'
  BY <1>1, GotoGoesOn DEF DevInv
<1>4. /\ device' \in [Dev -> [status : {"none", "active", "revoked"}, level : Levels]]
      /\ \A d \in Dev : device'[d].status = device[d].status
      /\ device'[t].level = "primary"
  BY <1>1, <1>2 DEF DevInv, DevTypeOK, Levels
<1>5. DevTypeOK' /\ ActivePasskeys' = ActivePasskeys
  BY <1>1, <1>3, <1>4 DEF DevInv, DevTypeOK, ActivePasskeys
<1>6. OnePasskey => OnePasskey'
  BY <1>3, <1>5, OnePasskeyStays DEF Registering
<1>7. (Overlapped <=> Overlapped') /\ (RegistrationsMet <=> RegistrationsMet')
  BY <1>1 DEF Overlapped, RegistrationsMet, RemovalMetAnother
<1>8. ASSUME ~Overlapped PROVE PrimaryIsKept'
  <2>1. PrimaryIsKept /\ OnePasskey
    BY <1>8 DEF DevInv, Overlapped
  <2>2. t \in Primaries'
    BY <1>1, <1>2, <1>4, <2>1 DEF PrimaryIsKept, GoesSafely, Primaries, Active
  <2>3. \A o \in DeviceCalls : InFlight(o)' => o # c /\ InFlight(o) /\ handler[o].op \notin {"revoke", "remove"}
    BY <1>1, <1>3, <1>8, NoOverlap DEF InFlight, DevInv
  <2>4. \A o \in DeviceCalls : (RevokesSafely(handler[o]))'
    BY <1>3, <2>3 DEF RevokesSafely, InFlight, Counting
  <2>5. \A o \in DeviceCalls : (GoesSafely(handler[o]))'
    <3>1. GoesSafely(handler'[c])
      BY <1>3 DEF GoesSafely
    <3>2. \A o \in DeviceCalls \ {c} : GoesSafely(handler'[o])
      BY <1>3, <2>1 DEF PrimaryIsKept
    <3>3. \A o \in DeviceCalls : handler[o].pc = "swap" => handler[o].target \in Dev
      BY InFlightIsFull DEF DevInv
    <3> QED BY <1>1, <1>3, <1>4, <1>5, <3>1, <3>2, <3>3 DEF GoesSafely, Active
  <2>6. \A o \in DeviceCalls : handler'[o].pc # "key"
    <3>1. ActivePasskeys # {}
      BY <1>1, <2>1 DEF PrimaryIsKept, GoesSafely
    <3> QED BY <1>3, <2>1, <3>1 DEF OnePasskey, Registering
  <2>7. \A d \in Dev : ~Uses(handler'[c], d)
    BY <1>3 DEF Uses
  <2>8. FreshAreUnknown'
    BY <1>1, <1>3, <1>4, <2>1, <2>6, <2>7 DEF PrimaryIsKept, FreshAreUnknown, Uses, Unseen
  <2> QED BY <2>2, <2>4, <2>5, <2>8 DEF PrimaryIsKept
<1> QED BY <1>3, <1>5, <1>6, <1>7, <1>8 DEF DevInv

(* The other calls, when devices and passkeys only come to be.              *)
LEMMA OthersStaySafe ==
  ASSUME DevInv, PrimaryIsKept, NEW c \in DeviceCalls, \A o \in DeviceCalls \ {c} : handler'[o] = handler[o],
         ActivePasskeys \subseteq ActivePasskeys',
         \A o \in DeviceCalls \ {c} : handler[o].pc = "swap" => Active(handler[o].target)',
         Primaries' = Primaries
           \/ \A o \in DeviceCalls \ {c} : InFlight(o) => handler[o].op \notin {"revoke", "remove"}
  PROVE  \A o \in DeviceCalls \ {c} : RevokesSafely(handler[o])' /\ GoesSafely(handler[o])'
<1> SUFFICES ASSUME NEW o \in DeviceCalls \ {c} PROVE RevokesSafely(handler[o])' /\ GoesSafely(handler[o])'
  OBVIOUS
<1>1. handler'[o] = handler[o] /\ RevokesSafely(handler[o]) /\ GoesSafely(handler[o])
  BY DEF PrimaryIsKept
<1>2. handler[o].pc \in DevSteps => handler[o].target \in Dev /\ InFlight(o)
  BY InFlightIsFull DEF DevInv, InFlight, DevSteps, Counting
<1>3. RevokesSafely(handler[o])'
  BY <1>1, <1>2 DEF RevokesSafely, DevSteps
<1>4. handler[o].pc = "remaining" => passkey'[handler[o].target] = "active"
  <2>1. ASSUME handler[o].pc = "remaining" PROVE handler[o].target \in ActivePasskeys
    BY <1>1, <1>2, <2>1 DEF GoesSafely, ActivePasskeys, DevSteps
  <2> QED BY <2>1 DEF ActivePasskeys
<1>5. handler[o].pc = "swap" => Active(handler[o].target)'
  OBVIOUS
<1>6. handler[o].pc \in {"promotee", "swap"} => ActivePasskeys' # {}
  BY <1>1 DEF GoesSafely
<1>7. GoesSafely(handler[o])'
  BY <1>1, <1>4, <1>5, <1>6 DEF GoesSafely, Active
<1> QED BY <1>3, <1>7

LEMMA RebindKeepsInv == ASSUME DevInv, NEW c \in DeviceCalls, RebindMaster(c) PROVE DevInv'
<1> DEFINE a == handler[c].actor
           master == [status |-> "active", level |-> "primary"]
<1>1. /\ handler[c].pc = "rebind" /\ InFlight(c) /\ Goto(c, "done") /\ UNCHANGED <<passkey, session, together>>
      /\ device' = [device EXCEPT ![a] = master]
  BY DEF RebindMaster, At, InFlight
<1>2. a \in Dev
  BY <1>1, InFlightIsFull DEF DevInv
<1>3. /\ handler' \in [DeviceCalls -> DevRecord] /\ handler'[c].pc = "done"
      /\ (\A o \in DeviceCalls \ {c} : handler'[o] = handler[o]) /\ AllFit' /\ AllMet'
  BY <1>1, GotoGoesOn DEF DevInv
<1>4. /\ device' \in [Dev -> [status : {"none", "active", "revoked"}, level : Levels]]
      /\ device'[a] = master /\ \A d \in Dev \ {a} : device'[d] = device[d]
  BY <1>1, <1>2 DEF DevInv, DevTypeOK, Levels
<1>5. DevTypeOK' /\ ActivePasskeys' = ActivePasskeys
  BY <1>1, <1>3, <1>4 DEF DevInv, DevTypeOK, ActivePasskeys
<1>6. OnePasskey => OnePasskey'
  BY <1>3, <1>5, OnePasskeyStays DEF Registering
<1>7. (Overlapped <=> Overlapped') /\ (RegistrationsMet <=> RegistrationsMet')
  BY <1>1 DEF Overlapped, RegistrationsMet, RemovalMetAnother
<1>8. ASSUME ~Overlapped PROVE PrimaryIsKept'
  <2>1. PrimaryIsKept
    BY <1>8 DEF DevInv
  <2>2. a \in Primaries' /\ \A d \in Dev \ {a} : d \in Primaries' => d \in Primaries
    BY <1>2, <1>4 DEF Primaries, Active
  <2>3. \A o \in DeviceCalls \ {c} : InFlight(o) => handler[o].op \notin {"revoke", "remove"}
    BY <1>1, <1>8, NoOverlap DEF DevInv
  <2>4. \A o \in DeviceCalls \ {c} : handler[o].pc = "swap" => Active(handler[o].target)'
    <3>1. \A o \in DeviceCalls \ {c} : handler[o].pc = "swap" => Active(handler[o].target) /\ handler[o].target \in Dev
      BY <2>1, InFlightIsFull DEF DevInv, PrimaryIsKept, GoesSafely
    <3> QED BY <1>3, <1>4, <3>1 DEF Active
  <2>5. \A o \in DeviceCalls \ {c} : RevokesSafely(handler[o])' /\ GoesSafely(handler[o])'
    BY <1>3, <1>5, <2>1, <2>3, <2>4, OthersStaySafe
  <2>6. RevokesSafely(handler[c])' /\ GoesSafely(handler[c])' /\ \A d \in Dev : ~Uses(handler'[c], d)
    BY <1>3 DEF RevokesSafely, GoesSafely, Uses, Counting
  <2>7. \A o \in DeviceCalls \ {c} : handler[o].pc = "key" => handler[o].target # a /\ handler[o].target \in Dev
    BY <1>1, <2>1, InFlightIsFull DEF DevInv, PrimaryIsKept, FreshAreUnknown, Uses
  <2>8. FreshAreUnknown'
    BY <1>1, <1>3, <1>4, <2>1, <2>2, <2>6, <2>7 DEF PrimaryIsKept, FreshAreUnknown, Uses, Unseen
  <2> QED BY <2>2, <2>5, <2>6, <2>8 DEF PrimaryIsKept
<1> QED BY <1>3, <1>5, <1>6, <1>7, <1>8 DEF DevInv

LEMMA CreateDeviceKeepsInv == ASSUME DevInv, NEW c \in DeviceCalls, CreateDevice(c) PROVE DevInv'
<1>1. PICK d \in Dev :
        /\ device[d].status = "none" /\ device' = [device EXCEPT ![d] = [status |-> "active", level |-> handler[c].level]]
        /\ handler' = [handler EXCEPT ![c].pc = "key", ![c].target = d]
  BY DEF CreateDevice
<1> DEFINE r == [handler[c] EXCEPT !.pc = "key", !.target = d]
<1>2. handler[c].pc = "device" /\ InFlight(c) /\ UNCHANGED <<passkey, session, together>>
  BY DEF CreateDevice, At, InFlight
<1>3. /\ handler[c] \in [op : Ops, pc : DevSteps, actor : Dev, target : Dev, pick : Dev \cup {0}, level : Levels]
      /\ Fits(handler[c].op, handler[c].pc)
  BY <1>2, InFlightIsFull DEF DevInv, AllFit
<1>4. /\ handler' = [handler EXCEPT ![c] = r] /\ r \in DevRecord /\ r.pc = "key" /\ r.pc \in DevSteps
      /\ r.op = handler[c].op /\ r.target = d /\ r.level = handler[c].level
  BY <1>1, <1>3 DEF DevRecord, DevSteps
<1> HIDE DEF r
<1>5. Fits(r.op, r.pc)
  BY <1>2, <1>3, <1>4 DEF Fits, Counting, Registering
<1>6. /\ handler' \in [DeviceCalls -> DevRecord] /\ handler'[c] = r
      /\ (\A o \in DeviceCalls \ {c} : handler'[o] = handler[o]) /\ AllFit' /\ AllMet'
  BY <1>2, <1>4, <1>5, HandlerMoves DEF DevInv
<1>7. /\ device' \in [Dev -> [status : {"none", "active", "revoked"}, level : Levels]]
      /\ device'[d].status = "active" /\ device'[d].level = handler[c].level
      /\ \A e \in Dev \ {d} : device'[e] = device[e]
  BY <1>1, <1>3 DEF DevInv, DevTypeOK
<1>8. DevTypeOK' /\ ActivePasskeys' = ActivePasskeys
  BY <1>2, <1>6, <1>7 DEF DevInv, DevTypeOK, ActivePasskeys
<1>9. OnePasskey => OnePasskey'
  BY <1>2, <1>6, <1>8, OnePasskeyStays DEF Registering
<1>10. (Overlapped <=> Overlapped') /\ (RegistrationsMet <=> RegistrationsMet')
  BY <1>2 DEF Overlapped, RegistrationsMet, RemovalMetAnother
<1>11. ASSUME ~Overlapped PROVE PrimaryIsKept'
  <2>1. PrimaryIsKept /\ handler[c].level = "standard"
    BY <1>2, <1>11 DEF DevInv, PrimaryIsKept, GoesSafely
  <2>2. Primaries' = Primaries /\ d \notin Primaries
    BY <1>1, <1>7, <2>1 DEF Primaries, Active
  <2>3. \A o \in DeviceCalls \ {c} : handler[o].pc = "swap" => Active(handler[o].target)'
    <3>1. \A o \in DeviceCalls \ {c} : handler[o].pc = "swap" => Active(handler[o].target) /\ handler[o].target \in Dev
      BY <2>1, InFlightIsFull DEF DevInv, PrimaryIsKept, GoesSafely
    <3> QED BY <1>6, <1>7, <3>1 DEF Active
  <2>4. \A o \in DeviceCalls \ {c} : RevokesSafely(handler[o])' /\ GoesSafely(handler[o])'
    BY <1>6, <1>8, <2>1, <2>2, <2>3, OthersStaySafe
  <2>5. RevokesSafely(handler[c])' /\ GoesSafely(handler[c])' /\ \A e \in Dev : Uses(r, e) => e = d
    BY <1>4, <1>6, <2>1 DEF RevokesSafely, GoesSafely, Uses, Counting
  <2>6. Unseen(d) /\ \A o \in DeviceCalls : ~Uses(handler[o], d)
    BY <1>1, <2>1 DEF PrimaryIsKept, FreshAreUnknown
  <2>7. \A e \in Dev : device'[e].status = "none" => Unseen(e) /\ \A o \in DeviceCalls : ~Uses(handler'[o], e)
    BY <1>6, <1>7, <2>1, <2>5 DEF PrimaryIsKept, FreshAreUnknown
  <2>8. \A k \in DeviceCalls \ {c} : handler[k].pc = "key" =>
          /\ handler[k].target \in Dev \ {d} /\ handler[k].target \notin Primaries
          /\ device'[handler[k].target].status # "none" /\ Unseen(handler[k].target)
          /\ \A o \in DeviceCalls \ {k} : ~Uses(handler'[o], handler[k].target)
    <3> SUFFICES ASSUME NEW k \in DeviceCalls \ {c}, handler[k].pc = "key"
                 PROVE  /\ handler[k].target \in Dev \ {d} /\ handler[k].target \notin Primaries
                        /\ device'[handler[k].target].status # "none" /\ Unseen(handler[k].target)
                        /\ \A o \in DeviceCalls \ {k} : ~Uses(handler'[o], handler[k].target)
      OBVIOUS
    <3>1. /\ handler[k].target \in Dev /\ handler[k].target \notin Primaries
          /\ device[handler[k].target].status # "none" /\ Unseen(handler[k].target)
          /\ \A o \in DeviceCalls \ {k} : ~Uses(handler[o], handler[k].target)
      BY <2>1, InFlightIsFull DEF DevInv, PrimaryIsKept, FreshAreUnknown
    <3>2. handler[k].target # d
      BY <1>1, <3>1
    <3> QED BY <1>6, <1>7, <2>5, <3>1, <3>2
  <2>9. FreshAreUnknown'
    <3>1. \A o \in DeviceCalls \ {c} : ~Uses(handler'[o], d)
      BY <1>6, <2>6
    <3> QED BY <1>2, <1>4, <1>6, <1>7, <2>2, <2>6, <2>7, <2>8, <3>1 DEF FreshAreUnknown, Unseen, Uses
  <2> QED BY <2>1, <2>2, <2>4, <2>5, <2>9 DEF PrimaryIsKept
<1> QED BY <1>6, <1>8, <1>9, <1>10, <1>11 DEF DevInv

LEMMA CreatePasskeyKeepsInv == ASSUME DevInv, NEW c \in DeviceCalls, CreatePasskey(c) PROVE DevInv'
<1> DEFINE t == handler[c].target
           step == IF handler[c].op = "add" THEN "done" ELSE "session"
<1>1. /\ handler[c].pc = "key" /\ InFlight(c) /\ Goto(c, step) /\ UNCHANGED <<device, session, together>>
      /\ passkey' = [passkey EXCEPT ![t] = "active"]
  BY DEF CreatePasskey, At, InFlight
<1>2. t \in Dev /\ handler[c].op \in {"register", "add"} /\ step \in {"done", "session"}
  BY <1>1, InFlightIsFull DEF DevInv, AllFit, Fits, Registering
<1> HIDE DEF step
<1>3. step \in DevSteps \cup {"done"} /\ Fits(handler[c].op, step)
  BY <1>2 DEF DevSteps, Fits, Counting, Registering
<1>4. /\ handler' \in [DeviceCalls -> DevRecord] /\ handler'[c].pc = step
      /\ (\A o \in DeviceCalls \ {c} : handler'[o] = handler[o]) /\ AllFit' /\ AllMet'
      /\ step # "done" => handler'[c].target = t
  BY <1>1, <1>3, GotoGoesOn DEF DevInv
<1>5. DevTypeOK' /\ ActivePasskeys' = ActivePasskeys \cup {t}
  BY <1>1, <1>2, <1>4 DEF DevInv, DevTypeOK, ActivePasskeys
<1>6. (Overlapped <=> Overlapped') /\ (RegistrationsMet <=> RegistrationsMet')
  BY <1>1 DEF Overlapped, RegistrationsMet, RemovalMetAnother
<1>7. ASSUME OnePasskey, ~RegistrationsMet PROVE OnePasskey'
  <2>1. ActivePasskeys = {}
    BY <1>1, <1>7 DEF OnePasskey, Registering
  <2>2. \A o \in DeviceCalls : handler'[o].pc \notin Registering
    <3>1. ASSUME NEW o \in DeviceCalls \ {c}, handler[o].pc \in Registering PROVE FALSE
      <4>1. InFlight(o) /\ handler[o].op \in {"register", "add"}
        BY <3>1 DEF InFlight, Registering, DevInv, AllFit, Fits
      <4> QED BY <1>1, <1>2, <1>7, <4>1, NoOverlap DEF DevInv
    <3> QED BY <1>2, <1>4, <3>1 DEF Registering
  <2> QED BY <1>5, <2>1, <2>2 DEF OnePasskey
<1>8. ASSUME ~Overlapped PROVE PrimaryIsKept'
  <2>1. PrimaryIsKept
    BY <1>8 DEF DevInv
  <2>2. Primaries' = Primaries
    BY <1>1 DEF Primaries, Active
  <2>3. \A o \in DeviceCalls \ {c} : handler[o].pc = "swap" => Active(handler[o].target)'
    BY <1>1, <1>4, <2>1 DEF PrimaryIsKept, GoesSafely, Active
  <2>4. \A o \in DeviceCalls \ {c} : RevokesSafely(handler[o])' /\ GoesSafely(handler[o])'
    BY <1>4, <1>5, <2>1, <2>2, <2>3, OthersStaySafe
  <2>5. RevokesSafely(handler[c])' /\ GoesSafely(handler[c])'
    BY <1>2, <1>4 DEF RevokesSafely, GoesSafely, Counting
  <2>6. \A d \in Dev : Uses(handler'[c], d) => Uses(handler[c], d)
    BY <1>1, <1>2, <1>4 DEF Uses
  <2>7. FreshAreUnknown'
    <3>1. \A d \in Dev : device[d].status = "none" => Unseen(d) /\ \A o \in DeviceCalls : ~Uses(handler'[o], d)
      BY <1>4, <2>1, <2>6 DEF PrimaryIsKept, FreshAreUnknown
    <3>2. \A k \in DeviceCalls : handler'[k].pc = "key" =>
            /\ handler'[k].target \notin Primaries /\ device[handler'[k].target].status # "none"
            /\ Unseen(handler'[k].target)
            /\ \A o \in DeviceCalls \ {k} : ~Uses(handler'[o], handler'[k].target)
      <4> SUFFICES ASSUME NEW k \in DeviceCalls, handler'[k].pc = "key"
                   PROVE  /\ handler'[k].target \notin Primaries /\ device[handler'[k].target].status # "none"
                          /\ Unseen(handler'[k].target)
                          /\ \A o \in DeviceCalls \ {k} : ~Uses(handler'[o], handler'[k].target)
        OBVIOUS
      <4>1. k # c /\ handler'[k] = handler[k] /\ handler[k].target \in Dev
        BY <1>2, <1>4, InFlightIsFull DEF DevInv
      <4>2. \A o \in DeviceCalls \ {k} : ~Uses(handler[o], handler[k].target)
        BY <2>1, <4>1 DEF PrimaryIsKept, FreshAreUnknown
      <4>3. \A o \in DeviceCalls \ {k} : ~Uses(handler'[o], handler[k].target)
        BY <1>4, <2>6, <4>1, <4>2
      <4> QED BY <2>1, <4>1, <4>3 DEF PrimaryIsKept, FreshAreUnknown
    <3> QED BY <1>1, <2>2, <3>1, <3>2 DEF FreshAreUnknown, Unseen, Uses
  <2> QED BY <2>1, <2>2, <2>4, <2>5, <2>7 DEF PrimaryIsKept
<1> QED BY <1>4, <1>5, <1>6, <1>7, <1>8 DEF DevInv

LEMMA DropDeviceKeepsInv == ASSUME DevInv, NEW c \in DeviceCalls, DropDevice(c) PROVE DevInv'
<1> DEFINE t == handler[c].target
<1>1. /\ handler[c].pc = "key" /\ InFlight(c) /\ Goto(c, "done") /\ UNCHANGED <<passkey, session, together>>
      /\ device' = [device EXCEPT ![t] = Absent]
  BY DEF DropDevice, At, InFlight
<1>2. t \in Dev
  BY <1>1, InFlightIsFull DEF DevInv
<1>3. /\ handler' \in [DeviceCalls -> DevRecord] /\ handler'[c].pc = "done"
      /\ (\A o \in DeviceCalls \ {c} : handler'[o] = handler[o]) /\ AllFit' /\ AllMet'
  BY <1>1, GotoGoesOn DEF DevInv
<1>4. /\ device' \in [Dev -> [status : {"none", "active", "revoked"}, level : Levels]]
      /\ device'[t].status = "none" /\ \A d \in Dev \ {t} : device'[d] = device[d]
  BY <1>1, <1>2 DEF DevInv, DevTypeOK, Absent, Levels
<1>5. DevTypeOK' /\ ActivePasskeys' = ActivePasskeys
  BY <1>1, <1>3, <1>4 DEF DevInv, DevTypeOK, ActivePasskeys
<1>6. OnePasskey => OnePasskey'
  BY <1>3, <1>5, OnePasskeyStays DEF Registering
<1>7. (Overlapped <=> Overlapped') /\ (RegistrationsMet <=> RegistrationsMet')
  BY <1>1 DEF Overlapped, RegistrationsMet, RemovalMetAnother
<1>8. ASSUME ~Overlapped PROVE PrimaryIsKept'
  <2>1. PrimaryIsKept /\ OnePasskey
    BY <1>8 DEF DevInv, Overlapped
  <2>2. Primaries' = Primaries
    BY <1>1, <1>4, <2>1 DEF Primaries, Active, PrimaryIsKept, FreshAreUnknown
  <2>3. \A o \in DeviceCalls \ {c} : handler[o].pc # "swap"
    BY <1>1, <2>1 DEF PrimaryIsKept, GoesSafely, OnePasskey, Registering
  <2>4. \A o \in DeviceCalls \ {c} : RevokesSafely(handler[o])' /\ GoesSafely(handler[o])'
    BY <1>3, <1>5, <2>1, <2>2, <2>3, OthersStaySafe
  <2>5. RevokesSafely(handler[c])' /\ GoesSafely(handler[c])' /\ \A d \in Dev : ~Uses(handler'[c], d)
    BY <1>3 DEF RevokesSafely, GoesSafely, Uses, Counting
  <2>6. Unseen(t) /\ \A o \in DeviceCalls \ {c} : ~Uses(handler[o], t)
    BY <1>1, <2>1 DEF PrimaryIsKept, FreshAreUnknown
  <2>7. FreshAreUnknown'
    <3>1. \A d \in Dev : device'[d].status = "none" => Unseen(d) /\ \A o \in DeviceCalls : ~Uses(handler'[o], d)
      BY <1>3, <1>4, <2>1, <2>5, <2>6 DEF PrimaryIsKept, FreshAreUnknown
    <3>2. \A k \in DeviceCalls \ {c} : handler[k].pc = "key" =>
            /\ handler[k].target \in Dev \ {t} /\ handler[k].target \notin Primaries
            /\ device'[handler[k].target].status # "none" /\ Unseen(handler[k].target)
            /\ \A o \in DeviceCalls \ {k} : ~Uses(handler'[o], handler[k].target)
      <4> SUFFICES ASSUME NEW k \in DeviceCalls \ {c}, handler[k].pc = "key"
                   PROVE  /\ handler[k].target \in Dev \ {t} /\ handler[k].target \notin Primaries
                          /\ device'[handler[k].target].status # "none" /\ Unseen(handler[k].target)
                          /\ \A o \in DeviceCalls \ {k} : ~Uses(handler'[o], handler[k].target)
        OBVIOUS
      <4>1. /\ handler[k].target \in Dev /\ handler[k].target \notin Primaries
            /\ device[handler[k].target].status # "none" /\ Unseen(handler[k].target)
            /\ \A o \in DeviceCalls \ {k} : ~Uses(handler[o], handler[k].target)
        BY <2>1, InFlightIsFull DEF DevInv, PrimaryIsKept, FreshAreUnknown
      <4>2. handler[k].target # t
        BY <2>6 DEF Uses
      <4> QED BY <1>3, <1>4, <2>5, <4>1, <4>2
    <3> QED BY <1>1, <1>3, <2>2, <3>1, <3>2 DEF FreshAreUnknown, Unseen, Uses
  <2> QED BY <2>1, <2>2, <2>4, <2>5, <2>7 DEF PrimaryIsKept
<1> QED BY <1>3, <1>5, <1>6, <1>7, <1>8 DEF DevInv

LEMMA SessionKeepsInv == ASSUME DevInv, NEW c \in DeviceCalls, CreateSession(c) PROVE DevInv'
<1> DEFINE t == handler[c].target
<1>1. /\ handler[c].pc = "session" /\ InFlight(c) /\ Goto(c, "done") /\ UNCHANGED <<device, passkey, together>>
      /\ session' = [session EXCEPT ![c] = t]
  BY DEF CreateSession, At, InFlight
<1>2. t \in Dev
  BY <1>1, InFlightIsFull DEF DevInv
<1>3. /\ handler' \in [DeviceCalls -> DevRecord] /\ handler'[c].pc = "done"
      /\ (\A o \in DeviceCalls \ {c} : handler'[o] = handler[o]) /\ AllFit' /\ AllMet'
  BY <1>1, GotoGoesOn DEF DevInv
<1>4. /\ session' \in [DeviceCalls \cup {0} -> Dev \cup {0}]
      /\ \A s \in DeviceCalls \cup {0} : session'[s] \in {session[s], t}
  BY <1>1, <1>2 DEF DevInv, DevTypeOK
<1>5. DevTypeOK' /\ ActivePasskeys' = ActivePasskeys
  BY <1>1, <1>3, <1>4 DEF DevInv, DevTypeOK, ActivePasskeys
<1>6. OnePasskey => OnePasskey'
  BY <1>3, <1>5, OnePasskeyStays DEF Registering
<1>7. (Overlapped <=> Overlapped') /\ (RegistrationsMet <=> RegistrationsMet')
  BY <1>1 DEF Overlapped, RegistrationsMet, RemovalMetAnother
<1>8. ASSUME ~Overlapped PROVE PrimaryIsKept'
  <2>1. PrimaryIsKept
    BY <1>8 DEF DevInv
  <2>2. Primaries' = Primaries
    BY <1>1 DEF Primaries, Active
  <2>3. \A o \in DeviceCalls \ {c} : handler[o].pc = "swap" => Active(handler[o].target)'
    BY <1>1, <1>3, <2>1 DEF PrimaryIsKept, GoesSafely, Active
  <2>4. \A o \in DeviceCalls \ {c} : RevokesSafely(handler[o])' /\ GoesSafely(handler[o])'
    BY <1>3, <1>5, <2>1, <2>2, <2>3, OthersStaySafe
  <2>5. RevokesSafely(handler[c])' /\ GoesSafely(handler[c])' /\ \A d \in Dev : ~Uses(handler'[c], d)
    BY <1>3 DEF RevokesSafely, GoesSafely, Uses, Counting
  <2>6. \A d \in Dev \ {t} : Unseen(d) => Unseen(d)'
    BY <1>4 DEF Unseen
  <2>7. device[t].status # "none" /\ \A k \in DeviceCalls \ {c} : handler[k].pc = "key" => handler[k].target # t
    BY <1>1, <1>2, <2>1 DEF PrimaryIsKept, FreshAreUnknown, Uses
  <2>8. \A k \in DeviceCalls \ {c} : handler[k].pc = "key" => handler[k].target \in Dev
    BY InFlightIsFull DEF DevInv
  <2>9. FreshAreUnknown'
    <3>1. \A d \in Dev : device'[d].status = "none" => Unseen(d)' /\ \A o \in DeviceCalls : ~Uses(handler'[o], d)
      BY <1>1, <1>3, <2>1, <2>5, <2>6, <2>7 DEF PrimaryIsKept, FreshAreUnknown
    <3>2. \A k \in DeviceCalls : handler'[k].pc = "key" =>
            /\ handler'[k].target \notin Primaries' /\ device'[handler'[k].target].status # "none"
            /\ \A s \in DeviceCalls \cup {0} : session'[s] # handler'[k].target
            /\ \A o \in DeviceCalls \ {k} : ~Uses(handler'[o], handler'[k].target)
      BY <1>1, <1>3, <1>4, <2>1, <2>2, <2>5, <2>7, <2>8 DEF PrimaryIsKept, FreshAreUnknown, Unseen
    <3> QED BY <3>1, <3>2 DEF FreshAreUnknown, Unseen, Uses
  <2> QED BY <2>1, <2>2, <2>4, <2>5, <2>9 DEF PrimaryIsKept
<1> QED BY <1>3, <1>5, <1>6, <1>7, <1>8 DEF DevInv

LEMMA ApprovalKeepsInv == ASSUME DevInv, NEW c \in DeviceCalls, TrustByApproval(c) PROVE DevInv'
<1>1. PICK d \in Dev :
        /\ device[d].status = "none" /\ device' = [device EXCEPT ![d] = [status |-> "active", level |-> "standard"]]
        /\ session' = [session EXCEPT ![c] = d]
  BY DEF TrustByApproval
<1> DEFINE r == [pc |-> "done"]
<1>2. /\ handler[c].pc = "idle" /\ UNCHANGED <<passkey, together>> /\ handler' = [handler EXCEPT ![c] = r]
  BY DEF TrustByApproval, At, Goto
<1>3. r \in DevRecord /\ r.pc = "done"
  BY DEF DevRecord
<1> HIDE DEF r
<1>4. /\ handler' \in [DeviceCalls -> DevRecord] /\ handler'[c] = r
      /\ \A o \in DeviceCalls \ {c} : handler'[o] = handler[o]
  BY <1>2, <1>3 DEF DevInv, DevTypeOK
<1>5. AllFit' /\ AllMet'
  <2>1. \A o \in DeviceCalls : InFlight(o)' => o # c /\ InFlight(o)
    BY <1>3, <1>4 DEF InFlight
  <2>2. AllFit'
    BY <1>4, <2>1 DEF DevInv, AllFit, Fits
  <2>3. AllMet'
    BY <1>2, <1>4, <2>1 DEF DevInv, AllMet
  <2> QED BY <2>2, <2>3
<1>6. /\ device' \in [Dev -> [status : {"none", "active", "revoked"}, level : Levels]]
      /\ device'[d].status = "active" /\ device'[d].level = "standard"
      /\ \A e \in Dev \ {d} : device'[e] = device[e]
  BY <1>1 DEF DevInv, DevTypeOK, Levels
<1>7. /\ session' \in [DeviceCalls \cup {0} -> Dev \cup {0}]
      /\ \A s \in DeviceCalls \cup {0} : session'[s] \in {session[s], d}
  BY <1>1 DEF DevInv, DevTypeOK
<1>8. DevTypeOK' /\ ActivePasskeys' = ActivePasskeys
  BY <1>2, <1>4, <1>6, <1>7 DEF DevInv, DevTypeOK, ActivePasskeys
<1>9. OnePasskey => OnePasskey'
  BY <1>3, <1>4, <1>8, OnePasskeyStays DEF Registering
<1>10. (Overlapped <=> Overlapped') /\ (RegistrationsMet <=> RegistrationsMet')
  BY <1>2 DEF Overlapped, RegistrationsMet, RemovalMetAnother
<1>11. ASSUME ~Overlapped PROVE PrimaryIsKept'
  <2>1. PrimaryIsKept
    BY <1>11 DEF DevInv
  <2>2. Primaries' = Primaries
    BY <1>1, <1>6 DEF Primaries, Active
  <2>3. \A o \in DeviceCalls \ {c} : handler[o].pc = "swap" => Active(handler[o].target)'
    <3>1. \A o \in DeviceCalls \ {c} : handler[o].pc = "swap" => Active(handler[o].target) /\ handler[o].target \in Dev
      BY <2>1, InFlightIsFull DEF DevInv, PrimaryIsKept, GoesSafely
    <3> QED BY <1>4, <1>6, <3>1 DEF Active
  <2>4. \A o \in DeviceCalls \ {c} : RevokesSafely(handler[o])' /\ GoesSafely(handler[o])'
    BY <1>4, <1>8, <2>1, <2>2, <2>3, OthersStaySafe
  <2>5. RevokesSafely(handler[c])' /\ GoesSafely(handler[c])' /\ \A e \in Dev : ~Uses(handler'[c], e)
    BY <1>3, <1>4 DEF RevokesSafely, GoesSafely, Uses, Counting
  <2>6. \A e \in Dev \ {d} : Unseen(e) => Unseen(e)'
    BY <1>7 DEF Unseen
  <2>7. \A k \in DeviceCalls \ {c} : handler[k].pc = "key" => handler[k].target \in Dev \ {d}
    BY <1>1, <2>1, InFlightIsFull DEF DevInv, PrimaryIsKept, FreshAreUnknown
  <2>8. FreshAreUnknown'
    <3>1. \A e \in Dev : device'[e].status = "none" => Unseen(e)' /\ \A o \in DeviceCalls : ~Uses(handler'[o], e)
      BY <1>4, <1>6, <2>1, <2>5, <2>6 DEF PrimaryIsKept, FreshAreUnknown
    <3>2. \A k \in DeviceCalls : handler'[k].pc = "key" =>
            /\ handler'[k].target \notin Primaries' /\ device'[handler'[k].target].status # "none"
            /\ \A s \in DeviceCalls \cup {0} : session'[s] # handler'[k].target
            /\ \A o \in DeviceCalls \ {k} : ~Uses(handler'[o], handler'[k].target)
      BY <1>3, <1>4, <1>6, <1>7, <2>1, <2>2, <2>5, <2>7 DEF PrimaryIsKept, FreshAreUnknown, Unseen
    <3> QED BY <3>1, <3>2 DEF FreshAreUnknown, Unseen, Uses
  <2> QED BY <2>1, <2>2, <2>4, <2>5, <2>8 DEF PrimaryIsKept
<1> QED BY <1>4, <1>5, <1>8, <1>9, <1>10, <1>11 DEF DevInv

LEMMA StartKeepsInv == ASSUME DevInv, NEW c \in DeviceCalls, StartDeviceCall(c) PROVE DevInv'
<1>1. PICK op \in Ops : \E a \in Dev : \E t \in Dev :
        /\ CanStart(op, a, t)
        /\ handler' = [handler EXCEPT ![c] =
             [op |-> op, pc |-> FirstStep(op), actor |-> a, target |-> t, pick |-> 0, level |-> "standard"]]
        /\ together' = together \cup {{op, handler[o].op} : o \in {o \in DeviceCalls : InFlight(o)}}
  BY DEF StartDeviceCall
<1>2. PICK a \in Dev : \E t \in Dev :
        /\ CanStart(op, a, t)
        /\ handler' = [handler EXCEPT ![c] =
             [op |-> op, pc |-> FirstStep(op), actor |-> a, target |-> t, pick |-> 0, level |-> "standard"]]
  BY <1>1
<1>3. PICK t \in Dev :
        /\ CanStart(op, a, t)
        /\ handler' = [handler EXCEPT ![c] =
             [op |-> op, pc |-> FirstStep(op), actor |-> a, target |-> t, pick |-> 0, level |-> "standard"]]
  BY <1>2
<1>4. /\ handler[c].pc = "idle" /\ UNCHANGED <<device, passkey, session>> /\ together \subseteq together'
      /\ \A o \in DeviceCalls : InFlight(o) => {op, handler[o].op} \in together'
  BY <1>1 DEF StartDeviceCall, At
<1> DEFINE pc == FirstStep(op)
           r == [op |-> op, pc |-> pc, actor |-> a, target |-> t, pick |-> 0, level |-> "standard"]
<1>5. /\ pc \in {"read", "ensure", "one", "rebind", "first", "credential"} /\ Fits(op, pc)
      /\ (pc = "ensure" => op # "revoke") /\ (pc = "rebind" => op = "bind")
  BY DEF FirstStep, Ops, Fits, Counting, Registering
<1> HIDE DEF pc
<1>6. /\ handler' = [handler EXCEPT ![c] = r] /\ r \in DevRecord /\ r.op = op /\ r.pc = pc /\ r.actor = a
  BY <1>3, <1>5 DEF DevRecord, DevSteps, Counting, Levels, pc
<1> HIDE DEF r
<1>7. /\ handler' \in [DeviceCalls -> DevRecord] /\ handler'[c] = r
      /\ \A o \in DeviceCalls \ {c} : handler'[o] = handler[o]
  BY <1>6 DEF DevInv, DevTypeOK
<1>8. DevTypeOK' /\ ActivePasskeys' = ActivePasskeys
  BY <1>4, <1>7 DEF DevInv, DevTypeOK, ActivePasskeys
<1>9. AllFit'
  <2>1. \A o \in DeviceCalls \ {c} : InFlight(o)' => InFlight(o)
    BY <1>7 DEF InFlight
  <2> QED BY <1>5, <1>6, <1>7, <2>1 DEF DevInv, AllFit, Fits
<1>10. AllMet'
  <2>1. ASSUME NEW x \in DeviceCalls, NEW y \in DeviceCalls \ {x}, InFlight(x)', InFlight(y)'
        PROVE  {handler'[x].op, handler'[y].op} \in together'
    <3>1. CASE x = c
      <4>1. InFlight(y) /\ handler'[y] = handler[y]
        BY <1>7, <2>1, <3>1 DEF InFlight
      <4> QED BY <1>4, <1>6, <1>7, <3>1, <4>1
    <3>2. CASE y = c
      <4>1. InFlight(x) /\ handler'[x] = handler[x]
        BY <1>7, <2>1, <3>2 DEF InFlight
      <4>2. {handler'[x].op, handler'[y].op} = {op, handler[x].op}
        BY <1>6, <1>7, <3>2, <4>1
      <4> QED BY <1>4, <4>1, <4>2
    <3>3. CASE x # c /\ y # c
      <4>1. InFlight(x) /\ handler'[x] = handler[x] /\ InFlight(y) /\ handler'[y] = handler[y]
        BY <1>7, <2>1, <3>3 DEF InFlight
      <4>2. {handler[x].op, handler[y].op} \in together
        BY <4>1 DEF DevInv, AllMet
      <4> QED BY <1>4, <4>1, <4>2
    <3> QED BY <3>1, <3>2, <3>3
  <2> QED BY <2>1 DEF AllMet
<1>11. (RegistrationsMet => RegistrationsMet') /\ (Overlapped => Overlapped')
  BY <1>4, OverlapStays
<1>12. OnePasskey => OnePasskey'
  <2>1. handler'[c].pc \notin Registering
    BY <1>5, <1>6, <1>7 DEF Registering
  <2> QED BY <1>7, <1>8, <2>1, OnePasskeyStays
<1>13. ASSUME PrimaryIsKept PROVE PrimaryIsKept'
  <2>1. Primaries' = Primaries
    BY <1>4 DEF Primaries, Active
  <2>2. \A o \in DeviceCalls \ {c} : RevokesSafely(handler[o])' /\ GoesSafely(handler[o])'
    <3>1. \A o \in DeviceCalls \ {c} : handler[o].pc = "swap" => Active(handler[o].target)'
      BY <1>4, <1>7, <1>13 DEF PrimaryIsKept, GoesSafely, Active
    <3> QED BY <1>7, <1>8, <1>13, <2>1, <3>1, OthersStaySafe
  <2>3. RevokesSafely(handler[c])' /\ GoesSafely(handler[c])'
    BY <1>5, <1>6, <1>7 DEF RevokesSafely, GoesSafely, Counting
  <2>4. \A d \in Dev : Uses(handler'[c], d) => d = a /\ op = "bind"
    BY <1>5, <1>6, <1>7 DEF Uses
  <2>5. op = "bind" => device[a].status # "none" /\ ~Unseen(a)
    BY <1>3 DEF CanStart, SignedInOn, Active, Unseen
  <2>6. FreshAreUnknown'
    <3>1. \A d \in Dev : device[d].status = "none" => Unseen(d) /\ \A o \in DeviceCalls : ~Uses(handler'[o], d)
      BY <1>7, <1>13, <2>4, <2>5 DEF PrimaryIsKept, FreshAreUnknown
    <3>2. \A k \in DeviceCalls : handler'[k].pc = "key" =>
            /\ handler'[k].target \notin Primaries /\ device[handler'[k].target].status # "none"
            /\ Unseen(handler'[k].target)
            /\ \A o \in DeviceCalls \ {k} : ~Uses(handler'[o], handler'[k].target)
      <4> SUFFICES ASSUME NEW k \in DeviceCalls, handler'[k].pc = "key"
                   PROVE  /\ handler'[k].target \notin Primaries /\ device[handler'[k].target].status # "none"
                          /\ Unseen(handler'[k].target)
                          /\ \A o \in DeviceCalls \ {k} : ~Uses(handler'[o], handler'[k].target)
        OBVIOUS
      <4>1. k # c /\ handler'[k] = handler[k] /\ handler[k].target \in Dev
        BY <1>5, <1>6, <1>7, InFlightIsFull DEF DevInv
      <4>2. Unseen(handler[k].target) /\ \A o \in DeviceCalls \ {k} : ~Uses(handler[o], handler[k].target)
        BY <1>13, <4>1 DEF PrimaryIsKept, FreshAreUnknown
      <4>3. \A o \in DeviceCalls \ {k} : ~Uses(handler'[o], handler[k].target)
        BY <1>7, <2>4, <2>5, <4>1, <4>2
      <4> QED BY <1>13, <4>1, <4>2, <4>3 DEF PrimaryIsKept, FreshAreUnknown
    <3> QED BY <1>4, <2>1, <3>1, <3>2 DEF FreshAreUnknown, Unseen, Uses
  <2> QED BY <1>13, <2>1, <2>2, <2>3, <2>6 DEF PrimaryIsKept
<1> QED BY <1>8, <1>9, <1>10, <1>11, <1>12, <1>13 DEF DevInv

LEMMA DevNextKeepsInv == DevInv /\ [DevNext]_devVars => DevInv'
<1> SUFFICES ASSUME DevInv, [DevNext]_devVars PROVE DevInv'
  OBVIOUS
<1>1. ASSUME NEW c \in DeviceCalls, DevStep(c) PROVE DevInv'
  BY <1>1, StartKeepsInv, CountKeepsInv, FindOldestKeepsInv, CrownKeepsInv, ReadTargetKeepsInv, RevokeKeepsInv,
     SwapKeepsInv, ReadCredentialKeepsInv, RemoveKeepsInv, ChooseLevelKeepsInv, CreateDeviceKeepsInv,
     CreatePasskeyKeepsInv, DropDeviceKeepsInv, SessionKeepsInv, UnlockKeepsInv, RebindKeepsInv, ApprovalKeepsInv
     DEF DevStep
<1>2. CASE UNCHANGED devVars
  BY <1>2 DEF devVars, DevInv, DevTypeOK, AllFit, AllMet, InFlight, RegistrationsMet, RemovalMetAnother, Overlapped,
     OnePasskey, ActivePasskeys, PrimaryIsKept, Primaries, Active, FreshAreUnknown, Unseen, RevokesSafely, GoesSafely
<1> QED BY <1>1, <1>2 DEF DevNext

(* The invariant of the account's devices and passkeys.                     *)
THEOREM DevicesInvariant == DevSpec => []DevInv
<1>1. DevInit => DevInv
  <2> SUFFICES ASSUME DevInit PROVE DevInv
    OBVIOUS
  <2>1. PICK key \in {"active", "none"} : \E trusted \in {{1}, {1, 2}} :
          /\ device = [d \in Dev |-> IF d \notin trusted THEN Absent
                                     ELSE [status |-> "active", level |-> IF d = 1 THEN "primary" ELSE "standard"]]
          /\ passkey = [d \in Dev |-> IF d = 1 THEN key ELSE "none"]
    BY DEF DevInit
  <2>2. PICK trusted \in {{1}, {1, 2}} :
          device = [d \in Dev |-> IF d \notin trusted THEN Absent
                                 ELSE [status |-> "active", level |-> IF d = 1 THEN "primary" ELSE "standard"]]
    BY <2>1
  <2>3. /\ session = [s \in DeviceCalls \cup {0} |-> IF s = 0 THEN 1 ELSE 0]
        /\ handler = [c \in DeviceCalls |-> [pc |-> "idle"]] /\ 1 \in Dev /\ 1 \in trusted
    BY DevicesAssumption DEF DevInit, Dev
  <2>4. \A c \in DeviceCalls : handler[c] \in DevRecord /\ handler[c].pc = "idle"
    BY <2>3 DEF DevRecord
  <2>5. /\ device \in [Dev -> [status : {"none", "active", "revoked"}, level : Levels]]
        /\ device[1].status = "active" /\ device[1].level = "primary"
    BY <2>2, <2>3 DEF Absent, Levels
  <2>6. passkey \in [Dev -> {"none", "active", "revoked"}] /\ ActivePasskeys \subseteq {1}
    BY <2>1 DEF ActivePasskeys
  <2>7. DevTypeOK
    <3>1. session \in [DeviceCalls \cup {0} -> Dev \cup {0}] /\ handler \in [DeviceCalls -> DevRecord]
      BY <2>3, <2>4
    <3> QED BY <2>5, <2>6, <3>1 DEF DevTypeOK
  <2>8. AllFit /\ AllMet
    BY <2>4 DEF AllFit, AllMet, InFlight
  <2>9. OnePasskey
    BY <2>4, <2>6 DEF OnePasskey, Registering
  <2>10. FreshAreUnknown
    <3>1. \A d \in Dev : device[d].status = "none" => Unseen(d)
      BY <2>3, <2>5, DevicesAssumption DEF Unseen, Dev
    <3> QED BY <2>4, <3>1 DEF FreshAreUnknown, Uses
  <2>11. PrimaryIsKept
    BY <2>3, <2>4, <2>5, <2>10 DEF PrimaryIsKept, Primaries, Active, RevokesSafely, GoesSafely, Counting
  <2> QED BY <2>7, <2>8, <2>9, <2>11 DEF DevInv
<1> QED BY <1>1, DevNextKeepsInv, PTL DEF DevSpec

(* Whatever revocations, promotions, removals, registrations, logins and    *)
(* bindings do to the devices of an account, a primary remains unless a     *)
(* revocation or a passkey removal overlapped another operation, or two     *)
(* registrations overlapped; and only the latter makes a second passkey.    *)
(* Stated for any number of calls and devices.                              *)
THEOREM DevicesAreSoundHolds == DevSpec => []DevicesAreSound
<1>1. DevInv => DevicesAreSound
  <2> SUFFICES ASSUME DevInv PROVE KeepsPrimary /\ SinglePasskey
    BY DEF DevicesAreSound
  <2>1. KeepsPrimary
    BY DEF DevInv, KeepsPrimary, Overlapped, PrimaryIsKept
  <2>2. ASSUME OnePasskey PROVE ~(Cardinality(ActivePasskeys) > 1)
    <3>1. CASE ActivePasskeys = {}
      BY <3>1, FS_EmptySet
    <3>2. CASE ActivePasskeys # {}
      <4>1. PICK d \in ActivePasskeys : TRUE
        BY <3>2
      <4>2. ActivePasskeys = {d}
        BY <2>2, <4>1 DEF OnePasskey
      <4>3. Cardinality({d}) = 1
        BY FS_Singleton
      <4> QED BY <4>2, <4>3
    <3> QED BY <3>1, <3>2
  <2> QED BY <2>1, <2>2 DEF DevInv, SinglePasskey
<1> QED BY <1>1, DevicesInvariant, PTL

-----------------------------------------------------------------------------
(* Sign-in by face: whose session opens, and who is registered *)

SignPcs == {"fuse", "evaluate", "install", "session", "plain", "approval", "occupancy", "mint", "first"}

SignRecord ==
  [pc : {"idle", "done"}]
    \cup [op : {"lookup", "ambient", "verify"}, pc : SignPcs, face : Answers, print : Answers,
          clear : BOOLEAN, who : Persons \cup {"nobody"}]

SignTypeOK ==
  /\ standing \in [master : BOOLEAN, owner : Persons \cup {"nobody", "new"}]
  /\ signIn \in [SignCalls -> SignRecord]

(* The terminal is the person's own, or was when the call looked.           *)
OwnTerminal(c) ==
  \/ standing.master /\ signIn[c].who = "u"
  \/ standing.owner = signIn[c].who
  \/ c \in shifted

(* What a call has found out by the time it opens a session or registers.   *)
StepsOK(c) ==
  /\ signIn[c].pc \in {"evaluate", "install", "session"} => signIn[c].who \in Persons
  /\ signIn[c].pc = "session" => OwnTerminal(c)
  /\ signIn[c].pc \in {"occupancy", "mint"} =>
       signIn[c].face = "no_match" /\ signIn[c].print \in {"absent", "no_match"}

SignInv ==
  /\ SignTypeOK
  /\ \A c \in SignCalls : StepsOK(c)
  /\ registered \subseteq {"no_match"} \X {"absent", "no_match"}

LEMMA SignInitInv == SignInit => SignInv
  BY DEF SignInit, SignInv, SignTypeOK, SignRecord, StepsOK

(* A call moves on: what the others know stays true.                        *)
LEMMA SignMoves ==
  ASSUME SignInv, NEW c \in SignCalls, NEW r \in SignRecord, signIn' = [signIn EXCEPT ![c] = r],
         UNCHANGED <<standing, shifted>>,
         r.pc \in {"evaluate", "install", "session"} => r.who \in Persons,
         r.pc = "session" => \/ standing.master /\ r.who = "u"
                             \/ standing.owner = r.who
                             \/ c \in shifted,
         r.pc \in {"occupancy", "mint"} => r.face = "no_match" /\ r.print \in {"absent", "no_match"},
         registered' \subseteq {"no_match"} \X {"absent", "no_match"}
  PROVE  SignInv'
<1>1. SignTypeOK'
  BY DEF SignInv, SignTypeOK
<1>2. ASSUME NEW d \in SignCalls PROVE StepsOK(d)'
  <2>1. CASE d = c
    <3>1. signIn'[d] = r
      BY <2>1 DEF SignInv, SignTypeOK
    <3> QED BY <3>1, <2>1 DEF StepsOK, OwnTerminal
  <2>2. CASE d # c
    <3>1. signIn'[d] = signIn[d]
      BY <2>2 DEF SignInv, SignTypeOK
    <3> QED BY <3>1 DEF StepsOK, OwnTerminal, SignInv
  <2> QED BY <2>1, <2>2
<1> QED BY <1>1, <1>2 DEF SignInv

(* A call that ends knows nothing more.                                     *)
LEMMA SignEnds ==
  ASSUME SignInv, NEW c \in SignCalls, Sign(c, "done"), UNCHANGED <<standing, shifted, registered>>
  PROVE  SignInv'
<1>1. [pc |-> "done"] \in SignRecord
  BY DEF SignRecord
<1>2. signIn' = [signIn EXCEPT ![c] = [pc |-> "done"]]
  BY DEF Sign
<1>3. registered' \subseteq {"no_match"} \X {"absent", "no_match"}
  BY DEF SignInv
<1> QED BY <1>1, <1>2, <1>3, SignMoves

(* A busy call that goes to another step keeps its record.                  *)
LEMMA SignGoes ==
  ASSUME SignInv, NEW c \in SignCalls, NEW pc \in SignPcs, SBusy(c), Sign(c, pc)
  PROVE  /\ [signIn[c] EXCEPT !.pc = pc] \in SignRecord
         /\ signIn' = [signIn EXCEPT ![c] = [signIn[c] EXCEPT !.pc = pc]]
         /\ [signIn[c] EXCEPT !.pc = pc].pc = pc
         /\ [signIn[c] EXCEPT !.pc = pc].who = signIn[c].who
         /\ [signIn[c] EXCEPT !.pc = pc].face = signIn[c].face
         /\ [signIn[c] EXCEPT !.pc = pc].print = signIn[c].print
<1>1. signIn[c] \in [op : {"lookup", "ambient", "verify"}, pc : SignPcs, face : Answers, print : Answers,
                     clear : BOOLEAN, who : Persons \cup {"nobody"}]
  BY DEF SignInv, SignTypeOK, SignRecord, SBusy
<1>2. pc # "done"
  BY DEF SignPcs
<1>3. signIn' = [signIn EXCEPT ![c] = [signIn[c] EXCEPT !.pc = pc]]
  BY <1>2 DEF Sign, SignInv, SignTypeOK
<1> QED BY <1>1, <1>3 DEF SignRecord

LEMMA SignNextInv == SignInv /\ [SignNext]_signVars => SignInv'
<1> SUFFICES ASSUME SignInv, [SignNext]_signVars PROVE SignInv'
  OBVIOUS
<1>1. CASE UNCHANGED signVars
  BY <1>1 DEF signVars, SignInv, SignTypeOK, StepsOK, OwnTerminal
<1>2. CASE StandingChanges
  <2>1. SignTypeOK'
    BY <1>2 DEF StandingChanges, SignInv, SignTypeOK
  <2>2. ASSUME NEW d \in SignCalls PROVE StepsOK(d)'
    BY <1>2 DEF StandingChanges, SignInv, StepsOK, OwnTerminal, SBusy
  <2> QED BY <1>2, <2>1, <2>2 DEF StandingChanges, SignInv
<1>3. ASSUME NEW c \in SignCalls, NEW op \in {"lookup", "ambient", "verify"}, StartSignIn(c, op) PROVE SignInv'
  <2>1. PICK face \in Answers, print \in Answers, clear \in BOOLEAN :
          signIn' = [signIn EXCEPT ![c] =
            [op |-> op, pc |-> "fuse", face |-> face, print |-> print, clear |-> clear, who |-> "nobody"]]
    BY <1>3 DEF StartSignIn
  <2>2. [op |-> op, pc |-> "fuse", face |-> face, print |-> print, clear |-> clear, who |-> "nobody"] \in SignRecord
    BY DEF SignRecord, SignPcs
  <2>3. registered' \subseteq {"no_match"} \X {"absent", "no_match"}
    BY <1>3 DEF StartSignIn, OnlySign, SignInv
  <2> QED BY <1>3, <2>1, <2>2, <2>3, SignMoves DEF StartSignIn, OnlySign
<1>4. ASSUME NEW c \in SignCalls, Fuse(c) PROVE SignInv'
  <2> DEFINE r == [signIn[c] EXCEPT !.pc = "evaluate", !.who = Winner(c)]
  <2>1. Recognised(c) # {}
    BY <1>4, FS_EmptySet DEF Fuse
  <2>2. Winner(c) \in Persons
    BY <2>1 DEF Winner, Recognised
  <2>3. signIn[c] \in [op : {"lookup", "ambient", "verify"}, pc : SignPcs, face : Answers, print : Answers,
                       clear : BOOLEAN, who : Persons \cup {"nobody"}]
    BY <1>4 DEF Fuse, SignInv, SignTypeOK, SignRecord
  <2>4. r \in SignRecord /\ r.pc = "evaluate" /\ r.who = Winner(c)
    BY <2>2, <2>3 DEF SignRecord, SignPcs
  <2>5. signIn' = [signIn EXCEPT ![c] = r]
    BY <1>4 DEF Fuse, SignInv, SignTypeOK
  <2>6. registered' \subseteq {"no_match"} \X {"absent", "no_match"} /\ UNCHANGED <<standing, shifted>>
    BY <1>4 DEF Fuse, OnlySign, SignInv
  <2> HIDE DEF r
  <2> QED BY <2>2, <2>4, <2>5, <2>6, SignMoves
<1>5. ASSUME NEW c \in SignCalls, NobodyMatches(c) PROVE SignInv'
  <2>1. registered' \subseteq {"no_match"} \X {"absent", "no_match"} /\ UNCHANGED <<standing, shifted, registered>>
    BY <1>5 DEF NobodyMatches, OnlySign, SignInv
  <2>2. CASE ~MayEnrol(c)
    BY <1>5, <2>1, <2>2, SignEnds DEF NobodyMatches
  <2>3. CASE MayEnrol(c)
    <3> DEFINE r == [signIn[c] EXCEPT !.pc = "occupancy"]
    <3>1. SBusy(c) /\ Sign(c, "occupancy") /\ "occupancy" \in SignPcs
      BY <1>5, <2>3 DEF NobodyMatches, SBusy, SignPcs
    <3>2. signIn[c].face = "no_match" /\ signIn[c].print \in {"absent", "no_match"}
      BY <2>3 DEF MayEnrol, GenuineNoMatch
    <3>3. /\ r \in SignRecord /\ r.pc = "occupancy" /\ r.face = signIn[c].face /\ r.print = signIn[c].print
          /\ signIn' = [signIn EXCEPT ![c] = r]
      BY <3>1, SignGoes
    <3> HIDE DEF r
    <3> QED BY <2>1, <3>2, <3>3, SignMoves
  <2> QED BY <2>2, <2>3
<1>6. ASSUME NEW c \in SignCalls, EvaluateMaster(c) \/ EvaluateInstall(c) PROVE SignInv'
  <2>1. PICK pc \in {"session", "plain", "install", "approval"} :
          /\ Sign(c, pc)
          /\ pc = "session" => (standing.master /\ signIn[c].who = "u") \/ standing.owner = signIn[c].who
    BY <1>6 DEF EvaluateMaster, EvaluateInstall
  <2> DEFINE r == [signIn[c] EXCEPT !.pc = pc]
  <2>2. SBusy(c) /\ pc \in SignPcs /\ signIn[c].who \in Persons
    BY <1>6 DEF EvaluateMaster, EvaluateInstall, SBusy, SignPcs, SignInv, StepsOK
  <2>3. r \in SignRecord /\ r.pc = pc /\ r.who = signIn[c].who /\ signIn' = [signIn EXCEPT ![c] = r]
    BY <2>1, <2>2, SignGoes
  <2>4. registered' \subseteq {"no_match"} \X {"absent", "no_match"} /\ UNCHANGED <<standing, shifted>>
    BY <1>6 DEF EvaluateMaster, EvaluateInstall, OnlySign, SignInv
  <2> HIDE DEF r
  <2> QED BY <2>1, <2>2, <2>3, <2>4, SignMoves
<1>7. ASSUME NEW c \in SignCalls,
             OpenMasterSession(c) \/ OpenPlainSession(c) \/ AskMaster(c) \/ OpenFirstSession(c)
      PROVE  SignInv'
  BY <1>7, SignEnds DEF OpenMasterSession, OpenPlainSession, AskMaster, OpenFirstSession, OnlySign
<1>8. ASSUME NEW c \in SignCalls, CheckOccupancy(c) PROVE SignInv'
  <2>1. CASE standing.owner # "nobody"
    BY <1>8, <2>1, SignEnds DEF CheckOccupancy, OnlySign
  <2>2. CASE standing.owner = "nobody"
    <3> DEFINE r == [signIn[c] EXCEPT !.pc = "mint"]
    <3>1. SBusy(c) /\ Sign(c, "mint") /\ "mint" \in SignPcs
      BY <1>8, <2>2 DEF CheckOccupancy, SBusy, SignPcs
    <3>2. signIn[c].face = "no_match" /\ signIn[c].print \in {"absent", "no_match"}
      BY <1>8 DEF CheckOccupancy, SignInv, StepsOK
    <3>3. /\ r \in SignRecord /\ r.pc = "mint" /\ r.face = signIn[c].face /\ r.print = signIn[c].print
          /\ signIn' = [signIn EXCEPT ![c] = r]
      BY <3>1, SignGoes
    <3>4. registered' \subseteq {"no_match"} \X {"absent", "no_match"} /\ UNCHANGED <<standing, shifted>>
      BY <1>8 DEF CheckOccupancy, OnlySign, SignInv
    <3> HIDE DEF r
    <3> QED BY <3>2, <3>3, <3>4, SignMoves
  <2> QED BY <2>1, <2>2
<1>9. ASSUME NEW c \in SignCalls, MintIdentity(c) PROVE SignInv'
  <2>1. CASE standing.owner # "nobody"
    BY <1>9, <2>1, SignEnds DEF MintIdentity
  <2>2. CASE standing.owner = "nobody"
    <3> DEFINE r == [signIn[c] EXCEPT !.pc = "first"]
    <3>1. SBusy(c) /\ Sign(c, "first") /\ "first" \in SignPcs
      BY <1>9, <2>2 DEF MintIdentity, SBusy, SignPcs
    <3>2. r \in SignRecord /\ r.pc = "first" /\ signIn' = [signIn EXCEPT ![c] = r]
      BY <3>1, SignGoes
    <3> HIDE DEF r
    <3>3. standing' = [standing EXCEPT !.owner = "new"] /\ UNCHANGED shifted
      BY <1>9, <2>2 DEF MintIdentity
    <3>4. SignTypeOK'
      BY <3>2, <3>3 DEF SignInv, SignTypeOK
    <3>5. registered' \subseteq {"no_match"} \X {"absent", "no_match"}
      BY <1>9, <2>2 DEF MintIdentity, SignInv, StepsOK
    <3>6. ASSUME NEW d \in SignCalls PROVE StepsOK(d)'
      <4>1. CASE d = c
        <5>1. signIn'[d] = r
          BY <3>2, <4>1 DEF SignInv, SignTypeOK
        <5> QED BY <5>1, <3>2 DEF StepsOK
      <4>2. CASE d # c
        <5>1. signIn'[d] = signIn[d] /\ standing'.master = standing.master
          BY <3>2, <3>3, <4>2 DEF SignInv, SignTypeOK
        <5>2. signIn[d].pc = "session" => standing.owner # signIn[d].who
          BY <2>2 DEF SignInv, StepsOK, Persons
        <5> QED BY <5>1, <5>2, <3>3 DEF StepsOK, OwnTerminal, SignInv
      <4> QED BY <4>1, <4>2
    <3> QED BY <3>4, <3>5, <3>6 DEF SignInv
  <2> QED BY <2>1, <2>2
<1> QED
  BY <1>1, <1>2, <1>3, <1>4, <1>5, <1>6, <1>7, <1>8, <1>9
  DEF SignNext, LookUpFace, SignInAmbiently, VerifyBiometric

(* Only the call that opens its session shows up as a new one.              *)
LEMMA MasterStep == SignInv /\ [SignNext]_signVars => MasterOnOwnTerminal
<1> SUFFICES ASSUME SignInv, [SignNext]_signVars, NEW c \in SignCalls, <<c, "master">> \in opened' \ opened
             PROVE  OwnTerminal(c)
  BY DEF MasterOnOwnTerminal, OwnTerminal
<1>1. PICK d \in SignCalls : OpenMasterSession(d) \/ OpenPlainSession(d) \/ OpenFirstSession(d)
  BY DEF SignNext, signVars, StandingChanges, LookUpFace, SignInAmbiently, VerifyBiometric, StartSignIn,
     Fuse, NobodyMatches, EvaluateMaster, EvaluateInstall, AskMaster, CheckOccupancy, MintIdentity, OnlySign
<1>2. OpenMasterSession(d) /\ d = c
  BY <1>1 DEF OpenMasterSession, OpenPlainSession, OpenFirstSession, OpenSession
<1> QED BY <1>2 DEF OpenMasterSession, SignInv, StepsOK

(* SignInIsSound: a master session opens on the person's own terminal, or   *)
(* one that stopped being so while the call ran, and no identity is made    *)
(* for a face or print that was recognised or could not be judged           *)
(* (ambientSignInAndSession, matchMultiModalFusion).                        *)
THEOREM SignInIsSoundHolds == SignSpec => SignInIsSound
<1>1. SignInv /\ [SignNext]_signVars /\ SignInv' => [MasterOnOwnTerminal /\ MintsOnlyUnknown]_signVars
  BY MasterStep DEF SignInv, MintsOnlyUnknown
<1> QED BY <1>1, SignInitInv, SignNextInv, PTL DEF SignSpec, SignInIsSound

-----------------------------------------------------------------------------
(* Signing in without a form *)

Kinds == {"none", "mount", "button", "oob", "create", "logout", "passkey", "face", "late"}

Pcs == {"idle", "capture", "options", "prompt", "verify", "poll", "enrol", "revoke",
        "answered", "read", "refreshed"}

RunRecord == [kind : Kinds, pc : Pcs, who : LoginPeople \cup {NoOne}, stale : BOOLEAN]

(* A call holds what the session was, or reads it next.                     *)
Knows(r) == r.pc \in {"answered", "refreshed"}
WillTell(r) == r.pc \in {"answered", "read", "refreshed"}

LoginTypeOK ==
  /\ run \in [LoginRuns -> RunRecord]
  /\ cookie \in LoginPeople \cup {NoOne} /\ shown \in LoginPeople \cup {NoOne}
  /\ \A k \in LoginRuns : run[k].kind = "logout" <=> run[k].pc = "revoke"
  /\ hook = "none" => loading /\ \A k \in LoginRuns : run[k].pc = "idle"

(* As long as nothing went wrong, an answer that is not stale names the     *)
(* session, the page is empty while a logout is on its way, and a page that *)
(* shows something else is about to be told.                                *)
LoginInv ==
  causes = {} =>
    /\ \A k \in LoginRuns : Knows(run[k]) /\ ~run[k].stale => run[k].who = cookie
    /\ (\E k \in LoginRuns : run[k].kind = "logout") => shown = NoOne
    /\ \/ loading \/ shown = cookie
       \/ \E k \in LoginRuns : WillTell(run[k]) \/ run[k].kind = "logout"

(* A passkey ceremony that is not over.                                     *)
Ceremony(r) == r.kind = "passkey" /\ r.pc # "read" /\ r.pc # "refreshed"

SlotInv == dropped \/ \A k \in LoginRuns : Ceremony(run[k]) => inflight = k

SilentInv == LoginTypeOK /\ LoginInv /\ SlotInv

LEMMA NoLoginFacts ==
  /\ NoLogin \in RunRecord /\ NoLogin.kind = "none" /\ NoLogin.pc = "idle"
  /\ ~Knows(NoLogin) /\ ~WillTell(NoLogin) /\ ~Ceremony(NoLogin)
  BY DEF NoLogin, RunRecord, Kinds, Pcs, Knows, WillTell, Ceremony

LEMMA FreshFacts ==
  ASSUME NEW kind \in Kinds, NEW pc \in Pcs
  PROVE  Fresh(kind, pc) \in RunRecord /\ Fresh(kind, pc).kind = kind /\ Fresh(kind, pc).pc = pc
  BY DEF Fresh, NoLogin, RunRecord

LEMMA SilentInitInv == SilentInit => SilentInv
<1> SUFFICES ASSUME SilentInit PROVE SilentInv
  OBVIOUS
<1>1. \A k \in LoginRuns : run[k] = NoLogin
  BY DEF SilentInit
<1> QED
  BY <1>1, NoLoginFacts DEF SilentInit, SilentInv, LoginTypeOK, LoginInv, SlotInv

-----------------------------------------------------------------------------
(* The effect may start a probe in a call that is free, and nothing else.   *)
Probed(rs) ==
  /\ run' \in [LoginRuns -> RunRecord]
  /\ \A k \in LoginRuns :
       \/ run'[k] = rs[k]
       \/ rs[k] = NoLogin /\ run'[k].kind \in {"passkey", "face"} /\ run'[k].pc \in {"options", "capture"}
  /\ \A k \in LoginRuns : Ceremony(run'[k]) => Ceremony(rs[k]) \/ inflight' = k

LEMMA LoginOnceFacts ==
  ASSUME NEW rs \in [LoginRuns -> RunRecord], NEW k \in LoginRuns, NEW current, NEW slot,
         LoginOnce(rs, k, current, slot)
  PROVE  /\ run' \in [LoginRuns -> RunRecord]
         /\ \A j \in LoginRuns \ {k} : run'[j] = rs[j]
         /\ \/ slot = NoRun /\ inflight' = k /\ run'[k].kind = "passkey" /\ run'[k].pc = "options"
            \/ slot # NoRun /\ inflight' = slot /\ run'[k] = NoLogin
<1>1. CASE slot = NoRun
  <2>1. run' = [rs EXCEPT ![k] = Fresh("passkey", "options")] /\ inflight' = k
    BY <1>1 DEF LoginOnce
  <2>2. /\ Fresh("passkey", "options") \in RunRecord /\ Fresh("passkey", "options").kind = "passkey"
        /\ Fresh("passkey", "options").pc = "options"
    BY FreshFacts DEF Kinds, Pcs
  <2> QED BY <1>1, <2>1, <2>2
<1>2. CASE slot # NoRun
  <2>1. run' = [rs EXCEPT ![k] = NoLogin] /\ inflight' = slot
    BY <1>2 DEF LoginOnce
  <2> QED BY <1>2, <2>1, NoLoginFacts
<1> QED BY <1>1, <1>2

LEMMA ProbeFacts ==
  ASSUME NEW rs \in [LoginRuns -> RunRecord], NEW slot, StartProbe(rs, slot)
  PROVE  Probed(rs)
<1>1. PICK k \in LoginRuns :
        /\ rs[k] = NoLogin
        /\ IF hook = "face"
           THEN /\ run' = [rs EXCEPT ![k] = Fresh("face", "capture")]
                /\ waiting' = k /\ inflight' = NoRun
           ELSE LoginOnce(rs, k, TRUE, IF hook = "auto" THEN slot ELSE NoRun)
  BY DEF StartProbe
<1>2. CASE hook = "face"
  <2>1. run' = [rs EXCEPT ![k] = Fresh("face", "capture")]
    BY <1>1, <1>2
  <2>2. /\ Fresh("face", "capture") \in RunRecord /\ Fresh("face", "capture").kind = "face"
        /\ Fresh("face", "capture").pc = "capture"
    BY FreshFacts DEF Kinds, Pcs
  <2> QED BY <1>1, <2>1, <2>2 DEF Probed, Ceremony
<1>3. CASE hook # "face"
  <2>1. PICK c : LoginOnce(rs, k, TRUE, c)
    BY <1>1, <1>3
  <2>2. /\ run' \in [LoginRuns -> RunRecord]
        /\ \A j \in LoginRuns \ {k} : run'[j] = rs[j]
        /\ \/ inflight' = k /\ run'[k].kind = "passkey" /\ run'[k].pc = "options"
           \/ run'[k] = NoLogin
    BY <2>1, LoginOnceFacts
  <2> QED BY <1>1, <2>2 DEF Probed
<1> QED BY <1>2, <1>3

LEMMA EffectFacts ==
  ASSUME NEW x, NEW rs \in [LoginRuns -> RunRecord], NEW again, NEW slot, Effect(x, rs, again, slot)
  PROVE  Probed(rs) /\ (x # NoOne => inflight' = slot)
<1>1. CASE x = NoOne /\ (~started \/ again)
  BY <1>1, ProbeFacts DEF Effect
<1>2. CASE ~(x = NoOne /\ (~started \/ again))
  BY <1>2 DEF Effect, Probed
<1> QED BY <1>1, <1>2

LEMMA SetIdentityFacts ==
  ASSUME NEW x, NEW rs \in [LoginRuns -> RunRecord], NEW slot, SetIdentity(x, rs, slot)
  PROVE  Probed(rs) /\ shown' = x /\ (x # NoOne => inflight' = slot)
<1>1. CASE loading \/ (x = NoOne /\ shown = NoOne)
  BY <1>1 DEF SetIdentity, Probed
<1>2. CASE ~(loading \/ (x = NoOne /\ shown = NoOne))
  BY <1>2, EffectFacts DEF SetIdentity
<1> QED BY <1>1, <1>2

(* No ceremony is lost from the slot unnoticed.                             *)
LEMMA SlotStands ==
  ASSUME SlotInv, NEW rs, dropped' = Dropped(inflight' # inflight),
         \A k \in LoginRuns : Ceremony(run'[k]) => Ceremony(rs[k]) \/ inflight' = k,
         \A k \in LoginRuns : Ceremony(rs[k]) => Ceremony(run[k])
  PROVE  SlotInv'
  BY SilentAssumption DEF SlotInv, Dropped

-----------------------------------------------------------------------------
(* What a user does.                                                        *)
LEMMA BeginFacts ==
  ASSUME SilentInv, UserStarts
  PROVE  /\ hook # "none"
         /\ causes' = {} /\ causes # {} => shown = cookie /\ \A k \in LoginRuns : run[k] = NoLogin
  BY DEF UserStarts, Quiet

LEMMA StartCallStep ==
  ASSUME SilentInv, NEW k \in LoginRuns, StartCall(k)
  PROVE  SilentInv'
<1>1. PICK call : /\ run' = [run EXCEPT ![k] = call]
                  /\ call \in {Fresh("button", "options"), Fresh("oob", "poll"), Fresh("create", "options")}
  BY DEF StartCall
<1>2. /\ call \in RunRecord /\ ~Knows(call) /\ ~WillTell(call) /\ ~Ceremony(call)
      /\ call.kind # "logout" /\ call.pc # "revoke"
  BY <1>1, FreshFacts DEF Kinds, Pcs, Knows, WillTell, Ceremony
<1>3. /\ UNCHANGED <<hook, cookie, shown, loading, inflight, dropped>> /\ run[k] = NoLogin
      /\ \A j \in LoginRuns \ {k} : run'[j] = run[j]
      /\ run' \in [LoginRuns -> RunRecord] /\ run'[k] = call
  BY <1>1, <1>2 DEF StartCall, SilentInv, LoginTypeOK
<1>4. hook # "none" /\ (causes' = {} /\ causes # {} => shown = cookie /\ \A j \in LoginRuns : run[j] = NoLogin)
  BY BeginFacts DEF StartCall
<1>5. LoginTypeOK'
  BY <1>2, <1>3, <1>4 DEF SilentInv, LoginTypeOK
<1>6. LoginInv'
  BY <1>2, <1>3, <1>4, NoLoginFacts DEF SilentInv, LoginInv
<1>7. SlotInv'
  BY <1>2, <1>3 DEF SilentInv, SlotInv
<1> QED BY <1>5, <1>6, <1>7 DEF SilentInv

(* A probe that starts tells nobody anything yet.                           *)
LEMMA ProbedStands ==
  ASSUME LoginTypeOK, LoginInv, Probed(run), UNCHANGED <<cookie, shown, loading>>, hook' # "none",
         causes' = {} /\ causes # {} => shown = cookie /\ \A k \in LoginRuns : run[k] = NoLogin
  PROVE  LoginTypeOK' /\ LoginInv'
<1>1. \A k \in LoginRuns :
        \/ run'[k] = run[k]
        \/ /\ run[k] = NoLogin /\ run'[k].kind # "logout" /\ run'[k].pc # "revoke" 
           /\ ~Knows(run'[k]) /\ ~WillTell(run'[k])
  BY DEF Probed, Knows, WillTell
<1>2. LoginTypeOK'
  BY <1>1 DEF LoginTypeOK, Probed
<1>3. LoginInv'
  BY <1>1, NoLoginFacts DEF LoginInv
<1> QED BY <1>2, <1>3

LEMMA RetryStep == SilentInv /\ RetryProbe => SilentInv'
<1> SUFFICES ASSUME SilentInv, RetryProbe PROVE SilentInv'
  OBVIOUS
<1>1. Probed(run)
  <2>1. CASE loading \/ shown # NoOne
    BY <2>1 DEF RetryProbe, SilentInv, LoginTypeOK, Probed
  <2>2. CASE ~(loading \/ shown # NoOne)
    BY <2>2, ProbeFacts DEF RetryProbe, SilentInv, LoginTypeOK
  <2> QED BY <2>1, <2>2
<1>2. UNCHANGED <<hook, cookie, shown, loading>> /\ dropped' = Dropped(inflight' # inflight) /\ UserStarts
  BY DEF RetryProbe
<1>3. SlotInv'
  BY <1>1, <1>2, SlotStands DEF SilentInv, Probed
<1> QED BY <1>1, <1>2, <1>3, BeginFacts, ProbedStands DEF SilentInv

LEMMA LogoutStep ==
  ASSUME SilentInv, NEW k \in LoginRuns, Logout(k)
  PROVE  SilentInv'
<1> DEFINE rs == [run EXCEPT ![k] = Fresh("logout", "revoke")]
<1>1. /\ rs \in [LoginRuns -> RunRecord] /\ rs[k].kind = "logout" /\ rs[k].pc = "revoke"
      /\ \A j \in LoginRuns \ {k} : rs[j] = run[j]
  BY FreshFacts DEF Kinds, Pcs, SilentInv, LoginTypeOK
<1>2. SetIdentity(NoOne, rs, NoRun) /\ UNCHANGED <<hook, cookie, loading>> /\ run[k] = NoLogin
      /\ dropped' = Dropped(inflight' # inflight) /\ UserStarts
  BY DEF Logout
<1> HIDE DEF rs
<1>3. Probed(rs) /\ shown' = NoOne
  BY <1>1, <1>2, SetIdentityFacts
<1>4. run'[k].kind = "logout" /\ run'[k].pc = "revoke"
  BY <1>1, <1>3, NoLoginFacts DEF Probed
<1>5. \A j \in LoginRuns \ {k} :
        \/ run'[j] = run[j]
        \/ run'[j].kind # "logout" /\ run'[j].pc # "revoke" /\ ~Knows(run'[j])
  BY <1>1, <1>3 DEF Probed, Knows
<1>6. hook # "none" /\ (causes' = {} /\ causes # {} => shown = cookie /\ \A j \in LoginRuns : run[j] = NoLogin)
  BY <1>2, BeginFacts
<1>7. LoginTypeOK'
  BY <1>2, <1>3, <1>4, <1>5, <1>6 DEF SilentInv, LoginTypeOK, Probed
<1>8. LoginInv'
  BY <1>2, <1>3, <1>4, <1>5, <1>6, NoLoginFacts DEF SilentInv, LoginInv, Knows
<1>9. SlotInv'
  BY <1>1, <1>2, <1>3, SlotStands DEF SilentInv, Probed, Ceremony
<1> QED BY <1>7, <1>8, <1>9 DEF SilentInv

-----------------------------------------------------------------------------
(* A step that moves one call on and tells the page nothing.                *)
LEMMA RunMoves ==
  ASSUME SilentInv, NEW k \in LoginRuns, NEW r \in RunRecord, run' = [run EXCEPT ![k] = r],
         UNCHANGED <<hook, cookie, shown, loading, causes>>, run[k].pc # "idle",
         r.kind # "logout", r.pc # "revoke", ~Knows(r), run[k].kind # "logout", ~WillTell(run[k])
  PROVE  LoginTypeOK' /\ LoginInv'
<1>1. run'[k] = r /\ \A j \in LoginRuns \ {k} : run'[j] = run[j]
  BY DEF SilentInv, LoginTypeOK
<1>2. LoginTypeOK'
  BY <1>1 DEF SilentInv, LoginTypeOK
<1>3. LoginInv'
  BY <1>1 DEF SilentInv, LoginInv
<1> QED BY <1>2, <1>3

LEMMA LoginStep ==
  ASSUME SilentInv, NEW k \in LoginRuns,
         PromptOpens(k) \/ FaceCaptured(k) \/ LoginFails(k) \/ WallClock(k) \/ AccountCreated(k)
  PROVE  SilentInv'
<1>1. /\ run[k] \in RunRecord /\ run[k].pc \in {"capture", "options", "prompt", "verify", "poll", "enrol"}
      /\ UNCHANGED <<hook, cookie, shown, loading, causes>>
  BY DEF PromptOpens, FaceCaptured, LoginFails, WallClock, AccountCreated, SilentInv, LoginTypeOK
<1>2. /\ run[k].kind # "logout" /\ run[k].pc # "idle" /\ ~WillTell(run[k])
      /\ Ceremony(run[k]) <=> run[k].kind = "passkey"
  BY <1>1 DEF SilentInv, LoginTypeOK, WillTell, Ceremony
<1>3. PICK r \in RunRecord :
        /\ run' = [run EXCEPT ![k] = r] /\ r.kind # "logout" /\ r.pc # "revoke" /\ ~Knows(r)
        /\ Ceremony(r) => Ceremony(run[k])
  <2>1. CASE PromptOpens(k)
    <3> DEFINE r == [run[k] EXCEPT !.pc = "prompt"]
    <3>1. run' = [run EXCEPT ![k] = r]
      BY <2>1 DEF PromptOpens, Moved, SilentInv, LoginTypeOK
    <3>2. r \in RunRecord /\ r.kind # "logout" /\ r.pc # "revoke" /\ ~Knows(r)
          /\ (Ceremony(r) => Ceremony(run[k]))
      BY <1>1, <1>2, <2>1 DEF RunRecord, Kinds, Pcs, Knows, Ceremony
    <3> HIDE DEF r
    <3> QED BY <3>1, <3>2
  <2>2. CASE WallClock(k)
    <3> DEFINE r == [run[k] EXCEPT !.kind = "late"]
    <3>1. run' = [run EXCEPT ![k] = r]
      BY <2>2 DEF WallClock, SilentInv, LoginTypeOK
    <3>2. r \in RunRecord /\ r.kind # "logout" /\ r.pc # "revoke" /\ ~Knows(r)
          /\ (Ceremony(r) => Ceremony(run[k]))
      BY <1>1, <1>2, <2>2 DEF RunRecord, Kinds, Pcs, Knows, Ceremony
    <3> HIDE DEF r
    <3> QED BY <3>1, <3>2
  <2>3. CASE FaceCaptured(k) /\ waiting = k
    <3> DEFINE r == [run[k] EXCEPT !.pc = "verify"]
    <3>1. run' = [run EXCEPT ![k] = r]
      BY <2>3 DEF FaceCaptured, Moved, SilentInv, LoginTypeOK
    <3>2. r \in RunRecord /\ r.kind # "logout" /\ r.pc # "revoke" /\ ~Knows(r)
          /\ (Ceremony(r) => Ceremony(run[k]))
      BY <1>1, <1>2, <2>3 DEF RunRecord, Kinds, Pcs, Knows, Ceremony
    <3> HIDE DEF r
    <3> QED BY <3>1, <3>2
  <2>4. CASE (FaceCaptured(k) /\ waiting # k) \/ LoginFails(k) \/ AccountCreated(k)
    BY <2>4, NoLoginFacts DEF FaceCaptured, LoginFails, AccountCreated, Ended
  <2> QED BY <2>1, <2>2, <2>3, <2>4
<1>4. LoginTypeOK' /\ LoginInv'
  BY <1>1, <1>2, <1>3, RunMoves
<1>5. \A j \in LoginRuns : Ceremony(run'[j]) => Ceremony(run[j])
  BY <1>3 DEF SilentInv, LoginTypeOK
<1>6. SlotInv'
  <2>1. CASE PromptOpens(k) \/ FaceCaptured(k) \/ AccountCreated(k)
    BY <1>5, <2>1 DEF PromptOpens, FaceCaptured, AccountCreated, SilentInv, SlotInv
  <2>2. CASE LoginFails(k)
    <3>1. run'[k] = NoLogin
      BY <2>2 DEF LoginFails, Ended, SilentInv, LoginTypeOK
    <3>2. inflight' \in {inflight, NoRun} /\ dropped' = Dropped(inflight' # inflight /\ inflight # k)
      BY <2>2 DEF LoginFails
    <3> QED BY <1>5, <3>1, <3>2, NoLoginFacts, SilentAssumption DEF SilentInv, SlotInv, Dropped
  <2>3. CASE WallClock(k)
    <3>1. Ceremony(run[k]) /\ run'[k].kind = "late" /\ UNCHANGED dropped
      BY <1>2, <2>3 DEF WallClock, SilentInv, LoginTypeOK, RunRecord
    <3> QED BY <1>5, <3>1 DEF SilentInv, SlotInv, Ceremony
  <2> QED BY <2>1, <2>2, <2>3
<1> QED BY <1>4, <1>6 DEF SilentInv

LEMMA NoFaceStep ==
  ASSUME SilentInv, NEW k \in LoginRuns, NoFaceMatch(k)
  PROVE  SilentInv'
<1>1. /\ run[k] \in RunRecord /\ run[k].pc \in {"capture", "verify"} /\ LoginOnce(run, k, waiting = k, inflight)
      /\ UNCHANGED <<hook, cookie, shown, loading, causes, dropped>>
  BY DEF NoFaceMatch, SilentInv, LoginTypeOK
<1>2. /\ run' \in [LoginRuns -> RunRecord]
      /\ \A j \in LoginRuns \ {k} : run'[j] = run[j]
      /\ \/ inflight = NoRun /\ inflight' = k /\ run'[k].kind = "passkey" /\ run'[k].pc = "options"
         \/ inflight # NoRun /\ inflight' = inflight /\ run'[k] = NoLogin
  BY <1>1, LoginOnceFacts DEF SilentInv, LoginTypeOK
<1>3. run[k].kind # "logout" /\ run'[k].kind # "logout" /\ run'[k].pc # "revoke" /\ ~Knows(run'[k])
      /\ ~WillTell(run[k])
  BY <1>1, <1>2, NoLoginFacts DEF SilentInv, LoginTypeOK, Knows, WillTell
<1>4. run' = [run EXCEPT ![k] = run'[k]] /\ run'[k] \in RunRecord
  BY <1>2 DEF SilentInv, LoginTypeOK
<1>5. LoginTypeOK'
  BY <1>1, <1>2, <1>3 DEF SilentInv, LoginTypeOK
<1>6. LoginInv'
  BY <1>1, <1>2, <1>3 DEF SilentInv, LoginInv
<1>7. SlotInv'
  BY <1>1, <1>2, NoLoginFacts, SilentAssumption DEF SilentInv, SlotInv
<1> QED BY <1>5, <1>6, <1>7 DEF SilentInv

(* The session changes: what others hold is stale.                          *)
LEMMA AnsweredFacts ==
  ASSUME LoginTypeOK, NEW k \in LoginRuns, NEW p \in LoginPeople \cup {NoOne}
  PROVE  LET rs == Answered(run, k, p) IN
         /\ rs \in [LoginRuns -> RunRecord]
         /\ rs[k].who = p /\ rs[k].pc = "answered" /\ rs[k].kind = run[k].kind
         /\ \A j \in LoginRuns \ {k} :
              /\ rs[j].kind = run[j].kind /\ rs[j].pc = run[j].pc
              /\ Knows(run[j]) => rs[j].stale
<1> DEFINE rs == Answered(run, k, p)
<1>1. rs[k] = [run[k] EXCEPT !.pc = "answered", !.who = p, !.stale = FALSE]
  BY DEF Answered
<1>2. \A j \in LoginRuns \ {k} : rs[j] = [run[j] EXCEPT !.stale = run[j].pc \in {"answered", "refreshed"}]
  BY DEF Answered
<1>3. DOMAIN rs = LoginRuns /\ rs = [j \in LoginRuns |-> rs[j]]
  BY DEF Answered
<1> HIDE DEF rs
<1>4. \A j \in LoginRuns : run[j] \in RunRecord
  BY DEF LoginTypeOK
<1>5. rs[k] \in RunRecord /\ rs[k].who = p /\ rs[k].pc = "answered" /\ rs[k].kind = run[k].kind
  BY <1>1, <1>4 DEF RunRecord, Pcs
<1>6. ASSUME NEW j \in LoginRuns \ {k}
      PROVE  /\ rs[j] \in RunRecord /\ rs[j].kind = run[j].kind /\ rs[j].pc = run[j].pc
             /\ Knows(run[j]) => rs[j].stale
  <2> DEFINE b == run[j].pc \in {"answered", "refreshed"}
  <2>1. rs[j] = [run[j] EXCEPT !.stale = b] /\ b \in BOOLEAN /\ (Knows(run[j]) => b)
    BY <1>2 DEF Knows
  <2> HIDE DEF b
  <2> QED BY <1>4, <2>1 DEF RunRecord
<1>7. rs \in [LoginRuns -> RunRecord]
  BY <1>3, <1>5, <1>6
<1> QED BY <1>5, <1>6, <1>7 DEF rs

LEMMA SignsInStep ==
  ASSUME SilentInv, NEW k \in LoginRuns, ServerSignsIn(k)
  PROVE  SilentInv'
<1>1. PICK p \in LoginPeople : cookie' = p /\ run' = Answered(run, k, p)
  BY DEF ServerSignsIn
<1>2. /\ run' \in [LoginRuns -> RunRecord]
      /\ run'[k].who = p /\ run'[k].pc = "answered" /\ run'[k].kind = run[k].kind
      /\ \A j \in LoginRuns \ {k} :
           /\ run'[j].kind = run[j].kind /\ run'[j].pc = run[j].pc
           /\ Knows(run[j]) => run'[j].stale
  BY <1>1, AnsweredFacts DEF SilentInv
<1>3. /\ UNCHANGED <<hook, shown, loading, inflight, causes, dropped>>
      /\ run[k].pc \in {"prompt", "verify", "poll"}
  BY DEF ServerSignsIn
<1>4. LoginTypeOK'
  BY <1>1, <1>2, <1>3 DEF SilentInv, LoginTypeOK
<1>5. \A j \in LoginRuns : Knows(run'[j]) /\ ~run'[j].stale => run'[j].who = cookie'
  BY <1>1, <1>2 DEF Knows
<1>6. LoginInv'
  BY <1>2, <1>3, <1>5 DEF SilentInv, LoginInv, WillTell
<1>7. SlotInv'
  BY <1>2, <1>3 DEF SilentInv, SlotInv, Ceremony
<1> QED BY <1>4, <1>6, <1>7 DEF SilentInv

LEMMA RevokedStep ==
  ASSUME SilentInv, NEW k \in LoginRuns, SessionRevoked(k)
  PROVE  SilentInv'
<1>1. /\ UNCHANGED <<hook, shown, loading, inflight, dropped>>
      /\ run[k].pc = "revoke" /\ run[k].kind = "logout"
  BY DEF SessionRevoked, SilentInv, LoginTypeOK
<1>2. CASE cookie' = NoOne /\ run' = [Answered(run, k, NoOne) EXCEPT ![k] = NoLogin] /\ UNCHANGED causes
  <2>1. /\ run' \in [LoginRuns -> RunRecord] /\ run'[k] = NoLogin
        /\ \A j \in LoginRuns \ {k} :
             /\ run'[j].kind = run[j].kind /\ run'[j].pc = run[j].pc
             /\ Knows(run[j]) => run'[j].stale
    BY <1>2, AnsweredFacts, NoLoginFacts DEF SilentInv
  <2>2. LoginTypeOK'
    BY <1>1, <1>2, <2>1, NoLoginFacts DEF SilentInv, LoginTypeOK
  <2>3. \A j \in LoginRuns : Knows(run'[j]) /\ ~run'[j].stale => run'[j].who = cookie'
    BY <2>1, NoLoginFacts DEF Knows
  <2>4. LoginInv'
    BY <1>1, <1>2, <2>1, <2>3, NoLoginFacts DEF SilentInv, LoginInv
  <2>5. SlotInv'
    BY <1>1, <2>1, NoLoginFacts DEF SilentInv, SlotInv, Ceremony
  <2> QED BY <2>2, <2>4, <2>5 DEF SilentInv
<1>3. CASE run' = Ended(k) /\ causes' = causes \cup {"failed"} /\ UNCHANGED cookie
  <2>1. run'[k] = NoLogin /\ run' \in [LoginRuns -> RunRecord]
        /\ \A j \in LoginRuns \ {k} : run'[j] = run[j]
    BY <1>3, NoLoginFacts DEF Ended, SilentInv, LoginTypeOK
  <2>2. LoginTypeOK' /\ LoginInv' /\ SlotInv'
    BY <1>1, <1>3, <2>1, NoLoginFacts DEF SilentInv, LoginTypeOK, LoginInv, SlotInv
  <2> QED BY <2>2 DEF SilentInv
<1> QED BY <1>2, <1>3 DEF SessionRevoked

LEMMA DropStep ==
  ASSUME SilentInv, NEW k \in LoginRuns, DropAnswer(k)
  PROVE  SilentInv'
<1>1. /\ run[k].pc = "answered" /\ causes' # {} /\ inflight' \in {inflight, NoRun}
      /\ inflight' # inflight => Ceremony(run[k])
      /\ UNCHANGED <<hook, cookie, shown, loading, dropped>>
  BY DEF DropAnswer, Ceremony
<1>2. run'[k] = NoLogin /\ run' \in [LoginRuns -> RunRecord]
      /\ \A j \in LoginRuns \ {k} : run'[j] = run[j]
  BY NoLoginFacts DEF DropAnswer, Ended, SilentInv, LoginTypeOK
<1> QED
  BY <1>1, <1>2, NoLoginFacts DEF SilentInv, LoginTypeOK, LoginInv, SlotInv

-----------------------------------------------------------------------------
LEMMA ReadLoginStep ==
  ASSUME SilentInv, NEW k \in LoginRuns, ReadLogin(k) \/ RefreshFails(k)
  PROVE  SilentInv'
<1>1. /\ run[k].pc = "read" /\ run[k] \in RunRecord
      /\ UNCHANGED <<hook, cookie, shown, loading, inflight, dropped>>
      /\ causes' = {} => causes = {}
  BY DEF ReadLogin, RefreshFails, SilentInv, LoginTypeOK
<1>2. PICK w \in LoginPeople \cup {NoOne} :
        /\ run' = [run EXCEPT ![k] = [run[k] EXCEPT !.pc = "refreshed", !.who = w, !.stale = FALSE]]
        /\ causes' = {} => w = cookie
  <2>1. CASE ReadLogin(k)
    BY <2>1 DEF ReadLogin, SilentInv, LoginTypeOK
  <2>2. CASE RefreshFails(k)
    <3>1. run' = [run EXCEPT ![k] = [run[k] EXCEPT !.pc = "refreshed", !.who = NoOne, !.stale = FALSE]]
      BY <2>2 DEF RefreshFails, SilentInv, LoginTypeOK
    <3>2. causes' # {}
      BY <2>2 DEF RefreshFails
    <3> QED BY <3>1, <3>2
  <2> QED BY <2>1, <2>2
<1> DEFINE r == [run[k] EXCEPT !.pc = "refreshed", !.who = w, !.stale = FALSE]
<1>3. r \in RunRecord /\ r.kind = run[k].kind /\ r.pc = "refreshed" /\ r.who = w
  BY <1>1 DEF RunRecord, Pcs
<1>4. run' = [run EXCEPT ![k] = r]
  BY <1>2
<1> HIDE DEF r
<1>5. run'[k] = r /\ run' \in [LoginRuns -> RunRecord] /\ \A j \in LoginRuns \ {k} : run'[j] = run[j]
  BY <1>3, <1>4 DEF SilentInv, LoginTypeOK
<1>6. LoginTypeOK'
  BY <1>1, <1>3, <1>5 DEF SilentInv, LoginTypeOK
<1>7. LoginInv'
  BY <1>1, <1>2, <1>3, <1>5 DEF SilentInv, LoginInv, WillTell
<1>8. SlotInv'
  BY <1>1, <1>3, <1>5 DEF SilentInv, SlotInv, Ceremony
<1> QED BY <1>6, <1>7, <1>8 DEF SilentInv

(* What is applied without a cause names the session, and no logout is on   *)
(* its way.                                                                 *)
LEMMA AppliedFacts ==
  ASSUME SilentInv, NEW k \in LoginRuns, Knows(run[k]), causes' = Causes(k), causes' = {}
  PROVE  causes = {} /\ run[k].who = cookie /\ \A j \in LoginRuns : run[j].kind # "logout"
  BY DEF SilentInv, LoginInv, Causes

(* The slot gives up what was in it unnoticed only when that is over.       *)
LEMMA SlotSettles ==
  ASSUME SlotInv, NEW k \in LoginRuns, NEW rs, ~Ceremony(rs[k]),
         \A j \in LoginRuns \ {k} : rs[j] = run[j],
         \A j \in LoginRuns : Ceremony(run'[j]) => Ceremony(rs[j]) \/ inflight' = j,
         ~dropped' => ~dropped /\ (inflight' = inflight \/ inflight \in {NoRun, k})
  PROVE  SlotInv'
  BY SilentAssumption DEF SlotInv

LEMMA ApplyStep ==
  ASSUME SilentInv, NEW k \in LoginRuns, ApplyAnswer(k) \/ ApplyRefresh(k) \/ SessionProbed(k)
  PROVE  SilentInv'
<1>1. Knows(run[k]) /\ run[k] \in RunRecord /\ causes' = Causes(k) /\ run[k].kind # "logout"
      /\ UNCHANGED <<hook, cookie>> /\ hook # "none"
  BY DEF ApplyAnswer, ApplyRefresh, SessionProbed, Knows, SilentInv, LoginTypeOK
<1>2. PICK rs \in [LoginRuns -> RunRecord] :
        /\ \A j \in LoginRuns \ {k} : rs[j] = run[j]
        /\ rs[k].kind # "logout" /\ rs[k].pc # "revoke" /\ ~Knows(rs[k]) /\ ~Ceremony(rs[k])
        /\ Probed(rs) /\ shown' = run[k].who
        /\ ~dropped' => ~dropped /\ (inflight' = inflight \/ inflight \in {NoRun, k})
  <2>1. CASE ApplyAnswer(k)
    <3> DEFINE r == [run[k] EXCEPT !.pc = "read"]
               rs == [run EXCEPT ![k] = r]
               slot == IF run[k].kind = "passkey" THEN NoRun ELSE inflight
    <3>1. SetIdentity(run[k].who, rs, slot) /\ dropped' = Dropped(inflight' # inflight /\ inflight # k)
      BY <2>1 DEF ApplyAnswer, Moved, SilentInv, LoginTypeOK
    <3>2. r \in RunRecord /\ r.kind # "logout" /\ r.pc = "read"
      BY <1>1 DEF RunRecord, Pcs
    <3> HIDE DEF r
    <3>3. /\ rs \in [LoginRuns -> RunRecord] /\ rs[k] = r
          /\ \A j \in LoginRuns \ {k} : rs[j] = run[j]
      BY <3>2 DEF SilentInv, LoginTypeOK
    <3> HIDE DEF rs, slot
    <3>4. Probed(rs) /\ shown' = run[k].who
      BY <3>1, <3>3, SetIdentityFacts
    <3> QED BY <3>1, <3>2, <3>3, <3>4 DEF Dropped, Knows, Ceremony
  <2>2. CASE ApplyRefresh(k)
    <3> DEFINE rs == AfterRefresh(k)
    <3>1. SetIdentity(run[k].who, rs, inflight) /\ dropped' = Dropped(inflight' # inflight)
      BY <2>2 DEF ApplyRefresh
    <3>2. /\ rs \in [LoginRuns -> RunRecord] /\ \A j \in LoginRuns \ {k} : rs[j] = run[j]
          /\ rs[k].kind # "logout" /\ rs[k].pc # "revoke" /\ ~Knows(rs[k]) /\ ~Ceremony(rs[k])
      <4>1. CASE run[k].kind = "create"
        <5> DEFINE r == [run[k] EXCEPT !.pc = "enrol"]
        <5>1. rs = [run EXCEPT ![k] = r]
          BY <4>1 DEF AfterRefresh, Moved, SilentInv, LoginTypeOK
        <5>2. r \in RunRecord /\ r.kind = "create" /\ r.pc = "enrol"
          BY <1>1, <4>1 DEF RunRecord, Pcs
        <5> HIDE DEF r, rs
        <5> QED BY <5>1, <5>2 DEF SilentInv, LoginTypeOK, Knows, Ceremony
      <4>2. CASE run[k].kind # "create"
        <5>1. rs = [run EXCEPT ![k] = NoLogin]
          BY <4>2 DEF AfterRefresh, Ended
        <5> HIDE DEF rs
        <5> QED BY <5>1, NoLoginFacts DEF SilentInv, LoginTypeOK
      <4> QED BY <4>1, <4>2
    <3> HIDE DEF rs
    <3>3. Probed(rs) /\ shown' = run[k].who
      BY <3>1, <3>2, SetIdentityFacts
    <3> QED BY <3>1, <3>2, <3>3 DEF Dropped
  <2>3. CASE SessionProbed(k)
    <3> DEFINE rs == [run EXCEPT ![k] = NoLogin]
    <3>1. Effect(run[k].who, rs, retried, inflight) /\ dropped' = Dropped(inflight' # inflight)
          /\ shown' = run[k].who
      BY <2>3 DEF SessionProbed, Ended
    <3>2. /\ rs \in [LoginRuns -> RunRecord] /\ rs[k] = NoLogin
          /\ \A j \in LoginRuns \ {k} : rs[j] = run[j]
      BY NoLoginFacts DEF SilentInv, LoginTypeOK
    <3> HIDE DEF rs
    <3>3. Probed(rs)
      BY <3>1, <3>2, EffectFacts
    <3> QED BY <3>1, <3>2, <3>3, NoLoginFacts DEF Dropped
  <2> QED BY <2>1, <2>2, <2>3
<1>3. \A j \in LoginRuns :
        \/ run'[j] = rs[j]
        \/ run'[j].kind # "logout" /\ run'[j].pc # "revoke" /\ ~Knows(run'[j])
  BY <1>2 DEF Probed, Knows
<1>4. LoginTypeOK'
  BY <1>1, <1>2, <1>3 DEF SilentInv, LoginTypeOK, Probed, RunRecord
<1>5. ASSUME causes' = {} PROVE LoginInv'
  <2>1. causes = {} /\ run[k].who = cookie /\ \A j \in LoginRuns : run[j].kind # "logout"
    BY <1>1, <1>5, AppliedFacts
  <2> QED BY <1>1, <1>2, <1>3, <2>1 DEF SilentInv, LoginInv
<1>6. SlotInv'
  BY <1>2, SlotSettles DEF SilentInv, Probed
<1> QED BY <1>4, <1>5, <1>6 DEF SilentInv, LoginInv

LEMMA MountStep ==
  ASSUME SilentInv, NEW k \in LoginRuns, Mount(k)
  PROVE  SilentInv'
<1>1. /\ UNCHANGED <<shown, loading, inflight, causes, dropped>> /\ hook' # "none" /\ loading
      /\ cookie' \in LoginPeople \cup {NoOne} /\ \A j \in LoginRuns : run[j].pc = "idle"
  BY DEF Mount, SilentInv, LoginTypeOK
<1>2. Fresh("mount", "read") \in RunRecord /\ Fresh("mount", "read").kind = "mount"
      /\ Fresh("mount", "read").pc = "read"
  BY FreshFacts DEF Kinds, Pcs
<1>3. /\ run' \in [LoginRuns -> RunRecord] /\ run'[k].kind = "mount" /\ run'[k].pc = "read"
      /\ \A j \in LoginRuns \ {k} : run'[j] = run[j]
  BY <1>2 DEF Mount, SilentInv, LoginTypeOK
<1>4. LoginTypeOK' /\ LoginInv' /\ SlotInv'
  BY <1>1, <1>3 DEF SilentInv, LoginTypeOK, LoginInv, SlotInv, Knows, Ceremony
<1> QED BY <1>4 DEF SilentInv

LEMMA SilentNextInv == SilentInv /\ [SilentNext]_silentVars => SilentInv'
<1> SUFFICES ASSUME SilentInv, [SilentNext]_silentVars PROVE SilentInv'
  OBVIOUS
<1>1. CASE UNCHANGED silentVars
  BY <1>1 DEF silentVars, SilentInv, LoginTypeOK, LoginInv, SlotInv
<1>2. CASE RetryProbe
  BY <1>2, RetryStep
<1>3. ASSUME NEW k \in LoginRuns,
             \/ Mount(k) \/ StartCall(k) \/ Logout(k)
             \/ PromptOpens(k) \/ FaceCaptured(k) \/ NoFaceMatch(k) \/ ServerSignsIn(k)
             \/ LoginFails(k) \/ WallClock(k) \/ DropAnswer(k) \/ ApplyAnswer(k)
             \/ ReadLogin(k) \/ RefreshFails(k) \/ ApplyRefresh(k) \/ SessionProbed(k)
             \/ AccountCreated(k) \/ SessionRevoked(k)
      PROVE  SilentInv'
  BY <1>3, MountStep, StartCallStep, LogoutStep, LoginStep, NoFaceStep, SignsInStep, DropStep, ApplyStep,
     ReadLoginStep, RevokedStep
<1> QED BY <1>1, <1>2, <1>3 DEF SilentNext

(* SilentIsSound: once every call has ended the page shows the person whose *)
(* session the browser holds, but for the four causes that are named, and   *)
(* two ceremonies run at once only after a reset (TrustIdAuthProvider,      *)
(* executeSilentWebLoginOnce).                                              *)
THEOREM SilentIsSoundHolds == SilentSpec => []SilentIsSound
<1>1. SilentInv => ShownIsTheSession
  BY NoLoginFacts DEF SilentInv, LoginInv, ShownIsTheSession, Quiet
<1>2. SilentInv => CeremoniesAreShared
  <2> SUFFICES ASSUME SilentInv, ~dropped PROVE CeremoniesAreShared
    BY DEF CeremoniesAreShared
  <2> DEFINE S == {k \in LoginRuns : run[k].kind = "passkey" /\ run[k].pc # "read"
                                       /\ run[k].pc # "refreshed"}
  <2>1. S \subseteq {inflight}
    BY DEF SilentInv, SlotInv, Ceremony
  <2>2. IsFiniteSet({inflight}) /\ Cardinality({inflight}) = 1
    BY FS_Singleton
  <2>3. IsFiniteSet(S) /\ Cardinality(S) <= 1 /\ Cardinality(S) \in Nat
    BY <2>1, <2>2, FS_Subset, FS_CardinalityType
  <2> QED BY <2>3 DEF CeremoniesAreShared
<1> QED BY <1>1, <1>2, SilentInitInv, SilentNextInv, PTL DEF SilentSpec, SilentIsSound
=============================================================================
