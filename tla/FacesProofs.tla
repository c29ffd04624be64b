----------------------------- MODULE FacesProofs -----------------------------
(***************************************************************************)
(* Theorems about face templates.  They hold for any number of calls,      *)
(* processes and faces, any threshold, and any number of faults; the runs  *)
(* of MCAccount check the same properties on a small instance.             *)
(***************************************************************************)
EXTENDS Faces, FiniteSetTheorems, TLAPS

-----------------------------------------------------------------------------
(* What the calls and the rows look like *)

FacePcs == {"search", "finalize", "cache", "lock", "assess", "create", "envelope", "column",
            "audit", "undo", "release", "bind", "confirm"}

FaceRecord ==
  [op : {"lookup", "ambient", "register", "attach"}, pc : FacePcs \cup {"done"}, probe : FacePoints,
   proc : Procs, who : People, old : FacePoints \cup {NoFace}, missed : SUBSET People]

FaceRecords == [pc : {"idle", "done"}] \cup FaceRecord

FaceTable == [People -> FacePoints \cup {NoFace}]

FaceTypeOK ==
  /\ identity \in [People -> [user : {"none", "alive", "removed"}, device : BOOLEAN]]
  /\ envelope \in FaceTable /\ column \in FaceTable /\ shared \in FaceTable
  /\ memory \in [Procs -> FaceTable]
  /\ face \in [FaceCalls -> FaceRecords]
  /\ faults \in Nat

(* The critical section of the enrolment lock.                              *)
Section == {"assess", "create", "envelope", "column", "audit", "undo", "release"}

LockInv == "lock_lost" \in happened \/ \A c \in FaceCalls : face[c].pc \in Section => lock = c

(* A call that makes an identity, or that gives one a new face.             *)
Makes(r) == r.pc \in {"search", "lock", "bind"} \cup Section /\ r.op \in Enrolling
Attaches(r) == r.pc \in {"lock"} \cup Section /\ r.op = "attach"

(* A kept copy of someone's face: the present one, unless it was replaced.  *)
Coherent(x, u) == x = NoFace \/ x = envelope[u] \/ u \in superseded

(* What a call knows of the person it works for.                            *)
CallOK(r) ==
  /\ r.pc \in {"create", "undo", "bind", "confirm"} => r.op \in Enrolling
  /\ r.pc \in {"lock"} \cup Section => r.op \in Enrolling \cup {"attach"}
  /\ Makes(r) => ~identity[r.who].device
  /\ Attaches(r) => identity[r.who].device
  /\ r.pc = "bind" => identity[r.who].user # "none"
  /\ r.pc = "column" => envelope[r.who] # NoFace /\ Coherent(r.probe, r.who)
  /\ r.pc = "cache" => Coherent(r.old, r.who)

(* Nobody works for the newcomer of another call.                           *)
OneMaker == \A c, d \in FaceCalls : c # d /\ Makes(face[c]) /\ Makes(face[d]) => face[c].who # face[d].who

CacheInv ==
  /\ \A u \in People : identity[u].device => identity[u].user # "none"
  /\ \A u \in People : column[u] # NoFace => envelope[u] # NoFace
  /\ \A u \in People : Coherent(shared[u], u) /\ \A i \in Procs : Coherent(memory[i][u], u)

-----------------------------------------------------------------------------
(* As long as no lock was lost and no call stopped between row and column,  *)
(* the two agree but for the call that is about to write the column, and a  *)
(* face that was checked is near nobody else's until it is written, but for *)
(* those the index left out.                                                *)
Clean == "lock_lost" \notin happened /\ "halfway" \notin happened

Behind(r, u) == r.pc = "column" /\ r.who = u

Checked(r) ==
  /\ r.pc \in {"create", "envelope"} =>
       \A v \in People \ {r.who} : ~Near(r.probe, envelope[v]) \/ <<r.who, v>> \in overlooked
  /\ r.pc = "column" => envelope[r.who] = r.probe

ApartOrMissed(u, v) ==
  ~Near(envelope[u], envelope[v]) \/ <<u, v>> \in overlooked \/ <<v, u>> \in overlooked

RowInv ==
  Clean => /\ \A u \in People : envelope[u] = column[u] \/ \E c \in FaceCalls : Behind(face[c], u)
           /\ \A c \in FaceCalls : Checked(face[c])
           /\ \A u, v \in People : u # v => ApartOrMissed(u, v)

(* Two enrolments overlap only as rivals, so the one that binds the install *)
(* finds it free.                                                           *)
Enrols(r) == r.pc \in FacePcs /\ r.op \in Enrolling

FindsFree(r) == Enrols(r) /\ r.pc \notin {"search", "finalize", "cache", "confirm"} => owner = NoCall

RivalInv ==
  "rivals" \in happened
    \/ /\ \A c, d \in FaceCalls : Enrols(face[c]) /\ Enrols(face[d]) => c = d
       /\ \A c \in FaceCalls : FindsFree(face[c])

(* An identity without a device has its enrolment under way.                *)
Finishes(r, u) ==
  r.pc \in {"envelope", "column", "audit", "undo", "release", "bind"} /\ r.op \in Enrolling /\ r.who = u

StrayInv ==
  happened \cap {"lock_lost", "died", "rivals"} = {} =>
    \A u \in People : identity[u].user = "alive" /\ ~identity[u].device =>
      \E c \in FaceCalls : Finishes(face[c], u)

FaceInv ==
  /\ FaceTypeOK /\ LockInv /\ (\A c \in FaceCalls : CallOK(face[c])) /\ OneMaker
  /\ CacheInv /\ RowInv /\ RivalInv /\ StrayInv

LEMMA FaceInitInv == FaceInit => FaceInv
<1> SUFFICES ASSUME FaceInit PROVE FaceInv
  OBVIOUS
<1> USE FacesAssumption DEF FaceInit
<1>1. FaceTypeOK
  BY DEF FaceTypeOK, FaceTable, FaceRecords
<1>2. \A c \in FaceCalls : face[c].pc = "idle"
  OBVIOUS
<1>3. LockInv /\ (\A c \in FaceCalls : CallOK(face[c])) /\ OneMaker /\ RivalInv
  BY <1>2 DEF LockInv, CallOK, OneMaker, RivalInv, Makes, Attaches, Enrols, FindsFree, Section, FacePcs
<1>4. CacheInv /\ StrayInv
  BY DEF CacheInv, Coherent, StrayInv
<1>5. RowInv
  BY <1>2 DEF RowInv, Checked, ApartOrMissed
<1> QED BY <1>1, <1>3, <1>4, <1>5 DEF FaceInv

-----------------------------------------------------------------------------
(* Search.  Whoever an exact answer leaves out is no nearer than all it     *)
(* names.                                                                   *)
LEMMA FacesAgree ==
  ASSUME NEW a \in FacePoints, NEW b \in FacePoints
  PROVE  /\ Dist(a, b) \in Nat /\ Dist(a, b) = Dist(b, a)
         /\ Near(a, b) <=> Dist(a, b) <= Threshold
  BY FacesAssumption DEF Dist, Near

LEMMA NearestFound ==
  ASSUME IsFiniteSet(People), FaceTypeOK, NEW p \in FacePoints, NEW S \in IndexAnswers, Exact(S, p),
         NEW v \in Indexed \ S, NEW X, IsFiniteSet(X), Cardinality(X) < TopK
  PROVE  /\ Cardinality(Indexed) > TopK
         /\ \E a \in S \ X : Dist(column[a], p) <= Dist(column[v], p)
<1>1. IsFiniteSet(Indexed)
  <2>1. Indexed \in SUBSET People
    BY DEF Indexed
  <2> QED BY <2>1, FS_Subset
<1>2. /\ S \in SUBSET Indexed
      /\ Cardinality(S) = IF Cardinality(Indexed) < TopK THEN Cardinality(Indexed) ELSE TopK
      /\ \A a \in S, b \in Indexed \ S : Dist(column[a], p) <= Dist(column[b], p)
  BY DEF IndexAnswers, Exact
<1>3. IsFiniteSet(S) /\ Cardinality(S) <= Cardinality(Indexed) /\ Cardinality(S) # Cardinality(Indexed)
  BY <1>1, <1>2, FS_Subset
<1>4. Cardinality(Indexed) \in Nat /\ Cardinality(X) \in Nat /\ Cardinality(S) \in Nat
  BY <1>1, <1>3, FS_CardinalityType
<1>5. Cardinality(S) = TopK /\ Cardinality(Indexed) > TopK
  BY <1>2, <1>3, <1>4, FacesAssumption
<1>6. ~(S \subseteq X)
  <2>1. S \subseteq X => Cardinality(S) <= Cardinality(X)
    BY FS_Subset
  <2> QED BY <2>1, <1>4, <1>5, FacesAssumption
<1> QED BY <1>2, <1>5, <1>6

LEMMA LoadedOK ==
  ASSUME FaceTypeOK, CacheInv, NEW i \in Procs, NEW p \in FacePoints
  PROVE  /\ Loaded(i, p) \in FaceTable
         /\ \A u \in People : Coherent(Loaded(i, p)[u], u)
  BY DEF FaceTypeOK, FaceTable, CacheInv, Loaded

(* A candidate of the index is compared with the row, one of the hot cache  *)
(* only when the index does not name that person.                           *)
LEMMA SearchFacts ==
  ASSUME FaceTypeOK, CacheInv, NEW i \in Procs, NEW p \in FacePoints, NEW S \in IndexAnswers,
         NEW d \in Ranked(S, i, p)
  PROVE  /\ S \subseteq DOMAIN d /\ DOMAIN d \subseteq People
         /\ \A u \in S : d[u] = Dist(p, envelope[u]) /\ envelope[u] \in FacePoints
         /\ \A u \in DOMAIN d \ S : u \in superseded \/ (envelope[u] \in FacePoints /\ d[u] = Dist(p, envelope[u]))
<1> DEFINE cache == Loaded(i, p)
<1>1. PICK h \in Hot(cache, p) : d = Distances(S, h, cache, p)
  BY DEF Ranked
<1>2. cache \in FaceTable /\ \A u \in People : Coherent(cache[u], u)
  BY LoadedOK
<1> HIDE DEF cache
<1>3. S \subseteq People /\ \A u \in S : envelope[u] \in FacePoints
  BY DEF IndexAnswers, Indexed, FaceTypeOK, FaceTable, CacheInv
<1>4. h \subseteq People /\ \A u \in h : cache[u] # NoFace
  BY DEF Hot, Closest, Within, Near
<1>5. DOMAIN d = S \cup h /\ \A u \in S \cup h : d[u] = Dist(p, IF u \in S THEN envelope[u] ELSE cache[u])
  BY <1>1 DEF Distances
<1>6. ASSUME NEW u \in DOMAIN d \ S, u \notin superseded
      PROVE  envelope[u] \in FacePoints /\ d[u] = Dist(p, envelope[u])
  <2>1. u \in h /\ u \in People /\ cache[u] # NoFace /\ cache[u] \in FacePoints /\ d[u] = Dist(p, cache[u])
    BY <1>2, <1>4, <1>5, <1>6 DEF FaceTable
  <2> QED BY <1>2, <1>6, <2>1 DEF Coherent
<1> QED BY <1>3, <1>4, <1>5, <1>6

(* The duplicate check finds a face that is near, if row and column agree   *)
(* and the index does not leave it out.                                     *)
LEMMA NotBlockedIsClear ==
  ASSUME IsFiniteSet(People), TopK >= 2, FaceInv, Clean, NEW c \in FaceCalls, FAt(c, "assess"),
         NEW S \in IndexAnswers, NEW d \in Ranked(S, face[c].proc, face[c].probe), ~Blocked(c, d)
  PROVE  \A v \in People \ {face[c].who} :
           ~Near(face[c].probe, envelope[v]) \/ v \in Missed(S, face[c].probe)
<1>1. face[c] \in FaceRecord
  BY DEF FaceInv, FaceTypeOK, FaceRecords, FAt
<1> DEFINE p == face[c].probe
           w == face[c].who
<1>2. p \in FacePoints /\ w \in People /\ face[c].proc \in Procs
  BY <1>1 DEF FaceRecord
<1>3. \A u \in People : envelope[u] = column[u]
  BY DEF FaceInv, LockInv, RowInv, Clean, FAt, Behind, Section
<1>4. /\ S \subseteq DOMAIN d /\ DOMAIN d \subseteq People
      /\ \A u \in S : d[u] = Dist(p, envelope[u]) /\ envelope[u] \in FacePoints
  BY <1>2, SearchFacts DEF FaceInv
<1>5. \A u \in DOMAIN d : d[u] <= Threshold => u = w
  BY DEF Blocked, Duplicates
<1> SUFFICES ASSUME NEW v \in People \ {w}, Near(p, envelope[v]) PROVE v \in Missed(S, p)
  OBVIOUS
<1>6. envelope[v] \in FacePoints /\ v \in Indexed /\ Dist(p, envelope[v]) <= Threshold
  BY <1>3 DEF Near, Indexed, FaceInv, FaceTypeOK, FaceTable
<1> HIDE DEF p, w
<1>7. CASE v \in S
  BY <1>4, <1>5, <1>6, <1>7
<1>9. CASE v \notin S /\ ~Exact(S, p)
  <2>1. Near(column[v], p)
    BY <1>2, <1>3, <1>6, FacesAgree
  <2> QED BY <1>6, <1>9, <2>1 DEF Missed
<1>8. CASE v \notin S /\ Exact(S, p)
  <2>1. IsFiniteSet({w}) /\ Cardinality({w}) < TopK
    <3>1. IsFiniteSet({w}) /\ Cardinality({w}) = 1
      BY FS_Singleton
    <3>2. TopK \in Nat /\ TopK >= 2
      BY FacesAssumption
    <3> QED BY <3>1, <3>2
  <2>2. PICK a \in S \ {w} : Dist(column[a], p) <= Dist(column[v], p)
    BY <1>2, <1>6, <1>8, <2>1, NearestFound DEF FaceInv
  <2>3. a \in People /\ d[a] = Dist(p, envelope[a]) /\ envelope[a] \in FacePoints
    BY <1>4
  <2>4. d[a] <= Dist(p, envelope[v])
    BY <1>2, <1>3, <1>6, <2>2, <2>3, FacesAgree
  <2>5. d[a] <= Threshold
    <3>1. d[a] \in Nat /\ Dist(p, envelope[v]) \in Nat /\ Threshold \in Nat
      BY <1>2, <1>6, <2>3, FacesAgree, FacesAssumption
    <3> QED BY <1>6, <2>4, <3>1
  <2> QED BY <1>4, <1>5, <2>2, <2>5
<1> QED BY <1>7, <1>8, <1>9

-----------------------------------------------------------------------------
(* Identification.  The person it names is the nearest candidate, and an    *)
(* exact answer leaves out a second one that is as near only when columns   *)
(* that are apart from their rows fill it.                                  *)
LEMMA AcceptedIsOne ==
  ASSUME IsFiniteSet(People), FaceInv, NEW i \in Procs, NEW p \in FacePoints,
         NEW S \in IndexAnswers, NEW d \in Ranked(S, i, p), NEW u \in DOMAIN d, Accepts(d, u), u \notin superseded
  PROVE  /\ Near(envelope[u], p)
         /\ \A v \in People \ {u} :
              Near(envelope[v], p) /\ envelope[v] = column[v] =>
                v \in Missed(S, p) \/ CrowdedOut \/ Dist(envelope[v], p) - Dist(envelope[u], p) > Margin
<1>1. /\ S \subseteq DOMAIN d /\ DOMAIN d \subseteq People
      /\ \A a \in S : d[a] = Dist(p, envelope[a]) /\ envelope[a] \in FacePoints
      /\ \A a \in DOMAIN d \ S : a \in superseded \/ (envelope[a] \in FacePoints /\ d[a] = Dist(p, envelope[a]))
  BY SearchFacts DEF FaceInv
<1>2. u \in People /\ envelope[u] \in FacePoints /\ d[u] = Dist(envelope[u], p)
  BY <1>1, FacesAgree
<1>3. d[u] <= Threshold /\ \A a \in DOMAIN d \ {u} : d[a] > Threshold \/ d[a] - d[u] > Margin
  BY DEF Accepts
<1>4. Near(envelope[u], p)
  BY <1>2, <1>3, FacesAgree
<1>5. ASSUME NEW v \in People \ {u}, Near(envelope[v], p), envelope[v] = column[v], ~CrowdedOut,
             v \notin Missed(S, p)
      PROVE  Dist(envelope[v], p) - Dist(envelope[u], p) > Margin
  <2>1. envelope[v] \in FacePoints /\ v \in Indexed
    BY <1>5 DEF Near, Indexed, FaceInv, FaceTypeOK, FaceTable
  <2>2. Dist(envelope[v], p) \in Nat /\ Dist(envelope[u], p) \in Nat /\ Dist(envelope[v], p) <= Threshold
        /\ Threshold \in Nat /\ Margin \in Nat
    BY <1>2, <1>5, <2>1, FacesAgree, FacesAssumption
  <2>3. ASSUME NEW a \in S \ {u}, Dist(envelope[a], p) <= Dist(envelope[v], p)
        PROVE  Dist(envelope[v], p) - Dist(envelope[u], p) > Margin
    <3>1. d[a] = Dist(envelope[a], p) /\ d[a] \in Nat /\ a \in DOMAIN d \ {u}
      BY <1>1, FacesAgree
    <3>2. d[a] > Threshold \/ d[a] - d[u] > Margin
      BY <1>3, <3>1
    <3> QED BY <1>2, <2>2, <2>3, <3>1, <3>2
  <2>4. CASE v \in S
    BY <2>2, <2>3, <2>4
  <2>5. CASE v \notin S
    <3>8. Exact(S, p)
      BY <1>5, <2>1, <2>5 DEF Missed
    <3> DEFINE X == Apart \cup {u}
    <3>1. IsFiniteSet(X) /\ Cardinality(X) \in Nat /\ Cardinality(Apart) \in Nat
          /\ Cardinality(X) <= Cardinality(Apart) + 1
      <4>1. Apart \in SUBSET People
        BY DEF Apart
      <4>2. IsFiniteSet(Apart)
        BY <4>1, FS_Subset
      <4>3. IsFiniteSet(X) /\ Cardinality(X) = IF u \in Apart THEN Cardinality(Apart) ELSE Cardinality(Apart) + 1
        BY <4>2, FS_AddElement
      <4>4. Cardinality(Apart) \in Nat
        BY <4>2, FS_CardinalityType
      <4> QED BY <4>3, <4>4
    <3>2. TopK \in Nat /\ Cardinality(Indexed) \in Nat
      <4>1. Indexed \in SUBSET People
        BY DEF Indexed
      <4>2. IsFiniteSet(Indexed)
        BY <4>1, FS_Subset
      <4> QED BY <4>2, FS_CardinalityType, FacesAssumption
    <3> HIDE DEF X
    <3>3. IsFiniteSet({}) /\ Cardinality({}) < TopK
      BY <3>2, FS_EmptySet, FacesAssumption
    <3>4. Cardinality(Indexed) > TopK
      BY <2>1, <2>5, <3>3, <3>8, NearestFound DEF FaceInv
    <3>5. Cardinality(X) < TopK
      BY <1>5, <3>1, <3>2, <3>4 DEF CrowdedOut
    <3>6. PICK a \in S \ X : Dist(column[a], p) <= Dist(column[v], p)
      BY <2>1, <2>5, <3>1, <3>5, <3>8, NearestFound DEF FaceInv
    <3>7. a \in S \ {u} /\ envelope[a] = column[a]
      BY <1>1, <3>6 DEF X, Apart
    <3> QED BY <1>5, <2>3, <3>6, <3>7
  <2> QED BY <2>4, <2>5
<1> QED BY <1>4, <1>5

-----------------------------------------------------------------------------
(* A call moves on: what it must know, and what the others keep.            *)
LEMMA FGotoFacts ==
  ASSUME FaceTypeOK, NEW c \in FaceCalls, FBusy(c), NEW pc \in FacePcs \cup {"done"}, FGoto(c, pc)
  PROVE  /\ face[c] \in FaceRecord
         /\ \E r \in FaceRecords :
              /\ face' = [face EXCEPT ![c] = r] /\ r.pc = pc
              /\ pc # "done" => /\ r.op = face[c].op /\ r.who = face[c].who /\ r.probe = face[c].probe
                                /\ r.old = face[c].old
<1>1. face[c] \in FaceRecord
  BY DEF FaceTypeOK, FaceRecords, FBusy, FAt
<1>2. CASE pc = "done"
  <2>1. [pc |-> pc] \in FaceRecords /\ face' = [face EXCEPT ![c] = [pc |-> pc]]
    BY <1>2 DEF FaceRecords, FGoto
  <2> QED BY <1>1, <1>2, <2>1
<1>3. CASE pc # "done"
  <2> DEFINE r == [face[c] EXCEPT !.pc = pc]
  <2>1. r \in FaceRecord /\ r.pc = pc /\ r.op = face[c].op /\ r.who = face[c].who
        /\ r.probe = face[c].probe /\ r.old = face[c].old
    BY <1>1, <1>3 DEF FaceRecord
  <2>2. face' = [face EXCEPT ![c] = r]
    BY <1>3 DEF FGoto, FaceTypeOK
  <2> HIDE DEF r
  <2> QED BY <1>1, <2>1, <2>2 DEF FaceRecords
<1> QED BY <1>2, <1>3

LEMMA LockStands ==
  ASSUME FaceInv, NEW c \in FaceCalls, NEW r \in FaceRecords, face' = [face EXCEPT ![c] = r],
         happened \subseteq happened',
         \/ lock' = lock /\ (r.pc \in Section => face[c].pc \in Section)
         \/ Unlock(c) /\ r.pc \notin Section
         \/ lock = NoCall /\ lock' = c
  PROVE  LockInv'
<1>1. face'[c] = r /\ \A d \in FaceCalls \ {c} : face'[d] = face[d]
  BY DEF FaceInv, FaceTypeOK
<1> QED BY <1>1, FacesAssumption DEF FaceInv, LockInv, Unlock

LEMMA FaceMoves ==
  ASSUME FaceInv, NEW c \in FaceCalls, NEW r \in FaceRecords, face' = [face EXCEPT ![c] = r],
         UNCHANGED <<identity, envelope, column, owner, superseded>>,
         memory' \in [Procs -> FaceTable], shared' \in FaceTable, faults' \in Nat,
         \A u \in People : Coherent(shared'[u], u) /\ \A i \in Procs : Coherent(memory'[i][u], u),
         happened \subseteq happened', overlooked \subseteq overlooked', LockInv', CallOK(r),
         Makes(r) => \/ Makes(face[c]) /\ r.who = face[c].who
                     \/ \A d \in FaceCalls : Makes(face[d]) => face[d].who # r.who,
         Enrols(r) => \/ Enrols(face[c]) \/ "rivals" \in happened'
                      \/ \A d \in FaceCalls : ~Enrols(face[d]),
         "rivals" \in happened' \/ FindsFree(r),
         Clean' => Checked(r)' /\ face[c].pc # "column",
         happened' \cap {"lock_lost", "died", "rivals"} = {} =>
           \A u \in People : identity[u].user = "alive" /\ Finishes(face[c], u) => Finishes(r, u)
  PROVE  FaceInv'
<1>1. face'[c] = r /\ \A d \in FaceCalls \ {c} : face'[d] = face[d]
  BY DEF FaceInv, FaceTypeOK
<1>2. FaceTypeOK'
  BY DEF FaceInv, FaceTypeOK
<1>3. ASSUME NEW d \in FaceCalls PROVE CallOK(face[d])'
  <2>1. CallOK(face'[d])
    BY <1>1 DEF FaceInv
  <2> QED BY <2>1 DEF CallOK, Coherent
<1>4. OneMaker'
  BY <1>1 DEF FaceInv, OneMaker, Makes
<1>5. CacheInv'
  BY DEF FaceInv, CacheInv, Coherent
<1>6. RowInv'
  <2> SUFFICES ASSUME Clean' PROVE RowInv'
    BY DEF RowInv
  <2>1. Clean
    BY DEF Clean
  <2>2. \A u \in People : envelope[u] = column[u] \/ \E d \in FaceCalls : Behind(face'[d], u)
    BY <1>1, <2>1 DEF FaceInv, RowInv, Behind
  <2>3. \A d \in FaceCalls : Checked(face[d])'
    BY <1>1, <2>1 DEF FaceInv, RowInv, Checked
  <2>4. \A u, v \in People : u # v => ApartOrMissed(u, v)'
    BY <2>1 DEF FaceInv, RowInv, ApartOrMissed
  <2> QED BY <2>2, <2>3, <2>4 DEF RowInv, Behind
<1>7. RivalInv'
  BY <1>1 DEF FaceInv, RivalInv, FindsFree, Enrols
<1>8. StrayInv'
  BY <1>1 DEF FaceInv, StrayInv, Finishes
<1> QED BY <1>2, <1>3, <1>4, <1>5, <1>6, <1>7, <1>8 DEF FaceInv

LEMMA SearchMoves ==
  ASSUME FaceInv, NEW c \in FaceCalls, face[c] \in FaceRecord, Search(c), shared' = shared
  PROVE  /\ memory' \in [Procs -> FaceTable] /\ shared' \in FaceTable
         /\ \A u \in People : Coherent(shared'[u], u) /\ \A i \in Procs : Coherent(memory'[i][u], u)
<1>1. face[c].proc \in Procs /\ face[c].probe \in FacePoints
  BY DEF FaceRecord
<1> DEFINE loaded == Loaded(face[c].proc, face[c].probe)
<1>2. loaded \in FaceTable /\ \A u \in People : Coherent(loaded[u], u)
  BY <1>1, LoadedOK DEF FaceInv
<1>3. memory' = [memory EXCEPT ![face[c].proc] = loaded]
  BY DEF Search
<1> HIDE DEF loaded
<1>4. memory' \in [Procs -> FaceTable]
  BY <1>2, <1>3 DEF FaceInv, FaceTypeOK
<1>5. ASSUME NEW i \in Procs PROVE memory'[i] = memory[i] \/ memory'[i] = loaded
  BY <1>3 DEF FaceInv, FaceTypeOK
<1> QED BY <1>2, <1>4, <1>5 DEF FaceInv, FaceTypeOK, CacheInv

LEMMA CacheWrites ==
  ASSUME FaceInv, NEW i \in Procs, NEW u \in People, NEW p \in FacePoints \cup {NoFace},
         Coherent(p, u), Cache(i, u, p)
  PROVE  /\ memory' \in [Procs -> FaceTable] /\ shared' \in FaceTable
         /\ \A v \in People : Coherent(shared'[v], v) /\ \A j \in Procs : Coherent(memory'[j][v], v)
<1>1. memory' = [memory EXCEPT ![i] = [memory[i] EXCEPT ![u] = p]]
  BY DEF Cache, FaceInv, FaceTypeOK
<1>2. memory[i] \in FaceTable /\ [memory[i] EXCEPT ![u] = p] \in FaceTable
  BY DEF FaceInv, FaceTypeOK, FaceTable
<1>3. memory' \in [Procs -> FaceTable]
  BY <1>1, <1>2 DEF FaceInv, FaceTypeOK
<1>4. ASSUME NEW j \in Procs, NEW v \in People PROVE memory'[j][v] = memory[j][v] \/ (v = u /\ memory'[j][v] = p)
  <2>1. memory'[j] = IF j = i THEN [memory[i] EXCEPT ![u] = p] ELSE memory[j]
    BY <1>1 DEF FaceInv, FaceTypeOK
  <2> QED BY <1>2, <2>1 DEF FaceTable
<1>5. shared' = shared \/ shared' = [v \in People |-> IF v = u THEN p ELSE memory[i][v]]
  BY DEF Cache
<1>6. shared' \in FaceTable /\ \A v \in People : Coherent(shared'[v], v)
  <2>1. CASE shared' = shared
    BY <2>1 DEF FaceInv, FaceTypeOK, CacheInv
  <2>2. CASE shared' = [v \in People |-> IF v = u THEN p ELSE memory[i][v]]
    BY <1>2, <2>2 DEF FaceInv, CacheInv, FaceTable
  <2> QED BY <1>5, <2>1, <2>2
<1> QED BY <1>3, <1>4, <1>6 DEF FaceInv, CacheInv

-----------------------------------------------------------------------------
(* A call begins *)
LEMMA StartFaceStep ==
  ASSUME FaceInv, NEW c \in FaceCalls,
         NEW op \in {"lookup", "ambient", "register", "attach"}, NEW pc \in {"search", "lock"}, NEW u \in People,
         StartFaceCall(c, op, pc, u), op = "lookup" => pc = "search",
         op \in Enrolling => u \in Newcomers /\ (pc = "lock" => owner = NoCall),
         op = "attach" => identity[u].device
  PROVE  FaceInv'
<1>1. PICK p \in FacePoints, i \in Procs :
        face' = [face EXCEPT ![c] = [op |-> op, pc |-> pc, probe |-> p, proc |-> i, who |-> u, old |-> NoFace,
                               missed |-> {}]]
  BY DEF StartFaceCall
<1> DEFINE r == [op |-> op, pc |-> pc, probe |-> p, proc |-> i, who |-> u, old |-> NoFace, missed |-> {}]
<1>2. r \in FaceRecords /\ r.op = op /\ r.pc = pc /\ r.who = u /\ face' = [face EXCEPT ![c] = r]
  BY <1>1 DEF FaceRecords, FaceRecord, FacePcs
<1> HIDE DEF r
<1>3. /\ face[c].pc = "idle"
      /\ UNCHANGED <<identity, envelope, column, memory, shared, lock, owner, faults, superseded, overlooked>>
      /\ happened \subseteq happened' /\ happened' \subseteq happened \cup {"rivals"}
      /\ op \in Enrolling /\ (\E o \in FaceCalls : FBusy(o) /\ face[o].op \in Enrolling) => "rivals" \in happened'
  BY DEF StartFaceCall, FAt, KeepStore
<1>4. op \in Enrolling => identity[u].user = "none" /\ ~identity[u].device
                          /\ \A d \in FaceCalls : FBusy(d) => face[d].who # u
  BY DEF Newcomers, FaceInv, CacheInv, FaceTypeOK
<1>5. Makes(r) => \A d \in FaceCalls : Makes(face[d]) => face[d].who # r.who
  BY <1>2, <1>4 DEF Makes, FBusy, FAt, Section
<1>6. Enrols(r) => "rivals" \in happened' \/ \A d \in FaceCalls : ~Enrols(face[d])
  BY <1>2, <1>3 DEF Enrols, FBusy, FAt, FacePcs
<1>7. CallOK(r)
  BY <1>2, <1>4 DEF CallOK, Makes, Attaches, Section, Enrolling
<1>8. LockInv'
  BY <1>2, <1>3, LockStands DEF Section
<1>9. FindsFree(r) /\ Checked(r)'
  BY <1>2 DEF FindsFree, Checked, Enrols
<1> QED
  BY <1>2, <1>3, <1>5, <1>6, <1>7, <1>8, <1>9, FaceMoves DEF FaceInv, FaceTypeOK, CacheInv, Finishes

(* The steps of an identification *)
LEMMA IdentifyStep ==
  ASSUME FaceInv, NEW c \in FaceCalls, Identify(c)
  PROVE  FaceInv'
<1>1. face[c].pc = "search" /\ FBusy(c) /\ face[c] \in FaceRecord
  BY DEF Identify, FAt, FBusy, FaceInv, FaceTypeOK, FaceRecords
<1>2. /\ Search(c)
      /\ UNCHANGED <<identity, envelope, column, shared, lock, owner, faults, happened, superseded, overlooked>>
  BY DEF Identify, KeepHistory
<1>3. ASSUME NEW S \in IndexAnswers, NEW d \in Ranked(S, face[c].proc, face[c].probe)
      PROVE  DOMAIN d \subseteq People /\ Missed(S, face[c].probe) \subseteq People
  <2>1. face[c].proc \in Procs /\ face[c].probe \in FacePoints
    BY <1>1 DEF FaceRecord
  <2>2. Missed(S, face[c].probe) \subseteq People
    BY DEF Missed, Indexed
  <2> QED BY <2>1, <2>2, SearchFacts DEF FaceInv
<1>4. PICK r \in FaceRecords :
        /\ face' = [face EXCEPT ![c] = r]
        /\ \/ r.pc \in {"done", "finalize"}
           \/ r.pc = "lock" /\ owner = NoCall /\ r.op = "ambient" /\ face[c].op = r.op /\ r.who = face[c].who
        /\ r.pc # "done" => r.op = face[c].op
  <2>1. ASSUME NEW u \in People, NEW M \in SUBSET People,
               face' = [face EXCEPT ![c].pc = "finalize", ![c].who = u, ![c].missed = M]
        PROVE  \E r \in FaceRecords : face' = [face EXCEPT ![c] = r] /\ r.pc = "finalize" /\ r.op = face[c].op
    <3> DEFINE r == [face[c] EXCEPT !.pc = "finalize", !.who = u, !.missed = M]
    <3>1. r \in FaceRecord /\ r.pc = "finalize" /\ r.op = face[c].op
      BY <1>1 DEF FaceRecord, FacePcs
    <3>2. face' = [face EXCEPT ![c] = r]
      BY <2>1 DEF FaceInv, FaceTypeOK
    <3> HIDE DEF r
    <3> QED BY <3>1, <3>2 DEF FaceRecords
  <2>2. CASE FGoto(c, "done")
    BY <1>1, <2>2, FGotoFacts DEF FaceInv
  <2>3. CASE FGoto(c, "lock") /\ face[c].op = "ambient" /\ owner = NoCall
    <3>1. "lock" \in FacePcs \cup {"done"}
      BY DEF FacePcs
    <3> QED BY <1>1, <2>3, <3>1, FGotoFacts DEF FaceInv
  <2>4. \/ \E u \in People, M \in SUBSET People :
             face' = [face EXCEPT ![c].pc = "finalize", ![c].who = u, ![c].missed = M]
        \/ FGoto(c, "done")
        \/ FGoto(c, "lock") /\ face[c].op = "ambient" /\ owner = NoCall
    BY <1>3 DEF Identify
  <2> QED BY <2>1, <2>2, <2>3, <2>4
<1>5. /\ memory' \in [Procs -> FaceTable] /\ shared' \in FaceTable
      /\ \A u \in People : Coherent(shared'[u], u) /\ \A i \in Procs : Coherent(memory'[i][u], u)
  BY <1>1, <1>2, SearchMoves
<1>6. CallOK(face[c])
  BY DEF FaceInv
<1>7. CallOK(r)
  BY <1>1, <1>4, <1>6 DEF CallOK, Makes, Attaches, Section, Enrolling
<1>8. LockInv'
  BY <1>1, <1>2, <1>4, LockStands DEF Section
<1>9. Makes(r) => Makes(face[c]) /\ r.who = face[c].who
  BY <1>1, <1>4 DEF Makes, Section
<1>10. Enrols(r) => Enrols(face[c])
  BY <1>1, <1>4 DEF Enrols, FacePcs
<1>11. FindsFree(r) /\ Checked(r)'
  BY <1>4 DEF FindsFree, Checked, Enrols, FacePcs
<1>12. \A u \in People : ~Finishes(face[c], u)
  BY <1>1 DEF Finishes
<1> QED
  BY <1>1, <1>2, <1>4, <1>5, <1>7, <1>8, <1>9, <1>10, <1>11, <1>12, FaceMoves DEF FaceInv, FaceTypeOK

LEMMA HitStep ==
  ASSUME FaceInv, NEW c \in FaceCalls, FinalizeHit(c) \/ CacheHit(c)
  PROVE  FaceInv'
<1>1. face[c].pc \in {"finalize", "cache"} /\ FBusy(c) /\ face[c] \in FaceRecord /\ CallOK(face[c])
      /\ UNCHANGED <<identity, envelope, column, lock, owner, faults, happened, superseded, overlooked>>
  BY DEF FinalizeHit, CacheHit, FAt, FBusy, FaceInv, FaceTypeOK, FaceRecords, KeepStore, KeepHistory
<1>2. PICK r \in FaceRecords :
        /\ face' = [face EXCEPT ![c] = r] /\ r.pc \in {"done", "cache"}
        /\ r.pc = "cache" => r.op = face[c].op /\ Coherent(r.old, r.who)
  <2>1. CASE FinalizeHit(c)
    <3> DEFINE u == face[c].who
               r == [face[c] EXCEPT !.pc = "cache", !.old = envelope[u], !.missed = {}]
    <3>1. envelope[u] \in FacePoints \cup {NoFace} /\ u \in People
      BY <1>1 DEF FaceRecord, FaceInv, FaceTypeOK, FaceTable
    <3>2. r \in FaceRecord /\ r.pc = "cache" /\ r.op = face[c].op /\ r.old = envelope[u] /\ r.who = u
      BY <1>1, <3>1 DEF FaceRecord, FacePcs
    <3>3. CASE envelope[u] = NoFace
      BY <1>1, <2>1, <3>3, FGotoFacts DEF FinalizeHit, FaceInv
    <3>4. CASE envelope[u] # NoFace
      <4>1. face' = [face EXCEPT ![c] = r]
        BY <2>1, <3>4 DEF FinalizeHit, FaceInv, FaceTypeOK
      <4> HIDE DEF r
      <4> QED BY <3>2, <4>1 DEF FaceRecords, Coherent
    <3> QED BY <3>3, <3>4
  <2>2. CASE CacheHit(c)
    BY <1>1, <2>2, FGotoFacts DEF CacheHit, FaceInv
  <2> QED BY <2>1, <2>2
<1>3. /\ memory' \in [Procs -> FaceTable] /\ shared' \in FaceTable
      /\ \A u \in People : Coherent(shared'[u], u) /\ \A i \in Procs : Coherent(memory'[i][u], u)
  <2>1. CASE FinalizeHit(c)
    BY <2>1 DEF FinalizeHit, KeepStore, FaceInv, FaceTypeOK, CacheInv
  <2>2. CASE CacheHit(c)
    <3>1. /\ face[c].proc \in Procs /\ face[c].who \in People /\ face[c].old \in FacePoints \cup {NoFace}
          /\ Coherent(face[c].old, face[c].who)
      BY <1>1, <2>2 DEF CacheHit, FAt, FaceRecord, CallOK
    <3> QED BY <2>2, <3>1, CacheWrites DEF CacheHit
  <2> QED BY <2>1, <2>2
<1>4. CallOK(r) /\ ~Makes(r)
  BY <1>2 DEF CallOK, Makes, Attaches, Section
<1>5. LockInv'
  BY <1>1, <1>2, LockStands DEF Section
<1>6. FindsFree(r) /\ Checked(r)' /\ (Enrols(r) => Enrols(face[c])) /\ \A u \in People : ~Finishes(face[c], u)
  BY <1>1, <1>2 DEF FindsFree, Checked, Enrols, Finishes, FacePcs
<1> QED
  BY <1>1, <1>2, <1>3, <1>4, <1>5, <1>6, FaceMoves DEF FaceInv, FaceTypeOK

-----------------------------------------------------------------------------
(* The steps of an enrolment that write no row *)
LEMMA FaceGoes ==
  ASSUME FaceInv, NEW c \in FaceCalls, FBusy(c),
         NEW pc \in {"assess", "create", "envelope", "undo", "release", "bind", "done"}, FGoto(c, pc),
         UNCHANGED <<identity, envelope, column, owner, superseded>>,
         memory' \in [Procs -> FaceTable], shared' \in FaceTable, faults' \in Nat,
         \A u \in People : Coherent(shared'[u], u) /\ \A i \in Procs : Coherent(memory'[i][u], u),
         happened \subseteq happened', overlooked \subseteq overlooked',
         \/ lock' = lock /\ (pc \in Section => face[c].pc \in Section)
         \/ Unlock(c) /\ pc \notin Section
         \/ lock = NoCall /\ lock' = c,
         pc # "done" => face[c].pc \in {"lock"} \cup Section,
         pc \in {"create", "undo", "bind"} => face[c].op \in Enrolling,
         pc = "bind" => identity[face[c].who].user # "none",
         Clean' => /\ face[c].pc # "column"
                   /\ pc \in {"create", "envelope"} =>
                        \A v \in People \ {face[c].who} :
                          ~Near(face[c].probe, envelope[v]) \/ <<face[c].who, v>> \in overlooked',
         happened' \cap {"lock_lost", "died", "rivals"} = {} =>
           \A u \in People : identity[u].user = "alive" /\ Finishes(face[c], u) =>
             pc \in {"envelope", "undo", "release", "bind"}
  PROVE  FaceInv'
<1>1. pc \in FacePcs \cup {"done"}
  BY DEF FacePcs
<1>2. PICK r \in FaceRecords :
        /\ face' = [face EXCEPT ![c] = r] /\ r.pc = pc
        /\ pc # "done" => r.op = face[c].op /\ r.who = face[c].who /\ r.probe = face[c].probe
  BY <1>1, FGotoFacts DEF FaceInv
<1>3. CallOK(face[c]) /\ ("rivals" \in happened \/ FindsFree(face[c]))
  BY DEF FaceInv, RivalInv
<1>4. CallOK(r)
  BY <1>2, <1>3 DEF CallOK, Makes, Attaches, Section
<1>5. LockInv'
  BY <1>2, LockStands
<1>6. Makes(r) => Makes(face[c]) /\ r.who = face[c].who
  BY <1>2 DEF Makes, Section
<1>7. Enrols(r) => Enrols(face[c])
  BY <1>2 DEF Enrols, FacePcs, Section
<1>8. "rivals" \in happened' \/ FindsFree(r)
  BY <1>2, <1>3, <1>7 DEF FindsFree, Enrols, Section, FacePcs
<1>9. Clean' => Checked(r)'
  BY <1>2 DEF Checked
<1>10. \A u \in People : Finishes(face[c], u) /\ pc \in {"envelope", "undo", "release", "bind"} => Finishes(r, u)
  BY <1>2 DEF Finishes
<1> QED BY <1>2, <1>4, <1>5, <1>6, <1>7, <1>8, <1>9, <1>10, FaceMoves

LEMMA LockStep ==
  ASSUME FaceInv, NEW c \in FaceCalls, TryLock(c) \/ AuditEnrolled(c) \/ Release(c) \/ ConfirmTemplate(c)
  PROVE  FaceInv'
<1>1. FBusy(c) /\ UNCHANGED <<identity, envelope, column, owner, superseded, memory, shared, faults, happened, overlooked>>
  BY DEF TryLock, AuditEnrolled, Release, ConfirmTemplate, FBusy, FAt, KeepStore, KeepCache, KeepHistory
<1>2. /\ memory' \in [Procs -> FaceTable] /\ shared' \in FaceTable /\ faults' \in Nat
      /\ \A u \in People : Coherent(shared'[u], u) /\ \A i \in Procs : Coherent(memory'[i][u], u)
  BY <1>1 DEF FaceInv, FaceTypeOK, CacheInv
<1>3. CASE TryLock(c)
  <2>1. face[c].pc = "lock" /\ \A u \in People : ~Finishes(face[c], u)
    BY <1>3 DEF TryLock, FAt, Finishes
  <2>2. CASE lock = NoCall /\ lock' = c /\ FGoto(c, "assess")
    BY <1>1, <1>2, <2>1, <2>2, FaceGoes
  <2>3. CASE UNCHANGED lock /\ FGoto(c, "done")
    BY <1>1, <1>2, <2>1, <2>3, FaceGoes DEF Section
  <2> QED BY <1>3, <2>2, <2>3 DEF TryLock
<1>4. CASE AuditEnrolled(c)
  BY <1>1, <1>2, <1>4, FaceGoes DEF AuditEnrolled, FAt, KeepStore, Section
<1>5. CASE Release(c)
  <2> DEFINE created == face[c].op \in Enrolling /\ identity[face[c].who].user = "alive" /\ lock = c
  <2>1. face[c].pc = "release" /\ Unlock(c) /\ FGoto(c, IF created THEN "bind" ELSE "done")
    BY <1>5 DEF Release, FAt
  <2>2. happened' \cap {"lock_lost", "died", "rivals"} = {} => lock = c
    BY <1>1, <2>1 DEF FaceInv, LockInv, Section
  <2>3. \A u \in People : Finishes(face[c], u) => face[c].op \in Enrolling /\ u = face[c].who
    BY DEF Finishes
  <2>4. CASE created
    <3>1. FGoto(c, "bind")
      BY <2>1, <2>4
    <3> QED BY <1>1, <1>2, <2>1, <2>4, <3>1, FaceGoes DEF Section
  <2>5. CASE ~created
    <3>1. FGoto(c, "done")
      BY <2>1, <2>5
    <3> QED BY <1>1, <1>2, <2>1, <2>2, <2>3, <2>5, <3>1, FaceGoes DEF Section
  <2> QED BY <2>4, <2>5
<1>6. CASE ConfirmTemplate(c)
  <2>1. face[c].pc = "confirm" /\ FGoto(c, "done") /\ lock' = lock /\ \A u \in People : ~Finishes(face[c], u)
    BY <1>6 DEF ConfirmTemplate, FAt, Finishes, KeepStore
  <2> QED BY <1>1, <1>2, <2>1, FaceGoes DEF Section
<1> QED BY <1>3, <1>4, <1>5, <1>6

LEMMA AssessStep ==
  ASSUME IsFiniteSet(People), TopK >= 2, FaceInv, NEW c \in FaceCalls, Assess(c)
  PROVE  FaceInv'
<1>1. /\ FAt(c, "assess") /\ face[c].pc = "assess" /\ FBusy(c) /\ face[c] \in FaceRecord /\ CallOK(face[c])
      /\ UNCHANGED <<identity, envelope, column, owner, superseded, shared, lock, faults, happened>>
      /\ Search(c) /\ overlooked \subseteq overlooked'
  BY DEF Assess, FAt, FBusy, FaceInv, FaceTypeOK, FaceRecords
<1>2. /\ memory' \in [Procs -> FaceTable] /\ shared' \in FaceTable /\ faults' \in Nat
      /\ \A u \in People : Coherent(shared'[u], u) /\ \A i \in Procs : Coherent(memory'[i][u], u)
  BY <1>1, SearchMoves DEF FaceInv, FaceTypeOK
<1>3. \A u \in People : ~Finishes(face[c], u)
  BY <1>1 DEF Finishes
<1>4. face[c].op \in Enrolling \cup {"attach"}
  BY <1>1 DEF CallOK, Section
<1>5. CASE FGoto(c, "release")
  BY <1>1, <1>2, <1>3, <1>5, FaceGoes DEF Section
<1>6. ASSUME NEW S \in IndexAnswers, NEW d \in Ranked(S, face[c].proc, face[c].probe), ~Blocked(c, d),
             FGoto(c, IF face[c].op = "attach" THEN "envelope" ELSE "create"),
             overlooked' = overlooked \cup
                             {<<face[c].who, v>> : v \in Missed(S, face[c].probe) \ {face[c].who}}
      PROVE  FaceInv'
  <2>1. Clean' => \A v \in People \ {face[c].who} :
                    ~Near(face[c].probe, envelope[v]) \/ <<face[c].who, v>> \in overlooked'
    <3>1. Clean' => \A v \in People \ {face[c].who} :
                      ~Near(face[c].probe, envelope[v]) \/ v \in Missed(S, face[c].probe)
      BY <1>1, <1>6, NotBlockedIsClear DEF Clean
    <3> QED BY <1>6, <3>1
  <2>2. CASE face[c].op = "attach"
    <3>1. FGoto(c, "envelope")
      BY <1>6, <2>2
    <3> QED BY <1>1, <1>2, <1>3, <2>1, <2>2, <3>1, FaceGoes DEF Section
  <2>3. CASE face[c].op # "attach"
    <3>1. FGoto(c, "create")
      BY <1>6, <2>3
    <3> QED BY <1>1, <1>2, <1>3, <1>4, <2>1, <2>3, <3>1, FaceGoes DEF Section
  <2> QED BY <2>2, <2>3
<1> QED BY <1>5, <1>6 DEF Assess

(* A call that fails or ends leaves the rows as they are.                   *)
LEMMA FaultStep ==
  ASSUME FaceInv, NEW c \in FaceCalls, WriteFails(c) \/ CallEnds(c)
  PROVE  FaceInv'
<1>1. /\ FBusy(c) /\ face[c] \in FaceRecord /\ CallOK(face[c]) /\ faults' \in Nat
      /\ UNCHANGED <<identity, envelope, column, owner, superseded, memory, shared, overlooked>>
      /\ happened \subseteq happened'
      /\ face[c].pc = "column" => "halfway" \in happened'
  BY DEF WriteFails, CallEnds, FBusy, FAt, KeepStore, KeepCache, FaceInv, FaceTypeOK, FaceRecords
<1>2. /\ memory' \in [Procs -> FaceTable] /\ shared' \in FaceTable
      /\ \A u \in People : Coherent(shared'[u], u) /\ \A i \in Procs : Coherent(memory'[i][u], u)
  BY <1>1 DEF FaceInv, FaceTypeOK, CacheInv
<1>3. Clean' => face[c].pc # "column"
  BY <1>1 DEF Clean
<1>4. CASE WriteFails(c)
  <2>1. /\ face[c].pc \in {"envelope", "column", "audit"} /\ lock' = lock
        /\ FGoto(c, IF face[c].op = "attach" THEN "release" ELSE "undo")
    BY <1>4 DEF WriteFails, KeepStore
  <2>2. face[c].op \in Enrolling \cup {"attach"}
    BY <1>1, <2>1 DEF CallOK, Section
  <2>3. CASE face[c].op = "attach"
    <3>1. FGoto(c, "release")
      BY <2>1, <2>3
    <3> QED BY <1>1, <1>2, <1>3, <2>1, <3>1, FaceGoes DEF Section
  <2>4. CASE face[c].op # "attach"
    <3>1. FGoto(c, "undo")
      BY <2>1, <2>4
    <3> QED BY <1>1, <1>2, <1>3, <2>1, <2>2, <2>4, <3>1, FaceGoes DEF Section
  <2> QED BY <2>3, <2>4
<1>5. CASE CallEnds(c)
  <2>1. FGoto(c, "done") /\ Unlock(c) /\ "died" \in happened'
    BY <1>5 DEF CallEnds
  <2> QED BY <1>1, <1>2, <1>3, <2>1, FaceGoes DEF Section
<1> QED BY <1>4, <1>5

-----------------------------------------------------------------------------
(* The steps that write.  Whoever is in the critical section is alone in it *)
(* as long as no lock was lost.                                             *)
LEMMA SectionIsAlone ==
  ASSUME FaceInv, Clean, NEW c \in FaceCalls, face[c].pc \in Section
  PROVE  \A d \in FaceCalls \ {c} : face[d].pc \notin Section
  BY DEF FaceInv, LockInv, Clean

LEMMA CreateIdentityStep ==
  ASSUME FaceInv, NEW c \in FaceCalls, CreateIdentity(c)
  PROVE  FaceInv'
<1> DEFINE w == face[c].who
<1>1. /\ face[c].pc = "create" /\ FBusy(c) /\ face[c] \in FaceRecord /\ CallOK(face[c]) /\ w \in People
      /\ UNCHANGED <<envelope, column, memory, shared, lock, owner, faults, happened, superseded, overlooked>>
  BY DEF CreateIdentity, FAt, FBusy, FaceInv, FaceTypeOK, FaceRecords, FaceRecord, KeepCache, KeepHistory
<1>2. PICK r \in FaceRecords :
        face' = [face EXCEPT ![c] = r] /\ r.pc = "envelope" /\ r.op = face[c].op /\ r.who = w /\ r.probe = face[c].probe
  <2>1. "envelope" \in FacePcs \cup {"done"}
    BY DEF FacePcs
  <2> QED BY <1>1, <2>1, FGotoFacts DEF CreateIdentity, FaceInv
<1>3. face'[c] = r /\ \A d \in FaceCalls \ {c} : face'[d] = face[d]
  BY <1>2 DEF FaceInv, FaceTypeOK
<1>4. /\ identity' \in [People -> [user : {"none", "alive", "removed"}, device : BOOLEAN]]
      /\ \A u \in People : identity'[u].device = identity[u].device
      /\ \A u \in People \ {w} : identity'[u] = identity[u]
      /\ identity'[w].user = "alive"
  BY <1>1 DEF CreateIdentity, FaceInv, FaceTypeOK
<1> HIDE DEF w
<1>5. FaceTypeOK'
  BY <1>1, <1>2, <1>4 DEF FaceInv, FaceTypeOK
<1>6. LockInv'
  BY <1>1, <1>2, LockStands DEF Section
<1>7. ASSUME NEW d \in FaceCalls PROVE CallOK(face[d])'
  <2>1. CallOK(r)
    BY <1>1, <1>2 DEF CallOK, Makes, Attaches, Section, w
  <2>2. CallOK(face'[d]) /\ (Makes(face'[d]) \/ Attaches(face'[d]) \/ face'[d].pc = "bind" => face'[d].who \in People)
    BY <1>1, <1>2, <1>3, <2>1 DEF FaceInv, FaceTypeOK, FaceRecords, FaceRecord, Makes, Attaches, Section
  <2>3. ASSUME NEW u \in People PROVE identity[u].user # "none" => identity'[u].user # "none"
    BY <1>4
  <2>4. UNCHANGED <<envelope, superseded>>
    BY <1>1
  <2> QED BY <1>4, <2>2, <2>3, <2>4 DEF CallOK, Coherent, Makes, Attaches
<1>8. OneMaker'
  BY <1>1, <1>2, <1>3 DEF FaceInv, OneMaker, Makes, Section, w
<1>9. CacheInv'
  BY <1>1, <1>4 DEF FaceInv, CacheInv, Coherent
<1>10. RowInv'
  <2> SUFFICES ASSUME Clean PROVE RowInv'
    BY <1>1 DEF RowInv, Clean
  <2>1. Checked(r)
    BY <1>1, <1>2 DEF FaceInv, RowInv, Checked, w
  <2>2. \A d \in FaceCalls : Checked(face'[d])
    BY <1>3, <2>1 DEF FaceInv, RowInv
  <2> QED BY <1>1, <1>3, <2>2 DEF FaceInv, RowInv, Behind, Checked, ApartOrMissed
<1>11. RivalInv'
  BY <1>1, <1>2, <1>3 DEF FaceInv, RivalInv, FindsFree, Enrols, FacePcs
<1>12. StrayInv'
  <2>1. Finishes(r, w)
    BY <1>1, <1>2 DEF CallOK, Finishes, w
  <2>2. \A u \in People \ {w} : ~Finishes(face[c], u)
    BY <1>1 DEF Finishes
  <2> QED BY <1>1, <1>3, <1>4, <2>1, <2>2 DEF FaceInv, StrayInv, Finishes
<1> QED BY <1>5, <1>6, <1>7, <1>8, <1>9, <1>10, <1>11, <1>12 DEF FaceInv

LEMMA WriteEnvelopeStep ==
  ASSUME FaceInv, NEW c \in FaceCalls, WriteEnvelope(c)
  PROVE  FaceInv'
<1> DEFINE w == face[c].who
           p == face[c].probe
<1>1. /\ face[c].pc = "envelope" /\ FBusy(c) /\ face[c] \in FaceRecord /\ CallOK(face[c])
      /\ w \in People /\ p \in FacePoints
      /\ UNCHANGED <<identity, column, memory, shared, lock, owner, faults, happened, overlooked>>
  BY DEF WriteEnvelope, FAt, FBusy, FaceInv, FaceTypeOK, FaceRecords, FaceRecord, KeepCache
<1>2. PICK r \in FaceRecords :
        face' = [face EXCEPT ![c] = r] /\ r.pc = "column" /\ r.op = face[c].op /\ r.who = w /\ r.probe = p
  <2>1. "column" \in FacePcs \cup {"done"}
    BY DEF FacePcs
  <2> QED BY <1>1, <2>1, FGotoFacts DEF WriteEnvelope, FaceInv
<1>3. face'[c] = r /\ \A d \in FaceCalls \ {c} : face'[d] = face[d]
  BY <1>2 DEF FaceInv, FaceTypeOK
<1>4. /\ envelope' \in FaceTable /\ envelope'[w] = p /\ \A u \in People \ {w} : envelope'[u] = envelope[u]
      /\ superseded \subseteq superseded' /\ (envelope[w] # NoFace => w \in superseded')
  BY <1>1 DEF WriteEnvelope, FaceInv, FaceTypeOK, FaceTable
<1> HIDE DEF w, p
<1>5. \A u \in People, x \in FacePoints \cup {NoFace} : Coherent(x, u) => Coherent(x, u)'
  BY <1>4 DEF Coherent
<1>6. FaceTypeOK'
  BY <1>1, <1>2, <1>4 DEF FaceInv, FaceTypeOK
<1>7. LockInv'
  BY <1>1, <1>2, LockStands DEF Section
<1>8. p # NoFace
  BY <1>1, FacesAssumption
<1>9. ASSUME NEW d \in FaceCalls PROVE CallOK(face[d])'
  <2>1. CASE d = c
    <3>1. Coherent(r.probe, r.who)' /\ envelope'[r.who] # NoFace
      BY <1>2, <1>4, <1>8 DEF Coherent
    <3> QED BY <1>1, <1>2, <1>3, <2>1, <3>1 DEF CallOK, Makes, Attaches, Section, w, p
  <2>2. CASE d # c
    <3>1. face'[d] = face[d] /\ CallOK(face[d])
          /\ (face[d].pc \in {"column", "cache"} => face[d] \in FaceRecord)
      BY <1>3, <2>2 DEF FaceInv, FaceTypeOK, FaceRecords
    <3>2. face[d].pc = "column" => envelope'[face[d].who] # NoFace /\ Coherent(face[d].probe, face[d].who)'
      BY <1>4, <1>5, <1>8, <3>1 DEF CallOK, FaceRecord
    <3>3. face[d].pc = "cache" => Coherent(face[d].old, face[d].who)'
      BY <1>5, <3>1 DEF CallOK, FaceRecord
    <3> QED BY <1>1, <3>1, <3>2, <3>3 DEF CallOK, Makes, Attaches
  <2> QED BY <2>1, <2>2
<1>10. OneMaker'
  BY <1>1, <1>2, <1>3 DEF FaceInv, OneMaker, Makes, Section, w
<1>11. CacheInv'
  <2>1. \A u \in People : Coherent(shared[u], u)' /\ \A i \in Procs : Coherent(memory[i][u], u)'
    <3>1. ASSUME NEW u \in People
          PROVE  shared[u] \in FacePoints \cup {NoFace} /\ \A i \in Procs : memory[i][u] \in FacePoints \cup {NoFace}
      BY DEF FaceInv, FaceTypeOK, FaceTable
    <3> QED BY <1>1, <1>5, <3>1 DEF FaceInv, CacheInv
  <2> QED BY <1>1, <1>4, <1>8, <2>1 DEF FaceInv, CacheInv
<1>12. RowInv'
  <2> SUFFICES ASSUME Clean PROVE RowInv'
    BY <1>1 DEF RowInv, Clean
  <2>1. \A d \in FaceCalls \ {c} : face[d].pc \notin Section
    BY <1>1, SectionIsAlone DEF Section
  <2>2. \A u \in People : envelope'[u] = column[u] \/ \E d \in FaceCalls : Behind(face'[d], u)
    BY <1>1, <1>2, <1>3, <1>4 DEF FaceInv, RowInv, Behind
  <2>3. \A d \in FaceCalls : Checked(face[d])'
    BY <1>2, <1>3, <1>4, <2>1 DEF Checked, Section
  <2>4. \A v \in People \ {w} : ~Near(p, envelope[v]) \/ <<w, v>> \in overlooked
    BY <1>1 DEF FaceInv, RowInv, Checked, w, p
  <2>5. \A u, v \in People : u # v => ApartOrMissed(u, v)'
    <3>1. \A v \in People \ {w} : ~Near(envelope[v], p) \/ <<w, v>> \in overlooked
      BY <1>1, <2>4, FacesAgree DEF FaceInv, FaceTypeOK, FaceTable, Near
    <3> QED BY <1>1, <1>4, <2>4, <3>1 DEF FaceInv, RowInv, ApartOrMissed
  <2> QED BY <1>1, <2>2, <2>3, <2>5 DEF RowInv, Behind
<1>13. RivalInv'
  BY <1>1, <1>2, <1>3 DEF FaceInv, RivalInv, FindsFree, Enrols, FacePcs
<1>14. StrayInv'
  <2>1. \A u \in People : Finishes(face[c], u) => Finishes(r, u)
    BY <1>2 DEF Finishes, w
  <2> QED BY <1>1, <1>3, <2>1 DEF FaceInv, StrayInv, Finishes
<1> QED BY <1>6, <1>7, <1>9, <1>10, <1>11, <1>12, <1>13, <1>14 DEF FaceInv

LEMMA SyncColumnStep ==
  ASSUME FaceInv, NEW c \in FaceCalls, SyncColumn(c)
  PROVE  FaceInv'
<1> DEFINE w == face[c].who
           p == face[c].probe
<1>1. /\ face[c].pc = "column" /\ FBusy(c) /\ face[c] \in FaceRecord /\ CallOK(face[c])
      /\ w \in People /\ p \in FacePoints /\ face[c].proc \in Procs
      /\ UNCHANGED <<identity, envelope, lock, owner, faults, happened, superseded, overlooked>>
  BY DEF SyncColumn, FAt, FBusy, FaceInv, FaceTypeOK, FaceRecords, FaceRecord, KeepHistory
<1>2. PICK r \in FaceRecords :
        face' = [face EXCEPT ![c] = r] /\ r.pc = "audit" /\ r.op = face[c].op /\ r.who = w /\ r.probe = p
  <2>1. "audit" \in FacePcs \cup {"done"}
    BY DEF FacePcs
  <2> QED BY <1>1, <2>1, FGotoFacts DEF SyncColumn, FaceInv
<1>3. face'[c] = r /\ \A d \in FaceCalls \ {c} : face'[d] = face[d]
  BY <1>2 DEF FaceInv, FaceTypeOK
<1>4. column' \in FaceTable /\ column'[w] = p /\ \A u \in People \ {w} : column'[u] = column[u]
  BY <1>1 DEF SyncColumn, FaceInv, FaceTypeOK, FaceTable
<1>5. Coherent(p, w) /\ envelope[w] # NoFace
  BY <1>1 DEF CallOK
<1>6. /\ memory' \in [Procs -> FaceTable] /\ shared' \in FaceTable
      /\ \A u \in People : Coherent(shared'[u], u) /\ \A i \in Procs : Coherent(memory'[i][u], u)
  BY <1>1, <1>5, CacheWrites DEF SyncColumn
<1> HIDE DEF w, p
<1>7. FaceTypeOK'
  BY <1>1, <1>2, <1>4, <1>6 DEF FaceInv, FaceTypeOK
<1>8. LockInv'
  BY <1>1, <1>2, LockStands DEF Section
<1>9. ASSUME NEW d \in FaceCalls PROVE CallOK(face[d])'
  <2>1. CallOK(r)
    BY <1>1, <1>2 DEF CallOK, Makes, Attaches, Section, w
  <2>2. CallOK(face'[d])
    BY <1>3, <2>1 DEF FaceInv
  <2> QED BY <1>1, <2>2 DEF CallOK, Coherent
<1>10. OneMaker'
  BY <1>1, <1>2, <1>3 DEF FaceInv, OneMaker, Makes, Section, w
<1>11. CacheInv'
  BY <1>1, <1>4, <1>5, <1>6 DEF FaceInv, CacheInv, Coherent
<1>12. RowInv'
  <2> SUFFICES ASSUME Clean PROVE RowInv'
    BY <1>1 DEF RowInv, Clean
  <2>1. envelope[w] = p
    BY <1>1 DEF FaceInv, RowInv, Checked, w, p
  <2>2. \A u \in People \ {w} : ~Behind(face[c], u)
    BY DEF Behind, w
  <2>3. \A u \in People : envelope[u] = column'[u] \/ \E d \in FaceCalls : Behind(face'[d], u)
    BY <1>3, <1>4, <2>1, <2>2 DEF FaceInv, RowInv
  <2>4. \A d \in FaceCalls : Checked(face'[d])
    BY <1>2, <1>3 DEF FaceInv, RowInv, Checked
  <2> QED BY <1>1, <2>3, <2>4 DEF FaceInv, RowInv, Behind, Checked, ApartOrMissed
<1>13. RivalInv'
  BY <1>1, <1>2, <1>3 DEF FaceInv, RivalInv, FindsFree, Enrols, FacePcs
<1>14. StrayInv'
  <2>1. \A u \in People : Finishes(face[c], u) => Finishes(r, u)
    BY <1>2 DEF Finishes, w
  <2> QED BY <1>1, <1>3, <2>1 DEF FaceInv, StrayInv, Finishes
<1> QED BY <1>7, <1>8, <1>9, <1>10, <1>11, <1>12, <1>13, <1>14 DEF FaceInv

LEMMA UndoStep ==
  ASSUME FaceInv, NEW c \in FaceCalls, UndoIdentity(c)
  PROVE  FaceInv'
<1> DEFINE w == face[c].who
<1>1. /\ face[c].pc = "undo" /\ FBusy(c) /\ face[c] \in FaceRecord /\ CallOK(face[c])
      /\ w \in People /\ Unlock(c)
      /\ UNCHANGED <<memory, shared, owner, faults, happened, overlooked>>
  BY DEF UndoIdentity, FAt, FBusy, FaceInv, FaceTypeOK, FaceRecords, FaceRecord, KeepCache
<1>2. PICK r \in FaceRecords : face' = [face EXCEPT ![c] = r] /\ r.pc = "done"
  BY <1>1, FGotoFacts DEF UndoIdentity, FaceInv
<1>3. face'[c] = r /\ \A d \in FaceCalls \ {c} : face'[d] = face[d]
  BY <1>2 DEF FaceInv, FaceTypeOK
<1>4. /\ envelope' \in FaceTable /\ envelope'[w] = NoFace /\ \A u \in People \ {w} : envelope'[u] = envelope[u]
      /\ column' \in FaceTable /\ column'[w] = NoFace /\ \A u \in People \ {w} : column'[u] = column[u]
      /\ superseded' = superseded \cup {w}
  BY <1>1 DEF UndoIdentity, FaceInv, FaceTypeOK, FaceTable
<1>5. /\ identity' \in [People -> [user : {"none", "alive", "removed"}, device : BOOLEAN]]
      /\ \A u \in People : identity'[u].device = identity[u].device
      /\ \A u \in People \ {w} : identity'[u] = identity[u]
      /\ identity'[w].user = "removed"
  BY <1>1 DEF UndoIdentity, FaceInv, FaceTypeOK
<1>6. Makes(face[c])
  BY <1>1 DEF CallOK, Makes, Section
<1> HIDE DEF w
<1>7. \A u \in People : \A x : Coherent(x, u) => Coherent(x, u)'
  BY <1>4 DEF Coherent
<1>8. FaceTypeOK'
  BY <1>1, <1>2, <1>4, <1>5 DEF FaceInv, FaceTypeOK
<1>9. LockInv'
  BY <1>1, <1>2, LockStands DEF Section
<1>10. ASSUME NEW d \in FaceCalls PROVE CallOK(face[d])'
  <2>1. CASE d = c
    BY <1>2, <1>3, <2>1 DEF CallOK, Makes, Attaches, Section
  <2>2. CASE d # c
    <3>1. /\ face'[d] = face[d] /\ CallOK(face[d])
          /\ face[d].pc \in FacePcs => face[d] \in FaceRecord /\ face[d].who \in People
      BY <1>3, <2>2 DEF FaceInv, FaceTypeOK, FaceRecords, FaceRecord, FacePcs
    <3>2. Makes(face[d]) \/ Attaches(face[d]) => face[d].who # w
      BY <1>1, <1>6, <2>2, <3>1 DEF FaceInv, OneMaker, CallOK, w
    <3>3. face[d].pc = "column" => envelope'[face[d].who] # NoFace /\ Coherent(face[d].probe, face[d].who)'
      <4> SUFFICES ASSUME face[d].pc = "column" PROVE envelope'[face[d].who] # NoFace /\ Coherent(face[d].probe, face[d].who)'
        OBVIOUS
      <4>1. Makes(face[d]) \/ Attaches(face[d])
        BY <3>1 DEF CallOK, Makes, Attaches, Section
      <4>2. face[d].who \in People \ {w}
        BY <3>1, <3>2, <4>1 DEF FacePcs
      <4> QED BY <1>4, <3>1, <4>2 DEF CallOK, Coherent
    <3>4. face[d].pc = "cache" => Coherent(face[d].old, face[d].who)'
      BY <1>4, <3>1 DEF CallOK, FacePcs, Coherent
    <3>5. face[d].pc \in {"bind"} \cup {"search", "lock"} \cup Section => face[d].who \in People
      BY <3>1 DEF FacePcs, Section
    <3> QED BY <1>5, <3>1, <3>3, <3>4, <3>5 DEF CallOK, Makes, Attaches
  <2> QED BY <2>1, <2>2
<1>11. OneMaker'
  BY <1>2, <1>3 DEF FaceInv, OneMaker, Makes, Section
<1>12. CacheInv'
  BY <1>1, <1>4, <1>5, <1>7 DEF FaceInv, CacheInv, Coherent
<1>13. RowInv'
  <2> SUFFICES ASSUME Clean PROVE RowInv'
    BY <1>1 DEF RowInv, Clean
  <2>1. \A d \in FaceCalls \ {c} : face[d].pc \notin Section
    BY <1>1, SectionIsAlone DEF Section
  <2>2. \A u \in People : envelope'[u] = column'[u] \/ \E d \in FaceCalls : Behind(face'[d], u)
    BY <1>1, <1>3, <1>4 DEF FaceInv, RowInv, Behind
  <2>3. \A d \in FaceCalls : Checked(face[d])'
    BY <1>2, <1>3, <2>1 DEF Checked, Section
  <2>4. \A u, v \in People : u # v => ApartOrMissed(u, v)'
    BY <1>1, <1>4 DEF FaceInv, RowInv, ApartOrMissed, Near
  <2> QED BY <1>1, <2>2, <2>3, <2>4 DEF RowInv, Behind
<1>14. RivalInv'
  BY <1>1, <1>2, <1>3 DEF FaceInv, RivalInv, FindsFree, Enrols, FacePcs
<1>15. StrayInv'
  <2>1. \A u \in People \ {w} : ~Finishes(face[c], u)
    BY DEF Finishes, w
  <2> QED BY <1>1, <1>3, <1>5, <2>1 DEF FaceInv, StrayInv, Finishes
<1> QED BY <1>8, <1>9, <1>10, <1>11, <1>12, <1>13, <1>14, <1>15 DEF FaceInv

LEMMA BindStep ==
  ASSUME FaceInv, NEW c \in FaceCalls, BindMaster(c)
  PROVE  FaceInv'
<1> DEFINE w == face[c].who
           pc == IF face[c].op = "register" /\ owner = NoCall THEN "confirm" ELSE "done"
<1>1. /\ face[c].pc = "bind" /\ FBusy(c) /\ face[c] \in FaceRecord /\ CallOK(face[c])
      /\ w \in People /\ face[c].op \in Enrolling /\ Makes(face[c]) /\ Enrols(face[c])
      /\ UNCHANGED <<envelope, column, memory, shared, lock, faults, happened, superseded, overlooked>>
  BY DEF BindMaster, FAt, FBusy, FaceInv, FaceTypeOK, FaceRecords, FaceRecord, CallOK, Makes, Enrols, FacePcs,
         KeepCache, KeepHistory
<1>2. PICK r \in FaceRecords : face' = [face EXCEPT ![c] = r] /\ r.pc \in {"done", "confirm"}
                               /\ (r.pc = "confirm" => r.op \in Enrolling)
  <2>1. pc \in FacePcs \cup {"done"} /\ FGoto(c, pc)
    BY DEF FacePcs, BindMaster
  <2> QED BY <1>1, <2>1, FGotoFacts DEF FaceInv
<1>3. face'[c] = r /\ \A d \in FaceCalls \ {c} : face'[d] = face[d]
  BY <1>2 DEF FaceInv, FaceTypeOK
<1>4. /\ identity' \in [People -> [user : {"none", "alive", "removed"}, device : BOOLEAN]]
      /\ \A u \in People : identity'[u].user = identity[u].user
                           /\ (identity[u].device => identity'[u].device)
      /\ \A u \in People \ {w} : identity'[u] = identity[u]
      /\ owner = NoCall => identity'[w].device
  <2>1. CASE owner = NoCall
    <3>1. identity' = [identity EXCEPT ![w] = [identity[w] EXCEPT !.device = TRUE]]
      BY <1>1, <2>1 DEF BindMaster, FaceInv, FaceTypeOK
    <3>2. /\ identity[w] \in [user : {"none", "alive", "removed"}, device : BOOLEAN]
          /\ identity \in [People -> [user : {"none", "alive", "removed"}, device : BOOLEAN]]
      BY <1>1 DEF FaceInv, FaceTypeOK
    <3> HIDE DEF w
    <3> QED BY <1>1, <3>1, <3>2
  <2>2. CASE owner # NoCall
    BY <2>2 DEF BindMaster, FaceInv, FaceTypeOK
  <2> QED BY <2>1, <2>2
<1>5. identity[w].user # "none"
  BY <1>1 DEF CallOK
<1>6. "rivals" \in happened \/ owner = NoCall
  BY <1>1 DEF FaceInv, RivalInv, FindsFree
<1> HIDE DEF w, pc
<1>7. FaceTypeOK'
  BY <1>1, <1>2, <1>4 DEF FaceInv, FaceTypeOK
<1>8. LockInv'
  BY <1>1, <1>2, LockStands DEF Section
<1>9. ASSUME NEW d \in FaceCalls PROVE CallOK(face[d])'
  <2>1. CASE d = c
    BY <1>2, <1>3, <2>1 DEF CallOK, Makes, Attaches, Section
  <2>2. CASE d # c
    <3>1. /\ face'[d] = face[d] /\ CallOK(face[d])
          /\ face[d].pc \in FacePcs => face[d].who \in People
      BY <1>3, <2>2 DEF FaceInv, FaceTypeOK, FaceRecords, FaceRecord, FacePcs
    <3>2. Makes(face[d]) => ~identity'[face[d].who].device
      <4>1. Makes(face[d]) => face[d].who \in People \ {w}
        BY <1>1, <2>2, <3>1 DEF FaceInv, OneMaker, w, Makes, Section, FacePcs
      <4> QED BY <1>4, <3>1, <4>1 DEF CallOK
    <3>3. Attaches(face[d]) => identity'[face[d].who].device
      BY <1>4, <3>1 DEF CallOK, Attaches, Section, FacePcs
    <3>4. face[d].pc = "bind" => identity'[face[d].who].user # "none"
      BY <1>4, <3>1 DEF CallOK, FacePcs
    <3>5. face[d].pc = "column" => envelope'[face[d].who] # NoFace /\ Coherent(face[d].probe, face[d].who)
      BY <1>1, <3>1 DEF CallOK
    <3> QED BY <1>1, <3>1, <3>2, <3>3, <3>4, <3>5 DEF CallOK, Makes, Attaches, Coherent
  <2> QED BY <2>1, <2>2
<1>10. OneMaker'
  BY <1>2, <1>3 DEF FaceInv, OneMaker, Makes, Section
<1>11. CacheInv'
  BY <1>1, <1>4, <1>5 DEF FaceInv, CacheInv, Coherent
<1>12. RowInv'
  <2> SUFFICES ASSUME Clean PROVE RowInv'
    BY <1>1 DEF RowInv, Clean
  <2>1. \A u \in People : ~Behind(face[c], u)
    BY <1>1 DEF Behind
  <2>2. \A d \in FaceCalls : Checked(face'[d])
    BY <1>2, <1>3 DEF FaceInv, RowInv, Checked
  <2> QED BY <1>1, <1>3, <2>1, <2>2 DEF FaceInv, RowInv, Behind, Checked, ApartOrMissed
<1>13. RivalInv'
  BY <1>1, <1>2, <1>3 DEF FaceInv, RivalInv, FindsFree, Enrols, FacePcs
<1>14. StrayInv'
  <2>1. \A u \in People \ {w} : ~Finishes(face[c], u)
    BY DEF Finishes, w
  <2> QED BY <1>1, <1>3, <1>4, <1>6, <2>1 DEF FaceInv, StrayInv, Finishes
<1> QED BY <1>7, <1>8, <1>9, <1>10, <1>11, <1>12, <1>13, <1>14 DEF FaceInv

LEMMA EvictStep ==
  ASSUME FaceInv, NEW i \in Procs, EvictHot(i)
  PROVE  FaceInv'
<1>1. PICK u \in People : memory' = [memory EXCEPT ![i] = [memory[i] EXCEPT ![u] = NoFace]]
  BY DEF EvictHot, FaceInv, FaceTypeOK
<1>2. UNCHANGED <<identity, envelope, column, shared, lock, owner, face, faults, happened, superseded, overlooked>>
  BY DEF EvictHot, KeepHistory
<1>3. memory[i] \in FaceTable /\ [memory[i] EXCEPT ![u] = NoFace] \in FaceTable
  BY DEF FaceInv, FaceTypeOK, FaceTable
<1>4. memory' \in [Procs -> FaceTable]
  BY <1>1, <1>3 DEF FaceInv, FaceTypeOK
<1>5. ASSUME NEW j \in Procs, NEW v \in People PROVE memory'[j][v] = memory[j][v] \/ memory'[j][v] = NoFace
  <2>1. memory'[j] = IF j = i THEN [memory[i] EXCEPT ![u] = NoFace] ELSE memory[j]
    BY <1>1 DEF FaceInv, FaceTypeOK
  <2> QED BY <1>3, <2>1 DEF FaceTable
<1>6. FaceTypeOK' /\ CacheInv'
  BY <1>2, <1>4, <1>5 DEF FaceInv, FaceTypeOK, CacheInv, Coherent
<1> QED
  BY <1>2, <1>6 DEF FaceInv, LockInv, CallOK, OneMaker, RowInv, RivalInv, StrayInv, Coherent, Makes, Attaches,
                    Clean, Behind, Checked, ApartOrMissed, Near, Enrols, FindsFree, Finishes

LEMMA HoldTimeoutStep ==
  ASSUME FaceInv, NEW c \in FaceCalls, HoldTimeout(c)
  PROVE  FaceInv'
<1>1. /\ UNCHANGED <<identity, envelope, column, memory, shared, owner, face, superseded>>
      /\ faults' = faults + 1 /\ happened' = happened \cup {"lock_lost"}
  BY DEF HoldTimeout, KeepCache
<1>2. FaceTypeOK' /\ LockInv' /\ RowInv' /\ StrayInv'
  BY <1>1 DEF FaceInv, FaceTypeOK, LockInv, RowInv, Clean, StrayInv
<1> QED
  BY <1>1, <1>2 DEF FaceInv, CallOK, OneMaker, CacheInv, RivalInv, Coherent, Makes, Attaches, Enrols, FindsFree

-----------------------------------------------------------------------------
LEMMA StartStep ==
  ASSUME FaceInv, NEW c \in FaceCalls, LookUp(c) \/ SignInOrEnrol(c) \/ Register(c) \/ AttachTemplate(c)
  PROVE  FaceInv'
<1>1. CASE LookUp(c)
  BY <1>1, StartFaceStep DEF LookUp, Enrolling
<1>2. CASE SignInOrEnrol(c)
  BY <1>2, StartFaceStep DEF SignInOrEnrol, Newcomers
<1>3. CASE Register(c)
  BY <1>3, StartFaceStep DEF Register, Newcomers
<1>4. CASE AttachTemplate(c)
  <2>1. PICK u \in People : identity[u].device /\ StartFaceCall(c, "attach", "lock", u)
    BY <1>4 DEF AttachTemplate
  <2> QED BY <2>1, StartFaceStep DEF Enrolling
<1> QED BY <1>1, <1>2, <1>3, <1>4

LEMMA FaceNextInv ==
  ASSUME IsFiniteSet(People), TopK >= 2, FaceInv, [FaceNext]_faceVars
  PROVE  FaceInv'
<1>1. CASE UNCHANGED faceVars
  BY <1>1 DEF faceVars, FaceInv, FaceTypeOK, LockInv, CallOK, OneMaker, CacheInv, RowInv, RivalInv, StrayInv,
              Coherent, Makes, Attaches, Clean, Behind, Checked, ApartOrMissed, Near, Enrols, FindsFree, Finishes
<1>2. ASSUME NEW i \in Procs, EvictHot(i) PROVE FaceInv'
  BY <1>2, EvictStep
<1>3. ASSUME NEW c \in FaceCalls, LookUp(c) \/ SignInOrEnrol(c) \/ Register(c) \/ AttachTemplate(c) PROVE FaceInv'
  BY <1>3, StartStep
<1>4. ASSUME NEW c \in FaceCalls, Identify(c) PROVE FaceInv'
  BY <1>4, IdentifyStep
<1>5. ASSUME NEW c \in FaceCalls, FinalizeHit(c) \/ CacheHit(c) PROVE FaceInv'
  BY <1>5, HitStep
<1>6. ASSUME NEW c \in FaceCalls, TryLock(c) \/ AuditEnrolled(c) \/ Release(c) \/ ConfirmTemplate(c) PROVE FaceInv'
  BY <1>6, LockStep
<1>7. ASSUME NEW c \in FaceCalls, HoldTimeout(c) PROVE FaceInv'
  BY <1>7, HoldTimeoutStep
<1>8. ASSUME NEW c \in FaceCalls, Assess(c) PROVE FaceInv'
  BY <1>8, AssessStep
<1>9. ASSUME NEW c \in FaceCalls, CreateIdentity(c) \/ WriteEnvelope(c) \/ SyncColumn(c) PROVE FaceInv'
  BY <1>9, CreateIdentityStep, WriteEnvelopeStep, SyncColumnStep
<1>10. ASSUME NEW c \in FaceCalls, WriteFails(c) \/ CallEnds(c) PROVE FaceInv'
  BY <1>10, FaultStep
<1>11. ASSUME NEW c \in FaceCalls, UndoIdentity(c) \/ BindMaster(c) PROVE FaceInv'
  BY <1>11, UndoStep, BindStep
<1> QED
  BY <1>1, <1>2, <1>3, <1>4, <1>5, <1>6, <1>7, <1>8, <1>9, <1>10, <1>11 DEF FaceNext

(* Only an identification names someone.                                    *)
LEMMA OnlyIdentifyNames ==
  ASSUME FaceTypeOK, FaceNext, NEW c \in FaceCalls, FAt(c, "search"), face'[c].pc = "finalize"
  PROVE  Identify(c)
<1>1. face[c].pc = "search"
  BY DEF FAt
<1>2. ~ \E i \in Procs : EvictHot(i)
  BY <1>1 DEF EvictHot
<1>3. ASSUME NEW d \in FaceCalls, NEW pc, FGoto(d, pc)
      PROVE  face'[c] = face[c] \/ (d = c /\ (pc = "done" => face'[c].pc = "done"))
  BY <1>3 DEF FGoto, FaceTypeOK
<1>4. ASSUME NEW d \in FaceCalls, NEW op, NEW pc, NEW u, StartFaceCall(d, op, pc, u)
      PROVE  face'[c] = face[c]
  BY <1>1, <1>4 DEF StartFaceCall, FAt, FaceTypeOK
<1>5. ASSUME NEW d \in FaceCalls, LookUp(d) \/ SignInOrEnrol(d) \/ Register(d) \/ AttachTemplate(d)
      PROVE  FALSE
  BY <1>1, <1>4, <1>5 DEF LookUp, SignInOrEnrol, Register, AttachTemplate
<1>6. ASSUME NEW d \in FaceCalls, Identify(d) PROVE d = c
  <2>1. d # c => face'[c] = face[c]
    BY <1>6 DEF Identify, FGoto, FaceTypeOK
  <2> QED BY <1>1, <2>1
<1>7. ASSUME NEW d \in FaceCalls, FinalizeHit(d) \/ HoldTimeout(d) PROVE FALSE
  <2>1. FinalizeHit(d) => face[d].pc = "finalize" /\ d # c /\ face'[c] = face[c]
    BY <1>1 DEF FinalizeHit, FGoto, FAt, FaceTypeOK
  <2>2. HoldTimeout(d) => face' = face
    BY DEF HoldTimeout
  <2> QED BY <1>1, <1>7, <2>1, <2>2
<1>8. ASSUME NEW d \in FaceCalls,
             CacheHit(d) \/ TryLock(d) \/ Assess(d) \/ CreateIdentity(d) \/ WriteEnvelope(d) \/ SyncColumn(d)
               \/ AuditEnrolled(d) \/ WriteFails(d) \/ UndoIdentity(d) \/ Release(d) \/ BindMaster(d)
               \/ ConfirmTemplate(d)
      PROVE  FALSE
  <2>1. face[d].pc # "search" /\ \E pc : FGoto(d, pc)
    BY <1>8 DEF CacheHit, TryLock, Assess, CreateIdentity, WriteEnvelope, SyncColumn, AuditEnrolled, WriteFails,
                UndoIdentity, Release, BindMaster, ConfirmTemplate, FAt
  <2> QED BY <1>1, <1>3, <2>1
<1>9. ASSUME NEW d \in FaceCalls, CallEnds(d) PROVE FALSE
  BY <1>1, <1>3, <1>9 DEF CallEnds
<1> QED BY <1>2, <1>5, <1>6, <1>7, <1>8, <1>9 DEF FaceNext

LEMMA NamesStep ==
  ASSUME IsFiniteSet(People), FaceInv, [FaceNext]_faceVars
  PROVE  [IdentifiesOne]_faceVars
<1> SUFFICES ASSUME FaceNext, NEW c \in FaceCalls, FAt(c, "search"), face'[c].pc = "finalize",
                    face'[c].who \notin superseded
             PROVE  /\ Near(envelope[face'[c].who], face[c].probe)
                    /\ \A v \in People \ {face'[c].who} :
                         Near(envelope[v], face[c].probe) /\ envelope[v] = column[v] =>
                           v \in face'[c].missed \/ CrowdedOut \/ Dist(envelope[v], face[c].probe)
                                           - Dist(envelope[face'[c].who], face[c].probe) > Margin
  BY DEF IdentifiesOne
<1>1. Identify(c)
  BY OnlyIdentifyNames DEF FaceInv
<1>2. face[c] \in FaceRecord
  BY DEF FAt, FaceInv, FaceTypeOK, FaceRecords
<1>3. face[c].proc \in Procs /\ face[c].probe \in FacePoints
  BY <1>2 DEF FaceRecord
<1>4. ~ \E pc \in {"lock", "done"} : FGoto(c, pc)
  BY <1>2 DEF FGoto, FaceInv, FaceTypeOK, FaceRecord
<1>5. PICK S \in IndexAnswers : \E d \in Ranked(S, face[c].proc, face[c].probe) : \E u \in DOMAIN d :
        /\ Accepts(d, u)
        /\ face' = [face EXCEPT ![c].pc = "finalize", ![c].who = u, ![c].missed = Missed(S, face[c].probe)]
  BY <1>1, <1>4 DEF Identify
<1>6. PICK d \in Ranked(S, face[c].proc, face[c].probe) : \E u \in DOMAIN d :
        /\ Accepts(d, u)
        /\ face' = [face EXCEPT ![c].pc = "finalize", ![c].who = u, ![c].missed = Missed(S, face[c].probe)]
  BY <1>5
<1>7. PICK u \in DOMAIN d :
        /\ Accepts(d, u)
        /\ face' = [face EXCEPT ![c].pc = "finalize", ![c].who = u, ![c].missed = Missed(S, face[c].probe)]
  BY <1>6
<1>8. face'[c].who = u /\ face'[c].missed = Missed(S, face[c].probe)
  BY <1>2, <1>7 DEF FaceInv, FaceTypeOK, FaceRecord
<1> QED BY <1>3, <1>7, <1>8, AcceptedIsOne

(* Two identities hold faces that pass as one, an identity is left without  *)
(* a device, and identification names the wrong one of two only by what the *)
(* index missed and the faults and overlaps that are named; its answers     *)
(* must have room for two, as a person's own face may be one of them.       *)
THEOREM FacesAreSoundHolds ==
  ASSUME IsFiniteSet(People), TopK >= 2
  PROVE  FaceSpec => FacesAreSound
<1>1. FaceInv => OneIdentityPerFace
  BY DEF FaceInv, RowInv, ApartOrMissed, Clean, OneIdentityPerFace
<1>2. FaceInv => NoStrayIdentity
  <2> SUFFICES ASSUME FaceInv, NEW u \in People, identity[u].user = "alive", ~identity[u].device,
                      \A c \in FaceCalls : FBusy(c) => face[c].who # u,
                      happened \cap {"lock_lost", "died", "rivals"} = {}
               PROVE  FALSE
    BY DEF NoStrayIdentity
  <2>1. PICK c \in FaceCalls : Finishes(face[c], u)
    BY DEF FaceInv, StrayInv
  <2> QED BY <2>1 DEF Finishes, FBusy, FAt
<1>3. FaceInv /\ [FaceNext]_faceVars => [IdentifiesOne]_faceVars
  BY NamesStep
<1>4. FaceInv /\ [FaceNext]_faceVars => FaceInv'
  BY FaceNextInv
<1> QED BY <1>1, <1>2, <1>3, <1>4, FaceInitInv, PTL DEF FaceSpec, FacesAreSound
=============================================================================
