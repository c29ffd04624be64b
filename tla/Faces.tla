-------------------------------- MODULE Faces --------------------------------
(***************************************************************************)
(* Face templates (modules/trust-id): identity creation behind the         *)
(* enrollment lock and the duplicate check, re-enrolment, 1:N              *)
(* identification, and the hot vector caches of the API processes.  A face *)
(* is a point on a line, the distance of two faces is the distance of the  *)
(* points.  The index (pgvector HNSW) is external and approximate: it may  *)
(* leave out any row.                                                      *)
(***************************************************************************)
EXTENDS Integers, FiniteSets

CONSTANTS FaceCalls, People, Procs, NoFace, NoCall,
          FacePoints,   \* probes presented to the cameras
          Threshold,    \* BIOMETRIC_THRESHOLD_POLICY.threshold
          Margin,       \* BIOMETRIC_AMBIGUITY_MARGIN_DISTANCE
          TopK,         \* candidates the index returns at most
          MaxFaults     \* bound: lost locks, failed statements and deaths

ASSUME FacesAssumption ==
  /\ People # {} /\ NoCall \notin FaceCalls
  /\ FacePoints \subseteq Nat /\ NoFace \notin FacePoints
  /\ Threshold \in Nat /\ Margin \in Nat /\ TopK \in Nat \ {0} /\ MaxFaults \in Nat

VARIABLES identity,  \* users: none, alive, removed; and whether a device was made for them
          envelope,  \* embeddingJson of each person's face row
          column,    \* the pgvector column of that row
          memory,    \* hot cache of each process
          shared,    \* hot cache in Redis
          lock,      \* the advisory lock's holder
          owner,     \* the person the one install is bound to
          face,      \* what each call is doing
          faults,    \* how many went wrong
          happened,  \* history: lock_lost, halfway, rivals, died
          superseded, \* history: people whose face was replaced or withdrawn
          overlooked \* history: <<u, v>> when u was cleared while the index missed v

faceVars == <<identity, envelope, column, memory, shared, lock, owner, face,
              faults, happened, superseded, overlooked>>

Dist(a, b) == IF a > b THEN a - b ELSE b - a
Near(a, b) == a # NoFace /\ b # NoFace /\ Dist(a, b) <= Threshold

FAt(c, pc) == face[c].pc = pc
FBusy(c) == ~FAt(c, "idle") /\ ~FAt(c, "done")
FGoto(c, pc) ==  \* a finished call leaves nothing behind
  face' = [face EXCEPT ![c] = IF pc = "done" THEN [pc |-> pc] ELSE [@ EXCEPT !.pc = pc]]
KeepHistory == UNCHANGED <<faults, happened, superseded, overlooked>>
KeepStore == UNCHANGED <<identity, envelope, column, memory, shared, lock, owner>>
KeepCache == UNCHANGED <<memory, shared>>

-----------------------------------------------------------------------------
(* Search: fetchAnnTopK and searchHotVectorCache *)
Indexed == {u \in People : column[u] # NoFace}

\* The declared ef_search does not reach the query, so not even a small answer is exact.
IndexAnswers == {S \in SUBSET Indexed : Cardinality(S) <= TopK}

Exact(S, p) ==
  /\ Cardinality(S) = IF Cardinality(Indexed) < TopK THEN Cardinality(Indexed) ELSE TopK
  /\ \A a \in S, b \in Indexed \ S : Dist(column[a], p) <= Dist(column[b], p)

\* Who an answer that is not exact leaves out though the index has a face of theirs that passes.
Missed(S, p) == IF Exact(S, p) THEN {} ELSE {v \in Indexed \ S : Near(column[v], p)}

Within(cache, p) == {u \in People : Near(cache[u], p)}
Closest(cache, p) == {u \in Within(cache, p) : \A v \in Within(cache, p) : Dist(cache[u], p) <= Dist(cache[v], p)}

\* Without a hit in memory the Redis entries are loaded over it.
Loaded(i, p) == IF Within(memory[i], p) # {} THEN memory[i]
                ELSE [u \in People |-> IF shared[u] # NoFace THEN shared[u] ELSE memory[i][u]]

\* The distance of each candidate: from the envelope, or for a hot extra from the cache.
Distances(S, hot, cache, p) ==
  [u \in S \cup hot |-> Dist(p, IF u \in S THEN envelope[u] ELSE cache[u])]

Hot(cache, p) == IF Closest(cache, p) = {} THEN {{}} ELSE {{u} : u \in Closest(cache, p)}

Ranked(S, i, p) == {Distances(S, h, Loaded(i, p), p) : h \in Hot(Loaded(i, p), p)}

Search(c) == memory' = [memory EXCEPT ![face[c].proc] = Loaded(face[c].proc, face[c].probe)]

\* decideAfterRerank
Accepts_anyDistance(d, u) == \A v \in DOMAIN d \ {u} : d[v] > d[u] + Margin

Accepts(d, u) ==
  /\ d[u] <= Threshold /\ \A v \in DOMAIN d : d[u] <= d[v]
  /\ \A v \in DOMAIN d \ {u} : d[v] > Threshold \/ d[v] - d[u] > Margin

\* assessDuplicateEnrollmentCandidates, and decideDuplicate: one's own template does not block
\* re-enrolment.
Duplicates(d) == {u \in DOMAIN d : d[u] <= Threshold}

Blocked(c, d) == Duplicates(d) \ (IF face[c].op = "attach" THEN {face[c].who} ELSE {}) # {}

-----------------------------------------------------------------------------
\* A sign-in that may enrol, one that may not, a registration after consent, or a re-enrolment
\* by a signed-in person.
Enrolling == {"ambient", "register"}

StartFaceCall(c, op, pc, u) ==
  \E p \in FacePoints, i \in Procs :
    /\ FAt(c, "idle")
    /\ face' = [face EXCEPT ![c] = [op |-> op, pc |-> pc, probe |-> p, proc |-> i, who |-> u, old |-> NoFace, missed |-> {}]]
    /\ happened' = IF op \in Enrolling /\ \E o \in FaceCalls : FBusy(o) /\ face[o].op \in Enrolling
                   THEN happened \cup {"rivals"} ELSE happened
    /\ KeepStore /\ UNCHANGED <<faults, superseded, overlooked>>

Newcomers == {u \in People : identity[u].user = "none" /\ \A c \in FaceCalls : FBusy(c) => face[c].who # u}

LookUp(c) == \E u \in People : StartFaceCall(c, "lookup", "search", u)
SignInOrEnrol(c) == \E u \in Newcomers : StartFaceCall(c, "ambient", "search", u)
Register(c) == owner = NoCall /\ \E u \in Newcomers : StartFaceCall(c, "register", "lock", u)
AttachTemplate(c) ==
  \E u \in People : identity[u] = [user |-> "alive", device |-> TRUE] /\ StartFaceCall(c, "attach", "lock", u)

\* identifyOneToMany: no candidate, two that are as near, and an index that fails all end it;
\* ambientSignInAndSession enrols only on a genuine no-match, with no owner of the install.
Identify(c) ==
  /\ FAt(c, "search") /\ Search(c)
  /\ \/ FGoto(c, "done")
     \/ \E S \in IndexAnswers : \E d \in Ranked(S, face[c].proc, face[c].probe) :
          \/ \E u \in DOMAIN d :
               /\ Accepts(d, u)
               /\ face' = [face EXCEPT ![c].pc = "finalize", ![c].who = u, ![c].missed = Missed(S, face[c].probe)]
          \/ /\ face[c].op = "ambient" /\ owner = NoCall /\ \A u \in DOMAIN d : d[u] > Threshold
             /\ FGoto(c, "lock")
  /\ UNCHANGED <<identity, envelope, column, shared, lock, owner>> /\ KeepHistory

\* finalizeIdentifyHit reads the row again, and caches later what it read.
FinalizeHit(c) ==
  LET u == face[c].who IN
  /\ FAt(c, "finalize")
  /\ IF envelope[u] = NoFace THEN FGoto(c, "done")
     ELSE face' = [face EXCEPT ![c].pc = "cache", ![c].old = envelope[u], ![c].missed = {}]
  /\ KeepStore /\ KeepHistory

Cache(i, u, p) ==
  /\ memory' = [memory EXCEPT ![i][u] = p]
  /\ shared' \in {shared, [v \in People |-> IF v = u THEN p ELSE memory[i][v]]}  \* Redis is optional

CacheHit(c) ==
  /\ FAt(c, "cache") /\ FGoto(c, "done") /\ Cache(face[c].proc, face[c].who, face[c].old)
  /\ UNCHANGED <<identity, envelope, column, lock, owner>> /\ KeepHistory

\* The cache holds 256 entries; the least recently used one makes room.
EvictHot(i) ==
  \E u \in People :
    /\ memory[i][u] # NoFace /\ memory' = [memory EXCEPT ![i][u] = NoFace]
    /\ UNCHANGED <<identity, envelope, column, shared, lock, owner, face>> /\ KeepHistory

-----------------------------------------------------------------------------
(* withPostgresAdvisoryLock *)
Unlock(c) == lock' = IF lock = c THEN NoCall ELSE lock

TryLock_always(c) ==
  /\ FAt(c, "lock") /\ FGoto(c, "assess") /\ lock' = c
  /\ UNCHANGED <<identity, envelope, column, owner>> /\ KeepCache /\ KeepHistory

TryLock(c) ==
  /\ FAt(c, "lock")
  /\ \/ lock = NoCall /\ lock' = c /\ FGoto(c, "assess")
     \/ lock # NoCall /\ UNCHANGED lock /\ FGoto(c, "done")  \* the deadline: 503
  /\ UNCHANGED <<identity, envelope, column, owner>> /\ KeepCache /\ KeepHistory

\* The transaction that holds the lock times out; the critical section runs on.
HoldTimeout(c) ==
  /\ lock = c /\ faults < MaxFaults /\ faults' = faults + 1
  /\ lock' = NoCall /\ happened' = happened \cup {"lock_lost"}
  /\ UNCHANGED <<identity, envelope, column, owner, face, superseded, overlooked>> /\ KeepCache

\* A candidate, and an index that fails, refuse; an index that misses somebody clears falsely.
Assess(c) ==
  LET p == face[c].probe IN
  /\ FAt(c, "assess") /\ Search(c)
  /\ \/ FGoto(c, "release") /\ UNCHANGED overlooked
     \/ \E S \in IndexAnswers : \E d \in Ranked(S, face[c].proc, p) :
          /\ ~Blocked(c, d) /\ FGoto(c, IF face[c].op = "attach" THEN "envelope" ELSE "create")
          /\ overlooked' = overlooked \cup {<<face[c].who, v>> : v \in Missed(S, p) \ {face[c].who}}
  /\ UNCHANGED <<identity, envelope, column, shared, lock, owner, faults, happened, superseded>>

CreateIdentity(c) ==
  /\ FAt(c, "create") /\ FGoto(c, "envelope")
  /\ identity' = [identity EXCEPT ![face[c].who].user = "alive"]
  /\ UNCHANGED <<envelope, column, lock, owner>> /\ KeepCache /\ KeepHistory

\* enrollEmbedding: the row, then the vector column and the cache, then the audit entry.
WriteEnvelope(c) ==
  LET u == face[c].who IN
  /\ FAt(c, "envelope") /\ FGoto(c, "column")
  /\ envelope' = [envelope EXCEPT ![u] = face[c].probe]
  /\ superseded' = IF envelope[u] # NoFace THEN superseded \cup {u} ELSE superseded
  /\ UNCHANGED <<identity, column, lock, owner, faults, happened, overlooked>> /\ KeepCache

SyncColumn(c) ==
  /\ FAt(c, "column") /\ FGoto(c, "audit")
  /\ column' = [column EXCEPT ![face[c].who] = face[c].probe]
  /\ Cache(face[c].proc, face[c].who, face[c].probe)
  /\ UNCHANGED <<identity, envelope, lock, owner>> /\ KeepHistory

AuditEnrolled(c) ==
  /\ FAt(c, "audit") /\ FGoto(c, "release")
  /\ KeepStore /\ KeepHistory

\* A failed write: creation takes the identity away again, re-enrolment leaves what it wrote.
WriteFails(c) ==
  /\ face[c].pc \in {"envelope", "column", "audit"} /\ faults < MaxFaults /\ faults' = faults + 1
  /\ happened' = IF FAt(c, "column") THEN happened \cup {"halfway"} ELSE happened
  /\ FGoto(c, IF face[c].op = "attach" THEN "release" ELSE "undo")
  /\ KeepStore /\ UNCHANGED <<superseded, overlooked>>

UndoIdentity_forgotten(c) ==
  /\ FAt(c, "undo") /\ FGoto(c, "done") /\ Unlock(c)
  /\ UNCHANGED <<identity, envelope, column, owner>> /\ KeepCache /\ KeepHistory

UndoIdentity(c) ==
  LET u == face[c].who IN
  /\ FAt(c, "undo") /\ FGoto(c, "done") /\ Unlock(c)
  /\ identity' = [identity EXCEPT ![u].user = "removed"]
  /\ envelope' = [envelope EXCEPT ![u] = NoFace] /\ column' = [column EXCEPT ![u] = NoFace]
  /\ superseded' = superseded \cup {u}
  /\ UNCHANGED <<owner, faults, happened, overlooked>> /\ KeepCache

\* A transaction that timed out reports failure though the identity was made.
Release(c) ==
  /\ FAt(c, "release")
  /\ Unlock(c)
  /\ LET created == face[c].op \in Enrolling /\ identity[face[c].who].user = "alive" /\ lock = c IN
     FGoto(c, IF created THEN "bind" ELSE "done")
  /\ UNCHANGED <<identity, envelope, column, owner>> /\ KeepCache /\ KeepHistory

\* autoEnrollFromBiometrics: the device and Master Device follow only when the install can be bound.
BindMaster(c) ==
  /\ FAt(c, "bind") /\ FGoto(c, IF face[c].op = "register" /\ owner = NoCall THEN "confirm" ELSE "done")
  /\ IF owner = NoCall
     THEN owner' = face[c].who /\ identity' = [identity EXCEPT ![face[c].who].device = TRUE]
     ELSE UNCHANGED <<owner, identity>>
  /\ UNCHANGED <<envelope, column, lock>> /\ KeepCache /\ KeepHistory

\* registerTrustIdWithMasterDevice reads the face row back before it opens a session.
ConfirmTemplate(c) ==
  /\ FAt(c, "confirm") /\ FGoto(c, "done")
  /\ KeepStore /\ KeepHistory

\* The process of the call stops; the connection, and with it the lock, goes.
CallEnds(c) ==
  /\ FBusy(c) /\ faults < MaxFaults /\ faults' = faults + 1
  /\ FGoto(c, "done") /\ Unlock(c)
  /\ happened' = happened \cup {"died"} \cup (IF FAt(c, "column") THEN {"halfway"} ELSE {})
  /\ UNCHANGED <<identity, envelope, column, owner, superseded, overlooked>> /\ KeepCache

-----------------------------------------------------------------------------
\* The people enrolled before, on other installs, whose faces are apart and may be in Redis.
FaceInit ==
  /\ envelope \in [People -> FacePoints \cup {NoFace}]
  /\ \A u, v \in People : u # v => ~Near(envelope[u], envelope[v])
  /\ identity = [u \in People |-> [user |-> IF envelope[u] = NoFace THEN "none" ELSE "alive",
                                   device |-> envelope[u] # NoFace]]
  /\ column = envelope /\ shared \in {envelope, [u \in People |-> NoFace]}
  /\ memory = [i \in Procs |-> [u \in People |-> NoFace]]
  /\ lock = NoCall /\ owner = NoCall /\ faults = 0
  /\ face = [c \in FaceCalls |-> [pc |-> "idle"]]
  /\ happened = {} /\ superseded = {} /\ overlooked = {}

FaceNext ==
  \/ \E i \in Procs : EvictHot(i)
  \/ \E c \in FaceCalls :
       \/ LookUp(c) \/ SignInOrEnrol(c) \/ Register(c) \/ AttachTemplate(c) \/ Identify(c) \/ FinalizeHit(c) \/ CacheHit(c)
       \/ TryLock(c) \/ HoldTimeout(c) \/ Assess(c) \/ CreateIdentity(c) \/ WriteEnvelope(c)
       \/ SyncColumn(c) \/ AuditEnrolled(c) \/ WriteFails(c) \/ UndoIdentity(c) \/ Release(c)
       \/ BindMaster(c) \/ ConfirmTemplate(c) \/ CallEnds(c)

FaceSpec == FaceInit /\ [][FaceNext]_faceVars

-----------------------------------------------------------------------------
(* Two identities hold faces that pass as one only if the index left out    *)
(* the one when the other was checked, or after a critical section outlived *)
(* its lock, or stopped between the row and its vector column, which leaves *)
(* a face the duplicate check cannot find.                                  *)
OneIdentityPerFace ==
  \A u, v \in People :
    u # v /\ Near(envelope[u], envelope[v]) =>
      <<u, v>> \in overlooked \/ <<v, u>> \in overlooked \/ happened \cap {"lock_lost", "halfway"} # {}

\* Columns apart from their rows may fill the answer of the index, and keep others out of it.
Apart == {u \in People : envelope[u] # column[u]}
CrowdedOut == Cardinality(Indexed) > TopK /\ Cardinality(Apart) + 1 >= TopK

(* Identification names a person whose present face is within the threshold, *)
(* and no second person's is as close; a replaced or withdrawn face, kept    *)
(* by a hot cache, is the exception, and for the second person one the index *)
(* missed in this very search, or an exact answer of it that is filled with  *)
(* columns that are apart from their rows.                                   *)
IdentifiesOne ==
  \A c \in FaceCalls : FAt(c, "search") /\ face'[c].pc = "finalize" =>
    LET u == face'[c].who  p == face[c].probe IN
    \/ u \in superseded
    \/ /\ Near(envelope[u], p)
       /\ \A v \in People \ {u} :
            Near(envelope[v], p) /\ envelope[v] = column[v] =>
              v \in face'[c].missed \/ CrowdedOut \/ Dist(envelope[v], p) - Dist(envelope[u], p) > Margin

(* An identity is left without a device and without anyone working on it    *)
(* only when its enrolment outlived the lock, stopped, or met another one   *)
(* for the same install.                                                    *)
NoStrayIdentity ==
  \A u \in People :
    identity[u].user = "alive" /\ ~identity[u].device /\ (\A c \in FaceCalls : FBusy(c) => face[c].who # u)
      => happened \cap {"lock_lost", "died", "rivals"} # {}

(* What enrolment keeps, one identity for a face and none without a device, *)
(* and what identification names.                                           *)
FacesAreSound ==
  /\ [](OneIdentityPerFace /\ NoStrayIdentity)
  /\ [][IdentifiesOne]_faceVars
=============================================================================
