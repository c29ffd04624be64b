--------------------------- MODULE ClientsProofs ---------------------------
(* Theorems about programs away from the account server.  They hold for    *)
(* any number of calls and files; the runs of MCClients check the same     *)
(* properties on small instances.                                          *)
EXTENDS EvalStore, Updater, AssetDelivery, AmbientAuth, BiometricEngine, AppLocker, FiniteSetTheorems, SequenceTheorems, TLAPS

-----------------------------------------------------------------------------
(* The export and the evaluation store *)

(* The image of the capture being recorded was new when it was compared,    *)
(* and nothing is recorded in between.                                      *)
ComparedImageIsNew ==
  work.step = "record" => work.capture.image = NoImage \/ ImageIsNew(work.capture.image)

(* What the labelled export may hold, and what the store may hold twice.    *)
ExportIsCurrent ==
  \A c \in labeled : \/ c.subject \in folders \cup torn
                     \/ work.step = "purge" /\ work.subject = c.subject

NoDuplicates ==
  \A c, d \in captures :
     c.id # d.id => /\ c.image # d.image \/ c.image = NoImage
                    /\ c.subject # d.subject \/ c.embedding # d.embedding

EvalInv == ExportIsCurrent /\ NoDuplicates /\ ComparedImageIsNew

(* A step that adds no capture, and records none that was not compared.     *)
LEMMA NothingRecorded ==
  ASSUME EvalInv, captures' \in SUBSET captures, work'.step # "record" \/ (UNCHANGED work)
  PROVE  NoDuplicates' /\ ComparedImageIsNew'
<1>1. NoDuplicates'
  BY DEF NoDuplicates, EvalInv
<1>2. ComparedImageIsNew'
  BY DEF ComparedImageIsNew, ImageIsNew, EvalInv
<1> QED BY <1>1, <1>2

LEMMA EvalStepKeepsInv == ASSUME EvalInv, [EvalNext]_evalVars PROVE EvalInv'
<1> USE DEF Idle
<1>1. ASSUME NEW s \in Subjects, CreateParticipant(s) PROVE EvalInv'
  <2>1. ExportIsCurrent'
    BY <1>1 DEF CreateParticipant, ExportIsCurrent, EvalInv
  <2> QED BY <1>1, <2>1, NothingRecorded DEF CreateParticipant, EvalInv
<1>2. ASSUME NEW s \in Subjects, RemoveFolder(s) PROVE EvalInv'
  <2>1. ExportIsCurrent'
    BY <1>2 DEF RemoveFolder, ExportIsCurrent, EvalInv
  <2> QED BY <1>2, <2>1, NothingRecorded DEF RemoveFolder, EvalInv
<1>3. ASSUME NEW s \in Subjects, NEW sn \in EvalSessions, StartSession(s, sn) PROVE EvalInv'
  <2>1. ExportIsCurrent'
    BY <1>3 DEF StartSession, ExportIsCurrent, EvalInv
  <2> QED BY <1>3, <2>1, NothingRecorded DEF StartSession, EvalInv
<1>4. ASSUME NEW rnd \in rounds, NEW img \in Images \cup {NoImage}, NEW e \in Embeddings, StoreImage(rnd, img, e)
      PROVE EvalInv'
  <2>1. ExportIsCurrent'
    BY <1>4 DEF StoreImage, ExportIsCurrent, EvalInv
  <2>2. NoDuplicates'
    BY <1>4 DEF StoreImage, NoDuplicates, EvalInv
  <2>3. ComparedImageIsNew'
    BY <1>4 DEF StoreImage, ComparedImageIsNew, ImageIsNew
  <2> QED BY <2>1, <2>2, <2>3 DEF EvalInv
<1>5. ASSUME RejectSample PROVE EvalInv'
  <2>1. ExportIsCurrent'
    BY <1>5 DEF RejectSample, ExportIsCurrent, EvalInv
  <2> QED BY <1>5, <2>1, NothingRecorded DEF RejectSample, EvalInv
<1>6. ASSUME RecordCapture PROVE EvalInv'
  <2>1. ExportIsCurrent'
    BY <1>6 DEF RecordCapture, ExportIsCurrent, EvalInv
  <2>2. NoDuplicates'
    <3>1. \A c \in captures : c.subject = work.capture.subject => c.embedding # work.capture.embedding
      BY <1>6 DEF RecordCapture, SampleIsNew
    <3>2. work.capture.image = NoImage \/ \A c \in captures : c.image # work.capture.image
      BY <1>6 DEF RecordCapture, ComparedImageIsNew, ImageIsNew, EvalInv
    <3>3. \A c \in captures' : c \in captures \/ c = work.capture
      BY <1>6 DEF RecordCapture
    <3>4. NoDuplicates
      BY DEF EvalInv
    <3>5. ASSUME NEW c \in captures', NEW d \in captures', c.id # d.id
          PROVE (c.image # d.image \/ c.image = NoImage) /\ (c.subject # d.subject \/ c.embedding # d.embedding)
      BY <3>1, <3>2, <3>3, <3>4, <3>5 DEF NoDuplicates
    <3> QED BY <3>5 DEF NoDuplicates
  <2>3. ComparedImageIsNew'
    BY <1>6 DEF RecordCapture, ComparedImageIsNew
  <2> QED BY <2>1, <2>2, <2>3 DEF EvalInv
<1>7. ASSUME RefreshManifest PROVE EvalInv'
  <2>1. ExportIsCurrent'
    BY <1>7 DEF RefreshManifest, ExportIsCurrent, EvalInv
  <2> QED BY <1>7, <2>1, NothingRecorded DEF RefreshManifest, EvalInv
<1>8. ASSUME ExportLabeled PROVE EvalInv'
  <2>1. ExportIsCurrent'
    BY <1>8 DEF ExportLabeled, ExportIsCurrent
  <2> QED BY <1>8, <2>1, NothingRecorded DEF ExportLabeled, EvalInv
<1>9. ASSUME RemoveExport PROVE EvalInv'
  <2>1. ExportIsCurrent'
    BY <1>9 DEF RemoveExport, ExportIsCurrent
  <2> QED BY <1>9, <2>1, NothingRecorded DEF RemoveExport, EvalInv
<1>10. ASSUME Stop PROVE EvalInv'
  <2>1. ExportIsCurrent'
    BY <1>10 DEF Stop, ExportIsCurrent, EvalInv
  <2> QED BY <1>10, <2>1, NothingRecorded DEF Stop, EvalInv
<1>11. CASE UNCHANGED evalVars
  <2>1. UNCHANGED <<folders, captures, labeled, work, torn>>
    BY <1>11 DEF evalVars
  <2> QED BY <2>1 DEF EvalInv, ExportIsCurrent, NoDuplicates, ComparedImageIsNew, ImageIsNew
<1> QED BY <1>1, <1>2, <1>3, <1>4, <1>5, <1>6, <1>7, <1>8, <1>9, <1>10, <1>11 DEF EvalNext

(* However the process ends between two writes of the evaluation store, a   *)
(* deleted person's samples are in the labelled export only after a torn    *)
(* deletion and until the next export or deletion; and no image content and *)
(* no embedding of a person is stored twice.  Stated for any number of      *)
(* people, captures and ends of the process.                                *)
THEOREM DeletedLeaveTheExportHolds == EvalSpec => []DeletedLeaveTheExport
<1>1. EvalInit => EvalInv
  BY DEF EvalInit, Idle, EvalInv, ExportIsCurrent, NoDuplicates, ComparedImageIsNew
<1>2. EvalInv => DeletedLeaveTheExport
  BY DEF EvalInv, ExportIsCurrent, NoDuplicates, DeletedLeaveTheExport
<1> QED BY <1>1, <1>2, EvalStepKeepsInv, PTL DEF EvalSpec

-----------------------------------------------------------------------------
(* What the installer is given *)

Apks == {<<>>} \cup {Whole(r) : r \in Releases}

UpdTask == [op : {"check"}, user : BOOLEAN] \cup [op : {"verify"}, release : Genuine]

UpdPost == [op : {"handOff"}, user : BOOLEAN] \cup [op : {"launch"}, release : Releases, raced : BOOLEAN]

(* A finished file is whole; only releases of this package and signer wait  *)
(* for the installer.                                                       *)
UpdTypeOK ==
  /\ published \in Releases /\ installed \in Nat /\ target \in [Versions -> Apks]
  /\ pending \in Genuine \cup {NoRelease}
  /\ tasks \in Seq(UpdTask) /\ posts \in Seq(UpdPost)

(* The check's release is newer than the app from the manifest on.          *)
CheckIsNewer ==
  /\ check.pc # "none" => check.user \in BOOLEAN
  /\ check.pc \in {"open", "read", "identify"} =>
       check.release \in Releases /\ VersionOf[check.release] > installed

(* So is what waits to be verified again.                                   *)
WaitingIsNewer ==
  /\ pending # NoRelease => VersionOf[pending] > installed
  /\ \A i \in 1..Len(tasks) : tasks[i].op = "verify" => VersionOf[tasks[i].release] > installed

Verified(r) == target[VersionOf[r]] = Whole(r) /\ r \in Genuine /\ VersionOf[r] > installed

(* A launch that waits on the main thread finds the file that was verified, *)
(* or a check has changed it since.                                         *)
LaunchesAreVerified ==
  \A i \in 1..Len(posts) : posts[i].op = "launch" => posts[i].raced \/ Verified(posts[i].release)

OpenedIsVerified ==
  opened.release = NoRelease \/ opened.raced
    \/ /\ opened.found = Whole(opened.release)
       /\ opened.release \in Genuine /\ VersionOf[opened.release] > installed

UpdInv == UpdTypeOK /\ CheckIsNewer /\ WaitingIsNewer /\ LaunchesAreVerified /\ OpenedIsVerified

LEMMA VersionsAreNat == \A r \in Releases : VersionOf[r] \in Nat /\ VersionOf[r] \in Versions
BY UpdaterAssumption DEF Versions

LEMMA GenuineAreReleases == Genuine \subseteq Releases /\ NoRelease \notin Genuine
BY UpdaterAssumption

(* The end of the process empties both queues.                              *)
LEMMA ProcessGoneKeepsInv ==
  ASSUME UpdInv, ProcessGone, published' \in Releases, installed' \in Nat, UNCHANGED target, OpenedIsVerified'
  PROVE  UpdInv'
<1>1. UpdTypeOK'
  BY DEF UpdInv, UpdTypeOK, ProcessGone
<1>2. CheckIsNewer' /\ WaitingIsNewer' /\ LaunchesAreVerified'
  BY DEF ProcessGone, Resting, CheckIsNewer, WaitingIsNewer, LaunchesAreVerified
<1> QED BY <1>1, <1>2 DEF UpdInv

(* A file that changes, and the launches that are told of it.               *)
LEMMA DisturbKeepsLaunches ==
  ASSUME UpdInv, NEW r \in Releases, Disturb(VersionOf[r]), UNCHANGED installed,
         \A v \in Versions \ {VersionOf[r]} : target'[v] = target[v]
  PROVE  posts' \in Seq(UpdPost) /\ LaunchesAreVerified'
<1> DEFINE v == VersionOf[r]
           mark(i) == IF posts[i].op = "launch" /\ VersionOf[posts[i].release] = v
                      THEN [posts[i] EXCEPT !.raced = TRUE] ELSE posts[i]
<1>1. posts' = [i \in 1..Len(posts) |-> mark(i)] /\ posts \in Seq(UpdPost) /\ Len(posts) \in Nat
  BY DEF Disturb, UpdInv, UpdTypeOK
<1>2. ASSUME NEW i \in 1..Len(posts)
      PROVE  /\ mark(i) \in UpdPost /\ mark(i).op = posts[i].op
             /\ mark(i).op = "launch" => /\ mark(i).release = posts[i].release /\ posts[i].release \in Releases
                                         /\ mark(i).raced \/ VersionOf[mark(i).release] # v
                                         /\ posts[i].raced => mark(i).raced
  <2>1. posts[i] \in UpdPost
    BY <1>1
  <2> QED BY <2>1 DEF UpdPost
<1> HIDE DEF mark
<1>3. posts' \in Seq(UpdPost) /\ Len(posts') = Len(posts) /\ \A i \in 1..Len(posts) : posts'[i] = mark(i)
  BY <1>1, <1>2
<1>4. ASSUME NEW i \in 1..Len(posts'), posts'[i].op = "launch" PROVE (posts[i].raced \/ Verified(posts[i].release))'
  <2>1. /\ posts'[i] = mark(i) /\ i \in 1..Len(posts) /\ posts[i].op = "launch"
        /\ posts'[i].release = posts[i].release /\ posts[i].release \in Releases
    BY <1>2, <1>3, <1>4
  <2>2. CASE mark(i).raced
    BY <2>1, <2>2
  <2>3. CASE ~mark(i).raced
    <3>1. ~posts[i].raced /\ VersionOf[posts[i].release] # v
      BY <1>2, <2>1, <2>3
    <3>2. Verified(posts[i].release)
      BY <2>1, <3>1 DEF UpdInv, LaunchesAreVerified
    <3>3. VersionOf[posts[i].release] \in Versions \ {v}
      BY <2>1, <3>1, VersionsAreNat
    <3>4. target'[VersionOf[posts[i].release]] = target[VersionOf[posts[i].release]]
      BY <3>3
    <3> QED BY <2>1, <3>2, <3>4 DEF Verified
  <2> QED BY <2>2, <2>3
<1> QED BY <1>3, <1>4 DEF LaunchesAreVerified

(* Steps of the main thread and of the world that leave the files, the      *)
(* worker's check and the app alone.                                        *)
LEMMA QueuesKeepInv ==
  ASSUME UpdInv, published' \in Releases, UNCHANGED <<installed, target, check, pending, opened>>,
         tasks' \in Seq(UpdTask), posts' \in Seq(UpdPost),
         \A i \in 1..Len(tasks') : tasks'[i].op = "verify" =>
            VersionOf[tasks'[i].release] > installed,
         \A i \in 1..Len(posts') : posts'[i].op = "launch" => posts'[i].raced \/ Verified(posts'[i].release)
  PROVE  UpdInv'
BY DEF UpdInv, UpdTypeOK, CheckIsNewer, WaitingIsNewer, LaunchesAreVerified, OpenedIsVerified, Verified

LEMMA TailKeepsTasks ==
  ASSUME UpdInv, tasks # <<>>
  PROVE  /\ Head(tasks) \in UpdTask /\ Tail(tasks) \in Seq(UpdTask)
         /\ Head(tasks).op = "verify" => VersionOf[Head(tasks).release] > installed
         /\ \A i \in 1..Len(Tail(tasks)) : Tail(tasks)[i].op = "verify" => VersionOf[Tail(tasks)[i].release] > installed
<1>1. tasks \in Seq(UpdTask) /\ Len(tasks) \in Nat \ {0}
  BY DEF UpdInv, UpdTypeOK
<1>2. Head(tasks) = tasks[1] /\ Tail(tasks) \in Seq(UpdTask) /\ Len(Tail(tasks)) = Len(tasks) - 1
      /\ \A i \in 1..Len(Tail(tasks)) : Tail(tasks)[i] = tasks[i + 1] /\ i + 1 \in 1..Len(tasks)
  BY <1>1
<1> QED BY <1>1, <1>2 DEF UpdInv, WaitingIsNewer

LEMMA TailKeepsPosts ==
  ASSUME UpdInv, posts # <<>>
  PROVE  /\ Head(posts) \in UpdPost /\ Tail(posts) \in Seq(UpdPost)
         /\ Head(posts).op = "launch" => Head(posts).raced \/ Verified(Head(posts).release)
         /\ \A i \in 1..Len(Tail(posts)) : Tail(posts)[i].op = "launch" =>
               Tail(posts)[i].raced \/ Verified(Tail(posts)[i].release)
<1>1. posts \in Seq(UpdPost) /\ Len(posts) \in Nat \ {0}
  BY DEF UpdInv, UpdTypeOK
<1>2. Head(posts) = posts[1] /\ Tail(posts) \in Seq(UpdPost) /\ Len(Tail(posts)) = Len(posts) - 1
      /\ \A i \in 1..Len(Tail(posts)) : Tail(posts)[i] = posts[i + 1] /\ i + 1 \in 1..Len(posts)
  BY <1>1
<1> QED BY <1>1, <1>2 DEF UpdInv, LaunchesAreVerified

(* handOff schedules the release that waits, or nothing.                    *)
LEMMA HandOffKeepsTasks ==
  ASSUME UpdInv, NEW user, HandOff(user)
  PROVE  /\ tasks' \in Seq(UpdTask)
         /\ \A i \in 1..Len(tasks') : tasks'[i].op = "verify" => VersionOf[tasks'[i].release] > installed
<1>1. tasks \in Seq(UpdTask) /\ Len(tasks) \in Nat
  BY DEF UpdInv, UpdTypeOK
<1>2. CASE UNCHANGED tasks
  BY <1>1, <1>2 DEF UpdInv, WaitingIsNewer
<1>3. CASE pending # NoRelease /\ tasks' = Append(tasks, [op |-> "verify", release |-> pending])
  <2> DEFINE t == [op |-> "verify", release |-> pending]
  <2>1. t \in UpdTask /\ t.release = pending /\ VersionOf[pending] > installed
    BY <1>3 DEF UpdInv, UpdTypeOK, WaitingIsNewer, UpdTask
  <2> HIDE DEF t
  <2>2. /\ tasks' \in Seq(UpdTask) /\ Len(tasks') = Len(tasks) + 1 /\ tasks'[Len(tasks) + 1] = t
        /\ \A i \in 1..Len(tasks) : tasks'[i] = tasks[i]
    BY <1>1, <1>3, <2>1 DEF t
  <2>3. \A i \in 1..Len(tasks') : i \in 1..Len(tasks) \/ i = Len(tasks) + 1
    BY <1>1, <2>2
  <2> QED BY <2>1, <2>2, <2>3 DEF UpdInv, WaitingIsNewer
<1> QED BY <1>2, <1>3 DEF HandOff

(* A launch is posted after the file was hashed again.                      *)
LEMMA PostKeepsPosts ==
  ASSUME UpdInv, NEW p \in UpdPost, posts' = Append(posts, p),
         p.op = "launch" => p.raced \/ Verified(p.release)
  PROVE  /\ posts' \in Seq(UpdPost)
         /\ \A i \in 1..Len(posts') : posts'[i].op = "launch" => posts'[i].raced \/ Verified(posts'[i].release)
<1>1. posts \in Seq(UpdPost) /\ Len(posts) \in Nat
  BY DEF UpdInv, UpdTypeOK
<1>2. /\ posts' \in Seq(UpdPost) /\ Len(posts') = Len(posts) + 1 /\ posts'[Len(posts) + 1] = p
      /\ \A i \in 1..Len(posts) : posts'[i] = posts[i]
  BY <1>1
<1>3. \A i \in 1..Len(posts') : i \in 1..Len(posts) \/ i = Len(posts) + 1
  BY <1>1, <1>2
<1> QED BY <1>2, <1>3 DEF UpdInv, LaunchesAreVerified

LEMMA UpdStepKeepsInv == ASSUME UpdInv, [UpdNext]_updVars PROVE UpdInv'
<1>a. UpdTypeOK /\ CheckIsNewer /\ WaitingIsNewer /\ LaunchesAreVerified /\ OpenedIsVerified
  BY DEF UpdInv
<1>1. ASSUME NEW r \in Releases, Publish(r) PROVE UpdInv'
  BY <1>1, <1>a, QueuesKeepInv DEF Publish, KeepFiles, KeepMain, UpdTypeOK, WaitingIsNewer, LaunchesAreVerified
<1>2. ASSUME NEW user \in BOOLEAN, CheckNow(user) PROVE UpdInv'
  <2> DEFINE t == [op |-> "check", user |-> user]
  <2>1. tasks \in Seq(UpdTask) /\ Len(tasks) \in Nat /\ t \in UpdTask /\ t.op = "check" /\ tasks' = Append(tasks, t)
    BY <1>2, <1>a DEF UpdTypeOK, UpdTask, CheckNow, Schedule
  <2> HIDE DEF t
  <2>2. /\ tasks' \in Seq(UpdTask) /\ Len(tasks') = Len(tasks) + 1 /\ tasks'[Len(tasks) + 1] = t
        /\ \A i \in 1..Len(tasks) : tasks'[i] = tasks[i]
    BY <2>1
  <2>3. \A i \in 1..Len(tasks') : i \in 1..Len(tasks) \/ i = Len(tasks) + 1
    BY <2>1, <2>2
  <2>4. \A i \in 1..Len(tasks') : tasks'[i].op = "verify" => VersionOf[tasks'[i].release] > installed
    BY <1>a, <2>1, <2>2, <2>3 DEF WaitingIsNewer
  <2>5. UNCHANGED <<published, installed, target, check, pending, opened, posts>>
    BY <1>2 DEF CheckNow, KeepFiles, KeepWorld, KeepMain
  <2>6. \A i \in 1..Len(posts') : posts'[i].op = "launch" => posts'[i].raced \/ Verified(posts'[i].release)
    BY <1>a, <2>5 DEF LaunchesAreVerified
  <2> QED BY <1>a, <2>2, <2>4, <2>5, <2>6, QueuesKeepInv DEF UpdTypeOK
<1>3. ASSUME AllowInstalls \/ OnPause PROVE UpdInv'
  <2>1. UNCHANGED <<published, installed, target, check, pending, opened, posts, tasks>>
    BY <1>3 DEF AllowInstalls, OnPause, KeepFiles, KeepWorld
  <2> QED BY <1>a, <2>1, QueuesKeepInv DEF UpdTypeOK, WaitingIsNewer, LaunchesAreVerified
<1>4. ASSUME ProcessEnds PROVE UpdInv'
  <2>1. ProcessGone /\ UNCHANGED <<published, installed, target, opened>>
    BY <1>4 DEF ProcessEnds, KeepFiles, KeepWorld
  <2> QED BY <1>a, <2>1, ProcessGoneKeepsInv DEF UpdTypeOK, OpenedIsVerified
<1>5. ASSUME InstallerInstalls PROVE UpdInv'
  <2>1. ProcessGone /\ UNCHANGED <<target, published>> /\ opened' = [opened EXCEPT !.release = NoRelease]
    BY <1>5 DEF InstallerInstalls, KeepFiles
  <2>2. opened.release \in Genuine /\ installed' = VersionOf[opened.release]
    BY <1>5 DEF InstallerInstalls
  <2>3. installed' \in Nat
    BY <2>2, VersionsAreNat, GenuineAreReleases
  <2>4. OpenedIsVerified'
    BY <2>1 DEF OpenedIsVerified
  <2> QED BY <1>a, <2>1, <2>3, <2>4, ProcessGoneKeepsInv DEF UpdTypeOK
<1>6. ASSUME OnResume PROVE UpdInv'
  <2>1. HandOff(FALSE) /\ UNCHANGED <<published, installed, target, check, pending, opened, posts>>
    BY <1>6 DEF OnResume, KeepFiles, KeepWorld
  <2>2. \A i \in 1..Len(posts') : posts'[i].op = "launch" => posts'[i].raced \/ Verified(posts'[i].release)
    BY <1>a, <2>1 DEF LaunchesAreVerified
  <2>3. /\ tasks' \in Seq(UpdTask)
        /\ \A i \in 1..Len(tasks') : tasks'[i].op = "verify" => VersionOf[tasks'[i].release] > installed
    BY <2>1, HandOffKeepsTasks
  <2> QED BY <1>a, <2>1, <2>2, <2>3, QueuesKeepInv DEF UpdTypeOK
<1>7. ASSUME PostedHandOff PROVE UpdInv'
  <2>1. /\ posts # <<>> /\ posts' = Tail(posts) /\ HandOff(Head(posts).user)
        /\ UNCHANGED <<published, installed, target, check, pending, opened>>
    BY <1>7 DEF PostedHandOff, KeepFiles, KeepWorld
  <2>2. /\ posts' \in Seq(UpdPost)
        /\ \A i \in 1..Len(posts') : posts'[i].op = "launch" => posts'[i].raced \/ Verified(posts'[i].release)
    BY <2>1, TailKeepsPosts
  <2>3. /\ tasks' \in Seq(UpdTask)
        /\ \A i \in 1..Len(tasks') : tasks'[i].op = "verify" => VersionOf[tasks'[i].release] > installed
    BY <2>1, HandOffKeepsTasks
  <2> QED BY <1>a, <2>1, <2>2, <2>3, QueuesKeepInv DEF UpdTypeOK
<1>8. ASSUME LaunchInstaller PROVE UpdInv'
  <2> DEFINE r == Head(posts).release
  <2>1. /\ posts # <<>> /\ Head(posts).op = "launch" /\ posts' = Tail(posts)
        /\ opened' = [release |-> r, found |-> target[VersionOf[r]], raced |-> Head(posts).raced]
        /\ UNCHANGED <<published, installed, target, check, pending, tasks>>
    BY <1>8 DEF LaunchInstaller, KeepFiles, KeepWorld
  <2>2. /\ posts' \in Seq(UpdPost)
        /\ \A i \in 1..Len(posts') : posts'[i].op = "launch" => posts'[i].raced \/ Verified(posts'[i].release)
        /\ Head(posts).raced \/ Verified(r)
    BY <2>1, TailKeepsPosts
  <2>3. OpenedIsVerified'
    BY <2>1, <2>2 DEF OpenedIsVerified, Verified
  <2>4. UpdTypeOK' /\ CheckIsNewer' /\ WaitingIsNewer' /\ LaunchesAreVerified'
    BY <1>a, <2>1, <2>2 DEF UpdTypeOK, CheckIsNewer, WaitingIsNewer, LaunchesAreVerified, Verified
  <2> QED BY <2>3, <2>4 DEF UpdInv
<1>9. ASSUME StartCheck PROVE UpdInv'
  <2>1. /\ tasks # <<>> /\ Head(tasks).op = "check" /\ tasks' = Tail(tasks)
        /\ target' = [v \in Versions |-> IF v <= installed THEN <<>> ELSE target[v]]
        /\ check' = [pc |-> "manifest", user |-> Head(tasks).user]
        /\ UNCHANGED <<published, installed, pending, posts, opened>>
    BY <1>9 DEF StartCheck, KeepWorld, KeepMain
  <2>2. /\ tasks' \in Seq(UpdTask) /\ Head(tasks).user \in BOOLEAN
        /\ \A i \in 1..Len(tasks') : tasks'[i].op = "verify" => VersionOf[tasks'[i].release] > installed
    BY <2>1, TailKeepsTasks DEF UpdTask
  <2>3. target' \in [Versions -> Apks]
    BY <1>a, <2>1 DEF UpdTypeOK, Apks
  <2>4. UpdTypeOK' /\ CheckIsNewer' /\ WaitingIsNewer' /\ OpenedIsVerified'
    BY <1>a, <2>1, <2>2, <2>3 DEF UpdTypeOK, CheckIsNewer, WaitingIsNewer, OpenedIsVerified
  <2>5. \A r \in Genuine : Verified(r) => Verified(r)'
    <3>1. ASSUME NEW r \in Genuine, VersionOf[r] > installed PROVE target'[VersionOf[r]] = target[VersionOf[r]]
      <4>1. VersionOf[r] \in Nat /\ VersionOf[r] \in Versions /\ installed \in Nat
        BY <1>a, VersionsAreNat, GenuineAreReleases DEF UpdTypeOK
      <4> QED BY <2>1, <3>1, <4>1
    <3> QED BY <2>1, <3>1 DEF Verified
  <2>6. LaunchesAreVerified'
    <3>1. \A i \in 1..Len(posts) : Verified(posts[i].release) => posts[i].release \in Genuine
      BY DEF Verified
    <3>2. \A i \in 1..Len(posts) : Verified(posts[i].release) => Verified(posts[i].release)'
      <4>1. ASSUME NEW i \in 1..Len(posts), Verified(posts[i].release)
            PROVE  target'[VersionOf[posts[i].release]] = Whole(posts[i].release)
        BY <2>5, <3>1, <4>1 DEF Verified
      <4> QED BY <2>1, <4>1 DEF Verified
    <3> QED BY <1>a, <2>1, <3>2 DEF LaunchesAreVerified
  <2> QED BY <2>4, <2>6 DEF UpdInv
<1>10. ASSUME NoManifest \/ Interrupted \/ DownloadFails \/ ReadBlock PROVE UpdInv'
  <2>1. UNCHANGED <<published, installed, target, pending, tasks, posts, opened>>
    BY <1>10 DEF NoManifest, Interrupted, DownloadFails, ReadBlock, KeepFiles, KeepWorld, KeepMain
  <2>2. CheckIsNewer'
    <3>1. check.pc \in {"manifest", "read"}
      BY <1>10 DEF NoManifest, Interrupted, DownloadFails, ReadBlock, CheckIn
    <3>2. check' = check \/ check' = Resting
            \/ /\ check.pc = "read"
               /\ \E stalled \in {0, check.stalled + 1} :
                    check' = [pc |-> "open", user |-> check.user, release |-> check.release, stalled |-> stalled]
      BY <1>10 DEF NoManifest, Interrupted, DownloadFails, ReadBlock, EndCheck, CheckIn
    <3> QED BY <1>a, <2>1, <3>1, <3>2 DEF CheckIsNewer, Resting
  <2> QED BY <1>a, <2>1, <2>2 DEF UpdInv, UpdTypeOK, WaitingIsNewer, LaunchesAreVerified, Verified, OpenedIsVerified
<1>11. ASSUME UpToDate PROVE UpdInv'
  <2>1. /\ pending' = NoRelease /\ check' = Resting
        /\ UNCHANGED <<published, installed, target, tasks, posts, opened>>
    BY <1>11 DEF UpToDate, EndCheck, KeepFiles, KeepWorld, KeepMain
  <2> QED BY <1>a, <2>1 DEF UpdInv, UpdTypeOK, CheckIsNewer, Resting, WaitingIsNewer, LaunchesAreVerified, Verified,
                            OpenedIsVerified
<1>12. ASSUME UpdateAvailable PROVE UpdInv'
  <2> DEFINE r == published
             v == VersionOf[r]
             mark(i) == IF posts[i].op = "launch" /\ target'[VersionOf[posts[i].release]] # target[VersionOf[posts[i].release]]
                        THEN [posts[i] EXCEPT !.raced = TRUE] ELSE posts[i]
  <2>1. /\ check.pc = "manifest" /\ v > installed
        /\ posts' = [i \in 1..Len(posts) |-> mark(i)]
        /\ UNCHANGED <<published, installed, pending, tasks, opened>>
        /\ r \in Releases
    BY <1>12, <1>a DEF UpdateAvailable, KeepWorld, CheckIn, UpdTypeOK
  <2>2. target' \in [Versions -> Apks]
    <3>1. \A w \in Versions : Cleaned(target, v)[w] \in Apks
      BY <1>a DEF Cleaned, UpdTypeOK, Apks
    <3>2. Cleaned(target, v) \in [Versions -> Apks]
      BY <3>1 DEF Cleaned
    <3>3. <<>> \in Apks /\ v \in Versions
      BY <2>1, VersionsAreNat DEF Apks
    <3>4. target' = [Cleaned(target, v) EXCEPT ![v] = IF Cleaned(target, v)[v] = Whole(r) THEN Cleaned(target, v)[v] ELSE <<>>]
      BY <1>12 DEF UpdateAvailable
    <3> QED BY <3>2, <3>3, <3>4
  <2>3. CheckIsNewer'
    <3>1. check' = [pc |-> IF target'[v] = Whole(r) THEN "identify" ELSE "open",
                    user |-> check.user, release |-> r, stalled |-> 0]
      BY <1>12 DEF UpdateAvailable
    <3> QED BY <1>12, <1>a, <2>1, <3>1 DEF CheckIsNewer
  <2>4. posts \in Seq(UpdPost) /\ Len(posts) \in Nat
    BY <1>a DEF UpdTypeOK
  <2>5. ASSUME NEW i \in 1..Len(posts)
        PROVE  /\ mark(i) \in UpdPost /\ mark(i).op = posts[i].op
               /\ mark(i).op = "launch" =>
                    /\ mark(i).release = posts[i].release
                    /\ mark(i).raced \/ target'[VersionOf[posts[i].release]] = target[VersionOf[posts[i].release]]
                    /\ posts[i].raced => mark(i).raced
    <3>1. posts[i] \in UpdPost
      BY <2>4
    <3> QED BY <3>1 DEF UpdPost
  <2> HIDE DEF mark
  <2>6. posts' \in Seq(UpdPost) /\ Len(posts') = Len(posts) /\ \A i \in 1..Len(posts) : posts'[i] = mark(i)
    BY <2>1, <2>4, <2>5
  <2>7. LaunchesAreVerified'
    <3>1. ASSUME NEW i \in 1..Len(posts'), posts'[i].op = "launch"
          PROVE  (posts[i].raced \/ Verified(posts[i].release))'
      <4>1. /\ posts'[i] = mark(i) /\ i \in 1..Len(posts) /\ posts[i].op = "launch"
            /\ posts'[i].release = posts[i].release
        BY <2>5, <2>6, <3>1
      <4>2. CASE ~mark(i).raced
        <5>1. ~posts[i].raced /\ target'[VersionOf[posts[i].release]] = target[VersionOf[posts[i].release]]
          BY <2>5, <4>1, <4>2
        <5>2. Verified(posts[i].release)
          BY <1>a, <4>1, <5>1 DEF LaunchesAreVerified
        <5> QED BY <2>1, <4>1, <5>1, <5>2 DEF Verified
      <4> QED BY <4>1, <4>2
    <3> QED BY <3>1 DEF LaunchesAreVerified
  <2> QED BY <1>a, <2>1, <2>2, <2>3, <2>6, <2>7 DEF UpdInv, UpdTypeOK, WaitingIsNewer, OpenedIsVerified
<1>13. ASSUME OpenDownload PROVE UpdInv'
  <2>1. check.pc = "open" /\ UNCHANGED <<published, installed, target, pending, tasks, posts, opened>>
    BY <1>13 DEF OpenDownload, CheckIn, KeepWorld, KeepMain
  <2>4. check'.pc = "read" /\ check'.user = check.user /\ check'.release = check.release
    BY <1>13 DEF OpenDownload
  <2>5. CheckIsNewer'
    BY <1>a, <2>1, <2>4 DEF CheckIsNewer
  <2> QED BY <1>a, <2>1, <2>5 DEF UpdInv, UpdTypeOK, WaitingIsNewer, LaunchesAreVerified, Verified, OpenedIsVerified
<1>14. ASSUME FinishDownload PROVE UpdInv'
  <2> DEFINE r == check.release
             v == VersionOf[r]
  <2>1. /\ check.pc = "read" /\ UNCHANGED <<published, installed, pending, tasks, opened>>
        /\ check.user \in BOOLEAN /\ r \in Releases /\ v > installed
    BY <1>14, <1>a DEF FinishDownload, CheckIn, KeepWorld, CheckIsNewer
  <2>2. CASE part[v] = Whole(r)
    <3>1. /\ target' = [target EXCEPT ![v] = Whole(r)] /\ Disturb(v)
          /\ check' = [pc |-> "identify", user |-> check.user, release |-> r]
      BY <1>14, <2>2 DEF FinishDownload
    <3>2. target' \in [Versions -> Apks] /\ \A w \in Versions \ {v} : target'[w] = target[w]
      BY <1>a, <2>1, <3>1 DEF UpdTypeOK, Apks
    <3>3. posts' \in Seq(UpdPost) /\ LaunchesAreVerified'
      BY <2>1, <3>1, <3>2, DisturbKeepsLaunches
    <3>4. CheckIsNewer'
      BY <2>1, <3>1 DEF CheckIsNewer
    <3> QED BY <1>a, <2>1, <3>2, <3>3, <3>4 DEF UpdInv, UpdTypeOK, WaitingIsNewer, OpenedIsVerified
  <2>3. CASE part[v] # Whole(r)
    <3>1. UNCHANGED <<target, posts>> /\ check' = Resting
      BY <1>14, <2>3 DEF FinishDownload, EndCheck
    <3> QED BY <1>a, <2>1, <3>1 DEF UpdInv, UpdTypeOK, CheckIsNewer, Resting, WaitingIsNewer, LaunchesAreVerified,
                                    Verified, OpenedIsVerified
  <2> QED BY <2>2, <2>3
<1>15. ASSUME Identify PROVE UpdInv'
  <2> DEFINE r == check.release
             v == VersionOf[r]
  <2>1. /\ check.pc = "identify" /\ check' = Resting /\ UNCHANGED <<published, installed, tasks, opened>>
        /\ check.user \in BOOLEAN /\ r \in Releases /\ v > installed
    BY <1>15, <1>a DEF Identify, CheckIn, EndCheck, KeepWorld, CheckIsNewer
  <2>2. CASE r \in Genuine
    <3> DEFINE p == [op |-> "handOff", user |-> check.user]
    <3>1. /\ pending' = r /\ UNCHANGED target /\ posts' = Append(posts, p) /\ p \in UpdPost /\ p.op = "handOff"
      BY <1>15, <2>1, <2>2 DEF Identify, UpdPost
    <3> HIDE DEF p
    <3>2. /\ posts' \in Seq(UpdPost)
          /\ \A i \in 1..Len(posts') : posts'[i].op = "launch" => posts'[i].raced \/ Verified(posts'[i].release)
      BY <3>1, PostKeepsPosts
    <3>3. LaunchesAreVerified'
      BY <2>1, <3>1, <3>2 DEF LaunchesAreVerified, Verified
    <3> QED BY <1>a, <2>1, <2>2, <3>1, <3>2, <3>3 DEF UpdInv, UpdTypeOK, CheckIsNewer, Resting, WaitingIsNewer,
                                                    OpenedIsVerified
  <2>3. CASE r \notin Genuine
    <3>1. target' = [target EXCEPT ![v] = <<>>] /\ Disturb(v) /\ UNCHANGED pending
      BY <1>15, <2>3 DEF Identify
    <3>2. target' \in [Versions -> Apks] /\ \A w \in Versions \ {v} : target'[w] = target[w]
      BY <1>a, <3>1 DEF UpdTypeOK, Apks
    <3>3. posts' \in Seq(UpdPost) /\ LaunchesAreVerified'
      BY <2>1, <3>1, <3>2, DisturbKeepsLaunches
    <3> QED BY <1>a, <2>1, <3>1, <3>2, <3>3 DEF UpdInv, UpdTypeOK, CheckIsNewer, Resting, WaitingIsNewer, OpenedIsVerified
  <2> QED BY <2>2, <2>3
<1>16. ASSUME VerifyAgain PROVE UpdInv'
  <2> DEFINE r == Head(tasks).release
             v == VersionOf[r]
  <2>1. /\ tasks # <<>> /\ Head(tasks).op = "verify" /\ tasks' = Tail(tasks)
        /\ UNCHANGED <<published, installed, check, opened>>
    BY <1>16 DEF VerifyAgain, KeepWorld
  <2>2. /\ tasks' \in Seq(UpdTask) /\ r \in Genuine /\ v > installed
        /\ \A i \in 1..Len(tasks') : tasks'[i].op = "verify" => VersionOf[tasks'[i].release] > installed
    BY <2>1, TailKeepsTasks DEF UpdTask
  <2>3. CASE target[v] = Whole(r)
    <3> DEFINE p == [op |-> "launch", release |-> r, raced |-> FALSE]
    <3>1. /\ posts' = Append(posts, p) /\ UNCHANGED <<target, pending>>
      BY <1>16, <2>3 DEF VerifyAgain
    <3>2. p \in UpdPost /\ Verified(p.release)
      BY <2>2, <2>3, GenuineAreReleases DEF UpdPost, Verified
    <3> HIDE DEF p
    <3>3. /\ posts' \in Seq(UpdPost)
          /\ \A i \in 1..Len(posts') : posts'[i].op = "launch" => posts'[i].raced \/ Verified(posts'[i].release)
      BY <3>1, <3>2, PostKeepsPosts
    <3> QED BY <1>a, <2>1, <2>2, <3>1, <3>3, QueuesKeepInv DEF UpdTypeOK
  <2>4. CASE target[v] # Whole(r)
    <3>1. target' = [target EXCEPT ![v] = <<>>] /\ pending' = NoRelease /\ Disturb(v)
      BY <1>16, <2>4 DEF VerifyAgain
    <3>2. target' \in [Versions -> Apks] /\ \A w \in Versions \ {v} : target'[w] = target[w]
      BY <1>a, <3>1 DEF UpdTypeOK, Apks
    <3>3. posts' \in Seq(UpdPost) /\ LaunchesAreVerified'
      BY <2>1, <2>2, <3>1, <3>2, DisturbKeepsLaunches, GenuineAreReleases
    <3> QED BY <1>a, <2>1, <2>2, <3>1, <3>2, <3>3 DEF UpdInv, UpdTypeOK, CheckIsNewer, WaitingIsNewer, OpenedIsVerified
  <2> QED BY <2>3, <2>4
<1>17. CASE UNCHANGED updVars
  BY <1>a, <1>17 DEF updVars, UpdInv, UpdTypeOK, CheckIsNewer, WaitingIsNewer, LaunchesAreVerified, Verified, OpenedIsVerified
<1> QED BY <1>1, <1>2, <1>3, <1>4, <1>5, <1>6, <1>7, <1>8, <1>9, <1>10, <1>11, <1>12, <1>13, <1>14, <1>15, <1>16, <1>17
        DEF UpdNext

(* The updater's invariant.                                                 *)
THEOREM UpdaterInvariant == UpdSpec => []UpdInv
<1>1. UpdInit => UpdInv
  <2> SUFFICES ASSUME UpdInit PROVE UpdInv
    OBVIOUS
  <2>1. UpdTypeOK
    <3>1. target = [v \in Versions |-> <<>>] /\ <<>> \in Apks
      BY DEF UpdInit, Apks
    <3> QED BY <3>1 DEF UpdInit, UpdTypeOK
  <2>2. CheckIsNewer /\ WaitingIsNewer /\ LaunchesAreVerified /\ OpenedIsVerified
    BY DEF UpdInit, CheckIsNewer, Resting, WaitingIsNewer, LaunchesAreVerified, OpenedIsVerified
  <2> QED BY <2>1, <2>2 DEF UpdInv
<1> QED BY <1>1, UpdStepKeepsInv, PTL DEF UpdSpec

(* Whatever is published, interrupted, resumed or killed in between, the     *)
(* installer is given the whole APK of one genuine release newer than the   *)
(* app, unless a check changed the file after its last verification; and a  *)
(* finished APK is never a mixture of two releases.  Stated for any number  *)
(* of releases, blocks, tasks and ends of the process.                      *)
THEOREM InstallerGetsAVerifiedApkHolds == UpdSpec => []InstallerGetsAVerifiedApk
<1>1. UpdInv => InstallerGetsAVerifiedApk
  BY DEF UpdInv, UpdTypeOK, Apks, OpenedIsVerified, InstallerGetsAVerifiedApk
<1> QED BY <1>1, UpdaterInvariant, PTL

-----------------------------------------------------------------------------
(* The binaries of the face engine *)

Cells == [of : FileVersions \cup {"none"}, at : Nat]
Files == UNION {[1..n -> Cells] : n \in Nat}
Keys == Loads \X (1..Bases)
Ranges == [start : Nat, bytes : Seq(Cells), total : Nat]

LoadPcs ==
  {"unused", "cache", "bundle", "begin", "restore", "first", "range", "clear", "verify", "done", "failed"}

Thens == {"none", "verify", "next"}

LoadRecord ==
  [pc : LoadPcs, b : 1..Bases, obj : Keys \cup {NoEntry}, from : Nat, upto : Nat,
   pending : SUBSET [of : Nat, range : Ranges], raw : Files, then : Thens]

Partials ==
  {p \in [total : Nat, out : Files, offset : Nat] : p.out \in [1..p.total -> Cells] /\ p.offset <= p.total}

AssetTypeOK ==
  /\ base \in [1..Bases -> FileVersions]
  /\ bundle \in [install : Nat, file : Files]
  /\ stored \in SUBSET Ranges /\ IsFiniteSet(stored)
  /\ entry \in [1..Bases -> Keys \cup {NoEntry}]
  /\ partials \in [Keys -> Partials]
  /\ load \in [Loads -> LoadRecord]
  /\ shared \in BOOLEAN

(* A verdict is about the bundle of its installation.                       *)
BundleInv ==
  /\ verifiedFor \subseteq 0..bundle.install
  /\ bundle.install \in verifiedFor => bundle.file = Right

LoadOK(r) ==
  /\ r.pc = "done" => r.raw = Right
  /\ r.pc = "first" => r.upto >= 1
  /\ r.pc = "range" => r.obj \in Keys /\ r.from >= 1 /\ r.from <= r.upto

(* The partials a load has yet to make are nobody's.                        *)
Ahead(r, b) ==
  \/ r.pc \in {"unused", "cache", "bundle", "begin", "restore", "first"} /\ b >= r.b
  \/ r.pc \in {"range", "clear", "verify"} /\ b > r.b

FreshInv ==
  \A l \in Loads, b \in 1..Bases :
    Ahead(load[l], b) => /\ \A o \in Loads : load[o].obj # <<l, b>>
                         /\ \A x \in 1..Bases : entry[x] # <<l, b>>

(* Until a load took over a partial that another one was filling, each      *)
(* partial is filled by one load, which asks for what comes next in it.     *)
Solid(range) ==
  \A i \in DOMAIN range.bytes : range.bytes[i] # Gap /\ range.bytes[i].at = range.start + i

Placed(r) == InPlace(r.raw, 0) /\ \A w \in r.pending : Solid(w.range)

FilledTo(p) == InPlace(p.out, 0) /\ \A i \in 1..p.offset : p.out[i] # Gap

OthersLeave(l, k) == \A o \in Loads \ {l} : LoadAt(o, "range") => load[o].obj # k

WholeInv ==
  ~shared =>
    /\ \A l \in Loads : Placed(load[l])
    /\ \A s \in stored : Solid(s)
    /\ \A k \in Keys : FilledTo(partials[k])
    /\ \A l \in Loads :
         LoadAt(l, "range") => load[l].from = Partial(l).offset + 1 /\ OthersLeave(l, load[l].obj)

AssetInv ==
  AssetTypeOK /\ BundleInv /\ (\A l \in Loads : LoadOK(load[l])) /\ FreshInv /\ WholeInv

-----------------------------------------------------------------------------
LEMMA MinOfTwo ==
  ASSUME NEW a \in Nat, NEW b \in Nat
  PROVE  Min({a, b}) = IF a <= b THEN a ELSE b
  BY DEF Min

LEMMA FileFacts ==
  ASSUME NEW v \in FileVersions
  PROVE  /\ TotalOf(v) \in Nat \ {0}
         /\ FileOf(v) \in [1..TotalOf(v) -> Cells] /\ FileOf(v) \in Files
         /\ InPlace(FileOf(v), 0)
<1>1. TotalOf(v) \in Nat \ {0}
  BY AssetAssumption DEF TotalOf
<1>2. FileOf(v) \in [1..TotalOf(v) -> Cells]
  BY <1>1 DEF FileOf, Cells
<1>3. InPlace(FileOf(v), 0)
  BY <1>1 DEF InPlace, FileOf
<1> QED BY <1>1, <1>2, <1>3 DEF Files

LEMMA EmptyIsFile == <<>> \in Files /\ InPlace(<<>>, 0)
<1>1. <<>> \in [1..0 -> Cells]
  OBVIOUS
<1> QED BY <1>1 DEF Files, InPlace

LEMMA NoPartialOK == NoPartial \in Partials /\ FilledTo(NoPartial)
<1>1. <<>> \in [1..0 -> Cells]
  OBVIOUS
<1>2. NoPartial.total = 0 /\ NoPartial.offset = 0 /\ NoPartial.out = <<>>
  BY DEF NoPartial
<1>3. NoPartial \in [total : Nat, out : Files, offset : Nat]
  BY EmptyIsFile DEF NoPartial
<1>4. \A i \in 1..NoPartial.offset : FALSE
  BY <1>2
<1>5. NoPartial.out \in [1..NoPartial.total -> Cells] /\ NoPartial.offset <= NoPartial.total
  BY <1>1, <1>2
<1>6. NoPartial \in Partials
  BY <1>3, <1>5, Zenon DEF Partials
<1>7. FilledTo(NoPartial)
  BY <1>2, <1>4, EmptyIsFile, Zenon DEF FilledTo
<1> QED BY <1>6, <1>7

(* Every set of positions has a first one.                                  *)
LEMMA FirstOf ==
  ASSUME NEW N \in Nat, NEW T \in SUBSET (1..N), T # {}
  PROVE  \E k \in T : \A j \in T : k <= j
<1> DEFINE Upto == {1..k : k \in T}
           Smaller == StrictSubsetOrdering(1..N)
<1>1. IsFiniteSet(1..N)
  BY FS_Interval
<1>2. FiniteSubsetsOf(1..N) = SUBSET (1..N)
  BY <1>1, FS_FiniteSubsetsOfFinite, Zenon
<1>3. IsWellFoundedOn(Smaller, SUBSET (1..N))
  BY <1>2, FS_StrictSubsetOrderingWellFounded, Zenon
<1>4. \A k \in T : 1..k \subseteq 1..N
  OBVIOUS
<1>5. Upto \subseteq SUBSET (1..N) /\ Upto # {}
  BY <1>4, Zenon
<1> HIDE DEF Smaller
<1>6. PICK S \in Upto : \A R \in Upto : ~ (<<R, S>> \in Smaller)
  BY <1>3, <1>5, WFMin
<1>7. PICK k \in T : S = 1..k
  OBVIOUS
<1>8. ASSUME NEW j \in T, j < k
      PROVE  FALSE
  <2>1. k \in 1..k /\ k \notin 1..j /\ 1..j \subseteq 1..k
    BY <1>8
  <2>2. 1..j # 1..k
    BY <2>1, Zenon
  <2>3. <<1..j, 1..k>> \in Smaller
    BY <2>1, <2>2, <1>4, Zenon DEF StrictSubsetOrdering, Smaller
  <2> QED BY <1>6, <1>7, <2>3, Zenon
<1> QED BY <1>8

(* What is restored: each place of a run is held by one of its entries.     *)
LEMMA RunFacts ==
  ASSUME AssetTypeOK, NEW s \in ByStart, NEW n \in 1..Len(s), IsRun(s, n)
  PROVE  /\ EndOf(s[n]) \in Nat /\ s[1].total \in Nat
         /\ RunOf(s, n) \in [1..EndOf(s[n]) -> Cells]
         /\ (\A t \in stored : Solid(t)) =>
              \A i \in 1..EndOf(s[n]) : RunOf(s, n)[i] # Gap /\ RunOf(s, n)[i].at = i
<1>1. PICK m \in Nat : m = Cardinality(stored)
  BY FS_CardinalityType DEF AssetTypeOK
<1>2. s \in [1..m -> stored]
  BY <1>1 DEF ByStart, SetToSeqs
<1>3. s \in Seq(stored)
  BY <1>1, <1>2, SeqDef
<1>4. n \in Nat /\ n >= 1 /\ \A k \in 1..n : s[k] \in stored
  BY <1>3
<1>5. \A k \in 1..n : s[k].start \in Nat /\ s[k].bytes \in Seq(Cells) /\ s[k].total \in Nat
  BY <1>4 DEF AssetTypeOK, Ranges
<1>6. \A k \in 1..n : Len(s[k].bytes) \in Nat /\ EndOf(s[k]) = s[k].start + Len(s[k].bytes) /\ EndOf(s[k]) \in Nat
  BY <1>5 DEF EndOf
<1>7. s[1].start = 0
  BY <1>4 DEF IsRun
<1>8. \A k \in 1..n : k > 1 => s[k].start = EndOf(s[k - 1])
  BY <1>4, <1>6 DEF IsRun, EndOf
<1>9. ASSUME NEW i \in 1..EndOf(s[n])
      PROVE  \E k \in 1..n : Holds(s, k, i)
  <2> DEFINE T == {k \in 1..n : i <= EndOf(s[k])}
  <2>1. n \in T /\ T \in SUBSET (1..n)
    BY <1>4, <1>6
  <2>2. PICK k \in T : \A j \in T : k <= j
    BY <2>1, <1>4, FirstOf, Zenon
  <2>3. i > s[k].start
    <3>1. CASE k = 1
      BY <3>1, <1>7, <1>6, <1>4
    <3>2. CASE k > 1
      <4>1. k - 1 \in 1..n /\ k - 1 \notin T
        BY <2>2, <3>2
      <4> QED BY <4>1, <1>8, <1>6, <2>2, <3>2, <1>4
    <3> QED BY <3>1, <3>2, <2>2
  <2>4. i + s[1].start \in s[k].start + 1 .. EndOf(s[k])
    BY <2>2, <2>3, <1>5, <1>6, <1>7, <1>4
  <2>5. k \in 1..n
    BY <2>2
  <2> QED BY <2>4, <2>5, Zenon DEF Holds
<1> DEFINE At(i) == CHOOSE k \in 1..n : Holds(s, k, i)
<1>10. \A i \in 1..EndOf(s[n]) : At(i) \in 1..n /\ Holds(s, At(i), i)
  BY <1>9
<1>11. EndOf(s[n]) \in Nat /\ EndOf(s[n]) - s[1].start = EndOf(s[n])
  BY <1>4, <1>6, <1>7
<1>12. RunOf(s, n) = [i \in 1..EndOf(s[n]) |-> s[At(i)].bytes[i + s[1].start - s[At(i)].start]]
  BY <1>11 DEF RunOf
<1> HIDE DEF At
<1>13. ASSUME NEW i \in 1..EndOf(s[n])
       PROVE  /\ i + s[1].start - s[At(i)].start = i - s[At(i)].start
              /\ i - s[At(i)].start \in 1..Len(s[At(i)].bytes)
  <2>1. At(i) \in 1..n /\ i + s[1].start \in s[At(i)].start + 1 .. EndOf(s[At(i)])
    BY <1>10, <1>13, Zenon DEF Holds
  <2>2. PICK k \in 1..n : k = At(i)
    BY <2>1
  <2>3. i \in Int /\ s[k].start \in Nat /\ Len(s[k].bytes) \in Nat /\ EndOf(s[k]) = s[k].start + Len(s[k].bytes)
    BY <1>5, <1>6, <1>11, <1>13
  <2>4. i + 0 \in s[k].start + 1 .. EndOf(s[k])
    BY <2>1, <2>2, <1>7
  <2>5. i + s[1].start - s[k].start = i - s[k].start /\ i - s[k].start \in 1..Len(s[k].bytes)
    BY <2>3, <2>4, <1>7
  <2> QED BY <2>2, <2>5, Zenon
<1>14. \A i \in 1..EndOf(s[n]) : s[At(i)].bytes[i - s[At(i)].start] \in Cells
  BY <1>13, <1>10, <1>5
<1>15. RunOf(s, n) \in [1..EndOf(s[n]) -> Cells]
  BY <1>12, <1>13, <1>14
<1>16. ASSUME \A t \in stored : Solid(t), NEW i \in 1..EndOf(s[n])
       PROVE  RunOf(s, n)[i] # Gap /\ RunOf(s, n)[i].at = i
  <2>1. RunOf(s, n)[i] = s[At(i)].bytes[i - s[At(i)].start]
    BY <1>12, <1>13
  <2>2. Solid(s[At(i)]) /\ s[At(i)].start \in Nat
    BY <1>16, <1>10, <1>4, <1>5
  <2>3. i - s[At(i)].start \in DOMAIN s[At(i)].bytes
    BY <1>13, <1>10, <1>5
  <2>4. s[At(i)].start + (i - s[At(i)].start) = i
    BY <2>2, <1>11
  <2> QED BY <2>1, <2>2, <2>3, <2>4 DEF Solid
<1> QED BY <1>11, <1>4, <1>5, <1>15, <1>16

(* The records of a load, one field at a time.                              *)
LEMMA FieldIsSet ==
  ASSUME NEW r \in LoadRecord
  PROVE  /\ \A pc \in LoadPcs : [r EXCEPT !.pc = pc] \in LoadRecord
         /\ \A b \in 1..Bases : [r EXCEPT !.b = b] \in LoadRecord
         /\ \A k \in Keys : [r EXCEPT !.obj = k] \in LoadRecord
         /\ \A n \in Nat : [r EXCEPT !.from = n] \in LoadRecord
         /\ \A n \in Nat : [r EXCEPT !.upto = n] \in LoadRecord
         /\ \A P \in SUBSET [of : Nat, range : Ranges] : [r EXCEPT !.pending = P] \in LoadRecord
         /\ \A f \in Files : [r EXCEPT !.raw = f] \in LoadRecord
         /\ \A t \in Thens : [r EXCEPT !.then = t] \in LoadRecord
<1>1. \A pc \in LoadPcs : [r EXCEPT !.pc = pc] \in LoadRecord
  BY DEF LoadRecord
<1>2. \A b \in 1..Bases : [r EXCEPT !.b = b] \in LoadRecord
  BY DEF LoadRecord
<1>3. \A k \in Keys : [r EXCEPT !.obj = k] \in LoadRecord
  BY DEF LoadRecord
<1>4. \A n \in Nat : [r EXCEPT !.from = n] \in LoadRecord
  BY DEF LoadRecord
<1>5. \A n \in Nat : [r EXCEPT !.upto = n] \in LoadRecord
  BY DEF LoadRecord
<1>6. \A P \in SUBSET [of : Nat, range : Ranges] : [r EXCEPT !.pending = P] \in LoadRecord
  BY DEF LoadRecord
<1>7. \A f \in Files : [r EXCEPT !.raw = f] \in LoadRecord
  BY DEF LoadRecord
<1>8. \A t \in Thens : [r EXCEPT !.then = t] \in LoadRecord
  BY DEF LoadRecord
<1> QED BY <1>1, <1>2, <1>3, <1>4, <1>5, <1>6, <1>7, <1>8, Zenon

LEMMA EndedFacts ==
  ASSUME NEW r \in LoadRecord, NEW pc \in LoadPcs, NEW raw \in Files
  PROVE  /\ LoadEnded(r, pc, raw) \in LoadRecord
         /\ LoadEnded(r, pc, raw).pc = pc /\ LoadEnded(r, pc, raw).b = 1
         /\ LoadEnded(r, pc, raw).obj = NoEntry
         /\ LoadEnded(r, pc, raw).raw = raw /\ LoadEnded(r, pc, raw).pending = r.pending
<1>1. UnusedLoad \in LoadRecord /\ UnusedLoad.b = 1 /\ UnusedLoad.obj = NoEntry
  BY AssetAssumption, EmptyIsFile DEF UnusedLoad, LoadRecord, LoadPcs, Thens
<1>2. r.pending \in SUBSET [of : Nat, range : Ranges]
  BY DEF LoadRecord
<1>3. LoadEnded(r, pc, raw) = [[[UnusedLoad EXCEPT !.pc = pc] EXCEPT !.raw = raw] EXCEPT !.pending = r.pending]
  BY DEF LoadEnded
<1>4. LoadEnded(r, pc, raw) \in LoadRecord
  <2>1. [UnusedLoad EXCEPT !.pc = pc] \in LoadRecord
    BY <1>1, FieldIsSet, Zenon
  <2>2. [[UnusedLoad EXCEPT !.pc = pc] EXCEPT !.raw = raw] \in LoadRecord
    BY <2>1, FieldIsSet, Zenon
  <2> QED BY <1>2, <1>3, <2>2, FieldIsSet, Zenon
<1>5. /\ LoadEnded(r, pc, raw).pc = pc /\ LoadEnded(r, pc, raw).raw = raw
      /\ LoadEnded(r, pc, raw).pending = r.pending
      /\ LoadEnded(r, pc, raw).b = UnusedLoad.b /\ LoadEnded(r, pc, raw).obj = UnusedLoad.obj
  BY <1>1 DEF LoadEnded, LoadRecord
<1> QED BY <1>1, <1>4, <1>5

(* The next base, with what is still being written, or the end.             *)
LEMMA BeyondFacts ==
  ASSUME NEW r \in LoadRecord, r.pc \in {"first", "range", "clear", "verify"}
  PROVE  /\ Beyond(r) \in LoadRecord
         /\ Beyond(r).pc \in {"failed", "begin"} /\ Beyond(r).obj = NoEntry
         /\ Beyond(r).raw = <<>> /\ Beyond(r).pending = r.pending
         /\ \A b \in 1..Bases : Ahead(Beyond(r), b) => Ahead(r, b)
<1>1. r.b \in 1..Bases /\ Bases \in Nat
  BY AssetAssumption DEF LoadRecord
<1>2. CASE r.b = Bases
  <2>1. "failed" \in LoadPcs
    BY DEF LoadPcs
  <2>2. Beyond(r) = LoadEnded(r, "failed", <<>>)
    BY <1>2 DEF Beyond
  <2>3. /\ Beyond(r) \in LoadRecord /\ Beyond(r).pc = "failed" /\ Beyond(r).obj = NoEntry
        /\ Beyond(r).raw = <<>> /\ Beyond(r).pending = r.pending
    BY <2>1, <2>2, EndedFacts, EmptyIsFile
  <2> QED BY <2>3 DEF Ahead
<1>3. CASE r.b # Bases
  <2> DEFINE e == LoadEnded(r, "begin", <<>>)
  <2>1. e \in LoadRecord /\ e.pc = "begin" /\ e.obj = NoEntry /\ e.raw = <<>> /\ e.pending = r.pending
    BY EndedFacts, EmptyIsFile DEF LoadPcs
  <2>2. Beyond(r) = [e EXCEPT !.b = r.b + 1] /\ r.b + 1 \in 1..Bases
    BY <1>1, <1>3 DEF Beyond
  <2> HIDE DEF e
  <2>3. Beyond(r) \in LoadRecord
    BY <2>1, <2>2, FieldIsSet, Zenon
  <2>4. /\ Beyond(r).pc = "begin" /\ Beyond(r).obj = NoEntry /\ Beyond(r).raw = <<>>
        /\ Beyond(r).pending = r.pending /\ Beyond(r).b = r.b + 1
    BY <2>1, <2>2 DEF LoadRecord
  <2>5. \A b \in 1..Bases : Ahead(Beyond(r), b) => Ahead(r, b)
    BY <2>4, <1>1 DEF Ahead
  <2> QED BY <2>3, <2>4, <2>5
<1> QED BY <1>2, <1>3

-----------------------------------------------------------------------------
(* A load moves, and one partial is filled or given up.                     *)
LEMMA WholeStep ==
  ASSUME AssetInv, NEW l \in Loads, NEW q \in LoadRecord, load' = [load EXCEPT ![l] = q],
         NEW k \in Keys, NEW p \in Partials, partials' = [partials EXCEPT ![k] = p],
         stored' = stored, ~shared' => ~shared,
         ~shared' => Placed(q) /\ FilledTo(p),
         ~shared' => p = partials[k] \/ OthersLeave(l, k),
         q.pc = "range" => /\ q.obj = k /\ (~shared' => q.from = p.offset + 1)
                           /\ ~shared' => OthersLeave(l, k)
  PROVE  WholeInv'
<1> SUFFICES ASSUME ~shared' PROVE WholeInv'
  BY DEF WholeInv
<1>1. ~shared /\ WholeInv
  BY DEF AssetInv
<1>2. load \in [Loads -> LoadRecord] /\ partials \in [Keys -> Partials]
  BY DEF AssetInv, AssetTypeOK
<1>3. /\ load'[l] = q /\ \A o \in Loads \ {l} : load'[o] = load[o]
      /\ partials'[k] = p /\ \A j \in Keys \ {k} : partials'[j] = partials[j]
  BY <1>2
<1>4. \A o \in Loads : Placed(load'[o])
  BY <1>1, <1>3 DEF WholeInv
<1>5. \A j \in Keys : FilledTo(partials'[j])
  BY <1>1, <1>3 DEF WholeInv
<1>6. \A s \in stored' : Solid(s)
  BY <1>1 DEF WholeInv
<1>7. ASSUME NEW o \in Loads, load'[o].pc = "range"
      PROVE  /\ load'[o].from = partials'[load'[o].obj].offset + 1
             /\ \A x \in Loads \ {o} : load'[x].pc = "range" => load'[x].obj # load'[o].obj
  <2>1. CASE o = l
    BY <2>1, <1>3, <1>7 DEF OthersLeave, LoadAt
  <2>2. CASE o # l
    <3>1. load[o].pc = "range" /\ load'[o] = load[o] /\ load[o].obj \in Keys
      BY <2>2, <1>3, <1>7 DEF AssetInv, LoadOK
    <3>2. /\ load[o].from = partials[load[o].obj].offset + 1
          /\ \A x \in Loads \ {o} : load[x].pc = "range" => load[x].obj # load[o].obj
      BY <3>1, <1>1 DEF WholeInv, LoadAt, Partial, OthersLeave
    <3>3. partials'[load[o].obj] = partials[load[o].obj]
      BY <3>1, <2>2, <1>3 DEF OthersLeave, LoadAt
    <3>4. q.pc = "range" => load[o].obj # q.obj
      BY <3>1, <2>2 DEF OthersLeave, LoadAt
    <3> QED BY <3>1, <3>2, <3>3, <3>4, <1>3
  <2> QED BY <2>1, <2>2
<1> QED BY <1>4, <1>5, <1>6, <1>7 DEF WholeInv, LoadAt, Partial, OthersLeave

(* A load holds what it held, or a partial that was offered, or its own.    *)
LEMMA FreshStep ==
  ASSUME AssetTypeOK, FreshInv, NEW l \in Loads, NEW q \in LoadRecord, load' = [load EXCEPT ![l] = q],
         \A b \in 1..Bases : Ahead(q, b) => Ahead(load[l], b),
         Ahead(q, load[l].b) => /\ q.obj # <<l, load[l].b>>
                                /\ \A x \in 1..Bases : entry'[x] # <<l, load[l].b>>,
         q.obj \in {load[l].obj, NoEntry, <<l, load[l].b>>} \cup {entry[x] : x \in 1..Bases},
         \A x \in 1..Bases : entry'[x] \in {entry[x], NoEntry, <<l, load[l].b>>}
  PROVE  FreshInv'
<1>1. load'[l] = q /\ \A o \in Loads \ {l} : load'[o] = load[o]
  BY DEF AssetTypeOK
<1>2. \A m \in Loads, b \in 1..Bases : <<m, b>> # NoEntry
  BY DEF NoEntry
<1> SUFFICES ASSUME NEW m \in Loads, NEW b \in 1..Bases, Ahead(load'[m], b)
             PROVE  /\ \A o \in Loads : load'[o].obj # <<m, b>>
                    /\ \A x \in 1..Bases : entry'[x] # <<m, b>>
  BY DEF FreshInv
<1>3. Ahead(load[m], b)
  BY <1>1
<1>4. /\ \A o \in Loads : load[o].obj # <<m, b>>
      /\ \A x \in 1..Bases : entry[x] # <<m, b>>
  BY <1>3 DEF FreshInv
<1>5. CASE <<m, b>> # <<l, load[l].b>>
  <2>1. q.obj # <<m, b>> /\ load[l].obj # <<m, b>>
    BY <1>2, <1>4, <1>5
  <2>2. \A x \in 1..Bases : entry'[x] # <<m, b>>
    BY <1>2, <1>4, <1>5
  <2> QED BY <1>1, <1>4, <2>1, <2>2
<1>6. CASE m = l /\ b = load[l].b
  BY <1>1, <1>2, <1>4, <1>6
<1> QED BY <1>5, <1>6

(* A load that asks for a range or ends its download keeps what is known.   *)
LEMMA LoadStep ==
  ASSUME AssetInv, NEW l \in Loads, NEW q \in LoadRecord, load' = [load EXCEPT ![l] = q],
         NEW k \in Keys, NEW p \in Partials, partials' = [partials EXCEPT ![k] = p],
         entry' \in [1..Bases -> Keys \cup {NoEntry}], stored' = stored, shared' \in BOOLEAN,
         UNCHANGED <<base, bundle>>, BundleInv', LoadOK(q), FreshInv', WholeInv'
  PROVE  AssetInv'
<1>1. load'[l] = q /\ \A o \in Loads \ {l} : load'[o] = load[o]
  BY DEF AssetInv, AssetTypeOK
<1>2. \A o \in Loads : LoadOK(load'[o])
  BY <1>1 DEF AssetInv
<1>3. AssetTypeOK'
  BY DEF AssetInv, AssetTypeOK
<1> QED BY <1>2, <1>3 DEF AssetInv

(* A load moves on without a range to ask for, and no partial changes.      *)
LEMMA QuietStep ==
  ASSUME AssetInv, NEW l \in Loads, NEW q \in LoadRecord, load' = [load EXCEPT ![l] = q],
         partials' = partials, stored' = stored, shared' = shared, UNCHANGED <<base, bundle>>, BundleInv',
         \A b \in 1..Bases : Ahead(q, b) => Ahead(load[l], b),
         q.obj \in {load[l].obj, NoEntry}, entry' \in [1..Bases -> Keys \cup {NoEntry}],
         \A x \in 1..Bases : entry'[x] \in {entry[x], NoEntry},
         LoadOK(q), q.pc # "range", ~shared => Placed(q)
  PROVE  AssetInv'
<1>1. <<l, load[l].b>> \in Keys /\ load[l].b \in 1..Bases /\ <<l, load[l].b>> # NoEntry
  BY DEF AssetInv, AssetTypeOK, LoadRecord, Keys, NoEntry
<1> DEFINE k == <<l, load[l].b>>
           p == partials[k]
<1>2. p \in Partials /\ partials' = [partials EXCEPT ![k] = p] /\ (~shared => FilledTo(p))
  BY <1>1 DEF AssetInv, AssetTypeOK, WholeInv
<1>3. WholeInv'
  <2> HIDE DEF k, p
  <2> SUFFICES p = partials[k]
    BY <1>1, <1>2, WholeStep DEF k
  <2> QED BY DEF p
<1>4. FreshInv'
  <2>1. Ahead(q, load[l].b) => q.obj # <<l, load[l].b>> /\ \A x \in 1..Bases : entry'[x] # <<l, load[l].b>>
    BY <1>1 DEF AssetInv, FreshInv
  <2> QED BY <2>1, FreshStep DEF AssetInv
<1> HIDE DEF k, p
<1>5. k \in Keys /\ shared' \in BOOLEAN
  BY <1>1 DEF k, AssetInv, AssetTypeOK
<1> QED BY <1>2, <1>3, <1>4, <1>5, LoadStep

LEMMA BundleStays == AssetInv /\ KeepDelivery => BundleInv' /\ UNCHANGED <<base, bundle>>
  BY DEF AssetInv, BundleInv, KeepDelivery

(* The next range of a partial nobody else is filling.                      *)
LEMMA AskStep ==
  ASSUME AssetInv, NEW l \in Loads, NEW r \in LoadRecord, NEW piece \in Partials,
         piece.offset < piece.total, NEW next \in Ask(r, piece), load' = [load EXCEPT ![l] = next],
         load[l].pc \in {"begin", "restore", "first", "range"}, r.b = load[l].b,
         r.obj \in Keys, partials' = [partials EXCEPT ![r.obj] = piece],
         r.obj \in {load[l].obj, <<l, load[l].b>>} \cup {entry[x] : x \in 1..Bases},
         entry' \in {entry, [entry EXCEPT ![load[l].b] = <<l, load[l].b>>]},
         stored' = stored, KeepDelivery, shared' \in BOOLEAN, ~shared' => ~shared,
         ~shared' => Placed(r) /\ FilledTo(piece) /\ OthersLeave(l, r.obj)
  PROVE  AssetInv'
<1>1. PICK n \in 1..MaxRange :
        next = [r EXCEPT !.pc = "range", !.from = piece.offset + 1, !.upto = Min({piece.total, piece.offset + n})]
  BY DEF Ask
<1>2. piece.offset \in Nat /\ piece.total \in Nat /\ n \in Nat /\ n >= 1
  BY AssetAssumption DEF Partials
<1>3. PICK u \in Nat : u = Min({piece.total, piece.offset + n}) /\ piece.offset + 1 <= u
  BY <1>2, MinOfTwo
<1>4. next \in LoadRecord
  <2>1. next = [[[r EXCEPT !.pc = "range"] EXCEPT !.from = piece.offset + 1] EXCEPT !.upto = u]
    BY <1>1, <1>3
  <2>2. "range" \in LoadPcs /\ piece.offset + 1 \in Nat
    BY <1>2 DEF LoadPcs
  <2>3. [r EXCEPT !.pc = "range"] \in LoadRecord
    BY <2>2, FieldIsSet, Zenon
  <2>4. [[r EXCEPT !.pc = "range"] EXCEPT !.from = piece.offset + 1] \in LoadRecord
    BY <2>2, <2>3, FieldIsSet, Zenon
  <2> QED BY <2>1, <2>4, FieldIsSet, Zenon
<1>5. /\ next.pc = "range" /\ next.from = piece.offset + 1 /\ next.upto = u
      /\ next.obj = r.obj /\ next.b = r.b /\ next.raw = r.raw /\ next.pending = r.pending
  BY <1>1, <1>3 DEF LoadRecord
<1>6. LoadOK(next)
  BY <1>2, <1>3, <1>5 DEF LoadOK
<1>7. WholeInv'
  <2>1. ~shared' => Placed(next)
    BY <1>5 DEF Placed
  <2> QED BY <2>1, <1>4, <1>5, WholeStep
<1>8. load[l].b \in 1..Bases /\ <<l, load[l].b>> \in Keys
  BY DEF AssetInv, AssetTypeOK, LoadRecord, Keys
<1>9. /\ entry' \in [1..Bases -> Keys \cup {NoEntry}]
      /\ \A x \in 1..Bases : entry'[x] \in {entry[x], NoEntry, <<l, load[l].b>>}
  BY <1>8 DEF AssetInv, AssetTypeOK
<1>10. FreshInv'
  <2>1. \A b \in 1..Bases : Ahead(next, b) => Ahead(load[l], b)
    BY <1>5, <1>8 DEF Ahead
  <2>2. ~Ahead(next, load[l].b)
    BY <1>5, <1>8 DEF Ahead
  <2>3. next.obj \in {load[l].obj, NoEntry, <<l, load[l].b>>} \cup {entry[x] : x \in 1..Bases}
    BY <1>5
  <2> QED BY <2>1, <2>2, <2>3, <1>4, <1>9, FreshStep DEF AssetInv
<1> QED BY <1>4, <1>6, <1>7, <1>9, <1>10, BundleStays, LoadStep

(* The file of such a partial, once it is whole.                            *)
LEMMA EndStep ==
  ASSUME AssetInv, NEW l \in Loads, NEW r \in LoadRecord, NEW piece \in Partials, NEW p \in {piece, NoPartial},
         load' = [load EXCEPT ![l] = [LoadEnded(r, "clear", piece.out) EXCEPT !.b = r.b, !.then = "verify"]],
         load[l].pc \in {"begin", "restore", "first", "range"}, r.b = load[l].b,
         r.obj \in Keys, partials' = [partials EXCEPT ![r.obj] = p],
         entry' = [entry EXCEPT ![r.b] = NoEntry],
         stored' = stored, KeepDelivery, shared' \in BOOLEAN, ~shared' => ~shared,
         ~shared' => Placed(r) /\ FilledTo(piece) /\ OthersLeave(l, r.obj)
  PROVE  AssetInv'
<1> DEFINE q == [LoadEnded(r, "clear", piece.out) EXCEPT !.b = r.b, !.then = "verify"]
<1>1. piece.out \in Files /\ r.b \in 1..Bases
  BY DEF Partials, LoadRecord
<1>2. q \in LoadRecord
  <2>1. q = [[LoadEnded(r, "clear", piece.out) EXCEPT !.b = r.b] EXCEPT !.then = "verify"]
    OBVIOUS
  <2>2. LoadEnded(r, "clear", piece.out) \in LoadRecord
    BY <1>1, EndedFacts DEF LoadPcs
  <2>3. [LoadEnded(r, "clear", piece.out) EXCEPT !.b = r.b] \in LoadRecord
    BY <1>1, <2>2, FieldIsSet, Zenon
  <2>4. "verify" \in Thens
    BY DEF Thens
  <2> QED BY <2>1, <2>3, <2>4, FieldIsSet, Zenon
<1>3. q.pc = "clear" /\ q.b = r.b /\ q.obj = NoEntry /\ q.raw = piece.out /\ q.pending = r.pending
  <2> DEFINE e == LoadEnded(r, "clear", piece.out)
  <2>1. "clear" \in LoadPcs
    BY DEF LoadPcs
  <2>2. e \in LoadRecord /\ e.pc = "clear" /\ e.obj = NoEntry /\ e.raw = piece.out /\ e.pending = r.pending
    BY <1>1, <2>1, EndedFacts
  <2>3. q = [e EXCEPT !.b = r.b, !.then = "verify"]
    OBVIOUS
  <2> HIDE DEF e, q
  <2> QED BY <2>2, <2>3 DEF LoadRecord
<1> HIDE DEF q
<1>4. load' = [load EXCEPT ![l] = q]
  BY DEF q
<1>5. p \in Partials /\ (~shared' => FilledTo(p))
  BY NoPartialOK
<1>6. LoadOK(q)
  BY <1>3 DEF LoadOK
<1>7. WholeInv'
  <2>1. ~shared' => Placed(q)
    BY <1>3 DEF Placed, FilledTo
  <2>2. q.pc # "range"
    BY <1>3
  <2> QED BY <2>1, <2>2, <1>2, <1>4, <1>5, WholeStep
<1>8. load[l].b \in 1..Bases
  BY DEF AssetInv, AssetTypeOK, LoadRecord
<1>9. /\ entry' \in [1..Bases -> Keys \cup {NoEntry}]
      /\ \A x \in 1..Bases : entry'[x] \in {entry[x], NoEntry, <<l, load[l].b>>}
  BY <1>8 DEF AssetInv, AssetTypeOK
<1>10. FreshInv'
  <2>1. \A b \in 1..Bases : Ahead(q, b) => Ahead(load[l], b)
    BY <1>3, <1>8 DEF Ahead
  <2>2. ~Ahead(q, load[l].b)
    BY <1>3, <1>8 DEF Ahead
  <2>3. q.obj \in {load[l].obj, NoEntry, <<l, load[l].b>>} \cup {entry[x] : x \in 1..Bases}
    BY <1>3
  <2> QED BY <2>1, <2>2, <2>3, <1>2, <1>4, <1>9, FreshStep DEF AssetInv
<1> QED BY <1>2, <1>4, <1>5, <1>6, <1>7, <1>9, <1>10, BundleStays, LoadStep

LEMMA GoOnStep ==
  ASSUME AssetInv, NEW l \in Loads, NEW r \in LoadRecord, NEW piece \in Partials, GoOn(l, r, piece),
         load[l].pc \in {"begin", "restore", "first", "range"}, r.b = load[l].b, r.obj \in Keys,
         r.obj \in {load[l].obj, <<l, load[l].b>>} \cup {entry[x] : x \in 1..Bases},
         stored' = stored, KeepDelivery, shared' \in BOOLEAN, ~shared' => ~shared,
         ~shared' => Placed(r) /\ FilledTo(piece) /\ OthersLeave(l, r.obj)
  PROVE  AssetInv'
<1>1. CASE piece.offset < piece.total
  BY <1>1, AskStep DEF GoOn
<1>2. CASE ~ (piece.offset < piece.total)
  <2> DEFINE p == IF \E o \in Loads \ {l} : load[o].obj = r.obj THEN piece ELSE NoPartial
  <2>1. /\ load' = [load EXCEPT ![l] = [LoadEnded(r, "clear", piece.out) EXCEPT !.b = r.b, !.then = "verify"]]
        /\ partials' = [partials EXCEPT ![r.obj] = p]
        /\ entry' = [entry EXCEPT ![r.b] = NoEntry]
    BY <1>2 DEF GoOn
  <2>2. p \in {piece, NoPartial}
    OBVIOUS
  <2> HIDE DEF p
  <2> QED BY <2>1, <2>2, EndStep
<1> QED BY <1>1, <1>2

-----------------------------------------------------------------------------
LEMMA AssetInitInv == AssetInit => AssetInv
<1> SUFFICES ASSUME AssetInit PROVE AssetInv
  OBVIOUS
<1>1. UnusedLoad \in LoadRecord /\ UnusedLoad.pc = "unused" /\ UnusedLoad.obj = NoEntry
  BY AssetAssumption, EmptyIsFile DEF UnusedLoad, LoadRecord, LoadPcs, Thens
<1>2. Right \in Files
  BY FileFacts DEF Right, FileVersions
<1>3. AssetTypeOK
  <2>1. base \in [1..Bases -> FileVersions] /\ entry \in [1..Bases -> Keys \cup {NoEntry}]
    BY DEF AssetInit, FileVersions
  <2>2. bundle \in [install : Nat, file : Files]
    BY <1>2, EmptyIsFile DEF AssetInit
  <2>3. stored \in SUBSET Ranges /\ IsFiniteSet(stored) /\ shared \in BOOLEAN
    BY FS_EmptySet DEF AssetInit
  <2>4. partials \in [Keys -> Partials] /\ load \in [Loads -> LoadRecord]
    BY <1>1, NoPartialOK DEF AssetInit, Keys
  <2> QED BY <2>1, <2>2, <2>3, <2>4 DEF AssetTypeOK
<1>4. BundleInv
  BY DEF AssetInit, BundleInv
<1>5. \A l \in Loads : load[l] = UnusedLoad
  BY DEF AssetInit
<1>6. \A l \in Loads : LoadOK(load[l])
  BY <1>1, <1>5 DEF LoadOK
<1>7. FreshInv
  BY <1>1, <1>5 DEF FreshInv, AssetInit, NoEntry
<1>8. WholeInv
  <2>1. Placed(UnusedLoad)
    BY EmptyIsFile DEF Placed, UnusedLoad
  <2>2. \A k \in Keys : partials[k] = NoPartial
    BY DEF AssetInit, Keys
  <2> QED BY <1>1, <1>5, <2>1, <2>2, NoPartialOK DEF WholeInv, AssetInit, LoadAt
<1> QED BY <1>3, <1>4, <1>6, <1>7, <1>8 DEF AssetInv

LEMMA StartLoadStep ==
  ASSUME AssetInv, NEW l \in Loads, StartLoad(l)
  PROVE  AssetInv'
<1> DEFINE q == [load[l] EXCEPT !.pc = "cache"]
<1>1. load[l] \in LoadRecord /\ load[l].pc = "unused"
  BY DEF AssetInv, AssetTypeOK, StartLoad, LoadAt
<1>2. "cache" \in LoadPcs
  BY DEF LoadPcs
<1>3. q \in LoadRecord
  BY <1>1, <1>2, FieldIsSet, Zenon
<1>4. /\ q.pc = "cache" /\ q.b = load[l].b /\ q.obj = load[l].obj
      /\ q.raw = load[l].raw /\ q.pending = load[l].pending
  BY <1>1 DEF LoadRecord
<1>5. load' = [load EXCEPT ![l] = q] /\ KeepDelivery /\ KeepDownloads
  BY <1>1 DEF StartLoad, LoadGoto, AssetInv, AssetTypeOK
<1> HIDE DEF q
<1>6. LoadOK(q) /\ (~shared => Placed(q)) /\ \A b \in 1..Bases : Ahead(q, b) => Ahead(load[l], b)
  BY <1>1, <1>4 DEF LoadOK, Placed, AssetInv, WholeInv, Ahead
<1>7. /\ entry' = entry /\ partials' = partials /\ stored' = stored /\ shared' = shared
      /\ entry' \in [1..Bases -> Keys \cup {NoEntry}]
  BY <1>5 DEF KeepDownloads, AssetInv, AssetTypeOK
<1> QED BY <1>3, <1>4, <1>5, <1>6, <1>7, BundleStays, QuietStep

(* A load that has its file, from the cache, the app or a download.         *)
LEMMA DoneFacts ==
  ASSUME AssetInv, NEW l \in Loads, NEW raw, raw = Right
  PROVE  /\ LoadEnded(load[l], "done", raw) \in LoadRecord
         /\ LoadEnded(load[l], "done", raw).pc = "done" /\ LoadEnded(load[l], "done", raw).obj = NoEntry
         /\ LoadOK(LoadEnded(load[l], "done", raw))
         /\ ~shared => Placed(LoadEnded(load[l], "done", raw))
         /\ \A b \in 1..Bases : ~Ahead(LoadEnded(load[l], "done", raw), b)
<1> DEFINE q == LoadEnded(load[l], "done", raw)
<1>1. load[l] \in LoadRecord /\ "done" \in LoadPcs /\ raw \in Files /\ InPlace(raw, 0)
  BY FileFacts DEF AssetInv, AssetTypeOK, LoadPcs, Right, FileVersions
<1>2. q \in LoadRecord /\ q.pc = "done" /\ q.obj = NoEntry /\ q.raw = raw /\ q.pending = load[l].pending
  BY <1>1, EndedFacts
<1> HIDE DEF q
<1>3. LoadOK(q) /\ (~shared => Placed(q)) /\ \A b \in 1..Bases : ~Ahead(q, b)
  BY <1>1, <1>2 DEF LoadOK, Placed, AssetInv, WholeInv, Ahead
<1> QED BY <1>2, <1>3 DEF q

(* A load that goes to its next way of getting the file.                    *)
LEMMA GoesOnFacts ==
  ASSUME AssetInv, NEW l \in Loads, NEW q, NEW pc, q = [load[l] EXCEPT !.pc = pc],
         <<load[l].pc, pc>> \in {<<"cache", "bundle">>, <<"bundle", "begin">>, <<"begin", "restore">>, <<"clear", "verify">>}
  PROVE  /\ q \in LoadRecord /\ q.pc = pc /\ q.obj = load[l].obj /\ q.pc # "range" /\ LoadOK(q)
         /\ ~shared => Placed(q)
         /\ \A b \in 1..Bases : Ahead(q, b) => Ahead(load[l], b)
<1>1. load[l] \in LoadRecord /\ pc \in LoadPcs
  BY DEF AssetInv, AssetTypeOK, LoadPcs
<1>2. q \in LoadRecord
  BY <1>1, FieldIsSet, Zenon
<1>3. /\ q.pc = pc /\ q.b = load[l].b /\ q.obj = load[l].obj
      /\ q.raw = load[l].raw /\ q.pending = load[l].pending
  BY <1>1 DEF LoadRecord
<1>4. LoadOK(q) /\ q.pc # "range" /\ \A b \in 1..Bases : Ahead(q, b) => Ahead(load[l], b)
  BY <1>3 DEF LoadOK, Ahead
<1>5. ~shared => Placed(q)
  BY <1>3 DEF Placed, AssetInv, WholeInv
<1> QED BY <1>2, <1>3, <1>4, <1>5

LEMMA FromCacheStep ==
  ASSUME AssetInv, NEW l \in Loads, FromCache(l)
  PROVE  AssetInv'
<1> DEFINE q == IF cached = Right THEN LoadEnded(load[l], "done", cached) ELSE [load[l] EXCEPT !.pc = "bundle"]
<1>1. load[l].pc = "cache" /\ load' = [load EXCEPT ![l] = q]
  BY DEF FromCache, LoadAt, AssetInv, AssetTypeOK
<1>2. /\ q \in LoadRecord /\ q.pc # "range" /\ q.obj \in {load[l].obj, NoEntry} /\ LoadOK(q)
      /\ ~shared => Placed(q)
      /\ \A b \in 1..Bases : Ahead(q, b) => Ahead(load[l], b)
  <2>1. CASE cached = Right
    BY <2>1, DoneFacts
  <2>2. CASE cached # Right
    <3>1. q = [load[l] EXCEPT !.pc = "bundle"]
      BY <2>2
    <3> HIDE DEF q
    <3> QED BY <1>1, <3>1, GoesOnFacts
  <2> QED BY <2>1, <2>2
<1> HIDE DEF q
<1>3. /\ entry' = entry /\ partials' = partials /\ stored' = stored /\ shared' = shared
      /\ entry' \in [1..Bases -> Keys \cup {NoEntry}] /\ UNCHANGED <<base, bundle>> /\ BundleInv'
  BY DEF FromCache, KeepDownloads, AssetInv, AssetTypeOK, BundleInv
<1> QED BY <1>1, <1>2, <1>3, QuietStep

LEMMA FromAppBundleStep ==
  ASSUME AssetInv, NEW l \in Loads, FromAppBundle(l)
  PROVE  AssetInv'
<1> DEFINE accepts == (bundle.install \in verifiedFor /\ Len(bundle.file) = Size) \/ bundle.file = Right
           q == IF accepts THEN LoadEnded(load[l], "done", bundle.file) ELSE [load[l] EXCEPT !.pc = "begin"]
<1>1. load[l].pc = "bundle" /\ load' = [load EXCEPT ![l] = q]
  BY DEF FromAppBundle, LoadAt, AssetInv, AssetTypeOK
<1>2. accepts => bundle.file = Right
  BY DEF AssetInv, BundleInv
<1>3. /\ q \in LoadRecord /\ q.pc # "range" /\ q.obj \in {load[l].obj, NoEntry} /\ LoadOK(q)
      /\ ~shared => Placed(q)
      /\ \A b \in 1..Bases : Ahead(q, b) => Ahead(load[l], b)
  <2>1. CASE accepts
    BY <2>1, <1>2, DoneFacts
  <2>2. CASE ~accepts
    <3>1. q = [load[l] EXCEPT !.pc = "begin"]
      BY <2>2
    <3> HIDE DEF q
    <3> QED BY <1>1, <3>1, GoesOnFacts
  <2> QED BY <2>1, <2>2
<1>4. BundleInv' /\ UNCHANGED <<base, bundle>>
  <2>1. /\ verifiedFor' = IF accepts THEN {bundle.install} ELSE verifiedFor
        /\ UNCHANGED <<base, bundle>>
    BY DEF FromAppBundle
  <2>2. bundle.install \in Nat
    BY DEF AssetInv, AssetTypeOK
  <2> HIDE DEF accepts, q
  <2>3. {bundle.install} \subseteq 0..bundle.install
    BY <2>2
  <2> QED BY <1>2, <2>1, <2>3 DEF AssetInv, BundleInv
<1> HIDE DEF q
<1>5. /\ entry' = entry /\ partials' = partials /\ stored' = stored /\ shared' = shared
      /\ entry' \in [1..Bases -> Keys \cup {NoEntry}]
  BY DEF FromAppBundle, KeepDownloads, AssetInv, AssetTypeOK
<1> QED BY <1>1, <1>3, <1>4, <1>5, QuietStep

LEMMA BeginStep ==
  ASSUME AssetInv, NEW l \in Loads, BeginDownload(l)
  PROVE  AssetInv'
<1>1. load[l] \in LoadRecord /\ load[l].pc = "begin" /\ load[l].b \in 1..Bases
  BY DEF BeginDownload, LoadAt, AssetInv, AssetTypeOK, LoadRecord
<1>2. stored' = stored /\ KeepDelivery
  BY DEF BeginDownload
<1>3. CASE entry[load[l].b] = NoEntry
  <2> DEFINE q == [load[l] EXCEPT !.pc = "restore"]
  <2>1. /\ load' = [load EXCEPT ![l] = q] /\ entry' = entry /\ partials' = partials /\ shared' = shared
        /\ entry' \in [1..Bases -> Keys \cup {NoEntry}]
    BY <1>3 DEF BeginDownload, LoadGoto, AssetInv, AssetTypeOK
  <2>2. q = [load[l] EXCEPT !.pc = "restore"]
    OBVIOUS
  <2> HIDE DEF q
  <2>3. /\ q \in LoadRecord /\ q.pc = "restore" /\ q.obj = load[l].obj /\ q.pc # "range" /\ LoadOK(q)
        /\ ~shared => Placed(q)
        /\ \A b \in 1..Bases : Ahead(q, b) => Ahead(load[l], b)
    BY <1>1, <2>2, GoesOnFacts
  <2> QED BY <1>2, <2>1, <2>3, BundleStays, QuietStep
<1>4. CASE entry[load[l].b] # NoEntry
  <2> DEFINE known == entry[load[l].b]
             r == [load[l] EXCEPT !.obj = known]
  <2>1. known \in Keys
    BY <1>1, <1>4 DEF AssetInv, AssetTypeOK
  <2>2. /\ GoOn(l, r, partials[known])
        /\ shared' = (shared \/ \E o \in Loads \ {l} : LoadAt(o, "range") /\ load[o].obj = known)
    BY <1>4 DEF BeginDownload
  <2>3. r \in LoadRecord
    BY <1>1, <2>1, FieldIsSet, Zenon
  <2>4. r.b = load[l].b /\ r.obj = known /\ r.raw = load[l].raw /\ r.pending = load[l].pending
    BY <1>1 DEF LoadRecord
  <2>5. partials[known] \in Partials /\ shared' \in BOOLEAN
    BY <2>1, <2>2 DEF AssetInv, AssetTypeOK
  <2>6. ~shared' => /\ ~shared /\ Placed(r) /\ FilledTo(partials[known])
                    /\ OthersLeave(l, r.obj)
    BY <2>1, <2>2, <2>4 DEF OthersLeave, Placed, AssetInv, WholeInv
  <2>7. r.obj \in {entry[x] : x \in 1..Bases}
    BY <1>1, <2>4
  <2> HIDE DEF known, r
  <2> QED BY <1>1, <1>2, <2>1, <2>2, <2>3, <2>4, <2>5, <2>6, <2>7, GoOnStep
<1> QED BY <1>3, <1>4

(* A partial that a load makes is its own.                                  *)
LEMMA MakesOwn ==
  ASSUME AssetInv, NEW l \in Loads, load[l].pc \in {"restore", "first"}
  PROVE  OthersLeave(l, <<l, load[l].b>>) /\ <<l, load[l].b>> \in Keys
<1>1. load[l].b \in 1..Bases
  BY DEF AssetInv, AssetTypeOK, LoadRecord
<1>2. Ahead(load[l], load[l].b)
  BY <1>1 DEF Ahead
<1> QED BY <1>1, <1>2 DEF AssetInv, FreshInv, OthersLeave, Keys

LEMMA ReceivedFacts ==
  ASSUME NEW n \in Nat, NEW total \in Nat, NEW bytes, bytes \in [1..n -> Cells], Len(bytes) = n, n <= total
  PROVE  /\ Received(bytes, total) \in Partials
         /\ Received(bytes, total).offset = n /\ Received(bytes, total).total = total
         /\ (\A i \in 1..n : bytes[i] # Gap /\ bytes[i].at = i) => FilledTo(Received(bytes, total))
<1> DEFINE out == [i \in 1..total |-> IF i <= n THEN bytes[i] ELSE Gap]
<1>1. Gap \in Cells
  BY DEF Gap, Cells
<1>2. out \in [1..total -> Cells] /\ out \in Files
  <2>1. \A i \in 1..total : i <= n => i \in 1..n
    OBVIOUS
  <2>2. out \in [1..total -> Cells]
    BY <1>1, <2>1
  <2> HIDE DEF out
  <2> QED BY <2>2 DEF Files
<1>3. Received(bytes, total) = [total |-> total, offset |-> n, out |-> out]
  BY DEF Received
<1>4. (\A i \in 1..n : bytes[i] # Gap /\ bytes[i].at = i) =>
        InPlace(out, 0) /\ \A i \in 1..n : out[i] # Gap
  BY DEF InPlace
<1> HIDE DEF out
<1> QED BY <1>2, <1>3, <1>4 DEF Partials, FilledTo

LEMMA RestoreStep ==
  ASSUME AssetInv, NEW l \in Loads, RestorePartial(l)
  PROVE  AssetInv'
<1> DEFINE me == <<l, load[l].b>>
<1>1. load[l] \in LoadRecord /\ load[l].pc = "restore" /\ load[l].b \in 1..Bases
  BY DEF RestorePartial, LoadAt, AssetInv, AssetTypeOK, LoadRecord
<1>2. stored' = stored /\ shared' = shared /\ KeepDelivery /\ shared' \in BOOLEAN
  BY DEF RestorePartial, AssetInv, AssetTypeOK
<1>3. ASSUME NEW s \in ByStart, NEW n \in 1..Len(s), IsLongestRun(s, n),
             LET piece == Received(RunOf(s, n), s[1].total) IN
               /\ piece.offset < piece.total
               /\ partials' = [partials EXCEPT ![me] = piece]
               /\ entry' = [entry EXCEPT ![load[l].b] = me]
               /\ \E next \in Ask([load[l] EXCEPT !.obj = me], piece) : load' = [load EXCEPT ![l] = next]
      PROVE  AssetInv'
  <2> DEFINE run == RunOf(s, n)
             total == s[1].total
             end == EndOf(s[n])
             piece == Received(run, total)
             r == [load[l] EXCEPT !.obj = me]
  <2>1. IsRun(s, n)
    BY <1>3 DEF IsLongestRun
  <2>2. /\ end \in Nat /\ total \in Nat /\ run \in [1..end -> Cells]
        /\ (\A t \in stored : Solid(t)) => \A i \in 1..end : run[i] # Gap /\ run[i].at = i
    BY <2>1, RunFacts DEF AssetInv
  <2>3. run \in Seq(Cells) /\ Len(run) = end
    <3> HIDE DEF run, end
    <3>1. run \in Seq(Cells)
      BY <2>2, SeqDef
    <3> QED BY <2>2, <3>1
  <2>4. piece.offset < piece.total
    BY <1>3
  <2>5. piece.offset = Len(run) /\ piece.total = total
    BY DEF Received
  <2> HIDE DEF run, end, total
  <2>6. end <= total
    BY <2>2, <2>3, <2>4, <2>5
  <2>7. piece \in Partials /\ ((\A t \in stored : Solid(t)) => FilledTo(piece))
    BY <2>2, <2>3, <2>6, ReceivedFacts
  <2>8. me \in Keys /\ OthersLeave(l, me)
    BY <1>1, MakesOwn
  <2>9. r \in LoadRecord
    BY <1>1, <2>8, FieldIsSet, Zenon
  <2>10. r.b = load[l].b /\ r.obj = me /\ r.raw = load[l].raw /\ r.pending = load[l].pending
    BY <1>1 DEF LoadRecord
  <2>11. ~shared' => ~shared /\ Placed(r) /\ FilledTo(piece) /\ OthersLeave(l, r.obj)
    BY <1>2, <2>7, <2>8, <2>10 DEF Placed, AssetInv, WholeInv
  <2>12. PICK next \in Ask(r, piece) : load' = [load EXCEPT ![l] = next]
    BY <1>3 DEF run, total
  <2>13. partials' = [partials EXCEPT ![r.obj] = piece] /\ entry' = [entry EXCEPT ![load[l].b] = <<l, load[l].b>>]
    BY <1>3, <2>10 DEF run, total
  <2>14. r.obj \in Keys /\ r.obj = <<l, load[l].b>>
    BY <2>8, <2>10
  <2> HIDE DEF piece, r, me
  <2> QED BY <1>1, <1>2, <2>4, <2>7, <2>9, <2>10, <2>11, <2>12, <2>13, <2>14, AskStep
<1>4. ASSUME NEW n \in 1..MaxRange, load' = [load EXCEPT ![l] = [load[l] EXCEPT !.pc = "first", !.upto = n]],
             UNCHANGED <<entry, partials>>
      PROVE  AssetInv'
  <2> DEFINE q == [load[l] EXCEPT !.pc = "first", !.upto = n]
  <2>1. n \in Nat /\ n >= 1 /\ "first" \in LoadPcs
    BY AssetAssumption DEF LoadPcs
  <2>2. q = [[load[l] EXCEPT !.pc = "first"] EXCEPT !.upto = n]
    OBVIOUS
  <2>3. q \in LoadRecord
    <3>1. [load[l] EXCEPT !.pc = "first"] \in LoadRecord
      BY <1>1, <2>1, FieldIsSet, Zenon
    <3> QED BY <2>1, <2>2, <3>1, FieldIsSet, Zenon
  <2>4. /\ q.pc = "first" /\ q.upto = n /\ q.b = load[l].b /\ q.obj = load[l].obj
        /\ q.raw = load[l].raw /\ q.pending = load[l].pending
    BY <1>1 DEF LoadRecord
  <2>5. load' = [load EXCEPT ![l] = q] /\ entry' \in [1..Bases -> Keys \cup {NoEntry}]
    BY <1>4 DEF AssetInv, AssetTypeOK
  <2> HIDE DEF q
  <2>6. LoadOK(q) /\ (~shared => Placed(q)) /\ \A b \in 1..Bases : Ahead(q, b) => Ahead(load[l], b)
    BY <1>1, <2>1, <2>4 DEF LoadOK, Placed, AssetInv, WholeInv, Ahead
  <2> QED BY <1>2, <1>4, <2>3, <2>4, <2>5, <2>6, BundleStays, QuietStep
<1> QED BY <1>3, <1>4 DEF RestorePartial

(* What a base serves of a file is from the place that was asked for.       *)
LEMMA ServedFacts ==
  ASSUME AssetInv, NEW l \in Loads, NEW from \in Nat \ {0},
         from <= load[l].upto, from <= TotalOf(base[load[l].b])
  PROVE  LET bytes == RangeServed(l, from)  n == Len(bytes) IN
         /\ bytes \in Seq(Cells) /\ n \in Nat \ {0} /\ from - 1 + n <= TotalOf(base[load[l].b])
         /\ \A i \in 1..n : bytes[i] # Gap /\ bytes[i].at = from - 1 + i
<1>1. load[l] \in LoadRecord /\ base[load[l].b] \in FileVersions
  BY DEF AssetInv, AssetTypeOK, LoadRecord
<1>2. PICK v \in FileVersions : v = base[load[l].b]
  BY <1>1
<1>3. PICK total \in Nat \ {0} : total = TotalOf(v)
  BY <1>2, FileFacts
<1>4. load[l].upto \in Nat
  BY <1>1 DEF LoadRecord
<1>5. PICK m \in Nat : m = Min({load[l].upto, total}) /\ from <= m /\ m <= total
  BY <1>2, <1>3, <1>4, MinOfTwo
<1>6. \A i \in from..m : FileOf(v)[i] \in Cells /\ FileOf(v)[i] = [of |-> v, at |-> i]
  BY <1>3, <1>5 DEF FileOf, Cells
<1>7. RangeServed(l, from) = SubSeq(FileOf(v), from, m)
  BY <1>2, <1>3, <1>5 DEF RangeServed
<1> DEFINE bytes == RangeServed(l, from)
<1>8. /\ bytes \in Seq(Cells) /\ Len(bytes) = m - from + 1
      /\ \A i \in 1 .. m - from + 1 : bytes[i] = FileOf(v)[from + i - 1]
  <2> DEFINE f == FileOf(v)
             sub == SubSeq(f, from, m)
  <2>1. from \in Int /\ m \in Int
    OBVIOUS
  <2> HIDE DEF f, bytes, sub
  <2>4. \A i \in from..m : f[i] \in Cells
    BY <1>6, Zenon DEF f
  <2> USE DEF sub
  <2>2. /\ sub \in Seq(Cells) /\ Len(sub) = IF from <= m THEN m - from + 1 ELSE 0
        /\ \A i \in 1 .. m - from + 1 : sub[i] = f[from + i - 1]
    BY <2>1, <2>4, SubSeqProperties
  <2> HIDE DEF sub
  <2>3. bytes = sub
    BY <1>7 DEF sub, f, bytes
  <2> QED BY <1>5, <2>2, <2>3 DEF f
<1> HIDE DEF bytes
<1>9. \A i \in 1 .. m - from + 1 : bytes[i] = [of |-> v, at |-> from - 1 + i]
  <2> SUFFICES ASSUME NEW i \in 1 .. m - from + 1 PROVE bytes[i] = [of |-> v, at |-> from - 1 + i]
    OBVIOUS
  <2>1. from + i - 1 \in from..m /\ from + i - 1 = from - 1 + i
    BY <1>5
  <2> QED BY <2>1, <1>6, <1>8
<1>10. v # "none"
  BY <1>2 DEF FileVersions
<1>11. \A i \in 1 .. m - from + 1 : bytes[i] # Gap /\ bytes[i].at = from - 1 + i
  <2> SUFFICES ASSUME NEW i \in 1 .. m - from + 1
               PROVE  bytes[i] # Gap /\ bytes[i].at = from - 1 + i
    OBVIOUS
  <2>1. bytes[i] = [of |-> v, at |-> from - 1 + i]
    BY <1>9
  <2>2. bytes[i].of = v /\ bytes[i].at = from - 1 + i /\ Gap.of = "none"
    BY <2>1 DEF Gap
  <2> QED BY <1>10, <2>2
<1>12. m - from + 1 \in Nat \ {0} /\ from - 1 + (m - from + 1) <= total
  BY <1>5
<1> QED BY <1>2, <1>3, <1>8, <1>11, <1>12 DEF bytes

(* A range is to be written with the place it was put.                      *)
LEMMA SavedFacts ==
  ASSUME AssetInv, NEW l \in Loads, NEW start \in Nat, NEW bytes \in Seq(Cells), NEW total \in Nat
  PROVE  LET saved == RangeSaved(l, start, bytes, total) IN
         /\ saved \in SUBSET [of : Nat, range : Ranges]
         /\ ~shared /\ (\A i \in 1..Len(bytes) : bytes[i] # Gap /\ bytes[i].at = start + i) =>
              \A w \in saved : Solid(w.range)
<1> DEFINE range == [start |-> start, bytes |-> bytes, total |-> total]
<1>1. load[l].b \in Nat /\ load[l].pending \in SUBSET [of : Nat, range : Ranges]
  BY AssetAssumption DEF AssetInv, AssetTypeOK, LoadRecord
<1>2. range \in Ranges
  BY DEF Ranges
<1>3. (\A i \in 1..Len(bytes) : bytes[i] # Gap /\ bytes[i].at = start + i) => Solid(range)
  <2>1. range.bytes = bytes /\ range.start = start /\ DOMAIN bytes = 1..Len(bytes)
    OBVIOUS
  <2> HIDE DEF range
  <2> QED BY <2>1 DEF Solid
<1>4. RangeSaved(l, start, bytes, total) = load[l].pending \cup {[of |-> load[l].b, range |-> range]}
  BY DEF RangeSaved
<1>5. ~shared => \A w \in load[l].pending : Solid(w.range)
  BY DEF AssetInv, WholeInv, Placed
<1> HIDE DEF range
<1> QED BY <1>1, <1>2, <1>3, <1>4, <1>5

LEMMA FirstRangeStep ==
  ASSUME AssetInv, NEW l \in Loads, FirstRangeArrives(l)
  PROVE  AssetInv'
<1> DEFINE me == <<l, load[l].b>>
           v == base[load[l].b]
           bytes == RangeServed(l, 1)
           piece == Received(bytes, TotalOf(v))
           saved == RangeSaved(l, 0, bytes, piece.total)
           r == [load[l] EXCEPT !.obj = me, !.pending = saved]
<1>1. load[l] \in LoadRecord /\ load[l].pc = "first" /\ load[l].b \in 1..Bases /\ v \in FileVersions
  BY DEF FirstRangeArrives, LoadAt, AssetInv, AssetTypeOK, LoadRecord
<1>2. stored' = stored /\ shared' = shared /\ KeepDelivery /\ shared' \in BOOLEAN
  BY DEF FirstRangeArrives, AssetInv, AssetTypeOK
<1>3. PICK total \in Nat \ {0} : total = TotalOf(v)
  BY <1>1, FileFacts
<1>4. load[l].upto \in Nat /\ 1 <= load[l].upto
  BY <1>1 DEF AssetInv, LoadOK, LoadRecord
<1>5. /\ bytes \in Seq(Cells) /\ Len(bytes) \in Nat \ {0} /\ 1 - 1 + Len(bytes) <= total
      /\ \A i \in 1..Len(bytes) : bytes[i] # Gap /\ bytes[i].at = 1 - 1 + i
  BY <1>3, <1>4, ServedFacts
<1>6. me \in Keys /\ OthersLeave(l, me)
  BY <1>1, MakesOwn
<1>7. IF piece.offset < piece.total
      THEN /\ entry' = [entry EXCEPT ![load[l].b] = me]
           /\ partials' = [partials EXCEPT ![me] = piece]
           /\ \E next \in Ask(r, piece) : load' = [load EXCEPT ![l] = next]
      ELSE GoOn(l, r, piece)
  BY DEF FirstRangeArrives
<1> HIDE DEF bytes, v
<1>8. Len(bytes) <= total /\ \A i \in 1..Len(bytes) : bytes[i] # Gap /\ bytes[i].at = i
  BY <1>5
<1>9. piece \in Partials /\ FilledTo(piece) /\ piece.total = total
  <2>1. bytes \in [1..Len(bytes) -> Cells]
    BY <1>5
  <2> QED BY <1>3, <1>5, <1>8, <2>1, ReceivedFacts
<1>10. saved \in SUBSET [of : Nat, range : Ranges] /\ (~shared => \A w \in saved : Solid(w.range))
  <2>1. \A i \in 1..Len(bytes) : bytes[i] # Gap /\ bytes[i].at = 0 + i
    BY <1>8
  <2>2. piece.total \in Nat
    BY <1>9
  <2> QED BY <1>5, <2>1, <2>2, SavedFacts
<1>11. r \in LoadRecord
  <2>1. r = [[load[l] EXCEPT !.obj = me] EXCEPT !.pending = saved]
    OBVIOUS
  <2> HIDE DEF saved, me, r
  <2>2. [load[l] EXCEPT !.obj = me] \in LoadRecord
    BY <1>1, <1>6, FieldIsSet, Zenon
  <2> QED BY <1>10, <2>1, <2>2, FieldIsSet, Zenon
<1>12. r.b = load[l].b /\ r.obj = me /\ r.raw = load[l].raw /\ r.pending = saved
  <2> HIDE DEF saved, me
  <2> QED BY <1>1 DEF LoadRecord
<1> HIDE DEF saved, piece, r
<1>13. ~shared' => ~shared /\ Placed(r) /\ FilledTo(piece) /\ OthersLeave(l, r.obj)
  BY <1>2, <1>6, <1>9, <1>10, <1>12 DEF Placed, AssetInv, WholeInv
<1>14. r.obj \in Keys /\ r.obj = <<l, load[l].b>>
  BY <1>6, <1>12
<1> HIDE DEF me
<1>15. CASE piece.offset < piece.total
  <2>1. PICK next \in Ask(r, piece) : load' = [load EXCEPT ![l] = next]
    BY <1>7, <1>15
  <2>2. partials' = [partials EXCEPT ![r.obj] = piece] /\ entry' = [entry EXCEPT ![load[l].b] = <<l, load[l].b>>]
    BY <1>7, <1>12, <1>15 DEF me
  <2> QED BY <1>1, <1>2, <1>9, <1>11, <1>12, <1>13, <1>14, <1>15, <2>1, <2>2, AskStep
<1>16. CASE ~ (piece.offset < piece.total)
  BY <1>1, <1>2, <1>7, <1>9, <1>11, <1>12, <1>13, <1>14, <1>16, GoOnStep
<1> QED BY <1>15, <1>16

LEMMA WholeFileStep ==
  ASSUME AssetInv, NEW l \in Loads, WholeFileArrives(l)
  PROVE  AssetInv'
<1> DEFINE f == FileOf(base[load[l].b])
           q == [load[l] EXCEPT !.pc = "verify", !.raw = f]
<1>1. load[l] \in LoadRecord /\ load[l].pc = "first" /\ f \in Files /\ InPlace(f, 0)
  BY FileFacts DEF WholeFileArrives, LoadAt, AssetInv, AssetTypeOK, LoadRecord
<1>2. load' = [load EXCEPT ![l] = q] /\ KeepDelivery /\ KeepDownloads
  BY <1>1 DEF WholeFileArrives, AssetInv, AssetTypeOK
<1> HIDE DEF f
<1>3. q \in LoadRecord
  <2>1. "verify" \in LoadPcs /\ q = [[load[l] EXCEPT !.pc = "verify"] EXCEPT !.raw = f]
    BY DEF LoadPcs
  <2> HIDE DEF q
  <2>2. [load[l] EXCEPT !.pc = "verify"] \in LoadRecord
    BY <1>1, <2>1, FieldIsSet, Zenon
  <2> QED BY <1>1, <2>1, <2>2, FieldIsSet, Zenon
<1>4. q.pc = "verify" /\ q.b = load[l].b /\ q.obj = load[l].obj /\ q.raw = f /\ q.pending = load[l].pending
  BY <1>1 DEF LoadRecord
<1> HIDE DEF q
<1>5. LoadOK(q) /\ (~shared => Placed(q)) /\ \A b \in 1..Bases : Ahead(q, b) => Ahead(load[l], b)
  <2>1. load[l].b \in 1..Bases
    BY <1>1 DEF LoadRecord
  <2> QED BY <1>1, <1>4, <2>1 DEF LoadOK, Placed, AssetInv, WholeInv, Ahead
<1>6. /\ entry' = entry /\ partials' = partials /\ stored' = stored /\ shared' = shared
      /\ entry' \in [1..Bases -> Keys \cup {NoEntry}]
  BY <1>2 DEF KeepDownloads, AssetInv, AssetTypeOK
<1> QED BY <1>2, <1>3, <1>4, <1>5, <1>6, BundleStays, QuietStep

LEMMA BeyondStep ==
  ASSUME AssetInv, NEW l \in Loads, load[l].pc \in {"first", "range", "clear", "verify"},
         load' = [load EXCEPT ![l] = Beyond(load[l])],
         partials' = partials, stored' = stored, shared' = shared, KeepDelivery,
         entry' \in [1..Bases -> Keys \cup {NoEntry}],
         \A x \in 1..Bases : entry'[x] \in {entry[x], NoEntry}
  PROVE  AssetInv'
<1> DEFINE q == Beyond(load[l])
<1>1. load[l] \in LoadRecord
  BY DEF AssetInv, AssetTypeOK
<1>2. /\ q \in LoadRecord /\ q.pc \in {"failed", "begin"} /\ q.obj = NoEntry
      /\ q.raw = <<>> /\ q.pending = load[l].pending
      /\ \A b \in 1..Bases : Ahead(q, b) => Ahead(load[l], b)
  BY <1>1, BeyondFacts
<1> HIDE DEF q
<1>3. LoadOK(q) /\ q.pc # "range" /\ (~shared => Placed(q))
  BY <1>2, EmptyIsFile DEF LoadOK, Placed, AssetInv, WholeInv
<1>4. load' = [load EXCEPT ![l] = q]
  BY DEF q
<1> QED BY <1>2, <1>3, <1>4, BundleStays, QuietStep

LEMMA RangeFailsStep ==
  ASSUME AssetInv, NEW l \in Loads, RangeFails(l)
  PROVE  AssetInv'
<1>1. load[l].pc \in {"first", "range"} /\ load' = [load EXCEPT ![l] = Beyond(load[l])]
  BY DEF RangeFails, LoadAt, AssetInv, AssetTypeOK
<1>2. /\ KeepDelivery /\ partials' = partials /\ stored' = stored /\ shared' = shared
      /\ entry' = entry /\ entry' \in [1..Bases -> Keys \cup {NoEntry}]
  BY DEF RangeFails, KeepDownloads, AssetInv, AssetTypeOK
<1> QED BY <1>1, <1>2, BeyondStep

(* The download is given up for the next base: its ranges are cleared first. *)
LEMMA GivesUpStep ==
  ASSUME AssetInv, NEW l \in Loads, load[l].pc \in {"range", "verify"},
         load' = [load EXCEPT ![l] = [load[l] EXCEPT !.pc = "clear", !.then = "next"]],
         entry' = [entry EXCEPT ![load[l].b] = NoEntry],
         partials' = partials, stored' = stored, shared' = shared, KeepDelivery
  PROVE  AssetInv'
<1> DEFINE q == [load[l] EXCEPT !.pc = "clear", !.then = "next"]
<1>1. load[l] \in LoadRecord
  BY DEF AssetInv, AssetTypeOK
<1>2. q \in LoadRecord
  <2>1. "clear" \in LoadPcs /\ "next" \in Thens /\ q = [[load[l] EXCEPT !.pc = "clear"] EXCEPT !.then = "next"]
    BY DEF LoadPcs, Thens
  <2> HIDE DEF q
  <2>2. [load[l] EXCEPT !.pc = "clear"] \in LoadRecord
    BY <1>1, <2>1, FieldIsSet, Zenon
  <2> QED BY <2>1, <2>2, FieldIsSet, Zenon
<1>3. q.pc = "clear" /\ q.b = load[l].b /\ q.obj = load[l].obj /\ q.raw = load[l].raw /\ q.pending = load[l].pending
  BY <1>1 DEF LoadRecord
<1>4. load' = [load EXCEPT ![l] = q]
  OBVIOUS
<1> HIDE DEF q
<1>5. LoadOK(q) /\ (~shared => Placed(q)) /\ \A b \in 1..Bases : Ahead(q, b) => Ahead(load[l], b)
  BY <1>3 DEF LoadOK, Placed, AssetInv, WholeInv, Ahead
<1>6. /\ entry' \in [1..Bases -> Keys \cup {NoEntry}]
      /\ \A x \in 1..Bases : entry'[x] \in {entry[x], NoEntry}
  BY <1>1 DEF AssetInv, AssetTypeOK, LoadRecord
<1> QED BY <1>2, <1>3, <1>4, <1>5, <1>6, BundleStays, QuietStep

LEMMA FilledIs ==
  ASSUME NEW p \in Partials, NEW n, NEW out
  PROVE  [p EXCEPT !.offset = n, !.out = out] = [total |-> p.total, out |-> out, offset |-> n]
<1>1. p \in [total : Nat, out : Files, offset : Nat]
  BY DEF Partials
<1> DEFINE q == [p EXCEPT !.offset = n]
<1>2. q = [total |-> p.total, out |-> p.out, offset |-> n]
  BY <1>1
<1>3. [p EXCEPT !.offset = n, !.out = out] = [q EXCEPT !.out = out]
  OBVIOUS
<1> HIDE DEF q
<1>4. [q EXCEPT !.out = out] = [total |-> p.total, out |-> out, offset |-> n]
  BY <1>2
<1> QED BY <1>3, <1>4

LEMMA RangeStep ==
  ASSUME AssetInv, NEW l \in Loads, RangeArrives(l)
  PROVE  AssetInv'
<1> DEFINE piece == Partial(l)
           bytes == RangeServed(l, load[l].from)
           out == [i \in 1..piece.total |->
                     IF i \in piece.offset + 1 .. piece.offset + Len(bytes)
                     THEN bytes[i - piece.offset] ELSE piece.out[i]]
           filled == [piece EXCEPT !.offset = piece.offset + Len(bytes), !.out = out]
           saved == RangeSaved(l, piece.offset, bytes, piece.total)
           r == [load[l] EXCEPT !.pending = saved]
<1>1. /\ load[l] \in LoadRecord /\ load[l].pc = "range" /\ load[l].b \in 1..Bases
      /\ base[load[l].b] \in FileVersions
  BY DEF RangeArrives, LoadAt, AssetInv, AssetTypeOK, LoadRecord
<1>2. stored' = stored /\ shared' = shared /\ KeepDelivery /\ shared' \in BOOLEAN
  BY DEF RangeArrives, AssetInv, AssetTypeOK
<1>3. load[l].obj \in Keys /\ load[l].from \in Nat \ {0} /\ load[l].from <= load[l].upto
  BY <1>1 DEF AssetInv, LoadOK, LoadRecord
<1>4. piece \in Partials /\ (~shared => FilledTo(piece))
  BY <1>3 DEF Partial, AssetInv, AssetTypeOK, WholeInv
<1>5. ~shared => load[l].from = piece.offset + 1 /\ OthersLeave(l, load[l].obj)
  BY <1>1 DEF AssetInv, WholeInv, LoadAt
<1>6. /\ load[l].from <= TotalOf(base[load[l].b])
      /\ IF TotalOf(base[load[l].b]) # piece.total
         THEN /\ load' = [load EXCEPT ![l] = [load[l] EXCEPT !.pc = "clear", !.then = "next"]]
              /\ entry' = [entry EXCEPT ![load[l].b] = NoEntry]
              /\ partials' = partials
         ELSE IF filled.offset > piece.total
         THEN load' = [load EXCEPT ![l] = Beyond(load[l])] /\ UNCHANGED <<entry, partials>>
         ELSE GoOn(l, r, filled)
  BY DEF RangeArrives, AssetInv, AssetTypeOK
<1>7. CASE TotalOf(base[load[l].b]) # piece.total
  <2> HIDE DEF piece
  <2> QED BY <1>1, <1>2, <1>6, <1>7, GivesUpStep
<1>8. CASE TotalOf(base[load[l].b]) = piece.total /\ filled.offset > piece.total
  <2>1. /\ load' = [load EXCEPT ![l] = Beyond(load[l])] /\ entry' = entry /\ partials' = partials
        /\ entry' \in [1..Bases -> Keys \cup {NoEntry}]
    BY <1>6, <1>8 DEF AssetInv, AssetTypeOK
  <2> QED BY <1>1, <1>2, <2>1, BeyondStep
<1>9. CASE TotalOf(base[load[l].b]) = piece.total /\ ~ (filled.offset > piece.total)
  <2>1. /\ bytes \in Seq(Cells) /\ Len(bytes) \in Nat \ {0}
        /\ \A i \in 1..Len(bytes) : bytes[i] # Gap /\ bytes[i].at = load[l].from - 1 + i
    BY <1>3, <1>6, ServedFacts
  <2>2. /\ piece.total \in Nat /\ piece.offset \in Nat /\ piece.out \in [1..piece.total -> Cells]
        /\ DOMAIN piece = {"total", "out", "offset"} /\ piece = [total |-> piece.total, out |-> piece.out, offset |-> piece.offset]
    BY <1>4 DEF Partials
  <2> HIDE DEF bytes, piece
  <2>3. out \in [1..piece.total -> Cells] /\ out \in Files
    <3>1. \A i \in piece.offset + 1 .. piece.offset + Len(bytes) : i - piece.offset \in 1..Len(bytes)
      BY <2>1, <2>2
    <3>2. \A i \in piece.offset + 1 .. piece.offset + Len(bytes) : bytes[i - piece.offset] \in Cells
      BY <2>1, <3>1
    <3>3. out \in [1..piece.total -> Cells]
      BY <2>2, <3>2
    <3> HIDE DEF out
    <3> QED BY <2>2, <3>3 DEF Files
  <2>4. ~shared => InPlace(out, 0) /\ \A i \in 1..piece.offset + Len(bytes) : i \in 1..piece.total => out[i] # Gap
    <3> SUFFICES ASSUME ~shared, NEW i \in 1..piece.total
                 PROVE  /\ out[i] # Gap => out[i].at = i
                        /\ i <= piece.offset + Len(bytes) => out[i] # Gap
      BY <2>1, <2>2 DEF InPlace
    <3>1. CASE i \in piece.offset + 1 .. piece.offset + Len(bytes)
      <4>1. i - piece.offset \in 1..Len(bytes) /\ load[l].from - 1 + (i - piece.offset) = i
        <5>1. PICK o \in Nat, n \in Nat : o = piece.offset /\ n = Len(bytes)
          BY <2>1, <2>2
        <5>2. load[l].from = o + 1
          BY <1>5, <5>1
        <5>3. i \in o + 1 .. o + n => i - o \in 1..n /\ (o + 1) - 1 + (i - o) = i
          OBVIOUS
        <5> QED BY <3>1, <5>1, <5>2, <5>3
      <4> QED BY <3>1, <4>1, <2>1
    <3>2. CASE i \notin piece.offset + 1 .. piece.offset + Len(bytes)
      <4>1. out[i] = piece.out[i] /\ (i <= piece.offset + Len(bytes) => i \in 1..piece.offset)
        BY <3>2, <2>1, <2>2
      <4>2. piece.out[i] # Gap => piece.out[i].at = 0 + i
        BY <1>4, <2>2 DEF FilledTo, InPlace
      <4> QED BY <4>1, <4>2, <1>4 DEF FilledTo
    <3> QED BY <3>1, <3>2
  <2>5. filled = [total |-> piece.total, out |-> out, offset |-> piece.offset + Len(bytes)]
    <3> HIDE DEF out
    <3> QED BY <1>4, FilledIs
  <2> HIDE DEF out
  <2>6. filled.total = piece.total /\ filled.out = out /\ filled.offset = piece.offset + Len(bytes)
    BY <2>5
  <2>7. filled.offset \in Nat /\ filled.offset <= filled.total
    BY <1>9, <2>1, <2>2, <2>6
  <2>8. filled \in Partials
    BY <2>2, <2>3, <2>5, <2>6, <2>7 DEF Partials
  <2>9. ~shared => FilledTo(filled)
    BY <2>4, <2>6, <2>7, <2>2 DEF FilledTo
  <2>10. saved \in SUBSET [of : Nat, range : Ranges] /\ (~shared => \A w \in saved : Solid(w.range))
    <3>1. ~shared => \A i \in 1..Len(bytes) : bytes[i] # Gap /\ bytes[i].at = piece.offset + i
      BY <1>5, <2>1, <2>2
    <3> QED BY <2>1, <2>2, <3>1, SavedFacts
  <2>11. GoOn(l, r, filled)
    BY <1>6, <1>9
  <2> HIDE DEF filled, saved
  <2>12. r \in LoadRecord
    BY <1>1, <2>10, FieldIsSet, Zenon
  <2>13. r.b = load[l].b /\ r.obj = load[l].obj /\ r.raw = load[l].raw /\ r.pending = saved
    BY <1>1 DEF LoadRecord
  <2> HIDE DEF r
  <2>14. ~shared' => ~shared /\ Placed(r) /\ FilledTo(filled) /\ OthersLeave(l, r.obj)
    BY <1>2, <1>5, <2>9, <2>10, <2>13 DEF Placed, AssetInv, WholeInv
  <2>15. r.obj \in Keys /\ r.obj = load[l].obj
    BY <1>3, <2>13
  <2> QED BY <1>1, <1>2, <2>8, <2>11, <2>12, <2>13, <2>14, <2>15, GoOnStep
<1> QED BY <1>7, <1>8, <1>9

LEMMA WrittenStep ==
  ASSUME AssetInv, NEW l \in Loads, RangeWritten(l)
  PROVE  AssetInv'
<1>1. PICK w \in load[l].pending :
        /\ load' = [load EXCEPT ![l] = [load[l] EXCEPT !.pending = load[l].pending \ {w}]]
        /\ \/ stored' = {s \in stored : s.start # w.range.start \/ s.total # w.range.total} \cup {w.range}
           \/ UNCHANGED stored
        /\ UNCHANGED <<entry, partials, shared>> /\ KeepDelivery
  BY DEF RangeWritten, AssetInv, AssetTypeOK
<1> DEFINE q == [load[l] EXCEPT !.pending = load[l].pending \ {w}]
<1>2. load[l] \in LoadRecord /\ load[l].pending \ {w} \in SUBSET [of : Nat, range : Ranges] /\ w.range \in Ranges
  BY DEF AssetInv, AssetTypeOK, LoadRecord
<1>3. q \in LoadRecord
  BY <1>2, FieldIsSet, Zenon
<1>4. /\ q.pc = load[l].pc /\ q.b = load[l].b /\ q.obj = load[l].obj /\ q.raw = load[l].raw
      /\ q.from = load[l].from /\ q.upto = load[l].upto /\ q.pending = load[l].pending \ {w}
  BY <1>2 DEF LoadRecord
<1>5. load' = [load EXCEPT ![l] = q] /\ UNCHANGED <<entry, partials, shared>>
  BY <1>1
<1>6. load'[l] = q /\ \A o \in Loads \ {l} : load'[o] = load[o]
  BY <1>5 DEF AssetInv, AssetTypeOK
<1> HIDE DEF q
<1>7. stored' \in SUBSET Ranges /\ IsFiniteSet(stored') /\ \A s \in stored' : s \in stored \/ s = w.range
  <2> DEFINE kept == {s \in stored : s.start # w.range.start \/ s.total # w.range.total}
  <2>1. stored \in SUBSET Ranges /\ IsFiniteSet(stored)
    BY DEF AssetInv, AssetTypeOK
  <2>2. kept \in SUBSET stored
    OBVIOUS
  <2>3. stored' = stored \/ stored' = kept \cup {w.range}
    BY <1>1
  <2> HIDE DEF kept
  <2>4. IsFiniteSet(kept) /\ IsFiniteSet(kept \cup {w.range})
    BY <2>1, <2>2, FS_Subset, FS_AddElement
  <2> QED BY <1>2, <2>1, <2>2, <2>3, <2>4
<1>8. \A o \in Loads : LoadOK(load'[o])
  BY <1>4, <1>6 DEF LoadOK, AssetInv
<1>9. FreshInv'
  <2>1. \A m \in Loads, b \in 1..Bases : Ahead(load'[m], b) => Ahead(load[m], b)
    BY <1>4, <1>6 DEF Ahead
  <2>2. \A m \in Loads : load'[m].obj = load[m].obj
    BY <1>4, <1>6
  <2> QED BY <1>5, <2>1, <2>2 DEF FreshInv, AssetInv
<1>10. WholeInv'
  <2> SUFFICES ASSUME ~shared' PROVE WholeInv'
    BY DEF WholeInv
  <2>1. ~shared /\ WholeInv
    BY <1>5 DEF AssetInv
  <2>2. \A o \in Loads : Placed(load[o])
    BY <2>1 DEF WholeInv
  <2>3. Solid(w.range) /\ \A o \in Loads : Placed(load'[o])
    BY <1>4, <1>6, <2>2 DEF Placed
  <2>4. \A s \in stored' : Solid(s)
    BY <1>7, <2>1, <2>3 DEF WholeInv
  <2>5. \A m \in Loads : load'[m].pc = load[m].pc /\ load'[m].from = load[m].from /\ load'[m].obj = load[m].obj
    BY <1>4, <1>6
  <2>6. \A m \in Loads : load'[m].pc = "range" =>
          /\ load'[m].from = partials'[load'[m].obj].offset + 1
          /\ \A o \in Loads \ {m} : load'[o].pc = "range" => load'[o].obj # load'[m].obj
    BY <1>5, <2>1, <2>5 DEF WholeInv, LoadAt, Partial, OthersLeave
  <2> QED BY <1>5, <2>1, <2>3, <2>4, <2>6 DEF WholeInv, LoadAt, Partial, OthersLeave
<1>11. AssetTypeOK'
  BY <1>1, <1>3, <1>5, <1>7, BundleStays DEF AssetInv, AssetTypeOK
<1> QED BY <1>1, <1>8, <1>9, <1>10, <1>11, BundleStays DEF AssetInv

LEMMA ClearStep ==
  ASSUME AssetInv, NEW l \in Loads, ClearRanges(l)
  PROVE  AssetInv'
<1>1. load[l] \in LoadRecord /\ load[l].pc = "clear"
  BY DEF ClearRanges, LoadAt, AssetInv, AssetTypeOK
<1> DEFINE q == IF load[l].then = "verify" THEN [load[l] EXCEPT !.pc = "verify"] ELSE Beyond(load[l])
<1>2. /\ load' = [load EXCEPT ![l] = q] /\ stored' \in {{}, stored}
      /\ UNCHANGED <<entry, partials, shared>> /\ KeepDelivery
  BY DEF ClearRanges, AssetInv, AssetTypeOK
<1>3. /\ q \in LoadRecord /\ q.pc # "range" /\ q.obj \in {load[l].obj, NoEntry} /\ LoadOK(q)
      /\ ~shared => Placed(q)
      /\ \A b \in 1..Bases : Ahead(q, b) => Ahead(load[l], b)
  <2>1. CASE load[l].then = "verify"
    <3>1. q = [load[l] EXCEPT !.pc = "verify"]
      BY <2>1
    <3> HIDE DEF q
    <3> QED BY <1>1, <3>1, GoesOnFacts
  <2>2. CASE load[l].then # "verify"
    <3>1. q = Beyond(load[l])
      BY <2>2
    <3> HIDE DEF q
    <3>2. /\ q \in LoadRecord /\ q.pc \in {"failed", "begin"} /\ q.obj = NoEntry
          /\ q.raw = <<>> /\ q.pending = load[l].pending
          /\ \A b \in 1..Bases : Ahead(q, b) => Ahead(load[l], b)
      BY <1>1, <3>1, BeyondFacts
    <3> QED BY <3>2, EmptyIsFile DEF LoadOK, Placed, AssetInv, WholeInv
  <2> QED BY <2>1, <2>2
<1> HIDE DEF q
<1>4. load'[l] = q /\ \A o \in Loads \ {l} : load'[o] = load[o]
  BY <1>2 DEF AssetInv, AssetTypeOK
<1>5. AssetTypeOK'
  <2>1. stored' \in SUBSET Ranges /\ IsFiniteSet(stored')
    BY <1>2, FS_EmptySet DEF AssetInv, AssetTypeOK
  <2> QED BY <1>2, <1>3, <2>1, BundleStays DEF AssetInv, AssetTypeOK
<1>6. \A o \in Loads : LoadOK(load'[o])
  BY <1>3, <1>4 DEF AssetInv
<1>7. FreshInv'
  <2>1. \A m \in Loads, b \in 1..Bases : Ahead(load'[m], b) => Ahead(load[m], b)
    BY <1>3, <1>4
  <2>2. \A m \in Loads : load'[m].obj \in {load[m].obj, NoEntry}
    BY <1>3, <1>4
  <2>3. \A m \in Loads, b \in 1..Bases : <<m, b>> # NoEntry
    BY DEF NoEntry
  <2> QED BY <1>2, <2>1, <2>2, <2>3 DEF FreshInv, AssetInv
<1>8. WholeInv'
  <2> SUFFICES ASSUME ~shared' PROVE WholeInv'
    BY DEF WholeInv
  <2>1. ~shared /\ WholeInv
    BY <1>2 DEF AssetInv
  <2>2. \A o \in Loads : Placed(load'[o])
    BY <1>3, <1>4, <2>1 DEF WholeInv
  <2>3. \A s \in stored' : Solid(s)
    BY <1>2, <2>1 DEF WholeInv
  <2>4. \A m \in Loads : load'[m].pc = "range" => load'[m] = load[m]
    BY <1>3, <1>4
  <2>5. \A m \in Loads : load'[m].pc = "range" =>
          /\ load'[m].from = partials'[load'[m].obj].offset + 1
          /\ \A o \in Loads \ {m} : load'[o].pc = "range" => load'[o].obj # load'[m].obj
    BY <1>2, <2>1, <2>4 DEF WholeInv, LoadAt, Partial, OthersLeave
  <2> QED BY <1>2, <2>1, <2>2, <2>3, <2>5 DEF WholeInv, LoadAt, Partial, OthersLeave
<1> QED BY <1>2, <1>5, <1>6, <1>7, <1>8, BundleStays DEF AssetInv

LEMMA VerifyStep ==
  ASSUME AssetInv, NEW l \in Loads, VerifyFile(l)
  PROVE  AssetInv'
<1> DEFINE q == LoadEnded(load[l], "done", load[l].raw)
<1>1. load[l].raw = Right /\ load' = [load EXCEPT ![l] = q]
  BY DEF VerifyFile, AssetInv, AssetTypeOK
<1>2. /\ q \in LoadRecord /\ q.pc = "done" /\ q.obj = NoEntry /\ LoadOK(q)
      /\ ~shared => Placed(q)
      /\ \A b \in 1..Bases : ~Ahead(q, b)
  BY <1>1, DoneFacts
<1> HIDE DEF q
<1>3. /\ entry' = entry /\ partials' = partials /\ stored' = stored /\ shared' = shared
      /\ entry' \in [1..Bases -> Keys \cup {NoEntry}] /\ UNCHANGED <<base, bundle>> /\ BundleInv'
  BY DEF VerifyFile, KeepDownloads, AssetInv, AssetTypeOK, BundleInv
<1> QED BY <1>1, <1>2, <1>3, QuietStep

LEMMA RejectStep ==
  ASSUME AssetInv, NEW l \in Loads, RejectFile(l)
  PROVE  AssetInv'
<1>1. load[l].pc = "verify" /\ partials' = partials /\ stored' = stored /\ shared' = shared /\ KeepDelivery
  BY DEF RejectFile, LoadAt
<1>2. CASE load' = [load EXCEPT ![l] = Beyond(load[l])] /\ UNCHANGED entry
  <2>1. entry' \in [1..Bases -> Keys \cup {NoEntry}]
    BY <1>2 DEF AssetInv, AssetTypeOK
  <2> QED BY <1>1, <1>2, <2>1, BeyondStep
<1>3. CASE /\ load' = [load EXCEPT ![l] = [load[l] EXCEPT !.pc = "clear", !.then = "next"]]
           /\ entry' = [entry EXCEPT ![load[l].b] = NoEntry]
  BY <1>1, <1>3, GivesUpStep
<1> QED BY <1>2, <1>3 DEF RejectFile, AssetInv, AssetTypeOK

LEMMA ReloadStep == AssetInv /\ Reload => AssetInv'
<1> SUFFICES ASSUME AssetInv, Reload PROVE AssetInv'
  OBVIOUS
<1>1. UnusedLoad \in LoadRecord /\ UnusedLoad.pc = "unused" /\ UnusedLoad.obj = NoEntry
  BY AssetAssumption, EmptyIsFile DEF UnusedLoad, LoadRecord, LoadPcs, Thens
<1>2. AssetTypeOK'
  <2>1. partials' \in [Keys -> Partials] /\ load' \in [Loads -> LoadRecord] /\ entry' \in [1..Bases -> Keys \cup {NoEntry}]
    BY <1>1, NoPartialOK DEF Reload, Keys
  <2>2. UNCHANGED <<base, bundle, stored, shared>>
    BY DEF Reload
  <2> QED BY <2>1, <2>2 DEF AssetInv, AssetTypeOK
<1>3. BundleInv'
  BY DEF Reload, AssetInv, BundleInv
<1>4. \A l \in Loads : load'[l] = UnusedLoad
  BY DEF Reload
<1>5. \A l \in Loads : LoadOK(load'[l])
  BY <1>1, <1>4 DEF LoadOK
<1>6. FreshInv'
  BY <1>1, <1>4 DEF FreshInv, Reload, NoEntry
<1>7. WholeInv'
  <2>1. Placed(UnusedLoad)
    BY EmptyIsFile DEF Placed, UnusedLoad
  <2>2. \A k \in Keys : partials'[k] = NoPartial
    BY DEF Reload, Keys
  <2>3. stored' = stored /\ shared' = shared
    BY DEF Reload
  <2> QED BY <1>1, <1>4, <2>1, <2>2, <2>3, NoPartialOK DEF AssetInv, WholeInv, LoadAt
<1> QED BY <1>2, <1>3, <1>5, <1>6, <1>7 DEF AssetInv

LEMMA ReplaceStep == AssetInv /\ Replace => AssetInv'
<1> SUFFICES ASSUME AssetInv, Replace PROVE AssetInv'
  OBVIOUS
<1>1. load' = load /\ verifiedFor' = verifiedFor /\ UNCHANGED <<stored, entry, partials, shared>>
  BY DEF Replace, KeepDownloads
<1>2. base' \in [1..Bases -> FileVersions]
  BY DEF Replace, AssetInv, AssetTypeOK
<1>3. \/ bundle' = bundle
      \/ bundle' \in [install : Nat, file : Files] /\ bundle'.install = bundle.install + 1
  BY FileFacts DEF Replace, AssetInv, AssetTypeOK, FileVersions
<1>4. AssetTypeOK'
  BY <1>1, <1>2, <1>3 DEF AssetInv, AssetTypeOK
<1>5. BundleInv'
  <2>1. bundle.install \in Nat
    BY DEF AssetInv, AssetTypeOK
  <2>2. verifiedFor \subseteq 0..bundle.install
    BY DEF AssetInv, BundleInv
  <2>3. CASE bundle' = bundle
    BY <1>1, <2>3 DEF AssetInv, BundleInv
  <2>4. CASE bundle'.install = bundle.install + 1
    <3>1. bundle'.install \notin verifiedFor
      BY <2>1, <2>2, <2>4
    <3> QED BY <3>1, <1>1, <2>1, <2>2, <2>4 DEF BundleInv
  <2> QED BY <1>3, <2>3, <2>4
<1>6. (\A l \in Loads : LoadOK(load'[l])) /\ FreshInv' /\ WholeInv'
  BY <1>1 DEF AssetInv, FreshInv, WholeInv, OthersLeave, LoadAt, Partial
<1> QED BY <1>4, <1>5, <1>6 DEF AssetInv

LEMMA AssetNextInv == AssetInv /\ [AssetNext]_assetVars => AssetInv'
<1> SUFFICES ASSUME AssetInv, [AssetNext]_assetVars PROVE AssetInv'
  OBVIOUS
<1>1. ASSUME NEW l \in Loads,
             \/ StartLoad(l) \/ FromCache(l) \/ FromAppBundle(l)
             \/ BeginDownload(l) \/ RestorePartial(l) \/ FirstRangeArrives(l) \/ WholeFileArrives(l)
             \/ RangeArrives(l) \/ RangeFails(l) \/ RangeWritten(l) \/ ClearRanges(l)
             \/ VerifyFile(l) \/ RejectFile(l)
      PROVE  AssetInv'
  BY <1>1, StartLoadStep, FromCacheStep, FromAppBundleStep, BeginStep, RestoreStep, FirstRangeStep,
     WholeFileStep, RangeStep, RangeFailsStep, WrittenStep, ClearStep, VerifyStep, RejectStep
<1>2. CASE UNCHANGED assetVars
  BY <1>2 DEF assetVars, AssetInv, AssetTypeOK, BundleInv, FreshInv, WholeInv, OthersLeave, LoadAt, Partial
<1> QED BY <1>1, <1>2, ReloadStep, ReplaceStep DEF AssetNext

(* Whatever a load ends with is the pinned file; and unless a load took     *)
(* over a partial that another one was filling, every byte is in its place  *)
(* in every partial, whole file and stored range.                           *)
THEOREM FilesAreWholeHolds == AssetSpec => []FilesAreWhole
<1>1. AssetInv => FilesAreWhole
  <2> SUFFICES ASSUME AssetInv PROVE FilesAreWhole
    OBVIOUS
  <2>1. \A l \in Loads : LoadAt(l, "done") => load[l].raw = Right
    BY DEF AssetInv, LoadOK, LoadAt
  <2>2. DOMAIN partials = Keys
    BY DEF AssetInv, AssetTypeOK
  <2>3. ASSUME ~shared
        PROVE  /\ \A l \in Loads : InPlace(load[l].raw, 0)
               /\ \A s \in stored : InPlace(s.bytes, s.start)
               /\ \A k \in Keys : InPlace(partials[k].out, 0) /\ \A i \in 1..partials[k].offset : partials[k].out[i] # Gap
    <3>1. WholeInv
      BY DEF AssetInv
    <3>2. \A s \in stored : Solid(s) => InPlace(s.bytes, s.start)
      BY DEF Solid, InPlace
    <3> QED BY <2>3, <3>1, <3>2 DEF WholeInv, Placed, FilledTo
  <2> QED BY <2>1, <2>2, <2>3 DEF FilesAreWhole
<1>2. AssetInv /\ [AssetNext]_assetVars => AssetInv'
  BY AssetNextInv
<1> QED BY <1>1, <1>2, AssetInitInv, PTL DEF AssetSpec

-----------------------------------------------------------------------------
(* The face a new Trust ID is created from *)

Hows == {"none", "now", "late", "kept"}

EnrolRecord == [pc : {"none", "done"}, face : Nat]
                 \cup [pc : {"register", "wait", "capture"}, face : Nat, how : Hows, asked : Nat]

FacesTypeOK ==
  /\ attempt \in Nat /\ payload \in Nat /\ inflight \in Nat
  /\ candidate \in [face : Nat, how : Hows]
  /\ enrol \in [Presses -> EnrolRecord]

(* A candidate is of the attempt on screen, or says how it outlived its own. *)
CandidateIsOfNow == candidate.face \in {0, attempt} \/ candidate.how \in {"late", "kept"}

(* An enrolment whose capture may still be aborted was asked for in the     *)
(* attempt on screen: every new attempt aborts it.                          *)
SignalIsOfNow ==
  \A k \in Presses : signal = Enrolling(k) =>
     enrol[k].pc \in {"register", "wait", "capture"} /\ enrol[k].asked = attempt

AmbInv == FacesTypeOK /\ CandidateIsOfNow /\ SignalIsOfNow /\ EnrolsTheFaceScanned

LEMMA HoldIsOfNow == ASSUME attempt \in Nat, NEW a \in Nat
                     PROVE  /\ Hold(a) \in [face : Nat, how : Hows] /\ Hold(a).face = a
                            /\ a = attempt \/ Hold(a).how = "late"
BY DEF Hold, Hows

LEMMA SignalsDiffer == \A k \in Presses :
                         /\ Enrolling(k) # NoCapture
                         /\ \A j \in Presses : Enrolling(k) = Enrolling(j) => k = j
                         /\ \A a \in Attempts : Enrolling(k) # Scanning(a)
BY DEF Enrolling, Scanning, NoCapture

(* A step of a scan: no enrolment moves and the attempt stays.              *)
LEMMA ScanMoves ==
  ASSUME AmbInv, UNCHANGED <<attempt, enrol>>, payload' \in Nat, inflight' \in Nat,
         signal' = signal \/ signal' = NoCapture \/ \E a \in Attempts : signal' = Scanning(a),
         candidate' = candidate \/ \E a \in Nat : candidate' = Hold(a)
  PROVE  AmbInv'
<1>1. FacesTypeOK'
  BY HoldIsOfNow DEF AmbInv, FacesTypeOK
<1>2. CandidateIsOfNow'
  BY HoldIsOfNow DEF AmbInv, FacesTypeOK, CandidateIsOfNow
<1>3. SignalIsOfNow'
  BY SignalsDiffer DEF AmbInv, SignalIsOfNow
<1>4. EnrolsTheFaceScanned'
  BY DEF AmbInv, EnrolsTheFaceScanned
<1> QED BY <1>1, <1>2, <1>3, <1>4 DEF AmbInv

(* A step that begins an attempt: what is kept says so.                     *)
LEMMA AttemptMoves ==
  ASSUME AmbInv, ScheduleScan, UNCHANGED <<enrol, inflight>>, payload' \in Nat,
         candidate' \in [face : Nat, how : Hows], candidate'.face = 0 \/ candidate'.how = "kept"
  PROVE  AmbInv'
<1>1. attempt' \in Nat /\ signal' = NoCapture
  BY DEF ScheduleScan, AmbInv, FacesTypeOK
<1>2. FacesTypeOK' /\ CandidateIsOfNow'
  BY <1>1 DEF AmbInv, FacesTypeOK, CandidateIsOfNow
<1>3. SignalIsOfNow' /\ EnrolsTheFaceScanned'
  BY <1>1, SignalsDiffer DEF AmbInv, SignalIsOfNow, EnrolsTheFaceScanned
<1> QED BY <1>2, <1>3 DEF AmbInv

(* A step of one enrolment, that may end it.                                *)
LEMMA EnrolMoves ==
  ASSUME AmbInv, NEW k \in Presses, NEW r \in EnrolRecord, enrol' = [enrol EXCEPT ![k] = r],
         UNCHANGED <<attempt, inflight>>, payload' \in Nat, candidate' \in [face : Nat, how : Hows],
         CandidateIsOfNow',
         \/ signal' = NoCapture
         \/ signal' = Enrolling(k) /\ r.pc \in {"register", "wait", "capture"} /\ r.asked = attempt
         \/ signal' = signal /\ signal # Enrolling(k),
         r.pc = "register" => r.face = r.asked \/ r.how \in {"late", "kept"}
  PROVE  AmbInv'
<1>1. enrol'[k] = r /\ \A j \in Presses \ {k} : enrol'[j] = enrol[j]
  BY DEF AmbInv, FacesTypeOK
<1>2. FacesTypeOK'
  BY <1>1 DEF AmbInv, FacesTypeOK
<1>3. SignalIsOfNow'
  BY <1>1, SignalsDiffer DEF AmbInv, SignalIsOfNow
<1>4. EnrolsTheFaceScanned'
  BY <1>1 DEF AmbInv, EnrolsTheFaceScanned
<1> QED BY <1>2, <1>3, <1>4 DEF AmbInv

(* A face comes to an enrolment that waits or captures.                     *)
LEMMA EnrolFaceKeepsInv ==
  ASSUME AmbInv, NEW k \in Presses, NEW face \in Nat, enrol[k].pc \in {"wait", "capture"},
         EnrolFace(k, face, IF face = attempt THEN "now" ELSE "late"), UNCHANGED <<attempt, inflight, signal>>
  PROVE  AmbInv'
<1> DEFINE how == IF face = attempt THEN "now" ELSE "late"
<1>1. /\ how \in Hows /\ payload' = face /\ candidate' = [face |-> face, how |-> how]
      /\ face = attempt \/ how = "late"
  BY DEF EnrolFace, Hows
<1>2. CASE signal = Enrolling(k)
  <2> DEFINE r == [enrol[k] EXCEPT !.pc = "register", !.face = face, !.how = how]
  <2>1. enrol' = [enrol EXCEPT ![k] = r]
    BY <1>2 DEF EnrolFace
  <2>2. enrol[k] \in [pc : {"register", "wait", "capture"}, face : Nat, how : Hows, asked : Nat]
    BY DEF AmbInv, FacesTypeOK, EnrolRecord
  <2> HIDE DEF how
  <2>3. r \in EnrolRecord /\ r.pc = "register" /\ r.face = face /\ r.how = how /\ r.asked = enrol[k].asked
    BY <1>1, <2>2 DEF EnrolRecord
  <2>4. enrol[k].asked = attempt
    BY <1>2 DEF AmbInv, SignalIsOfNow
  <2> HIDE DEF r
  <2>5. candidate' \in [face : Nat, how : Hows] /\ CandidateIsOfNow'
    BY <1>1 DEF CandidateIsOfNow
  <2> QED BY <1>1, <1>2, <2>1, <2>3, <2>4, <2>5, EnrolMoves
<1>3. CASE signal # Enrolling(k)
  <2> DEFINE r == [pc |-> "done", face |-> 0]
  <2>1. enrol' = [enrol EXCEPT ![k] = r]
    BY <1>3 DEF EnrolFace, Ended
  <2> HIDE DEF how
  <2>2. r \in EnrolRecord /\ r.pc = "done"
    BY DEF EnrolRecord
  <2> HIDE DEF r
  <2>3. candidate' \in [face : Nat, how : Hows] /\ CandidateIsOfNow'
    BY <1>1 DEF CandidateIsOfNow
  <2> QED BY <1>1, <1>3, <2>1, <2>2, <2>3, EnrolMoves
<1> QED BY <1>2, <1>3

LEMMA ShowMoves == ASSUME NEW s, Show(s) PROVE signal' = signal \/ signal' = NoCapture
BY DEF Show

LEMMA SettleMoves == ASSUME NEW a, NEW s, Settle(a, s) PROVE signal' = signal \/ signal' = NoCapture
BY ShowMoves DEF Settle

LEMMA AmbStepKeepsInv == ASSUME AmbInv, [AmbNext]_ambVars PROVE AmbInv'
<1>a. FacesTypeOK /\ CandidateIsOfNow /\ SignalIsOfNow /\ EnrolsTheFaceScanned /\ Attempts \subseteq Nat
  BY AmbientAssumption DEF AmbInv, Attempts
<1>1. ASSUME NEW a \in Attempts, StartScan(a) PROVE AmbInv'
  <2>1. payload' \in Nat /\ (signal' = signal \/ signal' = Scanning(a))
    BY <1>1, <1>a DEF StartScan, FacesTypeOK
  <2> QED BY <1>1, <1>a, <2>1, ScanMoves DEF StartScan, FacesTypeOK
<1>2. ASSUME NEW a \in Attempts, Prepared(a) PROVE AmbInv'
  <2>1. inflight' \in Nat /\ (signal' = signal \/ signal' = NoCapture)
    BY <1>2, <1>a, SettleMoves DEF Prepared, FacesTypeOK
  <2> QED BY <1>2, <1>a, <2>1, ScanMoves DEF Prepared, FacesTypeOK
<1>3. ASSUME NEW a \in Attempts, ScanTimesOut(a) PROVE AmbInv'
  BY <1>3, <1>a, SettleMoves, ScanMoves DEF ScanTimesOut, KeepFaces, FacesTypeOK
<1>4. ASSUME NEW a \in Attempts, FaceCaptured(a) PROVE AmbInv'
  <2>1. payload' \in Nat /\ (candidate' = candidate \/ \E b \in Nat : candidate' = Hold(b))
    BY <1>4, <1>a DEF FaceCaptured, FacesTypeOK
  <2> QED BY <1>4, <1>a, <2>1, ScanMoves DEF FaceCaptured, FacesTypeOK
<1>5. ASSUME NEW a \in Attempts, NoFaceCaptured(a) PROVE AmbInv'
  BY <1>5, <1>a, SettleMoves, ScanMoves DEF NoFaceCaptured, KeepFaces, FacesTypeOK
<1>6. ASSUME NEW a \in Attempts, LookupFails(a) PROVE AmbInv'
  BY <1>6, <1>a, SettleMoves, ScanMoves DEF LookupFails, KeepFaces, FacesTypeOK
<1>7. ASSUME NEW a \in Attempts, LookupAnswers(a) PROVE AmbInv'
  <2>1. signal' = signal \/ signal' = NoCapture
    BY <1>7, SettleMoves, ShowMoves DEF LookupAnswers, SignedIn
  <2> QED BY <1>7, <1>a, <2>1, ScanMoves DEF LookupAnswers, KeepFaces, FacesTypeOK
<1>8. ASSUME Retry PROVE AmbInv'
  <2>1. candidate' \in [face : Nat, how : Hows] /\ candidate'.face = 0
    BY <1>8 DEF Retry, NoCandidate, Hows
  <2> QED BY <1>8, <2>1, AttemptMoves DEF Retry
<1>9. ASSUME SwitchAccount \/ StartFingerprint \/ FingerprintAnswers \/ Claim \/ Refused \/ ClaimAnswers PROVE AmbInv'
  <2>1. UNCHANGED <<attempt, enrol, candidate, payload, inflight>>
    BY <1>9 DEF SwitchAccount, StartFingerprint, FingerprintAnswers, Claim, Refused, ClaimAnswers, KeepFaces
  <2>2. signal' = signal \/ signal' = NoCapture
    BY <1>9, ShowMoves DEF SwitchAccount, StartFingerprint, FingerprintAnswers, Claim, Refused, ClaimAnswers, SignedIn
  <2> QED BY <1>a, <2>1, <2>2, ScanMoves DEF FacesTypeOK
<1>10. ASSUME Logout PROVE AmbInv'
  <2>1. candidate' \in [face : Nat, how : Hows] /\ (candidate'.face = 0 \/ candidate'.how = "kept")
    BY <1>10, <1>a DEF Logout, FacesTypeOK, Hows
  <2> QED BY <1>10, <1>a, <2>1, AttemptMoves DEF Logout, FacesTypeOK
<1>11. ASSUME NEW k \in Presses, Create(k) PROVE AmbInv'
  <2> DEFINE r == [pc |-> IF Saved.face # 0 THEN "register" ELSE IF inflight # 0 THEN "wait" ELSE "capture",
                   face |-> Saved.face, how |-> Saved.how, asked |-> attempt]
  <2>1. /\ enrol' = [enrol EXCEPT ![k] = r] /\ signal' = Enrolling(k)
        /\ candidate' = IF Saved.face # 0 THEN Saved ELSE candidate
        /\ UNCHANGED <<attempt, payload, inflight>>
    BY <1>11 DEF Create
  <2>2. Saved \in [face : Nat, how : Hows] /\ (Saved.face \in {0, attempt} \/ Saved.how \in {"late", "kept"})
    <3>1. CASE candidate.face # 0
      BY <1>a, <3>1 DEF Saved, FacesTypeOK, CandidateIsOfNow
    <3>2. CASE candidate.face = 0 /\ payload # 0
      BY <1>a, <3>2, HoldIsOfNow DEF Saved, FacesTypeOK
    <3>3. CASE candidate.face = 0 /\ payload = 0
      BY <3>3 DEF Saved, NoCandidate, Hows
    <3> QED BY <3>1, <3>2, <3>3
  <2>3. /\ r \in EnrolRecord /\ r.pc \in {"register", "wait", "capture"} /\ r.asked = attempt
        /\ r.pc = "register" => r.face = r.asked \/ r.how \in {"late", "kept"}
    BY <1>a, <2>2 DEF EnrolRecord, FacesTypeOK
  <2> HIDE DEF r
  <2>4. candidate' \in [face : Nat, how : Hows] /\ CandidateIsOfNow'
    BY <1>a, <2>1, <2>2 DEF FacesTypeOK, CandidateIsOfNow
  <2> QED BY <1>a, <2>1, <2>3, <2>4, EnrolMoves DEF FacesTypeOK
<1>12. ASSUME NEW k \in Presses, InflightSettles(k) PROVE AmbInv'
  <2>1. enrol[k].pc = "wait" /\ UNCHANGED <<attempt, inflight, signal>>
    BY <1>12 DEF InflightSettles
  <2>2. CASE EnrolFace(k, inflight, IF inflight = attempt THEN "now" ELSE "late")
    BY <1>a, <2>1, <2>2, EnrolFaceKeepsInv DEF FacesTypeOK
  <2>3. CASE enrol' = [enrol EXCEPT ![k].pc = "capture"] /\ UNCHANGED <<payload, candidate>>
    <3> DEFINE r == [enrol[k] EXCEPT !.pc = "capture"]
    <3>1. enrol' = [enrol EXCEPT ![k] = r]
      BY <2>3
    <3>2. enrol[k] \in [pc : {"register", "wait", "capture"}, face : Nat, how : Hows, asked : Nat]
      BY <1>a, <2>1 DEF FacesTypeOK, EnrolRecord
    <3>3. r \in EnrolRecord /\ r.pc = "capture" /\ r.asked = enrol[k].asked
      BY <3>2 DEF EnrolRecord
    <3> HIDE DEF r
    <3>4. signal = Enrolling(k) => r.asked = attempt
      BY <1>a, <3>3 DEF SignalIsOfNow
    <3>5. CandidateIsOfNow'
      BY <1>a, <2>1, <2>3 DEF CandidateIsOfNow
    <3> QED BY <1>a, <2>1, <2>3, <3>1, <3>3, <3>4, <3>5, EnrolMoves DEF FacesTypeOK
  <2> QED BY <1>12, <2>2, <2>3 DEF InflightSettles
<1>13. ASSUME NEW k \in Presses, EnrolCaptures(k) PROVE AmbInv'
  <2>1. enrol[k].pc = "capture" /\ UNCHANGED <<attempt, inflight>>
    BY <1>13 DEF EnrolCaptures
  <2>2. CASE /\ EnrolFace(k, enrol[k].asked, IF enrol[k].asked = attempt THEN "now" ELSE "late")
             /\ UNCHANGED <<screen, signal>>
    <3>1. enrol[k].asked \in Nat
      BY <1>a, <2>1 DEF FacesTypeOK, EnrolRecord
    <3> QED BY <2>1, <2>2, <3>1, EnrolFaceKeepsInv
  <2>3. CASE /\ Ended(k) /\ UNCHANGED <<payload, candidate>>
             /\ IF signal = Enrolling(k)
                THEN \E s \in {"FACE_NOT_READ", "SERVICE_DOWN"} : Show(s)
                ELSE UNCHANGED <<screen, signal>>
    <3> DEFINE r == [pc |-> "done", face |-> 0]
    <3>1. r \in EnrolRecord /\ r.pc = "done" /\ enrol' = [enrol EXCEPT ![k] = r]
      BY <2>3 DEF Ended, EnrolRecord
    <3> HIDE DEF r
    <3>2. signal' = NoCapture \/ (signal' = signal /\ signal # Enrolling(k))
      <4>1. \A s \in {"FACE_NOT_READ", "SERVICE_DOWN"} : Show(s) => signal' = NoCapture
        BY DEF Show, Offered
      <4> QED BY <2>3, <4>1
    <3>3. CandidateIsOfNow' /\ payload' \in Nat /\ candidate' \in [face : Nat, how : Hows]
      BY <1>a, <2>1, <2>3 DEF CandidateIsOfNow, FacesTypeOK
    <3> QED BY <2>1, <3>1, <3>2, <3>3, EnrolMoves
  <2> QED BY <1>13, <2>2, <2>3 DEF EnrolCaptures
<1>14. ASSUME NEW k \in Presses, Registered(k) PROVE AmbInv'
  <2> DEFINE r == [pc |-> "done", face |-> 0]
  <2>1. r \in EnrolRecord /\ r.pc = "done" /\ enrol' = [enrol EXCEPT ![k] = r]
    BY <1>14 DEF Registered, Ended, EnrolRecord
  <2> HIDE DEF r
  <2>2. signal' = NoCapture /\ UNCHANGED <<attempt, inflight, payload>> /\ candidate' \in {candidate, NoCandidate}
    BY <1>14 DEF Registered, SignedIn, Show, Offered
  <2>3. CandidateIsOfNow' /\ candidate' \in [face : Nat, how : Hows]
    BY <1>a, <2>2 DEF CandidateIsOfNow, NoCandidate, FacesTypeOK, Hows
  <2> QED BY <1>a, <2>1, <2>2, <2>3, EnrolMoves DEF FacesTypeOK
<1>15. CASE UNCHANGED ambVars
  <2>1. UNCHANGED <<attempt, signal, enrol, candidate, payload, inflight>>
    BY <1>15 DEF ambVars
  <2> QED BY <1>a, <2>1, ScanMoves DEF FacesTypeOK
<1> QED BY <1>1, <1>2, <1>3, <1>4, <1>5, <1>6, <1>7, <1>8, <1>9, <1>10, <1>11, <1>12, <1>13, <1>14, <1>15 DEF AmbNext

(* Whatever the user presses and whatever is answered late, a new Trust ID  *)
(* is created from a face captured in the attempt on screen when Create was *)
(* pressed, or from one of the two that are named: one that came after its  *)
(* attempt was over, and one that outlived a sign-out.  Stated for any      *)
(* number of attempts and presses.                                          *)
THEOREM EnrolsTheFaceScannedHolds == AmbSpec => []EnrolsTheFaceScanned
<1>1. AmbInit => AmbInv
  <2> SUFFICES ASSUME AmbInit PROVE AmbInv
    OBVIOUS
  <2>1. FacesTypeOK
    BY DEF AmbInit, FacesTypeOK, EnrolRecord, Unstarted, NoCandidate, Hows
  <2>2. CandidateIsOfNow /\ SignalIsOfNow /\ EnrolsTheFaceScanned
    BY SignalsDiffer DEF AmbInit, CandidateIsOfNow, SignalIsOfNow, EnrolsTheFaceScanned, Unstarted, NoCandidate
  <2> QED BY <2>1, <2>2 DEF AmbInv
<1>2. AmbInv => EnrolsTheFaceScanned
  BY DEF AmbInv
<1> QED BY <1>1, <1>2, AmbStepKeepsInv, PTL DEF AmbSpec

-----------------------------------------------------------------------------
(* The readiness of the face engine *)

Creators == {"probe", "arcface"}

EngineTypeOK ==
  /\ report \in [Parts \cup {"warmup"} -> {"IDLE", "LOADING", "READY", "FAILED"}]
  /\ pass \in {"none", "components", "warmup"}
  /\ settled \in [Parts -> {"pending", "ok", "failed"}]
  /\ runtime \in [prepared : BOOLEAN, init : {"idle", "running", "ready", "failed"}, attempts : Nat]
  /\ creator \in [Creators -> {"idle", "preparing", "waiting", "init", "session"}]
  /\ arcface \in [made : BOOLEAN, conforms : BOOLEAN]
  /\ landmarker \in [state : {"IDLE", "LOADING", "READY", "FAILED", "REPLACING"},
                     delegate : {"GPU", "CPU"}, warm : BOOLEAN, replaced : Nat]
  /\ extractor \in {"none", "loading", "ready"}

(* ORT is entered once, by one creator, and is then ready or failed for     *)
(* good; a component is ready, and a session being made, only once it is.   *)
OrtIsEnteredOnce ==
  /\ runtime.attempts <= 1
  /\ runtime.init = "idle" => runtime.attempts = 0
  /\ \A k \in Creators :
       /\ creator[k] = "init" => runtime.init = "running"
       /\ creator[k] = "session" => runtime.init = "ready"
  /\ ~(creator["probe"] = "init" /\ creator["arcface"] = "init")
  /\ report["runtime"] = "READY" => runtime.init = "ready"

(* A creator works for a pass that waits for its component, and never for a *)
(* recogniser that is ready already.                                        *)
CreatorsServeThePass ==
  /\ \A k \in Creators : creator[k] # "idle" =>
       pass = "components" /\ settled[PartOf(k)] = "pending"
  /\ report["embedder"] = "READY" => creator["arcface"] = "idle"

(* What the warm-up found is still there while it is called ready.          *)
WarmupStands ==
  /\ report["warmup"] = "READY" =>
       /\ pass # "components" /\ report["embedder"] = "READY" /\ arcface.conforms
       /\ (landmarker.state = "READY" /\ landmarker.warm) \/ landmarker.replaced > 0
  /\ pass = "warmup" => report["embedder"] = "READY"
  /\ pass = "components" => (settled["embedder"] = "ok" => report["embedder"] = "READY")

(* The extractor scans with was given out by an engine that was ready.      *)
ExtractorStands ==
  /\ extractor = "ready" => report["embedder"] = "READY" /\ arcface.conforms
  /\ ~unchecked

EngineInv == EngineTypeOK /\ OrtIsEnteredOnce /\ CreatorsServeThePass /\ WarmupStands /\ ExtractorStands

(* What a read of the readiness finds, component by component.              *)
LEMMA ReconciledValues ==
  ASSUME EngineTypeOK
  PROVE  /\ Reconciled \in [Parts \cup {"warmup"} -> {"IDLE", "LOADING", "READY", "FAILED"}]
         /\ Reconciled["runtime"] = IF runtime.init = "failed" THEN "FAILED" ELSE report["runtime"]
         /\ Reconciled["embedder"] = report["embedder"]
         /\ Reconciled["detector"] = IF report["detector"] = "READY" /\ landmarker.state = "FAILED"
                                     THEN "FAILED" ELSE report["detector"]
         /\ Reconciled["warmup"] = "READY" => report["warmup"] = "READY" /\ \A p \in Parts : Reconciled[p] = "READY"
<1> DEFINE parts == [report EXCEPT
        !.runtime = IF runtime.init = "failed" THEN "FAILED" ELSE @,
        !.detector = IF @ = "READY" /\ landmarker.state = "FAILED" THEN "FAILED" ELSE @]
<1>1. /\ parts \in [Parts \cup {"warmup"} -> {"IDLE", "LOADING", "READY", "FAILED"}]
      /\ parts["runtime"] = IF runtime.init = "failed" THEN "FAILED" ELSE report["runtime"]
      /\ parts["embedder"] = report["embedder"]
      /\ parts["detector"] = IF report["detector"] = "READY" /\ landmarker.state = "FAILED"
                             THEN "FAILED" ELSE report["detector"]
      /\ parts["warmup"] = report["warmup"]
  BY DEF EngineTypeOK, Parts
<1>2. Reconciled = [parts EXCEPT !.warmup = IF @ = "READY" /\ \E p \in Parts : parts[p] # "READY" THEN "IDLE" ELSE @]
  BY DEF Reconciled
<1> HIDE DEF parts
<1>3. /\ \A p \in Parts : Reconciled[p] = parts[p]
      /\ Reconciled["warmup"] = IF parts["warmup"] = "READY" /\ \E p \in Parts : parts[p] # "READY" THEN "IDLE" ELSE parts["warmup"]
      /\ Reconciled \in [Parts \cup {"warmup"} -> {"IDLE", "LOADING", "READY", "FAILED"}]
  BY <1>1, <1>2 DEF Parts
<1> QED BY <1>1, <1>3 DEF Parts

LEMMA EngineInitInv == EngineInit => EngineInv
<1> SUFFICES ASSUME EngineInit PROVE EngineInv
  OBVIOUS
<1>1. EngineTypeOK
  BY DEF EngineInit, EngineTypeOK, Parts, Creators
<1>2. OrtIsEnteredOnce /\ CreatorsServeThePass /\ WarmupStands /\ ExtractorStands
  BY DEF EngineInit, OrtIsEnteredOnce, CreatorsServeThePass, WarmupStands, ExtractorStands, Parts, Creators
<1> QED BY <1>1, <1>2 DEF EngineInv

(* A creator that works for a component ends with it ready or failed.       *)
LEMMA SettleLoadMoves ==
  ASSUME EngineTypeOK, NEW p \in Parts, NEW ok \in BOOLEAN, SettleLoad(p, ok)
  PROVE  /\ report' \in [Parts \cup {"warmup"} -> {"IDLE", "LOADING", "READY", "FAILED"}]
         /\ settled' \in [Parts -> {"pending", "ok", "failed"}]
         /\ report'[p] = IF ok THEN "READY" ELSE "FAILED"
         /\ settled'[p] = IF ok THEN "ok" ELSE "failed"
         /\ \A q \in (Parts \cup {"warmup"}) \ {p} : report'[q] = report[q]
         /\ \A q \in Parts \ {p} : settled'[q] = settled[q]
BY DEF EngineTypeOK, SettleLoad, Parts

(* A creator gives up, or serves, in a state where it may.                  *)
LEMMA CreatorEnds ==
  ASSUME EngineInv, NEW k \in Creators, NEW ok \in BOOLEAN, creator[k] # "idle",
         creator' = [creator EXCEPT ![k] = "idle"], SettleLoad(PartOf(k), ok),
         arcface' = IF ok /\ k = "arcface" THEN [made |-> TRUE, conforms |-> FALSE] ELSE arcface,
         runtime' \in [prepared : BOOLEAN, init : {"idle", "running", "ready", "failed"}, attempts : Nat],
         runtime'.attempts = runtime.attempts,
         \/ runtime' = runtime
         \/ creator[k] = "init" /\ runtime'.init \in {"ready", "failed"},
         ok => runtime'.init = "ready",
         UNCHANGED <<landmarker, pass, passes, extractor, unchecked>>
  PROVE  EngineInv'
<1>0. PartOf(k) \in Parts /\ PartOf(k) \in {"runtime", "embedder"} /\ (PartOf(k) = "embedder" <=> k = "arcface")
  BY DEF PartOf, Parts, Creators
<1>1. /\ report' \in [Parts \cup {"warmup"} -> {"IDLE", "LOADING", "READY", "FAILED"}]
      /\ settled' \in [Parts -> {"pending", "ok", "failed"}]
      /\ report'[PartOf(k)] = IF ok THEN "READY" ELSE "FAILED"
      /\ settled'[PartOf(k)] = IF ok THEN "ok" ELSE "failed"
      /\ \A q \in (Parts \cup {"warmup"}) \ {PartOf(k)} : report'[q] = report[q]
      /\ \A q \in Parts \ {PartOf(k)} : settled'[q] = settled[q]
  BY <1>0, SettleLoadMoves DEF EngineInv
<1>2. /\ creator' \in [Creators -> {"idle", "preparing", "waiting", "init", "session"}]
      /\ creator'[k] = "idle" /\ \A j \in Creators \ {k} : creator'[j] = creator[j]
  BY DEF EngineInv, EngineTypeOK
<1>3. EngineTypeOK'
  <2>1. arcface' \in [made : BOOLEAN, conforms : BOOLEAN]
    BY DEF EngineInv, EngineTypeOK
  <2> QED BY <1>1, <1>2, <2>1 DEF EngineInv, EngineTypeOK
<1>4. pass = "components" /\ report["warmup"] # "READY" /\ (k = "arcface" => report["embedder"] # "READY")
  BY DEF EngineInv, CreatorsServeThePass, WarmupStands, Creators
<1>5. OrtIsEnteredOnce'
  <2>1. runtime'.attempts <= 1
    BY DEF EngineInv, OrtIsEnteredOnce
  <2>2. runtime'.init = "idle" => runtime'.attempts = 0
    BY DEF EngineInv, OrtIsEnteredOnce
  <2>3. \A j \in Creators \ {k} : creator[j] = "init" => creator[k] # "init"
    BY DEF EngineInv, OrtIsEnteredOnce, Creators
  <2>4. creator[k] = "init" => \A j \in Creators : creator[j] # "session"
    BY DEF EngineInv, OrtIsEnteredOnce
  <2>5. \A j \in Creators : /\ creator'[j] = "init" => runtime'.init = "running"
                            /\ creator'[j] = "session" => runtime'.init = "ready"
    BY <1>2, <2>3, <2>4 DEF EngineInv, OrtIsEnteredOnce
  <2>6. ~(creator'["probe"] = "init" /\ creator'["arcface"] = "init")
    BY <1>2 DEF Creators
  <2>7. report'["runtime"] = "READY" => runtime'.init = "ready"
    <3>1. runtime.init = "ready" => runtime'.init = "ready"
      BY DEF EngineInv, OrtIsEnteredOnce
    <3>2. CASE PartOf(k) = "runtime"
      BY <1>1, <3>2
    <3>3. CASE PartOf(k) # "runtime"
      BY <1>1, <3>1, <3>3 DEF EngineInv, OrtIsEnteredOnce, Parts
    <3> QED BY <3>2, <3>3
  <2> QED BY <2>1, <2>2, <2>5, <2>6, <2>7 DEF OrtIsEnteredOnce
<1>6. CreatorsServeThePass'
  <2>1. \A j \in Creators : creator'[j] # "idle" => pass' = "components" /\ settled'[PartOf(j)] = "pending"
    <3>1. ASSUME NEW j \in Creators, creator'[j] # "idle" PROVE pass' = "components" /\ settled'[PartOf(j)] = "pending"
      <4>1. j # k /\ creator[j] # "idle"
        BY <1>2, <3>1
      <4>2. PartOf(j) # PartOf(k) /\ PartOf(j) \in Parts
        BY <4>1 DEF PartOf, Creators, Parts
      <4> QED BY <1>1, <4>1, <4>2 DEF EngineInv, CreatorsServeThePass
    <3> QED BY <3>1
  <2>2. report'["embedder"] = "READY" => creator'["arcface"] = "idle"
    <3>1. CASE k = "arcface"
      BY <1>2, <3>1
    <3>2. CASE k # "arcface"
      BY <1>0, <1>1, <1>2, <3>2 DEF EngineInv, CreatorsServeThePass, Parts, Creators
    <3> QED BY <3>1, <3>2
  <2> QED BY <2>1, <2>2 DEF CreatorsServeThePass
<1>7. WarmupStands'
  <2>1. report'["warmup"] # "READY" /\ pass' = "components"
    BY <1>0, <1>1, <1>4 DEF Parts
  <2>2. settled'["embedder"] = "ok" => report'["embedder"] = "READY"
    <3>1. CASE PartOf(k) = "embedder"
      BY <1>1, <3>1
    <3>2. CASE PartOf(k) # "embedder"
      BY <1>1, <1>4, <3>2 DEF EngineInv, WarmupStands, Parts
    <3> QED BY <3>1, <3>2
  <2> QED BY <2>1, <2>2 DEF WarmupStands
<1>8. ExtractorStands'
  BY <1>0, <1>1, <1>4 DEF EngineInv, ExtractorStands, Parts
<1> QED BY <1>3, <1>5, <1>6, <1>7, <1>8 DEF EngineInv

(* A step of the detector leaves the rest of the engine alone.              *)
LEMMA DetectorMoves ==
  ASSUME EngineInv, UNCHANGED <<pass, passes, extractor, unchecked, runtime, creator, arcface>>,
         landmarker' \in [state : {"IDLE", "LOADING", "READY", "FAILED", "REPLACING"},
                          delegate : {"GPU", "CPU"}, warm : BOOLEAN, replaced : Nat],
         report["warmup"] = "READY" => landmarker'.replaced > 0,
         UNCHANGED <<report, settled>> \/ \E ok \in BOOLEAN : SettleLoad("detector", ok)
  PROVE  EngineInv'
<1>1. /\ report' \in [Parts \cup {"warmup"} -> {"IDLE", "LOADING", "READY", "FAILED"}]
      /\ settled' \in [Parts -> {"pending", "ok", "failed"}]
      /\ \A q \in {"runtime", "embedder", "warmup"} : report'[q] = report[q]
      /\ \A q \in {"runtime", "embedder"} : settled'[q] = settled[q]
  BY SettleLoadMoves DEF EngineInv, EngineTypeOK, Parts
<1>2. EngineTypeOK'
  BY <1>1 DEF EngineInv, EngineTypeOK
<1>3. OrtIsEnteredOnce'
  BY <1>1 DEF EngineInv, OrtIsEnteredOnce
<1>4. CreatorsServeThePass'
  BY <1>1 DEF EngineInv, CreatorsServeThePass, PartOf
<1>5. WarmupStands'
  BY <1>1 DEF EngineInv, WarmupStands
<1>6. ExtractorStands'
  BY <1>1 DEF EngineInv, ExtractorStands
<1> QED BY <1>2, <1>3, <1>4, <1>5, <1>6 DEF EngineInv

LEMMA EngineStepKeepsInv == ASSUME EngineInv, [EngineNext]_engineVars PROVE EngineInv'
<1>a. EngineTypeOK /\ OrtIsEnteredOnce /\ CreatorsServeThePass /\ WarmupStands /\ ExtractorStands
  BY DEF EngineInv
<1>1. ASSUME ReadReadiness PROVE EngineInv'
  <2>1. /\ report' = Reconciled
        /\ UNCHANGED <<settled, landmarker, runtime, creator, arcface, pass, passes, extractor, unchecked>>
    BY <1>1 DEF ReadReadiness, KeepOrt, KeepOwner
  <2>2. /\ report' \in [Parts \cup {"warmup"} -> {"IDLE", "LOADING", "READY", "FAILED"}]
        /\ report'["embedder"] = report["embedder"]
        /\ report'["runtime"] = "READY" => report["runtime"] = "READY"
        /\ report'["warmup"] = "READY" => report["warmup"] = "READY"
    BY <1>a, <2>1, ReconciledValues
  <2>3. EngineTypeOK'
    BY <1>a, <2>1, <2>2 DEF EngineTypeOK
  <2>4. OrtIsEnteredOnce' /\ CreatorsServeThePass'
    BY <1>a, <2>1, <2>2 DEF OrtIsEnteredOnce, CreatorsServeThePass, PartOf
  <2>5. WarmupStands' /\ ExtractorStands'
    BY <1>a, <2>1, <2>2 DEF WarmupStands, ExtractorStands
  <2> QED BY <2>3, <2>4, <2>5 DEF EngineInv
<1>2. ASSUME StartPass PROVE EngineInv'
  <2> DEFINE again == {p \in Parts : Reconciled[p] # "READY"}
  <2>1. /\ pass = "none" /\ pass' = "components" /\ passes' = passes + 1
        /\ settled' = [p \in Parts |->
             IF p \in again /\ ~(p = "detector" /\ landmarker.state = "READY") THEN "pending" ELSE "ok"]
        /\ report' = [p \in DOMAIN report |->
             IF p \in again THEN IF settled'[p] = "ok" THEN "READY" ELSE "LOADING" ELSE Reconciled[p]]
        /\ creator' = [probe |-> IF "runtime" \in again THEN "preparing" ELSE creator.probe,
                       arcface |-> IF "embedder" \in again THEN "preparing" ELSE creator.arcface]
        /\ landmarker' = IF "detector" \in again /\ landmarker.state \in {"IDLE", "FAILED"}
                         THEN [landmarker EXCEPT !.state = "LOADING"] ELSE landmarker
        /\ UNCHANGED <<runtime, arcface, extractor, unchecked>>
        /\ ~EngineReady
    BY <1>2 DEF StartPass
  <2>2. \A k \in Creators : creator[k] = "idle"
    BY <1>a, <2>1 DEF CreatorsServeThePass
  <2>3. Reconciled["warmup"] # "READY"
    BY <1>a, <2>1, ReconciledValues DEF EngineReady, Parts
  <2>4. /\ settled' \in [Parts -> {"pending", "ok", "failed"}]
        /\ \A p \in {"runtime", "embedder"} : settled'[p] = IF p \in again THEN "pending" ELSE "ok"
    BY <2>1 DEF Parts
  <2>5. /\ report' \in [Parts \cup {"warmup"} -> {"IDLE", "LOADING", "READY", "FAILED"}]
        /\ report'["warmup"] # "READY"
        /\ \A p \in {"runtime", "embedder"} : report'[p] = IF p \in again THEN "LOADING" ELSE "READY"
    <3>1. DOMAIN report = Parts \cup {"warmup"}
      BY <1>a DEF EngineTypeOK
    <3>2. \A p \in {"runtime", "embedder"} : p \notin again => Reconciled[p] = "READY"
      BY DEF Parts
    <3>3. "warmup" \notin again
      BY DEF Parts
    <3>4. report' \in [Parts \cup {"warmup"} -> {"IDLE", "LOADING", "READY", "FAILED"}]
      BY <1>a, <2>1, <3>1, ReconciledValues
    <3>5. report'["warmup"] # "READY"
      BY <2>1, <2>3, <3>1, <3>3
    <3>6. \A p \in {"runtime", "embedder"} : report'[p] = IF p \in again THEN "LOADING" ELSE "READY"
      BY <2>1, <2>4, <3>1, <3>2 DEF Parts
    <3> QED BY <3>4, <3>5, <3>6
  <2>6. /\ creator' \in [Creators -> {"idle", "preparing", "waiting", "init", "session"}]
        /\ creator'["probe"] = IF "runtime" \in again THEN "preparing" ELSE "idle"
        /\ creator'["arcface"] = IF "embedder" \in again THEN "preparing" ELSE "idle"
    BY <2>1, <2>2 DEF Creators
  <2>7. landmarker' \in [state : {"IDLE", "LOADING", "READY", "FAILED", "REPLACING"},
                         delegate : {"GPU", "CPU"}, warm : BOOLEAN, replaced : Nat]
    BY <1>a, <2>1 DEF EngineTypeOK
  <2>8. \A p \in {"runtime", "embedder"} : p \notin again => report[p] = "READY"
    <3>1. \A p \in {"runtime", "embedder"} : p \notin again => Reconciled[p] = "READY"
      BY DEF Parts
    <3> QED BY <1>a, <3>1, ReconciledValues
  <2> HIDE DEF again
  <2>9. EngineTypeOK'
    BY <1>a, <2>1, <2>4, <2>5, <2>6, <2>7 DEF EngineTypeOK
  <2>10. OrtIsEnteredOnce'
    <3>1. \A k \in Creators : creator'[k] # "init" /\ creator'[k] # "session"
      BY <2>6 DEF Creators
    <3> QED BY <1>a, <2>1, <2>5, <2>8, <3>1 DEF OrtIsEnteredOnce, Creators
  <2>11. CreatorsServeThePass'
    BY <2>1, <2>4, <2>5, <2>6 DEF CreatorsServeThePass, Creators, PartOf
  <2>12. WarmupStands'
    BY <2>1, <2>4, <2>5 DEF WarmupStands
  <2>13. ExtractorStands'
    <3>1. report["embedder"] = "READY" => report'["embedder"] = "READY"
      <4>1. report["embedder"] = "READY" => "embedder" \notin again
        BY <1>a, ReconciledValues DEF again
      <4> QED BY <2>5, <4>1
    <3> QED BY <1>a, <2>1, <3>1 DEF ExtractorStands
  <2> QED BY <2>9, <2>10, <2>11, <2>12, <2>13 DEF EngineInv
<1>3. ASSUME JoinParts PROVE EngineInv'
  <2>1. /\ pass = "components" /\ \A p \in Parts : settled[p] # "pending"
        /\ UNCHANGED <<runtime, creator, arcface, settled, landmarker, passes, extractor, unchecked>>
        /\ \/ /\ \A p \in Parts : settled[p] = "ok"
              /\ pass' = "warmup" /\ report' = [report EXCEPT !.warmup = "LOADING"]
           \/ pass' = "none" /\ UNCHANGED report
    BY <1>3 DEF JoinParts, KeepOrt
  <2>2. \A k \in Creators : creator[k] = "idle"
    <3>1. \A k \in Creators : PartOf(k) \in Parts
      BY DEF Creators, PartOf, Parts
    <3> QED BY <1>a, <2>1, <3>1 DEF CreatorsServeThePass
  <2>3. /\ report' \in [Parts \cup {"warmup"} -> {"IDLE", "LOADING", "READY", "FAILED"}]
        /\ report'["embedder"] = report["embedder"] /\ report'["runtime"] = report["runtime"]
        /\ report'["warmup"] # "READY"
    BY <1>a, <2>1 DEF EngineTypeOK, Parts, WarmupStands
  <2>4. EngineTypeOK'
    BY <1>a, <2>1, <2>3 DEF EngineTypeOK
  <2>5. OrtIsEnteredOnce' /\ CreatorsServeThePass' /\ ExtractorStands'
    BY <1>a, <2>1, <2>2, <2>3 DEF OrtIsEnteredOnce, CreatorsServeThePass, ExtractorStands, Creators
  <2>6. WarmupStands'
    BY <1>a, <2>1, <2>3 DEF WarmupStands, Parts
  <2> QED BY <2>4, <2>5, <2>6 DEF EngineInv
<1>4. ASSUME WarmUp PROVE EngineInv'
  <2>1. /\ pass = "warmup" /\ pass' = "none"
        /\ UNCHANGED <<settled, runtime, creator, passes, extractor, unchecked>>
    BY <1>4 DEF WarmUp
  <2>2. /\ report' \in [Parts \cup {"warmup"} -> {"IDLE", "LOADING", "READY", "FAILED"}]
        /\ report'["embedder"] = report["embedder"] /\ report'["runtime"] = report["runtime"]
        /\ arcface' \in [made : BOOLEAN, conforms : BOOLEAN] /\ (arcface.conforms => arcface'.conforms)
        /\ landmarker' \in [state : {"IDLE", "LOADING", "READY", "FAILED", "REPLACING"},
                            delegate : {"GPU", "CPU"}, warm : BOOLEAN, replaced : Nat]
        /\ report'["warmup"] = "READY" => arcface'.conforms /\ landmarker'.state = "READY" /\ landmarker'.warm
    BY <1>4, <1>a DEF WarmUp, EngineTypeOK, Parts
  <2>3. \A k \in Creators : creator[k] = "idle"
    BY <1>a, <2>1 DEF CreatorsServeThePass
  <2>4. EngineTypeOK'
    BY <1>a, <2>1, <2>2 DEF EngineTypeOK
  <2>5. OrtIsEnteredOnce' /\ CreatorsServeThePass'
    BY <1>a, <2>1, <2>2, <2>3 DEF OrtIsEnteredOnce, CreatorsServeThePass, Creators
  <2>6. WarmupStands' /\ ExtractorStands'
    BY <1>a, <2>1, <2>2 DEF WarmupStands, ExtractorStands
  <2> QED BY <2>4, <2>5, <2>6 DEF EngineInv
<1>5. ASSUME NEW k \in Creators, PartsPrepared(k) PROVE EngineInv'
  <2>1. /\ UNCHANGED <<creator, arcface, report, settled, landmarker, pass, passes, extractor, unchecked>>
        /\ runtime' = [runtime EXCEPT !.prepared = TRUE]
    BY <1>5 DEF PartsPrepared, KeepOwner
  <2>2. /\ runtime' \in [prepared : BOOLEAN, init : {"idle", "running", "ready", "failed"}, attempts : Nat]
        /\ runtime'.init = runtime.init /\ runtime'.attempts = runtime.attempts
    BY <1>a, <2>1 DEF EngineTypeOK
  <2>3. EngineTypeOK'
    BY <1>a, <2>1, <2>2 DEF EngineTypeOK
  <2>4. OrtIsEnteredOnce' /\ CreatorsServeThePass' /\ WarmupStands' /\ ExtractorStands'
    BY <1>a, <2>1, <2>2 DEF OrtIsEnteredOnce, CreatorsServeThePass, WarmupStands, ExtractorStands
  <2> QED BY <2>3, <2>4 DEF EngineInv
<1>6. ASSUME NEW k \in Creators, PreparingFails(k) PROVE EngineInv'
  BY <1>6, <1>a, CreatorEnds DEF PreparingFails, CreatorFails, KeepOwner, EngineTypeOK
<1>7. ASSUME NEW k \in Creators, EnterOrt(k) PROVE EngineInv'
  <2>1. /\ creator[k] = "preparing" /\ runtime.init # "failed"
        /\ UNCHANGED <<arcface, report, settled, landmarker, pass, passes, extractor, unchecked>>
    BY <1>7 DEF EnterOrt, KeepOwner
  <2> DEFINE s == CASE runtime.init = "ready" -> "session"
                    [] runtime.init = "running" -> "waiting"
                    [] OTHER -> "init"
  <2>2. /\ creator' = [creator EXCEPT ![k] = s] /\ s \in {"session", "waiting", "init"}
        /\ s = "session" => runtime.init = "ready"
        /\ s = "init" => runtime.init = "idle"
    <3>1. creator' = [creator EXCEPT ![k] = s]
      BY <1>7 DEF EnterOrt
    <3>2. runtime.init \in {"idle", "running", "ready"}
      BY <1>a, <2>1 DEF EngineTypeOK
    <3> QED BY <3>1, <3>2
  <2> HIDE DEF s
  <2>3. runtime' = IF runtime.init = "idle"
                   THEN [runtime EXCEPT !.init = "running", !.attempts = runtime.attempts + 1] ELSE runtime
    BY <1>7 DEF EnterOrt
  <2>4. /\ creator' \in [Creators -> {"idle", "preparing", "waiting", "init", "session"}]
        /\ creator'[k] = s /\ \A j \in Creators \ {k} : creator'[j] = creator[j]
    BY <1>a, <2>2 DEF EngineTypeOK
  <2>5. /\ runtime' \in [prepared : BOOLEAN, init : {"idle", "running", "ready", "failed"}, attempts : Nat]
        /\ runtime.init = "idle" => runtime'.init = "running" /\ runtime'.attempts = runtime.attempts + 1
        /\ runtime.init # "idle" => runtime' = runtime
    <3>1. runtime.attempts + 1 \in Nat
      BY <1>a DEF EngineTypeOK
    <3>2. CASE runtime.init = "idle"
      <4> DEFINE n == runtime.attempts + 1
      <4>1. runtime' = [runtime EXCEPT !.init = "running", !.attempts = n] /\ n \in Nat
        BY <2>3, <3>1, <3>2
      <4> HIDE DEF n
      <4>2. /\ runtime' \in [prepared : BOOLEAN, init : {"idle", "running", "ready", "failed"}, attempts : Nat]
            /\ runtime'.init = "running" /\ runtime'.attempts = n
        BY <1>a, <4>1 DEF EngineTypeOK
      <4> QED BY <3>2, <4>2 DEF n
    <3>3. CASE runtime.init # "idle"
      BY <1>a, <2>3, <3>3 DEF EngineTypeOK
    <3> QED BY <3>2, <3>3
  <2>6. EngineTypeOK'
    BY <1>a, <2>1, <2>4, <2>5 DEF EngineTypeOK
  <2>7. OrtIsEnteredOnce'
    <3>1. runtime'.attempts <= 1 /\ runtime'.init # "idle"
      BY <1>a, <2>5 DEF OrtIsEnteredOnce, EngineTypeOK
    <3>2. \A j \in Creators : /\ creator'[j] = "init" => runtime'.init = "running"
                              /\ creator'[j] = "session" => runtime'.init = "ready"
      BY <1>a, <2>2, <2>4, <2>5 DEF OrtIsEnteredOnce
    <3>3. ~(creator'["probe"] = "init" /\ creator'["arcface"] = "init")
      BY <1>a, <2>2, <2>4 DEF OrtIsEnteredOnce, Creators
    <3>4. report'["runtime"] = "READY" => runtime'.init = "ready"
      BY <1>a, <2>1, <2>5 DEF OrtIsEnteredOnce
    <3> QED BY <3>1, <3>2, <3>3, <3>4 DEF OrtIsEnteredOnce
  <2>8. CreatorsServeThePass'
    BY <1>a, <2>1, <2>4 DEF CreatorsServeThePass, Creators
  <2>9. WarmupStands' /\ ExtractorStands'
    BY <1>a, <2>1 DEF WarmupStands, ExtractorStands
  <2> QED BY <2>6, <2>7, <2>8, <2>9 DEF EngineInv
<1>8. ASSUME NEW k \in Creators, InitSettles(k) PROVE EngineInv'
  <2>1. creator[k] = "init" /\ UNCHANGED <<landmarker, pass, passes, extractor, unchecked>>
    BY <1>8 DEF InitSettles, KeepOwner
  <2>2. \/ runtime' = [runtime EXCEPT !.init = "ready"] /\ Serve(k)
        \/ /\ runtime' = [runtime EXCEPT !.init = "ready"] \/ runtime' = [runtime EXCEPT !.init = "failed"]
           /\ CreatorFails(k) /\ UNCHANGED arcface
    BY <1>8 DEF InitSettles
  <2>3. CASE runtime' = [runtime EXCEPT !.init = "ready"] /\ Serve(k)
    <3>1. /\ runtime' \in [prepared : BOOLEAN, init : {"idle", "running", "ready", "failed"}, attempts : Nat]
          /\ runtime'.init = "ready" /\ runtime'.attempts = runtime.attempts
      BY <1>a, <2>3 DEF EngineTypeOK
    <3> QED BY <2>1, <2>3, <3>1, CreatorEnds DEF Serve
  <2>4. CASE /\ runtime' = [runtime EXCEPT !.init = "ready"] \/ runtime' = [runtime EXCEPT !.init = "failed"]
             /\ CreatorFails(k) /\ UNCHANGED arcface
    <3>1. /\ runtime' \in [prepared : BOOLEAN, init : {"idle", "running", "ready", "failed"}, attempts : Nat]
          /\ runtime'.init \in {"ready", "failed"} /\ runtime'.attempts = runtime.attempts
      BY <1>a, <2>4 DEF EngineTypeOK
    <3> QED BY <2>1, <2>4, <3>1, CreatorEnds DEF CreatorFails
  <2> QED BY <2>2, <2>3, <2>4
<1>9. ASSUME NEW k \in Creators, WaitIsOver(k) PROVE EngineInv'
  <2>1. CASE runtime.init = "failed"
    BY <1>9, <1>a, <2>1, CreatorEnds DEF WaitIsOver, CreatorFails, KeepOwner, EngineTypeOK
  <2>2. CASE runtime.init # "failed"
    <3>1. /\ creator[k] = "waiting" /\ creator' = [creator EXCEPT ![k] = "preparing"]
          /\ UNCHANGED <<report, settled, runtime, arcface, landmarker, pass, passes, extractor, unchecked>>
      BY <1>9, <2>2 DEF WaitIsOver, KeepOwner
    <3>2. /\ creator' \in [Creators -> {"idle", "preparing", "waiting", "init", "session"}]
          /\ creator'[k] = "preparing" /\ \A j \in Creators \ {k} : creator'[j] = creator[j]
      BY <1>a, <3>1 DEF EngineTypeOK
    <3>3. EngineTypeOK'
      BY <1>a, <3>1, <3>2 DEF EngineTypeOK
    <3>4. OrtIsEnteredOnce'
      BY <1>a, <3>1, <3>2 DEF OrtIsEnteredOnce, Creators
    <3>5. CreatorsServeThePass'
      BY <1>a, <3>1, <3>2 DEF CreatorsServeThePass, Creators
    <3>6. WarmupStands' /\ ExtractorStands'
      BY <1>a, <3>1 DEF WarmupStands, ExtractorStands
    <3> QED BY <3>3, <3>4, <3>5, <3>6 DEF EngineInv
  <2> QED BY <2>1, <2>2
<1>10. ASSUME NEW k \in Creators, MakeSession(k) PROVE EngineInv'
  <2>1. /\ creator[k] = "session" /\ runtime.init = "ready"
        /\ UNCHANGED <<runtime, landmarker, pass, passes, extractor, unchecked>>
    BY <1>10, <1>a DEF MakeSession, KeepOwner, OrtIsEnteredOnce
  <2>2. CASE Serve(k)
    BY <1>a, <2>1, <2>2, CreatorEnds DEF Serve, EngineTypeOK
  <2>3. CASE CreatorFails(k) /\ UNCHANGED arcface
    BY <1>a, <2>1, <2>3, CreatorEnds DEF CreatorFails, EngineTypeOK
  <2> QED BY <1>10, <2>2, <2>3 DEF MakeSession
<1>11. ASSUME DetectorLoads PROVE EngineInv'
  <2>1. \/ \E d \in {"GPU", "CPU"} :
             landmarker' = [landmarker EXCEPT !.state = "READY", !.delegate = d, !.warm = FALSE]
        \/ landmarker' = [landmarker EXCEPT !.state = "FAILED", !.warm = FALSE]
    BY <1>11 DEF DetectorLoads
  <2>2. /\ landmarker' \in [state : {"IDLE", "LOADING", "READY", "FAILED", "REPLACING"},
                            delegate : {"GPU", "CPU"}, warm : BOOLEAN, replaced : Nat]
        /\ landmarker'.replaced = landmarker.replaced
    BY <1>a, <2>1 DEF EngineTypeOK
  <2>3. UNCHANGED <<report, settled>> \/ \E ok \in BOOLEAN : SettleLoad("detector", ok)
    BY <1>11 DEF DetectorLoads, TellDetector
  <2>4. report["warmup"] = "READY" => landmarker'.replaced > 0
    BY <1>11, <1>a, <2>2 DEF DetectorLoads, WarmupStands
  <2> QED BY <1>11, <2>2, <2>3, <2>4, DetectorMoves DEF DetectorLoads, KeepOrt, KeepOwner
<1>12. ASSUME ForceCpu PROVE EngineInv'
  <2>1. landmarker' = [state |-> "REPLACING", delegate |-> "CPU", warm |-> FALSE, replaced |-> landmarker.replaced + 1]
    BY <1>12 DEF ForceCpu
  <2>2. landmarker' \in [state : {"IDLE", "LOADING", "READY", "FAILED", "REPLACING"},
                         delegate : {"GPU", "CPU"}, warm : BOOLEAN, replaced : Nat] /\ landmarker'.replaced > 0
    BY <1>a, <2>1 DEF EngineTypeOK
  <2> QED BY <1>12, <2>2, DetectorMoves DEF ForceCpu, KeepOrt, KeepOwner
<1>13. ASSUME Replaced PROVE EngineInv'
  <2>1. PICK ok \in BOOLEAN :
          /\ landmarker' = [landmarker EXCEPT !.state = IF ok THEN "READY" ELSE "FAILED"]
          /\ TellDetector(ok)
    BY <1>13 DEF Replaced
  <2>2. /\ landmarker' \in [state : {"IDLE", "LOADING", "READY", "FAILED", "REPLACING"},
                            delegate : {"GPU", "CPU"}, warm : BOOLEAN, replaced : Nat]
        /\ landmarker'.replaced = landmarker.replaced
    BY <1>a, <2>1 DEF EngineTypeOK
  <2>3. UNCHANGED <<report, settled>> \/ SettleLoad("detector", ok)
    BY <2>1 DEF TellDetector
  <2>4. report["warmup"] = "READY" => landmarker'.replaced > 0
    BY <1>13, <1>a, <2>2 DEF Replaced, WarmupStands
  <2> QED BY <1>13, <2>2, <2>3, <2>4, DetectorMoves DEF Replaced, KeepOrt, KeepOwner
<1>14. ASSUME DetectReloads PROVE EngineInv'
  <2>1. landmarker.state = "FAILED" /\ landmarker' = [landmarker EXCEPT !.state = "LOADING"]
    BY <1>14 DEF DetectReloads
  <2>2. /\ landmarker' \in [state : {"IDLE", "LOADING", "READY", "FAILED", "REPLACING"},
                            delegate : {"GPU", "CPU"}, warm : BOOLEAN, replaced : Nat]
        /\ landmarker'.replaced = landmarker.replaced
    BY <1>a, <2>1 DEF EngineTypeOK
  <2>3. report["warmup"] = "READY" => landmarker'.replaced > 0
    BY <1>a, <2>1, <2>2 DEF WarmupStands
  <2> QED BY <1>14, <2>2, <2>3, DetectorMoves DEF DetectReloads, KeepOrt, KeepOwner
<1>15. ASSUME LoadModels \/ ModelsLoaded \/ LoadTimesOut PROVE EngineInv'
  <2>1. /\ UNCHANGED <<report, pass, settled, passes, landmarker, unchecked, runtime, creator, arcface>>
        /\ extractor' \in {"none", "loading", "ready"}
        /\ extractor' = "ready" => EngineReady
    BY <1>15 DEF LoadModels, ModelsLoaded, LoadTimesOut, KeepOrt
  <2>2. EngineReady => report["embedder"] = "READY" /\ report["warmup"] = "READY"
    BY <1>a, ReconciledValues DEF EngineReady, Parts
  <2>3. EngineTypeOK' /\ OrtIsEnteredOnce' /\ CreatorsServeThePass' /\ WarmupStands'
    BY <1>a, <2>1 DEF EngineTypeOK, OrtIsEnteredOnce, CreatorsServeThePass, WarmupStands
  <2>4. ExtractorStands'
    BY <1>a, <2>1, <2>2 DEF ExtractorStands, WarmupStands
  <2> QED BY <2>3, <2>4 DEF EngineInv
<1>16. ASSUME EmbedFace PROVE EngineInv'
  <2>1. /\ UNCHANGED <<report, pass, settled, passes, landmarker, extractor, runtime, creator, arcface>>
        /\ extractor = "ready" /\ unchecked' = (unchecked \/ ~arcface.conforms)
    BY <1>16 DEF EmbedFace, KeepOrt
  <2>2. EngineTypeOK' /\ OrtIsEnteredOnce' /\ CreatorsServeThePass' /\ WarmupStands'
    BY <1>a, <2>1 DEF EngineTypeOK, OrtIsEnteredOnce, CreatorsServeThePass, WarmupStands
  <2>3. ExtractorStands'
    BY <1>a, <2>1 DEF ExtractorStands
  <2> QED BY <2>2, <2>3 DEF EngineInv
<1>17. CASE UNCHANGED engineVars
  BY <1>a, <1>17 DEF engineVars, EngineInv, EngineTypeOK, OrtIsEnteredOnce, CreatorsServeThePass, WarmupStands, ExtractorStands
<1> QED BY <1>1, <1>2, <1>3, <1>4, <1>5, <1>6, <1>7, <1>8, <1>9, <1>10, <1>11, <1>12, <1>13, <1>14, <1>15, <1>16, <1>17
        DEF EngineNext, Creators

(* The engine's invariant.                                                  *)
THEOREM EngineInvariant == EngineSpec => []EngineInv
BY EngineInitInv, EngineStepKeepsInv, PTL DEF EngineSpec

(* However the probe, the recogniser, a scan's detector, retries and         *)
(* timeouts interleave, ORT is entered once; an engine called ready has a   *)
(* runtime, a recogniser that passed conformance and a detector warmed up   *)
(* or replaced since; and no scan uses a recogniser that has not passed.    *)
(* Stated for any number of passes and replaced detectors.                  *)
THEOREM ReadyIsCheckedHolds == EngineSpec => []ReadyIsChecked
<1>1. EngineInv => ReadyIsChecked
  <2> SUFFICES ASSUME EngineInv PROVE ReadyIsChecked
    OBVIOUS
  <2>1. EngineReady => /\ runtime.init # "failed" /\ report["runtime"] = "READY"
                       /\ report["warmup"] = "READY"
    BY ReconciledValues DEF EngineInv, EngineReady, Parts
  <2> QED BY <2>1 DEF EngineInv, OrtIsEnteredOnce, WarmupStands, ExtractorStands, ReadyIsChecked
<1> QED BY <1>1, EngineInvariant, PTL

-----------------------------------------------------------------------------
(* The list of locked apps *)

Policies == [on : BOOLEAN, apps : SUBSET LockApps]

PrefsRecord == [stored : BOOLEAN, on : BOOLEAN, apps : SUBSET LockApps, flat : SUBSET LockApps]

WorkRecord ==
  [op : {"rest", "load", "toggle", "add", "remove"},
   pc : {"rest", "read", "prompt", "save", "apply", "report"},
   app : LockApps \cup {NoPackage}, base : Policies, next : Policies, mine : BOOLEAN]

(* What a call will write, made from what it read.                          *)
WorkOK(r) ==
  /\ r.op = "rest" <=> r.pc = "rest"
  /\ r.op = "rest" => ~r.mine
  /\ r.op = "load" => r.pc \in {"read", "report"}
  /\ r.op \in {"add", "remove"} => r.app \in LockApps
  /\ r.op = "toggle" => r.pc # "read" /\ r.next.apps = r.base.apps
  /\ r.op = "add" /\ r.pc # "read" => r.next.apps = r.base.apps \cup {r.app}
  /\ r.op = "remove" /\ r.pc # "read" => r.next.apps = r.base.apps \ {r.app}

LockerTypeOK ==
  /\ prefs \in PrefsRecord /\ flushed \in PrefsRecord
  /\ page \in [on : BOOLEAN, apps : SUBSET LockApps, loaded : BOOLEAN]
  /\ handling \in [LockerCalls -> WorkRecord]
  /\ \A c \in LockerCalls : WorkOK(handling[c])
  /\ overlapped \in BOOLEAN
  /\ ~prefs.stored => prefs.apps = {}
  /\ ~flushed.stored => flushed.apps = {}

(* A call of the page on screen that changes the list.                      *)
Edits(r) == r.mine /\ r.op # "load"

OneEditor == \A c, d \in LockerCalls : Edits(handling[c]) /\ Edits(handling[d]) => c = d

(* A call that has begun to write.                                          *)
Wrote(r) == r.pc \in {"apply", "report"}

(* What the page's own call has written is there.                           *)
WritesStand ==
  \A c \in LockerCalls : Edits(handling[c]) =>
    /\ handling[c].pc = "apply" =>
         handling[c].next.apps # {} \/ (handling[c].next.on => prefs.on)
    /\ handling[c].pc = "report" =>
         prefs.apps = handling[c].next.apps /\ (handling[c].next.on => prefs.on)

(* An app reported locked is, or a removal of it has begun to write.        *)
OwnedInv ==
  \A a \in owned :
    \/ a \in prefs.apps
    \/ \E c \in LockerCalls : handling[c].op = "remove" /\ handling[c].app = a /\ Wrote(handling[c])

PageInv ==
  page.loaded =>
    \/ page.apps = prefs.apps /\ (page.on => prefs.on)
    \/ \E c \in LockerCalls : Edits(handling[c]) /\ Wrote(handling[c])

LockerInv ==
  /\ LockerTypeOK /\ OneEditor
  /\ ~overlapped => prefs.flat = prefs.apps /\ WritesStand /\ OwnedInv /\ PageInv

NoWorkOK == NoWork \in WorkRecord /\ WorkOK(NoWork) /\ ~Edits(NoWork) /\ ~Wrote(NoWork)
            /\ NoWork.op = "rest"

LoadingOK == Loading \in WorkRecord /\ WorkOK(Loading) /\ ~Edits(Loading) /\ Loading.op = "load"
             /\ Loading.mine

LEMMA FixedRecords == NoWorkOK /\ LoadingOK /\ NoPolicy \in Policies
  BY DEF NoWorkOK, LoadingOK, NoWork, Loading, WorkRecord, WorkOK, Edits, Wrote, NoPolicy, Policy, Policies,
     NoPackage

LEMMA LockerInitInv == LockerInit => LockerInv
<1> SUFFICES ASSUME LockerInit PROVE LockerInv
  OBVIOUS
<1>1. \A c \in LockerCalls : handling[c] = NoWork
  BY DEF LockerInit
<1>2. LockerTypeOK
  BY FixedRecords DEF LockerInit, LockerTypeOK, NothingStored, PrefsRecord, NewPage, NoWorkOK
<1>3. OneEditor /\ WritesStand
  BY <1>1, FixedRecords DEF OneEditor, WritesStand, NoWorkOK
<1>4. prefs.flat = prefs.apps /\ OwnedInv /\ PageInv
  BY DEF LockerInit, NothingStored, OwnedInv, PageInv, NewPage
<1> QED BY <1>2, <1>3, <1>4 DEF LockerInv

(* A step of one call that writes nothing: it changes its own record only,  *)
(* and does not become or cease to be a writer.                             *)
LEMMA CallWaits ==
  ASSUME LockerInv, NEW c \in LockerCalls, NEW r \in WorkRecord, handling' = [handling EXCEPT ![c] = r],
         UNCHANGED <<prefs, flushed, page, owned, overlapped>>, WorkOK(r),
         Edits(r) => Edits(handling[c]) \/ \A d \in LockerCalls : ~Edits(handling[d]),
         ~Wrote(handling[c]),
         Edits(r) /\ r.pc = "apply" => r.next.apps # {},
         Edits(r) => r.pc # "report"
  PROVE  LockerInv'
<1>1. handling'[c] = r /\ \A d \in LockerCalls \ {c} : handling'[d] = handling[d]
  BY DEF LockerInv, LockerTypeOK
<1>2. LockerTypeOK'
  BY <1>1 DEF LockerInv, LockerTypeOK
<1>3. OneEditor'
  BY <1>1 DEF LockerInv, OneEditor
<1>4. ASSUME ~overlapped PROVE WritesStand'
  BY <1>1, <1>4 DEF LockerInv, WritesStand
<1>5. ASSUME ~overlapped PROVE OwnedInv' /\ PageInv'
  BY <1>1, <1>5 DEF LockerInv, OwnedInv, PageInv
<1> QED BY <1>2, <1>3, <1>4, <1>5 DEF LockerInv

(* The buttons of the page: a new record of a call that rests.              *)
LEMMA CallStarts ==
  ASSUME LockerInv, NEW c \in LockerCalls, Enabled(c),
         NEW op \in {"toggle", "add", "remove"}, NEW pc \in {"prompt", "read"},
         NEW app \in LockApps \cup {NoPackage}, NEW from \in Policies, NEW next \in Policies,
         Starts(c, op, pc, app, from, next), UNCHANGED <<prefs, flushed, page, owned, overlapped>>,
         op = "toggle" => pc = "prompt" /\ next.apps = from.apps, op # "toggle" => pc = "read" /\ app \in LockApps
  PROVE  LockerInv'
<1> DEFINE r == [op |-> op, pc |-> pc, app |-> app, base |-> from, next |-> next, mine |-> TRUE]
<1>1. r \in WorkRecord /\ r.pc = pc
  BY DEF WorkRecord
<1>2. WorkOK(r)
  BY DEF WorkOK
<1>3. handling' = [handling EXCEPT ![c] = r]
  BY DEF Starts
<1>4. ~Wrote(handling[c])
  BY DEF Enabled, LockerInv, LockerTypeOK, WorkOK, Wrote
<1>5. \A d \in LockerCalls : ~Edits(handling[d])
  BY DEF Enabled, Edits
<1> HIDE DEF r
<1> QED BY <1>1, <1>2, <1>3, <1>4, <1>5, CallWaits

LEMMA ReadStep ==
  ASSUME LockerInv, NEW c \in LockerCalls, ReadPolicy(c)
  PROVE  LockerInv'
<1> DEFINE w == handling[c]
           now == StoredPolicy
           next == CASE w.op = "add"    -> [now EXCEPT !.apps = @ \cup {w.app}]
                     [] w.op = "remove" -> [now EXCEPT !.apps = @ \ {w.app}]
                     [] w.op = "load"   -> now
           pc == CASE w.op = "load" -> "report"
                   [] w.op = "add" /\ w.app \in now.apps -> "apply"
                   [] OTHER -> "prompt"
           r == [w EXCEPT !.base = now, !.next = next, !.pc = pc]
<1>1. w \in WorkRecord /\ w.pc = "read" /\ w.op \in {"load", "add", "remove"}
      /\ (w.op # "load" => w.app \in LockApps) /\ (w.op = "load" => ~Edits(w))
  BY DEF ReadPolicy, LockerInv, LockerTypeOK, WorkRecord, WorkOK, Edits
<1>2. now \in Policies
  BY FixedRecords DEF StoredPolicy, Policy, Policies, LockerInv, LockerTypeOK, PrefsRecord
<1>3. handling' = [handling EXCEPT ![c] = r] /\ UNCHANGED <<prefs, flushed, page, owned, overlapped>>
  BY DEF ReadPolicy, LockerInv, LockerTypeOK
<1>4. /\ r.op = w.op /\ r.mine = w.mine /\ r.app = w.app /\ r.base = now /\ r.next = next /\ r.pc = pc
  BY <1>1 DEF WorkRecord
<1> HIDE DEF now, w, r
<1>5. /\ next \in Policies
      /\ w.op = "add" => next.apps = now.apps \cup {w.app}
      /\ w.op = "remove" => next.apps = now.apps \ {w.app}
  <2>1. CASE w.op = "add"
    <3>1. next = [now EXCEPT !.apps = @ \cup {w.app}]
      BY <2>1
    <3>2. w.app \in LockApps
      BY <1>1, <2>1
    <3> QED BY <2>1, <3>1, <3>2, <1>2 DEF Policies
  <2>2. CASE w.op = "remove"
    BY <2>2, <1>2 DEF Policies
  <2>3. CASE w.op = "load"
    BY <2>3, <1>2
  <2> QED BY <2>1, <2>2, <2>3, <1>1
<1>6. /\ pc \in {"report", "apply", "prompt"}
      /\ pc = "report" <=> w.op = "load"
      /\ pc = "apply" => w.op = "add" /\ w.app \in now.apps
  BY <1>1
<1> HIDE DEF next, pc
<1>7. r \in WorkRecord /\ WorkOK(r)
  <2>1. r \in WorkRecord
    BY <1>1, <1>2, <1>5, <1>6 DEF WorkRecord, r
  <2> QED BY <2>1, <1>1, <1>4, <1>5, <1>6 DEF WorkOK
<1>8. Edits(r) => Edits(w) /\ r.pc # "report" /\ (r.pc = "apply" => r.next.apps # {})
  BY <1>1, <1>4, <1>5, <1>6 DEF Edits
<1>9. ~Wrote(w)
  BY <1>1 DEF Wrote
<1> QED BY <1>3, <1>7, <1>8, <1>9, CallWaits DEF w

(* What a call that is to write has in hand.                                *)
LEMMA WriterFacts ==
  ASSUME LockerInv, NEW c \in LockerCalls, handling[c].pc \in {"prompt", "save", "apply"}
  PROVE  /\ handling[c] \in WorkRecord /\ WorkOK(handling[c])
         /\ handling[c].op \in {"toggle", "add", "remove"}
         /\ handling[c].next \in Policies /\ handling[c].next.apps \in SUBSET LockApps
         /\ handling[c].next.on \in BOOLEAN
         /\ handling[c].mine => Edits(handling[c])
  BY DEF LockerInv, LockerTypeOK, WorkRecord, WorkOK, Policies, Edits

LEMMA PromptStep ==
  ASSUME LockerInv, NEW c \in LockerCalls, ConfirmChange(c) \/ RefuseChange(c)
  PROVE  LockerInv'
<1> DEFINE w == handling[c]
<1>1. w.pc = "prompt" /\ ~Wrote(w) /\ UNCHANGED <<prefs, flushed, page, owned, overlapped>>
  BY DEF ConfirmChange, RefuseChange, Wrote
<1>2. CASE ConfirmChange(c)
  <2> DEFINE r == [w EXCEPT !.pc = "save"]
  <2>1. handling' = [handling EXCEPT ![c] = r]
    BY <1>2 DEF ConfirmChange, LockerInv, LockerTypeOK
  <2>2. r \in WorkRecord /\ WorkOK(r) /\ (Edits(r) => Edits(w)) /\ r.pc = "save"
    BY <1>1, WriterFacts DEF WorkRecord, WorkOK, Edits
  <2> HIDE DEF r
  <2> QED BY <1>1, <2>1, <2>2, CallWaits
<1>3. CASE RefuseChange(c)
  BY <1>1, <1>3, FixedRecords, CallWaits DEF RefuseChange, Stops, NoWorkOK
<1> QED BY <1>2, <1>3

(* setLockedApps switches the policy on, if it changes it at all.           *)
LEMMA SetFacts ==
  ASSUME LockerInv, NEW c \in LockerCalls, SetLockedApps(c)
  PROVE  /\ handling[c].pc = "apply" /\ handling'[c].pc = "report"
         /\ prefs' \in PrefsRecord /\ prefs'.stored
         /\ prefs'.apps = handling[c].next.apps /\ prefs'.flat = handling[c].next.apps
         /\ handling[c].next.apps # {} \/ prefs.on => prefs'.on
<1> DEFINE apps == handling[c].next.apps
           on == apps # {} \/ ~prefs.stored \/ prefs.on
<1>1. on \in BOOLEAN /\ (apps # {} \/ prefs.on => on)
  OBVIOUS
<1>2. prefs' = [stored |-> TRUE, apps |-> apps, flat |-> apps, on |-> on]
  BY DEF SetLockedApps
<1>3. handling[c].pc = "apply" /\ handling'[c].pc = "report"
  BY DEF SetLockedApps, LockerInv, LockerTypeOK
<1>4. apps \in SUBSET LockApps
  BY <1>3, WriterFacts
<1> HIDE DEF on, apps
<1>5. prefs' \in PrefsRecord
  BY <1>1, <1>2, <1>4 DEF PrefsRecord
<1> QED BY <1>1, <1>2, <1>3, <1>5 DEF apps

(* The two writes of a call; each moves only its own record on.             *)
LEMMA WriteStep ==
  ASSUME LockerInv, NEW c \in LockerCalls, SavePolicy(c) \/ SetLockedApps(c)
  PROVE  LockerInv'
<1> DEFINE w == handling[c]
           next == handling[c].next
<1>1. /\ w \in WorkRecord /\ WorkOK(w) /\ w.op \in {"toggle", "add", "remove"}
      /\ next.apps \in SUBSET LockApps /\ next.on \in BOOLEAN
      /\ w.mine => Edits(w)
  BY WriterFacts DEF SavePolicy, SetLockedApps
<1>2. /\ handling'[c] \in WorkRecord /\ WorkOK(handling'[c]) /\ Wrote(handling'[c])
      /\ handling'[c].op = w.op /\ handling'[c].app = w.app /\ handling'[c].mine = w.mine
      /\ handling'[c].next = next
      /\ \A d \in LockerCalls \ {c} : handling'[d] = handling[d]
      /\ handling' \in [LockerCalls -> WorkRecord]
  BY <1>1 DEF SavePolicy, SetLockedApps, LockerInv, LockerTypeOK, WorkRecord, WorkOK, Wrote
<1>3. prefs' \in PrefsRecord /\ prefs'.stored /\ prefs'.flat = prefs'.apps /\ prefs'.apps = next.apps
  <2>1. CASE SavePolicy(c)
    BY <1>1, <2>1 DEF SavePolicy, PrefsRecord
  <2>2. CASE SetLockedApps(c)
    BY <2>2, SetFacts
  <2> QED BY <2>1, <2>2
<1>4. flushed' \in PrefsRecord /\ (~flushed'.stored => flushed'.apps = {})
  BY <1>1 DEF SavePolicy, SetLockedApps, LockerInv, LockerTypeOK, PrefsRecord
<1>5. UNCHANGED <<page, owned>> /\ overlapped' \in BOOLEAN
  BY DEF SavePolicy, SetLockedApps, LockerInv, LockerTypeOK, Crosses
<1>6. LockerTypeOK'
  BY <1>2, <1>3, <1>4, <1>5 DEF LockerInv, LockerTypeOK
<1>7. \A d \in LockerCalls : Edits(handling'[d]) <=> Edits(handling[d])
  BY <1>2 DEF Edits
<1>8. OneEditor'
  BY <1>7 DEF LockerInv, OneEditor
<1>9. ASSUME ~overlapped' PROVE WritesStand' /\ OwnedInv' /\ PageInv'
  <2>1. ~overlapped /\ w.mine /\ Edits(w) /\ Edits(handling'[c])
    BY <1>1, <1>7, <1>9 DEF SavePolicy, SetLockedApps, Crosses
  <2>2. \A d \in LockerCalls : Edits(handling[d]) => d = c
    BY <2>1 DEF LockerInv, OneEditor
  <2>3. WritesStand'
    <3>1. CASE SavePolicy(c)
      <4>1. handling'[c].pc = "apply" /\ prefs'.on = next.on
        BY <3>1, <1>2 DEF SavePolicy, LockerInv, LockerTypeOK
      <4> QED BY <4>1, <1>2, <1>7, <2>2 DEF WritesStand
    <3>2. CASE SetLockedApps(c)
      <4>1. /\ handling'[c].pc = "report" /\ w.pc = "apply"
            /\ next.apps # {} \/ prefs.on => prefs'.on
        BY <3>2, <1>2, SetFacts
      <4>2. next.apps # {} \/ (next.on => prefs.on)
        BY <2>1, <4>1 DEF LockerInv, WritesStand
      <4> QED BY <4>1, <4>2, <1>2, <1>3, <1>7, <2>2 DEF WritesStand
    <3> QED BY <3>1, <3>2
  <2>4. OwnedInv'
    <3> SUFFICES ASSUME NEW a \in owned
                 PROVE  a \in prefs'.apps \/ \E d \in LockerCalls :
                          handling'[d].op = "remove" /\ handling'[d].app = a /\ Wrote(handling'[d])
      BY <1>5 DEF OwnedInv
    <3>1. CASE \E d \in LockerCalls : handling[d].op = "remove" /\ handling[d].app = a /\ Wrote(handling[d])
      BY <3>1, <1>2
    <3>2. CASE a \in prefs.apps
      <4>1. CASE SavePolicy(c)
        <5>1. w.base.apps = prefs.apps /\ w.pc = "save"
          BY <4>1, <1>9 DEF SavePolicy, Crosses
        <5>2. a \in next.apps \/ (w.op = "remove" /\ w.app = a)
          BY <5>1, <3>2, <1>1 DEF WorkOK
        <5> QED BY <5>2, <1>2, <1>3
      <4>2. CASE SetLockedApps(c)
        BY <4>2, <3>2, <1>3, <1>9 DEF SetLockedApps, Crosses
      <4> QED BY <4>1, <4>2
    <3> QED BY <3>1, <3>2, <2>1 DEF LockerInv, OwnedInv
  <2> QED BY <1>2, <2>1, <2>3, <2>4 DEF PageInv
<1> QED BY <1>3, <1>6, <1>8, <1>9 DEF LockerInv

LEMMA ReportStep ==
  ASSUME LockerInv, NEW c \in LockerCalls, Report(c)
  PROVE  LockerInv'
<1> DEFINE r == handling[c]
<1>1. r \in WorkRecord /\ WorkOK(r) /\ r.pc = "report" /\ r.next \in Policies
  BY DEF Report, LockerInv, LockerTypeOK, WorkRecord
<1>2. handling'[c] = NoWork /\ \A d \in LockerCalls \ {c} : handling'[d] = handling[d]
  BY DEF Report, Stops, LockerInv, LockerTypeOK
<1>3. LockerTypeOK'
  <2>1. handling' \in [LockerCalls -> WorkRecord] /\ \A d \in LockerCalls : WorkOK(handling'[d])
    BY <1>2, FixedRecords DEF Report, Stops, LockerInv, LockerTypeOK, NoWorkOK
  <2>2. page' \in [on : BOOLEAN, apps : SUBSET LockApps, loaded : BOOLEAN]
    BY <1>1 DEF Report, LockerInv, LockerTypeOK, Policies
  <2>3. UNCHANGED <<prefs, flushed>> /\ overlapped' \in BOOLEAN
    BY DEF Report, LockerInv, LockerTypeOK
  <2> QED BY <2>1, <2>2, <2>3 DEF LockerInv, LockerTypeOK
<1>4. \A d \in LockerCalls : Edits(handling'[d]) => d # c /\ handling'[d] = handling[d]
  BY <1>2, FixedRecords DEF NoWorkOK
<1>5. OneEditor'
  BY <1>4 DEF LockerInv, OneEditor
<1>6. ASSUME ~overlapped' PROVE (prefs.flat = prefs.apps /\ WritesStand /\ OwnedInv /\ PageInv)'
  <2>1. UNCHANGED prefs
    BY DEF Report
  <2>2. CASE Edits(r)
    <3>1. ~overlapped /\ page' = [on |-> r.next.on, apps |-> r.next.apps, loaded |-> TRUE]
          /\ owned' = r.next.apps
      BY <1>6, <2>2 DEF Report, Edits
    <3>2. prefs.flat = prefs.apps /\ prefs.apps = r.next.apps /\ (r.next.on => prefs.on)
      BY <1>1, <2>2, <3>1 DEF LockerInv, WritesStand
    <3>3. \A d \in LockerCalls : ~Edits(handling'[d])
      BY <1>4, <2>2 DEF LockerInv, OneEditor
    <3> QED BY <2>1, <3>1, <3>2, <3>3 DEF WritesStand, OwnedInv, PageInv
  <2>3. CASE ~r.mine
    <3>1. ~overlapped /\ UNCHANGED page /\ owned' = owned \ {r.app} /\ ~Edits(r)
      BY <1>6, <2>3 DEF Report, Edits
    <3>2. WritesStand' /\ PageInv'
      BY <1>2, <1>4, <2>1, <3>1 DEF LockerInv, WritesStand, PageInv
    <3>3. OwnedInv'
      BY <1>2, <2>1, <3>1 DEF LockerInv, OwnedInv
    <3> QED BY <2>1, <3>1, <3>2, <3>3 DEF LockerInv
  <2>4. CASE r.op = "load" /\ r.mine
    <3>1. r.next = StoredPolicy /\ Alone(c) /\ prefs.apps = prefs.flat
          /\ page' = [on |-> r.next.on, apps |-> r.next.apps, loaded |-> TRUE] /\ owned' = r.next.apps
      BY <1>6, <2>4 DEF Report
    <3>2. r.next.apps = prefs.apps /\ (r.next.on => prefs.on)
      BY <3>1 DEF StoredPolicy, Policy, NoPolicy, LockerInv, LockerTypeOK
    <3>3. \A d \in LockerCalls : ~Edits(handling'[d])
      BY <1>2, <1>4, <3>1 DEF Alone, LockerInv, LockerTypeOK, WorkOK, Edits
    <3> QED BY <2>1, <3>1, <3>2, <3>3 DEF WritesStand, OwnedInv, PageInv
  <2> QED BY <2>2, <2>3, <2>4, <1>1 DEF Edits, WorkRecord
<1> QED BY <1>3, <1>5, <1>6 DEF LockerInv

LEMMA ReopenStep == LockerInv /\ Reopen => LockerInv'
<1> SUFFICES ASSUME LockerInv, Reopen PROVE LockerInv'
  OBVIOUS
<1>1. PICK c \in LockerCalls :
        /\ handling[c].op = "rest"
        /\ handling' = [o \in LockerCalls |-> IF o = c THEN Loading ELSE [handling[o] EXCEPT !.mine = FALSE]]
  BY DEF Reopen
<1>2. \A d \in LockerCalls : handling'[d] \in WorkRecord /\ WorkOK(handling'[d]) /\ ~Edits(handling'[d])
  <2> SUFFICES ASSUME NEW d \in LockerCalls
               PROVE  handling'[d] \in WorkRecord /\ WorkOK(handling'[d]) /\ ~Edits(handling'[d])
    OBVIOUS
  <2>1. CASE d = c
    BY <1>1, <2>1, FixedRecords DEF LoadingOK
  <2>2. CASE d # c
    <3>1. handling'[d] = [handling[d] EXCEPT !.mine = FALSE]
      BY <1>1, <2>2
    <3>2. handling[d] \in WorkRecord /\ WorkOK(handling[d])
      BY DEF LockerInv, LockerTypeOK
    <3> DEFINE r == [handling[d] EXCEPT !.mine = FALSE]
    <3>3. r \in WorkRecord /\ ~r.mine
      BY <3>2 DEF WorkRecord
    <3>4. WorkOK(r)
      BY <3>2 DEF WorkRecord, WorkOK
    <3> QED BY <3>1, <3>3, <3>4 DEF Edits
  <2> QED BY <2>1, <2>2
<1>3. /\ UNCHANGED <<prefs, flushed, owned, overlapped>>
      /\ page' = [on |-> FALSE, apps |-> {}, loaded |-> FALSE]
  BY DEF Reopen, NewPage
<1>4. LockerTypeOK'
  BY <1>1, <1>2, <1>3 DEF LockerInv, LockerTypeOK
<1>5. OneEditor' /\ WritesStand' /\ PageInv'
  BY <1>2, <1>3 DEF OneEditor, WritesStand, PageInv
<1>6. \A d \in LockerCalls : handling[d].op = "remove" =>
        /\ handling'[d].op = "remove" /\ handling'[d].app = handling[d].app
        /\ handling'[d].pc = handling[d].pc
  BY <1>1 DEF LockerInv, LockerTypeOK, WorkRecord
<1>7. ASSUME ~overlapped PROVE OwnedInv'
  BY <1>3, <1>6, <1>7 DEF LockerInv, OwnedInv, Wrote
<1> QED BY <1>3, <1>4, <1>5, <1>7 DEF LockerInv

LEMMA RestartStep == LockerInv /\ Restart => LockerInv'
<1> SUFFICES ASSUME LockerInv, Restart PROVE LockerInv'
  OBVIOUS
<1>1. PICK c \in LockerCalls : handling' = [o \in LockerCalls |-> IF o = c THEN Loading ELSE NoWork]
  BY DEF Restart
<1>2. \A d \in LockerCalls : handling'[d] \in WorkRecord /\ WorkOK(handling'[d]) /\ ~Edits(handling'[d])
  BY <1>1, FixedRecords DEF LoadingOK, NoWorkOK
<1>3. prefs' = flushed /\ UNCHANGED <<flushed, owned>> /\ overlapped' \in BOOLEAN
      /\ page' = [on |-> FALSE, apps |-> {}, loaded |-> FALSE]
  BY DEF Restart, NewPage, LockerInv, LockerTypeOK
<1>4. LockerTypeOK'
  BY <1>1, <1>2, <1>3 DEF LockerInv, LockerTypeOK
<1>5. OneEditor' /\ WritesStand' /\ PageInv'
  BY <1>2, <1>3 DEF OneEditor, WritesStand, PageInv
<1>6. ASSUME ~overlapped' PROVE OwnedInv' /\ (prefs.flat = prefs.apps)'
  <2>1. ~overlapped /\ flushed = prefs /\ flushed.apps = flushed.flat
        /\ \A d \in LockerCalls : handling[d].op = "rest"
    BY <1>6 DEF Restart
  <2> QED BY <1>3, <2>1 DEF LockerInv, OwnedInv
<1> QED BY <1>4, <1>5, <1>6 DEF LockerInv

LEMMA LockerNextInv == LockerInv /\ [LockerNext]_lockerVars => LockerInv'
<1> SUFFICES ASSUME LockerInv, [LockerNext]_lockerVars PROVE LockerInv'
  OBVIOUS
<1>1. CASE UNCHANGED lockerVars
  BY <1>1 DEF lockerVars, LockerInv, LockerTypeOK, OneEditor, WritesStand, OwnedInv, PageInv
<1>2. ASSUME NEW c \in LockerCalls, LockerStep(c) PROVE LockerInv'
  <2>1. CASE Toggle(c)
    <3>1. Shown \in Policies /\ [Shown EXCEPT !.on = ~@] \in Policies
          /\ [Shown EXCEPT !.on = ~@].apps = Shown.apps
      BY DEF Shown, Policy, Policies, LockerInv, LockerTypeOK
    <3> QED BY <2>1, <3>1, CallStarts DEF Toggle
  <2>2. CASE AddApp(c)
    BY <2>2, FixedRecords, CallStarts DEF AddApp
  <2>3. CASE RemoveApp(c)
    <3>1. PICK a \in page.apps : Starts(c, "remove", "read", a, NoPolicy, NoPolicy)
      BY <2>3 DEF RemoveApp
    <3>2. a \in LockApps
      BY DEF LockerInv, LockerTypeOK
    <3> QED BY <2>3, <3>1, <3>2, FixedRecords, CallStarts DEF RemoveApp
  <2> QED BY <1>2, <2>1, <2>2, <2>3, ReadStep, PromptStep, WriteStep, ReportStep DEF LockerStep
<1>3. CASE Flush
  BY <1>3 DEF Flush, LockerInv, LockerTypeOK, OneEditor, WritesStand, OwnedInv, PageInv
<1> QED BY <1>1, <1>2, <1>3, ReopenStep, RestartStep DEF LockerNext

(* ListIsEnforced: the list on the page at rest is the list that is locked, *)
(* in both copies, and an app reported locked stays so until its own        *)
(* removal, unless a write crossed another or was lost (AppLocker.tsx,      *)
(* AppLockPlugin.kt).                                                       *)
THEOREM ListIsEnforcedHolds == LockerSpec => []ListIsEnforced
<1>1. LockerInv => ListIsEnforced
  <2> SUFFICES ASSUME LockerInv PROVE PageTellsTheTruth /\ OwnedStayLocked
    BY DEF ListIsEnforced
  <2>1. PageTellsTheTruth
    BY DEF PageTellsTheTruth, Enforced, AtRest, LockerInv, LockerTypeOK, PageInv, WorkOK, Edits
  <2>2. OwnedStayLocked
    BY DEF OwnedStayLocked, LockerInv, OwnedInv, Wrote
  <2> QED BY <2>1, <2>2
<1> QED BY <1>1, LockerInitInv, LockerNextInv, PTL DEF LockerSpec
=============================================================================
