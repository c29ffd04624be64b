------------------------------- MODULE Updater -------------------------------
(***************************************************************************)
(* The native update channel of the Android shell                          *)
(* (apps/device/android/.../ota): a check fetches the published manifest,  *)
(* downloads the APK with resumption, verifies it and hands it to the      *)
(* system installer.  Checks and verifications are tasks of one worker     *)
(* thread; lifecycle callbacks, handOff and launchInstaller run on the     *)
(* main thread.  An APK is the sequence of blocks it was received in, each *)
(* named by the release it belongs to.                                     *)
(***************************************************************************)
EXTENDS Naturals, Sequences

CONSTANTS Releases,     \* what was ever published
          VersionOf,    \* versionCode of each release
          Genuine,      \* releases of this package and signer, as their manifests say
          NoRelease,
          Blocks,       \* apkSize, the same for all releases
          MaxStalls,    \* maxAttempts: attempts in a row without progress
          MaxEnqueued,  \* bound: tasks and posts that wait
          MaxEvents     \* bound: publications, interruptions and process ends together

ASSUME UpdaterAssumption == /\ Genuine \subseteq Releases /\ NoRelease \notin Releases
                            /\ VersionOf \in [Releases -> Nat]
                            /\ Blocks \in Nat \ {0} /\ MaxStalls \in Nat \ {0}
                            /\ MaxEnqueued \in Nat /\ MaxEvents \in Nat

VARIABLES published,  \* the release the manifest names
          installed,  \* installed versionCode
          part,       \* TrustID-<v>.apk.part of each version
          target,     \* TrustID-<v>.apk of each version, <<>> if there is none
          pending,    \* the release verified and waiting for its installation
          running,    \* a check is scheduled or under way
          tasks,      \* the worker's queue
          check,      \* the check the worker is in
          posts,      \* the main thread's queue
          resumed,    \* the activity is in front
          allowed,    \* the user lets the app install packages
          handed,     \* autoHandedOff
          opened,     \* history: the last file given to the installer
          events

updVars == <<published, installed, part, target, pending, running, tasks, check, posts,
             resumed, allowed, handed, opened, events>>

Versions == {VersionOf[r] : r \in Releases}
Resting == [pc |-> "none"]
Whole(r) == [i \in 1..Blocks |-> r]

KeepFiles == UNCHANGED <<part, target>>
KeepMain == UNCHANGED <<posts, resumed, allowed, handed, opened>>
KeepWorld == UNCHANGED <<published, installed>>

\* A launch that is already posted finds its file changed.
Disturb(v) == posts' = [i \in 1..Len(posts) |->
                          IF posts[i].op = "launch" /\ VersionOf[posts[i].release] = v
                          THEN [posts[i] EXCEPT !.raced = TRUE] ELSE posts[i]]

Occurs == events < MaxEvents /\ events' = events + 1

-----------------------------------------------------------------------------
(* The world: publishing, the user's permission, the end of the process.    *)
Publish(r) ==
  /\ r # published /\ Occurs /\ published' = r
  /\ KeepFiles /\ KeepMain /\ UNCHANGED <<installed, pending, running, tasks, check>>

AllowInstalls ==
  /\ ~allowed /\ allowed' = TRUE
  /\ KeepFiles /\ KeepWorld /\ UNCHANGED <<pending, running, tasks, check, posts, resumed, handed, opened, events>>

ProcessGone ==
  /\ pending' = NoRelease /\ running' = FALSE /\ tasks' = <<>> /\ check' = Resting
  /\ posts' = <<>> /\ resumed' = FALSE /\ handed' = {}

ProcessEnds ==
  /\ Occurs /\ ProcessGone
  /\ KeepFiles /\ KeepWorld /\ UNCHANGED <<allowed, opened>>

\* The installer replaces the app, and with it the process.
InstallerInstalls ==
  /\ opened.release # NoRelease
  /\ LET r == opened.release IN
       /\ opened.found = Whole(r) /\ r \in Genuine /\ VersionOf[r] > installed
       /\ installed' = VersionOf[r]
  /\ opened' = [opened EXCEPT !.release = NoRelease]
  /\ ProcessGone /\ KeepFiles /\ UNCHANGED <<published, allowed, events>>

-----------------------------------------------------------------------------
(* Scheduling: one check at a time, from startup, a late resume or the user. *)
Schedule(user) ==
  /\ ~running /\ running' = TRUE
  /\ tasks' = Append(tasks, [op |-> "check", user |-> user])

CheckNow(user) ==
  /\ Len(tasks) < MaxEnqueued /\ Schedule(user)
  /\ KeepFiles /\ KeepWorld /\ KeepMain /\ UNCHANGED <<pending, check, events>>

\* handOff, on the main thread.
HandOff(user) ==
  IF \/ pending = NoRelease \/ ~resumed' \/ ~allowed
     \/ ~user /\ VersionOf[pending] \in handed
  THEN UNCHANGED tasks
  ELSE Len(tasks) < MaxEnqueued /\ tasks' = Append(tasks, [op |-> "verify", release |-> pending])

OnResume ==
  /\ ~resumed /\ resumed' = TRUE
  /\ HandOff(FALSE)
  /\ KeepFiles /\ KeepWorld /\ UNCHANGED <<pending, running, check, posts, allowed, handed, opened, events>>

OnPause ==
  /\ resumed /\ resumed' = FALSE
  /\ KeepFiles /\ KeepWorld /\ UNCHANGED <<pending, running, tasks, check, posts, allowed, handed, opened, events>>

PostedHandOff ==
  /\ posts # <<>> /\ Head(posts).op = "handOff" /\ posts' = Tail(posts)
  /\ resumed' = resumed /\ HandOff(Head(posts).user)
  /\ KeepFiles /\ KeepWorld /\ UNCHANGED <<pending, running, check, allowed, handed, opened, events>>

\* Only the path is handed over; what the installer reads is in it by then.
LaunchInstaller ==
  /\ posts # <<>> /\ Head(posts).op = "launch" /\ posts' = Tail(posts)
  /\ LET r == Head(posts).release IN
       /\ opened' = [release |-> r, found |-> target[VersionOf[r]], raced |-> Head(posts).raced]
       /\ handed' = handed \cup {VersionOf[r]}
  /\ KeepFiles /\ KeepWorld /\ UNCHANGED <<pending, running, tasks, check, resumed, allowed, events>>

-----------------------------------------------------------------------------
(* The worker. *)
EndCheck == running' = FALSE /\ check' = Resting
CheckIn(pc) == check.pc = pc

\* cleanStale twice: installed versions, and all but the advertised one.
Cleaned(files, keep) == [v \in Versions |-> IF v <= installed \/ v # keep THEN <<>> ELSE files[v]]

StartCheck ==
  /\ check = Resting /\ tasks # <<>> /\ Head(tasks).op = "check"
  /\ tasks' = Tail(tasks)
  /\ part' = [v \in Versions |-> IF v <= installed THEN <<>> ELSE part[v]]
  /\ target' = [v \in Versions |-> IF v <= installed THEN <<>> ELSE target[v]]
  /\ check' = [pc |-> "manifest", user |-> Head(tasks).user]
  /\ KeepWorld /\ KeepMain /\ UNCHANGED <<pending, running, events>>

\* The manifest cannot be had, or does not parse, or names another host or package.
NoManifest ==
  /\ CheckIn("manifest") /\ Occurs /\ EndCheck
  /\ KeepFiles /\ KeepWorld /\ KeepMain /\ UNCHANGED <<pending, tasks>>

UpToDate ==
  /\ CheckIn("manifest") /\ VersionOf[published] <= installed
  /\ pending' = NoRelease /\ EndCheck
  /\ KeepFiles /\ KeepWorld /\ KeepMain /\ UNCHANGED <<tasks, events>>

UpdateAvailable ==
  LET r == published IN
  /\ CheckIn("manifest") /\ VersionOf[r] > installed
  /\ part' = Cleaned(part, VersionOf[r])
  /\ target' = [Cleaned(target, VersionOf[r]) EXCEPT ![VersionOf[r]] = IF @ = Whole(r) THEN @ ELSE <<>>]
  /\ posts' = [i \in 1..Len(posts) |->
                 IF posts[i].op = "launch" /\ target'[VersionOf[posts[i].release]] # target[VersionOf[posts[i].release]]
                 THEN [posts[i] EXCEPT !.raced = TRUE] ELSE posts[i]]
  /\ check' = [pc |-> IF target'[VersionOf[r]] = Whole(r) THEN "identify" ELSE "open",
               user |-> check.user, release |-> r, stalled |-> 0]
  /\ KeepWorld /\ UNCHANGED <<pending, running, tasks, resumed, allowed, handed, opened, events>>

\* The release the server sends for the version of r: what is published, if it has that version.
Served(r) == IF VersionOf[published] = VersionOf[r] THEN published ELSE r

\* downloadOnce up to the first read: a full .part starts again, and a server may ignore the range.
OpenDownload ==
  LET r == check.release
      v == VersionOf[r]
  IN
  /\ CheckIn("open")
  /\ \/ part' = [part EXCEPT ![v] = IF Len(@) >= Blocks THEN <<>> ELSE @]
     \/ part' = [part EXCEPT ![v] = <<>>]
  /\ check' = [pc |-> "read", user |-> check.user, release |-> r, stalled |-> check.stalled,
               from |-> Served(r), before |-> Len(part[v])]
  /\ KeepWorld /\ KeepMain /\ UNCHANGED <<target, pending, running, tasks, events>>

ReadBlock ==
  LET v == VersionOf[check.release] IN
  /\ CheckIn("read") /\ Len(part[v]) < Blocks
  /\ part' = [part EXCEPT ![v] = Append(@, check.from)]
  /\ KeepWorld /\ KeepMain /\ UNCHANGED <<target, pending, running, tasks, check, events>>

\* A transport failure keeps the partial file; only attempts without progress count.
Interrupted ==
  LET v == VersionOf[check.release]
      stalled == IF Len(part[v]) > check.before THEN 0 ELSE check.stalled + 1
  IN
  /\ CheckIn("read") /\ Len(part[v]) < Blocks /\ Occurs
  /\ IF stalled >= MaxStalls
     THEN EndCheck
     ELSE /\ check' = [pc |-> "open", user |-> check.user, release |-> check.release, stalled |-> stalled]
          /\ UNCHANGED running
  /\ KeepFiles /\ KeepWorld /\ KeepMain /\ UNCHANGED <<pending, tasks>>

\* Any other failure (HTTP status, size, disk) deletes the partial file and ends the check.
DownloadFails ==
  /\ CheckIn("read") /\ Occurs /\ EndCheck
  /\ part' = [part EXCEPT ![VersionOf[check.release]] = <<>>]
  /\ KeepWorld /\ KeepMain /\ UNCHANGED <<target, pending, tasks>>

FinishDownload_unhashed ==
  LET v == VersionOf[check.release] IN
  /\ CheckIn("read") /\ Len(part[v]) = Blocks
  /\ part' = [part EXCEPT ![v] = <<>>] /\ target' = [target EXCEPT ![v] = part[v]]
  /\ check' = [pc |-> "identify", user |-> check.user, release |-> check.release]
  /\ UNCHANGED running
  /\ KeepWorld /\ KeepMain /\ UNCHANGED <<pending, tasks, events>>

\* The hash covers the whole file, what earlier attempts left included.
FinishDownload ==
  LET r == check.release
      v == VersionOf[r]
  IN
  /\ CheckIn("read") /\ Len(part[v]) = Blocks
  /\ part' = [part EXCEPT ![v] = <<>>]
  /\ IF part[v] = Whole(r)
     THEN /\ target' = [target EXCEPT ![v] = part[v]]
          /\ check' = [pc |-> "identify", user |-> check.user, release |-> r]
          /\ Disturb(v) /\ UNCHANGED running
     ELSE UNCHANGED <<target, posts>> /\ EndCheck
  /\ KeepWorld /\ UNCHANGED <<pending, tasks, resumed, allowed, handed, opened, events>>

\* verifyIdentity: package, version and signer of the archive.
Identify ==
  LET r == check.release IN
  /\ CheckIn("identify") /\ EndCheck
  /\ IF r \in Genuine
     THEN /\ pending' = r /\ UNCHANGED target
          /\ Len(posts) < MaxEnqueued /\ posts' = Append(posts, [op |-> "handOff", user |-> check.user])
     ELSE target' = [target EXCEPT ![VersionOf[r]] = <<>>] /\ Disturb(VersionOf[r]) /\ UNCHANGED pending
  /\ KeepWorld /\ UNCHANGED <<part, tasks, resumed, allowed, handed, opened, events>>

VerifyAgain_skipped ==
  /\ check = Resting /\ tasks # <<>> /\ Head(tasks).op = "verify" /\ tasks' = Tail(tasks)
  /\ Len(posts) < MaxEnqueued
  /\ posts' = Append(posts, [op |-> "launch", release |-> Head(tasks).release, raced |-> FALSE])
  /\ KeepFiles /\ KeepWorld /\ UNCHANGED <<pending, running, check, resumed, allowed, handed, opened, events>>

\* The task of handOff: the file is hashed again, and lost with `pending' if it changed.
VerifyAgain ==
  LET r == Head(tasks).release
      v == VersionOf[r]
  IN
  /\ check = Resting /\ tasks # <<>> /\ Head(tasks).op = "verify" /\ tasks' = Tail(tasks)
  /\ IF target[v] = Whole(r)
     THEN /\ Len(posts) < MaxEnqueued
          /\ posts' = Append(posts, [op |-> "launch", release |-> r, raced |-> FALSE])
          /\ UNCHANGED <<target, pending>>
     ELSE /\ target' = [target EXCEPT ![v] = <<>>] /\ pending' = NoRelease /\ Disturb(v)
  /\ KeepWorld /\ UNCHANGED <<part, running, check, resumed, allowed, handed, opened, events>>

-----------------------------------------------------------------------------
UpdInit ==
  /\ published \in Releases /\ installed = 1
  /\ part = [v \in Versions |-> <<>>] /\ target = part
  /\ pending = NoRelease /\ running = FALSE /\ tasks = <<>> /\ check = Resting /\ posts = <<>>
  /\ resumed = FALSE /\ allowed = FALSE /\ handed = {} /\ events = 0
  /\ opened = [release |-> NoRelease, found |-> <<>>, raced |-> FALSE]

UpdNext ==
  \/ \E r \in Releases : Publish(r)
  \/ \E user \in BOOLEAN : CheckNow(user)
  \/ AllowInstalls \/ ProcessEnds \/ InstallerInstalls
  \/ OnResume \/ OnPause \/ PostedHandOff \/ LaunchInstaller
  \/ StartCheck \/ NoManifest \/ UpToDate \/ UpdateAvailable
  \/ OpenDownload \/ ReadBlock \/ Interrupted \/ DownloadFails \/ FinishDownload
  \/ Identify \/ VerifyAgain

UpdSpec == UpdInit /\ [][UpdNext]_updVars

-----------------------------------------------------------------------------
(* What the installer is given is the whole APK of one genuine release,     *)
(* newer than the app, whatever was republished, interrupted or resumed in  *)
(* between; only a check that changes the file after its last verification  *)
(* and before the launch can defeat it.  A finished APK is never a mixture  *)
(* of two releases.                                                         *)
InstallerGetsAVerifiedApk ==
  /\ opened.release = NoRelease \/ opened.raced
     \/ /\ opened.found = Whole(opened.release)
        /\ opened.release \in Genuine /\ VersionOf[opened.release] > installed
  /\ \A v \in Versions : target[v] = <<>> \/ \E r \in Releases : target[v] = Whole(r)
=============================================================================
