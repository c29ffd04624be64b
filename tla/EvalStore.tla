----------------------------- MODULE EvalStore -----------------------------
(***************************************************************************)
(* The filesystem store of the internal biometric evaluation               *)
(* (modules/biometric-eval/store.ts, routes/biometric-eval.ts): people who *)
(* consent, their capture sessions, the captured images and samples, the   *)
(* labelled export and the manifest of counts.                             *)
(*                                                                         *)
(* Every call is synchronous, so calls of one process never overlap.  What *)
(* can come between two of their writes is the end of the process: `work`  *)
(* holds the writes a call still has to make, and Stop drops them.         *)
(***************************************************************************)
EXTENDS Naturals, FiniteSets

CONSTANTS Subjects,     \* the ids createParticipant may draw
          EvalSessions, \* the ids startSession may draw
          Images,       \* contents of an image, told apart by their SHA-256
          NoImage,      \* a capture without an image
          Embeddings,   \* embeddings, told apart by their fingerprint
          MaxCaptures,  \* bound: captures ever attempted
          MaxStops      \* bound: ends of the process

ASSUME EvalStoreAssumption == /\ NoImage \notin Images
                              /\ MaxCaptures \in Nat
                              /\ MaxStops \in Nat

VARIABLES folders,   \* subjects with a folder (and their consent in meta.json)
          drawn,     \* ids of subjects and sessions already used
          rounds,    \* session folders: [subject, id]
          images,    \* image files: [subject, session, capture, content]
          captures,  \* capture files, their samples included
          labeled,   \* exports/labeled.json: the samples in it, {} if no file
          manifest,  \* manifest.json: its counts
          work,      \* what the running call has still to write
          attempts,  \* captures attempted, the source of capture ids
          stops,     \* ends of the process so far
          torn       \* ghost: people whose deletion was cut short before the
                     \* export was removed

evalVars == <<folders, drawn, rounds, images, captures, labeled, manifest,
              work, attempts, stops, torn>>

Idle == [step |-> "idle"]

-----------------------------------------------------------------------------
(* refreshManifest counts the folders and files that exist. *)
Counts == [subjects |-> Cardinality(folders),
           sessions |-> Cardinality(rounds),
           captures |-> Cardinality(captures),
           images   |-> Cardinality(images)]

EvalInit == /\ folders = {} /\ drawn = {} /\ rounds = {} /\ images = {}
            /\ captures = {} /\ labeled = {} /\ torn = {}
            /\ manifest = [subjects |-> 0, sessions |-> 0, captures |-> 0, images |-> 0]
            /\ work = Idle
            /\ attempts = 0 /\ stops = 0

CreateParticipant(s) ==
  /\ work = Idle /\ s \notin drawn
  /\ drawn' = drawn \cup {s}
  /\ folders' = folders \cup {s}
  /\ work' = [step |-> "refresh"]
  /\ UNCHANGED <<rounds, images, captures, labeled, manifest, attempts, stops, torn>>

StartSession(s, sn) ==
  /\ work = Idle /\ s \in folders /\ sn \notin drawn
  /\ drawn' = drawn \cup {sn}
  /\ rounds' = rounds \cup {[subject |-> s, id |-> sn]}
  /\ work' = [step |-> "refresh"]
  /\ UNCHANGED <<folders, images, captures, labeled, manifest, attempts, stops, torn>>

(* Identical image content is refused across all sessions and people.      *)
ImageIsNew(img) == \A c \in captures : c.image # img

(* An identical embedding is refused for the same person.                  *)
SampleIsNew(s, e) == \A c \in captures : c.subject = s => c.embedding # e

(* The first half of storeCapture writes the image: before the embedding   *)
(* is compared, so a sample refused below leaves its image behind.         *)
StoreImage(rnd, img, e) ==
  /\ work = Idle /\ attempts < MaxCaptures
  /\ attempts' = attempts + 1
  /\ img = NoImage \/ ImageIsNew(img)
  /\ images' = images \cup {[subject |-> rnd.subject, session |-> rnd.id,
                             capture |-> attempts, content |-> i]
                             : i \in {img} \ {NoImage}}
  /\ work' = [step |-> "record",
              capture |-> [subject |-> rnd.subject, session |-> rnd.id,
                           id |-> attempts, image |-> img, embedding |-> e]]
  /\ UNCHANGED <<folders, drawn, rounds, captures, labeled, manifest, stops, torn>>

RejectSample ==
  /\ work.step = "record"
  /\ ~SampleIsNew(work.capture.subject, work.capture.embedding)
  /\ work' = Idle
  /\ UNCHANGED <<folders, drawn, rounds, images, captures, labeled, manifest,
                 attempts, stops, torn>>

RecordCapture ==
  /\ work.step = "record"
  /\ SampleIsNew(work.capture.subject, work.capture.embedding)
  /\ captures' = captures \cup {work.capture}
  /\ work' = [step |-> "refresh"]
  /\ UNCHANGED <<folders, drawn, rounds, images, labeled, manifest, attempts,
                 stops, torn>>

(* The last write of every call, and the whole of adminSummary.            *)
RefreshManifest ==
  /\ work.step \in {"idle", "refresh"}
  /\ manifest' = Counts
  /\ work' = Idle
  /\ UNCHANGED <<folders, drawn, rounds, images, captures, labeled, attempts,
                 stops, torn>>

(* POST .../export: the samples of everybody who has a folder.             *)
ExportLabeled ==
  /\ work = Idle
  /\ labeled' = {c \in captures : c.subject \in folders}
  /\ torn' = {}
  /\ UNCHANGED <<folders, drawn, rounds, images, captures, manifest, work,
                 attempts, stops>>

(* deleteParticipant removes the folder with all that is in it ...         *)
RemoveFolder(s) ==
  /\ work = Idle /\ s \in folders
  /\ folders'  = folders \ {s}
  /\ rounds'   = {r \in rounds : r.subject # s}
  /\ images'   = {i \in images : i.subject # s}
  /\ captures' = {c \in captures : c.subject # s}
  /\ work' = [step |-> "purge", subject |-> s]
  /\ UNCHANGED <<drawn, labeled, manifest, attempts, stops, torn>>

(* mutant of RemoveExport: the deletion leaves the export alone *)
RemoveExport_kept ==
  /\ work.step = "purge"
  /\ work' = [step |-> "refresh"]
  /\ UNCHANGED <<folders, drawn, rounds, images, captures, labeled, manifest,
                 attempts, stops, torn>>

(* ... then the export, so that no deleted sample remains in it.           *)
RemoveExport ==
  /\ work.step = "purge"
  /\ labeled' = {}
  /\ torn' = {}
  /\ work' = [step |-> "refresh"]
  /\ UNCHANGED <<folders, drawn, rounds, images, captures, manifest, attempts, stops>>

(* The process ends between two writes.  Deleting the person again answers *)
(* 404: the folder is gone, and the export is not looked at.               *)
Stop ==
  /\ work # Idle /\ stops < MaxStops
  /\ stops' = stops + 1
  /\ torn' = IF work.step = "purge" THEN torn \cup {work.subject} ELSE torn
  /\ work' = Idle
  /\ UNCHANGED <<folders, drawn, rounds, images, captures, labeled, manifest, attempts>>

EvalNext ==
  \/ \E s \in Subjects : CreateParticipant(s) \/ RemoveFolder(s)
  \/ \E s \in Subjects, sn \in EvalSessions : StartSession(s, sn)
  \/ \E rnd \in rounds, img \in Images \cup {NoImage}, e \in Embeddings :
        StoreImage(rnd, img, e)
  \/ RejectSample \/ RecordCapture \/ RefreshManifest
  \/ ExportLabeled \/ RemoveExport
  \/ Stop

EvalSpec == EvalInit /\ [][EvalNext]_evalVars

-----------------------------------------------------------------------------
(* A deleted person's samples stay in the labelled export only if the      *)
(* process ended between the two removals of deleteParticipant, and then   *)
(* until the next export or deletion; the samples of the store itself stay *)
(* free of duplicates, those whose images were left behind included.       *)
DeletedLeaveTheExport ==
  /\ \A c \in labeled :
        \/ c.subject \in folders \cup torn
        \/ work.step = "purge" /\ work.subject = c.subject
  /\ \A c, d \in captures :
        c.id # d.id => /\ c.image # d.image \/ c.image = NoImage
                       /\ c.subject # d.subject \/ c.embedding # d.embedding

=============================================================================
