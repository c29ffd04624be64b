-------------------------- MODULE BiometricEngine --------------------------
(***************************************************************************)
(* How a page brings its face engine up (capture/biometric: the readiness  *)
(* owner, the ORT runtime, the ArcFace recogniser, the MediaPipe detector; *)
(* capture/ai-vector-extractor.ts): one pass at a time starts the runtime, *)
(* the detector and the embedder side by side, and a warm-up checks what   *)
(* they made before the engine is called ready.                            *)
(*                                                                         *)
(* A step runs from one await on something outside the page to the next.   *)
(* The probe and the recogniser both create ORT sessions; whoever comes    *)
(* first lets ORT initialise itself, and ORT keeps a failure of that for   *)
(* the life of the page.  How bytes are delivered is AssetDelivery's.      *)
(***************************************************************************)
EXTENDS Naturals

CONSTANTS MaxPasses,       \* bound: passes of the readiness owner
          MaxReplacements  \* bound: detectors replaced by one on the CPU

VARIABLES report,     \* what the readiness owner knows of each component
          pass,       \* the pass in flight: "none", "components" or "warmup"
          settled,    \* what runComponent returned to it for each part
          passes,     \* passes so far
          runtime,    \* the module variables of ort-runtime.ts
          creator,    \* createOrtSession for the probe and for the recogniser
          arcface,    \* the session: made, and whether it passed conformance
          landmarker, \* the detector: its state, delegate and whether it was warmed up
          extractor,  \* the shared extractor: "none", "loading" or "ready"
          unchecked   \* history: a scan embedded a face with a session that had not passed

engineVars == <<report, pass, settled, passes, runtime, creator, arcface, landmarker, extractor, unchecked>>

Parts == {"runtime", "detector", "embedder"}

KeepOrt == UNCHANGED <<runtime, creator, arcface>>

KeepOwner == UNCHANGED <<pass, passes, extractor, unchecked>>

-----------------------------------------------------------------------------
(* What a read of the readiness finds: a runtime or a detector that failed  *)
(* after it was ready is failed, and the warm-up with it is forgotten.      *)
Reconciled ==
  LET parts == [report EXCEPT
        !.runtime = IF runtime.init = "failed" THEN "FAILED" ELSE @,
        !.detector = IF @ = "READY" /\ landmarker.state = "FAILED" THEN "FAILED" ELSE @]
  IN  [parts EXCEPT !.warmup =
        IF @ = "READY" /\ \E p \in Parts : parts[p] # "READY" THEN "IDLE" ELSE @]

EngineReady == \A p \in Parts \cup {"warmup"} : Reconciled[p] = "READY"

(* getBiometricReadiness and isBiometricReady write down what they find.    *)
ReadReadiness ==
  /\ report # Reconciled /\ report' = Reconciled
  /\ UNCHANGED <<settled, landmarker>> /\ KeepOrt /\ KeepOwner

(* ensureBiometricReady: who calls while a pass is in flight joins it, and  *)
(* after a failure only what failed is done again.                          *)
StartPass ==
  LET again == {p \in Parts : Reconciled[p] # "READY"} IN
  /\ ~EngineReady /\ pass = "none" /\ runtime.init # "failed" /\ passes < MaxPasses
  /\ pass' = "components" /\ passes' = passes + 1
  /\ settled' = [p \in Parts |->
       IF p \in again /\ ~(p = "detector" /\ landmarker.state = "READY") THEN "pending" ELSE "ok"]
  /\ report' = [p \in DOMAIN report |->
       IF p \in again THEN IF settled'[p] = "ok" THEN "READY" ELSE "LOADING" ELSE Reconciled[p]]
  /\ creator' = [probe |-> IF "runtime" \in again THEN "preparing" ELSE creator.probe,
                 arcface |-> IF "embedder" \in again THEN "preparing" ELSE creator.arcface]
  /\ landmarker' = IF "detector" \in again /\ landmarker.state \in {"IDLE", "FAILED"}
                   THEN [landmarker EXCEPT !.state = "LOADING"] ELSE landmarker
  /\ UNCHANGED <<runtime, arcface, extractor, unchecked>>

-----------------------------------------------------------------------------
(* getOrtModule and prepareRuntimeAssets, one promise for all who wait; a   *)
(* failure clears it, so that a later call starts over.  The recogniser     *)
(* comes when it has its model's bytes.                                     *)
PartsPrepared(k) ==
  /\ creator[k] = "preparing" /\ ~runtime.prepared /\ runtime.init # "failed"
  /\ runtime' = [runtime EXCEPT !.prepared = TRUE]
  /\ UNCHANGED <<creator, arcface, report, settled, landmarker>> /\ KeepOwner

(* The component whose session the creator makes.                           *)
PartOf(k) == IF k = "probe" THEN "runtime" ELSE "embedder"

SettleLoad(p, ok) ==
  /\ report' = [report EXCEPT ![p] = IF ok THEN "READY" ELSE "FAILED"]
  /\ settled' = [settled EXCEPT ![p] = IF ok THEN "ok" ELSE "failed"]

CreatorFails(k) ==
  /\ creator' = [creator EXCEPT ![k] = "idle"]
  /\ SettleLoad(PartOf(k), FALSE)

(* Import, assets, model bytes: any of them may fail, and nothing is tried  *)
(* after ORT's own start failed.                                            *)
PreparingFails(k) ==
  /\ creator[k] = "preparing"
  /\ k = "arcface" \/ ~runtime.prepared \/ runtime.init = "failed"
  /\ CreatorFails(k)
  /\ UNCHANGED <<runtime, arcface, landmarker>> /\ KeepOwner

(* As it would be without runtimeInitPromise.                               *)
EnterOrt_noPromise(k) ==
  /\ creator[k] = "preparing" /\ runtime.prepared /\ runtime.init # "failed"
  /\ creator' = [creator EXCEPT ![k] = IF runtime.init = "ready" THEN "session" ELSE "init"]
  /\ runtime' = IF runtime.init # "ready"
                THEN [runtime EXCEPT !.init = "running", !.attempts = @ + 1] ELSE runtime
  /\ UNCHANGED <<arcface, report, settled, landmarker>> /\ KeepOwner

(* createOrtSession once everything is there.                               *)
EnterOrt(k) ==
  /\ creator[k] = "preparing" /\ runtime.prepared /\ runtime.init # "failed"
  /\ creator' = [creator EXCEPT ![k] =
       CASE runtime.init = "ready" -> "session"
         [] runtime.init = "running" -> "waiting"
         [] OTHER -> "init"]
  /\ runtime' = IF runtime.init = "idle"
                THEN [runtime EXCEPT !.init = "running", !.attempts = @ + 1] ELSE runtime
  /\ UNCHANGED <<arcface, report, settled, landmarker>> /\ KeepOwner

(* A session is made: the probe's is run and released, the recogniser's is  *)
(* kept, and the component is ready.                                        *)
Serve(k) ==
  /\ creator' = [creator EXCEPT ![k] = "idle"]
  /\ SettleLoad(PartOf(k), TRUE)
  /\ arcface' = IF k = "arcface" THEN [made |-> TRUE, conforms |-> FALSE] ELSE arcface

InitSettles(k) ==
  /\ creator[k] = "init"
  /\ \/ runtime' = [runtime EXCEPT !.init = "ready"] /\ Serve(k)
     \/ runtime' = [runtime EXCEPT !.init = "ready"] /\ CreatorFails(k) /\ UNCHANGED arcface
     \/ runtime' = [runtime EXCEPT !.init = "failed"] /\ CreatorFails(k) /\ UNCHANGED arcface
  /\ UNCHANGED landmarker /\ KeepOwner

(* Who waited starts over: it finds the runtime ready, or failed for good.  *)
WaitIsOver(k) ==
  /\ creator[k] = "waiting" /\ runtime.init # "running"
  /\ IF runtime.init = "failed"
     THEN CreatorFails(k)
     ELSE creator' = [creator EXCEPT ![k] = "preparing"] /\ UNCHANGED <<report, settled>>
  /\ UNCHANGED <<runtime, arcface, landmarker>> /\ KeepOwner

MakeSession(k) ==
  /\ creator[k] = "session"
  /\ Serve(k) \/ (CreatorFails(k) /\ UNCHANGED arcface)
  /\ UNCHANGED <<runtime, landmarker>> /\ KeepOwner

-----------------------------------------------------------------------------
(* The pass waits for the detector too, whoever loads it.                   *)
TellDetector(ok) ==
  IF settled.detector = "pending" THEN SettleLoad("detector", ok) ELSE UNCHANGED <<report, settled>>

(* getSharedFaceLandmarker: the GPU if there is one, with a time limit, and *)
(* the CPU when that fails; a GPU detector that comes later is closed.      *)
DetectorLoads ==
  /\ landmarker.state = "LOADING"
  /\ \/ /\ \E d \in {"GPU", "CPU"} :
               landmarker' = [landmarker EXCEPT !.state = "READY", !.delegate = d, !.warm = FALSE]
        /\ TellDetector(TRUE)
     \/ /\ landmarker' = [landmarker EXCEPT !.state = "FAILED", !.warm = FALSE]
        /\ TellDetector(FALSE)
  /\ KeepOrt /\ KeepOwner

(* forceCpuLandmarker: a scan that keeps finding no face on the GPU.        *)
ForceCpu ==
  /\ extractor = "ready" /\ landmarker.state = "READY" /\ landmarker.delegate = "GPU"
  /\ landmarker.replaced < MaxReplacements
  /\ landmarker' = [state |-> "REPLACING", delegate |-> "CPU", warm |-> FALSE,
                    replaced |-> landmarker.replaced + 1]
  /\ UNCHANGED <<report, settled>> /\ KeepOrt /\ KeepOwner

Replaced ==
  /\ landmarker.state = "REPLACING"
  /\ \E ok \in BOOLEAN :
       /\ landmarker' = [landmarker EXCEPT !.state = IF ok THEN "READY" ELSE "FAILED"]
       /\ TellDetector(ok)
  /\ KeepOrt /\ KeepOwner

(* A detector that failed is loaded again by the next frame of a scan, and  *)
(* by the warm-up.                                                          *)
DetectReloads ==
  /\ extractor = "ready" \/ pass = "warmup"
  /\ landmarker.state = "FAILED"
  /\ landmarker' = [landmarker EXCEPT !.state = "LOADING"]
  /\ UNCHANGED <<report, settled>> /\ KeepOrt /\ KeepOwner

-----------------------------------------------------------------------------
(* All three parts have settled.                                            *)
JoinParts ==
  /\ pass = "components" /\ \A p \in Parts : settled[p] # "pending"
  /\ IF \A p \in Parts : settled[p] = "ok"
     THEN pass' = "warmup" /\ report' = [report EXCEPT !.warmup = "LOADING"]
     ELSE pass' = "none" /\ UNCHANGED report
  /\ KeepOrt /\ UNCHANGED <<settled, landmarker, passes, extractor, unchecked>>

(* warmUpFaceLandmarker, then warmUpArcFace against the golden embedding.   *)
WarmUp ==
  /\ pass = "warmup" /\ pass' = "none"
  /\ \/ /\ landmarker.state = "READY" /\ landmarker' = [landmarker EXCEPT !.warm = TRUE]
        /\ report' = [report EXCEPT !.warmup = "READY"]
        /\ arcface' = [arcface EXCEPT !.conforms = TRUE]
     \/ /\ report' = [report EXCEPT !.warmup = "FAILED"]
        /\ UNCHANGED <<landmarker, arcface>>
  /\ UNCHANGED <<settled, runtime, creator, passes, extractor, unchecked>>

(* getSharedAIVectorExtractor: it starts a pass or joins one, and gives up  *)
(* when its time is over, whatever becomes of the pass.                     *)
LoadModels ==
  /\ extractor = "none" /\ extractor' = "loading"
  /\ UNCHANGED <<report, pass, settled, passes, landmarker, unchecked>> /\ KeepOrt

(* As it would be if a settled pass were taken for a good one.              *)
ModelsLoaded_anyPass ==
  /\ extractor = "loading" /\ (EngineReady \/ (pass = "none" /\ passes > 0))
  /\ extractor' = "ready"
  /\ UNCHANGED <<report, pass, settled, passes, landmarker, unchecked>> /\ KeepOrt

ModelsLoaded ==
  /\ extractor = "loading" /\ (EngineReady \/ (pass = "none" /\ passes > 0))
  /\ extractor' = IF EngineReady THEN "ready" ELSE "none"
  /\ UNCHANGED <<report, pass, settled, passes, landmarker, unchecked>> /\ KeepOrt

LoadTimesOut ==
  /\ extractor = "loading" /\ extractor' = "none"
  /\ UNCHANGED <<report, pass, settled, passes, landmarker, unchecked>> /\ KeepOrt

(* A scan embeds a face: it looked at the extractor only, once.             *)
EmbedFace ==
  /\ extractor = "ready" /\ arcface.made
  /\ unchecked' = (unchecked \/ ~arcface.conforms)
  /\ UNCHANGED <<report, pass, settled, passes, landmarker, extractor>> /\ KeepOrt

-----------------------------------------------------------------------------
EngineInit ==
  /\ report = [p \in Parts \cup {"warmup"} |-> "IDLE"]
  /\ pass = "none" /\ passes = 0 /\ settled = [p \in Parts |-> "ok"]
  /\ runtime = [prepared |-> FALSE, init |-> "idle", attempts |-> 0]
  /\ creator = [probe |-> "idle", arcface |-> "idle"]
  /\ arcface = [made |-> FALSE, conforms |-> FALSE]
  /\ landmarker = [state |-> "IDLE", delegate |-> "GPU", warm |-> FALSE, replaced |-> 0]
  /\ extractor = "none" /\ unchecked = FALSE

EngineNext ==
  \/ ReadReadiness \/ StartPass \/ JoinParts \/ WarmUp
  \/ \E k \in {"probe", "arcface"} :
       PartsPrepared(k) \/ PreparingFails(k) \/ EnterOrt(k) \/ InitSettles(k)
         \/ WaitIsOver(k) \/ MakeSession(k)
  \/ DetectorLoads \/ ForceCpu \/ Replaced \/ DetectReloads
  \/ LoadModels \/ ModelsLoaded \/ LoadTimesOut \/ EmbedFace

EngineSpec == EngineInit /\ [][EngineNext]_engineVars

-----------------------------------------------------------------------------
(* However the probe, the recogniser, retries and timeouts interleave, ORT  *)
(* enters its own start at most once ("Must stay <= 1"); an engine called   *)
(* ready has an ORT runtime, a session that passed conformance and a        *)
(* detector that was warmed up, or one that a scan put in its place since;  *)
(* and no scan embeds a face with a session that has not passed.            *)
ReadyIsChecked ==
  /\ runtime.attempts <= 1
  /\ EngineReady => /\ runtime.init = "ready" /\ arcface.conforms
                    /\ (landmarker.warm \/ landmarker.replaced > 0)
  /\ ~unchecked
=============================================================================
