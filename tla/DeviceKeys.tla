------------------------------ MODULE DeviceKeys ------------------------------
(***************************************************************************)
(* The keys the Android shell keeps in its Keystore, each bound to the     *)
(* biometrics enrolled when it was made: the signing keys of the biometric *)
(* gate and the key of the media vault, with the files it seals and the    *)
(* catalog of them.  Calls wait at their prompt; biometrics may be         *)
(* enrolled and the process may end at any time.  A catalog changed by     *)
(* apply() reaches the disk later.                                         *)
(***************************************************************************)
EXTENDS Naturals

CONSTANTS KeyCalls,    \* calls at once
          Media,       \* identifiers of sealed media
          MaxEpochs,   \* times biometrics are enrolled anew
          MaxKeyEnds   \* ends of the process

VARIABLES epoch,      \* the biometrics enrolled
          key,        \* of each alias: its generation, 0 when absent, and its epoch
          session,    \* MediaVault.sessionUnlocked
          sealed,     \* of each file: the key that sealed it, 0 when absent
          catalog,    \* the media listed
          storedCat,  \* the catalog on disk
          original,   \* the original in the gallery: kept, asked for, wiped
          tasks,      \* the calls
          ends,
          answer,     \* the last signature answered: the key that made it, and the one named
          removed,    \* media the owner removed
          torn        \* media whose catalog entry an end of the process lost or brought back

keyVars == <<epoch, key, session, sealed, catalog, storedCat, original, tasks, ends,
             answer, removed, torn>>

Gate == {"auth", "master"}

Aliases == Gate \cup {"dek"}

NoMedia == "none"

Inactive == [op |-> "none", pc |-> "none", media |-> NoMedia, wipe |-> FALSE,
             gen |-> 0, pub |-> 0, made |-> 0]

AliasOf(op) == CASE op = "unlock" -> "auth" [] op = "sign" -> "master" [] OTHER -> "dek"

Leave(c) == tasks' = [tasks EXCEPT ![c] = Inactive]

KeepVault == UNCHANGED <<sealed, catalog, storedCat, original, removed, torn>>

KeepKeys == UNCHANGED <<epoch, key>>

Valid(alias) == key[alias].gen # 0 /\ key[alias].epoch = epoch

(* A generation is a key of its own, whatever alias it stands under.        *)
Made(alias) == [key EXCEPT ![alias] = [gen |-> @.gen + 1, epoch |-> epoch]]

-----------------------------------------------------------------------------
(* The calls of the gate and of MediaVault; requireUnlocked for the latter. *)
Ask(c) ==
  /\ tasks[c].op = "none"
  /\ \/ \E op \in {"unlock", "sign"} :
          tasks' = [tasks EXCEPT ![c] = [Inactive EXCEPT !.op = op, !.pc = "prepare"]]
     \/ /\ session
        /\ \E m \in Media, op \in {"import", "open", "remove"}, w \in BOOLEAN :
             /\ op = "import" => /\ sealed[m] = 0 /\ m \notin removed /\ original[m] = "kept"
                                 /\ \A o \in KeyCalls : tasks[o].media # m
             /\ op # "import" => m \in catalog /\ ~w
             /\ tasks' = [tasks EXCEPT ![c] = [Inactive EXCEPT !.op = op, !.pc = "prepare",
                                                               !.media = m, !.wipe = w]]
  /\ KeepKeys /\ KeepVault /\ UNCHANGED <<session, ends, answer>>

(* prepareCryptoObject: a missing or invalidated alias is made anew, and    *)
(* the signature and the public key are those of the new entry.             *)
PrepareSignature(c) ==
  LET a == AliasOf(tasks[c].op)
      new == IF Valid(a) THEN key ELSE Made(a)
  IN /\ tasks[c].pc = "prepare" /\ tasks[c].op \in {"unlock", "sign"}
     /\ key' = new
     /\ tasks' = [tasks EXCEPT ![c] = [@ EXCEPT !.pc = "prompt", !.gen = new[a].gen,
                                                !.pub = new[a].gen, !.made = new[a].epoch]]
     /\ KeepVault /\ UNCHANGED <<epoch, session, ends, answer>>

(* No Class 3 biometric, a cancelled prompt, or a key the prompt no longer  *)
(* unlocks.                                                                 *)
Rejected(c) ==
  /\ \/ tasks[c].pc = "prompt"
     \/ tasks[c].pc = "prepare" /\ tasks[c].op \in {"unlock", "sign"}
  /\ Leave(c)
  /\ KeepKeys /\ KeepVault /\ UNCHANGED <<session, ends, answer>>

(* The key a prompt unlocks is the one it was shown for, while it is valid. *)
Unlocks(c) == tasks[c].pc = "prompt" /\ tasks[c].made = epoch

(* authenticate through MediaVault.unlock, and signPayload.                 *)
Authenticated(c) ==
  /\ Unlocks(c) /\ tasks[c].op \in {"unlock", "sign"} /\ Leave(c)
  /\ session' = (session \/ tasks[c].op = "unlock")
  /\ answer' = [by |-> tasks[c].gen, named |-> tasks[c].pub]
  /\ KeepKeys /\ KeepVault /\ UNCHANGED ends

(* MediaVault.lock: calls past requireUnlocked go on.                       *)
LockVault ==
  /\ session /\ session' = FALSE
  /\ KeepKeys /\ KeepVault /\ UNCHANGED <<tasks, ends, answer>>

-----------------------------------------------------------------------------
(* As it would be if the vault treated its key as the gate does.            *)
EnsureKey_recreates == IF Valid("dek") THEN key ELSE Made("dek")

(* ensureKey: the key that is there, whether or not it is still valid.      *)
EnsureKey == IF key["dek"].gen = 0 THEN Made("dek") ELSE key

(* decrypt answers at once when there is nothing to open.                   *)
Missing(c) == tasks[c].op = "open" /\ (tasks[c].media \notin catalog \/ sealed[tasks[c].media] = 0)

(* authenticateForCipher, with a key that can be initialised.               *)
PrepareCipher(c) ==
  LET new == EnsureKey IN
  /\ tasks[c].pc = "prepare" /\ tasks[c].op \in {"import", "open"}
  /\ IF Missing(c) THEN Leave(c) /\ UNCHANGED key
     ELSE /\ new["dek"].epoch = epoch /\ key' = new
          /\ tasks' = [tasks EXCEPT ![c] = [@ EXCEPT !.pc = "prompt", !.gen = new["dek"].gen,
                                                     !.made = epoch]]
  /\ KeepVault /\ UNCHANGED <<epoch, session, ends, answer>>

(* As it would be if the original were given up before its copy is written. *)
Import_wipesFirst(c) ==
  LET r == tasks[c]  m == r.media IN
  /\ Unlocks(c) /\ r.op = "import" /\ Leave(c)
  /\ original' = IF r.wipe THEN [original EXCEPT ![m] = "asked"] ELSE original
  /\ \/ /\ sealed' = [sealed EXCEPT ![m] = r.gen]
        /\ catalog' = catalog \cup {m}
     \/ UNCHANGED <<sealed, catalog>>
  /\ UNCHANGED <<storedCat, removed, torn, session, ends, answer>> /\ KeepKeys

(* importMedia, its success handler: the file, the catalog, and only then   *)
(* the request to delete the original.  A file that cannot be written ends  *)
(* the call.                                                                *)
Import(c) ==
  LET r == tasks[c]  m == r.media IN
  /\ Unlocks(c) /\ r.op = "import" /\ Leave(c)
  /\ \/ /\ sealed' = [sealed EXCEPT ![m] = r.gen]
        /\ catalog' = catalog \cup {m}
        /\ original' = IF r.wipe THEN [original EXCEPT ![m] = "asked"] ELSE original
     \/ UNCHANGED <<sealed, catalog, original>>
  /\ UNCHANGED <<storedCat, removed, torn, session, ends, answer>> /\ KeepKeys

(* decrypt, its success handler; the envelope was read before the prompt.   *)
Open(c) ==
  /\ Unlocks(c) /\ tasks[c].op = "open" /\ Leave(c)
  /\ KeepKeys /\ KeepVault /\ UNCHANGED <<session, ends, answer>>

(* remove: the file, then the catalog; nobody is asked.                     *)
RemoveMedia(c) ==
  LET m == tasks[c].media IN
  /\ tasks[c].pc = "prepare" /\ tasks[c].op = "remove" /\ Leave(c)
  /\ sealed' = [sealed EXCEPT ![m] = 0]
  /\ catalog' = catalog \ {m}
  /\ removed' = removed \cup {m}
  /\ UNCHANGED <<storedCat, original, torn, session, ends, answer>> /\ KeepKeys

(* The person confirms the deletion of the original.                        *)
ConfirmWipe ==
  /\ \E m \in Media : original[m] = "asked" /\ original' = [original EXCEPT ![m] = "wiped"]
  /\ KeepKeys /\ UNCHANGED <<session, sealed, catalog, storedCat, tasks, ends, answer, removed,
                             torn>>

-----------------------------------------------------------------------------
(* A finger or a face is enrolled: every key made before is invalid.        *)
Enrol ==
  /\ epoch < MaxEpochs /\ epoch' = epoch + 1
  /\ KeepVault /\ UNCHANGED <<key, session, tasks, ends, answer>>

(* The catalog reaches the disk.                                            *)
FlushCatalog ==
  /\ storedCat # catalog /\ storedCat' = catalog
  /\ KeepKeys /\ UNCHANGED <<session, sealed, catalog, original, tasks, ends, answer, removed,
                             torn>>

ProcessEnds ==
  /\ ends < MaxKeyEnds /\ ends' = ends + 1
  /\ catalog' = storedCat
  /\ torn' = torn \cup ((catalog \ storedCat) \cup (storedCat \ catalog))
  /\ session' = FALSE /\ tasks' = [c \in KeyCalls |-> Inactive]
  /\ UNCHANGED <<sealed, storedCat, original, answer, removed>> /\ KeepKeys

(* cipher.init with an invalidated key throws where nothing catches it.     *)
CipherThrows ==
  /\ \E c \in KeyCalls :
       /\ tasks[c].pc = "prepare" /\ tasks[c].op \in {"import", "open"} /\ ~Missing(c)
       /\ EnsureKey["dek"].epoch # epoch
  /\ ProcessEnds

(* Something else ends it.                                                  *)
Killed == (session \/ \E c \in KeyCalls : tasks[c].op # "none") /\ ProcessEnds

KeysInit ==
  /\ epoch = 1 /\ key = [a \in Aliases |-> [gen |-> 0, epoch |-> 0]]
  /\ session = FALSE /\ ends = 0 /\ answer = [by |-> 0, named |-> 0]
  /\ sealed = [m \in Media |-> 0] /\ catalog = {} /\ storedCat = {}
  /\ original = [m \in Media |-> "kept"] /\ removed = {} /\ torn = {}
  /\ tasks = [c \in KeyCalls |-> Inactive]

KeysNext ==
  \/ \E c \in KeyCalls :
       \/ Ask(c) \/ PrepareSignature(c) \/ Rejected(c) \/ Authenticated(c)
       \/ PrepareCipher(c) \/ Import(c) \/ Open(c) \/ RemoveMedia(c)
  \/ LockVault \/ ConfirmWipe \/ Enrol \/ FlushCatalog \/ CipherThrows \/ Killed

KeysSpec == KeysInit /\ [][KeysNext]_keyVars

-----------------------------------------------------------------------------
(* A signature is answered with the public key it verifies under, also when *)
(* the entry was made anew during another prompt.                           *)
SignaturesVerify == answer.by = answer.named

(* Every file can be opened with the vault's key, as long as that is valid: *)
(* the key is never replaced under the files it sealed.                     *)
OneKeyForAllFiles == \A m \in Media : sealed[m] # 0 => sealed[m] = key["dek"].gen

(* What is listed has its file and the other way round, except for what an  *)
(* end of the process tore apart.                                           *)
FilesAreListed == \A m \in Media \ torn : sealed[m] # 0 <=> m \in catalog

(* The original is given up only once its sealed copy is there, and that    *)
(* stays until the owner removes it.                                        *)
OriginalsSurvive ==
  \A m \in Media : original[m] # "kept" => sealed[m] # 0 \/ m \in removed

MediaIsSafe ==
  SignaturesVerify /\ OneKeyForAllFiles /\ FilesAreListed /\ OriginalsSurvive
=============================================================================
