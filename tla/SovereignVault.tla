--------------------------- MODULE SovereignVault ---------------------------
(***************************************************************************)
(* The Sovereign Vault of the web app: the key of a DAK session, assets    *)
(* encrypted chunk by chunk with it, the copy of them in IndexedDB, the    *)
(* dashboard, its media viewer, the overlay that guards the route and the  *)
(* duress lock.  Calls of one page interleave at their awaits; a call of a *)
(* page that was left goes on.  vault.ts hands over no native bridge, so   *)
(* the key is made in the page and is gone once it is locked.              *)
(***************************************************************************)
EXTENDS Naturals, Sequences

CONSTANTS VaultCalls,  \* calls at once
          Assets,      \* identifiers of assets
          MaxKeys,     \* keys made
          MaxPages     \* times the page is opened

VARIABLES dak,       \* the session's key, 0 when locked
          made,      \* keys made so far
          files,     \* the assets in memory: the key of each chunk
          disk,      \* the assets in IndexedDB
          hydrate,   \* what the start of the page read from IndexedDB
          doing,     \* the calls
          screen,    \* what the page shows
          policy,    \* whether the route is locked, and the grace after a check
          duress,    \* DuressHandler: decoy mode
          pages,
          erased,    \* assets whose deletion was reported
          excused,   \* of those, the ones an overlap or a failure may bring back
          late       \* an unlock was under way at the last lock of a duress

vaultVars == <<dak, made, files, disk, hydrate, doing, screen, policy, duress,
               pages, erased, excused, late>>

Chunks == 2

NoAsset == <<>>

None0 == "none"

Dashboard == {"import", "remove", "test", "duress"}

Viewer == {"play", "reauth"}

Idle == [op |-> "idle", pc |-> "idle", asset |-> None0, keys |-> NoAsset, mine |-> FALSE]

(* Steps of a call that hold an unlock not yet written back.                *)
Unlocking == {"prompt", "make"}

Busy(ops) == \E c \in VaultCalls : doing[c].mine /\ doing[c].op \in ops

(* The dashboard itself: neither the gate of the route nor the decoy.       *)
Open == screen.gate = "granted" /\ ~screen.decoy

KeepSession == UNCHANGED <<dak, made>>

KeepFiles == UNCHANGED <<files, disk, hydrate, erased, excused>>

KeepPage == UNCHANGED <<screen, policy, duress, pages, late>>

Begin(c, ops, r) ==
  /\ doing[c].op = "idle" /\ ~Busy(ops)
  /\ doing' = [doing EXCEPT ![c] = r]

Call(op, pc, a) == [op |-> op, pc |-> pc, asset |-> a, keys |-> NoAsset, mine |-> TRUE]

Goto(c, pc) == doing' = [doing EXCEPT ![c].pc = pc]

End(c) == doing' = [doing EXCEPT ![c] = Idle]

(* DakSession.lock, which any handler calls.                                *)
Locked == dak' = 0 /\ UNCHANGED made

(* Where a call goes when the session is, or becomes, unlocked.             *)
Next0(op) ==
  CASE op = "import" -> "encrypt"
    [] op = "remove" -> "drop"
    [] op \in Viewer -> "stream"
    [] op = "guard"  -> "confirm"
    [] op = "test"   -> "end"

Resume(c) == IF doing[c].op = "test" THEN End(c) ELSE Goto(c, Next0(doing[c].op))

EntryOf(op) == IF dak = 0 THEN "prompt" ELSE Next0(op)

-----------------------------------------------------------------------------
(* DakSession.unlock: the person confirms, or the call ends in an error.    *)
Refuse(c) ==
  /\ doing[c].pc \in {"prompt", "confirm"} /\ End(c)
  /\ screen' = IF doing[c].op = "guard" /\ doing[c].mine
               THEN [screen EXCEPT !.gate = "blocked"] ELSE screen
  /\ UNCHANGED <<policy, duress, pages, late>> /\ KeepSession /\ KeepFiles

(* A session that has its key keeps it.                                     *)
Confirm(c) ==
  /\ doing[c].pc = "prompt"
  /\ IF dak = 0 THEN Goto(c, "make") ELSE Resume(c)
  /\ KeepSession /\ KeepFiles /\ KeepPage

(* The key is made and exported in two awaits, then set.                    *)
NewVaultKey(c) ==
  /\ doing[c].pc = "make" /\ made < MaxKeys
  /\ made' = made + 1 /\ dak' = made + 1
  /\ Resume(c) /\ KeepFiles /\ KeepPage

-----------------------------------------------------------------------------
(* onImport, for one file under a new identifier.                           *)
StartImport(c) ==
  /\ Open
  /\ \E a \in Assets :
       /\ files[a] = NoAsset /\ disk[a] = NoAsset /\ a \notin erased
       /\ \A o \in VaultCalls : doing[o].asset # a
       /\ Begin(c, Dashboard, Call("import", EntryOf("import"), a))
  /\ KeepSession /\ KeepFiles /\ KeepPage

(* encryptAsset: the key of each chunk is derived when its turn comes.      *)
EncryptChunk(c) ==
  LET keys == Append(doing[c].keys, dak) IN
  /\ doing[c].pc = "encrypt"
  /\ doing' = [doing EXCEPT ![c] =
                 IF dak = 0 THEN Idle
                 ELSE [@ EXCEPT !.keys = keys, !.pc = IF Len(keys) = Chunks THEN "store" ELSE "encrypt"]]
  /\ KeepSession /\ KeepFiles /\ KeepPage

(* Into memory, then persistEsfsAsset on the way to IndexedDB.              *)
StoreAsset(c) ==
  /\ doing[c].pc = "store"
  /\ files' = [files EXCEPT ![doing[c].asset] = doing[c].keys]
  /\ Goto(c, "persist")
  /\ UNCHANGED <<disk, hydrate, erased, excused>> /\ KeepSession /\ KeepPage

(* saveEsfsAsset: manifest and chunks in one transaction, or an error that  *)
(* leaves the asset in memory alone.                                        *)
PersistAsset(c) ==
  LET a == doing[c].asset IN
  /\ doing[c].pc = "persist" /\ End(c)
  /\ \/ /\ disk' = [disk EXCEPT ![a] = doing[c].keys]
        /\ screen' = IF doing[c].mine THEN [screen EXCEPT !.selected = a] ELSE screen
     \/ UNCHANGED <<disk, screen>>
  /\ UNCHANGED <<files, hydrate, erased, excused, policy, duress, pages, late>> /\ KeepSession

(* onRemoveAsset.                                                           *)
StartRemove(c) ==
  /\ Open
  /\ \E a \in Assets :
       /\ files[a] # NoAsset
       /\ Begin(c, Dashboard, Call("remove", EntryOf("remove"), a))
  /\ KeepSession /\ KeepFiles /\ KeepPage

(* removeEsfsAsset: from memory at once.                                    *)
DropAsset(c) ==
  /\ doing[c].pc = "drop"
  /\ files' = [files EXCEPT ![doing[c].asset] = NoAsset]
  /\ Goto(c, "delete")
  /\ UNCHANGED <<disk, hydrate, erased, excused>> /\ KeepSession /\ KeepPage

(* An import left behind by an older page may still write the asset, and a  *)
(* start that has read it may still load it, or has.                        *)
ComesBack(c, a) ==
  \/ files[a] # NoAsset
  \/ hydrate.pc = "load" /\ hydrate.read[a] # NoAsset
  \/ \E o \in VaultCalls \ {c} : doing[o].asset = a /\ doing[o].pc = "persist"

(* As it would be if only the memory were cleared.                          *)
DeleteAsset_memoryOnly(c) ==
  LET a == doing[c].asset IN
  /\ doing[c].pc = "delete" /\ End(c)
  /\ erased' = erased \cup {a}
  /\ excused' = IF ComesBack(c, a) THEN excused \cup {a} ELSE excused
  /\ screen' = IF doing[c].mine /\ screen.selected = a
               THEN [screen EXCEPT !.selected = None0, !.media = None0] ELSE screen
  /\ UNCHANGED <<disk, files, hydrate, policy, duress, pages, late>> /\ KeepSession

(* deleteEsfsAsset: from IndexedDB, or an error is shown and the asset is   *)
(* back with the next page.  The viewer of the asset is closed.             *)
DeleteAsset(c) ==
  LET a == doing[c].asset IN
  /\ doing[c].pc = "delete" /\ End(c)
  /\ \/ /\ disk' = [disk EXCEPT ![a] = NoAsset]
        /\ erased' = erased \cup {a}
        /\ excused' = IF ComesBack(c, a) THEN excused \cup {a} ELSE excused
        /\ screen' = IF doing[c].mine /\ screen.selected = a
                     THEN [screen EXCEPT !.selected = None0, !.media = None0] ELSE screen
     \/ UNCHANGED <<disk, erased, excused, screen>>
  /\ UNCHANGED <<files, hydrate, policy, duress, pages, late>> /\ KeepSession

(* hydrateEsfsFromIndexedDb, which nobody waits for.                        *)
ReadAll ==
  /\ hydrate.pc = "read"
  /\ \/ hydrate' = [pc |-> "load", read |-> disk]
     \/ hydrate' = [hydrate EXCEPT !.pc = "done"]
  /\ UNCHANGED <<doing, files, disk, erased, excused>> /\ KeepSession /\ KeepPage

LoadAll ==
  /\ hydrate.pc = "load"
  /\ files' = [a \in Assets |-> IF hydrate.read[a] # NoAsset THEN hydrate.read[a] ELSE files[a]]
  /\ hydrate' = [pc |-> "done", read |-> [a \in Assets |-> NoAsset]]
  /\ UNCHANGED <<doing, disk, erased, excused>> /\ KeepSession /\ KeepPage

-----------------------------------------------------------------------------
(* View selects the asset the viewer is mounted for.                        *)
View ==
  /\ Open /\ ~Busy(Dashboard)
  /\ \E a \in Assets : files[a] # NoAsset /\ screen' = [screen EXCEPT !.selected = a]
  /\ UNCHANGED <<doing, policy, duress, pages, late>> /\ KeepSession /\ KeepFiles

(* unlockAndStream.                                                         *)
Play(c) ==
  /\ Open /\ screen.selected # None0 /\ screen.media = None0
  /\ Begin(c, Viewer, Call("play", EntryOf("play"), screen.selected))
  /\ KeepSession /\ KeepFiles /\ KeepPage

(* reauthAndRefresh locks the session, asks, and unlocks it anew.           *)
Reauth(c) ==
  /\ Open /\ screen.selected # None0 /\ screen.media # None0
  /\ Begin(c, Viewer, Call("reauth", "confirm", screen.selected))
  /\ screen' = [screen EXCEPT !.media = None0]
  /\ Locked /\ UNCHANGED <<policy, duress, pages, late>> /\ KeepFiles

(* The first of its two prompts; the second is that of unlock.              *)
Reconfirm(c) ==
  /\ doing[c].pc = "confirm" /\ doing[c].op = "reauth" /\ Goto(c, "prompt")
  /\ KeepSession /\ KeepFiles /\ KeepPage

(* decryptChunkStream takes the records it starts with.                     *)
OpenStream(c) ==
  LET records == files[doing[c].asset] IN
  /\ doing[c].pc = "stream"
  /\ doing' = [doing EXCEPT ![c] =
                 IF records = NoAsset THEN Idle ELSE [@ EXCEPT !.pc = "chunks", !.keys = records]]
  /\ KeepSession /\ KeepFiles /\ KeepPage

(* A chunk opens with the key it was sealed with and no other.              *)
DecryptChunk(c) ==
  LET r == doing[c]  opens == dak = Head(r.keys) IN
  /\ r.pc = "chunks"
  /\ doing' = [doing EXCEPT ![c] = IF opens /\ Len(r.keys) > 1
                                   THEN [@ EXCEPT !.keys = Tail(r.keys)] ELSE Idle]
  /\ screen' = IF opens /\ Len(r.keys) = 1 /\ r.mine /\ screen.selected # None0
               THEN [screen EXCEPT !.media = r.asset] ELSE screen
  /\ UNCHANGED <<policy, duress, pages, late>> /\ KeepSession /\ KeepFiles

-----------------------------------------------------------------------------
(* testStepUp: the risk of viewing an encrypted video always asks.          *)
TestStepUp(c) ==
  /\ Open /\ Begin(c, Dashboard, Call("test", "prompt", None0))
  /\ KeepSession /\ KeepFiles /\ KeepPage

(* The Lock DAK button, disabled like the others while the page is busy;    *)
(* the calls of the viewer and of an earlier visit do not disable it.       *)
LockButton ==
  /\ Open /\ ~Busy(Dashboard) /\ dak # 0 /\ Locked
  /\ UNCHANGED doing /\ KeepFiles /\ KeepPage

(* saveConfig with the route added or the policy switched.                  *)
SwitchPolicy ==
  /\ Open /\ ~Busy(Dashboard)
  /\ policy' = [policy EXCEPT !.protected = ~@]
  /\ UNCHANGED <<doing, screen, duress, pages, late>> /\ KeepSession /\ KeepFiles

(* handleDuress: locked and in decoy mode before the alert is sent; the     *)
(* list is saved switched on, which locks the route if the list names it.   *)
StartDuress(c) ==
  /\ Open /\ Begin(c, Dashboard, Call("duress", "alert", None0))
  /\ Locked /\ duress' = TRUE
  /\ policy' \in {policy, [policy EXCEPT !.protected = TRUE]}
  /\ UNCHANGED <<screen, pages, late>> /\ KeepFiles

(* As it would be if simulateDuress relied on the first lock.               *)
EndDuress_lockedOnce(c) ==
  /\ doing[c].pc = "alert" /\ End(c)
  /\ screen' = IF doing[c].mine THEN [screen EXCEPT !.decoy = TRUE, !.selected = None0,
                                                    !.media = None0] ELSE screen
  /\ late' = \E o \in VaultCalls \ {c} : doing[o].pc \in Unlocking
  /\ UNCHANGED <<policy, duress, pages>> /\ KeepSession /\ KeepFiles

(* The alert was sent, or timed out: simulateDuress locks once more and the *)
(* decoy replaces the page.                                                 *)
EndDuress(c) ==
  /\ doing[c].pc = "alert" /\ End(c)
  /\ Locked
  /\ screen' = IF doing[c].mine THEN [screen EXCEPT !.decoy = TRUE, !.selected = None0,
                                                    !.media = None0] ELSE screen
  /\ late' = \E o \in VaultCalls \ {c} : doing[o].pc \in Unlocking \cup {"confirm"}
  /\ UNCHANGED <<policy, duress, pages>> /\ KeepFiles

-----------------------------------------------------------------------------
(* assertRouteAccess, at mount and on retry: a locked route outside the     *)
(* grace asks twice, once to step up and once for itself.                   *)
AssertAccess(c) ==
  /\ ~screen.decoy /\ screen.gate \in {"checking", "blocked"} /\ ~Busy({"guard"})
  /\ IF policy.protected /\ ~policy.grace
     THEN Begin(c, {"guard"}, Call("guard", "prompt", None0)) /\ UNCHANGED screen
     ELSE doing[c].op = "idle" /\ UNCHANGED doing /\ screen' = [screen EXCEPT !.gate = "granted"]
  /\ UNCHANGED <<policy, duress, pages, late>> /\ KeepSession /\ KeepFiles

GrantAccess(c) ==
  /\ doing[c].pc = "confirm" /\ doing[c].op = "guard" /\ End(c)
  /\ policy' = [policy EXCEPT !.grace = TRUE]
  /\ screen' = IF doing[c].mine THEN [screen EXCEPT !.gate = "granted"] ELSE screen
  /\ UNCHANGED <<duress, pages, late>> /\ KeepSession /\ KeepFiles

GraceEnds ==
  /\ policy.grace /\ policy' = [policy EXCEPT !.grace = FALSE]
  /\ UNCHANGED <<doing, screen, duress, pages, late>> /\ KeepSession /\ KeepFiles

NewScreen(decoy) == [gate |-> "checking", decoy |-> decoy, selected |-> None0, media |-> None0]

(* The person leaves the page and comes back: the vault is a singleton, and *)
(* the calls of the page that was left go on.                               *)
Revisit ==
  /\ pages < MaxPages /\ pages' = pages + 1
  /\ screen' = NewScreen(duress)
  /\ doing' = [c \in VaultCalls |-> [doing[c] EXCEPT !.mine = FALSE]]
  /\ late' = (late \/ (duress /\ (dak # 0 \/ \E c \in VaultCalls : doing[c].pc # "idle")))
  /\ UNCHANGED <<policy, duress>> /\ KeepSession /\ KeepFiles

(* The document is loaded anew: what was in memory is gone.                 *)
Reload ==
  /\ pages < MaxPages /\ pages' = pages + 1
  /\ screen' = NewScreen(FALSE) /\ duress' = FALSE /\ late' = FALSE
  /\ doing' = [c \in VaultCalls |-> Idle]
  /\ dak' = 0
  /\ files' = [a \in Assets |-> NoAsset]
  /\ hydrate' = [pc |-> "read", read |-> [a \in Assets |-> NoAsset]]
  /\ policy' = [policy EXCEPT !.grace = FALSE]
  /\ UNCHANGED <<made, disk, erased, excused>>

VaultInit ==
  /\ dak = 0 /\ made = 0 /\ duress = FALSE /\ late = FALSE /\ pages = 1
  /\ files = [a \in Assets |-> NoAsset] /\ disk = files
  /\ hydrate = [pc |-> "read", read |-> files]
  /\ doing = [c \in VaultCalls |-> Idle]
  /\ screen = NewScreen(FALSE)
  /\ policy \in [protected : BOOLEAN, grace : {FALSE}]
  /\ erased = {} /\ excused = {}

VaultStep(c) ==
  \/ Refuse(c) \/ Confirm(c) \/ NewVaultKey(c)
  \/ StartImport(c) \/ EncryptChunk(c) \/ StoreAsset(c) \/ PersistAsset(c)
  \/ StartRemove(c) \/ DropAsset(c) \/ DeleteAsset(c)
  \/ Play(c) \/ Reauth(c) \/ Reconfirm(c) \/ OpenStream(c) \/ DecryptChunk(c)
  \/ TestStepUp(c) \/ StartDuress(c) \/ EndDuress(c)
  \/ AssertAccess(c) \/ GrantAccess(c)

VaultNext ==
  \/ \E c \in VaultCalls : VaultStep(c)
  \/ ReadAll \/ LoadAll \/ View \/ LockButton \/ SwitchPolicy \/ GraceEnds
  \/ Revisit \/ Reload

VaultSpec == VaultInit /\ [][VaultNext]_vaultVars

-----------------------------------------------------------------------------
(* The decoy hides a locked vault: simulateDuress locks before the alert    *)
(* and again after it, so the key is there behind the decoy only if an      *)
(* unlock was already on its way at the second lock.                        *)
DecoyIsLocked == screen.decoy /\ dak # 0 => late

(* A deleted asset is gone from memory and from IndexedDB: it comes back    *)
(* only through a start that had read it, or an import left behind that     *)
(* still wrote it.                                                          *)
ErasedStaysErased ==
  \A a \in erased \ excused : files[a] = NoAsset /\ disk[a] = NoAsset

VaultIsSound == DecoyIsLocked /\ ErasedStaysErased

(* The viewer streams decrypted media after a local re-authentication.      *)
ReauthStreams ==
  [][\A c \in VaultCalls :
       /\ doing[c].op = "reauth" /\ doing[c].pc = "chunks" /\ doing[c].mine /\ dak # 0
       /\ doing'[c].pc = "idle" /\ screen'.gate = "granted"
       => screen'.media = doing[c].asset]_vaultVars
=============================================================================
