------------------------------ MODULE DeviceSync ------------------------------
(***************************************************************************)
(* Device sync (modules/device-sync/service.ts): the prekey bundle of one  *)
(* device, and the envelopes queued for it, in the data zone when it       *)
(* answers and in the local table otherwise.  One action is one database   *)
(* statement or one call of the data zone.                                 *)
(***************************************************************************)
EXTENDS Naturals, Sequences, FiniteSets

CONSTANTS SyncCalls, Envelopes,
          BundleSize,       \* one-time keys in a published bundle
          MaxPublications   \* bound: publications of the bundle

ASSUME DeviceSyncAssumption == BundleSize \in Nat \ {0} /\ MaxPublications \in Nat

VARIABLES prekeys,    \* oneTimePreKeysJson, <<>> before the first publication
          published,  \* how many bundles were published
          inbox,      \* where each envelope is: nowhere, zone or local, and whether it was consumed
          stale,      \* local envelopes past expiresAt
          syncCall,   \* what each call is doing
          handedOut,  \* history: one-time key and call of every fetch
          taken,      \* history: envelope and call of every consumption
          pairUp      \* history: pairs of calls in flight at once

syncVars == <<prekeys, published, inbox, stale, syncCall, handedOut, taken, pairUp>>

SyAt(c, pc) == syncCall[c].pc = pc
SyGoto(c, pc) == syncCall' = [syncCall EXCEPT ![c] = IF pc = "done" THEN [pc |-> pc] ELSE [@ EXCEPT !.pc = pc]]
KeepKeys == UNCHANGED <<prekeys, published, handedOut>>
KeepInbox == UNCHANGED <<inbox, stale, taken>>

\* A call starts, and is noted with every call it overlaps.
Enter(c, record) ==
  /\ SyAt(c, "idle") /\ syncCall' = [syncCall EXCEPT ![c] = record]
  /\ pairUp' = pairUp \cup {{c, o} : o \in {o \in SyncCalls : ~SyAt(o, "idle") /\ ~SyAt(o, "done")}}

-----------------------------------------------------------------------------
(* Prekeys: each publication brings fresh one-time keys. *)
FreshKeys == [i \in 1 .. BundleSize |-> published * BundleSize + i]

StartPublish(c) == Enter(c, [pc |-> "upsert"]) /\ KeepKeys /\ KeepInbox

PublishPrekeyBundle(c) ==
  /\ SyAt(c, "upsert") /\ SyGoto(c, "done") /\ published < MaxPublications
  /\ prekeys' = FreshKeys /\ published' = published + 1
  /\ KeepInbox /\ UNCHANGED <<handedOut, pairUp>>

ReadBundle(c) ==
  /\ published > 0 /\ Enter(c, IF prekeys = <<>> THEN [pc |-> "done"] ELSE [pc |-> "shift", keys |-> prekeys])
  /\ KeepKeys /\ KeepInbox

\* shift, and the rest of the list as it was read is written back.
ShiftPrekey_notWritten(c) ==
  /\ SyAt(c, "shift") /\ SyGoto(c, "done")
  /\ handedOut' = handedOut \cup {<<Head(syncCall[c].keys), c>>}
  /\ KeepInbox /\ UNCHANGED <<prekeys, published, pairUp>>

ShiftPrekey(c) ==
  /\ SyAt(c, "shift") /\ SyGoto(c, "done")
  /\ prekeys' = Tail(syncCall[c].keys)
  /\ handedOut' = handedOut \cup {<<Head(syncCall[c].keys), c>>}
  /\ KeepInbox /\ UNCHANGED <<published, pairUp>>

-----------------------------------------------------------------------------
(* Envelopes *)
StartQueue(c) ==
  \E e \in Envelopes :
    /\ inbox[e].at = "nowhere" /\ \A o \in SyncCalls : SyAt(o, "queue") => syncCall[o].env # e
    /\ Enter(c, [pc |-> "queue", env |-> e]) /\ KeepKeys /\ KeepInbox

\* The data zone takes it, or does not answer and the local table does.
QueueEnvelope(c) ==
  /\ SyAt(c, "queue") /\ SyGoto(c, "done")
  /\ \E place \in {"zone", "local"} : inbox' = [inbox EXCEPT ![syncCall[c].env].at = place]
  /\ KeepKeys /\ UNCHANGED <<stale, taken, pairUp>>

StartList(c) == Enter(c, [pc |-> "list"]) /\ KeepKeys /\ KeepInbox

\* listInbox only reads: the answer of the data zone hides the local table.
ListInbox(c) ==
  /\ SyAt(c, "list") /\ SyGoto(c, "done")
  /\ KeepKeys /\ KeepInbox /\ UNCHANGED pairUp

\* Only local envelopes can be consumed.
Open(e) == inbox[e].at = "local" /\ ~inbox[e].consumed /\ e \notin stale

FindEnvelope_consumedToo(c) ==
  \E e \in Envelopes :
    /\ Enter(c, IF inbox[e].at = "local" /\ e \notin stale THEN [pc |-> "consume", env |-> e] ELSE [pc |-> "done"])
    /\ KeepKeys /\ KeepInbox

FindEnvelope(c) ==
  \E e \in Envelopes :
    /\ inbox[e].at # "nowhere"
    /\ Enter(c, IF Open(e) THEN [pc |-> "consume", env |-> e] ELSE [pc |-> "done"])
    /\ KeepKeys /\ KeepInbox

ConsumeEnvelope(c) ==
  /\ SyAt(c, "consume") /\ SyGoto(c, "done")
  /\ inbox' = [inbox EXCEPT ![syncCall[c].env].consumed = TRUE]
  /\ taken' = taken \cup {<<syncCall[c].env, c>>}
  /\ KeepKeys /\ UNCHANGED <<stale, pairUp>>

EnvelopeExpires(e) ==
  /\ inbox[e].at = "local" /\ e \notin stale /\ stale' = stale \cup {e}
  /\ KeepKeys /\ UNCHANGED <<inbox, taken, syncCall, pairUp>>

-----------------------------------------------------------------------------
SyncInit ==
  /\ prekeys = <<>> /\ published = 0
  /\ inbox = [e \in Envelopes |-> [at |-> "nowhere", consumed |-> FALSE]] /\ stale = {}
  /\ syncCall = [c \in SyncCalls |-> [pc |-> "idle"]]
  /\ handedOut = {} /\ taken = {} /\ pairUp = {}

SyncNext ==
  \/ \E e \in Envelopes : EnvelopeExpires(e)
  \/ \E c \in SyncCalls :
       \/ StartPublish(c) \/ PublishPrekeyBundle(c) \/ ReadBundle(c) \/ ShiftPrekey(c)
       \/ StartQueue(c) \/ QueueEnvelope(c) \/ StartList(c) \/ ListInbox(c)
       \/ FindEnvelope(c) \/ ConsumeEnvelope(c)

SyncSpec == SyncInit /\ [][SyncNext]_syncVars

-----------------------------------------------------------------------------
(* A one-time prekey is handed to one caller, and an envelope consumed by   *)
(* one, as long as the calls do not overlap: fetchPrekeyBundle writes the   *)
(* list it read back whole, consumeEnvelope updates by id, so two fetches,  *)
(* a fetch among others, or two consumptions at once can share one.         *)
OneTimeUse ==
  /\ \A a, b \in handedOut : a[1] = b[1] /\ a[2] # b[2] => \E pair \in pairUp : pair \cap {a[2], b[2]} # {}
  /\ \A a, b \in taken : a[1] = b[1] /\ a[2] # b[2] => {a[2], b[2]} \in pairUp
=============================================================================
