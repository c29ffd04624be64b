--------------------------- MODULE AssetDelivery ---------------------------
(***************************************************************************)
(* How a page gets one biometric binary (capture/biometric: the delivery,  *)
(* its cache, the resumable download): from the cache, from the installed  *)
(* app, or in ranges from the asset bases, in order.  Loads of a page      *)
(* share the half-finished downloads of a URL; the ranges that were        *)
(* written to Cache Storage survive a reload and are found by path, so     *)
(* they are shared by the bases too.                                       *)
(*                                                                         *)
(* A step runs from one await to the next.  A file is a few cells; a byte  *)
(* is the version of the file it is from and its place there.  Gzip is     *)
(* left out but for its failure, and so are progress, retries of one       *)
(* range, and the pruning of other releases.                               *)
(***************************************************************************)
EXTENDS Naturals, FiniteSets, SequencesExt, FiniteSetsExt

CONSTANTS Loads,        \* calls of loadBiometricAsset
          Bases,        \* number of asset bases, tried in order
          Size,         \* cells of the pinned file
          MaxRange,     \* the most cells one range asks for
          MaxReloads,   \* bound
          MaxReplaced   \* bound: files replaced on a base, app installs, cache damage

\* A pinned file has two cells at least, so that the short one is not empty.
ASSUME AssetAssumption ==
  /\ Bases \in Nat \ {0} /\ Size \in Nat \ {0, 1} /\ MaxRange \in Nat

VARIABLES base,       \* what each base serves
          bundle,     \* what the installed app holds, and for which installation
          verifiedFor,\* installations whose bundle passed the check
          cached,     \* the entry of BIOMETRIC_ASSET_CACHE
          stored,     \* BIOMETRIC_PARTIAL_CACHE: ranges of this path
          entry,      \* partialDownloads: the partial of each base's URL
          partials,   \* the PartialDownload objects, named by who made them for which base
          load,       \* the state of each call
          reloads, replaced,
          shared      \* history: a load took over a partial that another was still filling

assetVars == <<base, bundle, verifiedFor, cached, stored, entry, partials, load, reloads, replaced, shared>>

\* "other" is as long as the pinned file, "short" is not.
FileVersions == {"right", "other", "short"}

TotalOf(v) == IF v = "short" THEN Size - 1 ELSE Size

FileOf(v) == [i \in 1..TotalOf(v) |-> [of |-> v, at |-> i]]

Right == FileOf("right")

Gap == [of |-> "none", at |-> 0]

NoPartial == [total |-> 0, out |-> <<>>, offset |-> 0]

NoEntry == <<"none", 0>>

UnusedLoad == [pc |-> "unused", b |-> 1, obj |-> NoEntry, from |-> 0, upto |-> 0,
               pending |-> {}, raw |-> <<>>, then |-> "none"]

LoadAt(l, pc) == load[l].pc = pc

LoadGoto(l, pc) == load' = [load EXCEPT ![l].pc = pc]

(* A load that has ended leaves its answer and the writes still under way.  *)
LoadEnded(r, pc, raw) == [UnusedLoad EXCEPT !.pc = pc, !.raw = raw, !.pending = r.pending]

Partial(l) == partials[load[l].obj]

KeepDelivery == UNCHANGED <<base, bundle, verifiedFor, cached, reloads, replaced>>

KeepDownloads == UNCHANGED <<stored, entry, partials, shared>>

-----------------------------------------------------------------------------
StartLoad(l) == LoadAt(l, "unused") /\ LoadGoto(l, "cache") /\ KeepDelivery /\ KeepDownloads

(* fromCache: what no longer hashes to the pinned value is dropped.         *)
FromCache(l) ==
  /\ LoadAt(l, "cache")
  /\ load' = [load EXCEPT ![l] = IF cached = Right THEN LoadEnded(@, "done", cached)
                                 ELSE [@ EXCEPT !.pc = "bundle"]]
  /\ cached' = IF cached = Right THEN cached ELSE <<>>
  /\ UNCHANGED <<base, bundle, verifiedFor, reloads, replaced>> /\ KeepDownloads

(* As it would be if verdicts were remembered without the installation.     *)
FromAppBundle_anyInstall(l) ==
  LET trusted == verifiedFor # {} /\ Len(bundle.file) = Size
      accepts == trusted \/ bundle.file = Right IN
  /\ LoadAt(l, "bundle")
  /\ load' = [load EXCEPT ![l] = IF accepts THEN LoadEnded(@, "done", bundle.file)
                                 ELSE [@ EXCEPT !.pc = "begin"]]
  /\ verifiedFor' = IF accepts THEN {bundle.install} ELSE verifiedFor
  /\ UNCHANGED <<base, bundle, cached, reloads, replaced>> /\ KeepDownloads

(* fromAppBundle: once its bytes passed for this installation only their    *)
(* length is looked at.                                                     *)
FromAppBundle(l) ==
  LET trusted == bundle.install \in verifiedFor /\ Len(bundle.file) = Size
      accepts == trusted \/ bundle.file = Right IN
  /\ LoadAt(l, "bundle")
  /\ load' = [load EXCEPT ![l] = IF accepts THEN LoadEnded(@, "done", bundle.file)
                                 ELSE [@ EXCEPT !.pc = "begin"]]
  /\ verifiedFor' = IF accepts THEN {bundle.install} ELSE verifiedFor
  /\ UNCHANGED <<base, bundle, cached, reloads, replaced>> /\ KeepDownloads

-----------------------------------------------------------------------------
(* The range asked for next; its size follows the link's speed.             *)
Ask(r, part) ==
  {[r EXCEPT !.pc = "range", !.from = part.offset + 1, !.upto = Min({part.total, part.offset + n})] :
     n \in 1..MaxRange}

(* The loop of downloadModelBytes: another range, or the file is whole and  *)
(* its partial is given up, and gone when no other load holds it.           *)
GoOn(l, r, part) ==
  IF part.offset < part.total
  THEN /\ \E next \in Ask(r, part) : load' = [load EXCEPT ![l] = next]
       /\ partials' = [partials EXCEPT ![r.obj] = part]
       /\ UNCHANGED entry
  ELSE /\ load' = [load EXCEPT ![l] = [LoadEnded(r, "clear", part.out) EXCEPT !.b = r.b, !.then = "verify"]]
       /\ partials' = [partials EXCEPT ![r.obj] =
            IF \E o \in Loads \ {l} : load[o].obj = r.obj THEN part ELSE NoPartial]
       /\ entry' = [entry EXCEPT ![r.b] = NoEntry]

(* downloadModelBytes: the partial this page has for the URL.               *)
BeginDownload(l) ==
  LET known == entry[load[l].b] IN
  /\ LoadAt(l, "begin")
  /\ IF known = NoEntry
     THEN LoadGoto(l, "restore") /\ UNCHANGED <<entry, partials, shared>>
     ELSE /\ GoOn(l, [load[l] EXCEPT !.obj = known], partials[known])
          /\ shared' = (shared \/ \E o \in Loads \ {l} : LoadAt(o, "range") /\ load[o].obj = known)
  /\ UNCHANGED stored /\ KeepDelivery

(* As it would be if a run could begin past the first byte.                 *)
IsRun_anyStart(s, n) ==
  \A i \in 1..n :
    /\ s[i].total = s[1].total /\ s[i].start + Len(s[i].bytes) <= s[1].total
    /\ i > 1 => s[i].start = s[i - 1].start + Len(s[i - 1].bytes)

(* cacheStoragePartialStore.load, for one order of the entries: a run from  *)
(* the first byte whose entries agree on the total.                         *)
IsRun(s, n) ==
  \A i \in 1..n :
    /\ s[i].total = s[1].total /\ s[i].start + Len(s[i].bytes) <= s[1].total
    /\ s[i].start = IF i = 1 THEN 0 ELSE s[i - 1].start + Len(s[i - 1].bytes)

ByStart == {s \in SetToSeqs(stored) : \A i \in 1..(Len(s) - 1) : s[i].start <= s[i + 1].start}

IsLongestRun(s, n) == IsRun(s, n) /\ (n < Len(s) => ~IsRun(s, n + 1))

(* The entries of a run, put one after the other from the first.            *)
EndOf(range) == range.start + Len(range.bytes)

Holds(s, k, i) == i + s[1].start \in s[k].start + 1 .. EndOf(s[k])

RunOf(s, n) ==
  [i \in 1..(EndOf(s[n]) - s[1].start) |->
     LET k == CHOOSE k \in 1..n : Holds(s, k, i) IN s[k].bytes[i + s[1].start - s[k].start]]

(* A partial that begins with these bytes.                                  *)
Received(bytes, total) ==
  [total |-> total, offset |-> Len(bytes),
   out |-> [i \in 1..total |-> IF i <= Len(bytes) THEN bytes[i] ELSE Gap]]

(* restoreFromStore: nothing, everything, or an error is as good as nothing.*)
RestorePartial(l) ==
  LET r == load[l]  me == <<l, r.b>> IN
  /\ LoadAt(l, "restore")
  /\ \/ \E s \in ByStart : \E n \in 1..Len(s) :
          LET run == RunOf(s, n)
              part == Received(run, s[1].total)
          IN  /\ IsLongestRun(s, n) /\ part.offset < part.total
              /\ partials' = [partials EXCEPT ![me] = part]
              /\ entry' = [entry EXCEPT ![r.b] = me]
              /\ \E next \in Ask([r EXCEPT !.obj = me], part) : load' = [load EXCEPT ![l] = next]
     \/ /\ \E n \in 1..MaxRange : load' = [load EXCEPT ![l] = [@ EXCEPT !.pc = "first", !.upto = n]]
        /\ UNCHANGED <<entry, partials>>
  /\ UNCHANGED <<stored, shared>> /\ KeepDelivery

(* Cells of the range as the base serves them now; servers clamp its end.   *)
RangeServed(l, from) ==
  LET v == base[load[l].b] IN SubSeq(FileOf(v), from, Min({load[l].upto, TotalOf(v)}))

RangeSaved(l, start, bytes, total) ==
  load[l].pending \cup {[of |-> load[l].b, range |-> [start |-> start, bytes |-> bytes, total |-> total]]}

FirstRangeArrives(l) ==
  LET r == load[l]  me == <<l, r.b>>  v == base[r.b]
      bytes == RangeServed(l, 1)
      part == Received(bytes, TotalOf(v)) IN
  /\ LoadAt(l, "first")
  /\ IF part.offset < part.total
     THEN /\ entry' = [entry EXCEPT ![r.b] = me]
          /\ partials' = [partials EXCEPT ![me] = part]
          /\ \E next \in Ask([r EXCEPT !.obj = me, !.pending = RangeSaved(l, 0, bytes, part.total)], part) :
               load' = [load EXCEPT ![l] = next]
     ELSE GoOn(l, [r EXCEPT !.obj = me, !.pending = RangeSaved(l, 0, bytes, part.total)], part)
  /\ UNCHANGED <<stored, shared>> /\ KeepDelivery

(* A server that ignores Range answers the first with the whole file.       *)
WholeFileArrives(l) ==
  /\ LoadAt(l, "first")
  /\ load' = [load EXCEPT ![l] = [@ EXCEPT !.pc = "verify", !.raw = FileOf(base[load[l].b])]]
  /\ KeepDownloads /\ KeepDelivery

(* The next base, or the load fails.                                        *)
Beyond(r) ==
  IF r.b = Bases THEN LoadEnded(r, "failed", <<>>)
  ELSE [LoadEnded(r, "begin", <<>>) EXCEPT !.b = r.b + 1]

(* The bytes are put where the partial ends by now, whichever range was     *)
(* asked for; a range that does not fit throws, a file whose size changed   *)
(* starts over.                                                             *)
RangeArrives(l) ==
  LET r == load[l]  part == Partial(l)  bytes == RangeServed(l, r.from)
      filled == [part EXCEPT !.offset = @ + Len(bytes),
                             !.out = [i \in 1..part.total |->
                                        IF i \in part.offset + 1 .. part.offset + Len(bytes)
                                        THEN bytes[i - part.offset] ELSE @[i]]]
  IN
  /\ LoadAt(l, "range") /\ r.from <= TotalOf(base[r.b])
  /\ IF TotalOf(base[r.b]) # part.total
     THEN /\ load' = [load EXCEPT ![l] = [@ EXCEPT !.pc = "clear", !.then = "next"]]
          /\ entry' = [entry EXCEPT ![r.b] = NoEntry]
          /\ UNCHANGED partials
     ELSE IF filled.offset > part.total
     THEN load' = [load EXCEPT ![l] = Beyond(@)] /\ UNCHANGED <<entry, partials>>
     ELSE GoOn(l, [r EXCEPT !.pending = RangeSaved(l, part.offset, bytes, part.total)], filled)
  /\ UNCHANGED <<stored, shared>> /\ KeepDelivery

(* No file, a page instead of one, an error, a stall, a dropped connection, *)
(* four times over: what has been received stays for a later attempt.       *)
RangeFails(l) ==
  /\ LoadAt(l, "first") \/ LoadAt(l, "range")
  /\ load' = [load EXCEPT ![l] = Beyond(@)]
  /\ KeepDownloads /\ KeepDelivery

(* rangeWriter: a write lands or fails while the next range is fetched.     *)
RangeWritten(l) ==
  \E w \in load[l].pending :
    /\ load' = [load EXCEPT ![l].pending = @ \ {w}]
    /\ \/ stored' = {s \in stored : s.start # w.range.start \/ s.total # w.range.total} \cup {w.range}
       \/ UNCHANGED stored
    /\ UNCHANGED <<entry, partials, shared>> /\ KeepDelivery

(* clear waits for this download's own writes, and may itself fail.         *)
ClearRanges(l) ==
  /\ LoadAt(l, "clear") /\ \A w \in load[l].pending : w.of # load[l].b
  /\ stored' = {} \/ UNCHANGED stored
  /\ load' = [load EXCEPT ![l] = IF @.then = "verify" THEN [@ EXCEPT !.pc = "verify"] ELSE Beyond(@)]
  /\ UNCHANGED <<entry, partials, shared>> /\ KeepDelivery

(* fromNetwork after the transfer.                                          *)
VerifyFile(l) ==
  /\ LoadAt(l, "verify") /\ load[l].raw = Right
  /\ \/ cached' = load[l].raw
     \/ UNCHANGED cached
  /\ load' = [load EXCEPT ![l] = LoadEnded(@, "done", @.raw)]
  /\ UNCHANGED <<base, bundle, verifiedFor, reloads, replaced>> /\ KeepDownloads

RejectFile(l) ==
  /\ LoadAt(l, "verify") /\ load[l].raw # Right
  /\ \/ /\ load' = [load EXCEPT ![l] = Beyond(@)]
        /\ UNCHANGED entry
     \/ /\ load' = [load EXCEPT ![l] = [@ EXCEPT !.pc = "clear", !.then = "next"]]
        /\ entry' = [entry EXCEPT ![load[l].b] = NoEntry]
  /\ UNCHANGED <<stored, partials, shared>> /\ KeepDelivery

-----------------------------------------------------------------------------
(* The page is reloaded: only Cache Storage and localStorage stay.          *)
Reload ==
  /\ reloads < MaxReloads /\ reloads' = reloads + 1
  /\ load' = [l \in Loads |-> UnusedLoad]
  /\ entry' = [b \in 1..Bases |-> NoEntry]
  /\ partials' = [k \in Loads \X (1..Bases) |-> NoPartial]
  /\ UNCHANGED <<base, bundle, verifiedFor, cached, stored, replaced, shared>>

(* A deployment, an installation of the app, a damaged cache entry.         *)
Replace ==
  /\ replaced < MaxReplaced /\ replaced' = replaced + 1
  /\ \/ /\ \E b \in 1..Bases : \E v \in FileVersions \ {base[b]} : base' = [base EXCEPT ![b] = v]
        /\ UNCHANGED <<bundle, cached>>
     \/ /\ \E v \in {"right", "other"} : bundle' = [install |-> bundle.install + 1, file |-> FileOf(v)]
        /\ UNCHANGED <<base, cached>>
     \/ cached # <<>> /\ cached' = FileOf("other") /\ UNCHANGED <<base, bundle>>
  /\ UNCHANGED <<verifiedFor, load, reloads>> /\ KeepDownloads

AssetInit ==
  /\ base = [b \in 1..Bases |-> "right"]
  /\ bundle \in {[install |-> 0, file |-> f] : f \in {<<>>, Right}}
  /\ verifiedFor = {} /\ cached = <<>> /\ stored = {}
  /\ entry = [b \in 1..Bases |-> NoEntry]
  /\ partials = [k \in Loads \X (1..Bases) |-> NoPartial]
  /\ load = [l \in Loads |-> UnusedLoad]
  /\ reloads = 0 /\ replaced = 0 /\ shared = FALSE

AssetNext ==
  \/ \E l \in Loads :
       \/ StartLoad(l) \/ FromCache(l) \/ FromAppBundle(l)
       \/ BeginDownload(l) \/ RestorePartial(l) \/ FirstRangeArrives(l) \/ WholeFileArrives(l)
       \/ RangeArrives(l) \/ RangeFails(l) \/ RangeWritten(l) \/ ClearRanges(l)
       \/ VerifyFile(l) \/ RejectFile(l)
  \/ Reload \/ Replace

AssetSpec == AssetInit /\ [][AssetNext]_assetVars

-----------------------------------------------------------------------------
InPlace(bytes, from) ==
  \A i \in DOMAIN bytes : bytes[i] # Gap => bytes[i].at = from + i

(* Whatever a load ends with is the pinned file, also when the app's copy   *)
(* was not hashed again; and unless a load took over a partial that another *)
(* one was filling, every received byte is at its place in every partial,   *)
(* whole file and stored range, and no partial counts a byte it has not.    *)
FilesAreWhole ==
  /\ \A l \in Loads : LoadAt(l, "done") => load[l].raw = Right
  /\ ~shared =>
       /\ \A l \in Loads : InPlace(load[l].raw, 0)
       /\ \A s \in stored : InPlace(s.bytes, s.start)
       /\ \A k \in DOMAIN partials :
            /\ InPlace(partials[k].out, 0)
            /\ \A i \in 1..partials[k].offset : partials[k].out[i] # Gap
=============================================================================
