--------------------------- MODULE VerifiedIdentity ---------------------------
(***************************************************************************)
(* The verified identity of one person (modules/identity-verification and  *)
(* modules/verified-identity): portraits, verifications by a provider, the *)
(* versioned profile, and signed assertions about it.  Handlers read rows  *)
(* and write them by id; the profile version is read, then written as one  *)
(* more.  The provider and the signature library are external.             *)
(***************************************************************************)
EXTENDS Naturals, FiniteSets

CONSTANTS IdCalls, Pics, Verifications, Assertions, NoPic,
          MaxBumps,  \* bound: writes of the profile
          MaxStops   \* bound: calls that stop

ASSUME VerifiedIdentityAssumption == MaxBumps \in Nat /\ MaxStops \in Nat /\ NoPic \notin Pics

VARIABLES pic,       \* status of each IdentityPortrait
          ver,       \* IdentityVerification rows: status and portrait
          profile,   \* VerifiedIdentityProfile: identityStatus, status, portrait, version
          jti,       \* AssertionJti rows with the claims of the signed assertion
          bumps,     \* how often it was written
          idCall,    \* what each call is doing
          misled,    \* history: an assertion passed though its profile, or its portrait, was another
          lostBump,  \* history: the profile was written from a version no longer its own
          stops,     \* how many calls stopped
          halted,    \* history: a change stopped between its rows and the profile
          mixed      \* history: whether two changes, or even two completions, were in flight at once

idVars == <<pic, ver, profile, jti, bumps, idCall, misled, lostBump, stops, halted, mixed>>

IdAt(c, op, pc) == idCall[c].pc = pc /\ idCall[c].op = op
IdBusy(c) == idCall[c].pc # "idle"
IdGoto(c, pc) == idCall' = [idCall EXCEPT ![c] = IF pc = "idle" THEN [pc |-> pc] ELSE [@ EXCEPT !.pc = pc]]
KeepRows2 == UNCHANGED <<pic, ver, profile, jti, bumps>>
KeepPast == UNCHANGED <<misled, lostBump, stops, halted, mixed>>

Changes == {"upload", "start", "complete", "revoke"}

Begin(c, record) ==
  /\ ~IdBusy(c) /\ idCall' = [idCall EXCEPT ![c] = record]
  /\ mixed' = LET met == {idCall[o].op : o \in {o \in IdCalls : IdBusy(o)}} \cap Changes IN
              CASE record.op \notin Changes \/ met = {} -> mixed
                [] record.op = "complete" /\ "complete" \in met -> "completions"
                [] OTHER -> IF mixed = "no" THEN "changes" ELSE mixed
  /\ KeepRows2 /\ UNCHANGED <<misled, lostBump, stops, halted>>

-----------------------------------------------------------------------------
(* bumpProfileVersion ends uploading, starting and rejecting: the version as read, then one more. *)
ReadyToBump(c, to) == [op |-> idCall[c].op, pc |-> "bump", to |-> to, version |-> profile.version]

WriteProfile(c, new) ==
  /\ bumps < MaxBumps /\ bumps' = bumps + 1
  /\ profile' = [new EXCEPT !.version = idCall[c].version + 1]
  /\ lostBump' = (lostBump \/ idCall[c].version # profile.version)
  /\ UNCHANGED <<misled, stops, halted, mixed>>

BumpProfileVersion(c) ==
  /\ idCall[c].pc = "bump" /\ IdGoto(c, "idle")
  /\ WriteProfile(c, [profile EXCEPT !.identity = idCall[c].to])
  /\ UNCHANGED <<pic, ver, jti>>

(* uploadIdentityPortrait *)
StartUpload(c) ==
  profile.status # "revoked" /\ profile.identity # "revoked" /\ Begin(c, [op |-> "upload", pc |-> "upload"])

UploadPortrait(c) ==
  \E p \in Pics :
    /\ IdAt(c, "upload", "upload")
    /\ pic[p] = "none" /\ pic' = [pic EXCEPT ![p] = "uploaded"]
    /\ idCall' = [idCall EXCEPT ![c] = ReadyToBump(c, "unverified")]
    /\ UNCHANGED <<ver, profile, jti, bumps>> /\ KeepPast

(* startIdentityVerification: markPortraitPending, the provider, the row. *)
FindPortrait(c) ==
  \E p \in Pics : pic[p] \in {"uploaded", "rejected"} /\ Begin(c, [op |-> "start", pc |-> "pending", pic |-> p])

MarkPortraitPending(c) ==
  /\ IdAt(c, "start", "pending") /\ IdGoto(c, "row")
  /\ pic' = [pic EXCEPT ![idCall[c].pic] = "pending"]
  /\ UNCHANGED <<ver, profile, jti, bumps>> /\ KeepPast

CreateVerification(c) ==
  \E v \in Verifications :
    /\ IdAt(c, "start", "row") /\ ver[v].status = "none"
    /\ ver' = [ver EXCEPT ![v] = [status |-> "pending", pic |-> idCall[c].pic]]
    /\ idCall' = [idCall EXCEPT ![c] = ReadyToBump(c, "pending")]
    /\ UNCHANGED <<pic, profile, jti, bumps>> /\ KeepPast

(* completeIdentityVerification: a verification that failed may be completed again. *)
FindVerification(c) ==
  \E v \in Verifications :
    /\ ver[v].status \in {"pending", "failed"}
    /\ Begin(c, [op |-> "complete", pc |-> "provider", ver |-> v, pic |-> ver[v].pic])

ProviderAnswers(c) ==
  \E status \in {"pending", "failed", "verified"} :
    /\ IdAt(c, "complete", "provider")
    /\ ver' = [ver EXCEPT ![idCall[c].ver].status = status]
    /\ IdGoto(c, CASE status = "pending" -> "idle" [] status = "failed" -> "reject" [] OTHER -> "others")
    /\ UNCHANGED <<pic, profile, jti, bumps>> /\ KeepPast

RejectPortrait(c) ==
  /\ IdAt(c, "complete", "reject")
  /\ pic' = [pic EXCEPT ![idCall[c].pic] = "rejected"]
  /\ idCall' = [idCall EXCEPT ![c] = ReadyToBump(c, "unverified")]
  /\ UNCHANGED <<ver, profile, jti, bumps>> /\ KeepPast

\* issueVerifiedPortrait: the portraits verified before, one by one, then this one, then the profile.
FindPrevious_none(c) ==
  /\ IdAt(c, "complete", "others")
  /\ idCall' = [idCall EXCEPT ![c] =
       [op |-> "complete", pc |-> "retire", pic |-> @.pic, old |-> {}]]
  /\ KeepRows2 /\ KeepPast

FindPrevious(c) ==
  /\ IdAt(c, "complete", "others")
  /\ idCall' = [idCall EXCEPT ![c] =
       [op |-> "complete", pc |-> "retire", pic |-> @.pic, old |-> {p \in Pics \ {@.pic} : pic[p] = "verified"}]]
  /\ KeepRows2 /\ KeepPast

RetirePortrait(c) ==
  \E p \in Pics :
    /\ IdAt(c, "complete", "retire") /\ p \in idCall[c].old
    /\ pic' = [pic EXCEPT ![p] = "revoked"]
    /\ idCall' = [idCall EXCEPT ![c].old = @ \ {p}]
    /\ UNCHANGED <<ver, profile, jti, bumps>> /\ KeepPast

IssueVerifiedPortrait(c) ==
  /\ IdAt(c, "complete", "retire") /\ idCall[c].old = {}
  /\ pic' = [pic EXCEPT ![idCall[c].pic] = "verified"]
  /\ idCall' = [idCall EXCEPT ![c] = [op |-> "complete", pc |-> "publish", pic |-> @.pic, version |-> profile.version]]
  /\ UNCHANGED <<ver, profile, jti, bumps>> /\ KeepPast

PublishProfile(c) ==
  /\ IdAt(c, "complete", "publish") /\ IdGoto(c, "idle")
  /\ WriteProfile(c, [profile EXCEPT !.identity = "verified", !.status = "active", !.portrait = idCall[c].pic])
  /\ UNCHANGED <<pic, ver, jti>>

(* revokeVerifiedPortrait *)
StartRevocation(c) ==
  /\ profile.portrait # NoPic
  /\ Begin(c, [op |-> "revoke", pc |-> "portrait", pic |-> profile.portrait, version |-> profile.version])

RevokePortrait(c) ==
  /\ IdAt(c, "revoke", "portrait") /\ IdGoto(c, "withdraw")
  /\ pic' = [pic EXCEPT ![idCall[c].pic] = "revoked"]
  /\ UNCHANGED <<ver, profile, jti, bumps>> /\ KeepPast

RevokeProfile(c) ==
  /\ IdAt(c, "revoke", "withdraw") /\ IdGoto(c, "idle")
  /\ WriteProfile(c, [profile EXCEPT !.identity = "revoked", !.status = "revoked", !.portrait = NoPic])
  /\ UNCHANGED <<pic, ver, jti>>

-----------------------------------------------------------------------------
(* issueIdentityAssertion reads the profile, and later the row of the portrait: what is not      *)
(* verified by then is left out of the claims.                                                   *)
HasPortrait(p) == p.identity = "verified" /\ p.portrait # NoPic

ReadClaims(c) ==
  /\ "revoked" \notin {profile.status, profile.identity}
  /\ Begin(c, IF HasPortrait(profile)
              THEN [op |-> "assert", pc |-> "lookup", claims |-> profile]
              ELSE [op |-> "assert", pc |-> "sign", claims |-> [profile EXCEPT !.portrait = NoPic]])

Named(claims) ==
  [claims EXCEPT !.portrait = IF pic[claims.portrait] = "verified" THEN claims.portrait ELSE NoPic]

ReadPortrait(c) ==
  /\ IdAt(c, "assert", "lookup")
  /\ idCall' = [idCall EXCEPT ![c] = [@ EXCEPT !.pc = "sign", !.claims = Named(idCall[c].claims)]]
  /\ KeepRows2 /\ KeepPast

SignAssertion(c) ==
  \E a \in Assertions :
    /\ IdAt(c, "assert", "sign") /\ IdGoto(c, "idle")
    /\ jti[a].status = "none" /\ jti' = [jti EXCEPT ![a] = [status |-> "issued", claims |-> idCall[c].claims]]
    /\ UNCHANGED <<pic, ver, profile, bumps>> /\ KeepPast

(* verifyIdentityAssertion *)
FindJti(c) ==
  \E a \in Assertions, consume \in BOOLEAN :
    /\ jti[a].status = "issued" \/ (jti[a].status = "used" /\ ~consume)
    /\ Begin(c, [op |-> "verify", pc |-> IF consume THEN "use" ELSE "compare", jti |-> a])

UseJti(c) ==
  /\ IdAt(c, "verify", "use") /\ IdGoto(c, "compare")
  /\ jti' = [jti EXCEPT ![idCall[c].jti].status = "used"]
  /\ UNCHANGED <<pic, ver, profile, bumps>> /\ KeepPast

Current_notRevoked(a) == "revoked" \notin {profile.status, profile.identity}

Current(a) == "revoked" \notin {profile.status, profile.identity} /\ jti[a].claims.version = profile.version

\* The portrait an assertion should name now, and a change that has yet to write the profile.
Told == IF HasPortrait(profile) /\ pic[profile.portrait] = "verified" THEN profile.portrait ELSE NoPic

Between(c) == idCall[c].pc \in {"row", "bump", "retire", "publish", "withdraw"}

SaysProfile(claims) ==
  /\ claims.identity = profile.identity /\ claims.status = profile.status
  /\ claims.portrait \in {NoPic, profile.portrait}

SaysPortrait(claims) == claims.portrait = Told \/ \E o \in IdCalls : Between(o)

CompareProfile(c) ==
  LET claims == jti[idCall[c].jti].claims IN
  /\ IdAt(c, "verify", "compare") /\ IdGoto(c, "idle")
  /\ misled' = IF Current(idCall[c].jti)
               THEN misled \cup (IF SaysProfile(claims) THEN {} ELSE {"profile"})
                           \cup (IF SaysPortrait(claims) THEN {} ELSE {"portrait"})
               ELSE misled
  /\ KeepRows2 /\ UNCHANGED <<lostBump, stops, halted, mixed>>

\* A statement that throws, or a process that stops, ends a call wherever it is.
CallStops(c) ==
  /\ IdBusy(c) /\ stops < MaxStops /\ stops' = stops + 1
  /\ IdGoto(c, "idle") /\ halted' = (halted \/ Between(c))
  /\ KeepRows2 /\ UNCHANGED <<misled, lostBump, mixed>>

-----------------------------------------------------------------------------
NoVerification == [status |-> "none", pic |-> NoPic]

\* A new person, one whose first portrait was verified (three writes of the profile), or one who
\* then started on a second (two more).
IdInit ==
  /\ \/ /\ pic = [p \in Pics |-> "none"] /\ ver = [v \in Verifications |-> NoVerification]
        /\ profile = [identity |-> "unverified", status |-> "active", portrait |-> NoPic, version |-> 1]
     \/ \E p \in Pics, v \in Verifications :
          /\ pic = [q \in Pics |-> IF q = p THEN "verified" ELSE "none"]
          /\ ver = [w \in Verifications |-> IF w = v THEN [status |-> "verified", pic |-> p] ELSE NoVerification]
          /\ profile = [identity |-> "verified", status |-> "active", portrait |-> p, version |-> 4]
     \/ \E p, q \in Pics, v, w \in Verifications :
          /\ p # q /\ v # w
          /\ pic = [r \in Pics |-> CASE r = p -> "verified" [] r = q -> "pending" [] OTHER -> "none"]
          /\ ver = [x \in Verifications |-> CASE x = v -> [status |-> "verified", pic |-> p]
                                             [] x = w -> [status |-> "pending", pic |-> q]
                                             [] OTHER -> NoVerification]
          /\ profile = [identity |-> "pending", status |-> "active", portrait |-> p, version |-> 6]
  /\ bumps = 0
  /\ jti = [a \in Assertions |-> [status |-> "none", claims |-> [profile EXCEPT !.portrait = Told]]]
  /\ idCall = [c \in IdCalls |-> [pc |-> "idle"]]
  /\ misled = {} /\ lostBump = FALSE /\ stops = 0 /\ halted = FALSE /\ mixed = "no"

IdNext == \E c \in IdCalls :
  \/ BumpProfileVersion(c) \/ StartUpload(c) \/ UploadPortrait(c)
  \/ FindPortrait(c) \/ MarkPortraitPending(c) \/ CreateVerification(c)
  \/ FindVerification(c) \/ ProviderAnswers(c) \/ RejectPortrait(c)
  \/ FindPrevious(c) \/ RetirePortrait(c) \/ IssueVerifiedPortrait(c) \/ PublishProfile(c)
  \/ StartRevocation(c) \/ RevokePortrait(c) \/ RevokeProfile(c)
  \/ ReadClaims(c) \/ ReadPortrait(c) \/ SignAssertion(c) \/ FindJti(c) \/ UseJti(c) \/ CompareProfile(c)
  \/ CallStops(c)

IdSpec == IdInit /\ [][IdNext]_idVars

-----------------------------------------------------------------------------
(* An assertion that verifies says the identity and the status of the       *)
(* profile, and names its portrait or none, unless some update of the       *)
(* profile was written over a version it had not read (bumpProfileVersion   *)
(* reads the version and writes one more).  It names a portrait just when   *)
(* the profile is verified with one that is, but for the time a change is   *)
(* between its rows and the profile, the version not yet up; that time ends *)
(* with a version that outdates the assertion, unless the change stopped.   *)
AssertionsAreCurrent ==
  /\ "profile" \in misled => lostBump
  /\ "portrait" \in misled => lostBump \/ halted

(* One portrait is verified at a time, unless two completions overlapped    *)
(* (each lists the portraits verified before and revokes those).  And when  *)
(* no change is under way, a profile that says verified points to a         *)
(* portrait that is, unless two changes overlapped or one stopped half way. *)
VerifiedPortraitIsOne ==
  /\ mixed # "completions" => Cardinality({p \in Pics : pic[p] = "verified"}) <= 1
  /\ (/\ profile.identity = "verified" /\ mixed = "no" /\ ~halted
      /\ \A c \in IdCalls : IdBusy(c) => idCall[c].op \notin Changes)
     => profile.portrait # NoPic /\ pic[profile.portrait] = "verified"

(* What a relying party and the user are told of the identity agrees with it. *)
IdentityIsSound == AssertionsAreCurrent /\ VerifiedPortraitIsOne
=============================================================================
