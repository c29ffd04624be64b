------------------------------ MODULE SilentLogin ------------------------------
(***************************************************************************)
(* Signing in without a form (ui-react: TrustIdAuthProvider, silentAuth,   *)
(* useTrustIdAuth, useSilentAutoLogin, TrustIdLoginButton): a page shows   *)
(* an identity, the browser holds a session, and probes, a button, a       *)
(* registration, refreshes and a logout change both, each at its own pace. *)
(***************************************************************************)
EXTENDS FiniteSets, Naturals

CONSTANTS LoginRuns,     \* calls in flight
          LoginPeople,   \* those whose passkey or face the device may find
          MaxBegins      \* bound: calls a user starts

NoOne == "no one"
NoRun == "no run"

ASSUME SilentAssumption == NoOne \notin LoginPeople /\ NoRun \notin LoginRuns

VARIABLES hook,      \* the hook of the page, and whether it has a camera
          cookie,    \* whose session the browser holds
          shown,     \* the identity the provider gives to the page
          loading,   \* the provider still asks for the session
          phase,     \* of the hook (status, for useSilentAutoLogin)
          started,   \* startedRef
          retried,   \* nonce > 0
          inflight,  \* the ceremony silentAuth shares
          waiting,   \* the call the current effect awaits; none once cancelled
          run,       \* the calls
          begins,
          causes,    \* history: overlaps and failures since all was quiet
          dropped    \* history: a pending ceremony was taken out of inflight

silentVars == <<hook, cookie, shown, loading, phase, started, retried, inflight,
                waiting, run, begins, causes, dropped>>

NoLogin == [kind |-> "none", pc |-> "idle", who |-> NoOne, stale |-> FALSE]

Fresh(kind, pc) == [NoLogin EXCEPT !.kind = kind, !.pc = pc]

Moved(k, pc) == [run EXCEPT ![k].pc = pc]

Ended(k) == [run EXCEPT ![k] = NoLogin]

Quiet == ~loading /\ \A k \in LoginRuns : run[k] = NoLogin

\* An answer that waits to be applied is stale once the session has changed.
Answered(rs, k, p) ==
  [j \in LoginRuns |->
     IF j = k THEN [rs[k] EXCEPT !.pc = "answered", !.who = p, !.stale = FALSE]
     ELSE [rs[j] EXCEPT !.stale = rs[j].pc \in {"answered", "refreshed"}]]

-----------------------------------------------------------------------------
(* The effect of the hook.  It runs when the identity, loading or the nonce *)
(* changes, and first cancels the probe of the effect before it.            *)

\* resetSilentWebLoginInflight
Dropped(reset) == dropped \/ (reset /\ inflight # NoRun)

\* Mutant: every caller starts a ceremony of its own.
LoginOnce_always(rs, k, current, shared) ==
  /\ run' = [rs EXCEPT ![k] = Fresh("passkey", "options")]
  /\ inflight' = k
  /\ waiting' = IF current THEN k ELSE waiting

\* executeSilentWebLoginOnce: join the ceremony in flight, or start one.
LoginOnce(rs, k, current, shared) ==
  LET own == shared = NoRun
      c   == IF own THEN k ELSE shared
  IN  /\ run' = [rs EXCEPT ![k] = IF own THEN Fresh("passkey", "options") ELSE NoLogin]
      /\ inflight' = c
      /\ waiting' = IF current THEN c ELSE waiting

\* useTrustIdAuth drops the ceremony in flight, useSilentAutoLogin joins it.
StartProbe(rs, shared) ==
  /\ started' = TRUE
  /\ phase' = "PROMPTING_BIOMETRIC"
  /\ \E k \in LoginRuns :
       /\ rs[k] = NoLogin
       /\ IF hook = "face"
          THEN /\ run' = [rs EXCEPT ![k] = Fresh("face", "capture")]
               /\ waiting' = k /\ inflight' = NoRun
          ELSE LoginOnce(rs, k, TRUE, IF hook = "auto" THEN shared ELSE NoRun)

Effect(x, rs, again, shared) ==
  IF x = NoOne /\ (~started \/ again)
  THEN StartProbe(rs, shared)
  ELSE /\ phase' = IF x # NoOne THEN "AUTHENTICATED" ELSE phase
       /\ waiting' = NoRun
       /\ run' = rs
       /\ inflight' = shared
       /\ UNCHANGED started

(* setIdentity, and the effect a new identity triggers.                     *)
SetIdentity(x, rs, shared) ==
  /\ shown' = x
  /\ IF loading \/ (x = NoOne /\ shown = NoOne)
     THEN run' = rs /\ inflight' = shared /\ UNCHANGED <<phase, started, waiting>>
     ELSE Effect(x, rs, retried, shared)

(* An answer is applied: late, while a logout is on its way, or in time.    *)
Causes(k) ==
  causes \cup (IF run[k].stale THEN {"late answer"} ELSE {})
         \cup (IF \E j \in LoginRuns : run[j].kind = "logout" THEN {"crossed"} ELSE {})

-----------------------------------------------------------------------------
(* A page opens in a browser that may hold a session, and asks for it.      *)
Mount(k) ==
  /\ hook = "none"
  /\ hook' \in {"face", "guard", "auto"}
  /\ cookie' \in LoginPeople \cup {NoOne}
  /\ run' = [run EXCEPT ![k] = Fresh("mount", "read")]
  /\ UNCHANGED <<shown, loading, phase, started, retried, inflight, waiting,
                 begins, causes, dropped>>

(* What a user does: press the login button, ask another device, create an  *)
(* account, retry the probe, log out.                                       *)

UserStarts ==
  /\ hook # "none" /\ begins < MaxBegins
  /\ begins' = begins + 1
  /\ causes' = IF Quiet /\ shown = cookie THEN {} ELSE causes

StartCall(k) ==
  /\ UserStarts /\ run[k] = NoLogin
  /\ \E call \in {Fresh("button", "options"), Fresh("oob", "poll"), Fresh("create", "options")} :
       /\ ~ \E j \in LoginRuns : run[j].kind = call.kind
       /\ call.kind = "create" => hook # "auto" /\ shown = NoOne /\ phase = "NEEDS_ACCOUNT"
       /\ run' = [run EXCEPT ![k] = call]
       /\ phase' = IF call.kind = "create" THEN "CREATING_ACCOUNT" ELSE phase
  /\ UNCHANGED <<hook, cookie, shown, loading, started, retried, inflight, waiting, dropped>>

\* retryProbe and retry: startedRef is cleared, the nonce makes the effect run.
RetryProbe ==
  /\ UserStarts
  /\ retried' = TRUE
  /\ IF loading \/ shown # NoOne
     THEN /\ started' = FALSE
          /\ inflight' = IF hook = "auto" THEN inflight ELSE NoRun
          /\ UNCHANGED <<run, phase, waiting>>
     ELSE StartProbe(run, inflight)
  /\ dropped' = Dropped(inflight' # inflight)
  /\ UNCHANGED <<hook, cookie, shown, loading>>

\* Mutant: the page waits for the server, and forgets nothing itself.
Logout_keepsIdentity(k) ==
  /\ UserStarts /\ run[k] = NoLogin /\ shown # NoOne
  /\ run' = [run EXCEPT ![k] = Fresh("logout", "revoke")]
  /\ inflight' = NoRun
  /\ dropped' = Dropped(inflight # NoRun)
  /\ UNCHANGED <<hook, cookie, shown, loading, phase, started, retried, waiting>>

(* logout: the page forgets first, the session is revoked in the background. *)
Logout(k) ==
  /\ UserStarts /\ run[k] = NoLogin /\ shown # NoOne
  /\ SetIdentity(NoOne, [run EXCEPT ![k] = Fresh("logout", "revoke")], NoRun)
  /\ dropped' = Dropped(inflight' # inflight)
  /\ UNCHANGED <<hook, cookie, loading, retried>>

-----------------------------------------------------------------------------
(* The steps of a login.                                                    *)

\* The options have arrived: the browser prompts.
PromptOpens(k) ==
  /\ run[k].pc = "options"
  /\ run' = Moved(k, "prompt")
  /\ UNCHANGED <<hook, cookie, shown, loading, phase, started, retried, inflight,
                 waiting, begins, causes, dropped>>

\* The camera gave a face, and the match is asked for.
FaceCaptured(k) ==
  /\ run[k].pc = "capture"
  /\ IF waiting # k THEN run' = Ended(k)
     ELSE run' = Moved(k, "verify")
  /\ UNCHANGED <<hook, cookie, shown, loading, phase, started, retried, inflight,
                 waiting, begins, causes, dropped>>

\* No face, or no match: the passkey is tried, cancelled meanwhile or not.
NoFaceMatch(k) ==
  /\ \/ run[k].pc = "capture" /\ waiting = k
     \/ run[k].pc = "verify"
  /\ LoginOnce(run, k, waiting = k, inflight)
  /\ UNCHANGED <<hook, cookie, shown, loading, phase, started, retried, begins, causes, dropped>>

\* The server opens a session for the passkey, the face or the approval.
ServerSignsIn(k) ==
  /\ run[k].pc \in {"prompt", "verify", "poll"}
  /\ \E p \in LoginPeople :
       /\ cookie' = p
       /\ run' = Answered(run, k, p)
  /\ UNCHANGED <<hook, shown, loading, phase, started, retried, inflight, waiting,
                 begins, causes, dropped>>

\* No options, no passkey within its time, a refusal, or no answer.
LoginFails(k) ==
  /\ run[k].pc \in {"capture", "options", "prompt", "verify", "poll", "enrol"}
  /\ run' = Ended(k)
  /\ phase' = IF waiting = k \/ run[k].kind = "create" THEN "NEEDS_ACCOUNT" ELSE phase
  /\ waiting' = IF waiting = k THEN NoRun ELSE waiting
  /\ inflight' = IF run[k].kind = "passkey" \/ (waiting = k /\ hook # "auto") THEN NoRun ELSE inflight
  /\ dropped' = Dropped(inflight' # inflight /\ inflight # k)
  /\ UNCHANGED <<hook, cookie, shown, loading, started, retried, begins, causes>>

\* The wall clock of executeSilentWebLoginOnce: the page goes on without it.
WallClock(k) ==
  /\ run[k].kind = "passkey" /\ run[k].pc \in {"options", "prompt"}
  /\ run' = [run EXCEPT ![k].kind = "late"]
  /\ phase' = IF waiting = k THEN "NEEDS_ACCOUNT" ELSE phase
  /\ waiting' = IF waiting = k THEN NoRun ELSE waiting
  /\ inflight' = NoRun
  /\ UNCHANGED <<hook, cookie, shown, loading, started, retried, begins, causes, dropped>>

\* Nobody waits for the ceremony any more: its session is not shown.
GivenUp(k) == run[k].kind = "late" \/ (run[k].kind = "passkey" /\ waiting # k)

DropAnswer(k) ==
  /\ run[k].pc = "answered" /\ GivenUp(k)
  /\ run' = Ended(k)
  /\ inflight' = IF run[k].kind = "passkey" THEN NoRun ELSE inflight
  /\ causes' = causes \cup {"given up"}
  /\ UNCHANGED <<hook, cookie, shown, loading, phase, started, retried, waiting, begins, dropped>>

(* setIdentity(result.identity), then refresh.  A ceremony is over, and     *)
(* clears the slot, whoever is in it.                                       *)
ApplyAnswer(k) ==
  /\ run[k].pc = "answered" /\ ~GivenUp(k)
  /\ SetIdentity(run[k].who, Moved(k, "read"), IF run[k].kind = "passkey" THEN NoRun ELSE inflight)
  /\ dropped' = Dropped(inflight' # inflight /\ inflight # k)
  /\ causes' = Causes(k)
  /\ UNCHANGED <<hook, cookie, loading, retried, begins>>

-----------------------------------------------------------------------------
(* refresh: ask for the session, show whose it is.                          *)

ReadLogin(k) ==
  /\ run[k].pc = "read"
  /\ run' = [run EXCEPT ![k].pc = "refreshed", ![k].who = cookie, ![k].stale = FALSE]
  /\ UNCHANGED <<hook, cookie, shown, loading, phase, started, retried, inflight,
                 waiting, begins, causes, dropped>>

\* A session that cannot be read is shown as none.
RefreshFails(k) ==
  /\ run[k].pc = "read"
  /\ run' = [run EXCEPT ![k].pc = "refreshed", ![k].who = NoOne, ![k].stale = FALSE]
  /\ causes' = causes \cup {"failed"}
  /\ UNCHANGED <<hook, cookie, shown, loading, phase, started, retried, inflight,
                 waiting, begins, dropped>>

\* What follows a refresh: a registration goes on, other calls are done.
AfterRefresh(k) ==
  IF run[k].kind = "create" THEN Moved(k, "enrol") ELSE Ended(k)

ApplyRefresh(k) ==
  /\ run[k].pc = "refreshed" /\ run[k].kind # "mount"
  /\ SetIdentity(run[k].who, AfterRefresh(k), inflight)
  /\ dropped' = Dropped(inflight' # inflight)
  /\ causes' = Causes(k)
  /\ UNCHANGED <<hook, cookie, loading, retried, begins>>

\* The first refresh: loading ends, and the effect runs.
SessionProbed(k) ==
  /\ run[k].pc = "refreshed" /\ run[k].kind = "mount"
  /\ loading' = FALSE
  /\ shown' = run[k].who
  /\ Effect(run[k].who, Ended(k), retried, inflight)
  /\ dropped' = Dropped(inflight' # inflight)
  /\ causes' = Causes(k)
  /\ UNCHANGED <<hook, cookie, retried, begins>>

\* The face of a new account is enrolled, or there is no camera.
AccountCreated(k) ==
  /\ run[k].pc = "enrol"
  /\ run' = Ended(k)
  /\ phase' = "AUTHENTICATED"
  /\ UNCHANGED <<hook, cookie, shown, loading, started, retried, inflight, waiting,
                 begins, causes, dropped>>

\* The logout reaches the server, which clears the cookie, or it does not.
SessionRevoked(k) ==
  /\ run[k].pc = "revoke"
  /\ \/ /\ cookie' = NoOne
        /\ run' = [Answered(run, k, NoOne) EXCEPT ![k] = NoLogin]
        /\ UNCHANGED causes
     \/ /\ run' = Ended(k)
        /\ causes' = causes \cup {"failed"}
        /\ UNCHANGED cookie
  /\ UNCHANGED <<hook, shown, loading, phase, started, retried, inflight, waiting,
                 begins, dropped>>

-----------------------------------------------------------------------------
SilentInit ==
  /\ hook = "none" /\ cookie = NoOne
  /\ shown = NoOne /\ loading = TRUE /\ phase = "CHECKING"
  /\ started = FALSE /\ retried = FALSE
  /\ inflight = NoRun /\ waiting = NoRun
  /\ run = [k \in LoginRuns |-> NoLogin]
  /\ begins = 0 /\ causes = {} /\ dropped = FALSE

SilentNext ==
  \/ RetryProbe
  \/ \E k \in LoginRuns :
       \/ Mount(k) \/ StartCall(k) \/ Logout(k)
       \/ PromptOpens(k) \/ FaceCaptured(k) \/ NoFaceMatch(k) \/ ServerSignsIn(k)
       \/ LoginFails(k) \/ WallClock(k) \/ DropAnswer(k) \/ ApplyAnswer(k)
       \/ ReadLogin(k) \/ RefreshFails(k) \/ ApplyRefresh(k) \/ SessionProbed(k)
       \/ AccountCreated(k) \/ SessionRevoked(k)

SilentSpec == SilentInit /\ [][SilentNext]_silentVars

-----------------------------------------------------------------------------
(* Once every call has ended, the page shows the person whose session the   *)
(* browser holds, unless one of four things happened on the way: an answer  *)
(* was applied after the session it describes had changed, a login the page *)
(* had given up went through all the same, an identity was set while a      *)
(* logout was on its way, or a refresh or a logout failed.                  *)
ShownIsTheSession == Quiet /\ causes = {} => shown = cookie

(* Ceremonies are shared: two run at once only after one of them was taken  *)
(* out of the shared slot by a reset.                                       *)
CeremoniesAreShared ==
  dropped \/ Cardinality({k \in LoginRuns : run[k].kind = "passkey" /\ run[k].pc # "read"
                                              /\ run[k].pc # "refreshed"}) <= 1

SilentIsSound == ShownIsTheSession /\ CeremoniesAreShared
=============================================================================
