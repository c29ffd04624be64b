------------------------------ MODULE AppLocker ------------------------------
(***************************************************************************)
(* The App Locker page inside the Android shell: the list of locked apps   *)
(* and its switch as the page shows them, and as AppLockPlugin keeps them  *)
(* twice in SharedPreferences, in the policy and in a flat list.  The      *)
(* plugin runs one call at a time; the page awaits between them, and the   *)
(* calls of a page that was left go on.  apply() changes the preferences   *)
(* in memory; the disk follows.                                            *)
(***************************************************************************)
EXTENDS Naturals

CONSTANTS LockerCalls,  \* calls at once
          LockApps,     \* packages
          MaxVisits     \* times the page is opened

VARIABLES prefs,     \* policy_json and locked_packages_json, in memory
          flushed,   \* the same on disk
          page,      \* what the page shows
          handling,  \* the calls of its handlers
          visits,    \* times the page was opened
          owned,     \* the apps the page reported locked, and not removed
          overlapped \* a write overlapped another one or a page, or was lost

lockerVars == <<prefs, flushed, page, handling, visits, owned, overlapped>>

Policy(on, apps) == [on |-> on, apps |-> apps]

NoPolicy == Policy(FALSE, {})

NoPackage == "none"

NoWork == [op |-> "rest", pc |-> "rest", app |-> NoPackage, base |-> NoPolicy,
            next |-> NoPolicy, mine |-> FALSE]

(* getPolicy: nothing stored is a policy that is off.                       *)
StoredPolicy == IF prefs.stored THEN Policy(prefs.on, prefs.apps) ELSE NoPolicy

(* readLockedPackages of the service that enforces the policy.              *)
Enforced == IF prefs.on \/ ~prefs.stored THEN prefs.apps \cup prefs.flat ELSE {}

Alone(c) == \A o \in LockerCalls \ {c} : handling[o].op = "rest"

(* The buttons of the page; reading the policy at mount does not block them. *)
Enabled(c) ==
  /\ visits > 0 /\ handling[c].op = "rest"
  /\ \A o \in LockerCalls : handling[o].mine => handling[o].op = "load"

Starts(c, op, pc, app, base, next) ==
  handling' = [handling EXCEPT ![c] = [op |-> op, pc |-> pc, app |-> app, base |-> base,
                               next |-> next, mine |-> TRUE]]

Stops(c) == handling' = [handling EXCEPT ![c] = NoWork]

Shown == Policy(page.on, page.apps)

-----------------------------------------------------------------------------
(* toggleEnabled takes the policy the page shows, loaded or not.            *)
Toggle(c) ==
  /\ Enabled(c)
  /\ Starts(c, "toggle", "prompt", NoPackage, Shown, [Shown EXCEPT !.on = ~@])
  /\ UNCHANGED <<prefs, flushed, page, visits, owned, overlapped>>

(* addSuggestion and addCustom; the latter may name an app already there.   *)
AddApp(c) ==
  /\ Enabled(c)
  /\ \E a \in LockApps : Starts(c, "add", "read", a, NoPolicy, NoPolicy)
  /\ UNCHANGED <<prefs, flushed, page, visits, owned, overlapped>>

RemoveApp(c) ==
  /\ Enabled(c)
  /\ \E a \in page.apps : Starts(c, "remove", "read", a, NoPolicy, NoPolicy)
  /\ UNCHANGED <<prefs, flushed, page, visits, owned, overlapped>>

(* The first await of reload, addApp and removeApp.  An app already there   *)
(* is neither confirmed nor saved.                                          *)
ReadPolicy(c) ==
  LET now == StoredPolicy  a == handling[c].app IN
  /\ handling[c].pc = "read"
  /\ handling' = [handling EXCEPT ![c] =
       [@ EXCEPT !.base = now,
                 !.next = CASE handling[c].op = "add"    -> [now EXCEPT !.apps = @ \cup {a}]
                            [] handling[c].op = "remove" -> [now EXCEPT !.apps = @ \ {a}]
                            [] handling[c].op = "load"   -> now,
                 !.pc = CASE handling[c].op = "load" -> "report"
                          [] handling[c].op = "add" /\ a \in now.apps -> "apply"
                          [] OTHER -> "prompt"]]
  /\ UNCHANGED <<prefs, flushed, page, visits, owned, overlapped>>

(* savePolicy asks for a biometric first.                                   *)
ConfirmChange(c) ==
  /\ handling[c].pc = "prompt" /\ handling' = [handling EXCEPT ![c].pc = "save"]
  /\ UNCHANGED <<prefs, flushed, page, visits, owned, overlapped>>

RefuseChange(c) ==
  /\ handling[c].pc = "prompt" /\ Stops(c)
  /\ UNCHANGED <<prefs, flushed, page, visits, owned, overlapped>>

(* A write based on a list that has changed, or unseen by the page.         *)
Crosses(c, expected) == expected # prefs.apps \/ ~handling[c].mine

(* setPolicy of the plugin: the flat list and the policy in two writes,     *)
(* each of which may reach the disk on its own.                             *)
SavePolicy(c) ==
  LET next == handling[c].next IN
  /\ handling[c].pc = "save" /\ handling' = [handling EXCEPT ![c].pc = "apply"]
  /\ prefs' = [stored |-> TRUE, on |-> next.on, apps |-> next.apps, flat |-> next.apps]
  /\ flushed' \in {flushed, [prefs EXCEPT !.flat = next.apps]}
  /\ overlapped' = (overlapped \/ Crosses(c, handling[c].base.apps))
  /\ UNCHANGED <<page, visits, owned>>

(* As it would be if the flat list were added to.                           *)
SetLockedApps_keepsOld(c) ==
  LET apps == handling[c].next.apps IN
  /\ handling[c].pc = "apply" /\ handling' = [handling EXCEPT ![c].pc = "report"]
  /\ prefs' = [stored |-> TRUE, apps |-> apps, flat |-> prefs.flat \cup owned \cup apps,
               on |-> apps # {} \/ ~prefs.stored \/ prefs.on]
  /\ overlapped' = (overlapped \/ Crosses(c, apps))
  /\ UNCHANGED <<flushed, page, visits, owned>>

(* setLockedApps of the plugin: the apps, twice, in one write; a list that  *)
(* is not empty switches the policy on.                                     *)
SetLockedApps(c) ==
  LET apps == handling[c].next.apps IN
  /\ handling[c].pc = "apply" /\ handling' = [handling EXCEPT ![c].pc = "report"]
  /\ prefs' = [stored |-> TRUE, apps |-> apps, flat |-> apps,
               on |-> apps # {} \/ ~prefs.stored \/ prefs.on]
  /\ overlapped' = (overlapped \/ Crosses(c, apps))
  /\ UNCHANGED <<flushed, page, visits, owned>>

(* The page shows what was saved, or what it loaded.  A page loaded while   *)
(* nothing else runs knows the state of things again.                       *)
Report(c) ==
  LET r == handling[c] IN
  /\ r.pc = "report" /\ Stops(c)
  /\ page' = IF r.mine THEN [on |-> r.next.on, apps |-> r.next.apps, loaded |-> TRUE] ELSE page
  /\ owned' = IF r.mine THEN r.next.apps ELSE owned \ {r.app}
  /\ overlapped' = IF r.op = "load" /\ r.mine
                   THEN r.next # StoredPolicy \/ ~Alone(c) \/ prefs.apps # prefs.flat
                   ELSE overlapped
  /\ UNCHANGED <<prefs, flushed, visits>>

-----------------------------------------------------------------------------
NewPage == [on |-> FALSE, apps |-> {}, loaded |-> FALSE]

Loading == [NoWork EXCEPT !.op = "load", !.pc = "read", !.mine = TRUE]

(* The page is opened, or left and opened again: its calls go on, unseen.   *)
Reopen ==
  /\ visits < MaxVisits /\ visits' = visits + 1
  /\ page' = NewPage
  /\ \E c \in LockerCalls :
       /\ handling[c].op = "rest"
       /\ handling' = [o \in LockerCalls |-> IF o = c THEN Loading
                                         ELSE [handling[o] EXCEPT !.mine = FALSE]]
  /\ UNCHANGED <<prefs, flushed, owned, overlapped>>

(* The disk catches up.                                                     *)
Flush ==
  /\ flushed # prefs /\ flushed' = prefs
  /\ UNCHANGED <<prefs, page, handling, visits, owned, overlapped>>

(* The process ends and is started again: what was not flushed is lost.     *)
Restart ==
  /\ visits < MaxVisits /\ visits' = visits + 1
  /\ prefs' = flushed /\ page' = NewPage
  /\ \E c \in LockerCalls :
       handling' = [o \in LockerCalls |-> IF o = c THEN Loading ELSE NoWork]
  /\ overlapped' = (overlapped \/ flushed # prefs \/ flushed.apps # flushed.flat
                      \/ \E c \in LockerCalls : handling[c].op # "rest")
  /\ UNCHANGED <<flushed, owned>>

NothingStored == [stored |-> FALSE, on |-> FALSE, apps |-> {}, flat |-> {}]

LockerInit ==
  /\ prefs = NothingStored /\ flushed = prefs
  /\ page = NewPage /\ visits = 0 /\ owned = {} /\ overlapped = FALSE
  /\ handling = [o \in LockerCalls |-> NoWork]

LockerStep(c) ==
  \/ Toggle(c) \/ AddApp(c) \/ RemoveApp(c) \/ ReadPolicy(c)
  \/ ConfirmChange(c) \/ RefuseChange(c) \/ SavePolicy(c) \/ SetLockedApps(c) \/ Report(c)

LockerNext == (\E c \in LockerCalls : LockerStep(c)) \/ Reopen \/ Flush \/ Restart

LockerSpec == LockerInit /\ [][LockerNext]_lockerVars

-----------------------------------------------------------------------------
AtRest == page.loaded /\ ~overlapped /\ \A c \in LockerCalls : handling[c].op = "rest"

(* What the page lists is what is locked: both copies of the list, and a    *)
(* shield shown as on is on for every app of it.  A shield shown as off may *)
(* be on: setLockedApps switches it on whenever its list is not empty.      *)
PageTellsTheTruth ==
  AtRest => /\ page.apps = prefs.apps /\ prefs.flat = prefs.apps
            /\ page.on => prefs.on /\ Enforced = page.apps

(* An app reported as locked stays locked until its own removal: no switch  *)
(* and no other app takes it off the list, unless calls overlapped.         *)
OwnedStayLocked ==
  overlapped \/ \A a \in owned :
    \/ a \in prefs.apps /\ a \in prefs.flat
    \/ \E c \in LockerCalls : handling[c].op = "remove" /\ handling[c].app = a /\ handling[c].pc # "read"

ListIsEnforced == PageTellsTheTruth /\ OwnedStayLocked
=============================================================================
