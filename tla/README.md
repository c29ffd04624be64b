# TrustID: TLA+ models, model checks and proofs

This directory holds a formal model of the part of TrustID where the program's own logic meets
concurrency: HTTP handlers that read a row, await, and write it back; compare-and-set updates;
expiry that nobody announces; store operations that fail half way; pages and native shells whose
answers come late.  Twenty-five components are modelled, checked by TLC on small instances, and
most of what the checks say is proved by TLAPS for every value of the constants.

    tlc -workers 2 -config StepUp_contract.cfg MCStepUp     one run
    tlapm StepUpProofs.tla                                  one proof module

`PROJECT.json` lists the runs, the lines each definition models, the hazards and the theorems.

## 1. The system

TrustID is a TypeScript monorepo: a Fastify API over PostgreSQL (Prisma), packages shared by the
parties of the protocol, a relying-party service (Digi), web front ends and an Android shell.
Paths are relative to `src/`; `M/` stands for `apps/api/src/modules/`.

| component | state it keeps | module | extent |
|---|---|---|---|
| device approval `M/device-approval` | `DeviceApprovalRequest` rows, the devices and sessions it makes | `DeviceApproval` | all but `completeApprovalEnrollment` |
| step-up `M/step-up` | `StepUpChallenge` rows | `StepUp`, contract `OneTimeApproval` | all |
| delegated authority `packages/digi-authority` | grants, requests, consumed token ids; lanes in memory | `DigiAuthority`, contract `UsageBudget` | all |
| devices and primary trust `M/devices`, `M/passkeys` | `Device`, `Credential`, `Session` rows | `Devices` | all but renaming and views |
| pairing `M/devices/enrollment.ts` | one `DevicePairingRequest` | `Pairing` | all |
| sessions `M/sessions` | `Session` rows | `Devices`, `DeviceApproval` | creation and revocation |
| device sync `M/device-sync` | prekey bundles, envelopes | `DeviceSync` | all |
| sign-in ceremonies `M/authentication` | challenges, counters, installs | `Ceremonies` | WebAuthn's own verification is a free choice |
| legacy challenges `M/trust-id/challenges.ts` | challenge rows, the Master Device | `LegacyChallenge` | all |
| sign-in by face `M/trust-id/fusion.ts` | the terminal's standing | `SignIn` | the matcher is a free choice |
| face enrolment, matcher, hot cache `M/trust-id` | template rows, vector columns, caches, the advisory lock | `Faces` | faces are points on a line, the approximate index leaves out whom it likes |
| OAuth `M/authorization` | authorizations, codes, tokens | `OAuth`, contract `OneTimeTicket` | one application, PKCE left out |
| trust bridge, digi-bridge, digi-rp | assertions, spent marks, owners, sessions | `TrustBridge`, contract `OneTimeTicket` | the PostgreSQL store |
| identity verification, verified identity | portraits, verifications, profile versions | `VerifiedIdentity` | media bytes left out |
| recovery `M/recovery` | circles, sessions, collected indexes | `Recovery` | all |
| biometric evaluation `M/biometric-eval` | files of participants, rounds, captures, exports | `EvalStore` | all |
| ambient sign-in `packages/ui-react` | attempts, captures, candidate | `AmbientAuth` | all |
| silent login `packages/ui-react` | shown identity, session cookie, shared ceremony | `SilentLogin` | all |
| face capture `packages/sdk/src/capture` | the camera slot, streams, frames | `FaceCapture` | what a frame shows is free |
| face engine `packages/sdk/src/capture/biometric` | runtime, recogniser, detector | `BiometricEngine` | arithmetic left out |
| binaries of the engine (same directory) | partial downloads, Cache Storage | `AssetDelivery` | all |
| sovereign vault `packages/vault-sdk`, `apps/web` | session key, sealed assets, decoy | `SovereignVault` | ciphers opaque |
| Android updater `apps/device/android/.../ota` | manifest, APK, installer | `Updater` | all |
| app lock (page, plugin, service) | the list twice, overlay, guard | `AppLocker`, `LockGuard` | all |
| device keys, media vault (Android) | Keystore keys, sealed files, catalog | `DeviceKeys` | the web page left out |
| realtime, zero-knowledge, baas, elfcom, audit, attestation, assurance, demo apps, SDKs | - | - | not modelled, see 5 |

**How they interact.**  All API components share one database and call each other in process.
Device approval reads `ensurePrimaryDevice`/`assertPrimaryDevice` (devices), creates devices and
sessions, and is undone by revocation.  Step-up reads the OAuth access token of its caller, the
subject's Master Devices and the face matcher.  Sign-in by face ends in a session, a device
approval or an enrolment.  Pairing and device approval make devices without a passkey, which then
count as primaries or not in `Devices`.  `digi-authority` is a library over a store interface: the
relying party's service runs it in one process, or in several over one Postgres store; the trust
bridge exchanges a signed assertion for a session of that service.  The web clients capture faces
with the engine `AssetDelivery` and `BiometricEngine` bring up, share one camera slot
(`FaceCapture`), and show what `AmbientAuth` and `SilentLogin` decide.  Realtime, audit and
notifications are told what happened and are never read back.

**What is hard.**  Most handlers are not transactions: between the read of a row and its update
there are awaits, and the update is by id alone, so any decision may rest on a stale row.  Where
the code uses compare-and-set (step-up, digi-authority, OAuth codes) the question moves to
everything *around* the update: counts before inserts, counters and limits in two statements, a
token id burnt before the use is reserved, an answer signed after the row was consumed.  Expiry is
lazy everywhere.  Any await may throw and the process may be killed between two writes; calls that
stop half way are modelled in `DeviceApproval`, `StepUp`, `DigiAuthority`, `Pairing`, `Faces`, `OAuth`,
`TrustBridge` and `VerifiedIdentity`, and in the others a call runs to its end.  In the clients, a capture, a download or a prompt that was given up may answer after all.

**What makes the components correct.**  Where compare-and-set protects a promise the property is
the promise itself.  Where read-await-write does not protect it, the property says *exactly when*
the promise can fail: "an account keeps a primary device unless a revocation overlapped another
operation".  Such a property is stronger than it looks: it says that every sequential execution is
right, that every other overlap is harmless, and (since the mutants break it) that the listed
overlaps are not an excuse for other bugs.

## 2. The modules

Every model works at the grain of the code's awaits.  A *call* is a handler invocation: a record
with a program counter (`pc`, the statement that runs next) and the handler's local variables.
One action is one database statement with the code up to the next await.  Time is a set of
deadlines that have passed; a deadline passes at any moment.  A handler's early return without a
change of state is left out (a step that changes nothing) unless it ends a call already in flight.
Variables called *history* or *ghost* (`together`, `met`, `crossed`, `excused`, ...) record that an
overlap happened; no guard reads them.

Definitions named `X_y` are `X` with the plausible bug `y`; no specification uses them.  They show
that a property is able to fail.

### Approval, step-up and delegated authority

**DeviceApproval** (one request; `service.ts`, `fsm.ts`).  `row` is the `DeviceApprovalRequest`;
`late` says that its `expiresAt` is past; `held` that the guest got its poll token; `call[c].seen`
is the row as the handler read it, which is all that `Transition` (`transitionApprovalFsm`) tests
before it overwrites `row`.  `device` and `sessions` are the rows that claims and temporary
approvals create, `decisions` is a history.  Master handlers are `Respond`, `LoadRow`, `Confirm`,
`CreateTemporaryDevice` and the `Write...` actions; guest handlers `CreateRequest`, the three-path
push (`Push...`), `Poll`, `Claim...`; the account's device management (`RevokeDevice`,
`TerminateTemporaryDevice`, `PromoteDevice`) interleaves with them, each in one step (its own races
are in `Devices`).

**StepUp** (`service.ts`, `master-device-keys.ts`, `pad-policy.ts`).  `ch` holds the challenge
rows, `expired` those past `expiresAt`, `active` the usable Master Devices, `approvals` the signed
statements given out.  Creation is count / enrolment check / insert; an approval is read / verify /
compare-and-set (`Start...Approval`, `Verify`, `MarkApproved`) or a counted failure
(`CountFailure`, `ApplyLimit`); consumption is read / compare-and-set / sign.  `OneTimeApproval` is
what it promises, and `KeepsContract` is the refinement: status is mapped by `Promise`, everything
else directly.

**DigiAuthority** (`service.ts`, `postgres-store.ts`, `policy.ts`, `tokens.ts`).  `grant`,
`request`, `consumed` are the tables; `token[t]` is the grant a signed token names; `ended` and
`lapsed` are grants and tokens past their time.  `Home[c]` is the process a call runs in: the
database is shared by all, the lanes of `enqueue` (`LaneFree`) only by calls of one process.
`lost` records grants whose approval died before it resolved its request.  `UsageBudget` is the
promise; the mapping counts a one-time grant as a limit of one, and revoked or ended as shut.

### The account

**Devices**: registration (first and further passkeys), login, revocation, promotion, passkey
removal, Master binding, and devices made by an approval, each statement an action; `together`
records the pairs of operations that were in flight at once.  **Pairing**: one row, read by every
handler and written back by id; `entered` are the claims that got a session.  **DeviceSync**: the
one-time prekeys are read and written back whole; envelopes live in the data zone or in the local
table.  **Faces**: a face is a point, two match within `Threshold`; the enrolment lock is a
transaction that may time out under its holder, the template row and its vector column are two
writes, and every process has a hot cache beside the shared one.  The index is approximate
(`fetchAnnTopK`; `retrieval-policy.ts:32` says that the declared `ef_search` does not reach the
query): its answer is any set of at most `TopK` indexed people, and `Missed` names those who pass
and whom an answer that is not exact leaves out.  `overlooked` keeps who was cleared that way:
`docs/ENROLLMENT_INTEGRITY_ANN_GOVERNANCE_V1.md` measures such false clears, so two identities of
one face need neither a lost lock nor a half-written row, and `OneIdentityPerFace` says so.  **SignIn**: two modalities are
fused, and the terminal's standing decides between a session, an approval and an enrolment.
**SilentLogin**: the identity a page shows and the session its browser holds, changed by probes,
buttons, refreshes and logouts at their own pace.  **Ceremonies**: challenge rows consumed by an
unconditional update, signature counters written by id, and the binding of a phone to an account.

### What others hold

**OAuth**: consent, codes, tokens and revocation of one application; codes refine
`OneTimeTicket`.  **TrustBridge**: issue under the rate limit, key publication and the three writes
of an exchange in one transaction, with the row visibility of PostgreSQL; assertions refine
`OneTimeTicket` too, the commit of an exchange being the step that takes one.  **LegacyChallenge**:
issue under a cap, approval by conditional update, lazy expiry by id.  **VerifiedIdentity**:
portraits, verifications, the version of the profile, assertions.  An assertion takes its claims
from the profile and, in a later step, its portrait from the portrait's own row (`ReadPortrait`,
`assertions.ts:122`), while a change writes that row first and the profile after it (`Between`):
an assertion of the present version may then leave out a portrait the profile still shows, or name
one already revoked.  A call may stop anywhere, between those two writes too (`CallStops`), and what
it leaves then lasts until the next change (`halted`).  **Recovery**: circles, and
sessions whose index list is read and written back whole.

### Clients, devices and files

**AmbientAuth** (the sign-in screen; each capture answers when it likes), **FaceCapture** (the
camera slot), **BiometricEngine** (one pass at a time brings runtime, detector and recogniser up),
**AssetDelivery** (cache, app bundle, ranges over several bases, shared partials), **Updater**
(check, resumed download, verification, installer), **SovereignVault** (the key of a session,
assets in memory and in IndexedDB, duress), **AppLocker** (the list as page, plugin and
preferences hold it; a shield the page shows off may be on, since `setLockedApps` switches it on
whenever its list is not empty), **LockGuard** (the service that covers a locked app), **DeviceKeys**
(Keystore keys and the files they seal), **EvalStore** (a directory, with stops between writes).

### Compositions

`MCAccount`, `MCSharing`, `MCIdentity` and `MCClients` each extend several of these modules and
give their constants small values.  A behaviour runs one of the components, `chosen` at the start,
and leaves the others in their initial states: the components of a suite share no state in the
code, so interleaving them would only multiply states.  `MCLiveness` does the same for the three
core components under their fairness.  `MCDeviceApproval` and `MCStepUp` hold two instances of
their component with different constants, of which a behaviour runs one, and `MCDigiAuthority`
runs `DigiAuthority` or `LegacyChallenge`.  The modules `...Proofs`
hold the theorems; `AccountProofs`, `SharingProofs`, `IdentityProofs` and `ClientsProofs` go with
the suites of the same name (and `SharingProofs` with `LegacyChallenge`), and the theorem about `Faces`, the longest, has `FacesProofs` to itself.

## 3. The runs

| run | instance | what it shows |
|---|---|---|
| `approval_decisions` | two guest calls, one master call, two new devices, three session ids (one more than claims); beside it two masters and one guest that may die | only what a primary decided is granted (`AccessNeedsDecision`); a session is temporary exactly when its device is (`SessionKindMatchesDevice`); no more sessions than claims in flight (`ClaimsAreBounded`); a request past its deadline, with no decision loaded, never becomes approved (`ClosedStaysClosed`); the first two hold when calls die (`DyingCallsAreSafe`) |
| `stepup_contract` | two relying-party calls, two tokens, two operations, one subject call, a crash; beside it two creates and two attempts with limits of one | `KeepsContract`; only the bound Master Device over the challenge itself approves (`ApprovalIsProven`); how far cap and attempt limit can be passed, and no further, and that an approval is consumed without an answer only where a call died (`LimitsAreKept`, `OverlapsAreBounded`) |
| `digi_requests` | one process, one request, two calls, a failure; beside it two calls on three legacy challenges with a cap of one | a request is decided once (`GrantIsRecorded`); overlapping checks multiply a limit by at most their number, and no more tokens of live one-time grants are burnt than calls died (`WasteIsBounded`); the cap on legacy challenges is passed by overlapping issues only, and each is decided once, by the Master Device (`LegacyIsSound`) |
| `account` | three calls, three devices, one death, bundles of two, two face calls on three people and three points with answers of two, one terminal | `DevicesAreSound`, `CodeOpensOnce`, `OneTimeUse`, `FacesAreSound`, `SignInIsSound`, `SilentIsSound` |
| `sharing` | three calls, two codes, two scopes, one death or failure, two keys, two pages | `ConsentIsCurrent`, `CodesAreTickets`, `SpentForOneSession` (an assertion gives one session, and is a one-time ticket of `OneTimeTicket`), `CameraIsShared`, `VaultIsSound` |
| `identity` | two calls, two rows of each kind, two bumps, one call that stops, threshold of two, two key epochs, two edits | `CeremoniesAreSound`, `IdentityIsSound`, `RecoveryIsSound`, `RevokedStaysRevoked`, `MediaIsSafe`, `ShieldIsSound` |
| `clients` | two attempts, four passes, a file of three cells in ranges of one, three releases of two blocks, three captures, one stop | `EnrolsTheFaceScanned`, `ReadyIsChecked`, `FilesAreWhole`, `InstallerGetsAVerifiedApk`, `ListIsEnforced`, `DeletedLeaveTheExport` |
| `liveness` | one small fair instance of each core component, two processes for delegated authority | a waiting guest's request settles (`GuestIsAnswered`); the attempt limit is applied and a won consume yields its approval (`StepUpIsFinished`); a token taken is not burnt for nothing (`ConsumedIsUsed`); DigiAuthority implements UsageBudget (`KeepsBudget`) |
| `approval_final` | expected violation | a terminal outcome is overwritten by a handler that read the row before |
| `stepup_three` | expected violation | an approval lands between the third failure's count and its denial |
| `shield_denied` | expected violation | an app whose prompt ends in an error within 400 ms of its own interception comes up uncovered |
| `vault_reauth` | expected violation | an asset imported in this session cannot be streamed after re-authentication |

**Findings** (the four expected violations).
`packages/shared/src/index.ts:99` calls four statuses terminal while the update at `fsm.ts:161`
tests nothing; `apps/api/tests/step-up.test.ts:183` says that after three failures a correct
signature no longer approves, which holds when the calls come one after the other
(`M/step-up/service.ts:362`); `docs/TIER1_DEVICE_SECURITY.md:73` says "The target task stays
obscured until success", and every error of the prompt takes the overlay down
(`OverlayGuardActivity.kt:104`), after which the window of the locked app is ignored if it comes
within 400 ms of the interception (`AppLockService.kt:99`): `TargetStaysObscured` is the documented
promise, and `LockedAreCovered`, which `ShieldIsSound` checks, names the throttle as its exception;
`VaultProtectedMediaViewer.tsx:18` streams after a re-authentication whose `lock()` destroyed the
key of the stream (`packages/vault-sdk/src/crypto/dak.ts:80`).

**Bounds.**  Identifiers are drawn from finite pools; when a pool is empty a create ends its call
or is not started.  `MaxCrashes`, `MaxDeaths`, `MaxFailures`, `MaxFaults`, `MaxStops` count the
calls that may die or fail; `MaxUses`, `MaxBumps`, `MaxPublications`, `MaxWindows`, `MaxEdits`,
`MaxPages` and their like end what could go on for ever.  `MaxPending`, `MaxFailedAttempts`,
`Quorate`, `BundleSize` are parameters of the code set to 1 or 2: the interesting cases are at the
limit and one past it, and both are reached with two calls side by side.  Two calls on one row are
enough for every two-party race of the code; a third call is added where two of a kind must meet
one of the other.  The theorems do not depend on any of these numbers.

**Symmetry** is used in runs that check invariants and action properties only.

**Deadlock** is checked in the three core runs: there, calls can always be made, or time can pass,
or a call is on its way.  In the other runs every call is made once and a behaviour ends when all
are done, so it is not checked.

**Fairness** (only in `liveness`).  A handler that was started runs to its end: Node resumes it
when its await settles (`WF` on the steps of each call, and on no step that starts one).  In
`DeviceApproval` moreover the waiting page polls every 2.5 s and the clock reaches the deadline; a
step that writes an expiry is fair by itself, because a call that stands before it can do nothing
else.  Nothing makes a master answer, a guest claim, or an owner decide.  Runs with fairness have
no crashes: a call that died is not continued by anything in the code, so the liveness properties
say what holds as long as no process dies.

## 4. What is proved

For every value of the constants: any number of calls, devices, challenges, codes, releases, any
policy, deaths without bound.  Assumptions are the named `...Assumption` of each module (that a
limit is a natural number, that a "no such row" value is not a row) and those the table names.

| theorem | says |
|---|---|
| **DeviceApprovalProofs** `TypeCorrect`, `AccessIsDecided`, `KindsMatch`, `DeadlineCloses` | type correctness, `AccessNeedsDecision`, `SessionKindMatchesDevice`, `ClosedStaysClosed` |
| `ClaimsStayBounded` (finitely many guest calls) | `ClaimsAreBounded` |
| **StepUpProofs** `TypeCorrect`, `ApprovalsAreProven` | type correctness, `ApprovalIsProven` |
| `ContractKept` | StepUp implements OneTimeApproval |
| `SettledStays` | read off the contract: a refused, cancelled or redeemed challenge stays so, and none is approved or consumed once its time is over |
| `LossesAreBounded` | no more approvals are consumed without being signed for than calls died |
| `LimitsHold` (finitely many calls, a relying-party call, a limit that is not zero) | `LimitsAreKept` |
| **DigiAuthorityProofs** `TypeCorrect`, `BudgetKept` | DigiAuthority implements UsageBudget, in however many processes |
| `RequestsDecidedOnce` (`OneProcess`) | `GrantIsRecorded` |
| `UsesWithinBounds` | read off the contract: no grant is used more often than each of the bounds it was opened with, so a one-time grant once at most |
| `WasteBounded` (finitely many calls) | `WasteIsBounded`; its half `BurntTokensBounded` holds for any calls |
| **AccountProofs** `DevicesAreSoundHolds`, `CodeOpensOnceHolds`, `OneTimeUseHolds`, `SignInIsSoundHolds`, `SilentIsSoundHolds` | the properties of those names |
| **FacesProofs** `FacesAreSoundHolds` (finitely many people, `TopK` at least 2) | `FacesAreSound` |
| **SharingProofs** `ConsentIsCurrentHolds`, `CameraIsSharedHolds`, `VaultIsSoundHolds` | the properties of those names |
| `CodesAreTicketsHolds` | the exchange of codes implements OneTimeTicket |
| `SpentCodesStaySpent` | read off the contract: a code that gave tokens never opens again, and nobody else spends it |
| `SpentForOneSessionHolds` | an assertion gives one session, and the bridge implements OneTimeTicket |
| `LegacyIsSoundHolds` (finitely many calls) | `LegacyIsSound` |
| **IdentityProofs** `CeremoniesAreSoundHolds`, `IdentityIsSoundHolds`, `RecoveryIsSoundHolds`, `RevokedStaysRevokedHolds`, `MediaIsSafeHolds`, `ShieldIsSoundHolds` | the properties of those names |
| **ClientsProofs** `DeletedLeaveTheExportHolds`, `ReadyIsCheckedHolds`, `EnrolsTheFaceScannedHolds`, `FilesAreWholeHolds`, `InstallerGetsAVerifiedApkHolds`, `ListIsEnforcedHolds` | the properties of those names |

Each proof defines an inductive invariant, shows that the initial states satisfy it and that every
action preserves it, with a step or a lemma per action, and derives the property.  None of the
properties is inductive as it stands; the reasons are the arguments for the code.

*DeviceApproval.*  A claim creates a session from the copy of the row it read.  `IInv` says of
every copy in flight what it says of the row (`Backed`: a granted status rests on a decision;
`NamesTemporary`: an unclaimed temporary grant names a temporary device), and both facts stay true
because decisions only grow and a temporary device never changes its level.  `DeadlineCloses` adds
that a call at a writing step has a live decision loaded.  `ClaimsInv` counts: until a claim is
recorded there are no more sessions than calls about to record one; afterwards no claim begins, so
sessions and claims under way together stay within the guest calls.

*StepUp.*  A call is described by what its earlier steps established (`Good`): about to sign means
the row is consumed, for the same ask, without a statement yet; and at most one call is about to
sign a challenge (`OneSigner`), which the compare-and-set of `Consume` gives.  For the limits,
`OpenBounded` already counts the create calls between their count and their insert, so `OpenInv`
only adds that the sets are finite; `AttemptsInv` says that a pending challenge is at or past its
limit only by calls that still have to apply it, or died before they did.  `LossInv` charges the
approvals nobody signed for to the crashes: a crash takes one call from the signature and so adds
one at most, and every other step leaves a consumed challenge with its signer or its signature.

*DigiAuthority.*  That a one-time grant is used once rests on `RowInv`: one that is still `ACTIVE`
has no uses, since `reserveUse` counts and consumes in one update; the jti is not needed for it.
`GrantIsRecorded` needs the lane: `DecisionInv` says that two calls never hold the same request,
that a request being decided is pending, and that a call about to resolve carries a grant made for
its request.  Across processes the lane is not shared and `resolveRequest` is unconditional, so the
theorem assumes one process.  `LiveInv` bounds the live grants of a key together with the calls about to create
one; `OwnersKeys` keeps the other source of grants, the owner's approvals, away from that key.
`BurntInv` charges burnt tokens to failures as `LossInv` does.  It needs that a consumed token
names a one-time grant that exists and that a call about to reserve has consumed its own
(`TokenInv`), and that a grant which stopped being live stays so (`Settled`): otherwise a token
taken in vain for a dead grant could become a loss later, with nobody dead to charge it to.

*Devices.*  `DevInv` has three parts.  Calls in flight at once have met (`together`).  Until two
registrations overlapped there is at most one passkey, and none while a registration is about to
make one.  Until anything overlapped, a call that is about to revoke knows whether its target is a
primary and that another one remains, a call that promotes has a passkey and an active target, and
nobody knows of a device that is not made yet.  The last clause is what makes the induction close:
counts are compared with rows that may be created between the count and the write.

*Pairing, DeviceSync.*  `OneEntered`: whoever entered takes the token away before the next claim
gets to its session, unless claims met or one died; `CodeInv` keeps approvals from writing a token
back.  `KeysInv`: a key that went to a call which met no other is in no list any more, neither in
the row nor in the copy a fetch holds.

*SignIn.*  `StepsOK`: a call about to open a session found the terminal to be its person's own, or
the standing shifted under it; one about to mint had no match for the face and none for the print.
*SilentLogin.*  `LoginInv`, as long as nothing is in `causes`: an answer that is not stale names the
session, the page is empty while a logout is on its way, and a page that shows something else is
about to be told.  `SlotInv`: a ceremony that is not over is the one in the shared slot.

*Faces.*  `LockInv`: whoever is between taking the advisory lock and giving it back holds it, until
one is lost.  `RowInv`, as long as nothing was lost and no call stopped half way (`Clean`): row and
vector column agree, but for the call about to write the column; a face that passed the duplicate
check is near nobody else's until it is written; so no two people are near each other.  The last
two leave out the pairs in `overlooked`: what an answer shows is proved of one that is exact, and
of one that is not, whoever passes and is left out is `Missed` and goes there.  `Coherent`: a face in
a hot cache is the present one or was superseded.  `RivalInv`: two enrolments overlap only as
rivals, so the one that binds the install finds it free; `StrayInv`: an identity without a device
has its enrolment under way.
The theorem takes `TopK` to be at least 2.  The code's default is 50, but `resolveTopK` allows 1,
and then a person's own template may fill the answer of the duplicate check that a new face of
theirs goes through, which passes over it and sees nobody else.  For the same reason what
identification says of a second person leaves out `CrowdedOut`, where columns that are apart from
their rows may fill an exact answer.  That case came up in the proof: the run's instance is too small
to reach it.

*OAuth.*  `CoverInv` follows the scopes from the grant over the code and the call that exchanges it
to the token; `GrantInv` and `MergeInv` say what a call that rewrites a grant knows of it.
*TrustBridge.*  `LocksInv`: an open transaction holds the row of its assertion, perhaps that of
its subject, and nothing is held twice; `OwnerInv`: past the owner it brings a new one for a subject
that has none, or has read the subject's.  For the ticket `MintInv` adds that a call which has not
returned has handed nothing out, so that a newly minted assertion is new; the takers of an
assertion are the calls whose sessions it gave.  *LegacyChallenge.*  `CapInv` counts open
challenges and the calls about to add one against the peak of issue calls; `SlowInv`: a call that
takes an approved challenge for open finds it elapsed only if it was slow.  *FaceCapture.*  `SlotInv`: whoever took
the slot is in it, or was pushed out of it unaborted, or aborted and not waited for; an aborted
scan films no more.
*SovereignVault.*  `DecoyInv`: behind the decoy, unless an unlock was late, there is no key and
none on its way; `ImportIsAlone`, `ReadIsOnDisk` and `NothingWritesErased` say who holds a copy of
an asset, and that nobody who is not excused holds one of an erased asset.

*Ceremonies.*  `AcceptInv`: an accepted challenge is used, and of two calls that read it open one is
accepted first and meets the other; `PhoneInv`: a phone bound under a registration was bound by
another one beside it; `CountInv`: the counter a call judges against is the stored one, but in a race.
*VerifiedIdentity.*  `VersionInv`: claims that bear the version the profile has say what the profile
says, unless a bump was lost; `NamesInv` and `LookUpInv`: their portrait was read last, so it is the
one to name until a change is between its rows and the profile, unless one stopped there; `PortraitInv`: a completion that is alone has listed every other verified
portrait; `SettledInv` says what holds while no change has touched a row.
*Recovery.*  `UnderwayInv`: what could still reopen a revoked circle was noted when it was revoked;
`CollectInv`: a submission that is alone in its session writes back all it read; `OneLiveCircle`
treats a circle being recovered like an active one.
*DeviceKeys.*  `TaskOK` says what a prompt was shown for: the gate's public key is of the entry that
signs, and an import seals with the vault's present key, which never changes once it is made.
*LockGuard.*  `GuardInv`: a locked app in front without the guard is about to be seen, has the guard
on its way, was let through, or fell into the throttle of its own interception.  An overlay is no excuse of its own, as `Deny` takes it down; that
makes the invariant inductive.

*EvalStore.*  `ComparedImageIsNew`: the image being recorded was new when it was compared, and nothing
is recorded in between.  *Updater.*  `LaunchesAreVerified`: the file a posted launch names was whole and genuine
when it was verified, and nothing replaced it unless `raced`.  *AmbientAuth.*  `CandidateIsOfNow`,
`SignalIsOfNow`: the candidate on screen is of the attempt on screen, or is marked late or kept.
*BiometricEngine.*  `OrtIsEnteredOnce`: one creator enters ORT, which is then ready or failed for good;
`CreatorsServeThePass`, `WarmupStands`, `ExtractorStands`: whose recogniser and detector a pass has
checked, and that nobody replaces them unseen.
*AssetDelivery.*  `BundleInv`: a verdict is about the bundle of its installation.  `FreshInv`: the
partials a load has yet to make are nobody's.  `WholeInv`, until a load takes over a partial that
another one is filling: a partial is filled by one load, which asks for what comes next in it, so
bytes are put where they belong although the code puts them wherever the partial ends by then.
What is restored from Cache Storage is a run of entries, each beginning where the one before ends;
`RunFacts` says that each place of the run is held by one of them.  Its proof looks at the first
entry that ends at the place or behind it, and `FirstOf`, that every set of positions has a first
one, comes from the well-founded order on finite sets, as induction is not at hand.
*AppLocker.*  `OneEditor`: the page on screen has one edit under way; `WritesStand`, `OwnedInv`,
`PageInv`, until page and process overlapped: what that edit wrote stands until it is reported, and
only a removal that has begun to write separates the page, or what was reported locked, from the list.

**Only model-checked.**

- The liveness properties (`GuestIsAnswered`, `StepUpIsFinished`, `ConsumedIsUsed`): fairness and
  ENABLED are out of the prover's reach.
- `DyingCallsAreSafe` and `OverlapsAreBounded`, which say of a second small instance what the
  theorems `AccessIsDecided`, `KindsMatch` and `LimitsHold` say of every instance.
- The four violated properties, which are false.

## 5. Not modelled, and why

Cryptography (signatures are "made by this key over this challenge"; zero-knowledge and BBS
proofs are algebra), face arithmetic (a match is a free outcome, or the distance of two points),
tokens as strings, audit and notification contents, rate limits at the HTTP edge except those of
the trust bridge.  `completeApprovalEnrollment` needs a token no handler returns.  Realtime only
delivers; baas and elfcom forward calls; audit, attestation and the assurance lab append records
or measure offline; the demo apps and the remaining pages show what the API holds; the client SDKs
wrap requests.  Sliding expiry and the sealed presentation of sessions, the SQLite and in-memory
stores of the bridge, and the browser's media vault page are left out.

## 6. Plan

Every safety property that a run checks has its theorem, but for the second small instances of
properties that have one.  What
could come next, in this order:

1. `completeApprovalEnrollment`, once a handler hands out the token it needs.
2. The SQLite store of the bridge, against `OneTimeTicket` like the PostgreSQL one.
3. Sliding expiry of sessions, which would give `Devices` a clock.
