---------------------------- MODULE DigiAuthority ----------------------------
(***************************************************************************)
(* Delegated authority: packages/digi-authority/src/service.ts over its    *)
(* stores.  An actor asks whether it may act; a policy answers, or the     *)
(* owner does; an allowed actor holds a grant, from which short-lived      *)
(* signed tokens are issued; a consumer has each token accepted before it  *)
(* acts.                                                                    *)
(*                                                                          *)
(* Each store operation is a step.  The store is shared by all processes;  *)
(* the lanes that serialise the decisions on a request (enqueue) live in   *)
(* the memory of one process.  Columns no update changes (limits, oneTime, *)
(* conditions) are read from the row whenever a call needs them.  Audit    *)
(* records, and calls refused without a change, are left out: another      *)
(* owner's grant or request is "not_found" to every handler, and an actor  *)
(* that is its own owner is denied, like a key whose policy says DENY.     *)
(*                                                                          *)
(* A definition named X_y is X with a plausible bug y; no specification    *)
(* uses it.                                                                 *)
(***************************************************************************)
EXTENDS Naturals, FiniteSets

CONSTANTS
  Keys,          \* who asks for what: owner, actor, audience, action, resource
  Policy,        \* the policy's match for each key
  Grants,        \* grant ids, random and never reused
  Requests,      \* request ids, random and never reused
  Tokens,        \* token ids (jti), random and never reused
  Calls,         \* handler invocations
  Home,          \* the process each invocation runs in
  MaxFailures,   \* bound: how many calls may die half way
  MaxUses,       \* bound: no token of a grant used this often is presented
  None

(* decision, limits, requireStepUp and oneTime as evaluateActorPolicy       *)
(* returns them; payment: a CRITICAL "payment.approve".  Only the numbers   *)
(* of the limits matter: an empty set is no limit.                          *)
Match == [decision : {"ALLOW", "ALLOW_WITH_LIMITS", "ASK_OWNER", "DENY"},
          limits : SUBSET Nat, oneTime : BOOLEAN, requireStepUp : BOOLEAN,
          payment : BOOLEAN]

ASSUME ConstantsAssumption ==
  /\ Policy \in [Keys -> Match]
  /\ MaxFailures \in Nat /\ MaxUses \in Nat
  /\ None \notin Keys \cup Grants \cup Requests \cup Tokens

VARIABLES
  grant,      \* authority_grants
  ended,      \* grants whose validUntil is past
  request,    \* authority_requests
  token,      \* the grant each issued token was minted from
  lapsed,     \* tokens whose own exp is past
  consumed,   \* authority_consumptions: the jtis taken
  call,       \* the state of each handler invocation
  lost,       \* grants whose approval died before it resolved the request
  failures    \* how many calls have died

vars == <<grant, ended, request, token, lapsed, consumed, call, lost, failures>>

-----------------------------------------------------------------------------
(* from: the request a grant was created for, kept for the properties only  *)
NoGrant == [status |-> "absent", key |-> None, limits |-> {}, oneTime |-> FALSE,
            conditions |-> FALSE, uses |-> 0, from |-> None]

Grant == [status : {"absent", "ACTIVE", "CONSUMED", "REVOKED"},
          key : Keys \cup {None}, limits : SUBSET Nat, oneTime : BOOLEAN,
          conditions : BOOLEAN, uses : Nat, from : Requests \cup {None}]

NoRequest == [status |-> "absent", key |-> None, stepUp |-> FALSE, grant |-> None]

Request == [status : {"absent", "PENDING", "ACTIVE", "DENIED"},
            key : Keys \cup {None}, stepUp : BOOLEAN, grant : Grants \cup {None}]

(* pc: the store operation the handler executes next; req is set for the    *)
(* two decisions on a request, and only for them                            *)
Pcs == {"idle", "create", "grant", "resolve", "refuse", "deny", "mint",
        "revoke", "jti", "reserve"}

IdleCall == [pc |-> "idle", key |-> None, req |-> None, oneTime |-> FALSE,
             grant |-> None, token |-> None]

Call == [pc : Pcs, key : Keys \cup {None}, req : Requests \cup {None},
         oneTime : BOOLEAN, grant : Grants \cup {None}, token : Tokens \cup {None}]

grantIsLive(g) == grant[g].status = "ACTIVE" /\ g \notin ended

limitExceeded(g) == \E n \in grant[g].limits : grant[g].uses >= n

Finish(c) == call' = [call EXCEPT ![c] = IdleCall]

Go(c, next) == call[c].pc = "idle" /\ call' = [call EXCEPT ![c] = next]

-----------------------------------------------------------------------------
Init ==
  /\ grant = [g \in Grants |-> NoGrant]
  /\ ended = {}
  /\ request = [r \in Requests |-> NoRequest]
  /\ token = [t \in Tokens |-> None]
  /\ lapsed = {}
  /\ consumed = {}
  /\ call = [c \in Calls |-> IdleCall]
  /\ lost = {}
  /\ failures = 0

-----------------------------------------------------------------------------
(* check: the policy answers, asks the owner, or makes a grant              *)

Passes(k, stepUp) == Policy[k].requireStepUp => stepUp

CheckAsksOwner(c, k, stepUp) ==
  /\ call[c].pc = "idle"
  /\ Policy[k].decision = "ASK_OWNER" /\ Passes(k, stepUp)
  /\ \E r \in Requests :
       /\ request[r].status = "absent"
       /\ request' = [request EXCEPT ![r] =
            [status |-> "PENDING", key |-> k, stepUp |-> stepUp, grant |-> None]]
  /\ UNCHANGED <<grant, ended, token, lapsed, consumed, call, lost, failures>>

Serves_unspent(g, k) == grant[g].key = k /\ grantIsLive(g) /\ ~limitExceeded(g)

(* A live grant serves the key, spent or not; one that serves is returned   *)
(* (or refused as exceeded) and nothing changes.  approveRequest's grants   *)
(* have the same columns and serve as well.                                 *)
Serves(g, k) == grant[g].key = k /\ grantIsLive(g)

CheckFindsNone(c, k, stepUp) ==
  /\ Policy[k].decision \in {"ALLOW", "ALLOW_WITH_LIMITS"} /\ Passes(k, stepUp)
  /\ \A g \in Grants : ~Serves(g, k)
  /\ Go(c, [IdleCall EXCEPT !.pc = "create", !.key = k])
  /\ UNCHANGED <<grant, ended, request, token, lapsed, consumed, lost, failures>>

CreateGrant(g, k, limits, oneTime, conditions, r) ==
  /\ grant[g].status = "absent"
  /\ grant' = [grant EXCEPT ![g] =
       [status |-> "ACTIVE", key |-> k, limits |-> limits, oneTime |-> oneTime,
        conditions |-> conditions, uses |-> 0, from |-> r]]

CheckCreates(c) ==
  LET k == call[c].key IN
  /\ call[c].pc = "create"
  /\ \E g \in Grants : CreateGrant(g, k, Policy[k].limits, Policy[k].oneTime,
                                   Policy[k].requireStepUp, None)
  /\ Finish(c)
  /\ UNCHANGED <<ended, request, token, lapsed, consumed, lost, failures>>

(* The insert fails: nothing was written.                                   *)
CreateThrows(c) ==
  /\ call[c].pc \in {"create", "grant"}
  /\ Finish(c)
  /\ UNCHANGED <<grant, ended, request, token, lapsed, consumed, lost, failures>>

-----------------------------------------------------------------------------
(* approveRequest and denyRequest: one lane per request and process         *)

LaneFree_always(c, r) == TRUE

LaneFree(c, r) == \A d \in Calls : Home[d] = Home[c] => call[d].req # r

(* A payment asked for without step-up is refused on the owner's approval.  *)
Approve(c, r, oneTime) ==
  LET q == request[r] IN
  /\ q.status = "PENDING"
  /\ LaneFree(c, r)
  /\ Go(c, [IdleCall EXCEPT
              !.pc = IF Policy[q.key].payment /\ ~q.stepUp THEN "refuse" ELSE "grant",
              !.req = r, !.key = q.key, !.oneTime = oneTime])
  /\ UNCHANGED <<grant, ended, request, token, lapsed, consumed, lost, failures>>

Deny(c, r) ==
  /\ request[r].status = "PENDING"
  /\ LaneFree(c, r)
  /\ Go(c, [IdleCall EXCEPT !.pc = "deny", !.req = r])
  /\ UNCHANGED <<grant, ended, request, token, lapsed, consumed, lost, failures>>

ApproveCreates(c) ==
  /\ call[c].pc = "grant"
  /\ \E g \in Grants :
       /\ CreateGrant(g, call[c].key, {}, call[c].oneTime, FALSE, call[c].req)
       /\ call' = [call EXCEPT ![c] = [@ EXCEPT !.pc = "resolve", !.grant = g]]
  /\ UNCHANGED <<ended, request, token, lapsed, consumed, lost, failures>>

(* resolveRequest updates by id alone.                                      *)
Resolve(r, status, g) ==
  request' = [request EXCEPT ![r] = [@ EXCEPT !.status = status, !.grant = g]]

ApproveResolves_unlisted(c) ==
  /\ call[c].pc = "resolve"
  /\ Resolve(call[c].req, "APPROVED", call[c].grant)
  /\ call' = [call EXCEPT ![c] = [@ EXCEPT !.pc = "mint"]]
  /\ UNCHANGED <<grant, ended, token, lapsed, consumed, lost, failures>>

ApproveResolves(c) ==
  /\ call[c].pc = "resolve"
  /\ Resolve(call[c].req, "ACTIVE", call[c].grant)
  /\ call' = [call EXCEPT ![c] = [@ EXCEPT !.pc = "mint"]]
  /\ UNCHANGED <<grant, ended, token, lapsed, consumed, lost, failures>>

WriteDenied(c) ==
  /\ call[c].pc \in {"refuse", "deny"}
  /\ Resolve(call[c].req, "DENIED", None)
  /\ Finish(c)
  /\ UNCHANGED <<grant, ended, token, lapsed, consumed, lost, failures>>

-----------------------------------------------------------------------------
(* revoke: unconditional once the row was seen unrevoked                    *)

Revoke(c, g) ==
  /\ grant[g].status \in {"ACTIVE", "CONSUMED"}
  /\ Go(c, [IdleCall EXCEPT !.pc = "revoke", !.grant = g])
  /\ UNCHANGED <<grant, ended, request, token, lapsed, consumed, lost, failures>>

WriteRevoked(c) ==
  /\ call[c].pc = "revoke"
  /\ grant' = [grant EXCEPT ![call[c].grant] = [@ EXCEPT !.status = "REVOKED"]]
  /\ Finish(c)
  /\ UNCHANGED <<ended, request, token, lapsed, consumed, lost, failures>>

-----------------------------------------------------------------------------
(* issueToken, and the token approveRequest ends with                       *)

IssueToken(c, g) ==
  /\ grantIsLive(g) /\ ~limitExceeded(g)
  /\ Go(c, [IdleCall EXCEPT !.pc = "mint", !.grant = g])
  /\ UNCHANGED <<grant, ended, request, token, lapsed, consumed, lost, failures>>

Mint(c) ==
  /\ call[c].pc = "mint"
  /\ call[c].grant \notin ended
  /\ \E t \in Tokens : token[t] = None /\ token' = [token EXCEPT ![t] = call[c].grant]
  /\ Finish(c)
  /\ UNCHANGED <<grant, ended, request, lapsed, consumed, lost, failures>>

(* No time is left on the grant, or its owner's TrustID cannot be resolved. *)
MintThrows(c) ==
  /\ call[c].pc = "mint"
  /\ Finish(c)
  /\ UNCHANGED <<grant, ended, request, token, lapsed, consumed, lost, failures>>

-----------------------------------------------------------------------------
(* useToken: verify, read the grant, take the jti, reserve the use          *)

(* A token's exp is never past its grant's validUntil.                      *)
UseToken(c, t) ==
  LET g == token[t] IN
  /\ g # None /\ t \notin lapsed
  /\ grant[g].uses < MaxUses
  /\ grantIsLive(g) /\ ~grant[g].conditions /\ ~limitExceeded(g)
  /\ Go(c, [IdleCall EXCEPT !.pc = IF grant[g].oneTime THEN "jti" ELSE "reserve",
                            !.grant = g, !.token = t])
  /\ UNCHANGED <<grant, ended, request, token, lapsed, consumed, lost, failures>>

TakeJti_thenReturns(c) ==
  /\ call[c].pc = "jti"
  /\ consumed' = consumed \cup {call[c].token}
  /\ Finish(c)
  /\ UNCHANGED <<grant, ended, request, token, lapsed, lost, failures>>

TakeJti(c) ==
  /\ call[c].pc = "jti"
  /\ call[c].token \notin consumed
  /\ consumed' = consumed \cup {call[c].token}
  /\ call' = [call EXCEPT ![c] = [@ EXCEPT !.pc = "reserve"]]
  /\ UNCHANGED <<grant, ended, request, token, lapsed, lost, failures>>

RejectReplay(c) ==
  /\ call[c].pc = "jti"
  /\ call[c].token \in consumed
  /\ Finish(c)
  /\ UNCHANGED <<grant, ended, request, token, lapsed, consumed, lost, failures>>

UsedOnce(g) ==
  [grant[g] EXCEPT !.uses = @ + 1,
                   !.status = IF grant[g].oneTime THEN "CONSUMED" ELSE @]

Reserve_blind(c) ==
  LET g == call[c].grant IN
  /\ call[c].pc = "reserve"
  /\ grant' = [grant EXCEPT ![g] = UsedOnce(g)]
  /\ Finish(c)
  /\ UNCHANGED <<ended, request, token, lapsed, consumed, lost, failures>>

(* reserveUse: one conditional update, and with it the answer to the caller *)
Reserve(c) ==
  LET g == call[c].grant IN
  /\ call[c].pc = "reserve"
  /\ grantIsLive(g) /\ ~limitExceeded(g)
  /\ grant' = [grant EXCEPT ![g] = UsedOnce(g)]
  /\ Finish(c)
  /\ UNCHANGED <<ended, request, token, lapsed, consumed, lost, failures>>

ReserveFails(c) ==
  LET g == call[c].grant IN
  /\ call[c].pc = "reserve"
  /\ ~grantIsLive(g) \/ limitExceeded(g)
  /\ Finish(c)
  /\ UNCHANGED <<grant, ended, request, token, lapsed, consumed, lost, failures>>

-----------------------------------------------------------------------------
EndGrant(g) ==
  /\ grant[g].status # "absent" /\ g \notin ended
  /\ ended' = ended \cup {g}
  /\ UNCHANGED <<grant, request, token, lapsed, consumed, call, lost, failures>>

LapseToken(t) ==
  /\ token[t] # None /\ t \notin lapsed
  /\ lapsed' = lapsed \cup {t}
  /\ UNCHANGED <<grant, ended, request, token, consumed, call, lost, failures>>

(* A store operation throws or the process dies: the rest of the call is    *)
(* lost, what it wrote stays.                                               *)
Fail(c) ==
  /\ call[c].pc # "idle"
  /\ failures < MaxFailures
  /\ failures' = failures + 1
  /\ lost' = IF call[c].pc = "resolve" THEN lost \cup {call[c].grant} ELSE lost
  /\ Finish(c)
  /\ UNCHANGED <<grant, ended, request, token, lapsed, consumed>>

Proceed(c) ==
  \/ CheckCreates(c) \/ CreateThrows(c)
  \/ ApproveCreates(c) \/ ApproveResolves(c) \/ WriteDenied(c)
  \/ WriteRevoked(c)
  \/ Mint(c) \/ MintThrows(c)
  \/ TakeJti(c) \/ RejectReplay(c) \/ Reserve(c) \/ ReserveFails(c)

Start(c) ==
  \/ \E k \in Keys, s \in BOOLEAN : CheckAsksOwner(c, k, s) \/ CheckFindsNone(c, k, s)
  \/ \E r \in Requests, b \in BOOLEAN : Approve(c, r, b)
  \/ \E r \in Requests : Deny(c, r)
  \/ \E g \in Grants : Revoke(c, g) \/ IssueToken(c, g)
  \/ \E t \in Tokens : UseToken(c, t)

Next ==
  \/ \E c \in Calls : Start(c) \/ Proceed(c) \/ Fail(c)
  \/ \E g \in Grants : EndGrant(g)
  \/ \E t \in Tokens : LapseToken(t)

Spec == Init /\ [][Next]_vars

(* A running handler gets its turn; owners and actors owe nothing.          *)
Fairness == \A c \in Calls : WF_vars(Proceed(c))

FairSpec == Spec /\ Fairness

-----------------------------------------------------------------------------
(* Properties *)

(* Every row stays in the domain of its columns, every call in its own.     *)
TypeOK ==
  /\ grant \in [Grants -> Grant]
  /\ ended \subseteq Grants
  /\ request \in [Requests -> Request]
  /\ token \in [Tokens -> Grants \cup {None}]
  /\ lapsed \subseteq Tokens
  /\ consumed \subseteq Tokens
  /\ call \in [Calls -> Call]
  /\ lost \subseteq Grants
  /\ failures \in Nat

Stage(g) ==
  IF grant[g].status = "absent" THEN "none"
  ELSE IF grant[g].status = "REVOKED" \/ g \in ended THEN "shut"
  ELSE "open"

BoundsOf(g) == grant[g].limits \cup (IF grant[g].oneTime THEN {1} ELSE {})

Budget == INSTANCE UsageBudget WITH
  Bounds <- SUBSET ({1} \cup UNION {Policy[k].limits : k \in Keys}),
  state <- [g \in Grants |-> Stage(g)],
  bounds <- [g \in Grants |-> BoundsOf(g)],
  used <- [g \in Grants |-> grant[g].uses]

(* However many tokens a grant has and however many processes use them at   *)
(* once, the grant is used no oftener than its limits and oneTime allow,    *)
(* and never after it was revoked or its validity ended: useToken keeps the *)
(* promise of UsageBudget although everything it checked is stale by the    *)
(* time it reserves the use.                                                *)
KeepsBudget == Budget!Spec

LiveFor(k) == {g \in Grants : grant[g].key = k /\ grantIsLive(g)}

CreatingFor(k) == {c \in Calls : call[c].pc = "create" /\ call[c].key = k}

(* check looks for a live grant and makes one in two steps, and nothing     *)
(* makes (owner, actor, action) unique: checks that overlap each make one,  *)
(* and the actor's limit is multiplied, but by no more than the calls that  *)
(* ran side by side.                                                        *)
LiveBounded ==
  \A k \in {k \in Keys : Policy[k].decision # "ASK_OWNER"} :
    Cardinality(LiveFor(k)) + Cardinality(CreatingFor(k)) <= Cardinality(Calls)

(* Tokens taken for a use of a live one-time grant that nobody is about to  *)
(* make.                                                                    *)
Burnt == {t \in consumed : /\ token[t] # None /\ grantIsLive(token[t])
                           /\ \A c \in Calls : ~(call[c].pc = "reserve" /\ call[c].token = t)}

(* The jti is taken before the use is reserved, and whatever else happens   *)
(* between the two, only a call that dies there burns its token for nothing. *)
BurntBounded == Cardinality(Burnt) <= failures

(* What overlapping checks multiply and failing uses burn is bounded by     *)
(* the calls that overlap and those that die (check, useToken).             *)
WasteIsBounded == LiveBounded /\ BurntBounded

(* While one process decides on requests, each is decided once: a grant     *)
(* made for a request is the one its row records, or is about to be; a      *)
(* denied request leaves no grant, and two approvals never make two, except *)
(* for a grant whose approval died before it resolved the request.          *)
GrantIsRecorded ==
  \A g \in Grants :
    LET r == grant[g].from IN
    r # None /\ g \notin lost =>
      \/ request[r].status = "ACTIVE" /\ request[r].grant = g
      \/ /\ request[r].status = "PENDING"
         /\ \E c \in Calls : call[c].pc = "resolve" /\ call[c].grant = g

(* The jti is taken before the use is reserved.  As long as no call dies,   *)
(* the token is not burnt for nothing: its one-time grant is used too, or   *)
(* has ended meanwhile.                                                     *)
ConsumedIsUsed ==
  \A t \in Tokens : t \in consumed ~> (token[t] # None /\ ~grantIsLive(token[t]))

=============================================================================
