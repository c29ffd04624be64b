------------------------- MODULE DigiAuthorityProofs -------------------------
(* Theorems about DigiAuthority for any number of keys, grants, requests,  *)
(* tokens, calls and failures, for every policy and every placement of the *)
(* calls on processes (one process where a theorem says so).               *)
EXTENDS DigiAuthority, FiniteSetTheorems, TLAPS

-----------------------------------------------------------------------------
(* The inductive invariant *)

(* A grant not made yet is blank and has not ended; a one-time grant that   *)
(* is still active was never used.                                          *)
RowInv(g) ==
  /\ grant[g].status = "absent" => grant[g].uses = 0 /\ g \notin ended
  /\ grant[g].status = "ACTIVE" /\ grant[g].oneTime => grant[g].uses = 0

(* What a call's next store operation finds in the call's own variables     *)
Good(r) ==
  /\ r.pc \in {"create", "grant"} => r.key \in Keys
  /\ r.pc \in {"grant", "resolve", "refuse", "deny"} => r.req \in Requests
  /\ r.pc \in {"resolve", "mint", "revoke", "jti", "reserve"} => r.grant \in Grants
  /\ r.pc = "jti" => r.token \in Tokens

(* and in the row it is about to write.                                     *)
Aimed(r) ==
  /\ r.pc = "revoke" => grant[r.grant].status # "absent"
  /\ r.pc \in {"grant", "resolve", "refuse", "deny"} =>
       request[r.req].status # "absent"

CallsInv == \A c \in Calls : Good(call[c]) /\ Aimed(call[c])

RequestsInv == \A r \in Requests : request[r].status # "absent" => request[r].key \in Keys

IInv == TypeOK /\ (\A g \in Grants : RowInv(g)) /\ RequestsInv /\ CallsInv

-----------------------------------------------------------------------------
LEMMA IdleIsCall == IdleCall \in Call /\ Good(IdleCall) /\ IdleCall.pc = "idle"
BY DEF IdleCall, Call, Pcs, Good

LEMMA InitIInv == Init => IInv
<1> SUFFICES ASSUME Init PROVE IInv
  OBVIOUS
<1> USE DEF Init
<1>1. NoGrant \in Grant
  BY DEF NoGrant, Grant
<1>2. NoRequest \in Request
  BY DEF NoRequest, Request
<1>3. TypeOK
  BY <1>1, <1>2, IdleIsCall DEF TypeOK
<1>4. \A g \in Grants : RowInv(g)
  BY DEF RowInv, NoGrant
<1>5. CallsInv
  BY IdleIsCall DEF CallsInv, Aimed
<1>6. RequestsInv
  BY DEF RequestsInv, NoRequest
<1> QED BY <1>3, <1>4, <1>5, <1>6 DEF IInv

-----------------------------------------------------------------------------
(* No grant and no request disappears.                                      *)
KeptGrants ==
  \A g \in Grants : grant[g].status # "absent" => grant'[g].status # "absent"

KeptRequests ==
  \A r \in Requests : request[r].status # "absent" => request'[r].status # "absent"

Kept == KeptGrants /\ KeptRequests

(* A step that gives call c a new record leaves the others as they were.    *)
LEMMA CallMoves ==
  ASSUME IInv, Kept, NEW c \in Calls, NEW r \in Call, Good(r), Aimed(r)',
         call' = [call EXCEPT ![c] = r]
  PROVE  call' \in [Calls -> Call] /\ CallsInv'
<1>1. call' \in [Calls -> Call]
  BY DEF IInv, TypeOK
<1>2. \A d \in Calls : call'[d] = IF d = c THEN r ELSE call[d]
  BY DEF IInv, TypeOK
<1>3. ASSUME NEW d \in Calls, d # c PROVE Good(call[d]) /\ Aimed(call[d])'
  <2>1. Good(call[d]) /\ Aimed(call[d]) /\ call'[d] = call[d]
    BY <1>2, <1>3 DEF IInv, CallsInv
  <2>2. /\ call[d].pc = "revoke" => call[d].grant \in Grants
        /\ call[d].pc \in {"grant", "resolve", "refuse", "deny"} => call[d].req \in Requests
    BY <2>1 DEF Good
  <2> QED BY <2>1, <2>2 DEF Kept, KeptGrants, KeptRequests, Aimed
<1>4. CallsInv'
  BY <1>2, <1>3 DEF CallsInv, Aimed, Good
<1> QED BY <1>1, <1>4

LEMMA CallsStay ==
  ASSUME IInv, Kept, UNCHANGED call
  PROVE  call' \in [Calls -> Call] /\ CallsInv'
<1>1. ASSUME NEW d \in Calls PROVE Good(call[d])' /\ Aimed(call[d])'
  BY DEF IInv, CallsInv, Good, Aimed, Kept, KeptGrants, KeptRequests
<1> QED BY <1>1 DEF IInv, TypeOK, CallsInv

(* Creating a grant.                                                        *)
LEMMA CreateKeeps ==
  ASSUME IInv, NEW g \in Grants, NEW k \in Keys, NEW limits \in SUBSET Nat,
         NEW once \in BOOLEAN, NEW cond \in BOOLEAN, NEW r \in Requests \cup {None},
         CreateGrant(g, k, limits, once, cond, r), UNCHANGED ended
  PROVE  /\ grant' \in [Grants -> Grant]
         /\ KeptGrants
         /\ \A h \in Grants : RowInv(h)'
<1>1. PICK n : n = [status |-> "ACTIVE", key |-> k, limits |-> limits, oneTime |-> once,
                    conditions |-> cond, uses |-> 0, from |-> r]
  OBVIOUS
<1>2. n \in Grant /\ n.status = "ACTIVE" /\ n.uses = 0
  BY <1>1 DEF Grant
<1>3. grant' = [grant EXCEPT ![g] = n]
  BY <1>1 DEF CreateGrant
<1>4. \A h \in Grants : grant'[h] = IF h = g THEN n ELSE grant[h]
  BY <1>3 DEF IInv, TypeOK
<1>5. grant' \in [Grants -> Grant]
  BY <1>2, <1>3 DEF IInv, TypeOK
<1>6. KeptGrants
  BY <1>2, <1>4 DEF KeptGrants
<1>7. \A h \in Grants : RowInv(h)'
  BY <1>2, <1>4 DEF IInv, RowInv
<1> QED BY <1>5, <1>6, <1>7

(* Changing the status or the use count of a grant.                         *)
LEMMA UpdateKeeps ==
  ASSUME IInv, NEW g \in Grants, NEW n \in Grant, grant' = [grant EXCEPT ![g] = n],
         UNCHANGED ended,
         n.status # "absent", n.status = "ACTIVE" /\ n.oneTime => n.uses = 0
  PROVE  /\ grant' \in [Grants -> Grant]
         /\ KeptGrants
         /\ \A h \in Grants : RowInv(h)'
<1>1. \A h \in Grants : grant'[h] = IF h = g THEN n ELSE grant[h]
  BY DEF IInv, TypeOK
<1>2. grant' \in [Grants -> Grant]
  BY DEF IInv, TypeOK
<1>3. KeptGrants
  BY <1>1 DEF KeptGrants
<1>4. \A h \in Grants : RowInv(h)'
  BY <1>1 DEF IInv, RowInv
<1> QED BY <1>2, <1>3, <1>4

(* Writing a request's row.                                                 *)
LEMMA ResolveKeeps ==
  ASSUME IInv, NEW r \in Requests, request[r].status # "absent",
         NEW s \in {"ACTIVE", "DENIED"}, NEW g \in Grants \cup {None}, Resolve(r, s, g)
  PROVE  request' \in [Requests -> Request] /\ RequestsInv' /\ KeptRequests
<1>1. PICK q : q = [request[r] EXCEPT !.status = s, !.grant = g]
  OBVIOUS
<1>2. request[r] \in Request /\ request[r].key \in Keys
  BY DEF IInv, TypeOK, RequestsInv
<1>3. q = [status |-> s, key |-> request[r].key, stepUp |-> request[r].stepUp, grant |-> g]
  BY <1>1, <1>2 DEF Request
<1>4. q \in Request /\ q.key \in Keys
  BY <1>2, <1>3 DEF Request
<1>5. request' = [request EXCEPT ![r] = q]
  BY <1>1 DEF Resolve
<1>6. \A x \in Requests : request'[x] = IF x = r THEN q ELSE request[x]
  BY <1>5 DEF IInv, TypeOK
<1>7. q.status # "absent"
  BY <1>3
<1> QED BY <1>4, <1>5, <1>6, <1>7 DEF IInv, TypeOK, RequestsInv, KeptRequests

-----------------------------------------------------------------------------
(* Preservation *)

LEMMA NextIInv == IInv /\ [Next]_vars => IInv'
<1> SUFFICES ASSUME IInv, [Next]_vars PROVE IInv'
  OBVIOUS
<1> USE ConstantsAssumption
<1>T. TypeOK
  BY DEF IInv
<1>k. (UNCHANGED grant => KeptGrants) /\ (UNCHANGED request => KeptRequests)
  BY DEF KeptGrants, KeptRequests
<1>r. UNCHANGED <<grant, ended>> => \A g \in Grants : RowInv(g)'
  BY DEF IInv, RowInv
<1>q. UNCHANGED request => RequestsInv'
  BY DEF IInv, RequestsInv
<1>f. ASSUME NEW c \in Calls, Finish(c), Kept
      PROVE  call' \in [Calls -> Call] /\ CallsInv'
  <2>1. Aimed(IdleCall)'
    BY IdleIsCall DEF Aimed
  <2> QED BY <1>f, <2>1, IdleIsCall, CallMoves DEF Finish
<1>g. ASSUME NEW c \in Calls PROVE Good(call[c]) /\ call[c] \in Call
  BY <1>T DEF IInv, CallsInv, TypeOK
<1>1. ASSUME NEW c \in Calls, NEW k \in Keys, NEW s \in BOOLEAN, CheckAsksOwner(c, k, s)
      PROVE  IInv'
  <2>1. PICK q : q = [status |-> "PENDING", key |-> k, stepUp |-> s, grant |-> None]
    OBVIOUS
  <2>2. q \in Request /\ q.key \in Keys /\ q.status # "absent"
    BY <2>1 DEF Request
  <2>3. PICK r \in Requests : request' = [request EXCEPT ![r] = q]
    BY <1>1, <2>1 DEF CheckAsksOwner
  <2>4. request' \in [Requests -> Request] /\ RequestsInv' /\ KeptRequests
    BY <1>T, <2>2, <2>3 DEF TypeOK, IInv, RequestsInv, KeptRequests
  <2>5. call' \in [Calls -> Call] /\ CallsInv'
    BY <1>1, <1>k, <2>4, CallsStay DEF CheckAsksOwner, Kept
  <2> QED BY <1>1, <1>T, <1>r, <2>4, <2>5 DEF CheckAsksOwner, IInv, TypeOK
<1>2. ASSUME NEW c \in Calls, NEW k \in Keys, NEW s \in BOOLEAN, CheckFindsNone(c, k, s)
      PROVE  IInv'
  <2>1. PICK r : r = [IdleCall EXCEPT !.pc = "create", !.key = k]
    OBVIOUS
  <2>2. r \in Call /\ Good(r) /\ r.pc = "create"
    BY <2>1 DEF IdleCall, Call, Pcs, Good
  <2>3. Aimed(r)'
    BY <2>2 DEF Aimed
  <2>4. call' = [call EXCEPT ![c] = r] /\ Kept
    BY <1>2, <1>k, <2>1 DEF CheckFindsNone, Go, Kept
  <2>5. call' \in [Calls -> Call] /\ CallsInv'
    BY <2>2, <2>3, <2>4, CallMoves
  <2> QED BY <1>2, <1>T, <1>r, <1>q, <2>5 DEF CheckFindsNone, IInv, TypeOK
<1>3. ASSUME NEW c \in Calls, CheckCreates(c) PROVE IInv'
  <2>1. PICK g \in Grants, k \in Keys :
          /\ k = call[c].key
          /\ CreateGrant(g, k, Policy[k].limits, Policy[k].oneTime,
                         Policy[k].requireStepUp, None)
    BY <1>3, <1>g DEF CheckCreates, Good
  <2>2. /\ Policy[k].limits \in SUBSET Nat /\ Policy[k].oneTime \in BOOLEAN
        /\ Policy[k].requireStepUp \in BOOLEAN
    BY DEF Match
  <2>l. PICK l \in SUBSET Nat, b \in BOOLEAN, f \in BOOLEAN, q \in Requests \cup {None} :
          /\ l = Policy[k].limits /\ b = Policy[k].oneTime
          /\ f = Policy[k].requireStepUp /\ q = None
    BY <2>2
  <2>u. CreateGrant(g, k, l, b, f, q) /\ UNCHANGED ended
    BY <1>3, <2>1, <2>l DEF CheckCreates
  <2>3. /\ grant' \in [Grants -> Grant]
        /\ KeptGrants
        /\ \A h \in Grants : RowInv(h)'
    BY <2>u, CreateKeeps
  <2>4. call' \in [Calls -> Call] /\ CallsInv'
    BY <1>3, <1>f, <1>k, <2>3 DEF CheckCreates, Kept
  <2> QED BY <1>3, <1>T, <1>q, <2>3, <2>4 DEF CheckCreates, IInv, TypeOK
<1>4. ASSUME NEW c \in Calls, Finish(c), UNCHANGED <<grant, ended, request>>
      PROVE  /\ call' \in [Calls -> Call]
             /\ CallsInv'
             /\ RequestsInv'
             /\ \A g \in Grants : RowInv(g)'
  BY <1>4, <1>f, <1>k, <1>r, <1>q DEF Kept
<1>5. ASSUME NEW c \in Calls, NEW x \in Requests, NEW b \in BOOLEAN, Approve(c, x, b)
      PROVE  IInv'
  <2>1. PICK k \in Keys : k = request[x].key
    BY <1>5 DEF Approve, IInv, RequestsInv
  <2>2. PICK p \in {"refuse", "grant"} :
          p = IF Policy[k].payment /\ ~request[x].stepUp THEN "refuse" ELSE "grant"
    OBVIOUS
  <2>3. PICK r : r = [IdleCall EXCEPT !.pc = p, !.req = x, !.key = k, !.oneTime = b]
    OBVIOUS
  <2>4. r \in Call /\ Good(r) /\ r.pc # "revoke" /\ r.req = x
    BY <2>3 DEF IdleCall, Call, Pcs, Good
  <2>5. Aimed(r)'
    BY <1>5, <2>4 DEF Approve, Aimed
  <2>6. call' = [call EXCEPT ![c] = r] /\ Kept
    BY <1>5, <1>k, <2>1, <2>2, <2>3 DEF Approve, Go, Kept
  <2>7. call' \in [Calls -> Call] /\ CallsInv'
    BY <2>4, <2>5, <2>6, CallMoves
  <2> QED BY <1>5, <1>T, <1>r, <1>q, <2>7 DEF Approve, IInv, TypeOK
<1>6. ASSUME NEW c \in Calls, NEW x \in Requests, Deny(c, x) PROVE IInv'
  <2>1. PICK r : r = [IdleCall EXCEPT !.pc = "deny", !.req = x]
    OBVIOUS
  <2>2. r \in Call /\ Good(r) /\ r.pc = "deny" /\ r.req = x
    BY <2>1 DEF IdleCall, Call, Pcs, Good
  <2>3. Aimed(r)'
    BY <1>6, <2>2 DEF Deny, Aimed
  <2>4. call' = [call EXCEPT ![c] = r] /\ Kept
    BY <1>6, <1>k, <2>1 DEF Deny, Go, Kept
  <2>5. call' \in [Calls -> Call] /\ CallsInv'
    BY <2>2, <2>3, <2>4, CallMoves
  <2> QED BY <1>6, <1>T, <1>r, <1>q, <2>5 DEF Deny, IInv, TypeOK
<1>7. ASSUME NEW c \in Calls, ApproveCreates(c) PROVE IInv'
  <2>1. /\ call[c].key \in Keys /\ call[c].req \in Requests /\ call[c].oneTime \in BOOLEAN
        /\ call[c] \in Call
    BY <1>7, <1>g DEF ApproveCreates, Good, Call
  <2>2. PICK g \in Grants :
          /\ CreateGrant(g, call[c].key, {}, call[c].oneTime, FALSE, call[c].req)
          /\ call' = [call EXCEPT ![c] = [call[c] EXCEPT !.pc = "resolve", !.grant = g]]
    BY <1>7 DEF ApproveCreates
  <2>3. PICK k \in Keys, b \in BOOLEAN, q \in Requests \cup {None} :
          k = call[c].key /\ b = call[c].oneTime /\ q = call[c].req
    BY <2>1
  <2>4. PICK l \in SUBSET Nat, f \in BOOLEAN : l = {} /\ f = FALSE
    OBVIOUS
  <2>5. CreateGrant(g, k, l, b, f, q) /\ UNCHANGED ended
    BY <1>7, <2>2, <2>3, <2>4 DEF ApproveCreates
  <2>6. /\ grant' \in [Grants -> Grant]
        /\ KeptGrants
        /\ \A h \in Grants : RowInv(h)'
    BY <2>5, CreateKeeps
  <2>7. PICK r : r = [call[c] EXCEPT !.pc = "resolve", !.grant = g]
    OBVIOUS
  <2>8. r \in Call /\ r.pc = "resolve" /\ r.grant = g /\ r.req = q
    BY <2>1, <2>3, <2>7 DEF Call, Pcs
  <2>9. Good(r)
    BY <2>1, <2>3, <2>8 DEF Good
  <2>10. Aimed(r)'
    BY <1>7, <2>3, <2>8 DEF ApproveCreates, Aimed, IInv, CallsInv
  <2>11. call' = [call EXCEPT ![c] = r] /\ Kept
    BY <1>7, <1>k, <2>2, <2>6, <2>7 DEF ApproveCreates, Kept
  <2>12. call' \in [Calls -> Call] /\ CallsInv'
    BY <2>8, <2>9, <2>10, <2>11, CallMoves
  <2> QED BY <1>7, <1>T, <1>q, <2>6, <2>12 DEF ApproveCreates, IInv, TypeOK
<1>8. ASSUME NEW c \in Calls, ApproveResolves(c) PROVE IInv'
  <2>1. /\ call[c].req \in Requests /\ call[c].grant \in Grants /\ call[c] \in Call
        /\ request[call[c].req].status # "absent"
    BY <1>8, <1>g DEF ApproveResolves, Good, IInv, CallsInv, Aimed
  <2>2. PICK q \in Requests, g \in Grants \cup {None}, s \in {"ACTIVE", "DENIED"} :
          q = call[c].req /\ g = call[c].grant /\ s = "ACTIVE"
    BY <2>1
  <2>3. request' \in [Requests -> Request] /\ RequestsInv' /\ KeptRequests
    BY <1>8, <2>1, <2>2, ResolveKeeps DEF ApproveResolves
  <2>4. PICK r : r = [call[c] EXCEPT !.pc = "mint"]
    OBVIOUS
  <2>5. r \in Call /\ r.pc = "mint" /\ r.grant \in Grants
    BY <2>1, <2>4 DEF Call, Pcs
  <2>6. Good(r) /\ Aimed(r)'
    BY <2>5 DEF Good, Aimed
  <2>7. call' = [call EXCEPT ![c] = r] /\ Kept
    BY <1>8, <1>k, <2>3, <2>4 DEF ApproveResolves, Kept
  <2>8. call' \in [Calls -> Call] /\ CallsInv'
    BY <2>5, <2>6, <2>7, CallMoves
  <2> QED BY <1>8, <1>T, <1>r, <2>3, <2>8 DEF ApproveResolves, IInv, TypeOK
<1>9. ASSUME NEW c \in Calls, WriteDenied(c) PROVE IInv'
  <2>1. call[c].req \in Requests /\ request[call[c].req].status # "absent"
    BY <1>9, <1>g DEF WriteDenied, Good, IInv, CallsInv, Aimed
  <2>2. PICK q \in Requests, g \in Grants \cup {None}, s \in {"ACTIVE", "DENIED"} :
          q = call[c].req /\ g = None /\ s = "DENIED"
    BY <2>1
  <2>3. request' \in [Requests -> Request] /\ RequestsInv' /\ KeptRequests
    BY <1>9, <2>1, <2>2, ResolveKeeps DEF WriteDenied
  <2>4. call' \in [Calls -> Call] /\ CallsInv'
    BY <1>9, <1>f, <1>k, <2>3 DEF WriteDenied, Kept
  <2> QED BY <1>9, <1>T, <1>r, <2>3, <2>4 DEF WriteDenied, IInv, TypeOK
<1>10. ASSUME NEW c \in Calls, NEW g \in Grants, Revoke(c, g) PROVE IInv'
  <2>1. PICK r : r = [IdleCall EXCEPT !.pc = "revoke", !.grant = g]
    OBVIOUS
  <2>2. r \in Call /\ Good(r) /\ r.pc = "revoke" /\ r.grant = g
    BY <2>1 DEF IdleCall, Call, Pcs, Good
  <2>3. Aimed(r)'
    BY <1>10, <2>2 DEF Revoke, Aimed
  <2>4. call' = [call EXCEPT ![c] = r] /\ Kept
    BY <1>10, <1>k, <2>1 DEF Revoke, Go, Kept
  <2>5. call' \in [Calls -> Call] /\ CallsInv'
    BY <2>2, <2>3, <2>4, CallMoves
  <2> QED BY <1>10, <1>T, <1>r, <1>q, <2>5 DEF Revoke, IInv, TypeOK
<1>11. ASSUME NEW c \in Calls, WriteRevoked(c) PROVE IInv'
  <2>1. PICK g \in Grants : g = call[c].grant
    BY <1>11, <1>g DEF WriteRevoked, Good
  <2>2. PICK n : n = [grant[g] EXCEPT !.status = "REVOKED"]
    OBVIOUS
  <2>3. n \in Grant /\ n.status = "REVOKED"
    BY <1>T, <2>2 DEF TypeOK, Grant
  <2>4. /\ grant' \in [Grants -> Grant]
        /\ KeptGrants
        /\ \A h \in Grants : RowInv(h)'
    BY <1>11, <2>1, <2>2, <2>3, UpdateKeeps DEF WriteRevoked
  <2>5. call' \in [Calls -> Call] /\ CallsInv'
    BY <1>11, <1>f, <1>k, <2>4 DEF WriteRevoked, Kept
  <2> QED BY <1>11, <1>T, <1>q, <2>4, <2>5 DEF WriteRevoked, IInv, TypeOK
<1>12. ASSUME NEW c \in Calls, NEW g \in Grants, IssueToken(c, g) PROVE IInv'
  <2>1. PICK r : r = [IdleCall EXCEPT !.pc = "mint", !.grant = g]
    OBVIOUS
  <2>2. r \in Call /\ Good(r) /\ r.pc = "mint"
    BY <2>1 DEF IdleCall, Call, Pcs, Good
  <2>3. Aimed(r)'
    BY <2>2 DEF Aimed
  <2>4. call' = [call EXCEPT ![c] = r] /\ Kept
    BY <1>12, <1>k, <2>1 DEF IssueToken, Go, Kept
  <2>5. call' \in [Calls -> Call] /\ CallsInv'
    BY <2>2, <2>3, <2>4, CallMoves
  <2> QED BY <1>12, <1>T, <1>r, <1>q, <2>5 DEF IssueToken, IInv, TypeOK
<1>13. ASSUME NEW c \in Calls, Mint(c) PROVE IInv'
  <2>1. call[c].grant \in Grants
    BY <1>13, <1>g DEF Mint, Good
  <2>2. token' \in [Tokens -> Grants \cup {None}]
    BY <1>13, <1>T, <2>1 DEF Mint, TypeOK
  <2> QED BY <1>13, <1>T, <1>4, <2>2 DEF Mint, IInv, TypeOK
<1>14. ASSUME NEW c \in Calls, NEW t \in Tokens, UseToken(c, t) PROVE IInv'
  <2>1. PICK g \in Grants : g = token[t]
    BY <1>14, <1>T DEF UseToken, TypeOK
  <2>2. PICK p \in {"jti", "reserve"} :
          p = IF grant[g].oneTime THEN "jti" ELSE "reserve"
    OBVIOUS
  <2>3. PICK r : r = [IdleCall EXCEPT !.pc = p, !.grant = g, !.token = t]
    OBVIOUS
  <2>4. r \in Call /\ Good(r) /\ r.pc \in {"jti", "reserve"}
    BY <2>3 DEF IdleCall, Call, Pcs, Good
  <2>5. Aimed(r)'
    BY <2>4 DEF Aimed
  <2>6. call' = [call EXCEPT ![c] = r] /\ Kept
    BY <1>14, <1>k, <2>1, <2>2, <2>3 DEF UseToken, Go, Kept
  <2>7. call' \in [Calls -> Call] /\ CallsInv'
    BY <2>4, <2>5, <2>6, CallMoves
  <2> QED BY <1>14, <1>T, <1>r, <1>q, <2>7 DEF UseToken, IInv, TypeOK
<1>15. ASSUME NEW c \in Calls, TakeJti(c) PROVE IInv'
  <2>1. call[c].token \in Tokens /\ call[c].grant \in Grants /\ call[c] \in Call
    BY <1>15, <1>g DEF TakeJti, Good
  <2>2. PICK r : r = [call[c] EXCEPT !.pc = "reserve"]
    OBVIOUS
  <2>3. r \in Call /\ r.pc = "reserve" /\ r.grant \in Grants
    BY <2>1, <2>2 DEF Call, Pcs
  <2>4. Good(r) /\ Aimed(r)'
    BY <2>3 DEF Good, Aimed
  <2>5. call' = [call EXCEPT ![c] = r] /\ Kept
    BY <1>15, <1>k, <2>2 DEF TakeJti, Kept
  <2>6. call' \in [Calls -> Call] /\ CallsInv'
    BY <2>3, <2>4, <2>5, CallMoves
  <2> QED BY <1>15, <1>T, <1>r, <1>q, <2>1, <2>6 DEF TakeJti, IInv, TypeOK
<1>16. ASSUME NEW c \in Calls, Reserve(c) PROVE IInv'
  <2>1. PICK g \in Grants : g = call[c].grant
    BY <1>16, <1>g DEF Reserve, Good
  <2>2. PICK s \in {"ACTIVE", "CONSUMED"} :
          s = IF grant[g].oneTime THEN "CONSUMED" ELSE grant[g].status
    BY <1>16, <2>1 DEF Reserve, grantIsLive
  <2>3. grant[g] \in Grant /\ grant[g].uses + 1 \in Nat
    BY <1>T DEF TypeOK, Grant
  <2>4. PICK n : n = [grant[g] EXCEPT !.uses = grant[g].uses + 1, !.status = s]
    OBVIOUS
  <2>n. n = UsedOnce(g)
    BY <2>2, <2>3, <2>4 DEF UsedOnce, Grant
  <2>5. n \in Grant /\ n.status = s /\ n.oneTime = grant[g].oneTime
    BY <2>3, <2>4 DEF Grant
  <2>6. ~(n.status = "ACTIVE" /\ n.oneTime)
    BY <2>2, <2>5
  <2>7. grant' = [grant EXCEPT ![g] = n] /\ UNCHANGED ended
    BY <1>16, <2>1, <2>n DEF Reserve
  <2>8. /\ grant' \in [Grants -> Grant]
        /\ KeptGrants
        /\ \A h \in Grants : RowInv(h)'
    BY <2>5, <2>6, <2>7, UpdateKeeps
  <2>9. call' \in [Calls -> Call] /\ CallsInv'
    BY <1>16, <1>f, <1>k, <2>8 DEF Reserve, Kept
  <2> QED BY <1>16, <1>T, <1>q, <2>8, <2>9 DEF Reserve, IInv, TypeOK
<1>17. ASSUME NEW c \in Calls,
              CreateThrows(c) \/ MintThrows(c) \/ RejectReplay(c) \/ ReserveFails(c)
       PROVE  IInv'
  BY <1>17, <1>T, <1>4
  DEF CreateThrows, MintThrows, RejectReplay, ReserveFails, IInv, TypeOK
<1>18. ASSUME NEW c \in Calls, Fail(c) PROVE IInv'
  <2>1. lost' \subseteq Grants /\ failures' \in Nat
    BY <1>18, <1>T, <1>g DEF Fail, Good, TypeOK
  <2> QED BY <1>18, <1>T, <1>4, <2>1 DEF Fail, IInv, TypeOK
<1>19. ASSUME NEW g \in Grants, EndGrant(g) PROVE IInv'
  <2>1. \A h \in Grants : RowInv(h)'
    BY <1>19 DEF EndGrant, IInv, RowInv
  <2>2. call' \in [Calls -> Call] /\ CallsInv'
    BY <1>19, <1>k, CallsStay DEF EndGrant, Kept
  <2> QED BY <1>19, <1>T, <1>q, <2>1, <2>2 DEF EndGrant, IInv, TypeOK
<1>20. ASSUME NEW t \in Tokens, LapseToken(t) PROVE IInv'
  <2>1. call' \in [Calls -> Call] /\ CallsInv'
    BY <1>20, <1>k, CallsStay DEF LapseToken, Kept
  <2> QED BY <1>20, <1>T, <1>q, <1>r, <2>1 DEF LapseToken, IInv, TypeOK
<1>21. CASE UNCHANGED vars
  <2>1. call' \in [Calls -> Call] /\ CallsInv'
    BY <1>21, <1>k, CallsStay DEF vars, Kept
  <2> QED BY <1>21, <1>T, <1>q, <1>r, <2>1 DEF vars, IInv, TypeOK
<1>22. ASSUME NEW c \in Calls, Start(c) PROVE IInv'
  BY <1>22, <1>1, <1>2, <1>5, <1>6, <1>10, <1>12, <1>14 DEF Start
<1>23. ASSUME NEW c \in Calls, Proceed(c) PROVE IInv'
  BY <1>23, <1>3, <1>7, <1>8, <1>9, <1>11, <1>13, <1>15, <1>16, <1>17 DEF Proceed
<1> QED BY <1>18, <1>19, <1>20, <1>21, <1>22, <1>23 DEF Next

(* The invariant holds in every reachable state.                            *)
THEOREM Invariance == Spec => []IInv
BY InitIInv, NextIInv, PTL DEF Spec

(* Every reachable state is type correct, whatever policies, calls and      *)
(* failures there are (the stores' columns, AuthorityStatus).               *)
THEOREM TypeCorrect == Spec => []TypeOK
<1>1. IInv => TypeOK
  BY DEF IInv
<1> QED BY <1>1, Invariance, PTL

-----------------------------------------------------------------------------
(* A grant is used no oftener than its limits and oneTime allow, and never  *)
(* after it was revoked or ended (reserveUse's conditional update): the     *)
(* service over its stores implements UsageBudget.                          *)
THEOREM BudgetKept == Spec => KeepsBudget
<1>1. Init => Budget!Init
  BY DEF Init, Budget!Init, NoGrant, Stage, BoundsOf
<1>2. IInv /\ [Next]_vars => [Budget!Next]_Budget!vars
  <2> SUFFICES ASSUME IInv, [Next]_vars PROVE [Budget!Next]_Budget!vars
    OBVIOUS
  <2>T. TypeOK /\ CallsInv /\ \A g \in Grants : RowInv(g)
    BY DEF IInv
  <2>u. ASSUME UNCHANGED <<grant, ended>> PROVE UNCHANGED Budget!vars
    BY <2>u DEF Budget!vars, Stage, BoundsOf
  <2>m. ASSUME NEW g \in Grants, NEW n \in Grant,
               grant' = [grant EXCEPT ![g] = n], UNCHANGED ended
        PROVE  /\ grant'[g] = n
               /\ \A h \in Grants \ {g} :
                    Stage(h)' = Stage(h) /\ BoundsOf(h)' = BoundsOf(h)
                      /\ grant'[h].uses = grant[h].uses
    BY <2>m, <2>T DEF TypeOK, Stage, BoundsOf
  <2>o. ASSUME NEW g \in Grants, NEW k \in Keys, NEW limits \in {{}, Policy[k].limits},
               NEW once \in BOOLEAN, NEW cond \in BOOLEAN,
               NEW r \in Requests \cup {None},
               CreateGrant(g, k, limits, once, cond, r), UNCHANGED ended
        PROVE  Budget!Next
    <3>1. PICK n : n = [status |-> "ACTIVE", key |-> k, limits |-> limits,
                        oneTime |-> once, conditions |-> cond, uses |-> 0, from |-> r]
      OBVIOUS
    <3>2. limits \subseteq Nat
      BY ConstantsAssumption DEF Match
    <3>3. /\ n \in Grant /\ n.status = "ACTIVE" /\ n.uses = 0
          /\ n.limits = limits /\ n.oneTime = once
      BY <3>1, <3>2 DEF Grant
    <3>4. grant' = [grant EXCEPT ![g] = n] /\ grant[g].status = "absent"
      BY <2>o, <3>1 DEF CreateGrant
    <3>5. g \notin ended /\ grant[g].uses = 0 /\ Stage(g) = "none"
      BY <2>T, <3>4 DEF RowInv, Stage
    <3>6. PICK b \in SUBSET ({1} \cup UNION {Policy[j].limits : j \in Keys}) :
            b = limits \cup (IF once THEN {1} ELSE {})
      OBVIOUS
    <3>7. Stage(g)' = "open" /\ BoundsOf(g)' = b /\ grant'[g].uses = 0
      BY <2>o, <2>m, <3>3, <3>4, <3>5, <3>6 DEF Stage, BoundsOf
    <3>8. [h \in Grants |-> Stage(h)]' = [[h \in Grants |-> Stage(h)] EXCEPT ![g] = "open"]
      BY <2>o, <2>m, <3>3, <3>4, <3>7
    <3>9. [h \in Grants |-> BoundsOf(h)]' = [[h \in Grants |-> BoundsOf(h)] EXCEPT ![g] = b]
      BY <2>o, <2>m, <3>3, <3>4, <3>7
    <3>10. [h \in Grants |-> grant[h].uses]' = [h \in Grants |-> grant[h].uses]
      BY <2>o, <2>m, <3>3, <3>4, <3>5, <3>7
    <3>11. Budget!Open(g, b)
      BY <3>5, <3>8, <3>9, <3>10 DEF Budget!Open
    <3> QED BY <3>11 DEF Budget!Next
  <2>s. ASSUME NEW g \in Grants, grant[g].status # "absent",
               \A h \in Grants : /\ h # g => Stage(h)' = Stage(h)
                                 /\ BoundsOf(h)' = BoundsOf(h)
                                 /\ grant'[h].uses = grant[h].uses,
               Stage(g)' = "shut"
        PROVE  [Budget!Next]_Budget!vars
    <3>1. [h \in Grants |-> Stage(h)]' = [[h \in Grants |-> Stage(h)] EXCEPT ![g] = "shut"]
      BY <2>s
    <3>2. /\ [h \in Grants |-> BoundsOf(h)]' = [h \in Grants |-> BoundsOf(h)]
          /\ [h \in Grants |-> grant[h].uses]' = [h \in Grants |-> grant[h].uses]
      BY <2>s
    <3>3. CASE Stage(g) = "open"
      <4>1. Budget!Shut(g)
        BY <3>1, <3>2, <3>3 DEF Budget!Shut
      <4> QED BY <4>1 DEF Budget!Next
    <3>4. CASE Stage(g) = "shut"
      <4>1. \A h \in Grants : Stage(h)' = Stage(h)
        BY <2>s, <3>4
      <4>2. [h \in Grants |-> Stage(h)]' = [h \in Grants |-> Stage(h)]
        BY <4>1
      <4> QED BY <3>2, <4>2 DEF Budget!vars
    <3> QED BY <2>s, <3>3, <3>4 DEF Stage
  <2>1. ASSUME NEW c \in Calls, CheckCreates(c) PROVE Budget!Next
    <3>1. PICK k \in Keys : k = call[c].key
      BY <2>1, <2>T DEF CheckCreates, CallsInv, Good
    <3>2. Policy[k].oneTime \in BOOLEAN /\ Policy[k].requireStepUp \in BOOLEAN
      BY ConstantsAssumption DEF Match
    <3>3. PICK g \in Grants : CreateGrant(g, k, Policy[k].limits, Policy[k].oneTime,
                                          Policy[k].requireStepUp, None)
      BY <2>1, <3>1 DEF CheckCreates
    <3> QED BY <2>1, <2>o, <3>2, <3>3 DEF CheckCreates
  <2>2. ASSUME NEW c \in Calls, ApproveCreates(c) PROVE Budget!Next
    <3>1. call[c].pc = "grant" /\ Good(call[c]) /\ call[c] \in Call
      BY <2>2, <2>T DEF ApproveCreates, CallsInv, TypeOK
    <3>2. /\ call[c].key \in Keys /\ call[c].req \in Requests \cup {None}
          /\ call[c].oneTime \in BOOLEAN
      BY <3>1 DEF Good, Call
    <3>3. PICK k \in Keys, r \in Requests \cup {None}, once \in BOOLEAN, f \in BOOLEAN :
            k = call[c].key /\ r = call[c].req /\ once = call[c].oneTime /\ f = FALSE
      BY <3>2
    <3>4. PICK l \in {{}, Policy[k].limits} : l = {}
      OBVIOUS
    <3>5. PICK g \in Grants : CreateGrant(g, k, l, once, f, r)
      BY <2>2, <3>3, <3>4 DEF ApproveCreates
    <3>6. UNCHANGED ended
      BY <2>2 DEF ApproveCreates
    <3> QED BY <2>o, <3>5, <3>6
  <2>3. ASSUME NEW c \in Calls, WriteRevoked(c) PROVE [Budget!Next]_Budget!vars
    <3>1. PICK g \in Grants : g = call[c].grant /\ grant[g].status # "absent"
      BY <2>3, <2>T DEF WriteRevoked, CallsInv, Good, Aimed
    <3>2. PICK n : n = [grant[g] EXCEPT !.status = "REVOKED"]
      OBVIOUS
    <3>3. /\ n \in Grant /\ n.status = "REVOKED" /\ n.uses = grant[g].uses
          /\ n.limits = grant[g].limits /\ n.oneTime = grant[g].oneTime
      BY <2>T, <3>2 DEF TypeOK, Grant
    <3>4. grant' = [grant EXCEPT ![g] = n] /\ UNCHANGED ended
      BY <2>3, <3>1, <3>2 DEF WriteRevoked
    <3>5. Stage(g)' = "shut" /\ BoundsOf(g)' = BoundsOf(g) /\ grant'[g].uses = grant[g].uses
      BY <2>m, <3>3, <3>4 DEF Stage, BoundsOf
    <3> QED BY <2>m, <2>s, <3>1, <3>3, <3>4, <3>5
  <2>4. ASSUME NEW c \in Calls, Reserve(c) PROVE Budget!Next
    <3>1. PICK g \in Grants : g = call[c].grant
      BY <2>4, <2>T DEF Reserve, CallsInv, Good
    <3>2. grant[g].status = "ACTIVE" /\ g \notin ended /\ ~limitExceeded(g)
      BY <2>4, <3>1 DEF Reserve, grantIsLive
    <3>3. /\ grant[g] \in Grant /\ grant[g].uses \in Nat
          /\ grant[g].limits \subseteq Nat /\ grant[g].oneTime \in BOOLEAN
      BY <2>T DEF TypeOK, Grant
    <3>4. PICK u \in Nat, s \in {"ACTIVE", "CONSUMED"} :
            /\ u = grant[g].uses + 1
            /\ s = IF grant[g].oneTime THEN "CONSUMED" ELSE grant[g].status
      BY <3>2, <3>3
    <3>n. PICK n : n = [grant[g] EXCEPT !.uses = u, !.status = s]
      OBVIOUS
    <3>o. n = UsedOnce(g)
      BY <3>3, <3>4, <3>n DEF UsedOnce, Grant
    <3>5. /\ n \in Grant /\ n.uses = u /\ n.status = s
          /\ n.limits = grant[g].limits /\ n.oneTime = grant[g].oneTime
      BY <3>3, <3>n DEF Grant
    <3>6. grant' = [grant EXCEPT ![g] = n] /\ UNCHANGED ended
      BY <2>4, <3>1, <3>o DEF Reserve
    <3>m. /\ grant'[g] = n
          /\ \A h \in Grants \ {g} :
               Stage(h)' = Stage(h) /\ BoundsOf(h)' = BoundsOf(h)
                 /\ grant'[h].uses = grant[h].uses
      BY <2>m, <3>5, <3>6
    <3>7. /\ Stage(g) = "open" /\ Stage(g)' = "open" /\ BoundsOf(g)' = BoundsOf(g)
          /\ grant'[g].uses = u
      BY <3>m, <3>2, <3>5, <3>6 DEF Stage, BoundsOf
    <3>8. \A b \in BoundsOf(g) : grant[g].uses < b
      BY <2>T, <3>2, <3>3 DEF BoundsOf, limitExceeded, RowInv
    <3>9. /\ [h \in Grants |-> Stage(h)]' = [h \in Grants |-> Stage(h)]
          /\ [h \in Grants |-> BoundsOf(h)]' = [h \in Grants |-> BoundsOf(h)]
      BY <3>m, <3>7
    <3>10. [h \in Grants |-> grant[h].uses]'
             = [[h \in Grants |-> grant[h].uses] EXCEPT ![g] = u]
      BY <3>m, <3>7
    <3>11. Budget!Use(g)
      BY <3>4, <3>7, <3>8, <3>9, <3>10 DEF Budget!Use
    <3> QED BY <3>11 DEF Budget!Next
  <2>5. ASSUME NEW g \in Grants, EndGrant(g) PROVE [Budget!Next]_Budget!vars
    <3>1. /\ grant[g].status # "absent" /\ Stage(g)' = "shut"
          /\ \A h \in Grants : /\ h # g => Stage(h)' = Stage(h)
                               /\ BoundsOf(h)' = BoundsOf(h)
                               /\ grant'[h].uses = grant[h].uses
      BY <2>5 DEF EndGrant, Stage, BoundsOf
    <3> QED BY <2>s, <3>1
  <2>6. ASSUME NEW c \in Calls, Start(c) PROVE UNCHANGED <<grant, ended>>
    BY <2>6 DEF Start, CheckAsksOwner, CheckFindsNone, Approve, Deny, Revoke, IssueToken,
                UseToken
  <2>7. ASSUME NEW c \in Calls, Proceed(c) PROVE [Budget!Next]_Budget!vars
    <3>1. CASE CheckCreates(c) \/ ApproveCreates(c) \/ WriteRevoked(c) \/ Reserve(c)
      BY <2>1, <2>2, <2>3, <2>4, <3>1
    <3>2. ASSUME ~(CheckCreates(c) \/ ApproveCreates(c) \/ WriteRevoked(c) \/ Reserve(c))
          PROVE  UNCHANGED <<grant, ended>>
      BY <2>7, <3>2 DEF Proceed, CreateThrows, ApproveResolves, WriteDenied, Mint,
                        MintThrows, TakeJti, RejectReplay, ReserveFails
    <3> QED BY <2>u, <3>1, <3>2
  <2> QED BY <2>5, <2>6, <2>7, <2>u DEF Next, Fail, LapseToken, vars
<1> QED BY <1>1, <1>2, Invariance, PTL DEF Spec, KeepsBudget, Budget!Spec

(* What a grant has been used for is within each of its bounds: the         *)
(* reservations that reserveUse lets through are counted, not only checked  *)
(* one by one.                                                              *)
WithinBounds == \A g \in Grants : \A n \in BoundsOf(g) : grant[g].uses <= n

(* Read off UsageBudget, which the service implements: its steps keep every *)
(* count of uses within the bounds the grant was opened with, so a one-time *)
(* grant is used once at most, whatever calls race, fail or die.            *)
THEOREM UsesWithinBounds == Spec => []WithinBounds
<1> DEFINE Unused == \A g \in Grants : Stage(g) = "none" => grant[g].uses = 0
<1>1. Init => WithinBounds /\ Unused
  BY DEF Init, NoGrant, WithinBounds, BoundsOf
<1>2. ASSUME TypeOK, TypeOK', WithinBounds, Unused, [Budget!Next]_Budget!vars
      PROVE  (WithinBounds /\ Unused)'
  <2>1. \A g \in Grants : /\ grant[g].uses \in Nat /\ grant'[g].uses \in Nat
                          /\ BoundsOf(g) \subseteq Nat /\ BoundsOf(g)' \subseteq Nat
    BY <1>2 DEF TypeOK, Grant, BoundsOf
  <2>2. ASSUME NEW g \in Grants, NEW b \in SUBSET ({1} \cup UNION {Policy[k].limits : k \in Keys}),
               Budget!Open(g, b)
        PROVE  (WithinBounds /\ Unused)'
    <3>1. Stage(g) = "none" /\ \A h \in Grants : grant'[h].uses = grant[h].uses
      BY <2>2 DEF Budget!Open
    <3>2. \A h \in Grants : h # g => Stage(h)' = Stage(h) /\ BoundsOf(h)' = BoundsOf(h)
      BY <2>2 DEF Budget!Open
    <3>3. grant'[g].uses = 0
      BY <1>2, <3>1
    <3> QED BY <1>2, <2>1, <3>1, <3>2, <3>3 DEF WithinBounds
  <2>3. ASSUME NEW g \in Grants, Budget!Use(g) PROVE (WithinBounds /\ Unused)'
    <3>1. \A h \in Grants : Stage(h)' = Stage(h) /\ BoundsOf(h)' = BoundsOf(h)
      BY <2>3 DEF Budget!Use
    <3>2. /\ Stage(g) = "open" /\ \A n \in BoundsOf(g) : grant[g].uses < n
          /\ grant'[g].uses = grant[g].uses + 1
          /\ \A h \in Grants : h # g => grant'[h].uses = grant[h].uses
      BY <2>3 DEF Budget!Use
    <3>3. \A n \in BoundsOf(g) : grant'[g].uses <= n
      BY <2>1, <3>2
    <3> QED BY <1>2, <3>1, <3>2, <3>3 DEF WithinBounds
  <2>4. ASSUME NEW g \in Grants, Budget!Shut(g) PROVE (WithinBounds /\ Unused)'
    <3>1. \A h \in Grants : grant'[h].uses = grant[h].uses /\ BoundsOf(h)' = BoundsOf(h)
      BY <2>4 DEF Budget!Shut
    <3>2. Stage(g)' = "shut" /\ \A h \in Grants : h # g => Stage(h)' = Stage(h)
      BY <2>4 DEF Budget!Shut
    <3> QED BY <1>2, <3>1, <3>2 DEF WithinBounds
  <2>5. CASE UNCHANGED Budget!vars
    <3>1. \A h \in Grants : /\ grant'[h].uses = grant[h].uses
                            /\ Stage(h)' = Stage(h) /\ BoundsOf(h)' = BoundsOf(h)
      BY <2>5 DEF Budget!vars
    <3> QED BY <1>2, <3>1 DEF WithinBounds
  <2> QED BY <1>2, <2>2, <2>3, <2>4, <2>5 DEF Budget!Next
<1> QED BY <1>1, <1>2, BudgetKept, TypeCorrect, PTL DEF Spec, KeepsBudget, Budget!Spec

-----------------------------------------------------------------------------
(* One process: the lanes of enqueue are one lane per request.              *)

OneProcess == \A c, d \in Calls : Home[c] = Home[d]

(* A call that decides on a request finds it pending until it has written   *)
(* its decision, and resolves it to a grant made for it.                    *)
Turn(r) ==
  /\ r.pc \in {"grant", "resolve", "refuse", "deny"} => request[r.req].status = "PENDING"
  /\ r.pc = "resolve" => grant[r.grant].from = r.req

LaneInv == \A c, d \in Calls : c # d /\ call[c].req # None => call[c].req # call[d].req

FromInv == \A g \in Grants : grant[g].status = "absent" => grant[g].from = None

DecisionInv ==
  OneProcess /\ LaneInv /\ FromInv /\ GrantIsRecorded /\ \A c \in Calls : Turn(call[c])

(* A call that decides nothing with its step, or dies.                      *)
LEMMA UndecidedKeeps ==
  ASSUME IInv, DecisionInv, NEW c \in Calls, NEW r \in Call,
         r.req \in {None, call[c].req},
         r.pc \notin {"grant", "resolve", "refuse", "deny"},
         call' = [call EXCEPT ![c] = r], UNCHANGED request,
         \A g \in Grants : /\ grant'[g].from = grant[g].from
                           /\ grant'[g].status = "absent" => grant[g].status = "absent",
         lost \subseteq lost',
         call[c].pc = "resolve" => call[c].grant \in lost'
  PROVE  DecisionInv'
<1>1. \A d \in Calls : call'[d] = IF d = c THEN r ELSE call[d]
  BY DEF IInv, TypeOK
<1>2. \A d \in Calls : Good(call[d]) /\ Turn(call[d])
  BY DEF IInv, CallsInv, DecisionInv
<1>3. LaneInv'
  BY <1>1 DEF DecisionInv, LaneInv
<1>4. FromInv'
  BY DEF DecisionInv, FromInv
<1>5. ASSUME NEW d \in Calls PROVE Turn(call[d])'
  <2>1. CASE d = c
    BY <1>1, <2>1 DEF Turn
  <2>2. CASE d # c
    BY <1>1, <1>2, <2>2 DEF Turn, Good
  <2> QED BY <2>1, <2>2
<1>6. GrantIsRecorded'
  BY <1>1 DEF DecisionInv, GrantIsRecorded
<1> QED BY <1>3, <1>4, <1>5, <1>6 DEF DecisionInv

(* A call that takes the lane of a pending request.                         *)
LEMMA TakingKeeps ==
  ASSUME IInv, DecisionInv, NEW c \in Calls, NEW r \in Call,
         call[c].pc = "idle", request[r.req].status = "PENDING",
         \A d \in Calls : call[d].req # r.req,
         r.pc \in {"grant", "refuse", "deny"},
         call' = [call EXCEPT ![c] = r], UNCHANGED <<grant, request, lost>>
  PROVE  DecisionInv'
<1>1. \A d \in Calls : call'[d] = IF d = c THEN r ELSE call[d]
  BY DEF IInv, TypeOK
<1>2. LaneInv'
  BY <1>1 DEF DecisionInv, LaneInv
<1>3. \A d \in Calls : Turn(call[d])'
  BY <1>1 DEF DecisionInv, Turn
<1>4. FromInv' /\ GrantIsRecorded'
  BY <1>1 DEF DecisionInv, FromInv, GrantIsRecorded
<1> QED BY <1>2, <1>3, <1>4 DEF DecisionInv

(* A call that writes its decision: only the grant it made, if any, was     *)
(* made for the request.                                                    *)
LEMMA DecidingKeeps ==
  ASSUME IInv, DecisionInv, NEW c \in Calls, NEW r \in Call, NEW q \in Request,
         call[c].pc \in {"resolve", "refuse", "deny"},
         r.req \in {None, call[c].req},
         r.pc \notin {"grant", "resolve", "refuse", "deny"},
         call' = [call EXCEPT ![c] = r],
         request' = [request EXCEPT ![call[c].req] = q],
         call[c].pc = "resolve" => q.status = "ACTIVE" /\ q.grant = call[c].grant,
         UNCHANGED <<grant, lost>>
  PROVE  DecisionInv'
<1>1. \A d \in Calls : call'[d] = IF d = c THEN r ELSE call[d]
  BY DEF IInv, TypeOK
<1>2. \A d \in Calls : Good(call[d]) /\ Turn(call[d])
  BY DEF IInv, CallsInv, DecisionInv
<1>3. call[c].req \in Requests /\ call[c].req # None
  BY <1>2, ConstantsAssumption DEF Good
<1>4. \A p \in Requests : request'[p] = IF p = call[c].req THEN q ELSE request[p]
  BY DEF IInv, TypeOK
<1>5. \A d \in Calls \ {c} : call[d].req # call[c].req
  BY <1>3 DEF DecisionInv, LaneInv
<1>6. LaneInv' /\ FromInv'
  BY <1>1 DEF DecisionInv, LaneInv, FromInv
<1>7. ASSUME NEW d \in Calls PROVE Turn(call[d])'
  <2>1. CASE d = c
    BY <1>1, <2>1 DEF Turn
  <2>2. CASE d # c
    BY <1>1, <1>2, <1>4, <1>5, <2>2 DEF Turn, Good
  <2> QED BY <2>1, <2>2
<1>8. ASSUME NEW g \in Grants, grant[g].from # None, g \notin lost
      PROVE  \/ request'[grant[g].from].status = "ACTIVE" /\ request'[grant[g].from].grant = g
             \/ /\ request'[grant[g].from].status = "PENDING"
                /\ \E d \in Calls : call'[d].pc = "resolve" /\ call'[d].grant = g
  <2>1. grant[g].from \in Requests
    BY <1>8 DEF IInv, TypeOK, Grant
  <2>2. \/ request[grant[g].from].status = "ACTIVE" /\ request[grant[g].from].grant = g
        \/ /\ request[grant[g].from].status = "PENDING"
           /\ \E d \in Calls : call[d].pc = "resolve" /\ call[d].grant = g
    BY <1>8 DEF DecisionInv, GrantIsRecorded
  <2>3. \A d \in Calls : call[d].pc = "resolve" /\ call[d].grant = g
                           => call[d].req = grant[g].from
    BY <1>2 DEF Turn
  <2>4. CASE grant[g].from = call[c].req
    <3>1. request[call[c].req].status = "PENDING"
      BY <1>2 DEF Turn
    <3>2. call[c].pc = "resolve" /\ call[c].grant = g
      BY <1>5, <2>2, <2>3, <2>4, <3>1
    <3> QED BY <1>4, <2>1, <2>4, <3>2
  <2>5. CASE grant[g].from # call[c].req
    BY <1>1, <1>4, <2>1, <2>2, <2>3, <2>5
  <2> QED BY <2>4, <2>5
<1>9. GrantIsRecorded'
  BY <1>8 DEF GrantIsRecorded
<1> QED BY <1>6, <1>7, <1>9 DEF DecisionInv

LEMMA NextDecisionInv == IInv /\ DecisionInv /\ [Next]_vars => DecisionInv'
<1> SUFFICES ASSUME IInv, DecisionInv, [Next]_vars PROVE DecisionInv'
  OBVIOUS
<1>T. TypeOK /\ CallsInv
  BY DEF IInv
<1>c. ASSUME NEW c \in Calls PROVE call[c] \in Call /\ Good(call[c]) /\ Turn(call[c])
  BY <1>T DEF TypeOK, CallsInv, DecisionInv
<1>i. IdleCall \in Call /\ IdleCall.pc = "idle" /\ IdleCall.req = None
  BY DEF IdleCall, Call, Pcs
<1>f. ASSUME NEW c \in Calls, Finish(c), UNCHANGED request, call[c].pc # "resolve",
             \A g \in Grants : /\ grant'[g].from = grant[g].from
                               /\ grant'[g].status = "absent" => grant[g].status = "absent",
             UNCHANGED lost
      PROVE  DecisionInv'
  BY <1>f, <1>i, UndecidedKeeps DEF Finish
<1>g. ASSUME NEW c \in Calls, NEW r \in Call, Go(c, r), r.req = None,
             r.pc \notin {"grant", "resolve", "refuse", "deny"},
             UNCHANGED <<grant, request, lost>>
      PROVE  DecisionInv'
  BY <1>g, UndecidedKeeps DEF Go
<1>1. ASSUME NEW c \in Calls, NEW k \in Keys, NEW s \in BOOLEAN, CheckAsksOwner(c, k, s)
      PROVE  DecisionInv'
  <2>1. PICK r \in Requests :
          /\ request[r].status = "absent"
          /\ request' = [request EXCEPT ![r] =
               [status |-> "PENDING", key |-> k, stepUp |-> s, grant |-> None]]
    BY <1>1 DEF CheckAsksOwner
  <2>2. /\ \A p \in Requests \ {r} : request'[p] = request[p]
        /\ request'[r].status = "PENDING"
    BY <1>T, <2>1 DEF TypeOK
  <2>3. UNCHANGED <<grant, call, lost>>
    BY <1>1 DEF CheckAsksOwner
  <2>4. \A d \in Calls : Turn(call[d])'
    BY <1>c, <2>2, <2>3 DEF Turn, Good
  <2>5. \A g \in Grants : grant[g].from \in Requests \cup {None}
    BY <1>T DEF TypeOK, Grant
  <2>6. GrantIsRecorded'
    BY <2>1, <2>2, <2>3, <2>5 DEF DecisionInv, GrantIsRecorded
  <2> QED BY <2>3, <2>4, <2>6 DEF DecisionInv, LaneInv, FromInv
<1>2. ASSUME NEW c \in Calls, NEW k \in Keys, NEW s \in BOOLEAN, CheckFindsNone(c, k, s)
      PROVE  DecisionInv'
  <2>1. PICK r : r = [IdleCall EXCEPT !.pc = "create", !.key = k]
    OBVIOUS
  <2>2. r \in Call /\ r.pc = "create" /\ r.req = None
    BY <2>1 DEF IdleCall, Call, Pcs
  <2> QED BY <1>2, <1>g, <2>1, <2>2 DEF CheckFindsNone
<1>3. ASSUME NEW c \in Calls, CheckCreates(c) PROVE DecisionInv'
  <2>1. PICK g \in Grants : CreateGrant(g, call[c].key, Policy[call[c].key].limits,
                 Policy[call[c].key].oneTime, Policy[call[c].key].requireStepUp, None)
    BY <1>3 DEF CheckCreates
  <2>2. grant[g].status = "absent" /\ grant[g].from = None
    BY <2>1 DEF CreateGrant, DecisionInv, FromInv
  <2>3. /\ grant'[g].from = None /\ grant'[g].status = "ACTIVE"
        /\ \A h \in Grants \ {g} : grant'[h] = grant[h]
    BY <1>T, <2>1 DEF CreateGrant, TypeOK
  <2>4. \A h \in Grants : /\ grant'[h].from = grant[h].from
                          /\ grant'[h].status = "absent" => grant[h].status = "absent"
    BY <2>2, <2>3
  <2> QED BY <1>3, <1>f, <2>4 DEF CheckCreates
<1>4. ASSUME NEW c \in Calls,
             CreateThrows(c) \/ Mint(c) \/ MintThrows(c) \/ RejectReplay(c) \/ ReserveFails(c)
      PROVE  DecisionInv'
  BY <1>4, <1>f DEF CreateThrows, Mint, MintThrows, RejectReplay, ReserveFails
<1>t. ASSUME NEW c \in Calls, NEW r \in Requests, NEW n \in Call,
             request[r].status = "PENDING", LaneFree(c, r), n.req = r,
             n.pc \in {"grant", "refuse", "deny"}, Go(c, n),
             UNCHANGED <<grant, request, lost>>
      PROVE  DecisionInv'
  <2>1. \A d \in Calls : call[d].req # r
    BY <1>t DEF LaneFree, DecisionInv, OneProcess
  <2> QED BY <1>t, <2>1, TakingKeeps DEF Go
<1>5. ASSUME NEW c \in Calls, NEW r \in Requests, NEW b \in BOOLEAN, Approve(c, r, b)
      PROVE  DecisionInv'
  <2>1. request[r].status = "PENDING" /\ request[r].key \in Keys
    BY <1>5 DEF Approve, IInv, RequestsInv
  <2>2. PICK p \in {"grant", "refuse"} :
          p = IF Policy[request[r].key].payment /\ ~request[r].stepUp THEN "refuse" ELSE "grant"
    OBVIOUS
  <2>3. PICK n : n = [IdleCall EXCEPT !.pc = p, !.req = r, !.key = request[r].key,
                                      !.oneTime = b]
    OBVIOUS
  <2>4. n \in Call /\ n.req = r /\ n.pc \in {"grant", "refuse", "deny"}
    BY <2>1, <2>2, <2>3 DEF IdleCall, Call, Pcs
  <2>5. /\ Go(c, n) /\ LaneFree(c, r)
        /\ UNCHANGED <<grant, request, lost>>
    BY <1>5, <2>2, <2>3 DEF Approve
  <2> QED BY <1>t, <2>1, <2>4, <2>5
<1>6. ASSUME NEW c \in Calls, NEW r \in Requests, Deny(c, r) PROVE DecisionInv'
  <2>1. PICK n : n = [IdleCall EXCEPT !.pc = "deny", !.req = r]
    OBVIOUS
  <2>2. n \in Call /\ n.req = r /\ n.pc \in {"grant", "refuse", "deny"}
    BY <2>1 DEF IdleCall, Call, Pcs
  <2>3. /\ Go(c, n) /\ LaneFree(c, r) /\ request[r].status = "PENDING"
        /\ UNCHANGED <<grant, request, lost>>
    BY <1>6, <2>1 DEF Deny
  <2> QED BY <1>t, <2>2, <2>3
<1>7. ASSUME NEW c \in Calls, ApproveCreates(c) PROVE DecisionInv'
  <2>1. call[c].pc = "grant" /\ UNCHANGED <<request, lost>>
    BY <1>7 DEF ApproveCreates
  <2>2. call[c].req \in Requests /\ request[call[c].req].status = "PENDING"
    BY <1>c, <2>1 DEF Good, Turn
  <2>3. PICK g \in Grants :
          /\ CreateGrant(g, call[c].key, {}, call[c].oneTime, FALSE, call[c].req)
          /\ call' = [call EXCEPT ![c] = [call[c] EXCEPT !.pc = "resolve", !.grant = g]]
    BY <1>7 DEF ApproveCreates
  <2>4. PICK r : r = [call[c] EXCEPT !.pc = "resolve", !.grant = g]
    OBVIOUS
  <2>5. r.pc = "resolve" /\ r.grant = g /\ r.req = call[c].req
    BY <1>c, <2>4 DEF Call
  <2>6. \A d \in Calls : call'[d] = IF d = c THEN r ELSE call[d]
    BY <1>T, <2>3, <2>4 DEF TypeOK
  <2>7. grant[g].status = "absent" /\ grant[g].from = None
    BY <2>3 DEF CreateGrant, DecisionInv, FromInv
  <2>8. /\ grant'[g].from = call[c].req /\ grant'[g].status = "ACTIVE"
        /\ \A h \in Grants \ {g} : grant'[h] = grant[h]
    BY <1>T, <2>3 DEF CreateGrant, TypeOK
  <2>9. LaneInv'
    BY <2>5, <2>6 DEF DecisionInv, LaneInv
  <2>10. FromInv'
    BY <2>8 DEF DecisionInv, FromInv
  <2>11. ASSUME NEW d \in Calls PROVE Turn(call[d])'
    <3>1. CASE d = c
      BY <2>1, <2>2, <2>5, <2>6, <2>8, <3>1 DEF Turn
    <3>2. CASE d # c
      <4>1. call[d].pc = "resolve" => call[d].grant \in Grants \ {g}
        BY <1>c, <2>7, ConstantsAssumption DEF Good, Turn
      <4> QED BY <1>c, <2>1, <2>6, <2>8, <3>2, <4>1 DEF Turn
    <3> QED BY <3>1, <3>2
  <2>12. GrantIsRecorded'
    BY <2>1, <2>2, <2>5, <2>6, <2>8 DEF DecisionInv, GrantIsRecorded
  <2> QED BY <2>9, <2>10, <2>11, <2>12 DEF DecisionInv
<1>8. ASSUME NEW c \in Calls, ApproveResolves(c) PROVE DecisionInv'
  <2>1. call[c].pc = "resolve" /\ UNCHANGED <<grant, lost>>
    BY <1>8 DEF ApproveResolves
  <2>2. PICK r : r = [call[c] EXCEPT !.pc = "mint"]
    OBVIOUS
  <2>3. r \in Call /\ r.pc = "mint" /\ r.req = call[c].req
    BY <1>c, <2>2 DEF Call, Pcs
  <2>4. call[c].req \in Requests /\ call[c].grant \in Grants
    BY <1>c, <2>1 DEF Good
  <2>5. PICK q : q = [request[call[c].req] EXCEPT !.status = "ACTIVE",
                                                  !.grant = call[c].grant]
    OBVIOUS
  <2>6. q \in Request /\ q.status = "ACTIVE" /\ q.grant = call[c].grant
    <3>1. request[call[c].req] \in Request
      BY <1>T, <2>4 DEF TypeOK
    <3>2. PICK g \in Grants \cup {None}, old \in Request, s \in {"ACTIVE"} :
            g = call[c].grant /\ old = request[call[c].req]
      BY <2>4, <3>1
    <3>3. q = [old EXCEPT !.status = s, !.grant = g]
      BY <2>5, <3>2
    <3> QED BY <3>2, <3>3 DEF Request
  <2>7. call' = [call EXCEPT ![c] = r]
    BY <1>8, <2>2 DEF ApproveResolves
  <2>8. request' = [request EXCEPT ![call[c].req] = q]
    BY <1>8, <2>5 DEF ApproveResolves, Resolve
  <2> QED BY <2>1, <2>3, <2>6, <2>7, <2>8, DecidingKeeps
<1>9. ASSUME NEW c \in Calls, WriteDenied(c) PROVE DecisionInv'
  <2>1. call[c].pc \in {"refuse", "deny"} /\ UNCHANGED <<grant, lost>>
    BY <1>9 DEF WriteDenied
  <2>2. call[c].req \in Requests
    BY <1>c, <2>1 DEF Good
  <2>3. PICK q : q = [request[call[c].req] EXCEPT !.status = "DENIED", !.grant = None]
    OBVIOUS
  <2>4. q \in Request
    <3>1. request[call[c].req] \in Request
      BY <1>T, <2>2 DEF TypeOK
    <3>2. PICK old \in Request, s \in {"DENIED"} : old = request[call[c].req]
      BY <3>1
    <3>3. q = [old EXCEPT !.status = s, !.grant = None]
      BY <2>3, <3>2
    <3> QED BY <3>2, <3>3 DEF Request
  <2>5. call' = [call EXCEPT ![c] = IdleCall]
    BY <1>9 DEF WriteDenied, Finish
  <2>6. request' = [request EXCEPT ![call[c].req] = q]
    BY <1>9, <2>3 DEF WriteDenied, Resolve
  <2> QED BY <1>i, <2>1, <2>4, <2>5, <2>6, DecidingKeeps
<1>10. ASSUME NEW c \in Calls, NEW g \in Grants, Revoke(c, g) \/ IssueToken(c, g)
       PROVE  DecisionInv'
  <2>1. PICK p \in {"revoke", "mint"} :
          Go(c, [IdleCall EXCEPT !.pc = p, !.grant = g])
    BY <1>10 DEF Revoke, IssueToken
  <2>2. PICK r : r = [IdleCall EXCEPT !.pc = p, !.grant = g]
    OBVIOUS
  <2>3. r \in Call /\ r.req = None /\ r.pc = p
    BY <2>2 DEF IdleCall, Call, Pcs
  <2> QED BY <1>10, <1>g, <2>1, <2>2, <2>3 DEF Revoke, IssueToken
<1>11. ASSUME NEW c \in Calls, NEW t \in Tokens, UseToken(c, t) PROVE DecisionInv'
  <2>1. token[t] \in Grants
    BY <1>11, <1>T DEF UseToken, TypeOK
  <2>2. PICK p \in {"jti", "reserve"} :
          p = IF grant[token[t]].oneTime THEN "jti" ELSE "reserve"
    OBVIOUS
  <2>3. PICK r : r = [IdleCall EXCEPT !.pc = p, !.grant = token[t], !.token = t]
    OBVIOUS
  <2>4. r \in Call /\ r.req = None /\ r.pc = p
    BY <2>1, <2>3 DEF IdleCall, Call, Pcs
  <2> QED BY <1>11, <1>g, <2>2, <2>3, <2>4 DEF UseToken
<1>12. ASSUME NEW c \in Calls, TakeJti(c) PROVE DecisionInv'
  <2>1. PICK r : r = [call[c] EXCEPT !.pc = "reserve"]
    OBVIOUS
  <2>2. r \in Call /\ r.pc = "reserve" /\ r.req = call[c].req
    BY <1>c, <2>1 DEF Call, Pcs
  <2>3. call' = [call EXCEPT ![c] = r] /\ call[c].pc # "resolve"
    BY <1>12, <2>1 DEF TakeJti
  <2>4. UNCHANGED <<grant, request, lost>>
    BY <1>12 DEF TakeJti
  <2> QED BY <2>2, <2>3, <2>4, UndecidedKeeps
<1>13. ASSUME NEW c \in Calls, WriteRevoked(c) PROVE DecisionInv'
  <2>1. PICK g \in Grants : g = call[c].grant /\ grant[g].status # "absent"
    BY <1>13, <1>T DEF WriteRevoked, CallsInv, Good, Aimed
  <2>2. PICK n : n = [grant[g] EXCEPT !.status = "REVOKED"]
    OBVIOUS
  <2>3. n.from = grant[g].from /\ n.status = "REVOKED"
    BY <1>T, <2>2 DEF TypeOK, Grant
  <2>4. grant' = [grant EXCEPT ![g] = n]
    BY <1>13, <2>1, <2>2 DEF WriteRevoked
  <2>5. \A h \in Grants : grant'[h] = IF h = g THEN n ELSE grant[h]
    BY <1>T, <2>4 DEF TypeOK
  <2>6. Finish(c) /\ call[c].pc = "revoke" /\ UNCHANGED <<request, lost>>
    BY <1>13 DEF WriteRevoked
  <2>7. \A h \in Grants : /\ grant'[h].from = grant[h].from
                          /\ grant'[h].status = "absent" => grant[h].status = "absent"
    BY <2>1, <2>3, <2>5
  <2> QED BY <1>f, <2>6, <2>7
<1>14. ASSUME NEW c \in Calls, Reserve(c) PROVE DecisionInv'
  <2>1. PICK g \in Grants : g = call[c].grant /\ grant[g].status = "ACTIVE"
    BY <1>14, <1>T DEF Reserve, grantIsLive, CallsInv, Good
  <2>2. PICK s \in {"ACTIVE", "CONSUMED"} :
          s = IF grant[g].oneTime THEN "CONSUMED" ELSE grant[g].status
    BY <2>1
  <2>3. PICK n : n = [grant[g] EXCEPT !.uses = grant[g].uses + 1, !.status = s]
    OBVIOUS
  <2>4. n.from = grant[g].from /\ n.status = s
    BY <1>T, <2>3 DEF TypeOK, Grant
  <2>5. n = UsedOnce(g)
    BY <1>T, <2>2, <2>3 DEF UsedOnce, TypeOK, Grant
  <2>6. grant' = [grant EXCEPT ![g] = n]
    BY <1>14, <2>1, <2>5 DEF Reserve
  <2>7. \A h \in Grants : grant'[h] = IF h = g THEN n ELSE grant[h]
    BY <1>T, <2>6 DEF TypeOK
  <2>8. Finish(c) /\ call[c].pc = "reserve" /\ UNCHANGED <<request, lost>>
    BY <1>14 DEF Reserve
  <2>9. \A h \in Grants : /\ grant'[h].from = grant[h].from
                          /\ grant'[h].status = "absent" => grant[h].status = "absent"
    BY <2>4, <2>7
  <2> QED BY <1>f, <2>8, <2>9
<1>15. ASSUME NEW c \in Calls, Fail(c) PROVE DecisionInv'
  <2>1. /\ lost \subseteq lost' /\ UNCHANGED <<grant, request>>
        /\ call[c].pc = "resolve" => call[c].grant \in lost'
        /\ call' = [call EXCEPT ![c] = IdleCall]
    BY <1>15 DEF Fail, Finish
  <2> QED BY <1>i, <2>1, UndecidedKeeps
<1>16. ASSUME UNCHANGED <<grant, request, call, lost>> PROVE DecisionInv'
  BY <1>16 DEF DecisionInv, LaneInv, FromInv, GrantIsRecorded, Turn
<1>17. ASSUME NEW c \in Calls, Start(c) PROVE DecisionInv'
  BY <1>17, <1>1, <1>2, <1>5, <1>6, <1>10, <1>11 DEF Start
<1>18. ASSUME NEW c \in Calls, Proceed(c) PROVE DecisionInv'
  BY <1>18, <1>3, <1>4, <1>7, <1>8, <1>9, <1>12, <1>13, <1>14 DEF Proceed
<1> QED BY <1>15, <1>16, <1>17, <1>18 DEF Next, EndGrant, LapseToken, vars

(* While one process decides on requests, each is decided once, whatever    *)
(* calls die: the lane of enqueue is held from the check of the status to   *)
(* the write of the decision.                                               *)
THEOREM RequestsDecidedOnce == OneProcess /\ Spec => []GrantIsRecorded
<1>1. OneProcess /\ Init => DecisionInv
  BY DEF Init, DecisionInv, LaneInv, FromInv, GrantIsRecorded, Turn, IdleCall, NoGrant
<1>2. DecisionInv => GrantIsRecorded
  BY DEF DecisionInv
<1> QED BY <1>1, <1>2, NextDecisionInv, Invariance, PTL DEF Spec

-----------------------------------------------------------------------------
(* How many live grants a key may get *)

Asking(k) == Policy[k].decision = "ASK_OWNER"

(* Only what the owner decides on goes through requests.                    *)
OwnersKeys ==
  /\ \A r \in Requests : request[r].status # "absent" => Asking(request[r].key)
  /\ \A c \in Calls : call[c].pc = "grant" => Asking(call[c].key)

BoundedFor(k) ==
  /\ IsFiniteSet(LiveFor(k))
  /\ Cardinality(LiveFor(k)) + Cardinality(CreatingFor(k)) <= Cardinality(Calls)

LiveInv == OwnersKeys /\ \A k \in Keys : ~Asking(k) => BoundedFor(k)

(* A step that makes no grant live and lets no check begin to create, but   *)
(* for keys the owner is asked about.                                       *)
Steady ==
  /\ \A g \in Grants : grantIsLive(g)' => Asking(grant'[g].key) \/ (grantIsLive(g) /\ grant'[g].key = grant[g].key)
  /\ \A d \in Calls : call'[d].pc \in {"create", "grant"} =>
       \/ call'[d].pc = call[d].pc /\ call'[d].key = call[d].key
       \/ call'[d].pc = "grant" /\ Asking(call'[d].key)
  /\ \A r \in Requests : request'[r].status # "absent" =>
       \/ Asking(request'[r].key)
       \/ request[r].status # "absent" /\ request'[r].key = request[r].key

LEMMA SteadyKeepsBound == ASSUME IsFiniteSet(Calls), LiveInv, Steady PROVE LiveInv'
<1>1. OwnersKeys'
  BY DEF LiveInv, OwnersKeys, Steady, Asking
<1>2. ASSUME NEW k \in Keys, ~Asking(k) PROVE BoundedFor(k)'
  <2>1. LiveFor(k)' \in SUBSET LiveFor(k) /\ CreatingFor(k)' \in SUBSET CreatingFor(k)
    BY <1>2 DEF Steady, LiveFor, CreatingFor
  <2>2. CreatingFor(k) \in SUBSET Calls
    BY DEF CreatingFor
  <2>3. IsFiniteSet(LiveFor(k)) /\ IsFiniteSet(CreatingFor(k)) /\ IsFiniteSet(CreatingFor(k)') /\ IsFiniteSet(LiveFor(k)')
    BY <1>2, <2>1, <2>2, FS_Subset DEF LiveInv, BoundedFor
  <2>4. /\ Cardinality(LiveFor(k)') <= Cardinality(LiveFor(k))
        /\ Cardinality(CreatingFor(k)') <= Cardinality(CreatingFor(k))
    BY <2>1, <2>3, FS_Subset
  <2>5. /\ Cardinality(LiveFor(k)') \in Nat /\ Cardinality(LiveFor(k)) \in Nat /\ Cardinality(Calls) \in Nat
        /\ Cardinality(CreatingFor(k)') \in Nat /\ Cardinality(CreatingFor(k)) \in Nat
    BY <2>3, FS_CardinalityType
  <2>6. Cardinality(LiveFor(k)) + Cardinality(CreatingFor(k)) <= Cardinality(Calls)
    BY <1>2 DEF LiveInv, BoundedFor
  <2> QED BY <2>3, <2>4, <2>5, <2>6 DEF BoundedFor
<1> QED BY <1>1, <1>2 DEF LiveInv, Asking

(* A check that found no live grant may begin to create one.                *)
LEMMA FindingNoneKeepsBound ==
  ASSUME IsFiniteSet(Calls), IInv, LiveInv, NEW c \in Calls, NEW k \in Keys, NEW s \in BOOLEAN, CheckFindsNone(c, k, s)
  PROVE  LiveInv'
<1>1. /\ UNCHANGED <<grant, ended, request>>
      /\ call'[c] = [IdleCall EXCEPT !.pc = "create", !.key = k]
      /\ \A d \in Calls \ {c} : call'[d] = call[d]
      /\ \A g \in Grants : ~(grant[g].key = k /\ grantIsLive(g))
  BY DEF CheckFindsNone, Go, IInv, TypeOK, Serves
<1>2. call'[c].pc = "create" /\ call'[c].key = k
  BY <1>1 DEF IdleCall
<1>5. call[c].pc = "idle"
  BY DEF CheckFindsNone, Go
<1>3. OwnersKeys'
  BY <1>1, <1>2 DEF LiveInv, OwnersKeys, Asking
<1>4. ASSUME NEW l \in Keys, ~Asking(l) PROVE BoundedFor(l)'
  <2>1. CASE l = k
    <3>0. \A g \in Grants : ~(grant'[g].key = k /\ grant'[g].status = "ACTIVE" /\ g \notin ended')
      BY <1>1 DEF grantIsLive
    <3>1. LiveFor(k)' = {}
      BY <3>0 DEF LiveFor, grantIsLive
    <3>2. CreatingFor(k)' \in SUBSET Calls
      BY DEF CreatingFor
    <3>3. Cardinality(CreatingFor(k)') <= Cardinality(Calls) /\ IsFiniteSet(CreatingFor(k)')
      BY <3>2, FS_Subset
    <3>4. Cardinality(CreatingFor(k)') \in Nat
      BY <3>3, FS_CardinalityType
    <3> QED BY <2>1, <3>1, <3>3, <3>4, FS_EmptySet DEF BoundedFor
  <2>2. CASE l # k
    <3>1. LiveFor(l)' = LiveFor(l)
      BY <1>1 DEF LiveFor, grantIsLive
    <3>2. \A d \in Calls : call'[d].pc = "create" /\ call'[d].key = l <=> call[d].pc = "create" /\ call[d].key = l
      BY <1>1, <1>2, <2>2, <1>5
    <3>3. CreatingFor(l)' = CreatingFor(l)
      BY <3>2 DEF CreatingFor
    <3> QED BY <1>4, <3>1, <3>3 DEF LiveInv, BoundedFor
  <2> QED BY <2>1, <2>2
<1> QED BY <1>3, <1>4 DEF LiveInv, Asking

(* It creates one and is done.                                              *)
LEMMA CreatingKeepsBound ==
  ASSUME IsFiniteSet(Calls), IInv, LiveInv, NEW c \in Calls, CheckCreates(c)
  PROVE  LiveInv'
<1>0. PICK g \in Grants : \E n :
        /\ n.status = "ACTIVE" /\ n.key = call[c].key
        /\ grant' = [grant EXCEPT ![g] = n]
  BY DEF CheckCreates, CreateGrant
<1>1. PICK n :
        /\ n.status = "ACTIVE" /\ n.key = call[c].key
        /\ grant' = [grant EXCEPT ![g] = n]
  BY <1>0
<1>2. /\ UNCHANGED <<ended, request>> /\ call[c].pc = "create" /\ call'[c].pc = "idle"
      /\ \A d \in Calls \ {c} : call'[d] = call[d]
      /\ \A h \in Grants \ {g} : grant'[h] = grant[h]
      /\ grant'[g] = n
  BY <1>1, IdleIsCall DEF CheckCreates, Finish, IInv, TypeOK
<1>3. OwnersKeys'
  BY <1>2 DEF LiveInv, OwnersKeys, Asking
<1>4. ASSUME NEW k \in Keys, ~Asking(k) PROVE BoundedFor(k)'
  <2>1. CASE call[c].key = k
    <3>1. LiveFor(k)' \in SUBSET (LiveFor(k) \cup {g})
      <4>1. \A h \in Grants : h # g /\ grant'[h].key = k /\ grant'[h].status = "ACTIVE" /\ h \notin ended' =>
              grant[h].key = k /\ grant[h].status = "ACTIVE" /\ h \notin ended
        BY <1>2
      <4> QED BY <4>1 DEF LiveFor, grantIsLive
    <3>2. CreatingFor(k)' = CreatingFor(k) \ {c} /\ c \in CreatingFor(k) /\ CreatingFor(k) \in SUBSET Calls
      BY <1>2, <2>1 DEF CreatingFor
    <3>3. IsFiniteSet(LiveFor(k)) /\ IsFiniteSet(CreatingFor(k))
      BY <1>4, <3>2, FS_Subset DEF LiveInv, BoundedFor
    <3>4. /\ IsFiniteSet(LiveFor(k) \cup {g}) /\ Cardinality(LiveFor(k) \cup {g}) <= Cardinality(LiveFor(k)) + 1
          /\ Cardinality(CreatingFor(k)') = Cardinality(CreatingFor(k)) - 1
      <4>1. Cardinality(LiveFor(k)) \in Nat /\ IsFiniteSet(LiveFor(k) \cup {g})
        BY <3>3, FS_AddElement, FS_CardinalityType
      <4>2. Cardinality(LiveFor(k) \cup {g}) = IF g \in LiveFor(k) THEN Cardinality(LiveFor(k)) ELSE Cardinality(LiveFor(k)) + 1
        BY <3>3, FS_AddElement
      <4>3. Cardinality(CreatingFor(k) \ {c}) = Cardinality(CreatingFor(k)) - 1
        BY <3>2, <3>3, FS_RemoveElement
      <4> QED BY <3>2, <4>1, <4>2, <4>3
    <3>5. IsFiniteSet(LiveFor(k)') /\ Cardinality(LiveFor(k)') <= Cardinality(LiveFor(k) \cup {g})
      BY <3>1, <3>4, FS_Subset
    <3>6. /\ Cardinality(LiveFor(k)') \in Nat /\ Cardinality(LiveFor(k)) \in Nat
          /\ Cardinality(LiveFor(k) \cup {g}) \in Nat
          /\ Cardinality(CreatingFor(k)) \in Nat /\ Cardinality(Calls) \in Nat
      BY <3>3, <3>4, <3>5, FS_CardinalityType
    <3>7. Cardinality(LiveFor(k)) + Cardinality(CreatingFor(k)) <= Cardinality(Calls)
      BY <1>4 DEF LiveInv, BoundedFor
    <3> QED BY <3>4, <3>5, <3>6, <3>7 DEF BoundedFor
  <2>2. CASE call[c].key # k
    <3>1. LiveFor(k)' \in SUBSET LiveFor(k)
      BY <1>1, <1>2, <2>2 DEF LiveFor, grantIsLive
    <3>2. CreatingFor(k)' = CreatingFor(k)
      BY <1>2, <2>2 DEF CreatingFor
    <3>3. IsFiniteSet(LiveFor(k)) /\ Cardinality(LiveFor(k)) + Cardinality(CreatingFor(k)) <= Cardinality(Calls)
      BY <1>4 DEF LiveInv, BoundedFor
    <3>4. IsFiniteSet(LiveFor(k)') /\ Cardinality(LiveFor(k)') <= Cardinality(LiveFor(k))
      BY <3>1, <3>3, FS_Subset
    <3>5. CreatingFor(k) \in SUBSET Calls
      BY DEF CreatingFor
    <3>6. IsFiniteSet(CreatingFor(k))
      BY <3>5, FS_Subset
    <3>7. /\ Cardinality(LiveFor(k)') \in Nat /\ Cardinality(LiveFor(k)) \in Nat
          /\ Cardinality(CreatingFor(k)) \in Nat /\ Cardinality(Calls) \in Nat
      BY <3>3, <3>4, <3>6, FS_CardinalityType
    <3> QED BY <3>2, <3>3, <3>4, <3>7 DEF BoundedFor
  <2> QED BY <2>1, <2>2
<1> QED BY <1>3, <1>4 DEF LiveInv, Asking

LEMMA NextLiveInv == ASSUME IsFiniteSet(Calls), IInv, LiveInv, [Next]_vars PROVE LiveInv'
<1>T. /\ grant \in [Grants -> Grant] /\ request \in [Requests -> Request] /\ call \in [Calls -> Call]
      /\ \A c \in Calls : Good(call[c]) /\ Aimed(call[c])
  BY DEF IInv, TypeOK, CallsInv
<1>S. ASSUME Steady PROVE LiveInv'
  BY <1>S, SteadyKeepsBound
<1> USE DEF Steady
<1>c. ASSUME NEW c \in Calls, NEW r, r.pc \notin {"create", "grant"}, call' = [call EXCEPT ![c] = r]
      PROVE  \A d \in Calls : call'[d].pc \in {"create", "grant"} => call'[d].pc = call[d].pc /\ call'[d].key = call[d].key
  BY <1>T, <1>c
<1>g. UNCHANGED <<grant, ended>> =>
        \A g \in Grants : grantIsLive(g)' => Asking(grant'[g].key) \/ (grantIsLive(g) /\ grant'[g].key = grant[g].key)
  BY DEF grantIsLive
<1>e. UNCHANGED <<grant, ended, request>> =>
        /\ \A g \in Grants : grantIsLive(g)' => Asking(grant'[g].key) \/ (grantIsLive(g) /\ grant'[g].key = grant[g].key)
        /\ \A r \in Requests : request'[r].status # "absent" =>
             \/ Asking(request'[r].key)
             \/ request[r].status # "absent" /\ request'[r].key = request[r].key
  BY <1>g
<1>1. CASE UNCHANGED vars
  BY <1>1, <1>S DEF vars, grantIsLive
<1>2. ASSUME NEW c \in Calls, Start(c) PROVE LiveInv'
  <2>1. ASSUME NEW k \in Keys, NEW s \in BOOLEAN, CheckAsksOwner(c, k, s) PROVE Steady
    <3> DEFINE q == [status |-> "PENDING", key |-> k, stepUp |-> s, grant |-> None]
    <3>0. q.key = k
      OBVIOUS
    <3>1. PICK r \in Requests : request' = [request EXCEPT ![r] = q]
      BY <2>1 DEF CheckAsksOwner
    <3> HIDE DEF q
    <3>2. UNCHANGED <<grant, ended, call>> /\ Asking(k)
      BY <2>1 DEF CheckAsksOwner, Asking
    <3>3. \A x \in Requests : request'[x].status # "absent" =>
             \/ Asking(request'[x].key)
             \/ request[x].status # "absent" /\ request'[x].key = request[x].key
      BY <1>T, <3>0, <3>1, <3>2
    <3> QED BY <1>g, <3>2, <3>3
  <2>2. ASSUME NEW r \in Requests, NEW b \in BOOLEAN, Approve(c, r, b) PROVE Steady
    <3>0. PICK pc \in {"refuse", "grant"} :
            call' = [call EXCEPT ![c] = [IdleCall EXCEPT !.pc = pc, !.req = r, !.key = request[r].key, !.oneTime = b]]
      BY <2>2 DEF Approve, Go
    <3> DEFINE n == [IdleCall EXCEPT !.pc = pc, !.req = r, !.key = request[r].key, !.oneTime = b]
    <3>1. /\ call' = [call EXCEPT ![c] = n] /\ n.pc \in {"refuse", "grant"} /\ n.key = request[r].key
      BY <3>0 DEF IdleCall
    <3> HIDE DEF n
    <3>2. Asking(request[r].key)
      BY <2>2 DEF Approve, LiveInv, OwnersKeys
    <3>3. \A d \in Calls : call'[d].pc \in {"create", "grant"} =>
            \/ call'[d].pc = call[d].pc /\ call'[d].key = call[d].key
            \/ call'[d].pc = "grant" /\ Asking(call'[d].key)
      BY <1>T, <3>1, <3>2 DEF Asking
    <3>4. UNCHANGED <<grant, ended, request>>
      BY <2>2 DEF Approve
    <3> QED BY <1>e, <3>3, <3>4
  <2>3. ASSUME NEW r \in Requests, Deny(c, r) PROVE Steady
    <3> DEFINE n == [IdleCall EXCEPT !.pc = "deny", !.req = r]
    <3>1. call' = [call EXCEPT ![c] = n] /\ n.pc = "deny"
      BY <2>3 DEF Deny, Go, IdleCall
    <3> HIDE DEF n
    <3>2. UNCHANGED <<grant, ended, request>>
      BY <2>3 DEF Deny
    <3> QED BY <1>c, <1>e, <3>1, <3>2
  <2>4. ASSUME NEW g \in Grants, Revoke(c, g) \/ IssueToken(c, g) PROVE Steady
    <3>0. PICK pc \in {"revoke", "mint"} : call' = [call EXCEPT ![c] = [IdleCall EXCEPT !.pc = pc, !.grant = g]]
      BY <2>4 DEF Revoke, IssueToken, Go
    <3> DEFINE n == [IdleCall EXCEPT !.pc = pc, !.grant = g]
    <3>1. call' = [call EXCEPT ![c] = n] /\ n.pc \in {"revoke", "mint"}
      BY <3>0 DEF IdleCall
    <3> HIDE DEF n
    <3>2. UNCHANGED <<grant, ended, request>>
      BY <2>4 DEF Revoke, IssueToken
    <3> QED BY <1>c, <1>e, <3>1, <3>2
  <2>5. ASSUME NEW t \in Tokens, UseToken(c, t) PROVE Steady
    <3>0. PICK pc \in {"jti", "reserve"} :
            call' = [call EXCEPT ![c] = [IdleCall EXCEPT !.pc = pc, !.grant = token[t], !.token = t]]
      BY <2>5 DEF UseToken, Go
    <3> DEFINE n == [IdleCall EXCEPT !.pc = pc, !.grant = token[t], !.token = t]
    <3>1. call' = [call EXCEPT ![c] = n] /\ n.pc \in {"jti", "reserve"}
      BY <3>0 DEF IdleCall
    <3> HIDE DEF n
    <3>2. UNCHANGED <<grant, ended, request>>
      BY <2>5 DEF UseToken
    <3> QED BY <1>c, <1>e, <3>1, <3>2
  <2> QED BY <1>2, <1>S, <2>1, <2>2, <2>3, <2>4, <2>5, FindingNoneKeepsBound DEF Start
<1>3. ASSUME NEW c \in Calls, Proceed(c) \/ Fail(c) PROVE LiveInv'
  <2>1. CASE Finish(c) /\ UNCHANGED <<grant, ended, request>>
    <3>1. \A d \in Calls : call'[d].pc \in {"create", "grant"} => call'[d].pc = call[d].pc /\ call'[d].key = call[d].key
      BY <1>c, <2>1, IdleIsCall DEF Finish
    <3> QED BY <1>S, <1>e, <2>1, <3>1
  <2>2. CASE CreateThrows(c) \/ Mint(c) \/ MintThrows(c) \/ RejectReplay(c) \/ ReserveFails(c) \/ Fail(c)
    BY <2>1, <2>2 DEF CreateThrows, Mint, MintThrows, RejectReplay, ReserveFails, Fail
  <2>3. CASE ApproveCreates(c)
    <3>0. PICK g \in Grants : \E n : n.key = call[c].key /\ grant' = [grant EXCEPT ![g] = n]
      BY <2>3 DEF ApproveCreates, CreateGrant
    <3>1. PICK n : n.key = call[c].key /\ grant' = [grant EXCEPT ![g] = n]
      BY <3>0
    <3>2. PICK h \in Grants : call' = [call EXCEPT ![c] = [call[c] EXCEPT !.pc = "resolve", !.grant = h]]
      BY <2>3 DEF ApproveCreates
    <3> DEFINE m == [call[c] EXCEPT !.pc = "resolve", !.grant = h]
    <3>7. call' = [call EXCEPT ![c] = m] /\ m.pc = "resolve"
      BY <1>T, <3>2 DEF Call
    <3> HIDE DEF m
    <3>3. Asking(call[c].key)
      BY <2>3 DEF ApproveCreates, LiveInv, OwnersKeys
    <3>4. \A x \in Grants : grantIsLive(x)' => Asking(grant'[x].key) \/ (grantIsLive(x) /\ grant'[x].key = grant[x].key)
      BY <1>T, <2>3, <3>1, <3>3 DEF ApproveCreates, grantIsLive
    <3>5. \A d \in Calls : call'[d].pc \in {"create", "grant"} => call'[d].pc = call[d].pc /\ call'[d].key = call[d].key
      BY <1>c, <3>7
    <3>6. UNCHANGED request
      BY <2>3 DEF ApproveCreates
    <3> QED BY <1>S, <3>4, <3>5, <3>6
  <2>4. CASE ApproveResolves(c) \/ WriteDenied(c)
    <3>1. PICK r \in Requests : (\E s, g : Resolve(r, s, g)) /\ request[r].status # "absent"
      BY <1>T, <2>4 DEF ApproveResolves, WriteDenied, Good, Aimed
    <3>2. \A x \in Requests : request'[x].status # "absent" => request[x].status # "absent" /\ request'[x].key = request[x].key
      BY <1>T, <3>1 DEF Resolve, Request
    <3>3. PICK n : call' = [call EXCEPT ![c] = n] /\ n.pc \in {"idle", "mint"}
      BY <1>T, <2>4, IdleIsCall DEF ApproveResolves, WriteDenied, Finish, Call
    <3>4. \A d \in Calls : call'[d].pc \in {"create", "grant"} => call'[d].pc = call[d].pc /\ call'[d].key = call[d].key
      BY <1>c, <3>3
    <3>5. UNCHANGED <<grant, ended>>
      BY <2>4 DEF ApproveResolves, WriteDenied
    <3> QED BY <1>S, <1>g, <3>2, <3>4, <3>5
  <2>5. CASE WriteRevoked(c) \/ Reserve(c)
    <3>0. PICK g \in Grants : \E n : grant' = [grant EXCEPT ![g] = n] /\ n.key = grant[g].key
                                 /\ (n.status = "ACTIVE" => grant[g].status = "ACTIVE")
      <4>1. call[c].grant \in Grants
        BY <1>T, <2>5 DEF WriteRevoked, Reserve, Good
      <4>2. grant[call[c].grant] \in Grant
        BY <1>T, <4>1
      <4>3. CASE WriteRevoked(c)
        <5> DEFINE n == [grant[call[c].grant] EXCEPT !.status = "REVOKED"]
        <5>1. grant' = [grant EXCEPT ![call[c].grant] = n]
          BY <4>3 DEF WriteRevoked
        <5>2. n.key = grant[call[c].grant].key /\ n.status # "ACTIVE"
          BY <4>2 DEF Grant
        <5> HIDE DEF n
        <5> QED BY <4>1, <5>1, <5>2
      <4>4. CASE Reserve(c)
        <5> DEFINE n == UsedOnce(call[c].grant)
        <5>1. grant' = [grant EXCEPT ![call[c].grant] = n]
          BY <4>4 DEF Reserve
        <5>2. n.key = grant[call[c].grant].key /\ (n.status = "ACTIVE" => grant[call[c].grant].status = "ACTIVE")
          BY <4>2 DEF Grant, UsedOnce
        <5> HIDE DEF n
        <5> QED BY <4>1, <5>1, <5>2
      <4> QED BY <2>5, <4>3, <4>4
    <3>1. PICK n : /\ grant' = [grant EXCEPT ![g] = n] /\ n.key = grant[g].key
                   /\ (n.status = "ACTIVE" => grant[g].status = "ACTIVE")
      BY <3>0
    <3>2. \A h \in Grants : grantIsLive(h)' => grantIsLive(h) /\ grant'[h].key = grant[h].key
      BY <1>T, <2>5, <3>1 DEF WriteRevoked, Reserve, grantIsLive
    <3>3. call' = [call EXCEPT ![c] = IdleCall]
      BY <2>5 DEF WriteRevoked, Reserve, Finish
    <3>4. \A d \in Calls : call'[d].pc \in {"create", "grant"} => call'[d].pc = call[d].pc /\ call'[d].key = call[d].key
      BY <1>c, <3>3, IdleIsCall
    <3>5. UNCHANGED request
      BY <2>5 DEF WriteRevoked, Reserve
    <3> QED BY <1>S, <3>2, <3>4, <3>5
  <2>6. CASE TakeJti(c)
    <3> DEFINE n == [call[c] EXCEPT !.pc = "reserve"]
    <3>1. call' = [call EXCEPT ![c] = n] /\ n.pc = "reserve"
      BY <1>T, <2>6 DEF TakeJti, Call
    <3> HIDE DEF n
    <3>2. \A d \in Calls : call'[d].pc \in {"create", "grant"} => call'[d].pc = call[d].pc /\ call'[d].key = call[d].key
      BY <1>c, <3>1
    <3>3. UNCHANGED <<grant, ended, request>>
      BY <2>6 DEF TakeJti
    <3> QED BY <1>S, <1>e, <3>2, <3>3
  <2> QED BY <1>3, <2>2, <2>3, <2>4, <2>5, <2>6, CreatingKeepsBound DEF Proceed
<1>4. ASSUME NEW g \in Grants, EndGrant(g) PROVE LiveInv'
  BY <1>4, <1>S DEF EndGrant, grantIsLive
<1>5. ASSUME NEW t \in Tokens, LapseToken(t) PROVE LiveInv'
  BY <1>5, <1>S DEF LapseToken, grantIsLive
<1> QED BY <1>1, <1>2, <1>3, <1>4, <1>5 DEF Next

(* A key that its policy allows never has more live grants, counting the    *)
(* checks about to create one, than there are calls: check asks for a live  *)
(* grant before it creates one, so what it multiplies is bounded by what    *)
(* runs beside it.  For any finite number of calls, and any grants.         *)
THEOREM LiveGrantsBounded == IsFiniteSet(Calls) /\ Spec => []LiveBounded
<1> SUFFICES ASSUME IsFiniteSet(Calls) PROVE Spec => []LiveBounded
  OBVIOUS
<1>1. Init => LiveInv
  <2> SUFFICES ASSUME Init PROVE LiveInv
    OBVIOUS
  <2>1. OwnersKeys
    BY DEF Init, OwnersKeys, NoRequest, IdleCall
  <2>2. ASSUME NEW k \in Keys PROVE LiveFor(k) = {} /\ CreatingFor(k) = {}
    BY DEF Init, LiveFor, CreatingFor, grantIsLive, NoGrant, IdleCall
  <2>3. Cardinality(Calls) \in Nat
    BY FS_CardinalityType
  <2> QED BY <2>1, <2>2, <2>3, FS_EmptySet DEF LiveInv, BoundedFor
<1>2. LiveInv => LiveBounded
  BY DEF LiveInv, BoundedFor, LiveBounded, Asking
<1>3. IInv /\ LiveInv /\ [Next]_vars => LiveInv'
  BY NextLiveInv
<1> QED BY <1>1, <1>2, <1>3, Invariance, PTL DEF Spec

-----------------------------------------------------------------------------
(* How many tokens may be burnt *)

(* What a step keeps of a grant once it is made: its terms; and it does not *)
(* come back to life.                                                       *)
Settled ==
  \A g \in Grants :
    grant[g].status # "absent" =>
      /\ grant'[g].status # "absent"
      /\ grant'[g].limits = grant[g].limits /\ grant'[g].oneTime = grant[g].oneTime
      /\ grantIsLive(g)' => grantIsLive(g)

LEMMA NextSettled == IInv /\ [Next]_vars => Settled
<1> SUFFICES ASSUME IInv, [Next]_vars PROVE Settled
  OBVIOUS
<1>T. grant \in [Grants -> Grant] /\ \A c \in Calls : Good(call[c])
  BY DEF IInv, TypeOK, CallsInv
<1>u. ASSUME UNCHANGED grant, ended \subseteq ended' PROVE Settled
  BY <1>u DEF Settled, grantIsLive
<1>w. ASSUME UNCHANGED ended, NEW g \in Grants, NEW n, grant' = [grant EXCEPT ![g] = n],
             \/ grant[g].status = "absent"
             \/ /\ n.status # "absent" /\ n.limits = grant[g].limits /\ n.oneTime = grant[g].oneTime
                /\ n.status = "ACTIVE" => grant[g].status = "ACTIVE"
      PROVE  Settled
  <2>1. \A h \in Grants : grant'[h] = IF h = g THEN n ELSE grant[h]
    BY <1>T, <1>w
  <2> QED BY <1>w, <2>1 DEF Settled, grantIsLive
<1>1. ASSUME NEW c \in Calls, CheckCreates(c) \/ ApproveCreates(c) PROVE Settled
  <2>1. PICK g \in Grants : grant[g].status = "absent" /\ \E n : grant' = [grant EXCEPT ![g] = n]
    BY <1>1 DEF CheckCreates, ApproveCreates, CreateGrant
  <2> QED BY <1>1, <1>w, <2>1 DEF CheckCreates, ApproveCreates
<1>2. ASSUME NEW c \in Calls, WriteRevoked(c) \/ Reserve(c) PROVE Settled
  <2> DEFINE g == call[c].grant
  <2>1. g \in Grants /\ grant[g] \in Grant
    BY <1>2, <1>T DEF WriteRevoked, Reserve, Good
  <2>2. PICK n : n = [grant[g] EXCEPT !.status = "REVOKED"]
    OBVIOUS
  <2>3. PICK m : m = UsedOnce(g)
    OBVIOUS
  <2>4. CASE WriteRevoked(c)
    <3>1. n.status = "REVOKED" /\ n.limits = grant[g].limits /\ n.oneTime = grant[g].oneTime
      BY <2>1, <2>2 DEF Grant
    <3> QED BY <1>w, <2>1, <2>2, <2>4, <3>1 DEF WriteRevoked
  <2>5. CASE Reserve(c)
    <3>1. m.status # "absent" /\ m.limits = grant[g].limits /\ m.oneTime = grant[g].oneTime /\ grant[g].status = "ACTIVE"
      BY <2>1, <2>3, <2>5 DEF Grant, UsedOnce, Reserve, grantIsLive
    <3> QED BY <1>w, <2>1, <2>3, <2>5, <3>1 DEF Reserve
  <2> QED BY <1>2, <2>4, <2>5
<1>3. ASSUME NEW c \in Calls, Proceed(c) PROVE Settled
  BY <1>1, <1>2, <1>3, <1>u
  DEF Proceed, CreateThrows, ApproveResolves, WriteDenied, Mint, MintThrows, TakeJti, RejectReplay, ReserveFails
<1>4. ASSUME NEW c \in Calls, Start(c) PROVE Settled
  BY <1>4, <1>u DEF Start, CheckAsksOwner, CheckFindsNone, Approve, Deny, Revoke, IssueToken, UseToken
<1>5. ASSUME NEW c \in Calls, Fail(c) PROVE Settled
  BY <1>5, <1>u DEF Fail
<1>6. ASSUME UNCHANGED vars \/ (\E g \in Grants : EndGrant(g)) \/ (\E t \in Tokens : LapseToken(t)) PROVE Settled
  BY <1>6, <1>u DEF vars, EndGrant, LapseToken
<1> QED BY <1>3, <1>4, <1>5, <1>6 DEF Next

(* A token taken is one of a one-time grant; a call that uses a token knows *)
(* its grant, and saw that its limits are not zero.                         *)
Using(r) ==
  r.pc \in {"jti", "reserve"} =>
    /\ r.token \in Tokens /\ r.grant \in Grants /\ token[r.token] = r.grant
    /\ grant[r.grant].status # "absent" /\ 0 \notin grant[r.grant].limits
    /\ r.pc = "jti" => grant[r.grant].oneTime

TokenInv ==
  /\ \A t \in consumed : token[t] \in Grants /\ grant[token[t]].status # "absent" /\ grant[token[t]].oneTime
  /\ \A c \in Calls : Using(call[c])

LEMMA NextTokenInv == ASSUME IInv, TokenInv, [Next]_vars PROVE TokenInv'
<1>T. /\ token \in [Tokens -> Grants \cup {None}] /\ consumed \subseteq Tokens /\ call \in [Calls -> Call]
      /\ grant \in [Grants -> Grant]
  BY DEF IInv, TypeOK
<1>S. Settled
  BY NextSettled
<1>k. ASSUME UNCHANGED <<token, consumed>> PROVE /\ \A r : Using(r) => Using(r)'
                                                /\ \A t \in consumed' : /\ token'[t] \in Grants
                                                                         /\ grant'[token'[t]].status # "absent"
                                                                         /\ grant'[token'[t]].oneTime
  BY <1>k, <1>S DEF Using, Settled, TokenInv
<1>c. ASSUME UNCHANGED <<token, consumed>>, NEW c \in Calls, NEW r, call' = [call EXCEPT ![c] = r],
             r.pc \notin {"jti", "reserve"}
      PROVE  TokenInv'
  <2>1. \A d \in Calls : Using(call[d])'
    BY <1>c, <1>k, <1>T DEF TokenInv, Using
  <2> QED BY <1>c, <1>k, <2>1 DEF TokenInv, Using
<1>s. ASSUME UNCHANGED <<token, consumed, call>> PROVE TokenInv'
  BY <1>k, <1>s DEF TokenInv, Using
<1>f. ASSUME NEW c \in Calls, Finish(c), UNCHANGED <<token, consumed>> PROVE TokenInv'
  BY <1>c, <1>f, IdleIsCall DEF Finish
<1>1. ASSUME NEW c \in Calls,
             \/ CheckCreates(c) \/ CreateThrows(c) \/ WriteDenied(c) \/ WriteRevoked(c) \/ MintThrows(c)
             \/ RejectReplay(c) \/ Reserve(c) \/ ReserveFails(c) \/ Fail(c)
      PROVE  TokenInv'
  BY <1>1, <1>f DEF CheckCreates, CreateThrows, WriteDenied, WriteRevoked, MintThrows, RejectReplay, Reserve,
                    ReserveFails, Fail
<1>2. ASSUME NEW c \in Calls, ApproveCreates(c) \/ ApproveResolves(c) PROVE TokenInv'
  <2>1. PICK r : call' = [call EXCEPT ![c] = r] /\ r.pc \in {"resolve", "mint"}
    <3>1. \/ \E g \in Grants : call' = [call EXCEPT ![c] = [call[c] EXCEPT !.pc = "resolve", !.grant = g]]
          \/ call' = [call EXCEPT ![c] = [call[c] EXCEPT !.pc = "mint"]]
      BY <1>2 DEF ApproveCreates, ApproveResolves
    <3>2. \A g : [call[c] EXCEPT !.pc = "resolve", !.grant = g].pc = "resolve"
      BY <1>T DEF Call
    <3>3. [call[c] EXCEPT !.pc = "mint"].pc = "mint"
      BY <1>T DEF Call
    <3> QED BY <3>1, <3>2, <3>3
  <2> QED BY <1>2, <1>c, <2>1 DEF ApproveCreates, ApproveResolves
(* A token that is minted was not one before, so nobody uses it.            *)
<1>3. ASSUME NEW c \in Calls, Mint(c) PROVE TokenInv'
  <2>1. PICK t \in Tokens : token[t] = None /\ token' = [token EXCEPT ![t] = call[c].grant]
    BY <1>3 DEF Mint
  <2>2. \A u \in Tokens \ {t} : token'[u] = token[u]
    BY <1>T, <2>1
  <2>3. None \notin Grants
    BY ConstantsAssumption
  <2>4. ASSUME NEW d \in Calls PROVE Using(call[d])'
    <3>1. call'[d] = call[d] \/ call'[d].pc = "idle"
      BY <1>3, <1>T, IdleIsCall DEF Mint, Finish
    <3>2. Using(call[d])
      BY DEF TokenInv
    <3> QED BY <1>S, <2>1, <2>2, <2>3, <3>1, <3>2 DEF Using, Settled
  <2>5. \A u \in consumed : u # t /\ token'[u] = token[u]
    BY <1>T, <2>1, <2>2, <2>3 DEF TokenInv
  <2> QED BY <1>3, <1>S, <2>4, <2>5 DEF Mint, TokenInv, Using, Settled
<1>4. ASSUME NEW c \in Calls, TakeJti(c) PROVE TokenInv'
  <2> DEFINE t == call[c].token
  <2>1. PICK r : r = [call[c] EXCEPT !.pc = "reserve"]
    OBVIOUS
  <2>2. r.pc = "reserve" /\ r.token = t /\ r.grant = call[c].grant
    BY <1>T, <2>1 DEF Call
  <2>3. /\ call[c].pc = "jti" /\ consumed' = consumed \cup {t} /\ call' = [call EXCEPT ![c] = r]
        /\ UNCHANGED <<grant, ended, token>>
    BY <1>4, <2>1 DEF TakeJti
  <2>4. Using(call[c])
    BY DEF TokenInv
  <2>5. /\ t \in Tokens /\ call[c].grant \in Grants /\ token[t] = call[c].grant
        /\ grant[call[c].grant].status # "absent" /\ grant[call[c].grant].oneTime
        /\ 0 \notin grant[call[c].grant].limits
    BY <2>3, <2>4 DEF Using
  <2>6. ASSUME NEW d \in Calls PROVE Using(call[d])'
    <3>1. CASE d = c
      BY <1>T, <2>2, <2>3, <2>5, <3>1 DEF Using
    <3>2. CASE d # c
      <4>1. call'[d] = call[d] /\ Using(call[d])
        BY <1>T, <2>3, <3>2 DEF TokenInv
      <4> QED BY <2>3, <4>1 DEF Using
    <3> QED BY <3>1, <3>2
  <2>7. \A u \in consumed' : token'[u] \in Grants /\ grant'[token'[u]].status # "absent" /\ grant'[token'[u]].oneTime
    BY <2>3, <2>5 DEF TokenInv
  <2> QED BY <2>6, <2>7 DEF TokenInv, Using
<1>5. ASSUME NEW c \in Calls, NEW t \in Tokens, UseToken(c, t) PROVE TokenInv'
  <2> DEFINE g == token[t]
  <2>0. PICK r : r = [IdleCall EXCEPT !.pc = IF grant[g].oneTime THEN "jti" ELSE "reserve",
                                      !.grant = g, !.token = t]
    OBVIOUS
  <2>1. r.token = t /\ r.grant = g /\ (r.pc = "jti" => grant[g].oneTime)
    BY <2>0 DEF IdleCall
  <2>2. /\ g \in Grants /\ grantIsLive(g) /\ ~limitExceeded(g)
        /\ call' = [call EXCEPT ![c] = r] /\ UNCHANGED <<grant, ended, token, consumed>>
    BY <1>5, <1>T, <2>0 DEF UseToken, Go
  <2>3. 0 \notin grant[g].limits
    <3>1. grant[g].uses \in Nat
      BY <1>T, <2>2 DEF Grant
    <3> QED BY <2>2, <3>1 DEF limitExceeded
  <2>4. ASSUME NEW d \in Calls PROVE Using(call[d])'
    <3>1. CASE d = c
      BY <1>T, <2>1, <2>2, <2>3, <3>1 DEF Using, grantIsLive
    <3>2. CASE d # c
      <4>1. call'[d] = call[d] /\ Using(call[d])
        BY <1>T, <2>2, <3>2 DEF TokenInv
      <4> QED BY <2>2, <4>1 DEF Using
    <3> QED BY <3>1, <3>2
  <2> QED BY <1>k, <2>2, <2>4 DEF TokenInv, Using
<1>6. ASSUME NEW c \in Calls, NEW k \in Keys, NEW b \in BOOLEAN, CheckAsksOwner(c, k, b) PROVE TokenInv'
  BY <1>6, <1>s DEF CheckAsksOwner
<1>7. ASSUME NEW c \in Calls, NEW pc \in {"create", "refuse", "grant", "deny", "revoke", "mint"},
             \E r : r.pc = pc /\ Go(c, r), UNCHANGED <<token, consumed>>
      PROVE  TokenInv'
  BY <1>7, <1>c DEF Go
<1>8. ASSUME NEW c \in Calls, NEW k \in Keys, NEW b \in BOOLEAN, CheckFindsNone(c, k, b) PROVE TokenInv'
  <2>1. [IdleCall EXCEPT !.pc = "create", !.key = k].pc = "create"
    BY DEF IdleCall
  <2> QED BY <1>7, <1>8, <2>1 DEF CheckFindsNone
<1>9. ASSUME NEW c \in Calls, NEW r \in Requests, NEW b \in BOOLEAN, Approve(c, r, b) PROVE TokenInv'
  <2>1. PICK pc \in {"refuse", "grant"} :
          Go(c, [IdleCall EXCEPT !.pc = pc, !.req = r, !.key = request[r].key, !.oneTime = b])
    BY <1>9 DEF Approve
  <2>2. [IdleCall EXCEPT !.pc = pc, !.req = r, !.key = request[r].key, !.oneTime = b].pc = pc
    BY DEF IdleCall
  <2> QED BY <1>7, <1>9, <2>1, <2>2 DEF Approve
<1>10. ASSUME NEW c \in Calls, NEW r \in Requests, Deny(c, r) PROVE TokenInv'
  <2>1. [IdleCall EXCEPT !.pc = "deny", !.req = r].pc = "deny"
    BY DEF IdleCall
  <2> QED BY <1>7, <1>10, <2>1 DEF Deny
<1>11. ASSUME NEW c \in Calls, NEW g \in Grants, Revoke(c, g) \/ IssueToken(c, g) PROVE TokenInv'
  <2>1. \A pc : [IdleCall EXCEPT !.pc = pc, !.grant = g].pc = pc
    BY DEF IdleCall
  <2> QED BY <1>7, <1>11, <2>1 DEF Revoke, IssueToken
<1>12. ASSUME NEW c \in Calls, Start(c) PROVE TokenInv'
  BY <1>12, <1>5, <1>6, <1>8, <1>9, <1>10, <1>11 DEF Start
<1>13. ASSUME NEW c \in Calls, Proceed(c) PROVE TokenInv'
  BY <1>13, <1>1, <1>2, <1>3, <1>4 DEF Proceed
<1>14. ASSUME UNCHANGED vars \/ (\E g \in Grants : EndGrant(g)) \/ (\E t \in Tokens : LapseToken(t)) PROVE TokenInv'
  BY <1>14, <1>s DEF vars, EndGrant, LapseToken
<1> QED BY <1>1, <1>12, <1>13, <1>14 DEF Next

BurntInv == IsFiniteSet(Burnt) /\ Cardinality(Burnt) <= failures

(* Where a call dies one more token may be burnt; every other step leaves   *)
(* no more of them.                                                         *)
LEMMA NextBurntInv == ASSUME IInv, TokenInv, BurntInv, [Next]_vars PROVE BurntInv'
<1>T. /\ token \in [Tokens -> Grants \cup {None}] /\ call \in [Calls -> Call] /\ failures \in Nat
      /\ grant \in [Grants -> Grant]
  BY DEF IInv, TypeOK
<1>S. Settled
  BY NextSettled
<1>b. ASSUME Burnt' \subseteq Burnt, failures' = failures PROVE BurntInv'
  <2>1. IsFiniteSet(Burnt') /\ Cardinality(Burnt') <= Cardinality(Burnt)
    BY <1>b, FS_Subset DEF BurntInv
  <2>2. Cardinality(Burnt) \in Nat /\ Cardinality(Burnt') \in Nat
    BY <2>1, FS_CardinalityType DEF BurntInv
  <2> QED BY <1>b, <1>T, <2>1, <2>2 DEF BurntInv
(* No use is given up and no token taken.                                   *)
<1>m. ASSUME UNCHANGED <<consumed, failures>>, \A t \in consumed : token'[t] = token[t],
             \A c \in Calls : call[c].pc = "reserve" => call'[c] = call[c]
      PROVE  BurntInv'
  <2>1. Burnt' \subseteq Burnt
    <3> SUFFICES ASSUME NEW t \in Burnt' PROVE t \in Burnt
      OBVIOUS
    <3>1. /\ t \in consumed /\ token[t] \in Grants /\ grant[token[t]].status # "absent" /\ token'[t] = token[t]
      BY <1>m DEF Burnt, TokenInv
    <3>2. grantIsLive(token[t])
      BY <1>S, <3>1 DEF Settled, Burnt, grantIsLive
    <3>3. \A c \in Calls : ~(call[c].pc = "reserve" /\ call[c].token = t)
      BY <1>m DEF Burnt
    <3> QED BY <3>1, <3>2, <3>3, ConstantsAssumption DEF Burnt
  <2> QED BY <1>b, <1>m, <2>1
<1>c. ASSUME UNCHANGED <<consumed, failures, token>>, NEW c \in Calls, call[c].pc # "reserve",
             \E r : call' = [call EXCEPT ![c] = r]
      PROVE  BurntInv'
  BY <1>c, <1>m, <1>T
<1>1. ASSUME NEW c \in Calls,
             \/ CheckCreates(c) \/ CreateThrows(c) \/ ApproveCreates(c) \/ ApproveResolves(c) \/ WriteDenied(c)
             \/ WriteRevoked(c) \/ MintThrows(c) \/ RejectReplay(c)
      PROVE  BurntInv'
  BY <1>1, <1>c DEF CheckCreates, CreateThrows, ApproveCreates, ApproveResolves, WriteDenied, WriteRevoked, MintThrows,
                    RejectReplay, Finish
<1>2. ASSUME NEW c \in Calls, Mint(c) PROVE BurntInv'
  <2>1. PICK t \in Tokens : token[t] = None /\ token' = [token EXCEPT ![t] = call[c].grant]
    BY <1>2 DEF Mint
  <2>2. \A u \in consumed : token'[u] = token[u]
    BY <1>T, <2>1, ConstantsAssumption DEF TokenInv, IInv, TypeOK
  <2>3. \A d \in Calls : call[d].pc = "reserve" => call'[d] = call[d]
    BY <1>2, <1>T DEF Mint, Finish
  <2> QED BY <1>2, <1>m, <2>2, <2>3 DEF Mint
<1>3. ASSUME NEW c \in Calls, TakeJti(c) PROVE BurntInv'
  <2> DEFINE t == call[c].token
  <2>1. /\ call[c].pc = "jti" /\ consumed' = consumed \cup {t} /\ UNCHANGED <<grant, ended, token, failures>>
        /\ call' = [call EXCEPT ![c] = [call[c] EXCEPT !.pc = "reserve"]]
    BY <1>3 DEF TakeJti
  <2>2. /\ call'[c].pc = "reserve" /\ call'[c].token = t
        /\ \A d \in Calls : call[d].pc = "reserve" => call'[d] = call[d]
    BY <1>T, <2>1 DEF Call
  <2>3. Burnt' \subseteq Burnt
    BY <2>1, <2>2 DEF Burnt, grantIsLive
  <2> QED BY <1>b, <2>1, <2>3
(* A use made ends its one-time grant; one refused finds it ended, since    *)
(* its limits are not zero and it was not used.                             *)
<1>4. ASSUME NEW c \in Calls, Reserve(c) \/ ReserveFails(c) PROVE BurntInv'
  <2>0. PICK t, g : t = call[c].token /\ g = call[c].grant
    OBVIOUS
  <2>1. call[c].pc = "reserve" /\ Finish(c) /\ UNCHANGED <<consumed, token, ended, failures>>
    BY <1>4 DEF Reserve, ReserveFails
  <2>2. t \in Tokens /\ g \in Grants /\ token[t] = g /\ grant[g].status # "absent" /\ 0 \notin grant[g].limits
    BY <2>0, <2>1 DEF TokenInv, Using
  <2>3. grant[g] \in Grant
    BY <1>T, <2>2
  <2>4. t \in consumed => ~grantIsLive(g)'
    <3> SUFFICES ASSUME t \in consumed PROVE ~grantIsLive(g)'
      OBVIOUS
    <3>1. grant[g].oneTime
      BY <2>2 DEF TokenInv
    <3>2. CASE Reserve(c)
      <4>1. grant'[g] = UsedOnce(g)
        BY <1>T, <2>0, <2>2, <3>2 DEF Reserve
      <4>2. UsedOnce(g).status = "CONSUMED"
        BY <2>3, <3>1 DEF UsedOnce, Grant
      <4> QED BY <4>1, <4>2 DEF grantIsLive
    <3>3. CASE ReserveFails(c)
      <4>1. ASSUME grantIsLive(g) PROVE ~limitExceeded(g)
        <5>1. grant[g].uses = 0 /\ grant[g].limits \subseteq Nat
          BY <2>2, <2>3, <3>1, <4>1 DEF IInv, RowInv, grantIsLive, Grant
        <5> QED BY <2>2, <5>1 DEF limitExceeded
      <4>2. ~grantIsLive(g) /\ UNCHANGED <<grant, ended>>
        BY <2>0, <3>3, <4>1 DEF ReserveFails
      <4> QED BY <4>2 DEF grantIsLive
    <3> QED BY <1>4, <3>2, <3>3
  <2>5. \A d \in Calls \ {c} : call'[d] = call[d]
    BY <1>T, <2>1 DEF Finish
  <2>6. Burnt' \subseteq Burnt
    <3> SUFFICES ASSUME NEW u \in Burnt' PROVE u \in Burnt
      OBVIOUS
    <3>1. u \in consumed /\ token[u] \in Grants /\ grant[token[u]].status # "absent" /\ token'[u] = token[u]
      BY <2>1 DEF Burnt, TokenInv
    <3>2. grantIsLive(token[u])' /\ grantIsLive(token[u])
      BY <1>S, <3>1 DEF Settled, Burnt, grantIsLive
    <3>3. u # t
      BY <2>2, <2>4, <3>1, <3>2
    <3>4. \A d \in Calls : ~(call[d].pc = "reserve" /\ call[d].token = u)
      BY <2>0, <2>5, <3>3 DEF Burnt
    <3> QED BY <3>1, <3>2, <3>4, ConstantsAssumption DEF Burnt
  <2> QED BY <1>b, <2>1, <2>6
<1>5. ASSUME NEW c \in Calls, Start(c) PROVE BurntInv'
  <2>1. /\ UNCHANGED <<consumed, failures, token>>
        /\ UNCHANGED call \/ (call[c].pc = "idle" /\ \E r : call' = [call EXCEPT ![c] = r])
    BY <1>5 DEF Start, CheckAsksOwner, CheckFindsNone, Approve, Deny, Revoke, IssueToken, UseToken, Go
  <2> QED BY <1>c, <1>m, <2>1
<1>6. ASSUME NEW c \in Calls, Fail(c) PROVE BurntInv'
  <2> DEFINE t == call[c].token
  <2>1. failures' = failures + 1 /\ Finish(c) /\ UNCHANGED <<grant, ended, token, consumed>>
    BY <1>6 DEF Fail
  <2>2. \A d \in Calls \ {c} : call'[d] = call[d]
    BY <1>T, <2>1 DEF Finish
  <2>3. Burnt' \subseteq Burnt \cup {t}
    BY <2>1, <2>2 DEF Burnt, grantIsLive
  <2>4. /\ IsFiniteSet(Burnt \cup {t})
        /\ Cardinality(Burnt \cup {t}) = IF t \in Burnt THEN Cardinality(Burnt) ELSE Cardinality(Burnt) + 1
    BY FS_AddElement DEF BurntInv
  <2>5. IsFiniteSet(Burnt') /\ Cardinality(Burnt') <= Cardinality(Burnt \cup {t})
    BY <2>3, <2>4, FS_Subset
  <2>6. Cardinality(Burnt) \in Nat /\ Cardinality(Burnt') \in Nat
    BY <2>5, FS_CardinalityType DEF BurntInv
  <2> QED BY <1>T, <2>1, <2>4, <2>5, <2>6 DEF BurntInv
<1>7. ASSUME UNCHANGED vars \/ (\E g \in Grants : EndGrant(g)) \/ (\E t \in Tokens : LapseToken(t)) PROVE BurntInv'
  BY <1>7, <1>m DEF vars, EndGrant, LapseToken
<1>8. ASSUME NEW c \in Calls, Proceed(c) PROVE BurntInv'
  BY <1>8, <1>1, <1>2, <1>3, <1>4 DEF Proceed
<1> QED BY <1>5, <1>6, <1>7, <1>8 DEF Next

(* However many tokens of however many grants are used at once, and         *)
(* wherever calls die: no more tokens of live one-time grants are burnt     *)
(* than calls died, for any number of them.                                 *)
THEOREM BurntTokensBounded == Spec => []BurntBounded
<1>1. Init => TokenInv /\ BurntInv
  <2> SUFFICES ASSUME Init PROVE TokenInv /\ BurntInv
    OBVIOUS
  <2>1. Burnt = {} /\ failures = 0
    BY DEF Init, Burnt
  <2>2. TokenInv
    BY IdleIsCall DEF Init, TokenInv, Using
  <2> QED BY <2>1, <2>2, FS_EmptySet DEF BurntInv
<1>2. BurntInv => BurntBounded
  BY DEF BurntInv, BurntBounded
<1> QED BY <1>1, <1>2, NextTokenInv, NextBurntInv, Invariance, PTL DEF Spec

(* The two bounds together, for any finite number of calls.                 *)
THEOREM WasteBounded == IsFiniteSet(Calls) /\ Spec => []WasteIsBounded
BY LiveGrantsBounded, BurntTokensBounded, PTL DEF WasteIsBounded
=============================================================================
