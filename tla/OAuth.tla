-------------------------------- MODULE OAuth --------------------------------
(***************************************************************************)
(* Authorizations of one application by one account, and the codes and     *)
(* tokens that follow from them (modules/authorization/service.ts,         *)
(* routes/oauth and routes/authorizations).  One action is one statement   *)
(* or one transaction; the checks of client, redirect URI and PKCE, which  *)
(* do not change, either hold or end the call.                             *)
(***************************************************************************)
EXTENDS Naturals, FiniteSets

CONSTANTS OCalls, Codes, Grants, Scopes, Offline,
          MaxDeaths   \* bound: calls that stop half way

ASSUME OAuthAssumption == Offline \in Scopes /\ MaxDeaths \in Nat

VARIABLES grant,     \* Authorization rows: status, scopes
          code,      \* OAuthAuthorizationCode rows: status, scopes
          lateCodes,     \* codes past expiresAt
          access,    \* the access token each exchange made: its code, status
          refresh,   \* the refresh tokens: their codes and status
          spender,   \* calls that consumed each code
          oauth,     \* what each call is doing
          crossed,   \* history: calls in flight at a revocation
          outlived,  \* history: codes from before a revocation
          muddled,   \* history: two grants met, or one stopped while it rewrote the scopes
          deaths

oauthVars == <<grant, code, lateCodes, access, refresh, spender, oauth, crossed, outlived, muddled, deaths>>

OAt(c, pc) == oauth[c].pc = pc
OBusy(c) == ~OAt(c, "idle") /\ ~OAt(c, "done")
OGoto(c, pc) ==  \* a finished call leaves nothing behind
  oauth' = [oauth EXCEPT ![c] = IF pc = "done" THEN [pc |-> pc] ELSE [@ EXCEPT !.pc = pc]]

NotGrants == UNCHANGED <<grant, muddled>>
NotCodes == UNCHANGED <<code, lateCodes, spender, outlived>>
NotTokens == UNCHANGED <<access, refresh>>
NotHistory == UNCHANGED <<crossed, deaths>>

ActiveGrants == {g \in Grants : grant[g].status = "active"}
Granting == {"find", "wipe", "rewrite", "make"}

-----------------------------------------------------------------------------
(* grantAuthorization, on the way to a code or from POST /authorizations    *)
StartGranting(c, op) ==
  \E S \in SUBSET Scopes \ {{}} :
    /\ OAt(c, "idle")
    /\ oauth' = [oauth EXCEPT ![c] = [op |-> op, pc |-> "find", scopes |-> S]]
    /\ muddled' = (muddled \/ \E o \in OCalls : oauth[o].pc \in Granting)
    /\ UNCHANGED grant /\ NotCodes /\ NotTokens /\ NotHistory

StartAuthorize(c) == StartGranting(c, "authorize")
StartGrant(c) == StartGranting(c, "grant")

FindGrant(c) ==
  /\ OAt(c, "find")
  /\ \/ /\ ActiveGrants = {} /\ OGoto(c, "make")
     \/ \E g \in ActiveGrants :
          oauth' = [oauth EXCEPT ![c] = [op |-> oauth[c].op, pc |-> "wipe", scopes |-> oauth[c].scopes,
                                         at |-> g, all |-> grant[g].scopes \cup oauth[c].scopes]]
  /\ NotGrants /\ NotCodes /\ NotTokens /\ NotHistory

AfterGrant(c) == OGoto(c, IF oauth[c].op = "authorize" THEN "code" ELSE "done")

WipeScopes(c) ==
  /\ OAt(c, "wipe") /\ OGoto(c, "rewrite")
  /\ grant' = [grant EXCEPT ![oauth[c].at].scopes = {}]
  /\ UNCHANGED muddled /\ NotCodes /\ NotTokens /\ NotHistory

RewriteScopes_dropsOld(c) ==
  /\ OAt(c, "rewrite") /\ AfterGrant(c)
  /\ grant' = [grant EXCEPT ![oauth[c].at].scopes = oauth[c].scopes]
  /\ UNCHANGED muddled /\ NotCodes /\ NotTokens /\ NotHistory

\* A scope written meanwhile by another call is a duplicate, and nothing is written.
RewriteScopes(c) ==
  LET g == oauth[c].at IN
  /\ OAt(c, "rewrite")
  /\ IF grant[g].scopes \cap oauth[c].all = {}
     THEN AfterGrant(c) /\ grant' = [grant EXCEPT ![g].scopes = @ \cup oauth[c].all]
     ELSE OGoto(c, "done") /\ UNCHANGED grant
  /\ UNCHANGED muddled /\ NotCodes /\ NotTokens /\ NotHistory

MakeGrant(c) ==
  \E g \in Grants :
    /\ OAt(c, "make") /\ grant[g].status = "none" /\ AfterGrant(c)
    /\ grant' = [grant EXCEPT ![g] = [status |-> "active", scopes |-> oauth[c].scopes]]
    /\ UNCHANGED muddled /\ NotCodes /\ NotTokens /\ NotHistory

\* The second half of createAuthorizationCode.
CreateCode(c) ==
  \E k \in Codes :
    /\ OAt(c, "code") /\ code[k].status = "none" /\ OGoto(c, "done")
    /\ code' = [code EXCEPT ![k] = [status |-> "open", scopes |-> oauth[c].scopes]]
    /\ outlived' = IF c \in crossed THEN outlived \cup {k} ELSE outlived
    /\ UNCHANGED <<lateCodes, spender>> /\ NotGrants /\ NotTokens /\ NotHistory

CodeExpires(k) ==
  /\ code[k].status = "open" /\ k \notin lateCodes /\ lateCodes' = lateCodes \cup {k}
  /\ UNCHANGED <<code, spender, outlived, oauth>> /\ NotGrants /\ NotTokens /\ NotHistory

-----------------------------------------------------------------------------
(* exchangeAuthorizationCode *)
Spendable(k) == code[k].status = "open" /\ k \notin lateCodes

StartTokenExchange(c) ==
  \E k \in Codes :
    /\ OAt(c, "idle") /\ code[k].status # "none"
    /\ oauth' = [oauth EXCEPT ![c] =
         IF Spendable(k) THEN [op |-> "exchange", pc |-> "spend", code |-> k] ELSE [pc |-> "done"]]
    /\ NotGrants /\ NotCodes /\ NotTokens /\ NotHistory

SpendCode_byId(c) ==
  LET k == oauth[c].code IN
  /\ OAt(c, "spend") /\ OGoto(c, "access")
  /\ code' = [code EXCEPT ![k].status = "used"] /\ spender' = [spender EXCEPT ![k] = @ \cup {c}]
  /\ UNCHANGED <<lateCodes, outlived>> /\ NotGrants /\ NotTokens /\ NotHistory

SpendCode(c) ==
  LET k == oauth[c].code IN
  /\ OAt(c, "spend")
  /\ IF Spendable(k)
     THEN /\ code' = [code EXCEPT ![k].status = "used"] /\ spender' = [spender EXCEPT ![k] = @ \cup {c}]
          /\ OGoto(c, "access")
     ELSE OGoto(c, "done") /\ UNCHANGED <<code, spender>>
  /\ UNCHANGED <<lateCodes, outlived>> /\ NotGrants /\ NotTokens /\ NotHistory

MintAccess(c) ==
  LET k == oauth[c].code IN
  /\ OAt(c, "access") /\ OGoto(c, IF Offline \in code[k].scopes THEN "refresh" ELSE "done")
  /\ access' = [access EXCEPT ![c] = [status |-> "live", code |-> k]]
  /\ UNCHANGED refresh /\ NotGrants /\ NotCodes /\ NotHistory

\* The id_token that follows may fail to be signed; the call answers all the same.
MintRefresh(c) ==
  /\ OAt(c, "refresh") /\ OGoto(c, "done")
  /\ refresh' = [refresh EXCEPT ![c] = [status |-> "live", code |-> oauth[c].code]]
  /\ UNCHANGED access /\ NotGrants /\ NotCodes /\ NotHistory

-----------------------------------------------------------------------------
(* revokeAuthorization: a read, then one transaction for the row and all tokens of the application *)
StartRevoke(c) ==
  \E g \in Grants :
    /\ OAt(c, "idle") /\ grant[g].status = "active"
    /\ oauth' = [oauth EXCEPT ![c] = [op |-> "revoke", pc |-> "revoke", at |-> g]]
    /\ NotGrants /\ NotCodes /\ NotTokens /\ NotHistory

Revoked(tokens) == [c \in OCalls |-> IF tokens[c].status = "live" THEN [tokens[c] EXCEPT !.status = "revoked"] ELSE tokens[c]]

Revoke_keepsTokens(c) ==
  /\ OAt(c, "revoke") /\ OGoto(c, "done")
  /\ grant' = [grant EXCEPT ![oauth[c].at].status = "revoked"]
  /\ UNCHANGED <<muddled, outlived, crossed, code, lateCodes, spender, deaths>> /\ NotTokens

Revoke(c) ==
  /\ OAt(c, "revoke") /\ OGoto(c, "done")
  /\ grant' = [grant EXCEPT ![oauth[c].at].status = "revoked"]
  /\ access' = Revoked(access) /\ refresh' = Revoked(refresh)
  /\ crossed' = crossed \cup {o \in OCalls \ {c} : OBusy(o)}
  /\ outlived' = outlived \cup {k \in Codes : code[k].status # "none"}
  /\ UNCHANGED <<muddled, code, lateCodes, spender, deaths>>

OCallDies(c) ==
  /\ OBusy(c) /\ deaths < MaxDeaths /\ deaths' = deaths + 1 /\ OGoto(c, "done")
  /\ muddled' = (muddled \/ OAt(c, "rewrite"))
  /\ UNCHANGED <<grant, crossed>> /\ NotCodes /\ NotTokens

\* resolveAccessToken: /oauth/userinfo answers to an unrevoked token.
Admitted(c) == access[c].status = "live"

-----------------------------------------------------------------------------
OAuthInit ==
  /\ grant = [g \in Grants |-> [status |-> "none", scopes |-> {}]]
  /\ code = [k \in Codes |-> [status |-> "none", scopes |-> {}]]
  /\ access = [c \in OCalls |-> [status |-> "none"]] /\ refresh = access
  /\ spender = [k \in Codes |-> {}] /\ oauth = [c \in OCalls |-> [pc |-> "idle"]]
  /\ lateCodes = {} /\ crossed = {} /\ outlived = {} /\ muddled = FALSE /\ deaths = 0

OAuthNext ==
  \/ \E k \in Codes : CodeExpires(k)
  \/ \E c \in OCalls :
       \/ StartAuthorize(c) \/ StartGrant(c) \/ FindGrant(c) \/ WipeScopes(c) \/ RewriteScopes(c) \/ MakeGrant(c) \/ CreateCode(c)
       \/ StartTokenExchange(c) \/ SpendCode(c) \/ MintAccess(c) \/ MintRefresh(c)
       \/ StartRevoke(c) \/ Revoke(c) \/ OCallDies(c)

OAuthSpec == OAuthInit /\ [][OAuthNext]_oauthVars

-----------------------------------------------------------------------------
(* Authorization codes are one-time tickets: of two exchanges at once one   *)
(* consumes the code (service.ts: "consumed.count !== 1").                  *)
Ticket == INSTANCE OneTimeTicket
            WITH Tickets <- Codes, Takers <- OCalls, taken <- spender,
                 open <- {k \in Codes : code[k].status = "open"}

CodesAreTickets == Ticket!TicketSpec

(* A live token has its scopes in an active authorization, unless its code  *)
(* is older than a revocation (unspent codes are not revoked with the       *)
(* tokens), or two grants crossed, or a grant is rewriting the scopes.      *)
TokensFollowConsent ==
  \A c \in OCalls :
    \/ ~Admitted(c) \/ access[c].code \in outlived \/ muddled
    \/ \E o \in OCalls : OAt(o, "rewrite")
    \/ \E g \in ActiveGrants : code[access[c].code].scopes \subseteq grant[g].scopes

(* The application has two active authorizations, of which a user would     *)
(* have to revoke both, only after two grants crossed.                      *)
OneAuthorization == \A g, h \in ActiveGrants : g # h => muddled

(* What a user consents to, and can revoke, is what the application holds.  *)
ConsentIsCurrent == TokensFollowConsent /\ OneAuthorization
=============================================================================
