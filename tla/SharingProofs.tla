--------------------------- MODULE SharingProofs ---------------------------
(* Theorems about the components whose callers share one record.  They     *)
(* hold for any number of calls, rows and scopes; the runs of MCSharing    *)
(* and, for the legacy challenge, MCDigiAuthority check the same           *)
(* properties on small instances.                                          *)
EXTENDS OAuth, TrustBridge, FaceCapture, LegacyChallenge, SovereignVault, FiniteSetTheorems, TLAPS

-----------------------------------------------------------------------------
(* OAuth: codes are one-time tickets, and consent covers what is held *)

OCallRecord ==
  [pc : {"idle", "done"}]
    \cup [op : {"authorize", "grant"}, pc : {"find", "make", "code"}, scopes : SUBSET Scopes]
    \cup [op : {"authorize", "grant"}, pc : {"wipe", "rewrite", "code"}, scopes : SUBSET Scopes,
          at : Grants, all : SUBSET Scopes]
    \cup [op : {"exchange"}, pc : {"spend", "access", "refresh"}, code : Codes]
    \cup [op : {"revoke"}, pc : {"revoke"}, at : Grants]

Token == [status : {"none"}] \cup [status : {"live", "revoked"}, code : Codes]

OAuthTypeOK ==
  /\ grant \in [Grants -> [status : {"none", "active", "revoked"}, scopes : SUBSET Scopes]]
  /\ code \in [Codes -> [status : {"none", "open", "used"}, scopes : SUBSET Scopes]]
  /\ access \in [OCalls -> Token] /\ refresh \in [OCalls -> Token]
  /\ spender \in [Codes -> SUBSET OCalls]
  /\ oauth \in [OCalls -> OCallRecord]
  /\ crossed \subseteq OCalls /\ outlived \subseteq Codes /\ muddled \in BOOLEAN

(* A code that is not spent has no spender, and tokens are of codes made.   *)
ExchangeInv ==
  /\ \A k \in Codes : code[k].status # "used" => spender[k] = {}
  /\ \A c \in OCalls : oauth[c].pc \in {"spend", "access", "refresh"} => code[oauth[c].code].status # "none"
  /\ \A c \in OCalls : access[c].status # "none" => code[access[c].code].status # "none"

(* As long as grants did not meet, the one in flight knows the row.         *)
GrantInv ==
  ~muddled =>
    /\ \A c, d \in OCalls : oauth[c].pc \in Granting /\ oauth[d].pc \in Granting => c = d
    /\ \A c \in OCalls : oauth[c].pc = "make" => \A g \in Grants : grant[g].status # "active"
    /\ \A c \in OCalls : oauth[c].pc = "wipe" => grant[oauth[c].at].scopes \subseteq oauth[c].all
    /\ \A c \in OCalls : oauth[c].pc = "rewrite" => grant[oauth[c].at].scopes = {}
    /\ \A g, h \in Grants : grant[g].status = "active" /\ grant[h].status = "active" => g = h

MergeInv ==
  \A c \in OCalls :
    oauth[c].pc \in {"wipe", "rewrite"} =>
      /\ oauth[c].scopes \subseteq oauth[c].all
      /\ c \in crossed \/ grant[oauth[c].at].status = "active"

(* The scopes S are in an active authorization, or about to be again.       *)
Covered(S) ==
  \E g \in Grants :
    /\ grant[g].status = "active"
    /\ \/ S \subseteq grant[g].scopes
       \/ \E c \in OCalls : oauth[c].pc = "rewrite" /\ oauth[c].at = g /\ S \subseteq oauth[c].all

CoverInv ==
  ~muddled =>
    /\ \A k \in Codes : code[k].status # "none" /\ k \notin outlived => Covered(code[k].scopes)
    /\ \A c \in OCalls : oauth[c].pc = "code" /\ c \notin crossed => Covered(oauth[c].scopes)

OAuthInv == OAuthTypeOK /\ ExchangeInv /\ GrantInv /\ MergeInv /\ CoverInv

LEMMA OAuthInitInv == OAuthInit => OAuthInv
<1> SUFFICES ASSUME OAuthInit PROVE OAuthInv
  OBVIOUS
<1> USE DEF OAuthInit
<1>1. OAuthTypeOK
  BY DEF OAuthTypeOK, Token, OCallRecord
<1>2. ExchangeInv /\ GrantInv /\ MergeInv /\ CoverInv
  BY DEF ExchangeInv, GrantInv, MergeInv, CoverInv, Granting
<1> QED BY <1>1, <1>2 DEF OAuthInv

(* What moving one call on does to its record and to the others.            *)
LEMMA OAuthMoves ==
  ASSUME OAuthTypeOK, NEW c \in OCalls, NEW pc, OGoto(c, pc),
         \/ pc = "done"
         \/ oauth[c].pc = "find" /\ pc = "make"
         \/ oauth[c].pc = "wipe" /\ pc = "rewrite"
         \/ oauth[c].pc \in {"make", "rewrite"} /\ pc = "code"
         \/ oauth[c].pc = "spend" /\ pc = "access"
         \/ oauth[c].pc = "access" /\ pc = "refresh"
  PROVE  /\ oauth' \in [OCalls -> OCallRecord]
         /\ oauth'[c].pc = pc
         /\ pc = "rewrite" => oauth'[c].at = oauth[c].at /\ oauth'[c].all = oauth[c].all
         /\ pc \in {"rewrite", "code", "make"} => oauth'[c].scopes = oauth[c].scopes
         /\ pc \in {"access", "refresh"} => oauth'[c].code = oauth[c].code
         /\ \A d \in OCalls \ {c} : oauth'[d] = oauth[d]
<1>1. oauth \in [OCalls -> OCallRecord] /\ oauth[c] \in OCallRecord
  BY DEF OAuthTypeOK
<1>2. CASE pc = "done"
  BY <1>1, <1>2 DEF OGoto, OCallRecord
<1>3. CASE pc # "done"
  <2> DEFINE r == [oauth[c] EXCEPT !.pc = pc]
  <2>1. oauth' = [oauth EXCEPT ![c] = r]
    BY <1>3 DEF OGoto
  <2>2. /\ r \in OCallRecord /\ r.pc = pc
        /\ pc = "rewrite" => r.at = oauth[c].at /\ r.all = oauth[c].all
        /\ pc \in {"rewrite", "code", "make"} => r.scopes = oauth[c].scopes
        /\ pc \in {"access", "refresh"} => r.code = oauth[c].code
    BY <1>1, <1>3 DEF OCallRecord
  <2> HIDE DEF r
  <2> QED BY <1>1, <2>1, <2>2
<1> QED BY <1>2, <1>3

(* A step of one call that touches neither authorizations nor codes and     *)
(* does not take the call into, or out of, a grant.                         *)
LEMMA OAuthAside ==
  ASSUME OAuthInv, NEW c \in OCalls, UNCHANGED <<grant, crossed, outlived, muddled>>,
         \A d \in OCalls \ {c} : oauth'[d] = oauth[d],
         oauth[c].pc \notin {"rewrite", "make", "wipe", "find"}, oauth'[c].pc \notin Granting \cup {"code"},
         \A k \in Codes : code'[k].scopes = code[k].scopes /\ (code'[k].status = "none" <=> code[k].status = "none")
  PROVE  GrantInv' /\ MergeInv' /\ CoverInv'
<1> USE DEF OAuthInv
<1>1. GrantInv'
  BY DEF GrantInv, Granting
<1>2. MergeInv'
  BY DEF MergeInv, Granting
<1>3. ASSUME NEW S, Covered(S) PROVE Covered(S)'
  BY <1>3 DEF Covered
<1>4. CoverInv'
  BY <1>3 DEF CoverInv
<1> QED BY <1>1, <1>2, <1>4

LEMMA OAuthNextInv == OAuthInv /\ [OAuthNext]_oauthVars => OAuthInv'
<1> SUFFICES ASSUME OAuthInv, [OAuthNext]_oauthVars PROVE OAuthInv'
  OBVIOUS
<1> USE DEF OAuthInv
<1>t. ASSUME UNCHANGED <<access, refresh, code, spender>>, oauth' \in [OCalls -> OCallRecord],
             NEW c \in OCalls, \A d \in OCalls \ {c} : oauth'[d] = oauth[d],
             oauth'[c].pc \in {"spend", "access", "refresh"} => oauth'[c].code = oauth[c].code /\ oauth[c].pc \in {"spend", "access", "refresh"}
      PROVE  ExchangeInv'
  BY <1>t DEF ExchangeInv
<1>u. CASE UNCHANGED oauthVars
  <2>1. OAuthTypeOK' /\ ExchangeInv'
    BY <1>u DEF oauthVars, OAuthTypeOK, ExchangeInv
  <2>2. GrantInv' /\ MergeInv' /\ CoverInv'
    BY <1>u DEF oauthVars, GrantInv, MergeInv, CoverInv, Covered
  <2> QED BY <2>1, <2>2
<1>a. ASSUME NEW k \in Codes, CodeExpires(k) PROVE OAuthInv'
  <2> USE <1>a DEF CodeExpires, NotGrants, NotTokens, NotHistory
  <2>1. OAuthTypeOK' /\ ExchangeInv'
    BY DEF OAuthTypeOK, ExchangeInv
  <2>2. GrantInv' /\ MergeInv' /\ CoverInv'
    BY DEF GrantInv, MergeInv, CoverInv, Covered
  <2> QED BY <2>1, <2>2
<1>b. ASSUME NEW c \in OCalls, StartAuthorize(c) \/ StartGrant(c) PROVE OAuthInv'
  <2>1. PICK op \in {"authorize", "grant"} : StartGranting(c, op)
    BY <1>b DEF StartAuthorize, StartGrant
  <2>2. PICK S \in SUBSET Scopes : oauth' = [oauth EXCEPT ![c] = [op |-> op, pc |-> "find", scopes |-> S]]
    BY <2>1 DEF StartGranting
  <2>3. /\ oauth[c].pc = "idle" /\ UNCHANGED <<grant, code, spender, outlived, access, refresh, crossed>>
        /\ muddled' = (muddled \/ \E o \in OCalls : oauth[o].pc \in Granting)
    BY <2>1 DEF StartGranting, OAt, NotCodes, NotTokens, NotHistory
  <2>4. /\ oauth' \in [OCalls -> OCallRecord]
        /\ oauth'[c] = [op |-> op, pc |-> "find", scopes |-> S]
        /\ \A d \in OCalls \ {c} : oauth'[d] = oauth[d]
    BY <2>2 DEF OAuthTypeOK, OCallRecord
  <2>5. OAuthTypeOK' /\ ExchangeInv'
    BY <2>3, <2>4, <1>t DEF OAuthTypeOK
  <2>6. GrantInv'
    <3>1. ~muddled' => ~muddled /\ \A o \in OCalls : oauth[o].pc \notin Granting
      BY <2>3
    <3>2. ~muddled' => \A d \in OCalls : oauth'[d].pc \in Granting => d = c
      BY <2>4, <3>1
    <3>3. \A d \in OCalls : oauth'[d].pc \in {"make", "wipe", "rewrite"} => d # c /\ oauth'[d] = oauth[d]
      BY <2>4
    <3> QED BY <2>3, <3>1, <3>2, <3>3 DEF GrantInv
  <2>7. MergeInv'
    BY <2>3, <2>4 DEF MergeInv
  <2>8. ASSUME NEW T, Covered(T) PROVE Covered(T)'
    BY <2>3, <2>4, <2>8 DEF Covered
  <2>9. CoverInv'
    <3>1. ~muddled' => ~muddled
      BY <2>3
    <3>2. \A d \in OCalls : oauth'[d].pc = "code" => oauth'[d] = oauth[d]
      BY <2>4
    <3> QED BY <2>3, <2>8, <3>1, <3>2 DEF CoverInv
  <2> QED BY <2>5, <2>6, <2>7, <2>9
<1>c. ASSUME NEW c \in OCalls, FindGrant(c) PROVE OAuthInv'
  <2>1. oauth[c].pc = "find" /\ UNCHANGED <<grant, muddled, code, spender, outlived, access, refresh, crossed>>
    BY <1>c DEF FindGrant, OAt, NotGrants, NotCodes, NotTokens, NotHistory
  <2>2. CASE ActiveGrants = {} /\ OGoto(c, "make")
    <3>1. /\ oauth' \in [OCalls -> OCallRecord] /\ oauth'[c].pc = "make"
          /\ \A d \in OCalls \ {c} : oauth'[d] = oauth[d]
      BY <2>1, <2>2, OAuthMoves
    <3>2. OAuthTypeOK' /\ ExchangeInv'
      BY <2>1, <3>1, <1>t DEF OAuthTypeOK
    <3>3. GrantInv' /\ MergeInv'
      BY <2>1, <2>2, <3>1 DEF GrantInv, MergeInv, Granting, ActiveGrants
    <3>4. CoverInv'
      BY <2>1, <3>1 DEF CoverInv, Covered
    <3> QED BY <3>2, <3>3, <3>4
  <2>3. ASSUME NEW g \in ActiveGrants,
               oauth' = [oauth EXCEPT ![c] = [op |-> oauth[c].op, pc |-> "wipe", scopes |-> oauth[c].scopes,
                                              at |-> g, all |-> grant[g].scopes \cup oauth[c].scopes]]
        PROVE  OAuthInv'
    <3>1. /\ oauth[c].op \in {"authorize", "grant"} /\ oauth[c].scopes \in SUBSET Scopes
          /\ g \in Grants /\ grant[g].status = "active" /\ grant[g].scopes \in SUBSET Scopes
      BY <2>1 DEF OAuthTypeOK, OCallRecord, ActiveGrants
    <3>2. /\ oauth'[c] = [op |-> oauth[c].op, pc |-> "wipe", scopes |-> oauth[c].scopes,
                          at |-> g, all |-> grant[g].scopes \cup oauth[c].scopes]
          /\ oauth'[c] \in OCallRecord
          /\ \A d \in OCalls \ {c} : oauth'[d] = oauth[d]
      BY <2>3, <3>1 DEF OAuthTypeOK, OCallRecord
    <3>3. oauth' \in [OCalls -> OCallRecord]
      BY <2>3, <3>2 DEF OAuthTypeOK
    <3>4. OAuthTypeOK' /\ ExchangeInv'
      BY <2>1, <3>2, <3>3, <1>t DEF OAuthTypeOK
    <3>5. GrantInv' /\ MergeInv'
      BY <2>1, <3>1, <3>2 DEF GrantInv, MergeInv, Granting
    <3>6. CoverInv'
      BY <2>1, <3>2 DEF CoverInv, Covered
    <3> QED BY <3>4, <3>5, <3>6
  <2> QED BY <1>c, <2>2, <2>3 DEF FindGrant
<1>d. ASSUME NEW c \in OCalls, WipeScopes(c) PROVE OAuthInv'
  <2> DEFINE g == oauth[c].at
  <2>1. /\ oauth[c].pc = "wipe" /\ UNCHANGED <<muddled, code, spender, outlived, access, refresh, crossed>>
        /\ OGoto(c, "rewrite") /\ grant' = [grant EXCEPT ![g].scopes = {}] /\ g \in Grants
    BY <1>d DEF WipeScopes, OAt, NotCodes, NotTokens, NotHistory, OAuthTypeOK, OCallRecord
  <2>2. /\ oauth' \in [OCalls -> OCallRecord] /\ oauth'[c].pc = "rewrite"
        /\ oauth'[c].at = g /\ oauth'[c].all = oauth[c].all /\ oauth'[c].scopes = oauth[c].scopes
        /\ \A d \in OCalls \ {c} : oauth'[d] = oauth[d]
    BY <2>1, OAuthMoves
  <2>3. /\ grant' \in [Grants -> [status : {"none", "active", "revoked"}, scopes : SUBSET Scopes]]
        /\ grant'[g].scopes = {} /\ \A h \in Grants : grant'[h].status = grant[h].status
        /\ \A h \in Grants \ {g} : grant'[h] = grant[h]
    BY <2>1 DEF OAuthTypeOK
  <2>4. OAuthTypeOK' /\ ExchangeInv'
    BY <2>1, <2>2, <2>3, <1>t DEF OAuthTypeOK
  <2>5. GrantInv'
    BY <2>1, <2>2, <2>3 DEF GrantInv, Granting
  <2>6. MergeInv'
    <3>1. /\ oauth[c].scopes \subseteq oauth[c].all
          /\ c \in crossed \/ grant[g].status = "active"
      BY <2>1 DEF MergeInv
    <3>2. ASSUME NEW d \in OCalls \ {c}, oauth'[d].pc \in {"wipe", "rewrite"}
          PROVE  /\ oauth'[d].scopes \subseteq oauth'[d].all
                 /\ d \in crossed' \/ grant'[oauth'[d].at].status = "active"
      <4>1. oauth'[d] = oauth[d] /\ oauth[d].at \in Grants
        BY <2>2, <3>2 DEF OAuthTypeOK, OCallRecord
      <4> QED BY <2>1, <2>3, <3>2, <4>1 DEF MergeInv
    <3> QED BY <2>1, <2>2, <2>3, <3>1, <3>2 DEF MergeInv
  <2>7. ASSUME NEW S, Covered(S), ~muddled PROVE Covered(S)'
    <3>1. PICK h \in Grants : grant[h].status = "active" /\ S \subseteq grant[h].scopes
      BY <2>1, <2>7 DEF Covered, GrantInv, Granting
    <3>2. CASE h # g
      BY <2>3, <3>1, <3>2 DEF Covered
    <3>3. CASE h = g
      BY <2>1, <2>2, <2>3, <2>7, <3>1, <3>3 DEF Covered, GrantInv
    <3> QED BY <3>2, <3>3
  <2>8. CoverInv'
    BY <2>1, <2>2, <2>7 DEF CoverInv
  <2> QED BY <2>4, <2>5, <2>6, <2>8
<1>e. ASSUME NEW c \in OCalls, RewriteScopes(c) PROVE OAuthInv'
  <2> DEFINE g == oauth[c].at
             all == oauth[c].all
  <2>1. /\ oauth[c].pc = "rewrite" /\ UNCHANGED <<muddled, code, spender, outlived, access, refresh, crossed>>
        /\ g \in Grants /\ all \in SUBSET Scopes
    BY <1>e DEF RewriteScopes, OAt, NotCodes, NotTokens, NotHistory, OAuthTypeOK, OCallRecord
  <2>2. PICK pc \in {"code", "done"} :
          /\ OGoto(c, pc)
          /\ \/ grant' = [grant EXCEPT ![g].scopes = grant[g].scopes \cup all]
             \/ grant' = grant /\ muddled
    <3>1. CASE grant[g].scopes \cap all = {}
      BY <1>e, <2>1, <3>1 DEF RewriteScopes, AfterGrant
    <3>2. CASE grant[g].scopes \cap all # {}
      BY <1>e, <2>1, <3>2 DEF RewriteScopes, GrantInv
    <3> QED BY <3>1, <3>2
  <2>3. /\ oauth' \in [OCalls -> OCallRecord] /\ oauth'[c].pc = pc
        /\ pc = "code" => oauth'[c].scopes = oauth[c].scopes
        /\ \A d \in OCalls \ {c} : oauth'[d] = oauth[d]
    BY <2>1, <2>2, OAuthMoves
  <2>4. /\ grant' \in [Grants -> [status : {"none", "active", "revoked"}, scopes : SUBSET Scopes]]
        /\ \A h \in Grants : grant'[h].status = grant[h].status /\ grant[h].scopes \subseteq grant'[h].scopes
        /\ \A h \in Grants \ {g} : grant'[h] = grant[h]
        /\ muddled \/ all \subseteq grant'[g].scopes
    BY <2>1, <2>2 DEF OAuthTypeOK
  <2>5. OAuthTypeOK' /\ ExchangeInv'
    BY <2>1, <2>2, <2>3, <2>4, <1>t DEF OAuthTypeOK
  <2>6. GrantInv'
    BY <2>1, <2>2, <2>3, <2>4 DEF GrantInv, Granting
  <2>7. MergeInv'
    BY <2>1, <2>2, <2>3, <2>4 DEF MergeInv, OAuthTypeOK, OCallRecord
  <2>8. ASSUME NEW S, Covered(S), ~muddled PROVE Covered(S)'
    <3>1. PICK h \in Grants : /\ grant[h].status = "active"
                              /\ S \subseteq grant[h].scopes \/ (h = g /\ S \subseteq all)
      BY <2>1, <2>8 DEF Covered, GrantInv, Granting
    <3> QED BY <2>4, <2>8, <3>1 DEF Covered
  <2>9. ASSUME NEW S, S = oauth[c].scopes, ~muddled, c \notin crossed PROVE Covered(S)'
    BY <2>1, <2>4, <2>9 DEF Covered, MergeInv
  <2>10. CoverInv'
    BY <2>1, <2>2, <2>3, <2>8, <2>9 DEF CoverInv
  <2> QED BY <2>5, <2>6, <2>7, <2>10
<1>f. ASSUME NEW c \in OCalls, MakeGrant(c) PROVE OAuthInv'
  <2>1. PICK g \in Grants : /\ grant[g].status = "none" /\ AfterGrant(c)
                            /\ grant' = [grant EXCEPT ![g] = [status |-> "active", scopes |-> oauth[c].scopes]]
    BY <1>f DEF MakeGrant
  <2>2. oauth[c].pc = "make" /\ UNCHANGED <<muddled, code, spender, outlived, access, refresh, crossed>>
    BY <1>f DEF MakeGrant, OAt, NotCodes, NotTokens, NotHistory
  <2>3. PICK pc \in {"code", "done"} : OGoto(c, pc)
    BY <2>1 DEF AfterGrant
  <2>4. /\ oauth' \in [OCalls -> OCallRecord] /\ oauth'[c].pc = pc
        /\ pc = "code" => oauth'[c].scopes = oauth[c].scopes
        /\ \A d \in OCalls \ {c} : oauth'[d] = oauth[d]
    BY <2>2, <2>3, OAuthMoves
  <2>5. oauth[c].scopes \in SUBSET Scopes
    BY <2>2 DEF OAuthTypeOK, OCallRecord
  <2>6. /\ grant' \in [Grants -> [status : {"none", "active", "revoked"}, scopes : SUBSET Scopes]]
        /\ grant'[g].status = "active" /\ grant'[g].scopes = oauth[c].scopes
        /\ \A h \in Grants \ {g} : grant'[h] = grant[h]
    BY <2>1, <2>5 DEF OAuthTypeOK
  <2>7. OAuthTypeOK' /\ ExchangeInv'
    BY <2>2, <2>3, <2>4, <2>6, <1>t DEF OAuthTypeOK
  <2>8. GrantInv'
    BY <2>2, <2>4, <2>6 DEF GrantInv, Granting
  <2>9. MergeInv'
    BY <2>1, <2>2, <2>3, <2>4, <2>6 DEF MergeInv
  <2>10. ASSUME NEW S, Covered(S) PROVE Covered(S)'
    BY <2>1, <2>2, <2>4, <2>6, <2>10 DEF Covered
  <2>11. ASSUME NEW S, S = oauth[c].scopes PROVE Covered(S)'
    BY <2>6, <2>11 DEF Covered
  <2>12. CoverInv'
    BY <2>2, <2>3, <2>4, <2>10, <2>11 DEF CoverInv
  <2> QED BY <2>7, <2>8, <2>9, <2>12
<1>g. ASSUME NEW c \in OCalls, CreateCode(c) PROVE OAuthInv'
  <2>1. PICK k \in Codes : /\ code[k].status = "none" /\ OGoto(c, "done")
                           /\ code' = [code EXCEPT ![k] = [status |-> "open", scopes |-> oauth[c].scopes]]
                           /\ outlived' = IF c \in crossed THEN outlived \cup {k} ELSE outlived
    BY <1>g DEF CreateCode
  <2>2. oauth[c].pc = "code" /\ UNCHANGED <<grant, muddled, spender, access, refresh, crossed>>
    BY <1>g DEF CreateCode, OAt, NotGrants, NotTokens, NotHistory
  <2>3. /\ oauth' \in [OCalls -> OCallRecord] /\ oauth'[c].pc = "done"
        /\ \A d \in OCalls \ {c} : oauth'[d] = oauth[d]
    BY <2>1, OAuthMoves
  <2>4. oauth[c].scopes \in SUBSET Scopes
    BY <2>2 DEF OAuthTypeOK, OCallRecord
  <2>5. /\ code' \in [Codes -> [status : {"none", "open", "used"}, scopes : SUBSET Scopes]]
        /\ code'[k] = [status |-> "open", scopes |-> oauth[c].scopes]
        /\ \A j \in Codes \ {k} : code'[j] = code[j]
    BY <2>1, <2>4 DEF OAuthTypeOK
  <2>6. OAuthTypeOK'
    BY <2>1, <2>2, <2>3, <2>5 DEF OAuthTypeOK
  <2>7. ExchangeInv'
    <3>1. \A d \in OCalls : oauth[d].pc \in {"spend", "access", "refresh"} => oauth[d].code \in Codes
      BY DEF OAuthTypeOK, OCallRecord
    <3>2. \A d \in OCalls : access[d].status # "none" => access[d].code \in Codes
      BY DEF OAuthTypeOK, Token
    <3>3. \A j \in Codes : code[j].status # "none" => code'[j] = code[j]
      BY <2>1, <2>5
    <3>4. \A j \in Codes : code'[j].status # "used" => code[j].status # "used"
      BY <2>1, <2>5
    <3> QED BY <2>2, <2>3, <3>1, <3>2, <3>3, <3>4 DEF ExchangeInv
  <2>8. GrantInv' /\ MergeInv'
    BY <2>2, <2>3 DEF GrantInv, MergeInv, Granting
  <2>9. ASSUME NEW S, Covered(S) PROVE Covered(S)'
    BY <2>2, <2>3, <2>9 DEF Covered
  <2>10. CoverInv'
    BY <2>1, <2>2, <2>3, <2>5, <2>9 DEF CoverInv
  <2> QED BY <2>6, <2>7, <2>8, <2>10
<1>h. ASSUME NEW c \in OCalls, StartTokenExchange(c) PROVE OAuthInv'
  <2>1. PICK k \in Codes :
          /\ code[k].status # "none"
          /\ oauth' = [oauth EXCEPT ![c] =
               IF Spendable(k) THEN [op |-> "exchange", pc |-> "spend", code |-> k] ELSE [pc |-> "done"]]
    BY <1>h DEF StartTokenExchange
  <2>2. oauth[c].pc = "idle" /\ UNCHANGED <<grant, muddled, code, spender, outlived, access, refresh, crossed>>
    BY <1>h DEF StartTokenExchange, OAt, NotGrants, NotCodes, NotTokens, NotHistory
  <2>3. /\ oauth' \in [OCalls -> OCallRecord]
        /\ oauth'[c] = [op |-> "exchange", pc |-> "spend", code |-> k] \/ oauth'[c] = [pc |-> "done"]
        /\ \A d \in OCalls \ {c} : oauth'[d] = oauth[d]
    BY <2>1 DEF OAuthTypeOK, OCallRecord
  <2>4. OAuthTypeOK' /\ ExchangeInv'
    BY <2>1, <2>2, <2>3 DEF OAuthTypeOK, ExchangeInv
  <2>5. GrantInv' /\ MergeInv' /\ CoverInv'
    BY <2>2, <2>3, OAuthAside DEF Granting
  <2> QED BY <2>4, <2>5
<1>i. ASSUME NEW c \in OCalls, SpendCode(c) PROVE OAuthInv'
  <2> DEFINE k == oauth[c].code
  <2>1. oauth[c].pc = "spend" /\ UNCHANGED <<grant, muddled, outlived, access, refresh, crossed>> /\ k \in Codes
    BY <1>i DEF SpendCode, OAt, NotGrants, NotTokens, NotHistory, OAuthTypeOK, OCallRecord
  <2>2. PICK pc \in {"access", "done"} :
          /\ OGoto(c, pc)
          /\ \/ /\ code' = [code EXCEPT ![k].status = "used"]
                /\ spender' = [spender EXCEPT ![k] = @ \cup {c}]
             \/ UNCHANGED <<code, spender>>
    BY <1>i DEF SpendCode
  <2>3. /\ oauth' \in [OCalls -> OCallRecord] /\ oauth'[c].pc = pc
        /\ pc = "access" => oauth'[c].code = k
        /\ \A d \in OCalls \ {c} : oauth'[d] = oauth[d]
    BY <2>1, <2>2, OAuthMoves
  <2>4. /\ code' \in [Codes -> [status : {"none", "open", "used"}, scopes : SUBSET Scopes]]
        /\ spender' \in [Codes -> SUBSET OCalls]
        /\ \A j \in Codes : code'[j].scopes = code[j].scopes
        /\ \A j \in Codes : (code'[j] = code[j] /\ spender'[j] = spender[j]) \/ (j = k /\ code'[j].status = "used")
    <3>1. CASE UNCHANGED <<code, spender>>
      BY <3>1 DEF OAuthTypeOK
    <3>2. CASE /\ code' = [code EXCEPT ![k].status = "used"] /\ spender' = [spender EXCEPT ![k] = @ \cup {c}]
      <4>1. /\ code' \in [Codes -> [status : {"none", "open", "used"}, scopes : SUBSET Scopes]]
            /\ code'[k].status = "used" /\ code'[k].scopes = code[k].scopes
            /\ \A j \in Codes \ {k} : code'[j] = code[j]
        BY <2>1, <3>2 DEF OAuthTypeOK
      <4>2. spender' \in [Codes -> SUBSET OCalls] /\ \A j \in Codes \ {k} : spender'[j] = spender[j]
        BY <2>1, <3>2 DEF OAuthTypeOK
      <4> QED BY <4>1, <4>2
    <3> QED BY <2>2, <3>1, <3>2
  <2>5. code[k].status # "none"
    BY <2>1 DEF ExchangeInv
  <2>6. \A j \in Codes : code'[j].status = "none" <=> code[j].status = "none"
    BY <2>4, <2>5
  <2>7. OAuthTypeOK'
    BY <2>1, <2>3, <2>4 DEF OAuthTypeOK
  <2>8. ExchangeInv'
    <3>1. \A d \in OCalls : oauth[d].pc \in {"spend", "access", "refresh"} => oauth[d].code \in Codes
      BY DEF OAuthTypeOK, OCallRecord
    <3>2. \A d \in OCalls : access[d].status # "none" => access[d].code \in Codes
      BY DEF OAuthTypeOK, Token
    <3> QED BY <2>1, <2>2, <2>3, <2>4, <2>6, <3>1, <3>2 DEF ExchangeInv
  <2>9. GrantInv' /\ MergeInv' /\ CoverInv'
    BY <2>1, <2>2, <2>3, <2>4, <2>6, OAuthAside DEF Granting
  <2> QED BY <2>7, <2>8, <2>9
(* A call that minted a token, or answers, for the code it spent.           *)
<1>x. ASSUME NEW c \in OCalls, oauth[c].pc \in {"access", "refresh"},
             NEW pc \in {"refresh", "done"}, OGoto(c, pc), pc = "refresh" => oauth[c].pc = "access",
             UNCHANGED <<grant, muddled, code, spender, outlived, crossed>>,
             access' = access \/ access' = [access EXCEPT ![c] = [status |-> "live", code |-> oauth[c].code]],
             refresh' = refresh \/ refresh' = [refresh EXCEPT ![c] = [status |-> "live", code |-> oauth[c].code]]
      PROVE  OAuthInv'
  <2>1. /\ oauth' \in [OCalls -> OCallRecord] /\ oauth'[c].pc = pc
        /\ pc = "refresh" => oauth'[c].code = oauth[c].code
        /\ \A d \in OCalls \ {c} : oauth'[d] = oauth[d]
    BY <1>x, OAuthMoves
  <2>2. oauth[c].code \in Codes /\ code[oauth[c].code].status # "none"
    BY <1>x DEF OAuthTypeOK, OCallRecord, ExchangeInv
  <2>3. [status |-> "live", code |-> oauth[c].code] \in Token
    BY <2>2 DEF Token
  <2>4. OAuthTypeOK'
    BY <1>x, <2>1, <2>3 DEF OAuthTypeOK
  <2>5. ExchangeInv'
    <3>1. \A d \in OCalls : access'[d] = access[d] \/ access'[d].code = oauth[c].code
      BY <1>x DEF OAuthTypeOK
    <3> QED BY <1>x, <2>1, <2>2, <3>1 DEF ExchangeInv
  <2>6. GrantInv' /\ MergeInv' /\ CoverInv'
    BY <1>x, <2>1, OAuthAside DEF Granting
  <2> QED BY <2>4, <2>5, <2>6
<1>j. ASSUME NEW c \in OCalls, MintAccess(c) PROVE OAuthInv'
  <2>1. PICK pc \in {"refresh", "done"} : OGoto(c, pc)
    BY <1>j DEF MintAccess
  <2> QED
    BY <1>j, <1>x, <2>1 DEF MintAccess, OAt, NotGrants, NotCodes, NotHistory
<1>k. ASSUME NEW c \in OCalls, MintRefresh(c) PROVE OAuthInv'
  BY <1>k, <1>x DEF MintRefresh, OAt, NotGrants, NotCodes, NotHistory
<1>l. ASSUME NEW c \in OCalls, StartRevoke(c) PROVE OAuthInv'
  <2>1. PICK g \in Grants : oauth' = [oauth EXCEPT ![c] = [op |-> "revoke", pc |-> "revoke", at |-> g]]
    BY <1>l DEF StartRevoke
  <2>2. oauth[c].pc = "idle" /\ UNCHANGED <<grant, muddled, code, spender, outlived, access, refresh, crossed>>
    BY <1>l DEF StartRevoke, OAt, NotGrants, NotCodes, NotTokens, NotHistory
  <2>3. /\ oauth' \in [OCalls -> OCallRecord] /\ oauth'[c].pc = "revoke"
        /\ \A d \in OCalls \ {c} : oauth'[d] = oauth[d]
    BY <2>1 DEF OAuthTypeOK, OCallRecord
  <2>4. OAuthTypeOK' /\ ExchangeInv'
    BY <2>2, <2>3, <1>t DEF OAuthTypeOK
  <2>5. GrantInv' /\ MergeInv' /\ CoverInv'
    BY <2>2, <2>3, OAuthAside DEF Granting
  <2> QED BY <2>4, <2>5
<1>m. ASSUME NEW c \in OCalls, Revoke(c) PROVE OAuthInv'
  <2> DEFINE g == oauth[c].at
  <2>1. /\ oauth[c].pc = "revoke" /\ UNCHANGED <<muddled, code, spender>> /\ OGoto(c, "done") /\ g \in Grants
        /\ grant' = [grant EXCEPT ![g].status = "revoked"]
        /\ access' = Revoked(access) /\ refresh' = Revoked(refresh)
        /\ crossed' = crossed \cup {o \in OCalls \ {c} : OBusy(o)}
        /\ outlived' = outlived \cup {k \in Codes : code[k].status # "none"}
    BY <1>m DEF Revoke, OAt, OAuthTypeOK, OCallRecord
  <2>2. /\ oauth' \in [OCalls -> OCallRecord] /\ oauth'[c].pc = "done"
        /\ \A d \in OCalls \ {c} : oauth'[d] = oauth[d]
    BY <2>1, OAuthMoves
  <2>3. /\ grant' \in [Grants -> [status : {"none", "active", "revoked"}, scopes : SUBSET Scopes]]
        /\ grant'[g].status = "revoked"
        /\ \A h \in Grants : grant'[h].scopes = grant[h].scopes /\ (h = g \/ grant'[h].status = grant[h].status)
    BY <2>1 DEF OAuthTypeOK
  <2>4. ASSUME NEW tokens \in [OCalls -> Token]
        PROVE  /\ Revoked(tokens) \in [OCalls -> Token]
               /\ \A d \in OCalls : Revoked(tokens)[d].status # "none" =>
                     tokens[d].status # "none" /\ Revoked(tokens)[d].code = tokens[d].code
    BY DEF Revoked, Token
  <2>5. OAuthTypeOK'
    BY <2>1, <2>2, <2>3, <2>4 DEF OAuthTypeOK
  <2>6. ExchangeInv'
    <3>1. \A d \in OCalls : access'[d].status # "none" => access[d].status # "none" /\ access'[d].code = access[d].code
      BY <2>1, <2>4 DEF OAuthTypeOK
    <3>2. \A d \in OCalls : oauth'[d].pc = "done" \/ oauth'[d] = oauth[d]
      BY <2>2
    <3> QED BY <2>1, <3>1, <3>2 DEF ExchangeInv
  <2>7. \A d \in OCalls : oauth'[d].pc \in Granting \cup {"code"} => d \in crossed'
    BY <2>1, <2>2 DEF OBusy, OAt, Granting
  <2>8. GrantInv'
    BY <2>1, <2>2, <2>3 DEF GrantInv, Granting
  <2>9. MergeInv'
    BY <2>2, <2>7 DEF MergeInv, Granting
  <2>10. CoverInv'
    BY <2>1, <2>7 DEF CoverInv
  <2> QED BY <2>5, <2>6, <2>8, <2>9, <2>10
<1>n. ASSUME NEW c \in OCalls, OCallDies(c) PROVE OAuthInv'
  <2>1. /\ OGoto(c, "done") /\ UNCHANGED <<grant, crossed, code, spender, outlived, access, refresh>>
        /\ muddled' = (muddled \/ oauth[c].pc = "rewrite")
    BY <1>n DEF OCallDies, OAt, NotCodes, NotTokens
  <2>2. /\ oauth' \in [OCalls -> OCallRecord] /\ oauth'[c].pc = "done"
        /\ \A d \in OCalls \ {c} : oauth'[d] = oauth[d]
    BY <2>1, OAuthMoves
  <2>3. OAuthTypeOK' /\ ExchangeInv'
    BY <2>1, <2>2, <1>t DEF OAuthTypeOK
  <2>4. GrantInv' /\ MergeInv'
    BY <2>1, <2>2 DEF GrantInv, MergeInv, Granting
  <2>5. ASSUME NEW S, Covered(S), ~muddled' PROVE Covered(S)'
    BY <2>1, <2>2, <2>5 DEF Covered
  <2>6. CoverInv'
    BY <2>1, <2>2, <2>5 DEF CoverInv
  <2> QED BY <2>3, <2>4, <2>6
<1> QED
  BY <1>u, <1>a, <1>b, <1>c, <1>d, <1>e, <1>f, <1>g, <1>h, <1>i, <1>j, <1>k, <1>l, <1>m, <1>n DEF OAuthNext

(* Whatever grants, exchanges and revocations of an application run at      *)
(* once: a code that is not used has no spender, and, until two grants      *)
(* cross, the grant in flight knows the authorization it merges into.       *)
THEOREM OAuthInvariant == OAuthSpec => []OAuthInv
BY OAuthInitInv, OAuthNextInv, PTL DEF OAuthSpec

(* What an application holds is covered by the authorization the user can   *)
(* revoke, and there is one of them, unless two grants crossed: proved for  *)
(* any scopes, codes and number of calls of the OAuth service.              *)
THEOREM ConsentIsCurrentHolds == OAuthSpec => []ConsentIsCurrent
<1>1. OAuthInv => ConsentIsCurrent
  <2> SUFFICES ASSUME OAuthInv PROVE ConsentIsCurrent
    OBVIOUS
  <2> USE DEF OAuthInv
  <2>1. ASSUME NEW c \in OCalls, Admitted(c), access[c].code \notin outlived, ~muddled,
               ~ \E o \in OCalls : OAt(o, "rewrite")
        PROVE  \E g \in ActiveGrants : code[access[c].code].scopes \subseteq grant[g].scopes
    <3>1. access[c].code \in Codes /\ code[access[c].code].status # "none"
      BY <2>1 DEF OAuthTypeOK, Token, Admitted, ExchangeInv
    <3>2. Covered(code[access[c].code].scopes)
      BY <2>1, <3>1 DEF CoverInv
    <3> QED BY <2>1, <3>2 DEF Covered, ActiveGrants, OAt
  <2>2. OneAuthorization
    BY DEF OneAuthorization, GrantInv, ActiveGrants
  <2> QED BY <2>1, <2>2 DEF ConsentIsCurrent, TokensFollowConsent
<1> QED
  BY OAuthInvariant, <1>1, PTL

(* The exchange of a code implements the one-time ticket: one of the        *)
(* exchanges of a code takes it, by the conditional update of               *)
(* exchangeAuthorizationCode, and it is never put back.                     *)
THEOREM CodesAreTicketsHolds == OAuthSpec => CodesAreTickets
<1> DEFINE opened == {k \in Codes : code[k].status = "open"}
<1>1. OAuthInit => Ticket!TicketInit
  BY DEF OAuthInit, Ticket!TicketInit
<1>2. ASSUME OAuthInv, [OAuthNext]_oauthVars PROVE [Ticket!TicketNext]_<<opened, spender>>
  <2> USE <1>2 DEF OAuthInv
  <2>0. ASSUME UNCHANGED <<code, spender>> PROVE UNCHANGED <<opened, spender>>
    BY <2>0
  <2>1. ASSUME NEW c \in OCalls, CreateCode(c) PROVE [Ticket!TicketNext]_<<opened, spender>>
    <3>1. PICK k \in Codes : /\ code[k].status = "none" /\ UNCHANGED spender
                             /\ code' = [code EXCEPT ![k] = [status |-> "open", scopes |-> oauth[c].scopes]]
      BY <2>1 DEF CreateCode
    <3>2. k \notin opened /\ opened' = opened \cup {k}
      BY <3>1 DEF OAuthTypeOK
    <3>3. spender[k] = {}
      BY <3>1 DEF ExchangeInv
    <3> QED BY <3>1, <3>2, <3>3 DEF Ticket!TicketNext, Ticket!Issue
  <2>2. ASSUME NEW c \in OCalls, SpendCode(c) PROVE [Ticket!TicketNext]_<<opened, spender>>
    <3> DEFINE k == oauth[c].code
    <3>1. k \in Codes
      BY <2>2 DEF SpendCode, OAt, OAuthTypeOK, OCallRecord
    <3>2. CASE Spendable(k)
      <4>1. /\ code' = [code EXCEPT ![k].status = "used"] /\ spender' = [spender EXCEPT ![k] = @ \cup {c}]
            /\ code[k].status = "open"
        BY <2>2, <3>2 DEF SpendCode, Spendable
      <4>2. k \in opened /\ opened' = opened \ {k}
        BY <3>1, <4>1 DEF OAuthTypeOK
      <4>3. spender' = [spender EXCEPT ![k] = {c}]
        BY <3>1, <4>1 DEF ExchangeInv, OAuthTypeOK
      <4>4. Ticket!Take(k, c)
        BY <4>2, <4>3 DEF Ticket!Take
      <4> QED BY <3>1, <4>4 DEF Ticket!TicketNext
    <3>3. CASE ~Spendable(k)
      BY <2>0, <2>2, <3>3 DEF SpendCode
    <3> QED BY <3>2, <3>3
  <2>3. CASE UNCHANGED oauthVars
    BY <2>0, <2>3 DEF oauthVars
  <2>4. ASSUME NEW k \in Codes, CodeExpires(k) PROVE UNCHANGED <<code, spender>>
    BY <2>4 DEF CodeExpires
  <2>5. ASSUME NEW c \in OCalls,
               \/ StartAuthorize(c) \/ StartGrant(c) \/ FindGrant(c) \/ WipeScopes(c) \/ RewriteScopes(c) \/ MakeGrant(c)
               \/ StartTokenExchange(c) \/ MintAccess(c) \/ MintRefresh(c) \/ StartRevoke(c) \/ Revoke(c) \/ OCallDies(c)
        PROVE  UNCHANGED <<code, spender>>
    BY <2>5 DEF StartAuthorize, StartGrant, StartGranting, FindGrant, WipeScopes, RewriteScopes, MakeGrant,
                StartTokenExchange, MintAccess, MintRefresh, StartRevoke, Revoke, OCallDies, NotCodes
  <2> QED BY <1>2, <2>0, <2>1, <2>2, <2>3, <2>4, <2>5 DEF OAuthNext
<1> QED
  BY <1>1, <1>2, OAuthInvariant, PTL DEF OAuthSpec, CodesAreTickets, Ticket!TicketSpec

(* A code belongs to the first exchange that spends it: no second one is    *)
(* ever recorded, and the first is never forgotten, so no later failure,    *)
(* death or revocation makes the code good again.                           *)
SpentForGood ==
  [][\A k \in Codes :
       spender[k] # {} => spender'[k] = spender[k] /\ code'[k].status # "open"]_oauthVars

(* Read off OneTimeTicket, which the exchange of codes implements.          *)
THEOREM SpentCodesStaySpent == OAuthSpec => SpentForGood
<1> DEFINE opened == {k \in Codes : code[k].status = "open"}
           Closed == \A k \in Codes : spender[k] # {} => k \notin opened
<1>1. OAuthInit => Closed
  BY DEF OAuthInit
<1>2. ASSUME Closed, [Ticket!TicketNext]_<<opened, spender>>
      PROVE  /\ Closed'
             /\ \A k \in Codes :
                  spender[k] # {} => spender'[k] = spender[k] /\ code'[k].status # "open"
  <2> DEFINE Kept == \A k \in Codes : spender[k] # {} => spender'[k] = spender[k] /\ k \notin opened'
  <2>1. ASSUME NEW j \in Codes, Ticket!Issue(j) PROVE Closed' /\ Kept
    BY <1>2, <2>1 DEF Ticket!Issue
  <2>2. ASSUME NEW j \in Codes, NEW t \in OCalls, Ticket!Take(j, t) PROVE Closed' /\ Kept
    <3>1. /\ j \in opened /\ opened' = opened \ {j}
          /\ \A k \in Codes : k # j => spender'[k] = spender[k]
      BY <2>2 DEF Ticket!Take
    <3>2. spender[j] = {}
      BY <1>2, <3>1
    <3>3. Kept
      BY <1>2, <3>1, <3>2
    <3>4. ASSUME NEW k \in Codes, spender'[k] # {} PROVE k \notin opened'
      BY <1>2, <3>1, <3>4
    <3> QED BY <3>3, <3>4
  <2>3. CASE UNCHANGED <<opened, spender>>
    BY <1>2, <2>3
  <2>4. Closed' /\ Kept
    BY <1>2, <2>1, <2>2, <2>3 DEF Ticket!TicketNext
  <2> QED
    BY <2>4
<1> QED
  BY <1>1, <1>2, CodesAreTicketsHolds, PTL DEF OAuthSpec, CodesAreTickets, Ticket!TicketSpec, SpentForGood

-----------------------------------------------------------------------------
(* The trust bridge: an assertion is spent for one session *)

InTransaction == {"owner", "session", "commit"}
Holds(c, row) == [by |-> c, row |-> row] \in pending

(* The record of an exchange, by how far it has come.                       *)
ExchangeRecord ==
  [pc : {"idle", "done"}]
    \cup [pc : {"fetch", "verify", "consume", "owner"}, a : minted]
    \cup [pc : {"session", "commit"}, a : minted, owner : ExchangeCalls]

(* An open transaction holds the row of its assertion, and perhaps the one  *)
(* of its subject; nobody holds anything else, or the same row twice.       *)
LocksInv ==
  /\ \A c \in ExchangeCalls :
       exchange[c].pc \in InTransaction =>
         Holds(c, JtiRow(exchange[c].a)) /\ exchange[c].a.jti \notin spent
  /\ \A p \in pending : \E c \in ExchangeCalls :
       \/ exchange[c].pc \in InTransaction /\ p = [by |-> c, row |-> JtiRow(exchange[c].a)]
       \/ exchange[c].pc \in {"session", "commit"} /\ p = [by |-> c, row |-> SubjectRow(exchange[c].a)]
  /\ \A p, q \in pending : p.row = q.row => p.by = q.by

(* A transaction past the owner either brings a new owner, itself, for a    *)
(* subject that has none, or has read the owner of its subject.             *)
OwnerInv ==
  \A c \in ExchangeCalls :
    exchange[c].pc \in {"session", "commit"} =>
      IF Holds(c, SubjectRow(exchange[c].a))
      THEN /\ exchange[c].owner = c
           /\ \A i \in identities : i.subject # exchange[c].a.subject
      ELSE \E i \in identities : i.subject = exchange[c].a.subject /\ i.owner = exchange[c].owner

OwnersAreCalls == \A i \in identities : i.owner \in ExchangeCalls

BridgeInv == exchange \in [ExchangeCalls -> ExchangeRecord] /\ LocksInv /\ OwnerInv /\ OwnersAreCalls /\ OneSessionEach

LEMMA BridgeInitInv == BridgeInit => BridgeInv
<1> SUFFICES ASSUME BridgeInit PROVE BridgeInv
  OBVIOUS
<1> USE DEF BridgeInit
<1>1. exchange \in [ExchangeCalls -> ExchangeRecord]
  BY DEF ExchangeRecord
<1>2. LocksInv /\ OwnerInv /\ OwnersAreCalls
  BY DEF LocksInv, OwnerInv, OwnersAreCalls, InTransaction
<1>3. OneSessionEach
  BY DEF OneSessionEach
<1> QED BY <1>1, <1>2, <1>3 DEF BridgeInv

(* What moving one call on does to its record and to the others.            *)
LEMMA ExchangeMoves ==
  ASSUME exchange \in [ExchangeCalls -> ExchangeRecord], UNCHANGED minted,
         NEW c \in ExchangeCalls, NEW pc, ExGoto(c, pc),
         \/ pc = "done"
         \/ exchange[c].pc \in {"fetch", "verify", "consume"} /\ pc \in {"fetch", "verify", "consume", "owner"}
         \/ exchange[c].pc = "session" /\ pc = "commit"
  PROVE  /\ exchange' \in [ExchangeCalls -> ExchangeRecord']
         /\ exchange'[c].pc = pc
         /\ pc # "done" => exchange'[c].a = exchange[c].a
         /\ pc = "commit" => exchange'[c].owner = exchange[c].owner
         /\ \A d \in ExchangeCalls \ {c} : exchange'[d] = exchange[d]
<1>1. exchange[c] \in ExchangeRecord
  OBVIOUS
<1>2. CASE pc = "done"
  BY <1>2 DEF ExGoto, ExchangeRecord
<1>3. CASE pc # "done"
  <2>1. exchange' = [exchange EXCEPT ![c] = [exchange[c] EXCEPT !.pc = pc]]
    BY <1>3 DEF ExGoto
  <2>2. /\ [exchange[c] EXCEPT !.pc = pc] \in ExchangeRecord
        /\ [exchange[c] EXCEPT !.pc = pc].pc = pc
        /\ [exchange[c] EXCEPT !.pc = pc].a = exchange[c].a
        /\ pc = "commit" => [exchange[c] EXCEPT !.pc = pc].owner = exchange[c].owner
    BY <1>1, <1>3 DEF ExchangeRecord
  <2>3. ExchangeRecord' = ExchangeRecord
    BY DEF ExchangeRecord
  <2> QED BY <2>1, <2>2, <2>3
<1> QED BY <1>2, <1>3

LEMMA BridgeNextInv == BridgeInv /\ [BridgeNext]_bridgeVars => BridgeInv'
<1> SUFFICES ASSUME BridgeInv, [BridgeNext]_bridgeVars PROVE BridgeInv'
  OBVIOUS
<1> USE DEF BridgeInv
<1>0. ASSUME minted \subseteq minted', UNCHANGED <<exchange, pending, spent, identities, owners, sessions>>
      PROVE  BridgeInv'
  <2>1. ExchangeRecord \subseteq ExchangeRecord'
    BY <1>0 DEF ExchangeRecord
  <2>2. (exchange \in [ExchangeCalls -> ExchangeRecord])'
    BY <1>0, <2>1
  <2>3. LocksInv' /\ OwnerInv' /\ OwnersAreCalls'
    BY <1>0 DEF LocksInv, OwnerInv, OwnersAreCalls, Holds, InTransaction, JtiRow, SubjectRow
  <2>4. OneSessionEach'
    BY <1>0 DEF OneSessionEach
  <2> QED BY <2>2, <2>3, <2>4
<1>a. CASE UNCHANGED bridgeVars
  BY <1>a, <1>0 DEF bridgeVars
<1>b. CASE WindowPasses
  BY <1>b, <1>0 DEF WindowPasses, KeepDigi, KeepTables
<1>c. ASSUME NEW c \in IssueCalls, NEW s \in Subjects, StartIssue(c, s) \/ RefuseIssue(c, s) PROVE BridgeInv'
  BY <1>c, <1>0 DEF StartIssue, RefuseIssue, KeepDigi, KeepTables
<1>d. ASSUME NEW c \in IssueCalls, MakeKey(c) \/ Mint(c) PROVE BridgeInv'
  BY <1>d, <1>0 DEF MakeKey, Mint, KeepDigi, KeepTables
<1>e. ASSUME NEW a \in minted, AssertionLapses(a) PROVE BridgeInv'
  BY <1>e, <1>0 DEF AssertionLapses, KeepIssue, KeepDigi, KeepTables
<1>f. ASSUME NEW s \in sessions, SessionEnds(s) PROVE BridgeInv'
  BY <1>f, <1>0 DEF SessionEnds, KeepIssue, KeepTables
(* A call outside of its transaction moves on, or one inside moves inside.  *)
<1>1. ASSUME NEW c \in ExchangeCalls, UNCHANGED <<minted, pending, spent, identities, owners, sessions>>,
             exchange' \in [ExchangeCalls -> ExchangeRecord'],
             \A d \in ExchangeCalls \ {c} : exchange'[d] = exchange[d],
             \/ exchange[c].pc \notin InTransaction /\ exchange'[c].pc \notin InTransaction
             \/ exchange[c].pc = "session" /\ exchange'[c].pc = "commit"
                  /\ exchange'[c].a = exchange[c].a /\ exchange'[c].owner = exchange[c].owner
      PROVE  BridgeInv'
  <2>1. LocksInv'
    BY <1>1 DEF LocksInv, Holds, InTransaction, JtiRow, SubjectRow
  <2>2. OwnerInv' /\ OwnersAreCalls'
    BY <1>1 DEF OwnerInv, OwnersAreCalls, Holds, InTransaction, JtiRow, SubjectRow
  <2>3. OneSessionEach'
    BY <1>1 DEF OneSessionEach
  <2> QED BY <1>1, <2>1, <2>2, <2>3
<1>g. ASSUME NEW c \in ExchangeCalls, NEW a \in minted, StartExchange(c, a) PROVE BridgeInv'
  <2>1. PICK pc \in {"fetch", "verify"} : exchange' = [exchange EXCEPT ![c] = [pc |-> pc, a |-> a]]
    BY <1>g DEF StartExchange
  <2>2. UNCHANGED <<minted, pending, spent, identities, owners, sessions>> /\ exchange[c].pc = "idle"
    BY <1>g DEF StartExchange, KeepTables, KeepIssue
  <2>3. exchange' \in [ExchangeCalls -> ExchangeRecord']
    BY <2>1, <2>2 DEF ExchangeRecord
  <2> QED BY <1>1, <2>1, <2>2, <2>3 DEF InTransaction
<1>h. ASSUME NEW c \in ExchangeCalls, FetchKeys(c) PROVE BridgeInv'
  <2>1. PICK pc \in {"verify", "done"} : ExGoto(c, pc)
    BY <1>h DEF FetchKeys
  <2>2. UNCHANGED <<minted, pending, spent, identities, owners, sessions>> /\ exchange[c].pc = "fetch"
    BY <1>h DEF FetchKeys, KeepTables, KeepIssue
  <2> QED BY <1>1, <2>1, <2>2, ExchangeMoves DEF InTransaction
<1>i. ASSUME NEW c \in ExchangeCalls, Verify(c) PROVE BridgeInv'
  <2>1. PICK pc \in {"consume", "done"} : ExGoto(c, pc)
    BY <1>i DEF Verify
  <2>2. UNCHANGED <<minted, pending, spent, identities, owners, sessions>> /\ exchange[c].pc = "verify"
    BY <1>i DEF Verify, KeepTables, KeepIssue
  <2> QED BY <1>1, <2>1, <2>2, ExchangeMoves DEF InTransaction
<1>j. ASSUME NEW c \in ExchangeCalls, CreateRpSession(c) PROVE BridgeInv'
  <2>1. ExGoto(c, "commit") /\ exchange[c].pc = "session"
    BY <1>j DEF CreateRpSession
  <2>2. UNCHANGED <<minted, pending, spent, identities, owners, sessions>>
    BY <1>j DEF CreateRpSession, KeepTables, KeepIssue
  <2> QED BY <1>1, <2>1, <2>2, ExchangeMoves DEF InTransaction
<1>k. ASSUME NEW c \in ExchangeCalls, TryConsume(c) PROVE BridgeInv'
  <2> DEFINE a == exchange[c].a
             row == [by |-> c, row |-> JtiRow(a)]
  <2>1. UNCHANGED <<minted, spent, identities, owners, sessions>> /\ exchange[c].pc = "consume"
    BY <1>k DEF TryConsume, KeepTables, KeepIssue
  <2>2. CASE a.jti \in spent
    <3>1. ExGoto(c, "done") /\ UNCHANGED pending
      BY <1>k, <2>2 DEF TryConsume
    <3> QED BY <1>1, <2>1, <3>1, ExchangeMoves DEF InTransaction
  <2>3. CASE a.jti \notin spent
    <3>1. ExGoto(c, "owner") /\ pending' = pending \cup {row} /\ ~HeldByAnother(c, JtiRow(a))
      BY <1>k, <2>3 DEF TryConsume, Insert
    <3>2. /\ exchange' \in [ExchangeCalls -> ExchangeRecord']
          /\ exchange'[c].pc = "owner" /\ exchange'[c].a = a
          /\ \A d \in ExchangeCalls \ {c} : exchange'[d] = exchange[d]
      BY <2>1, <3>1, ExchangeMoves
    <3>3. \A p \in pending : p.by # c /\ p.row # JtiRow(a)
      BY <2>1, <3>1 DEF LocksInv, InTransaction, HeldByAnother
    <3>4. LocksInv'
      <4>1. \A d \in ExchangeCalls :
              exchange'[d].pc \in InTransaction =>
                [by |-> d, row |-> JtiRow(exchange'[d].a)] \in pending' /\ exchange'[d].a.jti \notin spent'
        BY <2>1, <2>3, <3>1, <3>2 DEF LocksInv, InTransaction, Holds, JtiRow
      <4>2. \A p \in pending' : \E d \in ExchangeCalls :
             \/ exchange'[d].pc \in InTransaction /\ p = [by |-> d, row |-> JtiRow(exchange'[d].a)]
             \/ exchange'[d].pc \in {"session", "commit"} /\ p = [by |-> d, row |-> SubjectRow(exchange'[d].a)]
        BY <2>1, <3>1, <3>2 DEF LocksInv, InTransaction
      <4>3. \A p, q \in pending' : p.row = q.row => p.by = q.by
        BY <3>1, <3>3 DEF LocksInv
      <4> QED BY <4>1, <4>2, <4>3 DEF LocksInv, Holds, JtiRow, SubjectRow
    <3>5. OwnerInv' /\ OwnersAreCalls'
      BY <2>1, <3>1, <3>2 DEF OwnerInv, OwnersAreCalls, Holds, JtiRow, SubjectRow
    <3>6. OneSessionEach'
      BY <2>1 DEF OneSessionEach
    <3> QED BY <3>2, <3>4, <3>5, <3>6
  <2> QED BY <2>2, <2>3
<1>l. ASSUME NEW c \in ExchangeCalls, ResolveOrCreate(c) PROVE BridgeInv'
  <2> DEFINE a == exchange[c].a
             row == [by |-> c, row |-> SubjectRow(a)]
             known == {i \in identities : i.subject = a.subject}
  <2>1. UNCHANGED <<minted, spent, identities, owners, sessions>> /\ exchange[c].pc = "owner" /\ a \in minted
    BY <1>l DEF ResolveOrCreate, KeepTables, KeepIssue, ExchangeRecord
  <2>2. \A p \in pending : p.row # SubjectRow(a)
    <3>1. ~HeldByAnother(c, SubjectRow(a))
      BY <1>l DEF ResolveOrCreate
    <3> QED BY <2>1, <3>1 DEF LocksInv, HeldByAnother, JtiRow, SubjectRow
  <2>3. PICK o \in ExchangeCalls :
          /\ exchange' = [exchange EXCEPT ![c] = [pc |-> "session", a |-> a, owner |-> o]]
          /\ \/ pending' = pending \cup {row} /\ known = {} /\ o = c
             \/ pending' = pending /\ \E i \in known : i.owner = o
    BY <1>l DEF ResolveOrCreate, Insert, OwnersAreCalls
  <2>4. /\ exchange' \in [ExchangeCalls -> ExchangeRecord']
        /\ exchange'[c] = [pc |-> "session", a |-> a, owner |-> o]
        /\ \A d \in ExchangeCalls \ {c} : exchange'[d] = exchange[d]
    BY <2>1, <2>3 DEF ExchangeRecord
  <2>5. LocksInv'
    <3>1. \A d \in ExchangeCalls :
            exchange'[d].pc \in InTransaction =>
              [by |-> d, row |-> JtiRow(exchange'[d].a)] \in pending' /\ exchange'[d].a.jti \notin spent'
      BY <2>1, <2>3, <2>4 DEF LocksInv, InTransaction, Holds, JtiRow
    <3>2. \A p \in pending' : \E d \in ExchangeCalls :
           \/ exchange'[d].pc \in InTransaction /\ p = [by |-> d, row |-> JtiRow(exchange'[d].a)]
           \/ exchange'[d].pc \in {"session", "commit"} /\ p = [by |-> d, row |-> SubjectRow(exchange'[d].a)]
      <4>1. ASSUME NEW p \in pending PROVE \E d \in ExchangeCalls :
              \/ exchange'[d].pc \in InTransaction /\ p = [by |-> d, row |-> JtiRow(exchange'[d].a)]
              \/ exchange'[d].pc \in {"session", "commit"} /\ p = [by |-> d, row |-> SubjectRow(exchange'[d].a)]
        BY <2>1, <2>4 DEF LocksInv, InTransaction
      <4> QED BY <4>1, <2>3, <2>4
    <3>3. \A p, q \in pending' : p.row = q.row => p.by = q.by
      BY <2>2, <2>3 DEF LocksInv
    <3> QED BY <3>1, <3>2, <3>3 DEF LocksInv, Holds, JtiRow, SubjectRow
  <2>6. OwnerInv'
    <3>1. ASSUME NEW d \in ExchangeCalls \ {c} PROVE Holds(d, SubjectRow(exchange[d].a))' <=> Holds(d, SubjectRow(exchange[d].a))
      BY <2>3, <2>4 DEF Holds, SubjectRow
    <3>2. Holds(c, SubjectRow(a))' <=> o = c /\ known = {}
      BY <2>2, <2>3, <2>4 DEF Holds, SubjectRow
    <3> QED BY <2>1, <2>3, <2>4, <3>1, <3>2 DEF OwnerInv, SubjectRow, Holds
  <2>7. OwnersAreCalls' /\ OneSessionEach'
    BY <2>1 DEF OwnersAreCalls, OneSessionEach
  <2> QED BY <2>4, <2>5, <2>6, <2>7
(* A transaction ends: what it holds is released, and nobody else is        *)
(* touched as long as it added no row that another one holds.               *)
<1>2. ASSUME NEW c \in ExchangeCalls, exchange[c].pc \in InTransaction, ExGoto(c, "done"), UNCHANGED minted,
             pending' = pending \ Inserted(c), spent' \subseteq spent \cup {exchange[c].a.jti}
      PROVE  /\ (exchange \in [ExchangeCalls -> ExchangeRecord])' /\ LocksInv'
             /\ exchange'[c].pc = "done" /\ \A d \in ExchangeCalls \ {c} : exchange'[d] = exchange[d]
  <2>1. /\ exchange' \in [ExchangeCalls -> ExchangeRecord']
        /\ exchange'[c].pc = "done" /\ \A d \in ExchangeCalls \ {c} : exchange'[d] = exchange[d]
    BY <1>2, ExchangeMoves
  <2>2. ASSUME NEW d \in ExchangeCalls \ {c}, exchange[d].pc \in InTransaction
        PROVE  Holds(d, JtiRow(exchange[d].a))' /\ exchange[d].a.jti \notin spent'
    <3>1. Holds(d, JtiRow(exchange[d].a)) /\ Holds(c, JtiRow(exchange[c].a)) /\ exchange[d].a.jti \notin spent
      BY <1>2, <2>2 DEF LocksInv
    <3>2. JtiRow(exchange[d].a) # JtiRow(exchange[c].a)
      BY <3>1 DEF Holds, LocksInv
    <3>3. exchange[d].a.jti # exchange[c].a.jti
      BY <3>2 DEF JtiRow
    <3> QED BY <1>2, <2>1, <3>1, <3>3 DEF Holds, Inserted, JtiRow
  <2>3. LocksInv'
    <3>1. \A d \in ExchangeCalls :
            exchange'[d].pc \in InTransaction =>
              [by |-> d, row |-> JtiRow(exchange'[d].a)] \in pending' /\ exchange'[d].a.jti \notin spent'
      BY <2>1, <2>2 DEF InTransaction, Holds, JtiRow
    <3>2. \A p \in pending' : \E d \in ExchangeCalls :
           \/ exchange'[d].pc \in InTransaction /\ p = [by |-> d, row |-> JtiRow(exchange'[d].a)]
           \/ exchange'[d].pc \in {"session", "commit"} /\ p = [by |-> d, row |-> SubjectRow(exchange'[d].a)]
      BY <1>2, <2>1 DEF LocksInv, Inserted
    <3>3. \A p, q \in pending' : p.row = q.row => p.by = q.by
      BY <1>2 DEF LocksInv
    <3> QED BY <3>1, <3>2, <3>3 DEF LocksInv, Holds, JtiRow, SubjectRow
  <2> QED BY <2>1, <2>3
<1>m. ASSUME NEW c \in ExchangeCalls, Commit(c) PROVE BridgeInv'
  <2> DEFINE e == exchange[c]
             new == Holds(c, SubjectRow(e.a))
             mine == [subject |-> e.a.subject, owner |-> c]
             session == [id |-> c, owner |-> e.owner, jti |-> e.a.jti]
  <2>1. e.pc = "commit" /\ e.a \in minted /\ e.owner \in ExchangeCalls
    BY <1>m DEF Commit, ExchangeRecord
  <2>2. new <=> {p \in Inserted(c) : p.row.table = "external_identities"} # {}
    BY <2>1 DEF LocksInv, Inserted, Holds, JtiRow, SubjectRow
  <2>3. /\ UNCHANGED minted /\ ExGoto(c, "done") /\ pending' = pending \ Inserted(c) /\ spent' = spent \cup {e.a.jti}
        /\ identities' = IF new THEN identities \cup {mine} ELSE identities
        /\ owners' = IF new THEN owners \cup {c} ELSE owners
        /\ sessions' = sessions \cup {session}
    BY <1>m, <2>2 DEF Commit, KeepIssue
  <2>4. /\ (exchange \in [ExchangeCalls -> ExchangeRecord])' /\ LocksInv'
        /\ exchange'[c].pc = "done" /\ \A d \in ExchangeCalls \ {c} : exchange'[d] = exchange[d]
    BY <1>2, <2>1, <2>3 DEF InTransaction
  <2>5. e.a.jti \notin spent
    BY <2>1 DEF LocksInv, InTransaction
  <2>6. OwnerInv'
    <3> SUFFICES ASSUME NEW d \in ExchangeCalls \ {c}, exchange[d].pc \in {"session", "commit"}
                 PROVE  IF Holds(d, SubjectRow(exchange[d].a))'
                        THEN /\ exchange[d].owner = d
                             /\ \A i \in identities' : i.subject # exchange[d].a.subject
                        ELSE \E i \in identities' : i.subject = exchange[d].a.subject /\ i.owner = exchange[d].owner
      BY <2>4 DEF OwnerInv, Holds, SubjectRow
    <3>1. Holds(d, SubjectRow(exchange[d].a))' <=> Holds(d, SubjectRow(exchange[d].a))
      BY <2>3, <2>4 DEF Holds, Inserted, SubjectRow
    <3>2. CASE Holds(d, SubjectRow(exchange[d].a))
      <4>1. new => SubjectRow(exchange[d].a) # SubjectRow(e.a)
        BY <3>2 DEF Holds, LocksInv
      <4>2. new => exchange[d].a.subject # e.a.subject
        BY <4>1 DEF SubjectRow
      <4> QED BY <2>3, <3>1, <3>2, <4>2 DEF OwnerInv
    <3>3. CASE ~Holds(d, SubjectRow(exchange[d].a))
      BY <2>3, <3>1, <3>3 DEF OwnerInv
    <3> QED BY <3>2, <3>3
  <2>7. OwnersAreCalls'
    BY <2>3 DEF OwnersAreCalls
  <2>8. OneSessionEach'
    <3>1. (spent = {s.jti : s \in sessions})'
      <4>1. \A x : x \in spent <=> \E s \in sessions : x = s.jti
        BY DEF OneSessionEach
      <4>2. session.jti = e.a.jti
        OBVIOUS
      <4> HIDE DEF session
      <4>3. \A x : x \in spent' <=> \E s \in sessions' : x = s.jti
        BY <2>3, <4>1, <4>2
      <4> QED BY <4>3
    <3>2. (\A s, t \in sessions : s.jti = t.jti => s = t)'
      BY <2>3, <2>5 DEF OneSessionEach
    <3>3. new => \A i \in identities : i.subject # e.a.subject
      BY <2>1 DEF OwnerInv
    <3>4. (\A i, j \in identities : i.subject = j.subject => i = j)'
      BY <2>3, <3>3 DEF OneSessionEach
    <3>5. (owners = {i.owner : i \in identities})'
      <4>1. \A x : x \in owners <=> \E i \in identities : x = i.owner
        BY DEF OneSessionEach
      <4>2. mine.owner = c
        OBVIOUS
      <4> HIDE DEF mine, new
      <4>3. \A x : x \in owners' <=> \E i \in identities' : x = i.owner
        BY <2>3, <4>1, <4>2
      <4> QED BY <4>3
    <3>6. \E i \in identities' : i.subject = e.a.subject /\ i.owner = e.owner
      <4>1. CASE new
        <5>1. e.owner = c /\ mine \in identities'
          BY <2>1, <2>3, <4>1 DEF OwnerInv
        <5> QED BY <5>1
      <4>2. CASE ~new
        BY <2>1, <2>3, <4>2 DEF OwnerInv
      <4> QED BY <4>1, <4>2
    <3>7. (\A s \in sessions : \E a \in minted, i \in identities :
              a.jti = s.jti /\ i.subject = a.subject /\ i.owner = s.owner)'
      <4>1. identities \subseteq identities'
        BY <2>3
      <4>2. \A s \in sessions : \E a \in minted', i \in identities' :
               a.jti = s.jti /\ i.subject = a.subject /\ i.owner = s.owner
        BY <2>3, <4>1 DEF OneSessionEach
      <4>3. \E a \in minted', i \in identities' :
               a.jti = session.jti /\ i.subject = a.subject /\ i.owner = session.owner
        BY <2>1, <2>3, <3>6
      <4> QED BY <2>3, <4>2, <4>3
    <3> QED BY <3>1, <3>2, <3>4, <3>5, <3>7 DEF OneSessionEach
  <2> QED BY <2>4, <2>6, <2>7, <2>8
<1>n. ASSUME NEW c \in ExchangeCalls, Rollback(c) PROVE BridgeInv'
  <2>1. /\ UNCHANGED <<minted, spent, identities, owners, sessions>> /\ exchange[c].pc \in InTransaction
        /\ ExGoto(c, "done") /\ pending' = pending \ Inserted(c)
    BY <1>n DEF Rollback, KeepTables, KeepIssue, InTransaction
  <2>2. /\ (exchange \in [ExchangeCalls -> ExchangeRecord])' /\ LocksInv'
        /\ exchange'[c].pc = "done" /\ \A d \in ExchangeCalls \ {c} : exchange'[d] = exchange[d]
    BY <1>2, <2>1
  <2>3. ASSUME NEW d \in ExchangeCalls \ {c} PROVE Holds(d, SubjectRow(exchange[d].a))' <=> Holds(d, SubjectRow(exchange[d].a))
    BY <2>1, <2>2 DEF Holds, Inserted, SubjectRow
  <2>4. OwnerInv' /\ OwnersAreCalls'
    BY <2>1, <2>2, <2>3 DEF OwnerInv, OwnersAreCalls, SubjectRow, Holds
  <2>5. OneSessionEach'
    BY <2>1 DEF OneSessionEach
  <2> QED BY <2>2, <2>4, <2>5
<1> QED
  BY <1>a, <1>b, <1>c, <1>d, <1>e, <1>f, <1>g, <1>h, <1>i, <1>j, <1>k, <1>l, <1>m, <1>n DEF BridgeNext

(* Issuing: a call that has not finished has handed out nothing, what is    *)
(* handed out carries the jti of its call, and a session bears the id of an *)
(* exchange.                                                                *)
IssueRecord == [pc : {"idle", "done"}] \cup [pc : {"make"}, subject : Subjects] \cup [pc : {"sign"}, subject : Subjects, kid : Nat]

MintInv ==
  /\ keys \in Nat /\ issue \in [IssueCalls -> IssueRecord]
  /\ \A a \in minted : a.jti \in IssueCalls /\ issue[a.jti].pc = "done"
  /\ \A s \in sessions : s.id \in ExchangeCalls

LEMMA MintNextInv == BridgeInv /\ MintInv /\ [BridgeNext]_bridgeVars => MintInv'
<1> SUFFICES ASSUME BridgeInv, MintInv, [BridgeNext]_bridgeVars PROVE MintInv'
  OBVIOUS
<1> USE DEF MintInv
<1>0. ASSUME UNCHANGED <<keys, issue, minted, sessions>> PROVE MintInv'
  BY <1>0 DEF IssueRecord
<1>a. CASE UNCHANGED bridgeVars
  BY <1>0, <1>a DEF bridgeVars
<1>b. CASE WindowPasses
  BY <1>0, <1>b DEF WindowPasses, KeepDigi, KeepTables
<1>c. ASSUME NEW c \in IssueCalls, NEW s \in Subjects, StartIssue(c, s) \/ RefuseIssue(c, s) PROVE MintInv'
  <2>1. issue[c].pc = "idle" /\ UNCHANGED <<keys, minted, sessions>>
    BY <1>c DEF StartIssue, RefuseIssue, KeepDigi, KeepTables
  <2>2. PICK r \in IssueRecord : issue' = [issue EXCEPT ![c] = r]
    BY <1>c DEF StartIssue, RefuseIssue, IssueRecord
  <2>3. issue' \in [IssueCalls -> IssueRecord] /\ \A d \in IssueCalls \ {c} : issue'[d] = issue[d]
    BY <2>2
  <2>4. \A a \in minted : a.jti # c
    BY <2>1
  <2> QED BY <2>1, <2>3, <2>4
<1>d. ASSUME NEW c \in IssueCalls, MakeKey(c) PROVE MintInv'
  <2>1. issue[c].pc = "make" /\ issue[c].subject \in Subjects
    BY <1>d DEF MakeKey, IssueRecord
  <2>2. /\ keys' = keys + 1 /\ UNCHANGED <<minted, sessions>>
        /\ issue' = [issue EXCEPT ![c] = [pc |-> "sign", subject |-> issue[c].subject, kid |-> keys + 1]]
    BY <1>d DEF MakeKey, KeepDigi, KeepTables
  <2>3. issue' \in [IssueCalls -> IssueRecord] /\ \A d \in IssueCalls \ {c} : issue'[d] = issue[d]
    BY <2>1, <2>2 DEF IssueRecord
  <2>4. \A a \in minted : a.jti # c
    BY <2>1
  <2> QED BY <2>2, <2>3, <2>4
<1>e. ASSUME NEW c \in IssueCalls, Mint(c) PROVE MintInv'
  <2> DEFINE new == [jti |-> c, subject |-> issue[c].subject, kid |-> issue[c].kid]
  <2>1. /\ minted' = minted \cup {new} /\ UNCHANGED <<keys, sessions>>
        /\ issue' = [issue EXCEPT ![c] = [pc |-> "done"]]
    BY <1>e DEF Mint, KeepDigi, KeepTables
  <2>2. /\ issue' \in [IssueCalls -> IssueRecord] /\ issue'[c].pc = "done"
        /\ \A d \in IssueCalls \ {c} : issue'[d] = issue[d]
    BY <2>1 DEF IssueRecord
  <2> QED BY <2>1, <2>2
<1>f. ASSUME NEW a \in minted, AssertionLapses(a) PROVE MintInv'
  BY <1>0, <1>f DEF AssertionLapses, KeepIssue, KeepDigi, KeepTables
<1>g. ASSUME NEW s \in sessions, SessionEnds(s) PROVE MintInv'
  BY <1>0, <1>g DEF SessionEnds, KeepIssue, KeepTables
<1>h. ASSUME NEW c \in ExchangeCalls, NEW a \in minted, StartExchange(c, a) PROVE MintInv'
  BY <1>0, <1>h DEF StartExchange, KeepIssue, KeepTables
<1>i. ASSUME NEW c \in ExchangeCalls,
             \/ FetchKeys(c) \/ Verify(c) \/ TryConsume(c) \/ ResolveOrCreate(c) \/ CreateRpSession(c) \/ Rollback(c)
      PROVE  MintInv'
  BY <1>0, <1>i DEF FetchKeys, Verify, TryConsume, ResolveOrCreate, CreateRpSession, Rollback, KeepIssue, KeepTables
<1>j. ASSUME NEW c \in ExchangeCalls, Commit(c) PROVE MintInv'
  <2>1. /\ sessions' = sessions \cup {[id |-> c, owner |-> exchange[c].owner, jti |-> exchange[c].a.jti]}
        /\ UNCHANGED <<keys, issue, minted>>
    BY <1>j DEF Commit, KeepIssue
  <2> QED BY <2>1 DEF IssueRecord
<1> QED
  BY <1>a, <1>b, <1>c, <1>d, <1>e, <1>f, <1>g, <1>h, <1>i, <1>j DEF BridgeNext

(* However many exchanges of however many assertions run at once, and       *)
(* whichever of them roll back: a spent assertion gave one session, of the  *)
(* owner of its subject, and a subject has one owner.  The rows an open     *)
(* transaction of commitExchange holds keep the others from its assertion   *)
(* and its subject.  Seen from outside, an assertion is a one-time ticket:  *)
(* Mint issues it, the commit of one exchange takes it, and everything      *)
(* else, a rollback above all, leaves it as it was.                         *)
THEOREM SpentForOneSessionHolds == BridgeSpec => SpentForOneSession
<1> DEFINE opened == {a.jti : a \in minted} \ spent
           takers == [k \in IssueCalls |-> {s.id : s \in {t \in sessions : t.jti = k}}]
<1>1. BridgeInit => MintInv
  BY DEF BridgeInit, MintInv, IssueRecord
<1>2. BridgeSpec => [](BridgeInv /\ MintInv)
  BY <1>1, BridgeInitInv, BridgeNextInv, MintNextInv, PTL DEF BridgeSpec
<1>3. BridgeInv => OneSessionEach
  BY DEF BridgeInv
<1>4. BridgeInit => Assertion!TicketInit
  BY DEF BridgeInit, Assertion!TicketInit
<1>5. ASSUME BridgeInv, MintInv, [BridgeNext]_bridgeVars PROVE [Assertion!TicketNext]_<<opened, takers>>
  <2> USE <1>5 DEF BridgeInv
  <2>0. ASSUME UNCHANGED <<minted, spent, sessions>> PROVE UNCHANGED <<opened, takers>>
    BY <2>0
  <2>1. ASSUME NEW c \in IssueCalls, Mint(c) PROVE [Assertion!TicketNext]_<<opened, takers>>
    <3> DEFINE new == [jti |-> c, subject |-> issue[c].subject, kid |-> issue[c].kid]
    <3>1. minted' = minted \cup {new} /\ issue[c].pc = "sign" /\ UNCHANGED <<spent, sessions>>
      BY <2>1 DEF Mint, KeepDigi, KeepTables
    <3>2. \A a \in minted : a.jti # c
      BY <3>1 DEF MintInv
    <3>3. \A s \in sessions : s.jti # c
      BY <3>2 DEF OneSessionEach
    <3>4. c \notin spent
      BY <3>3 DEF OneSessionEach
    <3>5. c \notin opened /\ opened' = opened \cup {c}
      <4>1. new.jti = c
        OBVIOUS
      <4> HIDE DEF new
      <4> QED BY <3>1, <3>2, <3>4, <4>1
    <3>6. takers[c] = {} /\ UNCHANGED takers
      BY <3>1, <3>3
    <3> QED BY <3>5, <3>6 DEF Assertion!TicketNext, Assertion!Issue
  <2>2. ASSUME NEW c \in ExchangeCalls, Commit(c) PROVE [Assertion!TicketNext]_<<opened, takers>>
    <3> DEFINE k == exchange[c].a.jti
               session == [id |-> c, owner |-> exchange[c].owner, jti |-> k]
    <3>1. /\ exchange[c].pc = "commit" /\ exchange[c].a \in minted
          /\ spent' = spent \cup {k} /\ sessions' = sessions \cup {session} /\ UNCHANGED minted
      BY <2>2 DEF Commit, KeepIssue, ExchangeRecord
    <3>2. k \in IssueCalls /\ k \notin spent
      BY <3>1 DEF MintInv, LocksInv, InTransaction
    <3>3. k \in opened /\ opened' = opened \ {k}
      BY <3>1, <3>2
    <3>4. \A s \in sessions : s.jti # k
      BY <3>2 DEF OneSessionEach
    <3>5. takers' = [takers EXCEPT ![k] = {c}]
      <4>1. session.id = c /\ session.jti = k
        OBVIOUS
      <4> HIDE DEF session, k
      <4>2. {s.id : s \in {t \in sessions' : t.jti = k}} = {c}
        BY <3>1, <3>4, <4>1
      <4>3. ASSUME NEW j \in IssueCalls, j # k
            PROVE  {s.id : s \in {t \in sessions' : t.jti = j}} = {s.id : s \in {t \in sessions : t.jti = j}}
        BY <3>1, <4>1, <4>3
      <4> QED BY <3>2, <4>2, <4>3
    <3> QED BY <3>2, <3>3, <3>5 DEF Assertion!TicketNext, Assertion!Take
  <2>3. ASSUME UNCHANGED bridgeVars PROVE UNCHANGED <<opened, takers>>
    BY <2>0, <2>3 DEF bridgeVars
  <2>4. ASSUME WindowPasses PROVE UNCHANGED <<opened, takers>>
    BY <2>0, <2>4 DEF WindowPasses, KeepDigi, KeepTables
  <2>5. ASSUME NEW c \in IssueCalls, NEW s \in Subjects, StartIssue(c, s) \/ RefuseIssue(c, s)
        PROVE  UNCHANGED <<opened, takers>>
    BY <2>0, <2>5 DEF StartIssue, RefuseIssue, KeepDigi, KeepTables
  <2>m. ASSUME NEW c \in IssueCalls, MakeKey(c) PROVE UNCHANGED <<opened, takers>>
    BY <2>0, <2>m DEF MakeKey, KeepDigi, KeepTables
  <2>6. ASSUME NEW a \in minted, AssertionLapses(a) PROVE UNCHANGED <<opened, takers>>
    BY <2>0, <2>6 DEF AssertionLapses, KeepIssue, KeepDigi, KeepTables
  <2>7. ASSUME NEW s \in sessions, SessionEnds(s) PROVE UNCHANGED <<opened, takers>>
    BY <2>0, <2>7 DEF SessionEnds, KeepIssue, KeepTables
  <2>8. ASSUME NEW c \in ExchangeCalls, NEW a \in minted, StartExchange(c, a) PROVE UNCHANGED <<opened, takers>>
    BY <2>0, <2>8 DEF StartExchange, KeepIssue, KeepTables
  <2>9. ASSUME NEW c \in ExchangeCalls,
               \/ FetchKeys(c) \/ Verify(c) \/ TryConsume(c) \/ ResolveOrCreate(c) \/ CreateRpSession(c) \/ Rollback(c)
        PROVE  UNCHANGED <<opened, takers>>
    BY <2>0, <2>9 DEF FetchKeys, Verify, TryConsume, ResolveOrCreate, CreateRpSession, Rollback, KeepIssue, KeepTables
  <2> QED
    BY <1>5, <2>1, <2>2, <2>3, <2>4, <2>5, <2>m, <2>6, <2>7, <2>8, <2>9 DEF BridgeNext
<1>6. BridgeSpec => OneSessionEach /\ [][OneSessionEach']_bridgeVars
  BY <1>2, <1>3, PTL
<1> QED
  BY <1>2, <1>4, <1>5, <1>6, PTL DEF BridgeSpec, SpentForOneSession, Assertion!TicketSpec

-----------------------------------------------------------------------------
(* Face capture: one camera slot *)

(* The steps of a call that has taken the slot, and those in which its      *)
(* stream may be live.                                                      *)
Filmable == {"opening", "models", "frame", "detecting", "embedding", "blink", "collect", "aggregate"}
Owning == Filmable \cup {"requesting", "failing"}

CaptureRecord ==
  [pc : {"unused", "acquire", "waiting", "done"} \cup Owning, op : {"scan", "enrol"},
   previous : Captures \cup {NoCamera}, aborted : BOOLEAN,
   stream : {"none", "pending", "live", "stopped"}, kept : Nat, best : BOOLEAN,
   answer : {"none", "face", "failure"}]

(* A scan that was aborted films no more; an end wipes the frames.          *)
CaptureOK(r) ==
  /\ r.stream = "live" => r.pc \in Filmable /\ (r.op = "scan" => ~r.aborted)
  /\ r.pc = "done" => r.kept = 0

(* Who took the slot is in it, or was pushed out of it: unaborted, or       *)
(* aborted and not waited for.                                              *)
SlotInv ==
  /\ activeCamera # NoCamera => activeCamera \in Captures /\ capture[activeCamera].pc \in Owning
  /\ \A c \in Captures : capture[c].pc \in Owning => activeCamera = c \/ c \in orphaned \cup impatient
  /\ \A c \in Captures : capture[c].pc = "waiting" =>
       capture[c].previous \in Captures /\ capture[capture[c].previous].aborted
  /\ \A c \in impatient : c \in Captures => capture[c].aborted

CameraInv ==
  /\ capture \in [Captures -> CaptureRecord]
  /\ \A c \in Captures : CaptureOK(capture[c])
  /\ SlotInv

LEMMA CapInitInv == CapInit => CameraInv
<1> SUFFICES ASSUME CapInit PROVE CameraInv
  OBVIOUS
<1>1. UnusedCapture \in CaptureRecord /\ CaptureOK(UnusedCapture) /\ UnusedCapture.pc = "unused"
  BY DEF UnusedCapture, CaptureRecord, CaptureOK
<1> QED BY <1>1 DEF CapInit, CameraInv, SlotInv, Owning, Filmable

(* A step of one call that leaves the slot as it is.                        *)
LEMMA CaptureGoesOn ==
  ASSUME CameraInv, NEW c \in Captures, NEW r \in CaptureRecord, CaptureOK(r),
         capture' = [capture EXCEPT ![c] = r], UNCHANGED <<activeCamera, orphaned, impatient>>,
         capture[c].aborted => r.aborted, capture[c].pc \in Owning <=> r.pc \in Owning,
         r.pc = "waiting" => capture[c].pc = "waiting" /\ r.previous = capture[c].previous
  PROVE  CameraInv'
<1>1. /\ capture' \in [Captures -> CaptureRecord] /\ capture'[c] = r
      /\ \A d \in Captures \ {c} : capture'[d] = capture[d]
  BY DEF CameraInv
<1>2. \A d \in Captures : CaptureOK(capture[d])'
  BY <1>1 DEF CameraInv, CaptureOK
<1>3. \A d \in Captures : capture[d].aborted => capture'[d].aborted
  BY <1>1
<1>4. SlotInv'
  BY <1>1, <1>3 DEF CameraInv, SlotInv
<1> QED BY <1>1, <1>2, <1>4 DEF CameraInv

(* The finally block.                                                       *)
LEMMA CaptureEnds ==
  ASSUME CameraInv, NEW c \in Captures, capture[c].pc \in Owning,
         NEW answer \in {"face", "failure"}, EndCapture(c, answer)
  PROVE  CameraInv'
<1> DEFINE r == Ended(capture[c], answer)
<1>1. capture[c] \in CaptureRecord
  BY DEF CameraInv
<1>2. /\ r \in CaptureRecord /\ r.pc = "done" /\ r.kept = 0 /\ r.stream # "live"
      /\ r.aborted = capture[c].aborted
  <2>1. PICK stream \in {"none", "pending", "stopped"} :
          r = [capture[c] EXCEPT !.pc = "done", !.kept = 0, !.best = FALSE, !.answer = answer,
                                 !.previous = NoCamera, !.stream = stream]
    BY <1>1 DEF CaptureRecord, Ended
  <2> HIDE DEF r
  <2>2. stream # "live" /\ stream \in {"none", "pending", "live", "stopped"}
    OBVIOUS
  <2>3. r \in CaptureRecord
    BY <1>1, <2>1, <2>2 DEF CaptureRecord
  <2> QED BY <1>1, <2>1, <2>2, <2>3 DEF CaptureRecord
<1>3. /\ capture' = [capture EXCEPT ![c] = r] /\ UNCHANGED <<orphaned, impatient>>
      /\ activeCamera' = IF activeCamera = c THEN NoCamera ELSE activeCamera
  BY DEF EndCapture
<1> HIDE DEF r
<1>4. /\ capture' \in [Captures -> CaptureRecord] /\ capture'[c] = r
      /\ \A d \in Captures \ {c} : capture'[d] = capture[d]
  BY <1>2, <1>3 DEF CameraInv
<1>5. \A d \in Captures : CaptureOK(capture[d])'
  BY <1>2, <1>4 DEF CameraInv, CaptureOK
<1>6. \A d \in Captures : capture[d].aborted => capture'[d].aborted
  BY <1>2, <1>4
<1>7. r.pc \notin Owning /\ r.pc # "waiting"
  BY <1>2 DEF Owning, Filmable
<1>8. SlotInv'
  BY <1>3, <1>4, <1>6, <1>7 DEF CameraInv, SlotInv
<1> QED BY <1>4, <1>5, <1>8 DEF CameraInv

LEMMA CapNextInv == ASSUME CameraInv, [CapNext]_captureVars PROVE CameraInv'
<1>0. CASE UNCHANGED captureVars
  BY <1>0 DEF captureVars, CameraInv, CaptureOK, SlotInv
<1> SUFFICES ASSUME NEW c \in Captures,
      \/ \E op \in {"scan", "enrol"} : StartCapture(c, op)
      \/ CallerAborts(c) \/ AcquireCamera(c) \/ TakeSlot(c)
      \/ StreamGranted(c) \/ StreamRefused(c) \/ LateStream(c)
      \/ VideoReady(c) \/ ModelsReady(c) \/ OpeningFails(c) \/ Unwind(c)
      \/ FrameArrives(c) \/ ScanEnds(c) \/ FrameRejected(c) \/ FrameAccepted(c)
      \/ Embedded(c) \/ ScanFails(c)
      \/ BlinkSeen(c) \/ NoBlink(c) \/ CollectFrame(c) \/ Collected(c) \/ Aggregated(c)
    PROVE CameraInv'
  BY <1>0 DEF CapNext
<1>a. capture[c] \in CaptureRecord /\ CaptureOK(capture[c]) /\ capture \in [Captures -> CaptureRecord]
  BY DEF CameraInv
<1> USE DEF CapAt, KeepSlot
(* Ends.                                                                    *)
<1>1. ASSUME NEW answer \in {"face", "failure"}, capture[c].pc \in Owning, EndCapture(c, answer) PROVE CameraInv'
  BY <1>1, CaptureEnds
<1>2. CASE OpeningFails(c) \/ Unwind(c) \/ ScanEnds(c) \/ ScanFails(c) \/ NoBlink(c) \/ Aggregated(c)
  BY <1>1, <1>2 DEF OpeningFails, Unwind, ScanEnds, ScanFails, NoBlink, Aggregated, Owning, Filmable
(* Steps that leave the slot alone.                                         *)
<1>3. ASSUME NEW r \in CaptureRecord, CaptureOK(r), capture' = [capture EXCEPT ![c] = r],
             UNCHANGED <<activeCamera, orphaned, impatient>>,
             capture[c].aborted => r.aborted, capture[c].pc \in Owning <=> r.pc \in Owning,
             r.pc = "waiting" => capture[c].pc = "waiting" /\ r.previous = capture[c].previous
      PROVE  CameraInv'
  BY <1>3, CaptureGoesOn
<1>4. CASE \E op \in {"scan", "enrol"} : StartCapture(c, op)
  <2>1. PICK op \in {"scan", "enrol"} : StartCapture(c, op)
    BY <1>4
  <2> DEFINE r == [capture[c] EXCEPT !.pc = "acquire", !.op = op]
  <2>2. /\ capture' = [capture EXCEPT ![c] = r] /\ capture[c].pc = "unused"
        /\ UNCHANGED <<activeCamera, orphaned, impatient>>
    BY <2>1 DEF StartCapture
  <2>3. /\ r \in CaptureRecord /\ r.pc = "acquire" /\ r.aborted = capture[c].aborted /\ r.stream = capture[c].stream
    BY <1>a DEF CaptureRecord
  <2> HIDE DEF r
  <2>4. CaptureOK(r) /\ r.pc \notin Owning /\ capture[c].pc \notin Owning
    BY <1>a, <2>2, <2>3 DEF CaptureOK, Owning, Filmable
  <2> QED BY <1>3, <2>2, <2>3, <2>4
<1>5. CASE CallerAborts(c)
  <2> DEFINE r == Aborting(capture[c])
  <2>1. /\ capture' = [capture EXCEPT ![c] = r] /\ UNCHANGED <<activeCamera, orphaned, impatient>>
    BY <1>5 DEF CallerAborts
  <2>2. /\ r \in CaptureRecord /\ r.aborted /\ r.pc = capture[c].pc /\ r.op = capture[c].op
        /\ r.previous = capture[c].previous /\ r.kept = capture[c].kept
        /\ r.stream = "live" => r.op # "scan" /\ capture[c].stream = "live"
    BY <1>a DEF CaptureRecord, Aborting
  <2> HIDE DEF r
  <2>3. CaptureOK(r)
    BY <1>a, <2>2 DEF CaptureOK
  <2> QED BY <1>3, <2>1, <2>2, <2>3
<1>6. CASE StreamGranted(c)
  <2> DEFINE r == [capture[c] EXCEPT !.pc = "opening", !.stream = "live"]
  <2>1. /\ capture' = [capture EXCEPT ![c] = r] /\ UNCHANGED <<activeCamera, orphaned, impatient>>
        /\ capture[c].pc = "requesting" /\ ~capture[c].aborted
    BY <1>6 DEF StreamGranted
  <2>2. r \in CaptureRecord /\ r.pc = "opening" /\ r.aborted = capture[c].aborted
    BY <1>a DEF CaptureRecord, Owning, Filmable
  <2> HIDE DEF r
  <2> QED BY <1>3, <2>1, <2>2 DEF CaptureOK, Owning, Filmable
<1>7. CASE StreamRefused(c)
  <2> DEFINE r == [capture[c] EXCEPT !.pc = "failing", !.stream = "none"]
  <2>1. /\ capture' = [capture EXCEPT ![c] = r] /\ UNCHANGED <<activeCamera, orphaned, impatient>>
        /\ capture[c].pc = "requesting"
    BY <1>7 DEF StreamRefused
  <2>2. r \in CaptureRecord /\ r.pc = "failing" /\ r.aborted = capture[c].aborted /\ r.stream = "none"
    BY <1>a DEF CaptureRecord, Owning, Filmable
  <2> HIDE DEF r
  <2> QED BY <1>3, <2>1, <2>2 DEF CaptureOK, Owning, Filmable
<1>8. CASE LateStream(c)
  <2> DEFINE r == [capture[c] EXCEPT !.stream = "stopped"]
  <2>1. /\ capture' = [capture EXCEPT ![c] = r] /\ UNCHANGED <<activeCamera, orphaned, impatient>>
    BY <1>8 DEF LateStream
  <2>2. /\ r \in CaptureRecord /\ r.pc = capture[c].pc /\ r.aborted = capture[c].aborted /\ r.kept = capture[c].kept
        /\ r.stream = "stopped" /\ r.previous = capture[c].previous
    BY <1>a DEF CaptureRecord
  <2> HIDE DEF r
  <2>3. CaptureOK(r)
    BY <1>a, <2>2 DEF CaptureOK
  <2> QED BY <1>3, <2>1, <2>2, <2>3
(* The loop and the enrolment.                                              *)
<1>9. ASSUME NEW r, capture[c].pc \in Filmable, capture' = [capture EXCEPT ![c] = r],
             UNCHANGED <<activeCamera, orphaned, impatient>>,
             r \in CaptureRecord, r.pc \in Filmable,
             r.aborted = capture[c].aborted, r.op = capture[c].op, r.stream = capture[c].stream
      PROVE  CameraInv'
  <2>1. r.pc \in Owning /\ r.pc # "done" /\ r.pc # "waiting" /\ capture[c].pc \in Owning
    BY <1>9 DEF Owning, Filmable
  <2> QED BY <1>3, <1>9, <1>a, <2>1 DEF CaptureOK
<1>10. CASE VideoReady(c) \/ ModelsReady(c) \/ FrameArrives(c) \/ FrameRejected(c) \/ FrameAccepted(c)
            \/ BlinkSeen(c) \/ CollectFrame(c) \/ Collected(c)
  <2>1. capture[c].pc \in Filmable /\ UNCHANGED <<activeCamera, orphaned, impatient>>
    BY <1>10 DEF VideoReady, ModelsReady, FrameArrives, FrameRejected, FrameAccepted, BlinkSeen, CollectFrame, Collected,
                 Filmable
  <2>2. CASE VideoReady(c) \/ ModelsReady(c) \/ FrameAccepted(c) \/ Collected(c)
    <3>1. PICK pc \in Filmable : capture' = [capture EXCEPT ![c] = [capture[c] EXCEPT !.pc = pc]]
      BY <1>a, <2>2 DEF VideoReady, ModelsReady, FrameAccepted, Collected, CapGoto, Filmable
    <3> DEFINE r == [capture[c] EXCEPT !.pc = pc]
    <3>2. /\ r \in CaptureRecord /\ r.pc = pc /\ r.aborted = capture[c].aborted /\ r.stream = capture[c].stream
          /\ r.op = capture[c].op
      BY <1>a DEF CaptureRecord, Owning
    <3> HIDE DEF r
    <3>3. capture' = [capture EXCEPT ![c] = r]
      BY <3>1 DEF r
    <3> QED BY <1>9, <2>1, <3>2, <3>3
  <2>3. CASE FrameArrives(c) \/ FrameRejected(c) \/ BlinkSeen(c)
    <3>1. PICK pc \in Filmable, kept \in {0, 1} :
            capture' = [capture EXCEPT ![c] = [capture[c] EXCEPT !.pc = pc, !.kept = kept]]
      BY <2>3 DEF FrameArrives, FrameRejected, BlinkSeen, Filmable
    <3> DEFINE r == [capture[c] EXCEPT !.pc = pc, !.kept = kept]
    <3>0. kept \in Nat
      OBVIOUS
    <3>2. /\ r \in CaptureRecord /\ r.pc = pc /\ r.aborted = capture[c].aborted /\ r.stream = capture[c].stream
          /\ r.op = capture[c].op
      BY <1>a, <3>0 DEF CaptureRecord, Owning
    <3> HIDE DEF r
    <3>3. capture' = [capture EXCEPT ![c] = r]
      BY <3>1 DEF r
    <3> QED BY <1>9, <2>1, <3>2, <3>3
  <2>4. CASE CollectFrame(c)
    <3> DEFINE r == [capture[c] EXCEPT !.kept = capture[c].kept + 1]
    <3>1. capture' = [capture EXCEPT ![c] = r]
      BY <1>a, <2>4 DEF CollectFrame
    <3>2. /\ r \in CaptureRecord /\ r.pc = capture[c].pc /\ r.aborted = capture[c].aborted
          /\ r.stream = capture[c].stream /\ r.op = capture[c].op
      BY <1>a DEF CaptureRecord
    <3> HIDE DEF r
    <3> QED BY <1>9, <2>1, <3>1, <3>2
  <2> QED BY <1>10, <2>2, <2>3, <2>4
<1>11. CASE Embedded(c)
  <2>1. CASE EndCapture(c, "face")
    BY <1>1, <1>11, <2>1 DEF Embedded, Owning, Filmable
  <2>2. CASE ~EndCapture(c, "face")
    <3> DEFINE r == [capture[c] EXCEPT !.pc = "frame", !.kept = 0, !.best = TRUE]
    <3>1. /\ capture' = [capture EXCEPT ![c] = r] /\ capture[c].pc = "embedding"
          /\ UNCHANGED <<activeCamera, orphaned, impatient>>
      BY <1>11, <2>2 DEF Embedded
    <3>2. /\ r \in CaptureRecord /\ r.pc = "frame" /\ r.aborted = capture[c].aborted
          /\ r.stream = capture[c].stream /\ r.op = capture[c].op
      BY <1>a DEF CaptureRecord, Owning, Filmable
    <3> HIDE DEF r
    <3>3. capture[c].pc \in Filmable /\ r.pc \in Filmable
      BY <3>1, <3>2 DEF Filmable
    <3> QED BY <1>9, <3>1, <3>2, <3>3
  <2> QED BY <2>1, <2>2
(* The slot changes hands.                                                  *)
<1>12. CASE AcquireCamera(c)
  <2>1. UNCHANGED <<orphaned, impatient>> /\ capture[c].pc = "acquire"
    BY <1>12 DEF AcquireCamera
  <2>2. CASE activeCamera = NoCamera
    <3> DEFINE r == [capture[c] EXCEPT !.pc = "requesting", !.stream = "pending"]
    <3>1. capture' = [capture EXCEPT ![c] = r] /\ activeCamera' = c
      BY <1>12, <2>2 DEF AcquireCamera
    <3>2. r \in CaptureRecord /\ r.pc = "requesting" /\ r.stream = "pending" /\ r.aborted = capture[c].aborted
      BY <1>a DEF CaptureRecord, Owning
    <3> HIDE DEF r
    <3>3. /\ capture' \in [Captures -> CaptureRecord] /\ capture'[c] = r
          /\ \A d \in Captures \ {c} : capture'[d] = capture[d]
      BY <1>a, <3>1, <3>2
    <3>4. \A d \in Captures : CaptureOK(capture[d])'
      BY <3>2, <3>3 DEF CameraInv, CaptureOK
    <3>5. \A d \in Captures : capture'[d].aborted = capture[d].aborted
      BY <3>2, <3>3
    <3>6. SlotInv'
      BY <2>1, <2>2, <3>1, <3>2, <3>3, <3>5, CameraAssumption DEF CameraInv, SlotInv, Owning
    <3> QED BY <3>3, <3>4, <3>6 DEF CameraInv
  <2>3. CASE activeCamera # NoCamera
    <3> DEFINE r == [capture[c] EXCEPT !.pc = "waiting", !.previous = activeCamera]
    <3> DEFINE a == Aborting(capture[activeCamera])
    <3>1. activeCamera \in Captures /\ activeCamera # c
      BY <2>1, <2>3 DEF CameraInv, SlotInv, Owning, Filmable
    <3>2. capture' = [capture EXCEPT ![c] = r, ![activeCamera] = a] /\ UNCHANGED activeCamera
      BY <1>12, <1>a, <2>3, <3>1 DEF AcquireCamera
    <3>3. /\ r \in CaptureRecord /\ r.pc = "waiting" /\ r.aborted = capture[c].aborted
          /\ r.previous = activeCamera /\ r.stream = capture[c].stream
      BY <1>a, <3>1 DEF CaptureRecord
    <3>4. /\ a \in CaptureRecord /\ a.aborted /\ a.pc = capture[activeCamera].pc /\ a.op = capture[activeCamera].op
          /\ a.kept = capture[activeCamera].kept /\ a.previous = capture[activeCamera].previous
          /\ a.stream = "live" => a.op # "scan" /\ capture[activeCamera].stream = "live"
      <4>1. capture[activeCamera] \in CaptureRecord
        BY <1>a, <3>1
      <4> QED BY <4>1 DEF CaptureRecord, Aborting
    <3> HIDE DEF r, a
    <3>5. /\ capture' \in [Captures -> CaptureRecord] /\ capture'[c] = r /\ capture'[activeCamera] = a
          /\ \A d \in Captures \ {c, activeCamera} : capture'[d] = capture[d]
      BY <1>a, <3>1, <3>2, <3>3, <3>4
    <3>6. \A d \in Captures : CaptureOK(capture[d])'
      <4>1. CaptureOK(capture[activeCamera])
        BY <3>1 DEF CameraInv
      <4>2. CaptureOK(a) /\ CaptureOK(r)
        BY <1>a, <2>1, <3>3, <3>4, <4>1 DEF CaptureOK, Filmable
      <4>3. \A d \in Captures \ {c, activeCamera} : CaptureOK(capture[d])'
        BY <3>5 DEF CameraInv, CaptureOK
      <4> QED BY <3>1, <3>5, <4>2, <4>3 DEF CaptureOK
    <3>7. \A d \in Captures : capture[d].aborted => capture'[d].aborted
      BY <3>1, <3>3, <3>4, <3>5
    <3>8. SlotInv'
      <4>1. activeCamera' = activeCamera /\ capture'[activeCamera].pc \in Owning
        BY <2>3, <3>1, <3>2, <3>4, <3>5 DEF CameraInv, SlotInv
      <4>2. \A d \in Captures : capture'[d].pc \in Owning => capture[d].pc \in Owning
        BY <3>1, <3>3, <3>4, <3>5 DEF Owning, Filmable
      <4>3. ASSUME NEW d \in Captures, capture'[d].pc = "waiting"
            PROVE  capture'[d].previous \in Captures /\ capture'[capture'[d].previous].aborted
        <5>1. CASE d = c
          BY <3>1, <3>3, <3>4, <3>5, <5>1
        <5>2. CASE d = activeCamera
          BY <2>3, <3>1, <3>4, <3>5, <4>3, <5>2 DEF CameraInv, SlotInv, Owning, Filmable
        <5>3. CASE d \notin {c, activeCamera}
          BY <3>5, <3>7, <4>3, <5>3 DEF CameraInv, SlotInv
        <5> QED BY <5>1, <5>2, <5>3
      <4> QED BY <2>1, <2>3, <3>1, <3>7, <4>1, <4>2, <4>3 DEF CameraInv, SlotInv
    <3> QED BY <3>5, <3>6, <3>8 DEF CameraInv
  <2> QED BY <2>2, <2>3
<1>13. CASE TakeSlot(c)
  <2> DEFINE r == [capture[c] EXCEPT !.pc = "requesting", !.stream = "pending", !.previous = NoCamera]
  <2> DEFINE previous == capture[c].previous
  <2>1. /\ capture[c].pc = "waiting" /\ capture' = [capture EXCEPT ![c] = r] /\ activeCamera' = c
        /\ orphaned' = orphaned \cup ({activeCamera} \ {NoCamera, previous})
        /\ impatient' = IF capture[previous].pc = "done" THEN impatient ELSE impatient \cup {previous}
    BY <1>13 DEF TakeSlot
  <2>2. r \in CaptureRecord /\ r.pc = "requesting" /\ r.stream = "pending" /\ r.aborted = capture[c].aborted
    BY <1>a DEF CaptureRecord, Owning
  <2>3. previous \in Captures /\ capture[previous].aborted
    BY <2>1 DEF CameraInv, SlotInv
  <2> HIDE DEF r, previous
  <2>4. /\ capture' \in [Captures -> CaptureRecord] /\ capture'[c] = r
        /\ \A d \in Captures \ {c} : capture'[d] = capture[d]
    BY <1>a, <2>1, <2>2
  <2>5. \A d \in Captures : CaptureOK(capture[d])'
    BY <2>2, <2>4 DEF CameraInv, CaptureOK
  <2>6. \A d \in Captures : capture'[d].aborted = capture[d].aborted
    BY <2>2, <2>4
  <2>7. SlotInv'
    <3>1. activeCamera' = c /\ capture'[c].pc \in Owning
      BY <2>1, <2>2, <2>4 DEF Owning
    <3>2. ASSUME NEW d \in Captures \ {c}, capture[d].pc \in Owning PROVE d \in orphaned' \cup impatient'
      <4>1. CASE activeCamera = d
        <5>1. d # NoCamera /\ capture[d].pc # "done"
          BY <3>2, CameraAssumption DEF Owning, Filmable
        <5> QED BY <2>1, <4>1, <5>1
      <4>2. CASE activeCamera # d
        BY <2>1, <3>2, <4>2 DEF CameraInv, SlotInv
      <4> QED BY <4>1, <4>2
    <3>3. \A d \in Captures : capture'[d].pc = "waiting" =>
            capture'[d].previous \in Captures /\ capture'[capture'[d].previous].aborted
      BY <2>2, <2>4, <2>6 DEF CameraInv, SlotInv
    <3>4. \A d \in impatient' : d \in Captures => capture'[d].aborted
      BY <2>1, <2>3, <2>6 DEF CameraInv, SlotInv
    <3> QED BY <2>4, <3>1, <3>2, <3>3, <3>4 DEF SlotInv
  <2> QED BY <2>4, <2>5, <2>7 DEF CameraInv
<1> QED BY <1>2, <1>4, <1>5, <1>6, <1>7, <1>8, <1>10, <1>11, <1>12, <1>13

(* Two captures film at once only when one was pushed out of the slot       *)
(* unaborted, or is an enrolment that nobody waited long enough for; an     *)
(* ended capture has stopped its stream, wiped its frames and left the      *)
(* slot: for any number of captures that start and are aborted at once.     *)
THEOREM CameraIsSharedHolds == CapSpec => []CameraIsShared
<1>1. CameraInv => CameraIsShared
  <2> SUFFICES ASSUME CameraInv PROVE CameraIsShared
    OBVIOUS
  <2>1. \A c \in Filming : c \in Captures /\ capture[c].pc \in Owning /\ (capture[c].op = "scan" => ~capture[c].aborted)
    BY DEF Filming, CameraInv, CaptureOK, Owning
  <2>2. \A c \in Captures : capture[c].op \in {"scan", "enrol"}
    BY DEF CameraInv, CaptureRecord
  <2>3. ASSUME NEW c \in Filming, activeCamera # c
        PROVE  c \in orphaned \/ (c \in impatient /\ capture[c].op = "enrol")
    BY <2>1, <2>2, <2>3 DEF CameraInv, SlotInv
  <2>4. \A c, d \in Filming : c # d => \E e \in {c, d} : e \in orphaned \/ (e \in impatient /\ capture[e].op = "enrol")
    BY <2>3
  <2>5. ASSUME NEW c \in Captures, CapAt(c, "done")
        PROVE  c \notin Filming /\ capture[c].kept = 0 /\ activeCamera # c
    BY <2>5, CameraAssumption DEF CapAt, Filming, CameraInv, SlotInv, CaptureOK, Owning, Filmable
  <2> QED BY <2>4, <2>5 DEF CameraIsShared
<1> QED BY <1>1, CapInitInv, CapNextInv, PTL DEF CapSpec

-----------------------------------------------------------------------------
(* Legacy challenges: the cap, one decision, one signer *)

LegacyRecord ==
  [pc : {"idle"}]
    \cup [op : {"issue"}, pc : {"count", "create"}]
    \cup [op : {"get", "approve", "verify"}, pc : {"check", "expire", "device", "decide"},
          x : LegacyIds, seen : {"none", "PENDING", "APPROVED", "EXPIRED"}, by : Masters]

LegacyTypeOK ==
  /\ legacy \in [LegacyIds -> {"none", "PENDING", "APPROVED", "EXPIRED"}]
  /\ legacyCall \in [LegacyCalls -> LegacyRecord]
  /\ elapsed \subseteq LegacyIds /\ issuePeak \in Nat

Issuing == {o \in LegacyCalls : LBusy(o) /\ legacyCall[o].op = "issue"}
CreatingNow == {o \in LegacyCalls : legacyCall[o].pc = "create"}

(* Each issue call that counted beside others may still add a challenge.    *)
CapInv ==
  /\ IsFiniteSet(PendingNow)
  /\ Cardinality(Issuing) <= issuePeak
  /\ Cardinality(PendingNow) + Cardinality(CreatingNow) <= MaxPending - 1 + issuePeak

(* A call that takes a challenge for open although it was approved finds it *)
(* elapsed only if it was slow.                                             *)
SlowInv ==
  \A c \in LegacyCalls :
    /\ legacyCall[c].pc \in {"check", "expire"} /\ legacyCall[c].seen = "PENDING" /\ legacyCall[c].x \in elapsed
       => legacy[legacyCall[c].x] # "APPROVED" \/ legacyCall[c].x \in slow
    /\ legacyCall[c].pc = "expire" => legacyCall[c].seen = "PENDING" /\ legacyCall[c].x \in elapsed
    /\ legacyCall[c].pc \in {"check", "expire", "device", "decide"} => legacy[legacyCall[c].x] # "none"

SignerInv ==
  \A c \in LegacyCalls : legacyCall[c].pc = "decide" => legacyCall[c].by = masterDevice \/ c \in rekeyed

LegacyInv == LegacyTypeOK /\ CapInv /\ SlowInv /\ SignerInv

LEMMA LegacyMoves ==
  ASSUME LegacyTypeOK, NEW c \in LegacyCalls, NEW pc, LGoto(c, pc),
         \/ pc = "idle"
         \/ legacyCall[c].pc = "count" /\ pc = "create"
         \/ legacyCall[c].pc \in {"check", "device"} /\ pc \in {"expire", "device", "decide"}
  PROVE  /\ legacyCall' \in [LegacyCalls -> LegacyRecord] /\ legacyCall'[c].pc = pc
         /\ pc # "idle" => legacyCall'[c].op = legacyCall[c].op
         /\ pc \in {"expire", "device", "decide"} =>
              /\ legacyCall'[c].x = legacyCall[c].x /\ legacyCall'[c].seen = legacyCall[c].seen
              /\ legacyCall'[c].by = legacyCall[c].by
         /\ \A d \in LegacyCalls \ {c} : legacyCall'[d] = legacyCall[d]
<1>1. legacyCall[c] \in LegacyRecord
  BY DEF LegacyTypeOK
<1>2. CASE pc = "idle"
  <2>1. legacyCall' = [legacyCall EXCEPT ![c] = [pc |-> "idle"]]
    BY <1>2 DEF LGoto
  <2>2. [pc |-> "idle"] \in LegacyRecord
    BY DEF LegacyRecord
  <2> QED BY <1>2, <2>1, <2>2 DEF LegacyTypeOK
<1>3. CASE pc # "idle"
  <2> DEFINE r == [legacyCall[c] EXCEPT !.pc = pc]
  <2>1. legacyCall' = [legacyCall EXCEPT ![c] = r]
    BY <1>3 DEF LGoto
  <2>2. CASE pc = "create"
    <3>1. r \in LegacyRecord /\ r.pc = pc /\ r.op = legacyCall[c].op
      BY <1>1, <2>2 DEF LegacyRecord
    <3> HIDE DEF r
    <3> QED BY <2>1, <2>2, <3>1 DEF LegacyTypeOK
  <2>3. CASE pc # "create"
    <3>1. /\ r \in LegacyRecord /\ r.pc = pc /\ r.op = legacyCall[c].op /\ r.x = legacyCall[c].x
          /\ r.seen = legacyCall[c].seen /\ r.by = legacyCall[c].by
      BY <1>1, <1>3, <2>3 DEF LegacyRecord
    <3> HIDE DEF r
    <3> QED BY <2>1, <2>3, <3>1 DEF LegacyTypeOK
  <2> QED BY <2>2, <2>3
<1> QED BY <1>2, <1>3

(* A step that adds no challenge and no issue call.                         *)
LEMMA CapStays ==
  ASSUME IsFiniteSet(LegacyCalls), CapInv, UNCHANGED issuePeak,
         issuePeak \in Nat,
         \A x \in LegacyIds : legacy'[x] = "PENDING" /\ x \notin elapsed' => legacy[x] = "PENDING" /\ x \notin elapsed,
         \A o \in LegacyCalls : legacyCall'[o].pc = "create" => legacyCall[o].pc = "create",
         \A o \in LegacyCalls : legacyCall'[o].pc # "idle" /\ legacyCall'[o].op = "issue" =>
                                legacyCall[o].pc # "idle" /\ legacyCall[o].op = "issue"
  PROVE  CapInv'
<1>1. PendingNow' \in SUBSET PendingNow /\ CreatingNow' \in SUBSET CreatingNow /\ Issuing' \in SUBSET Issuing
  BY DEF PendingNow, CreatingNow, Issuing, LBusy
<1>2. CreatingNow \in SUBSET LegacyCalls /\ Issuing \in SUBSET LegacyCalls
  BY DEF CreatingNow, Issuing
<1>3. IsFiniteSet(PendingNow) /\ IsFiniteSet(CreatingNow) /\ IsFiniteSet(Issuing)
  BY <1>2, FS_Subset DEF CapInv
<1>4. /\ IsFiniteSet(PendingNow') /\ Cardinality(PendingNow') <= Cardinality(PendingNow)
      /\ IsFiniteSet(CreatingNow') /\ Cardinality(CreatingNow') <= Cardinality(CreatingNow)
      /\ IsFiniteSet(Issuing') /\ Cardinality(Issuing') <= Cardinality(Issuing)
  BY <1>1, <1>3, FS_Subset
<1>5. /\ Cardinality(PendingNow) \in Nat /\ Cardinality(PendingNow') \in Nat
      /\ Cardinality(CreatingNow) \in Nat /\ Cardinality(CreatingNow') \in Nat
      /\ Cardinality(Issuing) \in Nat /\ Cardinality(Issuing') \in Nat
  BY <1>3, <1>4, FS_CardinalityType
<1>6. /\ Cardinality(Issuing) <= issuePeak
      /\ Cardinality(PendingNow) + Cardinality(CreatingNow) <= MaxPending - 1 + issuePeak
  BY DEF CapInv
<1>7. /\ Cardinality(Issuing') <= issuePeak'
      /\ Cardinality(PendingNow') + Cardinality(CreatingNow') <= MaxPending - 1 + issuePeak'
  BY <1>4, <1>5, <1>6, LegacyAssumption
<1> QED BY <1>4, <1>7 DEF CapInv

LEMMA LegacyNextInv ==
  ASSUME IsFiniteSet(LegacyCalls), LegacyInv, [LegacyNext]_legacyVars
  PROVE  LegacyInv'
<1> USE DEF LegacyInv
<1>0. CASE UNCHANGED legacyVars
  BY <1>0 DEF legacyVars, LegacyTypeOK, CapInv, SlowInv, SignerInv, PendingNow, Issuing, CreatingNow, LBusy
<1>a. ASSUME NEW c \in LegacyCalls PROVE legacyCall[c] \in LegacyRecord
  BY <1>a DEF LegacyTypeOK
<1>1. ASSUME NEW x \in LegacyIds, ChallengeLapses(x) PROVE LegacyInv'
  <2>1. /\ elapsed' = elapsed \cup {x} /\ x \notin elapsed /\ UNCHANGED <<legacy, masterDevice, legacyCall, issuePeak, rekeyed>>
        /\ slow \subseteq slow'
        /\ \A c \in LegacyCalls : legacyCall[c].pc = "check" /\ legacyCall[c].x = x => x \in slow'
    BY <1>1 DEF ChallengeLapses
  <2>2. LegacyTypeOK'
    BY <2>1 DEF LegacyTypeOK
  <2>3. CapInv'
    BY <2>1, CapStays DEF LegacyTypeOK
  <2>4. SlowInv'
    BY <2>1 DEF SlowInv
  <2>5. SignerInv'
    BY <2>1 DEF SignerInv
  <2> QED BY <2>2, <2>3, <2>4, <2>5
<1>2. ASSUME NEW d \in Masters, MasterChanges(d) PROVE LegacyInv'
  <2>1. /\ UNCHANGED <<legacy, elapsed, legacyCall, issuePeak, slow>>
        /\ rekeyed' = {c \in LegacyCalls : legacyCall[c].pc = "decide"}
    BY <1>2 DEF MasterChanges
  <2>2. LegacyTypeOK'
    BY <2>1 DEF LegacyTypeOK
  <2>3. CapInv'
    BY <2>1, CapStays DEF LegacyTypeOK
  <2>4. SlowInv' /\ SignerInv'
    BY <2>1 DEF SlowInv, SignerInv
  <2> QED BY <2>2, <2>3, <2>4
<1>3. ASSUME NEW c \in LegacyCalls, StartLegacyIssue(c) PROVE LegacyInv'
  <2> DEFINE r == [op |-> "issue", pc |-> "count"]
  <2>1. /\ legacyCall[c].pc = "idle" /\ legacyCall' = [legacyCall EXCEPT ![c] = r]
        /\ UNCHANGED <<legacy, elapsed, masterDevice, slow, rekeyed>>
        /\ issuePeak' = IF 1 + Cardinality(Issuing) > issuePeak THEN 1 + Cardinality(Issuing) ELSE issuePeak
    BY <1>3 DEF StartLegacyIssue, LBusy, Issuing
  <2>2. r \in LegacyRecord /\ r.pc = "count" /\ r.op = "issue"
    BY DEF LegacyRecord
  <2> HIDE DEF r
  <2>3. /\ legacyCall' \in [LegacyCalls -> LegacyRecord] /\ legacyCall'[c] = r
        /\ \A d \in LegacyCalls \ {c} : legacyCall'[d] = legacyCall[d]
    BY <2>1, <2>2 DEF LegacyTypeOK
  <2>4. IsFiniteSet(Issuing) /\ Cardinality(Issuing) \in Nat
    <3>1. Issuing \in SUBSET LegacyCalls
      BY DEF Issuing
    <3> QED BY <3>1, FS_Subset, FS_CardinalityType
  <2>5. issuePeak' \in Nat /\ issuePeak' >= issuePeak /\ issuePeak' >= 1 + Cardinality(Issuing)
    BY <2>1, <2>4 DEF LegacyTypeOK
  <2>6. LegacyTypeOK'
    BY <2>1, <2>3, <2>5 DEF LegacyTypeOK
  <2>7. CapInv'
    <3>1. \A o : o \in Issuing' <=> o \in Issuing \cup {c}
      BY <2>1, <2>2, <2>3 DEF Issuing, LBusy
    <3>2. Issuing' = Issuing \cup {c} /\ c \notin Issuing
      BY <2>1, <3>1 DEF Issuing, LBusy
    <3>3. Cardinality(Issuing') <= issuePeak'
      <4>1. Cardinality(Issuing \cup {c}) = Cardinality(Issuing) + 1
        BY <2>4, <3>2, FS_AddElement
      <4> QED BY <2>4, <2>5, <3>2, <4>1
    <3>4. \A o \in LegacyCalls : legacyCall'[o].pc = "create" <=> legacyCall[o].pc = "create"
      BY <2>1, <2>2, <2>3
    <3>5. PendingNow' = PendingNow /\ CreatingNow' = CreatingNow
      BY <2>1, <3>4 DEF PendingNow, CreatingNow
    <3>6. CreatingNow \in SUBSET LegacyCalls
      BY DEF CreatingNow
    <3>7. Cardinality(PendingNow) \in Nat /\ Cardinality(CreatingNow) \in Nat
      BY <3>6, FS_Subset, FS_CardinalityType DEF CapInv
    <3>8. Cardinality(PendingNow) + Cardinality(CreatingNow) <= MaxPending - 1 + issuePeak /\ issuePeak \in Nat
      BY DEF CapInv, LegacyTypeOK
    <3>9. Cardinality(PendingNow) + Cardinality(CreatingNow) <= MaxPending - 1 + issuePeak'
      BY <2>5, <3>7, <3>8, LegacyAssumption
    <3> QED BY <3>3, <3>5, <3>9 DEF CapInv
  <2>8. SlowInv' /\ SignerInv'
    BY <2>1, <2>2, <2>3 DEF SlowInv, SignerInv
  <2> QED BY <2>6, <2>7, <2>8
<1>4. ASSUME NEW c \in LegacyCalls, CountPending(c) PROVE LegacyInv'
  <2>1. /\ legacyCall[c].pc = "count" /\ legacyCall[c].op = "issue"
        /\ UNCHANGED <<legacy, elapsed, masterDevice, issuePeak, slow, rekeyed>>
    BY <1>4, <1>a DEF CountPending, KeepRest, LegacyRecord
  <2>2. PICK pc \in {"create", "idle"} : LGoto(c, pc) /\ (pc = "create" => Cardinality(PendingNow) < MaxPending)
    BY <1>4 DEF CountPending
  <2>3. /\ legacyCall' \in [LegacyCalls -> LegacyRecord] /\ legacyCall'[c].pc = pc
        /\ pc # "idle" => legacyCall'[c].op = "issue"
        /\ \A d \in LegacyCalls \ {c} : legacyCall'[d] = legacyCall[d]
    BY <2>1, <2>2, LegacyMoves
  <2>4. LegacyTypeOK'
    BY <2>1, <2>3 DEF LegacyTypeOK
  <2>5. CapInv'
    <3>1. CASE pc = "idle"
      BY <2>1, <2>3, <3>1, CapStays DEF LegacyTypeOK
    <3>2. CASE pc = "create"
      <4>1. \A o : o \in Issuing' <=> o \in Issuing
        BY <2>1, <2>3, <3>2 DEF Issuing, LBusy
      <4>2. Issuing' = Issuing /\ PendingNow' = PendingNow
        BY <2>1, <4>1 DEF PendingNow
      <4>3. CreatingNow' \in SUBSET Issuing /\ Issuing \in SUBSET LegacyCalls
        <5>1. \A o \in LegacyCalls : legacyCall'[o].pc = "create" => legacyCall'[o].op = "issue"
          BY <2>3 DEF LegacyRecord
        <5>2. CreatingNow' \in SUBSET Issuing'
          BY <5>1 DEF CreatingNow, Issuing, LBusy
        <5> QED BY <4>2, <5>2 DEF Issuing
      <4>4. IsFiniteSet(Issuing) /\ IsFiniteSet(CreatingNow') /\ Cardinality(CreatingNow') <= Cardinality(Issuing)
        BY <4>3, FS_Subset
      <4>5. Cardinality(Issuing) \in Nat /\ Cardinality(CreatingNow') \in Nat /\ Cardinality(PendingNow) \in Nat
        BY <4>4, FS_CardinalityType DEF CapInv
      <4>6. Cardinality(Issuing) <= issuePeak /\ issuePeak \in Nat /\ Cardinality(PendingNow) < MaxPending
        BY <2>2, <3>2 DEF CapInv, LegacyTypeOK
      <4>7. Cardinality(PendingNow) + Cardinality(CreatingNow') <= MaxPending - 1 + issuePeak
        BY <4>4, <4>5, <4>6, LegacyAssumption
      <4> QED BY <2>1, <4>2, <4>6, <4>7 DEF CapInv
    <3> QED BY <2>2, <3>1, <3>2
  <2>6. SlowInv' /\ SignerInv'
    BY <2>1, <2>2, <2>3 DEF SlowInv, SignerInv
  <2> QED BY <2>4, <2>5, <2>6
<1>5. ASSUME NEW c \in LegacyCalls, CreateChallenge(c) PROVE LegacyInv'
  <2>1. PICK x \in LegacyIds : legacy[x] = "none" /\ legacy' = [legacy EXCEPT ![x] = "PENDING"]
    BY <1>5 DEF CreateChallenge
  <2>2. /\ legacyCall[c].pc = "create" /\ LGoto(c, "idle") /\ UNCHANGED <<elapsed, masterDevice, issuePeak, slow, rekeyed>>
    BY <1>5 DEF CreateChallenge, KeepRest
  <2>3. /\ legacyCall' \in [LegacyCalls -> LegacyRecord] /\ legacyCall'[c].pc = "idle"
        /\ \A d \in LegacyCalls \ {c} : legacyCall'[d] = legacyCall[d]
    BY <2>2, LegacyMoves
  <2>4. LegacyTypeOK'
    BY <2>1, <2>2, <2>3 DEF LegacyTypeOK
  <2>5. CapInv'
    <3>1. PendingNow' \in SUBSET (PendingNow \cup {x})
      <4>1. \A y \in LegacyIds : legacy'[y] = "PENDING" => y = x \/ legacy[y] = "PENDING"
        BY <2>1 DEF LegacyTypeOK
      <4> QED BY <2>2, <4>1 DEF PendingNow
    <3>2. \A o : o \in CreatingNow' <=> o \in CreatingNow \ {c}
      BY <2>2, <2>3 DEF CreatingNow
    <3>3. CreatingNow' = CreatingNow \ {c} /\ c \in CreatingNow /\ CreatingNow \in SUBSET LegacyCalls
      BY <2>2, <3>2 DEF CreatingNow
    <3>4. Issuing' \in SUBSET Issuing /\ Issuing \in SUBSET LegacyCalls
      BY <2>2, <2>3 DEF Issuing, LBusy
    <3>5. IsFiniteSet(PendingNow) /\ IsFiniteSet(CreatingNow) /\ IsFiniteSet(Issuing) /\ IsFiniteSet(Issuing')
      BY <3>3, <3>4, FS_Subset DEF CapInv
    <3>6. Cardinality(PendingNow) \in Nat /\ Cardinality(CreatingNow) \in Nat /\ Cardinality(Issuing) \in Nat /\ Cardinality(Issuing') \in Nat
      BY <3>5, FS_CardinalityType
    <3>7. IsFiniteSet(PendingNow \cup {x}) /\ Cardinality(PendingNow \cup {x}) <= Cardinality(PendingNow) + 1
      <4>1. IsFiniteSet(PendingNow \cup {x})
        BY <3>5, FS_AddElement
      <4>2. Cardinality(PendingNow \cup {x}) = IF x \in PendingNow THEN Cardinality(PendingNow) ELSE Cardinality(PendingNow) + 1
        BY <3>5, FS_AddElement
      <4> QED BY <3>6, <4>1, <4>2
    <3>8. IsFiniteSet(PendingNow') /\ Cardinality(PendingNow') <= Cardinality(PendingNow \cup {x})
      BY <3>1, <3>7, FS_Subset
    <3>9. Cardinality(CreatingNow') = Cardinality(CreatingNow) - 1
      BY <3>3, <3>5, FS_RemoveElement
    <3>10. Cardinality(Issuing') <= Cardinality(Issuing)
      BY <3>4, <3>5, FS_Subset
    <3>11. Cardinality(PendingNow') \in Nat /\ Cardinality(PendingNow \cup {x}) \in Nat
      BY <3>7, <3>8, FS_CardinalityType
    <3>12. /\ Cardinality(Issuing) <= issuePeak /\ issuePeak \in Nat
           /\ Cardinality(PendingNow) + Cardinality(CreatingNow) <= MaxPending - 1 + issuePeak
      BY DEF CapInv, LegacyTypeOK
    <3>13. /\ Cardinality(Issuing') <= issuePeak
           /\ Cardinality(PendingNow') + Cardinality(CreatingNow') <= MaxPending - 1 + issuePeak
      BY <3>6, <3>7, <3>8, <3>9, <3>10, <3>11, <3>12, LegacyAssumption
    <3> QED BY <2>2, <3>8, <3>13 DEF CapInv
  <2>6. SlowInv'
    <3>1. \A y \in LegacyIds : legacy'[y] = legacy[y] \/ (legacy[y] = "none" /\ legacy'[y] = "PENDING")
      BY <2>1 DEF LegacyTypeOK
    <3>2. \A d \in LegacyCalls : legacyCall[d].pc \in {"check", "expire", "device", "decide"} => legacyCall[d].x \in LegacyIds
      BY <1>a DEF LegacyRecord
    <3> QED BY <2>2, <2>3, <3>1, <3>2 DEF SlowInv
  <2>7. SignerInv'
    BY <2>2, <2>3 DEF SignerInv
  <2> QED BY <2>4, <2>5, <2>6, <2>7
<1>6. ASSUME NEW c \in LegacyCalls, NEW op \in {"get", "approve", "verify"}, ReadLegacy(c, op) PROVE LegacyInv'
  <2>1. PICK x \in LegacyIds, d \in Masters :
          /\ legacyCall[c].pc = "idle" /\ legacy[x] # "none"
          /\ legacyCall' = [legacyCall EXCEPT ![c] = [op |-> op, pc |-> "check", x |-> x, seen |-> legacy[x], by |-> d]]
    BY <1>6 DEF ReadLegacy, LBusy
  <2>2. UNCHANGED <<legacy, elapsed, masterDevice, issuePeak, slow, rekeyed>>
    BY <1>6 DEF ReadLegacy, KeepRest
  <2> DEFINE r == [op |-> op, pc |-> "check", x |-> x, seen |-> legacy[x], by |-> d]
  <2>3. r \in LegacyRecord /\ r.pc = "check" /\ r.op # "issue" /\ r.x = x /\ r.seen = legacy[x]
    BY DEF LegacyRecord, LegacyTypeOK
  <2> HIDE DEF r
  <2>4. /\ legacyCall' \in [LegacyCalls -> LegacyRecord] /\ legacyCall'[c] = r
        /\ \A o \in LegacyCalls \ {c} : legacyCall'[o] = legacyCall[o]
    BY <2>1, <2>3 DEF LegacyTypeOK, r
  <2>5. LegacyTypeOK'
    BY <2>2, <2>4 DEF LegacyTypeOK
  <2>6. CapInv'
    BY <2>2, <2>3, <2>4, CapStays DEF LegacyTypeOK
  <2>7. SlowInv' /\ SignerInv'
    BY <2>1, <2>2, <2>3, <2>4 DEF SlowInv, SignerInv
  <2> QED BY <2>5, <2>6, <2>7
<1>7. ASSUME NEW c \in LegacyCalls, CheckLegacy(c) \/ CheckDevice(c) PROVE LegacyInv'
  <2>1. /\ legacyCall[c].pc \in {"check", "device"} /\ legacyCall[c].op # "issue"
        /\ UNCHANGED <<legacy, elapsed, masterDevice, issuePeak, slow, rekeyed>>
    BY <1>7, <1>a DEF CheckLegacy, CheckDevice, KeepRest, LegacyRecord
  <2>2. PICK pc \in {"idle", "expire", "device", "decide"} :
          /\ LGoto(c, pc)
          /\ pc = "expire" => legacyCall[c].pc = "check" /\ legacyCall[c].seen = "PENDING" /\ legacyCall[c].x \in elapsed
          /\ pc = "decide" => legacyCall[c].by = masterDevice
    BY <1>7 DEF CheckLegacy, CheckDevice
  <2>3. /\ legacyCall' \in [LegacyCalls -> LegacyRecord] /\ legacyCall'[c].pc = pc
        /\ pc # "idle" => legacyCall'[c].op = legacyCall[c].op
        /\ pc \in {"expire", "device", "decide"} =>
             /\ legacyCall'[c].x = legacyCall[c].x /\ legacyCall'[c].seen = legacyCall[c].seen
             /\ legacyCall'[c].by = legacyCall[c].by
        /\ \A d \in LegacyCalls \ {c} : legacyCall'[d] = legacyCall[d]
    BY <2>1, <2>2, LegacyMoves
  <2>4. LegacyTypeOK'
    BY <2>1, <2>3 DEF LegacyTypeOK
  <2>5. CapInv'
    BY <2>1, <2>2, <2>3, CapStays DEF LegacyTypeOK
  <2>6. SlowInv'
    BY <2>1, <2>2, <2>3 DEF SlowInv
  <2>7. SignerInv'
    BY <2>1, <2>2, <2>3 DEF SignerInv
  <2> QED BY <2>4, <2>5, <2>6, <2>7
<1>8. ASSUME NEW c \in LegacyCalls, ExpireLegacy(c) \/ DecideLegacy(c) PROVE LegacyInv'
  <2>1. /\ legacyCall[c].pc \in {"expire", "decide"} /\ LGoto(c, "idle")
        /\ UNCHANGED <<elapsed, masterDevice, issuePeak, slow>>
        /\ \A d \in LegacyCalls \ {c} : d \in rekeyed => d \in rekeyed'
    BY <1>8 DEF ExpireLegacy, DecideLegacy, Decided, KeepRest
  <2>2. /\ legacyCall' \in [LegacyCalls -> LegacyRecord] /\ legacyCall'[c].pc = "idle"
        /\ \A d \in LegacyCalls \ {c} : legacyCall'[d] = legacyCall[d]
    BY <2>1, LegacyMoves
  <2>3. /\ legacy' \in [LegacyIds -> {"none", "PENDING", "APPROVED", "EXPIRED"}]
        /\ \A x \in LegacyIds : \/ legacy'[x] = legacy[x] \/ legacy'[x] = "EXPIRED"
                                \/ legacy'[x] = "APPROVED" /\ x \notin elapsed
    <3>1. legacyCall[c].x \in LegacyIds
      BY <1>a, <2>1 DEF LegacyRecord
    <3> QED BY <1>8, <3>1 DEF ExpireLegacy, DecideLegacy, PendingNow, LegacyTypeOK
  <2>4. LegacyTypeOK'
    BY <2>1, <2>2, <2>3 DEF LegacyTypeOK
  <2>5. CapInv'
    BY <2>1, <2>2, <2>3, CapStays DEF LegacyTypeOK
  <2>6. SlowInv'
    <3>1. \A d \in LegacyCalls : legacyCall[d].pc \in {"check", "expire", "device", "decide"} => legacyCall[d].x \in LegacyIds
      BY <1>a DEF LegacyRecord
    <3> QED BY <2>1, <2>2, <2>3, <3>1 DEF SlowInv
  <2>7. SignerInv'
    BY <2>1, <2>2 DEF SignerInv
  <2> QED BY <2>4, <2>5, <2>6, <2>7
<1> QED BY <1>0, <1>1, <1>2, <1>3, <1>4, <1>5, <1>6, <1>7, <1>8 DEF LegacyNext, ReadToGet, ReadToApprove, ReadToVerify

(* The cap on open challenges holds up to one challenge for each issue call *)
(* beside another, an approval is overwritten only by a call that was slow  *)
(* to look at the clock, an expired challenge is never approved, and who    *)
(* approves is the Master Device at the comparison: for any finite number   *)
(* of calls of challenges.ts, any challenges, devices and cap.              *)
THEOREM LegacyIsSoundHolds == IsFiniteSet(LegacyCalls) /\ LegacySpec => LegacyIsSound
<1> SUFFICES ASSUME IsFiniteSet(LegacyCalls) PROVE LegacySpec => LegacyIsSound
  OBVIOUS
<1>1. LegacyInit => LegacyInv
  <2> SUFFICES ASSUME LegacyInit PROVE LegacyInv
    OBVIOUS
  <2>1. [pc |-> "idle"] \in LegacyRecord
    BY DEF LegacyRecord
  <2>2. LegacyTypeOK /\ SlowInv /\ SignerInv
    BY <2>1 DEF LegacyInit, LegacyTypeOK, SlowInv, SignerInv
  <2>3. PendingNow = {} /\ Issuing = {} /\ CreatingNow = {} /\ issuePeak = 0
    BY DEF LegacyInit, PendingNow, Issuing, CreatingNow, LBusy
  <2>4. CapInv
    BY <2>3, FS_EmptySet, LegacyAssumption DEF CapInv
  <2> QED BY <2>2, <2>4 DEF LegacyInv
<1>2. LegacyInv => PendingBounded
  <2> SUFFICES ASSUME LegacyInv PROVE PendingBounded
    OBVIOUS
  <2>1. CreatingNow \in SUBSET LegacyCalls
    BY DEF CreatingNow
  <2>2. IsFiniteSet(CreatingNow) /\ IsFiniteSet(PendingNow)
    BY <2>1, FS_Subset DEF LegacyInv, CapInv
  <2>3. Cardinality(CreatingNow) \in Nat /\ Cardinality(PendingNow) \in Nat
    BY <2>2, FS_CardinalityType
  <2>4. Cardinality(PendingNow) + Cardinality(CreatingNow) <= MaxPending - 1 + issuePeak /\ issuePeak \in Nat
    BY DEF LegacyInv, CapInv, LegacyTypeOK
  <2>5. Cardinality(PendingNow) < MaxPending + issuePeak
    BY <2>3, <2>4, LegacyAssumption
  <2> QED BY <2>5 DEF PendingBounded
<1>3. LegacyInv /\ [LegacyNext]_legacyVars => [LegacyDecidedOnce /\ SignedByMaster]_legacyVars
  <2> SUFFICES ASSUME LegacyInv, LegacyNext PROVE LegacyDecidedOnce /\ SignedByMaster
    BY DEF legacyVars
  <2> USE DEF LegacyInv
  <2>1. ASSUME UNCHANGED legacy PROVE LegacyDecidedOnce /\ SignedByMaster
    BY <2>1 DEF LegacyDecidedOnce, SignedByMaster
  <2>2. ASSUME NEW c \in LegacyCalls, CreateChallenge(c) PROVE LegacyDecidedOnce /\ SignedByMaster
    <3>1. PICK x \in LegacyIds : legacy[x] = "none" /\ legacy' = [legacy EXCEPT ![x] = "PENDING"]
      BY <2>2 DEF CreateChallenge
    <3>2. LGoto(c, "idle") /\ legacyCall[c].pc = "create"
      BY <2>2 DEF CreateChallenge
    <3>3. \A d \in LegacyCalls \ {c} : legacyCall'[d] = legacyCall[d]
      BY <3>2, LegacyMoves
    <3> QED BY <3>1, <3>2, <3>3 DEF LegacyDecidedOnce, SignedByMaster, LegacyTypeOK
  <2>3. ASSUME NEW c \in LegacyCalls, ExpireLegacy(c) \/ DecideLegacy(c) PROVE LegacyDecidedOnce /\ SignedByMaster
    <3>1. LGoto(c, "idle") /\ legacyCall[c].pc \in {"expire", "decide"}
      BY <2>3 DEF ExpireLegacy, DecideLegacy, Decided
    <3>2. \A d \in LegacyCalls \ {c} : legacyCall'[d] = legacyCall[d]
      BY <3>1, LegacyMoves
    <3>3. legacyCall[c] \in LegacyRecord
      BY DEF LegacyTypeOK
    <3>4. legacyCall[c].x \in LegacyIds
      BY <3>1, <3>3 DEF LegacyRecord
    <3>5. SignedByMaster
      BY <3>1, <3>2 DEF SignedByMaster, SignerInv
    <3>6. CASE ExpireLegacy(c)
      <4>1. legacyCall[c].pc = "expire" /\ legacy' = [legacy EXCEPT ![legacyCall[c].x] = "EXPIRED"]
        BY <3>6 DEF ExpireLegacy
      <4>2. legacy[legacyCall[c].x] # "APPROVED" \/ legacyCall[c].x \in slow
        BY <4>1 DEF SlowInv
      <4> QED BY <3>4, <3>5, <4>1, <4>2 DEF LegacyDecidedOnce, LegacyTypeOK
    <3>7. CASE DecideLegacy(c)
      BY <3>4, <3>5, <3>7 DEF DecideLegacy, PendingNow, LegacyDecidedOnce, LegacyTypeOK
    <3> QED BY <2>3, <3>6, <3>7
  <2> QED BY <2>1, <2>2, <2>3 DEF LegacyNext, ChallengeLapses, MasterChanges, StartLegacyIssue, CountPending,
                                 ReadToGet, ReadToApprove, ReadToVerify, ReadLegacy, CheckLegacy, CheckDevice
<1>4. LegacyInv /\ [LegacyNext]_legacyVars => LegacyInv'
  BY LegacyNextInv
<1> QED BY <1>1, <1>2, <1>3, <1>4, PTL DEF LegacySpec, LegacyIsSound

-----------------------------------------------------------------------------
(* The vault behind the decoy, and deleted assets *)

Names == Assets \cup {None0}

VaultScreen == [gate : {"checking", "blocked", "granted"}, decoy : BOOLEAN, selected : Names, media : Names]

(* Each call with the steps it can be at; what is stored has been sealed.   *)
VaultRecord ==
  [op : {"idle"}, pc : {"idle"}, asset : {None0}, keys : {NoAsset}, mine : {FALSE}]
    \cup [op : {"import"}, pc : {"prompt", "make", "encrypt"}, asset : Assets, keys : Seq(Nat), mine : BOOLEAN]
    \cup [op : {"import"}, pc : {"store", "persist"}, asset : Assets, keys : Seq(Nat) \ {<<>>}, mine : BOOLEAN]
    \cup [op : {"remove"}, pc : {"prompt", "make", "drop", "delete"}, asset : Assets, keys : Seq(Nat), mine : BOOLEAN]
    \cup [op : Viewer, pc : {"confirm", "prompt", "make", "stream", "chunks"}, asset : Assets, keys : Seq(Nat),
          mine : BOOLEAN]
    \cup [op : {"guard"}, pc : {"prompt", "make", "confirm"}, asset : Names, keys : Seq(Nat), mine : BOOLEAN]
    \cup [op : {"test"}, pc : {"prompt", "make"}, asset : Names, keys : Seq(Nat), mine : BOOLEAN]
    \cup [op : {"duress"}, pc : {"alert"}, asset : Names, keys : Seq(Nat), mine : BOOLEAN]

VaultTypeOK ==
  /\ dak \in Nat /\ made \in Nat /\ duress \in BOOLEAN /\ late \in BOOLEAN
  /\ files \in [Assets -> Seq(Nat)] /\ disk \in [Assets -> Seq(Nat)]
  /\ hydrate \in [pc : {"read", "load", "done"}, read : [Assets -> Seq(Nat)]]
  /\ doing \in [VaultCalls -> VaultRecord]
  /\ screen \in VaultScreen

(* Steps from which a call may still bring the key back.                    *)
OnTheWay == {"prompt", "make", "confirm"}

(* Behind a decoy that was not late no unlock is on its way.                *)
DecoyInv == screen.decoy /\ ~late => dak = 0 /\ \A c \in VaultCalls : doing[c].pc \notin OnTheWay

Touching(r, a) == r.op \in {"import", "remove"} /\ r.asset = a

Importing(r, a) == r.op = "import" /\ r.asset = a /\ r.pc \in {"prompt", "make", "encrypt", "store"}

Writing(r, a) == r.op = "import" /\ r.asset = a /\ r.pc = "persist"

(* An import that has not stored its asset is the only call for it.         *)
ImportIsAlone ==
  \A c \in VaultCalls, a \in Assets : Importing(doing[c], a) =>
     /\ files[a] = NoAsset /\ disk[a] = NoAsset /\ a \notin erased
     /\ \A o \in VaultCalls \ {c} : ~Touching(doing[o], a)

(* What a start has read is on the disk, or was deleted since.              *)
ReadIsOnDisk ==
  \A a \in Assets : hydrate.read[a] # NoAsset => hydrate.pc = "load" /\ (disk[a] # NoAsset \/ a \in erased)

(* Nothing is left that could write an erased asset again.                  *)
NothingWritesErased ==
  \A a \in (erased \ excused) \cap Assets :
     /\ files[a] = NoAsset /\ disk[a] = NoAsset /\ hydrate.read[a] = NoAsset
     /\ \A c \in VaultCalls : ~Writing(doing[c], a)

VaultInv ==
  /\ VaultTypeOK /\ DecoyInv /\ ImportIsAlone /\ ReadIsOnDisk /\ NothingWritesErased
  /\ erased \subseteq Assets

(* A step of one call that leaves the files alone, and begins no import.    *)
LEMMA CallMoves ==
  ASSUME VaultInv, NEW c \in VaultCalls, NEW r \in VaultRecord, doing' = [doing EXCEPT ![c] = r],
         UNCHANGED <<files, disk, hydrate, erased, excused, late>>,
         screen' \in VaultScreen, screen'.decoy = screen.decoy,
         dak' \in Nat, made' \in Nat, duress' \in BOOLEAN,
         \A a \in Assets : /\ Touching(r, a) => Touching(doing[c], a) \/ files[a] # NoAsset
                           /\ Importing(r, a) => Importing(doing[c], a)
                           /\ Writing(r, a) => Writing(doing[c], a),
         screen.decoy /\ r.pc \in OnTheWay => doing[c].pc \in OnTheWay,
         screen.decoy /\ dak' # 0 => dak # 0 \/ doing[c].pc \in OnTheWay
  PROVE  VaultInv'
<1>1. doing' \in [VaultCalls -> VaultRecord] /\ doing'[c] = r /\ \A o \in VaultCalls \ {c} : doing'[o] = doing[o]
  BY DEF VaultInv, VaultTypeOK
<1>2. VaultTypeOK'
  BY <1>1 DEF VaultInv, VaultTypeOK
<1>3. DecoyInv'
  BY <1>1 DEF VaultInv, DecoyInv
<1>4. ImportIsAlone'
  <2>1. ASSUME NEW o \in VaultCalls, NEW a \in Assets, Importing(doing'[o], a)
        PROVE  /\ files'[a] = NoAsset /\ disk'[a] = NoAsset /\ a \notin erased'
               /\ \A p \in VaultCalls \ {o} : ~Touching(doing'[p], a)
    <3>1. Importing(doing[o], a)
      BY <1>1, <2>1
    <3>2. /\ files[a] = NoAsset /\ disk[a] = NoAsset /\ a \notin erased
          /\ \A p \in VaultCalls \ {o} : ~Touching(doing[p], a)
      BY <3>1 DEF VaultInv, ImportIsAlone
    <3>3. \A p \in VaultCalls \ {o} : ~Touching(doing'[p], a)
      BY <1>1, <3>2
    <3> QED BY <3>2, <3>3
  <2> QED BY <2>1 DEF ImportIsAlone, Importing, Touching
<1>5. ReadIsOnDisk'
  BY DEF VaultInv, ReadIsOnDisk
<1>6. NothingWritesErased'
  <2>1. ASSUME NEW a \in (erased \ excused) \cap Assets, NEW o \in VaultCalls PROVE ~Writing(doing'[o], a)
    BY <1>1, <2>1 DEF VaultInv, NothingWritesErased
  <2> QED BY <2>1 DEF VaultInv, NothingWritesErased, Writing
<1> QED BY <1>2, <1>3, <1>4, <1>5, <1>6 DEF VaultInv

(* A call that ends.                                                        *)
LEMMA EndMoves ==
  ASSUME VaultInv, NEW c \in VaultCalls, End(c),
         UNCHANGED <<files, disk, hydrate, erased, excused, late>>,
         screen' \in VaultScreen, screen'.decoy = screen.decoy,
         dak' \in Nat, made' \in Nat, duress' \in BOOLEAN,
         screen.decoy /\ dak' # 0 => dak # 0 \/ doing[c].pc \in OnTheWay
  PROVE  VaultInv'
<1>1. Idle \in VaultRecord /\ Idle.pc = "idle" /\ Idle.op = "idle"
  BY DEF Idle, VaultRecord
<1>2. \A a \in Assets : ~Touching(Idle, a) /\ ~Importing(Idle, a) /\ ~Writing(Idle, a)
  BY <1>1 DEF Touching, Importing, Writing
<1>3. doing' = [doing EXCEPT ![c] = Idle] /\ Idle.pc \notin OnTheWay
  BY <1>1 DEF End, OnTheWay
<1> QED BY <1>1, <1>2, <1>3, CallMoves

(* A call that goes on to a step of its own.                                *)
LEMMA GotoMoves ==
  ASSUME VaultInv, NEW c \in VaultCalls, NEW pc, Goto(c, pc), [doing[c] EXCEPT !.pc = pc] \in VaultRecord,
         UNCHANGED <<files, disk, hydrate, erased, excused, late>>,
         screen' \in VaultScreen, screen'.decoy = screen.decoy,
         dak' \in Nat, made' \in Nat, duress' \in BOOLEAN,
         pc = "persist" => doing[c].op # "import" \/ doing[c].pc = "persist",
         pc \in {"prompt", "make", "encrypt", "store"} /\ doing[c].op = "import" =>
            doing[c].pc \in {"prompt", "make", "encrypt", "store"},
         pc \in OnTheWay => doing[c].pc \in OnTheWay,
         screen.decoy /\ dak' # 0 => dak # 0 \/ doing[c].pc \in OnTheWay
  PROVE  VaultInv'
<1> DEFINE r == [doing[c] EXCEPT !.pc = pc]
<1>1. r.op = doing[c].op /\ r.asset = doing[c].asset /\ r.pc = pc
  <2>1. doing[c] \in VaultRecord
    BY DEF VaultInv, VaultTypeOK
  <2> QED BY <2>1 DEF VaultRecord, Idle
<1>2. r \in VaultRecord /\ doing' = [doing EXCEPT ![c] = r]
  BY DEF Goto
<1> HIDE DEF r
<1>3. \A a \in Assets : /\ Touching(r, a) => Touching(doing[c], a)
                        /\ Importing(r, a) => Importing(doing[c], a)
                        /\ Writing(r, a) => Writing(doing[c], a)
  BY <1>1 DEF Touching, Importing, Writing
<1> QED BY <1>1, <1>2, <1>3, CallMoves

(* What a call is at, by the step it is at.                                 *)
LEMMA CallsAt ==
  ASSUME NEW r \in VaultRecord
  PROVE  /\ r.pc = "encrypt" => r \in [op : {"import"}, pc : {"encrypt"}, asset : Assets, keys : Seq(Nat), mine : BOOLEAN]
         /\ r.pc \in {"store", "persist"} =>
              r \in [op : {"import"}, pc : {"store", "persist"}, asset : Assets, keys : Seq(Nat) \ {<<>>}, mine : BOOLEAN]
         /\ r.pc \in {"drop", "delete"} =>
              r \in [op : {"remove"}, pc : {"drop", "delete"}, asset : Assets, keys : Seq(Nat), mine : BOOLEAN]
         /\ r.pc \in {"stream", "chunks"} =>
              r \in [op : Viewer, pc : {"stream", "chunks"}, asset : Assets, keys : Seq(Nat), mine : BOOLEAN]
         /\ r.pc = "alert" => r.op = "duress"
BY DEF VaultRecord, Idle, Viewer

(* Where a call resumes once the session is unlocked.                       *)
LEMMA ResumeMoves ==
  ASSUME VaultInv, NEW c \in VaultCalls, Resume(c), doing[c].pc \in {"prompt", "make"},
         UNCHANGED <<files, disk, hydrate, erased, excused, late>>,
         screen' = screen, dak' \in Nat, made' \in Nat, duress' \in BOOLEAN
  PROVE  VaultInv'
<1>1. doing[c] \in VaultRecord /\ screen' \in VaultScreen /\ doing[c].pc \in OnTheWay
  BY DEF VaultInv, VaultTypeOK, OnTheWay
<1>2. CASE doing[c].op = "test"
  BY <1>1, <1>2, EndMoves DEF Resume
<1>3. CASE doing[c].op # "test"
  <2> DEFINE pc == Next0(doing[c].op)
  <2>1. Goto(c, pc)
    BY <1>3 DEF Resume
  <2>2. doing[c].op \in {"import", "remove", "play", "reauth", "guard"}
    BY <1>1, <1>3 DEF VaultRecord, Idle, Viewer
  <2>3. /\ doing[c].op = "import" => pc = "encrypt"
        /\ doing[c].op = "remove" => pc = "drop"
        /\ doing[c].op \in Viewer => pc = "stream"
        /\ doing[c].op = "guard" => pc = "confirm"
    BY <2>2 DEF Next0, Viewer
  <2> HIDE DEF pc
  <2>4. [doing[c] EXCEPT !.pc = pc] \in VaultRecord
    BY <1>1, <2>2, <2>3 DEF VaultRecord, Idle, Viewer
  <2>5. pc # "persist"
    BY <2>2, <2>3 DEF Viewer
  <2> QED BY <1>1, <2>1, <2>4, <2>5, GotoMoves DEF OnTheWay
<1> QED BY <1>2, <1>3

(* A call that begins, and is not an import.                                *)
LEMMA BeginMoves ==
  ASSUME VaultInv, NEW c \in VaultCalls, NEW ops, NEW r \in VaultRecord, Begin(c, ops, r), r.op # "import",
         r.op = "remove" => r.asset \in Assets /\ files[r.asset] # NoAsset, ~screen.decoy,
         UNCHANGED <<files, disk, hydrate, erased, excused, late>>,
         screen' \in VaultScreen, screen'.decoy = screen.decoy,
         dak' \in Nat, made' \in Nat, duress' \in BOOLEAN
  PROVE  VaultInv'
<1>1. doing' = [doing EXCEPT ![c] = r]
  BY DEF Begin
<1>2. \A a \in Assets : /\ Touching(r, a) => Touching(doing[c], a) \/ files[a] # NoAsset
                        /\ Importing(r, a) => Importing(doing[c], a)
                        /\ Writing(r, a) => Writing(doing[c], a)
  BY DEF Touching, Importing, Writing
<1>3. /\ screen.decoy /\ r.pc \in OnTheWay => doing[c].pc \in OnTheWay
      /\ screen.decoy /\ dak' # 0 => dak # 0 \/ doing[c].pc \in OnTheWay
  OBVIOUS
<1> QED BY <1>1, <1>2, <1>3, CallMoves

LEMMA CallIsRecord ==
  ASSUME NEW op, NEW pc, NEW a
  PROVE  /\ Call(op, pc, a).op = op /\ Call(op, pc, a).pc = pc /\ Call(op, pc, a).asset = a
         /\ Call(op, pc, a) \in [op : {op}, pc : {pc}, asset : {a}, keys : Seq(Nat), mine : BOOLEAN]
<1>1. NoAsset \in Seq(Nat)
  BY DEF NoAsset
<1>2. Call(op, pc, a) = [op |-> op, pc |-> pc, asset |-> a, keys |-> NoAsset, mine |-> TRUE]
  BY DEF Call
<1> QED BY <1>1, <1>2

(* A call that is to make its key, or to confirm once more.                 *)
LEMMA StepStays ==
  ASSUME NEW r \in VaultRecord
  PROVE  /\ r.pc = "prompt" => [r EXCEPT !.pc = "make"] \in VaultRecord
         /\ r.op = "reauth" /\ r.pc = "confirm" => [r EXCEPT !.pc = "prompt"] \in VaultRecord
<1>1. CASE r \in [op : {"idle"}, pc : {"idle"}, asset : {None0}, keys : {NoAsset}, mine : {FALSE}]
  BY <1>1
<1>2. CASE r \in [op : {"import"}, pc : {"prompt", "make", "encrypt"}, asset : Assets, keys : Seq(Nat), mine : BOOLEAN]
  BY <1>2 DEF VaultRecord
<1>3. CASE r \in [op : {"import"}, pc : {"store", "persist"}, asset : Assets, keys : Seq(Nat) \ {<<>>}, mine : BOOLEAN]
  BY <1>3
<1>4. CASE r \in [op : {"remove"}, pc : {"prompt", "make", "drop", "delete"}, asset : Assets, keys : Seq(Nat),
                  mine : BOOLEAN]
  BY <1>4 DEF VaultRecord
<1>5. CASE r \in [op : Viewer, pc : {"confirm", "prompt", "make", "stream", "chunks"}, asset : Assets, keys : Seq(Nat),
                  mine : BOOLEAN]
  BY <1>5 DEF VaultRecord, Viewer
<1>6. CASE r \in [op : {"guard"}, pc : {"prompt", "make", "confirm"}, asset : Names, keys : Seq(Nat), mine : BOOLEAN]
  BY <1>6 DEF VaultRecord
<1>7. CASE r \in [op : {"test"}, pc : {"prompt", "make"}, asset : Names, keys : Seq(Nat), mine : BOOLEAN]
  BY <1>7 DEF VaultRecord
<1>8. CASE r \in [op : {"duress"}, pc : {"alert"}, asset : Names, keys : Seq(Nat), mine : BOOLEAN]
  BY <1>8
<1> QED BY <1>1, <1>2, <1>3, <1>4, <1>5, <1>6, <1>7, <1>8 DEF VaultRecord

(* A step that no call takes.                                               *)
LEMMA PageMoves ==
  ASSUME VaultInv, UNCHANGED <<doing, files, disk, hydrate, erased, excused, late>>,
         screen' \in VaultScreen, screen'.decoy = screen.decoy, dak' \in {0, dak}, UNCHANGED <<made, duress>>
  PROVE  VaultInv'
<1>1. VaultTypeOK' /\ DecoyInv'
  BY DEF VaultInv, VaultTypeOK, DecoyInv
<1>2. ImportIsAlone' /\ ReadIsOnDisk' /\ NothingWritesErased'
  BY DEF VaultInv, ImportIsAlone, ReadIsOnDisk, NothingWritesErased
<1> QED BY <1>1, <1>2 DEF VaultInv

LEMMA ImportKeepsInv == ASSUME VaultInv, NEW c \in VaultCalls, StartImport(c) PROVE VaultInv'
<1>1. PICK a \in Assets :
        /\ files[a] = NoAsset /\ disk[a] = NoAsset /\ a \notin erased
        /\ \A o \in VaultCalls : doing[o].asset # a
        /\ doing' = [doing EXCEPT ![c] = Call("import", EntryOf("import"), a)]
  BY DEF StartImport, Begin
<1> DEFINE r == Call("import", EntryOf("import"), a)
<1>2. /\ ~screen.decoy /\ UNCHANGED <<dak, made, files, disk, hydrate, erased, excused, screen, policy, duress, pages, late>>
  BY DEF StartImport, Open, KeepSession, KeepFiles, KeepPage
<1>3. r \in VaultRecord /\ r.op = "import" /\ r.asset = a /\ r.pc \in {"prompt", "encrypt"}
  <2>1. EntryOf("import") \in {"prompt", "encrypt"}
    BY DEF EntryOf, Next0, Viewer
  <2>2. /\ r.op = "import" /\ r.asset = a /\ r.pc = EntryOf("import")
        /\ r \in [op : {"import"}, pc : {EntryOf("import")}, asset : {a}, keys : Seq(Nat), mine : BOOLEAN]
    BY CallIsRecord
  <2>3. r \in [op : {"import"}, pc : {"prompt", "make", "encrypt"}, asset : Assets, keys : Seq(Nat), mine : BOOLEAN]
    BY <2>1, <2>2
  <2> QED BY <2>1, <2>2, <2>3 DEF VaultRecord
<1> HIDE DEF r
<1>4. doing' \in [VaultCalls -> VaultRecord] /\ doing'[c] = r /\ \A o \in VaultCalls \ {c} : doing'[o] = doing[o]
  BY <1>1, <1>3 DEF VaultInv, VaultTypeOK, r
<1>5. VaultTypeOK' /\ DecoyInv' /\ ReadIsOnDisk'
  BY <1>2, <1>4 DEF VaultInv, VaultTypeOK, DecoyInv, ReadIsOnDisk
<1>6. ImportIsAlone'
  <2>1. ASSUME NEW o \in VaultCalls, NEW b \in Assets, Importing(doing'[o], b)
        PROVE  /\ files[b] = NoAsset /\ disk[b] = NoAsset /\ b \notin erased
               /\ \A p \in VaultCalls \ {o} : ~Touching(doing'[p], b)
    <3>1. CASE o = c
      BY <1>1, <1>3, <1>4, <2>1, <3>1 DEF Importing, Touching
    <3>2. CASE o # c
      <4>1. Importing(doing[o], b) /\ b # a
        BY <1>1, <1>4, <2>1, <3>2 DEF Importing
      <4>2. ~Touching(r, b)
        BY <1>3, <4>1 DEF Touching
      <4> QED BY <1>4, <4>1, <4>2 DEF VaultInv, ImportIsAlone
    <3> QED BY <3>1, <3>2
  <2> QED BY <1>2, <2>1 DEF ImportIsAlone, Importing, Touching
<1>7. NothingWritesErased'
  <2>1. ASSUME NEW b \in (erased \ excused) \cap Assets, NEW o \in VaultCalls PROVE ~Writing(doing'[o], b)
    BY <1>3, <1>4, <2>1 DEF VaultInv, NothingWritesErased, Writing
  <2> QED BY <1>2, <2>1 DEF VaultInv, NothingWritesErased, Writing
<1> QED BY <1>2, <1>5, <1>6, <1>7 DEF VaultInv

LEMMA EncryptKeepsInv == ASSUME VaultInv, NEW c \in VaultCalls, EncryptChunk(c) PROVE VaultInv'
<1> DEFINE sealed == Append(doing[c].keys, dak)
<1>1. /\ doing[c].pc = "encrypt"
      /\ doing' = [doing EXCEPT ![c] =
           IF dak = 0 THEN Idle
           ELSE [doing[c] EXCEPT !.keys = sealed, !.pc = IF Len(sealed) = Chunks THEN "store" ELSE "encrypt"]]
      /\ UNCHANGED <<dak, made, files, disk, hydrate, erased, excused, screen, policy, duress, pages, late>>
  BY DEF EncryptChunk, KeepSession, KeepFiles, KeepPage
<1>2. /\ doing[c] \in [op : {"import"}, pc : {"encrypt"}, asset : Assets, keys : Seq(Nat), mine : BOOLEAN]
      /\ screen \in VaultScreen /\ dak \in Nat /\ made \in Nat /\ duress \in BOOLEAN
  BY <1>1, CallsAt DEF VaultInv, VaultTypeOK
<1>3. CASE dak = 0
  BY <1>1, <1>2, <1>3, EndMoves DEF End
<1>4. CASE dak # 0
  <2>1. sealed \in Seq(Nat) /\ sealed # <<>>
    BY <1>2
  <2> HIDE DEF sealed
  <2> DEFINE pc == IF Len(sealed) = Chunks THEN "store" ELSE "encrypt"
             r == [doing[c] EXCEPT !.keys = sealed, !.pc = pc]
  <2>2. pc \in {"store", "encrypt"}
    OBVIOUS
  <2>3. doing' = [doing EXCEPT ![c] = r]
    BY <1>1, <1>4
  <2> HIDE DEF pc
  <2>4. r \in VaultRecord /\ r.op = "import" /\ r.asset = doing[c].asset /\ r.pc = pc
    BY <1>2, <2>1, <2>2 DEF VaultRecord
  <2> HIDE DEF r
  <2>5. \A a \in Assets : /\ Touching(r, a) => Touching(doing[c], a)
                          /\ Importing(r, a) => Importing(doing[c], a)
                          /\ ~Writing(r, a)
    BY <1>1, <1>2, <2>2, <2>4 DEF Touching, Importing, Writing
  <2>6. r.pc \notin OnTheWay
    BY <2>2, <2>4 DEF OnTheWay
  <2> QED BY <1>1, <1>2, <2>3, <2>4, <2>5, <2>6, CallMoves
<1> QED BY <1>3, <1>4

LEMMA StoreKeepsInv == ASSUME VaultInv, NEW c \in VaultCalls, StoreAsset(c) PROVE VaultInv'
<1> DEFINE a == doing[c].asset
           r == [doing[c] EXCEPT !.pc = "persist"]
<1>1. /\ doing[c].pc = "store" /\ files' = [files EXCEPT ![a] = doing[c].keys]
      /\ doing' = [doing EXCEPT ![c] = r]
      /\ UNCHANGED <<dak, made, disk, hydrate, erased, excused, screen, policy, duress, pages, late>>
  BY DEF StoreAsset, Goto, KeepSession, KeepPage
<1>2. doing[c] \in [op : {"import"}, pc : {"store", "persist"}, asset : Assets, keys : Seq(Nat) \ {<<>>}, mine : BOOLEAN]
  BY <1>1, CallsAt DEF VaultInv, VaultTypeOK
<1>3. r \in VaultRecord /\ r.op = "import" /\ r.asset = a /\ r.pc = "persist"
  BY <1>2 DEF VaultRecord
<1> HIDE DEF r
<1>4. doing' \in [VaultCalls -> VaultRecord] /\ doing'[c] = r /\ \A o \in VaultCalls \ {c} : doing'[o] = doing[o]
  BY <1>1, <1>3 DEF VaultInv, VaultTypeOK
<1>5. files' \in [Assets -> Seq(Nat)] /\ \A b \in Assets \ {a} : files'[b] = files[b]
  BY <1>1, <1>2 DEF VaultInv, VaultTypeOK
<1>6. /\ files[a] = NoAsset /\ disk[a] = NoAsset /\ a \notin erased
      /\ \A o \in VaultCalls \ {c} : ~Touching(doing[o], a)
  BY <1>1, <1>2 DEF VaultInv, ImportIsAlone, Importing
<1>7. VaultTypeOK' /\ DecoyInv' /\ ReadIsOnDisk'
  BY <1>1, <1>3, <1>4, <1>5 DEF VaultInv, VaultTypeOK, DecoyInv, ReadIsOnDisk, OnTheWay
<1>8. ImportIsAlone'
  <2>1. ASSUME NEW o \in VaultCalls, NEW b \in Assets, Importing(doing'[o], b)
        PROVE  /\ files'[b] = NoAsset /\ disk[b] = NoAsset /\ b \notin erased
               /\ \A p \in VaultCalls \ {o} : ~Touching(doing'[p], b)
    <3>1. o # c /\ Importing(doing[o], b)
      BY <1>3, <1>4, <2>1 DEF Importing
    <3>2. b # a
      BY <1>6, <3>1 DEF Importing, Touching
    <3>3. ~Touching(r, b)
      BY <1>3, <3>2 DEF Touching
    <3> QED BY <1>4, <1>5, <3>1, <3>2, <3>3 DEF VaultInv, ImportIsAlone
  <2> QED BY <1>1, <2>1 DEF ImportIsAlone, Importing, Touching
<1>9. NothingWritesErased'
  <2>1. ASSUME NEW b \in (erased \ excused) \cap Assets
        PROVE  files'[b] = NoAsset /\ \A o \in VaultCalls : ~Writing(doing'[o], b)
    <3>1. b # a
      BY <1>6, <2>1
    <3> QED BY <1>3, <1>4, <1>5, <2>1, <3>1 DEF VaultInv, NothingWritesErased, Writing
  <2> QED BY <1>1, <2>1 DEF VaultInv, NothingWritesErased, Writing
<1> QED BY <1>1, <1>7, <1>8, <1>9 DEF VaultInv

LEMMA PersistKeepsInv == ASSUME VaultInv, NEW c \in VaultCalls, PersistAsset(c) PROVE VaultInv'
<1> DEFINE a == doing[c].asset
<1>1. /\ doing[c].pc = "persist" /\ doing' = [doing EXCEPT ![c] = Idle]
      /\ UNCHANGED <<dak, made, files, hydrate, erased, excused, policy, duress, pages, late>>
      /\ disk' = disk \/ disk' = [disk EXCEPT ![a] = doing[c].keys]
  BY DEF PersistAsset, End, KeepSession
<1>2. doing[c] \in [op : {"import"}, pc : {"store", "persist"}, asset : Assets, keys : Seq(Nat) \ {<<>>}, mine : BOOLEAN]
  BY <1>1, CallsAt DEF VaultInv, VaultTypeOK
<1>3. screen' \in VaultScreen /\ screen'.decoy = screen.decoy
  <2>1. a \in Names
    BY <1>2 DEF Names
  <2>2. screen' = screen \/ screen' = [screen EXCEPT !.selected = a]
    BY DEF PersistAsset
  <2> QED BY <2>1, <2>2 DEF VaultInv, VaultTypeOK, VaultScreen
<1>4. /\ Idle \in VaultRecord /\ Idle.pc = "idle" /\ Idle.op = "idle"
  BY DEF Idle, VaultRecord
<1>5. doing' \in [VaultCalls -> VaultRecord] /\ doing'[c] = Idle /\ \A o \in VaultCalls \ {c} : doing'[o] = doing[o]
  BY <1>1, <1>4 DEF VaultInv, VaultTypeOK
<1>6. /\ disk' \in [Assets -> Seq(Nat)] /\ \A b \in Assets \ {a} : disk'[b] = disk[b]
      /\ disk'[a] = disk[a] \/ disk'[a] # NoAsset
  BY <1>1, <1>2 DEF VaultInv, VaultTypeOK, NoAsset
<1>7. VaultTypeOK' /\ DecoyInv' /\ ReadIsOnDisk'
  BY <1>1, <1>3, <1>4, <1>5, <1>6 DEF VaultInv, VaultTypeOK, DecoyInv, ReadIsOnDisk, OnTheWay
<1>8. ImportIsAlone'
  <2>1. ASSUME NEW o \in VaultCalls, NEW b \in Assets, Importing(doing'[o], b)
        PROVE  /\ files[b] = NoAsset /\ disk'[b] = NoAsset /\ b \notin erased
               /\ \A p \in VaultCalls \ {o} : ~Touching(doing'[p], b)
    <3>1. o # c /\ Importing(doing[o], b)
      BY <1>4, <1>5, <2>1 DEF Importing
    <3>2. b # a
      BY <1>2, <3>1 DEF VaultInv, ImportIsAlone, Touching
    <3>3. ~Touching(Idle, b)
      BY <1>4 DEF Touching
    <3> QED BY <1>5, <1>6, <3>1, <3>2, <3>3 DEF VaultInv, ImportIsAlone
  <2> QED BY <1>1, <2>1 DEF ImportIsAlone, Importing, Touching
<1>9. NothingWritesErased'
  <2>1. ASSUME NEW b \in (erased \ excused) \cap Assets
        PROVE  disk'[b] = NoAsset /\ \A o \in VaultCalls : ~Writing(doing'[o], b)
    <3>1. b # a
      BY <1>1, <1>2, <2>1 DEF VaultInv, NothingWritesErased, Writing
    <3> QED BY <1>4, <1>5, <1>6, <2>1, <3>1 DEF VaultInv, NothingWritesErased, Writing
  <2> QED BY <1>1, <2>1 DEF VaultInv, NothingWritesErased, Writing
<1> QED BY <1>1, <1>7, <1>8, <1>9 DEF VaultInv

LEMMA DropKeepsInv == ASSUME VaultInv, NEW c \in VaultCalls, DropAsset(c) PROVE VaultInv'
<1> DEFINE a == doing[c].asset
           r == [doing[c] EXCEPT !.pc = "delete"]
<1>1. /\ doing[c].pc = "drop" /\ files' = [files EXCEPT ![a] = NoAsset]
      /\ doing' = [doing EXCEPT ![c] = r]
      /\ UNCHANGED <<dak, made, disk, hydrate, erased, excused, screen, policy, duress, pages, late>>
  BY DEF DropAsset, Goto, KeepSession, KeepPage
<1>2. doing[c] \in [op : {"remove"}, pc : {"drop", "delete"}, asset : Assets, keys : Seq(Nat), mine : BOOLEAN]
  BY <1>1, CallsAt DEF VaultInv, VaultTypeOK
<1>3. r \in VaultRecord /\ r.op = "remove" /\ r.asset = a /\ r.pc = "delete"
  BY <1>2 DEF VaultRecord
<1> HIDE DEF r
<1>4. doing' \in [VaultCalls -> VaultRecord] /\ doing'[c] = r /\ \A o \in VaultCalls \ {c} : doing'[o] = doing[o]
  BY <1>1, <1>3 DEF VaultInv, VaultTypeOK
<1>5. files' \in [Assets -> Seq(Nat)] /\ \A b \in Assets : files'[b] \in {NoAsset, files[b]}
  BY <1>1, <1>2 DEF VaultInv, VaultTypeOK, NoAsset
<1>6. VaultTypeOK' /\ DecoyInv' /\ ReadIsOnDisk'
  BY <1>1, <1>3, <1>4, <1>5 DEF VaultInv, VaultTypeOK, DecoyInv, ReadIsOnDisk, OnTheWay
<1>7. ImportIsAlone'
  <2>1. ASSUME NEW o \in VaultCalls, NEW b \in Assets, Importing(doing'[o], b)
        PROVE  /\ files'[b] = NoAsset /\ disk[b] = NoAsset /\ b \notin erased
               /\ \A p \in VaultCalls \ {o} : ~Touching(doing'[p], b)
    <3>1. o # c /\ Importing(doing[o], b)
      BY <1>3, <1>4, <2>1 DEF Importing
    <3>2. ~Touching(r, b)
      <4>1. ~Touching(doing[c], b)
        BY <3>1 DEF VaultInv, ImportIsAlone
      <4> QED BY <1>2, <1>3, <4>1 DEF Touching
    <3> QED BY <1>4, <1>5, <3>1, <3>2 DEF VaultInv, ImportIsAlone
  <2> QED BY <1>1, <2>1 DEF ImportIsAlone, Importing, Touching
<1>8. NothingWritesErased'
  <2>1. ASSUME NEW b \in (erased \ excused) \cap Assets
        PROVE  files'[b] = NoAsset /\ \A o \in VaultCalls : ~Writing(doing'[o], b)
    BY <1>3, <1>4, <1>5, <2>1 DEF VaultInv, NothingWritesErased, Writing
  <2> QED BY <1>1, <2>1 DEF VaultInv, NothingWritesErased, Writing
<1> QED BY <1>1, <1>6, <1>7, <1>8 DEF VaultInv

LEMMA DeleteKeepsInv == ASSUME VaultInv, NEW c \in VaultCalls, DeleteAsset(c) PROVE VaultInv'
<1> DEFINE a == doing[c].asset
<1>1. /\ doing[c].pc = "delete" /\ End(c) /\ doing' = [doing EXCEPT ![c] = Idle]
      /\ UNCHANGED <<dak, made, files, hydrate, policy, duress, pages, late>>
  BY DEF DeleteAsset, End, KeepSession
<1>2. doing[c] \in [op : {"remove"}, pc : {"drop", "delete"}, asset : Assets, keys : Seq(Nat), mine : BOOLEAN]
  BY <1>1, CallsAt DEF VaultInv, VaultTypeOK
<1>3. CASE UNCHANGED <<disk, erased, excused, screen>>
  BY <1>1, <1>3, EndMoves DEF VaultInv, VaultTypeOK
<1>4. CASE /\ disk' = [disk EXCEPT ![a] = NoAsset] /\ erased' = erased \cup {a}
           /\ excused' = IF ComesBack(c, a) THEN excused \cup {a} ELSE excused
           /\ screen' = IF doing[c].mine /\ screen.selected = a
                        THEN [screen EXCEPT !.selected = None0, !.media = None0] ELSE screen
  <2>1. screen' \in VaultScreen /\ screen'.decoy = screen.decoy
    <3>1. None0 \in Names
      BY DEF Names
    <3> QED BY <1>4, <3>1 DEF VaultInv, VaultTypeOK, VaultScreen
  <2>2. Idle \in VaultRecord /\ Idle.pc = "idle" /\ Idle.op = "idle"
    BY DEF Idle, VaultRecord
  <2>3. doing' \in [VaultCalls -> VaultRecord] /\ doing'[c] = Idle /\ \A o \in VaultCalls \ {c} : doing'[o] = doing[o]
    BY <1>1, <2>2 DEF VaultInv, VaultTypeOK
  <2>4. /\ disk' \in [Assets -> Seq(Nat)] /\ \A b \in Assets \ {a} : disk'[b] = disk[b] /\ disk'[a] = NoAsset
        /\ disk'[a] = NoAsset
    BY <1>2, <1>4 DEF VaultInv, VaultTypeOK, NoAsset
  <2>5. VaultTypeOK' /\ DecoyInv' /\ ReadIsOnDisk' /\ erased' \subseteq Assets
    <3>1. VaultTypeOK' /\ DecoyInv'
      BY <1>1, <2>1, <2>2, <2>3, <2>4 DEF VaultInv, VaultTypeOK, DecoyInv, OnTheWay
    <3>2. ReadIsOnDisk' /\ erased' \subseteq Assets
      BY <1>1, <1>2, <1>4, <2>4 DEF VaultInv, ReadIsOnDisk
    <3> QED BY <3>1, <3>2
  <2>6. \A o \in VaultCalls : ~Importing(doing[o], a)
    <3>1. ASSUME NEW o \in VaultCalls, Importing(doing[o], a) PROVE FALSE
      <4>1. o # c
        BY <1>2, <3>1 DEF Importing
      <4>2. Touching(doing[c], a) /\ a \in Assets
        BY <1>2 DEF Touching
      <4> QED BY <3>1, <4>1, <4>2 DEF VaultInv, ImportIsAlone
    <3> QED BY <3>1
  <2>7. ImportIsAlone'
    <3>1. ASSUME NEW o \in VaultCalls, NEW b \in Assets, Importing(doing'[o], b)
          PROVE  /\ files[b] = NoAsset /\ disk'[b] = NoAsset /\ b \notin erased'
                 /\ \A p \in VaultCalls \ {o} : ~Touching(doing'[p], b)
      <4>1. o # c /\ Importing(doing[o], b)
        BY <2>2, <2>3, <3>1 DEF Importing
      <4>2. b # a
        BY <2>6, <4>1
      <4>3. ~Touching(Idle, b)
        BY <2>2 DEF Touching
      <4> QED BY <1>4, <2>3, <2>4, <4>1, <4>2, <4>3 DEF VaultInv, ImportIsAlone
    <3> QED BY <1>1, <3>1 DEF ImportIsAlone, Importing, Touching
  <2>8. NothingWritesErased'
    <3>1. ASSUME NEW b \in (erased' \ excused') \cap Assets
          PROVE  /\ files[b] = NoAsset /\ disk'[b] = NoAsset /\ hydrate.read[b] = NoAsset
                 /\ \A o \in VaultCalls : ~Writing(doing'[o], b)
      <4>1. \A o \in VaultCalls : Writing(doing'[o], b) => o # c /\ Writing(doing[o], b)
        BY <2>2, <2>3 DEF Writing
      <4>2. CASE b = a
        <5>1. ~ComesBack(c, a)
          BY <1>4, <3>1, <4>2
        <5>2. files[a] = NoAsset /\ (hydrate.pc = "load" => hydrate.read[a] = NoAsset)
          BY <5>1 DEF ComesBack
        <5>3. hydrate.read[a] = NoAsset
          BY <1>2, <5>2 DEF VaultInv, ReadIsOnDisk
        <5>4. \A o \in VaultCalls \ {c} : ~Writing(doing[o], a)
          BY <5>1 DEF ComesBack, Writing
        <5> QED BY <2>4, <4>1, <4>2, <5>2, <5>3, <5>4
      <4>3. CASE b # a
        <5>1. b \in (erased \ excused) \cap Assets
          BY <1>4, <3>1, <4>3
        <5> QED BY <2>4, <4>1, <4>3, <5>1 DEF VaultInv, NothingWritesErased
      <4> QED BY <4>2, <4>3
    <3> QED BY <1>1, <3>1 DEF NothingWritesErased, Writing
  <2> QED BY <2>5, <2>7, <2>8 DEF VaultInv
<1> QED BY <1>3, <1>4 DEF DeleteAsset

(* Calls that begin at the first step of their operation.                   *)
LEMMA DashboardRecords ==
  /\ \A a \in Assets : /\ Call("remove", EntryOf("remove"), a) \in VaultRecord
                       /\ Call("remove", EntryOf("remove"), a).op = "remove"
                       /\ Call("remove", EntryOf("remove"), a).asset = a
  /\ \A a \in Assets : /\ Call("play", EntryOf("play"), a) \in VaultRecord /\ Call("play", EntryOf("play"), a).op = "play"
                      /\ Call("reauth", "confirm", a) \in VaultRecord /\ Call("reauth", "confirm", a).op = "reauth"
  /\ Call("test", "prompt", None0) \in VaultRecord /\ Call("test", "prompt", None0).op = "test"
  /\ Call("duress", "alert", None0) \in VaultRecord /\ Call("duress", "alert", None0).op = "duress"
  /\ Call("guard", "prompt", None0) \in VaultRecord /\ Call("guard", "prompt", None0).op = "guard"
<1>a. NoAsset \in Seq(Nat)
  BY DEF NoAsset
<1>1. EntryOf("remove") \in {"prompt", "drop"} /\ EntryOf("play") \in {"prompt", "stream"}
  BY DEF EntryOf, Next0, Viewer
<1>2. ASSUME NEW a \in Assets
      PROVE  /\ Call("remove", EntryOf("remove"), a) \in VaultRecord
             /\ Call("remove", EntryOf("remove"), a).op = "remove"
             /\ Call("remove", EntryOf("remove"), a).asset = a
  BY <1>1, <1>a DEF Call, VaultRecord
<1>3. ASSUME NEW a \in Assets
      PROVE  /\ Call("play", EntryOf("play"), a) \in VaultRecord /\ Call("play", EntryOf("play"), a).op = "play"
             /\ Call("reauth", "confirm", a) \in VaultRecord /\ Call("reauth", "confirm", a).op = "reauth"
  <2>1. Call("play", EntryOf("play"), a) \in VaultRecord /\ Call("play", EntryOf("play"), a).op = "play"
    BY <1>1, <1>a DEF Call, VaultRecord, Viewer
  <2>2. Call("reauth", "confirm", a) \in VaultRecord /\ Call("reauth", "confirm", a).op = "reauth"
    BY <1>a DEF Call, VaultRecord, Viewer
  <2> QED BY <2>1, <2>2
<1>4. None0 \in Names
  BY DEF Names
<1>5. Call("test", "prompt", None0) \in VaultRecord /\ Call("test", "prompt", None0).op = "test"
  BY <1>4, <1>a DEF Call, VaultRecord
<1>6. Call("duress", "alert", None0) \in VaultRecord /\ Call("duress", "alert", None0).op = "duress"
  BY <1>4, <1>a DEF Call, VaultRecord
<1>7. Call("guard", "prompt", None0) \in VaultRecord /\ Call("guard", "prompt", None0).op = "guard"
  BY <1>4, <1>a DEF Call, VaultRecord
<1> QED BY <1>2, <1>3, <1>5, <1>6, <1>7

LEMMA VaultStepKeepsInv == ASSUME VaultInv, NEW c \in VaultCalls, VaultStep(c) PROVE VaultInv'
<1>a. /\ dak \in Nat /\ made \in Nat /\ duress \in BOOLEAN /\ screen \in VaultScreen
      /\ doing \in [VaultCalls -> VaultRecord] /\ doing[c] \in VaultRecord /\ files \in [Assets -> Seq(Nat)]
      /\ None0 \in Names
  BY DEF VaultInv, VaultTypeOK, Names
<1>1. CASE Refuse(c)
  <2>1. screen' \in VaultScreen /\ screen'.decoy = screen.decoy
    BY <1>1, <1>a DEF Refuse, VaultScreen
  <2> QED BY <1>1, <1>a, <2>1, EndMoves DEF Refuse, KeepSession, KeepFiles
<1>2. CASE Confirm(c)
  <2>1. CASE dak = 0
    <3>1. Goto(c, "make") /\ doing[c].pc = "prompt"
          /\ UNCHANGED <<dak, made, files, disk, hydrate, erased, excused, screen, policy, duress, pages, late>>
      BY <1>2, <2>1 DEF Confirm, KeepSession, KeepFiles, KeepPage
    <3>2. [doing[c] EXCEPT !.pc = "make"] \in VaultRecord
      <4>1. doing[c] \in VaultRecord /\ doing[c].pc = "prompt"
        BY <1>a, <3>1
      <4> QED BY <4>1, StepStays
    <3> QED BY <1>a, <3>1, <3>2, GotoMoves DEF OnTheWay
  <2>2. CASE dak # 0
    BY <1>2, <1>a, <2>2, ResumeMoves DEF Confirm, KeepSession, KeepFiles, KeepPage
  <2> QED BY <2>1, <2>2
<1>3. CASE NewVaultKey(c)
  <2>1. dak' \in Nat /\ made' \in Nat
    BY <1>3, <1>a DEF NewVaultKey
  <2> QED BY <1>3, <1>a, <2>1, ResumeMoves DEF NewVaultKey, KeepFiles, KeepPage
<1>4. CASE StartRemove(c)
  <2>1. PICK a \in Assets : /\ files[a] # NoAsset
                            /\ Begin(c, Dashboard, Call("remove", EntryOf("remove"), a))
    BY <1>4 DEF StartRemove
  <2> DEFINE r == Call("remove", EntryOf("remove"), a)
  <2>2. r \in VaultRecord /\ r.op = "remove" /\ r.asset = a
    BY DashboardRecords
  <2>3. Begin(c, Dashboard, r)
    BY <2>1
  <2> HIDE DEF r
  <2> QED BY <1>4, <1>a, <2>1, <2>2, <2>3, BeginMoves DEF StartRemove, Open, KeepSession, KeepFiles, KeepPage
<1>5. CASE Play(c)
  <2>1. screen.selected \in Assets
    BY <1>5, <1>a DEF Play, VaultScreen, Names
  <2> DEFINE r == Call("play", EntryOf("play"), screen.selected)
  <2>2. r \in VaultRecord /\ r.op = "play" /\ Begin(c, Viewer, r)
    BY <1>5, <2>1, DashboardRecords DEF Play
  <2> HIDE DEF r
  <2> QED BY <1>5, <1>a, <2>2, BeginMoves DEF Play, Open, KeepSession, KeepFiles, KeepPage
<1>6. CASE Reauth(c)
  <2>1. screen.selected \in Assets
    BY <1>6, <1>a DEF Reauth, VaultScreen, Names
  <2> DEFINE r == Call("reauth", "confirm", screen.selected)
  <2>2. r \in VaultRecord /\ r.op = "reauth" /\ Begin(c, Viewer, r)
    BY <1>6, <2>1, DashboardRecords DEF Reauth
  <2> HIDE DEF r
  <2>3. screen' \in VaultScreen /\ screen'.decoy = screen.decoy
    BY <1>6, <1>a DEF Reauth, VaultScreen
  <2> QED BY <1>6, <1>a, <2>2, <2>3, BeginMoves DEF Reauth, Open, Locked, KeepFiles
<1>7. CASE Reconfirm(c)
  <2>1. /\ doing[c].pc = "confirm" /\ doing[c].op = "reauth" /\ Goto(c, "prompt")
        /\ UNCHANGED <<dak, made, files, disk, hydrate, erased, excused, screen, policy, duress, pages, late>>
    BY <1>7 DEF Reconfirm, KeepSession, KeepFiles, KeepPage
  <2>2. [doing[c] EXCEPT !.pc = "prompt"] \in VaultRecord
    BY <1>a, <2>1, StepStays
  <2> QED BY <1>a, <2>1, <2>2, GotoMoves DEF OnTheWay
<1>8. CASE OpenStream(c)
  <2> DEFINE records == files[doing[c].asset]
  <2>1. /\ doing[c].pc = "stream"
        /\ doing' = [doing EXCEPT ![c] =
                       IF records = NoAsset THEN Idle ELSE [doing[c] EXCEPT !.pc = "chunks", !.keys = records]]
        /\ UNCHANGED <<dak, made, files, disk, hydrate, erased, excused, screen, policy, duress, pages, late>>
    BY <1>8 DEF OpenStream, KeepSession, KeepFiles, KeepPage
  <2>2. doing[c] \in [op : Viewer, pc : {"stream", "chunks"}, asset : Assets, keys : Seq(Nat), mine : BOOLEAN]
    BY <1>a, <2>1, CallsAt
  <2>3. CASE records = NoAsset
    BY <1>a, <2>1, <2>3, EndMoves DEF End
  <2>4. CASE records # NoAsset
    <3> DEFINE r == [doing[c] EXCEPT !.pc = "chunks", !.keys = records]
    <3>1. doing' = [doing EXCEPT ![c] = r]
      BY <2>1, <2>4
    <3>2. records \in Seq(Nat)
      BY <1>a, <2>2
    <3> HIDE DEF records
    <3>3. r \in VaultRecord /\ r.op \in Viewer /\ r.pc = "chunks"
      BY <2>2, <3>2 DEF VaultRecord
    <3> HIDE DEF r
    <3>4. r.op \notin {"import", "remove"} /\ r.pc \notin OnTheWay
      BY <3>3 DEF Viewer, OnTheWay
    <3>5. \A a \in Assets : ~Touching(r, a) /\ ~Importing(r, a) /\ ~Writing(r, a)
      BY <3>4 DEF Touching, Importing, Writing
    <3> QED BY <1>a, <2>1, <3>1, <3>3, <3>4, <3>5, CallMoves
  <2> QED BY <2>3, <2>4
<1>9. CASE DecryptChunk(c)
  <2> DEFINE opens == dak = Head(doing[c].keys)
             rest == Tail(doing[c].keys)
  <2>1. /\ doing[c].pc = "chunks"
        /\ doing' = [doing EXCEPT ![c] = IF opens /\ Len(doing[c].keys) > 1
                                         THEN [doing[c] EXCEPT !.keys = rest] ELSE Idle]
        /\ screen' = screen \/ screen' = [screen EXCEPT !.media = doing[c].asset]
        /\ UNCHANGED <<dak, made, files, disk, hydrate, erased, excused, policy, duress, pages, late>>
    BY <1>9 DEF DecryptChunk, KeepSession, KeepFiles
  <2>2. doing[c] \in [op : Viewer, pc : {"stream", "chunks"}, asset : Assets, keys : Seq(Nat), mine : BOOLEAN]
    BY <1>a, <2>1, CallsAt
  <2>3. screen' \in VaultScreen /\ screen'.decoy = screen.decoy
    BY <1>a, <2>1, <2>2 DEF VaultScreen, Names
  <2>4. CASE ~(opens /\ Len(doing[c].keys) > 1)
    BY <1>a, <2>1, <2>3, <2>4, EndMoves DEF End
  <2>5. CASE opens /\ Len(doing[c].keys) > 1
    <3> DEFINE r == [doing[c] EXCEPT !.keys = rest]
    <3>1. doing' = [doing EXCEPT ![c] = r]
      BY <2>1, <2>5
    <3>2. rest \in Seq(Nat)
      BY <2>2, <2>5
    <3> HIDE DEF rest
    <3>3. r \in VaultRecord /\ r.op \in Viewer /\ r.pc = "chunks"
      BY <2>1, <2>2, <3>2 DEF VaultRecord
    <3> HIDE DEF r
    <3>4. r.op \notin {"import", "remove"} /\ r.pc \notin OnTheWay
      BY <3>3 DEF Viewer, OnTheWay
    <3>5. \A a \in Assets : ~Touching(r, a) /\ ~Importing(r, a) /\ ~Writing(r, a)
      BY <3>4 DEF Touching, Importing, Writing
    <3> QED BY <1>a, <2>1, <2>3, <3>1, <3>3, <3>4, <3>5, CallMoves
  <2> QED BY <2>4, <2>5
<1>10. CASE TestStepUp(c)
  <2> DEFINE r == Call("test", "prompt", None0)
  <2>1. r \in VaultRecord /\ r.op = "test" /\ Begin(c, Dashboard, r)
    BY <1>10, DashboardRecords DEF TestStepUp
  <2> HIDE DEF r
  <2> QED BY <1>10, <1>a, <2>1, BeginMoves DEF TestStepUp, Open, KeepSession, KeepFiles, KeepPage
<1>11. CASE StartDuress(c)
  <2> DEFINE r == Call("duress", "alert", None0)
  <2>1. r \in VaultRecord /\ r.op = "duress" /\ Begin(c, Dashboard, r)
    BY <1>11, DashboardRecords DEF StartDuress
  <2> HIDE DEF r
  <2> QED BY <1>11, <1>a, <2>1, BeginMoves DEF StartDuress, Open, Locked, KeepFiles
<1>12. CASE EndDuress(c)
  <2>1. /\ End(c) /\ doing' = [doing EXCEPT ![c] = Idle] /\ dak' = 0
        /\ UNCHANGED <<made, files, disk, hydrate, erased, excused, policy, duress, pages>>
        /\ late' = \E o \in VaultCalls \ {c} : doing[o].pc \in Unlocking \cup {"confirm"}
    BY <1>12 DEF EndDuress, End, Locked, KeepFiles
  <2>2. screen' \in VaultScreen
    <3>1. screen' = screen \/ screen' = [screen EXCEPT !.decoy = TRUE, !.selected = None0, !.media = None0]
      BY <1>12 DEF EndDuress
    <3> QED BY <1>a, <3>1 DEF VaultScreen
  <2>3. /\ Idle \in VaultRecord /\ Idle.pc = "idle" /\ Idle.op = "idle"
    BY DEF Idle, VaultRecord
  <2>4. doing' \in [VaultCalls -> VaultRecord] /\ doing'[c] = Idle /\ \A o \in VaultCalls \ {c} : doing'[o] = doing[o]
    BY <1>a, <2>1, <2>3
  <2>5. late' \in BOOLEAN
    BY <2>1
  <2>6. VaultTypeOK'
    BY <2>1, <2>2, <2>4, <2>5 DEF VaultInv, VaultTypeOK
  <2>7. DecoyInv'
    <3>1. ASSUME ~late' PROVE \A o \in VaultCalls : doing'[o].pc \notin OnTheWay
      <4>1. \A o \in VaultCalls \ {c} : doing[o].pc \notin Unlocking \cup {"confirm"}
        BY <2>1, <3>1
      <4> QED BY <2>3, <2>4, <4>1 DEF Unlocking, OnTheWay
    <3> QED BY <2>1, <3>1 DEF DecoyInv
  <2>8. \A a \in Assets : ~Touching(Idle, a) /\ ~Importing(Idle, a) /\ ~Writing(Idle, a)
    BY <2>3 DEF Touching, Importing, Writing
  <2>9. ImportIsAlone'
    <3>1. ASSUME NEW o \in VaultCalls, NEW a \in Assets, Importing(doing'[o], a)
          PROVE  /\ files[a] = NoAsset /\ disk[a] = NoAsset /\ a \notin erased
                 /\ \A p \in VaultCalls \ {o} : ~Touching(doing'[p], a)
      <4>1. o # c /\ Importing(doing[o], a)
        BY <2>4, <2>8, <3>1
      <4> QED BY <2>4, <2>8, <4>1 DEF VaultInv, ImportIsAlone
    <3> QED BY <2>1, <3>1 DEF ImportIsAlone, Importing, Touching
  <2>10. ReadIsOnDisk'
    BY <2>1 DEF VaultInv, ReadIsOnDisk
  <2>11. NothingWritesErased'
    <3>1. ASSUME NEW a \in (erased \ excused) \cap Assets, NEW o \in VaultCalls PROVE ~Writing(doing'[o], a)
      BY <2>4, <2>8, <3>1 DEF VaultInv, NothingWritesErased
    <3> QED BY <2>1, <3>1 DEF VaultInv, NothingWritesErased, Writing
  <2> QED BY <2>1, <2>6, <2>7, <2>9, <2>10, <2>11 DEF VaultInv
<1>13. CASE AssertAccess(c)
  <2>1. /\ ~screen.decoy
        /\ UNCHANGED <<dak, made, files, disk, hydrate, erased, excused, policy, duress, pages, late>>
    BY <1>13 DEF AssertAccess, KeepSession, KeepFiles
  <2>2. CASE policy.protected /\ ~policy.grace
    <3> DEFINE r == Call("guard", "prompt", None0)
    <3>1. r \in VaultRecord /\ r.op = "guard" /\ Begin(c, {"guard"}, r) /\ screen' = screen
      BY <1>13, <2>2, DashboardRecords DEF AssertAccess
    <3> HIDE DEF r
    <3> QED BY <1>a, <2>1, <3>1, BeginMoves
  <2>3. CASE ~(policy.protected /\ ~policy.grace)
    <3>1. UNCHANGED doing /\ screen' = [screen EXCEPT !.gate = "granted"]
      BY <1>13, <2>3 DEF AssertAccess
    <3>2. screen' \in VaultScreen /\ screen'.decoy = screen.decoy
      BY <1>a, <3>1 DEF VaultScreen
    <3> QED BY <2>1, <3>1, <3>2, PageMoves
  <2> QED BY <2>2, <2>3
<1>14. CASE GrantAccess(c)
  <2>1. screen' \in VaultScreen /\ screen'.decoy = screen.decoy
    BY <1>14, <1>a DEF GrantAccess, VaultScreen
  <2> QED BY <1>14, <1>a, <2>1, EndMoves DEF GrantAccess, KeepSession, KeepFiles
<1> QED BY <1>1, <1>2, <1>3, <1>4, <1>5, <1>6, <1>7, <1>8, <1>9, <1>10, <1>11, <1>12, <1>13, <1>14,
           ImportKeepsInv, EncryptKeepsInv, StoreKeepsInv, PersistKeepsInv, DropKeepsInv, DeleteKeepsInv
        DEF VaultStep

LEMMA VaultNextKeepsInv == ASSUME VaultInv, [VaultNext]_vaultVars PROVE VaultInv'
<1>a. /\ VaultTypeOK /\ DecoyInv /\ ImportIsAlone /\ ReadIsOnDisk /\ NothingWritesErased /\ erased \subseteq Assets
      /\ screen \in VaultScreen /\ None0 \in Names
  BY DEF VaultInv, VaultTypeOK, Names
<1>1. CASE ReadAll
  <2>1. /\ hydrate' = [pc |-> "load", read |-> disk] \/ hydrate' = [hydrate EXCEPT !.pc = "done"]
        /\ hydrate.pc = "read"
        /\ UNCHANGED <<dak, made, doing, files, disk, erased, excused, screen, policy, duress, pages, late>>
    BY <1>1 DEF ReadAll, KeepSession, KeepPage
  <2>2. \A a \in Assets : hydrate.read[a] = NoAsset
    BY <1>a, <2>1 DEF ReadIsOnDisk
  <2>3. /\ hydrate' \in [pc : {"read", "load", "done"}, read : [Assets -> Seq(Nat)]]
        /\ \A a \in Assets : hydrate'.read[a] # NoAsset => hydrate'.pc = "load" /\ hydrate'.read[a] = disk[a]
    <3>1. CASE hydrate' = [pc |-> "load", read |-> disk]
      BY <1>a, <3>1 DEF VaultTypeOK
    <3>2. CASE hydrate' = [hydrate EXCEPT !.pc = "done"]
      <4>1. hydrate \in [pc : {"read", "load", "done"}, read : [Assets -> Seq(Nat)]]
        BY <1>a DEF VaultTypeOK
      <4> QED BY <2>2, <3>2, <4>1
    <3> QED BY <2>1, <3>1, <3>2
  <2>4. VaultTypeOK' /\ DecoyInv' /\ ImportIsAlone'
    BY <1>a, <2>1, <2>3 DEF VaultTypeOK, DecoyInv, ImportIsAlone
  <2>5. ReadIsOnDisk' /\ NothingWritesErased'
    BY <1>a, <2>1, <2>3 DEF ReadIsOnDisk, NothingWritesErased
  <2> QED BY <1>a, <2>1, <2>4, <2>5 DEF VaultInv
<1>2. CASE LoadAll
  <2>1. /\ files' = [a \in Assets |-> IF hydrate.read[a] # NoAsset THEN hydrate.read[a] ELSE files[a]]
        /\ hydrate' = [pc |-> "done", read |-> [a \in Assets |-> NoAsset]]
        /\ UNCHANGED <<dak, made, doing, disk, erased, excused, screen, policy, duress, pages, late>>
    BY <1>2 DEF LoadAll, KeepSession, KeepPage
  <2>2. files' \in [Assets -> Seq(Nat)]
    BY <1>a, <2>1 DEF VaultTypeOK
  <2>3. hydrate' \in [pc : {"read", "load", "done"}, read : [Assets -> Seq(Nat)]] /\ \A a \in Assets : hydrate'.read[a] = NoAsset
    BY <2>1 DEF NoAsset
  <2>4. VaultTypeOK' /\ DecoyInv' /\ ReadIsOnDisk'
    BY <1>a, <2>1, <2>2, <2>3 DEF VaultTypeOK, DecoyInv, ReadIsOnDisk
  <2>5. ImportIsAlone'
    <3>1. ASSUME NEW c \in VaultCalls, NEW a \in Assets, Importing(doing[c], a)
          PROVE  files'[a] = NoAsset
      <4>1. files[a] = NoAsset /\ disk[a] = NoAsset /\ a \notin erased
        BY <1>a, <3>1 DEF ImportIsAlone
      <4>2. hydrate.read[a] = NoAsset
        BY <1>a, <4>1 DEF ReadIsOnDisk
      <4> QED BY <2>1, <4>1, <4>2
    <3> QED BY <1>a, <2>1, <3>1 DEF ImportIsAlone
  <2>6. NothingWritesErased'
    BY <1>a, <2>1, <2>3 DEF NothingWritesErased
  <2> QED BY <1>a, <2>1, <2>4, <2>5, <2>6 DEF VaultInv
<1>3. CASE View
  <2>1. screen' \in VaultScreen /\ screen'.decoy = screen.decoy
    BY <1>3, <1>a DEF View, VaultScreen, Names
  <2> QED BY <1>3, <2>1, PageMoves DEF View, KeepSession, KeepFiles
<1>4. CASE LockButton
  BY <1>4, <1>a, PageMoves DEF LockButton, Locked, KeepFiles, KeepPage
<1>5. CASE SwitchPolicy \/ GraceEnds
  BY <1>5, <1>a, PageMoves DEF SwitchPolicy, GraceEnds, KeepSession, KeepFiles
<1>6. CASE Revisit
  <2> DEFINE left(c) == [doing[c] EXCEPT !.mine = FALSE]
  <2>1. /\ doing' = [c \in VaultCalls |-> left(c)] /\ screen' = NewScreen(duress)
        /\ UNCHANGED <<dak, made, files, disk, hydrate, erased, excused, policy, duress>>
        /\ late' = (late \/ (duress /\ (dak # 0 \/ \E c \in VaultCalls : doing[c].pc # "idle")))
    BY <1>6 DEF Revisit, KeepSession, KeepFiles
  <2>2. ASSUME NEW c \in VaultCalls
        PROVE  left(c) \in VaultRecord /\ left(c).op = doing[c].op /\ left(c).pc = doing[c].pc /\ left(c).asset = doing[c].asset
    <3>1. doing[c] \in VaultRecord
      BY <1>a DEF VaultTypeOK
    <3> QED BY <3>1 DEF VaultRecord
  <2> HIDE DEF left
  <2>3. screen' \in VaultScreen /\ screen'.decoy = duress
    BY <1>a, <2>1 DEF NewScreen, VaultScreen, VaultTypeOK
  <2>4. VaultTypeOK'
    BY <1>a, <2>1, <2>2, <2>3 DEF VaultTypeOK
  <2>5. DecoyInv'
    BY <1>a, <2>1, <2>2, <2>3 DEF DecoyInv, OnTheWay, VaultTypeOK
  <2>6. \A c \in VaultCalls, a \in Assets : /\ Touching(doing'[c], a) <=> Touching(doing[c], a)
                                            /\ Importing(doing'[c], a) <=> Importing(doing[c], a)
                                            /\ Writing(doing'[c], a) <=> Writing(doing[c], a)
    BY <2>1, <2>2 DEF Touching, Importing, Writing
  <2>7. ImportIsAlone'
    <3>1. \A c \in VaultCalls, a \in Assets : Importing(doing'[c], a) =>
             /\ files[a] = NoAsset /\ disk[a] = NoAsset /\ a \notin erased
             /\ \A o \in VaultCalls \ {c} : ~Touching(doing'[o], a)
      BY <1>a, <2>6 DEF ImportIsAlone
    <3> QED BY <2>1, <3>1 DEF ImportIsAlone, Importing, Touching
  <2>8. ReadIsOnDisk'
    BY <1>a, <2>1 DEF ReadIsOnDisk
  <2>9. NothingWritesErased'
    <3>1. \A a \in (erased \ excused) \cap Assets, c \in VaultCalls : ~Writing(doing'[c], a)
      BY <1>a, <2>6 DEF NothingWritesErased
    <3> QED BY <1>a, <2>1, <3>1 DEF NothingWritesErased, Writing
  <2> QED BY <1>a, <2>1, <2>4, <2>5, <2>7, <2>8, <2>9 DEF VaultInv
<1>7. CASE Reload
  <2>1. /\ doing' = [c \in VaultCalls |-> Idle] /\ screen' = NewScreen(FALSE) /\ duress' = FALSE /\ late' = FALSE
        /\ dak' = 0 /\ files' = [a \in Assets |-> NoAsset]
        /\ hydrate' = [pc |-> "read", read |-> [a \in Assets |-> NoAsset]]
        /\ UNCHANGED <<made, disk, erased, excused>>
    BY <1>7 DEF Reload
  <2>2. Idle \in VaultRecord /\ Idle.op = "idle"
    BY DEF VaultRecord, Idle
  <2>3. \A c \in VaultCalls, a \in Assets : /\ ~Importing(doing'[c], a) /\ ~Writing(doing'[c], a)
                                            /\ doing'[c] = Idle
    BY <2>1, <2>2 DEF Importing, Writing
  <2>4. screen' \in VaultScreen /\ ~screen'.decoy
    BY <1>a, <2>1 DEF NewScreen, VaultScreen
  <2>5. NoAsset \in Seq(Nat)
    BY DEF NoAsset
  <2>6. /\ files' \in [Assets -> Seq(Nat)]
        /\ hydrate' \in [pc : {"read", "load", "done"}, read : [Assets -> Seq(Nat)]]
        /\ doing' \in [VaultCalls -> VaultRecord]
    BY <2>1, <2>2, <2>5
  <2>7. VaultTypeOK'
    BY <1>a, <2>1, <2>4, <2>6 DEF VaultTypeOK
  <2>8. DecoyInv' /\ ReadIsOnDisk'
    BY <2>1, <2>4 DEF DecoyInv, ReadIsOnDisk
  <2>9. ImportIsAlone' /\ NothingWritesErased'
    BY <1>a, <2>1, <2>3 DEF ImportIsAlone, NothingWritesErased, Importing, Writing
  <2> QED BY <1>a, <2>1, <2>7, <2>8, <2>9 DEF VaultInv
<1>8. CASE UNCHANGED vaultVars
  BY <1>a, <1>8, PageMoves DEF vaultVars
<1> QED BY <1>1, <1>2, <1>3, <1>4, <1>5, <1>6, <1>7, <1>8, VaultStepKeepsInv DEF VaultNext

(* The vault's invariant.                                                   *)
THEOREM VaultInvariant == VaultSpec => []VaultInv
<1>1. VaultInit => VaultInv
  <2> SUFFICES ASSUME VaultInit PROVE VaultInv
    OBVIOUS
  <2>1. Idle \in VaultRecord /\ Idle.op = "idle"
    BY DEF VaultRecord, Idle
  <2>2. NoAsset \in Seq(Nat) /\ None0 \in Names
    BY DEF NoAsset, Names
  <2>3. /\ files = [a \in Assets |-> NoAsset] /\ disk = [a \in Assets |-> NoAsset]
        /\ hydrate = [pc |-> "read", read |-> [a \in Assets |-> NoAsset]]
        /\ doing = [c \in VaultCalls |-> Idle] /\ screen = NewScreen(FALSE)
        /\ dak = 0 /\ made = 0 /\ duress = FALSE /\ late = FALSE /\ erased = {}
    BY DEF VaultInit
  <2>4. VaultTypeOK
    <3>1. screen \in VaultScreen
      BY <2>2, <2>3 DEF NewScreen, VaultScreen
    <3> QED BY <2>1, <2>2, <2>3, <3>1 DEF VaultTypeOK
  <2>5. DecoyInv /\ ImportIsAlone /\ ReadIsOnDisk /\ NothingWritesErased
    BY <2>1, <2>3 DEF DecoyInv, NewScreen, ImportIsAlone, Importing, ReadIsOnDisk, NothingWritesErased
  <2> QED BY <2>3, <2>4, <2>5 DEF VaultInv
<1> QED BY <1>1, VaultNextKeepsInv, PTL DEF VaultSpec

(* However calls of the page interleave, are left behind or are reloaded,   *)
(* the decoy hides a locked vault unless an unlock was on its way at the    *)
(* second lock; and a deleted asset is gone from memory and IndexedDB,      *)
(* unless an import left behind or a start that had read it brings it back. *)
(* Stated for any number of calls, assets, keys and pages.                  *)
THEOREM VaultIsSoundHolds == VaultSpec => []VaultIsSound
<1>1. VaultInv => VaultIsSound
  BY DEF VaultInv, DecoyInv, NothingWritesErased, VaultIsSound, DecoyIsLocked, ErasedStaysErased
<1> QED BY <1>1, VaultInvariant, PTL
=============================================================================
