----------------------------- MODULE AccessTokens -----------------------------
(***************************************************************************)
(* What becomes of a grant: calls of auth-service's /token sign access     *)
(* tokens for it (oauth.rs), and requests with these tokens reach the      *)
(* handlers of user-service and merchant-service through the extractors of *)
(* svc-auth (extract.rs).  Sessions, passkeys and the grants themselves    *)
(* are those of AuthRequests; the codes and refresh tokens that a call of  *)
(* /token presents are those of AuthGrants.  A call or request that is     *)
(* refused before its handler runs changes nothing, and is left out.       *)
(***************************************************************************)
EXTENDS AuthRequests

CONSTANTS
  TokenCalls,    \* calls of /token, and the access tokens they sign
  Accesses,      \* requests to resource servers
  Confidential,  \* clients that have a secret
  AccessTTL,     \* ACCESS_TOKEN_TTL_SECS
  Leeway,        \* LEEWAY_SECS
  StepUpMaxAge   \* STEP_UP_MAX_AGE_SECS

ASSUME AccessAssumption ==
  /\ Confidential \subseteq Clients
  /\ None \notin TokenCalls
  /\ AccessTTL \in Nat /\ Leeway \in Nat /\ StepUpMaxAge \in Nat
  /\ "merchant" \in AlwaysMfa   \* MfaPolicy::Always for the merchant API

VARIABLES
  answered,  \* history: answered[c] is when call c of SignIn succeeded
  revoked,   \* revoked[f]: revoked_at of the grant of f, or None
  token,     \* token[t]: the handler of call t, and its token
  access     \* access[a]: the handler of request a

tokenVars  == <<revoked, token, access>>
accessVars == <<allVars, answered, tokenVars>>

TokenState == [pc     : {"idle", "sign", "signed"},
               client : Clients \cup {None},    \* whom it authenticated
               grant  : FlowCalls \cup {None},
               loaded : Int,                    \* when it read the grant
               iat    : Int]
NoToken == [pc |-> "idle", client |-> None, grant |-> None, loaded |-> 0, iat |-> 0]

(* approve stands for both handlers that ask for a recent second factor,   *)
(* manage for the operations of the merchant API, read for the others.     *)
AccessOps   == {"read", "approve", "manage"}
AccessState == [pc    : {"idle", "verified", "insufficient_scope", "step_up", "served"},
                op    : AccessOps \cup {None},
                token : TokenCalls \cup {None},
                at    : Int]                    \* the time of its last step
NoAccess == [pc |-> "idle", op |-> None, token |-> None, at |-> 0]

AccessTypeOK ==
  /\ answered \in [Calls -> Int]
  /\ revoked \in [FlowCalls -> Int \cup {None}]
  /\ token \in [TokenCalls -> TokenState]
  /\ access \in [Accesses -> AccessState]

AccessInit ==
  /\ Init /\ FlowInit
  /\ answered = [c \in Calls |-> 0]
  /\ revoked = [f \in FlowCalls |-> None]
  /\ token = [t \in TokenCalls |-> NoToken]
  /\ access = [a \in Accesses |-> NoAccess]

-----------------------------------------------------------------------------
(***************************************************************************)
(* /token.                                                                 *)
(***************************************************************************)
(* authenticate_client: a client that has a secret must send it, and one   *)
(* without a secret must send none.                                        *)
Secrets == {"none", "right", "wrong"}
Authenticated(c, secret) == secret = IF c \in Confidential THEN "right" ELSE "none"

(* Mutated form: any client that has authenticated is served.              *)
HonouredForAnyone(f, c) == grant[f] # None /\ revoked[f] = None

(* Mutated form: a revoked grant is still honoured.                        *)
HonouredForever(f, c) == grant[f] # None /\ flow[f].params.client = c

(* load_grant and the checks of exchange_code and of refresh.              *)
Honoured(f, c) == grant[f] # None /\ revoked[f] = None /\ flow[f].params.client = c

(* token, down to the checks of its transaction, with a credential of f.   *)
LoadGrant(t) ==
  /\ token[t].pc = "idle"
  /\ \E f \in FlowCalls, c \in Clients, secret \in Secrets :
       /\ Authenticated(c, secret) /\ Honoured(f, c)
       /\ token' = [token EXCEPT ![t] = [NoToken EXCEPT !.pc = "sign", !.client = c, !.grant = f, !.loaded = now]]
  /\ UNCHANGED <<allVars, answered, revoked, access>>

(* token_response, after the commit: signed from the grant as it was read. *)
Sign(t) ==
  /\ token[t].pc = "sign"
  /\ token' = [token EXCEPT ![t].pc = "signed", ![t].iat = now]
  /\ UNCHANGED <<allVars, answered, revoked, access>>

(* Mutated form: auth_time is the time of signing.                         *)
ClaimsAuthedNow(t) ==
  LET g == grant[token[t].grant] IN
  [aud |-> g.resource, scope |-> g.scope, exp |-> token[t].iat + AccessTTL,
   hwk |-> g.acr = "mfa", auth |-> token[t].iat]

(* The claims, of a row of grants that only revoked_at changes in.  amr    *)
(* has hwk exactly when acr is mfa.                                        *)
Claims(t) ==
  LET g == grant[token[t].grant] IN
  [aud |-> g.resource, scope |-> g.scope, exp |-> token[t].iat + AccessTTL,
   hwk |-> g.acr = "mfa", auth |-> g.auth]

(* revoke_grant, by /revoke or by a refresh or an exchange that notices    *)
(* misuse.                                                                 *)
Revoke(f) ==
  /\ grant[f] # None /\ revoked[f] = None
  /\ revoked' = [revoked EXCEPT ![f] = now]
  /\ UNCHANGED <<allVars, answered, token, access>>

-----------------------------------------------------------------------------
(***************************************************************************)
(* Requests to the resource servers.                                       *)
(***************************************************************************)
Api(op) == IF op = "manage" THEN "merchant" ELSE "user"

(* What decode checks.  The revoked grants of the verifier are none:       *)
(* nothing calls its revoke_grant.                                         *)
Verifies(t, op) == Claims(t).aud = Api(op) /\ Claims(t).exp + Leeway >= now

(* The extractor, with a token that it accepts.                            *)
Authenticate(a) ==
  /\ access[a].pc = "idle"
  /\ \E op \in AccessOps, t \in TokenCalls :
       /\ token[t].pc = "signed" /\ Verifies(t, op)
       /\ access' = [access EXCEPT ![a] = [pc |-> "verified", op |-> op, token |-> t, at |-> now]]
  /\ UNCHANGED <<allVars, answered, revoked, token>>

HasFreshMfa(claims) == claims.hwk /\ now - claims.auth <= StepUpMaxAge

(* require_scope, require_fresh_mfa, and what the handler does.            *)
Decided(op, claims) ==
  CASE op = "manage" /\ "merchant" \notin claims.scope -> "insufficient_scope"
    [] op = "approve" /\ ~HasFreshMfa(claims) -> "step_up"
    [] OTHER -> "served"

Perform(a) ==
  /\ access[a].pc = "verified"
  /\ access' = [access EXCEPT ![a].pc = Decided(access[a].op, Claims(access[a].token)), ![a].at = now]
  /\ UNCHANGED <<allVars, answered, revoked, token>>

-----------------------------------------------------------------------------
(* The rest of auth-service; a call of SignIn that succeeds is noted.      *)
GrantStep ==
  /\ FlowStep
  /\ answered' = [c \in Calls |-> IF call'[c].pc = "done" /\ call[c].pc # "done" THEN now ELSE answered[c]]
  /\ UNCHANGED tokenVars

AccessFinished ==
  /\ \A t \in TokenCalls : token[t].pc # "sign"
  /\ \A a \in Accesses : access[a].pc # "verified"
  /\ FlowFinished /\ UNCHANGED <<answered, tokenVars>>

AccessNext ==
  \/ GrantStep
  \/ \E t \in TokenCalls : LoadGrant(t) \/ Sign(t)
  \/ \E f \in FlowCalls : Revoke(f)
  \/ \E a \in Accesses : Authenticate(a) \/ Perform(a)
  \/ AccessFinished

AccessSpec == AccessInit /\ [][AccessNext]_accessVars

-----------------------------------------------------------------------------
GrantOf(a) == token[access[a].token].grant
Served(a, ops) == access[a].pc = "served" /\ access[a].op \in ops

(* A passkey of the granting user answered a challenge in the session that *)
(* approved the grant of f, no earlier than `since'.                       *)
ProvedSince(f, since) ==
  \E c \in Calls :
    /\ call[c].proved /\ call[c].pc = "done" /\ Handle[call[c].key] = grant[f].user
    /\ \/ call[c].op = "passkey" /\ c = flow[f].cookie
       \/ call[c].op \in {"factor", "register"} /\ call[c].cookie = flow[f].cookie
    /\ answered[c] >= since

(* An order is approved, or a pickup location verified, only for a user    *)
(* who used a passkey at most StepUpMaxAge before, in the session behind   *)
(* the token: however old session, grant and token are by then.  And the   *)
(* merchant API serves only users who have used one, although its handlers *)
(* look at the scope alone.                                                *)
ServedIsProven ==
  \A a \in Accesses :
    /\ Served(a, {"approve"}) => ProvedSince(GrantOf(a), access[a].at - StepUpMaxAge)
    /\ Served(a, {"manage"}) => ProvedSince(GrantOf(a), 0)

(* What is served is what was approved: by the client that started the     *)
(* request, at the API it named, and with consent where it is not ours.    *)
ServedAsApproved ==
  \A a \in Accesses : Served(a, AccessOps) =>
    LET me == flow[GrantOf(a)] IN
    /\ token[access[a].token].client = me.params.client
    /\ me.params.resource = Api(access[a].op)
    /\ me.params.client \notin FirstParty => me.consent
    /\ access[a].op = "manage" => "merchant" \in me.params.scope

(* A step-up is worth its while: after one with max_age, an operation asks *)
(* for another only when the rest of StepUpMaxAge has passed.              *)
StepUpSuffices ==
  \A a \in Accesses : access[a].pc = "step_up" =>
    LET me == flow[GrantOf(a)] IN
    me.params.step_up => access[a].at - me.at > StepUpMaxAge - me.params.max_age

(* A revoked grant runs out: its tokens are those of calls that read it    *)
(* before, and none is accepted after its life.                            *)
RevokedRunsOut ==
  [][\A a \in Accesses : access[a].pc = "idle" /\ access'[a].pc = "verified" =>
       LET t == access'[a].token IN
       /\ now - token[t].iat <= AccessTTL + Leeway
       /\ revoked[token[t].grant] # None => token[t].loaded <= revoked[token[t].grant]]_accessVars

(* Tokens of a revoked grant are rejected "from now on" (verifier.rs:123). *)
RevokedIsRejected ==
  [][\A a \in Accesses : access[a].pc = "idle" /\ access'[a].pc = "verified" =>
       revoked[token[access'[a].token].grant] = None]_accessVars
===============================================================================
