----------------------------- MODULE AuthRequests -----------------------------
(***************************************************************************)
(* Authorization requests of auth-service: /authorize (oauth.rs) parks a   *)
(* validated request, and flow.rs tells the screens what it still needs    *)
(* (get_request) and answers it with a grant (complete) or a refusal       *)
(* (deny).  Their handlers run next to those of SignIn, on the same        *)
(* sessions and passkeys, one statement at a time.  A grant is named after *)
(* the call of complete that inserts it.                                   *)
(***************************************************************************)
EXTENDS SignIn

CONSTANTS
  Requests,     \* /authorize calls, and the requests they park
  FlowCalls,    \* calls of get_request, complete and deny
  FlowOffered,  \* those that the clients of an instance make
  Queries,      \* what clients send to /authorize in an instance
  Clients,      \* registered clients
  FirstParty,   \* those of FIRST_PARTY
  Resources,
  Scopes,       \* Scopes[r]: the scopes of resource r
  AlwaysMfa,    \* resources with MfaPolicy::Always
  RequestTTL    \* life of a parked request

DefaultResource == "mcp"     \* what Alexa may leave out
DefaultClient   == "alexa"

(* The registry of the code, for an instance to give the constants.  The   *)
(* second factor: for no request, those that ask for a step-up, or all.    *)
Registry == [user     |-> [scopes |-> {"openid", "email"}, mfa |-> "StepUp"],
             merchant |-> [scopes |-> {"openid", "email", "merchant"}, mfa |-> "Always"],
             mcp      |-> [scopes |-> {"openid", "delivery"}, mfa |-> "None"]]
RegistryResources == DOMAIN Registry
RegistryScopes    == [r \in RegistryResources |-> Registry[r].scopes]
RegistryAlwaysMfa == {r \in RegistryResources : Registry[r].mfa = "Always"}

(* What seed_clients writes: those with a secret, and the others.          *)
SeededWithSecret  == {DefaultClient}
SeededFirstParty  == {"ui-web", "ui-native"}
SeededClients     == SeededFirstParty \cup SeededWithSecret

ParkedRequest == [client : Clients, resource : Resources, scope : SUBSET UNION {Scopes[r] : r \in Resources},
                  step_up : BOOLEAN, max_age : Nat]
Query == [client : Clients \cup {None}, redirect_ok : BOOLEAN, code_pkce : BOOLEAN,
          resource : Resources \cup {None}, scope : SUBSET UNION {Scopes[r] : r \in Resources},
          step_up : BOOLEAN, max_age : Nat \cup {None}]

ASSUME AuthRequestsAssumption ==
  /\ FirstParty \subseteq Clients /\ AlwaysMfa \subseteq Resources
  /\ Scopes \in [Resources -> SUBSET UNION {Scopes[r] : r \in Resources}]
  /\ FlowOffered \subseteq {"get", "complete", "deny"}
  /\ None \notin Requests \cup FlowCalls \cup Clients \cup Resources
  /\ Queries \subseteq Query
  /\ RequestTTL \in Nat

VARIABLES
  parked,  \* rows of auth_requests: None, or [params, expires]
  shown,   \* shown[r]: how /authorize answered
  flow,    \* flow[f]: the handler of flow call f
  grant    \* rows of grants (with their codes): None, or a record

flowVars == <<parked, shown, flow, grant>>
allVars  == <<vars, flowVars>>

Nexts == {"sign_in", "mfa", "mfa_enrollment", "consent", "complete"}
FlowState == [pc      : {"idle", "load", "session", "factors", "delete", "commit", "done", "failed"},
              op      : {"get", "complete", "deny", None},
              req     : Requests \cup {None},
              cookie  : Calls \cup {None},
              consent : BOOLEAN,
              params  : ParkedRequest \cup {None},        \* the loaded request
              user    : Users \cup {None},                \* the loaded session
              hwk     : BOOLEAN,
              auth    : Int,
              next    : Nexts \cup {None},                \* what evaluate found
              at      : Int,                              \* when it looked
              late    : BOOLEAN,                          \* history: began after an answer
              had     : SUBSET Passkeys]                  \* history: passkeys when it began
NoFlow == [pc |-> "idle", op |-> None, req |-> None, cookie |-> None, consent |-> FALSE,
           params |-> None, user |-> None, hwk |-> FALSE, auth |-> 0, next |-> None, at |-> 0,
           late |-> FALSE, had |-> {}]

FlowTypeOK ==
  /\ parked \in [Requests -> [params : ParkedRequest, expires : Int] \cup {None}]
  /\ shown \in [Requests -> {"no", "error_page", "error_redirect", "sign_in"}]
  /\ flow \in [FlowCalls -> FlowState]
  /\ grant \in [FlowCalls -> [req : Requests, user : Users, acr : {"pwd", "mfa"}, auth : Int,
                              scope : SUBSET UNION {Scopes[r] : r \in Resources}, resource : Resources,
                              had : SUBSET Passkeys] \cup {None}]

FlowInit ==
  /\ parked = [r \in Requests |-> None]
  /\ shown = [r \in Requests |-> "no"]
  /\ flow = [f \in FlowCalls |-> NoFlow]
  /\ grant = [f \in FlowCalls |-> None]

-----------------------------------------------------------------------------
(***************************************************************************)
(* /authorize.  Until client and return address check out, an error is     *)
(* shown here; after that it is sent to the client.                        *)
(***************************************************************************)
ResourceOf(q) == IF q.resource = None /\ q.client = DefaultClient THEN DefaultResource ELSE q.resource
Requested(q) == IF q.scope = {} THEN Scopes[ResourceOf(q)] ELSE q.scope

Shown(q) ==
  IF q.client = None \/ ~q.redirect_ok THEN "error_page"
  ELSE IF /\ q.code_pkce /\ ResourceOf(q) \in Resources
          /\ Requested(q) \subseteq Scopes[ResourceOf(q)]
       THEN "sign_in" ELSE "error_redirect"

MaxAge(q) == IF q.max_age = None THEN FreshMfa ELSE q.max_age

Authorize(r) ==
  /\ shown[r] = "no"
  /\ \E q \in Queries :
       /\ shown' = [shown EXCEPT ![r] = Shown(q)]
       /\ IF Shown(q) = "sign_in"
          THEN parked' = [parked EXCEPT ![r] =
                 [params |-> [client |-> q.client, resource |-> ResourceOf(q), scope |-> Requested(q),
                              step_up |-> q.step_up, max_age |-> MaxAge(q)],
                  expires |-> now + RequestTTL]]
          ELSE UNCHANGED parked
  /\ UNCHANGED <<vars, flow, grant>>

(***************************************************************************)
(* What a request still needs, in the order the screens walk through it.   *)
(* `s' is the loaded session and `has' whether its account has a passkey.  *)
(***************************************************************************)
NeedsMfa(p) == p.step_up \/ p.resource \in AlwaysMfa

(* Mutated form: any second factor of the session counts as recent.        *)
FreshForever(p, s, time) == s.hwk

Fresh(p, s, time) == s.hwk /\ time - s.auth <= p.max_age

Decide(p, s, has, time) ==
  IF has /\ ~s.hwk THEN "mfa"
  ELSE IF NeedsMfa(p) /\ ~has THEN "mfa_enrollment"
  ELSE IF NeedsMfa(p) /\ ~(s.hwk /\ (Fresh(p, s, time) \/ ~p.step_up)) THEN "mfa"
  ELSE IF p.client \notin FirstParty THEN "consent" ELSE "complete"

-----------------------------------------------------------------------------
(***************************************************************************)
(* get_request, complete and deny.                                         *)
(***************************************************************************)
FlowAt(f, stage) == flow[f].pc = stage
FlowGo(f, stage) == flow' = [flow EXCEPT ![f].pc = stage]

(* The request has been completed or denied.                               *)
Answered(r) == \E f \in FlowCalls :
  flow[f].req = r /\ flow[f].op \in {"complete", "deny"} /\ FlowAt(f, "done")

BeginFlow(f, op, r, s, consent) ==
  /\ FlowAt(f, "idle")
  /\ shown[r] = "sign_in"
  /\ flow' = [flow EXCEPT ![f] =
       [NoFlow EXCEPT !.pc = "load", !.op = op, !.req = r, !.cookie = s, !.consent = consent,
                      !.late = Answered(r), !.had = {k \in Passkeys : passkey[k].user # None}]]
  /\ UNCHANGED <<vars, parked, shown, grant>>

FlowArrives(f) == \E op \in FlowOffered, r \in Requests, s \in Started \cup {None}, consent \in BOOLEAN :
  /\ op # "complete" => ~consent
  /\ op = "deny" => s = None
  /\ BeginFlow(f, op, r, s, consent)

(* load: only an unexpired row; the client of a parked request is known.   *)
LoadRequest(f) ==
  LET r == flow[f].req IN
  /\ FlowAt(f, "load")
  /\ IF parked[r] # None /\ parked[r].expires > now
     THEN flow' = [flow EXCEPT ![f].params = parked[r].params,
                               ![f].pc = IF flow[f].op = "deny" THEN "delete" ELSE "session"]
     ELSE FlowGo(f, "failed")
  /\ UNCHANGED <<vars, parked, shown, grant>>

(* session::load; without a session get_request answers sign_in, and       *)
(* complete is refused.                                                    *)
LoadSession(f) ==
  LET s == flow[f].cookie IN
  /\ FlowAt(f, "session")
  /\ IF s # None /\ Live(s)
     THEN flow' = [flow EXCEPT ![f].pc = "factors", ![f].user = session[s].user,
                               ![f].hwk = session[s].hwk, ![f].auth = session[s].auth]
     ELSE flow' = [flow EXCEPT ![f].next = "sign_in",
                               ![f].pc = IF flow[f].op = "get" THEN "done" ELSE "failed"]
  /\ UNCHANGED <<vars, parked, shown, grant>>

Approved(me, next) == next = "complete" \/ (next = "consent" /\ me.consent)

(* evaluate: session::view counts the passkeys, and decide decides.        *)
Evaluate(f) ==
  LET me == flow[f]
      next == Decide(me.params, me, KeysOf(me.user) # {}, now)
  IN  /\ FlowAt(f, "factors")
      /\ flow' = [flow EXCEPT ![f].next = next, ![f].at = now, ![f].pc =
           IF me.op = "get" THEN "done" ELSE IF Approved(me, next) THEN "commit" ELSE "failed"]
      /\ UNCHANGED <<vars, parked, shown, grant>>

(* Mutated form: every amr counts as two factors.                          *)
AcrOfAnyMethod(me) == IF me.user # None THEN "mfa" ELSE "pwd"

Acr(me) == IF me.hwk THEN "mfa" ELSE "pwd"

(* Mutated form: the request is left to expire.                            *)
KeepParked(r) == parked

DeleteParked(r) == [parked EXCEPT ![r] = None]

(* The transaction: the grant and its code, from the session as loaded,    *)
(* and the request is deleted; that a row was deleted is not checked.      *)
CommitGrant(f) ==
  LET me == flow[f] IN
  /\ FlowAt(f, "commit")
  /\ grant' = [grant EXCEPT ![f] =
       [req |-> me.req, user |-> me.user, acr |-> Acr(me), auth |-> me.auth,
        scope |-> me.params.scope, resource |-> me.params.resource,
        had |-> me.had \cap KeysOf(me.user)]]
  /\ parked' = DeleteParked(me.req)
  /\ FlowGo(f, "done")
  /\ UNCHANGED <<vars, shown>>

DeleteRequest(f) ==
  /\ FlowAt(f, "delete")
  /\ parked' = DeleteParked(flow[f].req)
  /\ FlowGo(f, "done")
  /\ UNCHANGED <<vars, shown, grant>>

FlowAdvance(f) == LoadRequest(f) \/ LoadSession(f) \/ Evaluate(f) \/ CommitGrant(f) \/ DeleteRequest(f)

FlowFinished ==
  /\ \A f \in FlowCalls : flow[f].pc \in {"idle", "done", "failed"}
  /\ Finished /\ UNCHANGED flowVars

SignInStep == ((\E c \in Calls : Arrive(c) \/ Advance(c)) \/ Tick) /\ UNCHANGED flowVars

FlowStep ==
  \/ SignInStep
  \/ \E r \in Requests : Authorize(r)
  \/ \E f \in FlowCalls : FlowArrives(f) \/ FlowAdvance(f)

FlowNext == FlowStep \/ FlowFinished

FlowSpec == Init /\ FlowInit /\ [][FlowNext]_allVars

-----------------------------------------------------------------------------
(* Every grant meets the policy of its resource and the wish of its client *)
(* whatever happened to session, passkeys and request while complete ran:  *)
(* a second factor where one is needed, recent where a step-up was asked   *)
(* for; always a second factor if the account had a passkey all the time   *)
(* that the call ran.                                                      *)
GrantMeetsPolicy ==
  \A f \in FlowCalls : grant[f] # None =>
    LET p == flow[f].params IN
    /\ NeedsMfa(p) => grant[f].acr = "mfa"
    /\ p.step_up => flow[f].at - grant[f].auth <= p.max_age
    /\ grant[f].had # {} => grant[f].acr = "mfa"

(* A grant that claims a second factor belongs to a user whose own passkey *)
(* answered a challenge in the session that approved it.                   *)
GrantFactorProven ==
  \A f \in FlowCalls : grant[f] # None /\ grant[f].acr = "mfa" =>
    \E c \in Calls :
      /\ call[c].proved /\ Handle[call[c].key] = grant[f].user
      /\ \/ call[c].op = "passkey" /\ c = flow[f].cookie
         \/ call[c].op \in {"factor", "register"} /\ call[c].cookie = flow[f].cookie

(* Once a request has been completed or denied, a call that begins later   *)
(* gets nothing: only calls already on their way can still answer it.      *)
NothingAfterAnswer == \A f \in FlowCalls : flow[f].late => grant[f] = None /\ flow[f].pc # "commit"

(* A parked request is answered with one grant.                            *)
OneGrantPerRequest ==
  \A f, g \in FlowCalls : grant[f] # None /\ grant[g] # None /\ grant[f].req = grant[g].req => f = g
===============================================================================
