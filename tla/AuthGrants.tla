------------------------------ MODULE AuthGrants ------------------------------
(***************************************************************************)
(* The token endpoint and the revocation endpoint of auth-service          *)
(* (oauth.rs: exchange_code, refresh, revoke_grant, revoke) as concurrent  *)
(* PostgreSQL transactions over grants, auth_codes, refresh_tokens and     *)
(* outbox.  Every request is one transaction under READ COMMITTED:         *)
(*   - now() is the time the transaction began;                            *)
(*   - SELECT ... FOR UPDATE and UPDATE wait for the row lock and then see *)
(*     the newest committed row; a plain SELECT reads the committed row    *)
(*     without waiting;                                                    *)
(*   - writes become visible when the transaction commits, so a request    *)
(*     keeps its pending write as an "effect" until then;                  *)
(*   - a request that is dropped (client gone, process stopped) or chosen  *)
(*     by the deadlock detector rolls back and releases its locks.         *)
(*                                                                         *)
(* A refresh token is named after the request that inserts it, which is    *)
(* what a fresh random token amounts to.                                   *)
(***************************************************************************)
EXTENDS Integers, FiniteSets

CONSTANTS
  Requests,         \* requests to /token and /revoke, and the tokens they issue
  Grants,           \* rows of table grants, each with its authorization code
  Clients,          \* registered OAuth clients
  Confidential,     \* clients with a secret_hash (Alexa)
  None,             \* SQL NULL
  CodeTTL,          \* CODE_TTL_SECS
  PublicTTL,        \* PUBLIC_REFRESH_DAYS
  ConfidentialTTL,  \* CONFIDENTIAL_REFRESH_DAYS
  ReuseWindow,      \* REUSE_WINDOW_SECS
  MaxTime           \* bound on the clock

ASSUME ConstantsAssumption ==
  /\ Confidential \subseteq Clients
  /\ None \notin Requests \cup Grants \cup Clients \cup Int
  /\ CodeTTL \in Nat /\ PublicTTL \in Nat /\ ConfidentialTTL \in Nat
  /\ ReuseWindow \in Nat /\ MaxTime \in Nat

VARIABLES
  now,     \* the database clock
  grant,   \* committed rows of grants
  code,    \* committed rows of auth_codes, one per grant
  token,   \* committed rows of refresh_tokens
  outbox,  \* outbox[g]: committed grant_revoked events for g
  owner,   \* owner[r]: the request that holds the lock of row r
  tx,      \* tx[x]: the transaction of request x
  heir     \* history: heir[t] is the first request that rotated token t

vars == <<now, grant, code, token, outbox, owner, tx, heir>>

CodeRow(g)  == <<"code", g>>
GrantRow(g) == <<"grant", g>>
TokenRow(t) == <<"token", t>>

Rows == {"code", "grant"} \X Grants \cup {"token"} \X Requests

GrantState == [state : {"absent", "active", "revoked"}, client : Clients \cup {None}]
CodeState  == [expires : Int, consumed : BOOLEAN]
TokenState == [exists : BOOLEAN, grant : Grants \cup {None}, expires : Int,
               rotated : Int \cup {None}, revoked : BOOLEAN]

Stages  == {"idle", "row", "load", "grant", "tokens", "token", "commit", "done", "failed"}
Ops     == {"exchange", "refresh", "revoke"}
Effects == {"none", "redeem", "rotate", "slide", "revoke"}
TxState == [pc     : Stages,                             \* where the handler is
            op     : Ops \cup {None},
            cred   : Grants \cup Requests \cup {None},   \* the code or token presented
            client : Clients \cup {None},                \* the authenticated client
            began  : Int,                                \* now() inside the transaction
            grant  : Grants \cup {None},                 \* the credential's grant
            want   : Rows \cup {None},                   \* the row it waits to lock
            todo   : SUBSET Requests,                    \* tokens its UPDATE has yet to lock
            effect : Effects,                            \* its uncommitted writes
            late   : BOOLEAN]                            \* history: grant revoked before it began

NoTx == [pc |-> "idle", op |-> None, cred |-> None, client |-> None, began |-> 0,
         grant |-> None, want |-> None, todo |-> {}, effect |-> "none", late |-> FALSE]
NoToken == [exists |-> FALSE, grant |-> None, expires |-> 0, rotated |-> None, revoked |-> FALSE]

TypeOK ==
  /\ now \in 0..MaxTime
  /\ grant \in [Grants -> GrantState]
  /\ code \in [Grants -> CodeState]
  /\ token \in [Requests -> TokenState]
  /\ outbox \in [Grants -> Nat]
  /\ owner \in [Rows -> Requests \cup {None}]
  /\ tx \in [Requests -> TxState]
  /\ heir \in [Requests -> Requests \cup {None}]

Init ==
  /\ now = 0
  /\ grant = [g \in Grants |-> [state |-> "absent", client |-> None]]
  /\ code = [g \in Grants |-> [expires |-> 0, consumed |-> FALSE]]
  /\ token = [t \in Requests |-> NoToken]
  /\ outbox = [g \in Grants |-> 0]
  /\ owner = [r \in Rows |-> None]
  /\ tx = [x \in Requests |-> NoTx]
  /\ heir = [t \in Requests |-> None]

-----------------------------------------------------------------------------
(***************************************************************************)
(* Row locks and rollback.                                                 *)
(***************************************************************************)

db == <<grant, code, token, outbox, heir>>

Revoked(g) == grant[g].state = "revoked"

Released(x) == [r \in Rows |-> IF owner[r] = x THEN None ELSE owner[r]]
Lockable(x) == owner[tx[x].want] \in {None, x}
Lock(x) == owner' = [owner EXCEPT ![tx[x].want] = x]

(* The transaction is dropped without a commit.                            *)
Rollback(x) ==
  /\ tx' = [tx EXCEPT ![x] = [NoTx EXCEPT !.pc = "failed"]]
  /\ owner' = Released(x)
  /\ UNCHANGED <<now, db>>

(***************************************************************************)
(* The last step of flow.rs complete(): the grant and its code appear.     *)
(***************************************************************************)
Complete(g, cl) ==
  /\ grant[g].state = "absent"
  /\ grant' = [grant EXCEPT ![g] = [state |-> "active", client |-> cl]]
  /\ code' = [code EXCEPT ![g] = [expires |-> now + CodeTTL, consumed |-> FALSE]]
  /\ UNCHANGED <<now, token, outbox, owner, tx, heir>>

(***************************************************************************)
(* A request arrives with a credential that is stored, and its transaction *)
(* begins.  (An unknown credential is refused without a write.)            *)
(***************************************************************************)
Begin(x, op, cred, cl, g, stage, row) ==
  /\ tx[x].pc = "idle"
  /\ tx' = [tx EXCEPT ![x] =
        [NoTx EXCEPT !.pc = stage, !.op = op, !.cred = cred, !.client = cl,
                     !.began = now, !.grant = g, !.want = row, !.late = Revoked(g)]]
  /\ UNCHANGED <<now, db, owner>>

BeginExchange(x, g, cl) ==
  /\ grant[g].state # "absent"
  /\ Begin(x, "exchange", g, cl, g, "row", CodeRow(g))

BeginRefresh(x, t, cl) ==
  /\ token[t].exists
  /\ Begin(x, "refresh", t, cl, token[t].grant, "row", TokenRow(t))

(* revoke() reads the token without a lock, only to learn its grant.       *)
BeginRevoke(x, t) ==
  /\ token[t].exists
  /\ Begin(x, "revoke", t, None, token[t].grant, "grant", GrantRow(token[t].grant))

(* Defect: SELECT without FOR UPDATE. *)
ReadCredential(x) ==
  /\ tx[x].pc = "row"
  /\ tx' = [tx EXCEPT ![x] = [@ EXCEPT !.pc = "load", !.want = None]]
  /\ UNCHANGED <<now, db, owner>>

(* SELECT ... FOR UPDATE of the code or of the token.                      *)
LockCredential(x) ==
  /\ tx[x].pc = "row"
  /\ Lockable(x)
  /\ Lock(x)
  /\ tx' = [tx EXCEPT ![x] = [@ EXCEPT !.pc = "load", !.want = None]]
  /\ UNCHANGED <<now, db>>

Decide(x, effect) ==
  /\ tx' = [tx EXCEPT ![x] = [@ EXCEPT !.pc = "commit", !.effect = effect]]
  /\ UNCHANGED <<now, db, owner>>

StartRevocation(x) ==
  /\ tx' = [tx EXCEPT ![x] = [@ EXCEPT !.pc = "grant", !.want = GrantRow(tx[x].grant)]]
  /\ UNCHANGED <<now, db, owner>>

(* Defect: revoked_at is not looked at. *)
SameClient(x) == grant[tx[x].grant].client = tx[x].client

(* What load_grant must show: not revoked, and issued to this client.      *)
GrantAccepted(x) ==
  /\ ~Revoked(tx[x].grant)
  /\ grant[tx[x].grant].client = tx[x].client

(***************************************************************************)
(* exchange_code from load_grant to its decision.  proven: redirect_uri    *)
(* and the PKCE verifier match the stored code.                            *)
(***************************************************************************)
LoadForExchange(x) ==
  LET g == tx[x].grant
      valid == code[g].expires > tx[x].began /\ GrantAccepted(x)
  IN
  /\ tx[x].pc = "load"
  /\ tx[x].op = "exchange"
  /\ \/ code[g].consumed /\ StartRevocation(x)
     \/ /\ ~code[g].consumed
        /\ \E proven \in BOOLEAN :
             IF valid /\ proven THEN Decide(x, "redeem") ELSE Rollback(x)

Dead(t, time) == token[t].expires <= time \/ token[t].revoked

ReusedLate(t, time) ==
  token[t].rotated # None /\ time - token[t].rotated > ReuseWindow

(* refresh from load_grant to its decision.                                *)
LoadForRefresh(x) ==
  LET t == tx[x].cred
      valid == ~Dead(t, tx[x].began) /\ GrantAccepted(x)
  IN
  /\ tx[x].pc = "load"
  /\ tx[x].op = "refresh"
  /\ \/ ~valid /\ Rollback(x)
     \/ valid /\ tx[x].client \in Confidential /\ Decide(x, "slide")
     \/ /\ valid /\ tx[x].client \notin Confidential
        /\ IF ReusedLate(t, tx[x].began) THEN StartRevocation(x) ELSE Decide(x, "rotate")

RevokeGrantRowThen(x, pc, effect) ==
  tx' = [tx EXCEPT ![x] = [@ EXCEPT !.pc = pc, !.want = None, !.effect = effect]]

(* Defect: UPDATE grants without AND revoked_at IS NULL. *)
RevokeGrantRowAgain(x) ==
  /\ tx[x].pc = "grant"
  /\ Lockable(x)
  /\ Lock(x)
  /\ RevokeGrantRowThen(x, "tokens", "revoke")
  /\ UNCHANGED <<now, db>>

(* Defect: a row that another transaction has locked counts as revoked. *)
RevokeGrantRowSkipLocked(x) ==
  /\ tx[x].pc = "grant"
  /\ IF Revoked(tx[x].grant) \/ ~Lockable(x)
       THEN RevokeGrantRowThen(x, "commit", "none") /\ UNCHANGED owner
       ELSE RevokeGrantRowThen(x, "tokens", "revoke") /\ Lock(x)
  /\ UNCHANGED <<now, db>>

(***************************************************************************)
(* revoke_grant: UPDATE grants; no row matched means it is revoked already *)
(***************************************************************************)
RevokeGrantRow(x) ==
  /\ tx[x].pc = "grant"
  /\ Lockable(x)
  /\ IF Revoked(tx[x].grant)
       THEN RevokeGrantRowThen(x, "commit", "none") /\ UNCHANGED owner
       ELSE RevokeGrantRowThen(x, "tokens", "revoke") /\ Lock(x)
  /\ UNCHANGED <<now, db>>

LiveTokens(g) == {t \in Requests : token[t].exists /\ token[t].grant = g /\ ~token[t].revoked}

(* Continue the UPDATE of refresh_tokens with the rows in todo, in the     *)
(* order the scan meets them, or go on to the outbox insert and the commit *)
NextTokenRow(x, todo) ==
  IF todo = {}
    THEN tx' = [tx EXCEPT ![x] = [@ EXCEPT !.pc = "commit", !.todo = {}, !.want = None]]
    ELSE \E t \in todo :
           tx' = [tx EXCEPT ![x] = [@ EXCEPT !.pc = "token", !.todo = todo,
                                             !.want = TokenRow(t)]]

(* revoke_grant: UPDATE refresh_tokens takes its snapshot.                 *)
SnapshotTokens(x) ==
  /\ tx[x].pc = "tokens"
  /\ NextTokenRow(x, LiveTokens(tx[x].grant))
  /\ UNCHANGED <<now, db, owner>>

LockToken(x) ==
  /\ tx[x].pc = "token"
  /\ Lockable(x)
  /\ Lock(x)
  /\ NextTokenRow(x, {t \in tx[x].todo : TokenRow(t) # tx[x].want})
  /\ UNCHANGED <<now, db>>

(***************************************************************************)
(* COMMIT: the pending writes become visible and the locks are released.   *)
(***************************************************************************)

(* new_refresh_token *)
NewToken(x) ==
  [exists |-> TRUE, grant |-> tx[x].grant, revoked |-> FALSE, rotated |-> None,
   expires |-> tx[x].began + IF tx[x].client \in Confidential THEN ConfidentialTTL
                                                              ELSE PublicTTL]

Finish(x) ==
  /\ tx[x].pc = "commit"
  /\ owner' = Released(x)
  /\ tx' = [tx EXCEPT ![x] = [@ EXCEPT !.pc = "done", !.client = None]]
  /\ UNCHANGED now

CommitNothing(x) ==
  /\ tx[x].effect = "none"
  /\ Finish(x)
  /\ UNCHANGED db

CodeConsumed(g) == [code EXCEPT ![g].consumed = TRUE]

CommitRedeem(x) ==
  /\ tx[x].effect = "redeem"
  /\ Finish(x)
  /\ code' = CodeConsumed(tx[x].grant)
  /\ token' = [token EXCEPT ![x] = NewToken(x)]
  /\ UNCHANGED <<grant, outbox, heir>>

(* Defect: rotated_at = now(). *)
RotatedNow(t, time) == time

(* rotated_at = COALESCE(rotated_at, now()) *)
RotatedAt(t, time) == IF token[t].rotated = None THEN time ELSE token[t].rotated

CommitRotate(x) ==
  LET t == tx[x].cred IN
  /\ tx[x].effect = "rotate"
  /\ Finish(x)
  /\ token' = [token EXCEPT ![t].rotated = RotatedAt(t, tx[x].began), ![x] = NewToken(x)]
  /\ heir' = [heir EXCEPT ![t] = IF @ = None THEN x ELSE @]
  /\ UNCHANGED <<grant, code, outbox>>

CommitSlide(x) ==
  /\ tx[x].effect = "slide"
  /\ Finish(x)
  /\ token' = [token EXCEPT ![tx[x].cred].expires = tx[x].began + ConfidentialTTL]
  /\ UNCHANGED <<grant, code, outbox, heir>>

(* Defect: the error is returned before the commit. *)
RevokeRolledBack(x) ==
  /\ tx[x].pc = "commit"
  /\ tx[x].effect = "revoke"
  /\ Rollback(x)

CommitRevoke(x) ==
  LET g == tx[x].grant IN
  /\ tx[x].effect = "revoke"
  /\ Finish(x)
  /\ grant' = [grant EXCEPT ![g].state = "revoked"]
  /\ token' = [t \in Requests |-> [token[t] EXCEPT
                 !.revoked = @ \/ (owner[TokenRow(t)] = x /\ token[t].grant = g)]]
  /\ outbox' = [outbox EXCEPT ![g] = @ + 1]
  /\ UNCHANGED <<code, heir>>

Commit(x) ==
  \/ CommitNothing(x)
  \/ CommitRedeem(x)
  \/ CommitRotate(x)
  \/ CommitSlide(x)
  \/ CommitRevoke(x)

-----------------------------------------------------------------------------
(***************************************************************************)
(* What the database and the network do to a transaction.                  *)
(***************************************************************************)

Running(x) == tx[x].pc \notin {"idle", "done", "failed"}

(* It has found a reason to revoke the grant, or was asked to.             *)
Noticed(x, g) ==
  /\ tx[x].grant = g
  /\ \/ tx[x].pc \in {"grant", "tokens", "token"}
     \/ tx[x].pc = "commit" /\ tx[x].effect \in {"none", "revoke"}

(* The connection is closed before the commit and axum drops the handler;  *)
(* history: whose revocation is lost with it.                              *)
Cancel(x) ==
  /\ Running(x)
  /\ tx' = [tx EXCEPT ![x] = [NoTx EXCEPT !.pc = "failed",
              !.grant = IF Noticed(x, tx[x].grant) THEN tx[x].grant ELSE None]]
  /\ owner' = Released(x)
  /\ UNCHANGED <<now, db>>

Waiting(x) == tx[x].pc \in {"row", "grant", "token"} /\ ~Lockable(x)

Deadlocked(x) ==
  \E cycle \in SUBSET Requests :
    /\ x \in cycle
    /\ \A y \in cycle : Waiting(y)
    /\ {owner[tx[y].want] : y \in cycle} = cycle

(* Defect: a refresh starts over when it was aborted. *)
DeadlockRetried(x) ==
  /\ Deadlocked(x)
  /\ IF tx[x].op = "refresh"
       THEN /\ tx' = [tx EXCEPT ![x] = [@ EXCEPT !.pc = "row", !.want = TokenRow(tx[x].cred)]]
            /\ owner' = Released(x)
            /\ UNCHANGED <<now, db>>
       ELSE Rollback(x)

(* PostgreSQL aborts a transaction of a cycle of waiting transactions.     *)
DeadlockVictim(x) == Deadlocked(x) /\ Rollback(x)

Tick ==
  /\ now < MaxTime
  /\ now' = now + 1
  /\ UNCHANGED <<db, owner, tx>>

(* Every request has been answered.                                        *)
Finished ==
  /\ \A x \in Requests : tx[x].pc \in {"done", "failed"}
  /\ UNCHANGED vars

Advance(x) ==
  \/ LockCredential(x)
  \/ LoadForExchange(x)
  \/ LoadForRefresh(x)
  \/ RevokeGrantRow(x)
  \/ SnapshotTokens(x)
  \/ LockToken(x)
  \/ Commit(x)
  \/ DeadlockVictim(x)

Arrive(x) ==
  \/ \E g \in Grants, cl \in Clients : BeginExchange(x, g, cl)
  \/ \E t \in Requests, cl \in Clients : BeginRefresh(x, t, cl)
  \/ \E t \in Requests : BeginRevoke(x, t)

Next ==
  \/ \E g \in Grants, cl \in Clients : Complete(g, cl)
  \/ \E x \in Requests : Arrive(x) \/ Advance(x) \/ Cancel(x)
  \/ Tick
  \/ Finished

Spec == Init /\ [][Next]_vars

(* A request is carried on for as long as its connection stays open: tokio *)
(* polls the handler again whenever PostgreSQL answers, and PostgreSQL     *)
(* grants a lock that stays free and breaks a deadlock.                    *)
Fairness == \A x \in Requests : WF_vars(Advance(x))

FairSpec == Spec /\ Fairness

-----------------------------------------------------------------------------
(***************************************************************************)
(* Properties.                                                             *)
(***************************************************************************)

Did(x, effect) == tx[x].pc = "done" /\ tx[x].effect = effect

(* However requests overlap, an authorization code starts at most one      *)
(* family of refresh tokens: the FOR UPDATE of exchange_code makes the     *)
(* check of consumed_at and its update one step.                           *)
CodeRedeemedOnce ==
  \A x, y \in Requests :
    Did(x, "redeem") /\ Did(y, "redeem") /\ tx[x].grant = tx[y].grant => x = y

(* A grant that is revoked has queued exactly one grant_revoked event, and *)
(* a grant that is not has queued none, although a replayed code, a reused *)
(* token and several /revoke calls may all revoke it at once.              *)
OneEventPerRevocation ==
  \A g \in Grants : outbox[g] = IF Revoked(g) THEN 1 ELSE 0

(* A rotated token is judged by the time of its first rotation: requests   *)
(* that begin up to ReuseWindow later are served as retries, and a refresh *)
(* revokes a grant only for one that begins after that.  So a chain of     *)
(* retries cannot keep a rotated token alive, and a client that never      *)
(* rotates (a confidential one) is never cut off by a refresh.             *)
ReuseJudgedByFirstRotation ==
  \A x \in Requests : tx[x].pc = "done" /\ tx[x].op = "refresh" =>
    LET first == heir[tx[x].cred] IN
    /\ tx[x].effect = "rotate" =>
         first # None /\ tx[x].began <= tx[first].began + ReuseWindow
    /\ tx[x].effect = "revoke" =>
         first # None /\ tx[x].began > tx[first].began + ReuseWindow

(* When /revoke has answered 200 the grant is revoked, also when another   *)
(* request was revoking it at the same time and might still have failed.   *)
RevocationAnswered ==
  \A x \in Requests :
    tx[x].pc = "done" /\ tx[x].op = "revoke" => Revoked(tx[x].grant)

(* A request that begins after its grant was revoked is never given        *)
(* tokens, not even for a refresh token inserted while the revocation ran. *)
NothingAfterRevocation ==
  \A x \in Requests :
    tx[x].late => tx[x].effect \notin {"redeem", "rotate", "slide"}

(* The comment of revoke_grant, "Revokes a grant and its refresh tokens":  *)
(* no refresh token of a revoked grant is left with revoked_at NULL.       *)
RevokedGrantHasNoLiveToken ==
  \A g \in Grants : Revoked(g) => LiveTokens(g) = {}

(* The token endpoint keeps the promises of GrantContract.                 *)
Contract == INSTANCE GrantContract WITH
  Tokens   <- Requests,
  status   <- [g \in Grants |-> grant[g].state],
  redeemed <- {g \in Grants : code[g].consumed},
  usable   <- [g \in Grants |-> IF Revoked(g) THEN {} ELSE LiveTokens(g)],
  events   <- outbox

ImplementsContract == Contract!Spec

(* Every request ends, whatever the order in which requests take the locks *)
(* of codes, tokens and grants: each cycle of waits is broken.             *)
RequestsEnd ==
  \A x \in Requests : Running(x) ~> ~Running(x)

(* A replayed code, a token reused late or a /revoke call, once noticed,   *)
(* leads to a revoked grant, also when that request is aborted to break a  *)
(* deadlock: the one it was deadlocked with revokes the grant.  Only the   *)
(* client can prevent it, by closing the connection of a request that is   *)
(* about to revoke the grant after the misuse was noticed.                 *)
Lost(g) == {y \in Requests : tx[y].pc = "failed" /\ tx[y].grant = g}

NoticedMisuseRevokes ==
  \A g \in Grants, n \in 0..Cardinality(Requests) :
    (\E x \in Requests : Noticed(x, g)) /\ Cardinality(Lost(g)) = n
      ~> Revoked(g) \/ Cardinality(Lost(g)) > n

(* "A code presented twice was probably intercepted: revoke everything it  *)
(* issued" (oauth.rs:378), whatever the client does.                       *)
MisuseAlwaysRevokes ==
  \A g \in Grants : (\E x \in Requests : Noticed(x, g)) ~> Revoked(g)
=============================================================================
