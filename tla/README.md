# DroneDispatch: a TLA+ verification project

DroneDispatch is a set of Rust services for a drone delivery platform. This
directory models the parts of it whose correctness depends on concurrency,
failure and time, checks the models with TLC on small instances, and proves
the main results with TLAPS for every instance.

## 1. Inventory

| Component | State it keeps | Operations | Interacts through |
|---|---|---|---|
| **auth-service** `oauth.rs` | `grants`, `auth_codes`, `refresh_tokens`, `outbox` rows | `exchange_code`, `refresh`, `revoke` | PostgreSQL row locks; events via `outbox` |
| **auth-service** `flow.rs` | `auth_requests` rows (parked `/authorize` requests) | `park`, `get_request`, `complete`, `deny` | reads sessions and factors, creates grants and codes |
| **auth-service** `session.rs` | `sessions` rows | `start`, `load`, `require`, `add_method`, `end` | cookie of the browser |
| **auth-service** `passkeys.rs` | `passkeys`, `webauthn_challenges` rows | registration, sign-in, second factor, removal | sessions, limiter |
| **auth-service** `signup.rs` | `signup_challenges`, `users` rows | `start`, `resend`, `verify`, `finalize` | mail, sessions |
| **auth-service** `limits.rs`, `account.rs` | in-process failure times per key | `allowed`, `record_failure`, `clear` | used by `sign_in_password`, `verify_second_factor` |
| **auth-service** `grpc.rs` | none of its own | user lookups, `ListRevokedGrants` | reads `users`, `grants` |
| **svc-common** `outbox.rs` | `outbox.published_at` | `enqueue`, relay | JetStream stream with a duplicate window |
| **svc-auth** `verifier.rs` | key cache, revoked grants | `verify`, `reload`, `revoke_grant` | auth-service JWKS |
| **svc-auth** `extract.rs` | none of its own | `Authenticated`, `require_scope`, `require_fresh_mfa` | the claims of an access token |
| **merchant-service** `api.rs` | `menu_sections`, `menu_items` | `create_section`, `create_item`, `update_item` | PostgreSQL constraints |
| **user-service** `live.rs` and app `live.ts` | one WebSocket session on each side | connect, authenticate, re-authenticate, close, reconnect | messages and close codes |
| **customer app** `sign-up.tsx` | form, challenge, dialog | check, start, resend, verify, finalize | auth-service sign-up API |
| **customer app** sign-in screens | the route, the call in flight | sign in, second factor, set up, consent | auth-service session, passkey and flow API |
| dispatch-service, catalog-read-service, station, geo, contracts | little or nothing yet | stubs, a trait with an in-memory map, arithmetic, message types | |

**What is hard.** auth-service runs any number of handlers at once on
PostgreSQL under READ COMMITTED; most handlers read something, decide, and
write in a later statement. The sensitive ones protect themselves with row
locks (`FOR UPDATE`), conditional updates (`... AND revoked_at IS NULL`),
`DELETE ... RETURNING` and unique constraints. A handler can be dropped at any
await, and clients repeat requests whose answer they lost. The relay, the
verifiers and the live sessions add crashes, duplicated and lost messages,
stale caches and timers.

**What makes each component correct.**

- *Token endpoint*: a code starts one token family; rotated tokens are honoured
  only for the reuse window; misuse, once noticed, revokes unless the client
  closes the connection before the commit; revocation is final, complete and
  announced exactly once; every request ends.
- *Authorization requests*: a grant has the factors that `decide` asks for,
  whatever happens while it is made; nothing is granted after the answer.
- *Access tokens*: a resource server serves what was approved, to whom and for
  the client it was approved for; a step-up is as recent as it looks, and worth
  its while; the tokens of a revoked grant run out.
- *App screens*: a user who follows them from a parked request, while session
  and request last and the network holds, ends in a grant.
- *Sessions and passkeys*: a challenge is used once; a session has its second
  factor only if a passkey of its own user was proven; a removed passkey signs
  nobody in.
- *Sign-up*: an account belongs to someone who received the mailed code; at
  most one account per address; the number of guesses is bounded.
- *Limiter*: at most the configured number of failures in a window.
- *Outbox*: every committed event reaches the stream, none that rolled back
  does; copies within the duplicate window are dropped.
- *Verifier*: rotated-out keys stop verifying; neither a failing reload nor a
  slow one refuses a token whose key was held and is still in use.
- *Live sessions*: a client with a valid token is eventually connected; one
  without stops.
- *Menus*: positions are unique and dense per business; patches merge; a menu
  misses nothing that existed when it was asked for.

PROJECT.json lists each hazard with its source line.

## 2. Modules and plan

| # | Modules | Section |
|---|---|---|
| 1 | `GrantContract` (abstract), `AuthGrants` (detailed), `MCAuthGrants`, `AuthGrantsProofs` | 3 |
| 2 | `EventLog` (abstract), `Outbox` (relay, stream, crashes), `MCOutbox`, `OutboxProofs` | 4 |
| 3 | `Limiter`, `MCLimiter`, `LimiterProofs` | 5 |
|   | `SignUp`, `MCSignUp`, `SignUpProofs` | 6 |
| 4 | `SignIn` (sessions, passkeys, challenges), `MCSignIn` | 7 |
|   | `AuthRequests` (extends `SignIn` with parked requests) | 8 |
|   | `AccessTokens` (extends `AuthRequests` with `/token` and the resource servers), `MCAccessTokens` | 8 |
|   | `SignUpScreen`; `SignInScreens` (extends it and `AuthRequests` with the app), `MCSignInScreens` | 9 |
|   | `SignInProofs` (about all modules of this group) | 7-9 |
| 5 | `TokenVerifier`, `MCTokenVerifier`, `TokenVerifierProofs` | 10 |
| 6 | `LiveSession`, `MCLiveSession`, `LiveSessionProofs` | 11 |
|   | `MerchantMenu`, `MCMerchantMenu`, `MerchantMenuProofs` | 12 |

Everything that was planned is done but one item: a module that follows a
revocation from the grant over the outbox and the stream to the verifiers. The
repository has both ends and nothing between them: no code subscribes to
`grant_revoked` or calls `ListRevokedGrants` or the verifier's `revoke_grant`.
Such a module would have to invent the consumer. What the missing consumer means
for the resource servers is in section 8.

Some conventions hold for all modules. The *mutated form* before a definition
is that definition with a plausible mistake in it; each checked property is
violated under at least one. History variables and fields are marked as such
and are read by properties only. Every component proves its type invariant, so
no run checks it again; and a property that the abstract specification of a
component implies is proved, and in a run left to the refinement
(`OneEventPerRevocation`, `MarkedIsStored`). Where a comment or a document
promises something that the code does not keep, the module states it as a
definition that no passing run checks; section 13 lists these and how to see
each of them.

## 3. The token and revocation endpoints

### `AuthGrants`

One request is one transaction. Its program counter `tx[x].pc` names the
statement it is about to run:

| `pc` | statement | action |
|---|---|---|
| `row` | `SELECT ... FOR UPDATE` of the code or the token | `LockCredential` |
| `load` | `load_grant` and the checks | `LoadForExchange`, `LoadForRefresh` |
| `grant` | `UPDATE grants ... AND revoked_at IS NULL` | `RevokeGrantRow` |
| `tokens`, `token` | `UPDATE refresh_tokens`: snapshot, then one row lock at a time | `SnapshotTokens`, `LockToken` |
| `commit` | remaining writes and `COMMIT` | `CommitRedeem`, `CommitRotate`, `CommitSlide`, `CommitRevoke`, `CommitNothing` |

The variables `grant`, `code`, `token` and `outbox` hold *committed* rows only;
what a transaction will write is its `effect`, carried out at the commit. This
is sound because a transaction never reads its own writes and everybody else
sees them only after the commit. `owner` holds row locks. `heir` and
`tx[x].late` are history variables used by properties only. Refresh tokens are
named after the request that inserts them, which is what fresh random tokens
amount to. Expiry, `rotated_at` and `now()` are integers; `now()` is the start
of the transaction, as in PostgreSQL.

Each of these is taken from the code:

- `exchange_code` revokes a consumed code before it looks at anything else, so
  even an expired or stranger's code revokes (oauth.rs:377).
- `refresh` compares expiry and revocation in the locking SELECT; the rotation
  time is judged only for public clients (oauth.rs:432-445).
- `revoke` reads the token without a lock and needs no client.
- `revoke_grant` stops when the first UPDATE matches no row. That UPDATE waits
  for a concurrent revocation and then re-evaluates its WHERE clause.
- The foreign key of an inserted token takes a KEY SHARE lock on the grant; it
  does not conflict with the UPDATE of `revoked_at`, so it blocks nobody and is
  left out.

The database and the network are external: `Cancel` drops a handler at any
point before its commit, `Deadlocked`/`DeadlockVictim` are PostgreSQL's
deadlock detection. `Complete` is the transaction at the end of `complete()`.

### `GrantContract`

What an observer is promised, without rows, locks or transactions: a grant is
opened once, its code redeemed at most once, tokens become usable only by
redeeming or by refreshing with a usable one, and revocation is one step that
takes all usable tokens and emits one event. `AuthGrants` implements it under
the mapping in `Contract`: a token is usable when it is not revoked and its
grant is not revoked, which is what `refresh` accepts.

### Runs

| Run | Instance | Shows |
|---|---|---|
| `grants` | 4 requests, 1 grant, a public and a confidential client, clock to 3 | the safety properties, and refinement of `GrantContract` |
| `live` | 5 requests, public client, starting after a first redemption and rotation | `RequestsEnd`, `NoticedMisuseRevokes` |

*Bounds.* The races are between two requests about one grant, and each needs a
request or two to set the stage (redeem, rotate); four requests cover redeem +
rotate + two racing ones. Deadlock needs a token holder, a revoker and the two
requests that made the tokens; the `live` run has five and starts from a state
the `grants` model reaches (redeemed and rotated), so that the wait cycle is
certain to happen. One grant is enough for the races; that revoking one leaves
the others alone is part of the refinement proof, which holds for any number of
grants. The clock passes every time limit (code 2, tokens 3, reuse window
1, clock 3 in `grants`). Requests are interchangeable, and safety runs use
them as a symmetry set; the liveness run does not.

*Deadlock* is checked: `Finished` is the only way to stop.

*Fairness.* `FairSpec` says that a request whose connection stays open is
carried on: tokio polls the handler whenever PostgreSQL answers, and PostgreSQL
grants a lock that stays free and breaks deadlocks. Weak fairness of
`Advance(x)` per request is all that is assumed. Nothing is assumed about
arrivals, the clock, which request is a deadlock's victim, or connections: a
request may be cancelled at any point in the `live` run too. A cancelled request
ends, so `RequestsEnd` is indifferent to it. A revocation that had begun is
rolled back, whatever made it begin: axum drops the handler before the commit of
oauth.rs:380 or 443. `Cancel` therefore remembers the grant of a request that had
found a reason to revoke (`Noticed`, `Lost`), and `NoticedMisuseRevokes` says
that noticed misuse leads to a revoked grant or to one more such loss; with
finitely many requests, only clients that leave after the misuse was noticed
can prevent the revocation. That nobody can, `MisuseAlwaysRevokes`, does not hold
(section 13).

### Proofs (`AuthGrantsProofs`)

All theorems hold for any sets of requests, grants and clients and any time
limits, under `ConstantsAssumption` (which TLC also evaluates). They rest on
the inductive invariant `IInv`:

- `Shape` - what the position of a handler says about its operation, grant,
  credential and the row it waits for;
- `Locks` - which row locks it therefore holds;
- `Knows` - what is *still* true of rows it read earlier, because it holds
  their locks: the code is unconsumed, the token was (or was not) reused late,
  the grant is not yet revoked;
- `Ledger` - what committed rows say about finished requests: a redeemed
  request's code is consumed, `rotated_at` is the start of the first rotation.

The safety properties alone are not inductive. `CodeRedeemedOnce`, for instance,
needs that a request about to redeem still finds the code unconsumed (`Knows`),
which holds because it owns the row (`Locks`), which nobody takes away
(`LocksOfOthers`). There is one lemma per action, and `QuietStep` treats the
steps that only move one request at once. `Refinement` adds that a consumed code's grant was opened.

Proved: `TypeOK`, `CodeRedeemedOnce`, `OneEventPerRevocation`,
`ReuseJudgedByFirstRotation`, `RevocationAnswered`, `NothingAfterRevocation`,
and `ImplementsContract`. Only model-checked: `RequestsEnd` and
`NoticedMisuseRevokes`, because liveness under fairness is beyond TLAPS.

## 4. The outbox

### `Outbox`

`change[e]` is the transaction of a handler that calls `enqueue`; `row[e]` the
committed row of `outbox`. Each relay runs `spawn_relay`:

| `relay[r].pc` | the code | actions |
|---|---|---|
| `create` | `get_or_create_stream` | `CreateStream`, `CreateFails` |
| `poll` | `begin`, `SELECT ... FOR UPDATE SKIP LOCKED` | `Select` |
| `publish`, `sent` | `publish_with_headers(..).await?.await?`, then the row's `UPDATE` | `Send`, `Acknowledge`, `NoStream` |
| `acked` | `tx.commit()` | `CommitBatch` |
| `sleep` | one or five seconds | `Wake` |
| `down` | the process has stopped | `Restart` |

`batch` holds the locked rows and `todo` those without an acknowledgement. As in
`AuthGrants`, `row` holds committed rows only: the UPDATEs take effect at the
commit, because nobody else sees them earlier. `BatchFails` is any error that
`?` returns from `relay_batch`; the transaction is dropped and rolls back.

JetStream is external: `copies[e]` counts the messages it has stored, `seen[e]`
is when it last did, and a message with an id it stored less than `Window` ago
is acknowledged and dropped. A message that was sent can still arrive after its
relay has given up on it (`stray`, `StrayArrives`).

`EventLog` is what the outbox promises, in the words of docs/DATABASE.md: no
event of a change that rolled back, and none marked published that is not in
the stream. `Outbox` implements it under the mapping in `Log`.

### Runs

| Run | Instance | Shows |
|---|---|---|
| `outbox` | 2 events, 2 relays, batches of 2, window 1, 2 faults, clock to 2 | `NeverSentAgain`, refinement of `EventLog`, `EventsArrive` |

*Bounds.* Two relays are enough for one to skip what the other has locked, and
a batch of two can have one row acknowledged and one not, while each relay can
also hold one row. Two faults let a retry fail as well. The clock passes the
duplicate window twice, so that copies outside the window occur. Deadlock is
checked: the relays never stop for good.

*Fairness.* Weak fairness of `RelayStep(r)` for each relay: tokio runs the loop,
its timers fire, PostgreSQL and JetStream answer, and Docker restarts the
service (`restart: unless-stopped`, docker-compose.yml:9). Nothing is assumed
of handlers, the clock, stray messages or faults, which are finite in number:
an outage that lasts for ever prevents publication. `EventsArrive` asks for the
stream to exist, because a relay that could not create it never tries again
(section 13).

### Proofs (`OutboxProofs`)

For any events, relays, batch limit, window and number of faults. The inductive
invariant `OInv` adds to the type invariant and `MarkedIsStored`:

- `Holds` - batches are disjoint and all their rows are still queued;
- `Place` - acknowledged rows of a batch are in the stream, and a relay about
  to commit has no other;
- `Provenance` - a message, stored or under way, has a committed row, and a row
  a committed change.

`MarkedIsStored` needs `Place` at the commit, `NeverSentAgain` needs `Holds`,
and the refinement needs `Provenance` for messages that arrive late. Proved:
`TypeOK`, `MarkedIsStored`, `NeverSentAgain`, `ImplementsLog`. Model-checked
only: `EventsArrive` (liveness).

## 5. Attempt limits

### `Limiter`

`failures[k]` is the queue that `Limiter` keeps for a key, and `request[r]` a
handler of `sign_in_password` or `verify_second_factor`. The two use the
limiter alike: an account key and an address key, `allowed`, a check that takes
a while, then `record_failure` for both keys or `clear` for the account's.

| `request[r].pc` | the code | actions |
|---|---|---|
| `allowed` | `allowed` has read the clock and waits for the mutex | `Allow`, `Refuse` |
| `verify` | the password is hashed, or the challenge and the passkey are checked | `Succeed`, `Fail`, `GiveUp` |
| `record` | `record_failure` has read the clock and waits for the mutex | `Record` |

Both calls read `Instant::now()` before they lock the mutex (limits.rs:27-28,
43-44), so a queue need not be sorted. Times are kept as ages, which makes the
state space finite without bounding the clock: `Tick` makes everything older,
and ages beyond `Oldest` are expired for every call and not told apart.
`MaxWait` bounds how long a call waits for a mutex that is only held for a few
instructions. `allowed` looks at the address only when the account is below the
limit (`all` stops early), so a refusal may leave its queue untouched.

### Runs

| Run | Instance | Shows |
|---|---|---|
| `limiter` | 1 account, 1 address, 3 requests, limit 2, window 1, wait 1 | `OvershootBounded`, `RefusedForRecentFailures`, `OldFailuresExpire` |

*Bounds.* A limit of two lets a queue hold an expired and a recent failure;
two requests are enough to enter a queue in the wrong order, and three to
exceed the limit by as much as `OvershootBounded` allows. A success clears the account's key and not the address's, so
the two queues differ although one account is tried from one address. *Fairness.* Weak fairness of each handler's step (tokio and
the blocking pool run it) and of `Tick`. Handlers never wait for each other
except for the mutex. Deadlock is checked.

### Proofs (`LimiterProofs`)

For any limit, window, wait, keys and finite set of requests. The invariant
`LInv` adds `Room` (a key's failures and its attempts under way never exceed
the limit less one plus the number of requests) and `NearlySorted` (a failure
is at most `MaxWait` older than one queued before it). `OvershootBounded`
follows from `Room`; a refusal finds `MaxFailures` entries of which the first
is not expired, and `NearlySorted` bounds the age of the others. Proved:
`TypeOK`, `OvershootBounded`, `RefusedForRecentFailures`. Model-checked only:
`OldFailuresExpire` (liveness).

## 6. Sign-up

### `SignUp`

`challenge[c]` is the row of `signup_challenges`, `account[e]` says which
challenge made the row of `users` for an address, and `sessions` for which
challenges `finalize` started a session. Each handler is cut at its awaits:

| `request[r].pc` | next statement | actions |
|---|---|---|
| `idle` | none: a request arrives and reads its row | `Start`, `Resend`, `Verify`, `Finalize` |
| `insert` | `INSERT INTO signup_challenges` | `InsertChallenge` |
| `replace` | `UPDATE ... SET otp_hash, ..., last_sent_at` | `ReplaceCode`, `ReplaceNothing` |
| `mail` | `send_signup_otp` | `SendMail` |
| `count` | `UPDATE ... SET attempts = attempts + 1` | `Count` |
| `mark` | `UPDATE ... SET verified_at` | `Mark` |
| `create` | the transaction: `INSERT INTO users`, `DELETE`, commit | `CreateAccount`, `EmailTaken` |
| `session` | `session::start` | `StartSession` |

A request whose first read refuses it changes nothing and is left out. Codes
are random: a challenge's codes are numbered as the row holds them, a client
that never saw a code answers with 0, and one that did may answer with any code
mailed for the challenge, old or current. Guessing right by luck is left out.
`Abort` is an error or a lost connection at any await; before the commit of
`create` it rolls the transaction back. `proven`, `guesses` and `drops` are
history variables: addresses whose owner typed a mailed code, wrong codes that
the current code was compared with, and those among them whose handler ended
before it counted them.

### Runs

| Run | Instance | Shows |
|---|---|---|
| `signup` | 2 challenges, 2 addresses, 2 requests, 1 attempt, 2 codes per challenge, 1 drop per code, clock to 2 | the properties of accounts and sessions, and `GuessesBounded` |

*Bounds.* Two challenges can be for one address (a race of two sign-ups) or for
two (a mix-up); two requests are a race, and one more than the attempts
allowed. The second code is the resent one. The clock passes the resend delay
(1) and the lifetime of a code (2). `CHECK_DEADLOCK FALSE`: once the clock has
stopped at its bound and every challenge has expired, nothing can happen. No
fairness is assumed, and no liveness stated: a user may leave at any time.

### Proofs (`SignUpProofs`)

For any challenges, addresses, delays, limits and finite set of requests. The
inductive invariant `IInv` adds to the properties:

- `ReadFirst` - a verified challenge, and a handler that marks, creates or
  signs in, belongs to a proven address;
- `AccountOfItsChallenge` - an account's challenge is for its address;
- `CreatorAwaitsSession` - a handler about to start a session made the account;
- `UnusedIsBlank` - a fresh challenge id has no row, guesses or session.

Most steps are `Quiet` and share one lemma. At `CreateAccount` the free address
implies that all its challenges are still there, so the handler's own row,
checked before the password was hashed, is too; this is what makes the
unchecked DELETE (signup.rs:187) safe. `GuessesBounded` needs `GuessesAccounted`:
a wrong code is counted, about to be counted, or dropped. Every property of the
passing runs is proved.

## 7. Sessions and passkeys

### `SignIn`

No handler of this part uses a transaction, so each statement commits by itself
and a call is the sequence of its statements. `call[c].pc` is the next one:

| `call[c].pc` | the code | actions |
|---|---|---|
| `idle` | a request arrives; what it carries is chosen here | `Password`, `PasskeyOptions`, `WithCookie`, `Answer`, `Register`, `Remove` |
| `load` | `session::load` or `require` of the cookie; for `remove`, whether the loaded second factor is fresh (`Proceed`, also after `factors`) | `Load` |
| `factors` | `user_passkeys`, `has_factor` | `Factors` |
| `store` | `store_challenge` | `StoreChallenge` |
| `take` | `DELETE ... RETURNING` of `take_challenge`, then the WebAuthn check where nothing is read in between | `TakeChallenge` |
| `read` | the account's passkeys, then the check | `ReadPasskeys` |
| `record` | `record_use` | `RecordUse` |
| `insert` | `INSERT INTO passkeys` | `InsertPasskey` |
| `method` | `add_method` | `AddMethod` |
| `delete` | `DELETE FROM passkeys` | `DeletePasskey` |
| `end`, `start` | `session::end` of the old cookie, `session::start` | `EndSession`, `StartSession` |

`session`, `challenge` and `passkey` are the rows of their tables. A session or
challenge is named after the call that inserts it, which is what a fresh random
token amounts to; a cookie or a challenge id is thus a call. The WebAuthn
library and the authenticators are external: an authenticator signs with an
increasing counter (`signed`), and the library accepts an answer by a passkey
it is given if the counter exceeds the stored one. Any client may carry any
cookie and answer any challenge it was issued, also twice. A dropped call is
one that takes no further step. The limiter calls of `verify_second_factor`
are those of section 5.

### Runs

| Run | Instance | Shows |
|---|---|---|
| `signin` | an earlier session and 3 calls, 2 users, a passkey each, lifetimes 1, clock to 1, 2 signatures | `ChallengeUsedOnce`, `SecondFactorProven`, `RemovedSignsNobodyIn`, `AcceptedUpgrades` |

*Bounds.* A ceremony takes two calls (options and answer) and the third is the
race: a second answer, a removal or a sign-out. The earlier session makes all
three available for that; it may be any user's, with or without a second
factor. Two users with a passkey each let a ceremony be answered by the wrong
one. The lifetimes expire at the clock's bound. The calls that have not begun
are interchangeable. Deadlock is checked: `Finished` is the only way to stop.
No liveness is stated here (section 9 does, for a client that goes on).

### Proofs (`SignInProofs`)

For any calls, users and passkeys and any lifetimes. The inductive invariant
`IInv` says of every handler

- `Place` - at which statements an operation can be;
- `Names` - the session, challenge and passkey it names, according to how far
  it has got;
- `Account` - that the account it works on is its session's, and that the
  session is there or was ended by another call;
- `Proof` - what it has proven so far and for whom;

and of the rows `Sessions` (a second factor was proven), `Challenges` (whom a
challenge was issued to) and `Owned` (a row belongs to the user its
credential was made for). The two properties of states are part of it.
`ChallengeUsedOnce` rests on the DELETE: a challenge that was taken does not
return, because only its issuing call stores it. `SecondFactorProven` rests on
`Account`: the user of a session row never changes, and a call that is done
stays as it is, so a proof once given is not lost. Proved: `TypeOK` and all
four properties of the run.

## 8. Authorization requests and access tokens

### `AuthRequests`

The module extends `SignIn`: the handlers of both run next to each other on the
same sessions and passkeys. `Authorize` is the whole of `/authorize`, with the
two ways of refusing (an error page before client and return address check out,
a redirect after). A call of `get_request`, `complete` or `deny` goes through
`load` (the parked row), `session` (`session::load`), `factors` (the passkeys
that `session::view` counts, and `decide`), and `complete` through `commit`,
the transaction that inserts grant and code and deletes the request; `deny`
goes from `load` to `delete`. The grant made by `commit` is the one section 3
begins with.

`GrantMeetsPolicy` is about a decision on old data: `complete` loads request
and session, then looks for passkeys, then commits. It holds because what
`decide` read is what the grant records (`acr`, `auth_time`), so a sign-out or
removal in between cannot make a grant claim more than was proven. It does not
say that the session still exists when the grant is made; the code does not
look again.

The registry of registry.rs is written down as `Registry` and `SeededClients`,
and the instances give the constants these values. The theorems hold for any
clients, resources, scopes and policies (those about `AccessTokens` assume
`MfaPolicy::Always` for the merchant API).

### `AccessTokens`

What becomes of a grant afterwards. `token[t]` is a call of `/token`:
`authenticate_client` and the checks of the grant (`LoadGrant`), and the token
signed after the commit from the grant as it was read (`Sign`). What makes a
code or refresh token good is in section 3. `Revoke` is `revoke_grant` by any
of its callers. `access[a]` is a request to a resource server: the extractor of
svc-auth (`Authenticate`), and then `require_scope` or `require_fresh_mfa` and
the handler (`Perform`). Of the operations, `approve` stands for approve_order
and verify_pickup_location, `manage` for those of the merchant API and `read`
for the other ones of the customer API. The claims are functions of the grant
and the time of signing (`Claims`), and `answered` is a history variable: when
a call of section 7 succeeded. Signing keys are section 10's. The MCP endpoint
checks no token yet and is left out. A call or request that is refused before
its handler runs (an unknown or spent credential, a wrong secret, a token that
does not verify, signing keys that cannot be loaded) changes nothing and is
left out too.

### Runs

| Run | Instance | Shows |
|---|---|---|
| `access` | 1 request, 2 calls of `complete` or `deny`, an earlier session and 2 calls, 1 user, 1 passkey, 1 token, 1 access, clock to 1 | `GrantMeetsPolicy`, `GrantFactorProven`, `NothingAfterAnswer`, `ServedIsProven`, `ServedAsApproved`, `StepUpSuffices`, `RevokedRunsOut` |

*Bounds.* The queries are a step-up of the app at the customer API, the
merchant portal, Alexa at the customer API (consent, a client secret, no second
factor), and one for a scope that its resource does not have. Two flow calls
race. The two other calls upgrade the earlier session (options and answer) or
remove its passkey in between; the session may have its second factor already,
so that a grant is approved on an old one, a recent one or none. A token lives
for its tick of the clock, as do freshness for a step-up and at the resource
server, and the clock has two: each of them can lapse between any two steps,
and so can the request and the challenge. A property of what is served follows
one chain of session, request, grant and token; chains share nothing but the
session. Two constraints leave out states that add nothing: nothing follows a
request that was decided (`Undecided`; its decision is still judged), because it
takes no further part, nor one where a first-party client sent consent
(`ConsentAsked`), because `Approved` does not look at it. Calls of a kind are
interchangeable. Deadlock is checked:
`AccessFinished` is the only way to stop. The proofs below are for any number
of all of these, and all handlers.

### Proofs (`SignInProofs`, second and third part)

For any numbers of requests, calls, tokens and accesses, any registry in which
the merchant API always asks for a second factor, and any times. `FlowInv` adds
to the `IInv` of section 7, for every flow call,

- `FlowPlace` - at which statements an operation can be, and what it has loaded
  by then;
- `FlowSaw` - a passkey that the account had when the call began is still there
  or was removed for good, and a loaded second factor was proved in that
  session (by a call that is done, and so stays as it is);
- `Judged` - what `evaluate` found before it let the call go on to its commit;
- `Recorded` - a grant is the record of the call that inserted it;
- `FlowAnswers` - an answered request is gone, and a later call finds none.

`GrantMeetsPolicy` is not inductive: `complete` decides at one statement and
inserts at another, and `Judged` is what stays true in between. It does because
it is about the call's own copies and about removals, which are final; a
session that is ended meanwhile does not matter to it. `GrantFactorProven`
follows from `FlowSaw`, which takes the proof over from `SecondFactorProven` at
the moment the session is loaded. `NothingAfterAnswer` needs that only
`Authorize` parks a request, once.

`AccessInv` adds to `FlowInv` that second factors are dated: a session's
`auth_time` is when the call that proved its second factor was answered
(`SessionsDated`), and so is what a flow call read (`FlowDated`); that a token
is of a grant which was not revoked when it was read (`TokenOfGrant`); and what
a request has got past (`Passes`). Grants do not change once inserted, so
claims do not either. `ServedIsProven` is then the chain access - token - grant
- flow call - session - passkey: for an approval through the age that `Passes`
remembers, for the merchant API through `NeedsMfa` of `Judged`, because its
handlers look at the scope alone. `StepUpSuffices` follows from `Judged` too.
`AccessKeepsFlow` shows that the module does nothing to sessions and grants
that `AuthRequests` would not.

Proved: `FlowTypeOK`, `AccessTypeOK` and all properties of the run.

`RevokedRunsOut` is weaker than what the comments say. "Rejects every token of
`grant_id` from now on (fed by `auth.events.grant_revoked`)", says the verifier
(verifier.rs:123), and auth-service queues the event "so resource servers
reject its access tokens too" (oauth.rs:508-509). No code subscribes to the
event or calls the verifier's `revoke_grant`, so the tokens of a revoked grant
are accepted until they expire: `RevokedIsRejected` of this module does not
hold (section 13). What does: a token is accepted for its life and the leeway,
and one of a revoked grant was issued by a call that had read the grant before.

## 9. The screens of the customer app

### `SignUpScreen` and `SignInScreens`

`SignUpScreen` is the form of sign-up.tsx: its state variables, the latch
`emailChecked`, the dialog, and the calls in flight, whose answers apply to
whatever the form shows when they arrive. The sign-up API answers as section 6
allows. A call of the dialog carries the challenge and the address of the moment
it is made.

`SignInScreens` composes it with `AuthRequests`: `screen` is the route, `ask`
the API call that the screen is in, `busyOn` the modelled handler that carries
it, `jar` the cookie, `given` the call that brought the passkey options answered
next. `After` is what each screen does with each answer
(sign-in.tsx, mfa.tsx, mfa/setup.tsx, signup/passkey.tsx, consent.tsx). The
user presses the button that is there ("Skip for now" included) and answers
with a passkey the challenge allows. A created account gets its session as
after a password sign-in. Two screens call the API as they open and do so once:
the passkey screen of sign-up asks for options (`mount`, whose challenge is
stored and not used, because Add asks again) and the consent screen for the
request (`show`). When such a call fails, Add or Allow stays disabled
(`unaddable`, and a consent screen that waits); any other failing call leaves
the screen where it was, with its button (`Refused`).

### Runs

| Run | Instance | Shows |
|---|---|---|
| `screens` | one browser and request, 3 addresses of which one has an account, 1 fault, 6 calls, 4 flow calls | `PasswordStepReady`, `RequestAnswered` |

*Bounds.* The longest way through the screens needs the calls given; nobody
else uses the account. Of the addresses one has an account and two have none, so
that the address can be changed to another good one while a check is in flight.
A challenge may expire on the way, once; the session and the request do not. One
call of the form may fail. `RequestAnswered` says that no screen is a dead end
for what the service answers: whatever the account, client, resource and step-up,
following the screens ends in a grant. With a lasting session and request, and
no network fault outside the form, the calls `mount` and `show` succeed; where
they fail, the consent screen is a dead end until it is reloaded
(consent.tsx:10-12).

*Fairness.* `AppFairSpec` assumes weak fairness of what the browser and the
service have begun (`AppStep`, the answers of the form's calls). Of the user it
assumes strong fairness of typing an address without an account when no check is
in flight, of checking such an address, of closing a dialog whose code went to
another address, and of submitting the code or the password when they can be
submitted; and that he at last leaves the address alone while it is checked
(`<>[][Waits]_email`). A user who only ever closes the dialog, asks for another
code or retypes the address during its check gets nowhere.

The user of this run is `Patient`, which is to say that he lets one call end
before the next: he may edit the address while its check is in flight, so that
the answer meets a form that shows another address (sign-up.tsx:34), but starts
another check, or closes the dialog, only when nothing is. The dialog that then
opens is for an address that is not shown; the service refuses its code, and
`PasswordStepReady` is what keeps the user from the password step. It fails when
a service accepts the code under any address (`AnyAddress`). A user who has a
second check in flight can be led to a password step that is refused (section
13).

### Proofs (`SignInProofs`, last part)

For any addresses, calls and requests of a `Patient` user. `AppInv` adds to
`FlowInv`

- `Carries` - the handler that carries the screen's call is the one it asked
  for, and the cookie names a session that some call started;
- `Addresses` - one check at most is in flight, and none while the dialog is
  open; a call of the dialog is about the challenge held and the address shown;
  at the password step the challenge is verified and for that address.

`PasswordStepReady` alone is not inductive: the answer that opens the password
step must be about the challenge that is held then, and no check may still be in
flight to replace it, which is what `Addresses` keeps. With two checks in flight
the invariant fails, and so does the property (section 13).

`AppUsesFlow` shows that every step of the app is one of `AuthRequests` or leaves
it alone, so that the theorems of section 8 hold for grants that users of the app
approve. Proved: `AppTypeOK`, `PasswordStepReady`. Model-checked only:
`RequestAnswered` (liveness).

Seen on the way, and outside the instance: after the dialog is closed Continue
has no effect until the address is edited, because the latch is still set
(sign-up.tsx:21); the set-up screen has no way back to the second factor when
its freshness has lapsed or another device has added a passkey meanwhile; and
the button "Deny" of the consent screen does not call `deny`, so the request
stays parked until it expires.

## 10. The token verifier

### `TokenVerifier`

`cache` is the `KeyCache` of a resource server and `revoked` its
`revoked_grants`. A call of `verify` passes `look` (`key`: the read lock and
the decision to reload), `fetch` and `store` (`reload`: the HTTP answer, then
the write lock), `again` (`cached_key`) and `decode` (signature and claims,
then the revocation list). `signing` is what auth-service publishes: one key at
a time, replaced by `Rotate`. `Restart` empties cache and list. Times are ages
that stop counting where nothing tells them apart, so the clock is unbounded.
`MaxFlight` bounds the time from auth-service's answer to its use. It is an
assumption: `reqwest` is used without a timeout, and an answer that took for
ever could bring back any key.

### Runs

| Run | Instance | Shows |
|---|---|---|
| `verifier` | 2 calls, 3 keys, 1 grant, cooldown 1, key age 2, flight 1 | `RetiredKeysStop`, `CurrentKeyIsFound`, `HeldKeyServes` |

*Bounds.* Two reloads overlap, and three keys give two rotations: an old key set
can be stored over a newer one after either. The ages pass cooldown, key age
and flight. Calls and keys are interchangeable. There is no liveness: without a
timeout a call need not end.

### Proofs (`TokenVerifierProofs`)

For any calls, keys, grants and any times with `Cooldown <= MaxKeyAge`. The
inductive invariant relates the cache to what auth-service published at some
moment: `WasTrue(keys, age)` says that `keys` was its key set at most `age` ago.
`Answers` says so of answers under way and `Cache` of the cache (plus one
flight); `Remembered`, `Reloaded` and `Judged` carry it through the statements
of a call to its outcome.

`HeldKeyServes` needs an invariant of its own and `MaxFlight < MaxKeyAge`, that
is, answers that are used before the keys age out. `Aged` says that
a cached key which auth-service signs with has been in use for at least the age
of the cache. A call reloads although it has its key only when the cache is
`MaxKeyAge` old, so `Holds` that its key, if still in use, has been so for longer
than any answer was under way: every answer stored meanwhile names it. Reloads that
fail leave the cache alone; were it emptied first (`ReloadEmpties`), a token
could be refused whose key was there. Proved: `TypeOK` and the three properties.

The list of revoked grants is in the model, but no property of the run is about
it: nothing in the repository fills it, and a restart empties it
(`RevocationsAreKept`, section 13).

The cooldown is measured from the last *successful* load (verifier.rs:159), so
it restrains neither reloads that fail nor reloads that run at once
(`ReloadsAreSpaced`, section 13).

## 11. Live sessions

### `LiveSession`

`status`, `retried`, `closes`, `stopped`, `retry`, `reauth` and `socket` are the
variables of `connectLive` (live.ts), `auths` its pending `authMessage` calls,
`session` the server's end and `toServer`, `toClient` the frames under way.
`service` chooses between the two services: user-service verifies each repeated
`auth` and compares its subject, merchant-service ignores it. `Verify` is what
the sessions make of section 10's outcomes. `Lost`, `AuthTimeout`, a key that
cannot be loaded, a bad token, an `authMessage` that rejects and `ChangeUser` are
the faults. After a rejected `authMessage` nothing is sent (live.ts:42), and the
session's `AUTH_TIMEOUT` is certain unless the client repeats `auth` before:
`TimeoutDue`, which costs no further fault.

### Runs

| Run | Instance | Shows |
|---|---|---|
| `live_session` | 2 users, 4 faults, 2 pending answers, 2 frames | `GivesUpAfterTwoFaults`, `StoppedStaysOffline`, `Reopens` |
| `live_rejected` | 1 user, 2 faults | a violation, see below |

*Bounds.* Two faults make the client give up; four let it recover from two first
and then give up. Two pending `authMessage` calls overtake a reconnection. The
limits on calls and frames bound the timer, which fires every few minutes in
the code. `CHECK_DEADLOCK FALSE`: a client that was stopped stops.

*Fairness.* Weak fairness of the client's callbacks (open, answer of
`authMessage`, ready, close, retry timer), of the session's reads and of its
timeout when nothing is coming: the browser and tokio run them. Nothing is assumed of `stop`, faults or changes of
user; faults are finite in number.

### Proofs (`LiveSessionProofs`)

For any users and bounds. The invariant has `Timers` (which timers run in which
state of the socket; none once stopped), `Frames` (what can be under way) and
`Paid`: every refusal that was counted, or is still under way as a close frame,
was paid for by a fault of its own, and so was a session that waits for a first
message nobody is going to send. `GivesUpAfterTwoFaults` follows from
`Paid`, `StoppedStaysOffline` from `Timers`. Proved: `TypeOK` and these two.
Model-checked only: `Reopens` (liveness).

### Finding

The comment on giving up says "The token was refreshed once and still rejected"
(live.ts:80). The services close with 4401 whenever the first message brought
no claims, also when it did not come within `AUTH_TIMEOUT` or the signing keys
could not be loaded (user-service live.rs:35-38, 63-69). Two such closes stop
live updates although no token was rejected (`live_rejected`).
`GivesUpAfterTwoFaults` is what does hold.

## 12. Menus

### `MerchantMenu`

`section` and `item` are the rows of their tables. `create_section` reads the
next position and inserts (`position`, `insert`); the unique constraint on
business and position decides a race. `create_item` inserts under a foreign
key that includes the business, `update_item` is one UPDATE with COALESCE, and
`menu` reads sections and then items. The membership check of each call is part
of its arrival, because memberships change nowhere.

### Runs

| Run | Instance | Shows |
|---|---|---|
| `menu` | an earlier section and 3 calls, 2 businesses with a member each, prices -1 and 2, stock 1 or unlimited | `PositionsDense`, `SectionsInOrder`, `MenuComplete`, `PatchesMerge` |

*Bounds.* Two creations race while a third call reads or creates; two patches
race after a creation. The second business shows that positions and foreign
keys are per business. -1 is refused. Calls are interchangeable. Deadlock is
checked: `Ended` is the only way to stop.

### Proofs (`MerchantMenuProofs`)

For any calls, businesses, users and memberships. The invariant says that the
positions of a business are an interval from 0 (`Numbered`), that a position
that was read is 0 or follows one that is taken, and is above every section the
call found (`Reads`), that items are in sections of their business
(`ItemsAreShown`), and what a call carries (`Rows`, `Requests`, `Menus`).
Proved: `TypeOK` and the four properties.

Seen on the way: the call that loses the race for a position is answered 500; the
answer of `update_item` is read by a second statement and may show a later
patch; `create_item` answers the currency as sent and stores it in lower case;
the outbox rows that the documents promise for menu changes are not written.

## 13. Known deviations

Each is a definition of its module that states what a comment or document
promises, and that TLC finds violated when it is added to the cfg of its
component (that of the run `live` for `MisuseAlwaysRevokes`).
`CounterStaysCurrent` needs a fourth call, and `PasswordStepReady` a second check
and `FormUser` (a user who does not wait) in place of `Patient`.

| Definition | Promise | What the code does |
|---|---|---|
| `RevokedGrantHasNoLiveToken` (`AuthGrants`) | "Revokes a grant and its refresh tokens" (oauth.rs:508) | A request that read the grant before the revocation and commits after it leaves a token row without `revoked_at`. The token is useless, because every later request looks at the grant: `NothingAfterRevocation`. |
| `MisuseAlwaysRevokes` (`AuthGrants`) | "A code presented twice was probably intercepted: revoke everything it issued" (oauth.rs:378) | The revocation is committed by the handler of the misuse itself. When its client closes the connection before the commit, axum drops the handler, the transaction rolls back and the grant stays in use. `NoticedMisuseRevokes` holds. |
| `RevokedIsRejected` (`AccessTokens`) | "Rejects every token of `grant_id` from now on (fed by `auth.events.grant_revoked`)" (verifier.rs:123) | No code feeds it. `RevokedRunsOut` holds. |
| `RevocationsAreKept` (`TokenVerifier`) | "... from now on" (verifier.rs:123) | The list is in memory only: a restart forgets it, and nothing loads it again. |
| `ReloadsAreSpaced` (`TokenVerifier`) | "Minimum time between key reloads" (verifier.rs:16) | Calls that run together reload at once, and a reload that fails does not start the cooldown. |
| `NoDuplicates` (`Outbox`) | "also the Nats-Msg-Id, so JetStream drops duplicates" (0001_init.sql:168) | Only within the duplicate window. A failure rolls back a batch of marks, and a retry after the window stores those events twice. A consumer needs the `inbox` of docs/DATABASE.md. |
| `QueuedArePublished` (`Outbox`) | "publishing will retry" (outbox.rs:35) | The stream is created once, before the loop; when that fails every publish fails until a restart. |
| `LimitKept` (`Limiter`) | "10 failed attempts per account or IP address per 15 minutes" (auth-service lib.rs:55) | Overlapping attempts are counted after they were checked. `OvershootBounded` holds. |
| `CodesAreSpaced` (`SignUp`) | "Minimum delay between OTP emails" (auth-service README.md:80) | Two overlapping resends both pass the check and both mail. |
| `CounterStaysCurrent` (`SignIn`) | `record_use` keeps the counter current (passkeys.rs:88) | It rewrites the whole passkey from an earlier read; the slower of two sign-ins puts an older counter back. |
| `RemovedIsNoFactor` (`SignIn`) | "That passkey isn't registered to this account" (passkeys.rs:360) | The check uses the passkeys of the challenge; one that was removed after the challenge was issued is still accepted as a second factor. |
| `OneGrantPerRequest` (`AuthRequests`) | a request is answered once | Two overlapping calls of `complete` both make a grant: the DELETE does not check that it found the row. |
| `CodeSentToShownEmail` (`SignUpScreen`) | "Enter the six-digit code sent to {email}" (sign-up.tsx:154) | The address can be edited while a check is in flight. The service then refuses the code, because it compares the address. |
| `PasswordStepReady` (`SignUpScreen`) | the password step can finish | It holds while one check at a time is in flight, as in run `screens`. When a second check starts before the first has answered, its answer replaces the challenge while the first code is being verified, and the password is then refused. |

## 14. Not modelled

- `grpc.rs`: read-only queries that no code in the repository calls.
- `keys.rs`, `crypto.rs`, `mail.rs`, configuration, errors, start-up of
  svc-common: pure functions, or I/O without state of their own.
- user-service REST and MCP, catalog-read-service: the handlers answer 501; the
  checks in front of those of the customer API are in `AccessTokens`.
- The `WWW-Authenticate` challenges of the extractors: wording.
- dispatch-service: logs what it receives; its tables are not written.
- `station` (a trait and a map in memory for tests), `geo` (arithmetic),
  `contracts` (generated).
- The other screens of the app: rendering and navigation.
- `users.disabled_at`, which handlers test: no code sets it.

Liveness under fairness and `ENABLED` are beyond TLAPS and stay with TLC:
`RequestsEnd`, `NoticedMisuseRevokes`, `EventsArrive`, `OldFailuresExpire`,
`RequestAnswered` and `Reopens`. Every other property of a passing run is a
theorem. The operators of the modules with proofs are not recursive.
