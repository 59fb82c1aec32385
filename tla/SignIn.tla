-------------------------------- MODULE SignIn --------------------------------
(***************************************************************************)
(* Browser sessions and passkeys of auth-service (session.rs, passkeys.rs, *)
(* and the password sign-in and sign-out of account.rs).  No handler of    *)
(* this part uses a transaction: each of its SQL statements commits by     *)
(* itself, and a call is modelled as the sequence of its statements, the   *)
(* computation after a statement being part of its step.  A dropped call   *)
(* is one that takes no further step.                                      *)
(*                                                                         *)
(* A session and a WebAuthn challenge are named after the call that        *)
(* inserts their row, which is what a fresh random token amounts to.       *)
(* Authenticators and the webauthn library are external: an authenticator  *)
(* signs with an increasing counter, and the library accepts an answer by  *)
(* a credential it is given whose counter exceeds the one it is given.     *)
(***************************************************************************)
EXTENDS Integers, FiniteSets

CONSTANTS
  Calls,         \* calls of the API
  Earlier,       \* those that started a session before we look
  Users,
  Passkeys,      \* credentials that authenticators hold
  Handle,        \* Handle[k]: the user credential k was made for
  None,          \* SQL NULL
  Offered,       \* the operations that the clients of an instance call
  ChallengeTTL,  \* CHALLENGE_TTL_SECS
  SessionTTL,    \* SESSION_DAYS
  FreshMfa,      \* FRESH_MFA_SECS
  MaxTime,       \* bound on the clock
  MaxCount       \* bound on the signatures of a credential

Operations == {"password", "passkey_options", "passkey", "factor_options", "factor",
               "register_options", "register", "remove", "sign_out"}

ASSUME SignInAssumption ==
  /\ Earlier \subseteq Calls
  /\ Handle \in [Passkeys -> Users]
  /\ None \notin Calls \cup Users \cup Passkeys \cup Int 
  /\ None \notin Operations \cup {"REGISTRATION", "AUTHENTICATION"}
  /\ Offered \subseteq Operations
  /\ ChallengeTTL \in Nat /\ SessionTTL \in Nat /\ FreshMfa \in Nat
  /\ MaxTime \in Nat /\ MaxCount \in Nat

VARIABLES
  now,        \* the clock
  session,    \* rows of sessions
  challenge,  \* rows of webauthn_challenges
  passkey,    \* rows of passkeys
  gone,       \* history: credentials whose row was removed
  signed,     \* signed[k]: the signature counter in the authenticator of k
  call        \* call[c]: the handler of call c

vars == <<now, session, challenge, passkey, gone, signed, call>>

(* What user_passkeys returns: the signature counters of an account's rows. *)
Keys   == [Passkeys -> 0..MaxCount \cup {None}]
NoKeys == [k \in Passkeys |-> None]

SessionRow == [user : Users \cup {None}, hwk : BOOLEAN, auth : Int, expires : Int]
NoSession  == [user |-> None, hwk |-> FALSE, auth |-> 0, expires |-> 0]

(* `keys' is the ceremony state: the counters of the account's passkeys    *)
(* when a second factor was asked for.                                     *)
ChallengeRow == [kind : {"REGISTRATION", "AUTHENTICATION", None}, user : Users \cup {None},
                 keys : Keys, expires : Int]
NoChallenge  == [kind |-> None, user |-> None, keys |-> NoKeys, expires |-> 0]

PasskeyRow == [user : Users \cup {None}, count : 0..MaxCount]
NoPasskey  == [user |-> None, count |-> 0]

Stages == {"idle", "load", "factors", "take", "read", "record", "insert", "method",
           "delete", "end", "start", "store", "done", "failed"}
CallState == [pc     : Stages,                   \* the statement it is about to run
              op     : Operations \cup {None},
              cookie : Calls \cup {None},        \* the session cookie it carries
              answer : Calls \cup {None},        \* the challenge it answers
              key    : Passkeys \cup {None},     \* the credential that signed, or is removed
              count  : 0..MaxCount,              \* the counter in the signature
              user   : Users \cup {None},        \* whose account it works on
              hwk    : BOOLEAN,                  \* the loaded session had its second factor
              auth   : Int,                      \* auth_time of the loaded session
              keys   : Keys,                     \* what user_passkeys returned
              took   : BOOLEAN,                  \* take_challenge gave it the challenge
              proved : BOOLEAN,                  \* the answer was accepted
              late   : BOOLEAN]                  \* history: key was removed before it began

NoCall == [pc |-> "idle", op |-> None, cookie |-> None, answer |-> None, key |-> None,
           count |-> 0, user |-> None, hwk |-> FALSE, auth |-> 0, keys |-> NoKeys,
           took |-> FALSE, proved |-> FALSE, late |-> FALSE]

TypeOK ==
  /\ now \in 0..MaxTime
  /\ session \in [Calls -> SessionRow]
  /\ challenge \in [Calls -> ChallengeRow]
  /\ passkey \in [Passkeys -> PasskeyRow]
  /\ gone \subseteq Passkeys
  /\ signed \in [Passkeys -> 0..MaxCount]
  /\ call \in [Calls -> CallState]

Live(s) == session[s].user # None /\ session[s].expires > now
KeysOf(u) == {k \in Passkeys : passkey[k].user = u}
UserPasskeys(u) == [k \in Passkeys |-> IF k \in KeysOf(u) THEN passkey[k].count ELSE None]

(* Accounts with and without passkeys, and sessions started earlier with a *)
(* password or with a passkey.                                             *)
Init ==
  /\ now = 0
  /\ \E own \in SUBSET Passkeys :
       passkey = [k \in Passkeys |-> [user |-> IF k \in own THEN Handle[k] ELSE None, count |-> 0]]
  /\ \E by \in [Earlier -> Users \X (Passkeys \cup {None})] :
       /\ \A e \in Earlier : by[e][2] # None => passkey[by[e][2]].user = by[e][1]
       /\ session = [c \in Calls |->
            IF c \in Earlier
            THEN [user |-> by[c][1], hwk |-> by[c][2] # None, auth |-> 0, expires |-> SessionTTL]
            ELSE NoSession]
       /\ call = [c \in Calls |->
            IF c \in Earlier
            THEN [NoCall EXCEPT !.pc = "done", !.op = IF by[c][2] = None THEN "password" ELSE "passkey",
                                !.user = by[c][1], !.key = by[c][2], !.proved = by[c][2] # None]
            ELSE NoCall]
  /\ challenge = [c \in Calls |-> NoChallenge]
  /\ gone = {}
  /\ signed = [k \in Passkeys |-> 0]

-----------------------------------------------------------------------------
(***************************************************************************)
(* A call arrives.  A client presents a cookie it was given, or none; it   *)
(* may present one whose session has ended, and several calls may carry    *)
(* the same cookie or answer the same challenge.                           *)
(***************************************************************************)
Started == {c \in Calls : call[c].pc = "done" /\ call[c].op \in {"password", "passkey"}}
Issued(op) == {c \in Calls : call[c].pc = "done" /\ call[c].op = op}

Begin(c, op, new) ==
  /\ op \in Offered
  /\ call[c].pc = "idle"
  /\ call' = [call EXCEPT ![c] =
       [new EXCEPT !.op = op, !.late = new.key \in gone,
                   !.pc = CASE op \in {"password", "sign_out"} -> "end"
                            [] op = "passkey_options" -> "store"
                            [] op = "passkey" -> "take"
                            [] OTHER -> "load"]]
  /\ UNCHANGED <<now, session, challenge, passkey, gone>>

(* account.rs: the password was right (wrong ones are the Limiter's).      *)
Password(c) == \E s \in Started \cup {None}, u \in Users :
  /\ Begin(c, "password", [NoCall EXCEPT !.cookie = s, !.user = u])
  /\ UNCHANGED signed

PasskeyOptions(c) == Begin(c, "passkey_options", NoCall) /\ UNCHANGED signed

WithCookie(c) == \E s \in Started, op \in {"factor_options", "register_options", "sign_out"} :
  /\ Begin(c, op, [NoCall EXCEPT !.cookie = s])
  /\ UNCHANGED signed

Remove(c) == \E s \in Started, k \in Passkeys :
  /\ Begin(c, "remove", [NoCall EXCEPT !.cookie = s, !.key = k])
  /\ UNCHANGED signed

(* The authenticator signs: navigator.credentials.get.                     *)
Answer(c) == \E k \in Passkeys, op \in {"passkey", "factor"} :
  \E s \in Started \cup (IF op = "passkey" THEN {None} ELSE {}),
     a \in Issued("passkey_options") \cup Issued("factor_options") :
    /\ signed[k] < MaxCount
    /\ signed' = [signed EXCEPT ![k] = @ + 1]
    /\ Begin(c, op, [NoCall EXCEPT !.cookie = s, !.answer = a, !.key = k, !.count = signed[k] + 1])

(* navigator.credentials.create: a credential for the ceremony's user.     *)
Register(c) == \E s \in Started, a \in Issued("register_options"), k \in Passkeys :
  /\ Handle[k] = call[a].user
  /\ Begin(c, "register", [NoCall EXCEPT !.cookie = s, !.answer = a, !.key = k])
  /\ UNCHANGED signed

-----------------------------------------------------------------------------
(***************************************************************************)
(* The statements.                                                         *)
(***************************************************************************)
At(c, stage) == call[c].pc = stage
Go(c, stage) == call' = [call EXCEPT ![c].pc = stage]
Fail(c) == Go(c, "failed")

Required(op) == CASE op = "factor_options" -> "read"
                  [] op \in {"factor", "register"} -> "take"
                  [] op = "register_options" -> "store"
                  [] op = "remove" -> "delete"
AllowPending(op) == op \in {"factor_options", "factor"}

(* A passkey is removed only with a fresh second factor, as it was loaded. *)
HasFresh(hwk, auth) == hwk /\ now - auth <= FreshMfa
Proceed(op, hwk, auth) == IF op = "remove" /\ ~HasFresh(hwk, auth) THEN "failed" ELSE Required(op)

(* load, and require's test of the loaded amr.                             *)
Load(c) ==
  LET s == call[c].cookie
      next == IF AllowPending(call[c].op) \/ session[s].hwk
              THEN Proceed(call[c].op, session[s].hwk, session[s].auth) ELSE "factors"
  IN  /\ At(c, "load")
      /\ IF Live(s)
         THEN call' = [call EXCEPT ![c].pc = next, ![c].user = session[s].user,
                                   ![c].hwk = session[s].hwk, ![c].auth = session[s].auth]
         ELSE Fail(c)
      /\ UNCHANGED <<now, session, challenge, passkey, gone, signed>>

(* factors: a session that still owes its second factor is refused.        *)
Factors(c) ==
  /\ At(c, "factors")
  /\ Go(c, IF KeysOf(call[c].user) = {} THEN Proceed(call[c].op, call[c].hwk, call[c].auth) ELSE "failed")
  /\ UNCHANGED <<now, session, challenge, passkey, gone, signed>>

StoreChallenge(c) ==
  /\ At(c, "store")
  /\ challenge' = [challenge EXCEPT ![c] =
       [kind |-> IF call[c].op = "register_options" THEN "REGISTRATION" ELSE "AUTHENTICATION",
        user |-> call[c].user, keys |-> call[c].keys, expires |-> now + ChallengeTTL]]
  /\ Go(c, "done")
  /\ UNCHANGED <<now, session, passkey, gone, signed>>

(* The library accepts an answer by key k with counter n among these keys. *)
Accepts(keys, k, n) == keys[k] # None /\ n > keys[k]

(* take_challenge: a row of the caller's kind that has not expired.         *)
Taken(c) ==
  LET a == challenge[call[c].answer] IN
  /\ a.kind = IF call[c].op = "register" THEN "REGISTRATION" ELSE "AUTHENTICATION"
  /\ a.expires > now

(* Mutated form: the ceremony of a second factor is anybody's.             *)
PassedFactor(me, a) ==
  CASE me.op = "passkey"  -> TRUE
    [] me.op = "factor"   -> Accepts(a.keys, me.key, me.count)
    [] me.op = "register" -> a.user = me.user

(* The caller's checks: for a signed-in caller the ceremony must be its    *)
(* account's.  A sign-in ignores whose it is: both kinds of ceremony have  *)
(* the same fields, so a challenge that asked for a second factor does.    *)
Passed(me, a) ==
  CASE me.op = "passkey"  -> TRUE
    [] me.op = "factor"   -> a.user = me.user /\ Accepts(a.keys, me.key, me.count)
    [] me.op = "register" -> a.user = me.user

(* Mutated form: the challenge is only looked up.                          *)
KeepChallenge(a) == challenge

DeleteChallenge(a) == [challenge EXCEPT ![a] = NoChallenge]

TakeChallenge(c) ==
  LET me == call[c]
      passed == Passed(me, challenge[me.answer])
  IN  /\ At(c, "take")
      /\ IF Taken(c)
         THEN /\ challenge' = DeleteChallenge(me.answer)
              /\ call' = [call EXCEPT ![c].took = TRUE,
                            ![c].proved = passed /\ me.op # "passkey",
                            ![c].user = IF me.op = "passkey" THEN Handle[me.key] ELSE @,
                            ![c].pc = IF ~passed THEN "failed"
                                      ELSE IF me.op = "register" THEN "insert" ELSE "read"]
         ELSE Fail(c) /\ UNCHANGED challenge
      /\ UNCHANGED <<now, session, passkey, gone, signed>>

(* user_passkeys.  A sign-in is verified against the rows read here; a     *)
(* second factor was verified against those of its ceremony, and record_use*)
(* writes nothing when its row is no longer among them.                    *)
ReadPasskeys(c) ==
  LET me == call[c]
      keys == UserPasskeys(me.user)
      found == CASE me.op = "passkey" -> Accepts(keys, me.key, me.count)
                 [] me.op = "factor" -> TRUE
                 [] me.op = "factor_options" -> keys # NoKeys
      next == CASE me.op = "passkey" -> "record"
                [] me.op = "factor" -> IF keys[me.key] # None THEN "record" ELSE "method"
                [] me.op = "factor_options" -> "store"
  IN  /\ At(c, "read")
      /\ call' = [call EXCEPT ![c].keys = keys, ![c].pc = IF found THEN next ELSE "failed",
                              ![c].proved = @ \/ (found /\ me.op = "passkey")]
      /\ UNCHANGED <<now, session, challenge, passkey, gone, signed>>

(* record_use: update_credential only raises the counter of the row that   *)
(* was read, and the UPDATE writes that row back.                          *)
Counted(n, seen) == IF n > seen THEN n ELSE seen

RecordUse(c) ==
  LET k == call[c].key
  IN  /\ At(c, "record")
      /\ passkey' = [passkey EXCEPT ![k].count =
           IF passkey[k].user = None THEN @ ELSE Counted(call[c].count, call[c].keys[k])]
      /\ Go(c, IF call[c].op = "passkey" THEN "end" ELSE "method")
      /\ UNCHANGED <<now, session, challenge, gone, signed>>

(* add's INSERT.  Credential ids are unique, and an authenticator does not *)
(* make the same credential again once its row is removed.                 *)
InsertPasskey(c) ==
  LET k == call[c].key IN
  /\ At(c, "insert")
  /\ IF passkey[k].user = None /\ k \notin gone
     THEN passkey' = [passkey EXCEPT ![k] = [user |-> call[c].user, count |-> call[c].count]] /\ Go(c, "method")
     ELSE Fail(c) /\ UNCHANGED passkey
  /\ UNCHANGED <<now, session, challenge, gone, signed>>

(* Mutated form: an expired session is not upgraded.                       *)
RowExistsLive(s) == Live(s)

(* add_method: fetch_one of the UPDATE fails when the session was ended.   *)
RowExists(s) == session[s].user # None

AddMethod(c) ==
  LET s == call[c].cookie IN
  /\ At(c, "method")
  /\ IF RowExists(s)
     THEN session' = [session EXCEPT ![s].hwk = TRUE, ![s].auth = now] /\ Go(c, "done")
     ELSE Fail(c) /\ UNCHANGED session
  /\ UNCHANGED <<now, challenge, passkey, gone, signed>>

(* Mutated form: the removed row stays among its user's.                   *)
PasskeysStill(k) == [passkey EXCEPT ![k].count = 0]

PasskeysWithout(k) == [passkey EXCEPT ![k] = NoPasskey]

(* remove's DELETE: only one's own.                                        *)
DeletePasskey(c) ==
  LET k == call[c].key IN
  /\ At(c, "delete")
  /\ IF passkey[k].user = call[c].user
     THEN passkey' = PasskeysWithout(k) /\ gone' = gone \cup {k} /\ Go(c, "done")
     ELSE Fail(c) /\ UNCHANGED <<passkey, gone>>
  /\ UNCHANGED <<now, session, challenge, signed>>

(* end: sign-out, and the first statement of session::start.               *)
EndSession(c) ==
  LET s == call[c].cookie IN
  /\ At(c, "end")
  /\ session' = [x \in Calls |-> IF x = s THEN NoSession ELSE session[x]]
  /\ Go(c, IF call[c].op = "sign_out" THEN "done" ELSE "start")
  /\ UNCHANGED <<now, challenge, passkey, gone, signed>>

StartSession(c) ==
  /\ At(c, "start")
  /\ session' = [session EXCEPT ![c] = [user |-> call[c].user, hwk |-> call[c].op = "passkey",
                                        auth |-> now, expires |-> now + SessionTTL]]
  /\ Go(c, "done")
  /\ UNCHANGED <<now, challenge, passkey, gone, signed>>

Tick == now < MaxTime /\ now' = now + 1 /\ UNCHANGED <<session, challenge, passkey, gone, signed, call>>

Arrive(c) == Password(c) \/ PasskeyOptions(c) \/ WithCookie(c) \/ Remove(c) \/ Answer(c) \/ Register(c)
Advance(c) ==
  \/ Load(c) \/ Factors(c) \/ StoreChallenge(c) \/ TakeChallenge(c) \/ ReadPasskeys(c) \/ RecordUse(c)
  \/ InsertPasskey(c) \/ AddMethod(c) \/ DeletePasskey(c) \/ EndSession(c) \/ StartSession(c)

Finished == now = MaxTime /\ (\A c \in Calls : call[c].pc \in {"idle", "done", "failed"}) /\ UNCHANGED vars

Next == (\E c \in Calls : Arrive(c) \/ Advance(c)) \/ Tick \/ Finished
Spec == Init /\ [][Next]_vars

-----------------------------------------------------------------------------
(* Each challenge is used at most once (passkeys.rs:56), however many      *)
(* calls answer it at the same time.                                       *)
ChallengeUsedOnce ==
  \A c, d \in Calls : call[c].took /\ call[d].took /\ call[c].answer = call[d].answer => c = d

(* A session counts as having its second factor only because a passkey     *)
(* made for its own user answered a challenge: in that session, or in the  *)
(* sign-in that started it.                                                *)
ProvedFor(c, s) ==
  /\ call[c].proved
  /\ Handle[call[c].key] = session[s].user
  /\ \/ call[c].op = "passkey" /\ c = s
     \/ call[c].op \in {"factor", "register"} /\ call[c].cookie = s
SecondFactorProven ==
  \A s \in Calls : session[s].hwk => \E c \in Calls : ProvedFor(c, s)

(* A passkey that was removed signs nobody in any more.                    *)
RemovedSignsNobodyIn == \A c \in Calls : call[c].late /\ call[c].op = "passkey" => ~call[c].proved

(* A second factor or a new passkey that was accepted upgrades the session *)
(* unless that session was ended in the meantime: the caller gets an error *)
(* after the passkey was stored only because of a sign-out or a new        *)
(* sign-in with the same cookie.                                           *)
EndedBy(c, s) == /\ call[c].cookie = s
                 /\ call[c].op \in {"password", "passkey", "sign_out"}
                 /\ call[c].pc \in {"start", "done"}
AcceptedUpgrades ==
  [][\A c \in Calls : call[c].pc = "method" /\ call'[c].pc = "failed" =>
       \E d \in Calls : EndedBy(d, call[c].cookie)]_vars

(* The stored signature counter stays current (passkeys.rs:88).            *)
CounterStaysCurrent ==
  [][\A k \in Passkeys : passkey'[k].user # None => passkey'[k].count >= passkey[k].count]_vars

(* A passkey that was removed before a call began is not accepted as its   *)
(* second factor: "That passkey isn't registered to this account".         *)
RemovedIsNoFactor == \A c \in Calls : call[c].late /\ call[c].op = "factor" => ~call[c].proved
===============================================================================
