------------------------------ MODULE SignInProofs ------------------------------
(***************************************************************************)
(* Proofs about SignIn, and about what runs on top of it: AuthRequests,    *)
(* AccessTokens and SignInScreens, for any calls, users, passkeys, clients *)
(* and time limits.  Each part adds to the invariant of the one before.    *)
(*                                                                         *)
(* No handler holds a lock from one statement to the next.  What it read   *)
(* stays true for other reasons: a call that has ended does not change any *)
(* more, a challenge that is gone does not come back, a removed credential *)
(* is never registered again, and the user of a row never changes.         *)
(***************************************************************************)
EXTENDS SignInScreens, AccessTokens, TLAPS

Loading == {"factor_options", "factor", "register_options", "register", "remove"}
Options == {"passkey_options", "factor_options", "register_options"}

(* What the position of a handler says about its operation.                *)
Place(c) ==
  LET r == call[c] IN
  /\ r.pc = "load" => r.op \in Loading
  /\ r.pc = "factors" => r.op \in {"register_options", "register", "remove"}
  /\ r.pc = "take" => r.op \in {"passkey", "factor", "register"}
  /\ r.pc = "read" => r.op \in {"passkey", "factor", "factor_options"}
  /\ r.pc = "record" => r.op \in {"passkey", "factor"} /\ r.keys[r.key] # None
  /\ r.pc = "insert" => r.op = "register"
  /\ r.pc = "method" => r.op \in {"factor", "register"}
  /\ r.pc = "delete" => r.op = "remove"
  /\ r.pc = "store" => r.op \in Options
  /\ r.pc \in {"end", "start"} => r.op \in {"password", "passkey", "sign_out"}
  /\ r.pc = "start" => r.op # "sign_out"

(* The session and the challenge it names were issued before.              *)
Names(c) ==
  LET r == call[c] IN
  /\ r.op \in Loading => r.cookie # None
  /\ r.op \in {"factor", "register"} => r.answer # None
  /\ r.op \in {"passkey", "factor", "register", "remove"} => r.key # None
  /\ r.cookie # None => call[r.cookie].pc = "done" /\ call[r.cookie].op \in {"password", "passkey"}
  /\ r.answer # None => call[r.answer].pc = "done" /\ call[r.answer].op \in Options
  /\ r.op = "register" => call[r.answer].op = "register_options" /\ Handle[r.key] = call[r.answer].user

(* Whose account it works on, and that its session lives or was ended.     *)
Account(c) ==
  LET r == call[c] IN
  /\ r.op \in Loading /\ r.pc \notin {"load", "failed"} =>
       /\ r.user \in Users /\ r.user = call[r.cookie].user
       /\ \/ session[r.cookie].user # None
          \/ \E d \in Calls : EndedBy(d, r.cookie)
  /\ r.op \in {"password", "passkey"} /\ r.pc \in {"end", "start", "done"} => r.user \in Users
  /\ r.pc \in {"idle", "load", "factors", "take"} => r.keys = NoKeys
  /\ \A k \in Passkeys : r.keys[k] # None => Handle[k] = r.user

(* What has been proved to it.                                             *)
Proof(c) ==
  LET r == call[c] IN
  /\ r.pc \in {"idle", "load", "factors", "take"} => ~r.took /\ ~r.proved
  /\ r.pc = "take" => r.answer # None
  /\ r.took => r.answer # None /\ challenge[r.answer].kind = None
  /\ r.op = "passkey" /\ r.pc \in {"read", "record", "end", "start", "done"} => r.user = Handle[r.key]
  /\ r.op = "passkey" /\ r.pc \in {"record", "end", "start", "done"} => r.proved
  /\ r.op \in {"factor", "register"} /\ r.pc \in {"read", "record", "insert", "method"} =>
       r.proved /\ r.user = Handle[r.key]
  /\ r.late => r.key \in gone
  /\ r.late /\ r.op = "passkey" => ~r.proved

(* Rows of sessions and challenges are those of calls that have ended.     *)
Sessions ==
  \A s \in Calls : session[s].user # None =>
    call[s].pc = "done" /\ call[s].op \in {"password", "passkey"} /\ session[s].user = call[s].user

Challenges ==
  \A a \in Calls : challenge[a].kind # None =>
    /\ call[a].pc = "done" /\ challenge[a].user = call[a].user
    /\ \A k \in Passkeys : challenge[a].keys[k] # None => Handle[k] = challenge[a].user

Owned ==
  \A k \in Passkeys : /\ passkey[k].user \in {Handle[k], None}
                      /\ k \in gone => passkey[k].user = None

Handler(c) == Place(c) /\ Names(c) /\ Account(c) /\ Proof(c)

IInv == /\ TypeOK /\ (\A c \in Calls : Handler(c)) /\ Sessions /\ Challenges /\ Owned
        /\ ChallengeUsedOnce /\ SecondFactorProven

-----------------------------------------------------------------------------
LEMMA CallType ==
  ASSUME TypeOK, NEW c \in Calls
  PROVE  /\ call[c] \in CallState /\ call[c].op \in Operations \cup {None}
         /\ call[c].cookie \in Calls \cup {None} /\ call[c].answer \in Calls \cup {None}
         /\ call[c].key \in Passkeys \cup {None} /\ call[c].count \in 0..MaxCount
         /\ call[c].user \in Users \cup {None} /\ call[c].keys \in Keys
         /\ call[c].took \in BOOLEAN /\ call[c].proved \in BOOLEAN /\ call[c].late \in BOOLEAN
         /\ call[c].hwk \in BOOLEAN /\ call[c].auth \in Int /\ call[c].pc \in Stages
PROOF
  BY DEF TypeOK, CallState

LEMMA RowType ==
  ASSUME TypeOK, NEW c \in Calls
  PROVE  /\ session[c] \in SessionRow /\ session[c].user \in Users \cup {None}
         /\ session[c].hwk \in BOOLEAN /\ session[c].auth \in Int
         /\ challenge[c] \in ChallengeRow /\ challenge[c].user \in Users \cup {None} /\ challenge[c].keys \in Keys
PROOF
  BY DEF TypeOK, SessionRow, ChallengeRow

LEMMA BlankType ==
  /\ NoKeys \in Keys /\ NoSession \in SessionRow /\ NoChallenge \in ChallengeRow /\ NoCall \in CallState
  /\ 0 \in 0..MaxCount
  /\ \A k \in Passkeys : NoKeys[k] = None
PROOF
<1>1. NoKeys \in Keys /\ (\A k \in Passkeys : NoKeys[k] = None) BY DEF NoKeys, Keys
<1>2. 0 \in 0..MaxCount BY SignInAssumption
<1>3. NoSession \in SessionRow BY DEF NoSession, SessionRow
<1>4. NoChallenge \in ChallengeRow BY <1>1 DEF NoChallenge, ChallengeRow
<1>5. NoCall \in CallState BY <1>1, <1>2 DEF NoCall, CallState, Stages
<1> QED BY <1>1, <1>2, <1>3, <1>4, <1>5

(* A step of one call leaves the others where they are.                    *)
Kept(c) ==
  /\ \A d \in Calls \ {c} : call'[d] = call[d]
  /\ \A d \in Calls : call[d].pc = "done" => call'[d] = call[d]
  /\ gone \subseteq gone'
  /\ \A a \in Calls : call[a].pc = "done" /\ challenge[a].kind = None => challenge'[a].kind = None
  /\ \A s \in Calls : EndedBy(c, s) => EndedBy(c, s)'
  /\ \A s \in Calls : session[s].user # None => session'[s].user # None \/ EndedBy(c, s)'

LEMMA OthersStep ==
  ASSUME IInv, NEW c \in Calls, Kept(c), NEW d \in Calls, d # c
  PROVE  Handler(d)'
PROOF
<1>1. /\ call'[d] = call[d] /\ Handler(d)
      /\ \A x \in Calls : call[x].pc = "done" => call'[x] = call[x]
  BY DEF Kept, IInv
<1>2. /\ call[d].cookie \in Calls \cup {None} /\ call[d].answer \in Calls \cup {None}
      /\ None \notin Calls
  BY CallType, SignInAssumption DEF IInv
<1>3. Place(d)' BY <1>1 DEF Handler, Place
<1>4. Names(d)' BY <1>1, <1>2 DEF Handler, Names
<1>5. ASSUME NEW s \in Calls, NEW e \in Calls, EndedBy(e, s) PROVE EndedBy(e, s)'
  BY <1>5 DEF Kept, EndedBy
<1>6. Account(d)'
  <2>1. ASSUME call[d].op \in Loading, call[d].pc \notin {"load", "failed"}
        PROVE  /\ call[d].user \in Users /\ call[d].user = call'[call[d].cookie].user
               /\ \/ session'[call[d].cookie].user # None
                  \/ \E e \in Calls : EndedBy(e, call[d].cookie)'
    <3>1. /\ call[d].cookie \in Calls /\ call[call[d].cookie].pc = "done"
          /\ call[d].user \in Users /\ call[d].user = call[call[d].cookie].user
          /\ \/ session[call[d].cookie].user # None
             \/ \E e \in Calls : EndedBy(e, call[d].cookie)
      BY <1>1, <1>2, <2>1 DEF Handler, Names, Account
    <3>2. PICK s \in Calls : s = call[d].cookie BY <3>1
    <3>3. session'[s].user # None \/ \E e \in Calls : EndedBy(e, s)'
      BY <1>5, <3>1, <3>2 DEF Kept
    <3> QED BY <1>1, <3>1, <3>2, <3>3
  <2>2. /\ call[d].op \in {"password", "passkey"} /\ call[d].pc \in {"end", "start", "done"} => call[d].user \in Users
        /\ call[d].pc \in {"idle", "load", "factors", "take"} => call[d].keys = NoKeys
        /\ \A k \in Passkeys : call[d].keys[k] # None => Handle[k] = call[d].user
    BY <1>1 DEF Handler, Account
  <2> QED BY <1>1, <2>1, <2>2 DEF Account, EndedBy
<1>7. Proof(d)'
  <2>1. call[d].took => call[d].answer # None /\ challenge'[call[d].answer].kind = None
    BY <1>1, <1>2 DEF Handler, Names, Proof, Kept
  <2> QED BY <1>1, <2>1 DEF Handler, Proof, Kept
<1> QED BY <1>3, <1>4, <1>6, <1>7 DEF Handler

(* What rows say stays true while they are only removed, or kept as they   *)
(* are.                                                                    *)
LEMMA RowsStep ==
  ASSUME IInv, NEW c \in Calls, Kept(c)
  PROVE  /\ (\A s \in Calls : session'[s].user # None => session'[s].user = session[s].user) => Sessions'
         /\ (\A a \in Calls : challenge'[a].kind # None => challenge'[a] = challenge[a]) => Challenges'
PROOF
<1>1. \A x \in Calls : call[x].pc = "done" => call'[x] = call[x] BY DEF Kept
<1>2. ASSUME \A s \in Calls : session'[s].user # None => session'[s].user = session[s].user PROVE Sessions'
  BY <1>1, <1>2 DEF IInv, Sessions
<1>3. ASSUME \A a \in Calls : challenge'[a].kind # None => challenge'[a] = challenge[a] PROVE Challenges'
  BY <1>1, <1>3 DEF IInv, Challenges
<1> QED BY <1>2, <1>3

(* A call keeps what was proved to it.                                     *)
Keeps(c) ==
  call[c].proved => /\ call'[c].proved /\ call'[c].op = call[c].op
                    /\ call'[c].key = call[c].key /\ call'[c].cookie = call[c].cookie

LEMMA ProofsStep ==
  ASSUME IInv, NEW c \in Calls, Kept(c), Keeps(c), NEW s \in Calls,
         session'[s].user = session[s].user, session[s].hwk
  PROVE  \E d \in Calls : ProvedFor(d, s)'
PROOF
<1>1. PICK d \in Calls : ProvedFor(d, s) BY DEF IInv, SecondFactorProven
<1>2. /\ call'[d].proved /\ call'[d].op = call[d].op
      /\ call'[d].key = call[d].key /\ call'[d].cookie = call[d].cookie
  <2>1. CASE d = c BY <1>1, <2>1 DEF Keeps, ProvedFor
  <2>2. CASE d # c BY <1>1, <2>2 DEF Kept, ProvedFor
  <2> QED BY <2>1, <2>2
<1>3. ProvedFor(d, s)' BY <1>1, <1>2 DEF ProvedFor
<1> QED BY <1>3

LEMMA OnceStep ==
  ASSUME IInv, NEW c \in Calls, Kept(c), call'[c].took => call[c].took /\ call'[c].answer = call[c].answer
  PROVE  ChallengeUsedOnce'
PROOF
  BY DEF IInv, ChallengeUsedOnce, Kept

(* Most steps change nothing but what one call knows, and passkeys.        *)
LEMMA QuietStep ==
  ASSUME IInv, NEW c \in Calls, TypeOK', UNCHANGED <<session, challenge>>, gone \subseteq gone', Owned',
         \A d \in Calls \ {c} : call'[d] = call[d],
         call[c].pc \notin {"start", "done"},
         Keeps(c), call'[c].took => call[c].took /\ call'[c].answer = call[c].answer,
         Handler(c)'
  PROVE  IInv'
PROOF
<1>1. Kept(c) BY DEF Kept, EndedBy
<1>2. \A d \in Calls : Handler(d)' BY <1>1, OthersStep
<1>3. Sessions' /\ Challenges' BY <1>1, RowsStep
<1>4. ChallengeUsedOnce' BY <1>1, OnceStep
<1>5. SecondFactorProven' BY <1>1, ProofsStep DEF SecondFactorProven
<1> QED BY <1>2, <1>3, <1>4, <1>5 DEF IInv

LEMMA SamePasskeys ==
  ASSUME IInv, UNCHANGED <<passkey, gone>>
  PROVE  Owned' /\ gone \subseteq gone'
PROOF
  BY DEF IInv, Owned

(* A call that only moves on, and a call that fails.                       *)
LEMMA GoType ==
  ASSUME TypeOK, NEW c \in Calls, NEW p \in Stages, Go(c, p)
  PROVE  /\ call' \in [Calls -> CallState] /\ call'[c].pc = p
         /\ \A d \in Calls \ {c} : call'[d] = call[d]
         /\ call'[c].op = call[c].op /\ call'[c].cookie = call[c].cookie /\ call'[c].answer = call[c].answer
         /\ call'[c].key = call[c].key /\ call'[c].user = call[c].user /\ call'[c].keys = call[c].keys
         /\ call'[c].took = call[c].took /\ call'[c].proved = call[c].proved /\ call'[c].late = call[c].late
         /\ call'[c].count = call[c].count
PROOF
<1>1. call[c] \in CallState BY CallType
<1>2. call' = [call EXCEPT ![c] = [call[c] EXCEPT !.pc = p]] BY DEF Go
<1>3. [call[c] EXCEPT !.pc = p] \in CallState BY <1>1, Zenon DEF CallState
<1> QED BY <1>1, <1>2, <1>3 DEF TypeOK, CallState


SameRequest(c) ==
  /\ call'[c].op = call[c].op /\ call'[c].cookie = call[c].cookie /\ call'[c].answer = call[c].answer
  /\ call'[c].key = call[c].key /\ call'[c].late = call[c].late

(* The request of a call does not change while it runs, nor do the calls   *)
(* that it names.                                                          *)
LEMMA RequestStep ==
  ASSUME IInv, NEW c \in Calls, SameRequest(c), call[c].pc # "done",
         \A d \in Calls \ {c} : call'[d] = call[d]
  PROVE  /\ Names(c)'
         /\ call[c].cookie # None => call'[call[c].cookie] = call[call[c].cookie]
         /\ call[c].answer # None => call'[call[c].answer] = call[call[c].answer]
PROOF
<1>1. Names(c) BY DEF IInv, Handler
<1>2. /\ call[c].cookie \in Calls \cup {None} /\ call[c].answer \in Calls \cup {None} /\ None \notin Calls
  BY CallType, SignInAssumption DEF IInv
<1>3. call[c].cookie # None => call'[call[c].cookie] = call[call[c].cookie]
  BY <1>1, <1>2 DEF Names
<1>4. call[c].answer # None => call'[call[c].answer] = call[call[c].answer]
  BY <1>1, <1>2 DEF Names
<1>6. Names(c)' BY <1>1, <1>2, <1>3, <1>4 DEF Names, SameRequest
<1> QED BY <1>3, <1>4, <1>6

LEMMA FailStep ==
  ASSUME IInv, NEW c \in Calls, Fail(c), UNCHANGED <<now, session, challenge, passkey, gone, signed>>,
         call[c].pc \notin {"start", "done"}
  PROVE  IInv'
PROOF
<1>1. TypeOK /\ Handler(c) /\ "failed" \in Stages BY DEF IInv, Stages
<1>2. /\ call' \in [Calls -> CallState] /\ call'[c].pc = "failed"
      /\ \A d \in Calls \ {c} : call'[d] = call[d]
      /\ SameRequest(c)
      /\ call'[c].user = call[c].user /\ call'[c].keys = call[c].keys
      /\ call'[c].took = call[c].took /\ call'[c].proved = call[c].proved
  BY <1>1, GoType DEF Fail, SameRequest
<1>3. TypeOK' BY <1>1, <1>2 DEF TypeOK
<1>4. Names(c)' BY <1>2, RequestStep
<1>5. Place(c)' BY <1>2 DEF Place
<1>6. Account(c)' BY <1>1, <1>2 DEF Handler, Account
<1>7. Proof(c)' BY <1>1, <1>2 DEF Handler, Proof, SameRequest
<1>8. Keeps(c) /\ (call'[c].took => call[c].took /\ call'[c].answer = call[c].answer)
  BY <1>2 DEF Keeps, SameRequest
<1> QED BY <1>2, <1>3, <1>4, <1>5, <1>6, <1>7, <1>8, QuietStep, SamePasskeys DEF Handler

LEMMA LoadType ==
  ASSUME NEW me \in CallState, NEW pc \in Stages, NEW u \in Users, NEW h \in BOOLEAN, NEW a \in Int
  PROVE  [me EXCEPT !.pc = pc, !.user = u, !.hwk = h, !.auth = a] \in CallState
PROOF
  BY DEF CallState

LEMMA LoadStep == ASSUME IInv, NEW c \in Calls, Load(c) PROVE IInv'
PROOF
<1> DEFINE s == call[c].cookie
           next == IF AllowPending(call[c].op) \/ session[s].hwk
                   THEN Proceed(call[c].op, session[s].hwk, session[s].auth) ELSE "factors"
<1>1. CASE ~Live(s) BY <1>1, FailStep DEF Load, At
<1>2. CASE Live(s)
  <2>1. /\ TypeOK /\ Handler(c) /\ call[c].pc = "load" /\ call[c].op \in Loading
        /\ s \in Calls /\ call[s].pc = "done" /\ session[s].user = call[s].user /\ session[s].user \in Users
        /\ session[s].hwk \in BOOLEAN /\ session[s].auth \in Int
    <3>1. TypeOK /\ Handler(c) /\ call[c].pc = "load" BY DEF IInv, Load, At
    <3>2. call[c].op \in Loading /\ s # None BY <3>1 DEF Handler, Place, Names
    <3>3. s \in Calls BY <3>1, <3>2, CallType
    <3>4. session[s].user # None BY <1>2 DEF Live
    <3> QED BY <3>1, <3>2, <3>3, <3>4, RowType DEF IInv, Sessions
  <2>2. /\ next \in {"read", "take", "store", "delete", "factors", "failed"}
        /\ next = "factors" => call[c].op \in {"register_options", "register", "remove"}
        /\ next = "take" => call[c].op \in {"factor", "register"}
        /\ next = "read" => call[c].op = "factor_options"
        /\ next = "store" => call[c].op = "register_options"
        /\ next = "delete" => call[c].op = "remove"
    BY <2>1 DEF Loading, Required, Proceed, AllowPending
  <2> HIDE DEF next
  <2>3. /\ call' = [call EXCEPT ![c].pc = next, ![c].user = session[s].user,
                                ![c].hwk = session[s].hwk, ![c].auth = session[s].auth]
        /\ UNCHANGED <<now, session, challenge, passkey, gone, signed>>
    BY <1>2 DEF Load, next
  <2>4. /\ call' \in [Calls -> CallState] /\ call'[c].pc = next /\ call'[c].user = session[s].user
        /\ \A d \in Calls \ {c} : call'[d] = call[d]
        /\ SameRequest(c) /\ call'[c].keys = call[c].keys
        /\ call'[c].took = call[c].took /\ call'[c].proved = call[c].proved
    <3> DEFINE r == [call[c] EXCEPT !.pc = next, !.user = session[s].user,
                                    !.hwk = session[s].hwk, !.auth = session[s].auth]
    <3>1. call[c] \in CallState /\ next \in Stages BY <2>1, <2>2, CallType DEF Stages
    <3>2. r \in CallState BY <2>1, <3>1, LoadType
    <3>3. call' = [call EXCEPT ![c] = r] BY <2>1, <2>3 DEF TypeOK, CallState
    <3>4. /\ r.pc = next /\ r.user = session[s].user /\ r.keys = call[c].keys
          /\ r.took = call[c].took /\ r.proved = call[c].proved
          /\ r.op = call[c].op /\ r.cookie = call[c].cookie /\ r.answer = call[c].answer
          /\ r.key = call[c].key /\ r.late = call[c].late
      BY <3>1 DEF CallState
    <3> HIDE DEF r
    <3> QED BY <2>1, <3>2, <3>3, <3>4 DEF TypeOK, SameRequest
  <2>5. TypeOK' BY <2>1, <2>3, <2>4 DEF TypeOK
  <2>6. Names(c)' /\ call'[s] = call[s] BY <2>1, <2>4, RequestStep, SignInAssumption
  <2>7. Place(c)' BY <2>1, <2>2, <2>4 DEF Place, SameRequest, Options
  <2>8. call[c].keys = NoKeys BY <2>1 DEF Handler, Account
  <2>9. Account(c)'
    <3>1. /\ call'[c].op = call[c].op /\ call'[c].cookie = s
          /\ call'[c].user = session[s].user /\ call'[c].keys = NoKeys /\ call[s].user = session[s].user
          /\ session'[s].user # None
      BY <1>2, <2>1, <2>3, <2>4, <2>8 DEF SameRequest, Live
    <3>2. \A k \in Passkeys : call'[c].keys[k] = None BY <3>1, BlankType
    <3>3. call[c].op \notin {"password", "passkey"} BY <2>1 DEF Loading
    <3>4. /\ call'[c].user \in Users /\ call'[c].user = call'[call'[c].cookie].user
          /\ session'[call'[c].cookie].user # None
      BY <2>1, <2>6, <3>1
    <3> QED BY <3>1, <3>2, <3>3, <3>4 DEF Account
  <2>10. Proof(c)'
    <3>1. /\ ~call[c].took /\ ~call[c].proved /\ (call[c].late => call[c].key \in gone)
          /\ call[c].op \in {"factor", "register"} => call[c].answer # None
          /\ call[c].op # "passkey"
      BY <2>1 DEF Handler, Proof, Names, Loading
    <3>2. /\ call'[c].pc \in {"read", "take", "store", "delete", "factors", "failed"}
          /\ call'[c].pc = "take" => call[c].op \in {"factor", "register"}
          /\ call'[c].pc = "read" => call[c].op = "factor_options"
      BY <2>2, <2>4
    <3>3. /\ call'[c].op = call[c].op /\ call'[c].answer = call[c].answer /\ call'[c].key = call[c].key
          /\ call'[c].late = call[c].late /\ ~call'[c].took /\ ~call'[c].proved /\ gone' = gone
      BY <2>3, <2>4, <3>1 DEF SameRequest
    <3> QED BY <3>1, <3>2, <3>3 DEF Proof
  <2>11. Keeps(c) /\ (call'[c].took => call[c].took /\ call'[c].answer = call[c].answer)
    BY <2>4 DEF Keeps, SameRequest
  <2> QED BY <2>1, <2>3, <2>4, <2>5, <2>6, <2>7, <2>9, <2>10, <2>11, QuietStep, SamePasskeys DEF Handler
<1> QED BY <1>1, <1>2

(* Where the answer of a load leaves an account.                           *)
LEMMA AccountStep ==
  ASSUME IInv, NEW c \in Calls, SameRequest(c), \A s \in Calls : session'[s].user = session[s].user,
         \A d \in Calls \ {c} : call'[d] = call[d],
         call[c].op \in Loading, call[c].pc \notin {"load", "failed", "done"},
         call'[c].user = call[c].user, call'[c].pc \notin {"idle", "load", "factors", "take"} \/ call'[c].keys = NoKeys,
         \A k \in Passkeys : call'[c].keys[k] # None => Handle[k] = call[c].user,
         \A s \in Calls : EndedBy(c, s) => EndedBy(c, s)'
  PROVE  Account(c)' /\ call[c].user \in Users
PROOF
<1>1. /\ Handler(c) /\ call[c].cookie \in Calls \cup {None} BY CallType DEF IInv
<1>2. /\ call[c].cookie \in Calls /\ call[c].user \in Users /\ call[c].user = call[call[c].cookie].user
      /\ \/ session[call[c].cookie].user # None
         \/ \E d \in Calls : EndedBy(d, call[c].cookie)
  BY <1>1 DEF Handler, Names, Account
<1>3. PICK s \in Calls : s = call[c].cookie BY <1>2
<1>4. ASSUME NEW e \in Calls, EndedBy(e, s) PROVE EndedBy(e, s)' BY <1>4 DEF EndedBy
<1>5. session'[s].user # None \/ \E d \in Calls : EndedBy(d, s)' BY <1>2, <1>3, <1>4
<1>6. call'[c].op = call[c].op /\ call'[c].cookie = s /\ call'[s] = call[s]
  BY <1>2, <1>3, RequestStep, SignInAssumption DEF SameRequest
<1>7. call[c].op \notin {"password", "passkey"} BY DEF Loading
<1>8. /\ call'[c].user \in Users /\ call'[c].user = call'[call'[c].cookie].user
      /\ \/ session'[call'[c].cookie].user # None
         \/ \E d \in Calls : EndedBy(d, call[c].cookie)'
  BY <1>2, <1>3, <1>5, <1>6
<1>9. Account(c)' BY <1>3, <1>6, <1>7, <1>8 DEF Account, EndedBy
<1> QED BY <1>2, <1>9

LEMMA FactorsStep == ASSUME IInv, NEW c \in Calls, Factors(c) PROVE IInv'
PROOF
<1> DEFINE next == Required(call[c].op)
<1>1. /\ TypeOK /\ Handler(c) /\ call[c].pc = "factors" /\ UNCHANGED <<now, session, challenge, passkey, gone, signed>>
      /\ Fail(c) \/ Go(c, next)
  BY DEF Factors, At, IInv, Fail, Proceed
<1>2. CASE Fail(c) BY <1>1, <1>2, FailStep
<1>3. CASE Go(c, next)
  <2>1. /\ call[c].op \in {"register_options", "register", "remove"}
        /\ next \in {"take", "store", "delete"} /\ next \in Stages
        /\ next = "take" => call[c].op = "register"
        /\ next = "store" => call[c].op = "register_options"
        /\ next = "delete" => call[c].op = "remove"
    BY <1>1 DEF Handler, Place, Required, Stages
  <2> HIDE DEF next
  <2>2. /\ call' \in [Calls -> CallState] /\ call'[c].pc = next /\ SameRequest(c)
        /\ \A d \in Calls \ {c} : call'[d] = call[d]
        /\ call'[c].user = call[c].user /\ call'[c].keys = call[c].keys
        /\ call'[c].took = call[c].took /\ call'[c].proved = call[c].proved
    BY <1>1, <1>3, <2>1, GoType DEF SameRequest
  <2>3. TypeOK' BY <1>1, <2>2 DEF TypeOK
  <2>4. Place(c)' BY <2>1, <2>2 DEF Place, SameRequest, Options
  <2>5. Names(c)' BY <1>1, <2>2, RequestStep
  <2>6. call[c].op \in Loading /\ call[c].keys = NoKeys
    BY <1>1, <2>1 DEF Handler, Account, Loading
  <2>7. Account(c)'
    <3>1. \A k \in Passkeys : call'[c].keys[k] # None => Handle[k] = call[c].user
      BY <2>2, <2>6, BlankType
    <3>2. \A s \in Calls : EndedBy(c, s) => EndedBy(c, s)' BY <1>1 DEF EndedBy
    <3> QED BY <1>1, <2>2, <2>6, <3>1, <3>2, AccountStep
  <2>8. Proof(c)'
    <3>1. /\ ~call[c].took /\ ~call[c].proved /\ (call[c].late => call[c].key \in gone)
          /\ call[c].op = "register" => call[c].answer # None
      BY <1>1 DEF Handler, Proof, Names
    <3> QED BY <1>1, <2>1, <2>2, <3>1 DEF Proof, SameRequest
  <2>9. Keeps(c) /\ (call'[c].took => call[c].took /\ call'[c].answer = call[c].answer)
    BY <2>2 DEF Keeps, SameRequest
  <2> QED BY <1>1, <2>2, <2>3, <2>4, <2>5, <2>7, <2>8, <2>9, QuietStep, SamePasskeys DEF Handler
<1> QED BY <1>1, <1>2, <1>3

LEMMA StoreStep == ASSUME IInv, NEW c \in Calls, StoreChallenge(c) PROVE IInv'
PROOF
<1> DEFINE row == [kind |-> IF call[c].op = "register_options" THEN "REGISTRATION" ELSE "AUTHENTICATION",
                   user |-> call[c].user, keys |-> call[c].keys, expires |-> now + ChallengeTTL]
<1>1. /\ TypeOK /\ Handler(c) /\ call[c].pc = "store" /\ call[c].op \in Options
      /\ challenge' = [challenge EXCEPT ![c] = row] /\ Go(c, "done") /\ "done" \in Stages
      /\ UNCHANGED <<now, session, passkey, gone, signed>>
  BY DEF StoreChallenge, At, IInv, Handler, Place, Stages
<1>2. row \in ChallengeRow
  <2>1. now + ChallengeTTL \in Int BY <1>1, SignInAssumption DEF TypeOK
  <2> QED BY <1>1, <2>1, CallType DEF ChallengeRow
<1>3. /\ call' \in [Calls -> CallState] /\ call'[c].pc = "done" /\ SameRequest(c)
      /\ \A d \in Calls \ {c} : call'[d] = call[d]
      /\ call'[c].user = call[c].user /\ call'[c].keys = call[c].keys
      /\ call'[c].took = call[c].took /\ call'[c].proved = call[c].proved
  BY <1>1, GoType DEF SameRequest
<1>4. \A a \in Calls : challenge'[a] = IF a = c THEN row ELSE challenge[a] BY <1>1 DEF TypeOK
<1>5. TypeOK' BY <1>1, <1>2, <1>3 DEF TypeOK
<1>6. Kept(c) BY <1>1, <1>3, <1>4 DEF Kept, EndedBy, Options
<1>7. Handler(c)'
  <2>1. Place(c)' BY <1>3 DEF Place
  <2>2. Names(c)' BY <1>1, <1>3, RequestStep
  <2>3. /\ call[c].pc \notin {"load", "failed", "done"} /\ call'[c].pc \notin {"idle", "load", "factors", "take"}
        /\ \A k \in Passkeys : call'[c].keys[k] # None => Handle[k] = call[c].user
    BY <1>1, <1>3 DEF Handler, Account
  <2>4. Account(c)'
    <3>1. CASE call[c].op \in Loading
      BY <1>1, <1>3, <1>6, <2>3, <3>1, AccountStep DEF Kept
    <3>2. CASE call[c].op \notin Loading
      BY <1>1, <1>3, <2>3, <3>2 DEF Account, SameRequest, Options
    <3> QED BY <3>1, <3>2
  <2>5. Proof(c)'
    <3>1. /\ call[c].took => call[c].answer # None /\ challenge'[call[c].answer].kind = None
          /\ call[c].op \notin {"passkey", "factor", "register"} /\ (call[c].late => call[c].key \in gone)
      <4>1. /\ call[c].took => call[c].answer # None /\ challenge[call[c].answer].kind = None
            /\ call[c].answer # None => call[call[c].answer].pc = "done"
            /\ (call[c].late => call[c].key \in gone) /\ call[c].answer \in Calls \cup {None}
        BY <1>1, CallType DEF Handler, Proof, Names
      <4> QED BY <1>1, <1>4, <4>1 DEF Options
    <3> QED BY <1>1, <1>3, <3>1 DEF Proof, SameRequest
  <2> QED BY <2>1, <2>2, <2>4, <2>5 DEF Handler
<1>8. \A d \in Calls : Handler(d)' BY <1>6, <1>7, OthersStep
<1>9. Sessions' BY <1>1, <1>6, RowsStep
<1>10. Challenges'
  <2> SUFFICES ASSUME NEW a \in Calls, challenge'[a].kind # None
               PROVE  /\ call'[a].pc = "done" /\ challenge'[a].user = call'[a].user
                      /\ \A k \in Passkeys : challenge'[a].keys[k] # None => Handle[k] = challenge'[a].user
    BY DEF Challenges
  <2>1. CASE a = c BY <1>1, <1>3, <1>4, <2>1 DEF Handler, Account
  <2>2. CASE a # c BY <1>3, <1>4, <2>2 DEF IInv, Challenges
  <2> QED BY <2>1, <2>2
<1>11. Owned' BY <1>1, SamePasskeys
<1>12. ChallengeUsedOnce' BY <1>3, <1>6, OnceStep DEF SameRequest
<1>13. SecondFactorProven'
  <2>1. Keeps(c) BY <1>3 DEF Keeps, SameRequest
  <2> QED BY <1>1, <1>6, <2>1, ProofsStep DEF SecondFactorProven
<1> QED BY <1>5, <1>8, <1>9, <1>10, <1>11, <1>12, <1>13 DEF IInv

LEMMA TakeType ==
  ASSUME NEW me \in CallState, NEW pc \in Stages, NEW u \in Users \cup {None}, NEW p \in BOOLEAN
  PROVE  [me EXCEPT !.took = TRUE, !.proved = p, !.user = u, !.pc = pc] \in CallState
PROOF
  BY DEF CallState

LEMMA TakeStep == ASSUME IInv, NEW c \in Calls, TakeChallenge(c) PROVE IInv'
PROOF
<1> DEFINE me == call[c]
           a == me.answer
<1>1. /\ TypeOK /\ Handler(c) /\ me.pc = "take" /\ me.op \in {"passkey", "factor", "register"}
      /\ a \in Calls /\ ~me.took /\ ~me.proved /\ me.keys = NoKeys /\ me.key \in Passkeys
      /\ (me.late => me.key \in gone)
      /\ me \in CallState /\ call[a].pc = "done" /\ Handle[me.key] \in Users
      /\ UNCHANGED <<now, session, passkey, gone, signed>>
  <2>1. TypeOK /\ Handler(c) /\ me.pc = "take" /\ UNCHANGED <<now, session, passkey, gone, signed>>
    BY DEF TakeChallenge, At, IInv
  <2>2. /\ me.op \in {"passkey", "factor", "register"} /\ a # None /\ ~me.took /\ ~me.proved
        /\ me.keys = NoKeys /\ me.key # None /\ (me.late => me.key \in gone) /\ call[a].pc = "done"
    BY <2>1 DEF Handler, Place, Proof, Account, Names
  <2> QED BY <2>1, <2>2, CallType, SignInAssumption
<1>2. CASE ~Taken(c)
  <2>1. Fail(c) /\ challenge' = challenge BY <1>2 DEF TakeChallenge
  <2> QED BY <1>1, <2>1, FailStep
<1>3. CASE Taken(c)
  <2> DEFINE passed == Passed(me, challenge[a])
             pc == IF ~passed THEN "failed" ELSE IF me.op = "register" THEN "insert" ELSE "read"
             proved == passed /\ me.op # "passkey"
             u == IF me.op = "passkey" THEN Handle[me.key] ELSE me.user
  <2>1. /\ challenge' = [challenge EXCEPT ![a] = NoChallenge]
        /\ call' = [call EXCEPT ![c].took = TRUE, ![c].proved = proved, ![c].user = u, ![c].pc = pc]
    BY <1>1, <1>3 DEF TakeChallenge, DeleteChallenge
  <2>2. /\ passed \in BOOLEAN /\ proved \in BOOLEAN /\ u \in Users \cup {None} /\ pc \in {"failed", "insert", "read"}
        /\ me.op = "passkey" => ~proved /\ u = Handle[me.key]
        /\ me.op # "passkey" => u = me.user
        /\ pc = "insert" => me.op = "register"
        /\ pc = "read" => me.op \in {"passkey", "factor"}
    BY <1>1, CallType DEF Passed
  <2>3. me.op # "passkey" /\ pc # "failed" => proved /\ me.user = Handle[me.key]
    <3>1. challenge[a].kind # None BY <1>1, <1>3, SignInAssumption DEF Taken
    <3>2. /\ challenge[a].user = call[a].user
          /\ \A k \in Passkeys : challenge[a].keys[k] # None => Handle[k] = challenge[a].user
      BY <1>1, <3>1 DEF IInv, Challenges
    <3>3. me.op = "register" => Handle[me.key] = call[a].user BY <1>1 DEF Handler, Names
    <3>4. CASE me.op = "register" BY <3>2, <3>3, <3>4 DEF Passed
    <3>5. CASE me.op = "factor" BY <1>1, <3>2, <3>5 DEF Passed, Accepts
    <3> QED BY <1>1, <3>4, <3>5
  <2> HIDE DEF passed, pc, proved, u
  <2>4. /\ call' \in [Calls -> CallState] /\ call'[c].pc = pc /\ SameRequest(c)
        /\ \A d \in Calls \ {c} : call'[d] = call[d]
        /\ call'[c].user = u /\ call'[c].keys = me.keys /\ call'[c].took = TRUE /\ call'[c].proved = proved
    <3> DEFINE r == [me EXCEPT !.took = TRUE, !.proved = proved, !.user = u, !.pc = pc]
    <3>1. r \in CallState BY <1>1, <2>2, TakeType DEF Stages
    <3>2. call' = [call EXCEPT ![c] = r] BY <1>1, <2>1 DEF TypeOK, CallState
    <3>3. /\ r.pc = pc /\ r.user = u /\ r.keys = me.keys /\ r.took = TRUE /\ r.proved = proved
          /\ r.op = me.op /\ r.cookie = me.cookie /\ r.answer = me.answer /\ r.key = me.key /\ r.late = me.late
      BY <1>1 DEF CallState
    <3> HIDE DEF r
    <3> QED BY <1>1, <3>1, <3>2, <3>3 DEF TypeOK, SameRequest
  <2>5. \A x \in Calls : challenge'[x] = IF x = a THEN NoChallenge ELSE challenge[x] BY <1>1, <2>1 DEF TypeOK
  <2>6. NoChallenge.kind = None BY DEF NoChallenge
  <2>7. TypeOK' BY <1>1, <2>1, <2>4, BlankType DEF TypeOK
  <2>8. Kept(c) BY <1>1, <2>4, <2>5, <2>6 DEF Kept, EndedBy
  <2>9. Handler(c)'
    <3>1. Place(c)' BY <2>2, <2>4 DEF Place, SameRequest
    <3>2. Names(c)' BY <1>1, <2>4, RequestStep
    <3>3. \A k \in Passkeys : call'[c].keys[k] = None BY <1>1, <2>4, BlankType
    <3>4. Account(c)'
      <4>1. CASE me.op = "passkey" BY <2>2, <2>4, <3>3, <4>1 DEF Account, SameRequest, Loading
      <4>2. CASE me.op # "passkey"
        <5>1. me.op \in Loading BY <1>1, <4>2 DEF Loading
        <5> QED BY <1>1, <2>2, <2>4, <2>8, <3>3, <4>2, <5>1, AccountStep DEF Kept
      <4> QED BY <4>1, <4>2
    <3>5. challenge'[a].kind = None BY <1>1, <2>5, <2>6
    <3>6. Proof(c)' BY <1>1, <2>2, <2>3, <2>4, <3>5, SignInAssumption DEF Proof, SameRequest
    <3> QED BY <3>1, <3>2, <3>4, <3>6 DEF Handler
  <2>10. \A d \in Calls : Handler(d)' BY <2>8, <2>9, OthersStep
  <2>11. Sessions' /\ Challenges' BY <1>1, <2>5, <2>6, <2>8, RowsStep
  <2>12. Owned' BY <1>1, SamePasskeys
  <2>13. ChallengeUsedOnce'
    <3>1. \A d \in Calls \ {c} : call[d].took => call[d].answer # a
      <4>1. challenge[a].kind # None BY <1>1, <1>3, SignInAssumption DEF Taken
      <4> QED BY <4>1 DEF IInv, Handler, Proof
    <3> QED BY <2>4, <3>1 DEF IInv, ChallengeUsedOnce, SameRequest
  <2>14. SecondFactorProven'
    <3>1. Keeps(c) BY <1>1 DEF Keeps
    <3> QED BY <1>1, <2>8, <3>1, ProofsStep DEF SecondFactorProven
  <2> QED BY <2>7, <2>10, <2>11, <2>12, <2>13, <2>14 DEF IInv
<1> QED BY <1>2, <1>3

LEMMA ReadType ==
  ASSUME NEW me \in CallState, NEW pc \in Stages, NEW k \in Keys, NEW p \in BOOLEAN
  PROVE  [me EXCEPT !.keys = k, !.pc = pc, !.proved = p] \in CallState
PROOF
  BY DEF CallState

LEMMA ReadStep == ASSUME IInv, NEW c \in Calls, ReadPasskeys(c) PROVE IInv'
PROOF
<1> DEFINE me == call[c]
           keys == UserPasskeys(me.user)
           found == CASE me.op = "passkey" -> Accepts(keys, me.key, me.count)
                      [] me.op = "factor" -> TRUE
                      [] me.op = "factor_options" -> keys # NoKeys
           next == CASE me.op = "passkey" -> "record"
                     [] me.op = "factor" -> IF keys[me.key] # None THEN "record" ELSE "method"
                     [] me.op = "factor_options" -> "store"
           pc == IF found THEN next ELSE "failed"
           proved == me.proved \/ (found /\ me.op = "passkey")
<1>1. /\ TypeOK /\ Handler(c) /\ me \in CallState /\ me.pc = "read"
      /\ me.op \in {"passkey", "factor", "factor_options"}
      /\ call' = [call EXCEPT ![c].keys = keys, ![c].pc = pc, ![c].proved = proved]
      /\ UNCHANGED <<now, session, challenge, passkey, gone, signed>>
  BY CallType DEF ReadPasskeys, At, IInv, Handler, Place
<1>2. /\ me.user \in Users
      /\ me.op = "passkey" => me.user = Handle[me.key]
      /\ me.op \in {"passkey", "factor"} => me.key \in Passkeys
      /\ me.op = "factor" => me.proved /\ me.user = Handle[me.key]
  <2>1. me.op \in {"passkey", "factor"} => me.key \in Passkeys BY <1>1, CallType DEF Handler, Names
  <2>2. me.op # "passkey" => me.op \in Loading BY <1>1 DEF Loading
  <2> QED BY <1>1, <2>1, <2>2, SignInAssumption DEF Handler, Account, Proof
<1>3. /\ keys \in Keys
      /\ \A k \in Passkeys : keys[k] # None => passkey[k].user = me.user /\ Handle[k] = me.user /\ k \notin gone
  <2>1. \A k \in Passkeys : passkey[k].count \in 0..MaxCount BY <1>1 DEF TypeOK, PasskeyRow
  <2>2. keys \in Keys BY <2>1 DEF UserPasskeys, Keys
  <2>3. \A k \in Passkeys : keys[k] # None => passkey[k].user = me.user BY DEF UserPasskeys, KeysOf
  <2>4. \A k \in Passkeys : passkey[k].user = me.user => Handle[k] = me.user /\ k \notin gone
    BY <1>2, SignInAssumption DEF IInv, Owned
  <2> QED BY <2>2, <2>3, <2>4
<1>4. /\ pc \in {"record", "method", "store", "failed"}
      /\ pc = "record" => me.op \in {"passkey", "factor"} /\ keys[me.key] # None
      /\ pc = "method" => me.op = "factor"
      /\ pc = "store" => me.op = "factor_options"
      /\ me.op = "passkey" /\ pc = "record" => proved
      /\ me.proved => proved
      /\ me.op = "passkey" /\ proved => me.proved \/ keys[me.key] # None
      /\ proved \in BOOLEAN
  <2>1. me.proved \in BOOLEAN /\ found \in BOOLEAN BY <1>1, CallType DEF Accepts
  <2>2. CASE me.op = "passkey" BY <2>1, <2>2 DEF Accepts
  <2>3. CASE me.op = "factor" BY <2>1, <2>3
  <2>4. CASE me.op = "factor_options" BY <2>1, <2>4
  <2> QED BY <1>1, <2>2, <2>3, <2>4
<1> HIDE DEF keys, found, next, pc, proved
<1>5. /\ call' \in [Calls -> CallState] /\ call'[c].pc = pc /\ SameRequest(c)
      /\ \A d \in Calls \ {c} : call'[d] = call[d]
      /\ call'[c].user = me.user /\ call'[c].keys = keys /\ call'[c].took = me.took /\ call'[c].proved = proved
  <2> DEFINE r == [me EXCEPT !.keys = keys, !.pc = pc, !.proved = proved]
  <2>1. r \in CallState BY <1>1, <1>3, <1>4, ReadType DEF Stages
  <2>2. call' = [call EXCEPT ![c] = r] BY <1>1 DEF TypeOK, CallState
  <2>3. /\ r.pc = pc /\ r.user = me.user /\ r.keys = keys /\ r.took = me.took /\ r.proved = proved
        /\ r.op = me.op /\ r.cookie = me.cookie /\ r.answer = me.answer /\ r.key = me.key /\ r.late = me.late
    BY <1>1 DEF CallState
  <2> HIDE DEF r
  <2>4. /\ call' \in [Calls -> CallState] /\ call'[c] = r
        /\ \A d \in Calls \ {c} : call'[d] = call[d]
    BY <1>1, <2>1, <2>2, ZenonT(60) DEF TypeOK
  <2> QED BY <2>3, <2>4 DEF SameRequest
<1>6. TypeOK' BY <1>1, <1>5 DEF TypeOK
<1>7. Place(c)' BY <1>4, <1>5 DEF Place, SameRequest, Options
<1>8. Names(c)' BY <1>1, <1>5, RequestStep
<1>9. Account(c)'
  <2>1. \A k \in Passkeys : call'[c].keys[k] # None => Handle[k] = me.user BY <1>3, <1>5
  <2>2. CASE me.op = "passkey" BY <1>2, <1>4, <1>5, <2>1, <2>2 DEF Account, SameRequest, Loading
  <2>3. CASE me.op # "passkey"
    <3>1. me.op \in Loading BY <1>1, <2>3 DEF Loading
    <3>2. \A s \in Calls : EndedBy(c, s) => EndedBy(c, s)' BY <1>1 DEF EndedBy
    <3> QED BY <1>1, <1>4, <1>5, <2>1, <3>1, <3>2, AccountStep
  <2> QED BY <2>2, <2>3
<1>10. Proof(c)'
  <2>1. /\ me.took => me.answer # None /\ challenge'[me.answer].kind = None
        /\ (me.late => me.key \in gone) /\ (me.late /\ me.op = "passkey" => ~me.proved)
    BY <1>1 DEF Handler, Proof
  <2>2. me.late /\ me.op = "passkey" => ~proved BY <1>2, <1>3, <1>4, <2>1
  <2> QED BY <1>1, <1>2, <1>4, <1>5, <2>1, <2>2 DEF Proof, SameRequest
<1>11. Keeps(c) /\ (call'[c].took => call[c].took /\ call'[c].answer = call[c].answer)
  BY <1>4, <1>5 DEF Keeps, SameRequest
<1> QED BY <1>1, <1>5, <1>6, <1>7, <1>8, <1>9, <1>10, <1>11, QuietStep, SamePasskeys DEF Handler

(* A statement on passkeys, after which a call only moves on.              *)
LEMMA MoveStep ==
  ASSUME IInv, NEW c \in Calls, NEW p \in {"method", "end", "done"}, Go(c, p),
         UNCHANGED <<now, session, challenge, signed>>, gone \subseteq gone', gone' \subseteq Passkeys,
         passkey' \in [Passkeys -> PasskeyRow], Owned',
         call[c].pc \in {"record", "insert", "delete"},
         p = "method" => call[c].op \in {"factor", "register"},
         p = "end" => call[c].op = "passkey",
         p = "done" => call[c].op = "remove"
  PROVE  IInv'
PROOF
<1>1. TypeOK /\ Handler(c) /\ p \in Stages BY DEF IInv, Stages
<1>2. /\ call' \in [Calls -> CallState] /\ call'[c].pc = p /\ SameRequest(c)
      /\ \A d \in Calls \ {c} : call'[d] = call[d]
      /\ call'[c].user = call[c].user /\ call'[c].keys = call[c].keys
      /\ call'[c].took = call[c].took /\ call'[c].proved = call[c].proved
  BY <1>1, GoType DEF SameRequest
<1>3. TypeOK' BY <1>1, <1>2 DEF TypeOK
<1>4. Place(c)' BY <1>2 DEF Place, SameRequest
<1>5. Names(c)' BY <1>2, RequestStep
<1>6. /\ \A k \in Passkeys : call'[c].keys[k] # None => Handle[k] = call[c].user
      /\ call[c].op = "passkey" => call[c].user = Handle[call[c].key] /\ call[c].key \in Passkeys /\ call[c].proved
  <2>1. \A k \in Passkeys : call[c].keys[k] # None => Handle[k] = call[c].user BY <1>1 DEF Handler, Account
  <2>2. call[c].op = "passkey" => call[c].pc = "record" BY <1>1 DEF Handler, Place
  <2>3. call[c].op = "passkey" => call[c].key \in Passkeys BY <1>1, CallType DEF Handler, Names
  <2>4. call[c].op = "passkey" => call[c].user = Handle[call[c].key] /\ call[c].proved
    BY <1>1, <2>2 DEF Handler, Proof
  <2> QED BY <1>2, <2>1, <2>3, <2>4
<1>7. Account(c)'
  <2>1. CASE call[c].op = "passkey" BY <1>2, <1>6, <2>1, SignInAssumption DEF Account, SameRequest, Loading
  <2>2. CASE call[c].op # "passkey"
    <3>1. call[c].op \in Loading BY <2>2 DEF Loading
    <3>2. \A s \in Calls : EndedBy(c, s) => EndedBy(c, s)' BY DEF EndedBy
    <3> QED BY <1>2, <1>6, <3>1, <3>2, AccountStep
  <2> QED BY <2>1, <2>2
<1>8. Proof(c)'
  <2>1. /\ call[c].took => call[c].answer # None /\ challenge'[call[c].answer].kind = None
        /\ (call[c].late => call[c].key \in gone') /\ (call[c].late /\ call[c].op = "passkey" => ~call[c].proved)
    BY <1>1 DEF Handler, Proof
  <2>2. call[c].op \in {"factor", "register"} => call[c].proved /\ call[c].user = Handle[call[c].key]
    BY <1>1 DEF Handler, Proof, Place
  <2> QED BY <1>2, <1>6, <2>1, <2>2 DEF Proof, SameRequest
<1>9. Keeps(c) /\ (call'[c].took => call[c].took /\ call'[c].answer = call[c].answer)
  BY <1>2 DEF Keeps, SameRequest
<1> QED BY <1>2, <1>3, <1>4, <1>5, <1>7, <1>8, <1>9, QuietStep DEF Handler

LEMMA RecordStep == ASSUME IInv, NEW c \in Calls, RecordUse(c) PROVE IInv'
PROOF
<1> DEFINE k == call[c].key
           n == IF passkey[k].user = None THEN passkey[k].count ELSE Counted(call[c].count, call[c].keys[k])
           p == IF call[c].op = "passkey" THEN "end" ELSE "method"
<1>1. /\ TypeOK /\ Handler(c) /\ call[c].pc = "record" /\ Go(c, p)
      /\ passkey' = [passkey EXCEPT ![k].count = n] /\ UNCHANGED <<now, session, challenge, gone, signed>>
  BY DEF RecordUse, At, IInv
<1>2. call[c].op \in {"passkey", "factor"} /\ call[c].keys[k] # None /\ k # None
  BY <1>1 DEF Handler, Place, Names
<1>3. k \in Passkeys BY <1>1, <1>2, CallType
<1>4. n \in 0..MaxCount
  <2>1. /\ call[c].count \in 0..MaxCount /\ call[c].keys[k] \in 0..MaxCount /\ passkey[k].count \in 0..MaxCount
    BY <1>1, <1>2, <1>3, CallType DEF Keys, TypeOK, PasskeyRow
  <2> QED BY <2>1 DEF Counted
<1> HIDE DEF n
<1>5. passkey' \in [Passkeys -> PasskeyRow] /\ \A x \in Passkeys : passkey'[x].user = passkey[x].user
  BY <1>1, <1>3, <1>4 DEF TypeOK, PasskeyRow
<1>6. Owned' BY <1>1, <1>5 DEF IInv, Owned
<1> QED BY <1>1, <1>2, <1>5, <1>6, MoveStep DEF TypeOK

LEMMA InsertStep == ASSUME IInv, NEW c \in Calls, InsertPasskey(c) PROVE IInv'
PROOF
<1> DEFINE k == call[c].key
           row == [user |-> call[c].user, count |-> call[c].count]
<1>1. TypeOK /\ Handler(c) /\ call[c].pc = "insert" /\ UNCHANGED <<now, session, challenge, gone, signed>>
  BY DEF InsertPasskey, At, IInv
<1>2. CASE passkey[k].user = None /\ k \notin gone
  <2>1. passkey' = [passkey EXCEPT ![k] = row] /\ Go(c, "method") BY <1>2 DEF InsertPasskey
  <2>2. call[c].op = "register" /\ k # None BY <1>1 DEF Handler, Place, Names
  <2>3. k \in Passkeys /\ call[c].user = Handle[k] BY <1>1, <2>2, CallType DEF Handler, Proof
  <2>4. row \in PasskeyRow BY <1>1, CallType DEF PasskeyRow
  <2>5. passkey' \in [Passkeys -> PasskeyRow] BY <1>1, <2>1, <2>4 DEF TypeOK
  <2>6. Owned' BY <1>1, <1>2, <2>1, <2>3 DEF IInv, Owned, TypeOK
  <2> QED BY <1>1, <2>1, <2>2, <2>5, <2>6, MoveStep DEF TypeOK
<1>3. CASE ~(passkey[k].user = None /\ k \notin gone)
  BY <1>1, <1>3, FailStep DEF InsertPasskey
<1> QED BY <1>2, <1>3

LEMMA DeleteStep == ASSUME IInv, NEW c \in Calls, DeletePasskey(c) PROVE IInv'
PROOF
<1> DEFINE k == call[c].key
<1>1. /\ TypeOK /\ Handler(c) /\ call[c].pc = "delete" /\ UNCHANGED <<now, session, challenge, signed>>
      /\ \/ passkey' = PasskeysWithout(k) /\ gone' = gone \cup {k} /\ Go(c, "done")
         \/ Fail(c) /\ UNCHANGED <<passkey, gone>>
  BY DEF DeletePasskey, At, IInv
<1>2. CASE passkey' = PasskeysWithout(k) /\ gone' = gone \cup {k} /\ Go(c, "done")
  <2>1. call[c].op = "remove" /\ k # None BY <1>1 DEF Handler, Place, Names
  <2>2. k \in Passkeys BY <1>1, <2>1, CallType
  <2>3. NoPasskey \in PasskeyRow /\ NoPasskey.user = None BY BlankType DEF NoPasskey, PasskeyRow
  <2>4. /\ passkey' \in [Passkeys -> PasskeyRow] /\ passkey'[k] = NoPasskey
        /\ \A x \in Passkeys \ {k} : passkey'[x] = passkey[x]
    BY <1>1, <1>2, <2>2, <2>3 DEF PasskeysWithout, TypeOK
  <2>5. Owned' BY <1>2, <2>3, <2>4 DEF IInv, Owned
  <2> QED BY <1>1, <1>2, <2>1, <2>2, <2>4, <2>5, MoveStep DEF TypeOK
<1>3. CASE Fail(c) /\ UNCHANGED <<passkey, gone>> BY <1>1, <1>3, FailStep
<1> QED BY <1>1, <1>2, <1>3

LEMMA MethodStep == ASSUME IInv, NEW c \in Calls, AddMethod(c) PROVE IInv'
PROOF
<1> DEFINE s == call[c].cookie
<1>1. /\ TypeOK /\ Handler(c) /\ call[c].pc = "method" /\ call[c].op \in {"factor", "register"}
      /\ UNCHANGED <<now, challenge, passkey, gone, signed>>
  BY DEF AddMethod, At, IInv, Handler, Place
<1>2. CASE ~RowExists(s)
  <2>1. Fail(c) /\ UNCHANGED session BY <1>2 DEF AddMethod
  <2> QED BY <1>1, <2>1, FailStep
<1>3. CASE RowExists(s)
  <2>1. /\ session' = [session EXCEPT ![s].hwk = TRUE, ![s].auth = now] /\ Go(c, "done")
    BY <1>3 DEF AddMethod
  <2>2. /\ s \in Calls /\ session[s].user # None /\ session[s].user = call[s].user
        /\ call[c].user = call[s].user /\ call[c].proved /\ call[c].user = Handle[call[c].key]
    <3>1. call[c].op \in Loading /\ s # None BY <1>1 DEF Handler, Names, Loading
    <3>2. s \in Calls BY <1>1, <3>1, CallType
    <3> QED BY <1>1, <1>3, <3>1, <3>2 DEF Handler, Account, Proof, RowExists, IInv, Sessions
  <2>3. /\ call' \in [Calls -> CallState] /\ call'[c].pc = "done" /\ SameRequest(c)
        /\ \A d \in Calls \ {c} : call'[d] = call[d]
        /\ call'[c].user = call[c].user /\ call'[c].keys = call[c].keys
        /\ call'[c].took = call[c].took /\ call'[c].proved = call[c].proved
    <3>1. "done" \in Stages BY DEF Stages
    <3> QED BY <1>1, <2>1, <3>1, GoType DEF SameRequest
  <2>4. session[s] \in SessionRow /\ now \in Int BY <1>1, <2>2, RowType DEF TypeOK
  <2>5. [session[s] EXCEPT !.hwk = TRUE, !.auth = now] \in SessionRow BY <2>4 DEF SessionRow
  <2>6. /\ session' \in [Calls -> SessionRow] /\ session'[s].user = session[s].user
        /\ \A x \in Calls \ {s} : session'[x] = session[x]
    BY <1>1, <2>1, <2>2, <2>4, <2>5 DEF TypeOK, SessionRow
  <2>7. \A x \in Calls : session'[x].user = session[x].user BY <2>6
  <2>8. TypeOK' BY <1>1, <2>3, <2>6 DEF TypeOK
  <2>9. Kept(c) BY <1>1, <2>3, <2>7 DEF Kept, EndedBy
  <2>10. Handler(c)'
    <3>1. Place(c)' BY <2>3 DEF Place
    <3>2. Names(c)' BY <1>1, <2>3, RequestStep
    <3>3. call[c].op \in Loading BY <1>1 DEF Loading
    <3>4. \A k \in Passkeys : call'[c].keys[k] # None => Handle[k] = call[c].user
      BY <1>1, <2>3 DEF Handler, Account
    <3>5. Account(c)' BY <1>1, <2>3, <2>7, <2>9, <3>3, <3>4, AccountStep DEF Kept
    <3>6. Proof(c)' BY <1>1, <2>3 DEF Handler, Proof, SameRequest
    <3> QED BY <3>1, <3>2, <3>5, <3>6 DEF Handler
  <2>11. \A d \in Calls : Handler(d)' BY <2>9, <2>10, OthersStep
  <2>12. Sessions' /\ Challenges' BY <1>1, <2>7, <2>9, RowsStep
  <2>13. Owned' BY <1>1, SamePasskeys
  <2>14. ChallengeUsedOnce' BY <2>3, <2>9, OnceStep DEF SameRequest
  <2>15. SecondFactorProven'
    <3> SUFFICES ASSUME NEW x \in Calls, session'[x].hwk PROVE \E d \in Calls : ProvedFor(d, x)'
      BY DEF SecondFactorProven
    <3>1. CASE x = s
      <4>1. ProvedFor(c, x)' BY <1>1, <2>2, <2>3, <2>7, <3>1 DEF ProvedFor, SameRequest
      <4> QED BY <4>1
    <3>2. CASE x # s
      <4>1. Keeps(c) /\ session[x].hwk /\ session'[x].user = session[x].user
        BY <2>3, <2>6, <3>2 DEF Keeps, SameRequest
      <4> QED BY <2>9, <4>1, ProofsStep
    <3> QED BY <3>1, <3>2
  <2> QED BY <2>8, <2>11, <2>12, <2>13, <2>14, <2>15 DEF IInv
<1> QED BY <1>2, <1>3

(* Sessions are replaced by calls that have nothing else left to do.       *)
LEMMA SessionStep ==
  ASSUME IInv, NEW c \in Calls, NEW p \in {"start", "done"}, Go(c, p),
         UNCHANGED <<now, challenge, passkey, gone, signed>>,
         session' \in [Calls -> SessionRow],
         call[c].pc \in {"end", "start"}, call[c].op \in {"password", "passkey", "sign_out"},
         p = "start" => call[c].op # "sign_out",
         \A s \in Calls : session[s].user # None => session'[s].user # None \/ EndedBy(c, s)',
         Sessions',
         \A s \in Calls : session'[s].hwk => \/ session[s].hwk /\ session'[s].user = session[s].user
                                             \/ call[c].op = "passkey" /\ s = c /\ session'[s].user = call[c].user
  PROVE  IInv'
PROOF
<1>1. TypeOK /\ Handler(c) /\ p \in Stages BY DEF IInv, Stages
<1>2. /\ call' \in [Calls -> CallState] /\ call'[c].pc = p /\ SameRequest(c)
      /\ \A d \in Calls \ {c} : call'[d] = call[d]
      /\ call'[c].user = call[c].user /\ call'[c].keys = call[c].keys
      /\ call'[c].took = call[c].took /\ call'[c].proved = call[c].proved
  BY <1>1, GoType DEF SameRequest
<1>3. TypeOK' BY <1>1, <1>2 DEF TypeOK
<1>4. Kept(c) BY <1>2 DEF Kept, EndedBy, SameRequest
<1>5. Handler(c)'
  <2>1. Place(c)' BY <1>2 DEF Place, SameRequest
  <2>2. Names(c)' BY <1>2, RequestStep
  <2>3. Account(c)' BY <1>1, <1>2 DEF Handler, Account, SameRequest, Loading
  <2>4. Proof(c)' BY <1>1, <1>2 DEF Handler, Proof, SameRequest
  <2> QED BY <2>1, <2>2, <2>3, <2>4 DEF Handler
<1>6. \A d \in Calls : Handler(d)' BY <1>4, <1>5, OthersStep
<1>7. Challenges' BY <1>4, RowsStep
<1>8. Owned' BY SamePasskeys
<1>9. ChallengeUsedOnce' BY <1>2, <1>4, OnceStep DEF SameRequest
<1>10. SecondFactorProven'
  <2> SUFFICES ASSUME NEW s \in Calls, session'[s].hwk PROVE \E d \in Calls : ProvedFor(d, s)'
    BY DEF SecondFactorProven
  <2>1. CASE session[s].hwk /\ session'[s].user = session[s].user
    <3>1. Keeps(c) BY <1>2 DEF Keeps, SameRequest
    <3> QED BY <1>4, <2>1, <3>1, ProofsStep
  <2>2. CASE call[c].op = "passkey" /\ s = c /\ session'[s].user = call[c].user
    <3>1. call[c].proved /\ call[c].user = Handle[call[c].key] BY <1>1, <2>2 DEF Handler, Proof
    <3>2. ProvedFor(c, s)' BY <1>2, <2>2, <3>1 DEF ProvedFor, SameRequest
    <3> QED BY <3>2
  <2> QED BY <2>1, <2>2
<1> QED BY <1>3, <1>6, <1>7, <1>8, <1>9, <1>10 DEF IInv

LEMMA EndStep == ASSUME IInv, NEW c \in Calls, EndSession(c) PROVE IInv'
PROOF
<1> DEFINE p == IF call[c].op = "sign_out" THEN "done" ELSE "start"
<1>1. /\ TypeOK /\ Handler(c) /\ call[c].pc = "end" /\ Go(c, p) /\ p \in {"start", "done"} /\ p \in Stages
      /\ UNCHANGED <<now, challenge, passkey, gone, signed>>
      /\ \A s \in Calls : session'[s] = IF s = call[c].cookie THEN NoSession ELSE session[s]
      /\ session' \in [Calls -> SessionRow]
  BY BlankType DEF EndSession, At, IInv, TypeOK, Stages
<1>2. call[c].op \in {"password", "passkey", "sign_out"} BY <1>1 DEF Handler, Place
<1>3. NoSession.user = None /\ NoSession.hwk = FALSE BY DEF NoSession
<1>4. /\ call'[c].pc = p /\ SameRequest(c) /\ \A d \in Calls \ {c} : call'[d] = call[d]
  BY <1>1, GoType DEF SameRequest
<1>5. \A s \in Calls : session[s].user # None => session'[s].user # None \/ EndedBy(c, s)'
  BY <1>1, <1>2, <1>4 DEF EndedBy, SameRequest
<1>6. Sessions' BY <1>1, <1>3, <1>4 DEF IInv, Sessions
<1>7. \A s \in Calls : session'[s].hwk => session[s].hwk /\ session'[s].user = session[s].user BY <1>1, <1>3
<1> QED BY <1>1, <1>2, <1>5, <1>6, <1>7, SessionStep

LEMMA StartStep == ASSUME IInv, NEW c \in Calls, StartSession(c) PROVE IInv'
PROOF
<1> DEFINE row == [user |-> call[c].user, hwk |-> call[c].op = "passkey", auth |-> now, expires |-> now + SessionTTL]
<1>1. /\ TypeOK /\ Handler(c) /\ call[c].pc = "start" /\ Go(c, "done") /\ "done" \in Stages
      /\ UNCHANGED <<now, challenge, passkey, gone, signed>> /\ session' = [session EXCEPT ![c] = row]
  BY DEF StartSession, At, IInv, Stages
<1>2. /\ call[c].op \in {"password", "passkey"} /\ call[c].user \in Users
  BY <1>1 DEF Handler, Place, Account
<1>3. row \in SessionRow
  <2>1. now \in Int /\ now + SessionTTL \in Int BY <1>1, SignInAssumption DEF TypeOK
  <2> QED BY <1>2, <2>1 DEF SessionRow
<1>4. row.user = call[c].user /\ (row.hwk => call[c].op = "passkey") OBVIOUS
<1> HIDE DEF row
<1>5. /\ session' \in [Calls -> SessionRow] /\ \A s \in Calls : session'[s] = IF s = c THEN row ELSE session[s]
  BY <1>1, <1>3 DEF TypeOK
<1>6. /\ call'[c].pc = "done" /\ SameRequest(c) /\ \A d \in Calls \ {c} : call'[d] = call[d]
      /\ call'[c].user = call[c].user
  BY <1>1, GoType DEF SameRequest
<1>7. call[c].user # None BY <1>2, SignInAssumption
<1>8. \A s \in Calls : session[s].user # None => session'[s].user # None \/ EndedBy(c, s)'
  BY <1>4, <1>5, <1>7
<1>9. Sessions' BY <1>2, <1>4, <1>5, <1>6 DEF IInv, Sessions, SameRequest
<1>10. \A s \in Calls : session'[s].hwk => \/ session[s].hwk /\ session'[s].user = session[s].user
                                           \/ call[c].op = "passkey" /\ s = c /\ session'[s].user = call[c].user
  BY <1>4, <1>5
<1> QED BY <1>1, <1>2, <1>5, <1>8, <1>9, <1>10, SessionStep

(* What a client may send.                                                 *)
Request(op, new) ==
  /\ new \in CallState /\ ~new.took /\ ~new.proved /\ new.keys = NoKeys
  /\ op = "password" => new.user \in Users
  /\ op \in Loading => new.cookie # None
  /\ op \in {"passkey", "factor", "register"} => new.answer # None
  /\ op \in {"passkey", "factor", "register", "remove"} => new.key # None
  /\ new.cookie # None => new.cookie \in Started
  /\ new.answer # None => call[new.answer].pc = "done" /\ call[new.answer].op \in Options
  /\ op = "register" => call[new.answer].op = "register_options" /\ Handle[new.key] = call[new.answer].user

First(op) == CASE op \in {"password", "sign_out"} -> "end"
               [] op = "passkey_options" -> "store"
               [] op = "passkey" -> "take"
               [] OTHER -> "load"

LEMMA FirstType ==
  ASSUME NEW new \in CallState, NEW op \in Operations, NEW late \in BOOLEAN, NEW pc \in Stages
  PROVE  [new EXCEPT !.op = op, !.late = late, !.pc = pc] \in CallState
PROOF
  BY DEF CallState

LEMMA BeginStep ==
  ASSUME IInv, NEW c \in Calls, NEW op \in Operations, NEW new, Begin(c, op, new), Request(op, new),
         signed' \in [Passkeys -> 0..MaxCount]
  PROVE  IInv'
PROOF
<1> DEFINE late == new.key \in gone
           r == [new EXCEPT !.op = op, !.late = late, !.pc = First(op)]
<1>1. /\ TypeOK /\ Handler(c) /\ call[c].pc = "idle" /\ UNCHANGED <<now, session, challenge, passkey, gone>>
      /\ call' = [call EXCEPT ![c] = r] /\ new \in CallState
  BY DEF Begin, IInv, Request, First
<1>2. /\ First(op) \in Stages
      /\ First(op) = "end" => op \in {"password", "sign_out"}
      /\ First(op) = "store" => op = "passkey_options"
      /\ First(op) = "take" => op = "passkey"
      /\ First(op) = "load" => op \in Loading
      /\ First(op) \in {"end", "store", "take", "load"}
  BY DEF First, Operations, Stages, Loading
<1>3. late \in BOOLEAN /\ late = (new.key \in gone) OBVIOUS
<1> HIDE DEF late
<1>4. r \in CallState BY <1>1, <1>2, <1>3, FirstType
<1>5. /\ r.op = op /\ r.pc = First(op) /\ r.late = late
      /\ r.cookie = new.cookie /\ r.answer = new.answer /\ r.key = new.key /\ r.user = new.user
      /\ r.keys = new.keys /\ r.took = new.took /\ r.proved = new.proved
  BY <1>1 DEF CallState
<1> HIDE DEF r
<1>6. /\ call' \in [Calls -> CallState] /\ call'[c] = r
      /\ \A d \in Calls \ {c} : call'[d] = call[d]
  BY <1>1, <1>4 DEF TypeOK
<1>7. TypeOK' BY <1>1, <1>6 DEF TypeOK
<1>8. Place(c)' BY <1>2, <1>5, <1>6 DEF Place, Options, Loading
<1>9. Names(c)'
  <2>1. ASSUME new.cookie # None
        PROVE  call'[new.cookie].pc = "done" /\ call'[new.cookie].op \in {"password", "passkey"}
    BY <1>1, <1>6, <2>1 DEF Request, Started
  <2>2. ASSUME new.answer # None PROVE new.answer \in Calls /\ call'[new.answer] = call[new.answer]
    <3>1. new.answer \in Calls BY <1>1, <2>2 DEF CallState
    <3> QED BY <1>1, <1>6, <2>2, <3>1 DEF Request
  <2>3. op \in {"factor", "register"} => new.answer # None BY DEF Request
  <2> QED BY <1>5, <1>6, <2>1, <2>2, <2>3 DEF Request, Names
<1>10. Account(c)'
  <2>1. \A k \in Passkeys : r.keys[k] = None BY <1>5, BlankType DEF Request
  <2> QED BY <1>2, <1>5, <1>6, <2>1 DEF Account, Request, Loading
<1>11. Proof(c)' BY <1>1, <1>2, <1>3, <1>5, <1>6 DEF Proof, Request
<1>12. Keeps(c) /\ (call'[c].took => call[c].took /\ call'[c].answer = call[c].answer)
  BY <1>1, <1>5, <1>6 DEF Handler, Proof, Keeps, Request
<1> QED BY <1>1, <1>6, <1>7, <1>8, <1>9, <1>10, <1>11, <1>12, QuietStep, SamePasskeys DEF Handler

LEMMA ArriveStep == ASSUME IInv, NEW c \in Calls, Arrive(c) PROVE IInv'
PROOF
<1>1. /\ signed \in [Passkeys -> 0..MaxCount] /\ None \in Calls \cup {None} /\ 0 \in 0..MaxCount
      /\ Started \subseteq Calls /\ None \notin Calls /\ None \notin Users /\ None \notin Passkeys
      /\ TypeOK
  BY BlankType, SignInAssumption DEF IInv, TypeOK, Started
<1>2. CASE Password(c)
  <2>1. PICK s \in Started \cup {None}, u \in Users :
          Begin(c, "password", [NoCall EXCEPT !.cookie = s, !.user = u]) /\ UNCHANGED signed
    BY <1>2 DEF Password
  <2> DEFINE new == [NoCall EXCEPT !.cookie = s, !.user = u]
  <2>3. Request("password", new)
    <3>1. /\ new \in CallState /\ ~new.took /\ ~new.proved /\ new.keys = NoKeys
          /\ new.cookie = s /\ new.answer = None /\ new.key = None /\ new.user = u
      BY <1>1, BlankType DEF CallState, NoCall
    <3> HIDE DEF new
    <3> QED BY <3>1 DEF Request, Loading
  <2>4. Begin(c, "password", new) BY <2>1
  <2> HIDE DEF new
  <2> QED BY <1>1, <2>1, <2>3, <2>4, BeginStep DEF Operations
<1>3. CASE PasskeyOptions(c)
  <2> DEFINE new == NoCall
  <2>1. Begin(c, "passkey_options", NoCall) /\ UNCHANGED signed BY <1>3 DEF PasskeyOptions
  <2>2. Request("passkey_options", new)
    <3>1. /\ new \in CallState /\ ~new.took /\ ~new.proved /\ new.keys = NoKeys
          /\ new.cookie = None /\ new.answer = None /\ new.key = None /\ new.user = None
      BY <1>1, BlankType DEF CallState, NoCall
    <3> HIDE DEF new
    <3> QED BY <3>1 DEF Request, Loading
  <2>3. Begin(c, "passkey_options", new) BY <2>1
  <2> HIDE DEF new
  <2> QED BY <1>1, <2>1, <2>2, <2>3, BeginStep DEF Operations
<1>4. CASE WithCookie(c)
  <2>1. PICK s \in Started, op \in {"factor_options", "register_options", "sign_out"} :
          Begin(c, op, [NoCall EXCEPT !.cookie = s]) /\ UNCHANGED signed
    BY <1>4 DEF WithCookie
  <2> DEFINE new == [NoCall EXCEPT !.cookie = s]
  <2>3. Request(op, new)
    <3>1. /\ new \in CallState /\ ~new.took /\ ~new.proved /\ new.keys = NoKeys
          /\ new.cookie = s /\ new.answer = None /\ new.key = None /\ new.user = None
      BY <1>1, BlankType DEF CallState, NoCall
    <3> HIDE DEF new
    <3> QED BY <1>1, <3>1 DEF Request, Loading
  <2>4. Begin(c, op, new) BY <2>1
  <2> HIDE DEF new
  <2> QED BY <1>1, <2>1, <2>3, <2>4, BeginStep DEF Operations
<1>5. CASE Remove(c)
  <2>1. PICK s \in Started, k \in Passkeys :
          Begin(c, "remove", [NoCall EXCEPT !.cookie = s, !.key = k]) /\ UNCHANGED signed
    BY <1>5 DEF Remove
  <2> DEFINE new == [NoCall EXCEPT !.cookie = s, !.key = k]
  <2>3. Request("remove", new)
    <3>1. /\ new \in CallState /\ ~new.took /\ ~new.proved /\ new.keys = NoKeys
          /\ new.cookie = s /\ new.answer = None /\ new.key = k /\ new.user = None
      BY <1>1, BlankType DEF CallState, NoCall
    <3> HIDE DEF new
    <3> QED BY <1>1, <3>1 DEF Request, Loading
  <2>4. Begin(c, "remove", new) BY <2>1
  <2> HIDE DEF new
  <2> QED BY <1>1, <2>1, <2>3, <2>4, BeginStep DEF Operations
<1>6. CASE Answer(c)
  <2>1. PICK k \in Passkeys, op \in {"passkey", "factor"} :
          \E s \in Started \cup (IF op = "passkey" THEN {None} ELSE {}),
             a \in Issued("passkey_options") \cup Issued("factor_options") :
            /\ signed[k] < MaxCount /\ signed' = [signed EXCEPT ![k] = @ + 1]
            /\ Begin(c, op, [NoCall EXCEPT !.cookie = s, !.answer = a, !.key = k, !.count = signed[k] + 1])
    BY <1>6 DEF Answer
  <2>2. PICK s \in Started \cup (IF op = "passkey" THEN {None} ELSE {}),
             a \in Issued("passkey_options") \cup Issued("factor_options") :
            /\ signed[k] < MaxCount /\ signed' = [signed EXCEPT ![k] = @ + 1]
            /\ Begin(c, op, [NoCall EXCEPT !.cookie = s, !.answer = a, !.key = k, !.count = signed[k] + 1])
    BY <2>1
  <2>3. /\ signed[k] + 1 \in 0..MaxCount /\ signed' \in [Passkeys -> 0..MaxCount]
        /\ a \in Calls /\ call[a].pc = "done" /\ call[a].op \in Options /\ s \in Calls \cup {None}
        /\ s # None => s \in Started
        /\ op = "factor" => s # None
    BY <1>1, <2>2, SignInAssumption DEF Issued, Options
  <2> DEFINE new == [NoCall EXCEPT !.cookie = s, !.answer = a, !.key = k, !.count = signed[k] + 1]
  <2>5. Request(op, new)
    <3>1. /\ new \in CallState /\ ~new.took /\ ~new.proved /\ new.keys = NoKeys
          /\ new.cookie = s /\ new.answer = a /\ new.key = k /\ new.user = None
      BY <1>1, <2>3, BlankType DEF CallState, NoCall
    <3> HIDE DEF new
    <3> QED BY <1>1, <2>3, <3>1 DEF Request, Loading
  <2>6. Begin(c, op, new) BY <2>2
  <2> HIDE DEF new
  <2> QED BY <2>3, <2>5, <2>6, BeginStep DEF Operations
<1>7. CASE Register(c)
  <2>1. PICK s \in Started, a \in Issued("register_options"), k \in Passkeys :
          /\ Handle[k] = call[a].user
          /\ Begin(c, "register", [NoCall EXCEPT !.cookie = s, !.answer = a, !.key = k]) /\ UNCHANGED signed
    BY <1>7 DEF Register
  <2>2. /\ a \in Calls /\ call[a].pc = "done" /\ call[a].op = "register_options"
    BY <2>1 DEF Issued
  <2> DEFINE new == [NoCall EXCEPT !.cookie = s, !.answer = a, !.key = k]
  <2>4. Request("register", new)
    <3>1. /\ new \in CallState /\ ~new.took /\ ~new.proved /\ new.keys = NoKeys
          /\ new.cookie = s /\ new.answer = a /\ new.key = k /\ new.user = None
      BY <1>1, <2>2, BlankType DEF CallState, NoCall
    <3> HIDE DEF new
    <3> QED BY <1>1, <2>1, <2>2, <3>1 DEF Request, Options
  <2>5. Begin(c, "register", new) BY <2>1
  <2> HIDE DEF new
  <2> QED BY <1>1, <2>1, <2>4, <2>5, BeginStep DEF Operations
<1> QED BY <1>2, <1>3, <1>4, <1>5, <1>6, <1>7 DEF Arrive

LEMMA RestStep ==
  ASSUME IInv, UNCHANGED <<session, challenge, passkey, gone, signed, call>>, now' \in 0..MaxTime
  PROVE  IInv'
PROOF
<1>1. TypeOK' BY DEF IInv, TypeOK
<1>2. ASSUME NEW c \in Calls PROVE Handler(c)'
  BY DEF IInv, Handler, Place, Names, Account, Proof, EndedBy
<1>3. Sessions' /\ Challenges' /\ Owned' BY DEF IInv, Sessions, Challenges, Owned
<1>4. ChallengeUsedOnce' /\ SecondFactorProven'
  BY DEF IInv, ChallengeUsedOnce, SecondFactorProven, ProvedFor
<1> QED BY <1>1, <1>2, <1>3, <1>4 DEF IInv

-----------------------------------------------------------------------------
LEMMA EarlierType ==
  ASSUME NEW me \in CallState, NEW pc \in Stages, NEW op \in Operations, NEW u \in Users,
         NEW k \in Passkeys \cup {None}, NEW p \in BOOLEAN
  PROVE  [me EXCEPT !.pc = pc, !.op = op, !.user = u, !.key = k, !.proved = p] \in CallState
PROOF
  BY DEF CallState

LEMMA InitInv == Init => IInv
PROOF
<1> SUFFICES ASSUME Init PROVE IInv OBVIOUS
<1>1. PICK own \in SUBSET Passkeys :
        passkey = [k \in Passkeys |-> [user |-> IF k \in own THEN Handle[k] ELSE None, count |-> 0]]
  BY DEF Init
<1>2. PICK by \in [Earlier -> Users \X (Passkeys \cup {None})] :
        /\ \A e \in Earlier : by[e][2] # None => passkey[by[e][2]].user = by[e][1]
        /\ session = [c \in Calls |->
             IF c \in Earlier
             THEN [user |-> by[c][1], hwk |-> by[c][2] # None, auth |-> 0, expires |-> SessionTTL]
             ELSE NoSession]
        /\ call = [c \in Calls |->
             IF c \in Earlier
             THEN [NoCall EXCEPT !.pc = "done", !.op = IF by[c][2] = None THEN "password" ELSE "passkey",
                                 !.user = by[c][1], !.key = by[c][2], !.proved = by[c][2] # None]
             ELSE NoCall]
  BY DEF Init
<1>3. /\ now = 0 /\ challenge = [c \in Calls |-> NoChallenge] /\ gone = {} /\ signed = [k \in Passkeys |-> 0]
  BY DEF Init
<1>4. \A e \in Earlier : /\ by[e][1] \in Users /\ by[e][2] \in Passkeys \cup {None}
                         /\ by[e][2] # None => Handle[by[e][2]] = by[e][1]
  BY <1>1, <1>2, SignInAssumption, ZenonT(60)
<1>5. ASSUME NEW c \in Earlier
      PROVE  /\ call[c] \in CallState /\ call[c].pc = "done" /\ call[c].op \in {"password", "passkey"}
             /\ call[c].user = by[c][1] /\ call[c].key = by[c][2] /\ call[c].proved = (by[c][2] # None)
             /\ call[c].op = "passkey" <=> by[c][2] # None
             /\ call[c].cookie = None /\ call[c].answer = None /\ call[c].keys = NoKeys
             /\ call[c].took = FALSE /\ call[c].late = FALSE
             /\ session[c] \in SessionRow /\ session[c].user = by[c][1] /\ session[c].hwk = (by[c][2] # None)
  <2> DEFINE op == IF by[c][2] = None THEN "password" ELSE "passkey"
             proved == by[c][2] # None
             r == [NoCall EXCEPT !.pc = "done", !.op = op, !.user = by[c][1], !.key = by[c][2], !.proved = proved]
  <2>1. call[c] = r BY <1>2, SignInAssumption
  <2>2. /\ op \in Operations /\ op \in {"password", "passkey"} /\ (op = "passkey" <=> by[c][2] # None)
        /\ proved \in BOOLEAN /\ proved = (by[c][2] # None)
    BY DEF Operations
  <2> HIDE DEF op, proved
  <2>3. r \in CallState
    <3>1. /\ by[c][1] \in Users /\ by[c][2] \in Passkeys \cup {None} /\ "done" \in Stages /\ NoCall \in CallState
          /\ op \in Operations /\ proved \in BOOLEAN
      BY <1>4, <2>2, BlankType DEF Stages
    <3> QED BY <3>1, EarlierType
  <2>4. /\ r.pc = "done" /\ r.op = op /\ r.user = by[c][1] /\ r.key = by[c][2] /\ r.proved = proved
        /\ r.cookie = None /\ r.answer = None /\ r.keys = NoKeys /\ r.took = FALSE /\ r.late = FALSE
    BY DEF NoCall
  <2>5. /\ session[c] = [user |-> by[c][1], hwk |-> by[c][2] # None, auth |-> 0, expires |-> SessionTTL]
    BY <1>2, SignInAssumption
  <2>6. session[c] \in SessionRow /\ session[c].user = by[c][1] /\ session[c].hwk = (by[c][2] # None)
    BY <1>4, <2>5, SignInAssumption DEF SessionRow
  <2> HIDE DEF r
  <2> QED BY <2>1, <2>2, <2>3, <2>4, <2>6
<1>6. ASSUME NEW c \in Calls \ Earlier
      PROVE  call[c] = NoCall /\ session[c] = NoSession
  BY <1>2
<1>7. TypeOK
  <2>1. \A k \in Passkeys : passkey[k] \in PasskeyRow BY <1>1, BlankType, SignInAssumption DEF PasskeyRow
  <2>2. passkey \in [Passkeys -> PasskeyRow] BY <1>1, <2>1
  <2>3. session \in [Calls -> SessionRow] BY <1>2, <1>5, <1>6, BlankType
  <2>4. call \in [Calls -> CallState] BY <1>2, <1>5, <1>6, BlankType
  <2>5. 0 \in 0..MaxTime BY SignInAssumption
  <2> QED BY <1>3, <2>2, <2>3, <2>4, <2>5, BlankType DEF TypeOK
<1>8. /\ NoCall.pc = "idle" /\ NoCall.op = None /\ NoCall.cookie = None /\ NoCall.answer = None
      /\ NoCall.keys = NoKeys /\ NoCall.took = FALSE /\ NoCall.proved = FALSE /\ NoCall.late = FALSE
      /\ NoSession.user = None /\ NoSession.hwk = FALSE /\ NoChallenge.kind = None
  BY DEF NoCall, NoSession, NoChallenge
<1>9. ASSUME NEW c \in Calls PROVE Handler(c)
  <2>1. CASE c \in Earlier
    <3>1. Place(c) /\ Names(c) BY <1>5, <2>1 DEF Place, Names, Loading
    <3>2. \A k \in Passkeys : call[c].keys[k] = None BY <1>5, <2>1, BlankType
    <3>3. Account(c) BY <1>4, <1>5, <2>1, <3>2 DEF Account, Loading
    <3>4. Proof(c) BY <1>4, <1>5, <2>1 DEF Proof
    <3> QED BY <3>1, <3>3, <3>4 DEF Handler
  <2>2. CASE c \notin Earlier
    <3>1. call[c] = NoCall BY <1>6, <2>2
    <3>2. None \notin Operations BY SignInAssumption
    <3> QED BY <1>8, <3>1, <3>2, BlankType DEF Handler, Place, Names, Account, Proof, Loading, Operations
  <2> QED BY <2>1, <2>2
<1>10. Sessions
  <2> SUFFICES ASSUME NEW s \in Calls, session[s].user # None
               PROVE  call[s].pc = "done" /\ call[s].op \in {"password", "passkey"} /\ session[s].user = call[s].user
    BY DEF Sessions
  <2>1. s \in Earlier BY <1>6, <1>8
  <2> QED BY <1>5, <2>1
<1>11. Challenges BY <1>3, <1>8 DEF Challenges
<1>12. Owned BY <1>1, <1>3 DEF Owned
<1>13. ChallengeUsedOnce BY <1>5, <1>6, <1>8 DEF ChallengeUsedOnce
<1>14. SecondFactorProven
  <2> SUFFICES ASSUME NEW s \in Calls, session[s].hwk PROVE \E c \in Calls : ProvedFor(c, s)
    BY DEF SecondFactorProven
  <2>1. s \in Earlier BY <1>6, <1>8
  <2>2. ProvedFor(s, s) BY <1>4, <1>5, <2>1 DEF ProvedFor
  <2> QED BY <2>2
<1> QED BY <1>7, <1>9, <1>10, <1>11, <1>12, <1>13, <1>14 DEF IInv

LEMMA NextInv == IInv /\ [Next]_vars => IInv'
PROOF
<1> SUFFICES ASSUME IInv, [Next]_vars PROVE IInv' OBVIOUS
<1>1. ASSUME NEW c \in Calls, Arrive(c) PROVE IInv' BY <1>1, ArriveStep
<1>2. ASSUME NEW c \in Calls, Advance(c) PROVE IInv'
  BY <1>2, LoadStep, FactorsStep, StoreStep, TakeStep, ReadStep, RecordStep, InsertStep, MethodStep,
     DeleteStep, EndStep, StartStep DEF Advance
<1>3. CASE Tick
  <2>1. now' \in 0..MaxTime BY <1>3, SignInAssumption DEF Tick, IInv, TypeOK
  <2> QED BY <1>3, <2>1, RestStep DEF Tick
<1>4. CASE UNCHANGED vars
  <2>1. now' \in 0..MaxTime BY <1>4 DEF vars, IInv, TypeOK
  <2> QED BY <1>4, <2>1, RestStep DEF vars
<1>5. CASE Finished BY <1>4, <1>5 DEF Finished
<1> QED BY <1>1, <1>2, <1>3, <1>4, <1>5 DEF Next

LEMMA Inductive == Spec => []IInv
PROOF BY InitInv, NextInv, PTL DEF Spec

(* Rows, challenges and calls keep to their sets.                          *)
THEOREM TypeCorrect == Spec => []TypeOK
PROOF
<1>1. IInv => TypeOK BY DEF IInv
<1> QED BY <1>1, Inductive, PTL

(* No WebAuthn challenge is taken twice.                                   *)
THEOREM TakenOnce == Spec => []ChallengeUsedOnce
PROOF
<1>1. IInv => ChallengeUsedOnce BY DEF IInv
<1> QED BY <1>1, Inductive, PTL

(* A session that counts as having its second factor was proved to.        *)
THEOREM FactorsProven == Spec => []SecondFactorProven
PROOF
<1>1. IInv => SecondFactorProven BY DEF IInv
<1> QED BY <1>1, Inductive, PTL

(* A removed passkey is of no use to a sign-in that begins later.          *)
THEOREM RemovedIsUseless == Spec => []RemovedSignsNobodyIn
PROOF
<1>1. IInv => RemovedSignsNobodyIn BY DEF IInv, Handler, Proof, RemovedSignsNobodyIn
<1> QED BY <1>1, Inductive, PTL

(* Only the end of a session keeps a call from upgrading it.               *)
THEOREM Upgrades == Spec => AcceptedUpgrades
PROOF
<1> DEFINE Lost == \A c \in Calls : call[c].pc = "method" /\ call'[c].pc = "failed" =>
                      \E d \in Calls : EndedBy(d, call[c].cookie)
<1>1. IInv /\ [Next]_vars => [Lost]_vars
  <2> SUFFICES ASSUME IInv, Next, NEW c \in Calls, call[c].pc = "method", call'[c].pc = "failed"
               PROVE  \E d \in Calls : EndedBy(d, call[c].cookie)
    OBVIOUS
  <2>1. TypeOK /\ Handler(c) BY DEF IInv
  <2>2. ASSUME ~RowExists(call[c].cookie) PROVE \E d \in Calls : EndedBy(d, call[c].cookie)
    BY <2>1, <2>2 DEF Handler, Place, Account, Loading, RowExists
  <2>3. ASSUME NEW d \in Calls, Arrive(d) PROVE FALSE
    <3>1. PICK op, new : Begin(d, op, new)
      BY <2>3 DEF Arrive, Password, PasskeyOptions, WithCookie, Remove, Answer, Register
    <3>2. call[d].pc = "idle" /\ \A x \in Calls \ {d} : call'[x] = call[x] BY <2>1, <3>1 DEF Begin, TypeOK
    <3> QED BY <3>2
  <2>4. ASSUME NEW d \in Calls, Advance(d), d # c PROVE FALSE
    <3>1. call'[c] = call[c]
      BY <2>1, <2>4 DEF Advance, Load, Factors, StoreChallenge, TakeChallenge, ReadPasskeys, RecordUse,
         InsertPasskey, AddMethod, DeletePasskey, EndSession, StartSession, Fail, Go, TypeOK
    <3> QED BY <3>1
  <2>5. CASE Advance(c)
    <3>1. AddMethod(c)
      BY <2>5 DEF Advance, At, Load, Factors, StoreChallenge, TakeChallenge, ReadPasskeys, RecordUse,
         InsertPasskey, DeletePasskey, EndSession, StartSession
    <3>2. CASE RowExists(call[c].cookie)
      <4>1. Go(c, "done") /\ "done" \in Stages BY <3>1, <3>2 DEF AddMethod, Stages
      <4>2. call'[c].pc = "done" BY <2>1, <4>1, GoType
      <4> QED BY <4>2
    <3> QED BY <2>2, <3>2
  <2>6. ~(Tick \/ Finished) BY DEF Tick, Finished, vars
  <2> QED BY <2>3, <2>4, <2>5, <2>6 DEF Next
<1> QED BY <1>1, Inductive, PTL DEF Spec, AcceptedUpgrades

-----------------------------------------------------------------------------
(***************************************************************************)
(* AuthRequests.  A flow call keeps what it loaded while sessions, passkeys*)
(* and requests go on changing: what its grant needs is said of the call,  *)
(* and of what lasts.                                                      *)
(***************************************************************************)
(* What a step of the handlers of SignIn leaves to those who watch it: a   *)
(* call that has ended stays as it is, what was proved stays proved, and a *)
(* credential is dropped only for good.                                    *)
Lasting ==
  /\ \A c \in Calls : call[c].pc = "done" => call'[c] = call[c]
  /\ \A c \in Calls : Keeps(c)
  /\ gone \subseteq gone'
  /\ \A k \in Passkeys : passkey[k].user # None => passkey'[k].user # None \/ k \in gone'

LEMMA ArriveLasts == ASSUME IInv, NEW c \in Calls, Arrive(c) PROVE Lasting /\ now' = now
PROOF
<1>1. PICK op, new : Begin(c, op, new)
  BY DEF Arrive, Password, PasskeyOptions, WithCookie, Remove, Answer, Register
<1>2. /\ call[c].pc = "idle" /\ UNCHANGED <<now, passkey, gone>>
      /\ \A d \in Calls \ {c} : call'[d] = call[d]
  BY <1>1 DEF Begin, IInv, TypeOK
<1>3. ~call[c].proved BY <1>2 DEF IInv, Handler, Proof
<1> QED BY <1>2, <1>3 DEF Lasting, Keeps

LEMMA AdvanceLasts == ASSUME IInv, NEW c \in Calls, Advance(c) PROVE Lasting /\ now' = now
PROOF
<1>1. /\ TypeOK /\ call[c] \in CallState /\ Proof(c)
  BY CallType DEF IInv, Handler
<1>2. /\ now' = now /\ call[c].pc # "done"
      /\ \A d \in Calls \ {c} : call'[d] = call[d]
  BY <1>1 DEF Advance, Load, Factors, StoreChallenge, TakeChallenge, ReadPasskeys, RecordUse, InsertPasskey,
     AddMethod, DeletePasskey, EndSession, StartSession, Fail, Go, At, TypeOK
<1>3. Keeps(c)
  <2>1. CASE TakeChallenge(c)
    <3>1. ~call[c].proved BY <1>1, <2>1 DEF TakeChallenge, At, Proof
    <3> QED BY <3>1 DEF Keeps
  <2>2. CASE ReadPasskeys(c) BY <1>1, <2>2 DEF ReadPasskeys, Keeps, TypeOK, CallState
  <2>3. CASE Load(c) \/ Factors(c) \/ StoreChallenge(c)
    BY <1>1, <2>3 DEF Load, Factors, StoreChallenge, Fail, Go, Keeps, TypeOK, CallState
  <2>4. CASE RecordUse(c) \/ InsertPasskey(c) \/ AddMethod(c)
    BY <1>1, <2>4 DEF RecordUse, InsertPasskey, AddMethod, Fail, Go, Keeps, TypeOK, CallState
  <2>5. CASE DeletePasskey(c) \/ EndSession(c) \/ StartSession(c)
    BY <1>1, <2>5 DEF DeletePasskey, EndSession, StartSession, Fail, Go, Keeps, TypeOK, CallState
  <2> QED BY <2>1, <2>2, <2>3, <2>4, <2>5 DEF Advance
<1>4. gone \subseteq gone' /\ \A k \in Passkeys : passkey[k].user # None => passkey'[k].user # None \/ k \in gone'
  <2>1. CASE RecordUse(c) BY <1>1, <2>1 DEF RecordUse, TypeOK, PasskeyRow
  <2>2. CASE InsertPasskey(c) BY <1>1, <2>2 DEF InsertPasskey, TypeOK
  <2>3. CASE DeletePasskey(c) BY <1>1, <2>3 DEF DeletePasskey, PasskeysWithout, TypeOK
  <2>4. CASE UNCHANGED <<passkey, gone>> BY <2>4
  <2> QED BY <2>1, <2>2, <2>3, <2>4 DEF Advance, Load, Factors, StoreChallenge, TakeChallenge, ReadPasskeys,
          AddMethod, EndSession, StartSession
<1>5. \A d \in Calls \ {c} : Keeps(d) BY <1>2 DEF Keeps
<1> QED BY <1>2, <1>3, <1>4, <1>5 DEF Lasting

LEMMA StillLasts == ASSUME UNCHANGED <<passkey, gone, call>> PROVE Lasting
PROOF
  BY DEF Lasting, Keeps

-----------------------------------------------------------------------------
(* A passkey of the user whose session this flow call loaded answered a    *)
(* challenge in that session.                                              *)
ProvedTo(c, f) ==
  /\ call[c].proved /\ Handle[call[c].key] = flow[f].user
  /\ \/ call[c].op = "passkey" /\ c = flow[f].cookie
     \/ call[c].op \in {"factor", "register"} /\ call[c].cookie = flow[f].cookie

(* What the position of a flow call says about what it has read.           *)
FlowPlace(f) ==
  LET me == flow[f] IN
  /\ me.pc # "idle" => me.req \in Requests /\ me.op \in {"get", "complete", "deny"} /\ shown[me.req] = "sign_in"
  /\ me.pc = "delete" => me.op = "deny"
  /\ me.pc \in {"session", "factors"} => me.op \in {"get", "complete"}
  /\ me.pc = "commit" => me.op = "complete"
  /\ me.pc \in {"session", "factors", "commit"} => me.params \in ParkedRequest
  /\ me.pc \in {"factors", "commit"} => me.cookie \in Calls /\ me.user \in Users

(* A passkey that the account had when the call began is still there, or   *)
(* was removed for good; a loaded second factor was proved.                *)
FlowSaw(f) ==
  LET me == flow[f] IN
  /\ \A k \in me.had : passkey[k].user # None \/ k \in gone
  /\ me.hwk => \E c \in Calls : ProvedTo(c, f)

(* What evaluate found before it let a call go on to its commit.           *)
Judged(f) ==
  LET me == flow[f] IN
  /\ NeedsMfa(me.params) => me.hwk
  /\ me.params.step_up => me.at - me.auth <= me.params.max_age
  /\ me.params.client \notin FirstParty => me.consent
  /\ ~me.hwk => \A k \in me.had : Handle[k] = me.user => k \in gone

(* A grant is the record of the call that inserted it.                     *)
Recorded(f) ==
  LET me == flow[f] IN
  /\ me.pc = "done" /\ me.params \in ParkedRequest /\ me.cookie \in Calls
  /\ grant[f].user = me.user /\ grant[f].acr = Acr(me) /\ grant[f].auth = me.auth
  /\ grant[f].scope = me.params.scope /\ grant[f].resource = me.params.resource
  /\ grant[f].had # {} => me.hwk

FlowGrants(f) ==
  /\ flow[f].pc = "commit" => Judged(f)
  /\ grant[f] # None => Judged(f) /\ Recorded(f)

(* An answered request is gone, and a call that begins later finds none.   *)
FlowAnswers(f) ==
  LET me == flow[f] IN
  /\ me.op \in {"complete", "deny"} /\ me.pc = "done" => parked[me.req] = None
  /\ me.late => me.pc \in {"load", "failed"} /\ grant[f] = None /\ parked[me.req] = None

FlowHandler(f) == FlowPlace(f) /\ FlowSaw(f) /\ FlowGrants(f) /\ FlowAnswers(f)

FlowInv == IInv /\ FlowTypeOK /\ \A f \in FlowCalls : FlowHandler(f)

-----------------------------------------------------------------------------
LEMMA FlowType ==
  ASSUME FlowTypeOK, NEW f \in FlowCalls
  PROVE  /\ flow[f] \in FlowState
         /\ flow[f].pc \in {"idle", "load", "session", "factors", "delete", "commit", "done", "failed"}
         /\ flow[f].op \in {"get", "complete", "deny", None}
         /\ flow[f].req \in Requests \cup {None} /\ flow[f].cookie \in Calls \cup {None}
         /\ flow[f].consent \in BOOLEAN /\ flow[f].params \in ParkedRequest \cup {None}
         /\ flow[f].user \in Users \cup {None} /\ flow[f].hwk \in BOOLEAN /\ flow[f].auth \in Int
         /\ flow[f].next \in Nexts \cup {None} /\ flow[f].at \in Int /\ flow[f].late \in BOOLEAN
         /\ flow[f].had \in SUBSET Passkeys
PROOF
  BY DEF FlowTypeOK, FlowState

LEMMA NoFlowType == NoFlow \in FlowState
PROOF
  BY DEF NoFlow, FlowState

(* A step that sets the record of one flow call.                           *)
Sets(f, new) ==
  /\ flow' \in [FlowCalls -> FlowState] /\ flow'[f] = new
  /\ \A g \in FlowCalls \ {f} : flow'[g] = flow[g]

LEMMA FlowSet ==
  ASSUME FlowTypeOK, NEW f \in FlowCalls, NEW new \in FlowState, flow' = [flow EXCEPT ![f] = new]
  PROVE  Sets(f, new)
PROOF
  BY DEF FlowTypeOK, Sets

LEMMA FlowGoes ==
  ASSUME FlowTypeOK, NEW f \in FlowCalls, NEW stage \in {"load", "session", "factors", "delete", "commit", "done", "failed"},
         FlowGo(f, stage)
  PROVE  Sets(f, [flow[f] EXCEPT !.pc = stage]) /\ [flow[f] EXCEPT !.pc = stage] \in FlowState
PROOF
<1>1. flow[f] \in FlowState BY FlowType
<1>2. [flow[f] EXCEPT !.pc = stage] \in FlowState BY <1>1 DEF FlowState
<1>3. flow' = [flow EXCEPT ![f] = [flow[f] EXCEPT !.pc = stage]] BY DEF FlowGo
<1> QED BY <1>2, <1>3, FlowSet

(* Rows of auth_requests are only deleted once the request is shown.       *)
Parks ==
  \A r \in Requests : shown[r] = "sign_in" => shown'[r] = "sign_in" /\ (parked[r] = None => parked'[r] = None)

(* A flow call that does not take part in a step.                          *)
LEMMA Bystander ==
  ASSUME FlowInv, NEW g \in FlowCalls, flow'[g] = flow[g], grant'[g] = grant[g], Lasting, Parks
  PROVE  FlowHandler(g)'
PROOF
<1>1. FlowHandler(g) /\ FlowTypeOK BY DEF FlowInv
<1>2. FlowPlace(g)' BY <1>1 DEF FlowHandler, FlowPlace, Parks
<1>3. FlowSaw(g)'
  <2>1. \A k \in flow[g].had : passkey'[k].user # None \/ k \in gone'
    <3>1. flow[g].had \subseteq Passkeys BY <1>1, FlowType
    <3> QED BY <1>1, <3>1 DEF FlowHandler, FlowSaw, Lasting
  <2>2. ASSUME NEW c \in Calls, ProvedTo(c, g) PROVE ProvedTo(c, g)'
    BY <2>2 DEF ProvedTo, Lasting, Keeps
  <2> QED BY <1>1, <2>1, <2>2 DEF FlowHandler, FlowSaw
<1>4. FlowGrants(g)'
  <2>1. Judged(g) => Judged(g)'
    <3>1. gone \subseteq gone' BY DEF Lasting
    <3> QED BY <3>1 DEF Judged
  <2>2. Recorded(g) => Recorded(g)' BY DEF Recorded, Acr
  <2> QED BY <1>1, <2>1, <2>2 DEF FlowHandler, FlowGrants
<1>5. FlowAnswers(g)'
  <2>1. flow[g].pc # "idle" => flow[g].req \in Requests /\ shown[flow[g].req] = "sign_in"
    BY <1>1 DEF FlowHandler, FlowPlace
  <2> QED BY <1>1, <2>1 DEF FlowHandler, FlowAnswers, Parks
<1> QED BY <1>2, <1>3, <1>4, <1>5 DEF FlowHandler

(* A step of one flow call.                                                *)
LEMMA FlowStepInv ==
  ASSUME FlowInv, NEW f \in FlowCalls, UNCHANGED <<vars, shown>>, FlowTypeOK', Parks,
         \A g \in FlowCalls \ {f} : flow'[g] = flow[g] /\ grant'[g] = grant[g],
         FlowHandler(f)'
  PROVE  FlowInv'
PROOF
<1>1. IInv'
  <2>1. IInv /\ [Next]_vars BY DEF FlowInv
  <2> QED BY <2>1, NextInv
<1>2. Lasting BY StillLasts DEF vars
<1>3. \A g \in FlowCalls \ {f} : FlowHandler(g)' BY <1>2, Bystander
<1> QED BY <1>1, <1>3 DEF FlowInv

LEMMA BeginFlowStep ==
  ASSUME FlowInv, NEW f \in FlowCalls, NEW op \in {"get", "complete", "deny"}, NEW r \in Requests,
         NEW s \in Calls \cup {None}, NEW consent \in BOOLEAN, BeginFlow(f, op, r, s, consent)
  PROVE  FlowInv'
PROOF
<1> DEFINE late == Answered(r)
           had == {k \in Passkeys : passkey[k].user # None}
           new == [NoFlow EXCEPT !.pc = "load", !.op = op, !.req = r, !.cookie = s, !.consent = consent,
                                 !.late = late, !.had = had]
<1>1. FlowTypeOK /\ FlowHandler(f) BY DEF FlowInv
<1>2. /\ flow[f].pc = "idle" /\ shown[r] = "sign_in" /\ flow' = [flow EXCEPT ![f] = new]
      /\ UNCHANGED <<vars, parked, shown, grant>>
  BY DEF BeginFlow, FlowAt
<1>3. late \in BOOLEAN /\ had \in SUBSET Passkeys BY DEF Answered
<1>4. late => parked[r] = None
  BY DEF Answered, FlowAt, FlowInv, FlowHandler, FlowAnswers
<1>5. \A k \in had : passkey[k].user # None OBVIOUS
<1> HIDE DEF late, had
<1>6. /\ new \in FlowState /\ new.pc = "load" /\ new.op = op /\ new.req = r /\ new.late = late
      /\ new.had = had /\ ~new.hwk
  <2>1. NoFlow \in FlowState /\ ~NoFlow.hwk BY NoFlowType DEF NoFlow
  <2>2. new \in FlowState BY <1>3, <2>1 DEF FlowState
  <2> QED BY <2>1, <2>2 DEF FlowState
<1> HIDE DEF new
<1>7. Sets(f, new) BY <1>1, <1>2, <1>6, FlowSet
<1>8. FlowTypeOK' BY <1>1, <1>2, <1>7 DEF FlowTypeOK, Sets
<1>9. grant'[f] = None BY <1>1, <1>2 DEF FlowHandler, FlowGrants, Recorded
<1>10. FlowPlace(f)' BY <1>2, <1>6, <1>7 DEF FlowPlace, Sets
<1>11. FlowSaw(f)' BY <1>2, <1>5, <1>6, <1>7 DEF FlowSaw, Sets, vars
<1>12. FlowGrants(f)' BY <1>6, <1>7, <1>9 DEF FlowGrants, Sets
<1>13. FlowAnswers(f)' BY <1>2, <1>4, <1>6, <1>7, <1>9 DEF FlowAnswers, Sets
<1> QED BY <1>2, <1>7, <1>8, <1>10, <1>11, <1>12, <1>13, FlowStepInv DEF FlowHandler, Sets, Parks

LEMMA LoadRequestStep == ASSUME FlowInv, NEW f \in FlowCalls, LoadRequest(f) PROVE FlowInv'
PROOF
<1> DEFINE me == flow[f]
           r == me.req
           p == parked[r].params
           stage == IF me.op = "deny" THEN "delete" ELSE "session"
<1>1. /\ FlowTypeOK /\ FlowHandler(f) /\ me.pc = "load" /\ UNCHANGED <<vars, parked, shown, grant>>
      /\ me \in FlowState /\ r \in Requests /\ me.op \in {"get", "complete", "deny"}
      /\ shown[r] = "sign_in" /\ grant[f] = None
  BY FlowType DEF FlowInv, LoadRequest, FlowAt, FlowHandler, FlowPlace, FlowGrants, Recorded
<1>2. CASE ~(parked[r] # None /\ parked[r].expires > now)
  <2>1. Sets(f, [me EXCEPT !.pc = "failed"])
    BY <1>1, <1>2, FlowGoes DEF LoadRequest
  <2> DEFINE new == [me EXCEPT !.pc = "failed"]
  <2>2. /\ new.pc = "failed" /\ new.op = me.op /\ new.req = me.req /\ new.late = me.late
        /\ new.had = me.had /\ new.hwk = me.hwk /\ new.user = me.user /\ new.cookie = me.cookie
    BY <1>1 DEF FlowState
  <2> HIDE DEF new
  <2>3. FlowTypeOK' BY <1>1, <2>1 DEF FlowTypeOK, Sets
  <2>4. FlowPlace(f)' BY <1>1, <2>1, <2>2 DEF FlowHandler, FlowPlace, Sets, new
  <2>5. FlowSaw(f)' BY <1>1, <2>1, <2>2 DEF FlowHandler, FlowSaw, ProvedTo, Sets, new, vars
  <2>6. FlowGrants(f)' BY <1>1, <2>1, <2>2 DEF FlowGrants, Sets, new
  <2>7. FlowAnswers(f)' BY <1>1, <2>1, <2>2 DEF FlowHandler, FlowAnswers, Sets, new
  <2> QED BY <1>1, <2>1, <2>3, <2>4, <2>5, <2>6, <2>7, FlowStepInv DEF FlowHandler, Sets, Parks
<1>3. CASE parked[r] # None /\ parked[r].expires > now
  <2> DEFINE new == [me EXCEPT !.params = p, !.pc = stage]
  <2>1. p \in ParkedRequest /\ ~me.late
    BY <1>1, <1>3 DEF FlowTypeOK, FlowHandler, FlowAnswers
  <2>2. stage \in {"delete", "session"} /\ (stage = "delete" => me.op = "deny") /\ (stage = "session" => me.op # "deny")
    OBVIOUS
  <2>3. flow' = [flow EXCEPT ![f] = new] BY <1>1, <1>3 DEF LoadRequest
  <2> HIDE DEF stage, p
  <2>4. /\ new \in FlowState /\ new.pc = stage /\ new.op = me.op /\ new.req = me.req /\ new.late = me.late
        /\ new.had = me.had /\ new.hwk = me.hwk /\ new.user = me.user /\ new.cookie = me.cookie
        /\ new.params = p
    BY <1>1, <2>1, <2>2 DEF FlowState
  <2> HIDE DEF new
  <2>5. Sets(f, new) BY <1>1, <2>3, <2>4, FlowSet
  <2>6. FlowTypeOK' BY <1>1, <2>5 DEF FlowTypeOK, Sets
  <2>7. FlowPlace(f)' BY <1>1, <2>1, <2>2, <2>4, <2>5 DEF FlowHandler, FlowPlace, Sets
  <2>8. FlowSaw(f)' BY <1>1, <2>4, <2>5 DEF FlowHandler, FlowSaw, ProvedTo, Sets, vars
  <2>9. FlowGrants(f)' BY <1>1, <2>2, <2>4, <2>5 DEF FlowGrants, Sets
  <2>10. FlowAnswers(f)' BY <1>1, <2>1, <2>2, <2>4, <2>5 DEF FlowHandler, FlowAnswers, Sets
  <2> QED BY <1>1, <2>5, <2>6, <2>7, <2>8, <2>9, <2>10, FlowStepInv DEF FlowHandler, Sets, Parks
<1> QED BY <1>2, <1>3

LEMMA LoadSessionStep == ASSUME FlowInv, NEW f \in FlowCalls, LoadSession(f) PROVE FlowInv'
PROOF
<1> DEFINE me == flow[f]
           s == me.cookie
<1>1. /\ FlowTypeOK /\ FlowHandler(f) /\ me.pc = "session" /\ UNCHANGED <<vars, parked, shown, grant>>
      /\ me \in FlowState /\ me.req \in Requests /\ me.op \in {"get", "complete"}
      /\ shown[me.req] = "sign_in" /\ grant[f] = None /\ ~me.late /\ me.params \in ParkedRequest
      /\ s \in Calls \cup {None}
  BY FlowType DEF FlowInv, LoadSession, FlowAt, FlowHandler, FlowPlace, FlowGrants, Recorded, FlowAnswers
<1>2. CASE ~(s # None /\ Live(s))
  <2> DEFINE stage == IF me.op = "get" THEN "done" ELSE "failed"
             new == [me EXCEPT !.next = "sign_in", !.pc = stage]
  <2>1. stage \in {"done", "failed"} /\ (stage = "done" => me.op = "get") OBVIOUS
  <2>2. flow' = [flow EXCEPT ![f] = new] BY <1>1, <1>2 DEF LoadSession
  <2> HIDE DEF stage
  <2>3. /\ new \in FlowState /\ new.pc = stage /\ new.op = me.op /\ new.req = me.req /\ new.late = me.late
        /\ new.had = me.had /\ new.hwk = me.hwk /\ new.user = me.user /\ new.cookie = me.cookie
    BY <1>1, <2>1 DEF FlowState, Nexts
  <2> HIDE DEF new
  <2>4. Sets(f, new) BY <1>1, <2>2, <2>3, FlowSet
  <2>5. FlowTypeOK' BY <1>1, <2>4 DEF FlowTypeOK, Sets
  <2>6. FlowPlace(f)' BY <1>1, <2>1, <2>3, <2>4 DEF FlowHandler, FlowPlace, Sets
  <2>7. FlowSaw(f)' BY <1>1, <2>3, <2>4 DEF FlowHandler, FlowSaw, ProvedTo, Sets, vars
  <2>8. FlowGrants(f)' BY <1>1, <2>1, <2>3, <2>4 DEF FlowGrants, Sets
  <2>9. FlowAnswers(f)' BY <1>1, <2>1, <2>3, <2>4 DEF FlowAnswers, Sets
  <2> QED BY <1>1, <2>4, <2>5, <2>6, <2>7, <2>8, <2>9, FlowStepInv DEF FlowHandler, Sets, Parks
<1>3. CASE s # None /\ Live(s)
  <2> DEFINE u == session[s].user
             h == session[s].hwk
             a == session[s].auth
             new == [me EXCEPT !.pc = "factors", !.user = u, !.hwk = h, !.auth = a]
  <2>1. s \in Calls /\ u \in Users /\ h \in BOOLEAN /\ a \in Int
    BY <1>1, <1>3, RowType DEF Live, FlowInv, IInv
  <2>2. h => \E c \in Calls : ProvedFor(c, s) BY <2>1 DEF FlowInv, IInv, SecondFactorProven
  <2>3. flow' = [flow EXCEPT ![f] = new] BY <1>1, <1>3 DEF LoadSession
  <2> HIDE DEF h, a
  <2>4. /\ new \in FlowState /\ new.pc = "factors" /\ new.op = me.op /\ new.req = me.req /\ new.late = me.late
        /\ new.had = me.had /\ new.hwk = h /\ new.user = u /\ new.cookie = s /\ new.params = me.params
    BY <1>1, <2>1 DEF FlowState
  <2> HIDE DEF new
  <2>5. Sets(f, new) BY <1>1, <2>3, <2>4, FlowSet
  <2>6. FlowTypeOK' BY <1>1, <2>5 DEF FlowTypeOK, Sets
  <2>7. FlowPlace(f)' BY <1>1, <2>1, <2>4, <2>5 DEF FlowPlace, Sets
  <2>8. FlowSaw(f)'
    <3>1. ASSUME NEW c \in Calls, ProvedFor(c, s) PROVE ProvedTo(c, f)'
      BY <1>1, <2>4, <2>5, <3>1 DEF ProvedFor, ProvedTo, Sets, vars
    <3> QED BY <1>1, <2>2, <2>4, <2>5, <3>1 DEF FlowHandler, FlowSaw, Sets, vars
  <2>9. FlowGrants(f)' BY <1>1, <2>4, <2>5 DEF FlowGrants, Sets
  <2>10. FlowAnswers(f)' BY <1>1, <2>4, <2>5 DEF FlowAnswers, Sets
  <2> QED BY <1>1, <2>5, <2>6, <2>7, <2>8, <2>9, <2>10, FlowStepInv DEF FlowHandler, Sets, Parks
<1> QED BY <1>2, <1>3

(* What decide lets through.                                               *)
LEMMA DecideAllows ==
  ASSUME NEW p \in ParkedRequest, NEW me \in FlowState, NEW has \in BOOLEAN, NEW time \in Int,
         Approved(me, Decide(p, me, has, time))
  PROVE  /\ NeedsMfa(p) => me.hwk
         /\ p.step_up => time - me.auth <= p.max_age
         /\ p.client \notin FirstParty => me.consent
         /\ has => me.hwk
PROOF
<1>1. p.step_up \in BOOLEAN /\ me.hwk \in BOOLEAN /\ (p.step_up => NeedsMfa(p))
  BY DEF ParkedRequest, FlowState, NeedsMfa
<1> QED BY <1>1 DEF Decide, Approved, Fresh

LEMMA EvaluateStep == ASSUME FlowInv, NEW f \in FlowCalls, Evaluate(f) PROVE FlowInv'
PROOF
<1> DEFINE me == flow[f]
           next == Decide(me.params, me, KeysOf(me.user) # {}, now)
           stage == IF me.op = "get" THEN "done" ELSE IF Approved(me, next) THEN "commit" ELSE "failed"
           new == [me EXCEPT !.next = next, !.at = now, !.pc = stage]
<1>1. /\ FlowTypeOK /\ FlowHandler(f) /\ me.pc = "factors" /\ UNCHANGED <<vars, parked, shown, grant>>
      /\ me \in FlowState /\ me.req \in Requests /\ me.op \in {"get", "complete"}
      /\ shown[me.req] = "sign_in" /\ grant[f] = None /\ ~me.late /\ me.params \in ParkedRequest
      /\ me.cookie \in Calls /\ me.user \in Users /\ me.had \subseteq Passkeys
  BY FlowType DEF FlowInv, Evaluate, FlowAt, FlowHandler, FlowPlace, FlowGrants, Recorded, FlowAnswers
<1>2. next \in Nexts BY DEF Decide, Nexts
<1>3. flow' = [flow EXCEPT ![f] = new]
  <2>1. flow' = [flow EXCEPT ![f].next = next, ![f].at = now, ![f].pc = stage] BY Zenon DEF Evaluate
  <2> QED BY <2>1
<1> HIDE DEF next
<1>4. /\ stage \in {"done", "commit", "failed"} /\ (stage = "done" => me.op = "get")
      /\ (stage = "commit" => me.op = "complete" /\ Approved(me, next))
  BY <1>1
<1>5. now \in Int BY DEF FlowInv, IInv, TypeOK
<1>6. stage = "commit" =>
      /\ NeedsMfa(me.params) => me.hwk
      /\ me.params.step_up => now - me.auth <= me.params.max_age
      /\ me.params.client \notin FirstParty => me.consent
      /\ KeysOf(me.user) # {} => me.hwk
  BY <1>1, <1>4, <1>5, DecideAllows DEF next
<1> HIDE DEF stage
<1>7. /\ new \in FlowState /\ new.pc = stage /\ new.op = me.op /\ new.req = me.req /\ new.late = me.late
      /\ new.had = me.had /\ new.hwk = me.hwk /\ new.user = me.user /\ new.cookie = me.cookie
      /\ new.params = me.params /\ new.at = now /\ new.auth = me.auth /\ new.consent = me.consent
  BY <1>1, <1>2, <1>4, <1>5 DEF FlowState
<1> HIDE DEF new
<1>8. Sets(f, new) BY <1>1, <1>3, <1>7, FlowSet
<1>9. FlowTypeOK' BY <1>1, <1>8 DEF FlowTypeOK, Sets
<1>10. FlowPlace(f)' BY <1>1, <1>4, <1>7, <1>8 DEF FlowPlace, Sets
<1>11. FlowSaw(f)' BY <1>1, <1>7, <1>8 DEF FlowHandler, FlowSaw, ProvedTo, Sets, vars
<1>12. FlowGrants(f)'
  <2>1. ASSUME stage = "commit", ~me.hwk, NEW k \in me.had, Handle[k] = me.user PROVE k \in gone
    <3>1. KeysOf(me.user) = {} BY <1>6, <2>1
    <3>2. k \in Passkeys /\ (passkey[k].user # None \/ k \in gone)
      BY <1>1, <2>1 DEF FlowHandler, FlowSaw
    <3>3. passkey[k].user \in {Handle[k], None} BY <3>2 DEF FlowInv, IInv, Owned
    <3> QED BY <2>1, <3>1, <3>2, <3>3 DEF KeysOf
  <2>2. stage = "commit" => Judged(f)' BY <1>1, <1>6, <1>7, <1>8, <2>1 DEF Judged, Sets, vars
  <2> QED BY <1>1, <1>7, <1>8, <2>2 DEF FlowGrants, Sets
<1>13. FlowAnswers(f)' BY <1>1, <1>4, <1>7, <1>8 DEF FlowAnswers, Sets
<1> QED BY <1>1, <1>8, <1>9, <1>10, <1>11, <1>12, <1>13, FlowStepInv DEF FlowHandler, Sets, Parks

(* The last step of a flow call: its request is deleted.                   *)
LEMMA EndsStep ==
  ASSUME FlowInv, NEW f \in FlowCalls, flow[f].pc \in {"commit", "delete"},
         UNCHANGED <<vars, shown>>, FlowGo(f, "done"), parked' = DeleteParked(flow[f].req),
         grant' \in [FlowCalls -> [req : Requests, user : Users, acr : {"pwd", "mfa"}, auth : Int,
                                   scope : SUBSET UNION {Scopes[r] : r \in Resources}, resource : Resources,
                                   had : SUBSET Passkeys] \cup {None}],
         \A g \in FlowCalls \ {f} : grant'[g] = grant[g],
         grant'[f] # None => Judged(f) /\ Recorded(f)'
  PROVE  FlowInv'
PROOF
<1> DEFINE me == flow[f]
           new == [me EXCEPT !.pc = "done"]
<1>1. /\ FlowTypeOK /\ FlowHandler(f) /\ me \in FlowState /\ me.req \in Requests /\ ~me.late
      /\ me.op \in {"get", "complete", "deny"} /\ shown[me.req] = "sign_in"
  BY FlowType DEF FlowInv, FlowHandler, FlowPlace, FlowAnswers
<1>2. Sets(f, new) /\ new \in FlowState BY <1>1, FlowGoes
<1>3. /\ new.pc = "done" /\ new.op = me.op /\ new.req = me.req /\ new.late = me.late
      /\ new.had = me.had /\ new.hwk = me.hwk /\ new.user = me.user /\ new.cookie = me.cookie
      /\ new.params = me.params /\ new.at = me.at /\ new.auth = me.auth /\ new.consent = me.consent
  BY <1>1 DEF FlowState
<1> HIDE DEF new
<1>4. parked' = [parked EXCEPT ![me.req] = None] BY DEF DeleteParked
<1>5. parked'[me.req] = None /\ \A r \in Requests : parked[r] = None => parked'[r] = None
  BY <1>1, <1>4 DEF FlowTypeOK
<1>6. FlowTypeOK' BY <1>1, <1>2, <1>4 DEF FlowTypeOK, Sets
<1>7. FlowPlace(f)' BY <1>1, <1>2, <1>3 DEF FlowPlace, Sets
<1>8. FlowSaw(f)' BY <1>1, <1>2, <1>3 DEF FlowHandler, FlowSaw, ProvedTo, Sets, vars
<1>9. FlowGrants(f)'
  <2>1. Judged(f) => Judged(f)' BY <1>2, <1>3 DEF Judged, Sets, vars
  <2> QED BY <1>2, <1>3, <2>1 DEF FlowGrants, Sets
<1>10. FlowAnswers(f)' BY <1>1, <1>2, <1>3, <1>5 DEF FlowAnswers, Sets
<1> QED BY <1>2, <1>5, <1>6, <1>7, <1>8, <1>9, <1>10, FlowStepInv DEF FlowHandler, Sets, Parks

LEMMA CommitGrantStep == ASSUME FlowInv, NEW f \in FlowCalls, CommitGrant(f) PROVE FlowInv'
PROOF
<1> DEFINE me == flow[f]
           had == me.had \cap KeysOf(me.user)
           row == [req |-> me.req, user |-> me.user, acr |-> Acr(me), auth |-> me.auth,
                   scope |-> me.params.scope, resource |-> me.params.resource, had |-> had]
<1>1. /\ FlowTypeOK /\ FlowHandler(f) /\ me.pc = "commit" /\ me \in FlowState /\ me.req \in Requests
      /\ me.params \in ParkedRequest /\ me.cookie \in Calls /\ me.user \in Users /\ me.had \subseteq Passkeys
      /\ me.auth \in Int /\ Judged(f)
  BY FlowType DEF FlowInv, CommitGrant, FlowAt, FlowHandler, FlowPlace, FlowGrants
<1>2. /\ grant' = [grant EXCEPT ![f] = row] /\ FlowGo(f, "done") /\ UNCHANGED <<vars, shown>>
      /\ parked' = DeleteParked(me.req)
  BY DEF CommitGrant
<1>3. Acr(me) \in {"pwd", "mfa"} BY DEF Acr
<1>4. row \in [req : Requests, user : Users, acr : {"pwd", "mfa"}, auth : Int,
               scope : SUBSET UNION {Scopes[r] : r \in Resources}, resource : Resources, had : SUBSET Passkeys]
  BY <1>1, <1>3 DEF ParkedRequest
<1>5. had # {} => me.hwk
  <2>1. SUFFICES ASSUME ~me.hwk, NEW k \in had PROVE FALSE OBVIOUS
  <2>2. k \in Passkeys /\ passkey[k].user = me.user BY DEF KeysOf
  <2>3. /\ passkey[k].user \in {Handle[k], None} /\ (k \in gone => passkey[k].user = None)
    BY <2>2 DEF FlowInv, IInv, Owned
  <2>4. me.user # None BY <1>1, SignInAssumption
  <2> QED BY <1>1, <2>1, <2>2, <2>3, <2>4 DEF Judged
<1>6. Sets(f, [me EXCEPT !.pc = "done"]) BY <1>1, <1>2, FlowGoes
<1>7. /\ [me EXCEPT !.pc = "done"].pc = "done" /\ [me EXCEPT !.pc = "done"].params = me.params
      /\ [me EXCEPT !.pc = "done"].cookie = me.cookie /\ [me EXCEPT !.pc = "done"].user = me.user
      /\ [me EXCEPT !.pc = "done"].hwk = me.hwk /\ [me EXCEPT !.pc = "done"].auth = me.auth
  BY <1>1 DEF FlowState
<1>8. grant'[f] = row /\ \A g \in FlowCalls \ {f} : grant'[g] = grant[g] BY <1>1, <1>2 DEF FlowTypeOK
<1>9. Recorded(f)' BY <1>1, <1>5, <1>6, <1>7, <1>8 DEF Recorded, Sets, Acr
<1> HIDE DEF row
<1> QED BY <1>1, <1>2, <1>4, <1>8, <1>9, EndsStep DEF FlowTypeOK

LEMMA DeleteRequestStep == ASSUME FlowInv, NEW f \in FlowCalls, DeleteRequest(f) PROVE FlowInv'
PROOF
<1>1. /\ flow[f].pc = "delete" /\ FlowGo(f, "done") /\ UNCHANGED <<vars, shown, grant>>
      /\ parked' = DeleteParked(flow[f].req)
  BY DEF DeleteRequest, FlowAt
<1>2. FlowTypeOK /\ grant[f] = None BY <1>1 DEF FlowInv, FlowHandler, FlowGrants, Recorded
<1> QED BY <1>1, <1>2, EndsStep DEF FlowTypeOK

(* What /authorize parks.                                                  *)
LEMMA ParksTyped ==
  ASSUME NEW q \in Queries, Shown(q) = "sign_in"
  PROVE  [client |-> q.client, resource |-> ResourceOf(q), scope |-> Requested(q),
          step_up |-> q.step_up, max_age |-> MaxAge(q)] \in ParkedRequest
PROOF
<1>1. q \in Query BY AuthRequestsAssumption
<1>2. /\ q.client \in Clients \cup {None} /\ q.step_up \in BOOLEAN /\ q.max_age \in Nat \cup {None}
      /\ q.scope \in SUBSET UNION {Scopes[r] : r \in Resources}
  BY <1>1 DEF Query
<1>3. q.client # None /\ ResourceOf(q) \in Resources BY DEF Shown
<1>4. Requested(q) \in SUBSET UNION {Scopes[r] : r \in Resources}
  BY <1>2, <1>3, AuthRequestsAssumption DEF Requested
<1>5. MaxAge(q) \in Nat BY <1>2, SignInAssumption DEF MaxAge
<1> QED BY <1>2, <1>3, <1>4, <1>5 DEF ParkedRequest

LEMMA AuthorizeStep == ASSUME FlowInv, NEW r \in Requests, Authorize(r) PROVE FlowInv'
PROOF
<1>1. FlowTypeOK /\ IInv BY DEF FlowInv
<1>2. PICK q \in Queries :
        /\ shown[r] = "no" /\ shown' = [shown EXCEPT ![r] = Shown(q)]
        /\ IF Shown(q) = "sign_in"
           THEN parked' = [parked EXCEPT ![r] =
                  [params |-> [client |-> q.client, resource |-> ResourceOf(q), scope |-> Requested(q),
                               step_up |-> q.step_up, max_age |-> MaxAge(q)],
                   expires |-> now + RequestTTL]]
           ELSE UNCHANGED parked
        /\ UNCHANGED <<vars, flow, grant>>
  BY Zenon DEF Authorize
<1>3. Shown(q) \in {"error_page", "error_redirect", "sign_in"} BY DEF Shown
<1>4. now + RequestTTL \in Int BY <1>1, AuthRequestsAssumption DEF IInv, TypeOK
<1>5. parked' \in [Requests -> [params : ParkedRequest, expires : Int] \cup {None}]
  BY <1>1, <1>2, <1>4, ParksTyped DEF FlowTypeOK
<1>6. \A x \in Requests \ {r} : parked'[x] = parked[x] BY <1>1, <1>2 DEF FlowTypeOK
<1>7. FlowTypeOK'
  <2>1. shown' \in [Requests -> {"no", "error_page", "error_redirect", "sign_in"}]
    BY <1>1, <1>2, <1>3 DEF FlowTypeOK
  <2> QED BY <1>1, <1>2, <1>5, <2>1 DEF FlowTypeOK
<1>8. Parks BY <1>1, <1>2, <1>6 DEF Parks, FlowTypeOK
<1>9. Lasting BY <1>2, StillLasts DEF vars
<1>10. \A g \in FlowCalls : FlowHandler(g)' BY <1>2, <1>8, <1>9, Bystander
<1>11. IInv' BY <1>1, <1>2, NextInv
<1> QED BY <1>7, <1>10, <1>11 DEF FlowInv

(* The handlers of SignIn, and the clock.                                  *)
LEMMA SignInStepLasts == ASSUME IInv, SignInStep PROVE Lasting /\ [Next]_vars
PROOF
<1>1. CASE \E c \in Calls : Arrive(c) BY <1>1, ArriveLasts DEF Next
<1>2. CASE \E c \in Calls : Advance(c) BY <1>2, AdvanceLasts DEF Next
<1>3. CASE Tick BY <1>3, StillLasts DEF Tick, Next
<1> QED BY <1>1, <1>2, <1>3 DEF SignInStep

LEMMA SignInFlowStep == ASSUME FlowInv, SignInStep PROVE FlowInv'
PROOF
<1>1. IInv /\ FlowTypeOK BY DEF FlowInv
<1>2. UNCHANGED flowVars BY DEF SignInStep
<1>3. Lasting /\ IInv' BY <1>1, SignInStepLasts, NextInv
<1>4. FlowTypeOK' BY <1>1, <1>2 DEF FlowTypeOK, flowVars
<1>5. \A g \in FlowCalls : FlowHandler(g)' BY <1>2, <1>3, Bystander DEF flowVars, Parks
<1> QED BY <1>3, <1>4, <1>5 DEF FlowInv

LEMMA FlowInitInv == Init /\ FlowInit => FlowInv
PROOF
<1> SUFFICES ASSUME Init, FlowInit PROVE FlowInv OBVIOUS
<1>1. IInv BY InitInv
<1>2. \A f \in FlowCalls : flow[f] = NoFlow /\ grant[f] = None BY DEF FlowInit
<1>3. FlowTypeOK
  <2>1. flow \in [FlowCalls -> FlowState] BY NoFlowType DEF FlowInit
  <2> QED BY <2>1 DEF FlowInit, FlowTypeOK
<1>4. ASSUME NEW f \in FlowCalls PROVE FlowHandler(f)
  <2>1. flow[f].pc = "idle" /\ flow[f].op = None /\ ~flow[f].hwk /\ ~flow[f].late /\ flow[f].had = {}
    BY <1>2 DEF NoFlow
  <2> QED BY <1>2, <2>1 DEF FlowHandler, FlowPlace, FlowSaw, FlowGrants, FlowAnswers
<1> QED BY <1>1, <1>3, <1>4 DEF FlowInv

LEMMA FlowNextInv == FlowInv /\ [FlowNext]_allVars => FlowInv'
PROOF
<1> SUFFICES ASSUME FlowInv, [FlowNext]_allVars PROVE FlowInv' OBVIOUS
<1>1. CASE SignInStep BY <1>1, SignInFlowStep
<1>2. CASE \E r \in Requests : Authorize(r) BY <1>2, AuthorizeStep
<1>3. ASSUME NEW f \in FlowCalls, FlowArrives(f) PROVE FlowInv'
  <2>1. PICK op \in FlowOffered, r \in Requests, s \in Started \cup {None}, consent \in BOOLEAN :
          BeginFlow(f, op, r, s, consent)
    BY <1>3 DEF FlowArrives
  <2>2. op \in {"get", "complete", "deny"} /\ s \in Calls \cup {None}
    BY AuthRequestsAssumption DEF Started
  <2> QED BY <2>1, <2>2, BeginFlowStep
<1>4. ASSUME NEW f \in FlowCalls, FlowAdvance(f) PROVE FlowInv'
  BY <1>4, LoadRequestStep, LoadSessionStep, EvaluateStep, CommitGrantStep, DeleteRequestStep DEF FlowAdvance
<1>5. CASE UNCHANGED allVars
  <2>1. UNCHANGED <<vars, parked, shown, flow, grant>> BY <1>5 DEF allVars, flowVars
  <2>2. IInv' BY <2>1, NextInv DEF FlowInv
  <2>3. FlowTypeOK' BY <2>1 DEF FlowInv, FlowTypeOK
  <2>4. Lasting BY <2>1, StillLasts DEF vars
  <2>5. \A g \in FlowCalls : FlowHandler(g)' BY <2>1, <2>4, Bystander DEF Parks
  <2> QED BY <2>2, <2>3, <2>5 DEF FlowInv
<1>6. CASE FlowFinished
  <2>1. UNCHANGED allVars BY <1>6 DEF FlowFinished, Finished, allVars
  <2> QED BY <1>5, <2>1
<1> QED BY <1>1, <1>2, <1>3, <1>4, <1>5, <1>6 DEF FlowNext, FlowStep

LEMMA FlowInductive == FlowSpec => []FlowInv
PROOF
  BY FlowInitInv, FlowNextInv, PTL DEF FlowSpec

(* The handlers of /authorize and flow.rs keep to their types.             *)
THEOREM FlowTypeCorrect == FlowSpec => []FlowTypeOK
PROOF
<1>1. FlowInv => FlowTypeOK BY DEF FlowInv
<1> QED BY <1>1, FlowInductive, PTL

(* Every grant meets the policy of its resource and the wish of its client *)
(* whatever happened to session, passkeys and request while complete ran.  *)
LEMMA FlowPolicy == FlowInv => GrantMeetsPolicy
PROOF
<1> SUFFICES ASSUME FlowInv, NEW f \in FlowCalls, grant[f] # None
             PROVE  LET p == flow[f].params IN
                    /\ NeedsMfa(p) => grant[f].acr = "mfa"
                    /\ p.step_up => flow[f].at - grant[f].auth <= p.max_age
                    /\ grant[f].had # {} => grant[f].acr = "mfa"
  BY DEF GrantMeetsPolicy
<1>1. Judged(f) /\ Recorded(f) BY DEF FlowInv, FlowHandler, FlowGrants
<1> QED BY <1>1 DEF Judged, Recorded, Acr

THEOREM GrantsMeetPolicy == FlowSpec => []GrantMeetsPolicy
PROOF
  BY FlowPolicy, FlowInductive, PTL

(* A grant that claims a second factor belongs to a user whose own passkey *)
(* answered a challenge in the session that approved it.                   *)
LEMMA FlowProven == FlowInv => GrantFactorProven
PROOF
<1> SUFFICES ASSUME FlowInv, NEW f \in FlowCalls, grant[f] # None, grant[f].acr = "mfa"
             PROVE  \E c \in Calls :
                      /\ call[c].proved /\ Handle[call[c].key] = grant[f].user
                      /\ \/ call[c].op = "passkey" /\ c = flow[f].cookie
                         \/ call[c].op \in {"factor", "register"} /\ call[c].cookie = flow[f].cookie
  BY DEF GrantFactorProven
<1>1. Recorded(f) /\ FlowSaw(f) BY DEF FlowInv, FlowHandler, FlowGrants
<1>2. flow[f].hwk BY <1>1 DEF Recorded, Acr
<1> QED BY <1>1, <1>2 DEF FlowSaw, ProvedTo, Recorded

THEOREM GrantFactorsProven == FlowSpec => []GrantFactorProven
PROOF
  BY FlowProven, FlowInductive, PTL

(* Once a request has been completed or denied, a call that begins later   *)
(* gets nothing.                                                           *)
THEOREM AnsweredForGood == FlowSpec => []NothingAfterAnswer
PROOF
<1>1. FlowInv => NothingAfterAnswer BY DEF FlowInv, FlowHandler, FlowAnswers, NothingAfterAnswer
<1> QED BY <1>1, FlowInductive, PTL

-----------------------------------------------------------------------------
(***************************************************************************)
(* AccessTokens.  A grant that has been inserted does not change, and a    *)
(* second factor is as recent as the session says: so is what the token    *)
(* claims of it.                                                           *)
(***************************************************************************)
(* A session has its second factor since a passkey answered in it.         *)
DatedFor(c, s) == ProvedFor(c, s) /\ call[c].pc = "done" /\ answered[c] = session[s].auth
SessionsDated  == \A s \in Calls : session[s].hwk => \E c \in Calls : DatedFor(c, s)

(* And a flow call knows since when.                                       *)
DatedTo(c, f) == ProvedTo(c, f) /\ call[c].pc = "done" /\ answered[c] = flow[f].auth
FlowDated(f)  == flow[f].hwk => \E c \in Calls : DatedTo(c, f)

(* A token is of a grant that was not yet revoked when it was read.        *)
TokenOfGrant(t) ==
  LET me == token[t] IN
  me.pc \in {"sign", "signed"} =>
    /\ me.grant \in FlowCalls /\ grant[me.grant] # None
    /\ me.client = flow[me.grant].params.client
    /\ me.loaded <= now
    /\ revoked[me.grant] # None => me.loaded <= revoked[me.grant]

(* What a request has got past.                                            *)
Passes(a) ==
  LET me == access[a] IN
  me.pc \in {"verified", "insufficient_scope", "step_up", "served"} =>
    /\ me.op \in AccessOps /\ me.token \in TokenCalls /\ token[me.token].pc = "signed"
    /\ Claims(me.token).aud = Api(me.op)
    /\ me.pc = "served" /\ me.op = "manage" => "merchant" \in Claims(me.token).scope
    /\ me.pc = "served" /\ me.op = "approve" =>
         Claims(me.token).hwk /\ me.at - Claims(me.token).auth <= StepUpMaxAge
    /\ me.pc = "step_up" =>
         ~(Claims(me.token).hwk /\ me.at - Claims(me.token).auth <= StepUpMaxAge)

AccessInv ==
  /\ FlowInv /\ AccessTypeOK /\ SessionsDated
  /\ \A c \in Calls : answered[c] >= 0
  /\ \A f \in FlowCalls : FlowDated(f)
  /\ \A t \in TokenCalls : TokenOfGrant(t)
  /\ \A a \in Accesses : Passes(a)

(* A second factor that a session has after a step of a handler: it had it *)
(* before, or the handler has just proved it.                              *)
Upgraded(c, s) == call[c].pc # "done" /\ call'[c].pc = "done" /\ session'[s].auth = now
Freshens(c) ==
  \A s \in Calls : session'[s].hwk =>
    \/ session[s].hwk /\ session'[s].user = session[s].user /\ session'[s].auth = session[s].auth
    \/ Upgraded(c, s) /\ ProvedFor(c, s)'

LEMMA MethodFreshens == ASSUME IInv, NEW c \in Calls, AddMethod(c) PROVE Freshens(c)
PROOF
<1> DEFINE s == call[c].cookie
<1>1. /\ TypeOK /\ Handler(c) /\ call[c].pc = "method" /\ call[c].op \in {"factor", "register"}
      /\ "done" \in Stages
  BY DEF AddMethod, At, IInv, Handler, Place, Stages
<1>2. CASE ~RowExists(s) BY <1>2 DEF AddMethod, Freshens
<1>3. CASE RowExists(s)
  <2>1. session' = [session EXCEPT ![s].hwk = TRUE, ![s].auth = now] /\ Go(c, "done")
    BY <1>3 DEF AddMethod
  <2>2. /\ s \in Calls /\ session[s] \in SessionRow /\ session[s].user = call[s].user
        /\ call[c].user = call[s].user /\ call[c].proved /\ call[c].user = Handle[call[c].key]
    <3>1. call[c].op \in Loading /\ s # None BY <1>1 DEF Handler, Names, Loading
    <3>2. s \in Calls BY <1>1, <3>1, CallType
    <3> QED BY <1>1, <1>3, <3>1, <3>2, RowType DEF Handler, Account, Proof, RowExists, IInv, Sessions
  <2>3. /\ session'[s].user = session[s].user /\ session'[s].auth = now
        /\ \A x \in Calls \ {s} : session'[x] = session[x]
    BY <1>1, <2>1, <2>2 DEF TypeOK, SessionRow
  <2>4. /\ call'[c].pc = "done" /\ call'[c].op = call[c].op /\ call'[c].cookie = s
        /\ call'[c].key = call[c].key /\ call'[c].proved = call[c].proved
    BY <1>1, <2>1, GoType
  <2>5. ASSUME NEW x \in Calls, x = s PROVE Upgraded(c, x) /\ ProvedFor(c, x)'
    BY <1>1, <2>2, <2>3, <2>4, <2>5 DEF Upgraded, ProvedFor
  <2> QED BY <2>3, <2>5 DEF Freshens
<1> QED BY <1>2, <1>3

LEMMA StartFreshens == ASSUME IInv, NEW c \in Calls, StartSession(c) PROVE Freshens(c)
PROOF
<1> DEFINE row == [user |-> call[c].user, hwk |-> call[c].op = "passkey", auth |-> now, expires |-> now + SessionTTL]
<1>1. /\ TypeOK /\ Handler(c) /\ call[c].pc = "start" /\ Go(c, "done") /\ "done" \in Stages
      /\ session' = [session EXCEPT ![c] = row]
  BY DEF StartSession, At, IInv, Stages
<1>2. session'[c] = row /\ \A x \in Calls \ {c} : session'[x] = session[x] BY <1>1 DEF TypeOK
<1>3. /\ call'[c].pc = "done" /\ call'[c].op = call[c].op /\ call'[c].key = call[c].key
      /\ call'[c].proved = call[c].proved
  BY <1>1, GoType
<1>4. call[c].op = "passkey" => call[c].proved /\ call[c].user = Handle[call[c].key]
  BY <1>1 DEF Handler, Proof
<1>5. /\ session'[c].user = call[c].user /\ session'[c].auth = now
      /\ session'[c].hwk = (call[c].op = "passkey")
  BY <1>2
<1>6. ASSUME call[c].op = "passkey" PROVE Upgraded(c, c) /\ ProvedFor(c, c)'
  <2>1. Upgraded(c, c) BY <1>1, <1>3, <1>5 DEF Upgraded
  <2>2. ProvedFor(c, c)' BY <1>3, <1>4, <1>5, <1>6 DEF ProvedFor
  <2> QED BY <2>1, <2>2
<1> QED BY <1>2, <1>5, <1>6 DEF Freshens

LEMMA AdvanceFreshens == ASSUME IInv, NEW c \in Calls, Advance(c) PROVE Freshens(c)
PROOF
<1>1. CASE UNCHANGED session BY <1>1 DEF Freshens
<1>2. CASE EndSession(c)
  <2>1. \A s \in Calls : session'[s] = IF s = call[c].cookie THEN NoSession ELSE session[s]
    BY <1>2 DEF EndSession
  <2>2. ~NoSession.hwk BY DEF NoSession
  <2> QED BY <2>1, <2>2 DEF Freshens
<1> QED BY <1>1, <1>2, MethodFreshens, StartFreshens DEF Advance, Load, Factors, StoreChallenge, TakeChallenge,
        ReadPasskeys, RecordUse, InsertPasskey, DeletePasskey

(* In a step of the handlers of auth-service the dates stay right.         *)
Noted == answered' = [c \in Calls |-> IF call'[c].pc = "done" /\ call[c].pc # "done" THEN now ELSE answered[c]]

LEMMA NotedLasts ==
  ASSUME Lasting, Noted, NEW c \in Calls, call[c].pc = "done"
  PROVE  answered'[c] = answered[c] /\ call'[c] = call[c]
PROOF
  BY DEF Lasting, Noted

LEMMA QuietDates ==
  ASSUME SessionsDated, Lasting, Noted, UNCHANGED session
  PROVE  SessionsDated'
PROOF
<1> SUFFICES ASSUME NEW s \in Calls, session[s].hwk PROVE \E c \in Calls : DatedFor(c, s)'
  BY DEF SessionsDated
<1>1. PICK c \in Calls : DatedFor(c, s) BY DEF SessionsDated
<1>2. answered'[c] = answered[c] /\ call'[c] = call[c] BY <1>1, NotedLasts DEF DatedFor
<1>3. DatedFor(c, s)' BY <1>1, <1>2 DEF DatedFor, ProvedFor
<1> QED BY <1>3

LEMMA SignInDates == ASSUME IInv, SessionsDated, SignInStep, Noted PROVE SessionsDated'
PROOF
<1>1. Lasting BY SignInStepLasts
<1>2. CASE Tick BY <1>1, <1>2, QuietDates DEF Tick
<1>3. ASSUME NEW c \in Calls, Arrive(c) PROVE SessionsDated'
  <2>1. UNCHANGED session
    BY <1>3 DEF Arrive, Password, PasskeyOptions, WithCookie, Remove, Answer, Register, Begin
  <2> QED BY <1>1, <2>1, QuietDates
<1>4. ASSUME NEW c \in Calls, Advance(c) PROVE SessionsDated'
  <2> SUFFICES ASSUME NEW s \in Calls, session'[s].hwk PROVE \E d \in Calls : DatedFor(d, s)'
    BY DEF SessionsDated
  <2>1. Freshens(c) BY <1>4, AdvanceFreshens
  <2>2. CASE session[s].hwk /\ session'[s].user = session[s].user /\ session'[s].auth = session[s].auth
    <3>1. PICK d \in Calls : DatedFor(d, s) BY <2>2 DEF SessionsDated
    <3>2. answered'[d] = answered[d] /\ call'[d] = call[d] BY <1>1, <3>1, NotedLasts DEF DatedFor
    <3>3. DatedFor(d, s)' BY <2>2, <3>1, <3>2 DEF DatedFor, ProvedFor
    <3> QED BY <3>3
  <2>3. CASE Upgraded(c, s) /\ ProvedFor(c, s)'
    <3>1. answered'[c] = now BY <2>3 DEF Noted, Upgraded
    <3>2. DatedFor(c, s)' BY <2>3, <3>1 DEF DatedFor, Upgraded
    <3> QED BY <3>2
  <2> QED BY <2>1, <2>2, <2>3 DEF Freshens
<1> QED BY <1>2, <1>3, <1>4 DEF SignInStep

LEMMA FlowStepLasts == ASSUME FlowInv, FlowStep PROVE Lasting /\ now' >= now
PROOF
<1>1. IInv /\ now \in Int BY DEF FlowInv, IInv, TypeOK
<1>2. CASE SignInStep
  <2>1. now' \in {now, now + 1} BY <1>1, <1>2, ArriveLasts, AdvanceLasts DEF SignInStep, Tick
  <2> QED BY <1>1, <1>2, <2>1, SignInStepLasts
<1>3. CASE UNCHANGED vars BY <1>1, <1>3, StillLasts DEF vars
<1> QED BY <1>2, <1>3 DEF FlowStep, Authorize, FlowArrives, BeginFlow, FlowAdvance, LoadRequest, LoadSession,
        Evaluate, CommitGrant, DeleteRequest

(* A step of one flow call leaves the others alone, and the sessions.      *)
LEMMA FlowTouches ==
  ASSUME FlowInv, NEW g \in FlowCalls, FlowArrives(g) \/ FlowAdvance(g)
  PROVE  /\ UNCHANGED vars /\ flow[g].pc # "done" /\ grant[g] = None
         /\ \A f \in FlowCalls \ {g} : flow'[f] = flow[f] /\ grant'[f] = grant[f]
PROOF
<1>1. FlowTypeOK /\ FlowHandler(g) BY DEF FlowInv
<1>2. UNCHANGED vars /\ flow[g].pc # "done"
  BY DEF FlowArrives, BeginFlow, FlowAdvance, LoadRequest, LoadSession, Evaluate, CommitGrant, DeleteRequest, FlowAt
<1>3. grant[g] = None BY <1>1, <1>2 DEF FlowHandler, FlowGrants, Recorded
<1>4. \A f \in FlowCalls \ {g} : flow'[f] = flow[f]
  BY <1>1 DEF FlowArrives, BeginFlow, FlowAdvance, LoadRequest, LoadSession, Evaluate, CommitGrant, DeleteRequest,
     FlowGo, FlowTypeOK
<1>5. \A f \in FlowCalls \ {g} : grant'[f] = grant[f]
  BY <1>1 DEF FlowArrives, BeginFlow, FlowAdvance, LoadRequest, LoadSession, Evaluate, CommitGrant, DeleteRequest,
     FlowTypeOK
<1> QED BY <1>2, <1>3, <1>4, <1>5

(* A grant stays as it was inserted, and so does the call that did.        *)
LEMMA GrantsStay ==
  ASSUME FlowInv, FlowStep, NEW f \in FlowCalls, grant[f] # None
  PROVE  grant'[f] = grant[f] /\ flow'[f] = flow[f]
PROOF
<1>1. CASE SignInStep \/ \E r \in Requests : Authorize(r)
  BY <1>1 DEF SignInStep, flowVars, Authorize
<1>2. ASSUME NEW g \in FlowCalls, FlowArrives(g) \/ FlowAdvance(g) PROVE grant'[f] = grant[f] /\ flow'[f] = flow[f]
  BY <1>2, FlowTouches
<1> QED BY <1>1, <1>2 DEF FlowStep

(* A flow call has a second factor from the session that it loads.         *)
SameFactor(f) == /\ flow'[f].cookie = flow[f].cookie /\ flow'[f].user = flow[f].user
                 /\ flow'[f].hwk = flow[f].hwk /\ flow'[f].auth = flow[f].auth
Learnt(f, s)  == /\ s = flow'[f].cookie /\ flow'[f].user = session[s].user
                 /\ flow'[f].hwk = session[s].hwk /\ flow'[f].auth = session[s].auth

LEMMA FlowLearns ==
  ASSUME FlowInv, NEW f \in FlowCalls, FlowArrives(f) \/ FlowAdvance(f), flow'[f].hwk
  PROVE  SameFactor(f) \/ \E s \in Calls : Learnt(f, s)
PROOF
<1>1. FlowTypeOK /\ flow[f] \in FlowState BY FlowType DEF FlowInv
<1>2. CASE FlowArrives(f)
  <2>1. PICK op, r, s, consent : BeginFlow(f, op, r, s, consent) BY <1>2 DEF FlowArrives
  <2>2. ~flow'[f].hwk BY <1>1, <2>1 DEF BeginFlow, FlowTypeOK, NoFlow
  <2> QED BY <2>2
<1>3. CASE LoadSession(f)
  <2>1. PICK s \in Calls \cup {None} : s = flow[f].cookie BY <1>1 DEF FlowState
  <2>2. CASE ~(s # None /\ Live(s))
    <3>1. PICK stage : flow' = [flow EXCEPT ![f].next = "sign_in", ![f].pc = stage]
      BY <1>3, <2>1, <2>2 DEF LoadSession
    <3>2. flow'[f] = [flow[f] EXCEPT !.next = "sign_in", !.pc = stage] BY <1>1, <3>1 DEF FlowTypeOK
    <3> DEFINE new == [flow[f] EXCEPT !.next = "sign_in", !.pc = stage]
    <3>3. /\ new.cookie = flow[f].cookie /\ new.user = flow[f].user
          /\ new.hwk = flow[f].hwk /\ new.auth = flow[f].auth
      BY <1>1 DEF FlowState
    <3> QED BY <3>2, <3>3 DEF SameFactor
  <2>3. CASE s # None /\ Live(s)
    <3>1. flow' = [flow EXCEPT ![f].pc = "factors", ![f].user = session[s].user,
                               ![f].hwk = session[s].hwk, ![f].auth = session[s].auth]
      BY <1>3, <2>1, <2>3 DEF LoadSession
    <3>2. flow'[f] = [flow[f] EXCEPT !.pc = "factors", !.user = session[s].user,
                                     !.hwk = session[s].hwk, !.auth = session[s].auth]
      BY <1>1, <3>1 DEF FlowTypeOK
    <3> DEFINE new == [flow[f] EXCEPT !.pc = "factors", !.user = session[s].user,
                                      !.hwk = session[s].hwk, !.auth = session[s].auth]
    <3>3. /\ new.cookie = flow[f].cookie /\ new.user = session[s].user
          /\ new.hwk = session[s].hwk /\ new.auth = session[s].auth
      BY <1>1 DEF FlowState
    <3>4. Learnt(f, s) BY <2>1, <3>2, <3>3 DEF Learnt
    <3> QED BY <2>1, <2>3, <3>4
  <2> QED BY <2>2, <2>3
<1>4. CASE LoadRequest(f)
  <2>1. CASE FlowGo(f, "failed") BY <1>1, <2>1 DEF FlowGo, SameFactor, FlowTypeOK, FlowState
  <2>2. CASE ~FlowGo(f, "failed")
    <3>1. PICK p, stage : flow' = [flow EXCEPT ![f].params = p, ![f].pc = stage]
      BY <1>4, <2>2 DEF LoadRequest
    <3>2. flow'[f] = [flow[f] EXCEPT !.params = p, !.pc = stage] BY <1>1, <3>1 DEF FlowTypeOK
    <3> DEFINE new == [flow[f] EXCEPT !.params = p, !.pc = stage]
    <3>3. /\ new.cookie = flow[f].cookie /\ new.user = flow[f].user
          /\ new.hwk = flow[f].hwk /\ new.auth = flow[f].auth
      BY <1>1 DEF FlowState
    <3> QED BY <3>2, <3>3 DEF SameFactor
  <2> QED BY <2>1, <2>2
<1>5. CASE Evaluate(f) BY <1>1, <1>5 DEF Evaluate, SameFactor, FlowTypeOK, FlowState
<1>6. CASE CommitGrant(f) \/ DeleteRequest(f)
  <2>1. FlowGo(f, "done") BY <1>6 DEF CommitGrant, DeleteRequest
  <2> QED BY <1>1, <2>1 DEF FlowGo, SameFactor, FlowTypeOK, FlowState
<1> QED BY <1>2, <1>3, <1>4, <1>5, <1>6 DEF FlowAdvance

LEMMA FlowDates ==
  ASSUME FlowInv, SessionsDated, \A f \in FlowCalls : FlowDated(f), FlowStep, Noted, NEW f \in FlowCalls
  PROVE  FlowDated(f)'
PROOF
<1>1. Lasting BY FlowStepLasts
<1>2. ASSUME SameFactor(f) PROVE FlowDated(f)'
  <2> SUFFICES ASSUME flow[f].hwk PROVE \E c \in Calls : DatedTo(c, f)' BY <1>2 DEF FlowDated, SameFactor
  <2>1. PICK c \in Calls : DatedTo(c, f) BY DEF FlowDated
  <2>2. answered'[c] = answered[c] /\ call'[c] = call[c] BY <1>1, <2>1, NotedLasts DEF DatedTo
  <2>3. DatedTo(c, f)' BY <1>2, <2>1, <2>2 DEF DatedTo, ProvedTo, SameFactor
  <2> QED BY <2>3
<1>3. CASE SignInStep \/ \E r \in Requests : Authorize(r)
  BY <1>2, <1>3 DEF SignInStep, flowVars, Authorize, SameFactor
<1>4. ASSUME NEW g \in FlowCalls, FlowArrives(g) \/ FlowAdvance(g) PROVE FlowDated(f)'
  <2>1. UNCHANGED vars BY <1>4, FlowTouches
  <2>2. CASE f # g
    <3>1. flow'[f] = flow[f] BY <1>4, <2>2, FlowTouches
    <3> QED BY <1>2, <3>1 DEF SameFactor
  <2>3. CASE f = g /\ flow'[f].hwk
    <3>1. CASE SameFactor(f) BY <1>2, <3>1
    <3>2. ASSUME NEW s \in Calls, Learnt(f, s) PROVE FlowDated(f)'
      <4>1. PICK c \in Calls : DatedFor(c, s) BY <2>3, <3>2 DEF Learnt, SessionsDated
      <4>2. answered'[c] = answered[c] /\ call'[c] = call[c] BY <1>1, <4>1, NotedLasts DEF DatedFor
      <4>3. DatedTo(c, f)' BY <3>2, <4>1, <4>2 DEF DatedTo, DatedFor, ProvedTo, ProvedFor, Learnt
      <4> QED BY <4>3 DEF FlowDated
    <3> QED BY <1>4, <2>3, <3>1, <3>2, FlowLearns
  <2> QED BY <2>2, <2>3 DEF FlowDated
<1> QED BY <1>3, <1>4 DEF FlowStep

-----------------------------------------------------------------------------
LEMMA TokenType ==
  ASSUME AccessTypeOK, NEW t \in TokenCalls
  PROVE  /\ token[t] \in TokenState /\ token[t].pc \in {"idle", "sign", "signed"}
         /\ token[t].client \in Clients \cup {None} /\ token[t].grant \in FlowCalls \cup {None}
         /\ token[t].loaded \in Int /\ token[t].iat \in Int
PROOF
  BY DEF AccessTypeOK, TokenState

LEMMA NoTokenType == NoToken \in TokenState /\ NoAccess \in AccessState
PROOF
  BY DEF NoToken, TokenState, NoAccess, AccessState

(* What the rest of auth-service does leaves tokens and requests as right  *)
(* as they were.                                                           *)
LEMMA TokenKept ==
  ASSUME AccessInv, NEW t \in TokenCalls, token'[t] = token[t], now \in Int, now' \in Int, now' >= now,
         UNCHANGED revoked,
         \A f \in FlowCalls : grant[f] # None => grant'[f] = grant[f] /\ flow'[f] = flow[f]
  PROVE  TokenOfGrant(t)'
PROOF
<1>1. TokenOfGrant(t) /\ token[t].loaded \in Int BY TokenType DEF AccessInv
<1> QED BY <1>1 DEF TokenOfGrant

LEMMA PassesKept ==
  ASSUME AccessInv, NEW a \in Accesses, access'[a] = access[a],
         \A t \in TokenCalls : token[t].pc = "signed" => token'[t] = token[t],
         \A f \in FlowCalls : grant[f] # None => grant'[f] = grant[f]
  PROVE  Passes(a)'
PROOF
<1> DEFINE t == access[a].token
<1> SUFFICES ASSUME access[a].pc \in {"verified", "insufficient_scope", "step_up", "served"} PROVE Passes(a)'
  BY DEF Passes
<1>1. Passes(a) /\ t \in TokenCalls /\ token[t].pc = "signed" BY DEF AccessInv, Passes
<1>2. token[t].grant \in FlowCalls /\ grant[token[t].grant] # None BY <1>1 DEF AccessInv, TokenOfGrant
<1>3. Claims(t)' = Claims(t) BY <1>1, <1>2 DEF Claims
<1> QED BY <1>1, <1>3 DEF Passes, Api

LEMMA GrantStepInv == ASSUME AccessInv, GrantStep PROVE AccessInv'
PROOF
<1>1. FlowInv /\ AccessTypeOK /\ FlowStep /\ Noted /\ UNCHANGED tokenVars
  BY DEF AccessInv, GrantStep, Noted
<1>2. FlowInv' BY <1>1, FlowNextInv DEF FlowNext
<1>3. Lasting /\ now' >= now BY <1>1, FlowStepLasts
<1>4. now \in 0..MaxTime /\ now' \in 0..MaxTime /\ MaxTime \in Nat
  BY <1>1, <1>2, SignInAssumption DEF FlowInv, IInv, TypeOK
<1>5. AccessTypeOK'
  <2>1. answered' \in [Calls -> Int] BY <1>1, <1>4 DEF AccessTypeOK, Noted
  <2> QED BY <1>1, <2>1 DEF AccessTypeOK, tokenVars
<1>6. SessionsDated'
  <2>1. CASE SignInStep BY <1>1, <2>1, SignInDates DEF AccessInv, FlowInv
  <2>2. CASE UNCHANGED session BY <1>1, <1>3, <2>2, QuietDates DEF AccessInv
  <2>3. (\E r \in Requests : Authorize(r)) => UNCHANGED session BY DEF Authorize, vars
  <2>4. ASSUME NEW g \in FlowCalls, FlowArrives(g) \/ FlowAdvance(g) PROVE UNCHANGED session
    BY <1>1, <2>4, FlowTouches DEF vars
  <2> QED BY <1>1, <2>1, <2>2, <2>3, <2>4 DEF FlowStep
<1>7. \A c \in Calls : answered'[c] >= 0 BY <1>1, <1>4 DEF Noted, AccessInv
<1>8. \A f \in FlowCalls : FlowDated(f)' BY <1>1, FlowDates DEF AccessInv
<1>9. \A f \in FlowCalls : grant[f] # None => grant'[f] = grant[f] /\ flow'[f] = flow[f]
  BY <1>1, GrantsStay
<1>10. \A t \in TokenCalls : TokenOfGrant(t)' BY <1>1, <1>3, <1>4, <1>9, TokenKept DEF tokenVars
<1>11. \A a \in Accesses : Passes(a)' BY <1>1, <1>9, PassesKept DEF tokenVars
<1> QED BY <1>2, <1>5, <1>6, <1>7, <1>8, <1>10, <1>11 DEF AccessInv

(* Steps at the token endpoint and at the resource servers.                *)
LEMMA ApartInv ==
  ASSUME AccessInv, UNCHANGED <<allVars, answered>>, AccessTypeOK',
         \A t \in TokenCalls : TokenOfGrant(t)', \A a \in Accesses : Passes(a)'
  PROVE  AccessInv'
PROOF
<1>1. UNCHANGED <<vars, parked, shown, flow, grant>> BY DEF allVars, flowVars
<1>2. FlowInv' BY <1>1, FlowNextInv DEF AccessInv, allVars, flowVars
<1>3. SessionsDated' BY <1>1 DEF AccessInv, SessionsDated, DatedFor, ProvedFor, vars
<1>4. \A f \in FlowCalls : FlowDated(f)' BY <1>1 DEF AccessInv, FlowDated, DatedTo, ProvedTo, vars
<1> QED BY <1>2, <1>3, <1>4 DEF AccessInv

LEMMA LoadGrantStep == ASSUME AccessInv, NEW t \in TokenCalls, LoadGrant(t) PROVE AccessInv'
PROOF
<1>1. AccessTypeOK /\ now \in Int BY DEF AccessInv, FlowInv, IInv, TypeOK
<1>2. PICK f \in FlowCalls, c \in Clients :
        /\ Honoured(f, c)
        /\ token' = [token EXCEPT ![t] = [NoToken EXCEPT !.pc = "sign", !.client = c, !.grant = f, !.loaded = now]]
        /\ UNCHANGED <<allVars, answered, revoked, access>>
  BY DEF LoadGrant
<1>0. token[t].pc = "idle" BY DEF LoadGrant
<1> DEFINE new == [NoToken EXCEPT !.pc = "sign", !.client = c, !.grant = f, !.loaded = now]
<1>3. new \in TokenState BY <1>1, NoTokenType DEF TokenState
<1>4. new.client = c /\ new.grant = f /\ new.loaded = now
  BY DEF NoToken
<1> HIDE DEF new
<1>5. token'[t] = new /\ token' \in [TokenCalls -> TokenState] /\ \A x \in TokenCalls \ {t} : token'[x] = token[x]
  BY <1>1, <1>2, <1>3 DEF AccessTypeOK, new
<1>6. AccessTypeOK' BY <1>1, <1>2, <1>5 DEF AccessTypeOK
<1>7. UNCHANGED <<now, flow, grant, revoked>> BY <1>2 DEF allVars, vars, flowVars
<1>8. ASSUME NEW x \in TokenCalls PROVE TokenOfGrant(x)'
  <2>1. CASE x = t BY <1>1, <1>2, <1>4, <1>5, <1>7, <2>1 DEF TokenOfGrant, Honoured
  <2>2. CASE x # t BY <1>1, <1>5, <1>7, <2>2, TokenKept
  <2> QED BY <2>1, <2>2
<1>9. \A a \in Accesses : Passes(a)' BY <1>0, <1>2, <1>5, <1>7, PassesKept
<1> QED BY <1>2, <1>6, <1>8, <1>9, ApartInv

LEMMA SignStep == ASSUME AccessInv, NEW t \in TokenCalls, Sign(t) PROVE AccessInv'
PROOF
<1>1. /\ AccessTypeOK /\ now \in Int /\ token[t].pc = "sign" /\ token[t] \in TokenState
      /\ UNCHANGED <<allVars, answered, revoked, access>>
  BY TokenType DEF AccessInv, FlowInv, IInv, TypeOK, Sign
<1> DEFINE new == [token[t] EXCEPT !.pc = "signed", !.iat = now]
<1>2. /\ new \in TokenState /\ new.client = token[t].client /\ new.grant = token[t].grant
      /\ new.loaded = token[t].loaded
  BY <1>1 DEF TokenState
<1>3. token' = [token EXCEPT ![t] = new] BY DEF Sign
<1> HIDE DEF new
<1>4. token'[t] = new /\ token' \in [TokenCalls -> TokenState] /\ \A x \in TokenCalls \ {t} : token'[x] = token[x]
  BY <1>1, <1>2, <1>3 DEF AccessTypeOK
<1>5. AccessTypeOK' BY <1>1, <1>4 DEF AccessTypeOK
<1>6. UNCHANGED <<now, flow, grant, revoked>> BY <1>1 DEF allVars, vars, flowVars
<1>7. ASSUME NEW x \in TokenCalls PROVE TokenOfGrant(x)'
  <2>1. CASE x = t BY <1>1, <1>2, <1>4, <1>6, <2>1 DEF AccessInv, TokenOfGrant
  <2>2. CASE x # t BY <1>1, <1>4, <1>6, <2>2, TokenKept
  <2> QED BY <2>1, <2>2
<1>8. \A a \in Accesses : Passes(a)' BY <1>1, <1>4, <1>6, PassesKept
<1> QED BY <1>1, <1>5, <1>7, <1>8, ApartInv

LEMMA RevokeStep == ASSUME AccessInv, NEW f \in FlowCalls, Revoke(f) PROVE AccessInv'
PROOF
<1>1. /\ AccessTypeOK /\ now \in Int /\ revoked' = [revoked EXCEPT ![f] = now]
      /\ UNCHANGED <<allVars, answered, token, access>>
  BY DEF AccessInv, FlowInv, IInv, TypeOK, Revoke
<1>2. AccessTypeOK' BY <1>1 DEF AccessTypeOK
<1>3. UNCHANGED <<now, flow, grant>> BY <1>1 DEF allVars, vars, flowVars
<1>4. \A g \in FlowCalls : revoked'[g] = now \/ revoked'[g] = revoked[g] BY <1>1 DEF AccessTypeOK
<1>5. \A t \in TokenCalls : TokenOfGrant(t)' BY <1>1, <1>3, <1>4 DEF AccessInv, TokenOfGrant
<1>6. \A a \in Accesses : Passes(a)' BY <1>1, <1>3, PassesKept
<1> QED BY <1>1, <1>2, <1>5, <1>6, ApartInv

(* A step of one request to a resource server.                             *)
LEMMA RequestInv ==
  ASSUME AccessInv, NEW a \in Accesses, NEW new \in AccessState, access' = [access EXCEPT ![a] = new],
         UNCHANGED <<allVars, answered, revoked, token>>,
         new.pc \in {"verified", "insufficient_scope", "step_up", "served"} =>
           /\ new.op \in AccessOps /\ new.token \in TokenCalls /\ token[new.token].pc = "signed"
           /\ Claims(new.token).aud = Api(new.op)
           /\ new.pc = "served" /\ new.op = "manage" => "merchant" \in Claims(new.token).scope
           /\ new.pc = "served" /\ new.op = "approve" =>
                Claims(new.token).hwk /\ new.at - Claims(new.token).auth <= StepUpMaxAge
           /\ new.pc = "step_up" =>
                ~(Claims(new.token).hwk /\ new.at - Claims(new.token).auth <= StepUpMaxAge)
  PROVE  AccessInv'
PROOF
<1>1. AccessTypeOK /\ now \in Int BY DEF AccessInv, FlowInv, IInv, TypeOK
<1>2. access'[a] = new /\ \A b \in Accesses \ {a} : access'[b] = access[b] BY <1>1 DEF AccessTypeOK
<1>3. AccessTypeOK' BY <1>1 DEF AccessTypeOK
<1>4. UNCHANGED <<now, flow, grant>> BY DEF allVars, vars, flowVars
<1>5. \A t \in TokenCalls : TokenOfGrant(t)' BY <1>1, <1>4, TokenKept
<1>6. ASSUME NEW b \in Accesses PROVE Passes(b)'
  <2>1. CASE b # a BY <1>2, <1>4, <2>1, PassesKept
  <2>2. CASE b = a
    <3>1. \A t \in TokenCalls : Claims(t)' = Claims(t) BY <1>4 DEF Claims
    <3> QED BY <1>2, <2>2, <3>1 DEF Passes, Api
  <2> QED BY <2>1, <2>2
<1> QED BY <1>3, <1>5, <1>6, ApartInv

LEMMA AuthenticateStep == ASSUME AccessInv, NEW a \in Accesses, Authenticate(a) PROVE AccessInv'
PROOF
<1>1. now \in Int BY DEF AccessInv, FlowInv, IInv, TypeOK
<1>2. PICK op \in AccessOps, t \in TokenCalls :
        /\ token[t].pc = "signed" /\ Verifies(t, op)
        /\ access' = [access EXCEPT ![a] = [pc |-> "verified", op |-> op, token |-> t, at |-> now]]
        /\ UNCHANGED <<allVars, answered, revoked, token>>
  BY DEF Authenticate
<1> DEFINE new == [pc |-> "verified", op |-> op, token |-> t, at |-> now]
<1>3. new \in AccessState BY <1>1 DEF AccessState
<1>4. new.pc = "verified" /\ new.op = op /\ new.token = t OBVIOUS
<1>5. Claims(t).aud = Api(op) BY <1>2 DEF Verifies
<1> HIDE DEF new
<1> QED BY <1>2, <1>3, <1>4, <1>5, RequestInv DEF new

LEMMA PerformStep == ASSUME AccessInv, NEW a \in Accesses, Perform(a) PROVE AccessInv'
PROOF
<1> DEFINE op == access[a].op
           t == access[a].token
           pc == Decided(op, Claims(t))
           new == [access[a] EXCEPT !.pc = pc, !.at = now]
<1>1. /\ now \in Int /\ access[a] \in AccessState /\ access[a].pc = "verified" /\ Passes(a)
      /\ UNCHANGED <<allVars, answered, revoked, token>>
  BY DEF AccessInv, AccessTypeOK, FlowInv, IInv, TypeOK, Perform
<1>2. op \in AccessOps /\ t \in TokenCalls /\ token[t].pc = "signed" /\ Claims(t).aud = Api(op)
  BY <1>1 DEF Passes
<1>3. access' = [access EXCEPT ![a] = new]
  <2>1. access' = [access EXCEPT ![a].pc = pc, ![a].at = now] BY Zenon DEF Perform
  <2> QED BY <2>1
<1>4. /\ pc \in {"insufficient_scope", "step_up", "served"}
      /\ pc = "served" /\ op = "manage" => "merchant" \in Claims(t).scope
      /\ pc = "served" /\ op = "approve" => HasFreshMfa(Claims(t))
      /\ pc = "step_up" => ~HasFreshMfa(Claims(t))
  BY DEF Decided
<1> HIDE DEF pc
<1>5. /\ new \in AccessState /\ new.pc = pc /\ new.op = op /\ new.token = t /\ new.at = now
  BY <1>1, <1>4 DEF AccessState
<1> HIDE DEF new
<1> QED BY <1>1, <1>2, <1>3, <1>4, <1>5, RequestInv DEF HasFreshMfa

LEMMA AccessInitInv == AccessInit => AccessInv
PROOF
<1> SUFFICES ASSUME AccessInit PROVE AccessInv OBVIOUS
<1>1. FlowInv BY FlowInitInv DEF AccessInit
<1>2. AccessTypeOK BY NoTokenType DEF AccessInit, AccessTypeOK
<1>3. SessionsDated
  <2> SUFFICES ASSUME NEW s \in Calls, session[s].hwk PROVE \E c \in Calls : DatedFor(c, s)
    BY DEF SessionsDated
  <2>1. PICK c \in Calls : ProvedFor(c, s) BY <1>1 DEF FlowInv, IInv, SecondFactorProven
  <2>2. PICK by \in [Earlier -> Users \X (Passkeys \cup {None})] :
          /\ session = [c1 \in Calls |->
               IF c1 \in Earlier
               THEN [user |-> by[c1][1], hwk |-> by[c1][2] # None, auth |-> 0, expires |-> SessionTTL]
               ELSE NoSession]
          /\ call = [c1 \in Calls |->
               IF c1 \in Earlier
               THEN [NoCall EXCEPT !.pc = "done", !.op = IF by[c1][2] = None THEN "password" ELSE "passkey",
                                   !.user = by[c1][1], !.key = by[c1][2], !.proved = by[c1][2] # None]
               ELSE NoCall]
    BY DEF AccessInit, Init
  <2>3. session[s].auth = 0 BY <2>2 DEF NoSession
  <2>4. call[c].proved /\ ~NoCall.proved BY <2>1 DEF ProvedFor, NoCall
  <2>5. c \in Earlier BY <2>2, <2>4
  <2>6. call[c].pc = "done" BY <2>2, <2>5, SignInAssumption DEF NoCall
  <2>7. DatedFor(c, s) BY <2>1, <2>3, <2>6 DEF DatedFor, AccessInit
  <2> QED BY <2>7
<1>4. \A c \in Calls : answered[c] >= 0 BY DEF AccessInit
<1>5. \A f \in FlowCalls : FlowDated(f) BY DEF AccessInit, FlowInit, NoFlow, FlowDated
<1>6. \A t \in TokenCalls : TokenOfGrant(t) BY DEF AccessInit, NoToken, TokenOfGrant
<1>7. \A a \in Accesses : Passes(a) BY DEF AccessInit, NoAccess, Passes
<1> QED BY <1>1, <1>2, <1>3, <1>4, <1>5, <1>6, <1>7 DEF AccessInv

LEMMA AccessNextInv == AccessInv /\ [AccessNext]_accessVars => AccessInv'
PROOF
<1> SUFFICES ASSUME AccessInv, [AccessNext]_accessVars PROVE AccessInv' OBVIOUS
<1>1. CASE GrantStep BY <1>1, GrantStepInv
<1>2. CASE \E t \in TokenCalls : LoadGrant(t) \/ Sign(t) BY <1>2, LoadGrantStep, SignStep
<1>3. CASE \E f \in FlowCalls : Revoke(f) BY <1>3, RevokeStep
<1>4. CASE \E a \in Accesses : Authenticate(a) \/ Perform(a) BY <1>4, AuthenticateStep, PerformStep
<1>5. CASE UNCHANGED accessVars
  <2>1. UNCHANGED <<allVars, answered, revoked, token, access>> BY <1>5 DEF accessVars, tokenVars
  <2>2. AccessTypeOK' BY <2>1 DEF AccessInv, AccessTypeOK
  <2>3. UNCHANGED <<now, flow, grant>> BY <2>1 DEF allVars, vars, flowVars
  <2>4. now \in Int BY DEF AccessInv, FlowInv, IInv, TypeOK
  <2>5. \A t \in TokenCalls : TokenOfGrant(t)' BY <2>1, <2>3, <2>4, TokenKept
  <2>6. \A a \in Accesses : Passes(a)' BY <2>1, <2>3, PassesKept
  <2> QED BY <2>1, <2>2, <2>5, <2>6, ApartInv
<1>6. CASE AccessFinished
  <2>1. UNCHANGED accessVars
    BY <1>6 DEF AccessFinished, FlowFinished, Finished, accessVars, allVars, flowVars
  <2> QED BY <1>5, <2>1
<1> QED BY <1>1, <1>2, <1>3, <1>4, <1>5, <1>6 DEF AccessNext

LEMMA AccessInductive == AccessSpec => []AccessInv
PROOF
  BY AccessInitInv, AccessNextInv, PTL DEF AccessSpec

(* Answers, revocations, tokens and requests keep to their sets.           *)
THEOREM AccessTypeCorrect == AccessSpec => []AccessTypeOK
PROOF
<1>1. AccessInv => AccessTypeOK BY DEF AccessInv
<1> QED BY <1>1, AccessInductive, PTL

(* The handlers run on states of auth-service as AuthRequests has them.    *)
THEOREM AccessKeepsFlow == AccessSpec => FlowSpec
PROOF
<1>1. AccessInit => Init /\ FlowInit BY DEF AccessInit
<1>2. [AccessNext]_accessVars => [FlowNext]_allVars
  BY DEF AccessNext, accessVars, GrantStep, FlowNext, LoadGrant, Sign, Revoke, Authenticate, Perform,
     AccessFinished, FlowFinished
<1> QED BY <1>1, <1>2, PTL DEF AccessSpec, FlowSpec

(* What a request that got past its extractor says of its grant.           *)
LEMMA BehindRequest ==
  ASSUME AccessInv, NEW a \in Accesses, access[a].pc \in {"verified", "insufficient_scope", "step_up", "served"}
  PROVE  LET t == access[a].token
             f == GrantOf(a)
         IN  /\ Passes(a) /\ TokenOfGrant(t) /\ t \in TokenCalls /\ token[t].pc = "signed"
             /\ f \in FlowCalls /\ grant[f] # None /\ Judged(f) /\ Recorded(f) /\ FlowDated(f)
             /\ Claims(t).hwk = flow[f].hwk /\ Claims(t).auth = flow[f].auth
             /\ Claims(t).scope = flow[f].params.scope
             /\ flow[f].params.resource = Api(access[a].op) /\ access[a].op \in AccessOps
PROOF
<1> DEFINE t == access[a].token
           f == token[t].grant
<1>1. Passes(a) /\ t \in TokenCalls /\ token[t].pc = "signed" BY DEF AccessInv, Passes
<1>2. TokenOfGrant(t) /\ f \in FlowCalls /\ grant[f] # None BY <1>1 DEF AccessInv, TokenOfGrant
<1>3. Judged(f) /\ Recorded(f) /\ FlowDated(f) BY <1>2 DEF AccessInv, FlowInv, FlowHandler, FlowGrants
<1>4. flow[f].hwk \in BOOLEAN BY <1>2, FlowType DEF AccessInv, FlowInv
<1>5. /\ Claims(t).hwk = flow[f].hwk /\ Claims(t).auth = flow[f].auth
      /\ Claims(t).scope = flow[f].params.scope /\ Claims(t).aud = flow[f].params.resource
  BY <1>3, <1>4 DEF Claims, Recorded, Acr
<1>6. access[a].op \in AccessOps /\ Claims(t).aud = Api(access[a].op) BY <1>1 DEF Passes
<1> QED BY <1>1, <1>2, <1>3, <1>5, <1>6 DEF GrantOf

(* A second factor that a grant has was given when the session says.       *)
LEMMA FactorSince ==
  ASSUME AccessInv, NEW f \in FlowCalls, FlowDated(f), Recorded(f), flow[f].hwk, NEW since, flow[f].auth >= since
  PROVE  ProvedSince(f, since)
PROOF
<1>1. PICK c \in Calls : DatedTo(c, f) BY DEF FlowDated
<1> QED BY <1>1 DEF DatedTo, ProvedTo, Recorded, ProvedSince

(* An order is approved, or a pickup location verified, only for a user    *)
(* who used a passkey at most StepUpMaxAge before, in the session behind   *)
(* the token.                                                              *)
LEMMA AccessFresh ==
  ASSUME AccessInv, NEW a \in Accesses, Served(a, {"approve"})
  PROVE  ProvedSince(GrantOf(a), access[a].at - StepUpMaxAge)
PROOF
<1> DEFINE f == GrantOf(a)
<1>1. access[a].pc = "served" /\ access[a].op = "approve" BY DEF Served
<1>2. /\ f \in FlowCalls /\ FlowDated(f) /\ Recorded(f) /\ Passes(a)
      /\ Claims(access[a].token).hwk = flow[f].hwk /\ Claims(access[a].token).auth = flow[f].auth
  BY <1>1, BehindRequest
<1>3. flow[f].hwk /\ access[a].at - flow[f].auth <= StepUpMaxAge BY <1>1, <1>2 DEF Passes
<1>4. access[a].at \in Int /\ flow[f].auth \in Int /\ StepUpMaxAge \in Int
  BY <1>2, FlowType, AccessAssumption DEF AccessInv, AccessTypeOK, AccessState, FlowInv
<1>5. flow[f].auth >= access[a].at - StepUpMaxAge BY <1>3, <1>4
<1> QED BY <1>2, <1>3, <1>5, FactorSince

(* The merchant API serves only users who have used a passkey, although    *)
(* its handlers look at the scope alone.                                   *)
LEMMA AccessMerchant ==
  ASSUME AccessInv, NEW a \in Accesses, Served(a, {"manage"}) PROVE ProvedSince(GrantOf(a), 0)
PROOF
<1> DEFINE f == GrantOf(a)
<1>1. access[a].pc = "served" /\ access[a].op = "manage" BY DEF Served
<1>2. /\ f \in FlowCalls /\ FlowDated(f) /\ Recorded(f) /\ Judged(f)
      /\ flow[f].params.resource = "merchant"
  BY <1>1, BehindRequest DEF Api
<1>3. flow[f].hwk BY <1>2, AccessAssumption DEF Judged, NeedsMfa
<1>4. PICK c \in Calls : DatedTo(c, f) BY <1>2, <1>3 DEF FlowDated
<1>5. flow[f].auth >= 0 BY <1>4 DEF AccessInv, DatedTo
<1> QED BY <1>2, <1>3, <1>5, FactorSince

(* Sensitive operations are served only to users who used a passkey in the *)
(* session behind the token: recently for an approval, ever at the         *)
(* merchant API.                                                           *)
THEOREM ServedOnlyProven == AccessSpec => []ServedIsProven
PROOF
<1>1. AccessInv => ServedIsProven BY AccessFresh, AccessMerchant DEF ServedIsProven
<1> QED BY <1>1, AccessInductive, PTL

(* What is served is what was approved: by the client that started the     *)
(* request, at the API it named, and with consent where it is not ours.    *)
LEMMA AccessApproved == AccessInv => ServedAsApproved
PROOF
<1> SUFFICES ASSUME AccessInv, NEW a \in Accesses, Served(a, AccessOps)
             PROVE  LET me == flow[GrantOf(a)] IN
                    /\ token[access[a].token].client = me.params.client
                    /\ me.params.resource = Api(access[a].op)
                    /\ me.params.client \notin FirstParty => me.consent
                    /\ access[a].op = "manage" => "merchant" \in me.params.scope
  BY DEF ServedAsApproved
<1>1. access[a].pc = "served" BY DEF Served
<1>2. /\ Passes(a) /\ TokenOfGrant(access[a].token) /\ token[access[a].token].pc = "signed"
      /\ Judged(GrantOf(a)) /\ flow[GrantOf(a)].params.resource = Api(access[a].op)
      /\ Claims(access[a].token).scope = flow[GrantOf(a)].params.scope
  BY <1>1, BehindRequest
<1> QED BY <1>1, <1>2 DEF TokenOfGrant, Judged, Passes, GrantOf

THEOREM OnlyAsApproved == AccessSpec => []ServedAsApproved
PROOF
  BY AccessApproved, AccessInductive, PTL

(* After a step-up with max_age, an operation asks for another only when   *)
(* the rest of StepUpMaxAge has passed.                                    *)
LEMMA AccessStepUp == AccessInv => StepUpSuffices
PROOF
<1> SUFFICES ASSUME AccessInv, NEW a \in Accesses, access[a].pc = "step_up", flow[GrantOf(a)].params.step_up
             PROVE  access[a].at - flow[GrantOf(a)].at > StepUpMaxAge - flow[GrantOf(a)].params.max_age
  BY DEF StepUpSuffices
<1> DEFINE f == GrantOf(a)
<1>1. /\ f \in FlowCalls /\ Recorded(f) /\ Judged(f) /\ Passes(a)
      /\ Claims(access[a].token).hwk = flow[f].hwk /\ Claims(access[a].token).auth = flow[f].auth
  BY BehindRequest
<1>2. /\ access[a].at \in Int /\ flow[f].auth \in Int /\ flow[f].at \in Int /\ StepUpMaxAge \in Int
      /\ flow[f].params.max_age \in Int
  BY <1>1, FlowType, AccessAssumption DEF AccessInv, AccessTypeOK, AccessState, FlowInv, Recorded, ParkedRequest
<1>3. flow[f].hwk /\ flow[f].at - flow[f].auth <= flow[f].params.max_age BY <1>1 DEF Judged, NeedsMfa
<1>4. ~(access[a].at - flow[f].auth <= StepUpMaxAge) BY <1>1, <1>3 DEF Passes
<1> QED BY <1>2, <1>3, <1>4

THEOREM StepUpIsEnough == AccessSpec => []StepUpSuffices
PROOF
  BY AccessStepUp, AccessInductive, PTL

(* The tokens of a revoked grant are those of calls that read it before,   *)
(* and none is accepted after its life.                                    *)
THEOREM RevokedGrantsRunOut == AccessSpec => RevokedRunsOut
PROOF
<1> DEFINE RunsOut == \A a \in Accesses : access[a].pc = "idle" /\ access'[a].pc = "verified" =>
                        LET t == access'[a].token IN
                        /\ now - token[t].iat <= AccessTTL + Leeway
                        /\ revoked[token[t].grant] # None => token[t].loaded <= revoked[token[t].grant]
<1>1. AccessInv /\ [AccessNext]_accessVars => [RunsOut]_accessVars
  <2> SUFFICES ASSUME AccessInv, AccessNext, NEW a \in Accesses, access[a].pc = "idle", access'[a].pc = "verified"
               PROVE  LET t == access'[a].token IN
                      /\ now - token[t].iat <= AccessTTL + Leeway
                      /\ revoked[token[t].grant] # None => token[t].loaded <= revoked[token[t].grant]
    OBVIOUS
  <2>1. AccessTypeOK /\ now \in Int BY DEF AccessInv, FlowInv, IInv, TypeOK
  <2>2. Authenticate(a)
    <3>1. ~UNCHANGED access OBVIOUS
    <3>2. PICK b \in Accesses : Authenticate(b) \/ Perform(b)
      BY <3>1 DEF AccessNext, GrantStep, tokenVars, LoadGrant, Sign, Revoke, AccessFinished
    <3>3. b = a BY <2>1, <3>2 DEF Authenticate, Perform, AccessTypeOK
    <3> QED BY <3>2, <3>3 DEF Perform
  <2>3. PICK op \in AccessOps, t \in TokenCalls :
          /\ token[t].pc = "signed" /\ Verifies(t, op)
          /\ access' = [access EXCEPT ![a] = [pc |-> "verified", op |-> op, token |-> t, at |-> now]]
    BY <2>2 DEF Authenticate
  <2>4. access'[a].token = t /\ t \in TokenCalls /\ token[t].pc = "signed" /\ Verifies(t, op)
    BY <2>1, <2>3 DEF AccessTypeOK
  <2>5. token[t].iat \in Int /\ AccessTTL \in Int /\ Leeway \in Int BY <2>1, <2>4, TokenType, AccessAssumption
  <2>6. token[t].iat + AccessTTL + Leeway >= now BY <2>4 DEF Verifies, Claims
  <2>7. TokenOfGrant(t) BY <2>4 DEF AccessInv
  <2> QED BY <2>1, <2>4, <2>5, <2>6, <2>7 DEF TokenOfGrant
<1>2. AccessSpec => [][RunsOut]_accessVars BY <1>1, AccessInductive, PTL DEF AccessSpec
<1> QED BY <1>2 DEF RevokedRunsOut

-----------------------------------------------------------------------------
(***************************************************************************)
(* SignInScreens.  The screens make calls as the handlers' clients might;  *)
(* the sign-up form is consistent while its user lets one call end before  *)
(* the next, though the address may be edited during a check.              *)
(***************************************************************************)
(* One check at most is in flight, and only while the address is shown; a  *)
(* call of the dialog or of the password step is about the challenge that  *)
(* the form holds and the address that it shows.                           *)
Addresses ==
  /\ \A i \in Checks : check[i] # Nothing => step = "email"
  /\ \A i, j \in Checks : check[i] # Nothing /\ check[j] # Nothing => i = j
  /\ step \in {"otp", "password"} => held \in Challenge
  /\ step = "password" => held.verified /\ held.email = email
  /\ api # Nothing =>
       /\ api[2] = held /\ api[3] = email
       /\ step = IF api[1] = "finalize" THEN "password" ELSE "otp"

FormInv == FormTypeOK /\ Addresses

(* The call that the screen is in, and whose session its cookie names.     *)
Carries ==
  /\ busyOn # None => /\ ask # None
                      /\ IF ask \in InFlow THEN busyOn \in FlowCalls
                         ELSE busyOn \in Calls /\ call[busyOn].op = Operation
  /\ jar \in Started \cup {None}

AppInv == AppTypeOK /\ Carries /\ FormInv

-----------------------------------------------------------------------------
LEMMA FormInitInv == FormInit => FormInv
PROOF
<1> SUFFICES ASSUME FormInit PROVE FormInv OBVIOUS
<1>1. faults \in 0..MaxFaults BY SignUpScreenAssumption DEF FormInit
<1>2. \A i \in Checks : check[i] = Nothing BY DEF FormInit
<1>3. check \in [Checks -> {"check", "start"} \X Emails \cup {Nothing}] BY DEF FormInit
<1>4. FormTypeOK BY <1>1, <1>3 DEF FormInit, FormTypeOK
<1>5. Addresses BY <1>2 DEF FormInit, Addresses
<1> QED BY <1>4, <1>5 DEF FormInv

LEMMA FaultType == ASSUME FormTypeOK, Fault PROVE faults' \in 0..MaxFaults
PROOF
  BY SignUpScreenAssumption DEF FormTypeOK, Fault

(* A step on one check: the others are as they were.                       *)
LEMMA StartCheckForm == ASSUME FormInv, Waits, NEW i \in Checks, StartCheck(i) PROVE FormInv'
PROOF
<1>1. check' = [check EXCEPT ![i] = <<"check", email>>] BY DEF StartCheck
<1>2. check'[i] = <<"check", email>> /\ \A j \in Checks \ {i} : check'[j] = check[j]
  BY <1>1 DEF FormInv, FormTypeOK
<1>3. FormTypeOK'
  <2>1. <<"check", email>> \in {"check", "start"} \X Emails BY DEF FormInv, FormTypeOK
  <2>2. check' \in [Checks -> {"check", "start"} \X Emails \cup {Nothing}]
    BY <1>1, <2>1 DEF FormInv, FormTypeOK
  <2> QED BY <2>2 DEF StartCheck, FormInv, FormTypeOK
<1>4. \A j \in Checks : check[j] = Nothing BY DEF Waits
<1>5. api = Nothing BY DEF StartCheck, FormInv, Addresses
<1>6. Addresses' BY <1>2, <1>4, <1>5 DEF StartCheck, FormInv, Addresses
<1> QED BY <1>3, <1>6 DEF FormInv

LEMMA CheckFailsForm == ASSUME FormInv, NEW i \in Checks, CheckFails(i) PROVE FormInv'
PROOF
<1>1. check' = [check EXCEPT ![i] = Nothing] BY DEF CheckFails
<1>2. check'[i] = Nothing /\ \A j \in Checks \ {i} : check'[j] = check[j] BY <1>1 DEF FormInv, FormTypeOK
<1>3. FormTypeOK'
  <2>1. check' \in [Checks -> {"check", "start"} \X Emails \cup {Nothing}]
    BY <1>1 DEF FormInv, FormTypeOK
  <2>2. faults' \in 0..MaxFaults BY FaultType DEF CheckFails, FormInv
  <2> QED BY <2>1, <2>2 DEF CheckFails, FormInv, FormTypeOK
<1>4. Addresses' BY <1>2 DEF CheckFails, FormInv, Addresses
<1> QED BY <1>3, <1>4 DEF FormInv

LEMMA CheckedForm == ASSUME FormInv, NEW i \in Checks, Checked(i) PROVE FormInv'
PROOF
<1>1. FormTypeOK /\ check[i] # Nothing BY DEF FormInv, Checked
<1>2. PICK a \in {"check", "start"}, e \in Emails : check[i] = <<a, e>> BY <1>1 DEF FormTypeOK
<1>3. CASE check[i][2] \in Registered
  <2>1. check' = [check EXCEPT ![i] = Nothing] BY <1>3 DEF Checked
  <2>2. check'[i] = Nothing /\ \A j \in Checks \ {i} : check'[j] = check[j] BY <1>1, <2>1 DEF FormTypeOK
  <2>3. FormTypeOK' BY <1>1, <1>3, <2>1 DEF Checked, FormTypeOK
  <2>4. Addresses' BY <1>3, <2>2 DEF Checked, FormInv, Addresses
  <2> QED BY <2>3, <2>4 DEF FormInv
<1>4. CASE check[i][2] \notin Registered
  <2>1. check' = [check EXCEPT ![i] = <<"start", e>>] BY <1>2, <1>4 DEF Checked
  <2>2. check'[i] = <<"start", e>> /\ \A j \in Checks \ {i} : check'[j] = check[j] BY <1>1, <2>1 DEF FormTypeOK
  <2>3. FormTypeOK' BY <1>1, <1>4, <2>1 DEF Checked, FormTypeOK
  <2>4. check'[i][2] = check[i][2] BY <1>2, <2>2
  <2>5. Addresses' BY <1>1, <1>4, <2>2, <2>4 DEF Checked, FormInv, Addresses
  <2> QED BY <2>3, <2>5 DEF FormInv
<1> QED BY <1>3, <1>4

LEMMA ChallengedForm == ASSUME FormInv, NEW i \in Checks, Challenged(i) PROVE FormInv'
PROOF
<1>1. FormTypeOK /\ check[i] # Nothing /\ step = "email" /\ api = Nothing
  BY DEF FormInv, Addresses, Challenged
<1> DEFINE new == [email |-> check[i][2], by |-> i, verified |-> FALSE]
<1>2. check[i][2] \in Emails
  <2>1. PICK a \in {"check", "start"}, e \in Emails : check[i] = <<a, e>> BY <1>1 DEF FormTypeOK
  <2> QED BY <2>1
<1>3. new \in Challenge BY <1>2 DEF Challenge
<1>4. held' = new /\ step' = "otp" /\ check' = [check EXCEPT ![i] = Nothing] BY DEF Challenged
<1>5. \A j \in Checks : check'[j] = Nothing BY <1>1, <1>4 DEF FormTypeOK, FormInv, Addresses
<1> HIDE DEF new
<1>6. FormTypeOK' BY <1>1, <1>3, <1>4 DEF Challenged, FormTypeOK
<1>7. Addresses' BY <1>1, <1>3, <1>4, <1>5 DEF Challenged, Addresses
<1> QED BY <1>6, <1>7 DEF FormInv

LEMMA EditForm == ASSUME FormInv, NEW e \in Emails, Edit(e) PROVE FormInv'
PROOF
<1>1. FormTypeOK' BY DEF FormInv, FormTypeOK, Edit, LatchReset
<1>2. Addresses' BY DEF FormInv, Addresses, Edit
<1> QED BY <1>1, <1>2 DEF FormInv

LEMMA CloseDialogForm == ASSUME FormInv, api = Nothing, CloseDialog PROVE FormInv'
PROOF
<1>1. FormTypeOK' BY DEF FormInv, FormTypeOK, CloseDialog
<1>2. Addresses' BY DEF FormInv, Addresses, CloseDialog
<1> QED BY <1>1, <1>2 DEF FormInv

LEMMA SubmitForm ==
  ASSUME FormInv, NEW op \in {"verify", "resend", "finalize"}, Submit(op)
  PROVE  FormInv'
PROOF
<1>1. /\ step = (IF op = "finalize" THEN "password" ELSE "otp") /\ held \in Challenge
      /\ api' = <<op, held, email>> /\ email \in Emails
  BY DEF Submit, FormInv, FormTypeOK, Addresses
<1>2. api'[1] = op /\ api'[2] = held /\ api'[3] = email BY <1>1
<1>3. FormTypeOK'
  <2>1. api' \in {"verify", "resend", "finalize"} \X Challenge \X Emails BY <1>1
  <2> QED BY <2>1 DEF FormInv, FormTypeOK, Submit
<1>4. Addresses' BY <1>1, <1>2 DEF FormInv, Addresses, Submit
<1> QED BY <1>3, <1>4 DEF FormInv

LEMMA ApiFailsForm == ASSUME FormInv, ApiFails PROVE FormInv'
PROOF
<1>1. FormTypeOK'
  <2>1. faults' \in 0..MaxFaults BY FaultType DEF ApiFails, FormInv
  <2> QED BY <2>1 DEF FormInv, FormTypeOK, ApiFails
<1>2. Addresses' BY DEF FormInv, Addresses, ApiFails
<1> QED BY <1>1, <1>2 DEF FormInv

LEMMA ApiAnswersForm == ASSUME FormInv, ApiAnswers PROVE FormInv'
PROOF
<1> DEFINE op == api[1]
           ok == Accepted(op, api[2], api[3])
<1>1. /\ FormTypeOK /\ api # Nothing /\ api[2] = held /\ api[3] = email /\ api' = Nothing
      /\ UNCHANGED <<email, emailChecked, emailTaken, check, faults>> /\ busy' = FALSE
      /\ step = IF op = "finalize" THEN "password" ELSE "otp"
      /\ held \in Challenge /\ email \in Emails
  BY DEF FormInv, FormTypeOK, Addresses, ApiAnswers
<1>2. /\ error' = ~ok /\ step' = StepAfter(op, ok)
      /\ held' = IF ok /\ op # "finalize" THEN [held EXCEPT !.verified = (op = "verify")] ELSE held
      /\ created' = IF ok /\ op = "finalize" THEN email ELSE created
  BY <1>1 DEF ApiAnswers
<1>3. held' \in Challenge /\ held'.email = held.email BY <1>1, <1>2 DEF Challenge
<1>4. step' \in {"otp", "password"} BY <1>1, <1>2 DEF StepAfter
<1>5. step' = "password" => held'.verified /\ held'.email = email
  <2>1. CASE op = "finalize" BY <1>1, <1>2, <2>1 DEF FormInv, Addresses
  <2>2. CASE op # "finalize" /\ step' = "password"
    <3>1. ok /\ op = "verify" BY <1>1, <1>2, <2>2 DEF StepAfter
    <3>2. held' = [held EXCEPT !.verified = TRUE] BY <1>2, <3>1
    <3>3. held.email = email BY <1>1, <3>1 DEF Accepted
    <3> QED BY <1>1, <1>3, <3>2, <3>3 DEF Challenge
  <2> QED BY <2>1, <2>2
<1>6. \A i \in Checks : check[i] = Nothing BY <1>1 DEF FormInv, Addresses
<1>7. ok \in BOOLEAN BY DEF Accepted
<1>8. FormTypeOK' BY <1>1, <1>2, <1>3, <1>4, <1>7 DEF FormTypeOK
<1>9. Addresses' BY <1>1, <1>3, <1>4, <1>5, <1>6 DEF Addresses
<1> QED BY <1>8, <1>9 DEF FormInv

LEMMA FormStepInv ==
  ASSUME FormInv, FormAnswers \/ Patient \/ UNCHANGED form
  PROVE  FormInv'
PROOF
<1>1. CASE UNCHANGED form BY <1>1 DEF form, FormInv, FormTypeOK, Addresses
<1>2. CASE FormAnswers
  BY <1>2, ApiAnswersForm, ApiFailsForm, CheckedForm, ChallengedForm, CheckFailsForm DEF FormAnswers
<1>3. CASE Patient
  BY <1>3, StartCheckForm, EditForm, CloseDialogForm, SubmitForm DEF Patient
<1> QED BY <1>1, <1>2, <1>3

-----------------------------------------------------------------------------
LEMMA AdvanceOp == ASSUME IInv, NEW c \in Calls, Advance(c) PROVE call'[c].op = call[c].op
PROOF
<1>1. TypeOK /\ call[c] \in CallState BY CallType DEF IInv
<1>2. CASE TakeChallenge(c) BY <1>1, <1>2 DEF TakeChallenge, Fail, Go, TypeOK, CallState
<1>3. CASE ReadPasskeys(c) BY <1>1, <1>3 DEF ReadPasskeys, TypeOK, CallState
<1>4. CASE Load(c) \/ Factors(c) \/ StoreChallenge(c)
  BY <1>1, <1>4 DEF Load, Factors, StoreChallenge, Fail, Go, TypeOK, CallState
<1>5. CASE RecordUse(c) \/ InsertPasskey(c) \/ AddMethod(c)
  BY <1>1, <1>5 DEF RecordUse, InsertPasskey, AddMethod, Fail, Go, TypeOK, CallState
<1>6. CASE DeletePasskey(c) \/ EndSession(c) \/ StartSession(c)
  BY <1>1, <1>6 DEF DeletePasskey, EndSession, StartSession, Fail, Go, TypeOK, CallState
<1> QED BY <1>2, <1>3, <1>4, <1>5, <1>6 DEF Advance

LEMMA BeginOp ==
  ASSUME TypeOK, NEW c \in Calls, NEW op, NEW new \in CallState, Begin(c, op, new)
  PROVE  call'[c].op = op /\ call'[c].cookie = new.cookie
PROOF
  BY DEF Begin, TypeOK, CallState

(* Every step of the app is one that the handlers allow.                   *)
LEMMA SendSteps ==
  ASSUME IInv, Carries, Send, ask \in Asks
  PROVE  /\ FlowStep
         /\ busyOn' # None
         /\ IF ask \in InFlow THEN busyOn' \in FlowCalls ELSE busyOn' \in Calls /\ call'[busyOn'].op = Operation
PROOF
<1>1. CASE ask \in InFlow
  <2>1. PICK f \in FlowCalls :
          /\ BeginFlow(f, IF ask \in {"get", "show"} THEN "get" ELSE "complete", Parked, jar, ask = "allow")
          /\ busyOn' = f
    BY <1>1, Zenon DEF Send
  <2>2. Parked \in Requests BY ScreensAssumption DEF Parked
  <2> DEFINE op == IF ask \in {"get", "show"} THEN "get" ELSE "complete"
  <2>3. /\ op \in FlowOffered /\ jar \in Started \cup {None} /\ (ask = "allow") \in BOOLEAN
        /\ op # "complete" => ~(ask = "allow") /\ op # "deny"
    BY <1>1, ScreensAssumption DEF Carries, InFlow
  <2>4. FlowArrives(f) BY <2>1, <2>2, <2>3 DEF FlowArrives
  <2>5. f # None BY AuthRequestsAssumption
  <2> QED BY <1>1, <2>1, <2>4, <2>5 DEF FlowStep
<1>2. CASE ask \notin InFlow
  <2>1. PICK c \in Calls :
          /\ CASE ask = "password" -> Password(c) /\ call'[c].user = User
               [] ask \in {"mount", "factor_options", "register_options"} ->
                    WithCookie(c) /\ call'[c].op = Operation
               [] ask = "factor" -> /\ Answer(c) /\ call'[c].op = "factor" /\ call'[c].answer = given
                                    /\ call[given].keys[call'[c].key] # None
               [] ask = "register" -> Register(c) /\ call'[c].answer = given
          /\ busyOn' = c /\ UNCHANGED flowVars
    BY <1>2, Zenon DEF Send
  <2>2. ask \in {"password", "mount", "factor_options", "register_options", "factor", "register"}
    BY <1>2 DEF Asks, InFlow
  <2>3. \/ ask = "password" /\ Password(c)
        \/ ask \in {"mount", "factor_options", "register_options"} /\ WithCookie(c) /\ call'[c].op = Operation
        \/ ask = "factor" /\ Answer(c) /\ call'[c].op = ask
        \/ ask = "register" /\ Register(c)
    BY <2>1, <2>2
  <2>4. Arrive(c) BY <2>3 DEF Arrive
  <2>5. call'[c].op = Operation
    <3>1. TypeOK /\ NoCall \in CallState BY BlankType DEF IInv
    <3>2. CASE ask = "password"
      <4>1. PICK s \in Started \cup {None}, u \in Users : Begin(c, "password", [NoCall EXCEPT !.cookie = s, !.user = u])
        BY <2>3, <3>2 DEF Password
      <4>2. [NoCall EXCEPT !.cookie = s, !.user = u] \in CallState BY <3>1 DEF CallState, Started
      <4> QED BY <3>1, <3>2, <4>1, <4>2, BeginOp DEF Operation
    <3>3. CASE ask = "register"
      <4>1. PICK s \in Started, a \in Issued("register_options"), k \in Passkeys :
              Begin(c, "register", [NoCall EXCEPT !.cookie = s, !.answer = a, !.key = k])
        BY <2>3, <3>3 DEF Register
      <4>2. [NoCall EXCEPT !.cookie = s, !.answer = a, !.key = k] \in CallState BY <3>1 DEF CallState, Started, Issued
      <4> QED BY <3>1, <3>3, <4>1, <4>2, BeginOp DEF Operation
    <3>4. CASE ask = "factor" BY <2>3, <3>4 DEF Operation
    <3> QED BY <2>3, <3>2, <3>3, <3>4
  <2>6. c # None BY SignInAssumption
  <2> QED BY <1>2, <2>1, <2>4, <2>5, <2>6 DEF FlowStep, SignInStep
<1> QED BY <1>1, <1>2

LEMMA AppSteps == ASSUME IInv, Carries, AppTypeOK, [AppNext]_appVars PROVE [FlowNext]_allVars
PROOF
<1>1. CASE Open
  <2>1. Parked \in Requests BY ScreensAssumption DEF Parked
  <2> QED BY <1>1, <2>1 DEF Open, FlowNext, FlowStep
<1>2. CASE Send BY <1>2, SendSteps DEF FlowNext, AppTypeOK, Send
<1>3. CASE Serve BY <1>3 DEF Serve, FlowNext, FlowStep, SignInStep
<1>4. CASE AppTick BY <1>4 DEF AppTick, FlowNext, FlowStep, SignInStep
<1>5. CASE Press \/ SignedUp \/ Receive \/ SigningUp \/ Ended
  BY <1>5 DEF Press, SignedUp, Receive, SigningUp, Ended, appVars
<1> QED BY <1>1, <1>2, <1>3, <1>4, <1>5 DEF AppNext, AppStep, appVars

LEMMA AfterTyped ==
  ASSUME ask \in Asks, screen \in AppScreens, NEW next
  PROVE  After(next)[1] \in AppScreens /\ After(next)[2] \in Asks \cup {None}
PROOF
<1>1. \/ ask \in {"password", "get"} \/ ask \in {"mount", "factor_options", "register_options"}
      \/ ask \in {"factor", "register", "show"} \/ ask \in {"complete", "allow"}
  BY DEF Asks
<1>2. CASE ask = "password" BY <1>2 DEF After, AppScreens, Asks
<1>3. CASE ask = "get"
  <2>1. next \in {"consent", "mfa", "mfa_enrollment"} =>
          Route(next)[1] \in AppScreens /\ Route(next)[2] \in Asks \cup {None}
    BY DEF Route, AppScreens, Asks
  <2> HIDE DEF Route
  <2> QED BY <1>3, <2>1 DEF After, AppScreens, Asks
<1>4. CASE ask \in {"mount", "factor_options", "register_options"} BY <1>4 DEF After, Asks
<1>5. CASE ask \in {"factor", "register", "show"} BY <1>5 DEF After, Asks
<1>6. CASE ask \in {"complete", "allow"} BY <1>6 DEF After, AppScreens
<1> QED BY <1>1, <1>2, <1>3, <1>4, <1>5, <1>6

LEMMA AppNextInv == FlowInv /\ AppInv /\ [AppNext]_appVars => FlowInv' /\ AppInv'
PROOF
<1> SUFFICES ASSUME FlowInv, AppInv, [AppNext]_appVars PROVE FlowInv' /\ AppInv' OBVIOUS
<1>1. IInv /\ AppTypeOK /\ Carries /\ FormInv BY DEF FlowInv, AppInv
<1>2. [FlowNext]_allVars BY <1>1, AppSteps
<1>3. FlowInv' BY <1>2, FlowNextInv
<1>4. Lasting
  <2>1. CASE FlowStep BY <2>1, FlowStepLasts
  <2>2. CASE UNCHANGED allVars BY <2>2, StillLasts DEF allVars, vars
  <2>3. FlowFinished => UNCHANGED allVars BY DEF FlowFinished, Finished, allVars
  <2> QED BY <1>2, <2>1, <2>2, <2>3 DEF FlowNext
<1>5. Started \subseteq Started' BY <1>4 DEF Lasting, Started
<1>6. FormInv'
  <2>1. FormAnswers \/ Patient \/ UNCHANGED form
    BY DEF AppNext, AppStep, Open, Press, SignedUp, Send, Receive, Serve, AppTick, Ended, appVars
  <2> QED BY <1>1, <2>1, FormStepInv
<1>7. FormTypeOK' BY <1>6 DEF FormInv
<1>8. CASE UNCHANGED screenVars /\ UNCHANGED call
  BY <1>1, <1>3, <1>5, <1>6, <1>7, <1>8 DEF AppInv, AppTypeOK, Carries, Operation, screenVars
<1>9. CASE Open
  <2>1. screen' \in AppScreens BY <1>9 DEF Open, AppScreens
  <2>2. UNCHANGED <<ask, busyOn, jar, given, call>> BY <1>9 DEF Open, Authorize, vars
  <2> QED BY <1>1, <1>3, <1>5, <1>6, <1>7, <2>1, <2>2 DEF AppInv, AppTypeOK, Carries, Operation
<1>10. CASE Press \/ SignedUp
  <2>1. ask = None /\ ask' \in Asks /\ UNCHANGED <<screen, busyOn, jar, given, call>>
    BY <1>10 DEF Press, SignedUp, FirstAsk, Asks, allVars, vars
  <2>2. busyOn = None BY <1>1, <2>1 DEF Carries
  <2> QED BY <1>1, <1>3, <1>5, <1>6, <1>7, <2>1, <2>2 DEF AppInv, AppTypeOK, Carries, Operation
<1>11. CASE Send
  <2>1. ask \in Asks /\ ask # None /\ UNCHANGED <<screen, ask, jar, given>> BY <1>1, <1>11 DEF Send, AppTypeOK
  <2>2. IF ask \in InFlow THEN busyOn' \in FlowCalls ELSE busyOn' \in Calls /\ call'[busyOn'].op = Operation
    BY <1>1, <1>11, <2>1, SendSteps
  <2> QED BY <1>1, <1>3, <1>5, <1>6, <1>7, <2>1, <2>2 DEF AppInv, AppTypeOK, Carries, Operation
<1>12. CASE Receive
  <2>1. busyOn # None /\ busyOn' = None /\ UNCHANGED call /\ ask \in Asks
    BY <1>1, <1>12 DEF Receive, Carries, AppTypeOK, allVars, vars
  <2>2. PICK goes : /\ screen' = goes[1] /\ ask' = goes[2]
                    /\ goes = IF Failed THEN Refused
                              ELSE After(IF ask \in InFlow THEN flow[busyOn].next ELSE None)
    BY <1>12 DEF Receive
  <2>3. screen' \in AppScreens /\ ask' \in Asks \cup {None}
    <3>1. CASE Failed BY <1>1, <2>2, <3>1 DEF AppTypeOK, Refused, AppScreens, Asks
    <3>2. CASE ~Failed BY <1>1, <2>1, <2>2, <3>2, AfterTyped DEF AppTypeOK
    <3> QED BY <3>1, <3>2
  <2>4. jar' \in Started' \cup {None}
    <3>1. CASE ask = "password" /\ Succeeded
      <4>1. busyOn \in Calls /\ call[busyOn].op = "password" /\ call[busyOn].pc = "done"
        BY <1>1, <2>1, <3>1 DEF Carries, Operation, InFlow, Succeeded
      <4> QED BY <1>12, <2>1, <3>1, <4>1 DEF Receive, Started
    <3>2. CASE ~(ask = "password" /\ Succeeded) BY <1>1, <1>5, <1>12, <3>2 DEF Receive, Carries
    <3> QED BY <3>1, <3>2
  <2>5. jar' \in Calls \cup {None} BY <2>4 DEF Started
  <2>6. given' \in Calls \cup {None} BY <1>1, <1>12 DEF Receive, Carries, InFlow, AppTypeOK
  <2> QED BY <1>3, <1>6, <1>7, <2>1, <2>3, <2>4, <2>5, <2>6 DEF AppInv, AppTypeOK, Carries, Operation
<1>13. CASE Serve
  <2>1. UNCHANGED <<screen, ask, busyOn, jar, given>> BY <1>13 DEF Serve, screenVars
  <2>2. ASSUME NEW c \in Calls PROVE call'[c].op = call[c].op \/ c # busyOn
    <3>1. CASE busyOn \in Calls /\ Advance(busyOn) BY <1>1, <3>1, AdvanceOp
    <3>2. CASE busyOn \in FlowCalls /\ FlowAdvance(busyOn)
      BY <3>2, FlowTouches DEF vars
    <3> QED BY <1>13, <3>1, <3>2 DEF Serve
  <2> QED BY <1>1, <1>3, <1>5, <1>6, <1>7, <2>1, <2>2 DEF AppInv, AppTypeOK, Carries, Operation
<1>14. CASE SigningUp \/ AppTick \/ Ended \/ UNCHANGED appVars
  BY <1>3, <1>8, <1>14 DEF SigningUp, AppTick, Tick, Ended, appVars, allVars, vars, screenVars
<1> QED BY <1>3, <1>9, <1>10, <1>11, <1>12, <1>13, <1>14 DEF AppNext, AppStep

LEMMA AppInitInv == AppInit => FlowInv /\ AppInv
PROOF
<1> SUFFICES ASSUME AppInit PROVE FlowInv /\ AppInv OBVIOUS
<1>1. FlowInv BY FlowInitInv DEF AppInit
<1>2. FormInv BY FormInitInv DEF AppInit
<1> QED BY <1>1, <1>2 DEF AppInit, AppInv, AppTypeOK, AppScreens, Carries, FormInv

LEMMA AppInductive == AppSpec => [](FlowInv /\ AppInv)
PROOF
  BY AppInitInv, AppNextInv, PTL DEF AppSpec

(* The screens keep to their routes and calls, the form to its values.     *)
THEOREM AppTypeCorrect == AppSpec => []AppTypeOK
PROOF
<1>1. AppInv => AppTypeOK BY DEF AppInv
<1> QED BY <1>1, AppInductive, PTL

(* The screens make only calls that the handlers' own clients might make:  *)
(* what holds of /authorize and flow.rs holds of them with the app.        *)
THEOREM AppUsesFlow == AppSpec => FlowSpec
PROOF
<1>1. AppInit => Init /\ FlowInit BY DEF AppInit
<1>2. FlowInv /\ AppInv /\ [AppNext]_appVars => [FlowNext]_allVars BY AppSteps DEF FlowInv, AppInv
<1> QED BY <1>1, <1>2, AppInductive, PTL DEF AppSpec, FlowSpec

(* The password step works: the challenge it will finalize is verified for *)
(* the address shown.                                                      *)
THEOREM PasswordStepIsReady == AppSpec => []PasswordStepReady
PROOF
<1>1. AppInv => PasswordStepReady BY DEF AppInv, FormInv, Addresses, PasswordStepReady
<1> QED BY <1>1, AppInductive, PTL
===============================================================================
