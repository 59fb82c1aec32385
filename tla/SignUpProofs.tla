---------------------------- MODULE SignUpProofs ----------------------------
(***************************************************************************)
(* Proofs about SignUp, for any limits and delays, any addresses and       *)
(* challenges and any finite set of concurrent requests.                   *)
(***************************************************************************)
EXTENDS SignUp, TLAPS, FiniteSetTheorems

(* Whoever marks, holds or uses a verified challenge read a code first. *)
ReadFirst ==
  /\ \A c \in Challenges : challenge[c].verified => challenge[c].email \in proven
  /\ \A r \in Requests : request[r].pc \in {"mark", "create", "session"} =>
       request[r].email \in proven

(* A challenge that is not used yet is no row and has no guesses. *)
UnusedIsBlank ==
  \A c \in Challenges : challenge[c].email = None =>
    ~challenge[c].live /\ ~challenge[c].verified /\ guesses[c] = 0 /\ c \notin sessions

(* An account is for the address of its challenge. *)
AccountOfItsChallenge ==
  \A e \in Emails : account[e] # None => challenge[account[e]].email = e

(* A session is about to start for the creator only. *)
CreatorAwaitsSession ==
  \A r \in Requests : request[r].pc = "session" => account[request[r].email] = request[r].id

IInv ==
  /\ TypeOK
  /\ ReadFirst
  /\ UnusedIsBlank
  /\ AccountOfItsChallenge
  /\ CreatorAwaitsSession
  /\ AccountsAreProven
  /\ SpentByItsAccount
  /\ OnlyCreatorSignedIn

LEMMA InitIInv == Init => IInv
BY SignUpAssumption DEF Init, IInv, TypeOK, ReadFirst, UnusedIsBlank, AccountOfItsChallenge,
  CreatorAwaitsSession, AccountsAreProven, SpentByItsAccount, OnlyCreatorSignedIn,
  Unused, Idle, ChallengeState, RequestState

(* DELETE takes the one row. *)
LEMMA DeletedRow ==
  ASSUME TypeOK, NEW c \in Challenges
  PROVE  /\ Deleted(c) \in [Challenges -> ChallengeState]
         /\ Deleted(c)[c].email = challenge[c].email
         /\ ~Deleted(c)[c].live /\ ~Deleted(c)[c].verified
         /\ \A d \in Challenges \ {c} : Deleted(c)[d] = challenge[d]
<1> DEFINE gone == [Unused EXCEPT !.email = challenge[c].email]
<1>1. challenge \in [Challenges -> ChallengeState] /\ challenge[c].email \in Emails \cup {None}
  BY DEF TypeOK, ChallengeState
<1>2. /\ gone \in ChallengeState /\ gone.email = challenge[c].email
      /\ ~gone.live /\ ~gone.verified
  <2>1. Unused \in ChallengeState /\ ~Unused.live /\ ~Unused.verified
    BY SignUpAssumption DEF Unused, ChallengeState
  <2> QED
    BY <1>1, <2>1 DEF ChallengeState
<1>3. Deleted(c) = [challenge EXCEPT ![c] = gone]
  BY DEF Deleted
<1> HIDE DEF gone
<1> QED
  BY <1>1, <1>2, <1>3

(* Every step keeps the types. *)
LEMMA NextTypeOK ==
  ASSUME TypeOK, Next
  PROVE  TypeOK'
<1> USE SignUpAssumption
<1>1. ASSUME NEW r \in Requests, NEW e \in Emails, Start(r, e) PROVE TypeOK'
  BY <1>1 DEF Start, Go, TypeOK, history, RequestState
<1>2. ASSUME NEW r \in Requests, InsertChallenge(r) PROVE TypeOK'
  BY <1>2 DEF InsertChallenge, Go, TypeOK, history, RequestState, Fresh, ChallengeState
<1>3. ASSUME NEW r \in Requests, SendMail(r) PROVE TypeOK'
  BY <1>3 DEF SendMail, Answer, TypeOK, history, RequestState, Idle
<1>4. ASSUME NEW r \in Requests, NEW c \in Challenges, NEW e \in Emails, Resend(r, c, e)
      PROVE TypeOK'
  BY <1>4 DEF Resend, Row, Go, TypeOK, history, RequestState
<1>5. ASSUME NEW r \in Requests, ReplaceCode(r) PROVE TypeOK'
  BY <1>5 DEF ReplaceCode, Row, Go, TypeOK, history, RequestState, Fresh, ChallengeState
<1>6. ASSUME NEW r \in Requests, ReplaceNothing(r) \/ EmailTaken(r) PROVE TypeOK'
  BY <1>6 DEF ReplaceNothing, EmailTaken, Answer, TypeOK, history, RequestState, Idle
<1>7. ASSUME NEW r \in Requests, NEW c \in Challenges, NEW e \in Emails, NEW code \in 0..MaxCodes,
             Verify(r, c, e, code)
      PROVE TypeOK'
  <2>1. challenge[c].code \in 0..MaxCodes /\ challenge[c].email = e
    BY <1>7 DEF Verify, Row, TypeOK, ChallengeState
  <2>2. PICK pc \in {"mark", "count"} :
          request' = [request EXCEPT ![r] = [pc |-> pc, id |-> c, email |-> e,
                                            code |-> challenge[c].code]]
    BY <1>7 DEF Verify, Go
  <2>3. request' \in [Requests -> RequestState]
    BY <2>1, <2>2 DEF TypeOK, RequestState
  <2>4. proven' \subseteq Emails /\ guesses' \in [Challenges -> Nat]
    BY <1>7, <2>1 DEF Verify, TypeOK
  <2> QED
    BY <1>7, <2>1, <2>2, <2>3, <2>4 DEF Verify, TypeOK
<1>8. ASSUME NEW r \in Requests, Count(r) PROVE TypeOK'
  BY <1>8 DEF Count, Answer, TypeOK, history, RequestState, ChallengeState, Idle
<1>9. ASSUME NEW r \in Requests, Mark(r) PROVE TypeOK'
  <2> DEFINE c == request[r].id
  <2>1. c \in Challenges /\ challenge[c] \in ChallengeState
    BY <1>9 DEF Mark, TypeOK
  <2>2. challenge' \in [Challenges -> ChallengeState]
        /\ \A d \in Challenges : challenge'[d].email = challenge[d].email
    <3>1. CASE challenge[c].live
      BY <1>9, <2>1, <3>1 DEF Mark, TypeOK, ChallengeState
    <3>2. CASE ~challenge[c].live
      BY <1>9, <3>2 DEF Mark, TypeOK
    <3> QED
      BY <3>1, <3>2
  <2> QED
    BY <1>9, <2>2 DEF Mark, Answer, TypeOK, history, RequestState, Idle
<1>10. ASSUME NEW r \in Requests, NEW c \in Challenges, NEW e \in Emails, Finalize(r, c, e)
       PROVE TypeOK'
  BY <1>10 DEF Finalize, Row, Go, TypeOK, history, RequestState
<1>11. ASSUME NEW r \in Requests, CreateAccount(r) PROVE TypeOK'
  <2>1. PICK c \in Challenges : c = request[r].id /\ request[r].email \in Emails
    BY <1>11 DEF CreateAccount, TypeOK
  <2>2. challenge' \in [Challenges -> ChallengeState]
        /\ \A d \in Challenges : challenge'[d].email = challenge[d].email
    BY <1>11, <2>1, DeletedRow DEF CreateAccount, TypeOK
  <2> QED
    BY <1>11, <2>1, <2>2 DEF CreateAccount, Go, TypeOK, history, RequestState
<1>12. ASSUME NEW r \in Requests, StartSession(r) PROVE TypeOK'
  BY <1>12 DEF StartSession, Answer, TypeOK, history, RequestState, Idle
<1>13. ASSUME NEW r \in Requests, Abort(r) PROVE TypeOK'
  BY <1>13 DEF Abort, Answer, TypeOK, RequestState, Idle
<1>14. ASSUME Tick PROVE TypeOK'
  BY <1>14 DEF Tick, TypeOK, history
<1> QED
  BY <1>1, <1>2, <1>3, <1>4, <1>5, <1>6, <1>7, <1>8, <1>9, <1>10, <1>11, <1>12, <1>13, <1>14
  DEF Next, Arrive, Handle
-----------------------------------------------------------------------------
(***************************************************************************)
(* Accounts.                                                               *)
(***************************************************************************)

(* A step that inserts no challenge, makes no account and starts no        *)
(* session.                                                                *)
Quiet ==
  /\ UNCHANGED <<account, sessions>>
  /\ proven \subseteq proven'
  /\ \A c \in Challenges :
       /\ challenge'[c].email = challenge[c].email
       /\ challenge'[c].live = challenge[c].live
       /\ challenge'[c].verified => challenge[c].verified \/ challenge[c].email \in proven
       /\ challenge[c].email = None => ~challenge'[c].verified /\ guesses'[c] = 0
  /\ \A q \in Requests :
       \/ request'[q] = request[q]
       \/ request'[q].pc \notin {"mark", "create", "session"}
       \/ request'[q].pc # "session" /\ request'[q].email \in proven'

LEMMA QuietKeepsIInv ==
  ASSUME IInv, TypeOK', Quiet
  PROVE  IInv'
<1> USE DEF IInv, Quiet
<1>1. ReadFirst'
  BY DEF ReadFirst
<1>2. UnusedIsBlank'
  BY DEF UnusedIsBlank
<1>3. AccountOfItsChallenge'
  BY DEF AccountOfItsChallenge, TypeOK
<1>4. CreatorAwaitsSession'
  BY DEF CreatorAwaitsSession
<1>5. AccountsAreProven'
  BY DEF AccountsAreProven
<1>6. SpentByItsAccount'
  BY DEF SpentByItsAccount
<1>7. OnlyCreatorSignedIn'
  BY DEF OnlyCreatorSignedIn, TypeOK
<1> QED
  BY <1>1, <1>2, <1>3, <1>4, <1>5, <1>6, <1>7

LEMMA InsertKeepsIInv ==
  ASSUME IInv, TypeOK', NEW r \in Requests, InsertChallenge(r)
  PROVE  IInv'
<1>1. PICK c \in Challenges :
        /\ challenge[c].email = None
        /\ challenge' = [challenge EXCEPT ![c] = Fresh(request[r].email, 1)]
        /\ Go(r, "mail", c, request[r].email, 1)
  BY DEF InsertChallenge
<1>2. /\ request[r].email \in Emails /\ request[r].email # None
      /\ challenge'[c] = Fresh(request[r].email, 1)
      /\ \A d \in Challenges \ {c} : challenge'[d] = challenge[d]
      /\ \A q \in Requests : q = r \/ request'[q] = request[q]
      /\ request'[r].pc = "mail"
  BY <1>1, SignUpAssumption DEF InsertChallenge, IInv, TypeOK, Go
<1>3. UNCHANGED <<account, sessions, proven, guesses>>
  BY DEF InsertChallenge, history
<1>4. \A e \in Emails : account[e] # c
  BY <1>1, SignUpAssumption DEF IInv, AccountOfItsChallenge
<1>5. c \notin sessions
  BY <1>1 DEF IInv, UnusedIsBlank
<1>6. ReadFirst'
  BY <1>2, <1>3 DEF IInv, ReadFirst, Fresh
<1>7. UnusedIsBlank'
  BY <1>2, <1>3 DEF IInv, UnusedIsBlank, Fresh
<1>8. AccountOfItsChallenge'
  BY <1>2, <1>3, <1>4 DEF IInv, AccountOfItsChallenge, TypeOK
<1>9. CreatorAwaitsSession'
  BY <1>2, <1>3 DEF IInv, CreatorAwaitsSession
<1>10. AccountsAreProven'
  BY <1>3 DEF IInv, AccountsAreProven
<1>11. SpentByItsAccount'
  BY <1>2, <1>3, <1>4 DEF IInv, SpentByItsAccount, Fresh
<1>12. OnlyCreatorSignedIn'
  BY <1>2, <1>3, <1>5 DEF IInv, OnlyCreatorSignedIn, TypeOK
<1> QED
  BY <1>6, <1>7, <1>8, <1>9, <1>10, <1>11, <1>12 DEF IInv

LEMMA CreateKeepsIInv ==
  ASSUME IInv, TypeOK', NEW r \in Requests, CreateAccount(r)
  PROVE  IInv'
<1>1. PICK c \in Challenges, e \in Emails :
        /\ c = request[r].id /\ e = request[r].email
        /\ challenge[c].email = e /\ e # None /\ c # None
  BY SignUpAssumption DEF CreateAccount, IInv, TypeOK
<1>2. challenge' = Deleted(c)
  BY <1>1 DEF CreateAccount
<1>3. challenge'[c].live = FALSE /\ \A d \in Challenges :
        /\ challenge'[d].email = challenge[d].email
        /\ challenge'[d].verified => challenge[d].verified
        /\ d # c => challenge'[d].live = challenge[d].live
  BY <1>2, DeletedRow DEF IInv
<1>4. /\ account[e] = None /\ account' = [account EXCEPT ![e] = c]
      /\ UNCHANGED <<sessions, proven, guesses>>
  BY <1>1 DEF CreateAccount, Insertable, history
<1>5. account'[e] = c /\ \A f \in Emails \ {e} : account'[f] = account[f]
  BY <1>4 DEF IInv, TypeOK
<1>6. /\ request[r].pc = "create"
      /\ request'[r].pc = "session" /\ request'[r].id = c /\ request'[r].email = e
      /\ \A q \in Requests : q = r \/ request'[q] = request[q]
  BY <1>1 DEF CreateAccount, Go, IInv, TypeOK
<1>7. e \in proven
  BY <1>1, <1>6 DEF IInv, ReadFirst
<1>8. \A d \in Challenges : challenge[d].email = e => challenge[d].live
  BY <1>1, <1>4, SignUpAssumption DEF IInv, SpentByItsAccount
<1>9. ReadFirst'
  BY <1>3, <1>4, <1>6, <1>7 DEF IInv, ReadFirst
<1>10. UnusedIsBlank'
  BY <1>1, <1>3, <1>4 DEF IInv, UnusedIsBlank
<1>11. AccountOfItsChallenge'
  <2> SUFFICES ASSUME NEW f \in Emails, account'[f] # None
               PROVE  challenge'[account'[f]].email = f
    BY DEF AccountOfItsChallenge
  <2>1. account'[f] \in Challenges
    BY DEF TypeOK
  <2> QED
    BY <1>1, <1>3, <1>5, <2>1 DEF IInv, AccountOfItsChallenge
<1>12. CreatorAwaitsSession'
  <2> SUFFICES ASSUME NEW q \in Requests, request'[q].pc = "session", q # r
               PROVE  account'[request[q].email] = request[q].id
    BY <1>5, <1>6 DEF CreatorAwaitsSession
  <2>1. request[q].pc = "session" /\ request[q].email \in Emails /\ request[q].id \in Challenges
    BY <1>6 DEF IInv, TypeOK
  <2>2. account[request[q].email] = request[q].id
    BY <2>1 DEF IInv, CreatorAwaitsSession
  <2> QED
    BY <1>4, <1>5, <2>1, <2>2, SignUpAssumption
<1>13. AccountsAreProven'
  BY <1>4, <1>5, <1>7 DEF IInv, AccountsAreProven
<1>14. SpentByItsAccount'
  <2> SUFFICES ASSUME NEW d \in Challenges, challenge[d].email # None
               PROVE  ~challenge'[d].live <=> account'[challenge[d].email] = d
    BY <1>3 DEF SpentByItsAccount
  <2>1. challenge[d].email \in Emails
    BY DEF IInv, TypeOK, ChallengeState
  <2>2. CASE challenge[d].email = e
    BY <1>3, <1>5, <1>8, <2>2
  <2>3. CASE challenge[d].email # e
    BY <1>1, <1>3, <1>5, <2>1, <2>3 DEF IInv, SpentByItsAccount
  <2> QED
    BY <2>2, <2>3
<1>15. OnlyCreatorSignedIn'
  <2> SUFFICES ASSUME NEW d \in sessions
               PROVE  account'[challenge'[d].email] = d
    BY <1>4 DEF OnlyCreatorSignedIn
  <2>1. d \in Challenges /\ challenge[d].email \in Emails
    BY DEF IInv, TypeOK, UnusedIsBlank, ChallengeState
  <2>2. account[challenge[d].email] = d /\ d # None
    BY <2>1, SignUpAssumption DEF IInv, OnlyCreatorSignedIn
  <2> QED
    BY <1>3, <1>4, <1>5, <2>1, <2>2
<1> QED
  BY <1>9, <1>10, <1>11, <1>12, <1>13, <1>14, <1>15 DEF IInv

LEMMA SessionKeepsIInv ==
  ASSUME IInv, TypeOK', NEW r \in Requests, StartSession(r)
  PROVE  IInv'
<1>1. /\ UNCHANGED <<challenge, account, proven, guesses>>
      /\ sessions' = sessions \cup {request[r].id}
      /\ request[r].pc = "session"
      /\ \A q \in Requests : request'[q] = request[q] \/ request'[q] = Idle
  BY DEF StartSession, Answer, history, IInv, TypeOK
<1>2. PICK c \in Challenges, e \in Emails :
        /\ c = request[r].id /\ e = request[r].email
        /\ challenge[c].email = e /\ e # None
  BY <1>1, SignUpAssumption DEF IInv, TypeOK
<1>3. account[e] = c
  BY <1>1, <1>2 DEF IInv, CreatorAwaitsSession
<1>4. ReadFirst' /\ UnusedIsBlank' /\ CreatorAwaitsSession'
  BY <1>1, <1>2 DEF IInv, ReadFirst, UnusedIsBlank, CreatorAwaitsSession, Idle
<1>5. AccountOfItsChallenge' /\ AccountsAreProven' /\ SpentByItsAccount'
  BY <1>1 DEF IInv, AccountOfItsChallenge, AccountsAreProven, SpentByItsAccount
<1>6. OnlyCreatorSignedIn'
  BY <1>1, <1>2, <1>3 DEF IInv, OnlyCreatorSignedIn
<1> QED
  BY <1>4, <1>5, <1>6 DEF IInv

LEMMA NextIInv ==
  ASSUME IInv, Next
  PROVE  IInv'
<1> TypeOK /\ TypeOK'
  BY NextTypeOK DEF IInv
<1> SUFFICES ASSUME ~(\E r \in Requests :
                         InsertChallenge(r) \/ CreateAccount(r) \/ StartSession(r))
             PROVE  Quiet
  BY QuietKeepsIInv, InsertKeepsIInv, CreateKeepsIInv, SessionKeepsIInv
<1>1. ASSUME NEW r \in Requests, NEW e \in Emails, Start(r, e) PROVE Quiet
  BY <1>1 DEF Start, Go, history, Quiet, IInv, TypeOK, UnusedIsBlank
<1>2. ASSUME NEW r \in Requests, SendMail(r) \/ ReplaceNothing(r) \/ EmailTaken(r) PROVE Quiet
  BY <1>2 DEF SendMail, ReplaceNothing, EmailTaken, Answer, Idle, history, Quiet, IInv, TypeOK,
    UnusedIsBlank
<1>3. ASSUME NEW r \in Requests, NEW c \in Challenges, NEW e \in Emails, Resend(r, c, e)
      PROVE Quiet
  BY <1>3 DEF Resend, Go, history, Quiet, IInv, TypeOK, UnusedIsBlank
<1>4. ASSUME NEW r \in Requests, ReplaceCode(r) PROVE Quiet
  <2>1. PICK c \in Challenges, e \in Emails, code \in Nat :
          /\ c = request[r].id /\ e = request[r].email
          /\ challenge[c].email = e /\ challenge[c].live
          /\ challenge' = [challenge EXCEPT ![c] = Fresh(e, code)]
          /\ guesses' = [guesses EXCEPT ![c] = 0]
          /\ Go(r, "mail", c, e, code)
    <3>1. challenge[request[r].id].code + 1 \in Nat
      BY <1>4 DEF ReplaceCode, TypeOK, ChallengeState
    <3> QED
      BY <1>4, <3>1 DEF ReplaceCode, Row, TypeOK
  <2>2. UNCHANGED <<account, sessions, proven>>
    BY <1>4 DEF ReplaceCode
  <2> QED
    BY <2>1, <2>2 DEF Fresh, Go, Quiet, IInv, TypeOK, UnusedIsBlank
<1>5. ASSUME NEW r \in Requests, NEW c \in Challenges, NEW e \in Emails, NEW code \in 0..MaxCodes,
             Verify(r, c, e, code)
      PROVE Quiet
  <2>1. challenge[c].email = e /\ e # None
    BY <1>5, SignUpAssumption DEF Verify, Row
  <2>2. /\ proven \subseteq proven'
        /\ \A d \in Challenges \ {c} : guesses'[d] = guesses[d]
    BY <1>5 DEF Verify, TypeOK
  <2>3. \/ e \in proven' /\ Go(r, "mark", c, e, challenge[c].code)
        \/ Go(r, "count", c, e, challenge[c].code)
    BY <1>5, <2>1 DEF Verify
  <2>4. \A q \in Requests :
          \/ request'[q] = request[q]
          \/ request'[q].pc = "mark" /\ request'[q].email = e /\ e \in proven'
          \/ request'[q].pc = "count"
    BY <2>3 DEF Go, TypeOK
  <2>5. UNCHANGED <<challenge, account, sessions>>
    BY <1>5 DEF Verify
  <2> QED
    BY <2>1, <2>2, <2>4, <2>5 DEF Quiet, IInv, UnusedIsBlank
<1>6. ASSUME NEW r \in Requests, Count(r) \/ Mark(r) PROVE Quiet
  <2>1. PICK c \in Challenges, e \in Emails :
          /\ c = request[r].id /\ e = request[r].email
          /\ challenge[c].email = e /\ e # None
    BY <1>6, SignUpAssumption DEF Count, Mark, TypeOK
  <2>2. /\ UNCHANGED <<account, sessions, proven, guesses>>
        /\ \A q \in Requests : request'[q] = request[q] \/ request'[q] = Idle
    BY <1>6 DEF Count, Mark, Answer, history, TypeOK
  <2>3. Mark(r) => e \in proven
    BY <1>6, <2>1 DEF Mark, IInv, ReadFirst
  <2>4. \/ challenge' = challenge
        \/ Count(r) /\ challenge' = [challenge EXCEPT ![c].attempts = @ + 1]
        \/ Mark(r) /\ challenge' = [challenge EXCEPT ![c].verified = TRUE]
    BY <1>6, <2>1, Zenon DEF Count, Mark
  <2>5. \A d \in Challenges :
          /\ challenge'[d].email = challenge[d].email
          /\ challenge'[d].live = challenge[d].live
          /\ challenge'[d].verified => challenge[d].verified \/ (d = c /\ Mark(r))
    BY <2>4 DEF TypeOK, ChallengeState
  <2> QED
    BY <2>1, <2>2, <2>3, <2>5 DEF Quiet, IInv, UnusedIsBlank, Idle
<1>7. ASSUME NEW r \in Requests, NEW c \in Challenges, NEW e \in Emails, Finalize(r, c, e)
      PROVE Quiet
  <2>1. e \in proven
    BY <1>7 DEF Finalize, Row, IInv, ReadFirst
  <2> QED
    BY <1>7, <2>1 DEF Finalize, Go, history, Quiet, IInv, TypeOK, UnusedIsBlank
<1>8. ASSUME NEW r \in Requests, Abort(r) PROVE Quiet
  BY <1>8 DEF Abort, Answer, Idle, Quiet, IInv, TypeOK, UnusedIsBlank
<1>9. ASSUME Tick PROVE Quiet
  BY <1>9 DEF Tick, history, Quiet, IInv, UnusedIsBlank
<1> QED
  BY <1>1, <1>2, <1>3, <1>4, <1>5, <1>6, <1>7, <1>8, <1>9 DEF Next, Arrive, Handle

LEMMA StutterIInv ==
  ASSUME IInv, UNCHANGED vars
  PROVE  IInv'
BY DEF IInv, vars, TypeOK, ReadFirst, UnusedIsBlank, AccountOfItsChallenge,
  CreatorAwaitsSession, AccountsAreProven, SpentByItsAccount, OnlyCreatorSignedIn

(* The inductive invariant holds of the specification. *)
THEOREM SignUpInvariant == Spec => []IInv
<1>1. IInv /\ [Next]_vars => IInv'
  BY NextIInv, StutterIInv
<1> QED
  BY InitIInv, <1>1, PTL DEF Spec

(* Every handler and every row keeps to its types. *)
THEOREM SignUpTypes == Spec => []TypeOK
<1>1. IInv => TypeOK
  BY DEF IInv
<1> QED
  BY SignUpInvariant, <1>1, PTL

(* Only an address whose owner read a mailed code gets an account. *)
THEOREM AccountsProven == Spec => []AccountsAreProven
<1>1. IInv => AccountsAreProven
  BY DEF IInv
<1> QED
  BY SignUpInvariant, <1>1, PTL

(* A challenge is spent by the account it makes, and by nothing else. *)
THEOREM ChallengesAreSpentOnce == Spec => []SpentByItsAccount
<1>1. IInv => SpentByItsAccount
  BY DEF IInv
<1> QED
  BY SignUpInvariant, <1>1, PTL

(* A sign-up that lost the race for an address is never signed in to it. *)
THEOREM LosersAreNotSignedIn == Spec => []OnlyCreatorSignedIn
<1>1. IInv => OnlyCreatorSignedIn
  BY DEF IInv
<1> QED
  BY SignUpInvariant, <1>1, PTL

-----------------------------------------------------------------------------
(***************************************************************************)
(* Guesses.                                                                *)
(***************************************************************************)

(* Wrong codes that were compared with the current code of c and are still *)
(* to be counted.                                                          *)
Uncounted(c) == {r \in Requests : /\ request[r].pc = "count"
                                  /\ request[r].id = c
                                  /\ request[r].code = challenge[c].code}

(* A wrong code is counted, on its way to be counted, or dropped. *)
GuessesAccounted ==
  \A c \in Challenges : challenge[c].live =>
    guesses[c] <= challenge[c].attempts + Cardinality(Uncounted(c)) + drops[c]

GInv == IInv /\ GuessesAccounted /\ GuessesBounded

LEMMA UncountedIsFinite ==
  ASSUME NEW c
  PROVE  /\ IsFiniteSet(Uncounted(c)) /\ Cardinality(Uncounted(c)) \in Nat
         /\ Cardinality(Requests) \in Nat
         /\ Cardinality(Uncounted(c)) <= Cardinality(Requests)
BY SignUpAssumption, FS_Subset, FS_CardinalityType DEF Uncounted

LEMMA UncountedIsFiniteNext ==
  ASSUME NEW c
  PROVE  /\ IsFiniteSet(Uncounted(c)') /\ Cardinality(Uncounted(c)') \in Nat
         /\ Cardinality(Uncounted(c)') <= Cardinality(Requests)
BY SignUpAssumption, FS_Subset, FS_CardinalityType DEF Uncounted

(* A step that compares no wrong code, counts none and replaces none, and  *)
(* ends no handler that is about to count one.                             *)
Uneventful ==
  /\ UNCHANGED <<guesses, drops>>
  /\ \A c \in Challenges :
       /\ challenge'[c].live => challenge[c].live \/ challenge[c].email = None
       /\ challenge[c].live /\ challenge'[c].live =>
            /\ challenge'[c].code = challenge[c].code
            /\ challenge'[c].attempts >= challenge[c].attempts
  /\ \A q \in Requests :
       request[q].pc = "count" /\ request[q].code = challenge[request[q].id].code =>
         request'[q] = request[q]

LEMMA UneventfulKeepsGInv ==
  ASSUME GInv, IInv', Uneventful
  PROVE  GInv'
<1> SUFFICES GuessesAccounted' /\ GuessesBounded'
  BY DEF GInv
<1>1. GuessesBounded'
  BY DEF GInv, GuessesBounded, Uneventful
<1>2. ASSUME NEW c \in Challenges, challenge'[c].live
      PROVE  guesses'[c] <= challenge'[c].attempts + Cardinality(Uncounted(c)') + drops'[c]
  <2>1. /\ challenge'[c].attempts \in Nat /\ challenge[c].attempts \in Nat
        /\ guesses[c] \in Nat /\ drops[c] \in Nat
    BY DEF GInv, IInv, TypeOK, ChallengeState
  <2>2. CASE challenge[c].live
    <3>1. Uncounted(c) \subseteq Uncounted(c)'
      BY <1>2, <2>2 DEF Uneventful, Uncounted
    <3>2. Cardinality(Uncounted(c)) <= Cardinality(Uncounted(c)')
      BY <3>1, UncountedIsFiniteNext, FS_Subset
    <3> QED
      BY <1>2, <2>1, <2>2, <3>2, UncountedIsFinite, UncountedIsFiniteNext
      DEF GInv, GuessesAccounted, Uneventful
  <2>3. CASE challenge[c].email = None
    <3>1. guesses'[c] = 0
      BY <2>3 DEF GInv, IInv, UnusedIsBlank, Uneventful
    <3> QED
      BY <2>1, <3>1, UncountedIsFiniteNext DEF Uneventful
  <2> QED
    BY <1>2, <2>2, <2>3 DEF Uneventful
<1> QED
  BY <1>1, <1>2 DEF GuessesAccounted

LEMMA ReplaceKeepsGInv ==
  ASSUME GInv, IInv', NEW r \in Requests, ReplaceCode(r)
  PROVE  GInv'
<1> SUFFICES GuessesAccounted' /\ GuessesBounded'
  BY DEF GInv
<1>1. TypeOK /\ TypeOK'
  BY DEF GInv, IInv
<1>2. PICK c \in Challenges, e \in Emails, code \in Nat :
        /\ c = request[r].id
        /\ challenge' = [challenge EXCEPT ![c] = Fresh(e, code)]
        /\ guesses' = [guesses EXCEPT ![c] = 0]
        /\ drops' = [drops EXCEPT ![c] = 0]
        /\ Go(r, "mail", c, e, code)
  <2>1. challenge[request[r].id].code + 1 \in Nat
    BY <1>1 DEF ReplaceCode, TypeOK, ChallengeState
  <2> QED
    BY <1>1, <2>1 DEF ReplaceCode, TypeOK
<1>3. request[r].pc = "replace"
  BY DEF ReplaceCode
<1>4. ASSUME NEW d \in Challenges, d # c
      PROVE  /\ challenge'[d] = challenge[d] /\ guesses'[d] = guesses[d] /\ drops'[d] = drops[d]
             /\ Uncounted(d)' = Uncounted(d)
  <2>1. challenge'[d] = challenge[d] /\ guesses'[d] = guesses[d] /\ drops'[d] = drops[d]
    BY <1>1, <1>2, <1>4 DEF TypeOK
  <2>2. \A q \in Requests : q = r \/ request'[q] = request[q]
    BY <1>1, <1>2 DEF Go, TypeOK
  <2>3. request'[r].pc = "mail"
    BY <1>1, <1>2 DEF Go, TypeOK
  <2> QED
    BY <1>3, <2>1, <2>2, <2>3 DEF Uncounted
<1>5. guesses'[c] = 0 /\ challenge'[c].attempts \in Nat /\ drops'[c] \in Nat
  BY <1>1, <1>2 DEF TypeOK, ChallengeState
<1>6. GuessesAccounted'
  BY <1>4, <1>5, UncountedIsFiniteNext DEF GInv, GuessesAccounted
<1>7. GuessesBounded'
  BY <1>4, <1>5, UncountedIsFinite, SignUpAssumption DEF GInv, GuessesBounded
<1> QED
  BY <1>6, <1>7

LEMMA VerifyKeepsGInv ==
  ASSUME GInv, IInv', NEW r \in Requests, NEW c \in Challenges, NEW e \in Emails,
         NEW code \in 0..MaxCodes, Verify(r, c, e, code), code # challenge[c].code
  PROVE  GInv'
<1> SUFFICES GuessesAccounted' /\ GuessesBounded'
  BY DEF GInv
<1>1. TypeOK /\ TypeOK'
  BY DEF GInv, IInv
<1>2. /\ request[r].pc = "idle" /\ challenge[c].live /\ challenge[c].attempts < MaxAttempts
      /\ UNCHANGED <<challenge, drops>>
      /\ guesses' = [guesses EXCEPT ![c] = @ + 1]
      /\ Go(r, "count", c, e, challenge[c].code)
  BY DEF Verify, Row, AttemptsLeft
<1>3. /\ request'[r].pc = "count" /\ request'[r].id = c /\ request'[r].code = challenge[c].code
      /\ \A q \in Requests : q = r \/ request'[q] = request[q]
  BY <1>1, <1>2 DEF Go, TypeOK
<1>4. r \notin Uncounted(c) /\ Uncounted(c)' = Uncounted(c) \cup {r}
  BY <1>2, <1>3 DEF Uncounted
<1>5. Cardinality(Uncounted(c)') = Cardinality(Uncounted(c)) + 1
  BY <1>4, UncountedIsFinite, FS_AddElement
<1>6. \A d \in Challenges \ {c} : guesses'[d] = guesses[d] /\ Uncounted(d)' = Uncounted(d)
  BY <1>1, <1>2, <1>3 DEF Uncounted, TypeOK
<1>7. /\ guesses[c] \in Nat /\ guesses'[c] = guesses[c] + 1
      /\ challenge[c].attempts \in Nat /\ drops[c] \in Nat
  BY <1>1, <1>2 DEF TypeOK, ChallengeState
<1>8. guesses'[c] <= challenge[c].attempts + Cardinality(Uncounted(c)') + drops[c]
  BY <1>2, <1>5, <1>7, UncountedIsFinite DEF GInv, GuessesAccounted
<1>9. GuessesAccounted'
  BY <1>2, <1>6, <1>8 DEF GInv, GuessesAccounted
<1>10. guesses'[c] <= MaxAttempts - 1 + Cardinality(Requests) + drops[c]
  <2>1. /\ Cardinality(Uncounted(c)') \in Nat /\ Cardinality(Requests) \in Nat
        /\ Cardinality(Uncounted(c)') <= Cardinality(Requests)
    BY UncountedIsFinite, UncountedIsFiniteNext
  <2> HIDE DEF Uncounted
  <2> QED
    BY <1>2, <1>7, <1>8, <2>1, SignUpAssumption
<1>11. GuessesBounded'
  BY <1>2, <1>6, <1>10 DEF GInv, GuessesBounded
<1> QED
  BY <1>9, <1>11

(* The step that counts a wrong code, or drops one that was to be counted. *)
LEMMA CountKeepsGInv ==
  ASSUME GInv, IInv', NEW r \in Requests, request[r].pc = "count",
         \/ Count(r)
         \/ Abort(r) /\ request[r].code = challenge[request[r].id].code
  PROVE  GInv'
<1> SUFFICES GuessesAccounted' /\ GuessesBounded'
  BY DEF GInv
<1>1. TypeOK /\ TypeOK'
  BY DEF GInv, IInv
<1>2. PICK c \in Challenges : c = request[r].id
  BY <1>1 DEF TypeOK
<1>3. /\ UNCHANGED guesses
      /\ \A q \in Requests : q = r \/ request'[q] = request[q]
      /\ request'[r].pc = "idle"
  BY <1>1 DEF Count, Abort, Answer, Idle, history, TypeOK
<1>4. \/ UNCHANGED challenge /\ drops' = [drops EXCEPT ![c] = @ + 1]
      \/ UNCHANGED <<challenge, drops>> /\ ~challenge[c].live
      \/ challenge' = [challenge EXCEPT ![c].attempts = @ + 1] /\ UNCHANGED drops
  BY <1>2, Zenon DEF Count, Abort, history
<1>5. \A d \in Challenges :
        /\ challenge'[d].live = challenge[d].live /\ challenge'[d].code = challenge[d].code
        /\ d # c => challenge'[d].attempts = challenge[d].attempts /\ drops'[d] = drops[d]
        /\ drops'[d] >= drops[d]
        /\ guesses[d] \in Nat /\ drops[d] \in Nat /\ drops'[d] \in Nat
        /\ challenge[d].attempts \in Nat /\ challenge'[d].attempts \in Nat
  BY <1>1, <1>4 DEF TypeOK, ChallengeState
<1>6. challenge[c].live =>
        challenge'[c].attempts + drops'[c] = challenge[c].attempts + drops[c] + 1
  BY <1>1, <1>4 DEF TypeOK, ChallengeState
<1>7. \A d \in Challenges : d # c => Uncounted(d)' = Uncounted(d)
  BY <1>2, <1>3, <1>5 DEF Uncounted
<1>8. Cardinality(Uncounted(c)') >= Cardinality(Uncounted(c)) - 1
  <2>1. Uncounted(c)' = Uncounted(c) \ {r}
    BY <1>2, <1>3, <1>5 DEF Uncounted
  <2>2. IsFiniteSet(Uncounted(c)) /\ Cardinality(Uncounted(c)) \in Nat
    BY UncountedIsFinite
  <2>3. Cardinality(Uncounted(c) \ {r}) =
          IF r \in Uncounted(c) THEN Cardinality(Uncounted(c)) - 1 ELSE Cardinality(Uncounted(c))
    BY <2>2, FS_RemoveElement
  <2> QED
    BY <2>1, <2>2, <2>3
<1>9. GuessesAccounted'
  <2> SUFFICES ASSUME NEW d \in Challenges, challenge[d].live
               PROVE  guesses[d] <=
                        challenge'[d].attempts + Cardinality(Uncounted(d)') + drops'[d]
    BY <1>3, <1>5 DEF GuessesAccounted
  <2>1. guesses[d] <= challenge[d].attempts + Cardinality(Uncounted(d)) + drops[d]
    BY DEF GInv, GuessesAccounted
  <2>2. CASE d = c
    BY <1>5, <1>6, <1>8, <2>1, <2>2, UncountedIsFinite, UncountedIsFiniteNext
  <2>3. CASE d # c
    BY <1>5, <1>7, <2>1, <2>3
  <2> QED
    BY <2>2, <2>3
<1>10. GuessesBounded'
  BY <1>3, <1>5, UncountedIsFinite, SignUpAssumption DEF GInv, GuessesBounded
<1> QED
  BY <1>9, <1>10

LEMMA NextGInv ==
  ASSUME GInv, Next
  PROVE  GInv'
<1>1. TypeOK /\ IInv /\ IInv'
  BY NextIInv DEF GInv, IInv
<1>2. ASSUME NEW r \in Requests, NEW e \in Emails, Start(r, e) PROVE Uneventful
  BY <1>1, <1>2 DEF Start, Go, history, Uneventful, TypeOK, ChallengeState
<1>3. ASSUME NEW r \in Requests, InsertChallenge(r) PROVE Uneventful
  <2>1. PICK c \in Challenges :
          /\ challenge[c].email = None /\ ~challenge[c].live
          /\ challenge' = [challenge EXCEPT ![c] = Fresh(request[r].email, 1)]
          /\ Go(r, "mail", c, request[r].email, 1)
    BY <1>1, <1>3 DEF InsertChallenge, IInv, UnusedIsBlank
  <2>2. \A d \in Challenges \ {c} : challenge'[d] = challenge[d]
    BY <1>1, <2>1 DEF TypeOK
  <2>3. \A q \in Requests : q = r \/ request'[q] = request[q]
    BY <1>1, <2>1 DEF Go, TypeOK
  <2> QED
    BY <1>1, <1>3, <2>1, <2>2, <2>3 DEF InsertChallenge, history, Uneventful, TypeOK, ChallengeState
<1>4. ASSUME NEW r \in Requests, SendMail(r) \/ ReplaceNothing(r) \/ EmailTaken(r) \/ StartSession(r)
      PROVE Uneventful
  BY <1>1, <1>4 DEF SendMail, ReplaceNothing, EmailTaken, StartSession, Answer, history, Uneventful,
    TypeOK, ChallengeState
<1>5. ASSUME NEW r \in Requests, NEW c \in Challenges, NEW e \in Emails,
             Resend(r, c, e) \/ Finalize(r, c, e)
      PROVE Uneventful
  BY <1>1, <1>5 DEF Resend, Finalize, Go, history, Uneventful, TypeOK, ChallengeState
<1>6. ASSUME NEW r \in Requests, NEW c \in Challenges, NEW e \in Emails, NEW code \in 0..MaxCodes,
             Verify(r, c, e, code), code = challenge[c].code
      PROVE Uneventful
  BY <1>1, <1>6 DEF Verify, Go, Uneventful, TypeOK, ChallengeState
<1>7. ASSUME NEW r \in Requests, Count(r), request[r].code # challenge[request[r].id].code
      PROVE Uneventful
  <2>1. PICK c \in Challenges : c = request[r].id
    BY <1>1, <1>7 DEF Count, TypeOK
  <2>2. UNCHANGED challenge \/ challenge' = [challenge EXCEPT ![c].attempts = @ + 1]
    BY <1>7, <2>1, Zenon DEF Count
  <2>3. \A d \in Challenges :
          /\ challenge'[d].live = challenge[d].live /\ challenge'[d].code = challenge[d].code
          /\ challenge'[d].attempts >= challenge[d].attempts
    BY <1>1, <2>2 DEF TypeOK, ChallengeState
  <2>4. UNCHANGED <<guesses, drops>> /\ \A q \in Requests : q = r \/ request'[q] = request[q]
    BY <1>1, <1>7 DEF Count, Answer, history, TypeOK
  <2> QED
    BY <1>7, <2>3, <2>4 DEF Uneventful
<1>8. ASSUME NEW r \in Requests, Mark(r) \/ CreateAccount(r) PROVE Uneventful
  <2>1. PICK c \in Challenges : c = request[r].id
    BY <1>1, <1>8 DEF Mark, CreateAccount, TypeOK
  <2>2. \/ UNCHANGED challenge
        \/ challenge' = [challenge EXCEPT ![c].verified = TRUE]
        \/ challenge' = Deleted(c)
    BY <1>8, <2>1, Zenon DEF Mark, CreateAccount
  <2>3. \A d \in Challenges :
          /\ challenge'[d].live => challenge[d].live
          /\ challenge'[d].live => challenge'[d].code = challenge[d].code
          /\ challenge'[d].live => challenge'[d].attempts = challenge[d].attempts
          /\ challenge[d].attempts \in Nat
    <3>1. CASE challenge' = Deleted(c)
      BY <1>1, <3>1, DeletedRow DEF TypeOK, ChallengeState
    <3>2. CASE UNCHANGED challenge \/ challenge' = [challenge EXCEPT ![c].verified = TRUE]
      BY <1>1, <3>2 DEF TypeOK, ChallengeState
    <3> QED
      BY <2>2, <3>1, <3>2
  <2>4. /\ UNCHANGED <<guesses, drops>> /\ request[r].pc # "count"
        /\ \A q \in Requests : q = r \/ request'[q] = request[q]
    BY <1>1, <1>8 DEF Mark, CreateAccount, Answer, Go, history, TypeOK
  <2> QED
    BY <2>3, <2>4 DEF Uneventful
<1>9. ASSUME NEW r \in Requests, Abort(r),
             ~(request[r].pc = "count" /\ request[r].code = challenge[request[r].id].code)
      PROVE Uneventful
  BY <1>1, <1>9 DEF Abort, Answer, Uneventful, TypeOK, ChallengeState
<1>10. ASSUME Tick PROVE Uneventful
  BY <1>1, <1>10 DEF Tick, history, Uneventful, TypeOK, ChallengeState
<1>11. ASSUME NEW r \in Requests, Count(r), request[r].code = challenge[request[r].id].code
       PROVE GInv'
  BY <1>1, <1>11, CountKeepsGInv DEF Count
<1>12. ASSUME NEW r \in Requests, Abort(r),
              request[r].pc = "count" /\ request[r].code = challenge[request[r].id].code
       PROVE GInv'
  BY <1>1, <1>12, CountKeepsGInv
<1>13. ASSUME NEW r \in Requests, NEW c \in Challenges, NEW e \in Emails, NEW code \in 0..MaxCodes,
              Verify(r, c, e, code), code # challenge[c].code
       PROVE GInv'
  BY <1>1, <1>13, VerifyKeepsGInv
<1>14. ASSUME NEW r \in Requests, ReplaceCode(r) PROVE GInv'
  BY <1>1, <1>14, ReplaceKeepsGInv
<1>15. Uneventful \/ GInv'
  BY <1>2, <1>3, <1>4, <1>5, <1>6, <1>7, <1>8, <1>9, <1>10, <1>11, <1>12, <1>13, <1>14
  DEF Next, Arrive, Handle
<1> QED
  BY <1>1, <1>15, UneventfulKeepsGInv

LEMMA InitGInv == Init => GInv
<1> SUFFICES ASSUME Init PROVE GuessesAccounted /\ GuessesBounded
  BY InitIInv DEF GInv
<1>1. \A c \in Challenges : guesses[c] = 0 /\ drops[c] = 0 /\ ~challenge[c].live
  BY DEF Init, Unused
<1>2. Cardinality(Requests) \in Nat
  BY SignUpAssumption, FS_CardinalityType
<1> QED
  BY <1>1, <1>2, SignUpAssumption DEF GuessesAccounted, GuessesBounded

(* However the requests interleave, a code is compared with at most        *)
(* MAX_OTP_ATTEMPTS - 1 wrong ones, one per concurrent request and one per *)
(* handler that ended before it counted.                                   *)
THEOREM GuessesAreBounded == Spec => []GuessesBounded
<1>1. ASSUME GInv, UNCHANGED vars PROVE GInv'
  BY <1>1, StutterIInv DEF GInv, GuessesAccounted, GuessesBounded, Uncounted, vars
<1>2. GInv /\ [Next]_vars => GInv'
  BY <1>1, NextGInv
<1>3. GInv => GuessesBounded
  BY DEF GInv
<1> QED
  BY InitGInv, <1>2, <1>3, PTL DEF Spec

(* A step never hands an account to another sign-up. *)
THEOREM AccountsStand == Spec => FirstAccountStands
<1>1. ASSUME IInv, [Next]_vars, NEW e \in Emails, account[e] # None
      PROVE  account'[e] = account[e]
  <2>1. CASE \E r \in Requests : CreateAccount(r)
    <3>1. PICK r \in Requests : CreateAccount(r)
      BY <2>1
    <3>2. account[request[r].email] = None
          /\ account' = [account EXCEPT ![request[r].email] = request[r].id]
      BY <3>1 DEF CreateAccount, Insertable
    <3> QED
      BY <1>1, <3>2 DEF IInv, TypeOK
  <2>2. CASE ~\E r \in Requests : CreateAccount(r)
    <3>1. UNCHANGED account
      <4>1. ASSUME NEW r \in Requests, Arrive(r) PROVE UNCHANGED account
        BY <4>1 DEF Arrive, Start, Resend, Finalize, Verify
      <4>2. ASSUME NEW r \in Requests, Handle(r) PROVE UNCHANGED account
        BY <2>2, <4>2 DEF Handle, InsertChallenge, SendMail, ReplaceCode, ReplaceNothing, Count,
          Mark, EmailTaken, StartSession
      <4>3. ASSUME NEW r \in Requests, Abort(r) PROVE UNCHANGED account
        BY <4>3 DEF Abort
      <4>4. ASSUME Tick \/ UNCHANGED vars PROVE UNCHANGED account
        BY <4>4 DEF Tick, vars
      <4> QED
        BY <1>1, <4>1, <4>2, <4>3, <4>4 DEF Next
    <3> QED
      BY <3>1
  <2> QED
    BY <2>1, <2>2
<1>2. IInv /\ [Next]_vars => [\A e \in Emails : account[e] # None => account'[e] = account[e]]_vars
  BY <1>1
<1> QED
  BY SignUpInvariant, <1>2, PTL DEF Spec, FirstAccountStands
=============================================================================
