-------------------------------- MODULE SignUp --------------------------------
(***************************************************************************)
(* Sign-up in auth-service (signup.rs): a challenge is started for an      *)
(* address, a code is mailed, resent and verified, and a verified          *)
(* challenge is turned into an account.  Every handler runs as a sequence  *)
(* of statements with awaits between them; only finalize has a             *)
(* transaction.                                                            *)
(*                                                                         *)
(* A challenge's codes are random and are named 1, 2, ... in the order in  *)
(* which the row held them; 0 stands for a code that was never mailed.     *)
(***************************************************************************)
EXTENDS Integers, FiniteSets

CONSTANTS
  Challenges,   \* random challenge ids
  Emails,       \* normalized addresses
  Requests,     \* concurrent handlers
  MaxAttempts,  \* MAX_OTP_ATTEMPTS
  Ttl,          \* otp_ttl_secs
  ResendAfter,  \* otp_resend_secs
  MaxCodes,     \* bound on the codes of one challenge
  MaxDrops,     \* bound on lost attempts per code
  MaxTime,      \* bound on the clock
  None

ASSUME SignUpAssumption ==
  /\ MaxAttempts \in Nat \ {0} /\ Ttl \in Nat /\ ResendAfter \in Nat
  /\ MaxCodes \in Nat \ {0} /\ MaxDrops \in Nat /\ MaxTime \in Nat
  /\ IsFiniteSet(Requests)
  /\ None \notin Challenges \cup Emails

VARIABLES
  now,        \* the clock
  challenge,  \* challenge[c]: the row of signup_challenges
  account,    \* account[e]: the challenge that made e's row of users, or None
  sessions,   \* challenges whose finalize started a session
  mailed,     \* <<c, n>>: code n of challenge c was mailed
  request,    \* request[r]: what handler r is doing
  proven,     \* history: addresses at which a mailed code was read
  guesses,    \* history: wrong codes compared with the current code of c
  drops       \* history: those whose handler ended before it counted them

vars == <<now, challenge, account, sessions, mailed, request, proven, guesses, drops>>

ChallengeState == [email    : Emails \cup {None},  \* None: c is not used yet
                   live     : BOOLEAN,             \* does the row exist
                   code     : 0..MaxCodes,
                   expires  : Nat,
                   attempts : Nat,
                   verified : BOOLEAN,
                   sent     : Nat]

RequestState == [pc    : {"idle", "insert", "mail", "replace", "count", "mark", "create", "session"},
                 id    : Challenges \cup {None},
                 email : Emails \cup {None},
                 code  : 0..MaxCodes]     \* code to be mailed, or compared with

Unused == [email |-> None, live |-> FALSE, code |-> 0, expires |-> 0, attempts |-> 0,
           verified |-> FALSE, sent |-> 0]
Idle == [pc |-> "idle", id |-> None, email |-> None, code |-> 0]

TypeOK ==
  /\ now \in 0..MaxTime
  /\ challenge \in [Challenges -> ChallengeState]
  /\ account \in [Emails -> Challenges \cup {None}]
  /\ sessions \subseteq Challenges
  /\ mailed \subseteq Challenges \X (1..MaxCodes)
  /\ request \in [Requests -> RequestState]
  /\ proven \subseteq Emails
  /\ guesses \in [Challenges -> Nat]
  /\ drops \in [Challenges -> 0..MaxDrops]
  /\ \A r \in Requests :
       /\ request[r].pc # "idle" => request[r].email \in Emails
       /\ request[r].pc \notin {"idle", "insert"} =>
            /\ request[r].id \in Challenges
            /\ challenge[request[r].id].email = request[r].email
       /\ request[r].pc = "mail" => request[r].code # 0

Init ==
  /\ now = 0
  /\ challenge = [c \in Challenges |-> Unused]
  /\ account = [e \in Emails |-> None]
  /\ sessions = {}
  /\ mailed = {}
  /\ request = [r \in Requests |-> Idle]
  /\ proven = {}
  /\ guesses = [c \in Challenges |-> 0]
  /\ drops = [c \in Challenges |-> 0]

history == <<proven, guesses, drops>>

-----------------------------------------------------------------------------
(***************************************************************************)
(* What the statements look for and write.                                 *)
(***************************************************************************)

Go(r, pc, c, e, code) ==
  request' = [request EXCEPT ![r] = [pc |-> pc, id |-> c, email |-> e, code |-> code]]
Answer(r) == request' = [request EXCEPT ![r] = Idle]

(* Defect: the address is not compared. *)
AnyRow(c, e) == challenge[c].live

(* WHERE id_hash = $1 AND email_hash = $2 *)
Row(c, e) == challenge[c].live /\ challenge[c].email = e

Unexpired(c) == challenge[c].expires > now

(* The row with a new code. *)
Fresh(e, code) == [email |-> e, live |-> TRUE, code |-> code, expires |-> now + Ttl,
                   attempts |-> 0, verified |-> FALSE, sent |-> now]

-----------------------------------------------------------------------------
(***************************************************************************)
(* start and resend.                                                       *)
(***************************************************************************)

(* ensure_new_email *)
Start(r, e) ==
  /\ request[r].pc = "idle"
  /\ account[e] = None
  /\ Go(r, "insert", None, e, 0)
  /\ UNCHANGED <<now, challenge, account, sessions, mailed, history>>

InsertChallenge(r) ==
  /\ request[r].pc = "insert"
  /\ \E c \in Challenges :
       /\ challenge[c].email = None
       /\ challenge' = [challenge EXCEPT ![c] = Fresh(request[r].email, 1)]
       /\ Go(r, "mail", c, request[r].email, 1)
  /\ UNCHANGED <<now, account, sessions, mailed, history>>

SendMail(r) ==
  /\ request[r].pc = "mail"
  /\ mailed' = mailed \cup {<<request[r].id, request[r].code>>}
  /\ Answer(r)
  /\ UNCHANGED <<now, challenge, account, sessions, history>>

(* resend reads last_sent_at. *)
Resend(r, c, e) ==
  /\ request[r].pc = "idle"
  /\ Row(c, e) /\ Unexpired(c)
  /\ now - challenge[c].sent >= ResendAfter
  /\ Go(r, "replace", c, e, 0)
  /\ UNCHANGED <<now, challenge, account, sessions, mailed, history>>

ReplaceCode(r) ==
  LET c == request[r].id  code == challenge[c].code + 1 IN
  /\ request[r].pc = "replace"
  /\ Row(c, request[r].email) /\ Unexpired(c)
  /\ code <= MaxCodes
  /\ challenge' = [challenge EXCEPT ![c] = Fresh(request[r].email, code)]
  /\ guesses' = [guesses EXCEPT ![c] = 0]
  /\ drops' = [drops EXCEPT ![c] = 0]
  /\ Go(r, "mail", c, request[r].email, code)
  /\ UNCHANGED <<now, account, sessions, mailed, proven>>

(* 404: the UPDATE matched no row. *)
ReplaceNothing(r) ==
  /\ request[r].pc = "replace"
  /\ ~(Row(request[r].id, request[r].email) /\ Unexpired(request[r].id))
  /\ Answer(r)
  /\ UNCHANGED <<now, challenge, account, sessions, mailed, history>>

-----------------------------------------------------------------------------
(***************************************************************************)
(* verify.                                                                 *)
(***************************************************************************)

(* Defect: an attempt too many. *)
AtMostAttempts(c) == challenge[c].attempts <= MaxAttempts

AttemptsLeft(c) == challenge[c].attempts < MaxAttempts

(* The row is read and the code is compared with it. *)
Verify(r, c, e, code) ==
  /\ request[r].pc = "idle"
  /\ Row(c, e) /\ Unexpired(c)
  /\ ~challenge[c].verified
  /\ AttemptsLeft(c)
  /\ code = 0 \/ <<c, code>> \in mailed
  /\ IF code = challenge[c].code
       THEN /\ Go(r, "mark", c, e, challenge[c].code)
            /\ proven' = proven \cup {challenge[c].email}
            /\ UNCHANGED guesses
       ELSE /\ Go(r, "count", c, e, challenge[c].code)
            /\ guesses' = [guesses EXCEPT ![c] = @ + 1]
            /\ UNCHANGED proven
  /\ UNCHANGED <<now, challenge, account, sessions, mailed, drops>>

Count(r) ==
  LET c == request[r].id IN
  /\ request[r].pc = "count"
  /\ challenge' = IF challenge[c].live THEN [challenge EXCEPT ![c].attempts = @ + 1] ELSE challenge
  /\ Answer(r)
  /\ UNCHANGED <<now, account, sessions, mailed, history>>

Mark(r) ==
  LET c == request[r].id IN
  /\ request[r].pc = "mark"
  /\ challenge' = IF challenge[c].live THEN [challenge EXCEPT ![c].verified = TRUE] ELSE challenge
  /\ Answer(r)
  /\ UNCHANGED <<now, account, sessions, mailed, history>>

-----------------------------------------------------------------------------
(***************************************************************************)
(* finalize.                                                               *)
(***************************************************************************)

(* The challenge is found verified, and the password is hashed. *)
Finalize(r, c, e) ==
  /\ request[r].pc = "idle"
  /\ Row(c, e) /\ Unexpired(c)
  /\ challenge[c].verified
  /\ Go(r, "create", c, e, 0)
  /\ UNCHANGED <<now, challenge, account, sessions, mailed, history>>

(* The unique index on lower(email) *)
Insertable(e) == account[e] = None

(* Defect: the challenge is kept. *)
Kept(c) == challenge

(* The row is gone; only its address is remembered. *)
Deleted(c) == [challenge EXCEPT ![c] = [Unused EXCEPT !.email = challenge[c].email]]

(* The transaction: INSERT INTO users, DELETE FROM signup_challenges. *)
CreateAccount(r) ==
  LET c == request[r].id  e == request[r].email IN
  /\ request[r].pc = "create"
  /\ Insertable(e)
  /\ account' = [account EXCEPT ![e] = c]
  /\ challenge' = Deleted(c)
  /\ Go(r, "session", c, e, 0)
  /\ UNCHANGED <<now, sessions, mailed, history>>

(* Defect: a violation of the index is not told from success. *)
TakenButSignedIn(r) ==
  /\ request[r].pc = "create"
  /\ account[request[r].email] # None
  /\ Go(r, "session", request[r].id, request[r].email, 0)
  /\ UNCHANGED <<now, challenge, account, sessions, mailed, history>>

(* 409 EMAIL_TAKEN *)
EmailTaken(r) ==
  /\ request[r].pc = "create"
  /\ account[request[r].email] # None
  /\ Answer(r)
  /\ UNCHANGED <<now, challenge, account, sessions, mailed, history>>

(* session::start, after the commit *)
StartSession(r) ==
  /\ request[r].pc = "session"
  /\ sessions' = sessions \cup {request[r].id}
  /\ Answer(r)
  /\ UNCHANGED <<now, challenge, account, mailed, history>>

-----------------------------------------------------------------------------

(* An error, or the connection is lost. *)
Abort(r) ==
  LET c == request[r].id IN
  /\ request[r].pc # "idle"
  /\ IF request[r].pc = "count" /\ request[r].code = challenge[c].code
       THEN drops[c] < MaxDrops /\ drops' = [drops EXCEPT ![c] = @ + 1]
       ELSE UNCHANGED drops
  /\ Answer(r)
  /\ UNCHANGED <<now, challenge, account, sessions, mailed, proven, guesses>>

Tick ==
  /\ now < MaxTime
  /\ now' = now + 1
  /\ UNCHANGED <<challenge, account, sessions, mailed, request, history>>

Arrive(r) ==
  \E e \in Emails :
    \/ Start(r, e)
    \/ \E c \in Challenges :
         \/ Resend(r, c, e) \/ Finalize(r, c, e)
         \/ \E code \in 0..MaxCodes : Verify(r, c, e, code)

Handle(r) ==
  \/ InsertChallenge(r) \/ SendMail(r) \/ ReplaceCode(r) \/ ReplaceNothing(r)
  \/ Count(r) \/ Mark(r) \/ CreateAccount(r) \/ EmailTaken(r) \/ StartSession(r)

Next == (\E r \in Requests : Arrive(r) \/ Handle(r) \/ Abort(r)) \/ Tick

Spec == Init /\ [][Next]_vars

-----------------------------------------------------------------------------
(***************************************************************************)
(* Properties.                                                             *)
(***************************************************************************)

(* An account is for an address whose owner read a code that was mailed    *)
(* there and typed it before it expired, whatever was resent meanwhile.    *)
AccountsAreProven == \A e \in Emails : account[e] # None => e \in proven

(* A challenge is gone exactly when it made an account: it is never lost   *)
(* to a finalize that failed, nor good for a second account.               *)
SpentByItsAccount ==
  \A c \in Challenges : challenge[c].email # None =>
    (~challenge[c].live <=> account[challenge[c].email] = c)

(* An account is never handed to a later sign-up for its address. *)
FirstAccountStands ==
  [][\A e \in Emails : account[e] # None => account'[e] = account[e]]_vars

(* Of two sign-ups for one address that race, only the one that made the   *)
(* account is signed in to it.                                             *)
OnlyCreatorSignedIn == \A c \in sessions : account[challenge[c].email] = c

(* A code is compared with few wrong ones: MAX_OTP_ATTEMPTS, and what the  *)
(* other requests under way and those cut off before counting can add.     *)
GuessesBounded ==
  \A c \in Challenges : guesses[c] <= MaxAttempts - 1 + Cardinality(Requests) + drops[c]

(* README: OTP_RESEND_SECS is the "Minimum delay between OTP emails": the  *)
(* code of a challenge is replaced only that long after it was sent.       *)
CodesAreSpaced ==
  [][\A c \in Challenges :
       challenge[c].live /\ challenge'[c].code # challenge[c].code =>
         now - challenge[c].sent >= ResendAfter]_vars
=============================================================================
