----------------------------- MODULE SignUpScreen -----------------------------
(***************************************************************************)
(* The sign-up screen of the customer app (sign-up.tsx): a form whose      *)
(* steps call the sign-up API (module SignUp) and react to its answers.    *)
(* React state changes between a call and its answer: the address can be   *)
(* edited and another check started while one is in flight, and answers    *)
(* are applied to whatever the screen shows when they arrive.              *)
(***************************************************************************)
EXTENDS Naturals

CONSTANTS
  Emails,      \* addresses the user may type
  Registered,  \* those that have an account
  Checks,      \* checks that can be in flight together
  MaxFaults,   \* bound on calls that fail (network, mail, a wrong code)
  Nothing      \* no challenge, no call

ASSUME SignUpScreenAssumption ==
  /\ Registered \subseteq Emails
  /\ MaxFaults \in Nat
  /\ Nothing \notin Emails \cup Checks

VARIABLES
  step, email, emailChecked, emailTaken, error, busy,  \* as in the component
  held,    \* challengeId: the challenge it names
  check,   \* check[i]: a startEmailVerification in flight
  api,     \* a verify, resend or finalize in flight: challenge and address it was sent with
  faults,  \* calls that failed
  created  \* the address whose account was created

form == <<step, email, emailChecked, emailTaken, error, busy, held, check, api, faults, created>>

Challenge == [email : Emails, by : Checks, verified : BOOLEAN]
FormTypeOK ==
  /\ step \in {"email", "otp", "password"}
  /\ email \in Emails
  /\ emailChecked \in BOOLEAN /\ emailTaken \in BOOLEAN /\ error \in BOOLEAN /\ busy \in BOOLEAN
  /\ held \in Challenge \cup {Nothing}
  /\ check \in [Checks -> {"check", "start"} \X Emails \cup {Nothing}]
  /\ api \in ({"verify", "resend", "finalize"} \X Challenge \X Emails) \cup {Nothing}
  /\ faults \in 0..MaxFaults
  /\ created \in Emails \cup {Nothing}

FormInit ==
  /\ step = "email" /\ email \in Emails
  /\ emailChecked = FALSE /\ emailTaken = FALSE /\ error = FALSE /\ busy = FALSE
  /\ held = Nothing /\ api = Nothing /\ faults = 0 /\ created = Nothing
  /\ check = [i \in Checks |-> Nothing]

(* startEmailVerification, by Continue or when the input loses focus: the  *)
(* latch is set before the call and nothing resets it when the call fails. *)
StartCheck(i) ==
  /\ step = "email" /\ created = Nothing
  /\ ~emailChecked /\ check[i] = Nothing
  /\ emailChecked' = TRUE /\ error' = FALSE /\ busy' = TRUE
  /\ check' = [check EXCEPT ![i] = <<"check", email>>]
  /\ UNCHANGED <<step, email, emailTaken, held, api, faults, created>>

Fault == faults < MaxFaults /\ faults' = faults + 1

CheckFails(i) ==
  /\ check[i] # Nothing /\ Fault
  /\ error' = TRUE /\ busy' = FALSE /\ check' = [check EXCEPT ![i] = Nothing]
  /\ UNCHANGED <<step, email, emailChecked, emailTaken, held, api, created>>

Checked(i) ==
  /\ check[i] # Nothing /\ check[i][1] = "check"
  /\ IF check[i][2] \in Registered
     THEN /\ emailTaken' = TRUE /\ error' = TRUE /\ busy' = FALSE
          /\ check' = [check EXCEPT ![i] = Nothing]
     ELSE /\ check' = [check EXCEPT ![i][1] = "start"]
          /\ UNCHANGED <<emailTaken, error, busy>>
  /\ UNCHANGED <<step, email, emailChecked, held, api, faults, created>>

Challenged(i) ==
  /\ check[i] # Nothing /\ check[i][1] = "start"
  /\ held' = [email |-> check[i][2], by |-> i, verified |-> FALSE]
  /\ step' = "otp" /\ busy' = FALSE /\ check' = [check EXCEPT ![i] = Nothing]
  /\ UNCHANGED <<email, emailChecked, emailTaken, error, api, faults, created>>

(* Mutated form: the latch outlives the address it was set for.            *)
LatchStays == emailChecked

(* onChangeText: editing the address unlocks Continue.                     *)
LatchReset == FALSE

Edit(e) ==
  /\ step = "email" /\ created = Nothing
  /\ email' = e /\ emailChecked' = LatchReset /\ emailTaken' = FALSE /\ error' = FALSE
  /\ UNCHANGED <<step, busy, held, check, api, faults, created>>

CloseDialog ==
  /\ step = "otp" /\ step' = "email"
  /\ UNCHANGED <<email, emailChecked, emailTaken, error, busy, held, check, api, faults, created>>

(* verifyOtp, resendOtp, finish: their buttons are disabled while busy.    *)
Submit(op) ==
  /\ ~busy /\ created = Nothing
  /\ step = IF op = "finalize" THEN "password" ELSE "otp"
  /\ error' = FALSE /\ busy' = TRUE /\ api' = <<op, held, email>>
  /\ UNCHANGED <<step, email, emailChecked, emailTaken, held, check, faults, created>>

ApiFails ==
  /\ api # Nothing /\ Fault
  /\ error' = TRUE /\ busy' = FALSE /\ api' = Nothing
  /\ UNCHANGED <<step, email, emailChecked, emailTaken, held, check, created>>

(* Mutated form: a challenge is accepted with any address.                 *)
AnyAddress(op, c, e) == op = "finalize" => c.verified /\ e \notin Registered

(* The server accepts a challenge only with the address it was sent to,    *)
(* and creates an account only for a verified one.                         *)
Accepted(op, c, e) == c.email = e /\ (op = "finalize" => c.verified /\ e \notin Registered)

StepAfter(op, ok) == IF ok /\ op = "verify" THEN "password" ELSE step

ApiAnswers ==
  /\ api # Nothing
  /\ LET op == api[1]
         ok == Accepted(op, api[2], api[3])
     IN  /\ error' = ~ok
         /\ step' = StepAfter(op, ok)
         /\ held' = IF ok /\ op # "finalize" /\ held = api[2]
                    THEN [held EXCEPT !.verified = (op = "verify")] ELSE held
         /\ created' = IF ok /\ op = "finalize" THEN api[3] ELSE created
  /\ busy' = FALSE /\ api' = Nothing
  /\ UNCHANGED <<email, emailChecked, emailTaken, check, faults>>

FormAnswers == ApiAnswers \/ ApiFails \/ \E i \in Checks : Checked(i) \/ Challenged(i) \/ CheckFails(i)
FormUser ==
  \/ \E i \in Checks : StartCheck(i)
  \/ \E e \in Emails : Edit(e)
  \/ \E op \in {"verify", "resend", "finalize"} : Submit(op)
  \/ CloseDialog

-----------------------------------------------------------------------------
(* "Enter the six-digit code sent to {email}" (sign-up.tsx:154).           *)
CodeSentToShownEmail == step = "otp" => held.email = email

(* The password step works: the challenge it will finalize is verified for *)
(* the address shown, which can no longer be edited.                       *)
PasswordStepReady == step = "password" /\ created = Nothing => held.verified /\ held.email = email
===============================================================================
