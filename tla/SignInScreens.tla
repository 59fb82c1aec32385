----------------------------- MODULE SignInScreens -----------------------------
(***************************************************************************)
(* The screens of the customer app that answer an authorization request:   *)
(* sign-in.tsx, mfa.tsx, mfa/setup.tsx, signup/passkey.tsx, consent.tsx    *)
(* and sign-up.tsx (SignUpScreen), driving the handlers of SignIn and      *)
(* AuthRequests.  One browser works on one request; what a screen does     *)
(* after an answer is `After'.                                             *)
(***************************************************************************)
EXTENDS AuthRequests, SignUpScreen

ASSUME ScreensAssumption == Requests # {} /\ {"get", "complete"} \subseteq FlowOffered

VARIABLES
  screen,  \* the route shown
  ask,     \* the API call the screen is in, or None: it waits for the user
  busyOn,  \* the call of Calls or FlowCalls that carries it, or None
  jar,     \* the session cookie
  given    \* the call whose passkey options it was given last

screenVars == <<screen, ask, busyOn, jar, given>>
appVars == <<allVars, form, screenVars>>

(* "unaddable" is the passkey screen whose options could not be loaded.    *)
AppScreens == {"start", "signup", "signin", "mfa", "setup", "passkey", "unaddable", "consent", "done"}
Asks == {"password", "mount", "factor_options", "factor", "register_options", "register",
         "get", "show", "complete", "allow"}
InFlow == {"get", "show", "complete", "allow"}
Operation == IF ask = "mount" THEN "register_options" ELSE ask

AppTypeOK ==
  /\ screen \in AppScreens
  /\ ask \in Asks \cup {None}
  /\ busyOn \in Calls \cup FlowCalls \cup {None}
  /\ jar \in Calls \cup {None} /\ given \in Calls \cup {None}
  /\ FormTypeOK

AppInit ==
  /\ Init /\ FlowInit /\ FormInit
  /\ screen = "start" /\ ask = None /\ busyOn = None /\ jar = None /\ given = None

(* The one request of this browser, the call it makes next, and its user.  *)
Parked == CHOOSE r \in Requests : TRUE
User == CHOOSE u \in Users : TRUE
NextCall == CHOOSE c \in Calls : call[c].pc = "idle"
NextFlow == CHOOSE f \in FlowCalls : flow[f].pc = "idle"

(* /authorize sends the browser to /sign-in; the link there leads to the   *)
(* sign-up form, for a user without an account.                            *)
Open ==
  /\ screen = "start" /\ Authorize(Parked)
  /\ screen' \in IF shown'[Parked] = "sign_in"
                 THEN {"signin"} \cup (IF KeysOf(User) = {} THEN {"signup"} ELSE {}) ELSE {"done"}
  /\ UNCHANGED <<form, ask, busyOn, jar, given>>

(* The user presses the screen's button (mfa.tsx presses it by itself).    *)
(* On the consent screen that is Allow: it waits in `ask' until Send.      *)
FirstAsk(s) == CASE s = "signin" -> {"password"}
                 [] s = "mfa" -> {"factor_options"}
                 [] s = "setup" -> {"register_options"}
                 [] s = "passkey" -> {"register_options", "get"}     \* or Skip for now
                 [] s = "unaddable" -> {"get"}
                 [] OTHER -> {}
Press ==
  /\ ask = None /\ ask' \in FirstAsk(screen)
  /\ UNCHANGED <<allVars, form, screen, busyOn, jar, given>>

(* The account was created: finalize starts its session.                   *)
SignedUp ==
  /\ screen = "signup" /\ created # Nothing /\ ask = None
  /\ ask' = "password"
  /\ UNCHANGED <<allVars, form, screen, busyOn, jar, given>>

(* The call is sent with the cookie of the browser, and the authenticator  *)
(* signs with a passkey the challenge allows, or makes a new one.          *)
Send ==
  /\ ask # None /\ busyOn = None
  /\ IF ask \in InFlow
     THEN LET f == NextFlow IN
          /\ f \in FlowCalls
          /\ BeginFlow(f, IF ask \in {"get", "show"} THEN "get" ELSE "complete", Parked, jar, ask = "allow")
          /\ busyOn' = f
     ELSE LET c == NextCall IN
          /\ c \in Calls
          /\ CASE ask = "password" -> Password(c) /\ call'[c].user = User
               [] ask \in {"mount", "factor_options", "register_options"} ->
                    WithCookie(c) /\ call'[c].op = Operation
               [] ask = "factor" -> /\ Answer(c) /\ call'[c].op = "factor" /\ call'[c].answer = given
                                    /\ call[given].keys[call'[c].key] # None
               [] ask = "register" -> Register(c) /\ call'[c].answer = given
          /\ call'[c].cookie = jar
          /\ busyOn' = c /\ UNCHANGED flowVars
  /\ UNCHANGED <<form, screen, ask, jar, given>>

(* What follows a successful call: the next one of the same handler, or    *)
(* another screen, which may call the API as it opens.  `next' is what     *)
(* get_request answered.                                                   *)
Pending == KeysOf(User) # {} /\ ~session[busyOn].hwk
Route(next) == CASE next = "mfa_enrollment" -> <<"setup", None>>
                 [] next = "consent" -> <<"consent", "show">>
                 [] next = "mfa" -> <<"mfa", None>>

After(next) ==
  CASE ask = "password" -> IF screen = "signup" THEN <<"passkey", "mount">>
                           ELSE IF Pending THEN <<"mfa", None>> ELSE <<screen, "get">>
    [] ask = "mount" -> <<screen, None>>
    [] ask = "factor_options" -> <<screen, "factor">>
    [] ask = "register_options" -> <<screen, "register">>
    [] ask \in {"factor", "register"} -> <<screen, "get">>
    [] ask = "show" -> <<screen, "allow">>
    [] ask = "get" -> IF \/ next = "consent"
                         \/ next \in {"mfa", "mfa_enrollment"} /\ screen \in {"signin", "passkey", "unaddable"}
                      THEN Route(next) ELSE <<screen, "complete">>
    [] ask \in {"complete", "allow"} -> <<"done", None>>

(* After a failed one the user may press the button again.  What a screen  *)
(* loads as it opens it loads once: Add and Allow stay disabled.           *)
Refused == CASE ask = "mount" -> <<"unaddable", None>>
             [] ask = "allow" -> <<screen, "allow">>
             [] OTHER -> <<screen, None>>

Succeeded == IF ask \in InFlow THEN flow[busyOn].pc = "done" ELSE call[busyOn].pc = "done"
Failed == IF ask \in InFlow THEN flow[busyOn].pc = "failed" ELSE call[busyOn].pc = "failed"

Receive ==
  /\ busyOn # None /\ (Succeeded \/ Failed)
  /\ LET goes == IF Failed THEN Refused ELSE After(IF ask \in InFlow THEN flow[busyOn].next ELSE None)
     IN  screen' = goes[1] /\ ask' = goes[2]
  /\ jar' = IF ask = "password" /\ Succeeded THEN busyOn ELSE jar
  /\ given' = IF ask \in {"mount", "factor_options", "register_options"} /\ Succeeded THEN busyOn ELSE given
  /\ busyOn' = None
  /\ UNCHANGED <<allVars, form>>

Serve ==
  /\ busyOn # None
  /\ \/ busyOn \in Calls /\ Advance(busyOn) /\ UNCHANGED flowVars
     \/ busyOn \in FlowCalls /\ FlowAdvance(busyOn)
  /\ UNCHANGED <<form, screenVars>>

SigningUp == screen = "signup" /\ UNCHANGED <<allVars, screenVars>>
Waits == \A i \in Checks : check[i] = Nothing

(* A user who lets one call end before the next: he may edit the address   *)
(* while its check is in flight, but has it checked again, and closes the  *)
(* dialog, only when nothing is.                                           *)
Patient ==
  \/ Waits /\ \E i \in Checks : StartCheck(i)
  \/ \E e \in Emails : Edit(e)
  \/ api = Nothing /\ CloseDialog
  \/ \E op \in {"verify", "resend", "finalize"} : Submit(op)

AppTick == Tick /\ UNCHANGED <<flowVars, form, screenVars>>
Ended == screen = "done" /\ now = MaxTime /\ UNCHANGED appVars

AppStep == Open \/ Press \/ SignedUp \/ Send \/ Receive \/ Serve
AppNext == AppStep \/ (SigningUp /\ (FormAnswers \/ Patient)) \/ AppTick \/ Ended
AppSpec == AppInit /\ [][AppNext]_appVars

(* The browser and the server carry on with what is in progress; the user  *)
(* presses the button that is there, at last types and checks an address   *)
(* that has no account and leaves it alone while it is checked, closes a   *)
(* dialog whose code went elsewhere, and prefers verifying a code to       *)
(* closing the dialog or resending it.                                     *)
AppFairSpec ==
  /\ AppSpec
  /\ WF_appVars(AppStep)
  /\ WF_appVars(SigningUp /\ FormAnswers)
  /\ SF_appVars(SigningUp /\ Waits /\ \E e \in Emails \ Registered : Edit(e))
  /\ SF_appVars(SigningUp /\ email \notin Registered /\ \E i \in Checks : StartCheck(i))
  /\ <>[][Waits]_email
  /\ SF_appVars(SigningUp /\ held # Nothing /\ held.email # email /\ api = Nothing /\ CloseDialog)
  /\ SF_appVars(SigningUp /\ \E op \in {"verify", "finalize"} : Submit(op))

-----------------------------------------------------------------------------
(* No screen is a dead end: whatever the account, the client and the       *)
(* resource, following the screens answers a parked request with a grant.  *)
RequestAnswered == screen \in {"signin", "signup"} ~> \E f \in FlowCalls : grant[f] # None
===============================================================================
