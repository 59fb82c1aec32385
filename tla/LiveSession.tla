------------------------------ MODULE LiveSession ------------------------------
(***************************************************************************)
(* Live updates: the client of the app (connectLive in live.ts) and the    *)
(* WebSocket sessions of user-service and merchant-service (live.rs).      *)
(* The client authenticates with its first message, repeats `auth' while   *)
(* connected, reconnects after a lost connection, and gives up when it is  *)
(* signed out or refused twice.  Tokens are verified by TokenVerifier's    *)
(* verify, whose answers the sessions reduce to accepted or not.           *)
(***************************************************************************)
EXTENDS Naturals, Sequences

CONSTANTS
  Users,      \* accounts that may be signed in
  SignedOut,
  MaxAuths,   \* bound on unanswered authMessage calls
  MaxQueue,   \* bound on messages under way to the service
  MaxFaults   \* bound on the faults counted below

ASSUME LiveAssumption ==
  /\ SignedOut \notin Users /\ Users \cap {"bad", "first", "closed"} = {}
  /\ MaxAuths \in Nat /\ MaxQueue \in Nat /\ MaxFaults \in Nat

VARIABLES
  service,   \* whose session it is
  user,      \* who is signed in in the app
  status,    \* the last setStatus
  retried,   \* attempt > 0
  closes,    \* unauthorizedCloses
  stopped,
  retry,     \* retryTimer is set
  reauth,    \* reauthTimer is set
  socket,    \* readyState
  auths,     \* authMessage calls of sendAuth that are pending
  toServer,  \* `auth' messages under way, by the subject of their token
  session,   \* the server's end: what it waits for, and its subject
  toClient,  \* frames under way
  faults,    \* timeouts, lost connections, unreachable keys, bad tokens, failing
             \* authMessage calls, changes of user
  rejected   \* history: a token was rejected as such

client == <<status, retried, closes, stopped, retry, reauth, socket>>
vars == <<service, user, client, auths, toServer, session, toClient, faults, rejected>>

Subjects == Users \cup {"bad"}

TypeOK ==
  /\ service \in {"user", "merchant"} /\ user \in Users \cup {SignedOut}
  /\ status \in {"connecting", "open", "reconnecting", "unauthorized", "stopped"}
  /\ retried \in BOOLEAN /\ closes \in 0..2 /\ stopped \in BOOLEAN
  /\ retry \in BOOLEAN /\ reauth \in BOOLEAN
  /\ socket \in {"connecting", "open", "closing", "closed"}
  /\ auths \in 0..MaxAuths /\ faults \in 0..MaxFaults /\ rejected \in BOOLEAN
  /\ toServer \in Seq(Subjects) /\ toClient \in Seq({"ready", "4401"})
  /\ session \in {"first", "closed"} \cup Users

Init ==
  /\ service \in {"user", "merchant"} /\ user \in Users \cup {SignedOut}
  /\ status = "connecting" /\ socket = "connecting"
  /\ retried = FALSE /\ closes = 0 /\ stopped = FALSE /\ retry = FALSE /\ reauth = FALSE
  /\ auths = 0 /\ toServer = <<>> /\ session = "first" /\ toClient = <<>>
  /\ faults = 0 /\ rejected = FALSE

Fault == faults < MaxFaults /\ faults' = faults + 1

-----------------------------------------------------------------------------
(* connectLive.                                                            *)
OnOpen ==
  /\ socket = "connecting" /\ auths < MaxAuths
  /\ socket' = "open" /\ reauth' = TRUE /\ auths' = auths + 1
  /\ UNCHANGED <<service, user, status, retried, closes, stopped, retry, toServer, session, toClient,
                 faults, rejected>>

OnReauthTimer ==
  /\ reauth /\ auths < MaxAuths
  /\ auths' = auths + 1
  /\ UNCHANGED <<service, user, client, toServer, session, toClient, faults, rejected>>

(* stop, and the status it or its caller reports.                          *)
StopAs(reported) ==
  /\ stopped' = TRUE /\ retry' = FALSE /\ reauth' = FALSE
  /\ socket' = IF socket = "closed" THEN "closed" ELSE "closing"
  /\ status' = reported
  /\ UNCHANGED <<retried, closes>>

Stop ==
  /\ status # "stopped" /\ StopAs("stopped")
  /\ UNCHANGED <<service, user, auths, toServer, session, toClient, faults, rejected>>

(* sendAuth, when its authMessage answers: a token goes to the socket of   *)
(* that moment, and null stops the client whatever it is doing.  When it   *)
(* rejects, nothing is sent and nothing tries again before reauthTimer.    *)
SendAuth ==
  /\ auths > 0 /\ Len(toServer) < MaxQueue
  /\ auths' = auths - 1
  /\ \/ user = SignedOut /\ StopAs("unauthorized") /\ UNCHANGED <<toServer, faults>>
     \/ /\ user # SignedOut
        /\ \E sub \in {user, "bad"} :
             /\ IF sub = "bad" THEN Fault ELSE UNCHANGED faults
             /\ toServer' = IF socket = "open" THEN Append(toServer, sub) ELSE toServer
        /\ UNCHANGED client
     \/ Fault /\ UNCHANGED <<client, toServer>>
  /\ UNCHANGED <<service, user, session, toClient, rejected>>

OnReady ==
  /\ socket = "open" /\ toClient # <<>> /\ Head(toClient) = "ready"
  /\ toClient' = Tail(toClient)
  /\ retried' = FALSE /\ closes' = 0 /\ status' = "open"
  /\ UNCHANGED <<service, user, stopped, retry, reauth, socket, auths, toServer, session, faults, rejected>>

(* Mutated forms: a socket that stop closed is reconnected, or a client    *)
(* that gave up; a connection is replaced once; one refusal is enough.     *)
ReconnectAlways(givesUp) == TRUE
ReconnectOnce(givesUp) == ~stopped /\ ~givesUp /\ ~retried
LimitOne == 1

Reconnects(givesUp) == ~stopped /\ ~givesUp
Limit == 2

(* onclose.                                                                *)
OnClose(unauthorized) ==
  LET n == IF unauthorized /\ ~stopped THEN closes + 1 ELSE closes
      givesUp == n > closes /\ n >= Limit
      again == Reconnects(givesUp)
  IN  /\ reauth' = FALSE /\ socket' = "closed" /\ closes' = n
      /\ stopped' = (stopped \/ givesUp)
      /\ status' = IF givesUp THEN "unauthorized" ELSE status
      /\ retry' = (retry \/ again) /\ retried' = (retried \/ again)
      /\ toServer' = <<>> /\ toClient' = <<>> /\ session' = "closed"
      /\ UNCHANGED <<service, user, auths, rejected>>

Closed ==
  \/ socket = "open" /\ toClient # <<>> /\ Head(toClient) = "4401" /\ OnClose(TRUE) /\ UNCHANGED faults
  \/ socket = "closing" /\ OnClose(FALSE) /\ UNCHANGED faults
Lost == socket \in {"connecting", "open"} /\ Fault /\ OnClose(FALSE)

(* connect, by the timer.                                                  *)
Reconnect ==
  /\ retry /\ retry' = FALSE
  /\ status' = IF retried THEN "reconnecting" ELSE "connecting"
  /\ socket' = "connecting" /\ session' = "first"
  /\ UNCHANGED <<service, user, retried, closes, stopped, reauth, auths, toServer, toClient, faults, rejected>>

-----------------------------------------------------------------------------
(***************************************************************************)
(* The sessions.  A message that is not a text, or not one of theirs, is   *)
(* never sent by this client.                                              *)
(***************************************************************************)
CloseUnauthorized == session' = "closed" /\ toClient' = Append(toClient, "4401")

(* verify: a good token may be refused when its key cannot be loaded.      *)
Verify(sub, accepted) ==
  \/ sub # "bad" /\ accepted /\ UNCHANGED <<faults, rejected>>
  \/ sub # "bad" /\ ~accepted /\ Fault /\ UNCHANGED rejected
  \/ sub = "bad" /\ ~accepted /\ rejected' = TRUE /\ UNCHANGED faults

Authenticate ==
  /\ session = "first" /\ toServer # <<>> /\ toServer' = Tail(toServer)
  /\ \E accepted \in BOOLEAN :
       /\ Verify(Head(toServer), accepted)
       /\ IF accepted THEN session' = Head(toServer) /\ toClient' = Append(toClient, "ready")
          ELSE CloseUnauthorized
  /\ UNCHANGED <<service, user, client, auths>>

(* AUTH_TIMEOUT: of a message that is late, or of one that never comes     *)
(* because authMessage rejected.                                           *)
AuthTimeout ==
  /\ session = "first" /\ socket \in {"open", "closing"} /\ Fault /\ CloseUnauthorized
  /\ UNCHANGED <<service, user, client, auths, toServer, rejected>>

TimeoutDue ==
  /\ session = "first" /\ socket = "open" /\ auths = 0 /\ toServer = <<>> /\ CloseUnauthorized
  /\ UNCHANGED <<service, user, client, auths, toServer, faults, rejected>>

TakesSubject(sub) == sub = session

(* user-service verifies a repeated `auth'; merchant-service ignores it.   *)
AuthenticateAgain ==
  /\ session \in Users /\ toServer # <<>> /\ toServer' = Tail(toServer)
  /\ \/ service = "merchant" /\ UNCHANGED <<session, toClient, faults, rejected>>
     \/ /\ service = "user"
        /\ \E accepted \in BOOLEAN :
             /\ Verify(Head(toServer), accepted)
             /\ IF accepted /\ TakesSubject(Head(toServer))
                THEN session' = Head(toServer) /\ UNCHANGED toClient
                ELSE CloseUnauthorized
  /\ UNCHANGED <<service, user, client, auths>>

(* The app's user signs in, out, or in as another.                         *)
ChangeUser ==
  /\ Fault /\ user' \in (Users \cup {SignedOut}) \ {user}
  /\ UNCHANGED <<service, client, auths, toServer, session, toClient, rejected>>

Advance ==
  OnOpen \/ SendAuth \/ OnReady \/ Closed \/ Reconnect \/ Authenticate \/ AuthenticateAgain \/ TimeoutDue

Next == Advance \/ OnReauthTimer \/ Stop \/ Lost \/ AuthTimeout \/ ChangeUser

Spec == Init /\ [][Next]_vars
(* Connections, answers and timers come; nobody need stop the client.      *)
FairSpec ==
  /\ Spec
  /\ WF_vars(OnOpen) /\ WF_vars(SendAuth) /\ WF_vars(OnReady) /\ WF_vars(Closed) /\ WF_vars(Reconnect)
  /\ WF_vars(Authenticate) /\ WF_vars(AuthenticateAgain) /\ WF_vars(TimeoutDue)

-----------------------------------------------------------------------------
(* Once stopped or given up, the client never connects again, whatever     *)
(* timers, answers of authMessage and closes are still to come.            *)
StoppedStaysOffline ==
  [][stopped => stopped' /\ ~retry' /\ ~reauth' /\ socket' \in {"closing", "closed"}]_vars

(* The client gives up on a refusal only after two faults: one lost        *)
(* answer, failing key load or change of user never makes it give up.      *)
GivesUpAfterTwoFaults == [][closes' > closes /\ stopped' => faults' >= 2]_vars

(* No fault leaves the client behind: it is open again, or has stopped.    *)
Reopens == []<>(status = "open" \/ stopped)

(* "The token was refreshed once and still rejected" (live.ts:80).         *)
GivesUpOnRejectedToken == closes = 2 => rejected
===============================================================================
