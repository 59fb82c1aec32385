--------------------------- MODULE LiveSessionProofs ---------------------------
(***************************************************************************)
(* Proofs about LiveSession for any set of users and any bounds.           *)
(*                                                                         *)
(* That the client gives up only after two faults is a matter of           *)
(* accounting: each close that it counts was paid for by a fault of its    *)
(* own, because a connection that got as far as ready resets the count.    *)
(***************************************************************************)
EXTENDS LiveSession, SequenceTheorems, TLAPS

(* What the sockets of the client allow.                                   *)
Timers ==
  /\ stopped => ~retry /\ ~reauth /\ socket \in {"closing", "closed"}
  /\ retry => socket = "closed"
  /\ ~stopped => closes <= 1
  /\ socket = "closed" => toServer = <<>> /\ toClient = <<>> /\ session = "closed"

(* What a session has said so far.                                         *)
Frames ==
  /\ session = "first" => toClient = <<>>
  /\ session \in Users => toClient \in {<<>>, <<"ready">>}
  /\ session \in Users /\ toClient = <<>> => closes = 0
  /\ session = "closed" => toClient \in {<<>>, <<"4401">>, <<"ready", "4401">>}

(* Who paid for the refusals that are counted, or under way.               *)
Paid ==
  /\ faults >= closes
  /\ (\E i \in 1..Len(toServer) : toServer[i] = "bad") => faults >= 1 + closes
  /\ toClient = <<"4401">> => faults >= 1 + closes
  /\ toClient = <<"ready", "4401">> => faults >= 1
  /\ session = "first" /\ socket = "open" => auths > 0 \/ toServer # <<>> \/ faults >= 1 + closes
  /\ faults = 0 => /\ \A i \in 1..Len(toServer) : toServer[i] = user
                   /\ session \in Users => session = user

IInv == TypeOK /\ Timers /\ Frames /\ Paid

-----------------------------------------------------------------------------
LEMMA InitInv == Init => IInv
PROOF
<1> SUFFICES ASSUME Init PROVE IInv OBVIOUS
<1>1. TypeOK
  <2>1. <<>> \in Seq(Subjects) /\ <<>> \in Seq({"ready", "4401"}) OBVIOUS
  <2>2. 0 \in 0..2 /\ 0 \in 0..MaxAuths /\ 0 \in 0..MaxFaults BY LiveAssumption
  <2> QED BY <2>1, <2>2 DEF Init, TypeOK
<1>2. Timers /\ Frames /\ Paid BY LiveAssumption DEF Init, Timers, Frames, Paid
<1> QED BY <1>1, <1>2 DEF IInv

LEMMA FaultType ==
  ASSUME TypeOK, Fault
  PROVE  faults \in Nat /\ faults' = faults + 1 /\ faults' \in 0..MaxFaults
PROOF
  BY LiveAssumption DEF TypeOK, Fault

(* The client's timers, and calls of stop.                                 *)
LEMMA ClientStep ==
  ASSUME IInv, OnOpen \/ OnReauthTimer \/ Stop
  PROVE  IInv'
PROOF
<1> USE DEF IInv
<1>1. UNCHANGED <<service, user, toServer, session, toClient, faults, closes>>
  BY DEF OnOpen, OnReauthTimer, Stop, StopAs, client
<1>2. TypeOK'
  <2>1. auths' \in 0..MaxAuths BY LiveAssumption DEF OnOpen, OnReauthTimer, Stop, TypeOK
  <2>2. /\ status' \in {"connecting", "open", "reconnecting", "unauthorized", "stopped"}
        /\ socket' \in {"connecting", "open", "closing", "closed"}
    BY DEF OnOpen, OnReauthTimer, Stop, StopAs, client, TypeOK
  <2>3. rejected' = rejected /\ retried' = retried
    BY DEF OnOpen, OnReauthTimer, Stop, StopAs, client
  <2>4. stopped' \in BOOLEAN /\ retry' \in BOOLEAN /\ reauth' \in BOOLEAN
    BY DEF OnOpen, OnReauthTimer, Stop, StopAs, client, TypeOK
  <2> QED BY <1>1, <2>1, <2>2, <2>3, <2>4 DEF TypeOK
<1>3. Timers' BY DEF OnOpen, OnReauthTimer, Stop, StopAs, client, TypeOK, Timers
<1>4. Frames' BY <1>1 DEF Frames
<1>5. Paid'
  <2>1. OnOpen \/ OnReauthTimer => auths' > 0 BY LiveAssumption DEF OnOpen, OnReauthTimer, TypeOK
  <2>2. Stop => socket' # "open" BY DEF Stop, StopAs
  <2> QED BY <1>1, <2>1, <2>2 DEF Paid
<1> QED BY <1>2, <1>3, <1>4, <1>5

LEMMA SendAuthStep == ASSUME IInv, SendAuth PROVE IInv'
PROOF
<1> USE DEF IInv
<1>1. UNCHANGED <<service, user, session, toClient, closes>> /\ auths' \in 0..MaxAuths
  BY LiveAssumption DEF SendAuth, StopAs, client, TypeOK
<1>2. CASE user = SignedOut /\ StopAs("unauthorized") /\ UNCHANGED <<toServer, faults>>
  <2>1. TypeOK' BY <1>1, <1>2 DEF StopAs, TypeOK, SendAuth
  <2>2. Timers' BY <1>1, <1>2 DEF StopAs, TypeOK, Timers
  <2>3. Frames' /\ Paid' BY <1>1, <1>2 DEF Frames, Paid, StopAs
  <2> QED BY <2>1, <2>2, <2>3
<1>3. ASSUME user # SignedOut, NEW sub \in {user, "bad"}, UNCHANGED client,
             IF sub = "bad" THEN Fault ELSE UNCHANGED faults,
             toServer' = IF socket = "open" THEN Append(toServer, sub) ELSE toServer
      PROVE  IInv'
  <2>1. UNCHANGED <<status, retried, closes, stopped, retry, reauth, socket>> BY <1>3 DEF client
  <2>2. sub \in Subjects /\ (sub # "bad" => sub = user) /\ toServer \in Seq(Subjects)
        /\ toServer' \in Seq(Subjects) /\ rejected' = rejected
    BY <1>3 DEF Subjects, TypeOK, SendAuth
  <2>3. /\ faults \in Nat /\ faults' \in 0..MaxFaults /\ closes \in Nat
        /\ sub = "bad" => faults' = faults + 1
        /\ sub # "bad" => faults' = faults
    BY <1>3, FaultType, LiveAssumption DEF TypeOK
  <2>4. \A i \in 1..Len(toServer') :
          \/ i \in 1..Len(toServer) /\ toServer'[i] = toServer[i]
          \/ toServer'[i] = sub
    BY <1>3, <2>2
  <2>5. TypeOK' BY <1>1, <2>1, <2>2, <2>3 DEF TypeOK
  <2>6. Timers' BY <1>1, <1>3, <2>1 DEF Timers
  <2>7. Frames' BY <1>1, <2>1 DEF Frames
  <2>8. Paid'
    <3>1. faults' >= closes BY <2>3 DEF Paid
    <3>2. ASSUME NEW i \in 1..Len(toServer'), toServer'[i] = "bad" PROVE faults' >= 1 + closes
      <4>1. CASE sub = "bad" BY <2>3, <4>1 DEF Paid
      <4>2. CASE sub # "bad" BY <2>3, <2>4, <3>2, <4>2 DEF Paid
      <4> QED BY <4>1, <4>2
    <3>3. toClient = <<"4401">> => faults' >= 1 + closes BY <2>3 DEF Paid
    <3>4. toClient = <<"ready", "4401">> => faults' >= 1 BY <2>3 DEF Paid
    <3>5. faults' = 0 => /\ \A i \in 1..Len(toServer') : toServer'[i] = user
                         /\ session \in Users => session = user
      BY <2>2, <2>3, <2>4 DEF Paid
    <3>6. socket' = "open" => toServer' # <<>>
      <4>1. Append(toServer, sub) # <<>> BY <2>2
      <4> QED BY <1>3, <2>1, <4>1
    <3> QED BY <1>1, <3>1, <3>2, <3>3, <3>4, <3>5, <3>6 DEF Paid
  <2> QED BY <2>5, <2>6, <2>7, <2>8
(* A rejecting authMessage is the fault that pays for the timeout.         *)
<1>4. CASE Fault /\ UNCHANGED <<client, toServer>>
  <2>1. UNCHANGED <<status, retried, closes, stopped, retry, reauth, socket, toServer>> BY <1>4 DEF client
  <2>2. /\ faults \in Nat /\ faults' = faults + 1 /\ faults' \in 0..MaxFaults /\ closes \in Nat
        /\ rejected' = rejected
    BY <1>4, FaultType DEF TypeOK, SendAuth
  <2>3. TypeOK' BY <1>1, <2>1, <2>2 DEF TypeOK
  <2>4. Timers' /\ Frames' BY <1>1, <2>1 DEF Timers, Frames
  <2>5. faults' >= 1 + closes /\ faults' # 0 /\ faults' >= closes /\ faults' >= 1 BY <2>2 DEF Paid
  <2>6. Paid' BY <1>1, <2>1, <2>5 DEF Paid
  <2> QED BY <2>3, <2>4, <2>6
<1> QED BY <1>2, <1>3, <1>4 DEF SendAuth

LEMMA ReadyStep == ASSUME IInv, OnReady PROVE IInv'
PROOF
<1> USE DEF IInv
<1>1. /\ toClient \in {<<>>, <<"4401">>, <<"ready">>, <<"ready", "4401">>}
      /\ toClient # <<>> /\ Head(toClient) = "ready"
  BY DEF OnReady, Frames, TypeOK
<1>2. \/ toClient = <<"ready">> /\ toClient' = <<>>
      \/ toClient = <<"ready", "4401">> /\ toClient' = <<"4401">>
  <2>1. /\ Head(<<"4401">>) = "4401" /\ Tail(<<"ready">>) = <<>>
        /\ Tail(<<"ready", "4401">>) = <<"4401">>
    OBVIOUS
  <2>2. toClient' = Tail(toClient) BY DEF OnReady
  <2> QED BY <1>1, <2>1, <2>2
<1>3. UNCHANGED <<service, user, stopped, retry, reauth, socket, auths, toServer, session, faults, rejected>>
      /\ closes' = 0 /\ socket = "open"
  BY DEF OnReady
<1>4. TypeOK'
  <2>1. <<>> \in Seq({"ready", "4401"}) /\ <<"4401">> \in Seq({"ready", "4401"}) OBVIOUS
  <2>2. retried' \in BOOLEAN /\ status' = "open" BY DEF OnReady
  <2>3. toClient' \in Seq({"ready", "4401"}) BY <1>2, <2>1
  <2> QED BY <1>3, <2>2, <2>3 DEF TypeOK
<1>5. Timers' BY <1>3 DEF Timers
<1>6. Frames'
  <2>1. session # "first" BY <1>1 DEF Frames
  <2>2. ASSUME session \in Users PROVE toClient' = <<>>
    <3>1. toClient \in {<<>>, <<"ready">>} BY <2>2 DEF Frames
    <3>2. <<"ready">> # <<"ready", "4401">> /\ <<>> # <<"ready", "4401">> OBVIOUS
    <3> QED BY <1>2, <3>1, <3>2
  <2>3. toClient' \in {<<>>, <<"4401">>, <<"ready", "4401">>} BY <1>2
  <2> QED BY <1>3, <2>1, <2>2, <2>3 DEF Frames
<1>7. Paid'
  <2>1. faults \in Nat /\ closes \in Nat BY LiveAssumption DEF TypeOK
  <2> QED BY <1>2, <1>3, <2>1 DEF Paid
<1> QED BY <1>4, <1>5, <1>6, <1>7

LEMMA CloseStep ==
  ASSUME IInv, NEW unauthorized \in BOOLEAN, OnClose(unauthorized), socket # "closed",
         unauthorized => toClient = <<"4401">> /\ faults' = faults /\ socket = "open",
         faults' \in 0..MaxFaults, faults' >= faults
  PROVE  IInv' /\ (closes' > closes /\ stopped' => faults' >= 2)
PROOF
<1> USE DEF IInv
<1>1. /\ closes \in 0..2 /\ faults \in Nat /\ faults' \in Nat /\ stopped \in BOOLEAN
      /\ retry = FALSE /\ faults >= closes
  BY LiveAssumption DEF TypeOK, Timers, Paid
<1>2. /\ reauth' = FALSE /\ socket' = "closed" /\ toServer' = <<>> /\ toClient' = <<>> /\ session' = "closed"
      /\ UNCHANGED <<service, user, auths, rejected>>
  BY DEF OnClose
<1>3. <<>> \in Seq(Subjects) /\ <<>> \in Seq({"ready", "4401"})
  OBVIOUS
<1>4. ASSUME closes' \in 0..2, stopped' \in BOOLEAN, retry' = ~stopped', retried' \in BOOLEAN,
             status' \in {status, "unauthorized"}, faults' >= closes',
             ~stopped' => closes' <= 1
      PROVE  IInv'
  <2>1. TypeOK' BY <1>2, <1>3, <1>4 DEF TypeOK
  <2>2. Timers' BY <1>2, <1>4 DEF Timers
  <2>3. Frames' BY <1>2, LiveAssumption DEF Frames
  <2>4. Paid'
    <3>1. \A i \in 1..Len(<<>>) : FALSE OBVIOUS
    <3>2. "closed" \notin Users /\ <<>> # <<"4401">> /\ <<>> # <<"ready", "4401">> BY LiveAssumption
    <3> QED BY <1>2, <1>4, <3>1, <3>2 DEF Paid
  <2> QED BY <2>1, <2>2, <2>3, <2>4
<1> DEFINE n == IF unauthorized /\ ~stopped THEN closes + 1 ELSE closes
           givesUp == n > closes /\ n >= Limit
<1>5. /\ closes' = n /\ stopped' = (stopped \/ givesUp)
      /\ status' = IF givesUp THEN "unauthorized" ELSE status
      /\ retry' = (retry \/ Reconnects(givesUp)) /\ retried' = (retried \/ Reconnects(givesUp))
  BY DEF OnClose
<1>6. givesUp \in BOOLEAN /\ Reconnects(givesUp) = (~stopped /\ ~givesUp) /\ retried \in BOOLEAN
  BY DEF Reconnects, TypeOK
<1>7. /\ unauthorized => stopped = FALSE /\ closes <= 1 /\ faults >= 1 + closes
      /\ stopped = FALSE => closes <= 1
  BY <1>1 DEF Timers, Paid
<1>8. /\ n \in 0..2 /\ faults >= n /\ (n > closes => unauthorized)
      /\ givesUp = TRUE => n = 2 /\ n > closes
      /\ givesUp = FALSE /\ stopped = FALSE => n <= 1
  BY <1>1, <1>7 DEF Limit
<1> HIDE DEF n, givesUp
<1>9. /\ stopped' \in BOOLEAN /\ retry' = ~stopped' /\ retried' \in BOOLEAN
      /\ status' \in {status, "unauthorized"}
      /\ ~stopped' => stopped = FALSE /\ givesUp = FALSE
  BY <1>1, <1>5, <1>6
<1>10. IInv'
  BY <1>1, <1>4, <1>5, <1>8, <1>9
<1>11. closes' > closes /\ stopped' => faults' >= 2
  <2> SUFFICES ASSUME n > closes, stopped' PROVE faults' >= 2 BY <1>5
  <2>1. stopped = FALSE BY <1>7, <1>8
  <2>2. givesUp = TRUE BY <1>5, <1>6, <2>1
  <2> QED BY <1>1, <1>8, <2>2
<1> QED BY <1>10, <1>11

LEMMA ClosedStep ==
  ASSUME IInv, Closed \/ Lost
  PROVE  IInv' /\ (closes' > closes /\ stopped' => faults' >= 2)
PROOF
<1> USE DEF IInv
<1>1. faults \in Nat /\ faults \in 0..MaxFaults BY LiveAssumption DEF TypeOK
<1>2. CASE socket = "open" /\ toClient # <<>> /\ Head(toClient) = "4401" /\ OnClose(TRUE) /\ UNCHANGED faults
  <2>1. toClient \in {<<>>, <<"ready">>, <<"4401">>, <<"ready", "4401">>} BY DEF Frames, TypeOK
  <2>2. Head(<<"ready">>) = "ready" /\ Head(<<"ready", "4401">>) = "ready" OBVIOUS
  <2>3. toClient = <<"4401">> BY <1>2, <2>1, <2>2
  <2>4. /\ faults' \in 0..MaxFaults /\ faults' >= faults /\ faults' = faults /\ socket # "closed"
        /\ TRUE \in BOOLEAN /\ socket = "open"
    BY <1>1, <1>2
  <2>5. OnClose(TRUE) BY <1>2, Zenon
  <2> QED BY <2>3, <2>4, <2>5, CloseStep, Zenon
<1>3. CASE socket = "closing" /\ OnClose(FALSE) /\ UNCHANGED faults
  <2>1. /\ faults' \in 0..MaxFaults /\ faults' >= faults /\ socket # "closed"
        /\ FALSE \in BOOLEAN
    BY <1>1, <1>3
  <2>2. OnClose(FALSE) BY <1>3, Zenon
  <2> QED BY <2>1, <2>2, CloseStep, Zenon
<1>4. CASE Lost
  <2>1. faults' \in 0..MaxFaults /\ faults' >= faults BY <1>1, <1>4, FaultType DEF Lost
  <2> QED BY <1>4, <2>1, CloseStep DEF Lost
<1> QED BY <1>2, <1>3, <1>4 DEF Closed

LEMMA ReconnectStep == ASSUME IInv, Reconnect PROVE IInv'
PROOF
<1> USE DEF IInv
<1>1. /\ retry' = FALSE /\ socket' = "connecting" /\ session' = "first" /\ socket = "closed" /\ ~stopped
      /\ UNCHANGED <<service, user, retried, closes, stopped, reauth, auths, toServer, toClient, faults, rejected>>
  BY DEF Reconnect, Timers
<1>2. toServer = <<>> /\ toClient = <<>> /\ (~stopped => closes <= 1) BY <1>1 DEF Timers
<1>3. status' \in {"reconnecting", "connecting"} BY DEF Reconnect
<1>4. TypeOK' BY <1>1, <1>3 DEF TypeOK
<1>5. Timers' BY <1>1, <1>2 DEF Timers
<1>6. Frames' BY <1>1, <1>2, LiveAssumption DEF Frames
<1>7. Paid' BY <1>1, LiveAssumption DEF Paid
<1> QED BY <1>4, <1>5, <1>6, <1>7

(* A message leaves the queue.                                             *)
LEMMA TailFacts ==
  ASSUME TypeOK, toServer # <<>>
  PROVE  /\ Tail(toServer) \in Seq(Subjects) /\ Head(toServer) \in Subjects
         /\ Head(toServer) = toServer[1] /\ 1 \in 1..Len(toServer)
         /\ \A i \in 1..Len(Tail(toServer)) : i + 1 \in 1..Len(toServer) /\ Tail(toServer)[i] = toServer[i + 1]
PROOF
  BY DEF TypeOK

LEMMA VerifyFacts ==
  ASSUME TypeOK, NEW sub, NEW accepted \in BOOLEAN, Verify(sub, accepted)
  PROVE  /\ faults' \in 0..MaxFaults /\ faults' \in Nat /\ faults \in Nat /\ rejected' \in BOOLEAN
         /\ faults' >= faults
         /\ accepted => sub # "bad" /\ faults' = faults
         /\ ~accepted => sub = "bad" \/ faults' = faults + 1
PROOF
<1>1. faults \in Nat /\ faults \in 0..MaxFaults /\ rejected \in BOOLEAN BY LiveAssumption DEF TypeOK
<1>2. CASE sub # "bad" /\ accepted /\ UNCHANGED <<faults, rejected>> BY <1>1, <1>2
<1>3. CASE sub # "bad" /\ ~accepted /\ Fault /\ UNCHANGED rejected
  <2>1. faults' = faults + 1 /\ faults' \in 0..MaxFaults BY <1>3, FaultType
  <2> QED BY <1>1, <1>3, <2>1
<1>4. CASE sub = "bad" /\ ~accepted /\ rejected' = TRUE /\ UNCHANGED faults BY <1>1, <1>4
<1> QED BY <1>2, <1>3, <1>4 DEF Verify

LEMMA PaidTail ==
  ASSUME IInv, toServer # <<>>, NEW f \in Nat, f >= faults
  PROVE  /\ (\E i \in 1..Len(Tail(toServer)) : Tail(toServer)[i] = "bad") => f >= 1 + closes
         /\ f = 0 => \A i \in 1..Len(Tail(toServer)) : Tail(toServer)[i] = user
         /\ Head(toServer) = "bad" => f >= 1 + closes
         /\ f = 0 => Head(toServer) = user
         /\ f >= closes
PROOF
<1>1. faults \in Nat /\ closes \in Nat BY LiveAssumption DEF IInv, TypeOK
<1>2. /\ faults >= closes
      /\ \A i \in 1..Len(toServer) : toServer[i] = "bad" => faults >= 1 + closes
      /\ faults = 0 => \A i \in 1..Len(toServer) : toServer[i] = user
  BY DEF IInv, Paid
<1>3. /\ Head(toServer) = toServer[1] /\ 1 \in 1..Len(toServer)
      /\ \A i \in 1..Len(Tail(toServer)) : i + 1 \in 1..Len(toServer) /\ Tail(toServer)[i] = toServer[i + 1]
  BY TailFacts DEF IInv
<1>4. f = 0 => faults = 0 BY <1>1
<1>5. \A i \in 1..Len(Tail(toServer)) : /\ Tail(toServer)[i] = "bad" => faults >= 1 + closes
                                        /\ f = 0 => Tail(toServer)[i] = user
  BY <1>2, <1>3, <1>4
<1>6. faults >= 1 + closes => f >= 1 + closes BY <1>1
<1> QED BY <1>1, <1>2, <1>3, <1>4, <1>5, <1>6

LEMMA AuthenticateStep == ASSUME IInv, Authenticate PROVE IInv'
PROOF
<1> USE DEF IInv
<1> DEFINE sub == Head(toServer)
<1>1. /\ session = "first" /\ toClient = <<>> /\ toServer # <<>> /\ toServer' = Tail(toServer)
      /\ UNCHANGED <<service, user, status, retried, closes, stopped, retry, reauth, socket, auths>>
      /\ socket # "closed"
  BY DEF Authenticate, Frames, Timers, client
<1>2. PICK accepted \in BOOLEAN :
        /\ Verify(sub, accepted)
        /\ IF accepted THEN session' = sub /\ toClient' = Append(toClient, "ready")
           ELSE CloseUnauthorized
  BY DEF Authenticate
<1>3. /\ faults' \in 0..MaxFaults /\ faults' \in Nat /\ faults \in Nat /\ rejected' \in BOOLEAN /\ faults' >= faults
      /\ accepted => sub # "bad" /\ faults' = faults
      /\ ~accepted => sub = "bad" \/ faults' = faults + 1
  BY <1>2, VerifyFacts
<1>4. /\ Tail(toServer) \in Seq(Subjects) /\ sub \in Subjects BY <1>1, TailFacts
<1>5. Append(<<>>, "ready") = <<"ready">> /\ Append(<<>>, "4401") = <<"4401">> OBVIOUS
<1>6. \/ accepted /\ sub \in Users /\ session' = sub /\ toClient' = <<"ready">>
      \/ ~accepted /\ session' = "closed" /\ toClient' = <<"4401">>
  BY <1>1, <1>2, <1>3, <1>4, <1>5 DEF CloseUnauthorized, Subjects
<1>7. TypeOK'
  <2>1. <<"ready">> \in Seq({"ready", "4401"}) /\ <<"4401">> \in Seq({"ready", "4401"}) OBVIOUS
  <2>2. toClient' \in Seq({"ready", "4401"}) /\ session' \in {"first", "closed"} \cup Users BY <1>6, <2>1
  <2> QED BY <1>1, <1>3, <1>4, <2>2 DEF TypeOK
<1>8. Timers' BY <1>1 DEF Timers
<1>9. Frames' BY <1>6, LiveAssumption DEF Frames
<1>10. Paid'
  <2>1. /\ (\E i \in 1..Len(Tail(toServer)) : Tail(toServer)[i] = "bad") => faults' >= 1 + closes
        /\ faults' = 0 => \A i \in 1..Len(Tail(toServer)) : Tail(toServer)[i] = user
        /\ sub = "bad" => faults' >= 1 + closes
        /\ faults' = 0 => sub = user
        /\ faults' >= closes
    BY <1>1, <1>3, PaidTail
  <2>2. closes \in Nat /\ faults >= closes BY DEF TypeOK, Paid
  <2>3. ~accepted => faults' >= 1 + closes BY <1>3, <2>1, <2>2
  <2>4. <<"ready">> # <<"4401">> /\ <<"ready">> # <<"ready", "4401">> /\ <<"4401">> # <<"ready", "4401">> OBVIOUS
  <2>5. toClient' = <<"4401">> => faults' >= 1 + closes BY <1>6, <2>3, <2>4
  <2>6. toClient' # <<"ready", "4401">> BY <1>6, <2>4
  <2>7. faults' = 0 /\ session' \in Users => session' = user BY <1>6, <2>1, LiveAssumption
  <2>8. session' # "first" BY <1>6, LiveAssumption
  <2> QED BY <1>1, <2>1, <2>5, <2>6, <2>7, <2>8 DEF Paid
<1> QED BY <1>7, <1>8, <1>9, <1>10

LEMMA AppendOne ==
  ASSUME NEW x, NEW y
  PROVE  Append(<<x>>, y) = <<x, y>>
PROOF
<1> DEFINE s == Append(<<x>>, y)
<1> DEFINE t == <<x, y>>
<1>1. <<x>> \in Seq({x, y}) /\ t \in Seq({x, y}) OBVIOUS
<1>2. s \in Seq({x, y}) /\ Len(s) = 2 /\ s[1] = x /\ s[2] = y BY <1>1, AppendProperties
<1>3. Len(t) = 2 /\ t[1] = x /\ t[2] = y OBVIOUS
<1> HIDE DEF s, t
<1>4. \A i \in 1..Len(s) : s[i] = t[i] BY <1>2, <1>3
<1> QED BY <1>1, <1>2, <1>3, <1>4, SeqEqual DEF s, t

LEMMA AgainStep == ASSUME IInv, AuthenticateAgain PROVE IInv'
PROOF
<1> USE DEF IInv
<1> DEFINE sub == Head(toServer)
<1>1. /\ session \in Users /\ toServer # <<>> /\ toServer' = Tail(toServer)
      /\ UNCHANGED <<service, user, status, retried, closes, stopped, retry, reauth, socket, auths>>
      /\ socket # "closed" /\ session # "first" /\ session # "closed"
      /\ toClient \in {<<>>, <<"ready">>} /\ (toClient = <<>> => closes = 0)
      /\ (faults = 0 => session = user)
  BY LiveAssumption DEF AuthenticateAgain, Frames, Timers, Paid, client
<1>2. /\ Tail(toServer) \in Seq(Subjects) /\ sub \in Subjects BY <1>1, TailFacts
<1>3. faults \in Nat /\ closes \in Nat /\ faults \in 0..MaxFaults BY LiveAssumption DEF TypeOK
<1>4. \/ /\ session' = session /\ toClient' = toClient /\ rejected' \in BOOLEAN
         /\ faults' = faults
      \/ /\ CloseUnauthorized /\ rejected' \in BOOLEAN /\ faults' \in 0..MaxFaults /\ faults' \in Nat
         /\ faults' >= faults
         /\ sub = "bad" \/ faults' = faults + 1 \/ sub # session
  <2>1. CASE service = "merchant" /\ UNCHANGED <<session, toClient, faults, rejected>>
    BY <2>1 DEF TypeOK
  <2>2. ASSUME NEW accepted \in BOOLEAN, Verify(sub, accepted),
               IF accepted /\ TakesSubject(sub) THEN session' = sub /\ UNCHANGED toClient ELSE CloseUnauthorized
        PROVE  <1>4!1 \/ <1>4!2
    <3>1. /\ faults' \in 0..MaxFaults /\ faults' \in Nat /\ rejected' \in BOOLEAN /\ faults' >= faults
          /\ accepted => faults' = faults
          /\ ~accepted => sub = "bad" \/ faults' = faults + 1
      BY <2>2, VerifyFacts
    <3>2. CASE accepted /\ TakesSubject(sub) BY <2>2, <3>1, <3>2 DEF TakesSubject
    <3>3. CASE ~(accepted /\ TakesSubject(sub)) BY <2>2, <3>1, <3>3 DEF TakesSubject
    <3> QED BY <3>2, <3>3
  <2> QED BY <2>1, <2>2 DEF AuthenticateAgain
<1>5. CASE <1>4!1
  <2>1. TypeOK' BY <1>1, <1>2, <1>3, <1>5 DEF TypeOK
  <2>2. Timers' BY <1>1 DEF Timers
  <2>3. Frames' BY <1>1, <1>5 DEF Frames
  <2>4. /\ (\E i \in 1..Len(Tail(toServer)) : Tail(toServer)[i] = "bad") => faults >= 1 + closes
        /\ faults = 0 => \A i \in 1..Len(Tail(toServer)) : Tail(toServer)[i] = user
    BY <1>1, <1>3, PaidTail
  <2>5. Paid' BY <1>1, <1>5, <2>4 DEF Paid
  <2> QED BY <2>1, <2>2, <2>3, <2>5
<1>6. CASE <1>4!2
  <2>1. /\ (\E i \in 1..Len(Tail(toServer)) : Tail(toServer)[i] = "bad") => faults' >= 1 + closes
        /\ faults' = 0 => \A i \in 1..Len(Tail(toServer)) : Tail(toServer)[i] = user
        /\ sub = "bad" => faults' >= 1 + closes
        /\ faults' = 0 => sub = user
        /\ faults' >= closes
    BY <1>1, <1>6, PaidTail
  <2>2. faults' = 0 => faults = 0 /\ sub = session /\ sub # "bad"
    BY <1>1, <1>3, <1>6, <2>1
  <2>3. faults' >= 1 BY <1>3, <1>6, <2>2
  <2>4. /\ Append(<<>>, "4401") = <<"4401">> /\ Append(<<"ready">>, "4401") = <<"ready", "4401">>
        /\ <<"4401">> # <<"ready", "4401">>
        /\ <<"4401">> \in Seq({"ready", "4401"}) /\ <<"ready", "4401">> \in Seq({"ready", "4401"})
    <3>1. Append(<<>>, "4401") = <<"4401">> OBVIOUS
    <3>2. Append(<<"ready">>, "4401") = <<"ready", "4401">> BY AppendOne
    <3>3. <<"4401">> # <<"ready", "4401">> OBVIOUS
    <3>4. <<"4401">> \in Seq({"ready", "4401"}) OBVIOUS
    <3>5. <<"ready", "4401">> \in Seq({"ready", "4401"}) OBVIOUS
    <3> QED BY <3>1, <3>2, <3>3, <3>4, <3>5
  <2>5. /\ session' = "closed"
        /\ \/ toClient' = <<"4401">> /\ closes = 0
           \/ toClient' = <<"ready", "4401">>
    BY <1>1, <1>6, <2>4 DEF CloseUnauthorized
  <2>6. TypeOK'
    <3>1. toClient' \in Seq({"ready", "4401"}) BY <2>4, <2>5
    <3> QED BY <1>1, <1>2, <1>6, <2>5, <3>1 DEF TypeOK
  <2>7. Timers' BY <1>1 DEF Timers
  <2>8. Frames' BY <1>1, <2>5, LiveAssumption DEF Frames
  <2>9. "closed" \notin Users BY LiveAssumption
  <2>10. Paid' BY <1>1, <2>1, <2>3, <2>4, <2>5, <2>9 DEF Paid
  <2> QED BY <2>6, <2>7, <2>8, <2>10
<1> QED BY <1>4, <1>5, <1>6

LEMMA TimeoutStep == ASSUME IInv, AuthTimeout PROVE IInv'
PROOF
<1> USE DEF IInv
<1>1. /\ faults \in Nat /\ faults' = faults + 1 /\ faults' \in 0..MaxFaults /\ closes \in Nat
  BY FaultType DEF AuthTimeout, TypeOK
<1>2. Append(<<>>, "4401") = <<"4401">> /\ <<"4401">> # <<"ready", "4401">> /\ <<"4401">> \in Seq({"ready", "4401"})
  OBVIOUS
<1>3. /\ session' = "closed" /\ toClient' = <<"4401">> /\ socket # "closed"
      /\ UNCHANGED <<service, user, status, retried, closes, stopped, retry, reauth, socket, auths, toServer, rejected>>
  BY <1>2 DEF AuthTimeout, CloseUnauthorized, Frames, client
<1>4. TypeOK' BY <1>1, <1>2, <1>3 DEF TypeOK
<1>5. Timers' BY <1>3 DEF Timers
<1>6. Frames' BY <1>3, LiveAssumption DEF Frames
<1>7. faults' >= 1 + closes /\ faults' # 0 /\ faults' >= closes BY <1>1 DEF Paid
<1>8. Paid' BY <1>2, <1>3, <1>7 DEF Paid
<1> QED BY <1>4, <1>5, <1>6, <1>8

LEMMA TimeoutDueStep == ASSUME IInv, TimeoutDue PROVE IInv'
PROOF
<1> USE DEF IInv
<1>1. Append(<<>>, "4401") = <<"4401">> /\ <<"4401">> # <<"ready", "4401">> /\ <<"4401">> \in Seq({"ready", "4401"})
  OBVIOUS
<1>2. /\ session' = "closed" /\ toClient' = <<"4401">> /\ socket # "closed" /\ toServer = <<>>
      /\ UNCHANGED <<service, user, status, retried, closes, stopped, retry, reauth, socket, auths, toServer,
                     faults, rejected>>
  BY <1>1 DEF TimeoutDue, CloseUnauthorized, Frames, client
<1>3. TypeOK' BY <1>1, <1>2 DEF TypeOK
<1>4. Timers' BY <1>2 DEF Timers
<1>5. Frames' BY <1>2, LiveAssumption DEF Frames
<1>6. faults >= 1 + closes /\ closes \in Nat /\ faults \in Nat
  BY LiveAssumption DEF TimeoutDue, Paid, TypeOK
<1>7. faults # 0 BY <1>6
<1>8. Paid' BY <1>1, <1>2, <1>6, <1>7, LiveAssumption DEF Paid
<1> QED BY <1>3, <1>4, <1>5, <1>8

LEMMA UserStep == ASSUME IInv, ChangeUser PROVE IInv'
PROOF
<1> USE DEF IInv
<1>1. /\ faults \in Nat /\ faults' = faults + 1 /\ faults' \in 0..MaxFaults /\ closes \in Nat
  BY FaultType DEF ChangeUser, TypeOK
<1>2. /\ user' \in Users \cup {SignedOut}
      /\ UNCHANGED <<service, status, retried, closes, stopped, retry, reauth, socket, auths, toServer, session, toClient, rejected>>
  BY DEF ChangeUser, client
<1>3. TypeOK' BY <1>1, <1>2 DEF TypeOK
<1>4. Timers' /\ Frames' BY <1>2 DEF Timers, Frames
<1>5. Paid' BY <1>1, <1>2 DEF Paid
<1> QED BY <1>3, <1>4, <1>5

-----------------------------------------------------------------------------
LEMMA NextInv == IInv /\ [Next]_vars => IInv'
PROOF
<1> SUFFICES ASSUME IInv, [Next]_vars PROVE IInv' OBVIOUS
<1>1. CASE OnOpen \/ OnReauthTimer \/ Stop BY <1>1, ClientStep
<1>2. CASE SendAuth BY <1>2, SendAuthStep
<1>3. CASE OnReady BY <1>3, ReadyStep
<1>4. CASE Closed \/ Lost BY <1>4, ClosedStep
<1>5. CASE Reconnect BY <1>5, ReconnectStep
<1>6. CASE Authenticate BY <1>6, AuthenticateStep
<1>7. CASE AuthenticateAgain BY <1>7, AgainStep
<1>8. CASE AuthTimeout BY <1>8, TimeoutStep
<1>9. CASE ChangeUser BY <1>9, UserStep
<1>10. CASE TimeoutDue BY <1>10, TimeoutDueStep
<1>11. CASE UNCHANGED vars
  BY <1>11 DEF vars, client, IInv, TypeOK, Timers, Frames, Paid
<1> QED BY <1>1, <1>2, <1>3, <1>4, <1>5, <1>6, <1>7, <1>8, <1>9, <1>10, <1>11 DEF Next, Advance

LEMMA Inductive == Spec => []IInv
PROOF BY InitInv, NextInv, PTL DEF Spec

(* Every variable keeps to its set.                                        *)
THEOREM TypeCorrect == Spec => []TypeOK
PROOF
<1>1. IInv => TypeOK BY DEF IInv
<1> QED BY <1>1, Inductive, PTL

(* No step takes a stop back.                                              *)
LEMMA StaysStopped ==
  ASSUME IInv, [Next]_vars, stopped
  PROVE  stopped'
PROOF
<1>1. \A unauthorized \in BOOLEAN : OnClose(unauthorized) => stopped' BY DEF OnClose
<1>2. CASE Closed \/ Lost BY <1>1, <1>2 DEF Closed, Lost
<1>3. CASE OnOpen \/ OnReauthTimer \/ Stop BY <1>3 DEF OnOpen, OnReauthTimer, Stop, StopAs, client
<1>4. CASE SendAuth BY <1>4 DEF SendAuth, StopAs, client
<1>5. CASE OnReady \/ Reconnect BY <1>5 DEF OnReady, Reconnect
<1>6. CASE Authenticate \/ AuthenticateAgain \/ AuthTimeout \/ TimeoutDue \/ ChangeUser \/ UNCHANGED vars
  BY <1>6 DEF Authenticate, AuthenticateAgain, AuthTimeout, TimeoutDue, ChangeUser, vars, client
<1> QED BY <1>2, <1>3, <1>4, <1>5, <1>6 DEF Next, Advance

(* A client that stopped, or that gave up, never connects again.           *)
THEOREM Stopped == Spec => StoppedStaysOffline
PROOF
<1>1. IInv /\ [Next]_vars =>
        [stopped => stopped' /\ ~retry' /\ ~reauth' /\ socket' \in {"closing", "closed"}]_vars
  <2> SUFFICES ASSUME IInv, [Next]_vars, stopped
               PROVE  stopped' /\ ~retry' /\ ~reauth' /\ socket' \in {"closing", "closed"}
    OBVIOUS
  <2>1. stopped' BY StaysStopped
  <2>2. Timers' BY NextInv DEF IInv
  <2> QED BY <2>1, <2>2 DEF Timers
<1> QED BY <1>1, Inductive, PTL DEF Spec, StoppedStaysOffline

(* It takes two faults to make the client give up on a refusal.            *)
THEOREM GivesUp == Spec => GivesUpAfterTwoFaults
PROOF
<1>1. IInv /\ [Next]_vars => [closes' > closes /\ stopped' => faults' >= 2]_vars
  <2> SUFFICES ASSUME IInv, Next, closes' > closes, stopped' PROVE faults' >= 2
    BY DEF vars, client
  <2>1. closes \in 0..2 BY DEF IInv, TypeOK
  <2>2. ~(closes > closes) /\ ~(0 > closes) BY <2>1
  <2>3. CASE Closed \/ Lost BY <2>3, ClosedStep
  <2>4. CASE OnOpen \/ OnReauthTimer \/ Stop \/ SendAuth
    <3>1. closes' = closes BY <2>4 DEF OnOpen, OnReauthTimer, Stop, SendAuth, StopAs, client
    <3> QED BY <2>2, <3>1
  <2>5. CASE OnReady
    <3>1. closes' = 0 BY <2>5 DEF OnReady
    <3> QED BY <2>2, <3>1
  <2>6. CASE Reconnect \/ Authenticate \/ AuthenticateAgain \/ AuthTimeout \/ TimeoutDue \/ ChangeUser
    <3>1. closes' = closes
      BY <2>6 DEF Reconnect, Authenticate, AuthenticateAgain, AuthTimeout, TimeoutDue, ChangeUser, client
    <3> QED BY <2>2, <3>1
  <2> QED BY <2>3, <2>4, <2>5, <2>6 DEF Next, Advance
<1> QED BY <1>1, Inductive, PTL DEF Spec, GivesUpAfterTwoFaults
===============================================================================
