------------------------------- MODULE Limiter -------------------------------
(***************************************************************************)
(* The attempt limits of auth-service (limits.rs) and the handlers that    *)
(* use them: sign_in_password (account.rs) and verify_second_factor        *)
(* (passkeys.rs).  A handler asks whether an attempt is allowed, checks    *)
(* the password or the passkey, which takes a while, and only then reports *)
(* a failure or clears the account's failures.                             *)
(*                                                                         *)
(* Time is kept as ages: a failure or a reading of the clock is as old as  *)
(* the number of ticks since.  A call reads the clock before it waits for  *)
(* the mutex, so calls may get it in another order than they read.         *)
(***************************************************************************)
EXTENDS Integers, Sequences, FiniteSets

CONSTANTS
  Accounts,     \* "password:<email>" or "passkey:<user>"
  Addresses,    \* "password-ip:<ip>" or "passkey-ip:<ip>"
  Requests,     \* concurrent handlers
  MaxFailures,  \* max_failures
  Window,       \* window
  MaxWait,      \* bound on the time a call waits for the mutex
  None          \* no key

ASSUME LimiterAssumption ==
  /\ MaxFailures \in Nat \ {0} /\ Window \in Nat /\ MaxWait \in Nat
  /\ IsFiniteSet(Requests)
  /\ Accounts \cap Addresses = {} /\ None \notin Accounts \cup Addresses

VARIABLES
  failures,  \* failures[k]: the ages of the recorded failures of k, as queued
  request    \* request[r]: what handler r is doing

vars == <<failures, request>>

Keys == Accounts \cup Addresses

(* Ages beyond Oldest are all alike: expired for every call. *)
Oldest == Window + 2 * MaxWait + 1

RequestState == [pc      : {"idle", "allowed", "verify", "record"},
                 account : Accounts \cup {None},
                 address : Addresses \cup {None},
                 read    : 0..MaxWait]    \* age of the call's reading of the clock

Idle == [pc |-> "idle", account |-> None, address |-> None, read |-> 0]

KeysOf(r) == {request[r].account, request[r].address}

TypeOK ==
  /\ failures \in [Keys -> Seq(0..Oldest)]
  /\ request \in [Requests -> RequestState]
  /\ \A r \in Requests : request[r].pc = "idle" \/ KeysOf(r) \subseteq Keys

Init ==
  /\ failures = [k \in Keys |-> <<>>]
  /\ request = [r \in Requests |-> Idle]

-----------------------------------------------------------------------------
(***************************************************************************)
(* The limiter.                                                            *)
(***************************************************************************)

Expired(age, read) == age - read > Window

(* Defect: nothing is dropped. *)
DropsNothing(times, read, n) == n = 0

(* Defect: at most one failure is dropped. *)
DropsOne(times, read, n) ==
  n = IF times # <<>> /\ Expired(times[1], read) THEN 1 ELSE 0

(* allowed drops expired failures from the front of a queue, up to the     *)
(* first that is not expired.                                              *)
Drops(times, read, n) ==
  /\ \A i \in 1..n : Expired(times[i], read)
  /\ n < Len(times) => ~Expired(times[n + 1], read)

(* The queue of k after allowed looked at it. *)
Rest(k, read) ==
  LET n == CHOOSE n \in 0..Len(failures[k]) : Drops(failures[k], read, n)
  IN  SubSeq(failures[k], n + 1, Len(failures[k]))

(* Defect: an attempt too many. *)
AtMostLimit(times) == Len(times) <= MaxFailures

UnderLimit(times) == Len(times) < MaxFailures

(* A request arrives; allowed reads the clock. *)
Arrive(r) ==
  /\ request[r].pc = "idle"
  /\ \E a \in Accounts, i \in Addresses :
       request' = [request EXCEPT ![r] = [pc |-> "allowed", account |-> a, address |-> i,
                                          read |-> 0]]
  /\ UNCHANGED failures

(* allowed: every key is below the limit. *)
Allow(r) ==
  LET a == request[r].account  i == request[r].address  read == request[r].read IN
  /\ request[r].pc = "allowed"
  /\ UnderLimit(Rest(a, read))
  /\ UnderLimit(Rest(i, read))
  /\ failures' = [failures EXCEPT ![a] = Rest(a, read), ![i] = Rest(i, read)]
  /\ request' = [request EXCEPT ![r].pc = "verify", ![r].read = 0]

(* 429.  The address is only looked at when the account is below the limit. *)
Refuse(r) ==
  LET a == request[r].account  i == request[r].address  read == request[r].read IN
  /\ request[r].pc = "allowed"
  /\ \/ /\ ~UnderLimit(Rest(a, read))
        /\ failures' = [failures EXCEPT ![a] = Rest(a, read)]
     \/ /\ UnderLimit(Rest(a, read)) /\ ~UnderLimit(Rest(i, read))
        /\ failures' = [failures EXCEPT ![a] = Rest(a, read), ![i] = Rest(i, read)]
  /\ request' = [request EXCEPT ![r] = Idle]

(* The password or the passkey was right: clear. *)
Succeed(r) ==
  /\ request[r].pc = "verify"
  /\ failures' = [failures EXCEPT ![request[r].account] = <<>>]
  /\ request' = [request EXCEPT ![r] = Idle]

(* It was wrong: record_failure reads the clock. *)
Fail(r) ==
  /\ request[r].pc = "verify"
  /\ request' = [request EXCEPT ![r].pc = "record"]
  /\ UNCHANGED failures

(* The check ended otherwise: an error, a connection lost, a challenge     *)
(* that was already taken.                                                 *)
GiveUp(r) ==
  /\ request[r].pc = "verify"
  /\ request' = [request EXCEPT ![r] = Idle]
  /\ UNCHANGED failures

(* record_failure has the mutex. *)
Record(r) ==
  /\ request[r].pc = "record"
  /\ failures' = [k \in Keys |-> IF k \in KeysOf(r) THEN Append(failures[k], request[r].read)
                                                     ELSE failures[k]]
  /\ request' = [request EXCEPT ![r] = Idle]

Waits(r) == request[r].pc \in {"allowed", "record"}

(* Time passes.  Nobody holds the mutex for long. *)
Tick ==
  /\ \A r \in Requests : Waits(r) => request[r].read < MaxWait
  /\ failures' = [k \in Keys |-> [n \in 1..Len(failures[k]) |->
                    IF failures[k][n] < Oldest THEN failures[k][n] + 1 ELSE Oldest]]
  /\ request' = [r \in Requests |-> IF Waits(r) THEN [request[r] EXCEPT !.read = @ + 1]
                                                ELSE request[r]]

Handle(r) == Allow(r) \/ Refuse(r) \/ Succeed(r) \/ Fail(r) \/ GiveUp(r) \/ Record(r)

Next == (\E r \in Requests : Arrive(r) \/ Handle(r)) \/ Tick

Spec == Init /\ [][Next]_vars

(* tokio runs the handlers, and time passes. *)
FairSpec == Spec /\ WF_vars(Tick) /\ \A r \in Requests : WF_vars(Handle(r))

-----------------------------------------------------------------------------
(***************************************************************************)
(* Properties.                                                             *)
(***************************************************************************)

Recent(k) == {n \in 1..Len(failures[k]) : failures[k][n] <= Window}

(* The comment of AppState::new, "10 failed attempts per account or IP     *)
(* address per 15 minutes": no more failures of a key in one window.       *)
LimitKept == \A k \in Keys : Cardinality(Recent(k)) <= MaxFailures

(* What concurrent attempts can add: a key never has more failures on      *)
(* record than the limit and one for each other attempt under way.         *)
OvershootBounded ==
  \A k \in Keys : Len(failures[k]) <= MaxFailures + Cardinality(Requests) - 1

Late(k) == {n \in 1..Len(failures[k]) : failures[k][n] <= Window + 2 * MaxWait}

(* An attempt is refused only for failures of the last window, however the *)
(* calls were ordered by the mutex: failures that are older than the       *)
(* window and two waits count no more, even behind younger ones.           *)
RefusedForRecentFailures ==
  [][\A r \in Requests : Refuse(r) =>
       \E k \in KeysOf(r) : Cardinality(Late(k)) >= MaxFailures]_vars

Blocked(k) == ~UnderLimit(Rest(k, 0))

(* A key over the limit is let in again, whatever attempts are under way. *)
OldFailuresExpire == \A k \in Keys : Blocked(k) ~> ~Blocked(k)
=============================================================================
