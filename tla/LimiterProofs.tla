---------------------------- MODULE LimiterProofs ----------------------------
(***************************************************************************)
(* Proofs about Limiter, for any limit, window, wait and finite set of     *)
(* concurrent requests.                                                    *)
(***************************************************************************)
EXTENDS Limiter, TLAPS, FiniteSetTheorems, SequenceTheorems

(* Attempts under way that may still record a failure of k. *)
Pending(k) == {r \in Requests : request[r].pc \in {"verify", "record"} /\ k \in KeysOf(r)}

(* Every attempt that was let in has room for its failure. *)
Room ==
  \A k \in Keys :
    Len(failures[k]) + Cardinality(Pending(k)) <= MaxFailures - 1 + Cardinality(Requests)

(* A failure is at most MaxWait older than one that is queued before it. *)
NearlySorted ==
  \A k \in Keys : \A n \in 1..Len(failures[k]) : \A m \in 1..n :
    failures[k][n] <= failures[k][m] + MaxWait

LInv == TypeOK /\ Room /\ NearlySorted

-----------------------------------------------------------------------------
(***************************************************************************)
(* What allowed leaves of a queue.                                         *)
(***************************************************************************)

(* Every set of naturals has a least member: 1..n shrinks with n. *)
LEMMA LeastMember ==
  ASSUME NEW E \in SUBSET Nat, E # {}
  PROVE  \E n \in E : \A m \in E : n <= m
<1> DEFINE Intervals == {1..n : n \in E}
<1>1. Intervals \subseteq FiniteSubsetsOf(Nat) /\ Intervals # {}
  <2>1. \A n \in E : 1..n \in SUBSET Nat /\ IsFiniteSet(1..n)
    BY FS_Interval
  <2> QED
    BY <2>1 DEF FiniteSubsetsOf
<1>2. PICK x \in Intervals : \A y \in Intervals : ~ (<<y, x>> \in StrictSubsetOrdering(Nat))
  <2> HIDE DEF Intervals
  <2> QED
    BY <1>1, FS_StrictSubsetOrderingWellFounded, WFMin
<1>3. PICK n \in E : x = 1..n
  BY <1>2
<1>4. SUFFICES ASSUME NEW m \in E, m < n PROVE FALSE
  BY <1>3
<1>5. 1..m \in Intervals /\ 1..m \subseteq 1..n /\ n \in 1..n /\ n \notin 1..m
  BY <1>4
<1>6. 1..m \in SUBSET Nat /\ 1..n \in SUBSET Nat
  BY <1>4
<1>7. <<1..m, 1..n>> \in StrictSubsetOrdering(Nat)
  BY <1>5, <1>6 DEF StrictSubsetOrdering
<1> QED
  BY <1>2, <1>3, <1>5, <1>7

LEMMA DropsExists ==
  ASSUME NEW times \in Seq(0..Oldest), NEW read \in 0..MaxWait
  PROVE  \E n \in 0..Len(times) : Drops(times, read, n)
<1> DEFINE Ends == {n \in 0..Len(times) : n < Len(times) => ~Expired(times[n + 1], read)}
<1>1. Len(times) \in Ends /\ Ends \in SUBSET Nat
  BY LenProperties
<1>2. PICK n \in Ends : \A m \in Ends : n <= m
  <2> HIDE DEF Ends
  <2> QED
    BY <1>1, LeastMember
<1>3. \A i \in 1..n : Expired(times[i], read)
  <2> SUFFICES ASSUME NEW i \in 1..n PROVE Expired(times[i], read)
    OBVIOUS
  <2>1. Len(times) \in Nat /\ n \in 0..Len(times)
    BY LenProperties
  <2>2. i - 1 \in 0..Len(times) /\ i - 1 < Len(times) /\ (i - 1) + 1 = i /\ ~ (n <= i - 1)
    BY <2>1
  <2>3. i - 1 \notin Ends
    BY <1>2, <2>2
  <2> QED
    BY <2>2, <2>3
<1> QED
  BY <1>2, <1>3 DEF Drops

LEMMA RestKeepsTheEnd ==
  ASSUME TypeOK, NEW k \in Keys, NEW read \in 0..MaxWait
  PROVE  \E n \in 0..Len(failures[k]) :
           /\ Drops(failures[k], read, n)
           /\ Rest(k, read) \in Seq(0..Oldest)
           /\ Len(Rest(k, read)) = Len(failures[k]) - n
           /\ \A i \in 1..Len(failures[k]) - n : Rest(k, read)[i] = failures[k][n + i]
<1> DEFINE n == CHOOSE n \in 0..Len(failures[k]) : Drops(failures[k], read, n)
<1>1. failures[k] \in Seq(0..Oldest) /\ Len(failures[k]) \in Nat
  BY LenProperties DEF TypeOK
<1>2. n \in 0..Len(failures[k]) /\ Drops(failures[k], read, n)
  BY <1>1, DropsExists
<1>3. Rest(k, read) = SubSeq(failures[k], n + 1, Len(failures[k]))
  BY DEF Rest
<1> HIDE DEF n
<1>4. \A i \in 1..Len(failures[k]) : failures[k][i] \in 0..Oldest
  BY <1>1, ElementOfSeq
<1>5. \A i \in n + 1..Len(failures[k]) : failures[k][i] \in 0..Oldest
  BY <1>1, <1>2, <1>4
<1>6. /\ Rest(k, read) \in Seq(0..Oldest)
      /\ Len(Rest(k, read)) = IF n + 1 <= Len(failures[k]) THEN Len(failures[k]) - (n + 1) + 1 ELSE 0
      /\ \A i \in 1..Len(failures[k]) - (n + 1) + 1 :
            Rest(k, read)[i] = failures[k][(n + 1) + i - 1]
  BY <1>1, <1>2, <1>3, <1>5, SubSeqProperties
<1>7. \A i \in 1..Len(failures[k]) - n : Rest(k, read)[i] = failures[k][n + i]
  BY <1>1, <1>2, <1>6
<1> QED
  BY <1>1, <1>2, <1>6, <1>7
-----------------------------------------------------------------------------
(***************************************************************************)
(* Effects that actions share.                                             *)
(***************************************************************************)

(* Some failures are dropped from the front of the queue of k. *)
Shortened(k) ==
  /\ failures'[k] \in Seq(0..Oldest)
  /\ \E n \in 0..Len(failures[k]) :
       /\ Len(failures'[k]) = Len(failures[k]) - n
       /\ \A i \in 1..Len(failures[k]) - n : failures'[k][i] = failures[k][n + i]

LEMMA RestShortens ==
  ASSUME TypeOK, NEW k \in Keys, NEW read \in 0..MaxWait, failures'[k] = Rest(k, read)
  PROVE  Shortened(k)
<1>1. PICK n \in 0..Len(failures[k]) :
        /\ Rest(k, read) \in Seq(0..Oldest)
        /\ Len(Rest(k, read)) = Len(failures[k]) - n
        /\ \A i \in 1..Len(failures[k]) - n : Rest(k, read)[i] = failures[k][n + i]
  BY RestKeepsTheEnd
<1>2. /\ Len(failures'[k]) = Len(failures[k]) - n
      /\ \A i \in 1..Len(failures[k]) - n : failures'[k][i] = failures[k][n + i]
  BY <1>1
<1>3. failures'[k] \in Seq(0..Oldest)
  BY <1>1
<1> QED
  BY <1>2, <1>3, Zenon DEF Shortened

LEMMA SameShortens ==
  ASSUME TypeOK, NEW k \in Keys, failures'[k] = failures[k]
  PROVE  Shortened(k)
<1>1. failures'[k] \in Seq(0..Oldest) /\ Len(failures[k]) \in Nat
  BY LenProperties DEF TypeOK
<1>2. /\ 0 \in 0..Len(failures[k])
      /\ Len(failures'[k]) = Len(failures[k]) - 0
      /\ \A i \in 1..Len(failures[k]) - 0 : failures'[k][i] = failures[k][0 + i]
  BY <1>1
<1> QED
  BY <1>1, <1>2, Zenon DEF Shortened

LEMMA ShortenedSorted ==
  ASSUME TypeOK, NearlySorted, \A k \in Keys : Shortened(k)
  PROVE  NearlySorted'
<1> SUFFICES ASSUME NEW k \in Keys, NEW i \in 1..Len(failures'[k]), NEW j \in 1..i
             PROVE  failures'[k][i] <= failures'[k][j] + MaxWait
  BY DEF NearlySorted
<1>1. Len(failures[k]) \in Nat
  BY LenProperties DEF TypeOK
<1>2. PICK n \in 0..Len(failures[k]) :
        /\ Len(failures'[k]) = Len(failures[k]) - n
        /\ \A x \in 1..Len(failures[k]) - n : failures'[k][x] = failures[k][n + x]
  BY DEF Shortened
<1>3. n + i \in 1..Len(failures[k]) /\ n + j \in 1..n + i
  BY <1>1, <1>2
<1>4. failures'[k][i] = failures[k][n + i] /\ failures'[k][j] = failures[k][n + j]
  BY <1>1, <1>2
<1> QED
  BY <1>3, <1>4 DEF NearlySorted

LEMMA PendingIsFinite ==
  ASSUME NEW k
  PROVE  /\ IsFiniteSet(Pending(k)) /\ Cardinality(Pending(k)) \in Nat
         /\ Cardinality(Requests) \in Nat /\ Cardinality(Pending(k)) <= Cardinality(Requests)
BY LimiterAssumption, FS_Subset, FS_CardinalityType DEF Pending

(* An attempt ends or moves on, and queues only get shorter. *)
LEMMA RoomStays ==
  ASSUME TypeOK, TypeOK', Room, NEW k \in Keys, Shortened(k), Pending(k)' \subseteq Pending(k)
  PROVE  Len(failures'[k]) + Cardinality(Pending(k)') <= MaxFailures - 1 + Cardinality(Requests)
<1>1. Cardinality(Pending(k)') \in Nat /\ Cardinality(Pending(k)') <= Cardinality(Pending(k))
  BY PendingIsFinite, FS_Subset, FS_CardinalityType
<1>2. /\ Len(failures[k]) \in Nat /\ Len(failures'[k]) \in Nat
      /\ Len(failures'[k]) <= Len(failures[k])
  BY LenProperties DEF TypeOK, Shortened
<1> QED
  BY <1>1, <1>2, PendingIsFinite, LimiterAssumption DEF Room
-----------------------------------------------------------------------------
(***************************************************************************)
(* The invariant.                                                          *)
(***************************************************************************)

LEMMA InitLInv == Init => LInv
<1> SUFFICES ASSUME Init PROVE LInv
  OBVIOUS
<1>1. TypeOK
  BY LimiterAssumption DEF Init, Idle, TypeOK, RequestState
<1>2. \A k \in Keys : Cardinality(Pending(k)) = 0 /\ Len(failures[k]) = 0
  <2>1. \A k \in Keys : Pending(k) = {} /\ failures[k] = <<>>
    BY DEF Init, Idle, Pending
  <2>2. Cardinality({}) = 0 /\ Len(<<>>) = 0
    BY FS_EmptySet
  <2> QED
    BY <2>1, <2>2
<1>3. Cardinality(Requests) \in Nat
  BY LimiterAssumption, FS_CardinalityType
<1>4. Room
  BY <1>2, <1>3, LimiterAssumption DEF Room
<1>5. NearlySorted
  BY <1>2 DEF NearlySorted
<1> QED
  BY <1>1, <1>4, <1>5 DEF LInv

LEMMA ArriveKeeps ==
  ASSUME LInv, NEW r \in Requests, Arrive(r)
  PROVE  LInv'
<1>1. PICK a \in Accounts, i \in Addresses :
        request' = [request EXCEPT ![r] = [pc |-> "allowed", account |-> a, address |-> i,
                                           read |-> 0]]
  BY DEF Arrive
<1>2. failures' = failures
  BY DEF Arrive
<1>3. TypeOK'
  BY <1>1, <1>2, LimiterAssumption DEF LInv, TypeOK, RequestState, KeysOf, Keys
<1>4. \A k \in Keys : Pending(k)' \subseteq Pending(k)
  BY <1>1 DEF LInv, TypeOK, RequestState, Pending, KeysOf
<1>5. \A k \in Keys : Shortened(k)
  BY <1>2, SameShortens DEF LInv
<1> QED
  BY <1>3, <1>4, <1>5, RoomStays, ShortenedSorted DEF LInv, Room

(* Steps of an attempt that report nothing. *)
LEMMA MoveKeeps ==
  ASSUME LInv, NEW r \in Requests, Succeed(r) \/ Fail(r) \/ GiveUp(r)
  PROVE  LInv'
<1>1. request[r].pc = "verify" /\ KeysOf(r) \subseteq Keys /\ request \in [Requests -> RequestState]
  BY DEF LInv, TypeOK, Succeed, Fail, GiveUp
<1>2. /\ request' \in [Requests -> RequestState]
      /\ \A q \in Requests : request'[q].pc = "idle" \/ KeysOf(q)' \subseteq Keys
      /\ \A k \in Keys : Pending(k)' \subseteq Pending(k)
  <2>1. CASE request' = [request EXCEPT ![r] = Idle]
    <3>1. Idle \in RequestState /\ Idle.pc = "idle"
      BY LimiterAssumption DEF Idle, RequestState
    <3>2. \A q \in Requests : request'[q] = IF q = r THEN Idle ELSE request[q]
      BY <1>1, <2>1
    <3> QED
      BY <1>1, <2>1, <3>1, <3>2 DEF LInv, TypeOK, Pending, KeysOf
  <2>2. CASE request' = [request EXCEPT ![r].pc = "record"]
    <3>1. [request[r] EXCEPT !.pc = "record"] \in RequestState
      BY <1>1 DEF RequestState
    <3>2. \A q \in Requests : /\ request'[q].account = request[q].account
                             /\ request'[q].address = request[q].address
                             /\ request'[q].pc = IF q = r THEN "record" ELSE request[q].pc
      BY <1>1, <2>2 DEF RequestState
    <3>3. \A q \in Requests : KeysOf(q)' = KeysOf(q)
      BY <3>2 DEF KeysOf
    <3> QED
      BY <1>1, <2>2, <3>1, <3>2, <3>3 DEF LInv, TypeOK, Pending
  <2> QED
    BY <2>1, <2>2 DEF Succeed, Fail, GiveUp
<1>3. failures' \in [Keys -> Seq(0..Oldest)]
  <2>1. failures \in [Keys -> Seq(0..Oldest)] /\ <<>> \in Seq(0..Oldest)
    BY EmptySeq DEF LInv, TypeOK
  <2>2. failures' = failures \/ failures' = [failures EXCEPT ![request[r].account] = <<>>]
    BY DEF Succeed, Fail, GiveUp
  <2> QED
    BY <2>1, <2>2
<1>6. \A k \in Keys : failures'[k] = failures[k] \/ failures'[k] = <<>>
  BY DEF LInv, TypeOK, Succeed, Fail, GiveUp
<1>7. \A k \in Keys : Shortened(k)
  <2> SUFFICES ASSUME NEW k \in Keys PROVE Shortened(k)
    OBVIOUS
  <2>1. CASE failures'[k] = failures[k]
    BY <2>1, SameShortens DEF LInv
  <2>2. CASE failures'[k] = <<>>
    <3>1. Len(failures[k]) \in Nat
      BY LenProperties DEF LInv, TypeOK
    <3> SUFFICES \E n \in 0..Len(failures[k]) :
                   /\ Len(failures'[k]) = Len(failures[k]) - n
                   /\ \A j \in 1..Len(failures[k]) - n : failures'[k][j] = failures[k][n + j]
      BY <1>3 DEF Shortened
    <3> WITNESS Len(failures[k]) \in 0..Len(failures[k])
    <3> QED
      BY <2>2, <3>1
  <2> QED
    BY <1>6, <2>1, <2>2
<1>8. TypeOK'
  BY <1>2, <1>3 DEF TypeOK
<1> QED
  BY <1>2, <1>7, <1>8, RoomStays, ShortenedSorted DEF LInv, Room

(* allowed, whatever it answers, shortens the queues it looks at. *)
LEMMA AllowedShortens ==
  ASSUME LInv, NEW r \in Requests, Allow(r) \/ Refuse(r)
  PROVE  /\ failures' \in [Keys -> Seq(0..Oldest)]
         /\ \A k \in Keys : Shortened(k)
<1> DEFINE a == request[r].account
           i == request[r].address
           read == request[r].read
<1>1. a \in Keys /\ i \in Keys /\ read \in 0..MaxWait
  BY DEF LInv, TypeOK, RequestState, KeysOf, Allow, Refuse
<1>2. TypeOK
  BY DEF LInv
<1>3. Rest(a, read) \in Seq(0..Oldest) /\ Rest(i, read) \in Seq(0..Oldest)
  BY <1>1, <1>2, RestKeepsTheEnd
<1>4. \/ failures' = [failures EXCEPT ![a] = Rest(a, read), ![i] = Rest(i, read)]
      \/ failures' = [failures EXCEPT ![a] = Rest(a, read)]
  BY DEF Allow, Refuse
<1> HIDE DEF a, i, read
<1>5. /\ failures' \in [Keys -> Seq(0..Oldest)]
      /\ \A k \in Keys : \/ failures'[k] = failures[k]
                         \/ failures'[k] = Rest(k, read)
  BY <1>1, <1>2, <1>3, <1>4 DEF TypeOK
<1> QED
  BY <1>1, <1>2, <1>5, SameShortens, RestShortens

LEMMA AllowKeeps ==
  ASSUME LInv, NEW r \in Requests, Allow(r)
  PROVE  LInv'
<1>1. request' = [request EXCEPT ![r].pc = "verify", ![r].read = 0] /\ request[r].pc = "allowed"
  BY DEF Allow
<1>2. failures' \in [Keys -> Seq(0..Oldest)] /\ \A k \in Keys : Shortened(k)
  BY AllowedShortens
<1>3. TypeOK'
  <2>0. request[r] \in RequestState /\ 0 \in 0..MaxWait
    BY LimiterAssumption DEF LInv, TypeOK
  <2>1. [request[r] EXCEPT !.pc = "verify", !.read = 0] \in RequestState
    BY <2>0 DEF RequestState
  <2>2. request' \in [Requests -> RequestState]
    BY <1>1, <2>1 DEF LInv, TypeOK
  <2>3. \A q \in Requests : KeysOf(q)' = KeysOf(q) /\ (q # r => request'[q] = request[q])
    BY <1>1 DEF LInv, TypeOK, RequestState, KeysOf
  <2> QED
    BY <1>1, <1>2, <2>2, <2>3 DEF LInv, TypeOK
<1>4. ASSUME NEW k \in Keys, k \in KeysOf(r)
      PROVE  Len(failures'[k]) + Cardinality(Pending(k)') <= MaxFailures - 1 + Cardinality(Requests)
  <2>1. request[r].account \in Accounts /\ request[r].address \in Addresses
    BY <1>1, LimiterAssumption DEF LInv, TypeOK, RequestState, KeysOf, Keys
  <2>2. UnderLimit(failures'[k])
    BY <1>4, <2>1, LimiterAssumption DEF Allow, KeysOf, Keys, LInv, TypeOK
  <2>3. Len(failures'[k]) \in Nat /\ Len(failures'[k]) <= MaxFailures - 1
    BY <1>2, <2>2, LenProperties, LimiterAssumption DEF UnderLimit
  <2>4. /\ Cardinality(Pending(k)') \in Nat /\ Cardinality(Requests) \in Nat
        /\ Cardinality(Pending(k)') <= Cardinality(Requests)
    BY LimiterAssumption, FS_Subset, FS_CardinalityType DEF Pending
  <2> QED
    BY <2>3, <2>4, LimiterAssumption
<1>5. ASSUME NEW k \in Keys, k \notin KeysOf(r)
      PROVE  Pending(k)' \subseteq Pending(k)
  BY <1>1, <1>5 DEF LInv, TypeOK, RequestState, Pending, KeysOf
<1> QED
  BY <1>2, <1>3, <1>4, <1>5, RoomStays, ShortenedSorted DEF LInv, Room

LEMMA RefuseKeeps ==
  ASSUME LInv, NEW r \in Requests, Refuse(r)
  PROVE  LInv'
<1>1. request' = [request EXCEPT ![r] = Idle]
  BY DEF Refuse
<1>2. failures' \in [Keys -> Seq(0..Oldest)] /\ \A k \in Keys : Shortened(k)
  BY AllowedShortens
<1>3. TypeOK'
  BY <1>1, <1>2, LimiterAssumption DEF LInv, TypeOK, RequestState, KeysOf, Idle
<1>4. \A k \in Keys : Pending(k)' \subseteq Pending(k)
  BY <1>1 DEF LInv, TypeOK, RequestState, Pending, KeysOf, Idle
<1> QED
  BY <1>2, <1>3, <1>4, RoomStays, ShortenedSorted DEF LInv, Room

LEMMA RecordKeeps ==
  ASSUME LInv, NEW r \in Requests, Record(r)
  PROVE  LInv'
<1>1. /\ request' = [request EXCEPT ![r] = Idle] /\ request[r].pc = "record"
      /\ request[r].read \in 0..Oldest /\ request[r].read <= MaxWait
  BY LimiterAssumption DEF Record, LInv, TypeOK, RequestState, Oldest
<1>2. \A k \in Keys : failures'[k] = IF k \in KeysOf(r) THEN Append(failures[k], request[r].read)
                                                        ELSE failures[k]
  BY DEF Record
<1>3. \A k \in Keys : failures[k] \in Seq(0..Oldest) /\ Len(failures[k]) \in Nat
  BY LenProperties DEF LInv, TypeOK
<1>4. ASSUME NEW k \in Keys
      PROVE  /\ failures'[k] \in Seq(0..Oldest)
             /\ Len(failures'[k]) = IF k \in KeysOf(r) THEN Len(failures[k]) + 1
                                                       ELSE Len(failures[k])
             /\ \A n \in 1..Len(failures[k]) : failures'[k][n] = failures[k][n]
             /\ k \in KeysOf(r) => failures'[k][Len(failures[k]) + 1] = request[r].read
  <2>1. CASE k \in KeysOf(r)
    <3>1. failures'[k] = Append(failures[k], request[r].read)
      BY <1>2, <2>1
    <3> QED
      BY <1>1, <1>3, <2>1, <3>1, AppendProperties
  <2>2. CASE k \notin KeysOf(r)
    BY <1>2, <1>3, <2>2
  <2> QED
    BY <2>1, <2>2
<1>5. TypeOK'
  <2>1. failures' \in [Keys -> Seq(0..Oldest)]
    BY <1>4 DEF Record
  <2> QED
    BY <1>1, <2>1, LimiterAssumption DEF LInv, TypeOK, RequestState, KeysOf, Idle
<1>6. ASSUME NEW k \in Keys
      PROVE  Len(failures'[k]) + Cardinality(Pending(k)') <= MaxFailures - 1 + Cardinality(Requests)
  <2>1. CASE k \in KeysOf(r)
    <3>1. Pending(k)' = Pending(k) \ {r} /\ r \in Pending(k)
      BY <1>1, <2>1 DEF LInv, TypeOK, RequestState, Pending, KeysOf, Idle
    <3>2. Cardinality(Pending(k)') = Cardinality(Pending(k)) - 1
      BY <3>1, PendingIsFinite, FS_RemoveElement
    <3> QED
      BY <1>3, <1>4, <2>1, <3>2, PendingIsFinite, LimiterAssumption DEF LInv, Room
  <2>2. CASE k \notin KeysOf(r)
    <3>1. Pending(k)' \subseteq Pending(k) /\ failures'[k] = failures[k]
      BY <1>1, <1>2, <2>2 DEF LInv, TypeOK, RequestState, Pending, KeysOf, Idle
    <3> QED
      BY <1>5, <3>1, SameShortens, RoomStays DEF LInv
  <2> QED
    BY <2>1, <2>2
<1>7. NearlySorted'
  <2> SUFFICES ASSUME NEW k \in Keys, NEW n \in 1..Len(failures'[k]), NEW m \in 1..n
               PROVE  failures'[k][n] <= failures'[k][m] + MaxWait
    BY DEF NearlySorted
  <2>1. CASE n \in 1..Len(failures[k])
    <3>1. m \in 1..Len(failures[k])
      BY <1>3, <2>1
    <3> QED
      BY <1>4, <2>1, <3>1 DEF LInv, NearlySorted
  <2>2. CASE n \notin 1..Len(failures[k])
    <3>1. k \in KeysOf(r) /\ n = Len(failures[k]) + 1
      BY <1>3, <1>4, <2>2
    <3>2. failures'[k][n] = request[r].read
      BY <1>4, <3>1
    <3>3. Oldest \in Nat
      BY LimiterAssumption DEF Oldest
    <3>4. failures'[k] \in Seq(0..Oldest) /\ m \in 1..Len(failures'[k])
      BY <1>3, <1>4, <3>1
    <3>5. failures'[k][m] \in 0..Oldest
      BY <3>4, ElementOfSeq
    <3> QED
      BY <1>1, <3>2, <3>3, <3>5, LimiterAssumption
  <2> QED
    BY <2>1, <2>2
<1> QED
  BY <1>5, <1>6, <1>7 DEF LInv, Room
LEMMA TickKeeps ==
  ASSUME LInv, Tick
  PROVE  LInv'
<1> DEFINE older(age) == IF age < Oldest THEN age + 1 ELSE Oldest
<1>1. Oldest \in Nat
  BY LimiterAssumption DEF Oldest
<1>2. ASSUME NEW k \in Keys
      PROVE  /\ failures'[k] \in Seq(0..Oldest)
             /\ Len(failures'[k]) = Len(failures[k])
             /\ \A n \in 1..Len(failures[k]) : failures'[k][n] = older(failures[k][n])
  <2>1. failures[k] \in Seq(0..Oldest) /\ Len(failures[k]) \in Nat
    BY LenProperties DEF LInv, TypeOK
  <2>2. \A n \in 1..Len(failures[k]) : failures[k][n] \in 0..Oldest
    BY <2>1, ElementOfSeq
  <2>3. failures'[k] = [n \in 1..Len(failures[k]) |-> older(failures[k][n])]
    BY DEF Tick
  <2>4. \A n \in 1..Len(failures[k]) : older(failures[k][n]) \in 0..Oldest
    BY <1>1, <2>2
  <2>5. failures'[k] \in [1..Len(failures[k]) -> 0..Oldest]
    BY <2>3, <2>4
  <2>6. failures'[k] \in Seq(0..Oldest)
    BY <2>1, <2>5, SeqDef
  <2>7. Len(failures'[k]) = Len(failures[k])
    BY <2>1, <2>5, <2>6, LenProperties
  <2> QED
    BY <2>3, <2>6, <2>7
<1>3. TypeOK'
  <2>1. failures' \in [Keys -> Seq(0..Oldest)]
    BY <1>2 DEF Tick
  <2>2. ASSUME NEW r \in Requests
        PROVE  /\ request'[r] \in RequestState /\ request'[r].pc = request[r].pc
               /\ KeysOf(r)' = KeysOf(r)
    <3>1. request[r] \in RequestState
      BY DEF LInv, TypeOK
    <3>2. CASE Waits(r)
      <4>1. request'[r] = [request[r] EXCEPT !.read = @ + 1] /\ request[r].read < MaxWait
        BY <3>2 DEF Tick
      <4> QED
        BY <3>1, <4>1, LimiterAssumption DEF RequestState, KeysOf
    <3>3. CASE ~Waits(r)
      <4>1. request'[r] = request[r]
        BY <3>3 DEF Tick
      <4> QED
        BY <3>1, <4>1 DEF KeysOf
    <3> QED
      BY <3>2, <3>3
  <2> QED
    BY <2>1, <2>2 DEF LInv, TypeOK, Tick
<1>4. \A k \in Keys : Pending(k)' = Pending(k)
  <2>1. \A r \in Requests : request'[r].pc = request[r].pc /\ KeysOf(r)' = KeysOf(r)
    BY DEF Tick, LInv, TypeOK, RequestState, KeysOf
  <2> QED
    BY <2>1 DEF Pending
<1>5. Room'
  BY <1>2, <1>4 DEF LInv, Room
<1>6. NearlySorted'
  <2> SUFFICES ASSUME NEW k \in Keys, NEW n \in 1..Len(failures'[k]), NEW m \in 1..n
               PROVE  failures'[k][n] <= failures'[k][m] + MaxWait
    BY DEF NearlySorted
  <2>1. failures[k] \in Seq(0..Oldest) /\ Len(failures[k]) \in Nat
    BY LenProperties DEF LInv, TypeOK
  <2>2. n \in 1..Len(failures[k]) /\ m \in 1..Len(failures[k])
    BY <1>2, <2>1
  <2>3. failures[k][n] \in 0..Oldest /\ failures[k][m] \in 0..Oldest
    BY <2>1, <2>2, ElementOfSeq
  <2>4. failures[k][n] <= failures[k][m] + MaxWait
    BY <2>2 DEF LInv, NearlySorted
  <2>5. /\ failures'[k][n] = older(failures[k][n])
        /\ failures'[k][m] = older(failures[k][m])
    BY <1>2, <2>2
  <2> QED
    BY <1>1, <2>3, <2>4, <2>5, LimiterAssumption
<1> QED
  BY <1>3, <1>5, <1>6 DEF LInv

(* LInv holds in every reachable state. *)
THEOREM LimiterInvariant == Spec => []LInv
<1>1. LInv /\ [Next]_vars => LInv'
  <2> SUFFICES ASSUME LInv, [Next]_vars PROVE LInv'
    OBVIOUS
  <2>1. ASSUME NEW r \in Requests, Arrive(r) \/ Handle(r) PROVE LInv'
    BY <2>1, ArriveKeeps, AllowKeeps, RefuseKeeps, MoveKeeps, RecordKeeps DEF Handle
  <2>2. CASE UNCHANGED vars
    <3>1. failures' = failures /\ request' = request
      BY <2>2 DEF vars
    <3> QED
      BY <3>1 DEF LInv, TypeOK, RequestState, KeysOf, Room, Pending, NearlySorted
  <2> QED
    BY <2>1, <2>2, TickKeeps DEF Next
<1> QED
  BY <1>1, InitLInv, PTL DEF Spec

-----------------------------------------------------------------------------
(***************************************************************************)
(* Results.                                                                *)
(***************************************************************************)

(* Queues and handlers keep their types. *)
THEOREM LimiterTypes == Spec => []TypeOK
<1>1. LInv => TypeOK
  BY DEF LInv
<1> QED
  BY <1>1, LimiterInvariant, PTL

(* Concurrent attempts exceed the limit by less than their number. *)
THEOREM OvershootIsBounded == Spec => []OvershootBounded
<1>1. LInv => OvershootBounded
  <2> SUFFICES ASSUME LInv, NEW k \in Keys
               PROVE  Len(failures[k]) <= MaxFailures + Cardinality(Requests) - 1
    BY DEF OvershootBounded
  <2>1. Len(failures[k]) \in Nat
    BY LenProperties DEF LInv, TypeOK
  <2> QED
    BY <2>1, PendingIsFinite, LimiterAssumption DEF LInv, Room
<1> QED
  BY <1>1, LimiterInvariant, PTL

(* A key at its limit has that many failures that are not old. *)
LEMMA FullOfRecent ==
  ASSUME LInv, NEW k \in Keys, NEW read \in 0..MaxWait, ~UnderLimit(Rest(k, read))
  PROVE  Cardinality(Late(k)) >= MaxFailures
<1>1. PICK n \in 0..Len(failures[k]) :
        /\ Drops(failures[k], read, n)
        /\ Len(Rest(k, read)) = Len(failures[k]) - n
  BY RestKeepsTheEnd DEF LInv
<1>2. failures[k] \in Seq(0..Oldest) /\ Len(failures[k]) \in Nat /\ Oldest \in Nat
  BY LenProperties, LimiterAssumption DEF LInv, TypeOK, Oldest
<1>3. MaxFailures <= Len(failures[k]) - n /\ n + 1 \in 1..Len(failures[k])
  BY <1>1, <1>2, LimiterAssumption DEF UnderLimit
<1>4. failures[k][n + 1] \in 0..Oldest
  BY <1>2, <1>3, ElementOfSeq
<1>5. failures[k][n + 1] <= Window + MaxWait
  <2>1. ~Expired(failures[k][n + 1], read)
    BY <1>1, <1>2, <1>3 DEF Drops
  <2> QED
    BY <1>2, <1>4, <2>1, LimiterAssumption DEF Expired
<1>6. n + 1..Len(failures[k]) \subseteq Late(k)
  <2> SUFFICES ASSUME NEW j \in n + 1..Len(failures[k]) PROVE j \in Late(k)
    OBVIOUS
  <2>1. j \in 1..Len(failures[k]) /\ n + 1 \in 1..j
    BY <1>2, <1>3
  <2>2. failures[k][j] \in 0..Oldest
    BY <1>2, <2>1, ElementOfSeq
  <2>3. failures[k][j] <= failures[k][n + 1] + MaxWait
    BY <2>1 DEF LInv, NearlySorted
  <2>4. failures[k][j] <= Window + 2 * MaxWait
    <3>1. \A a, b, w, m \in Nat : a <= b + m /\ b <= w + m => a <= w + 2 * m
      OBVIOUS
    <3>2. /\ failures[k][j] \in Nat /\ failures[k][n + 1] \in Nat
          /\ Window \in Nat /\ MaxWait \in Nat
      BY <1>2, <1>4, <2>2, LimiterAssumption
    <3> QED
      BY <1>5, <2>3, <3>1, <3>2
  <2> QED
    BY <2>1, <2>4 DEF Late
<1>7. Late(k) \subseteq 1..Len(failures[k]) /\ IsFiniteSet(1..Len(failures[k]))
  <2>1. 1 \in Int /\ Len(failures[k]) \in Int
    BY <1>2
  <2> QED
    BY <2>1, FS_Interval DEF Late
<1>8. IsFiniteSet(Late(k)) /\ Cardinality(Late(k)) \in Nat
  BY <1>7, FS_Subset, FS_CardinalityType
<1>9. /\ Cardinality(n + 1..Len(failures[k])) <= Cardinality(Late(k))
      /\ Cardinality(n + 1..Len(failures[k])) \in Nat
  BY <1>6, <1>8, FS_Subset, FS_CardinalityType
<1>10. Cardinality(n + 1..Len(failures[k])) = Len(failures[k]) - n
  <2>1. n + 1 \in Int /\ Len(failures[k]) \in Int /\ n + 1 <= Len(failures[k])
    BY <1>2, <1>3
  <2>2. Cardinality(n + 1..Len(failures[k])) = Len(failures[k]) - (n + 1) + 1
    BY <2>1, FS_Interval
  <2> QED
    BY <1>2, <2>2
<1> QED
  BY <1>2, <1>3, <1>8, <1>9, <1>10, LimiterAssumption

(* Nobody is refused for failures that are older than the window, but for  *)
(* the waits of the calls that recorded and looked at them.                *)
THEOREM RefusalsAreForRecentFailures == Spec => RefusedForRecentFailures
<1>1. LInv => \A r \in Requests : Refuse(r) =>
                \E k \in KeysOf(r) : Cardinality(Late(k)) >= MaxFailures
  <2> SUFFICES ASSUME LInv, NEW r \in Requests, Refuse(r)
               PROVE  \E k \in KeysOf(r) : Cardinality(Late(k)) >= MaxFailures
    OBVIOUS
  <2>1. /\ request[r].account \in Keys /\ request[r].address \in Keys
        /\ request[r].read \in 0..MaxWait
    BY DEF LInv, TypeOK, RequestState, KeysOf, Refuse
  <2>2. \/ ~UnderLimit(Rest(request[r].account, request[r].read))
        \/ ~UnderLimit(Rest(request[r].address, request[r].read))
    BY DEF Refuse
  <2> QED
    BY <2>1, <2>2, FullOfRecent DEF KeysOf
<1>2. LInv /\ [Next]_vars =>
        [\A r \in Requests : Refuse(r) =>
           \E k \in KeysOf(r) : Cardinality(Late(k)) >= MaxFailures]_vars
  BY <1>1
<1> QED
  BY <1>2, LimiterInvariant, PTL DEF Spec, RefusedForRecentFailures
=============================================================================
