-------------------------- MODULE TokenVerifierProofs --------------------------
(***************************************************************************)
(* Proofs about TokenVerifier for any calls, keys and grants and any       *)
(* values of the cooldown, the maximal key age and the flight of answers.  *)
(*                                                                         *)
(* The argument relates ages: what the cache says of a key was true at     *)
(* most MaxFlight before the cache was loaded.                             *)
(***************************************************************************)
EXTENDS TokenVerifier, TLAPS

(* A key set sent a while ago: what it says was true then.                 *)
WasTrue(keys, age) ==
  /\ \A k \in keys : signing[k] # "not_yet"
  /\ \A k \in keys : signing[k] = "no_longer" => since[k] <= age
  /\ \A k \in Keys : signing[k] = "now" /\ since[k] > age => k \in keys

Answers == \A c \in Calls : call[c].pc = "store" => WasTrue(call[c].answer, call[c].flight)
Cache == cache.age # None => WasTrue(cache.keys, cache.age + MaxFlight)
NeverLoaded == cache.age = None => cache.keys = {}

(* What a call knew of its key when it began still holds, or the key has   *)
(* been rotated out since.                                                 *)
Remembered ==
  \A c \in Calls :
    /\ call[c].known => \/ signing[call[c].kid] = "no_longer"
                        \/ signing[call[c].kid] = "now" /\ since[call[c].kid] > Cooldown + MaxFlight
    /\ call[c].dead => signing[call[c].kid] = "no_longer" /\ since[call[c].kid] > MaxKeyAge + MaxFlight
    /\ call[c].known \/ call[c].dead => call[c].kid \in Keys

(* After its own reload a call finds a current key and no retired one.     *)
Reloaded ==
  \A c \in Calls : call[c].pc = "again" =>
    /\ call[c].known /\ signing[call[c].kid] = "now" => call[c].kid \in cache.keys
    /\ call[c].dead => call[c].kid \notin cache.keys

Judged ==
  \A c \in Calls :
    /\ call[c].pc \in {"decode", "ok"} /\ call[c].dead => call[c].failed
    /\ call[c].pc = "unknown" /\ call[c].known => signing[call[c].kid] = "no_longer"

IInv == TypeOK /\ Answers /\ Cache /\ NeverLoaded /\ Remembered /\ Reloaded /\ Judged

-----------------------------------------------------------------------------
LEMMA InitInv == Init => IInv
PROOF
<1> SUFFICES ASSUME Init PROVE IInv OBVIOUS
<1>1. NoCall \in CallState
  BY VerifierAssumption DEF NoCall, CallState, Outcomes
<1>2. signing \in [Keys -> {"not_yet", "now", "no_longer"}] /\ since \in [Keys -> Ages]
  BY VerifierAssumption DEF Init, Ages
<1>3. TypeOK
  BY <1>1, <1>2 DEF Init, TypeOK, NoKeys
<1>4. \A c \in Calls : call[c].pc = "idle" /\ ~call[c].known /\ ~call[c].dead
  BY DEF Init, NoCall
<1>5. Answers /\ Remembered /\ Reloaded /\ Judged
  BY <1>4 DEF Answers, Remembered, Reloaded, Judged
<1>6. Cache /\ NeverLoaded
  BY DEF Init, NoKeys, Cache, NeverLoaded
<1> QED
  BY <1>3, <1>5, <1>6 DEF IInv

(* A step of one call leaves keys and ages alone: what is to be shown is   *)
(* about its new record, and about a cache it may have replaced.           *)
LEMMA CallStep ==
  ASSUME IInv, NEW c \in Calls, NEW r \in CallState,
         call' = [call EXCEPT ![c] = r], UNCHANGED <<signing, since, revoked>>,
         cache' \in [keys : SUBSET Keys, age : Ages \cup {None}],
         Cache', NeverLoaded',
         r.pc = "store" => WasTrue(r.answer, r.flight),
         r.known => \/ signing[r.kid] = "no_longer"
                    \/ signing[r.kid] = "now" /\ since[r.kid] > Cooldown + MaxFlight,
         r.dead => signing[r.kid] = "no_longer" /\ since[r.kid] > MaxKeyAge + MaxFlight,
         r.known \/ r.dead => r.kid \in Keys,
         \A d \in Calls \ {c} : call[d].pc = "again" =>
           /\ call[d].known /\ signing[call[d].kid] = "now" => call[d].kid \in cache'.keys
           /\ call[d].dead => call[d].kid \notin cache'.keys,
         r.pc = "again" => /\ r.known /\ signing[r.kid] = "now" => r.kid \in cache'.keys
                           /\ r.dead => r.kid \notin cache'.keys,
         r.pc \in {"decode", "ok"} /\ r.dead => r.failed,
         r.pc = "unknown" /\ r.known => signing[r.kid] = "no_longer"
  PROVE  IInv'
PROOF
<1> USE DEF IInv
<1>1. TypeOK' BY DEF TypeOK
<1>2. /\ call'[c] = r
      /\ \A d \in Calls \ {c} : call'[d] = call[d]
  BY DEF TypeOK
<1>3. ASSUME NEW keys, NEW age, WasTrue(keys, age) PROVE WasTrue(keys, age)'
  BY <1>3 DEF WasTrue
<1>4. Answers'
  <2> SUFFICES ASSUME NEW d \in Calls, call'[d].pc = "store"
               PROVE  WasTrue(call[d].answer, call[d].flight)'
    BY DEF Answers
  <2>1. CASE d = c BY <1>2, <2>1 DEF WasTrue
  <2>2. CASE d # c BY <1>2, <2>2 DEF WasTrue, Answers
  <2> QED BY <2>1, <2>2
<1>5. Remembered' BY <1>2 DEF Remembered
<1>6. Reloaded' BY <1>2 DEF Reloaded
<1>7. Judged' BY <1>2 DEF Judged
<1> QED BY <1>1, <1>4, <1>5, <1>6, <1>7

(* The same when the cache stays as it is.                                 *)
LEMMA QuietStep ==
  ASSUME IInv, NEW c \in Calls, NEW r \in CallState,
         call' = [call EXCEPT ![c] = r], UNCHANGED <<signing, since, cache, revoked>>,
         r.kid = call[c].kid, r.known = call[c].known, r.dead = call[c].dead,
         r.pc = "store" => WasTrue(r.answer, r.flight),
         r.pc = "again" => call[c].pc = "again",
         r.pc \in {"decode", "ok"} /\ r.dead => r.failed,
         r.pc = "unknown" /\ r.known => signing[r.kid] = "no_longer"
  PROVE  IInv'
PROOF
<1>1. cache' \in [keys : SUBSET Keys, age : Ages \cup {None}]
  BY DEF IInv, TypeOK
<1>2. Cache' /\ NeverLoaded'
  BY DEF IInv, Cache, NeverLoaded, WasTrue
<1>3. /\ r.known => \/ signing[r.kid] = "no_longer"
                    \/ signing[r.kid] = "now" /\ since[r.kid] > Cooldown + MaxFlight
      /\ r.dead => signing[r.kid] = "no_longer" /\ since[r.kid] > MaxKeyAge + MaxFlight
      /\ r.known \/ r.dead => r.kid \in Keys
  BY DEF IInv, Remembered
<1>4. \A d \in Calls : call[d].pc = "again" =>
           /\ call[d].known /\ signing[call[d].kid] = "now" => call[d].kid \in cache'.keys
           /\ call[d].dead => call[d].kid \notin cache'.keys
  BY DEF IInv, Reloaded
<1> QED
  BY <1>1, <1>2, <1>3, <1>4, CallStep

LEMMA CallType == ASSUME TypeOK, NEW c \in Calls
  PROVE /\ call[c] \in CallState /\ call[c].kid \in Keys \cup {None} /\ call[c].gid \in Grants \cup {None}
        /\ call[c].known \in BOOLEAN /\ call[c].dead \in BOOLEAN
        /\ call[c].answer \in SUBSET Keys /\ call[c].flight \in 0..MaxFlight
        /\ call[c].failed \in BOOLEAN /\ call[c].had \in BOOLEAN
PROOF
  BY DEF TypeOK, CallState

LEMMA IdleType == NoCall \in CallState
PROOF
  BY VerifierAssumption DEF NoCall, CallState, Outcomes

LEMMA LookType ==
  ASSUME NEW me \in CallState, NEW had \in BOOLEAN, NEW pc \in {"decode", "fetch", "unknown"}
  PROVE  [me EXCEPT !.had = had, !.pc = pc] \in CallState
PROOF
  BY DEF CallState, Outcomes

LEMMA VerifyType ==
  ASSUME NEW k \in Keys, NEW g \in Grants, NEW known \in BOOLEAN, NEW dead \in BOOLEAN
  PROVE  [NoCall EXCEPT !.pc = "look", !.kid = k, !.gid = g, !.known = known, !.dead = dead] \in CallState
PROOF
<1>1. [NoCall EXCEPT !.pc = "look", !.kid = k, !.gid = g] \in CallState
  BY IdleType, Zenon DEF CallState
<1> QED BY <1>1, IdleType, Zenon DEF CallState

LEMMA VerifyStep ==
  ASSUME IInv, NEW c \in Calls, NEW k \in Keys, NEW g \in Grants, Verify(c, k, g)
  PROVE  IInv'
PROOF
<1> DEFINE r == [NoCall EXCEPT !.pc = "look", !.kid = k, !.gid = g,
                      !.known = signing[k] = "now" /\ since[k] > Cooldown + MaxFlight,
                      !.dead = signing[k] = "no_longer" /\ since[k] > MaxKeyAge + MaxFlight]
<1>1. /\ r.pc = "look" /\ r.kid = k
      /\ r.known = (signing[k] = "now" /\ since[k] > Cooldown + MaxFlight)
      /\ r.dead = (signing[k] = "no_longer" /\ since[k] > MaxKeyAge + MaxFlight)
  BY DEF NoCall
<1>2. r \in CallState
  BY VerifyType
<1>3. call' = [call EXCEPT ![c] = r] /\ UNCHANGED <<signing, since, cache, revoked>>
  BY DEF Verify
<1>4. cache' \in [keys : SUBSET Keys, age : Ages \cup {None}]
  BY <1>3 DEF IInv, TypeOK
<1>5. Cache' /\ NeverLoaded'
  BY <1>3 DEF IInv, Cache, NeverLoaded, WasTrue
<1>6. \A d \in Calls : call[d].pc = "again" =>
           /\ call[d].known /\ signing[call[d].kid] = "now" => call[d].kid \in cache'.keys
           /\ call[d].dead => call[d].kid \notin cache'.keys
  BY <1>3 DEF IInv, Reloaded
<1> HIDE DEF r
<1> QED
  BY <1>1, <1>2, <1>3, <1>4, <1>5, <1>6, CallStep

LEMMA LookStep ==
  ASSUME IInv, NEW c \in Calls, Look(c)
  PROVE  IInv'
PROOF
<1> DEFINE me == call[c]
           cached == me.kid \in cache.keys
           pc == CASE cached /\ (~Stale \/ ~MayReload) -> "decode"
                   [] cached /\ Stale /\ MayReload -> "fetch"
                   [] ~cached /\ MayReload -> "fetch"
                   [] OTHER -> "unknown"
           r == [me EXCEPT !.had = cached, !.pc = pc]
<1>1. me \in CallState BY CallType DEF IInv
<1>2. call' = [call EXCEPT ![c] = r] /\ UNCHANGED <<signing, since, cache, revoked>>
  BY <1>1 DEF Look, IInv, TypeOK
<1>3. pc \in {"decode", "fetch", "unknown"} OBVIOUS
<1>4. r \in CallState /\ r.pc = pc /\ r.kid = me.kid /\ r.known = me.known /\ r.dead = me.dead
  <2>1. cached \in BOOLEAN OBVIOUS
  <2> HIDE DEF cached, pc
  <2>2. r \in CallState BY <1>1, <1>3, <2>1, LookType, Zenon
  <2>3. r.pc = pc /\ r.kid = me.kid /\ r.known = me.known /\ r.dead = me.dead
    BY <1>1, Zenon DEF CallState
  <2> QED BY <2>2, <2>3
<1>5. cache.age # None => cache.age \in Nat /\ WasTrue(cache.keys, cache.age + MaxFlight)
  BY DEF IInv, TypeOK, Cache, Ages
<1>6. \A k \in Keys : since[k] \in Nat
  BY VerifierAssumption DEF IInv, TypeOK, Ages
<1>7. ASSUME me.dead, cached PROVE Stale /\ MayReload
  <2>1. signing[me.kid] = "no_longer" /\ since[me.kid] > MaxKeyAge + MaxFlight /\ me.kid \in Keys
    BY <1>7 DEF IInv, Remembered
  <2>2. CASE cache.age = None BY <2>2 DEF Stale, MayReload
  <2>3. CASE cache.age # None
    <3>1. since[me.kid] <= cache.age + MaxFlight
      BY <1>5, <1>7, <2>1, <2>3 DEF WasTrue
    <3>2. cache.age >= MaxKeyAge /\ cache.age >= Cooldown
      BY <1>5, <1>6, <2>1, <2>3, <3>1, VerifierAssumption
    <3> QED BY <3>2 DEF Stale, MayReload
  <2> QED BY <2>2, <2>3
<1>8. ASSUME me.known, ~cached, ~MayReload PROVE signing[me.kid] = "no_longer"
  <2>1. cache.age # None /\ cache.age < Cooldown
    BY <1>5, <1>8, VerifierAssumption DEF MayReload
  <2>2. /\ me.kid \in Keys
        /\ \/ signing[me.kid] = "no_longer"
           \/ signing[me.kid] = "now" /\ since[me.kid] > Cooldown + MaxFlight
    <3>1. Remembered /\ call[c].known BY <1>8 DEF IInv
    <3> QED BY <3>1 DEF Remembered
  <2>3. since[me.kid] > Cooldown + MaxFlight => since[me.kid] > cache.age + MaxFlight
    BY <1>5, <1>6, <2>1, <2>2, VerifierAssumption
  <2> QED BY <1>5, <1>8, <2>1, <2>2, <2>3 DEF WasTrue
<1>9. pc = "decode" => cached /\ (~Stale \/ ~MayReload) BY Zenon
<1>10. pc = "unknown" => ~cached /\ ~MayReload BY Zenon
<1> HIDE DEF r, pc
<1> QED
  BY <1>2, <1>3, <1>4, <1>7, <1>8, <1>9, <1>10, QuietStep

LEMMA AnswersStep ==
  ASSUME IInv, NEW c \in Calls, AuthServiceAnswers(c)
  PROVE  IInv'
PROOF
<1> DEFINE r == [call[c] EXCEPT !.pc = "store", !.answer = Published]
<1>1. call[c] \in CallState /\ call[c].flight \in Nat BY CallType DEF IInv
<1>2. Published \in SUBSET Keys BY DEF Published
<1>3. r \in CallState /\ r.pc = "store" /\ r.answer = Published /\ r.kid = call[c].kid
      /\ r.known = call[c].known /\ r.dead = call[c].dead /\ r.flight = call[c].flight
  BY <1>1, <1>2, Zenon DEF CallState
<1>4. call' = [call EXCEPT ![c] = r] /\ UNCHANGED <<signing, since, cache, revoked>>
  BY <1>1 DEF AuthServiceAnswers, IInv, TypeOK
<1>5. WasTrue(Published, call[c].flight)
  BY DEF WasTrue, Published
<1> HIDE DEF r
<1> QED
  BY <1>3, <1>4, <1>5, QuietStep

LEMMA FailsStep ==
  ASSUME IInv, NEW c \in Calls, ReloadFails(c)
  PROVE  IInv'
PROOF
<1> DEFINE pc == IF call[c].had THEN "decode" ELSE "unavailable"
           r == [call[c] EXCEPT !.pc = pc, !.failed = TRUE, !.answer = {}, !.flight = 0]
<1>1. call[c] \in CallState BY CallType DEF IInv
<1>2. 0 \in 0..MaxFlight /\ {} \in SUBSET Keys /\ TRUE \in BOOLEAN BY VerifierAssumption
<1>3. pc \in {"decode", "unavailable"} OBVIOUS
<1>4. call' = [call EXCEPT ![c] = r] /\ UNCHANGED <<signing, since, cache, revoked>>
  BY <1>1 DEF ReloadFails, Failed, IInv, TypeOK
<1> HIDE DEF pc
<1>5. r \in CallState /\ r.pc = pc /\ r.kid = call[c].kid
      /\ r.known = call[c].known /\ r.dead = call[c].dead /\ r.failed
  BY <1>1, <1>2, <1>3, Zenon DEF CallState, Outcomes
<1> HIDE DEF r
<1> QED
  BY <1>3, <1>4, <1>5, QuietStep

LEMMA StoreStep ==
  ASSUME IInv, NEW c \in Calls, StoreKeys(c)
  PROVE  IInv'
PROOF
<1> DEFINE me == call[c]
           r == [me EXCEPT !.pc = "again", !.answer = {}, !.flight = 0]
<1>1. me \in CallState /\ me.answer \in SUBSET Keys /\ me.flight \in Nat /\ me.flight <= MaxFlight
  BY CallType DEF IInv
<1>2. 0 \in 0..MaxFlight /\ {} \in SUBSET Keys BY VerifierAssumption
<1>3. r \in CallState /\ r.pc = "again" /\ r.kid = me.kid /\ r.known = me.known /\ r.dead = me.dead
  BY <1>1, <1>2, Zenon DEF CallState
<1>4. call' = [call EXCEPT ![c] = r] /\ UNCHANGED <<signing, since, revoked>>
  BY <1>1 DEF StoreKeys, IInv, TypeOK
<1>5. cache'.keys = me.answer /\ cache'.age = 0 /\ cache' \in [keys : SUBSET Keys, age : Ages \cup {None}]
  BY <1>1, VerifierAssumption DEF StoreKeys, Ages
<1>6. WasTrue(me.answer, me.flight) BY DEF StoreKeys, IInv, Answers
<1>7. \A k \in Keys : since[k] \in Nat BY VerifierAssumption DEF IInv, TypeOK, Ages
<1>8. WasTrue(me.answer, MaxFlight)
  BY <1>1, <1>6, <1>7, VerifierAssumption DEF WasTrue
<1>9. Cache' /\ NeverLoaded'
  BY <1>4, <1>5, <1>8, VerifierAssumption DEF Cache, NeverLoaded, WasTrue
<1>10. ASSUME NEW d \in Calls
       PROVE  /\ call[d].known /\ signing[call[d].kid] = "now" => call[d].kid \in cache'.keys
              /\ call[d].dead => call[d].kid \notin cache'.keys
  <2>1. /\ call[d].known => \/ signing[call[d].kid] = "no_longer"
                            \/ signing[call[d].kid] = "now" /\ since[call[d].kid] > Cooldown + MaxFlight
        /\ call[d].dead => signing[call[d].kid] = "no_longer" /\ since[call[d].kid] > MaxKeyAge + MaxFlight
        /\ call[d].known \/ call[d].dead => call[d].kid \in Keys
    BY DEF IInv, Remembered
  <2>2. ASSUME call[d].known, signing[call[d].kid] = "now" PROVE call[d].kid \in cache'.keys
    <3>1. since[call[d].kid] > MaxFlight /\ call[d].kid \in Keys
      BY <1>7, <2>1, <2>2, VerifierAssumption
    <3> QED BY <1>5, <1>8, <2>2, <3>1 DEF WasTrue
  <2>3. ASSUME call[d].dead PROVE call[d].kid \notin cache'.keys
    <3>1. /\ ~(since[call[d].kid] <= MaxFlight)
          /\ call[d].kid \in Keys /\ signing[call[d].kid] = "no_longer"
      BY <1>7, <2>1, <2>3, VerifierAssumption
    <3> QED BY <1>5, <1>8, <3>1 DEF WasTrue
  <2> QED BY <2>2, <2>3
<1>11. /\ r.known => \/ signing[r.kid] = "no_longer"
                     \/ signing[r.kid] = "now" /\ since[r.kid] > Cooldown + MaxFlight
       /\ r.dead => signing[r.kid] = "no_longer" /\ since[r.kid] > MaxKeyAge + MaxFlight
       /\ r.known \/ r.dead => r.kid \in Keys
  <2>1. Remembered BY DEF IInv
  <2> HIDE DEF r
  <2> QED BY <1>3, <2>1 DEF Remembered
<1>12. r.known /\ signing[r.kid] = "now" => r.kid \in cache'.keys
  BY <1>3, <1>10
<1>13. r.dead => r.kid \notin cache'.keys
  BY <1>3, <1>10
<1> HIDE DEF r, me
<1> QED
  BY <1>3, <1>4, <1>5, <1>9, <1>10, <1>11, <1>12, <1>13, CallStep

LEMMA CachedStep ==
  ASSUME IInv, NEW c \in Calls, CachedKey(c)
  PROVE  IInv'
PROOF
<1> DEFINE pc == IF call[c].kid \in cache.keys THEN "decode" ELSE "unknown"
           r == [call[c] EXCEPT !.pc = pc]
<1>1. call[c] \in CallState BY CallType DEF IInv
<1>2. pc \in {"decode", "unknown"} OBVIOUS
<1>3. call' = [call EXCEPT ![c] = r] /\ UNCHANGED <<signing, since, cache, revoked>>
  BY <1>1 DEF CachedKey, IInv, TypeOK
<1>4. /\ call[c].known /\ signing[call[c].kid] = "now" => call[c].kid \in cache.keys
      /\ call[c].dead => call[c].kid \notin cache.keys
  BY DEF CachedKey, IInv, Reloaded
<1>5. call[c].known => signing[call[c].kid] \in {"now", "no_longer"}
  BY DEF IInv, Remembered
<1>6. (pc = "decode" => call[c].kid \in cache.keys) /\ (pc = "unknown" => call[c].kid \notin cache.keys)
  OBVIOUS
<1> HIDE DEF pc
<1>7. r \in CallState /\ r.pc = pc /\ r.kid = call[c].kid /\ r.known = call[c].known /\ r.dead = call[c].dead
  BY <1>1, <1>2, Zenon DEF CallState, Outcomes
<1> HIDE DEF r
<1> QED
  BY <1>2, <1>3, <1>4, <1>5, <1>6, <1>7, QuietStep

LEMMA DecodeStep ==
  ASSUME IInv, NEW c \in Calls, Decode(c)
  PROVE  IInv'
PROOF
<1>1. call[c] \in CallState BY CallType DEF IInv
<1>2. PICK pc \in {"invalid", "revoked", "ok"} :
        call' = [call EXCEPT ![c].pc = pc] /\ UNCHANGED <<signing, since, cache, revoked>>
  BY DEF Decode
<1> DEFINE r == [call[c] EXCEPT !.pc = pc]
<1>3. call' = [call EXCEPT ![c] = r]
  BY <1>2 DEF IInv, TypeOK
<1>4. call[c].dead => call[c].failed
  BY DEF Decode, IInv, Judged
<1>5. r \in CallState /\ r.pc = pc /\ r.kid = call[c].kid /\ r.known = call[c].known /\ r.dead = call[c].dead
      /\ r.failed = call[c].failed
  BY <1>1, <1>2, Zenon DEF CallState, Outcomes
<1> HIDE DEF r
<1> QED
  BY <1>2, <1>3, <1>4, <1>5, QuietStep

LEMMA ReturnStep ==
  ASSUME IInv, NEW c \in Calls, Return(c)
  PROVE  IInv'
PROOF
<1>1. NoCall \in CallState /\ NoCall.pc = "idle" /\ ~NoCall.known /\ ~NoCall.dead
  BY IdleType DEF NoCall
<1>2. call' = [call EXCEPT ![c] = NoCall] /\ UNCHANGED <<signing, since, cache, revoked>>
  BY DEF Return
<1>3. cache' \in [keys : SUBSET Keys, age : Ages \cup {None}]
  BY <1>2 DEF IInv, TypeOK
<1>4. Cache' /\ NeverLoaded'
  BY <1>2 DEF IInv, Cache, NeverLoaded, WasTrue
<1>5. \A d \in Calls : call[d].pc = "again" =>
           /\ call[d].known /\ signing[call[d].kid] = "now" => call[d].kid \in cache'.keys
           /\ call[d].dead => call[d].kid \notin cache'.keys
  BY <1>2 DEF IInv, Reloaded
<1> QED
  BY <1>1, <1>2, <1>3, <1>4, <1>5, CallStep

LEMMA RotateStep ==
  ASSUME IInv, NEW k \in Keys, Rotate(k)
  PROVE  IInv'
PROOF
<1>1. /\ signing' \in [Keys -> {"not_yet", "now", "no_longer"}] /\ since' \in [Keys -> Ages]
      /\ UNCHANGED <<cache, revoked, call>>
  BY VerifierAssumption DEF Rotate, IInv, TypeOK, Ages
<1>2. TypeOK' BY <1>1 DEF IInv, TypeOK
<1>3. \A x \in Keys :
        \/ x = k /\ signing[x] = "not_yet" /\ signing'[x] = "now" /\ since'[x] = 0
        \/ signing[x] = "now" /\ signing'[x] = "no_longer" /\ since'[x] = 0
        \/ signing[x] # "now" /\ x # k /\ signing'[x] = signing[x] /\ since'[x] = since[x]
  BY DEF Rotate, IInv, TypeOK
<1>4. ASSUME NEW keys \in SUBSET Keys, NEW age \in Nat, WasTrue(keys, age) PROVE WasTrue(keys, age)'
  BY <1>3, <1>4 DEF WasTrue
<1>5. Answers'
  <2> SUFFICES ASSUME NEW d \in Calls, call[d].pc = "store"
               PROVE  WasTrue(call[d].answer, call[d].flight)'
    BY <1>1 DEF Answers
  <2>1. call[d].answer \in SUBSET Keys /\ call[d].flight \in Nat /\ WasTrue(call[d].answer, call[d].flight)
    BY CallType DEF IInv, Answers
  <2> QED BY <1>1, <1>4, <2>1
<1>6. Cache'
  <2> SUFFICES ASSUME cache.age # None PROVE WasTrue(cache.keys, cache.age + MaxFlight)'
    BY <1>1 DEF Cache
  <2>1. /\ cache.keys \in SUBSET Keys /\ cache.age + MaxFlight \in Nat
        /\ WasTrue(cache.keys, cache.age + MaxFlight)
    BY VerifierAssumption DEF IInv, TypeOK, Ages, Cache
  <2> QED BY <1>1, <1>4, <2>1
<1>7. NeverLoaded' BY <1>1 DEF IInv, NeverLoaded
<1>8. ASSUME NEW d \in Calls
      PROVE  /\ call[d].known => \/ signing'[call[d].kid] = "no_longer"
                                 \/ /\ signing'[call[d].kid] = "now" /\ signing[call[d].kid] = "now"
                                    /\ since'[call[d].kid] > Cooldown + MaxFlight
             /\ call[d].dead => signing'[call[d].kid] = "no_longer" /\ since'[call[d].kid] > MaxKeyAge + MaxFlight
             /\ call[d].known \/ call[d].dead => call[d].kid \in Keys
  <2>1. /\ call[d].known => \/ signing[call[d].kid] = "no_longer"
                            \/ signing[call[d].kid] = "now" /\ since[call[d].kid] > Cooldown + MaxFlight
        /\ call[d].dead => signing[call[d].kid] = "no_longer" /\ since[call[d].kid] > MaxKeyAge + MaxFlight
        /\ call[d].known \/ call[d].dead => call[d].kid \in Keys
    BY DEF IInv, Remembered
  <2> QED BY <1>3, <2>1
<1>9. Remembered' BY <1>1, <1>8 DEF Remembered
<1>10. Reloaded' BY <1>1, <1>8 DEF IInv, Reloaded
<1>11. Judged'
  <2> SUFFICES ASSUME NEW d \in Calls
               PROVE  /\ call[d].pc \in {"decode", "ok"} /\ call[d].dead => call[d].failed
                      /\ call[d].pc = "unknown" /\ call[d].known => signing'[call[d].kid] = "no_longer"
    BY <1>1 DEF Judged
  <2>1. /\ call[d].pc \in {"decode", "ok"} /\ call[d].dead => call[d].failed
        /\ call[d].pc = "unknown" /\ call[d].known => signing[call[d].kid] = "no_longer"
    BY DEF IInv, Judged
  <2> QED BY <1>8, <2>1
<1> QED BY <1>2, <1>5, <1>6, <1>7, <1>9, <1>10, <1>11 DEF IInv

LEMMA TickStep ==
  ASSUME IInv, Tick
  PROVE  IInv'
PROOF
<1> DEFINE Top == MaxKeyAge + MaxFlight + 1
<1>1. /\ signing' = signing /\ revoked' = revoked
      /\ since' = [k \in Keys |-> Older(since[k])]
      /\ cache' = [cache EXCEPT !.age = IF @ = None THEN None ELSE Older(@)]
      /\ call' = [c \in Calls |-> IF call[c].pc = "store" THEN [call[c] EXCEPT !.flight = @ + 1] ELSE call[c]]
      /\ \A c \in Calls : call[c].pc = "store" => call[c].flight < MaxFlight
  BY DEF Tick
<1>2. Top \in Nat /\ Ages = 0..Top /\ MaxFlight \in Nat /\ MaxFlight < Top
      /\ Cooldown + MaxFlight < Top /\ MaxKeyAge + MaxFlight < Top
  BY VerifierAssumption DEF Ages
<1>3. ASSUME NEW a \in Ages
      PROVE  /\ a \in Nat /\ Older(a) \in Nat /\ Older(a) \in Ages
             /\ a <= Older(a) /\ Older(a) <= a + 1 /\ Older(a) <= Top
             /\ Older(a) = a + 1 \/ Older(a) = Top
  <2> HIDE DEF Top
  <2> QED BY <1>2 DEF Older
<1>4. \A k \in Keys : since[k] \in Ages /\ since'[k] = Older(since[k])
  BY <1>1 DEF IInv, TypeOK
<1>5. cache'.keys = cache.keys /\ cache'.age = IF cache.age = None THEN None ELSE Older(cache.age)
  BY <1>1 DEF IInv, TypeOK
<1>6. ASSUME NEW c \in Calls
      PROVE  /\ call[c] \in CallState /\ call'[c] \in CallState
             /\ call'[c].pc = call[c].pc /\ call'[c].kid = call[c].kid /\ call'[c].known = call[c].known
             /\ call'[c].dead = call[c].dead /\ call'[c].failed = call[c].failed /\ call'[c].answer = call[c].answer
             /\ call[c].pc = "store" => call'[c].flight = call[c].flight + 1 /\ call[c].flight \in Nat /\ call[c].flight < MaxFlight
  <2>1. call[c] \in CallState /\ call[c].flight \in 0..MaxFlight BY CallType DEF IInv
  <2>2. CASE call[c].pc # "store" BY <1>1, <2>1, <2>2, Zenon
  <2>3. CASE call[c].pc = "store"
    <3>1. call[c].flight + 1 \in 0..MaxFlight /\ call[c].flight \in Nat /\ call[c].flight < MaxFlight
      BY <1>1, <1>2, <2>1, <2>3
    <3>2. call'[c] = [call[c] EXCEPT !.flight = call[c].flight + 1] BY <1>1, <2>3
    <3> QED BY <2>1, <3>1, <3>2, Zenon DEF CallState
  <2> QED BY <2>2, <2>3
<1>7. TypeOK'
  <2>1. since' \in [Keys -> Ages] BY <1>1, <1>3, <1>4
  <2>2. cache' \in [keys : SUBSET Keys, age : Ages \cup {None}]
    BY <1>1, <1>3 DEF IInv, TypeOK
  <2>3. call' \in [Calls -> CallState] BY <1>1, <1>6
  <2> QED BY <1>1, <2>1, <2>2, <2>3 DEF IInv, TypeOK
(* Everything grows old alike, except where ages stop counting, beyond     *)
(* every bound that is compared with.                                      *)
<1>8. ASSUME NEW keys \in SUBSET Keys, NEW old \in Nat, NEW new \in Nat, old <= new,
             new = old + 1 \/ new >= Top, WasTrue(keys, old)
      PROVE  WasTrue(keys, new)'
  <2> HIDE DEF Top
  <2>1. \A k \in Keys : /\ since'[k] \in Nat /\ since[k] \in Nat /\ since'[k] <= Top
                         /\ since'[k] <= since[k] + 1
    BY <1>3, <1>4
  <2>2. \A k \in keys : signing[k] = "no_longer" => since'[k] <= new
    BY <1>2, <1>8, <2>1 DEF WasTrue
  <2>3. \A k \in Keys : signing[k] = "now" /\ since'[k] > new => k \in keys
    BY <1>2, <1>8, <2>1 DEF WasTrue
  <2> QED BY <1>1, <1>8, <2>2, <2>3 DEF WasTrue
<1>9. Answers'
  <2> SUFFICES ASSUME NEW c \in Calls, call'[c].pc = "store"
               PROVE  WasTrue(call[c].answer, call[c].flight)'
    BY DEF Answers
  <2>1. call[c].answer \in SUBSET Keys /\ call[c].pc = "store" BY <1>6, CallType DEF IInv
  <2>2. WasTrue(call[c].answer, call[c].flight) BY <2>1 DEF IInv, Answers
  <2>3. call[c].flight \in Nat /\ call'[c].flight = call[c].flight + 1 /\ call'[c].answer = call[c].answer
    BY <1>6, <2>1
  <2>4. PICK keys \in SUBSET Keys, old \in Nat, new \in Nat :
          keys = call[c].answer /\ old = call[c].flight /\ new = old + 1
    BY <2>1, <2>3
  <2>5. WasTrue(keys, new)' BY <1>8, <2>2, <2>4
  <2> QED BY <2>3, <2>4, <2>5, <1>6 DEF WasTrue
<1>10. Cache' /\ NeverLoaded'
  <2>1. CASE cache.age = None BY <1>5, <2>1 DEF IInv, Cache, NeverLoaded
  <2>2. CASE cache.age # None
    <3>1. cache.age \in Ages /\ cache.keys \in SUBSET Keys /\ None \notin Ages /\ WasTrue(cache.keys, cache.age + MaxFlight)
      BY <2>2, VerifierAssumption DEF IInv, TypeOK, Cache, Ages
    <3>2. PICK keys \in SUBSET Keys, old \in Nat, new \in Nat :
            /\ keys = cache.keys /\ old = cache.age + MaxFlight /\ new = Older(cache.age) + MaxFlight
            /\ old <= new /\ (new = old + 1 \/ new >= Top)
      <4>1. /\ cache.age \in Nat /\ Older(cache.age) \in Nat /\ cache.age <= Older(cache.age)
            /\ Older(cache.age) = cache.age + 1 \/ Older(cache.age) = Top
        BY <1>3, <3>1
      <4> HIDE DEF Top
      <4>2. \A a, b \in Nat : a <= b /\ (b = a + 1 \/ b = Top) =>
              /\ a + MaxFlight \in Nat /\ b + MaxFlight \in Nat /\ a + MaxFlight <= b + MaxFlight
              /\ (b + MaxFlight = (a + MaxFlight) + 1 \/ b + MaxFlight >= Top)
        BY <1>2
      <4> QED BY <3>1, <4>1, <4>2
    <3>3. WasTrue(keys, new)' BY <1>8, <3>1, <3>2
    <3>4. cache'.keys = keys /\ cache'.age # None /\ cache'.age + MaxFlight = new
      BY <1>3, <1>5, <2>2, <3>1, <3>2
    <3> QED BY <3>3, <3>4 DEF WasTrue, Cache, NeverLoaded
  <2> QED BY <2>1, <2>2
<1>11. ASSUME NEW c \in Calls
       PROVE  /\ call[c].known => \/ signing[call[c].kid] = "no_longer"
                                  \/ /\ signing[call[c].kid] = "now" /\ since'[call[c].kid] > Cooldown + MaxFlight
              /\ call[c].dead => signing[call[c].kid] = "no_longer" /\ since'[call[c].kid] > MaxKeyAge + MaxFlight
              /\ call[c].known \/ call[c].dead => call[c].kid \in Keys
  <2>1. /\ call[c].known => \/ signing[call[c].kid] = "no_longer"
                            \/ signing[call[c].kid] = "now" /\ since[call[c].kid] > Cooldown + MaxFlight
        /\ call[c].dead => signing[call[c].kid] = "no_longer" /\ since[call[c].kid] > MaxKeyAge + MaxFlight
        /\ call[c].known \/ call[c].dead => call[c].kid \in Keys
    BY DEF IInv, Remembered
  <2>2. ASSUME NEW k \in Keys, NEW bound \in Nat, since[k] > bound PROVE since'[k] > bound
    <3>1. /\ since[k] \in Nat /\ since'[k] \in Nat /\ since[k] <= since'[k]
      BY <1>3, <1>4
    <3> QED BY <2>2, <3>1
  <2> QED BY <2>1, <2>2, VerifierAssumption
<1>12. Remembered' BY <1>1, <1>6, <1>11 DEF Remembered
<1>13. Reloaded' BY <1>1, <1>5, <1>6 DEF IInv, Reloaded
<1>14. Judged' BY <1>1, <1>6 DEF IInv, Judged
<1> QED BY <1>7, <1>9, <1>10, <1>12, <1>13, <1>14 DEF IInv

LEMMA RestartStep == ASSUME IInv, Restart PROVE IInv'
PROOF
<1>1. TypeOK' BY IdleType DEF Restart, IInv, TypeOK, NoKeys
<1>2. \A c \in Calls : call'[c].pc = "idle" /\ ~call'[c].known /\ ~call'[c].dead
  BY DEF Restart, NoCall
<1>3. Answers' /\ Remembered' /\ Reloaded' /\ Judged'
  BY <1>2 DEF Answers, Remembered, Reloaded, Judged
<1>4. Cache' /\ NeverLoaded' BY DEF Restart, NoKeys, Cache, NeverLoaded
<1> QED BY <1>1, <1>3, <1>4 DEF IInv

LEMMA RestStep ==
  ASSUME IInv, UNCHANGED <<signing, since, cache, call>>, revoked' \subseteq Grants
  PROVE  IInv'
PROOF
<1>1. TypeOK' BY DEF IInv, TypeOK
<1>2. Answers' /\ Cache' /\ NeverLoaded' BY DEF IInv, Answers, Cache, NeverLoaded, WasTrue
<1>3. Remembered' /\ Reloaded' /\ Judged' BY DEF IInv, Remembered, Reloaded, Judged
<1> QED BY <1>1, <1>2, <1>3 DEF IInv

LEMMA NextInv == IInv /\ [Next]_vars => IInv'
PROOF
<1> SUFFICES ASSUME IInv, [Next]_vars PROVE IInv' OBVIOUS
<1>1. ASSUME NEW c \in Calls, NEW k \in Keys, NEW g \in Grants, Verify(c, k, g) PROVE IInv'
  BY <1>1, VerifyStep
<1>2. ASSUME NEW c \in Calls, Advance(c) PROVE IInv'
  BY <1>2, LookStep, AnswersStep, FailsStep, StoreStep, CachedStep, DecodeStep, ReturnStep DEF Advance
<1>3. ASSUME NEW k \in Keys, Rotate(k) PROVE IInv'
  BY <1>3, RotateStep
<1>4. ASSUME NEW g \in Grants, RevokeGrant(g) PROVE IInv'
  BY <1>4, RestStep DEF RevokeGrant, IInv, TypeOK
<1>5. CASE Restart BY <1>5, RestartStep
<1>6. CASE Tick BY <1>6, TickStep
<1>7. CASE UNCHANGED vars BY <1>7, RestStep DEF vars, IInv, TypeOK
<1> QED BY <1>1, <1>2, <1>3, <1>4, <1>5, <1>6, <1>7 DEF Next

-----------------------------------------------------------------------------
(* The variables of the verifier keep their types.                         *)
THEOREM TypeCorrect == Spec => []TypeOK
PROOF
<1>1. IInv => TypeOK BY DEF IInv
<1> QED BY InitInv, NextInv, <1>1, PTL DEF Spec

(* However reloads interleave, the tokens of a key that has been out of    *)
(* use for MaxKeyAge and the flight of one answer are accepted only by a   *)
(* call that could not reach auth-service.                                 *)
THEOREM RetiredKeys == Spec => []RetiredKeysStop
PROOF
<1>1. IInv => RetiredKeysStop BY DEF IInv, Judged, RetiredKeysStop
<1> QED BY InitInv, NextInv, <1>1, PTL DEF Spec

(* The cooldown and slow reloads cost no token of the current key its      *)
(* acceptance once the key has been current for the cooldown and the       *)
(* flight of one answer.                                                   *)
THEOREM CurrentKeys == Spec => []CurrentKeyIsFound
PROOF
<1>1. IInv => CurrentKeyIsFound BY DEF IInv, Judged, CurrentKeyIsFound
<1> QED BY InitInv, NextInv, <1>1, PTL DEF Spec

-----------------------------------------------------------------------------
(* Why a held key serves: a reload of a call that holds a key begins when  *)
(* the cache is MaxKeyAge old; if auth-service still signs with that key,  *)
(* it does so for at least as long, longer than any answer is under way,   *)
(* and every answer stored from now on names it.                           *)
Aged == cache.age # None => \A k \in cache.keys : signing[k] = "now" => since[k] >= cache.age

Holds(r) ==
  /\ r.pc \in {"fetch", "store", "again"} /\ r.had =>
       /\ r.kid \in Keys /\ signing[r.kid] # "not_yet"
       /\ signing[r.kid] = "now" => since[r.kid] >= MaxKeyAge
  /\ r.pc = "again" /\ r.had /\ signing[r.kid] = "now" => r.kid \in cache.keys
  /\ r.pc \in {"unknown", "unavailable"} /\ r.had => r.kid \in Keys /\ signing[r.kid] = "no_longer"

Held == Aged /\ \A c \in Calls : Holds(call[c])

(* A step of one call that leaves the cache alone.                         *)
LEMMA HeldQuiet ==
  ASSUME TypeOK, Held, NEW c \in Calls, NEW r, call' = [call EXCEPT ![c] = r],
         UNCHANGED <<signing, since, cache>>, Holds(r)
  PROVE  Held'
PROOF
<1>1. call'[c] = r /\ \A d \in Calls \ {c} : call'[d] = call[d] BY DEF TypeOK
<1>2. Aged' BY DEF Held, Aged
<1>3. \A d \in Calls : Holds(call'[d]) BY <1>1 DEF Held
<1>4. \A d \in Calls : Holds(call[d])' BY <1>3 DEF Holds
<1> QED BY <1>2, <1>4 DEF Held

LEMMA HeldLook == ASSUME IInv, Held, NEW c \in Calls, Look(c) PROVE Held'
PROOF
<1> DEFINE me == call[c]
           cached == me.kid \in cache.keys
           pc == CASE cached /\ (~Stale \/ ~MayReload) -> "decode"
                   [] cached /\ Stale /\ MayReload -> "fetch"
                   [] ~cached /\ MayReload -> "fetch"
                   [] OTHER -> "unknown"
           r == [me EXCEPT !.had = cached, !.pc = pc]
<1>1. TypeOK /\ me \in CallState /\ cache.keys \in SUBSET Keys BY CallType DEF IInv, TypeOK
<1>2. call' = [call EXCEPT ![c] = r] /\ UNCHANGED <<signing, since, cache>>
  BY <1>1 DEF Look, TypeOK
<1>3. r.pc = pc /\ r.had = cached /\ r.kid = me.kid BY <1>1, Zenon DEF CallState
<1>4. ASSUME pc = "fetch", cached
      PROVE  /\ me.kid \in Keys /\ signing[me.kid] # "not_yet"
             /\ signing[me.kid] = "now" => since[me.kid] >= MaxKeyAge
  <2>1. Stale BY <1>4, Zenon
  <2>2. cache.age # None BY <1>4 DEF IInv, NeverLoaded
  <2>3. cache.age >= MaxKeyAge BY <2>1, <2>2 DEF Stale
  <2>4. signing[me.kid] = "now" => since[me.kid] >= cache.age BY <1>4, <2>2 DEF Held, Aged
  <2>5. me.kid \in Keys /\ since[me.kid] \in Int /\ cache.age \in Int /\ MaxKeyAge \in Int
    BY <1>1, <1>4, <2>2, VerifierAssumption DEF TypeOK, Ages
  <2>6. signing[me.kid] # "not_yet" BY <1>4, <2>2 DEF IInv, Cache, WasTrue
  <2> QED BY <2>3, <2>4, <2>5, <2>6
<1>5. pc # "store" /\ pc # "again" /\ pc # "unavailable" OBVIOUS
<1>6. pc = "unknown" => ~cached BY Zenon
<1> HIDE DEF r, pc, cached
<1>7. Holds(r) BY <1>3, <1>4, <1>5, <1>6 DEF Holds
<1> QED BY <1>1, <1>2, <1>7, HeldQuiet

(* Every answer that is stored names a key that was current for longer     *)
(* than any answer is under way.                                           *)
LEMMA HeldStore ==
  ASSUME MaxFlight < MaxKeyAge, IInv, Held, NEW c \in Calls, StoreKeys(c) PROVE Held'
PROOF
<1> DEFINE me == call[c]
           r == [me EXCEPT !.pc = "again", !.answer = {}, !.flight = 0]
<1>1. TypeOK /\ me \in CallState /\ me.flight \in Nat /\ me.flight <= MaxFlight /\ me.pc = "store"
  BY CallType DEF IInv, StoreKeys
<1>2. call' = [call EXCEPT ![c] = r] /\ UNCHANGED <<signing, since>>
  BY <1>1 DEF StoreKeys, TypeOK
<1>3. cache'.keys = me.answer /\ cache'.age = 0 BY DEF StoreKeys
<1>4. r.pc = "again" /\ r.had = me.had /\ r.kid = me.kid BY <1>1, Zenon DEF CallState
<1>5. WasTrue(me.answer, me.flight) /\ me.answer \subseteq Keys
  BY <1>1, CallType DEF IInv, Answers
<1>6. \A k \in Keys : since[k] \in Nat BY <1>1, VerifierAssumption DEF TypeOK, Ages
<1>7. Aged' BY <1>2, <1>3, <1>5, <1>6, VerifierAssumption DEF Aged
<1>8. ASSUME NEW k \in Keys, signing[k] = "now", since[k] >= MaxKeyAge PROVE k \in me.answer
  <2>1. since[k] > me.flight BY <1>1, <1>6, <1>8, VerifierAssumption
  <2> QED BY <1>5, <1>8, <2>1 DEF WasTrue
<1>9. ASSUME NEW d \in Calls PROVE Holds(call[d])'
  <2>1. Holds(call[d]) BY DEF Held
  <2>2. CASE d = c
    <3>1. call'[d] = r BY <1>1, <1>2, <2>2 DEF TypeOK
    <3> HIDE DEF r
    <3> QED BY <1>1, <1>2, <1>3, <1>4, <1>8, <2>1, <2>2, <3>1 DEF Holds
  <2>3. CASE d # c
    <3>1. call'[d] = call[d] BY <1>1, <1>2, <2>3 DEF TypeOK
    <3> QED BY <1>2, <1>3, <1>8, <2>1, <3>1 DEF Holds
  <2> QED BY <2>2, <2>3
<1> QED BY <1>7, <1>9 DEF Held

LEMMA HeldAdvance ==
  ASSUME MaxFlight < MaxKeyAge, IInv, Held, NEW c \in Calls, Advance(c) PROVE Held'
PROOF
<1>1. TypeOK /\ call[c] \in CallState /\ Holds(call[c]) BY CallType DEF IInv, Held
<1>2. CASE Look(c) BY <1>2, HeldLook
<1>3. CASE AuthServiceAnswers(c)
  <2> DEFINE r == [call[c] EXCEPT !.pc = "store", !.answer = Published]
  <2>1. call' = [call EXCEPT ![c] = r] /\ UNCHANGED <<signing, since, cache>>
    BY <1>1, <1>3 DEF AuthServiceAnswers, TypeOK
  <2>2. r.pc = "store" /\ r.had = call[c].had /\ r.kid = call[c].kid BY <1>1, Zenon DEF CallState
  <2>3. call[c].pc = "fetch" BY <1>3 DEF AuthServiceAnswers
  <2> HIDE DEF r
  <2> QED BY <1>1, <2>1, <2>2, <2>3, HeldQuiet DEF Holds
<1>4. CASE ReloadFails(c)
  <2> DEFINE pc == IF call[c].had THEN "decode" ELSE "unavailable"
             r == [call[c] EXCEPT !.pc = pc, !.failed = TRUE, !.answer = {}, !.flight = 0]
  <2>1. call' = [call EXCEPT ![c] = r] /\ UNCHANGED <<signing, since, cache>>
    BY <1>1, <1>4 DEF ReloadFails, Failed, TypeOK
  <2>2. r.pc = pc /\ r.had = call[c].had BY <1>1, Zenon DEF CallState
  <2>3. Holds(r)
    <3> HIDE DEF r
    <3> QED BY <2>2 DEF Holds
  <2> QED BY <1>1, <2>1, <2>3, HeldQuiet
<1>5. CASE StoreKeys(c) BY <1>5, HeldStore
<1>6. CASE CachedKey(c)
  <2> DEFINE pc == IF call[c].kid \in cache.keys THEN "decode" ELSE "unknown"
             r == [call[c] EXCEPT !.pc = pc]
  <2>1. call' = [call EXCEPT ![c] = r] /\ UNCHANGED <<signing, since, cache>>
    BY <1>1, <1>6 DEF CachedKey, TypeOK
  <2>2. r.pc = pc /\ r.had = call[c].had /\ r.kid = call[c].kid BY <1>1, Zenon DEF CallState
  <2>3. call[c].pc = "again" BY <1>6 DEF CachedKey
  <2>4. Holds(r)
    <3>1. call[c].had /\ call[c].kid \notin cache.keys =>
            call[c].kid \in Keys /\ signing[call[c].kid] = "no_longer"
      BY <1>1, <2>3 DEF Holds, TypeOK
    <3>2. pc \in {"decode", "unknown"} /\ (pc = "unknown" => call[c].kid \notin cache.keys) OBVIOUS
    <3> HIDE DEF r, pc
    <3> QED BY <2>2, <3>1, <3>2 DEF Holds
  <2> QED BY <1>1, <2>1, <2>4, HeldQuiet
<1>7. CASE Decode(c)
  <2>1. PICK pc \in {"invalid", "revoked", "ok"} :
          call' = [call EXCEPT ![c] = [call[c] EXCEPT !.pc = pc]] /\ UNCHANGED <<signing, since, cache>>
    BY <1>1, <1>7 DEF Decode, TypeOK
  <2> DEFINE r == [call[c] EXCEPT !.pc = pc]
  <2>2. r.pc = pc BY <1>1, Zenon DEF CallState
  <2>3. Holds(r)
    <3> HIDE DEF r
    <3> QED BY <2>2 DEF Holds
  <2> QED BY <1>1, <2>1, <2>3, HeldQuiet
<1>8. CASE Return(c)
  <2>1. call' = [call EXCEPT ![c] = NoCall] /\ UNCHANGED <<signing, since, cache>>
    BY <1>8 DEF Return
  <2> QED BY <1>1, <2>1, HeldQuiet DEF Holds, NoCall
<1> QED BY <1>2, <1>3, <1>4, <1>5, <1>6, <1>7, <1>8 DEF Advance

LEMMA HeldRotate == ASSUME IInv, Held, NEW k \in Keys, Rotate(k) PROVE Held'
PROOF
<1>1. UNCHANGED <<cache, call>> /\ signing[k] = "not_yet" BY DEF Rotate
<1>2. \A x \in Keys :
        \/ x = k /\ signing[x] = "not_yet" /\ signing'[x] = "now"
        \/ signing[x] = "now" /\ signing'[x] = "no_longer"
        \/ signing[x] # "now" /\ x # k /\ signing'[x] = signing[x] /\ since'[x] = since[x]
  BY DEF Rotate, IInv, TypeOK
<1>3. cache.age # None => cache.keys \subseteq Keys /\ \A x \in cache.keys : signing[x] # "not_yet"
  BY DEF IInv, TypeOK, Cache, WasTrue
<1>4. Aged' BY <1>1, <1>2, <1>3 DEF Held, Aged
<1>5. ASSUME NEW d \in Calls PROVE Holds(call[d])'
  <2>1. Holds(call[d]) /\ call[d].kid \in Keys \cup {None} BY CallType DEF Held, IInv
  <2>2. CASE call[d].kid \in Keys BY <1>1, <1>2, <2>1, <2>2 DEF Holds
  <2>3. CASE call[d].kid \notin Keys BY <1>1, <2>1, <2>3 DEF Holds
  <2> QED BY <2>2, <2>3
<1> QED BY <1>4, <1>5 DEF Held

LEMMA HeldTick == ASSUME IInv, Held, Tick PROVE Held'
PROOF
<1>1. /\ UNCHANGED signing /\ TypeOK
      /\ since' = [k \in Keys |-> Older(since[k])]
      /\ cache' = [cache EXCEPT !.age = IF @ = None THEN None ELSE Older(@)]
      /\ call' = [c \in Calls |-> IF call[c].pc = "store" THEN [call[c] EXCEPT !.flight = @ + 1] ELSE call[c]]
  BY DEF Tick, IInv
<1>2. \A a, b \in Ages : /\ Older(a) \in Nat /\ a \in Nat /\ a <= Older(a)
                         /\ a >= b => Older(a) >= Older(b)
  BY VerifierAssumption DEF Older, Ages
<1>3. \A k \in Keys : since[k] \in Ages /\ since'[k] = Older(since[k])
  BY <1>1 DEF TypeOK
<1>4. cache'.keys = cache.keys /\ cache'.age = IF cache.age = None THEN None ELSE Older(cache.age)
  BY <1>1 DEF TypeOK
<1>5. cache.keys \subseteq Keys /\ cache.age \in Ages \cup {None} BY <1>1 DEF TypeOK
<1>6. Aged' BY <1>1, <1>2, <1>3, <1>4, <1>5 DEF Held, Aged
<1>7. ASSUME NEW d \in Calls PROVE Holds(call[d])'
  <2>1. Holds(call[d]) /\ call[d] \in CallState BY <1>1, CallType DEF Held
  <2>2. call'[d].pc = call[d].pc /\ call'[d].had = call[d].had /\ call'[d].kid = call[d].kid
    <3>1. CASE call[d].pc # "store" BY <1>1, <3>1, Zenon
    <3>2. CASE call[d].pc = "store"
      <4>1. call'[d] = [call[d] EXCEPT !.flight = call[d].flight + 1] BY <1>1, <3>2
      <4> QED BY <2>1, <4>1, Zenon DEF CallState
    <3> QED BY <3>1, <3>2
  <2>3. ASSUME NEW k \in Keys, since[k] >= MaxKeyAge PROVE since'[k] >= MaxKeyAge
    <3>1. since[k] \in Nat /\ since'[k] \in Nat /\ since[k] <= since'[k] BY <1>2, <1>3
    <3> QED BY <2>3, <3>1, VerifierAssumption
  <2> QED BY <1>1, <1>4, <2>1, <2>2, <2>3 DEF Holds
<1> QED BY <1>6, <1>7 DEF Held

LEMMA HeldNext == MaxFlight < MaxKeyAge /\ IInv /\ Held /\ [Next]_vars => Held'
PROOF
<1> SUFFICES ASSUME MaxFlight < MaxKeyAge, IInv, Held, [Next]_vars PROVE Held' OBVIOUS
<1>1. ASSUME NEW c \in Calls, NEW k \in Keys, NEW g \in Grants, Verify(c, k, g) PROVE Held'
  <2> DEFINE r == [NoCall EXCEPT !.pc = "look", !.kid = k, !.gid = g,
                      !.known = signing[k] = "now" /\ since[k] > Cooldown + MaxFlight,
                      !.dead = signing[k] = "no_longer" /\ since[k] > MaxKeyAge + MaxFlight]
  <2>1. r.pc = "look" BY DEF NoCall
  <2>2. call' = [call EXCEPT ![c] = r] /\ UNCHANGED <<signing, since, cache>> BY <1>1 DEF Verify
  <2> HIDE DEF r
  <2>3. Holds(r) BY <2>1 DEF Holds
  <2> QED BY <2>2, <2>3, HeldQuiet DEF IInv
<1>2. ASSUME NEW c \in Calls, Advance(c) PROVE Held' BY <1>2, HeldAdvance
<1>3. ASSUME NEW k \in Keys, Rotate(k) PROVE Held' BY <1>3, HeldRotate
<1>4. ASSUME NEW g \in Grants, RevokeGrant(g) PROVE Held' BY <1>4 DEF RevokeGrant, Held, Aged, Holds
<1>5. CASE Restart
  <2>1. cache'.age = None /\ \A c \in Calls : call'[c].pc = "idle" BY <1>5 DEF Restart, NoKeys, NoCall
  <2> QED BY <2>1 DEF Held, Aged, Holds
<1>6. CASE Tick BY <1>6, HeldTick
<1>7. CASE UNCHANGED vars BY <1>7 DEF vars, Held, Aged, Holds
<1> QED BY <1>1, <1>2, <1>3, <1>4, <1>5, <1>6, <1>7 DEF Next

(* As long as every answer arrives before the keys it replaces have aged   *)
(* out, no token is refused for a key the cache held, however reloads      *)
(* fail, overtake each other and interleave with rotations and restarts.   *)
THEOREM HeldKeys == MaxFlight < MaxKeyAge => (Spec => []HeldKeyServes)
PROOF
<1> SUFFICES ASSUME MaxFlight < MaxKeyAge PROVE Spec => []HeldKeyServes OBVIOUS
<1>1. Init => IInv /\ Held
  BY InitInv DEF Init, NoKeys, NoCall, Held, Aged, Holds
<1>2. IInv /\ Held /\ [Next]_vars => (IInv /\ Held)'
  BY NextInv, HeldNext
<1>3. IInv /\ Held => HeldKeyServes BY DEF Held, Holds, HeldKeyServes
<1> QED BY <1>1, <1>2, <1>3, PTL DEF Spec

===============================================================================
