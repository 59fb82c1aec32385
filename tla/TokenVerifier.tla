----------------------------- MODULE TokenVerifier -----------------------------
(***************************************************************************)
(* The access-token verifier of the resource servers (svc-auth,            *)
(* verifier.rs): a key cache and a list of revoked grants shared by        *)
(* concurrent calls of verify, which reload the keys over HTTP from        *)
(* auth-service when they are old or do not hold the key of a token.       *)
(*                                                                         *)
(* The clock is kept as ages that stop counting where no guard or property *)
(* tells them apart any more, so time passes without a bound.              *)
(***************************************************************************)
EXTENDS Integers

CONSTANTS
  Calls,      \* calls of verify that run together
  Keys,       \* signing keys auth-service has or will have
  Grants,
  None,
  Cooldown,   \* RELOAD_COOLDOWN
  MaxKeyAge,  \* MAX_KEY_AGE
  MaxFlight   \* bound on the time from auth-service's answer to its use

ASSUME VerifierAssumption ==
  /\ None \notin Keys \cup Grants \cup Int
  /\ Cooldown \in Nat /\ MaxKeyAge \in Nat /\ MaxFlight \in Nat
  /\ Cooldown <= MaxKeyAge

VARIABLES
  signing,  \* signing[k]: auth-service signs with k not yet, now, or no longer
  since,    \* since[k]: for how long
  cache,    \* the verifier's KeyCache; age is the time since loaded_at
  revoked,  \* revoked_grants
  call      \* call[c]: the handler of call c

vars == <<signing, since, cache, revoked, call>>

Ages == 0..(MaxKeyAge + MaxFlight + 1)
Older(a) == IF a + 1 \in Ages THEN a + 1 ELSE a

Outcomes == {"ok", "unknown", "unavailable", "revoked", "invalid"}
CallState == [pc     : {"idle", "look", "fetch", "store", "again", "decode"} \cup Outcomes,
              kid    : Keys \cup {None},
              gid    : Grants \cup {None},
              had    : BOOLEAN,      \* it holds the cached key
              failed : BOOLEAN,      \* auth-service could not be reached
              answer : SUBSET Keys,  \* the key set it was sent
              flight : 0..MaxFlight, \* the time since
              known  : BOOLEAN,      \* history: when it began, its key had been current
              dead   : BOOLEAN]      \* or out of use for long
NoCall == [pc |-> "idle", kid |-> None, gid |-> None, had |-> FALSE, failed |-> FALSE,
           answer |-> {}, flight |-> 0, known |-> FALSE, dead |-> FALSE]
NoKeys == [keys |-> {}, age |-> None]

TypeOK ==
  /\ signing \in [Keys -> {"not_yet", "now", "no_longer"}]
  /\ since \in [Keys -> Ages]
  /\ cache \in [keys : SUBSET Keys, age : Ages \cup {None}]
  /\ revoked \subseteq Grants
  /\ call \in [Calls -> CallState]

Init ==
  /\ \E k \in Keys : signing = [x \in Keys |-> IF x = k THEN "now" ELSE "not_yet"]
  /\ since = [k \in Keys |-> 0]
  /\ cache = NoKeys
  /\ revoked = {}
  /\ call = [c \in Calls |-> NoCall]

-----------------------------------------------------------------------------
(* auth-service publishes the one key it signs with; it gets another with  *)
(* its configuration.                                                      *)
Published == {k \in Keys : signing[k] = "now"}

Rotate(k) ==
  /\ signing[k] = "not_yet"
  /\ signing' = [x \in Keys |-> IF x = k THEN "now" ELSE IF signing[x] = "now" THEN "no_longer" ELSE signing[x]]
  /\ since' = [x \in Keys |-> IF x = k \/ signing[x] = "now" THEN 0 ELSE since[x]]
  /\ UNCHANGED <<cache, revoked, call>>

(* verify: a token that names a key; made-up key ids are those of keys     *)
(* that are not yet in use.                                                *)
Verify(c, k, g) ==
  /\ call[c].pc = "idle"
  /\ call' = [call EXCEPT ![c] =
       [NoCall EXCEPT !.pc = "look", !.kid = k, !.gid = g,
                      !.known = signing[k] = "now" /\ since[k] > Cooldown + MaxFlight,
                      !.dead = signing[k] = "no_longer" /\ since[k] > MaxKeyAge + MaxFlight]]
  /\ UNCHANGED <<signing, since, cache, revoked>>

(* key: what the cache holds decides whether to reload.                    *)
(* Mutated forms: keys never age; keys are loaded only once.               *)
NeverStale == cache.age = None
LoadOnce == cache.age = None

Stale == cache.age = None \/ cache.age >= MaxKeyAge
MayReload == cache.age = None \/ cache.age >= Cooldown

Look(c) ==
  LET cached == call[c].kid \in cache.keys IN
  /\ call[c].pc = "look"
  /\ call' = [call EXCEPT ![c].had = cached, ![c].pc =
       CASE cached /\ (~Stale \/ ~MayReload) -> "decode"
         [] cached /\ Stale /\ MayReload -> "fetch"
         [] ~cached /\ MayReload -> "fetch"
         [] OTHER -> "unknown"]
  /\ UNCHANGED <<signing, since, cache, revoked>>

(* reload: auth-service answers with its key set, or a request fails;      *)
(* then a key that was cached still serves.                                *)
AuthServiceAnswers(c) ==
  /\ call[c].pc = "fetch"
  /\ call' = [call EXCEPT ![c].pc = "store", ![c].answer = Published]
  /\ UNCHANGED <<signing, since, cache, revoked>>

Failed(c) ==
  call' = [call EXCEPT ![c].pc = IF call[c].had THEN "decode" ELSE "unavailable",
                       ![c].failed = TRUE, ![c].answer = {}, ![c].flight = 0]

(* Mutated form: the old keys are dropped before the new ones are there.   *)
ReloadEmpties(c) ==
  /\ call[c].pc \in {"fetch", "store"}
  /\ Failed(c)
  /\ cache' = [cache EXCEPT !.keys = {}]
  /\ UNCHANGED <<signing, since, revoked>>

ReloadFails(c) ==
  /\ call[c].pc \in {"fetch", "store"}
  /\ Failed(c)
  /\ UNCHANGED <<signing, since, cache, revoked>>

StoreKeys(c) ==
  /\ call[c].pc = "store"
  /\ cache' = [keys |-> call[c].answer, age |-> 0]
  /\ call' = [call EXCEPT ![c].pc = "again", ![c].answer = {}, ![c].flight = 0]
  /\ UNCHANGED <<signing, since, revoked>>

(* cached_key, after the reload.                                           *)
CachedKey(c) ==
  /\ call[c].pc = "again"
  /\ call' = [call EXCEPT ![c].pc = IF call[c].kid \in cache.keys THEN "decode" ELSE "unknown"]
  /\ UNCHANGED <<signing, since, cache, revoked>>

Revoked(c) == call[c].gid \in revoked

(* decode: signature, issuer, audience and expiry hold or not; then the    *)
(* list of revoked grants is read.                                         *)
Decode(c) ==
  /\ call[c].pc = "decode"
  /\ \E valid \in BOOLEAN :
       call' = [call EXCEPT ![c].pc = IF ~valid THEN "invalid" ELSE IF Revoked(c) THEN "revoked" ELSE "ok"]
  /\ UNCHANGED <<signing, since, cache, revoked>>

Return(c) ==
  /\ call[c].pc \in Outcomes
  /\ call' = [call EXCEPT ![c] = NoCall]
  /\ UNCHANGED <<signing, since, cache, revoked>>

(* revoke_grant.                                                           *)
RevokeGrant(g) == revoked' = revoked \cup {g} /\ UNCHANGED <<signing, since, cache, call>>

(* The resource server restarts: cache and list are only in memory.        *)
Restart ==
  /\ cache' = NoKeys /\ revoked' = {} /\ call' = [c \in Calls |-> NoCall]
  /\ UNCHANGED <<signing, since>>

Tick ==
  /\ \A c \in Calls : call[c].pc = "store" => call[c].flight < MaxFlight
  /\ since' = [k \in Keys |-> Older(since[k])]
  /\ cache' = [cache EXCEPT !.age = IF @ = None THEN None ELSE Older(@)]
  /\ call' = [c \in Calls |-> IF call[c].pc = "store" THEN [call[c] EXCEPT !.flight = @ + 1] ELSE call[c]]
  /\ UNCHANGED <<signing, revoked>>

Advance(c) ==
  Look(c) \/ AuthServiceAnswers(c) \/ ReloadFails(c) \/ StoreKeys(c) \/ CachedKey(c) \/ Decode(c) \/ Return(c)

Next ==
  \/ \E c \in Calls, k \in Keys, g \in Grants : Verify(c, k, g)
  \/ \E c \in Calls : Advance(c)
  \/ \E k \in Keys : Rotate(k)
  \/ \E g \in Grants : RevokeGrant(g)
  \/ Restart \/ Tick

Spec == Init /\ [][Next]_vars
-----------------------------------------------------------------------------
(* Rotated-out keys stop verifying (verifier.rs:19): once a key has been   *)
(* out of use for MaxKeyAge and the flight of one answer, its tokens are   *)
(* accepted only while auth-service cannot be reached, however reloads of  *)
(* other calls interleave.                                                 *)
RetiredKeysStop == \A c \in Calls : call[c].pc = "ok" /\ call[c].dead => call[c].failed

(* A token of the current key is not rejected for its key once that key    *)
(* was current for the cooldown and the flight of one answer, even when a  *)
(* slow reload has put older keys over newer ones.                         *)
CurrentKeyIsFound ==
  \A c \in Calls : call[c].pc = "unknown" /\ call[c].known => signing[call[c].kid] = "no_longer"

(* "Keep verifying with the cached key while auth-service is unreachable"  *)
(* (verifier.rs:163): a token whose key the cache held when its call began *)
(* is never refused for that key, by a failing reload or by a slow one of  *)
(* another call that replaces the keys in between, unless auth-service     *)
(* signs with another key now.  It takes answers that arrive before the    *)
(* keys age out, MaxFlight < MaxKeyAge.                                    *)
HeldKeyServes ==
  \A c \in Calls :
    call[c].pc \in {"unknown", "unavailable"} /\ call[c].had => signing[call[c].kid] = "no_longer"

(* "Rejects every token of `grant_id` from now on" (verifier.rs:123): the  *)
(* list of revoked grants is never forgotten.                              *)
RevocationsAreKept == [][revoked \subseteq revoked']_vars

(* "Minimum time between key reloads, so tokens with made-up key ids can't *)
(* hammer auth-service" (verifier.rs:16): no reload starts while another   *)
(* one is under way.                                                       *)
ReloadsAreSpaced ==
  [][\A c \in Calls : call[c].pc = "look" /\ call'[c].pc = "fetch" =>
       \A d \in Calls : call[d].pc \notin {"fetch", "store"}]_vars

===============================================================================
