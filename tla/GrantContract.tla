---------------------------- MODULE GrantContract ----------------------------
(***************************************************************************)
(* What the token endpoint of auth-service promises about one grant,       *)
(* with every step atomic and no rows, locks or transactions:              *)
(*   - a grant is opened once, by an approved authorization request;       *)
(*   - its authorization code is redeemed at most once;                    *)
(*   - a token becomes usable only by redeeming the code or by refreshing  *)
(*     with a token of the same grant that is usable at that moment;       *)
(*   - revocation is final, takes every usable token at once and emits     *)
(*     exactly one auth.events.grant_revoked event.                        *)
(* Expiry is left out: an expired token only stops being accepted.         *)
(* AuthGrants implements this module.                                      *)
(***************************************************************************)
EXTENDS Naturals

CONSTANTS
  Grants,   \* rows of table grants
  Tokens    \* refresh tokens

VARIABLES
  status,    \* status[g]: has g been opened, has it been revoked
  redeemed,  \* grants whose authorization code was redeemed
  usable,    \* usable[g]: refresh tokens of g that a refresh would accept
  events     \* events[g]: grant_revoked events queued for g

vars == <<status, redeemed, usable, events>>

Init ==
  /\ status = [g \in Grants |-> "absent"]
  /\ redeemed = {}
  /\ usable = [g \in Grants |-> {}]
  /\ events = [g \in Grants |-> 0]

Open(g) ==
  /\ status[g] = "absent"
  /\ status' = [status EXCEPT ![g] = "active"]
  /\ UNCHANGED <<redeemed, usable, events>>

(* Redeeming may lose a race against a revocation that starts later: the   *)
(* code is spent, and no token of the grant becomes usable.                *)
Redeem(g, t) ==
  /\ status[g] # "absent"
  /\ g \notin redeemed
  /\ redeemed' = redeemed \cup {g}
  /\ usable' = IF status[g] = "active"
                 THEN [usable EXCEPT ![g] = @ \cup {t}]
                 ELSE usable
  /\ UNCHANGED <<status, events>>

Rotate(g, t, u) ==
  /\ t \in usable[g]
  /\ usable' = [usable EXCEPT ![g] = @ \cup {u}]
  /\ UNCHANGED <<status, redeemed, events>>

Revoke(g) ==
  /\ status[g] = "active"
  /\ status' = [status EXCEPT ![g] = "revoked"]
  /\ usable' = [usable EXCEPT ![g] = {}]
  /\ events' = [events EXCEPT ![g] = @ + 1]
  /\ UNCHANGED redeemed

Next ==
  \E g \in Grants :
    \/ Open(g)
    \/ Revoke(g)
    \/ \E t \in Tokens : Redeem(g, t) \/ \E u \in Tokens : Rotate(g, t, u)

Spec == Init /\ [][Next]_vars
=============================================================================
