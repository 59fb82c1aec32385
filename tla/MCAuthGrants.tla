---------------------------- MODULE MCAuthGrants ----------------------------
(* Instances of AuthGrants for TLC. *)
EXTENDS AuthGrants, TLC

CONSTANTS alexa, web, r1, r2, g1

MCClients == {alexa, web}
MCConfidential == {alexa}

PublicOnly == {web}
NoClient == {}

(* Requests are interchangeable. *)
RequestSymmetry == Permutations(Requests)

(***************************************************************************)
(* A reachable state to start from: web opened g1, r1 redeemed its code    *)
(* and r2 rotated the token of r1, both at time 0, and the reuse window    *)
(* has passed since.  The code of g1 can now be replayed, the token of r1  *)
(* reused, the token of r2 refreshed and either of them revoked.           *)
(***************************************************************************)
Answered(op, cred, effect) ==
  [NoTx EXCEPT !.pc = "done", !.op = op, !.cred = cred, !.grant = g1, !.effect = effect]

Inserted(rotated) ==
  [NoToken EXCEPT !.exists = TRUE, !.grant = g1, !.expires = PublicTTL, !.rotated = rotated]

RotatedInit ==
  /\ now = ReuseWindow + 1
  /\ grant = [g \in Grants |-> [state |-> "active", client |-> web]]
  /\ code = [g \in Grants |-> [expires |-> CodeTTL, consumed |-> TRUE]]
  /\ token = [t \in Requests |-> CASE t = r1 -> Inserted(0)
                                   [] t = r2 -> Inserted(None)
                                   [] OTHER  -> NoToken]
  /\ outbox = [g \in Grants |-> 0]
  /\ owner = [r \in Rows |-> None]
  /\ tx = [x \in Requests |-> CASE x = r1 -> Answered("exchange", g1, "redeem")
                                [] x = r2 -> Answered("refresh", r1, "rotate")
                                [] OTHER  -> NoTx]
  /\ heir = [t \in Requests |-> IF t = r1 THEN r2 ELSE None]

RotatedFairSpec == RotatedInit /\ [][Next]_vars /\ Fairness
=============================================================================
