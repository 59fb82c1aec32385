---------------------------- MODULE MCAccessTokens ----------------------------
EXTENDS AccessTokens, TLC
CONSTANTS u1, k1
MCHandle == k1 :> u1
Asked(client, resource, step_up, max_age) ==
  [client |-> client, redirect_ok |-> TRUE, code_pkce |-> TRUE, resource |-> resource, scope |-> {},
   step_up |-> step_up, max_age |-> max_age]
(* The app at the customer API with a step-up, the merchant portal with    *)
(* all scopes, Alexa at the customer API, and a scope that is not its API's. *)
MCQueries ==
  LET app == Asked("ui-web", "user", TRUE, 0) IN
  {app, Asked("ui-web", "merchant", FALSE, None), Asked("alexa", "user", FALSE, None),
   [app EXCEPT !.scope = {"delivery"}]}
(* A request that was decided takes no further part, and consent that was  *)
(* not asked for makes no difference: what could follow such a state also  *)
(* follows the one without the request or the consent.                     *)
Undecided == \A a \in Accesses : access[a].pc \in {"idle", "verified"}
ConsentAsked ==
  \A f \in FlowCalls : flow[f].params # None /\ flow[f].consent => flow[f].params.client \notin FirstParty
MCSymmetry == Permutations(Calls \ Earlier) \cup Permutations(FlowCalls)
===============================================================================
