---------------------------- MODULE MCSignInScreens ----------------------------
EXTENDS SignInScreens, TLC
CONSTANTS u1, k1
MCHandle == k1 :> u1
MCQueries ==
  [client : Clients, redirect_ok : {TRUE}, code_pkce : {TRUE}, resource : {"user", "merchant"}, scope : {{}},
   step_up : BOOLEAN, max_age : {None}]
===============================================================================
