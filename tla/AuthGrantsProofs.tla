--------------------------- MODULE AuthGrantsProofs ---------------------------
(***************************************************************************)
(* Proofs about AuthGrants, for any numbers of requests, grants and        *)
(* clients and any time limits.  The inductive invariant IInv says what a  *)
(* transaction knows while it holds its row locks; the safety properties   *)
(* and the implementation of GrantContract follow from it.                 *)
(***************************************************************************)
EXTENDS AuthGrants, TLAPS

Holding == {"load", "grant", "tokens", "token", "commit"}
Started == {"row", "done"} \cup Holding

(* What the handler's position says about its transaction. *)
Shape(x) ==
  /\ tx[x].pc \in {"idle", "failed"} =>
       tx[x].effect = "none" /\ tx[x].op = None /\ ~tx[x].late
  /\ tx[x].pc \in Started =>
       /\ tx[x].op \in Ops
       /\ tx[x].grant \in Grants
       /\ grant[tx[x].grant].state # "absent"
       /\ tx[x].op = "exchange" => tx[x].cred = tx[x].grant
       /\ tx[x].op # "exchange" =>
            /\ tx[x].cred \in Requests
            /\ token[tx[x].cred].exists
            /\ token[tx[x].cred].grant = tx[x].grant
  /\ tx[x].pc \in {"row", "load", "grant"} => tx[x].effect = "none"
  /\ tx[x].pc \in {"row", "load"} => tx[x].op # "revoke"
  /\ tx[x].pc \in {"tokens", "token"} => tx[x].effect = "revoke"
  /\ tx[x].effect = "redeem" => tx[x].op = "exchange"
  /\ tx[x].effect \in {"rotate", "slide"} => tx[x].op = "refresh"
  /\ tx[x].pc = "row" =>
       tx[x].want = IF tx[x].op = "exchange" THEN CodeRow(tx[x].grant)
                                             ELSE TokenRow(tx[x].cred)
  /\ tx[x].pc = "grant" => tx[x].want = GrantRow(tx[x].grant)
  /\ tx[x].pc = "token" => \E t \in Requests : tx[x].want = TokenRow(t)

(* Which row locks it holds. *)
Locks(x) ==
  /\ tx[x].pc \in Holding /\ tx[x].op = "exchange" => owner[CodeRow(tx[x].grant)] = x
  /\ tx[x].pc \in Holding /\ tx[x].op = "refresh" => owner[TokenRow(tx[x].cred)] = x
  /\ tx[x].pc \in Holding /\ tx[x].effect = "revoke" =>
       owner[GrantRow(tx[x].grant)] = x

(* What is still true of the rows it has read, thanks to those locks. *)
Knows(x) ==
  /\ tx[x].pc \in Holding /\ tx[x].effect = "revoke" => ~Revoked(tx[x].grant)
  /\ tx[x].pc = "commit" /\ tx[x].effect = "redeem" => ~code[tx[x].grant].consumed
  /\ tx[x].pc = "commit" /\ tx[x].effect = "none" => Revoked(tx[x].grant)
  /\ tx[x].pc = "commit" /\ tx[x].effect = "rotate" =>
       ~ReusedLate(tx[x].cred, tx[x].began)
  /\ tx[x].op = "refresh" /\ (tx[x].pc = "grant" \/ tx[x].effect = "revoke") =>
       ReusedLate(tx[x].cred, tx[x].began)
  /\ tx[x].late => /\ Revoked(tx[x].grant)
                   /\ tx[x].effect \notin {"redeem", "rotate", "slide"}

(* What the committed rows say about the requests that are done. *)
Ledger(x) ==
  /\ Did(x, "redeem") => code[tx[x].grant].consumed
  /\ token[x].exists => /\ Did(x, "redeem") \/ Did(x, "rotate")
                        /\ token[x].grant \in Grants
                        /\ grant[token[x].grant].state # "absent"
  /\ token[x].grant \in Grants => token[x].exists
  /\ token[x].revoked => token[x].exists /\ Revoked(token[x].grant)
  /\ heir[x] = None => token[x].rotated = None
  /\ heir[x] # None => /\ token[x].exists
                       /\ tx[heir[x]].pc = "done"
                       /\ token[x].rotated = tx[heir[x]].began

IInv ==
  /\ TypeOK
  /\ \A x \in Requests : Shape(x)
  /\ \A x \in Requests : Locks(x)
  /\ \A x \in Requests : Knows(x)
  /\ \A x \in Requests : Ledger(x)
  /\ CodeRedeemedOnce
  /\ OneEventPerRevocation
  /\ ReuseJudgedByFirstRotation
  /\ RevocationAnswered

-----------------------------------------------------------------------------
(***************************************************************************)
(* Rows and transactions.                                                  *)
(***************************************************************************)

(* Locks of codes, grants and tokens are different rows. *)
LEMMA RowsAreRows ==
  /\ \A g \in Grants : CodeRow(g) \in Rows /\ GrantRow(g) \in Rows
  /\ \A t \in Requests : TokenRow(t) \in Rows
  /\ None \notin Requests
  /\ \A g, h \in Grants : CodeRow(g) # GrantRow(h)
  /\ \A g \in Grants, t \in Requests : CodeRow(g) # TokenRow(t) /\ GrantRow(g) # TokenRow(t)
  /\ \A t, u \in Requests : TokenRow(t) = TokenRow(u) => t = u
  /\ \A g, h \in Grants : CodeRow(g) = CodeRow(h) => g = h
  /\ \A g, h \in Grants : GrantRow(g) = GrantRow(h) => g = h
BY ConstantsAssumption DEF CodeRow, GrantRow, TokenRow, Rows

(* IInv holds before any request arrives. *)
LEMMA InitIInv == Init => IInv
<1> SUFFICES ASSUME Init PROVE IInv
  OBVIOUS
<1> USE ConstantsAssumption
<1>1. TypeOK
  BY DEF Init, TypeOK, GrantState, CodeState, TokenState, TxState, NoTx, NoToken,
         Stages, Effects
<1>2. \A x \in Requests : Shape(x) /\ Locks(x) /\ Knows(x) /\ Ledger(x)
  BY DEF Init, NoTx, NoToken, Shape, Locks, Knows, Ledger, Started, Holding, Did
<1>3. CodeRedeemedOnce /\ OneEventPerRevocation
  BY DEF Init, NoTx, CodeRedeemedOnce, OneEventPerRevocation, Did, Revoked
<1>4. ReuseJudgedByFirstRotation /\ RevocationAnswered
  BY DEF Init, NoTx, ReuseJudgedByFirstRotation, RevocationAnswered
<1> QED
  BY <1>1, <1>2, <1>3, <1>4 DEF IInv

(* No step of one request takes a lock away from another. *)
OthersKeepLocks(x) ==
  \A r \in Rows : owner[r] \notin {None, x} => owner'[r] = owner[r]

OnlyMoves(x) == \A y \in Requests \ {x} : tx'[y] = tx[y]

LEMMA LocksOfOthers ==
  ASSUME IInv, NEW x \in Requests, NEW y \in Requests \ {x},
         OthersKeepLocks(x), OnlyMoves(x)
  PROVE  Locks(y)'
<1>1. Locks(y) /\ Shape(y) /\ tx'[y] = tx[y]
  BY DEF IInv, OnlyMoves
<1>2. None \notin Requests
  BY RowsAreRows
<1>3. ASSUME tx[y].pc \in Holding
      PROVE  /\ tx[y].grant \in Grants
             /\ tx[y].op = "refresh" => tx[y].cred \in Requests
  BY <1>1, <1>3 DEF Shape, Started
<1> QED
  BY <1>1, <1>2, <1>3, RowsAreRows DEF Locks, OthersKeepLocks

(***************************************************************************)
(* A step that commits nothing only has to re-establish what concerns the  *)
(* request that takes it.                                                  *)
(***************************************************************************)
LEMMA QuietStep ==
  ASSUME IInv, TypeOK', NEW x \in Requests,
         UNCHANGED db, OnlyMoves(x), OthersKeepLocks(x),
         tx[x].pc # "done", tx'[x].pc # "done",
         Shape(x)', Locks(x)', Knows(x)'
  PROVE  IInv'
<1>1. ASSUME NEW y \in Requests PROVE Locks(y)'
  BY <1>1, LocksOfOthers
<1>2. ASSUME NEW y \in Requests PROVE Shape(y)' /\ Knows(y)'
  <2>1. CASE y = x
    BY <2>1
  <2>2. CASE y # x
    <3>1. tx'[y] = tx[y] /\ Shape(y) /\ Knows(y)
      BY <1>2, <2>2 DEF IInv, OnlyMoves
    <3> QED
      BY <3>1 DEF Shape, Knows, db, Revoked, ReusedLate
  <2> QED
    BY <2>1, <2>2
<1>3. ASSUME NEW y \in Requests PROVE tx'[y].pc = "done" => tx'[y] = tx[y]
  BY <1>3 DEF OnlyMoves
<1>4. ASSUME NEW y \in Requests PROVE tx[y].pc = "done" => tx'[y] = tx[y]
  BY <1>4 DEF OnlyMoves
<1>5. \A y \in Requests : heir[y] \in Requests \cup {None}
  BY DEF IInv, TypeOK
<1>6. ASSUME NEW y \in Requests PROVE Ledger(y)'
  <2>1. Ledger(y)
    BY <1>6 DEF IInv
  <2> QED
    BY <1>3, <1>4, <1>5, <1>6, <2>1 DEF Ledger, Did, db, Revoked
<1>7. CodeRedeemedOnce' /\ OneEventPerRevocation' /\ RevocationAnswered'
  BY <1>3 DEF IInv, CodeRedeemedOnce, OneEventPerRevocation, RevocationAnswered,
              Did, db, Revoked
<1>8. ReuseJudgedByFirstRotation'
  <2> SUFFICES ASSUME NEW y \in Requests, tx'[y].pc = "done", tx'[y].op = "refresh"
               PROVE  LET first == heir[tx[y].cred] IN
                      /\ tx[y].effect = "rotate" =>
                           first # None /\ tx'[y].began <= tx'[first].began + ReuseWindow
                      /\ tx[y].effect = "revoke" =>
                           first # None /\ tx'[y].began > tx'[first].began + ReuseWindow
    BY <1>3 DEF ReuseJudgedByFirstRotation, db
  <2>1. tx'[y] = tx[y]
    BY <1>3
  <2>2. tx[y].cred \in Requests
    BY <2>1 DEF IInv, Shape, Started
  <2>3. heir[tx[y].cred] # None => tx'[heir[tx[y].cred]] = tx[heir[tx[y].cred]]
    BY <1>4, <1>5, <2>2 DEF IInv, Ledger
  <2> QED
    BY <2>1, <2>2, <2>3 DEF IInv, ReuseJudgedByFirstRotation
<1> QED
  BY <1>1, <1>2, <1>6, <1>7, <1>8 DEF IInv

-----------------------------------------------------------------------------
(***************************************************************************)
(* The steps that commit nothing.                                          *)
(***************************************************************************)

(* Changing the transaction of x and locking a row keep the types. *)
LEMMA QuietTypes ==
  ASSUME TypeOK, NEW x \in Requests, UNCHANGED <<now, db>>,
         NEW r \in TxState, tx' = [tx EXCEPT ![x] = r],
         owner' \in [Rows -> Requests \cup {None}]
  PROVE  TypeOK' /\ tx'[x] = r /\ OnlyMoves(x)
BY DEF TypeOK, db, OnlyMoves

LEMMA ReleasedTypes ==
  ASSUME TypeOK, NEW x \in Requests, owner' = Released(x)
  PROVE  owner' \in [Rows -> Requests \cup {None}] /\ OthersKeepLocks(x)
BY DEF TypeOK, Released, OthersKeepLocks

LEMMA LockTypes ==
  ASSUME TypeOK, NEW x \in Requests, Lockable(x), Lock(x), tx[x].want \in Rows
  PROVE  /\ owner' \in [Rows -> Requests \cup {None}]
         /\ OthersKeepLocks(x)
         /\ owner'[tx[x].want] = x
         /\ \A r \in Rows : owner[r] = x => owner'[r] = x
BY DEF TypeOK, Lockable, Lock, OthersKeepLocks

LEMMA NoTxType == NoTx \in TxState
BY DEF NoTx, TxState, Stages, Effects

(* What a step of a started request never changes. *)
SameRequest(x) ==
  /\ tx'[x].op = tx[x].op
  /\ tx'[x].cred = tx[x].cred
  /\ tx'[x].began = tx[x].began
  /\ tx'[x].grant = tx[x].grant
  /\ tx'[x].late = tx[x].late

LEMMA StepRollback ==
  ASSUME IInv, NEW x \in Requests, tx[x].pc # "done", Rollback(x) \/ Cancel(x)
  PROVE  IInv'
<1> USE DEF Rollback, Cancel
<1>1. PICK r \in TxState :
        /\ tx' = [tx EXCEPT ![x] = r]
        /\ r.pc = "failed" /\ r.effect = "none" /\ r.op = None /\ ~r.late
  <2>1. CASE Rollback(x)
    <3> DEFINE r == [NoTx EXCEPT !.pc = "failed"]
    <3>1. r \in TxState /\ r.pc = "failed" /\ r.effect = "none" /\ r.op = None /\ ~r.late
      BY NoTxType DEF NoTx, TxState, Stages
    <3> QED
      BY <2>1, <3>1
  <2>2. CASE Cancel(x)
    <3> DEFINE g == IF Noticed(x, tx[x].grant) THEN tx[x].grant ELSE None
               r == [NoTx EXCEPT !.pc = "failed", !.grant = g]
    <3>1. g \in Grants \cup {None}
      BY DEF IInv, TypeOK, TxState
    <3> HIDE DEF g
    <3>2. r \in TxState /\ r.pc = "failed" /\ r.effect = "none" /\ r.op = None /\ ~r.late
      BY <3>1, NoTxType DEF NoTx, TxState, Stages
    <3>3. tx' = [tx EXCEPT ![x] = r]
      BY <2>2 DEF g
    <3> QED
      BY <3>2, <3>3
  <2> QED
    BY <2>1, <2>2
<1>2. owner' \in [Rows -> Requests \cup {None}] /\ OthersKeepLocks(x) /\ UNCHANGED <<now, db>>
  BY ReleasedTypes DEF IInv
<1>3. TypeOK' /\ tx'[x] = r /\ OnlyMoves(x)
  BY <1>1, <1>2, QuietTypes DEF IInv
<1>4. Shape(x)' /\ Locks(x)' /\ Knows(x)'
  BY <1>1, <1>3 DEF Shape, Locks, Knows, Started, Holding
<1> QED
  BY <1>1, <1>2, <1>3, <1>4, QuietStep

LEMMA StepBegin ==
  ASSUME IInv, NEW x \in Requests, Arrive(x)
  PROVE  IInv'
<1> USE ConstantsAssumption
<1>1. ASSUME NEW op \in Ops, NEW cred \in Grants \cup Requests, NEW cl \in Clients \cup {None},
             NEW g \in Grants, NEW stage \in {"row", "grant"}, NEW row \in Rows,
             Begin(x, op, cred, cl, g, stage, row),
             grant[g].state # "absent",
             op = "exchange" => cred = g,
             op # "exchange" => cred \in Requests /\ token[cred].exists /\ token[cred].grant = g,
             stage = "row" =>
               op # "revoke" /\ row = IF op = "exchange" THEN CodeRow(g) ELSE TokenRow(cred),
             stage = "grant" => op = "revoke" /\ row = GrantRow(g)
      PROVE  IInv'
  <2> DEFINE r == [NoTx EXCEPT !.pc = stage, !.op = op, !.cred = cred, !.client = cl,
                               !.began = now, !.grant = g, !.want = row, !.late = Revoked(g)]
  <2>1. r \in TxState
    <3>1. now \in Int /\ Revoked(g) \in BOOLEAN
      BY ConstantsAssumption DEF IInv, TypeOK, Revoked
    <3> QED
      BY <3>1, NoTxType DEF TxState, Stages
  <2>2. TypeOK' /\ tx'[x] = r /\ OnlyMoves(x)
    BY <1>1, <2>1, QuietTypes DEF IInv, Begin, TypeOK
  <2>3. OthersKeepLocks(x)
    BY <1>1 DEF Begin, OthersKeepLocks
  <2>4. /\ tx'[x].pc = stage /\ tx'[x].op = op /\ tx'[x].cred = cred
        /\ tx'[x].grant = g /\ tx'[x].want = row /\ tx'[x].late = Revoked(g)
        /\ tx'[x].effect = "none"
    BY <2>2 DEF NoTx
  <2>5. grant' = grant /\ token' = token
    BY <1>1 DEF Begin, db
  <2>6. Shape(x)'
    BY <1>1, <2>4, <2>5 DEF Shape, Started, Holding
  <2>7. Locks(x)' /\ Knows(x)'
    BY <1>1, <2>4, <2>5 DEF Locks, Knows, Holding, Revoked
  <2> QED
    BY <1>1, <2>2, <2>3, <2>4, <2>6, <2>7, QuietStep DEF Begin, NoTx
<1>2. ASSUME NEW g \in Grants, NEW cl \in Clients, BeginExchange(x, g, cl)
      PROVE  IInv'
  BY <1>1, <1>2, RowsAreRows DEF BeginExchange, Ops
<1>3. ASSUME NEW t \in Requests, token[t].exists
      PROVE  token[t].grant \in Grants /\ grant[token[t].grant].state # "absent"
  BY <1>3 DEF IInv, Ledger
<1>4. ASSUME NEW t \in Requests, NEW cl \in Clients, BeginRefresh(x, t, cl)
      PROVE  IInv'
  BY <1>1, <1>3, <1>4, RowsAreRows DEF BeginRefresh, Ops
<1>5. ASSUME NEW t \in Requests, BeginRevoke(x, t)
      PROVE  IInv'
  BY <1>1, <1>3, <1>5, RowsAreRows DEF BeginRevoke, Ops
<1> QED
  BY <1>2, <1>4, <1>5 DEF Arrive

LEMMA StepLockCredential ==
  ASSUME IInv, NEW x \in Requests, LockCredential(x)
  PROVE  IInv'
<1> DEFINE r == [tx[x] EXCEPT !.pc = "load", !.want = None]
<1>1. tx[x] \in TxState /\ tx[x].pc = "row" /\ Shape(x) /\ Knows(x)
  BY DEF IInv, TypeOK, LockCredential
<1>2. tx[x].want \in Rows
  BY <1>1, RowsAreRows DEF Shape, Started
<1>3. r \in TxState
  BY <1>1 DEF TxState, Stages
<1>4. /\ owner' \in [Rows -> Requests \cup {None}]
      /\ OthersKeepLocks(x)
      /\ owner'[tx[x].want] = x
  BY <1>2, LockTypes DEF IInv, LockCredential
<1>5. TypeOK' /\ tx'[x] = r /\ OnlyMoves(x)
  BY <1>3, <1>4, QuietTypes DEF IInv, LockCredential, TypeOK
<1>6. SameRequest(x) /\ tx'[x].pc = "load" /\ tx'[x].effect = tx[x].effect
  BY <1>1, <1>5 DEF TxState, SameRequest
<1>7. Shape(x)' /\ Locks(x)'
  BY <1>1, <1>4, <1>6 DEF Shape, Locks, Started, Holding, LockCredential, db, SameRequest
<1>8. Knows(x)'
  BY <1>1, <1>6 DEF Knows, Shape, LockCredential, db, SameRequest, Revoked, ReusedLate
<1> QED
  BY <1>1, <1>4, <1>5, <1>6, <1>7, <1>8, QuietStep DEF LockCredential

(* The three outcomes of a handler that has read its grant. *)
LEMMA StepDecide ==
  ASSUME IInv, NEW x \in Requests, NEW effect \in {"redeem", "rotate", "slide"},
         Decide(x, effect), tx[x].pc = "load", GrantAccepted(x),
         effect = "redeem" => tx[x].op = "exchange" /\ ~code[tx[x].grant].consumed,
         effect # "redeem" => tx[x].op = "refresh",
         effect = "rotate" => ~ReusedLate(tx[x].cred, tx[x].began)
  PROVE  IInv'
<1> DEFINE r == [tx[x] EXCEPT !.pc = "commit", !.effect = effect]
<1>1. tx[x] \in TxState /\ Shape(x) /\ Locks(x) /\ Knows(x)
  BY DEF IInv, TypeOK
<1>2. r \in TxState
  BY <1>1 DEF TxState, Stages, Effects
<1>3. TypeOK' /\ tx'[x] = r /\ OnlyMoves(x)
  BY <1>2, QuietTypes DEF IInv, Decide, TypeOK
<1>4. SameRequest(x) /\ tx'[x].pc = "commit" /\ tx'[x].effect = effect
  BY <1>1, <1>3 DEF TxState, SameRequest
<1>5. Shape(x)' /\ Locks(x)'
  BY <1>1, <1>4 DEF Shape, Locks, Started, Holding, Decide, db, SameRequest
<1>6. Knows(x)'
  BY <1>1, <1>4 DEF Knows, Shape, Started, Holding, Decide, db, SameRequest, Revoked,
     ReusedLate, GrantAccepted
<1> QED
  BY <1>3, <1>4, <1>5, <1>6, QuietStep DEF Decide, OthersKeepLocks

LEMMA StepStartRevocation ==
  ASSUME IInv, NEW x \in Requests, StartRevocation(x), tx[x].pc = "load",
         tx[x].op = "refresh" => ReusedLate(tx[x].cred, tx[x].began)
  PROVE  IInv'
<1> DEFINE r == [tx[x] EXCEPT !.pc = "grant", !.want = GrantRow(tx[x].grant)]
<1>1. tx[x] \in TxState /\ Shape(x) /\ Locks(x) /\ Knows(x)
  BY DEF IInv, TypeOK
<1>2. r \in TxState
  BY <1>1, RowsAreRows DEF TxState, Stages, Shape, Started, Holding
<1>3. TypeOK' /\ tx'[x] = r /\ OnlyMoves(x)
  BY <1>2, QuietTypes DEF IInv, StartRevocation, TypeOK
<1>4. /\ SameRequest(x) /\ tx'[x].pc = "grant" /\ tx'[x].effect = tx[x].effect
      /\ tx'[x].want = GrantRow(tx[x].grant)
  BY <1>1, <1>3 DEF TxState, SameRequest
<1>5. Shape(x)' /\ Locks(x)'
  BY <1>1, <1>4 DEF Shape, Locks, Started, Holding, StartRevocation, db, SameRequest
<1>6. Knows(x)'
  BY <1>1, <1>4 DEF Knows, Shape, Holding, StartRevocation, db, SameRequest, Revoked,
     ReusedLate
<1> QED
  BY <1>3, <1>4, <1>5, <1>6, QuietStep DEF StartRevocation, OthersKeepLocks

LEMMA StepLoad ==
  ASSUME IInv, NEW x \in Requests, LoadForExchange(x) \/ LoadForRefresh(x)
  PROVE  IInv'
<1>1. CASE LoadForExchange(x)
  BY <1>1, StepDecide, StepStartRevocation, StepRollback DEF LoadForExchange
<1>2. CASE LoadForRefresh(x)
  BY <1>2, StepDecide, StepStartRevocation, StepRollback DEF LoadForRefresh
<1> QED
  BY <1>1, <1>2

LEMMA StepRevokeGrantRow ==
  ASSUME IInv, NEW x \in Requests, RevokeGrantRow(x)
  PROVE  IInv'
<1> DEFINE pc == IF Revoked(tx[x].grant) THEN "commit" ELSE "tokens"
           effect == IF Revoked(tx[x].grant) THEN "none" ELSE "revoke"
           r == [tx[x] EXCEPT !.pc = pc, !.want = None, !.effect = effect]
<1>1. tx[x] \in TxState /\ tx[x].pc = "grant" /\ Shape(x) /\ Locks(x) /\ Knows(x)
  BY DEF IInv, TypeOK, RevokeGrantRow
<1>2. tx[x].want = GrantRow(tx[x].grant) /\ tx[x].want \in Rows
  BY <1>1, RowsAreRows DEF Shape, Started, Holding
<1>3. r \in TxState
  BY <1>1 DEF TxState, Stages, Effects
<1>4. /\ owner' \in [Rows -> Requests \cup {None}]
      /\ OthersKeepLocks(x)
      /\ ~Revoked(tx[x].grant) => owner'[tx[x].want] = x
      /\ \A row \in Rows : owner[row] = x => owner'[row] = x
  <2>1. CASE Revoked(tx[x].grant)
    BY <2>1 DEF IInv, TypeOK, RevokeGrantRow, OthersKeepLocks
  <2>2. CASE ~Revoked(tx[x].grant)
    BY <1>2, <2>2, LockTypes DEF IInv, RevokeGrantRow
  <2> QED
    BY <2>1, <2>2
<1>5. tx' = [tx EXCEPT ![x] = r]
  BY DEF RevokeGrantRow, RevokeGrantRowThen
<1>6. TypeOK' /\ tx'[x] = r /\ OnlyMoves(x)
  <2> HIDE DEF r
  <2> QED
    BY <1>3, <1>4, <1>5, QuietTypes DEF IInv, RevokeGrantRow
<1>7. SameRequest(x) /\ tx'[x].pc = pc /\ tx'[x].effect = effect
  BY <1>1, <1>6 DEF TxState, SameRequest
<1>8. Shape(x)'
  BY <1>1, <1>7 DEF Shape, Started, Holding, RevokeGrantRow, db, SameRequest
<1>9. Locks(x)'
  <2>1. tx[x].op = "exchange" => owner[CodeRow(tx[x].grant)] = x
    BY <1>1 DEF Locks, Holding
  <2>2. tx[x].op = "refresh" => owner[TokenRow(tx[x].cred)] = x
    BY <1>1 DEF Locks, Holding
  <2> QED
    BY <1>1, <1>2, <1>4, <1>7, <2>1, <2>2, RowsAreRows DEF Locks, Shape, Started, Holding,
       SameRequest
<1>10. Knows(x)'
  BY <1>1, <1>7 DEF Knows, Shape, Holding, RevokeGrantRow, db, SameRequest, Revoked,
     ReusedLate
<1> QED
  BY <1>1, <1>4, <1>6, <1>7, <1>8, <1>9, <1>10, QuietStep DEF RevokeGrantRow

(* The UPDATE of refresh_tokens goes on to its next row or to the commit. *)
LEMMA StepNextTokenRow ==
  ASSUME IInv, NEW x \in Requests, NEW todo \in SUBSET Requests,
         tx[x].pc \in {"tokens", "token"}, NextTokenRow(x, todo),
         UNCHANGED <<now, db>>,
         owner' \in [Rows -> Requests \cup {None}], OthersKeepLocks(x),
         \A r \in Rows : owner[r] = x => owner'[r] = x
  PROVE  IInv'
<1>1. tx[x] \in TxState /\ Shape(x) /\ Locks(x) /\ Knows(x)
  BY DEF IInv, TypeOK
<1>2. PICK r \in TxState :
        /\ tx' = [tx EXCEPT ![x] = r]
        /\ r.pc \in {"commit", "token"}
        /\ r.pc = "token" => \E t \in Requests : r.want = TokenRow(t)
        /\ r.op = tx[x].op /\ r.cred = tx[x].cred /\ r.began = tx[x].began
        /\ r.grant = tx[x].grant /\ r.late = tx[x].late /\ r.effect = tx[x].effect
  <2>1. CASE todo = {}
    <3> DEFINE r == [tx[x] EXCEPT !.pc = "commit", !.todo = {}, !.want = None]
    <3>1. r \in TxState
      BY <1>1 DEF TxState, Stages
    <3>2. tx' = [tx EXCEPT ![x] = r]
      BY <2>1 DEF NextTokenRow
    <3>3. /\ r.pc = "commit" /\ r.op = tx[x].op /\ r.cred = tx[x].cred
          /\ r.began = tx[x].began /\ r.grant = tx[x].grant /\ r.late = tx[x].late
          /\ r.effect = tx[x].effect
      BY <1>1 DEF TxState
    <3> QED
      BY <3>1, <3>2, <3>3
  <2>2. CASE todo # {}
    <3>1. PICK t \in todo : tx' = [tx EXCEPT ![x] =
                [tx[x] EXCEPT !.pc = "token", !.todo = todo, !.want = TokenRow(t)]]
      BY <2>2 DEF NextTokenRow
    <3> DEFINE r == [tx[x] EXCEPT !.pc = "token", !.todo = todo, !.want = TokenRow(t)]
    <3>2. r \in TxState
      BY <1>1, RowsAreRows DEF TxState, Stages
    <3>3. /\ r.pc = "token" /\ \E u \in Requests : r.want = TokenRow(u)
          /\ r.op = tx[x].op /\ r.cred = tx[x].cred /\ r.began = tx[x].began
          /\ r.grant = tx[x].grant /\ r.late = tx[x].late /\ r.effect = tx[x].effect
      BY <1>1 DEF TxState
    <3>4. tx' = [tx EXCEPT ![x] = r]
      BY <3>1
    <3> HIDE DEF r
    <3> QED
      BY <3>2, <3>3, <3>4
  <2> QED
    BY <2>1, <2>2
<1>3. TypeOK' /\ tx'[x] = r /\ OnlyMoves(x)
  BY <1>2, QuietTypes DEF IInv, TypeOK
<1>4. /\ SameRequest(x) /\ tx'[x].effect = tx[x].effect
      /\ tx'[x].pc \in {"commit", "token"}
      /\ tx'[x].pc = "token" => \E t \in Requests : tx'[x].want = TokenRow(t)
  BY <1>2, <1>3 DEF SameRequest
<1>5. Shape(x)'
  BY <1>1, <1>4 DEF Shape, Started, Holding, db, SameRequest
<1>6. Locks(x)'
  BY <1>1, <1>4, RowsAreRows DEF Locks, Shape, Started, Holding, SameRequest
<1>7. Knows(x)'
  BY <1>1, <1>4 DEF Knows, Shape, Holding, db, SameRequest, Revoked, ReusedLate
<1> QED
  BY <1>3, <1>4, <1>5, <1>6, <1>7, QuietStep

LEMMA StepUpdateTokens ==
  ASSUME IInv, NEW x \in Requests, SnapshotTokens(x) \/ LockToken(x)
  PROVE  IInv'
<1>1. CASE SnapshotTokens(x)
  BY <1>1, StepNextTokenRow DEF SnapshotTokens, LiveTokens, OthersKeepLocks, IInv, TypeOK
<1>2. CASE LockToken(x)
  <2>1. tx[x].want \in Rows
    BY <1>2, RowsAreRows DEF LockToken, IInv, Shape
  <2>2. tx[x].todo \in SUBSET Requests
    BY DEF IInv, TypeOK, TxState
  <2> QED
    BY <1>2, <2>1, <2>2, LockTypes, StepNextTokenRow DEF LockToken, IInv
<1> QED
  BY <1>1, <1>2

LEMMA StepTick == ASSUME IInv, Tick PROVE IInv'
<1>1. TypeOK'
  BY ConstantsAssumption DEF IInv, TypeOK, Tick, db
<1>2. ASSUME NEW y \in Requests PROVE Shape(y)' /\ Locks(y)' /\ Knows(y)' /\ Ledger(y)'
  <2>1. Shape(y) /\ Locks(y) /\ Knows(y) /\ Ledger(y)
    BY <1>2 DEF IInv
  <2> QED
    BY <2>1 DEF Shape, Locks, Knows, Ledger, Tick, db, Revoked, ReusedLate, Did
<1>3. /\ CodeRedeemedOnce' /\ OneEventPerRevocation' /\ ReuseJudgedByFirstRotation'
      /\ RevocationAnswered'
  BY DEF IInv, Tick, db, CodeRedeemedOnce, OneEventPerRevocation,
         ReuseJudgedByFirstRotation, RevocationAnswered, Did, Revoked
<1> QED
  BY <1>1, <1>2, <1>3 DEF IInv

(* A grant that is opened was absent, so no request knows it yet. *)
LEMMA StepComplete ==
  ASSUME IInv, NEW g \in Grants, NEW cl \in Clients, Complete(g, cl)
  PROVE  IInv'
<1>1. TypeOK'
  BY ConstantsAssumption DEF IInv, TypeOK, Complete, GrantState, CodeState
<1>2. ASSUME NEW h \in Grants \ {g} PROVE grant'[h] = grant[h] /\ code'[h] = code[h]
  BY <1>2 DEF IInv, TypeOK, Complete
<1>3. grant[g].state = "absent" /\ grant'[g].state = "active"
  BY DEF IInv, TypeOK, Complete
<1>4. ASSUME NEW y \in Requests
      PROVE  /\ tx[y].pc \in Started => tx[y].grant \in Grants \ {g}
             /\ token[y].exists => token[y].grant \in Grants \ {g}
             /\ tx[y].pc \notin Started => ~tx[y].late /\ tx[y].effect = "none"
  BY <1>3, <1>4 DEF IInv, TypeOK, TxState, Stages, Shape, Ledger, Started, Holding
<1>5. ASSUME NEW y \in Requests PROVE Shape(y)' /\ Locks(y)'
  <2>1. Shape(y) /\ Locks(y)
    BY <1>5 DEF IInv
  <2> QED
    BY <1>2, <1>4, <2>1 DEF Shape, Locks, Complete
<1>6. ASSUME NEW y \in Requests PROVE Knows(y)'
  <2>1. Knows(y)
    BY <1>6 DEF IInv
  <2> QED
    BY <1>2, <1>4, <2>1 DEF Knows, Complete, Revoked, ReusedLate, Started, Holding
<1>7. ASSUME NEW y \in Requests PROVE Ledger(y)'
  <2>1. Ledger(y)
    BY <1>7 DEF IInv
  <2> QED
    BY <1>2, <1>4, <2>1 DEF Ledger, Complete, Revoked, Did, Started
<1>8. OneEventPerRevocation'
  BY <1>2, <1>3 DEF IInv, OneEventPerRevocation, Complete, Revoked
<1>9. RevocationAnswered'
  BY <1>2, <1>4 DEF IInv, RevocationAnswered, Complete, Revoked, Started
<1>10. CodeRedeemedOnce' /\ ReuseJudgedByFirstRotation'
  BY DEF IInv, CodeRedeemedOnce, ReuseJudgedByFirstRotation, Complete, Did
<1> QED
  BY <1>1, <1>5, <1>6, <1>7, <1>8, <1>9, <1>10 DEF IInv

-----------------------------------------------------------------------------
(***************************************************************************)
(* The commits.                                                            *)
(***************************************************************************)

LEMMA FinishFacts ==
  ASSUME IInv, NEW x \in Requests, Finish(x)
  PROVE  /\ tx' \in [Requests -> TxState]
         /\ owner' \in [Rows -> Requests \cup {None}]
         /\ OnlyMoves(x) /\ SameRequest(x)
         /\ tx[x].pc = "commit" /\ tx'[x].pc = "done" /\ tx'[x].effect = tx[x].effect
         /\ tx[x].grant \in Grants
         /\ \A y \in Requests : Locks(y)'
         /\ ~token[x].exists
<1> DEFINE r == [tx[x] EXCEPT !.pc = "done", !.client = None]
<1>1. tx[x] \in TxState /\ tx[x].pc = "commit" /\ Shape(x) /\ Ledger(x)
  BY DEF IInv, TypeOK, Finish
<1>2. r \in TxState /\ tx' = [tx EXCEPT ![x] = r]
  BY <1>1 DEF TxState, Stages, Finish
<1>3. tx' \in [Requests -> TxState] /\ tx'[x] = r /\ OnlyMoves(x)
  BY <1>2 DEF IInv, TypeOK, OnlyMoves
<1>4. SameRequest(x) /\ tx'[x].pc = "done" /\ tx'[x].effect = tx[x].effect
  BY <1>1, <1>3 DEF TxState, SameRequest
<1>5. owner' \in [Rows -> Requests \cup {None}] /\ OthersKeepLocks(x)
  BY ReleasedTypes DEF IInv, Finish
<1>6. ASSUME NEW y \in Requests PROVE Locks(y)'
  <2>1. CASE y = x
    BY <1>4, <2>1 DEF Locks, Holding
  <2>2. CASE y # x
    BY <1>3, <1>5, <2>2, LocksOfOthers
  <2> QED
    BY <2>1, <2>2
<1>7. tx[x].grant \in Grants
  BY <1>1 DEF Shape, Started, Holding
<1>8. ~token[x].exists
  BY <1>1 DEF Ledger, Did
<1> QED
  BY <1>1, <1>3, <1>4, <1>5, <1>6, <1>7, <1>8

(* The verdict on the refresh y, as ReuseJudgedByFirstRotation states it. *)
Judgement(y) ==
  LET first == heir[tx[y].cred] IN
  /\ tx[y].effect = "rotate" =>
       first # None /\ tx[y].began <= tx[first].began + ReuseWindow
  /\ tx[y].effect = "revoke" =>
       first # None /\ tx[y].began > tx[first].began + ReuseWindow

(* Verdicts stand, because the first rotation of a token never changes. *)
LEMMA JudgementsStand ==
  ASSUME IInv, NEW x \in Requests, OnlyMoves(x), tx[x].pc = "commit",
         \A t \in Requests : heir[t] # None => heir'[t] = heir[t],
         tx'[x].op = "refresh" => Judgement(x)'
  PROVE  ReuseJudgedByFirstRotation'
<1> SUFFICES ASSUME NEW y \in Requests, tx'[y].pc = "done", tx'[y].op = "refresh"
             PROVE  Judgement(y)'
  BY DEF ReuseJudgedByFirstRotation, Judgement
<1>1. CASE y = x
  BY <1>1
<1>2. CASE y # x
  <2>1. tx'[y] = tx[y]
    BY <1>2 DEF OnlyMoves
  <2>2. tx[y].cred \in Requests /\ Judgement(y)
    BY <2>1 DEF IInv, Shape, Started, ReuseJudgedByFirstRotation, Judgement
  <2> DEFINE first == heir[tx[y].cred]
  <2>3. CASE first = None
    BY <2>1, <2>2, <2>3 DEF Judgement
  <2>4. CASE first # None
    <3>1. first \in Requests /\ tx[first].pc = "done"
      BY <2>2, <2>4 DEF IInv, TypeOK, Ledger
    <3>2. tx'[first] = tx[first] /\ heir'[tx[y].cred] = first
      BY <2>2, <2>4, <3>1 DEF OnlyMoves
    <3> QED
      BY <2>1, <2>2, <3>2 DEF Judgement
  <2> QED
    BY <2>3, <2>4
<1> QED
  BY <1>1, <1>2

LEMMA StepCommitNothing ==
  ASSUME IInv, NEW x \in Requests, CommitNothing(x)
  PROVE  IInv'
<1>1. Finish(x) /\ tx[x].effect = "none" /\ UNCHANGED <<now, db>>
  BY DEF CommitNothing, Finish
<1>2. /\ tx' \in [Requests -> TxState] /\ owner' \in [Rows -> Requests \cup {None}]
      /\ OnlyMoves(x) /\ SameRequest(x)
      /\ tx[x].pc = "commit" /\ tx'[x].pc = "done" /\ tx'[x].effect = tx[x].effect
      /\ tx[x].grant \in Grants /\ \A y \in Requests : Locks(y)'
      /\ ~token[x].exists
  BY <1>1, FinishFacts
<1>3. TypeOK'
  BY <1>1, <1>2 DEF IInv, TypeOK, db
<1>4. Shape(x) /\ Knows(x)
  BY DEF IInv
<1>5. ASSUME NEW y \in Requests PROVE Shape(y)' /\ Knows(y)'
  <2>1. CASE y = x
    BY <1>1, <1>2, <1>4, <2>1 DEF Shape, Knows, Started, Holding, SameRequest, db, Revoked,
       ReusedLate
  <2>2. CASE y # x
    <3>1. tx'[y] = tx[y] /\ Shape(y) /\ Knows(y)
      BY <1>2, <1>5, <2>2 DEF IInv, OnlyMoves
    <3> QED
      BY <1>1, <3>1 DEF Shape, Knows, db, Revoked, ReusedLate
  <2> QED
    BY <2>1, <2>2
<1>6. ASSUME NEW y \in Requests
      PROVE  /\ tx[y].pc = "done" => tx'[y] = tx[y]
             /\ tx'[y].pc = "done" => tx'[y] = tx[y] \/ y = x
  BY <1>2, <1>6 DEF OnlyMoves
<1>7. \A y \in Requests : heir[y] \in Requests \cup {None}
  BY DEF IInv, TypeOK
<1>8. ASSUME NEW y \in Requests PROVE Ledger(y)'
  <2>1. Ledger(y)
    BY <1>8 DEF IInv
  <2> QED
    BY <1>1, <1>2, <1>6, <1>7, <1>8, <2>1 DEF Ledger, Did, db, Revoked
<1>9. CodeRedeemedOnce' /\ OneEventPerRevocation'
  BY <1>1, <1>2, <1>6 DEF IInv, CodeRedeemedOnce, OneEventPerRevocation, Did, db, Revoked
<1>10. RevocationAnswered'
  BY <1>1, <1>2, <1>4, <1>6 DEF IInv, Knows, RevocationAnswered, db, Revoked, SameRequest
<1>11. ReuseJudgedByFirstRotation'
  BY <1>1, <1>2, JudgementsStand DEF Judgement, db
<1> QED
  BY <1>2, <1>3, <1>5, <1>8, <1>9, <1>10, <1>11 DEF IInv

LEMMA StepCommitSlide ==
  ASSUME IInv, NEW x \in Requests, CommitSlide(x)
  PROVE  IInv'
<1>1. Finish(x) /\ tx[x].effect = "slide" /\ UNCHANGED <<now, grant, code, outbox, heir>>
  BY DEF CommitSlide, Finish
<1>2. /\ tx' \in [Requests -> TxState] /\ owner' \in [Rows -> Requests \cup {None}]
      /\ OnlyMoves(x) /\ SameRequest(x)
      /\ tx[x].pc = "commit" /\ tx'[x].pc = "done" /\ tx'[x].effect = tx[x].effect
      /\ tx[x].grant \in Grants /\ \A y \in Requests : Locks(y)'
      /\ ~token[x].exists
  BY <1>1, FinishFacts
<1>3. Shape(x) /\ Knows(x) /\ Locks(x) /\ tx[x] \in TxState
  BY DEF IInv, TypeOK
<1>4. ASSUME NEW y \in Requests \ {x}
      PROVE  tx'[y] = tx[y] /\ Shape(y) /\ Knows(y) /\ Locks(y)
  BY <1>2, <1>4 DEF IInv, OnlyMoves
<1>5. ASSUME NEW y \in Requests
      PROVE  tx[y].pc \in Started /\ tx[y].op # "exchange" => tx[y].cred \in Requests \ {x}
  BY <1>2, <1>5 DEF IInv, Shape
<1>6. \A y \in Requests : heir[y] \in Requests \cup {None}
  BY DEF IInv, TypeOK
<1>7. tx[x].op = "refresh" /\ tx[x].cred \in Requests
  BY <1>1, <1>2, <1>3 DEF Shape, Started, Holding
<1>8. TypeOK'
  <2>1. tx[x].began + ConfidentialTTL \in Int
    BY <1>3, ConstantsAssumption DEF TxState
  <2>2. token' \in [Requests -> TokenState]
    BY <1>7, <2>1 DEF IInv, TypeOK, TokenState, CommitSlide
  <2> QED
    BY <1>1, <1>2, <2>2 DEF IInv, TypeOK
<1>9. ASSUME NEW t \in Requests
      PROVE  /\ token'[t].exists = token[t].exists /\ token'[t].grant = token[t].grant
             /\ token'[t].rotated = token[t].rotated /\ token'[t].revoked = token[t].revoked
  BY <1>9 DEF IInv, TypeOK, TokenState, CommitSlide
<1>10. ASSUME NEW y \in Requests PROVE Shape(y)'
  BY <1>1, <1>2, <1>3, <1>4, <1>5, <1>9, <1>10 DEF Shape, Started, Holding, SameRequest
<1>11. ASSUME NEW y \in Requests PROVE Knows(y)'
  <2>1. CASE y = x
    BY <1>1, <1>2, <1>3, <2>1 DEF Knows, SameRequest, Revoked, Holding
  <2>2. CASE y # x
    BY <1>1, <1>4, <1>5, <1>9, <1>11, <2>2 DEF Knows, Shape, Started, Holding, Revoked, ReusedLate,
       IInv, TypeOK, TxState, Stages
  <2> QED
    BY <2>1, <2>2
<1>12. ASSUME NEW y \in Requests PROVE Ledger(y)'
  <2>1. Ledger(y)
    BY <1>12 DEF IInv
  <2> QED
    BY <1>1, <1>2, <1>4, <1>6, <1>9, <1>12, <2>1 DEF Ledger, Did, Revoked, SameRequest
<1>13. CodeRedeemedOnce' /\ OneEventPerRevocation'
  BY <1>1, <1>2, <1>4 DEF IInv, CodeRedeemedOnce, OneEventPerRevocation, Did, Revoked
<1>14. RevocationAnswered'
  BY <1>1, <1>2, <1>4, <1>7 DEF IInv, RevocationAnswered, Revoked, SameRequest
<1>15. ReuseJudgedByFirstRotation'
  BY <1>1, <1>2, JudgementsStand DEF Judgement
<1> QED
  BY <1>2, <1>8, <1>10, <1>11, <1>12, <1>13, <1>14, <1>15 DEF IInv

LEMMA StepCommitRedeem ==
  ASSUME IInv, NEW x \in Requests, CommitRedeem(x)
  PROVE  IInv'
<1> DEFINE g == tx[x].grant
<1>1. Finish(x) /\ tx[x].effect = "redeem" /\ UNCHANGED <<now, grant, outbox, heir>>
  BY DEF CommitRedeem, Finish
<1>2. /\ tx' \in [Requests -> TxState] /\ owner' \in [Rows -> Requests \cup {None}]
      /\ OnlyMoves(x) /\ SameRequest(x)
      /\ tx[x].pc = "commit" /\ tx'[x].pc = "done" /\ tx'[x].effect = tx[x].effect
      /\ tx[x].grant \in Grants /\ \A y \in Requests : Locks(y)'
      /\ ~token[x].exists
  BY <1>1, FinishFacts
<1>3. Shape(x) /\ Knows(x) /\ Locks(x) /\ tx[x] \in TxState
  BY DEF IInv, TypeOK
<1>4. ASSUME NEW y \in Requests \ {x}
      PROVE  tx'[y] = tx[y] /\ Shape(y) /\ Knows(y) /\ Locks(y)
  BY <1>2, <1>4 DEF IInv, OnlyMoves
<1>5. ASSUME NEW y \in Requests
      PROVE  tx[y].pc \in Started /\ tx[y].op # "exchange" => tx[y].cred \in Requests \ {x}
  BY <1>2, <1>5 DEF IInv, Shape
<1>6. \A y \in Requests : heir[y] \in Requests \cup {None}
  BY DEF IInv, TypeOK
<1>7. tx[x].op = "exchange" /\ ~code[g].consumed /\ owner[CodeRow(g)] = x
  BY <1>1, <1>2, <1>3 DEF Shape, Knows, Locks, Holding
<1>8. NewToken(x) \in TokenState /\ NewToken(x).grant = g /\ ~NewToken(x).revoked
      /\ NewToken(x).rotated = None
  BY <1>2, <1>3, ConstantsAssumption DEF NewToken, TokenState, TxState
<1>9. TypeOK' /\ code'[g].consumed /\ token'[x] = NewToken(x)
  <2>1. code' \in [Grants -> CodeState] /\ code'[g].consumed
    BY <1>2 DEF IInv, TypeOK, CodeState, CommitRedeem, CodeConsumed
  <2>2. token' \in [Requests -> TokenState] /\ token'[x] = NewToken(x)
    BY <1>8 DEF IInv, TypeOK, CommitRedeem
  <2> QED
    BY <1>1, <1>2, <2>1, <2>2 DEF IInv, TypeOK
<1>10. /\ \A t \in Requests \ {x} : token'[t] = token[t]
       /\ \A h \in Grants \ {g} : code'[h] = code[h]
       /\ \A h \in Grants : code[h].consumed => code'[h].consumed
  BY <1>9 DEF IInv, TypeOK, CommitRedeem, CodeConsumed
<1>11. ASSUME NEW y \in Requests PROVE Shape(y)'
  BY <1>1, <1>2, <1>3, <1>4, <1>5, <1>10, <1>11 DEF Shape, Started, Holding, SameRequest
<1>12. ASSUME NEW y \in Requests PROVE Knows(y)'
  <2>1. CASE y = x
    BY <1>1, <1>2, <1>3, <1>7, <2>1 DEF Knows, SameRequest, Revoked, Holding
  <2>2. CASE y # x
    <3>1. tx[y].pc = "commit" /\ tx[y].effect = "redeem" => tx[y].grant \in Grants \ {g}
      BY <1>4, <1>7, <2>2 DEF Shape, Locks, Started, Holding
    <3> QED
      BY <1>1, <1>4, <1>5, <1>10, <1>12, <2>2, <3>1 DEF Knows, Shape, Started, Holding, Revoked,
         ReusedLate, IInv, TypeOK, TxState, Stages
  <2> QED
    BY <2>1, <2>2
<1>13. ASSUME NEW y \in Requests PROVE Ledger(y)'
  <2>1. Ledger(y)
    BY <1>13 DEF IInv
  <2>2. heir[y] # None => tx'[heir[y]] = tx[heir[y]]
    BY <1>2, <1>4, <1>6, <1>13, <2>1 DEF Ledger
  <2>3. CASE y = x
    <3>1. heir[x] = None
      BY <1>2, <2>1, <2>3 DEF Ledger
    <3> QED
      BY <1>1, <1>2, <1>3, <1>8, <1>9, <2>3, <3>1 DEF Ledger, Did, SameRequest, NewToken,
         Shape, Started, Holding
  <2>4. CASE y # x
    <3>1. Did(y, "redeem") => tx[y].grant \in Grants
      BY <1>4, <2>4 DEF Did, Shape, Started
    <3> QED
      BY <1>1, <1>4, <1>10, <2>1, <2>2, <2>4, <3>1 DEF Ledger, Did, Revoked
  <2> QED
    BY <2>3, <2>4
<1>14. CodeRedeemedOnce'
  <2>1. \A y \in Requests \ {x} : Did(y, "redeem")' => Did(y, "redeem") /\ tx[y].grant # g
    BY <1>4, <1>7 DEF IInv, Ledger, Did
  <2> QED
    BY <1>2, <1>4, <2>1 DEF IInv, CodeRedeemedOnce, Did, SameRequest
<1>15. OneEventPerRevocation' /\ RevocationAnswered'
  BY <1>1, <1>2, <1>4, <1>7 DEF IInv, OneEventPerRevocation, RevocationAnswered, Revoked,
     SameRequest
<1>16. ReuseJudgedByFirstRotation'
  BY <1>1, <1>2, JudgementsStand DEF Judgement
<1> QED
  BY <1>2, <1>9, <1>11, <1>12, <1>13, <1>14, <1>15, <1>16 DEF IInv

LEMMA StepCommitRotate ==
  ASSUME IInv, NEW x \in Requests, CommitRotate(x)
  PROVE  IInv'
<1> DEFINE c == tx[x].cred
           at == RotatedAt(c, tx[x].began)
<1>1. Finish(x) /\ tx[x].effect = "rotate" /\ UNCHANGED <<now, grant, code, outbox>>
  BY DEF CommitRotate, Finish
<1>2. /\ tx' \in [Requests -> TxState] /\ owner' \in [Rows -> Requests \cup {None}]
      /\ OnlyMoves(x) /\ SameRequest(x)
      /\ tx[x].pc = "commit" /\ tx'[x].pc = "done" /\ tx'[x].effect = tx[x].effect
      /\ tx[x].grant \in Grants /\ \A y \in Requests : Locks(y)'
      /\ ~token[x].exists
  BY <1>1, FinishFacts
<1>3. Shape(x) /\ Knows(x) /\ Locks(x) /\ tx[x] \in TxState
  BY DEF IInv, TypeOK
<1>4. ASSUME NEW y \in Requests \ {x}
      PROVE  tx'[y] = tx[y] /\ Shape(y) /\ Knows(y) /\ Locks(y)
  BY <1>2, <1>4 DEF IInv, OnlyMoves
<1>5. ASSUME NEW y \in Requests
      PROVE  tx[y].pc \in Started /\ tx[y].op # "exchange" => tx[y].cred \in Requests \ {x}
  BY <1>2, <1>5 DEF IInv, Shape
<1>6. \A y \in Requests : heir[y] \in Requests \cup {None}
  BY DEF IInv, TypeOK
<1>7. /\ tx[x].op = "refresh" /\ c \in Requests \ {x} /\ owner[TokenRow(c)] = x
      /\ ~ReusedLate(c, tx[x].began) /\ token[c].exists
  BY <1>1, <1>2, <1>3, <1>5 DEF Shape, Knows, Locks, Started, Holding
<1>8. /\ NewToken(x) \in TokenState /\ NewToken(x).grant = tx[x].grant
      /\ ~NewToken(x).revoked /\ NewToken(x).rotated = None
  BY <1>2, <1>3, ConstantsAssumption DEF NewToken, TokenState, TxState
<1>9. /\ at \in Int
      /\ token[c].rotated # None => at = token[c].rotated
      /\ token[c].rotated = None => at = tx[x].began
  BY <1>3, <1>7 DEF IInv, TypeOK, TokenState, TxState, RotatedAt
<1>10. /\ token' \in [Requests -> TokenState] /\ token'[x] = NewToken(x)
       /\ token'[c].rotated = at
       /\ token'[c].exists = token[c].exists /\ token'[c].grant = token[c].grant
       /\ token'[c].revoked = token[c].revoked
       /\ \A t \in Requests \ {x, c} : token'[t] = token[t]
  <2> HIDE DEF at
  <2>1. token' = [token EXCEPT ![c].rotated = at, ![x] = NewToken(x)]
    BY DEF CommitRotate, at
  <2>2. token \in [Requests -> TokenState]
    BY DEF IInv, TypeOK
  <2> HIDE DEF c
  <2>3. /\ token'[c] = [token[c] EXCEPT !.rotated = at] /\ token'[x] = NewToken(x)
        /\ \A t \in Requests \ {x, c} : token'[t] = token[t]
    BY <1>7, <2>1, <2>2
  <2>4. token[c] \in TokenState
    BY <1>7, <2>2
  <2>5. [token[c] EXCEPT !.rotated = at] \in TokenState
    BY <1>9, <2>4 DEF TokenState
  <2>6. token' \in [Requests -> TokenState]
    BY <1>7, <1>8, <2>1, <2>2, <2>3, <2>5
  <2>7. token'[c].rotated = at /\ token'[c].grant = token[c].grant
    BY <2>3, <2>4 DEF TokenState
  <2>8. token'[c].exists = token[c].exists /\ token'[c].revoked = token[c].revoked
    BY <2>3, <2>4 DEF TokenState
  <2> QED
    BY <2>3, <2>6, <2>7, <2>8
<1>11. /\ heir' \in [Requests -> Requests \cup {None}]
       /\ heir[c] = None => heir'[c] = x
       /\ heir[c] # None => heir'[c] = heir[c]
       /\ \A t \in Requests \ {c} : heir'[t] = heir[t]
  BY <1>7 DEF IInv, TypeOK, CommitRotate
<1> HIDE DEF c, at
<1>12. TypeOK'
  BY <1>1, <1>2, <1>10, <1>11 DEF IInv, TypeOK
<1>13. ASSUME NEW y \in Requests PROVE Shape(y)'
  <2>1. \A t \in Requests \ {x} : token'[t].exists = token[t].exists /\ token'[t].grant = token[t].grant
    BY <1>7, <1>10
  <2> QED
    BY <1>1, <1>2, <1>3, <1>4, <1>5, <1>13, <2>1 DEF Shape, Started, Holding, SameRequest
<1>14. ASSUME NEW y \in Requests PROVE Knows(y)'
  <2>1. CASE y = x
    BY <1>1, <1>2, <1>3, <2>1 DEF Knows, SameRequest, Revoked, Holding
  <2>2. CASE y # x
    <3>1. tx[y].op = "refresh" /\ tx[y].pc \in Holding => tx[y].cred # c
      BY <1>4, <1>7, <2>2, ConstantsAssumption DEF Locks
    <3>2. tx[y].op = "refresh" /\ tx[y].pc \in Started => tx[y].cred \in Requests \ {x}
      BY <1>5
    <3>3. tx[y].pc \notin Started =>
            tx[y].effect = "none" /\ ~tx[y].late /\ tx[y].pc \in {"idle", "failed"}
      BY <1>4, <2>2 DEF Shape, IInv, TypeOK, TxState, Stages, Started, Holding
    <3>4. token[c].rotated # None => token'[c].rotated = token[c].rotated
      BY <1>9, <1>10
    <3>5. tx[y].op = "refresh" /\ tx[y].pc \in Started =>
            (ReusedLate(tx[y].cred, tx[y].began) => ReusedLate(tx[y].cred, tx[y].began)')
      BY <1>4, <1>10, <2>2, <3>2, <3>4 DEF ReusedLate
    <3>6. tx[y].op = "refresh" /\ tx[y].pc \in Holding =>
            ReusedLate(tx[y].cred, tx[y].began)' = ReusedLate(tx[y].cred, tx[y].began)
      BY <1>4, <1>10, <2>2, <3>1, <3>2 DEF ReusedLate, Started
    <3> QED
      BY <1>1, <1>4, <2>2, <3>3, <3>5, <3>6 DEF Knows, Shape, Started, Holding, Revoked
  <2> QED
    BY <2>1, <2>2
<1>15. ASSUME NEW y \in Requests PROVE Ledger(y)'
  <2>1. Ledger(y) /\ (heir[y] # None => heir[y] \in Requests \ {x} /\ tx'[heir[y]] = tx[heir[y]])
    BY <1>2, <1>4, <1>6, <1>15 DEF IInv, Ledger
  <2>2. CASE y = x
    BY <1>1, <1>2, <1>3, <1>7, <1>8, <1>10, <1>11, <2>1, <2>2 DEF Ledger, Did, SameRequest,
       NewToken, Shape, Started, Holding
  <2>3. CASE y = c
    <3>1. heir'[c] # None /\ tx'[heir'[c]].pc = "done" /\ token'[c].rotated = tx'[heir'[c]].began
      <4>1. CASE heir[c] = None
        BY <1>2, <1>9, <1>10, <1>11, <2>1, <2>3, <4>1, ConstantsAssumption
        DEF Ledger, SameRequest
      <4>2. CASE heir[c] # None
        BY <1>9, <1>10, <1>11, <2>1, <2>3, <4>2, ConstantsAssumption
        DEF Ledger, IInv, TypeOK, TxState
      <4> QED
        BY <4>1, <4>2
    <3> QED
      BY <1>1, <1>4, <1>7, <1>10, <2>1, <2>3, <3>1 DEF Ledger, Did, Revoked
  <2>4. CASE y \notin {x, c}
    BY <1>1, <1>4, <1>10, <1>11, <2>1, <2>4 DEF Ledger, Did, Revoked
  <2> QED
    BY <2>2, <2>3, <2>4
<1>16. CodeRedeemedOnce' /\ OneEventPerRevocation' /\ RevocationAnswered'
  BY <1>1, <1>2, <1>4, <1>7 DEF IInv, CodeRedeemedOnce, OneEventPerRevocation,
     RevocationAnswered, Did, Revoked, SameRequest
<1>17. Judgement(x)'
  <2>1. CASE heir[c] = None
    <3>1. heir'[tx'[x].cred] = x
      BY <1>2, <1>11, <2>1 DEF SameRequest, c
    <3> QED
      BY <1>1, <1>2, <1>3, <3>1, ConstantsAssumption DEF Judgement, TxState, SameRequest
  <2>2. CASE heir[c] # None
    <3>1. heir[c] \in Requests \ {x} /\ token[c].rotated = tx[heir[c]].began
      BY <1>2, <1>6, <1>7, <2>2 DEF IInv, Ledger
    <3>2. token[c].rotated \in Int /\ tx[x].began \in Int
      BY <1>3, <3>1 DEF IInv, TypeOK, TxState
    <3>3. tx[x].began <= token[c].rotated + ReuseWindow
      BY <1>7, <3>2, ConstantsAssumption DEF ReusedLate
    <3>4. heir'[tx'[x].cred] = heir[c] /\ tx'[heir[c]] = tx[heir[c]]
      BY <1>2, <1>4, <1>11, <2>2, <3>1 DEF SameRequest, c
    <3> QED
      BY <1>1, <1>2, <2>2, <3>1, <3>3, <3>4 DEF Judgement, SameRequest
  <2> QED
    BY <2>1, <2>2
<1>18. ReuseJudgedByFirstRotation'
  BY <1>2, <1>11, <1>17, JudgementsStand
<1> QED
  BY <1>2, <1>12, <1>13, <1>14, <1>15, <1>16, <1>18 DEF IInv

LEMMA StepCommitRevoke ==
  ASSUME IInv, NEW x \in Requests, CommitRevoke(x)
  PROVE  IInv'
<1> DEFINE g == tx[x].grant
<1>1. Finish(x) /\ tx[x].effect = "revoke" /\ UNCHANGED <<now, code, heir>>
  BY DEF CommitRevoke, Finish
<1>2. /\ tx' \in [Requests -> TxState] /\ owner' \in [Rows -> Requests \cup {None}]
      /\ OnlyMoves(x) /\ SameRequest(x)
      /\ tx[x].pc = "commit" /\ tx'[x].pc = "done" /\ tx'[x].effect = tx[x].effect
      /\ tx[x].grant \in Grants /\ \A y \in Requests : Locks(y)'
      /\ ~token[x].exists
  BY <1>1, FinishFacts
<1>3. Shape(x) /\ Knows(x) /\ Locks(x) /\ tx[x] \in TxState
  BY DEF IInv, TypeOK
<1>4. ASSUME NEW y \in Requests \ {x}
      PROVE  tx'[y] = tx[y] /\ Shape(y) /\ Knows(y) /\ Locks(y)
  BY <1>2, <1>4 DEF IInv, OnlyMoves
<1>5. ASSUME NEW y \in Requests
      PROVE  tx[y].pc \in Started /\ tx[y].op # "exchange" => tx[y].cred \in Requests \ {x}
  BY <1>2, <1>5 DEF IInv, Shape
<1>6. \A y \in Requests : heir[y] \in Requests \cup {None}
  BY DEF IInv, TypeOK
<1>7. /\ ~Revoked(g) /\ owner[GrantRow(g)] = x
      /\ tx[x].op = "refresh" => ReusedLate(tx[x].cred, tx[x].began)
  BY <1>1, <1>2, <1>3 DEF Knows, Locks, Holding
<1>8. /\ grant' \in [Grants -> GrantState] /\ grant'[g].state = "revoked"
      /\ \A h \in Grants \ {g} : grant'[h] = grant[h]
  BY <1>2 DEF IInv, TypeOK, GrantState, CommitRevoke
<1>9. /\ token' \in [Requests -> TokenState]
      /\ \A t \in Requests :
           /\ token'[t].exists = token[t].exists /\ token'[t].grant = token[t].grant
           /\ token'[t].rotated = token[t].rotated
           /\ token'[t].revoked => token[t].revoked \/ token[t].grant = g
  BY DEF IInv, TypeOK, TokenState, CommitRevoke
<1>10. outbox' \in [Grants -> Nat]
  BY <1>2 DEF IInv, TypeOK, CommitRevoke
<1>11. TypeOK'
  BY <1>1, <1>2, <1>8, <1>9, <1>10 DEF IInv, TypeOK
<1>12. ASSUME NEW h \in Grants PROVE Revoked(h) => Revoked(h)'
  BY <1>8, <1>12 DEF Revoked
<1>13. ASSUME NEW y \in Requests PROVE Shape(y)'
  <2>1. \A h \in Grants : grant[h].state # "absent" => grant'[h].state # "absent"
    BY <1>8
  <2> QED
    BY <1>1, <1>2, <1>3, <1>4, <1>9, <1>13, <2>1 DEF Shape, Started, Holding, SameRequest
<1>14. ASSUME NEW y \in Requests PROVE Knows(y)'
  <2>1. CASE y = x
    BY <1>1, <1>2, <1>3, <1>8, <1>9, <2>1 DEF Knows, SameRequest, Revoked, Holding, ReusedLate,
       Shape, Started
  <2>2. CASE y # x
    <3>1. tx[y].pc \in Started => tx[y].grant \in Grants
      BY <1>4, <2>2 DEF Shape
    <3>2. tx[y].pc \in Holding /\ tx[y].effect = "revoke" => tx[y].grant # g
      BY <1>4, <1>7, <2>2 DEF Locks
    <3>3. tx[y].pc \notin Started =>
            tx[y].effect = "none" /\ ~tx[y].late /\ tx[y].pc \in {"idle", "failed"}
      BY <1>4, <2>2 DEF Shape, IInv, TypeOK, TxState, Stages, Started, Holding
    <3>4. tx[y].op = "refresh" /\ tx[y].pc \in Started =>
            ReusedLate(tx[y].cred, tx[y].began)' = ReusedLate(tx[y].cred, tx[y].began)
      BY <1>4, <1>5, <1>9, <2>2 DEF ReusedLate
    <3> QED
      BY <1>1, <1>4, <1>8, <1>12, <2>2, <3>1, <3>2, <3>3, <3>4 DEF Knows, Shape, Started, Holding,
         Revoked
  <2> QED
    BY <2>1, <2>2
<1>15. ASSUME NEW y \in Requests PROVE Ledger(y)'
  <2>1. Ledger(y) /\ (heir[y] # None => tx'[heir[y]] = tx[heir[y]])
    BY <1>2, <1>4, <1>6, <1>15 DEF IInv, Ledger
  <2>2. token[y].revoked => token[y].grant \in Grants
    BY <2>1 DEF Ledger
  <2>3. token'[y].revoked =>
          token[y].exists /\ grant'[token[y].grant].state = "revoked"
    <3>1. CASE token[y].revoked
      BY <1>12, <2>1, <2>2, <3>1 DEF Ledger, Revoked
    <3>2. CASE ~token[y].revoked /\ token'[y].revoked
      <4>1. token[y].grant = g
        BY <1>9, <3>2
      <4>2. token[y].exists
        BY <1>2, <2>1, <4>1 DEF Ledger
      <4> QED
        BY <1>8, <4>1, <4>2 DEF Revoked
    <3> QED
      BY <3>1, <3>2
  <2>4. token[y].exists => grant'[token[y].grant].state # "absent"
    BY <1>8, <2>1 DEF Ledger
  <2> QED
    BY <1>1, <1>2, <1>4, <1>9, <1>15, <2>1, <2>3, <2>4 DEF Ledger, Did, SameRequest, Revoked
<1>16. CodeRedeemedOnce'
  BY <1>1, <1>2, <1>4 DEF IInv, CodeRedeemedOnce, Did, SameRequest
<1>17. OneEventPerRevocation'
  <2>1. outbox[g] = 0 /\ outbox'[g] = 1 /\ \A h \in Grants \ {g} : outbox'[h] = outbox[h]
    BY <1>2, <1>7 DEF IInv, TypeOK, OneEventPerRevocation, CommitRevoke
  <2> QED
    BY <1>8, <2>1 DEF IInv, OneEventPerRevocation, Revoked
<1>18. RevocationAnswered'
  <2> SUFFICES ASSUME NEW y \in Requests, tx'[y].pc = "done", tx'[y].op = "revoke"
               PROVE  grant'[tx'[y].grant].state = "revoked"
    BY DEF RevocationAnswered, Revoked
  <2>1. CASE y = x
    BY <1>2, <1>8, <2>1 DEF Revoked, SameRequest
  <2>2. CASE y # x
    BY <1>4, <1>12, <2>2 DEF IInv, RevocationAnswered, Shape, Started, Revoked
  <2> QED
    BY <2>1, <2>2
<1>19. ASSUME tx'[x].op = "refresh" PROVE Judgement(x)'
  <2> DEFINE c == tx[x].cred
  <2>1. c \in Requests /\ ReusedLate(c, tx[x].began)
    BY <1>2, <1>5, <1>7, <1>19 DEF SameRequest, Started, Holding
  <2>2. heir[c] \in Requests \ {x} /\ token[c].rotated = tx[heir[c]].began
    BY <1>2, <1>6, <2>1 DEF IInv, Ledger, ReusedLate
  <2>3. token[c].rotated \in Int /\ tx[x].began \in Int
    BY <1>3, <2>2 DEF IInv, TypeOK, TxState
  <2>4. tx[x].began > token[c].rotated + ReuseWindow
    BY <2>1, <2>3, ConstantsAssumption DEF ReusedLate
  <2>5. heir'[tx'[x].cred] = heir[c] /\ tx'[heir[c]] = tx[heir[c]]
    BY <1>1, <1>2, <1>4, <2>2 DEF SameRequest
  <2> QED
    BY <1>1, <1>2, <2>2, <2>4, <2>5, ConstantsAssumption DEF Judgement, SameRequest
<1>20. ReuseJudgedByFirstRotation'
  BY <1>1, <1>2, <1>19, JudgementsStand
<1> QED
  BY <1>2, <1>11, <1>13, <1>14, <1>15, <1>16, <1>17, <1>18, <1>20 DEF IInv

-----------------------------------------------------------------------------
(***************************************************************************)
(* The invariant and the safety properties.                                *)
(***************************************************************************)

LEMMA StepNext == IInv /\ [Next]_vars => IInv'
<1> SUFFICES ASSUME IInv, [Next]_vars PROVE IInv'
  OBVIOUS
<1>1. ASSUME NEW x \in Requests, Arrive(x) \/ Advance(x) PROVE IInv'
  <2>1. CASE Arrive(x)
    BY <1>1, <2>1, StepBegin
  <2>2. CASE LockCredential(x)
    BY <1>1, <2>2, StepLockCredential
  <2>3. CASE LoadForExchange(x) \/ LoadForRefresh(x)
    BY <1>1, <2>3, StepLoad
  <2>4. CASE RevokeGrantRow(x)
    BY <1>1, <2>4, StepRevokeGrantRow
  <2>5. CASE SnapshotTokens(x) \/ LockToken(x)
    BY <1>1, <2>5, StepUpdateTokens
  <2>6. CASE Commit(x)
    BY <1>1, <2>6, StepCommitNothing, StepCommitRedeem, StepCommitRotate, StepCommitSlide,
       StepCommitRevoke DEF Commit
  <2>7. CASE DeadlockVictim(x)
    <3>1. tx[x].pc # "done"
      BY <2>7 DEF DeadlockVictim, Deadlocked, Waiting
    <3> QED
      BY <1>1, <2>7, <3>1, StepRollback DEF DeadlockVictim
  <2> QED
    BY <1>1, <2>1, <2>2, <2>3, <2>4, <2>5, <2>6, <2>7 DEF Advance
<1>2. ASSUME NEW x \in Requests, Cancel(x) PROVE IInv'
  <2>1. tx[x].pc # "done"
    BY <1>2 DEF Cancel, Running
  <2> QED
    BY <1>2, <2>1, StepRollback
<1>3. ASSUME UNCHANGED vars PROVE IInv'
  BY <1>3 DEF vars, IInv, TypeOK, Shape, Locks, Knows, Ledger, CodeRedeemedOnce, Did, Revoked,
     ReusedLate, OneEventPerRevocation, ReuseJudgedByFirstRotation, RevocationAnswered
<1> QED
  BY <1>1, <1>2, <1>3, StepComplete, StepTick DEF Next, Finished

(* The inductive invariant holds in every reachable state. *)
THEOREM Inductive == Spec => []IInv
BY InitIInv, StepNext, PTL DEF Spec

(* Rows, locks and transactions keep their types. *)
THEOREM TypeCorrect == Spec => []TypeOK
<1>1. IInv => TypeOK
  BY DEF IInv
<1> QED
  BY <1>1, Inductive, PTL

(* An authorization code starts at most one family of refresh tokens. *)
THEOREM CodeIsRedeemedOnce == Spec => []CodeRedeemedOnce
<1>1. IInv => CodeRedeemedOnce
  BY DEF IInv
<1> QED
  BY <1>1, Inductive, PTL

(* A revoked grant has queued one event, any other grant none. *)
THEOREM RevocationIsAnnouncedOnce == Spec => []OneEventPerRevocation
<1>1. IInv => OneEventPerRevocation
  BY DEF IInv
<1> QED
  BY <1>1, Inductive, PTL

(* A retry is served, and a reuse punished, by the first rotation's time. *)
THEOREM FirstRotationJudges == Spec => []ReuseJudgedByFirstRotation
<1>1. IInv => ReuseJudgedByFirstRotation
  BY DEF IInv
<1> QED
  BY <1>1, Inductive, PTL

(* The answer of /revoke means that the grant is revoked. *)
THEOREM RevocationIsAnswered == Spec => []RevocationAnswered
<1>1. IInv => RevocationAnswered
  BY DEF IInv
<1> QED
  BY <1>1, Inductive, PTL

(* A request that begins after the revocation gets no tokens. *)
THEOREM NoTokensAfterRevocation == Spec => []NothingAfterRevocation
<1>1. IInv => NothingAfterRevocation
  BY DEF IInv, Knows, NothingAfterRevocation
<1> QED
  BY <1>1, Inductive, PTL

-----------------------------------------------------------------------------
(***************************************************************************)
(* AuthGrants implements GrantContract.                                    *)
(***************************************************************************)

(* A code is consumed only after its grant was opened. *)
OpenedBeforeRedeemed ==
  \A g \in Grants : code[g].consumed => grant[g].state # "absent"

Usable(g) == IF Revoked(g) THEN {} ELSE LiveTokens(g)

(* What kinds of step there are, as seen in the committed rows. *)
LEMMA StepKinds ==
  ASSUME [Next]_vars
  PROVE  \/ UNCHANGED <<grant, code, token, outbox>>
         \/ \E g \in Grants, cl \in Clients : Complete(g, cl)
         \/ \E x \in Requests : \/ CommitRedeem(x) \/ CommitRotate(x)
                                 \/ CommitSlide(x) \/ CommitRevoke(x)
<1>1. ASSUME NEW x \in Requests, Arrive(x) PROVE UNCHANGED <<grant, code, token, outbox>>
  BY <1>1 DEF Arrive, BeginExchange, BeginRefresh, BeginRevoke, Begin, db
<1>2. ASSUME NEW x \in Requests, Advance(x), ~Commit(x)
      PROVE  UNCHANGED <<grant, code, token, outbox>>
  BY <1>2 DEF Advance, LockCredential, LoadForExchange, LoadForRefresh, RevokeGrantRow,
     SnapshotTokens, LockToken, DeadlockVictim, Decide, StartRevocation, Rollback, db
<1>3. ASSUME NEW x \in Requests, CommitNothing(x) \/ Cancel(x)
      PROVE  UNCHANGED <<grant, code, token, outbox>>
  BY <1>3 DEF CommitNothing, Cancel, db
<1>4. ASSUME Tick \/ UNCHANGED vars PROVE UNCHANGED <<grant, code, token, outbox>>
  BY <1>4 DEF Tick, vars, db
<1>5. ASSUME NEW x \in Requests, Commit(x)
      PROVE  \/ CommitNothing(x) \/ CommitRedeem(x) \/ CommitRotate(x)
             \/ CommitSlide(x) \/ CommitRevoke(x)
  BY <1>5 DEF Commit
<1> QED
  BY <1>1, <1>2, <1>3, <1>4, <1>5 DEF Next, Finished

LEMMA OpenedBeforeRedeemedKept ==
  IInv /\ OpenedBeforeRedeemed /\ [Next]_vars => OpenedBeforeRedeemed'
<1> SUFFICES ASSUME IInv, OpenedBeforeRedeemed, [Next]_vars PROVE OpenedBeforeRedeemed'
  OBVIOUS
<1>1. CASE UNCHANGED <<grant, code>>
  BY <1>1 DEF OpenedBeforeRedeemed
<1>2. ASSUME NEW g \in Grants, NEW cl \in Clients, Complete(g, cl)
      PROVE  OpenedBeforeRedeemed'
  BY <1>2 DEF Complete, OpenedBeforeRedeemed, IInv, TypeOK
<1>3. ASSUME NEW x \in Requests, CommitRedeem(x) PROVE OpenedBeforeRedeemed'
  <2>1. tx[x].grant \in Grants /\ grant[tx[x].grant].state # "absent"
    BY <1>3 DEF IInv, Shape, Started, Holding, CommitRedeem, Finish
  <2> QED
    BY <1>3, <2>1 DEF CommitRedeem, CodeConsumed, OpenedBeforeRedeemed, IInv, TypeOK, CodeState
<1>4. ASSUME NEW x \in Requests, CommitRevoke(x) PROVE OpenedBeforeRedeemed'
  BY <1>4 DEF CommitRevoke, OpenedBeforeRedeemed, IInv, TypeOK, GrantState
<1> QED
  BY <1>1, <1>2, <1>3, <1>4, StepKinds DEF CommitRotate, CommitSlide

(* A step that leaves these alone is a stuttering step of the contract. *)
LEMMA SameView ==
  ASSUME \A g \in Grants : grant'[g].state = grant[g].state,
         \A g \in Grants : code'[g].consumed = code[g].consumed,
         \A g \in Grants : Usable(g)' = Usable(g), outbox' = outbox
  PROVE  UNCHANGED Contract!vars
<1>1. [g \in Grants |-> grant'[g].state] = [g \in Grants |-> grant[g].state]
  OBVIOUS
<1>2. {g \in Grants : code'[g].consumed} = {g \in Grants : code[g].consumed}
  OBVIOUS
<1>3. [g \in Grants |-> Usable(g)'] = [g \in Grants |-> Usable(g)]
  OBVIOUS
<1> QED
  BY <1>1, <1>2, <1>3 DEF Contract!vars, Usable

(* Which rows make a grant's usable tokens. *)
LEMMA UsableOf ==
  /\ \A g \in Grants : Revoked(g) => Usable(g) = {}
  /\ \A g \in Grants : ~Revoked(g) =>
       Usable(g) = {t \in Requests : token[t].exists /\ token[t].grant = g /\ ~token[t].revoked}
BY DEF Usable, LiveTokens

LEMMA CompleteOpens ==
  ASSUME IInv, OpenedBeforeRedeemed, NEW g \in Grants, NEW cl \in Clients, Complete(g, cl)
  PROVE  Contract!Open(g)
<1>1. /\ grant \in [Grants -> GrantState] /\ code \in [Grants -> CodeState]
      /\ grant[g].state = "absent" /\ ~code[g].consumed /\ token' = token /\ outbox' = outbox
  BY DEF IInv, TypeOK, Complete, OpenedBeforeRedeemed
<1>2. /\ \A h \in Grants : grant'[h].state = IF h = g THEN "active" ELSE grant[h].state
      /\ \A h \in Grants : code'[h].consumed = code[h].consumed
  BY <1>1 DEF Complete, GrantState, CodeState
<1>3. \A h \in Grants : Usable(h)' = Usable(h)
  BY <1>1, <1>2 DEF Usable, LiveTokens, Revoked
<1>4. [h \in Grants |-> grant'[h].state]
        = [[h \in Grants |-> grant[h].state] EXCEPT ![g] = "active"]
  BY <1>2
<1>5. {h \in Grants : code'[h].consumed} = {h \in Grants : code[h].consumed}
  BY <1>2
<1>6. [h \in Grants |-> Usable(h)'] = [h \in Grants |-> Usable(h)]
  BY <1>3
<1> QED
  BY <1>1, <1>4, <1>5, <1>6 DEF Contract!Open, Usable

LEMMA CommitRedeems ==
  ASSUME IInv, NEW x \in Requests, CommitRedeem(x)
  PROVE  Contract!Redeem(tx[x].grant, x)
<1> DEFINE g == tx[x].grant
<1>1. /\ g \in Grants /\ grant[g].state # "absent" /\ ~code[g].consumed /\ ~token[x].exists
      /\ grant' = grant /\ outbox' = outbox
  BY FinishFacts DEF IInv, Shape, Knows, Started, Holding, CommitRedeem, Finish
<1>2. grant[g].state \in {"active", "revoked"}
  BY <1>1 DEF IInv, TypeOK, GrantState
<1>3. \A h \in Grants : code'[h].consumed = (code[h].consumed \/ h = g)
  BY <1>1 DEF CommitRedeem, CodeConsumed, IInv, TypeOK, CodeState
<1>4. /\ token'[x] = NewToken(x) /\ \A t \in Requests \ {x} : token'[t] = token[t]
      /\ NewToken(x).exists /\ ~NewToken(x).revoked /\ NewToken(x).grant = g
  BY DEF CommitRedeem, NewToken, IInv, TypeOK
<1> HIDE DEF g
<1>5. \A h \in Grants : LiveTokens(h)' = IF h = g THEN LiveTokens(h) \cup {x} ELSE LiveTokens(h)
  BY <1>1, <1>4 DEF LiveTokens
<1>6. {h \in Grants : code'[h].consumed} = {h \in Grants : code[h].consumed} \cup {g}
  BY <1>1, <1>3
<1>7. [h \in Grants |-> grant'[h].state] = [h \in Grants |-> grant[h].state]
  BY <1>1
<1>8. CASE grant[g].state = "active"
  <2>1. [h \in Grants |-> Usable(h)']
          = [[h \in Grants |-> Usable(h)] EXCEPT ![g] = @ \cup {x}]
    BY <1>1, <1>5, <1>8 DEF Usable, Revoked
  <2> QED
    BY <1>1, <1>6, <1>7, <1>8, <2>1 DEF Contract!Redeem, Usable, g
<1>9. CASE grant[g].state = "revoked"
  <2>1. [h \in Grants |-> Usable(h)'] = [h \in Grants |-> Usable(h)]
    BY <1>1, <1>5, <1>9 DEF Usable, Revoked
  <2> QED
    BY <1>1, <1>6, <1>7, <1>9, <2>1 DEF Contract!Redeem, Usable, g
<1> QED
  BY <1>2, <1>8, <1>9

LEMMA CommitRotates ==
  ASSUME IInv, NEW x \in Requests, CommitRotate(x)
  PROVE  Contract!Rotate(tx[x].grant, tx[x].cred, x) \/ UNCHANGED Contract!vars
<1> DEFINE g == tx[x].grant
           c == tx[x].cred
<1>1. /\ g \in Grants /\ c \in Requests \ {x} /\ token[c].exists /\ token[c].grant = g
      /\ ~token[x].exists /\ grant' = grant /\ code' = code /\ outbox' = outbox
  BY FinishFacts DEF IInv, Shape, Started, Holding, CommitRotate, Finish
<1>2. /\ token'[x] = NewToken(x) /\ \A t \in Requests \ {x, c} : token'[t] = token[t]
      /\ NewToken(x).exists /\ ~NewToken(x).revoked /\ NewToken(x).grant = g
  BY <1>1 DEF CommitRotate, NewToken, IInv, TypeOK
<1>3. token'[c] = [token[c] EXCEPT !.rotated = RotatedAt(c, tx[x].began)]
  BY <1>1 DEF CommitRotate, IInv, TypeOK
<1>4. /\ token'[c].exists = token[c].exists /\ token'[c].revoked = token[c].revoked
      /\ token'[c].grant = token[c].grant
  BY <1>1, <1>3 DEF IInv, TypeOK, TokenState
<1> HIDE DEF g, c
<1>5. \A h \in Grants : LiveTokens(h)' = IF h = g THEN LiveTokens(h) \cup {x} ELSE LiveTokens(h)
  BY <1>1, <1>2, <1>4 DEF LiveTokens
<1>6. CASE Revoked(g)
  <2>1. \A h \in Grants : Usable(h)' = Usable(h)
    BY <1>1, <1>5, <1>6 DEF Usable, Revoked
  <2> QED
    BY <1>1, <2>1, SameView
<1>7. CASE ~Revoked(g)
  <2>1. [h \in Grants |-> Usable(h)']
          = [[h \in Grants |-> Usable(h)] EXCEPT ![g] = @ \cup {x}]
    BY <1>1, <1>5, <1>7 DEF Usable, Revoked
  <2>2. c \in Usable(g)
    BY <1>1, <1>7 DEF IInv, Ledger, Usable, LiveTokens
  <2>3. [h \in Grants |-> grant'[h].state] = [h \in Grants |-> grant[h].state]
    BY <1>1
  <2>4. {h \in Grants : code'[h].consumed} = {h \in Grants : code[h].consumed}
    BY <1>1
  <2> QED
    BY <1>1, <2>1, <2>2, <2>3, <2>4 DEF Contract!Rotate, Usable, g, c
<1> QED
  BY <1>6, <1>7

LEMMA CommitSlideStutters ==
  ASSUME IInv, NEW x \in Requests, CommitSlide(x)
  PROVE  UNCHANGED Contract!vars
<1>1. grant' = grant /\ code' = code /\ outbox' = outbox
  BY DEF CommitSlide
<1>2. tx[x].cred \in Requests
  BY DEF IInv, Shape, Started, Holding, CommitSlide, Finish
<1>3. token' = [token EXCEPT ![tx[x].cred] = [@ EXCEPT !.expires = tx[x].began + ConfidentialTTL]]
  BY DEF CommitSlide
<1>4. \A t \in Requests : /\ token'[t].exists = token[t].exists
                          /\ token'[t].grant = token[t].grant
                          /\ token'[t].revoked = token[t].revoked
  BY <1>2, <1>3 DEF IInv, TypeOK, TokenState
<1>5. \A g \in Grants : Usable(g)' = Usable(g)
  BY <1>1, <1>4 DEF Usable, LiveTokens, Revoked
<1> QED
  BY <1>1, <1>5, SameView

LEMMA CommitRevokes ==
  ASSUME IInv, NEW x \in Requests, CommitRevoke(x)
  PROVE  Contract!Revoke(tx[x].grant)
<1> DEFINE g == tx[x].grant
<1>1. g \in Grants /\ grant[g].state = "active" /\ code' = code
  BY DEF IInv, Shape, Knows, Started, Holding, CommitRevoke, Finish, Revoked, TypeOK, GrantState
<1>2. outbox \in [Grants -> Nat] /\ outbox' = [outbox EXCEPT ![g] = @ + 1]
  BY DEF IInv, TypeOK, CommitRevoke
<1>3. \A h \in Grants : grant'[h].state = IF h = g THEN "revoked" ELSE grant[h].state
  BY <1>1 DEF IInv, TypeOK, GrantState, CommitRevoke
<1>4. \A t \in Requests : token'[t].exists = token[t].exists /\ token'[t].grant = token[t].grant
  BY DEF IInv, TypeOK, TokenState, CommitRevoke
<1>5. \A t \in Requests : token[t].grant # g => token'[t].revoked = token[t].revoked
  BY DEF IInv, TypeOK, TokenState, CommitRevoke
<1> HIDE DEF g
<1>6. \A h \in Grants \ {g} : LiveTokens(h)' = LiveTokens(h)
  BY <1>4, <1>5 DEF LiveTokens
<1>7. [h \in Grants |-> Usable(h)'] = [[h \in Grants |-> Usable(h)] EXCEPT ![g] = {}]
  BY <1>1, <1>3, <1>6 DEF Usable, Revoked
<1>8. [h \in Grants |-> grant'[h].state]
        = [[h \in Grants |-> grant[h].state] EXCEPT ![g] = "revoked"]
  BY <1>3
<1> QED
  BY <1>1, <1>2, <1>7, <1>8 DEF Contract!Revoke, Usable, g

LEMMA InitContract == Init => Contract!Init /\ OpenedBeforeRedeemed
BY ConstantsAssumption DEF Init, NoToken, Contract!Init, OpenedBeforeRedeemed, LiveTokens, Revoked

LEMMA StepContract ==
  IInv /\ OpenedBeforeRedeemed /\ [Next]_vars => [Contract!Next]_(Contract!vars)
<1> SUFFICES ASSUME IInv, OpenedBeforeRedeemed, [Next]_vars
             PROVE  Contract!Next \/ UNCHANGED Contract!vars
  OBVIOUS
<1>1. CASE UNCHANGED <<grant, code, token, outbox>>
  BY <1>1, SameView DEF Usable, LiveTokens, Revoked
<1>2. ASSUME NEW g \in Grants, NEW cl \in Clients, Complete(g, cl) PROVE Contract!Next
  BY <1>2, CompleteOpens DEF Contract!Next
<1>3. ASSUME NEW x \in Requests,
             \/ CommitRedeem(x) \/ CommitRotate(x) \/ CommitSlide(x) \/ CommitRevoke(x)
      PROVE  Contract!Next \/ UNCHANGED Contract!vars
  <2>1. /\ tx[x].grant \in Grants
        /\ CommitRotate(x) => tx[x].cred \in Requests
    BY <1>3 DEF IInv, Shape, Started, Holding, CommitRedeem, CommitRotate, CommitSlide,
       CommitRevoke, Finish
  <2>2. CASE CommitRedeem(x)
    BY <2>1, <2>2, CommitRedeems DEF Contract!Next
  <2>3. CASE CommitRotate(x)
    BY <2>1, <2>3, CommitRotates DEF Contract!Next
  <2>4. CASE CommitSlide(x)
    BY <2>4, CommitSlideStutters
  <2>5. CASE CommitRevoke(x)
    <3>1. Contract!Revoke(tx[x].grant)
      BY <2>5, CommitRevokes
    <3> QED
      BY <2>1, <3>1 DEF Contract!Next, Contract!Revoke
  <2> QED
    BY <1>3, <2>2, <2>3, <2>4, <2>5
<1> QED
  BY <1>1, <1>2, <1>3, StepKinds

(* Every behaviour of the endpoint is a behaviour of the contract: however *)
(* transactions interleave, block, deadlock or are lost, each commit is    *)
(* one atomic step of GrantContract or changes nothing it can see.         *)
THEOREM Refinement == Spec => ImplementsContract
<1>1. Init => IInv /\ Contract!Init /\ OpenedBeforeRedeemed
  BY InitIInv, InitContract
<1>2. IInv /\ OpenedBeforeRedeemed /\ [Next]_vars => IInv' /\ OpenedBeforeRedeemed'
  BY StepNext, OpenedBeforeRedeemedKept
<1> QED
  BY <1>1, <1>2, StepContract, PTL DEF Spec, ImplementsContract, Contract!Spec

=============================================================================
