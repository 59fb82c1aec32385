----------------------------- MODULE OutboxProofs -----------------------------
(***************************************************************************)
(* Proofs about Outbox, for any numbers of events and relays, any batch    *)
(* limit, duplicate window and number of faults.                           *)
(***************************************************************************)
EXTENDS Outbox, TLAPS

(* Relays hold different rows, all of them still queued. *)
Holds ==
  /\ \A r \in Relays : \A e \in relay[r].batch : row[e] = "queued"
  /\ \A r, q \in Relays : r # q => relay[r].batch \cap relay[q].batch = {}

(* What the position of a relay says about its batch. *)
Place ==
  \A r \in Relays :
    /\ relay[r].todo \subseteq relay[r].batch
    /\ relay[r].pc \in {"down", "create", "poll", "sleep"} => relay[r].batch = {}
    /\ relay[r].pc = "acked" => relay[r].todo = {}
    /\ \A e \in relay[r].batch \ relay[r].todo : copies[e] > 0

(* A message exists only for a committed row, and a committed row only for *)
(* a committed change.                                                     *)
Provenance ==
  \A e \in Events :
    /\ row[e] # "none" => change[e].state = "committed"
    /\ copies[e] > 0 \/ stray[e] > 0 => row[e] # "none"

OInv == TypeOK /\ Holds /\ Place /\ Provenance /\ MarkedIsStored

-----------------------------------------------------------------------------

LEMMA InitOInv == Init => OInv
<1> SUFFICES ASSUME Init PROVE OInv
  OBVIOUS
<1>1. relay \in [Relays -> RelayState]
  BY DEF Init, Idle, RelayState
<1>2. \A r \in Relays : relay[r].pc = "create" /\ relay[r].batch = {} /\ relay[r].todo = {}
  BY DEF Init, Idle
<1>3. TypeOK
  <2>1. now \in 0..MaxTime /\ faults \in 0..MaxFaults
    BY OutboxAssumption DEF Init
  <2>2. change \in [Events -> ChangeState] /\ row \in [Events -> {"none", "queued", "published"}]
    BY DEF Init, ChangeState
  <2>3. /\ made \in BOOLEAN
        /\ copies \in [Events -> Nat] /\ seen \in [Events -> Nat] /\ stray \in [Events -> Nat]
    BY DEF Init
  <2> QED
    BY <1>1, <1>2, <2>1, <2>2, <2>3 DEF TypeOK
<1>4. Holds /\ Place
  BY <1>2 DEF Holds, Place
<1>5. Provenance /\ MarkedIsStored
  BY DEF Init, Provenance, MarkedIsStored
<1> QED
  BY <1>3, <1>4, <1>5 DEF OInv

(* The stream only grows, and only by the event that arrives. *)
LEMMA StoreGrows ==
  ASSUME TypeOK, NEW e \in Events, Store(e)
  PROVE  /\ copies' \in [Events -> Nat] /\ seen' \in [Events -> Nat]
         /\ copies'[e] > 0
         /\ \A f \in Events : copies[f] > 0 => copies'[f] > 0
         /\ \A f \in Events \ {e} : copies'[f] = copies[f]
BY DEF TypeOK, Store

(* Steps that leave the relays and the rows alone. *)
LEMMA ChangeKeeps ==
  ASSUME OInv, NEW e \in Events, Change(e)
  PROVE  OInv'
<1>1. CASE BeginChange(e)
  BY <1>1 DEF BeginChange, OInv, TypeOK, ChangeState, Holds, Place, Provenance, MarkedIsStored,
     stream
<1>2. CASE CommitChange(e)
  <2>1. row[e] = "none"
    BY <1>2 DEF CommitChange, OInv, TypeOK, Provenance
  <2> QED
    BY <1>2, <2>1 DEF CommitChange, OInv, TypeOK, ChangeState, Holds, Place, Provenance,
       MarkedIsStored, RelayState, stream
<1>3. CASE AbortChange(e)
  BY <1>3 DEF AbortChange, OInv, TypeOK, ChangeState, Holds, Place, Provenance, MarkedIsStored,
     stream
<1> QED
  BY <1>1, <1>2, <1>3 DEF Change

(* A relay that lets its batch go. *)
LEMMA IdleKeeps ==
  ASSUME OInv, NEW r \in Relays, NEW pc \in {"down", "create", "poll", "sleep"},
         Move(r, Idle(pc)), UNCHANGED <<change, row, stray, copies>>,
         now' \in 0..MaxTime, made' \in BOOLEAN, seen' \in [Events -> Nat],
         faults' \in 0..MaxFaults
  PROVE  OInv'
<1>1. Idle(pc) \in RelayState /\ Idle(pc).batch = {} /\ Idle(pc).todo = {} /\ Idle(pc).pc = pc
  BY DEF Idle, RelayState
<1>2. /\ relay' \in [Relays -> RelayState] /\ relay'[r] = Idle(pc)
      /\ \A q \in Relays \ {r} : relay'[q] = relay[q]
  BY <1>1 DEF Move, OInv, TypeOK
<1>3. TypeOK'
  BY <1>1, <1>2 DEF OInv, TypeOK
<1>4. Holds' /\ Place'
  BY <1>1, <1>2 DEF OInv, Holds, Place
<1> QED
  BY <1>3, <1>4 DEF OInv, Provenance, MarkedIsStored

LEMMA SelectKeeps ==
  ASSUME OInv, NEW r \in Relays, Select(r)
  PROVE  OInv'
<1>1. PICK batch \in SUBSET Selectable(r) :
        Move(r, IF batch = {} THEN Idle("sleep")
                              ELSE [pc |-> "publish", batch |-> batch, todo |-> batch])
  BY DEF Select
<1>2. UNCHANGED <<now, change, row, made, copies, seen, stray, faults>>
  BY DEF Select, stream
<1>3. CASE batch = {}
  BY <1>1, <1>2, <1>3, IdleKeeps DEF OInv, TypeOK
<1>4. CASE batch # {}
  <2> DEFINE s == [pc |-> "publish", batch |-> batch, todo |-> batch]
  <2>1. batch \subseteq Events /\ \A e \in batch : row[e] = "queued"
    BY DEF Selectable, Queued
  <2>2. \A q \in Relays \ {r} : batch \cap relay[q].batch = {}
    BY DEF Selectable
  <2>3. /\ relay' \in [Relays -> RelayState] /\ relay'[r] = s
        /\ \A q \in Relays \ {r} : relay'[q] = relay[q]
    BY <1>1, <1>4, <2>1 DEF Move, OInv, TypeOK, RelayState
  <2>4. TypeOK'
    BY <1>2, <1>4, <2>3 DEF OInv, TypeOK
  <2>5. Holds'
    BY <1>2, <2>1, <2>2, <2>3 DEF OInv, Holds
  <2>6. Place'
    BY <1>2, <2>3 DEF OInv, Place
  <2> QED
    BY <1>2, <2>4, <2>5, <2>6 DEF OInv, Provenance, MarkedIsStored
<1> QED
  BY <1>3, <1>4

LEMMA SendKeeps ==
  ASSUME OInv, NEW r \in Relays, Send(r)
  PROVE  OInv'
<1>1. /\ relay' = [relay EXCEPT ![r] = [relay[r] EXCEPT !.pc = "sent"]]
      /\ relay[r].pc = "publish" /\ UNCHANGED <<now, change, row, made, copies, seen, stray, faults>>
  BY DEF Send, Move, stream
<1>2. [relay[r] EXCEPT !.pc = "sent"] \in RelayState
  BY DEF OInv, TypeOK, RelayState
<1>3. /\ relay' \in [Relays -> RelayState]
      /\ relay'[r].pc = "sent" /\ relay'[r].batch = relay[r].batch /\ relay'[r].todo = relay[r].todo
      /\ \A q \in Relays \ {r} : relay'[q] = relay[q]
  BY <1>1, <1>2 DEF OInv, TypeOK, RelayState
<1>4. TypeOK'
  BY <1>1, <1>3 DEF OInv, TypeOK
<1>5. Holds' /\ Place'
  BY <1>1, <1>3 DEF OInv, Holds, Place
<1> QED
  BY <1>1, <1>4, <1>5 DEF OInv, Provenance, MarkedIsStored

LEMMA AcknowledgeKeeps ==
  ASSUME OInv, NEW r \in Relays, Acknowledge(r)
  PROVE  OInv'
<1>1. PICK e \in relay[r].todo :
        /\ Store(e)
        /\ Move(r, [relay[r] EXCEPT !.pc = IF relay[r].todo = {e} THEN "acked" ELSE "publish",
                                    !.todo = @ \ {e}])
  BY DEF Acknowledge
<1> DEFINE pc == IF relay[r].todo = {e} THEN "acked" ELSE "publish"
<1>2. UNCHANGED <<now, change, row, made, stray, faults>>
  BY DEF Acknowledge
<1>3. e \in Events /\ e \in relay[r].batch /\ relay[r] \in RelayState
  BY DEF OInv, TypeOK, RelayState, Place
<1>4. /\ relay' \in [Relays -> RelayState]
      /\ relay'[r].pc = pc /\ relay'[r].batch = relay[r].batch
      /\ relay'[r].todo = relay[r].todo \ {e}
      /\ \A q \in Relays \ {r} : relay'[q] = relay[q]
  BY <1>1, <1>3 DEF Move, OInv, TypeOK, RelayState
<1>5. TypeOK'
  BY <1>1, <1>2, <1>3, <1>4, StoreGrows DEF OInv, TypeOK
<1>6. Holds'
  BY <1>2, <1>4 DEF OInv, Holds
<1>7. Place'
  <2>1. \A q \in Relays \ {r} : \A f \in relay[q].batch \ relay[q].todo : copies'[f] > 0
    BY <1>1, <1>3, StoreGrows DEF OInv, TypeOK, Place, RelayState
  <2>2. \A f \in relay'[r].batch \ relay'[r].todo : copies'[f] > 0
    BY <1>1, <1>3, <1>4, StoreGrows DEF OInv, TypeOK, Place, RelayState
  <2> QED
    BY <1>4, <2>1, <2>2 DEF OInv, Place
<1>8. Provenance'
  BY <1>1, <1>2, <1>3, StoreGrows DEF OInv, Provenance, Holds
<1>9. MarkedIsStored'
  BY <1>1, <1>2, <1>3, StoreGrows DEF OInv, MarkedIsStored
<1> QED
  BY <1>5, <1>6, <1>7, <1>8, <1>9 DEF OInv

LEMMA CommitBatchKeeps ==
  ASSUME OInv, NEW r \in Relays, CommitBatch(r)
  PROVE  OInv'
<1>1. PICK pc \in {"poll", "sleep"} : Move(r, Idle(pc))
  BY DEF CommitBatch
<1>2. /\ row' = Marked(r) /\ UNCHANGED <<now, change, made, copies, seen, stray, faults>>
      /\ \A e \in relay[r].batch : copies[e] > 0
  BY DEF CommitBatch, stream, OInv, Place
<1>3. Idle(pc) \in RelayState /\ Idle(pc).batch = {} /\ Idle(pc).todo = {} /\ Idle(pc).pc = pc
  BY DEF Idle, RelayState
<1>4. /\ relay' \in [Relays -> RelayState] /\ relay'[r] = Idle(pc)
      /\ \A q \in Relays \ {r} : relay'[q] = relay[q]
  BY <1>1, <1>3 DEF Move, OInv, TypeOK
<1>5. \A e \in Events : row'[e] = IF e \in relay[r].batch THEN "published" ELSE row[e]
  BY <1>2 DEF Marked
<1>6. TypeOK'
  BY <1>2, <1>3, <1>4 DEF OInv, TypeOK, Marked
<1>7. Holds'
  BY <1>3, <1>4, <1>5 DEF OInv, TypeOK, RelayState, Holds
<1>8. Place'
  BY <1>2, <1>3, <1>4 DEF OInv, Place
<1>9. Provenance' /\ MarkedIsStored'
  BY <1>2, <1>5 DEF OInv, TypeOK, RelayState, Holds, Provenance, MarkedIsStored
<1> QED
  BY <1>6, <1>7, <1>8, <1>9 DEF OInv

LEMMA AbandonKeeps ==
  ASSUME OInv, NEW r \in Relays, NEW pc \in {"down", "sleep"}, Fault, Abandon(r, pc)
  PROVE  OInv'
<1>1. Move(r, Idle(pc)) /\ UNCHANGED <<now, change, row>> /\ faults' \in 0..MaxFaults
  BY OutboxAssumption DEF Abandon, Fault, OInv, TypeOK
<1>2. CASE UNCHANGED stream
  BY <1>1, <1>2, IdleKeeps DEF stream, OInv, TypeOK
<1>3. ASSUME NEW e \in relay[r].todo, stray' = [stray EXCEPT ![e] = @ + 1],
             UNCHANGED <<made, copies, seen>>
      PROVE  OInv'
  <2>1. Idle(pc) \in RelayState /\ Idle(pc).batch = {} /\ Idle(pc).todo = {} /\ Idle(pc).pc = pc
    BY DEF Idle, RelayState
  <2>2. /\ relay' \in [Relays -> RelayState] /\ relay'[r] = Idle(pc)
        /\ \A q \in Relays \ {r} : relay'[q] = relay[q]
    BY <1>1, <2>1 DEF Move, OInv, TypeOK
  <2>3. e \in Events /\ row[e] = "queued"
    BY DEF OInv, TypeOK, RelayState, Place, Holds
  <2>4. TypeOK'
    BY <1>1, <1>3, <2>1, <2>2, <2>3 DEF OInv, TypeOK
  <2>5. Holds' /\ Place'
    BY <1>1, <1>3, <2>1, <2>2 DEF OInv, Holds, Place
  <2> QED
    BY <1>1, <1>3, <2>3, <2>4, <2>5 DEF OInv, TypeOK, Provenance, MarkedIsStored
<1>4. ASSUME NEW e \in relay[r].todo, Store(e), UNCHANGED <<made, stray>> PROVE OInv'
  <2>1. Idle(pc) \in RelayState /\ Idle(pc).batch = {} /\ Idle(pc).todo = {} /\ Idle(pc).pc = pc
    BY DEF Idle, RelayState
  <2>2. /\ relay' \in [Relays -> RelayState] /\ relay'[r] = Idle(pc)
        /\ \A q \in Relays \ {r} : relay'[q] = relay[q]
    BY <1>1, <2>1 DEF Move, OInv, TypeOK
  <2>3. e \in Events /\ row[e] = "queued"
    BY DEF OInv, TypeOK, RelayState, Place, Holds
  <2>4. TypeOK'
    BY <1>1, <1>4, <2>1, <2>2, <2>3, StoreGrows DEF OInv, TypeOK
  <2>5. Holds'
    BY <1>1, <2>1, <2>2 DEF OInv, Holds
  <2>6. Place'
    BY <1>4, <2>1, <2>2, <2>3, StoreGrows DEF OInv, TypeOK, RelayState, Place
  <2> QED
    BY <1>1, <1>4, <2>3, <2>4, <2>5, <2>6, StoreGrows DEF OInv, Provenance, MarkedIsStored
<1> QED
  BY <1>2, <1>3, <1>4 DEF Abandon

LEMMA StrayKeeps ==
  ASSUME OInv, NEW e \in Events, StrayArrives(e)
  PROVE  OInv'
<1>1. /\ Store(e) /\ row[e] # "none" /\ UNCHANGED <<now, change, row, relay, made, faults>>
      /\ stray' = [stray EXCEPT ![e] = @ - 1] /\ stray[e] > 0
  BY DEF StrayArrives, OInv, Provenance
<1>2. stray' \in [Events -> Nat] /\ \A f \in Events : stray'[f] > 0 => stray[f] > 0
  BY <1>1 DEF OInv, TypeOK
<1>3. TypeOK'
  BY <1>1, <1>2, StoreGrows DEF OInv, TypeOK
<1>4. Holds' /\ Place'
  BY <1>1, StoreGrows DEF OInv, TypeOK, RelayState, Holds, Place
<1> QED
  BY <1>1, <1>2, <1>3, <1>4, StoreGrows DEF OInv, Provenance, MarkedIsStored

LEMMA StepOInv == OInv /\ [Next]_vars => OInv'
<1> SUFFICES ASSUME OInv, [Next]_vars PROVE OInv'
  OBVIOUS
<1>1. ASSUME NEW r \in Relays, RelayStep(r) PROVE OInv'
  <2>1. CASE CreateStream(r)
    BY <2>1, IdleKeeps DEF CreateStream, OInv, TypeOK
  <2>2. CASE Wake(r)
    BY <2>2, IdleKeeps DEF Wake, stream, OInv, TypeOK
  <2>3. CASE NoStream(r)
    BY <2>3, IdleKeeps DEF NoStream, stream, OInv, TypeOK
  <2>4. CASE Restart(r)
    BY <2>4, IdleKeeps DEF Restart, stream, OInv, TypeOK
  <2> QED
    BY <1>1, <2>1, <2>2, <2>3, <2>4, SelectKeeps, SendKeeps, AcknowledgeKeeps, CommitBatchKeeps
    DEF RelayStep
<1>2. ASSUME NEW r \in Relays, FaultOf(r) PROVE OInv'
  <2>1. CASE CreateFails(r)
    <3>1. faults' \in 0..MaxFaults
      BY <2>1, OutboxAssumption DEF CreateFails, Fault, OInv, TypeOK
    <3> QED
      BY <2>1, <3>1, IdleKeeps DEF CreateFails, stream, OInv, TypeOK
  <2> QED
    BY <1>2, <2>1, AbandonKeeps DEF FaultOf, BatchFails, Crash
<1>3. CASE Tick
  <2>1. now' \in 0..MaxTime
    BY <1>3, OutboxAssumption DEF Tick, OInv, TypeOK
  <2> QED
    BY <1>3, <2>1 DEF Tick, stream, OInv, TypeOK, Holds, Place, Provenance, MarkedIsStored
<1>4. CASE UNCHANGED vars
  BY <1>4 DEF vars, OInv, TypeOK, Holds, Place, Provenance, MarkedIsStored
<1> QED
  BY <1>1, <1>2, <1>3, <1>4, ChangeKeeps, StrayKeeps DEF Next

(* The invariant of the outbox holds in every reachable state. *)
THEOREM OutboxInvariant == Spec => []OInv
BY InitOInv, StepOInv, PTL DEF Spec

(* Rows, relays and the stream keep their types. *)
THEOREM OutboxTypes == Spec => []TypeOK
<1>1. OInv => TypeOK
  BY DEF OInv
<1> QED
  BY <1>1, OutboxInvariant, PTL

(* An event that is marked published is in the stream. *)
THEOREM MarkedEventsAreStored == Spec => []MarkedIsStored
<1>1. OInv => MarkedIsStored
  BY DEF OInv
<1> QED
  BY <1>1, OutboxInvariant, PTL

(* No relay sends an event that is marked published. *)
THEOREM MarkedEventsAreNotSent == Spec => NeverSentAgain
<1>1. OInv => \A r \in Relays, e \in Events :
        Send(r) /\ First(relay[r].todo, e) => row[e] = "queued"
  BY DEF OInv, Holds, Place, First
<1>2. OInv /\ [Next]_vars =>
        [\A r \in Relays, e \in Events :
           Send(r) /\ First(relay[r].todo, e) => row[e] = "queued"]_vars
  BY <1>1
<1> QED
  BY <1>2, OutboxInvariant, PTL DEF Spec, NeverSentAgain

-----------------------------------------------------------------------------
(***************************************************************************)
(* Outbox implements EventLog.                                             *)
(***************************************************************************)

Committed == {e \in Events : change[e].state = "committed"}
Delivered == {e \in Events : copies[e] > 0}
Settled == {e \in Events : row[e] = "published"}

(* Storing a message is a Deliver or, for a copy of it, changes nothing. *)
LEMMA StoreDelivers ==
  ASSUME OInv, NEW e \in Events, Store(e), row[e] # "none", UNCHANGED <<change, row>>
  PROVE  Log!Deliver(e)
<1>1. e \in Committed /\ Committed' = Committed /\ Settled' = Settled
  BY DEF OInv, Provenance, Committed, Settled
<1>2. Delivered' = Delivered \cup {e}
  BY StoreGrows DEF OInv, Delivered
<1> QED
  BY <1>1, <1>2 DEF Log!Deliver, Committed, Delivered, Settled

LEMMA StepLog == OInv /\ [Next]_vars => [Log!Next]_(Log!vars)
<1> SUFFICES ASSUME OInv, [Next]_vars PROVE Log!Next \/ UNCHANGED Log!vars
  OBVIOUS
<1>1. CASE UNCHANGED <<change, row, copies>>
  BY <1>1 DEF Log!vars
<1>2. ASSUME NEW e \in Events, Change(e) PROVE Log!Next \/ UNCHANGED Log!vars
  <2>1. CASE CommitChange(e)
    <3>1. /\ e \notin Committed /\ Committed' = Committed \cup {e}
          /\ Delivered' = Delivered /\ row[e] = "none"
      BY <2>1 DEF CommitChange, stream, OInv, TypeOK, Provenance, Committed, Delivered
    <3>2. Settled' = Settled
      BY <2>1, <3>1 DEF CommitChange, OInv, TypeOK, Settled
    <3>3. Log!Commit(e)
      BY <3>1, <3>2 DEF Log!Commit, Committed, Delivered, Settled
    <3> QED
      BY <3>3 DEF Log!Next
  <2>2. CASE BeginChange(e) \/ AbortChange(e)
    <3>1. change \in [Events -> ChangeState]
      BY DEF OInv, TypeOK
    <3>2. \A f \in Events : change'[f].state = "committed" <=> change[f].state = "committed"
      <4>1. CASE BeginChange(e)
        BY <3>1, <4>1 DEF BeginChange, ChangeState
      <4>2. CASE AbortChange(e)
        BY <3>1, <4>2 DEF AbortChange, ChangeState
      <4> QED
        BY <2>2, <4>1, <4>2
    <3>3. row' = row /\ copies' = copies
      BY <2>2 DEF BeginChange, AbortChange, stream
    <3> QED
      BY <3>2, <3>3 DEF Log!vars
  <2> QED
    BY <1>2, <2>1, <2>2 DEF Change
<1>3. ASSUME NEW e \in Events, Store(e), row[e] # "none", UNCHANGED <<change, row>>
      PROVE  Log!Next
  BY <1>3, StoreDelivers DEF Log!Next
<1>4. ASSUME NEW r \in Relays, CommitBatch(r) PROVE Log!Next
  <2>1. relay[r].batch \subseteq Delivered
    BY <1>4 DEF CommitBatch, OInv, TypeOK, RelayState, Place, Delivered
  <2>2. Settled' = Settled \cup relay[r].batch
    BY <1>4 DEF CommitBatch, Marked, OInv, TypeOK, RelayState, Settled
  <2>3. Committed' = Committed /\ Delivered' = Delivered
    BY <1>4 DEF CommitBatch, stream, Committed, Delivered
  <2>4. Log!Settle(relay[r].batch)
    BY <2>1, <2>2, <2>3 DEF Log!Settle, Committed, Delivered, Settled
  <2>5. relay[r].batch \in SUBSET Events
    BY DEF OInv, TypeOK, RelayState
  <2> QED
    BY <2>4, <2>5 DEF Log!Next, Log!Settle
<1>5. ASSUME NEW r \in Relays, NEW e \in relay[r].todo PROVE e \in Events /\ row[e] # "none"
  BY DEF OInv, TypeOK, RelayState, Place, Holds
<1>6. ASSUME NEW r \in Relays, RelayStep(r) \/ FaultOf(r), ~CommitBatch(r)
      PROVE  \/ UNCHANGED <<change, row, copies>>
             \/ \E e \in relay[r].todo : Store(e) /\ UNCHANGED <<change, row>>
  BY <1>6 DEF RelayStep, FaultOf, CreateStream, Select, Send, Acknowledge, Wake, NoStream, Restart,
     CreateFails, BatchFails, Crash, Abandon, stream
<1>7. ASSUME NEW e \in Events, StrayArrives(e)
      PROVE  Store(e) /\ row[e] # "none" /\ UNCHANGED <<change, row>>
  BY <1>7 DEF StrayArrives, OInv, Provenance
<1>8. Tick \/ UNCHANGED vars => UNCHANGED <<change, row, copies>>
  BY DEF Tick, vars, stream
<1> QED
  BY <1>1, <1>2, <1>3, <1>4, <1>5, <1>6, <1>7, <1>8 DEF Next

(* Only events of committed changes reach the stream, and an event is      *)
(* marked published only after it did: the safety half of the outbox's     *)
(* promise, for every interleaving of relays and faults.                   *)
THEOREM OutboxRefinement == Spec => ImplementsLog
<1>1. Init => Log!Init
  BY DEF Init, Log!Init
<1> QED
  BY <1>1, StepLog, OutboxInvariant, PTL DEF Spec, ImplementsLog, Log!Spec
=============================================================================
