-------------------------------- MODULE Outbox --------------------------------
(***************************************************************************)
(* The transactional outbox of svc-common (outbox.rs: enqueue, spawn_relay *)
(* and relay_batch) with any number of relays, as when two instances of a  *)
(* service overlap.  A relay's transaction locks a batch of unpublished    *)
(* rows, publishes them one by one, waiting for each acknowledgement, and  *)
(* marks them published when it commits.                                   *)
(*                                                                         *)
(* JetStream keeps the Nats-Msg-Id of a message for Window and drops       *)
(* another message with that id; it knows nothing of the relays' commits.  *)
(* A message may still be stored after its relay gave up on it ("stray").  *)
(***************************************************************************)
EXTENDS Integers, FiniteSets

CONSTANTS
  Events,     \* changes, each with its row of outbox
  Relays,     \* processes that run spawn_relay
  Limit,      \* LIMIT of relay_batch
  Window,     \* duplicate window of the stream
  MaxTime,    \* bound on the clock
  MaxFaults   \* bound on the number of faults

ASSUME OutboxAssumption ==
  Limit \in Nat \ {0} /\ Window \in Nat /\ MaxTime \in Nat /\ MaxFaults \in Nat

VARIABLES
  now,     \* the clock
  change,  \* change[e]: the transaction that enqueues e
  row,     \* row[e]: the committed outbox row
  relay,   \* relay[r]: what relay r is doing
  made,    \* does the stream exist
  copies,  \* copies[e]: messages of e in the stream
  seen,    \* seen[e]: when e was last stored
  stray,   \* stray[e]: messages on their way that no relay waits for
  faults   \* faults so far

vars == <<now, change, row, relay, made, copies, seen, stray, faults>>

ChangeState == [state : {"none", "open", "committed", "aborted"}, created : Nat]
RelayState == [pc    : {"down", "create", "poll", "publish", "sent", "acked", "sleep"},
               batch : SUBSET Events,   \* rows its transaction has locked
               todo  : SUBSET Events]   \* rows of the batch that are not acknowledged

Idle(pc) == [pc |-> pc, batch |-> {}, todo |-> {}]

TypeOK ==
  /\ now \in 0..MaxTime
  /\ change \in [Events -> ChangeState]
  /\ row \in [Events -> {"none", "queued", "published"}]
  /\ relay \in [Relays -> RelayState]
  /\ made \in BOOLEAN
  /\ copies \in [Events -> Nat]
  /\ seen \in [Events -> Nat]
  /\ stray \in [Events -> Nat]
  /\ faults \in 0..MaxFaults
  /\ \A r \in Relays : relay[r].pc \in {"publish", "sent"} => relay[r].todo # {}

Init ==
  /\ now = 0
  /\ change = [e \in Events |-> [state |-> "none", created |-> 0]]
  /\ row = [e \in Events |-> "none"]
  /\ relay = [r \in Relays |-> Idle("create")]
  /\ made = FALSE
  /\ copies = [e \in Events |-> 0]
  /\ seen = [e \in Events |-> 0]
  /\ stray = [e \in Events |-> 0]
  /\ faults = 0

stream == <<made, copies, seen, stray>>

-----------------------------------------------------------------------------
(***************************************************************************)
(* The transactions that make a change and enqueue its event.              *)
(***************************************************************************)

(* created_at is now(), the time the transaction began. *)
BeginChange(e) ==
  /\ change[e].state = "none"
  /\ change' = [change EXCEPT ![e] = [state |-> "open", created |-> now]]
  /\ UNCHANGED <<now, row, relay, stream, faults>>

CommitChange(e) ==
  /\ change[e].state = "open"
  /\ change' = [change EXCEPT ![e].state = "committed"]
  /\ row' = [row EXCEPT ![e] = "queued"]
  /\ UNCHANGED <<now, relay, stream, faults>>

AbortChange(e) ==
  /\ change[e].state = "open"
  /\ change' = [change EXCEPT ![e].state = "aborted"]
  /\ UNCHANGED <<now, row, relay, stream, faults>>

-----------------------------------------------------------------------------
(***************************************************************************)
(* The relay.                                                              *)
(***************************************************************************)

Move(r, state) == relay' = [relay EXCEPT ![r] = state]

(* spawn_relay creates the stream, if it is missing, once. *)
CreateStream(r) ==
  /\ relay[r].pc = "create"
  /\ made' = TRUE
  /\ Move(r, Idle("poll"))
  /\ UNCHANGED <<now, change, row, copies, seen, stray, faults>>

Queued == {e \in Events : row[e] = "queued"}

(* Defect: no FOR UPDATE SKIP LOCKED. *)
AllQueued(r) == Queued

(* FOR UPDATE SKIP LOCKED *)
Selectable(r) == Queued \ UNION {relay[q].batch : q \in Relays \ {r}}

(* ORDER BY created_at LIMIT Limit *)
Oldest(batch, rows) ==
  /\ Cardinality(batch) <= Limit
  /\ batch # rows => Cardinality(batch) = Limit
  /\ \A e \in batch, f \in rows \ batch : change[e].created <= change[f].created

(* relay_batch begins.  An empty batch commits, and the relay sleeps. *)
Select(r) ==
  /\ relay[r].pc = "poll"
  /\ \E batch \in SUBSET Selectable(r) :
       /\ Oldest(batch, Selectable(r))
       /\ Move(r, IF batch = {} THEN Idle("sleep")
                                ELSE [pc |-> "publish", batch |-> batch, todo |-> batch])
  /\ UNCHANGED <<now, change, row, stream, faults>>

First(todo, e) == e \in todo /\ \A f \in todo : change[e].created <= change[f].created

(* What the stream does with a message that arrives. *)
Store(e) ==
  IF copies[e] > 0 /\ now - seen[e] < Window
    THEN UNCHANGED <<copies, seen>>
    ELSE /\ copies' = [copies EXCEPT ![e] = @ + 1]
         /\ seen' = [seen EXCEPT ![e] = now]

(* Defect: the acknowledgement is not awaited. *)
SendAndForget(r) ==
  /\ relay[r].pc = "publish"
  /\ made
  /\ \E e \in relay[r].todo :
       /\ First(relay[r].todo, e)
       /\ Move(r, [relay[r] EXCEPT !.pc = IF relay[r].todo = {e} THEN "acked" ELSE "publish",
                                   !.todo = @ \ {e}])
       /\ stray' = [stray EXCEPT ![e] = @ + 1]
  /\ UNCHANGED <<now, change, row, made, copies, seen, faults>>

(* publish_with_headers(...).await sends the message of the first row left *)
Send(r) ==
  /\ relay[r].pc = "publish"
  /\ made
  /\ Move(r, [relay[r] EXCEPT !.pc = "sent"])
  /\ UNCHANGED <<now, change, row, stream, faults>>

(* The message is stored and the acknowledgement, awaited next, arrives:   *)
(* the row's UPDATE follows, and the next row or the commit.               *)
Acknowledge(r) ==
  /\ relay[r].pc = "sent"
  /\ \E e \in relay[r].todo :
       /\ First(relay[r].todo, e)
       /\ Store(e)
       /\ Move(r, [relay[r] EXCEPT !.pc = IF relay[r].todo = {e} THEN "acked" ELSE "publish",
                                   !.todo = @ \ {e}])
  /\ UNCHANGED <<now, change, row, made, stray, faults>>

Marked(r) == [e \in Events |-> IF e \in relay[r].batch THEN "published" ELSE row[e]]

(* Defect: the transaction is dropped without a commit. *)
CommitForgotten(r) ==
  /\ relay[r].pc = "acked"
  /\ Move(r, Idle("poll"))
  /\ UNCHANGED <<now, change, row, stream, faults>>

(* COMMIT.  The relay may still be told of an error and sleep. *)
CommitBatch(r) ==
  /\ relay[r].pc = "acked"
  /\ row' = Marked(r)
  /\ \E pc \in {"poll", "sleep"} : Move(r, Idle(pc))
  /\ UNCHANGED <<now, change, stream, faults>>

Wake(r) ==
  /\ relay[r].pc = "sleep"
  /\ Move(r, Idle("poll"))
  /\ UNCHANGED <<now, change, row, stream, faults>>

(* Without a stream nobody answers the publish: an error, and a sleep. *)
NoStream(r) ==
  /\ relay[r].pc = "publish"
  /\ ~made
  /\ Move(r, Idle("sleep"))
  /\ UNCHANGED <<now, change, row, stream, faults>>

-----------------------------------------------------------------------------
(***************************************************************************)
(* Faults.                                                                 *)
(***************************************************************************)

Fault == faults < MaxFaults /\ faults' = faults + 1

(* spawn_relay only logs that the stream could not be created. *)
CreateFails(r) ==
  /\ relay[r].pc = "create"
  /\ Fault
  /\ Move(r, Idle("poll"))
  /\ UNCHANGED <<now, change, row, stream>>

(* The transaction rolls back; a message that was sent may still arrive,   *)
(* or may have been stored already while its acknowledgement was lost.     *)
Abandon(r, pc) ==
  /\ Move(r, Idle(pc))
  /\ \/ UNCHANGED stream
     \/ /\ relay[r].pc = "sent"
        /\ \E e \in relay[r].todo :
             /\ First(relay[r].todo, e)
             /\ \/ stray' = [stray EXCEPT ![e] = @ + 1] /\ UNCHANGED <<copies, seen>>
                \/ Store(e) /\ UNCHANGED stray
        /\ UNCHANGED made
  /\ UNCHANGED <<now, change, row>>

(* relay_batch returns an error: the database, or no acknowledgement in    *)
(* time.                                                                   *)
BatchFails(r) ==
  /\ relay[r].pc \in {"poll", "publish", "sent", "acked"}
  /\ Fault
  /\ Abandon(r, "sleep")

(* The process stops, at any point. *)
Crash(r) ==
  /\ relay[r].pc # "down"
  /\ Fault
  /\ Abandon(r, "down")

Restart(r) ==
  /\ relay[r].pc = "down"
  /\ Move(r, Idle("create"))
  /\ UNCHANGED <<now, change, row, stream, faults>>

StrayArrives(e) ==
  /\ stray[e] > 0
  /\ made
  /\ Store(e)
  /\ stray' = [stray EXCEPT ![e] = @ - 1]
  /\ UNCHANGED <<now, change, row, relay, made, faults>>

Tick ==
  /\ now < MaxTime
  /\ now' = now + 1
  /\ UNCHANGED <<change, row, relay, stream, faults>>

Change(e) == BeginChange(e) \/ CommitChange(e) \/ AbortChange(e)

RelayStep(r) ==
  \/ CreateStream(r) \/ Select(r) \/ Send(r) \/ Acknowledge(r) \/ CommitBatch(r)
  \/ Wake(r) \/ NoStream(r) \/ Restart(r)

FaultOf(r) == CreateFails(r) \/ BatchFails(r) \/ Crash(r)

Next ==
  \/ \E e \in Events : Change(e) \/ StrayArrives(e)
  \/ \E r \in Relays : RelayStep(r) \/ FaultOf(r)
  \/ Tick

Spec == Init /\ [][Next]_vars

(* tokio runs the relay's loop, JetStream answers, timers fire and Docker  *)
(* restarts the service (restart: unless-stopped); faults are finite.      *)
FairSpec == Spec /\ \A r \in Relays : WF_vars(RelayStep(r))

-----------------------------------------------------------------------------
(***************************************************************************)
(* Properties.                                                             *)
(***************************************************************************)

(* published_at is set only for an event that is in the stream, whichever  *)
(* relays fail, at whatever point, with whatever messages under way.       *)
MarkedIsStored == \A e \in Events : row[e] = "published" => copies[e] > 0

(* No relay sends the event of a row that is marked published, although    *)
(* several relays poll the same rows.                                      *)
NeverSentAgain ==
  [][\A r \in Relays, e \in Events :
       Send(r) /\ First(relay[r].todo, e) => row[e] = "queued"]_vars

(* The comment of the outbox table, "also the Nats-Msg-Id, so JetStream    *)
(* drops duplicates": no event is in the stream twice.                     *)
NoDuplicates == \A e \in Events : copies[e] <= 1

(* The outbox keeps the promises of EventLog. *)
Log == INSTANCE EventLog WITH
  committed <- {e \in Events : change[e].state = "committed"},
  delivered <- {e \in Events : copies[e] > 0},
  settled   <- {e \in Events : row[e] = "published"}

ImplementsLog == Log!Spec

(* Once the stream exists, the event of every committed change is marked   *)
(* published, although relays fail, skip rows and start over.              *)
EventsArrive == \A e \in Events : (row[e] = "queued" /\ made) ~> row[e] = "published"

(* The comment of spawn_relay, "Publishes queued events until the process  *)
(* exits, creating `streams` first if missing": every queued event is      *)
(* published as long as a relay runs.                                      *)
QueuedArePublished ==
  \A e \in Events : row[e] = "queued" ~>
    (row[e] = "published" \/ \A r \in Relays : relay[r].pc = "down")
=============================================================================
