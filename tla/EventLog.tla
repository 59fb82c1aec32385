------------------------------- MODULE EventLog -------------------------------
(***************************************************************************)
(* What the transactional outbox promises ("A service must never commit a  *)
(* change and then fail to publish its event, or publish an event for a    *)
(* change that rolled back", docs/DATABASE.md), without rows, relays or    *)
(* acknowledgements: the event of a committed change reaches the stream,   *)
(* at least once, and only then counts as published.  Outbox implements    *)
(* this module.                                                            *)
(***************************************************************************)

CONSTANT Events   \* changes, each with its event

VARIABLES
  committed,  \* changes that committed
  delivered,  \* events in the stream
  settled     \* events that are marked published

vars == <<committed, delivered, settled>>

Init ==
  /\ committed = {}
  /\ delivered = {}
  /\ settled = {}

Commit(e) ==
  /\ e \notin committed
  /\ committed' = committed \cup {e}
  /\ UNCHANGED <<delivered, settled>>

Deliver(e) ==
  /\ e \in committed
  /\ delivered' = delivered \cup {e}
  /\ UNCHANGED <<committed, settled>>

(* A batch of events is marked at once. *)
Settle(batch) ==
  /\ batch \subseteq delivered
  /\ settled' = settled \cup batch
  /\ UNCHANGED <<committed, delivered>>

Next ==
  \/ \E e \in Events : Commit(e) \/ Deliver(e)
  \/ \E batch \in SUBSET Events : Settle(batch)

Spec == Init /\ [][Next]_vars
=============================================================================
