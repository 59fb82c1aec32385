------------------------------- MODULE MCOutbox -------------------------------
(* The instance of Outbox for TLC. *)
EXTENDS Outbox
===============================================================================
