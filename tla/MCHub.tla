------------------------------- MODULE MCHub -------------------------------
(* Instances of the hub for TLC. *)
EXTENDS Hub

(* Nobody who calls the hub or waits for it stays blocked, and every event *)
(* it accepted is offered to every registered tab.                         *)
AllGetThrough == NobodyStuck /\ EventsHandled
=============================================================================
