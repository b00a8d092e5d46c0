------------------------------- MODULE MCEcho -------------------------------
(* Instances of the echo store and of the pane of one tab for TLC. *)
EXTENDS EchoPane, TLC
=============================================================================
