------------------------------- MODULE MCAttach -------------------------------
(* Instances of Attach for TLC. *)
EXTENDS Attach
===============================================================================
