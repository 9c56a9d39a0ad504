------------------------------ MODULE MCSession ------------------------------
(* Session for TLC: a read, a write and a request submit refuses. *)
EXTENDS Session

CONSTANTS read, write, bad
MCRequests   == {read, write, bad}
MCAccepted   == {read, write}
MCInRequests == {read}
MCMalformed  == {bad}
==============================================================================
