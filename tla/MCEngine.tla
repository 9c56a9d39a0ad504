------------------------------- MODULE MCEngine -------------------------------
(* Engine for TLC: an IN, an OUT and the control endpoint of one device. *)
EXTENDS Engine, TLC

CONSTANTS in, out, ctl, dev, r1

MCDevice == [k \in Keys |-> dev]
Always   == [k \in Keys |-> {"Success"}]
Pauses   == [k \in Keys |-> {"pause"}]
Alone    == {{k} : k \in Keys}

(* engine_reads: a ring of reads, or a ring with messages of every kind. *)
ReadsKinds    == (in :> {"bulk", "interrupt"}) @@ (out :> {"bulk"})
ReadsOffers   == (in :> {"normal"})
                   @@ (out :> {"normal", "torn", "link", "hostlink", "setup", "unknown"})
ReadsOps      == (in :> {"recreate", "update", "remove", "reset", "pause", "pausedevice",
                         "move", "reject"})
                   @@ (out :> {"move", "reject", "halt", "pause", "deaf"})
ReadsMessages == (in :> 4) @@ (out :> 3)

(* engine_once: a device with a ring of reads and one of writes, or with its *)
(* control endpoint.                                                         *)
OnceKinds    == (in :> {"interrupt"}) @@ (out :> {"bulk"}) @@ (ctl :> {"control"})
OnceOffers   == (in :> {"normal"}) @@ (out :> {"normal"})
                  @@ (ctl :> {"setup", "normal", "status"})
OnceStatuses == (in :> {"Success"}) @@ (out :> {"Success"})
                  @@ (ctl :> {"Success", "StallError", "Offline"})
OnceOps      == (in :> {"pause", "pausedevice", "lostmove"})
                  @@ (out :> {"pause", "pausedevice", "remove"}) @@ (ctl :> {"pause", "halt"})
OnceMessages == (in :> 2) @@ (out :> 2) @@ (ctl :> 5)
OnceScenes   == {{in, out}, {ctl}}

(* engine_live: a ring of isochronous reads. *)
LiveKinds    == in :> {"isochronous"}
LiveOffers   == in :> {"iso"}
LiveOps      == in :> {"pause"}
LiveMessages == in :> 2

(* engine_readahead, engine_moves and engine_links. *)
Bulk         == [k \in Keys |-> {"bulk"}]
Normals      == [k \in Keys |-> {"normal"}]
Three        == [k \in Keys |-> 3]
Four         == [k \in Keys |-> 4]
LostMoves    == [k \in Keys |-> {"pause", "lostmove"}]
WritesLink   == out :> {"normal", "link"}
==============================================================================
