------------------------------ MODULE Transfers ------------------------------
(***************************************************************************)
(* What a session promises the code that submits transfers through it, with *)
(* no seqnums, no frames and no tasks: a transfer that was accepted gets    *)
(* exactly one outcome, it is "ok" only if the device ran it, "unlinked"    *)
(* only if it was cancelled and the device will never run it, and           *)
(* "disconnected" only once the session is closed.                          *)
(*                                                                          *)
(* Session.tla is shown to implement this module; Engine.tla is built on it.*)
(***************************************************************************)
CONSTANT Requests               \* one element per call of Session::submit

VARIABLES
  reply,        \* what the caller has been told about each request
  cancelled,    \* waiting requests the caller has asked to unlink
  executed,     \* requests the device has run
  open          \* the session is not closed

vars == <<reply, cancelled, executed, open>>

Refusals == {"invalid", "refused"}              \* Err from submit itself
Outcomes == {"ok", "unlinked", "disconnected"}  \* what the reply future gives

TypeOK ==
  /\ reply \in [Requests -> {"unused", "waiting"} \cup Refusals \cup Outcomes]
  /\ cancelled \subseteq Requests
  /\ executed \subseteq Requests
  /\ open \in BOOLEAN

Waiting == {r \in Requests : reply[r] = "waiting"}

Init ==
  /\ reply = [r \in Requests |-> "unused"]
  /\ cancelled = {}
  /\ executed = {}
  /\ open = TRUE

(* submit accepts the request and hands out a reply future. *)
Submit(r) ==
  /\ open
  /\ reply[r] = "unused"
  /\ reply' = [reply EXCEPT ![r] = "waiting"]
  /\ UNCHANGED <<cancelled, executed, open>>

(* submit returns an error: the request is malformed, or the session is gone. *)
Refuse(r) ==
  /\ reply[r] = "unused"
  /\ \/ reply' = [reply EXCEPT ![r] = "invalid"]
     \/ ~open /\ reply' = [reply EXCEPT ![r] = "refused"]
  /\ UNCHANGED <<cancelled, executed, open>>

(* unlink: the ones already resolved, and all once closed, are ignored. *)
Cancel(R) ==
  /\ cancelled' = IF open THEN cancelled \cup (R \cap Waiting) ELSE cancelled
  /\ UNCHANGED <<reply, executed, open>>

(* The device runs the transfer.  The server does not know of a close yet. *)
Execute(r) ==
  /\ reply[r] \in {"waiting", "disconnected"}
  /\ r \notin executed
  /\ executed' = executed \cup {r}
  /\ UNCHANGED <<reply, cancelled, open>>

Complete(r) ==
  /\ open
  /\ r \in Waiting \cap executed
  /\ reply' = [reply EXCEPT ![r] = "ok"]
  /\ cancelled' = cancelled \ {r}
  /\ UNCHANGED <<executed, open>>

Unlinked(r) ==
  /\ open
  /\ r \in (Waiting \cap cancelled) \ executed
  /\ reply' = [reply EXCEPT ![r] = "unlinked"]
  /\ cancelled' = cancelled \ {r}
  /\ UNCHANGED <<executed, open>>

Close ==
  /\ open
  /\ open' = FALSE
  /\ cancelled' = {}
  /\ UNCHANGED <<reply, executed>>

(* close fails what was pending, one transfer after the other. *)
Fail(r) ==
  /\ ~open
  /\ r \in Waiting
  /\ reply' = [reply EXCEPT ![r] = "disconnected"]
  /\ UNCHANGED <<cancelled, executed, open>>

Resolve(r) == Complete(r) \/ Unlinked(r) \/ Fail(r)

Next ==
  \/ Close
  \/ \E r \in Requests :
       Submit(r) \/ Refuse(r) \/ Cancel({r}) \/ Execute(r) \/ Resolve(r)

Spec == Init /\ [][Next]_vars

(* What was run, cancelled or cut off is reported sooner or later. *)
FairSpec == Spec /\ \A r \in Requests : WF_vars(Resolve(r))
==============================================================================
