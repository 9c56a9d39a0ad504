-------------------------------- MODULE Attach --------------------------------
(***************************************************************************)
(* The life of `usbip attach`: main.rs from the import of the device to the *)
(* exit, the frame update task of host.rs beside it, the controller         *)
(* (Controller) whose queue both use, and the session (Transfers, which     *)
(* Session implements) whose transfers the engine submits.                  *)
(*                                                                          *)
(* The engine is reduced to what matters here: a ring that is in its table  *)
(* may submit a transfer whenever the queue is free (a doorbell, or the     *)
(* delivery of an earlier reply), a ring that leaves the table has its      *)
(* transfers unlinked, and a device reset blocks the queue.  Engine.tla has *)
(* the rest.                                                                *)
(***************************************************************************)
EXTENDS Controller

CONSTANTS
  Requests,     \* bound: the numbers of the transfers submitted in a behaviour
  MaxUpdates    \* bound: frame update blocks waiting on the queue

VARIABLES
  reply, cancelled, executed, open,     \* the session, as in Transfers
  owner,        \* request -> the ring that submitted it, 0 for a device reset
  main,         \* where main is
  asked,        \* SIGINT or SIGTERM has arrived
  early,        \* attach is returning an error before it has served anything
  frames,       \* where the frame update task is
  aborted,      \* frames.abort() was called
  updates       \* frame update blocks waiting on the queue

S == INSTANCE Transfers

session  == <<reply, cancelled, executed, open>>
traffic  == <<session, owner>>
frameTask == <<frames, aborted, updates>>
process  == <<main, asked, early>>
vars == <<controllerVars, traffic, frameTask, process>>

Before == {"list", "import", "create"}          \* there is no controller yet
Ready  == {"power", "enter", "connect"}         \* set_connected(true) is to come

Init ==
  /\ ControllerInit
  /\ S!Init
  /\ owner = [r \in Requests |-> 0]
  /\ main = "list"
  /\ asked = FALSE
  /\ early = FALSE
  /\ frames = "none"
  /\ aborted = FALSE
  /\ updates = 0

-------------------------------------------------------------------------------
(* The session and the engine. *)

(* The server, the device and the session's own tasks. *)
SessionStep ==
  /\ main \notin {"list", "import"}
  /\ \/ S!Close
     \/ \E r \in Requests : (open /\ S!Execute(r)) \/ S!Resolve(r)
  /\ UNCHANGED <<controllerVars, owner, frameTask, process>>

(* Requests are numbered in the order of their submission. *)
Submitted(r, m) ==
  /\ \A q \in Requests : reply[q] = "unused" => r <= q
  /\ S!Submit(r)
  /\ owner' = [owner EXCEPT ![r] = m]

(* pump submits for a ring; once the session is closed it submits nothing. *)
Pump(k) ==
  /\ queue = "idle"
  /\ doorbell(k)
  /\ \E r \in Requests : Submitted(r, rings[k])
  /\ UNCHANGED <<controllerVars, frameTask, process>>

(* add_endpoint, remove_endpoint and remove_device unlink the transfers of   *)
(* the rings that leave the engine's table.                                  *)
DroppedNotReplaced ==
  {r \in Requests : \E k \in Keys : owner[r] # 0 /\ owner[r] = rings[k] /\ rings'[k] = 0}
Dropped == {r \in Requests : owner[r] # 0 /\ \A k \in Keys : rings'[k] # owner[r]}

-------------------------------------------------------------------------------
(* Commands and frame updates, on the queue. *)

ExistsController == main \notin Before

(* Commands that change no ring. *)
PlainCommand ==
  \/ \E s \in {"off", "active"} : ControllerCommand(s)
  \/ FrameNumberCommand
  \/ PortPowerOn \/ PortCommand
  \/ DeviceCreate

RingCommand ==
  \/ \E a \in Addresses : DeviceDestroy(a)
  \/ \E k \in Keys : EndpointCreate(k) \/ EndpointDestroy(k)

(* DEVICE_PAUSE, ENDPOINT_PAUSE, _RESET and _SET_NEXT_TRANSFER may unlink     *)
(* what the endpoints have in flight; the others do not.                      *)
Unlinks(keys) ==
  \/ UNCHANGED traffic
  \/ /\ S!Cancel({r \in Requests : owner[r] \in {rings[k] : k \in keys} \ {0}})
     /\ UNCHANGED owner

KernelStep ==
  /\ ExistsController
  /\ \/ PlainCommand /\ UNCHANGED traffic
     \/ RingCommand /\ S!Cancel(Dropped) /\ UNCHANGED owner
     \/ \E k \in Keys : EndpointCommand(k) /\ Unlinks({k})
     \/ \E a \in Addresses : DeviceCommand(a) /\ Unlinks({k \in Keys : k[1] = a})
  /\ UNCHANGED <<frameTask, process>>

(* reset_device submits a request of its own and blocks the queue on it. *)
ResetCommand ==
  /\ ExistsController
  /\ PortReset(open)
  /\ IF queue' = "reset" THEN \E r \in Requests : Submitted(r, 0) ELSE UNCHANGED traffic
  /\ UNCHANGED <<frameTask, process>>

(* It returns with the reply, or after RESET_TIMEOUT without one. *)
ResetOverOnReply ==
  /\ PortResetOver
  /\ \A r \in S!Waiting : owner[r] # 0
  /\ UNCHANGED <<traffic, frameTask, process>>
ResetOver ==
  /\ PortResetOver
  /\ UNCHANGED <<traffic, frameTask, process>>

(* The queue's thread sleeps until there is a frame to report. *)
FrameReport ==
  /\ FrameNumberAnswer \/ FrameUpdateReport
  /\ UNCHANGED <<traffic, frameTask, process>>

TimePasses == Tick /\ UNCHANGED <<traffic, frameTask, process>>

-------------------------------------------------------------------------------
(* The frame update task.  abort stops it at its next await, so a task that  *)
(* is past the tick still puts its block on the queue.                       *)

FramesTick ==
  /\ frames = "sleep"
  /\ frames' = "post"
  /\ UNCHANGED <<controllerVars, traffic, aborted, updates, process>>

FramesPost ==
  /\ frames = "post"
  /\ updates < MaxUpdates
  /\ updates' = updates + 1
  /\ frames' = IF aborted THEN "done" ELSE "sleep"
  /\ UNCHANGED <<controllerVars, traffic, aborted, process>>

RunUpdate ==
  /\ updates > 0
  /\ updates' = updates - 1
  /\ FrameUpdate
  /\ UNCHANGED <<traffic, frames, aborted, process>>

-------------------------------------------------------------------------------
(* main. *)

Goto(next) == main' = next /\ UNCHANGED <<asked, early>>

(* A step that returns with `?` before there is a controller. *)
Fails == main' = "done" /\ early' = TRUE /\ UNCHANGED asked

(* list_devices and Selector::find: nothing answers, or nothing matches. *)
MainLists ==
  /\ main = "list"
  /\ Fails \/ Goto("import")
  /\ UNCHANGED <<controllerVars, traffic, frameTask>>

(* A second connection; the reply must be for the busid asked for. *)
MainImports ==
  /\ main = "import"
  /\ Fails \/ Goto("create")
  /\ UNCHANGED <<controllerVars, traffic, frameTask>>

(* Controller::new; the last thing it does is to start the frame updates. *)
MainCreates ==
  /\ main = "create"
  /\ \/ Fails /\ UNCHANGED frames
     \/ Goto("power") /\ frames' = "sleep"
  /\ UNCHANGED <<controllerVars, traffic, aborted, updates>>

(* wait_powered, then the prompt if it was asked for. *)
MainPowered ==
  /\ main = "power"
  /\ powered
  /\ Goto("enter") \/ Goto("connect")
  /\ UNCHANGED <<controllerVars, traffic, frameTask>>

(* If stdin or stdout fails, attach returns and drops the controller. *)
MainReadsEnter ==
  /\ main = "enter"
  /\ \/ Goto("connect")
     \/ main' = "abort" /\ early' = TRUE /\ UNCHANGED asked
  /\ UNCHANGED <<controllerVars, traffic, frameTask>>

MainConnects ==
  /\ main = "connect"
  /\ SetConnected(TRUE)
  /\ Goto("listen")
  /\ UNCHANGED <<traffic, frameTask>>

(* signal(SIGTERM)?: without a handler attach goes straight to the detaching. *)
MainListens ==
  /\ main = "listen"
  /\ Goto("serve") \/ Goto("unplug")
  /\ UNCHANGED <<controllerVars, traffic, frameTask>>

(* Before the handlers are installed a signal just ends the process. *)
Signal ==
  /\ main = "serve"
  /\ ~asked
  /\ asked' = TRUE
  /\ UNCHANGED <<main, early, controllerVars, traffic, frameTask>>

(* The select: a signal, or the end of the session. *)
MainStops ==
  /\ main = "serve"
  /\ asked \/ ~open
  /\ main' = "unplug"
  /\ asked' = FALSE
  /\ UNCHANGED <<early, controllerVars, traffic, frameTask>>

MainUnplugs ==
  /\ main = "unplug"
  /\ SetConnected(FALSE)
  /\ Goto("unlink")
  /\ UNCHANGED <<traffic, frameTask>>

MainUnlinks ==
  /\ main = "unlink"
  /\ S!Cancel(Requests)
  /\ Goto("drain")
  /\ UNCHANGED <<owner, controllerVars, frameTask>>

(* Until nothing is pending or the session is closed, but one second at most. *)
MainDrains ==
  /\ main = "drain"
  /\ Goto("abort")
  /\ UNCHANGED <<controllerVars, traffic, frameTask>>

(* Drop for Controller: frames.abort, then destroy on the queue. *)
MainAborts ==
  /\ main = "abort"
  /\ aborted' = TRUE
  /\ frames' = IF frames = "sleep" THEN "done" ELSE frames
  /\ Goto("destroy")
  /\ UNCHANGED <<updates, controllerVars, traffic>>

MainDestroys ==
  /\ main = "destroy"
  /\ Destroy
  /\ Goto(IF early THEN "done" ELSE "close")
  /\ UNCHANGED <<traffic, frameTask>>

MainCloses ==
  /\ main = "close"
  /\ IF open THEN S!Close ELSE UNCHANGED session
  /\ Goto("done")
  /\ UNCHANGED <<owner, controllerVars, frameTask>>

(* What main does by itself, and what it does on the queue. *)
MainStep ==
  \/ MainLists \/ MainImports \/ MainCreates \/ MainPowered \/ MainReadsEnter
  \/ MainListens \/ MainStops \/ MainUnlinks \/ MainDrains \/ MainAborts \/ MainCloses
MainOnQueue == MainConnects \/ MainUnplugs \/ MainDestroys

-------------------------------------------------------------------------------
Next ==
  \/ MainStep \/ MainOnQueue \/ Signal
  \/ FramesTick \/ FramesPost \/ RunUpdate
  \/ KernelStep \/ ResetCommand \/ ResetOver \/ FrameReport \/ TimePasses
  \/ SessionStep
  \/ \E k \in Keys : Pump(k)

(* Threads run and time passes.  The dispatch queue is first in, first out, *)
(* so a block that main waits for has its turn although others come between.*)
Fairness ==
  /\ WF_vars(MainStep)
  /\ SF_vars(MainOnQueue)
  /\ WF_vars(ResetOver)
  /\ WF_vars(FrameReport)
  /\ WF_vars(TimePasses)

Spec == Init /\ [][Next]_vars /\ Fairness

-------------------------------------------------------------------------------
(* Properties. *)

(* A transfer of an endpoint the kernel has destroyed, or has created anew,  *)
(* is being unlinked as long as it is pending: destroying a device or an     *)
(* endpoint in the controller's tables always reaches the engine's requests. *)
GoneIsUnlinked ==
  open /\ stuck = "no" =>
    \A r \in S!Waiting \ cancelled :
      owner[r] # 0 => \E e \in hostEndpoints : e[2] = owner[r]

(* Once attach is told to stop or the connection goes, it returns, although  *)
(* it needs the queue twice and a device reset may hold the queue.           *)
MainReturns == main = "serve" /\ (asked \/ ~open) ~> main = "done"
===============================================================================
