------------------------------ MODULE Controller ------------------------------
(***************************************************************************)
(* The virtual host controller of host.rs: the commands the kernel sends,   *)
(* the tables they keep (Shared: addresses, devices, endpoints; the engine's*)
(* table of rings beside them), the answers the kernel waits for, and the   *)
(* frame numbers reported to it.                                            *)
(*                                                                          *)
(* Commands, frame updates and the calls of the main thread run one after   *)
(* the other on one dispatch queue.  A command that has to wait on that     *)
(* queue (a device reset, a frame number) is two actions, with `queue`      *)
(* saying what the queue is in the middle of; every other command is one.   *)
(*                                                                          *)
(* The state machines of IOUSBHost and the kernel behind them are external. *)
(* The kernel is lawful: it sends one command at a time, waits for the      *)
(* answer, and names only devices and endpoints it was told exist.  A state *)
(* machine is a number, so that a stale one is told from its replacement.   *)
(***************************************************************************)
EXTENDS Integers

CONSTANTS
  MaxAddress,   \* device addresses are 1..MaxAddress (127)
  Endpoints,    \* endpoint addresses
  MaxMachines,  \* bound: state machines created in a behaviour
  Faults,       \* the calls into IOUSBHost that may fail
  Numer, Denom, \* Denom ticks of the clock are Numer frames
  Horizon       \* bound: the clock is set back once it has reached this

ASSUME ControllerAssumption ==
  /\ MaxAddress \in Nat
  /\ MaxMachines \in Nat
  /\ Faults \subseteq {"machine", "inspect", "respond"}
  /\ Numer \in Nat \ {0}
  /\ Denom \in Nat
  /\ Denom >= Numer      \* a frame, 1 ms, is no shorter than a tick
  /\ Horizon \in Nat
  /\ Horizon >= Denom

VARIABLES
  used,         \* AddressPool: the addresses handed out
  devices,      \* Shared.devices: address -> state machine, 0 for none
  endpoints,    \* Shared.endpoints: key -> state machine, 0 for none
  rings,        \* State.endpoints of the engine: key -> the ring's state machine
  enumerated,   \* Shared.enumerated
  powered,      \* Shared.powered
  last,         \* FrameClock.last, -Numer for none or long ago
  queue,        \* what the dispatch queue is in the middle of
  made,         \* state machines created
  now,          \* mach_absolute_time
  state,        \* of the controller state machine
  connected,    \* of the port state machine
  hostDevices,  \* <<address, state machine>> the kernel was told of
  hostEndpoints,\* <<key, state machine>> the kernel was told of
  stuck         \* why the kernel waits for an answer that will not come

tables == <<used, devices, endpoints, rings, enumerated, made>>
kernel == <<hostDevices, hostEndpoints, powered, state>>
clock  == <<now, last>>
controllerVars == <<tables, kernel, clock, queue, connected, stuck>>

Addresses == 1..MaxAddress
Keys      == Addresses \X Endpoints
Machines  == 1..MaxMachines

(* Types, and the bounds of the model. *)
ControllerTypeOK ==
  /\ used \subseteq Addresses
  /\ devices \in [Addresses -> 0..MaxMachines]
  /\ endpoints \in [Keys -> 0..MaxMachines]
  /\ rings \in [Keys -> 0..MaxMachines]
  /\ enumerated \in BOOLEAN
  /\ powered \in BOOLEAN
  /\ last \in Int
  /\ queue \in {"idle", "reset", "frame", "update"}
  /\ made \in 0..MaxMachines
  /\ now \in 0..Horizon
  /\ state \in {"off", "active", "destroyed"}
  /\ connected \in BOOLEAN
  /\ hostDevices \subseteq Addresses \X Machines
  /\ hostEndpoints \subseteq Keys \X Machines
  /\ stuck \in {"no", "fault", "unknown"}

ControllerInit ==
  /\ used = {}
  /\ devices = [a \in Addresses |-> 0]
  /\ endpoints = [k \in Keys |-> 0]
  /\ rings = [k \in Keys |-> 0]
  /\ enumerated = FALSE
  /\ powered = FALSE
  /\ last = -Numer
  /\ queue = "idle"
  /\ made = 0
  /\ now = 0
  /\ state = "off"
  /\ connected = FALSE
  /\ hostDevices = {}
  /\ hostEndpoints = {}
  /\ stuck = "no"

-------------------------------------------------------------------------------
(* AddressPool. *)

(* allocate: what find((1..128)) comes to first; empty when all are used. *)
AllocatableFromZero == {a \in 0..MaxAddress : a \notin used /\ \A b \in 0..(a - 1) : b \in used}
Allocatable == {a \in Addresses : a \notin used /\ \A b \in 1..(a - 1) : b \in used}

releaseBelow(pool, a) == IF a < MaxAddress THEN pool \ {a} ELSE pool
release(pool, a) == pool \ {a}

-------------------------------------------------------------------------------
(* FrameClock, the epoch being 0.  A frame lasts Denom / Numer ticks. *)

frame_at(t) == (t * Numer) \div Denom
start_of(f) == (f * Denom) \div Numer

(* next() finds a frame that is later than the last one; it sleeps until then. *)
NextFrameReadyAgain == frame_at(now) >= last
NextFrameReady == frame_at(now) > last

(* Time passes.  Only differences matter, so the clock is set back by Denom *)
(* ticks, which are Numer whole frames, when it is at the horizon.          *)
Older(f) == IF f - Numer < -Numer THEN -Numer ELSE f - Numer

Tick ==
  /\ IF now + 1 < Horizon
     THEN now' = now + 1 /\ UNCHANGED last
     ELSE now' = now + 1 - Denom /\ last' = Older(last)
  /\ UNCHANGED <<tables, kernel, queue, connected, stuck>>

-------------------------------------------------------------------------------
(* Answers. *)

Succeeds(call) == IF call \in Faults THEN BOOLEAN ELSE {TRUE}

(* The answer of a command reaches the kernel, and `done` is what follows, or *)
(* respondToCommand fails and the kernel goes on waiting.  What it does when   *)
(* COMMAND_TIMEOUT_THRESHOLD has passed is the kernel's own business: here it *)
(* sends no further command.                                                  *)
Respond(done) ==
  \E sent \in Succeeds("respond") :
    /\ stuck' = IF sent THEN "no" ELSE "fault"
    /\ IF sent THEN done ELSE UNCHANGED kernel

(* answer: inspect, act, respond; a rejected command is answered with an error. *)
answerAfterAct(act, done) ==
  \E accepted \in Succeeds("inspect") :
    act /\ Respond(IF accepted THEN done ELSE UNCHANGED kernel)
answer(act, done) ==
  \E accepted \in Succeeds("inspect") :
    IF accepted THEN act /\ Respond(done)
    ELSE Respond(UNCHANGED kernel) /\ UNCHANGED tables

(* A command that names something the tables do not have, or whose state   *)
(* machine cannot be had, returns without an answer.                       *)
Unanswered(why) == stuck' = why /\ UNCHANGED <<tables, kernel>>

(* The kernel sends a command when none of its own is outstanding. *)
Command ==
  /\ queue = "idle"
  /\ stuck = "no"
  /\ state # "destroyed"

-------------------------------------------------------------------------------
(* Controller and port commands. *)

ControllerCommand(s) ==
  /\ Command
  /\ answer(UNCHANGED tables, state' = s /\ UNCHANGED <<hostDevices, hostEndpoints, powered>>)
  /\ UNCHANGED <<clock, queue, connected>>

(* CONTROLLER_FRAME_NUMBER waits in next() before it inspects. *)
FrameNumberCommand ==
  /\ Command
  /\ queue' = "frame"
  /\ UNCHANGED <<tables, kernel, clock, connected, stuck>>

FrameNumberAnswer ==
  /\ queue = "frame"
  /\ NextFrameReady
  /\ last' = frame_at(now)
  /\ queue' = "idle"
  /\ answer(UNCHANGED tables, UNCHANGED kernel)
  /\ UNCHANGED <<now, connected>>

PortPowerOn ==
  /\ Command
  /\ \/ "machine" \in Faults /\ Unanswered("fault")
     \/ answer(UNCHANGED tables,
               powered' = TRUE /\ UNCHANGED <<hostDevices, hostEndpoints, state>>)
  /\ UNCHANGED <<clock, queue, connected>>

(* PORT_POWER_OFF, _RESUME, _SUSPEND, _DISABLE and _STATUS are answered, and   *)
(* that is all: `powered` stays as it is.                                     *)
PortCommand ==
  /\ Command
  /\ \/ "machine" \in Faults /\ Unanswered("fault")
     \/ answer(UNCHANGED tables, UNCHANGED kernel)
  /\ UNCHANGED <<clock, queue, connected>>

(* A port reset is passed on to the server once macOS has created a device, *)
(* as long as the session takes it (`open`); the queue then waits.          *)
PortReset(open) ==
  /\ Command
  /\ \/ "machine" \in Faults /\ Unanswered("fault") /\ UNCHANGED queue
     \/ \E accepted \in Succeeds("inspect") :
          /\ IF accepted /\ enumerated /\ open
             THEN queue' = "reset" /\ UNCHANGED <<kernel, stuck>>
             ELSE Respond(UNCHANGED kernel) /\ UNCHANGED queue
          /\ UNCHANGED tables
  /\ UNCHANGED <<clock, connected>>

(* reset_device has its reply, or has waited RESET_TIMEOUT for it. *)
PortResetOver ==
  /\ queue = "reset"
  /\ queue' = "idle"
  /\ Respond(UNCHANGED kernel)
  /\ UNCHANGED <<tables, clock, connected>>

-------------------------------------------------------------------------------
(* Device commands. *)

DeviceCreate ==
  /\ Command
  /\ connected
  /\ made < MaxMachines
  /\ \/ "machine" \in Faults /\ Unanswered("fault")
     \/ /\ Allocatable = {}
        /\ Respond(UNCHANGED kernel)
        /\ UNCHANGED tables
     \/ /\ made' = made + 1
        /\ \E a \in Allocatable :
             /\ Respond(/\ hostDevices' = hostDevices \cup {<<a, made + 1>>}
                        /\ UNCHANGED <<hostEndpoints, powered, state>>)
             /\ IF stuck' = "no"
                THEN /\ used' = used \cup {a}
                     /\ devices' = [devices EXCEPT ![a] = made + 1]
                     /\ enumerated' = TRUE
                ELSE /\ used' = release(used \cup {a}, a)
                     /\ UNCHANGED <<devices, enumerated>>
        /\ UNCHANGED <<endpoints, rings>>
  /\ UNCHANGED <<clock, queue, connected>>

HasDevice(a)   == \E m \in Machines : <<a, m>> \in hostDevices
HasEndpoint(k) == \E m \in Machines : <<k, m>> \in hostEndpoints

(* DEVICE_DESTROY: remove_device, endpoints.retain, devices.remove, release. *)
WithoutDevice(table, a) == [k \in Keys |-> IF k[1] = a THEN 0 ELSE table[k]]

DeviceDestroy(a) ==
  /\ Command
  /\ HasDevice(a)
  /\ IF devices[a] = 0
     THEN Unanswered("unknown")
     ELSE answer(/\ rings' = WithoutDevice(rings, a)
                 /\ endpoints' = WithoutDevice(endpoints, a)
                 /\ devices' = [devices EXCEPT ![a] = 0]
                 /\ used' = release(used, a)
                 /\ UNCHANGED <<enumerated, made>>,
                 /\ hostDevices' = {d \in hostDevices : d[1] # a}
                 /\ hostEndpoints' = {e \in hostEndpoints : e[1][1] # a}
                 /\ UNCHANGED <<powered, state>>)
  /\ UNCHANGED <<clock, queue, connected>>

(* DEVICE_START, DEVICE_PAUSE and DEVICE_UPDATE leave the tables alone. *)
DeviceCommand(a) ==
  /\ Command
  /\ HasDevice(a)
  /\ IF devices[a] = 0 THEN Unanswered("unknown")
     ELSE answer(UNCHANGED tables, UNCHANGED kernel)
  /\ UNCHANGED <<clock, queue, connected>>

-------------------------------------------------------------------------------
(* Endpoint commands and doorbells. *)

EndpointCreateKeepsRing(k) ==
  /\ Command
  /\ HasDevice(k[1])
  /\ made < MaxMachines
  /\ \/ "machine" \in Faults /\ Unanswered("fault")
     \/ /\ made' = made + 1
        /\ Respond(/\ hostEndpoints' = {e \in hostEndpoints : e[1] # k} \cup {<<k, made + 1>>}
                   /\ UNCHANGED <<hostDevices, powered, state>>)
        /\ IF stuck' = "no"
           THEN /\ endpoints' = [endpoints EXCEPT ![k] = made + 1]
                /\ rings' = [rings EXCEPT ![k] = IF @ = 0 THEN made + 1 ELSE @]
           ELSE UNCHANGED <<endpoints, rings>>
        /\ UNCHANGED <<used, devices, enumerated>>
  /\ UNCHANGED <<clock, queue, connected>>

(* The answer goes out before the endpoint is entered in the two tables. *)
EndpointCreate(k) ==
  /\ Command
  /\ HasDevice(k[1])
  /\ made < MaxMachines
  /\ \/ "machine" \in Faults /\ Unanswered("fault")
     \/ /\ made' = made + 1
        /\ Respond(/\ hostEndpoints' = {e \in hostEndpoints : e[1] # k} \cup {<<k, made + 1>>}
                   /\ UNCHANGED <<hostDevices, powered, state>>)
        /\ IF stuck' = "no"
           THEN /\ endpoints' = [endpoints EXCEPT ![k] = made + 1]
                /\ rings' = [rings EXCEPT ![k] = made + 1]
           ELSE UNCHANGED <<endpoints, rings>>
        /\ UNCHANGED <<used, devices, enumerated>>
  /\ UNCHANGED <<clock, queue, connected>>

EndpointDestroyDevice(k) ==
  /\ Command
  /\ HasEndpoint(k)
  /\ IF endpoints[k] = 0
     THEN Unanswered("unknown")
     ELSE answer(/\ rings' = WithoutDevice(rings, k[1])
                 /\ endpoints' = WithoutDevice(endpoints, k[1])
                 /\ UNCHANGED <<used, devices, enumerated, made>>,
                 /\ hostEndpoints' = {e \in hostEndpoints : e[1] # k}
                 /\ UNCHANGED <<hostDevices, powered, state>>)
  /\ UNCHANGED <<clock, queue, connected>>

EndpointDestroy(k) ==
  /\ Command
  /\ HasEndpoint(k)
  /\ IF endpoints[k] = 0
     THEN Unanswered("unknown")
     ELSE answer(/\ rings' = [rings EXCEPT ![k] = 0]
                 /\ endpoints' = [endpoints EXCEPT ![k] = 0]
                 /\ UNCHANGED <<used, devices, enumerated, made>>,
                 /\ hostEndpoints' = {e \in hostEndpoints : e[1] # k}
                 /\ UNCHANGED <<hostDevices, powered, state>>)
  /\ UNCHANGED <<clock, queue, connected>>

(* ENDPOINT_PAUSE, _UPDATE, _RESET and _SET_NEXT_TRANSFER go to the engine. *)
EndpointCommand(k) ==
  /\ Command
  /\ HasEndpoint(k)
  /\ IF endpoints[k] = 0 THEN Unanswered("unknown")
     ELSE answer(UNCHANGED tables, UNCHANGED kernel)
  /\ UNCHANGED <<clock, queue, connected>>

(* A doorbell the table does not know is ignored; another runs the engine's *)
(* pump on the ring it has under that key, if it has one and processDoorbell *)
(* does not fail.                                                           *)
doorbell(k) == endpoints[k] # 0 /\ rings[k] # 0

-------------------------------------------------------------------------------
(* Blocks others put on the queue. *)

(* set_connected, unless the port's state machine cannot be had. *)
SetConnected(to) ==
  /\ queue = "idle"
  /\ \/ connected' = to
     \/ "machine" \in Faults /\ UNCHANGED connected
  /\ UNCHANGED <<tables, kernel, clock, queue, stuck>>

Destroy ==
  /\ queue = "idle"
  /\ state' = "destroyed"
  /\ UNCHANGED <<tables, hostDevices, hostEndpoints, powered, clock, queue, connected, stuck>>

(* The block of spawn_frame_updates: nothing unless the controller is active. *)
FrameUpdate ==
  /\ queue = "idle"
  /\ queue' = IF state = "active" THEN "update" ELSE "idle"
  /\ UNCHANGED <<tables, kernel, clock, connected, stuck>>

FrameUpdateReport ==
  /\ queue = "update"
  /\ NextFrameReady
  /\ last' = frame_at(now)
  /\ queue' = "idle"
  /\ UNCHANGED <<tables, kernel, now, connected, stuck>>
-------------------------------------------------------------------------------
ControllerNext ==
  \/ Tick
  \/ \E s \in {"off", "active"} : ControllerCommand(s)
  \/ FrameNumberCommand \/ FrameNumberAnswer
  \/ PortPowerOn \/ PortCommand
  \/ \E open \in BOOLEAN : PortReset(open)
  \/ PortResetOver
  \/ DeviceCreate
  \/ \E a \in Addresses : DeviceDestroy(a) \/ DeviceCommand(a)
  \/ \E k \in Keys : EndpointCreate(k) \/ EndpointDestroy(k) \/ EndpointCommand(k)
  \/ \E to \in BOOLEAN : SetConnected(to)
  \/ Destroy
  \/ FrameUpdate \/ FrameUpdateReport

ControllerSpec == ControllerInit /\ [][ControllerNext]_controllerVars

-------------------------------------------------------------------------------
(* Properties. *)

(* An address is in use in AddressPool exactly while a device has it, also  *)
(* when the answer to DEVICE_CREATE could not be sent: no address leaks and *)
(* none is handed out twice.                                                *)
AddressesMatch == used = {a \in Addresses : devices[a] # 0}

(* The engine has a ring exactly for the endpoints in the table of the      *)
(* controller, of the same state machine, and every endpoint belongs to a   *)
(* device: DEVICE_DESTROY and a second ENDPOINT_CREATE keep both in step.   *)
RingsAreEndpoints ==
  /\ rings = endpoints
  /\ \A k \in Keys : endpoints[k] # 0 => devices[k[1]] # 0

(* While the kernel's commands get their answers, it knows the devices and  *)
(* endpoints of the tables and no others: what was answered is what was done. *)
(* When an answer could not be sent, the tables still have nothing that the *)
(* kernel was not told of: no device or endpoint it would never destroy.    *)
SameView ==
  /\ hostDevices = {d \in Addresses \X Machines : devices[d[1]] = d[2]}
  /\ hostEndpoints = {e \in Keys \X Machines : endpoints[e[1]] = e[2]}
TablesAreTold ==
  /\ \A a \in Addresses : devices[a] # 0 => <<a, devices[a]>> \in hostDevices
  /\ \A k \in Keys : endpoints[k] # 0 => <<k, endpoints[k]>> \in hostEndpoints
HostViewAgrees == TablesAreTold /\ (stuck = "no" => SameView)

(* command returns early, without an answer, for a device or an endpoint it *)
(* does not know; a kernel that names only what it was told of never meets  *)
(* that, so only a failing call into IOUSBHost can leave it waiting.        *)
KnownToController == stuck # "unknown"

(* FrameClock::next: every frame report is of a later frame than the one    *)
(* before, begun later and not in the future, for the kernel shuts the      *)
(* controller down if two reports carry the same frame.  And none is made   *)
(* to a controller that has been destroyed, though a block of the frame     *)
(* update task may run after destroy.                                       *)
Reports == queue \in {"frame", "update"} /\ queue' = "idle"
FramesAdvance ==
  [][Reports => /\ last' > last
                /\ start_of(last') <= now
                /\ start_of(last') > start_of(last)
                /\ state # "destroyed"]_controllerVars
===============================================================================
