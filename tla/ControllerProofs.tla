--------------------------- MODULE ControllerProofs ---------------------------
(***************************************************************************)
(* Proofs about Controller, for any number of addresses and endpoints and   *)
(* any clock: the tables of the controller, the table of the engine and     *)
(* what the kernel was told stay in step whatever calls into IOUSBHost fail,*)
(* and frame reports advance.                                               *)
(***************************************************************************)
EXTENDS Controller, TLAPS

(* While a command holds the queue, the kernel waits for its answer, and   *)
(* nothing holds the queue of a controller that has been destroyed.        *)
BusyIsAnswering ==
  /\ queue \in {"reset", "frame"} => stuck = "no"
  /\ queue # "idle" => state # "destroyed"

Tables ==
  /\ AddressesMatch
  /\ RingsAreEndpoints
  /\ HostViewAgrees
  /\ KnownToController

(* The invariant that is inductive: a command finds what the kernel names   *)
(* because the kernel's view agrees with the tables, and the view stays so  *)
(* because every command finds what it names.                               *)
IInv == ControllerTypeOK /\ BusyIsAnswering /\ Tables

-------------------------------------------------------------------------------
(* Arithmetic of the frame clock. *)

(* Division: the quotient is the greatest multiple that is not above. *)
LEMMA Quotient ==
  ASSUME NEW a \in Int, NEW b \in Nat \ {0}
  PROVE  /\ a \div b \in Int
         /\ b * (a \div b) <= a
         /\ a < b * (a \div b) + b
  BY Z3

(* A factor is cancelled in a comparison. *)
LEMMA Cancel ==
  ASSUME NEW x \in Int, NEW y \in Int, NEW b \in Nat \ {0}, b * x < b * y + b
  PROVE  x <= y
  BY Z3

(* The frame of a moment is a number, and does not begin after it. *)
LEMMA FrameBegan ==
  ASSUME NEW t \in Int
  PROVE  /\ frame_at(t) \in Int
         /\ start_of(frame_at(t)) \in Int
         /\ start_of(frame_at(t)) <= t
<1> DEFINE f == (t * Numer) \div Denom
           s == (f * Denom) \div Numer
<1>1. /\ f \in Int
      /\ Denom * f <= t * Numer
  BY Quotient, ControllerAssumption
<1>2. /\ s \in Int
      /\ Numer * s <= f * Denom
  BY <1>1, Quotient, ControllerAssumption
<1> HIDE DEF f, s
<1>3. Numer * s <= Numer * t
  BY <1>1, <1>2, ControllerAssumption, Z3
<1>4. s <= t
  BY <1>2, <1>3, Cancel, ControllerAssumption
<1> QED
  BY <1>1, <1>2, <1>4 DEF f, s, frame_at, start_of

(* A later frame begins later, a frame being no shorter than a tick. *)
LEMMA LaterFrame ==
  ASSUME NEW f \in Int, NEW g \in Int, f < g
  PROVE  start_of(f) < start_of(g)
<1> DEFINE s == (f * Denom) \div Numer
           t == (g * Denom) \div Numer
<1>1. s \in Int /\ Numer * s <= f * Denom
  BY Quotient, ControllerAssumption
<1>2. t \in Int /\ g * Denom < Numer * t + Numer
  BY Quotient, ControllerAssumption
<1> HIDE DEF s, t
<1>3. f * Denom + Denom <= g * Denom
  BY ControllerAssumption, Z3
<1>4. Numer * (s + 1) < Numer * t + Numer
  BY <1>1, <1>2, <1>3, ControllerAssumption, Z3
<1>5. s + 1 <= t
  BY <1>1, <1>2, <1>4, Cancel, ControllerAssumption
<1> QED
  BY <1>1, <1>2, <1>5 DEF s, t, start_of

-------------------------------------------------------------------------------
(* Steps. *)

(* 0 stands for no state machine. *)
LEMMA NoMachine == 0 \notin Machines
  BY DEF Machines

(* What a step that changes neither a table nor the kernel's view of devices *)
(* and endpoints has to show.                                               *)
Keeps ==
  /\ UNCHANGED <<tables, hostDevices, hostEndpoints>>
  /\ stuck' = stuck \/ stuck' = "fault" \/ (stuck = "no" /\ stuck' = "no")
  /\ BusyIsAnswering'
  /\ queue' \in {"idle", "reset", "frame", "update"}
  /\ state' \in {"off", "active", "destroyed"}
  /\ powered' \in BOOLEAN /\ connected' \in BOOLEAN
  /\ now' \in 0..Horizon /\ last' \in Int

LEMMA KeepsHolds ==
  ASSUME IInv, Keeps
  PROVE  IInv'
<1>1. Tables'
  BY DEF IInv, Keeps, Tables, AddressesMatch, RingsAreEndpoints, HostViewAgrees,
         TablesAreTold, SameView, KnownToController, tables
<1>2. ControllerTypeOK'
  BY DEF IInv, Keeps, ControllerTypeOK, tables, Addresses, Keys, Machines
<1> QED
  BY <1>1, <1>2 DEF IInv, Keeps

LEMMA InitHolds == ControllerInit => IInv
<1> SUFFICES ASSUME ControllerInit PROVE IInv
  OBVIOUS
<1>1. ControllerTypeOK
  <2>1. -Numer \in Int /\ 0 \in 0..MaxMachines /\ 0 \in 0..Horizon
    BY ControllerAssumption
  <2> QED
    BY <2>1 DEF ControllerInit, ControllerTypeOK
<1>2. Tables /\ BusyIsAnswering
  BY NoMachine DEF ControllerInit, Tables, AddressesMatch, RingsAreEndpoints, HostViewAgrees,
         TablesAreTold, SameView, KnownToController, BusyIsAnswering
<1> QED
  BY <1>1, <1>2 DEF IInv

(* Commands and blocks that leave the tables alone. *)
LEMMA PlainStep ==
  ASSUME IInv,
         \/ Tick
         \/ \E s \in {"off", "active"} : ControllerCommand(s)
         \/ FrameNumberCommand \/ FrameNumberAnswer
         \/ PortPowerOn \/ PortCommand
         \/ \E open \in BOOLEAN : PortReset(open)
         \/ PortResetOver
         \/ \E to \in BOOLEAN : SetConnected(to)
         \/ Destroy
         \/ FrameUpdate \/ FrameUpdateReport
  PROVE  IInv'
<1>0. ControllerTypeOK /\ BusyIsAnswering /\ Tables
  BY DEF IInv
<1>f. frame_at(now) \in Int
  BY <1>0, FrameBegan DEF ControllerTypeOK
<1> USE DEF Respond, answer, Unanswered, Command, tables, kernel, clock,
            ControllerTypeOK, BusyIsAnswering, Keeps
<1>1. CASE Tick
  BY <1>1, <1>0, ControllerAssumption, KeepsHolds DEF Tick, Older
<1>2. CASE \E s \in {"off", "active"} : ControllerCommand(s)
  BY <1>2, <1>0, KeepsHolds DEF ControllerCommand
<1>3. CASE FrameNumberCommand
  BY <1>3, <1>0, KeepsHolds DEF FrameNumberCommand
<1>4. CASE FrameNumberAnswer
  BY <1>4, <1>0, <1>f, KeepsHolds DEF FrameNumberAnswer
<1>5. CASE PortPowerOn
  BY <1>5, <1>0, KeepsHolds DEF PortPowerOn
<1>6. CASE \E open \in BOOLEAN : PortReset(open)
  BY <1>6, <1>0, KeepsHolds DEF PortReset
<1>7. CASE PortResetOver
  BY <1>7, <1>0, KeepsHolds DEF PortResetOver
<1>8. CASE \E to \in BOOLEAN : SetConnected(to)
  BY <1>8, <1>0, KeepsHolds DEF SetConnected
<1>9. CASE Destroy
  BY <1>9, <1>0, KeepsHolds DEF Destroy
<1>10. CASE FrameUpdate
  BY <1>10, <1>0, KeepsHolds DEF FrameUpdate
<1>11. CASE FrameUpdateReport
  BY <1>11, <1>0, <1>f, KeepsHolds DEF FrameUpdateReport
<1>12. CASE PortCommand
  BY <1>12, <1>0, KeepsHolds DEF PortCommand
<1> QED
  BY <1>1, <1>2, <1>3, <1>4, <1>5, <1>6, <1>7, <1>8, <1>9, <1>10, <1>11, <1>12

(* DEVICE_CREATE gives out an address that is free, or gives it back. *)
LEMMA DeviceCreateStep ==
  ASSUME IInv, DeviceCreate
  PROVE  IInv'
<1>0. ControllerTypeOK /\ BusyIsAnswering /\ Tables
  BY DEF IInv
<1> USE DEF Respond, Command, tables, kernel, clock
<1>1. CASE Keeps
  BY <1>1, KeepsHolds
<1>2. CASE ~Keeps
  <2>1. PICK a \in Allocatable : 
          /\ made' = made + 1 /\ made < MaxMachines
          /\ stuck = "no" /\ queue' = queue /\ queue = "idle"
          /\ UNCHANGED <<endpoints, rings, hostEndpoints, powered, state, clock, connected>>
          /\ \/ /\ stuck' = "no"
                /\ hostDevices' = hostDevices \cup {<<a, made + 1>>}
                /\ used' = used \cup {a}
                /\ devices' = [devices EXCEPT ![a] = made + 1]
                /\ enumerated' = TRUE
             \/ /\ stuck' = "fault"
                /\ hostDevices' = hostDevices
                /\ used' = (used \cup {a}) \ {a}
                /\ UNCHANGED <<devices, enumerated>>
    BY <1>0, <1>2 DEF DeviceCreate, Unanswered, release, Keeps, ControllerTypeOK, BusyIsAnswering
  <2>2. a \in Addresses /\ a \notin used
    BY DEF Allocatable
  <2>m. made + 1 \in Machines /\ made + 1 \in 0..MaxMachines /\ made + 1 # 0
    BY <2>1, <1>0, ControllerAssumption DEF ControllerTypeOK, Machines
  <2>d. devices[a] = 0
    BY <2>2, <1>0 DEF Tables, AddressesMatch
  <2>t. /\ devices' \in [Addresses -> 0..MaxMachines]
        /\ hostDevices' \subseteq Addresses \X Machines
        /\ used' \subseteq Addresses
    BY <1>0, <2>1, <2>2, <2>m DEF ControllerTypeOK
  <2>3. ControllerTypeOK' /\ BusyIsAnswering'
    BY <1>0, <2>1, <2>m, <2>t DEF ControllerTypeOK, BusyIsAnswering
  <2>4. AddressesMatch' /\ RingsAreEndpoints' /\ KnownToController'
    BY <1>0, <2>1, <2>2, <2>m, <2>d
       DEF Tables, AddressesMatch, RingsAreEndpoints, KnownToController, ControllerTypeOK, Keys
  <2>5. HostViewAgrees'
    <3>t. TablesAreTold'
      BY <1>0, <2>1, <2>2, <2>m DEF Tables, HostViewAgrees, TablesAreTold, ControllerTypeOK
    <3> SUFFICES ASSUME stuck' = "no" PROVE SameView'
      BY <3>t DEF HostViewAgrees
    <3>1. hostDevices' = {d \in Addresses \X Machines : devices'[d[1]] = d[2]}
      BY <1>0, <2>1, <2>2, <2>m, <2>d, NoMachine DEF Tables, HostViewAgrees, SameView, ControllerTypeOK
    <3>2. hostEndpoints' = {e \in Keys \X Machines : endpoints'[e[1]] = e[2]}
      BY <1>0, <2>1 DEF Tables, HostViewAgrees, SameView
    <3> QED
      BY <3>1, <3>2 DEF SameView
  <2> QED
    BY <2>3, <2>4, <2>5 DEF IInv, Tables
<1> QED
  BY <1>1, <1>2

(* DEVICE_DESTROY takes the device and its endpoints out of every table. *)
LEMMA DeviceDestroyStep ==
  ASSUME IInv, NEW a \in Addresses, DeviceDestroy(a)
  PROVE  IInv'
<1>0. ControllerTypeOK /\ BusyIsAnswering /\ Tables
  BY DEF IInv
<1> USE DEF Respond, answer, Command, tables, kernel, clock
<1>1. devices[a] # 0
  BY <1>0, NoMachine DEF DeviceDestroy, HasDevice, Tables, HostViewAgrees, SameView, ControllerTypeOK
<1>2. CASE Keeps
  BY <1>2, KeepsHolds
<1>3. CASE ~Keeps
  <2>1. /\ rings' = WithoutDevice(rings, a)
        /\ endpoints' = WithoutDevice(endpoints, a)
        /\ devices' = [devices EXCEPT ![a] = 0]
        /\ used' = used \ {a}
        /\ stuck = "no" /\ queue' = queue /\ queue = "idle"
        /\ UNCHANGED <<enumerated, made, powered, state, clock, connected>>
        /\ \/ /\ stuck' = "no"
              /\ hostDevices' = {d \in hostDevices : d[1] # a}
              /\ hostEndpoints' = {e \in hostEndpoints : e[1][1] # a}
           \/ stuck' = "fault" /\ UNCHANGED <<hostDevices, hostEndpoints>>
    BY <1>0, <1>1, <1>3 DEF DeviceDestroy, release, Keeps, ControllerTypeOK, BusyIsAnswering
  <2>2. ControllerTypeOK' /\ BusyIsAnswering'
    BY <1>0, <2>1, ControllerAssumption
       DEF ControllerTypeOK, BusyIsAnswering, Addresses, Keys, Machines, WithoutDevice
  <2>3. AddressesMatch' /\ RingsAreEndpoints' /\ KnownToController'
    BY <1>0, <2>1
       DEF Tables, AddressesMatch, RingsAreEndpoints, KnownToController, ControllerTypeOK,
           Addresses, Keys, WithoutDevice
  <2>4. HostViewAgrees'
    <3>1. TablesAreTold'
      BY <1>0, <2>1 DEF Tables, HostViewAgrees, TablesAreTold, ControllerTypeOK, Keys, WithoutDevice
    <3>2. stuck' = "no" => SameView'
      BY <1>0, <2>1, NoMachine
         DEF Tables, HostViewAgrees, SameView, ControllerTypeOK, Keys, WithoutDevice
    <3> QED
      BY <3>1, <3>2 DEF HostViewAgrees
  <2> QED
    BY <2>2, <2>3, <2>4 DEF IInv, Tables
<1> QED
  BY <1>2, <1>3

(* The other device and endpoint commands find what they name. *)
LEMMA FoundStep ==
  ASSUME IInv,
         \/ \E a \in Addresses : DeviceCommand(a)
         \/ \E k \in Keys : EndpointCommand(k)
  PROVE  IInv'
<1>0. ControllerTypeOK /\ BusyIsAnswering /\ Tables
  BY DEF IInv
<1>1. ASSUME NEW a \in Addresses, stuck = "no", HasDevice(a) PROVE devices[a] # 0
  BY <1>0, <1>1, NoMachine DEF HasDevice, Tables, HostViewAgrees, SameView
<1>2. ASSUME NEW k \in Keys, stuck = "no", HasEndpoint(k) PROVE endpoints[k] # 0
  BY <1>0, <1>2, NoMachine DEF HasEndpoint, Tables, HostViewAgrees, SameView
<1> USE DEF Respond, answer, Command, tables, kernel, clock, ControllerTypeOK,
            BusyIsAnswering, Keeps
<1>3. CASE \E a \in Addresses : DeviceCommand(a)
  BY <1>0, <1>1, <1>3, KeepsHolds DEF DeviceCommand
<1>4. CASE \E k \in Keys : EndpointCommand(k)
  BY <1>0, <1>2, <1>4, KeepsHolds DEF EndpointCommand
<1> QED
  BY <1>3, <1>4

(* ENDPOINT_CREATE enters, or replaces, the endpoint in both tables. *)
LEMMA EndpointCreateStep ==
  ASSUME IInv, NEW k \in Keys, EndpointCreate(k)
  PROVE  IInv'
<1>0. ControllerTypeOK /\ BusyIsAnswering /\ Tables
  BY DEF IInv
<1> USE DEF Respond, Command, tables, kernel, clock
<1>1. devices[k[1]] # 0
  BY <1>0, NoMachine DEF EndpointCreate, HasDevice, Tables, HostViewAgrees, SameView, Keys
<1>2. CASE Keeps
  BY <1>2, KeepsHolds
<1>3. CASE ~Keeps
  <2>1. /\ made' = made + 1 /\ made < MaxMachines
        /\ stuck = "no" /\ queue' = queue /\ queue = "idle"
        /\ UNCHANGED <<used, devices, enumerated, hostDevices, powered, state, clock, connected>>
        /\ \/ /\ stuck' = "no"
              /\ hostEndpoints' = {e \in hostEndpoints : e[1] # k} \cup {<<k, made + 1>>}
              /\ endpoints' = [endpoints EXCEPT ![k] = made + 1]
              /\ rings' = [rings EXCEPT ![k] = made + 1]
           \/ stuck' = "fault" /\ UNCHANGED <<hostEndpoints, endpoints, rings>>
    BY <1>0, <1>3 DEF EndpointCreate, Unanswered, Keeps, ControllerTypeOK, BusyIsAnswering
  <2>m. made + 1 \in Machines /\ made + 1 \in 0..MaxMachines
    BY <2>1, <1>0, ControllerAssumption DEF ControllerTypeOK, Machines
  <2>2. /\ endpoints' \in [Keys -> 0..MaxMachines]
        /\ rings' \in [Keys -> 0..MaxMachines]
        /\ hostEndpoints' \subseteq Keys \X Machines
    BY <1>0, <2>1, <2>m DEF ControllerTypeOK
  <2>3. ControllerTypeOK' /\ BusyIsAnswering'
    BY <1>0, <2>1, <2>m, <2>2 DEF ControllerTypeOK, BusyIsAnswering
  <2>4. AddressesMatch' /\ RingsAreEndpoints' /\ KnownToController'
    BY <1>0, <1>1, <2>1
       DEF Tables, AddressesMatch, RingsAreEndpoints, KnownToController, ControllerTypeOK
  <2>5. HostViewAgrees'
    <3>t. TablesAreTold'
      BY <1>0, <2>1, <2>m DEF Tables, HostViewAgrees, TablesAreTold, ControllerTypeOK
    <3> SUFFICES ASSUME stuck' = "no" PROVE SameView'
      BY <3>t DEF HostViewAgrees
    <3>1. hostDevices' = {d \in Addresses \X Machines : devices'[d[1]] = d[2]}
      BY <1>0, <2>1 DEF Tables, HostViewAgrees, SameView
    <3>2. hostEndpoints' = {e \in Keys \X Machines : endpoints'[e[1]] = e[2]}
      BY <1>0, <2>1, <2>m DEF Tables, HostViewAgrees, SameView, ControllerTypeOK
    <3> QED
      BY <3>1, <3>2 DEF SameView
  <2> QED
    BY <2>3, <2>4, <2>5 DEF IInv, Tables
<1> QED
  BY <1>2, <1>3

(* ENDPOINT_DESTROY takes it out of both. *)
LEMMA EndpointDestroyStep ==
  ASSUME IInv, NEW k \in Keys, EndpointDestroy(k)
  PROVE  IInv'
<1>0. ControllerTypeOK /\ BusyIsAnswering /\ Tables
  BY DEF IInv
<1> USE DEF Respond, answer, Command, tables, kernel, clock
<1>1. endpoints[k] # 0
  BY <1>0, NoMachine DEF EndpointDestroy, HasEndpoint, Tables, HostViewAgrees, SameView
<1>2. CASE Keeps
  BY <1>2, KeepsHolds
<1>3. CASE ~Keeps
  <2>1. /\ rings' = [rings EXCEPT ![k] = 0]
        /\ endpoints' = [endpoints EXCEPT ![k] = 0]
        /\ stuck = "no" /\ queue' = queue /\ queue = "idle"
        /\ UNCHANGED <<used, devices, enumerated, made, hostDevices, powered, state, clock, connected>>
        /\ \/ stuck' = "no" /\ hostEndpoints' = {e \in hostEndpoints : e[1] # k}
           \/ stuck' = "fault" /\ UNCHANGED hostEndpoints
    BY <1>0, <1>1, <1>3 DEF EndpointDestroy, Keeps, ControllerTypeOK, BusyIsAnswering
  <2>2. ControllerTypeOK' /\ BusyIsAnswering'
    BY <1>0, <2>1, ControllerAssumption DEF ControllerTypeOK, BusyIsAnswering
  <2>3. AddressesMatch' /\ RingsAreEndpoints' /\ KnownToController'
    BY <1>0, <2>1
       DEF Tables, AddressesMatch, RingsAreEndpoints, KnownToController, ControllerTypeOK
  <2>4. HostViewAgrees'
    <3>t. TablesAreTold'
      BY <1>0, <2>1 DEF Tables, HostViewAgrees, TablesAreTold, ControllerTypeOK
    <3> SUFFICES ASSUME stuck' = "no" PROVE SameView'
      BY <3>t DEF HostViewAgrees
    <3>1. hostDevices' = {d \in Addresses \X Machines : devices'[d[1]] = d[2]}
      BY <1>0, <2>1 DEF Tables, HostViewAgrees, SameView
    <3>2. hostEndpoints' = {e \in Keys \X Machines : endpoints'[e[1]] = e[2]}
      BY <1>0, <2>1, NoMachine DEF Tables, HostViewAgrees, SameView, ControllerTypeOK
    <3> QED
      BY <3>1, <3>2 DEF SameView
  <2> QED
    BY <2>2, <2>3, <2>4 DEF IInv, Tables
<1> QED
  BY <1>2, <1>3

-------------------------------------------------------------------------------
(* Theorems. *)

LEMMA StepHolds == IInv /\ [ControllerNext]_controllerVars => IInv'
<1> SUFFICES ASSUME IInv, [ControllerNext]_controllerVars PROVE IInv'
  OBVIOUS
<1>1. CASE ControllerNext
  BY <1>1, PlainStep, DeviceCreateStep, DeviceDestroyStep, FoundStep, EndpointCreateStep,
     EndpointDestroyStep DEF ControllerNext
<1>2. CASE UNCHANGED controllerVars
  BY <1>2, KeepsHolds
     DEF controllerVars, Keeps, IInv, BusyIsAnswering, ControllerTypeOK, tables, kernel, clock
<1> QED
  BY <1>1, <1>2

(* The inductive invariant holds in every behaviour of the controller. *)
THEOREM ControllerInvariant == ControllerSpec => []IInv
  BY InitHolds, StepHolds, PTL DEF ControllerSpec

(* The variables of the controller keep their types. *)
THEOREM ControllerTypes == ControllerSpec => []ControllerTypeOK
<1>1. IInv => ControllerTypeOK
  BY DEF IInv
<1> QED
  BY <1>1, ControllerInvariant, PTL

(* AddressPool and the devices table agree: no address leaks and none is    *)
(* given to two devices, for any number of addresses.                       *)
THEOREM NoAddressLeaks == ControllerSpec => []AddressesMatch
<1>1. IInv => AddressesMatch
  BY DEF IInv, Tables
<1> QED
  BY <1>1, ControllerInvariant, PTL

(* The engine's rings are those of the controller's endpoints. *)
THEOREM RingsInStep == ControllerSpec => []RingsAreEndpoints
<1>1. IInv => RingsAreEndpoints
  BY DEF IInv, Tables
<1> QED
  BY <1>1, ControllerInvariant, PTL

(* The kernel knows what the tables hold while it gets its answers, so a    *)
(* command that names what the kernel knows is never dropped as unknown; and *)
(* the tables never hold what it was not told of.                           *)
THEOREM KernelInStep == ControllerSpec => [](HostViewAgrees /\ KnownToController)
<1>1. IInv => HostViewAgrees /\ KnownToController
  BY DEF IInv, Tables
<1> QED
  BY <1>1, ControllerInvariant, PTL

(* Only next() ends a wait for a frame, and its frame is a later one. *)
LEMMA ReportStep ==
  ASSUME IInv, [ControllerNext]_controllerVars, Reports
  PROVE  /\ last' > last
         /\ start_of(last') <= now
         /\ start_of(last') > start_of(last)
         /\ state # "destroyed"
<1>0. last \in Int /\ now \in Int
  BY DEF IInv, ControllerTypeOK
<1>6. state # "destroyed"
  BY DEF IInv, BusyIsAnswering, Reports
<1>1. frame_at(now) > last /\ last' = frame_at(now)
  BY DEF Reports, ControllerNext, controllerVars, NextFrameReady, FrameNumberAnswer,
         FrameUpdateReport, Tick, ControllerCommand, FrameNumberCommand, PortPowerOn, PortCommand,
         PortReset, PortResetOver, DeviceCreate, DeviceDestroy, DeviceCommand, EndpointCreate,
         EndpointDestroy, EndpointCommand, SetConnected, Destroy, FrameUpdate, Command
<1>2. frame_at(now) \in Int /\ start_of(frame_at(now)) <= now
  BY <1>0, FrameBegan
<1>3. last < frame_at(now)
  BY <1>0, <1>1, <1>2
<1>4. start_of(last) < start_of(frame_at(now))
  BY <1>0, <1>2, <1>3, LaterFrame
<1>5. start_of(last) \in Int /\ start_of(frame_at(now)) \in Int
  BY <1>0, <1>2, FrameBegan, Quotient, ControllerAssumption DEF start_of
<1> QED
  BY <1>1, <1>2, <1>4, <1>5, <1>6

(* FrameClock: reports are of ever later frames, with ever later times that *)
(* have passed, whatever the ratio of ticks to frames, and never to a       *)
(* controller that has been destroyed.                                      *)
THEOREM FramesAdvanceHolds == ControllerSpec => FramesAdvance
<1> DEFINE Later == Reports => /\ last' > last
                               /\ start_of(last') <= now
                               /\ start_of(last') > start_of(last)
                               /\ state # "destroyed"
<1>1. IInv /\ [ControllerNext]_controllerVars => [Later]_controllerVars
  BY ReportStep
<1> QED
  BY <1>1, ControllerInvariant, PTL DEF ControllerSpec, FramesAdvance
===============================================================================
