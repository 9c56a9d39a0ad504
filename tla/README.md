# usbip-macos in TLA+

A specification of the USB/IP client for macOS in `src/`: the session that
multiplexes transfers over one TCP connection, the engine that moves transfers
between the endpoint rings of the host controller and the session, the host
controller itself, the descriptors the program rewrites, and the life of
`usbip attach` that ties them together. TLC checks small instances; TLAPS proves
the properties of the session and of the controller that matter most for every
instance.

## The system

| Part | Source | State | Operations | Talks to |
|---|---|---|---|---|
| Session | `client.rs` | next seqnum, pending submits, pending unlinks, recently unlinked, closed; frame channel; writer and reader tasks | submit, unlink, unlink_all, close; one round of each task | server over TCP; engine, main |
| Engine | `engine.rs` | per endpoint: ring, kind, URBs in flight, control setup, hidden configuration; next token | add/update/remove/reset/pause/sync endpoint, remove device, doorbell, finish, reset_device | session; rings; executor |
| Host controller | `host.rs` | state machines per device and endpoint, address pool, frame clock, powered, enumerated | one per command, doorbell, frame update, connect, disconnect | kernel (IOUSBHost); engine |
| Host controller data | `hci.rs` | none (pure), address pool | decode messages and doorbells, map statuses, parse endpoint descriptors, URB interval, hide UAS | engine, host |
| Wire format | `protocol.rs` | none | encode commands, read replies, handshake | session, main |
| Attach | `main.rs`, `cli.rs` | none | list, attach (connect, wait, detach) | session, controller |

What makes it hard:

- submit, unlink and close come from any thread, the writer and the reader are
  tasks of their own, and read_one unlocks the state while it waits for a
  payload;
- seqnums wrap around; unlinks cross completions on the wire; some servers
  answer a transfer after they have confirmed that it was unlinked;
- the engine reads ahead: several URBs are in flight for messages the host may
  pause, take back, reset or move away from, and the slots of a ring are reused;
- replies wait for their turn on a serial executor, which a device reset blocks
  for up to ten seconds;
- commands of the kernel, frame updates and the main thread share one queue, any
  call into IOUSBHost may fail, and the tables of the controller, the engine and
  the kernel must agree all the same;
- the connection may go at any point.

The full list of hazards, with the lines where they bite and the properties
aimed at them, is in `PROJECT.json`.

## Modules

| Module | Models |
|---|---|
| `Transfers` | what a session promises to those who submit through it: one outcome each, and which one is possible when |
| `Session` | `client.rs`, one action per critical section, with an external server |
| `SessionProofs` | theorems about `Session` |
| `Engine` | `engine.rs`, one action per entry point and per round of its loops, over the session of `Transfers`, with external host and device |
| `Controller` | the commands, answers, tables, address pool and frame clock of `host.rs`, with external kernel and IOUSBHost |
| `ControllerProofs` | theorems about `Controller` |
| `Attach` | `main.rs` from import to exit and the frame update task, composed with `Controller` and the session of `Transfers` |
| `Descriptors` | `hide_uas`, `hidden_config`, `EndpointInfo` and `endpoint_descriptor`, with external device and host |
| `MCSession`, `MCEngine`, `MCController`, `MCAttach`, `MCDescriptors` | instances for TLC |

### Session

The variables of `State` keep their names. `submits` maps a seqnum to the
request (its reply channel) and `unlinks` an unlink seqnum to its target.
`closing` holds what `Shared::close` has taken out of the table and not told
yet; `partial` is the RET_SUBMIT the reader holds between its two critical
sections; `targets` is the list of `unlink_all`. `reply` is what each caller was
told. The bytes on the wire are sequences of frames and replies in which a
payload is an element of its own, so that reading a payload as a header, or the
reverse, is a step the model can take. `ReadFails` is any error of `read_one`:
`read_loop` closes the session.

The server is external. A Linux server (`LateReplies = FALSE`) sends no
RET_SUBMIT for what it reports through RET_UNLINK; other servers may. It may
send garbage (`ServerFaults`) and may hang up, also within a reply.

`SeqMod` stands for 2^32 and `FirstSeqnum` for the traffic of the past.
`LapOutlivesTraffic` is an assumption on the environment, and a conjunct of
`NextSeqnum`: the counter does not run a whole lap of 2^32 requests while
traffic the tables have already forgotten is still under way. It says nothing of
numbers that are in the tables; those are next_seqnum's business.

### Engine

`work` is what the serial executor is doing: nothing, a round of `pump`, a round
of `fill`, or the blocking wait of `reset_device`. Entry points start when it is
idle. Rounds are separate actions because the session's threads, the server and
the host go on in between. `Pump*` are the branches of `pump`; `Head*` those of
`head_request`; `Fill*` those of `fill`; `Finish` is the task spawned by
`submit` followed by `finish`.

A message has a position on its ring (counted from the start) and an address
(the position modulo `RingSize`). The code sees addresses only: `OnHead` compares
addresses, and properties compare positions. `ring`, `completed`, `ran` and `ret`
record what the host asked for and was told, what the device ran and what it
gave; reads of an endpoint are numbered in the order the device served them.
A URB in flight carries the position it was built from for the sake of the
properties.

`HostOps` selects what else the host may do to each endpoint: `pause`,
`pausedevice`, `move` (and `lostmove`, when the command fails and
`sync_endpoint` is not called), `reset`, `update`, `remove`, `recreate`,
`reject` (a completion the host refuses, its buffer already written), `deaf` (a
doorbell whose processDoorbell fails, so that `pump` is not called) and `halt` (a
ring stops after an error). `Events` are those of the user and the network:
`detach` (`unlink_all`), `close`, `timeout`. `MaxDisruptions` bounds how often the
host interferes, a close and a detach included; `halt` and `timeout` are not
counted. `Scenes` lists the sets of endpoints one behaviour may create, so that
endpoints that share nothing are not multiplied with each other.

Unlinking several URBs is one step of `Transfers` (`Cancel` of a set). The
executor unlinks them one after the other; each call is a critical section of
its own in `Session`, and an order of calls only delays some of them, which
`Transfers` allows anyway since a cancelled transfer may still run.

The session of `Engine` is that of `Transfers` and `Session` implements
`Transfers` (run `session_linux`), so what is shown of the engine holds with the
real session against a server that behaves like Linux.

### Controller

`used` is the address pool; `devices`, `endpoints` and `enumerated` are those of
`Shared`; `rings` is the engine's table, kept beside the controller's by separate
calls. A state machine of IOUSBHost is a number, so that a table that holds a
stale one can be told from one that was updated. `hostDevices` and
`hostEndpoints` are what the kernel was told by answers that reached it; `stuck`
says why it waits for an answer that will not come.

Each branch of `Shared::command` is one action, from the lookup to the answer,
since it runs to its end on the queue. Two branches wait on the way, for the
reply to a device reset and for a frame that was not reported yet, and are two
actions each, with `queue` saying what the queue waits for. `answer` takes what a
command does and what the kernel learns from a successful answer; `Faults` says
which calls may fail: creating or finding a state machine, inspecting a command,
sending an answer. The port commands that change nothing (power off, resume,
suspend, disable, status) are one action, `PortCommand`.

The kernel is assumed lawful: it has one command under way at a time, and names
only devices and endpoints it was told exist. It may create an endpoint again
under the same key, and may send commands in any order. Creating a device needs
a connected port. After `destroy` the state machine is not active and no command
comes. A kernel whose command was not answered sends no further one: it was given
`COMMAND_TIMEOUT_THRESHOLD`, and what it does once that has passed the source does
not say. A processDoorbell that fails is a `doorbell` after which no `Pump` comes;
`Engine` has it as an action.

The clock is that of `FrameClock` with the epoch at 0: `Denom` ticks are `Numer`
frames. Time has no end, so the clock is set back by a whole number of frames at
`Horizon`, and `last` with it; a last report further back than one such
period is kept at one period, which no comparison of `next` can tell apart.

### Attach

`main` is where the main thread is, `frames` where the frame update task is, and
`updates` counts its blocks on the queue. `abort` takes effect at an await, so a
task that is past its tick still posts a block. Each call of main that runs on the
queue (`set_connected`, `destroy`) is a step that needs the queue idle.
`owner` tells which ring's state machine a transfer belongs to.

The engine is reduced here to what it does to the session: a ring in its table
may submit whenever the queue is free; a ring that leaves the table has its
transfers unlinked; commands that pause, reset or move a ring may unlink.
That the engine really unlinks what it drops is `NoOrphan` of `Engine`;
`GoneIsUnlinked` is about the calls the controller makes to it.

### Descriptors

A configuration is a sequence of descriptors, each with its type and length and,
for an interface, its number and whether it is UAS. A read returns its first bytes
and may end inside a descriptor. `Read` is the part of `apply` that treats
GET_DESCRIPTOR(CONFIGURATION); `Recreate` is `add_endpoint`, which forgets
`hidden_config`. The device keeps its configuration and reports the total of it.

## Runs

| Run | Shows | States |
|---|---|---|
| `session_linux` | `TypeOK`, `TablesAgree`, `OneHolder`, `RightReply`, `AnsweredOnce`, `UnlinkedIsNotRun`, `ImplementsTransfers` (refinement, with liveness) and `CloseStopsTasks`, with garbage and hang-ups | 650 k |
| `session_late` | `InFrame`, `RightReply`, `NoSpuriousClose` with late replies, some of them too late | 1.3 M |
| `engine_reads` | `Books`, `NoOrphan`, `PausedReadsUnlinked`, `ReadAheadInOrder`, `OwnBuffer` under everything a host does to a ring except moving it without notice, with links, stray messages, refusals, halts and failing doorbells | 2.4 M |
| `engine_once` | `TypeOK`, `NoLostRead` with one read in flight, `RunOnce` with read-ahead, `ControlRan` for any order of control stages, `OwnBuffer` with unannounced moves as long as no slot is used again | 1.7 M |
| `engine_live` | `EveryMessageServed`, `CloseDrains`, `ExecutorFreed` | 165 k |
| `controller` | `ControllerTypeOK`, `AddressesMatch`, `RingsAreEndpoints`, `HostViewAgrees`, `KnownToController`, `FramesAdvance`, with every call into IOUSBHost failing at will | 115 k |
| `attach` | `GoneIsUnlinked`, `FramesAdvance` (no report after main's `destroy`, whatever blocks the frame task has posted), `MainReturns` | 219 k |
| `descriptors` | `FullReadIsFiltered` against a reference definition, `HeaderAgreesOnDisks`, `ToldLengthSuffices`, `PeriodicHasInterval` | 45 k |
| `engine_readahead` | violates `NoLostRead`: see below | |
| `engine_links` | violates `RunOnce`: see below | |
| `engine_moves` | violates `OwnBuffer`: see below | |
| `descriptors_header` | violates `HeaderAgrees`: see below | |

Deadlock is checked in `controller` and `attach`. In the others it is not: requests,
tokens, messages and descriptors are bounded, and a behaviour may end.

Bounds. In `session_linux` two requests (an IN and an OUT) with their unlinks
compete for the three non-zero seqnums of `SeqMod = 4`, so the counter wraps with
numbers in use; `UnlinkedCap = 1` makes the queue of unlinked transfers overflow.
`session_late` adds a malformed request and has the four seqnums that two
transfers and their unlinks need, so that both can be answered late, while
`UnlinkedCap = 1` remembers one: the other's late reply closes the session, and
`NoSpuriousClose` says that nothing else does. In `engine_reads` a ring has three
slots for four messages, and three disruptions allow a pause and two moves: the
slot of the first message is then the head again while its URB would still be in
flight. `update` there changes a bulk endpoint to an interrupt one and back, and
with it the depth. `engine_once` has more slots than messages. Its control
endpoint gets five messages: two requests, one of them with a data stage. In
`engine_reads` and `engine_once` what an endpoint meets is chosen per endpoint,
and the control endpoint is used alone. `PausedReadsUnlinked` is about rings
that do not halt by themselves. `NoLostRead`, `RunOnce` and `ControlRan` are checked
on rings that are not reset, have no completion refused and, for writes and
control requests, are not moved: a host that does so gives up what was in flight. Depth 2 is the least at which reads run ahead of each other.
The token bounds leave room for every resubmission in the liveness run; elsewhere
they cut long behaviours short.

`controller` has two addresses, so that the pool runs out and the lowest free
address is not always the first, and four state machines: two devices with a
ring each, or one device whose rings are replaced. Its ratio of ticks to frames is not a whole number, so both divisions
round. `attach` has one endpoint that can be created anew and one transfer or
device reset: transfers do not meet in `Transfers`, and the queue has only one
waiter of its own. Its clock is the simplest one, since `controller` has the
interesting ones. `descriptors` has every sequence of up to four descriptors of
two interfaces, UAS or not, associations and endpoints, which is the least
that holds a UAS alternate with its endpoint, a fallback and something that
follows; lengths are all the ends of descriptors and the bytes just before them,
and what the host was told. An endpoint descriptor may end exactly at the limit of
512 bytes.

Fairness. Session: the runtime polls both tasks, a thread inside `close` or
`unlink_all` goes on, and the server reads what it was sent until it hangs up.
It need not ever complete a transfer. Engine: the executor runs what it was given,
in the order it was given (strong fairness for work that waits for the executor
to be idle), tasks are polled, the session answers what `Transfers` says it will,
the device serves a URB that is first in line, and a host that paused a ring
resumes it. `ExecutorFreed` does not rely on the device answering a reset.
Attach: threads run, time passes, the wait of a device reset ends after
`RESET_TIMEOUT` at the latest, and a block on the queue that main waits for has its
turn although others come between (the queue is first in, first out, hence strong
fairness). Neither the kernel, the server nor the user need do anything, so
`MainReturns` begins where main is told to stop or the connection has gone.

## Findings

*Reads dropped by a pause* (`engine_readahead`). With two reads in flight, a pause
unlinks both. If the first comes back Unlinked while the second has already
taken data from the device, `finish` drops the second with the first
(engine.rs:546): its data is lost. The comment of `pause_endpoint` promises that
replies which win the race are delivered. With one read in flight the promise is
kept (`engine_once`).

*A reply for another message* (`engine_moves`). When SET_NEXT_TRANSFER fails,
`sync_endpoint` is not called, and `pump` itself has to notice that the ring has
moved. It compares the address of the head with that of the oldest URB
(engine.rs:323). If the ring has gone once round in between, the same slot holds
another message: the URB is not unlinked, and its reply is written to a buffer it
was not asked for. The module comment says such replies are dropped. Where no
slot is used again the check is enough (`engine_once`), and with `sync_endpoint`
called it always is (`engine_reads`).

*A length forgotten* (`descriptors_header`). For a device with descriptors behind
the UAS alternate, a read that ends at one of them, short of the whole
configuration, is filtered by itself and replaces `hidden_config` with the totals
of that prefix (engine.rs:611). A header read after that reports the shorter
length, although the comment says it must be that of the full read. For devices
whose UAS alternate comes last this does not happen (`HeaderAgreesOnDisks`).

*Writes sent twice across a link* (`engine_links`). `peek` follows links, so a
write behind a link that needs a response is submitted early. When the link
becomes the head, `pump` takes the URB for one the host has moved away from,
unlinks it and submits the message again later; the device may run it twice.

## Known limits

Things the models showed that no run states, because nothing in the repository
promises otherwise or they are out of reach in practice:

- An entry of `unlinked` whose late RET_SUBMIT never comes stays until 256 later
  ones push it out, and `next_seqnum` does not look there. After 2^32 requests its
  number can be given to another transfer; if that one is unlinked too and
  answered late, `read_one` finds the older entry first (client.rs:363) and parses
  the reply with its direction. `session_late` has a counter that does not come
  round.
- `unlinked` has room for 256 transfers. A RET_SUBMIT for one that was pushed out
  closes the session (client.rs:370), although the server may have sent it in good
  faith: `NoSpuriousClose` allows exactly this.
- For a device with descriptors behind the UAS alternate, a read of the filtered
  length cuts the unfiltered descriptor, and the host gets less than the whole
  filtered configuration. `ToldLengthSuffices` is therefore about devices whose UAS
  alternate comes last, such as disks.
- An endpoint descriptor is assumed to lie within the 512 bytes that are read.
- What the engine submits between `unlink_all` and `destroy` is not unlinked before
  the connection closes.
- After a doorbell that fails a ring stands still until the next one or a reply:
  `EveryMessageServed` is checked with doorbells that work, and on rings that are
  not moved, reset or refused.
- `write_all` does not watch `closed`: the writer ends when the server reads, or the
  connection breaks, and `CloseStopsTasks` rests on the one or the other.
- Until the select in `attach`, nobody looks at the session: main waits for power
  and for Enter though the connection may have gone.
- If a call into IOUSBHost fails, the kernel may wait for an answer for ever
  (`stuck = "fault"`). The code has nothing else it could do.

## Proofs

`SessionProofs` proves, for any set of requests, any seqnum width, any cap and
either kind of server:

- `TypeCorrect`: `TypeOK`, which is inductive;
- `TablesCorrect`: `TablesAgree`. It is inductive relative to `TypeOK`: a number
  handed out is in neither table (`IsFree`), so no entry is overwritten; and
  whatever takes an entry out of `submits` takes the unlink for it out too, which
  needs that there is at most one;
- `HoldersCorrect`: `OneHolder`, inductive relative to the two. A caller is put
  into `submits` when it starts to wait and taken out by the step that answers
  it, or by `close`, which moves it to `closing`;
- `AnswersCorrect`: `AnsweredOnce`, an action property that follows from
  `OneHolder`: only somebody held in one of the two places is ever answered, and
  those are waiting.

`StepKinds` sorts the steps of `Next` into the few that touch the tables and the
rest; the three proofs that follow it have one step per kind. Assumptions:
`SessionAssumption` and `NoneIsNoReason`, which only give the constants their
types.

`ControllerProofs` proves, for any number of addresses, endpoints and state
machines, any calls failing and any ratio of ticks to frames:

- `ControllerTypes`, `NoAddressLeaks`, `RingsInStep`, `KernelInStep`: the
  invariants of the run `controller`. None but the type invariant is
  inductive alone. That an endpoint belongs to a device (`RingsAreEndpoints`) needs
  that the kernel creates endpoints only on devices the tables have; that it does
  so needs `HostViewAgrees`; and that stays true only if no command for something
  the kernel knows is dropped, which is `KnownToController`. `HostViewAgrees` also
  says what is left of the agreement when an answer was not sent: the tables hold
  nothing the kernel was not told of. The inductive `IInv`
  is their conjunction with `BusyIsAnswering`: while a command holds the queue,
  no other answer is missing, and nothing holds the queue of a destroyed
  controller. One lemma per command that changes a table, and `PlainStep` for
  the steps that change none;
- `FramesAdvanceHolds`: an action property. It rests on `IInv` and on four lemmas
  about the two divisions (`Quotient`, `Cancel`, `FrameBegan`, `LaterFrame`): a
  frame does not begin after the moment it was computed from, and a later
  frame begins later because a frame is no shorter than a tick, which
  `ControllerAssumption` says.

Only model-checked: the contents of `unlinked`, which is filtered with
`SelectSeq` (what that returns needs induction over sequences); `RightReply`,
`InFrame`, `NoSpuriousClose`, `UnlinkedIsNotRun`; everything about the engine and
about `Attach`; the descriptors, whose operators are recursive over sequences; and
all liveness, the refinement of `Transfers` included.

## Not modelled

- Bytes: the layout of frames, messages and descriptors, packing of isochronous
  data, and descriptors with impossible lengths, which `hide_uas` leaves alone.
  Conversions without state that unit tests cover line by line.
- The contents of the device list and the import reply (`protocol.rs`); `Attach`
  has the handshake as steps that succeed or fail.
- Command types the program does not support: it does not answer them, and the
  kernel of the model does not send them.
- IOUSBHost and the kernel, beyond what the code sees of them.
- The command line (`cli.rs`), `lib.rs`, and the example `loopback_probe.rs`.

## Plan

1. `Engine` over `Session` itself, without `Transfers` in between, for one endpoint.
2. `unpack_iso_in` as an operator against a reference definition.
3. Proofs: `Books` and `NoOrphan` of `Engine`; `RightReply` of `Session`; the safety
   part of `ImplementsTransfers`; `GoneIsUnlinked` of `Attach`.
