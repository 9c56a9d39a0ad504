-------------------------------- MODULE Engine --------------------------------
(***************************************************************************)
(* engine.rs: moves transfers between the rings of the host controller and  *)
(* a session.  Everything but the wait for a reply runs on one serial       *)
(* executor; `work` is what the executor is in the middle of.  One round of *)
(* the loops in pump and fill is one action, because the session (its tasks *)
(* run on other threads), the server and the memory of the ring go on while *)
(* pump holds the engine's lock.  Nothing else runs on the executor until   *)
(* `work` is idle again.                                                    *)
(*                                                                          *)
(* The session is the one of Transfers (Session implements it); a token     *)
(* stands for the URB it was drawn for, seqnum and reply channel included.  *)
(* The host with its rings, and the device behind the server, are external. *)
(***************************************************************************)
EXTENDS Integers, Sequences, FiniteSets

CONSTANTS
  Keys,          \* endpoint keys (device, endpoint address)
  InKeys,        \* those with key.1 & 0x80
  ControlKeys,   \* those with key.1 & 0x7f = 0
  DeviceOf,      \* key.0
  KindsOf,       \* the kinds EndpointInfo may give a key
  Offers,        \* the messages the host puts on the ring of a key
  BulkDepth, IsoDepth,   \* depth(): 8 and 32 in the code
  RingSize,      \* message slots of a ring, used over and over
  UrbStatuses,   \* what the device may answer on an endpoint
  HostOps,       \* what else the host may do to an endpoint
  Events,        \* what the user and the network may do
  Resets,        \* calls of reset_device
  Scenes,        \* bound: the sets of endpoints one behaviour uses
  MaxMessages,   \* bound: messages on the ring of an endpoint
  MaxTokens, MaxDisruptions,   \* bounds
  None

Tokens   == 0..(MaxTokens - 1)
Requests == Tokens \cup Resets
Kinds    == {"control", "interrupt", "bulk", "isochronous"}
(* What Transfer::decode makes of a message.  A "hostlink" needs no response, *)
(* of a "torn" one Ring::read does not give the whole buffer, and "unknown"   *)
(* is Transfer::Other.                                                        *)
Messages == {"setup", "normal", "iso", "status", "link", "hostlink", "torn", "unknown"}
Stages   == {"ControlData", "ControlStatus", "Normal", "Isochronous"}
Statuses == {"Success", "Error", "Offline", "EndpointStopped", "StallError"}

ASSUME EngineAssumption ==
  /\ InKeys \subseteq Keys /\ ControlKeys \subseteq Keys
  /\ InKeys \cap ControlKeys = {}
  /\ DOMAIN DeviceOf = Keys
  /\ KindsOf \in [Keys -> SUBSET Kinds]
  /\ Offers \in [Keys -> SUBSET Messages]
  /\ BulkDepth \in Nat \ {0} /\ IsoDepth \in Nat \ {0}
  /\ RingSize \in Nat \ {0}
  /\ UrbStatuses \in [Keys -> SUBSET {"Success", "StallError", "Offline"}]
  /\ DOMAIN HostOps = Keys
  /\ Events \subseteq {"close", "detach", "timeout"}
  /\ Scenes \subseteq SUBSET Keys
  /\ MaxMessages \in [Keys -> Nat]
  /\ MaxTokens \in Nat /\ MaxDisruptions \in Nat
  /\ Resets \cap Tokens = {}

VARIABLES
  endpoints,    \* keys of State.endpoints
  kind,         \* EndpointInfo.kind
  setup,        \* Endpoint.setup: position of the SETUP (0: None), data_done
  inFlight,     \* Endpoint.in_flight
  nextToken,    \* State.next_token
  work,         \* what the executor is running
  awaiting,     \* tokens whose spawned task has not called finish yet
  ring,         \* messages the host has put on a ring so far
  head,         \* position of the head message
  active,       \* Ring::active
  bell,         \* a doorbell the host has rung and the queue not run yet
  completed,    \* completions the host has accepted (history)
  disruptions,  \* how often the host has interfered so far (bound)
  urb,          \* what the server knows of a URB
  ret,          \* RET_SUBMIT of a URB: status, and number of the data it took
  produced,     \* how much data a device has given on an endpoint
  ran,          \* OUT and control transfers the device has run (history)
  reply, cancelled, executed, open   \* the session, see Transfers

S == INSTANCE Transfers

session == <<reply, cancelled, executed, open>>
server  == <<urb, ret, produced, ran>>
host    == <<ring, head, active, bell, completed, disruptions>>
engine  == <<endpoints, kind, setup, inFlight, nextToken, awaiting>>
vars    == <<engine, work, host, server, session>>

Idle        == [op |-> "idle"]
Pump(k, b)  == [op |-> "pump", key |-> k, offline |-> b]
Fill(k)     == [op |-> "fill", key |-> k]
Reset(r)    == [op |-> "reset", request |-> r]

(* URBs kept in flight per endpoint. *)
depth(kd) ==
  CASE kd = "isochronous" -> IsoDepth
    [] kd = "bulk" -> BulkDepth
    [] OTHER -> 1

NoSetup == [pos |-> 0, done |-> FALSE]

InFlight == [token : Tokens, message : 0..(RingSize - 1), pos : Nat, stage : Stages,
             unlinking : BOOLEAN, result : S!Outcomes \cup {None}]

TypeOK ==
  /\ endpoints \subseteq Keys
  /\ kind \in [Keys -> Kinds]
  /\ setup \in [Keys -> [pos : Nat, done : BOOLEAN]]
  /\ inFlight \in [Keys -> Seq(InFlight)]
  /\ \A k \in Keys : \E kd \in KindsOf[k] : Len(inFlight[k]) <= depth(kd)
  /\ nextToken \in 0..MaxTokens
  /\ \/ work = Idle
     \/ \E k \in Keys : work = Fill(k) \/ \E b \in BOOLEAN : work = Pump(k, b)
     \/ \E r \in Resets : work = Reset(r)
  /\ awaiting \subseteq Tokens
  /\ ring \in [Keys -> Seq(Messages)]
  /\ head \in [Keys -> Nat \ {0}]
  /\ active \in [Keys -> BOOLEAN]
  /\ bell \in [Keys -> BOOLEAN]
  /\ completed \in [Keys -> Seq([pos : Nat, by : Nat, status : Statuses, data : Nat])]
  /\ disruptions \in 0..MaxDisruptions
  /\ urb \in [Tokens -> [key : Keys \cup {None}, pos : Nat]]
  /\ ret \in [Tokens -> [status : Statuses, data : Nat]]
  /\ produced \in [Keys -> Nat]
  /\ ran \in [Keys -> Seq(Nat)]
  /\ S!TypeOK

Init ==
  /\ endpoints = {}
  /\ kind \in {f \in [Keys -> Kinds] : \A k \in Keys : f[k] \in KindsOf[k]}
  /\ setup = [k \in Keys |-> NoSetup]
  /\ inFlight = [k \in Keys |-> <<>>]
  /\ nextToken = 0 /\ awaiting = {} /\ work = Idle
  /\ ring = [k \in Keys |-> <<>>] /\ head = [k \in Keys |-> 1]
  /\ active = [k \in Keys |-> FALSE] /\ bell = [k \in Keys |-> FALSE]
  /\ completed = [k \in Keys |-> <<>>] /\ disruptions = 0
  /\ urb = [t \in Tokens |-> [key |-> None, pos |-> 0]]
  /\ ret = [t \in Tokens |-> [status |-> "Success", data |-> 0]]
  /\ produced = [k \in Keys |-> 0] /\ ran = [k \in Keys |-> <<>>]
  /\ S!Init

------------------------------------------------------------------------------
(* Helpers *)

(* Identity of a message: the address of its slot. *)
Address(p) == p % RingSize

(* Ring::current: contents of the head, if it is a valid message. *)
HasTransfer(k) == head[k] <= Len(ring[k])
Transfer(k) == ring[k][head[k]]

(* Ring::peek: position of the transfer `ahead` after the head; links are     *)
(* followed and not counted.                                                  *)
NotLinks(k, lo, hi) == {p \in lo..hi : ring[k][p] \notin {"link", "hostlink"}}
Peek(k, ahead) ==
  {p \in NotLinks(k, head[k], Len(ring[k])) :
     Cardinality(NotLinks(k, head[k], p - 1)) = ahead}

(* Tokens of the URBs that are still on the server: unlink_all cancels these. *)
Unfinished(q) == {q[i].token : i \in {j \in DOMAIN q : q[j].result = None}}

(* OnHead, without comparing messages. *)
OnHeadAssumed(k) == inFlight[k] # <<>>

OnHead(k) == inFlight[k] # <<>> /\ inFlight[k][1].message = Address(head[k])

error_status(e) ==
  CASE e = "disconnected" -> "Offline"
    [] e = "unlinked" -> "EndpointStopped"
    [] e = "invalid" -> "Error"

(* Ring::complete, accepted.  `by` is the position of the message the URB was *)
(* built from, or 0 if there was no URB.  A ring may halt on an error.        *)
Accepted(k, status, by, data) ==
  /\ head' = [head EXCEPT ![k] = @ + 1]
  /\ completed' = [completed EXCEPT ![k] =
       Append(@, [pos |-> head[k], by |-> by, status |-> status, data |-> data])]
  /\ \/ active' = active
     \/ /\ "halt" \in HostOps[k] /\ status # "Success"
        /\ active' = [active EXCEPT ![k] = FALSE]
  /\ UNCHANGED <<ring, bell, disruptions>>

Interfere ==
  /\ disruptions < MaxDisruptions
  /\ disruptions' = disruptions + 1

Disrupt(op, k) == op \in HostOps[k] /\ Interfere

(* Ring::complete, refused.  The buffer of the head has been written by then, *)
(* and the message stays where it is.                                         *)
Rejected(k) ==
  /\ Disrupt("reject", k)
  /\ UNCHANGED <<ring, head, active, bell, completed>>

------------------------------------------------------------------------------
(* pump: one round of its loop per action *)

Pumping(k, offline) == work = Pump(k, offline)

PumpReturns(k, offline) ==
  /\ Pumping(k, offline)
  /\ \/ k \notin endpoints
     \/ ~active[k]
     \/ OnHead(k) /\ inFlight[k][1].result = None /\ offline
     \/ inFlight[k] = <<>> /\ (~HasTransfer(k) \/ offline)
  /\ work' = Idle
  /\ UNCHANGED <<engine, host, server, session>>

(* The ring is not where the oldest URB was built: drop and unlink them all. *)
PumpStale(k, offline) ==
  /\ Pumping(k, offline)
  /\ k \in endpoints /\ active[k]
  /\ inFlight[k] # <<>> /\ ~OnHead(k)
  /\ inFlight' = [inFlight EXCEPT ![k] = <<>>]
  /\ S!Cancel(Unfinished(inFlight[k]))
  /\ UNCHANGED <<endpoints, kind, setup, nextToken, awaiting, work, host, server>>

(* apply: complete the head with the result of its URB. *)
Result(f) ==
  IF f.result = "ok" THEN ret[f.token].status ELSE error_status(f.result)
ResultData(f) == IF f.result = "ok" THEN ret[f.token].data ELSE 0

(* PumpApply, stopping at the first Offline. *)
PumpApplyStops(k, offline) ==
  /\ Pumping(k, offline)
  /\ k \in endpoints /\ active[k]
  /\ OnHead(k) /\ inFlight[k][1].result # None
  /\ LET f == inFlight[k][1]
         status == Result(f)
     IN /\ inFlight' = [inFlight EXCEPT ![k] = Tail(@)]
        /\ setup' = [setup EXCEPT ![k] =
             CASE f.stage = "ControlData" /\ @ # NoSetup -> [@ EXCEPT !.done = TRUE]
               [] f.stage = "ControlStatus" -> NoSetup
               [] OTHER -> @]
        /\ \/ /\ Accepted(k, status, f.pos, ResultData(f))
              /\ work' = IF status = "Offline" THEN Idle ELSE work
           \/ Rejected(k) /\ work' = Idle
  /\ UNCHANGED <<endpoints, kind, nextToken, awaiting, server, session>>

PumpApply(k, offline) ==
  /\ Pumping(k, offline)
  /\ k \in endpoints /\ active[k]
  /\ OnHead(k) /\ inFlight[k][1].result # None
  /\ LET f == inFlight[k][1]
         status == Result(f)
     IN /\ inFlight' = [inFlight EXCEPT ![k] = Tail(@)]
        /\ setup' = [setup EXCEPT ![k] =
             CASE f.stage = "ControlData" /\ @ # NoSetup -> [@ EXCEPT !.done = TRUE]
               [] f.stage = "ControlStatus" -> NoSetup
               [] OTHER -> @]
        /\ \/ /\ Accepted(k, status, f.pos, ResultData(f))
              /\ work' = Pump(k, offline \/ status = "Offline")
           \/ Rejected(k) /\ work' = Idle
  /\ UNCHANGED <<endpoints, kind, nextToken, awaiting, server, session>>

PumpFills(k, offline) ==
  /\ Pumping(k, offline)
  /\ k \in endpoints /\ active[k]
  /\ OnHead(k) /\ inFlight[k][1].result = None
  /\ ~offline
  /\ work' = Fill(k)
  /\ UNCHANGED <<engine, host, server, session>>

------------------------------------------------------------------------------
(* head_request: the head message when nothing is in flight *)

AtHead(k) ==
  /\ Pumping(k, FALSE)
  /\ k \in endpoints /\ active[k]
  /\ inFlight[k] = <<>> /\ HasTransfer(k)

DataDue(k) == setup[k] # NoSetup /\ ~setup[k].done

(* Completed on the spot; pump goes on if the host takes the completion.      *)
CompleteHere(k, status) ==
  /\ \/ Accepted(k, status, 0, 0) /\ work' = work
     \/ Rejected(k) /\ work' = Idle
  /\ UNCHANGED <<endpoints, kind, inFlight, nextToken, awaiting, server, session>>

HeadSetup(k) ==
  /\ AtHead(k)
  /\ k \in ControlKeys /\ Transfer(k) = "setup"
  /\ setup' = [setup EXCEPT ![k] = [pos |-> head[k], done |-> FALSE]]
  /\ CompleteHere(k, "Success")

(* HeadStatusDone, without looking at data_done. *)
HeadStatusAlways(k) ==
  /\ AtHead(k)
  /\ k \in ControlKeys /\ Transfer(k) = "status"
  /\ setup' = [setup EXCEPT ![k] = NoSetup]
  /\ CompleteHere(k, "Success")

(* The status stage of a request that went out with its data stage, or of     *)
(* none at all.                                                               *)
HeadStatusDone(k) ==
  /\ AtHead(k)
  /\ k \in ControlKeys /\ Transfer(k) = "status"
  /\ ~DataDue(k)
  /\ setup' = [setup EXCEPT ![k] = NoSetup]
  /\ CompleteHere(k, "Success")

HeadLink(k) ==
  /\ AtHead(k)
  /\ Transfer(k) = "link"
  /\ CompleteHere(k, "Success")
  /\ UNCHANGED setup

(* A link that needs no response is left to the host. *)
HeadHostLink(k) ==
  /\ AtHead(k)
  /\ Transfer(k) = "hostlink"
  /\ work' = Idle
  /\ UNCHANGED <<engine, host, server, session>>

HeadUnexpected(k) ==
  /\ AtHead(k)
  /\ \/ Transfer(k) = "unknown"
     \/ k \in ControlKeys /\ Transfer(k) \in {"normal", "torn"} /\ ~DataDue(k)
     \/ k \in ControlKeys /\ Transfer(k) = "iso"
     \/ k \notin ControlKeys /\ Transfer(k) \in {"setup", "status"}
  /\ CompleteHere(k, "Error")
  /\ UNCHANGED setup
------------------------------------------------------------------------------
(* submit, called for the head message and by fill *)

(* Session::submit refuses OUT data of the wrong length before it looks at    *)
(* whether the session is closed.                                             *)
SubmitError(k, p) ==
  CASE ring[k][p] = "torn" /\ k \notin InKeys -> "invalid"
    [] ~open -> "disconnected"
    [] OTHER -> None

SubmitUrb(k, p, stage) ==
  /\ SubmitError(k, p) = None
  /\ nextToken < MaxTokens
  /\ S!Submit(nextToken)
  /\ nextToken' = nextToken + 1
  /\ inFlight' = [inFlight EXCEPT ![k] =
       Append(@, [token |-> nextToken, message |-> Address(p), pos |-> p,
                  stage |-> stage, unlinking |-> FALSE, result |-> None])]
  /\ awaiting' = awaiting \cup {nextToken}
  /\ urb' = [urb EXCEPT ![nextToken] =
       [key |-> k, pos |-> IF k \in ControlKeys THEN setup[k].pos ELSE p]]
  /\ work' = Fill(k)
  /\ UNCHANGED <<endpoints, kind, setup, host, ret, produced, ran>>

HeadStage(k) ==
  CASE k \in ControlKeys /\ DataDue(k) /\ Transfer(k) \in {"normal", "torn"} -> "ControlData"
    [] k \in ControlKeys /\ DataDue(k) /\ Transfer(k) = "status" -> "ControlStatus"
    [] k \notin ControlKeys /\ Transfer(k) \in {"normal", "torn"} -> "Normal"
    [] k \notin ControlKeys /\ Transfer(k) = "iso" -> "Isochronous"
    [] OTHER -> None

HeadSubmits(k) ==
  /\ AtHead(k)
  /\ HeadStage(k) # None
  /\ SubmitUrb(k, head[k], HeadStage(k))

(* The head cannot be submitted: complete it, and go on unless offline.       *)
HeadFails(k) ==
  /\ AtHead(k)
  /\ HeadStage(k) # None
  /\ SubmitError(k, head[k]) # None
  /\ LET status == error_status(SubmitError(k, head[k])) IN
     \/ /\ Accepted(k, status, 0, 0)
        /\ work' = IF status = "Offline" THEN Idle ELSE work
     \/ Rejected(k) /\ work' = Idle
  /\ UNCHANGED <<engine, server, session>>

------------------------------------------------------------------------------
(* fill: one round of its loop per action *)

(* MayFill, off by one. *)
MayFillOneMore(k) ==
  /\ k \in endpoints
  /\ Len(inFlight[k]) \in 1..depth(kind[k])
  /\ \A i \in DOMAIN inFlight[k] : inFlight[k][i].result = None

MayFill(k) ==
  /\ k \in endpoints
  /\ Len(inFlight[k]) \in 1..(depth(kind[k]) - 1)
  /\ \A i \in DOMAIN inFlight[k] : inFlight[k][i].result = None

(* NextAhead, off by one. *)
NextAheadAgain(k) ==
  {p \in Peek(k, Len(inFlight[k]) - 1) : ring[k][p] \in {"normal", "torn", "iso"}}

(* Messages beyond those in flight that data_request makes a URB of. *)
NextAhead(k) ==
  {p \in Peek(k, Len(inFlight[k])) : ring[k][p] \in {"normal", "torn", "iso"}}

FillSubmits(k) ==
  /\ work = Fill(k)
  /\ MayFill(k)
  /\ \E p \in NextAhead(k) :
       SubmitUrb(k, p, IF ring[k][p] = "iso" THEN "Isochronous" ELSE "Normal")

(* A failure ahead of the head is retried when the message is the head. *)
FillReturns(k) ==
  /\ work = Fill(k)
  /\ MayFill(k) => \A p \in NextAhead(k) : SubmitError(k, p) # None
  /\ work' = Idle
  /\ UNCHANGED <<engine, host, server, session>>

------------------------------------------------------------------------------
(* finish: the task of a URB has its result and its turn on the executor *)

(* FinishUnlinked, without stale.pop_front(). *)
FinishUnlinkedKept(k, i) ==
  /\ inFlight' = [inFlight EXCEPT ![k] = SubSeq(@, 1, i)]
  /\ S!Cancel(Unfinished(SubSeq(inFlight[k], i + 1, Len(inFlight[k]))))

(* FinishUnlinked, leaving the reads behind it on the server. *)
FinishUnlinkedLeaves(k, i) ==
  /\ inFlight' = [inFlight EXCEPT ![k] = SubSeq(@, 1, i - 1)]
  /\ UNCHANGED session

(* A read unlinked by a pause takes the reads behind it along. *)
FinishUnlinked(k, i) ==
  /\ inFlight' = [inFlight EXCEPT ![k] = SubSeq(@, 1, i - 1)]
  /\ S!Cancel(Unfinished(SubSeq(inFlight[k], i + 1, Len(inFlight[k]))))

(* Finish, taking every reply to an unlinked read for a confirmation. *)
FinishAnyUnlinking(t) ==
  LET k == urb[t].key
      at == {i \in DOMAIN inFlight[k] : inFlight[k][i].token = t}
  IN /\ work = Idle
     /\ t \in awaiting
     /\ reply[t] \in S!Outcomes
     /\ awaiting' = awaiting \ {t}
     /\ IF k \notin endpoints \/ at = {}
        THEN UNCHANGED <<inFlight, session, work>>
        ELSE /\ work' = Pump(k, FALSE)
             /\ \E i \in at :
                  IF inFlight[k][i].unlinking
                  THEN FinishUnlinked(k, i)
                  ELSE /\ inFlight' = [inFlight EXCEPT ![k][i].result = reply[t]]
                       /\ UNCHANGED session
     /\ UNCHANGED <<endpoints, kind, setup, nextToken, host, server>>

(* Finish, without a pump after an unlinked read. *)
FinishSilently(t) ==
  LET k == urb[t].key
      at == {i \in DOMAIN inFlight[k] : inFlight[k][i].token = t}
  IN /\ work = Idle
     /\ t \in awaiting
     /\ reply[t] \in S!Outcomes
     /\ awaiting' = awaiting \ {t}
     /\ IF k \notin endpoints \/ at = {}
        THEN UNCHANGED <<inFlight, session, work>>
        ELSE /\ work' = IF inFlight[k][CHOOSE i \in at : TRUE].unlinking THEN Idle ELSE Pump(k, FALSE)
             /\ \E i \in at :
                  IF inFlight[k][i].unlinking /\ reply[t] = "unlinked"
                  THEN FinishUnlinked(k, i)
                  ELSE /\ inFlight' = [inFlight EXCEPT ![k][i].result = reply[t]]
                       /\ UNCHANGED session
     /\ UNCHANGED <<endpoints, kind, setup, nextToken, host, server>>

Finish(t) ==
  LET k == urb[t].key
      at == {i \in DOMAIN inFlight[k] : inFlight[k][i].token = t}
  IN /\ work = Idle
     /\ t \in awaiting
     /\ reply[t] \in S!Outcomes
     /\ awaiting' = awaiting \ {t}
     /\ IF k \notin endpoints \/ at = {}
        THEN UNCHANGED <<inFlight, session, work>>
        ELSE /\ work' = Pump(k, FALSE)
             /\ \E i \in at :
                  IF inFlight[k][i].unlinking /\ reply[t] = "unlinked"
                  THEN FinishUnlinked(k, i)
                  ELSE /\ inFlight' = [inFlight EXCEPT ![k][i].result = reply[t]]
                       /\ UNCHANGED session
     /\ UNCHANGED <<endpoints, kind, setup, nextToken, host, server>>
------------------------------------------------------------------------------
(* The other entry points, called by the controller on the executor *)

Drop(k) ==
  /\ inFlight' = [inFlight EXCEPT ![k] = <<>>]
  /\ S!Cancel(Unfinished(inFlight[k]))

(* add_endpoint: a fresh ring, whose positions follow those of an older one.  *)
AddEndpoint(k) ==
  /\ work = Idle
  /\ \E s \in Scenes : endpoints \cup {l \in Keys : ring[l] # <<>>} \cup {k} \subseteq s
  /\ IF k \in endpoints THEN Disrupt("recreate", k) ELSE UNCHANGED disruptions
  /\ endpoints' = endpoints \cup {k}
  /\ \E kd \in KindsOf[k] : kind' = [kind EXCEPT ![k] = kd]
  /\ setup' = [setup EXCEPT ![k] = NoSetup]
  /\ Drop(k)
  /\ head' = [head EXCEPT ![k] = Len(ring[k]) + 1]
  /\ active' = [active EXCEPT ![k] = TRUE]
  /\ bell' = [bell EXCEPT ![k] = FALSE]
  /\ UNCHANGED <<nextToken, awaiting, work, ring, completed, server>>

UpdateEndpoint(k) ==
  /\ work = Idle /\ k \in endpoints
  /\ Disrupt("update", k)
  /\ \E kd \in KindsOf[k] : kind' = [kind EXCEPT ![k] = kd]
  /\ UNCHANGED <<endpoints, setup, inFlight, nextToken, awaiting, work, ring, head,
                 active, bell, completed, server, session>>

(* remove_endpoint and remove_device *)
Remove(keys) ==
  /\ work = Idle /\ keys # {}
  /\ \A k \in keys : Disrupt("remove", k)
  /\ endpoints' = endpoints \ keys
  /\ inFlight' = [k \in Keys |-> IF k \in keys THEN <<>> ELSE inFlight[k]]
  /\ S!Cancel(UNION {Unfinished(inFlight[k]) : k \in keys})
  /\ active' = [k \in Keys |-> k \notin keys /\ active[k]]
  /\ bell' = [k \in Keys |-> k \notin keys /\ bell[k]]
  /\ UNCHANGED <<kind, setup, nextToken, awaiting, work, ring, head, completed, server>>

RemoveEndpoint(k) == k \in endpoints /\ Remove({k})
RemoveDevice(d) == Remove({k \in endpoints : DeviceOf[k] = d})

ResetEndpoint(k) ==
  /\ work = Idle /\ k \in endpoints
  /\ Disrupt("reset", k)
  /\ setup' = [setup EXCEPT ![k] = NoSetup]
  /\ Drop(k)
  /\ active' = [active EXCEPT ![k] = FALSE]
  /\ UNCHANGED <<endpoints, kind, nextToken, awaiting, work, ring, head, bell,
                 completed, server>>

(* pause_endpoint leaves control and OUT endpoints alone. *)
UnlinkedByPauseAll(keys) == keys \ ControlKeys
UnlinkedByPause(keys) == {k \in keys : k \in InKeys /\ k \notin ControlKeys}

(* Pause, with only the oldest read unlinked. *)
PauseFront(keys) ==
  LET reads == UnlinkedByPause(keys)
      Mark(f, i) == IF f.result = None /\ i = 1 THEN [f EXCEPT !.unlinking = TRUE] ELSE f
  IN /\ inFlight' = [k \in Keys |->
          IF k \in reads THEN [i \in DOMAIN inFlight[k] |-> Mark(inFlight[k][i], i)]
          ELSE inFlight[k]]
     /\ S!Cancel({inFlight[k][1].token : k \in {l \in reads : inFlight[l] # <<>>}})

Pause(keys) ==
  LET reads == UnlinkedByPause(keys)
      Mark(f) == IF f.result = None THEN [f EXCEPT !.unlinking = TRUE] ELSE f
  IN /\ inFlight' = [k \in Keys |->
          IF k \in reads THEN [i \in DOMAIN inFlight[k] |-> Mark(inFlight[k][i])]
          ELSE inFlight[k]]
     /\ S!Cancel(UNION {Unfinished(inFlight[k]) : k \in reads})

(* A paused ring stays paused until the host resumes it. *)
PauseEndpoint(k) ==
  /\ work = Idle /\ k \in endpoints
  /\ Disrupt("pause", k)
  /\ Pause({k})
  /\ active' = [active EXCEPT ![k] = FALSE]
  /\ UNCHANGED <<endpoints, kind, setup, nextToken, awaiting, work, ring, head, bell,
                 completed, server>>

(* DEVICE_PAUSE; the rings of the endpoints may still be active. *)
PauseDevice(d) ==
  LET keys == {k \in endpoints : DeviceOf[k] = d} IN
  /\ work = Idle /\ keys # {}
  /\ \A k \in keys : Disrupt("pausedevice", k)
  /\ Pause(keys)
  /\ UNCHANGED <<endpoints, kind, setup, nextToken, awaiting, work, ring, head, active,
                 bell, completed, server>>

(* SyncEndpoint, without a look at what is in flight. *)
SyncEndpointLater(k, n) ==
  /\ work = Idle /\ k \in endpoints /\ ~active[k]
  /\ Disrupt("move", k)
  /\ n \in 1..(Len(ring[k]) + 1 - head[k])
  /\ head' = [head EXCEPT ![k] = @ + n]
  /\ UNCHANGED <<engine, work, ring, active, bell, completed, server, session>>

(* The host moves a paused ring n messages on, having completed those itself, *)
(* and tells us: sync_endpoint.                                               *)
SyncEndpoint(k, n) ==
  /\ work = Idle /\ k \in endpoints /\ ~active[k]
  /\ Disrupt("move", k)
  /\ n \in 1..(Len(ring[k]) + 1 - head[k])
  /\ head' = [head EXCEPT ![k] = @ + n]
  /\ IF inFlight[k] # <<>> /\ inFlight[k][1].message # Address(head[k] + n)
     THEN Drop(k)
     ELSE UNCHANGED <<inFlight, session>>
  /\ UNCHANGED <<endpoints, kind, setup, nextToken, awaiting, work, ring, active, bell,
                 completed, server>>

(* The command that moves a ring could not be answered: sync_endpoint is not  *)
(* called, and the next pump finds the ring elsewhere, or on the slot it had  *)
(* a whole lap before.                                                        *)
MoveUnannounced(k, n) ==
  /\ work = Idle /\ k \in endpoints /\ ~active[k]
  /\ Disrupt("lostmove", k)
  /\ n \in 1..(Len(ring[k]) + 1 - head[k])
  /\ head' = [head EXCEPT ![k] = @ + n]
  /\ UNCHANGED <<engine, work, ring, active, bell, completed, server, session>>

Doorbell(k) ==
  /\ work = Idle /\ k \in endpoints
  /\ bell[k]
  /\ bell' = [bell EXCEPT ![k] = FALSE]
  /\ work' = Pump(k, FALSE)
  /\ UNCHANGED <<engine, ring, head, active, completed, disruptions, server, session>>

(* The state machine of the endpoint does not take the doorbell: doorbell     *)
(* returns without a pump.                                                    *)
DoorbellFails(k) ==
  /\ work = Idle /\ k \in endpoints
  /\ bell[k]
  /\ Disrupt("deaf", k)
  /\ bell' = [bell EXCEPT ![k] = FALSE]
  /\ UNCHANGED <<engine, work, ring, head, active, completed, server, session>>

(* reset_device blocks the executor until the reply or the timeout.           *)
ResetDevice(r) ==
  /\ work = Idle
  /\ S!Submit(r)
  /\ work' = Reset(r)
  /\ UNCHANGED <<engine, host, server>>

(* ResetDeviceReturns, without the timeout. *)
ResetDeviceWaits(r) ==
  /\ work = Reset(r)
  /\ reply[r] \in S!Outcomes
  /\ work' = Idle
  /\ UNCHANGED <<engine, host, server, session>>

ResetDeviceReturns(r) ==
  /\ work = Reset(r)
  /\ reply[r] \in S!Outcomes \/ "timeout" \in Events
  /\ work' = Idle
  /\ UNCHANGED <<engine, host, server, session>>

------------------------------------------------------------------------------
(* The host (external): puts messages on a ring and rings the doorbell.  The  *)
(* ring never fills up, so that a slot is reused only once it is free.        *)
Enqueue(k, m) ==
  /\ k \in endpoints
  /\ Len(ring[k]) < MaxMessages[k]
  /\ Len(ring[k]) + 1 - head[k] < RingSize - 1
  /\ ring' = [ring EXCEPT ![k] = Append(@, m)]
  /\ bell' = [bell EXCEPT ![k] = TRUE]
  /\ UNCHANGED <<engine, work, head, active, completed, disruptions, server, session>>

Resume(k) ==
  /\ work = Idle /\ k \in endpoints /\ ~active[k]
  /\ active' = [active EXCEPT ![k] = TRUE]
  /\ bell' = [bell EXCEPT ![k] = TRUE]
  /\ UNCHANGED <<engine, work, ring, head, completed, disruptions, server, session>>

(* The host goes past a link it wanted no response to. *)
FollowLink(k) ==
  /\ work = Idle /\ k \in endpoints
  /\ HasTransfer(k) /\ Transfer(k) = "hostlink"
  /\ head' = [head EXCEPT ![k] = @ + 1]
  /\ bell' = [bell EXCEPT ![k] = TRUE]
  /\ UNCHANGED <<engine, work, ring, active, completed, disruptions, server, session>>

------------------------------------------------------------------------------
(* The session and what is behind it.  The server runs the URBs of one        *)
(* endpoint in the order it got them; a read takes the next piece of data.    *)
OnServer(t) == reply[t] = "waiting" /\ t \notin executed

DeviceRuns(t) ==
  /\ OnServer(t)
  /\ \A u \in 0..(t - 1) : ~(OnServer(u) /\ urb[u].key = urb[t].key)
  /\ S!Execute(t)
  /\ LET k == urb[t].key IN
     \E status \in UrbStatuses[k] :
       LET takes == k \in InKeys /\ status = "Success"
           data == IF takes THEN produced[k] + 1 ELSE 0
       IN /\ ret' = [ret EXCEPT ![t] = [status |-> status, data |-> data]]
          /\ produced' = IF takes THEN [produced EXCEPT ![k] = data] ELSE produced
          /\ ran' = IF k \in InKeys THEN ran ELSE [ran EXCEPT ![k] = Append(@, urb[t].pos)]
  /\ UNCHANGED <<engine, work, host, urb>>

DeviceResets(r) ==
  /\ S!Execute(r)
  /\ UNCHANGED <<engine, work, host, server>>

SessionAnswers(r) ==
  /\ S!Resolve(r)
  /\ UNCHANGED <<engine, work, host, server>>

(* The server hangs up, or the client closes. *)
SessionCloses ==
  /\ "close" \in Events /\ Interfere
  /\ S!Close
  /\ UNCHANGED <<engine, work, ring, head, active, bell, completed, server>>

(* Session::unlink_all, called by main when the device is detached. *)
Detach ==
  /\ "detach" \in Events /\ Interfere
  /\ S!Cancel(S!Waiting)
  /\ UNCHANGED <<engine, work, ring, head, active, bell, completed, server>>
------------------------------------------------------------------------------
PumpRound(k) ==
  \/ \E offline \in BOOLEAN :
       PumpReturns(k, offline) \/ PumpStale(k, offline) \/ PumpApply(k, offline)
         \/ PumpFills(k, offline)
  \/ HeadSetup(k) \/ HeadStatusDone(k) \/ HeadLink(k) \/ HeadHostLink(k)
  \/ HeadUnexpected(k) \/ HeadSubmits(k) \/ HeadFails(k)
  \/ FillSubmits(k) \/ FillReturns(k)

Command(k) ==
  \/ AddEndpoint(k) \/ UpdateEndpoint(k) \/ RemoveEndpoint(k) \/ ResetEndpoint(k)
  \/ PauseEndpoint(k)
  \/ \E n \in 1..MaxMessages[k] : SyncEndpoint(k, n) \/ MoveUnannounced(k, n)

Next ==
  \/ \E k \in Keys : PumpRound(k) \/ Command(k) \/ Doorbell(k) \/ DoorbellFails(k)
                         \/ Resume(k) \/ FollowLink(k)
  \/ \E k \in Keys : \E m \in Offers[k] : Enqueue(k, m)
  \/ \E d \in {DeviceOf[k] : k \in Keys} : RemoveDevice(d) \/ PauseDevice(d)
  \/ \E t \in Tokens : Finish(t) \/ DeviceRuns(t)
  \/ \E r \in Resets : ResetDevice(r) \/ ResetDeviceReturns(r) \/ DeviceResets(r)
  \/ \E r \in Requests : SessionAnswers(r)
  \/ SessionCloses \/ Detach

Spec == Init /\ [][Next]_vars

(* The executor runs what it is given, the tasks awaiting replies are polled,  *)
(* the session answers what it must (Transfers), the device serves a URB that  *)
(* is first in line, and a host that pauses a ring resumes it.                 *)
Fairness ==
  /\ \A k \in Keys : /\ WF_vars(PumpRound(k)) /\ SF_vars(Doorbell(k))
                      /\ SF_vars(Resume(k))
  /\ SF_vars(\E t \in Tokens : Finish(t))
  /\ WF_vars(\E t \in Tokens : DeviceRuns(t))
  /\ WF_vars(\E r \in Requests : SessionAnswers(r))
  /\ WF_vars(\E r \in Resets : ResetDeviceReturns(r))

FairSpec == Spec /\ Fairness

------------------------------------------------------------------------------
(* Properties *)

Flights(k) == {inFlight[k][i] : i \in DOMAIN inFlight[k]}

(* The engine's books: a token is in flight at most once, on the endpoint its *)
(* URB was submitted for; a URB without a result has its task, one with a     *)
(* result has not; an endpoint that is gone has nothing in flight.  This is   *)
(* what lets finish find the right URB, or none, whenever it gets its turn.   *)
Books ==
  /\ \A k, l \in Keys : \A i \in DOMAIN inFlight[k], j \in DOMAIN inFlight[l] :
       inFlight[k][i].token = inFlight[l][j].token => k = l /\ i = j
  /\ \A k \in Keys : \A i \in DOMAIN inFlight[k] :
       LET f == inFlight[k][i] IN
       /\ f.token < nextToken
       /\ urb[f.token].key = k
       /\ f.result = None <=> f.token \in awaiting
  /\ \A k \in Keys \ endpoints : inFlight[k] = <<>>

(* No transfer is left on the server that the engine neither waits for nor    *)
(* has unlinked: "a read left pending on the server would take the data meant *)
(* for the next one" (engine.rs:246-247).                                     *)
NoOrphan ==
  open => \A t \in Tokens :
    OnServer(t) => t \in cancelled \/ \E k \in Keys : \E f \in Flights(k) : f.token = t

(* While the host has a ring paused, every read of it that is still on the    *)
(* server has been unlinked (pause_endpoint).                                 *)
PausedReadsUnlinked ==
  open => \A k \in (InKeys \ ControlKeys) \cap endpoints :
    work = Idle /\ ~active[k] =>
      \A t \in Unfinished(inFlight[k]) : OnServer(t) => t \in cancelled

(* Read-ahead never skips or repeats a message: the URBs in flight belong to  *)
(* consecutive transfers of the ring (fill, finish).                          *)
ReadAheadInOrder ==
  \A k \in Keys : \A i \in DOMAIN inFlight[k] :
    i > 1 => LET p == inFlight[k][i - 1].pos
                 q == inFlight[k][i].pos
             IN p < q /\ NotLinks(k, p, q) = {p, q}

(* A buffer is only ever written with the result of the URB built from its    *)
(* own message, although slots are used again and whatever was paused, reset  *)
(* or moved in between: "If the host moves the ring elsewhere, the URBs are   *)
(* unlinked and their replies dropped, so a buffer the host has reclaimed is  *)
(* never written" (engine.rs:11-12).  This is about the completions the host  *)
(* took, and about the one pump is going to make: Ring::complete writes the   *)
(* buffer before the host may refuse it.  A move that sync_endpoint is not    *)
(* told of, onto a slot in use again, breaks it.                              *)
OwnBuffer ==
  \A k \in Keys :
    /\ \A i \in DOMAIN completed[k] : completed[k][i].by \in {0, completed[k][i].pos}
    /\ /\ \E offline \in BOOLEAN : Pumping(k, offline)
       /\ k \in endpoints /\ active[k]
       /\ OnHead(k) /\ inFlight[k][1].result # None
       => inFlight[k][1].pos = head[k]

DataOf(k) == SelectSeq(completed[k], LAMBDA c : c.data # 0)

(* No data is lost as long as the host takes no message back: a reply that    *)
(* beats the unlink of a pause is delivered on resume (engine.rs:248).        *)
NoLostRead ==
  \A k \in Keys :
    (\A i \in DOMAIN completed[k] : completed[k][i].pos = i) =>
      \A i \in DOMAIN DataOf(k) : DataOf(k)[i].data = i

(* The device does not get an OUT or control transfer twice, although the     *)
(* host pauses and resumes the ring (engine.rs:248-250).                      *)
RunOnce ==
  \A k \in Keys : \A i, j \in DOMAIN ran[k] : ran[k][i] = ran[k][j] => i = j

(* A control transfer whose stages all completed with Success was run by the  *)
(* device, although SETUP, and STATUS after a data stage, are completed       *)
(* without asking it (head_request).                                          *)
ControlRan ==
  \A k \in ControlKeys : \A i, j \in DOMAIN completed[k] :
    LET stages == {completed[k][n] : n \in i..j} IN
    /\ i < j
    /\ ring[k][completed[k][i].pos] = "setup"
    /\ ring[k][completed[k][j].pos] = "status"
    /\ \A n \in (i + 1)..(j - 1) : ring[k][completed[k][n].pos] = "normal"
    /\ \A c \in stages : c.status = "Success"
    => \E n \in DOMAIN ran[k] : ran[k][n] = completed[k][i].pos

(* Every message the host puts on a ring is completed or taken back, as long  *)
(* as the connection is there and the endpoint takes its doorbells; no        *)
(* doorbell, reply or resume gets lost (pump).                                *)
EveryMessageServed ==
  \A k \in Keys : \A p \in 1..MaxMessages[k] :
    (k \in endpoints /\ p <= Len(ring[k])) ~> (head[k] > p \/ ~open)

(* The executor always gets free again, although a reset of the device blocks *)
(* it and the server may never answer (reset_device).                         *)
ExecutorFreed == work # Idle ~> work = Idle

(* When the connection goes, every URB in flight is taken off its ring, with  *)
(* Offline or the result it still got, and nothing new is put in flight.      *)
CloseDrains == ~open ~> [](\A k \in Keys : inFlight[k] = <<>>)
==============================================================================
