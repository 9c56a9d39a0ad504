------------------------------- MODULE Session -------------------------------
(***************************************************************************)
(* client.rs: one connection to a USB/IP server.  Any thread calls submit,  *)
(* unlink and close; a writer task sends the queued frames; a reader task   *)
(* matches replies to requests.  The state behind the mutex is nextSeqnum,  *)
(* submits, unlinks, unlinked and closed, and every action below is one     *)
(* critical section, so that what happens between two of them (an unlock,   *)
(* an await) can interleave with the other threads.                         *)
(*                                                                          *)
(* The server at the other end is external: it is modelled from the way     *)
(* client.rs uses it and from the two kinds of server its comments name     *)
(* (Linux, which sends no RET_SUBMIT for a transfer it reports through      *)
(* RET_UNLINK, and servers that send a late one).                           *)
(***************************************************************************)
EXTENDS Integers, Sequences, FiniteSets

CONSTANTS
  Requests,       \* one element per call of submit, i.e. per reply channel
  InRequests,     \* those with Direction::In
  Malformed,      \* those whose data does not match direction and length
  SeqMod,         \* seqnums are counted modulo SeqMod (2^32 in the code)
  FirstSeqnum,    \* next_seqnum after the traffic that came before
  UnlinkedCap,    \* length at which `unlinked` drops its oldest entry (256)
  LateReplies,    \* the server may send RET_SUBMIT after RET_UNLINK
  ServerFaults,   \* the server may send what the protocol does not allow
  None

Seqnums == 0..(SeqMod - 1)

ASSUME SessionAssumption ==
  /\ InRequests \subseteq Requests
  /\ Malformed \subseteq Requests
  /\ None \notin Requests \cup Seqnums
  /\ SeqMod \in Nat \ {0}
  /\ FirstSeqnum \in Seqnums
  /\ UnlinkedCap \in Nat \ {0}
  /\ LateReplies \in BOOLEAN
  /\ ServerFaults \in BOOLEAN

Reasons == {"client", "write", "eof", "protocol"}   \* what closed can say

ASSUME NoneIsNoReason == None \notin Reasons

VARIABLES
  nextSeqnum,   \* State.next_seqnum
  submits,      \* State.submits: seqnum -> request (its reply channel), or None
  unlinks,      \* State.unlinks: unlink seqnum -> seqnum it cancels, or None
  unlinked,     \* State.unlinked: recent <<seqnum, direction>> of RET_UNLINKs
  closed,       \* State.closed: None, or the reason
  closing,      \* requests taken by close() and not yet told
  closedTx,     \* the watch channel the two tasks wait on
  targets,      \* seqnums unlink_all has collected and not yet unlinked
  frames,       \* the unbounded channel of encoded frames
  writer,       \* write_loop: "running" or "stopped"
  reader,       \* read_loop: "header", "payload" or "stopped"
  partial,      \* RET_SUBMIT whose payload is awaited, and the direction
  reply,        \* what each caller of submit has been told
  answer,       \* whose RET_SUBMIT an "ok" request was given (history)
  toServer,     \* bytes written and not yet read by the server
  toClient,     \* bytes sent by the server and not yet read
  server,       \* <<seqnum, request>> the server is working on
  late,         \* <<seqnum, request>> a non-Linux server may still answer
  executed,     \* requests the server has run (history)
  hungUp        \* the server has closed the connection

state == <<nextSeqnum, submits, unlinks, unlinked, closed, closing>>
tasks == <<closedTx, targets, frames, writer, reader, partial, reply, answer>>
wire  == <<toServer, toClient, server, late, executed, hungUp>>
vars  == <<state, tasks, wire>>

Direction(r) == IF r \in InRequests THEN "in" ELSE "out"

CmdSubmit(s, r)    == [cmd |-> "SUBMIT", seqnum |-> s, request |-> r]
CmdUnlink(s, t)    == [cmd |-> "UNLINK", seqnum |-> s, target |-> t]
RetSubmit(s, r, b) == [cmd |-> "RET_SUBMIT", seqnum |-> s, request |-> r, data |-> b]
RetUnlink(s)       == [cmd |-> "RET_UNLINK", seqnum |-> s]
Payload            == [cmd |-> "PAYLOAD"]
Garbage            == [cmd |-> "GARBAGE"]

Frame == [cmd : {"SUBMIT"}, seqnum : Seqnums, request : Requests]
           \cup [cmd : {"UNLINK"}, seqnum : Seqnums, target : Seqnums]
SubmitReply == [cmd : {"RET_SUBMIT"}, seqnum : Seqnums, request : Requests, data : BOOLEAN]
Reply == SubmitReply \cup [cmd : {"RET_UNLINK"}, seqnum : Seqnums] \cup {Payload, Garbage}

Empty == [s \in Seqnums |-> None]
Pending == {submits[s] : s \in Seqnums} \ {None}

TypeOK ==
  /\ nextSeqnum \in Seqnums
  /\ submits \in [Seqnums -> Requests \cup {None}]
  /\ unlinks \in [Seqnums -> Seqnums \cup {None}]
  /\ closed \in Reasons \cup {None}
  /\ closing \subseteq Requests
  /\ closedTx \in BOOLEAN
  /\ targets \subseteq Seqnums
  /\ frames \in Seq(Frame)
  /\ writer \in {"running", "stopped"}
  /\ reader \in {"header", "payload", "stopped"}
  /\ partial \in (SubmitReply \X {"in", "out"}) \cup {None}
  /\ (reader = "payload") => partial \in SubmitReply \X {"in", "out"}
  /\ reply \in [Requests -> {"unused", "waiting", "invalid", "refused", "ok",
                             "unlinked", "disconnected"}]
  /\ answer \in [Requests -> Requests \cup {None}]
  /\ toServer \in Seq(Frame)
  /\ toClient \in Seq(Reply)
  /\ server \subseteq Seqnums \X Requests
  /\ late \subseteq Seqnums \X Requests
  /\ executed \subseteq Requests
  /\ hungUp \in BOOLEAN

Init ==
  /\ nextSeqnum = FirstSeqnum
  /\ submits = Empty /\ unlinks = Empty /\ unlinked = <<>>
  /\ closed = None /\ closing = {} /\ closedTx = FALSE
  /\ targets = {} /\ frames = <<>> /\ writer = "running"
  /\ reader = "header" /\ partial = None
  /\ reply = [r \in Requests |-> "unused"]
  /\ answer = [r \in Requests |-> None]
  /\ toServer = <<>> /\ toClient = <<>>
  /\ server = {} /\ late = {} /\ executed = {} /\ hungUp = FALSE

------------------------------------------------------------------------------
(* Seqnums *)

(* next_seqnum that looks at one of the two tables only. *)
IsFreeIgnoringUnlinks(s) == s # 0 /\ submits[s] = None

IsFree(s) == s # 0 /\ submits[s] = None /\ unlinks[s] = None

(* Frames and replies anywhere between the two tables that carry seqnum s. *)
Mentions(q, s) == \E i \in DOMAIN q : "seqnum" \in DOMAIN q[i] /\ q[i].seqnum = s
Targets(q, s)  == \E i \in DOMAIN q : "target" \in DOMAIN q[i] /\ q[i].target = s
Traffic(s) ==
  \/ Mentions(frames, s) \/ Mentions(toServer, s) \/ Mentions(toClient, s)
  \/ Targets(frames, s) \/ Targets(toServer, s)
  \/ \E r \in Requests : <<s, r>> \in server \cup late
  \/ reader = "payload" /\ partial[1].seqnum = s

(* Assumption on the environment: the counter does not run a whole lap (2^32  *)
(* requests) while traffic the tables have already forgotten is under way.    *)
LapOutlivesTraffic(s) == Traffic(s) => submits[s] # None \/ unlinks[s] # None

(* Mutant: the counter itself does not wrap, only the number that is sent.    *)
NextSeqnumUnwrapped(s) ==
  /\ \E d \in 1..SeqMod :
       /\ s = (nextSeqnum + d) % SeqMod
       /\ IsFree(s)
       /\ \A e \in 1..(d - 1) : ~IsFree((nextSeqnum + e) % SeqMod)
       /\ nextSeqnum' = nextSeqnum + d
  /\ LapOutlivesTraffic(s)

(* next_seqnum leaves s in nextSeqnum: the first number after the last one    *)
(* that is not 0 and not in use.                                              *)
NextSeqnum(s) ==
  /\ \E d \in 1..SeqMod :
       /\ s = (nextSeqnum + d) % SeqMod
       /\ IsFree(s)
       /\ \A e \in 1..(d - 1) : ~IsFree((nextSeqnum + e) % SeqMod)
  /\ LapOutlivesTraffic(s)
  /\ nextSeqnum' = s

------------------------------------------------------------------------------
(* Calls from any thread *)

Submit(r) ==
  /\ reply[r] = "unused"
  /\ \/ /\ r \in Malformed
        /\ reply' = [reply EXCEPT ![r] = "invalid"]
        /\ UNCHANGED <<nextSeqnum, submits, frames>>
     \/ /\ r \notin Malformed
        /\ closed # None
        /\ reply' = [reply EXCEPT ![r] = "refused"]
        /\ UNCHANGED <<nextSeqnum, submits, frames>>
     \/ /\ r \notin Malformed
        /\ closed = None
        /\ \E s \in Seqnums :
             /\ NextSeqnum(s)
             /\ submits' = [submits EXCEPT ![s] = r]
             /\ frames' = Append(frames, CmdSubmit(s, r))
        /\ reply' = [reply EXCEPT ![r] = "waiting"]
  /\ UNCHANGED <<unlinks, unlinked, closed, closing, closedTx, targets, writer,
                 reader, partial, answer, wire>>

(* Mutant: a second unlink of the same transfer is not ignored. *)
IgnoresUnlinkOnce(t) == closed # None \/ submits[t] = None

(* The conditions under which unlink returns without doing anything. *)
IgnoresUnlink(t) ==
  \/ closed # None
  \/ submits[t] = None
  \/ \E u \in Seqnums : unlinks[u] = t

SendUnlink(t) ==
  /\ \E s \in Seqnums :
       /\ NextSeqnum(s)
       /\ unlinks' = [unlinks EXCEPT ![s] = t]
       /\ frames' = Append(frames, CmdUnlink(s, t))
  /\ UNCHANGED <<submits, unlinked, closed, closing, closedTx, writer,
                 reader, partial, reply, answer, wire>>

Unlink(t) ==
  /\ ~IgnoresUnlink(t)
  /\ SendUnlink(t)
  /\ UNCHANGED targets

(* unlink_all collects the seqnums in one critical section ... *)
UnlinkAll ==
  /\ targets = {}
  /\ targets' = {s \in Seqnums : submits[s] # None}
  /\ UNCHANGED <<state, closedTx, frames, writer, reader, partial, reply,
                 answer, wire>>

(* ... and unlinks each of them in another. *)
UnlinkNext(t) ==
  /\ t \in targets
  /\ targets' = targets \ {t}
  /\ IF IgnoresUnlink(t)
     THEN UNCHANGED <<state, closedTx, frames, writer, reader, partial, reply,
                      answer, wire>>
     ELSE SendUnlink(t)

(* Mutant: close clears the table without keeping the reply channels. *)
CloseForgetting(reason) ==
  IF closed # None
  THEN UNCHANGED <<closed, unlinks, submits, closing>>
  ELSE /\ closed' = reason
       /\ unlinks' = Empty
       /\ submits' = Empty
       /\ closing' = {}

(* Mutant: close copies the pending submits and leaves them in the table. *)
CloseKeepingTable(reason) ==
  IF closed # None
  THEN UNCHANGED <<closed, unlinks, submits, closing>>
  ELSE /\ closed' = reason
       /\ unlinks' = Empty
       /\ submits' = submits
       /\ closing' = Pending

(* The critical section of Shared::close. *)
CloseWith(reason) ==
  IF closed # None
  THEN UNCHANGED <<closed, unlinks, submits, closing>>
  ELSE /\ closed' = reason
       /\ unlinks' = Empty
       /\ submits' = Empty
       /\ closing' = Pending

Close ==
  /\ closed = None
  /\ CloseWith("client")
  /\ UNCHANGED <<nextSeqnum, unlinked, tasks, wire>>

(* The rest of Shared::close, whichever thread runs it: fail what was taken, *)
(* one request at a time, then wake the tasks.                               *)
FailPending(r) ==
  /\ r \in closing
  /\ closing' = closing \ {r}
  /\ reply' = [reply EXCEPT ![r] = "disconnected"]
  /\ UNCHANGED <<nextSeqnum, submits, unlinks, unlinked, closed, closedTx,
                 targets, frames, writer, reader, partial, answer, wire>>

NotifyClosed ==
  /\ closed # None /\ closing = {} /\ ~closedTx
  /\ closedTx' = TRUE
  /\ UNCHANGED <<state, targets, frames, writer, reader, partial, reply, answer,
                 wire>>

------------------------------------------------------------------------------
(* write_loop.  Batching is invisible to the server: frames leave in order.  *)

Write ==
  /\ writer = "running"
  /\ frames # <<>>
  /\ toServer' = Append(toServer, Head(frames))
  /\ frames' = Tail(frames)
  /\ UNCHANGED <<state, closedTx, targets, writer, reader, partial, reply, answer,
                 toClient, server, late, executed, hungUp>>

(* write_all fails: the session is closed before the receiver is dropped.    *)
WriteFails ==
  /\ writer = "running"
  /\ frames # <<>>
  /\ writer' = "stopped"
  /\ CloseWith("write")
  /\ UNCHANGED <<nextSeqnum, unlinked, closedTx, targets, frames, reader, partial,
                 reply, answer, wire>>

WriterStops ==
  /\ writer = "running"
  /\ closedTx
  /\ writer' = "stopped"
  /\ UNCHANGED <<state, closedTx, targets, frames, reader, partial, reply, answer,
                 wire>>

------------------------------------------------------------------------------
(* read_loop and read_one *)

(* An error of read_one ends read_loop, which closes the session. *)
ReadFails(reason) ==
  /\ reader' = "stopped"
  /\ partial' = None
  /\ CloseWith(reason)
  /\ UNCHANGED <<nextSeqnum, unlinked, closedTx, targets, frames, writer, reply,
                 answer, toServer, server, late, executed, hungUp>>

(* Mutant: a late RET_SUBMIT is taken to carry no payload. *)
RecordsNoLatePayload(s, d) ==
  IF submits[s] # None
  THEN d = Direction(submits[s])
  ELSE d = "out" /\ \E i \in DOMAIN unlinked : unlinked[i][1] = s

(* Mutant: only a pending request can be answered. *)
RecordsPending(s, d) == submits[s] # None /\ d = Direction(submits[s])

(* The direction recorded for a RET_SUBMIT: of the pending request, or of the *)
(* first entry of `unlinked` with this seqnum.                                *)
Records(s, d) ==
  IF submits[s] # None
  THEN d = Direction(submits[s])
  ELSE \E i \in DOMAIN unlinked :
         /\ unlinked[i] = <<s, d>>
         /\ \A j \in 1..(i - 1) : unlinked[j][1] # s

(* RET_SUBMIT, first critical section: find out whether a payload follows. *)
ReadRetSubmit ==
  /\ reader = "header"
  /\ toClient # <<>> /\ Head(toClient).cmd = "RET_SUBMIT"
  /\ toClient' = Tail(toClient)
  /\ LET ret == Head(toClient) IN
     IF \E d \in {"in", "out"} : Records(ret.seqnum, d)
     THEN /\ \E d \in {"in", "out"} : Records(ret.seqnum, d) /\ partial' = <<ret, d>>
          /\ reader' = "payload"
          /\ UNCHANGED <<state, closedTx, targets, frames, writer, reply, answer,
                         toServer, server, late, executed, hungUp>>
     ELSE ReadFails("protocol")

(* read_submit_payload reads data only for an IN transfer that moved some.   *)
ExpectsData == partial[2] = "in" /\ partial[1].data

(* Mutant: the oldest pending request is answered, as if replies came in the  *)
(* order of the requests.                                                     *)
ReadPayloadOldest ==
  /\ reader = "payload" /\ Pending # {}
  /\ ExpectsData => toClient # <<>>
  /\ toClient' = IF ExpectsData THEN Tail(toClient) ELSE toClient
  /\ reader' = "header"
  /\ partial' = None
  /\ LET s == CHOOSE x \in Seqnums : submits[x] # None IN
     /\ unlinks' = [u \in Seqnums |-> IF unlinks[u] = s THEN None ELSE unlinks[u]]
     /\ submits' = [submits EXCEPT ![s] = None]
     /\ reply' = [reply EXCEPT ![submits[s]] = "ok"]
     /\ answer' = [answer EXCEPT ![submits[s]] = partial[1].request]
  /\ UNCHANGED <<nextSeqnum, unlinked, closed, closing, closedTx, targets, frames, writer,
                 toServer, server, late, executed, hungUp>>

(* RET_SUBMIT, second critical section, once the payload is in.              *)
ReadPayload ==
  /\ reader = "payload"
  /\ ExpectsData => toClient # <<>>
  /\ toClient' = IF ExpectsData THEN Tail(toClient) ELSE toClient
  /\ reader' = "header"
  /\ partial' = None
  /\ LET s == partial[1].seqnum IN
     /\ unlinks' = [u \in Seqnums |-> IF unlinks[u] = s THEN None ELSE unlinks[u]]
     /\ unlinked' = SelectSeq(unlinked, LAMBDA e : e[1] # s)
     /\ submits' = [submits EXCEPT ![s] = None]
     /\ IF submits[s] = None
        THEN UNCHANGED <<reply, answer>>
        ELSE /\ reply' = [reply EXCEPT ![submits[s]] = "ok"]
             /\ answer' = [answer EXCEPT ![submits[s]] = partial[1].request]
  /\ UNCHANGED <<nextSeqnum, closed, closing, closedTx, targets, frames, writer,
                 toServer, server, late, executed, hungUp>>

(* The queue of unlinked transfers forgets its oldest entry when it is full. *)
Remember(e) ==
  Append(IF Len(unlinked) = UnlinkedCap THEN Tail(unlinked) ELSE unlinked, e)

ReadRetUnlink ==
  /\ reader = "header"
  /\ toClient # <<>> /\ Head(toClient).cmd = "RET_UNLINK"
  /\ toClient' = Tail(toClient)
  /\ LET u == Head(toClient).seqnum
         t == unlinks[u]
     IN /\ unlinks' = [unlinks EXCEPT ![u] = None]
        /\ IF t # None /\ submits[t] # None
           THEN /\ submits' = [submits EXCEPT ![t] = None]
                /\ unlinked' = Remember(<<t, Direction(submits[t])>>)
                /\ reply' = [reply EXCEPT ![submits[t]] = "unlinked"]
           ELSE UNCHANGED <<submits, unlinked, reply>>
  /\ UNCHANGED <<nextSeqnum, closed, closing, closedTx, targets, frames, writer,
                 reader, partial, answer, toServer, server, late, executed, hungUp>>

(* A header that is neither, or one whose lengths read_submit_payload rejects. *)
ReadGarbage ==
  /\ reader = "header"
  /\ toClient # <<>> /\ Head(toClient).cmd \in {"PAYLOAD", "GARBAGE"}
  /\ toClient' = Tail(toClient)
  /\ ReadFails("protocol")

(* The connection ends, between replies or inside one. *)
ReadEof ==
  /\ \/ reader = "header"
     \/ reader = "payload" /\ ExpectsData
  /\ toClient = <<>> /\ hungUp
  /\ ReadFails("eof")
  /\ UNCHANGED toClient

ReaderStops ==
  /\ reader # "stopped"
  /\ closedTx
  /\ reader' = "stopped"
  /\ partial' = None
  /\ UNCHANGED <<state, closedTx, targets, frames, writer, reply, answer, wire>>

------------------------------------------------------------------------------
(* The server (external) *)

client == <<state, tasks>>

ServerSubmit ==
  /\ ~hungUp
  /\ toServer # <<>> /\ Head(toServer).cmd = "SUBMIT"
  /\ toServer' = Tail(toServer)
  /\ server' = server \cup {<<Head(toServer).seqnum, Head(toServer).request>>}
  /\ UNCHANGED <<client, toClient, late, executed, hungUp>>

(* A transfer the server still has is given up, or - LateReplies - answered   *)
(* all the same; RET_UNLINK is sent either way.                               *)
ServerUnlink ==
  /\ ~hungUp
  /\ toServer # <<>> /\ Head(toServer).cmd = "UNLINK"
  /\ toServer' = Tail(toServer)
  /\ LET found == {x \in server : x[1] = Head(toServer).target} IN
     /\ server' = server \ found
     /\ \/ late' = late
        \/ LateReplies /\ found # {} /\ late' = late \cup found
  /\ toClient' = Append(toClient, RetUnlink(Head(toServer).seqnum))
  /\ UNCHANGED <<client, executed, hungUp>>

(* RET_SUBMIT; data tells whether actual_length is not 0, and is followed by  *)
(* a payload if the transfer was IN.                                          *)
ServerComplete(x) ==
  /\ ~hungUp
  /\ x \in server \cup late
  /\ server' = server \ {x}
  /\ late' = late \ {x}
  /\ executed' = executed \cup {x[2]}
  /\ \E data \in BOOLEAN :
       toClient' = toClient \o <<RetSubmit(x[1], x[2], data)>>
                     \o (IF data /\ x[2] \in InRequests THEN <<Payload>> ELSE <<>>)
  /\ UNCHANGED <<client, toServer, hungUp>>

ServerGarbage ==
  /\ ServerFaults
  /\ ~hungUp
  /\ ~\E i \in DOMAIN toClient : toClient[i] = Garbage
  /\ toClient' = Append(toClient, Garbage)
  /\ UNCHANGED <<client, toServer, server, late, executed, hungUp>>

(* The connection breaks; bytes under way may be lost, within a reply too.    *)
ServerHangsUp ==
  /\ ~hungUp
  /\ hungUp' = TRUE
  /\ \E n \in 0..Len(toClient) : toClient' = SubSeq(toClient, 1, n)
  /\ UNCHANGED <<client, toServer, server, late, executed>>

------------------------------------------------------------------------------
Reader == ReadRetSubmit \/ ReadPayload \/ ReadRetUnlink \/ ReadGarbage
            \/ ReadEof \/ ReaderStops
Writer == Write \/ WriterStops
Server == ServerSubmit \/ ServerUnlink

Next ==
  \/ \E r \in Requests : Submit(r) \/ FailPending(r)
  \/ \E t \in Seqnums : Unlink(t) \/ UnlinkNext(t)
  \/ UnlinkAll \/ Close \/ NotifyClosed
  \/ Writer \/ WriteFails
  \/ Reader
  \/ Server \/ ServerGarbage \/ ServerHangsUp
  \/ \E x \in Seqnums \X Requests : ServerComplete(x)

Spec == Init /\ [][Next]_vars

(* The runtime polls both tasks, a thread inside close or unlink_all goes on, *)
(* and the server reads what it is sent until it hangs up.                    *)
Fairness ==
  /\ WF_vars(Writer) /\ WF_vars(Reader) /\ WF_vars(Server)
  /\ WF_vars(NotifyClosed)
  /\ \A r \in Requests : WF_vars(FailPending(r))
  /\ \A t \in Seqnums : WF_vars(UnlinkNext(t))

FairSpec == Spec /\ Fairness

------------------------------------------------------------------------------
(* Properties *)

(* The tables agree with each other (submit, unlink, read_one and close): 0   *)
(* is never a seqnum, no number is both a submit and an unlink, every unlink  *)
(* cancels a pending transfer, a transfer is unlinked at most once at a time, *)
(* and a closed session has no entry left.                                    *)
TablesAgree ==
  /\ submits[0] = None /\ unlinks[0] = None
  /\ \A s \in Seqnums : submits[s] = None \/ unlinks[s] = None
  /\ \A u \in Seqnums : unlinks[u] # None => submits[unlinks[u]] # None
  /\ \A u, v \in Seqnums : unlinks[u] # None /\ unlinks[u] = unlinks[v] => u = v
  /\ closed # None => submits = Empty /\ unlinks = Empty

(* Exactly one place can still answer a caller that waits: one entry of       *)
(* `submits`, or the list close() is working through.  Nobody who has been    *)
(* answered, or was refused by submit, is in either.  A sender dropped or     *)
(* overwritten on the way would break this.                                   *)
OneHolder ==
  /\ closed = None => closing = {}
  /\ \A s, t \in Seqnums : submits[s] # None /\ submits[s] = submits[t] => s = t
  /\ Pending \cap closing = {}
  /\ \A r \in Requests : reply[r] = "waiting" <=> r \in Pending \cup closing

(* "Every transfer must resolve exactly once either way" (tests/client.rs:320): *)
(* what a caller has been told never changes, although read_one and close()     *)
(* race for the same transfer.                                                  *)
AnswersKept ==
  \A r \in Requests : reply[r] \notin {"unused", "waiting"} => reply'[r] = reply[r]

AnsweredOnce == [][AnswersKept]_vars

(* An "ok" is the RET_SUBMIT the server sent for that very transfer, however  *)
(* unlinks, late replies and seqnums that are used again interleave.          *)
RightReply ==
  \A r \in Requests : answer[r] # None => answer[r] = r /\ r \in executed

(* With a Linux server, a transfer reported as Unlinked is never run: the     *)
(* engine submits such reads again (client.rs:402).                           *)
UnlinkedIsNotRun ==
  \A r \in Requests : reply[r] = "unlinked" => r \notin executed

(* While the session is open the reader never mistakes payload for a header   *)
(* or a header for payload: what it remembers of a transfer (submits,         *)
(* unlinked) decides whether a payload follows, and that always agrees with   *)
(* what the server sent.                                                      *)
InFrame ==
  closed = None =>
    /\ reader = "header" /\ toClient # <<>> => Head(toClient) # Payload
    /\ reader = "payload" =>
         IF toClient = <<>> THEN ExpectsData => hungUp
         ELSE ExpectsData <=> Head(toClient) = Payload

(* A server that keeps to the protocol, late replies included, is told off    *)
(* only when the cap of `unlinked` is to blame: the session is not closed     *)
(* over a reply it cannot place until more transfers have been unlinked than  *)
(* read_one remembers (client.rs:394 drops the oldest, and client.rs:370      *)
(* closes the session on the late reply to it).                               *)
NoSpuriousClose ==
  closed = "protocol" =>
    Cardinality({r \in Requests : reply[r] = "unlinked"}) > UnlinkedCap

(* However the session ends, both tasks stop and nobody is left waiting.      *)
CloseStopsTasks ==
  closed # None ~> /\ reader = "stopped" /\ writer = "stopped"
                   /\ \A r \in Requests : reply[r] # "waiting"

(* The abstract view of the session, for the engine. *)
T == INSTANCE Transfers WITH
       open <- closed = None,
       cancelled <- {submits[unlinks[u]] : u \in {v \in Seqnums : unlinks[v] # None}}

(* Against a Linux server the session keeps every promise of Transfers: each  *)
(* accepted transfer is answered once, with an outcome it can have, and a     *)
(* transfer that was run, unlinked or cut off is answered eventually          *)
(* (client.rs:237).                                                           *)
ImplementsTransfers == T!FairSpec
==============================================================================
