---------------------------- MODULE SessionProofs ----------------------------
(***************************************************************************)
(* Theorems about Session, for any number of requests, any seqnum width and *)
(* either kind of server.                                                   *)
(***************************************************************************)
EXTENDS Session, TLAPS

USE SessionAssumption DEF Seqnums

(* The frames the client and the server build are of the declared kinds, and  *)
(* the command of a reply tells its kind.                                     *)
LEMMA Frames ==
  ASSUME NEW s \in Seqnums
  PROVE  /\ \A r \in Requests : CmdSubmit(s, r) \in Frame
         /\ \A t \in Seqnums : CmdUnlink(s, t) \in Frame
         /\ \A r \in Requests, b \in BOOLEAN : RetSubmit(s, r, b) \in SubmitReply
         /\ RetUnlink(s) \in Reply
  BY DEF CmdSubmit, CmdUnlink, RetSubmit, RetUnlink, Frame, SubmitReply, Reply

LEMMA ReplyKinds ==
  ASSUME NEW m \in Reply
  PROVE  /\ m.cmd = "RET_SUBMIT" => m \in SubmitReply
         /\ m.cmd = "RET_UNLINK" => m.seqnum \in Seqnums
  BY DEF Reply, SubmitReply, Payload, Garbage

(* The number a RET_UNLINK carries, and what the table of unlinks has for it. *)
LEMMA UnlinkTarget ==
  ASSUME TypeOK, ReadRetUnlink
  PROVE  /\ Head(toClient).seqnum \in Seqnums
         /\ unlinks[Head(toClient).seqnum] \in Seqnums \cup {None}
         /\ toClient' \in Seq(Reply)
<1>1. /\ toClient # <<>> /\ Head(toClient).cmd = "RET_UNLINK"
      /\ toClient' = Tail(toClient)
  BY DEF ReadRetUnlink
<1>2. toClient \in Seq(Reply) /\ unlinks \in [Seqnums -> Seqnums \cup {None}]
  BY DEF TypeOK
<1>3. Head(toClient) \in Reply
  BY <1>1, <1>2
<1>4. Head(toClient).seqnum \in Seqnums
  BY <1>1, <1>3, ReplyKinds
<1> QED
  BY <1>1, <1>2, <1>4

(* What the server finds in a CMD_SUBMIT. *)
LEMMA SubmitFrame ==
  ASSUME TypeOK, ServerSubmit
  PROVE  /\ Head(toServer).seqnum \in Seqnums
         /\ Head(toServer).request \in Requests
         /\ toServer' \in Seq(Frame)
<1>1. /\ toServer # <<>> /\ Head(toServer).cmd = "SUBMIT"
      /\ toServer' = Tail(toServer)
  BY DEF ServerSubmit
<1>2. toServer \in Seq(Frame)
  BY DEF TypeOK
<1>3. Head(toServer) \in Frame
  BY <1>1, <1>2
<1> QED
  BY <1>1, <1>2, <1>3 DEF Frame

(* Every variable of the session, its tasks and the wire keeps its type,      *)
(* through every critical section of client.rs.                               *)
THEOREM TypeCorrect == Spec => []TypeOK
<1>1. Init => TypeOK
  <2> SUFFICES ASSUME Init PROVE TypeOK
    OBVIOUS
  <2>1. submits \in [Seqnums -> Requests \cup {None}] /\ unlinks \in [Seqnums -> Seqnums \cup {None}]
    BY DEF Init, Empty
  <2>2. frames \in Seq(Frame) /\ toServer \in Seq(Frame) /\ toClient \in Seq(Reply)
    BY DEF Init
  <2>3. reply \in [Requests -> {"unused", "waiting", "invalid", "refused", "ok",
                                "unlinked", "disconnected"}]
    BY DEF Init
  <2> QED
    BY <2>1, <2>2, <2>3 DEF Init, TypeOK
<1>2. TypeOK /\ [Next]_vars => TypeOK'
  <2> SUFFICES ASSUME TypeOK, [Next]_vars PROVE TypeOK'
    OBVIOUS
  <2> USE DEF TypeOK, state, tasks, wire, client
  <2>1. ASSUME NEW r \in Requests, Submit(r) PROVE TypeOK'
    <3>0. /\ \E v \in {"invalid", "refused", "waiting"} : reply' = [reply EXCEPT ![r] = v]
          /\ UNCHANGED <<unlinks, closed, closing, closedTx, targets, writer, reader,
                         partial, answer, toServer, toClient, server, late,
                         executed, hungUp>>
      BY <2>1 DEF Submit
    <3>1. CASE closed = None /\ r \notin Malformed
      <4>1. PICK s \in Seqnums : /\ NextSeqnum(s)
                                 /\ submits' = [submits EXCEPT ![s] = r]
                                 /\ frames' = Append(frames, CmdSubmit(s, r))
        BY <2>1, <3>1 DEF Submit
      <4>2. frames' \in Seq(Frame)
        BY <4>1, Frames
      <4> QED
        BY <3>0, <4>1, <4>2 DEF NextSeqnum
    <3>2. CASE ~(closed = None /\ r \notin Malformed)
      <4>1. UNCHANGED <<nextSeqnum, submits, frames>>
        BY <2>1, <3>2 DEF Submit
      <4> QED
        BY <3>0, <4>1
    <3> QED
      BY <3>1, <3>2
  <2>2. ASSUME NEW r \in Requests, FailPending(r) PROVE TypeOK'
    BY <2>2 DEF FailPending
  <2>3. ASSUME NEW t \in Seqnums, SendUnlink(t), targets' \subseteq Seqnums
        PROVE TypeOK'
    <3>1. PICK s \in Seqnums : /\ NextSeqnum(s)
                               /\ unlinks' = [unlinks EXCEPT ![s] = t]
                               /\ frames' = Append(frames, CmdUnlink(s, t))
      BY <2>3 DEF SendUnlink
    <3>2. frames' \in Seq(Frame)
      BY <3>1, Frames
    <3> QED
      BY <2>3, <3>1, <3>2 DEF SendUnlink, NextSeqnum
  <2>4. ASSUME NEW t \in Seqnums, Unlink(t) PROVE TypeOK'
    BY <2>4, <2>3 DEF Unlink
  <2>5. ASSUME NEW t \in Seqnums, UnlinkNext(t) PROVE TypeOK'
    BY <2>5, <2>3 DEF UnlinkNext
  <2>6. CASE UnlinkAll
    BY <2>6 DEF UnlinkAll
  <2>7. ASSUME NEW reason \in Reasons, CloseWith(reason)
        PROVE /\ submits' \in [Seqnums -> Requests \cup {None}]
              /\ unlinks' \in [Seqnums -> Seqnums \cup {None}]
              /\ closed' \in Reasons \cup {None}
              /\ closing' \subseteq Requests
    BY <2>7 DEF CloseWith, Empty, Pending
  <2>8. CASE Close
    BY <2>8, <2>7 DEF Close, Reasons
  <2>9. CASE NotifyClosed
    BY <2>9 DEF NotifyClosed
  <2>10. CASE Write
    BY <2>10 DEF Write
  <2>11. CASE WriterStops
    BY <2>11 DEF WriterStops
  <2>12. CASE WriteFails
    BY <2>12, <2>7 DEF WriteFails, Reasons
  <2>13. ASSUME NEW reason \in Reasons, ReadFails(reason), toClient' \in Seq(Reply)
         PROVE TypeOK'
    BY <2>13, <2>7 DEF ReadFails
  <2>14. CASE ReadRetSubmit
    <3>1. Head(toClient) \in SubmitReply /\ toClient' \in Seq(Reply)
      BY <2>14, ReplyKinds DEF ReadRetSubmit
    <3>2. CASE ReadFails("protocol")
      BY <2>13, <3>1, <3>2 DEF Reasons
    <3>3. CASE /\ \E d \in {"in", "out"} : partial' = <<Head(toClient), d>>
               /\ reader' = "payload"
               /\ UNCHANGED <<state, closedTx, targets, frames, writer, reply, answer,
                              toServer, server, late, executed, hungUp>>
      BY <3>1, <3>3
    <3> QED
      BY <2>14, <3>2, <3>3 DEF ReadRetSubmit
  <2>15. CASE ReadPayload
    <3>1. partial[1] \in SubmitReply
      BY <2>15 DEF ReadPayload
    <3>2. partial[1].seqnum \in Seqnums /\ partial[1].request \in Requests
      BY <3>1 DEF SubmitReply
    <3>3. toClient' \in Seq(Reply)
      BY <2>15 DEF ReadPayload
    <3>4. /\ unlinks' \in [Seqnums -> Seqnums \cup {None}]
          /\ submits' \in [Seqnums -> Requests \cup {None}]
      <4>1. submits' = [submits EXCEPT ![partial[1].seqnum] = None]
        BY <2>15 DEF ReadPayload
      <4>2. unlinks' = [u \in Seqnums |-> IF unlinks[u] = partial[1].seqnum THEN None
                                         ELSE unlinks[u]]
        BY <2>15 DEF ReadPayload
      <4> QED
        BY <4>1, <4>2, <3>2
    <3>5. /\ reply' \in [Requests -> {"unused", "waiting", "invalid", "refused", "ok",
                                      "unlinked", "disconnected"}]
          /\ answer' \in [Requests -> Requests \cup {None}]
      <4>1. CASE submits[partial[1].seqnum] = None
        BY <2>15, <4>1 DEF ReadPayload
      <4>2. CASE submits[partial[1].seqnum] # None
        BY <2>15, <4>2, <3>2 DEF ReadPayload
      <4> QED
        BY <4>1, <4>2
    <3> QED
      BY <2>15, <3>3, <3>4, <3>5 DEF ReadPayload
  <2>16. CASE ReadRetUnlink
    <3>1. Head(toClient).seqnum \in Seqnums /\ toClient' \in Seq(Reply)
      BY <2>16, UnlinkTarget
    <3> QED
      BY <2>16, <3>1 DEF ReadRetUnlink
  <2>17. CASE ReadGarbage
    <3>1. ReadFails("protocol") /\ toClient' \in Seq(Reply)
      BY <2>17 DEF ReadGarbage
    <3> QED
      BY <2>13, <3>1 DEF Reasons
  <2>18. CASE ReadEof
    <3>1. ReadFails("eof") /\ toClient' \in Seq(Reply)
      BY <2>18 DEF ReadEof
    <3> QED
      BY <2>13, <3>1 DEF Reasons
  <2>19. CASE ReaderStops
    BY <2>19 DEF ReaderStops
  <2>20. CASE ServerSubmit
    BY <2>20, SubmitFrame DEF ServerSubmit
  <2>21. CASE ServerUnlink
    <3>1. RetUnlink(Head(toServer).seqnum) \in Reply
      BY <2>21, Frames DEF ServerUnlink, Frame
    <3> QED
      BY <2>21, <3>1 DEF ServerUnlink
  <2>22. CASE ServerGarbage
    BY <2>22 DEF ServerGarbage, Reply
  <2>23. CASE ServerHangsUp
    BY <2>23 DEF ServerHangsUp
  <2>24. ASSUME NEW x \in Seqnums \X Requests, ServerComplete(x) PROVE TypeOK'
    <3>1. toClient' \in Seq(Reply)
      <4>1. PICK data \in BOOLEAN :
              toClient' = toClient \o <<RetSubmit(x[1], x[2], data)>>
                            \o (IF data /\ x[2] \in InRequests THEN <<Payload>> ELSE <<>>)
        BY <2>24 DEF ServerComplete
      <4>2. RetSubmit(x[1], x[2], data) \in Reply /\ Payload \in Reply
        BY Frames DEF Reply
      <4> QED
        BY <4>1, <4>2
    <3> QED
      BY <2>24, <3>1 DEF ServerComplete
  <2>25. CASE UNCHANGED vars
    BY <2>25 DEF vars
  <2> QED
    BY <2>1, <2>2, <2>4, <2>5, <2>6, <2>8, <2>9, <2>10, <2>11, <2>12, <2>14, <2>15,
       <2>16, <2>17, <2>18, <2>19, <2>20, <2>21, <2>22, <2>23, <2>24, <2>25
       DEF Next, Writer, Reader, Server
<1> QED
  BY <1>1, <1>2, PTL DEF Spec

------------------------------------------------------------------------------
(* The steps that touch neither table, nor closed, nor closing, nor a caller. *)
LEMMA OtherSteps ==
  ASSUME \/ UnlinkAll \/ NotifyClosed \/ Writer \/ ReaderStops \/ Server
         \/ ServerGarbage \/ ServerHangsUp \/ UNCHANGED vars
         \/ \E x \in Seqnums \X Requests : ServerComplete(x)
  PROVE  UNCHANGED <<submits, unlinks, closed, closing, reply>>
  BY DEF UnlinkAll, NotifyClosed, Writer, Write, WriterStops, ReaderStops, Server,
         ServerSubmit, ServerUnlink, ServerGarbage, ServerHangsUp, ServerComplete,
         vars, state, tasks, wire, client

(* What is left: the critical sections that read and write the tables.        *)
TableStep ==
  \/ \E r \in Requests : Submit(r) \/ FailPending(r)
  \/ \E t \in Seqnums : ~IgnoresUnlink(t) /\ SendUnlink(t)
  \/ \E reason \in Reasons : CloseWith(reason) /\ UNCHANGED reply
  \/ ReadPayload
  \/ ReadRetUnlink

LEMMA StepKinds ==
  ASSUME [Next]_vars
  PROVE  TableStep \/ UNCHANGED <<submits, unlinks, closed, closing, reply>>
<1>1. ASSUME NEW t \in Seqnums, Unlink(t) \/ UnlinkNext(t)
      PROVE  TableStep \/ UNCHANGED <<submits, unlinks, closed, closing, reply>>
  BY <1>1 DEF Unlink, UnlinkNext, TableStep, state
<1>2. CASE Close \/ WriteFails
  BY <1>2 DEF Close, WriteFails, TableStep, Reasons, tasks
<1>3. CASE ReadRetSubmit \/ ReadGarbage \/ ReadEof
  BY <1>3 DEF ReadRetSubmit, ReadGarbage, ReadEof, ReadFails, TableStep, Reasons, state
<1> QED
  BY <1>1, <1>2, <1>3, OtherSteps DEF Next, Reader, TableStep

(* The tables of pending submits and unlinks agree in every reachable state:  *)
(* no seqnum serves two purposes, each unlink cancels a pending transfer, at  *)
(* most one unlink per transfer, nothing once closed.                         *)
THEOREM TablesCorrect == Spec => []TablesAgree
<1>1. Init => TablesAgree
  BY DEF Init, TablesAgree, Empty
<1>2. TypeOK /\ TablesAgree /\ [Next]_vars => TablesAgree'
  <2> SUFFICES ASSUME TypeOK, TablesAgree, [Next]_vars PROVE TablesAgree'
    OBVIOUS
  <2> USE DEF TypeOK, TablesAgree
  <2>1. ASSUME NEW r \in Requests, Submit(r) PROVE TablesAgree'
    <3>1. CASE closed = None /\ r \notin Malformed
      <4>1. PICK s \in Seqnums : NextSeqnum(s) /\ submits' = [submits EXCEPT ![s] = r]
        BY <2>1, <3>1 DEF Submit
      <4>2. IsFree(s)
        BY <4>1 DEF NextSeqnum
      <4> QED
        BY <2>1, <3>1, <4>1, <4>2 DEF Submit, IsFree
    <3>2. CASE ~(closed = None /\ r \notin Malformed)
      BY <2>1, <3>2 DEF Submit
    <3> QED
      BY <3>1, <3>2
  <2>2. ASSUME NEW r \in Requests, FailPending(r) PROVE TablesAgree'
    BY <2>2 DEF FailPending
  <2>3. ASSUME NEW t \in Seqnums, ~IgnoresUnlink(t), SendUnlink(t) PROVE TablesAgree'
    <3>1. PICK s \in Seqnums : NextSeqnum(s) /\ unlinks' = [unlinks EXCEPT ![s] = t]
      BY <2>3 DEF SendUnlink
    <3>2. IsFree(s)
      BY <3>1 DEF NextSeqnum
    <3> QED
      BY <2>3, <3>1, <3>2 DEF SendUnlink, IsFree, IgnoresUnlink
  <2>4. ASSUME NEW reason \in Reasons, CloseWith(reason) PROVE TablesAgree'
    BY <2>4 DEF CloseWith, Empty
  <2>5. CASE ReadPayload
    <3> DEFINE s == partial[1].seqnum
    <3>1. s \in Seqnums
      BY <2>5 DEF ReadPayload, SubmitReply
    <3>2. /\ submits' = [submits EXCEPT ![s] = None]
          /\ unlinks' = [u \in Seqnums |-> IF unlinks[u] = s THEN None ELSE unlinks[u]]
          /\ closed' = closed
      BY <2>5 DEF ReadPayload
    <3> HIDE DEF s
    <3>3. closed' # None => submits' = Empty /\ unlinks' = Empty
      BY <3>1, <3>2 DEF Empty
    <3> QED
      BY <3>1, <3>2, <3>3
  <2>6. CASE ReadRetUnlink
    <3> DEFINE u == Head(toClient).seqnum
               t == unlinks[u]
    <3>1. u \in Seqnums
      BY <2>6, UnlinkTarget
    <3>2. /\ unlinks' = [unlinks EXCEPT ![u] = None]
          /\ submits' = IF t # None /\ submits[t] # None
                        THEN [submits EXCEPT ![t] = None] ELSE submits
          /\ closed' = closed
      BY <2>6 DEF ReadRetUnlink
    <3> HIDE DEF u
    <3>3. closed' # None => submits' = Empty /\ unlinks' = Empty
      BY <3>1, <3>2 DEF Empty
    <3> QED
      BY <3>1, <3>2, <3>3
  <2>7. CASE UNCHANGED <<submits, unlinks, closed, closing, reply>>
    BY <2>7
  <2> QED
    BY <2>1, <2>2, <2>3, <2>4, <2>5, <2>6, <2>7, StepKinds DEF TableStep
<1> QED
  BY <1>1, <1>2, TypeCorrect, PTL DEF Spec
------------------------------------------------------------------------------
(* Every caller that waits is held exactly once, in every reachable state:    *)
(* the reply channel of an accepted transfer is never lost, never duplicated, *)
(* and never used again once it has carried an answer.                        *)
THEOREM HoldersCorrect == Spec => []OneHolder
<1>1. Init => OneHolder
  BY DEF Init, OneHolder, Empty, Pending
<1>2. TypeOK /\ TablesAgree /\ OneHolder /\ [Next]_vars => OneHolder'
  <2> SUFFICES ASSUME TypeOK, TablesAgree, OneHolder, [Next]_vars PROVE OneHolder'
    OBVIOUS
  <2> USE DEF OneHolder, Pending
  <2>1. ASSUME NEW r \in Requests, Submit(r) PROVE OneHolder'
    <3>1. CASE closed = None /\ r \notin Malformed
      <4>1. PICK s \in Seqnums : NextSeqnum(s) /\ submits' = [submits EXCEPT ![s] = r]
        BY <2>1, <3>1 DEF Submit
      <4>2. submits[s] = None
        BY <4>1 DEF NextSeqnum, IsFree
      <4>3. /\ reply[r] = "unused" /\ reply' = [reply EXCEPT ![r] = "waiting"]
            /\ closing = {} /\ UNCHANGED <<closed, closing>>
        BY <2>1, <3>1 DEF Submit
      <4>4. Pending' = Pending \cup {r}
        BY <4>1, <4>2 DEF TypeOK
      <4>5. r \notin Pending
        BY <4>3
      <4>6. \A x, y \in Seqnums : submits'[x] # None /\ submits'[x] = submits'[y] => x = y
        BY <4>1, <4>5 DEF TypeOK
      <4> HIDE DEF Pending
      <4>7. \A q \in Requests : reply'[q] = "waiting" <=> q \in Pending' \cup closing'
        BY <4>3, <4>4 DEF TypeOK
      <4> QED
        BY <4>3, <4>6, <4>7
    <3>2. CASE ~(closed = None /\ r \notin Malformed)
      <4>1. /\ reply[r] = "unused"
            /\ \E v \in {"invalid", "refused"} : reply' = [reply EXCEPT ![r] = v]
            /\ UNCHANGED <<submits, closed, closing>>
        BY <2>1, <3>2 DEF Submit
      <4> QED
        BY <4>1 DEF TypeOK
    <3> QED
      BY <3>1, <3>2
  <2>2. ASSUME NEW r \in Requests, FailPending(r) PROVE OneHolder'
    BY <2>2 DEF FailPending, TypeOK
  <2>3. ASSUME NEW t \in Seqnums, SendUnlink(t) PROVE OneHolder'
    BY <2>3 DEF SendUnlink
  <2>4. ASSUME NEW reason \in Reasons, CloseWith(reason), UNCHANGED reply
        PROVE  OneHolder'
    <3>1. CASE closed = None
      <4>1. submits' = Empty /\ closing' = Pending /\ closing = {} /\ closed' = reason
        BY <2>4, <3>1 DEF CloseWith
      <4>2. Pending' = {}
        BY <4>1 DEF Empty
      <4>3. closed' # None
        BY <4>1, NoneIsNoReason
      <4> QED
        BY <2>4, <4>1, <4>2, <4>3 DEF Empty
    <3>2. CASE closed # None
      BY <2>4, <3>2 DEF CloseWith
    <3> QED
      BY <3>1, <3>2
  <2>5. CASE ReadPayload
    <3> DEFINE s == partial[1].seqnum
    <3>1. s \in Seqnums
      BY <2>5 DEF ReadPayload, SubmitReply, TypeOK
    <3>2. /\ submits' = [submits EXCEPT ![s] = None]
          /\ reply' = IF submits[s] = None THEN reply
                      ELSE [reply EXCEPT ![submits[s]] = "ok"]
          /\ UNCHANGED <<closed, closing>>
      BY <2>5 DEF ReadPayload
    <3> HIDE DEF s
    <3> QED
      BY <3>1, <3>2 DEF TypeOK
  <2>6. CASE ReadRetUnlink
    <3> DEFINE t == unlinks[Head(toClient).seqnum]
    <3>1. t \in Seqnums \cup {None}
      BY <2>6, UnlinkTarget
    <3>2. /\ submits' = IF t # None /\ submits[t] # None
                        THEN [submits EXCEPT ![t] = None] ELSE submits
          /\ reply' = IF t # None /\ submits[t] # None
                      THEN [reply EXCEPT ![submits[t]] = "unlinked"] ELSE reply
          /\ UNCHANGED <<closed, closing>>
      BY <2>6 DEF ReadRetUnlink
    <3> HIDE DEF t
    <3> QED
      BY <3>1, <3>2 DEF TypeOK
  <2>7. CASE UNCHANGED <<submits, unlinks, closed, closing, reply>>
    BY <2>7
  <2> QED
    BY <2>1, <2>2, <2>3, <2>4, <2>5, <2>6, <2>7, StepKinds DEF TableStep
<1> QED
  BY <1>1, <1>2, TypeCorrect, TablesCorrect, PTL DEF Spec
------------------------------------------------------------------------------
(* A transfer resolves at most once: no step changes what a caller was told.  *)
(* Only a caller that is held somewhere is ever answered, and by OneHolder    *)
(* such a caller has had no answer yet.                                       *)
THEOREM AnswersCorrect == Spec => AnsweredOnce
<1>1. TypeOK /\ OneHolder /\ [Next]_vars => [AnswersKept]_vars
  <2> SUFFICES ASSUME TypeOK, OneHolder, [Next]_vars PROVE AnswersKept
    OBVIOUS
  <2> USE DEF AnswersKept, TypeOK
  <2>1. ASSUME NEW r \in Requests, Submit(r) PROVE AnswersKept
    <3>1. reply[r] = "unused" /\ \E v \in {"invalid", "refused", "waiting"} :
                                    reply' = [reply EXCEPT ![r] = v]
      BY <2>1 DEF Submit
    <3> QED
      BY <3>1
  <2>2. ASSUME NEW r \in Requests, FailPending(r) PROVE AnswersKept
    <3>1. reply[r] = "waiting"
      BY <2>2 DEF FailPending, OneHolder
    <3> QED
      BY <2>2, <3>1 DEF FailPending
  <2>3. \A s \in Seqnums : submits[s] # None =>
          submits[s] \in Requests /\ reply[submits[s]] = "waiting"
    BY DEF OneHolder, Pending
  <2>4. CASE ReadPayload
    <3> DEFINE s == partial[1].seqnum
    <3>1. s \in Seqnums
      BY <2>4 DEF ReadPayload, SubmitReply
    <3>2. reply' = IF submits[s] = None THEN reply ELSE [reply EXCEPT ![submits[s]] = "ok"]
      BY <2>4 DEF ReadPayload
    <3> HIDE DEF s
    <3> QED
      BY <2>3, <3>1, <3>2
  <2>5. CASE ReadRetUnlink
    <3> DEFINE t == unlinks[Head(toClient).seqnum]
    <3>1. t \in Seqnums \cup {None}
      BY <2>5, UnlinkTarget
    <3>2. reply' = IF t # None /\ submits[t] # None
                   THEN [reply EXCEPT ![submits[t]] = "unlinked"] ELSE reply
      BY <2>5 DEF ReadRetUnlink
    <3> HIDE DEF t
    <3> QED
      BY <2>3, <3>1, <3>2
  <2>6. ASSUME NEW t \in Seqnums, SendUnlink(t) PROVE AnswersKept
    BY <2>6 DEF SendUnlink
  <2>7. CASE UNCHANGED reply
    BY <2>7
  <2> QED
    BY <2>1, <2>2, <2>4, <2>5, <2>6, <2>7, StepKinds DEF TableStep
<1> QED
  BY <1>1, TypeCorrect, HoldersCorrect, PTL DEF Spec, AnsweredOnce
==============================================================================
