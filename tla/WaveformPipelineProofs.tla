----------------------- MODULE WaveformPipelineProofs -----------------------
(***************************************************************************)
(* Proofs about the waveform pipeline for every number of jobs, attempts,  *)
(* slots, deliveries and abandoned calls: it is well typed, it uses the    *)
(* job service as WaveformJob describes it, and the invariants that the    *)
(* MCPipeline runs check on small instances hold.                          *)
(***************************************************************************)
EXTENDS WaveformPipeline, WaveformJobProofs

-----------------------------------------------------------------------------
(* The shape of a state: types, and what a lease may hold at each of its     *)
(* stages.                                                                   *)

Message == [place : {"none", "deleted", "expired"} \cup Queues,
            hidden : BOOLEAN, count : 0 .. MaxDeliveries, puts : Nat]

PipeTypeOK ==
    /\ console \in [Jobs -> {"none", "send", "await", "refused", "done"}]
    /\ handler \in [Jobs -> {"none"} \cup HandlerBusy \cup Outcomes]
    /\ msg \in [Jobs -> Message]
    /\ consumer \in [pc : {"off", "idle"} \cup InLease, job : Jobs \cup {NoJob},
                     dlq : BOOLEAN, attempt : Attempts \cup {NoAttempt}]
    /\ container \in [state : {"none", "created", "running"}, job : Jobs \cup {NoJob},
                      attempt : Attempts \cup {NoAttempt}]
    /\ approved \in ApprovedLists
    /\ late \subseteq Calls

\* A message that may be delivered has deliveries left.
DeliveriesLeft ==
    \A j \in Jobs : (msg[j].place = "main" /\ ~msg[j].hidden) => msg[j].count < MaxDeliveries

\* A lease is for a job; an attempt is started, worked on and reported only
\* for a delivery of the main queue, and has an id from its start.
LeaseShape ==
    /\ consumer.pc \in InLease => consumer.job \in Jobs
    /\ consumer.pc \in {"start", "run", "work"} => ~consumer.dlq
    /\ consumer.pc \in {"run", "work"} => consumer.attempt \in Attempts
    /\ (consumer.pc = "report" /\ ~consumer.dlq) => consumer.attempt \in Attempts
    /\ \A c \in late : c.op = "result" => c.attempt \in Attempts

Shape == JobsTypeOK /\ PipeTypeOK /\ DeliveriesLeft /\ LeaseShape

\* The terminal call of a round is an operation of the job service, or none.
LEMMA CompleteIsJobStep ==
    ASSUME JobsTypeOK, NEW op \in {"result", "dlq"}, NEW j \in Jobs,
           NEW a \in Attempts \cup {NoAttempt}, op = "result" => a \in Attempts,
           Complete(op, j, a)
    PROVE  [JobsNext]_jobVars
<1>1. CASE ~(Exists(j) /\ CompleteAccepted(j, a))
  BY <1>1 DEF Complete
<1>2. CASE Exists(j) /\ CompleteAccepted(j, a) /\ op = "dlq"
  <2>1. CompleteFailed(j, a, "DLQ")
    BY <1>2 DEF Complete
  <2> QED BY <2>1 DEF JobsNext, RunnerNext, Errors
<1>3. CASE Exists(j) /\ CompleteAccepted(j, a) /\ op = "result"
  <2>1. CompleteSucceeded(j, a, WorkerResult(j, a))
    BY <1>3 DEF Complete
  <2>2. WorkerResult(j, a) \in Result
    BY <1>3, ContentsAssumption DEF WorkerResult, Result, JobsTypeOK, JobRow
  <2> QED BY <1>3, <2>1, <2>2 DEF JobsNext, RunnerNext
<1> QED BY <1>1, <1>2, <1>3

\* Whatever the pipeline does, the job service takes a step of its own or none.
LEMMA StepIsJobStep ==
    ASSUME Shape, [PipelineNext]_vars
    PROVE  [JobsNext]_jobVars
<1> USE DEF Shape
<1>1. ASSUME NEW s \in Songs, NEW p \in Accounts, NEW j \in Jobs,
             Request(s, p, j) \/ RequestAgain(s, p, j)
      PROVE  [JobsNext]_jobVars
  BY <1>1 DEF Request, RequestAgain, JobsNext, RequestNext
<1>2. ASSUME NEW j \in Jobs, FailEnqueue(j) PROVE [JobsNext]_jobVars
  BY <1>2 DEF FailEnqueue, JobsNext, RunnerNext, Errors
<1>3. ASSUME NEW j \in Jobs, HandlerRecord(j) PROVE [JobsNext]_jobVars
  BY <1>3 DEF HandlerRecord, JobsNext, RunnerNext
<1>4. ASSUME NEW a \in Attempts, StartAttempt(a) PROVE [JobsNext]_jobVars
  <2>1. consumer.job \in Jobs /\ consumer.attempt \in Attempts \cup {NoAttempt}
    BY <1>4 DEF StartAttempt, LeaseShape, PipeTypeOK, InLease
  <2> QED BY <1>4, <2>1 DEF StartAttempt, JobsNext, RunnerNext
<1>5. CASE Report
  <2>1. /\ consumer.job \in Jobs /\ consumer.attempt \in Attempts \cup {NoAttempt}
        /\ ReportOp \in {"result", "dlq"}
        /\ ReportOp = "result" => consumer.attempt \in Attempts
    BY <1>5 DEF Report, ReportOp, LeaseShape, PipeTypeOK, InLease
  <2> QED BY <1>5, <2>1, CompleteIsJobStep DEF Report
<1>6. ASSUME NEW c \in late, LateEffect(c) PROVE [JobsNext]_jobVars
  <2>1. /\ c.job \in Jobs /\ c.attempt \in Attempts \cup {NoAttempt}
        /\ c.op = "result" => c.attempt \in Attempts
    BY DEF LeaseShape, PipeTypeOK, Calls
  <2>2. CASE c.op = "enqueued" /\ RecordEnqueued(c.job)
    BY <2>1, <2>2 DEF JobsNext, RunnerNext
  <2>3. CASE c.op = "start" /\ \E a \in Attempts : StartJob(c.job, c.attempt, a)
    BY <2>1, <2>3 DEF JobsNext, RunnerNext
  <2>4. CASE c.op \in {"result", "dlq"} /\ Complete(c.op, c.job, c.attempt)
    BY <2>1, <2>4, CompleteIsJobStep
  <2>5. CASE UNCHANGED jobVars
    BY <2>5
  <2> QED BY <1>6, <2>2, <2>3, <2>4, <2>5 DEF LateEffect
<1>7. CASE Elsewhere
  <2>1. ASSUME NEW s \in Songs, NEW p \in Accounts, NEW j \in Jobs, Upload(s, p, j)
        PROVE  JobsNext
    BY <2>1 DEF Upload, JobsNext, ImportNext, Result
  <2> QED BY <1>7, <2>1 DEF Elsewhere, JobsNext
<1>8. CASE UNCHANGED jobVars
  BY <1>8
<1> QED
  BY <1>1, <1>2, <1>3, <1>4, <1>5, <1>6, <1>7, <1>8
  DEF PipelineNext, ConsoleNext, HandlerNext, QueueNext, ConsumerNext, LateNext, vars,
      RefuseInFlight, Submit, Answer, ConsoleLeaves, HandlerGet, HandlerPut, HandlerPutLost,
      HandlerRecordLost, VisibilityTimeout, Expire, Boot, Crash, EmptyPoll, CleanUp, Abandon,
      GetJob, Poll, PollLost, StartLost, RunContainer, CreateLost, WorkDone, ReportLost,
      Recheck, DeleteMessage, LateNever

\* A change of one message keeps the messages well typed and deliverable.
LEMMA MessageStep ==
    ASSUME PipeTypeOK, DeliveriesLeft, NEW j \in Jobs, NEW m \in Message,
           (m.place = "main" /\ ~m.hidden) => m.count < MaxDeliveries,
           msg' = [msg EXCEPT ![j] = m]
    PROVE  msg' \in [Jobs -> Message] /\ DeliveriesLeft'
BY DEF PipeTypeOK, DeliveriesLeft

\* A message that is put is well typed and may be delivered.
LEMMA PutStep ==
    ASSUME PipeTypeOK, DeliveriesLeft, NEW j \in Jobs, PutEffect(j)
    PROVE  msg' \in [Jobs -> Message] /\ DeliveriesLeft'
<1> DEFINE m == [place |-> "main", hidden |-> FALSE, count |-> 0, puts |-> msg[j].puts + 1]
<1>1. m \in Message /\ m.count < MaxDeliveries
  BY LimitsAssumption DEF PipeTypeOK, Message, Queues
<1>2. msg' = [msg EXCEPT ![j] = m]
  BY DEF PutEffect
<1> QED BY <1>1, <1>2, MessageStep

\* A delivery hides the message and counts, in the main queue, one more.
LEMMA DeliveryStep ==
    ASSUME PipeTypeOK, DeliveriesLeft, NEW j \in Jobs, consumer.dlq \in BOOLEAN, Visible(j),
           msg' = [msg EXCEPT ![j].hidden = TRUE,
                              ![j].count = IF consumer.dlq THEN @ ELSE @ + 1]
    PROVE  msg' \in [Jobs -> Message] /\ DeliveriesLeft'
<1> DEFINE m == [msg[j] EXCEPT !.hidden = TRUE,
                               !.count = IF consumer.dlq THEN @ ELSE @ + 1]
<1>1. msg' = [msg EXCEPT ![j] = m]
  BY DEF PipeTypeOK
<1>2. /\ msg[j] \in Message
      /\ ~consumer.dlq => msg[j].count < MaxDeliveries
  BY DEF PipeTypeOK, DeliveriesLeft, Visible, Queue
<1>3. /\ msg[j].count \in 0 .. MaxDeliveries
      /\ ~consumer.dlq => msg[j].count + 1 \in 0 .. MaxDeliveries
  BY <1>2, LimitsAssumption DEF Message
<1>4. m \in Message /\ m.hidden
  BY <1>2, <1>3 DEF Message
<1> QED BY <1>1, <1>4, MessageStep

\* Each step keeps the shape of consume loop, queue, handlers and late calls.
LEMMA PipeShapeNext ==
    ASSUME Shape, [PipelineNext]_vars
    PROVE  PipeTypeOK' /\ DeliveriesLeft' /\ LeaseShape'
<1> DEFINE Goal == PipeTypeOK /\ DeliveriesLeft /\ LeaseShape
<1> SUFFICES Goal'
    OBVIOUS
<1>0. /\ PipeTypeOK /\ DeliveriesLeft /\ LeaseShape
      /\ MaxDeliveries \in Nat \ {0}
      /\ ApprovedLists # {}
  BY LimitsAssumption, ApprovedAssumption DEF Shape
<1> USE <1>0 DEF PipeTypeOK, DeliveriesLeft, LeaseShape, Queues, InLease, HandlerBusy, Outcomes
<1>1. ASSUME NEW s \in Songs, NEW p \in Accounts, NEW j \in Jobs,
             Request(s, p, j) \/ RequestAgain(s, p, j)
      PROVE  Goal'
  BY <1>1 DEF Request, RequestAgain, consoleOnly, pipeVars
<1>2. ASSUME NEW j \in Jobs,
             \/ RefuseInFlight(j) \/ Submit(j) \/ Answer(j)
             \/ FailEnqueue(j) \/ ConsoleLeaves(j)
      PROVE  Goal'
  BY <1>2 DEF RefuseInFlight, Submit, Answer, FailEnqueue, ConsoleLeaves, consoleOnly
<1>3. ASSUME NEW j \in Jobs, HandlerGet(j) \/ HandlerRecord(j)
      PROVE  Goal'
  BY <1>3 DEF HandlerGet, HandlerRecord, handlerOnly
<1>4. ASSUME NEW j \in Jobs, HandlerPut(j)
      PROVE  Goal'
  <2>1. msg' \in [Jobs -> Message] /\ DeliveriesLeft'
    BY <1>4, PutStep DEF HandlerPut
  <2> QED BY <1>4, <2>1 DEF HandlerPut, handlerOnly
<1>5. ASSUME NEW op \in {"put", "enqueued", "start", "result", "dlq", "create"}, NEW j \in Jobs,
             NEW a \in Attempts \cup {NoAttempt}, op = "result" => a \in Attempts,
             GiveUp(op, j, a)
      PROVE  late' \subseteq Calls /\ \A c \in late' : c.op = "result" => c.attempt \in Attempts
  BY <1>5 DEF GiveUp, Calls
<1>6. ASSUME NEW j \in Jobs, HandlerPutLost(j) \/ HandlerRecordLost(j)
      PROVE  Goal'
  <2>1. /\ late' \subseteq Calls
        /\ \A c \in late' : c.op = "result" => c.attempt \in Attempts
    BY <1>5, <1>6 DEF HandlerPutLost, HandlerRecordLost
  <2> QED BY <1>6, <2>1 DEF HandlerPutLost, HandlerRecordLost, handlerOnly
<1>7. ASSUME NEW j \in Jobs, VisibilityTimeout(j)
      PROVE  Goal'
  <2> DEFINE m == [msg[j] EXCEPT
                     !.hidden = FALSE,
                     !.place = IF @ = "main" /\ msg[j].count = MaxDeliveries THEN "dlq" ELSE @]
  <2>1. msg' = [msg EXCEPT ![j] = m]
    BY <1>7 DEF VisibilityTimeout
  <2>2. /\ msg[j] \in Message
        /\ msg[j].count # MaxDeliveries => msg[j].count < MaxDeliveries
    BY DEF Message
  <2>3. m \in Message /\ (m.place = "main" => m.count < MaxDeliveries)
    BY <2>2 DEF Message
  <2>4. msg' \in [Jobs -> Message] /\ DeliveriesLeft'
    BY <2>1, <2>3, MessageStep
  <2> QED BY <1>7, <2>4 DEF VisibilityTimeout, queueOnly
<1>8. ASSUME NEW j \in Jobs, Expire(j)
      PROVE  Goal'
  <2> DEFINE m == [msg[j] EXCEPT !.place = "expired", !.hidden = FALSE]
  <2>1. msg' = [msg EXCEPT ![j] = m]
    BY <1>8 DEF Expire
  <2>2. m \in Message /\ m.place # "main"
    BY DEF Message
  <2>3. msg' \in [Jobs -> Message] /\ DeliveriesLeft'
    BY <2>1, <2>2, MessageStep
  <2> QED BY <1>8, <2>3 DEF Expire, queueOnly
<1>9. CASE Boot \/ Crash
  <2>1. \/ consumer' = Stopped
        \/ consumer' = [Stopped EXCEPT !.pc = "idle"]
    BY <1>9 DEF Boot, Crash
  <2>2. /\ consumer' \in [pc : {"off", "idle"} \cup InLease, job : Jobs \cup {NoJob},
                          dlq : BOOLEAN, attempt : Attempts \cup {NoAttempt}]
        /\ consumer'.pc \in {"off", "idle"}
    <3>1. CASE consumer' = Stopped
      BY <3>1 DEF Stopped
    <3>2. CASE consumer' = [Stopped EXCEPT !.pc = "idle"]
      <4>1. consumer' = [pc |-> "idle", job |-> NoJob, dlq |-> TRUE, attempt |-> NoAttempt]
        BY <3>2 DEF Stopped
      <4> QED BY <4>1
    <3> QED BY <2>1, <3>1, <3>2
  <2> QED BY <1>9, <2>2 DEF Boot, Crash, NoContainer
<1>10. ASSUME NEW j \in Jobs, Poll(j)
       PROVE  Goal'
  <2>1. msg' \in [Jobs -> Message] /\ DeliveriesLeft'
    BY <1>10, DeliveryStep DEF Poll
  <2> QED BY <1>10, <2>1 DEF Poll, loopOnly
<1>11. ASSUME NEW j \in Jobs, PollLost(j)
       PROVE  Goal'
  <2>1. msg' \in [Jobs -> Message] /\ DeliveriesLeft'
    BY <1>11, DeliveryStep DEF PollLost
  <2> QED BY <1>11, <2>1 DEF PollLost, NextRound, loopOnly
<1>12. CASE EmptyPoll \/ CleanUp \/ Abandon \/ WorkDone \/ Recheck
  <2>1. \/ NextRound
        \/ Goto("get") /\ consumer.pc = "clean"
        \/ Goto("report") /\ consumer.pc = "work"
        \/ Goto("delete") /\ consumer.pc = "recheck"
    BY <1>12 DEF EmptyPoll, CleanUp, Abandon, WorkDone, Recheck
  <2>2. /\ UNCHANGED <<console, handler, msg, approved, late>>
        /\ container' = NoContainer \/ UNCHANGED container
    BY <1>12 DEF EmptyPoll, CleanUp, Abandon, WorkDone, Recheck, loopOnly
  <2>3. container' \in [state : {"none", "created", "running"}, job : Jobs \cup {NoJob},
                        attempt : Attempts \cup {NoAttempt}]
    BY <2>2 DEF NoContainer
  <2>4. CASE NextRound
    BY <2>2, <2>3, <2>4 DEF NextRound
  <2>5. CASE Goto("get") /\ consumer.pc = "clean"
    BY <2>2, <2>3, <2>5 DEF Goto
  <2>6. CASE Goto("report") /\ consumer.pc = "work"
    BY <2>2, <2>3, <2>6 DEF Goto
  <2>7. CASE Goto("delete") /\ consumer.pc = "recheck"
    BY <2>2, <2>3, <2>7 DEF Goto
  <2> QED BY <2>1, <2>4, <2>5, <2>6, <2>7
<1>13. CASE GetJob
  <2>1. job[consumer.job].attempt \in Attempts \cup {NoAttempt}
    BY <1>13 DEF Shape, JobsTypeOK, JobRow, GetJob
  <2> QED BY <1>13, <2>1, ZenonT(60) DEF GetJob, Goto, loopOnly
<1>14. ASSUME NEW a \in Attempts, StartAttempt(a)
       PROVE  Goal'
  BY <1>14 DEF StartAttempt, loopOnly
<1>15. CASE StartLost
  <2>1. /\ late' \subseteq Calls
        /\ \A c \in late' : c.op = "result" => c.attempt \in Attempts
    BY <1>5, <1>15 DEF StartLost
  <2> QED BY <1>15, <2>1 DEF StartLost, NextRound, loopOnly
<1>16. CASE RunContainer
  BY <1>16 DEF RunContainer, Goto, loopOnly
<1>17. CASE CreateLost
  <2>1. /\ late' \subseteq Calls
        /\ \A c \in late' : c.op = "result" => c.attempt \in Attempts
    BY <1>5, <1>17 DEF CreateLost
  <2> QED BY <1>17, <2>1 DEF CreateLost, Stopped, NoContainer
<1>18. CASE Report
  BY <1>18 DEF Report, Goto, loopOnly
<1>19. CASE ReportLost
  <2>1. /\ late' \subseteq Calls
        /\ \A c \in late' : c.op = "result" => c.attempt \in Attempts
    BY <1>5, <1>19 DEF ReportLost, ReportOp
  <2> QED BY <1>19, <2>1 DEF ReportLost, Goto, loopOnly
<1>20. CASE DeleteMessage
  <2> DEFINE m == [msg[consumer.job] EXCEPT !.place = "deleted", !.hidden = FALSE]
  <2>1. msg' = [msg EXCEPT ![consumer.job] = m] /\ consumer.job \in Jobs
    BY <1>20 DEF DeleteMessage
  <2>2. m \in Message /\ m.place # "main"
    BY <2>1, ZenonT(60) DEF Message
  <2>3. msg' \in [Jobs -> Message] /\ DeliveriesLeft'
    BY <2>1, <2>2, MessageStep
  <2> QED BY <1>20, <2>3 DEF DeleteMessage, NextRound, loopOnly
<1>21. ASSUME NEW c \in late, LateEffect(c)
       PROVE  Goal'
  <2>1. /\ c.job \in Jobs /\ c.attempt \in Attempts \cup {NoAttempt}
        /\ late' = late \ {c}
    BY <1>21 DEF LateEffect, Calls
  <2>2. \/ UNCHANGED <<msg, container>>
        \/ PutEffect(c.job) /\ UNCHANGED container
        \/ container' = [state |-> "created", job |-> c.job, attempt |-> c.attempt]
               /\ UNCHANGED msg
    BY <1>21 DEF LateEffect
  <2>3. msg' \in [Jobs -> Message] /\ DeliveriesLeft'
    <3>1. CASE UNCHANGED msg
      BY <3>1
    <3>2. CASE PutEffect(c.job)
      BY <2>1, <3>2, PutStep
    <3> QED BY <2>2, <3>1, <3>2
  <2>4. container' \in [state : {"none", "created", "running"}, job : Jobs \cup {NoJob},
                        attempt : Attempts \cup {NoAttempt}]
    BY <2>1, <2>2
  <2> QED BY <1>21, <2>1, <2>3, <2>4 DEF LateEffect
<1>22. ASSUME NEW c \in late, LateNever(c)
       PROVE  Goal'
  BY <1>22 DEF LateNever
<1>23. CASE Elsewhere \/ UNCHANGED vars
  BY <1>23 DEF Elsewhere, Upload, pipeVars, vars
<1> HIDE DEF Goal, PipeTypeOK, DeliveriesLeft, LeaseShape
<1> QED
  BY <1>1, <1>2, <1>3, <1>4, <1>6, <1>7, <1>8, <1>9, <1>10, <1>11, <1>12, <1>13, <1>14,
     <1>15, <1>16, <1>17, <1>18, <1>19, <1>20, <1>21, <1>22, <1>23
  DEF PipelineNext, ConsoleNext, HandlerNext, QueueNext, ConsumerNext, LateNext

\* A new pipeline is in shape.
LEMMA ShapeInit == PipelineInit => Shape
<1> SUFFICES ASSUME PipelineInit PROVE Shape
    OBVIOUS
<1>1. JobsTypeOK
  BY InitType DEF PipelineInit
<1>2. PipeTypeOK /\ DeliveriesLeft
  BY LimitsAssumption DEF PipelineInit, PipeTypeOK, DeliveriesLeft, NoMessage, NoContainer,
     Stopped, Message
<1>3. LeaseShape
  BY DEF PipelineInit, LeaseShape, Stopped, InLease
<1> QED BY <1>1, <1>2, <1>3 DEF Shape

\* A step keeps it in shape.
LEMMA ShapeNext == Shape /\ [PipelineNext]_vars => Shape'
<1> SUFFICES ASSUME Shape, [PipelineNext]_vars PROVE Shape'
    OBVIOUS
<1>1. JobsTypeOK'
  BY StepIsJobStep, NextType DEF Shape
<1> QED BY <1>1, PipeShapeNext DEF Shape

LEMMA ShapeHolds == PipelineSpec => []Shape
BY ShapeInit, ShapeNext, PTL DEF PipelineSpec

\* Every state of the pipeline is well typed.
THEOREM PipelineTypeCorrect == PipelineSpec => []PipelineTypeOK
<1>1. Shape => PipelineTypeOK
  BY DEF Shape, PipeTypeOK, PipelineTypeOK, Message
<1> QED BY <1>1, ShapeHolds, PTL

\* Console, Runner, queue and administrators together use the job service only
\* through its operations: what WaveformJobProofs shows of it holds here.
THEOREM PipelineUsesService == PipelineSpec => JobsSpec
<1>1. PipelineInit => JobsInit
  BY DEF PipelineInit
<1>2. Shape /\ [PipelineNext]_vars => [JobsNext]_jobVars
  BY StepIsJobStep
<1> QED BY <1>1, <1>2, ShapeHolds, PTL DEF PipelineSpec, JobsSpec

\* In particular one job per song and video is open, whoever asked for it is
\* told how it ended, and stored waveforms are those of succeeded jobs, under
\* everything that Runner and queue do.
THEOREM PipelineKeepsService ==
    PipelineSpec => [](OneActiveJob /\ RowChecks /\ RequestersInformed /\ WaveformBacked)
BY PipelineUsesService, UniqueActive, RowsLegal, AllInformed, WaveformsBacked, PTL

\* Seen from the administrators the whole pipeline is the abstract job life.
THEOREM PipelineImplements == PipelineSpec => ImplementsLifecycle
BY PipelineUsesService, Refinement, PTL

-----------------------------------------------------------------------------

\* No analysis outlives its lease.
LEMMA WorkOnlyInLeaseNext ==
    ASSUME Shape, WorkOnlyInLease, [PipelineNext]_vars
    PROVE  WorkOnlyInLease'
<1> USE DEF WorkOnlyInLease
<1>1. CASE UNCHANGED <<consumer, container>>
  BY <1>1
<1>2. CASE container' = NoContainer
  BY <1>2 DEF NoContainer
<1>3. CASE consumer' = Stopped
  BY <1>3 DEF Stopped
<1>4. CASE UNCHANGED container /\ consumer.pc \notin {"off", "work"}
  BY <1>4
<1>5. CASE RunContainer
  BY <1>5 DEF RunContainer, Goto, Shape, PipeTypeOK
<1>6. ASSUME NEW c \in late, LateEffect(c) PROVE WorkOnlyInLease'
  BY <1>6 DEF LateEffect
<1>7. CASE Abandon
  BY <1>2, <1>4, <1>7 DEF Abandon, InLease
<1> QED
  BY <1>1, <1>2, <1>3, <1>4, <1>5, <1>6, <1>7
  DEF PipelineNext, ConsoleNext, HandlerNext, QueueNext, ConsumerNext, LateNext, Elsewhere, vars,
      pipeVars, consoleOnly, handlerOnly, queueOnly, loopOnly, Request, RequestAgain,
      RefuseInFlight, Submit, Answer, FailEnqueue, ConsoleLeaves, HandlerGet, HandlerPut,
      HandlerPutLost, HandlerRecord, HandlerRecordLost, VisibilityTimeout, Expire, Boot, Crash,
      EmptyPoll, CleanUp, GetJob, Poll, PollLost, StartAttempt, StartLost, CreateLost, WorkDone,
      Report, ReportLost, Recheck, DeleteMessage, LateNever, Upload

\* Where an analysis runs, the consumer holds its lease, or the Runner is down.
THEOREM NoStrayWork == PipelineSpec => []WorkOnlyInLease
<1>1. PipelineInit => WorkOnlyInLease
  BY DEF PipelineInit, WorkOnlyInLease, NoContainer
<1>2. Shape /\ WorkOnlyInLease /\ [PipelineNext]_vars => WorkOnlyInLease'
  BY WorkOnlyInLeaseNext
<1> QED BY <1>1, <1>2, ShapeHolds, PTL DEF PipelineSpec

-----------------------------------------------------------------------------
(* Jobs that ended stay ended, and nothing touches a job that does not exist *)
(* yet.                                                                      *)

\* What a step of the job service never takes back.
LEMMA JobStepFacts ==
    ASSUME JobsTypeOK, [JobsNext]_jobVars
    PROVE  /\ issued \subseteq issued'
           /\ \A j \in Jobs :
                 /\ job[j].status # "NONE" => job'[j].status # "NONE"
                 /\ job[j].status \notin Active \cup {"NONE"} => job'[j].status \notin Active
                 /\ job'[j].attempt \in {job[j].attempt, NoAttempt} \cup issued'
<1> DEFINE Kept == /\ issued \subseteq issued'
                   /\ \A j \in Jobs :
                         /\ job[j].status # "NONE" => job'[j].status # "NONE"
                         /\ job[j].status \notin Active \cup {"NONE"} => job'[j].status \notin Active
                         /\ job'[j].attempt \in {job[j].attempt, NoAttempt} \cup issued'
<1> USE DEF JobsTypeOK
<1>1. ASSUME NEW s \in Songs, NEW p \in Accounts, NEW j \in Jobs, CreateJob(s, p, j)
      PROVE  Kept
  BY <1>1 DEF CreateJob, NewRow
<1>2. ASSUME NEW j \in Jobs, RecordEnqueued(j) PROVE Kept
  BY <1>2 DEF RecordEnqueued, JobRow
<1>3. ASSUME NEW j \in Jobs, NEW e, NEW a \in Attempts, StartJob(j, e, a) PROVE Kept
  BY <1>3 DEF StartJob, StartAccepted, JobRow, Active
<1>4. ASSUME NEW j \in Jobs, NEW status \in Terminal, NEW error, Finish(j, status, error),
             UNCHANGED issued
      PROVE  Kept
  BY <1>4 DEF Finish, JobRow, Active, Terminal
<1>5. ASSUME NEW s \in Songs, NEW p \in Accounts, NEW j \in Jobs, NEW a \in Attempts,
             NEW r \in Result, NEW replace \in BOOLEAN, ImportWaveform(s, p, r, replace, j, a)
      PROVE  Kept
  <2> DEFINE row == [(IF job[j].status = "NONE" THEN NewRow(s, r.source) ELSE job[j])
                       EXCEPT !.status = "SUCCEEDED", !.attempt = a, !.error = "NONE"]
  <2>1. job' = [job EXCEPT ![j] = row] /\ issued' = issued \cup {a}
    BY <1>5 DEF ImportWaveform
  <2>2. row.status = "SUCCEEDED" /\ row.attempt = a
    BY DEF NewRow, JobRow
  <2> HIDE DEF row
  <2> QED BY <2>1, <2>2 DEF Active
<1>6. ASSUME NEW s \in Songs, DeleteSong(s) PROVE Kept
  BY <1>6 DEF DeleteSong, JobRow, Active
<1>7. ASSUME UNCHANGED <<job, issued>> PROVE Kept
  BY <1>7
<1> HIDE DEF Kept, JobsTypeOK
<1>8. Kept
  BY <1>1, <1>2, <1>3, <1>4, <1>5, <1>6, <1>7
  DEF JobsNext, RequestNext, RunnerNext, ImportNext, SongNext, jobVars, JoinJob,
      CompleteFailed, CompleteSucceeded, EditVideo, Terminal
<1> QED BY <1>8 DEF Kept

\* Somebody deals with job j: its request, its handler, its message, its
\* delivery or a call that may still take effect.
Touched(j) ==
    \/ console[j] # "none" \/ handler[j] # "none" \/ msg[j].place # "none"
    \/ consumer.job = j \/ \E c \in late : c.job = j

TouchedBorn == \A j \in Jobs : Touched(j) => job[j].status # "NONE"

\* Only the request that creates a job touches one that was untouched.
LEMMA TouchedBornNext ==
    ASSUME Shape, TouchedBorn, [PipelineNext]_vars
    PROVE  TouchedBorn'
<1>1. \A k \in Jobs : job[k].status # "NONE" => job'[k].status # "NONE"
  BY StepIsJobStep, JobStepFacts DEF Shape
<1>2. PipeTypeOK /\ LeaseShape
  BY DEF Shape
<1>3. ASSUME NEW s \in Songs, NEW p \in Accounts, NEW j \in Jobs, Request(s, p, j)
      PROVE  TouchedBorn'
  <2>1. job'[j].status # "NONE"
    BY <1>3 DEF Request, CreateJob, NewRow, Shape, JobsTypeOK
  <2>2. \A k \in Jobs \ {j} : Touched(k)' => Touched(k)
    BY <1>2, <1>3 DEF Request, consoleOnly, Touched, PipeTypeOK
  <2> QED BY <1>1, <2>1, <2>2 DEF TouchedBorn
<1> DEFINE Untouched == \A k \in Jobs : Touched(k)' => Touched(k)
<1> USE <1>2 DEF Touched, PipeTypeOK
<1>4. ASSUME NEW j \in Jobs,
             \/ RefuseInFlight(j) \/ Submit(j) \/ Answer(j)
             \/ FailEnqueue(j) \/ ConsoleLeaves(j)
      PROVE  Untouched
  BY <1>4 DEF RefuseInFlight, Submit, Answer, FailEnqueue, ConsoleLeaves, consoleOnly
<1>5. ASSUME NEW j \in Jobs, HandlerGet(j) \/ HandlerRecord(j) PROVE Untouched
  BY <1>5 DEF HandlerGet, HandlerRecord, handlerOnly
<1>6. ASSUME NEW j \in Jobs, HandlerPut(j) PROVE Untouched
  BY <1>6 DEF HandlerPut, PutEffect, handlerOnly
<1>7. ASSUME NEW op, NEW j \in Jobs, NEW a, GiveUp(op, j, a)
      PROVE  \A c \in late' : c \in late \/ c.job = j
  BY <1>7 DEF GiveUp
<1>8. ASSUME NEW j \in Jobs, HandlerPutLost(j) \/ HandlerRecordLost(j) PROVE Untouched
  <2>1. \A c \in late' : c \in late \/ c.job = j
    BY <1>7, <1>8 DEF HandlerPutLost, HandlerRecordLost
  <2> QED BY <1>8, <2>1 DEF HandlerPutLost, HandlerRecordLost, handlerOnly
<1>9. ASSUME NEW j \in Jobs, VisibilityTimeout(j) \/ Expire(j) PROVE Untouched
  BY <1>9 DEF VisibilityTimeout, Expire, queueOnly, Message, Queues
<1>10. ASSUME Boot \/ Crash PROVE Untouched
  <2>1. consumer'.job = NoJob
    BY <1>10 DEF Boot, Crash, Stopped
  <2>2. UNCHANGED <<console, msg, late>>
    BY <1>10 DEF Boot, Crash
  <2>3. \A k \in Jobs : handler'[k] # "none" => handler[k] # "none"
    BY <1>10 DEF Boot, Crash, HandlerBusy
  <2> QED BY <2>1, <2>2, <2>3, NoJobAssumption
<1>11. ASSUME NEW j \in Jobs, Poll(j) \/ PollLost(j) PROVE Untouched
  <2>1. msg[j].place # "none" /\ UNCHANGED <<console, handler, late>>
    BY <1>11 DEF Poll, PollLost, Visible, Queue, loopOnly
  <2>2. consumer'.job \in {j, NoJob}
    <3>1. CASE Poll(j)
      BY <3>1 DEF Poll
    <3>2. CASE PollLost(j)
      BY <3>2 DEF PollLost, NextRound
    <3> QED BY <1>11, <3>1, <3>2
  <2>3. msg' = [msg EXCEPT ![j].hidden = TRUE,
                           ![j].count = IF consumer.dlq THEN @ ELSE @ + 1]
    BY <1>11 DEF Poll, PollLost
  <2>4. \A k \in Jobs : msg'[k].place = msg[k].place
    BY <2>3 DEF Message
  <2> QED BY <2>1, <2>2, <2>4, NoJobAssumption
<1>12. ASSUME \/ EmptyPoll \/ CleanUp \/ Abandon \/ WorkDone \/ Recheck \/ GetJob
              \/ RunContainer \/ Report
       PROVE  Untouched
  <2>1. consumer'.job \in {consumer.job, NoJob}
    <3>1. ASSUME NEW pc, Goto(pc) PROVE consumer'.job = consumer.job
      BY <3>1 DEF Goto
    <3>2. CASE NextRound
      BY <3>2 DEF NextRound
    <3>3. CASE GetJob
      <4>1. \/ Goto("delete")
            \/ consumer' = [[consumer EXCEPT !.pc = consumer'.pc] EXCEPT
                              !.attempt = consumer'.attempt]
        BY <3>3 DEF GetJob
      <4> QED BY <3>1, <4>1
    <3> QED BY <1>12, <3>1, <3>2, <3>3
            DEF EmptyPoll, CleanUp, Abandon, WorkDone, Recheck, RunContainer, Report
  <2>2. UNCHANGED <<console, handler, msg, late>>
    BY <1>12 DEF EmptyPoll, CleanUp, Abandon, WorkDone, Recheck, GetJob, RunContainer, Report,
       loopOnly
  <2> QED BY <2>1, <2>2, NoJobAssumption
<1>13. ASSUME NEW a \in Attempts, StartAttempt(a) PROVE Untouched
  BY <1>13 DEF StartAttempt, loopOnly
<1>14. ASSUME StartLost \/ ReportLost \/ CreateLost PROVE Untouched
  <2>1. consumer.job \in Jobs
    BY <1>14 DEF StartLost, ReportLost, CreateLost, LeaseShape, InLease
  <2>2. \A c \in late' : c \in late \/ c.job = consumer.job
    BY <1>7, <1>14, <2>1 DEF StartLost, ReportLost, CreateLost
  <2>3. consumer'.job \in {consumer.job, NoJob} /\ UNCHANGED <<console, msg>>
    BY <1>14 DEF StartLost, ReportLost, CreateLost, NextRound, Goto, Stopped, loopOnly
  <2>4. \A k \in Jobs : handler'[k] # "none" => handler[k] # "none"
    BY <1>14 DEF StartLost, ReportLost, CreateLost, loopOnly, HandlerBusy
  <2> QED BY <2>1, <2>2, <2>3, <2>4, NoJobAssumption
<1>15. ASSUME DeleteMessage PROVE Untouched
  BY <1>15, NoJobAssumption DEF DeleteMessage, Queue, NextRound, loopOnly, LeaseShape, InLease
<1>16. ASSUME NEW c \in late, LateEffect(c) PROVE Untouched
  <2>1. \/ UNCHANGED msg
        \/ PutEffect(c.job)
    BY <1>16 DEF LateEffect
  <2>2. \A k \in Jobs : msg'[k].place # "none" => msg[k].place # "none" \/ c.job = k
    BY <2>1 DEF PutEffect
  <2> QED BY <1>16, <2>2 DEF LateEffect
<1>17. ASSUME NEW c \in late, LateNever(c) PROVE Untouched
  BY <1>17 DEF LateNever
<1>18. ASSUME UNCHANGED pipeVars PROVE Untouched
  BY <1>18 DEF pipeVars
<1> HIDE DEF Touched, PipeTypeOK
<1>19. ASSUME Untouched PROVE TouchedBorn'
  BY <1>1, <1>19 DEF TouchedBorn
<1> HIDE DEF Untouched
<1> QED
  BY <1>3, <1>4, <1>5, <1>6, <1>8, <1>9, <1>10, <1>11, <1>12, <1>13, <1>14, <1>15, <1>16, <1>17,
     <1>18, <1>19
  DEF PipelineNext, ConsoleNext, HandlerNext, QueueNext, ConsumerNext, LateNext, Elsewhere, vars,
      RequestAgain, Upload

-----------------------------------------------------------------------------
(* A message is deleted only when its job is settled: the consumer reaches   *)
(* "delete" only with a settled job, and settled jobs stay settled.          *)

DeleteReady == consumer.pc = "delete" => job[consumer.job].status \notin Active

\* Steps outside the consume loop leave the consumer alone.
LEMMA ConsumerKept ==
    ASSUME ConsoleNext \/ HandlerNext \/ QueueNext \/ LateNext \/ Elsewhere \/ UNCHANGED vars
    PROVE  UNCHANGED consumer
BY DEF ConsoleNext, HandlerNext, QueueNext, LateNext, Elsewhere, vars, pipeVars, consoleOnly,
    handlerOnly, queueOnly, Request, RequestAgain, RefuseInFlight, Submit, Answer, FailEnqueue,
    ConsoleLeaves, HandlerGet, HandlerPut, HandlerPutLost, HandlerRecord, HandlerRecordLost,
    VisibilityTimeout, Expire, LateEffect, LateNever, Upload

\* Where the consume loop comes to "delete", the job is settled.
LEMMA DeleteReached ==
    ASSUME Shape, [PipelineNext]_vars, consumer'.pc = "delete"
    PROVE  \/ UNCHANGED consumer
           \/ /\ consumer'.job = consumer.job /\ consumer.job \in Jobs
              /\ job'[consumer.job].status \notin Active
<1> DEFINE Ready == /\ consumer'.job = consumer.job /\ consumer.job \in Jobs
                    /\ job'[consumer.job].status \notin Active
<1>0. PipeTypeOK /\ LeaseShape
  BY DEF Shape
<1> USE <1>0 DEF PipeTypeOK
<1>1. ASSUME NEW pc, Goto(pc) PROVE consumer'.pc = pc /\ consumer'.job = consumer.job
  BY <1>1 DEF Goto
<1>2. ~NextRound
  BY DEF NextRound
<1>3. ASSUME Boot \/ Crash \/ CreateLost PROVE FALSE
  <2>1. consumer'.pc \in {"off", "idle"}
    BY <1>3 DEF Boot, Crash, CreateLost, Stopped
  <2> QED BY <2>1
<1>4. ASSUME CleanUp \/ RunContainer \/ WorkDone \/ ReportLost PROVE FALSE
  BY <1>1, <1>4 DEF CleanUp, RunContainer, WorkDone, ReportLost
<1>5. ASSUME NEW a \in Attempts, StartAttempt(a) PROVE FALSE
  BY <1>5 DEF StartAttempt
<1>6. ASSUME NEW j \in Jobs, Poll(j) PROVE FALSE
  BY <1>6 DEF Poll
<1>7. ASSUME GetJob PROVE Ready
  <2>1. Goto("delete")
    BY <1>7 DEF GetJob
  <2> QED BY <1>1, <1>7, <2>1 DEF GetJob, jobVars, LeaseShape, InLease
<1>8. ASSUME Report PROVE Ready
  <2>1. Goto(IF job'[consumer.job].status \in Active THEN "recheck" ELSE "delete")
    BY <1>8 DEF Report
  <2> QED BY <1>1, <1>8, <2>1 DEF Report, LeaseShape, InLease
<1>9. ASSUME Recheck PROVE Ready
  BY <1>1, <1>2, <1>9 DEF Recheck, jobVars, LeaseShape, InLease
<1> HIDE DEF Ready
<1>10. Ready \/ UNCHANGED consumer
  BY <1>2, <1>3, <1>4, <1>5, <1>6, <1>7, <1>8, <1>9, ConsumerKept
  DEF PipelineNext, ConsumerNext, EmptyPoll, Abandon, PollLost, StartLost, DeleteMessage
<1> QED BY <1>10 DEF Ready

\* Only a consumer at "delete" deletes a message.
LEMMA DeletedBy ==
    ASSUME Shape, [PipelineNext]_vars, NEW k \in Jobs, msg'[k].place = "deleted"
    PROVE  msg[k].place = "deleted" \/ (k = consumer.job /\ consumer.pc = "delete")
<1>0. PipeTypeOK
  BY DEF Shape
<1> USE <1>0 DEF PipeTypeOK, Message, Queues
<1>1. ASSUME NEW j \in Jobs, HandlerPut(j) PROVE msg[k].place = "deleted"
  BY <1>1 DEF HandlerPut, PutEffect
<1>2. ASSUME NEW j \in Jobs, VisibilityTimeout(j) \/ Expire(j) PROVE msg[k].place = "deleted"
  BY <1>2 DEF VisibilityTimeout, Expire
<1>3. ASSUME NEW j \in Jobs, Poll(j) \/ PollLost(j) PROVE msg[k].place = "deleted"
  <2>1. msg' = [msg EXCEPT ![j].hidden = TRUE,
                           ![j].count = IF consumer.dlq THEN @ ELSE @ + 1]
    BY <1>3 DEF Poll, PollLost
  <2> QED BY <2>1
<1>4. ASSUME DeleteMessage PROVE msg[k].place = "deleted" \/ (k = consumer.job /\ consumer.pc = "delete")
  BY <1>4 DEF DeleteMessage
<1>5. ASSUME NEW c \in late, LateEffect(c) PROVE msg[k].place = "deleted"
  <2>1. UNCHANGED msg \/ PutEffect(c.job)
    BY <1>5 DEF LateEffect
  <2> QED BY <2>1 DEF PutEffect
<1>6. CASE UNCHANGED msg
  BY <1>6
<1> HIDE DEF PipeTypeOK
<1> QED
  BY <1>1, <1>2, <1>3, <1>4, <1>5, <1>6
  DEF PipelineNext, ConsoleNext, HandlerNext, QueueNext, ConsumerNext, LateNext, Elsewhere, vars,
      pipeVars, consoleOnly, handlerOnly, loopOnly, Request, RequestAgain, RefuseInFlight, Submit,
      Answer, FailEnqueue, ConsoleLeaves, HandlerGet, HandlerPutLost, HandlerRecord,
      HandlerRecordLost, Boot, Crash, EmptyPoll, CleanUp, Abandon, GetJob, StartAttempt, StartLost,
      RunContainer, CreateLost, WorkDone, Report, ReportLost, Recheck, LateNever, Upload

LEMMA DeletedNext ==
    ASSUME Shape, TouchedBorn, DeleteReady, DeletedOnlyWhenSettled, [PipelineNext]_vars
    PROVE  DeleteReady' /\ DeletedOnlyWhenSettled'
<1>1. \A k \in Jobs : Touched(k) /\ job[k].status \notin Active => job'[k].status \notin Active
  BY StepIsJobStep, JobStepFacts DEF Shape, TouchedBorn
<1>2. consumer.pc = "delete" => consumer.job \in Jobs /\ job'[consumer.job].status \notin Active
  BY <1>1 DEF DeleteReady, Touched, Shape, LeaseShape, InLease
<1>3. DeleteReady'
  BY <1>2, DeleteReached DEF DeleteReady
<1>4. ASSUME NEW k \in Jobs, msg'[k].place = "deleted" PROVE job'[k].status \notin Active
  <2>1. CASE msg[k].place = "deleted"
    BY <1>1, <2>1 DEF DeletedOnlyWhenSettled, Touched
  <2> QED BY <1>2, <1>4, <2>1, DeletedBy
<1> QED BY <1>3, <1>4 DEF DeletedOnlyWhenSettled

\* Nothing touches a job before it is created.
LEMMA TouchedBornHolds == PipelineSpec => []TouchedBorn
<1>1. PipelineInit => TouchedBorn
  BY NoJobAssumption DEF PipelineInit, TouchedBorn, Touched, NoMessage, Stopped
<1>2. Shape /\ TouchedBorn /\ [PipelineNext]_vars => TouchedBorn'
  BY TouchedBornNext
<1> QED BY <1>1, <1>2, ShapeHolds, PTL DEF PipelineSpec

\* An open job never loses its message to a deletion.
THEOREM MessageKept == PipelineSpec => []DeletedOnlyWhenSettled
<1>1. PipelineInit => DeleteReady /\ DeletedOnlyWhenSettled
  BY DEF PipelineInit, DeleteReady, DeletedOnlyWhenSettled, NoMessage, Stopped
<1>2. Shape /\ TouchedBorn /\ DeleteReady /\ DeletedOnlyWhenSettled /\ [PipelineNext]_vars
          => DeleteReady' /\ DeletedOnlyWhenSettled'
  BY DeletedNext
<1> QED BY <1>1, <1>2, ShapeHolds, TouchedBornHolds, PTL DEF PipelineSpec

-----------------------------------------------------------------------------
(* At most one message is put for a job, and the row tells the truth about   *)
(* it.  Where console and handler stand decides what can have been put.      *)

NoPut(j) == msg[j].puts = 0 /\ \A c \in late : ~(c.op = "put" /\ c.job = j)

\* What console[j], handler[j] and the calls they gave up say of the message.
DeliveryStage(j) ==
    /\ handler[j] \in {"none", "get", "put", "NOT_ENQUEUED"} => NoPut(j)
    /\ handler[j] = "record" => msg[j].puts = 1
    /\ msg[j].puts \in {0, 1}
    /\ \A c \in late : (c.job = j /\ c.op = "put") => (msg[j].puts = 0 /\ c.attempt = NoAttempt)
    /\ \A c \in late : (c.job = j /\ c.op = "enqueued") => msg[j].puts = 1
    /\ console[j] \in {"none", "send"} => handler[j] = "none"
    /\ console[j] = "refused" => handler[j] \in {"none", "NOT_ENQUEUED"}

\* What the row says of the message.
RowMarks(j) ==
    /\ job[j].enqueued => msg[j].puts = 1
    /\ job[j].error = "ENQUEUE_FAILED" =>
           console[j] = "done" /\ handler[j] \in {"none", "NOT_ENQUEUED"}

EnqueueStage == \A j \in Jobs : DeliveryStage(j) /\ RowMarks(j)

\* Nothing about the delivery of j changes.
SameDelivery(j) ==
    /\ console'[j] = console[j] /\ handler'[j] = handler[j] /\ msg'[j].puts = msg[j].puts
    /\ \A c \in late' : (c.job = j /\ c.op \in {"put", "enqueued"}) => c \in late

LEMMA SameDeliveryStage ==
    ASSUME NEW j \in Jobs, SameDelivery(j), DeliveryStage(j)
    PROVE  DeliveryStage(j)'
BY DEF SameDelivery, DeliveryStage, NoPut

\* A call that is given up adds at most this call to late.
LEMMA GiveUpAdds ==
    ASSUME NEW op, NEW j, NEW a, GiveUp(op, j, a)
    PROVE  \A c \in late' : c \in late \/ c = [op |-> op, job |-> j, attempt |-> a]
BY DEF GiveUp

\* The steps of the consume loop that end a handler are Crash and CreateLost.
LEMMA DeliveryNext ==
    ASSUME Shape, TouchedBorn, [PipelineNext]_vars, NEW k \in Jobs, DeliveryStage(k)
    PROVE  DeliveryStage(k)'
<1>0. PipeTypeOK /\ LeaseShape
  BY DEF Shape
<1> USE <1>0 DEF PipeTypeOK
<1>1. ASSUME NEW s \in Songs, NEW p \in Accounts, NEW j \in Jobs, Request(s, p, j)
      PROVE  DeliveryStage(k)'
  <2>1. handler[j] = "none"
    BY <1>1 DEF Request, CreateJob, TouchedBorn, Touched
  <2> QED BY <1>1, <2>1 DEF Request, consoleOnly, DeliveryStage, NoPut
<1>2. ASSUME NEW j \in Jobs, RefuseInFlight(j) \/ Answer(j) \/ FailEnqueue(j) \/ ConsoleLeaves(j)
      PROVE  DeliveryStage(k)'
  BY <1>2 DEF RefuseInFlight, Answer, FailEnqueue, ConsoleLeaves, consoleOnly, DeliveryStage, NoPut
<1>3. ASSUME NEW j \in Jobs, Submit(j) PROVE DeliveryStage(k)'
  BY <1>3 DEF Submit, DeliveryStage, NoPut
<1>4. ASSUME NEW j \in Jobs, HandlerGet(j) PROVE DeliveryStage(k)'
  BY <1>4 DEF HandlerGet, handlerOnly, DeliveryStage, NoPut
<1>5. ASSUME NEW j \in Jobs, HandlerPut(j) PROVE DeliveryStage(k)'
  BY <1>5 DEF HandlerPut, PutEffect, handlerOnly, DeliveryStage, NoPut, Message
<1>6. ASSUME NEW j \in Jobs, HandlerPutLost(j) \/ HandlerRecordLost(j)
      PROVE  DeliveryStage(k)'
  <2>1. CASE HandlerPutLost(j)
    <3>1. \A c \in late' : c \in late \/ c = [op |-> "put", job |-> j, attempt |-> NoAttempt]
      BY <2>1, GiveUpAdds DEF HandlerPutLost
    <3> QED BY <2>1, <3>1 DEF HandlerPutLost, handlerOnly, DeliveryStage, NoPut
  <2>2. CASE HandlerRecordLost(j)
    <3>1. \A c \in late' : c \in late \/ c = [op |-> "enqueued", job |-> j, attempt |-> NoAttempt]
      BY <2>2, GiveUpAdds DEF HandlerRecordLost
    <3> QED BY <2>2, <3>1 DEF HandlerRecordLost, handlerOnly, DeliveryStage, NoPut
  <2> QED BY <1>6, <2>1, <2>2
<1>7. ASSUME NEW j \in Jobs, HandlerRecord(j) PROVE DeliveryStage(k)'
  BY <1>7 DEF HandlerRecord, handlerOnly, DeliveryStage, NoPut
<1>8. ASSUME NEW j \in Jobs, VisibilityTimeout(j) \/ Expire(j) PROVE SameDelivery(k)
  BY <1>8 DEF VisibilityTimeout, Expire, queueOnly, SameDelivery, Message
<1>9. ASSUME NEW j \in Jobs, Poll(j) \/ PollLost(j) PROVE SameDelivery(k)
  <2>1. msg' = [msg EXCEPT ![j].hidden = TRUE,
                           ![j].count = IF consumer.dlq THEN @ ELSE @ + 1]
    BY <1>9 DEF Poll, PollLost
  <2>2. msg'[k].puts = msg[k].puts
    BY <2>1 DEF Message
  <2> QED BY <1>9, <2>2 DEF Poll, PollLost, loopOnly, SameDelivery
<1>10. ASSUME DeleteMessage PROVE SameDelivery(k)
  <2>1. msg'[k].puts = msg[k].puts
    BY <1>10 DEF DeleteMessage, Message
  <2> QED BY <1>10, <2>1 DEF DeleteMessage, loopOnly, SameDelivery
<1>11. ASSUME Crash \/ CreateLost PROVE DeliveryStage(k)'
  <2>1. \A c \in late' : c \in late \/ c.op = "create"
    BY <1>11, GiveUpAdds DEF Crash, CreateLost
  <2>2. /\ handler' = [j \in Jobs |-> IF handler[j] \in HandlerBusy THEN "UNCONFIRMED"
                                      ELSE handler[j]]
        /\ UNCHANGED <<console, msg>>
    BY <1>11 DEF Crash, CreateLost
  <2> QED BY <2>1, <2>2 DEF DeliveryStage, NoPut, HandlerBusy
<1>12. ASSUME StartLost \/ ReportLost PROVE SameDelivery(k)
  <2>1. \A c \in late' : c \in late \/ c.op \in {"start", "result", "dlq"}
    BY <1>12, GiveUpAdds DEF StartLost, ReportLost, ReportOp
  <2> QED BY <1>12, <2>1 DEF StartLost, ReportLost, loopOnly, SameDelivery
<1>13. ASSUME NEW c \in late, LateEffect(c) PROVE DeliveryStage(k)'
  <2>1. CASE c.op = "put" /\ PutEffect(c.job)
    <3>1. /\ UNCHANGED <<console, handler>> /\ late' = late \ {c}
          /\ c \in Calls /\ \A d \in late' : d \in Calls
      BY <1>13 DEF LateEffect
    <3>2. CASE k = c.job
      <4>1. c = [op |-> "put", job |-> k, attempt |-> NoAttempt] /\ msg[k].puts = 0
        BY <2>1, <3>1, <3>2 DEF DeliveryStage, Calls
      <4>2. \A d \in late' : ~(d.op = "put" /\ d.job = k)
        BY <3>1, <4>1 DEF DeliveryStage, Calls
      <4>3. msg'[k].puts = 1
        BY <2>1, <3>2, <4>1 DEF PutEffect
      <4>4. handler[k] \in {"UNCONFIRMED", "ENQUEUED", "record"}
        BY <3>2, <2>1, <4>1 DEF DeliveryStage, NoPut, HandlerBusy, Outcomes
      <4> QED BY <3>1, <4>2, <4>3, <4>4 DEF DeliveryStage, NoPut
    <3>3. CASE k # c.job
      <4>1. msg'[k] = msg[k]
        BY <2>1, <3>3 DEF PutEffect
      <4> QED BY <3>1, <4>1, SameDeliveryStage DEF SameDelivery
    <3> QED BY <3>2, <3>3
  <2>2. CASE UNCHANGED msg
    BY <1>13, <2>2, SameDeliveryStage DEF LateEffect, SameDelivery
  <2> QED BY <1>13, <2>1, <2>2 DEF LateEffect
<1>14. ASSUME UNCHANGED <<console, handler, msg>>, late' \subseteq late PROVE SameDelivery(k)
  BY <1>14 DEF SameDelivery
<1> HIDE DEF PipeTypeOK
<1> QED
  BY <1>1, <1>2, <1>3, <1>4, <1>5, <1>6, <1>7, <1>8, <1>9, <1>10, <1>11, <1>12, <1>13, <1>14,
     SameDeliveryStage
  DEF PipelineNext, ConsoleNext, HandlerNext, QueueNext, ConsumerNext, LateNext, Elsewhere, vars,
      pipeVars, loopOnly, RequestAgain, Boot, EmptyPoll, CleanUp, Abandon, GetJob, StartAttempt,
      RunContainer, WorkDone, Report, Recheck, LateNever, Upload

\* The row gets neither mark.
Unmarked(j) == /\ job'[j].enqueued => job[j].enqueued
               /\ job'[j].error = "ENQUEUE_FAILED" => job[j].error = "ENQUEUE_FAILED"

\* Only a recorded delivery and a failed delivery mark a row.
LEMMA ServiceUnmarked ==
    ASSUME JobsTypeOK, NEW k \in Jobs, NEW j \in Jobs,
           \/ \E s \in Songs, p \in Accounts : CreateJob(s, p, j) \/ JoinJob(s, p, j)
           \/ \E e : \E a \in Attempts : StartJob(j, e, a)
           \/ \E e : CompleteFailed(j, e, "DLQ")
           \/ \E e, r : CompleteSucceeded(j, e, r)
           \/ \E s \in Songs, p \in Accounts, r \in Result, replace \in BOOLEAN, a \in Attempts :
                 ImportWaveform(s, p, r, replace, j, a)
           \/ SongNext
           \/ UNCHANGED jobVars
    PROVE  Unmarked(k)
<1> USE DEF JobsTypeOK, Unmarked
<1>1. ASSUME NEW s \in Songs, NEW p \in Accounts, CreateJob(s, p, j) PROVE Unmarked(k)
  BY <1>1 DEF CreateJob, NewRow
<1>2. ASSUME NEW e, NEW a \in Attempts, StartJob(j, e, a) PROVE Unmarked(k)
  BY <1>2 DEF StartJob, JobRow
<1>3. ASSUME NEW status, NEW error \in {"DLQ", "NONE", "SOURCE_CHANGED"}, Finish(j, status, error)
      PROVE  Unmarked(k)
  BY <1>3 DEF Finish, JobRow
<1>4. ASSUME NEW s \in Songs, NEW p \in Accounts, NEW r \in Result, NEW replace \in BOOLEAN,
             NEW a \in Attempts, ImportWaveform(s, p, r, replace, j, a)
      PROVE  Unmarked(k)
  <2> DEFINE row == [(IF job[j].status = "NONE" THEN NewRow(s, r.source) ELSE job[j])
                       EXCEPT !.status = "SUCCEEDED", !.attempt = a, !.error = "NONE"]
  <2>1. job' = [job EXCEPT ![j] = row]
    BY <1>4 DEF ImportWaveform
  <2>2. row.error = "NONE" /\ (row.enqueued => job[j].enqueued)
    BY DEF NewRow, JobRow
  <2> HIDE DEF row
  <2> QED BY <2>1, <2>2
<1>5. ASSUME NEW s \in Songs, DeleteSong(s) PROVE Unmarked(k)
  BY <1>5 DEF DeleteSong, JobRow
<1>6. ASSUME UNCHANGED job PROVE Unmarked(k)
  BY <1>6
<1> HIDE DEF JobsTypeOK, Unmarked
<1> QED BY <1>1, <1>2, <1>3, <1>4, <1>5, <1>6
        DEF JoinJob, CompleteFailed, CompleteSucceeded, SongNext, EditVideo, jobVars

\* The number of messages put for a job only grows.
LEMMA PutsGrow ==
    ASSUME Shape, [PipelineNext]_vars, NEW k \in Jobs, DeliveryStage(k), DeliveryStage(k)',
           msg[k].puts = 1
    PROVE  msg'[k].puts = 1
<1>0. msg \in [Jobs -> Message] /\ consumer.job \in Jobs \cup {NoJob}
  BY DEF Shape, PipeTypeOK
<1> USE <1>0 DEF Message
<1>1. ASSUME NEW j \in Jobs, PutEffect(j) PROVE msg'[k].puts = 1
  <2>1. msg'[k].puts # 0
    BY <1>1 DEF PutEffect
  <2> QED BY <2>1 DEF DeliveryStage
<1>2. ASSUME NEW j \in Jobs, VisibilityTimeout(j) \/ Expire(j) PROVE msg'[k].puts = 1
  BY <1>2 DEF VisibilityTimeout, Expire
<1>3. ASSUME NEW j \in Jobs, Poll(j) \/ PollLost(j) PROVE msg'[k].puts = 1
  <2>1. msg' = [msg EXCEPT ![j].hidden = TRUE,
                           ![j].count = IF consumer.dlq THEN @ ELSE @ + 1]
    BY <1>3 DEF Poll, PollLost
  <2> QED BY <2>1
<1>4. ASSUME DeleteMessage PROVE msg'[k].puts = 1
  BY <1>4 DEF DeleteMessage
<1>5. ASSUME NEW c \in late, LateEffect(c) PROVE msg'[k].puts = 1
  <2>1. c.job \in Jobs
    BY DEF Shape, PipeTypeOK, Calls
  <2> QED BY <1>1, <1>5, <2>1 DEF LateEffect
<1>6. CASE UNCHANGED msg
  BY <1>6
<1> HIDE <1>0
<1> QED
  BY <1>1, <1>2, <1>3, <1>4, <1>5, <1>6
  DEF PipelineNext, ConsoleNext, HandlerNext, QueueNext, ConsumerNext, LateNext, Elsewhere, vars,
      pipeVars, consoleOnly, handlerOnly, loopOnly, Request, RequestAgain, RefuseInFlight, Submit,
      Answer, FailEnqueue, ConsoleLeaves, HandlerGet, HandlerPut, HandlerPutLost, HandlerRecord,
      HandlerRecordLost, Boot, Crash, EmptyPoll, CleanUp, Abandon, GetJob, StartAttempt, StartLost,
      RunContainer, CreateLost, WorkDone, Report, ReportLost, Recheck, LateNever, Upload

\* A row that is marked as never enqueued belongs to a request that is over.
OverStays(j) == (console[j] = "done" /\ handler[j] \in {"none", "NOT_ENQUEUED"}) =>
                    (console'[j] = "done" /\ handler'[j] \in {"none", "NOT_ENQUEUED"})

LEMMA RowMarksNext ==
    ASSUME Shape, TouchedBorn, [PipelineNext]_vars, NEW k \in Jobs,
           DeliveryStage(k), DeliveryStage(k)', RowMarks(k)
    PROVE  RowMarks(k)'
<1>0. JobsTypeOK /\ PipeTypeOK /\ LeaseShape
  BY DEF Shape
<1>1. ASSUME Unmarked(k), OverStays(k) PROVE RowMarks(k)'
  BY <1>1, PutsGrow DEF Unmarked, OverStays, RowMarks
<1>2. ASSUME NEW s \in Songs, NEW p \in Accounts, NEW j \in Jobs, Request(s, p, j)
      PROVE  RowMarks(k)'
  <2>1. Unmarked(k)
    BY <1>0, <1>2, ServiceUnmarked DEF Request
  <2>2. console[j] = "none"
    BY <1>2 DEF Request, CreateJob, TouchedBorn, Touched
  <2>3. OverStays(k)
    BY <1>0, <1>2, <2>2 DEF Request, consoleOnly, OverStays, PipeTypeOK
  <2> QED BY <1>1, <2>1, <2>3
<1>3. ASSUME NEW j \in Jobs,
             \/ RefuseInFlight(j) \/ Submit(j) \/ Answer(j) \/ ConsoleLeaves(j)
             \/ HandlerGet(j) \/ HandlerPut(j) \/ HandlerPutLost(j) \/ HandlerRecordLost(j)
      PROVE  RowMarks(k)'
  <2>1. Unmarked(k)
    BY <1>3 DEF RefuseInFlight, Submit, Answer, ConsoleLeaves, HandlerGet, HandlerPut,
       HandlerPutLost, HandlerRecordLost, jobVars, Unmarked
  <2>2. OverStays(k)
    BY <1>0, <1>3 DEF RefuseInFlight, Submit, Answer, ConsoleLeaves, HandlerGet, HandlerPut,
       HandlerPutLost, HandlerRecordLost, consoleOnly, handlerOnly, OverStays, PipeTypeOK
  <2> QED BY <1>1, <2>1, <2>2
<1>4. ASSUME NEW j \in Jobs, FailEnqueue(j) PROVE RowMarks(k)'
  <2>1. job' = [job EXCEPT ![j] = [job[j] EXCEPT !.status = "FAILED", !.error = "ENQUEUE_FAILED"]]
    BY <1>4 DEF FailEnqueue, CompleteFailed, Finish
  <2>2. /\ console[j] = "refused" /\ console' = [console EXCEPT ![j] = "done"]
        /\ UNCHANGED <<handler, msg>>
    BY <1>4 DEF FailEnqueue, consoleOnly
  <2>3. CASE k = j
    BY <1>0, <2>1, <2>2, <2>3 DEF RowMarks, DeliveryStage, JobsTypeOK, JobRow, PipeTypeOK
  <2>4. CASE k # j
    BY <1>0, <2>1, <2>2, <2>4 DEF RowMarks, JobsTypeOK, PipeTypeOK
  <2> QED BY <2>3, <2>4
<1>5. ASSUME NEW j \in Jobs, RecordEnqueued(j), k = j => msg[k].puts = 1, OverStays(k)
      PROVE  RowMarks(k)'
  BY <1>0, <1>5, PutsGrow DEF RecordEnqueued, RowMarks, OverStays, JobsTypeOK, JobRow
<1>6. ASSUME NEW j \in Jobs, HandlerRecord(j) PROVE RowMarks(k)'
  <2>1. OverStays(k) /\ (k = j => msg[k].puts = 1)
    BY <1>0, <1>6 DEF HandlerRecord, handlerOnly, OverStays, DeliveryStage, PipeTypeOK
  <2> QED BY <1>5, <1>6, <2>1 DEF HandlerRecord
<1>7. ASSUME NEW op \in {"result", "dlq"}, NEW j \in Jobs, NEW a, Complete(op, j, a)
      PROVE  Unmarked(k)
  BY <1>0, <1>7, ServiceUnmarked DEF Complete
<1>8. ASSUME NEW c \in late, LateEffect(c) PROVE RowMarks(k)'
  <2>1. c.job \in Jobs
    BY <1>0 DEF PipeTypeOK, Calls
  <2>2. OverStays(k)
    BY <1>8 DEF LateEffect, OverStays
  <2>3. CASE c.op = "enqueued" /\ RecordEnqueued(c.job)
    BY <1>5, <2>1, <2>2, <2>3 DEF DeliveryStage
  <2>4. CASE \E a \in Attempts : StartJob(c.job, c.attempt, a)
    BY <1>0, <1>1, <2>1, <2>2, <2>4, ServiceUnmarked
  <2>5. CASE c.op \in {"result", "dlq"} /\ Complete(c.op, c.job, c.attempt)
    BY <1>1, <1>7, <2>1, <2>2, <2>5
  <2>6. CASE UNCHANGED jobVars
    BY <1>1, <2>2, <2>6 DEF jobVars, Unmarked
  <2> QED BY <1>8, <2>3, <2>4, <2>5, <2>6 DEF LateEffect
<1>9. ASSUME NEW a \in Attempts, StartAttempt(a) PROVE RowMarks(k)'
  <2>1. consumer.job \in Jobs
    BY <1>0, <1>9 DEF StartAttempt, LeaseShape, InLease
  <2>2. Unmarked(k)
    BY <1>0, <1>9, <2>1, ServiceUnmarked DEF StartAttempt
  <2> QED BY <1>1, <1>9, <2>2 DEF StartAttempt, loopOnly, OverStays
<1>10. ASSUME Report PROVE RowMarks(k)'
  <2>1. consumer.job \in Jobs /\ ReportOp \in {"result", "dlq"}
    BY <1>0, <1>10 DEF Report, ReportOp, LeaseShape, InLease
  <2>2. Unmarked(k)
    BY <1>7, <1>10, <2>1 DEF Report
  <2> QED BY <1>1, <1>10, <2>2 DEF Report, loopOnly, OverStays
<1>11. ASSUME Elsewhere PROVE RowMarks(k)'
  <2>1. ASSUME NEW s \in Songs, NEW p \in Accounts, NEW j \in Jobs, Upload(s, p, j)
        PROVE  Unmarked(k)
    <3>1. PICK a \in Attempts, r \in [source : Videos, content : Contents \ Attempts],
               replace \in BOOLEAN : ImportWaveform(s, p, r, replace, j, a)
      BY <2>1 DEF Upload
    <3>2. r \in Result
      BY DEF Result
    <3> QED BY <1>0, <3>1, <3>2, ServiceUnmarked
  <2>2. ASSUME SongNext PROVE Unmarked(k)
    BY <1>0, <2>2, ServiceUnmarked
  <2>3. UNCHANGED pipeVars
    BY <1>11 DEF Elsewhere, Upload
  <2> QED BY <1>1, <1>11, <2>1, <2>2, <2>3 DEF Elsewhere, pipeVars, OverStays
<1>12. ASSUME UNCHANGED job, OverStays(k) PROVE RowMarks(k)'
  BY <1>1, <1>12 DEF Unmarked
<1>13. ASSUME Crash \/ CreateLost PROVE OverStays(k) /\ UNCHANGED job
  BY <1>0, <1>13 DEF Crash, CreateLost, jobVars, OverStays, HandlerBusy, PipeTypeOK
<1>14. ASSUME UNCHANGED <<console, handler>> PROVE OverStays(k)
  BY <1>14 DEF OverStays
<1> QED
  BY <1>2, <1>3, <1>4, <1>6, <1>8, <1>9, <1>10, <1>11, <1>12, <1>13, <1>14
  DEF PipelineNext, ConsoleNext, HandlerNext, QueueNext, ConsumerNext, LateNext, vars, jobVars,
      pipeVars, queueOnly, loopOnly, RequestAgain, JoinJob, VisibilityTimeout, Expire, Boot,
      EmptyPoll, CleanUp, Abandon, GetJob, Poll, PollLost, StartLost, RunContainer, WorkDone,
      ReportLost, Recheck, DeleteMessage, LateNever

LEMMA EnqueueStageHolds == PipelineSpec => []EnqueueStage
<1>1. PipelineInit => EnqueueStage
  <2> SUFFICES ASSUME PipelineInit, NEW j \in Jobs PROVE DeliveryStage(j) /\ RowMarks(j)
    BY DEF EnqueueStage
  <2>1. job[j].enqueued = FALSE /\ job[j].error = "NONE"
    BY DEF PipelineInit, JobsInit, NoRow, NewRow
  <2> QED BY <2>1 DEF PipelineInit, DeliveryStage, NoPut, RowMarks, NoMessage
<1>2. Shape /\ TouchedBorn /\ EnqueueStage /\ [PipelineNext]_vars => EnqueueStage'
  BY DeliveryNext, RowMarksNext DEF EnqueueStage
<1> QED BY <1>1, <1>2, ShapeHolds, TouchedBornHolds, PTL DEF PipelineSpec

\* Repeated requests, lost answers and restarts never enqueue a job twice.
THEOREM NoSecondMessage == PipelineSpec => []OneMessage
<1>1. EnqueueStage => OneMessage
  BY DEF EnqueueStage, DeliveryStage, OneMessage
<1> QED BY <1>1, EnqueueStageHolds, PTL

\* A job that failed as never enqueued has no message and gets none; one that
\* is marked as enqueued has had its message.
THEOREM RowTellsTruth == PipelineSpec => []EnqueueTruth
<1>1. EnqueueStage => EnqueueTruth
  BY DEF EnqueueStage, DeliveryStage, NoPut, RowMarks, EnqueueTruth
<1> QED BY <1>1, EnqueueStageHolds, PTL

-----------------------------------------------------------------------------
(* The attempt at work is the current one.  An attempt that starts is new,   *)
(* so no call given up earlier expects it, and only a call that expects the  *)
(* job's current attempt replaces it.                                        *)

IssuedOnly ==
    /\ \A j \in Jobs : job[j].attempt \in issued \cup {NoAttempt}
    /\ consumer.attempt \in issued \cup {NoAttempt}
    /\ \A c \in late : c.attempt \in issued \cup {NoAttempt}

\* The job of a delivery at work runs the attempt at work, unless it ended.
CurrentRow(j, a) == job[j].status \in Active => (job[j].status = "RUNNING" /\ job[j].attempt = a)

Fenced ==
    consumer.pc \in {"run", "work"} =>
        /\ CurrentRow(consumer.job, consumer.attempt)
        /\ \A c \in late : ~(/\ c.op = "start" /\ c.job = consumer.job
                             /\ c.attempt = consumer.attempt)

LEMMA IssuedNext ==
    ASSUME Shape, IssuedOnly, [PipelineNext]_vars
    PROVE  IssuedOnly'
<1>0. PipeTypeOK /\ LeaseShape
  BY DEF Shape
<1>1. /\ issued \subseteq issued'
      /\ \A j \in Jobs : job'[j].attempt \in {job[j].attempt, NoAttempt} \cup issued'
  BY StepIsJobStep, JobStepFacts DEF Shape
<1>2. \A j \in Jobs : job'[j].attempt \in issued' \cup {NoAttempt}
  BY <1>1 DEF IssuedOnly
<1>3. consumer'.attempt \in issued' \cup {NoAttempt}
  <2> USE <1>0 DEF PipeTypeOK
  <2>1. ASSUME NEW pc, Goto(pc) PROVE consumer'.attempt = consumer.attempt
    BY <2>1 DEF Goto
  <2>2. ASSUME NextRound PROVE consumer'.attempt = NoAttempt
    BY <2>2 DEF NextRound
  <2>3. ASSUME Boot \/ Crash \/ CreateLost PROVE consumer'.attempt = NoAttempt
    <3>1. CASE Boot
      BY <3>1 DEF Boot, Stopped
    <3>2. CASE Crash \/ CreateLost
      BY <3>2 DEF Crash, CreateLost, Stopped
    <3> QED BY <2>3, <3>1, <3>2
  <2>4. ASSUME NEW j \in Jobs, Poll(j) PROVE consumer'.attempt = consumer.attempt
    BY <2>4 DEF Poll
  <2>5. ASSUME GetJob PROVE consumer'.attempt \in {consumer.attempt, job[consumer.job].attempt}
    BY <2>5 DEF GetJob, Goto
  <2>6. ASSUME NEW a \in Attempts, StartAttempt(a) PROVE consumer'.attempt \in issued'
    BY <2>6 DEF StartAttempt, StartJob
  <2>7. GetJob => consumer.job \in Jobs
    BY DEF GetJob, LeaseShape, InLease
  <2> HIDE DEF PipeTypeOK
  <2>8. consumer'.attempt \in {consumer.attempt, NoAttempt} \cup issued' \cup
                                {job[j].attempt : j \in Jobs}
    BY <2>1, <2>2, <2>3, <2>4, <2>5, <2>6, <2>7, ConsumerKept
    DEF PipelineNext, ConsumerNext, EmptyPoll, CleanUp, Abandon, PollLost, StartLost, RunContainer,
        WorkDone, Report, ReportLost, Recheck, DeleteMessage
  <2> QED BY <1>1, <2>8 DEF IssuedOnly
<1>4. ASSUME NEW c \in late' PROVE c.attempt \in issued' \cup {NoAttempt}
  <2>1. ASSUME NEW op, NEW j, NEW a \in issued \cup {NoAttempt}, GiveUp(op, j, a)
        PROVE  c \in late \/ c.attempt \in issued \cup {NoAttempt}
    BY <2>1, GiveUpAdds
  <2>2. c \in late \/ c.attempt \in issued \cup {NoAttempt}
    BY <2>1
    DEF IssuedOnly, PipelineNext, ConsoleNext, HandlerNext, QueueNext, ConsumerNext, LateNext,
      Elsewhere, vars, pipeVars, consoleOnly, handlerOnly, queueOnly, loopOnly, Request,
      RequestAgain, RefuseInFlight, Submit, Answer, FailEnqueue, ConsoleLeaves, HandlerGet,
      HandlerPut, HandlerPutLost, HandlerRecord, HandlerRecordLost, VisibilityTimeout, Expire,
      Boot, Crash, EmptyPoll, CleanUp, Abandon, GetJob, Poll, PollLost, StartAttempt, StartLost,
      RunContainer, CreateLost, WorkDone, Report, ReportLost, Recheck, DeleteMessage, LateEffect,
      LateNever, Upload
  <2> QED BY <1>1, <2>2 DEF IssuedOnly
<1> QED BY <1>2, <1>3, <1>4 DEF IssuedOnly

\* Without a start of that attempt's successor, the row stays with the attempt.
LEMMA CurrentRowStays ==
    ASSUME Shape, TouchedBorn, [PipelineNext]_vars, NEW k \in Jobs, NEW a, CurrentRow(k, a),
           Touched(k), ~\E b \in Attempts : StartAttempt(b),
           \A c \in late : ~(c.op = "start" /\ c.job = k /\ c.attempt = a)
    PROVE  CurrentRow(k, a)'
<1>0. JobsTypeOK /\ PipeTypeOK /\ LeaseShape
  BY DEF Shape
<1> USE DEF CurrentRow
<1>1. ASSUME NEW s \in Songs, NEW p \in Accounts, NEW j \in Jobs,
             CreateJob(s, p, j) \/ JoinJob(s, p, j)
      PROVE  CurrentRow(k, a)'
  BY <1>0, <1>1 DEF CreateJob, JoinJob, TouchedBorn, JobsTypeOK
<1>2. ASSUME NEW j \in Jobs, RecordEnqueued(j) PROVE CurrentRow(k, a)'
  BY <1>0, <1>2 DEF RecordEnqueued, JobsTypeOK, JobRow
<1>3. ASSUME NEW j \in Jobs, NEW status \in Terminal, NEW error, Finish(j, status, error)
      PROVE  CurrentRow(k, a)'
  BY <1>0, <1>3 DEF Finish, JobsTypeOK, JobRow, Active, Terminal
<1>4. ASSUME NEW s \in Songs, NEW p \in Accounts, NEW j \in Jobs, NEW b \in Attempts,
             NEW r, NEW replace \in BOOLEAN, ImportWaveform(s, p, r, replace, j, b)
      PROVE  CurrentRow(k, a)'
  <2> DEFINE base == IF job[j].status = "NONE" THEN NewRow(s, r.source) ELSE job[j]
             row  == [base EXCEPT !.status = "SUCCEEDED", !.attempt = b, !.error = "NONE"]
  <2>1. job' = [job EXCEPT ![j] = row]
    BY <1>4 DEF ImportWaveform
  <2>2. row.status \notin Active
    BY <1>0 DEF NewRow, JobsTypeOK, JobRow, Active
  <2> HIDE DEF row
  <2> QED BY <1>0, <2>1, <2>2 DEF JobsTypeOK
<1>5. ASSUME NEW s \in Songs, DeleteSong(s) PROVE CurrentRow(k, a)'
  BY <1>0, <1>5 DEF DeleteSong, JobsTypeOK, JobRow, Active
<1>6. ASSUME UNCHANGED job PROVE CurrentRow(k, a)'
  BY <1>6
<1>7. ASSUME NEW op, NEW j \in Jobs, NEW e, Complete(op, j, e) PROVE CurrentRow(k, a)'
  <2>1. UNCHANGED job \/ \E status \in Terminal, error \in Errors \cup {"NONE"} : Finish(j, status, error)
    BY <1>7 DEF Complete, CompleteFailed, CompleteSucceeded, jobVars, Terminal, Errors
  <2> QED BY <1>3, <1>6, <2>1
<1>8. ASSUME NEW c \in late, LateEffect(c) PROVE CurrentRow(k, a)'
  <2>1. c.job \in Jobs
    BY <1>0 DEF PipeTypeOK, Calls
  <2>2. ASSUME c.op = "start", NEW b \in Attempts, StartJob(c.job, c.attempt, b)
        PROVE  CurrentRow(k, a)'
    <3>1. CASE c.job = k
      BY <2>2, <3>1 DEF StartJob, StartAccepted
    <3>2. CASE c.job # k
      BY <1>0, <2>2, <3>2 DEF StartJob, JobsTypeOK
    <3> QED BY <3>1, <3>2
  <2> QED BY <1>2, <1>6, <1>7, <1>8, <2>1, <2>2 DEF LateEffect, jobVars
<1>9. ASSUME NEW j \in Jobs, FailEnqueue(j) PROVE CurrentRow(k, a)'
  BY <1>3, <1>9 DEF FailEnqueue, CompleteFailed, Terminal
<1>10. ASSUME Report PROVE CurrentRow(k, a)'
  BY <1>0, <1>7, <1>10 DEF Report, LeaseShape, InLease
<1> HIDE DEF CurrentRow
<1> QED
  BY <1>1, <1>2, <1>4, <1>5, <1>6, <1>8, <1>9, <1>10, ZenonT(60)
  DEF PipelineNext, ConsoleNext, HandlerNext, QueueNext, ConsumerNext, LateNext, Elsewhere, vars,
      jobVars, Request, RequestAgain, RefuseInFlight, Submit, Answer, ConsoleLeaves, HandlerGet,
      HandlerPut, HandlerPutLost, HandlerRecord, HandlerRecordLost, VisibilityTimeout, Expire,
      Boot, Crash, EmptyPoll, CleanUp, Abandon, GetJob, Poll, PollLost, StartLost, RunContainer,
      CreateLost, WorkDone, ReportLost, Recheck, DeleteMessage, LateNever, Upload, SongNext,
      EditVideo

\* Only a new attempt, or the container of one, is at work.
LEMMA WorkReached ==
    ASSUME Shape, [PipelineNext]_vars, consumer'.pc \in {"run", "work"}
    PROVE  \/ UNCHANGED consumer
           \/ \E a \in Attempts : StartAttempt(a)
           \/ RunContainer
<1>0. PipeTypeOK
  BY DEF Shape
<1> USE <1>0 DEF PipeTypeOK
<1>1. ASSUME NEW pc, Goto(pc) PROVE consumer'.pc = pc
  BY <1>1 DEF Goto
<1>2. ~NextRound
  BY DEF NextRound
<1>3. ASSUME Boot \/ Crash \/ CreateLost PROVE FALSE
  <2>1. consumer'.pc \in {"off", "idle"}
    BY <1>3 DEF Boot, Crash, CreateLost, Stopped
  <2> QED BY <2>1
<1>4. ASSUME CleanUp \/ WorkDone \/ ReportLost \/ Recheck PROVE FALSE
  BY <1>1, <1>2, <1>4 DEF CleanUp, WorkDone, ReportLost, Recheck
<1>5. ASSUME NEW j \in Jobs, Poll(j) PROVE FALSE
  BY <1>5 DEF Poll
<1>6. ASSUME GetJob PROVE FALSE
  <2>1. CASE Goto("delete")
    BY <1>1, <2>1
  <2>2. CASE consumer' = [consumer EXCEPT !.pc = IF consumer.dlq THEN "report" ELSE "start",
                                          !.attempt = job[consumer.job].attempt]
    BY <2>2
  <2> QED BY <1>6, <2>1, <2>2 DEF GetJob
<1>7. ASSUME Report PROVE FALSE
  BY <1>1, <1>7 DEF Report
<1> HIDE DEF PipeTypeOK
<1> QED
  BY <1>2, <1>3, <1>4, <1>5, <1>6, <1>7, ConsumerKept
  DEF PipelineNext, ConsumerNext, EmptyPoll, Abandon, PollLost, StartLost, DeleteMessage

LEMMA FencedNext ==
    ASSUME Shape, TouchedBorn, IssuedOnly, Fenced, [PipelineNext]_vars
    PROVE  Fenced'
<1> SUFFICES ASSUME consumer'.pc \in {"run", "work"}
             PROVE  /\ CurrentRow(consumer.job, consumer.attempt)'
                    /\ \A c \in late' : ~(/\ c.op = "start" /\ c.job = consumer'.job
                                          /\ c.attempt = consumer'.attempt)
  BY DEF Fenced
<1>0. JobsTypeOK /\ PipeTypeOK /\ LeaseShape
  BY DEF Shape
<1>1. CASE \E a \in Attempts : StartAttempt(a)
  <2>1. PICK a \in Attempts : StartAttempt(a)
    BY <1>1
  <2>2. /\ StartJob(consumer.job, consumer.attempt, a) /\ late' = late
        /\ consumer.job \in Jobs
        /\ consumer'.job = consumer.job /\ consumer'.attempt = a
    BY <1>0, <2>1 DEF StartAttempt, LeaseShape, InLease, PipeTypeOK
  <2>3. a \notin issued \cup {NoAttempt}
    BY <2>2, NullsAssumption DEF StartJob
  <2>4. job'[consumer.job].status = "RUNNING" /\ job'[consumer.job].attempt = a
    BY <1>0, <2>2 DEF StartJob, JobsTypeOK, JobRow
  <2> QED BY <2>2, <2>3, <2>4 DEF IssuedOnly, CurrentRow
<1>2. CASE /\ consumer.pc \in {"run", "work"}
           /\ consumer'.job = consumer.job /\ consumer'.attempt = consumer.attempt
           /\ ~\E a \in Attempts : StartAttempt(a)
  <2>1. consumer.job \in Jobs /\ Touched(consumer.job)
    BY <1>0, <1>2 DEF LeaseShape, InLease, Touched
  <2>2. CurrentRow(consumer.job, consumer.attempt)'
    <3> DEFINE k == consumer.job
               a == consumer.attempt
    <3>1. CurrentRow(k, a) /\ \A c \in late : ~(c.op = "start" /\ c.job = k /\ c.attempt = a)
      BY <1>2 DEF Fenced
    <3>2. job'[k].status \in Active => (job'[k].status = "RUNNING" /\ job'[k].attempt = a)
      BY <1>2, <2>1, <3>1, CurrentRowStays DEF CurrentRow
    <3> QED BY <1>2, <3>2 DEF CurrentRow
  <2>3. ASSUME NEW c \in late', c.op = "start" PROVE c \in late
    <3>1. ASSUME NEW op \in {"put", "enqueued", "create", "result", "dlq"}, NEW j, NEW b,
                 GiveUp(op, j, b)
          PROVE  c \in late
      BY <2>3, <3>1, GiveUpAdds
    <3>2. ~StartLost
      BY <1>2 DEF StartLost
    <3>3. ReportOp \in {"result", "dlq"}
      BY DEF ReportOp
    <3> QED BY <3>1, <3>2, <3>3
    DEF PipelineNext, ConsoleNext, HandlerNext, QueueNext, ConsumerNext, LateNext,
      Elsewhere, vars, pipeVars, consoleOnly, handlerOnly, queueOnly, loopOnly, Request,
      RequestAgain, RefuseInFlight, Submit, Answer, FailEnqueue, ConsoleLeaves, HandlerGet,
      HandlerPut, HandlerPutLost, HandlerRecord, HandlerRecordLost, VisibilityTimeout, Expire,
      Boot, Crash, EmptyPoll, CleanUp, Abandon, GetJob, Poll, PollLost, StartAttempt,
      RunContainer, CreateLost, WorkDone, Report, ReportLost, Recheck, DeleteMessage, LateEffect,
      LateNever, Upload
  <2> QED BY <1>2, <2>2, <2>3 DEF Fenced
<1>3. CASE RunContainer
  <2>1. /\ consumer.pc = "run"
        /\ consumer'.job = consumer.job /\ consumer'.attempt = consumer.attempt
        /\ ~\E a \in Attempts : StartAttempt(a)
    BY <1>0, <1>3 DEF RunContainer, Goto, StartAttempt, PipeTypeOK
  <2> QED BY <1>2, <2>1
<1> QED BY <1>1, <1>2, <1>3, WorkReached

\* While its container works, an attempt is not replaced by another.
THEOREM WorkCurrent == PipelineSpec => []WorkIsCurrent
<1>1. PipelineInit => IssuedOnly /\ Fenced
  <2> SUFFICES ASSUME PipelineInit PROVE IssuedOnly /\ Fenced
    OBVIOUS
  <2>1. NoRow.attempt = NoAttempt
    BY DEF NoRow, NewRow
  <2> QED BY <2>1 DEF PipelineInit, JobsInit, IssuedOnly, Fenced, Stopped
<1>2. Shape /\ IssuedOnly /\ [PipelineNext]_vars => IssuedOnly'
  BY IssuedNext
<1>3. Shape /\ TouchedBorn /\ IssuedOnly /\ Fenced /\ [PipelineNext]_vars => Fenced'
  BY FencedNext
<1>4. Fenced => WorkIsCurrent
  BY DEF Fenced, CurrentRow, WorkIsCurrent
<1> QED BY <1>1, <1>2, <1>3, <1>4, ShapeHolds, TouchedBornHolds, PTL DEF PipelineSpec

-----------------------------------------------------------------------------

\* A waveform that appears is the result of an attempt that then succeeds, or
\* an upload.
LEMMA WaveformWritten ==
    ASSUME Shape, [PipelineNext]_vars, NEW s \in Songs,
           waveform'[s] # waveform[s], waveform'[s] # NoWaveform,
           waveform'[s].data.content \in Attempts
    PROVE  \E j \in Jobs : /\ job'[j].song = s /\ job'[j].status = "SUCCEEDED"
                           /\ job'[j].attempt = waveform'[s].data.content
<1> DEFINE Goal == \E j \in Jobs : /\ job'[j].song = s /\ job'[j].status = "SUCCEEDED"
                                   /\ job'[j].attempt = waveform'[s].data.content
<1> SUFFICES Goal
  OBVIOUS
<1>0. JobsTypeOK /\ PipeTypeOK /\ LeaseShape
  BY DEF Shape
<1>1. ASSUME NEW op, NEW j \in Jobs, NEW a, Complete(op, j, a) PROVE Goal
  <2>1. CompleteSucceeded(j, a, WorkerResult(j, a))
    BY <1>1 DEF Complete, CompleteFailed, jobVars
  <2>2. /\ StoreWaveform(job[j].song, job[j].video, WorkerResult(j, a))
        /\ job' = [job EXCEPT ![j].status = "SUCCEEDED", ![j].error = "NONE"]
        /\ job[j].attempt = a
    BY <2>1 DEF CompleteSucceeded, CompleteAccepted, Finish
  <2>3. job[j].song = s /\ waveform'[s].data.content = a
    BY <1>0, <2>2 DEF StoreWaveform, WorkerResult, JobsTypeOK
  <2>4. job'[j].song = s /\ job'[j].status = "SUCCEEDED" /\ job'[j].attempt = a
    BY <1>0, <2>2, <2>3 DEF JobsTypeOK, JobRow
  <2> QED BY <2>3, <2>4
<1>2. ASSUME NEW t \in Songs, NEW p \in Accounts, NEW j \in Jobs, Upload(t, p, j) PROVE FALSE
  <2>1. PICK a \in Attempts, r \in [source : Videos, content : Contents \ Attempts],
             replace \in BOOLEAN : ImportWaveform(t, p, r, replace, j, a)
    BY <1>2 DEF Upload
  <2>2. waveform' = [waveform EXCEPT ![t] = [video |-> r.source, data |-> r]]
    BY <2>1 DEF ImportWaveform, StoreWaveform
  <2>3. waveform'[s].data = r
    BY <1>0, <2>2 DEF JobsTypeOK
  <2> QED BY <2>3
<1>3. ASSUME NEW t \in Songs, DeleteSong(t) PROVE FALSE
  BY <1>0, <1>3 DEF DeleteSong, JobsTypeOK
<1>4. ASSUME Report PROVE Goal
  BY <1>0, <1>1, <1>4 DEF Report, LeaseShape, InLease
<1>5. ASSUME NEW c \in late, LateEffect(c) PROVE Goal
  <2>1. c.job \in Jobs
    BY <1>0 DEF PipeTypeOK, Calls
  <2> QED BY <1>1, <1>5, <2>1 DEF LateEffect, RecordEnqueued, StartJob, jobVars
<1>6. ~UNCHANGED waveform
  OBVIOUS
<1> HIDE DEF Goal
<1> QED
  BY <1>2, <1>3, <1>4, <1>5, <1>6
  DEF PipelineNext, ConsoleNext, HandlerNext, QueueNext, ConsumerNext, LateNext, Elsewhere, vars,
      jobVars, Request, RequestAgain, CreateJob, JoinJob, RefuseInFlight, Submit, Answer,
      FailEnqueue, CompleteFailed, ConsoleLeaves, HandlerGet, HandlerPut, HandlerPutLost,
      HandlerRecord, RecordEnqueued, HandlerRecordLost, VisibilityTimeout, Expire, Boot, Crash,
      EmptyPoll, CleanUp, Abandon, GetJob, Poll, PollLost, StartAttempt, StartJob, StartLost,
      RunContainer, CreateLost, WorkDone, ReportLost, Recheck, DeleteMessage, LateNever, SongNext,
      EditVideo

LEMMA ResultOfAttemptNext ==
    ASSUME Shape, ResultOfAttempt, [PipelineNext]_vars
    PROVE  ResultOfAttempt'
<1> SUFFICES ASSUME NEW s \in Songs, waveform'[s] # NoWaveform,
                    waveform'[s].data.content \in Attempts
             PROVE  \E j \in Jobs : /\ job'[j].song = s /\ job'[j].status = "SUCCEEDED"
                                    /\ job'[j].attempt = waveform'[s].data.content
  BY DEF ResultOfAttempt
<1>0. JobsTypeOK /\ [JobsNext]_jobVars
  BY StepIsJobStep DEF Shape
<1>1. CASE waveform'[s] = waveform[s]
  <2>1. PICK j \in Jobs : /\ job[j].song = s /\ job[j].status = "SUCCEEDED"
                          /\ job[j].attempt = waveform[s].data.content
    BY <1>1 DEF ResultOfAttempt
  <2>2. ~DeleteSong(s)
    BY <1>0 DEF DeleteSong, JobsTypeOK
  <2>3. CASE JobsNext
    BY <1>0, <1>1, <2>1, <2>2, <2>3, SuccessStays DEF Terminal
  <2>4. CASE UNCHANGED jobVars
    BY <1>1, <2>1, <2>4 DEF jobVars
  <2> QED BY <1>0, <2>3, <2>4
<1>2. CASE waveform'[s] # waveform[s]
  BY <1>2, WaveformWritten
<1> QED BY <1>1, <1>2

\* The result of a replaced attempt is never stored.
THEOREM ResultsCurrent == PipelineSpec => []ResultOfAttempt
<1>1. PipelineInit => ResultOfAttempt
  BY DEF PipelineInit, JobsInit, ResultOfAttempt
<1>2. Shape /\ ResultOfAttempt /\ [PipelineNext]_vars => ResultOfAttempt'
  BY ResultOfAttemptNext
<1> QED BY <1>1, <1>2, ShapeHolds, PTL DEF PipelineSpec

=============================================================================
