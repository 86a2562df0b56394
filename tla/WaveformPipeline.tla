-------------------------- MODULE WaveformPipeline --------------------------
(***************************************************************************)
(* A waveform request from the Console's HTTP handler to a deleted queue   *)
(* message: the Console (api/admin/waveform-jobs, server/waveform), the    *)
(* Runner (ops/waveform-runner: enqueue server, consumer, worker), the OCI *)
(* queue with its dead letter queue, and the job service of WaveformJob    *)
(* that the first two call.                                                *)
(*                                                                         *)
(* A call to the Console or to the queue takes effect in one step.  The    *)
(* caller may see its answer, or give up on it: then the call moves to     *)
(* late and takes effect at any later time, or never.                      *)
(***************************************************************************)
EXTENDS WaveformJob, Naturals

CONSTANTS ApprovedLists, \* the approvedVideoIds files the Runner may boot with
          MaxDeliveries, \* dead_letter_queue_delivery_count
          MaxSlots,      \* slots of the enqueue server
          MaxInFlight,   \* waveformRunnerConfig.maxInFlight
          MaxLate,       \* bound: abandoned calls that may still take effect
          NoJob          \* the consumer holds no delivery

ASSUME ApprovedAssumption == ApprovedLists # {} /\ ApprovedLists \subseteq SUBSET Videos
ASSUME LimitsAssumption == /\ MaxDeliveries \in Nat \ {0} /\ MaxSlots \in Nat
                           /\ MaxInFlight \in Nat /\ MaxLate \in Nat
\* The worker's output for an attempt is told apart by that attempt.
ASSUME ContentsAssumption == Attempts \subseteq Contents
ASSUME NoJobAssumption == NoJob \notin Jobs

VARIABLES console,   \* console[j]: the request handler that created j
          handler,   \* handler[j]: the Runner's /enqueue handler for j
          msg,       \* msg[j]: the queue message for j
          consumer,  \* the Runner's consume loop
          container, \* the one container named oioi-waveform-worker
          approved,  \* the list the Runner booted with
          late       \* abandoned calls that may still take effect

pipeVars == <<console, handler, msg, consumer, container, approved, late>>
vars     == <<jobVars, pipeVars>>

-----------------------------------------------------------------------------

Outcomes    == {"ENQUEUED", "UNCONFIRMED", "NOT_ENQUEUED"}
HandlerBusy == {"get", "put", "record"}
InLease     == {"clean", "get", "start", "run", "work", "report", "recheck", "delete"}
Queues      == {"main", "dlq"}
Calls == [op : {"put", "enqueued", "start", "result", "dlq", "create"},
          job : Jobs, attempt : Attempts \cup {NoAttempt}]

NoMessage   == [place |-> "none", hidden |-> FALSE, count |-> 0, puts |-> 0]
NoContainer == [state |-> "none", job |-> NoJob, attempt |-> NoAttempt]
Stopped     == [pc |-> "off", job |-> NoJob, dlq |-> TRUE, attempt |-> NoAttempt]

PipelineTypeOK ==
    /\ JobsTypeOK
    /\ console \in [Jobs -> {"none", "send", "await", "refused", "done"}]
    /\ handler \in [Jobs -> {"none"} \cup HandlerBusy \cup Outcomes]
    /\ msg \in [Jobs -> [place : {"none", "deleted", "expired"} \cup Queues,
                         hidden : BOOLEAN, count : 0 .. MaxDeliveries, puts : Nat]]
    /\ consumer \in [pc : {"off", "idle"} \cup InLease, job : Jobs \cup {NoJob},
                     dlq : BOOLEAN, attempt : Attempts \cup {NoAttempt}]
    /\ container \in [state : {"none", "created", "running"}, job : Jobs \cup {NoJob},
                      attempt : Attempts \cup {NoAttempt}]
    /\ approved \in ApprovedLists
    /\ late \subseteq Calls

PipelineInit ==
    /\ JobsInit
    /\ console = [j \in Jobs |-> "none"]
    /\ handler = [j \in Jobs |-> "none"]
    /\ msg = [j \in Jobs |-> NoMessage]
    /\ consumer = Stopped
    /\ container = NoContainer
    /\ approved \in ApprovedLists
    /\ late = {}

\* The caller gives up on call (op, j, a); a lost one is never remembered.
GiveUp(op, j, a) ==
    \/ UNCHANGED late
    \/ /\ Cardinality(late) < MaxLate
       /\ late' = late \cup {[op |-> op, job |-> j, attempt |-> a]}

-----------------------------------------------------------------------------
(* The Console's request handler: POST in waveform-jobs/route.ts, with       *)
(* enqueueWaveform.                                                          *)

consoleOnly == <<handler, msg, consumer, container, approved, late>>

\* Only the request that created the job enqueues it.
Request(s, p, j) ==
    /\ CreateJob(s, p, j)
    /\ console' = [console EXCEPT ![j] = "send"]
    /\ UNCHANGED consoleOnly

\* Fault: a repeated request enqueues the active job once more.
RejoinSendsFault(s, p, j) ==
    /\ JoinJob(s, p, j)
    /\ console' = [console EXCEPT ![j] = "send"]
    /\ UNCHANGED consoleOnly

RequestAgain(s, p, j) == JoinJob(s, p, j) /\ UNCHANGED pipeVars

InFlight == {j \in Jobs : console[j] = "await"}

\* enqueueWaveform refuses before it opens the socket.
RefuseInFlight(j) ==
    /\ console[j] = "send"
    /\ Cardinality(InFlight) >= MaxInFlight
    /\ console' = [console EXCEPT ![j] = "refused"]
    /\ UNCHANGED <<jobVars, consoleOnly>>

\* The Runner accepts the call: it takes a slot, or answers 503, which the
\* Console reads as UNCONFIRMED; a video that is not approved is refused.
Submit(j) ==
    /\ console[j] = "send"
    /\ Cardinality(InFlight) < MaxInFlight
    /\ consumer.pc # "off"
    /\ handler[j] \notin HandlerBusy
    /\ \/ /\ Cardinality({k \in Jobs : handler[k] \in HandlerBusy}) >= MaxSlots
          /\ console' = [console EXCEPT ![j] = "done"]
          /\ UNCHANGED handler
       \/ /\ Cardinality({k \in Jobs : handler[k] \in HandlerBusy}) < MaxSlots
          /\ console' = [console EXCEPT ![j] = "await"]
          /\ handler' = [handler EXCEPT ![j] =
                 IF job[j].video \in approved THEN "get" ELSE "NOT_ENQUEUED"]
    /\ UNCHANGED <<jobVars, msg, consumer, container, approved, late>>

Answer(j) ==
    /\ console[j] = "await"
    /\ handler[j] \in Outcomes
    /\ console' = [console EXCEPT ![j] =
           IF handler[j] = "NOT_ENQUEUED" THEN "refused" ELSE "done"]
    /\ UNCHANGED <<jobVars, consoleOnly>>

\* acceptWaveformResult(ENQUEUE_FAILED); an unaccepted or failing call is over too.
FailEnqueue(j) ==
    /\ console[j] = "refused"
    /\ CompleteFailed(j, NoAttempt, "ENQUEUE_FAILED")
    /\ console' = [console EXCEPT ![j] = "done"]
    /\ UNCHANGED consoleOnly

\* The 2 s deadline, a socket error, an unaccepted terminal, a Console crash.
ConsoleLeaves(j) ==
    /\ console[j] \in {"send", "await", "refused"}
    /\ console' = [console EXCEPT ![j] = "done"]
    /\ UNCHANGED <<jobVars, consoleOnly>>

-----------------------------------------------------------------------------
(* The Runner's enqueue handler: enqueue in enqueue.go.  It outlives the     *)
(* connection of the Console that called it.                                 *)

handlerOnly == <<console, consumer, container, approved>>

\* JobClient.Get and the decisions on its answer; any error is UNCONFIRMED.
HandlerGet(j) ==
    /\ handler[j] = "get"
    /\ \E outcome \in {"UNCONFIRMED"} \cup
           (IF ~Exists(j) THEN {}
            ELSE IF job[j].enqueued THEN {"ENQUEUED"}
            ELSE IF job[j].status = "QUEUED" /\ job[j].attempt = NoAttempt THEN {"put"} ELSE {}) :
         handler' = [handler EXCEPT ![j] = outcome]
    /\ UNCHANGED <<jobVars, handlerOnly, msg, late>>

\* PutMessages at the queue.
PutEffect(j) ==
    msg' = [msg EXCEPT ![j] = [place |-> "main", hidden |-> FALSE, count |-> 0,
                               puts |-> @.puts + 1]]

HandlerPut(j) ==
    /\ handler[j] = "put"
    /\ PutEffect(j)
    /\ handler' = [handler EXCEPT ![j] = "record"]
    /\ UNCHANGED <<jobVars, handlerOnly, late>>

\* Fault: an error of PutMessages is taken for a proof that nothing was sent.
PutErrorRefusesFault(j) ==
    /\ handler[j] = "put"
    /\ handler' = [handler EXCEPT ![j] = "NOT_ENQUEUED"]
    /\ GiveUp("put", j, NoAttempt)
    /\ UNCHANGED <<jobVars, handlerOnly, msg>>

HandlerPutLost(j) ==
    /\ handler[j] = "put"
    /\ handler' = [handler EXCEPT ![j] = "UNCONFIRMED"]
    /\ GiveUp("put", j, NoAttempt)
    /\ UNCHANGED <<jobVars, handlerOnly, msg>>

HandlerRecord(j) ==
    /\ handler[j] = "record"
    /\ RecordEnqueued(j)
    /\ handler' = [handler EXCEPT ![j] = "ENQUEUED"]
    /\ UNCHANGED <<handlerOnly, msg, late>>

\* RecordEnqueued fails, finds no job, or its answer is lost.
HandlerRecordLost(j) ==
    /\ handler[j] = "record"
    /\ handler' = [handler EXCEPT ![j] = "UNCONFIRMED"]
    /\ GiveUp("enqueued", j, NoAttempt)
    /\ UNCHANGED <<jobVars, handlerOnly, msg>>

-----------------------------------------------------------------------------
(* The OCI queue: external, as publisher.go, consumer.go and waveform.tf use *)
(* it.  PutMessages is above, DeleteMessage below.                           *)

queueOnly == <<console, handler, consumer, container, approved, late>>

\* A delivered message that is not deleted in time is offered again; after
\* its last delivery it moves to the dead letter queue.
VisibilityTimeout(j) ==
    /\ msg[j].place \in Queues /\ msg[j].hidden
    /\ msg' = [msg EXCEPT
           ![j].hidden = FALSE,
           ![j].place = IF @ = "main" /\ msg[j].count = MaxDeliveries THEN "dlq" ELSE @]
    /\ UNCHANGED <<jobVars, queueOnly>>

\* retention_in_seconds is over.
Expire(j) ==
    /\ msg[j].place \in Queues
    /\ msg' = [msg EXCEPT ![j].place = "expired", ![j].hidden = FALSE]
    /\ UNCHANGED <<jobVars, queueOnly>>

-----------------------------------------------------------------------------
(* The Runner's consume loop: Serve, ConsumeOne, ConsumeDeadLetterOne.       *)
(* consumer.dlq is the queue of this round; every round takes the other one. *)

loopOnly == <<console, handler, approved>>
Goto(pc) == consumer' = [consumer EXCEPT !.pc = pc]
NextRound == consumer' = [pc |-> "idle", job |-> NoJob, dlq |-> ~consumer.dlq,
                          attempt |-> NoAttempt]
Queue == IF consumer.dlq THEN "dlq" ELSE "main"

\* systemd starts the Runner, which clears the container before its first poll.
Boot ==
    /\ consumer.pc = "off"
    /\ consumer' = [Stopped EXCEPT !.pc = "idle"]
    /\ container' = NoContainer
    /\ approved' \in ApprovedLists
    /\ UNCHANGED <<jobVars, console, handler, msg, late>>

\* The process ends anywhere: a kill, a stop, ErrRunnerStalled after a cleanup
\* that could not be confirmed.  The container stays until the next cleanup.
Crash ==
    /\ consumer.pc # "off"
    /\ consumer' = Stopped
    /\ handler' = [j \in Jobs |-> IF handler[j] \in HandlerBusy THEN "UNCONFIRMED"
                                  ELSE handler[j]]
    /\ UNCHANGED <<jobVars, console, msg, container, approved, late>>

Visible(j) == msg[j].place = Queue /\ ~msg[j].hidden

\* GetMessages hands out one message; when its answer is lost, the message is
\* hidden all the same and nobody works on it.
Poll(j) ==
    /\ consumer.pc = "idle"
    /\ Visible(j)
    /\ msg' = [msg EXCEPT ![j].hidden = TRUE,
                          ![j].count = IF consumer.dlq THEN @ ELSE @ + 1]
    /\ consumer' = [consumer EXCEPT !.pc = "clean", !.job = j]
    /\ UNCHANGED <<jobVars, loopOnly, container, late>>

PollLost(j) ==
    /\ consumer.pc = "idle"
    /\ Visible(j)
    /\ msg' = [msg EXCEPT ![j].hidden = TRUE,
                          ![j].count = IF consumer.dlq THEN @ ELSE @ + 1]
    /\ NextRound
    /\ UNCHANGED <<jobVars, loopOnly, container, late>>

EmptyPoll ==
    /\ consumer.pc = "idle"
    /\ \A j \in Jobs : ~Visible(j)
    /\ NextRound
    /\ UNCHANGED <<jobVars, loopOnly, msg, container, late>>

\* worker.Cleanup at the head of Process and ProcessDeadLetter.
CleanUp ==
    /\ consumer.pc = "clean"
    /\ container' = NoContainer
    /\ Goto("get")
    /\ UNCHANGED <<jobVars, loopOnly, msg, late>>

\* Fault: the lease ends without the worker being stopped.
AbandonRunningFault ==
    /\ consumer.pc \in InLease
    /\ NextRound
    /\ UNCHANGED <<jobVars, loopOnly, msg, container, late>>

\* The lease ends early: it is lost, an API call fails, the worker fails, the
\* start is refused, the receipt is stale.  The message is left to the queue.
Abandon ==
    /\ consumer.pc \in InLease
    /\ container' = IF consumer.pc = "work" THEN NoContainer ELSE container
    /\ NextRound
    /\ UNCHANGED <<jobVars, loopOnly, msg, late>>

\* Fault: a job that is gone is not recognised as such.
GetExistingFault ==
    LET j == consumer.job IN
    /\ consumer.pc = "get"
    /\ Exists(j)
    /\ \/ job[j].status \notin Active /\ Goto("delete")
       \/ /\ job[j].status \in Active
          /\ consumer.dlq \/ job[j].video \in approved
          /\ consumer' = [consumer EXCEPT !.pc = IF consumer.dlq THEN "report" ELSE "start",
                                          !.attempt = job[j].attempt]
    /\ UNCHANGED <<jobVars, loopOnly, msg, container, late>>

\* Fault: dead letters, too, are subject to the list of approved videos.
GetApprovedFault ==
    LET j == consumer.job IN
    /\ consumer.pc = "get"
    /\ \/ job[j].status \notin Active /\ Goto("delete")
       \/ /\ job[j].status \in Active
          /\ job[j].video \in approved
          /\ consumer' = [consumer EXCEPT !.pc = IF consumer.dlq THEN "report" ELSE "start",
                                          !.attempt = job[j].attempt]
    /\ UNCHANGED <<jobVars, loopOnly, msg, container, late>>

\* JobClient.Get: a job that ended or is gone only needs its message deleted;
\* an unapproved video is left to the queue (Abandon); a dead letter is failed
\* whatever the list says.
GetJob ==
    LET j == consumer.job IN
    /\ consumer.pc = "get"
    /\ \/ job[j].status \notin Active /\ Goto("delete")
       \/ /\ job[j].status \in Active
          /\ consumer.dlq \/ job[j].video \in approved
          /\ consumer' = [consumer EXCEPT !.pc = IF consumer.dlq THEN "report" ELSE "start",
                                          !.attempt = job[j].attempt]
    /\ UNCHANGED <<jobVars, loopOnly, msg, container, late>>

StartAttempt(a) ==
    /\ consumer.pc = "start"
    /\ StartJob(consumer.job, consumer.attempt, a)
    /\ consumer' = [consumer EXCEPT !.pc = "run", !.attempt = a]
    /\ UNCHANGED <<loopOnly, msg, container, late>>

StartLost ==
    /\ consumer.pc = "start"
    /\ GiveUp("start", consumer.job, consumer.attempt)
    /\ NextRound
    /\ UNCHANGED <<jobVars, loopOnly, msg, container>>

\* DockerWorker.Run: clean up, create, start.
RunContainer ==
    /\ consumer.pc = "run"
    /\ container' = [state |-> "running", job |-> consumer.job, attempt |-> consumer.attempt]
    /\ Goto("work")
    /\ UNCHANGED <<jobVars, loopOnly, msg, late>>

\* The answer to docker create is lost: the container may appear later, and
\* the Runner gives up its life for a fresh start.
CreateLost ==
    /\ consumer.pc = "run"
    /\ GiveUp("create", consumer.job, consumer.attempt)
    /\ container' = NoContainer
    /\ consumer' = Stopped
    /\ handler' = [j \in Jobs |-> IF handler[j] \in HandlerBusy THEN "UNCONFIRMED"
                                  ELSE handler[j]]
    /\ UNCHANGED <<jobVars, console, msg, approved>>

\* Run returns a result only after its container is gone.
WorkDone ==
    /\ consumer.pc = "work"
    /\ container' = NoContainer
    /\ Goto("report")
    /\ UNCHANGED <<jobVars, loopOnly, msg, late>>

WorkerResult(j, a) == [source |-> job[j].video, content |-> a]

\* The terminal call of this round takes effect, if the job still takes it.
Complete(op, j, a) ==
    IF Exists(j) /\ CompleteAccepted(j, a)
    THEN IF op = "dlq" THEN CompleteFailed(j, a, "DLQ")
                       ELSE CompleteSucceeded(j, a, WorkerResult(j, a))
    ELSE UNCHANGED jobVars

ReportOp == IF consumer.dlq THEN "dlq" ELSE "result"

\* Complete, and confirmTerminal on its answer: only a terminal status or a
\* missing job allows the message to be deleted.
Report ==
    /\ consumer.pc = "report"
    /\ Complete(ReportOp, consumer.job, consumer.attempt)
    /\ Goto(IF job'[consumer.job].status \in Active THEN "recheck" ELSE "delete")
    /\ UNCHANGED <<loopOnly, msg, container, late>>

\* Fault: a terminal call without an answer counts as done.
ReportTrustedFault ==
    /\ consumer.pc = "report"
    /\ GiveUp(ReportOp, consumer.job, consumer.attempt)
    /\ Goto("delete")
    /\ UNCHANGED <<jobVars, loopOnly, msg, container>>

ReportLost ==
    /\ consumer.pc = "report"
    /\ GiveUp(ReportOp, consumer.job, consumer.attempt)
    /\ Goto("recheck")
    /\ UNCHANGED <<jobVars, loopOnly, msg, container>>

\* confirmTerminal looks the job up again.
Recheck ==
    /\ consumer.pc = "recheck"
    /\ IF job[consumer.job].status \in Active THEN NextRound ELSE Goto("delete")
    /\ UNCHANGED <<jobVars, loopOnly, msg, container, late>>

DeleteMessage ==
    /\ consumer.pc = "delete"
    /\ msg[consumer.job].place = Queue
    /\ msg' = [msg EXCEPT ![consumer.job].place = "deleted", ![consumer.job].hidden = FALSE]
    /\ NextRound
    /\ UNCHANGED <<jobVars, loopOnly, container, late>>

-----------------------------------------------------------------------------

\* An abandoned call takes effect after all.
LateEffect(c) ==
    /\ late' = late \ {c}
    /\ \/ c.op = "put" /\ PutEffect(c.job) /\ UNCHANGED <<jobVars, container>>
       \/ c.op = "enqueued" /\ RecordEnqueued(c.job) /\ UNCHANGED <<msg, container>>
       \/ /\ c.op = "start"
          /\ \E a \in Attempts : StartJob(c.job, c.attempt, a)
          /\ UNCHANGED <<msg, container>>
       \/ /\ c.op \in {"result", "dlq"}
          /\ Complete(c.op, c.job, c.attempt)
          /\ UNCHANGED <<msg, container>>
       \/ /\ c.op = "create" /\ container.state = "none"
          /\ container' = [state |-> "created", job |-> c.job, attempt |-> c.attempt]
          /\ UNCHANGED <<jobVars, msg>>
    /\ UNCHANGED <<console, handler, consumer, approved>>

LateNever(c) ==
    /\ late' = late \ {c}
    /\ UNCHANGED <<jobVars, console, handler, msg, consumer, container, approved>>

\* Administrators upload waveforms, none of which is an attempt's, and edit and
\* delete songs meanwhile.
Upload(s, p, j) ==
    /\ \E a \in Attempts, r \in [source : Videos, content : Contents \ Attempts],
          replace \in BOOLEAN : ImportWaveform(s, p, r, replace, j, a)
    /\ UNCHANGED pipeVars

Elsewhere == \/ \E s \in Songs, p \in Accounts, j \in Jobs : Upload(s, p, j)
             \/ SongNext /\ UNCHANGED pipeVars

ConsoleNext ==
    \/ \E s \in Songs, p \in Accounts, j \in Jobs : Request(s, p, j) \/ RequestAgain(s, p, j)
    \/ \E j \in Jobs : \/ RefuseInFlight(j) \/ Submit(j) \/ Answer(j)
                       \/ FailEnqueue(j) \/ ConsoleLeaves(j)

HandlerNext ==
    \E j \in Jobs : \/ HandlerGet(j) \/ HandlerPut(j) \/ HandlerPutLost(j)
                    \/ HandlerRecord(j) \/ HandlerRecordLost(j)

QueueNext == \E j \in Jobs : VisibilityTimeout(j) \/ Expire(j)

ConsumerNext ==
    \/ Boot \/ Crash \/ EmptyPoll \/ CleanUp \/ Abandon \/ GetJob
    \/ \E j \in Jobs : Poll(j) \/ PollLost(j)
    \/ \E a \in Attempts : StartAttempt(a)
    \/ StartLost \/ RunContainer \/ CreateLost \/ WorkDone
    \/ Report \/ ReportLost \/ Recheck \/ DeleteMessage

LateNext == \E c \in late : LateEffect(c) \/ LateNever(c)

PipelineNext ==
    ConsoleNext \/ HandlerNext \/ QueueNext \/ ConsumerNext \/ LateNext \/ Elsewhere

PipelineSpec == PipelineInit /\ [][PipelineNext]_vars

-----------------------------------------------------------------------------

\* A message is deleted only when nothing is left to do for its job: whatever
\* answers are lost and whichever attempt wins, an open job keeps its message.
DeletedOnlyWhenSettled ==
    \A j \in Jobs : msg[j].place = "deleted" => job[j].status \notin Active

\* What the row says of the delivery is true: a job failed as never enqueued has
\* no message and never gets one from a late call, and a job marked as
\* enqueued has had one.
EnqueueTruth ==
    \A j \in Jobs :
        /\ job[j].error = "ENQUEUE_FAILED" =>
               msg[j].puts = 0 /\ \A c \in late : ~(c.op = "put" /\ c.job = j)
        /\ job[j].enqueued => msg[j].puts > 0

\* No job is ever put into the queue twice: repeated requests, lost answers and
\* restarts of either side enqueue nothing (the queue alone redelivers).
OneMessage == \A j \in Jobs : msg[j].puts <= 1

\* Where an analysis runs, the consumer is in the middle of that very attempt,
\* or the Runner is down and has yet to clear it: none outlives its lease.
WorkOnlyInLease ==
    container.state = "running" =>
        \/ consumer.pc = "off"
        \/ /\ consumer.pc = "work"
           /\ container.job = consumer.job /\ container.attempt = consumer.attempt

\* While its container works, an attempt is not replaced by another: the
\* expected attempt fences off starts that arrive late.
WorkIsCurrent ==
    (/\ consumer.pc = "work"
     /\ job[consumer.job].status \in Active)
        => /\ job[consumer.job].status = "RUNNING"
           /\ job[consumer.job].attempt = consumer.attempt

\* A waveform stored for an attempt is the one of a job that succeeded with
\* this attempt: the result of a replaced attempt is never stored.
ResultOfAttempt ==
    \A s \in Songs :
        (waveform[s] # NoWaveform /\ waveform[s].data.content \in Attempts) =>
            \E j \in Jobs : /\ job[j].song = s
                           /\ job[j].status = "SUCCEEDED"
                           /\ job[j].attempt = waveform[s].data.content

-----------------------------------------------------------------------------

\* The Runner's consume loop keeps running (each of its calls has a deadline),
\* systemd or an operator brings the Runner back, the queue's timeouts fire.
\* A step that is tried again and again, with errors, lost leases and crashes
\* in between, succeeds in the end.
ConsumeFairness ==
    /\ WF_vars(Boot) /\ SF_vars(EmptyPoll) /\ WF_vars(Abandon)
    /\ \A j \in Jobs :
        /\ WF_vars(VisibilityTimeout(j))
        /\ SF_vars(Poll(j))
        /\ SF_vars(consumer.job = j /\ CleanUp)
        /\ SF_vars(consumer.job = j /\ GetJob)
        /\ SF_vars(consumer.job = j /\ Report)
        /\ SF_vars(consumer.job = j /\ DeleteMessage)

\* The request handler and the enqueue handler run to their end, too.
EnqueueFairness ==
    \A j \in Jobs :
        /\ WF_vars(Submit(j)) /\ WF_vars(Answer(j)) /\ WF_vars(ConsoleLeaves(j))
        /\ WF_vars(HandlerGet(j)) /\ WF_vars(HandlerPut(j))
        /\ WF_vars(HandlerRecord(j)) /\ WF_vars(HandlerRecordLost(j))

ConsumeSpec == PipelineSpec /\ ConsumeFairness
FairSpec    == ConsumeSpec /\ EnqueueFairness

\* A job whose message reached the queue is settled, or the queue's retention
\* takes the message first.
DeliveredSettles ==
    \A j \in Jobs : msg[j].place \in Queues ~>
        (job[j].status \notin Active \/ msg[j].place = "expired")

\* No message stays in the queue or its dead letter queue for good, not even
\* that of a job that was deleted with its song.
MessageDrains == \A j \in Jobs : msg[j].place \in Queues ~> msg[j].place \notin Queues

\* DESIGN.md:364-365: a job still QUEUED and not known to be enqueued is failed
\* by a stale-job check after a conservative deadline, so it does not stay so.
StaleJobsFail ==
    \A j \in Jobs : (job[j].status = "QUEUED" /\ ~job[j].enqueued) ~>
                        ~(job[j].status = "QUEUED" /\ ~job[j].enqueued)

=============================================================================
