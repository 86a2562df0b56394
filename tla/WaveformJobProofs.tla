------------------------- MODULE WaveformJobProofs -------------------------
(***************************************************************************)
(* Proofs about the waveform job service for every set of songs, videos,   *)
(* jobs, attempts and accounts: its type invariant, the invariants that    *)
(* MCWaveformJob checks on a small instance, that ended jobs stay ended,   *)
(* and that the service implements JobLifecycle.                           *)
(***************************************************************************)
EXTENDS WaveformJob, TLAPS

\* The steps that leave the rows of job alone, and those that change one.
LEMMA NewRowType ==
    ASSUME NEW s \in Songs, NEW v \in Videos
    PROVE  NewRow(s, v) \in JobRow
BY DEF NewRow, JobRow, Active

LEMMA NoRowType == NoRow \in JobRow /\ NoRow.status = "NONE" /\ NoRow.error = "NONE"
BY SomethingAssumption DEF NoRow, NewRow, JobRow, Active, Absent, Terminal

\* The rows, requesters and notifications are well typed from the start.
LEMMA InitType == JobsInit => JobsTypeOK
BY NoRowType DEF JobsInit, JobsTypeOK

\* The end of a job: the row and the notifications it writes are well typed.
LEMMA FinishType ==
    ASSUME JobsTypeOK, NEW j \in Jobs, NEW status \in Terminal,
           NEW error \in Errors \cup {"NONE"}, Finish(j, status, error)
    PROVE  /\ job' \in [Jobs -> JobRow]
           /\ notified' \in [Jobs -> SUBSET (Accounts \X Types)]
<1>1. job' \in [Jobs -> JobRow]
  <2>1. job' = [job EXCEPT ![j] = [job[j] EXCEPT !.status = status, !.error = error]]
    BY DEF JobsTypeOK, Finish
  <2>2. [job[j] EXCEPT !.status = status, !.error = error] \in JobRow
    BY DEF JobsTypeOK, JobRow
  <2> QED BY <2>1, <2>2 DEF JobsTypeOK
<1>2. requesters[j] \X {NotificationType(status)} \in SUBSET (Accounts \X Types)
  BY DEF JobsTypeOK, NotificationType, Types
<1>3. notified' \in [Jobs -> SUBSET (Accounts \X Types)]
  BY <1>2 DEF JobsTypeOK, Finish, Notify
<1> QED BY <1>1, <1>3

LEMMA NextType == JobsTypeOK /\ [JobsNext]_jobVars => JobsTypeOK'
<1> SUFFICES ASSUME JobsTypeOK, [JobsNext]_jobVars PROVE JobsTypeOK'
    OBVIOUS
<1> USE DEF JobsTypeOK
<1>1. ASSUME NEW s \in Songs, NEW p \in Accounts, NEW j \in Jobs, CreateJob(s, p, j)
      PROVE  JobsTypeOK'
  BY <1>1, NewRowType, AllowedAssumption DEF CreateJob
<1>2. ASSUME NEW s \in Songs, NEW p \in Accounts, NEW j \in Jobs, JoinJob(s, p, j)
      PROVE  JobsTypeOK'
  BY <1>2 DEF JoinJob
<1>3. ASSUME NEW j \in Jobs, RecordEnqueued(j) PROVE JobsTypeOK'
  <2>1. [job[j] EXCEPT !.enqueued = TRUE] \in JobRow
    BY DEF JobRow
  <2> QED BY <1>3, <2>1 DEF RecordEnqueued
<1>4. ASSUME NEW j \in Jobs, NEW e, NEW a \in Attempts, StartJob(j, e, a)
      PROVE  JobsTypeOK'
  <2>1. [job[j] EXCEPT !.status = "RUNNING", !.attempt = a] \in JobRow
    BY DEF JobRow, Active
  <2>2. job' \in [Jobs -> JobRow] /\ issued' \subseteq Attempts
    BY <1>4, <2>1 DEF StartJob
  <2> QED BY <1>4, <2>2 DEF StartJob
<1>5. ASSUME NEW j \in Jobs, NEW e, NEW x \in Errors, CompleteFailed(j, e, x)
      PROVE  JobsTypeOK'
  BY <1>5, FinishType DEF CompleteFailed, Terminal
<1>6. ASSUME NEW j \in Jobs, NEW e, NEW r \in Result, CompleteSucceeded(j, e, r)
      PROVE  JobsTypeOK'
  <2>1. CASE SourceMatches(j, r)
    <3>1. Finish(j, "SUCCEEDED", "NONE") /\ StoreWaveform(job[j].song, job[j].video, r)
      BY <1>6, <2>1 DEF CompleteSucceeded
    <3>2. /\ job' \in [Jobs -> JobRow]
          /\ notified' \in [Jobs -> SUBSET (Accounts \X Types)]
      BY <3>1, FinishType DEF Terminal
    <3>3. job[j].song \in Songs /\ job[j].video \in Videos
      BY DEF JobRow
    <3>4. waveform' \in [Songs -> WaveformRow \cup {NoWaveform}]
      BY <3>1, <3>3 DEF StoreWaveform, WaveformRow
    <3> QED BY <1>6, <3>2, <3>4 DEF CompleteSucceeded
  <2>2. CASE ~SourceMatches(j, r)
    <3>1. Finish(j, "FAILED", "SOURCE_CHANGED") /\ UNCHANGED waveform
      BY <1>6, <2>2 DEF CompleteSucceeded
    <3>2. /\ job' \in [Jobs -> JobRow]
          /\ notified' \in [Jobs -> SUBSET (Accounts \X Types)]
      BY <3>1, FinishType DEF Terminal, Errors
    <3> QED BY <1>6, <3>1, <3>2 DEF CompleteSucceeded
  <2> QED BY <2>1, <2>2
<1>7. ASSUME NEW s \in Songs, NEW p \in Accounts, NEW j \in Jobs, NEW a \in Attempts,
             NEW r \in Result, NEW replace \in BOOLEAN, ImportWaveform(s, p, r, replace, j, a)
      PROVE  JobsTypeOK'
  <2>1. r.source \in Videos
    BY DEF Result
  <2>2. job' \in [Jobs -> JobRow]
    <3> DEFINE row == IF job[j].status = "NONE" THEN NewRow(s, r.source) ELSE job[j]
    <3>1. row \in JobRow
      BY <2>1, NewRowType
    <3>2. [row EXCEPT !.status = "SUCCEEDED", !.attempt = a, !.error = "NONE"] \in JobRow
      BY <3>1 DEF JobRow, Terminal
    <3>3. job' = [job EXCEPT ![j] =
                    [row EXCEPT !.status = "SUCCEEDED", !.attempt = a, !.error = "NONE"]]
      BY <1>7 DEF ImportWaveform
    <3> QED BY <3>2, <3>3
  <2>3. /\ requesters' \in [Jobs -> SUBSET Accounts]
        /\ notified' \in [Jobs -> SUBSET (Accounts \X Types)]
    BY <1>7 DEF ImportWaveform, Notify, NotificationType, Types
  <2>4. waveform' \in [Songs -> WaveformRow \cup {NoWaveform}]
    BY <1>7, <2>1 DEF ImportWaveform, StoreWaveform, WaveformRow
  <2> QED BY <1>7, <2>2, <2>3, <2>4 DEF ImportWaveform
<1>8. ASSUME NEW s \in Songs, NEW v \in Videos \cup {NoVideo}, EditVideo(s, v)
      PROVE  JobsTypeOK'
  BY <1>8 DEF EditVideo
<1>9. ASSUME NEW s \in Songs, DeleteSong(s) PROVE JobsTypeOK'
  <2>1. job' \in [Jobs -> JobRow]
    BY <1>9, SMTT(30) DEF DeleteSong, JobRow, Absent
  <2>2. requesters' \in [Jobs -> SUBSET Accounts]
    BY <1>9 DEF DeleteSong
  <2> QED BY <1>9, <2>1, <2>2 DEF DeleteSong
<1>10. CASE UNCHANGED jobVars
  BY <1>10 DEF jobVars
<1> QED BY <1>1, <1>2, <1>3, <1>4, <1>5, <1>6, <1>7, <1>8, <1>9, <1>10
        DEF JobsNext, RequestNext, RunnerNext, ImportNext, SongNext

\* Every state of the job service is well typed.
THEOREM TypeCorrect == JobsSpec => []JobsTypeOK
BY InitType, NextType, PTL DEF JobsSpec

-----------------------------------------------------------------------------

\* One active job per song and video, from a state with at most one.
LEMMA OneActiveNext ==
    ASSUME JobsTypeOK, OneActiveJob, [JobsNext]_jobVars
    PROVE  OneActiveJob'
<1> USE DEF JobsTypeOK, OneActiveJob
<1>1. ASSUME NEW s \in Songs, NEW p \in Accounts, NEW j \in Jobs, CreateJob(s, p, j)
      PROVE  OneActiveJob'
  BY <1>1 DEF CreateJob, NewRow, ActiveJobs, Active
<1>2. ASSUME NEW j \in Jobs, RecordEnqueued(j) PROVE OneActiveJob'
  BY <1>2 DEF RecordEnqueued, JobRow
<1>3. ASSUME NEW j \in Jobs, NEW e, NEW a \in Attempts, StartJob(j, e, a)
      PROVE  OneActiveJob'
  BY <1>3 DEF StartJob, StartAccepted, JobRow, Active
<1>4. ASSUME NEW j \in Jobs, NEW status \in Terminal, NEW error, Finish(j, status, error)
      PROVE  OneActiveJob'
  BY <1>4 DEF Finish, JobRow, Active, Terminal
<1>5. ASSUME NEW s \in Songs, NEW p \in Accounts, NEW j \in Jobs, NEW a \in Attempts,
             NEW r \in Result, NEW replace \in BOOLEAN, ImportWaveform(s, p, r, replace, j, a)
      PROVE  OneActiveJob'
  <2> DEFINE row == [(IF job[j].status = "NONE" THEN NewRow(s, r.source) ELSE job[j])
                       EXCEPT !.status = "SUCCEEDED", !.attempt = a, !.error = "NONE"]
  <2>1. job' = [job EXCEPT ![j] = row]
    BY <1>5 DEF ImportWaveform
  <2>2. row.status \notin Active
    BY DEF NewRow, JobRow, Active
  <2> QED BY <2>1, <2>2
<1>6. ASSUME NEW s \in Songs, DeleteSong(s) PROVE OneActiveJob'
  BY <1>6 DEF DeleteSong, JobRow, Active
<1>7. CASE UNCHANGED job
  BY <1>7
<1> QED
  BY <1>1, <1>2, <1>3, <1>4, <1>5, <1>6, <1>7
  DEF JobsNext, RequestNext, RunnerNext, ImportNext, SongNext, jobVars, JoinJob,
      CompleteFailed, CompleteSucceeded, EditVideo, Terminal

\* The unique index waveform_job_active_key is never violated.
THEOREM UniqueActive == JobsSpec => []OneActiveJob
<1>1. JobsInit => OneActiveJob
  BY NoRowType DEF JobsInit, OneActiveJob, Active
<1>2. JobsTypeOK /\ OneActiveJob /\ [JobsNext]_jobVars => OneActiveJob'
  BY OneActiveNext
<1> QED BY <1>1, <1>2, TypeCorrect, PTL DEF JobsSpec

-----------------------------------------------------------------------------

\* The table's check constraints, from a row that satisfies them.
LEMMA RowChecksNext ==
    ASSUME JobsTypeOK, RowChecks, [JobsNext]_jobVars
    PROVE  RowChecks'
<1> USE DEF JobsTypeOK, RowChecks
<1>1. ASSUME NEW s \in Songs, NEW p \in Accounts, NEW j \in Jobs, CreateJob(s, p, j)
      PROVE  RowChecks'
  BY <1>1 DEF CreateJob, NewRow, Exists, Absent
<1>2. ASSUME NEW j \in Jobs, RecordEnqueued(j) PROVE RowChecks'
  BY <1>2 DEF RecordEnqueued, JobRow, Exists
<1>3. ASSUME NEW j \in Jobs, NEW e, NEW a \in Attempts, StartJob(j, e, a)
      PROVE  RowChecks'
  BY <1>3, NullsAssumption DEF StartJob, StartAccepted, JobRow, Exists, Active, Absent
<1>4. ASSUME NEW j \in Jobs, NEW e, NEW x \in Errors, CompleteFailed(j, e, x)
      PROVE  RowChecks'
  <2>1. job' = [job EXCEPT ![j] = [job[j] EXCEPT !.status = "FAILED", !.error = x]]
    BY <1>4 DEF CompleteFailed, Finish
  <2>2. x # "NONE"
    BY DEF Errors
  <2> QED BY <2>1, <2>2 DEF JobRow, Exists, Absent
<1>5. ASSUME NEW j \in Jobs, NEW e \in Attempts, NEW r \in Result, CompleteSucceeded(j, e, r)
      PROVE  RowChecks'
  <2>1. job[j].attempt # NoAttempt
    BY <1>5, NullsAssumption DEF CompleteSucceeded, CompleteAccepted
  <2>2. \/ job' = [job EXCEPT ![j] = [job[j] EXCEPT !.status = "SUCCEEDED", !.error = "NONE"]]
        \/ job' = [job EXCEPT ![j] = [job[j] EXCEPT !.status = "FAILED",
                                                    !.error = "SOURCE_CHANGED"]]
    BY <1>5 DEF CompleteSucceeded, Finish
  <2>3. CASE job' = [job EXCEPT ![j] = [job[j] EXCEPT !.status = "SUCCEEDED", !.error = "NONE"]]
    BY <2>1, <2>3 DEF JobRow, Exists, Absent
  <2>4. CASE job' = [job EXCEPT ![j] = [job[j] EXCEPT !.status = "FAILED",
                                                    !.error = "SOURCE_CHANGED"]]
    BY <2>1, <2>4 DEF JobRow, Exists, Absent
  <2> QED BY <2>2, <2>3, <2>4
<1>6. ASSUME NEW s \in Songs, NEW p \in Accounts, NEW j \in Jobs, NEW a \in Attempts,
             NEW r \in Result, NEW replace \in BOOLEAN, ImportWaveform(s, p, r, replace, j, a)
      PROVE  RowChecks'
  <2> DEFINE row == [(IF job[j].status = "NONE" THEN NewRow(s, r.source) ELSE job[j])
                       EXCEPT !.status = "SUCCEEDED", !.attempt = a, !.error = "NONE"]
  <2>1. job' = [job EXCEPT ![j] = row]
    BY <1>6 DEF ImportWaveform
  <2>2. row.status = "SUCCEEDED" /\ row.attempt = a /\ row.error = "NONE"
    BY DEF NewRow, JobRow
  <2> HIDE DEF row
  <2> QED BY <2>1, <2>2, NullsAssumption DEF Exists
<1>7. ASSUME NEW s \in Songs, DeleteSong(s) PROVE RowChecks'
  BY <1>7 DEF DeleteSong, JobRow, Exists, Absent
<1>8. CASE UNCHANGED job
  BY <1>8 DEF Exists
<1> QED
  BY <1>1, <1>2, <1>3, <1>4, <1>5, <1>6, <1>7, <1>8
  DEF JobsNext, RequestNext, RunnerNext, ImportNext, SongNext, jobVars, JoinJob, EditVideo

\* No operation is aborted by a check constraint of waveform_job.
THEOREM RowsLegal == JobsSpec => []RowChecks
<1>1. JobsInit => RowChecks
  BY NoRowType DEF JobsInit, RowChecks, Exists, Absent
<1>2. JobsTypeOK /\ RowChecks /\ [JobsNext]_jobVars => RowChecks'
  BY RowChecksNext
<1> QED BY <1>1, <1>2, TypeCorrect, PTL DEF JobsSpec

-----------------------------------------------------------------------------

\* The end of an open job informs all who asked for it.
LEMMA FinishInforms ==
    ASSUME JobsTypeOK, RequestersInformed, NEW j \in Jobs, NEW status \in Terminal,
           NEW error, job[j].status \in Active, Finish(j, status, error),
           requesters' = requesters
    PROVE  RequestersInformed'
<1> USE DEF JobsTypeOK, RequestersInformed
<1>1. notified[j] = {} /\ NotificationType(status) \in Types
  BY DEF NotificationType, Types
<1>2. notified' = [notified EXCEPT ![j] = requesters[j] \X {NotificationType(status)}]
  BY <1>1 DEF Finish, Notify
<1>3. job' = [job EXCEPT ![j] = [job[j] EXCEPT !.status = status, !.error = error]]
  BY DEF Finish
<1>4. job'[j].status = status /\ \A k \in Jobs \ {j} : job'[k] = job[k]
  BY <1>3 DEF JobRow
<1>5. ASSUME NEW k \in Jobs
      PROVE  /\ job'[k].status \in Terminal =>
                    notified'[k] = requesters'[k] \X {NotificationType(job'[k].status)}
             /\ job'[k].status \in Active \cup {"NONE"} => notified'[k] = {}
             /\ \E t \in Types : notified'[k] \subseteq Accounts \X {t}
  <2>1. CASE k = j
    <3>1. notified'[j] \subseteq Accounts \X {NotificationType(status)}
      BY <1>2
    <3> QED BY <1>1, <1>2, <1>4, <2>1, <3>1 DEF Active, Terminal
  <2>2. CASE k # j
    BY <1>2, <1>4, <2>2
  <2> QED BY <2>1, <2>2
<1> QED BY <1>5

\* Who is informed, from a state where everybody due is.
LEMMA InformedNext ==
    ASSUME JobsTypeOK, RequestersInformed, [JobsNext]_jobVars
    PROVE  RequestersInformed'
<1> USE DEF JobsTypeOK, RequestersInformed
<1>1. ASSUME NEW s \in Songs, NEW p \in Accounts, NEW j \in Jobs, CreateJob(s, p, j)
      PROVE  RequestersInformed'
  BY <1>1 DEF CreateJob, NewRow, Active, Terminal
<1>2. ASSUME NEW s \in Songs, NEW p \in Accounts, NEW j \in Jobs, JoinJob(s, p, j)
      PROVE  RequestersInformed'
  BY <1>2 DEF JoinJob, ActiveJobs, Active, Terminal
<1>3. ASSUME NEW j \in Jobs, RecordEnqueued(j) PROVE RequestersInformed'
  BY <1>3 DEF RecordEnqueued, JobRow
<1>4. ASSUME NEW j \in Jobs, NEW e, NEW a \in Attempts, StartJob(j, e, a)
      PROVE  RequestersInformed'
  BY <1>4 DEF StartJob, StartAccepted, JobRow, Active, Terminal
<1>5. ASSUME NEW j \in Jobs, NEW e, NEW x \in Errors, CompleteFailed(j, e, x)
      PROVE  RequestersInformed'
  BY <1>5, FinishInforms DEF CompleteFailed, CompleteAccepted, Terminal
<1>6. ASSUME NEW j \in Jobs, NEW e, NEW r \in Result, CompleteSucceeded(j, e, r)
      PROVE  RequestersInformed'
  BY <1>6, FinishInforms DEF CompleteSucceeded, CompleteAccepted, Terminal
<1>7. ASSUME NEW s \in Songs, NEW p \in Accounts, NEW j \in Jobs, NEW a \in Attempts,
             NEW r \in Result, NEW replace \in BOOLEAN, ImportWaveform(s, p, r, replace, j, a)
      PROVE  RequestersInformed'
  <2> DEFINE row == [(IF job[j].status = "NONE" THEN NewRow(s, r.source) ELSE job[j])
                       EXCEPT !.status = "SUCCEEDED", !.attempt = a, !.error = "NONE"]
             ps  == requesters[j] \cup {p}
  <2>1. job' = [job EXCEPT ![j] = row]
    BY <1>7 DEF ImportWaveform
  <2>2. row.status = "SUCCEEDED"
    BY DEF NewRow, JobRow
  <2>3. notified[j] = {}
    BY <1>7 DEF ImportWaveform, ActiveJobs
  <2>4. /\ notified' = [notified EXCEPT ![j] = ps \X {"WAVEFORM_SUCCEEDED"}]
        /\ requesters' = [requesters EXCEPT ![j] = ps]
        /\ ps \subseteq Accounts
    BY <1>7, <2>3 DEF ImportWaveform, Notify, NotificationType
  <2> HIDE DEF row, ps
  <2>5. ASSUME NEW k \in Jobs
        PROVE  /\ job'[k].status \in Terminal =>
                      notified'[k] = requesters'[k] \X {NotificationType(job'[k].status)}
               /\ job'[k].status \in Active \cup {"NONE"} => notified'[k] = {}
               /\ \E t \in Types : notified'[k] \subseteq Accounts \X {t}
    <3>1. CASE k = j
      <4>1. notified'[j] \subseteq Accounts \X {"WAVEFORM_SUCCEEDED"}
        BY <2>4
      <4> QED BY <2>1, <2>2, <2>4, <3>1, <4>1 DEF Active, NotificationType, Types
    <3>2. CASE k # j
      BY <2>1, <2>4, <3>2
    <3> QED BY <3>1, <3>2
  <2> QED BY <2>5
<1>8. ASSUME NEW s \in Songs, DeleteSong(s) PROVE RequestersInformed'
  BY <1>8 DEF DeleteSong, JobRow, Active, Terminal, Exists, Absent
<1>9. CASE UNCHANGED <<job, requesters, notified>>
  BY <1>9
<1> HIDE DEF JobsTypeOK, RequestersInformed
<1> QED
  BY <1>1, <1>2, <1>3, <1>4, <1>5, <1>6, <1>7, <1>8, <1>9
  DEF JobsNext, RequestNext, RunnerNext, ImportNext, SongNext, jobVars, EditVideo

\* Everybody who asked for a job is told how it ended, when it ends.
THEOREM AllInformed == JobsSpec => []RequestersInformed
<1>1. JobsInit => RequestersInformed
  BY NoRowType DEF JobsInit, RequestersInformed, Terminal, Types
<1>2. JobsTypeOK /\ RequestersInformed /\ [JobsNext]_jobVars => RequestersInformed'
  BY InformedNext
<1> QED BY <1>1, <1>2, TypeCorrect, PTL DEF JobsSpec

-----------------------------------------------------------------------------

\* A job that succeeded stays so, unless its song is deleted.
LEMMA SuccessStays ==
    ASSUME JobsTypeOK, JobsNext, NEW j \in Jobs, job[j].status \in Terminal
    PROVE  \/ /\ job'[j].song = job[j].song /\ job'[j].video = job[j].video
              /\ job'[j].status = job[j].status /\ job'[j].attempt = job[j].attempt
              /\ job'[j].error = job[j].error
              /\ requesters'[j] = requesters[j] /\ notified'[j] = notified[j]
           \/ /\ DeleteSong(job[j].song)
              /\ job'[j].status = "DELETED" /\ notified'[j] = notified[j]
<1> DEFINE Goal ==
           \/ /\ job'[j].song = job[j].song /\ job'[j].video = job[j].video
              /\ job'[j].status = job[j].status /\ job'[j].attempt = job[j].attempt
              /\ job'[j].error = job[j].error
              /\ requesters'[j] = requesters[j] /\ notified'[j] = notified[j]
           \/ /\ DeleteSong(job[j].song)
              /\ job'[j].status = "DELETED" /\ notified'[j] = notified[j]
<1> SUFFICES Goal
  OBVIOUS
<1>0. job[j].status \notin Active /\ job[j].status \notin Absent
  BY DEF Active, Terminal, Absent
<1>1. ASSUME NEW s \in Songs, NEW p \in Accounts, NEW k \in Jobs,
             CreateJob(s, p, k) \/ JoinJob(s, p, k)
      PROVE  Goal
  <2>1. k # j
    BY <1>0, <1>1 DEF CreateJob, JoinJob, ActiveJobs, Absent
  <2> QED BY <1>1, <2>1 DEF CreateJob, JoinJob, JobsTypeOK
<1>2. ASSUME NEW k \in Jobs, RecordEnqueued(k) PROVE Goal
  BY <1>2 DEF RecordEnqueued, JobsTypeOK, JobRow
<1>3. ASSUME NEW k \in Jobs, NEW e, NEW a \in Attempts, StartJob(k, e, a) PROVE Goal
  BY <1>0, <1>3 DEF StartJob, StartAccepted, JobsTypeOK
<1>4. ASSUME NEW k \in Jobs, NEW e, NEW x \in Errors, CompleteFailed(k, e, x) PROVE Goal
  BY <1>0, <1>4 DEF CompleteFailed, CompleteAccepted, Finish, Notify, JobsTypeOK
<1>5. ASSUME NEW k \in Jobs, NEW e, NEW r \in Result, CompleteSucceeded(k, e, r) PROVE Goal
  BY <1>0, <1>5 DEF CompleteSucceeded, CompleteAccepted, Finish, Notify, JobsTypeOK
<1>6. ASSUME NEW s \in Songs, NEW p \in Accounts, NEW k \in Jobs, NEW a \in Attempts,
             NEW r \in Result, NEW replace \in BOOLEAN, ImportWaveform(s, p, r, replace, k, a)
      PROVE  Goal
  <2>1. k # j
    BY <1>0, <1>6 DEF ImportWaveform, ActiveJobs, Absent
  <2> DEFINE row == [(IF job[k].status = "NONE" THEN NewRow(s, r.source) ELSE job[k])
                       EXCEPT !.status = "SUCCEEDED", !.attempt = a, !.error = "NONE"]
  <2>2. job' = [job EXCEPT ![k] = row]
    BY <1>6 DEF ImportWaveform
  <2> HIDE DEF row
  <2> QED BY <1>6, <2>1, <2>2 DEF ImportWaveform, Notify, JobsTypeOK
<1>7. ASSUME NEW s \in Songs, DeleteSong(s) PROVE Goal
  <2>1. CASE job[j].song = s
    <3>1. j \in {k \in Jobs : job[k].song = s /\ Exists(k)}
      BY <1>0, <2>1 DEF Exists
    <3>2. job'[j].status = "DELETED"
      BY <1>7, <3>1 DEF DeleteSong, JobsTypeOK, JobRow
    <3> QED BY <1>7, <2>1, <3>2 DEF DeleteSong
  <2>2. CASE job[j].song # s
    BY <1>7, <2>2 DEF DeleteSong, JobsTypeOK
  <2> QED BY <2>1, <2>2
<1>8. CASE UNCHANGED <<job, requesters, notified>>
  BY <1>8
<1> HIDE DEF Goal
<1> QED
  BY <1>1, <1>2, <1>3, <1>4, <1>5, <1>6, <1>7, <1>8
  DEF JobsNext, RequestNext, RunnerNext, ImportNext, SongNext, EditVideo

\* Ended jobs stay ended: no request, start, completion or upload touches them.
THEOREM EndedForGood == JobsSpec => TerminalStable
<1>1. JobsTypeOK /\ [JobsNext]_jobVars => [\A j \in Jobs : SettledOnce(j)]_jobVars
  <2> SUFFICES ASSUME JobsTypeOK, JobsNext, NEW j \in Jobs, job[j].status \in Terminal
               PROVE  /\ notified'[j] = notified[j]
                      /\ \/ job'[j].status = "DELETED" /\ song'[job[j].song] = NoSong
                         \/ /\ [job'[j] EXCEPT !.enqueued = job[j].enqueued] = job[j]
                            /\ requesters'[j] = requesters[j]
    BY DEF SettledOnce
  <2>1. job[j] \in JobRow /\ job'[j] \in JobRow
    BY NextType DEF JobsTypeOK
  <2>2. CASE /\ job'[j].song = job[j].song /\ job'[j].video = job[j].video
             /\ job'[j].status = job[j].status /\ job'[j].attempt = job[j].attempt
             /\ job'[j].error = job[j].error
             /\ requesters'[j] = requesters[j] /\ notified'[j] = notified[j]
    BY <2>1, <2>2 DEF JobRow
  <2>3. CASE /\ DeleteSong(job[j].song)
             /\ job'[j].status = "DELETED" /\ notified'[j] = notified[j]
    BY <2>1, <2>3 DEF DeleteSong, JobsTypeOK, JobRow
  <2> QED BY <2>2, <2>3, SuccessStays
<1> QED BY <1>1, TypeCorrect, PTL DEF JobsSpec, TerminalStable

-----------------------------------------------------------------------------

\* A succeeded job of the waveform's song and video, from a state that has one.
LEMMA BackedNext ==
    ASSUME JobsTypeOK, WaveformBacked, [JobsNext]_jobVars
    PROVE  WaveformBacked'
<1> DEFINE Backs(j, s, v) == /\ job'[j].song = s /\ job'[j].video = v
                             /\ job'[j].status = "SUCCEEDED"
<1> SUFFICES ASSUME NEW s \in Songs, waveform'[s] # NoWaveform
             PROVE  /\ waveform'[s].data.source = waveform'[s].video
                    /\ \E j \in Jobs : Backs(j, s, waveform'[s].video)
  BY DEF WaveformBacked
<1> DEFINE Goal == /\ waveform'[s].data.source = waveform'[s].video
                   /\ \E j \in Jobs : Backs(j, s, waveform'[s].video)
<1>1. CASE JobsNext /\ waveform'[s] = waveform[s]
  <2>1. PICK j \in Jobs : /\ job[j].song = s /\ job[j].video = waveform[s].video
                          /\ job[j].status = "SUCCEEDED"
    BY <1>1 DEF WaveformBacked
  <2>2. ~DeleteSong(s)
    BY <1>1 DEF DeleteSong, JobsTypeOK
  <2>3. Backs(j, s, waveform[s].video)
    BY <1>1, <2>1, <2>2, SuccessStays DEF Terminal
  <2> QED BY <1>1, <2>3 DEF WaveformBacked
<1>2. ASSUME NEW j \in Jobs, NEW e, NEW r \in Result, CompleteSucceeded(j, e, r),
             waveform'[s] # waveform[s]
      PROVE  Goal
  <2>1. /\ SourceMatches(j, r)
        /\ StoreWaveform(job[j].song, job[j].video, r)
        /\ Finish(j, "SUCCEEDED", "NONE")
    BY <1>2 DEF CompleteSucceeded
  <2>2. job[j].song = s /\ waveform'[s] = [video |-> job[j].video, data |-> r]
    BY <1>2, <2>1 DEF StoreWaveform, JobsTypeOK
  <2>3. Backs(j, s, job[j].video)
    BY <2>1, <2>2 DEF Finish, JobsTypeOK, JobRow
  <2> QED BY <2>1, <2>2, <2>3 DEF SourceMatches
<1>3. ASSUME NEW t \in Songs, NEW p \in Accounts, NEW j \in Jobs, NEW a \in Attempts,
             NEW r \in Result, NEW replace \in BOOLEAN, ImportWaveform(t, p, r, replace, j, a),
             waveform'[s] # waveform[s]
      PROVE  Goal
  <2>1. t = s /\ waveform'[s] = [video |-> r.source, data |-> r]
    BY <1>3 DEF ImportWaveform, StoreWaveform, JobsTypeOK
  <2> DEFINE base == IF job[j].status = "NONE" THEN NewRow(s, r.source) ELSE job[j]
             row  == [base EXCEPT !.status = "SUCCEEDED", !.attempt = a, !.error = "NONE"]
  <2>2. base.song = s /\ base.video = r.source
    BY <1>3, <2>1 DEF ImportWaveform, ActiveJobs, NewRow
  <2>3. base \in JobRow
    BY NewRowType DEF Result, JobsTypeOK
  <2>4. row.song = s /\ row.video = r.source /\ row.status = "SUCCEEDED"
    BY <2>2, <2>3 DEF JobRow
  <2>5. job' = [job EXCEPT ![j] = row]
    BY <1>3, <2>1 DEF ImportWaveform
  <2> HIDE DEF row
  <2>6. Backs(j, s, r.source)
    BY <2>4, <2>5 DEF JobsTypeOK
  <2> QED BY <2>1, <2>6
<1>4. ASSUME NEW t \in Songs, DeleteSong(t) PROVE waveform'[s] = waveform[s]
  BY <1>4 DEF DeleteSong, JobsTypeOK
<1>5. CASE UNCHANGED jobVars
  BY <1>5 DEF jobVars, WaveformBacked
<1> HIDE DEF Goal, Backs
<1>6. ASSUME JobsNext, waveform'[s] # waveform[s]
      PROVE  \/ \E j \in Jobs, e \in Attempts, r \in Result : CompleteSucceeded(j, e, r)
             \/ \E t \in Songs, p \in Accounts, j \in Jobs, a \in Attempts, r \in Result,
                   replace \in BOOLEAN : ImportWaveform(t, p, r, replace, j, a)
  <2>1. CASE RequestNext
    BY <1>6, <2>1 DEF RequestNext, CreateJob, JoinJob
  <2>2. CASE RunnerNext
    BY <1>6, <2>2 DEF RunnerNext, RecordEnqueued, StartJob, CompleteFailed
  <2>3. CASE ImportNext
    BY <2>3 DEF ImportNext
  <2>4. CASE SongNext
    BY <1>4, <1>6, <2>4 DEF SongNext, EditVideo
  <2> QED BY <1>6, <2>1, <2>2, <2>3, <2>4 DEF JobsNext
<1> USE DEF Goal
<1>7. CASE JobsNext
  BY <1>1, <1>2, <1>3, <1>6, <1>7
<1> QED BY <1>5, <1>7

\* A stored waveform is of the video its row names and of a job that succeeded.
THEOREM WaveformsBacked == JobsSpec => []WaveformBacked
<1>1. JobsInit => WaveformBacked
  BY DEF JobsInit, WaveformBacked
<1>2. JobsTypeOK /\ WaveformBacked /\ [JobsNext]_jobVars => WaveformBacked'
  BY BackedNext
<1> QED BY <1>1, <1>2, TypeCorrect, PTL DEF JobsSpec

-----------------------------------------------------------------------------

\* Notifications of an outcome, read back as outcomes.
LEMMA ToldOutcome ==
    ASSUME NEW ps \in SUBSET Accounts, NEW status \in Terminal
    PROVE  {po \in Accounts \X Terminal :
               <<po[1], NotificationType(po[2])>> \in ps \X {NotificationType(status)}}
           = ps \X {status}
BY DEF NotificationType, Terminal

\* What the abstract state makes of the end of an open job.
LEMMA FinishRefines ==
    ASSUME JobsTypeOK, RequestersInformed, NEW j \in Jobs, NEW status \in Terminal,
           NEW error, job[j].status \in Active, Finish(j, status, error),
           requesters' = requesters
    PROVE  Lifecycle!Finish(j, status)
<1> USE DEF JobsTypeOK
<1>1. job' = [job EXCEPT ![j] = [job[j] EXCEPT !.status = status, !.error = error]]
  BY DEF Finish
<1>2. /\ job'[j].status = status /\ job'[j].song = job[j].song /\ job'[j].video = job[j].video
      /\ \A k \in Jobs \ {j} : job'[k] = job[k]
  BY <1>1 DEF JobRow
<1>3. notified' = [notified EXCEPT ![j] = requesters[j] \X {NotificationType(status)}]
  BY DEF RequestersInformed, Finish, Notify
<1>4. Told(j)' = requesters[j] \X {status}
  BY <1>3, ToldOutcome DEF Told
<1>5. ASSUME NEW k \in Jobs, k # j PROVE Told(k)' = Told(k)
  BY <1>3, <1>5 DEF Told
<1>6. [k \in Jobs |-> job[k].status]' = [[k \in Jobs |-> job[k].status] EXCEPT ![j] = status]
  BY <1>2
<1>7. [k \in Jobs |-> <<job[k].song, job[k].video>>]' =
      [k \in Jobs |-> <<job[k].song, job[k].video>>]
  BY <1>2
<1>8. [k \in Jobs |-> Told(k)]' =
      [[k \in Jobs |-> Told(k)] EXCEPT ![j] = requesters[j] \X {status}]
  BY <1>4, <1>5
<1> QED BY <1>6, <1>7, <1>8 DEF Lifecycle!Finish, Lifecycle!Open, Active

\* Notifications that stay leave what was told as it was.
LEMMA ToldStays ==
    ASSUME notified' = notified
    PROVE  [k \in Jobs |-> Told(k)]' = [k \in Jobs |-> Told(k)]
BY DEF Told

\* An upload ends the open job, or a new one, at once.
LEMMA ImportRefines ==
    ASSUME JobsTypeOK, RequestersInformed, NEW s \in Songs, NEW p \in Accounts, NEW j \in Jobs,
           NEW a \in Attempts, NEW r \in Result, NEW replace \in BOOLEAN,
           ImportWaveform(s, p, r, replace, j, a)
    PROVE  Lifecycle!Supply(j, <<s, r.source>>, p)
<1> USE DEF JobsTypeOK
<1> DEFINE base == IF job[j].status = "NONE" THEN NewRow(s, r.source) ELSE job[j]
           row  == [base EXCEPT !.status = "SUCCEEDED", !.attempt = a, !.error = "NONE"]
           ps   == requesters[j] \cup {p}
<1>1. base \in JobRow /\ base.song = s /\ base.video = r.source
  BY NewRowType DEF Result, ImportWaveform, ActiveJobs, NewRow
<1>2. row.song = s /\ row.video = r.source /\ row.status = "SUCCEEDED"
  BY <1>1 DEF JobRow
<1>3. job' = [job EXCEPT ![j] = row]
  BY DEF ImportWaveform
<1> HIDE DEF row
<1>4. notified[j] = {}
  BY DEF RequestersInformed, ImportWaveform, ActiveJobs
<1>5. /\ notified' = [notified EXCEPT ![j] = ps \X {NotificationType("SUCCEEDED")}]
      /\ requesters' = [requesters EXCEPT ![j] = ps]
  BY <1>4 DEF ImportWaveform, Notify
<1>6. Told(j)' = ps \X {"SUCCEEDED"}
  BY <1>5, ToldOutcome DEF Told, Terminal
<1>7. ASSUME NEW k \in Jobs, k # j PROVE Told(k)' = Told(k)
  BY <1>5, <1>7 DEF Told
<1>8. [k \in Jobs |-> job[k].status]' =
      [[k \in Jobs |-> job[k].status] EXCEPT ![j] = "SUCCEEDED"]
  BY <1>2, <1>3
<1>9. [k \in Jobs |-> Told(k)]' = [[k \in Jobs |-> Told(k)] EXCEPT ![j] = ps \X {"SUCCEEDED"}]
  BY <1>6, <1>7
<1>10. [k \in Jobs |-> <<job[k].song, job[k].video>>]' =
       [[k \in Jobs |-> <<job[k].song, job[k].video>>] EXCEPT ![j] = <<s, r.source>>]
  BY <1>2, <1>3
<1>11. CASE j \in ActiveJobs(s, r.source)
  <2>1. j \in Lifecycle!OpenFor(<<s, r.source>>)
    BY <1>11 DEF ActiveJobs, Active, Lifecycle!OpenFor, Lifecycle!Open
  <2>2. [k \in Jobs |-> <<job[k].song, job[k].video>>]' =
        [k \in Jobs |-> <<job[k].song, job[k].video>>]
    BY <1>10, <1>11 DEF ActiveJobs
  <2> QED BY <1>5, <1>8, <1>9, <2>1, <2>2 DEF Lifecycle!Supply
<1>12. CASE job[j].status = "NONE" /\ ActiveJobs(s, r.source) = {}
  <2>1. Lifecycle!OpenFor(<<s, r.source>>) = {}
    BY <1>12 DEF ActiveJobs, Active, Lifecycle!OpenFor, Lifecycle!Open
  <2> QED BY <1>5, <1>8, <1>9, <1>10, <1>12, <2>1 DEF Lifecycle!Supply
<1> QED BY <1>11, <1>12 DEF ImportWaveform

\* Every step of the service is a step of the abstract job life, or none.
LEMMA StepRefines ==
    ASSUME JobsTypeOK, RequestersInformed, [JobsNext]_jobVars
    PROVE  [Lifecycle!Next]_(Lifecycle!vars)
<1> USE DEF JobsTypeOK
<1> DEFINE Still == UNCHANGED Lifecycle!vars
<1>1. ASSUME NEW s \in Songs, NEW p \in Accounts, NEW j \in Jobs, CreateJob(s, p, j)
      PROVE  Lifecycle!Ask(j, <<s, song[s]>>, p)
  <2>1. job' = [job EXCEPT ![j] = NewRow(s, song[s])]
    BY <1>1 DEF CreateJob
  <2>2. [k \in Jobs |-> job[k].status]' =
        [[k \in Jobs |-> job[k].status] EXCEPT ![j] = "QUEUED"]
    BY <2>1 DEF NewRow
  <2>3. [k \in Jobs |-> <<job[k].song, job[k].video>>]' =
        [[k \in Jobs |-> <<job[k].song, job[k].video>>] EXCEPT ![j] = <<s, song[s]>>]
    BY <2>1 DEF NewRow
  <2>4. Lifecycle!OpenFor(<<s, song[s]>>) = {}
    BY <1>1 DEF CreateJob, ActiveJobs, Active, Lifecycle!OpenFor, Lifecycle!Open
  <2>5. [k \in Jobs |-> Told(k)]' = [k \in Jobs |-> Told(k)]
    BY <1>1, ToldStays DEF CreateJob
  <2> QED BY <1>1, <2>2, <2>3, <2>4, <2>5 DEF CreateJob, Lifecycle!Ask
<1>2. ASSUME NEW s \in Songs, NEW p \in Accounts, NEW j \in Jobs, JoinJob(s, p, j)
      PROVE  Lifecycle!Ask(j, <<s, song[s]>>, p)
  <2>1. j \in Lifecycle!OpenFor(<<s, song[s]>>)
    BY <1>2 DEF JoinJob, ActiveJobs, Active, Lifecycle!OpenFor, Lifecycle!Open
  <2>2. [k \in Jobs |-> Told(k)]' = [k \in Jobs |-> Told(k)]
    BY <1>2, ToldStays DEF JoinJob
  <2> QED BY <1>2, <2>1, <2>2 DEF JoinJob, Lifecycle!Ask
<1>3. ASSUME NEW j \in Jobs, RecordEnqueued(j) PROVE Still
  <2>1. \A k \in Jobs : /\ job'[k].status = job[k].status
                        /\ job'[k].song = job[k].song /\ job'[k].video = job[k].video
    BY <1>3 DEF RecordEnqueued, JobRow
  <2>2. [k \in Jobs |-> Told(k)]' = [k \in Jobs |-> Told(k)]
    BY <1>3, ToldStays DEF RecordEnqueued
  <2> QED BY <1>3, <2>1, <2>2 DEF RecordEnqueued, Lifecycle!vars
<1>4. ASSUME NEW j \in Jobs, NEW e, NEW a \in Attempts, StartJob(j, e, a)
      PROVE  Lifecycle!Run(j)
  <2>1. job' = [job EXCEPT ![j] = [job[j] EXCEPT !.status = "RUNNING", !.attempt = a]]
    BY <1>4 DEF StartJob
  <2>2. /\ job'[j].status = "RUNNING" /\ job'[j].song = job[j].song
        /\ job'[j].video = job[j].video /\ \A k \in Jobs \ {j} : job'[k] = job[k]
    BY <2>1 DEF JobRow
  <2>3. [k \in Jobs |-> Told(k)]' = [k \in Jobs |-> Told(k)]
    BY <1>4, ToldStays DEF StartJob
  <2>4. job[j].status \in Lifecycle!Open /\ requesters' = requesters
    BY <1>4 DEF StartJob, StartAccepted, Active, Lifecycle!Open
  <2>5. [k \in Jobs |-> job[k].status]' =
        [[k \in Jobs |-> job[k].status] EXCEPT ![j] = "RUNNING"]
    BY <2>2
  <2>6. [k \in Jobs |-> <<job[k].song, job[k].video>>]' =
        [k \in Jobs |-> <<job[k].song, job[k].video>>]
    BY <2>2
  <2> QED BY <2>3, <2>4, <2>5, <2>6 DEF Lifecycle!Run
<1>5. ASSUME NEW j \in Jobs, NEW e, NEW x \in Errors, CompleteFailed(j, e, x)
      PROVE  Lifecycle!Finish(j, "FAILED")
  BY <1>5, FinishRefines DEF CompleteFailed, CompleteAccepted, Terminal
<1>6. ASSUME NEW j \in Jobs, NEW e, NEW r \in Result, CompleteSucceeded(j, e, r)
      PROVE  Lifecycle!Finish(j, "SUCCEEDED") \/ Lifecycle!Finish(j, "FAILED")
  BY <1>6, FinishRefines DEF CompleteSucceeded, CompleteAccepted, Terminal
<1>7. ASSUME NEW s \in Songs, DeleteSong(s)
      PROVE  Lifecycle!Remove({k \in Jobs : job[k].song = s /\ Exists(k)})
  <2> DEFINE D == {k \in Jobs : job[k].song = s /\ Exists(k)}
  <2>1. \A k \in Jobs : /\ job'[k].song = job[k].song /\ job'[k].video = job[k].video
                        /\ job'[k].status = IF k \in D THEN "DELETED" ELSE job[k].status
    BY <1>7 DEF DeleteSong, JobRow
  <2>2. \A k \in D : job[k].status \in Lifecycle!Open \cup Lifecycle!Outcomes
    BY DEF Exists, JobRow, Active, Terminal, Absent, Lifecycle!Open, Lifecycle!Outcomes
  <2>3. [k \in Jobs |-> Told(k)]' = [k \in Jobs |-> Told(k)]
    BY <1>7, ToldStays DEF DeleteSong
  <2>4. requesters' = [k \in Jobs |-> IF k \in D THEN {} ELSE requesters[k]]
    BY <1>7 DEF DeleteSong
  <2> HIDE DEF D
  <2>5. [k \in Jobs |-> job[k].status]' =
        [k \in Jobs |-> IF k \in D THEN "DELETED" ELSE [i \in Jobs |-> job[i].status][k]]
    BY <2>1
  <2>6. [k \in Jobs |-> <<job[k].song, job[k].video>>]' =
        [k \in Jobs |-> <<job[k].song, job[k].video>>]
    BY <2>1
  <2>7. \A k \in D : [i \in Jobs |-> job[i].status][k]
                        \in Lifecycle!Open \cup Lifecycle!Outcomes
    BY <2>2 DEF D
  <2>8. Lifecycle!Remove(D)
    BY <2>3, <2>4, <2>5, <2>6, <2>7 DEF Lifecycle!Remove
  <2> QED BY <2>8 DEF D
<1>8. CASE UNCHANGED <<job, requesters, notified>>
  <2>1. [k \in Jobs |-> Told(k)]' = [k \in Jobs |-> Told(k)]
    BY <1>8, ToldStays
  <2> QED BY <1>8, <2>1 DEF Lifecycle!vars
<1>9. ASSUME NEW s \in Songs, NEW p \in Accounts, NEW j \in Jobs, NEW v \in Videos,
             Lifecycle!Ask(j, <<s, v>>, p) \/ Lifecycle!Supply(j, <<s, v>>, p)
      PROVE  Lifecycle!Next
  BY <1>9 DEF Lifecycle!Next
<1>10. ASSUME NEW j \in Jobs,
              \/ Lifecycle!Run(j)
              \/ Lifecycle!Finish(j, "SUCCEEDED") \/ Lifecycle!Finish(j, "FAILED")
       PROVE  Lifecycle!Next
  BY <1>10 DEF Lifecycle!Next, Lifecycle!Outcomes
<1>11. ASSUME NEW D \in SUBSET Jobs, Lifecycle!Remove(D) PROVE Lifecycle!Next
  BY <1>11 DEF Lifecycle!Next
<1> HIDE DEF JobsTypeOK
<1>12. CASE RequestNext
  BY <1>1, <1>2, <1>9, <1>12, AllowedAssumption DEF RequestNext, CreateJob, JoinJob
<1>13. CASE RunnerNext
  <2>1. PICK j \in Jobs :
          \/ RecordEnqueued(j)
          \/ \E e \in Attempts \cup {NoAttempt}, a \in Attempts : StartJob(j, e, a)
          \/ \E e \in Attempts \cup {NoAttempt}, x \in Errors : CompleteFailed(j, e, x)
          \/ \E e \in Attempts, r \in Result : CompleteSucceeded(j, e, r)
    BY <1>13 DEF RunnerNext
  <2>2. CASE RecordEnqueued(j)
    BY <1>3, <2>2
  <2>3. CASE \E e \in Attempts \cup {NoAttempt}, a \in Attempts : StartJob(j, e, a)
    BY <1>4, <1>10, <2>3
  <2>4. CASE \E e \in Attempts \cup {NoAttempt}, x \in Errors : CompleteFailed(j, e, x)
    BY <1>5, <1>10, <2>4
  <2>5. CASE \E e \in Attempts, r \in Result : CompleteSucceeded(j, e, r)
    BY <1>6, <1>10, <2>5
  <2> QED BY <2>1, <2>2, <2>3, <2>4, <2>5
<1>14. CASE ImportNext
  <2>1. PICK s \in Songs, p \in Accounts, j \in Jobs, a \in Attempts, r \in Result,
             replace \in BOOLEAN : ImportWaveform(s, p, r, replace, j, a)
    BY <1>14 DEF ImportNext
  <2>2. Lifecycle!Supply(j, <<s, r.source>>, p)
    BY <2>1, ImportRefines
  <2>3. r.source \in Videos
    BY DEF Result
  <2> QED BY <1>9, <2>2, <2>3
<1>15. CASE SongNext
  <2>1. PICK s \in Songs : DeleteSong(s) \/ \E v \in Videos \cup {NoVideo} : EditVideo(s, v)
    BY <1>15 DEF SongNext
  <2>2. CASE DeleteSong(s)
    <3> DEFINE D == {k \in Jobs : job[k].song = s /\ Exists(k)}
    <3>1. Lifecycle!Remove(D)
      BY <1>7, <2>2
    <3>2. D \in SUBSET Jobs
      OBVIOUS
    <3> HIDE DEF D
    <3>3. PICK d \in SUBSET Jobs : d = D
      BY <3>2
    <3>4. Lifecycle!Remove(d)
      BY <3>1, <3>3 DEF Lifecycle!Remove
    <3> QED BY <1>11, <3>4
  <2>3. CASE \E v \in Videos \cup {NoVideo} : EditVideo(s, v)
    BY <1>8, <2>3 DEF EditVideo
  <2> QED BY <2>1, <2>2, <2>3
<1>16. CASE UNCHANGED jobVars
  BY <1>8, <1>16 DEF jobVars
<1> QED BY <1>12, <1>13, <1>14, <1>15, <1>16 DEF JobsNext

\* The job service keeps the promises of JobLifecycle.
THEOREM Refinement == JobsSpec => ImplementsLifecycle
<1>1. JobsInit => Lifecycle!Init
  <2> SUFFICES ASSUME JobsInit PROVE Lifecycle!Init
    OBVIOUS
  <2>1. \A j \in Jobs : job[j] \in JobRow /\ job[j].status = "NONE" /\ Told(j) = {}
    BY NoRowType DEF JobsInit, Told
  <2>2. [j \in Jobs |-> <<job[j].song, job[j].video>>] \in [Jobs -> Songs \X Videos]
    BY <2>1 DEF JobRow
  <2>3. [j \in Jobs |-> job[j].status] = [j \in Jobs |-> "NONE"]
    BY <2>1
  <2>4. [j \in Jobs |-> Told(j)] = [j \in Jobs |-> {}]
    BY <2>1
  <2> QED BY <2>2, <2>3, <2>4 DEF JobsInit, Lifecycle!Init
<1>2. JobsTypeOK /\ RequestersInformed /\ [JobsNext]_jobVars => [Lifecycle!Next]_(Lifecycle!vars)
  BY StepRefines
<1> QED BY <1>1, <1>2, TypeCorrect, AllInformed, PTL
        DEF JobsSpec, ImplementsLifecycle, Lifecycle!Spec

=============================================================================
