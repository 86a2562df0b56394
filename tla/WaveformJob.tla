----------------------------- MODULE WaveformJob -----------------------------
(***************************************************************************)
(* The waveform job service of packages/server                             *)
(* (services/waveform-service.ts, repositories/waveform-repository.ts) over *)
(* its tables waveform_job, waveform_job_requester, waveform and the rows  *)
(* it writes to notification.                                              *)
(*                                                                         *)
(* Every operation takes the row lock of its song first (lockWaveformSong) *)
(* and keeps it until commit, and each of song editing, song deletion and  *)
(* the waveform operations writes or locks that row; so one action here is *)
(* one committed transaction.  An operation that throws changes nothing    *)
(* and is not an action.                                                   *)
(***************************************************************************)
EXTENDS FiniteSets

CONSTANTS Songs,      \* song ids
          Videos,     \* well-formed YouTube ids
          Jobs,       \* job ids (createEntityId / v7)
          Attempts,   \* attempt ids (createEntityId)
          Accounts,   \* administrator accounts
          Contents,   \* what a waveform result holds besides its source
          Allowed,    \* config.allowedVideoIds of the Console
          NoAttempt,  \* attempt_id is null
          NoVideo,    \* youtube_id is null or not a well-formed id
          NoSong,     \* the song row does not exist
          NoWaveform  \* the song has no waveform row

ASSUME AllowedAssumption == Allowed \subseteq Videos
ASSUME SomethingAssumption == Songs # {} /\ Videos # {}
ASSUME NullsAssumption ==
    /\ NoAttempt \notin Attempts
    /\ NoVideo \notin Videos
    /\ NoSong \notin Videos \cup {NoVideo}

VARIABLES song,       \* song[s]: the row's youtube_id, or NoSong
          job,        \* job[j]: the waveform_job row
          requesters, \* requesters[j]: accounts in waveform_job_requester
          notified,   \* notified[j]: <<recipient, type>> of j's notifications
          waveform,   \* waveform[s]: the waveform row of song s
          issued      \* attempt ids ever generated

jobVars == <<song, job, requesters, notified, waveform, issued>>

-----------------------------------------------------------------------------

Active   == {"QUEUED", "RUNNING"}
Terminal == {"SUCCEEDED", "FAILED"}
Absent   == {"NONE", "DELETED"}      \* no such row (not yet, no longer)
Errors   == {"ENQUEUE_FAILED", "PROCESSING_FAILED", "DLQ", "DELIVERY_EXPIRED",
             "SOURCE_CHANGED"}
Types    == {"WAVEFORM_SUCCEEDED", "WAVEFORM_FAILED"}

\* startedAt is set exactly where attemptId is, and finishedAt exactly where
\* the status becomes terminal, so neither has a field of its own.
JobRow == [song : Songs, video : Videos, status : Active \cup Terminal \cup Absent,
           attempt : Attempts \cup {NoAttempt}, error : Errors \cup {"NONE"},
           enqueued : BOOLEAN]

Result      == [source : Videos, content : Contents]
WaveformRow == [video : Videos, data : Result]

JobsTypeOK ==
    /\ song \in [Songs -> Videos \cup {NoVideo, NoSong}]
    /\ job \in [Jobs -> JobRow]
    /\ requesters \in [Jobs -> SUBSET Accounts]
    /\ notified \in [Jobs -> SUBSET (Accounts \X Types)]
    /\ waveform \in [Songs -> WaveformRow \cup {NoWaveform}]
    /\ issued \subseteq Attempts

Exists(j) == job[j].status \notin Absent

ActiveJobs(s, v) ==
    {j \in Jobs : job[j].song = s /\ job[j].video = v /\ job[j].status \in Active}

\* The row that insertWaveformJob creates.
NewRow(s, v) == [song |-> s, video |-> v, status |-> "QUEUED", attempt |-> NoAttempt,
                 error |-> "NONE", enqueued |-> FALSE]

\* What job[j] holds before j is inserted; nothing reads its song or video.
NoRow == [NewRow(CHOOSE s \in Songs : TRUE, CHOOSE v \in Videos : TRUE)
            EXCEPT !.status = "NONE"]

NotificationType(status) ==
    IF status = "SUCCEEDED" THEN "WAVEFORM_SUCCEEDED" ELSE "WAVEFORM_FAILED"

\* recordWaveformNotification for each account of ps; the unique key
\* (recipient, type, eventKey) makes a second insertion of the same row vanish.
Notify(j, ps, status) ==
    notified' = [notified EXCEPT ![j] = @ \cup (ps \X {NotificationType(status)})]

StoreWaveform(s, v, r) ==
    waveform' = [waveform EXCEPT ![s] = [video |-> v, data |-> r]]

JobsInit ==
    /\ song \in [Songs -> Videos \cup {NoVideo}]
    /\ job = [j \in Jobs |-> NoRow]
    /\ requesters = [j \in Jobs |-> {}]
    /\ notified = [j \in Jobs |-> {}]
    /\ waveform = [s \in Songs |-> NoWaveform]
    /\ issued = {}

-----------------------------------------------------------------------------

\* Seeded faults.  An operator whose name ends in "Fault" is a faulty variant
\* of the operator right after it, with a bug such code plausibly has; no
\* definition uses it.  Each shows that a property below can be violated.

\* Fault: an insertion that does not look for an active job first.
CreateTwinFault(s, p, j) ==
    /\ song[s] \in Allowed
    /\ job[j].status = "NONE"
    /\ job' = [job EXCEPT ![j] = NewRow(s, song[s])]
    /\ requesters' = [requesters EXCEPT ![j] = @ \cup {p}]
    /\ UNCHANGED <<song, notified, waveform, issued>>

\* requestWaveformJob without an active job for the song's current video.
CreateJob(s, p, j) ==
    /\ song[s] \in Allowed
    /\ ActiveJobs(s, song[s]) = {}
    /\ job[j].status = "NONE"
    /\ job' = [job EXCEPT ![j] = NewRow(s, song[s])]
    /\ requesters' = [requesters EXCEPT ![j] = @ \cup {p}]
    /\ UNCHANGED <<song, notified, waveform, issued>>

\* Fault: the job found before the lock is joined even if it ended meanwhile.
JoinEndedFault(s, p, j) ==
    /\ song[s] \in Allowed
    /\ Exists(j) /\ job[j].song = s /\ job[j].video = song[s]
    /\ requesters' = [requesters EXCEPT ![j] = @ \cup {p}]
    /\ UNCHANGED <<song, job, notified, waveform, issued>>

\* requestWaveformJob that finds an active job and only adds a requester.
JoinJob(s, p, j) ==
    /\ song[s] \in Allowed
    /\ j \in ActiveJobs(s, song[s])
    /\ requesters' = [requesters EXCEPT ![j] = @ \cup {p}]
    /\ UNCHANGED <<song, job, notified, waveform, issued>>

\* recordWaveformEnqueued: the first confirmation stays, the status is not
\* looked at and not touched.
RecordEnqueued(j) ==
    /\ Exists(j)
    /\ job' = [job EXCEPT ![j].enqueued = TRUE]
    /\ UNCHANGED <<song, requesters, notified, waveform, issued>>

\* Fault: the attempt is compared, the terminal statuses are not looked at.
StartEndedFault(j, expected) ==
    /\ Exists(j)
    /\ job[j].attempt = expected
    /\ song[job[j].song] = job[j].video

\* Fault: the expected attempt is not compared.
StartUnfencedFault(j, expected) ==
    /\ job[j].status \in Active
    /\ song[job[j].song] = job[j].video

\* The conditions under which startWaveformJob answers started: true.
StartAccepted(j, expected) ==
    /\ job[j].status \in Active
    /\ job[j].attempt = expected
    /\ song[job[j].song] = job[j].video

\* startWaveformJob: a new attempt a replaces the expected one.
StartJob(j, expected, a) ==
    /\ StartAccepted(j, expected)
    /\ a \in Attempts \ issued
    /\ job' = [job EXCEPT ![j].status = "RUNNING", ![j].attempt = a]
    /\ issued' = issued \cup {a}
    /\ UNCHANGED <<song, requesters, notified, waveform>>

\* Fault: the result of any attempt is taken.
CompleteUnfencedFault(j, attempt) == job[j].status \in Active

\* completeWaveformJob takes a result only for an open job's current attempt.
CompleteAccepted(j, attempt) ==
    /\ job[j].status \in Active
    /\ job[j].attempt = attempt

\* A job may fail as never enqueued only if nothing ever happened to it.
EnqueueFailureAccepted(j) ==
    /\ job[j].status = "QUEUED"
    /\ job[j].attempt = NoAttempt
    /\ ~job[j].enqueued

\* Fault: the error code is lost on the way to the row.
FinishSilentlyFault(j, status, error) ==
    /\ job' = [job EXCEPT ![j].status = status]
    /\ Notify(j, requesters[j], status)

\* The row and its requesters' notifications change in one transaction.
Finish(j, status, error) ==
    /\ job' = [job EXCEPT ![j].status = status, ![j].error = error]
    /\ Notify(j, requesters[j], status)

\* completeWaveformJob with status FAILED.
CompleteFailed(j, attempt, error) ==
    /\ CompleteAccepted(j, attempt)
    /\ error = "ENQUEUE_FAILED" => EnqueueFailureAccepted(j)
    /\ Finish(j, "FAILED", error)
    /\ UNCHANGED <<song, requesters, waveform, issued>>

\* Fault: only the song is compared, not what the result says it analysed.
TrustResultFault(j, r) == song[job[j].song] = job[j].video

\* The song still shows the video the job was created for, and the result is
\* of that video.
SourceMatches(j, r) == song[job[j].song] = job[j].video /\ r.source = job[j].video

\* completeWaveformJob with status SUCCEEDED.
CompleteSucceeded(j, attempt, r) ==
    /\ CompleteAccepted(j, attempt)
    /\ \/ /\ SourceMatches(j, r)
          /\ StoreWaveform(job[j].song, job[j].video, r)
          /\ Finish(j, "SUCCEEDED", "NONE")
       \/ /\ ~SourceMatches(j, r)
          /\ Finish(j, "FAILED", "SOURCE_CHANGED")
          /\ UNCHANGED waveform
    /\ UNCHANGED <<song, requesters, issued>>

\* findSongWaveform joined on the song's current video.
CurrentWaveform(s) == waveform[s] # NoWaveform /\ waveform[s].video = song[s]

\* findMatchingWaveformJob: the same data was already stored by a job that
\* succeeded; the upload is then answered with that job and changes nothing.
AlreadyImported(s, r) ==
    /\ waveform[s] # NoWaveform
    /\ waveform[s].data = r
    /\ \E j \in Jobs : /\ job[j].song = s
                       /\ job[j].video = r.source
                       /\ job[j].status = "SUCCEEDED"

\* Fault: the requesters are read before the uploader is added to them.
ImportUnheardFault(s, p, r, replace, j, a) ==
    /\ song[s] = r.source
    /\ ~replace => ~(CurrentWaveform(s) /\ waveform[s].data.source = song[s])
    /\ \/ j \in ActiveJobs(s, r.source)
       \/ /\ ActiveJobs(s, r.source) = {}
          /\ ~AlreadyImported(s, r)
          /\ job[j].status = "NONE"
    /\ a \in Attempts \ issued
    /\ job' = [job EXCEPT ![j] =
                 [(IF job[j].status = "NONE" THEN NewRow(s, r.source) ELSE job[j])
                    EXCEPT !.status = "SUCCEEDED", !.attempt = a, !.error = "NONE"]]
    /\ requesters' = [requesters EXCEPT ![j] = @ \cup {p}]
    /\ StoreWaveform(s, r.source, r)
    /\ Notify(j, requesters[j], "SUCCEEDED")
    /\ issued' = issued \cup {a}
    /\ UNCHANGED song

\* importSongWaveform: an administrator uploads a result.  It ends the active
\* job of that video under a fresh attempt, or a job inserted on the spot.
ImportWaveform(s, p, r, replace, j, a) ==
    /\ song[s] = r.source
    /\ ~replace => ~(CurrentWaveform(s) /\ waveform[s].data.source = song[s])
    /\ \/ j \in ActiveJobs(s, r.source)
       \/ /\ ActiveJobs(s, r.source) = {}
          /\ ~AlreadyImported(s, r)
          /\ job[j].status = "NONE"
    /\ a \in Attempts \ issued
    /\ job' = [job EXCEPT ![j] =
                 [(IF job[j].status = "NONE" THEN NewRow(s, r.source) ELSE job[j])
                    EXCEPT !.status = "SUCCEEDED", !.attempt = a, !.error = "NONE"]]
    /\ requesters' = [requesters EXCEPT ![j] = @ \cup {p}]
    /\ StoreWaveform(s, r.source, r)
    /\ Notify(j, requesters[j] \cup {p}, "SUCCEEDED")
    /\ issued' = issued \cup {a}
    /\ UNCHANGED song

-----------------------------------------------------------------------------

\* editSong and saveSongLyrics may give the song another video, or none.
EditVideo(s, v) ==
    /\ song[s] # NoSong
    /\ song' = [song EXCEPT ![s] = v]
    /\ UNCHANGED <<job, requesters, notified, waveform, issued>>

\* deleteSong: jobs, requesters and the waveform go with it (on delete
\* cascade); notifications refer to a job by value and stay.
DeleteSong(s) ==
    LET dead == {j \in Jobs : job[j].song = s /\ Exists(j)} IN
    /\ song[s] # NoSong
    /\ song' = [song EXCEPT ![s] = NoSong]
    /\ job' = [j \in Jobs |-> IF j \in dead THEN [job[j] EXCEPT !.status = "DELETED"]
                              ELSE job[j]]
    /\ requesters' = [j \in Jobs |-> IF j \in dead THEN {} ELSE requesters[j]]
    /\ waveform' = [waveform EXCEPT ![s] = NoWaveform]
    /\ UNCHANGED <<notified, issued>>

\* A request is repeated, a Runner call arrives with any attempt it may once
\* have read, an administrator uploads any result.
RequestNext ==
    \E s \in Songs, p \in Accounts, j \in Jobs : CreateJob(s, p, j) \/ JoinJob(s, p, j)

RunnerNext ==
    \E j \in Jobs :
        \/ RecordEnqueued(j)
        \/ \E e \in Attempts \cup {NoAttempt}, a \in Attempts : StartJob(j, e, a)
        \/ \E e \in Attempts \cup {NoAttempt}, x \in Errors : CompleteFailed(j, e, x)
        \/ \E e \in Attempts, r \in Result : CompleteSucceeded(j, e, r)

ImportNext ==
    \E s \in Songs, p \in Accounts, j \in Jobs, a \in Attempts, r \in Result,
       replace \in BOOLEAN : ImportWaveform(s, p, r, replace, j, a)

SongNext ==
    \E s \in Songs : DeleteSong(s) \/ \E v \in Videos \cup {NoVideo} : EditVideo(s, v)

JobsNext == RequestNext \/ RunnerNext \/ ImportNext \/ SongNext

JobsSpec == JobsInit /\ [][JobsNext]_jobVars

-----------------------------------------------------------------------------

\* At most one job of a song and video is open at any time, whatever the order
\* of requests, uploads, edits that take the video away and give it back, and
\* completions: no request makes the unique index waveform_job_active_key fail.
OneActiveJob ==
    \A j, k \in Jobs :
        (/\ job[j].status \in Active /\ job[k].status \in Active
         /\ job[j].song = job[k].song /\ job[j].video = job[k].video) => j = k

\* The rows satisfy the table's check constraints waveform_job_attempt_check
\* and waveform_job_error_check, so that no operation is aborted by them.
RowChecks ==
    \A j \in Jobs :
        /\ job[j].status \in {"RUNNING", "SUCCEEDED"} => job[j].attempt # NoAttempt
        /\ Exists(j) => ((job[j].status = "FAILED") <=> (job[j].error # "NONE"))

\* Everybody who asked for a job, whenever and however often, is notified of
\* its outcome and of nothing else once it ended, and of nothing before; after
\* the job is deleted no two recipients were told different outcomes.
RequestersInformed ==
    \A j \in Jobs :
        /\ job[j].status \in Terminal =>
               notified[j] = requesters[j] \X {NotificationType(job[j].status)}
        /\ job[j].status \in Active \cup {"NONE"} => notified[j] = {}
        /\ \E t \in Types : notified[j] \subseteq Accounts \X {t}

\* A stored waveform is of the video its row names, and a job of that song and
\* video succeeded: waveform row and terminal status are committed together.
WaveformBacked ==
    \A s \in Songs : waveform[s] # NoWaveform =>
        /\ waveform[s].data.source = waveform[s].video
        /\ \E j \in Jobs : /\ job[j].song = s /\ job[j].video = waveform[s].video
                           /\ job[j].status = "SUCCEEDED"

\* A job that ended is never reopened, restarted, re-ended or re-announced: a
\* late start, completion or upload finds it settled.  Only the deletion of
\* its song touches it, and the flag enqueued may still be raised.
SettledOnce(j) ==
    job[j].status \in Terminal =>
        /\ notified'[j] = notified[j]
        /\ \/ job'[j].status = "DELETED" /\ song'[job[j].song] = NoSong
           \/ /\ [job'[j] EXCEPT !.enqueued = job[j].enqueued] = job[j]
              /\ requesters'[j] = requesters[j]
TerminalStable == [][\A j \in Jobs : SettledOnce(j)]_jobVars

\* Who has been told which outcome, read off the notification rows.
Told(j) == {po \in Accounts \X Terminal :
               <<po[1], NotificationType(po[2])>> \in notified[j]}

Lifecycle == INSTANCE JobLifecycle WITH
    Keys  <- Songs \X Videos,
    phase <- [j \in Jobs |-> job[j].status],
    key   <- [j \in Jobs |-> <<job[j].song, job[j].video>>],
    asked <- requesters,
    told  <- [j \in Jobs |-> Told(j)]

\* The service implements the abstract job life: in particular an end of a job
\* and the announcement to all who asked are one step, never two.
ImplementsLifecycle == Lifecycle!Spec

=============================================================================
