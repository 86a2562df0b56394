# TLA+ models of oioi-bwg

oioi-bwg is a site of cheer songs: a public web application that shows lyrics in
time with the music, a Console in which administrators edit songs and cheer
guides, and the services around them. This directory holds TLA+ models of the
parts in which several processes share state and calls fail, TLC runs that check
them on small instances, and TLAPS proofs for instances of any size.

Paths below are relative to the repository's root.

## 1. The system

### 1.1 Parts, state, interaction

| Part | Where | State it keeps | Operations |
| --- | --- | --- | --- |
| Waveform job service | `packages/server/src/services/waveform-service.ts` and its repository | tables `waveform_job`, `waveform_job_requester`, `waveform`, `notification` | request, confirm enqueued, start, complete, import a result |
| Request and enqueueing | `apps/console/src/app/api/admin/waveform-jobs`, `apps/console/src/server/waveform` | one in-flight counter per process | one handler per request; a call over a Unix socket with a 2 s deadline |
| Waveform Runner | `ops/waveform-runner` (Go) | enqueue slots, one consume loop, one container | enqueue server; lease a message, run the analysis, report, delete |
| OCI queue, dead letter queue | `infra/oci/waveform.tf`, used by the Runner | messages, visibility, delivery counts | put, get, update, delete |
| Waveform analyser | `ops/waveform` (Rust) | none | one analysis per container |
| Notifications and push | `notification-service.ts`, `notification-delivery-service.ts`, `apps/console/src/server/notifications` | `notification`, `notification_delivery`, `push_installation`, a dispatcher per process | record, claim, send, finish, bind and release a browser |
| Operator device grants | `operator-auth-service.ts` | `operator_session` | create, approve, exchange, authorise, revoke, purge |
| Console sign-in with MFA | `console-mfa-service.ts`, `console-mfa-revocation-service.ts`, `console-mfa-limiter.ts` | `admin_mfa`, `account`, in-memory windows | set up, confirm, sign in, reset, change access |
| Change on the host | `ops/oci/console-operator.py` | `admin_mfa`, audit files, the deployment lock | an approved reset or change of access while the Console is closed |
| Sign-up by e-mail code | `email-verification-service.ts`, `signup-service.ts` | challenges, rate-limit windows | request, verify, complete |
| Songs and cheer guides | `song-service.ts`, `cheer-guide-*-service.ts` | songs, guides, immutable snapshots and publications, a lock version | edit, delete, save a draft, publish, import |
| Paired release | `ops/oci/paired-release.py`, `deploy-release.sh` | links `current-pair`, `previous-pair`, file `pending-pair`, containers | deploy, roll back |
| Promotion | `promotion.mjs`, `release-baseline.mjs`, `deploy-via-run-command.sh`, `verify.yml`, `deploy-promotion.yml` | pull request, workflow runs, artifacts, Run Commands | verify, plan, build, merge, deploy, repeat |
| Lyrics editor, player, pages | `apps/console/src/features`, `apps/web` | browser state | edit, undo, play |
| Infrastructure, relay, tooling | `infra`, `apps/sentry-slack-relay`, `.github` | none at run time | configuration |

How they interact: the Console is the only process that touches the database. A
request for a waveform is one transaction of the job service; the handler whose
transaction created the job then asks the Runner over a Unix socket to enqueue it.
The Runner puts a message into the queue and calls back to the Console's internal
routes. Its consume loop takes one message at a time from the queue or the dead
letter queue, in turn, holds it under a lease that it renews, starts the attempt at
the Console, runs the analyser in a container of a fixed name, reports the outcome
and deletes the message. The outcome's transaction writes a notification per
requester and wakes the dispatcher, which sends them to registered browsers.

### 1.2 What is hard

* **Lost answers.** Every call of the pipeline may take effect although its caller
  saw an error, and may take effect later than the caller's next steps.
* **Several owners of one job.** A request handler, an enqueue handler, a lease, an
  older lease whose start call is still under way, and an administrator's upload all
  write the same row. Attempts fence them off from each other.
* **Changes beneath a running job.** The song may lose its video, get another, get
  the first one back, or be deleted.
* **Crashes.** The Runner may die with a container running, between putting a
  message and recording it, or between reporting an outcome and deleting the message.
* **Checked, then used.** A one-time code, a session, a grant, a sign-up code are read
  and verified first and used in a statement or transaction of its own; changes of access,
  other requests and second guesses fall between.
* **Two editors of one text.** A song's lyrics are edited by the older song editor and by
  the guide editor, from pages that are open for hours and whose saves lose their answers.
* **A release in pieces.** What is merged, built, deployed and running is kept by GitHub,
  by artifacts, by commands that nobody can call back, and by links and containers of the
  host; each may be behind the others.
* **Nothing retries.** No call of the pipeline is repeated by its caller: the queue's
  redelivery is the only retry, so an unfinished job without a message is stuck.

`PROJECT.json` lists the hazards of all parts at their lines, with the properties
that cover them.

### 1.3 What makes each part correct

* Job service: one open job per song and video; a job ends once; everybody who asked
  for it is told how, in the transaction that ends it; a stored waveform is of the
  video it names and belongs to a success; no operation trips over the table's
  constraints.
* Pipeline: a job fails as never enqueued only if no message exists or ever will; a job
  is enqueued at most once; a message is deleted only when its job is settled; no
  container outlives its lease; a running attempt is not replaced; the result of a
  replaced attempt is not stored; messages do not stay for ever, and jobs settle.
* Push delivery: a delivery is its claimant's alone while the lease runs, and final once
  finished; an accepted push is repeated only where nobody can know of the acceptance;
  what was written for a registration that ended is never revived by a later one; a
  process runs one loop, loses no wake-up and leaves no backlog to the next minute.
* Operator grants: one approver, one exchange; no token of an administrator whose
  access changed is accepted.
* Sign-in: a time step is used once; a session carries the version its proof was
  checked against; who set up last holds the secret that is stored; the limiter's counter
  is exactly the points that are out in its window.
* Sign-up: a challenge passes only before its guesses are used up, and makes one account;
  a code is made invalid only by its own failed mail or a newer one.
* Guides and editor: a guide's text is only replaced by a page that has seen it; a page
  that shows no unsaved change shows what is stored; no edit is lost to undo.
* Change on the host: an approved change is made at most once, for the state it was
  approved for, and a definite result is true.
* Paired release: after any end of a deployment either one consistent release is
  current, or a pending mark stops the next deployment.
* Promotion: what the host runs was verified and then merged, its images are those of its
  source under one configuration, and releases follow each other in the order of merges.

## 2. Modules

| Module | Role |
| --- | --- |
| `JobLifecycle` | abstract specification: what the job service promises, without attempts, queue, songs or transactions |
| `WaveformJob` | the job service; implements `JobLifecycle` under a refinement mapping |
| `WaveformJobProofs` | theorems about `WaveformJob` |
| `WaveformPipeline` | Console handler, Runner and queue around the job service; extends `WaveformJob` |
| `WaveformPipelineProofs` | theorems about `WaveformPipeline` |
| `Outbox` | abstract specification: what the outbox of deliveries promises, without processes, leases, retries or registrations |
| `NotificationDelivery` | the outbox of push deliveries, the registrations of browsers, the senders; implements `Outbox` under a refinement mapping |
| `NotificationDispatcher` | timer, loop and wake-ups of each Console process; extends `NotificationDelivery` |
| `NotificationDeliveryProofs` | theorems about both; the dispatcher is shown to implement `NotificationDelivery` |
| `RowLocks` | the row locks that transactions take, statement by statement, and who waits for whom |
| `RowLocksProofs` | theorems about `RowLocks` |
| `ConsoleMfa` | second factor: set-up, confirmation, sign-in, reset, change of access |
| `OperatorSession` | device grants and operator tokens; extends `ConsoleMfa` |
| `ConsoleAccessProofs` | theorems about both |
| `AttemptLimiter` | the limiter of sign-in and set-up attempts |
| `SignupOtp` | sign-up codes and accounts |
| `SignInProofs` | theorems about `SignupOtp` and `AttemptLimiter` |
| `CheerGuide` | a song, its guides and the pages that edit them |
| `LyricsEditor` | form, history and save of one page |
| `EditorProofs` | theorems about `CheerGuide` and `LyricsEditor` |
| `LeaseWatch` | the Runner's lease with the clocks of Runner and queue |
| `HostRelease` | abstract specification: what the host promises those who deploy to it, without phases, files, containers or commands |
| `PairedRelease` | the deployment on the host, with a failure or a kill at any step; implements `HostRelease` |
| `HostOperation` | an approved change made on the host |
| `Promotion` | the way of a change from main to the host; its steps at the host are those of `HostRelease` |
| `OperationsProofs` | theorems about these four |
| `MCWaveformJob`, `MCPipeline`, `MCPipelineTwo`, `MCPipelineLive`, `MCDelivery`, `MCBrowser`, `MCDispatcher`, `MCDispatcherLive`, `MCConsoleAccess`, `MCServices` | instances for TLC |

`AttemptLimiter`, `SignupOtp`, `CheerGuide`, `LyricsEditor`, `LeaseWatch`, `PairedRelease`,
`HostOperation`, `Promotion` and `RowLocks` share no state with each other. `MCServices` checks them in one
run: a variable names the subject of a behaviour, which takes all its steps while the
others stay where they began.

Operators whose name ends in `Fault` are seeded faults: faulty variants of the
operator that follows them. No specification uses one; with the fault put in the
operator's place, TLC finds the property violated that guards against it.

### 2.1 `WaveformJob` and the code

One action is one committed transaction. Each operation locks the song's row first
(`lockWaveformSong`, `select ... for update`) and keeps it to the commit; edits and
deletions of songs write that row, so the transactions on one song do not overlap.
Reads before the lock (`completeWaveformJob` and `lockRunnerJob` look the job up
first) only find the song's id, which never changes. An operation that throws leaves
nothing behind and is no action.

| State | Code |
| --- | --- |
| `song[s]` | `song.youtube_id`: a well-formed id, `NoVideo` (null or not well-formed), `NoSong` (no row) |
| `job[j]` | the `waveform_job` row: song, video, status, attempt, error, whether `enqueued_at` is set; status `NONE` before the insertion, `DELETED` after the cascade |
| `requesters[j]` | `waveform_job_requester` |
| `notified[j]` | recipients and types of the notifications whose resource is `j` |
| `waveform[s]` | the `waveform` row |
| `issued` | attempt ids generated so far (`createEntityId` never repeats one) |

Times are abstracted: `started_at` is set together with `attempt_id`, `finished_at`
together with the terminal status. A result is its source and a content. `CreateJob`
and `JoinJob` are the two branches of `requestWaveformJob`; `CompleteFailed` and
`CompleteSucceeded` those of `completeWaveformJob`. In `RunnerNext` a call may carry
any attempt, error and result, not just those the Runner would send: the service must
be right for late and repeated calls of any age.

### 2.2 `WaveformPipeline` and the code

| State | Code |
| --- | --- |
| `console[j]` | the POST handler that created `j`: about to call, waiting for the Runner, told `NOT_ENQUEUED`, over |
| `handler[j]` | the goroutine of `/enqueue` for `j`: lookup, put, record, outcome |
| `msg[j]` | the message: main queue, dead letter queue, deleted, expired; hidden; deliveries; `puts` counts the puts for the properties |
| `consumer` | the consume loop: program counter, job, whether this round serves the dead letter queue, attempt |
| `container` | the container `oioi-waveform-worker` |
| `approved` | the list of videos the Runner read at start-up |
| `late` | abandoned calls that may still take effect |

A call between processes is one step, at its effect. The caller may see the answer
(`HandlerPut`, `StartAttempt`, `Report`) or not (`HandlerPutLost`, `StartLost`,
`ReportLost`). In the second case the call has been lost, or moves to `late`, from where
`LateEffect` carries it out at any later time and `LateNever` drops it. So "took effect
and the answer was lost" is a loss followed by a late effect. A crash in the middle of
a call is a loss followed by a crash.

A lease may end at any of its steps (`Abandon`): it ran out, was cancelled, a call
failed, or the job refused the start. What the code guarantees then is that the
container is gone before the loop goes on (`DockerWorker.run`'s deferred cleanup), and
that is what the action does.

### 2.3 `NotificationDelivery`, `NotificationDispatcher` and the code

| State | Code |
| --- | --- |
| `auth[a]` | `account` and `admin_mfa`: an active administrator or not, MFA enabled, MFA version |
| `install[i]` | the `push_installation` row of a browser; `live`: `expires_at` is ahead |
| `note[n]` | the transaction that records notification `n`: not begun, open, committed |
| `delivery[d]` | the `notification_delivery` row of a notification and a browser: status, binding version, lease token, `over`: `lease_until` has passed, `time`: `next_attempt_at` ahead, due, or `expires_at` passed |
| `sender[p]` | `dispatchNotifications` in process `p`: where it is, the delivery and token in its hand, deliveries dealt with |
| `timer`, `wakeRequested` | the variables of `dispatcher.ts`, per process |

One statement of the database is one step. Its sender sees the answer, or an error
although it took effect (`ClaimLost`, the second disjunct of `Drop`, `Accept`, `Retry` and
`DiscardRegistration`), or an error without effect (`AcceptFails`, `StatementFails`). Between
any two statements and around the call of the push service everything else may happen.
The code's `try` decides where an error goes: after the push it is caught and taken for an
error of the network, so that an acceptance whose update failed is retried; everywhere
else it leaves `dispatchNotifications` and ends the loop ("broken").

The deliveries of a notification are written in the transaction that ends the job, from
the registrations as it reads them, and are seen after its commit, which may come later
(`Record`, `Commit`, `Rollback`). The model does not order a user's own steps against it.

`Outbox` sees of all this the transactions (`note`), the rows' status and which deliveries were
pushed at least once (`push`). A claim, a retry, a crash, a lease that runs out and everything
around the registrations is a stutter; `Accept` and `Drop`, and a `Retry` that gives up, are
`EndMessage`, unless their token has been replaced.

Abstracted: role and status of an account are "an active administrator"; an account
without an `admin_mfa` row has version 1 and MFA disabled, the row's defaults; the clocks
of Console and database are one; backoff and attempt count are "some time later, before
the expiry, or never"; of the order by `next_attempt_at` only that no due row waits for
ever is kept, as fairness. `ended`, `overrun`, `push` and `asked` are history for the
properties and no action reads them, but to keep them.

### 2.4 `ConsoleMfa`, `OperatorSession` and the code

| State | Code |
| --- | --- |
| `time` | the clock, in the 30-second steps of a code |
| `active[a]` | the account has an administrator's role and is ACTIVE |
| `mfa[a]` | the `admin_mfa` row: version, secret, enabled, last used step; version 0 without a row |
| `request[r]` | a call of `setupConsoleMfa`, `confirmConsoleMfa` or `authenticateConsoleMfa`: what it has read, and its answer; a sign-in's answer is the session's proof |
| `grant[d]` | the `operator_session` row of a device code |
| `approval[r]` | the device code a session is about to approve, its session checked already |
| `poll[p]` | `exchangeOperatorGrant`: begun, row read and found open, or answered with a token |
| `changes[a]` | history: resets and changes of access |

A request checks its password (`CheckPassword`), a code is verified against the row as it was
read (`VerifyCode`), and the transaction under the rows' locks either stores its result or
refuses (`StoreSecret`, `Consume`, `Refuse`). Between these steps every other request, reset
and change of access may fall. An approval is the check of the session (`StartApproval`) and
the statement that approves (`Approve`); an exchange is the reading (`CheckPoll`) and the
statement that claims the token (`ClaimToken`). A password is right or wrong; a secret is
named by the set-up that made it; codes are their time steps.

### 2.5 `AttemptLimiter`, `SignupOtp` and the code

`reserveConsoleMfaAttempt` runs from one `await` to the next without interruption; each such
part is an action. `window` is the module's own map, `counter` the library's
(`RateLimiterMemory`, modelled from its use: `consume` and `reward` are `Add`). The counter is
set by a call after the window is, so it may end up to `Late` after it. All attempts come from
one network address (the code's bound of remembered addresses and the bucket of unknown ones
are left out), the accounts' windows are bounded by `MaxAccounts`.

In `SignupOtp` a request for a code is its transaction (under the advisory lock of its
address), then its mail (`MailLeaves`, `MailFails`); a guess is its reading and comparison
(`ReadChallenge`), then its statement (`Guess`); `CompleteSignup` is one transaction. A verified
challenge does not expire, as in the code.

### 2.6 `CheerGuide`, `LyricsEditor` and the code

| State | Code |
| --- | --- |
| `lyrics` | the song's lyrics |
| `guide[m]` | the `cheer_guide` row of a mode: lock version, whether it was imported, the text of its working snapshot and of its publication |
| `plan` | the lyrics that `planLegacyGuideImport` showed for review |
| `editor[e]` | an open page: which guide (or the song), the version it may write, what it was opened with or had confirmed, its save |
| `shown`, `clean` | the form's value and its default, which "unsaved" compares |
| `past`, `at` | `history` and `historyIndex` of `useLyricsEditor` |
| `save`, `stored` | `handleSave`'s call, and what the server has |

Every writer of guides and songs locks the song's row first, so a transaction is one step.
`CheerGuide` lets a page send any text; which one it sends is the matter of `LyricsEditor`,
where each handler of a rendering is one step and the server's answer may come at any time
in between. `told` says that no answer of a stored save was lost: without an answer a page
cannot know what the server has. A song without an imported guide is saved without a version, and
there the last save wins; the code has no version to compare, and `NoLostEdit` is about guides.

### 2.7 `LeaseWatch` and the code

`now` is the time; the queue's clock differs from the Runner's by a skew out of `Skews`, which may
change with each answer. `withLease`'s and `watchVisibility`'s `select` are actions whose guards
are the channel or timer that is ready: ticker (`Beat`), answer (`Answered`), timers (`TimeOut`),
cancellation (`Stop`), the work's return (`Return`), then the drain (`Close`, `Quarantine`). When
several are ready, Go takes any, and so does the model. A timer that is due is served within
`Slack`: that is an assumption about the host, that the process is not starved for longer; the
margin must exceed it (`LeaseAssumption`). The code's margin is 30 s.

### 2.8 `PairedRelease`, `HostOperation`, `Promotion` and the code

`PairedRelease` has one phase per statement of `deploy` that changes the host, from the
snapshot to the removal of the mark, and of its rollback. `StepFails` is the `except`, `Abandon` a
kill or a rollback that fails; `Activate` and `Restart` leave any mixture of containers behind
when `docker compose` fails. A release name is fresh; what a snapshot contains is its name.

| State of `HostOperation` | Code |
| --- | --- |
| `launcher[l]` | a call of the script: where it is in `apply`, the request and container it read |
| `attempted`, `result[q]` | `.started.json` and `.result.json` in the audit directory |
| `working`, `answer[q]` | the process in the container, and what it has printed |
| `version` | of the administrator's row, which the request names |
| `container`, `sealed`, `deployed` | the running container, the one the configuration names, a deployment or its mark |

The launcher may be killed at every step (`Leave`) and does not hear an answer that comes after 45
seconds (`Hear`), but the process in the container goes on.

In `Promotion` a commit of main is what it changes: `inputs[c][a]` is the last commit that changed
what app `a` is built from. A run of `verify.yml` prepares, plans, builds, notes its candidate and
passes, each job checking pull request, head and base anew (`Prepared`) and reading the
configuration anew. A merge remembers which run had passed by then. A rollout of
`deploy-promotion.yml` resolves, sends a Run Command and waits; the host carries a command out when it
will, in any order, also after everybody gave it up (`Carry`, `Reject`), under the script's check that
the candidate was planned upon the release that runs (`Fits`). Any step may fail, any run may be
repeated.

`HostRelease` joins the two. For `PairedRelease` a deployment counts as one step of the host, at its
end: until then the host is what the deployment noted when it began (`deploy.old`, `deploy.before`), and a
mark that is left means that it is stuck. For `Promotion` a `Carry` is that step, and a host that is stuck is one
that refuses (`Reject`). So `Carry` and `Reject` stand for all that `PairedRelease` can do.

### 2.9 `RowLocks` and the code

Everywhere else a transaction is one step. `RowLocks` looks into the transactions: `tx[t]` is the
operation that a transaction carries out, its step, the locks of that step it has yet to ask for
(`todo`), the one it waits for (`want`) and those it holds, which it keeps to its end.

| Definition | Code |
| --- | --- |
| `RequestSteps` .. `ReleaseSteps` | for each operation the locks of its statements in their order: `select ... for update` (`lockWaveformSong`, `lockWaveformJob`, `lockSongForGuideWrite`, `lockLegacyGuide`, `lockConsoleAuthenticationFacts`), the rows it updates or deletes, and the rows that its inserts and updates refer to by a foreign key |
| `Cascade` | what `on delete cascade` deletes with a song, and the look for guides that `restrict` makes |
| `Conflicts` | which of the modes update, no key update and key share exclude each other (PostgreSQL, external) |
| `Ask`, `Grant`, `Skip`, `Advance` | a statement comes to a row, waits until nobody holds it in a conflicting mode, gets it or finds that it no longer fits, and the next statement begins |
| `EndTx` | commit, or an error at any time, `lock_timeout` among them |

The steps say what a statement may lock, not what it must: from the second step on a transaction asks
for any subset of the locks its step names (a job without requesters, a song without a
guide), in any order. The first step's lock must be granted for the transaction to go on. An
album's deletion takes the rows of the songs it found. A row is named by its table and the id of the song,
job, guide, album, account or browser it belongs to.

## 3. Runs

| Run | Instance | Shows |
| --- | --- | --- |
| `job_service` | 1 song, 2 videos, 2 jobs, 3 attempts, 2 administrators | all invariants of the service, that ended jobs stay as they are, and the refinement of `JobLifecycle` |
| `pipeline` | 1 song, 2 videos (1 allowed), 1 job, 3 attempts; 2 deliveries, 1 slot, 2 late calls | the safety of the pipeline under lost and late calls and crashes |
| `pipeline_two_jobs` | 1 song, 2 allowed videos, 2 jobs, 2 attempts; 1 slot, 1 in flight, no late calls | two open jobs compete for slots and worker |
| `pipeline_liveness` | 1 job, 1 attempt, 1 late call, 2 deliveries; fairness | messages drain, delivered jobs settle |
| `stale_job` | the same, all handlers fair | the stale-job check of the design does not exist (3.3) |
| `delivery` | 1 delivery, 2 processes, 3 tokens, batches of 1 | leases, repeats and the refinement of `Outbox` under crashes, lost answers and leases that run out |
| `browser` | 1 browser, 2 administrators, 1 notification, 1 process, 2 MFA versions, 3 bindings | what was written for an ended registration is not revived, whoever takes the browser next |
| `dispatcher` | 2 deliveries, 1 process, batches of 1 | one loop, kept wake-ups, no backlog |
| `dispatcher_liveness` | 1 delivery, 1 process; fairness | every delivery ends |
| `console_access` | 1 administrator, 3 requests, 1 grant, 2 pollers; 2 versions, 4 time steps, grants and tokens of 1 step | sessions, codes, set-ups, grants and tokens against changes of access |
| `services` | each of the nine parts of 2.5 to 2.9, see 3.1 | the safety of each part |
| `release_race` | as `delivery` | a push may be sent after its registration ended (3.4) |

### 3.1 Bounds

* Two jobs let one job of a video end and another begin, and let two videos have one
  each. Three attempts let a second attempt replace the first and an upload come third.
  With two songs and otherwise the same sets the service run passes as well; songs
  share no state but notifications and attempts.
* Two deliveries exercise redelivery and the move to the dead letter queue; the real
  limit is five. One slot and one call in flight make both limits bite with two jobs;
  the real limits are eight.
* `MaxLate` bounds the abandoned calls pending at a time. It bounds the model, not the
  code: with two, two late calls of one job may race each other in either order. It is
  zero with two jobs, where the question is the sharing of slots and worker.
* The sets of jobs and attempts bound how much can happen. When they are used up the
  service run has states in which nothing can happen any more, so that run does not
  look for deadlocks. The pipeline never stops (its consume loop always can poll), and
  its runs do.
* A lease token stands for a fresh UUID. A claim draws one that neither a row nor a sender
  holds, so a row and every sender that lost it need one each: three with two processes.
  Two processes are what a lease is about; a third adds another late sender.
* `BatchSize` is 20 in the code. With one, a batch is full after each delivery, and with two
  deliveries a loop ends with work left, which is the case that matters.
* Three bindings allow a browser to go from one administrator to another and back, with two
  MFA versions on the way. `delivery` with two notifications (3.4 million states) and
  `browser` with two (1.9 million) pass as well, but take too long to be kept as runs.
* Three requests let two race for one code, secret or set-up while a third, or a reset, changes
  the row beneath them; two versions are a state before and one after a change. Two pollers race
  for a grant's token. Four time steps let a code, a grant and a token expire each.
* In `services`: two modes, two pages, two contents and versions up to 3 for the guides (created,
  saved, saved again); three texts and a history of 3 for a page, so that the oldest snapshot
  is dropped and a redo is cut off; two addresses, nicknames, visitors and challenges, two
  wrong guesses (five in the code), one code per address and two per network address; three
  attempts, two of them at one account and a third at either of two, which by renaming stands for all
  choices, two points per address, one per account, windows of two time units of
  four, one remembered account; visibility 6, margin 2, heartbeat 2, deadline 1, drain 2 and
  slack 1 with clocks that differ by -1, 0 or 3, until 15; two apps, four releases and a single app
  of before (without that app it passes as well); two requests for different versions, two launchers, two containers, versions up to
  2; two apps, two configurations, two commits of main, two of production and pull requests,
  two runs of two attempts, one of all runs repeated. The parts share model values (`u1`, `w1` and
  the like stand for modes, apps and addresses in turn), only because TLC applies every
  permutation to every state, and two pairs serve all parts.
* For the row locks in `services`: two transactions, two albums, two songs, a job of one song, a
  guide of the other, one administrator with one browser. Two transactions, two songs and two
  albums are what the circles that exist need: two deletions of albums with crossing moves of
  songs. A circle over a third transaction needs three: with one song (810 000 states), and with
  two transactions, two jobs and two accounts (1.6 million), it passes as well, but takes too
  long to be kept.
* `console_access` and `services` use up their bounds (time, versions, names), so they do not
  look for deadlocks. None of their parts waits for another: a step that is not taken is a
  request that is refused or an operator who does nothing.
* Jobs, attempts and accounts are interchangeable and reduced by symmetry in the safety
  runs; the liveness runs use none.

### 3.2 Fairness

`ConsumeFairness` is what the consume loop and its environment give. Each call of the loop
has a deadline, so the loop does not halt inside a round (weak fairness of `Abandon`);
systemd restarts the Runner, and after the unit's start limit an operator does (weak
fairness of `Boot`); the queue ends a message's invisibility (weak fairness of
`VisibilityTimeout`). A step that fails only now and then succeeds if it is tried for
ever (strong fairness of polling, cleanup, lookup, report and deletion). No fairness is
assumed of the start of an attempt or of the analysis: a job whose analysis never
succeeds settles through the dead letter queue. `EnqueueFairness` adds that request
handlers and enqueue handlers run to their end; only the `stale_job` run uses it. The
queue's retention (`Expire`) is never forced, but allowed at any time, so
`DeliveredSettles` names it as the other way out.

`FairDispatcherSpec`: time passes, so waiting ends and leases run out; an expiry is due
again and again while a delivery is retried, so it needs strong fairness. A process that is
down is started again. Every call of the loop has a deadline, hence weak fairness of
`SendNext`. Timer, claim, look-up and the update that discards come through if they are
tried for ever (strong fairness: crashes and failures interrupt them). Nothing is assumed
of the push service: a delivery it never accepts ends by its expiry.

### 3.3 First finding: no stale-job check

`docs/migration/implementation/console-guide-editor/DESIGN.md:364-365` describes a small
stale-job check of the Runner that fails jobs which are `QUEUED` without `enqueuedAt`
after a conservative deadline. There is none: the handler that created a job is the only
one that ever enqueues or fails it. Run `stale_job` shows a job that stays `QUEUED` for
ever after its handler left (`ConsoleLeaves`), with everything else fair. Since it is
active, `requestWaveformJob` answers every later request for its song and video with it,
and sends nothing. Only an upload, a deletion of the song or another video ends that. The
same document says (line 652) that automatic failing stays disabled until its time limit
is evidenced, so the gap is known; what the model adds is that nothing else closes it.

### 3.4 Second finding: a push after the end

`docs/migration/implementation/console-guide-editor/DESIGN.md:393` and
`docs/migration/DOMAIN_SPECIFICATION.md:1041` say that nothing is sent any more once a
browser's registration has ended. `dispatchNotifications` looks the target up in one
statement and sends in a call of its own, after fetching an access token
(`notification-delivery-service.ts:43` and `:52`). A sign-out, a switch or an expiry between
the two is not seen, and run `release_race` shows the push. The exception the same line makes
is for what the push service has already accepted, which this push has not been. The window
is one call, and what is written for the ended registration and not yet looked up is never
sent: that is `NeverRevived`, which holds.

### 3.5 Further observations

Met while modelling; none is refuted by a run, and each is within what the code sets out to do.

* Deadlocks are possible around the deletion of an album, which takes the album before its songs:
  an edit that moves a song holds the song and then refers to the album, and two deletions meet over two songs that
  are moved from one album to the other. PostgreSQL aborts one, whose author sees an error.
  Everywhere else the order is safe (`CirclesNeedAlbums`), and `admin-mfa-repository.ts:74` says so
  of its own part: every mutation's lock order is the same.
* Repeating a deployment run that had succeeded takes its success away from it (`findBaseline`
  lists runs by their present status). If the repetition does not succeed, the next plan uses an
  older release as its baseline and the host refuses the candidate (`Fits`): safe, but no
  promotion passes until a run succeeds again or an operator steps in. A lost receipt does the
  same, which `ops/oci/README.md:571` says.
* `OPERATION_FAILED` in a result of `console-operator.py` does not prove that nothing was changed:
  the commit's answer may have been lost. Success and `STATE_CHANGED` are definite (`ResultHolds`);
  of `OUTCOME_UNCERTAIN` and a missing result `ops/oci/README.md:649-652` says so itself.
* A song without an imported guide has no version: the last save wins. After a draft was saved
  for an imported guide the song editor is refused, and no code publishes that draft.
* When a save was stored and its answer lost, an undo to the former text shows "no unsaved
  change" although the server has the other one (`told` in `PageTrue`).
* A first deployment that fails where no single app ran before leaves its mark although nothing
  runs: an operator has to remove it.
* A poll that read the clock before an approval did, and claims after it, runs into the table's
  check of times and ends with an internal error; the next poll succeeds.

## 4. Proofs

All theorems hold for every set of songs, videos, jobs, attempts and administrators and
every limit. They rest on the named assumptions of the modules only: allowed videos are
videos, there is a song and a video, the null values are none of the real ones
(`NullsAssumption`, `NoJobAssumption`), the limits are naturals and a message may be
delivered at least once (`LimitsAssumption`), a worker's output is told apart by its
attempt (`ContentsAssumption`). The sets need not be finite; for `AttemptLimiter` alone, whose
invariant counts, the attempts are (`LimiterAssumption`).

### 4.1 `WaveformJobProofs`

| Theorem | Property |
| --- | --- |
| `TypeCorrect` | `JobsTypeOK` |
| `UniqueActive` | `OneActiveJob` |
| `RowsLegal` | `RowChecks` |
| `AllInformed` | `RequestersInformed` |
| `EndedForGood` | `TerminalStable` |
| `WaveformsBacked` | `WaveformBacked` |
| `Refinement` | `ImplementsLifecycle` |

Each invariant is inductive relative to `JobsTypeOK`, so the argument is one step per
operation. What carries them: every operation that ends a job requires it to be open,
where nobody has been notified yet (`FinishInforms`); an ended job is touched only by the
deletion of its song (`SuccessStays`), so a waveform never loses the job that backs it.
For the refinement, every step is mapped to a step of the abstract life or to a stutter
(`StepRefines`): recording the delivery and editing a song are invisible, the deletion of
a song is `Remove` of its existing jobs, an upload is `Supply`. It needs
`RequestersInformed`: `told` is overwritten by the abstract `Finish`, extended by the
code, and the two agree since nothing was told before.

### 4.2 `WaveformPipelineProofs`

| Theorem | Property |
| --- | --- |
| `PipelineTypeCorrect` | `PipelineTypeOK` |
| `PipelineUsesService` | `PipelineSpec => JobsSpec`: the pipeline calls the service only by its operations |
| `PipelineKeepsService`, `PipelineImplements` | with 4.1: the service's invariants and its refinement hold in the pipeline |
| `NoStrayWork` | `WorkOnlyInLease` |
| `MessageKept` | `DeletedOnlyWhenSettled` |
| `NoSecondMessage` | `OneMessage` |
| `RowTellsTruth` | `EnqueueTruth` |
| `WorkCurrent` | `WorkIsCurrent` |
| `ResultsCurrent` | `ResultOfAttempt` |

None but `WorkOnlyInLease` and `ResultOfAttempt` is inductive as it stands. The
strengthening, by part:

* `Shape`: types, what a lease holds at each stage (`LeaseShape`: from its start an
  attempt has an id, the dead letter queue's rounds never start one), and that a message
  which may still be delivered from the main queue has deliveries left. Without it neither
  the message's type nor that a report is an operation of the service can be shown.
* `TouchedBorn`: whatever deals with a job (request, handler, message, delivery, late call)
  deals with one that was created. A job about to be created is untouched, so the
  creation cannot reopen something.
* `DeleteReady`: a consumer at "delete" has a settled job. With `TouchedBorn` and the fact
  that settled jobs stay settled (`JobStepFacts`) it gives `MessageKept`.
* `EnqueueStage`: where console and handler stand decides what can have been put. Before
  "record" nothing was put and no put is pending; a pending late put excludes another;
  a refusal is only believed of a handler that never put, and the row is marked as never
  enqueued only after it. Both theorems on the message are read off.
* `IssuedOnly` and `Fenced`: all attempts in rows, consumer and late calls were issued
  before; an attempt that starts is new. So no late start expects the attempt at work, and
  a start that expects anything else is refused by the row.

The properties are those of the runs, but for `PipelineTypeOK`, which is only proved; the parts of
the strengthening hold in every state of the `pipeline` instance, too.

### 4.3 `NotificationDeliveryProofs`

The assumptions are that every notification is for an administrator, a batch is not empty,
the bounds are naturals and the null values are none of the real ones.

| Theorem | Property |
| --- | --- |
| `DeliveryTypeCorrect` | `DeliveryTypeOK` |
| `LeasesProtect` | `LeaseProtects` |
| `FinishedStays` | `FinishedForGood` |
| `RepeatsAreExcused` | `RepeatsExcused` |
| `BindingsMeanOwners` | `BindingMeansOwner` |
| `EndedStaysEnded` | `NeverRevived` |
| `OutboxRefinement` | `ImplementsOutbox` |

Lemmas say once what each kind of step does: `WorldShape` and the lemmas `AccountMoves`,
`BrowserMoves`, `NoteMoves`, `TimeMoves` for the surroundings, `ClaimRow` for a claim,
`SendRow` and `FinishRow` for the rest of a sender's steps. Three invariants stand on them.

* `LeaseInv`: `LeaseProtects` is not inductive. A claim must not take the row of a sender
  whose lease runs: it takes a row without a token, or with a lease that ran out, and then
  the sender is known to be late (`OverKnown`). An update of another sender must miss: its
  token differs (`TokensUnique`). And an open transaction must not rewrite the row: a row
  with a token, or a finished one, is committed (`Leased`). `FinishedForGood` follows.
* `RepeatInv`: an acceptance is written, or one sender is about to write it (`Accepted`). That
  sender holds the row's token, so nobody else is about to send.
* `BindingInv`: the binding version of a browser never falls behind its rows' (`Bound`), nobody
  has proved an MFA version still to come (`MfaBound`), and a row whose registration ended
  is behind the browser, or of a registration that expired or whose MFA version is behind the
  account's (`EndedStale`). A refresh keeps the version only where neither can be.
* `BoxInv`, for the refinement: what a sender has in its hand is a delivery that was committed and
  exists, and one that is about to write an acceptance has pushed it (`InHand`). Without it neither
  the push nor the update would be a step of `Outbox`, since neither looks at the notification.
  Every step is then mapped to a step or a stutter (`NoteBox`, `PushBox`, `EndBox`, `BoxStep`).
  `FinishedForGood` is a consequence in the abstract (a message ends from PENDING only), so the runs
  check `ImplementsOutbox` alone.

The dispatcher, in the same module:

| Theorem | Property |
| --- | --- |
| `DispatcherUsesDelivery` | `DispatcherSpec => DeliverySpec`: the theorems above hold in the dispatcher |
| `DispatcherTypeCorrect` | `DispatcherTypeOK` |
| `OneLoopOnly` | `OneLoop` |
| `WakesAreKept` | `WakeKept` |
| `BacklogIsPrompt` | `BacklogPrompt` |

`OneLoop` and `WakeKept` are inductive with the types. `OneLoop` carries the others: a timer
that fires meets no running loop, so a run that begins answers all wake-ups before it.

### 4.4 `RowLocksProofs`

The assumptions are that a job's or a guide's song is a song, that jobs and guides have different names and
that `NoId` names nothing.

| Theorem | Property |
| --- | --- |
| `LocksAreKept` | `LocksInv` |
| `NoCircleWithoutAlbums` | `CirclesNeedAlbums` |

First, what the programs are: every lock of every step of every operation has its place
(`AllPlaced`): songs and accounts are locked by the first step, which locks nothing else;
what belongs to a song comes after it; a key share of an album, a write of a browser and the one lock of
`deleteEmptyCheerGuide` come last. Then `LocksInv`: a transaction's locks are of the steps up to its present one, and
from the second on it holds all of the first (`Shape`); whoever holds a lock of the last kind asks for nothing
more (`Closed`); an album's deletion touches only what belongs to songs it holds (`Cascaded`); and no
two hold a row in conflicting modes (`Exclusive`).

That gives the argument about circles. Who waits for a row that belongs to a song holds that song,
so nobody else holds it, and nobody else can hold the row unless it is the transaction of one statement, which
waits for nothing (`UnderItsOwner`, `GuideDeletion`); likewise for credential and second factor under their
account. So who waits for someone who waits in turn, waits for a song, an account or an album
(`Waiting`). Who waits for a song or an account with its first lock has nothing yet that another could wait for
(`EmptyHanded`). What remains in a circle are deletions of albums, and edits that wait for an album; and
two edits never wait for each other's.

### 4.5 `ConsoleAccessProofs`

The assumptions are names that differ and positive lifetimes.

| Theorem | Property |
| --- | --- |
| `OperatorInvariance`, `OperatorTypesCorrect` | `OperatorInv`, `OperatorTypeOK` |
| `SessionsStayCurrent` | `SessionsCurrent` |
| `CodesServeOnce` | `CodeUsedOnce` |
| `SetupAnswersHold` | `AnswersHold` |
| `TokensStayCurrent` | `TokensCurrent` |
| `GrantsServeOnce` | `OneTokenPerGrant` |
| `ApproversStay` | `ApproverNeverReplaced` |

`MfaInv`: a reading is never ahead of its row (`Behind`), and one of the current version has seen
every change of the account (`ChangesSeen`), since each change raises the version; so a session of
the current version is of the current access. A secret belongs to a set-up that is over
(`RowsMade`, `ReadingsMade`), so a later set-up never brings it back, and the steps used of the
stored secret are behind the row's (`StepsUsed`): a reset does not make a used code good
again. `OperatorInv` adds that an approval means a session (`ApprovalsMeant`) and that a poll's
token is its row's (`PollsMeant`).

### 4.6 `SignInProofs`

| Theorem | Property |
| --- | --- |
| `OtpInvariance` | `OtpInv` |
| `SignupsAreSound` | `SignupSound` |
| `CodesKept` | `InvalidatedForCause` |
| `LimiterInvariance` | `LimiterInv` |
| `PointsAreExact` | `LimiterExact` |

`OtpInv` adds to the properties what a handler's challenge is while it mails or guesses
(`Handling`): the statement of a guess decides on the row as it then is, whatever it had read.
For the limiter, a counter outlives its window, an attempt's window is over or is the remembered one
(`WindowsKnown`), and for each key the counter is the number of attempts that hold a point of its
present window, no more of which were admitted than there are points (`KeyExact`). The steps are
about cardinalities: an attempt joins or leaves the holders, and the window's end empties them.

### 4.7 `EditorProofs`

| Theorem | Property |
| --- | --- |
| `PageInvariance`, `PageStaysTrue` | `PageInv`, `PageTrue` |
| `NothingReplacedForGood` | `EditsUndoable` |
| `GuideInvariance` | `GuideInv` |
| `SongAndGuideAgree` | an imported guide's publication is the song's lyrics, and there is at most one |
| `NoEditLost` | `NoLostEdit` |

`PageInv` adds what the page knows of the server while a save is under way (`Known`). `GuideInv`: what
rows there can be (`RowsMake`), and that each page is behind the guide it may write, or has its
version and then its content (`PagesSound`): a version that is held is a text that was seen. It
needs that a guide with a page on it is never deleted, and that a saved page which was not answered
stays behind.

### 4.8 `OperationsProofs`

| Theorem | Property |
| --- | --- |
| `LeaseInvariance`, `WorkInsideLease` | `LeaseInv`, `LeaseSafe` |
| `ReleaseInvariance`, `HostAlwaysAgrees` | `ReleaseInv`, `ReleaseAgrees` |
| `HostReleaseRefinement` | `ImplementsHostRelease` |
| `OperationInvariance`, `OperationsAreSound` | `OperationInv`, `OperationSound` |
| `PromotionInvariance`, `HostRunsWhatWasMerged` | `PromotionInv`, `ReleasesSound` |
| `PromotionUsesHost` | `UsesHostRelease` |

* `LeaseInv`: work is under way at most `Slack` past `until`, and `until` is at least the margin before
  the message's real end, because a visibility is never counted from later than its call began.
  It holds for every duration, skew and margin that exceeds the slack.
* `ReleaseInv`: what links, mark, environment and containers are in each phase (`Noted`,
  `LinksOnTheWay`, `HostOnTheWay`); the mark is only removed where they agree again. For the refinement each step is a stutter, but those
  that end the script: without a mark the host shows the release of `current-pair` (`Showing`), so the end
  is a stutter after a rollback (`EndUndoes`) and the step `Take` after a success (`EndTakes`); with a mark it is
  `Break` (`EndBreaks`). That a first release leaves no previous one needs `NoneBefore`. The runs check the
  refinement, which implies `HostAgrees`, in place of `ReleaseAgrees`; only that the links' snapshots are kept is
  no part of it.
* `OperationInv`: what a launcher at each step knows (`LauncherKnows`), what the files say of the
  process (`History`), and that launchers have the host for themselves (`HostHeld`).
* `PromotionInv`: what is known of pull requests, runs, merges, commands and the host's releases
  (`PullsKnown`, `RunsKnown`, `MergesKnown`, `CommandsKnown`, `PairKnown`). A run's images fit its source as
  far as the commits of its baseline and its own agree (`Fitting`, `Placed`, `ImageFits`); each step
  extends commits, runs and merges without changing what the others refer to (`Extends`), which
  is proved once for all steps. `PromotionUsesHost` follows from it: a run is of one pull request and pull
  requests come in order, so no two releases have one name (`NamesDiffer`) and what is carried out is
  neither of the two the host has. It was checked for the instance of `services`, too, but is no property of
  that run: TLC cannot enumerate the names of all releases.

### 4.9 Model-checked only

The liveness properties `DeliveredSettles`, `MessageDrains` and `DeliveriesEnd`: liveness
under fairness and `ENABLED` are out of the prover's reach. Everything else that a run checks is proved. No theorem is by induction over
data and no module uses a recursive operator.

## 5. Not modelled

Most of the repository's code is pages, components, styles, forms, schemas, queries that read,
scripts that check formats, and tests. It keeps no state that two actors share, or only
displays it, and is left out: a model of it would repeat the code line by line. What
is modelled is the code in which steps of several actors meet, and that is a small share of
the lines. In particular:

* Validation and encoding of HTTP bodies, queue payloads, artifacts, digests and receipts:
  a payload that does not match its job, and an artifact that was tampered with, never come
  from this code.
* Row locks of operator grants, sign-up, publications and policies, which are one statement or
  take one row; waits for a unique key (two songs of one slug); the dispatchers' claims, which
  skip what is locked.
* Read marks and lists of notifications, the arithmetic of the backoff; a browser whose
  registration is written after its page was left, which expires within eight hours.
* The host lock and the set-up of the socket (`host_linux.go`, `runtime_linux.go`): one
  Runner per host is assumed. The unit's start limit: the liveness run assumes that
  somebody starts the Runner again.
* Titles, albums, favourites, members and other tables that are edited row by row.
* The player's position in the lyrics: a pure function without state. The analyser's signal
  processing. The relay from Sentry to Slack: a stateless function. Infrastructure.
* What an operator does on the host after a deployment left its mark.

## 6. Plan

Jobs, push delivery, access, sign-up, editing and release are modelled and proved. What is left:

1. The composition of `LeaseWatch` with `WaveformPipeline`, whose lease is an abstraction of it, as a
   refinement.
2. Albums and members, as far as their deletion meets edits of songs.
