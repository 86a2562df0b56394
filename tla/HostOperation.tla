---------------------------- MODULE HostOperation ----------------------------
(***************************************************************************)
(* console-operator.py: an approved reset of an administrator's MFA, or a  *)
(* change of his access, made on the host while the Console is closed. The *)
(* launcher runs under the deployment lock and lets a process inside the   *)
(* Console's container make the change. It waits 45 seconds for the answer, *)
(* may be killed at any step, and leaves the process behind when it goes.  *)
(***************************************************************************)
EXTENDS Naturals

CONSTANTS Requests,      \* approved requests, by the hash of their text
          Launchers,     \* calls of the script
          NoRequest,
          Expected,      \* Expected[q]: the version of the MFA row q was approved for
          MaxVersion,    \* bound of the row's version
          MaxContainer   \* bound of the containers the Console runs in

ASSUME OperationAssumption ==
    /\ NoRequest \notin Requests
    /\ Expected \in [Requests -> Nat]
    /\ MaxVersion \in Nat /\ MaxContainer \in Nat

VARIABLES launcher,       \* what each call of the script is at
          attempted,  \* requests with a .started.json
          result,     \* result[q]: what .result.json says, if it is there
          working,    \* requests whose process works in the container
          answer,     \* answer[q]: what the process has printed
          made,       \* made[q]: changes made on q's behalf
          processes,  \* processes[q]: processes started for q
          version,    \* of the administrator's MFA row
          container,  \* the Console's container
          sealed,     \* the container named in console-operator.json
          deployed    \* "no", "running", or "marked": the mark pending-pair is left

operationVars == <<launcher, attempted, result, working, answer, made, processes, version,
                   container, sealed, deployed>>

Steps    == {"idle", "ready", "locked", "inspected", "recorded", "waiting", "answered"}
Answers  == {"none", "success", "changed", "failed"}
Verdicts == Answers \cup {"uncertain"}
Launch   == [step : Steps, request : Requests \cup {NoRequest}, container : Nat, value : Verdicts]
NoLaunch == [step |-> "idle", request |-> NoRequest, container |-> 0, value |-> "none"]

OperationTypeOK ==
    /\ launcher \in [Launchers -> Launch]
    /\ attempted \subseteq Requests /\ working \subseteq Requests
    /\ result \in [Requests -> Verdicts] /\ answer \in [Requests -> Answers]
    /\ made \in [Requests -> Nat] /\ processes \in [Requests -> Nat]
    /\ version \in Nat /\ container \in Nat /\ sealed \in Nat
    /\ deployed \in {"no", "running", "marked"}

OperationInit ==
    /\ launcher = [l \in Launchers |-> NoLaunch]
    /\ attempted = {} /\ working = {}
    /\ result = [q \in Requests |-> "none"] /\ answer = [q \in Requests |-> "none"]
    /\ made = [q \in Requests |-> 0] /\ processes = [q \in Requests |-> 0]
    /\ version = 0 /\ container = 1 /\ sealed = 1 /\ deployed = "no"

Holds(l)    == launcher[l].step \notin {"idle", "ready"}
LockFree    == deployed # "running" /\ \A l \in Launchers : ~Holds(l)
AtStep(l, s)   == launcher[l].step = s
To(l, s)    == launcher' = [launcher EXCEPT ![l] = [launcher[l] EXCEPT !.step = s]]
\* inspect_target: no deployment was broken off, and the container is the one
\* that the configuration names.
InPlace(l)  == deployed = "no" /\ container = launcher[l].container

-----------------------------------------------------------------------------
(* apply.                                                                  *)

\* flock with LOCK_NB.
Lockable == LockFree

Submit(l, q) ==
    /\ AtStep(l, "idle")
    /\ launcher' = [launcher EXCEPT ![l] = [step |-> "ready", request |-> q, container |-> sealed,
                                    value |-> "none"]]
    /\ UNCHANGED <<attempted, result, working, answer, made, processes, version, container,
                   sealed, deployed>>

TakeLock(l) ==
    /\ AtStep(l, "ready") /\ Lockable /\ To(l, "locked")
    /\ UNCHANGED <<attempted, result, working, answer, made, processes, version, container,
                   sealed, deployed>>

Inspect(l) ==
    /\ AtStep(l, "locked") /\ InPlace(l) /\ To(l, "inspected")
    /\ UNCHANGED <<attempted, result, working, answer, made, processes, version, container,
                   sealed, deployed>>

\* Fault: an attempt that is there already is written over.
OverwrittenFault(q) == TRUE
\* O_EXCL: the file of the attempt must not be there.
Exclusive(q) == q \notin attempted

Record(l) ==
    /\ AtStep(l, "inspected") /\ Exclusive(launcher[l].request)
    /\ attempted' = attempted \cup {launcher[l].request} /\ To(l, "recorded")
    /\ UNCHANGED <<result, working, answer, made, processes, version, container, sealed,
                   deployed>>

\* docker exec starts the process.
Exec(l) ==
    LET q == launcher[l].request
    IN /\ AtStep(l, "recorded") /\ To(l, "waiting")
       /\ working' = working \cup {q} /\ processes' = [processes EXCEPT ![q] = @ + 1]
       /\ UNCHANGED <<attempted, result, answer, made, version, container, sealed, deployed>>

\* What the launcher makes of the answer it has, or of none in its 45 seconds.
Verdict(l, heard) ==
    IF heard /\ answer[launcher[l].request] # "none" /\ InPlace(l)
    THEN answer[launcher[l].request] ELSE "uncertain"

Hear(l, heard) ==
    /\ launcher[l].step \in {"recorded", "waiting"}
    /\ launcher' = [launcher EXCEPT ![l] = [launcher[l] EXCEPT !.step = "answered",
                                                   !.value = Verdict(l, heard)]]
    /\ UNCHANGED <<attempted, result, working, answer, made, processes, version, container,
                   sealed, deployed>>

Report(l) ==
    /\ AtStep(l, "answered") /\ result[launcher[l].request] = "none"
    /\ result' = [result EXCEPT ![launcher[l].request] = launcher[l].value]
    /\ launcher' = [launcher EXCEPT ![l] = NoLaunch]
    /\ UNCHANGED <<attempted, working, answer, made, processes, version, container, sealed,
                   deployed>>

\* A check or a write fails, the lock is taken, or the script is killed.
Leave(l) ==
    /\ ~AtStep(l, "idle")
    /\ launcher' = [launcher EXCEPT ![l] = NoLaunch]
    /\ UNCHANGED <<attempted, result, working, answer, made, processes, version, container,
                   sealed, deployed>>

-----------------------------------------------------------------------------
(* The process in the container, whether somebody waits for it or not.     *)

\* The version of the row is the one that was approved: the change is made. The
\* commit's own answer may be lost, then the process reports a failure.
Change(q, lost) ==
    /\ q \in working /\ version = Expected[q] /\ version < MaxVersion
    /\ version' = version + 1 /\ made' = [made EXCEPT ![q] = @ + 1]
    /\ answer' = [answer EXCEPT ![q] = IF lost THEN "failed" ELSE "success"]
    /\ working' = working \ {q}
    /\ UNCHANGED <<launcher, attempted, result, processes, container, sealed, deployed>>

Stale(q) == version # Expected[q]

\* The service refuses, STATE_CHANGED, or does not get that far.
Refuse(q) ==
    /\ q \in working
    /\ \E told \in {"failed"} \cup (IF Stale(q) THEN {"changed"} ELSE {}) :
          answer' = [answer EXCEPT ![q] = told]
    /\ working' = working \ {q}
    /\ UNCHANGED <<launcher, attempted, result, made, processes, version, container, sealed,
                   deployed>>

\* Somebody else changes the row.
OtherChange ==
    /\ version < MaxVersion /\ version' = version + 1
    /\ UNCHANGED <<launcher, attempted, result, working, answer, made, processes, container, sealed,
                   deployed>>

-----------------------------------------------------------------------------
(* The host around it.                                                     *)

\* deploy-release.sh, under the same lock; its processes end with a container.
DeploymentBegins ==
    /\ deployed = "no" /\ LockFree /\ deployed' = "running"
    /\ UNCHANGED <<launcher, attempted, result, working, answer, made, processes, version, container,
                   sealed>>

Replace ==
    /\ deployed = "running" /\ container < MaxContainer
    /\ container' = container + 1 /\ working' = {}
    /\ UNCHANGED <<launcher, attempted, result, answer, made, processes, version, sealed, deployed>>

DeploymentEnds(marked) ==
    /\ deployed = "running" /\ deployed' = IF marked THEN "marked" ELSE "no"
    /\ UNCHANGED <<launcher, attempted, result, working, answer, made, processes, version, container,
                   sealed>>

\* The Console restarts in its container.
Restarted ==
    /\ working # {} /\ working' = {}
    /\ UNCHANGED <<launcher, attempted, result, answer, made, processes, version, container, sealed,
                   deployed>>

\* The operator seals the configuration anew, or clears the mark.
Seal ==
    /\ sealed # container /\ sealed' = container
    /\ UNCHANGED <<launcher, attempted, result, working, answer, made, processes, version, container,
                   deployed>>

Clear ==
    /\ deployed = "marked" /\ deployed' = "no"
    /\ UNCHANGED <<launcher, attempted, result, working, answer, made, processes, version, container,
                   sealed>>

OperationNext ==
    \/ \E l \in Launchers :
          \/ \E q \in Requests : Submit(l, q)
          \/ \E heard \in BOOLEAN : Hear(l, heard)
          \/ TakeLock(l) \/ Inspect(l) \/ Record(l) \/ Exec(l) \/ Report(l) \/ Leave(l)
    \/ \E q \in Requests : Refuse(q) \/ \E lost \in BOOLEAN : Change(q, lost)
    \/ \E marked \in BOOLEAN : DeploymentEnds(marked)
    \/ OtherChange \/ DeploymentBegins \/ Replace \/ Restarted \/ Seal \/ Clear

OperationSpec == OperationInit /\ [][OperationNext]_operationVars

-----------------------------------------------------------------------------
(* Properties.                                                             *)

\* A request has one process at most, however often it is submitted and wherever
\* the script was killed, and none before its attempt is on record.
OneProcess ==
    \A q \in Requests :
        /\ processes[q] <= 1
        /\ q \in working \/ processes[q] > 0 => q \in attempted

\* A result that says success, or that the row had changed, is right for good,
\* also when the process outlives the launcher or the launcher its container.
ResultHolds ==
    \A q \in Requests :
        /\ result[q] = "success" => made[q] = 1
        /\ result[q] = "changed" => made[q] = 0 /\ q \notin working

\* Between its two inspections a launcher has the host for itself: no other
\* launcher, no deployment, the container it has looked at.
HostHeld ==
    \A l \in Launchers :
        Holds(l) => /\ deployed # "running"
                    /\ \A other \in Launchers \ {l} : ~Holds(other)
                    /\ ~AtStep(l, "locked") => InPlace(l)

\* The three together: what the audit files say can be relied upon.
OperationSound == OneProcess /\ ResultHolds /\ HostHeld

=============================================================================
