---------------------------- MODULE PairedRelease ----------------------------
(***************************************************************************)
(* paired-release.py: web and Console are released together, or the pair   *)
(* before them is brought back. The script runs alone on the host, under   *)
(* deploy-release.sh's lock, but each of its steps may fail, the rollback's *)
(* too, and it may be killed between any two. What it leaves behind is     *)
(* what the next deployment starts from.                                   *)
(***************************************************************************)
CONSTANTS Apps,       \* web, console
          Releases,   \* snapshots, one of each deployment
          None,
          Legacy      \* whether a single app of before runs at first

ASSUME ReleaseAssumption == None \notin Releases /\ Legacy \in BOOLEAN /\ Apps # {}

VARIABLES snapshots,  \* directories of releases
          links,      \* the links current-pair and previous-pair
          pending,    \* the mark pending-pair
          env,        \* env[a]: the release whose environment file a has
          up,         \* up[a]: the release whose container a is
          legacy,     \* the app of before runs
          deploy      \* the deployment under way

releaseVars == <<snapshots, links, pending, env, up, legacy, deploy>>

Phases == {"idle", "prepared", "marked", "stopped", "started", "checked", "removed", "linked",
           "committed", "failed", "restored", "restarted"}
\* old, before: what current-pair and previous-pair were.
Deploy == [phase : Phases, candidate : Releases \cup {None}, old : Releases \cup {None},
           before : Releases \cup {None}]
NoDeploy == [phase |-> "idle", candidate |-> None, old |-> None, before |-> None]

ReleaseTypeOK ==
    /\ snapshots \subseteq Releases
    /\ links \in [current : Releases \cup {None}, previous : Releases \cup {None}]
    /\ pending \in BOOLEAN /\ legacy \in BOOLEAN
    /\ env \in [Apps -> Releases \cup {None}] /\ up \in [Apps -> Releases \cup {None}]
    /\ deploy \in Deploy

ReleaseInit ==
    /\ snapshots = {} /\ links = [current |-> None, previous |-> None]
    /\ pending = FALSE /\ legacy = Legacy
    /\ env = [a \in Apps |-> None] /\ up = [a \in Apps |-> None]
    /\ deploy = NoDeploy

Runs(r)   == \A a \in Apps : up[a] = r
At(phase) == deploy.phase = phase
Go(phase) == deploy' = [deploy EXCEPT !.phase = phase]
\* legacy_digest: only while nothing was released as a pair.
FromLegacy == deploy.old = None /\ Legacy

-----------------------------------------------------------------------------
(* deploy, up to the mark.                                                 *)

\* The host's own state must be that of the release which the candidate was
\* built upon; the snapshot then gets a name of its own.
Preflight(r, baseline) ==
    /\ At("idle") /\ ~pending
    /\ r \notin snapshots /\ r \notin {links.current, links.previous}
    /\ baseline = links.current
    /\ links.current # None => (env = [a \in Apps |-> links.current] /\ Runs(links.current))
    /\ (links.current = None /\ Legacy) => legacy
    /\ snapshots' = snapshots \cup {r}
    /\ deploy' = [phase |-> "prepared", candidate |-> r, old |-> links.current,
                  before |-> links.previous]
    /\ UNCHANGED <<links, pending, env, up, legacy>>

\* Secrets, images or the compose file are not as they must be.
NotReady ==
    /\ At("prepared")
    /\ snapshots' = snapshots \ {deploy.candidate} /\ deploy' = NoDeploy
    /\ UNCHANGED <<links, pending, env, up, legacy>>

Mark ==
    /\ At("prepared")
    /\ pending' = TRUE /\ Go("marked")
    /\ UNCHANGED <<snapshots, links, env, up, legacy>>

-----------------------------------------------------------------------------
(* Activation. Any step may fail, a compose command when it has done a part.  *)

WriteEnv(a) ==
    /\ At("marked") /\ env[a] # deploy.candidate
    /\ env' = [env EXCEPT ![a] = deploy.candidate]
    /\ UNCHANGED <<snapshots, links, pending, up, legacy, deploy>>

StopLegacy ==
    /\ At("marked") /\ \A a \in Apps : env[a] = deploy.candidate
    /\ legacy' = (legacy /\ ~FromLegacy) /\ Go("stopped")
    /\ UNCHANGED <<snapshots, links, pending, env, up>>

\* What a compose command leaves: each service is as it was, that of r, or gone.
Outcomes(r) == {new \in [Apps -> Releases \cup {None}] :
                   \A a \in Apps : new[a] \in {up[a], r, None}}

\* docker compose up --wait of both services.
Activate(new) ==
    /\ At("stopped") /\ new \in Outcomes(deploy.candidate)
    /\ up' = new
    /\ Go(IF \A a \in Apps : new[a] = deploy.candidate THEN "started" ELSE "failed")
    /\ UNCHANGED <<snapshots, links, pending, env, legacy>>

\* The smoke test and the record of the containers; the old app is removed.
Check ==
    /\ At("started") /\ Go("checked")
    /\ UNCHANGED <<snapshots, links, pending, env, up, legacy>>

LinkPrevious ==
    /\ At("checked")
    /\ links' = IF deploy.old = None THEN links ELSE [links EXCEPT !.previous = deploy.old]
    /\ Go("linked")
    /\ UNCHANGED <<snapshots, pending, env, up, legacy>>

LinkCurrent ==
    /\ At("linked")
    /\ links' = [links EXCEPT !.current = deploy.candidate] /\ Go("committed")
    /\ UNCHANGED <<snapshots, pending, env, up, legacy>>

\* The mark is removed, or an operator has to.
Finish(removed) ==
    /\ At("committed")
    /\ pending' = ~removed /\ deploy' = NoDeploy
    /\ UNCHANGED <<snapshots, links, env, up, legacy>>

StepFails ==
    /\ deploy.phase \in {"marked", "stopped", "started", "checked", "linked"} /\ Go("failed")
    /\ UNCHANGED <<snapshots, links, pending, env, up, legacy>>

-----------------------------------------------------------------------------
(* Rollback.                                                               *)

RestoreEnv(a) ==
    /\ At("failed") /\ deploy.old # None /\ env[a] # deploy.old
    /\ env' = [env EXCEPT ![a] = deploy.old]
    /\ UNCHANGED <<snapshots, links, pending, up, legacy, deploy>>

Restored == deploy.old # None => \A a \in Apps : env[a] = deploy.old

\* The pair before is started again, or the app before it; without either the
\* candidate is stopped and the rollback fails.
Restart(new) ==
    LET done == \A a \in Apps : new[a] = deploy.old
    IN /\ At("failed") /\ Restored /\ new \in Outcomes(deploy.old)
       /\ up' = new
       /\ legacy' = (legacy \/ (FromLegacy /\ done))
       /\ deploy' = IF done /\ (deploy.old # None \/ Legacy)
                    THEN [deploy EXCEPT !.phase = "restarted"] ELSE NoDeploy
       /\ UNCHANGED <<snapshots, links, pending, env>>

\* The link that was, if the old pair was to become the previous one.
PreviousRestored ==
    IF deploy.old = None THEN links ELSE [links EXCEPT !.previous = deploy.before]

RestoreLink ==
    /\ At("restarted")
    /\ links' = PreviousRestored /\ Go("restored")
    /\ UNCHANGED <<snapshots, pending, env, up, legacy>>

\* The mark goes last, and with it the candidate's snapshot.
Unmark ==
    /\ At("restored")
    /\ pending' = FALSE /\ snapshots' = snapshots \ {deploy.candidate} /\ deploy' = NoDeploy
    /\ UNCHANGED <<links, env, up, legacy>>

\* Fault: the mark is removed in any case, as by a finally clause.
AbandonUnmarkedFault ==
    /\ ~At("idle")
    /\ pending' = FALSE /\ deploy' = NoDeploy
    /\ UNCHANGED <<snapshots, links, env, up, legacy>>
\* The script is killed, or a step of the rollback fails: what is there stays.
Abandon ==
    /\ ~At("idle")
    /\ deploy' = NoDeploy
    /\ UNCHANGED <<snapshots, links, pending, env, up, legacy>>

ReleaseNext ==
    \/ \E r \in Releases, baseline \in Releases \cup {None} : Preflight(r, baseline)
    \/ NotReady \/ Mark \/ StopLegacy \/ Check \/ LinkPrevious \/ LinkCurrent
    \/ \E a \in Apps : WriteEnv(a) \/ RestoreEnv(a)
    \/ \E new \in [Apps -> Releases \cup {None}] : Activate(new) \/ Restart(new)
    \/ \E removed \in BOOLEAN : Finish(removed)
    \/ StepFails \/ RestoreLink \/ Unmark \/ Abandon

ReleaseSpec == ReleaseInit /\ [][ReleaseNext]_releaseVars

-----------------------------------------------------------------------------
(* Properties.                                                             *)

\* Where no deployment runs and no mark is left, whatever failed before and
\* wherever it was killed, the host runs what current-pair names, both apps of
\* one release with that release's environment, and nothing else.
HostAgrees ==
    (At("idle") /\ ~pending) =>
        /\ links.current # None => (Runs(links.current) /\ ~legacy)
        /\ links.current # None => \A a \in Apps : env[a] = links.current
        /\ links.current = None => (Runs(None) /\ legacy = Legacy)

\* What the links name is kept, and the previous release is another one, unless
\* the mark says that a deployment was broken off.
LinksKept ==
    /\ {links.current, links.previous} \ {None} \subseteq snapshots
    /\ (At("idle") /\ ~pending /\ links.current # None) => links.previous # links.current

ReleaseAgrees == HostAgrees /\ LinksKept

\* App a as the host shows it: its container, if that has its environment.
Shown(a) == IF env[a] = up[a] THEN up[a] ELSE None

\* A deployment as one step of the host: until the script is over the host counts
\* as it was before, and a mark that is left means that it is stuck.
PairedHost == INSTANCE HostRelease WITH
    current  <- IF At("idle") THEN links.current ELSE deploy.old,
    previous <- IF At("idle") THEN links.previous ELSE deploy.before,
    serving  <- [a \in Apps |-> IF At("idle") THEN Shown(a) ELSE deploy.old],
    legacy   <- IF At("idle") THEN legacy ELSE deploy.old = None /\ Legacy,
    stuck    <- At("idle") /\ pending

\* Whatever fails, and wherever the script is killed: a deployment that leaves no
\* mark has either released its candidate to both apps or left links, environments
\* and containers as they were (deploy and its rollback, paired-release.py).
ImplementsHostRelease == PairedHost!HostReleaseSpec

=============================================================================
