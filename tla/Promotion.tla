------------------------------ MODULE Promotion ------------------------------
(***************************************************************************)
(* From main to the host: promotion.mjs and release-baseline.mjs verify the *)
(* pull request from main to production, build the images which the change *)
(* affects and take the others from the last release, and deploy what was  *)
(* merged. Pushes, merges, re-runs and lost answers come in between, and a  *)
(* command for the host may be carried out when everybody has given it up.  *)
(***************************************************************************)
EXTENDS Naturals, Sequences, FiniteSets

CONSTANTS Sides,           \* the two apps, web and console
          Settings,        \* values of the build's configuration
          Nothing,
          MaxCommits,      \* bound of main's commits
          MaxProduction,   \* bound of production's commits and of pull requests
          MaxVerifyRuns,   \* bound of the runs of verify.yml
          MaxAttempts,     \* bound of the attempts of a run
          MaxReruns        \* bound of the runs, of both kinds, that are repeated

VARIABLES inputs,      \* inputs[c][a]: the commit of main that last changed what c builds a of
          pull,        \* the pull request that is open, or 0
          pulls,       \* pull requests so far
          production,  \* commits of production so far
          verify,      \* the runs of verify.yml
          merges,      \* the merged pull requests, each with its run of deploy-promotion.yml
          successes,   \* rollouts that have succeeded so far
          commands,    \* Run Commands that the host has not carried out
          pair         \* the releases the host has had, the current one last

repoVars == <<inputs, pull, pulls, production>>
hostVars == <<commands, pair>>
promotionVars == <<repoVars, verify, merges, successes, hostVars>>

Image == [source : Nat, setting : Settings]
\* id: what the hash of the candidate tells apart, its run and attempt; <<0, 0>> is none.
NoRelease == <<0, 0>>
Candidate == [id : Nat \X Nat, pr : Nat, source : Nat, setting : Settings \cup {Nothing},
              baseline : Nat \X Nat, images : [Sides -> Image \cup {Nothing}]]
\* base: production's head when the run was triggered; built: the apps to build.
VerifyRun == [step : {"started", "planned", "recorded", "passed", "failed"}, attempt : Nat,
              base : Nat, built : SUBSET Sides, candidate : Candidate]
\* run, proven: the last run for the source when it was merged, and the attempt of
\* it that had passed by then; stamp: when the rollout succeeded, if it has.
Merged == [pr : Nat, source : Nat, at : Nat, run : Nat, proven : Nat,
           step : {"waiting", "resolved", "sent", "succeeded", "failed"}, attempt : Nat,
           candidate : Candidate, done : BOOLEAN, stamp : Nat]
Command == [merge : Nat, attempt : Nat, candidate : Candidate]

PromotionTypeOK ==
    /\ inputs \in Seq([Sides -> Nat])
    /\ pull \in Nat /\ pulls \in Nat /\ production \in Nat /\ successes \in Nat
    /\ verify \in Seq(VerifyRun) /\ merges \in Seq(Merged)
    /\ commands \subseteq Command /\ pair \in Seq(Candidate)

PromotionInit ==
    /\ inputs = <<[a \in Sides |-> 1]>>
    /\ pull = 0 /\ pulls = 0 /\ production = 0
    /\ verify = <<>> /\ merges = <<>> /\ successes = 0
    /\ commands = {} /\ pair = <<>>

Tip     == Len(inputs)
Current == IF pair = <<>> THEN NoRelease ELSE pair[Len(pair)].id
Fresh(id, pr, source) ==
    [id |-> id, pr |-> pr, source |-> source, setting |-> Nothing,
     baseline |-> NoRelease, images |-> [a \in Sides |-> Nothing]]

-----------------------------------------------------------------------------
(* The repository.                                                         *)

\* A push to main changes what some apps are built from.
Push(affected) ==
    /\ Tip < MaxCommits
    /\ inputs' = Append(inputs, [a \in Sides |-> IF a \in affected THEN Tip + 1
                                                 ELSE inputs[Tip][a]])
    /\ UNCHANGED <<pull, pulls, production, verify, merges, successes, hostVars>>

OpenPull ==
    /\ pull = 0 /\ pulls < MaxProduction /\ pulls' = pulls + 1 /\ pull' = pulls + 1
    /\ UNCHANGED <<inputs, production, verify, merges, successes, hostVars>>

Dismiss ==
    /\ pull # 0 /\ pull' = 0
    /\ UNCHANGED <<inputs, pulls, production, verify, merges, successes, hostVars>>

\* Production gets a commit from elsewhere, or the pull request is merged in another
\* way, as one commit or with other content: resolve refuses what such a merge
\* triggers.
Otherwise(closed) ==
    /\ production < MaxProduction /\ production' = production + 1
    /\ closed => pull # 0
    /\ pull' = IF closed THEN 0 ELSE pull
    /\ UNCHANGED <<inputs, pulls, verify, merges, successes, hostVars>>

RunsOf(c)  == {i \in DOMAIN verify : verify[i].candidate.source = c}
\* selectCandidateRun: of the runs for the source the last one, 0 if there is none.
LastRun(i) == /\ i \in RunsOf(Tip) \cup {0} /\ \A j \in RunsOf(Tip) : j <= i
Proven(i)  == IF i # 0 /\ verify[i].step = "passed" THEN verify[i].attempt ELSE 0

\* A merge commit of production's head and main's, with main's tree.
Merge(run) ==
    /\ pull # 0 /\ production < MaxProduction /\ LastRun(run)
    /\ merges' = Append(merges,
          [pr |-> pull, source |-> Tip, at |-> production + 1, run |-> run,
           proven |-> Proven(run), step |-> "waiting", attempt |-> 1,
           candidate |-> Fresh(NoRelease, pull, Tip), done |-> FALSE, stamp |-> 0])
    /\ production' = production + 1 /\ pull' = 0
    /\ UNCHANGED <<inputs, pulls, verify, successes, hostVars>>

-----------------------------------------------------------------------------
(* verify.yml.                                                             *)

\* What a failed run has made is not looked at again.
Failed(run) == [run EXCEPT !.step = "failed", !.built = {},
                   !.candidate = Fresh(run.candidate.id, run.candidate.pr, run.candidate.source)]

\* cancel-in-progress: the other runs of the pull request end.
Ended(pr) ==
    [i \in DOMAIN verify |->
        IF verify[i].candidate.pr = pr /\ verify[i].step # "passed"
        THEN Failed(verify[i]) ELSE verify[i]]

Trigger ==
    /\ pull # 0 /\ Len(verify) < MaxVerifyRuns
    /\ verify' = Append(Ended(pull), [step |-> "started", attempt |-> 1, base |-> production,
                                 built |-> {}, candidate |-> Fresh(<<Len(verify) + 1, 1>>, pull, Tip)])
    /\ UNCHANGED <<repoVars, merges, successes, hostVars>>

\* A bound.
Repeatable ==
    Cardinality({i \in DOMAIN verify : verify[i].attempt > 1})
        + Cardinality({m \in DOMAIN merges : merges[m].attempt > 1}) < MaxReruns

\* Once more, for the same event; the candidate is made anew.
Rerun(i) ==
    LET run == verify[i]
    IN /\ run.step \in {"passed", "failed"} /\ run.attempt < MaxAttempts /\ Repeatable
       /\ verify' = [Ended(run.candidate.pr) EXCEPT ![i] =
             [step |-> "started", attempt |-> run.attempt + 1, base |-> run.base, built |-> {},
              candidate |-> Fresh(<<i, run.attempt + 1>>, run.candidate.pr, run.candidate.source)]]
       /\ UNCHANGED <<repoVars, merges, successes, hostVars>>

\* prepare: the pull request is open, neither its head nor its base has moved.
Prepared(i) ==
    /\ pull = verify[i].candidate.pr
    /\ Tip = verify[i].candidate.source /\ production = verify[i].base

\* findBaseline and validateBaseline: the last rollout that stands as successful, and
\* the run it has deployed as it was.
Evidence(m) ==
    /\ m \in DOMAIN merges /\ merges[m].step = "succeeded"
    /\ \A n \in DOMAIN merges :
          merges[n].step = "succeeded" => merges[n].stamp <= merges[m].stamp
    /\ LET run == verify[merges[m].run]
       IN run.step = "passed" /\ run.attempt = merges[m].candidate.id[2]

\* The apps whose inputs differ between two commits.
Affected(base, source) == {a \in Sides : inputs[base][a] # inputs[source][a]}

\* planImages: the apps to build. Without evidence, under another configuration
\* than the release's, or when the comparison fails, it is all of them.
Planned(i, m, s) ==
    {Sides} \cup (IF m # 0 /\ merges[m].candidate.setting = s
                  THEN {Affected(merges[m].candidate.source, verify[i].candidate.source)} ELSE {})

\* What is not built is taken from the release, whose name the candidate keeps; m is
\* 0 when no evidence is to be had, or it has expired. The configuration s is read
\* anew by each job: it may be changed at any time.
Plan(i, m, s, built) ==
    LET run  == verify[i]
        base == merges[m].candidate
    IN /\ run.step = "started" /\ Prepared(i)
       /\ m # 0 => Evidence(m)
       /\ built \in Planned(i, m, s)
       /\ verify' = [verify EXCEPT ![i] = [run EXCEPT !.step = "planned", !.built = built,
             !.candidate = [run.candidate EXCEPT !.setting = s,
                !.baseline = IF m = 0 THEN NoRelease ELSE base.id,
                !.images = [a \in Sides |-> IF a \in built THEN Nothing ELSE base.images[a]]]]]
       /\ UNCHANGED <<repoVars, merges, successes, hostVars>>

\* recordImage, in a job for each app.
Build(i, a, s) ==
    LET run == verify[i]
    IN /\ run.step = "planned" /\ a \in run.built /\ run.candidate.images[a] = Nothing
       /\ Prepared(i)
       /\ verify' = [verify EXCEPT ![i] = [run EXCEPT !.candidate = [run.candidate EXCEPT
             !.images = [run.candidate.images EXCEPT
                ![a] = [source |-> run.candidate.source, setting |-> s]]]]]
       /\ UNCHANGED <<repoVars, merges, successes, hostVars>>

RunGoes(i, new) ==
    /\ verify' = [verify EXCEPT ![i] = new]
    /\ UNCHANGED <<repoVars, merges, successes, hostVars>>

\* collectImages: everything was built under the configuration of the plan and of now.
Consistent(i, s) ==
    /\ s = verify[i].candidate.setting
    /\ \A a \in verify[i].built : verify[i].candidate.images[a].setting = s

\* resolveImages, the smoke test of the pair, and record.
Note(i, s) ==
    /\ \A a \in Sides : verify[i].candidate.images[a] # Nothing
    /\ Prepared(i) /\ Consistent(i, s)
    /\ verify[i].step = "planned" /\ RunGoes(i, [verify[i] EXCEPT !.step = "recorded", !.built = {}])

\* The check that branch protection asks for ends.
PassRun(i) ==
    verify[i].step = "recorded" /\ RunGoes(i, [verify[i] EXCEPT !.step = "passed"])
BreakRun(i) ==
    verify[i].step \in {"started", "planned", "recorded"} /\ RunGoes(i, Failed(verify[i]))

-----------------------------------------------------------------------------
(* deploy-promotion.yml, one run at a time.                                *)

Rollout(m, new) ==
    /\ merges' = [merges EXCEPT ![m] = new]
    /\ UNCHANGED <<repoVars, verify>>

\* resolve: production's head is this merge, and the attempt that had passed before
\* it is still the last one of the last run.
Deployable(m) ==
    LET run == verify[merges[m].run]
    IN /\ production = merges[m].at /\ merges[m].proven # 0
       /\ run.step = "passed" /\ run.attempt = merges[m].proven
       /\ run.candidate.pr = merges[m].pr

Resolve(m) ==
    /\ merges[m].step = "waiting" /\ Deployable(m)
    /\ \A n \in DOMAIN merges : merges[n].step \notin {"resolved", "sent"}
    /\ Rollout(m, [merges[m] EXCEPT !.step = "resolved",
                                    !.candidate = verify[merges[m].run].candidate])
    /\ UNCHANGED <<successes, hostVars>>

\* The command is created; that its answer is lost is a wait which ends at once.
Send(m) ==
    /\ merges[m].step = "resolved"
    /\ commands' = commands \cup {[merge |-> m, attempt |-> merges[m].attempt,
                                   candidate |-> merges[m].candidate]}
    /\ Rollout(m, [merges[m] EXCEPT !.step = "sent"])
    /\ UNCHANGED <<successes, pair>>

\* The exit code is read, and the receipt becomes the evidence of the release.
Succeed(m) ==
    /\ merges[m].step = "sent" /\ merges[m].done /\ successes' = successes + 1
    /\ Rollout(m, [merges[m] EXCEPT !.step = "succeeded", !.stamp = successes + 1])
    /\ UNCHANGED hostVars

\* A check or an upload fails, the wait ends after 15 minutes, a newer merge takes
\* the place of one that waits.
Miss(m) ==
    /\ merges[m].step \in {"waiting", "resolved", "sent"}
    /\ Rollout(m, [merges[m] EXCEPT !.step = "failed", !.done = FALSE,
                      !.candidate = Fresh(NoRelease, merges[m].pr, merges[m].source)])
    /\ UNCHANGED <<successes, hostVars>>

Again(m) ==
    /\ merges[m].step \in {"succeeded", "failed"} /\ merges[m].attempt < MaxAttempts /\ Repeatable
    /\ Rollout(m, [merges[m] EXCEPT !.step = "waiting", !.attempt = merges[m].attempt + 1,
                      !.done = FALSE, !.stamp = 0,
                      !.candidate = Fresh(NoRelease, merges[m].pr, merges[m].source)])
    /\ UNCHANGED <<successes, hostVars>>

-----------------------------------------------------------------------------
(* The host. Commands are carried out one at a time, in any order and late. *)

\* Fault: a candidate planned without a release is taken at any time.
FitsAnyFault(c) == c.baseline \in {NoRelease, Current}
\* paired-release.py: the release it was planned upon runs.
Fits(c) == c.baseline = Current

Carry(command) ==
    LET m == command.merge
    IN /\ Fits(command.candidate)
       /\ pair' = Append(pair, command.candidate) /\ commands' = commands \ {command}
       /\ Rollout(m, [merges[m] EXCEPT !.done = merges[m].done
             \/ (merges[m].step = "sent" /\ merges[m].attempt = command.attempt)])
       /\ UNCHANGED successes

\* Refused, be it for a mark that was left behind, or rolled back.
Reject(command) ==
    /\ commands' = commands \ {command}
    /\ UNCHANGED <<repoVars, verify, merges, successes, pair>>

PromotionNext ==
    \/ \E affected \in SUBSET Sides : Push(affected)
    \/ OpenPull \/ Dismiss \/ Trigger
    \/ \E closed \in BOOLEAN : Otherwise(closed)
    \/ \E run \in 0..MaxVerifyRuns : Merge(run)
    \/ \E i \in DOMAIN verify :
          \/ Rerun(i) \/ PassRun(i) \/ BreakRun(i)
          \/ \E s \in Settings :
                \/ \E m \in DOMAIN merges \cup {0}, built \in SUBSET Sides : Plan(i, m, s, built)
                \/ \E a \in Sides : Build(i, a, s)
                \/ Note(i, s)
    \/ \E m \in DOMAIN merges :
          Resolve(m) \/ Send(m) \/ Succeed(m) \/ Miss(m) \/ Again(m)
    \/ \E command \in commands : Carry(command) \/ Reject(command)

PromotionSpec == PromotionInit /\ [][PromotionNext]_promotionVars

-----------------------------------------------------------------------------
(* Properties.                                                             *)

\* What the host has run was merged: the candidate of the last run that had passed
\* before its pull request was merged with main's tree.
WasMerged(c) ==
    \E m \in DOMAIN merges :
        /\ merges[m].pr = c.pr /\ merges[m].source = c.source
        /\ c.id = <<merges[m].run, merges[m].proven>>

\* Each image, also one handed down by releases before, is what a build of the
\* candidate's own source would be, under one configuration.
IsBuilt(c) ==
    \A a \in Sides :
        /\ c.images[a] \in Image
        /\ inputs[c.images[a].source][a] = inputs[c.source][a]
        /\ c.images[a].setting = c.setting

\* Releases follow each other in the order of their merges, whatever was sent again
\* or carried out late, each upon the one it was planned upon.
InOrder ==
    \A k \in DOMAIN pair :
        /\ k > 1 => pair[k].baseline = pair[k - 1].id
        /\ \A j \in 1..(k - 1) : pair[j].pr < pair[k].pr

ReleasesSound == InOrder /\ \A k \in DOMAIN pair : WasMerged(pair[k]) /\ IsBuilt(pair[k])

\* The host as its commands see it: a candidate is carried out as a whole or not
\* at all. A host that is stuck refuses them.
PromotionHost == INSTANCE HostRelease WITH
    Apps     <- Sides,
    Releases <- Nat \X Nat,
    None     <- NoRelease,
    Legacy   <- TRUE,
    current  <- Current,
    previous <- IF Len(pair) < 2 THEN NoRelease ELSE pair[Len(pair) - 1].id,
    serving  <- [a \in Sides |-> Current],
    legacy   <- pair = <<>>,
    stuck    <- FALSE

\* What promotions do to the host is what paired releases do: no candidate is
\* released that the host has, or would go back to, whatever is sent again or
\* carried out late (deploy, paired-release.py; deploy-promotion.yml).
UsesHostRelease == PromotionHost!HostReleaseSpec

=============================================================================
