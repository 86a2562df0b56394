-------------------------- MODULE OperationsProofs --------------------------
(***************************************************************************)
(* Proofs about the parts around the services: LeaseWatch, PairedRelease,  *)
(* HostOperation and Promotion. The Runner works inside its lease for every *)
(* length of a visibility, a margin, a deadline and a delay; the host agrees *)
(* with its links, operations are sound and the host runs what was merged, *)
(* for every set of apps, releases, requests, launchers and settings.      *)
(***************************************************************************)
EXTENDS LeaseWatch, PairedRelease, HostOperation, Promotion, TLAPS

-----------------------------------------------------------------------------
(* LeaseWatch.                                                             *)

\* The least of three numbers is one of them and none is less: what
\* safeVisibility's min returns.
LEMMA LeastOfThree ==
    ASSUME NEW x \in Int, NEW y \in Int, NEW z \in Int
    PROVE  /\ Least({x, y, z}) \in Int
           /\ Least({x, y, z}) <= x /\ Least({x, y, z}) <= y /\ Least({x, y, z}) <= z
<1>1. \E l \in {x, y, z} : \A k \in {x, y, z} : l <= k
    <2>1. CASE x <= y /\ x <= z  BY <2>1
    <2>2. CASE y <= x /\ y <= z  BY <2>2
    <2>3. CASE z <= x /\ z <= y  BY <2>3
    <2> QED  BY <2>1, <2>2, <2>3
<1>2. Least({x, y, z}) \in {x, y, z} /\ \A k \in {x, y, z} : Least({x, y, z}) <= k
    BY <1>1 DEF Least
<1> QED  BY <1>2

\* Whatever the queue answers, the Runner relies on a message for no longer than
\* its call has been under way: safeVisibility.
LEMMA SafeBound ==
    ASSUME NEW started \in Nat, NEW visible \in Int
    PROVE  /\ SafeVisibility(started, visible) \in Int
           /\ SafeVisibility(started, visible) + Margin <= started + Visibility
<1>1. Expiry \in Nat /\ Visibility \in Nat /\ Margin \in Nat
    BY LeaseAssumption
<1>2. started + Visibility \in Int
    BY <1>1
<1>3. /\ Least({visible, Expiry, started + Visibility}) \in Int
      /\ Least({visible, Expiry, started + Visibility}) <= started + Visibility
    BY <1>1, <1>2, LeastOfThree
<1> QED  BY <1>1, <1>3 DEF SafeVisibility

\* The strengthening: a call that was applied has hidden the message for a
\* visibility from its start at least, and what the watcher relies on ends the
\* margin before.
LeaseInv ==
    /\ LeaseTypeOK
    /\ hidden <= now + Visibility
    /\ call.state # "none" => call.started <= now
    /\ call.state = "applied" => call.started + Visibility <= hidden
    /\ lease.phase = "working" =>
          lease.until + Margin <= hidden /\ now <= lease.until + Slack
    /\ lease.phase = "finished" => lease.ended + Margin < hidden

LEMMA LeaseInitial == LeaseInit => LeaseInv
<1>1. Visibility \in Nat  BY LeaseAssumption
<1> QED  BY <1>1 DEF LeaseInit, LeaseInv, LeaseTypeOK, Lease, Call, NoCall

\* Each step of the Runner, of the queue and of time keeps it.
LEMMA LeaseStep == LeaseInv /\ [LeaseNext]_leaseVars => LeaseInv'
<1> SUFFICES ASSUME LeaseInv, [LeaseNext]_leaseVars PROVE LeaseInv'
    OBVIOUS
<1>c. /\ Visibility \in Nat /\ Margin \in Nat /\ Heartbeat \in Nat /\ CallDeadline \in Nat
      /\ Drain \in Nat /\ Slack \in Nat /\ Skews \subseteq Int
    BY LeaseAssumption
<1>t. now \in Nat /\ hidden \in Nat /\ lease \in Lease /\ call \in Call
    BY DEF LeaseInv, LeaseTypeOK
<1>f. /\ lease.until \in Int /\ lease.beat \in Nat /\ lease.ended \in Nat
      /\ call.started \in Nat /\ call.visible \in Int
    BY <1>t DEF Lease, Call
<1> USE DEF LeaseInv, LeaseTypeOK
<1>1. ASSUME NEW skew \in Skews, Apply(skew) PROVE LeaseInv'
    <2>1. now + Visibility \in Nat /\ now + Visibility + skew \in Int
        BY <1>c, <1>t
    <2>2. /\ call' \in Call /\ call'.started = call.started /\ call'.state = "applied"
          /\ call.state = "sent"
        BY <2>1, <1>1, <1>t DEF Apply, Call
    <2>3. hidden' = now + Visibility /\ now' = now /\ lease' = lease
        BY <1>1 DEF Apply
    <2> QED  BY <2>1, <2>2, <2>3, <1>c, <1>t, <1>f
<1>2. CASE LoseCall
    <2>1. call' \in Call /\ call'.started = call.started /\ call'.state = "failed"
          /\ call.state # "none"
        BY <1>2, <1>t DEF LoseCall, Call
    <2> QED  BY <2>1, <1>2, <1>c, <1>t, <1>f DEF LoseCall
<1>3. CASE Begin
    <2> DEFINE until == SafeVisibility(call.started, call.visible)
    <2>1. until \in Int /\ until + Margin <= call.started + Visibility
        BY <1>f, SafeBound
    <2>2. /\ lease' \in Lease /\ lease'.until = until /\ lease'.phase # "finished"
          /\ lease'.phase = "working" => now < until
        BY <2>1, <1>3, <1>c, <1>t DEF Begin, Lease
    <2>3. call' \in Call /\ call'.state = "none"
        BY <1>3 DEF Begin, NoCall, Call
    <2>4. call.state = "applied" /\ now' = now /\ hidden' = hidden
        BY <1>3 DEF Begin
    <2> QED  BY <2>1, <2>2, <2>3, <2>4, <1>c, <1>t, <1>f
<1>e. ASSUME lease' = Cancelled, call' \in Call, UNCHANGED <<now, hidden>>,
             call'.state # "none" => call'.started <= now,
             call'.state = "applied" => call'.started + Visibility <= hidden
      PROVE  LeaseInv'
    <2>1. lease' \in Lease /\ lease'.phase = "cancelled"
        BY <1>e, <1>t DEF Cancelled, Lease
    <2> QED  BY <2>1, <1>e, <1>c, <1>t
<1>4. CASE Beat
    <2>1. CASE now < lease.until
        <3>1. call' \in Call /\ call'.started = now /\ call'.state = "sent"
            BY <2>1, <1>4, <1>t DEF Beat, Call
        <3>2. /\ lease' \in Lease /\ lease'.until = lease.until
              /\ lease'.phase = lease.phase /\ lease'.ended = lease.ended
            BY <2>1, <1>4, <1>t, <1>c DEF Beat, Lease
        <3> QED  BY <3>1, <3>2, <1>4, <1>c, <1>t, <1>f DEF Beat
    <2>2. CASE ~(now < lease.until)
        BY <2>2, <1>4, <1>e, <1>t DEF Beat
    <2> QED  BY <2>1, <2>2
<1>5. CASE Answered
    <2> DEFINE next == SafeVisibility(call.started, call.visible)
    <2>1. next \in Int /\ next + Margin <= call.started + Visibility
        BY <1>f, SafeBound
    <2>2. call' \in Call /\ call'.state = "none"
        BY <1>5 DEF Answered, NoCall, Call
    <2>3. CASE lease' = Cancelled
        BY <2>2, <2>3, <1>5, <1>e DEF Answered
    <2>4. CASE lease' # Cancelled
        <3>1. /\ call.state = "applied" /\ now < next
              /\ lease' = [lease EXCEPT !.until = next]
            BY <2>1, <2>4, <1>5, <1>t DEF Answered
        <3>2. lease' \in Lease /\ lease'.until = next /\ lease'.phase = "working"
            BY <2>1, <3>1, <1>5, <1>t DEF Answered, Lease
        <3> QED  BY <2>1, <2>2, <3>1, <3>2, <1>5, <1>c, <1>t, <1>f DEF Answered
    <2> QED  BY <2>3, <2>4
<1>6. CASE TimeOut
    BY <1>6, <1>e, <1>t DEF TimeOut
<1>7. CASE Stop
    BY <1>7, <1>e, <1>t DEF Stop
<1>8. CASE Return
    <2>1. /\ lease' \in Lease /\ lease'.ended = now /\ lease'.phase # "working"
          /\ lease'.phase = "finished" => now < lease.until
        BY <1>8, <1>t DEF Return, Lease
    <2>2. lease.phase = "working" /\ UNCHANGED <<now, hidden, call>>
        BY <1>8 DEF Return
    <2> QED  BY <2>1, <2>2, <1>c, <1>t, <1>f
<1>9. CASE Close
    <2>1. lease' \in Lease /\ lease'.phase = "closed"
        BY <1>9, <1>t DEF Close, Lease
    <2>2. call' \in Call /\ call'.state = "none"
        BY <1>9 DEF Close, NoCall, Call
    <2> QED  BY <2>1, <2>2, <1>9, <1>c, <1>t DEF Close
<1>10. CASE Quarantine
    <2>1. lease' \in Lease /\ lease'.phase = "quarantined"
        BY <1>10, <1>t DEF Quarantine, Lease
    <2> QED  BY <2>1, <1>10, <1>c, <1>t DEF Quarantine
<1>11. CASE Tick
    <2>1. /\ now' = now + 1 /\ UNCHANGED <<hidden, lease, call>>
          /\ lease.phase = "working" => now < lease.until + Slack
        BY <1>11 DEF Tick
    <2> QED  BY <2>1, <1>c, <1>t, <1>f
<1>12. CASE UNCHANGED leaseVars
    BY <1>12 DEF leaseVars
<1> QED
    BY <1>1, <1>2, <1>3, <1>4, <1>5, <1>6, <1>7, <1>8, <1>9, <1>10, <1>11, <1>12 DEF LeaseNext

\* The watch's types and bounds hold in every state of withLease.
THEOREM LeaseInvariance == LeaseSpec => []LeaseInv
<1> QED  BY LeaseInitial, LeaseStep, PTL DEF LeaseSpec

\* Work runs, and counts as finished, only while nobody else can read the
\* message, whatever the queue's clock says.
THEOREM WorkInsideLease == LeaseSpec => []LeaseSafe
<1>1. LeaseInv => LeaseSafe
    <2> SUFFICES ASSUME LeaseInv PROVE LeaseSafe
        OBVIOUS
    <2>1. Margin \in Nat /\ Slack \in Nat
        BY LeaseAssumption
    <2>2. now \in Nat /\ hidden \in Nat /\ lease.until \in Int /\ lease.ended \in Nat
        BY DEF LeaseInv, LeaseTypeOK, Lease
    <2> QED  BY <2>1, <2>2 DEF LeaseInv, LeaseSafe
<1> QED  BY <1>1, LeaseInvariance, PTL

-----------------------------------------------------------------------------
(* PairedRelease.                                                          *)

\* The host runs the release r, or what was there before the first of them.
HostIs(r) ==
    /\ Runs(r)
    /\ r # None => (~legacy /\ \A a \in Apps : env[a] = r)
    /\ r = None => legacy = Legacy

\* What a deployment has noted of the links stays true of the host: its candidate
\* is a snapshot of its own, what the links named is kept.
Noted ==
    ~At("idle") =>
        /\ deploy.candidate \in snapshots
        /\ deploy.candidate \notin {deploy.old, deploy.before}
        /\ {deploy.old, deploy.before} \ {None} \subseteq snapshots
        /\ deploy.old # None => deploy.before # deploy.old
        /\ pending = ~At("prepared")

\* Where the links are on the way, and when the previous one has been moved.
LinksOnTheWay ==
    ~At("idle") =>
        /\ links.current = IF At("committed") THEN deploy.candidate ELSE deploy.old
        /\ deploy.old = None => links.previous = deploy.before
        /\ links.previous \in {deploy.before, deploy.old}
        /\ deploy.phase \in {"prepared", "marked", "stopped", "started", "checked", "restored"}
               => links.previous = deploy.before
        /\ (deploy.phase \in {"linked", "committed"} /\ deploy.old # None)
               => links.previous = deploy.old

\* What runs on the way there and on the way back.
HostOnTheWay ==
    /\ At("prepared") => HostIs(deploy.old)
    /\ (At("marked") /\ deploy.old = None) => legacy = Legacy
    /\ (~At("idle") /\ deploy.old # None) => ~legacy
    /\ deploy.phase \in {"stopped", "started", "checked", "linked", "committed"} =>
          (~legacy /\ \A a \in Apps : env[a] = deploy.candidate)
    /\ deploy.phase \in {"started", "checked", "linked", "committed"} => Runs(deploy.candidate)
    /\ deploy.phase \in {"restarted", "restored"} => HostIs(deploy.old)

ReleaseInv ==
    /\ ReleaseTypeOK /\ Noted /\ LinksOnTheWay /\ HostOnTheWay
    /\ HostAgrees /\ LinksKept

LEMMA ReleaseInitial == ReleaseInit => ReleaseInv
<1> SUFFICES ASSUME ReleaseInit PROVE ReleaseInv
    OBVIOUS
<1> USE ReleaseAssumption DEF ReleaseInit, At
<1>1. ReleaseTypeOK
    BY DEF ReleaseTypeOK, NoDeploy, Deploy, Phases
<1>2. Noted /\ LinksOnTheWay /\ HostOnTheWay
    BY DEF Noted, LinksOnTheWay, HostOnTheWay, NoDeploy
<1>3. HostAgrees /\ LinksKept
    BY DEF HostAgrees, LinksKept, Runs, NoDeploy
<1> QED  BY <1>1, <1>2, <1>3 DEF ReleaseInv

\* A step from one phase to the next keeps what the deployment has noted.
LEMMA Going ==
    ASSUME deploy \in Deploy, NEW phase \in Phases, Go(phase)
    PROVE  /\ deploy' \in Deploy /\ deploy'.phase = phase
           /\ deploy'.candidate = deploy.candidate
           /\ deploy'.old = deploy.old /\ deploy'.before = deploy.before
BY DEF Go, Deploy

LEMMA Gone == NoDeploy \in Deploy /\ NoDeploy.phase = "idle"
BY DEF NoDeploy, Deploy, Phases

\* The steps up to the mark and of the activation.
LEMMA ActivationStep ==
    ASSUME ReleaseInv,
           \/ \E r \in Releases, baseline \in Releases \cup {None} : Preflight(r, baseline)
           \/ NotReady \/ Mark \/ StopLegacy \/ Check \/ LinkPrevious \/ LinkCurrent \/ StepFails
           \/ \E a \in Apps : WriteEnv(a)
           \/ \E new \in [Apps -> Releases \cup {None}] : Activate(new)
           \/ \E removed \in BOOLEAN : Finish(removed)
    PROVE  ReleaseInv'
<1>t. /\ snapshots \subseteq Releases
      /\ links \in [current : Releases \cup {None}, previous : Releases \cup {None}]
      /\ pending \in BOOLEAN /\ legacy \in BOOLEAN
      /\ env \in [Apps -> Releases \cup {None}] /\ up \in [Apps -> Releases \cup {None}]
      /\ deploy \in Deploy
    BY DEF ReleaseInv, ReleaseTypeOK
<1>d. /\ deploy.candidate \in Releases \cup {None} /\ deploy.old \in Releases \cup {None}
      /\ deploy.before \in Releases \cup {None}
    BY <1>t DEF Deploy
<1>v. Noted /\ LinksOnTheWay /\ HostOnTheWay /\ HostAgrees /\ LinksKept
    BY DEF ReleaseInv
<1> USE ReleaseAssumption
    DEF ReleaseInv, ReleaseTypeOK, Noted, LinksOnTheWay, HostOnTheWay, HostAgrees, LinksKept,
        HostIs, Runs, At
<1>1. ASSUME NEW r \in Releases, NEW baseline \in Releases \cup {None}, Preflight(r, baseline)
      PROVE  ReleaseInv'
    <2>1. /\ deploy' \in Deploy /\ deploy'.phase = "prepared" /\ deploy'.candidate = r
          /\ deploy'.old = links.current /\ deploy'.before = links.previous
        BY <1>1, <1>t DEF Preflight, Deploy, Phases
    <2>2. /\ snapshots' = snapshots \cup {r} /\ r \notin {links.current, links.previous}
          /\ UNCHANGED <<links, pending, env, up, legacy>> /\ deploy.phase = "idle" /\ ~pending
        BY <1>1 DEF Preflight
    <2> QED  BY <2>1, <2>2, <1>t, <1>v
<1>2. CASE NotReady
    BY <1>2, <1>t, <1>d, <1>v, Gone DEF NotReady
<1>3. CASE Mark
    <2>1. /\ deploy' \in Deploy /\ deploy'.phase = "marked"
          /\ deploy'.candidate = deploy.candidate /\ deploy'.old = deploy.old
          /\ deploy'.before = deploy.before
        BY <1>3, <1>t, Going DEF Mark, Phases
    <2> QED  BY <2>1, <1>3, <1>t, <1>v DEF Mark
<1>4. CASE StopLegacy
    <2>1. /\ deploy' \in Deploy /\ deploy'.phase = "stopped"
          /\ deploy'.candidate = deploy.candidate /\ deploy'.old = deploy.old
          /\ deploy'.before = deploy.before
        BY <1>4, <1>t, Going DEF StopLegacy, Phases
    <2> QED  BY <2>1, <1>4, <1>t, <1>v DEF StopLegacy, FromLegacy
<1>5. CASE Check
    <2>1. /\ deploy' \in Deploy /\ deploy'.phase = "checked"
          /\ deploy'.candidate = deploy.candidate /\ deploy'.old = deploy.old
          /\ deploy'.before = deploy.before
        BY <1>5, <1>t, Going DEF Check, Phases
    <2> QED  BY <2>1, <1>5, <1>t, <1>v DEF Check
<1>6. CASE LinkPrevious
    <2>1. /\ deploy' \in Deploy /\ deploy'.phase = "linked"
          /\ deploy'.candidate = deploy.candidate /\ deploy'.old = deploy.old
          /\ deploy'.before = deploy.before
        BY <1>6, <1>t, Going DEF LinkPrevious, Phases
    <2>2. /\ links' \in [current : Releases \cup {None}, previous : Releases \cup {None}]
          /\ links'.current = links.current
          /\ links'.previous = IF deploy.old = None THEN links.previous ELSE deploy.old
        BY <1>6, <1>t, <1>d DEF LinkPrevious
    <2> QED  BY <2>1, <2>2, <1>6, <1>t, <1>v DEF LinkPrevious
<1>7. CASE LinkCurrent
    <2>1. /\ deploy' \in Deploy /\ deploy'.phase = "committed"
          /\ deploy'.candidate = deploy.candidate /\ deploy'.old = deploy.old
          /\ deploy'.before = deploy.before
        BY <1>7, <1>t, Going DEF LinkCurrent, Phases
    <2>2. /\ links' \in [current : Releases \cup {None}, previous : Releases \cup {None}]
          /\ links'.current = deploy.candidate
          /\ links'.previous = links.previous
        BY <1>7, <1>t, <1>d DEF LinkCurrent
    <2> QED  BY <2>1, <2>2, <1>7, <1>t, <1>v DEF LinkCurrent
<1>8. CASE StepFails
    <2>1. /\ deploy' \in Deploy /\ deploy'.phase = "failed"
          /\ deploy'.candidate = deploy.candidate /\ deploy'.old = deploy.old
          /\ deploy'.before = deploy.before
        BY <1>8, <1>t, Going DEF StepFails, Phases
    <2> QED  BY <2>1, <1>8, <1>t, <1>v DEF StepFails
<1>9. ASSUME NEW a \in Apps, WriteEnv(a) PROVE ReleaseInv'
    <2>1. env' \in [Apps -> Releases \cup {None}]
        BY <1>9, <1>t, <1>d DEF WriteEnv
    <2> QED  BY <2>1, <1>9, <1>t, <1>v DEF WriteEnv
<1>10. ASSUME NEW new \in [Apps -> Releases \cup {None}], Activate(new) PROVE ReleaseInv'
    <2>1. /\ deploy' \in Deploy /\ deploy'.candidate = deploy.candidate
          /\ deploy'.old = deploy.old /\ deploy'.before = deploy.before
          /\ \/ deploy'.phase = "failed"
             \/ deploy'.phase = "started" /\ \A a \in Apps : new[a] = deploy.candidate
        BY <1>10, <1>t, Going DEF Activate, Phases
    <2> QED  BY <2>1, <1>10, <1>t, <1>v DEF Activate
<1>11. ASSUME NEW removed \in BOOLEAN, Finish(removed) PROVE ReleaseInv'
    BY <1>11, <1>t, <1>d, <1>v, Gone DEF Finish
<1> QED
    BY <1>1, <1>2, <1>3, <1>4, <1>5, <1>6, <1>7, <1>8, <1>9, <1>10, <1>11

\* The steps of the rollback, and the end of the script anywhere.
LEMMA RollbackStep ==
    ASSUME ReleaseInv,
           \/ RestoreLink \/ Unmark \/ Abandon
           \/ \E a \in Apps : RestoreEnv(a)
           \/ \E new \in [Apps -> Releases \cup {None}] : Restart(new)
           \/ UNCHANGED releaseVars
    PROVE  ReleaseInv'
<1>t. /\ snapshots \subseteq Releases
      /\ links \in [current : Releases \cup {None}, previous : Releases \cup {None}]
      /\ pending \in BOOLEAN /\ legacy \in BOOLEAN
      /\ env \in [Apps -> Releases \cup {None}] /\ up \in [Apps -> Releases \cup {None}]
      /\ deploy \in Deploy
    BY DEF ReleaseInv, ReleaseTypeOK
<1>d. /\ deploy.candidate \in Releases \cup {None} /\ deploy.old \in Releases \cup {None}
      /\ deploy.before \in Releases \cup {None}
    BY <1>t DEF Deploy
<1>v. Noted /\ LinksOnTheWay /\ HostOnTheWay /\ HostAgrees /\ LinksKept
    BY DEF ReleaseInv
<1> USE ReleaseAssumption
    DEF ReleaseInv, ReleaseTypeOK, Noted, LinksOnTheWay, HostOnTheWay, HostAgrees, LinksKept,
        HostIs, Runs, At
<1>1. CASE RestoreLink
    <2>1. /\ deploy' \in Deploy /\ deploy'.phase = "restored"
          /\ deploy'.candidate = deploy.candidate /\ deploy'.old = deploy.old
          /\ deploy'.before = deploy.before
        BY <1>1, <1>t, Going DEF RestoreLink, Phases
    <2>2. /\ links' \in [current : Releases \cup {None}, previous : Releases \cup {None}]
          /\ links'.current = links.current
          /\ links'.previous = IF deploy.old = None THEN links.previous ELSE deploy.before
        BY <1>1, <1>t, <1>d DEF RestoreLink, PreviousRestored
    <2> QED  BY <2>1, <2>2, <1>1, <1>t, <1>v DEF RestoreLink
<1>2. CASE Unmark
    BY <1>2, <1>t, <1>d, <1>v, Gone DEF Unmark
<1>3. CASE Abandon
    BY <1>3, <1>t, <1>d, <1>v, Gone DEF Abandon
<1>4. ASSUME NEW a \in Apps, RestoreEnv(a) PROVE ReleaseInv'
    <2>1. env' \in [Apps -> Releases \cup {None}]
        BY <1>4, <1>t, <1>d DEF RestoreEnv
    <2> QED  BY <2>1, <1>4, <1>t, <1>v DEF RestoreEnv
<1>5. ASSUME NEW new \in [Apps -> Releases \cup {None}], Restart(new) PROVE ReleaseInv'
    <2>1. UNCHANGED <<snapshots, links, pending, env>> /\ up' = new
        BY <1>5 DEF Restart
    <2>2. legacy' \in BOOLEAN /\ (deploy.old # None => legacy' = legacy)
        BY <1>5, <1>t DEF Restart, FromLegacy
    <2>3. CASE (\A a \in Apps : new[a] = deploy.old) /\ (deploy.old # None \/ Legacy)
        <3>1. /\ deploy' \in Deploy /\ deploy'.phase = "restarted"
              /\ deploy'.candidate = deploy.candidate /\ deploy'.old = deploy.old
              /\ deploy'.before = deploy.before
            BY <2>3, <1>5, <1>t DEF Restart, Deploy, Phases
        <3>2. /\ deploy.old = None => legacy' = Legacy
              /\ deploy.old # None => \A a \in Apps : env[a] = deploy.old
            BY <2>3, <1>5, <1>t DEF Restart, FromLegacy, Restored
        <3>3. /\ deploy.phase = "failed" /\ pending /\ links.current = deploy.old
              /\ deploy.old # None => ~legacy
            BY <1>5, <1>t, <1>v DEF Restart
        <3>4. HostOnTheWay'
            BY <2>1, <2>2, <2>3, <3>1, <3>2, <3>3
        <3> QED  BY <2>1, <2>2, <3>1, <3>3, <3>4, <1>t, <1>v
    <2>4. CASE ~((\A a \in Apps : new[a] = deploy.old) /\ (deploy.old # None \/ Legacy))
        <3>1. deploy' = NoDeploy
            BY <2>4, <1>5 DEF Restart
        <3>2. deploy.phase = "failed" /\ pending /\ links.current = deploy.old
            BY <1>5, <1>t, <1>v DEF Restart
        <3> QED  BY <2>1, <2>2, <3>1, <3>2, <1>t, <1>v, Gone
    <2> QED  BY <2>3, <2>4
<1>6. CASE UNCHANGED releaseVars
    BY <1>6, <1>t, <1>v DEF releaseVars
<1> QED  BY <1>1, <1>2, <1>3, <1>4, <1>5, <1>6

\* The release's strengthened invariant, for any apps and releases, with and
\* without an app of before.
THEOREM ReleaseInvariance == ReleaseSpec => []ReleaseInv
<1>1. ReleaseInv /\ [ReleaseNext]_releaseVars => ReleaseInv'
    BY ActivationStep, RollbackStep DEF ReleaseNext
<1> QED  BY <1>1, ReleaseInitial, PTL DEF ReleaseSpec

\* Wherever the script failed or was killed: without a mark, the host runs both
\* apps of the release that current-pair names, and what the links name is kept.
THEOREM HostAlwaysAgrees == ReleaseSpec => []ReleaseAgrees
<1>1. ReleaseInv => ReleaseAgrees
    BY DEF ReleaseInv, ReleaseAgrees
<1> QED  BY <1>1, ReleaseInvariance, PTL

\* A host without a mark shows the release of current-pair, and the app of before
\* if there was one and no release.
LEMMA Showing ==
    (ReleaseInv /\ At("idle") /\ ~pending) =>
        /\ \A a \in Apps : Shown(a) = links.current
        /\ legacy <=> (links.current = None /\ Legacy)
<1> SUFFICES ASSUME ReleaseInv, At("idle"), ~pending
             PROVE  /\ \A a \in Apps : Shown(a) = links.current
                    /\ legacy <=> (links.current = None /\ Legacy)
    OBVIOUS
<1>1. HostAgrees
    BY DEF ReleaseInv
<1> QED  BY <1>1 DEF HostAgrees, Runs, Shown

\* A step that does not begin or end a deployment is not seen.
LEMMA OnTheWayStutters ==
    ASSUME ReleaseInv, ~At("idle"), ~At("idle")',
           deploy'.old = deploy.old, deploy'.before = deploy.before
    PROVE  UNCHANGED PairedHost!hostReleaseVars
BY DEF PairedHost!hostReleaseVars, At

\* A deployment begins: what it has noted is what the host shows.
LEMMA PreflightStutters ==
    ASSUME ReleaseInv, ReleaseInv', NEW r \in Releases, NEW baseline \in Releases \cup {None},
           Preflight(r, baseline)
    PROVE  UNCHANGED PairedHost!hostReleaseVars
<1>1. /\ At("idle") /\ ~pending /\ ~At("idle")'
      /\ deploy'.old = links.current /\ deploy'.before = links.previous
    BY DEF Preflight, At
<1>2. /\ \A a \in Apps : Shown(a) = links.current
      /\ legacy <=> (links.current = None /\ Legacy)
    BY <1>1, Showing
<1>3. legacy \in BOOLEAN /\ Legacy \in BOOLEAN
    BY ReleaseAssumption DEF ReleaseInv, ReleaseTypeOK
<1> QED  BY <1>1, <1>2, <1>3 DEF PairedHost!hostReleaseVars, At

\* A deployment ends with a mark: the host is stuck.
LEMMA EndBreaks ==
    ASSUME ReleaseInv, ReleaseInv', ~At("idle"), At("idle")', pending',
           links'.current \in {deploy.old, deploy.candidate},
           links'.previous \in {deploy.old, deploy.before}
    PROVE  PairedHost!HostReleaseNext
<1>1. /\ deploy.candidate \in Releases
      /\ up' \in [Apps -> Releases \cup {None}] /\ legacy' \in BOOLEAN
    BY DEF ReleaseInv, ReleaseTypeOK, Noted
<1>2. [a \in Apps |-> Shown(a)]' \in [Apps -> Releases \cup {None}]
    BY <1>1 DEF Shown
<1>3. PairedHost!Break(deploy.candidate)
    BY <1>1, <1>2 DEF PairedHost!Break, At
<1> QED  BY <1>1, <1>3 DEF PairedHost!HostReleaseNext

\* A deployment ends without one, as if nothing had been.
LEMMA EndUndoes ==
    ASSUME ReleaseInv, ReleaseInv', ~At("idle"), At("idle")', ~pending',
           links'.current = deploy.old, links'.previous = deploy.before
    PROVE  UNCHANGED PairedHost!hostReleaseVars
<1>1. /\ \A a \in Apps : Shown(a)' = deploy.old
      /\ legacy' <=> (deploy.old = None /\ Legacy)
    <2>1. (/\ \A a \in Apps : Shown(a) = links.current
           /\ legacy <=> (links.current = None /\ Legacy))'
        BY Showing, PTL
    <2> QED  BY <2>1
<1>2. legacy' \in BOOLEAN /\ Legacy \in BOOLEAN
    BY ReleaseAssumption DEF ReleaseInv, ReleaseTypeOK
<1> QED  BY <1>1, <1>2 DEF PairedHost!hostReleaseVars, At

\* Without a release there is none before it.
NoneBefore ==
    /\ links.current = None => links.previous = None
    /\ deploy.old = None => deploy.before = None

LEMMA NoneBeforeStep ==
    ASSUME ReleaseInv, NoneBefore, [ReleaseNext]_releaseVars
    PROVE  NoneBefore'
<1>t. /\ links \in [current : Releases \cup {None}, previous : Releases \cup {None}]
      /\ deploy \in Deploy
    BY DEF ReleaseInv, ReleaseTypeOK
<1>1. ASSUME NEW r \in Releases, NEW baseline \in Releases \cup {None}, Preflight(r, baseline)
      PROVE  NoneBefore'
    BY <1>1 DEF Preflight, NoneBefore
<1>2. CASE LinkPrevious
    <2>1. deploy'.old = deploy.old /\ deploy'.before = deploy.before
        BY <1>2, <1>t, Going DEF LinkPrevious, Phases
    <2>2. links.current = deploy.old
        BY <1>2 DEF LinkPrevious, ReleaseInv, LinksOnTheWay, At
    <2> QED  BY <2>1, <2>2, <1>2, <1>t DEF LinkPrevious, NoneBefore
<1>3. CASE LinkCurrent
    <2>1. deploy'.old = deploy.old /\ deploy'.before = deploy.before
        BY <1>3, <1>t, Going DEF LinkCurrent, Phases
    <2>2. deploy.candidate # None
        BY <1>3, ReleaseAssumption
           DEF LinkCurrent, ReleaseInv, ReleaseTypeOK, Noted, At
    <2> QED  BY <2>1, <2>2, <1>3, <1>t DEF LinkCurrent, NoneBefore
<1>4. CASE RestoreLink
    <2>1. deploy'.old = deploy.old /\ deploy'.before = deploy.before
        BY <1>4, <1>t, Going DEF RestoreLink, Phases
    <2>2. links.current = deploy.old
        BY <1>4 DEF RestoreLink, ReleaseInv, LinksOnTheWay, At
    <2> QED  BY <2>1, <2>2, <1>4, <1>t DEF RestoreLink, PreviousRestored, NoneBefore
<1>5. ASSUME UNCHANGED links,
             \/ deploy' = NoDeploy
             \/ deploy'.old = deploy.old /\ deploy'.before = deploy.before
      PROVE  NoneBefore'
    BY <1>5 DEF NoneBefore, NoDeploy
<1>6. CASE NotReady \/ Unmark \/ Abandon \/ \E removed \in BOOLEAN : Finish(removed)
    BY <1>5, <1>6 DEF NotReady, Unmark, Abandon, Finish
<1>7. CASE Mark \/ StopLegacy \/ Check \/ StepFails
    <2>1. UNCHANGED links /\ \E phase \in Phases : Go(phase)
        BY <1>7 DEF Mark, StopLegacy, Check, StepFails, Phases
    <2> QED  BY <2>1, <1>5, <1>t, Going
<1>8. CASE \/ \E a \in Apps : WriteEnv(a) \/ RestoreEnv(a)
           \/ UNCHANGED releaseVars
    BY <1>5, <1>8 DEF WriteEnv, RestoreEnv, releaseVars
<1>9. ASSUME NEW new \in [Apps -> Releases \cup {None}], Activate(new) \/ Restart(new)
      PROVE  NoneBefore'
    <2>1. UNCHANGED links /\ (deploy' = NoDeploy \/ \E phase \in Phases : Go(phase))
        BY <1>9 DEF Activate, Restart, Go, Phases
    <2> QED  BY <2>1, <1>5, <1>t, Going
<1> QED
    BY <1>1, <1>2, <1>3, <1>4, <1>6, <1>7, <1>8, <1>9 DEF ReleaseNext

\* Or it ends with the candidate in the place of the release before.
LEMMA EndTakes ==
    ASSUME ReleaseInv, ReleaseInv', NoneBefore, At("committed"), At("idle")', ~pending',
           UNCHANGED links
    PROVE  PairedHost!HostReleaseNext
<1>1. /\ links'.current = deploy.candidate /\ links'.previous = deploy.old
      /\ deploy.candidate \in Releases /\ deploy.candidate \notin {None, deploy.old, deploy.before}
    <2>1. /\ Noted /\ LinksOnTheWay /\ deploy.phase = "committed" /\ links' = links
          /\ snapshots \subseteq Releases
        BY DEF ReleaseInv, ReleaseTypeOK, At
    <2>2. /\ deploy.candidate \in snapshots /\ deploy.candidate \notin {deploy.old, deploy.before}
          /\ links.current = deploy.candidate
          /\ deploy.old # None => links.previous = deploy.old
          /\ deploy.old = None => links.previous = deploy.before
        BY <2>1 DEF Noted, LinksOnTheWay, At
    <2> QED  BY <2>1, <2>2, ReleaseAssumption DEF NoneBefore
<1>2. /\ \A a \in Apps : Shown(a)' = deploy.candidate
      /\ legacy' <=> FALSE
    <2>1. (/\ \A a \in Apps : Shown(a) = links.current
           /\ legacy <=> (links.current = None /\ Legacy))'
        BY Showing, PTL
    <2> QED  BY <2>1, <1>1
<1>3. legacy' \in BOOLEAN
    BY DEF ReleaseInv, ReleaseTypeOK
<1>4. ~At("idle")
    BY DEF At
<1>5. PairedHost!Take(deploy.candidate)
    BY <1>1, <1>2, <1>3, <1>4 DEF PairedHost!Take, At
<1> QED  BY <1>1, <1>5 DEF PairedHost!HostReleaseNext

LEMMA HostReleaseStep ==
    ASSUME ReleaseInv, ReleaseInv', NoneBefore, [ReleaseNext]_releaseVars
    PROVE  [PairedHost!HostReleaseNext]_(PairedHost!hostReleaseVars)
<1>t. deploy \in Deploy /\ links \in [current : Releases \cup {None}, previous : Releases \cup {None}]
    BY DEF ReleaseInv, ReleaseTypeOK
<1>1. CASE UNCHANGED releaseVars
    BY <1>1 DEF releaseVars, PairedHost!hostReleaseVars, At, Shown
<1>2. CASE \E r \in Releases, baseline \in Releases \cup {None} : Preflight(r, baseline)
    BY <1>2, PreflightStutters
<1>3. ASSUME ~At("idle"), NEW phase \in Phases \ {"idle"}, Go(phase)
      PROVE  UNCHANGED PairedHost!hostReleaseVars
    BY <1>3, <1>t, Going, OnTheWayStutters DEF At
<1>4. CASE Mark \/ StopLegacy \/ Check \/ LinkPrevious \/ LinkCurrent \/ StepFails \/ RestoreLink
    <2>1. ~At("idle") /\ \E phase \in Phases \ {"idle"} : Go(phase)
        BY <1>4 DEF Mark, StopLegacy, Check, LinkPrevious, LinkCurrent, StepFails, RestoreLink,
                    At, Phases
    <2> QED  BY <2>1, <1>3
<1>5. CASE \E a \in Apps : WriteEnv(a) \/ RestoreEnv(a)
    <2>1. ~At("idle") /\ UNCHANGED deploy
        BY <1>5 DEF WriteEnv, RestoreEnv, At
    <2>2. ~At("idle")'
        BY <2>1 DEF At
    <2> QED  BY <2>1, <2>2, OnTheWayStutters
<1>6. CASE \E new \in [Apps -> Releases \cup {None}] : Activate(new)
    <2>1. ~At("idle") /\ \E phase \in Phases \ {"idle"} : Go(phase)
        BY <1>6 DEF Activate, At, Phases
    <2> QED  BY <2>1, <1>3
\* What a deployment has to say of the links when it ends with what it has.
<1>7. ~At("idle") =>
          /\ links.current \in {deploy.old, deploy.candidate}
          /\ links.previous \in {deploy.old, deploy.before}
          /\ deploy.phase \in {"prepared", "restored"} =>
                links.current = deploy.old /\ links.previous = deploy.before
          /\ pending = ~At("prepared")
    BY DEF ReleaseInv, Noted, LinksOnTheWay, At
<1>8. ASSUME deploy' = NoDeploy PROVE At("idle")'
    BY <1>8 DEF NoDeploy, At
<1>9. CASE NotReady \/ Unmark
    <2>1. /\ deploy.phase \in {"prepared", "restored"} /\ deploy' = NoDeploy
          /\ ~pending' /\ UNCHANGED links
        <3>1. CASE NotReady
            <4>1. At("prepared") /\ ~At("idle") /\ UNCHANGED <<pending, links>> /\ deploy' = NoDeploy
                BY <3>1 DEF NotReady, At
            <4> QED  BY <4>1, <1>7 DEF At
        <3>2. CASE Unmark
            BY <3>2 DEF Unmark, At
        <3> QED  BY <1>9, <3>1, <3>2
    <2> QED  BY <2>1, <1>7, <1>8, EndUndoes DEF At
<1>10. CASE Abandon
    <2>1. ~At("idle") /\ deploy' = NoDeploy /\ UNCHANGED <<links, pending>>
        BY <1>10 DEF Abandon
    <2>2. CASE At("prepared")
        BY <2>1, <2>2, <1>7, <1>8, EndUndoes DEF At
    <2>3. CASE ~At("prepared")
        BY <2>1, <2>3, <1>7, <1>8, EndBreaks
    <2> QED  BY <2>2, <2>3
<1>11. ASSUME NEW removed \in BOOLEAN, Finish(removed)
       PROVE  [PairedHost!HostReleaseNext]_(PairedHost!hostReleaseVars)
    <2>1. At("committed") /\ ~At("idle") /\ deploy' = NoDeploy /\ pending' = ~removed /\ UNCHANGED links
        BY <1>11 DEF Finish, At
    <2>2. CASE removed
        BY <2>1, <2>2, <1>8, EndTakes
    <2>3. CASE ~removed
        BY <2>1, <2>3, <1>7, <1>8, EndBreaks
    <2> QED  BY <2>2, <2>3
<1>12. ASSUME NEW new \in [Apps -> Releases \cup {None}], Restart(new)
       PROVE  [PairedHost!HostReleaseNext]_(PairedHost!hostReleaseVars)
    <2>1. At("failed") /\ ~At("idle") /\ ~At("prepared") /\ UNCHANGED <<links, pending>>
        BY <1>12 DEF Restart, At
    <2>2. CASE deploy' = NoDeploy
        BY <2>1, <2>2, <1>7, <1>8, EndBreaks
    <2>3. CASE deploy' # NoDeploy
        <3>1. Go("restarted")
            BY <2>3, <1>12 DEF Restart, Go
        <3> QED  BY <2>1, <3>1, <1>3 DEF Phases
    <2> QED  BY <2>2, <2>3
<1> QED
    BY <1>1, <1>2, <1>4, <1>5, <1>6, <1>9, <1>10, <1>11, <1>12 DEF ReleaseNext

\* A deployment that leaves no mark releases its candidate to all apps or changes
\* nothing, wherever it fails or is killed: the host implements HostRelease.
THEOREM HostReleaseRefinement == ReleaseSpec => ImplementsHostRelease
<1>1. ReleaseInit => NoneBefore /\ PairedHost!HostReleaseInit
    BY ReleaseAssumption
       DEF ReleaseInit, NoDeploy, NoneBefore, PairedHost!HostReleaseInit, At, Shown
<1> QED
    BY <1>1, ReleaseInvariance, NoneBeforeStep, HostReleaseStep, PTL
       DEF ReleaseSpec, ImplementsHostRelease, PairedHost!HostReleaseSpec

-----------------------------------------------------------------------------
(* HostOperation.                                                          *)

\* What a launcher knows: its request is on record once it has recorded it, none
\* has worked on it before, and its verdict is what the process has said.
LauncherKnows(l) ==
    /\ ~AtStep(l, "idle") => launcher[l].request \in Requests
    /\ launcher[l].step \in {"recorded", "waiting", "answered"} =>
          launcher[l].request \in attempted
    /\ AtStep(l, "recorded") => processes[launcher[l].request] = 0
    /\ (AtStep(l, "answered") /\ launcher[l].value \in {"success", "changed"}) =>
          answer[launcher[l].request] = launcher[l].value

\* The history of a request: attempt, process, change and answer, result.
History(q) ==
    /\ processes[q] <= 1
    /\ processes[q] # 0 => q \in attempted
    /\ processes[q] = 0 => q \notin working /\ answer[q] = "none" /\ made[q] = 0
    /\ q \in working => made[q] = 0 /\ answer[q] = "none"
    /\ answer[q] = "success" => made[q] = 1
    /\ answer[q] = "changed" => made[q] = 0
    /\ result[q] \in {"success", "changed"} => answer[q] = result[q]

OperationInv ==
    /\ OperationTypeOK /\ HostHeld
    /\ \A l \in Launchers : LauncherKnows(l)
    /\ \A q \in Requests : History(q)

LEMMA OperationInitial == OperationInit => OperationInv
<1> SUFFICES ASSUME OperationInit PROVE OperationInv
    OBVIOUS
<1> USE DEF OperationInit, NoLaunch
<1>1. OperationTypeOK
    BY DEF OperationTypeOK, Launch, Steps, Answers, Verdicts
<1>2. HostHeld
    BY DEF HostHeld, Holds
<1>3. \A l \in Launchers : LauncherKnows(l)
    BY DEF LauncherKnows, AtStep
<1>4. \A q \in Requests : History(q)
    BY DEF History
<1> QED  BY <1>1, <1>2, <1>3, <1>4 DEF OperationInv

\* A launcher that moves alone keeps the invariant when its new state does.
LEMMA LauncherMoves ==
    ASSUME OperationInv, NEW l \in Launchers, NEW new \in Launch,
           launcher' = [launcher EXCEPT ![l] = new],
           UNCHANGED <<attempted, result, working, answer, made, processes, version,
                       container, sealed, deployed>>,
           new.step # "idle" => new.request \in Requests,
           new.step \in {"recorded", "waiting", "answered"} => new.request \in attempted,
           new.step = "recorded" => processes[new.request] = 0,
           (new.step = "answered" /\ new.value \in {"success", "changed"}) =>
               answer[new.request] = new.value,
           new.step \notin {"idle", "ready"} => Holds(l) \/ LockFree,
           new.step \notin {"idle", "ready", "locked"} =>
               deployed = "no" /\ container = new.container
    PROVE  OperationInv'
<1>1. /\ launcher' \in [Launchers -> Launch] /\ launcher'[l] = new
      /\ \A m \in Launchers \ {l} : launcher'[m] = launcher[m]
    BY DEF OperationInv, OperationTypeOK
<1>2. OperationTypeOK'
    BY <1>1 DEF OperationInv, OperationTypeOK
<1>3. \A m \in Launchers : LauncherKnows(m)'
    BY <1>1 DEF OperationInv, LauncherKnows, AtStep
<1>4. \A q \in Requests : History(q)'
    BY DEF OperationInv, History
<1>5. HostHeld'
    BY <1>1 DEF OperationInv, HostHeld, Holds, LockFree, InPlace, AtStep
<1> QED  BY <1>2, <1>3, <1>4, <1>5 DEF OperationInv

\* A step that leaves the launchers and the host alone, and keeps each history.
LEMMA HistoryMoves ==
    ASSUME OperationInv, OperationTypeOK',
           UNCHANGED <<launcher, container, deployed>>,
           attempted \subseteq attempted',
           \A q \in Requests : History(q)',
           \A q \in Requests : processes'[q] = processes[q],
           \A q \in Requests : answer[q] # "none" => answer'[q] = answer[q]
    PROVE  OperationInv'
<1>1. HostHeld'
    BY DEF OperationInv, HostHeld, Holds, InPlace, AtStep
<1>2. \A l \in Launchers : LauncherKnows(l)'
    BY DEF OperationInv, LauncherKnows, AtStep
<1> QED  BY <1>1, <1>2 DEF OperationInv

\* The steps of the script.
LEMMA ScriptStep ==
    ASSUME OperationInv, NEW l \in Launchers,
           \/ \E q \in Requests : Submit(l, q)
           \/ \E heard \in BOOLEAN : Hear(l, heard)
           \/ TakeLock(l) \/ Inspect(l) \/ Record(l) \/ Exec(l) \/ Report(l) \/ Leave(l)
    PROVE  OperationInv'
<1> DEFINE q == launcher[l].request
<1>t. /\ launcher \in [Launchers -> Launch] /\ launcher[l] \in Launch
      /\ answer \in [Requests -> Answers] /\ sealed \in Nat
      /\ processes \in [Requests -> Nat] /\ result \in [Requests -> Verdicts]
    BY DEF OperationInv, OperationTypeOK
<1>k. LauncherKnows(l) /\ HostHeld
    BY DEF OperationInv
<1>n. NoLaunch \in Launch /\ NoLaunch.step = "idle"
    BY DEF NoLaunch, Launch, Steps, Verdicts, Answers
<1>1. ASSUME NEW r \in Requests, Submit(l, r) PROVE OperationInv'
    <2> DEFINE new == [step |-> "ready", request |-> r, container |-> sealed, value |-> "none"]
    <2>1. new \in Launch /\ new.step = "ready" /\ new.request = r
        BY <1>t DEF Launch, Steps, Verdicts, Answers
    <2>2. launcher' = [launcher EXCEPT ![l] = new]
        BY <1>1 DEF Submit
    <2> HIDE DEF new
    <2> QED  BY <2>1, <2>2, <1>1, LauncherMoves DEF Submit
<1>2. ASSUME NEW s \in Steps, To(l, s), s # "answered",
             UNCHANGED <<attempted, result, working, answer, made, processes, version,
                         container, sealed, deployed>>,
             s # "idle" => launcher[l].step # "idle",
             s \in {"recorded", "waiting"} => q \in attempted /\ processes[q] = 0,
             s \notin {"idle", "ready"} => Holds(l) \/ LockFree,
             s \notin {"idle", "ready", "locked"} => InPlace(l)
      PROVE  OperationInv'
    <2> DEFINE new == [launcher[l] EXCEPT !.step = s]
    <2>1. /\ new \in Launch /\ new.step = s /\ new.request = q
          /\ new.container = launcher[l].container
        BY <1>t DEF Launch
    <2>2. launcher' = [launcher EXCEPT ![l] = new]
        BY <1>2 DEF To
    <2> HIDE DEF new
    <2> QED  BY <2>1, <2>2, <1>2, <1>k, LauncherMoves DEF LauncherKnows, AtStep, InPlace
<1>3. CASE TakeLock(l)
    BY <1>3, <1>2 DEF TakeLock, Lockable, AtStep, Steps
<1>4. CASE Inspect(l)
    BY <1>4, <1>2 DEF Inspect, AtStep, Steps, Holds
<1>5. ASSUME NEW heard \in BOOLEAN, Hear(l, heard) PROVE OperationInv'
    <2> DEFINE new == [launcher[l] EXCEPT !.step = "answered", !.value = Verdict(l, heard)]
    <2>1. launcher[l].step \in {"recorded", "waiting"} /\ q \in Requests /\ q \in attempted
        BY <1>5, <1>k DEF Hear, LauncherKnows, AtStep
    <2>2. Verdict(l, heard) \in Verdicts
        BY <2>1, <1>t DEF Verdict, Verdicts, Answers
    <2>3. /\ new \in Launch /\ new.step = "answered" /\ new.request = q
          /\ new.container = launcher[l].container /\ new.value = Verdict(l, heard)
        BY <2>2, <1>t DEF Launch, Steps
    <2>4. launcher' = [launcher EXCEPT ![l] = new]
        BY <1>5 DEF Hear
    <2>5. Verdict(l, heard) \in {"success", "changed"} => answer[q] = Verdict(l, heard)
        BY DEF Verdict
    <2>6. Holds(l) /\ InPlace(l)
        BY <2>1, <1>k DEF Holds, HostHeld, AtStep
    <2> HIDE DEF new
    <2> QED  BY <2>1, <2>3, <2>4, <2>5, <2>6, <1>5, LauncherMoves DEF Hear, InPlace
<1>6. CASE Leave(l)
    BY <1>6, <1>n, LauncherMoves DEF Leave
<1>7. CASE Record(l)
    <2>1. /\ launcher[l].step = "inspected" /\ q \notin attempted /\ q \in Requests
          /\ Holds(l) /\ InPlace(l) /\ processes[q] = 0
        BY <1>7, <1>k DEF Record, Exclusive, AtStep, LauncherKnows, Holds, HostHeld,
                          OperationInv, History
    <2> DEFINE new == [launcher[l] EXCEPT !.step = "recorded"]
    <2>2. new \in Launch /\ new.step = "recorded" /\ new.request = q
          /\ new.container = launcher[l].container
        BY <1>t DEF Launch, Steps
    <2>3. launcher' = [launcher EXCEPT ![l] = new]
        BY <1>7 DEF Record, To
    <2> HIDE DEF new
    <2>4. /\ launcher' \in [Launchers -> Launch] /\ launcher'[l] = new
          /\ \A m \in Launchers \ {l} : launcher'[m] = launcher[m]
        BY <2>2, <2>3, <1>t
    <2>5. attempted' = attempted \cup {q}
          /\ UNCHANGED <<result, working, answer, made, processes, version, container,
                         sealed, deployed>>
        BY <1>7 DEF Record
    <2>6. OperationTypeOK'
        BY <2>1, <2>4, <2>5 DEF OperationInv, OperationTypeOK
    <2>7. HostHeld'
        BY <2>1, <2>2, <2>4, <2>5 DEF OperationInv, HostHeld, Holds, InPlace, AtStep
    <2>8. \A m \in Launchers : LauncherKnows(m)'
        BY <2>1, <2>2, <2>4, <2>5 DEF OperationInv, LauncherKnows, AtStep
    <2>9. \A r \in Requests : History(r)'
        BY <2>5 DEF OperationInv, History
    <2> QED  BY <2>6, <2>7, <2>8, <2>9 DEF OperationInv
<1>8. CASE Exec(l)
    <2>1. /\ launcher[l].step = "recorded" /\ q \in attempted /\ q \in Requests
          /\ Holds(l) /\ InPlace(l) /\ processes[q] = 0
        BY <1>8, <1>k DEF Exec, AtStep, LauncherKnows, Holds, HostHeld
    <2> DEFINE new == [launcher[l] EXCEPT !.step = "waiting"]
    <2>2. new \in Launch /\ new.step = "waiting" /\ new.request = q
          /\ new.container = launcher[l].container
        BY <1>t DEF Launch, Steps
    <2>3. launcher' = [launcher EXCEPT ![l] = new]
        BY <1>8 DEF Exec, To
    <2> HIDE DEF new
    <2>4. /\ launcher' \in [Launchers -> Launch] /\ launcher'[l] = new
          /\ \A m \in Launchers \ {l} : launcher'[m] = launcher[m]
        BY <2>2, <2>3, <1>t
    <2>5. /\ working' = working \cup {q} /\ processes' = [processes EXCEPT ![q] = @ + 1]
          /\ UNCHANGED <<attempted, result, answer, made, version, container, sealed, deployed>>
        BY <1>8 DEF Exec
    <2>6. /\ processes' \in [Requests -> Nat] /\ processes'[q] = 1
          /\ \A r \in Requests \ {q} : processes'[r] = processes[r]
        BY <2>1, <2>5, <1>t
    <2>7. OperationTypeOK'
        BY <2>1, <2>4, <2>5, <2>6 DEF OperationInv, OperationTypeOK
    <2>8. HostHeld'
        BY <2>1, <2>2, <2>4, <2>5 DEF OperationInv, HostHeld, Holds, InPlace, AtStep
    <2>9. ASSUME NEW m \in Launchers PROVE LauncherKnows(m)'
        <3>1. CASE m = l
            BY <3>1, <2>1, <2>2, <2>4, <2>5 DEF LauncherKnows, AtStep
        <3>2. CASE m # l
            <4>1. ~Holds(m)
                BY <3>2, <2>1, <1>k DEF HostHeld
            <4> QED  BY <4>1, <3>2, <2>4, <2>5 DEF OperationInv, LauncherKnows, AtStep, Holds
        <3> QED  BY <3>1, <3>2
    <2>10. ASSUME NEW r \in Requests PROVE History(r)'
        <3>1. CASE r = q
            BY <3>1, <2>1, <2>5, <2>6 DEF OperationInv, History
        <3>2. CASE r # q
            BY <3>2, <2>5, <2>6 DEF OperationInv, History
        <3> QED  BY <3>1, <3>2
    <2> QED  BY <2>7, <2>8, <2>9, <2>10 DEF OperationInv
<1>9. CASE Report(l)
    <2>1. launcher[l].step = "answered" /\ q \in Requests /\ result[q] = "none"
        BY <1>9, <1>k DEF Report, LauncherKnows, AtStep
    <2>2. /\ launcher' \in [Launchers -> Launch] /\ launcher'[l] = NoLaunch
          /\ \A m \in Launchers \ {l} : launcher'[m] = launcher[m]
        BY <1>9, <1>n, <1>t DEF Report
    <2>3. /\ result' = [result EXCEPT ![q] = launcher[l].value]
          /\ UNCHANGED <<attempted, working, answer, made, processes, version, container,
                         sealed, deployed>>
        BY <1>9 DEF Report
    <2>4. launcher[l].value \in Verdicts
        BY <1>t DEF Launch
    <2>5. OperationTypeOK'
        BY <2>1, <2>2, <2>3, <2>4 DEF OperationInv, OperationTypeOK
    <2>6. HostHeld'
        BY <2>2, <2>3, <1>n DEF OperationInv, HostHeld, Holds, InPlace, AtStep
    <2>7. \A m \in Launchers : LauncherKnows(m)'
        BY <2>2, <2>3, <1>n DEF OperationInv, LauncherKnows, AtStep
    <2>8. ASSUME NEW r \in Requests PROVE History(r)'
        <3>1. CASE r = q
            BY <3>1, <2>1, <2>3, <1>k, <1>t DEF OperationInv, History, LauncherKnows, AtStep
        <3>2. CASE r # q
            BY <3>2, <2>3, <1>t DEF OperationInv, History
        <3> QED  BY <3>1, <3>2
    <2> QED  BY <2>5, <2>6, <2>7, <2>8 DEF OperationInv
<1> QED  BY <1>1, <1>3, <1>4, <1>5, <1>6, <1>7, <1>8, <1>9

\* The steps of the process and of the host.
LEMMA HostStep ==
    ASSUME OperationInv,
           \/ \E q \in Requests : Refuse(q) \/ \E lost \in BOOLEAN : Change(q, lost)
           \/ \E marked \in BOOLEAN : DeploymentEnds(marked)
           \/ OtherChange \/ DeploymentBegins \/ Replace \/ Restarted \/ Seal \/ Clear
    PROVE  OperationInv'
<1>t. /\ working \subseteq Requests /\ answer \in [Requests -> Answers]
      /\ made \in [Requests -> Nat] /\ processes \in [Requests -> Nat]
      /\ version \in Nat /\ container \in Nat /\ sealed \in Nat
      /\ deployed \in {"no", "running", "marked"}
    BY DEF OperationInv, OperationTypeOK
<1>h. \A r \in Requests : History(r)
    BY DEF OperationInv
<1>1. ASSUME NEW q \in Requests, NEW lost \in BOOLEAN, Change(q, lost) PROVE OperationInv'
    <2>1. /\ q \in working /\ working' = working \ {q}
          /\ made' = [made EXCEPT ![q] = @ + 1]
          /\ answer' = [answer EXCEPT ![q] = IF lost THEN "failed" ELSE "success"]
          /\ version' \in Nat
          /\ UNCHANGED <<launcher, attempted, result, processes, container, sealed, deployed>>
        BY <1>1, <1>t DEF Change
    <2>2. OperationTypeOK'
        BY <2>1, <1>t DEF OperationInv, OperationTypeOK, Answers
    <2>3. ASSUME NEW r \in Requests PROVE History(r)'
        <3>1. CASE r = q
            BY <3>1, <2>1, <1>h, <1>t DEF History
        <3>2. CASE r # q
            BY <3>2, <2>1, <1>h, <1>t DEF History
        <3> QED  BY <3>1, <3>2
    <2>4. \A r \in Requests : answer[r] # "none" => answer'[r] = answer[r]
        BY <2>1, <1>h, <1>t DEF History
    <2> QED  BY <2>1, <2>2, <2>3, <2>4, HistoryMoves
<1>2. ASSUME NEW q \in Requests, Refuse(q) PROVE OperationInv'
    <2>1. /\ q \in working /\ working' = working \ {q}
          /\ \E told \in {"changed", "failed"} : answer' = [answer EXCEPT ![q] = told]
          /\ UNCHANGED <<launcher, attempted, result, made, processes, version, container, sealed,
                         deployed>>
        BY <1>2 DEF Refuse
    <2>2. OperationTypeOK'
        BY <2>1, <1>t DEF OperationInv, OperationTypeOK, Answers
    <2>3. ASSUME NEW r \in Requests PROVE History(r)'
        <3>1. CASE r = q
            BY <3>1, <2>1, <1>h, <1>t DEF History
        <3>2. CASE r # q
            BY <3>2, <2>1, <1>h, <1>t DEF History
        <3> QED  BY <3>1, <3>2
    <2>4. \A r \in Requests : answer[r] # "none" => answer'[r] = answer[r]
        BY <2>1, <1>h, <1>t DEF History
    <2> QED  BY <2>1, <2>2, <2>3, <2>4, HistoryMoves
<1>3. CASE OtherChange \/ Seal
    <2>1. /\ version' \in Nat /\ sealed' \in Nat
          /\ UNCHANGED <<launcher, attempted, result, working, answer, made, processes,
                         container, deployed>>
        BY <1>3, <1>t DEF OtherChange, Seal
    <2>2. OperationTypeOK' /\ \A r \in Requests : History(r)'
        BY <2>1, <1>h DEF OperationInv, OperationTypeOK, History
    <2> QED  BY <2>1, <2>2, HistoryMoves
<1>4. CASE Restarted
    <2>1. /\ working' = {}
          /\ UNCHANGED <<launcher, attempted, result, answer, made, processes, version, container,
                         sealed, deployed>>
        BY <1>4 DEF Restarted
    <2>2. OperationTypeOK' /\ \A r \in Requests : History(r)'
        BY <2>1, <1>h DEF OperationInv, OperationTypeOK, History
    <2> QED  BY <2>1, <2>2, HistoryMoves
<1>5. ASSUME \/ \E marked \in BOOLEAN : DeploymentEnds(marked)
             \/ DeploymentBegins \/ Replace \/ Clear
      PROVE  OperationInv'
    <2>1. /\ working' \subseteq working /\ container' \in Nat
          /\ deployed' \in {"no", "running", "marked"}
          /\ UNCHANGED <<launcher, attempted, result, answer, made, processes, version, sealed>>
        BY <1>5, <1>t DEF DeploymentEnds, DeploymentBegins, Replace, Clear
    <2>2. OperationTypeOK' /\ \A r \in Requests : History(r)'
        BY <2>1, <1>h, <1>t DEF OperationInv, OperationTypeOK, History
    <2>3. \A l \in Launchers : LauncherKnows(l)'
        BY <2>1 DEF OperationInv, LauncherKnows, AtStep
    <2>4. HostHeld'
        BY <1>5, <2>1 DEF OperationInv, HostHeld, Holds, InPlace, AtStep, LockFree,
                          DeploymentEnds, DeploymentBegins, Replace, Clear
    <2> QED  BY <2>2, <2>3, <2>4 DEF OperationInv
<1> QED  BY <1>1, <1>2, <1>3, <1>4, <1>5

LEMMA OperationStep == OperationInv /\ [OperationNext]_operationVars => OperationInv'
<1> SUFFICES ASSUME OperationInv, [OperationNext]_operationVars PROVE OperationInv'
    OBVIOUS
<1>1. CASE UNCHANGED operationVars
    <2>1. UNCHANGED <<launcher, attempted, result, working, answer, made, processes, version,
                      container, sealed, deployed>>
        BY <1>1 DEF operationVars
    <2>2. OperationTypeOK' /\ \A r \in Requests : History(r)'
        BY <2>1 DEF OperationInv, OperationTypeOK, History
    <2> QED  BY <2>1, <2>2, HistoryMoves
<1>2. ASSUME OperationNext PROVE OperationInv'
    BY <1>2, ScriptStep, HostStep DEF OperationNext
<1> QED  BY <1>1, <1>2

\* What the launcher, the process and the audit files know of each other holds
\* throughout every operation.
THEOREM OperationInvariance == OperationSpec => []OperationInv
<1> QED  BY OperationInitial, OperationStep, PTL DEF OperationSpec

\* One process for a request, on record before it starts; a result that says
\* success or change is right for good; the host is held in between.
THEOREM OperationsAreSound == OperationSpec => []OperationSound
<1>1. OperationInv => OperationSound
    <2> SUFFICES ASSUME OperationInv PROVE OperationSound
        OBVIOUS
    <2>1. OneProcess /\ ResultHolds
        BY DEF OperationInv, OperationTypeOK, History, OneProcess, ResultHolds
    <2> QED  BY <2>1 DEF OperationInv, OperationSound
<1> QED  BY <1>1, OperationInvariance, PTL

-----------------------------------------------------------------------------
(* Promotion. What is known of a candidate, of a run and of a merge is said *)
(* of values of the variables, so that a step can be seen to preserve it.   *)

\* An image is what a build of the candidate's own source would be.
ImageFits(a, c, inp) ==
    /\ c.images[a] \in Image /\ c.images[a].source \in DOMAIN inp
    /\ inp[c.images[a].source][a] = inp[c.source][a]
    /\ c.images[a].setting = c.setting

\* The release a candidate was planned upon is of an earlier pull request.
Placed(c, ver) ==
    \/ c.baseline = NoRelease
    \/ /\ c.baseline[1] \in DOMAIN ver
       /\ ver[c.baseline[1]].candidate.pr < c.pr

\* A candidate that was merged, with its images and its place in the order.
Fitting(c, inp, ver, mer) ==
    /\ c \in Candidate /\ c.source \in DOMAIN inp
    /\ \E m \in DOMAIN mer :
          /\ mer[m].pr = c.pr /\ mer[m].source = c.source
          /\ c.id = <<mer[m].run, mer[m].proven>>
    /\ \A a \in Sides : ImageFits(a, c, inp)
    /\ Placed(c, ver)
    /\ c.id[1] \in DOMAIN ver /\ ver[c.id[1]].candidate.pr = c.pr

\* The candidate that a run has made so far.
RunFits(i, run, inp, ver) ==
    /\ run.candidate.id = <<i, run.attempt>>
    /\ run.candidate.pr # 0 /\ run.candidate.source \in DOMAIN inp
    /\ run.step \in {"planned", "recorded", "passed"} => Placed(run.candidate, ver)
    /\ run.step = "planned" =>
          \A a \in Sides :
             IF a \in run.built
             THEN \/ run.candidate.images[a] = Nothing
                  \/ /\ run.candidate.images[a] \in Image
                     /\ run.candidate.images[a].source = run.candidate.source
             ELSE ImageFits(a, run.candidate, inp)
    /\ run.step \in {"recorded", "passed"} =>
          \A a \in Sides : ImageFits(a, run.candidate, inp)

\* The run that had passed before the merge, and what is deployed for it.
MergeFits(merge, inp, ver, mer) ==
    /\ merge.source \in DOMAIN inp
    /\ merge.proven # 0 =>
          merge.run \in DOMAIN ver /\ ver[merge.run].candidate.source = merge.source
    /\ merge.step \in {"resolved", "sent", "succeeded"} =>
          Fitting(merge.candidate, inp, ver, mer)

PullsKnown ==
    /\ inputs # <<>> /\ pull <= pulls
    /\ \A m \in DOMAIN merges :
          merges[m].pr <= pulls /\ (pull # 0 => merges[m].pr < pull)

RunsKnown    == \A i \in DOMAIN verify : RunFits(i, verify[i], inputs, verify)
MergesKnown  == \A m \in DOMAIN merges : MergeFits(merges[m], inputs, verify, merges)
CommandsKnown ==
    \A command \in commands :
        /\ command.merge \in DOMAIN merges
        /\ Fitting(command.candidate, inputs, verify, merges)
PairKnown    == \A k \in DOMAIN pair : Fitting(pair[k], inputs, verify, merges)

\* The strengthening: whatever is on its way to the host is known.
PromotionInv ==
    /\ PromotionTypeOK
    /\ PullsKnown /\ RunsKnown /\ MergesKnown /\ CommandsKnown /\ PairKnown
    /\ InOrder

\* What no step changes: the commits, what the runs and the merges are of.
Extends(inp, ver, mer, inp2, ver2, mer2) ==
    /\ DOMAIN inp \subseteq DOMAIN inp2 /\ \A c \in DOMAIN inp : inp2[c] = inp[c]
    /\ DOMAIN ver \subseteq DOMAIN ver2
    /\ \A i \in DOMAIN ver : /\ ver2[i].candidate.pr = ver[i].candidate.pr
                             /\ ver2[i].candidate.source = ver[i].candidate.source
    /\ DOMAIN mer \subseteq DOMAIN mer2
    /\ \A m \in DOMAIN mer :
          /\ mer2[m].pr = mer[m].pr /\ mer2[m].source = mer[m].source
          /\ mer2[m].run = mer[m].run /\ mer2[m].proven = mer[m].proven

\* All that is known stays known when there is only more of everything.
LEMMA FittingStays ==
    ASSUME NEW inp, NEW ver, NEW mer, NEW inp2, NEW ver2, NEW mer2,
           Extends(inp, ver, mer, inp2, ver2, mer2)
    PROVE  /\ \A c, a : c.source \in DOMAIN inp /\ ImageFits(a, c, inp) => ImageFits(a, c, inp2)
           /\ \A c : Placed(c, ver) => Placed(c, ver2)
           /\ \A c : Fitting(c, inp, ver, mer) => Fitting(c, inp2, ver2, mer2)
           /\ \A i, run : RunFits(i, run, inp, ver) => RunFits(i, run, inp2, ver2)
           /\ \A merge : MergeFits(merge, inp, ver, mer) => MergeFits(merge, inp2, ver2, mer2)
<1>1. ASSUME NEW c, NEW a, c.source \in DOMAIN inp, ImageFits(a, c, inp)
      PROVE  ImageFits(a, c, inp2)
    BY <1>1 DEF Extends, ImageFits
<1>2. ASSUME NEW c, Placed(c, ver) PROVE Placed(c, ver2)
    BY <1>2 DEF Extends, Placed
<1>3. ASSUME NEW c, Fitting(c, inp, ver, mer) PROVE Fitting(c, inp2, ver2, mer2)
    <2>1. PICK m \in DOMAIN mer : /\ mer[m].pr = c.pr /\ mer[m].source = c.source
                                  /\ c.id = <<mer[m].run, mer[m].proven>>
        BY <1>3 DEF Fitting
    <2>2. \E n \in DOMAIN mer2 : /\ mer2[n].pr = c.pr /\ mer2[n].source = c.source
                                 /\ c.id = <<mer2[n].run, mer2[n].proven>>
        BY <2>1 DEF Extends
    <2>3. \A a \in Sides : ImageFits(a, c, inp2)
        BY <1>1, <1>3 DEF Fitting
    <2>4. /\ c \in Candidate /\ c.source \in DOMAIN inp2
          /\ c.id[1] \in DOMAIN ver2 /\ ver2[c.id[1]].candidate.pr = c.pr
        BY <1>3 DEF Fitting, Extends
    <2> QED  BY <1>2, <1>3, <2>2, <2>3, <2>4 DEF Fitting
<1>4. ASSUME NEW i, NEW run, RunFits(i, run, inp, ver) PROVE RunFits(i, run, inp2, ver2)
    <2>1. run.candidate.source \in DOMAIN inp /\ run.candidate.source \in DOMAIN inp2
        BY <1>4 DEF RunFits, Extends
    <2>2. \A a \in Sides : ImageFits(a, run.candidate, inp) => ImageFits(a, run.candidate, inp2)
        BY <1>1, <2>1
    <2>3. Placed(run.candidate, ver) => Placed(run.candidate, ver2)
        BY <1>2
    <2> QED  BY <1>4, <2>1, <2>2, <2>3 DEF RunFits
<1>5. ASSUME NEW merge, MergeFits(merge, inp, ver, mer) PROVE MergeFits(merge, inp2, ver2, mer2)
    BY <1>5, <1>3 DEF MergeFits, Extends
<1> QED  BY <1>1, <1>2, <1>3, <1>4, <1>5

\* A candidate that nothing has been made of yet.
LEMMA FreshIs ==
    ASSUME NEW id \in Nat \X Nat, NEW pr \in Nat, NEW source \in Nat
    PROVE  /\ Fresh(id, pr, source) \in Candidate
           /\ Fresh(id, pr, source).id = id /\ Fresh(id, pr, source).pr = pr
           /\ Fresh(id, pr, source).source = source
BY DEF Fresh, Candidate, NoRelease

\* A run that has failed is still known.
LEMMA FailedIs ==
    ASSUME NEW run \in VerifyRun, NEW i, NEW inp, NEW ver, RunFits(i, run, inp, ver)
    PROVE  /\ Failed(run) \in VerifyRun /\ RunFits(i, Failed(run), inp, ver)
           /\ Failed(run).candidate.pr = run.candidate.pr
           /\ Failed(run).candidate.source = run.candidate.source
<1> DEFINE c == Fresh(run.candidate.id, run.candidate.pr, run.candidate.source)
<1>1. run.candidate.id \in Nat \X Nat /\ run.candidate.pr \in Nat /\ run.candidate.source \in Nat
    BY DEF VerifyRun, Candidate
<1>2. /\ c \in Candidate /\ c.id = run.candidate.id /\ c.pr = run.candidate.pr
      /\ c.source = run.candidate.source
    BY <1>1, FreshIs, SMTT(30)
<1>3. Failed(run) = [run EXCEPT !.step = "failed", !.built = {}, !.candidate = c]
    BY DEF Failed
<1> HIDE DEF c
<1>4. /\ Failed(run) \in VerifyRun /\ Failed(run).candidate = c
      /\ Failed(run).step = "failed" /\ Failed(run).attempt = run.attempt
    BY <1>2, <1>3 DEF VerifyRun
<1> QED  BY <1>2, <1>4 DEF RunFits

LEMMA PromotionInitial == PromotionInit => PromotionInv
<1> SUFFICES ASSUME PromotionInit PROVE PromotionInv
    OBVIOUS
<1>1. PromotionTypeOK
    BY DEF PromotionInit, PromotionTypeOK
<1> QED  BY <1>1 DEF PromotionInit, PromotionInv, PullsKnown, RunsKnown, MergesKnown,
                     CommandsKnown, PairKnown, InOrder

\* A step that only extends what there is keeps what is known of the rest.
LEMMA Kept ==
    ASSUME PromotionInv, Extends(inputs, verify, merges, inputs', verify', merges'),
           UNCHANGED hostVars
    PROVE  CommandsKnown' /\ PairKnown' /\ InOrder'
<1>1. \A c : Fitting(c, inputs, verify, merges) => Fitting(c, inputs', verify', merges')
    BY FittingStays
<1>2. CommandsKnown'
    BY <1>1 DEF PromotionInv, CommandsKnown, hostVars, Extends
<1>3. PairKnown'
    BY <1>1 DEF PromotionInv, PairKnown, hostVars
<1>4. InOrder'
    BY DEF PromotionInv, InOrder, hostVars
<1> QED  BY <1>2, <1>3, <1>4

\* The runs, and the merges, that a step leaves alone.
LEMMA RunsKept ==
    ASSUME PromotionInv, Extends(inputs, verify, merges, inputs', verify', merges'),
           UNCHANGED verify
    PROVE  RunsKnown'
<1>1. \A i, run : RunFits(i, run, inputs, verify) => RunFits(i, run, inputs', verify')
    BY FittingStays
<1> QED  BY <1>1 DEF PromotionInv, RunsKnown

LEMMA MergesKept ==
    ASSUME PromotionInv, Extends(inputs, verify, merges, inputs', verify', merges'),
           UNCHANGED merges
    PROVE  MergesKnown'
<1>1. \A merge : MergeFits(merge, inputs, verify, merges) => MergeFits(merge, inputs', verify', merges')
    BY FittingStays
<1> QED  BY <1>1 DEF PromotionInv, MergesKnown

-----------------------------------------------------------------------------
LEMMA RepoStep ==
    ASSUME PromotionInv,
           \/ \E affected \in SUBSET Sides : Push(affected)
           \/ OpenPull \/ Dismiss
           \/ \E closed \in BOOLEAN : Otherwise(closed)
           \/ \E run \in 0..MaxVerifyRuns : Merge(run)
    PROVE  PromotionInv'
<1>t. PromotionTypeOK /\ PullsKnown /\ MergesKnown
    BY DEF PromotionInv
<1>k. /\ inputs \in Seq([Sides -> Nat]) /\ Tip \in DOMAIN inputs /\ Tip \in Nat
      /\ verify \in Seq(VerifyRun) /\ merges \in Seq(Merged) /\ pull \in Nat /\ pulls \in Nat
    BY <1>t DEF PromotionTypeOK, PullsKnown, Tip
<1>m. \A m \in DOMAIN merges : merges[m] \in Merged
    BY <1>k
<1>v. \A i \in DOMAIN verify : verify[i] \in VerifyRun
    BY <1>k
<1>1. ASSUME NEW affected \in SUBSET Sides, Push(affected) PROVE PromotionInv'
    <2> DEFINE new == [a \in Sides |-> IF a \in affected THEN Tip + 1 ELSE inputs[Tip][a]]
    <2>1. /\ inputs' = Append(inputs, new)
          /\ UNCHANGED <<pull, pulls, production, verify, merges, successes, hostVars>>
        BY <1>1 DEF Push
    <2>2. new \in [Sides -> Nat]
        BY <1>k
    <2> HIDE DEF new
    <2>3. PromotionTypeOK' /\ PullsKnown'
        <3>1. inputs' \in Seq([Sides -> Nat]) /\ inputs' # <<>>
            BY <2>1, <2>2, <1>k
        <3>2. UNCHANGED <<pull, pulls, production, verify, merges, successes, commands, pair>>
            BY <2>1 DEF hostVars
        <3>3. PromotionTypeOK'
            BY <3>1, <3>2, <1>t DEF PromotionTypeOK
        <3>4. PullsKnown'
            BY <3>1, <3>2, <1>t DEF PullsKnown
        <3> QED  BY <3>3, <3>4
    <2>4. Extends(inputs, verify, merges, inputs', verify', merges')
        BY <2>1, <2>2, <1>k DEF Extends
    <2> QED  BY <2>1, <2>3, <2>4, Kept, RunsKept, MergesKept DEF PromotionInv
<1>2. ASSUME OpenPull \/ Dismiss \/ \E closed \in BOOLEAN : Otherwise(closed)
      PROVE  PromotionInv'
    <2>1. /\ pull' \in Nat /\ pulls' \in Nat /\ production' \in Nat
          /\ pull' = 0 \/ (pull' = pull /\ pulls' = pulls) \/ (pulls' = pulls + 1 /\ pull' = pulls')
          /\ pulls <= pulls'
          /\ UNCHANGED <<inputs, verify, merges, successes, hostVars>>
        BY <1>2, <1>t DEF OpenPull, Dismiss, Otherwise, PromotionTypeOK
    <2>2. PromotionTypeOK'
        BY <2>1, <1>t DEF PromotionTypeOK, hostVars
    <2>3. \A m \in DOMAIN merges : merges[m].pr \in Nat
        BY <1>m DEF Merged
    <2>4. PullsKnown'
        BY <2>1, <2>3, <1>t, <1>k DEF PullsKnown
    <2>5. Extends(inputs, verify, merges, inputs', verify', merges')
        BY <2>1 DEF Extends
    <2> QED  BY <2>1, <2>2, <2>4, <2>5, Kept, RunsKept, MergesKept DEF PromotionInv
<1>3. ASSUME NEW run \in 0..MaxVerifyRuns, Merge(run) PROVE PromotionInv'
    <2> DEFINE new == [pr |-> pull, source |-> Tip, at |-> production + 1, run |-> run,
           proven |-> Proven(run), step |-> "waiting", attempt |-> 1,
           candidate |-> Fresh(NoRelease, pull, Tip), done |-> FALSE, stamp |-> 0]
    <2>1. /\ merges' = Append(merges, new) /\ production' = production + 1 /\ pull' = 0
          /\ pull # 0 /\ run \in RunsOf(Tip) \cup {0}
          /\ UNCHANGED <<inputs, pulls, verify, successes, hostVars>>
        BY <1>3 DEF Merge, LastRun
    <2>2. Proven(run) \in Nat /\ (Proven(run) # 0 => run \in RunsOf(Tip))
        BY <2>1, <1>v DEF Proven, RunsOf, VerifyRun
    <2>3. Fresh(NoRelease, pull, Tip) \in Candidate
        BY <1>k, FreshIs DEF NoRelease
    <2>4. run \in Nat
        OBVIOUS
    <2>5. /\ new \in Merged /\ new.pr = pull /\ new.source = Tip /\ new.step = "waiting"
          /\ new.run = run /\ new.proven = Proven(run)
        BY <2>2, <2>3, <2>4, <1>k, <1>t DEF Merged, PromotionTypeOK
    <2> HIDE DEF new
    <2>6. PromotionTypeOK'
        BY <2>1, <2>5, <1>t, <1>k DEF PromotionTypeOK, hostVars
    <2>7. PullsKnown'
        BY <2>1, <2>5, <1>t, <1>k DEF PullsKnown
    <2>8. Extends(inputs, verify, merges, inputs', verify', merges')
        BY <2>1, <2>5, <1>k DEF Extends
    <2>9. MergesKnown'
        <3>1. ASSUME NEW m \in DOMAIN merges'
              PROVE  MergeFits(merges'[m], inputs', verify', merges')
            <4>1. CASE m \in DOMAIN merges
                <5>1. MergeFits(merges[m], inputs, verify, merges) /\ merges'[m] = merges[m]
                    BY <4>1, <2>1, <2>5, <1>t, <1>k DEF MergesKnown
                <5> QED  BY <5>1, <2>8, FittingStays
            <4>2. CASE m \notin DOMAIN merges
                <5>1. DOMAIN merges' = 1..(Len(merges) + 1) /\ merges'[Len(merges) + 1] = new
                    BY <2>1, <2>5, <1>k
                <5>2. DOMAIN merges = 1..Len(merges) /\ Len(merges) \in Nat
                    BY <1>k
                <5>3. m = Len(merges) + 1
                    BY <4>2, <3>1, <5>1, <5>2
                <5>4. merges'[m] = new
                    BY <5>1, <5>3
                <5> QED  BY <5>4, <2>1, <2>2, <2>5, <1>k DEF MergeFits, RunsOf
            <4> QED  BY <4>1, <4>2
        <3> QED  BY <3>1 DEF MergesKnown
    <2> QED  BY <2>1, <2>6, <2>7, <2>8, <2>9, Kept, RunsKept DEF PromotionInv
<1> QED  BY <1>1, <1>2, <1>3

-----------------------------------------------------------------------------
\* A step of one run, when the other runs are as they were or have ended.
LEMMA RunReplaced ==
    ASSUME PromotionInv, UNCHANGED <<repoVars, merges, successes, hostVars>>,
           NEW runs \in Seq(VerifyRun), Len(runs) = Len(verify),
           \A j \in DOMAIN verify :
              /\ RunFits(j, runs[j], inputs, verify)
              /\ runs[j].candidate.pr = verify[j].candidate.pr
              /\ runs[j].candidate.source = verify[j].candidate.source,
           NEW i \in DOMAIN verify, NEW new \in VerifyRun,
           RunFits(i, new, inputs, verify),
           new.candidate.pr = verify[i].candidate.pr,
           new.candidate.source = verify[i].candidate.source,
           verify' = [runs EXCEPT ![i] = new]
    PROVE  PromotionInv'
<1>t. PromotionTypeOK /\ verify \in Seq(VerifyRun)
    BY DEF PromotionInv, PromotionTypeOK
<1>1. /\ verify' \in Seq(VerifyRun) /\ DOMAIN verify' = DOMAIN verify
      /\ \A j \in DOMAIN verify : verify'[j] = IF j = i THEN new ELSE runs[j]
    BY <1>t
<1>2. UNCHANGED <<inputs, pull, pulls, production, merges, successes, commands, pair, hostVars>>
    BY DEF repoVars, hostVars
<1>3. Extends(inputs, verify, merges, inputs', verify', merges')
    BY <1>1, <1>2 DEF Extends
<1>4. RunsKnown'
    <2>1. ASSUME NEW j \in DOMAIN verify' PROVE RunFits(j, verify'[j], inputs', verify')
        <3>1. RunFits(j, verify'[j], inputs, verify)
            BY <1>1
        <3> QED  BY <3>1, <1>3, FittingStays
    <2> QED  BY <2>1 DEF RunsKnown
<1>5. PromotionTypeOK' /\ PullsKnown'
    BY <1>1, <1>2, <1>t DEF PromotionInv, PromotionTypeOK, PullsKnown
<1> QED  BY <1>2, <1>3, <1>4, <1>5, Kept, MergesKept DEF PromotionInv

\* The runs that another one has ended.
LEMMA EndedIs ==
    ASSUME PromotionInv, NEW pr
    PROVE  /\ Ended(pr) \in Seq(VerifyRun) /\ Len(Ended(pr)) = Len(verify)
           /\ \A j \in DOMAIN verify :
                 /\ RunFits(j, Ended(pr)[j], inputs, verify)
                 /\ Ended(pr)[j].candidate.pr = verify[j].candidate.pr
                 /\ Ended(pr)[j].candidate.source = verify[j].candidate.source
<1>1. verify \in Seq(VerifyRun)
    BY DEF PromotionInv, PromotionTypeOK
<1>2. ASSUME NEW j \in DOMAIN verify
      PROVE  /\ Ended(pr)[j] \in VerifyRun
             /\ RunFits(j, Ended(pr)[j], inputs, verify)
             /\ Ended(pr)[j].candidate.pr = verify[j].candidate.pr
             /\ Ended(pr)[j].candidate.source = verify[j].candidate.source
    <2>1. verify[j] \in VerifyRun /\ RunFits(j, verify[j], inputs, verify)
        BY <1>1 DEF PromotionInv, RunsKnown
    <2>2. Ended(pr)[j] = Failed(verify[j]) \/ Ended(pr)[j] = verify[j]
        BY DEF Ended
    <2> QED  BY <2>1, <2>2, FailedIs
<1>3. DOMAIN Ended(pr) = 1..Len(verify) /\ Len(verify) \in Nat
    BY <1>1 DEF Ended
<1>4. Ended(pr) = [j \in DOMAIN verify |-> Ended(pr)[j]] /\ DOMAIN verify = 1..Len(verify)
    BY <1>1 DEF Ended
<1>5. \A j \in 1..Len(verify) : Ended(pr)[j] \in VerifyRun
    BY <1>2, <1>4
<1>6. Ended(pr) \in Seq(VerifyRun)
    BY <1>3, <1>4, <1>5
<1> QED  BY <1>2, <1>3, <1>6

-----------------------------------------------------------------------------
\* A run that is triggered is added to runs that have ended or are as they were.
LEMMA TriggerStep ==
    ASSUME PromotionInv, Trigger
    PROVE  PromotionInv'
<1> DEFINE c == Fresh(<<Len(verify) + 1, 1>>, pull, Tip)
           new == [step |-> "started", attempt |-> 1, base |-> production, built |-> {},
                   candidate |-> c]
<1>1. /\ verify' = Append(Ended(pull), new) /\ pull # 0
      /\ UNCHANGED <<inputs, pull, pulls, production, merges, successes, commands, pair, hostVars>>
    BY DEF Trigger, repoVars, hostVars
<1>2. /\ inputs \in Seq([Sides -> Nat]) /\ inputs # <<>> /\ pull \in Nat /\ production \in Nat
      /\ verify \in Seq(VerifyRun) /\ PromotionTypeOK
    BY DEF PromotionInv, PromotionTypeOK, PullsKnown
<1>3. Tip \in Nat /\ Tip \in DOMAIN inputs /\ Len(verify) + 1 \in Nat
    BY <1>2 DEF Tip
<1>4. /\ c \in Candidate /\ c.id = <<Len(verify) + 1, 1>> /\ c.pr = pull /\ c.source = Tip
    <2>1. <<Len(verify) + 1, 1>> \in Nat \X Nat
        BY <1>3
    <2> QED  BY <2>1, <1>2, <1>3, FreshIs
<1> HIDE DEF c
<1>5. /\ new \in VerifyRun /\ new.candidate = c /\ new.attempt = 1 /\ new.step = "started"
    BY <1>2, <1>4 DEF VerifyRun
<1> HIDE DEF new
<1>6. RunFits(Len(verify) + 1, new, inputs, verify)
    BY <1>1, <1>3, <1>4, <1>5 DEF RunFits
<1> DEFINE runs == Ended(pull)
<1>7. /\ runs \in Seq(VerifyRun) /\ Len(runs) = Len(verify)
      /\ \A j \in DOMAIN verify :
            /\ RunFits(j, runs[j], inputs, verify)
            /\ runs[j].candidate.pr = verify[j].candidate.pr
            /\ runs[j].candidate.source = verify[j].candidate.source
    BY EndedIs
<1>8. verify' = Append(runs, new)
    BY <1>1
<1> HIDE DEF runs
<1>9. /\ verify' \in Seq(VerifyRun) /\ DOMAIN verify \subseteq DOMAIN verify'
      /\ \A j \in DOMAIN verify : verify'[j] = runs[j]
      /\ \A j \in DOMAIN verify' \ DOMAIN verify : j = Len(verify) + 1 /\ verify'[j] = new
    BY <1>2, <1>5, <1>7, <1>8
<1>10. Extends(inputs, verify, merges, inputs', verify', merges')
    BY <1>1, <1>7, <1>9 DEF Extends
<1>11. RunsKnown'
    <2>1. ASSUME NEW j \in DOMAIN verify' PROVE RunFits(j, verify'[j], inputs', verify')
        <3>1. RunFits(j, verify'[j], inputs, verify)
            BY <1>6, <1>7, <1>9
        <3> QED  BY <3>1, <1>10, FittingStays
    <2> QED  BY <2>1 DEF RunsKnown
<1>12. PromotionTypeOK' /\ PullsKnown'
    BY <1>1, <1>2, <1>9 DEF PromotionInv, PromotionTypeOK, PullsKnown
<1> QED  BY <1>1, <1>10, <1>11, <1>12, Kept, MergesKept DEF PromotionInv

\* The steps of a run that neither plan nor build.
LEMMA RunStep ==
    ASSUME PromotionInv, NEW i \in DOMAIN verify,
           \/ Rerun(i) \/ PassRun(i) \/ BreakRun(i)
           \/ \E s \in Settings : Note(i, s)
    PROVE  PromotionInv'
<1> DEFINE run == verify[i]
<1>1. /\ run \in VerifyRun /\ RunFits(i, run, inputs, verify) /\ i \in Nat
      /\ verify \in Seq(VerifyRun)
    BY DEF PromotionInv, PromotionTypeOK, RunsKnown
<1>2. /\ run.candidate.pr \in Nat /\ run.candidate.source \in Nat /\ run.attempt \in Nat
      /\ run.candidate \in Candidate /\ run.base \in Nat
      /\ run.candidate.pr # 0 /\ run.candidate.source \in DOMAIN inputs
    BY <1>1 DEF VerifyRun, Candidate, RunFits
<1>3. \A j \in DOMAIN verify : RunFits(j, verify[j], inputs, verify)
    BY DEF PromotionInv, RunsKnown
<1>4. CASE Rerun(i)
    <2> DEFINE c == Fresh(<<i, run.attempt + 1>>, run.candidate.pr, run.candidate.source)
               new == [step |-> "started", attempt |-> run.attempt + 1, base |-> run.base,
                       built |-> {}, candidate |-> c]
    <2>1. /\ verify' = [Ended(run.candidate.pr) EXCEPT ![i] = new]
          /\ UNCHANGED <<repoVars, merges, successes, hostVars>>
        BY <1>4 DEF Rerun
    <2>2. /\ c \in Candidate /\ c.id = <<i, run.attempt + 1>> /\ c.pr = run.candidate.pr
          /\ c.source = run.candidate.source
        <3>1. <<i, run.attempt + 1>> \in Nat \X Nat
            BY <1>1, <1>2
        <3>2. run.candidate.pr \in Nat /\ run.candidate.source \in Nat
            BY <1>2
        <3> HIDE DEF run
        <3> QED  BY <3>1, <3>2, FreshIs
    <2> HIDE DEF c
    <2>3. /\ new \in VerifyRun /\ new.candidate = c /\ new.attempt = run.attempt + 1
          /\ new.step = "started"
        BY <1>2, <2>2 DEF VerifyRun
    <2> HIDE DEF new
    <2>4. RunFits(i, new, inputs, verify)
        BY <1>2, <2>2, <2>3 DEF RunFits
    <2> QED  BY <2>1, <2>2, <2>3, <2>4, EndedIs, RunReplaced
<1>5. ASSUME NEW new \in VerifyRun, RunFits(i, new, inputs, verify),
             new.candidate.pr = run.candidate.pr, new.candidate.source = run.candidate.source,
             RunGoes(i, new)
      PROVE  PromotionInv'
    BY <1>1, <1>3, <1>5, RunReplaced DEF RunGoes
<1>6. CASE PassRun(i)
    <2> DEFINE new == [run EXCEPT !.step = "passed"]
    <2>1. run.step = "recorded" /\ RunGoes(i, new)
        BY <1>6 DEF PassRun
    <2>2. /\ new \in VerifyRun /\ new.step = "passed" /\ new.candidate = run.candidate
          /\ new.attempt = run.attempt
        BY <1>1 DEF VerifyRun
    <2> HIDE DEF new
    <2>3. RunFits(i, new, inputs, verify)
        BY <1>1, <2>1, <2>2 DEF RunFits
    <2> QED  BY <1>5, <2>1, <2>2, <2>3
<1>7. CASE BreakRun(i)
    BY <1>1, <1>5, <1>7, FailedIs DEF BreakRun
<1>8. ASSUME NEW s \in Settings, Note(i, s) PROVE PromotionInv'
    <2> DEFINE new == [run EXCEPT !.step = "recorded", !.built = {}]
    <2>1. /\ run.step = "planned" /\ RunGoes(i, new)
          /\ \A a \in Sides : run.candidate.images[a] # Nothing
          /\ run.candidate.setting = s
          /\ \A a \in run.built : run.candidate.images[a].setting = s
        BY <1>8 DEF Note, Consistent
    <2>2. /\ new \in VerifyRun /\ new.step = "recorded" /\ new.candidate = run.candidate
          /\ new.attempt = run.attempt
        BY <1>1 DEF VerifyRun
    <2> HIDE DEF new
    <2>3. ASSUME NEW a \in Sides PROVE ImageFits(a, run.candidate, inputs)
        BY <1>1, <1>2, <2>1 DEF RunFits, ImageFits
    <2>4. RunFits(i, new, inputs, verify)
        BY <1>1, <2>1, <2>2, <2>3 DEF RunFits
    <2> QED  BY <1>5, <2>1, <2>2, <2>4
<1> QED  BY <1>4, <1>6, <1>7, <1>8

\* The images that are not built are those of a release which was merged before,
\* and its inputs and its configuration are the candidate's.
LEMMA PlanStep ==
    ASSUME PromotionInv, NEW i \in DOMAIN verify, NEW m \in DOMAIN merges \cup {0},
           NEW s \in Settings, NEW built \in SUBSET Sides, Plan(i, m, s, built)
    PROVE  PromotionInv'
<1> DEFINE run == verify[i]
           base == merges[m].candidate
           images == [a \in Sides |-> IF a \in built THEN Nothing ELSE base.images[a]]
           baseline == IF m = 0 THEN NoRelease ELSE base.id
           c == [run.candidate EXCEPT !.setting = s, !.baseline = baseline, !.images = images]
           new == [run EXCEPT !.step = "planned", !.built = built, !.candidate = c]
<1>1. /\ run \in VerifyRun /\ RunFits(i, run, inputs, verify) /\ i \in Nat
      /\ verify \in Seq(VerifyRun) /\ merges \in Seq(Merged)
      /\ \A j \in DOMAIN verify : RunFits(j, verify[j], inputs, verify)
    BY DEF PromotionInv, PromotionTypeOK, RunsKnown
<1>2. /\ verify' = [verify EXCEPT ![i] = new] /\ Prepared(i)
      /\ UNCHANGED <<repoVars, merges, successes, hostVars>>
      /\ m # 0 => Evidence(m)
      /\ built \in Planned(i, m, s)
    BY DEF Plan
<1>3. /\ run.candidate \in Candidate /\ run.candidate.pr = pull /\ pull # 0 /\ pull \in Nat
      /\ run.candidate.source \in DOMAIN inputs
    BY <1>1, <1>2 DEF VerifyRun, RunFits, Prepared, PromotionInv, PromotionTypeOK
<1>4. m # 0 => /\ m \in DOMAIN merges /\ merges[m].step = "succeeded"
               /\ Fitting(base, inputs, verify, merges)
    BY <1>2 DEF Evidence, PromotionInv, MergesKnown, MergeFits
<1>5. m = 0 => built = Sides
    BY <1>2 DEF Planned
<1>6. images \in [Sides -> Image \cup {Nothing}]
    BY <1>4, <1>5 DEF Fitting, Candidate
<1>7. baseline \in Nat \X Nat
    BY <1>4 DEF Fitting, Candidate, NoRelease
<1>8. ASSUME NEW a \in Sides, a \notin built
      PROVE  /\ images[a] \in Image /\ images[a].source \in DOMAIN inputs
             /\ inputs[images[a].source][a] = inputs[run.candidate.source][a]
             /\ images[a].setting = s
    <2>1. m # 0 /\ base.setting = s /\ built = Affected(base.source, run.candidate.source)
        BY <1>2, <1>8 DEF Planned
    <2>2. ImageFits(a, base, inputs) /\ images[a] = base.images[a]
        BY <1>4, <1>8, <2>1 DEF Fitting
    <2>3. inputs[base.source][a] = inputs[run.candidate.source][a]
        BY <1>8, <2>1 DEF Affected
    <2> QED  BY <2>1, <2>2, <2>3 DEF ImageFits
<1>9. \A a \in built : a \in Sides => images[a] = Nothing
    OBVIOUS
<1>10. baseline = NoRelease \/ (/\ baseline[1] \in DOMAIN verify
                                /\ verify[baseline[1]].candidate.pr < pull)
    <2>1. CASE m = 0
        BY <2>1
    <2>2. CASE m # 0
        <3>1. PICK n \in DOMAIN merges : merges[n].pr = base.pr
            BY <2>2, <1>4 DEF Fitting
        <3>2. base.pr < pull
            BY <3>1, <1>3 DEF PromotionInv, PullsKnown
        <3> QED  BY <2>2, <3>2, <1>4 DEF Fitting
    <2> QED  BY <2>1, <2>2
<1> HIDE DEF images, baseline
<1>11. /\ c \in Candidate /\ c.id = run.candidate.id /\ c.pr = run.candidate.pr
       /\ c.source = run.candidate.source /\ c.setting = s /\ c.baseline = baseline
       /\ c.images = images
    BY <1>3, <1>6, <1>7 DEF Candidate
<1> HIDE DEF c
<1>12. /\ new \in VerifyRun /\ new.step = "planned" /\ new.built = built /\ new.candidate = c
       /\ new.attempt = run.attempt
    BY <1>1, <1>11 DEF VerifyRun
<1> HIDE DEF new
<1>13. Placed(c, verify)
    BY <1>3, <1>10, <1>11 DEF Placed
<1>14. \A a \in Sides : IF a \in built THEN c.images[a] = Nothing ELSE ImageFits(a, c, inputs)
    BY <1>8, <1>9, <1>11 DEF ImageFits
<1>15. RunFits(i, new, inputs, verify)
    BY <1>1, <1>3, <1>11, <1>12, <1>13, <1>14 DEF RunFits
<1> QED  BY <1>1, <1>2, <1>11, <1>12, <1>15, RunReplaced

\* An image is built from the candidate's source.
LEMMA BuildStep ==
    ASSUME PromotionInv, NEW i \in DOMAIN verify, NEW a \in Sides, NEW s \in Settings,
           Build(i, a, s)
    PROVE  PromotionInv'
<1> DEFINE run == verify[i]
           image == [source |-> run.candidate.source, setting |-> s]
           images == [run.candidate.images EXCEPT ![a] = image]
           c == [run.candidate EXCEPT !.images = images]
           new == [run EXCEPT !.candidate = c]
<1>1. /\ run \in VerifyRun /\ RunFits(i, run, inputs, verify) /\ i \in Nat
      /\ verify \in Seq(VerifyRun)
      /\ \A j \in DOMAIN verify : RunFits(j, verify[j], inputs, verify)
    BY DEF PromotionInv, PromotionTypeOK, RunsKnown
<1>2. /\ verify' = [verify EXCEPT ![i] = new] /\ run.step = "planned" /\ a \in run.built
      /\ UNCHANGED <<repoVars, merges, successes, hostVars>>
    BY DEF Build
<1>3. /\ run.candidate \in Candidate /\ run.candidate.source \in Nat
      /\ run.candidate.images \in [Sides -> Image \cup {Nothing}]
    BY <1>1 DEF VerifyRun, Candidate
<1>4. image \in Image /\ image.source = run.candidate.source
    BY <1>3 DEF Image
<1> HIDE DEF image
<1>5. /\ images \in [Sides -> Image \cup {Nothing}] /\ images[a] = image
      /\ \A b \in Sides \ {a} : images[b] = run.candidate.images[b]
    BY <1>3, <1>4
<1> HIDE DEF images
<1>6. /\ c \in Candidate /\ c.id = run.candidate.id /\ c.pr = run.candidate.pr
      /\ c.source = run.candidate.source /\ c.setting = run.candidate.setting
      /\ c.baseline = run.candidate.baseline /\ c.images = images
    BY <1>3, <1>5 DEF Candidate
<1> HIDE DEF c
<1>7. /\ new \in VerifyRun /\ new.step = "planned" /\ new.built = run.built
      /\ new.candidate = c /\ new.attempt = run.attempt
    BY <1>1, <1>2, <1>6 DEF VerifyRun
<1> HIDE DEF new
<1>8. Placed(c, verify)
    BY <1>1, <1>2, <1>6 DEF RunFits, Placed
<1>9. ASSUME NEW b \in Sides
      PROVE  IF b \in run.built
             THEN \/ c.images[b] = Nothing
                  \/ c.images[b] \in Image /\ c.images[b].source = c.source
             ELSE ImageFits(b, c, inputs)
    <2>1. CASE b = a
        BY <2>1, <1>2, <1>4, <1>5, <1>6
    <2>2. CASE b # a
        BY <2>2, <1>1, <1>2, <1>5, <1>6 DEF RunFits, ImageFits
    <2> QED  BY <2>1, <2>2
<1>10. RunFits(i, new, inputs, verify)
    BY <1>1, <1>2, <1>6, <1>7, <1>8, <1>9 DEF RunFits
<1> QED  BY <1>1, <1>2, <1>6, <1>7, <1>10, RunReplaced

-----------------------------------------------------------------------------
\* A step of one rollout: what the runs and the merges know stays.
LEMMA RolloutMoves ==
    ASSUME PromotionInv, NEW m \in DOMAIN merges, NEW new \in Merged, Rollout(m, new),
           successes' \in Nat,
           new.pr = merges[m].pr, new.source = merges[m].source,
           new.run = merges[m].run, new.proven = merges[m].proven,
           new.step \in {"resolved", "sent", "succeeded"} =>
              Fitting(new.candidate, inputs, verify, merges)
    PROVE  /\ merges' \in Seq(Merged)
           /\ DOMAIN merges' = DOMAIN merges
           /\ PullsKnown' /\ RunsKnown' /\ MergesKnown'
           /\ Extends(inputs, verify, merges, inputs', verify', merges')
           /\ UNCHANGED <<inputs, pull, pulls, production, verify>>
<1>1. merges \in Seq(Merged)
    BY DEF PromotionInv, PromotionTypeOK
<1>2. /\ merges' \in Seq(Merged) /\ DOMAIN merges' = DOMAIN merges
      /\ merges'[m] = new /\ \A n \in DOMAIN merges \ {m} : merges'[n] = merges[n]
    BY <1>1 DEF Rollout
<1>3. UNCHANGED <<inputs, pull, pulls, production, verify>>
    BY DEF Rollout, repoVars
<1>4. Extends(inputs, verify, merges, inputs', verify', merges')
    BY <1>2, <1>3 DEF Extends
<1>5. PullsKnown'
    BY <1>2, <1>3 DEF PromotionInv, PullsKnown
<1>6. MergesKnown'
    <2>1. ASSUME NEW n \in DOMAIN merges' PROVE MergeFits(merges'[n], inputs', verify', merges')
        <3>1. MergeFits(merges'[n], inputs, verify, merges)
            BY <1>2 DEF PromotionInv, MergesKnown, MergeFits
        <3> QED  BY <3>1, <1>4, FittingStays
    <2> QED  BY <2>1 DEF MergesKnown
<1> QED  BY <1>2, <1>3, <1>4, <1>5, <1>6, RunsKept

LEMMA RolloutStep ==
    ASSUME PromotionInv, NEW m \in DOMAIN merges,
           Resolve(m) \/ Send(m) \/ Succeed(m) \/ Miss(m) \/ Again(m)
    PROVE  PromotionInv'
<1> DEFINE old == merges[m]
           none == Fresh(NoRelease, old.pr, old.source)
<1>1. /\ old \in Merged /\ MergeFits(old, inputs, verify, merges) /\ PromotionTypeOK
      /\ m \in Nat
    BY DEF PromotionInv, PromotionTypeOK, MergesKnown
<1>2. /\ old.pr \in Nat /\ old.source \in Nat /\ old.attempt \in Nat
      /\ old.candidate \in Candidate
    BY <1>1 DEF Merged
<1>3. none \in Candidate
    BY <1>2, FreshIs DEF NoRelease
<1> HIDE DEF none
<1>4. ASSUME NEW new \in Merged, Rollout(m, new), successes' \in Nat, UNCHANGED pair,
             new.pr = old.pr, new.source = old.source, new.run = old.run,
             new.proven = old.proven,
             new.step \in {"resolved", "sent", "succeeded"} =>
                Fitting(new.candidate, inputs, verify, merges),
             \/ UNCHANGED commands
             \/ /\ old.step = "resolved"
                /\ commands' = commands \cup {[merge |-> m, attempt |-> old.attempt,
                                               candidate |-> old.candidate]}
      PROVE  PromotionInv'
    <2>1. /\ merges' \in Seq(Merged) /\ DOMAIN merges' = DOMAIN merges
          /\ PullsKnown' /\ RunsKnown' /\ MergesKnown'
          /\ Extends(inputs, verify, merges, inputs', verify', merges')
          /\ UNCHANGED <<inputs, pull, pulls, production, verify>>
        BY <1>4, RolloutMoves
    <2>2. \A d : Fitting(d, inputs, verify, merges) => Fitting(d, inputs', verify', merges')
        BY <2>1, FittingStays
    <2>3. CASE UNCHANGED commands
        <3>1. PromotionTypeOK'
            BY <2>1, <2>3, <1>1, <1>4 DEF PromotionTypeOK
        <3> QED  BY <2>1, <2>3, <3>1, <1>4, Kept DEF PromotionInv, hostVars
    <2>4. CASE /\ old.step = "resolved"
               /\ commands' = commands \cup {[merge |-> m, attempt |-> old.attempt,
                                              candidate |-> old.candidate]}
        <3> DEFINE sent == [merge |-> m, attempt |-> old.attempt, candidate |-> old.candidate]
        <3>1. /\ sent \in Command /\ sent.merge = m /\ sent.candidate = old.candidate
              /\ commands' = commands \cup {sent}
            BY <2>4, <1>1, <1>2 DEF Command
        <3> HIDE DEF sent
        <3>2. Fitting(sent.candidate, inputs, verify, merges)
            BY <2>4, <3>1, <1>1 DEF MergeFits
        <3>3. CommandsKnown'
            BY <2>1, <2>2, <3>1, <3>2 DEF PromotionInv, CommandsKnown
        <3>4. PromotionTypeOK'
            BY <2>1, <3>1, <1>1, <1>4 DEF PromotionTypeOK
        <3>5. PairKnown' /\ InOrder'
            BY <2>2, <1>4 DEF PromotionInv, PairKnown, InOrder
        <3> QED  BY <2>1, <3>3, <3>4, <3>5 DEF PromotionInv
    <2> QED  BY <2>3, <2>4, <1>4
<1>5. CASE Resolve(m)
    <2> DEFINE run == verify[old.run]
               new == [old EXCEPT !.step = "resolved", !.candidate = run.candidate]
    <2>1. /\ Rollout(m, new) /\ UNCHANGED <<successes, commands, pair>>
          /\ old.proven # 0 /\ run.step = "passed" /\ run.attempt = old.proven
          /\ run.candidate.pr = old.pr
        BY <1>5 DEF Resolve, Deployable, hostVars
    <2>2. old.run \in DOMAIN verify /\ run.candidate.source = old.source
        BY <2>1, <1>1 DEF MergeFits
    <2>3. run \in VerifyRun /\ RunFits(old.run, run, inputs, verify)
        BY <2>2 DEF PromotionInv, PromotionTypeOK, RunsKnown
    <2>4. Fitting(run.candidate, inputs, verify, merges)
        BY <2>1, <2>2, <2>3 DEF Fitting, RunFits, VerifyRun
    <2>5. /\ new \in Merged /\ new.pr = old.pr /\ new.source = old.source
          /\ new.run = old.run /\ new.proven = old.proven /\ new.candidate = run.candidate
        BY <2>3, <1>1 DEF Merged, VerifyRun
    <2> HIDE DEF new
    <2> QED  BY <2>1, <2>4, <2>5, <1>1, <1>4 DEF PromotionTypeOK
<1>6. CASE Send(m)
    <2> DEFINE new == [old EXCEPT !.step = "sent"]
    <2>1. /\ Rollout(m, new) /\ UNCHANGED <<successes, pair>> /\ old.step = "resolved"
          /\ commands' = commands \cup {[merge |-> m, attempt |-> old.attempt,
                                         candidate |-> old.candidate]}
        BY <1>6 DEF Send
    <2>2. /\ new \in Merged /\ new.pr = old.pr /\ new.source = old.source
          /\ new.run = old.run /\ new.proven = old.proven /\ new.candidate = old.candidate
        BY <1>1 DEF Merged
    <2>3. Fitting(old.candidate, inputs, verify, merges)
        BY <2>1, <1>1 DEF MergeFits
    <2> HIDE DEF new
    <2> QED  BY <2>1, <2>2, <2>3, <1>1, <1>4 DEF PromotionTypeOK
<1>7. CASE Succeed(m)
    <2> DEFINE new == [old EXCEPT !.step = "succeeded", !.stamp = successes + 1]
    <2>1. /\ Rollout(m, new) /\ UNCHANGED <<commands, pair>> /\ old.step = "sent"
          /\ successes' = successes + 1 /\ successes \in Nat
        BY <1>1, <1>7 DEF Succeed, hostVars, PromotionTypeOK
    <2>2. /\ new \in Merged /\ new.pr = old.pr /\ new.source = old.source
          /\ new.run = old.run /\ new.proven = old.proven /\ new.candidate = old.candidate
        <3>1. successes + 1 \in Nat
            BY <2>1
        <3> QED  BY <3>1, <1>1 DEF Merged
    <2>3. Fitting(old.candidate, inputs, verify, merges)
        BY <2>1, <1>1 DEF MergeFits
    <2> HIDE DEF new
    <2> QED  BY <2>1, <2>2, <2>3, <1>4
<1>8. CASE Miss(m)
    <2> DEFINE new == [old EXCEPT !.step = "failed", !.done = FALSE, !.candidate = none]
    <2>1. Rollout(m, new) /\ UNCHANGED <<successes, commands, pair>>
        BY <1>8 DEF Miss, hostVars, none
    <2>2. /\ new \in Merged /\ new.pr = old.pr /\ new.source = old.source
          /\ new.run = old.run /\ new.proven = old.proven /\ new.step = "failed"
        BY <1>1, <1>3 DEF Merged
    <2> HIDE DEF new
    <2> QED  BY <2>1, <2>2, <1>1, <1>4 DEF PromotionTypeOK
<1>9. CASE Again(m)
    <2> DEFINE new == [old EXCEPT !.step = "waiting", !.attempt = old.attempt + 1,
                                  !.done = FALSE, !.stamp = 0, !.candidate = none]
    <2>1. Rollout(m, new) /\ UNCHANGED <<successes, commands, pair>>
        BY <1>9 DEF Again, hostVars, none
    <2>2. /\ new \in Merged /\ new.pr = old.pr /\ new.source = old.source
          /\ new.run = old.run /\ new.proven = old.proven /\ new.step = "waiting"
        <3>1. old.attempt + 1 \in Nat
            BY <1>2
        <3> QED  BY <3>1, <1>1, <1>3 DEF Merged
    <2> HIDE DEF new
    <2> QED  BY <2>1, <2>2, <1>1, <1>4 DEF PromotionTypeOK
<1> QED  BY <1>5, <1>6, <1>7, <1>8, <1>9

-----------------------------------------------------------------------------
\* The host takes a candidate upon the release it has: that of an earlier pull
\* request, for the names of releases tell their runs.
LEMMA CarryStep ==
    ASSUME PromotionInv, NEW command \in commands, Carry(command)
    PROVE  PromotionInv'
<1> DEFINE m == command.merge
           c == command.candidate
           old == merges[m]
           new == [old EXCEPT !.done = old.done
                      \/ (old.step = "sent" /\ old.attempt = command.attempt)]
<1>1. /\ m \in DOMAIN merges /\ Fitting(c, inputs, verify, merges)
      /\ PromotionTypeOK /\ InOrder /\ PairKnown
    BY DEF PromotionInv, CommandsKnown
<1>2. /\ c.baseline = Current /\ pair' = Append(pair, c) /\ commands' = commands \ {command}
      /\ Rollout(m, new) /\ UNCHANGED successes
    BY DEF Carry, Fits
<1>3. old \in Merged /\ MergeFits(old, inputs, verify, merges)
    BY <1>1 DEF PromotionInv, PromotionTypeOK, MergesKnown
<1>4. /\ new \in Merged /\ new.pr = old.pr /\ new.source = old.source /\ new.run = old.run
      /\ new.proven = old.proven /\ new.step = old.step /\ new.candidate = old.candidate
    BY <1>3 DEF Merged
<1> HIDE DEF new
<1>5. /\ merges' \in Seq(Merged) /\ DOMAIN merges' = DOMAIN merges
      /\ PullsKnown' /\ RunsKnown' /\ MergesKnown'
      /\ Extends(inputs, verify, merges, inputs', verify', merges')
      /\ UNCHANGED <<inputs, pull, pulls, production, verify>>
    BY <1>1, <1>2, <1>3, <1>4, RolloutMoves DEF PromotionTypeOK, MergeFits
<1>6. \A d : Fitting(d, inputs, verify, merges) => Fitting(d, inputs', verify', merges')
    BY <1>5, FittingStays
<1>7. pair \in Seq(Candidate) /\ c \in Candidate
    BY <1>1 DEF PromotionTypeOK, Fitting
<1> HIDE DEF c
<1>8. /\ pair' \in Seq(Candidate) /\ DOMAIN pair' = 1..(Len(pair) + 1)
      /\ DOMAIN pair = 1..Len(pair) /\ Len(pair) \in Nat
      /\ pair'[Len(pair) + 1] = c /\ \A k \in DOMAIN pair : pair'[k] = pair[k]
    BY <1>2, <1>7
<1>9. PromotionTypeOK'
    BY <1>1, <1>2, <1>5, <1>8 DEF PromotionTypeOK
<1>10. CommandsKnown'
    BY <1>2, <1>5, <1>6 DEF PromotionInv, CommandsKnown
<1>11. PairKnown'
    <2>1. ASSUME NEW k \in DOMAIN pair' PROVE Fitting(pair'[k], inputs', verify', merges')
        <3>1. Fitting(pair'[k], inputs, verify, merges)
            <4>1. CASE k = Len(pair) + 1
                BY <4>1, <1>1, <1>8 DEF c
            <4>2. CASE k # Len(pair) + 1
                <5>1. k \in DOMAIN pair
                    BY <4>2, <2>1, <1>8
                <5> QED  BY <5>1, <1>1, <1>8 DEF PairKnown
            <4> QED  BY <4>1, <4>2
        <3> QED  BY <3>1, <1>6
    <2> QED  BY <2>1 DEF PairKnown
<1>12. Len(pair) # 0 => c.baseline = pair[Len(pair)].id /\ pair[Len(pair)].pr < c.pr
    <2> SUFFICES ASSUME Len(pair) # 0
                 PROVE  c.baseline = pair[Len(pair)].id /\ pair[Len(pair)].pr < c.pr
        OBVIOUS
    <2>1. c.baseline = pair[Len(pair)].id /\ Len(pair) \in DOMAIN pair
        BY <1>2, <1>7, <1>8 DEF Current, c
    <2>2. /\ pair[Len(pair)].id[1] \in DOMAIN verify
          /\ verify[pair[Len(pair)].id[1]].candidate.pr = pair[Len(pair)].pr
        BY <2>1, <1>1 DEF PairKnown, Fitting
    <2>3. pair[Len(pair)].id[1] # 0
        BY <2>2 DEF PromotionInv, PromotionTypeOK
    <2>4. c.baseline # NoRelease
        BY <2>1, <2>3 DEF NoRelease
    <2>5. Placed(c, verify)
        BY <1>1 DEF Fitting, c
    <2> QED  BY <2>1, <2>2, <2>4, <2>5 DEF Placed
<1>13. \A k \in DOMAIN pair : pair[k].pr \in Nat
    <2>1. \A k \in DOMAIN pair : pair[k] \in Candidate
        BY <1>7
    <2> QED  BY <2>1 DEF Candidate
<1>14. c.pr \in Nat
    BY <1>7 DEF Candidate
<1>15. InOrder'
    <2>1. ASSUME NEW k \in DOMAIN pair'
          PROVE  /\ k > 1 => pair'[k].baseline = pair'[k - 1].id
                 /\ \A j \in 1..(k - 1) : pair'[j].pr < pair'[k].pr
        <3>1. CASE k \in DOMAIN pair
            <4>1. \A j \in 1..(k - 1) : j \in DOMAIN pair
                BY <3>1, <1>8
            <4>2. k > 1 => k - 1 \in DOMAIN pair
                BY <3>1, <1>8
            <4> QED  BY <3>1, <4>1, <4>2, <1>1, <1>8 DEF InOrder
        <3>2. CASE k \notin DOMAIN pair
            <4>1. k = Len(pair) + 1 /\ pair'[k] = c
                BY <3>2, <2>1, <1>8
            <4>2. k > 1 => pair'[k].baseline = pair'[k - 1].id
                <5> SUFFICES ASSUME k > 1 PROVE pair'[k].baseline = pair'[k - 1].id
                    OBVIOUS
                <5>1. k - 1 = Len(pair) /\ Len(pair) # 0 /\ Len(pair) \in DOMAIN pair
                    BY <4>1, <1>8
                <5> QED  BY <4>1, <5>1, <1>8, <1>12
            <4>3. ASSUME NEW j \in 1..(k - 1) PROVE pair'[j].pr < pair'[k].pr
                <5>1. j \in DOMAIN pair /\ Len(pair) # 0 /\ Len(pair) \in DOMAIN pair
                    BY <4>1, <1>8
                <5>2. pair[Len(pair)].pr < c.pr
                    BY <5>1, <1>12
                <5>3. CASE j = Len(pair)
                    BY <5>1, <5>2, <5>3, <4>1, <1>8
                <5>4. CASE j # Len(pair)
                    <6>1. j \in 1..(Len(pair) - 1)
                        BY <5>1, <5>4, <1>8
                    <6>2. pair[j].pr < pair[Len(pair)].pr
                        BY <6>1, <5>1, <1>1 DEF InOrder
                    <6>3. pair[j].pr < c.pr
                        BY <6>2, <5>1, <5>2, <1>13, <1>14
                    <6> QED  BY <6>3, <5>1, <4>1, <1>8
                <5> QED  BY <5>3, <5>4
            <4> QED  BY <4>2, <4>3
        <3> QED  BY <3>1, <3>2
    <2> QED  BY <2>1 DEF InOrder
<1> QED  BY <1>5, <1>9, <1>10, <1>11, <1>15 DEF PromotionInv

LEMMA RejectStep ==
    ASSUME PromotionInv, NEW command \in commands, Reject(command)
    PROVE  PromotionInv'
<1>1. /\ commands' = commands \ {command}
      /\ UNCHANGED <<inputs, pull, pulls, production, verify, merges, successes, pair>>
    BY DEF Reject, repoVars
<1>2. PromotionTypeOK'
    BY <1>1 DEF PromotionInv, PromotionTypeOK
<1>3. PullsKnown' /\ RunsKnown' /\ MergesKnown' /\ PairKnown' /\ InOrder'
    BY <1>1 DEF PromotionInv, PullsKnown, RunsKnown, MergesKnown, PairKnown, InOrder
<1>4. CommandsKnown'
    BY <1>1 DEF PromotionInv, CommandsKnown
<1> QED  BY <1>2, <1>3, <1>4 DEF PromotionInv

LEMMA PromotionStep == PromotionInv /\ [PromotionNext]_promotionVars => PromotionInv'
<1> SUFFICES ASSUME PromotionInv, [PromotionNext]_promotionVars PROVE PromotionInv'
    OBVIOUS
<1>1. CASE UNCHANGED promotionVars
    <2>1. UNCHANGED <<inputs, pull, pulls, production, verify, merges, successes, commands, pair>>
        BY <1>1 DEF promotionVars, repoVars, hostVars
    <2> QED  BY <2>1 DEF PromotionInv, PromotionTypeOK, PullsKnown, RunsKnown, MergesKnown,
                         CommandsKnown, PairKnown, InOrder
<1>2. ASSUME PromotionNext PROVE PromotionInv'
    BY <1>2, RepoStep, TriggerStep, RunStep, PlanStep, BuildStep, RolloutStep, CarryStep,
       RejectStep DEF PromotionNext
<1> QED  BY <1>1, <1>2

\* What is known of candidates, runs, merges and commands holds throughout.
THEOREM PromotionInvariance == PromotionSpec => []PromotionInv
<1> QED  BY PromotionInitial, PromotionStep, PTL DEF PromotionSpec

\* The releases of the host are merged, verified candidates, in the order of their
\* merges, each upon the one before, with the images its own source would give.
THEOREM HostRunsWhatWasMerged == PromotionSpec => []ReleasesSound
<1>1. PromotionInv => ReleasesSound
    <2> SUFFICES ASSUME PromotionInv PROVE ReleasesSound
        OBVIOUS
    <2>1. ASSUME NEW k \in DOMAIN pair PROVE WasMerged(pair[k]) /\ IsBuilt(pair[k])
        BY DEF PromotionInv, PairKnown, Fitting, ImageFits, WasMerged, IsBuilt
    <2> QED  BY <2>1 DEF PromotionInv, ReleasesSound
<1> QED  BY <1>1, PromotionInvariance, PTL

\* A release has a name of its own: its run's, and a run is of one pull request.
LEMMA NamesDiffer ==
    PromotionInv =>
        \A k \in DOMAIN pair :
            /\ pair[k].id \in (Nat \X Nat) \ {NoRelease}
            /\ \A j \in 1..(k - 1) : pair[j].id # pair[k].id
<1> SUFFICES ASSUME PromotionInv, NEW k \in DOMAIN pair
             PROVE  /\ pair[k].id \in (Nat \X Nat) \ {NoRelease}
                    /\ \A j \in 1..(k - 1) : pair[j].id # pair[k].id
    OBVIOUS
<1>1. \A i \in DOMAIN pair :
          /\ pair[i] \in Candidate /\ pair[i].id[1] \in DOMAIN verify
          /\ verify[pair[i].id[1]].candidate.pr = pair[i].pr
    BY DEF PromotionInv, PairKnown, Fitting
<1>2. pair \in Seq(Candidate) /\ verify \in Seq(VerifyRun) /\ InOrder
    BY DEF PromotionInv, PromotionTypeOK
<1>3. pair[k].id \in (Nat \X Nat) \ {NoRelease}
    <2>1. pair[k].id \in Nat \X Nat
        BY <1>1 DEF Candidate
    <2>2. pair[k].id[1] # 0
        BY <1>1, <1>2
    <2> QED  BY <2>1, <2>2 DEF NoRelease
<1>4. ASSUME NEW j \in 1..(k - 1) PROVE pair[j].id # pair[k].id
    <2>1. j \in DOMAIN pair /\ pair[j].pr < pair[k].pr
        BY <1>2 DEF InOrder
    <2>2. pair[j].pr \in Nat /\ pair[k].pr \in Nat
        BY <1>1, <2>1 DEF Candidate
    <2>3. pair[j].pr # pair[k].pr
        BY <2>1, <2>2
    <2> QED  BY <1>1, <2>1, <2>3
<1> QED  BY <1>3, <1>4

\* A command that is carried out is one release of the host.
LEMMA CarryTakes ==
    ASSUME PromotionInv, PromotionInv', NEW command \in commands, Carry(command)
    PROVE  PromotionHost!HostReleaseNext
<1> DEFINE n == Len(pair)
<1>1. PICK c \in Candidate : pair' = Append(pair, c)
    BY DEF Carry, PromotionInv, CommandsKnown, Fitting
<1>2. /\ pair \in Seq(Candidate) /\ n \in Nat /\ DOMAIN pair' = 1..(n + 1) /\ Len(pair') = n + 1
      /\ pair'[n + 1] = c /\ \A k \in 1..n : pair'[k] = pair[k]
    BY <1>1 DEF PromotionInv, PromotionTypeOK
<1>3. /\ c.id \in (Nat \X Nat) \ {NoRelease}
      /\ \A j \in 1..n : pair[j].id # c.id
    <2>1. (\A k \in DOMAIN pair :
              /\ pair[k].id \in (Nat \X Nat) \ {NoRelease}
              /\ \A j \in 1..(k - 1) : pair[j].id # pair[k].id)'
        BY NamesDiffer, PTL
    <2>2. n + 1 \in DOMAIN pair' /\ n + 1 - 1 = n
        BY <1>2
    <2> QED  BY <1>2, <2>1, <2>2
<1>4. c.id # Current /\ (n >= 2 => c.id # pair[n - 1].id)
    BY <1>2, <1>3 DEF Current
<1>5. /\ pair' # <<>> /\ Current' = c.id
      /\ ~(n + 1 < 2) => pair'[n + 1 - 1].id = Current
      /\ n + 1 < 2 => NoRelease = Current
    BY <1>2 DEF Current
<1>6. PromotionHost!Take(c.id)
    BY <1>2, <1>3, <1>4, <1>5 DEF PromotionHost!Take
<1> QED  BY <1>3, <1>6 DEF PromotionHost!HostReleaseNext

\* What promotions do to the host is what a host does that implements HostRelease,
\* as PairedRelease does: each command is a release as a whole or nothing.
THEOREM PromotionUsesHost == PromotionSpec => UsesHostRelease
<1>1. PromotionInit => PromotionHost!HostReleaseInit
    BY DEF PromotionInit, Current, PromotionHost!HostReleaseInit
<1>2. ASSUME PromotionInv, PromotionInv', [PromotionNext]_promotionVars
      PROVE  [PromotionHost!HostReleaseNext]_(PromotionHost!hostReleaseVars)
    <2>1. CASE UNCHANGED pair
        BY <2>1 DEF PromotionHost!hostReleaseVars, Current
    <2>2. CASE \E command \in commands : Carry(command)
        BY <1>2, <2>2, CarryTakes
    <2>3. ASSUME ~\E command \in commands : Carry(command) PROVE UNCHANGED pair
        BY <1>2, <2>3
           DEF PromotionNext, promotionVars, hostVars, Push, OpenPull, Dismiss, Trigger, Otherwise,
               Merge, Rerun, PassRun, BreakRun, RunGoes, Plan, Build, Note, Resolve, Send, Succeed,
               Miss, Again, Reject
    <2> QED  BY <2>1, <2>2, <2>3
<1> QED
    BY <1>1, <1>2, PromotionInvariance, PTL
       DEF PromotionSpec, UsesHostRelease, PromotionHost!HostReleaseSpec

=============================================================================
