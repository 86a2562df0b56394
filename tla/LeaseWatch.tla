------------------------------ MODULE LeaseWatch ------------------------------
(***************************************************************************)
(* The Runner's watch over the visibility of the message it works on: a    *)
(* read hides the message, heartbeats renew that while the work runs, and  *)
(* the work is cancelled a margin before the message could be read again.  *)
(* The queue's clock is not the Runner's, calls take their time, answers   *)
(* are lost or late, and the process itself reacts late.                   *)
(***************************************************************************)
EXTENDS Integers

CONSTANTS Visibility,     \* visibilitySeconds
          Margin,         \* visibilityMargin
          Heartbeat,      \* heartbeatInterval
          CallDeadline,   \* publishDeadline
          Drain,          \* renewalDrain
          Slack,          \* how late the process may react to a timer
          Skews,          \* of the queue's clock against the Runner's
          Expiry,         \* when the message expires, on the Runner's clock
          MaxTime         \* bound: time

ASSUME LeaseAssumption ==
    /\ {Visibility, Margin, Heartbeat, CallDeadline, Drain, Slack, Expiry} \subseteq Nat
    /\ Skews \subseteq Int
    /\ Slack < Margin

VARIABLES now,     \* time
          hidden,  \* the message is nobody else's before that time
          lease,   \* the delivery, withLease and its watcher
          call     \* the read or the renewal

leaseVars == <<now, hidden, lease, call>>

\* ended: when the work was cancelled or returned.
Lease == [phase : {"reading", "working", "finished", "cancelled", "closed", "quarantined"},
          until : Int, beat : Nat, ended : Nat]
\* visible: what the queue answers, on its own clock.
Call == [state : {"none", "sent", "applied", "failed"}, started : Nat, visible : Int]
NoCall == [state |-> "none", started |-> 0, visible |-> 0]

LeaseTypeOK == now \in Nat /\ hidden \in Nat /\ lease \in Lease /\ call \in Call

LeaseInit ==
    /\ now = 0 /\ hidden = 0
    /\ lease = [phase |-> "reading", until |-> 0, beat |-> 0, ended |-> 0]
    /\ call = [NoCall EXCEPT !.state = "sent"]

Least(S) == CHOOSE x \in S : \A y \in S : x <= y

\* Fault: the queue's clock is trusted.
TrustQueueFault(started, visible) == Least({visible, Expiry}) - Margin
\* safeVisibility: whatever the queue says, not longer than since the call.
SafeVisibility(started, visible) == Least({visible, Expiry, started + Visibility}) - Margin

-----------------------------------------------------------------------------
(* The queue: GetMessages and UpdateMessage.                               *)

\* A read hides the message, a renewal hides it anew while the receipt is good.
Apply(skew) ==
    /\ call.state = "sent"
    /\ lease.phase # "reading" => now < hidden
    /\ hidden' = now + Visibility
    /\ call' = [call EXCEPT !.state = "applied", !.visible = now + Visibility + skew]
    /\ UNCHANGED <<now, lease>>

\* The call fails, or succeeds and its answer is lost.
LoseCall ==
    /\ lease.phase # "reading"
    /\ call.state \in {"sent", "applied"}
    /\ call' = [call EXCEPT !.state = "failed"]
    /\ UNCHANGED <<now, hidden, lease>>

-----------------------------------------------------------------------------
(* The Runner: withLease, watchVisibility.                                 *)

\* withLease: a delivery that arrived too late is not worked on.
Begin ==
    LET until == SafeVisibility(call.started, call.visible)
    IN /\ lease.phase = "reading" /\ call.state = "applied"
       /\ lease' = [phase |-> IF now < until THEN "working" ELSE "closed",
                    until |-> until, beat |-> now + Heartbeat, ended |-> now]
       /\ call' = NoCall
       /\ UNCHANGED <<now, hidden>>

\* cancel(ErrLeaseLost); the work stops its container and returns.
Cancelled == [lease EXCEPT !.phase = "cancelled", !.ended = now]

\* The ticker: a renewal, one at a time.
Beat ==
    /\ lease.phase = "working" /\ lease.beat <= now
    /\ call.state = "none"
    /\ IF now < lease.until
       THEN /\ call' = [state |-> "sent", started |-> now, visible |-> 0]
            /\ lease' = [lease EXCEPT !.beat = now + Heartbeat]
       ELSE call' = call /\ lease' = Cancelled
    /\ UNCHANGED <<now, hidden>>

\* The answer of a renewal.
Answered ==
    LET next == SafeVisibility(call.started, call.visible)
    IN /\ lease.phase = "working" /\ call.state \in {"applied", "failed"}
       /\ lease' = IF call.state = "failed" \/ now - call.started >= CallDeadline
                      \/ now >= lease.until \/ next <= now
                   THEN Cancelled ELSE [lease EXCEPT !.until = next]
       /\ call' = NoCall
       /\ UNCHANGED <<now, hidden>>

CallOverdue == call.state # "none" /\ now - call.started >= CallDeadline

\* The timer of until, and the deadline of a renewal.
TimeOut ==
    /\ lease.phase = "working" /\ (now >= lease.until \/ CallOverdue)
    /\ lease' = Cancelled
    /\ UNCHANGED <<now, hidden, call>>

\* The process is told to stop.
Stop ==
    /\ lease.phase = "working"
    /\ lease' = Cancelled
    /\ UNCHANGED <<now, hidden, call>>

\* The work returns by itself: in time, or as if it had been cancelled.
Return ==
    /\ lease.phase = "working"
    /\ lease' = [lease EXCEPT !.ended = now,
           !.phase = IF now < lease.until /\ ~CallOverdue THEN "finished" ELSE "cancelled"]
    /\ UNCHANGED <<now, hidden, call>>

\* The renewal returns in time after the end, or never: consumerQuarantined.
Close ==
    /\ lease.phase \in {"finished", "cancelled"}
    /\ call.state \in {"none", "applied", "failed"}
    /\ lease' = [lease EXCEPT !.phase = "closed"]
    /\ call' = NoCall
    /\ UNCHANGED <<now, hidden>>

Quarantine ==
    /\ lease.phase \in {"finished", "cancelled"}
    /\ call.state # "none" /\ now >= lease.ended + Drain
    /\ lease' = [lease EXCEPT !.phase = "quarantined"]
    /\ UNCHANGED <<now, hidden, call>>

\* Time passes, but a timer that is due is served within Slack.
Tick ==
    /\ now < MaxTime
    /\ lease.phase = "working" =>
          /\ now < lease.until + Slack
          /\ call.state # "none" => now < call.started + CallDeadline + Slack
    /\ now' = now + 1
    /\ UNCHANGED <<hidden, lease, call>>

LeaseNext ==
    \/ \E skew \in Skews : Apply(skew)
    \/ LoseCall \/ Begin \/ Beat \/ Answered \/ TimeOut \/ Stop \/ Return \/ Close \/ Quarantine
    \/ Tick

LeaseSpec == LeaseInit /\ [][LeaseNext]_leaseVars

-----------------------------------------------------------------------------
(* Properties.                                                             *)

\* Work runs, and is counted as finished, only while the message is the Runner's
\* own, with the margin, less the process's delay, left for the container to
\* stop; whatever the queue's clock says and however late an answer comes.
LeaseSafe ==
    /\ lease.phase = "working" => now + Margin <= hidden + Slack
    /\ lease.phase = "finished" => lease.ended + Margin < hidden

=============================================================================
