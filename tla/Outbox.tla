------------------------------- MODULE Outbox -------------------------------
(***************************************************************************)
(* What the outbox of push deliveries promises, with nothing of how it     *)
(* keeps the promise: no processes, leases, retries or registrations.      *)
(*                                                                         *)
(* The messages of a batch are written in the transaction of what they     *)
(* tell, and none leaves before it commits.  Each ends at most once:       *)
(* accepted, after the push service took it, or discarded.  It may be      *)
(* pushed again, even after it ended.  NotificationDelivery implements     *)
(* this specification.                                                     *)
(***************************************************************************)
CONSTANTS Batches,
          Messages,
          BatchOf    \* BatchOf[m]: the batch that message m is written with

VARIABLES batch,     \* batch[b]: none, open or recorded
          state,     \* state[m]: where message m is in its life
          pushed     \* messages that were pushed at least once

outboxVars == <<batch, state, pushed>>

Ends == {"ACCEPTED", "DISCARDED"}

-----------------------------------------------------------------------------

OutboxInit ==
    /\ batch = [b \in Batches |-> "none"]
    /\ state = [m \in Messages |-> "NONE"]
    /\ pushed = {}

\* The transaction of batch b writes its messages M.
Write(b, M) ==
    /\ batch[b] = "none"
    /\ \A m \in M : BatchOf[m] = b
    /\ batch' = [batch EXCEPT ![b] = "open"]
    /\ state' = [m \in Messages |-> IF m \in M THEN "PENDING" ELSE state[m]]
    /\ UNCHANGED pushed

CommitBatch(b) ==
    /\ batch[b] = "open"
    /\ batch' = [batch EXCEPT ![b] = "recorded"]
    /\ UNCHANGED <<state, pushed>>

\* It leaves nothing behind.
RollbackBatch(b) ==
    /\ batch[b] = "open"
    /\ batch' = [batch EXCEPT ![b] = "none"]
    /\ state' = [m \in Messages |-> IF BatchOf[m] = b THEN "NONE" ELSE state[m]]
    /\ UNCHANGED pushed

Committed(m) == batch[BatchOf[m]] = "recorded" /\ state[m] # "NONE"

\* The push service takes message m, for the first time or once more.
PushMessage(m) ==
    /\ Committed(m)
    /\ pushed' = pushed \cup {m}
    /\ UNCHANGED <<batch, state>>

EndMessage(m, end) ==
    /\ Committed(m) /\ state[m] = "PENDING"
    /\ end = "ACCEPTED" => m \in pushed
    /\ state' = [state EXCEPT ![m] = end]
    /\ UNCHANGED <<batch, pushed>>

OutboxNext ==
    \/ \E b \in Batches : CommitBatch(b) \/ RollbackBatch(b)
                          \/ \E M \in SUBSET Messages : Write(b, M)
    \/ \E m \in Messages : PushMessage(m) \/ \E end \in Ends : EndMessage(m, end)

OutboxSpec == OutboxInit /\ [][OutboxNext]_outboxVars

=============================================================================
