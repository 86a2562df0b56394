----------------------- MODULE NotificationDispatcher -----------------------
(***************************************************************************)
(* The dispatcher of a Console process (dispatcher.ts): one loop and one   *)
(* timer around dispatchNotifications, woken by the requests that end a    *)
(* job.                                                                    *)
(***************************************************************************)
EXTENDS NotificationDelivery

VARIABLES timer,         \* timer[p]: none, or due at once or in a minute
          wakeRequested, \* wakeRequested[p]: woken while running
          asked          \* for the properties: woken since the last run began

dispatchVars   == <<timer, wakeRequested, asked>>
dispatcherVars == <<deliveryVars, dispatchVars>>

Running(p) == sender[p].pc \notin {"off", "idle"}

DispatcherTypeOK ==
    /\ DeliveryTypeOK
    /\ timer \in [Processes -> {"none", "now", "later"}]
    /\ wakeRequested \in [Processes -> BOOLEAN]
    /\ asked \subseteq Processes

DispatcherInit ==
    /\ DeliveryInit
    /\ timer = [p \in Processes |-> "none"]
    /\ wakeRequested = [p \in Processes |-> FALSE]
    /\ asked = {}

-----------------------------------------------------------------------------

\* instrumentation.ts starts the dispatcher, which wakes itself.
Start(p) ==
    /\ Boot(p)
    /\ timer' = [timer EXCEPT ![p] = "now"]
    /\ asked' = asked \cup {p}
    /\ UNCHANGED wakeRequested

\* Timer and flag die with the process.
Die(p) ==
    /\ Crash(p)
    /\ timer' = [timer EXCEPT ![p] = "none"]
    /\ wakeRequested' = [wakeRequested EXCEPT ![p] = FALSE]
    /\ asked' = asked \ {p}

\* Fault: a timer is set beside a running loop.
WakeTimerFault(p) ==
    /\ sender[p].pc # "off"
    /\ timer' = [timer EXCEPT ![p] = "now"]
    /\ asked' = asked \cup {p}
    /\ UNCHANGED <<deliveryVars, wakeRequested>>

\* wakeNotificationDispatcher.
Wake(p) ==
    /\ sender[p].pc # "off"
    /\ IF Running(p)
       THEN wakeRequested' = [wakeRequested EXCEPT ![p] = TRUE] /\ UNCHANGED timer
       ELSE timer' = [timer EXCEPT ![p] = "now"] /\ UNCHANGED wakeRequested
    /\ asked' = asked \cup {p}
    /\ UNCHANGED deliveryVars

\* The timer calls run.
Run(p) ==
    /\ timer[p] # "none"
    /\ timer' = [timer EXCEPT ![p] = "none"]
    /\ IF Running(p)
       THEN /\ wakeRequested' = [wakeRequested EXCEPT ![p] = TRUE]
            /\ UNCHANGED <<deliveryVars, asked>>
       ELSE /\ Begin(p)
            /\ wakeRequested' = [wakeRequested EXCEPT ![p] = FALSE]
            /\ asked' = asked \ {p}

Full(p) == sender[p].pc = "claim" /\ sender[p].count = BatchSize

\* Fault: the flag is cleared where the loop ends, not where it begins.
FinallyForgetsFault(p) ==
    /\ End(p)
    /\ timer' = [timer EXCEPT ![p] = IF Full(p) THEN "now" ELSE "later"]
    /\ wakeRequested' = [wakeRequested EXCEPT ![p] = FALSE]
    /\ UNCHANGED asked

\* Fault: a full batch is not followed by another.
FinallyWaitsFault(p) ==
    /\ End(p)
    /\ timer' = [timer EXCEPT ![p] = IF wakeRequested[p] THEN "now" ELSE "later"]
    /\ UNCHANGED <<wakeRequested, asked>>

\* The rest of run: a full batch, or a wake-up during the run, is followed by
\* the next one at once.
Finally(p) ==
    /\ End(p)
    /\ wakeRequested' = [wakeRequested EXCEPT ![p] = @ \/ Full(p)]
    /\ timer' = [timer EXCEPT ![p] = IF wakeRequested'[p] THEN "now" ELSE "later"]
    /\ UNCHANGED asked

DispatcherNext ==
    \/ WorldNext /\ UNCHANGED dispatchVars
    \/ \E p \in Processes :
         \/ SendNext(p) /\ UNCHANGED dispatchVars
         \/ Start(p) \/ Die(p) \/ Wake(p) \/ Run(p) \/ Finally(p)

DispatcherSpec == DispatcherInit /\ [][DispatcherNext]_dispatcherVars

\* Time passes, also while a delivery is tried again and again; a process that
\* is down is started again; a loop goes on, as every call has a deadline; the
\* timer, the claim, the look-up and the update come through if they are tried
\* for ever, and rows are claimed in the order in which they fell due.
Fairness ==
    /\ \A d \in Deliveries :
         /\ WF_dispatcherVars(AttemptDue(d) /\ UNCHANGED dispatchVars)
         /\ SF_dispatcherVars(DeliveryExpires(d) /\ UNCHANGED dispatchVars)
         /\ WF_dispatcherVars(LeaseRunsOut(d) /\ UNCHANGED dispatchVars)
    /\ \A p \in Processes :
         /\ WF_dispatcherVars(Start(p))
         /\ SF_dispatcherVars(Run(p))
         /\ WF_dispatcherVars(Finally(p))
         /\ WF_dispatcherVars(SendNext(p) /\ UNCHANGED dispatchVars)
         /\ \A d \in Deliveries : SF_dispatcherVars(Claim(p, d) /\ UNCHANGED dispatchVars)
         /\ SF_dispatcherVars(Find(p) /\ UNCHANGED dispatchVars)
         /\ SF_dispatcherVars(Drop(p) /\ UNCHANGED dispatchVars)

FairDispatcherSpec == DispatcherSpec /\ Fairness

-----------------------------------------------------------------------------
(* Properties.                                                               *)

\* A process that is up has a timer or a running loop, and not both: it never
\* stops looking, and never runs the loop twice (run, wake in dispatcher.ts).
OneLoop ==
    \A p \in Processes : (timer[p] = "none") = (sender[p].pc # "idle")

\* A wake-up is answered by a run that begins after it, and that is at most
\* the present run away (run, wake).
WakeKept ==
    \A p \in asked : timer[p] = "now" \/ (Running(p) /\ wakeRequested[p])

\* A loop that ends without an error leaves no delivery that is due to the
\* next minute (count === 20 in run).
BacklogPrompt ==
    [][\A p \in Processes :
         sender[p].pc = "claim" /\ sender'[p].pc = "idle" /\ (\E d \in Deliveries : Due(d)) =>
           timer'[p] = "now"]_dispatcherVars

\* Every delivery is accepted or discarded in the end: its expiry ends the
\* retries, and crashes and lost answers only delay it (dispatchNotifications).
DeliveriesEnd ==
    \A d \in Deliveries : Visible(d) ~> delivery[d].status \in Final

=============================================================================
