------------------------ MODULE NotificationDelivery ------------------------
(***************************************************************************)
(* Push notifications: the outbox of deliveries, written with the          *)
(* notification they belong to and sent by dispatchNotifications under a   *)
(* lease, and the browsers that are registered, released and bound to      *)
(* other accounts meanwhile.                                               *)
(*                                                                         *)
(* A database statement is one step; its sender may see the answer, or an  *)
(* error although it took effect, or an error without effect.              *)
(***************************************************************************)
EXTENDS Naturals, FiniteSets

CONSTANTS Accounts,     \* administrators
          Installs,     \* browsers: Firebase installation ids
          Notes,        \* notifications, each of one recipient
          Recipient,    \* Recipient[n]: the account notification n is for
          Processes,    \* Console processes
          Tokens,       \* lease tokens; a claim draws one that is not in use
          BatchSize,    \* deliveries per call of dispatchNotifications
          MaxVersion,   \* bound: versions of an account's MFA row
          MaxBinding,   \* bound: binding versions of a registration
          NoAccount, NoToken, NoDelivery

ASSUME RecipientAssumption == Recipient \in [Notes -> Accounts]
ASSUME BatchAssumption == BatchSize \in Nat \ {0}
ASSUME BoundsAssumption == MaxVersion \in Nat /\ MaxBinding \in Nat
ASSUME NoneAssumption == /\ NoAccount \notin Accounts /\ NoToken \notin Tokens
                         /\ NoDelivery \notin Notes \X Installs

VARIABLES auth,     \* auth[a]: account and admin_mfa row
          install,  \* install[i]: the push_installation row
          note,     \* note[n]: its transaction is not begun, open, committed
          delivery, \* delivery[d]: the notification_delivery row
          sender    \* sender[p]: the dispatch loop of process p

\* For the properties only: deliveries whose registration has ended since they
\* were written, senders whose lease ran out during their claim, and whether
\* the push service accepted a delivery.
VARIABLES ended, overrun, push

rows         == <<auth, install, note, delivery>>
deliveryVars == <<rows, sender, ended, overrun, push>>

Deliveries == Notes \X Installs

-----------------------------------------------------------------------------

Final    == {"ACCEPTED", "DISCARDED"}
Statuses == {"NONE", "PENDING"} \cup Final
Calling  == {"find", "void", "send", "accept", "discard", "drop", "retry"}
Places   == {"off", "idle", "claim", "broken"} \cup Calling

NoInstall == [account |-> NoAccount, mfa |-> 0, enabled |-> FALSE, live |-> FALSE,
              binding |-> 0]
NoRow == [status |-> "NONE", binding |-> 0, token |-> NoToken, over |-> FALSE,
          time |-> "due"]
Off   == [pc |-> "off", delivery |-> NoDelivery, token |-> NoToken, count |-> 0]

Registration ==
    [account : Accounts \cup {NoAccount}, mfa : Nat, enabled : BOOLEAN, live : BOOLEAN,
     binding : Nat]
Row ==
    [status : Statuses, binding : Nat, token : Tokens \cup {NoToken}, over : BOOLEAN,
     time : {"later", "due", "expired"}]
Sender ==
    [pc : Places, delivery : Deliveries \cup {NoDelivery}, token : Tokens \cup {NoToken},
     count : 0 .. BatchSize]

DeliveryTypeOK ==
    /\ auth \in [Accounts -> [admin : BOOLEAN, enabled : BOOLEAN, version : Nat]]
    /\ install \in [Installs -> Registration]
    /\ note \in [Notes -> {"none", "open", "recorded"}]
    /\ delivery \in [Deliveries -> Row]
    /\ sender \in [Processes -> Sender]
    /\ ended \subseteq Deliveries
    /\ overrun \subseteq Processes
    /\ push \in [Deliveries -> {"none", "accepted", "unsure"}]

DeliveryInit ==
    /\ auth \in [Accounts -> [admin : {TRUE}, enabled : BOOLEAN, version : {1}]]
    /\ install = [i \in Installs |-> NoInstall]
    /\ note = [n \in Notes |-> "none"]
    /\ delivery = [d \in Deliveries |-> NoRow]
    /\ sender = [p \in Processes |-> Off]
    /\ ended = {}
    /\ overrun = {}
    /\ push = [d \in Deliveries |-> "none"]

Written(D) == {d \in D : delivery[d].status # "NONE"}
To(a)      == {d \in Deliveries : Recipient[d[1]] = a}
On(i)      == {d \in Deliveries : d[2] = i}

-----------------------------------------------------------------------------
(* Administrators: console-mfa-service, console-mfa-revocation-service.      *)

worldOnly == <<sender, overrun, push>>

\* confirmConsoleMfa: the first time step of a new secret enables it.
ConfirmMfa(a) ==
    /\ auth[a].admin /\ ~auth[a].enabled
    /\ auth' = [auth EXCEPT ![a].enabled = TRUE]
    /\ UNCHANGED <<install, note, delivery, ended, worldOnly>>

ResetMfa(a) ==
    /\ auth[a].version < MaxVersion
    /\ auth' = [auth EXCEPT ![a].enabled = FALSE, ![a].version = @ + 1]
    /\ ended' = ended \cup Written(To(a))
    /\ UNCHANGED <<install, note, delivery, worldOnly>>

\* changeConsoleAccountAccess: role and status, as "an active administrator".
ChangeAccess(a) ==
    /\ auth[a].version < MaxVersion
    /\ \E admin \in BOOLEAN :
         auth' = [auth EXCEPT ![a].admin = admin, ![a].version = @ + 1]
    /\ ended' = ended \cup Written(To(a))
    /\ UNCHANGED <<install, note, delivery, worldOnly>>

-----------------------------------------------------------------------------
(* Browsers: push-installation-service and its repository.                   *)

\* Fault: the account is not compared, a switch keeps the binding.
RefreshAnyFault(i, a) ==
    /\ install[i].mfa = auth[a].version
    /\ install[i].enabled /\ install[i].live

\* Fault: a registration that expired is refreshed.
RefreshExpiredFault(i, a) ==
    /\ install[i].account = a
    /\ install[i].mfa = auth[a].version
    /\ install[i].enabled

\* A registration that is only refreshed keeps its binding version.
Refresh(i, a) ==
    /\ install[i].account = a
    /\ install[i].mfa = auth[a].version
    /\ install[i].enabled /\ install[i].live

\* The account is locked; only a proof of its current MFA version registers.
Register(i, a) ==
    /\ auth[a].admin /\ auth[a].enabled
    /\ install[i].binding < MaxBinding
    /\ install' = [install EXCEPT ![i] =
           [account |-> a, mfa |-> auth[a].version, enabled |-> TRUE, live |-> TRUE,
            binding |-> IF Refresh(i, a) THEN @.binding ELSE @.binding + 1]]
    /\ ended' = ended \cup (IF install[i].account = a THEN {} ELSE Written(On(i)))
    /\ UNCHANGED <<auth, note, delivery, worldOnly>>

Disable(i) ==
    install' = [install EXCEPT ![i].enabled = FALSE, ![i].binding = @ + 1]

\* Sign-out, sign-in of somebody else, or the switch in the settings.
Release(i, a) ==
    /\ install[i].account = a /\ install[i].enabled
    /\ Disable(i)
    /\ ended' = ended \cup Written(On(i))
    /\ UNCHANGED <<auth, note, delivery, worldOnly>>

\* expires_at of the registration: the end of its session.
SessionExpires(i) ==
    /\ install[i].live
    /\ install' = [install EXCEPT ![i].live = FALSE]
    /\ ended' = ended \cup Written(On(i))
    /\ UNCHANGED <<auth, note, delivery, worldOnly>>

-----------------------------------------------------------------------------
(* The transaction that ends a job: recordWaveformNotification.              *)

Receives(d) ==
    LET i == install[d[2]] IN i.account = Recipient[d[1]] /\ i.enabled /\ i.live

\* insertNotificationDeliveries reads the registrations without locking them,
\* and its rows are not seen before the commit.
Record(n) ==
    LET written == {d \in Deliveries : d[1] = n /\ Receives(d)} IN
    /\ note[n] = "none"
    /\ note' = [note EXCEPT ![n] = "open"]
    /\ delivery' = [d \in Deliveries |->
           IF d \in written
           THEN [NoRow EXCEPT !.status = "PENDING", !.binding = install[d[2]].binding]
           ELSE delivery[d]]
    /\ ended' = ended \cup {d \in written : install[d[2]].mfa # auth[Recipient[n]].version}
    /\ UNCHANGED <<auth, install, worldOnly>>

Commit(n) ==
    /\ note[n] = "open"
    /\ note' = [note EXCEPT ![n] = "recorded"]
    /\ UNCHANGED <<auth, install, delivery, ended, worldOnly>>

Rollback(n) ==
    /\ note[n] = "open"
    /\ note' = [note EXCEPT ![n] = "none"]
    /\ delivery' = [d \in Deliveries |-> IF d[1] = n THEN NoRow ELSE delivery[d]]
    /\ ended' = {d \in ended : d[1] # n}
    /\ UNCHANGED <<auth, install, worldOnly>>

-----------------------------------------------------------------------------
(* Time, per delivery: next_attempt_at, expires_at, lease_until.             *)

timeOnly == <<auth, install, note, sender, ended>>

AttemptDue(d) ==
    /\ delivery[d].time = "later"
    /\ delivery' = [delivery EXCEPT ![d].time = "due"]
    /\ UNCHANGED <<timeOnly, overrun, push>>

\* A retry is only ever planned before the expiry.
DeliveryExpires(d) ==
    /\ delivery[d].status = "PENDING" /\ delivery[d].time = "due"
    /\ delivery' = [delivery EXCEPT ![d].time = "expired"]
    /\ UNCHANGED <<timeOnly, overrun, push>>

\* Two minutes after the claim, whatever its sender does.
LeaseRunsOut(d) ==
    /\ delivery[d].token # NoToken /\ ~delivery[d].over
    /\ delivery' = [delivery EXCEPT ![d].over = TRUE]
    /\ overrun' = overrun \cup {p \in Processes : /\ sender[p].delivery = d
                                                 /\ sender[p].token = delivery[d].token}
    /\ push' = [push EXCEPT ![d] = IF @ = "accepted" THEN "unsure" ELSE @]
    /\ UNCHANGED timeOnly

-----------------------------------------------------------------------------
(* dispatchNotifications, one delivery at a time.                            *)

sendOnly == <<auth, note, ended>>

Goto(p, pc) == sender' = [sender EXCEPT ![p].pc = pc]

\* The head of the loop, after a delivery was dealt with.
Served(p) ==
    sender' = [sender EXCEPT ![p] = [Off EXCEPT !.pc = "claim", !.count = sender[p].count + 1]]

\* The process at pc, with no delivery in hand.
Becomes(p, pc) == sender' = [sender EXCEPT ![p] = [Off EXCEPT !.pc = pc]]

\* A database error that leaves dispatchNotifications.
Breaks(p) == Becomes(p, "broken")

Visible(d) == note[d[1]] = "recorded" /\ delivery[d].status = "PENDING"

Due(d) ==
    /\ Visible(d) /\ delivery[d].time # "later"
    /\ delivery[d].token = NoToken \/ delivery[d].over

InUse == {delivery[d].token : d \in Deliveries} \cup {sender[p].token : p \in Processes}

Lease(d, t) == delivery' = [delivery EXCEPT ![d].token = t, ![d].over = FALSE]

\* Fault: a row that is leased is claimed all the same.
ClaimLeasedFault(p, d) ==
    \E t \in Tokens \ InUse :
      /\ sender[p].pc = "claim" /\ sender[p].count < BatchSize
      /\ Visible(d) /\ delivery[d].time # "later"
      /\ Lease(d, t)
      /\ sender' = [sender EXCEPT ![p] = [@ EXCEPT !.pc = "find", !.delivery = d, !.token = t]]
      /\ overrun' = overrun \ {p}
      /\ UNCHANGED <<sendOnly, install, push>>

\* Fault: leases that ran out are not reclaimed.
ClaimFreeFault(p, d) ==
    \E t \in Tokens \ InUse :
      /\ sender[p].pc = "claim" /\ sender[p].count < BatchSize
      /\ Due(d) /\ delivery[d].token = NoToken
      /\ Lease(d, t)
      /\ sender' = [sender EXCEPT ![p] = [@ EXCEPT !.pc = "find", !.delivery = d, !.token = t]]
      /\ overrun' = overrun \ {p}
      /\ UNCHANGED <<sendOnly, install, push>>

\* claimNotificationDelivery.
Claim(p, d) ==
    \E t \in Tokens \ InUse :
      /\ sender[p].pc = "claim" /\ sender[p].count < BatchSize
      /\ Due(d)
      /\ Lease(d, t)
      /\ sender' = [sender EXCEPT ![p] = [@ EXCEPT !.pc = "find", !.delivery = d, !.token = t]]
      /\ overrun' = overrun \ {p}
      /\ UNCHANGED <<sendOnly, install, push>>

\* Its answer is lost: the row is leased to nobody.
ClaimLost(p, d) ==
    \E t \in Tokens \ InUse :
      /\ sender[p].pc = "claim" /\ sender[p].count < BatchSize
      /\ Due(d)
      /\ Lease(d, t)
      /\ Breaks(p)
      /\ UNCHANGED <<sendOnly, install, overrun, push>>

\* The registration still stands and is the one the delivery was written for.
Stands(d) ==
    LET i == install[d[2]] IN
    /\ i.binding = delivery[d].binding
    /\ i.account = Recipient[d[1]]
    /\ i.enabled /\ i.live
    /\ i.mfa = auth[Recipient[d[1]]].version
    /\ auth[Recipient[d[1]]].admin /\ auth[Recipient[d[1]]].enabled

Target(d, t) ==
    /\ delivery[d].token = t /\ delivery[d].status = "PENDING"
    /\ delivery[d].time # "expired"
    /\ Stands(d)

\* findDeliveryTarget.
Find(p) ==
    /\ sender[p].pc = "find"
    /\ Goto(p, IF Target(sender[p].delivery, sender[p].token) THEN "send" ELSE "void")
    /\ UNCHANGED <<rows, ended, overrun, push>>

\* The request to the push service is accepted; its answer may be lost.
Push(p) ==
    LET d == sender[p].delivery IN
    /\ sender[p].pc = "send"
    /\ delivery[d].time # "expired"
    /\ \E answered \in BOOLEAN :
         /\ push' = [push EXCEPT ![d] = IF answered /\ p \notin overrun /\ @ # "unsure"
                                        THEN "accepted" ELSE "unsure"]
         /\ Goto(p, IF answered THEN "accept" ELSE "retry")
    /\ UNCHANGED <<rows, ended, overrun>>

\* It is not: UNREGISTERED, another permanent failure, one that may pass.
PushFails(p) ==
    /\ sender[p].pc = "send"
    /\ \E pc \in {"discard", "drop", "retry"} : Goto(p, pc)
    /\ UNCHANGED <<rows, ended, overrun, push>>

\* Fault: the row is updated whoever leases it.
FinishAnyFault(d, t, status, time) ==
    delivery' = IF delivery[d].status = "PENDING"
                THEN [delivery EXCEPT ![d] = [@ EXCEPT !.status = status, !.time = time,
                                                       !.token = NoToken, !.over = FALSE]]
                ELSE delivery

\* Fault: the row is updated by its id alone.
FinishByIdFault(d, t, status, time) ==
    delivery' = [delivery EXCEPT ![d] = [@ EXCEPT !.status = status, !.time = time,
                                                  !.token = NoToken, !.over = FALSE]]

\* finishNotificationDelivery: only for the token that leases the row.
Finish(d, t, status, time) ==
    delivery' = IF delivery[d].token = t /\ delivery[d].status = "PENDING"
                THEN [delivery EXCEPT ![d] = [@ EXCEPT !.status = status, !.time = time,
                                                       !.token = NoToken, !.over = FALSE]]
                ELSE delivery

\* INELIGIBLE, or a permanent failure.
Drop(p) ==
    LET d == sender[p].delivery IN
    /\ sender[p].pc \in {"void", "drop"}
    /\ Finish(d, sender[p].token, "DISCARDED", delivery[d].time)
    /\ Served(p) \/ Breaks(p)
    /\ UNCHANGED <<sendOnly, install, overrun, push>>

\* An error of this update is caught, as an error of the network.
Accept(p) ==
    LET d == sender[p].delivery IN
    /\ sender[p].pc = "accept"
    /\ Finish(d, sender[p].token, "ACCEPTED", delivery[d].time)
    /\ Served(p) \/ Goto(p, "retry")
    /\ UNCHANGED <<sendOnly, install, overrun, push>>

\* The acceptance is not written: its push may be repeated.
Forget(p) ==
    LET d == sender[p].delivery IN
    push' = IF sender[p].pc = "accept" /\ push[d] = "accepted"
            THEN [push EXCEPT ![d] = "unsure"] ELSE push

AcceptFails(p) ==
    /\ sender[p].pc = "accept"
    /\ Goto(p, "retry")
    /\ Forget(p)
    /\ UNCHANGED <<rows, ended, overrun>>

\* pushRetryDelay: another attempt if it comes before the expiry.
Retry(p) ==
    LET d == sender[p].delivery IN
    /\ sender[p].pc = "retry"
    /\ \/ /\ delivery[d].time # "expired"
          /\ Finish(d, sender[p].token, "PENDING", "later")
       \/ Finish(d, sender[p].token, "DISCARDED", delivery[d].time)
    /\ Served(p) \/ Breaks(p)
    /\ UNCHANGED <<sendOnly, install, overrun, push>>

\* discardPushRegistration: the binding that the push was addressed to.
DiscardRegistration(p) ==
    LET d == sender[p].delivery IN
    /\ sender[p].pc = "discard"
    /\ IF install[d[2]].binding = delivery[d].binding
       THEN Disable(d[2]) /\ ended' = ended \cup Written(On(d[2]))
       ELSE UNCHANGED <<install, ended>>
    /\ Goto(p, "drop") \/ Breaks(p)
    /\ UNCHANGED <<auth, note, delivery, overrun, push>>

\* A statement fails without effect; claim, find and every statement in the
\* handler of a failed push let the error out.
StatementFails(p) ==
    /\ sender[p].pc \in {"claim", "find", "void", "discard", "drop", "retry"}
    /\ Breaks(p)
    /\ UNCHANGED <<rows, ended, overrun, push>>

-----------------------------------------------------------------------------
(* The process.                                                              *)

Boot(p) ==
    /\ sender[p].pc = "off"
    /\ Becomes(p, "idle")
    /\ UNCHANGED <<rows, ended, overrun, push>>

Crash(p) ==
    /\ sender[p].pc # "off"
    /\ Becomes(p, "off")
    /\ Forget(p)
    /\ UNCHANGED <<rows, ended, overrun>>

Begin(p) ==
    /\ sender[p].pc = "idle"
    /\ Becomes(p, "claim")
    /\ UNCHANGED <<rows, ended, overrun, push>>

\* Nothing to claim, a full batch, or an error.
End(p) ==
    /\ \/ sender[p].pc = "broken"
       \/ /\ sender[p].pc = "claim"
          /\ sender[p].count = BatchSize \/ \A d \in Deliveries : ~Due(d)
    /\ Becomes(p, "idle")
    /\ UNCHANGED <<rows, ended, overrun, push>>

-----------------------------------------------------------------------------

AccountNext == \E a \in Accounts : ConfirmMfa(a) \/ ResetMfa(a) \/ ChangeAccess(a)

BrowserNext ==
    \E i \in Installs :
      \/ SessionExpires(i)
      \/ \E a \in Accounts : Register(i, a) \/ Release(i, a)

NoteNext == \E n \in Notes : Record(n) \/ Commit(n) \/ Rollback(n)

TimeNext == \E d \in Deliveries : AttemptDue(d) \/ DeliveryExpires(d) \/ LeaseRunsOut(d)

SendNext(p) ==
    \/ \E d \in Deliveries : Claim(p, d) \/ ClaimLost(p, d)
    \/ Find(p) \/ Push(p) \/ PushFails(p)
    \/ Drop(p) \/ Accept(p) \/ AcceptFails(p) \/ Retry(p)
    \/ DiscardRegistration(p) \/ StatementFails(p)

WorldNext == AccountNext \/ BrowserNext \/ NoteNext \/ TimeNext

DeliveryNext ==
    \/ WorldNext
    \/ \E p \in Processes : SendNext(p) \/ Boot(p) \/ Crash(p) \/ Begin(p) \/ End(p)

DeliverySpec == DeliveryInit /\ [][DeliveryNext]_deliveryVars

-----------------------------------------------------------------------------
(* Properties.                                                               *)

\* A delivery that was accepted or discarded stays as it is, however late a
\* sender that once claimed it comes back (finishNotificationDelivery).
FinishedForGood ==
    [][\A d \in Deliveries : delivery[d].status \in Final => delivery'[d] = delivery[d]]_deliveryVars

\* While its lease has not run out, nobody takes a delivery from the sender
\* that claimed it, and nobody finishes it in its place
\* (claimNotificationDelivery, finishNotificationDelivery).
LeaseProtects ==
    \A p \in Processes :
      sender[p].pc \in Calling /\ p \notin overrun =>
        LET row == delivery[sender[p].delivery] IN
        \/ row.token = sender[p].token /\ row.status = "PENDING"
        \/ sender[p].pc = "retry" /\ row.status = "ACCEPTED"

\* What the push service accepted is sent again only if the acceptance may
\* not have been written: an answer, the update or the process was lost, or
\* the lease ran out (dispatchNotifications).
RepeatsExcused ==
    \A p \in Processes :
      sender[p].pc = "send" /\ p \notin overrun => push[sender[p].delivery] # "accepted"

\* As long as the binding version of a delivery is the browser's, the browser
\* belongs to the recipient (bindPushInstallation).
BindingMeansOwner ==
    \A d \in Deliveries :
      delivery[d].status # "NONE" /\ delivery[d].binding = install[d[2]].binding =>
        install[d[2]].account = Recipient[d[1]]

\* Once the registration a delivery was written for has ended (sign-out, its
\* expiry, another account, a change of MFA or access), no later registration
\* of that browser makes it a target again (bindPushInstallation,
\* disablePushInstallation, findDeliveryTarget).
NeverRevived == \A d \in ended : ~Stands(d)

\* The abstract outbox, whose messages are the deliveries.
Box == INSTANCE Outbox WITH
    Batches  <- Notes,
    Messages <- Deliveries,
    BatchOf  <- [d \in Deliveries |-> d[1]],
    batch    <- note,
    state    <- [d \in Deliveries |-> delivery[d].status],
    pushed   <- {d \in Deliveries : push[d] # "none"}

\* No delivery is pushed before the notification it belongs to is committed, none is
\* accepted that was not pushed, and each ends once, whatever is lost, late or
\* crashes (insertNotificationDeliveries, dispatchNotifications).
ImplementsOutbox == Box!OutboxSpec

\* DESIGN.md: nothing is sent after sign-out, switch, withdrawal or expiry.
SilentAfterEnd ==
    [][\A d \in ended : push'[d] = push[d]]_deliveryVars

=============================================================================
