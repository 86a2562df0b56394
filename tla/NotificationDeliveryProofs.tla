--------------------- MODULE NotificationDeliveryProofs ---------------------
(***************************************************************************)
(* Proofs about the outbox of notifications and its dispatchers, for any   *)
(* sets of administrators, browsers, notifications and processes, any      *)
(* batch size and any bound: types, leases, repeats, bindings, loops.      *)
(***************************************************************************)
EXTENDS NotificationDispatcher, TLAPS

-----------------------------------------------------------------------------
(* Types, with what a sender holds while it deals with a delivery.           *)

SenderShape ==
    \A p \in Processes :
      sender[p].pc \in Calling =>
        /\ sender[p].delivery \in Deliveries
        /\ sender[p].token \in Tokens
        /\ sender[p].count < BatchSize

DeliveryShape == DeliveryTypeOK /\ SenderShape

\* finishNotificationDelivery changes one row or none.
LEMMA FinishRow ==
    ASSUME delivery \in [Deliveries -> Row], NEW d \in Deliveries, NEW t,
           NEW status \in {"PENDING"} \cup Final, NEW time \in {"later", "due", "expired"},
           Finish(d, t, status, time)
    PROVE  /\ delivery' \in [Deliveries -> Row]
           /\ \A e \in Deliveries : e # d => delivery'[e] = delivery[e]
           /\ \/ delivery'[d] = delivery[d]
              \/ /\ delivery[d].token = t /\ delivery[d].status = "PENDING"
                 /\ delivery'[d].status = status /\ delivery'[d].time = time
                 /\ delivery'[d].binding = delivery[d].binding
                 /\ delivery'[d].token = NoToken /\ delivery'[d].over = FALSE
           /\ delivery[d].token = t /\ delivery[d].status = "PENDING"
              => delivery'[d].status = status
<1> DEFINE r == [delivery[d] EXCEPT !.status = status, !.time = time,
                                    !.token = NoToken, !.over = FALSE]
<1>1. r \in Row /\ delivery[d] \in Row
  BY DEF Row, Statuses
<1>2. CASE delivery[d].token = t /\ delivery[d].status = "PENDING"
  <2>1. delivery' = [delivery EXCEPT ![d] = r]
    BY <1>2 DEF Finish
  <2>2. /\ r.status = status /\ r.binding = delivery[d].binding
        /\ r.token = NoToken /\ r.over = FALSE /\ r.time = time
    BY <1>1 DEF Row
  <2> HIDE DEF r
  <2>3. delivery'[d] = r
    BY <2>1
  <2> QED BY <1>1, <1>2, <2>1, <2>2, <2>3
<1>3. CASE ~(delivery[d].token = t /\ delivery[d].status = "PENDING")
  BY <1>3 DEF Finish
<1> QED BY <1>2, <1>3

\* Every way on of a sender is a change of its own record.
LEMMA SenderMoves ==
    ASSUME sender \in [Processes -> Sender], SenderShape, NEW p \in Processes,
           \/ \E pc \in {"off", "idle", "claim", "broken"} : Becomes(p, pc)
           \/ sender[p].pc \in Calling /\ Served(p)
           \/ sender[p].pc \in Calling /\ \E pc \in Calling : Goto(p, pc)
    PROVE  /\ sender' \in [Processes -> Sender] /\ SenderShape'
           /\ \A q \in Processes : q # p => sender'[q] = sender[q]
           /\ sender'[p].pc \in Calling =>
                /\ sender[p].pc \in Calling
                /\ sender'[p].delivery = sender[p].delivery
                /\ sender'[p].token = sender[p].token
<1> USE BatchAssumption
<1>1. ASSUME NEW r \in Sender, r.pc \notin Calling, sender' = [sender EXCEPT ![p] = r]
      PROVE  /\ sender' \in [Processes -> Sender] /\ SenderShape'
             /\ \A q \in Processes : q # p => sender'[q] = sender[q]
             /\ sender'[p].pc \notin Calling
  BY <1>1 DEF SenderShape
<1>2. \A pc \in {"off", "idle", "claim", "broken"} :
        [Off EXCEPT !.pc = pc] \in Sender /\ [Off EXCEPT !.pc = pc].pc \notin Calling
  BY DEF Off, Sender, Places, Calling
<1>3. CASE \E pc \in {"off", "idle", "claim", "broken"} : Becomes(p, pc)
  BY <1>1, <1>2, <1>3 DEF Becomes
<1>5. CASE sender[p].pc \in Calling /\ Served(p)
  <2> DEFINE r == [Off EXCEPT !.pc = "claim", !.count = sender[p].count + 1]
  <2>1. sender[p].count < BatchSize /\ sender[p].count \in Nat
    BY <1>5 DEF SenderShape, Sender
  <2>4. sender[p].count + 1 \in 0 .. BatchSize
    BY <2>1
  <2>2. r \in Sender /\ r.pc \notin Calling
    BY <2>4 DEF Off, Sender, Places, Calling
  <2>3. sender' = [sender EXCEPT ![p] = r]
    BY <1>5 DEF Served
  <2> HIDE DEF r
  <2> QED BY <1>1, <2>2, <2>3
<1>6. CASE sender[p].pc \in Calling /\ \E pc \in Calling : Goto(p, pc)
  <2>1. PICK pc \in Calling : sender' = [sender EXCEPT ![p].pc = pc]
    BY <1>6 DEF Goto
  <2> DEFINE r == [sender[p] EXCEPT !.pc = pc]
  <2>2. sender' = [sender EXCEPT ![p] = r]
    BY <2>1
  <2>3. /\ r \in Sender /\ r.pc \in Calling
        /\ r.delivery = sender[p].delivery /\ r.token = sender[p].token
        /\ r.count = sender[p].count
    BY DEF Sender, Places
  <2> HIDE DEF r
  <2> QED BY <1>6, <2>2, <2>3 DEF SenderShape
<1> QED BY <1>3, <1>5, <1>6

\* What a claim does to the row and to its sender.
LEMMA ClaimRow ==
    ASSUME DeliveryShape, NEW p \in Processes, NEW d \in Deliveries,
           Claim(p, d) \/ ClaimLost(p, d)
    PROVE  \E t \in Tokens \ InUse :
             /\ delivery' \in [Deliveries -> Row]
             /\ \A e \in Deliveries : e # d => delivery'[e] = delivery[e]
             /\ delivery'[d].token = t /\ delivery'[d].over = FALSE
             /\ delivery'[d].status = "PENDING" /\ delivery[d].status = "PENDING"
             /\ delivery'[d].binding = delivery[d].binding
             /\ note[d[1]] = "recorded"
             /\ delivery[d].token = NoToken \/ delivery[d].over
             /\ sender' \in [Processes -> Sender] /\ SenderShape'
             /\ \A q \in Processes : q # p => sender'[q] = sender[q]
             /\ sender[p].pc = "claim"
             /\ \/ /\ sender'[p].pc = "find"
                   /\ sender'[p].delivery = d /\ sender'[p].token = t
                   /\ overrun' = overrun \ {p}
                \/ sender'[p].pc = "broken" /\ overrun' = overrun
<1> USE DEF DeliveryShape
<1>0. delivery \in [Deliveries -> Row] /\ sender \in [Processes -> Sender]
  BY DEF DeliveryTypeOK
<1>1. PICK t \in Tokens \ InUse :
        /\ sender[p].pc = "claim" /\ sender[p].count < BatchSize
        /\ Due(d) /\ Lease(d, t)
        /\ \/ /\ sender' = [sender EXCEPT ![p] = [@ EXCEPT !.pc = "find", !.delivery = d,
                                                         !.token = t]]
              /\ overrun' = overrun \ {p}
           \/ Breaks(p) /\ overrun' = overrun
  BY DEF Claim, ClaimLost
<1>2. /\ delivery[d].status = "PENDING" /\ note[d[1]] = "recorded"
      /\ delivery[d].token = NoToken \/ delivery[d].over
  BY <1>1 DEF Due, Visible
<1> DEFINE row == [delivery[d] EXCEPT !.token = t, !.over = FALSE]
<1>3. delivery' = [delivery EXCEPT ![d] = row]
  BY <1>1 DEF Lease
<1>4. /\ row \in Row /\ row.token = t /\ row.over = FALSE
      /\ row.status = delivery[d].status /\ row.binding = delivery[d].binding
  BY <1>0 DEF Row
<1> HIDE DEF row
<1>5. /\ delivery' \in [Deliveries -> Row]
      /\ \A e \in Deliveries : e # d => delivery'[e] = delivery[e]
      /\ delivery'[d] = row
  BY <1>0, <1>3, <1>4
<1>6. CASE /\ sender' = [sender EXCEPT ![p] = [@ EXCEPT !.pc = "find", !.delivery = d,
                                                       !.token = t]]
           /\ overrun' = overrun \ {p}
  <2> DEFINE r == [sender[p] EXCEPT !.pc = "find", !.delivery = d, !.token = t]
  <2>1. /\ r \in Sender /\ r.pc = "find" /\ r.delivery = d /\ r.token = t
        /\ r.count = sender[p].count
    BY <1>0 DEF Sender, Places, Calling
  <2>2. sender' = [sender EXCEPT ![p] = r]
    BY <1>6
  <2> HIDE DEF r
  <2>3. /\ sender' \in [Processes -> Sender] /\ sender'[p] = r
        /\ \A q \in Processes : q # p => sender'[q] = sender[q]
    BY <1>0, <2>1, <2>2
  <2>4. SenderShape'
    BY <1>1, <2>1, <2>3 DEF SenderShape
  <2> QED BY <1>1, <1>2, <1>4, <1>5, <1>6, <2>1, <2>3, <2>4
<1>7. CASE Breaks(p) /\ overrun' = overrun
  <2>1. Becomes(p, "broken")
    BY <1>7 DEF Breaks
  <2>2. sender'[p].pc = "broken"
    BY <1>0, <2>1 DEF Becomes, Off
  <2>3. /\ sender' \in [Processes -> Sender] /\ SenderShape'
        /\ \A q \in Processes : q # p => sender'[q] = sender[q]
    BY <1>0, <2>1, SenderMoves
  <2> QED BY <1>1, <1>2, <1>4, <1>5, <1>7, <2>2, <2>3
<1> QED BY <1>1, <1>6, <1>7

\* The states of a row that finishNotificationDelivery is asked for.
Wanted(d, status, time) ==
    \/ status = "PENDING" /\ time = "later"
    \/ status \in Final /\ time = delivery[d].time

\* Every other step of a process moves its sender on, and changes at most the
\* row of the delivery in its hand, by finishNotificationDelivery.
LEMMA SendRow ==
    ASSUME DeliveryShape, NEW p \in Processes,
           SendNext(p) \/ Boot(p) \/ Crash(p) \/ Begin(p) \/ End(p),
           \A d \in Deliveries : ~Claim(p, d) /\ ~ClaimLost(p, d)
    PROVE  /\ sender' \in [Processes -> Sender] /\ SenderShape'
           /\ \A q \in Processes : q # p => sender'[q] = sender[q]
           /\ sender'[p].pc \in Calling =>
                /\ sender[p].pc \in Calling \ {"retry"}
                /\ sender'[p].delivery = sender[p].delivery
                /\ sender'[p].token = sender[p].token
           /\ \/ delivery' = delivery
              \/ /\ sender[p].pc \in Calling
                 /\ \E status \in {"PENDING"} \cup Final, time \in {"later", "due", "expired"} :
                      /\ Wanted(sender[p].delivery, status, time)
                      /\ Finish(sender[p].delivery, sender[p].token, status, time)
                      /\ sender'[p].pc \in Calling =>
                           sender'[p].pc = "retry" /\ status = "ACCEPTED"
           /\ overrun' = overrun /\ UNCHANGED <<auth, note>>
<1> USE DEF DeliveryShape
<1>0. delivery \in [Deliveries -> Row] /\ sender \in [Processes -> Sender]
  BY DEF DeliveryTypeOK
<1> DEFINE Moved == \/ \E pc \in {"off", "idle", "claim", "broken"} : Becomes(p, pc)
                    \/ sender[p].pc \in Calling /\ Served(p)
                    \/ /\ sender[p].pc \in Calling \ {"retry"}
                       /\ \E pc \in Calling : Goto(p, pc)
           MovesOn == /\ sender' \in [Processes -> Sender] /\ SenderShape'
                      /\ \A q \in Processes : q # p => sender'[q] = sender[q]
                      /\ sender'[p].pc \in Calling =>
                           /\ sender[p].pc \in Calling \ {"retry"}
                           /\ sender'[p].delivery = sender[p].delivery
                           /\ sender'[p].token = sender[p].token
           Rest == overrun' = overrun /\ UNCHANGED <<auth, note>>
           Wrote == /\ sender[p].pc \in Calling
                    /\ \E status \in {"PENDING"} \cup Final, time \in {"later", "due", "expired"} :
                         /\ Wanted(sender[p].delivery, status, time)
                         /\ Finish(sender[p].delivery, sender[p].token, status, time)
                         /\ sender'[p].pc \in Calling =>
                              sender'[p].pc = "retry" /\ status = "ACCEPTED"
<1>a. ASSUME \/ \E pc \in {"off", "idle", "claim", "broken"} : Becomes(p, pc)
             \/ Served(p)
      PROVE  sender'[p].pc \notin Calling
  BY <1>a, <1>0 DEF Becomes, Served, Off, Calling
<1>b. ASSUME Moved PROVE MovesOn
  BY <1>b, <1>a, <1>0, SenderMoves
<1>c. ASSUME NEW pc, Goto(p, pc) PROVE sender'[p].pc = pc
  BY <1>c, <1>0 DEF Goto, Sender
<1>d. ASSUME sender[p].pc \in Calling
      PROVE  /\ sender[p].delivery \in Deliveries
             /\ delivery[sender[p].delivery].time \in {"later", "due", "expired"}
  BY <1>d, <1>0 DEF SenderShape, Row
<1>1. CASE Find(p)
  <2>1. Moved /\ delivery' = delivery /\ Rest
    BY <1>1 DEF Find, Calling, rows
  <2> QED BY <2>1, <1>b
<1>2. CASE Push(p)
  <2>1. Moved /\ delivery' = delivery /\ Rest
    BY <1>2 DEF Push, Calling, rows
  <2> QED BY <2>1, <1>b
<1>3. CASE PushFails(p)
  <2>1. Moved /\ delivery' = delivery /\ Rest
    BY <1>3 DEF PushFails, Calling, rows
  <2> QED BY <2>1, <1>b
<1>4. CASE Drop(p)
  <2>1. sender[p].pc \in Calling
    BY <1>4 DEF Drop, Calling
  <2>2. Moved /\ Rest
    BY <1>4, <2>1 DEF Drop, Breaks, sendOnly
  <2>3. sender'[p].pc \notin Calling
    BY <1>4, <1>a DEF Drop, Breaks
  <2>4. Wrote
    BY <1>4, <1>d, <2>1, <2>3 DEF Drop, Wanted, Final
  <2> QED BY <2>2, <2>4, <1>b
<1>5. CASE Accept(p)
  <2>1. sender[p].pc \in Calling \ {"retry"}
    BY <1>5 DEF Accept, Calling
  <2>2. Moved /\ Rest
    BY <1>5, <2>1 DEF Accept, sendOnly, Calling
  <2>3. sender'[p].pc \in Calling => sender'[p].pc = "retry"
    BY <1>5, <1>a, <1>c DEF Accept
  <2>4. Wrote
    BY <1>5, <1>d, <2>1, <2>3 DEF Accept, Wanted, Final
  <2> QED BY <2>2, <2>4, <1>b
<1>6. CASE AcceptFails(p)
  <2>1. Moved /\ delivery' = delivery /\ Rest
    BY <1>6 DEF AcceptFails, Calling, rows
  <2> QED BY <2>1, <1>b
<1>7. CASE Retry(p)
  <2>1. sender[p].pc \in Calling
    BY <1>7 DEF Retry, Calling
  <2>2. Moved /\ Rest
    BY <1>7, <2>1 DEF Retry, Breaks, sendOnly
  <2>3. sender'[p].pc \notin Calling
    BY <1>7, <1>a DEF Retry, Breaks
  <2>4. Wrote
    BY <1>7, <1>d, <2>1, <2>3 DEF Retry, Wanted, Final
  <2> QED BY <2>2, <2>4, <1>b
<1>8. CASE DiscardRegistration(p)
  <2>1. Moved /\ delivery' = delivery /\ Rest
    BY <1>8 DEF DiscardRegistration, Calling, Breaks
  <2> QED BY <2>1, <1>b
<1>9. CASE StatementFails(p)
  <2>1. Moved /\ delivery' = delivery /\ Rest
    BY <1>9 DEF StatementFails, rows, Breaks
  <2> QED BY <2>1, <1>b
<1>10. CASE Boot(p) \/ Begin(p) \/ End(p)
  <2>1. Moved /\ delivery' = delivery /\ Rest
    BY <1>10 DEF Boot, Begin, End, rows
  <2> QED BY <2>1, <1>b
<1>11. CASE Crash(p)
  <2>1. Moved /\ delivery' = delivery /\ Rest
    BY <1>11 DEF Crash, rows
  <2> QED BY <2>1, <1>b
<1> QED
  BY <1>1, <1>2, <1>3, <1>4, <1>5, <1>6, <1>7, <1>8, <1>9, <1>10, <1>11 DEF SendNext

\* Versions of an administrator's MFA row only grow.
LEMMA AccountMoves ==
    ASSUME DeliveryTypeOK, NEW a \in Accounts, ConfirmMfa(a) \/ ResetMfa(a) \/ ChangeAccess(a)
    PROVE  /\ auth' \in [Accounts -> [admin : BOOLEAN, enabled : BOOLEAN, version : Nat]]
           /\ \A b \in Accounts \ {a} : auth'[b] = auth[b]
           /\ \/ auth'[a].version = auth[a].version /\ ended' = ended
              \/ /\ auth'[a].version = auth[a].version + 1
                 /\ ended' = ended \cup Written(To(a))
           /\ UNCHANGED <<install, note, delivery, sender, overrun, push>>
<1>0. auth \in [Accounts -> [admin : BOOLEAN, enabled : BOOLEAN, version : Nat]]
  BY DEF DeliveryTypeOK
<1>1. CASE ConfirmMfa(a)
  <2> DEFINE r == [auth[a] EXCEPT !.enabled = TRUE]
  <2>1. /\ r \in [admin : BOOLEAN, enabled : BOOLEAN, version : Nat]
        /\ r.version = auth[a].version
    BY <1>0
  <2>2. auth' = [auth EXCEPT ![a] = r]
    BY <1>1 DEF ConfirmMfa
  <2> HIDE DEF r
  <2> QED BY <1>0, <1>1, <2>1, <2>2 DEF ConfirmMfa, worldOnly
<1>2. CASE ResetMfa(a)
  <2> DEFINE r == [auth[a] EXCEPT !.enabled = FALSE, !.version = auth[a].version + 1]
  <2>0. auth[a].version + 1 \in Nat
    BY <1>0
  <2>1. /\ r \in [admin : BOOLEAN, enabled : BOOLEAN, version : Nat]
        /\ r.version = auth[a].version + 1
    BY <1>0, <2>0, Zenon
  <2>2. auth' = [auth EXCEPT ![a] = r]
    BY <1>2 DEF ResetMfa
  <2> HIDE DEF r
  <2> QED BY <1>0, <1>2, <2>1, <2>2 DEF ResetMfa, worldOnly
<1>3. CASE ChangeAccess(a)
  <2>1. PICK admin \in BOOLEAN :
          auth' = [auth EXCEPT ![a].admin = admin, ![a].version = auth[a].version + 1]
    BY <1>3 DEF ChangeAccess
  <2> DEFINE r == [auth[a] EXCEPT !.admin = admin, !.version = auth[a].version + 1]
  <2>0. auth[a].version + 1 \in Nat
    BY <1>0
  <2>2. /\ r \in [admin : BOOLEAN, enabled : BOOLEAN, version : Nat]
        /\ r.version = auth[a].version + 1
    BY <1>0, <2>0, Zenon
  <2>3. auth' = [auth EXCEPT ![a] = r]
    BY <2>1
  <2> HIDE DEF r
  <2> QED BY <1>0, <1>3, <2>2, <2>3 DEF ChangeAccess, worldOnly
<1> QED BY <1>1, <1>2, <1>3

LEMMA Disabled ==
    ASSUME DeliveryTypeOK, NEW i \in Installs, Disable(i)
    PROVE  /\ install' \in [Installs -> Registration]
           /\ \A j \in Installs \ {i} : install'[j] = install[j]
           /\ install'[i].binding = install[i].binding + 1
           /\ install'[i].account = install[i].account /\ install'[i].mfa = install[i].mfa
<1>0. install \in [Installs -> Registration]
  BY DEF DeliveryTypeOK
<1> DEFINE r == [install[i] EXCEPT !.enabled = FALSE, !.binding = install[i].binding + 1]
<1>a. install[i].binding + 1 \in Nat
  BY <1>0 DEF Registration
<1>1. /\ r \in Registration /\ r.binding = install[i].binding + 1
      /\ r.account = install[i].account /\ r.mfa = install[i].mfa
  BY <1>0, <1>a, Zenon DEF Registration
<1>2. install' = [install EXCEPT ![i] = r]
  BY DEF Disable
<1> HIDE DEF r
<1> QED BY <1>0, <1>1, <1>2

\* What becomes of a browser: a new binding version, but for a registration
\* that is refreshed, and for one that expires.
LEMMA BrowserMoves ==
    ASSUME DeliveryTypeOK, NEW i \in Installs, NEW a,
           (a \in Accounts /\ Register(i, a)) \/ Release(i, a) \/ SessionExpires(i)
    PROVE  /\ install' \in [Installs -> Registration]
           /\ \A j \in Installs \ {i} : install'[j] = install[j]
           /\ \/ /\ install'[i].binding = install[i].binding + 1
                 /\ ended' \in {ended, ended \cup Written(On(i))}
                 /\ \/ /\ install'[i].account = install[i].account
                       /\ install'[i].mfa = install[i].mfa
                    \/ /\ a \in Accounts /\ install'[i].account = a
                       /\ install'[i].mfa = auth[a].version
              \/ /\ Refresh(i, a) /\ ended' = ended
                 /\ install'[i].binding = install[i].binding
                 /\ install'[i].account = install[i].account
                 /\ install'[i].mfa = install[i].mfa
              \/ /\ ended' = ended \cup Written(On(i))
                 /\ install'[i].binding = install[i].binding
                 /\ install'[i].account = install[i].account
                 /\ install'[i].mfa = install[i].mfa
                 /\ ~install'[i].live
           /\ UNCHANGED <<auth, note, delivery, sender, overrun, push>>
<1>0. install \in [Installs -> Registration] /\ (a \in Accounts => auth[a].version \in Nat)
  BY DEF DeliveryTypeOK
<1>1. CASE a \in Accounts /\ Register(i, a)
  <2> DEFINE r == [account |-> a, mfa |-> auth[a].version, enabled |-> TRUE, live |-> TRUE,
                   binding |-> IF Refresh(i, a) THEN install[i].binding
                               ELSE install[i].binding + 1]
  <2>1. r \in Registration /\ install[i].binding \in Nat
    BY <1>0, <1>1 DEF Registration
  <2>2. install' = [install EXCEPT ![i] = r]
    BY <1>1 DEF Register
  <2>3. install' \in [Installs -> Registration]
    <3> HIDE DEF r
    <3> QED BY <1>0, <2>1, <2>2
  <2>4. install'[i] = r /\ \A j \in Installs \ {i} : install'[j] = install[j]
    <3> HIDE DEF r
    <3> QED BY <1>0, <2>2
  <2>5. ended' \in {ended, ended \cup Written(On(i))}
    BY <1>1 DEF Register
  <2>6. Refresh(i, a) => /\ ended' = ended
                         /\ install[i].account = a /\ install[i].mfa = auth[a].version
    BY <1>1 DEF Register, Refresh
  <2>7. /\ r.account = a /\ r.mfa = auth[a].version
        /\ Refresh(i, a) => r.binding = install[i].binding
        /\ ~Refresh(i, a) => r.binding = install[i].binding + 1
    OBVIOUS
  <2>8. UNCHANGED <<auth, note, delivery, sender, overrun, push>>
    BY <1>1 DEF Register, worldOnly
  <2> HIDE DEF r
  <2> QED BY <1>1, <2>3, <2>4, <2>5, <2>6, <2>7, <2>8
<1>2. CASE Release(i, a)
  BY <1>2, Disabled DEF Release, worldOnly
<1>3. CASE SessionExpires(i)
  <2> DEFINE r == [install[i] EXCEPT !.live = FALSE]
  <2>1. /\ r \in Registration /\ r.binding = install[i].binding
        /\ r.account = install[i].account /\ r.mfa = install[i].mfa /\ ~r.live
    BY <1>0 DEF Registration
  <2>2. install' = [install EXCEPT ![i] = r]
    BY <1>3 DEF SessionExpires
  <2> HIDE DEF r
  <2> QED BY <1>0, <1>3, <2>1, <2>2 DEF SessionExpires, worldOnly
<1> QED BY <1>1, <1>2, <1>3

\* Time touches one row, and neither its status nor its token.
LEMMA TimeMoves ==
    ASSUME DeliveryTypeOK, NEW d \in Deliveries,
           AttemptDue(d) \/ DeliveryExpires(d) \/ LeaseRunsOut(d)
    PROVE  /\ delivery' \in [Deliveries -> Row]
           /\ \A e \in Deliveries \ {d} : delivery'[e] = delivery[e]
           /\ delivery'[d].status = delivery[d].status
           /\ delivery'[d].binding = delivery[d].binding
           /\ delivery'[d].token = delivery[d].token
           /\ \/ /\ delivery'[d].over = delivery[d].over /\ delivery'[d].time # "later"
                 /\ \/ delivery[d].time = "later"
                    \/ delivery[d].status = "PENDING"
                 /\ UNCHANGED <<overrun, push>>
              \/ /\ delivery'[d].over /\ delivery'[d].time = delivery[d].time
                 /\ delivery[d].token # NoToken
                 /\ LeaseRunsOut(d)
           /\ UNCHANGED <<auth, install, note, sender, ended>>
<1>0. delivery \in [Deliveries -> Row]
  BY DEF DeliveryTypeOK
<1>1. CASE AttemptDue(d)
  <2> DEFINE r == [delivery[d] EXCEPT !.time = "due"]
  <2>1. /\ r \in Row /\ r.status = delivery[d].status /\ r.binding = delivery[d].binding
        /\ r.token = delivery[d].token /\ r.over = delivery[d].over /\ r.time = "due"
    BY <1>0 DEF Row
  <2>2. delivery' = [delivery EXCEPT ![d] = r]
    BY <1>1 DEF AttemptDue
  <2> HIDE DEF r
  <2> QED BY <1>0, <1>1, <2>1, <2>2 DEF AttemptDue, timeOnly
<1>2. CASE DeliveryExpires(d)
  <2> DEFINE r == [delivery[d] EXCEPT !.time = "expired"]
  <2>1. /\ r \in Row /\ r.status = delivery[d].status /\ r.binding = delivery[d].binding
        /\ r.token = delivery[d].token /\ r.over = delivery[d].over /\ r.time = "expired"
    BY <1>0 DEF Row
  <2>2. delivery' = [delivery EXCEPT ![d] = r]
    BY <1>2 DEF DeliveryExpires
  <2> HIDE DEF r
  <2> QED BY <1>0, <1>2, <2>1, <2>2 DEF DeliveryExpires, timeOnly
<1>3. CASE LeaseRunsOut(d)
  <2> DEFINE r == [delivery[d] EXCEPT !.over = TRUE]
  <2>1. /\ r \in Row /\ r.status = delivery[d].status /\ r.binding = delivery[d].binding
        /\ r.token = delivery[d].token /\ r.over /\ r.time = delivery[d].time
    BY <1>0 DEF Row
  <2>2. delivery' = [delivery EXCEPT ![d] = r]
    BY <1>3 DEF LeaseRunsOut
  <2> HIDE DEF r
  <2> QED BY <1>0, <1>3, <2>1, <2>2 DEF LeaseRunsOut, timeOnly
<1> QED BY <1>1, <1>2, <1>3

\* Outside the transaction that writes them, rows keep their status or get a
\* first one; inside, they are written without a lease.
LEMMA NoteMoves ==
    ASSUME DeliveryTypeOK, NEW n \in Notes, Record(n) \/ Commit(n) \/ Rollback(n)
    PROVE  /\ delivery' \in [Deliveries -> Row]
           /\ note' \in [Notes -> {"none", "open", "recorded"}]
           /\ \A m \in Notes \ {n} : note'[m] = note[m]
           /\ \A d \in Deliveries : d[1] # n => delivery'[d] = delivery[d]
           /\ UNCHANGED <<auth, install, sender, overrun, push>>
           /\ \/ /\ note[n] = "none" /\ note'[n] = "open"
                 /\ \A d \in Deliveries :
                      d[1] = n =>
                        \/ delivery'[d] = delivery[d] /\ (d \in ended' <=> d \in ended)
                        \/ /\ Receives(d)
                           /\ delivery'[d].status = "PENDING"
                           /\ delivery'[d].binding = install[d[2]].binding
                           /\ delivery'[d].token = NoToken /\ delivery'[d].over = FALSE
                           /\ delivery'[d].time = "due"
                           /\ d \in ended' =>
                                d \in ended \/ install[d[2]].mfa # auth[Recipient[n]].version
                 /\ \A d \in Deliveries : d[1] # n => (d \in ended' <=> d \in ended)
              \/ /\ note[n] = "open" /\ note'[n] = "recorded"
                 /\ UNCHANGED <<delivery, ended>>
              \/ /\ note[n] = "open" /\ note'[n] = "none"
                 /\ \A d \in Deliveries : d[1] = n => delivery'[d] = NoRow
                 /\ ended' = {d \in ended : d[1] # n}
<1>0. delivery \in [Deliveries -> Row] /\ install \in [Installs -> Registration]
      /\ note \in [Notes -> {"none", "open", "recorded"}]
  BY DEF DeliveryTypeOK
<1>1. CASE Record(n)
  <2> DEFINE r(d) == [NoRow EXCEPT !.status = "PENDING", !.binding = install[d[2]].binding]
             written == {d \in Deliveries : d[1] = n /\ Receives(d)}
  <2>1. \A d \in Deliveries :
          /\ r(d) \in Row /\ r(d).status = "PENDING" /\ r(d).time = "due"
          /\ r(d).binding = install[d[2]].binding
          /\ r(d).token = NoToken /\ r(d).over = FALSE
    <3> SUFFICES ASSUME NEW d \in Deliveries
                 PROVE  /\ r(d) \in Row /\ r(d).status = "PENDING" /\ r(d).time = "due"
                        /\ r(d).binding = install[d[2]].binding
                        /\ r(d).token = NoToken /\ r(d).over = FALSE
      OBVIOUS
    <3>1. d[2] \in Installs
      BY DEF Deliveries
    <3>2. install[d[2]].binding \in Nat
      BY <1>0, <3>1 DEF Registration
    <3> QED BY <3>2 DEF NoRow, Row, Statuses
  <2>2. delivery' = [d \in Deliveries |-> IF d \in written THEN r(d) ELSE delivery[d]]
    BY <1>1 DEF Record
  <2>3. ended' = ended \cup {d \in written : install[d[2]].mfa # auth[Recipient[n]].version}
    BY <1>1 DEF Record
  <2>4. /\ note[n] = "none" /\ note' = [note EXCEPT ![n] = "open"]
        /\ UNCHANGED <<auth, install, sender, overrun, push>>
    BY <1>1 DEF Record, worldOnly
  <2>5. \A d \in written : d \in Deliveries /\ d[1] = n /\ Receives(d)
    OBVIOUS
  <2> HIDE DEF r, written
  <2> QED BY <1>0, <2>1, <2>2, <2>3, <2>4, <2>5
<1>2. CASE Commit(n)
  BY <1>0, <1>2 DEF Commit, worldOnly
<1>3. CASE Rollback(n)
  <2>1. NoRow \in Row
    BY DEF NoRow, Row, Statuses
  <2> HIDE DEF NoRow
  <2> QED BY <1>0, <1>3, <2>1 DEF Rollback, worldOnly
<1> QED BY <1>1, <1>2, <1>3

\* What the world does keeps the types, and touches no sender.
LEMMA WorldShape ==
    ASSUME DeliveryShape, WorldNext
    PROVE  DeliveryShape'
<1>0. DeliveryTypeOK /\ SenderShape
  BY DEF DeliveryShape
<1>a. ASSUME sender' = sender PROVE SenderShape'
  BY <1>a, <1>0 DEF SenderShape
<1>b. \A D : Written(D) \subseteq D
  BY DEF Written
<1>1. ASSUME NEW a \in Accounts, ConfirmMfa(a) \/ ResetMfa(a) \/ ChangeAccess(a)
      PROVE  DeliveryShape'
  <2>1. ended' \subseteq Deliveries
    BY <1>0, <1>1, <1>b, AccountMoves DEF To, DeliveryTypeOK
  <2> QED BY <1>0, <1>1, <2>1, <1>a, AccountMoves DEF DeliveryShape, DeliveryTypeOK
<1>2. ASSUME NEW i \in Installs, NEW a,
             (a \in Accounts /\ Register(i, a)) \/ Release(i, a) \/ SessionExpires(i)
      PROVE  DeliveryShape'
  <2>1. ended' \subseteq Deliveries
    BY <1>0, <1>2, <1>b DEF Register, Release, SessionExpires, On, DeliveryTypeOK
  <2> QED BY <1>0, <1>2, <2>1, <1>a, BrowserMoves DEF DeliveryShape, DeliveryTypeOK
<1>3. ASSUME NEW n \in Notes, Record(n) \/ Commit(n) \/ Rollback(n)
      PROVE  DeliveryShape'
  <2>1. ended' \subseteq Deliveries
    BY <1>0, <1>3 DEF Record, Commit, Rollback, DeliveryTypeOK
  <2>2. /\ delivery' \in [Deliveries -> Row]
        /\ note' \in [Notes -> {"none", "open", "recorded"}]
        /\ UNCHANGED <<auth, install, sender, overrun, push>>
    BY <1>0, <1>3, NoteMoves
  <2> QED BY <1>0, <2>1, <2>2, <1>a DEF DeliveryShape, DeliveryTypeOK
<1>4. ASSUME NEW d \in Deliveries, AttemptDue(d) \/ DeliveryExpires(d) \/ LeaseRunsOut(d)
      PROVE  DeliveryShape'
  <2>1. overrun' \subseteq Processes /\ push' \in [Deliveries -> {"none", "accepted", "unsure"}]
    BY <1>0, <1>4 DEF AttemptDue, DeliveryExpires, LeaseRunsOut, DeliveryTypeOK
  <2>2. /\ delivery' \in [Deliveries -> Row]
        /\ UNCHANGED <<auth, install, note, sender, ended>>
    BY <1>0, <1>4, TimeMoves
  <2> QED BY <1>0, <2>1, <2>2, <1>a DEF DeliveryShape, DeliveryTypeOK
<1> QED
  BY <1>1, <1>2, <1>3, <1>4
     DEF WorldNext, AccountNext, BrowserNext, NoteNext, TimeNext

\* The registration and the history that a step of a process touches.
LEMMA SendWorld ==
    ASSUME DeliveryShape, NEW p \in Processes,
           SendNext(p) \/ Boot(p) \/ Crash(p) \/ Begin(p) \/ End(p)
    PROVE  /\ push' \in [Deliveries -> {"none", "accepted", "unsure"}]
           /\ \/ UNCHANGED <<install, ended>>
              \/ \E d \in Deliveries :
                   /\ install[d[2]].binding = delivery[d].binding
                   /\ Disable(d[2]) /\ ended' = ended \cup Written(On(d[2]))
                   /\ delivery' = delivery
<1> USE DEF DeliveryShape, DeliveryTypeOK
<1>1. CASE DiscardRegistration(p)
  <2>1. sender[p].delivery \in Deliveries
    BY <1>1 DEF DiscardRegistration, SenderShape, Calling
  <2> QED BY <1>1, <2>1 DEF DiscardRegistration
<1>2. CASE Push(p)
  <2>1. sender[p].delivery \in Deliveries
    BY <1>2 DEF Push, SenderShape, Calling
  <2> QED BY <1>2, <2>1 DEF Push, rows
<1>3. CASE AcceptFails(p) \/ Crash(p)
  BY <1>3 DEF AcceptFails, Crash, Forget, rows
<1>4. CASE \/ \E d \in Deliveries : Claim(p, d) \/ ClaimLost(p, d)
           \/ Drop(p) \/ Accept(p) \/ Retry(p)
  BY <1>4 DEF Claim, ClaimLost, Drop, Accept, Retry, sendOnly
<1>5. CASE Find(p) \/ PushFails(p) \/ StatementFails(p) \/ Boot(p) \/ Begin(p) \/ End(p)
  BY <1>5 DEF Find, PushFails, StatementFails, Boot, Begin, End, rows
<1> QED BY <1>1, <1>2, <1>3, <1>4, <1>5 DEF SendNext

LEMMA ShapeStep ==
    ASSUME DeliveryShape, [DeliveryNext]_deliveryVars
    PROVE  DeliveryShape'
<1>0. DeliveryTypeOK
  BY DEF DeliveryShape
<1>1. CASE WorldNext
  BY <1>1, WorldShape
<1>2. ASSUME NEW p \in Processes, SendNext(p) \/ Boot(p) \/ Crash(p) \/ Begin(p) \/ End(p)
      PROVE  DeliveryShape'
  <2>1. /\ sender' \in [Processes -> Sender] /\ SenderShape'
        /\ delivery' \in [Deliveries -> Row]
        /\ overrun' \subseteq Processes
        /\ UNCHANGED <<auth, note>>
    <3>1. CASE \E d \in Deliveries : Claim(p, d) \/ ClaimLost(p, d)
      <4>1. UNCHANGED <<auth, note>>
        BY <3>1 DEF Claim, ClaimLost, sendOnly
      <4>2. overrun' \subseteq overrun
        BY <3>1 DEF Claim, ClaimLost
      <4> QED BY <3>1, <4>1, <4>2, <1>0, ClaimRow DEF DeliveryTypeOK
    <3>2. CASE \A d \in Deliveries : ~Claim(p, d) /\ ~ClaimLost(p, d)
      <4>1. /\ sender' \in [Processes -> Sender] /\ SenderShape'
            /\ \/ delivery' = delivery
               \/ /\ sender[p].pc \in Calling
                  /\ \E status \in {"PENDING"} \cup Final, time \in {"later", "due", "expired"} :
                       Finish(sender[p].delivery, sender[p].token, status, time)
            /\ overrun' = overrun /\ UNCHANGED <<auth, note>>
        BY <1>2, <3>2, SendRow
      <4>2. sender[p].pc \in Calling => sender[p].delivery \in Deliveries
        BY DEF DeliveryShape, SenderShape
      <4>3. delivery \in [Deliveries -> Row] /\ overrun \subseteq Processes
        BY <1>0 DEF DeliveryTypeOK
      <4>4. delivery' \in [Deliveries -> Row]
        BY <4>1, <4>2, <4>3, FinishRow
      <4> QED BY <4>1, <4>3, <4>4
    <3> QED BY <3>1, <3>2
  <2>2. install' \in [Installs -> Registration] /\ ended' \subseteq Deliveries
    <3>1. CASE UNCHANGED <<install, ended>>
      BY <3>1, <1>0 DEF DeliveryTypeOK
    <3>2. ASSUME NEW d \in Deliveries, Disable(d[2]),
                 ended' = ended \cup Written(On(d[2]))
          PROVE  install' \in [Installs -> Registration] /\ ended' \subseteq Deliveries
      <4>1. d[2] \in Installs
        BY DEF Deliveries
      <4>2. ended' \subseteq Deliveries
        BY <3>2, <1>0 DEF DeliveryTypeOK, Written, On
      <4> QED BY <3>2, <4>1, <4>2, <1>0, Disabled
    <3> QED BY <1>2, <3>1, <3>2, SendWorld
  <2>3. push' \in [Deliveries -> {"none", "accepted", "unsure"}]
    BY <1>2, SendWorld
  <2> QED BY <2>1, <2>2, <2>3, <1>0 DEF DeliveryShape, DeliveryTypeOK
<1>3. CASE UNCHANGED deliveryVars
  BY <1>3 DEF DeliveryShape, DeliveryTypeOK, SenderShape, deliveryVars, rows
<1> QED BY <1>1, <1>2, <1>3 DEF DeliveryNext

LEMMA ShapeInit == DeliveryInit => DeliveryShape
<1> SUFFICES ASSUME DeliveryInit PROVE DeliveryShape
  OBVIOUS
<1>1. NoInstall \in Registration /\ NoRow \in Row
  BY DEF NoInstall, Registration, NoRow, Row, Statuses
<1>2. Off \in Sender /\ Off.pc \notin Calling
  BY BatchAssumption DEF Off, Sender, Places, Calling
<1>3. auth \in [Accounts -> [admin : BOOLEAN, enabled : BOOLEAN, version : Nat]]
  <2>1. auth \in [Accounts -> [admin : {TRUE}, enabled : BOOLEAN, version : {1}]]
    BY DEF DeliveryInit
  <2>2. \A r \in [admin : {TRUE}, enabled : BOOLEAN, version : {1}] :
          r \in [admin : BOOLEAN, enabled : BOOLEAN, version : Nat]
    <3>1. TRUE \in BOOLEAN /\ 1 \in Nat
      OBVIOUS
    <3> QED BY <3>1, Zenon
  <2> QED BY <2>1, <2>2
<1> QED BY <1>1, <1>2, <1>3 DEF DeliveryInit, DeliveryShape, DeliveryTypeOK, SenderShape

\* Outbox, registrations and senders keep their types, and no call of
\* dispatchNotifications deals with more than its batch.
THEOREM DeliveryTypeCorrect == DeliverySpec => []DeliveryTypeOK
<1>1. DeliveryShape => DeliveryTypeOK
  BY DEF DeliveryShape
<1> QED BY <1>1, ShapeInit, ShapeStep, PTL DEF DeliverySpec

-----------------------------------------------------------------------------
(* Leases.                                                                   *)

\* A row with a token waits for its sender's answer; one that waits for its
\* next attempt, or is not committed, has none.
Leased ==
    \A d \in Deliveries :
      /\ delivery[d].token # NoToken =>
           /\ delivery[d].status = "PENDING" /\ delivery[d].time # "later"
           /\ note[d[1]] = "recorded"
      /\ delivery[d].over => delivery[d].token # NoToken
      /\ delivery[d].time = "later" => delivery[d].status = "PENDING"
      /\ delivery[d].status \in Final => note[d[1]] = "recorded"

TokensUnique ==
    \A p, q \in Processes :
      sender[p].pc \in Calling /\ sender[q].pc \in Calling /\ sender[p].token = sender[q].token
        => p = q

OverKnown ==
    \A p \in Processes :
      LET row == delivery[sender[p].delivery] IN
      sender[p].pc \in Calling /\ row.token = sender[p].token /\ row.over => p \in overrun

LeaseInv == DeliveryShape /\ Leased /\ TokensUnique /\ OverKnown /\ LeaseProtects

LEMMA LeaseInit == DeliveryInit => LeaseInv
<1> SUFFICES ASSUME DeliveryInit PROVE LeaseInv
  OBVIOUS
<1>1. DeliveryShape
  BY ShapeInit
<1>2. \A p \in Processes : sender[p].pc \notin Calling
  BY DEF DeliveryInit, Off, Calling
<1>3. Leased
  BY DEF DeliveryInit, NoRow, Leased, Final
<1> QED BY <1>1, <1>2, <1>3 DEF LeaseInv, TokensUnique, OverKnown, LeaseProtects

\* What a sender relies on while it deals with a delivery.
LEMMA SenderKnows ==
    ASSUME LeaseInv, NEW q \in Processes, sender[q].pc \in Calling
    PROVE  /\ sender[q].delivery \in Deliveries
           /\ sender[q].token # NoToken
           /\ delivery[sender[q].delivery] \in Row
           /\ q \notin overrun => note[sender[q].delivery[1]] = "recorded"
           /\ sender[q].delivery[1] \in Notes
<1>1. /\ sender[q].delivery \in Deliveries /\ sender[q].token \in Tokens
      /\ delivery \in [Deliveries -> Row]
  BY DEF LeaseInv, DeliveryShape, SenderShape, DeliveryTypeOK
<1>2. q \notin overrun => note[sender[q].delivery[1]] = "recorded"
  BY <1>1, NoneAssumption DEF LeaseInv, LeaseProtects, Leased, Final
<1> QED BY <1>1, <1>2, NoneAssumption DEF Deliveries

LEMMA LeaseStep ==
    ASSUME LeaseInv, [DeliveryNext]_deliveryVars
    PROVE  LeaseInv'
<1>0. /\ DeliveryShape /\ DeliveryShape' /\ DeliveryTypeOK
      /\ Leased /\ TokensUnique /\ OverKnown /\ LeaseProtects
  BY ShapeStep DEF LeaseInv, DeliveryShape
<1>a. \A d \in Deliveries : delivery[d] \in Row
  BY <1>0 DEF DeliveryTypeOK
<1>1. ASSUME UNCHANGED <<delivery, note, sender, overrun>>
      PROVE  LeaseInv'
  BY <1>0, <1>1 DEF LeaseInv, Leased, TokensUnique, OverKnown, LeaseProtects
<1>2. CASE AccountNext
  BY <1>0, <1>1, <1>2, AccountMoves DEF AccountNext
<1>3. CASE BrowserNext
  BY <1>0, <1>1, <1>3, BrowserMoves DEF BrowserNext
<1>4. ASSUME NEW n \in Notes, Record(n) \/ Commit(n) \/ Rollback(n)
      PROVE  LeaseInv'
  <2>1. CASE UNCHANGED delivery
    <3>1. /\ \A m \in Notes : note[m] = "recorded" => note'[m] = "recorded"
          /\ UNCHANGED <<sender, overrun>>
      BY <1>0, <1>4, <2>1, NoteMoves
    <3>2. Leased'
      BY <1>0, <2>1, <3>1 DEF Leased, Deliveries
    <3> QED BY <1>0, <2>1, <3>1, <3>2 DEF LeaseInv, TokensUnique, OverKnown, LeaseProtects
  <2>2. CASE delivery' # delivery
    <3>1. /\ note[n] # "recorded" /\ UNCHANGED <<sender, overrun>>
          /\ \A m \in Notes \ {n} : note'[m] = note[m]
          /\ \A d \in Deliveries :
               \/ delivery'[d] = delivery[d]
               \/ /\ d[1] = n
                  /\ delivery'[d].token = NoToken /\ delivery'[d].over = FALSE
                  /\ delivery'[d].time = "due" /\ delivery'[d].status \notin Final
      <4>1. /\ NoRow.token = NoToken /\ NoRow.over = FALSE /\ NoRow.time = "due"
            /\ NoRow.status \notin Final /\ "PENDING" \notin Final
        BY DEF NoRow, Final
      <4>2. UNCHANGED <<sender, overrun>> /\ \A m \in Notes \ {n} : note'[m] = note[m]
        BY <1>0, <1>4, NoteMoves
      <4>3. note[n] # "recorded"
        BY <1>4, <2>2 DEF Record, Commit, Rollback
      <4>4. ASSUME NEW d \in Deliveries, d[1] = n, delivery'[d] # delivery[d]
            PROVE  /\ delivery'[d].token = NoToken /\ delivery'[d].over = FALSE
                   /\ delivery'[d].time = "due" /\ delivery'[d].status \notin Final
        <5>1. \/ delivery'[d] = delivery[d]
              \/ /\ delivery'[d].status = "PENDING"
                 /\ delivery'[d].token = NoToken /\ delivery'[d].over = FALSE
                 /\ delivery'[d].time = "due"
              \/ UNCHANGED delivery
              \/ delivery'[d] = NoRow
          BY <1>0, <1>4, <4>4, NoteMoves
        <5> QED BY <4>1, <4>4, <5>1
      <4>5. \A d \in Deliveries : d[1] # n => delivery'[d] = delivery[d]
        BY <1>0, <1>4, NoteMoves
      <4> QED BY <4>2, <4>3, <4>4, <4>5
    <3>2. Leased'
      <4> SUFFICES ASSUME NEW d \in Deliveries
                   PROVE  /\ delivery'[d].token # NoToken =>
                               /\ delivery'[d].status = "PENDING" /\ delivery'[d].time # "later"
                               /\ note'[d[1]] = "recorded"
                          /\ delivery'[d].over => delivery'[d].token # NoToken
                          /\ delivery'[d].time = "later" => delivery'[d].status = "PENDING"
                          /\ delivery'[d].status \in Final => note'[d[1]] = "recorded"
        BY DEF Leased
      <4>1. d[1] \in Notes
        BY DEF Deliveries
      <4> QED BY <1>0, <3>1, <4>1 DEF Leased
    <3>3. TokensUnique'
      BY <1>0, <3>1 DEF TokensUnique
    <3>4. ASSUME NEW q \in Processes, sender[q].pc \in Calling
          PROVE  \/ delivery'[sender[q].delivery] = delivery[sender[q].delivery]
                 \/ q \in overrun /\ delivery'[sender[q].delivery].over = FALSE
      BY <3>1, <3>4, SenderKnows
    <3> QED
      BY <1>0, <3>1, <3>2, <3>3, <3>4 DEF LeaseInv, OverKnown, LeaseProtects
  <2> QED BY <2>1, <2>2
<1>5. ASSUME NEW d \in Deliveries, AttemptDue(d) \/ DeliveryExpires(d) \/ LeaseRunsOut(d)
      PROVE  LeaseInv'
  <2>1. /\ \A e \in Deliveries \ {d} : delivery'[e] = delivery[e]
        /\ delivery'[d].status = delivery[d].status
        /\ delivery'[d].token = delivery[d].token
        /\ UNCHANGED <<note, sender>>
    BY <1>0, <1>5, TimeMoves
  <2>2. \/ /\ delivery'[d].over = delivery[d].over /\ delivery'[d].time # "later"
           /\ overrun' = overrun
        \/ /\ delivery'[d].over /\ delivery'[d].time = delivery[d].time
           /\ delivery[d].token # NoToken
           /\ overrun' = overrun \cup {p \in Processes : /\ sender[p].delivery = d
                                                         /\ sender[p].token = delivery[d].token}
    BY <1>0, <1>5, TimeMoves DEF LeaseRunsOut
  <2>3. Leased'
    BY <1>0, <2>1, <2>2 DEF Leased
  <2>4. TokensUnique'
    BY <1>0, <2>1 DEF TokensUnique
  <2>5. ASSUME NEW q \in Processes, sender[q].pc \in Calling,
               delivery'[sender[q].delivery].token = sender[q].token,
               delivery'[sender[q].delivery].over
        PROVE  q \in overrun'
    BY <1>0, <2>1, <2>2, <2>5, SenderKnows DEF OverKnown
  <2>6. OverKnown'
    BY <2>1, <2>5 DEF OverKnown
  <2>7. ASSUME NEW q \in Processes, sender[q].pc \in Calling, q \notin overrun'
        PROVE  LET row == delivery'[sender[q].delivery] IN
               \/ row.token = sender[q].token /\ row.status = "PENDING"
               \/ sender[q].pc = "retry" /\ row.status = "ACCEPTED"
    BY <1>0, <2>1, <2>2, <2>7, SenderKnows DEF LeaseProtects
  <2>8. LeaseProtects'
    BY <2>1, <2>7 DEF LeaseProtects
  <2> QED BY <1>0, <2>3, <2>4, <2>6, <2>8 DEF LeaseInv
<1>6. ASSUME NEW p \in Processes, NEW d \in Deliveries, Claim(p, d) \/ ClaimLost(p, d)
      PROVE  LeaseInv'
  <2>1. PICK t \in Tokens \ InUse :
             /\ delivery' \in [Deliveries -> Row]
             /\ \A e \in Deliveries : e # d => delivery'[e] = delivery[e]
             /\ delivery'[d].token = t /\ delivery'[d].over = FALSE
             /\ delivery'[d].status = "PENDING" /\ delivery[d].status = "PENDING"
             /\ delivery'[d].binding = delivery[d].binding
             /\ note[d[1]] = "recorded"
             /\ delivery[d].token = NoToken \/ delivery[d].over
             /\ sender' \in [Processes -> Sender] /\ SenderShape'
             /\ \A q \in Processes : q # p => sender'[q] = sender[q]
             /\ sender[p].pc = "claim"
             /\ \/ /\ sender'[p].pc = "find"
                   /\ sender'[p].delivery = d /\ sender'[p].token = t
                   /\ overrun' = overrun \ {p}
                \/ sender'[p].pc = "broken" /\ overrun' = overrun
    BY <1>0, <1>6, ClaimRow
  <2>2. delivery'[d].time = delivery[d].time /\ delivery[d].time # "later" /\ note' = note
    <3>1. \E u : Lease(d, u)
      BY <1>6 DEF Claim, ClaimLost
    <3>2. delivery[d].time # "later" /\ note' = note
      BY <1>6 DEF Claim, ClaimLost, Due, sendOnly
    <3> QED BY <1>0, <1>a, <3>1, <3>2 DEF Lease, DeliveryTypeOK, Row
  <2>3. t # NoToken /\ \A q \in Processes : sender[q].token # t
    BY <2>1, NoneAssumption DEF InUse
  <2>4. "broken" \notin Calling /\ "claim" \notin Calling
    BY DEF Calling
  <2>5. Leased'
    <3>1. "PENDING" \notin Final
      BY DEF Final
    <3> QED BY <1>0, <2>1, <2>2, <2>3, <3>1 DEF Leased
  <2>6. TokensUnique'
    BY <1>0, <2>1, <2>3, <2>4 DEF TokensUnique
  <2>7. ASSUME NEW q \in Processes, q # p, sender[q].pc \in Calling
        PROVE  /\ delivery'[sender[q].delivery].token = sender[q].token
                    => delivery'[sender[q].delivery] = delivery[sender[q].delivery]
               /\ q \notin overrun =>
                    delivery'[sender[q].delivery] = delivery[sender[q].delivery]
    <3>1. CASE sender[q].delivery # d
      BY <2>1, <2>7, <3>1, SenderKnows
    <3>2. CASE sender[q].delivery = d
      <4>1. delivery'[d].token # sender[q].token
        BY <2>1, <2>3
      <4>2. ASSUME q \notin overrun PROVE FALSE
        <5>1. delivery[d].token = sender[q].token
          BY <1>0, <2>1, <2>7, <3>2, <4>2 DEF LeaseProtects
        <5>2. delivery[d].over
          BY <2>1, <2>7, <5>1, SenderKnows
        <5> QED BY <1>0, <2>7, <3>2, <4>2, <5>1, <5>2 DEF OverKnown
      <4> QED BY <3>2, <4>1, <4>2
    <3> QED BY <3>1, <3>2
  <2>8. \A q \in Processes : q # p => (q \in overrun' <=> q \in overrun)
    BY <2>1
  <2>9. OverKnown'
    <3> SUFFICES ASSUME NEW q \in Processes, sender'[q].pc \in Calling,
                        delivery'[sender'[q].delivery].token = sender'[q].token,
                        delivery'[sender'[q].delivery].over
                 PROVE  q \in overrun'
      BY DEF OverKnown
    <3>1. CASE q # p
      BY <1>0, <2>1, <2>7, <2>8, <3>1 DEF OverKnown
    <3>2. CASE q = p
      BY <2>1, <2>4, <3>2
    <3> QED BY <3>1, <3>2
  <2>10. LeaseProtects'
    <3> SUFFICES ASSUME NEW q \in Processes, sender'[q].pc \in Calling, q \notin overrun'
                 PROVE  LET row == delivery'[sender'[q].delivery] IN
                        \/ row.token = sender'[q].token /\ row.status = "PENDING"
                        \/ sender'[q].pc = "retry" /\ row.status = "ACCEPTED"
      BY DEF LeaseProtects
    <3>1. CASE q # p
      BY <1>0, <2>1, <2>7, <2>8, <3>1 DEF LeaseProtects
    <3>2. CASE q = p
      BY <2>1, <2>4, <3>2
    <3> QED BY <3>1, <3>2
  <2> QED BY <1>0, <2>5, <2>6, <2>9, <2>10 DEF LeaseInv
<1>7. ASSUME NEW p \in Processes,
             SendNext(p) \/ Boot(p) \/ Crash(p) \/ Begin(p) \/ End(p),
             \A d \in Deliveries : ~Claim(p, d) /\ ~ClaimLost(p, d)
      PROVE  LeaseInv'
  <2> DEFINE Moved == /\ \A q \in Processes : q # p => sender'[q] = sender[q]
                      /\ sender'[p].pc \in Calling =>
                           /\ sender[p].pc \in Calling \ {"retry"}
                           /\ sender'[p].delivery = sender[p].delivery
                           /\ sender'[p].token = sender[p].token
                      /\ overrun' = overrun /\ note' = note
             c == sender[p].delivery
  <2>1. Moved
    BY <1>0, <1>7, SendRow
  <2>2. TokensUnique'
    BY <1>0, <2>1 DEF TokensUnique
  <2>3. CASE delivery' = delivery
    <3>1. Leased'
      BY <1>0, <2>1, <2>3 DEF Leased
    <3>2. OverKnown'
      BY <1>0, <2>1, <2>3 DEF OverKnown
    <3>3. LeaseProtects'
      BY <1>0, <2>1, <2>3 DEF LeaseProtects
    <3> QED BY <1>0, <2>2, <3>1, <3>2, <3>3 DEF LeaseInv
  <2>4. CASE delivery' # delivery
    <3>1. PICK status \in {"PENDING"} \cup Final, time \in {"later", "due", "expired"} :
            /\ sender[p].pc \in Calling
            /\ Wanted(c, status, time)
            /\ Finish(c, sender[p].token, status, time)
            /\ sender'[p].pc \in Calling => sender'[p].pc = "retry" /\ status = "ACCEPTED"
      BY <1>0, <1>7, <2>4, SendRow
    <3>2. /\ \A e \in Deliveries : e # c => delivery'[e] = delivery[e]
          /\ delivery[c].token = sender[p].token
          /\ delivery'[c].status = status /\ delivery'[c].time = time
          /\ delivery'[c].token = NoToken /\ delivery'[c].over = FALSE
          /\ c \in Deliveries
      <4>1. c \in Deliveries
        BY <3>1, SenderKnows
      <4>2. delivery[c].token = sender[p].token /\ delivery[c].status = "PENDING"
        BY <2>4, <3>1 DEF Finish
      <4>3. delivery \in [Deliveries -> Row]
        BY <1>0 DEF DeliveryTypeOK
      <4>4. /\ delivery' \in [Deliveries -> Row]
            /\ \A e \in Deliveries : e # c => delivery'[e] = delivery[e]
            /\ \/ delivery'[c] = delivery[c]
               \/ /\ delivery[c].token = sender[p].token /\ delivery[c].status = "PENDING"
                  /\ delivery'[c].status = status /\ delivery'[c].time = time
                  /\ delivery'[c].binding = delivery[c].binding
                  /\ delivery'[c].token = NoToken /\ delivery'[c].over = FALSE
            /\ delivery[c].token = sender[p].token /\ delivery[c].status = "PENDING"
               => delivery'[c].status = status
        <5>1. Finish(c, sender[p].token, status, time)
          BY <3>1
        <5> HIDE DEF c, Moved
        <5> QED BY <4>1, <4>3, <5>1, FinishRow, ZenonT(60)
      <4>5. delivery' \in [Deliveries -> Row]
        BY <1>0 DEF DeliveryShape, DeliveryTypeOK
      <4>6. delivery'[c] # delivery[c]
        BY <2>4, <4>1, <4>3, <4>4, <4>5
      <4> QED BY <4>1, <4>2, <4>4, <4>6
    <3>3. sender[p].token # NoToken
      BY <3>1, SenderKnows
    <3>4. /\ status \in Final => time # "later"
          /\ time = "later" => status = "PENDING"
          /\ note[c[1]] = "recorded"
      BY <1>0, <3>1, <3>2, <3>3 DEF Wanted, Leased, Final
    <3>5. Leased'
      BY <1>0, <2>1, <3>2, <3>4 DEF Leased
    <3>6. ASSUME NEW q \in Processes, q # p, sender[q].pc \in Calling
          PROVE  \/ delivery'[sender[q].delivery] = delivery[sender[q].delivery]
                 \/ q \in overrun /\ delivery'[sender[q].delivery].over = FALSE
                 \/ /\ sender[q].pc = "retry" /\ delivery[sender[q].delivery].status = "ACCEPTED"
                    /\ delivery'[sender[q].delivery].over = FALSE
      <4>1. sender[q].token # sender[p].token
        BY <1>0, <3>1, <3>6 DEF TokensUnique
      <4> QED BY <1>0, <3>2, <3>6, <4>1, SenderKnows DEF LeaseProtects
    <3>7. delivery[c].status = "PENDING"
      BY <2>4, <3>1 DEF Finish
    <3>8. OverKnown'
      <4> SUFFICES ASSUME NEW q \in Processes, sender'[q].pc \in Calling,
                          delivery'[sender'[q].delivery].token = sender'[q].token,
                          delivery'[sender'[q].delivery].over
                   PROVE  q \in overrun'
        BY DEF OverKnown
      <4>1. CASE q # p
        BY <1>0, <2>1, <3>6, <4>1 DEF OverKnown
      <4>2. CASE q = p
        BY <2>1, <3>2, <4>2
      <4> QED BY <4>1, <4>2
    <3>9. LeaseProtects'
      <4> SUFFICES ASSUME NEW q \in Processes, sender'[q].pc \in Calling, q \notin overrun'
                   PROVE  LET row == delivery'[sender'[q].delivery] IN
                          \/ row.token = sender'[q].token /\ row.status = "PENDING"
                          \/ sender'[q].pc = "retry" /\ row.status = "ACCEPTED"
        BY DEF LeaseProtects
      <4>1. CASE q # p
        <5>1. sender'[q] = sender[q] /\ q \notin overrun
          BY <2>1, <4>1
        <5>2. delivery'[sender[q].delivery] = delivery[sender[q].delivery]
          <6>1. sender[q].delivery = c => delivery[c].token # sender[q].token
            BY <1>0, <3>1, <3>2, <4>1, <5>1 DEF TokensUnique
          <6>2. sender[q].delivery # c
            BY <1>0, <3>7, <5>1, <6>1 DEF LeaseProtects
          <6> QED BY <3>2, <5>1, <6>2, SenderKnows
        <5> QED BY <1>0, <5>1, <5>2 DEF LeaseProtects
      <4>2. CASE q = p
        BY <2>1, <3>1, <3>2, <4>2
      <4> QED BY <4>1, <4>2
    <3> QED BY <1>0, <2>2, <3>5, <3>8, <3>9 DEF LeaseInv
  <2> QED BY <2>3, <2>4
<1>8. CASE UNCHANGED deliveryVars
  BY <1>1, <1>8 DEF deliveryVars, rows
<1> QED
  BY <1>2, <1>3, <1>4, <1>5, <1>6, <1>7, <1>8
     DEF DeliveryNext, WorldNext, NoteNext, TimeNext

\* While its lease has not run out, nobody takes a delivery from the sender
\* that claimed it, and nobody finishes it in its place.
THEOREM LeasesProtect == DeliverySpec => []LeaseProtects
<1>1. LeaseInv => LeaseProtects
  BY DEF LeaseInv
<1> QED BY <1>1, LeaseInit, LeaseStep, PTL DEF DeliverySpec

LEMMA FinalStays ==
    ASSUME LeaseInv, [DeliveryNext]_deliveryVars, NEW d \in Deliveries, delivery[d].status \in Final
    PROVE  delivery'[d] = delivery[d]
<1>0. /\ DeliveryShape /\ DeliveryTypeOK /\ Leased /\ "PENDING" \notin Final
      /\ delivery \in [Deliveries -> Row] /\ d[1] \in Notes
  BY DEF LeaseInv, DeliveryShape, DeliveryTypeOK, Final, Deliveries
<1>1. note[d[1]] = "recorded" /\ delivery[d].token = NoToken /\ delivery[d].time # "later"
  BY <1>0 DEF Leased
<1>2. CASE AccountNext \/ BrowserNext
  BY <1>0, <1>2, AccountMoves, BrowserMoves DEF AccountNext, BrowserNext
<1>3. CASE NoteNext
  BY <1>0, <1>1, <1>3, NoteMoves DEF NoteNext
<1>4. CASE TimeNext
  <2>1. PICK e \in Deliveries : AttemptDue(e) \/ DeliveryExpires(e) \/ LeaseRunsOut(e)
    BY <1>4 DEF TimeNext
  <2>2. e # d
    BY <1>0, <1>1, <2>1 DEF AttemptDue, DeliveryExpires, LeaseRunsOut
  <2> QED BY <1>0, <2>1, <2>2, TimeMoves
<1>5. ASSUME NEW p \in Processes, NEW e \in Deliveries, Claim(p, e) \/ ClaimLost(p, e)
      PROVE  delivery'[d] = delivery[d]
  BY <1>0, <1>5, ClaimRow
<1>6. ASSUME NEW p \in Processes,
             SendNext(p) \/ Boot(p) \/ Crash(p) \/ Begin(p) \/ End(p),
             \A e \in Deliveries : ~Claim(p, e) /\ ~ClaimLost(p, e)
      PROVE  delivery'[d] = delivery[d]
  <2>1. \/ delivery' = delivery
        \/ \E status, time : Finish(sender[p].delivery, sender[p].token, status, time)
    BY <1>0, <1>6, SendRow
  <2> QED BY <1>0, <2>1 DEF Finish
<1>7. CASE UNCHANGED deliveryVars
  BY <1>7 DEF deliveryVars, rows
<1> QED
  BY <1>2, <1>3, <1>4, <1>5, <1>6, <1>7 DEF DeliveryNext, WorldNext

\* A delivery that was accepted or discarded stays as it is, however late a
\* sender that once claimed it comes back.
THEOREM FinishedStays == DeliverySpec => FinishedForGood
<1>1. LeaseInv /\ [DeliveryNext]_deliveryVars =>
        [\A d \in Deliveries : delivery[d].status \in Final => delivery'[d] = delivery[d]]_deliveryVars
  BY FinalStays
<1> QED BY <1>1, LeaseInit, LeaseStep, PTL DEF DeliverySpec, FinishedForGood

-----------------------------------------------------------------------------
(* Repeats.                                                                  *)

\* The sender that is about to write the acceptance of a delivery.
Holds(p, d) ==
    /\ sender[p].pc = "accept" /\ sender[p].delivery = d
    /\ sender[p].token = delivery[d].token /\ p \notin overrun

\* An acceptance is written, or will be.
Accepted ==
    \A d \in Deliveries :
      push[d] = "accepted" =>
        delivery[d].status = "ACCEPTED" \/ \E p \in Processes : Holds(p, d)

RepeatInv == LeaseInv /\ Accepted

LEMMA HolderKnows ==
    ASSUME LeaseInv, NEW q \in Processes, NEW d \in Deliveries, Holds(q, d)
    PROVE  /\ sender[q].pc \in Calling /\ delivery[d].token # NoToken /\ ~delivery[d].over
           /\ note[d[1]] = "recorded" /\ delivery[d].status = "PENDING" /\ d[1] \in Notes
<1>1. sender[q].pc \in Calling /\ sender[q].delivery = d /\ q \notin overrun
  BY DEF Holds, Calling
<1>2. delivery[d].over \in BOOLEAN
  BY DEF LeaseInv, DeliveryShape, DeliveryTypeOK, Row
<1>3. delivery[d].status = "PENDING"
  BY <1>1 DEF LeaseInv, LeaseProtects, Holds
<1>4. ~delivery[d].over
  BY <1>1 DEF LeaseInv, OverKnown, Holds
<1> QED BY <1>1, <1>2, <1>3, <1>4, SenderKnows DEF Holds

\* The steps of others leave a holder what it holds.
LEMMA HolderStays ==
    ASSUME LeaseInv, NEW q \in Processes, NEW d \in Deliveries, Holds(q, d), NEW p \in Processes,
           q # p, SendNext(p) \/ Boot(p) \/ Crash(p) \/ Begin(p) \/ End(p)
    PROVE  Holds(q, d)'
<1>0. /\ DeliveryShape /\ TokensUnique /\ delivery \in [Deliveries -> Row]
      /\ sender[q].pc \in Calling
  BY HolderKnows DEF LeaseInv, DeliveryShape, DeliveryTypeOK
<1>1. ASSUME NEW e \in Deliveries, Claim(p, e) \/ ClaimLost(p, e)
      PROVE  Holds(q, d)'
  <2>1. /\ \A f \in Deliveries : f # e => delivery'[f] = delivery[f]
        /\ delivery[e].token = NoToken \/ delivery[e].over
        /\ sender'[q] = sender[q] /\ (q \in overrun' <=> q \in overrun)
    <3>1. sender'[q] = sender[q]
      BY <1>0, <1>1, ClaimRow
    <3>2. q \in overrun' <=> q \in overrun
      BY <1>1 DEF Claim, ClaimLost
    <3>3. delivery[e].token = NoToken \/ delivery[e].over
      BY <1>1 DEF Claim, ClaimLost, Due
    <3>4. \A f \in Deliveries : f # e => delivery'[f] = delivery[f]
      BY <1>0, <1>1, ClaimRow
    <3> QED BY <3>1, <3>2, <3>3, <3>4
  <2>2. e # d
    BY <2>1, HolderKnows
  <2> QED BY <2>1, <2>2 DEF Holds
<1>2. CASE \A e \in Deliveries : ~Claim(p, e) /\ ~ClaimLost(p, e)
  <2>1. /\ \/ delivery' = delivery
           \/ /\ sender[p].pc \in Calling
              /\ \E status, time : Finish(sender[p].delivery, sender[p].token, status, time)
        /\ overrun' = overrun /\ sender'[q] = sender[q]
    BY <1>0, <1>2, SendRow
  <2>2. CASE delivery' = delivery
    BY <2>1, <2>2 DEF Holds
  <2>3. CASE delivery' # delivery
    <3>1. PICK status, time : Finish(sender[p].delivery, sender[p].token, status, time)
      BY <2>1, <2>3
    <3>2. sender[p].token # sender[q].token
      BY <1>0, <2>1, <2>3 DEF TokensUnique
    <3>3. delivery[sender[p].delivery].token = sender[p].token
      BY <2>3, <3>1 DEF Finish
    <3>4. sender[p].delivery # d
      BY <3>2, <3>3 DEF Holds
    <3>5. delivery'[d] = delivery[d]
      BY <1>0, <3>1, <3>4 DEF Finish
    <3> QED BY <2>1, <3>5 DEF Holds
  <2> QED BY <2>2, <2>3
<1> QED BY <1>1, <1>2

LEMMA RepeatStep ==
    ASSUME RepeatInv, [DeliveryNext]_deliveryVars
    PROVE  RepeatInv'
<1>0. /\ LeaseInv /\ LeaseInv' /\ Accepted /\ DeliveryShape /\ DeliveryTypeOK
      /\ delivery \in [Deliveries -> Row] /\ sender \in [Processes -> Sender]
      /\ push \in [Deliveries -> {"none", "accepted", "unsure"}]
  BY LeaseStep DEF RepeatInv, LeaseInv, DeliveryShape, DeliveryTypeOK
<1> SUFFICES ASSUME NEW d \in Deliveries, push'[d] = "accepted", delivery'[d].status # "ACCEPTED"
             PROVE  \E p \in Processes : Holds(p, d)'
  BY <1>0 DEF RepeatInv, Accepted
<1>1. delivery[d].status # "ACCEPTED"
  BY <1>0, FinalStays DEF Final
<1>2. push[d] = "accepted" => \E q \in Processes : Holds(q, d)
  BY <1>0, <1>1 DEF Accepted
<1>3. CASE WorldNext
  <2>0. ASSUME push'[d] = push[d], UNCHANGED sender,
               \A q \in Processes : Holds(q, d) => /\ delivery'[d].token = delivery[d].token
                                                   /\ q \notin overrun'
        PROVE  \E p \in Processes : Holds(p, d)'
    BY <1>2, <2>0 DEF Holds
  <2>1. CASE AccountNext
    BY <1>0, <2>0, <2>1, AccountMoves DEF AccountNext, Holds
  <2>2. CASE BrowserNext
    BY <1>0, <2>0, <2>2, BrowserMoves DEF BrowserNext, Holds
  <2>3. ASSUME NEW n \in Notes, Record(n) \/ Commit(n) \/ Rollback(n)
        PROVE  \E p \in Processes : Holds(p, d)'
    <3>1. /\ UNCHANGED <<sender, overrun, push>>
          /\ \A e \in Deliveries : note[e[1]] = "recorded" => delivery'[e] = delivery[e]
      BY <1>0, <2>3, NoteMoves
    <3> QED BY <1>0, <2>0, <3>1, HolderKnows DEF Holds
  <2>4. ASSUME NEW e \in Deliveries, AttemptDue(e) \/ DeliveryExpires(e) \/ LeaseRunsOut(e)
        PROVE  \E p \in Processes : Holds(p, d)'
    <3>1. UNCHANGED sender /\ \A f \in Deliveries : delivery'[f].token = delivery[f].token
      BY <1>0, <2>4, TimeMoves
    <3>2. CASE UNCHANGED <<overrun, push>>
      BY <2>0, <3>1, <3>2 DEF Holds
    <3>3. CASE LeaseRunsOut(e)
      <4>1. /\ push' = [push EXCEPT ![e] = IF push[e] = "accepted" THEN "unsure" ELSE push[e]]
            /\ overrun' = overrun \cup {p \in Processes : /\ sender[p].delivery = e
                                                          /\ sender[p].token = delivery[e].token}
        BY <3>3 DEF LeaseRunsOut
      <4>2. e # d
        BY <1>0, <4>1
      <4>3. push'[d] = push[d]
        BY <1>0, <4>1, <4>2
      <4> QED BY <2>0, <3>1, <4>1, <4>2, <4>3 DEF Holds
    <3> QED BY <2>4, <3>2, <3>3 DEF AttemptDue, DeliveryExpires
  <2> QED BY <1>3, <2>1, <2>2, <2>3, <2>4 DEF WorldNext, NoteNext, TimeNext
<1>4. ASSUME NEW p \in Processes, SendNext(p) \/ Boot(p) \/ Crash(p) \/ Begin(p) \/ End(p),
             push'[d] = push[d], ~Holds(p, d)
      PROVE  \E q \in Processes : Holds(q, d)'
  BY <1>0, <1>2, <1>4, HolderStays
<1>5. ASSUME NEW p \in Processes, Push(p)
      PROVE  \E q \in Processes : Holds(q, d)'
  <2>1. SendNext(p) /\ ~Holds(p, d)
    BY <1>5 DEF SendNext, Push, Holds
  <2>2. CASE push'[d] = push[d]
    BY <1>4, <2>1, <2>2
  <2>3. CASE push'[d] # push[d]
    <3>1. /\ sender[p].delivery = d /\ sender[p].pc = "send" /\ p \notin overrun
          /\ Goto(p, "accept") /\ UNCHANGED <<delivery, overrun>>
      BY <1>0, <1>5, <2>3 DEF Push, rows
    <3>2. delivery[d].token = sender[p].token
      BY <1>0, <3>1 DEF LeaseInv, LeaseProtects, Calling
    <3>3. /\ sender'[p].pc = "accept" /\ sender'[p].delivery = d
          /\ sender'[p].token = sender[p].token
      BY <1>0, <3>1 DEF Goto, Sender
    <3> QED BY <3>1, <3>2, <3>3 DEF Holds
  <2> QED BY <2>2, <2>3
<1>6. ASSUME NEW p \in Processes, AcceptFails(p) \/ Crash(p)
      PROVE  \E q \in Processes : Holds(q, d)'
  <2>1. Forget(p)
    BY <1>6 DEF AcceptFails, Crash
  <2>2. push'[d] = push[d] /\ ~Holds(p, d)
    BY <1>0, <2>1 DEF Forget, Holds
  <2> QED BY <1>4, <1>6, <2>2 DEF SendNext
<1>7. ASSUME NEW p \in Processes, Accept(p)
      PROVE  \E q \in Processes : Holds(q, d)'
  <2>1. push' = push
    BY <1>7 DEF Accept
  <2>2. ~Holds(p, d)
    <3> SUFFICES ASSUME Holds(p, d) PROVE FALSE
      OBVIOUS
    <3>1. delivery[d].token = sender[p].token /\ delivery[d].status = "PENDING"
      BY <1>0, HolderKnows DEF Holds
    <3>2. Finish(d, sender[p].token, "ACCEPTED", delivery[d].time)
      BY <1>7 DEF Accept, Holds
    <3>3. delivery'[d].status = "ACCEPTED"
      BY <1>0, <3>1, <3>2 DEF Finish, Row
    <3> QED BY <3>3
  <2> QED BY <1>4, <1>7, <2>1, <2>2 DEF SendNext
<1>8. ASSUME NEW p \in Processes,
             \/ \E e \in Deliveries : Claim(p, e) \/ ClaimLost(p, e)
             \/ Find(p) \/ PushFails(p) \/ Drop(p) \/ Retry(p) \/ DiscardRegistration(p)
             \/ StatementFails(p) \/ Boot(p) \/ Begin(p) \/ End(p)
      PROVE  \E q \in Processes : Holds(q, d)'
  <2>1. push' = push /\ sender[p].pc # "accept"
    BY <1>8 DEF Claim, ClaimLost, Find, PushFails, Drop, Retry, DiscardRegistration,
                StatementFails, Boot, Begin, End
  <2>2. SendNext(p) \/ Boot(p) \/ Begin(p) \/ End(p)
    BY <1>8 DEF SendNext
  <2> QED BY <1>4, <2>1, <2>2 DEF Holds
<1>9. CASE UNCHANGED deliveryVars
  BY <1>2, <1>9 DEF deliveryVars, rows, Holds
<1> QED
  BY <1>3, <1>5, <1>6, <1>7, <1>8, <1>9 DEF DeliveryNext, SendNext

\* What the push service accepted is sent again only if the acceptance may not
\* have been written.
THEOREM RepeatsAreExcused == DeliverySpec => []RepeatsExcused
<1>1. DeliveryInit => RepeatInv
  BY LeaseInit DEF DeliveryInit, RepeatInv, Accepted
<1>2. RepeatInv => RepeatsExcused
  <2> SUFFICES ASSUME RepeatInv, NEW p \in Processes, sender[p].pc = "send", p \notin overrun,
                      push[sender[p].delivery] = "accepted"
               PROVE  FALSE
    BY DEF RepeatsExcused
  <2>1. sender[p].pc \in Calling /\ LeaseInv
    BY DEF Calling, RepeatInv
  <2>2. /\ delivery[sender[p].delivery].token = sender[p].token
        /\ delivery[sender[p].delivery].status = "PENDING"
    BY <2>1 DEF LeaseInv, LeaseProtects
  <2>3. PICK q \in Processes : Holds(q, sender[p].delivery)
    BY <2>1, <2>2, SenderKnows DEF RepeatInv, Accepted
  <2>4. p = q
    BY <2>1, <2>2, <2>3, HolderKnows, SenderKnows DEF LeaseInv, TokensUnique, Holds
  <2> QED BY <2>3, <2>4 DEF Holds
<1> QED BY <1>1, <1>2, RepeatStep, PTL DEF DeliverySpec

-----------------------------------------------------------------------------
(* Bindings.                                                                 *)

\* A browser's binding version never falls behind that of a row, and a row of
\* the present binding is its owner's.
Bound ==
    \A d \in Deliveries :
      delivery[d].status # "NONE" =>
        /\ delivery[d].binding <= install[d[2]].binding
        /\ delivery[d].binding = install[d[2]].binding =>
             install[d[2]].account = Recipient[d[1]]

\* Nobody has proved a version of its MFA row that does not exist yet.
MfaBound ==
    \A i \in Installs :
      install[i].account \in Accounts => install[i].mfa <= auth[install[i].account].version

\* Why an ended registration is no target: its browser moved on, or it no
\* longer satisfies the look-up.
EndedStale ==
    \A d \in ended :
      /\ delivery[d].status # "NONE"
      /\ \/ delivery[d].binding < install[d[2]].binding
         \/ /\ delivery[d].binding = install[d[2]].binding
            /\ \/ ~install[d[2]].live
               \/ install[d[2]].mfa < auth[Recipient[d[1]]].version

\* A row is written by the transaction of its notification only.
Unwritten ==
    \A d \in Deliveries : note[d[1]] = "none" => delivery[d].status = "NONE"

BindingInv == DeliveryShape /\ Bound /\ MfaBound /\ EndedStale /\ Unwritten

\* Numbers that are compared.
LEMMA BindingNats ==
    ASSUME DeliveryTypeOK, NEW d \in Deliveries
    PROVE  /\ d[1] \in Notes /\ d[2] \in Installs /\ Recipient[d[1]] \in Accounts
           /\ delivery[d].binding \in Nat /\ install[d[2]].binding \in Nat
           /\ install[d[2]].mfa \in Nat /\ auth[Recipient[d[1]]].version \in Nat
<1>1. d[1] \in Notes /\ d[2] \in Installs
  BY DEF Deliveries
<1> QED BY <1>1, RecipientAssumption DEF DeliveryTypeOK, Row, Registration

\* Outside the transaction that writes it, a row keeps its binding, and is not
\* removed.
LEMMA RowsKeep ==
    ASSUME DeliveryShape, DeliveryNext, ~NoteNext, NEW d \in Deliveries
    PROVE  /\ delivery'[d].binding = delivery[d].binding
           /\ delivery'[d].status = "NONE" <=> delivery[d].status = "NONE"
<1>0. DeliveryTypeOK /\ delivery \in [Deliveries -> Row] /\ "NONE" \notin {"PENDING"} \cup Final
  BY DEF DeliveryShape, DeliveryTypeOK, Final
<1>1. CASE AccountNext \/ BrowserNext
  BY <1>0, <1>1, AccountMoves, BrowserMoves DEF AccountNext, BrowserNext
<1>2. CASE TimeNext
  BY <1>0, <1>2, TimeMoves DEF TimeNext
<1>3. ASSUME NEW p \in Processes, NEW e \in Deliveries, Claim(p, e) \/ ClaimLost(p, e)
      PROVE  /\ delivery'[d].binding = delivery[d].binding
             /\ delivery'[d].status = "NONE" <=> delivery[d].status = "NONE"
  BY <1>0, <1>3, ClaimRow
<1>4. ASSUME NEW p \in Processes,
             SendNext(p) \/ Boot(p) \/ Crash(p) \/ Begin(p) \/ End(p),
             \A e \in Deliveries : ~Claim(p, e) /\ ~ClaimLost(p, e)
      PROVE  /\ delivery'[d].binding = delivery[d].binding
             /\ delivery'[d].status = "NONE" <=> delivery[d].status = "NONE"
  <2>1. \/ delivery' = delivery
        \/ /\ sender[p].delivery \in Deliveries
           /\ \E status \in {"PENDING"} \cup Final, time \in {"later", "due", "expired"} :
                Finish(sender[p].delivery, sender[p].token, status, time)
    BY <1>4, SendRow DEF DeliveryShape, SenderShape
  <2>2. CASE delivery' = delivery
    BY <2>2
  <2>3. CASE delivery' # delivery
    <3>1. PICK status \in {"PENDING"} \cup Final, time \in {"later", "due", "expired"} :
            Finish(sender[p].delivery, sender[p].token, status, time)
      BY <2>1, <2>3
    <3> DEFINE c == sender[p].delivery
    <3>2. /\ delivery' \in [Deliveries -> Row]
          /\ \A e \in Deliveries : e # c => delivery'[e] = delivery[e]
          /\ \/ delivery'[c] = delivery[c]
             \/ /\ delivery[c].token = sender[p].token /\ delivery[c].status = "PENDING"
                /\ delivery'[c].status = status /\ delivery'[c].time = time
                /\ delivery'[c].binding = delivery[c].binding
                /\ delivery'[c].token = NoToken /\ delivery'[c].over = FALSE
          /\ delivery[c].token = sender[p].token /\ delivery[c].status = "PENDING"
             => delivery'[c].status = status
      <4>1. delivery \in [Deliveries -> Row] /\ c \in Deliveries
        BY <1>0, <2>1, <2>3
      <4>2. Finish(c, sender[p].token, status, time)
        BY <3>1
      <4> HIDE DEF c
      <4> QED BY <4>1, <4>2, FinishRow, ZenonT(60)
    <3> HIDE DEF c
    <3> QED BY <1>0, <3>2
  <2> QED BY <2>2, <2>3
<1> QED
  BY <1>1, <1>2, <1>3, <1>4 DEF DeliveryNext, WorldNext

LEMMA BindingStep ==
    ASSUME BindingInv, [DeliveryNext]_deliveryVars
    PROVE  BindingInv'
<1>0. /\ DeliveryShape /\ DeliveryTypeOK /\ DeliveryShape' /\ DeliveryTypeOK'
      /\ Bound /\ MfaBound /\ EndedStale /\ Unwritten /\ ended \subseteq Deliveries
  BY ShapeStep DEF BindingInv, DeliveryShape, DeliveryTypeOK
<1> DEFINE Kept == \A d \in Deliveries :
                     /\ delivery'[d].binding = delivery[d].binding
                     /\ delivery'[d].status = "NONE" <=> delivery[d].status = "NONE"
<1>1. ASSUME UNCHANGED <<auth, install, note, ended>>, Kept
      PROVE  BindingInv'
  BY <1>0, <1>1 DEF BindingInv, Bound, MfaBound, EndedStale, Unwritten
<1>2. ASSUME NEW a \in Accounts, ConfirmMfa(a) \/ ResetMfa(a) \/ ChangeAccess(a)
      PROVE  BindingInv'
  <2>1. /\ \A b \in Accounts \ {a} : auth'[b] = auth[b]
        /\ \/ auth'[a].version = auth[a].version /\ ended' = ended
           \/ /\ auth'[a].version = auth[a].version + 1
              /\ ended' = ended \cup Written(To(a))
        /\ UNCHANGED <<install, note, delivery>>
    BY <1>0, <1>2, AccountMoves
  <2>2. \A b \in Accounts : auth[b].version \in Nat /\ auth'[b].version >= auth[b].version
    BY <1>0, <2>1 DEF DeliveryTypeOK
  <2>3. Bound'
    BY <1>0, <2>1 DEF Bound
  <2>4. MfaBound'
    BY <1>0, <2>1, <2>2 DEF MfaBound, DeliveryTypeOK, Registration
  <2>5. EndedStale'
    <3> SUFFICES ASSUME NEW d \in ended'
                 PROVE  /\ delivery[d].status # "NONE"
                        /\ \/ delivery[d].binding < install[d[2]].binding
                           \/ /\ delivery[d].binding = install[d[2]].binding
                              /\ \/ ~install[d[2]].live
                                 \/ install[d[2]].mfa < auth'[Recipient[d[1]]].version
      BY <2>1 DEF EndedStale
    <3>1. CASE d \in ended
      <4>1. /\ d \in Deliveries /\ install[d[2]].mfa \in Nat
            /\ Recipient[d[1]] \in Accounts
        BY <1>0, <3>1, BindingNats
      <4>2. /\ auth[Recipient[d[1]]].version \in Nat
            /\ auth'[Recipient[d[1]]].version \in Nat
            /\ auth'[Recipient[d[1]]].version >= auth[Recipient[d[1]]].version
        BY <1>0, <2>2, <4>1 DEF DeliveryTypeOK
      <4> QED BY <1>0, <3>1, <4>1, <4>2 DEF EndedStale
    <3>2. CASE d \notin ended
      <4>1. /\ d \in Deliveries /\ Recipient[d[1]] = a /\ delivery[d].status # "NONE"
            /\ auth'[a].version = auth[a].version + 1
        BY <2>1, <3>2 DEF Written, To
      <4>2. /\ delivery[d].binding \in Nat /\ install[d[2]].binding \in Nat
            /\ install[d[2]].mfa \in Nat /\ auth[a].version \in Nat
            /\ d[2] \in Installs
        BY <1>0, <4>1, BindingNats
      <4>3. delivery[d].binding <= install[d[2]].binding
        BY <1>0, <4>1 DEF Bound
      <4>4. CASE delivery[d].binding = install[d[2]].binding
        <5>1. install[d[2]].account = a
          BY <1>0, <4>1, <4>4 DEF Bound
        <5>2. install[d[2]].mfa <= auth[a].version
          BY <1>0, <4>2, <5>1 DEF MfaBound
        <5> QED BY <4>1, <4>2, <4>4, <5>2
      <4> QED BY <4>1, <4>2, <4>3, <4>4
    <3> QED BY <3>1, <3>2
  <2>6. Unwritten'
    BY <1>0, <2>1 DEF Unwritten
  <2> QED BY <1>0, <2>3, <2>4, <2>5, <2>6 DEF BindingInv
<1>3. ASSUME NEW i \in Installs, NEW a,
             \/ /\ install'[i].binding = install[i].binding + 1
                /\ ended' \in {ended, ended \cup Written(On(i))}
                /\ \/ /\ install'[i].account = install[i].account
                      /\ install'[i].mfa = install[i].mfa
                   \/ /\ a \in Accounts /\ install'[i].account = a
                      /\ install'[i].mfa = auth[a].version
             \/ /\ Refresh(i, a) /\ ended' = ended
                /\ install'[i].binding = install[i].binding
                /\ install'[i].account = install[i].account
                /\ install'[i].mfa = install[i].mfa
             \/ /\ ended' = ended \cup Written(On(i))
                /\ install'[i].binding = install[i].binding
                /\ install'[i].account = install[i].account
                /\ install'[i].mfa = install[i].mfa
                /\ ~install'[i].live,
             \A j \in Installs \ {i} : install'[j] = install[j],
             UNCHANGED <<auth, note, delivery>>
      PROVE  BindingInv'
  <2>1. \A j \in Installs : install[j].binding \in Nat /\ install[j].mfa \in Nat
    BY <1>0 DEF DeliveryTypeOK, Registration
  <2>2. \A b \in Accounts : auth[b].version \in Nat
    BY <1>0 DEF DeliveryTypeOK
  <2>3. Bound'
    <3> SUFFICES ASSUME NEW d \in Deliveries, delivery[d].status # "NONE"
                 PROVE  /\ delivery[d].binding <= install'[d[2]].binding
                        /\ delivery[d].binding = install'[d[2]].binding =>
                             install'[d[2]].account = Recipient[d[1]]
      BY <1>3 DEF Bound
    <3>1. d[2] \in Installs /\ delivery[d].binding \in Nat
      BY <1>0, BindingNats
    <3> QED BY <1>0, <1>3, <2>1, <3>1 DEF Bound
  <2>4. MfaBound'
    BY <1>0, <1>3, <2>2 DEF MfaBound
  <2>5. EndedStale'
    <3> SUFFICES ASSUME NEW d \in ended'
                 PROVE  /\ delivery[d].status # "NONE"
                        /\ \/ delivery[d].binding < install'[d[2]].binding
                           \/ /\ delivery[d].binding = install'[d[2]].binding
                              /\ \/ ~install'[d[2]].live
                                 \/ install'[d[2]].mfa < auth[Recipient[d[1]]].version
      BY <1>3 DEF EndedStale
    <3>1. d \in Deliveries /\ delivery[d].status # "NONE"
      BY <1>0, <1>3 DEF EndedStale, Written, On
    <3>2. d[2] \in Installs /\ delivery[d].binding \in Nat
      BY <1>0, <3>1, BindingNats
    <3>3. CASE d[2] # i
      <4>1. d \in ended /\ install'[d[2]] = install[d[2]]
        BY <1>3, <3>2, <3>3 DEF Written, On
      <4> QED BY <1>0, <3>1, <4>1 DEF EndedStale
    <3>4. CASE d[2] = i
      <4>1. delivery[d].binding <= install[i].binding
        BY <1>0, <3>1, <3>4 DEF Bound
      <4>2. CASE install'[i].binding = install[i].binding + 1
        BY <2>1, <3>1, <3>2, <3>4, <4>1, <4>2
      <4>3. CASE ~install'[i].live /\ install'[i].binding = install[i].binding
        BY <2>1, <3>1, <3>2, <3>4, <4>1, <4>3
      <4>4. CASE Refresh(i, a) /\ ended' = ended /\ install'[i].binding = install[i].binding
        <5>1. /\ install[i].account = a /\ install[i].mfa = auth[a].version
              /\ install[i].live
          BY <4>4 DEF Refresh
        <5>2. delivery[d].binding < install[i].binding
          <6> SUFFICES ASSUME delivery[d].binding = install[i].binding
                       PROVE  FALSE
            BY <1>0, <3>4, <4>4 DEF EndedStale
          <6>1. Recipient[d[1]] = a /\ a \in Accounts
            BY <1>0, <3>1, <3>4, <5>1, BindingNats DEF Bound
          <6>2. install[i].mfa < auth[a].version
            BY <1>0, <2>1, <3>2, <3>4, <4>4, <5>1, <6>1 DEF EndedStale
          <6> QED BY <2>2, <5>1, <6>1, <6>2
        <5> QED BY <3>1, <3>4, <4>4, <5>2
      <4> QED BY <1>3, <4>2, <4>3, <4>4
    <3> QED BY <3>3, <3>4
  <2>6. Unwritten'
    BY <1>0, <1>3 DEF Unwritten
  <2> QED BY <1>0, <2>3, <2>4, <2>5, <2>6 DEF BindingInv
<1>4. CASE BrowserNext
  <2>1. PICK i, a :
          /\ i \in Installs
          /\ (a \in Accounts /\ Register(i, a)) \/ Release(i, a) \/ SessionExpires(i)
    BY <1>4 DEF BrowserNext
  <2> QED BY <1>0, <1>3, <2>1, BrowserMoves
<1>5. ASSUME NEW n \in Notes, Record(n) \/ Commit(n) \/ Rollback(n)
      PROVE  BindingInv'
  <2>0. UNCHANGED <<auth, install>>
    BY <1>0, <1>5, NoteMoves
  <2>1. ASSUME NEW d \in Deliveries
        PROVE  \/ /\ delivery'[d] = delivery[d] /\ (d \in ended' => d \in ended)
                  /\ note'[d[1]] = "none" => note[d[1]] = "none"
               \/ delivery'[d].status = "NONE" /\ d \notin ended'
               \/ /\ delivery'[d].status = "PENDING" /\ Receives(d)
                  /\ note'[d[1]] # "none"
                  /\ delivery'[d].binding = install[d[2]].binding
                  /\ d \in ended' => install[d[2]].mfa # auth[Recipient[d[1]]].version
    <3>1. d[1] \in Notes /\ note \in [Notes -> {"none", "open", "recorded"}]
      BY <1>0, BindingNats DEF DeliveryTypeOK
    <3>2. CASE Record(n)
      <4> DEFINE written == {e \in Deliveries : e[1] = n /\ Receives(e)}
                 r == [NoRow EXCEPT !.status = "PENDING", !.binding = install[d[2]].binding]
      <4>1. /\ note[n] = "none" /\ note' = [note EXCEPT ![n] = "open"]
            /\ ended' = ended \cup {e \in written : install[e[2]].mfa # auth[Recipient[n]].version}
        BY <3>2 DEF Record
      <4>2. delivery'[d] = IF d \in written THEN r ELSE delivery[d]
        BY <3>2 DEF Record
      <4>3. r.status = "PENDING" /\ r.binding = install[d[2]].binding
        BY DEF NoRow
      <4>4. CASE d \notin written
        BY <3>1, <4>1, <4>2, <4>4
      <4>5. CASE d \in written
        <5>1. d \notin ended
          BY <1>0, <4>1, <4>5 DEF Unwritten, EndedStale
        <5>2. Receives(d) /\ d[1] = n
          BY <4>5
        <5> HIDE DEF r
        <5> QED BY <3>1, <4>1, <4>2, <4>3, <4>5, <5>1, <5>2
      <4> QED BY <4>4, <4>5
    <3>3. CASE Commit(n)
      BY <3>1, <3>3 DEF Commit
    <3>4. CASE Rollback(n)
      <4>1. NoRow.status = "NONE"
        BY DEF NoRow
      <4> QED BY <3>1, <3>4, <4>1 DEF Rollback
    <3> QED BY <1>5, <3>2, <3>3, <3>4
  <2>2. ASSUME NEW d \in Deliveries, Receives(d)
        PROVE  /\ install[d[2]].account = Recipient[d[1]]
               /\ install[d[2]].mfa <= auth[Recipient[d[1]]].version
    BY <1>0, <2>2, BindingNats DEF Receives, MfaBound
  <2>3. Bound'
    BY <1>0, <2>0, <2>1, <2>2, BindingNats DEF Bound
  <2>4. MfaBound'
    BY <1>0, <2>0 DEF MfaBound
  <2>5. EndedStale'
    <3> SUFFICES ASSUME NEW d \in ended'
                 PROVE  /\ delivery'[d].status # "NONE"
                        /\ \/ delivery'[d].binding < install[d[2]].binding
                           \/ /\ delivery'[d].binding = install[d[2]].binding
                              /\ \/ ~install[d[2]].live
                                 \/ install[d[2]].mfa < auth[Recipient[d[1]]].version
      BY <2>0 DEF EndedStale
    <3>1. d \in Deliveries
      BY <1>0 DEF DeliveryTypeOK
    <3>2. CASE delivery'[d] = delivery[d] /\ d \in ended
      BY <1>0, <3>2 DEF EndedStale
    <3>3. CASE /\ delivery'[d].status = "PENDING" /\ Receives(d)
               /\ delivery'[d].binding = install[d[2]].binding
               /\ install[d[2]].mfa # auth[Recipient[d[1]]].version
      BY <1>0, <2>2, <3>1, <3>3, BindingNats
    <3> QED BY <2>1, <3>1, <3>2, <3>3
  <2>6. Unwritten'
    BY <1>0, <2>1 DEF Unwritten
  <2> QED BY <1>0, <2>3, <2>4, <2>5, <2>6 DEF BindingInv
<1>6. CASE TimeNext
  <2>1. UNCHANGED <<auth, install, note, ended>>
    BY <1>0, <1>6, TimeMoves DEF TimeNext
  <2>2. Kept
    BY <1>0, <1>6, TimeMoves DEF TimeNext
  <2> QED BY <1>1, <2>1, <2>2
<1>7. ASSUME NEW p \in Processes, SendNext(p) \/ Boot(p) \/ Crash(p) \/ Begin(p) \/ End(p),
             ~NoteNext
      PROVE  BindingInv'
  <2>1. Kept
    BY <1>0, <1>7, RowsKeep DEF DeliveryNext
  <2>2. UNCHANGED <<auth, note>>
    <3>1. CASE \E d \in Deliveries : Claim(p, d) \/ ClaimLost(p, d)
      BY <3>1 DEF Claim, ClaimLost, sendOnly
    <3>2. CASE \A d \in Deliveries : ~Claim(p, d) /\ ~ClaimLost(p, d)
      BY <1>0, <1>7, <3>2, SendRow
    <3> QED BY <3>1, <3>2
  <2>3. CASE UNCHANGED <<install, ended>>
    BY <1>1, <2>1, <2>2, <2>3
  <2>4. ASSUME NEW d \in Deliveries, Disable(d[2]), ended' = ended \cup Written(On(d[2])),
               delivery' = delivery
        PROVE  BindingInv'
    <3>1. d[2] \in Installs
      BY DEF Deliveries
    <3> QED BY <1>0, <1>3, <2>2, <2>4, <3>1, Disabled
  <2> QED BY <1>0, <1>7, <2>3, <2>4, SendWorld
<1>8. CASE UNCHANGED deliveryVars
  BY <1>1, <1>8 DEF deliveryVars, rows
<1> QED
  BY <1>2, <1>4, <1>5, <1>6, <1>7, <1>8
     DEF DeliveryNext, WorldNext, AccountNext, NoteNext

LEMMA BindingInit == DeliveryInit => BindingInv
<1> SUFFICES ASSUME DeliveryInit PROVE BindingInv
  OBVIOUS
<1>1. DeliveryShape
  BY ShapeInit
<1>2. Bound /\ EndedStale /\ Unwritten
  BY DEF DeliveryInit, NoRow, Bound, EndedStale, Unwritten
<1>3. MfaBound
  BY NoneAssumption DEF DeliveryInit, NoInstall, MfaBound
<1> QED BY <1>1, <1>2, <1>3 DEF BindingInv

\* As long as the binding version of a delivery is the browser's, the browser
\* belongs to the recipient.
THEOREM BindingsMeanOwners == DeliverySpec => []BindingMeansOwner
<1>1. BindingInv => BindingMeansOwner
  BY DEF BindingInv, Bound, BindingMeansOwner
<1> QED BY <1>1, BindingInit, BindingStep, PTL DEF DeliverySpec

\* Once the registration a delivery was written for has ended, no later one
\* of that browser makes it a target again.
THEOREM EndedStaysEnded == DeliverySpec => []NeverRevived
<1>1. BindingInv => NeverRevived
  <2> SUFFICES ASSUME BindingInv, NEW d \in ended, Stands(d)
               PROVE  FALSE
    BY DEF NeverRevived
  <2>1. d \in Deliveries /\ DeliveryTypeOK
    BY DEF BindingInv, DeliveryShape, DeliveryTypeOK
  <2> QED BY <2>1, BindingNats DEF BindingInv, EndedStale, Stands
<1> QED BY <1>1, BindingInit, BindingStep, PTL DEF DeliverySpec

-----------------------------------------------------------------------------
(* The outbox: NotificationDelivery implements Outbox.                       *)

\* A sender deals with a delivery that is there for good, and knows of the
\* push whose acceptance it is about to write.
InHand ==
    \A p \in Processes :
      sender[p].pc \in Calling =>
        LET d == sender[p].delivery IN
        /\ note[d[1]] = "recorded" /\ delivery[d].status # "NONE"
        /\ sender[p].pc = "accept" => push[d] # "none"

BoxInv == DeliveryShape /\ InHand

\* Only a push makes a delivery one that was pushed.
LEMMA PushMoves ==
    ASSUME DeliveryShape, DeliveryNext, \A p \in Processes : ~Push(p), NEW d \in Deliveries
    PROVE  push'[d] = "none" <=> push[d] = "none"
<1>0. DeliveryTypeOK /\ push \in [Deliveries -> {"none", "accepted", "unsure"}]
  BY DEF DeliveryShape, DeliveryTypeOK
<1>1. CASE AccountNext \/ BrowserNext \/ NoteNext
  BY <1>0, <1>1, AccountMoves, BrowserMoves, NoteMoves DEF AccountNext, BrowserNext, NoteNext
<1>2. CASE TimeNext
  BY <1>0, <1>2 DEF TimeNext, AttemptDue, DeliveryExpires, LeaseRunsOut
<1>3. ASSUME NEW p \in Processes, SendNext(p) \/ Boot(p) \/ Crash(p) \/ Begin(p) \/ End(p)
      PROVE  push'[d] = "none" <=> push[d] = "none"
  <2>1. push' = push \/ Forget(p)
    BY <1>3 DEF SendNext, Claim, ClaimLost, Find, PushFails, Drop, Accept, AcceptFails, Retry,
                DiscardRegistration, StatementFails, Boot, Crash, Begin, End
  <2> QED BY <1>0, <2>1 DEF Forget
<1> QED BY <1>1, <1>2, <1>3 DEF DeliveryNext, WorldNext

\* What is committed stays committed and is not removed.
LEMMA RecordedStays ==
    ASSUME DeliveryShape, DeliveryNext, NEW d \in Deliveries,
           note[d[1]] = "recorded", delivery[d].status # "NONE"
    PROVE  note'[d[1]] = "recorded" /\ delivery'[d].status # "NONE"
<1>0. DeliveryTypeOK /\ note \in [Notes -> {"none", "open", "recorded"}] /\ d[1] \in Notes
  BY DEF DeliveryShape, DeliveryTypeOK, Deliveries
<1>1. CASE NoteNext
  <2>1. PICK n \in Notes : Record(n) \/ Commit(n) \/ Rollback(n)
    BY <1>1 DEF NoteNext
  <2>2. n # d[1]
    BY <2>1 DEF Record, Commit, Rollback
  <2> QED BY <1>0, <2>1, <2>2, NoteMoves
<1>2. CASE ~NoteNext
  <2>1. delivery'[d].status # "NONE"
    BY <1>2, RowsKeep
  <2>2. CASE AccountNext \/ BrowserNext
    BY <1>0, <2>1, <2>2, AccountMoves, BrowserMoves DEF AccountNext, BrowserNext
  <2>3. CASE TimeNext
    BY <1>0, <2>1, <2>3, TimeMoves DEF TimeNext
  <2>4. ASSUME NEW p \in Processes, SendNext(p) \/ Boot(p) \/ Crash(p) \/ Begin(p) \/ End(p)
        PROVE  note' = note
    <3>1. CASE \E e \in Deliveries : Claim(p, e) \/ ClaimLost(p, e)
      BY <3>1 DEF Claim, ClaimLost, sendOnly
    <3>2. CASE \A e \in Deliveries : ~Claim(p, e) /\ ~ClaimLost(p, e)
      BY <2>4, <3>2, SendRow
    <3> QED BY <3>1, <3>2
  <2> QED BY <1>2, <2>1, <2>2, <2>3, <2>4 DEF DeliveryNext, WorldNext
<1> QED BY <1>1, <1>2

LEMMA BoxInvInit == DeliveryInit => BoxInv
<1> SUFFICES ASSUME DeliveryInit PROVE BoxInv
  OBVIOUS
<1>1. \A p \in Processes : sender[p].pc \notin Calling
  BY DEF DeliveryInit, Off, Calling
<1> QED BY <1>1, ShapeInit DEF BoxInv, InHand

LEMMA BoxInvStep ==
    ASSUME BoxInv, [DeliveryNext]_deliveryVars
    PROVE  BoxInv'
<1>0. DeliveryShape /\ DeliveryShape' /\ InHand /\ DeliveryTypeOK
  BY ShapeStep DEF BoxInv, DeliveryShape
<1>1. CASE UNCHANGED deliveryVars
  <2>1. InHand'
    BY <1>0, <1>1 DEF InHand, deliveryVars, rows
  <2> QED BY <1>0, <2>1 DEF BoxInv
<1>2. CASE DeliveryNext
  <2> SUFFICES ASSUME NEW p \in Processes, sender'[p].pc \in Calling
               PROVE  LET d == sender'[p].delivery IN
                      /\ note'[d[1]] = "recorded" /\ delivery'[d].status # "NONE"
                      /\ sender'[p].pc = "accept" => push'[d] # "none"
    BY <1>0 DEF BoxInv, InHand
  <2>1. \A d \in Deliveries : push[d] # "none" => push'[d] # "none"
    <3>1. CASE \A q \in Processes : ~Push(q)
      BY <1>0, <1>2, <3>1, PushMoves
    <3>2. CASE \E q \in Processes : Push(q)
      <4>1. push \in [Deliveries -> {"none", "accepted", "unsure"}]
        BY <1>0 DEF DeliveryTypeOK
      <4> QED BY <3>2, <4>1 DEF Push
    <3> QED BY <3>1, <3>2
  <2>2. CASE sender'[p] = sender[p]
    <3>1. sender[p].delivery \in Deliveries
      BY <1>0, <2>2 DEF DeliveryShape, SenderShape
    <3> QED BY <1>0, <1>2, <2>1, <2>2, <3>1, RecordedStays DEF InHand
  <2>3. CASE sender'[p] # sender[p]
    <3>1. PICK q \in Processes : SendNext(q) \/ Boot(q) \/ Crash(q) \/ Begin(q) \/ End(q)
      <4>1. WorldNext => sender' = sender
        BY <1>0, AccountMoves, BrowserMoves, NoteMoves, TimeMoves
           DEF WorldNext, AccountNext, BrowserNext, NoteNext, TimeNext
      <4> QED BY <1>2, <2>3, <4>1 DEF DeliveryNext
    <3>2. CASE \E e \in Deliveries : Claim(q, e) \/ ClaimLost(q, e)
      <4>1. PICK e \in Deliveries : Claim(q, e) \/ ClaimLost(q, e)
        BY <3>2
      <4>2. /\ note[e[1]] = "recorded" /\ delivery'[e].status = "PENDING"
            /\ \A r \in Processes : r # q => sender'[r] = sender[r]
            /\ \/ sender'[q].pc = "find" /\ sender'[q].delivery = e
               \/ sender'[q].pc = "broken"
        BY <1>0, <4>1, ClaimRow, ZenonT(30)
      <4>3. p = q /\ sender'[p].pc = "find" /\ sender'[p].delivery = e
        BY <2>3, <4>2 DEF Calling
      <4>4. note' = note
        BY <4>1 DEF Claim, ClaimLost, sendOnly
      <4> QED BY <4>2, <4>3, <4>4
    <3>3. CASE \A e \in Deliveries : ~Claim(q, e) /\ ~ClaimLost(q, e)
      <4>1. /\ \A r \in Processes : r # q => sender'[r] = sender[r]
            /\ sender'[q].pc \in Calling =>
                 /\ sender[q].pc \in Calling \ {"retry"}
                 /\ sender'[q].delivery = sender[q].delivery
        BY <1>0, <3>1, <3>3, SendRow
      <4>2. /\ p = q /\ sender[p].pc \in Calling
            /\ sender'[p].delivery = sender[p].delivery
        BY <2>3, <4>1
      <4>3. sender[p].delivery \in Deliveries
        BY <1>0, <4>2 DEF DeliveryShape, SenderShape
      <4>4. ASSUME sender'[p].pc = "accept" PROVE push'[sender[p].delivery] # "none"
        <5>1. Push(p)
          <6>1. sender \in [Processes -> Sender]
            BY <1>0 DEF DeliveryTypeOK
          <6>2. ASSUME NEW pc, Goto(p, pc) \/ Becomes(p, pc) PROVE sender'[p].pc = pc
            BY <6>1, <6>2 DEF Goto, Becomes, Sender, Off
          <6>3. Served(p) => sender'[p].pc = "claim"
            BY <6>1 DEF Served, Off
          <6>4. CASE Find(p) \/ PushFails(p) \/ AcceptFails(p)
            BY <4>4, <6>2, <6>4 DEF Find, PushFails, AcceptFails
          <6>5. CASE Drop(p) \/ Accept(p) \/ Retry(p)
            BY <4>4, <6>2, <6>3, <6>5 DEF Drop, Accept, Retry, Breaks
          <6>6. CASE DiscardRegistration(p) \/ StatementFails(p)
            BY <4>4, <6>2, <6>6 DEF DiscardRegistration, StatementFails, Breaks
          <6>7. CASE Boot(p) \/ Crash(p) \/ Begin(p) \/ End(p)
            BY <4>4, <6>2, <6>7 DEF Boot, Crash, Begin, End
          <6> QED BY <3>1, <3>3, <4>2, <6>4, <6>5, <6>6, <6>7 DEF SendNext
        <5>2. push \in [Deliveries -> {"none", "accepted", "unsure"}]
          BY <1>0 DEF DeliveryTypeOK
        <5> QED BY <4>3, <5>1, <5>2 DEF Push
      <4>5. note'[sender[p].delivery[1]] = "recorded" /\ delivery'[sender[p].delivery].status # "NONE"
        BY <1>0, <1>2, <4>2, <4>3, RecordedStays DEF InHand
      <4> QED BY <4>2, <4>4, <4>5
    <3> QED BY <3>2, <3>3
  <2> QED BY <2>2, <2>3
<1> QED BY <1>1, <1>2

-----------------------------------------------------------------------------
(* Each step, as the abstract outbox sees it.                                *)

LEMMA StatesKept ==
    ASSUME \A d \in Deliveries : delivery'[d].status = delivery[d].status,
           \A d \in Deliveries : push'[d] = "none" <=> push[d] = "none",
           note' = note
    PROVE  UNCHANGED Box!outboxVars
BY DEF Box!outboxVars

LEMMA NoteBox ==
    ASSUME DeliveryShape, NEW n \in Notes, Record(n) \/ Commit(n) \/ Rollback(n)
    PROVE  Box!OutboxNext
<1> DEFINE state == [d \in Deliveries |-> delivery[d].status]
           pushed == {d \in Deliveries : push[d] # "none"}
           of == [d \in Deliveries |-> d[1]]
<1>0. DeliveryTypeOK /\ push' = push /\ (pushed)' = pushed
  BY NoteMoves DEF DeliveryShape
<1>1. CASE Record(n)
  <2> PICK M \in SUBSET Deliveries : M = {d \in Deliveries : d[1] = n /\ Receives(d)}
    OBVIOUS
  <2>1. /\ note[n] = "none" /\ note' = [note EXCEPT ![n] = "open"]
        /\ \A d \in Deliveries :
             delivery'[d].status = IF d \in M THEN "PENDING" ELSE delivery[d].status
    BY <1>1 DEF Record, NoRow
  <2>2. /\ \A d \in M : of[d] = n
        /\ (state)' = [d \in Deliveries |-> IF d \in M THEN "PENDING" ELSE state[d]]
    BY <2>1
  <2>3. Box!Write(n, M)
    BY <1>0, <2>1, <2>2 DEF Box!Write
  <2> QED BY <2>3 DEF Box!OutboxNext
<1>2. CASE Commit(n)
  <2>1. Box!CommitBatch(n)
    BY <1>0, <1>2 DEF Commit, Box!CommitBatch
  <2> QED BY <2>1 DEF Box!OutboxNext
<1>3. CASE Rollback(n)
  <2>1. \A d \in Deliveries :
          delivery'[d].status = IF d[1] = n THEN "NONE" ELSE delivery[d].status
    BY <1>3 DEF Rollback, NoRow
  <2>2. (state)' = [d \in Deliveries |-> IF of[d] = n THEN "NONE" ELSE state[d]]
    BY <2>1
  <2>3. Box!RollbackBatch(n)
    BY <1>0, <1>3, <2>2 DEF Rollback, Box!RollbackBatch
  <2> QED BY <2>3 DEF Box!OutboxNext
<1> QED BY <1>1, <1>2, <1>3

\* A process ends the delivery in its hand, as accepted only after its push.
LEMMA EndBox ==
    ASSUME BoxInv, NEW p \in Processes, sender[p].pc \in Calling,
           NEW status \in {"PENDING"} \cup Final, NEW time \in {"later", "due", "expired"},
           Finish(sender[p].delivery, sender[p].token, status, time),
           status = "ACCEPTED" => sender[p].pc = "accept",
           UNCHANGED <<note, push>>
    PROVE  [Box!OutboxNext]_(Box!outboxVars)
<1>0. sender[p].delivery \in Deliveries
  BY DEF BoxInv, DeliveryShape, SenderShape
<1> PICK c \in Deliveries : c = sender[p].delivery
  BY <1>0
<1> PICK t : t = sender[p].token
  OBVIOUS
<1> DEFINE state == [d \in Deliveries |-> delivery[d].status]
<1>1. delivery \in [Deliveries -> Row]
  BY DEF BoxInv, DeliveryShape, DeliveryTypeOK
<1>2. /\ note[c[1]] = "recorded" /\ delivery[c].status # "NONE"
      /\ status = "ACCEPTED" => push[c] # "none"
  BY DEF BoxInv, InHand
<1>3. Finish(c, t, status, time)
  BY DEF Finish
<1>4. /\ \A e \in Deliveries : e # c => delivery'[e] = delivery[e]
      /\ \/ delivery'[c] = delivery[c]
         \/ delivery[c].status = "PENDING" /\ delivery'[c].status = status
  <2> DEFINE r == [delivery[c] EXCEPT !.status = status, !.time = time,
                                      !.token = NoToken, !.over = FALSE]
  <2>1. r.status = status
    BY <1>1 DEF Row
  <2>2. delivery[c].token = t /\ delivery[c].status = "PENDING"
        => delivery' = [delivery EXCEPT ![c] = r]
    BY <1>3 DEF Finish
  <2>3. ~(delivery[c].token = t /\ delivery[c].status = "PENDING") => delivery' = delivery
    BY <1>3 DEF Finish
  <2> HIDE DEF r
  <2> QED BY <1>1, <2>1, <2>2, <2>3
<1>5. CASE delivery'[c].status = delivery[c].status
  BY <1>4, <1>5, StatesKept
<1>6. CASE delivery'[c].status # delivery[c].status
  <2>1. delivery[c].status = "PENDING" /\ delivery'[c].status = status /\ status \in Box!Ends
    BY <1>4, <1>6 DEF Box!Ends, Final
  <2>2. (state)' = [state EXCEPT ![c] = status]
    BY <1>1, <1>4, <2>1
  <2>3. Box!EndMessage(c, status)
    BY <1>1, <1>2, <2>1, <2>2 DEF Box!EndMessage, Box!Committed
  <2> QED BY <1>1, <2>1, <2>3 DEF Box!OutboxNext
<1> QED BY <1>5, <1>6

LEMMA PushBox ==
    ASSUME BoxInv, NEW p \in Processes, Push(p)
    PROVE  Box!OutboxNext
<1> DEFINE pushed == {d \in Deliveries : push[d] # "none"}
<1>1. sender[p].pc \in Calling /\ sender[p].delivery \in Deliveries
  BY DEF Push, Calling, BoxInv, DeliveryShape, SenderShape
<1> PICK c \in Deliveries : c = sender[p].delivery
  BY <1>1
<1>2. /\ push \in [Deliveries -> {"none", "accepted", "unsure"}]
      /\ note[c[1]] = "recorded" /\ delivery[c].status # "NONE"
  BY <1>1 DEF BoxInv, InHand, DeliveryShape, DeliveryTypeOK
<1>3. /\ UNCHANGED <<note, delivery>>
      /\ \A d \in Deliveries : d # c => push'[d] = push[d]
      /\ push'[c] # "none"
  BY <1>2 DEF Push, rows
<1>4. (pushed)' = pushed \cup {c}
  BY <1>2, <1>3
<1>5. Box!PushMessage(c)
  BY <1>2, <1>3, <1>4 DEF Box!PushMessage, Box!Committed
<1> QED BY <1>5 DEF Box!OutboxNext

LEMMA BoxStep ==
    ASSUME BoxInv, [DeliveryNext]_deliveryVars
    PROVE  [Box!OutboxNext]_(Box!outboxVars)
<1>0. DeliveryShape /\ DeliveryTypeOK /\ delivery \in [Deliveries -> Row]
  BY DEF BoxInv, DeliveryShape, DeliveryTypeOK
<1>1. CASE UNCHANGED deliveryVars
  BY <1>1, StatesKept DEF deliveryVars, rows
<1>2. CASE AccountNext \/ BrowserNext
  <2>1. UNCHANGED <<delivery, note, push>>
    BY <1>0, <1>2, AccountMoves, BrowserMoves
       DEF AccountNext, BrowserNext, Register, Release, SessionExpires, worldOnly
  <2> QED BY <2>1, StatesKept
<1>3. CASE NoteNext
  BY <1>0, <1>3, NoteBox DEF NoteNext
<1>4. CASE TimeNext
  <2>1. DeliveryNext /\ \A p \in Processes : ~Push(p)
    <3>1. sender' = sender /\ sender \in [Processes -> Sender]
      BY <1>0, <1>4, TimeMoves DEF TimeNext, DeliveryTypeOK
    <3>2. \A p \in Processes : Push(p) => sender'[p].pc # sender[p].pc
      BY <3>1 DEF Push, Goto, Sender
    <3> QED BY <1>4, <3>1, <3>2 DEF DeliveryNext, WorldNext
  <2>2. /\ \A d \in Deliveries : delivery'[d].status = delivery[d].status
        /\ note' = note
    BY <1>0, <1>4, TimeMoves DEF TimeNext
  <2> QED BY <1>0, <2>1, <2>2, PushMoves, StatesKept
<1>5. ASSUME NEW p \in Processes, NEW e \in Deliveries, Claim(p, e) \/ ClaimLost(p, e)
      PROVE  [Box!OutboxNext]_(Box!outboxVars)
  <2>1. UNCHANGED <<note, push>>
    BY <1>5 DEF Claim, ClaimLost, sendOnly
  <2>2. \A d \in Deliveries : delivery'[d].status = delivery[d].status
    BY <1>0, <1>5, ClaimRow
  <2> QED BY <2>1, <2>2, StatesKept
<1>6. ASSUME NEW p \in Processes, Drop(p) \/ Accept(p) \/ Retry(p)
      PROVE  [Box!OutboxNext]_(Box!outboxVars)
  <2>1. sender[p].pc \in Calling /\ UNCHANGED <<note, push>>
    BY <1>6 DEF Drop, Accept, Retry, Calling, sendOnly
  <2>2. delivery[sender[p].delivery].time \in {"later", "due", "expired"}
    BY <1>0, <2>1 DEF DeliveryShape, SenderShape, Row
  <2>3. \E status \in {"PENDING"} \cup Final, time \in {"later", "due", "expired"} :
          /\ Finish(sender[p].delivery, sender[p].token, status, time)
          /\ status = "ACCEPTED" => sender[p].pc = "accept"
    BY <1>6, <2>2 DEF Drop, Accept, Retry, Final
  <2> QED BY <2>1, <2>3, EndBox
<1>7. ASSUME NEW p \in Processes, Push(p)
      PROVE  [Box!OutboxNext]_(Box!outboxVars)
  BY <1>7, PushBox
<1>8. ASSUME NEW p \in Processes,
             \/ Find(p) \/ PushFails(p) \/ AcceptFails(p) \/ DiscardRegistration(p)
             \/ StatementFails(p) \/ Boot(p) \/ Crash(p) \/ Begin(p) \/ End(p)
      PROVE  [Box!OutboxNext]_(Box!outboxVars)
  <2>1. UNCHANGED <<note, delivery>> /\ (push' = push \/ Forget(p))
    BY <1>8 DEF Find, PushFails, AcceptFails, DiscardRegistration, StatementFails, Boot, Crash,
                Begin, End, rows
  <2>2. \A d \in Deliveries : push'[d] = "none" <=> push[d] = "none"
    <3>1. push \in [Deliveries -> {"none", "accepted", "unsure"}]
      BY <1>0 DEF DeliveryTypeOK
    <3> QED BY <2>1, <3>1 DEF Forget
  <2> QED BY <2>1, <2>2, StatesKept
<1> QED
  BY <1>1, <1>2, <1>3, <1>4, <1>5, <1>6, <1>7, <1>8 DEF DeliveryNext, WorldNext, SendNext

LEMMA BoxInit == DeliveryInit => Box!OutboxInit
<1> SUFFICES ASSUME DeliveryInit PROVE Box!OutboxInit
  OBVIOUS
<1>1. \A d \in Deliveries : delivery[d].status = "NONE" /\ push[d] = "none"
  BY DEF DeliveryInit, NoRow
<1>2. note = [n \in Notes |-> "none"]
  BY DEF DeliveryInit
<1> QED BY <1>1, <1>2 DEF Box!OutboxInit

\* The deliveries are an outbox: none is pushed before its notification is
\* committed, none accepted that was not pushed, and each ends once.
THEOREM OutboxRefinement == DeliverySpec => ImplementsOutbox
<1> QED
  BY BoxInvInit, BoxInvStep, BoxInit, BoxStep, PTL
     DEF DeliverySpec, ImplementsOutbox, Box!OutboxSpec

-----------------------------------------------------------------------------
(* The dispatcher of a Console process uses the outbox through its           *)
(* operations only, runs one loop, loses no wake-up, and ends no loop with   *)
(* work left for the next minute.                                            *)

\* Every step is a step of the outbox, or none.
LEMMA DispatcherSteps ==
    ASSUME [DispatcherNext]_dispatcherVars
    PROVE  [DeliveryNext]_deliveryVars
<1>1. CASE WorldNext
  BY <1>1 DEF DeliveryNext
<1>2. ASSUME NEW p \in Processes, SendNext(p) \/ Start(p) \/ Die(p) \/ Run(p) \/ Finally(p)
      PROVE  [DeliveryNext]_deliveryVars
  BY <1>2 DEF DeliveryNext, Start, Die, Run, Finally
<1>3. ASSUME NEW p \in Processes, Wake(p)
      PROVE  UNCHANGED deliveryVars
  BY <1>3 DEF Wake
<1> QED BY <1>1, <1>2, <1>3 DEF DispatcherNext, dispatcherVars

\* The processes and their dispatchers together use the outbox through its
\* operations only.
THEOREM DispatcherUsesDelivery == DispatcherSpec => DeliverySpec
<1>1. DispatcherInit => DeliveryInit
  BY DEF DispatcherInit
<1> QED BY <1>1, DispatcherSteps, PTL DEF DispatcherSpec, DeliverySpec

-----------------------------------------------------------------------------

DispatcherInv == DeliveryShape /\ DispatcherTypeOK /\ OneLoop /\ WakeKept

\* A loop that deals with a delivery stays a loop.
LEMMA LoopsOn ==
    ASSUME DeliveryShape, NEW p \in Processes, SendNext(p)
    PROVE  /\ Running(p) /\ Running(p)'
           /\ \A q \in Processes : q # p => sender'[q] = sender[q]
<1>0. sender \in [Processes -> Sender]
  BY DEF DeliveryShape, DeliveryTypeOK
<1>1. CASE \E d \in Deliveries : Claim(p, d) \/ ClaimLost(p, d)
  BY <1>1, ClaimRow DEF Running
<1>2. CASE \A d \in Deliveries : ~Claim(p, d) /\ ~ClaimLost(p, d)
  <2>1. \A q \in Processes : q # p => sender'[q] = sender[q]
    BY <1>2, SendRow
  <2>2. Running(p)
    BY <1>2 DEF SendNext, Find, Push, PushFails, Drop, Accept, AcceptFails, Retry,
                DiscardRegistration, StatementFails, Running
  <2>3. \/ Served(p) \/ Breaks(p)
        \/ \E pc \in Calling : Goto(p, pc)
    BY <1>2 DEF SendNext, Find, Push, PushFails, Drop, Accept, AcceptFails, Retry,
                DiscardRegistration, StatementFails, Calling
  <2>4. sender'[p].pc \notin {"off", "idle"}
    <3>1. CASE Served(p) \/ Breaks(p)
      BY <1>0, <3>1 DEF Served, Breaks, Becomes, Off
    <3>2. CASE \E pc \in Calling : Goto(p, pc)
      BY <1>0, <3>2 DEF Goto, Calling, Sender
    <3> QED BY <2>3, <3>1, <3>2
  <2> QED BY <2>1, <2>2, <2>4 DEF Running
<1> QED BY <1>1, <1>2

\* The other steps of a process, where they leave it.
LEMMA ProcessMoves ==
    ASSUME DeliveryShape, NEW p \in Processes
    PROVE  /\ Boot(p) \/ End(p) => sender'[p].pc = "idle"
           /\ Crash(p) => sender'[p].pc = "off"
           /\ Begin(p) => sender'[p].pc = "claim"
           /\ Boot(p) \/ End(p) \/ Crash(p) \/ Begin(p) =>
                \A q \in Processes : q # p => sender'[q] = sender[q]
<1>0. sender \in [Processes -> Sender]
  BY DEF DeliveryShape, DeliveryTypeOK
<1> QED BY <1>0 DEF Boot, End, Crash, Begin, Becomes, Off

LEMMA DispatcherStep ==
    ASSUME DispatcherInv, [DispatcherNext]_dispatcherVars
    PROVE  DispatcherInv'
<1>0. /\ DeliveryShape /\ DeliveryShape' /\ DeliveryTypeOK' /\ OneLoop /\ WakeKept
      /\ timer \in [Processes -> {"none", "now", "later"}]
      /\ wakeRequested \in [Processes -> BOOLEAN] /\ asked \subseteq Processes
  BY ShapeStep, DispatcherSteps DEF DispatcherInv, DispatcherTypeOK, DeliveryShape
\* A process whose dispatcher is left alone.
<1> DEFINE Same(q) == /\ sender'[q].pc = sender[q].pc /\ timer'[q] = timer[q]
                      /\ wakeRequested'[q] = wakeRequested[q] /\ (q \in asked' => q \in asked)
           Right(q) == /\ (timer'[q] = "none") = (sender'[q].pc # "idle")
                       /\ q \in asked' => timer'[q] = "now" \/ (Running(q)' /\ wakeRequested'[q])
<1>1. ASSUME NEW q \in Processes, Same(q)
      PROVE  Right(q)
  BY <1>0, <1>1 DEF OneLoop, WakeKept, Running
<1>2. ASSUME DispatcherTypeOK', \A q \in Processes : Right(q)
      PROVE  DispatcherInv'
  BY <1>0, <1>2 DEF DispatcherInv, OneLoop, WakeKept, DispatcherTypeOK
<1>3. CASE WorldNext /\ UNCHANGED dispatchVars
  <2>1. sender' = sender
    <3>1. DeliveryTypeOK
      BY <1>0 DEF DeliveryShape
    <3> QED
      BY <1>3, <3>1, AccountMoves, BrowserMoves, NoteMoves, TimeMoves
         DEF WorldNext, AccountNext, BrowserNext, NoteNext, TimeNext
  <2> QED BY <1>0, <1>1, <1>2, <1>3, <2>1 DEF dispatchVars, DispatcherTypeOK
<1>4. ASSUME NEW p \in Processes, SendNext(p), UNCHANGED dispatchVars
      PROVE  DispatcherInv'
  <2>1. \A q \in Processes : Right(q)
    <3> SUFFICES ASSUME NEW q \in Processes PROVE Right(q)
      OBVIOUS
    <3>1. CASE q # p
      BY <1>0, <1>1, <1>4, <3>1, LoopsOn DEF dispatchVars
    <3>2. CASE q = p
      BY <1>0, <1>4, <3>2, LoopsOn DEF dispatchVars, OneLoop, WakeKept, Running
    <3> QED BY <3>1, <3>2
  <2> QED BY <1>0, <1>2, <1>4, <2>1 DEF dispatchVars, DispatcherTypeOK
<1>5. ASSUME NEW p \in Processes, Start(p)
      PROVE  DispatcherInv'
  <2>1. /\ sender'[p].pc = "idle" /\ timer'[p] = "now"
        /\ \A q \in Processes : q # p => sender'[q] = sender[q] /\ timer'[q] = timer[q]
        /\ wakeRequested' = wakeRequested /\ asked' = asked \cup {p}
    BY <1>0, <1>5, ProcessMoves DEF Start
  <2>2. DispatcherTypeOK'
    BY <1>0, <1>5 DEF Start, DispatcherTypeOK
  <2>3. Right(p)
    BY <2>1
  <2>4. \A q \in Processes : q # p => Right(q)
    BY <1>1, <2>1
  <2> QED BY <1>2, <2>2, <2>3, <2>4
<1>6. ASSUME NEW p \in Processes, Die(p)
      PROVE  DispatcherInv'
  <2>1. /\ sender'[p].pc = "off" /\ timer'[p] = "none"
        /\ \A q \in Processes : q # p => /\ sender'[q] = sender[q] /\ timer'[q] = timer[q]
                                         /\ wakeRequested'[q] = wakeRequested[q]
        /\ asked' = asked \ {p}
    BY <1>0, <1>6, ProcessMoves DEF Die
  <2>2. DispatcherTypeOK'
    BY <1>0, <1>6 DEF Die, DispatcherTypeOK
  <2>3. Right(p)
    BY <2>1
  <2>4. \A q \in Processes : q # p => Right(q)
    BY <1>1, <2>1
  <2> QED BY <1>2, <2>2, <2>3, <2>4
<1>7. ASSUME NEW p \in Processes, Wake(p)
      PROVE  DispatcherInv'
  <2>1. /\ sender' = sender /\ asked' = asked \cup {p} /\ sender[p].pc # "off"
        /\ \A q \in Processes : q # p => /\ timer'[q] = timer[q]
                                         /\ wakeRequested'[q] = wakeRequested[q]
    BY <1>0, <1>7 DEF Wake, deliveryVars
  <2>2. DispatcherTypeOK'
    BY <1>0, <1>7 DEF Wake, DispatcherTypeOK
  <2>3. Right(p)
    <3>1. CASE Running(p)
      <4>1. timer' = timer /\ wakeRequested'[p]
        BY <1>0, <1>7, <3>1 DEF Wake
      <4> QED BY <1>0, <2>1, <3>1, <4>1 DEF OneLoop, Running
    <3>2. CASE ~Running(p)
      <4>1. timer'[p] = "now"
        BY <1>0, <1>7, <3>2 DEF Wake
      <4>2. sender[p].pc = "idle"
        BY <2>1, <3>2 DEF Running
      <4> QED BY <2>1, <4>1, <4>2
    <3> QED BY <3>1, <3>2
  <2>4. \A q \in Processes : q # p => Right(q)
    BY <1>1, <2>1
  <2> QED BY <1>2, <2>2, <2>3, <2>4
<1>8. ASSUME NEW p \in Processes, Run(p)
      PROVE  DispatcherInv'
  <2>1. ~Running(p) /\ timer[p] # "none"
    BY <1>0, <1>8 DEF Run, OneLoop, Running
  <2>2. /\ Begin(p) /\ timer'[p] = "none" /\ asked' = asked \ {p}
        /\ \A q \in Processes : q # p => /\ timer'[q] = timer[q]
                                         /\ wakeRequested'[q] = wakeRequested[q]
    BY <1>0, <1>8, <2>1 DEF Run
  <2>3. DispatcherTypeOK'
    BY <1>0, <1>8 DEF Run, DispatcherTypeOK
  <2>4. Right(p)
    BY <1>0, <2>2, ProcessMoves
  <2>5. \A q \in Processes : q # p => Right(q)
    BY <1>0, <1>1, <2>2, ProcessMoves
  <2> QED BY <1>2, <2>3, <2>4, <2>5
<1>9. ASSUME NEW p \in Processes, Finally(p)
      PROVE  DispatcherInv'
  <2>1. /\ End(p) /\ asked' = asked /\ timer'[p] = (IF wakeRequested'[p] THEN "now" ELSE "later")
        /\ wakeRequested[p] => wakeRequested'[p]
        /\ \A q \in Processes : q # p => /\ timer'[q] = timer[q]
                                         /\ wakeRequested'[q] = wakeRequested[q]
    BY <1>0, <1>9 DEF Finally
  <2>2. wakeRequested' \in [Processes -> BOOLEAN]
    BY <1>0, <1>9 DEF Finally
  <2>3. DispatcherTypeOK'
    BY <1>0, <1>9, <2>1, <2>2 DEF Finally, DispatcherTypeOK
  <2>4. Right(p)
    <3>1. Running(p)
      BY <2>1 DEF End, Running
    <3>2. p \in asked => wakeRequested[p]
      BY <1>0, <3>1 DEF WakeKept, OneLoop, Running
    <3> QED BY <1>0, <2>1, <3>2, ProcessMoves
  <2>5. \A q \in Processes : q # p => Right(q)
    BY <1>0, <1>1, <2>1, ProcessMoves
  <2> QED BY <1>2, <2>3, <2>4, <2>5
<1>10. CASE UNCHANGED dispatcherVars
  <2>1. sender' = sender /\ UNCHANGED dispatchVars
    BY <1>10 DEF dispatcherVars, deliveryVars
  <2> QED BY <1>0, <1>1, <1>2, <2>1 DEF dispatchVars, DispatcherTypeOK
<1> QED
  BY <1>3, <1>4, <1>5, <1>6, <1>7, <1>8, <1>9, <1>10 DEF DispatcherNext

LEMMA DispatcherInitial == DispatcherInit => DispatcherInv
<1> SUFFICES ASSUME DispatcherInit PROVE DispatcherInv
  OBVIOUS
<1>1. DeliveryShape
  BY ShapeInit DEF DispatcherInit
<1>2. \A p \in Processes : sender[p].pc = "off"
  BY DEF DispatcherInit, DeliveryInit, Off
<1> QED
  BY <1>1, <1>2
     DEF DispatcherInit, DispatcherInv, DispatcherTypeOK, DeliveryShape, OneLoop, WakeKept

\* The dispatcher's own state keeps its types, beside the outbox.
THEOREM DispatcherTypeCorrect == DispatcherSpec => []DispatcherTypeOK
<1>1. DispatcherInv => DispatcherTypeOK
  BY DEF DispatcherInv
<1> QED BY <1>1, DispatcherInitial, DispatcherStep, PTL DEF DispatcherSpec

\* A process that is up has a timer or a running loop, and not both.
THEOREM OneLoopOnly == DispatcherSpec => []OneLoop
<1>1. DispatcherInv => OneLoop
  BY DEF DispatcherInv
<1> QED BY <1>1, DispatcherInitial, DispatcherStep, PTL DEF DispatcherSpec

\* A wake-up is answered by a run that begins after it, and that is at most
\* the present run away.
THEOREM WakesAreKept == DispatcherSpec => []WakeKept
<1>1. DispatcherInv => WakeKept
  BY DEF DispatcherInv
<1> QED BY <1>1, DispatcherInitial, DispatcherStep, PTL DEF DispatcherSpec

\* A loop that ends without an error leaves no delivery that is due to the
\* next minute.
THEOREM BacklogIsPrompt == DispatcherSpec => BacklogPrompt
<1>1. ASSUME DispatcherInv, [DispatcherNext]_dispatcherVars
      PROVE  [\A p \in Processes :
                sender[p].pc = "claim" /\ sender'[p].pc = "idle" /\ (\E d \in Deliveries : Due(d)) =>
                  timer'[p] = "now"]_dispatcherVars
  <2> SUFFICES ASSUME DispatcherNext, NEW p \in Processes, NEW d \in Deliveries, Due(d),
                      sender[p].pc = "claim", sender'[p].pc = "idle"
               PROVE  timer'[p] = "now"
    BY <1>1
  <2>0. /\ DeliveryShape /\ timer \in [Processes -> {"none", "now", "later"}]
        /\ wakeRequested \in [Processes -> BOOLEAN] /\ sender[p] # sender'[p]
    BY <1>1 DEF DispatcherInv, DispatcherTypeOK
  <2>1. ~WorldNext
    <3>1. DeliveryTypeOK
      BY <2>0 DEF DeliveryShape
    <3> QED
      BY <2>0, <3>1, AccountMoves, BrowserMoves, NoteMoves, TimeMoves
         DEF WorldNext, AccountNext, BrowserNext, NoteNext, TimeNext
  <2>2. PICK q \in Processes : SendNext(q) \/ Start(q) \/ Die(q) \/ Wake(q) \/ Run(q) \/ Finally(q)
    BY <2>1 DEF DispatcherNext
  <2>3. Finally(p)
    <3>1. ~SendNext(q)
      BY <2>0, LoopsOn DEF Running
    <3>2. ~Wake(q)
      BY <2>0 DEF Wake, deliveryVars
    <3>3. ~Run(q)
      BY <2>0, ProcessMoves DEF Run, deliveryVars
    <3>4. ~Die(q)
      BY <2>0, ProcessMoves DEF Die
    <3>5. ~Start(q)
      BY <2>0, ProcessMoves DEF Start, Boot
    <3> QED BY <2>0, <2>2, <3>1, <3>2, <3>3, <3>4, <3>5, ProcessMoves DEF Finally
  <2>4. Full(p)
    BY <2>3 DEF Finally, End, Full
  <2>5. wakeRequested'[p]
    BY <2>0, <2>3, <2>4 DEF Finally
  <2> QED BY <2>0, <2>3, <2>5 DEF Finally
<1> QED BY <1>1, DispatcherInitial, DispatcherStep, PTL DEF DispatcherSpec, BacklogPrompt

=============================================================================
