----------------------------- MODULE ConsoleMfa -----------------------------
(***************************************************************************)
(* Console sign-in with a one-time code: setting up, confirming and        *)
(* resetting an administrator's second factor, the sign-ins that consume   *)
(* its time steps, and the changes of role and status that end sessions.   *)
(*                                                                         *)
(* A request checks its password, then (for a code) the secret it was read *)
(* with, then commits a transaction that holds the account's rows locked;  *)
(* every other request and every change may fall between these steps.      *)
(***************************************************************************)
EXTENDS Integers

CONSTANTS Accounts,    \* administrators, past and present
          Requests,    \* calls of set-up, confirmation and sign-in; a set-up
                       \*   offers a fresh secret, named by the request
          OldSecret,   \* the secret of an account that is enrolled at first
          NoSecret, NoAccount,
          MaxVersion,  \* bound: versions of an admin_mfa row
          MaxTime      \* bound: the clock, in time steps of a code

ASSUME MfaNamesAssumption ==
    /\ OldSecret \notin Requests \cup {NoSecret} /\ NoSecret \notin Requests
    /\ NoAccount \notin Accounts
ASSUME MfaBoundsAssumption == MaxVersion \in Nat /\ MaxTime \in Nat

VARIABLES time,     \* the clock; steps of a code are its values
          active,   \* active[a]: the account is an administrator and ACTIVE
          mfa,      \* mfa[a]: the admin_mfa row; version 0 where there is none
          request   \* request[r]: what request r has read, and its answer

\* For the properties only: resets and changes of access of an account.
VARIABLES changes

mfaVars == <<time, active, mfa, request, changes>>

Secrets == Requests \cup {OldSecret}
Kinds   == {"setup", "confirm", "signin"}
Code    == {"confirm", "signin"}

Row == [version : Nat, secret : Secrets \cup {NoSecret}, enabled : BOOLEAN, step : Int]
NoRow == [version |-> 0, secret |-> NoSecret, enabled |-> FALSE, step |-> 0]

\* The table's admin_mfa_state_check, in terms of the row the code writes.
StateChecked(row) == IF row.enabled THEN row.secret # NoSecret ELSE row.step = 0

Call ==
    [kind : Kinds, account : Accounts \cup {NoAccount},
     phase : {"new", "password", "verified", "done", "refused"},
     row : Row, step : Int, changes : Nat]
NoCall == [kind |-> "setup", account |-> NoAccount, phase |-> "new", row |-> NoRow,
           step |-> 0, changes |-> 0]

Done(r, kinds) == request[r].phase = "done" /\ request[r].kind \in kinds
Of(r)          == request[r].account

MfaTypeOK ==
    /\ time \in Nat \ {0}
    /\ active \in [Accounts -> BOOLEAN]
    /\ mfa \in [Accounts -> Row]
    /\ request \in [Requests -> Call]
    /\ changes \in [Accounts -> Nat]
    /\ \A a \in Accounts : StateChecked(mfa[a])
    /\ \A r \in Requests : request[r].phase \in {"password", "verified", "done"} => Of(r) \in Accounts

\* The last step of an enrolled row is in the past; steps count from 1.
MfaInit ==
    /\ time = 2
    /\ active = [a \in Accounts |-> TRUE]
    /\ mfa \in [Accounts -> {NoRow, [version |-> 1, secret |-> OldSecret,
                                     enabled |-> TRUE, step |-> 1]}]
    /\ request = [r \in Requests |-> NoCall]
    /\ changes = [a \in Accounts |-> 0]

-----------------------------------------------------------------------------
(* Requests: console-mfa-service and admin-mfa-repository.                   *)

\* verifyPassword. Whoever is refused here has changed nothing.
CheckPassword(r, kind, a) ==
    /\ request[r].phase = "new"
    /\ active[a]
    /\ request' = [request EXCEPT ![r] =
           [NoCall EXCEPT !.kind = kind, !.account = a, !.phase = "password"]]
    /\ UNCHANGED <<time, active, mfa, changes>>

\* ensurePendingAdminMfa: the first candidate stays until the row is reset.
\* Fault: every set-up replaces the secret.
PendingReplacedFault(row, candidate) ==
    [row EXCEPT !.secret = candidate, !.version = IF @ = 0 THEN 1 ELSE @]
Pending(row, candidate) ==
    [row EXCEPT !.secret = IF @ = NoSecret THEN candidate ELSE @,
                !.version = IF @ = 0 THEN 1 ELSE @]

StoreSecret(r) ==
    LET a == Of(r)
        row == Pending(mfa[a], r)
    IN /\ request[r].kind = "setup" /\ request[r].phase = "password"
       /\ active[a] /\ ~mfa[a].enabled
       /\ mfa' = [mfa EXCEPT ![a] = row]
       /\ request' = [request EXCEPT ![r] = [@ EXCEPT !.phase = "done", !.row = row]]
       /\ UNCHANGED <<time, active, changes>>

\* A confirmation carries the version of a set-up's answer, and a code of the
\* secret in that answer.
Answer(r, version, secret) ==
    \E s \in Requests : /\ Done(s, {"setup"}) /\ Of(s) = Of(r)
                        /\ request[s].row.version = version
                        /\ request[s].row.secret = secret

\* consumeOtp before its transaction: the row is read, the code is of a step
\* within the tolerance and after the last step used.
VerifyCode(r, step) ==
    LET row == mfa[Of(r)]
    IN /\ request[r].kind \in Code /\ request[r].phase = "password"
       /\ row.secret # NoSecret
       /\ row.enabled = (request[r].kind = "signin")
       /\ request[r].kind = "confirm" => Answer(r, row.version, row.secret)
       /\ step > row.step
       /\ request' = [request EXCEPT ![r] =
              [@ EXCEPT !.phase = "verified", !.row = row, !.step = step,
                        !.changes = changes[Of(r)]]]
       /\ UNCHANGED <<time, active, mfa, changes>>

\* Fault: the statement does not compare the last step used.
AcceptsUsedStepFault(r) ==
    LET row == mfa[Of(r)]
    IN /\ active[Of(r)]
       /\ row.version = request[r].row.version /\ row.secret = request[r].row.secret
       /\ row.enabled = request[r].row.enabled

\* assertCurrentCredential and the condition of consumeAdminMfaStep.
Accepts(r) ==
    LET row == mfa[Of(r)]
    IN /\ active[Of(r)]
       /\ row.version = request[r].row.version
       /\ row.secret = request[r].row.secret
       /\ row.enabled = request[r].row.enabled
       /\ row.step < request[r].step

Consume(r) ==
    LET a == Of(r)
        row == [mfa[a] EXCEPT !.enabled = TRUE, !.step = request[r].step]
    IN /\ request[r].phase = "verified"
       /\ Accepts(r)
       /\ mfa' = [mfa EXCEPT ![a] = row]
       /\ request' = [request EXCEPT ![r] = [@ EXCEPT !.phase = "done", !.row = row]]
       /\ UNCHANGED <<time, active, changes>>

\* UNAUTHENTICATED: a code is wrong, or the rows are not as they must be.
Refuse(r) ==
    LET a == Of(r)
    IN /\ \/ /\ request[r].phase = "password"
             /\ request[r].kind = "setup" => ~active[a] \/ mfa[a].enabled
          \/ request[r].phase = "verified" /\ ~Accepts(r)
       /\ request' = [request EXCEPT ![r] = [NoCall EXCEPT !.phase = "refused"]]
       /\ UNCHANGED <<time, active, mfa, changes>>

-----------------------------------------------------------------------------
(* Operations: console-mfa-revocation-service, one transaction each; the     *)
(* versions their callers expect are those of the rows they change.          *)

\* resetAdminMfa; an account without a row gets one by incrementAdminMfaVersion.
Reset(row) == [NoRow EXCEPT !.version = row.version + 1]

ResetMfa(a) ==
    /\ mfa[a].version < MaxVersion
    /\ mfa' = [mfa EXCEPT ![a] = Reset(mfa[a])]
    /\ changes' = [changes EXCEPT ![a] = @ + 1]
    /\ UNCHANGED <<time, active, request>>

\* Fault: the version does not move with the account.
ChangeAccountOnlyFault(row) == row
\* incrementAdminMfaVersion.
NextVersion(row) == [row EXCEPT !.version = @ + 1]

ChangeAccess(a, next) ==
    /\ mfa[a].version < MaxVersion
    /\ active' = [active EXCEPT ![a] = next]
    /\ mfa' = [mfa EXCEPT ![a] = NextVersion(mfa[a])]
    /\ changes' = [changes EXCEPT ![a] = @ + 1]
    /\ UNCHANGED <<time, request>>

Tick ==
    /\ time < MaxTime
    /\ time' = time + 1
    /\ UNCHANGED <<active, mfa, request, changes>>

RequestNext ==
    \E r \in Requests :
        \/ \E kind \in Kinds, a \in Accounts : CheckPassword(r, kind, a)
        \/ StoreSecret(r)
        \/ \E step \in {time - 1, time, time + 1} : VerifyCode(r, step)
        \/ Consume(r)
        \/ Refuse(r)

AccessNext ==
    \E a \in Accounts :
        \/ ResetMfa(a)
        \/ \E next \in BOOLEAN : ChangeAccess(a, next)

MfaNext == RequestNext \/ AccessNext \/ Tick

-----------------------------------------------------------------------------

\* A session is the proof a sign-in was answered with; getRequestAuthorization
\* compares it with one reading of the account and its row.
Current(a, version) == active[a] /\ mfa[a].enabled /\ mfa[a].version = version
Authorized(r)       == Done(r, {"signin"}) /\ Current(Of(r), request[r].row.version)

\* A session is authorized only while its account's role, status and second
\* factor are as they were when its code was read: a change that falls between
\* the reading and the transaction, or later, leaves no session behind.
SessionsCurrent ==
    \A r \in Requests : Authorized(r) => request[r].changes = changes[Of(r)]

\* A time step of a secret serves one request, whether sign-in or confirmation,
\* however many of them verified it before it was consumed.
CodeUsedOnce ==
    \A r, s \in Requests :
        /\ Done(r, Code) /\ Done(s, Code) /\ Of(r) = Of(s)
        /\ request[r].row.secret = request[s].row.secret
        /\ request[r].step = request[s].step
        => r = s

\* Whoever set up with the version that is current holds the secret that a
\* confirmation or sign-in is verified with, whoever else set up meanwhile.
AnswersHold ==
    \A r \in Requests :
        Done(r, {"setup"}) /\ request[r].row.version = mfa[Of(r)].version
            => request[r].row.secret = mfa[Of(r)].secret

=============================================================================
