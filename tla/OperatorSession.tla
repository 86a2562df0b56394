--------------------------- MODULE OperatorSession ---------------------------
(***************************************************************************)
(* Operator connections: a device asks for a grant, an administrator with  *)
(* a session approves it in the browser, and the device, which polls,      *)
(* exchanges it once for a token that lives as long as the administrator's *)
(* access. Composed with ConsoleMfa, whose sign-ins and changes of access  *)
(* fall between the steps of an approval and of a poll.                    *)
(***************************************************************************)
EXTENDS ConsoleMfa

CONSTANTS Devices,   \* device codes, each with its user code
          Polls,     \* pollers; one that obtains a token stops
          GrantTtl, TokenTtl, Retention, \* lifetimes, in steps of the clock
          NoRequest, NoPoll, NoDevice

ASSUME OperatorNamesAssumption ==
    NoRequest \notin Requests /\ NoPoll \notin Polls /\ NoDevice \notin Devices
ASSUME LifetimesAssumption ==
    /\ GrantTtl \in Nat \ {0} /\ TokenTtl \in Nat \ {0} /\ Retention \in Nat

VARIABLES grant,     \* grant[d]: the operator_session row of device code d
          approval,  \* approval[r]: what session r is about to approve
          poll       \* poll[p]: an exchange in flight, or its answer

grantVars    == <<grant, approval, poll>>
operatorVars == <<mfaVars, grantVars>>

\* A time of 0 is null; by, the approving session, is for the properties only.
Grant ==
    [live : BOOLEAN, used : BOOLEAN, expires : Nat, account : Accounts \cup {NoAccount},
     version : Nat, approved : Nat, by : Requests \cup {NoRequest},
     token : Polls \cup {NoPoll}, tokenExpires : Nat, revoked : BOOLEAN]
NoGrant == [live |-> FALSE, used |-> FALSE, expires |-> 0, account |-> NoAccount,
            version |-> 0, approved |-> 0, by |-> NoRequest, token |-> NoPoll,
            tokenExpires |-> 0, revoked |-> FALSE]

\* The table's checks of an approval and of an exchange.
GrantChecked(g) ==
    /\ (g.approved = 0) = (g.account = NoAccount) /\ (g.approved = 0) = (g.by = NoRequest)
    /\ g.token # NoPoll => g.approved # 0
    /\ g.revoked => g.token # NoPoll

OperatorTypeOK ==
    /\ MfaTypeOK
    /\ grant \in [Devices -> Grant]
    /\ \A d \in Devices : GrantChecked(grant[d])
    /\ approval \in [Requests -> [device : Devices \cup {NoDevice}, at : Nat]]
    /\ poll \in [Polls -> [phase : {"idle", "started", "checked", "token"},
                           device : Devices \cup {NoDevice}, at : Nat]]

Waiting == [device |-> NoDevice, at |-> 0]
Idle    == [phase |-> "idle", device |-> NoDevice, at |-> 0]

OperatorInit ==
    /\ MfaInit
    /\ grant = [d \in Devices |-> NoGrant]
    /\ approval = [r \in Requests |-> Waiting]
    /\ poll = [p \in Polls |-> Idle]

\* purgeOperatorSessions: the grant and its token are over for the retention.
Purgeable(g) == g.expires < time - Retention /\ g.tokenExpires < time - Retention

\* createOperatorGrant: old rows are purged first. NoDevice is a device whose
\* own grant is not followed here.
CreateGrant(d) ==
    /\ d # NoDevice => ~grant[d].used
    /\ grant' = [e \in Devices |->
           IF e = d THEN [NoGrant EXCEPT !.live = TRUE, !.used = TRUE,
                                         !.expires = time + GrantTtl]
           ELSE IF Purgeable(grant[e]) THEN [NoGrant EXCEPT !.used = grant[e].used]
           ELSE grant[e]]
    /\ UNCHANGED <<mfaVars, approval, poll>>

\* The approve route and approveOperatorGrant up to its statement: the session
\* is authorized, then its account is read once more with the same outcome.
StartApproval(r, d) ==
    /\ approval[r] = Waiting
    /\ Authorized(r)
    /\ grant[d].live
    /\ approval' = [approval EXCEPT ![r] = [device |-> d, at |-> time]]
    /\ UNCHANGED <<mfaVars, grant, poll>>

\* Fault: an approver replaces an earlier one.
ApprovableAgainFault(g, at) == g.live /\ g.token = NoPoll /\ g.expires > at
\* The condition of approveOperatorSession.
Approvable(g, at) == g.live /\ g.approved = 0 /\ g.expires > at

\* approveOperatorSession; no row means UNAUTHENTICATED.
Approve(r) ==
    LET d == approval[r].device
        at == approval[r].at
    IN /\ approval[r] # Waiting
       /\ IF Approvable(grant[d], at)
          THEN grant' = [grant EXCEPT ![d] =
                   [@ EXCEPT !.approved = at, !.by = r, !.account = Of(r),
                             !.version = request[r].row.version]]
          ELSE UNCHANGED grant
       /\ approval' = [approval EXCEPT ![r] = Waiting]
       /\ UNCHANGED <<mfaVars, poll>>

\* exchangeOperatorGrant takes the time, then reads the row.
StartPoll(p, d) ==
    /\ poll[p].phase = "idle"
    /\ grant[d].used
    /\ poll' = [poll EXCEPT ![p] = [phase |-> "started", device |-> d, at |-> time]]
    /\ UNCHANGED <<mfaVars, grant, approval>>

Open(g, at) == g.live /\ g.expires > at /\ g.token = NoPoll /\ ~g.revoked

\* The row, whose approval is for good, and the account it names.
CheckPoll(p) ==
    LET g == grant[poll[p].device]
    IN /\ poll[p].phase = "started"
       /\ poll' = [poll EXCEPT ![p] =
              IF /\ Open(g, poll[p].at) /\ g.approved # 0
                 /\ Current(g.account, g.version)
              THEN [@ EXCEPT !.phase = "checked"]
              ELSE Idle]
       /\ UNCHANGED <<mfaVars, grant, approval>>

\* Fault: the statement relies on the check before it.
ClaimableCheckedFault(g, at) == g.live /\ g.expires > at
\* exchangeOperatorSession and the row's check that no exchange precedes its
\* approval: a poll that began before the approval fails with an error.
Claimable(g, at) == Open(g, at) /\ g.approved # 0 /\ at >= g.approved

ClaimToken(p) ==
    LET d == poll[p].device
        at == poll[p].at
    IN /\ poll[p].phase = "checked"
       /\ IF Claimable(grant[d], at)
          THEN /\ grant' = [grant EXCEPT ![d] =
                      [@ EXCEPT !.token = p, !.tokenExpires = at + TokenTtl]]
               /\ poll' = [poll EXCEPT ![p] = [@ EXCEPT !.phase = "token"]]
          ELSE /\ poll' = [poll EXCEPT ![p] = Idle]
               /\ UNCHANGED grant
       /\ UNCHANGED <<mfaVars, approval>>

\* Fault: a token is as good as the approval it was exchanged for.
TrustApprovalFault(d) ==
    /\ grant[d].live /\ grant[d].token # NoPoll /\ ~grant[d].revoked
    /\ grant[d].tokenExpires > time
    /\ active[grant[d].account]

\* authorizeOperatorToken.
TokenAuthorized(d) ==
    /\ grant[d].live /\ grant[d].token # NoPoll /\ ~grant[d].revoked
    /\ grant[d].tokenExpires > time
    /\ Current(grant[d].account, grant[d].version)

\* revokeOperatorToken.
RevokeToken(d) ==
    /\ TokenAuthorized(d)
    /\ grant' = [grant EXCEPT ![d].revoked = TRUE]
    /\ UNCHANGED <<mfaVars, approval, poll>>

OperatorNext ==
    \/ MfaNext /\ UNCHANGED grantVars
    \/ \E d \in Devices \cup {NoDevice} : CreateGrant(d)
    \/ \E d \in Devices :
         \/ RevokeToken(d)
         \/ \E r \in Requests : StartApproval(r, d)
         \/ \E p \in Polls : StartPoll(p, d)
    \/ \E r \in Requests : Approve(r)
    \/ \E p \in Polls : CheckPoll(p) \/ ClaimToken(p)

OperatorSpec == OperatorInit /\ [][OperatorNext]_operatorVars

-----------------------------------------------------------------------------

\* A token works only while the browser session that approved its grant would:
\* a change of access or of the second factor between the session's check, the
\* approval, the exchange and any use of the token ends both.
TokensCurrent ==
    \A d \in Devices : TokenAuthorized(d) =>
        Authorized(grant[d].by) /\ Of(grant[d].by) = grant[d].account

\* However many polls found a grant approved and open, one obtains a token.
OneTokenPerGrant ==
    \A p, q \in Polls :
        /\ poll[p].phase = "token" /\ poll[q].phase = "token"
        /\ poll[p].device = poll[q].device
        => p = q

\* A grant acts for the administrator who approved it first, as long as its row
\* exists, whoever else had read it as open.
ApproverStays ==
    \A d \in Devices :
        grant[d].approved # 0 /\ grant[d].live' =>
            /\ grant[d].by' = grant[d].by
            /\ grant[d].version' = grant[d].version
ApproverNeverReplaced == [][ApproverStays]_operatorVars

=============================================================================
