------------------------- MODULE ConsoleAccessProofs -------------------------
(***************************************************************************)
(* ConsoleMfa and OperatorSession for any number of administrators,        *)
(* requests, devices and pollers and without the bounds: what a request    *)
(* has read lies behind the row it would change, and is what the row was   *)
(* at that version.                                                        *)
(***************************************************************************)
EXTENDS OperatorSession, TLAPS

\* Requests that hold a reading of a row: a code that is verified, an answer.
Holds(r) == request[r].phase \in {"verified", "done"}

\* Readings are of a secret and of a version that has been.
Behind ==
    \A r \in Requests : Holds(r) =>
        /\ request[r].row.secret # NoSecret
        /\ request[r].row.version <= mfa[Of(r)].version

\* A reading of the current version has seen every change of the account.
ChangesSeen ==
    \A r \in Requests :
        /\ Holds(r) /\ request[r].kind \in Code
        /\ request[r].row.version = mfa[Of(r)].version
        => request[r].changes = changes[Of(r)]

\* A secret that is stored or was read is the offer of a set-up that is over,
\* so that no later set-up offers it again.
RowsMade     == \A a \in Accounts : mfa[a].secret \in Requests => Done(mfa[a].secret, {"setup"})
ReadingsMade ==
    \A r \in Requests : Holds(r) /\ request[r].row.secret \in Requests
        => Done(request[r].row.secret, {"setup"})

\* The steps that were used of the current secret are behind the row's.
StepsUsed ==
    \A r \in Requests : Done(r, Code) /\ request[r].row.secret = mfa[Of(r)].secret
        => request[r].step <= mfa[Of(r)].step

MfaInv ==
    /\ MfaTypeOK /\ Behind /\ ChangesSeen /\ RowsMade /\ ReadingsMade /\ StepsUsed
    /\ AnswersHold /\ CodeUsedOnce

-----------------------------------------------------------------------------
(* The second factor.                                                        *)

LEMMA NoCallType == NoCall \in Call /\ NoCall.phase = "new"
<1>1. NoRow \in Row
  BY DEF NoRow, Row
<1> QED
  BY <1>1 DEF NoCall, Call, Kinds

LEMMA MfaInitInv == MfaInit => MfaInv
<1> SUFFICES ASSUME MfaInit PROVE MfaInv
  OBVIOUS
<1> DEFINE old == [version |-> 1, secret |-> OldSecret, enabled |-> TRUE, step |-> 1]
<1>1. \A a \in Accounts : mfa[a] \in {NoRow, old}
  BY DEF MfaInit
<1>2. \A row \in {NoRow, old} :
        row \in Row /\ row.secret \in {NoSecret, OldSecret} /\ StateChecked(row)
<2>1. NoRow \in Row /\ NoRow.secret = NoSecret /\ StateChecked(NoRow)
    BY DEF NoRow, Row, StateChecked
<2>2. old \in Row /\ old.secret = OldSecret /\ StateChecked(old)
    BY MfaNamesAssumption DEF Row, StateChecked, Secrets
<2> QED
    BY <2>1, <2>2
<1> HIDE DEF old
<1>3. MfaTypeOK
<2>1. mfa \in [Accounts -> Row]
    BY <1>1, <1>2 DEF MfaInit
<2> QED
    BY <1>1, <1>2, <2>1, NoCallType DEF MfaInit, MfaTypeOK, Holds
<1> QED
  BY <1>1, <1>2, <1>3, NoCallType, MfaNamesAssumption
  DEF MfaInit, MfaInv, Behind, ChangesSeen, RowsMade, ReadingsMade, StepsUsed,
      AnswersHold, CodeUsedOnce, Holds, Done

\* A request that only reads, or is refused, disturbs nobody.
LEMMA CheckPasswordInv ==
  ASSUME MfaInv, NEW r \in Requests, NEW kind \in Kinds, NEW a \in Accounts,
         CheckPassword(r, kind, a)
  PROVE  MfaInv'
<1> DEFINE c == [NoCall EXCEPT !.kind = kind, !.account = a, !.phase = "password"]
<1>1. c \in Call /\ c.account = a /\ c.phase = "password" /\ c.kind = kind
  BY NoCallType DEF Call
<1>2. request' = [request EXCEPT ![r] = c] /\ UNCHANGED <<time, active, mfa, changes>>
  BY DEF CheckPassword
<1>3. request[r].phase = "new"
  BY DEF CheckPassword
<1> HIDE DEF c
<1> QED
  BY <1>1, <1>2, <1>3
  DEF MfaInv, MfaTypeOK, Behind, ChangesSeen, RowsMade, ReadingsMade, StepsUsed,
      AnswersHold, CodeUsedOnce, Holds, Done, Of, StateChecked, Code

LEMMA RefuseInv ==
  ASSUME MfaInv, NEW r \in Requests, Refuse(r)
  PROVE  MfaInv'
<1> DEFINE c == [NoCall EXCEPT !.phase = "refused"]
<1>1. c \in Call /\ c.phase = "refused"
  BY NoCallType DEF Call
<1>2. request' = [request EXCEPT ![r] = c] /\ UNCHANGED <<time, active, mfa, changes>>
  BY DEF Refuse
<1>3. request[r].phase # "done"
  BY DEF Refuse
<1> HIDE DEF c
<1> QED
  BY <1>1, <1>2, <1>3
  DEF MfaInv, MfaTypeOK, Behind, ChangesSeen, RowsMade, ReadingsMade, StepsUsed,
      AnswersHold, CodeUsedOnce, Holds, Done, Of, StateChecked, Code

\* The reading is of the row as it is.
LEMMA VerifyCodeInv ==
  ASSUME MfaInv, NEW r \in Requests, NEW step \in Int, VerifyCode(r, step)
  PROVE  MfaInv'
<1> DEFINE c == [request[r] EXCEPT !.phase = "verified", !.row = mfa[Of(r)], !.step = step,
                                   !.changes = changes[Of(r)]]
<1>1. request[r] \in Call /\ Of(r) \in Accounts /\ request[r].phase = "password"
      /\ request[r].kind \in Code /\ mfa[Of(r)].secret # NoSecret
  BY DEF VerifyCode, MfaInv, MfaTypeOK
<1>2. mfa[Of(r)] \in Row /\ changes[Of(r)] \in Nat
  BY <1>1 DEF MfaInv, MfaTypeOK
<1>3. /\ c \in Call /\ c.phase = "verified" /\ c.row = mfa[Of(r)] /\ c.account = Of(r)
      /\ c.kind = request[r].kind /\ c.changes = changes[Of(r)]
  BY <1>1, <1>2 DEF Call, Of
<1>4. request' = [request EXCEPT ![r] = c] /\ UNCHANGED <<time, active, mfa, changes>>
  BY DEF VerifyCode
<1>5. mfa[Of(r)].version \in Nat
  BY <1>2 DEF Row
<1> HIDE DEF c
<1> QED
  BY <1>1, <1>2, <1>3, <1>4, <1>5
  DEF MfaInv, MfaTypeOK, Behind, ChangesSeen, RowsMade, ReadingsMade, StepsUsed,
      AnswersHold, CodeUsedOnce, Holds, Done, Of, StateChecked, Code

\* A first offer is stored under a version that no answer has carried with
\* another secret; a later one leaves the row as it is.
LEMMA StoreSecretInv ==
  ASSUME MfaInv, NEW r \in Requests, StoreSecret(r)
  PROVE  MfaInv'
<1> DEFINE a == Of(r)
           row == Pending(mfa[a], r)
           c == [request[r] EXCEPT !.phase = "done", !.row = row]
<1>1. /\ request[r] \in Call /\ a \in Accounts /\ request[r].phase = "password"
      /\ request[r].kind = "setup" /\ mfa[a] \in Row /\ ~mfa[a].enabled
      /\ StateChecked(mfa[a]) /\ mfa[a].version \in Nat
  BY DEF StoreSecret, MfaInv, MfaTypeOK, Row
<1>2. /\ row \in Row /\ row.secret # NoSecret /\ StateChecked(row)
      /\ row.secret = IF mfa[a].secret = NoSecret THEN r ELSE mfa[a].secret
      /\ row.version = IF mfa[a].version = 0 THEN 1 ELSE mfa[a].version
      /\ row.step = mfa[a].step
  BY <1>1, MfaNamesAssumption DEF Row, Pending, Secrets, StateChecked
<1>3. /\ c \in Call /\ c.phase = "done" /\ c.row = row /\ c.account = a /\ c.kind = "setup"
      /\ c.step = request[r].step
  BY <1>1, <1>2 DEF Call, Of
<1>4. /\ request' = [request EXCEPT ![r] = c] /\ mfa' = [mfa EXCEPT ![a] = row]
      /\ UNCHANGED <<time, active, changes>>
  BY DEF StoreSecret
<1>5. \A q \in Requests : Holds(q) => request[q].row.secret # r
  BY <1>1 DEF MfaInv, ReadingsMade, Done, Holds
<1>6. /\ request \in [Requests -> Call] /\ mfa \in [Accounts -> Row]
      /\ \A q \in Requests : Holds(q) => Of(q) \in Accounts
      /\ \A q \in Requests : request[q].row.version \in Nat
  BY DEF MfaInv, MfaTypeOK, Call, Row, Holds
<1> HIDE DEF c, row
<1>7. MfaTypeOK'
  BY <1>1, <1>2, <1>3, <1>4 DEF MfaInv, MfaTypeOK, Of
<1>8. (Behind /\ ChangesSeen)'
  BY <1>1, <1>2, <1>3, <1>4, <1>6 DEF MfaInv, Behind, ChangesSeen, Holds, Of, Code
<1>9. (RowsMade /\ ReadingsMade)'
  BY <1>1, <1>2, <1>3, <1>4, <1>6 DEF MfaInv, RowsMade, ReadingsMade, Holds, Done, Of
<1>10. (StepsUsed /\ CodeUsedOnce)'
  BY <1>1, <1>2, <1>3, <1>4, <1>5, <1>6 DEF MfaInv, StepsUsed, CodeUsedOnce, Holds, Done, Of, Code
<1>11. AnswersHold'
  BY <1>1, <1>2, <1>3, <1>4, <1>6 DEF MfaInv, AnswersHold, Behind, Holds, Done, Of
<1> QED
  BY <1>7, <1>8, <1>9, <1>10, <1>11 DEF MfaInv

\* The statement compares what the code was verified with, and the last step:
\* no request that is over has used this step of this secret.
LEMMA ConsumeInv ==
  ASSUME MfaInv, NEW r \in Requests, Consume(r)
  PROVE  MfaInv'
<1> DEFINE a == Of(r)
           row == [mfa[a] EXCEPT !.enabled = TRUE, !.step = request[r].step]
           c == [request[r] EXCEPT !.phase = "done", !.row = row]
<1>1. /\ request[r] \in Call /\ a \in Accounts /\ request[r].phase = "verified"
      /\ mfa[a] \in Row /\ request[r].step \in Int
  BY DEF Consume, MfaInv, MfaTypeOK, Call
<1>2. /\ mfa[a].version = request[r].row.version /\ mfa[a].secret = request[r].row.secret
      /\ mfa[a].step < request[r].step /\ mfa[a].secret # NoSecret
  BY <1>1 DEF Consume, Accepts, MfaInv, Behind, Holds
<1>3. /\ row \in Row /\ row.version = mfa[a].version /\ row.secret = mfa[a].secret
      /\ row.enabled /\ row.step = request[r].step
  BY <1>1 DEF Row
<1>4. /\ c \in Call /\ c.phase = "done" /\ c.row = row /\ c.account = a
      /\ c.kind = request[r].kind /\ c.step = request[r].step
      /\ c.changes = request[r].changes
  BY <1>1, <1>3 DEF Call, Of
<1>5. /\ request' = [request EXCEPT ![r] = c] /\ mfa' = [mfa EXCEPT ![a] = row]
      /\ UNCHANGED <<time, active, changes>>
  BY DEF Consume
<1>6. /\ request \in [Requests -> Call] /\ mfa \in [Accounts -> Row]
      /\ \A q \in Requests : /\ Holds(q) => Of(q) \in Accounts
                             /\ request[q].step \in Int
      /\ \A b \in Accounts : mfa[b].version \in Nat /\ mfa[b].step \in Int
  BY DEF MfaInv, MfaTypeOK, Call, Row, Holds
<1> HIDE DEF c, row
<1>7. MfaTypeOK'
  BY <1>1, <1>2, <1>3, <1>4, <1>5 DEF MfaInv, MfaTypeOK, Of, StateChecked
<1>8. (Behind /\ ChangesSeen)'
  BY <1>1, <1>2, <1>3, <1>4, <1>5, <1>6 DEF MfaInv, Behind, ChangesSeen, Holds, Of, Code
<1>9. (RowsMade /\ ReadingsMade)'
  BY <1>1, <1>2, <1>3, <1>4, <1>5, <1>6 DEF MfaInv, RowsMade, ReadingsMade, Holds, Done, Of
<1>10. (StepsUsed /\ CodeUsedOnce)'
  BY <1>1, <1>2, <1>3, <1>4, <1>5, <1>6
  DEF MfaInv, StepsUsed, CodeUsedOnce, Holds, Done, Of, Code
<1>11. AnswersHold'
  BY <1>1, <1>2, <1>3, <1>4, <1>5, <1>6 DEF MfaInv, AnswersHold, Done, Of, Holds
<1> QED
  BY <1>7, <1>8, <1>9, <1>10, <1>11 DEF MfaInv

\* A reset or a change of access moves the version past every reading; the
\* secret stays or is gone.
LEMMA ChangeInv ==
  ASSUME MfaInv, NEW a \in Accounts,
         ResetMfa(a) \/ (\E next \in BOOLEAN : ChangeAccess(a, next))
  PROVE  MfaInv'
<1>1. PICK row : /\ row \in {Reset(mfa[a]), NextVersion(mfa[a])}
                 /\ mfa' = [mfa EXCEPT ![a] = row]
  BY DEF ResetMfa, ChangeAccess
<1>2. /\ changes' = [changes EXCEPT ![a] = @ + 1] /\ UNCHANGED <<time, request>>
      /\ active' \in [Accounts -> BOOLEAN]
  BY DEF ResetMfa, ChangeAccess, MfaInv, MfaTypeOK
<1>3. mfa[a] \in Row /\ StateChecked(mfa[a]) /\ changes[a] \in Nat /\ mfa[a].version \in Nat
  BY DEF MfaInv, MfaTypeOK, Row
<1>4. NoRow \in Row /\ mfa[a].version + 1 \in Nat
  BY <1>3 DEF NoRow, Row
<1>5. /\ row \in Row /\ StateChecked(row) /\ row.version = mfa[a].version + 1
      /\ (row.secret = mfa[a].secret /\ row.step = mfa[a].step) \/ row.secret = NoSecret
  <2>1. CASE row = Reset(mfa[a])
    <3>1. row \in Row
      BY <1>4, <2>1, Zenon DEF Reset, Row
    <3> QED
      BY <2>1, <3>1 DEF Reset, NoRow, StateChecked
  <2>2. CASE row = NextVersion(mfa[a])
    <3>1. row \in Row
      BY <1>3, <1>4, <2>2 DEF NextVersion, Row
    <3> QED
      BY <1>3, <2>2, <3>1 DEF NextVersion, Row, StateChecked
  <2> QED
    BY <1>1, <2>1, <2>2
<1>6. /\ request \in [Requests -> Call] /\ mfa \in [Accounts -> Row]
      /\ \A q \in Requests : /\ Holds(q) => Of(q) \in Accounts
                             /\ request[q].row.version \in Nat
  BY DEF MfaInv, MfaTypeOK, Call, Row, Holds
<1>7. MfaTypeOK'
  BY <1>1, <1>2, <1>3, <1>5 DEF MfaInv, MfaTypeOK, Of
<1>8. (Behind /\ ChangesSeen)'
  BY <1>1, <1>2, <1>3, <1>5, <1>6 DEF MfaInv, Behind, ChangesSeen, Holds, Of, Code
<1>9. (RowsMade /\ ReadingsMade)'
  BY <1>1, <1>2, <1>5, <1>6, MfaNamesAssumption
  DEF MfaInv, RowsMade, ReadingsMade, Holds, Done, Of
<1>10. (StepsUsed /\ CodeUsedOnce)'
  BY <1>1, <1>2, <1>5, <1>6 DEF MfaInv, StepsUsed, CodeUsedOnce, Behind, Holds, Done, Of
<1>11. AnswersHold'
  BY <1>1, <1>2, <1>3, <1>5, <1>6 DEF MfaInv, AnswersHold, Behind, Done, Of, Holds
<1> QED
  BY <1>7, <1>8, <1>9, <1>10, <1>11 DEF MfaInv

LEMMA TickInv ==
  ASSUME MfaInv, Tick
  PROVE  MfaInv'
<1>1. time' \in Nat \ {0} /\ UNCHANGED <<active, mfa, request, changes>>
  BY DEF Tick, MfaInv, MfaTypeOK
<1> QED
  BY <1>1 DEF MfaInv, MfaTypeOK, Behind, ChangesSeen, RowsMade, ReadingsMade, StepsUsed,
              AnswersHold, CodeUsedOnce, Holds, Done, Of, StateChecked

LEMMA MfaStepInv ==
  ASSUME MfaInv, MfaNext \/ UNCHANGED mfaVars
  PROVE  MfaInv'
<1>1. CASE UNCHANGED mfaVars
  BY <1>1 DEF MfaInv, MfaTypeOK, Behind, ChangesSeen, RowsMade, ReadingsMade, StepsUsed,
              AnswersHold, CodeUsedOnce, Holds, Done, Of, StateChecked, mfaVars
<1>2. CASE RequestNext
  <2>1. PICK r \in Requests :
            \/ \E kind \in Kinds, a \in Accounts : CheckPassword(r, kind, a)
            \/ StoreSecret(r)
            \/ \E step \in {time - 1, time, time + 1} : VerifyCode(r, step)
            \/ Consume(r)
            \/ Refuse(r)
    BY <1>2 DEF RequestNext
  <2>2. {time - 1, time, time + 1} \subseteq Int
    BY DEF MfaInv, MfaTypeOK
  <2> QED
    BY <2>1, <2>2, CheckPasswordInv, StoreSecretInv, VerifyCodeInv, ConsumeInv, RefuseInv
<1>3. CASE AccessNext
  BY <1>3, ChangeInv DEF AccessNext
<1>4. CASE Tick
  BY <1>4, TickInv
<1> QED
  BY <1>1, <1>2, <1>3, <1>4 DEF MfaNext

\* A request that is over is never changed.
LEMMA DoneStays ==
  ASSUME MfaInv, OperatorNext \/ UNCHANGED operatorVars, NEW r \in Requests, Done(r, Kinds)
  PROVE  request'[r] = request[r]
<1>1. request \in [Requests -> Call] /\ request[r].phase = "done"
  BY DEF MfaInv, MfaTypeOK, Done
<1> QED
  BY <1>1 DEF OperatorNext, MfaNext, RequestNext, AccessNext, CheckPassword, StoreSecret,
              VerifyCode, Consume, Refuse, ResetMfa, ChangeAccess, Tick, CreateGrant,
              RevokeToken, StartApproval, StartPoll, Approve, CheckPoll, ClaimToken,
              operatorVars, mfaVars

-----------------------------------------------------------------------------
(* Grants.                                                                   *)

\* Who approves a grant, and who is about to, has signed in; the grant carries
\* the proof of that session.
ApprovalsMeant ==
    /\ \A r \in Requests : approval[r] # Waiting =>
         /\ Done(r, {"signin"})
         /\ approval[r].device \in Devices /\ grant[approval[r].device].used
         /\ approval[r].at # 0
    /\ \A d \in Devices : grant[d].approved # 0 =>
         /\ grant[d].by \in Requests /\ Done(grant[d].by, {"signin"})
         /\ grant[d].account = Of(grant[d].by)
         /\ grant[d].version = request[grant[d].by].row.version

\* A row is there only if its device asked, and is never there again.
GrantsUsed == \A d \in Devices : ~grant[d].used => ~grant[d].live /\ grant[d].approved = 0

\* A poll that obtained a token has it in the row, while there is a row.
PollsMeant ==
    \A p \in Polls :
        /\ poll[p].phase # "idle" => /\ poll[p].device \in Devices
                                     /\ grant[poll[p].device].used
        /\ poll[p].phase = "token" /\ grant[poll[p].device].live
             => grant[poll[p].device].token = p

OperatorInv ==
    /\ MfaInv /\ OperatorTypeOK /\ ApprovalsMeant /\ GrantsUsed /\ PollsMeant
    /\ OneTokenPerGrant

LEMMA NoGrantType == /\ NoGrant \in Grant /\ GrantChecked(NoGrant) /\ ~NoGrant.live
                     /\ NoGrant.approved = 0 /\ NoGrant.token = NoPoll /\ ~NoGrant.used
<1>1. NoGrant \in Grant
  BY DEF NoGrant, Grant
<1> QED
  BY <1>1 DEF NoGrant, GrantChecked

LEMMA OperatorInitInv == OperatorInit => OperatorInv
<1> SUFFICES ASSUME OperatorInit PROVE OperatorInv
  OBVIOUS
<1>1. MfaInv /\ MfaTypeOK
  BY MfaInitInv DEF OperatorInit, MfaInv
<1>2. /\ Waiting \in [device : Devices \cup {NoDevice}, at : Nat]
      /\ Idle \in [phase : {"idle", "started", "checked", "token"},
                   device : Devices \cup {NoDevice}, at : Nat]
      /\ Idle.phase = "idle"
  BY DEF Waiting, Idle
<1>3. OperatorTypeOK
  BY <1>1, <1>2, NoGrantType DEF OperatorInit, OperatorTypeOK
<1> QED
  BY <1>1, <1>2, <1>3, NoGrantType
  DEF OperatorInit, OperatorInv, ApprovalsMeant, GrantsUsed, PollsMeant, OneTokenPerGrant

\* The second factor's steps leave the grants alone, and the sessions they rest on.
LEMMA MfaStepKeepsGrants ==
  ASSUME OperatorInv, MfaNext \/ UNCHANGED mfaVars, UNCHANGED grantVars
  PROVE  OperatorInv'
<1>1. MfaInv'
  BY MfaStepInv DEF OperatorInv
<1>2. \A r \in Requests : Done(r, {"signin"}) => request'[r] = request[r]
  BY DoneStays DEF OperatorInv, OperatorNext, operatorVars, Done, Kinds, grantVars
<1>3. UNCHANGED <<grant, approval, poll>>
  BY DEF grantVars
<1>4. OperatorTypeOK'
  BY <1>1, <1>3 DEF OperatorInv, MfaInv, OperatorTypeOK, GrantChecked
<1>5. ApprovalsMeant'
  BY <1>2, <1>3 DEF OperatorInv, ApprovalsMeant, Done, Of
<1> QED
  BY <1>1, <1>3, <1>4, <1>5
  DEF OperatorInv, GrantsUsed, PollsMeant, OneTokenPerGrant

\* Their steps leave the requests and rows of the second factor alone.
LEMMA GrantStepKeepsMfa ==
  ASSUME MfaInv, UNCHANGED mfaVars
  PROVE  /\ MfaInv' /\ MfaTypeOK'
         /\ \A r \in Requests, kinds \in SUBSET Kinds : Done(r, kinds)' = Done(r, kinds)
         /\ UNCHANGED <<request, mfa, time>>
<1>1. UNCHANGED <<time, active, mfa, request, changes>>
  BY DEF mfaVars
<1> QED
  BY <1>1, MfaStepInv DEF MfaInv, Done

LEMMA CreateGrantInv ==
  ASSUME OperatorInv, NEW d \in Devices \cup {NoDevice}, CreateGrant(d)
  PROVE  OperatorInv'
<1> DEFINE g == [NoGrant EXCEPT !.live = TRUE, !.used = TRUE, !.expires = time + GrantTtl]
<1>1. UNCHANGED mfaVars /\ UNCHANGED <<approval, poll>>
  BY DEF CreateGrant
<1>2. MfaInv' /\ MfaTypeOK' /\ UNCHANGED <<request, mfa, time>>
  BY <1>1, GrantStepKeepsMfa DEF OperatorInv
<1>3. time + GrantTtl \in Nat
  BY LifetimesAssumption DEF OperatorInv, MfaInv, MfaTypeOK
<1>4. g \in Grant /\ GrantChecked(g) /\ g.used /\ g.live /\ g.approved = 0 /\ g.token = NoPoll
  BY <1>3, NoGrantType DEF Grant, GrantChecked, NoGrant
<1>5. ASSUME NEW e \in Devices
      PROVE  /\ e = d => ~grant[e].used
             /\ grant'[e] \in Grant /\ GrantChecked(grant'[e])
             /\ \/ e = d /\ grant'[e] = g
                \/ e # d /\ grant'[e] = grant[e]
                \/ /\ e # d /\ ~grant'[e].live /\ grant'[e].used = grant[e].used
                   /\ grant'[e].approved = 0
  <2>1. grant[e] \in Grant /\ GrantChecked(grant[e]) /\ grant[e].used \in BOOLEAN
    BY DEF OperatorInv, OperatorTypeOK, Grant
  <2> DEFINE h == [NoGrant EXCEPT !.used = grant[e].used]
  <2>2. h \in Grant /\ GrantChecked(h) /\ ~h.live /\ h.used = grant[e].used /\ h.approved = 0
    BY <2>1, NoGrantType DEF Grant, GrantChecked, NoGrant
  <2>3. grant'[e] = IF e = d THEN g ELSE IF Purgeable(grant[e]) THEN h ELSE grant[e]
    BY DEF CreateGrant
  <2>4. e = d => ~grant[e].used
    BY OperatorNamesAssumption DEF CreateGrant
  <2> HIDE DEF g, h
  <2> QED
    BY <1>4, <2>1, <2>2, <2>3, <2>4
<1>6. grant' \in [Devices -> Grant]
  <2>1. grant' = [e \in Devices |-> grant'[e]]
    BY DEF CreateGrant
  <2> QED
    BY <1>5, <2>1
<1> HIDE DEF g
<1>7. OperatorTypeOK'
  BY <1>1, <1>2, <1>5, <1>6 DEF OperatorInv, OperatorTypeOK
<1>8. ApprovalsMeant'
  BY <1>1, <1>2, <1>4, <1>5 DEF OperatorInv, ApprovalsMeant, Done, Of
<1>9. (GrantsUsed /\ PollsMeant /\ OneTokenPerGrant)'
  BY <1>1, <1>4, <1>5 DEF OperatorInv, GrantsUsed, PollsMeant, OneTokenPerGrant
<1> QED
  BY <1>2, <1>7, <1>8, <1>9 DEF OperatorInv

LEMMA StartApprovalInv ==
  ASSUME OperatorInv, NEW r \in Requests, NEW d \in Devices, StartApproval(r, d)
  PROVE  OperatorInv'
<1> DEFINE w == [device |-> d, at |-> time]
<1>1. /\ UNCHANGED mfaVars /\ UNCHANGED <<grant, poll>> /\ approval' = [approval EXCEPT ![r] = w]
      /\ Done(r, {"signin"}) /\ grant[d].live
  BY DEF StartApproval, Authorized
<1>2. MfaInv' /\ MfaTypeOK' /\ UNCHANGED <<request, mfa, time>> /\ time \in Nat \ {0}
  BY <1>1, GrantStepKeepsMfa DEF OperatorInv, MfaInv, MfaTypeOK
<1>3. w \in [device : Devices \cup {NoDevice}, at : Nat] /\ w.device = d /\ w.at # 0
  BY <1>2
<1> HIDE DEF w
<1>4. OperatorTypeOK'
  BY <1>1, <1>2, <1>3 DEF OperatorInv, OperatorTypeOK, GrantChecked
<1>5. approval \in [Requests -> [device : Devices \cup {NoDevice}, at : Nat]]
  BY DEF OperatorInv, OperatorTypeOK
<1>6. ApprovalsMeant'
  BY <1>1, <1>2, <1>3, <1>5 DEF OperatorInv, ApprovalsMeant, GrantsUsed, Done, Of
<1> QED
  BY <1>1, <1>2, <1>4, <1>6 DEF OperatorInv, GrantsUsed, PollsMeant, OneTokenPerGrant

LEMMA ApproveInv ==
  ASSUME OperatorInv, NEW r \in Requests, Approve(r)
  PROVE  OperatorInv'
<1> DEFINE d == approval[r].device
           at == approval[r].at
           g == [grant[d] EXCEPT !.approved = at, !.by = r, !.account = Of(r),
                                 !.version = request[r].row.version]
<1>1. /\ UNCHANGED mfaVars /\ UNCHANGED poll /\ approval' = [approval EXCEPT ![r] = Waiting]
      /\ Done(r, {"signin"}) /\ d \in Devices /\ at # 0
  BY DEF Approve, OperatorInv, ApprovalsMeant
<1>2. /\ MfaInv' /\ MfaTypeOK' /\ UNCHANGED <<request, mfa, time>>
      /\ Of(r) \in Accounts /\ request[r].row.version \in Nat
  BY <1>1, GrantStepKeepsMfa DEF OperatorInv, MfaInv, MfaTypeOK, Done, Call, Row
<1>3. /\ approval \in [Requests -> [device : Devices \cup {NoDevice}, at : Nat]]
      /\ grant \in [Devices -> Grant] /\ at \in Nat /\ GrantChecked(grant[d])
      /\ grant[d] \in Grant
  BY <1>1 DEF OperatorInv, OperatorTypeOK
<1>4. \/ grant' = grant
      \/ grant[d].live /\ grant[d].approved = 0 /\ grant' = [grant EXCEPT ![d] = g]
  BY DEF Approve, Approvable
<1> HIDE DEF d, at
<1>5. /\ g \in Grant /\ g.approved = at /\ g.by = r /\ g.account = Of(r)
      /\ g.version = request[r].row.version /\ g.used = grant[d].used
      /\ g.live = grant[d].live /\ g.token = grant[d].token
  <2> DEFINE acc == Of(r)
             ver == request[r].row.version
  <2>1. acc \in Accounts /\ ver \in Nat
    BY <1>2
  <2> HIDE DEF acc, ver
  <2>2. [grant[d] EXCEPT !.approved = at, !.by = r, !.account = acc, !.version = ver] \in Grant
    BY <1>3, <2>1 DEF Grant
  <2> QED
    BY <1>3, <2>2 DEF Grant, acc, ver
<1>6. GrantChecked(g)
  <2>1. r # NoRequest /\ Of(r) # NoAccount
    BY <1>2, OperatorNamesAssumption, MfaNamesAssumption
  <2>2. g.revoked = grant[d].revoked
    BY <1>1, <1>3 DEF Grant
  <2> HIDE DEF g
  <2> QED
    BY <1>1, <1>3, <1>5, <2>1, <2>2 DEF GrantChecked
<1>7. Waiting \in [device : Devices \cup {NoDevice}, at : Nat]
  BY DEF Waiting
<1> HIDE DEF g
<1>8. OperatorTypeOK'
  BY <1>1, <1>2, <1>3, <1>5, <1>6, <1>4, <1>7 DEF OperatorInv, OperatorTypeOK
<1>9. ApprovalsMeant'
  BY <1>1, <1>2, <1>3, <1>5, <1>4 DEF OperatorInv, ApprovalsMeant, Done, Of
<1>10. (GrantsUsed /\ PollsMeant /\ OneTokenPerGrant)'
  BY <1>1, <1>3, <1>5, <1>4 DEF OperatorInv, GrantsUsed, PollsMeant, OneTokenPerGrant
<1> QED
  BY <1>2, <1>8, <1>9, <1>10 DEF OperatorInv

LEMMA PollInv ==
  ASSUME OperatorInv, NEW p \in Polls,
         (\E d \in Devices : StartPoll(p, d)) \/ CheckPoll(p)
  PROVE  OperatorInv'
<1>1. /\ UNCHANGED mfaVars /\ UNCHANGED <<grant, approval>> /\ poll[p].phase # "token"
      /\ poll \in [Polls -> [phase : {"idle", "started", "checked", "token"},
                             device : Devices \cup {NoDevice}, at : Nat]]
  BY DEF StartPoll, CheckPoll, OperatorInv, OperatorTypeOK
<1>2. MfaInv' /\ MfaTypeOK' /\ UNCHANGED <<request, mfa, time>> /\ time \in Nat
  BY <1>1, GrantStepKeepsMfa DEF OperatorInv, MfaInv, MfaTypeOK
<1>3. PICK w : /\ w \in [phase : {"idle", "started", "checked", "token"},
                         device : Devices \cup {NoDevice}, at : Nat]
               /\ w.phase # "token"
               /\ w.phase # "idle" => w.device \in Devices /\ grant[w.device].used
               /\ poll' = [poll EXCEPT ![p] = w]
  <2>1. ASSUME NEW d \in Devices, StartPoll(p, d)
        PROVE  \E w : /\ w \in [phase : {"idle", "started", "checked", "token"},
                                device : Devices \cup {NoDevice}, at : Nat]
                      /\ w.phase # "token"
                      /\ w.phase # "idle" => w.device \in Devices /\ grant[w.device].used
                      /\ poll' = [poll EXCEPT ![p] = w]
    BY <1>2, <2>1 DEF StartPoll
  <2>2. ASSUME CheckPoll(p)
        PROVE  \E w : /\ w \in [phase : {"idle", "started", "checked", "token"},
                                device : Devices \cup {NoDevice}, at : Nat]
                      /\ w.phase # "token"
                      /\ w.phase # "idle" => w.device \in Devices /\ grant[w.device].used
                      /\ poll' = [poll EXCEPT ![p] = w]
    <3>1. poll[p].phase = "started" /\ poll[p].device \in Devices /\ grant[poll[p].device].used
      BY <2>2 DEF CheckPoll, OperatorInv, PollsMeant
    <3>2. \/ poll' = [poll EXCEPT ![p] = [poll[p] EXCEPT !.phase = "checked"]]
          \/ poll' = [poll EXCEPT ![p] = Idle]
      BY <2>2 DEF CheckPoll
    <3> QED
      BY <1>1, <3>1, <3>2 DEF Idle
  <2> QED
    BY <2>1, <2>2
<1>4. OperatorTypeOK'
  BY <1>1, <1>2, <1>3 DEF OperatorInv, OperatorTypeOK, GrantChecked
<1>5. ApprovalsMeant'
  BY <1>1, <1>2 DEF OperatorInv, ApprovalsMeant, Done, Of
<1>6. (GrantsUsed /\ PollsMeant /\ OneTokenPerGrant)'
  BY <1>1, <1>3 DEF OperatorInv, GrantsUsed, PollsMeant, OneTokenPerGrant
<1> QED
  BY <1>2, <1>4, <1>5, <1>6 DEF OperatorInv

\* The row is claimed under its condition: nobody else holds its token.
LEMMA ClaimTokenInv ==
  ASSUME OperatorInv, NEW p \in Polls, ClaimToken(p)
  PROVE  OperatorInv'
<1> DEFINE d == poll[p].device
           at == poll[p].at
           g == [grant[d] EXCEPT !.token = p, !.tokenExpires = at + TokenTtl]
           w == [poll[p] EXCEPT !.phase = "token"]
           PollType == [phase : {"idle", "started", "checked", "token"},
                        device : Devices \cup {NoDevice}, at : Nat]
<1>1. /\ UNCHANGED mfaVars /\ UNCHANGED approval /\ poll[p].phase = "checked"
      /\ d \in Devices /\ grant[d].used
  BY DEF ClaimToken, OperatorInv, PollsMeant
<1>2. MfaInv' /\ MfaTypeOK' /\ UNCHANGED <<request, mfa, time>>
  BY <1>1, GrantStepKeepsMfa DEF OperatorInv
<1>3. /\ poll \in [Polls -> PollType] /\ grant \in [Devices -> Grant]
      /\ grant[d] \in Grant /\ GrantChecked(grant[d]) /\ at \in Nat /\ poll[p] \in PollType
      /\ Idle \in PollType /\ Idle.phase = "idle"
  BY <1>1 DEF OperatorInv, OperatorTypeOK, Idle
<1>4. \/ /\ grant[d].live /\ grant[d].approved # 0 /\ grant[d].token = NoPoll
         /\ grant' = [grant EXCEPT ![d] = g] /\ poll' = [poll EXCEPT ![p] = w]
      \/ grant' = grant /\ poll' = [poll EXCEPT ![p] = Idle]
  BY DEF ClaimToken, Claimable, Open
<1>5. w \in PollType /\ w.device = d /\ w.phase = "token"
  BY <1>3
<1> HIDE DEF d, at
<1>6. /\ g \in Grant /\ g.token = p /\ g.used = grant[d].used /\ g.live = grant[d].live
      /\ g.approved = grant[d].approved /\ g.by = grant[d].by
      /\ g.account = grant[d].account /\ g.version = grant[d].version
  <2>1. at + TokenTtl \in Nat
    BY <1>3, LifetimesAssumption
  <2> DEFINE expires == at + TokenTtl
  <2> HIDE DEF expires
  <2>2. [grant[d] EXCEPT !.token = p, !.tokenExpires = expires] \in Grant
    BY <1>3, <2>1 DEF Grant, expires
  <2> QED
    BY <1>3, <2>2 DEF Grant, expires
<1>7. grant[d].approved # 0 => GrantChecked(g)
  <2>1. g.revoked = grant[d].revoked
    BY <1>3 DEF Grant
  <2> HIDE DEF g
  <2> QED
    BY <1>3, <1>6, <2>1, OperatorNamesAssumption DEF GrantChecked
<1>8. \A q \in Polls : poll[q].phase = "token" /\ poll[q].device = d /\ grant[d].live
                          => grant[d].token # NoPoll
  BY OperatorNamesAssumption DEF OperatorInv, PollsMeant
<1> HIDE DEF g, w
<1>9. OperatorTypeOK'
  BY <1>1, <1>2, <1>3, <1>4, <1>5, <1>6, <1>7 DEF OperatorInv, OperatorTypeOK
<1>10. \A e \in Devices :
          /\ grant'[e].used = grant[e].used /\ grant'[e].live = grant[e].live
          /\ grant'[e].approved = grant[e].approved /\ grant'[e].by = grant[e].by
          /\ grant'[e].account = grant[e].account /\ grant'[e].version = grant[e].version
          /\ e # d => grant'[e].token = grant[e].token
  BY <1>3, <1>4, <1>6
<1>11. ApprovalsMeant'
  BY <1>1, <1>2, <1>10 DEF OperatorInv, ApprovalsMeant, Done, Of
<1>12. (GrantsUsed /\ PollsMeant)'
  <2>1. GrantsUsed'
    BY <1>10 DEF OperatorInv, GrantsUsed
  <2>2. ASSUME NEW q \in Polls
        PROVE  /\ poll'[q].phase # "idle" => /\ poll'[q].device \in Devices
                                            /\ grant'[poll'[q].device].used
               /\ poll'[q].phase = "token" /\ grant'[poll'[q].device].live
                    => grant'[poll'[q].device].token = q
    <3>1. CASE q = p
      BY <1>1, <1>3, <1>4, <1>5, <1>6, <1>10, <3>1
    <3>2. CASE q # p
      <4>1. poll'[q] = poll[q]
        BY <1>3, <1>4, <3>2
      <4>2. grant' = grant \/ (grant[d].live /\ grant[d].token = NoPoll)
        BY <1>4
      <4> QED
        BY <1>8, <1>10, <4>1, <4>2 DEF OperatorInv, PollsMeant
    <3> QED
      BY <3>1, <3>2
  <2> QED
    BY <2>1, <2>2 DEF PollsMeant
<1>13. OneTokenPerGrant'
  BY <1>3, <1>4, <1>5, <1>8 DEF OperatorInv, OneTokenPerGrant, d
<1> QED
  BY <1>2, <1>9, <1>11, <1>12, <1>13 DEF OperatorInv

LEMMA RevokeTokenInv ==
  ASSUME OperatorInv, NEW d \in Devices, RevokeToken(d)
  PROVE  OperatorInv'
<1> DEFINE g == [grant[d] EXCEPT !.revoked = TRUE]
<1>1. /\ UNCHANGED mfaVars /\ UNCHANGED <<approval, poll>>
      /\ grant' = [grant EXCEPT ![d] = g] /\ grant[d].token # NoPoll
  BY DEF RevokeToken, TokenAuthorized
<1>2. MfaInv' /\ MfaTypeOK' /\ UNCHANGED <<request, mfa, time>>
  BY <1>1, GrantStepKeepsMfa DEF OperatorInv
<1>3. grant \in [Devices -> Grant] /\ grant[d] \in Grant /\ GrantChecked(grant[d])
  BY DEF OperatorInv, OperatorTypeOK
<1>4. /\ g \in Grant /\ g.token = grant[d].token /\ g.used = grant[d].used
      /\ g.live = grant[d].live /\ g.approved = grant[d].approved /\ g.by = grant[d].by
      /\ g.account = grant[d].account /\ g.version = grant[d].version
  BY <1>3 DEF Grant
<1> HIDE DEF g
<1>5. GrantChecked(g)
  BY <1>1, <1>3, <1>4 DEF GrantChecked
<1>6. OperatorTypeOK'
  BY <1>1, <1>2, <1>3, <1>4, <1>5 DEF OperatorInv, OperatorTypeOK
<1>7. ApprovalsMeant'
  BY <1>1, <1>2, <1>3, <1>4 DEF OperatorInv, ApprovalsMeant, Done, Of
<1>8. (GrantsUsed /\ PollsMeant /\ OneTokenPerGrant)'
  BY <1>1, <1>3, <1>4 DEF OperatorInv, GrantsUsed, PollsMeant, OneTokenPerGrant
<1> QED
  BY <1>2, <1>6, <1>7, <1>8 DEF OperatorInv

LEMMA OperatorStepInv == OperatorInv /\ [OperatorNext]_operatorVars => OperatorInv'
<1> SUFFICES ASSUME OperatorInv, [OperatorNext]_operatorVars PROVE OperatorInv'
  OBVIOUS
<1>1. CASE (MfaNext \/ UNCHANGED mfaVars) /\ UNCHANGED grantVars
  BY <1>1, MfaStepKeepsGrants
<1>2. CASE \E d \in Devices \cup {NoDevice} : CreateGrant(d)
  BY <1>2, CreateGrantInv
<1>3. CASE \E d \in Devices : RevokeToken(d)
  BY <1>3, RevokeTokenInv
<1>4. CASE \E d \in Devices, r \in Requests : StartApproval(r, d)
  BY <1>4, StartApprovalInv
<1>5. CASE \E r \in Requests : Approve(r)
  BY <1>5, ApproveInv
<1>6. CASE \E p \in Polls : (\E d \in Devices : StartPoll(p, d)) \/ CheckPoll(p)
  BY <1>6, PollInv
<1>7. CASE \E p \in Polls : ClaimToken(p)
  BY <1>7, ClaimTokenInv
<1> QED
  BY <1>1, <1>2, <1>3, <1>4, <1>5, <1>6, <1>7 DEF OperatorNext, operatorVars

\* The invariant holds in every reachable state.
THEOREM OperatorInvariance == OperatorSpec => []OperatorInv
  BY OperatorInitInv, OperatorStepInv, PTL DEF OperatorSpec

\* Variables keep their types and rows the checks of their tables, whatever
\* the operations of sign-in, reset and device grants do.
THEOREM OperatorTypesCorrect == OperatorSpec => []OperatorTypeOK
<1>1. OperatorInv => OperatorTypeOK
  BY DEF OperatorInv
<1> QED
  BY <1>1, OperatorInvariance, PTL

\* A sign-in whose account, role, status or second factor changed after its
\* code was read gives no authorized session (consumeAdminMfaStep).
THEOREM SessionsStayCurrent == OperatorSpec => []SessionsCurrent
<1>1. OperatorInv => SessionsCurrent
  BY DEF OperatorInv, MfaInv, ChangesSeen, SessionsCurrent, Authorized, Current, Done, Holds,
         Code
<1> QED
  BY <1>1, OperatorInvariance, PTL

\* One time step of a secret never serves two requests.
THEOREM CodesServeOnce == OperatorSpec => []CodeUsedOnce
<1>1. OperatorInv => CodeUsedOnce
  BY DEF OperatorInv, MfaInv
<1> QED
  BY <1>1, OperatorInvariance, PTL

\* The answers of concurrent set-ups name one secret (ensurePendingAdminMfa).
THEOREM SetupAnswersHold == OperatorSpec => []AnswersHold
<1>1. OperatorInv => AnswersHold
  BY DEF OperatorInv, MfaInv
<1> QED
  BY <1>1, OperatorInvariance, PTL

\* A device token never outlives the session that approved its grant.
THEOREM TokensStayCurrent == OperatorSpec => []TokensCurrent
<1>1. OperatorInv => TokensCurrent
  <2> SUFFICES ASSUME OperatorInv, NEW d \in Devices, TokenAuthorized(d)
               PROVE  Authorized(grant[d].by) /\ Of(grant[d].by) = grant[d].account
    BY DEF TokensCurrent
  <2>1. grant[d].approved # 0
    BY DEF TokenAuthorized, OperatorInv, OperatorTypeOK, GrantChecked
  <2> QED
    BY <2>1 DEF TokenAuthorized, OperatorInv, ApprovalsMeant, Authorized, Current
<1> QED
  BY <1>1, OperatorInvariance, PTL

\* Of any number of polls of one grant, one obtains a token.
THEOREM GrantsServeOnce == OperatorSpec => []OneTokenPerGrant
<1>1. OperatorInv => OneTokenPerGrant
  BY DEF OperatorInv
<1> QED
  BY <1>1, OperatorInvariance, PTL

\* No approval replaces an earlier one (approveOperatorSession).
THEOREM ApproversStay == OperatorSpec => ApproverNeverReplaced
<1>1. OperatorInv /\ [OperatorNext]_operatorVars => ApproverStays
  <2> SUFFICES ASSUME OperatorInv, [OperatorNext]_operatorVars, NEW d \in Devices,
                      grant[d].approved # 0, grant[d].live'
               PROVE  grant[d].by' = grant[d].by /\ grant[d].version' = grant[d].version
    BY DEF ApproverStays
  <2>1. grant \in [Devices -> Grant] /\ grant[d].used
    BY DEF OperatorInv, OperatorTypeOK, GrantsUsed
  <2>2. CASE UNCHANGED grant
    BY <2>2
  <2>3. ASSUME NEW e \in Devices \cup {NoDevice}, CreateGrant(e)
        PROVE  grant[d].by' = grant[d].by /\ grant[d].version' = grant[d].version
    <3>1. d # e
      BY <2>1, <2>3, OperatorNamesAssumption DEF CreateGrant
    <3>2. grant'[d] = IF Purgeable(grant[d]) THEN [NoGrant EXCEPT !.used = grant[d].used]
                      ELSE grant[d]
      BY <2>3, <3>1 DEF CreateGrant
    <3> QED
      BY <3>2 DEF NoGrant
  <2>4. CASE \E e \in Devices : RevokeToken(e)
    BY <2>1, <2>4 DEF RevokeToken, Grant
  <2>5. CASE \E r \in Requests : Approve(r)
    BY <2>1, <2>5 DEF Approve, Approvable
  <2>6. CASE \E p \in Polls : ClaimToken(p)
    <3> PICK p \in Polls : ClaimToken(p)
      BY <2>6
    <3> DEFINE e == poll[p].device
               expires == poll[p].at + TokenTtl
    <3>1. \/ grant' = grant
          \/ grant' = [grant EXCEPT ![e] =
                 [grant[e] EXCEPT !.token = p, !.tokenExpires = expires]]
      BY DEF ClaimToken
    <3> HIDE DEF e, expires
    <3> DEFINE g == [grant[e] EXCEPT !.token = p, !.tokenExpires = expires]
    <3>2. e = d => g.by = grant[d].by /\ g.version = grant[d].version
      BY <2>1 DEF Grant
    <3>3. grant' = grant \/ grant' = [grant EXCEPT ![e] = g]
      BY <3>1
    <3> HIDE DEF g
    <3> QED
      BY <2>1, <3>2, <3>3
  <2> QED
    BY <2>2, <2>3, <2>4, <2>5, <2>6
    DEF OperatorNext, operatorVars, grantVars, StartApproval, StartPoll, CheckPoll
<1>2. OperatorInv /\ [OperatorNext]_operatorVars => [ApproverStays]_operatorVars
  BY <1>1
<1> QED
  BY <1>2, OperatorInvariance, PTL DEF OperatorSpec, ApproverNeverReplaced

=============================================================================
