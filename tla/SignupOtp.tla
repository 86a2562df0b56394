------------------------------ MODULE SignupOtp ------------------------------
(***************************************************************************)
(* Sign-up with a code sent by e-mail. A request for a code replaces the   *)
(* pending challenges of its address and commits before the mail is sent;  *)
(* a guess reads the challenge, compares, and only then updates it; a      *)
(* verified challenge is consumed together with the account's creation.    *)
(* Guesses, requests and failing mails of several visitors interleave.     *)
(***************************************************************************)
EXTENDS Integers, Sequences

CONSTANTS Emails, Nicknames,
          Visitors,        \* requests that are being handled
          MaxFailures,     \* wrong guesses that a challenge bears
          EmailLimit,      \* codes for an address in one window,
          IpLimit,         \*   and for the visitors' common network address
          MaxChallenges    \* bound: challenges

ASSUME SignupAssumption == MaxFailures \in Nat \ {0} /\ EmailLimit \in Nat /\ IpLimit \in Nat

VARIABLES challenge,  \* email_verification_challenge, in order of creation
          cooling,    \* addresses whose last code is less than a minute old
          counts,     \* codes in this window, by address and altogether
          visitor,    \* visitor[v]: what the handler has read or is sending
          accounts    \* account, profile and credential

otpVars == <<challenge, cooling, counts, visitor, accounts>>

\* mail: whether the code's mail failed for certain. The column expiresAt is
\* "expired" as soon as a handler would find it so.
Challenge == [email : Emails, status : {"PENDING", "VERIFIED", "CONSUMED", "INVALIDATED"},
              failed : 0 .. MaxFailures, expired : BOOLEAN, mail : {"sending", "failed", "sent"}]
Visitor == [does : {"nothing", "mailing", "guessing"}, challenge : Nat, right : BOOLEAN]
Idle == [does |-> "nothing", challenge |-> 0, right |-> FALSE]
Account == [email : Emails, nickname : Nicknames, challenge : Nat]

OtpTypeOK ==
    /\ challenge \in Seq(Challenge)
    /\ cooling \subseteq Emails
    /\ counts \in [email : [Emails -> Nat], ip : Nat]
    /\ visitor \in [Visitors -> Visitor]
    /\ accounts \subseteq Account

OtpInit ==
    /\ challenge = <<>> /\ cooling = {} /\ accounts = {}
    /\ counts = [email |-> [a \in Emails |-> 0], ip |-> 0]
    /\ visitor = [v \in Visitors |-> Idle]

Of(a) == {i \in DOMAIN challenge : challenge[i].email = a}

\* invalidatePendingChallenges.
Superseded(a) ==
    [i \in DOMAIN challenge |->
        IF challenge[i].email = a /\ challenge[i].status = "PENDING"
        THEN [challenge[i] EXCEPT !.status = "INVALIDATED"] ELSE challenge[i]]

\* requestOtp's transaction, alone for its address under the advisory lock. A
\* refusal (cooldown, either limit) rolls both counts back.
RequestOtp(v, a) ==
    /\ visitor[v] = Idle
    /\ a \notin cooling
    /\ counts.email[a] < EmailLimit /\ counts.ip < IpLimit
    /\ Len(challenge) < MaxChallenges
    /\ challenge' = Append(Superseded(a), [email |-> a, status |-> "PENDING", failed |-> 0,
                                           expired |-> FALSE, mail |-> "sending"])
    /\ cooling' = cooling \cup {a}
    /\ counts' = [email |-> [counts.email EXCEPT ![a] = @ + 1], ip |-> counts.ip + 1]
    /\ visitor' = [visitor EXCEPT ![v] =
           [does |-> "mailing", challenge |-> Len(challenge) + 1, right |-> FALSE]]
    /\ UNCHANGED accounts

\* The mail is accepted, its outcome is unknown, or the handler dies.
MailLeaves(v) ==
    /\ visitor[v].does = "mailing"
    /\ challenge' = [challenge EXCEPT ![visitor[v].challenge].mail = "sent"]
    /\ visitor' = [visitor EXCEPT ![v] = Idle]
    /\ UNCHANGED <<cooling, counts, accounts>>

\* Fault: whatever is pending for the address is invalidated.
InvalidatedAllFault(i) == Superseded(challenge[i].email)
\* invalidateChallenge: the failed mail's own challenge, if it is still pending.
Invalidated(i) ==
    IF challenge[i].status = "PENDING" THEN [challenge EXCEPT ![i].status = "INVALIDATED"]
    ELSE challenge

\* SignupEmailSuppressedError, or a definite delivery failure.
MailFails(v) ==
    LET i == visitor[v].challenge
    IN /\ visitor[v].does = "mailing"
       /\ challenge' = [Invalidated(i) EXCEPT ![i].mail = "failed"]
       /\ visitor' = [visitor EXCEPT ![v] = Idle]
       /\ UNCHANGED <<cooling, counts, accounts>>

\* verifyOtp up to the comparison.
ReadChallenge(v, i, right) ==
    /\ visitor[v] = Idle
    /\ i \in DOMAIN challenge
    /\ challenge[i].status = "PENDING" /\ ~challenge[i].expired
    /\ challenge[i].failed < MaxFailures
    /\ visitor' = [visitor EXCEPT ![v] =
           [does |-> "guessing", challenge |-> i, right |-> right]]
    /\ UNCHANGED <<challenge, cooling, counts, accounts>>

\* Fault: what was read is not asked again.
OpenAsReadFault(c) == c.status = "PENDING"
\* The condition of both updates. They compare expiresAt with the time at which
\* the handler began, which the read has found before it.
Open(c) == c.status = "PENDING" /\ c.failed < MaxFailures

\* incrementFailedAttempts, markChallengeVerified.
Guess(v) ==
    LET i == visitor[v].challenge
        c == challenge[i]
    IN /\ visitor[v].does = "guessing"
       /\ challenge' = [challenge EXCEPT ![i] =
              IF ~Open(c) THEN c
              ELSE IF visitor[v].right THEN [c EXCEPT !.status = "VERIFIED"]
              ELSE [c EXCEPT !.failed = @ + 1]]
       /\ visitor' = [visitor EXCEPT ![v] = Idle]
       /\ UNCHANGED <<cooling, counts, accounts>>

\* completeSignup. A conflict of e-mail or nickname rolls everything back.
CompleteSignup(i, n) ==
    /\ i \in DOMAIN challenge /\ challenge[i].status = "VERIFIED"
    /\ \A b \in accounts : b.email # challenge[i].email /\ b.nickname # n
    /\ challenge' = [challenge EXCEPT ![i].status = "CONSUMED"]
    /\ accounts' = accounts \cup {[email |-> challenge[i].email, nickname |-> n, challenge |-> i]}
    /\ UNCHANGED <<cooling, counts, visitor>>

\* Time: a minute, the code's five minutes, an hour. A code that is still
\* cooling has not expired.
CoolDown(a) ==
    /\ a \in cooling /\ cooling' = cooling \ {a}
    /\ UNCHANGED <<challenge, counts, visitor, accounts>>

Expire(i) ==
    /\ i \in DOMAIN challenge /\ ~challenge[i].expired
    /\ challenge[i].email \in cooling => \E j \in Of(challenge[i].email) : i < j
    /\ challenge' = [challenge EXCEPT ![i].expired = TRUE]
    /\ UNCHANGED <<cooling, counts, visitor, accounts>>

NewWindow ==
    /\ counts.ip > 0
    /\ counts' = [email |-> [a \in Emails |-> 0], ip |-> 0]
    /\ UNCHANGED <<challenge, cooling, visitor, accounts>>

OtpNext ==
    \/ \E v \in Visitors :
          \/ \E a \in Emails : RequestOtp(v, a)
          \/ MailLeaves(v) \/ MailFails(v) \/ Guess(v)
          \/ \E i \in 1 .. MaxChallenges, right \in BOOLEAN : ReadChallenge(v, i, right)
    \/ \E i \in 1 .. MaxChallenges :
          (\E n \in Nicknames : CompleteSignup(i, n)) \/ Expire(i)
    \/ \E a \in Emails : CoolDown(a)
    \/ NewWindow

OtpSpec == OtpInit /\ [][OtpNext]_otpVars

-----------------------------------------------------------------------------
(* Properties.                                                             *)

\* A challenge that passed was open when it passed: parallel guesses do not buy
\* a right one after the last wrong one that is allowed.
PassedInTime ==
    \A i \in DOMAIN challenge :
        challenge[i].status \in {"VERIFIED", "CONSUMED"} => challenge[i].failed < MaxFailures

\* Accounts and consumed challenges belong to each other one by one.
AccountsConsume ==
    /\ \A b \in accounts :
          /\ b.challenge \in DOMAIN challenge
          /\ challenge[b.challenge].status = "CONSUMED"
          /\ challenge[b.challenge].email = b.email
    /\ \A b, c \in accounts : b.email = c.email \/ b.nickname = c.nickname
                                 \/ b.challenge = c.challenge => b = c
    /\ \A i \in DOMAIN challenge :
          challenge[i].status = "CONSUMED" => \E b \in accounts : b.challenge = i

\* However guesses, requests and sign-ups interleave, each account rests on a
\* challenge of its own that was verified before its guesses were used up.
SignupSound == PassedInTime /\ AccountsConsume

\* A code is only taken from a visitor for a reason: its own mail failed, or a
\* newer code was requested for its address. And only the newest is pending.
InvalidatedForCause ==
    \A i \in DOMAIN challenge :
        LET newer == \E j \in Of(challenge[i].email) : i < j
        IN /\ challenge[i].status = "INVALIDATED" => challenge[i].mail = "failed" \/ newer
           /\ challenge[i].status = "PENDING" => ~newer

=============================================================================
