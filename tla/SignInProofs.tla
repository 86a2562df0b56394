----------------------------- MODULE SignInProofs -----------------------------
(***************************************************************************)
(* SignupOtp for any number of addresses, visitors, challenges and wrong   *)
(* guesses: what a handler has read of a challenge may be old, but the     *)
(* conditional updates keep the challenge's own story. AttemptLimiter for  *)
(* any number of attempts, accounts, points and windows.                   *)
(***************************************************************************)
EXTENDS SignupOtp, AttemptLimiter, FiniteSetTheorems, TLAPS

-----------------------------------------------------------------------------
(* Sign-up.                                                                   *)

\* A handler works on a challenge that is there; the one whose mail it sends is
\* its own.
Handling ==
    /\ \A v \in Visitors : visitor[v].does # "nothing" => visitor[v].challenge \in DOMAIN challenge
    /\ \A v \in Visitors : visitor[v].does = "mailing" =>
          challenge[visitor[v].challenge].mail = "sending"
    /\ \A v, w \in Visitors :
          /\ visitor[v].does = "mailing" /\ visitor[w].does = "mailing"
          /\ visitor[v].challenge = visitor[w].challenge
          => v = w

OtpInv ==
    /\ OtpTypeOK /\ Handling
    /\ PassedInTime /\ AccountsConsume /\ InvalidatedForCause

LEMMA OtpInitial == OtpInit => OtpInv
<1> SUFFICES ASSUME OtpInit PROVE OtpInv
    OBVIOUS
<1>1. Idle \in Visitor
    BY DEF Idle, Visitor
<1>2. OtpTypeOK
    BY <1>1 DEF OtpInit, OtpTypeOK
<1>3. Handling
    BY DEF OtpInit, Handling, Idle
<1>4. PassedInTime /\ AccountsConsume /\ InvalidatedForCause
    BY DEF OtpInit, PassedInTime, AccountsConsume, InvalidatedForCause, Of
<1> QED  BY <1>2, <1>3, <1>4 DEF OtpInv

\* Superseding pending challenges changes nothing but their status.
LEMMA SupersededIs ==
    ASSUME challenge \in Seq(Challenge), NEW a \in Emails
    PROVE  /\ Superseded(a) \in Seq(Challenge) /\ Len(Superseded(a)) = Len(challenge)
           /\ \A i \in 1 .. Len(challenge) :
                 /\ Superseded(a)[i] \in Challenge
                 /\ Superseded(a)[i].email = challenge[i].email
                 /\ Superseded(a)[i].failed = challenge[i].failed
                 /\ Superseded(a)[i].mail = challenge[i].mail
                 /\ IF challenge[i].email = a /\ challenge[i].status = "PENDING"
                    THEN Superseded(a)[i].status = "INVALIDATED"
                    ELSE Superseded(a)[i].status = challenge[i].status
<1> DEFINE n == Len(challenge)
<1>1. n \in Nat /\ DOMAIN challenge = 1 .. n /\ \A i \in 1 .. n : challenge[i] \in Challenge
    OBVIOUS
<1>2. ASSUME NEW i \in 1 .. n
      PROVE  /\ Superseded(a)[i] \in Challenge
             /\ Superseded(a)[i].email = challenge[i].email
             /\ Superseded(a)[i].failed = challenge[i].failed
             /\ Superseded(a)[i].mail = challenge[i].mail
             /\ IF challenge[i].email = a /\ challenge[i].status = "PENDING"
                THEN Superseded(a)[i].status = "INVALIDATED"
                ELSE Superseded(a)[i].status = challenge[i].status
    <2>1. challenge[i] \in Challenge
        BY <1>1
    <2>2. [challenge[i] EXCEPT !.status = "INVALIDATED"] \in Challenge
        BY <2>1 DEF Challenge
    <2>3. Superseded(a)[i] = IF challenge[i].email = a /\ challenge[i].status = "PENDING"
                             THEN [challenge[i] EXCEPT !.status = "INVALIDATED"]
                             ELSE challenge[i]
        BY <1>1 DEF Superseded
    <2> QED  BY <2>1, <2>2, <2>3 DEF Challenge
<1>3. Superseded(a) \in [1 .. n -> Challenge]
    BY <1>1, <1>2 DEF Superseded
<1>4. Superseded(a) \in Seq(Challenge) /\ Len(Superseded(a)) = n
    BY <1>1, <1>3
<1> QED  BY <1>2, <1>4

\* An update of one challenge in place.
LEMMA UpdatedIs ==
    ASSUME challenge \in Seq(Challenge), NEW i \in DOMAIN challenge, NEW c \in Challenge
    PROVE  /\ [challenge EXCEPT ![i] = c] \in Seq(Challenge)
           /\ Len([challenge EXCEPT ![i] = c]) = Len(challenge)
           /\ DOMAIN [challenge EXCEPT ![i] = c] = 1 .. Len(challenge)
           /\ \A j \in 1 .. Len(challenge) :
                 [challenge EXCEPT ![i] = c][j] = IF j = i THEN c ELSE challenge[j]
OBVIOUS

\* A step that only moves pending challenges on, each for a reason, keeps the
\* story: guesses, mails, expiry.
LEMMA InPlace ==
    ASSUME OtpInv, challenge' \in Seq(Challenge), Len(challenge') = Len(challenge),
           UNCHANGED accounts,
           \A i \in 1 .. Len(challenge) :
              /\ challenge'[i].email = challenge[i].email
              /\ \/ challenge'[i].status = challenge[i].status
                 \/ /\ challenge[i].status = "PENDING" /\ challenge'[i].status = "VERIFIED"
                    /\ challenge'[i].failed < MaxFailures
                 \/ /\ challenge[i].status = "PENDING" /\ challenge'[i].status = "INVALIDATED"
                    /\ challenge'[i].mail = "failed"
              /\ \/ challenge'[i].failed = challenge[i].failed
                 \/ challenge'[i].status = "PENDING"
              /\ challenge[i].mail = "failed" => challenge'[i].mail = "failed"
    PROVE  PassedInTime' /\ AccountsConsume' /\ InvalidatedForCause'
<1>1. /\ challenge \in Seq(Challenge) /\ DOMAIN challenge = 1 .. Len(challenge)
      /\ DOMAIN challenge' = 1 .. Len(challenge) /\ Len(challenge) \in Nat
    BY DEF OtpInv, OtpTypeOK
<1>2. PassedInTime'
    <2> SUFFICES ASSUME NEW i \in 1 .. Len(challenge), challenge'[i].status \in {"VERIFIED", "CONSUMED"}
                 PROVE  challenge'[i].failed < MaxFailures
        BY <1>1 DEF PassedInTime
    <2> QED  BY <1>1 DEF OtpInv, PassedInTime
<1>3. \A i \in 1 .. Len(challenge) :
         challenge'[i].status = "CONSUMED" <=> challenge[i].status = "CONSUMED"
    OBVIOUS
<1>4. AccountsConsume'
    BY <1>1, <1>3 DEF OtpInv, AccountsConsume
<1>5. InvalidatedForCause'
    <2> SUFFICES ASSUME NEW i \in 1 .. Len(challenge)
                 PROVE  /\ challenge'[i].status = "INVALIDATED" =>
                              \/ challenge'[i].mail = "failed"
                              \/ \E j \in 1 .. Len(challenge) :
                                    challenge'[j].email = challenge'[i].email /\ i < j
                        /\ challenge'[i].status = "PENDING" =>
                              ~\E j \in 1 .. Len(challenge) :
                                    challenge'[j].email = challenge'[i].email /\ i < j
        BY <1>1 DEF InvalidatedForCause, Of
    <2>1. /\ challenge[i].status = "INVALIDATED" =>
                \/ challenge[i].mail = "failed"
                \/ \E j \in 1 .. Len(challenge) : challenge[j].email = challenge[i].email /\ i < j
          /\ challenge[i].status = "PENDING" =>
                ~\E j \in 1 .. Len(challenge) : challenge[j].email = challenge[i].email /\ i < j
        BY <1>1 DEF OtpInv, InvalidatedForCause, Of
    <2> QED  BY <2>1
<1> QED  BY <1>2, <1>4, <1>5

\* A new code: what is pending for its address gives way.
LEMMA RequestStep ==
    ASSUME OtpInv, NEW v \in Visitors, NEW a \in Emails, RequestOtp(v, a)
    PROVE  OtpInv'
<1> DEFINE n == Len(challenge)
           row == [email |-> a, status |-> "PENDING", failed |-> 0, expired |-> FALSE,
                   mail |-> "sending"]
           busy == [does |-> "mailing", challenge |-> n + 1, right |-> FALSE]
           s == Superseded(a)
<1>t. /\ challenge \in Seq(Challenge) /\ visitor \in [Visitors -> Visitor]
      /\ cooling \subseteq Emails /\ counts \in [email : [Emails -> Nat], ip : Nat]
      /\ accounts \subseteq Account
    BY DEF OtpInv, OtpTypeOK
<1>n. n \in Nat /\ DOMAIN challenge = 1 .. n
    BY <1>t
<1>1. row \in Challenge
    BY SignupAssumption DEF Challenge
<1>s. /\ s \in Seq(Challenge) /\ Len(s) = n
      /\ \A i \in 1 .. n :
            /\ s[i] \in Challenge
            /\ s[i].email = challenge[i].email
            /\ s[i].failed = challenge[i].failed
            /\ s[i].mail = challenge[i].mail
            /\ IF challenge[i].email = a /\ challenge[i].status = "PENDING"
               THEN s[i].status = "INVALIDATED"
               ELSE s[i].status = challenge[i].status
    BY <1>t, SupersededIs
<1>2. challenge' = Append(s, row) /\ UNCHANGED accounts
    BY DEF RequestOtp
<1>r. row.email = a /\ row.status = "PENDING" /\ row.mail = "sending"
    OBVIOUS
<1>3. visitor' = [visitor EXCEPT ![v] = busy]
    BY DEF RequestOtp
<1>b. busy \in Visitor /\ busy.does = "mailing" /\ busy.challenge = n + 1
    BY <1>n DEF Visitor
<1>c. cooling' \subseteq Emails /\ counts' \in [email : [Emails -> Nat], ip : Nat]
    BY <1>t DEF RequestOtp
<1> HIDE DEF s, row, busy
<1>4. /\ challenge' \in Seq(Challenge) /\ Len(challenge') = n + 1
      /\ DOMAIN challenge' = 1 .. (n + 1)
      /\ challenge'[n + 1] = row /\ \A i \in 1 .. n : challenge'[i] = s[i]
    BY <1>1, <1>s, <1>2, <1>n
<1> HIDE DEF n
<1>5. OtpTypeOK'
    BY <1>t, <1>b, <1>c, <1>2, <1>3, <1>4 DEF OtpTypeOK
<1>6. Handling'
    <2>1. \A w \in Visitors : visitor'[w] = IF w = v THEN busy ELSE visitor[w]
        BY <1>t, <1>3
    <2>2. \A w \in Visitors : visitor[w].does # "nothing" => visitor[w].challenge \in 1 .. n
        BY <1>n DEF OtpInv, Handling
    <2> QED  BY <2>1, <2>2, <1>n, <1>b, <1>r, <1>s, <1>4 DEF OtpInv, Handling
<1>7. PassedInTime'
    <2> SUFFICES ASSUME NEW i \in 1 .. (n + 1), challenge'[i].status \in {"VERIFIED", "CONSUMED"}
                 PROVE  challenge'[i].failed < MaxFailures
        BY <1>4 DEF PassedInTime
    <2>1. i \in 1 .. n
        BY <1>n, <1>r, <1>4
    <2> QED  BY <2>1, <1>n, <1>s, <1>4 DEF OtpInv, PassedInTime
<1>8. AccountsConsume'
    <2>1. \A i \in 1 .. (n + 1) : challenge'[i].status = "CONSUMED" =>
             i \in 1 .. n /\ challenge[i].status = "CONSUMED"
        BY <1>n, <1>r, <1>s, <1>4
    <2>2. \A i \in 1 .. n : /\ challenge[i].status = "CONSUMED" => challenge'[i].status = "CONSUMED"
                            /\ challenge'[i].email = challenge[i].email
                            /\ i \in 1 .. (n + 1)
        BY <1>n, <1>s, <1>4
    <2> QED  BY <2>1, <2>2, <1>n, <1>2, <1>4 DEF OtpInv, AccountsConsume
<1>9. InvalidatedForCause'
    <2> SUFFICES ASSUME NEW i \in 1 .. (n + 1)
                 PROVE  /\ challenge'[i].status = "INVALIDATED" =>
                              \/ challenge'[i].mail = "failed"
                              \/ \E j \in 1 .. (n + 1) :
                                    challenge'[j].email = challenge'[i].email /\ i < j
                        /\ challenge'[i].status = "PENDING" =>
                              ~\E j \in 1 .. (n + 1) :
                                    challenge'[j].email = challenge'[i].email /\ i < j
        BY <1>4 DEF InvalidatedForCause, Of
    <2>1. CASE i = n + 1
        BY <2>1, <1>n, <1>r, <1>4
    <2>2. CASE i \in 1 .. n
        <3>1. /\ challenge[i].status = "INVALIDATED" =>
                    \/ challenge[i].mail = "failed"
                    \/ \E j \in 1 .. n : challenge[j].email = challenge[i].email /\ i < j
              /\ challenge[i].status = "PENDING" =>
                    ~\E j \in 1 .. n : challenge[j].email = challenge[i].email /\ i < j
            BY <2>2, <1>n DEF OtpInv, InvalidatedForCause, Of
        <3>2. n + 1 \in 1 .. (n + 1) /\ i < n + 1 /\ \A j \in 1 .. n : j \in 1 .. (n + 1)
            BY <2>2, <1>n
        <3>3. \A j \in 1 .. (n + 1) : j = n + 1 \/ j \in 1 .. n
            BY <1>n
        <3>4. challenge'[n + 1].email = a
            BY <1>r, <1>4
        <3>5. CASE challenge[i].email = a /\ challenge[i].status = "PENDING"
            BY <2>2, <3>2, <3>4, <3>5, <1>s, <1>4
        <3>6. CASE ~(challenge[i].email = a /\ challenge[i].status = "PENDING")
            BY <2>2, <3>1, <3>2, <3>3, <3>4, <3>6, <1>s, <1>4
        <3> QED  BY <3>5, <3>6
    <2> QED  BY <2>1, <2>2, <1>n
<1> QED  BY <1>5, <1>6, <1>7, <1>8, <1>9 DEF OtpInv

\* A visitor who is done, while challenges keep their mail.
LEMMA IdleAgain ==
    ASSUME OtpInv, NEW v \in Visitors, visitor' = [visitor EXCEPT ![v] = Idle],
           DOMAIN challenge' = DOMAIN challenge,
           \A i \in DOMAIN challenge :
              challenge'[i].mail = challenge[i].mail \/ i = visitor[v].challenge,
           visitor[v].does = "mailing" \/ \A i \in DOMAIN challenge :
              challenge'[i].mail = challenge[i].mail
    PROVE  Handling' /\ visitor' \in [Visitors -> Visitor]
<1>1. Idle \in Visitor /\ Idle.does = "nothing" /\ visitor \in [Visitors -> Visitor]
    BY DEF Idle, Visitor, OtpInv, OtpTypeOK
<1>2. \A w \in Visitors : visitor'[w] = IF w = v THEN Idle ELSE visitor[w]
    BY <1>1
<1> QED  BY <1>1, <1>2 DEF OtpInv, Handling

LEMMA MailLeavesStep ==
    ASSUME OtpInv, NEW v \in Visitors, MailLeaves(v)
    PROVE  OtpInv'
<1> DEFINE i == visitor[v].challenge
           c == [challenge[i] EXCEPT !.mail = "sent"]
<1>t. /\ challenge \in Seq(Challenge) /\ visitor \in [Visitors -> Visitor]
      /\ i \in DOMAIN challenge /\ challenge[i].mail = "sending"
    BY DEF OtpInv, OtpTypeOK, Handling, MailLeaves
<1>1. challenge[i] \in Challenge /\ DOMAIN challenge = 1 .. Len(challenge)
    BY <1>t
<1>2. /\ c \in Challenge /\ c.email = challenge[i].email /\ c.status = challenge[i].status
      /\ c.failed = challenge[i].failed
    BY <1>1 DEF Challenge
<1>3. challenge' = [challenge EXCEPT ![i] = c]
    BY DEF MailLeaves
<1>4. /\ UNCHANGED <<cooling, counts, accounts>> /\ visitor' = [visitor EXCEPT ![v] = Idle]
      /\ visitor[v].does = "mailing"
    BY DEF MailLeaves
<1> HIDE DEF c
<1>5. /\ challenge' \in Seq(Challenge) /\ Len(challenge') = Len(challenge)
      /\ DOMAIN challenge' = DOMAIN challenge
      /\ \A j \in 1 .. Len(challenge) : challenge'[j] = IF j = i THEN c ELSE challenge[j]
    BY <1>t, <1>1, <1>2, <1>3, UpdatedIs
<1>6. Handling' /\ visitor' \in [Visitors -> Visitor]
    BY <1>1, <1>4, <1>5, IdleAgain
<1>7. PassedInTime' /\ AccountsConsume' /\ InvalidatedForCause'
    BY <1>t, <1>2, <1>4, <1>5, InPlace
<1> QED  BY <1>4, <1>5, <1>6, <1>7 DEF OtpInv, OtpTypeOK

LEMMA MailFailsStep ==
    ASSUME OtpInv, NEW v \in Visitors, MailFails(v)
    PROVE  OtpInv'
<1> DEFINE i == visitor[v].challenge
           c == IF challenge[i].status = "PENDING"
                THEN [challenge[i] EXCEPT !.status = "INVALIDATED", !.mail = "failed"]
                ELSE [challenge[i] EXCEPT !.mail = "failed"]
<1>t. /\ challenge \in Seq(Challenge) /\ visitor \in [Visitors -> Visitor]
      /\ i \in DOMAIN challenge
    BY DEF OtpInv, OtpTypeOK, Handling, MailFails
<1>1. challenge[i] \in Challenge /\ DOMAIN challenge = 1 .. Len(challenge)
    BY <1>t
<1>2. /\ c \in Challenge /\ c.email = challenge[i].email /\ c.mail = "failed"
      /\ c.failed = challenge[i].failed
      /\ c.status = IF challenge[i].status = "PENDING" THEN "INVALIDATED" ELSE challenge[i].status
    BY <1>1 DEF Challenge
<1>3. challenge' = [challenge EXCEPT ![i] = c]
    BY <1>t DEF MailFails, Invalidated
<1>4. /\ UNCHANGED <<cooling, counts, accounts>> /\ visitor' = [visitor EXCEPT ![v] = Idle]
      /\ visitor[v].does = "mailing"
    BY DEF MailFails
<1> HIDE DEF c
<1>5. /\ challenge' \in Seq(Challenge) /\ Len(challenge') = Len(challenge)
      /\ DOMAIN challenge' = DOMAIN challenge
      /\ \A j \in 1 .. Len(challenge) : challenge'[j] = IF j = i THEN c ELSE challenge[j]
    BY <1>t, <1>1, <1>2, <1>3, UpdatedIs
<1>6. Handling' /\ visitor' \in [Visitors -> Visitor]
    BY <1>1, <1>4, <1>5, IdleAgain
<1>7. PassedInTime' /\ AccountsConsume' /\ InvalidatedForCause'
    BY <1>t, <1>2, <1>4, <1>5, InPlace
<1> QED  BY <1>4, <1>5, <1>6, <1>7 DEF OtpInv, OtpTypeOK

LEMMA GuessStep ==
    ASSUME OtpInv, NEW v \in Visitors, Guess(v)
    PROVE  OtpInv'
<1> DEFINE i == visitor[v].challenge
           c == IF ~Open(challenge[i]) THEN challenge[i]
                ELSE IF visitor[v].right THEN [challenge[i] EXCEPT !.status = "VERIFIED"]
                ELSE [challenge[i] EXCEPT !.failed = challenge[i].failed + 1]
<1>t. /\ challenge \in Seq(Challenge) /\ visitor \in [Visitors -> Visitor]
      /\ i \in DOMAIN challenge
    BY DEF OtpInv, OtpTypeOK, Handling, Guess
<1>1. challenge[i] \in Challenge /\ DOMAIN challenge = 1 .. Len(challenge)
    BY <1>t
<1>2. /\ c \in Challenge /\ c.email = challenge[i].email /\ c.mail = challenge[i].mail
      /\ \/ c.failed = challenge[i].failed /\ c.status = challenge[i].status
         \/ /\ challenge[i].status = "PENDING" /\ c.status = "VERIFIED"
            /\ c.failed = challenge[i].failed /\ c.failed < MaxFailures
         \/ c.status = "PENDING" /\ challenge[i].status = "PENDING"
    BY <1>1, SignupAssumption DEF Challenge, Open
<1>3. challenge' = [challenge EXCEPT ![i] = c]
    BY DEF Guess
<1>4. /\ UNCHANGED <<cooling, counts, accounts>> /\ visitor' = [visitor EXCEPT ![v] = Idle]
    BY DEF Guess
<1> HIDE DEF c
<1>5. /\ challenge' \in Seq(Challenge) /\ Len(challenge') = Len(challenge)
      /\ DOMAIN challenge' = DOMAIN challenge
      /\ \A j \in 1 .. Len(challenge) : challenge'[j] = IF j = i THEN c ELSE challenge[j]
    BY <1>t, <1>1, <1>2, <1>3, UpdatedIs
<1>6. Handling' /\ visitor' \in [Visitors -> Visitor]
    BY <1>1, <1>2, <1>4, <1>5, IdleAgain
<1>7. PassedInTime' /\ AccountsConsume' /\ InvalidatedForCause'
    BY <1>t, <1>2, <1>4, <1>5, InPlace
<1> QED  BY <1>4, <1>5, <1>6, <1>7 DEF OtpInv, OtpTypeOK

LEMMA ReadStep ==
    ASSUME OtpInv, NEW v \in Visitors, NEW i, NEW right \in BOOLEAN,
           ReadChallenge(v, i, right)
    PROVE  OtpInv'
<1> DEFINE busy == [does |-> "guessing", challenge |-> i, right |-> right]
<1>t. challenge \in Seq(Challenge) /\ visitor \in [Visitors -> Visitor] /\ i \in DOMAIN challenge
    BY DEF OtpInv, OtpTypeOK, ReadChallenge
<1>1. busy \in Visitor /\ busy.does = "guessing" /\ busy.challenge = i
    BY <1>t DEF Visitor
<1>2. visitor' = [visitor EXCEPT ![v] = busy] /\ UNCHANGED <<challenge, cooling, counts, accounts>>
    BY DEF ReadChallenge
<1> HIDE DEF busy
<1>3. visitor' \in [Visitors -> Visitor]
      /\ \A w \in Visitors : visitor'[w] = IF w = v THEN busy ELSE visitor[w]
    BY <1>t, <1>1, <1>2
<1>4. Handling'
    BY <1>t, <1>1, <1>2, <1>3 DEF OtpInv, Handling
<1>5. PassedInTime' /\ AccountsConsume' /\ InvalidatedForCause'
    BY <1>2 DEF OtpInv, PassedInTime, AccountsConsume, InvalidatedForCause, Of
<1> QED  BY <1>2, <1>3, <1>4, <1>5 DEF OtpInv, OtpTypeOK

\* An account takes its challenge with it.
LEMMA SignupStep ==
    ASSUME OtpInv, NEW i, NEW n \in Nicknames, CompleteSignup(i, n)
    PROVE  OtpInv'
<1> DEFINE c == [challenge[i] EXCEPT !.status = "CONSUMED"]
           new == [email |-> challenge[i].email, nickname |-> n, challenge |-> i]
<1>t. /\ challenge \in Seq(Challenge) /\ i \in DOMAIN challenge /\ accounts \subseteq Account
      /\ challenge[i].status = "VERIFIED"
    BY DEF OtpInv, OtpTypeOK, CompleteSignup
<1>1. challenge[i] \in Challenge /\ DOMAIN challenge = 1 .. Len(challenge) /\ i \in Nat
    BY <1>t
<1>2. /\ c \in Challenge /\ c.email = challenge[i].email /\ c.status = "CONSUMED"
      /\ c.failed = challenge[i].failed /\ c.mail = challenge[i].mail
    BY <1>1 DEF Challenge
<1>3. /\ challenge' = [challenge EXCEPT ![i] = c] /\ accounts' = accounts \cup {new}
      /\ UNCHANGED <<cooling, counts, visitor>>
      /\ \A b \in accounts : b.email # challenge[i].email /\ b.nickname # n
    BY DEF CompleteSignup
<1>4. /\ new \in Account /\ new.email = challenge[i].email /\ new.nickname = n
      /\ new.challenge = i
    BY <1>1 DEF Account, Challenge
<1> HIDE DEF c, new
<1>5. /\ challenge' \in Seq(Challenge) /\ DOMAIN challenge' = DOMAIN challenge
      /\ \A j \in DOMAIN challenge : challenge'[j] = IF j = i THEN c ELSE challenge[j]
    BY <1>t, <1>1, <1>2, <1>3, UpdatedIs
<1>6. OtpTypeOK'
    BY <1>3, <1>4, <1>5 DEF OtpInv, OtpTypeOK
<1>7. Handling'
    BY <1>2, <1>3, <1>5 DEF OtpInv, Handling
<1>8. PassedInTime'
    BY <1>t, <1>2, <1>5 DEF OtpInv, PassedInTime
<1>9. AccountsConsume'
    <2>1. \A b \in accounts : b.challenge # i
        BY <1>t DEF OtpInv, AccountsConsume
    <2>2. \A b \in accounts' :
             /\ b.challenge \in DOMAIN challenge'
             /\ challenge'[b.challenge].status = "CONSUMED"
             /\ challenge'[b.challenge].email = b.email
        BY <2>1, <1>t, <1>2, <1>3, <1>4, <1>5 DEF OtpInv, AccountsConsume
    <2>3. \A b, d \in accounts' : b.email = d.email \/ b.nickname = d.nickname
                                     \/ b.challenge = d.challenge => b = d
        BY <2>1, <1>3, <1>4 DEF OtpInv, AccountsConsume
    <2>4. \A j \in DOMAIN challenge' :
             challenge'[j].status = "CONSUMED" => \E b \in accounts' : b.challenge = j
        BY <1>3, <1>4, <1>5 DEF OtpInv, AccountsConsume
    <2> QED  BY <2>2, <2>3, <2>4 DEF AccountsConsume
<1>10. InvalidatedForCause'
    BY <1>t, <1>2, <1>5 DEF OtpInv, InvalidatedForCause, Of
<1> QED  BY <1>6, <1>7, <1>8, <1>9, <1>10 DEF OtpInv

\* Time only sets a challenge's expiry.
LEMMA ExpireStep ==
    ASSUME OtpInv, NEW i, Expire(i)
    PROVE  OtpInv'
<1> DEFINE c == [challenge[i] EXCEPT !.expired = TRUE]
<1>t. challenge \in Seq(Challenge) /\ i \in DOMAIN challenge
    BY DEF OtpInv, OtpTypeOK, Expire
<1>1. challenge[i] \in Challenge /\ DOMAIN challenge = 1 .. Len(challenge)
    BY <1>t
<1>2. /\ c \in Challenge /\ c.email = challenge[i].email /\ c.status = challenge[i].status
      /\ c.failed = challenge[i].failed /\ c.mail = challenge[i].mail
    BY <1>1 DEF Challenge
<1>3. challenge' = [challenge EXCEPT ![i] = c] /\ UNCHANGED <<cooling, counts, visitor, accounts>>
    BY DEF Expire
<1> HIDE DEF c
<1>4. /\ challenge' \in Seq(Challenge) /\ Len(challenge') = Len(challenge)
      /\ DOMAIN challenge' = DOMAIN challenge
      /\ \A j \in 1 .. Len(challenge) : challenge'[j] = IF j = i THEN c ELSE challenge[j]
    BY <1>t, <1>1, <1>2, <1>3, UpdatedIs
<1>5. Handling'
    BY <1>1, <1>2, <1>3, <1>4 DEF OtpInv, Handling
<1>6. PassedInTime' /\ AccountsConsume' /\ InvalidatedForCause'
    BY <1>t, <1>2, <1>3, <1>4, InPlace
<1> QED  BY <1>3, <1>4, <1>5, <1>6 DEF OtpInv, OtpTypeOK

LEMMA OtherStep ==
    ASSUME OtpInv, (\E a \in Emails : CoolDown(a)) \/ NewWindow \/ UNCHANGED otpVars
    PROVE  OtpInv'
<1>1. UNCHANGED <<challenge, visitor, accounts>>
    BY DEF CoolDown, NewWindow, otpVars
<1>2. cooling' \subseteq Emails /\ counts' \in [email : [Emails -> Nat], ip : Nat]
    BY DEF OtpInv, OtpTypeOK, CoolDown, NewWindow, otpVars
<1>3. OtpTypeOK'
    BY <1>1, <1>2 DEF OtpInv, OtpTypeOK
<1>4. Handling' /\ PassedInTime' /\ AccountsConsume' /\ InvalidatedForCause'
    BY <1>1 DEF OtpInv, Handling, PassedInTime, AccountsConsume, InvalidatedForCause, Of
<1> QED  BY <1>3, <1>4 DEF OtpInv

\* The strengthened invariant of sign-up, whatever its parameters.
THEOREM OtpInvariance == OtpSpec => []OtpInv
<1>1. OtpInv /\ [OtpNext]_otpVars => OtpInv'
    <2> SUFFICES ASSUME OtpInv, [OtpNext]_otpVars PROVE OtpInv'
        OBVIOUS
    <2>1. CASE \E v \in Visitors : \/ \E a \in Emails : RequestOtp(v, a)
                                   \/ MailLeaves(v) \/ MailFails(v) \/ Guess(v)
        BY <2>1, RequestStep, MailLeavesStep, MailFailsStep, GuessStep
    <2>2. CASE \E v \in Visitors, i \in 1 .. MaxChallenges, right \in BOOLEAN :
                  ReadChallenge(v, i, right)
        BY <2>2, ReadStep
    <2>3. CASE \E i \in 1 .. MaxChallenges : (\E n \in Nicknames : CompleteSignup(i, n)) \/ Expire(i)
        BY <2>3, SignupStep, ExpireStep
    <2>4. CASE (\E a \in Emails : CoolDown(a)) \/ NewWindow \/ UNCHANGED otpVars
        BY <2>4, OtherStep
    <2> QED  BY <2>1, <2>2, <2>3, <2>4 DEF OtpNext
<1> QED  BY <1>1, OtpInitial, PTL DEF OtpSpec

\* Each account rests on its own challenge, verified while guesses were left.
THEOREM SignupsAreSound == OtpSpec => []SignupSound
<1>1. OtpInv => SignupSound
    BY DEF OtpInv, SignupSound
<1> QED  BY <1>1, OtpInvariance, PTL

\* A pending code is the newest of its address, and is only taken for a reason.
THEOREM CodesKept == OtpSpec => []InvalidatedForCause
<1>1. OtpInv => InvalidatedForCause
    BY DEF OtpInv
<1> QED  BY <1>1, OtpInvariance, PTL

-----------------------------------------------------------------------------
(* The limiter.                                                               *)

LimiterTypeOK ==
    /\ time \in Nat /\ window \in [Keys -> Nat]
    /\ counter \in [Keys -> [points : Int, ends : Nat]]
    /\ attempt \in [Attempts -> Attempt]

\* Holders that were not refused by the counter of k.
Admitted(k) ==
    {r \in Holders(k) : attempt[r].phase # (IF k = Ip THEN "ipRefused" ELSE "refused")}

\* The counter outlives the window it counts for, and counts its holders.
KeyExact(k) ==
    /\ window[k] = 0 => counter[k].ends = 0
    /\ Live(k) => /\ counter[k].ends >= window[k]
                  /\ counter[k].points = Cardinality(Holders(k))
                  /\ Cardinality(Admitted(k)) <= Points(k)

\* An attempt's window is over or is the one that is remembered.
WindowsKnown ==
    \A r \in Attempts :
        /\ attempt[r].ip <= time \/ attempt[r].ip = window[Ip]
        /\ attempt[r].own <= time \/ attempt[r].own = window[attempt[r].account]

LimiterInv == LimiterTypeOK /\ WindowsKnown /\ \A k \in Keys : KeyExact(k)

LEMMA LimiterInitial == LimiterInit => LimiterInv
<1> SUFFICES ASSUME LimiterInit PROVE LimiterInv
    OBVIOUS
<1>1. LimiterTypeOK
    <2>1. attempt \in [Attempts -> Attempt]
        BY DEF LimiterInit, Attempt
    <2> QED  BY <2>1 DEF LimiterInit, LimiterTypeOK
<1>2. WindowsKnown
    BY DEF LimiterInit, WindowsKnown
<1>3. ASSUME NEW k \in Keys PROVE KeyExact(k)
    BY DEF LimiterInit, KeyExact, Live
<1> QED  BY <1>1, <1>2, <1>3 DEF LimiterInv

\* Sets of attempts are finite.
LEMMA HoldersFinite ==
    ASSUME NEW k \in Keys
    PROVE  /\ IsFiniteSet(Holders(k)) /\ Cardinality(Holders(k)) \in Nat
           /\ IsFiniteSet(Admitted(k)) /\ Cardinality(Admitted(k)) \in Nat
           /\ Cardinality(Admitted(k)) <= Cardinality(Holders(k))
<1>1. Holders(k) \in SUBSET Attempts /\ Admitted(k) \in SUBSET Holders(k)
    BY DEF Holders, Admitted
<1>2. IsFiniteSet(Holders(k))
    BY <1>1, FS_Subset, LimiterAssumption
<1>3. IsFiniteSet(Admitted(k)) /\ Cardinality(Admitted(k)) <= Cardinality(Holders(k))
    BY <1>1, <1>2, FS_Subset
<1> QED  BY <1>2, <1>3, FS_CardinalityType

\* A key whose window and counter stay, with the same holders: time may pass.
LEMMA KeyStays ==
    ASSUME LimiterTypeOK, NEW k \in Keys, KeyExact(k), time' \in Nat, time' >= time,
           window'[k] = window[k], counter'[k] = counter[k],
           Live(k)' => Holders(k)' = Holders(k) /\ Admitted(k)' \subseteq Admitted(k)
    PROVE  KeyExact(k)'
<1>1. window'[k] = 0 => counter'[k].ends = 0
    BY DEF KeyExact
<1>2. ASSUME Live(k)'
      PROVE  /\ counter'[k].ends >= window'[k]
             /\ counter'[k].points = Cardinality(Holders(k)')
             /\ Cardinality(Admitted(k)') <= Points(k)
    <2>1. Live(k)
        BY <1>2 DEF Live, LimiterTypeOK
    <2>2. Cardinality(Admitted(k)') <= Cardinality(Admitted(k)) /\ Cardinality(Admitted(k)') \in Nat
        BY <1>2, HoldersFinite, FS_Subset, FS_CardinalityType
    <2>3. Points(k) \in Nat /\ Cardinality(Admitted(k)) \in Nat
        BY HoldersFinite, LimiterAssumption DEF Points
    <2> QED  BY <2>1, <2>2, <2>3, <1>2 DEF KeyExact
<1> QED  BY <1>1, <1>2 DEF KeyExact

\* A key that is forgotten.
LEMMA KeyForgotten ==
    ASSUME NEW k \in Keys, time' \in Nat, window'[k] = 0, counter'[k].ends = 0
    PROVE  KeyExact(k)'
BY DEF KeyExact, Live

\* A key that gives a point back: the holder goes.
LEMMA KeyGives ==
    ASSUME LimiterTypeOK, NEW k \in Keys, KeyExact(k), NEW r \in Attempts, NEW end \in Nat,
           time' = time, window' = window, counter' = Refunded(k, end),
           Live(k) => /\ end = window[k] <=> r \in Holders(k)
                      /\ Holders(k)' = Holders(k) \ {r}
                      /\ Admitted(k)' \subseteq Admitted(k)
    PROVE  KeyExact(k)'
<1>1. CASE window[k] = end /\ end > time
    <2>1. Live(k) /\ Live(k)' /\ r \in Holders(k) /\ Holders(k)' = Holders(k) \ {r}
        BY <1>1 DEF Live
    <2>2. counter[k].ends > time
        BY <1>1, <2>1 DEF KeyExact, LimiterTypeOK
    <2>3. counter'[k] = [counter[k] EXCEPT !.points = counter[k].points + (-1)]
        BY <1>1, <2>2 DEF Refunded, Add, LimiterTypeOK
    <2>4. counter'[k].ends = counter[k].ends /\ counter'[k].points = counter[k].points - 1
        BY <2>3 DEF LimiterTypeOK
    <2>5. Cardinality(Holders(k)') = Cardinality(Holders(k)) - 1
        BY <2>1, HoldersFinite, FS_RemoveElement
    <2>6. Cardinality(Admitted(k)') <= Points(k)
        <3>1. Cardinality(Admitted(k)') <= Cardinality(Admitted(k)) /\ Cardinality(Admitted(k)') \in Nat
            BY <2>1, HoldersFinite, FS_Subset, FS_CardinalityType
        <3>2. Points(k) \in Nat /\ Cardinality(Admitted(k)) \in Nat
            BY HoldersFinite, LimiterAssumption DEF Points
        <3> QED  BY <3>1, <3>2, <2>1 DEF KeyExact
    <2>7. counter'[k].points = Cardinality(Holders(k)')
        BY <2>1, <2>4, <2>5 DEF KeyExact
    <2>8. window'[k] # 0 /\ counter'[k].ends >= window'[k]
        BY <1>1, <2>1, <2>4 DEF KeyExact, LimiterTypeOK
    <2> QED  BY <2>6, <2>7, <2>8 DEF KeyExact
<1>2. CASE ~(window[k] = end /\ end > time)
    <2>1. counter' = counter
        BY <1>2 DEF Refunded
    <2>2. Live(k) => Holders(k)' = Holders(k)
        <3> SUFFICES ASSUME Live(k) PROVE Holders(k)' = Holders(k)
            OBVIOUS
        <3>1. r \notin Holders(k)
            BY <1>2 DEF Live
        <3> QED  BY <3>1
    <2>3. Live(k)' <=> Live(k)
        BY DEF Live
    <2> QED  BY <2>1, <2>2, <2>3, KeyStays DEF LimiterTypeOK
<1> QED  BY <1>1, <1>2

\* The windows and counters after a key takes a point.
LEMMA TakenIs ==
    ASSUME LimiterTypeOK, NEW k \in Keys, \A j \in Keys : KeyExact(j), NEW late \in Nat,
           NEW cleaned \in SUBSET {j \in Keys : Forgotten(j)}, Forgotten(k) => k \in cleaned,
           Remembered(cleaned, k), Consumed(cleaned, k, late)
    PROVE  /\ window' \in [Keys -> Nat] /\ counter' \in [Keys -> [points : Int, ends : Nat]]
           /\ window'[k] > time /\ counter'[k].ends >= window'[k]
           /\ Live(k) => /\ window'[k] = window[k]
                         /\ counter'[k].points = counter[k].points + 1
           /\ ~Live(k) => counter'[k].points = 1
           /\ \A j \in Keys \ {k} : j \notin cleaned => /\ window'[j] = window[j]
                                                        /\ counter'[j] = counter[j]
           /\ \A j \in Keys \ {k} : j \in cleaned => /\ ~Live(j) /\ window'[j] = 0
                                                     /\ counter'[j].ends = 0
<1> DEFINE zero == [points |-> 0, ends |-> 0]
           c == IF k \in cleaned THEN zero ELSE counter[k]
<1>0. Duration \in Nat \ {0} /\ time \in Nat
    BY LimiterAssumption DEF LimiterTypeOK
<1>1. /\ window'[k] = IF ~Live(k) THEN time + Duration ELSE window[k]
      /\ counter'[k] = Add(c, 1, late)
      /\ \A j \in Keys \ {k} : /\ window'[j] = IF j \in cleaned THEN 0 ELSE window[j]
                               /\ counter'[j] = IF j \in cleaned THEN zero ELSE counter[j]
      /\ window' = [j \in Keys |-> window'[j]] /\ counter' = [j \in Keys |-> counter'[j]]
    <2>1. k \in cleaned => ~Live(k)
        BY DEF Forgotten
    <2>2. window'[k] = IF ~Live(k) THEN time + Duration ELSE window[k]
        BY <2>1 DEF Remembered
    <2> QED  BY <2>2 DEF Remembered, Consumed
<1>2. CASE Live(k)
    <2>1. k \notin cleaned
        BY <1>2 DEF Forgotten
    <2>2. counter[k].ends >= window[k] /\ window[k] > time /\ window[k] \in Nat
        BY <1>2 DEF KeyExact, Live, LimiterTypeOK
    <2>3. counter[k] \in [points : Int, ends : Nat]
        BY DEF LimiterTypeOK
    <2>4. counter'[k] = [counter[k] EXCEPT !.points = counter[k].points + 1]
        BY <1>0, <1>1, <2>1, <2>2, <2>3 DEF Add
    <2>5. /\ counter'[k] \in [points : Int, ends : Nat] /\ counter'[k].ends = counter[k].ends
          /\ counter'[k].points = counter[k].points + 1
        BY <2>3, <2>4
    <2>6. window' \in [Keys -> Nat] /\ counter' \in [Keys -> [points : Int, ends : Nat]]
        <3>1. \A j \in Keys : window'[j] \in Nat /\ counter'[j] \in [points : Int, ends : Nat]
            BY <1>1, <1>2, <2>2, <2>5 DEF LimiterTypeOK
        <3> QED  BY <1>1, <3>1
    <2> QED  BY <1>1, <1>2, <2>2, <2>5, <2>6 DEF Forgotten
<1>3. CASE ~Live(k)
    <2>1. c.ends = 0
        <3>1. k \in cleaned \/ window[k] = 0
            BY <1>3 DEF Forgotten
        <3> QED  BY <3>1 DEF KeyExact
    <2>2. counter'[k] = [points |-> 1, ends |-> time + Duration + late]
        <3> HIDE DEF c
        <3> QED  BY <1>0, <1>1, <2>1 DEF Add
    <2>3. window'[k] = time + Duration
        BY <1>1, <1>3
    <2>4. window' \in [Keys -> Nat] /\ counter' \in [Keys -> [points : Int, ends : Nat]]
        <3>1. \A j \in Keys : window'[j] \in Nat /\ counter'[j] \in [points : Int, ends : Nat]
            BY <1>0, <1>1, <2>2, <2>3 DEF LimiterTypeOK
        <3> QED  BY <1>1, <3>1
    <2> QED  BY <1>0, <1>1, <1>3, <2>2, <2>3, <2>4 DEF Forgotten
<1> QED  BY <1>2, <1>3

\* A key that gives a point to r, which is admitted only if the counter has room.
LEMMA KeyTakes ==
    ASSUME LimiterTypeOK, NEW k \in Keys, KeyExact(k), NEW r \in Attempts, time' = time,
           window' \in [Keys -> Nat], counter' \in [Keys -> [points : Int, ends : Nat]],
           window'[k] > time, counter'[k].ends >= window'[k],
           Live(k) => /\ window'[k] = window[k]
                      /\ counter'[k].points = counter[k].points + 1
                      /\ r \notin Holders(k) /\ Holders(k)' = Holders(k) \cup {r}
                      /\ Admitted(k)' \subseteq Admitted(k) \cup {r},
           ~Live(k) => counter'[k].points = 1 /\ Holders(k)' = {r},
           counter'[k].points > Points(k) => r \notin Admitted(k)'
    PROVE  KeyExact(k)'
<1>1. counter'[k].points = Cardinality(Holders(k)') /\ IsFiniteSet(Holders(k)')
    <2>1. CASE Live(k)
        <3>1. /\ Cardinality(Holders(k)') = Cardinality(Holders(k)) + 1
              /\ IsFiniteSet(Holders(k)')
            BY <2>1, HoldersFinite, FS_AddElement
        <3> QED  BY <2>1, <3>1 DEF KeyExact
    <2>2. CASE ~Live(k)
        BY <2>2, FS_Singleton
    <2> QED  BY <2>1, <2>2
<1>2. Cardinality(Admitted(k)') <= Points(k)
    <2>0. Admitted(k)' \in SUBSET Holders(k)' /\ Points(k) \in Nat \ {0}
        BY LimiterAssumption DEF Admitted, Points
    <2>1. /\ IsFiniteSet(Admitted(k)') /\ Cardinality(Admitted(k)') \in Nat
          /\ Cardinality(Admitted(k)') <= Cardinality(Holders(k)')
        BY <1>1, <2>0, FS_Subset, FS_CardinalityType
    <2>2. CASE counter'[k].points <= Points(k)
        BY <1>1, <2>0, <2>1, <2>2, FS_CardinalityType
    <2>3. CASE counter'[k].points > Points(k)
        <3>1. Live(k)
            BY <2>0, <2>3
        <3>2. Admitted(k)' \in SUBSET Admitted(k)
            BY <2>3, <3>1
        <3>3. Cardinality(Admitted(k)') <= Cardinality(Admitted(k))
            BY <3>2, HoldersFinite, FS_Subset
        <3> QED  BY <2>0, <2>1, <3>1, <3>3, HoldersFinite DEF KeyExact
    <2> QED  BY <2>0, <2>2, <2>3
<1>3. window'[k] # 0
    BY DEF LimiterTypeOK
<1> QED  BY <1>1, <1>2, <1>3 DEF KeyExact

\* Windows that are taken or forgotten leave what is known of the attempts' own.
LEMMA WindowsStayKnown ==
    ASSUME LimiterTypeOK, WindowsKnown, time' \in Nat, time' >= time,
           \A k \in Keys : Live(k) => window'[k] = window[k],
           \A s \in Attempts :
               /\ attempt'[s].account = attempt[s].account
               /\ attempt'[s].ip = attempt[s].ip \/ attempt'[s].ip = window'[Ip]
               /\ \/ attempt'[s].own = attempt[s].own
                  \/ attempt'[s].own = window'[attempt[s].account]
    PROVE  WindowsKnown'
<1> SUFFICES ASSUME NEW s \in Attempts
             PROVE  /\ attempt'[s].ip <= time' \/ attempt'[s].ip = window'[Ip]
                    /\ attempt'[s].own <= time' \/ attempt'[s].own = window'[attempt'[s].account]
    BY DEF WindowsKnown
<1>1. /\ time \in Nat /\ attempt[s].ip \in Nat /\ attempt[s].own \in Nat
      /\ attempt[s].account \in Keys /\ Ip \in Keys /\ \A k \in Keys : window[k] \in Nat
    BY DEF LimiterTypeOK, Attempt, Keys
<1>2. /\ attempt[s].ip <= time \/ attempt[s].ip = window[Ip]
      /\ attempt[s].own <= time \/ attempt[s].own = window[attempt[s].account]
    BY DEF WindowsKnown
<1> QED  BY <1>1, <1>2 DEF Live

LEMMA ReserveIpStep ==
    ASSUME LimiterInv, NEW r \in Attempts, NEW late \in 0 .. Late, ReserveIp(r, late)
    PROVE  LimiterInv'
<1> DEFINE cleaned == {k \in {Ip} : Forgotten(k)}
           rec == [attempt[r] EXCEPT !.ip = window'[Ip],
                       !.phase = IF counter'[Ip].points > IpPoints THEN "ipRefused" ELSE "ip"]
<1>0. LimiterTypeOK /\ WindowsKnown /\ (\A k \in Keys : KeyExact(k)) /\ Ip \in Keys /\ late \in Nat
    BY LimiterAssumption DEF LimiterInv, Keys
<1>1. /\ attempt[r].phase = "new" /\ Remembered(cleaned, Ip) /\ Consumed(cleaned, Ip, late)
      /\ attempt' = [attempt EXCEPT ![r] = rec] /\ time' = time
    BY DEF ReserveIp
<1>2. cleaned \in SUBSET {k \in Keys : Forgotten(k)} /\ (Forgotten(Ip) => Ip \in cleaned)
      /\ \A k \in Keys \ {Ip} : k \notin cleaned
    BY <1>0
<1>3. /\ window' \in [Keys -> Nat] /\ counter' \in [Keys -> [points : Int, ends : Nat]]
      /\ window'[Ip] > time /\ counter'[Ip].ends >= window'[Ip]
      /\ Live(Ip) => /\ window'[Ip] = window[Ip]
                     /\ counter'[Ip].points = counter[Ip].points + 1
      /\ ~Live(Ip) => counter'[Ip].points = 1
      /\ \A j \in Keys \ {Ip} : window'[j] = window[j] /\ counter'[j] = counter[j]
    <2> HIDE DEF cleaned
    <2> QED  BY <1>0, <1>1, <1>2, TakenIs
<1>4. /\ rec \in Attempt /\ rec.account = attempt[r].account /\ rec.own = attempt[r].own
      /\ rec.ip = window'[Ip]
      /\ rec.phase = IF counter'[Ip].points > IpPoints THEN "ipRefused" ELSE "ip"
    <2>1. attempt[r] \in Attempt /\ window'[Ip] \in Nat
        BY <1>0, <1>3 DEF LimiterTypeOK
    <2> QED  BY <2>1 DEF Attempt
<1> HIDE DEF rec, cleaned
<1>5. /\ attempt' \in [Attempts -> Attempt] /\ attempt'[r] = rec
      /\ \A s \in Attempts \ {r} : attempt'[s] = attempt[s]
    BY <1>0, <1>1, <1>4 DEF LimiterTypeOK
<1>6. LimiterTypeOK'
    BY <1>0, <1>1, <1>3, <1>5 DEF LimiterTypeOK
<1>7. WindowsKnown'
    <2>1. \A k \in Keys : Live(k) => window'[k] = window[k]
        BY <1>3
    <2>2. time' \in Nat /\ time' >= time
        BY <1>0, <1>1 DEF LimiterTypeOK
    <2> QED  BY <1>0, <1>4, <1>5, <2>1, <2>2, WindowsStayKnown
<1>8. ASSUME NEW k \in Keys PROVE KeyExact(k)'
    <2>1. CASE k = Ip
        <3>1. r \notin Holders(Ip)
            BY <1>1 DEF Holders
        <3>2. r \in Holders(Ip)'
            BY <1>4, <1>5 DEF Holders
        <3>3. Live(Ip) => /\ Holders(Ip)' = Holders(Ip) \cup {r}
                          /\ Admitted(Ip)' \subseteq Admitted(Ip) \cup {r}
            <4> SUFFICES ASSUME Live(Ip)
                         PROVE  /\ Holders(Ip)' = Holders(Ip) \cup {r}
                                /\ Admitted(Ip)' \subseteq Admitted(Ip) \cup {r}
                OBVIOUS
            <4>1. \A s \in Attempts \ {r} : s \in Holders(Ip)' <=> s \in Holders(Ip)
                BY <1>3, <1>5 DEF Holders
            <4>2. Holders(Ip) \subseteq Attempts /\ Holders(Ip)' \subseteq Attempts
                BY DEF Holders
            <4>3. Holders(Ip)' = Holders(Ip) \cup {r}
                BY <3>2, <4>1, <4>2
            <4> QED  BY <1>5, <4>2, <4>3 DEF Admitted
        <3>4. ~Live(Ip) => Holders(Ip)' = {r}
            <4> SUFFICES ASSUME ~Live(Ip) PROVE Holders(Ip)' = {r}
                OBVIOUS
            <4>1. ASSUME NEW s \in Attempts \ {r} PROVE s \notin Holders(Ip)'
                <5>1. attempt[s].ip <= time
                    BY <1>0 DEF WindowsKnown, Live, LimiterTypeOK
                <5>2. attempt'[s].ip # window'[Ip]
                    BY <1>0, <1>3, <1>5, <5>1 DEF LimiterTypeOK, Attempt
                <5> QED  BY <5>2 DEF Holders
            <4>2. Holders(Ip)' \subseteq Attempts
                BY DEF Holders
            <4> QED  BY <3>2, <4>1, <4>2
        <3>5. counter'[Ip].points > Points(Ip) => r \notin Admitted(Ip)'
            BY <1>4, <1>5 DEF Admitted, Points
        <3> QED  BY <1>0, <1>1, <1>3, <2>1, <3>1, <3>3, <3>4, <3>5, KeyTakes
    <2>2. CASE k # Ip
        <3>1. window'[k] = window[k] /\ counter'[k] = counter[k]
            BY <1>3, <2>2
        <3>2. Holders(k)' = Holders(k)
            <4>1. \A s \in Attempts : s \in Holders(k)' <=> s \in Holders(k)
                BY <1>1, <1>4, <1>5, <2>2, <3>1 DEF Holders
            <4>2. Holders(k) \subseteq Attempts /\ Holders(k)' \subseteq Attempts
                BY DEF Holders
            <4> QED  BY <4>1, <4>2
        <3>3. Admitted(k)' \subseteq Admitted(k)
            <4>1. r \notin Holders(k)
                BY <1>1, <2>2 DEF Holders
            <4> QED  BY <1>5, <3>2, <4>1 DEF Admitted, Holders
        <3>4. time' \in Nat /\ time' >= time
            BY <1>0, <1>1 DEF LimiterTypeOK
        <3> QED  BY <1>0, <3>1, <3>2, <3>3, <3>4, KeyStays
    <2> QED  BY <2>1, <2>2
<1> QED  BY <1>6, <1>7, <1>8 DEF LimiterInv, Keys

LEMMA ReserveAccountStep ==
    ASSUME LimiterInv, NEW r \in Attempts, NEW late \in 0 .. Late, ReserveAccount(r, late),
           NEW k \in Accounts, k = attempt[r].account
    PROVE  LimiterInv'
<1> DEFINE cleaned == {j \in Accounts : Forgotten(j)}
           full == ~Live(k) /\ Cardinality({j \in Accounts : Live(j)}) >= MaxAccounts
           rec == [attempt[r] EXCEPT !.own = window'[k],
                       !.phase = IF counter'[k].points > AccountPoints THEN "refused" ELSE "granted"]
<1>0. /\ LimiterTypeOK /\ WindowsKnown /\ (\A j \in Keys : KeyExact(j)) /\ Ip \in Keys
      /\ late \in Nat /\ attempt[r] \in Attempt /\ k \in Keys /\ k # Ip
      /\ Ip \notin Accounts /\ attempt[r].phase = "ip" /\ time' = time /\ time \in Nat
    BY LimiterAssumption DEF LimiterInv, LimiterTypeOK, Keys, Attempt, ReserveAccount
<1>1. CASE full
    <2>1. /\ window' = [j \in Keys |-> IF j \in cleaned THEN 0 ELSE window[j]]
          /\ counter' = [j \in Keys |-> IF j \in cleaned THEN [points |-> 0, ends |-> 0]
                                       ELSE counter[j]]
          /\ attempt' = [attempt EXCEPT ![r].phase = "ipRefused"]
        BY <1>1 DEF ReserveAccount, Step
    <2>2. /\ attempt' \in [Attempts -> Attempt]
          /\ attempt'[r].phase = "ipRefused" /\ attempt'[r].account = k
          /\ attempt'[r].ip = attempt[r].ip /\ attempt'[r].own = attempt[r].own
          /\ \A s \in Attempts \ {r} : attempt'[s] = attempt[s]
        <3> HIDE DEF cleaned, full
        <3> QED  BY <1>0, <2>1 DEF LimiterTypeOK, Attempt
    <2>3. /\ window' \in [Keys -> Nat] /\ counter' \in [Keys -> [points : Int, ends : Nat]]
          /\ \A j \in cleaned : window'[j] = 0 /\ counter'[j].ends = 0 /\ ~Live(j) /\ j \in Keys
          /\ \A j \in Keys \ cleaned : window'[j] = window[j] /\ counter'[j] = counter[j]
        BY <1>0, <2>1 DEF LimiterTypeOK, Forgotten, Keys
    <2> HIDE DEF cleaned, full
    <2>4. LimiterTypeOK'
        BY <1>0, <2>2, <2>3 DEF LimiterTypeOK
    <2>5. WindowsKnown'
        <3>1. \A j \in Keys : Live(j) => window'[j] = window[j]
            BY <2>3
        <3>2. time' \in Nat /\ time' >= time
            BY <1>0
        <3> QED  BY <1>0, <2>2, <3>1, <3>2, WindowsStayKnown
    <2>6. ASSUME NEW j \in Keys PROVE KeyExact(j)'
        <3>1. CASE j \in cleaned
            BY <1>0, <2>3, <3>1, KeyForgotten
        <3>2. CASE j \notin cleaned
            <4>1. window'[j] = window[j] /\ counter'[j] = counter[j]
                BY <2>3, <3>2
            <4>2. Holders(j)' = Holders(j)
                <5>1. \A s \in Attempts : s \in Holders(j)' <=> s \in Holders(j)
                    BY <1>0, <2>2, <4>1 DEF Holders
                <5>2. Holders(j) \subseteq Attempts /\ Holders(j)' \subseteq Attempts
                    BY DEF Holders
                <5> QED  BY <5>1, <5>2
            <4>3. Admitted(j)' \subseteq Admitted(j)
                BY <1>0, <2>2, <4>2 DEF Admitted, Holders
            <4> QED  BY <1>0, <4>1, <4>2, <4>3, KeyStays
        <3> QED  BY <3>1, <3>2
    <2> QED  BY <2>4, <2>5, <2>6 DEF LimiterInv, Keys
<1>2. CASE ~full
    <2>1. /\ Remembered(cleaned, k) /\ Consumed(cleaned, k, late)
          /\ attempt' = [attempt EXCEPT ![r] = rec]
        BY <1>2 DEF ReserveAccount
    <2>2. cleaned \in SUBSET {j \in Keys : Forgotten(j)} /\ (Forgotten(k) => k \in cleaned)
          /\ Ip \notin cleaned
        BY <1>0 DEF Keys
    <2> HIDE DEF cleaned, full
    <2>3. /\ window' \in [Keys -> Nat] /\ counter' \in [Keys -> [points : Int, ends : Nat]]
          /\ window'[k] > time /\ counter'[k].ends >= window'[k]
          /\ Live(k) => /\ window'[k] = window[k]
                        /\ counter'[k].points = counter[k].points + 1
          /\ ~Live(k) => counter'[k].points = 1
          /\ \A j \in Keys \ {k} : j \notin cleaned => /\ window'[j] = window[j]
                                                       /\ counter'[j] = counter[j]
          /\ \A j \in Keys \ {k} : j \in cleaned => /\ ~Live(j) /\ window'[j] = 0
                                                    /\ counter'[j].ends = 0
        BY <1>0, <2>1, <2>2, TakenIs
    <2>4. /\ rec \in Attempt /\ rec.account = k /\ rec.ip = attempt[r].ip
          /\ rec.own = window'[k]
          /\ rec.phase = IF counter'[k].points > AccountPoints THEN "refused" ELSE "granted"
        <3>1. window'[k] \in Nat
            BY <1>0, <2>3
        <3> QED  BY <1>0, <3>1 DEF Attempt
    <2> HIDE DEF rec
    <2>5. /\ attempt' \in [Attempts -> Attempt] /\ attempt'[r] = rec
          /\ \A s \in Attempts \ {r} : attempt'[s] = attempt[s]
        BY <1>0, <2>1, <2>4 DEF LimiterTypeOK
    <2>6. LimiterTypeOK'
        BY <1>0, <2>3, <2>5 DEF LimiterTypeOK
    <2>7. WindowsKnown'
        <3>1. \A j \in Keys : Live(j) => window'[j] = window[j]
            BY <2>3
        <3>2. time' \in Nat /\ time' >= time
            BY <1>0
        <3> QED  BY <1>0, <2>4, <2>5, <3>1, <3>2, WindowsStayKnown
    <2>8. ASSUME NEW j \in Keys, j # k PROVE KeyExact(j)'
        <3>1. CASE j \in cleaned
            BY <1>0, <2>3, <2>8, <3>1, KeyForgotten
        <3>2. CASE j \notin cleaned
            <4>1. window'[j] = window[j] /\ counter'[j] = counter[j]
                BY <2>3, <2>8, <3>2
            <4>2. Holders(j)' = Holders(j)
                <5>1. \A s \in Attempts : s \in Holders(j)' <=> s \in Holders(j)
                    BY <1>0, <2>4, <2>5, <2>8, <4>1 DEF Holders
                <5>2. Holders(j) \subseteq Attempts /\ Holders(j)' \subseteq Attempts
                    BY DEF Holders
                <5> QED  BY <5>1, <5>2
            <4>3. Admitted(j)' \subseteq Admitted(j)
                <5>1. j # Ip => r \notin Holders(j)
                    BY <1>0, <2>8 DEF Holders
                <5> QED  BY <1>0, <2>4, <2>5, <4>2, <5>1 DEF Admitted, Holders
            <4> QED  BY <1>0, <4>1, <4>2, <4>3, KeyStays
        <3> QED  BY <3>1, <3>2
    <2>9. KeyExact(k)'
        <3>1. r \notin Holders(k) /\ r \in Holders(k)'
            BY <1>0, <2>4, <2>5 DEF Holders
        <3>2. Live(k) => /\ Holders(k)' = Holders(k) \cup {r}
                         /\ Admitted(k)' \subseteq Admitted(k) \cup {r}
            <4> SUFFICES ASSUME Live(k)
                         PROVE  /\ Holders(k)' = Holders(k) \cup {r}
                                /\ Admitted(k)' \subseteq Admitted(k) \cup {r}
                OBVIOUS
            <4>1. \A s \in Attempts \ {r} : s \in Holders(k)' <=> s \in Holders(k)
                BY <1>0, <2>3, <2>5 DEF Holders
            <4>2. Holders(k) \subseteq Attempts /\ Holders(k)' \subseteq Attempts
                BY DEF Holders
            <4>3. Holders(k)' = Holders(k) \cup {r}
                BY <3>1, <4>1, <4>2
            <4> QED  BY <2>5, <4>2, <4>3 DEF Admitted
        <3>3. ~Live(k) => Holders(k)' = {r}
            <4> SUFFICES ASSUME ~Live(k) PROVE Holders(k)' = {r}
                OBVIOUS
            <4>1. ASSUME NEW s \in Attempts \ {r} PROVE s \notin Holders(k)'
                <5>1. CASE attempt[s].account = k
                    <6>1. attempt[s].own <= time
                        BY <1>0, <5>1 DEF WindowsKnown, Live, LimiterTypeOK
                    <6>2. attempt'[s].own # window'[k]
                        BY <1>0, <2>3, <2>5, <6>1 DEF LimiterTypeOK, Attempt
                    <6> QED  BY <1>0, <6>2 DEF Holders
                <5>2. CASE attempt[s].account # k
                    BY <1>0, <2>5, <5>2 DEF Holders
                <5> QED  BY <5>1, <5>2
            <4>2. Holders(k)' \subseteq Attempts
                BY DEF Holders
            <4> QED  BY <3>1, <4>1, <4>2
        <3>4. counter'[k].points > Points(k) => r \notin Admitted(k)'
            BY <1>0, <2>4, <2>5 DEF Admitted, Points
        <3> QED  BY <1>0, <2>3, <3>1, <3>2, <3>3, <3>4, KeyTakes
    <2>10. \A j \in Keys : KeyExact(j)'
        BY <2>8, <2>9
    <2> QED  BY <2>6, <2>7, <2>10 DEF LimiterInv, Keys
<1> QED  BY <1>1, <1>2

\* A step of r that changes its phase, and of the counters only that of h.
LEMMA PhaseStep ==
    ASSUME LimiterInv, NEW r \in Attempts, NEW h \in Keys, NEW end \in Nat,
           time' = time, window' = window,
           NEW p \in {"ipRefused", "failed", "succeeded", "ended"},
           Step(r, p), counter' = counter \/ counter' = Refunded(h, end),
           \A k \in Keys : KeyExact(k)'
    PROVE  LimiterInv'
<1>1. /\ LimiterTypeOK /\ WindowsKnown /\ time \in Nat
      /\ attempt' = [attempt EXCEPT ![r].phase = p]
    BY DEF LimiterInv, LimiterTypeOK, Step
<1>2. /\ attempt' \in [Attempts -> Attempt]
      /\ \A s \in Attempts : /\ attempt'[s].account = attempt[s].account
                             /\ attempt'[s].ip = attempt[s].ip
                             /\ attempt'[s].own = attempt[s].own
    BY <1>1 DEF LimiterTypeOK, Attempt
<1>3. counter' \in [Keys -> [points : Int, ends : Nat]]
    <2>1. CASE counter' = counter
        BY <1>1, <2>1 DEF LimiterTypeOK
    <2>2. CASE counter' = Refunded(h, end)
        <3>1. Add(counter[h], -1, 0) \in [points : Int, ends : Nat]
            <4>1. counter[h] \in [points : Int, ends : Nat]
                BY <1>1 DEF LimiterTypeOK
            <4> QED  BY <1>1, <4>1, LimiterAssumption DEF Add
        <3> QED  BY <1>1, <2>2, <3>1 DEF Refunded, LimiterTypeOK
    <2> QED  BY <2>1, <2>2
<1>4. LimiterTypeOK'
    BY <1>1, <1>2, <1>3 DEF LimiterTypeOK
<1>5. WindowsKnown'
    <2>1. \A k \in Keys : Live(k) => window'[k] = window[k]
        OBVIOUS
    <2>2. time' \in Nat /\ time' >= time
        BY <1>1
    <2> QED  BY <1>1, <1>2, <2>1, <2>2, WindowsStayKnown
<1> QED  BY <1>4, <1>5 DEF LimiterInv, Keys

\* What the phase change of r does to the holders of a key.
LEMMA PhaseHolders ==
    ASSUME LimiterTypeOK, NEW r \in Attempts, NEW p \in {"ipRefused", "failed", "succeeded", "ended"},
           window' = window, Step(r, p), NEW k \in Keys
    PROVE  /\ \A s \in Attempts \ {r} : /\ s \in Holders(k)' <=> s \in Holders(k)
                                        /\ s \in Admitted(k)' => s \in Admitted(k)
           /\ Holders(k) \subseteq Attempts /\ Holders(k)' \subseteq Attempts
           /\ Admitted(k)' \subseteq Holders(k)'
           /\ attempt'[r].phase = p /\ attempt'[r].ip = attempt[r].ip
           /\ attempt'[r].own = attempt[r].own /\ attempt'[r].account = attempt[r].account
<1>1. attempt' = [attempt EXCEPT ![r].phase = p] /\ attempt \in [Attempts -> Attempt]
    BY DEF Step, LimiterTypeOK
<1>2. /\ \A s \in Attempts \ {r} : attempt'[s] = attempt[s]
      /\ attempt'[r].phase = p /\ attempt'[r].ip = attempt[r].ip
      /\ attempt'[r].own = attempt[r].own /\ attempt'[r].account = attempt[r].account
    BY <1>1 DEF Attempt
<1>3. \A s \in Attempts \ {r} : s \in Holders(k)' <=> s \in Holders(k)
    BY <1>2 DEF Holders
<1>4. /\ Holders(k) \subseteq Attempts /\ Holders(k)' \subseteq Attempts
      /\ Admitted(k)' \subseteq Holders(k)'
    BY DEF Holders, Admitted
<1>5. \A s \in Attempts \ {r} : s \in Admitted(k)' => s \in Admitted(k)
    BY <1>2, <1>3 DEF Admitted
<1> QED  BY <1>2, <1>3, <1>4, <1>5

LEMMA RefuseIpStep ==
    ASSUME LimiterInv, NEW r \in Attempts, RefuseIp(r)
    PROVE  LimiterInv'
<1>0. /\ LimiterTypeOK /\ (\A k \in Keys : KeyExact(k)) /\ Ip \in Keys /\ attempt[r] \in Attempt
      /\ attempt[r].ip \in Nat /\ time \in Nat /\ Ip \notin Accounts
    BY LimiterAssumption DEF LimiterInv, LimiterTypeOK, Keys, Attempt
<1>1. /\ attempt[r].phase = "ipRefused" /\ Step(r, "ended") /\ time' = time /\ window' = window
      /\ counter' = Refunded(Ip, attempt[r].ip)
    BY DEF RefuseIp
<1>2. ASSUME NEW k \in Keys PROVE KeyExact(k)'
    <2>1. CASE k = Ip
        <3>1. r \notin Holders(Ip)'
            BY <1>0, <1>1, PhaseHolders DEF Holders
        <3>2. Holders(Ip)' = Holders(Ip) \ {r}
            BY <1>0, <1>1, <3>1, PhaseHolders
        <3>3. Admitted(Ip)' \subseteq Admitted(Ip)
            BY <1>0, <1>1, <3>1, PhaseHolders
        <3>4. attempt[r].ip = window[Ip] <=> r \in Holders(Ip)
            BY <1>0, <1>1 DEF Holders
        <3> QED  BY <1>0, <1>1, <2>1, <3>2, <3>3, <3>4, KeyGives
    <2>2. CASE k # Ip
        <3>1. Holders(k)' = Holders(k)
            <4>1. r \in Holders(k)' <=> r \in Holders(k)
                BY <1>0, <1>1, <2>2, PhaseHolders DEF Holders
            <4> QED  BY <1>0, <1>1, <4>1, PhaseHolders
        <3>2. Admitted(k)' \subseteq Admitted(k)
            <4>1. r \in Admitted(k)' => r \in Admitted(k)
                BY <1>0, <1>1, <2>2, <3>1, PhaseHolders DEF Admitted, Holders
            <4> QED  BY <1>0, <1>1, <4>1, PhaseHolders
        <3>3. counter'[k] = counter[k]
            BY <1>0, <1>1, <2>2 DEF Refunded, LimiterTypeOK
        <3> QED  BY <1>0, <1>1, <3>1, <3>2, <3>3, KeyStays
    <2> QED  BY <2>1, <2>2
<1> QED  BY <1>0, <1>1, <1>2, PhaseStep

LEMMA RefuseAccountStep ==
    ASSUME LimiterInv, NEW r \in Attempts, RefuseAccount(r),
           NEW h \in Accounts, h = attempt[r].account
    PROVE  LimiterInv'
<1>0. /\ LimiterTypeOK /\ (\A k \in Keys : KeyExact(k)) /\ h \in Keys /\ attempt[r] \in Attempt
      /\ attempt[r].own \in Nat /\ time \in Nat /\ Ip \notin Accounts
    BY LimiterAssumption DEF LimiterInv, LimiterTypeOK, Keys, Attempt
<1>1. /\ attempt[r].phase = "refused" /\ Step(r, "ipRefused") /\ time' = time /\ window' = window
      /\ counter' = Refunded(h, attempt[r].own)
    BY DEF RefuseAccount
<1>2. ASSUME NEW k \in Keys PROVE KeyExact(k)'
    <2>1. CASE k = h
        <3>1. r \notin Holders(h)'
            BY <1>0, <1>1, PhaseHolders DEF Holders
        <3>2. Holders(h)' = Holders(h) \ {r}
            BY <1>0, <1>1, <3>1, PhaseHolders
        <3>3. Admitted(h)' \subseteq Admitted(h)
            BY <1>0, <1>1, <3>1, PhaseHolders
        <3>4. attempt[r].own = window[h] <=> r \in Holders(h)
            BY <1>0, <1>1 DEF Holders
        <3> QED  BY <1>0, <1>1, <2>1, <3>2, <3>3, <3>4, KeyGives
    <2>2. CASE k # h
        <3>1. Holders(k)' = Holders(k)
            <4>1. r \in Holders(k)' <=> r \in Holders(k)
                <5>1. /\ attempt'[r].phase = "ipRefused" /\ attempt'[r].ip = attempt[r].ip
                      /\ attempt'[r].account = h /\ h # Ip /\ h # k
                    BY <1>0, <1>1, <2>2, PhaseHolders
                <5>2. CASE k = Ip
                    BY <1>1, <5>1, <5>2 DEF Holders
                <5>3. CASE k # Ip
                    BY <5>1, <5>3 DEF Holders
                <5> QED  BY <5>2, <5>3
            <4>2. /\ \A s \in Attempts \ {r} : s \in Holders(k)' <=> s \in Holders(k)
                  /\ Holders(k) \subseteq Attempts /\ Holders(k)' \subseteq Attempts
                BY <1>0, <1>1, PhaseHolders
            <4> QED  BY <4>1, <4>2
        <3>2. Admitted(k)' \subseteq Admitted(k)
            <4>1. r \in Admitted(k)' => r \in Admitted(k)
                BY <1>0, <1>1, <2>2, <3>1, PhaseHolders DEF Admitted, Holders
            <4> QED  BY <1>0, <1>1, <4>1, PhaseHolders
        <3>3. counter'[k] = counter[k]
            BY <1>0, <1>1, <2>2 DEF Refunded, LimiterTypeOK
        <3> QED  BY <1>0, <1>1, <3>1, <3>2, <3>3, KeyStays
    <2> QED  BY <2>1, <2>2
<1> QED  BY <1>0, <1>1, <1>2, PhaseStep

LEMMA KeepStep ==
    ASSUME LimiterInv, NEW r \in Attempts, Keep(r)
    PROVE  LimiterInv'
<1>0. /\ LimiterTypeOK /\ (\A k \in Keys : KeyExact(k)) /\ Ip \in Keys /\ attempt[r] \in Attempt
      /\ attempt[r].ip \in Nat /\ time \in Nat /\ Ip \notin Accounts
    BY LimiterAssumption DEF LimiterInv, LimiterTypeOK, Keys, Attempt
<1>1. /\ attempt[r].phase = "granted" /\ Step(r, "failed") /\ time' = time /\ window' = window
      /\ counter' = counter
    BY DEF Keep
<1>2. ASSUME NEW k \in Keys PROVE KeyExact(k)'
    <2>1. Holders(k)' = Holders(k)
        <3>1. r \in Holders(k)' <=> r \in Holders(k)
            BY <1>0, <1>1, PhaseHolders DEF Holders
        <3> QED  BY <1>0, <1>1, <3>1, PhaseHolders
    <2>2. Admitted(k)' \subseteq Admitted(k)
        <3>1. r \in Admitted(k)' => r \in Admitted(k)
            BY <1>1, <2>1 DEF Admitted
        <3> QED  BY <1>0, <1>1, <3>1, PhaseHolders
    <2> QED  BY <1>0, <1>1, <2>1, <2>2, KeyStays
<1> QED  BY <1>0, <1>1, <1>2, PhaseStep

LEMMA RefundIpStep ==
    ASSUME LimiterInv, NEW r \in Attempts, RefundIp(r)
    PROVE  LimiterInv'
<1>0. /\ LimiterTypeOK /\ (\A k \in Keys : KeyExact(k)) /\ Ip \in Keys /\ attempt[r] \in Attempt
      /\ attempt[r].ip \in Nat /\ time \in Nat /\ Ip \notin Accounts
    BY LimiterAssumption DEF LimiterInv, LimiterTypeOK, Keys, Attempt
<1>1. /\ attempt[r].phase = "granted" /\ Step(r, "succeeded") /\ time' = time /\ window' = window
      /\ counter' = Refunded(Ip, attempt[r].ip)
    BY DEF RefundIp
<1>2. ASSUME NEW k \in Keys PROVE KeyExact(k)'
    <2>1. CASE k = Ip
        <3>1. r \notin Holders(Ip)'
            BY <1>0, <1>1, PhaseHolders DEF Holders
        <3>2. Holders(Ip)' = Holders(Ip) \ {r}
            BY <1>0, <1>1, <3>1, PhaseHolders
        <3>3. Admitted(Ip)' \subseteq Admitted(Ip)
            BY <1>0, <1>1, <3>1, PhaseHolders
        <3>4. attempt[r].ip = window[Ip] <=> r \in Holders(Ip)
            BY <1>0, <1>1 DEF Holders
        <3> QED  BY <1>0, <1>1, <2>1, <3>2, <3>3, <3>4, KeyGives
    <2>2. CASE k # Ip
        <3>1. Holders(k)' = Holders(k)
            <4>1. r \in Holders(k)' <=> r \in Holders(k)
                BY <1>0, <1>1, <2>2, PhaseHolders DEF Holders
            <4> QED  BY <1>0, <1>1, <4>1, PhaseHolders
        <3>2. Admitted(k)' \subseteq Admitted(k)
            <4>1. r \in Admitted(k)' => r \in Admitted(k)
                BY <1>0, <1>1, <2>2, <3>1, PhaseHolders DEF Admitted, Holders
            <4> QED  BY <1>0, <1>1, <4>1, PhaseHolders
        <3>3. counter'[k] = counter[k]
            BY <1>0, <1>1, <2>2 DEF Refunded, LimiterTypeOK
        <3> QED  BY <1>0, <1>1, <3>1, <3>2, <3>3, KeyStays
    <2> QED  BY <2>1, <2>2
<1> QED  BY <1>0, <1>1, <1>2, PhaseStep

LEMMA RefundAccountStep ==
    ASSUME LimiterInv, NEW r \in Attempts, RefundAccount(r),
           NEW h \in Accounts, h = attempt[r].account
    PROVE  LimiterInv'
<1>0. /\ LimiterTypeOK /\ (\A k \in Keys : KeyExact(k)) /\ h \in Keys /\ attempt[r] \in Attempt
      /\ attempt[r].own \in Nat /\ time \in Nat /\ Ip \notin Accounts
    BY LimiterAssumption DEF LimiterInv, LimiterTypeOK, Keys, Attempt
<1>1. /\ attempt[r].phase = "succeeded" /\ Step(r, "ended") /\ time' = time /\ window' = window
      /\ counter' = Refunded(h, attempt[r].own)
    BY DEF RefundAccount
<1>2. ASSUME NEW k \in Keys PROVE KeyExact(k)'
    <2>1. CASE k = h
        <3>1. r \notin Holders(h)'
            BY <1>0, <1>1, PhaseHolders DEF Holders
        <3>2. Holders(h)' = Holders(h) \ {r}
            BY <1>0, <1>1, <3>1, PhaseHolders
        <3>3. Admitted(h)' \subseteq Admitted(h)
            BY <1>0, <1>1, <3>1, PhaseHolders
        <3>4. attempt[r].own = window[h] <=> r \in Holders(h)
            BY <1>0, <1>1 DEF Holders
        <3> QED  BY <1>0, <1>1, <2>1, <3>2, <3>3, <3>4, KeyGives
    <2>2. CASE k # h
        <3>1. Holders(k)' = Holders(k)
            <4>1. r \in Holders(k)' <=> r \in Holders(k)
                <5>1. /\ attempt'[r].phase = "ended" /\ attempt'[r].ip = attempt[r].ip
                      /\ attempt'[r].account = h /\ h # Ip /\ h # k
                    BY <1>0, <1>1, <2>2, PhaseHolders
                <5>2. CASE k = Ip
                    BY <1>1, <5>1, <5>2 DEF Holders
                <5>3. CASE k # Ip
                    BY <5>1, <5>3 DEF Holders
                <5> QED  BY <5>2, <5>3
            <4>2. /\ \A s \in Attempts \ {r} : s \in Holders(k)' <=> s \in Holders(k)
                  /\ Holders(k) \subseteq Attempts /\ Holders(k)' \subseteq Attempts
                BY <1>0, <1>1, PhaseHolders
            <4> QED  BY <4>1, <4>2
        <3>2. Admitted(k)' \subseteq Admitted(k)
            <4>1. r \in Admitted(k)' => r \in Admitted(k)
                BY <1>0, <1>1, <2>2, <3>1, PhaseHolders DEF Admitted, Holders
            <4> QED  BY <1>0, <1>1, <4>1, PhaseHolders
        <3>3. counter'[k] = counter[k]
            BY <1>0, <1>1, <2>2 DEF Refunded, LimiterTypeOK
        <3> QED  BY <1>0, <1>1, <3>1, <3>2, <3>3, KeyStays
    <2> QED  BY <2>1, <2>2
<1> QED  BY <1>0, <1>1, <1>2, PhaseStep

LEMMA PassStep ==
    ASSUME LimiterInv, Pass \/ UNCHANGED limiterVars
    PROVE  LimiterInv'
<1>1. /\ LimiterTypeOK /\ WindowsKnown /\ (\A k \in Keys : KeyExact(k))
      /\ time' \in Nat /\ time' >= time /\ UNCHANGED <<window, counter, attempt>>
    BY DEF LimiterInv, LimiterTypeOK, Pass, limiterVars
<1>2. LimiterTypeOK'
    BY <1>1 DEF LimiterTypeOK
<1>3. WindowsKnown'
    BY <1>1, WindowsStayKnown
<1>4. ASSUME NEW k \in Keys PROVE KeyExact(k)'
    <2>1. Holders(k)' = Holders(k) /\ Admitted(k)' = Admitted(k)
        BY <1>1 DEF Holders, Admitted
    <2> QED  BY <1>1, <2>1, KeyStays
<1> QED  BY <1>2, <1>3, <1>4 DEF LimiterInv, Keys

\* The strengthened invariant of the limiter, whatever its parameters.
THEOREM LimiterInvariance == LimiterSpec => []LimiterInv
<1>1. LimiterInv /\ [LimiterNext]_limiterVars => LimiterInv'
    <2> SUFFICES ASSUME LimiterInv, [LimiterNext]_limiterVars PROVE LimiterInv'
        OBVIOUS
    <2>1. ASSUME NEW r \in Attempts PROVE attempt[r].account \in Accounts
        BY DEF LimiterInv, LimiterTypeOK, Attempt
    <2>2. CASE \E r \in Attempts, late \in 0 .. Late :
                  ReserveIp(r, late) \/ ReserveAccount(r, late)
        BY <2>1, <2>2, ReserveIpStep, ReserveAccountStep
    <2>3. CASE \E r \in Attempts : \/ RefuseIp(r) \/ RefuseAccount(r) \/ Keep(r)
                                   \/ RefundIp(r) \/ RefundAccount(r)
        BY <2>1, <2>3, RefuseIpStep, RefuseAccountStep, KeepStep, RefundIpStep, RefundAccountStep
    <2>4. CASE Pass \/ UNCHANGED limiterVars
        BY <2>4, PassStep
    <2> QED  BY <2>2, <2>3, <2>4 DEF LimiterNext
<1> QED  BY <1>1, LimiterInitial, PTL DEF LimiterSpec

\* While a window lasts, its counter is exactly the points that are out, and no
\* more attempts are under way or have failed than its key allows.
THEOREM PointsAreExact == LimiterSpec => []LimiterExact
<1>1. LimiterInv => LimiterExact
    <2> SUFFICES ASSUME LimiterInv, NEW k \in Keys, Live(k)
                 PROVE  /\ counter[k].ends > time /\ counter[k].points = Cardinality(Holders(k))
                        /\ Cardinality(Kept(k)) <= Points(k)
        BY DEF LimiterExact
    <2>1. LimiterTypeOK /\ KeyExact(k)
        BY DEF LimiterInv
    <2>2. Kept(k) \in SUBSET Admitted(k)
        BY DEF Kept, Admitted
    <2>3. /\ Cardinality(Kept(k)) <= Cardinality(Admitted(k)) /\ Cardinality(Kept(k)) \in Nat
          /\ Cardinality(Admitted(k)) \in Nat /\ Points(k) \in Nat
        BY <2>2, HoldersFinite, FS_Subset, FS_CardinalityType, LimiterAssumption DEF Points
    <2> QED  BY <2>1, <2>3 DEF KeyExact, Live, LimiterTypeOK
<1> QED  BY <1>1, LimiterInvariance, PTL

=============================================================================
