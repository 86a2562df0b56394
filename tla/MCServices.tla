----------------------------- MODULE MCServices -----------------------------
(***************************************************************************)
(* Instances of the smaller parts, which share no state with each other:   *)
(* one of them, the subject, takes steps, the others stay where they are.  *)
(***************************************************************************)
EXTENDS CheerGuide, LyricsEditor, SignupOtp, AttemptLimiter, LeaseWatch, PairedRelease,
        HostOperation, Promotion, RowLocks, TLC

\* The parts that have such sets share the pairs of values below: TLC tries every
\* permutation of them on each state, and few serve all the parts.
CONSTANTS u1, u2,           \* modes, apps, e-mail addresses, transactions
          w1, w2,           \* editors, settings, nicknames, launchers, albums
          c1, c2,           \* contents
          t1, t2, t3,       \* texts
          v1, v2,           \* visitors, songs
          k1, k2, r1, r2, r3,  \* accounts and attempts
          s1, s2, s3, s4,   \* releases
          q1, q2            \* requests

VARIABLE subject

MCUs == {u1, u2}
MCWs == {w1, w2}
MCContents == {c1, c2}
MCTexts == {t1, t2, t3}
MCVisitors == {v1, v2}
MCAccounts == {k1, k2}
MCAttempts == {r1, r2, r3}
MCSkews == {-1, 0, 3}
MCReleases == {s1, s2, s3, s4}
MCRequests == {q1, q2}
MCJobs == {r1}
MCGuides == {r2}
MCSongOf == [x \in {r1, r2} |-> IF x = r1 THEN v1 ELSE v2]
MCAdmins == {k1}
MCDevices == {q1}
MCExpected == [q \in MCRequests |-> IF q = q1 THEN 0 ELSE 1]

Symmetry == Permutations(MCUs) \cup Permutations(MCWs)

servicesVars ==
    <<guideVars, pageVars, otpVars, limiterVars, leaseVars, releaseVars,
      operationVars, promotionVars, tx, subject>>

ServicesInit ==
    /\ subject \in {"guide", "page", "otp", "limiter", "lease", "release", "operation",
                    "promotion", "locks"}
    /\ GuideInit /\ PageInit /\ OtpInit /\ LimiterInit /\ LeaseInit /\ ReleaseInit
    /\ OperationInit /\ PromotionInit /\ LocksInit
    \* One of the initial states is enough for a part that stays there.
    /\ subject # "guide" => lyrics = c1 /\ \A m \in Modes : ~Exists(m)
    /\ subject # "limiter" => attempt[r3].account = k1
    /\ subject # "page" => shown = t1
    \* Attempts are interchangeable, and accounts: two attempts at one account and a
    \* third at the same or the other stand for all that three may try.
    /\ attempt[r1].account = k1 /\ attempt[r2].account = k1

ServicesNext ==
    /\ UNCHANGED subject
    /\ \/ /\ subject = "guide" /\ GuideNext
          /\ UNCHANGED <<pageVars, otpVars, limiterVars, leaseVars, releaseVars,
                         operationVars, promotionVars, tx>>
       \/ /\ subject = "page" /\ PageNext
          /\ UNCHANGED <<guideVars, otpVars, limiterVars, leaseVars, releaseVars,
                         operationVars, promotionVars, tx>>
       \/ /\ subject = "otp" /\ OtpNext
          /\ UNCHANGED <<guideVars, pageVars, limiterVars, leaseVars, releaseVars,
                         operationVars, promotionVars, tx>>
       \/ /\ subject = "limiter" /\ LimiterNext
          /\ UNCHANGED <<guideVars, pageVars, otpVars, leaseVars, releaseVars,
                         operationVars, promotionVars, tx>>
       \/ /\ subject = "lease" /\ LeaseNext
          /\ UNCHANGED <<guideVars, pageVars, otpVars, limiterVars, releaseVars,
                         operationVars, promotionVars, tx>>
       \/ /\ subject = "release" /\ ReleaseNext
          /\ UNCHANGED <<guideVars, pageVars, otpVars, limiterVars, leaseVars,
                         operationVars, promotionVars, tx>>
       \/ /\ subject = "operation" /\ OperationNext
          /\ UNCHANGED <<guideVars, pageVars, otpVars, limiterVars, leaseVars, releaseVars,
                         promotionVars, tx>>
       \/ /\ subject = "promotion" /\ PromotionNext
          /\ UNCHANGED <<guideVars, pageVars, otpVars, limiterVars, leaseVars, releaseVars,
                         operationVars, tx>>
       \/ /\ subject = "locks" /\ LocksNext
          /\ UNCHANGED <<guideVars, pageVars, otpVars, limiterVars, leaseVars, releaseVars,
                         operationVars, promotionVars>>

ServicesSpec == ServicesInit /\ [][ServicesNext]_servicesVars

=============================================================================
