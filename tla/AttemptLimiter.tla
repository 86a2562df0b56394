---------------------------- MODULE AttemptLimiter ----------------------------
(***************************************************************************)
(* The Console's limiter of sign-in and set-up attempts. An attempt        *)
(* reserves a point of its network address, then one of its account; a     *)
(* success gives both back, a failure keeps them, a refusal takes none.    *)
(* The limiter remembers a window per key next to the library's counter;   *)
(* attempts run concurrently, and between their steps windows run out.     *)
(***************************************************************************)
EXTENDS Integers, FiniteSets

CONSTANTS Attempts, Accounts,
          Ip,             \* the attempts' common network address
          IpPoints, AccountPoints, Duration,
          MaxAccounts,    \* windows of accounts that are remembered
          Late,           \* how much later than its window a counter may end
          MaxLimiterTime         \* bound: time

ASSUME LimiterAssumption ==
    /\ Ip \notin Accounts /\ Late \in Nat /\ Duration \in Nat \ {0}
    /\ {IpPoints, AccountPoints, MaxAccounts} \subseteq Nat \ {0}
    /\ IsFiniteSet(Attempts)

VARIABLES time,
          window,   \* window[k]: when the remembered window of k ends, 0 for none
          counter,  \* counter[k]: RateLimiterMemory's points and their end
          attempt   \* attempt[r]: a call of reserveConsoleMfaAttempt

limiterVars == <<time, window, counter, attempt>>

Keys == Accounts \cup {Ip}
Points(k) == IF k = Ip THEN IpPoints ELSE AccountPoints

\* A window is its end: the next one of the same key begins after it.
Attempt == [phase : {"new", "ip", "ipRefused", "refused", "granted", "succeeded", "failed", "ended"},
            account : Accounts, ip : Nat, own : Nat]

LimiterInit ==
    /\ time = 1
    /\ window = [k \in Keys |-> 0]
    /\ counter = [k \in Keys |-> [points |-> 0, ends |-> 0]]
    /\ attempt \in [Attempts -> [phase : {"new"}, account : Accounts, ip : {0}, own : {0}]]

Live(k) == window[k] > time

-----------------------------------------------------------------------------
(* RateLimiterMemory, external: points of a counter that has ended are those  *)
(* of a new one.                                                              *)

Add(c, n, late) ==
    IF c.ends > time THEN [c EXCEPT !.points = @ + n]
    ELSE [points |-> n, ends |-> time + Duration + late]

\* The clean-up at the start of each step: what has run out goes, the library's
\* counters with it.
Forgotten(k) == window[k] # 0 /\ ~Live(k)
Consumed(cleaned, k, late) ==
    counter' = [j \in Keys |->
        LET c == IF j \in cleaned THEN [points |-> 0, ends |-> 0] ELSE counter[j]
        IN IF j = k THEN Add(c, 1, late) ELSE c]
Remembered(cleaned, k) ==
    window' = [j \in Keys |-> IF j = k /\ ~Live(j) THEN time + Duration
                              ELSE IF j \in cleaned THEN 0 ELSE window[j]]

\* Fault: the point goes to whatever window there is now.
RefundedAnyFault(k, end) == [counter EXCEPT ![k] = Add(counter[k], -1, 0)]
\* refundIp and its like for the account: the attempt's own window, while it lasts.
Refunded(k, end) ==
    IF window[k] = end /\ end > time
    THEN [counter EXCEPT ![k] = Add(counter[k], -1, 0)] ELSE counter

-----------------------------------------------------------------------------
(* reserveConsoleMfaAttempt, from one await to the next.                      *)

Step(r, phase) == attempt' = [attempt EXCEPT ![r].phase = phase]

\* The address: the call up to the consumption of its point.
ReserveIp(r, late) ==
    LET cleaned == {k \in {Ip} : Forgotten(k)}
    IN /\ attempt[r].phase = "new"
       /\ Remembered(cleaned, Ip) /\ Consumed(cleaned, Ip, late)
       /\ attempt' = [attempt EXCEPT ![r] =
              [attempt[r] EXCEPT !.ip = window'[Ip],
                  !.phase = IF counter'[Ip].points > IpPoints THEN "ipRefused" ELSE "ip"]]
       /\ UNCHANGED time

\* A refusal takes its point back.
RefuseIp(r) ==
    /\ attempt[r].phase = "ipRefused"
    /\ counter' = Refunded(Ip, attempt[r].ip)
    /\ Step(r, "ended")
    /\ UNCHANGED <<time, window>>

\* The account, when the answer of the address's counter has arrived.
ReserveAccount(r, late) ==
    LET k       == attempt[r].account
        cleaned == {j \in Accounts : Forgotten(j)}
        full    == ~Live(k) /\ Cardinality({j \in Accounts : Live(j)}) >= MaxAccounts
    IN /\ attempt[r].phase = "ip"
       /\ \/ /\ full
             /\ window' = [j \in Keys |-> IF j \in cleaned THEN 0 ELSE window[j]]
             /\ counter' = [j \in Keys |-> IF j \in cleaned THEN [points |-> 0, ends |-> 0]
                                          ELSE counter[j]]
             /\ Step(r, "ipRefused")
          \/ /\ ~full
             /\ Remembered(cleaned, k) /\ Consumed(cleaned, k, late)
             /\ attempt' = [attempt EXCEPT ![r] =
                    [attempt[r] EXCEPT !.own = window'[k],
                        !.phase = IF counter'[k].points > AccountPoints
                                  THEN "refused" ELSE "granted"]]
       /\ UNCHANGED time

\* A refusal takes the account's point back, then the address's.
RefuseAccount(r) ==
    /\ attempt[r].phase = "refused"
    /\ counter' = Refunded(attempt[r].account, attempt[r].own)
    /\ Step(r, "ipRefused")
    /\ UNCHANGED <<time, window>>

\* The attempt fails: its points stay.
Keep(r) ==
    /\ attempt[r].phase = "granted"
    /\ Step(r, "failed")
    /\ UNCHANGED <<time, window, counter>>

\* It succeeds: the address's point comes back, then the account's.
RefundIp(r) ==
    /\ attempt[r].phase = "granted"
    /\ counter' = Refunded(Ip, attempt[r].ip)
    /\ Step(r, "succeeded")
    /\ UNCHANGED <<time, window>>

RefundAccount(r) ==
    /\ attempt[r].phase = "succeeded"
    /\ counter' = Refunded(attempt[r].account, attempt[r].own)
    /\ Step(r, "ended")
    /\ UNCHANGED <<time, window>>

Pass ==
    /\ time < MaxLimiterTime /\ time' = time + 1
    /\ UNCHANGED <<window, counter, attempt>>

LimiterNext ==
    \/ \E r \in Attempts :
          \/ \E late \in 0 .. Late : ReserveIp(r, late) \/ ReserveAccount(r, late)
          \/ RefuseIp(r) \/ RefuseAccount(r) \/ Keep(r) \/ RefundIp(r) \/ RefundAccount(r)
    \/ Pass

LimiterSpec == LimiterInit /\ [][LimiterNext]_limiterVars

-----------------------------------------------------------------------------
(* Properties.                                                                *)

\* Attempts whose point of k is out, in its present window.
Holders(k) ==
    IF k = Ip THEN {r \in Attempts : /\ attempt[r].ip = window[k]
                                     /\ attempt[r].phase \notin {"new", "succeeded", "ended"}}
    ELSE {r \in Attempts : /\ attempt[r].account = k /\ attempt[r].own = window[k]
                           /\ attempt[r].phase \in {"refused", "granted", "succeeded", "failed"}}
Kept(k) == {r \in Holders(k) : attempt[r].phase \in {"granted", "failed"}}

\* While a window lasts, its counter is exactly the points that are out: no
\* success, refusal or refund of an earlier window frees or takes another's
\* point, and no more attempts are under way or have failed than allowed.
LimiterExact ==
    \A k \in Keys : Live(k) =>
        /\ counter[k].ends > time /\ counter[k].points = Cardinality(Holders(k))
        /\ Cardinality(Kept(k)) <= Points(k)

=============================================================================
