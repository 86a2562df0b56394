---------------------------- MODULE JobLifecycle ----------------------------
(***************************************************************************)
(* What the waveform job service promises the administrators who ask for   *)
(* a waveform, with nothing of how it keeps the promise: no attempts, no   *)
(* queue, no songs table, no transactions.                                 *)
(*                                                                         *)
(* A job analyses one key (a song together with one of its videos).        *)
(* Everybody who asks for that key while the job is open is told how it    *)
(* ended, once, in the very step that ends it.  WaveformJob implements     *)
(* this specification.                                                     *)
(***************************************************************************)
CONSTANTS Jobs,      \* identities of job rows
          Keys,      \* what a job analyses
          Accounts   \* administrators

VARIABLES phase,     \* phase[j]: where job j is in its life
          key,       \* key[j]: what job j analyses, once it exists
          asked,     \* asked[j]: who asked for j while it was open
          told       \* told[j]: the pairs <<account, outcome>> announced for j

vars == <<phase, key, asked, told>>

Open     == {"QUEUED", "RUNNING"}
Outcomes == {"SUCCEEDED", "FAILED"}
Phases   == {"NONE", "DELETED"} \cup Open \cup Outcomes

OpenFor(k) == {j \in Jobs : phase[j] \in Open /\ key[j] = k}

-----------------------------------------------------------------------------

Init == /\ phase = [j \in Jobs |-> "NONE"]
        /\ key \in [Jobs -> Keys]
        /\ asked = [j \in Jobs |-> {}]
        /\ told = [j \in Jobs |-> {}]

\* p asks for key k; an open job for k answers, and only without one is a
\* new job opened.
Ask(j, k, p) ==
    /\ \/ j \in OpenFor(k) /\ UNCHANGED <<phase, key>>
       \/ /\ phase[j] = "NONE"
          /\ OpenFor(k) = {}
          /\ phase' = [phase EXCEPT ![j] = "QUEUED"]
          /\ key' = [key EXCEPT ![j] = k]
    /\ asked' = [asked EXCEPT ![j] = @ \cup {p}]
    /\ UNCHANGED told

\* An attempt at an open job begins; a later attempt may replace it.
Run(j) ==
    /\ phase[j] \in Open
    /\ phase' = [phase EXCEPT ![j] = "RUNNING"]
    /\ UNCHANGED <<key, asked, told>>

\* An open job ends with outcome o, and everybody who asked is told so.
Finish(j, o) ==
    /\ phase[j] \in Open
    /\ phase' = [phase EXCEPT ![j] = o]
    /\ told' = [told EXCEPT ![j] = asked[j] \X {o}]
    /\ UNCHANGED <<key, asked>>

\* p supplies the result for k itself: the open job for k, or a job opened
\* for this purpose, succeeds at once.
Supply(j, k, p) ==
    /\ \/ j \in OpenFor(k) /\ UNCHANGED key
       \/ /\ phase[j] = "NONE"
          /\ OpenFor(k) = {}
          /\ key' = [key EXCEPT ![j] = k]
    /\ phase' = [phase EXCEPT ![j] = "SUCCEEDED"]
    /\ asked' = [asked EXCEPT ![j] = @ \cup {p}]
    /\ told' = [told EXCEPT ![j] = (asked[j] \cup {p}) \X {"SUCCEEDED"}]

\* Existing jobs disappear together with the song they belong to; what was
\* already announced stays announced.
Remove(D) ==
    /\ \A j \in D : phase[j] \in Open \cup Outcomes
    /\ phase' = [j \in Jobs |-> IF j \in D THEN "DELETED" ELSE phase[j]]
    /\ asked' = [j \in Jobs |-> IF j \in D THEN {} ELSE asked[j]]
    /\ UNCHANGED <<key, told>>

Next ==
    \/ \E j \in Jobs, k \in Keys, p \in Accounts : Ask(j, k, p) \/ Supply(j, k, p)
    \/ \E j \in Jobs : Run(j) \/ \E o \in Outcomes : Finish(j, o)
    \/ \E D \in SUBSET Jobs : Remove(D)

Spec == Init /\ [][Next]_vars

=============================================================================
