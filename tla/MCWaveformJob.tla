--------------------------- MODULE MCWaveformJob ---------------------------
(* One song whose video changes between two, two administrators, two jobs.  *)
EXTENDS WaveformJob, TLC

CONSTANTS s1, v1, v2, j1, j2, a1, a2, a3, p1, p2, c1

MCSongs    == {s1}
MCVideos   == {v1, v2}
MCJobs     == {j1, j2}
MCAttempts == {a1, a2, a3}
MCAccounts == {p1, p2}
MCContents == {c1}
MCAllowed  == {v1, v2}

\* Jobs, attempts and accounts are interchangeable.
Symmetry == Permutations(MCJobs) \cup Permutations(MCAttempts) \cup Permutations(MCAccounts)

=============================================================================
