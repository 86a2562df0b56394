----------------------------- MODULE MCPipeline -----------------------------
(* One song, one job, everything that can go wrong around it.               *)
EXTENDS WaveformPipeline, TLC

CONSTANTS s1, v1, v2, j1, a1, a2, a3, p1, upload

MCSongs    == {s1}
MCVideos   == {v1, v2}
MCJobs     == {j1}
MCAttempts == {a1, a2, a3}
MCAccounts == {p1}
MCContents == {a1, a2, a3, upload}
MCAllowed  == {v1}
\* The Console's list and the Runner's need not agree.
MCLists    == {{}, {v1}}

Symmetry == Permutations(MCAttempts)

=============================================================================
