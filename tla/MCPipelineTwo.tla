--------------------------- MODULE MCPipelineTwo ---------------------------
(* Two jobs that compete for the Runner's slot, its one worker and the       *)
(* Console's limit; the song's video changes, so that both can be open.      *)
EXTENDS WaveformPipeline, TLC

CONSTANTS s1, v1, v2, j1, j2, a1, a2, p1

MCSongs    == {s1}
MCVideos   == {v1, v2}
MCJobs     == {j1, j2}
MCAttempts == {a1, a2}
MCAccounts == {p1}
MCContents == {a1, a2}
MCAllowed  == {v1, v2}
MCLists    == {{v1, v2}}

Symmetry == Permutations(MCAttempts) \cup Permutations(MCJobs)

=============================================================================
