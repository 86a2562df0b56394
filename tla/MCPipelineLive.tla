--------------------------- MODULE MCPipelineLive --------------------------
(* One job under fairness; no uploads, no symmetry.                          *)
EXTENDS WaveformPipeline, TLC

CONSTANTS s1, v1, j1, a1, p1

MCSongs    == {s1}
MCVideos   == {v1}
MCJobs     == {j1}
MCAttempts == {a1}
MCAccounts == {p1}
MCContents == {a1}
MCAllowed  == {v1}
MCLists    == {{}, {v1}}

=============================================================================
