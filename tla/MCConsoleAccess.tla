--------------------------- MODULE MCConsoleAccess ---------------------------
(* One administrator, three requests, one grant that two pollers exchange.  *)
EXTENDS OperatorSession, TLC

CONSTANTS a1, r1, r2, r3, p1, p2, d1

MCAccounts == {a1}
MCRequests == {r1, r2, r3}
MCDevices  == {d1}
MCPolls    == {p1, p2}

Symmetry == Permutations(MCRequests) \cup Permutations(MCPolls)

=============================================================================
