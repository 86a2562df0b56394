---------------------------- MODULE MCDispatcher ----------------------------
(* One process, its dispatcher, one administrator with two browsers.        *)
EXTENDS NotificationDispatcher, TLC

CONSTANTS a1, i1, i2, n1, p1, t1, t2, t3

MCAccounts  == {a1}
MCInstalls  == {i1, i2}
MCNotes     == {n1}
MCRecipient == n1 :> a1
MCProcesses == {p1}
MCTokens    == {t1, t2, t3}

Symmetry == Permutations(MCInstalls) \cup Permutations(MCTokens)

=============================================================================
