-------------------------- MODULE MCDispatcherLive --------------------------
(* One delivery and one process under fairness; no symmetry.                *)
EXTENDS NotificationDispatcher, TLC

CONSTANTS a1, i1, n1, p1, t1, t2

MCAccounts  == {a1}
MCInstalls  == {i1}
MCNotes     == {n1}
MCRecipient == n1 :> a1
MCProcesses == {p1}
MCTokens    == {t1, t2}

=============================================================================
