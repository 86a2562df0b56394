----------------------------- MODULE MCBrowser ------------------------------
(* One browser that changes hands between two administrators whose access   *)
(* and MFA change, while a delivery for one of them is sent.                *)
EXTENDS NotificationDelivery, TLC

CONSTANTS a1, a2, i1, n1, p1, t1, t2

MCAccounts  == {a1, a2}
MCInstalls  == {i1}
MCNotes     == {n1}
MCRecipient == n1 :> a1
MCProcesses == {p1}
MCTokens    == {t1, t2}

Symmetry == Permutations(MCTokens)

=============================================================================
