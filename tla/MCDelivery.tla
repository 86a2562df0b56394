----------------------------- MODULE MCDelivery -----------------------------
(* One delivery, two dispatchers: leases, retries, crashes.                 *)
EXTENDS NotificationDelivery, TLC

CONSTANTS a1, i1, n1, p1, p2, t1, t2, t3

MCAccounts  == {a1}
MCInstalls  == {i1}
MCNotes     == {n1}
MCRecipient == n1 :> a1
MCProcesses == {p1, p2}
\* One for the row and one for each sender that lost it.
MCTokens    == {t1, t2, t3}

Symmetry == Permutations(MCProcesses) \cup Permutations(MCTokens)

=============================================================================
