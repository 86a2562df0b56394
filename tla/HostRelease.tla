---------------------------- MODULE HostRelease ----------------------------
(***************************************************************************)
(* What the host promises those who deploy to it, with nothing of how: no  *)
(* phases, environment files, containers, commands or retries.             *)
(*                                                                         *)
(* A release is taken as a whole, by all apps at once, and the one before  *)
(* it becomes the previous one; or nothing has changed; or the host is     *)
(* stuck, in whatever state, and takes nothing more.  PairedRelease        *)
(* implements this specification, and so does the host as Promotion sees   *)
(* it.                                                                     *)
(***************************************************************************)
CONSTANTS Apps, Releases, None,
          Legacy      \* whether an app of before runs at first

VARIABLES current,    \* the release of the host
          previous,   \* the one to go back to
          serving,    \* serving[a]: the release that app a is of
          legacy,     \* the app of before runs
          stuck       \* an operator has to look after the host

hostReleaseVars == <<current, previous, serving, legacy, stuck>>

HostReleaseInit ==
    /\ current = None /\ previous = None
    /\ serving = [a \in Apps |-> None]
    /\ legacy = Legacy /\ stuck = FALSE

\* Release r, which is neither of the two that are kept, takes the place of the
\* current one.
Take(r) ==
    /\ ~stuck /\ r \notin {current, previous}
    /\ current' = r /\ previous' = current
    /\ serving' = [a \in Apps |-> r]
    /\ legacy' = FALSE
    /\ UNCHANGED stuck

\* On the way to release r the host is left to itself. Its two names are still
\* those of r, or of what there was before it.
Break(r) ==
    /\ ~stuck /\ stuck' = TRUE
    /\ current' \in {current, r} /\ previous' \in {current, previous}
    /\ serving' \in [Apps -> Releases \cup {None}]
    /\ legacy' \in BOOLEAN

HostReleaseNext == \E r \in Releases : Take(r) \/ Break(r)

HostReleaseSpec == HostReleaseInit /\ [][HostReleaseNext]_hostReleaseVars

=============================================================================
