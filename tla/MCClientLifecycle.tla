-------------------------- MODULE MCClientLifecycle --------------------------
(***************************************************************************)
(* ClientLifecycle on small instances.                                     *)
(***************************************************************************)
EXTENDS ClientLifecycle, TLC

\* Callers, timers and sockets are interchangeable: Init and the actions treat
\* them alike.  Used for the runs without liveness properties.
Symmetry ==
    Permutations(Callers) \cup Permutations(Timers) \cup Permutations(Sockets)
=============================================================================
