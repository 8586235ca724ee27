----------------------- MODULE MCChannelSubscription -----------------------
(***************************************************************************)
(* ChannelSubscription on a small instance.                                *)
(***************************************************************************)
EXTENDS ChannelSubscription, TLC

CONSTANTS p1, p2, g1, g2, m1, m2

\* The first Subscribe filters a message out and retains, the second has no
\* filter.
FirstFilters == g1 :> {m2} @@ g2 :> {m1, m2}

Symmetry == Permutations(Callers)
=============================================================================
