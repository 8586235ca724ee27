--------------------------- MODULE MCEnhancedCalls ---------------------------
(***************************************************************************)
(* EnhancedCalls on small instances.                                       *)
(***************************************************************************)
EXTENDS EnhancedCalls, TLC

CONSTANTS c1, c2, s1, s2

\* A query whose answer has the name of a broadcast, made twice at a time.
TwinEvent == c1 :> "subscribe_thread" @@ c2 :> "subscribe_thread"

Alike == Permutations({c1, c2}) \cup Permutations({s1, s2})
=============================================================================
