-------------------------- MODULE MCSocketRequests --------------------------
(***************************************************************************)
(* SocketRequests on small instances.                                      *)
(***************************************************************************)
EXTENDS SocketRequests, TLC

CONSTANTS c1, c2, c3

\* Two GetHistory calls on one channel beside the Subscribe whose snapshot has
\* the event name they wait for.
HistoryKind == c1 :> "get_history" @@ c2 :> "get_history" @@ c3 :> "subscribe"
HistoryChan == c1 :> "a" @@ c2 :> "a" @@ c3 :> "a"

\* Two publishes on one channel.
TwinKind == c1 :> "publish" @@ c2 :> "publish"
TwinChan == c1 :> "a" @@ c2 :> "a"

\* The first two calls have the same method and channel.
Twins == Permutations({c1, c2})
=============================================================================
