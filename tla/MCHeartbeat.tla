----------------------------- MODULE MCHeartbeat -----------------------------
(***************************************************************************)
(* Heartbeat on a small instance, with its liveness properties.            *)
(***************************************************************************)
EXTENDS Heartbeat
=============================================================================
