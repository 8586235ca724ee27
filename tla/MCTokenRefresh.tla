--------------------------- MODULE MCTokenRefresh ---------------------------
(***************************************************************************)
(* TokenRefresh on a small instance, with its liveness properties.         *)
(***************************************************************************)
EXTENDS TokenRefresh
=============================================================================
