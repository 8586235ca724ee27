-------------------------- MODULE MCSocketTransport --------------------------
(***************************************************************************)
(* SocketTransport on small instances.                                     *)
(***************************************************************************)
EXTENDS SocketTransport
=============================================================================
