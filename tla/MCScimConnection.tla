-------------------------- MODULE MCScimConnection --------------------------
(* A small instance of ScimConnection for TLC; its constants are in the cfg. *)
EXTENDS ScimConnection
=============================================================================
