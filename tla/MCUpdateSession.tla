-------------------------- MODULE MCUpdateSession --------------------------
(* UpdateSession for TLC: a package server with two addresses. *)
EXTENDS UpdateSession
=============================================================================
