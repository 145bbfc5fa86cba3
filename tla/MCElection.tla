----------------------------- MODULE MCElection ------------------------------
(* Servers named by small pids. *)
EXTENDS Election
=============================================================================
