------------------------------ MODULE MCTools -------------------------------
(* Tools on a small instance: two threads that may both use the profile. *)
EXTENDS Tools

CONSTANTS a, b
=============================================================================
