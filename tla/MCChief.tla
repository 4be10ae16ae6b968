------------------------------ MODULE MCChief -------------------------------
(* Chief and Drafts on a small instance: two bots that may both use the host tools. *)
EXTENDS Drafts, TLC

CONSTANTS chief, writer, w1, w2, x, y
Interchangeable == Permutations(Bots) \cup Permutations(Windows) \cup Permutations(Proposals)
=============================================================================
