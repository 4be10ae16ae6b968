---------------------------- MODULE MCWorktrees ----------------------------
(* Worktrees on a small instance: two threads in one repository. *)
EXTENDS Worktrees

CONSTANTS t1, t2

Apart == [t \in {t1, t2} |-> IF t = t1 THEN "a-b" ELSE "c"]
Shared == [t \in {t1, t2} |-> "a-b"]
=============================================================================
