--------------------------- MODULE MCPullRequests ---------------------------
(* PullRequests on a small instance. *)
EXTENDS PullRequests, TLC

CONSTANTS t1, t2, p1, p2, p3, c1, c2
Interchangeable == Permutations(Threads) \cup Permutations(Prs \ Strangers)
=============================================================================
