------------------------------- MODULE Ledger -------------------------------
(***************************************************************************)
(* The run ledger's table (host/lifecycle/ledger.rs) and the operations    *)
(* the lifecycle performs on one thread's runs.  A thread's runs are a     *)
(* sequence of states in the order of runs.seq; a run is known by its      *)
(* place in it.                                                            *)
(***************************************************************************)
EXTENDS Naturals, Sequences

Terminal == {"succeeded", "failed", "cancelled", "timed_out", "lost"}
Open == {"queued", "running", "needs_you"}
RunStates == Terminal \cup Open

\* The edges of the ledger: a run starts, pauses on an ask, and ends once.
CanAdvance(from, to) ==
    \/ from = "queued" /\ to \in {"running", "cancelled", "lost"}
    \/ from = "running" /\ to \in Terminal \cup {"needs_you"}
    \/ from = "needs_you" /\ to \in {"running", "cancelled", "failed", "timed_out", "lost"}

-----------------------------------------------------------------------------
(* One thread's runs.                                                      *)

Newest(rs) == rs[Len(rs)]

HasOpen(rs) == rs # <<>> /\ Newest(rs) \in Open

\* Write a state into the newest row, with no question asked (set_run_state).
MoveNewest(rs, state) == [rs EXCEPT ![Len(rs)] = state]

\* Move the open run along one edge, or leave the ledger as it is.
Advance(rs, to) ==
    IF HasOpen(rs) /\ CanAdvance(Newest(rs), to) THEN MoveNewest(rs, to) ELSE rs

\* An ask blocks the open run (pause_run).
PauseRun(rs) == Advance(rs, "needs_you")

\* An answered ask puts a blocked run, and only a blocked one, back to work.
ResumeRun(rs) ==
    IF HasOpen(rs) /\ Newest(rs) = "needs_you" THEN MoveNewest(rs, "running") ELSE rs

\* Broken: the edge is not looked up.
CloseRunBlind(rs, target) == IF rs = <<>> THEN rs ELSE MoveNewest(rs, target)

\* End the open run.  A blocked run whose agent went on without an answer is
\* walked through "running" first, because "needs_you" has no edge to success.
CloseRun(rs, target) ==
    Advance(IF target = "cancelled" THEN rs ELSE ResumeRun(rs), target)

\* Broken: only the work it was doing, or only what was blocked.
LoseRunWorking(rs) ==
    IF rs # <<>> /\ Newest(rs) = "running" THEN Advance(rs, "failed") ELSE rs
\* An adapter that died fails the work it was doing and loses what was blocked.
LoseRun(rs) ==
    Advance(rs, IF rs # <<>> /\ Newest(rs) = "running" THEN "failed" ELSE "lost")

\* Broken: nothing is retired.
InsertRunOver(rs) == Append(rs, "queued")

\* Retire whatever a dead host left open, and insert the row of a new run.
InsertRun(rs) ==
    Append(IF HasOpen(rs) THEN MoveNewest(rs, "lost") ELSE rs, "queued")

\* The prompt was accepted: the inserted row goes straight to "running".
OpenRun(rs) == MoveNewest(InsertRun(rs), "running")

\* Broken: what failed before is lost too.
LoseAllUnfinished(rs) ==
    [i \in 1..Len(rs) |-> IF rs[i] # "succeeded" THEN "lost" ELSE rs[i]]

\* The boot pass closes every run it finds open, not only the newest.
LoseAllOpen(rs) ==
    [i \in 1..Len(rs) |-> IF rs[i] \in Open THEN "lost" ELSE rs[i]]

-----------------------------------------------------------------------------
(* What one step of the host may make of a thread's runs.                  *)

\* Where a run can be after one handler: a handler may pass through
\* "running", as a turn that ends while its run is blocked does.
Reach(from) ==
    {from} \cup {to \in RunStates : CanAdvance(from, to)}
           \cup {to \in RunStates : CanAdvance(from, "running") /\ CanAdvance("running", to)}

\* The newest run moves, if it is still open.
Settles(before, after) ==
    \/ after = before
    \/ /\ HasOpen(before)
       /\ \E state \in Reach(Newest(before)) : after = MoveNewest(before, state)

\* A run is added once the one before it is over.
Begins(before, after) ==
    /\ ~HasOpen(before)
    /\ \E state \in {"queued", "running"} : after = Append(before, state)

\* The newest run settles, another begins, or both.
Lawful(before, after) ==
    \/ Settles(before, after)
    \/ Begins(before, after)
    \/ /\ HasOpen(before)
       /\ \E state \in Reach(Newest(before)) \cap Terminal :
             Begins(MoveNewest(before, state), after)

\* Only the newest run can be open (one turn at a time).
OneOpen(rs) == \A i \in 1..Len(rs) : i < Len(rs) => rs[i] \in Terminal
=============================================================================
