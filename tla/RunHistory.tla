----------------------------- MODULE RunHistory -----------------------------
(***************************************************************************)
(* What the run ledger promises of one thread, whatever prompts, agents,   *)
(* timers and crashes do to it: work happens one turn at a time ("one      *)
(* thread has many sequential runs", ledger.rs:3), each run moves along    *)
(* the edges of advance's table, and a run that ended stays as it ended.   *)
(* Session is shown to keep this promise.                                  *)
(***************************************************************************)
EXTENDS Ledger

VARIABLE history    \* the states of the thread's runs, oldest first

TypeOK == history \in Seq(RunStates)

Init == history = <<>>

Next == Lawful(history, history')

Spec == Init /\ [][Next]_history

\* Only the newest run of a thread can be open (one turn at a time).
OneTurnAtATime == OneOpen(history)

\* A run that ended keeps its outcome, and no run ever leaves the ledger.
EndsOnce ==
    [][ /\ Len(history) <= Len(history')
        /\ \A i \in 1..Len(history) :
              history[i] \in Terminal => history'[i] = history[i] ]_history
=============================================================================
