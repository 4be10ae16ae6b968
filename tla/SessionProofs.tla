--------------------------- MODULE SessionProofs ---------------------------
(***************************************************************************)
(* What holds of a session for every number of prompts, asks, events and   *)
(* restarts, and whatever the agent does.                                  *)
(***************************************************************************)
EXTENDS Session, SequenceTheorems, FiniteSetTheorems, TLAPS

-----------------------------------------------------------------------------
(* What the ledger's operations do to the runs of one thread, for every    *)
(* ledger: each of them is lawful, none ends a run twice, and lawful steps *)
(* keep all runs but the newest closed.                                    *)

\* Writing a state into the newest row changes that row and nothing else.
LEMMA MoveNewestProps ==
    ASSUME NEW rs \in Seq(RunStates), rs # <<>>, NEW state \in RunStates
    PROVE  /\ MoveNewest(rs, state) \in Seq(RunStates)
           /\ MoveNewest(rs, state) # <<>>
           /\ Len(MoveNewest(rs, state)) = Len(rs)
           /\ Newest(MoveNewest(rs, state)) = state
           /\ \A i \in 1..Len(rs) :
                 MoveNewest(rs, state)[i] = IF i = Len(rs) THEN state ELSE rs[i]
  <1>1. Len(rs) \in 1..Len(rs)
    BY EmptySeq
  <1>2. /\ [rs EXCEPT ![Len(rs)] = state] \in Seq(RunStates)
        /\ Len([rs EXCEPT ![Len(rs)] = state]) = Len(rs)
        /\ \A j \in 1..Len(rs) :
              [rs EXCEPT ![Len(rs)] = state][j] = IF j = Len(rs) THEN state ELSE rs[j]
    BY <1>1, ExceptSeq
  <1> QED
    BY <1>1, <1>2 DEF MoveNewest, Newest

\* The newest row has one of the ledger's states.
LEMMA NewestType ==
    ASSUME NEW rs \in Seq(RunStates), rs # <<>>
    PROVE  Len(rs) \in Nat \ {0} /\ Newest(rs) \in RunStates
  BY EmptySeq, ElementOfSeq DEF Newest

\* Moving twice is moving to the second state.
LEMMA MoveTwice ==
    ASSUME NEW rs \in Seq(RunStates), rs # <<>>,
           NEW first \in RunStates, NEW second \in RunStates
    PROVE  MoveNewest(MoveNewest(rs, first), second) = MoveNewest(rs, second)
  <1> DEFINE once == MoveNewest(rs, first)
             twice == MoveNewest(once, second)
             direct == MoveNewest(rs, second)
  <1>1. /\ once \in Seq(RunStates) /\ once # <<>> /\ Len(once) = Len(rs)
        /\ \A i \in 1..Len(rs) : once[i] = IF i = Len(rs) THEN first ELSE rs[i]
    BY MoveNewestProps
  <1>2. /\ direct \in Seq(RunStates) /\ Len(direct) = Len(rs)
        /\ \A i \in 1..Len(rs) : direct[i] = IF i = Len(rs) THEN second ELSE rs[i]
    BY MoveNewestProps
  <1> HIDE DEF once, direct
  <1>3. /\ twice \in Seq(RunStates) /\ Len(twice) = Len(once)
        /\ \A i \in 1..Len(once) : twice[i] = IF i = Len(once) THEN second ELSE once[i]
    BY <1>1, MoveNewestProps
  <1> HIDE DEF twice
  <1>4. Len(twice) = Len(direct) /\ \A i \in 1..Len(twice) : twice[i] = direct[i]
    BY <1>1, <1>2, <1>3
  <1>5. twice = direct
    BY <1>2, <1>3, <1>4, SeqEqual
  <1> QED
    BY <1>5 DEF twice, once, direct

-----------------------------------------------------------------------------
(* The operations that move the newest run.                                *)

\* Every edge of the table, and every edge taken by way of "running", can be
\* reached; so moving along it settles the newest run.
LEMMA EdgeSettles ==
    ASSUME NEW rs \in Seq(RunStates), HasOpen(rs), NEW to \in RunStates,
           \/ CanAdvance(Newest(rs), to)
           \/ CanAdvance(Newest(rs), "running") /\ CanAdvance("running", to)
    PROVE  MoveNewest(rs, to) \in Seq(RunStates) /\ Settles(rs, MoveNewest(rs, to))
  BY MoveNewestProps DEF HasOpen, Settles, Reach

LEMMA AdvanceSettles ==
    ASSUME NEW rs \in Seq(RunStates), NEW to \in RunStates
    PROVE  Advance(rs, to) \in Seq(RunStates) /\ Settles(rs, Advance(rs, to))
  BY EdgeSettles DEF Advance, Settles

LEMMA PauseSettles ==
    ASSUME NEW rs \in Seq(RunStates)
    PROVE  PauseRun(rs) \in Seq(RunStates) /\ Settles(rs, PauseRun(rs))
  BY AdvanceSettles DEF PauseRun, RunStates, Open, Terminal

LEMMA ResumeSettles ==
    ASSUME NEW rs \in Seq(RunStates)
    PROVE  ResumeRun(rs) \in Seq(RunStates) /\ Settles(rs, ResumeRun(rs))
  BY EdgeSettles DEF ResumeRun, Settles, RunStates, Open, Terminal, CanAdvance

\* Closing ends the open run in the target state, unless it was only queued.
LEMMA CloseSettles ==
    ASSUME NEW rs \in Seq(RunStates),
           NEW target \in {"succeeded", "failed", "cancelled", "timed_out"}
    PROVE  /\ CloseRun(rs, target) \in Seq(RunStates)
           /\ Settles(rs, CloseRun(rs, target))
           /\ \/ CloseRun(rs, target) = rs
              \/ /\ HasOpen(rs)
                 /\ target \in Reach(Newest(rs))
                 /\ CloseRun(rs, target) = MoveNewest(rs, target)
  <1>1. target \in RunStates /\ "running" \in RunStates
    BY DEF RunStates, Terminal, Open
  <1>2. CASE HasOpen(rs) /\ Newest(rs) = "needs_you" /\ target # "cancelled"
    <2> DEFINE resumed == MoveNewest(rs, "running")
    <2>1. ResumeRun(rs) = resumed
      BY <1>2 DEF ResumeRun
    <2>2. resumed \in Seq(RunStates) /\ resumed # <<>> /\ Newest(resumed) = "running"
      BY <1>1, <1>2, MoveNewestProps DEF HasOpen
    <2>3. HasOpen(resumed) /\ CanAdvance("running", target)
      BY <2>2 DEF HasOpen, Open, CanAdvance, Terminal
    <2>4. CloseRun(rs, target) = MoveNewest(resumed, target)
      BY <1>2, <2>1, <2>2, <2>3 DEF CloseRun, Advance
    <2>5. CloseRun(rs, target) = MoveNewest(rs, target)
      BY <1>1, <1>2, <2>4, MoveTwice DEF HasOpen
    <2>6. CanAdvance(Newest(rs), "running")
      BY <1>2 DEF CanAdvance
    <2>7. target \in Reach(Newest(rs))
      BY <1>1, <2>3, <2>6 DEF Reach
    <2> QED
      BY <1>1, <1>2, <2>3, <2>5, <2>6, <2>7, EdgeSettles
  <1>3. CASE ~(HasOpen(rs) /\ Newest(rs) = "needs_you" /\ target # "cancelled")
    <2>1. CloseRun(rs, target) = Advance(rs, target)
      BY <1>3 DEF CloseRun, ResumeRun
    <2> QED
      BY <1>1, <2>1, AdvanceSettles DEF Advance, Reach
  <1> QED
    BY <1>2, <1>3

LEMMA LoseSettles ==
    ASSUME NEW rs \in Seq(RunStates)
    PROVE  LoseRun(rs) \in Seq(RunStates) /\ Settles(rs, LoseRun(rs))
  BY AdvanceSettles DEF LoseRun, RunStates, Terminal

\* An adapter that died in a turn that showed nothing: the run fails, or, if it
\* had not started, is lost.
LEMMA FailThenLoseSettles ==
    ASSUME NEW rs \in Seq(RunStates)
    PROVE  /\ LoseRun(CloseRun(rs, "failed")) \in Seq(RunStates)
           /\ Settles(rs, LoseRun(CloseRun(rs, "failed")))
  <1> DEFINE closed == CloseRun(rs, "failed")
  <1>1. closed = rs \/ (HasOpen(rs) /\ closed = MoveNewest(rs, "failed"))
    BY CloseSettles
  <1>2. closed \in Seq(RunStates) /\ Settles(rs, closed)
    BY CloseSettles
  <1>3. CASE closed = rs
    BY <1>3, LoseSettles
  <1>4. CASE HasOpen(rs) /\ closed = MoveNewest(rs, "failed")
    <2>1. closed # <<>> /\ Newest(closed) = "failed"
      BY <1>4, MoveNewestProps DEF HasOpen, RunStates, Terminal
    <2>2. LoseRun(closed) = closed
      BY <2>1 DEF LoseRun, Advance, HasOpen, Open
    <2> QED
      BY <1>2, <2>2
  <1> QED
    BY <1>1, <1>3, <1>4

-----------------------------------------------------------------------------
(* The operations that begin a run.                                        *)

\* Appending a row keeps the rows before it.
LEMMA AppendProps ==
    ASSUME NEW rs \in Seq(RunStates), NEW state \in RunStates
    PROVE  /\ Append(rs, state) \in Seq(RunStates)
           /\ Append(rs, state) # <<>>
           /\ Len(Append(rs, state)) = Len(rs) + 1
           /\ Newest(Append(rs, state)) = state
           /\ \A i \in 1..Len(rs) : Append(rs, state)[i] = rs[i]
  BY DEF Newest

\* The row that a prompt inserts and moves straight to "running" is a new row
\* in that state.
LEMMA MoveAppended ==
    ASSUME NEW rs \in Seq(RunStates), NEW first \in RunStates, NEW second \in RunStates
    PROVE  MoveNewest(Append(rs, first), second) = Append(rs, second)
  <1> DEFINE moved == MoveNewest(Append(rs, first), second)
             direct == Append(rs, second)
  <1>0. Append(rs, first) \in Seq(RunStates) /\ Append(rs, first) # <<>>
    BY AppendProps
  <1>1. /\ moved \in Seq(RunStates) /\ Len(moved) = Len(Append(rs, first))
        /\ \A i \in 1..Len(Append(rs, first)) :
              moved[i] = IF i = Len(Append(rs, first)) THEN second ELSE Append(rs, first)[i]
    BY <1>0, MoveNewestProps
  <1>2. /\ direct \in Seq(RunStates) /\ Len(direct) = Len(rs) + 1
        /\ direct[Len(rs) + 1] = second
    BY AppendProps DEF Newest
  <1>3. \A i \in 1..Len(moved) : moved[i] = direct[i]
    BY <1>1, <1>2, AppendProps
  <1> HIDE DEF moved, direct
  <1>4. moved = direct
    BY <1>1, <1>2, <1>3, SeqEqual
  <1> QED
    BY <1>4 DEF moved, direct

\* Beginning a run is lawful from any ledger, whatever was left open.
LEMMA BeginLawful ==
    ASSUME NEW rs \in Seq(RunStates), NEW state \in {"queued", "running"}
    PROVE  LET retired == IF HasOpen(rs) THEN MoveNewest(rs, "lost") ELSE rs
           IN  /\ Append(retired, state) \in Seq(RunStates)
               /\ Lawful(rs, Append(retired, state))
  <1>1. state \in RunStates /\ "lost" \in RunStates /\ "lost" \in Terminal
    BY DEF RunStates, Open, Terminal
  <1>2. CASE HasOpen(rs)
    <2> DEFINE retired == MoveNewest(rs, "lost")
    <2>1. retired \in Seq(RunStates) /\ retired # <<>> /\ Newest(retired) = "lost"
      BY <1>1, <1>2, MoveNewestProps DEF HasOpen
    <2>2. Begins(retired, Append(retired, state))
      BY <2>1 DEF Begins, HasOpen, Open
    <2>3. "lost" \in Reach(Newest(rs))
      BY <1>1, <1>2 DEF HasOpen, Open, Reach, CanAdvance, Terminal
    <2> QED
      BY <1>1, <1>2, <2>1, <2>2, <2>3, AppendProps DEF Lawful
  <1>3. CASE ~HasOpen(rs)
    BY <1>1, <1>3, AppendProps DEF Lawful, Begins
  <1> QED
    BY <1>2, <1>3

LEMMA InsertLawful ==
    ASSUME NEW rs \in Seq(RunStates)
    PROVE  InsertRun(rs) \in Seq(RunStates) /\ Lawful(rs, InsertRun(rs))
  BY BeginLawful DEF InsertRun

LEMMA OpenIsAppend ==
    ASSUME NEW rs \in Seq(RunStates)
    PROVE  OpenRun(rs) = Append(IF HasOpen(rs) THEN MoveNewest(rs, "lost") ELSE rs, "running")
  <1>1. {"queued", "running", "lost"} \subseteq RunStates
    BY DEF RunStates, Open, Terminal
  <1>2. (IF HasOpen(rs) THEN MoveNewest(rs, "lost") ELSE rs) \in Seq(RunStates)
    BY <1>1, MoveNewestProps DEF HasOpen
  <1> QED
    BY <1>1, <1>2, MoveAppended DEF OpenRun, InsertRun

LEMMA OpenLawful ==
    ASSUME NEW rs \in Seq(RunStates)
    PROVE  OpenRun(rs) \in Seq(RunStates) /\ Lawful(rs, OpenRun(rs))
  BY BeginLawful, OpenIsAppend

\* A turn's end that sends the next prompt: one run ends and the next begins.
LEMMA CloseThenOpenLawful ==
    ASSUME NEW rs \in Seq(RunStates),
           NEW target \in {"succeeded", "failed", "cancelled", "timed_out"}
    PROVE  /\ OpenRun(CloseRun(rs, target)) \in Seq(RunStates)
           /\ Lawful(rs, OpenRun(CloseRun(rs, target)))
  <1> DEFINE closed == CloseRun(rs, target)
  <1>1. closed \in Seq(RunStates)
    BY CloseSettles
  <1>2. \/ closed = rs
        \/ /\ HasOpen(rs)
           /\ target \in Reach(Newest(rs))
           /\ closed = MoveNewest(rs, target)
    BY CloseSettles
  <1>3. CASE closed = rs
    BY <1>3, OpenLawful
  <1>4. CASE closed # rs
    <2>1. HasOpen(rs) /\ target \in Reach(Newest(rs)) /\ closed = MoveNewest(rs, target)
      BY <1>2, <1>4
    <2>2. target \in RunStates /\ target \in Terminal
      BY DEF RunStates, Terminal
    <2>3. closed # <<>> /\ Newest(closed) = target
      BY <2>1, <2>2, MoveNewestProps DEF HasOpen
    <2>4. ~HasOpen(closed)
      BY <2>2, <2>3 DEF HasOpen, Open, Terminal
    <2>5. OpenRun(closed) = Append(closed, "running")
      BY <1>1, <2>4, OpenIsAppend
    <2>6. Begins(closed, OpenRun(closed))
      BY <2>4, <2>5 DEF Begins
    <2> QED
      BY <1>1, <2>1, <2>2, <2>6, OpenLawful DEF Lawful
  <1> QED
    BY <1>3, <1>4

-----------------------------------------------------------------------------
(* Restarts, and what lawful steps preserve.                               *)

\* The boot pass closes every open run; where only the newest can be open, it
\* settles that one.
LEMMA LoseAllSettles ==
    ASSUME NEW rs \in Seq(RunStates), OneOpen(rs)
    PROVE  LoseAllOpen(rs) \in Seq(RunStates) /\ Settles(rs, LoseAllOpen(rs))
  <1> DEFINE lost == LoseAllOpen(rs)
  <1>1. Len(rs) \in Nat /\ "lost" \in RunStates
    BY LenProperties DEF RunStates, Terminal
  <1>2. /\ lost \in Seq(RunStates) /\ Len(lost) = Len(rs)
        /\ \A i \in 1..Len(rs) : lost[i] = IF rs[i] \in Open THEN "lost" ELSE rs[i]
    <2>1. \A i \in 1..Len(rs) : (IF rs[i] \in Open THEN "lost" ELSE rs[i]) \in RunStates
      BY <1>1, ElementOfSeq
    <2> QED
      BY <1>1, <2>1 DEF LoseAllOpen
  <1>3. \A i \in 1..Len(rs) : i < Len(rs) => rs[i] \notin Open
    BY DEF OneOpen, Open, Terminal
  <1> HIDE DEF lost
  <1>4. CASE HasOpen(rs)
    <2> DEFINE moved == MoveNewest(rs, "lost")
    <2>1. /\ rs # <<>> /\ moved \in Seq(RunStates) /\ Len(moved) = Len(rs)
          /\ \A i \in 1..Len(rs) : moved[i] = IF i = Len(rs) THEN "lost" ELSE rs[i]
      BY <1>1, <1>4, MoveNewestProps DEF HasOpen
    <2> HIDE DEF moved
    <2>2. Len(lost) = Len(moved) /\ \A i \in 1..Len(lost) : lost[i] = moved[i]
      BY <1>1, <1>2, <1>3, <1>4, <2>1 DEF HasOpen, Newest
    <2>3. lost = moved
      BY <1>2, <2>1, <2>2, SeqEqual
    <2>4. CanAdvance(Newest(rs), "lost")
      BY <1>4 DEF HasOpen, Open, CanAdvance, Terminal
    <2> QED
      BY <1>1, <1>4, <2>3, <2>4, EdgeSettles DEF lost, moved
  <1>5. CASE ~HasOpen(rs)
    <2>1. \A i \in 1..Len(rs) : rs[i] \notin Open
      BY <1>1, <1>3, <1>5, EmptySeq DEF HasOpen, Newest
    <2>2. lost = rs
      BY <1>2, <2>1, SeqEqual
    <2> QED
      BY <1>2, <2>2 DEF Settles, lost
  <1> QED
    BY <1>4, <1>5

\* A state reached from a state of the ledger is one.
LEMMA ReachType ==
    ASSUME NEW from \in RunStates
    PROVE  Reach(from) \subseteq RunStates
  BY DEF Reach

\* A run moves from an open state only, so what has ended stays.
LEMMA SettlesKeeps ==
    ASSUME NEW rs \in Seq(RunStates), NEW after, Settles(rs, after)
    PROVE  /\ after \in Seq(RunStates) /\ Len(after) = Len(rs)
           /\ \A i \in 1..Len(rs) : i < Len(rs) \/ rs[i] \in Terminal => after[i] = rs[i]
  <1>1. CASE after = rs
    BY <1>1
  <1>2. CASE /\ HasOpen(rs)
             /\ \E state \in Reach(Newest(rs)) : after = MoveNewest(rs, state)
    <2>1. PICK state \in Reach(Newest(rs)) : after = MoveNewest(rs, state)
      BY <1>2
    <2>2. rs # <<>> /\ rs[Len(rs)] \notin Terminal
      BY <1>2 DEF HasOpen, Newest, Open, Terminal
    <2>3. state \in RunStates
      BY <2>2, NewestType, ReachType
    <2>4. /\ after \in Seq(RunStates) /\ Len(after) = Len(rs)
          /\ \A i \in 1..Len(rs) : after[i] = IF i = Len(rs) THEN state ELSE rs[i]
      BY <2>1, <2>2, <2>3, MoveNewestProps
    <2> QED
      BY <2>2, <2>4, LenProperties
  <1> QED
    BY <1>1, <1>2 DEF Settles

\* A lawful step loses no run, keeps every outcome, and keeps all runs but the
\* newest closed.
LEMMA LawfulKeeps ==
    ASSUME NEW rs \in Seq(RunStates), NEW after, Lawful(rs, after), OneOpen(rs)
    PROVE  /\ after \in Seq(RunStates)
           /\ OneOpen(after)
           /\ Len(rs) <= Len(after)
           /\ \A i \in 1..Len(rs) : rs[i] \in Terminal => after[i] = rs[i]
  <1> USE LenProperties
  <1>1. CASE Settles(rs, after)
    BY <1>1, SettlesKeeps DEF OneOpen
  <1>2. ASSUME NEW before \in Seq(RunStates), Begins(before, after), OneOpen(before),
               Len(before) = Len(rs),
               \A i \in 1..Len(rs) : rs[i] \in Terminal => before[i] = rs[i]
        PROVE  /\ after \in Seq(RunStates) /\ OneOpen(after) /\ Len(rs) <= Len(after)
               /\ \A i \in 1..Len(rs) : rs[i] \in Terminal => after[i] = rs[i]
    <2>1. PICK state \in {"queued", "running"} : after = Append(before, state)
      BY <1>2 DEF Begins
    <2>2. state \in RunStates
      BY DEF RunStates, Open
    <2>3. /\ after \in Seq(RunStates) /\ Len(after) = Len(rs) + 1
          /\ \A i \in 1..Len(rs) : after[i] = before[i]
      BY <1>2, <2>1, <2>2, AppendProps
    <2>4. \A i \in 1..Len(rs) : before[i] \in Terminal
      <3>1. before = <<>> \/ before[Len(before)] \in Terminal
        BY <1>2, NewestType DEF Begins, HasOpen, Newest, RunStates, Open
      <3> QED
        BY <1>2, <3>1 DEF OneOpen
    <2> QED
      BY <1>2, <2>3, <2>4 DEF OneOpen
  <1>3. CASE Begins(rs, after)
    BY <1>2, <1>3
  <1>4. CASE /\ HasOpen(rs)
             /\ \E state \in Reach(Newest(rs)) \cap Terminal :
                   Begins(MoveNewest(rs, state), after)
    <2>1. PICK state \in Reach(Newest(rs)) \cap Terminal : Begins(MoveNewest(rs, state), after)
      BY <1>4
    <2> DEFINE before == MoveNewest(rs, state)
    <2>2. Settles(rs, before)
      BY <1>4 DEF Settles
    <2>3. /\ before \in Seq(RunStates) /\ Len(before) = Len(rs)
          /\ \A i \in 1..Len(rs) : i < Len(rs) \/ rs[i] \in Terminal => before[i] = rs[i]
      BY <2>2, SettlesKeeps
    <2> HIDE DEF before
    <2> QED
      BY <1>2, <2>1, <2>3 DEF OneOpen, before
  <1> QED
    BY <1>1, <1>3, <1>4 DEF Lawful

-----------------------------------------------------------------------------
(* The ledger.  Its invariant needs no other variable: every action applies *)
(* one of the ledger's operations to the runs it finds.                     *)

LedgerInv == runs \in Seq(RunStates) /\ OnlyNewestOpen

\* A stop reason always ends a run in one of three states.
LEMMA RunTargets == \A stop : RunTarget(stop) \in {"succeeded", "failed", "cancelled"}
  BY DEF RunTarget

LEMMA ClientLawful ==
    ASSUME LedgerInv, Client
    PROVE  Lawful(runs, runs')
  <1> USE DEF LedgerInv
  <1>1. CASE PromptSend
    BY <1>1, OpenLawful DEF PromptSend
  <1>2. CASE \/ PromptRefused \/ PromptWithoutFolder \/ PromptQueue \/ PromptInterrupt
             \/ FinishInterrupt \/ Cancel \/ Fold \/ Reopen
             \/ Resume \/ ResumeWithoutFolder \/ ResumeUnsupported
    BY <1>2 DEF PromptRefused, PromptWithoutFolder, PromptQueue, PromptInterrupt,
                FinishInterrupt, Cancel, Fold, Reopen, Resume, ResumeWithoutFolder,
                ResumeUnsupported, disk, Lawful, Settles
  <1>3. CASE AnswerAsk
    BY <1>3, ResumeSettles DEF AnswerAsk, Reply, Lawful, Settles
  <1>4. CASE Archive \/ Delete
    <2>1. "cancelled" \in RunStates
      BY DEF RunStates, Terminal
    <2> QED
      BY <1>4, <2>1, AdvanceSettles DEF Archive, Delete, CloseOut, Lawful
  <1> QED
    BY <1>1, <1>2, <1>3, <1>4 DEF Client

\* An adapter that is gone settles the run it was serving.
LEMMA GoneLawful ==
    ASSUME LedgerInv, AdapterGone
    PROVE  Lawful(runs, runs')
  BY LoseSettles, FailThenLoseSettles DEF LedgerInv, AdapterGone, Lawful

LEMMA PumpLawful ==
    ASSUME LedgerInv, Pump
    PROVE  Lawful(runs, runs')
  <1> USE DEF LedgerInv
  <1>1. CASE Route \/ HandleUpdate \/ HandleState
    BY <1>1 DEF Route, HandleUpdate, HandleState, disk, Lawful, Settles
  <1>2. CASE HandleEnded
    BY <1>2, RunTargets, CloseSettles DEF HandleEnded, Lawful
  <1>3. CASE HandleResult
    <2> DEFINE target == RunTarget(StopOf(Head(batch).note))
               closed == CloseRun(runs, target)
    <2>1. target \in {"succeeded", "failed", "cancelled", "timed_out"}
      BY RunTargets
    <2>2. runs' = closed \/ runs' = OpenRun(closed)
      BY <1>3 DEF HandleResult, Drain, NothingQueued, SendQueued, DropQueued
    <2> HIDE DEF target
    <2> QED
      BY <2>1, <2>2, CloseSettles, CloseThenOpenLawful DEF Lawful
  <1>4. CASE HandleAsk
    BY <1>4, PauseSettles DEF HandleAsk, Lawful, Settles
  <1>5. CASE HandleClosed
    BY <1>5, GoneLawful DEF HandleClosed
  <1> QED
    BY <1>1, <1>2, <1>3, <1>4, <1>5 DEF Pump

LEMMA TimersLawful ==
    ASSUME LedgerInv, Timers
    PROVE  Lawful(runs, runs')
  <1> USE DEF LedgerInv
  <1>1. CASE StuckTick \/ WakeFromSleep \/ DropOrphaned \/ ReleaseCancel \/ Evict
    BY <1>1 DEF StuckTick, WakeFromSleep, ReportStuck, DropOrphaned, ReleaseCancel, Evict,
                disk, Lawful, Settles
  <1>2. CASE CapTick
    BY <1>2, CloseSettles DEF CapTick, Lawful
  <1>3. CASE Reap
    BY <1>3, GoneLawful DEF Reap
  <1>4. CASE DrainStranded
    BY <1>4, OpenLawful DEF DrainStranded, SendQueued, DropQueued, Lawful, Settles
  <1> QED
    BY <1>1, <1>2, <1>3, <1>4 DEF Timers

LEMMA HostLawful ==
    ASSUME LedgerInv, Host
    PROVE  Lawful(runs, runs')
  <1> USE DEF LedgerInv
  <1>1. CASE Quit \/ Crash \/ CrashInCloseOut
    BY <1>1 DEF Quit, Crash, CrashInCloseOut, disk, Lawful, Settles
  <1>2. CASE CrashWhileOpening
    BY <1>2, InsertLawful DEF CrashWhileOpening
  <1>3. CASE CrashInTurnEnd
    BY <1>3, RunTargets, CloseSettles DEF CrashInTurnEnd, Lawful, Settles
  <1>4. CASE Boot
    <2>1. OneOpen(runs)
      BY DEF OnlyNewestOpen, Ledgers!OneTurnAtATime, Ledgers!OneOpen, OneOpen,
             Ledgers!Terminal, Terminal
    <2>2. runs' = runs \/ runs' = LoseAllOpen(runs)
      BY <1>4 DEF Boot
    <2>3. Settles(runs, runs')
      BY <2>1, <2>2, LoseAllSettles DEF Settles
    <2> QED
      BY <2>3 DEF Lawful
  <1> QED
    BY <1>1, <1>2, <1>3, <1>4 DEF Host

\* The adapter writes to its pipe and never to the ledger.
LEMMA AdapterLawful ==
    ASSUME Adapter
    PROVE  runs' = runs
  BY DEF Adapter, AgentUpdates, AgentAsks, AgentReports, AgentEnds, AgentResponds,
         AgentDies, Writes, disk

LEMMA StepLawful ==
    ASSUME LedgerInv, [Next]_vars
    PROVE  Lawful(runs, runs')
  <1>1. CASE Adapter
    BY <1>1, AdapterLawful DEF Lawful, Settles
  <1>2. CASE UNCHANGED vars
    BY <1>2 DEF vars, Lawful, Settles
  <1> QED
    BY <1>1, <1>2, ClientLawful, PumpLawful, TimersLawful, HostLawful DEF Next

\* Only the newest run of a thread is open, whatever came before: the guard of
\* refuse_overlapping_run is enough, and InsertRun's retiring of a leftover run
\* keeps it so after a crash between two writes.
LEMMA LedgerInit == Init => LedgerInv
  <1> SUFFICES ASSUME Init PROVE LedgerInv
    OBVIOUS
  <1>1. runs = <<>>
    BY DEF Init
  <1> QED
    BY <1>1, EmptySeq DEF LedgerInv, OnlyNewestOpen, Ledgers!OneTurnAtATime, Ledgers!OneOpen

\* What a step does to the ledger it finds in order.
LEMMA LedgerStep ==
    ASSUME LedgerInv, [Next]_vars
    PROVE  /\ LedgerInv'
           /\ Len(runs) <= Len(runs')
           /\ \A i \in 1..Len(runs) : runs[i] \in Terminal => runs'[i] = runs[i]
  <1>1. OneOpen(runs) /\ runs \in Seq(RunStates)
    BY DEF LedgerInv, OnlyNewestOpen, Ledgers!OneTurnAtATime, Ledgers!OneOpen, OneOpen,
           Ledgers!Terminal, Terminal
  <1>2. Lawful(runs, runs')
    BY StepLawful
  <1>3. /\ runs' \in Seq(RunStates)
        /\ OneOpen(runs')
        /\ Len(runs) <= Len(runs')
        /\ \A i \in 1..Len(runs) : runs[i] \in Terminal => runs'[i] = runs[i]
    BY <1>1, <1>2, LawfulKeeps
  <1>4. OnlyNewestOpen'
    BY <1>3 DEF OnlyNewestOpen, Ledgers!OneTurnAtATime, Ledgers!OneOpen, OneOpen,
                Ledgers!Terminal, Terminal
  <1> QED
    BY <1>3, <1>4 DEF LedgerInv

LEMMA LedgerAlways == Spec => []LedgerInv
  <1>1. LedgerInv /\ [Next]_vars => LedgerInv'
    BY LedgerStep
  <1> QED
    BY <1>1, LedgerInit, PTL DEF Spec

\* One turn at a time: no run but the newest is ever open, for any number of
\* prompts and restarts and any agent (refuse_overlapping_run, open_run, boot).
THEOREM OneTurnAtATime == Spec => []OnlyNewestOpen
  <1>1. LedgerInv => OnlyNewestOpen
    BY DEF LedgerInv
  <1> QED
    BY <1>1, LedgerAlways, PTL

\* A run that ended keeps its outcome, and none leaves the ledger: no late
\* response, second turn end, timer or boot pass rewrites it.
THEOREM RunsKeepOutcome == Spec => RunsEndOnce
  <1>1. LedgerInv /\ [Next]_vars =>
            [ /\ Len(runs) <= Len(runs')
              /\ \A i \in 1..Len(runs) :
                    runs[i] \in Terminal => runs'[i] = runs[i] ]_runs
    BY LedgerStep
  <1> QED
    BY <1>1, LedgerAlways, PTL DEF Spec, RunsEndOnce, Ledgers!EndsOnce, Ledgers!Terminal, Terminal

\* A session implements the ledger's promise: each of its steps is one lawful
\* step of the runs, or leaves them alone.
THEOREM KeepsLedgerPromise == Spec => LedgerPromise
  <1>1. Init => Ledgers!Init
    BY DEF Init, Ledgers!Init
  <1>2. LedgerInv /\ [Next]_vars => [Ledgers!Next]_runs
    <2> SUFFICES ASSUME LedgerInv, [Next]_vars PROVE Ledgers!Next
      OBVIOUS
    <2>1. Lawful(runs, runs')
      BY StepLawful
    <2> QED
      BY <2>1 DEF Ledgers!Next, Ledgers!Lawful, Lawful, Ledgers!Settles, Settles,
                  Ledgers!Begins, Begins, Ledgers!HasOpen, HasOpen, Ledgers!Newest, Newest,
                  Ledgers!MoveNewest, MoveNewest, Ledgers!Reach, Reach,
                  Ledgers!CanAdvance, CanAdvance, Ledgers!RunStates, RunStates,
                  Ledgers!Terminal, Terminal, Ledgers!Open, Open
  <1> QED
    BY <1>1, <1>2, LedgerAlways, PTL DEF Spec, LedgerPromise, Ledgers!Spec

\* What the promise alone is worth, of any history that keeps it.
LEMMA PromiseStep ==
    ASSUME LedgerInv, [Ledgers!Next]_runs
    PROVE  /\ LedgerInv'
           /\ Len(runs) <= Len(runs')
           /\ \A i \in 1..Len(runs) : runs[i] \in Terminal => runs'[i] = runs[i]
  <1>1. OneOpen(runs) /\ runs \in Seq(RunStates)
    BY DEF LedgerInv, OnlyNewestOpen, Ledgers!OneTurnAtATime, Ledgers!OneOpen, OneOpen,
           Ledgers!Terminal, Terminal
  <1>2. CASE Ledgers!Next
    <2>1. Lawful(runs, runs')
      BY <1>2 DEF Ledgers!Next, Ledgers!Lawful, Lawful, Ledgers!Settles, Settles,
                  Ledgers!Begins, Begins, Ledgers!HasOpen, HasOpen, Ledgers!Newest, Newest,
                  Ledgers!MoveNewest, MoveNewest, Ledgers!Reach, Reach,
                  Ledgers!CanAdvance, CanAdvance, Ledgers!RunStates, RunStates,
                  Ledgers!Terminal, Terminal, Ledgers!Open, Open
    <2>2. /\ runs' \in Seq(RunStates) /\ OneOpen(runs')
          /\ Len(runs) <= Len(runs')
          /\ \A i \in 1..Len(runs) : runs[i] \in Terminal => runs'[i] = runs[i]
      BY <1>1, <2>1, LawfulKeeps
    <2> QED
      BY <2>2 DEF LedgerInv, OnlyNewestOpen, Ledgers!OneTurnAtATime, Ledgers!OneOpen, OneOpen,
                  Ledgers!Terminal, Terminal
  <1>3. CASE UNCHANGED runs
    BY <1>1, <1>3, LenProperties DEF LedgerInv, OnlyNewestOpen, Ledgers!OneTurnAtATime, Ledgers!OneOpen
  <1> QED
    BY <1>2, <1>3

LEMMA PromiseAlways == LedgerPromise => []LedgerInv
  <1>1. Ledgers!Init => LedgerInv
    <2> SUFFICES ASSUME Ledgers!Init PROVE LedgerInv
      OBVIOUS
    <2> QED
      BY EmptySeq DEF Ledgers!Init, LedgerInv, OnlyNewestOpen, Ledgers!OneTurnAtATime, Ledgers!OneOpen
  <1>2. LedgerInv /\ [Ledgers!Next]_runs => LedgerInv'
    BY PromiseStep
  <1> QED
    BY <1>1, <1>2, PTL DEF LedgerPromise, Ledgers!Spec

\* The edges of the table and one run at a time are all it takes: whatever keeps
\* RunHistory has one open run at most, the newest ("one turn per session at a
\* time", refuse_overlapping_run) ...
THEOREM PromiseIsOneTurn == LedgerPromise => []OnlyNewestOpen
  <1>1. LedgerInv => OnlyNewestOpen
    BY DEF LedgerInv
  <1> QED
    BY <1>1, PromiseAlways, PTL

\* ... and no outcome of it ever changes (advance's table has no edge out of a
\* terminal state).
THEOREM PromiseKeepsOutcomes == LedgerPromise => RunsEndOnce
  <1>1. LedgerInv /\ [Ledgers!Next]_runs =>
            [ /\ Len(runs) <= Len(runs')
              /\ \A i \in 1..Len(runs) :
                    runs[i] \in Terminal => runs'[i] = runs[i] ]_runs
    BY PromiseStep
  <1> QED
    BY <1>1, PromiseAlways, PTL DEF LedgerPromise, Ledgers!Spec, RunsEndOnce, Ledgers!EndsOnce,
                                   Ledgers!Terminal, Terminal

(***************************************************************************)
(* Every variable of a session keeps its type.  The types of the adapter's *)
(* pipe come first: what a handler stores comes out of an event, so an ask *)
(* event must carry the kind of an ask and a state event a state.          *)
(***************************************************************************)

-----------------------------------------------------------------------------
(* The pipe and the adapter.                                               *)

\* The events an adapter writes.
SentEvents ==
    {event \in Events : /\ event.type = "ask" => event.note \in AskKinds
                        /\ event.type = "state" => event.note \in AcpStates}

Agents == [alive : BOOLEAN, turns : Seq(Turns)]

PipeInv ==
    /\ batch \in Seq(SentEvents)
    /\ wire \in Seq(SentEvents)
    /\ agent \in Agents

LEMMA NoAgentType == NoAgent \in Agents /\ FreshAgent \in Agents
  BY EmptySeq DEF NoAgent, FreshAgent, Agents

LEMMA EmptyPipe == <<>> \in Seq(SentEvents)
  BY EmptySeq

\* Giving an agent one more turn.
LEMMA GivenType ==
    ASSUME NEW a \in Agents, NEW run \in Nat
    PROVE  Given(a, run) \in Agents
  <1> DEFINE turn == [run |-> run, over |-> FALSE]
  <1>1. turn \in Turns
    BY DEF Turns
  <1>2. Append(a.turns, turn) \in Seq(Turns)
    BY <1>1, AppendProperties DEF Agents
  <1> QED
    BY <1>2 DEF Given, Agents

\* What the operations of the ledger leave has a length.
LEMMA ClosedLength ==
    ASSUME LedgerInv, NEW stop
    PROVE  Len(CloseRun(runs, RunTarget(stop))) \in Nat
  BY CloseSettles, RunTargets, LenProperties DEF LedgerInv

LEMMA PipeClient ==
    ASSUME PipeInv, LedgerInv, Client
    PROVE  PipeInv'
  <1> USE NoAgentType, EmptyPipe DEF PipeInv
  <1>1. CASE PromptSend
    <2>1. Len(runs) + 1 \in Nat
      BY LenProperties DEF LedgerInv
    <2>2. agent' \in Agents
      BY <1>1, <2>1, GivenType DEF PromptSend
    <2> QED
      BY <1>1, <2>2 DEF PromptSend
  <1>2. CASE \/ PromptRefused \/ PromptWithoutFolder \/ PromptQueue \/ PromptInterrupt
             \/ FinishInterrupt \/ Cancel \/ Fold \/ Reopen \/ AnswerAsk
             \/ Resume \/ ResumeWithoutFolder \/ ResumeUnsupported
    BY <1>2 DEF PromptRefused, PromptWithoutFolder, PromptQueue, PromptInterrupt,
                FinishInterrupt, Cancel, Fold, Reopen, AnswerAsk, Reply, Resume,
                ResumeWithoutFolder, ResumeUnsupported, adapter
  <1>3. CASE Archive \/ Delete
    BY <1>3 DEF Archive, Delete, CloseOut
  <1> QED
    BY <1>1, <1>2, <1>3 DEF Client

LEMMA PipePump ==
    ASSUME PipeInv, LedgerInv, Pump
    PROVE  PipeInv'
  <1> USE NoAgentType, EmptyPipe DEF PipeInv
  <1>1. CASE Route
    BY <1>1 DEF Route
  <1>2. ASSUME NEW type, Inbound(type)
        PROVE  batch' \in Seq(SentEvents)
    BY <1>2, HeadTailProperties DEF Inbound
  <1>3. CASE HandleUpdate \/ HandleState \/ HandleEnded \/ HandleAsk
    BY <1>2, <1>3 DEF HandleUpdate, HandleState, HandleEnded, HandleAsk, adapter
  <1>4. CASE HandleResult
    <2> DEFINE stop == StopOf(Head(batch).note)
               closed == CloseRun(runs, RunTarget(stop))
    <2>1. Len(closed) + 1 \in Nat
      BY ClosedLength
    <2>2. Drain(closed, TurnOver(proc))
      BY <1>4 DEF HandleResult
    <2>3. agent' \in {agent, NoAgent, Given(agent, Len(closed) + 1)} /\ wire' \in {wire, <<>>}
      BY <2>2 DEF Drain, NothingQueued, SendQueued, DropQueued
    <2> HIDE DEF closed
    <2>4. agent' \in Agents
      BY <2>1, <2>3, GivenType
    <2> QED
      BY <1>2, <1>4, <2>3, <2>4 DEF HandleResult
  <1>5. CASE HandleClosed
    BY <1>2, <1>5 DEF HandleClosed, AdapterGone
  <1> QED
    BY <1>1, <1>3, <1>4, <1>5 DEF Pump

LEMMA PipeTimers ==
    ASSUME PipeInv, LedgerInv, Timers
    PROVE  PipeInv'
  <1> USE NoAgentType, EmptyPipe DEF PipeInv
  <1>1. CASE StuckTick \/ WakeFromSleep \/ DropOrphaned \/ ReleaseCancel
    BY <1>1 DEF StuckTick, WakeFromSleep, ReportStuck, DropOrphaned, ReleaseCancel, adapter
  <1>2. CASE CapTick \/ Reap \/ Evict
    BY <1>2 DEF CapTick, Reap, AdapterGone, Evict
  <1>3. CASE DrainStranded
    <2>1. Len(runs) + 1 \in Nat
      BY LenProperties DEF LedgerInv
    <2>2. /\ agent' \in {agent, NoAgent, Given(agent, Len(runs) + 1)}
          /\ wire' \in {wire, <<>>} /\ batch' = batch
      BY <1>3 DEF DrainStranded, SendQueued, DropQueued
    <2> QED
      BY <2>1, <2>2, GivenType
  <1> QED
    BY <1>1, <1>2, <1>3 DEF Timers

LEMMA PipeHost ==
    ASSUME PipeInv, Host
    PROVE  PipeInv'
  BY NoAgentType, EmptyPipe DEF PipeInv, Host, Quit, Crash, CrashWhileOpening,
     CrashInTurnEnd, CrashInCloseOut, HostStops, Boot, adapter

LEMMA PipeAdapter ==
    ASSUME PipeInv, Adapter
    PROVE  PipeInv'
  <1> USE NoAgentType, EmptyPipe DEF PipeInv
  <1>1. ASSUME NEW event \in SentEvents
        PROVE  Append(wire, event) \in Seq(SentEvents)
    BY AppendProperties
  <1>2. CASE AgentUpdates
    <2>1. ASSUME NEW note \in {"visible", "silent"}
          PROVE  Event("update", note) \in SentEvents
      BY DEF Event, SentEvents, Events, Notes
    <2> QED
      BY <1>1, <1>2, <2>1 DEF AgentUpdates, Writes
  <1>3. CASE AgentAsks
    <2>1. ASSUME NEW kind \in AskKinds
          PROVE  Event("ask", kind) \in SentEvents
      BY DEF Event, SentEvents, Events, Notes
    <2> QED
      BY <1>1, <1>3, <2>1 DEF AgentAsks, Writes
  <1>4. CASE AgentReports
    <2>1. ASSUME NEW state \in {"running", "idle", "requires_action"}
          PROVE  Event("state", state) \in SentEvents
      BY DEF Event, SentEvents, Events, Notes, AcpStates
    <2> QED
      BY <1>1, <1>4, <2>1 DEF AgentReports, Writes
  <1>5. ASSUME NEW i \in 1..Len(agent.turns), NEW stop \in Stops,
               NEW type \in {"ended", "result"}
        PROVE  [type |-> type, run |-> agent.turns[i].run, note |-> stop] \in SentEvents
    <2>1. agent.turns[i] \in Turns
      BY ElementOfSeq DEF Agents
    <2> QED
      BY <2>1 DEF SentEvents, Events, Notes, Turns
  <1>6. CASE AgentEnds
    <2>1. PICK i \in Owed, stop \in Stops :
              /\ Writes([type |-> "ended", run |-> agent.turns[i].run, note |-> stop])
              /\ agent' = [agent EXCEPT !.turns[i].over = TRUE]
      BY <1>6 DEF AgentEnds
    <2>2. i \in 1..Len(agent.turns)
      BY DEF Owed
    <2> DEFINE turn == [agent.turns[i] EXCEPT !.over = TRUE]
    <2>3. turn \in Turns
      <3>1. agent.turns[i] \in Turns
        BY <2>2, ElementOfSeq DEF Agents
      <3> QED
        BY <3>1 DEF Turns
    <2>4. [agent.turns EXCEPT ![i] = turn] \in Seq(Turns)
      BY <2>2, <2>3, ExceptSeq DEF Agents
    <2>5. agent' = [agent EXCEPT !.turns = [agent.turns EXCEPT ![i] = turn]]
      BY <2>1 DEF Agents
    <2>6. agent' \in Agents
      BY <2>4, <2>5 DEF Agents
    <2> QED
      BY <1>1, <1>5, <2>1, <2>2, <2>6 DEF Writes
  <1>7. CASE AgentResponds
    <2>1. PICK i \in 1..Len(agent.turns), stop \in Stops :
              /\ Writes([type |-> "result", run |-> agent.turns[i].run, note |-> stop])
              /\ agent' = [agent EXCEPT !.turns =
                              SubSeq(@, 1, i - 1) \o SubSeq(@, i + 1, Len(@))]
      BY <1>7 DEF AgentResponds
    <2> DEFINE turns == agent.turns
               before == SubSeq(turns, 1, i - 1)
               behind == SubSeq(turns, i + 1, Len(turns))
    <2>2. turns \in Seq(Turns) /\ Len(turns) \in Nat /\ i \in Int
      BY LenProperties DEF Agents
    <2>3. \A j \in 1..Len(turns) : turns[j] \in Turns
      BY <2>2, ElementOfSeq
    <2>4. before \in Seq(Turns)
      <3>1. \A j \in 1..(i - 1) : turns[j] \in Turns
        BY <2>2, <2>3
      <3> QED
        BY <2>2, <3>1, SubSeqProperties
    <2>5. behind \in Seq(Turns)
      <3>1. \A j \in (i + 1)..Len(turns) : turns[j] \in Turns
        BY <2>2, <2>3
      <3> QED
        BY <2>2, <3>1, SubSeqProperties
    <2>6. before \o behind \in Seq(Turns)
      BY <2>4, <2>5, ConcatProperties
    <2>7. agent' \in Agents
      BY <2>1, <2>6 DEF Agents
    <2> QED
      BY <1>1, <1>5, <2>1, <2>7 DEF Writes
  <1>8. CASE AgentDies
    <2>1. Event("closed", "none") \in SentEvents
      BY DEF Event, SentEvents, Events, Notes
    <2> QED
      BY <1>1, <1>8, <2>1 DEF AgentDies
  <1> QED
    BY <1>2, <1>3, <1>4, <1>6, <1>7, <1>8 DEF Adapter

LEMMA PipeAlways == Spec => []PipeInv
  <1>1. Init => PipeInv
    BY NoAgentType, EmptyPipe DEF Init, PipeInv
  <1>2. LedgerInv /\ PipeInv /\ [Next]_vars => PipeInv'
    <2> SUFFICES ASSUME LedgerInv, PipeInv, [Next]_vars PROVE PipeInv'
      OBVIOUS
    <2>1. CASE UNCHANGED vars
      BY <2>1 DEF vars, PipeInv
    <2> QED
      BY <2>1, PipeClient, PipePump, PipeTimers, PipeHost, PipeAdapter DEF Next
  <1> QED
    BY <1>1, <1>2, LedgerAlways, PTL DEF Spec

-----------------------------------------------------------------------------
(* The overlay row.  No action of a session writes it but through the      *)
(* operations of Overlay, each of which keeps it a row.                    *)

ThreadInv == thread \in ThreadRows

LEMMA ResurfaceType ==
    ASSUME NEW t \in ThreadRows, NEW reason \in Reasons
    PROVE  Resurface(t, reason) \in ThreadRows
  BY DEF Resurface, ThreadRows, ThreadStates, Reasons

LEMMA MoveToType ==
    ASSUME NEW t \in ThreadRows, NEW state \in ThreadStates
    PROVE  MoveTo(t, state) \in ThreadRows
  BY DEF MoveTo, ThreadRows

LEMMA ReadType ==
    ASSUME NEW t \in ThreadRows
    PROVE  ReadAll(t) \in ThreadRows /\ ReadNeedsYou(t) \in ThreadRows
  BY DEF ReadAll, ReadNeedsYou, ThreadRows, Reasons

LEMMA CardType ==
    ASSUME NEW t \in ThreadRows, NEW stop, NEW waiting
    PROVE  CardForStop(t, stop, waiting) \in ThreadRows
  <1>1. "done" \in Reasons /\ "failed" \in Reasons
    BY DEF Reasons
  <1> QED
    BY <1>1, ResurfaceType DEF CardForStop

LEMMA SettledType ==
    ASSUME NEW t \in ThreadRows
    PROVE  Settled(t) \in ThreadRows
  <1>1. {"done", "failed", "needs_you"} \subseteq Reasons
    BY DEF Reasons
  <1> QED
    BY <1>1, ResurfaceType DEF Settled

LEMMA AnnouncedType ==
    ASSUME NEW t \in ThreadRows, NEW row \in Announced(t)
    PROVE  row \in ThreadRows
  <1>1. ASSUME NEW reason \in Reasons, NEW restated \in Restatements(t, reason)
        PROVE  restated \in ThreadRows
    <2>1. CASE reason \in t.seen
      <3>1. PICK rest \in {t.seen, t.seen \ {reason}} :
                restated = [t EXCEPT !.unread = @ \cup {reason}, !.seen = rest]
        BY <1>1, <2>1 DEF Restatements
      <3>2. t.unread \cup {reason} \subseteq Reasons /\ rest \subseteq Reasons
        BY <1>1 DEF ThreadRows
      <3> QED
        BY <3>1, <3>2 DEF ThreadRows
    <2>2. CASE reason \notin t.seen
      BY <1>1, <2>2 DEF Restatements
    <2> QED
      BY <2>1, <2>2
  <1> DEFINE reason == IF Newest(runs) = "needs_you" THEN "needs_you" ELSE "stuck"
  <1>2. reason \in Reasons
    BY DEF Reasons
  <1>3. row = t \/ row = Resurface(t, reason) \/ row \in Restatements(t, reason)
    BY DEF Announced
  <1> QED
    BY <1>1, <1>2, <1>3, ResurfaceType

LEMMA ThreadStep ==
    ASSUME ThreadInv, [Next]_vars
    PROVE  ThreadInv'
  <1> USE DEF ThreadInv
  <1>1. {"done", "failed", "stuck", "needs_you"} \subseteq Reasons
    BY DEF Reasons
  <1>2. CASE Client
    <2>1. CASE PromptWithoutFolder \/ ResumeWithoutFolder
      BY <1>1, <2>1, ResurfaceType DEF PromptWithoutFolder, ResumeWithoutFolder
    <2>2. CASE Fold
      <3>1. ASSUME NEW policy \in Policies
            PROVE  Settled(MoveTo([thread EXCEPT !.policy = policy], "folded")) \in ThreadRows
        <4>1. [thread EXCEPT !.policy = policy] \in ThreadRows
          BY SessionAssumption DEF ThreadRows
        <4>2. "folded" \in ThreadStates
          BY DEF ThreadStates
        <4> QED
          BY <4>1, <4>2, MoveToType, SettledType
      <3> QED
        BY <2>2, <3>1 DEF Fold
    <2>3. CASE Reopen
      <3>1. "active" \in ThreadStates
        BY DEF ThreadStates
      <3> QED
        BY <2>3, <3>1, MoveToType, ReadType DEF Reopen
    <2>4. CASE AnswerAsk
      BY <2>4, ReadType DEF AnswerAsk, Reply
    <2>5. CASE Archive \/ Delete
      <3>1. ASSUME NEW action PROVE ReadAll(ClosedRow(action)) \in ThreadRows
        <4>1. "archived" \in ThreadStates
          BY DEF ThreadStates
        <4>2. [thread EXCEPT !.deleted = TRUE] \in ThreadRows
          BY DEF ThreadRows
        <4> QED
          BY <4>1, <4>2, MoveToType, ReadType DEF ClosedRow
      <3> QED
        BY <2>5, <3>1 DEF Archive, Delete, CloseOut
    <2> QED
      BY <1>2, <2>1, <2>2, <2>3, <2>4, <2>5 DEF Client, PromptSend, PromptRefused, PromptQueue,
         PromptInterrupt, FinishInterrupt, Cancel, Resume, ResumeUnsupported, disk
  <1>3. CASE Pump
    <2>1. CASE HandleEnded \/ HandleResult
      BY <2>1, CardType DEF HandleEnded, HandleResult
    <2>2. CASE HandleAsk \/ HandleClosed
      BY <1>1, <2>2, ResurfaceType DEF HandleAsk, HandleClosed, AdapterGone
    <2> QED
      BY <1>3, <2>1, <2>2 DEF Pump, Route, HandleUpdate, HandleState, disk
  <1>4. CASE Timers
    <2>1. CASE StuckTick \/ WakeFromSleep \/ CapTick \/ Reap
      BY <1>1, <2>1, ResurfaceType DEF StuckTick, WakeFromSleep, ReportStuck, CapTick, Reap,
         AdapterGone
    <2> QED
      BY <1>4, <2>1 DEF Timers, DrainStranded, DropOrphaned, ReleaseCancel, Evict, disk
  <1>5. CASE Host
    <2>1. CASE CrashInCloseOut
      <3>1. "archived" \in ThreadStates
        BY DEF ThreadStates
      <3>2. [thread EXCEPT !.deleted = TRUE] \in ThreadRows
        BY DEF ThreadRows
      <3>3. ASSUME NEW action PROVE ClosedRow(action) \in ThreadRows
        BY <3>1, <3>2, MoveToType DEF ClosedRow
      <3> QED
        BY <2>1, <3>3, ReadType DEF CrashInCloseOut
    <2>2. CASE Boot
      BY <2>2, AnnouncedType DEF Boot
    <2> QED
      BY <1>5, <2>1, <2>2 DEF Host, Quit, Crash, CrashWhileOpening, CrashInTurnEnd, disk
  <1>6. CASE Adapter
    BY <1>6 DEF Adapter, AgentUpdates, AgentAsks, AgentReports, AgentEnds, AgentResponds,
       AgentDies, Writes, disk
  <1>7. CASE UNCHANGED vars
    BY <1>7 DEF vars
  <1> QED
    BY <1>2, <1>3, <1>4, <1>5, <1>6, <1>7 DEF Next

LEMMA ThreadAlways == Spec => []ThreadInv
  <1>1. Init => ThreadInv
    BY DEF Init, ThreadInv, NewThread, ThreadRows, ThreadStates, FoldPolicies, Reasons
  <1>2. ThreadInv /\ [Next]_vars => ThreadInv'
    BY ThreadStep
  <1> QED
    BY <1>1, <1>2, PTL DEF Spec

-----------------------------------------------------------------------------
(* The asks.  What an adapter waits for is a set of rows of the record that *)
(* nobody has decided, and empty when no host runs; the second is what      *)
(* makes the boot pass, which closes rows by kind, safe.                    *)

AskRows == [kind : AskKinds, state : AskStates]

AskInv ==
    /\ asks \in Seq(AskRows)
    /\ live \subseteq 1..Len(asks)
    /\ LiveAsksArePending
    /\ ~up => live = {}

\* No row of the record is lost and none that was decided is rewritten.
AskKept ==
    /\ Len(asks) <= Len(asks')
    /\ \A a \in 1..Len(asks) : asks[a].state # "pending" => asks'[a] = asks[a]

\* Rewriting the state of the rows a test picks keeps the record a record.
LEMMA RewrittenAsks ==
    ASSUME asks \in Seq(AskRows), NEW after,
           after \in [1..Len(asks) -> AskRows],
           \A a \in 1..Len(asks) : asks[a].state # "pending" => after[a] = asks[a]
    PROVE  /\ after \in Seq(AskRows)
           /\ Len(after) = Len(asks)
           /\ \A a \in 1..Len(asks) : asks[a].state # "pending" => after[a] = asks[a]
  <1>1. Len(asks) \in Nat
    BY LenProperties
  <1>2. after \in Seq(AskRows)
    BY <1>1, SeqDef
  <1>3. DOMAIN after = 1..Len(asks) /\ DOMAIN after = 1..Len(after) /\ Len(after) \in Nat
    BY <1>2, LenProperties
  <1>4. Len(after) = Len(asks)
    BY <1>1, <1>3
  <1> QED
    BY <1>2, <1>4

LEMMA WithdrawnAsks ==
    ASSUME asks \in Seq(AskRows), NEW how \in {"cancelled", "abandoned", "lost", "expired"}
    PROVE  /\ Withdrawn(how) \in Seq(AskRows)
           /\ Len(Withdrawn(how)) = Len(asks)
           /\ \A a \in 1..Len(asks) :
                 asks[a].state # "pending" => Withdrawn(how)[a] = asks[a]
  <1>1. ASSUME NEW kind PROVE WithdrawnAs(kind, how) \in AskStates
    BY DEF WithdrawnAs, AskStates
  <1>2. ASSUME NEW a \in 1..Len(asks) PROVE Withdrawn(how)[a] \in AskRows
    <2>1. asks[a] \in AskRows
      BY ElementOfSeq
    <2>2. [asks[a] EXCEPT !.state = WithdrawnAs(asks[a].kind, how)] \in AskRows
      BY <1>1, <2>1 DEF AskRows
    <2> QED
      BY <2>1, <2>2 DEF Withdrawn
  <1>3. Withdrawn(how) \in [1..Len(asks) -> AskRows]
    BY <1>2 DEF Withdrawn
  <1>4. \A a \in 1..Len(asks) : asks[a].state # "pending" => Withdrawn(how)[a] = asks[a]
    BY DEF Withdrawn
  <1> QED
    BY <1>3, <1>4, RewrittenAsks

LEMMA UnavailableAsks ==
    ASSUME asks \in Seq(AskRows)
    PROVE  /\ Unavailable \in Seq(AskRows)
           /\ Len(Unavailable) = Len(asks)
           /\ \A a \in 1..Len(asks) :
                 asks[a].state # "pending" => Unavailable[a] = asks[a]
  <1>1. ASSUME NEW a \in 1..Len(asks) PROVE Unavailable[a] \in AskRows
    <2>1. asks[a] \in AskRows
      BY ElementOfSeq
    <2>2. [asks[a] EXCEPT !.state = "unavailable"] \in AskRows
      BY <2>1 DEF AskRows, AskStates
    <2> QED
      BY <2>1, <2>2 DEF Unavailable
  <1>2. Unavailable \in [1..Len(asks) -> AskRows]
    BY <1>1 DEF Unavailable
  <1>3. \A a \in 1..Len(asks) : asks[a].state # "pending" => Unavailable[a] = asks[a]
    BY DEF Unavailable
  <1> QED
    BY <1>2, <1>3, RewrittenAsks

\* Whoever withdraws the asks of the thread leaves none live.
LEMMA WithdrawStep ==
    ASSUME AskInv, NEW how \in {"cancelled", "abandoned", "lost", "expired"},
           asks' = Withdrawn(how) \/ asks' = asks, live' = {}
    PROVE  AskInv' /\ AskKept
  <1>1. Len(asks) \in Nat
    BY LenProperties DEF AskInv
  <1> QED
    BY <1>1, WithdrawnAsks DEF AskInv, AskKept, LiveAsksArePending

\* Whoever leaves the record alone may only stop waiting.
LEMMA QuietStep ==
    ASSUME AskInv, asks' = asks, live' = live, up' = up
    PROVE  AskInv' /\ AskKept
  <1>1. Len(asks) \in Nat
    BY LenProperties DEF AskInv
  <1> QED
    BY <1>1 DEF AskInv, AskKept, LiveAsksArePending

LEMMA AskRaised ==
    ASSUME AskInv, PipeInv, HandleAsk
    PROVE  AskInv' /\ AskKept
  <1> DEFINE kind == Head(batch).note
  <1>1. up /\ up' = up
    BY DEF HandleAsk, Inbound
  <1>2. kind \in AskKinds
    <2>1. Head(batch) \in SentEvents /\ Head(batch).type = "ask"
      BY HeadTailProperties DEF HandleAsk, Inbound, PipeInv
    <2> QED
      BY <2>1 DEF SentEvents
  <1> HIDE DEF kind
  <1>3. asks \in Seq(AskRows) /\ Len(asks) \in Nat
    BY LenProperties DEF AskInv
  <1>4. ASSUME NEW state \in {"answered", "pending"}
        PROVE  LET row == [kind |-> kind, state |-> state]
               IN  /\ Append(asks, row) \in Seq(AskRows)
                   /\ Len(Append(asks, row)) = Len(asks) + 1
                   /\ Append(asks, row)[Len(asks) + 1] = row
                   /\ \A a \in 1..Len(asks) : Append(asks, row)[a] = asks[a]
    <2>1. [kind |-> kind, state |-> state] \in AskRows
      BY <1>2 DEF AskRows, AskStates
    <2> QED
      BY <1>3, <2>1, AppendProperties
  <1>5. CASE asks' = Append(asks, [kind |-> kind, state |-> "answered"]) /\ live' = live
    BY <1>1, <1>3, <1>4, <1>5 DEF AskInv, AskKept, LiveAsksArePending
  <1>6. CASE /\ asks' = Append(asks, [kind |-> kind, state |-> "pending"])
             /\ live' = live \cup {Len(asks) + 1}
    <2> DEFINE row == [kind |-> kind, state |-> "pending"]
    <2>1. row.state = "pending"
      OBVIOUS
    <2> HIDE DEF row
    <2>2. /\ Append(asks, row) \in Seq(AskRows)
          /\ Len(Append(asks, row)) = Len(asks) + 1
          /\ Append(asks, row)[Len(asks) + 1] = row
          /\ \A a \in 1..Len(asks) : Append(asks, row)[a] = asks[a]
      BY <1>4 DEF row
    <2>3. asks' = Append(asks, row) /\ live' = live \cup {Len(asks) + 1}
      BY <1>6 DEF row
    <2>4. live' \subseteq 1..Len(asks')
      <3>1. Len(asks') = Len(asks) + 1
        BY <2>2, <2>3
      <3>2. live \subseteq 1..Len(asks)
        BY DEF AskInv
      <3>3. \A n \in Nat : \A a \in (1..n) \cup {n + 1} : a \in 1..(n + 1)
        OBVIOUS
      <3>4. live' \subseteq (1..Len(asks)) \cup {Len(asks) + 1}
        BY <2>3, <3>2
      <3> QED
        BY <1>3, <3>1, <3>3, <3>4
    <2>5. \A a \in live' : asks'[a].state = "pending"
      BY <2>1, <2>2, <2>3 DEF AskInv, LiveAsksArePending
    <2> QED
      BY <1>1, <1>3, <2>2, <2>3, <2>4, <2>5 DEF AskInv, AskKept, LiveAsksArePending
  <1> QED
    BY <1>5, <1>6 DEF HandleAsk, kind

LEMMA AskAnswered ==
    ASSUME AskInv, AnswerAsk
    PROVE  AskInv' /\ AskKept
  <1>1. PICK ask \in 1..Len(asks), answer \in {"answered", "cancelled"}, delivered \in BOOLEAN :
            Reply(ask, answer, delivered)
    BY DEF AnswerAsk
  <1>2. asks \in Seq(AskRows) /\ Len(asks) \in Nat
    BY LenProperties DEF AskInv
  <1> DEFINE row == [asks[ask] EXCEPT !.state = answer]
  <1>3. row \in AskRows
    <2>1. asks[ask] \in AskRows
      BY <1>2, ElementOfSeq
    <2> QED
      BY <2>1 DEF AskRows, AskStates
  <1>4. asks' = [asks EXCEPT ![ask] = row] /\ live' = live \ {ask} /\ up' = up
    BY <1>1 DEF Reply
  <1>5. asks[ask].state = "pending"
    BY <1>1 DEF Reply
  <1> HIDE DEF row
  <1>6. /\ asks' \in Seq(AskRows) /\ Len(asks') = Len(asks)
        /\ \A a \in 1..Len(asks) : asks'[a] = IF a = ask THEN row ELSE asks[a]
    BY <1>2, <1>3, <1>4, ExceptSeq
  <1> QED
    BY <1>2, <1>4, <1>5, <1>6 DEF AskInv, AskKept, LiveAsksArePending

LEMMA AskStep ==
    ASSUME AskInv, PipeInv, [Next]_vars
    PROVE  AskInv' /\ AskKept
  <1>1. CASE Client
    <2>1. CASE PromptInterrupt \/ Cancel \/ Archive \/ Delete
      BY <2>1, WithdrawStep DEF PromptInterrupt, Cancel, Archive, Delete, CloseOut
    <2> QED
      BY <1>1, <2>1, AskAnswered, QuietStep DEF Client, PromptSend, PromptRefused,
         PromptWithoutFolder, PromptQueue, FinishInterrupt, Fold, Reopen, Resume,
         ResumeWithoutFolder, ResumeUnsupported, disk
  <1>2. CASE Pump
    <2>1. CASE HandleResult
      BY <2>1, WithdrawStep DEF HandleResult
    <2>2. CASE HandleClosed
      BY <2>2, WithdrawStep DEF HandleClosed, AdapterGone
    <2> QED
      BY <1>2, <2>1, <2>2, AskRaised, QuietStep DEF Pump, Route, HandleUpdate, HandleState,
         HandleEnded, Inbound, disk
  <1>3. CASE Timers
    <2>1. CASE CapTick \/ Reap
      BY <2>1, WithdrawStep DEF CapTick, Reap, AdapterGone
    <2> QED
      BY <1>3, <2>1, QuietStep DEF Timers, StuckTick, WakeFromSleep, ReportStuck, DrainStranded,
         DropOrphaned, ReleaseCancel, Evict, disk
  <1>4. CASE Host
    <2>1. CASE Quit
      BY <2>1, WithdrawStep DEF Quit, HostStops
    <2>2. CASE Crash \/ CrashWhileOpening \/ CrashInTurnEnd \/ CrashInCloseOut
      BY <2>2, WithdrawStep DEF Crash, CrashWhileOpening, CrashInTurnEnd, CrashInCloseOut,
         HostStops, disk
    <2>3. CASE Boot
      <3>1. live = {} /\ live' = {} /\ (asks' = asks \/ asks' = Unavailable)
        BY <2>3 DEF Boot, AskInv
      <3>2. Len(asks) \in Nat
        BY LenProperties DEF AskInv
      <3> QED
        BY <3>1, <3>2, UnavailableAsks DEF AskInv, AskKept, LiveAsksArePending
    <2> QED
      BY <1>4, <2>1, <2>2, <2>3 DEF Host
  <1>5. CASE Adapter
    BY <1>5, QuietStep DEF Adapter, AgentUpdates, AgentAsks, AgentReports, AgentEnds,
       AgentResponds, AgentDies, Writes, disk
  <1>6. CASE UNCHANGED vars
    BY <1>6, QuietStep DEF vars
  <1> QED
    BY <1>1, <1>2, <1>3, <1>4, <1>5, <1>6 DEF Next

LEMMA AskAlways == Spec => []AskInv
  <1>1. Init => AskInv
    <2> SUFFICES ASSUME Init PROVE AskInv
      OBVIOUS
    <2>1. asks = <<>> /\ live = {}
      BY DEF Init
    <2> QED
      BY <2>1, EmptySeq DEF AskInv, LiveAsksArePending
  <1>2. AskInv /\ PipeInv /\ [Next]_vars => AskInv'
    BY AskStep
  <1> QED
    BY <1>1, <1>2, PipeAlways, PTL DEF Spec

\* Whatever an adapter waits for is undecided on disk: no path answers, cancels,
\* expires or closes an ask and leaves it with the adapter.
THEOREM LiveArePending == Spec => []LiveAsksArePending
  <1>1. AskInv => LiveAsksArePending
    BY DEF AskInv
  <1> QED
    BY <1>1, AskAlways, PTL

\* An ask is decided once: of reply, cancel, turn end, death, cap, quit, crash and
\* boot, the first decides it and the others leave the record alone.
THEOREM DecidedOnce == Spec => AsksDecidedOnce
  <1>1. AskInv /\ PipeInv /\ [Next]_vars =>
            [ /\ Len(asks) <= Len(asks')
              /\ \A a \in 1..Len(asks) :
                    asks[a].state # "pending" => asks'[a] = asks[a] ]_asks
    BY AskStep DEF AskKept
  <1> QED
    BY <1>1, AskAlways, PipeAlways, PTL DEF Spec, AsksDecidedOnce

-----------------------------------------------------------------------------
(* The process axis.                                                       *)

Procs == [connected : BOOLEAN, acp : AcpStates, started : BOOLEAN,
          replied : BOOLEAN, stuck : BOOLEAN]

ProcInv == proc \in Procs /\ up \in BOOLEAN /\ attached \in BOOLEAN

LEMMA FreshProcs == NoProc \in Procs /\ Working \in Procs
  BY DEF NoProc, Working, Procs, AcpStates

LEMMA ProcMoves ==
    ASSUME NEW p \in Procs
    PROVE  /\ Touched(p) \in Procs /\ Attached(p) \in Procs
           /\ Detached(p) \in Procs /\ TurnOver(p) \in Procs
           /\ \A acp \in AcpStates : [Touched(p) EXCEPT !.acp = acp] \in Procs
           /\ \A stuck \in BOOLEAN : [p EXCEPT !.stuck = stuck] \in Procs
  BY DEF Touched, Attached, Detached, TurnOver, Procs, AcpStates

LEMMA ProcClient ==
    ASSUME ProcInv, Client
    PROVE  ProcInv'
  <1> USE DEF ProcInv
  <1>1. CASE PromptSend \/ PromptRefused \/ PromptQueue \/ PromptInterrupt \/ FinishInterrupt
    BY <1>1, FreshProcs, ProcMoves DEF PromptSend, PromptRefused, PromptQueue,
       PromptInterrupt, FinishInterrupt, disk
  <1>2. CASE PromptWithoutFolder \/ Cancel \/ Fold \/ Reopen \/ Archive \/ Delete
    BY <1>2, FreshProcs DEF PromptWithoutFolder, Cancel, Fold, Reopen, Archive, Delete, CloseOut
  <1>3. CASE Resume \/ ResumeWithoutFolder \/ ResumeUnsupported
    BY <1>3, ProcMoves DEF Resume, ResumeWithoutFolder, ResumeUnsupported, disk
  <1>4. CASE AnswerAsk
    <2>1. {"running", "idle"} \subseteq AcpStates
      BY DEF AcpStates
    <2> QED
      BY <1>4, <2>1, ProcMoves DEF AnswerAsk, Reply
  <1> QED
    BY <1>1, <1>2, <1>3, <1>4 DEF Client

\* An adapter that is gone leaves a process axis.
LEMMA ProcGone ==
    ASSUME ProcInv, AdapterGone
    PROVE  proc' \in Procs /\ attached' \in BOOLEAN
  <1> DEFINE diagnosed == HasOpen(runs) /\ ~proc.replied
  <1>1. "unknown" \in AcpStates
    BY DEF AcpStates
  <1>2. \A started, stuck \in BOOLEAN :
            [proc EXCEPT !.connected = FALSE, !.acp = "unknown",
                         !.started = started, !.stuck = stuck] \in Procs
    BY <1>1 DEF ProcInv, Procs
  <1>3. (proc.started /\ ~HasOpen(runs)) \in BOOLEAN /\ (proc.stuck /\ ~diagnosed) \in BOOLEAN
    OBVIOUS
  <1>4. proc' = [proc EXCEPT !.connected = FALSE, !.acp = "unknown",
                             !.started = proc.started /\ ~HasOpen(runs),
                             !.stuck = proc.stuck /\ ~diagnosed]
    BY DEF AdapterGone, ProcInv, Procs
  <1> QED
    BY <1>2, <1>3, <1>4 DEF AdapterGone

LEMMA ProcPump ==
    ASSUME ProcInv, PipeInv, Pump
    PROVE  ProcInv'
  <1> USE DEF ProcInv
  <1>1. CASE Route
    BY <1>1 DEF Route, disk
  <1>2. CASE HandleUpdate
    <2>1. Touched(proc) \in Procs
      BY ProcMoves
    <2> DEFINE before == Touched(proc)
               replied == before.replied \/ Head(batch).note = "visible"
               acp == IF live = {} THEN "running" ELSE before.acp
    <2>2. replied \in BOOLEAN /\ acp \in AcpStates
      BY <2>1 DEF Procs, AcpStates
    <2>3. proc' = [before EXCEPT !.replied = replied, !.acp = acp]
      BY <1>2, <2>1 DEF HandleUpdate, Procs
    <2> HIDE DEF before, replied, acp
    <2>4. proc' \in Procs
      BY <2>1, <2>2, <2>3 DEF Procs, before
    <2> QED
      BY <1>2, <2>4 DEF HandleUpdate, Inbound
  <1>3. CASE HandleState
    <2>1. Head(batch) \in SentEvents /\ Head(batch).type = "state"
      BY <1>3, HeadTailProperties DEF HandleState, Inbound, PipeInv
    <2>2. Head(batch).note \in AcpStates
      BY <2>1 DEF SentEvents
    <2> QED
      BY <1>3, <2>2, ProcMoves DEF HandleState, Inbound
  <1>4. CASE HandleEnded
    BY <1>4, ProcMoves DEF HandleEnded, Inbound
  <1>5. CASE HandleResult
    BY <1>5, ProcMoves, FreshProcs DEF HandleResult, Inbound, Drain, NothingQueued, SendQueued,
       DropQueued
  <1>6. CASE HandleAsk
    <2>1. "requires_action" \in AcpStates
      BY DEF AcpStates
    <2> QED
      BY <1>6, <2>1, ProcMoves DEF HandleAsk, Inbound
  <1>7. CASE HandleClosed
    BY <1>7, ProcGone DEF HandleClosed, Inbound
  <1> QED
    BY <1>1, <1>2, <1>3, <1>4, <1>5, <1>6, <1>7 DEF Pump

LEMMA ProcTimers ==
    ASSUME ProcInv, Timers
    PROVE  ProcInv'
  <1> USE DEF ProcInv
  <1>1. CASE StuckTick \/ WakeFromSleep
    <2>1. CanResurface(thread, "stuck") \in BOOLEAN
      BY DEF CanResurface
    <2> QED
      BY <1>1, <2>1, ProcMoves DEF StuckTick, WakeFromSleep, ReportStuck
  <1>2. CASE CapTick \/ DropOrphaned \/ ReleaseCancel \/ Evict
    BY <1>2, ProcMoves DEF CapTick, DropOrphaned, ReleaseCancel, Evict
  <1>3. CASE Reap
    BY <1>3, ProcGone DEF Reap
  <1>4. CASE DrainStranded
    BY <1>4, FreshProcs DEF DrainStranded, SendQueued, DropQueued
  <1> QED
    BY <1>1, <1>2, <1>3, <1>4 DEF Timers

LEMMA ProcHost ==
    ASSUME ProcInv, Host
    PROVE  ProcInv'
  BY FreshProcs DEF ProcInv, Host, Quit, Crash, CrashWhileOpening, CrashInTurnEnd,
     CrashInCloseOut, HostStops, Boot

LEMMA ProcAlways == Spec => []ProcInv
  <1>1. Init => ProcInv
    BY FreshProcs DEF Init, ProcInv
  <1>2. ProcInv /\ PipeInv /\ [Next]_vars => ProcInv'
    <2> SUFFICES ASSUME ProcInv, PipeInv, [Next]_vars PROVE ProcInv'
      OBVIOUS
    <2>1. CASE Adapter
      BY <2>1 DEF ProcInv, Adapter, AgentUpdates, AgentAsks, AgentReports, AgentEnds,
         AgentResponds, AgentDies, Writes
    <2>2. CASE UNCHANGED vars
      BY <2>2 DEF vars, ProcInv
    <2> QED
      BY <2>1, <2>2, ProcClient, ProcPump, ProcTimers, ProcHost DEF Next
  <1> QED
    BY <1>1, <1>2, PipeAlways, PTL DEF Spec

-----------------------------------------------------------------------------
(* The user's words and the counters.                                      *)

WordsInv ==
    /\ submitted \in 0..MaxPrompts /\ restarts \in 0..MaxRestarts /\ stopwatch \in Nat
    /\ said \in Seq(Prompts) /\ queue \in Seq(Prompts)
    /\ arriving \in Prompts \cup {0}
    /\ dropped \subseteq Prompts /\ forgotten \subseteq Prompts

LEMMA NextPrompt ==
    ASSUME WordsInv, submitted < MaxPrompts
    PROVE  submitted + 1 \in Prompts /\ submitted + 1 \in 0..MaxPrompts
  BY SessionAssumption DEF WordsInv, Prompts

\* What is held, in the queue or on its way there, is a set of prompts.
LEMMA HeldType ==
    ASSUME WordsInv
    PROVE  Range(queue) \subseteq Prompts /\ HeldWords \subseteq Prompts
  <1>1. queue \in [1..Len(queue) -> Prompts]
    BY LenProperties DEF WordsInv
  <1>2. Range(queue) \subseteq Prompts
    BY <1>1 DEF Range
  <1> QED
    BY <1>2 DEF HeldWords, WordsInv

LEMMA WordsClient ==
    ASSUME WordsInv, LedgerInv, Client
    PROVE  WordsInv'
  <1> USE DEF WordsInv
  <1>1. CASE PromptSend \/ PromptQueue
    <2>1. submitted < MaxPrompts
      BY <1>1 DEF PromptSend, PromptQueue
    <2>2. submitted + 1 \in Prompts /\ submitted + 1 \in 0..MaxPrompts
      BY <2>1, NextPrompt
    <2>3. Append(said, submitted + 1) \in Seq(Prompts) /\ Append(queue, submitted + 1) \in Seq(Prompts)
      BY <2>2, AppendProperties
    <2> QED
      BY <1>1, <2>2, <2>3 DEF PromptSend, PromptQueue, disk
  <1>2. CASE PromptInterrupt \/ Cancel
    <2>1. Len(runs) \in Nat
      BY LenProperties DEF LedgerInv
    <2> QED
      BY <1>2, <2>1, NextPrompt DEF PromptInterrupt, Cancel, adapter, history
  <1>3. CASE FinishInterrupt
    BY <1>3, AppendProperties DEF FinishInterrupt, disk, history
  <1>4. CASE PromptRefused \/ PromptWithoutFolder \/ AnswerAsk \/ Fold \/ Reopen
    BY <1>4 DEF PromptRefused, PromptWithoutFolder, AnswerAsk, Reply, Fold, Reopen, disk, history
  <1>5. CASE Archive \/ Delete
    BY <1>5, HeldType, EmptySeq DEF Archive, Delete, CloseOut
  <1>6. CASE Resume \/ ResumeWithoutFolder \/ ResumeUnsupported
    BY <1>6 DEF Resume, ResumeWithoutFolder, ResumeUnsupported, disk, history
  <1> QED
    BY <1>1, <1>2, <1>3, <1>4, <1>5, <1>6 DEF Client

\* Draining the queue sends a prompt or drops those held.
LEMMA WordsDrained ==
    ASSUME WordsInv, NEW rs, NEW p, Drain(rs, p)
    PROVE  said' \in Seq(Prompts) /\ queue' \in Seq(Prompts) /\ dropped' \subseteq Prompts
  <1> USE DEF WordsInv
  <1>1. CASE NothingQueued(rs, p)
    BY <1>1 DEF NothingQueued
  <1>2. CASE SendQueued(rs, p)
    <2>1. Head(queue) \in Prompts /\ Tail(queue) \in Seq(Prompts)
      BY <1>2, HeadTailProperties DEF SendQueued
    <2> QED
      BY <1>2, <2>1, AppendProperties DEF SendQueued
  <1>3. CASE DropQueued(rs, p)
    BY <1>3, HeldType, EmptySeq DEF DropQueued
  <1> QED
    BY <1>1, <1>2, <1>3 DEF Drain

LEMMA WordsPump ==
    ASSUME WordsInv, Pump
    PROVE  WordsInv'
  <1> USE DEF WordsInv
  <1>1. CASE Route \/ HandleUpdate \/ HandleState \/ HandleEnded \/ HandleAsk
    BY <1>1 DEF Route, HandleUpdate, HandleState, HandleEnded, HandleAsk, Inbound, disk, history
  <1>2. CASE HandleResult
    <2>1. PICK rs, p : Drain(rs, p)
      BY <1>2 DEF HandleResult
    <2>2. said' \in Seq(Prompts) /\ queue' \in Seq(Prompts) /\ dropped' \subseteq Prompts
      BY <2>1, WordsDrained
    <2> QED
      BY <1>2, <2>2 DEF HandleResult, Inbound
  <1>3. CASE HandleClosed
    BY <1>3, HeldType, EmptySeq DEF HandleClosed, AdapterGone, Inbound
  <1> QED
    BY <1>1, <1>2, <1>3 DEF Pump

LEMMA WordsTimers ==
    ASSUME WordsInv, Timers
    PROVE  WordsInv'
  <1> USE DEF WordsInv
  <1>1. CASE StuckTick \/ WakeFromSleep \/ CapTick \/ Evict
    BY <1>1 DEF StuckTick, WakeFromSleep, ReportStuck, CapTick, Evict, disk, history
  <1>2. CASE Reap \/ DropOrphaned \/ ReleaseCancel
    <2>1. Range(queue) \subseteq Prompts /\ <<>> \in Seq(Prompts) /\ 0 \in Nat
      BY HeldType, EmptySeq
    <2>2. /\ queue' = <<>> /\ dropped' = dropped \cup Range(queue)
          /\ said' = said /\ stopwatch' \in {0, stopwatch}
          /\ arriving' = arriving /\ submitted' = submitted
          /\ forgotten' = forgotten /\ restarts' = restarts
      BY <1>2 DEF Reap, AdapterGone, DropOrphaned, ReleaseCancel, disk
    <2> QED
      BY <2>1, <2>2
  <1>3. CASE DrainStranded
    <2>1. Drain(runs, proc)
      BY <1>3 DEF DrainStranded, Drain
    <2> QED
      BY <1>3, <2>1, WordsDrained DEF DrainStranded
  <1> QED
    BY <1>1, <1>2, <1>3 DEF Timers

LEMMA WordsHost ==
    ASSUME WordsInv, Host
    PROVE  WordsInv'
  <1> USE DEF WordsInv
  <1>1. CASE Boot
    BY <1>1 DEF Boot, history
  <1>2. ASSUME HostStops
        PROVE  /\ queue' \in Seq(Prompts) /\ arriving' \in Prompts \cup {0}
               /\ stopwatch' \in Nat /\ restarts' \in 0..MaxRestarts
    BY <1>2, EmptySeq, SessionAssumption DEF HostStops
  <1>3. CASE Quit \/ Crash \/ CrashInTurnEnd
    BY <1>2, <1>3, HeldType DEF Quit, Crash, CrashInTurnEnd, disk
  <1>4. CASE CrashWhileOpening
    <2>1. submitted + 1 \in Prompts /\ submitted + 1 \in 0..MaxPrompts
      BY <1>4, NextPrompt DEF CrashWhileOpening
    <2> QED
      BY <1>2, <1>4, <2>1, AppendProperties DEF CrashWhileOpening
  <1>5. CASE CrashInCloseOut
    BY <1>2, <1>5, HeldType DEF CrashInCloseOut
  <1> QED
    BY <1>1, <1>3, <1>4, <1>5 DEF Host

LEMMA WordsAlways == Spec => []WordsInv
  <1>1. Init => WordsInv
    BY EmptySeq, SessionAssumption DEF Init, WordsInv
  <1>2. WordsInv /\ LedgerInv /\ [Next]_vars => WordsInv'
    <2> SUFFICES ASSUME WordsInv, LedgerInv, [Next]_vars PROVE WordsInv'
      OBVIOUS
    <2>1. CASE Adapter
      BY <2>1 DEF WordsInv, Adapter, AgentUpdates, AgentAsks, AgentReports, AgentEnds,
         AgentResponds, AgentDies, Writes, disk, history
    <2>2. CASE UNCHANGED vars
      BY <2>2 DEF vars, WordsInv
    <2> QED
      BY <2>1, <2>2, WordsClient, WordsPump, WordsTimers, WordsHost DEF Next
  <1> QED
    BY <1>1, <1>2, LedgerAlways, PTL DEF Spec

-----------------------------------------------------------------------------
\* Every variable keeps its type, and what the adapter writes is what the
\* handlers of its events can store.
THEOREM TypeCorrect == Spec => []TypeOK
  <1>1. LedgerInv /\ PipeInv /\ ThreadInv /\ AskInv /\ ProcInv /\ WordsInv => TypeOK
    <2> SUFFICES ASSUME LedgerInv, PipeInv, ThreadInv, AskInv, ProcInv, WordsInv PROVE TypeOK
      OBVIOUS
    <2>1. SentEvents \subseteq Events
      BY DEF SentEvents
    <2>2. batch \in Seq(Events) /\ wire \in Seq(Events)
      BY <2>1, SeqMonotonic DEF PipeInv
    <2> QED
      BY <2>2 DEF TypeOK, LedgerInv, PipeInv, Agents, ThreadInv, AskInv, AskRows, ProcInv,
         Procs, WordsInv
  <1> QED
    BY <1>1, LedgerAlways, PipeAlways, ThreadAlways, AskAlways, ProcAlways, WordsAlways, PTL

-----------------------------------------------------------------------------
(***************************************************************************)
(* What relates the host's memory to the ledger: an open run has an        *)
(* adapter, prompts are sent in order and none is lost, and no thread      *)
(* sleeps on a question.                                                   *)
(***************************************************************************)

-----------------------------------------------------------------------------
(* An open run has an adapter.  It takes that no run of a live host is left *)
(* "queued": such a run has no edge to an outcome, so the end of its turn   *)
(* would leave it open.  Only a crash between INSERT and UPDATE makes one,  *)
(* and the boot pass loses it.                                              *)

ServedInv ==
    up /\ ~thread.deleted /\ HasOpen(runs) => attached /\ Newest(runs) # "queued"

\* No card changes whether a thread is deleted.
LEMMA CardKeepsDeleted ==
    ASSUME NEW t \in ThreadRows, NEW reason
    PROVE  Resurface(t, reason).deleted = t.deleted
  BY DEF Resurface, ThreadRows

\* A run just begun is running.
LEMMA OpenedRuns ==
    ASSUME NEW rs \in Seq(RunStates)
    PROVE  Newest(OpenRun(rs)) = "running"
  <1> DEFINE retired == IF HasOpen(rs) THEN MoveNewest(rs, "lost") ELSE rs
  <1>1. {"running", "lost"} \subseteq RunStates
    BY DEF RunStates, Open, Terminal
  <1>2. retired \in Seq(RunStates)
    BY <1>1, MoveNewestProps DEF HasOpen
  <1> HIDE DEF retired
  <1>3. Newest(Append(retired, "running")) = "running"
    BY <1>1, <1>2, AppendProps
  <1> QED
    BY <1>3, OpenIsAppend DEF retired

\* Closing a run that has started ends it.
LEMMA ClosedRuns ==
    ASSUME NEW rs \in Seq(RunStates), HasOpen(rs) => Newest(rs) # "queued",
           NEW target \in {"succeeded", "failed", "cancelled", "timed_out"}
    PROVE  ~HasOpen(CloseRun(rs, target))
  <1>1. CASE ~HasOpen(rs)
    BY <1>1 DEF CloseRun, ResumeRun, Advance
  <1>2. CASE HasOpen(rs)
    <2>1. rs # <<>> /\ Newest(rs) \in {"running", "needs_you"}
      BY <1>2 DEF HasOpen, Open
    <2>2. {"running", "succeeded", "failed", "cancelled", "timed_out"} \subseteq RunStates
      BY DEF RunStates, Open, Terminal
    <2> DEFINE ready == IF target = "cancelled" THEN rs ELSE ResumeRun(rs)
    <2>3. /\ ready \in Seq(RunStates) /\ ready # <<>>
          /\ Newest(ready) = "running" \/ (target = "cancelled" /\ Newest(ready) = "needs_you")
      BY <1>2, <2>1, <2>2, MoveNewestProps DEF ResumeRun
    <2>4. HasOpen(ready) /\ CanAdvance(Newest(ready), target)
      BY <2>3 DEF HasOpen, Open, CanAdvance, Terminal
    <2>5. CloseRun(rs, target) = MoveNewest(ready, target)
      BY <2>4 DEF CloseRun, Advance
    <2>6. target \in RunStates
      BY <2>2
    <2> HIDE DEF ready
    <2>7. Newest(MoveNewest(ready, target)) = target
      BY <2>3, <2>6, MoveNewestProps
    <2> QED
      BY <2>5, <2>7 DEF HasOpen, Open
  <1> QED
    BY <1>1, <1>2

\* So does losing it.
LEMMA LostRuns ==
    ASSUME NEW rs \in Seq(RunStates)
    PROVE  ~HasOpen(LoseRun(rs))
  <1>1. CASE ~HasOpen(rs)
    BY <1>1 DEF LoseRun, Advance
  <1>2. CASE HasOpen(rs)
    <2> DEFINE to == IF Newest(rs) = "running" THEN "failed" ELSE "lost"
    <2>1. rs # <<>> /\ to \in RunStates
      BY <1>2 DEF HasOpen, RunStates, Terminal
    <2>2. CanAdvance(Newest(rs), to)
      BY <1>2 DEF HasOpen, Open, CanAdvance, Terminal
    <2>3. LoseRun(rs) = MoveNewest(rs, to)
      BY <1>2, <2>1, <2>2 DEF LoseRun, Advance
    <2>4. Newest(MoveNewest(rs, to)) = to
      BY <2>1, MoveNewestProps
    <2> QED
      BY <2>3, <2>4 DEF HasOpen, Open
  <1> QED
    BY <1>1, <1>2

\* The boot pass leaves none open.
LEMMA NoneOpenAfterBoot ==
    ASSUME NEW rs \in Seq(RunStates)
    PROVE  ~HasOpen(LoseAllOpen(rs))
  <1> DEFINE lost == LoseAllOpen(rs)
  <1>1. Len(rs) \in Nat
    BY LenProperties
  <1>2. \A i \in 1..Len(rs) : lost[i] \in RunStates /\ lost[i] \notin Open
    <2> SUFFICES ASSUME NEW i \in 1..Len(rs) PROVE lost[i] \in RunStates /\ lost[i] \notin Open
      OBVIOUS
    <2>1. rs[i] \in RunStates
      BY ElementOfSeq
    <2> QED
      BY <2>1 DEF LoseAllOpen, Open, RunStates, Terminal
  <1>3. lost \in [1..Len(rs) -> RunStates]
    BY <1>2 DEF LoseAllOpen
  <1>4. lost \in Seq(RunStates)
    BY <1>1, <1>3, SeqDef
  <1>5. Len(lost) = Len(rs)
    BY <1>1, <1>3, <1>4, LenProperties
  <1> HIDE DEF lost
  <1>6. lost # <<>> => Len(lost) \in 1..Len(rs)
    BY <1>4, <1>5, EmptySeq
  <1> QED
    BY <1>2, <1>6 DEF HasOpen, Newest, lost

\* Neither does cancelling leave an open run, nor answering or asking a queued one.
LEMMA MovedRuns ==
    ASSUME NEW rs \in Seq(RunStates)
    PROVE  /\ ~HasOpen(Advance(rs, "cancelled"))
           /\ HasOpen(ResumeRun(rs)) => HasOpen(rs)
           /\ HasOpen(PauseRun(rs)) => HasOpen(rs)
           /\ HasOpen(rs) /\ Newest(rs) # "queued" =>
                 Newest(ResumeRun(rs)) # "queued" /\ Newest(PauseRun(rs)) # "queued"
  <1>1. {"running", "needs_you", "cancelled"} \subseteq RunStates
    BY DEF RunStates, Open, Terminal
  <1>2. CASE ~HasOpen(rs)
    BY <1>2 DEF Advance, ResumeRun, PauseRun
  <1>3. CASE HasOpen(rs)
    <2>1. rs # <<>> /\ Newest(rs) \in Open
      BY <1>3 DEF HasOpen
    <2>2. ASSUME NEW state \in {"running", "needs_you", "cancelled"}
          PROVE  Newest(MoveNewest(rs, state)) = state
      BY <1>1, <2>1, MoveNewestProps
    <2>3. Advance(rs, "cancelled") = MoveNewest(rs, "cancelled")
      BY <1>3, <2>1 DEF Advance, CanAdvance, Open, Terminal
    <2>4. ~HasOpen(Advance(rs, "cancelled"))
      BY <2>2, <2>3 DEF HasOpen, Open
    <2> QED
      BY <1>3, <2>2, <2>4 DEF Advance, ResumeRun, PauseRun
  <1> QED
    BY <1>2, <1>3

-----------------------------------------------------------------------------
(* A tombstone is final.                                                   *)

LEMMA CardsKeepDeleted ==
    ASSUME NEW t \in ThreadRows
    PROVE  /\ \A reason : Resurface(t, reason).deleted = t.deleted
           /\ \A stop, waiting : CardForStop(t, stop, waiting).deleted = t.deleted
           /\ Settled(t).deleted = t.deleted
           /\ ReadAll(t).deleted = t.deleted /\ ReadNeedsYou(t).deleted = t.deleted
           /\ \A state : MoveTo(t, state).deleted = t.deleted
  BY CardKeepsDeleted DEF CardForStop, Settled, ReadAll, ReadNeedsYou, MoveTo, ThreadRows

LEMMA DeletedStays ==
    ASSUME ThreadInv, [Next]_vars, thread.deleted
    PROVE  thread'.deleted
  <1> USE CardsKeepDeleted DEF ThreadInv
  <1>1. CASE Client
    <2>1. CASE Fold \/ Archive \/ Delete \/ Reopen
      BY <2>1 DEF Fold, Archive, Delete, CloseOut, Reopen, CanMove
    <2>2. CASE PromptWithoutFolder \/ ResumeWithoutFolder \/ AnswerAsk
      BY <2>2 DEF PromptWithoutFolder, ResumeWithoutFolder, AnswerAsk, Reply
    <2> QED
      BY <1>1, <2>1, <2>2 DEF Client, PromptSend, PromptRefused, PromptQueue,
         PromptInterrupt, FinishInterrupt, Cancel, Resume, ResumeUnsupported, disk
  <1>2. CASE Pump
    BY <1>2 DEF Pump, Route, HandleUpdate, HandleState, HandleEnded, HandleResult, HandleAsk,
       HandleClosed, AdapterGone, disk
  <1>3. CASE Timers
    BY <1>3 DEF Timers, StuckTick, WakeFromSleep, ReportStuck, CapTick, Reap, AdapterGone,
       DrainStranded, DropOrphaned, ReleaseCancel, Evict, disk
  <1>4. CASE Host
    BY <1>4 DEF Host, Quit, Crash, CrashWhileOpening, CrashInTurnEnd, CrashInCloseOut, CanMove,
       Boot, disk
  <1>5. CASE Adapter \/ UNCHANGED vars
    BY <1>5 DEF Adapter, AgentUpdates, AgentAsks, AgentReports, AgentEnds, AgentResponds,
       AgentDies, Writes, disk, vars
  <1> QED
    BY <1>1, <1>2, <1>3, <1>4, <1>5 DEF Next

-----------------------------------------------------------------------------
LEMMA ServedClient ==
    ASSUME ServedInv, LedgerInv, Client, thread.deleted => thread'.deleted
    PROVE  ServedInv'
  <1> USE DEF ServedInv, LedgerInv
  <1>1. CASE PromptSend
    BY <1>1, OpenedRuns DEF PromptSend
  <1>2. CASE PromptRefused
    BY <1>2 DEF PromptRefused, HeldBack, InFlight, Free, Idle, disk
  <1>3. CASE \/ PromptWithoutFolder \/ PromptQueue \/ PromptInterrupt \/ FinishInterrupt
             \/ Cancel \/ Fold \/ Reopen \/ Resume \/ ResumeWithoutFolder \/ ResumeUnsupported
    BY <1>3 DEF PromptWithoutFolder, PromptQueue, PromptInterrupt, FinishInterrupt, Cancel,
       Fold, Reopen, Resume, ResumeWithoutFolder, ResumeUnsupported, disk
  <1>4. CASE AnswerAsk
    <2>1. up' = up /\ attached' = attached /\ runs' \in {runs, ResumeRun(runs)}
      BY <1>4 DEF AnswerAsk, Reply
    <2> QED
      BY <2>1, MovedRuns
  <1>5. CASE Archive \/ Delete
    BY <1>5, MovedRuns DEF Archive, Delete, CloseOut
  <1> QED
    BY <1>1, <1>2, <1>3, <1>4, <1>5 DEF Client

LEMMA ServedPump ==
    ASSUME ServedInv, LedgerInv, Pump, thread.deleted => thread'.deleted
    PROVE  ServedInv'
  <1> USE DEF ServedInv, LedgerInv
  <1>1. CASE Route \/ HandleUpdate \/ HandleState
    BY <1>1 DEF Route, HandleUpdate, HandleState, Inbound, disk
  <1>2. ASSUME NEW stop, up, ~thread.deleted
        PROVE  ~HasOpen(CloseRun(runs, RunTarget(stop)))
    BY <1>2, ClosedRuns, RunTargets
  <1>3. CASE HandleEnded
    BY <1>2, <1>3 DEF HandleEnded, Inbound
  <1>4. CASE HandleResult
    <2> DEFINE stop == StopOf(Head(batch).note)
               closed == CloseRun(runs, RunTarget(stop))
    <2>1. up /\ up' = up
      BY <1>4 DEF HandleResult, Inbound
    <2>2. closed \in Seq(RunStates)
      BY CloseSettles, RunTargets
    <2>3. \/ runs' = closed
          \/ runs' = OpenRun(closed) /\ attached' = attached /\ attached
      BY <1>4 DEF HandleResult, Drain, NothingQueued, SendQueued, DropQueued
    <2>4. ~thread'.deleted => ~HasOpen(closed)
      BY <1>2, <2>1
    <2> HIDE DEF closed
    <2> QED
      BY <2>1, <2>2, <2>3, <2>4, OpenedRuns
  <1>5. CASE HandleAsk
    <2>1. up' = up /\ attached' = attached /\ runs' \in {runs, PauseRun(runs)}
      BY <1>5 DEF HandleAsk, Inbound
    <2> QED
      BY <2>1, MovedRuns
  <1>6. CASE HandleClosed
    BY <1>6, LostRuns, CloseSettles DEF HandleClosed, AdapterGone
  <1> QED
    BY <1>1, <1>3, <1>4, <1>5, <1>6 DEF Pump

LEMMA ServedTimers ==
    ASSUME ServedInv, LedgerInv, Timers, thread.deleted => thread'.deleted
    PROVE  ServedInv'
  <1> USE DEF ServedInv, LedgerInv
  <1>1. CASE StuckTick \/ WakeFromSleep \/ DropOrphaned \/ ReleaseCancel
    BY <1>1 DEF StuckTick, WakeFromSleep, ReportStuck, DropOrphaned, ReleaseCancel, disk
  <1>2. CASE CapTick
    BY <1>2, ClosedRuns DEF CapTick, Idle
  <1>3. CASE Reap
    BY <1>3, LostRuns, CloseSettles DEF Reap, AdapterGone
  <1>4. CASE DrainStranded
    BY <1>4, OpenedRuns DEF DrainStranded, Stranded, SendQueued, DropQueued
  <1>5. CASE Evict
    BY <1>5 DEF Evict, disk
  <1> QED
    BY <1>1, <1>2, <1>3, <1>4, <1>5 DEF Timers

LEMMA ServedStep ==
    ASSUME ServedInv, LedgerInv, ThreadInv, [Next]_vars
    PROVE  ServedInv'
  <1>1. thread.deleted => thread'.deleted
    BY DeletedStays
  <1>2. CASE Host
    <2>1. CASE Boot
      <3>1. ~thread'.deleted => runs' = LoseAllOpen(runs)
        BY <1>1, <2>1 DEF Boot
      <3> QED
        BY <3>1, NoneOpenAfterBoot DEF ServedInv, LedgerInv
    <2> QED
      BY <1>2, <2>1 DEF ServedInv, Host, Quit, Crash, CrashWhileOpening, CrashInTurnEnd,
         CrashInCloseOut, HostStops
  <1>3. CASE Adapter
    BY <1>1, <1>3 DEF ServedInv, Adapter, AgentUpdates, AgentAsks, AgentReports, AgentEnds,
       AgentResponds, AgentDies, Writes, disk
  <1>4. CASE UNCHANGED vars
    BY <1>4 DEF ServedInv, vars
  <1> QED
    BY <1>1, <1>2, <1>3, <1>4, ServedClient, ServedPump, ServedTimers DEF Next

\* While the host runs, an open run has an adapter: every way of losing the
\* adapter ends the run with it, after any crash and for any agent.
THEOREM Served == Spec => []OpenRunIsServed
  <1>1. Init => ServedInv
    BY DEF Init, ServedInv, HasOpen
  <1>2. ServedInv /\ LedgerInv /\ ThreadInv /\ [Next]_vars => ServedInv'
    BY ServedStep
  <1>3. ServedInv => OpenRunIsServed
    BY DEF ServedInv, OpenRunIsServed
  <1> QED
    BY <1>1, <1>2, <1>3, LedgerAlways, ThreadAlways, PTL DEF Spec

-----------------------------------------------------------------------------
(* The order of the user's words.  Said, held and arriving prompts are one  *)
(* line; the parts are kept apart so that a step is about one of them.      *)

Ascending(s) == \A i, j \in 1..Len(s) : i < j => s[i] < s[j]

OrderInv ==
    /\ Ascending(said) /\ Ascending(queue)
    /\ \A i \in 1..Len(said), j \in 1..Len(queue) : said[i] < queue[j]
    /\ \A i \in 1..Len(said) : said[i] <= submitted
    /\ \A j \in 1..Len(queue) : queue[j] <= submitted
    /\ arriving # 0 =>
          /\ arriving <= submitted
          /\ \A i \in 1..Len(said) : said[i] < arriving
          /\ \A j \in 1..Len(queue) : queue[j] < arriving

\* Nobody speaks, nobody is held back: the line is as it was, or shorter.
LEMMA OrderQuiet ==
    ASSUME OrderInv, said' = said, queue' = queue \/ queue' = <<>>,
           arriving' = arriving \/ arriving' = 0, submitted' = submitted
    PROVE  OrderInv'
  BY EmptySeq DEF OrderInv, Ascending

LEMMA PromptsAreNumbers == Prompts \subseteq Nat
  BY SessionAssumption DEF Prompts

\* Numbers: what the next prompt is greater than.
LEMMA WordsAreNumbers ==
    ASSUME WordsInv
    PROVE  /\ submitted \in Nat /\ Len(said) \in Nat /\ Len(queue) \in Nat
           /\ \A i \in 1..Len(said) : said[i] \in Nat
           /\ \A j \in 1..Len(queue) : queue[j] \in Nat
           /\ arriving \in Nat
  BY LenProperties, ElementOfSeq, SessionAssumption DEF WordsInv, Prompts

LEMMA OrderSaid ==
    ASSUME OrderInv, WordsInv, queue = <<>>, arriving = 0, submitted < MaxPrompts,
           said' = Append(said, submitted + 1), queue' = <<>>, arriving' = 0,
           submitted' = submitted + 1
    PROVE  OrderInv'
  <1>1. submitted + 1 \in Prompts
    BY NextPrompt
  <1>2. /\ Len(said') = Len(said) + 1 /\ said'[Len(said) + 1] = submitted + 1
        /\ \A i \in 1..Len(said) : said'[i] = said[i]
    BY <1>1, AppendProperties DEF WordsInv
  <1> QED
    BY <1>2, WordsAreNumbers, EmptySeq DEF OrderInv, Ascending

\* A prompt takes the last place of the queue.
LEMMA OrderHeld ==
    ASSUME OrderInv, WordsInv, NEW word \in Prompts, NEW most \in Nat,
           \A i \in 1..Len(said) : said[i] < word,
           \A j \in 1..Len(queue) : queue[j] < word,
           word <= most, submitted <= most,
           said' = said, queue' = Append(queue, word), arriving' = 0, submitted' = most
    PROVE  OrderInv'
  <1>1. /\ Len(queue') = Len(queue) + 1 /\ queue'[Len(queue) + 1] = word
        /\ \A j \in 1..Len(queue) : queue'[j] = queue[j]
    BY AppendProperties DEF WordsInv
  <1>2. word \in Nat
    BY SessionAssumption DEF Prompts
  <1> QED
    BY <1>1, <1>2, WordsAreNumbers DEF OrderInv, Ascending

\* Moving the head of one ascending sequence to the end of another below it.
LEMMA MovedHead ==
    ASSUME NEW s \in Seq(Nat), NEW q \in Seq(Nat), q # <<>>,
           Ascending(s), Ascending(q),
           \A i \in 1..Len(s), j \in 1..Len(q) : s[i] < q[j]
    PROVE  /\ Ascending(Append(s, Head(q))) /\ Ascending(Tail(q))
           /\ \A i \in 1..Len(Append(s, Head(q))), j \in 1..Len(Tail(q)) :
                 Append(s, Head(q))[i] < Tail(q)[j]
           /\ \A i \in 1..Len(Append(s, Head(q))) :
                 \/ i \in 1..Len(s) /\ Append(s, Head(q))[i] = s[i]
                 \/ 1 \in 1..Len(q) /\ Append(s, Head(q))[i] = q[1]
           /\ \A j \in 1..Len(Tail(q)) : j + 1 \in 1..Len(q) /\ Tail(q)[j] = q[j + 1]
  <1> DEFINE longer == Append(s, Head(q))
             rest == Tail(q)
  <1>1. Len(q) \in Nat \ {0} /\ Len(s) \in Nat
    BY EmptySeq, LenProperties
  <1>2. Head(q) = q[1] /\ q[1] \in Nat
    BY <1>1, ElementOfSeq
  <1>3. Len(rest) = Len(q) - 1 /\ \A j \in 1..Len(rest) : rest[j] = q[j + 1]
    BY HeadTailProperties
  <1>4. /\ Len(longer) = Len(s) + 1 /\ longer[Len(s) + 1] = q[1]
        /\ \A i \in 1..Len(s) : longer[i] = s[i]
    BY <1>1, <1>2, AppendProperties
  <1> HIDE DEF longer, rest
  <1>5. \A j \in 1..Len(rest) : j \in Nat \ {0} /\ j + 1 \in 1..Len(q) /\ rest[j] = q[j + 1]
    BY <1>1, <1>3
  <1>6. \A i \in 1..Len(longer) :
            \/ i \in 1..Len(s) /\ longer[i] = s[i]
            \/ i = Len(s) + 1 /\ longer[i] = q[1]
    BY <1>1, <1>4
  <1>7. 1 \in 1..Len(q)
    BY <1>1
  <1>8. Ascending(rest)
    BY <1>5 DEF Ascending
  <1>9. Ascending(longer)
    <2> SUFFICES ASSUME NEW i \in 1..Len(longer), NEW j \in 1..Len(longer), i < j
                 PROVE  longer[i] < longer[j]
      BY DEF Ascending
    <2>1. i \in 1..Len(s) /\ longer[i] = s[i]
      BY <1>1, <1>4
    <2>2. (j \in 1..Len(s) /\ longer[j] = s[j]) \/ longer[j] = q[1]
      BY <1>6
    <2> QED
      BY <1>7, <2>1, <2>2 DEF Ascending
  <1>10. ASSUME NEW i \in 1..Len(longer), NEW j \in 1..Len(rest)
         PROVE  longer[i] < rest[j]
    <2>1. j + 1 \in 1..Len(q) /\ 1 < j + 1 /\ rest[j] = q[j + 1]
      BY <1>5
    <2>2. (i \in 1..Len(s) /\ longer[i] = s[i]) \/ longer[i] = q[1]
      BY <1>6
    <2> QED
      BY <1>7, <2>1, <2>2 DEF Ascending
  <1> QED
    BY <1>5, <1>6, <1>7, <1>8, <1>9, <1>10 DEF longer, rest

LEMMA OrderDrained ==
    ASSUME OrderInv, WordsInv, NEW rs, NEW p, Drain(rs, p),
           arriving' = arriving, submitted' = submitted
    PROVE  OrderInv'
  <1>1. CASE NothingQueued(rs, p) \/ DropQueued(rs, p)
    BY <1>1, OrderQuiet DEF NothingQueued, DropQueued
  <1>2. CASE SendQueued(rs, p)
    <2>1. queue # <<>> /\ said' = Append(said, Head(queue)) /\ queue' = Tail(queue)
      BY <1>2 DEF SendQueued
    <2>2. queue \in Seq(Nat) /\ said \in Seq(Nat)
      BY SeqMonotonic, PromptsAreNumbers DEF WordsInv
    <2>3. /\ Ascending(said') /\ Ascending(queue')
          /\ \A i \in 1..Len(said'), j \in 1..Len(queue') : said'[i] < queue'[j]
          /\ \A i \in 1..Len(said') :
                \/ i \in 1..Len(said) /\ said'[i] = said[i]
                \/ 1 \in 1..Len(queue) /\ said'[i] = queue[1]
          /\ \A j \in 1..Len(queue') : j + 1 \in 1..Len(queue) /\ queue'[j] = queue[j + 1]
      BY <2>1, <2>2, MovedHead DEF OrderInv
    <2> QED
      BY <2>3 DEF OrderInv, Ascending
  <1> QED
    BY <1>1, <1>2 DEF Drain

LEMMA OrderClient ==
    ASSUME OrderInv, WordsInv, Client
    PROVE  OrderInv'
  <1>1. CASE PromptSend
    BY <1>1, OrderSaid DEF PromptSend, HeldBack, Free
  <1>2. CASE PromptQueue
    <2>1. submitted + 1 \in Prompts /\ submitted + 1 \in Nat
      BY <1>2, NextPrompt, WordsAreNumbers DEF PromptQueue
    <2>2. /\ \A i \in 1..Len(said) : said[i] < submitted + 1
          /\ \A j \in 1..Len(queue) : queue[j] < submitted + 1
          /\ submitted <= submitted + 1 /\ submitted + 1 <= submitted + 1
      BY WordsAreNumbers DEF OrderInv
    <2> QED
      BY <1>2, <2>1, <2>2, OrderHeld DEF PromptQueue, Free, disk
  <1>3. CASE PromptInterrupt
    BY <1>3, WordsAreNumbers DEF PromptInterrupt, OrderInv, Ascending
  <1>4. CASE FinishInterrupt
    <2>1. arriving \in Prompts /\ submitted \in Nat
      BY <1>4, WordsAreNumbers DEF FinishInterrupt, WordsInv
    <2>2. /\ \A i \in 1..Len(said) : said[i] < arriving
          /\ \A j \in 1..Len(queue) : queue[j] < arriving
          /\ arriving <= submitted /\ submitted <= submitted
      BY <1>4, <2>1 DEF FinishInterrupt, OrderInv
    <2> QED
      BY <1>4, <2>1, <2>2, OrderHeld DEF FinishInterrupt, disk, history
  <1>5. CASE \/ PromptRefused \/ PromptWithoutFolder \/ Cancel \/ AnswerAsk \/ Fold \/ Reopen
             \/ Archive \/ Delete \/ Resume \/ ResumeWithoutFolder \/ ResumeUnsupported
    BY <1>5, OrderQuiet DEF PromptRefused, PromptWithoutFolder, Cancel, AnswerAsk, Reply, Fold,
       Reopen, Archive, Delete, CloseOut, Resume, ResumeWithoutFolder, ResumeUnsupported,
       disk, history
  <1> QED
    BY <1>1, <1>2, <1>3, <1>4, <1>5 DEF Client

LEMMA OrderStep ==
    ASSUME OrderInv, WordsInv, [Next]_vars
    PROVE  OrderInv'
  <1>1. CASE Pump
    <2>1. CASE HandleResult
      BY <2>1, OrderDrained DEF HandleResult, Inbound
    <2> QED
      BY <1>1, <2>1, OrderQuiet DEF Pump, Route, HandleUpdate, HandleState, HandleEnded,
         HandleAsk, HandleClosed, AdapterGone, Inbound, disk, history
  <1>2. CASE Timers
    <2>1. CASE DrainStranded
      BY <2>1, OrderDrained DEF DrainStranded, Drain
    <2> QED
      BY <1>2, <2>1, OrderQuiet DEF Timers, StuckTick, WakeFromSleep, ReportStuck, CapTick,
         Reap, AdapterGone, DropOrphaned, ReleaseCancel, Evict, disk, history
  <1>3. CASE Host
    <2>1. CASE CrashWhileOpening
      <3>1. queue = <<>> /\ arriving = 0 /\ submitted < MaxPrompts
        BY <2>1 DEF CrashWhileOpening, HeldBack, Free
      <3> QED
        BY <2>1, <3>1, OrderSaid DEF CrashWhileOpening, HostStops
    <2> QED
      BY <1>3, <2>1, OrderQuiet DEF Host, Quit, Crash, CrashInTurnEnd, CrashInCloseOut,
         HostStops, Boot, disk, history
  <1>4. CASE Adapter
    BY <1>4, OrderQuiet DEF Adapter, AgentUpdates, AgentAsks, AgentReports, AgentEnds,
       AgentResponds, AgentDies, Writes, disk, history
  <1>5. CASE UNCHANGED vars
    BY <1>5, OrderQuiet DEF vars
  <1> QED
    BY <1>1, <1>2, <1>3, <1>4, <1>5, OrderClient DEF Next

\* The line the parts make.
LEMMA OrderImplies ==
    ASSUME OrderInv, WordsInv
    PROVE  SentInOrder
  <1> DEFINE tail == IF arriving = 0 THEN <<>> ELSE <<arriving>>
             held == queue \o tail
             line == said \o held
  <1>1. said \in Seq(Nat) /\ queue \in Seq(Nat)
    BY PromptsAreNumbers, SeqMonotonic DEF WordsInv
  <1>2. tail \in Seq(Nat)
    BY WordsAreNumbers
  <1>3. /\ Len(tail) = IF arriving = 0 THEN 0 ELSE 1
        /\ arriving # 0 => tail[1] = arriving
    OBVIOUS
  <1> HIDE DEF tail
  <1>4. /\ held \in Seq(Nat) /\ Len(held) = Len(queue) + Len(tail)
        /\ \A i \in 1..Len(held) :
              held[i] = IF i <= Len(queue) THEN queue[i] ELSE tail[i - Len(queue)]
    BY <1>1, <1>2, ConcatProperties
  <1>5. Ascending(held)
    BY <1>3, <1>4, WordsAreNumbers DEF OrderInv, Ascending
  <1>6. \A i \in 1..Len(said), j \in 1..Len(held) : said[i] < held[j]
    BY <1>3, <1>4, WordsAreNumbers DEF OrderInv
  <1>7. held \in Seq(Nat) /\ Len(held) \in Nat /\ Len(said) \in Nat /\ Ascending(said)
    BY <1>4, WordsAreNumbers, LenProperties DEF OrderInv
  <1> HIDE DEF held
  <1>8. /\ Len(line) = Len(said) + Len(held)
        /\ \A i \in 1..Len(said) + Len(held) :
              line[i] = IF i <= Len(said) THEN said[i] ELSE held[i - Len(said)]
    BY <1>1, <1>7, ConcatProperties
  <1> HIDE DEF line
  <1>9. Ascending(line)
    <2> SUFFICES ASSUME NEW i \in 1..Len(line), NEW j \in 1..Len(line), i < j
                 PROVE  line[i] < line[j]
      BY DEF Ascending
    <2>1. CASE j <= Len(said)
      <3>1. line[i] = said[i] /\ line[j] = said[j] /\ i \in 1..Len(said) /\ j \in 1..Len(said)
        BY <1>7, <1>8, <2>1
      <3> QED
        BY <1>7, <3>1 DEF Ascending
    <2>2. CASE i <= Len(said) /\ ~(j <= Len(said))
      <3>1. /\ line[i] = said[i] /\ line[j] = held[j - Len(said)]
            /\ i \in 1..Len(said) /\ j - Len(said) \in 1..Len(held)
        BY <1>7, <1>8, <2>2
      <3> QED
        BY <1>6, <3>1
    <2>3. CASE ~(i <= Len(said))
      <3>1. /\ line[i] = held[i - Len(said)] /\ line[j] = held[j - Len(said)]
            /\ i - Len(said) \in 1..Len(held) /\ j - Len(said) \in 1..Len(held)
            /\ i - Len(said) < j - Len(said)
        BY <1>7, <1>8, <2>3
      <3> QED
        BY <1>5, <3>1 DEF Ascending
    <2> QED
      BY <1>7, <1>8, <2>1, <2>2, <2>3
  <1>10. line = said \o queue \o tail
    <2>1. \A t \in Seq(Nat) : (said \o queue) \o t = said \o (queue \o t)
      BY SMTT(30), <1>1, ConcatAssociative
    <2> QED
      BY <1>2, <2>1 DEF line, held
  <1> QED
    BY <1>9, <1>10 DEF SentInOrder, Ascending, tail

LEMMA OrderAlways == Spec => []OrderInv
  <1>1. Init => OrderInv
    BY EmptySeq DEF Init, OrderInv, Ascending
  <1>2. OrderInv /\ WordsInv /\ [Next]_vars => OrderInv'
    BY OrderStep
  <1> QED
    BY <1>1, <1>2, WordsAlways, PTL DEF Spec

\* Prompts reach the agent in the order the user gave them: none overtakes one
\* that is held, in the queue or in the window of an interrupt, whatever drains
\* or drops the queue in between (intercept_in_flight, drain_prompt_queue).
THEOREM InOrder == Spec => []SentInOrder
  <1>1. OrderInv /\ WordsInv => SentInOrder
    BY OrderImplies
  <1> QED
    BY <1>1, OrderAlways, WordsAlways, PTL

-----------------------------------------------------------------------------
(* Sleep.  Only a fold puts a thread to sleep, and a fold over an ask wakes *)
(* it in the same step; every other writer of the row leaves a sleeping     *)
(* thread as it is or wakes it.                                             *)

LEMMA OnlyAwake ==
    ASSUME NEW t \in ThreadRows
    PROVE  /\ \A reason : Resurface(t, reason).state = "folded" =>
                 t.state = "folded" /\ Resurface(t, reason) = t
           /\ \A stop, waiting : CardForStop(t, stop, waiting).state = "folded" =>
                 t.state = "folded" /\ CardForStop(t, stop, waiting) = t
           /\ \A reason : Resurface(t, reason).state = "folded" => t.deleted
           /\ ReadNeedsYou(t).state = t.state /\ ReadNeedsYou(t).deleted = t.deleted
  BY DEF Resurface, CanResurface, CardForStop, ReadNeedsYou, ThreadRows

LEMMA AwakeStep ==
    ASSUME NoAskAsleep, ThreadInv, AskInv, [Next]_vars
    PROVE  NoAskAsleep'
  <1> USE DEF NoAskAsleep, ThreadInv
  <1>1. ASSUME live' = {} PROVE NoAskAsleep'
    BY <1>1
  <1>2. ASSUME thread' = thread, live' \subseteq live PROVE NoAskAsleep'
    BY <1>2
  <1>3. CASE Client
    <2>1. CASE PromptInterrupt \/ Cancel \/ Archive \/ Delete
      BY <1>1, <2>1 DEF PromptInterrupt, Cancel, Archive, Delete, CloseOut
    <2>2. CASE PromptWithoutFolder \/ ResumeWithoutFolder \/ AnswerAsk
      BY <2>2, OnlyAwake DEF PromptWithoutFolder, ResumeWithoutFolder, AnswerAsk, Reply
    <2>3. CASE Reopen
      BY <2>3 DEF Reopen, ReadAll, MoveTo, ThreadRows
    <2>4. CASE Fold
      <3>1. PICK policy \in Policies :
                thread' = Settled(MoveTo([thread EXCEPT !.policy = policy], "folded"))
        BY <2>4 DEF Fold
      <3> DEFINE asleep == MoveTo([thread EXCEPT !.policy = policy], "folded")
      <3>2. asleep \in ThreadRows /\ ~asleep.deleted
        BY <2>4, SessionAssumption DEF Fold, CanMove, MoveTo, ThreadRows, ThreadStates
      <3>3. live # {} => thread' = Resurface(asleep, "needs_you")
        BY <3>1 DEF Settled
      <3> HIDE DEF asleep
      <3> QED
        BY <2>4, <3>2, <3>3, OnlyAwake DEF Fold
    <2> QED
      BY <1>2, <1>3, <2>1, <2>2, <2>3, <2>4 DEF Client, PromptSend, PromptRefused, PromptQueue,
         FinishInterrupt, Resume, ResumeUnsupported, disk
  <1>4. CASE Pump
    <2>1. CASE HandleResult \/ HandleClosed
      BY <1>1, <2>1 DEF HandleResult, HandleClosed, AdapterGone
    <2>2. CASE HandleEnded
      BY <2>2, OnlyAwake DEF HandleEnded
    <2>3. CASE HandleAsk
      <3>1. \/ thread' = thread /\ live' = live
            \/ thread' = Resurface(thread, "needs_you")
        BY <2>3 DEF HandleAsk
      <3> QED
        BY <3>1, OnlyAwake
    <2> QED
      BY <1>2, <1>4, <2>1, <2>2, <2>3 DEF Pump, Route, HandleUpdate, HandleState, disk
  <1>5. CASE Timers
    <2>1. CASE CapTick \/ Reap
      BY <1>1, <2>1 DEF CapTick, Reap, AdapterGone
    <2>2. CASE StuckTick \/ WakeFromSleep
      BY <2>2, OnlyAwake DEF StuckTick, WakeFromSleep, ReportStuck
    <2> QED
      BY <1>2, <1>5, <2>1, <2>2 DEF Timers, DrainStranded, DropOrphaned, ReleaseCancel, Evict, disk
  <1>6. CASE Host
    <2>1. CASE Boot
      BY <1>1, <2>1 DEF Boot, AskInv
    <2> QED
      BY <1>1, <1>6, <2>1 DEF Host, Quit, Crash, CrashWhileOpening, CrashInTurnEnd,
         CrashInCloseOut, HostStops
  <1>7. CASE Adapter
    BY <1>2, <1>7 DEF Adapter, AgentUpdates, AgentAsks, AgentReports, AgentEnds, AgentResponds,
       AgentDies, Writes, disk
  <1>8. CASE UNCHANGED vars
    BY <1>2, <1>8 DEF vars
  <1> QED
    BY <1>3, <1>4, <1>5, <1>6, <1>7, <1>8 DEF Next

\* No thread sleeps on a question, with any agent and over any restart: an ask
\* wakes a folded thread, and a fold over an ask does not last (settle_after_fold).
THEOREM NeverAsleepOnAsk == Spec => []NoAskAsleep
  <1>1. Init => NoAskAsleep
    BY DEF Init, NoAskAsleep
  <1>2. NoAskAsleep /\ ThreadInv /\ AskInv /\ [Next]_vars => NoAskAsleep'
    BY AwakeStep
  <1> QED
    BY <1>1, <1>2, ThreadAlways, AskAlways, PTL DEF Spec

-----------------------------------------------------------------------------
(* Where each prompt is.  Said, held, dropped and forgotten prompts are a   *)
(* partition of those submitted.  That no prompt is counted twice follows   *)
(* from it, because the said and the held ones are in ascending order.      *)

\* Four sets that have no element in common and make up a fifth.
Partition(S, H, D, F, all) ==
    /\ S \cup H \cup D \cup F = all
    /\ S \cap H = {} /\ S \cap D = {} /\ S \cap F = {}
    /\ H \cap D = {} /\ H \cap F = {} /\ D \cap F = {}

AccountInv == Partition(Range(said), HeldWords, dropped, forgotten, 1..submitted)

\* What is held may be said, dropped or forgotten.
LEMMA PartitionMoves ==
    ASSUME NEW S, NEW H, NEW D, NEW F, NEW all, Partition(S, H, D, F, all),
           NEW moved, moved \subseteq H
    PROVE  /\ Partition(S \cup moved, H \ moved, D, F, all)
           /\ Partition(S, H \ moved, D \cup moved, F, all)
           /\ Partition(S, H \ moved, D, F \cup moved, all)
  BY DEF Partition

\* A new prompt is said or held.
LEMMA PartitionGrows ==
    ASSUME NEW S, NEW H, NEW D, NEW F, NEW n \in Nat, Partition(S, H, D, F, 1..n)
    PROVE  /\ Partition(S \cup {n + 1}, H, D, F, 1..(n + 1))
           /\ Partition(S, H \cup {n + 1}, D, F, 1..(n + 1))
  <1>1. 1..(n + 1) = (1..n) \cup {n + 1} /\ n + 1 \notin 1..n
    OBVIOUS
  <1> HIDE DEF Partition
  <1> DEFINE all == 1..n
             new == n + 1
  <1>2. /\ Partition(S, H, D, F, all) /\ new \notin all
        /\ 1..(n + 1) = all \cup {new}
    BY <1>1
  <1> HIDE DEF all, new
  <1>3. /\ Partition(S \cup {new}, H, D, F, all \cup {new})
        /\ Partition(S, H \cup {new}, D, F, all \cup {new})
    BY <1>2 DEF Partition
  <1> QED
    BY <1>2, <1>3 DEF new

LEMMA RangeOfAppend ==
    ASSUME NEW S, NEW s \in Seq(S), NEW e \in S
    PROVE  Range(Append(s, e)) = Range(s) \cup {e}
  <1>1. /\ DOMAIN s = 1..Len(s) /\ Len(s) \in Nat
        /\ DOMAIN Append(s, e) = 1..(Len(s) + 1)
    BY LenProperties, AppendProperties
  <1>2. /\ Append(s, e)[Len(s) + 1] = e
        /\ \A i \in 1..Len(s) : Append(s, e)[i] = s[i]
    BY AppendProperties
  <1>3. 1..(Len(s) + 1) = (1..Len(s)) \cup {Len(s) + 1}
    BY <1>1
  <1> QED
    BY <1>1, <1>2, <1>3 DEF Range

\* In an ascending sequence no element comes twice.
LEMMA RangeOfTail ==
    ASSUME NEW q \in Seq(Nat), q # <<>>, Ascending(q)
    PROVE  Range(Tail(q)) = Range(q) \ {Head(q)} /\ Head(q) \in Range(q)
  <1>1. Len(q) \in Nat \ {0} /\ DOMAIN q = 1..Len(q) /\ Head(q) = q[1]
    BY EmptySeq, LenProperties
  <1>2. /\ Tail(q) \in Seq(Nat) /\ Len(Tail(q)) = Len(q) - 1
        /\ \A j \in 1..Len(Tail(q)) : Tail(q)[j] = q[j + 1]
    BY HeadTailProperties
  <1>3. DOMAIN Tail(q) = 1..(Len(q) - 1)
    BY <1>2, LenProperties
  <1>4. \A i \in 1..Len(q) : q[i] \in Nat
    BY ElementOfSeq
  <1>5. \A i \in 1..Len(q) : 1 < i => q[1] < q[i]
    BY <1>1 DEF Ascending
  <1>6. ASSUME NEW j \in 1..(Len(q) - 1)
        PROVE  Tail(q)[j] \in Range(q) /\ Tail(q)[j] # q[1]
    <2>1. j + 1 \in 1..Len(q) /\ 1 < j + 1 /\ Tail(q)[j] = q[j + 1] /\ 1 \in 1..Len(q)
      BY <1>1, <1>2
    <2> QED
      BY <1>1, <1>4, <1>5, <2>1 DEF Range
  <1>7. ASSUME NEW i \in 1..Len(q), q[i] # q[1]
        PROVE  q[i] \in Range(Tail(q))
    <2>1. i - 1 \in 1..(Len(q) - 1) /\ (i - 1) + 1 = i
      BY <1>1, <1>7
    <2>2. Tail(q)[i - 1] = q[i]
      BY <1>2, <2>1
    <2> QED
      BY <1>3, <2>1, <2>2 DEF Range
  <1>8. Range(Tail(q)) \subseteq Range(q) \ {Head(q)}
    BY <1>1, <1>3, <1>6 DEF Range
  <1>9. Range(q) \ {Head(q)} \subseteq Range(Tail(q))
    BY <1>1, <1>7 DEF Range
  <1>10. Head(q) \in Range(q)
    BY <1>1 DEF Range
  <1> QED
    BY <1>8, <1>9, <1>10

LEMMA RangeOfEmpty == Range(<<>>) = {}
  BY DEF Range

\* An ascending sequence is as long as its range is large.
LEMMA RangeSize ==
    ASSUME NEW s \in Seq(Nat), Ascending(s)
    PROVE  IsFiniteSet(Range(s)) /\ Cardinality(Range(s)) = Len(s)
  <1>1. Len(s) \in Nat /\ DOMAIN s = 1..Len(s) /\ s \in [1..Len(s) -> Range(s)]
    BY LenProperties, SeqOfRange
  <1>2. \A i \in 1..Len(s) : s[i] \in Nat
    BY ElementOfSeq
  <1>3. ASSUME NEW i \in 1..Len(s), NEW j \in 1..Len(s), s[i] = s[j]
        PROVE  i = j
    BY <1>2, <1>3 DEF Ascending
  <1>4. s \in Injection(1..Len(s), Range(s))
    BY <1>1, <1>3 DEF Injection, IsInjective
  <1>5. s \in Surjection(1..Len(s), Range(s))
    BY <1>1 DEF Surjection, Range
  <1>6. ExistsBijection(1..Len(s), Range(s))
    BY <1>4, <1>5 DEF ExistsBijection, Bijection
  <1>7. IsFiniteSet(1..Len(s)) /\ Cardinality(1..Len(s)) = Len(s)
    BY <1>1, FS_Interval
  <1> QED
    BY <1>6, <1>7, FS_Bijection

\* The prompt on its way to the queue is not in it.
LEMMA ArrivingApart ==
    ASSUME OrderInv, WordsInv
    PROVE  arriving \notin Range(queue)
  <1>1. DOMAIN queue = 1..Len(queue)
    BY LenProperties DEF WordsInv
  <1>2. \A j \in 1..Len(queue) : queue[j] \in Nat /\ queue[j] # 0
    BY ElementOfSeq, SessionAssumption DEF WordsInv, Prompts
  <1>3. \A j \in 1..Len(queue) : queue[j] # arriving
    BY <1>2, WordsAreNumbers DEF OrderInv
  <1> QED
    BY <1>1, <1>3 DEF Range

LEMMA AccountQuiet ==
    ASSUME AccountInv, said' = said, queue' = queue, arriving' = arriving,
           dropped' = dropped, forgotten' = forgotten, submitted' = submitted
    PROVE  AccountInv'
  BY DEF AccountInv, HeldWords

LEMMA AccountDropped ==
    ASSUME AccountInv, OrderInv, WordsInv, said' = said, queue' = <<>>, arriving' = arriving,
           dropped' = dropped \cup Range(queue), forgotten' = forgotten, submitted' = submitted
    PROVE  AccountInv'
  <1>1. HeldWords' = HeldWords \ Range(queue) /\ Range(queue) \subseteq HeldWords
    BY ArrivingApart, RangeOfEmpty DEF HeldWords
  <1> QED
    BY <1>1, PartitionMoves DEF AccountInv

LEMMA AccountForgotten ==
    ASSUME AccountInv, said' = said, queue' = <<>>, arriving' = 0,
           dropped' = dropped, forgotten' = forgotten \cup HeldWords, submitted' = submitted
    PROVE  AccountInv'
  <1>1. HeldWords' = HeldWords \ HeldWords
    BY RangeOfEmpty DEF HeldWords
  <1> QED
    BY <1>1, PartitionMoves DEF AccountInv

LEMMA AccountSaid ==
    ASSUME AccountInv, WordsInv, submitted < MaxPrompts,
           said' = Append(said, submitted + 1), HeldWords' = HeldWords,
           dropped' = dropped, forgotten' = forgotten, submitted' = submitted + 1
    PROVE  AccountInv'
  <1>1. Range(said') = Range(said) \cup {submitted + 1}
    BY NextPrompt, RangeOfAppend DEF WordsInv
  <1>2. Partition(Range(said) \cup {submitted + 1}, HeldWords, dropped, forgotten,
                  1..(submitted + 1))
    BY WordsAreNumbers, PartitionGrows DEF AccountInv
  <1> QED
    BY <1>1, <1>2 DEF AccountInv

LEMMA AccountHeld ==
    ASSUME AccountInv, WordsInv, said' = said, HeldWords' = HeldWords \cup {submitted + 1},
           dropped' = dropped, forgotten' = forgotten, submitted' = submitted + 1
    PROVE  AccountInv'
  BY WordsAreNumbers, PartitionGrows DEF AccountInv

LEMMA AccountDrained ==
    ASSUME AccountInv, OrderInv, WordsInv, NEW rs, NEW p, Drain(rs, p),
           arriving' = arriving, forgotten' = forgotten, submitted' = submitted
    PROVE  AccountInv'
  <1>1. CASE NothingQueued(rs, p)
    BY <1>1, AccountQuiet DEF NothingQueued
  <1>2. CASE DropQueued(rs, p)
    BY <1>2, AccountDropped DEF DropQueued
  <1>3. CASE SendQueued(rs, p)
    <2>1. /\ queue # <<>> /\ said' = Append(said, Head(queue)) /\ queue' = Tail(queue)
          /\ dropped' = dropped
      BY <1>3 DEF SendQueued
    <2>2. queue \in Seq(Nat) /\ said \in Seq(Nat) /\ Ascending(queue)
      BY SeqMonotonic, PromptsAreNumbers DEF WordsInv, OrderInv
    <2>3. Range(queue') = Range(queue) \ {Head(queue)} /\ Head(queue) \in Range(queue)
      BY <2>1, <2>2, RangeOfTail
    <2>4. Head(queue) \in Nat
      BY <2>1, <2>2, HeadTailProperties
    <2>5. Range(said') = Range(said) \cup {Head(queue)}
      BY <2>1, <2>2, <2>4, RangeOfAppend
    <2>6. HeldWords' = HeldWords \ {Head(queue)} /\ {Head(queue)} \subseteq HeldWords
      BY <2>3, ArrivingApart DEF HeldWords
    <2>7. Partition(Range(said) \cup {Head(queue)}, HeldWords \ {Head(queue)}, dropped,
                    forgotten, 1..submitted)
      BY <2>6, PartitionMoves DEF AccountInv
    <2> QED
      BY <2>1, <2>5, <2>6, <2>7 DEF AccountInv
  <1> QED
    BY <1>1, <1>2, <1>3 DEF Drain

LEMMA AccountClient ==
    ASSUME AccountInv, OrderInv, WordsInv, Client
    PROVE  AccountInv'
  <1>1. CASE PromptSend
    BY <1>1, AccountSaid DEF PromptSend, HeldWords
  <1>2. CASE PromptQueue \/ PromptInterrupt
    <2>1. submitted < MaxPrompts /\ arriving = 0
      BY <1>2 DEF PromptQueue, PromptInterrupt, Free
    <2>2. submitted + 1 \in Prompts /\ submitted + 1 # 0
      BY <2>1, NextPrompt, WordsAreNumbers
    <2>3. Range(Append(queue, submitted + 1)) = Range(queue) \cup {submitted + 1}
      BY <2>2, RangeOfAppend DEF WordsInv
    <2>4. HeldWords' = HeldWords \cup {submitted + 1}
      BY <1>2, <2>1, <2>2, <2>3 DEF PromptQueue, PromptInterrupt, HeldWords
    <2> QED
      BY <1>2, <2>4, AccountHeld DEF PromptQueue, PromptInterrupt, disk
  <1>3. CASE FinishInterrupt
    <2>1. arriving \in Prompts
      BY <1>3 DEF FinishInterrupt, WordsInv
    <2>2. Range(queue') = Range(queue) \cup {arriving} /\ arriving' = 0
      BY <1>3, <2>1, RangeOfAppend DEF FinishInterrupt, WordsInv
    <2>3. HeldWords' = HeldWords
      BY <1>3, <2>2 DEF FinishInterrupt, HeldWords
    <2> QED
      BY <1>3, <2>3 DEF FinishInterrupt, AccountInv, disk, history
  <1>4. CASE Archive \/ Delete
    BY <1>4, AccountDropped DEF Archive, Delete, CloseOut
  <1>5. CASE \/ PromptRefused \/ PromptWithoutFolder \/ Cancel \/ AnswerAsk \/ Fold \/ Reopen
             \/ Resume \/ ResumeWithoutFolder \/ ResumeUnsupported
    BY <1>5, AccountQuiet DEF PromptRefused, PromptWithoutFolder, Cancel, AnswerAsk, Reply, Fold,
       Reopen, Resume, ResumeWithoutFolder, ResumeUnsupported, disk, history
  <1> QED
    BY <1>1, <1>2, <1>3, <1>4, <1>5 DEF Client

LEMMA AccountPump ==
    ASSUME AccountInv, OrderInv, WordsInv, Pump
    PROVE  AccountInv'
  <1>1. CASE HandleResult
    BY <1>1, AccountDrained DEF HandleResult, Inbound
  <1>2. CASE HandleClosed
    BY <1>2, AccountDropped DEF HandleClosed, AdapterGone, Inbound
  <1>3. CASE Route \/ HandleUpdate \/ HandleState \/ HandleEnded \/ HandleAsk
    BY <1>3, AccountQuiet DEF Route, HandleUpdate, HandleState, HandleEnded, HandleAsk, Inbound,
       disk, history
  <1> QED
    BY <1>1, <1>2, <1>3 DEF Pump

LEMMA AccountTimers ==
    ASSUME AccountInv, OrderInv, WordsInv, Timers
    PROVE  AccountInv'
  <1>1. CASE DrainStranded
    BY <1>1, AccountDrained DEF DrainStranded, Drain
  <1>2. CASE Reap \/ DropOrphaned \/ ReleaseCancel
    BY <1>2, AccountDropped DEF Reap, AdapterGone, DropOrphaned, ReleaseCancel, disk
  <1>3. CASE StuckTick \/ WakeFromSleep \/ CapTick \/ Evict
    BY <1>3, AccountQuiet DEF StuckTick, WakeFromSleep, ReportStuck, CapTick, Evict, disk, history
  <1> QED
    BY <1>1, <1>2, <1>3 DEF Timers

LEMMA AccountHost ==
    ASSUME AccountInv, OrderInv, WordsInv, Host
    PROVE  AccountInv'
  <1>1. CASE Quit \/ Crash \/ CrashInTurnEnd
    BY <1>1, AccountForgotten DEF Quit, Crash, CrashInTurnEnd, HostStops, disk
  <1>2. CASE CrashWhileOpening
    <2>1. HeldWords = {} /\ HeldWords' = {}
      BY <1>2, RangeOfEmpty DEF CrashWhileOpening, HostStops, HeldBack, Free, HeldWords
    <2> QED
      BY <1>2, <2>1, AccountSaid DEF CrashWhileOpening
  <1>3. CASE CrashInCloseOut
    <2>1. /\ arriving = 0 /\ arriving' = 0 /\ queue' = <<>>
          /\ said' = said /\ submitted' = submitted
          /\ \/ dropped' = dropped \cup Range(queue) /\ forgotten' = forgotten
             \/ dropped' = dropped /\ forgotten' = forgotten \cup HeldWords
      BY <1>3 DEF CrashInCloseOut, HostStops, Free
    <2> QED
      BY <2>1, AccountDropped, AccountForgotten
  <1>4. CASE Boot
    BY <1>4, AccountQuiet DEF Boot, history
  <1> QED
    BY <1>1, <1>2, <1>3, <1>4 DEF Host

LEMMA AccountStep ==
    ASSUME AccountInv, OrderInv, WordsInv, [Next]_vars
    PROVE  AccountInv'
  <1>1. CASE Adapter
    BY <1>1, AccountQuiet DEF Adapter, AgentUpdates, AgentAsks, AgentReports, AgentEnds,
       AgentResponds, AgentDies, Writes, disk, history
  <1>2. CASE UNCHANGED vars
    BY <1>2, AccountQuiet DEF vars
  <1> QED
    BY <1>1, <1>2, AccountClient, AccountPump, AccountTimers, AccountHost DEF Next

LEMMA DisjointSize ==
    ASSUME NEW A, IsFiniteSet(A), NEW B, IsFiniteSet(B), A \cap B = {}
    PROVE  /\ IsFiniteSet(A \cup B)
           /\ Cardinality(A) \in Nat /\ Cardinality(B) \in Nat
           /\ Cardinality(A \cup B) = Cardinality(A) + Cardinality(B)
  <1>1. /\ IsFiniteSet(A \cup B)
        /\ Cardinality(A \cup B) = Cardinality(A) + Cardinality(B) - Cardinality(A \cap B)
    BY FS_Union, Zenon
  <1>2. Cardinality(A \cap B) = 0
    BY FS_EmptySet
  <1>3. Cardinality(A) \in Nat /\ Cardinality(B) \in Nat
    BY FS_CardinalityType
  <1> QED
    BY <1>1, <1>2, <1>3

\* The sizes of a partition add up.
LEMMA PartitionSize ==
    ASSUME NEW S, NEW H, NEW D, NEW F, NEW all, Partition(S, H, D, F, all), IsFiniteSet(all)
    PROVE  Cardinality(all) = Cardinality(S) + Cardinality(H) + Cardinality(D) + Cardinality(F)
  <1>1. IsFiniteSet(S) /\ IsFiniteSet(H) /\ IsFiniteSet(D) /\ IsFiniteSet(F)
    BY FS_Subset DEF Partition
  <1>2. /\ S \cap H = {} /\ (S \cup H) \cap D = {} /\ (S \cup H \cup D) \cap F = {}
        /\ S \cup H \cup D \cup F = all
    BY DEF Partition
  <1> DEFINE two   == S \cup H
             three == two \cup D
             four  == three \cup F
  <1>3. /\ IsFiniteSet(two) /\ Cardinality(two) = Cardinality(S) + Cardinality(H)
        /\ Cardinality(S) \in Nat /\ Cardinality(H) \in Nat
    BY <1>1, <1>2, DisjointSize
  <1>4. two \cap D = {} /\ three \cap F = {} /\ four = all
    BY <1>2
  <1> HIDE DEF two
  <1>5. /\ IsFiniteSet(three) /\ Cardinality(three) = Cardinality(two) + Cardinality(D)
        /\ Cardinality(D) \in Nat
    BY <1>1, <1>3, <1>4, DisjointSize
  <1> HIDE DEF three
  <1>6. Cardinality(four) = Cardinality(three) + Cardinality(F) /\ Cardinality(F) \in Nat
    BY <1>1, <1>4, <1>5, DisjointSize
  <1> HIDE DEF four
  <1>7. Cardinality(four)
            = Cardinality(S) + Cardinality(H) + Cardinality(D) + Cardinality(F)
    BY <1>3, <1>5, <1>6
  <1> QED
    BY <1>4, <1>7

LEMMA AccountImplies ==
    ASSUME AccountInv, OrderInv, WordsInv
    PROVE  PromptsAccounted
  <1>1. said \in Seq(Nat) /\ queue \in Seq(Nat) /\ Ascending(said) /\ Ascending(queue)
    BY SeqMonotonic, PromptsAreNumbers DEF WordsInv, OrderInv
  <1>2. /\ Cardinality(Range(said)) = Len(said)
        /\ IsFiniteSet(Range(queue)) /\ Cardinality(Range(queue)) = Len(queue)
    BY <1>1, RangeSize
  <1> DEFINE waiting == IF arriving = 0 THEN 0 ELSE 1
  <1>3. Cardinality(HeldWords) = Len(queue) + waiting
    <2>1. CASE arriving = 0
      <3>1. HeldWords = Range(queue)
        BY <2>1 DEF HeldWords
      <3> QED
        BY <1>2, <2>1, <3>1, WordsAreNumbers
    <2>2. CASE arriving # 0
      <3>1. HeldWords = Range(queue) \cup {arriving}
        BY <2>2 DEF HeldWords
      <3>2. Cardinality(Range(queue) \cup {arriving}) = Cardinality(Range(queue)) + 1
        BY <1>2, ArrivingApart, FS_AddElement
      <3> QED
        BY <1>2, <2>2, <3>1, <3>2
    <2> QED
      BY <2>1, <2>2
  <1>4. IsFiniteSet(1..submitted) /\ Cardinality(1..submitted) = submitted
    BY WordsAreNumbers, FS_Interval
  <1>5. submitted = Cardinality(Range(said)) + Cardinality(HeldWords)
                       + Cardinality(dropped) + Cardinality(forgotten)
    BY <1>4, PartitionSize DEF AccountInv
  <1>6. Cardinality(dropped) \in Nat /\ Cardinality(forgotten) \in Nat
    BY <1>4, FS_Subset, FS_CardinalityType DEF AccountInv, Partition
  <1>7. Range(said) \cup Range(queue) \cup dropped \cup forgotten \cup ({arriving} \ {0})
            = 1..submitted
    BY DEF AccountInv, Partition, HeldWords
  <1>8. Len(said) + Len(queue) + Cardinality(dropped) + Cardinality(forgotten) + waiting
            = submitted
    BY <1>2, <1>3, <1>5, <1>6, WordsAreNumbers
  <1> QED
    BY <1>7, <1>8 DEF PromptsAccounted

\* No accepted prompt vanishes while the host runs and none is sent twice: each
\* was said, is held, was dropped with a notice or died with a host, whatever
\* drains, drops, interrupts and crashes came in between (prompt_queue).
THEOREM Accounted == Spec => []PromptsAccounted
  <1>1. Init => AccountInv
    <2> SUFFICES ASSUME Init PROVE AccountInv
      OBVIOUS
    <2>1. /\ Range(said) = {} /\ HeldWords = {} /\ dropped = {} /\ forgotten = {}
          /\ 1..submitted = {}
      BY RangeOfEmpty DEF Init, HeldWords
    <2> QED
      BY <2>1 DEF AccountInv, Partition
  <1>2. AccountInv /\ OrderInv /\ WordsInv /\ [Next]_vars => AccountInv'
    BY AccountStep
  <1>3. AccountInv /\ OrderInv /\ WordsInv => PromptsAccounted
    BY AccountImplies
  <1> QED
    BY <1>1, <1>2, <1>3, OrderAlways, WordsAlways, PTL DEF Spec

-----------------------------------------------------------------------------
(* What follows is about an agent of the first protocol version: it says    *)
(* that a turn is over by responding to its prompt and by nothing else, and *)
(* reports no states.  A v2 agent can report that it waits on nobody's      *)
(* answer, or end a turn in which an ask is still open.                     *)

PlainEvents == {event \in SentEvents : event.type \notin {"state", "ended"}}

PlainInv == batch \in Seq(PlainEvents) /\ wire \in Seq(PlainEvents)

LEMMA PlainAppend ==
    ASSUME PlainInv, NEW event \in PlainEvents
    PROVE  Append(wire, event) \in Seq(PlainEvents)
  BY AppendProperties DEF PlainInv

LEMMA PlainStep ==
    ASSUME ~V2, PlainInv, PipeInv, [Next]_vars
    PROVE  PlainInv'
  <1> USE EmptySeq DEF PlainInv
  <1>1. CASE Client
    BY <1>1 DEF Client, PromptSend, PromptRefused, PromptWithoutFolder, PromptQueue,
       PromptInterrupt, FinishInterrupt, Cancel, Fold, Reopen, AnswerAsk, Reply, Resume,
       Archive, Delete, CloseOut, ResumeWithoutFolder, ResumeUnsupported, adapter
  <1>2. CASE Pump
    <2>1. CASE Route
      BY <2>1 DEF Route
    <2>2. ASSUME NEW type, Inbound(type)
          PROVE  batch' \in Seq(PlainEvents)
      BY <2>2, HeadTailProperties DEF Inbound
    <2>3. CASE HandleResult
      <3>1. wire' \in {wire, <<>>}
        BY <2>3 DEF HandleResult, Drain, NothingQueued, SendQueued, DropQueued
      <3> QED
        BY <2>2, <2>3, <3>1 DEF HandleResult
    <2> QED
      BY <1>2, <2>1, <2>2, <2>3 DEF Pump, HandleUpdate, HandleState, HandleEnded, HandleAsk,
         HandleClosed, AdapterGone, adapter
  <1>3. CASE Timers
    BY <1>3 DEF Timers, StuckTick, WakeFromSleep, ReportStuck, CapTick, Reap, AdapterGone,
       DrainStranded, SendQueued, DropQueued, DropOrphaned, ReleaseCancel, Evict, adapter
  <1>4. CASE Host
    BY <1>4 DEF Host, Quit, Crash, CrashWhileOpening, CrashInTurnEnd, CrashInCloseOut,
       HostStops, Boot, adapter
  <1>5. CASE Adapter
    <2>1. CASE AgentUpdates
      <3>1. ASSUME NEW note \in {"visible", "silent"}
            PROVE  Event("update", note) \in PlainEvents
        BY DEF Event, PlainEvents, SentEvents, Events, Notes
      <3> QED
        BY <2>1, <3>1, PlainAppend DEF AgentUpdates, Writes
    <2>2. CASE AgentAsks
      <3>1. ASSUME NEW kind \in AskKinds
            PROVE  Event("ask", kind) \in PlainEvents
        BY DEF Event, PlainEvents, SentEvents, Events, Notes
      <3> QED
        BY <2>2, <3>1, PlainAppend DEF AgentAsks, Writes
    <2>3. CASE AgentResponds
      <3>1. PICK i \in 1..Len(agent.turns), stop \in Stops :
                Writes([type |-> "result", run |-> agent.turns[i].run, note |-> stop])
        BY <2>3 DEF AgentResponds
      <3>2. agent.turns[i] \in Turns
        BY ElementOfSeq DEF PipeInv, Agents
      <3>3. [type |-> "result", run |-> agent.turns[i].run, note |-> stop] \in PlainEvents
        BY <3>2 DEF PlainEvents, SentEvents, Events, Notes, Turns
      <3> QED
        BY <3>1, <3>3, PlainAppend DEF Writes
    <2>4. CASE AgentDies
      <3>1. Event("closed", "none") \in PlainEvents
        BY DEF Event, PlainEvents, SentEvents, Events, Notes
      <3> QED
        BY <2>4, <3>1, PlainAppend DEF AgentDies
    <2> QED
      BY <1>5, <2>1, <2>2, <2>3, <2>4 DEF Adapter, AgentReports, AgentEnds
  <1>6. CASE UNCHANGED vars
    BY <1>6 DEF vars
  <1> QED
    BY <1>1, <1>2, <1>3, <1>4, <1>5, <1>6 DEF Next

LEMMA PlainAlways ==
    ASSUME ~V2
    PROVE  Spec => []PlainInv
  <1>1. Init => PlainInv
    BY EmptySeq DEF Init, PlainInv
  <1>2. PlainInv /\ PipeInv /\ [Next]_vars => PlainInv'
    BY PlainStep
  <1> QED
    BY <1>1, <1>2, PipeAlways, PTL DEF Spec

\* Neither a state nor the end of a turn without its response is handled.
LEMMA NoStates ==
    ASSUME PlainInv
    PROVE  ~HandleState /\ ~HandleEnded
  <1>1. ASSUME NEW type, Inbound(type) PROVE type \notin {"state", "ended"}
    <2>1. Head(batch) \in PlainEvents
      BY <1>1, HeadTailProperties DEF Inbound, PlainInv
    <2> QED
      BY <1>1, <2>1 DEF Inbound, PlainEvents
  <1> QED
    BY <1>1 DEF HandleState, HandleEnded

-----------------------------------------------------------------------------
(* Results.  A thread falls asleep over a finished run in one of two ways:  *)
(* the run ends and no card wakes it, or it is folded over a run that had   *)
(* ended.  The first is left open only where the adapter dies while it      *)
(* waits on the human, and then the run is lost, not failed, provided that  *)
(* an adapter that waits has a run that is blocked.                         *)

SleepInv ==
    /\ NoResultAsleep
    /\ HasOpen(runs) /\ proc.acp = "requires_action" => Newest(runs) # "running"

\* What the operations of the ledger make of a run that is open.
LEMMA RunMoves ==
    ASSUME NEW rs \in Seq(RunStates)
    PROVE  /\ HasOpen(PauseRun(rs)) => Newest(PauseRun(rs)) # "running"
           /\ ResumeRun(rs) # <<>> => rs # <<>> /\ Newest(ResumeRun(rs)) \in {"running", Newest(rs)}
           /\ HasOpen(rs) /\ Newest(rs) # "running" => Newest(LoseRun(rs)) = "lost"
           /\ ~HasOpen(rs) => LoseRun(rs) = rs
           /\ CloseRun(rs, "cancelled") # <<>> =>
                 rs # <<>> /\ Newest(CloseRun(rs, "cancelled")) \in {"cancelled", Newest(rs)}
  <1>1. {"running", "needs_you", "cancelled", "lost"} \subseteq RunStates
    BY DEF RunStates, Open, Terminal
  <1>2. CASE ~HasOpen(rs)
    BY <1>2 DEF Advance, ResumeRun, PauseRun, LoseRun, CloseRun
  <1>3. CASE HasOpen(rs)
    <2>1. rs # <<>> /\ Newest(rs) \in Open
      BY <1>3 DEF HasOpen
    <2>2. ASSUME NEW state \in {"running", "needs_you", "cancelled", "lost"}
          PROVE  Newest(MoveNewest(rs, state)) = state
      BY <1>1, <2>1, MoveNewestProps
    <2>3. Newest(rs) = "running" => PauseRun(rs) = MoveNewest(rs, "needs_you")
      BY <1>3, <2>1 DEF PauseRun, Advance, CanAdvance
    <2>4. Newest(rs) # "running" => PauseRun(rs) = rs
      BY <2>1 DEF PauseRun, Advance, CanAdvance, Open
    <2>5. Newest(rs) # "running" => LoseRun(rs) = MoveNewest(rs, "lost")
      BY <1>3, <2>1 DEF LoseRun, Advance, CanAdvance, Open, Terminal
    <2> QED
      BY <1>3, <2>1, <2>2, <2>3, <2>4, <2>5 DEF ResumeRun, CloseRun, Advance
  <1> QED
    BY <1>2, <1>3

\* A thread that a card was written for is awake, or gone.
LEMMA CardWakes ==
    ASSUME NEW t \in ThreadRows, NEW reason
    PROVE  Resurface(t, reason).state = "folded" => Resurface(t, reason).deleted
  BY OnlyAwake, CardKeepsDeleted

\* Nobody touched the run: the thread is as it was, or not asleep.
LEMMA SleepQuiet ==
    ASSUME SleepInv, runs' = runs,
           thread'.state = "folded" /\ ~thread'.deleted =>
               thread.state = "folded" /\ ~thread.deleted,
           proc'.acp = "requires_action" => proc.acp = "requires_action"
    PROVE  SleepInv'
  BY DEF SleepInv, NoResultAsleep, HasOpen, Newest

\* A run begins: that is no result.
LEMMA SleepBegun ==
    ASSUME NEW rs \in Seq(RunStates), runs' = OpenRun(rs), proc' = Working
    PROVE  SleepInv'
  <1>1. Newest(runs') = "running" /\ proc'.acp = "running"
    BY OpenedRuns DEF Working
  <1> QED
    BY <1>1 DEF SleepInv, NoResultAsleep, HasOpen, Newest

\* A card was written, and the axis does not say the adapter waits.
LEMMA SleepWoken ==
    ASSUME ThreadInv, NEW reason, thread' = Resurface(thread, reason),
           proc'.acp # "requires_action"
    PROVE  SleepInv'
  BY CardWakes DEF SleepInv, NoResultAsleep, ThreadInv

LEMMA SleepFolded ==
    ASSUME SleepInv, ThreadInv, Fold
    PROVE  SleepInv'
  <1>1. PICK policy \in Policies :
            thread' = Settled(MoveTo([thread EXCEPT !.policy = policy], "folded"))
    BY DEF Fold
  <1> DEFINE asleep == MoveTo([thread EXCEPT !.policy = policy], "folded")
  <1>2. asleep \in ThreadRows
    BY SessionAssumption DEF Fold, MoveTo, ThreadRows, ThreadStates, ThreadInv
  <1> HIDE DEF asleep
  <1>3. thread' = Settled(asleep) /\ runs' = runs /\ proc' = proc
    BY <1>1 DEF Fold, asleep
  <1>4. thread'.state = "folded" /\ ~thread'.deleted /\ runs # <<>> =>
            Newest(runs) \notin {"succeeded", "failed", "timed_out"}
    BY <1>2, <1>3, CardWakes DEF Settled
  <1> QED
    BY <1>3, <1>4 DEF SleepInv, NoResultAsleep, HasOpen, Newest

LEMMA SleepClient ==
    ASSUME SleepInv, ThreadInv, ProcInv, LedgerInv, Client
    PROVE  SleepInv'
  <1> USE DEF ThreadInv
  <1>1. CASE PromptSend
    BY <1>1, SleepBegun DEF PromptSend, LedgerInv
  <1>2. CASE PromptRefused
    <2>1. proc'.acp = "requires_action" => proc.acp = "requires_action"
      BY <1>2 DEF PromptRefused, Attached, ProcInv, Procs
    <2> QED
      BY <1>2, <2>1, SleepQuiet DEF PromptRefused, disk
  <1>3. CASE PromptWithoutFolder \/ ResumeWithoutFolder
    BY <1>3, SleepQuiet, OnlyAwake, CardKeepsDeleted DEF PromptWithoutFolder, ResumeWithoutFolder
  <1>4. CASE PromptQueue \/ PromptInterrupt \/ FinishInterrupt \/ Cancel
    BY <1>4, SleepQuiet DEF PromptQueue, PromptInterrupt, FinishInterrupt, Cancel, disk
  <1>5. CASE Reopen
    BY <1>5, SleepQuiet DEF Reopen, ReadAll, MoveTo, ThreadRows
  <1>6. CASE Archive \/ Delete
    <2>1. thread'.state # "folded" \/ thread'.deleted
      BY <1>6 DEF Archive, Delete, CloseOut, ReadAll, ClosedRow, MoveTo, ThreadRows
    <2>2. proc'.acp = "unknown"
      BY <1>6 DEF Archive, Delete, CloseOut, NoProc
    <2> QED
      BY <2>1, <2>2 DEF SleepInv, NoResultAsleep
  <1>7. CASE Resume \/ ResumeUnsupported
    <2>1. proc'.acp # "requires_action"
      BY <1>7 DEF Resume, ResumeUnsupported, Attached, Detached, ProcInv, Procs
    <2> QED
      BY <1>7, <2>1, SleepQuiet DEF Resume, ResumeUnsupported, disk
  <1>8. CASE AnswerAsk
    <2>1. PICK ask \in 1..Len(asks), answer \in {"answered", "cancelled"},
               delivered \in BOOLEAN : Reply(ask, answer, delivered)
      BY <1>8 DEF AnswerAsk
    <2>2. thread'.state = thread.state /\ thread'.deleted = thread.deleted
      BY <2>1, OnlyAwake DEF Reply
    <2>3. CASE ~delivered
      BY <2>1, <2>2, <2>3, SleepQuiet DEF Reply
    <2>4. CASE delivered
      <3>1. proc'.acp # "requires_action"
        BY <2>1, <2>4 DEF Reply, Touched, ProcInv, Procs
      <3>2. runs' # <<>> => runs # <<>> /\ Newest(runs') \in {"running", Newest(runs)}
        BY <2>1, RunMoves DEF Reply, LedgerInv
      <3> QED
        BY <2>2, <3>1, <3>2 DEF SleepInv, NoResultAsleep, Newest
    <2> QED
      BY <2>3, <2>4
  <1> QED
    BY <1>1, <1>2, <1>3, <1>4, <1>5, <1>6, <1>7, <1>8, SleepFolded DEF Client

\* An adapter that goes: the thread comes back, unless there was no work, or the
\* work was waiting on the human.
LEMMA SleepGone ==
    ASSUME SleepInv, ThreadInv, ProcInv, LedgerInv, AdapterGone
    PROVE  SleepInv'
  <1>1. proc'.acp = "unknown"
    BY DEF AdapterGone, ProcInv, Procs
  <1>2. CASE thread' = Resurface(thread, "failed")
    BY <1>1, <1>2, SleepWoken
  <1>3. CASE /\ thread' = thread /\ runs' = LoseRun(runs)
             /\ ~HasOpen(runs) \/ proc.acp = "requires_action"
    <2>1. CASE ~HasOpen(runs)
      BY <1>1, <1>3, <2>1, RunMoves, SleepQuiet DEF LedgerInv
    <2>2. CASE HasOpen(runs)
      <3>1. Newest(runs') = "lost"
        BY <1>3, <2>2, RunMoves DEF LedgerInv, SleepInv
      <3> QED
        BY <1>1, <3>1 DEF SleepInv, NoResultAsleep, Newest
    <2> QED
      BY <2>1, <2>2
  <1> QED
    BY <1>2, <1>3 DEF AdapterGone

LEMMA SleepPump ==
    ASSUME SleepInv, ThreadInv, ProcInv, LedgerInv, PlainInv, Pump
    PROVE  SleepInv'
  <1> USE DEF ThreadInv
  <1>1. CASE Route
    BY <1>1, SleepQuiet DEF Route, disk
  <1>2. CASE HandleUpdate
    <2>1. proc'.acp = "requires_action" => proc.acp = "requires_action"
      BY <1>2 DEF HandleUpdate, Touched, ProcInv, Procs
    <2> QED
      BY <1>2, <2>1, SleepQuiet DEF HandleUpdate, disk
  <1>3. CASE HandleResult
    <2> DEFINE stop == StopOf(Head(batch).note)
               closed == CloseRun(runs, RunTarget(stop))
    <2>1. closed \in Seq(RunStates)
      BY CloseSettles, RunTargets DEF LedgerInv
    <2>2. thread' = CardForStop(thread, stop, {})
      BY <1>3 DEF HandleResult
    <2>3. \/ runs' = closed /\ proc' = TurnOver(proc)
          \/ runs' = OpenRun(closed) /\ proc' = Working
      BY <1>3 DEF HandleResult, Drain, NothingQueued, SendQueued, DropQueued
    <2>4. TurnOver(proc).acp = "idle"
      BY DEF TurnOver, ProcInv, Procs
    <2> HIDE DEF stop
    <2>5. CASE runs' = closed /\ proc' = TurnOver(proc) /\ stop # "cancelled"
      <3>1. \E reason : thread' = Resurface(thread, reason)
        BY <2>2, <2>5 DEF CardForStop
      <3> QED
        BY <2>4, <2>5, <3>1, SleepWoken
    <2>6. CASE runs' = closed /\ proc' = TurnOver(proc) /\ stop = "cancelled"
      <3>1. thread' = thread
        BY <2>2, <2>6 DEF CardForStop
      <3>2. runs' # <<>> => runs # <<>> /\ Newest(runs') \in {"cancelled", Newest(runs)}
        BY <2>6, RunMoves DEF LedgerInv, RunTarget
      <3> QED
        BY <2>4, <2>6, <3>1, <3>2 DEF SleepInv, NoResultAsleep, Newest
    <2> HIDE DEF closed
    <2>7. CASE runs' = OpenRun(closed) /\ proc' = Working
      BY <2>1, <2>7, SleepBegun
    <2> QED
      BY <2>3, <2>5, <2>6, <2>7
  <1>4. CASE HandleAsk
    <2>1. CASE UNCHANGED <<thread, runs, proc, live>>
      BY <2>1, SleepQuiet
    <2>2. CASE runs' = PauseRun(runs) /\ thread' = Resurface(thread, "needs_you")
      <3>1. HasOpen(runs') => Newest(runs') # "running"
        BY <2>2, RunMoves DEF LedgerInv
      <3>2. thread'.state = "folded" => thread'.deleted
        BY <2>2, CardWakes
      <3> QED
        BY <3>1, <3>2 DEF SleepInv, NoResultAsleep, HasOpen, Newest
    <2> QED
      BY <1>4, <2>1, <2>2 DEF HandleAsk
  <1>5. CASE HandleClosed
    BY <1>5, SleepGone DEF HandleClosed
  <1> QED
    BY <1>1, <1>2, <1>3, <1>4, <1>5, NoStates DEF Pump

LEMMA SleepTimers ==
    ASSUME SleepInv, ThreadInv, ProcInv, LedgerInv, Timers
    PROVE  SleepInv'
  <1> USE DEF ThreadInv
  <1>1. CASE StuckTick \/ WakeFromSleep
    <2>1. ReportStuck
      BY <1>1 DEF StuckTick, WakeFromSleep
    <2>2. proc'.acp = proc.acp
      BY <2>1 DEF ReportStuck, ProcInv, Procs
    <2> QED
      BY <2>1, <2>2, SleepQuiet, OnlyAwake, CardKeepsDeleted DEF ReportStuck
  <1>2. CASE CapTick
    <2>1. proc'.acp = "unknown"
      BY <1>2 DEF CapTick, Detached, ProcInv, Procs
    <2> QED
      BY <1>2, <2>1, SleepWoken DEF CapTick
  <1>3. CASE Reap
    BY <1>3, SleepGone DEF Reap
  <1>4. CASE DrainStranded
    <2>1. CASE SendQueued(runs, proc)
      BY <2>1, SleepBegun DEF SendQueued, LedgerInv
    <2>2. CASE DropQueued(runs, proc)
      BY <1>4, <2>2, SleepQuiet DEF DrainStranded, DropQueued
    <2> QED
      BY <1>4, <2>1, <2>2 DEF DrainStranded
  <1>5. CASE DropOrphaned \/ ReleaseCancel
    BY <1>5, SleepQuiet DEF DropOrphaned, ReleaseCancel, disk
  <1>6. CASE Evict
    <2>1. proc'.acp = "unknown"
      BY <1>6 DEF Evict, Detached, ProcInv, Procs
    <2> QED
      BY <1>6, <2>1, SleepQuiet DEF Evict, disk
  <1> QED
    BY <1>1, <1>2, <1>3, <1>4, <1>5, <1>6 DEF Timers

\* The boot pass loses the run it finds open, and loses no other.
LEMMA SleepBoot ==
    ASSUME SleepInv, ThreadInv, LedgerInv, Boot
    PROVE  SleepInv'
  <1>1. proc' = proc
    BY DEF Boot
  <1>2. CASE thread.deleted
    BY <1>1, <1>2, SleepQuiet DEF Boot
  <1>3. CASE ~thread.deleted
    <2>1. runs' = LoseAllOpen(runs) /\ thread' \in Announced(thread)
      BY <1>3 DEF Boot
    <2>2. thread'.state = "folded" => thread.state = "folded"
      <3>1. \A reason, t : t \in Restatements(thread, reason) => t.state = thread.state
        BY DEF Restatements, ThreadInv, ThreadRows
      <3>2. \/ thread' = thread
            \/ \E reason : thread' = Resurface(thread, reason)
            \/ \E reason : thread' \in Restatements(thread, reason)
        BY <2>1 DEF Announced
      <3> QED
        BY <3>1, <3>2, OnlyAwake DEF ThreadInv
    <2>3. runs' # <<>> => runs # <<>> /\ Newest(runs') \in {"lost", Newest(runs)}
      <3>1. Len(runs) \in Nat
        BY LenProperties DEF LedgerInv
      <3>2. runs' = [i \in 1..Len(runs) |-> IF runs[i] \in Open THEN "lost" ELSE runs[i]]
        BY <2>1 DEF LoseAllOpen
      <3>3. \A i \in 1..Len(runs) : runs[i] \in RunStates
        BY ElementOfSeq DEF LedgerInv
      <3>4. runs' \in [1..Len(runs) -> RunStates]
        BY <3>2, <3>3 DEF RunStates, Terminal
      <3>5. runs' \in Seq(RunStates) /\ Len(runs') = Len(runs)
        <4>1. runs' \in Seq(RunStates)
          BY <3>1, <3>4, SeqDef
        <4> QED
          BY <3>1, <3>4, <4>1, LenProperties
      <3>6. runs' # <<>> => Len(runs) \in 1..Len(runs)
        BY <3>5, EmptySeq
      <3>7. runs' # <<>> => runs # <<>>
        BY <3>1, <3>6, EmptySeq
      <3> QED
        BY <3>2, <3>5, <3>6, <3>7 DEF Newest
    <2>4. ~HasOpen(runs')
      BY <2>1, NoneOpenAfterBoot DEF LedgerInv
    <2> QED
      BY <1>3, <2>2, <2>3, <2>4 DEF SleepInv, NoResultAsleep, HasOpen, Newest
  <1> QED
    BY <1>2, <1>3

LEMMA SleepStep ==
    ASSUME ~MidCrash, SleepInv, ThreadInv, ProcInv, LedgerInv, PlainInv, [Next]_vars
    PROVE  SleepInv'
  <1>1. CASE Host
    <2>1. CASE Quit \/ Crash
      <3>1. proc'.acp = "unknown"
        BY <2>1 DEF Quit, Crash, HostStops, NoProc
      <3> QED
        BY <2>1, <3>1, SleepQuiet DEF Quit, Crash, disk
    <2> QED
      BY <1>1, <2>1, SleepBoot DEF Host, CrashWhileOpening, CrashInTurnEnd, CrashInCloseOut
  <1>2. CASE Adapter
    BY <1>2, SleepQuiet DEF Adapter, AgentUpdates, AgentAsks, AgentReports, AgentEnds,
       AgentResponds, AgentDies, Writes, disk
  <1>3. CASE UNCHANGED vars
    BY <1>3, SleepQuiet DEF vars
  <1> QED
    BY <1>1, <1>2, <1>3, SleepClient, SleepPump, SleepTimers DEF Next

\* No thread sleeps over a run that ended by itself, over any number of prompts,
\* asks, cancels, deaths and restarts, as long as no handler is cut in two: every
\* end of a run wakes the thread, and a fold over a finished run does not last.
THEOREM ResultsWake ==
    ASSUME ~V2, ~MidCrash
    PROVE  Spec => []NoResultAsleep
  <1>1. Init => SleepInv
    BY DEF Init, SleepInv, NoResultAsleep, HasOpen
  <1>2. SleepInv /\ ThreadInv /\ ProcInv /\ LedgerInv /\ PlainInv /\ [Next]_vars => SleepInv'
    BY SleepStep
  <1>3. SleepInv => NoResultAsleep
    BY DEF SleepInv
  <1> QED
    BY <1>1, <1>2, <1>3, ThreadAlways, ProcAlways, LedgerAlways, PlainAlways, PTL DEF Spec

-----------------------------------------------------------------------------
(* Asks and their adapter.  Of an agent that speaks within its turns only,  *)
(* whatever it has been given or has to say for itself belongs to the run   *)
(* that is open: the turn it works on, an ask or a response on its way, an  *)
(* ask it waits on.  A response is the last it says before it closes.  So a *)
(* prompt that is refused, which forgets the adapter and leaves the asks    *)
(* alone, never finds one.                                                  *)

Carries(s) == \E i \in 1..Len(s) : s[i].type \in {"ask", "result"}
Responds(s) == \E i \in 1..Len(s) : s[i].type = "result"
Closes(s) == \E i \in 1..Len(s) : s[i].type = "closed"

\* Nothing follows the end of file, and only the end of file follows a response.
Orderly(s) ==
    \A i, j \in 1..Len(s) : i < j =>
        s[i].type # "closed" /\ (s[i].type = "result" => s[j].type = "closed")

LineInv ==
    /\ up \/ (~attached /\ batch = <<>>)
    /\ attached \/ (wire = <<>> /\ agent = NoAgent)
    /\ batch = <<>> \/ wire = <<>>
    /\ Orderly(batch) /\ Orderly(wire)
    /\ Len(agent.turns) <= 1
    /\ agent.turns # <<>> => ~Responds(batch) /\ ~Responds(wire)
    /\ agent.alive => ~Closes(wire)
    /\ live # {} \/ agent.turns # <<>> \/ Carries(batch) \/ Carries(wire) =>
          attached /\ HasOpen(runs)

\* The first event leaves the pipe.
LEMMA LineTail ==
    ASSUME NEW s \in Seq(PlainEvents), s # <<>>, Orderly(s)
    PROVE  /\ Orderly(Tail(s))
           /\ Carries(Tail(s)) => Carries(s)
           /\ Responds(Tail(s)) => Responds(s)
           /\ Head(s).type = "result" => Carries(s) /\ Responds(s)
           /\ Head(s).type = "ask" => Carries(s)
           /\ Head(s).type \in {"result", "closed"} => ~Carries(Tail(s)) /\ ~Responds(Tail(s))
  <1>1. Len(s) \in Nat \ {0} /\ Head(s) = s[1]
    BY EmptySeq, LenProperties
  <1>2. Len(Tail(s)) = Len(s) - 1 /\ \A i \in 1..Len(Tail(s)) : Tail(s)[i] = s[i + 1]
    BY HeadTailProperties
  <1> DEFINE rest == Tail(s)
  <1> HIDE DEF rest
  <1>3. /\ 1 \in 1..Len(s)
        /\ \A i \in 1..Len(rest) : i + 1 \in 1..Len(s) /\ 1 < i + 1 /\ rest[i] = s[i + 1]
        /\ \A i, j \in 1..Len(rest) : i < j => i + 1 < j + 1
    BY <1>1, <1>2 DEF rest
  <1>4. Orderly(rest)
    BY <1>3 DEF Orderly
  <1>5. /\ Carries(rest) => Carries(s)
        /\ Responds(rest) => Responds(s)
    BY <1>3 DEF Carries, Responds
  <1>6. /\ s[1].type = "result" => Carries(s) /\ Responds(s)
        /\ s[1].type = "ask" => Carries(s)
    BY <1>3 DEF Carries, Responds
  <1>7. s[1].type \in {"result", "closed"} => \A i \in 1..Len(rest) : rest[i].type = "closed"
    BY <1>3 DEF Orderly
  <1>8. s[1].type \in {"result", "closed"} => ~Carries(rest) /\ ~Responds(rest)
    BY <1>7 DEF Carries, Responds
  <1> QED
    BY <1>1, <1>4, <1>5, <1>6, <1>8 DEF rest

\* An event joins it.
LEMMA LineAppend ==
    ASSUME NEW s \in Seq(PlainEvents), NEW event \in PlainEvents, Orderly(s), ~Closes(s),
           Responds(s) => event.type = "closed"
    PROVE  /\ Orderly(Append(s, event))
           /\ Carries(Append(s, event)) => Carries(s) \/ event.type \in {"ask", "result"}
           /\ Responds(Append(s, event)) => Responds(s) \/ event.type = "result"
           /\ Closes(Append(s, event)) => event.type = "closed"
  <1> DEFINE longer == Append(s, event)
  <1>1. /\ Len(s) \in Nat /\ Len(longer) = Len(s) + 1 /\ longer[Len(s) + 1] = event
        /\ \A i \in 1..Len(s) : longer[i] = s[i]
    BY AppendProperties, LenProperties
  <1> HIDE DEF longer
  <1>2. /\ \A i \in 1..Len(longer) :
              (i \in 1..Len(s) /\ longer[i] = s[i]) \/ (i = Len(s) + 1 /\ longer[i] = event)
        /\ \A i, j \in 1..Len(longer) : i < j => i \in 1..Len(s)
    BY <1>1
  <1>3. Orderly(longer)
    <2> SUFFICES ASSUME NEW i \in 1..Len(longer), NEW j \in 1..Len(longer), i < j
                 PROVE  /\ longer[i].type # "closed"
                        /\ longer[i].type = "result" => longer[j].type = "closed"
      BY DEF Orderly
    <2>1. i \in 1..Len(s) /\ longer[i] = s[i]
      BY <1>1, <1>2
    <2>2. longer[i].type # "closed"
      BY <2>1 DEF Closes
    <2>3. ASSUME longer[i].type = "result" PROVE longer[j].type = "closed"
      <3>1. Responds(s)
        BY <2>1, <2>3 DEF Responds
      <3> QED
        BY <1>2, <2>1, <2>3, <3>1 DEF Orderly
    <2> QED
      BY <2>2, <2>3
  <1> QED
    BY <1>2, <1>3 DEF longer, Carries, Responds, Closes

\* An empty pipe.
LEMMA LineEmpty ==
    ~Carries(<<>>) /\ ~Responds(<<>>) /\ ~Closes(<<>>) /\ Orderly(<<>>)
  BY EmptySeq DEF Carries, Responds, Closes, Orderly

\* An open run stays open when it is answered or asked about.
LEMMA StaysOpen ==
    ASSUME NEW rs \in Seq(RunStates), HasOpen(rs)
    PROVE  HasOpen(ResumeRun(rs)) /\ HasOpen(PauseRun(rs))
  <1>1. rs # <<>> /\ Newest(rs) \in Open /\ {"running", "needs_you"} \subseteq RunStates
    BY DEF HasOpen, RunStates, Open
  <1>2. ASSUME NEW state \in {"running", "needs_you"}
        PROVE  HasOpen(MoveNewest(rs, state))
    BY <1>1, MoveNewestProps DEF HasOpen, Open
  <1> QED
    BY <1>2 DEF ResumeRun, PauseRun, Advance

\* A run just begun is open.
LEMMA OpensRun ==
    ASSUME NEW rs \in Seq(RunStates)
    PROVE  HasOpen(OpenRun(rs))
  <1>1. OpenRun(rs) # <<>>
    <2>1. {"running", "lost"} \subseteq RunStates
      BY DEF RunStates, Open, Terminal
    <2>2. (IF HasOpen(rs) THEN MoveNewest(rs, "lost") ELSE rs) \in Seq(RunStates)
      BY <2>1, MoveNewestProps DEF HasOpen
    <2> QED
      BY <2>1, <2>2, OpenIsAppend, AppendProps
  <1> QED
    BY <1>1, OpenedRuns DEF HasOpen, Open

\* Nothing happens in the pipe, and an open run stays open.
LEMMA LineQuiet ==
    ASSUME LineInv, UNCHANGED <<up, attached, batch, wire, agent>>, live' \subseteq live,
           HasOpen(runs) => HasOpen(runs')
    PROVE  LineInv'
  BY DEF LineInv, Orderly, Carries, Responds, Closes, HasOpen, Newest

\* The adapter goes, and what is left of the batch is its end of file.
LEMMA LineCut ==
    ASSUME ~attached', agent' = NoAgent, wire' = <<>>, live' = {},
           Orderly(batch'), ~Carries(batch'), up' \/ batch' = <<>>
    PROVE  LineInv'
  <1>1. NoAgent.turns = <<>> /\ Len(<<>>) = 0 /\ ~NoAgent.alive
    BY EmptySeq DEF NoAgent
  <1>2. Orderly(wire') /\ ~Carries(wire')
    BY LineEmpty
  <1> QED
    BY <1>1, <1>2 DEF LineInv, Orderly, Carries, Closes

\* An adapter is given its first turn, and nothing it said before matters now.
LEMMA LineGiven ==
    ASSUME up', attached', HasOpen(runs'), NEW a \in Agents, NEW run, agent' = Given(a, run),
           a.turns = <<>>, Orderly(batch'), Orderly(wire'), batch' = <<>> \/ wire' = <<>>,
           ~Responds(batch'), ~Responds(wire'), a.alive => ~Closes(wire')
    PROVE  LineInv'
  <1> DEFINE turn == [run |-> run, over |-> FALSE]
  <1>1. Len(Append(<<>>, turn)) = 1 /\ Len(<<>>) = 0
    BY EmptySeq, AppendProperties
  <1>2. agent'.alive = a.alive /\ agent'.turns \in {<<>>, Append(<<>>, turn)}
    BY DEF Given, Agents
  <1>3. Len(agent'.turns) = 0 \/ Len(agent'.turns) = 1
    BY <1>1, <1>2, Zenon
  <1>4. Len(agent'.turns) <= 1
    <2>1. \A n : n = 0 \/ n = 1 => n <= 1
      OBVIOUS
    <2> QED
      BY <1>3, <2>1, Zenon
  <1> QED
    BY <1>2, <1>4 DEF LineInv, Orderly, Responds, Closes

LEMMA LineClient ==
    ASSUME LineInv, PipeInv, LedgerInv, Client
    PROVE  LineInv'
  <1> USE LineEmpty DEF PipeInv, LedgerInv
  <1>1. up /\ batch = <<>>
    BY DEF Client, PromptSend, PromptRefused, PromptWithoutFolder, PromptQueue,
       PromptInterrupt, FinishInterrupt, Cancel, Fold, Reopen, AnswerAsk, Reply, Resume,
       Archive, Delete, CloseOut, ResumeWithoutFolder, ResumeUnsupported, Free, Idle
  <1>2. \/ attached /\ HasOpen(runs)
        \/ ~Carries(wire) /\ agent.turns = <<>> /\ live = {}
    <2>1. live # {} \/ agent.turns # <<>> \/ Carries(wire) => attached /\ HasOpen(runs)
      BY DEF LineInv
    <2> QED
      BY <2>1, Zenon
  <1>3. ~Carries(wire) => ~Responds(wire)
    BY DEF Carries, Responds
  <1>4. CASE PromptSend
    <2> DEFINE a == IF attached THEN agent ELSE FreshAgent
    <2>1. ~Carries(wire) /\ agent.turns = <<>>
      BY <1>2, <1>4 DEF PromptSend, HeldBack, InFlight
    <2>2. a \in Agents /\ a.turns = <<>> /\ (a.alive => ~Closes(wire))
      BY <2>1, NoAgentType DEF LineInv, FreshAgent
    <2> HIDE DEF a
    <2>3. agent' = Given(a, Len(runs) + 1) /\ up' = up /\ attached' = TRUE
      BY <1>4 DEF PromptSend, a
    <2>4. runs' = OpenRun(runs) /\ wire' = wire /\ batch' = batch
      BY <1>4 DEF PromptSend
    <2> QED
      BY <1>1, <1>3, <2>1, <2>2, <2>3, <2>4, OpensRun, LineGiven DEF LineInv
  <1>5. CASE PromptRefused
    <2>1. live = {}
      BY <1>2, <1>5 DEF PromptRefused, HeldBack, InFlight
    <2> QED
      BY <1>1, <1>5, <2>1, LineCut DEF PromptRefused
  <1>6. CASE \/ PromptWithoutFolder \/ PromptQueue \/ PromptInterrupt \/ FinishInterrupt
             \/ Cancel \/ Fold \/ Reopen \/ ResumeWithoutFolder \/ ResumeUnsupported
    BY <1>6, LineQuiet DEF PromptWithoutFolder, PromptQueue, PromptInterrupt, FinishInterrupt,
       Cancel, Fold, Reopen, ResumeWithoutFolder, ResumeUnsupported, disk, adapter
  <1>7. CASE AnswerAsk
    <2>1. /\ UNCHANGED <<up, attached, batch, wire, agent>> /\ live' \subseteq live
          /\ runs' \in {runs, ResumeRun(runs)}
      BY <1>7 DEF AnswerAsk, Reply, adapter
    <2> QED
      BY <2>1, StaysOpen, LineQuiet
  <1>8. CASE Archive \/ Delete
    BY <1>1, <1>8, LineCut DEF Archive, Delete, CloseOut
  <1>9. CASE Resume
    <2>1. /\ up' = up /\ attached' = TRUE /\ agent' = FreshAgent
          /\ batch' = <<>> /\ wire' = <<>> /\ live' = {}
      BY <1>1, <1>2, <1>9 DEF Resume, LineInv
    <2>2. FreshAgent.turns = <<>> /\ Len(<<>>) = 0
      BY EmptySeq DEF FreshAgent
    <2> QED
      BY <1>1, <2>1, <2>2 DEF LineInv
  <1> QED
    BY <1>4, <1>5, <1>6, <1>7, <1>8, <1>9 DEF Client

LEMMA LinePump ==
    ASSUME LineInv, PipeInv, PlainInv, LedgerInv, Pump
    PROVE  LineInv'
  <1> USE LineEmpty DEF PipeInv, LedgerInv
  <1>1. CASE Route
    BY <1>1 DEF Route, LineInv, Idle, Orderly, Carries, Responds, Closes, disk
  <1>2. ASSUME NEW type, Inbound(type)
        PROVE  /\ up /\ up' = up /\ batch # <<>> /\ wire = <<>>
               /\ batch' = Tail(batch) /\ Head(batch).type = type
               /\ Orderly(batch')
               /\ Carries(batch') => Carries(batch)
               /\ Responds(batch') => Responds(batch)
               /\ type = "result" => Carries(batch) /\ Responds(batch)
               /\ type = "ask" => Carries(batch)
               /\ type \in {"result", "closed"} => ~Carries(batch') /\ ~Responds(batch')
    <2>1. batch \in Seq(PlainEvents) /\ batch # <<>> /\ Orderly(batch) /\ batch' = Tail(batch)
      BY <1>2 DEF PlainInv, LineInv, Inbound
    <2> QED
      BY <1>2, <2>1, LineTail DEF Inbound, LineInv
  <1>3. CASE HandleUpdate \/ HandleAsk
    <2>1. PICK type \in {"update", "ask"} : Inbound(type) /\ (type = "update" => HandleUpdate)
      BY <1>3 DEF HandleUpdate, HandleAsk
    <2>2. /\ UNCHANGED <<attached, wire, agent>> /\ runs' \in {runs, PauseRun(runs)}
          /\ live' # {} => live # {} \/ type = "ask"
      BY <1>3, <2>1 DEF HandleUpdate, HandleAsk, disk, adapter
    <2>3. HasOpen(runs) => HasOpen(runs')
      BY <2>2, StaysOpen
    <2> QED
      BY <1>2, <2>1, <2>2, <2>3 DEF LineInv, Orderly, Carries, Responds, Closes
  <1>4. CASE HandleResult
    <2> DEFINE closed == CloseRun(runs, RunTarget(StopOf(Head(batch).note)))
    <2>1. Inbound("result") /\ live' = {} /\ Drain(closed, TurnOver(proc))
      BY <1>4 DEF HandleResult
    <2>2. /\ up /\ up' = up /\ batch # <<>> /\ wire = <<>> /\ Orderly(batch')
          /\ Carries(batch) /\ Responds(batch) /\ ~Carries(batch') /\ ~Responds(batch')
      BY <1>2, <2>1
    <2>3. closed \in Seq(RunStates)
      BY CloseSettles, RunTargets
    <2> HIDE DEF closed
    <2>4. attached /\ agent.turns = <<>>
      BY <2>2 DEF LineInv
    <2>5. CASE NothingQueued(closed, TurnOver(proc))
      BY <2>1, <2>2, <2>4, <2>5 DEF NothingQueued, LineInv, Orderly, Carries, Responds, Closes
    <2>6. CASE SendQueued(closed, TurnOver(proc))
      <3>1. /\ attached' = attached /\ wire' = wire
            /\ agent' = Given(agent, Len(closed) + 1) /\ runs' = OpenRun(closed)
        BY <2>6 DEF SendQueued
      <3> QED
        BY <2>2, <2>3, <2>4, <3>1, OpensRun, LineGiven
    <2>7. CASE DropQueued(closed, TurnOver(proc))
      BY <2>1, <2>2, <2>7, LineCut DEF DropQueued
    <2> QED
      BY <2>1, <2>5, <2>6, <2>7 DEF Drain
  <1>5. CASE HandleClosed
    <2>1. /\ up /\ up' = up /\ Orderly(batch') /\ ~Carries(batch')
      BY <1>2, <1>5 DEF HandleClosed
    <2> QED
      BY <1>5, <2>1, LineCut DEF HandleClosed, AdapterGone
  <1> QED
    BY <1>1, <1>3, <1>4, <1>5, NoStates DEF Pump

LEMMA LineTimers ==
    ASSUME LineInv, PipeInv, LedgerInv, Timers
    PROVE  LineInv'
  <1> USE LineEmpty DEF PipeInv, LedgerInv
  <1>1. CASE StuckTick \/ WakeFromSleep \/ DropOrphaned \/ ReleaseCancel
    BY <1>1, LineQuiet DEF StuckTick, WakeFromSleep, ReportStuck, DropOrphaned, ReleaseCancel,
       disk, adapter
  <1>2. CASE CapTick \/ Reap \/ Evict
    <2>1. batch = <<>>
      BY <1>2 DEF CapTick, Reap, Evict, Idle
    <2> QED
      BY <1>2, <2>1, LineCut DEF CapTick, Reap, Evict, AdapterGone
  <1>3. CASE DrainStranded
    <2>1. /\ up /\ batch = <<>> /\ attached /\ live = {} /\ ~HasOpen(runs)
          /\ up' = up /\ batch' = batch /\ live' = live
      BY <1>3 DEF DrainStranded, Idle, Stranded
    <2>2. ~Carries(wire) /\ agent.turns = <<>> /\ ~Responds(wire)
      BY <2>1 DEF LineInv, Carries, Responds
    <2>3. CASE SendQueued(runs, proc)
      <3>1. /\ attached' = attached /\ wire' = wire
            /\ agent' = Given(agent, Len(runs) + 1) /\ runs' = OpenRun(runs)
        BY <2>3 DEF SendQueued
      <3>2. Orderly(wire) /\ (agent.alive => ~Closes(wire))
        BY DEF LineInv
      <3> QED
        BY <2>1, <2>2, <3>1, <3>2, OpensRun, LineGiven
    <2>4. CASE DropQueued(runs, proc)
      BY <2>1, <2>4, LineCut DEF DropQueued
    <2> QED
      BY <1>3, <2>3, <2>4 DEF DrainStranded
  <1> QED
    BY <1>1, <1>2, <1>3 DEF Timers

LEMMA LineHost ==
    ASSUME LineInv, PipeInv, LedgerInv, AskInv, Host
    PROVE  LineInv'
  <1> USE LineEmpty
  <1>1. CASE HostStops
    BY <1>1, LineCut DEF HostStops
  <1>2. CASE Boot
    <2>1. ~attached /\ batch = <<>> /\ wire = <<>> /\ agent = NoAgent /\ live = {}
      BY <1>2 DEF Boot, LineInv, AskInv
    <2>2. UNCHANGED <<attached, live, batch, wire, agent>>
      BY <1>2 DEF Boot, adapter
    <2> QED
      BY <2>1, <2>2, LineCut
  <1> QED
    BY <1>1, <1>2 DEF Host, Quit, Crash, CrashWhileOpening, CrashInTurnEnd, CrashInCloseOut

\* The adapter writes an event, or ends one of its turns with it.
LEMMA LineWritten ==
    ASSUME LineInv, PlainInv, PipeInv, NEW event \in PlainEvents, wire' = Append(wire, event),
           UNCHANGED <<up, attached, batch, live, runs>>,
           up, batch = <<>>, agent.alive, agent.turns # <<>> \/ event.type = "closed",
           \/ agent' = agent /\ event.type \in {"update", "ask"}
           \/ agent'.turns = <<>> /\ (event.type = "closed" => ~agent'.alive)
    PROVE  LineInv'
  <1> USE LineEmpty
  <1>1. /\ Orderly(wire')
        /\ Carries(wire') => Carries(wire) \/ event.type \in {"ask", "result"}
        /\ Responds(wire') => Responds(wire) \/ event.type = "result"
        /\ Closes(wire') => event.type = "closed"
    <2>1. Responds(wire) => event.type = "closed"
      BY DEF LineInv
    <2>2. wire \in Seq(PlainEvents) /\ Orderly(wire)
      BY DEF PlainInv, LineInv
    <2>3. ~Closes(wire)
      BY DEF LineInv
    <2> QED
      BY <2>1, <2>2, <2>3, LineAppend
  <1>2. attached
    BY DEF LineInv, NoAgent
  <1>3. Len(agent'.turns) <= 1
    <2>1. Len(<<>>) = 0 /\ Len(agent.turns) <= 1
      BY EmptySeq DEF LineInv
    <2> QED
      BY <2>1
  <1> QED
    BY <1>1, <1>2, <1>3 DEF LineInv, Orderly, Carries, Responds, Closes

LEMMA LineAdapter ==
    ASSUME ~V2, ~Chatter, LineInv, PipeInv, PlainInv, Adapter
    PROVE  LineInv'
  <1>1. ASSUME Owed # {} PROVE agent.turns # <<>>
    BY <1>1, EmptySeq DEF Owed
  <1>2. ASSUME Speaks PROVE up /\ batch = <<>> /\ agent.alive
    BY <1>2 DEF Speaks
  <1>3. ASSUME NEW event, Writes(event)
        PROVE  wire' = Append(wire, event) /\ UNCHANGED <<up, attached, batch, live, runs>>
    BY <1>3 DEF Writes, disk
  <1>4. CASE AgentUpdates
    <2>1. PICK note \in {"visible", "silent"} : Writes(Event("update", note))
      BY <1>4 DEF AgentUpdates
    <2>2. Event("update", note) \in PlainEvents /\ Event("update", note).type = "update"
      BY DEF Event, PlainEvents, SentEvents, Events, Notes
    <2>3. Speaks /\ Owed # {} /\ agent' = agent
      BY <1>4 DEF AgentUpdates
    <2> QED
      BY <1>1, <1>2, <1>3, <2>1, <2>2, <2>3, LineWritten
  <1>5. CASE AgentAsks
    <2>1. PICK kind \in AskKinds : Writes(Event("ask", kind))
      BY <1>5 DEF AgentAsks
    <2>2. Event("ask", kind) \in PlainEvents /\ Event("ask", kind).type = "ask"
      BY DEF Event, PlainEvents, SentEvents, Events, Notes
    <2>3. Speaks /\ Owed # {} /\ agent' = agent
      BY <1>5 DEF AgentAsks
    <2> QED
      BY <1>1, <1>2, <1>3, <2>1, <2>2, <2>3, LineWritten
  <1>6. CASE AgentResponds
    <2>1. PICK i \in 1..Len(agent.turns), stop \in Stops :
              /\ Writes([type |-> "result", run |-> agent.turns[i].run, note |-> stop])
              /\ agent' = [agent EXCEPT !.turns =
                              SubSeq(@, 1, i - 1) \o SubSeq(@, i + 1, Len(@))]
      BY <1>6 DEF AgentResponds
    <2> DEFINE event == [type |-> "result", run |-> agent.turns[i].run, note |-> stop]
               turns == agent.turns
               before == SubSeq(turns, 1, i - 1)
               behind == SubSeq(turns, i + 1, Len(turns))
    <2>2. turns \in Seq(Turns) /\ Len(turns) \in Nat /\ Len(turns) <= 1 /\ i \in 1..Len(turns)
      BY LenProperties DEF PipeInv, Agents, LineInv
    <2>3. Len(turns) = 1 /\ i = 1
      <3>1. \A n \in Nat : \A k \in 1..n : n <= 1 => n = 1 /\ k = 1
        OBVIOUS
      <3> HIDE DEF turns
      <3> QED
        BY <2>2, <3>1
    <2>4. before \in Seq(Turns) /\ Len(before) = 0
      <3>1. \A j \in 1..(1 - 1) : turns[j] \in Turns
        OBVIOUS
      <3> QED
        BY <2>2, <2>3, <3>1, SubSeqProperties
    <2>5. behind \in Seq(Turns) /\ Len(behind) = 0
      <3>1. \A j \in (1 + 1)..1 : turns[j] \in Turns
        OBVIOUS
      <3> QED
        BY <2>2, <2>3, <3>1, SubSeqProperties
    <2>6. before \o behind = <<>>
      <3>1. before = <<>> /\ behind = <<>>
        BY <2>4, <2>5, EmptySeq
      <3> QED
        BY <2>4, <3>1, ConcatEmptySeq
    <2>7. agent'.turns = <<>>
      BY <2>1, <2>6 DEF PipeInv, Agents
    <2>8. event \in PlainEvents /\ event.type = "result"
      <3>1. agent.turns[i] \in Turns
        BY <2>2, ElementOfSeq
      <3> QED
        BY <3>1 DEF PlainEvents, SentEvents, Events, Notes, Turns
    <2>9. turns # <<>> /\ Writes(event) /\ Speaks
      BY <1>6, <2>1, <2>3, EmptySeq DEF AgentResponds
    <2> HIDE DEF event
    <2> QED
      BY <1>2, <1>3, <2>7, <2>8, <2>9, LineWritten
  <1>7. CASE AgentDies
    <2> DEFINE event == Event("closed", "none")
    <2>1. event \in PlainEvents /\ event.type = "closed"
      BY DEF Event, PlainEvents, SentEvents, Events, Notes
    <2> HIDE DEF event
    <2>2. /\ up /\ batch = <<>> /\ agent.alive /\ agent' = NoAgent
          /\ wire' \in {wire, Append(wire, event)}
          /\ UNCHANGED <<up, attached, batch, live, runs>>
      BY <1>7 DEF AgentDies, disk, event
    <2>3. agent'.turns = <<>> /\ ~agent'.alive /\ Len(<<>>) = 0
      BY <2>2, EmptySeq DEF NoAgent
    <2>4. CASE wire' = wire
      <3>1. Len(agent'.turns) <= 1
        <4>1. 0 <= 1
          OBVIOUS
        <4> QED
          BY <2>3, <4>1, Zenon
      <3> QED
        BY <2>2, <2>3, <2>4, <3>1 DEF LineInv, Orderly, Carries, Responds, Closes
    <2>5. CASE wire' = Append(wire, event)
      BY <2>1, <2>2, <2>3, <2>5, LineWritten
    <2> QED
      BY <2>2, <2>4, <2>5
  <1> QED
    BY <1>4, <1>5, <1>6, <1>7 DEF Adapter, AgentReports, AgentEnds

LEMMA LineStep ==
    ASSUME ~V2, ~Chatter, LineInv, PipeInv, PlainInv, LedgerInv, AskInv, [Next]_vars
    PROVE  LineInv'
  <1>1. CASE UNCHANGED vars
    BY <1>1, LineQuiet DEF vars
  <1> QED
    BY <1>1, LineClient, LinePump, LineTimers, LineHost, LineAdapter DEF Next

LEMMA LineAlways ==
    ASSUME ~V2, ~Chatter
    PROVE  Spec => []LineInv
  <1>1. Init => LineInv
    <2>1. Len(<<>>) = 0 /\ NoAgent.turns = <<>> /\ ~NoAgent.alive
      BY EmptySeq DEF NoAgent
    <2> QED
      BY <2>1, LineEmpty DEF Init, LineInv
  <1>2. LineInv /\ PipeInv /\ PlainInv /\ LedgerInv /\ AskInv /\ [Next]_vars => LineInv'
    BY LineStep
  <1> QED
    BY <1>1, <1>2, PipeAlways, PlainAlways, LedgerAlways, AskAlways, PTL DEF Spec

-----------------------------------------------------------------------------
(* The card.  An ask is louder than anything a card can say, so a thread an *)
(* ask brings back says so; and whoever writes another card has taken the   *)
(* asks first, or finds no adapter, and so no ask.                          *)

LEMMA AskIsLoudest ==
    ASSUME NEW t \in ThreadRows
    PROVE  /\ Resurface(t, "needs_you").state = "resurfaced" =>
                 \/ Resurface(t, "needs_you").deleted
                 \/ Resurface(t, "needs_you").reason = "needs_you"
           /\ ReadNeedsYou(t).reason = t.reason
  BY DEF Resurface, CanResurface, Quieter, ThreadRows, Reasons, ReadNeedsYou

\* Nobody touched the card, and no ask was added.
LEMMA OutrankQuiet ==
    ASSUME AskOutranks, LineInv,
           thread'.state = thread.state, thread'.deleted = thread.deleted,
           thread'.reason = thread.reason, live' \subseteq live
    PROVE  AskOutranks'
  BY DEF AskOutranks, LineInv

LEMMA OutrankClient ==
    ASSUME AskOutranks, LineInv, ThreadInv, Client
    PROVE  AskOutranks'
  <1> USE DEF ThreadInv
  <1>1. CASE Fold
    <2>1. PICK policy \in Policies :
              thread' = Settled(MoveTo([thread EXCEPT !.policy = policy], "folded"))
      BY <1>1 DEF Fold
    <2> DEFINE asleep == MoveTo([thread EXCEPT !.policy = policy], "folded")
    <2>2. asleep \in ThreadRows
      BY SessionAssumption DEF MoveTo, ThreadRows, ThreadStates
    <2> HIDE DEF asleep
    <2>3. live # {} => thread' = Resurface(asleep, "needs_you")
      BY <2>1 DEF Settled, asleep
    <2> QED
      BY <1>1, <2>2, <2>3, AskIsLoudest DEF Fold, AskOutranks
  <1>2. CASE Reopen \/ Archive \/ Delete
    <2>1. thread'.state # "resurfaced" \/ live' = {}
      BY <1>2 DEF Reopen, Archive, Delete, CloseOut, ReadAll, MoveTo, ThreadRows
    <2> QED
      BY <2>1 DEF AskOutranks
  <1>3. CASE AnswerAsk
    <2>1. thread' = ReadNeedsYou(thread) /\ live' \subseteq live
      BY <1>3 DEF AnswerAsk, Reply
    <2> QED
      BY <2>1, OnlyAwake, AskIsLoudest, OutrankQuiet
  <1>4. CASE PromptWithoutFolder \/ ResumeWithoutFolder
    <2>1. live' = {}
      BY <1>4 DEF PromptWithoutFolder, ResumeWithoutFolder, LineInv
    <2> QED
      BY <2>1 DEF AskOutranks
  <1> QED
    BY <1>1, <1>2, <1>3, <1>4, OutrankQuiet DEF Client, PromptSend, PromptRefused, PromptQueue,
       PromptInterrupt, FinishInterrupt, Cancel, Resume, ResumeUnsupported, disk

LEMMA OutrankStep ==
    ASSUME AskOutranks, LineInv, ThreadInv, AskInv, PlainInv, [Next]_vars
    PROVE  AskOutranks'
  <1>1. ASSUME live' = {} PROVE AskOutranks'
    BY <1>1 DEF AskOutranks
  <1>2. CASE Pump
    <2>1. CASE HandleAsk
      <3>1. \/ thread' = thread /\ live' = live
            \/ thread' = Resurface(thread, "needs_you")
        BY <2>1 DEF HandleAsk
      <3> QED
        BY <3>1, AskIsLoudest, OutrankQuiet DEF AskOutranks, ThreadInv
    <2>2. CASE HandleResult \/ HandleClosed
      BY <1>1, <2>2 DEF HandleResult, HandleClosed, AdapterGone
    <2>3. CASE Route \/ HandleUpdate
      BY <2>3, OutrankQuiet DEF Route, HandleUpdate, disk
    <2> QED
      BY <1>2, <2>1, <2>2, <2>3, NoStates DEF Pump
  <1>3. CASE Timers
    <2>1. CASE CapTick \/ Reap
      BY <1>1, <2>1 DEF CapTick, Reap, AdapterGone
    <2>2. CASE StuckTick \/ WakeFromSleep
      BY <1>1, <2>2 DEF StuckTick, WakeFromSleep, ReportStuck, Silent
    <2> QED
      BY <1>3, <2>1, <2>2, OutrankQuiet DEF Timers, DrainStranded, DropOrphaned, ReleaseCancel,
         Evict, disk
  <1>4. CASE Host
    <2>1. CASE Boot
      BY <1>1, <2>1 DEF Boot, AskInv
    <2> QED
      BY <1>1, <1>4, <2>1 DEF Host, Quit, Crash, CrashWhileOpening, CrashInTurnEnd,
         CrashInCloseOut, HostStops
  <1>5. CASE Adapter \/ UNCHANGED vars
    BY <1>5, OutrankQuiet DEF Adapter, AgentUpdates, AgentAsks, AgentReports, AgentEnds,
       AgentResponds, AgentDies, Writes, disk, vars
  <1> QED
    BY <1>2, <1>3, <1>4, <1>5, OutrankClient DEF Next

\* An ask the host holds can be seen and answered: an adapter is there to hear
\* the answer, and no card covers the one that carries it.  This is of an agent
\* that asks within its turns; an ask raised between turns is left behind when a
\* refused prompt forgets the adapter.
THEOREM AsksServed ==
    ASSUME ~V2, ~Chatter
    PROVE  Spec => []AsksAreServed
  <1>1. Init => AskOutranks
    BY DEF Init, AskOutranks
  <1>2. /\ AskOutranks /\ LineInv /\ ThreadInv /\ AskInv /\ PlainInv /\ [Next]_vars
        => AskOutranks'
    BY OutrankStep
  <1>3. AskOutranks /\ LineInv => AsksAreServed
    BY DEF AsksAreServed, LiveAsksHaveAdapter, LineInv
  <1> QED
    BY <1>1, <1>2, <1>3, LineAlways, ThreadAlways, AskAlways, PlainAlways, PTL DEF Spec
=============================================================================
