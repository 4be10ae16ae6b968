------------------------------- MODULE Session -------------------------------
(***************************************************************************)
(* One thread of the JaBot host: its overlay row and Inbox cards, its run  *)
(* ledger, its asks, its prompt queue, and the ACP adapter that serves it, *)
(* from prompt to turn end, through fold, cancel, timers, adapter death,   *)
(* quit, crash and relaunch.                                               *)
(*                                                                         *)
(* The host handles one thing at a time: a client call, one inbound ACP    *)
(* event, or one timer pass is one step.  pump_acp first takes everything  *)
(* the adapter has said (Route) and then handles it event by event; no     *)
(* client call runs before it is done.  The adapter runs on its own and    *)
(* speaks over a pipe, so what it says is seen later than it is said.      *)
(*                                                                         *)
(* thread, runs, said and asks are rows on disk; the other variables of    *)
(* the host are RAM and are gone when it stops.                            *)
(***************************************************************************)
EXTENDS Ledger, Overlay, Functions, FiniteSets

CONSTANTS
    MaxPrompts,     \* bound: prompts the user sends
    MaxAsks,        \* bound: asks the agent raises
    MaxWire,        \* bound: unread events in the adapter's pipe
    MaxRestarts,    \* bound: quits and crashes of the host
    Stops,          \* the stop reasons the agent ends a turn with
    Policies,       \* the fold policies the user picks
    AskKinds,       \* the asks it raises: "read" and "execute" permissions, "question"
    V2,             \* whether it reports states, as an ACP v2 agent does
    Chatter,        \* whether it also sends updates outside a turn
    MidCrash        \* whether the host can stop half way through a handler

ASSUME SessionAssumption ==
    /\ MaxPrompts \in Nat /\ MaxAsks \in Nat /\ MaxWire \in Nat /\ MaxRestarts \in Nat
    /\ Stops \subseteq {"end_turn", "cancelled", "refusal"}
    /\ Policies \subseteq FoldPolicies
    /\ AskKinds \subseteq {"read", "execute", "question"}
    /\ V2 \in BOOLEAN /\ Chatter \in BOOLEAN /\ MidCrash \in BOOLEAN

VARIABLES
    thread,     \* the overlay row and its cards
    runs,       \* the run ledger
    said,       \* the user's prompts in the transcript, in the order sent
    asks,       \* permission_requests: kind and state, in the order raised
    up,         \* whether a host is running
    attached,   \* whether a connection holds a session of the thread
    proc,       \* the process axis (ProcessStatus)
    live,       \* the asks an adapter is waiting on (pending_permissions)
    queue,      \* prompts held back (prompt_queue)
    arriving,   \* the prompt of an interrupt between its cancel and its enqueue, or 0
    stopwatch,  \* cancel_requested: 0, or the number of runs when it was set
    batch,      \* events routed and not handled yet
    wire,       \* events the adapter has written and nobody has read
    agent,      \* the adapter: alive, and the turns it was given
    submitted,  \* prompts accepted from the user so far
    dropped,    \* prompts with a prompt_dropped line in the transcript
    forgotten,  \* prompts held in RAM by a host that stopped
    restarts    \* how often the host stopped

disk == <<thread, runs, said, asks>>
adapter == <<wire, agent>>
history == <<submitted, dropped, forgotten, restarts>>
vars == <<thread, runs, said, asks, up, attached, proc, live, queue, arriving, stopwatch,
          batch, wire, agent, submitted, dropped, forgotten, restarts>>

-----------------------------------------------------------------------------
(* Types and absent values.                                                *)

Prompts == 1..MaxPrompts
AskStates == {"pending", "answered", "cancelled", "expired", "unavailable"}
AcpStates == {"running", "idle", "requires_action", "unknown"}
Notes == Stops \cup AskKinds \cup AcpStates \cup {"visible", "silent", "none"}
Events == [type : {"update", "state", "ended", "ask", "result", "closed"},
           run : Nat, note : Notes]
Turns == [run : Nat, over : BOOLEAN]

NoProc == [connected |-> FALSE, acp |-> "unknown", started |-> FALSE,
           replied |-> FALSE, stuck |-> FALSE]
NoAgent == [alive |-> FALSE, turns |-> <<>>]
FreshAgent == [alive |-> TRUE, turns |-> <<>>]
Event(type, note) == [type |-> type, run |-> 0, note |-> note]

TypeOK ==
    /\ thread \in ThreadRows
    /\ runs \in Seq(RunStates)
    /\ said \in Seq(Prompts)
    /\ asks \in Seq([kind : AskKinds, state : AskStates])
    /\ up \in BOOLEAN /\ attached \in BOOLEAN
    /\ proc \in [connected : BOOLEAN, acp : AcpStates, started : BOOLEAN,
                 replied : BOOLEAN, stuck : BOOLEAN]
    /\ live \subseteq 1..Len(asks)
    /\ queue \in Seq(Prompts)
    /\ arriving \in Prompts \cup {0}
    /\ stopwatch \in Nat
    /\ batch \in Seq(Events) /\ wire \in Seq(Events)
    /\ agent \in [alive : BOOLEAN, turns : Seq(Turns)]
    /\ submitted \in 0..MaxPrompts
    /\ dropped \subseteq Prompts /\ forgotten \subseteq Prompts
    /\ restarts \in 0..MaxRestarts

-----------------------------------------------------------------------------
(* The process axis (lifecycle/process.rs and the hooks that write it).    *)

Touched(p) == [p EXCEPT !.stuck = FALSE]
Attached(p) == [p EXCEPT !.connected = TRUE, !.acp = "idle", !.stuck = FALSE]
Detached(p) == [p EXCEPT !.connected = FALSE, !.acp = "unknown", !.started = FALSE]
\* Broken: the run's clock is not started.
WorkingUntimed == [connected |-> TRUE, acp |-> "running", started |-> FALSE,
                   replied |-> FALSE, stuck |-> FALSE]
Working == [connected |-> TRUE, acp |-> "running", started |-> TRUE,
            replied |-> FALSE, stuck |-> FALSE]
TurnOver(p) == [p EXCEPT !.acp = "idle", !.started = FALSE, !.stuck = FALSE]

(* Asks taken off the wire.  The agent is told "cancelled" either way; the  *)
(* record depends on why, and on whether the ask was a permission.         *)

WithdrawnAs(kind, how) ==
    IF kind = "question"
    THEN [cancelled |-> "cancelled", abandoned |-> "unavailable",
          lost |-> "unavailable", expired |-> "expired"][how]
    ELSE IF how = "abandoned" THEN "pending" ELSE "cancelled"

Withdrawn(how) ==
    [a \in 1..Len(asks) |->
        IF a \in live /\ asks[a].state = "pending"
        THEN [asks[a] EXCEPT !.state = WithdrawnAs(asks[a].kind, how)]
        ELSE asks[a]]

(* How a stop reason reads.  An "end_turn" without a visible reply is      *)
(* diagnosed and becomes a failure of its own.                             *)

StopOf(note) == IF note = "end_turn" /\ ~proc.replied THEN "no_reply" ELSE note

RunTarget(stop) ==
    CASE stop = "end_turn" -> "succeeded"
      [] stop = "cancelled" -> "cancelled"
      [] OTHER -> "failed"

\* Broken: the stop reason is written as the card's kind.
CardForStopVerbatim(t, stop, waiting) ==
    IF stop = "cancelled" \/ waiting # {} THEN t ELSE Resurface(t, stop)

\* Broken: a turn that failed brings nothing back.
CardForStopDone(t, stop, waiting) ==
    IF stop # "end_turn" \/ waiting # {} THEN t ELSE Resurface(t, "done")

\* A cancel leaves no card, and an ask the human still owes outranks the outcome.
CardForStop(t, stop, waiting) ==
    IF stop = "cancelled" \/ waiting # {} THEN t
    ELSE Resurface(t, IF stop = "end_turn" THEN "done" ELSE "failed")

-----------------------------------------------------------------------------
(* When the host acts.                                                     *)

\* The host thread is at the end of a pump: the timers may run.
Idle == up /\ batch = <<>>

\* It is free to take the next client call.
Free == Idle /\ arriving = 0

\* A turn owns the session, so a prompt is held back (refuse_overlapping_run).
InFlight == HasOpen(runs) /\ attached

\* Broken: only a running turn holds it back.
HeldBackByTurn == InFlight

\* A prompt is also held back behind the prompts that are (intercept_in_flight).
HeldBack == InFlight \/ queue # <<>>

\* The host stops, by itself or not: RAM is gone, and so is the adapter's pipe.
HostStops ==
    /\ up' = FALSE
    /\ attached' = FALSE /\ proc' = NoProc /\ live' = {}
    /\ queue' = <<>> /\ arriving' = 0 /\ stopwatch' = 0 /\ batch' = <<>>
    /\ wire' = <<>> /\ agent' = NoAgent
    /\ restarts < MaxRestarts /\ restarts' = restarts + 1

HeldWords == Range(queue) \cup ({arriving} \ {0})

-----------------------------------------------------------------------------
(* Sending prompts.                                                        *)

\* The agent is given one more turn.  A dead one takes the write and no more.
Given(a, run) ==
    IF a.alive THEN [a EXCEPT !.turns = Append(@, [run |-> run, over |-> FALSE])] ELSE a

\* session_prompt on a free thread: an adapter is there, or one is spawned and
\* given the thread's session; the words reach the transcript and a run opens.
PromptSend ==
    /\ Free /\ ~HeldBack /\ submitted < MaxPrompts
    /\ submitted' = submitted + 1
    /\ said' = Append(said, submitted + 1)
    /\ runs' = OpenRun(runs)
    /\ proc' = Working
    /\ attached' = TRUE
    /\ agent' = Given(IF attached THEN agent ELSE FreshAgent, Len(runs) + 1)
    /\ UNCHANGED <<thread, asks, up, live, queue, arriving, stopwatch, batch, wire,
                   dropped, forgotten, restarts>>

\* The spawn, the session or the write failed.  The adapter is forgotten and
\* the client keeps its words; the process axis and the asks stay as they were,
\* but for what a restored session had already set.
PromptRefused ==
    /\ Free /\ ~HeldBack /\ submitted < MaxPrompts
    /\ attached' = FALSE /\ agent' = NoAgent /\ wire' = <<>>
    /\ proc' \in IF attached THEN {proc} ELSE {proc, Attached(proc)}
    /\ UNCHANGED <<disk, up, live, queue, arriving, stopwatch, batch, history>>

\* There is no session, and no directory to start one in.
PromptWithoutFolder ==
    /\ Free /\ ~attached /\ ~HeldBack /\ submitted < MaxPrompts
    /\ thread' = Resurface(thread, "failed")
    /\ UNCHANGED <<runs, said, asks, up, attached, proc, live, queue, arriving,
                   stopwatch, batch, adapter, history>>

\* Mode "queue": the prompt waits behind the turn, or behind other prompts.
PromptQueue ==
    /\ Free /\ HeldBack /\ submitted < MaxPrompts
    /\ submitted' = submitted + 1
    /\ queue' = Append(queue, submitted + 1)
    /\ UNCHANGED <<disk, up, attached, proc, live, arriving, stopwatch, batch, adapter,
                   dropped, forgotten, restarts>>

\* Mode "interrupt": cancel first, and the cancel pumps.  The prompt is in
\* nobody's hands until that pump is over.
PromptInterrupt ==
    /\ Free /\ attached /\ HeldBack /\ submitted < MaxPrompts
    /\ submitted' = submitted + 1
    /\ arriving' = submitted + 1
    /\ asks' = Withdrawn("cancelled") /\ live' = {}
    /\ stopwatch' = Len(runs)
    /\ UNCHANGED <<thread, runs, said, up, attached, proc, queue, batch, adapter,
                   dropped, forgotten, restarts>>

\* The interrupt's pump is over: the prompt takes its place in the queue.
FinishInterrupt ==
    /\ Idle /\ arriving # 0
    /\ queue' = Append(queue, arriving)
    /\ arriving' = 0
    /\ UNCHANGED <<disk, up, attached, proc, live, stopwatch, batch, adapter, history>>

\* session_cancel: the asks are answered first, then the agent is told, then
\* the stopwatch starts; a write that fails leaves the stopwatch alone.
Cancel ==
    /\ Free /\ attached
    /\ asks' = Withdrawn("cancelled") /\ live' = {}
    /\ stopwatch' \in {Len(runs), stopwatch}
    /\ UNCHANGED <<thread, runs, said, up, attached, proc, queue, arriving, batch,
                   adapter, history>>

-----------------------------------------------------------------------------
(* The queue is drained, inside another step, into the run ledger rs and   *)
(* the process axis p that step has reached.                               *)

NothingQueued(rs, p) ==
    /\ queue = <<>>
    /\ runs' = rs /\ proc' = p
    /\ UNCHANGED <<said, queue, dropped, attached, wire, agent>>

SendQueued(rs, p) ==
    /\ queue # <<>> /\ attached
    /\ runs' = OpenRun(rs) /\ proc' = Working
    /\ said' = Append(said, Head(queue)) /\ queue' = Tail(queue)
    /\ agent' = Given(agent, Len(rs) + 1)
    /\ UNCHANGED <<dropped, attached, wire>>

\* Broken: one prompt is dropped, the rest vanish.
DropQueuedHead(rs, p) ==
    /\ queue # <<>>
    /\ runs' = rs /\ proc' = p
    /\ dropped' = dropped \cup {Head(queue)} /\ queue' = <<>>
    /\ attached' = FALSE /\ agent' = NoAgent /\ wire' = <<>>
    /\ UNCHANGED said

\* No session to send on, or the write failed: everything held is dropped.
DropQueued(rs, p) ==
    /\ queue # <<>>
    /\ runs' = rs /\ proc' = p
    /\ dropped' = dropped \cup Range(queue) /\ queue' = <<>>
    /\ attached' = FALSE /\ agent' = NoAgent /\ wire' = <<>>
    /\ UNCHANGED said

Drain(rs, p) == NothingQueued(rs, p) \/ SendQueued(rs, p) \/ DropQueued(rs, p)

-----------------------------------------------------------------------------
(* Inbound events.                                                         *)

\* pump_acp takes all the adapter has said before it handles any of it.
Route ==
    /\ Idle /\ attached /\ wire # <<>>
    /\ batch' = wire /\ wire' = <<>>
    /\ UNCHANGED <<disk, up, attached, proc, live, queue, arriving, stopwatch, agent, history>>

Inbound(type) ==
    /\ up /\ batch # <<>> /\ Head(batch).type = type
    /\ batch' = Tail(batch)
    /\ UNCHANGED <<up, arriving, submitted, forgotten, restarts>>

\* Output means work, unless the agent narrates while it waits for an answer.
HandleUpdate ==
    /\ Inbound("update")
    /\ proc' = [Touched(proc) EXCEPT
                  !.replied = @ \/ Head(batch).note = "visible",
                  !.acp = IF live = {} THEN "running" ELSE @]
    /\ UNCHANGED <<disk, attached, live, queue, stopwatch, adapter, dropped>>

\* A state without a stop reason is a fact about the process and no more.
HandleState ==
    /\ Inbound("state")
    /\ proc' = [Touched(proc) EXCEPT !.acp = Head(batch).note]
    /\ UNCHANGED <<disk, attached, live, queue, stopwatch, adapter, dropped>>

\* An idle state with a stop reason ends the turn, and does not drain the queue.
HandleEnded ==
    /\ Inbound("ended")
    /\ LET stop == StopOf(Head(batch).note)
       IN /\ runs' = CloseRun(runs, RunTarget(stop))
          /\ thread' = CardForStop(thread, stop, live)
    /\ proc' = TurnOver(proc)
    /\ UNCHANGED <<said, asks, attached, live, queue, stopwatch, adapter, dropped>>

\* The response to session/prompt: open asks expire, the turn ends, the
\* stopwatch stops, and the next prompt held back goes out.
HandleResult ==
    /\ Inbound("result")
    /\ asks' = Withdrawn("expired") /\ live' = {}
    /\ LET stop == StopOf(Head(batch).note)
       IN /\ thread' = CardForStop(thread, stop, {})
          /\ Drain(CloseRun(runs, RunTarget(stop)), TurnOver(proc))
    /\ stopwatch' = 0

\* Wait for Inbox: reads of a sleeping thread are answered by the host, when one
\* of the answers they offer is to allow it once.
AutoAllows(kind) ==
    kind = "read" /\ thread.state = "folded" /\ thread.policy = "wait_for_inbox"

\* Every other ask goes to the human, and so does a read that does not offer to be
\* allowed once: the run pauses and the thread comes back.
HandleAsk ==
    /\ Inbound("ask")
    /\ LET kind == Head(batch).note
           row(state) == [kind |-> kind, state |-> state]
       IN \/ /\ AutoAllows(kind)
             /\ asks' = Append(asks, row("answered"))
             /\ UNCHANGED <<thread, runs, proc, live>>
          \/ /\ asks' = Append(asks, row("pending"))
             /\ live' = live \cup {Len(asks) + 1}
             /\ proc' = [Touched(proc) EXCEPT !.acp = "requires_action"]
             /\ runs' = PauseRun(runs)
             /\ thread' = Resurface(thread, "needs_you")
    /\ UNCHANGED <<said, attached, queue, stopwatch, adapter, dropped>>

\* on_adapter_gone: asks are lost, the queue is dropped, the connection goes,
\* and the run ends.  A turn that showed nothing is diagnosed as a failed turn;
\* otherwise an adapter that was waiting on the human leaves no "failed" card.
AdapterGone ==
    LET diagnosed == HasOpen(runs) /\ ~proc.replied
        asking == proc.acp = "requires_action"
    IN /\ asks' = Withdrawn("lost") /\ live' = {}
       /\ dropped' = dropped \cup Range(queue) /\ queue' = <<>>
       /\ attached' = FALSE /\ agent' = NoAgent /\ wire' = <<>>
       /\ runs' = LoseRun(IF diagnosed THEN CloseRun(runs, "failed") ELSE runs)
       /\ thread' = IF diagnosed \/ (HasOpen(runs) /\ ~asking)
                    THEN Resurface(thread, "failed") ELSE thread
       /\ proc' = [proc EXCEPT !.connected = FALSE, !.acp = "unknown",
                               !.started = @ /\ ~HasOpen(runs),
                               !.stuck = @ /\ ~diagnosed]
       /\ UNCHANGED <<said, stopwatch>>

\* End of file on the adapter's output.
HandleClosed == Inbound("closed") /\ AdapterGone

-----------------------------------------------------------------------------
(* The user's other moves.                                                 *)

\* Broken: asks that are open do not count.
SettledByRun(t) ==
    IF runs = <<>> THEN t
    ELSE CASE Newest(runs) = "succeeded" -> Resurface(t, "done")
           [] Newest(runs) \in {"failed", "timed_out", "lost"} -> Resurface(t, "failed")
           [] OTHER -> t

\* Broken: only failures bring the thread back.
SettledByFailure(t) ==
    IF live # {} THEN Resurface(t, "needs_you")
    ELSE IF runs # <<>> /\ Newest(runs) \in {"failed", "timed_out", "lost"}
    THEN Resurface(t, "failed") ELSE t

\* What a thread that was just folded should already come back for.
Settled(t) ==
    IF live # {} THEN Resurface(t, "needs_you")
    ELSE IF runs = <<>> THEN t
    ELSE CASE Newest(runs) = "succeeded" -> Resurface(t, "done")
           [] Newest(runs) \in {"failed", "timed_out", "lost"} -> Resurface(t, "failed")
           [] OTHER -> t

\* thread_fold: the policy lands first, then the move, then work that stopped
\* already brings the thread straight back.
Fold ==
    /\ Free /\ CanMove(thread, "fold")
    /\ \E policy \in Policies :
          thread' = Settled(MoveTo([thread EXCEPT !.policy = policy], "folded"))
    /\ UNCHANGED <<runs, said, asks, up, attached, proc, live, queue, arriving,
                   stopwatch, batch, adapter, history>>

Reopen ==
    /\ Free /\ CanMove(thread, "reopen")
    /\ thread' = ReadAll(MoveTo(thread, "active"))
    /\ UNCHANGED <<runs, said, asks, up, attached, proc, live, queue, arriving,
                   stopwatch, batch, adapter, history>>

\* The row once the thread is archived, or tombstoned.
ClosedRow(action) ==
    IF action = "delete" THEN [thread EXCEPT !.deleted = TRUE] ELSE MoveTo(thread, "archived")

\* close_out: asks are cancelled, the queue is dropped, the badge is cleared,
\* the run is cancelled and the adapter goes.
CloseOut(action) ==
    /\ Free /\ CanMove(thread, action)
    /\ thread' = ReadAll(ClosedRow(action))
    /\ asks' = Withdrawn("cancelled") /\ live' = {}
    /\ dropped' = dropped \cup Range(queue) /\ queue' = <<>>
    /\ runs' = Advance(runs, "cancelled")
    /\ attached' = FALSE /\ proc' = NoProc /\ agent' = NoAgent /\ wire' = <<>>
    /\ UNCHANGED <<said, up, arriving, stopwatch, batch, submitted, forgotten, restarts>>

Archive == CloseOut("archive")
Delete == CloseOut("delete")

\* Broken: an answer nobody heard leaves the ask in the pending map.
ReplyKept(ask, answer, delivered) ==
    /\ Free /\ asks[ask].state = "pending"
    /\ delivered => ask \in live /\ attached
    /\ asks' = [asks EXCEPT ![ask].state = answer]
    /\ live' = IF delivered THEN live \ {ask} ELSE live
    /\ thread' = ReadNeedsYou(thread)
    /\ UNCHANGED <<runs, said, up, attached, proc, queue, arriving, stopwatch, batch,
                   adapter, history>>

\* permission/reply and interaction/reply, which claim an ask once.  The card
\* is read either way; the run goes back to work only if the agent heard it.
Reply(ask, answer, delivered) ==
    /\ Free /\ asks[ask].state = "pending"
    /\ delivered => ask \in live /\ attached
    /\ asks' = [asks EXCEPT ![ask].state = answer]
    /\ live' = live \ {ask}
    /\ thread' = ReadNeedsYou(thread)
    /\ proc' = IF ~delivered THEN proc
               ELSE [Touched(proc) EXCEPT !.acp = IF answer = "answered" THEN "running" ELSE "idle"]
    /\ runs' = IF delivered /\ answer = "answered" THEN ResumeRun(runs) ELSE runs
    /\ UNCHANGED <<said, up, attached, queue, arriving, stopwatch, batch, adapter, history>>

AnswerAsk ==
    \E ask \in 1..Len(asks), answer \in {"answered", "cancelled"}, delivered \in BOOLEAN :
        Reply(ask, answer, delivered)

\* thread/resume on a thread with no session: the session is put back, and no
\* turn with it.
Resume ==
    /\ Free /\ ~attached /\ ~thread.deleted /\ said # <<>>
    /\ attached' = TRUE /\ agent' = FreshAgent
    /\ proc' = Attached(proc)
    /\ UNCHANGED <<disk, up, live, queue, arriving, stopwatch, batch, wire, history>>

\* The folder is gone.
ResumeWithoutFolder ==
    /\ Free /\ ~attached /\ ~thread.deleted /\ said # <<>>
    /\ thread' = Resurface(thread, "failed")
    /\ UNCHANGED <<runs, said, asks, up, attached, proc, live, queue, arriving,
                   stopwatch, batch, adapter, history>>

\* The adapter restores nothing and is dropped again.
ResumeUnsupported ==
    /\ Free /\ ~attached /\ ~thread.deleted /\ said # <<>>
    /\ proc' = Detached(proc)
    /\ UNCHANGED <<disk, up, attached, live, queue, arriving, stopwatch, batch,
                   adapter, history>>

-----------------------------------------------------------------------------
(* Timers: lifecycle_tick and supervisor_tick, at the end of a pump.       *)

\* Connected, mid-turn by its own account, and not reported since it last spoke.
Silent == proc.connected /\ proc.acp = "running" /\ ~proc.stuck /\ live = {}

\* Quiet for too long.  The latch is set only when the card landed.
ReportStuck ==
    /\ thread' = Resurface(thread, "stuck")
    /\ proc' = [proc EXCEPT !.stuck = CanResurface(thread, "stuck")]
    /\ UNCHANGED <<runs, said, asks, up, attached, live, queue, arriving, stopwatch,
                   batch, adapter, history>>

StuckTick == Idle /\ Silent /\ ReportStuck

\* The machine slept: what runs on was not seen to finish either.
WakeFromSleep == Idle /\ Silent /\ attached /\ agent.alive /\ ReportStuck

\* The hard cap, measured from the start of the run: asks are cancelled, the
\* run is timed out and the adapter dropped.  The queue is left to the next pass.
CapTick ==
    /\ Idle /\ proc.started
    /\ asks' = Withdrawn("cancelled") /\ live' = {}
    /\ runs' = CloseRun(runs, "timed_out")
    /\ attached' = FALSE /\ agent' = NoAgent /\ wire' = <<>>
    /\ proc' = Detached(proc)
    /\ thread' = Resurface(thread, "failed")
    /\ UNCHANGED <<said, up, queue, arriving, stopwatch, batch, history>>

\* An adapter whose process is gone, whatever its output says.
Reap ==
    /\ Idle /\ attached /\ ~agent.alive
    /\ AdapterGone
    /\ UNCHANGED <<up, arriving, batch, submitted, forgotten, restarts>>

\* A queue behind a turn that is over by every account.
Stranded == attached /\ queue # <<>> /\ proc.acp = "idle" /\ ~HasOpen(runs) /\ live = {}

\* Broken: only the queue behind a cancel is looked at.
OrphanedByCancel == stopwatch # 0 /\ ~attached /\ queue # <<>> /\ ~HasOpen(runs)

\* A queue with no adapter to send it to.
Orphaned == ~attached /\ queue # <<>> /\ ~HasOpen(runs)

DrainStranded ==
    /\ Idle /\ Stranded
    /\ SendQueued(runs, proc) \/ DropQueued(runs, proc)
    /\ UNCHANGED <<thread, asks, up, live, arriving, stopwatch, batch, submitted,
                   forgotten, restarts>>

DropOrphaned ==
    /\ Idle /\ Orphaned
    /\ dropped' = dropped \cup Range(queue) /\ queue' = <<>>
    /\ UNCHANGED <<disk, up, attached, proc, live, arriving, stopwatch, batch, adapter,
                   submitted, forgotten, restarts>>

\* The grace after a cancel ran out: what waits behind it is dropped, and the
\* run is left to the other timers.
ReleaseCancel ==
    /\ Idle /\ stopwatch # 0 /\ ~Stranded /\ ~Orphaned
    /\ stopwatch' = 0
    /\ dropped' = dropped \cup Range(queue) /\ queue' = <<>>
    /\ UNCHANGED <<disk, up, attached, proc, live, arriving, batch, adapter,
                   submitted, forgotten, restarts>>

\* A restorable adapter that does nothing for a thread nobody is watching.
Evict ==
    /\ Idle /\ attached /\ proc.acp = "idle" /\ live = {} /\ queue = <<>>
    /\ ~HasOpen(runs) /\ ~thread.deleted /\ thread.state # "active"
    /\ attached' = FALSE /\ agent' = NoAgent /\ wire' = <<>>
    /\ proc' = Detached(proc)
    /\ UNCHANGED <<disk, up, live, queue, arriving, stopwatch, batch, history>>

-----------------------------------------------------------------------------
(* Stopping and starting the host.                                         *)

\* A quit keeps the permission asks pending and closes the questions.
Quit ==
    /\ Free /\ HostStops
    /\ asks' = IF attached THEN Withdrawn("abandoned") ELSE asks
    /\ forgotten' = forgotten \cup HeldWords
    /\ UNCHANGED <<thread, runs, said, submitted, dropped>>

Crash ==
    /\ up /\ HostStops
    /\ forgotten' = forgotten \cup HeldWords
    /\ UNCHANGED <<disk, submitted, dropped>>

\* Between the prompt's transcript row, the run's INSERT and its first UPDATE.
CrashWhileOpening ==
    /\ MidCrash /\ Free /\ ~HeldBack /\ submitted < MaxPrompts
    /\ HostStops
    /\ submitted' = submitted + 1
    /\ said' = Append(said, submitted + 1)
    /\ runs' = InsertRun(runs)
    /\ UNCHANGED <<thread, asks, dropped, forgotten>>

\* Between the writes of a turn's end: asks, then the run, then the card.
CrashInTurnEnd ==
    /\ MidCrash /\ up /\ batch # <<>> /\ Head(batch).type = "result"
    /\ HostStops
    /\ asks' = Withdrawn("expired")
    /\ runs' \in {runs, CloseRun(runs, RunTarget(StopOf(Head(batch).note)))}
    /\ forgotten' = forgotten \cup HeldWords
    /\ UNCHANGED <<thread, said, submitted, dropped>>

\* Between the writes of an archive or a delete, which go in this order.
CrashInCloseOut ==
    /\ MidCrash /\ Free /\ HostStops
    /\ \E action \in {"archive", "delete"}, written \in 1..4 :
          /\ CanMove(thread, action)
          /\ asks' = IF written >= 2 THEN Withdrawn("cancelled") ELSE asks
          /\ dropped' = IF written >= 3 THEN dropped \cup Range(queue) ELSE dropped
          /\ forgotten' = IF written >= 3 THEN forgotten ELSE forgotten \cup HeldWords
          /\ thread' = IF written >= 4 THEN ReadAll(ClosedRow(action)) ELSE ClosedRow(action)
    /\ UNCHANGED <<runs, said, submitted>>

\* What the boot pass makes of the run it found open, on the overlay.
Announced(t) ==
    LET reason == IF Newest(runs) = "needs_you" THEN "needs_you" ELSE "stuck"
    IN IF ~HasOpen(runs) \/ Newest(runs) = "queued" THEN {t}
       ELSE IF CanResurface(t, reason) THEN {Resurface(t, reason)}
       ELSE Restatements(t, reason)

\* Broken: questions that were answered are closed again.
UnavailableAll ==
    [a \in 1..Len(asks) |->
        IF asks[a].kind = "question" THEN [asks[a] EXCEPT !.state = "unavailable"]
        ELSE asks[a]]

\* Questions have nobody left to hear the answer; permissions stay answerable.
Unavailable ==
    [a \in 1..Len(asks) |->
        IF asks[a].kind = "question" /\ asks[a].state = "pending" /\ thread.state # "archived"
        THEN [asks[a] EXCEPT !.state = "unavailable"] ELSE asks[a]]

\* reconcile_boot, then reconcile_dead_interactions.  Deleted threads are skipped.
Boot ==
    /\ ~up /\ up' = TRUE
    /\ runs' = IF thread.deleted THEN runs ELSE LoseAllOpen(runs)
    /\ thread' \in IF thread.deleted THEN {thread} ELSE Announced(thread)
    /\ asks' = IF thread.deleted THEN asks ELSE Unavailable
    /\ UNCHANGED <<said, attached, proc, live, queue, arriving, stopwatch, batch, adapter,
                   history>>

-----------------------------------------------------------------------------
(* The adapter, on its own schedule.  While the host handles a batch it     *)
(* reads nothing, so nothing is lost by letting the adapter wait.          *)

Speaks == up /\ batch = <<>> /\ agent.alive /\ Len(wire) < MaxWire

Writes(event) ==
    /\ wire' = Append(wire, event)
    /\ UNCHANGED <<disk, up, attached, proc, live, queue, arriving, stopwatch, batch, history>>

\* The turns that are not over yet; the agent takes them in order.
Owed == {i \in 1..Len(agent.turns) : ~agent.turns[i].over}
First(i) == \A j \in 1..(i - 1) : agent.turns[j].over

AgentUpdates ==
    /\ Speaks /\ (Owed # {} \/ Chatter)
    /\ \E note \in {"visible", "silent"} : Writes(Event("update", note))
    /\ UNCHANGED agent

AgentAsks ==
    /\ Speaks /\ (Owed # {} \/ Chatter)
    /\ Len(asks) + Cardinality({i \in 1..Len(wire) : wire[i].type = "ask"}) < MaxAsks
    /\ \E kind \in AskKinds : Writes(Event("ask", kind))
    /\ UNCHANGED agent

AgentReports ==
    /\ V2 /\ Speaks
    /\ \E state \in {"running", "idle", "requires_action"} : Writes(Event("state", state))
    /\ UNCHANGED agent

\* A v2 agent says that a turn is over before it responds to the prompt.
AgentEnds ==
    /\ V2 /\ Speaks
    /\ \E i \in Owed, stop \in Stops :
          /\ First(i)
          /\ Writes([type |-> "ended", run |-> agent.turns[i].run, note |-> stop])
          /\ agent' = [agent EXCEPT !.turns[i].over = TRUE]

AgentResponds ==
    /\ Speaks
    /\ \E i \in 1..Len(agent.turns), stop \in Stops :
          /\ First(i)
          /\ Writes([type |-> "result", run |-> agent.turns[i].run, note |-> stop])
          /\ agent' = [agent EXCEPT !.turns =
                           SubSeq(@, 1, i - 1) \o SubSeq(@, i + 1, Len(@))]

\* Its output may be held open by a child, and then no end of file follows.
AgentDies ==
    /\ up /\ batch = <<>> /\ agent.alive
    /\ agent' = NoAgent
    /\ wire' \in {wire, Append(wire, Event("closed", "none"))}
    /\ UNCHANGED <<disk, up, attached, proc, live, queue, arriving, stopwatch, batch, history>>

-----------------------------------------------------------------------------
(* The specification.                                                      *)

Init ==
    /\ thread = NewThread
    /\ runs = <<>> /\ said = <<>> /\ asks = <<>>
    /\ up = TRUE /\ attached = FALSE /\ proc = NoProc /\ live = {}
    /\ queue = <<>> /\ arriving = 0 /\ stopwatch = 0 /\ batch = <<>>
    /\ wire = <<>> /\ agent = NoAgent
    /\ submitted = 0 /\ dropped = {} /\ forgotten = {} /\ restarts = 0

Client ==
    \/ PromptSend \/ PromptRefused \/ PromptWithoutFolder \/ PromptQueue
    \/ PromptInterrupt \/ FinishInterrupt \/ Cancel \/ AnswerAsk
    \/ Fold \/ Reopen \/ Archive \/ Delete
    \/ Resume \/ ResumeWithoutFolder \/ ResumeUnsupported

Pump ==
    \/ Route \/ HandleUpdate \/ HandleState \/ HandleEnded \/ HandleResult
    \/ HandleAsk \/ HandleClosed

Timers ==
    \/ StuckTick \/ WakeFromSleep \/ CapTick \/ Reap \/ DrainStranded
    \/ DropOrphaned \/ ReleaseCancel \/ Evict

Host ==
    Quit \/ Crash \/ CrashWhileOpening \/ CrashInTurnEnd \/ CrashInCloseOut \/ Boot

Adapter ==
    \/ AgentUpdates \/ AgentAsks \/ AgentReports \/ AgentEnds
    \/ AgentResponds \/ AgentDies

Next == Client \/ Pump \/ Timers \/ Host \/ Adapter

Spec == Init /\ [][Next]_vars

\* pump_acp runs on a timer and handles all it took.  The reap, the cap and the
\* queue passes run at the end of every pump, however many events come before,
\* and the cap is measured from the start of the run: each of them acts at last
\* on a condition that keeps coming back.  Nothing is asked of the user, of the
\* agent, or of anyone to start the host again.
FairSpec ==
    /\ Spec
    /\ WF_vars(Pump) /\ WF_vars(FinishInterrupt)
    /\ SF_vars(Reap) /\ SF_vars(CapTick)
    /\ SF_vars(DrainStranded) /\ SF_vars(DropOrphaned) /\ SF_vars(ReleaseCancel)

-----------------------------------------------------------------------------
(* Safety.                                                                 *)

\* The ledger keeps its promise through every handler, timer and restart.
Ledgers == INSTANCE RunHistory WITH history <- runs
LedgerPromise == Ledgers!Spec

\* refuse_overlapping_run: one turn at a time, so no run but the newest is open.
OnlyNewestOpen == Ledgers!OneTurnAtATime

\* A run that ended keeps its outcome (advance has no edge out of an end).
RunsEndOnce == Ledgers!EndsOnce

\* An open run is work somebody is doing: while the host runs, the thread has an
\* adapter (on_adapter_gone, cap, evict, drain, boot each end the run they strand).
OpenRunIsServed == up /\ HasOpen(runs) /\ ~thread.deleted => attached

\* No prompt the user was told is accepted vanishes while the host runs, and none
\* is sent twice: it was said, is held, was dropped with a notice, or died with RAM.
PromptsAccounted ==
    /\ Range(said) \cup Range(queue) \cup dropped \cup forgotten \cup ({arriving} \ {0})
          = 1..submitted
    /\ Len(said) + Len(queue) + Cardinality(dropped) + Cardinality(forgotten)
          + (IF arriving = 0 THEN 0 ELSE 1) = submitted

\* Prompts reach the agent in the order the user gave them: a later one never
\* overtakes one that is still held (intercept_in_flight's already_queued).
SentInOrder ==
    LET line == said \o queue \o (IF arriving = 0 THEN <<>> ELSE <<arriving>>)
    IN \A i, j \in 1..Len(line) : i < j => line[i] < line[j]

\* An ask an adapter waits on is undecided on disk, and a decision is final,
\* whichever of reply, cancel, turn end, death and boot came first.
LiveAsksArePending == \A a \in live : asks[a].state = "pending"

AsksDecidedOnce ==
    [][ /\ Len(asks) <= Len(asks')
        /\ \A a \in 1..Len(asks) :
              asks[a].state # "pending" => asks'[a] = asks[a] ]_asks

\* A thread never sleeps on a question: an ask wakes it, and folding over an
\* open ask brings it straight back.
NoAskAsleep == thread.state = "folded" /\ ~thread.deleted => live = {}

\* While an adapter waits for an answer, the card on a thread that is back says
\* so; no outcome and no timer takes it away.
AskOutranks ==
    live # {} /\ attached /\ thread.state = "resurfaced" /\ ~thread.deleted =>
        thread.reason = "needs_you"

\* An ask the host holds has an adapter waiting for the answer: every way of
\* losing the adapter takes the asks along.
LiveAsksHaveAdapter == live # {} => attached

\* Both: an ask the host holds can be seen and answered.
AsksAreServed == LiveAsksHaveAdapter /\ AskOutranks

\* The stuck backstop is armed for every thread that sleeps over a run.
SleeperIsWatched == thread.state = "folded" /\ ~thread.deleted /\ HasOpen(runs) => ~proc.stuck

\* A result is not lost: no thread sleeps over a run that ended by itself.
NoResultAsleep ==
    thread.state = "folded" /\ ~thread.deleted /\ runs # <<>> =>
        Newest(runs) \notin {"succeeded", "failed", "timed_out"}

\* Nor over a run that was lost with its adapter.
NoLossAsleep ==
    up /\ thread.state = "folded" /\ ~thread.deleted /\ runs # <<>> => Newest(runs) # "lost"

\* The response to a prompt ends that prompt's run and no other.
ResultEndsItsRun ==
    [][ up' /\ batch # <<>> /\ Head(batch).type = "result" /\ batch' = Tail(batch) =>
          \A i \in 1..Len(runs) : i # Head(batch).run => runs'[i] = runs[i] ]_vars

\* Prompts are dropped for an unacknowledged stop only behind the stopped turn.
StopIsCurrent ==
    [][ ReleaseCancel /\ queue # <<>> => HasOpen(runs) /\ stopwatch = Len(runs) ]_vars

\* An asks' card is not replaced by the news that the asker died.
NeedsYouSurvivesDeath ==
    [][ (Reap \/ HandleClosed) /\ live # {} /\ thread.reason = "needs_you" =>
          thread'.reason = "needs_you" ]_vars

-----------------------------------------------------------------------------
(* Liveness.                                                               *)

\* Every run ends, whatever its agent does, unless the host stops first.
RunsEnd ==
    \A n \in Prompts :
        up /\ Len(runs) = n /\ Newest(runs) \in Open ~>
            ~up \/ (n <= Len(runs) /\ runs[n] \in Terminal)

\* Every prompt held back is sent, or dropped with a notice.
QueueMoves == \A p \in Prompts : p \in HeldWords ~> p \notin HeldWords

\* A thread folded over work comes back, unless the user takes it out of the
\* fold, cancels the work, or the host stops.
FoldedComesBack ==
    up /\ thread.state = "folded" /\ HasOpen(runs) ~>
        \/ ~up \/ thread.state # "folded" \/ thread.deleted
        \/ runs # <<>> /\ Newest(runs) = "cancelled"

=============================================================================
