------------------------------- MODULE Chief --------------------------------
(***************************************************************************)
(* The crew's host tools (host/chief/mod.rs, bridge.rs), the handoffs they *)
(* make (host/store/handoff.rs) and the standing threads those land on     *)
(* (host/crew/standing.rs).                                                *)
(*                                                                         *)
(* Agents call on threads of their own, through a bridge per session; the  *)
(* host answers from its pump.  Handing a task over prompts another        *)
(* thread, which pumps again, so turns end and adapters die in the middle  *)
(* of a call.  What a turn does besides is left to Session.                *)
(***************************************************************************)
EXTENDS Naturals, Sequences, FiniteSets, SequencesExt

CONSTANTS
    Bots,
    Code,            \* the owner of spawned threads, who has no host tools
    None,
    User,            \* what occupies a turn that is no handoff
    Kinds,           \* the tools called: "handoff", "spawn", "fold", "draft", "status"
    MaxCalls,        \* bound: the calls made
    MaxGenerations,  \* MAX_GENERATIONS; standing_thread_id tries one name fewer
    MaxMoves,        \* bound: what the user does
    MaxCrashes       \* bound: the times the host stops

ASSUME ChiefAssumption ==
    /\ Code \notin Bots /\ {None, User} \cap Nat = {} /\ None # User
    /\ Kinds \subseteq {"handoff", "spawn", "fold", "draft", "status"}
    /\ {MaxCalls, MaxGenerations, MaxMoves, MaxCrashes} \subseteq Nat
    /\ MaxGenerations > 1

Calls == 1..MaxCalls
Generations == 1..(MaxGenerations - 1)
Threads == (Bots \X Generations) \cup ({Code} \X Calls)
Owner(t) == t[1]

VARIABLES
    chips,     \* the bots whose tools[] carries the host tools
    thread,    \* threads.state, "none" for no row and "deleted" for a tombstone
    session,   \* the threads whose adapter holds their session
    bridges,   \* chief_bridges
    rx,        \* per thread, the calls its bridge has handed over
    turn,      \* per thread, what its open run is about
    queue,     \* prompt_queue
    calls,     \* each call, in the order they were made
    rows,      \* handoffs, by the call that makes them
    frames,    \* pump_chief_tools under way, the innermost last
    moves, crashes,  \* what is used up of the bounds
    ran        \* ghost: the calls carried out, in that order

vars == <<chips, thread, session, bridges, rx, turn, queue, calls, rows, frames,
          moves, crashes, ran>>

TypeOK ==
    /\ chips \subseteq Bots
    /\ thread \in [Threads -> {"none", "active", "folded", "archived", "deleted"}]
    /\ session \subseteq Threads /\ bridges \subseteq Threads
    /\ rx \in [Threads -> Seq(Calls)]
    /\ turn \in [Threads -> Calls \cup {None, User}]
    /\ queue \in [Threads -> Seq(Calls)]
    /\ \A c \in DOMAIN calls :
          /\ calls[c].by \in Threads /\ calls[c].to \in Bots \cup Threads
          /\ calls[c].state \in {"waiting", "over", "cut"}
    /\ rows \in [Calls -> {"none", "recorded", "dispatched", "failed"}]

-----------------------------------------------------------------------------
(* The bridge (bridge.rs).                                                 *)

Top == frames[Len(frames)]
At(step) == frames # <<>> /\ Top.step = step
Attaching == {f.target : f \in {frames[i] : i \in {j \in DOMAIN frames :
                                              frames[j].step = "attach"}}}

\* tools/call on the loopback endpoint of a session, or of one being made.
Ask(t) ==
    /\ t \in bridges \cap (session \cup Attaching) /\ Len(calls) < MaxCalls
    /\ \E kind \in Kinds :
       \E to \in IF kind = "handoff" THEN Bots
                 ELSE IF kind = "fold" THEN {u \in Threads : thread[u] # "none"}
                 ELSE {t} :
          calls' = Append(calls, [by |-> t, kind |-> kind, to |-> to, state |-> "waiting"])
    /\ rx' = [rx EXCEPT ![t] = Append(@, Len(calls) + 1)]
    /\ UNCHANGED <<chips, thread, session, bridges, turn, queue, rows, frames, moves,
                   crashes, ran>>

\* CALL_TIMEOUT: the connection stops waiting; the call stays where it is.
GiveUp(c) ==
    /\ c \in DOMAIN calls /\ calls[c].state = "waiting"
    /\ calls' = [calls EXCEPT ![c].state = "over"]
    /\ UNCHANGED <<chips, thread, session, bridges, rx, turn, queue, rows, frames,
                   moves, crashes, ran>>

\* The calls once those of cs have lost whoever would answer them.
Disconnected(cs) ==
    [c \in DOMAIN calls |->
        IF c \in cs /\ calls[c].state = "waiting"
          THEN [calls[c] EXCEPT !.state = IF c \in Range(ran) THEN "over" ELSE "cut"]
          ELSE calls[c]]

\* drop_chief_bridge: what the host had not taken from it is gone.
DropBridge(t) ==
    /\ bridges' = bridges \ {t}
    /\ rx' = [rx EXCEPT ![t] = <<>>]
    /\ calls' = Disconnected(Range(rx[t]))

-----------------------------------------------------------------------------
(* Turns and adapters, as far as a task meets them.                        *)

Busy(t) == turn[t] # None \/ queue[t] # <<>>

\* The sender's half of a prompt: the turn is the task's.
Begun(t, task) == turn' = [turn EXCEPT ![t] = task]

\* The adapter of a thread is gone, with its turn and what was queued behind it.
Cleared(t) ==
    /\ session' = session \ {t}
    /\ turn' = [turn EXCEPT ![t] = None]
    /\ queue' = [queue EXCEPT ![t] = <<>>]
    /\ DropBridge(t)

\* The host pumps when it has nothing to do, and at the end of every prompt.
Pumping == frames = <<>> \/ At("pump")

\* A folded thread is back when its turn is over.
Resurfaced(t) == IF thread[t] = "folded" THEN "active" ELSE thread[t]

\* A turn ends, and the next queued prompt is sent.
TurnEnds(t) ==
    /\ Pumping /\ t \in session /\ turn[t] # None
    /\ thread' = [thread EXCEPT ![t] = Resurfaced(t)]
    /\ \/ /\ queue[t] = <<>>
          /\ turn' = [turn EXCEPT ![t] = None]
          /\ UNCHANGED <<session, bridges, rx, queue, calls>>
       \/ /\ queue[t] # <<>>
          /\ Begun(t, Head(queue[t]))
          /\ queue' = [queue EXCEPT ![t] = Tail(@)]
          /\ UNCHANGED <<session, bridges, rx, calls>>
       \/ queue[t] # <<>> /\ Cleared(t)
    /\ UNCHANGED <<chips, rows, frames, moves, crashes, ran>>

\* on_adapter_gone.
AdapterGone(t) ==
    /\ Pumping /\ t \in session
    /\ thread' = [thread EXCEPT ![t] = IF turn[t] # None THEN Resurfaced(t) ELSE @]
    /\ Cleared(t)
    /\ UNCHANGED <<chips, rows, frames, moves, crashes, ran>>

\* mcp_servers_for_thread: a session of a bot with host tools has a bridge.
WithBridge(t) == IF Owner(t) \in chips THEN bridges \cup {t} ELSE bridges

-----------------------------------------------------------------------------
(* pump_chief_tools.                                                       *)

\* Broken: the inner pass answers what has come in meanwhile.
AlwaysDispatch == TRUE

MayDispatch == frames = <<>>

\* Every waiting call is taken at once, one bridge after the other.
TakeCalls ==
    /\ Pumping /\ MayDispatch
    /\ \E t \in bridges : rx[t] # <<>>
    /\ \E order \in SetToSeqs({t \in bridges : rx[t] # <<>>}) :
          frames' = Append(frames,
             [batch |-> [i \in DOMAIN order |-> rx[order[i]]],
              step |-> "next", target |-> None, dispatched |-> FALSE])
    /\ rx' = [t \in Threads |-> IF t \in bridges THEN <<>> ELSE rx[t]]
    /\ UNCHANGED <<chips, thread, session, bridges, turn, queue, calls, rows, moves,
                   crashes, ran>>

Set(f) == frames' = [frames EXCEPT ![Len(frames)] = f]
Call == Head(Head(Top.batch))
By == calls[Call].by

\* A batch without its first call.
Remaining(batch) ==
    IF Len(Head(batch)) > 1 THEN [batch EXCEPT ![1] = Tail(@)] ELSE Tail(batch)

\* The next call of the batch, or the end of the pass.
Onward ==
    IF Remaining(Top.batch) # <<>>
      THEN Set([Top EXCEPT !.batch = Remaining(@), !.step = "next", !.target = None])
      ELSE frames' = Front(frames)

\* The answer, if anyone waits for it.
Answered ==
    /\ calls' = [calls EXCEPT ![Call].state = IF @ = "waiting" THEN "over" ELSE @]
    /\ Onward

Begins == At("next") /\ ran' = Append(ran, Call)

\* A tool the bot has lost, a task for oneself, or a tool that only reads.
AnswerOnly ==
    /\ Begins
    /\ \/ Owner(By) \notin chips
       \/ calls[Call].kind = "status"
       \/ calls[Call].kind = "handoff" /\ Owner(By) = calls[Call].to
    /\ Answered
    /\ UNCHANGED <<chips, thread, session, bridges, rx, turn, queue, rows, moves,
                   crashes>>

\* fold_thread: what is at rest comes straight back (settle_after_fold).
FoldThread ==
    /\ Begins /\ Owner(By) \in chips /\ calls[Call].kind = "fold"
    /\ LET t == calls[Call].to
       IN  thread' = IF thread[t] = "active" /\ turn[t] # None
                       THEN [thread EXCEPT ![t] = "folded"] ELSE thread
    /\ Answered
    /\ UNCHANGED <<chips, session, bridges, rx, turn, queue, rows, moves, crashes>>

\* Broken: an archived thread is stepped over like a deleted one.
StandingOpen(b) ==
    {<<b, g>> : g \in {h \in Generations :
        /\ thread[<<b, h>>] \notin {"deleted", "archived"}
        /\ \A older \in 1..(h - 1) : thread[<<b, older>>] \in {"deleted", "archived"}}}

\* standing_thread_id: the first generation that is no tombstone.
Standing(b) ==
    {<<b, g>> : g \in {h \in Generations :
        /\ thread[<<b, h>>] # "deleted"
        /\ \A older \in 1..(h - 1) : thread[<<b, older>>] = "deleted"}}

\* open_standing_thread: a new row, one brought back, or the one there is.
Opened(t) ==
    [thread EXCEPT ![t] = IF @ \in {"none", "archived"} THEN "active" ELSE @]

Target == IF calls[Call].kind = "spawn" THEN {<<Code, Call>>} ELSE Standing(calls[Call].to)

\* Broken: the task is delivered first and recorded with its outcome.
OpenUnrecorded ==
    /\ Begins /\ Owner(By) \in chips
    /\ \/ calls[Call].kind = "spawn"
       \/ calls[Call].kind = "handoff" /\ Owner(By) # calls[Call].to
    /\ \E t \in Target :
          /\ thread' = Opened(t)
          /\ Set([Top EXCEPT !.step = "deliver", !.target = t])
    /\ UNCHANGED <<chips, session, bridges, rx, turn, queue, calls, rows, moves, crashes>>

\* handoff_to_bot and spawn_code_session open the thread the task is for.
Open ==
    /\ Begins /\ Owner(By) \in chips
    /\ \/ calls[Call].kind = "spawn"
       \/ calls[Call].kind = "handoff" /\ Owner(By) # calls[Call].to
    /\ \E t \in Target :
          /\ thread' = Opened(t)
          /\ Set([Top EXCEPT !.step = "record", !.target = t])
    /\ UNCHANGED <<chips, session, bridges, rx, turn, queue, calls, rows, moves,
                   crashes>>

\* Too many tombstones, or no worktree to be had.
OpenFails ==
    /\ Begins /\ Owner(By) \in chips
    /\ \/ calls[Call].kind = "spawn"
       \/ calls[Call].kind = "handoff" /\ Owner(By) # calls[Call].to /\ Target = {}
    /\ Answered
    /\ UNCHANGED <<chips, thread, session, bridges, rx, turn, queue, rows, moves,
                   crashes>>

Record ==
    /\ At("record")
    /\ rows' = [rows EXCEPT ![Call] = "recorded"]
    /\ Set([Top EXCEPT !.step = "deliver"])
    /\ UNCHANGED <<chips, thread, session, bridges, rx, turn, queue, calls, moves,
                   crashes, ran>>

\* deliver: behind a turn in flight, on the session there is, or on a new one.
Queue ==
    /\ At("deliver") /\ Busy(Top.target)
    /\ queue' = [queue EXCEPT ![Top.target] = Append(@, Call)]
    /\ Set([Top EXCEPT !.step = "settle", !.dispatched = TRUE])
    /\ UNCHANGED <<chips, thread, session, bridges, rx, turn, calls, rows, moves,
                   crashes, ran>>

Send ==
    /\ At("deliver") /\ ~Busy(Top.target) /\ Top.target \in session
    /\ Begun(Top.target, Call)
    /\ Set([Top EXCEPT !.step = "pump"])
    /\ UNCHANGED <<chips, thread, session, bridges, rx, queue, calls, rows, moves,
                   crashes, ran>>

\* forget_adapter: the bridge is left.
SendFails ==
    /\ At("deliver") /\ ~Busy(Top.target) /\ Top.target \in session
    /\ session' = session \ {Top.target}
    /\ Set([Top EXCEPT !.step = "settle", !.dispatched = FALSE])
    /\ UNCHANGED <<chips, thread, bridges, rx, turn, queue, calls, rows, moves, crashes,
                   ran>>

\* The bridge is there before the session is, unless it could not be opened.
Attach ==
    /\ At("deliver") /\ ~Busy(Top.target) /\ Top.target \notin session
    /\ bridges' \in {bridges, WithBridge(Top.target)}
    /\ Set([Top EXCEPT !.step = "attach"])
    /\ UNCHANGED <<chips, thread, session, rx, turn, queue, calls, rows, moves, crashes,
                   ran>>

Attached ==
    /\ At("attach")
    /\ session' = session \cup {Top.target}
    /\ Begun(Top.target, Call)
    /\ Set([Top EXCEPT !.step = "pump"])
    /\ UNCHANGED <<chips, thread, bridges, rx, queue, calls, rows, moves, crashes, ran>>

AttachFails ==
    /\ At("attach")
    /\ Set([Top EXCEPT !.step = "settle", !.dispatched = FALSE])
    /\ UNCHANGED <<chips, thread, session, bridges, rx, turn, queue, calls, rows, moves,
                   crashes, ran>>

Pumped ==
    /\ At("pump")
    /\ Set([Top EXCEPT !.step = "settle", !.dispatched = TRUE])
    /\ UNCHANGED <<chips, thread, session, bridges, rx, turn, queue, calls, rows, moves,
                   crashes, ran>>

\* settle_handoff, and the answer.
Settle ==
    /\ At("settle")
    /\ rows' = [rows EXCEPT ![Call] = IF Top.dispatched THEN "dispatched" ELSE "failed"]
    /\ Answered
    /\ UNCHANGED <<chips, thread, session, bridges, rx, turn, queue, moves, crashes, ran>>

-----------------------------------------------------------------------------
(* The user, and the host's own end.                                       *)

Idle == frames = <<>>
Moves == Idle /\ moves < MaxMoves /\ moves' = moves + 1

\* crew/thread opens a bot's standing thread before it is prompted; a prompt by
\* itself reads no state, and leaves an archived or a deleted thread as it is.
UserPrompts(t) ==
    /\ Moves /\ ~Busy(t)
    /\ \/ t \in UNION {Standing(b) : b \in Bots} /\ thread' = Opened(t)
       \/ thread[t] # "none" /\ UNCHANGED thread
    /\ bridges' = IF t \in session THEN bridges ELSE WithBridge(t)
    /\ session' = session \cup {t}
    /\ Begun(t, User)
    /\ UNCHANGED <<chips, rx, queue, calls, rows, frames, crashes, ran>>

\* thread/archive and thread/delete close the thread's work out.
Archive(t) ==
    /\ Moves /\ thread[t] \in {"active", "folded"}
    /\ thread' = [thread EXCEPT ![t] = "archived"]
    /\ Cleared(t)
    /\ UNCHANGED <<chips, rows, frames, crashes, ran>>

Delete(t) ==
    /\ Moves /\ thread[t] \in {"active", "folded", "archived"}
    /\ thread' = [thread EXCEPT ![t] = "deleted"]
    /\ Cleared(t)
    /\ UNCHANGED <<chips, rows, frames, crashes, ran>>

Edit(b) ==
    /\ Moves
    /\ chips' = IF b \in chips THEN chips \ {b} ELSE chips \cup {b}
    /\ UNCHANGED <<thread, session, bridges, rx, turn, queue, calls, rows, frames,
                   crashes, ran>>

\* The host stops at any point and is started again: every turn is lost.
Relaunch ==
    /\ crashes < MaxCrashes
    /\ crashes' = crashes + 1
    /\ thread' = [t \in Threads |-> IF turn[t] # None THEN Resurfaced(t) ELSE thread[t]]
    /\ session' = {} /\ bridges' = {} /\ frames' = <<>>
    /\ rx' = [t \in Threads |-> <<>>] /\ queue' = [t \in Threads |-> <<>>]
    /\ turn' = [t \in Threads |-> None]
    /\ calls' = Disconnected(DOMAIN calls)
    /\ UNCHANGED <<chips, rows, moves, ran>>

-----------------------------------------------------------------------------
Init ==
    /\ chips = Bots
    /\ thread = [t \in Threads |-> "none"]
    /\ session = {} /\ bridges = {}
    /\ rx = [t \in Threads |-> <<>>] /\ queue = [t \in Threads |-> <<>>]
    /\ turn = [t \in Threads |-> None]
    /\ calls = <<>>
    /\ rows = [c \in Calls |-> "none"]
    /\ frames = <<>>
    /\ moves = 0 /\ crashes = 0
    /\ ran = <<>>

Dispatch ==
    \/ AnswerOnly \/ FoldThread \/ Open \/ OpenFails \/ Record
    \/ Queue \/ Send \/ SendFails \/ Attach \/ Attached \/ AttachFails \/ Pumped \/ Settle

Next ==
    \/ TakeCalls \/ Dispatch \/ Relaunch
    \/ \E t \in Threads : \/ Ask(t) \/ TurnEnds(t) \/ AdapterGone(t)
                          \/ UserPrompts(t) \/ Archive(t) \/ Delete(t)
    \/ \E c \in Calls : GiveUp(c)
    \/ \E b \in Bots : Edit(b)

Spec == Init /\ [][Next]_vars

-----------------------------------------------------------------------------
(* Properties.                                                             *)

\* "The guard makes the inner pass a no-op rather than letting one tool call
\* answer another mid-flight" (pump_chief_tools): the calls of one session are
\* carried out in the order it made them, each to its end.
UnderWay == {Head(Head(frames[i].batch)) : i \in {j \in DOMAIN frames : frames[j].step # "next"}}

CallsInOrder ==
    \A i, j \in DOMAIN ran :
        i < j /\ calls[ran[i]].by = calls[ran[j]].by =>
            ran[i] < ran[j] /\ ran[i] \notin UnderWay

\* A call whose agent was told JaBot stopped before answering was not begun.
CutNeverRan == \A c \in Range(ran) : calls[c].state # "cut"

\* Both: calls are carried out in order, or not at all.
CallsAreKept == TypeOK /\ CallsInOrder /\ CutNeverRan

\* "A handoff is recorded before it is delivered": whatever part of the host's
\* work a crash cuts off, a task an agent has, or will be given, is on record, and
\* not as one that was not dispatched.
TasksAreOnRecord ==
    \A t \in Threads : \A c \in ({turn[t]} \cup Range(queue[t])) \cap Calls :
        rows[c] \notin {"none", "failed"}

\* "The live standing thread is still exactly one" (standing_thread_id), however
\* handoffs, the user's archiving, reopening and deleting fall together.
OneStandingThread ==
    \A b \in Bots : \A g, h \in Generations :
        thread[<<b, g>>] \notin {"none", "deleted"} /\ thread[<<b, h>>] \notin {"none", "deleted"}
            => g = h

\* "A handoff arriving afterwards has to land somewhere the human can see"
\* (open_standing_thread): a task waits or runs only on a thread that is open or
\* asleep, whatever the user prompts, archives and deletes besides.
HasTask(t) == turn[t] \in Calls \/ queue[t] # <<>>

WorkIsInSight ==
    \A t \in Threads : HasTask(t) => thread[t] \in {"active", "folded"}

\* All three: what a bot hands over can be accounted for and seen, in one place.
HandoffsStand == TasksAreOnRecord /\ WorkIsInSight /\ OneStandingThread

\* "The listener serving them should not outlive it" (on_adapter_gone).  A prompt
\* that is refused forgets the adapter and leaves the listener.
ListenerGoesWithSession == Idle => bridges \subseteq session

=============================================================================
