-------------------------------- MODULE Pool --------------------------------
(***************************************************************************)
(* One adapter process shared by several threads: which thread an inbound  *)
(* event belongs to, how a thread is attached to a process that is already *)
(* serving others, and how it leaves.                                      *)
(*                                                                         *)
(* The threads are those of one profile-scoped harness, so they resolve to *)
(* one connection key.  The host does one thing at a time, but the reader  *)
(* thread of a connection fills its queue at any moment: also while the    *)
(* host waits for the answer to a request (call), drains the queue (phase) *)
(* or handles what it drained (batch).                                     *)
(***************************************************************************)
EXTENDS Integers, FiniteSets, Sequences, SequencesExt

CONSTANTS
    Threads,        \* the threads of the profile
    Nobody,         \* no thread
    Abilities,      \* what an adapter may advertise: sets of "resume", "load",
                    \* "close", and "states": it says by itself that a turn is over
    Anonymous,      \* whether it leaves out the session id while it serves one
    MaxSessions,    \* bound: sessions the agent makes
    MaxPrompts,     \* bound: prompts the user sends
    MaxUpdates,     \* bound: updates of the agent, replayed ones included
    MaxAsks,        \* bound: blocking requests of the agent
    MaxProcs,       \* bound: processes spawned
    MaxLeaves       \* bound: archives and evictions

ASSUME PoolAssumption ==
    /\ IsFiniteSet(Threads) /\ Nobody \notin Threads
    /\ Abilities \subseteq SUBSET {"resume", "load", "close", "states"}
    /\ Anonymous \in BOOLEAN
    /\ {MaxSessions, MaxPrompts, MaxUpdates, MaxAsks, MaxProcs, MaxLeaves} \subseteq Nat

VARIABLES
    stored,     \* on disk: the session a thread may resume, or 0
    transcript, \* on disk: the sessions whose updates a thread's log holds
    run,        \* on disk: the prompt whose run is open, or 0
    early,      \* (history) the prompts whose run another ending than their own took
    up,         \* whether the host runs; a panic stops it
    conn,       \* the connection of the profile
    queue,      \* events read from the adapter and not drained (inbound_rx)
    phase,      \* what the host does with the queue
    batch,      \* events drained and routed, and not handled yet
    call,       \* the request the host waits on, for whom and why
    held,       \* the blocking requests put in front of the user, per thread
    waiting,    \* whether a prompt is held back behind the thread's turn
    agent,      \* the adapter process
    made,       \* made[s]: the thread session s was made for
    count       \* prompts, updates, asks, processes and leaves so far

vars == <<stored, transcript, run, early, up, conn, queue, phase, batch, call, held, waiting,
          agent, made, count>>
disk == <<stored, transcript, run, early>>

-----------------------------------------------------------------------------
(* Types and absent values.                                                *)

Sessions == 1..MaxSessions
Requests == 1..MaxPrompts
Events == [type : {"update", "replay", "ended", "permission", "extension", "result", "closed"},
           session : 0..MaxSessions, id : Nat, named : BOOLEAN]
Routed == [to : Threads, event : Events, by : {"pump", "settle"}]

Vacant(isUp) == [up |-> isUp, ready |-> FALSE,
                 sessions |-> [t \in Threads |-> 0],
                 bySession |-> [s \in Sessions |-> Nobody],
                 owners |-> [r \in Requests |-> Nobody]]
NoConn == Vacant(FALSE)
FreshConn == Vacant(TRUE)
NoAgent == [alive |-> FALSE, eof |-> TRUE, able |-> {}, open |-> {}, turns |-> {}, blocked |-> {}]
NoCall == [at |-> "none", thread |-> Nobody, why |-> "prompt", session |-> 0, reply |-> "none"]

TypeOK ==
    /\ stored \in [Threads -> 0..MaxSessions]
    /\ transcript \in [Threads -> SUBSET Sessions]
    /\ run \in [Threads -> 0..MaxPrompts] /\ early \subseteq Requests
    /\ up \in BOOLEAN
    /\ conn \in [up : BOOLEAN, ready : BOOLEAN, sessions : [Threads -> 0..MaxSessions],
                 bySession : [Sessions -> Threads \cup {Nobody}],
                 owners : [Requests -> Threads \cup {Nobody}]]
    /\ queue \in Seq(Events) /\ batch \in Seq(Routed)
    /\ phase \in {"idle", "pump", "settle", "handle"}
    /\ call \in [at : {"none", "initialize", "resume", "load", "new", "settling", "send"},
                 thread : Threads \cup {Nobody}, why : {"prompt", "resume"},
                 session : 0..MaxSessions, reply : {"none", "yes", "no"}]
    /\ held \in [Threads -> SUBSET (1..MaxAsks)]
    /\ waiting \in [Threads -> BOOLEAN]
    /\ agent.able \subseteq {"resume", "load", "close", "states"} /\ agent.open \subseteq Sessions
    /\ made \in Seq(Threads) /\ Len(made) <= MaxSessions
    /\ count \in [prompts : 0..MaxPrompts, updates : 0..MaxUpdates, asks : 0..MaxAsks,
                  procs : 0..MaxProcs, leaves : 0..MaxLeaves]

-----------------------------------------------------------------------------
(* Tenancy: the tables of a connection.                                    *)

Tenants(c) == {t \in Threads : c.sessions[t] # 0}
HasAdapter(t) == conn.up /\ conn.sessions[t] # 0
IsVacant(c) == Tenants(c) = {}

Adopt(c, t, s) ==
    [c EXCEPT !.sessions[t] = s,
              !.bySession = [x \in Sessions |->
                  IF x = s THEN t
                  ELSE IF x = c.sessions[t] THEN Nobody ELSE @[x]]]

\* Broken: the prompt of a thread that left keeps its owner.
ReleaseSessions(c, ts) ==
    [c EXCEPT !.sessions = [t \in Threads |-> IF t \in ts THEN 0 ELSE @[t]],
              !.bySession = [s \in Sessions |-> IF @[s] \in ts THEN Nobody ELSE @[s]]]
Release(c, ts) ==
    [c EXCEPT !.sessions = [t \in Threads |-> IF t \in ts THEN 0 ELSE @[t]],
              !.bySession = [s \in Sessions |-> IF @[s] \in ts THEN Nobody ELSE @[s]],
              !.owners = [r \in Requests |-> IF @[r] \in ts THEN Nobody ELSE @[r]]]

\* A session it names, or the one there is.
OwnerOfSession(c, e) ==
    IF e.named THEN {c.bySession[e.session]} \ {Nobody}
    ELSE IF Cardinality(Tenants(c)) = 1 THEN Tenants(c) ELSE {}

\* Whose an inbound event is.
Route(c, e) ==
    CASE e.type = "closed" -> Tenants(c)
      [] e.type = "result" -> IF e.id = 0 THEN {} ELSE {c.owners[e.id]} \ {Nobody}
      [] OTHER -> OwnerOfSession(c, e)

\* Routing a response spends its entry.
Spent(c, e) ==
    IF e.type = "result" /\ e.id # 0 THEN [c EXCEPT !.owners[e.id] = Nobody] ELSE c

Handed(owners, e, how) ==
    [i \in 1..Cardinality(owners) |-> [to |-> SetToSeq(owners)[i], event |-> e, by |-> how]]

-----------------------------------------------------------------------------
(* Leaving.                                                                *)

\* Broken: the process goes with the first thread that leaves.
IfAnyLeft(c) == NoConn
\* A connection nobody rides is removed, and its process killed with it.
IfRidden(c) == IF IsVacant(c) THEN NoConn ELSE c
Leaves(c, a) ==
    /\ conn' = IfRidden(c)
    /\ agent' = IF conn'.up THEN a ELSE NoAgent
    /\ queue' = IF conn'.up THEN queue ELSE <<>>

\* forget_adapter: nothing is said to the agent.
ForgetAdapter(t, a) == Leaves(Release(conn, {t}), a)

\* The asks of a thread are answered "cancelled".
Answered(a, asks) == [a EXCEPT !.blocked = {b \in @ : b.id \notin asks}]

\* The agent lets go of a session.
Closed(a, s) ==
    [a EXCEPT !.open = @ \ {s}, !.turns = {x \in @ : x.session # s},
              !.blocked = {x \in @ : x.session # s}]

\* drop_adapter: the session is closed first, where the agent can and does.
DropAdapter(t) ==
    LET a == Answered(agent, held[t])
    IN \/ Leaves(Release(conn, {t}), a)
       \/ /\ conn.sessions[t] # 0 /\ "close" \in agent.able
          /\ Leaves(Release(conn, {t}), Closed(a, conn.sessions[t]))

-----------------------------------------------------------------------------
(* Attaching a thread.                                                     *)

\* The prompts sent and those held back.
Promised == count.prompts + Cardinality({t \in Threads : waiting[t]})

Idle == up /\ call = NoCall /\ phase = "idle"

Waits(t, why, at) == [at |-> at, thread |-> t, why |-> why, session |-> stored[t],
                      reply |-> "none"]

\* How a stored session is asked back: the best the agent advertises.
Restore(t, why, able, resumable) ==
    IF resumable /\ "resume" \in able THEN Waits(t, why, "resume")
    ELSE IF resumable /\ "load" \in able THEN Waits(t, why, "load")
    ELSE Waits(t, why, "new")

\* ensure_connection: ride the process that is there, or spawn one.
EnsureConnection ==
    \/ /\ conn.up /\ UNCHANGED <<conn, agent, queue, count>>
    \/ /\ ~conn.up /\ count.procs < MaxProcs
       /\ count' = [count EXCEPT !.procs = @ + 1]
       /\ conn' = FreshConn /\ queue' = <<>>
       /\ \E able \in Abilities : agent' = [NoAgent EXCEPT !.alive = TRUE, !.eof = FALSE, !.able = able]

\* A prompt on a thread without a session, or thread/resume on one that had one.
Attach(t) ==
    /\ Idle /\ ~HasAdapter(t)
    /\ EnsureConnection
    /\ \E why \in {"prompt", "resume"} :
        /\ why = "resume" => stored[t] # 0
        /\ why = "prompt" => Promised < MaxPrompts
        /\ call' = Waits(t, why, "initialize")
    /\ UNCHANGED <<disk, up, phase, batch, held, waiting, made>>

CallIs(at) == up /\ call.at = at /\ phase = "idle"
Refused == call.reply # "yes"

\* initialize is over, or was before.  A drifted session is not asked back.
Initialized ==
    /\ CallIs("initialize") /\ (conn.ready \/ call.reply = "yes")
    /\ conn' = [conn EXCEPT !.ready = TRUE]
    /\ \E drifted \in BOOLEAN :
        /\ call.why = "resume" => ~drifted
        /\ call' = Restore(call.thread, call.why, agent.able,
                           stored[call.thread] # 0 /\ ~drifted)
    /\ UNCHANGED <<disk, up, queue, phase, batch, held, waiting, agent, made, count>>

\* The handshake failed.  thread/resume returns the error and leaves the
\* process.  A prompt that meant to restore a session goes on to a new one,
\* with a second handshake; one that did not forgets the process.
InitializeFailed ==
    /\ CallIs("initialize") /\ ~conn.ready /\ Refused
    /\ \/ /\ call.why = "resume"
          /\ call' = NoCall /\ UNCHANGED <<conn, agent, queue>>
       \/ /\ call.why = "prompt" /\ stored[call.thread] # 0
          /\ call' = Waits(call.thread, "prompt", "new") /\ UNCHANGED <<conn, agent, queue>>
       \/ /\ call.why = "prompt"
          /\ call' = NoCall /\ ForgetAdapter(call.thread, agent)
    /\ UNCHANGED <<disk, up, phase, batch, held, waiting, made, count>>

\* The session is back: a resume is over, a prompt goes on to be sent.
AttachedCall(s) ==
    IF call.why = "prompt" THEN [call EXCEPT !.at = "send", !.session = s, !.reply = "none"]
    ELSE NoCall

Resumed ==
    /\ CallIs("resume") /\ call.reply = "yes"
    /\ conn' = Adopt(conn, call.thread, call.session)
    /\ call' = AttachedCall(call.session)
    /\ UNCHANGED <<disk, up, queue, phase, batch, held, waiting, agent, made, count>>

ResumeFailed ==
    /\ CallIs("resume") /\ Refused
    /\ call' = Waits(call.thread, call.why, IF "load" \in agent.able THEN "load" ELSE "new")
    /\ UNCHANGED <<disk, up, conn, queue, phase, batch, held, waiting, agent, made, count>>

\* The agent has replayed the conversation into the queue; settle it.
Loaded ==
    /\ CallIs("load") /\ call.reply = "yes"
    /\ conn' = Adopt(conn, call.thread, call.session)
    /\ phase' = "settle"
    /\ call' = [call EXCEPT !.at = "settling"]
    /\ UNCHANGED <<disk, up, queue, batch, held, waiting, agent, made, count>>

LoadFailed ==
    /\ CallIs("load") /\ Refused
    /\ call' = Waits(call.thread, call.why, "new")
    /\ UNCHANGED <<disk, up, conn, queue, phase, batch, held, waiting, agent, made, count>>

\* The replay is settled and handled.
Settled ==
    /\ CallIs("settling")
    /\ call' = AttachedCall(call.session)
    /\ UNCHANGED <<disk, up, conn, queue, phase, batch, held, waiting, agent, made, count>>

\* thread/resume makes no new session: the process is dropped instead.
ResumeUnsupported ==
    /\ CallIs("new") /\ call.why = "resume"
    /\ DropAdapter(call.thread)
    /\ call' = NoCall
    /\ UNCHANGED <<disk, up, phase, batch, held, waiting, made, count>>

NewSession ==
    /\ CallIs("new") /\ call.why = "prompt" /\ call.reply = "yes"
    /\ conn' = [Adopt(conn, call.thread, call.session) EXCEPT !.ready = TRUE]
    /\ call' = AttachedCall(call.session)
    /\ UNCHANGED <<disk, up, queue, phase, batch, held, waiting, agent, made, count>>

NewSessionFailed ==
    /\ CallIs("new") /\ call.why = "prompt" /\ Refused
    /\ ForgetAdapter(call.thread, agent)
    /\ call' = NoCall
    /\ UNCHANGED <<disk, up, phase, batch, held, waiting, made, count>>

-----------------------------------------------------------------------------
(* Sending prompts.                                                        *)

\* A write reaches an agent that lives; a dead one's pipe takes it only while
\* something it left behind still holds the other end.
PipeOpen == agent.alive \/ ~agent.eof

\* send_prompt: the owner is recorded before the bytes land, and the run opens
\* after; a write that fails forgets the adapter.
Sent(t, s, a) ==
    LET r == count.prompts + 1
    IN /\ PipeOpen
       /\ conn' = [conn EXCEPT !.owners[r] = t]
       /\ agent' = IF a.alive THEN [a EXCEPT !.turns = @ \cup {[id |-> r, session |-> s]}] ELSE a
       /\ run' = [run EXCEPT ![t] = r]
       /\ transcript' = [transcript EXCEPT ![t] = @ \cup {s}]
       /\ count' = [count EXCEPT !.prompts = r]
       /\ UNCHANGED queue

\* The user's prompt on a session that is there, with none to overtake.
PromptOnSession(t) ==
    /\ Idle /\ HasAdapter(t) /\ run[t] = 0 /\ ~waiting[t] /\ Promised < MaxPrompts
    /\ call' = [NoCall EXCEPT !.at = "send", !.thread = t, !.session = conn.sessions[t]]
    /\ UNCHANGED <<disk, up, conn, queue, phase, batch, held, waiting, agent, made, count>>

\* A turn owns the session: the prompt waits.
PromptHeldBack(t) ==
    /\ Idle /\ HasAdapter(t) /\ run[t] # 0 /\ ~waiting[t] /\ Promised < MaxPrompts
    /\ waiting' = [waiting EXCEPT ![t] = TRUE]
    /\ UNCHANGED <<disk, up, conn, queue, phase, batch, call, held, agent, made, count>>

SendPrompt ==
    /\ CallIs("send") /\ conn.up
    /\ stored' = [stored EXCEPT ![call.thread] = call.session]
    /\ \/ /\ Sent(call.thread, call.session, agent)
          /\ phase' = "pump"
       \/ /\ ForgetAdapter(call.thread, agent)
          /\ UNCHANGED <<transcript, run, count, phase>>
    /\ call' = NoCall
    /\ UNCHANGED <<early, up, batch, held, waiting, made>>

\* The process is gone from under the prompt: conn_mut(..).expect("spawned").
Panic ==
    /\ CallIs("send") /\ ~conn.up
    /\ up' = FALSE
    /\ UNCHANGED <<disk, conn, queue, phase, batch, call, held, waiting, agent, made, count>>

-----------------------------------------------------------------------------
(* Draining the queue: everything is routed before anything is handled.    *)

StartPump ==
    /\ Idle /\ conn.up /\ queue # <<>>
    /\ phase' = "pump"
    /\ UNCHANGED <<disk, up, conn, queue, batch, call, held, waiting, agent, made, count>>

\* Broken: nobody answers it.
UnownedDropped(e) == agent
\* An extension request nobody owns is refused, another event is dropped.
Unowned(e) == IF e.type = "extension" THEN Answered(agent, {e.id}) ELSE agent

\* One event is routed.
Drain ==
    /\ up /\ phase = "pump" /\ queue # <<>>
    /\ LET e == Head(queue)
           owners == Route(conn, e)
       IN /\ batch' = batch \o Handed(owners, e, "pump")
          /\ conn' = Spent(conn, e)
          /\ agent' = IF owners = {} THEN Unowned(e) ELSE agent
    /\ queue' = Tail(queue)
    /\ UNCHANGED <<disk, up, phase, call, held, waiting, made, count>>

\* settle_replay: this thread's replay is dropped if its log is not empty; what
\* has no owner, or several, is handled as this thread's.
Settle ==
    /\ up /\ phase = "settle" /\ queue # <<>>
    /\ LET e == Head(queue)
           owners == Route(conn, e)
           replayed == e.type \in {"update", "replay", "ended"} /\ call.thread \in owners
       IN /\ batch' = IF replayed /\ transcript[call.thread] # {} THEN batch
                      ELSE batch \o Handed(IF Cardinality(owners) = 1 THEN owners
                                           ELSE {call.thread}, e, "settle")
          /\ conn' = Spent(conn, e)
    /\ queue' = Tail(queue)
    /\ UNCHANGED <<disk, up, phase, call, held, waiting, agent, made, count>>

Drained ==
    /\ up /\ phase \in {"pump", "settle"} /\ queue = <<>>
    /\ phase' = "handle"
    /\ UNCHANGED <<disk, up, conn, queue, batch, call, held, waiting, agent, made, count>>

-----------------------------------------------------------------------------
(* Handling what was drained.                                              *)

Handle(types) ==
    /\ up /\ phase = "handle" /\ batch # <<>> /\ Head(batch).event.type \in types
    /\ batch' = Tail(batch)
    /\ UNCHANGED <<stored, up, phase, call, made>>

HandleUpdate ==
    /\ Handle({"update", "replay"})
    /\ LET b == Head(batch)
       IN transcript' = [transcript EXCEPT ![b.to] = @ \cup {b.event.session}]
    /\ UNCHANGED <<run, early, conn, queue, held, waiting, agent, count>>

\* The agent says the turn of a session is over: the run ends.  The response is
\* still owed, its owner known; nothing held back goes out, and no ask expires.
HandleEnded ==
    /\ Handle({"ended"})
    /\ LET b == Head(batch)
       IN /\ transcript' = [transcript EXCEPT ![b.to] = @ \cup {b.event.session}]
          /\ run' = [run EXCEPT ![b.to] = 0]
          /\ early' = early \cup ({run[b.to]} \ {0})
    /\ UNCHANGED <<conn, queue, held, waiting, agent, count>>

HandleAsk ==
    /\ Handle({"permission", "extension"})
    /\ LET b == Head(batch)
       IN held' = [held EXCEPT ![b.to] = @ \cup {b.event.id}]
    /\ UNCHANGED <<transcript, run, early, conn, queue, waiting, agent, count>>

\* The prompt held back goes out, or is dropped with the adapter.
HeldBackGoes(t, a) ==
    \/ /\ waiting[t] /\ HasAdapter(t)
       /\ Sent(t, conn.sessions[t], a)
    \/ /\ waiting[t]
       /\ run' = [run EXCEPT ![t] = 0]
       /\ ForgetAdapter(t, a)
       /\ UNCHANGED <<transcript, count>>
NextPrompt(t, a) ==
    \/ /\ ~waiting[t]
       /\ agent' = a /\ run' = [run EXCEPT ![t] = 0]
       /\ UNCHANGED <<conn, queue, transcript, count>>
    \/ HeldBackGoes(t, a)

\* The turn is over: its asks expire, the run that is open ends, whichever it is,
\* and the next prompt goes out.
HandleResult ==
    /\ Handle({"result"})
    /\ LET t == Head(batch).to
       IN /\ early' = IF Head(batch).event.id \in early THEN early \cup ({run[t]} \ {0})
                      ELSE early
          /\ NextPrompt(t, Answered(agent, held[t]))
          /\ held' = [held EXCEPT ![t] = {}]
          /\ waiting' = [waiting EXCEPT ![t] = FALSE]

\* on_adapter_gone, for some threads: asks are lost, the thread is released,
\* what it held back is dropped, its run ends.
Gone(ts) ==
    /\ Leaves(Release(conn, ts), agent)
    /\ run' = [t \in Threads |-> IF t \in ts THEN 0 ELSE run[t]]
    /\ held' = [t \in Threads |-> IF t \in ts THEN {} ELSE held[t]]
    /\ waiting' = [t \in Threads |-> waiting[t] /\ t \notin ts]

HandleClosed ==
    /\ Handle({"closed"})
    /\ Gone({Head(batch).to})
    /\ UNCHANGED <<transcript, early, count>>

Handled ==
    /\ up /\ phase = "handle" /\ batch = <<>>
    /\ phase' = "idle"
    /\ UNCHANGED <<disk, up, conn, queue, batch, call, held, waiting, agent, made, count>>

-----------------------------------------------------------------------------
(* What takes a thread off the process.                                    *)

\* The probe finds the process dead, whatever its pipe says.
Reap ==
    /\ Idle /\ conn.up /\ ~agent.alive
    /\ Gone(Tenants(conn))
    /\ UNCHANGED <<stored, transcript, early, up, phase, batch, call, made, count>>

\* drain_stranded_queues: a turn ended and its response never came, so nothing
\* sent what was held back behind it.
DrainStranded(t) ==
    /\ Idle /\ HasAdapter(t) /\ waiting[t] /\ run[t] = 0 /\ held[t] = {}
    /\ HeldBackGoes(t, agent)
    /\ waiting' = [waiting EXCEPT ![t] = FALSE]
    /\ UNCHANGED <<stored, early, up, phase, batch, call, held, made>>

\* An archive ends the run; an eviction only takes a thread that has none and
\* could come back.
Leave(t) ==
    /\ Idle /\ count.leaves < MaxLeaves /\ HasAdapter(t)
    /\ count' = [count EXCEPT !.leaves = @ + 1]
    /\ run' = [run EXCEPT ![t] = 0]
    /\ held' = [held EXCEPT ![t] = {}]
    /\ waiting' = [waiting EXCEPT ![t] = FALSE]
    /\ DropAdapter(t)
    /\ UNCHANGED <<stored, transcript, early, up, phase, batch, call, made>>

\* The user decides an ask.
Decide(t) ==
    /\ Idle
    /\ \E a \in held[t] :
        /\ held' = [held EXCEPT ![t] = @ \ {a}]
        /\ agent' = Answered(agent, {a})
    /\ UNCHANGED <<disk, up, conn, queue, phase, batch, call, waiting, made, count>>

-----------------------------------------------------------------------------
(* The agent.                                                              *)

Says(e) == queue' = Append(queue, e)
Event(type, s, id, named) == [type |-> type, session |-> s, id |-> id, named |-> named]
AgentOnly == UNCHANGED <<disk, up, conn, phase, batch, held, waiting>>

\* It may leave out the id of the only session it serves.
Names(s) == IF Anonymous /\ agent.open = {s} THEN BOOLEAN ELSE {TRUE}

\* A v2 agent may report that it is idle and why, before the response to the
\* prompt, after it or instead of it.
Reports == IF "states" \in agent.able THEN {"update", "ended"} ELSE {"update"}

Speak(s) ==
    /\ agent.alive /\ count.updates < MaxUpdates
    /\ \E named \in Names(s), type \in Reports : Says(Event(type, s, 0, named))
    /\ count' = [count EXCEPT !.updates = @ + 1]
    /\ AgentOnly /\ UNCHANGED <<call, agent, made>>

\* A turn stops to ask, by a permission or by an extension method.
Ask(x, type) ==
    /\ agent.alive /\ count.asks < MaxAsks
    /\ \A b \in agent.blocked : b.session # x.session
    /\ LET id == count.asks + 1
       IN /\ agent' = [agent EXCEPT !.blocked = @ \cup
                          {[id |-> id, session |-> x.session, type |-> type]}]
          /\ \E named \in Names(x.session) : Says(Event(type, x.session, id, named))
          /\ count' = [count EXCEPT !.asks = id]
    /\ AgentOnly /\ UNCHANGED <<call, made>>

\* A turn ends: the response names the request and no session.
Finish(x) ==
    /\ agent.alive
    /\ \A b \in agent.blocked : b.session # x.session
    /\ agent' = [agent EXCEPT !.turns = @ \ {x}]
    /\ Says(Event("result", x.session, x.id, FALSE))
    /\ AgentOnly /\ UNCHANGED <<call, made, count>>

Asked(at) == agent.alive /\ call.at = at /\ call.reply = "none"
Replies(reply) == call' = [call EXCEPT !.reply = reply]
Serves(s) == agent' = [agent EXCEPT !.open = @ \cup {s}]

ReplyInitialize ==
    /\ Asked("initialize")
    /\ Replies("yes")
    /\ AgentOnly /\ UNCHANGED <<queue, agent, made, count>>

\* The session is opened; the host may be told, or may have stopped waiting.
ReplyResume ==
    /\ Asked("resume")
    /\ Serves(call.session)
    /\ \E reply \in {"yes", "no"} : Replies(reply)
    /\ AgentOnly /\ UNCHANGED <<queue, made, count>>

\* The conversation is replayed before the answer.
ReplyLoad ==
    /\ Asked("load")
    /\ Serves(call.session)
    /\ \E reply \in {"yes", "no"} : Replies(reply)
    /\ \/ UNCHANGED <<queue, count>>
       \/ /\ count.updates < MaxUpdates
          /\ Says(Event("replay", call.session, 0, TRUE))
          /\ count' = [count EXCEPT !.updates = @ + 1]
    /\ AgentOnly /\ UNCHANGED made

ReplyNew ==
    /\ Asked("new") /\ call.why = "prompt" /\ Len(made) < MaxSessions
    /\ made' = Append(made, call.thread)
    /\ Serves(Len(made'))
    /\ \E reply \in {"yes", "no"} :
         call' = [call EXCEPT !.reply = reply, !.session = Len(made')]
    /\ AgentOnly /\ UNCHANGED <<queue, count>>

\* It dies.  A process it left behind may hold its pipes open for a while.
Die ==
    /\ agent.alive
    /\ \/ /\ agent' = [agent EXCEPT !.alive = FALSE, !.eof = TRUE]
          /\ Says(Event("closed", 0, 0, FALSE))
       \/ /\ agent' = [agent EXCEPT !.alive = FALSE] /\ UNCHANGED queue
    /\ AgentOnly /\ UNCHANGED <<call, made, count>>

PipeCloses ==
    /\ conn.up /\ ~agent.alive /\ ~agent.eof
    /\ agent' = [agent EXCEPT !.eof = TRUE]
    /\ Says(Event("closed", 0, 0, FALSE))
    /\ AgentOnly /\ UNCHANGED <<call, made, count>>

-----------------------------------------------------------------------------

Init ==
    /\ stored = [t \in Threads |-> 0]
    /\ transcript = [t \in Threads |-> {}]
    /\ run = [t \in Threads |-> 0] /\ early = {}
    /\ up = TRUE /\ conn = NoConn /\ queue = <<>> /\ phase = "idle" /\ batch = <<>>
    /\ call = NoCall
    /\ held = [t \in Threads |-> {}]
    /\ waiting = [t \in Threads |-> FALSE]
    /\ agent = NoAgent /\ made = <<>>
    /\ count = [prompts |-> 0, updates |-> 0, asks |-> 0, procs |-> 0, leaves |-> 0]

AgentMoves ==
    \/ \E s \in agent.open : Speak(s)
    \/ \E x \in agent.turns : Finish(x) \/ Ask(x, "permission") \/ Ask(x, "extension")
    \/ ReplyInitialize \/ ReplyResume \/ ReplyLoad \/ ReplyNew
    \/ Die \/ PipeCloses

HostMoves ==
    \/ Initialized \/ InitializeFailed \/ Resumed \/ ResumeFailed \/ Loaded \/ LoadFailed
    \/ Settled \/ ResumeUnsupported \/ NewSession \/ NewSessionFailed \/ SendPrompt \/ Panic
    \/ StartPump \/ Drain \/ Settle \/ Drained
    \/ HandleUpdate \/ HandleEnded \/ HandleAsk \/ HandleResult \/ HandleClosed \/ Handled
    \/ Reap \/ \E t \in Threads : DrainStranded(t)

UserMoves ==
    \E t \in Threads : Attach(t) \/ PromptOnSession(t) \/ PromptHeldBack(t) \/ Leave(t) \/ Decide(t)

Next == AgentMoves \/ HostMoves \/ UserMoves

Spec == Init /\ [][Next]_vars

-----------------------------------------------------------------------------
(* Properties.                                                             *)

\* What the pump hands a thread names a session made for that thread, or answers
\* a prompt of it: a neighbour's event never lands here (route).
PumpedHome ==
    \A i \in DOMAIN batch : LET b == batch[i] IN
        b.by = "pump" /\ (b.event.named \/ b.event.type = "result")
            => made[b.event.session] = b.to

\* The same of everything: no log holds an update of a session that was made
\* for another thread.  "None means *drop it*, not 'give it to whoever'" (route).
NeverCrossed == \A t \in Threads : \A s \in transcript[t] : made[s] = t

\* A response ends the run of the prompt it answers and no other, on a process
\* where several turns are open at once (prompt_owners); but for the response of
\* a turn that a report, or such a response, had ended before, which ends the run
\* there is (lifecycle_on_turn_end).
ResultEndsOwnTurn ==
    [][(/\ phase = "handle" /\ batch # <<>> /\ batch' = Tail(batch)
        /\ Head(batch).event.type = "result" /\ Head(batch).event.id \notin early)
        => run[Head(batch).to] \in {0, Head(batch).event.id}]_vars

\* The same of every response, which a report that comes first refutes.
ResultEndsNoOther ==
    [][(phase = "handle" /\ batch # <<>> /\ batch' = Tail(batch) /\ Head(batch).event.type = "result")
        => run[Head(batch).to] \in {0, Head(batch).event.id}]_vars

\* When the host is at rest, every open run has a session on the process: a
\* death, however it was found out, and a thread's leaving reach each of them.
OpenRunHasSession ==
    Idle => \A t \in Threads : run[t] # 0 => HasAdapter(t)

\* A blocking extension request is on its way, in front of a user, or answered:
\* the agent's turn does not hang on it (pump_acp).
ExtensionIsHeld ==
    up /\ agent.alive => \A b \in agent.blocked : b.type = "extension" =>
        \/ \E i \in DOMAIN queue : queue[i].id = b.id /\ queue[i].type = b.type
        \/ \E i \in DOMAIN batch : batch[i].event.id = b.id /\ batch[i].event.type = b.type
        \/ \E t \in Threads : b.id \in held[t]

\* Both: an event of a shared process comes to whom it is for, or is answered.
EventsFindTheirWay == TypeOK /\ PumpedHome /\ ExtensionIsHeld

\* The same of every blocking request.
AskIsHeld ==
    up /\ agent.alive => \A b \in agent.blocked :
        \/ \E i \in DOMAIN queue : queue[i].id = b.id /\ queue[i].type = b.type
        \/ \E i \in DOMAIN batch : batch[i].event.id = b.id /\ batch[i].event.type = b.type
        \/ \E t \in Threads : b.id \in held[t]

\* An adapter that dies while it hands a session back is one more dead adapter,
\* and not the end of the host (settle_replay).
NoPanic == up
=============================================================================
