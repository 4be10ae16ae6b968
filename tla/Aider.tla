------------------------------- MODULE Aider --------------------------------
(***************************************************************************)
(* The adapter this repository ships for Aider (host/harness/aider_acp.rs):*)
(* a process of its own for each thread, which runs one `aider` for each   *)
(* prompt.  Its reader, the thread of each turn and the `aider` it waits   *)
(* for interleave; the reader answers a cancel, the turn its own end.      *)
(*                                                                         *)
(* A harness is of this kind or of Pool's (SessionScope), so a behaviour   *)
(* has one of the two.  A process makes one session and numbers them from  *)
(* one, so all of them keep their files in one folder.                     *)
(***************************************************************************)
EXTENDS Pool

CONSTANTS
    MaxAdapters, \* bound: adapters spawned
    MaxTurns,    \* bound: prompts sent
    MaxCancels,  \* bound: cancels the user sends
    MaxDrops     \* bound: adapters the host gives up

ASSUME AiderAssumption == {MaxAdapters, MaxTurns, MaxCancels, MaxDrops} \subseteq Nat

VARIABLES
    scope,    \* of the harness: "profile" (Pool) or "thread"
    open,     \* on disk: the turn whose run is open, or 0
    proc,     \* the thread's adapter
    turns,    \* every turn, with its thread in the adapter and its `aider`
    folder,   \* the files of session "aider-1": the message, and the chat so far
    used      \* the bounds used up

aiderVars == <<scope, open, proc, turns, folder, used>>

NoProc == [alive |-> FALSE, in |-> <<>>, out |-> <<>>, turn |-> 0, at |-> "read", cancels |-> 0]
AtWork == {"starting", "working"}
Mine(n) == proc[turns[n].thread]
Served(n) == turns[n].alive
Up(t) == scope = "thread" /\ proc[t].alive
Spend(what) == used' = [used EXCEPT ![what] = @ + 1]

AiderTypeOK ==
    /\ open \in [Threads -> 0..Len(turns)]
    /\ \A t \in Threads :
          /\ {proc[t].turn, proc[t].cancels} \subseteq 0..Len(turns)
          /\ proc[t].at \in {"read", "kill", "finish"}
    /\ \A n \in DOMAIN turns :
          /\ turns[n].thread \in Threads /\ {turns[n].alive, turns[n].done} \subseteq BOOLEAN
          /\ turns[n].at \in {"sent", "stream", "wait", "judge", "close", "over"}
          /\ turns[n].aider \in AtWork \cup {"none", "exited", "killed"}
          /\ turns[n].code \in {-1, 0, 1}
          /\ turns[n].answers \in Seq({"end_turn", "error", "cancelled"})

-----------------------------------------------------------------------------
(* The host.                                                               *)

\* The first prompt, or one after the adapter is gone, spawns it and attaches a
\* session: one that is resumed, or a new one where there is none or it drifted.
Spawn(t) ==
    /\ scope = "thread" /\ ~proc[t].alive /\ used.procs < MaxAdapters
    /\ proc' = [proc EXCEPT ![t] = [NoProc EXCEPT !.alive = TRUE]]
    /\ Spend("procs")
    /\ UNCHANGED <<vars, scope, open, turns, folder>>

NewTurn(t) == [thread |-> t, alive |-> TRUE, at |-> "sent", done |-> FALSE, aider |-> "none",
               code |-> -1, says |-> "none", told |-> 0, heard |-> {}, answers |-> <<>>]

\* session_prompt: one turn of a thread at a time (intercept_in_flight).
SendTurn(t) ==
    /\ Up(t) /\ open[t] = 0 /\ Len(turns) < MaxTurns
    /\ turns' = Append(turns, NewTurn(t))
    /\ open' = [open EXCEPT ![t] = Len(turns) + 1]
    /\ proc' = [proc EXCEPT ![t].in = Append(@, Len(turns) + 1)]
    /\ UNCHANGED <<vars, scope, folder, used>>

\* session_cancel asks for an adapter and a session, not for a turn.
Cancel == 0
SendCancel(t) ==
    /\ Up(t) /\ used.cancels < MaxCancels
    /\ proc' = [proc EXCEPT ![t].in = Append(@, Cancel)]
    /\ Spend("cancels")
    /\ UNCHANGED <<vars, scope, open, turns, folder>>

\* A response closes the run that is open.
HandleAnswer(t) ==
    /\ Up(t) /\ proc[t].out # <<>>
    /\ open' = [open EXCEPT ![t] = 0]
    /\ proc' = [proc EXCEPT ![t].out = Tail(@)]
    /\ UNCHANGED <<vars, scope, turns, folder, used>>

\* The cap, an archive, a delete, an eviction: the run is closed and the group of
\* the adapter killed.  Each `aider` is a group of its own and hears nothing.
Drop(t) ==
    /\ Up(t) /\ used.drops < MaxDrops
    /\ proc' = [proc EXCEPT ![t] = NoProc]
    /\ open' = [open EXCEPT ![t] = 0]
    /\ turns' = [n \in DOMAIN turns |->
                   IF turns[n].thread = t THEN [turns[n] EXCEPT !.alive = FALSE] ELSE turns[n]]
    /\ Spend("drops")
    /\ UNCHANGED <<vars, scope, folder>>

-----------------------------------------------------------------------------
(* The adapter's reader (serve).                                           *)

Reads(t) == Up(t) /\ proc[t].at = "read" /\ proc[t].in # <<>>

\* Broken: whoever comes to the end of a turn says so.
AnswersAnyway(n) == TRUE
\* finish_turn: the first to come to the end of a turn answers, whoever it is.
Answers(n) == ~turns[n].done

TurnsAfter(n, stop) ==
    IF Answers(n) THEN [turns EXCEPT ![n].done = TRUE, ![n].answers = Append(@, stop)]
    ELSE [turns EXCEPT ![n].done = TRUE]
OutAfter(n) == IF Answers(n) THEN Append(Mine(n).out, n) ELSE Mine(n).out

\* session/prompt: the message is a file, and `aider` a group of its own.
ReadPrompt(t) ==
    /\ Reads(t) /\ Head(proc[t].in) # Cancel
    /\ LET n == Head(proc[t].in)
       IN /\ turns' = [turns EXCEPT ![n].at = "stream", ![n].aider = "starting"]
          /\ folder' = [folder EXCEPT !.message = n]
          /\ proc' = [proc EXCEPT ![t].in = Tail(@), ![t].turn = n]
    /\ UNCHANGED <<vars, scope, open, used>>

\* No `aider` to run, or none that starts: an answer, and no turn to cancel.
PromptFails(t) ==
    /\ Reads(t) /\ Head(proc[t].in) # Cancel
    /\ LET n == Head(proc[t].in)
       IN /\ turns' = [turns EXCEPT ![n].at = "over", ![n].done = TRUE, ![n].answers = <<"error">>]
          /\ folder' \in {folder, [folder EXCEPT !.message = n]}
          /\ proc' = [proc EXCEPT ![t].in = Tail(@), ![t].out = Append(@, n)]
    /\ UNCHANGED <<vars, scope, open, used>>

\* session/cancel: of the last turn, whether it is over or not.
ReadCancel(t) ==
    /\ Reads(t) /\ Head(proc[t].in) = Cancel
    /\ proc' = [proc EXCEPT ![t].in = Tail(@), ![t].cancels = proc[t].turn, ![t].turn = 0,
                            ![t].at = IF proc[t].turn = 0 THEN "read" ELSE "kill"]
    /\ UNCHANGED <<vars, scope, open, turns, folder, used>>

\* terminate, with the turn's lock: the group is asked to go, then made to.
Kill(t) ==
    /\ Up(t) /\ proc[t].at = "kill"
    /\ turns' = [turns EXCEPT ![proc[t].cancels].aider = IF @ \in AtWork THEN "killed" ELSE @]
    /\ proc' = [proc EXCEPT ![t].at = "finish"]
    /\ UNCHANGED <<vars, scope, open, folder, used>>

SayCancelled(t) ==
    /\ Up(t) /\ proc[t].at = "finish"
    /\ turns' = TurnsAfter(proc[t].cancels, "cancelled")
    /\ proc' = [proc EXCEPT ![t] = [@ EXCEPT !.out = OutAfter(proc[t].cancels),
                                             !.at = "read", !.cancels = 0]]
    /\ UNCHANGED <<vars, scope, open, folder, used>>

-----------------------------------------------------------------------------
(* The thread of a turn (start_turn).                                      *)

Runs(n, at) == Served(n) /\ turns[n].at = at

\* Its output is passed on until the pipe closes.
Streamed(n) ==
    /\ Runs(n, "stream") /\ turns[n].aider \notin AtWork
    /\ turns' = [turns EXCEPT ![n].at = "wait"]
    /\ UNCHANGED <<vars, scope, open, proc, folder, used>>

\* The reader may hold the lock of the turn, for its kill.
Locked(n) == Mine(n).at = "kill" /\ Mine(n).cancels = n

Waited(n) ==
    /\ Runs(n, "wait")
    /\ turns[n].done \/ ~Locked(n)
    /\ turns' = [turns EXCEPT ![n].at = "judge", ![n].code = IF turns[n].done THEN -1 ELSE @]
    /\ UNCHANGED <<vars, scope, open, proc, folder, used>>

Verdict(n) == IF turns[n].done THEN "cancelled" ELSE IF turns[n].code = 0 THEN "end_turn" ELSE "error"

\* What it came to is settled, with an update or two, before it is answered.
Judged(n) ==
    /\ Runs(n, "judge")
    /\ turns' = [turns EXCEPT ![n].at = "close", ![n].says = Verdict(n)]
    /\ UNCHANGED <<vars, scope, open, proc, folder, used>>

Ended(n) ==
    /\ Runs(n, "close")
    /\ turns' = [TurnsAfter(n, turns[n].says) EXCEPT ![n].at = "over"]
    /\ proc' = [proc EXCEPT ![turns[n].thread].out = OutAfter(n)]
    /\ UNCHANGED <<vars, scope, open, folder, used>>

-----------------------------------------------------------------------------
(* `aider`.                                                                *)

\* It reads the message and the chat so far, and adds to the chat.
Begin(n) ==
    /\ turns[n].aider = "starting"
    /\ turns' = [turns EXCEPT ![n].aider = "working", ![n].told = folder.message,
                              ![n].heard = folder.chat]
    /\ folder' = [folder EXCEPT !.chat = @ \cup {n}]
    /\ UNCHANGED <<vars, scope, open, proc, used>>

\* It ends, well or badly, also before it has read anything.
Exit(n) ==
    /\ turns[n].aider \in AtWork
    /\ \E code \in {0, 1} :
          /\ code = 0 => turns[n].aider = "working"
          /\ turns' = [turns EXCEPT ![n].aider = "exited", ![n].code = code]
    /\ UNCHANGED <<vars, scope, open, proc, folder, used>>

-----------------------------------------------------------------------------

AiderInit ==
    /\ Init /\ scope \in {"profile", "thread"}
    /\ open = [t \in Threads |-> 0]
    /\ proc = [t \in Threads |-> NoProc]
    /\ turns = <<>>
    /\ folder = [message |-> 0, chat |-> {}]
    /\ used = [procs |-> 0, cancels |-> 0, drops |-> 0]

HostSteps(t) == Spawn(t) \/ SendTurn(t) \/ SendCancel(t) \/ HandleAnswer(t) \/ Drop(t)
ReaderSteps(t) == ReadPrompt(t) \/ PromptFails(t) \/ ReadCancel(t) \/ Kill(t) \/ SayCancelled(t)
TurnSteps(n) == Streamed(n) \/ Waited(n) \/ Judged(n) \/ Ended(n)

AiderNext ==
    \/ scope = "profile" /\ Next /\ UNCHANGED aiderVars
    \/ \E t \in Threads : HostSteps(t) \/ ReaderSteps(t)
    \/ \E n \in DOMAIN turns : TurnSteps(n) \/ Begin(n) \/ Exit(n)

AiderSpec == AiderInit /\ [][AiderNext]_<<vars, aiderVars>>

-----------------------------------------------------------------------------
(* Properties.                                                             *)

OneAnswer(n) == Len(turns[n].answers) <= 1 /\ (turns[n].at = "over" => turns[n].answers # <<>>)

\* "Errors never look like success" (docs/research/harness-integration/aider.md).
HonestAnswer(n) ==
    turns[n].answers = <<"end_turn">> => turns[n].aider = "exited" /\ turns[n].code = 0

\* Of a cancel that races the end of a turn, and of the next prompt that comes
\* while the cancelled one winds up: each turn is answered once and truly, and
\* while its adapter is there, an `aider` that works is the open run of its thread.
TurnsAreAnswered ==
    /\ AiderTypeOK
    /\ \A n \in DOMAIN turns :
          /\ OneAnswer(n) /\ HonestAnswer(n)
          /\ Served(n) /\ turns[n].aider \in AtWork => open[turns[n].thread] = n

\* A turn whose `aider` was killed was cancelled.
CancelSaysSo ==
    \A n \in DOMAIN turns : turns[n].aider = "killed" => turns[n].answers \in {<<>>, <<"cancelled">>}

\* No `aider` edits a thread's tree when the thread has no run.
NothingWorksUnlisted ==
    \A n \in DOMAIN turns : turns[n].aider \in AtWork => open[turns[n].thread] = n

\* An `aider` is told the prompt of its turn, and hears the chat of its thread.
FilesAreItsOwn ==
    \A n \in DOMAIN turns :
        /\ turns[n].told \in {0, n}
        /\ \A m \in turns[n].heard : turns[m].thread = turns[n].thread
=============================================================================
