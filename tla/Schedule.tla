------------------------------ MODULE Schedule ------------------------------
(***************************************************************************)
(* Schedules (host/schedule, host/store/schedule.rs): what a schedule owes *)
(* after an outage, the claim of an occurrence, its dispatch to the bot's  *)
(* standing thread, and the card its result becomes.                       *)
(*                                                                         *)
(* One pass of the tick is cut where the host may stop: the delivery of    *)
(* each fire is a card and then a note on the fire; a dispatch is a claim, *)
(* a prompt (inside which the adapter may already end the run) and the     *)
(* link from the fire to its run.  The runs and threads are those of       *)
(* Ledger and Overlay, one standing thread for each bot.                   *)
(***************************************************************************)
EXTENDS SequencesExt, Cron, Ledger, Overlay

CONSTANTS
    Schedules,    \* every schedule that may exist
    Bots, BotOf,  \* the bots, and whose each schedule is
    Written,      \* the expressions users write
    CatchUps,     \* the policies users pick
    StaleAfter, LateGrace, MaxScan,  \* the constants of catchup.rs
    MaxTime,      \* bound: the clock stops here
    MaxRuns,      \* bound: runs on the ledger
    MaxFires,     \* bound: fires claimed before the clock and the tick rest
    UserTimes,    \* bound: the instants at which the user does anything
    MaxEdits,     \* bound: changes of schedules, and fires by hand
    MaxStops,     \* bound: crashes of the host
    MaxMoves,     \* bound: folds by the user
    Refusals      \* may a thread or a prompt be refused?

\* The clock of the model, and a unit more, is in the zone.
ASSUME ScheduleAssumption ==
    /\ {StaleAfter, LateGrace, MaxScan, MaxTime, MaxRuns, MaxFires} \subseteq Nat
    /\ {MaxEdits, MaxStops, MaxMoves} \subseteq Nat
    /\ 0..(MaxTime + 1) \subseteq Instants
    /\ BotOf \in [Schedules -> Bots] /\ IsFiniteSet(Bots)
    /\ CatchUps \subseteq {"once", "skip"} /\ Refusals \in BOOLEAN

VARIABLES
    now,        \* the wall clock
    schedules,  \* the rows of schedules
    fires,      \* the rows of schedule_fires, by <<schedule, due_at>>
    runs,       \* the run ledger: bot, state and the fire that asked for it
    threads,    \* the overlay row of each bot's standing thread
    cards,      \* the inbox_events that name a run or a fire
    phase,      \* where the host is in its pass
    todo,       \* what the pass still has to walk
    job,        \* the fire in hand, with the time the pass began
    pending,    \* ScheduleState.pending: the fire whose label the next run takes
    claimed,    \* ScheduleState.claimed_run
    spent       \* the bounds used up

disk == <<schedules, fires, runs, threads, cards>>
vars == <<now, disk, phase, todo, job, pending, claimed, spent>>

NoKey == <<>>
NoJob == [fire |-> NoKey, at |-> 0, pass |-> "none"]
NoSpec == [field \in Fields |-> Field({Star}, field)]
Absent == [exists |-> FALSE, on |-> FALSE, spec |-> NoSpec, policy |-> "once",
           due |-> None, since |-> 0, torn |-> FALSE, gone |-> FALSE]
\* An id is never given twice.
Gone == [Absent EXCEPT !.gone = TRUE]

FireStates == {"dispatched", "skipped", "failed", "delivered"}
FireKeys == Schedules \X Instants

-----------------------------------------------------------------------------
(* What a due schedule owes (catchup.rs).                                  *)

NotPast(t, at) == IF t = None \/ t > at THEN None ELSE t
Following(spec, t, at) == IF t = None THEN None ELSE NotPast(NextAfter(spec, t), at)

\* The occurrences from the due one to now, counted up to MaxScan.
Counted(spec, due, at) ==
    LET Nth[n \in 1..MaxScan] == IF n = 1 THEN due ELSE Following(spec, Nth[n - 1], at)
    IN Cardinality({n \in 1..MaxScan : Nth[n] # None})

\* Broken: the occurrence that was due first is the one to run.
LatestOldest(found, due) == due
\* The newest occurrence is the one found walking back from now; one that lies
\* before the due one belongs to an edited expression, and the due one stands.
Latest(found, due) == IF found # None /\ found >= due THEN found ELSE due

Collapse(spec, due, at) ==
    [latest      |-> Latest(PrevAtOrBefore(spec, at), due),
     occurrences |-> Counted(spec, due, at),
     next        |-> NextAfter(spec, at)]

\* One run at most comes out of it, and none that is stale or not wanted late.
Ruling(owed, late, policy) ==
    LET caughtUp == owed.occurrences > 1 \/ late >= LateGrace
        fire == ~(policy = "skip" /\ caughtUp) /\ late <= StaleAfter
    IN [fire |-> fire, due |-> owed.latest, next |-> owed.next,
        skipped |-> IF fire THEN owed.occurrences - 1 ELSE owed.occurrences]

Plans(spec, due, at, policy) ==
    {Ruling(owed, at - owed.latest, policy) : owed \in {Collapse(spec, due, at)}}

-----------------------------------------------------------------------------
(* The rows.                                                               *)

RunsOf(b) == {r \in 1..Len(runs) : runs[r].bot = b}
Busy(b) == \E r \in RunsOf(b) : runs[r].state \in Open

Card(r, key, kind, by) == [run |-> r, fire |-> key, kind |-> kind, by |-> by]

\* Broken: nobody looks.
CardedNever(r) == FALSE

\* run_has_inbox_event: of any kind, read or not.
Carded(r) == \E i \in 1..Len(cards) : cards[i].run = r

\* The badges of a row, its unread and read cards, play no part here: cards are
\* rows of their own.
Bare(row) == [row EXCEPT !.unread = {}, !.seen = {}]

\* A resurface writes the row of the thread and its card together.
Surface(b, reason, r) ==
    /\ threads' = [threads EXCEPT ![b] = Bare(Resurface(@, reason))]
    /\ cards' = IF CanResurface(threads[b], reason)
                THEN Append(cards, Card(r, NoKey, reason, "thread")) ELSE cards

\* settle_fire: the outcome and the delivery stamp in one statement, so a fire
\* that is still "dispatched" is one that nobody reported on.
Settle(key, state) == fires' = [fires EXCEPT ![key].state = state]

Undelivered == {key \in DOMAIN fires : fires[key].state = "dispatched"}

Due(at) == {s \in Schedules : /\ schedules[s].exists /\ schedules[s].on
                              /\ schedules[s].due # None /\ schedules[s].due <= at}

\* One occurrence, exactly once, and the schedule's clock in the same statement.
Claim(s, plan, next, pass) ==
    /\ fires' = [key \in DOMAIN fires \cup {<<s, plan.due>>} |->
                    IF key \in DOMAIN fires THEN fires[key]
                    ELSE [state |-> IF plan.fire THEN "dispatched" ELSE "skipped",
                          run |-> 0, skipped |-> plan.skipped, pass |-> pass,
                          owed |-> IF pass = "tick" THEN schedules[s].due ELSE plan.due]]
    /\ schedules' = [schedules EXCEPT ![s].due = next]

\* The label goes to the next run of the fire's own thread, and to no other.
TakeRunKind(b) == IF pending # NoKey /\ BotOf[pending[1]] = b THEN pending ELSE NoKey

\* lifecycle_run_started: the label is taken and the run it names is noted.
RunStarted(b) ==
    LET key == TakeRunKind(b)
    IN /\ Len(runs) < MaxRuns
       /\ runs' = Append(runs, [bot |-> b, state |-> "running", fire |-> key])
       /\ pending' = IF key = NoKey THEN pending ELSE NoKey
       /\ claimed' = IF key = NoKey THEN claimed ELSE Len(runs) + 1

Spend(what) == spent' = [spent EXCEPT ![what] = @ + 1]

-----------------------------------------------------------------------------
(* The user and the schedule screen (api.rs).                              *)

Idle == phase = "idle"
UserActs == Idle /\ now \in UserTimes
MayEdit == UserActs /\ spent.edits < MaxEdits

\* An expression that does not parse is refused and changes nothing.
Create(s) ==
    /\ MayEdit /\ schedules[s] = Absent
    /\ \E raw \in Written, policy \in CatchUps, on \in BOOLEAN :
         /\ Parses(raw)
         /\ schedules' = [schedules EXCEPT ![s] =
               [exists |-> TRUE, on |-> on, spec |-> Parse(raw), policy |-> policy,
                due |-> IF on THEN NextAfter(Parse(raw), now) ELSE None,
                since |-> now, torn |-> FALSE, gone |-> FALSE]]
    /\ Spend("edits")
    /\ UNCHANGED <<now, fires, runs, threads, cards, phase, todo, job, pending, claimed>>

\* The row first; the clock is set again, in a write of its own, when the
\* expression or the switch was among the changes.
Update(s) ==
    /\ MayEdit /\ schedules[s].exists
    /\ \E specs \in {{Parse(raw)} : raw \in {raw \in Written : Parses(raw)}} \cup {{}},
          ons \in {{TRUE}, {FALSE}, {}}, policies \in {{policy} : policy \in CatchUps} \cup {{}} :
         /\ schedules' = [schedules EXCEPT
               ![s].spec = IF specs = {} THEN @ ELSE CHOOSE spec \in specs : TRUE,
               ![s].on = IF ons = {} THEN @ ELSE TRUE \in ons,
               ![s].policy = IF policies = {} THEN @ ELSE CHOOSE policy \in policies : TRUE]
         /\ phase' = IF specs = {} /\ ons = {} THEN "idle" ELSE "rearm"
         /\ todo' = IF specs = {} /\ ons = {} THEN {} ELSE {s}
    /\ Spend("edits")
    /\ UNCHANGED <<now, fires, runs, threads, cards, job, pending, claimed>>

Rearm(s) ==
    /\ phase = "rearm" /\ s \in todo
    /\ schedules' = [schedules EXCEPT
           ![s].due = IF schedules[s].on THEN NextAfter(schedules[s].spec, now) ELSE None,
           ![s].since = now, ![s].torn = FALSE]
    /\ phase' = "idle" /\ todo' = {}
    /\ UNCHANGED <<now, fires, runs, threads, cards, job, pending, claimed, spent>>

\* The fires of a schedule go with it.
Kept(s) == {key \in DOMAIN fires : key[1] # s}

RemoveSchedule(s) ==
    /\ MayEdit /\ schedules[s].exists
    /\ schedules' = [schedules EXCEPT ![s] = Gone]
    /\ fires' = [key \in Kept(s) |-> fires[key]]
    /\ Spend("edits")
    /\ UNCHANGED <<now, runs, threads, cards, phase, todo, job, pending, claimed>>

\* Broken: a run by hand stands in for the one that is due.
DueSpentByHand(s) == NextAfter(schedules[s].spec, now)
\* A run by hand does not move the schedule's clock.
DueAfterHand(s) == schedules[s].due

\* Run now: an occurrence of its own, stamped with this moment; refused when
\* the schedule already has a fire for it.
FireNow(s) ==
    /\ MayEdit /\ schedules[s].exists
    /\ <<s, now>> \notin DOMAIN fires
    /\ Claim(s, [fire |-> TRUE, due |-> now, skipped |-> 0], DueAfterHand(s), "hand")
    /\ phase' = "target" /\ job' = [fire |-> <<s, now>>, at |-> now, pass |-> "hand"]
    /\ Spend("edits")
    /\ UNCHANGED <<now, runs, threads, cards, todo, pending, claimed>>

-----------------------------------------------------------------------------
(* The pass (fire.rs): work to card, then time to work.                    *)

Resting == Cardinality(DOMAIN fires) >= MaxFires
SomeDue == Due(now) # {} /\ ~Resting

Tick ==
    /\ Idle
    /\ Undelivered # {} \/ SomeDue
    /\ phase' = "deliver" /\ todo' = Undelivered
    /\ job' = [NoJob EXCEPT !.pass = "tick", !.at = now]
    /\ UNCHANGED <<now, disk, pending, claimed, spent>>

\* The walk is oldest first; no property depends on it, so any order will do.
NextToDeliver(key) == phase = "deliver" /\ key \in todo

Outcome(key) == runs[fires[key].run].state

\* The run is not over: the fire waits for a later pass.
StillRunning(key) ==
    /\ NextToDeliver(key) /\ fires[key].run # 0 /\ Outcome(key) \notin Terminal
    /\ todo' = todo \ {key}
    /\ UNCHANGED <<now, disk, phase, job, pending, claimed, spent>>

\* An interrupted dispatch has no run to watch: the row says so and no card does.
NoRunToWatch(key) ==
    /\ NextToDeliver(key) /\ fires[key].run = 0
    /\ Settle(key, "failed")
    /\ todo' = todo \ {key}
    /\ UNCHANGED <<now, schedules, runs, threads, cards, phase, job, pending, claimed, spent>>

\* A cancel the user asked for is a quiet row.
DeliverQuietly(key) ==
    /\ NextToDeliver(key) /\ fires[key].run # 0 /\ Outcome(key) = "cancelled"
    /\ Settle(key, "delivered")
    /\ todo' = todo \ {key}
    /\ UNCHANGED <<now, schedules, runs, threads, cards, phase, job, pending, claimed, spent>>

\* schedule_card: nothing where the run has a card already.
WriteCard(r, key, kind) ==
    IF r # 0 /\ Carded(r) THEN UNCHANGED cards
    ELSE cards' = Append(cards, Card(r, key, kind, "schedule"))

DeliverCard(key) ==
    /\ NextToDeliver(key) /\ fires[key].run # 0
    /\ Outcome(key) \in Terminal \ {"cancelled"}
    /\ WriteCard(fires[key].run, key,
                 IF Outcome(key) = "succeeded" THEN "done" ELSE "failed")
    /\ phase' = "carded" /\ job' = [job EXCEPT !.fire = key]
    /\ UNCHANGED <<now, schedules, fires, runs, threads, todo, pending, claimed, spent>>

SettleCarded ==
    /\ phase = "carded"
    /\ Settle(job.fire, "delivered")
    /\ phase' = "deliver" /\ todo' = todo \ {job.fire} /\ job' = [job EXCEPT !.fire = NoKey]
    /\ UNCHANGED <<now, schedules, runs, threads, cards, pending, claimed, spent>>

\* Boot delivers and stops there; the tick goes on to what is due.
Delivered ==
    /\ phase = "deliver" /\ todo = {}
    /\ IF job.pass = "boot"
       THEN phase' = "idle" /\ todo' = {} /\ job' = NoJob
       ELSE phase' = "rule" /\ todo' = Due(job.at) /\ UNCHANGED job
    /\ UNCHANGED <<now, disk, pending, claimed, spent>>

\* rule_on, soonest due first.  An occurrence that was claimed already is left
\* alone, and so is the clock of its schedule.
RuleOn(s) ==
    /\ phase = "rule" /\ s \in todo
    /\ \A other \in todo : schedules[s].due <= schedules[other].due
    /\ todo' = todo \ {s}
    /\ \E plan \in Plans(schedules[s].spec, schedules[s].due, job.at, schedules[s].policy) :
         IF <<s, plan.due>> \in DOMAIN fires THEN UNCHANGED <<schedules, fires, phase, job>>
         ELSE /\ Claim(s, plan, plan.next, "tick")
              /\ phase' = IF plan.fire THEN "target" ELSE "rule"
              /\ job' = IF plan.fire THEN [job EXCEPT !.fire = <<s, plan.due>>] ELSE job
    /\ UNCHANGED <<now, runs, threads, cards, pending, claimed, spent>>

Ruled ==
    /\ phase = "rule" /\ todo = {}
    /\ phase' = "idle" /\ job' = NoJob
    /\ UNCHANGED <<now, disk, todo, pending, claimed, spent>>

JobBot == BotOf[job.fire[1]]
\* Back to the pass, or to the user who pressed Run now.
Resumed ==
    /\ phase' = IF job.pass = "hand" THEN "idle" ELSE "rule"
    /\ job' = IF job.pass = "hand" THEN NoJob ELSE [job EXCEPT !.fire = NoKey]

\* No workspace, no harness, no thread: the row is the only record.
NoThread ==
    /\ phase = "target" /\ Refusals
    /\ Settle(job.fire, "failed") /\ Resumed
    /\ UNCHANGED <<now, schedules, runs, threads, cards, todo, pending, claimed, spent>>

\* A bot that still works on its last task does not get a second one.
BotBusy ==
    /\ phase = "target" /\ Busy(JobBot)
    /\ Settle(job.fire, "skipped") /\ Resumed
    /\ UNCHANGED <<now, schedules, runs, threads, cards, todo, pending, claimed, spent>>

\* The label is set before the prompt.
Label ==
    /\ phase = "target" /\ ~Busy(JobBot)
    /\ phase' = "send" /\ pending' = job.fire /\ claimed' = 0
    /\ UNCHANGED <<now, disk, todo, job, spent>>

Sent ==
    /\ phase = "send" /\ RunStarted(JobBot)
    /\ phase' = "pump"
    /\ UNCHANGED <<now, schedules, fires, threads, cards, todo, job, spent>>

\* session_prompt refused it: the label is taken off, the row is settled, then
\* comes the card.
Refused ==
    /\ phase = "send" /\ Refusals
    /\ pending' = NoKey
    /\ Settle(job.fire, "failed")
    /\ phase' = "refused"
    /\ UNCHANGED <<now, schedules, runs, threads, cards, todo, job, claimed, spent>>

RefusedCard ==
    /\ phase = "refused"
    /\ WriteCard(0, job.fire, "failed")
    /\ Resumed
    /\ UNCHANGED <<now, schedules, fires, runs, threads, todo, pending, claimed, spent>>

\* session_prompt returned: the fire names the run its label produced.
Bind ==
    /\ phase = "pump"
    /\ pending' = NoKey /\ claimed' = 0
    /\ fires' = [fires EXCEPT ![job.fire].run = claimed]
    /\ Resumed
    /\ UNCHANGED <<now, schedules, runs, threads, cards, todo, spent>>

-----------------------------------------------------------------------------
(* The threads and runs, as the lifecycle moves them between passes and    *)
(* from inside a dispatch's own pump.                                      *)

Pumping == phase \in {"idle", "pump"}

RunEnds(r) ==
    /\ Pumping /\ runs[r].state \in Open
    /\ \E state \in {"succeeded", "failed", "cancelled"} :
         /\ CanAdvance(runs[r].state, state)
         /\ runs' = [runs EXCEPT ![r].state = state]
         /\ IF state = "cancelled" THEN UNCHANGED <<threads, cards>>
            ELSE Surface(runs[r].bot, IF state = "succeeded" THEN "done" ELSE "failed", r)
    /\ UNCHANGED <<now, schedules, fires, phase, todo, job, pending, claimed, spent>>

RunAsks(r) ==
    /\ Pumping /\ runs[r].state = "running"
    /\ runs' = [runs EXCEPT ![r].state = "needs_you"]
    /\ Surface(runs[r].bot, "needs_you", r)
    /\ UNCHANGED <<now, schedules, fires, phase, todo, job, pending, claimed, spent>>

RunAnswered(r) ==
    /\ Idle /\ runs[r].state = "needs_you"
    /\ runs' = [runs EXCEPT ![r].state = "running"]
    /\ UNCHANGED <<now, schedules, fires, threads, cards, phase, todo, job, pending, claimed,
                   spent>>

UserPrompts(b) ==
    /\ UserActs /\ ~Busy(b) /\ RunStarted(b)
    /\ UNCHANGED <<now, schedules, fires, threads, cards, phase, todo, job, spent>>

Fold(b) ==
    /\ UserActs /\ spent.moves < MaxMoves /\ CanMove(threads[b], "fold")
    /\ LET folded == [threads EXCEPT ![b] = MoveTo(@, "folded")]
           last == Max(RunsOf(b))
           reason == IF runs[last].state = "succeeded" THEN "done" ELSE "failed"
       IN IF RunsOf(b) = {} \/ runs[last].state \notin Terminal \ {"cancelled"}
          THEN threads' = folded /\ UNCHANGED cards
          ELSE /\ threads' = [folded EXCEPT ![b] = Bare(Resurface(@, reason))]
               /\ cards' = Append(cards, Card(last, NoKey, reason, "thread"))
    /\ Spend("moves")
    /\ UNCHANGED <<now, schedules, fires, runs, phase, todo, job, pending, claimed>>

Reopen(b) ==
    /\ UserActs /\ CanMove(threads[b], "reopen")
    /\ threads' = [threads EXCEPT ![b] = MoveTo(@, "active")]
    /\ UNCHANGED <<now, schedules, fires, runs, cards, phase, todo, job, pending, claimed, spent>>

-----------------------------------------------------------------------------
(* Time, and a host that stops at any step.                                *)

\* The tick comes round within a unit of time; an outage is a host that is down.
TimePasses ==
    /\ phase = "down" \/ (Idle /\ ~SomeDue)
    /\ now < MaxTime /\ ~Resting
    /\ now' = now + 1
    /\ UNCHANGED <<disk, phase, todo, job, pending, claimed, spent>>

Crash ==
    /\ phase # "down" /\ spent.stops < MaxStops
    /\ phase' = "down" /\ todo' = {} /\ job' = NoJob
    /\ pending' = NoKey /\ claimed' = 0
    /\ schedules' = [s \in Schedules |->
                       IF phase = "rearm" /\ s \in todo THEN [schedules[s] EXCEPT !.torn = TRUE]
                       ELSE schedules[s]]
    /\ Spend("stops")
    /\ UNCHANGED <<now, fires, runs, threads, cards>>

\* reconcile_boot: what was open is lost; its thread comes back with a card
\* if it can; then the delivery pass.
OpenRuns(b) == {r \in RunsOf(b) : runs[r].state \in Open}
BootReason(b) == IF runs[Max(OpenRuns(b))].state = "needs_you" THEN "needs_you" ELSE "stuck"
ComesBack(b) == OpenRuns(b) # {} /\ CanResurface(threads[b], BootReason(b))
Boot ==
    /\ phase = "down"
    /\ runs' = [r \in 1..Len(runs) |->
                  IF runs[r].state \in Open THEN [runs[r] EXCEPT !.state = "lost"] ELSE runs[r]]
    /\ threads' = [b \in Bots |-> IF ComesBack(b) THEN Bare(Resurface(threads[b], BootReason(b)))
                                ELSE threads[b]]
    /\ cards' = cards \o SetToSeq({Card(Max(OpenRuns(b)), NoKey, BootReason(b), "thread") :
                                     b \in {b \in Bots : ComesBack(b)}})
    /\ phase' = "deliver" /\ todo' = Undelivered
    /\ job' = [NoJob EXCEPT !.pass = "boot", !.at = now]
    /\ UNCHANGED <<now, schedules, fires, pending, claimed, spent>>

-----------------------------------------------------------------------------
Init ==
    /\ now = 0
    /\ schedules = [s \in Schedules |-> Absent]
    /\ fires = <<>> /\ runs = <<>> /\ cards = <<>>
    /\ threads = [b \in Bots |-> NewThread]
    /\ phase = "idle" /\ todo = {} /\ job = NoJob
    /\ pending = NoKey /\ claimed = 0
    /\ spent = [edits |-> 0, stops |-> 0, moves |-> 0]

Pass ==
    \/ Tick
    \/ \E key \in DOMAIN fires : \/ StillRunning(key) \/ NoRunToWatch(key)
                                 \/ DeliverQuietly(key) \/ DeliverCard(key)
    \/ SettleCarded \/ Delivered
    \/ \E s \in Schedules : RuleOn(s)
    \/ Ruled \/ NoThread \/ BotBusy \/ Label \/ Sent \/ Refused \/ RefusedCard \/ Bind

User ==
    \/ \E s \in Schedules : Create(s) \/ Update(s) \/ RemoveSchedule(s) \/ FireNow(s)
    \/ \E b \in Bots : UserPrompts(b) \/ Fold(b) \/ Reopen(b)

Lifecycle ==
    \E r \in 1..Len(runs) : RunEnds(r) \/ RunAsks(r) \/ RunAnswered(r)

Next ==
    \/ Pass \/ User \/ Lifecycle
    \/ \E s \in Schedules : Rearm(s)
    \/ TimePasses \/ Crash \/ Boot

Spec == Init /\ [][Next]_vars

-----------------------------------------------------------------------------
(* Correctness.                                                            *)

\* The rows, the pass and the label are of the host's types.
TypeOK ==
    /\ now \in 0..MaxTime
    /\ \A s \in Schedules :
         /\ schedules[s].exists \in BOOLEAN /\ schedules[s].on \in BOOLEAN
         /\ schedules[s].due \in Instants \cup {None}
    /\ DOMAIN fires \subseteq FireKeys
    /\ \A key \in DOMAIN fires :
         /\ schedules[key[1]].exists
         /\ fires[key].state \in FireStates /\ fires[key].run \in 0..Len(runs)
    /\ \A r \in 1..Len(runs) : runs[r].bot \in Bots /\ runs[r].state \in RunStates
    /\ threads \in [Bots -> ThreadRows]
    /\ phase \in {"down", "idle", "rearm", "deliver", "carded", "rule", "target", "send",
                  "pump", "refused"}
    /\ phase \in {"deliver", "carded"} => todo \subseteq DOMAIN fires
    /\ phase \in {"rule", "rearm"} => todo \subseteq {s \in Schedules : schedules[s].exists}
    /\ phase \in {"carded", "target", "send", "pump", "refused"} => job.fire \in DOMAIN fires
    /\ pending \in FireKeys \cup {NoKey} /\ claimed \in 0..Len(runs)

\* A run carries a fire's label only if that fire prompted it: no other prompt
\* inherits the label, no two runs share it, and a fire that names a run names
\* the one with its label (take_run_kind, note_scheduled_run).
FireOwnsRun ==
    /\ \A key \in DOMAIN fires : fires[key].run # 0 => runs[fires[key].run].fire = key
    /\ \A q, r \in 1..Len(runs) : runs[q].fire = runs[r].fire /\ q # r => runs[q].fire = NoKey
    /\ \A r \in 1..Len(runs) : runs[r].fire # NoKey => runs[r].bot = BotOf[runs[r].fire[1]]
    /\ \A key \in DOMAIN fires : fires[key].state = "failed" =>
          \A r \in 1..Len(runs) : runs[r].fire = key => runs[r].state \in Terminal

\* A delivered fire has something to show: its run is over and, unless the user
\* stopped it, some card in the Inbox is about it, even after a crash between
\* the card and the note on the fire (deliver_fire).
DeliveredIsSeen ==
    \A key \in DOMAIN fires : fires[key].state = "delivered" =>
        /\ runs[fires[key].run].state \in Terminal
        /\ \/ runs[fires[key].run].state = "cancelled"
           \/ \E i \in 1..Len(cards) : cards[i].run = fires[key].run

\* Nor two things: whatever a crash repeats, a fire gets one card of its own,
\* and none where its run had already brought its thread back (schedule_card).
OneCardPerFire ==
    \A i, j \in 1..Len(cards) :
        cards[j].by = "schedule" /\ i < j
          => /\ cards[i].by = "schedule" => cards[i].fire # cards[j].fire
             /\ cards[j].run = 0 \/ cards[i].run # cards[j].run

\* All of it: what a fire came to is told, told once, and is its own.
FiresAreToldOnce == TypeOK /\ DeliveredIsSeen /\ OneCardPerFire /\ FireOwnsRun

\* No occurrence is forgotten: of an enabled schedule, each one since it was
\* armed was claimed, was counted by the fire that superseded it, or is still
\* owed, over any outage, clock change or run by hand (catchup.rs).  Left out are
\* schedules whose update was cut off before it set the clock again.
NoneForgotten ==
    \A s \in Schedules :
        schedules[s].exists /\ schedules[s].on /\ phase # "rearm" /\ ~schedules[s].torn =>
        \A t \in Occurrences(schedules[s].spec) : schedules[s].since < t /\ t <= now =>
            \/ <<s, t>> \in DOMAIN fires
            \/ schedules[s].due # None /\ schedules[s].due <= t
            \/ \E key \in DOMAIN fires :
                  key[1] = s /\ fires[key].owed <= t /\ t <= key[2]

\* A local time comes round once: of two occurrences the clock brings, no two
\* read the same, though the hour of one is repeated (cron.rs).
OncePerLocalTime ==
    \A key, other \in DOMAIN fires :
        /\ key[1] = other[1] /\ key # other
        /\ fires[key].pass = "tick" /\ fires[other].pass = "tick"
        => <<Date(key[2]), TimeOfDay(key[2])>> # <<Date(other[2]), TimeOfDay(other[2])>>

\* Both: no occurrence is forgotten, and none is run for a second time.
OccurrencesKept == NoneForgotten /\ OncePerLocalTime

Ruled_(s) == job.pass = "tick" /\ phase = "rule" /\ s \in todo /\ s \notin todo'
ClaimedFor(s) == {key \in DOMAIN fires' \ DOMAIN fires : key[1] = s}

\* What a pass claims is the newest occurrence that came due, with the right
\* count of those it drops, and the schedule is armed for the first one ahead:
\* one run at most comes out of an outage (collapse).  The repeated hour of a
\* clock that falls back is left to OneRunPerOutage, and a schedule whose update
\* was cut off still has the due time of the expression before.
OutageIsCounted ==
    [][\A s \in Schedules : Ruled_(s) /\ ~InRepeatedHour(job.at) /\ ~schedules[s].torn =>
         \A key \in ClaimedFor(s) :
           LET spec == schedules[s].spec
               owed == schedules[s].due..job.at
               missed == Cardinality(Occurrences(spec) \cap owed)
           IN /\ key[2] = LastOccurrenceBy(spec, job.at)
              /\ schedules'[s].due = FirstOccurrenceAfter(spec, job.at)
              /\ (\A t \in owed : ~InRepeatedHour(t))
                   => fires'[key].skipped + (IF fires'[key].state = "skipped" THEN 0 ELSE 1)
                        = IF missed > MaxScan THEN MaxScan ELSE missed]_vars

\* "At most one run comes out of any outage": once it is ruled on, a schedule
\* owes nothing that is already past.
OneRunPerOutage ==
    [][\A s \in Schedules :
         Ruled_(s) /\ ClaimedFor(s) # {} /\ schedules'[s].due # None
           => schedules'[s].due > job.at]_vars

\* A finished job's result reaches the Inbox: its run has a card that says so.  Not
\* if the run asked on its way: any card of the run keeps schedule_card silent.
ResultIsCarded ==
    \A key \in DOMAIN fires :
        fires[key].state = "delivered" /\ runs[fires[key].run].state = "succeeded" =>
            \E i \in 1..Len(cards) : cards[i].run = fires[key].run /\ cards[i].kind = "done"
=============================================================================
