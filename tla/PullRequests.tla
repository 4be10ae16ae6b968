---------------------------- MODULE PullRequests ----------------------------
(***************************************************************************)
(* Pull requests (host/pr/mod.rs, detect.rs, card.rs, github.rs and        *)
(* host/store/pr.rs): how the traffic of a thread links one to the thread, *)
(* and how the poll turns what GitHub says into rows and Inbox cards.      *)
(*                                                                         *)
(* One forge host.  A poll is a conversation with a subprocess followed by *)
(* one write per row and one per card: each is a step, and the host may    *)
(* stop between any two.  Nothing else of the host runs meanwhile, but     *)
(* GitHub moves on.  Time is left out: what is due may happen.  A pull     *)
(* request is one name: evidence that spells its repository in another     *)
(* case, which belongs_to takes and get_pr tells apart, is left out.       *)
(***************************************************************************)
EXTENDS Naturals, FiniteSets, SequencesExt

CONSTANTS
    Threads,
    Prs,          \* pull requests that exist on GitHub
    Strangers,    \* those of them in some other repository
    Calls,        \* tool call ids
    Batch,        \* how many rows one document asks about
    None,
    MaxChanges,   \* bound: what happens to pull requests on GitHub
    MaxHides,     \* bound: repositories the token loses sight of
    MaxMishaps    \* bound: polls, writes and prompts that fail, and crashes of the host

ASSUME PullRequestsAssumption ==
    /\ Strangers \subseteq Prs
    /\ None \notin Threads \cup Prs \cup Calls
    /\ Batch \in Nat \ {0}
    /\ {MaxChanges, MaxHides, MaxMishaps} \subseteq Nat

VARIABLES
    forge,     \* GitHub's side: what each pull request looks like
    hidden,    \* the pull requests the token cannot see
    rows,      \* thread_prs: the thread of each row, and GitHub's half of it
    order,     \* the rows ever polled, least recently first (polled_at)
    deleted,   \* the threads with a tombstone
    adapter,   \* per thread: whether it has an adapter, and the kind of each tool call
    watch,     \* per thread: execute_calls and suspected; and, as a ghost, which of
               \* the calls are of an adapter that was forgotten
    op,        \* the refresh or the linking under way
    backoff,   \* backoff_until lies ahead
    changes, mishaps,   \* what is used up of the bounds
    happened,  \* ghost: how often each pull request turned red, or had changes requested
    cards,     \* ghost: how many cards of each event were written
    news       \* ghost: red rows whose card was written, or was lost with its write

vars == <<forge, hidden, rows, order, deleted, adapter, watch, op, backoff,
          changes, mishaps, happened, cards, news>>

Events == {"opened", "checks_failed", "changes_requested"}
Half == [merged : BOOLEAN, red : BOOLEAN, asked : BOOLEAN]
Blank == [merged |-> FALSE, red |-> FALSE, asked |-> FALSE]
NoRow == [thread |-> None, proof |-> "none", half |-> Blank]
NoWatch == [calls |-> {}, suspected |-> FALSE, left |-> {}]
NoAdapter == [live |-> FALSE, kinds |-> <<>>]
Idle == [at |-> "idle", scope |-> None, tick |-> FALSE, next |-> "idle",
         answers |-> {}, cards |-> {}]

\* Go on with what follows a linking: nothing, or a refresh of the thread.
Onward(next, t) == IF next = "fetch" THEN [Idle EXCEPT !.at = "fetch", !.scope = t] ELSE Idle

Linked(p) == rows[p].thread # None
Polled(p) == \E i \in DOMAIN order : order[i] = p

TypeOK ==
    /\ forge \in [Prs -> Half]
    /\ hidden \subseteq Prs
    /\ rows \in [Prs -> [thread : Threads \cup {None},
                         proof : {"none", "execute", "other", "left", "gh"}, half : Half]]
    /\ \A p \in Prs : Polled(p) => Linked(p)
    /\ \A i, j \in DOMAIN order : order[i] = order[j] => i = j
    /\ deleted \subseteq Threads
    /\ watch \in [Threads -> [calls : SUBSET Calls, suspected : BOOLEAN, left : SUBSET Calls]]
    /\ op.at \in {"idle", "fetch", "write"}
    /\ op.cards \subseteq Prs \X Events
    /\ backoff \in BOOLEAN
    /\ news \subseteq Prs

-----------------------------------------------------------------------------
(* Linkage.                                                                *)

\* belongs_to: a repository of the same name as the thread's own.
BelongsTo(p, t) == p \notin Strangers

\* link_pr: the first thread to claim a pull request keeps it; a new row is
\* announced by a write of its own.
LinkPr(t, p, proof, next) ==
    IF BelongsTo(p, t) /\ ~Linked(p)
      THEN /\ rows' = [rows EXCEPT ![p] = [thread |-> t, proof |-> proof, half |-> Blank]]
           /\ op' = [Idle EXCEPT !.at = "write", !.scope = t, !.next = next,
                                 !.cards = {<<p, "opened">>}]
      ELSE op' = Onward(next, t) /\ UNCHANGED rows

\* discover_pr_for_thread: gh names the pull request of the branch, if any.
Discover(t, next) ==
    \E p \in Prs \cup {None} :
        IF p # None
          THEN LinkPr(t, p, "gh", next)
          ELSE op' = Onward(next, t) /\ UNCHANGED rows

\* observe_tool_call: the call is execute if this update, or an earlier one of
\* the same call, says so.
Executes(t, c, declared) == declared \/ c \in watch[t].calls

\* What a link on its output rests on: the kind of the call, or an id that was an
\* execute call's of an adapter there is no more.
Proof(t, c, kind) == IF kind = "other" /\ c \in watch[t].left THEN "left" ELSE kind

\* A session/update about a tool call.  `kind` is what the call really is, and
\* an update need not repeat it.  What it shows is a pull request's URL, a
\* `gh pr create`, or nothing of interest.
ToolUpdate(t, c, kind, declared, shows) ==
    LET declares == declared /\ kind = "execute"
        trusted == Executes(t, c, declares)
    IN  /\ op = Idle /\ adapter[t].live
        /\ c \in DOMAIN adapter[t].kinds => kind = adapter[t].kinds[c]
        /\ adapter' = [adapter EXCEPT ![t].kinds =
                          [d \in DOMAIN @ \cup {c} |-> IF d = c THEN kind ELSE @[d]]]
        /\ watch' = [watch EXCEPT ![t] =
                        [calls |-> IF declares THEN @.calls \cup {c} ELSE @.calls,
                         suspected |-> @.suspected \/ (trusted /\ shows = "create"),
                         left |-> @.left]]
        /\ IF trusted /\ shows \in Prs
             THEN LinkPr(t, shows, Proof(t, c, kind), "idle")
             ELSE UNCHANGED <<rows, op>>
        /\ UNCHANGED <<forge, hidden, order, deleted, backoff, changes, mishaps,
                       happened, cards, news>>

\* An agent_message_chunk that mentions a pull request.
Mention(t) ==
    /\ op = Idle /\ adapter[t].live
    /\ watch' = [watch EXCEPT ![t].suspected = TRUE]
    /\ UNCHANGED <<forge, hidden, rows, order, deleted, adapter, op, backoff, changes,
                   mishaps, happened, cards, news>>

\* An adapter is spawned for a prompt, a deleted thread's too; turn follows turn
\* while it lives.
AdapterComes(t) ==
    /\ op = Idle /\ ~adapter[t].live
    /\ adapter' = [adapter EXCEPT ![t].live = TRUE]
    /\ UNCHANGED <<forge, hidden, rows, order, deleted, watch, op, backoff, changes,
                   mishaps, happened, cards, news>>

\* pr_on_turn_end: gh is asked if the turn suggested a pull request.
TurnEnds(t) ==
    /\ op = Idle /\ adapter[t].live
    /\ IF watch[t].suspected THEN Discover(t, "idle") ELSE UNCHANGED <<rows, op>>
    /\ watch' = [watch EXCEPT ![t] = NoWatch]
    /\ UNCHANGED <<forge, hidden, order, deleted, adapter, backoff, changes, mishaps,
                   happened, cards, news>>

\* Broken: the watch outlives the adapter whose calls it names.
KeepsWatch(t) == UNCHANGED watch

\* pr_forget_thread.
Forget(t) == watch' = [watch EXCEPT ![t] = NoWatch]

\* on_adapter_gone, drop_adapter: the next adapter numbers its calls afresh.
AdapterGoes(t) ==
    /\ op = Idle /\ adapter[t].live
    /\ adapter' = [adapter EXCEPT ![t] = NoAdapter]
    /\ Forget(t)
    /\ UNCHANGED <<forge, hidden, rows, order, deleted, op, backoff, changes, mishaps,
                   happened, cards, news>>

\* forget_adapter: a prompt that cannot be attached or sent kills the adapter, and
\* the watch stays for the next one.
AdapterForgotten(t) ==
    /\ op = Idle /\ adapter[t].live /\ mishaps < MaxMishaps
    /\ adapter' = [adapter EXCEPT ![t] = NoAdapter]
    /\ watch' = [watch EXCEPT ![t].left = watch[t].calls]
    /\ mishaps' = mishaps + 1
    /\ UNCHANGED <<forge, hidden, rows, order, deleted, op, backoff, changes, happened,
                   cards, news>>

\* thread/delete writes a tombstone, and the rows stay under it.
ThreadDelete(t) ==
    /\ op = Idle /\ t \notin deleted
    /\ deleted' = deleted \cup {t}
    /\ adapter' = [adapter EXCEPT ![t] = NoAdapter]
    /\ Forget(t)
    /\ UNCHANGED <<forge, hidden, rows, order, op, backoff, changes, mishaps,
                   happened, cards, news>>

-----------------------------------------------------------------------------
(* The poll.                                                               *)

\* list_prs, list_prs_for_thread: only the former leaves out deleted threads.
ListPrs == {p \in Prs : Linked(p) /\ rows[p].thread \notin deleted}
Listed(scope) == IF scope = None THEN ListPrs ELSE {p \in Prs : rows[p].thread = scope}

\* polled_at, as a rank: NULL sorts first.
PolledAt(p) == IF Polled(p) THEN CHOOSE i \in DOMAIN order : order[i] = p ELSE 0

\* batches: the least recently polled rows, up to a document's worth.
Batches(listed) ==
    {b \in SUBSET listed :
        /\ Cardinality(b) = IF Cardinality(listed) < Batch THEN Cardinality(listed) ELSE Batch
        /\ \A p \in b, q \in listed \ b : PolledAt(p) <= PolledAt(q)}

\* pr_tick: a board with nothing on it is not polled, nor is one in backoff.
MayTick == ListPrs # {} /\ ~backoff

Tick ==
    /\ op = Idle /\ MayTick
    /\ op' = [Idle EXCEPT !.at = "fetch", !.tick = TRUE]
    /\ UNCHANGED <<forge, hidden, rows, order, deleted, adapter, watch, backoff, changes,
                   mishaps, happened, cards, news>>

\* pr/refresh: for one thread, whose pull request is looked for first, or for all.
PrRefresh(scope) ==
    /\ op = Idle
    /\ IF scope # None
         THEN Discover(scope, "fetch")
         ELSE op' = [Idle EXCEPT !.at = "fetch"] /\ UNCHANGED rows
    /\ UNCHANGED <<forge, hidden, order, deleted, adapter, watch, backoff, changes,
                   mishaps, happened, cards, news>>

\* fetch and parse_response: Found rows with what GitHub said; a Missing one is
\* passed over.
Fetch ==
    /\ op.at = "fetch"
    /\ \E b \in Batches(Listed(op.scope)) :
          op' = [op EXCEPT !.at = "write", !.answers = {<<p, forge[p]>> : p \in b \ hidden}]
    /\ UNCHANGED <<forge, hidden, rows, order, deleted, adapter, watch, backoff, changes,
                   mishaps, happened, cards, news>>

\* GitHub could not be asked: the rows stay, and a tick backs off.
FetchFails ==
    /\ op.at = "fetch" /\ mishaps < MaxMishaps
    /\ op' = Idle
    /\ backoff' = (backoff \/ op.tick)
    /\ mishaps' = mishaps + 1
    /\ UNCHANGED <<forge, hidden, rows, order, deleted, adapter, watch, changes,
                   happened, cards, news>>

\* Broken: a review takes the place of the checks.
ReviewFirst(before, after) ==
    CASE after.merged -> {}
      [] ~after.merged /\ after.asked /\ ~before.asked -> {"changes_requested"}
      [] ~after.merged /\ after.red /\ ~before.red /\ ~(after.asked /\ ~before.asked) ->
            {"checks_failed"}
      [] OTHER -> {}

\* card::transition: at most one card per poll per pull request, for a change.
Transition(before, after) ==
    CASE after.merged -> {}
      [] ~after.merged /\ after.red /\ ~before.red -> {"checks_failed"}
      [] ~after.merged /\ after.asked /\ ~before.asked /\ ~(after.red /\ ~before.red) ->
            {"changes_requested"}
      [] OTHER -> {}

\* apply_snapshot: GitHub's half of one row, and the poll's stamp.
Stamped(p) == Append(IF Polled(p) THEN RemoveAt(order, PolledAt(p)) ELSE order, p)

Apply(p, half) ==
    /\ op.at = "write" /\ <<p, half>> \in op.answers
    /\ rows' = [rows EXCEPT ![p].half = half]
    /\ order' = Stamped(p)
    /\ op' = [op EXCEPT !.answers = @ \ {<<p, half>>},
                        !.cards = @ \cup ({p} \X Transition(rows[p].half, half))]
    /\ news' = IF half.red /\ rows[p].half.red THEN news ELSE news \ {p}
    /\ UNCHANGED <<forge, hidden, deleted, adapter, watch, backoff, changes, mishaps,
                   happened, cards>>

\* Broken: the card is decided before it is known that the row was written.
CardRegardless(p, half) ==
    /\ op.at = "write" /\ <<p, half>> \in op.answers /\ mishaps < MaxMishaps
    /\ op' = [op EXCEPT !.answers = @ \ {<<p, half>>},
                        !.cards = @ \cup ({p} \X Transition(rows[p].half, half))]
    /\ mishaps' = mishaps + 1
    /\ UNCHANGED <<forge, hidden, rows, order, deleted, adapter, watch, backoff, changes,
                   happened, cards, news>>

\* The row could not be written: it is as old as it was, and says nothing.
ApplyFails(p, half) ==
    /\ op.at = "write" /\ <<p, half>> \in op.answers /\ mishaps < MaxMishaps
    /\ op' = [op EXCEPT !.answers = @ \ {<<p, half>>}]
    /\ mishaps' = mishaps + 1
    /\ UNCHANGED <<forge, hidden, rows, order, deleted, adapter, watch, backoff, changes,
                   happened, cards, news>>

\* write_pr_card: cards after every write.
MayTell(p, event) == op.at = "write" /\ op.answers = {} /\ <<p, event>> \in op.cards

Tell(p, event) ==
    /\ MayTell(p, event)
    /\ op' = [op EXCEPT !.cards = @ \ {<<p, event>>}]
    /\ cards' = [cards EXCEPT ![p][event] = @ + 1]
    /\ news' = IF event = "checks_failed" THEN news \cup {p} ELSE news
    /\ UNCHANGED <<forge, hidden, rows, order, deleted, adapter, watch, backoff, changes,
                   mishaps, happened>>

\* The card could not be written, and is not tried again.
TellFails(p, event) ==
    /\ MayTell(p, event) /\ mishaps < MaxMishaps
    /\ op' = [op EXCEPT !.cards = @ \ {<<p, event>>}]
    /\ news' = IF event = "checks_failed" THEN news \cup {p} ELSE news
    /\ mishaps' = mishaps + 1
    /\ UNCHANGED <<forge, hidden, rows, order, deleted, adapter, watch, backoff, changes,
                   happened, cards>>

Told ==
    /\ op.at = "write" /\ op.answers = {} /\ op.cards = {}
    /\ op' = Onward(op.next, op.scope)
    /\ UNCHANGED <<forge, hidden, rows, order, deleted, adapter, watch, backoff, changes,
                   mishaps, happened, cards, news>>

\* The backoff has passed, or the machine woke (pr_poll_now).
BackoffEnds ==
    /\ op = Idle /\ backoff
    /\ backoff' = FALSE
    /\ UNCHANGED <<forge, hidden, rows, order, deleted, adapter, watch, op, changes,
                   mishaps, happened, cards, news>>

-----------------------------------------------------------------------------
(* The surroundings.                                                       *)

\* The host stops and is started again: what it held in memory is gone.
Relaunch ==
    /\ mishaps < MaxMishaps
    /\ mishaps' = mishaps + 1
    /\ op' = Idle
    /\ backoff' = FALSE
    /\ watch' = [t \in Threads |-> NoWatch]
    /\ adapter' = [t \in Threads |-> NoAdapter]
    /\ news' = news \cup {p \in Prs : <<p, "checks_failed">> \in op.cards}
    /\ UNCHANGED <<forge, hidden, rows, order, deleted, changes, happened, cards>>

\* A pull request changes on GitHub; a merged one stays merged.
Change(p) ==
    /\ changes < MaxChanges
    /\ changes' = changes + 1
    /\ \/ /\ ~forge[p].merged
          /\ forge' = [forge EXCEPT ![p].merged = TRUE]
          /\ UNCHANGED happened
       \/ /\ forge' = [forge EXCEPT ![p].red = ~@]
          /\ happened' = IF forge[p].red THEN happened ELSE [happened EXCEPT ![p].red = @ + 1]
       \/ /\ forge' = [forge EXCEPT ![p].asked = ~@]
          /\ happened' = IF forge[p].asked THEN happened ELSE [happened EXCEPT ![p].asked = @ + 1]
    /\ UNCHANGED <<hidden, rows, order, deleted, adapter, watch, op, backoff, mishaps,
                   cards, news>>

\* The token loses sight of a repository.
Hide(p) ==
    /\ p \notin hidden /\ Cardinality(hidden) < MaxHides
    /\ hidden' = hidden \cup {p}
    /\ UNCHANGED <<forge, rows, order, deleted, adapter, watch, op, backoff, changes,
                   mishaps, happened, cards, news>>

-----------------------------------------------------------------------------
Init ==
    /\ forge = [p \in Prs |-> Blank]
    /\ hidden = {}
    /\ rows = [p \in Prs |-> NoRow]
    /\ order = <<>>
    /\ deleted = {}
    /\ adapter = [t \in Threads |-> NoAdapter]
    /\ watch = [t \in Threads |-> NoWatch]
    /\ op = Idle
    /\ backoff = FALSE
    /\ changes = 0 /\ mishaps = 0
    /\ happened = [p \in Prs |-> [red |-> 0, asked |-> 0]]
    /\ cards = [p \in Prs |-> [e \in Events |-> 0]]
    /\ news = {}

Linkage ==
    \E t \in Threads :
        \/ \E c \in Calls, kind \in {"execute", "other"}, declared \in BOOLEAN,
              shows \in Prs \cup {"create", "nothing"} :
              ToolUpdate(t, c, kind, declared, shows)
        \/ Mention(t)
        \/ AdapterComes(t)
        \/ TurnEnds(t)
        \/ AdapterGoes(t)
        \/ AdapterForgotten(t)
        \/ ThreadDelete(t)

\* What the host does of a poll once it has begun, failures aside.
PollStep ==
    \/ Fetch
    \/ \E p \in Prs, half \in Half : Apply(p, half)
    \/ \E p \in Prs, event \in Events : Tell(p, event)
    \/ Told

Poll ==
    \/ Tick
    \/ \E scope \in Threads \cup {None} : PrRefresh(scope)
    \/ PollStep
    \/ FetchFails
    \/ \E p \in Prs, half \in Half : ApplyFails(p, half)
    \/ \E p \in Prs, event \in Events : TellFails(p, event)
    \/ BackoffEnds

Surroundings ==
    \/ Relaunch
    \/ \E p \in Prs \ Strangers : Change(p) \/ Hide(p)

Next == Linkage \/ Poll \/ Surroundings

Spec == Init /\ [][Next]_vars

\* The pump keeps turning (adapter pump and supervisor clock), so a poll that
\* has begun goes on, one that is due begins, and a backoff passes.  Nothing is
\* assumed of the agents, of the user, or of GitHub.
Fairness ==
    /\ WF_vars(PollStep)
    /\ SF_vars(Tick)
    /\ WF_vars(BackoffEnds)

LiveSpec == Spec /\ Fairness

-----------------------------------------------------------------------------
(* Properties.                                                             *)

\* A pull request is announced once however many threads and however many kinds
\* of evidence claim it, and a card says "checks failed" or "changes requested"
\* no more often than that came about on GitHub (store link_pr, card::transition:
\* transitions, never states), whatever is polled twice, fails or is cut short.
AnnouncedOnce ==
    \A p \in Prs :
        /\ cards[p]["opened"] <= 1
        /\ cards[p]["checks_failed"] <= happened[p].red
        /\ cards[p]["changes_requested"] <= happened[p].asked

\* Between polls, an unmerged row that is red has had its card in this spell of
\* red, or lost it to a failed write or a crash after the row was written
\* (refresh_linked: the comparison that would say so again is gone with it).
RedIsTold ==
    op = Idle =>
        \A p \in Prs : rows[p].half.red /\ ~rows[p].half.merged => p \in news

\* Both: a card is news, and what is news has a card.
CardsAreNews == TypeOK /\ AnnouncedOnce /\ RedIsTold

\* "Only execute output counts" (detect.rs): no row was linked on the output of a
\* call that was not execute, nor a stranger's pull request on any evidence, even
\* when an adapter uses the ids of one that died or was dropped again.
OnlyExecuteIsProof ==
    \A p \in Prs : Linked(p) => rows[p].proof # "other" /\ p \notin Strangers

\* "Keeping them would let the next adapter's reuse of the same id be read as PR
\* evidence" (on_adapter_gone).  forget_adapter keeps them, and it does.
NoIdIsLeft == \A p \in Prs : Linked(p) => rows[p].proof # "left"

\* A card cannot announce a state the store does not hold (refresh_linked).
NothingUnheldIsTold ==
    [][\A p \in Prs :
        /\ cards'[p]["checks_failed"] > cards[p]["checks_failed"] =>
              rows[p].half.red /\ ~rows[p].half.merged
        /\ cards'[p]["changes_requested"] > cards[p]["changes_requested"] =>
              rows[p].half.asked /\ ~rows[p].half.merged]_vars

\* A row on the board that GitHub would answer for, and that is not what GitHub
\* says.
Behind(p) == p \in ListPrs /\ p \notin hidden /\ rows[p].half # forge[p]

\* "Least recently polled first, so a board longer than one batch still refreshes
\* every row eventually rather than the same 25 forever" (batches).  It does not
\* when rows GitHub will not answer for fill the batch: they are never stamped.
EveryRowIsRefreshed == \A p \in Prs : Behind(p) ~> ~Behind(p)

=============================================================================
