# A TLA+ model of the JaBot host

JaBot is a desktop application that runs coding agents. Its Rust process, the *host*
(`src/src-tauri/src/host`), keeps threads, starts ACP adapters (agent processes speaking JSON-RPC over
their standard streams), sends them the user's prompts, records what happens in SQLite and brings a
sleeping thread back to the Inbox when something needs the human. Around that core it runs schedules,
pairs phones, serves tool calls of its own crew, makes worktrees, polls pull requests and keeps OAuth
grants. This directory models each of those protocols, checks them with TLC and proves with
TLAPS what does not depend on fairness.

Paths below are relative to `src/src-tauri/src/host` unless they start with `src/`.

## 1. Inventory of the system

| component | code | state it keeps | operations | module |
|---|---|---|---|---|
| run ledger | `lifecycle/ledger.rs`, `store/overlay.rs` | a row per run: state, seq, stop reason | insert, advance, latest | `Ledger`, `RunHistory` |
| thread overlay, Inbox cards | `lifecycle/state.rs`, `lifecycle/resurface.rs`, `store/overlay.rs` | state, resurfaced reason, fold policy, tombstone; cards with read and dismissed stamps | fold, reopen, archive, delete, resurface, restate, mark read | `Overlay` |
| lifecycle service | `lifecycle/mod.rs`, `lifecycle/process.rs` | the process axis of each thread (RAM) | one hook per event of a session; stuck timer, hard cap, boot card | `Session` |
| ACP session and pump | `acp/mod.rs`, `acp/connection.rs` | connections by key, session owners, routed events (RAM) | prompt, cancel, pump, route, adapter gone, forget adapter | `Session`, `Pool` |
| prompt queue | `transcript/queue.rs` | prompts held back per thread (RAM) | intercept (reject, queue, interrupt), drain, drop | `Session` |
| permission broker, agent questions | `permission/mod.rs`, `interaction/mod.rs`, `store/permission.rs` | pending asks (RAM), their record (disk) | open, withdraw, reply, close at boot | `Session` |
| supervisor | `supervisor/*.rs` | clocks, the stopwatch of a cancel (RAM) | release, reap, drain, cap, evict, wake, boot, resume | `Session`, `Pool` |
| schedules | `schedule/*.rs`, `store/schedule.rs` | schedules and fires (disk), the label of the next run (RAM) | edit, claim, dispatch, deliver, catch up, run now | `Schedule`, `Cron` |
| pairing, routing of clients | `pairing/*.rs`, `router.rs`, `store/pairing.rs` | offers and connections (RAM), paired devices (disk, vault) | offer, claim, confirm, complete, hello, revoke | `Devices` |
| Chief bridge, handoffs, crew | `chief/*.rs`, `crew/standing.rs`, `store/handoff.rs` | listeners and tool calls (RAM), handoffs, standing threads (disk) | call, answer, hand off, deliver, finish | `Chief` |
| bot drafts | `crew/draft.rs`, `store/draft.rs`, `src/src/views/crew.ts` | drafts (disk), what each window lists | propose, list, save, dismiss | `Drafts` |
| thread branching | `lifecycle/branch.rs`, `store/branch.rs` | links from messages to threads (disk) | branch, copy, mark, link, first prompt | `Branch` |
| worktrees | `git/*.rs` | directories, branches, columns of the overlay row | acquire, save, anchor, release, restore, sweep | `Worktrees` |
| pull requests | `pr/*.rs`, `store/pr.rs` | watched tool calls (RAM), PR rows and cards (disk) | detect, link, poll, announce | `PullRequests` |
| tools and OAuth | `tools/*.rs`, `store/secrets.rs` | flows and leases (RAM), connections (disk), tokens (vault) | connect, callback, exchange, refresh, expire, disconnect | `Tools` |
| transcript, notifications | `transcript/mod.rs`, `seq.rs`, `log.rs`, `mod.rs` | rows (disk); numbers and log (RAM) | append, replay, notify, resume | `Stream` |
| clients | `src/src/views/transcript.ts`, `src/src/mobile/*.ts` | what is drawn, the last number heard | open, follow, answer, connect, reconnect, refresh | `Stream` |
| Aider adapter | `harness/aider_acp.rs` | the session, the last turn, a thread and a process group for each turn (RAM); message and chat files | prompt, cancel, stream, wait, answer | `Aider` |
| memory, summary panel, harness, store engine, protocol | see `PROJECT.json` | - | lists, text, I/O | - |

How they interact. Everything in the host runs on one thread at a time: client calls, one pump of ACP
events, and the timer passes at the end of a pump (`schedule`, `pr` and the keep-alive among them).
What is concurrent is each adapter (its events wait in a pipe, so the host acts on a state the agent has
left), the threads of a bridge and of a sign-in, the user (who may fold, cancel, queue or archive between
any two events), the subprocesses `git` and `gh` with the repository and GitHub behind them, the clients
(whose answers and notifications cross on the wire), time (a cap, a grace, an expiry, an occurrence) and
death, of an adapter or of the host. A handler can also be re-entered: an interrupt and a Chief tool call
send a prompt, and sending pumps. Half of the state is on disk, a third kind is in the operating system's
vault, the rest in RAM: a handler writes several of them one after another, and a crash keeps a prefix.

What makes each correct, in one line:

- ledger: one turn at a time; a run ends once; every run ends;
- overlay: a sleeping thread comes back for a result, a question or a failure; the louder card stays;
- queue: an accepted prompt is sent, dropped with a notice, or dies with RAM, once and in order;
- asks: decided once; whatever an adapter waits for is undecided; none is slept on;
- session: an open run has an adapter that can still end it; an event reaches the thread it is about;
- schedules: no occurrence is forgotten or run twice, a missed one is counted, a result is told once;
- devices: a grant is what both people agreed to; a signed hello opens one connection; revoked is gone;
- Chief: calls of a session run in order, once; what was handed off is on record and in sight;
- drafts: one bot at most comes of a proposal, and it is what the user saw or wrote;
- branches: a message leads to one thread, which begins with the whole of what came before;
- worktrees: no work of an agent becomes unreachable; a row can be relied on to find it;
- pull requests: news is told once and is true of the row; a link needs the output of a command;
- tools: the grant is the latest the user gave; one session has a profile; connecting ends;
- stream: what is drawn is what was said, once and in order; what can be answered is what is open.

The hazards, each at its line with the properties that cover it, are in `PROJECT.json`.

## 2. The modules

| module | what it is |
|---|---|
| `Ledger` | one thread's runs as a sequence of states, the edges of `advance`, and the operations the lifecycle performs; also `Lawful`, what one step may make of the runs |
| `Overlay` | the overlay row with its cards, the table of `next_state` and the store's writes |
| `Session` | one thread from prompt to turn end: the state machine of the host, its adapter and its user; composes `Ledger` and `Overlay` |
| `RunHistory` | the abstract specification: what the ledger promises of one thread |
| `Cron` | when an expression comes round on a local clock that may repeat or skip an hour |
| `Schedule` | schedules, fires and their results; composes `Cron`, `Ledger` and `Overlay` |
| `Devices` | pairing, hello and revocation |
| `Pool` | several threads on one adapter process |
| `Aider` | the adapter of one thread that runs a program for each prompt; extends `Pool` |
| `Worktrees` | the trees and branches of code threads in one repository |
| `PullRequests` | detection and the poll |
| `Tools` | consent, grant, and the lease of a browser profile |
| `Chief` | host tools, handoffs and standing threads |
| `Drafts` | the bots that agents propose and the windows that decide; extends `Chief` |
| `Stream` | the transcript, the numbered notifications and what the two clients make of them |
| `Branch` | branches of a thread; extends `Stream` |
| `MC...` | the instances TLC checks (`Session` and `Branch` need none); `MCChief` is of `Drafts` |
| `SessionProofs`, `PoolProofs` (with `Aider`), `GrantsProofs` (`Devices` and `Tools`), `CrewProofs` (`Chief` and `Drafts`), `WorktreesProofs`, `PullRequestsProofs`, `ScheduleProofs`, `StreamProofs` (with `Branch`) | the theorems, section 6 |

The modules do not share one state. They meet where the code passes a call, and each takes from its
neighbour only what it needs: `Schedule` has the real overlay and ledger operations but a turn ends at
will; `Pool` keeps of a run only whose it is; `Chief` keeps of a turn only whether it is open. `Session`
is where a turn is modelled in full, of one thread with a process of its own.

Constants named `Max...` are bounds of the model unless the code has them (`MaxAttempts`,
`MaxOpenOffers`, `MaxScan`, `MaxNames`, `MaxGenerations` are the code's). Operators marked "Broken" are
the mutants of section 3.

### Session

| variables | code | lost in a crash |
|---|---|---|
| `thread` | `threads` row and `inbox_events` | no |
| `runs` | `runs` | no |
| `said` | user entries of the transcript | no |
| `asks` | `permission_requests` | no |
| `attached`, `proc` | `connections`, `ProcessStatus` | yes |
| `live` | `pending_permissions` | yes |
| `queue`, `stopwatch` | `prompt_queue`, `cancel_requested` | yes |
| `arriving` | the local variable of `intercept_in_flight` that holds an interrupt's text while its own cancel pumps | yes |
| `batch` | the vector `pump_acp` fills before it handles any of it | yes |
| `wire`, `agent` | the pipe and the agent: environment | yes |
| `submitted`, `dropped`, `forgotten`, `restarts` | history the properties need; `dropped` is the `prompt_dropped` line of the transcript | - |

One action stands for one whole handler, with every call it makes. The one handler that is cut in
two is the interrupt (`PromptInterrupt`, `FinishInterrupt`): it calls `session_cancel`, which pumps, so
events are handled between its first and its last write. `Route` and the `Handle...` actions are the
two halves of `pump_acp`; while a batch is being handled no client call and no timer runs (`Idle`,
`Free`). `Drain` is an operator, because the code drains inside other handlers.

Crashes. `Crash` may happen between any two steps, including between two events of one batch. The
three `Crash...` actions with `MidCrash` stop a handler between two of its writes, in the order the code
makes them: opening a run, ending a turn, closing out a thread.

Abstractions, by name:

- Time: a timer may fire whenever its condition holds, never before. A cap may come early; a prompt
  answer to a cancel may race the grace that gives up on it.
- Text, titles, options and kinds of tools: an ask is a "read", an "execute" or a "question", and whether
  a read offers to be allowed once is open (without it, it goes to the user: `HandleAsk`); a reply was `visible` or `silent`; a stop reason is `end_turn`, `cancelled` or `refusal` (for all that fail).
- Cards: `unread` and `seen` hold kinds. A kind with several old read cards is one member, so
  `Restatements` leaves open whether another stays behind.
- The run id a result carries is a history value: the code does not have it. `HandleResult` never reads
  it, `ResultEndsItsRun` does.
- A restored session exists on the agent's side when the thread ever sent a prompt (`said # <<>>`).
- The store does not fail, and a write is one atomic step.
- The agent waits while a batch is handled: the host reads nothing then, so every event it could write
  would be read by the next `Route` anyway.

Code behaviour kept on purpose although it looks unusual: prompts are accepted on archived and deleted
threads (`session_prompt` asks neither); an ask may be answered after its adapter is gone; a reply may
fail to be delivered although the adapter lives; the process axis and the asks survive a refused prompt.

### Pool

The threads of one profile-scoped harness resolve to one connection. The reader thread of the connection
fills `queue` at any moment, also while the host waits for a reply (`call`), drains (`phase`) or handles
(`batch`). A request that times out is any reply that is not "yes". `transcript` keeps, for each thread,
the sessions whose updates it holds, which is what a property about routing can see. A failed
`initialize` leaves a process with no tenant (`supervisor/resume.rs:166`), and so does the model.

A turn may end before its response. A v2 agent (ability "states") reports that it is idle and why, at any
time and as often as it likes; `HandleEnded` then closes the run that is open, as `lifecycle_on_update`
does, while the response is still owed, its owner still recorded, and what was held back still held. The
response may come later, when the next turn's run is open, and closes that (section 5, `ResultEndsNoOther`);
or never, and then `DrainStranded` sends what was held. `early` is a ghost: the prompts whose run was taken
by such a report, or by the response of a prompt that is in `early` itself. `ResultEndsOwnTurn` speaks of the
responses to all other prompts. The process axis is not in this module, so `DrainStranded` may come earlier
than in the code, which waits for it to be idle. Left out: answers that arrive after their request timed
out, and the restart of the host.

### Aider

A harness is shared by a profile (`Pool`) or has a process for each thread, so a behaviour of `AiderSpec`
has one of the two kinds (`scope`). The adapter's reader takes prompts and cancels in order; each turn has
a thread that streams the output of its `aider`, waits for it, settles what it came to and answers. Between
any two of these steps the reader may kill the `aider` and answer the cancel. The lock of a turn is held
for the kill, which lasts, and is the reason `Waited` has `Locked`; the mutex of standard output orders whole
lines and is not seen. `Drop` is everything that ends the adapter: the cap, an archive, an eviction, the end
of the host. The adapter runs each `aider` in a process group of its own, so `Drop` leaves it at work. What
`aider` reads and writes are the two files of its session. Each process numbers its sessions from one and
makes one, so the files of every Aider thread are the same two (`folder`).

### Schedule and Cron

Time is a line of instants and `Zone` gives the offset of the local clock at each; the instance repeats
an hour (instants 6 and 7), days have two hours of two units. `SpringForward` and `EveryMinute` in
`MCSchedule` are a second zone and a second set of expressions for the same module. A pass of the tick
is cut wherever the host may stop: rule, claim, prompt, link, card, note. A crash between claim and
`set_fire_target` leaves a fire that the boot pass marks failed, without a card; one between the update
of a schedule and its rearm leaves it enabled and unarmed (`torn`, which `NoneForgotten` leaves out).
Ids are random and never given twice, so a schedule that was deleted stays away (`gone`): its fires are
deleted with it, but its runs and cards remain, and a second schedule under the same id would inherit them.
Kept as they are: a step over a single value (`5/1`) is that value, a day-of-week range may not wrap, and
the count of missed occurrences stops at `MAX_SCAN`.

### Devices

What both sides derive from the offer's secret and the transcript (proofs, safety number, device token)
is the transcript itself, `<<offer, phone, channel>>`; no key or digest is modelled. Two installations
claim to be one device. A hello may arrive late, again, or after the host came back. The grant is two
writes, the token and then the row; after a vault that fails the offer says "paired" though nothing was
granted, as in the code. Pairing a device again without a revoke keeps its old connection bound.

### Worktrees

A tree is known by its directory, which is the slug of its thread's id (`Slug`, a constant: `slug()` is not
one to one, and the ids come from clients). A claim, a sweep, a `git` command and a minted branch go by the
directory; a row goes by its thread. Work is a set of numbered edits, so "reachable" is membership in a
branch, a tree, or what the user threw away (`forfeited`). Each `git` command and each read or write of the
store is a step, may fail, and the host may stop before it. A failure of the store is handled where the code
does: a branch that could not be recorded is logged and the claim is cleared all the same (`RecordFails`,
`git/mod.rs:223-230`), other reads and writes end the operation (`StoreFails`, `InsertFails`), and a store
that does not open lets no sweep run (`Boot`). The agent commits, switches branch and leaves
files while an operation is under way. Reached by the model and by the code: a crash between a restore
and `set_thread_worktree` leaves a live row unclaimed, so the next sweep collects its tree (saving it
first); a crash after the anchor leaves a rescue branch no row names; a save on a detached HEAD is
reachable only through its anchor. `RowsAreReliable` has two exceptions, which its definition names and
section 5 refutes without: threads whose slugs are equal (`SlugsDiffer`; the instance has two directories,
`Shared` in `MCWorktrees` one), and the row whose branch the store did not take. `NoWorkIsLost` has neither:
it holds of threads that share a directory. `setup::apply`, the refusal of a bad base ref, the use of the user's own
checkout and the lock of a tree are left out.

### PullRequests

A poll is a conversation with a subprocess and one write per row and per card. GitHub moves on between
any two, rows may be hidden from the token, a write may fail. Draft, closed and running checks are one
state each with their neighbours (`red`, `asked`, `merged` are what cards are about). Rows with an equal
`polled_at` are in any order. A crash, or a card write that fails after the row's, loses that card for
good: the row then says the news is old. `CardsAreNews` leaves these out through the ghost `news`.
An adapter goes in three ways: it dies or is dropped, which forgets the execute ids of its calls
(`AdapterGoes`), its thread is deleted, or a prompt that cannot be attached or sent forgets the adapter and
leaves the ids (`AdapterForgotten`; `left` is a ghost that marks them). The next adapter may use a left id
for another kind of call, whose output is then taken for an execute call's; `OnlyExecuteIsProof` leaves
such a link out (its proof is "left", not "other") and `NoIdIsLeft` of section 5 does not. A pull request is
one identity, although `belongs_to` compares the repository without case (`pr/mod.rs:411`) and `get_pr`
with it (`store/pr.rs:168`): two spellings would be two rows of one pull request.

### Tools

One provider and one local server whose profile directory is a lock. A sign-in has a thread of its own;
the grant is bytes in the vault, a pointer and a row, each written by itself. Reached by the model and by
the code: a vault that fails to erase leaves orphaned bytes; one that fails to delete inside
`put_tool_grant` loses the fresh consent; a consent that fails marks a working grant as an error; a
disconnect is not a revocation at the provider, nor of sessions that run. Scopes, discovery,
registration, PKCE and standard-stream servers are left out; so are errors of the expiry write. Leaving
is taken to end the local servers of a session, which a shared adapter might keep.

### Chief

Agents call on threads of their own, through a bridge per session, and wait; the host answers from its
pump. Handing over prompts another thread, which pumps, so turns end and adapters die in the middle of a
call; a second call found then waits (`chief_dispatching`). The tools that only read are one kind, "status".
The user opens a bot's standing thread and prompts it, or prompts any thread there is: `session_prompt` does
not ask whether it is archived or deleted, so such a thread may have a turn of the user's. `WorkIsInSight` is
about tasks, a turn or a held prompt of a handoff or a spawn, which only the host places. A call may time out on the agent's side and run afterwards; whether an agent retries is
its own affair. The fold of a thread that rests comes straight back, and a prompt of the user attaches in
one step. A panic that leaves `chief_dispatching` set is not modelled.

### Drafts

A step of `DraftsSpec` is a step of `Chief`, the tool call "draft", or something a window does: read the
list (`crew/drafts`), save or dismiss. A window decides on the list it read last, by the revision it read,
and may decide again when it heard no answer. Each bot uses one request key, so a second proposal meets
the first. What is saved is the proposal, what the window shows, or what its editor made of it (`Edited`);
the fields of a draft are one value. `told` and `made` are ghosts, of the answers given and the bots made.
A proposer that is removed counts as one that lost the tool. What the save does for the new bot's memory
is left out, as is the removal of a bot that was made of a draft.

### Branch

`BranchSpec` adds to `Stream` the threads opened for branches (`children`) and the handler `thread_branch`,
cut at each of its writes: open, copy, mark, link. Any of them may fail and the host may stop before any. The
handler holds the session, so `Stream` moves only when it rests; a click is tried where no client is
(`who = "none"`), because a branch needs none of what they draw. A child whose copy failed is deleted; one
whose link failed, or was never written, stays on the list of threads and no message leads to it. The
source is never deleted, no branch is made of a branch, and `insert_branch` meets no other writer. `knows`
says whether the agent of a branch was ever given the copied history.

### Stream

A handler of the host writes its row and sends its frame in one step. Between a client's question and
its use of the answer anything may happen. The desktop and the phone do not meet, so a behaviour has
one of them (`who`). Asks are permission requests; the card a client takes away when it answers is taken
away by the `resolved` frame. The queue strip, reactions, the busy flag and how a frame is drawn are left
out. `MobileSession` is a library of this repository whose shell is elsewhere: its methods are called in
any order. The ghost `cut` marks a screen that has lost what no resume can bring: the thread was never
heard of, the host restarted, its log rolled past the gap (`Cap`), or the resume failed.

## 3. What is checked

| run | module, instance | properties | what they say |
|---|---|---|---|
| `turns` | `Session`: 3 prompts, no asks, an agent that ends every turn twice | `PromptsAccounted`, `SentInOrder`, `LedgerPromise` | no accepted prompt vanishes or overtakes; the ledger implements `RunHistory` |
| `asks` | `Session`: 2 prompts, 2 asks, both fold policies, no restart | `LiveAsksArePending`, `NoAskAsleep`, `AsksAreServed`, `NoResultAsleep` | an ask or a result is not slept on nor outranked, and what is asked has somebody to answer |
| `restarts` | `Session`: 2 prompts, 1 ask, 1 quit or crash anywhere | `TypeOK`, `OnlyNewestOpen`, `OpenRunIsServed`, `RunsEndOnce`, `AsksDecidedOnce` | one open run, with an adapter; runs and asks end once |
| `progress` | `Session`: 2 prompts, `FairSpec` | `RunsEnd`, `QueueMoves`, `FoldedComesBack` | every run ends, every held prompt moves, a sleeper comes back |
| `schedules` | `MCSchedule`: 1 schedule, 2 expressions, both policies, a repeated hour, 1 crash | `FiresAreToldOnce`, `OccurrencesKept`, `OutageIsCounted` | an occurrence is claimed, counted or owed; none runs twice; its result is told once, and is its own |
| `devices` | `MCDevices`: 2 installations of one device, 2 offers, 2 hellos, 1 crash | `GrantsAreEarned`, `HelloOnce`, `ConnectedIsGranted` | a grant was compared on both sides; a hello counts once; whoever is connected has a standing grant |
| `pool` | `MCPool`: 2 threads, 2 sessions, 2 prompts, 2 processes, agents that resume and close, or load and report the end of a turn, and leave out ids; or 2 Aider adapters, 2 turns, 1 cancel, 1 drop | `EventsFindTheirWay`, `OpenRunHasSession`, `ResultEndsOwnTurn`, `TurnsAreAnswered` | what the pump hands on goes to the thread of its session; an open run has a session; a response ends its own turn, unless a report ended it before; an Aider turn is answered once, and never with success that was none |
| `worktrees` | `MCWorktrees`: 2 threads with slugs of their own, 2 edits, 3 moves, 1 failure, 1 crash | `NoWorkIsLost`, `RowsAreReliable` | every edit that was not committed on a detached HEAD stays reachable; a live tree stands, and a cleared row names the work unless the store did not take the name |
| `prs` | `MCPullRequests`: 1 thread, 1 call id, 3 pull requests (1 elsewhere), batch of 2, 1 failure, crash or forgotten adapter | `CardsAreNews`, `OnlyExecuteIsProof`, `NothingUnheldIsTold` | each change is told once; a link needs the output of an execute call; no card for a row the host does not hold |
| `tools` | `MCTools`: 2 threads, 2 consents, 3 tokens, 1 failure or crash, `ToolsLiveSpec` | `GrantIsCurrent`, `OneProfileAtATime`, `HonouredIsKept`, `ConnectingEnds` | the grant is the last the user gave and nothing after a disconnect; one session has the profile; a token the provider takes is not thrown away; a chip does not connect for ever |
| `crew` | `MCChief`: 2 bots with 2 standing threads each (`MaxGenerations = 3`), 2 calls of every kind, 2 windows, 2 proposals, 4 moves, 1 crash | `CallsAreKept`, `HandoffsStand`, `ProposalsStand` | calls run in order and once; a task handed off is on record and in sight; one standing thread to a bot; a draft makes one bot, of what was shown |
| `stream` | `Branch`: 3 updates (1 the store refuses), 1 ask, a log of 2, a window of 2, 1 loss of the line, 1 restart, 2 branches | `DesktopIsTrue`, `PhoneMissesNothing`, `BranchesStand` | each update drawn once and in order, from the newest row; the cards are the asks that wait; a message leads to one branch, with its history |

Bounds. In `Session`, three prompts are the least that show overtaking in a queue (one running, one held,
one arriving), two are enough for a second turn to be hit by what the first left behind, and two asks are
the least with which one of several is answered. One unread event per pipe suffices for the interleavings
of the host and the agent, because the pipe is refilled between any two steps of the host; what two
events in one batch add is a client call that does *not* run between them. One restart shows everything a
boot pass can find. Everywhere else a bound of two is what it takes for one to meet another: two
occurrences (and the second hour that reads like the first), two installations, offers and hellos, two
tenants and two processes of a pool, two trees that share branches, two rows in a batch and one of
another repository, two consents with a token to refresh, two calls of which one finds the other running,
a log and a window that a third update overflows, two windows
that decide about one draft, two branches of which one replaces the other or is of another message. One crash and one failure suffice where what is
checked speaks of what a single operation leaves behind; two failures in one operation are not tried.
Clocks are bounded (`MaxTime`) at the second day of a schedule and past the life of an offer. The phone
opens its screen once, because closing it leaves nothing behind.

Symmetry is used in `devices` (installations), `crew` (bots, windows and proposals) and `prs` (pull
requests and threads), where nothing names or orders the members of a set and the properties are about safety.

`CHECK_DEADLOCK FALSE` in the runs whose user, agent or clock may do nothing more. `prs` and `tools` check
deadlock: a poll timer and a provider always have something to do.

Each property has a mutant in `PROJECT.json`: a plausible bug in a mapped definition under which TLC
finds the property violated. The operators marked "Broken" in the modules exist for that and are used
nowhere else.

## 4. Fairness

`Session`: `FairSpec` assumes only what the host's scheduling gives. The pump is called on a timer and
handles all it took (weak fairness on `Pump`), and an interrupt returns from its pump (`FinishInterrupt`).
The reap, the cap, the queue passes and the release of a cancel run at the end of *every* pump, whatever
came before, on conditions that may flicker with the events in between, so they have strong fairness.
Nothing is assumed of the user, of the agent, of the stuck timer, or of anyone to start the host again.
`RunsEnd` therefore holds against an agent that never answers, by the cap.

`Tools`: `Fairness` is that an operation under way takes its steps (`GrantStep`, `Attach`), that the sign-in's
thread gives up when its time is over or reports that it failed (the listener has a deadline,
`tools/flow.rs:152`), and that the host drains what that thread reports (strong, as other operations come
between). Nothing is assumed of the browser, the user or the provider.

`PullRequests`: `Fairness` (a poll under way goes on, the timer comes round, a backoff ends) is what
`EveryRowIsRefreshed` would need; section 5 says why it fails even so.

The other runs check safety only. A host that has stopped may stay stopped, so nothing is live across a
crash.

## 5. Where the code and its text disagree

Each entry names a property that is stated in the module, the text it comes from, and the change to a
configuration under which TLC finds the counterexample. No run of the project has them, and the passing
runs say what holds once they are excluded.

| property | text | what the code does | instance |
|---|---|---|---|
| `Session!ResultEndsItsRun` | `acp/mod.rs:704` "ledger transition is idempotent and this is then a no-op"; `lifecycle/mod.rs:669` "Whichever lands first closes the run; the other finds none open" | a v2 agent ends turn 1 by a state and then by its response; a prompt sent in between is closed by that response | `turns` |
| `Session!StopIsCurrent` | `mod.rs:195` "for a thread whose turn has not ended since" | the stopwatch of a cancel outlives a turn that ended by death, cap or archive and drops prompts behind a later one (`supervisor/keepalive.rs:81`) | `turns` |
| `Session!NeedsYouSurvivesDeath` | `lifecycle/mod.rs:874` "A thread already resurfaced as Needs you keeps that card" | the death of an asker that had shown nothing is first diagnosed as a failed turn, which replaces the card | `asks` |
| `Session!NoLossAsleep` | `lifecycle/mod.rs:248` "should not park it in Still Sleeping waiting for an event that will never come" | folded after its ask was withdrawn, a thread sleeps on over a run that was lost with its adapter | `asks` |
| `Session!SleeperIsWatched` | `lifecycle/mod.rs:917` "would mean 'went quiet on screen, then folded' never produces a card" | the stuck latch survives reopen and fold, so the backstop is disarmed for that fold (`:933`) | `progress`, as `Spec` |
| `Session!QueueMoves` | `supervisor/keepalive.rs:149` "The supervisor is the right place to catch it" | an update that trails the turn's end sets the axis to running; a prompt queued in an interrupt's window is then neither sent nor dropped | `progress` with `MaxWire = 2`, `Chatter = TRUE` |
| `Session!LiveAsksHaveAdapter` | `permission/mod.rs:95`, of an ask whose adapter died: resolves `cancelled` | an ask raised between turns stays when a refused prompt forgets the adapter (`acp/mod.rs:456`) | `asks` with `Chatter = TRUE` |
| `Session!NoResultAsleep` | `lifecycle/mod.rs:542` "A result must not be lost" | a crash between `close_run` and the card (`:716`) leaves a folded thread over a finished run; the boot pass looks at open runs only | `restarts` |
| `Schedule!OneRunPerOutage` | `schedule/catchup.rs:8` "At most one run comes out of" | in the hour the clock repeats, a schedule is armed for a time that is past already | `schedules` |
| `Schedule!ResultIsCarded` | `schedule/fire.rs:321` "A schedule fire on a **folded** thread has already produced a card" | the check is for any card of the run: one that asked on its way has a Needs you card, so its end on an open thread is told by none | `schedules` |
| `Devices!RowHasToken` | `pairing/mod.rs:563` "A row that names a token the vault does not have is a device that can never authenticate" | pairing again writes its token over the one the standing row names, and takes it away when the row cannot be written | `devices` |
| `Pool!NeverCrossed` | `acp/connection.rs:449` "none means *drop it*, not "give it to whoever"" | an event without a session id, read while a session is being made, goes to the thread being attached | `pool` |
| `Pool!NoPanic` | `supervisor/resume.rs:334` "an adapter that died mid-load has to reach the same code path as any other adapter that died" | that path drops the connection, and the prompt the restore was for then expects it to be there (`acp/mod.rs:189`) | `pool` |
| `Pool!AskIsHeld` | `acp/mod.rs:277` "A blocking request nobody owns still has to be answered, or the agent's turn hangs on it" | only an extension's request is; a permission request routed to no thread is neither held nor answered | `pool` |
| `Pool!ResultEndsNoOther` | `acp/mod.rs:703` "ledger transition is idempotent and this is then a no-op" | a report ends turn 1 of a thread, the user prompts again, and the response to turn 1 closes the run of turn 2 | `pool` |
| `Aider!CancelSaysSo` | `harness/aider_acp.rs:948`, the test `cancel_kills_a_running_turn`: the stop reason is `cancelled` | the reader lets go of the turn's lock before it marks the turn done (`:323`), so the turn's thread may see the killed `aider` and answer `error` first | `pool` |
| `Aider!NothingWorksUnlisted` | `procgroup.rs:4` "Killing the pid we spawned leaves that subtree running with no parent" | the group of the adapter is killed, but each `aider` is a group of its own and goes on in the tree after its run was closed | `pool` |
| `Aider!FilesAreItsOwn` | `src/docs/research/harness-integration/aider.md:30` "Per-session `--chat-history-file` under `$TMPDIR/jabot-aider/<sessionId>/`" | every process calls its session `aider-1` (`:187`), so two threads write one message file and share one chat | `pool` |
| `Worktrees!NothingUnsavedIsRemoved` | `git/worktree.rs:22` "Nothing is removed before it is saved" | an agent that commits on a detached HEAD leaves a clean tree, which is removed with no ref on its commits; so is one whose save was committed and not yet anchored when the host stopped | `worktrees` |
| `Worktrees!ClaimIsTrue` | `git/mod.rs:227` "The column means "a host-owned tree exists here"" | a sweep collects the tree of an archived thread without clearing the column | `worktrees` |
| `Worktrees!RowFollowsSave` | `git/mod.rs:215` "The row has to follow it, or reopen restores a checkout of the branch that does *not* have the work" | when `set_thread_branch` fails, the failure is logged and the claim cleared (`:223-230`): the row names a branch without the work | `worktrees` |
| `Worktrees!RowsAreReliable` | `git/mod.rs:156` "it is ours, under our root, so collect it first" | two ids with one slug (`a.b`, `a-b`; `git/worktree.rs:426`) have one directory, and opening the second thread collects the tree of the first, which is live; its edits are saved on a branch | `worktrees` with `Slug <- Shared` |
| `PullRequests!NoIdIsLeft` | `acp/mod.rs:399` "keeping them would let the next adapter's reuse of the same id be read as PR evidence" | `forget_adapter` (`:456`), which ends the adapter of a prompt that failed, keeps them | `prs` |
| `PullRequests!EveryRowIsRefreshed` | `pr/mod.rs:471` "Least recently polled first, so a board longer than one batch still refreshes every row eventually rather than the same 25 forever" | only a row GitHub answered for is stamped (`:455`), so rows it does not answer for keep their place at the head of the batch | `LiveSpec`, two rows, `Batch = 1`, `Strangers = {}`, `Calls = {}`, `MaxChanges = 1`, `MaxHides = 1`, `MaxMishaps = 0` |
| `Tools!ConnectedHasTokens` | `store/mod.rs:1002` "the chip can say "needs auth" instead of silently pretending to work" | each operation revokes first; a vault that fails next leaves a row that says connected over no bytes | `tools` |
| `Tools!RefusedForAHolder` | `tools/mod.rs:314` "a lease that outlived the process it described would lock the tool out for the rest of the session" | the holder may come back without the tool and keep the lease | `tools` |
| `Chief!ListenerGoesWithSession` | `acp/mod.rs:395` "the listener serving them should not outlive it" | a prompt that is refused forgets the adapter and leaves the listener | `crew` |
| `Branch!BranchKnowsItsPast` | `acp/mod.rs:182` "The first prompt on a child that has never had a session carries that history so the agent can continue from the cut" | the session is on the row before the prompt is on the wire (`:187`), so a first prompt that fails takes the history with it; and a child whose link was not written is never given any | `stream` |
| `Stream!PhoneMissesNothing` | `src/src/mobile/session.ts:205` "Come back after the phone was offline, and ask for what was missed" | a frame that arrives between the hello and the copy of `heads` moves the head past the gap, which is then never asked for; an ask that arrives between the read and its publication is overwritten | `stream` with `Quiet = FALSE` |
| `Stream!PhoneDrawsOnce` | `src/src/views/transcript.ts:275` "An event at or below the head is one we already have" | connecting again subscribes a second handler (`session.ts:138`), and a frame may overtake the answer to a resume | `stream` |

Smaller ones, seen in the model and stated by no property: answering one of two open asks puts the run
back to running while the other still blocks the agent (`lifecycle/mod.rs:816`); the boot pass's
`restate_inbox_event` makes a card that was read unread again on a thread that is active
(`store/overlay.rs:684`); an update between turns makes a thread go quiet with no run open
(`lifecycle/mod.rs:638`); a handoff is marked dispatched when its prompt only joined a queue in RAM
(`chief/mod.rs:406`); the host that waits in `session/new` cannot answer the bridge of the session it is
making, and gets on by the timeout of that request (`acp/connection.rs:279`); an update the store refused
carries no row number, and the phone takes it for one it has drawn (`TranscriptScreen.tsx:226`); a desktop
whose first read fails drops what it had held back.

The passing runs exclude them as follows: `asks` and `progress` have no restart and an agent that speaks
within its turns; `NoneForgotten` leaves out `torn` schedules, `OutageIsCounted` those and the repeated hour;
`EventsFindTheirWay` speaks of what the pump hands on, and of what comes under its session's name;
`ResultEndsOwnTurn` leaves out the responses of turns that a report ended first (`early`); `CardsAreNews`
what the ghost `news` marks; `OnlyExecuteIsProof` the ids a forgotten adapter left (`left`); `NoWorkIsLost`
what was committed on a detached HEAD (`adrift`); `RowsAreReliable` is for threads whose slugs differ and
leaves out a branch the store did not take; `PhoneMissesNothing` is for a host that is silent while the phone
reconnects (`Quiet`) and screens that are not `cut`.

## 6. What is proved

TLAPS proves the following for every value of the constants that a module's assumption allows: any number of
threads, prompts, asks, events, devices, offers, hellos, sessions, calls, edits, sign-ins, pull requests,
updates, frames, branches, failures and restarts, any size of log and window, any agent, and crashes
wherever the model has them. The assumptions (`SessionAssumption`, `DevicesAssumption`, `PoolAssumption`,
`AiderAssumption`, `ChiefAssumption`, `DraftsAssumption`, `WorktreesAssumption`, `ToolsAssumption`,
`PullRequestsAssumption`, `CronAssumption`, `ScheduleAssumption`, `ZoneAssumption`, `StreamAssumption`,
`BranchAssumption`) say that bounds are numbers, that an absent value is none of the present ones, and which
words a constant may hold. TLC evaluates each of them in the run of its module. `ZoneAssumption` is about
the world: the calendar has every day the clock shows, and the clock is set one way at a time, so local
times are first shown in their order and one that was jumped over is not shown later. Zones with summer time
do this; a clock set back within an hour of being set forward would not.

| theorem | of | says |
|---|---|---|
| `KeepsLedgerPromise` | `Session` | `Session` implements `RunHistory` under `history <- runs` |
| `PromiseIsOneTurn`, `PromiseKeepsOutcomes` | `Session` | the promise implies `[]OnlyNewestOpen` and `RunsEndOnce` |
| `OneTurnAtATime`, `RunsKeepOutcome` | `Session` | `[]OnlyNewestOpen`, `RunsEndOnce` |
| `LiveArePending`, `DecidedOnce` | `Session` | `[]LiveAsksArePending`, `AsksDecidedOnce` |
| `TypeCorrect`, `Served`, `InOrder`, `NeverAsleepOnAsk`, `Accounted` | `Session` | `[]TypeOK`, `[]OpenRunIsServed`, `[]SentInOrder`, `[]NoAskAsleep`, `[]PromptsAccounted` |
| `ResultsWake` | `Session` | `[]NoResultAsleep` where neither `V2` nor `MidCrash` |
| `AsksServed` | `Session` | `[]AsksAreServed` where neither `V2` nor `Chatter` |
| `GrantsEarned`, `HelloesOnce`, `ConnectedGranted` | `Devices` | `[]GrantsAreEarned`, `[]HelloOnce`, `[]ConnectedIsGranted` |
| `RunsRide`, `ResultsEndTheirTurn`, `EventsComeHome` | `Pool` | `[]OpenRunHasSession`, `ResultEndsOwnTurn`, `[]EventsFindTheirWay` |
| `TurnsAnswered` | `Aider` | `[]TurnsAreAnswered` |
| `PoolUntouched` | `Aider` | `AiderSpec` implements `Spec` of `Pool`: what is proved of the pool holds in the run |
| `CallsKept`, `HandoffsHeld` | `Chief` | `[]CallsAreKept`, `[]HandoffsStand` |
| `ProposalsHold` | `Drafts` | `[]ProposalsStand` |
| `NoWorkLost`, `RowsReliable` | `Worktrees` | `[]NoWorkIsLost`; `RowsAreReliable` where `SlugsDiffer` |
| `GrantStaysCurrent`, `HonouredStays`, `ProfileIsOnes` | `Tools` | `[]GrantIsCurrent`, `HonouredIsKept`, `[]OneProfileAtATime` |
| `CardsStayNews`, `ExecuteProves`, `ToldIsHeld` | `PullRequests` | `[]CardsAreNews`, `[]OnlyExecuteIsProof`, `NothingUnheldIsTold` |
| `SearchesMeanIt` | `Cron` | outside a repeated hour, the two searches find the first occurrence after a time and the last up to it |
| `FiresToldOnce`, `OccurrencesAreKept`, `OutagesAreCounted` | `Schedule` | `[]FiresAreToldOnce`, `[]OccurrencesKept`, `OutageIsCounted` |
| `DesktopIsAlwaysTrue` | `Stream` | `[]DesktopIsTrue` |
| `PhoneNeverMisses` | `Stream` | `[]PhoneMissesNothing` where `Quiet` |
| `BranchesAlwaysStand` | `Branch` | `[]BranchesStand` |
| `BranchesAreOfAStream` | `Branch` | `BranchSpec` implements `Spec` of `Stream`: what is proved of the stream holds in the run |

Each proof follows the same plan. The property is seldom inductive, so a module of proofs states an
invariant as a conjunction of named parts, shows that `Init` gives it, has one lemma for each action (one
for each part that the action can disturb), and draws the property from it. What follows is why each
invariant needs the parts it has.

**Session, the ledger.** The first lemmas show of each operation of `Ledger` that it is `Lawful`: the newest
run settles along the edges, a run begins when none is open, or one settles and another begins. The boot
pass is the exception that needs an invariant: it rewrites *every* open run, which settles only the newest
because the others are closed already. Hence `LedgerInv`, the type of `runs` with `OnlyNewestOpen`;
`OnlyNewestOpen` alone is not inductive, because the operations say something of sequences of run states
only. Refinement and both properties follow from `StepLawful`. `PromiseIsOneTurn` and `PromiseKeepsOutcomes`
show that the promise of `RunHistory` is strong enough to carry them, so they hold of whatever else keeps
it.

**Session, the rest.** `TypeOK` is not inductive: a handler stores the note of an event, and the type of
an event does not tie its note to its kind. `PipeInv` strengthens it by `SentEvents`, what an adapter can
have written. `AskInv` adds to `LiveAsksArePending` that nothing is live while no host runs, without which
the boot pass, which closes questions by kind, could close one an adapter waits for. The invariants are
proved in the order ledger, pipe, thread, asks, process axis, words, each from the ones before.
`ServedInv` adds to `OpenRunIsServed` that the open run of a running host is past "queued": the ledger has
no edge from there to an outcome, so closing such a run would leave it open; only a crash inside
`open_run` makes one, and the boot pass loses it. `OrderInv` says of all held prompts what `SentInOrder`
says of the sent ones: `said`, then `queue`, then the prompt of an unfinished interrupt, ascend.
`AccountInv` is a partition of the submitted prompts by place; that the counts of `PromptsAccounted` add up
follows with `OrderInv`, as an ascending sequence repeats nothing. `NoAskAsleep` needs the type of the
thread, which the boot pass rewrites, and `AskInv`: nothing is live when it does.

`ResultsWake` and `AsksServed` have hypotheses about the agent and about crashes, because without them
they are false, by the counterexamples of section 5: a v2 agent ends a turn twice, a crash inside a handler
parts a run's close from its card, and an agent that speaks between turns raises an ask that no run holds.
`SleepInv` adds to `NoResultAsleep` that an adapter which waits for an answer has a run that is not
"running", so its death loses the run instead of failing it behind a folded thread. `LineInv` is about what
is still under way: a turn's response is the last thing in pipe or batch but for the end of file, and while
anything there can raise or end an ask, the run is open and its adapter attached.

**Devices.** `Agreement` follows a claim from the offer to the vault and to the row: whatever a grant
holds was said by both humans of one transcript, and an offer that has paired is gone for good (`Spent`), so
neither a retry nor a restart pairs it again. `Helloes` bounds the counters accepted for a token by the
counter of the row that names it, and knows that a token being granted has not been heard yet: pairing
anew starts the counter again, which is safe only because the token is a new one. `Bounds` is the
arithmetic of `offer.rs`.

**Pool.** Five layers, each proved from the ones before: types and the call the host is in (`CallMade`,
with `Room`, by which the prompts promised are never more than there are numbers for); who rides the
process (`Riding`: a connection that is gone has left nothing behind, an open run has a session, end of
file is the last of a process); that an answer is for one prompt (`Answering`: each prompt's answer is in
one place of turn, pipe and batch, and its owner is the thread whose run it is, or would be if a report had not
ended it: `early`); that a session serves the
thread it was made for (`Homing`); and that an extension's request is held. `ResultEndsOwnTurn` is about the
moment an answer is handled, with other turns open on the same pipe, and rests on `HandedOut`: an answer
in hand is owed by nobody any more, and its thread has its run open or none (`Awaits`). The latter would
break if a new prompt went out in the meantime, so `Awaits` also says that a thread with no run holds none
back, and an empty run with a prompt behind it is one that a report ended. For the adapter of Aider the invariant is one of each turn (`Sound`) and
of each thread's reader, so what a thread does is nothing to another (`OthersKept`).

**Crew and drafts.** `Duties` has the types, the `Line` of calls (carried out, then in the host's hands,
then at the bridge, ascending for each session), what is in `Sight` (of a bot's standing threads those
before one there has been are tombstones; the thread a task goes to is open) and the record of the `Tasks`
(written down before it is given, and given once). `Drafting` keeps for each window what it showed: a
reviewable draft has its first revision, so a window whose revision still fits has seen what it decides on.

**Worktrees.** `Kept` joins `WorkIsKept` to what the operation under way knows (`Fit`: a sweep is about directories no live thread has, any other release about a thread that is not live,
and what it saved is on a branch that stands, which is what the row will name if the store takes it)
and to `HeadsAreHeld`: what a detached HEAD has is on a branch too, or was committed on none (`adrift`). That
a name of `free_branch` is new, and that there is a least one, is `FreeBranchOf`. `NoWorkLost` is proved for
every `Slug`; `RowsReliable` needs `SlugsDiffer`, because a thread that is opened reclaims its directory
whoever lives there.

**Tools.** `GrantInv` says of each step of an operation what it holds (`Stages`); that every bundle in the
vault is pointed at by the row, in the operation's hand, or cut loose by a failure (`Reach`); that whatever
is recorded or on its way to be comes from a consent after the last disconnect (`Current`); and that a
refused token stays refused because tokens are new (`TokensSpent`). `Leased` carries the lease: it is written
before the session is made, so a profile is given under it only.

**Pull requests.** `Board` is about the way of a change. `Counted` counts it where it happens and spends
it once on its way: at GitHub, in an answer, in the row, in the hand of the poll, on the Inbox; so a card
cannot be told more often than its cause came about, however polls, failures and crashes fall. That needs
`Answers` (one answer for a row, and merged stays merged), `Order` (each polled row once) and `Held` (a card
in hand is true of the row). `Watched` says that the calls a watch has are the running adapter's, whose ids
come again after a restart, or were left by one that was forgotten.

**Schedules.** The theory of `Cron` comes first: instants, days and times of day are in one order
(`LocalOrder`), first readings are in the order of their local times, so a search that walks days and then
times finds what is first, or last, in time (`NextIs`, `PrevIs`), and between the two nothing falls
(`BothWays`). This last one holds in the repeated hour too, which is why no occurrence is forgotten even
there; that the searches mean what the expression says (`SearchesMeanIt`) does not. The invariant then has
four parts: `Shapes`; `Walking`, what the host has in hand in each phase of a pass (a fire being dispatched
has no run of its own yet, one being carded has a run that is over); `Lasting`, what the disk says whatever
the phase: whose each run is, that a run its fire does not name is over unless the host is between the two
writes or down, and what was told of each fire; and `Clockwork`, that each occurrence since a schedule was
armed is claimed, superseded or ahead of its due time, which is itself an occurrence of its expression.
`Unlinked` is what makes a repeated delivery safe: a fire that a crash left without its run is marked failed
by the boot pass only after `reconcile_boot` has ended that run. `Known` is why ids must not come again. The
count of what an outage drops is a recursive function: `Walks` is the function itself, shown to exist by the
least number at which it would not, `Reached` says where it has come to after each step (at an occurrence,
with all before it met, or past the last), and so it counts each missed occurrence once, up to `MaxScan`
(`CountsMissed`).

**Stream.** What a client draws is a fold over frames, and a resume filters the log by one. A fold is met
through its intermediate values: `Iterates` is the function of prefixes that a fold makes, `IteratesTrace`
its values in order, and a statement about a fold is proved by the least number at which it would fail
(`LeastOf`, `UpTo`), so no induction theorem is needed. `RowsOK` is of the disk: rows are the updates in
their order, less the refused ones. `LineOK` is of frames that are under way: each tells the truth (`Told`:
a row it names is that update's), and an ask that is settled by now is resolved further on; updates come in
their order (`InTurn`). What is before the desktop is what it held back and then the wire (`Line`); it
brings each row past some `b` and no other (`Behind`). `DeskOK` says of a view that what it drew is
continued by its line: it drew the rows from some `lo` to the further of `b` and the head of its answer
(`Draws`), and its cards are the open asks once the line has told of the rest (`Tells`). While it reads, the
same is said of each answer, which may be older or newer than the first frames of the line; that is why a
repeated row must be known by its number.

The phone has no such line: it hears what is sent while it is on, and asks for the rest. `PhoneInv` joins
`ConnectionOK` (what a step of reconnect or refresh leaves true), `NumbersOK` (wire and log are numbered
without a gap up to `head` and agree, so a number stands for one frame), `CardsOK` and `ScreenOK`. The last
says that each row after the screen's own replay is drawn, or on a frame the phone has not noted: on the
wire while it is on, in the log past `heads` while it is away (`Covers`). `Quiet` is a hypothesis because
without it the property is false, by the counterexample of section 5.

**Branches.** `BranchInv` joins the types to `LinksOK` (the property, of the links on disk) and `WorkOK`,
what the handler has in hand at each of its writes: before a link is written, its child begins with the
source up to the message. Rows are only appended, so a prefix that was copied stays one.

Every invariant and action property that a run checks is stated by a theorem; four have a hypothesis, under
which their run has it too. Only model-checked are the liveness properties (`RunsEnd`, `QueueMoves`,
`FoldedComesBack`, `ConnectingEnds`), as fairness and ENABLED are beyond the prover.

## 7. What is not modelled, and why

- The two memory files of a bot (`crew/memory.rs`: one derived from its row, one made once) and the panel
  of a thread's repositories, Git state and sources (`summary.rs`): each call reads or writes one thing
  no other part waits on.
- Which client may answer an ask and which methods a paired client may call (`router.rs`, the claims of
  `permission/mod.rs`): planned, section 8.
- The harness catalogue, doctor and installer (the Aider adapter beside them is in `Aider`), the wire types, migrations, the store's plumbing: I/O,
  parsing and types, no protocol.
- Most of the clients: drawing over the host's methods. `Stream` has the two places where a client keeps
  a state of its own against a moving host.
- Errors of the store: the code mostly logs them and goes on, which multiplies every handler by each
  write. They are modelled where the code handles them: the vault in `Devices` and `Tools`, card and row
  writes in `PullRequests`, the rows a release or a reopening writes and the sweep's read in `Worktrees`, a
  refused row in `Stream`.
- Text, cryptography, the drift of a session receipt.

## 8. Plan

1. `Broker`: which client may answer an ask, the expiry of a claim, replies from two devices.
2. The composition of `Pool` with `Session`: a turn in full on a process that is shared.
3. The removal of a bot, with its threads, its drafts and its schedules.
