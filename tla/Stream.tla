------------------------------- MODULE Stream -------------------------------
(***************************************************************************)
(* What the clients of one thread see: the transcript log on disk          *)
(* (host/transcript, store/overlay.rs), the numbered notifications         *)
(* (host/seq.rs, host/log.rs, host/mod.rs), the desktop's view of the      *)
(* thread (views/transcript.ts) and the phone with its cards and its       *)
(* transcript screen (mobile/session.ts, mobile/TranscriptScreen.tsx).     *)
(*                                                                         *)
(* A handler of the host writes its row and sends its frame in one step,   *)
(* under the session's lock.  Between a client's question and the use it   *)
(* makes of the answer anything may happen, and an answer may be used      *)
(* before or after the frames that are on their way with it.  The clients  *)
(* do not meet, so a behaviour has one of them, or none.                   *)
(***************************************************************************)
EXTENDS Integers, Sequences, FiniteSets, SequencesExt

CONSTANTS
    Asks,       \* permission requests
    Cap,        \* DEFAULT_CAP_PER_THREAD of the log in RAM
    Window,     \* how many rows an answer holds (limit)
    Quiet,      \* is the host silent while the phone refreshes or reconnects?
    MaxTexts,   \* bound: session updates
    MaxUnsaved, \* bound: updates the store refuses
    MaxStops,   \* bound: crashes of the host
    MaxDrops,   \* bound: losses of the phone's connection
    MaxViews    \* bound: how often each client opens the thread

ASSUME StreamAssumption ==
    /\ {Cap, Window} \subseteq Nat \ {0}
    /\ {MaxTexts, MaxUnsaved, MaxStops, MaxDrops, MaxViews} \subseteq Nat
    /\ Quiet \in BOOLEAN

VARIABLES
    who,        \* the client of this behaviour, if there is one; the two never meet
    rows,       \* transcript_events: the updates on disk, by seq
    asks,       \* permission_requests: none, open or settled
    said,       \* the updates so far
    head, log,  \* SeqStore and EventLog: RAM
    wire,       \* the frames on their way to each client
    desk,       \* the desktop's view of the thread
    phone,      \* MobileSession
    screen,     \* the phone's transcript of the thread
    count       \* the bounds used up

vars == <<who, rows, asks, said, head, log, wire, desk, phone, screen, count>>

Clients == {"desk", "phone"}
Unheard == -1      \* a thread that is not in `heads`
Pending == {a \in Asks : asks[a] = "open"}
NoAnswer == [is |-> "none"]
Error == [is |-> "error"]

Texts == 1..MaxTexts
Newest(ids) == SubSeq(ids, IF Len(ids) > Window THEN Len(ids) - Window + 1 ELSE 1, Len(ids))

Later(frames, seq) ==
    LET Keep(kept, frame) == IF frame.seq > seq THEN Append(kept, frame) ELSE kept
    IN FoldLeft(Keep, <<>>, frames)

NoView == [at |-> "closed", reads |-> [text |-> NoAnswer, asks |-> NoAnswer], held |-> <<>>,
           drawn |-> <<>>, reached |-> 0, shown |-> {}, locked |-> {}, error |-> FALSE]
NoScreen == [at |-> "closed", read |-> NoAnswer, held |-> <<>>, drawn |-> <<>>,
             reached |-> 0, cut |-> FALSE]

-----------------------------------------------------------------------------
(* Notifications.                                                          *)

\* EventLog::push.
Capped(events) == IF Len(events) > Cap THEN Tail(events) ELSE events

\* broadcast: the webview always listens, a socket once it has said hello.
Listens(c) == c = "desk" \/ phone.on

\* push_logged: numbered, kept for a resume, and sent to the clients that listen.
Notify(kind, id, row) ==
    LET frame == [seq |-> head + 1, kind |-> kind, id |-> id, row |-> row]
    IN /\ head' = head + 1
       /\ log' = Capped(Append(log, frame))
       /\ wire' = [c \in Clients |-> IF c = who /\ Listens(c) THEN Append(wire[c], frame)
                                     ELSE wire[c]]

\* EventLog::after.
After(seq) == Later(log, seq)

MayAct == Quiet => phone.step = "idle"

\* An update of the agent, or the echo of a prompt: the row, then the frame that
\* names it; one the store refuses is sent without a row.
Update ==
    /\ MayAct /\ said < MaxTexts
    /\ said' = said + 1
    /\ \/ rows' = Append(rows, said + 1) /\ Notify("update", said + 1, Len(rows) + 1)
          /\ UNCHANGED count
       \/ /\ count.unsaved < MaxUnsaved
          /\ count' = [count EXCEPT !.unsaved = @ + 1]
          /\ Notify("update", said + 1, 0) /\ UNCHANGED rows
    /\ UNCHANGED <<who, asks, desk, phone, screen>>

Ask(a) ==
    /\ MayAct /\ asks[a] = "none"
    /\ asks' = [asks EXCEPT ![a] = "open"]
    /\ Notify("ask", a, 0)
    /\ UNCHANGED <<who, rows, said, desk, phone, screen, count>>

\* Somebody answered, here or there, or the turn was cancelled.
Resolve(a) ==
    /\ MayAct /\ asks[a] = "open"
    /\ asks' = [asks EXCEPT ![a] = "settled"]
    /\ Notify("resolved", a, 0)
    /\ UNCHANGED <<who, rows, said, desk, phone, screen, count>>

-----------------------------------------------------------------------------
(* What a client reads.                                                    *)

\* thread_transcript: the newest rows, and the head as the log has it.
Transcript ==
    [is |-> "answer", events |-> Newest(rows), head |-> Len(rows)]
\* permission_pending.
PermissionPending == [is |-> "answer", open |-> Pending]

-----------------------------------------------------------------------------
(* The desktop (useThreadTranscript of views/transcript.ts).               *)

\* The subscription is there before either read goes out.
Open ==
    /\ who = "desk" /\ desk.at = "closed" /\ count.views.desk < MaxViews
    /\ desk' = [NoView EXCEPT !.at = "reading"]
    /\ count' = [count EXCEPT !.views.desk = @ + 1]
    /\ UNCHANGED <<who, rows, asks, said, head, log, wire, phone, screen>>

Close ==
    /\ desk.at # "closed"
    /\ desk' = NoView
    /\ UNCHANGED <<who, rows, asks, said, head, log, wire, phone, screen, count>>

Reads(what, answer) ==
    /\ desk.at = "reading" /\ desk.reads[what] = NoAnswer
    /\ desk' \in {[desk EXCEPT !.reads[what] = answer], [desk EXCEPT !.reads[what] = Error]}
    /\ UNCHANGED <<who, rows, asks, said, head, log, wire, phone, screen, count>>
ReadTranscript == Reads("text", Transcript)
ReadPending == Reads("asks", PermissionPending)

\* applyAcpEvent: a row at or below the one the replay reached is drawn already.
Drawn(view, frame) ==
    IF frame.row # 0 /\ frame.row <= view.reached THEN view
    ELSE [view EXCEPT !.drawn = Append(@, frame.id)]

\* applyLive: an ask is one card however it comes, and a card locks once.
ApplyLive(view, frame) ==
    CASE frame.kind = "update" -> Drawn(view, frame)
      [] frame.kind = "ask" ->
            IF frame.id \in view.locked THEN view ELSE [view EXCEPT !.shown = @ \cup {frame.id}]
      [] frame.kind = "resolved" ->
            IF frame.id \in view.shown
            THEN [view EXCEPT !.shown = @ \ {frame.id}, !.locked = @ \cup {frame.id}]
            ELSE view

\* hydrate and hydratePermissions.
Replayed(view, text, open) ==
    [view EXCEPT !.drawn = text.events, !.reached = text.head, !.shown = open]

\* Broken: what came while the answers were on their way is let go.
HydrateAlone ==
    /\ desk.at = "reading" /\ desk.reads.text.is = "answer" /\ desk.reads.asks # NoAnswer
    /\ desk' = [Replayed(desk, desk.reads.text,
                         IF desk.reads.asks = Error THEN {} ELSE desk.reads.asks.open)
                EXCEPT !.at = "live", !.held = <<>>, !.error = desk.reads.asks = Error]
    /\ UNCHANGED <<who, rows, asks, said, head, log, wire, phone, screen, count>>

\* Both answers are there: the replay, the asks, then what came meanwhile.
Hydrate ==
    /\ desk.at = "reading" /\ desk.reads.text.is = "answer" /\ desk.reads.asks # NoAnswer
    /\ LET open == IF desk.reads.asks = Error THEN {} ELSE desk.reads.asks.open
           replayed == Replayed(desk, desk.reads.text, open)
       IN desk' = [FoldLeft(ApplyLive, replayed, desk.held) EXCEPT
                      !.at = "live", !.held = <<>>, !.error = desk.reads.asks = Error]
    /\ UNCHANGED <<who, rows, asks, said, head, log, wire, phone, screen, count>>

\* No replay: the view says so and follows from here on.
HydrateFails ==
    /\ desk.at = "reading" /\ desk.reads.text = Error
    /\ desk' = [desk EXCEPT !.at = "live", !.error = TRUE]
    /\ UNCHANGED <<who, rows, asks, said, head, log, wire, phone, screen, count>>

\* A frame reaches the webview; without a view of the thread nobody looks at it.
DeskHears ==
    /\ wire.desk # <<>>
    /\ wire' = [wire EXCEPT !.desk = Tail(@)]
    /\ desk' = CASE desk.at = "closed" -> desk
                 [] desk.at = "reading" -> [desk EXCEPT !.held = Append(@, Head(wire.desk))]
                 [] desk.at = "live" -> ApplyLive(desk, Head(wire.desk))
    /\ UNCHANGED <<who, rows, asks, said, head, log, phone, screen, count>>

-----------------------------------------------------------------------------
(* The phone's transcript screen.                                          *)

\* watchThread, then the read.
OpenScreen ==
    /\ screen.at = "closed" /\ phone.on /\ count.views.phone < MaxViews
    /\ screen' = [NoScreen EXCEPT !.at = "reading"]
    /\ count' = [count EXCEPT !.views.phone = @ + 1]
    /\ UNCHANGED <<who, rows, asks, said, head, log, wire, desk, phone>>

CloseScreen ==
    /\ screen.at # "closed"
    /\ screen' = NoScreen
    /\ UNCHANGED <<who, rows, asks, said, head, log, wire, desk, phone, count>>

ReadScreen ==
    /\ screen.at = "reading" /\ screen.read = NoAnswer
    /\ screen' \in {[screen EXCEPT !.read = Transcript], [screen EXCEPT !.at = "failed"]}
    /\ UNCHANGED <<who, rows, asks, said, head, log, wire, desk, phone, count>>

\* `transcriptSeq ?? 0`: an update without a row is at or below any replay.
DrawnOnPhone(view, frame) ==
    IF frame.row <= view.reached THEN view
    ELSE [view EXCEPT !.drawn = Append(@, frame.id)]

HydrateScreen ==
    /\ screen.at = "reading" /\ screen.read # NoAnswer
    /\ screen' = FoldLeft(DrawnOnPhone,
                          [screen EXCEPT !.at = "live", !.held = <<>>,
                                         !.drawn = screen.read.events,
                                         !.reached = screen.read.head],
                          screen.held)
    /\ UNCHANGED <<who, rows, asks, said, head, log, wire, desk, phone, count>>

\* What a watcher of the thread does with an update.
Watched(view, frame) ==
    CASE frame.kind # "update" \/ view.at \in {"closed", "failed"} -> view
      [] frame.kind = "update" /\ view.at = "reading" -> [view EXCEPT !.held = Append(@, frame)]
      [] frame.kind = "update" /\ view.at = "live" -> DrawnOnPhone(view, frame)

-----------------------------------------------------------------------------
(* The phone (MobileSession).                                              *)

\* note: monotonic, and whatever the frame is about.
Note(heads, frame) == IF frame.seq > heads THEN frame.seq ELSE heads

Carded(cards, frame) ==
    CASE frame.kind = "ask" -> cards \cup {frame.id}
      [] frame.kind = "resolved" -> cards \ {frame.id}
      [] OTHER -> cards

\* apply, once.
Apply(state, frame) ==
    [state EXCEPT !.heads = Note(@, frame), !.cards = Carded(@, frame),
                  !.screen = Watched(@, frame)]
Applied(frames) ==
    FoldLeft(Apply, [heads |-> phone.heads, cards |-> phone.cards, screen |-> screen], frames)

\* A frame reaches the phone: every handler that was ever subscribed applies it.
PhoneHears ==
    /\ wire.phone # <<>>
    /\ wire' = [wire EXCEPT !.phone = Tail(@)]
    /\ LET after == Applied([n \in 1..phone.handlers |-> Head(wire.phone)])
       IN /\ phone' = [phone EXCEPT !.heads = after.heads, !.cards = after.cards]
          /\ screen' = after.screen
    /\ UNCHANGED <<who, rows, asks, said, head, log, desk, count>>

\* connect, and on to refresh; connecting again subscribes again.
Reconnect ==
    /\ who = "phone" /\ ~phone.on
    /\ phone' = [phone EXCEPT !.on = TRUE, !.handlers = @ + 1, !.step = "refresh",
                              !.resumes = TRUE, !.fresh = FALSE]
    /\ UNCHANGED <<who, rows, asks, said, head, log, wire, desk, screen, count>>

\* The phone has nothing under way any more.
AtRest(p) == [p EXCEPT !.step = "idle", !.resumes = FALSE, !.from = Unheard, !.answer = NoAnswer]

\* A screen that is open has lost what no resume will bring.
CutIf(lost) == [screen EXCEPT !.cut = @ \/ (lost /\ screen.at # "closed")]

\* A pull on the screen.
Refresh ==
    /\ phone.on /\ phone.step = "idle"
    /\ phone' = [phone EXCEPT !.step = "refresh", !.resumes = FALSE]
    /\ UNCHANGED <<who, rows, asks, said, head, log, wire, desk, screen, count>>

AnswerRefresh ==
    /\ phone.step = "refresh"
    /\ phone' = [phone EXCEPT !.step = "publish", !.answer = PermissionPending]
    /\ UNCHANGED <<who, rows, asks, said, head, log, wire, desk, screen, count>>

\* One of the reads fails, and with it the reconnect it belongs to.
RefreshFails ==
    /\ phone.step = "refresh"
    /\ phone' = [AtRest(phone) EXCEPT !.fresh = FALSE]
    /\ screen' = CutIf(phone.resumes)
    /\ UNCHANGED <<who, rows, asks, said, head, log, wire, desk, count>>

\* The whole screen is replaced.  A reconnect then asks for the frames after the
\* last it noted, if there is one: here, and not when it connected.
Publish ==
    /\ phone.step = "publish"
    /\ LET told == [phone EXCEPT !.cards = phone.answer.open, !.fresh = TRUE]
       IN phone' = IF phone.resumes /\ phone.heads # Unheard
                   THEN [told EXCEPT !.step = "resume", !.from = phone.heads, !.answer = NoAnswer]
                   ELSE AtRest(told)
    /\ screen' = CutIf(phone.resumes /\ phone.heads = Unheard)
    /\ UNCHANGED <<who, rows, asks, said, head, log, wire, desk, count>>

\* resume_from.
AnswerResume ==
    /\ phone.step = "resume"
    /\ phone' = [phone EXCEPT !.step = "replay",
                    !.answer = [is |-> "answer", head |-> head, events |-> After(phone.from)]]
    /\ UNCHANGED <<who, rows, asks, said, head, log, wire, desk, screen, count>>

\* A thread the host cannot answer for costs the others nothing.
ResumeFails ==
    /\ phone.step = "resume"
    /\ phone' = AtRest(phone)
    /\ screen' = CutIf(TRUE)
    /\ UNCHANGED <<who, rows, asks, said, head, log, wire, desk, count>>

\* Broken: a head below ours is taken for a host with nothing to say.
HeadKept(answer) == phone.heads
\* A head below ours is a host that was restarted.
HeadKnown(answer) == IF answer.head < phone.from THEN answer.head ELSE phone.heads

Replayable(answer) == Later(answer.events, phone.from)

\* The gap cannot be closed: another host counts, or the log has rolled past it.
Uncovered(answer) ==
    \/ phone.life # count.stops
    \/ answer.head > phone.from /\ (answer.events = <<>> \/ answer.events[1].seq > phone.from + 1)

Replay ==
    /\ phone.step = "replay"
    /\ LET after == FoldLeft(Apply,
                       [heads |-> HeadKnown(phone.answer), cards |-> phone.cards,
                        screen |-> CutIf(Uncovered(phone.answer))],
                       Replayable(phone.answer))
       IN /\ phone' = [AtRest(phone) EXCEPT !.heads = after.heads, !.cards = after.cards,
                                            !.life = count.stops]
          /\ screen' = after.screen
    /\ UNCHANGED <<who, rows, asks, said, head, log, wire, desk, count>>

\* The connection is lost, with all that was on it: a call under way throws.
Severed ==
    /\ phone' = [AtRest(phone) EXCEPT !.on = FALSE]
    /\ screen' = IF screen.at = "reading" THEN [screen EXCEPT !.at = "failed"] ELSE screen

Drop ==
    /\ phone.on /\ count.drops < MaxDrops
    /\ count' = [count EXCEPT !.drops = @ + 1]
    /\ wire' = [wire EXCEPT !.phone = <<>>]
    /\ Severed
    /\ UNCHANGED <<who, rows, asks, said, head, log, desk>>

\* disconnect: the one that unsubscribes.
Disconnect ==
    /\ phone.on /\ count.drops < MaxDrops
    /\ count' = [count EXCEPT !.drops = @ + 1]
    /\ wire' = [wire EXCEPT !.phone = <<>>]
    /\ phone' = [AtRest(phone) EXCEPT !.on = FALSE, !.handlers = 0]
    /\ screen' = IF screen.at = "reading" THEN [screen EXCEPT !.at = "failed"] ELSE screen
    /\ UNCHANGED <<who, rows, asks, said, head, log, desk>>

-----------------------------------------------------------------------------
\* The host stops, perhaps between a write and its frame, and is started again;
\* the desktop goes with it.
Restart ==
    /\ UNCHANGED who
    /\ count.stops < MaxStops
    /\ count' = [count EXCEPT !.stops = @ + 1]
    /\ \/ UNCHANGED <<who, rows, asks, said>>
       \/ /\ said < MaxTexts /\ said' = said + 1
          /\ rows' = Append(rows, said + 1) /\ UNCHANGED asks
       \/ /\ \E a \in Asks : \/ asks[a] = "none" /\ asks' = [asks EXCEPT ![a] = "open"]
                             \/ asks[a] = "open" /\ asks' = [asks EXCEPT ![a] = "settled"]
          /\ UNCHANGED <<who, rows, said>>
    /\ head' = 0 /\ log' = <<>>
    /\ wire' = [c \in Clients |-> <<>>]
    /\ desk' = NoView
    /\ Severed

Init ==
    /\ who \in Clients \cup {"none"}
    /\ rows = <<>> /\ asks = [a \in Asks |-> "none"] /\ said = 0
    /\ head = 0 /\ log = <<>>
    /\ wire = [c \in Clients |-> <<>>]
    /\ desk = NoView
    /\ phone = [on |-> FALSE, handlers |-> 0, heads |-> Unheard, step |-> "idle",
                resumes |-> FALSE, from |-> Unheard, answer |-> NoAnswer, cards |-> {},
                fresh |-> FALSE, life |-> 0]
    /\ screen = NoScreen
    /\ count = [unsaved |-> 0, stops |-> 0, drops |-> 0, views |-> [c \in Clients |-> 0]]

Next ==
    \/ Update \/ \E a \in Asks : Ask(a) \/ Resolve(a)
    \/ Open \/ Close \/ ReadTranscript \/ ReadPending \/ Hydrate \/ HydrateFails \/ DeskHears
    \/ OpenScreen \/ CloseScreen \/ ReadScreen \/ HydrateScreen \/ PhoneHears
    \/ Reconnect \/ Refresh \/ AnswerRefresh \/ RefreshFails \/ Publish
    \/ AnswerResume \/ ResumeFails \/ Replay \/ Drop \/ Disconnect \/ Restart

Spec == Init /\ [][Next]_vars

-----------------------------------------------------------------------------
(* Properties.                                                             *)

TypeOK ==
    /\ rows \in Seq(Texts) /\ said \in 0..MaxTexts
    /\ asks \in [Asks -> {"none", "open", "settled"}]
    /\ head \in Nat /\ Len(log) <= Cap
    /\ desk.at \in {"closed", "reading", "live"} /\ desk.shown \subseteq Asks
    /\ screen.at \in {"closed", "reading", "live", "failed"}
    /\ phone.step \in {"idle", "refresh", "publish", "resume", "replay"}
    /\ phone.cards \subseteq Asks /\ phone.heads \in Int

\* Of the log, the newest rows up to one, at least as many as an answer holds.
IsRecent(ids, upTo) ==
    \E n \in 0..upTo :
        /\ ToSet(ids) \cap ToSet(rows) = ToSet(SubSeq(rows, upTo - n + 1, upTo))
        /\ n >= Window \/ n = upTo

\* What is in the log is drawn in the order of the log, which is that of saying.
InLogOrder(ids) ==
    \A i, j \in 1..Len(ids) :
        i < j /\ {ids[i], ids[j]} \subseteq ToSet(rows) => ids[i] < ids[j]

\* Every update is drawn once: nothing that arrives while the view reads is lost,
\* nothing the replay had is drawn again, and the rows are in the order of the log
\* ("exact because the host stamps both from the same counter", applyAcpEvent).
\* Once nothing is on its way, the view has the newest row, and the cards that can
\* be answered are the asks the host is holding.
DesktopIsTrue ==
    TypeOK /\ (desk.at = "live" /\ ~desk.error =>
        /\ Cardinality(ToSet(desk.drawn)) = Len(desk.drawn)
        /\ InLogOrder(desk.drawn)
        /\ \E upTo \in 0..Len(rows) : IsRecent(desk.drawn, upTo)
        /\ wire.desk = <<>> =>
              IsRecent(desk.drawn, Len(rows)) /\ desk.shown = Pending)

\* "Come back after the phone was offline, and ask for what was missed" (reconnect):
\* connected, with nothing on its way, the phone has every row since the oldest its
\* screen began with, whatever was said while it was away, and a card for each ask
\* that waits and for no other.
PhoneMissesNothing ==
    phone.on /\ phone.step = "idle" /\ wire.phone = <<>> =>
        /\ phone.fresh => phone.cards = Pending
        /\ screen.at = "live" /\ ~screen.cut =>
              \E n \in 0..Len(rows) :
                 /\ ToSet(SubSeq(rows, Len(rows) - n + 1, Len(rows))) = ToSet(screen.drawn)
                 /\ n >= Window \/ n = Len(rows)

\* The same screen draws nothing twice.  It does, once the phone has connected again
\* without disconnecting, or when a frame overtakes the answer to a resume.
PhoneDrawsOnce == Cardinality(ToSet(screen.drawn)) = Len(screen.drawn)
=============================================================================
