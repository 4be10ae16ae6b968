------------------------- MODULE PullRequestsProofs -------------------------
(***************************************************************************)
(* What a board of pull requests tells, for every number of threads, pull  *)
(* requests, tool calls, changes and failures: each thing once, nothing    *)
(* the rows do not hold, and no link on hearsay.                           *)
(***************************************************************************)
EXTENDS PullRequests, SequenceTheorems, TLAPS

-----------------------------------------------------------------------------
(* The parts of the invariant.                                             *)

Proofs == {"none", "execute", "other", "left", "gh"}
RowSet == [thread : Threads \cup {None}, proof : Proofs, half : Half]
Watches == [calls : SUBSET Calls, suspected : BOOLEAN, left : SUBSET Calls]
Ops == [at : {"idle", "fetch", "write"}, scope : Threads \cup {None}, tick : BOOLEAN,
        next : {"idle", "fetch"}, answers : SUBSET (Prs \X Half), cards : SUBSET (Prs \X Events)]

Shapes ==
    /\ forge \in [Prs -> Half]
    /\ hidden \subseteq Prs
    /\ rows \in [Prs -> RowSet]
    /\ deleted \subseteq Threads
    /\ watch \in [Threads -> Watches]
    /\ op \in Ops
    /\ backoff \in BOOLEAN
    /\ happened \in [Prs -> [red : Nat, asked : Nat]]
    /\ cards \in [Prs -> [Events -> Nat]]
    /\ news \subseteq Prs

\* What a poll holds at each of its stages.
Stages ==
    /\ op.at = "idle" => op = Idle
    /\ op.at = "fetch" => op.answers = {} /\ op.cards = {}

\* The calls a watch takes for execute are, but for those of an adapter that was
\* forgotten: they are of the adapter that runs.
Watched ==
    /\ DOMAIN adapter = Threads
    /\ \A t \in Threads : adapter[t] = [live |-> adapter[t].live, kinds |-> adapter[t].kinds]
    /\ \A t \in Threads : \A c \in watch[t].calls \ watch[t].left :
          c \in DOMAIN adapter[t].kinds /\ adapter[t].kinds[c] = "execute"

\* A row is linked for good, on evidence, and announced once.
Links ==
    \A p \in Prs :
        /\ Linked(p) => rows[p].proof # "other" /\ p \notin Strangers
        /\ ~Linked(p) => rows[p].half = Blank /\ cards[p]["opened"] = 0
        /\ <<p, "opened">> \in op.cards => Linked(p) /\ cards[p]["opened"] = 0
        /\ cards[p]["opened"] <= 1

\* The rows polled, each once.
Order ==
    /\ order \in Seq(Prs)
    /\ \A i \in 1..Len(order) : Linked(order[i])
    /\ \A i, j \in 1..Len(order) : order[i] = order[j] => i = j

\* What GitHub answered is later than the row and no later than GitHub.
Answers ==
    \A p \in Prs, h \in Half : <<p, h>> \in op.answers =>
        /\ Linked(p)
        /\ rows[p].half.merged => h.merged
        /\ h.merged => forge[p].merged
        /\ \A g \in Half : <<p, g>> \in op.answers => g = h
        /\ <<p, "checks_failed">> \notin op.cards /\ <<p, "changes_requested">> \notin op.cards

\* A card in hand says what the row holds, and a red row has had one or is
\* about to.
Held ==
    \A p \in Prs :
        /\ rows[p].half.merged => forge[p].merged
        /\ <<p, "checks_failed">> \in op.cards => rows[p].half.red /\ ~rows[p].half.merged
        /\ <<p, "changes_requested">> \in op.cards => rows[p].half.asked /\ ~rows[p].half.merged
        /\ rows[p].half.red /\ ~rows[p].half.merged =>
              p \in news \/ <<p, "checks_failed">> \in op.cards

Rise(from, to) == IF to /\ ~from THEN 1 ELSE 0
Pending(p, event) == IF <<p, event>> \in op.cards THEN 1 ELSE 0

\* A change is counted where it happens and spent on its way to a card: at
\* GitHub, in an answer, in the row, in the hand, on the Inbox.
Counted ==
    \A p \in Prs :
        /\ cards[p]["checks_failed"] + Pending(p, "checks_failed")
              + Rise(rows[p].half.red, forge[p].red) <= happened[p].red
        /\ cards[p]["changes_requested"] + Pending(p, "changes_requested")
              + Rise(rows[p].half.asked, forge[p].asked) <= happened[p].asked
        /\ \A h \in Half : <<p, h>> \in op.answers =>
              /\ cards[p]["checks_failed"] + Rise(rows[p].half.red, h.red)
                    + Rise(h.red, forge[p].red) <= happened[p].red
              /\ cards[p]["changes_requested"] + Rise(rows[p].half.asked, h.asked)
                    + Rise(h.asked, forge[p].asked) <= happened[p].asked

Board == Shapes /\ Stages /\ Watched /\ Links /\ Order /\ Answers /\ Held /\ Counted

-----------------------------------------------------------------------------
LEMMA NoneIsNew == None \notin Threads /\ None \notin Prs
  BY PullRequestsAssumption

\* What operations begin and end as.
LEMMA IdleFits ==
    /\ Idle \in Ops /\ Idle.at = "idle" /\ Idle.answers = {} /\ Idle.cards = {}
    /\ \A next \in {"idle", "fetch"}, t \in Threads \cup {None} :
          /\ Onward(next, t) \in Ops /\ Onward(next, t).answers = {} /\ Onward(next, t).cards = {}
          /\ Onward(next, t).at \in {"idle", "fetch"}
          /\ Onward(next, t).at = "idle" => Onward(next, t) = Idle
  <1>1. Idle \in Ops /\ Idle.at = "idle" /\ Idle.answers = {} /\ Idle.cards = {}
    BY DEF Idle, Ops
  <1>2. ASSUME NEW next \in {"idle", "fetch"}, NEW t \in Threads \cup {None}
        PROVE  /\ Onward(next, t) \in Ops /\ Onward(next, t).answers = {} /\ Onward(next, t).cards = {}
               /\ Onward(next, t).at \in {"idle", "fetch"}
               /\ Onward(next, t).at = "idle" => Onward(next, t) = Idle
    <2>1. CASE next = "fetch"
      <3>1. Onward(next, t) = [at |-> "fetch", scope |-> t, tick |-> FALSE, next |-> "idle",
                               answers |-> {}, cards |-> {}]
        BY <2>1 DEF Onward, Idle
      <3> QED  BY <3>1 DEF Ops
    <2>2. CASE next = "idle"
      BY <1>1, <2>2 DEF Onward
    <2> QED  BY <2>1, <2>2
  <1> QED  BY <1>1, <1>2

LEMMA BlankFits == Blank \in Half /\ Blank.red = FALSE /\ Blank.asked = FALSE /\ Blank.merged = FALSE
  BY DEF Blank, Half

LEMMA BoardInit == Init => Board
  <1> SUFFICES ASSUME Init PROVE Board
    OBVIOUS
  <1>1. op = Idle /\ op \in Ops /\ op.answers = {} /\ op.cards = {} /\ op.at = "idle"
    BY IdleFits DEF Init
  <1>2. NoRow \in RowSet /\ NoRow.thread = None /\ NoRow.half = Blank /\ NoRow.proof = "none"
    BY BlankFits DEF NoRow, RowSet, Proofs
  <1>3. NoWatch \in Watches /\ NoWatch.calls = {}
    BY DEF NoWatch, Watches
  <1>4. Shapes
    BY <1>1, <1>2, <1>3, BlankFits DEF Init, Shapes, Events
  <1>5. Stages
    BY <1>1 DEF Stages
  <1>6. Watched
    BY <1>3 DEF Init, Watched, NoAdapter
  <1>7. Links
    BY <1>1, <1>2 DEF Init, Links, Linked, Events
  <1>8. Order
    BY EmptySeq DEF Init, Order
  <1>9. Answers
    BY <1>1 DEF Answers
  <1>10. Held
    BY <1>1, <1>2, BlankFits DEF Init, Held
  <1>11. Counted
    BY <1>1, <1>2, BlankFits DEF Init, Counted, Rise, Pending, Events
  <1> QED  BY <1>4, <1>5, <1>6, <1>7, <1>8, <1>9, <1>10, <1>11 DEF Board

-----------------------------------------------------------------------------
(* Steps that leave rows, cards and GitHub alone.                          *)

Tale == Links /\ Order /\ Answers /\ Held /\ Counted

LEMMA CalmKeeps ==
  ASSUME Board, UNCHANGED <<forge, rows, order, happened, cards, news>>,
         op'.answers = op.answers, op'.cards = op.cards
  PROVE  Tale'
  <1>1. Links'
    BY DEF Board, Links, Linked
  <1>2. Order'
    BY DEF Board, Order, Linked
  <1>3. Answers'
    BY DEF Board, Answers, Linked
  <1>4. Held'
    BY DEF Board, Held
  <1>5. Counted'
    BY DEF Board, Counted, Pending
  <1> QED  BY <1>1, <1>2, <1>3, <1>4, <1>5 DEF Tale

\* A watch that begins afresh, with its adapter or without.
LEMMA AfreshWatched ==
  ASSUME Watched, NEW t \in Threads, watch \in [Threads -> Watches],
         watch' = [watch EXCEPT ![t] = NoWatch],
         adapter' = adapter \/ adapter' = [adapter EXCEPT ![t] = NoAdapter]
  PROVE  Watched' /\ watch' \in [Threads -> Watches]
  <1>1. NoWatch \in Watches /\ NoWatch.calls = {}
    BY DEF NoWatch, Watches
  <1>2. DOMAIN adapter' = Threads
    BY DEF Watched
  <1>3. ASSUME NEW u \in Threads
        PROVE  /\ adapter'[u] = [live |-> adapter'[u].live, kinds |-> adapter'[u].kinds]
               /\ \A c \in watch'[u].calls \ watch'[u].left :
                     c \in DOMAIN adapter'[u].kinds /\ adapter'[u].kinds[c] = "execute"
    <2>1. CASE u = t
      BY <1>1, <2>1 DEF Watched, NoAdapter
    <2>2. CASE u # t
      BY <2>2 DEF Watched
    <2> QED  BY <2>1, <2>2
  <1> QED  BY <1>1, <1>2, <1>3 DEF Watched

LEMMA MentionKeeps ==
  ASSUME Board, NEW t \in Threads, Mention(t)
  PROVE  Board'
  <1>1. /\ UNCHANGED <<forge, hidden, rows, order, deleted, adapter, op, backoff, changes,
                       mishaps, happened, cards, news>>
        /\ watch' = [watch EXCEPT ![t].suspected = TRUE]
    BY DEF Mention
  <1>2. Tale'
    BY <1>1, CalmKeeps
  <1>3. /\ watch' \in [Threads -> Watches]
        /\ \A u \in Threads : watch'[u].calls = watch[u].calls /\ watch'[u].left = watch[u].left
    BY <1>1 DEF Board, Shapes, Watches
  <1>4. Shapes' /\ Stages'
    BY <1>1, <1>3 DEF Board, Shapes, Stages
  <1>5. Watched'
    BY <1>1, <1>3 DEF Board, Watched
  <1> QED  BY <1>2, <1>4, <1>5 DEF Board, Tale

LEMMA AdapterComesKeeps ==
  ASSUME Board, NEW t \in Threads, AdapterComes(t)
  PROVE  Board'
  <1>1. /\ UNCHANGED <<forge, hidden, rows, order, deleted, watch, op, backoff, changes,
                       mishaps, happened, cards, news>>
        /\ adapter' = [adapter EXCEPT ![t].live = TRUE]
    BY DEF AdapterComes
  <1>2. Tale'
    BY <1>1, CalmKeeps
  <1>3. Shapes' /\ Stages'
    BY <1>1 DEF Board, Shapes, Stages
  <1>4. Watched'
    <2>1. DOMAIN adapter' = Threads
      BY <1>1 DEF Board, Watched
    <2>2. adapter[t] = [live |-> adapter[t].live, kinds |-> adapter[t].kinds]
      BY DEF Board, Watched
    <2>3. adapter'[t] = [live |-> TRUE, kinds |-> adapter[t].kinds]
      BY <1>1, <2>2 DEF Board, Watched
    <2>4. \A u \in Threads \ {t} : adapter'[u] = adapter[u]
      BY <1>1 DEF Board, Watched
    <2> QED  BY ZenonT(40), <1>1, <2>1, <2>2, <2>3, <2>4 DEF Board, Watched
  <1> QED  BY <1>2, <1>3, <1>4 DEF Board, Tale

LEMMA AdapterGoesKeeps ==
  ASSUME Board, NEW t \in Threads, AdapterGoes(t) \/ ThreadDelete(t)
  PROVE  Board'
  <1>1. /\ UNCHANGED <<forge, hidden, rows, order, op, backoff, changes, mishaps,
                       happened, cards, news>>
        /\ deleted' \subseteq deleted \cup {t}
        /\ watch' = [watch EXCEPT ![t] = NoWatch]
        /\ adapter' = [adapter EXCEPT ![t] = NoAdapter]
    BY DEF AdapterGoes, ThreadDelete, Forget
  <1>2. Tale'
    BY <1>1, CalmKeeps
  <1>3. Watched' /\ watch' \in [Threads -> Watches]
    BY <1>1, AfreshWatched DEF Board, Shapes
  <1>4. Shapes' /\ Stages'
    BY <1>1, <1>3 DEF Board, Shapes, Stages
  <1> QED  BY <1>2, <1>3, <1>4 DEF Board, Tale

LEMMA AdapterForgottenKeeps ==
  ASSUME Board, NEW t \in Threads, AdapterForgotten(t)
  PROVE  Board'
  <1>1. /\ UNCHANGED <<forge, hidden, rows, order, deleted, op, backoff, changes,
                       happened, cards, news>>
        /\ watch' = [watch EXCEPT ![t].left = watch[t].calls]
        /\ adapter' = [adapter EXCEPT ![t] = NoAdapter]
    BY DEF AdapterForgotten
  <1>2. Tale'
    BY <1>1, CalmKeeps
  <1>3. /\ watch' \in [Threads -> Watches] /\ watch'[t].calls = watch'[t].left
        /\ \A u \in Threads \ {t} : watch'[u] = watch[u]
    BY <1>1 DEF Board, Shapes, Watches
  <1>4. Shapes' /\ Stages'
    BY <1>1, <1>3 DEF Board, Shapes, Stages
  <1>5. Watched'
    <2>1. DOMAIN adapter' = Threads
      BY <1>1 DEF Board, Watched
    <2>2. ASSUME NEW u \in Threads
          PROVE  /\ adapter'[u] = [live |-> adapter'[u].live, kinds |-> adapter'[u].kinds]
                 /\ \A c \in watch'[u].calls \ watch'[u].left :
                       c \in DOMAIN adapter'[u].kinds /\ adapter'[u].kinds[c] = "execute"
      <3>1. CASE u = t
        BY <1>1, <1>3, <3>1 DEF Board, Watched, NoAdapter
      <3>2. CASE u # t
        BY <1>1, <1>3, <3>2 DEF Board, Watched
      <3> QED  BY <3>1, <3>2
    <2> QED  BY <2>1, <2>2 DEF Watched
  <1> QED  BY <1>2, <1>4, <1>5 DEF Board, Tale

LEMMA TickKeeps ==
  ASSUME Board, Tick \/ BackoffEnds
  PROVE  Board'
  <1>1. /\ UNCHANGED <<forge, hidden, rows, order, deleted, adapter, watch, changes,
                       mishaps, happened, cards, news>>
        /\ op = Idle /\ backoff' \in BOOLEAN
    BY DEF Tick, BackoffEnds, Board, Shapes
  <1>2. op' = Idle \/ op' = [at |-> "fetch", scope |-> None, tick |-> TRUE, next |-> "idle",
                             answers |-> {}, cards |-> {}]
    BY DEF Tick, BackoffEnds, Idle
  <1>3. op' \in Ops /\ op'.answers = {} /\ op'.cards = {} /\ op'.at \in {"idle", "fetch"}
        /\ (op'.at = "idle" => op' = Idle)
    <2>1. CASE op' = Idle
      BY <2>1, IdleFits
    <2>2. CASE op' = [at |-> "fetch", scope |-> None, tick |-> TRUE, next |-> "idle",
                      answers |-> {}, cards |-> {}]
      BY <2>2 DEF Ops
    <2> QED  BY <1>2, <2>1, <2>2
  <1>4. Tale'
    BY <1>1, <1>3, IdleFits, CalmKeeps
  <1>5. Shapes' /\ Stages'
    BY <1>1, <1>3 DEF Board, Shapes, Stages
  <1>6. Watched'
    BY <1>1 DEF Board, Watched
  <1> QED  BY <1>4, <1>5, <1>6 DEF Board, Tale

-----------------------------------------------------------------------------
(* Linking.                                                                *)

LEMMA Announces ==
  ASSUME NEW t \in Threads, NEW next \in {"idle", "fetch"}, NEW C \in SUBSET (Prs \X Events)
  PROVE  LET o == [Idle EXCEPT !.at = "write", !.scope = t, !.next = next, !.cards = C]
         IN  o \in Ops /\ o.at = "write" /\ o.answers = {} /\ o.cards = C
  BY DEF Idle, Ops

\* A row is written for a pull request that had none, and its card is in hand.
LEMMA NewRowKeeps ==
  ASSUME Board, op = Idle, NEW t \in Threads, NEW p \in Prs, NEW next \in {"idle", "fetch"},
         NEW proof \in {"execute", "left", "gh"},
         p \notin Strangers, ~Linked(p),
         rows' = [rows EXCEPT ![p] = [thread |-> t, proof |-> proof, half |-> Blank]],
         NEW C \in SUBSET (Prs \X Events), C = {<<p, "opened">>},
         op' \in Ops, op'.at = "write", op'.answers = {}, op'.cards = C,
         UNCHANGED <<forge, hidden, order, deleted, backoff, happened, cards, news>>
  PROVE  rows' \in [Prs -> RowSet] /\ op' \in Ops /\ Stages' /\ Tale'
  <1> DEFINE r == [thread |-> t, proof |-> proof, half |-> Blank]
  <1>1. r \in RowSet /\ r.thread = t /\ r.proof = proof /\ r.half = Blank
    BY BlankFits DEF RowSet, Proofs
  <1> HIDE DEF r
  <1>2. rows' = [rows EXCEPT ![p] = r] /\ rows \in [Prs -> RowSet]
    BY DEF r, Board, Shapes
  <1>3. rows'[p] = r /\ \A q \in Prs \ {p} : rows'[q] = rows[q]
    BY <1>2
  <1>4. op.answers = {} /\ op.cards = {}
    BY IdleFits
  <1>7. op' \in Ops /\ op'.at = "write" /\ op'.answers = {} /\ op'.cards = {<<p, "opened">>}
    OBVIOUS
  <1>8. t # None
    BY NoneIsNew
  <1>9. rows[p].half = Blank /\ cards[p]["opened"] = 0
    BY DEF Board, Links
  <1>10. Stages'
    BY <1>7 DEF Stages
  <1>11. Links'
    <2> SUFFICES ASSUME NEW q \in Prs
                 PROVE  /\ rows'[q].thread # None => rows'[q].proof # "other" /\ q \notin Strangers
                        /\ ~(rows'[q].thread # None) => rows'[q].half = Blank /\ cards[q]["opened"] = 0
                        /\ <<q, "opened">> \in op'.cards => rows'[q].thread # None /\ cards[q]["opened"] = 0
                        /\ cards[q]["opened"] <= 1
      BY DEF Links, Linked
    <2>1. CASE q = p
      BY <1>1, <1>3, <1>8, <1>9, <2>1 DEF Board, Links
    <2>2. CASE q # p
      BY <1>3, <1>7, <2>2 DEF Board, Links, Linked
    <2> QED  BY <2>1, <2>2
  <1>12. Order'
    <2>1. \A q \in Prs : Linked(q) => rows'[q].thread # None
      BY <1>1, <1>3, <1>8 DEF Linked
    <2>2. \A i \in 1..Len(order) : order[i] \in Prs /\ Linked(order[i])
      BY ElementOfSeq DEF Board, Order
    <2>3. \A i \in 1..Len(order) : rows'[order[i]].thread # None
      BY <2>1, <2>2
    <2> QED  BY <2>3 DEF Board, Order, Linked
  <1>13. Answers'
    BY <1>7 DEF Answers
  <1>14. Held'
    <2> SUFFICES ASSUME NEW q \in Prs
                 PROVE  /\ rows'[q].half.merged => forge[q].merged
                        /\ <<q, "checks_failed">> \in op'.cards => rows'[q].half.red /\ ~rows'[q].half.merged
                        /\ <<q, "changes_requested">> \in op'.cards => rows'[q].half.asked /\ ~rows'[q].half.merged
                        /\ rows'[q].half.red /\ ~rows'[q].half.merged =>
                              q \in news \/ <<q, "checks_failed">> \in op'.cards
      BY DEF Held
    <2>1. <<q, "checks_failed">> \notin op'.cards /\ <<q, "changes_requested">> \notin op'.cards
      BY <1>7
    <2>2. CASE q = p
      BY <1>1, <1>3, <2>1, <2>2, BlankFits
    <2>3. CASE q # p
      BY <1>3, <1>4, <2>1, <2>3 DEF Board, Held
    <2> QED  BY <2>2, <2>3
  <1>15. Counted'
    <2>1. \A q \in Prs : rows'[q].half = rows[q].half
      BY <1>1, <1>3, <1>9
    <2>2. \A q \in Prs : /\ <<q, "checks_failed">> \notin op'.cards /\ <<q, "changes_requested">> \notin op'.cards
                         /\ <<q, "checks_failed">> \notin op.cards /\ <<q, "changes_requested">> \notin op.cards
      BY <1>4, <1>7
    <2> QED  BY <1>7, <2>1, <2>2 DEF Board, Counted, Pending
  <1> QED  BY <1>2, <1>1, <1>7, <1>10, <1>11, <1>12, <1>13, <1>14, <1>15 DEF Tale

\* link_pr, whether it finds something to link or not.
LEMMA LinkKeeps ==
  ASSUME Board, op = Idle, NEW t \in Threads, NEW p \in Prs, NEW next \in {"idle", "fetch"},
         NEW proof \in {"execute", "left", "gh"}, LinkPr(t, p, proof, next),
         UNCHANGED <<forge, hidden, order, deleted, backoff, happened, cards, news>>
  PROVE  rows' \in [Prs -> RowSet] /\ op' \in Ops /\ Stages' /\ Tale'
  <1>1. CASE BelongsTo(p, t) /\ ~Linked(p)
    <2>1. {<<p, "opened">>} \in SUBSET (Prs \X Events)
      BY DEF Events
    <2>2. p \notin Strangers /\ ~Linked(p)
      BY <1>1 DEF BelongsTo
    <2>3. /\ rows' = [rows EXCEPT ![p] = [thread |-> t, proof |-> proof, half |-> Blank]]
          /\ op' = [Idle EXCEPT !.at = "write", !.scope = t, !.next = next,
                                !.cards = {<<p, "opened">>}]
      BY <1>1 DEF LinkPr
    <2>4. op' \in Ops /\ op'.at = "write" /\ op'.answers = {} /\ op'.cards = {<<p, "opened">>}
      BY <2>1, <2>3, Announces DEF Idle
    <2> QED  BY <2>1, <2>2, <2>3, <2>4, NewRowKeeps
  <1>2. CASE ~(BelongsTo(p, t) /\ ~Linked(p))
    <2>1. op' = Onward(next, t) /\ rows' = rows
      BY <1>2 DEF LinkPr
    <2>2. /\ op' \in Ops /\ op'.answers = op.answers /\ op'.cards = op.cards
          /\ op'.answers = {} /\ op'.cards = {}
          /\ op'.at \in {"idle", "fetch"} /\ (op'.at = "idle" => op' = Idle)
      BY <2>1, IdleFits
    <2>3. Tale'
      BY <2>1, <2>2, CalmKeeps
    <2> QED  BY <2>1, <2>2, <2>3 DEF Board, Shapes, Stages
  <1> QED  BY <1>1, <1>2

LEMMA DiscoverKeeps ==
  ASSUME Board, op = Idle, NEW t \in Threads, NEW next \in {"idle", "fetch"}, Discover(t, next),
         UNCHANGED <<forge, hidden, order, deleted, backoff, happened, cards, news>>
  PROVE  rows' \in [Prs -> RowSet] /\ op' \in Ops /\ Stages' /\ Tale'
  <1>1. PICK p \in Prs \cup {None} :
           IF p # None
             THEN LinkPr(t, p, "gh", next)
             ELSE op' = Onward(next, t) /\ UNCHANGED rows
    BY DEF Discover
  <1>2. CASE p # None
    BY <1>1, <1>2, LinkKeeps
  <1>3. CASE p = None
    <2>1. op' = Onward(next, t) /\ rows' = rows
      BY <1>1, <1>3
    <2>2. /\ op' \in Ops /\ op'.answers = op.answers /\ op'.cards = op.cards
          /\ op'.answers = {} /\ op'.cards = {}
          /\ op'.at \in {"idle", "fetch"} /\ (op'.at = "idle" => op' = Idle)
      BY <2>1, IdleFits
    <2>3. Tale'
      BY <2>1, <2>2, CalmKeeps
    <2> QED  BY <2>1, <2>2, <2>3 DEF Board, Shapes, Stages
  <1> QED  BY <1>2, <1>3

LEMMA TurnEndsKeeps ==
  ASSUME Board, NEW t \in Threads, TurnEnds(t)
  PROVE  Board'
  <1>1. /\ UNCHANGED <<forge, hidden, order, deleted, adapter, backoff, changes, mishaps,
                       happened, cards, news>>
        /\ op = Idle /\ watch' = [watch EXCEPT ![t] = NoWatch]
    BY DEF TurnEnds
  <1>2. Watched' /\ watch' \in [Threads -> Watches]
    BY <1>1, AfreshWatched DEF Board, Shapes
  <1>3. rows' \in [Prs -> RowSet] /\ op' \in Ops /\ Stages' /\ Tale'
    <2>1. CASE watch[t].suspected
      BY <1>1, <2>1, DiscoverKeeps DEF TurnEnds
    <2>2. CASE ~watch[t].suspected
      <3>1. UNCHANGED <<rows, op>>
        BY <2>2 DEF TurnEnds
      <3> QED  BY <1>1, <3>1, CalmKeeps DEF Board, Shapes, Stages
    <2> QED  BY <2>1, <2>2
  <1>4. Shapes'
    BY <1>1, <1>2, <1>3 DEF Board, Shapes
  <1> QED  BY <1>2, <1>3, <1>4 DEF Board, Tale

LEMMA PrRefreshKeeps ==
  ASSUME Board, NEW scope \in Threads \cup {None}, PrRefresh(scope)
  PROVE  Board'
  <1>1. /\ UNCHANGED <<forge, hidden, order, deleted, adapter, watch, backoff, changes, mishaps,
                       happened, cards, news>>
        /\ op = Idle
    BY DEF PrRefresh
  <1>2. rows' \in [Prs -> RowSet] /\ op' \in Ops /\ Stages' /\ Tale'
    <2>1. CASE scope # None
      BY <1>1, <2>1, DiscoverKeeps DEF PrRefresh
    <2>2. CASE scope = None
      <3>1. rows' = rows /\ op' = [at |-> "fetch", scope |-> None, tick |-> FALSE, next |-> "idle",
                                   answers |-> {}, cards |-> {}]
        BY <2>2 DEF PrRefresh, Idle
      <3>2. op' \in Ops /\ op'.at = "fetch" /\ op'.answers = {} /\ op'.cards = {}
        BY <3>1 DEF Ops
      <3>3. Tale'
        BY <1>1, <3>1, <3>2, IdleFits, CalmKeeps
      <3> QED  BY <3>1, <3>2, <3>3 DEF Board, Shapes, Stages
    <2> QED  BY <2>1, <2>2
  <1>3. Shapes' /\ Watched'
    BY <1>1, <1>2 DEF Board, Shapes, Watched
  <1> QED  BY <1>2, <1>3 DEF Board, Tale

\* What a call showed counts if the watch has it for execute, and then it is.
LEMMA ToolUpdateKeeps ==
  ASSUME Board, NEW t \in Threads, NEW c \in Calls, NEW kind \in {"execute", "other"},
         NEW declared \in BOOLEAN, NEW shows \in Prs \cup {"create", "nothing"},
         ToolUpdate(t, c, kind, declared, shows)
  PROVE  Board'
  <1> DEFINE declares == declared /\ kind = "execute"
             trusted == Executes(t, c, declares)
             kinds == [d \in DOMAIN adapter[t].kinds \cup {c} |->
                          IF d = c THEN kind ELSE adapter[t].kinds[d]]
             calls == IF declares THEN watch[t].calls \cup {c} ELSE watch[t].calls
             w == [calls |-> calls, left |-> watch[t].left,
                   suspected |-> watch[t].suspected \/ (trusted /\ shows = "create")]
  <1>1. /\ op = Idle
        /\ c \in DOMAIN adapter[t].kinds => kind = adapter[t].kinds[c]
        /\ UNCHANGED <<forge, hidden, order, deleted, backoff, changes, mishaps,
                       happened, cards, news>>
    BY DEF ToolUpdate
  <1>2. adapter' = [adapter EXCEPT ![t].kinds = kinds]
    BY DEF ToolUpdate
  <1>3. watch' = [watch EXCEPT ![t] = w]
    BY DEF ToolUpdate
  <1>4. IF trusted /\ shows \in Prs
          THEN LinkPr(t, shows, Proof(t, c, kind), "idle")
          ELSE UNCHANGED <<rows, op>>
    BY DEF ToolUpdate
  <1>5. w \in Watches /\ w.calls = calls /\ w.left = watch[t].left
    <2>1. watch[t] \in Watches
      BY DEF Board, Shapes
    <2>2. calls \subseteq Calls /\ (watch[t].suspected \/ (trusted /\ shows = "create")) \in BOOLEAN
      BY <2>1 DEF Watches
    <2> HIDE DEF calls, trusted
    <2> QED  BY <2>1, <2>2 DEF Watches
  <1>6. trusted => Proof(t, c, kind) \in {"execute", "left"}
    BY <1>1 DEF Board, Watched, Executes, Proof
  <1>7. kinds[c] = kind /\ DOMAIN kinds = DOMAIN adapter[t].kinds \cup {c}
        /\ \A d \in DOMAIN adapter[t].kinds : kinds[d] = adapter[t].kinds[d]
    BY <1>1
  <1> HIDE DEF w, kinds
  <1>8. watch' \in [Threads -> Watches] /\ watch'[t] = w /\ \A u \in Threads \ {t} : watch'[u] = watch[u]
    BY <1>3, <1>5 DEF Board, Shapes
  <1>9. Watched'
    <2>1. DOMAIN adapter' = Threads /\ \A u \in Threads \ {t} : adapter'[u] = adapter[u]
      BY <1>2 DEF Board, Watched
    <2>2. adapter'[t] = [live |-> adapter[t].live, kinds |-> kinds]
      <3>1. adapter[t] = [live |-> adapter[t].live, kinds |-> adapter[t].kinds]
        BY DEF Board, Watched
      <3> QED  BY <1>2, <3>1 DEF Board, Watched
    <2>3. \A d \in watch'[t].calls \ watch'[t].left : d \in DOMAIN kinds /\ kinds[d] = "execute"
      BY <1>1, <1>5, <1>7, <1>8 DEF Board, Watched, Executes
    <2> QED  BY <1>8, <2>1, <2>2, <2>3 DEF Board, Watched
  <1>10. rows' \in [Prs -> RowSet] /\ op' \in Ops /\ Stages' /\ Tale'
    <2>1. CASE trusted /\ shows \in Prs
      <3> DEFINE proof == Proof(t, c, kind)
      <3>1. LinkPr(t, shows, proof, "idle") /\ proof \in {"execute", "left", "gh"}
        BY <1>4, <1>6, <2>1
      <3> HIDE DEF proof
      <3> QED  BY <1>1, <2>1, <3>1, LinkKeeps
    <2>2. CASE ~(trusted /\ shows \in Prs)
      <3>1. UNCHANGED <<rows, op>>
        BY <1>4, <2>2
      <3> QED  BY <1>1, <3>1, CalmKeeps DEF Board, Shapes, Stages
    <2> QED  BY <2>1, <2>2
  <1>11. Shapes'
    BY <1>1, <1>8, <1>10 DEF Board, Shapes
  <1> QED  BY <1>9, <1>10, <1>11 DEF Board, Tale

-----------------------------------------------------------------------------
(* The poll.                                                               *)

LEMMA FetchKeeps ==
  ASSUME Board, Fetch
  PROVE  Board'
  <1>1. /\ UNCHANGED <<forge, hidden, rows, order, deleted, adapter, watch, backoff, changes,
                       mishaps, happened, cards, news>>
        /\ op.at = "fetch" /\ op.answers = {} /\ op.cards = {} /\ op \in Ops
    BY DEF Fetch, Board, Stages, Shapes
  <1>2. PICK b \in Batches(Listed(op.scope)) :
           op' = [op EXCEPT !.at = "write", !.answers = {<<p, forge[p]>> : p \in b \ hidden}]
    BY DEF Fetch
  <1>3. \A p \in b : p \in Prs /\ Linked(p)
    <2>1. b \subseteq Listed(op.scope)
      BY DEF Batches
    <2>2. op.scope = None \/ op.scope # None
      OBVIOUS
    <2> QED  BY <2>1, <2>2 DEF Listed, ListPrs, Linked
  <1> DEFINE A == {<<p, forge[p]>> : p \in b \ hidden}
  <1>4. A \in SUBSET (Prs \X Half)
    BY <1>3 DEF Board, Shapes
  <1>5. \A p \in Prs, h \in Half : <<p, h>> \in A => p \in b /\ h = forge[p]
    OBVIOUS
  <1>6. op' = [op EXCEPT !.at = "write", !.answers = A]
    BY <1>2
  <1> HIDE DEF A
  <1>7. op' \in Ops /\ op'.at = "write" /\ op'.answers = A /\ op'.cards = {}
    BY <1>1, <1>4, <1>6 DEF Ops
  <1>8. Shapes' /\ Stages' /\ Watched'
    BY <1>1, <1>7 DEF Board, Shapes, Stages, Watched
  <1>9. Links' /\ Order'
    BY <1>1, <1>7 DEF Board, Links, Order, Linked
  <1>10. Answers'
    <2> SUFFICES ASSUME NEW p \in Prs, NEW h \in Half, <<p, h>> \in A
                 PROVE  /\ Linked(p)
                        /\ rows[p].half.merged => h.merged
                        /\ h.merged => forge[p].merged
                        /\ \A g \in Half : <<p, g>> \in A => g = h
                        /\ <<p, "checks_failed">> \notin op'.cards /\ <<p, "changes_requested">> \notin op'.cards
      BY <1>1, <1>7 DEF Answers, Linked
    <2> QED  BY ZenonT(40), <1>3, <1>5, <1>7 DEF Board, Held
  <1>11. Held'
    BY <1>1, <1>7 DEF Board, Held
  <1>12. Counted'
    <2>1. \A p \in Prs : /\ cards[p]["checks_failed"] \in Nat /\ cards[p]["changes_requested"] \in Nat
                         /\ happened[p].red \in Nat /\ happened[p].asked \in Nat
      BY DEF Board, Shapes, Events
    <2> SUFFICES ASSUME NEW p \in Prs
        PROVE  /\ cards[p]["checks_failed"] + (IF <<p, "checks_failed">> \in op'.cards THEN 1 ELSE 0)
                     + Rise(rows[p].half.red, forge[p].red) <= happened[p].red
               /\ cards[p]["changes_requested"] + (IF <<p, "changes_requested">> \in op'.cards THEN 1 ELSE 0)
                     + Rise(rows[p].half.asked, forge[p].asked) <= happened[p].asked
               /\ \A h \in Half : <<p, h>> \in A =>
                     /\ cards[p]["checks_failed"] + Rise(rows[p].half.red, h.red)
                           + Rise(h.red, forge[p].red) <= happened[p].red
                     /\ cards[p]["changes_requested"] + Rise(rows[p].half.asked, h.asked)
                           + Rise(h.asked, forge[p].asked) <= happened[p].asked
      BY <1>1, <1>7 DEF Counted, Pending
    <2>2. /\ cards[p]["checks_failed"] + Rise(rows[p].half.red, forge[p].red) <= happened[p].red
          /\ cards[p]["changes_requested"] + Rise(rows[p].half.asked, forge[p].asked) <= happened[p].asked
      BY <1>1, <2>1 DEF Board, Counted, Pending, Rise
    <2>3. Rise(forge[p].red, forge[p].red) = 0 /\ Rise(forge[p].asked, forge[p].asked) = 0
      BY DEF Rise
    <2>4. <<p, "checks_failed">> \notin op'.cards /\ <<p, "changes_requested">> \notin op'.cards
      BY <1>7
    <2>5. Rise(rows[p].half.red, forge[p].red) \in Nat /\ Rise(rows[p].half.asked, forge[p].asked) \in Nat
      BY DEF Rise
    <2> QED  BY <1>5, <2>1, <2>2, <2>3, <2>4, <2>5
  <1> QED  BY <1>8, <1>9, <1>10, <1>11, <1>12 DEF Board

\* Nothing comes of the poll, and nothing was in hand.
LEMMA FetchFailsKeeps ==
  ASSUME Board, FetchFails
  PROVE  Board'
  <1>1. /\ UNCHANGED <<forge, hidden, rows, order, deleted, adapter, watch, changes,
                       happened, cards, news>>
        /\ op' = Idle /\ op.answers = {} /\ op.cards = {}
    BY DEF FetchFails, Board, Stages
  <1>2. op \in Ops /\ backoff \in BOOLEAN
    BY DEF Board, Shapes
  <1>3. backoff' \in BOOLEAN
    BY <1>2 DEF FetchFails, Ops
  <1>4. Tale'
    BY <1>1, IdleFits, CalmKeeps
  <1>5. Shapes' /\ Stages'
    BY <1>1, <1>3, IdleFits DEF Board, Shapes, Stages
  <1>6. Watched'
    BY <1>1 DEF Board, Watched
  <1> QED  BY <1>4, <1>5, <1>6 DEF Board, Tale

LEMMA ToldKeeps ==
  ASSUME Board, Told
  PROVE  Board'
  <1>1. /\ UNCHANGED <<forge, hidden, rows, order, deleted, adapter, watch, backoff, changes,
                       mishaps, happened, cards, news>>
        /\ op' = Onward(op.next, op.scope) /\ op.answers = {} /\ op.cards = {} /\ op \in Ops
    BY DEF Told, Board, Shapes
  <1>2. op.next \in {"idle", "fetch"} /\ op.scope \in Threads \cup {None}
    BY <1>1 DEF Ops
  <1>3. /\ op' \in Ops /\ op'.answers = {} /\ op'.cards = {}
        /\ op'.at \in {"idle", "fetch"} /\ (op'.at = "idle" => op' = Idle)
    BY <1>1, <1>2, IdleFits
  <1>4. Tale'
    BY <1>1, <1>3, CalmKeeps
  <1>5. Shapes' /\ Stages'
    BY <1>1, <1>3 DEF Board, Shapes, Stages
  <1>6. Watched'
    BY <1>1 DEF Board, Watched
  <1> QED  BY <1>4, <1>5, <1>6 DEF Board, Tale

\* What comes after the k-th row.
LEMMA BehindProps ==
  ASSUME NEW s \in Seq(Prs), NEW n \in Nat, Len(s) = n, NEW k \in 1..n
  PROVE  /\ SubSeq(s, k + 1, n) \in Seq(Prs) /\ Len(SubSeq(s, k + 1, n)) = n - k
         /\ \A i \in 1..(n - k) : SubSeq(s, k + 1, n)[i] = s[k + i]
  <1>1. \A i \in (k + 1)..n : s[i] \in Prs
    BY ElementOfSeq
  <1>2. k + 1 \in Int /\ n \in Int
    OBVIOUS
  <1> DEFINE b == SubSeq(s, k + 1, n)
  <1>3. /\ b \in Seq(Prs)
        /\ Len(b) = IF k + 1 <= n THEN n - (k + 1) + 1 ELSE 0
        /\ \A i \in 1..(n - (k + 1) + 1) : b[i] = s[(k + 1) + i - 1]
    BY <1>1, <1>2, SubSeqProperties
  <1> HIDE DEF b
  <1>4. Len(b) = n - k
    BY <1>3
  <1>5. n - (k + 1) + 1 = n - k /\ \A i \in 1..(n - k) : (k + 1) + i - 1 = k + i
    OBVIOUS
  <1>6. \A i \in 1..(n - k) : b[i] = s[k + i]
    BY <1>3, <1>5
  <1> QED  BY <1>3, <1>4, <1>6 DEF b

\* A row that is stamped goes to the end, and the others keep their order.
LEMMA StampedKeeps ==
  ASSUME Order, NEW p \in Prs, Linked(p)
  PROVE  /\ Stamped(p) \in Seq(Prs)
         /\ \A i \in 1..Len(Stamped(p)) : Linked(Stamped(p)[i])
         /\ \A i, j \in 1..Len(Stamped(p)) : Stamped(p)[i] = Stamped(p)[j] => i = j
  <1>1. order \in Seq(Prs) /\ Len(order) \in Nat /\ DOMAIN order = 1..Len(order)
    BY LenProperties DEF Order
  <1>2. \A i \in 1..Len(order) : order[i] \in Prs /\ Linked(order[i])
    BY <1>1, ElementOfSeq DEF Order
  <1>3. PICK rest \in Seq(Prs) :
           /\ Stamped(p) = Append(rest, p)
           /\ \A i \in 1..Len(rest) : Linked(rest[i]) /\ rest[i] # p
           /\ \A i, j \in 1..Len(rest) : rest[i] = rest[j] => i = j
    <2>1. CASE ~Polled(p)
      <3>1. \A i \in 1..Len(order) : order[i] # p
        BY <1>1, <2>1 DEF Polled
      <3> QED  BY <1>1, <1>2, <2>1, <3>1 DEF Stamped, Order
    <2>2. CASE Polled(p)
      <3> DEFINE k == PolledAt(p)
                 before == SubSeq(order, 1, k - 1)
                 behind == SubSeq(order, k + 1, Len(order))
      <3>1. k \in 1..Len(order) /\ order[k] = p
        BY <1>1, <2>2 DEF PolledAt, Polled
      <3>2. Stamped(p) = Append(before \o behind, p)
        BY <2>2 DEF Stamped, RemoveAt
      <3> HIDE DEF k
      <3>3. /\ before \in Seq(Prs) /\ Len(before) = k - 1
            /\ \A i \in 1..(k - 1) : before[i] = order[i]
        <4>1. \A i \in 1..(k - 1) : order[i] \in Prs
          BY <1>1, <1>2, <3>1
        <4>2. k - 1 \in Int /\ 1 \in Int /\ k \in Nat
          BY <1>1, <3>1
        <4>3. /\ before \in Seq(Prs) /\ Len(before) = IF 1 <= k - 1 THEN (k - 1) - 1 + 1 ELSE 0
              /\ \A i \in 1..((k - 1) - 1 + 1) : before[i] = order[1 + i - 1]
          BY <4>1, <4>2, SubSeqProperties
        <4> HIDE DEF before
        <4>4. \A i \in 1..(k - 1) : before[i] = order[i]
          BY <4>2, <4>3
        <4> QED  BY <3>1, <4>2, <4>3, <4>4
      <3>4. /\ behind \in Seq(Prs) /\ Len(behind) = Len(order) - k
            /\ \A i \in 1..(Len(order) - k) : behind[i] = order[k + i]
        BY <1>1, <3>1, BehindProps
      <3> DEFINE rest == before \o behind
      <3> HIDE DEF before, behind
      <3>5. /\ rest \in Seq(Prs) /\ Len(rest) = Len(before) + Len(behind)
            /\ \A i \in 1..(Len(before) + Len(behind)) :
                  rest[i] = IF i <= Len(before) THEN before[i] ELSE behind[i - Len(before)]
        BY <3>3, <3>4, ConcatProperties
      <3> HIDE DEF rest
      <3>6. /\ Len(rest) = Len(order) - 1
            /\ \A i \in 1..(Len(order) - 1) : rest[i] = order[IF i < k THEN i ELSE i + 1]
        <4>1. Len(rest) = Len(order) - 1
          BY <1>1, <3>1, <3>3, <3>4, <3>5
        <4>2. ASSUME NEW i \in 1..(Len(order) - 1)
              PROVE  rest[i] = order[IF i < k THEN i ELSE i + 1]
          <5>1. rest[i] = IF i <= Len(before) THEN before[i] ELSE behind[i - Len(before)]
            BY <1>1, <3>1, <3>5, <4>1
          <5>2. CASE i < k
            <6>1. i \in 1..(k - 1)
              BY <1>1, <3>1, <5>2
            <6> QED  BY <1>1, <3>1, <3>3, <5>1, <5>2, <6>1
          <5>3. CASE ~(i < k)
            <6>1. i - (k - 1) \in 1..(Len(order) - k)
              BY <1>1, <3>1, <5>3
            <6>2. k + (i - (k - 1)) = i + 1
              BY <1>1, <3>1
            <6>3. behind[i - (k - 1)] = order[i + 1]
              BY <3>4, <6>1, <6>2
            <6>4. ~(i <= Len(before))
              BY <1>1, <3>1, <3>3, <5>3
            <6> QED  BY <3>3, <5>1, <5>3, <6>3, <6>4
          <5> QED  BY <5>2, <5>3
        <4> QED  BY <4>1, <4>2
      <3>7. \A i \in 1..Len(rest) : (IF i < k THEN i ELSE i + 1) \in 1..Len(order) /\ (IF i < k THEN i ELSE i + 1) # k
        BY <1>1, <3>1, <3>6
      <3>8. \A i \in 1..Len(rest) : Linked(rest[i]) /\ rest[i] # p
        BY <1>2, <3>1, <3>6, <3>7 DEF Order
      <3>9. \A i, j \in 1..Len(rest) : rest[i] = rest[j] => i = j
        <4> SUFFICES ASSUME NEW i \in 1..Len(rest), NEW j \in 1..Len(rest), rest[i] = rest[j]
                     PROVE  i = j
          OBVIOUS
        <4>1. (IF i < k THEN i ELSE i + 1) = (IF j < k THEN j ELSE j + 1)
          BY <3>6, <3>7 DEF Order
        <4> QED  BY <1>1, <3>1, <3>6, <4>1
      <3> QED  BY <3>2, <3>5, <3>8, <3>9 DEF rest
    <2> QED  BY <2>1, <2>2
  <1>4. /\ Append(rest, p) \in Seq(Prs) /\ Len(Append(rest, p)) = Len(rest) + 1
        /\ \A i \in 1..Len(rest) : Append(rest, p)[i] = rest[i]
        /\ Append(rest, p)[Len(rest) + 1] = p
    BY AppendProperties
  <1>5. Len(rest) \in Nat
    BY LenProperties
  <1> DEFINE all == Append(rest, p)
  <1>6. Stamped(p) = all
    BY <1>3
  <1> HIDE DEF all
  <1>7. all \in Seq(Prs) /\ Len(all) = Len(rest) + 1 /\ all[Len(rest) + 1] = p
        /\ \A i \in 1..Len(rest) : all[i] = rest[i]
    BY <1>4 DEF all
  <1>8. \A i \in 1..Len(all) : i \in 1..Len(rest) \/ i = Len(rest) + 1
    BY <1>5, <1>7
  <1>9. \A i \in 1..Len(all) : Linked(all[i])
    BY <1>3, <1>7, <1>8
  <1>10. \A i, j \in 1..Len(all) : all[i] = all[j] => i = j
    BY <1>3, <1>7, <1>8
  <1> QED  BY <1>6, <1>7, <1>9, <1>10

\* The counts as numbers.
LEMMA Numbers ==
  ASSUME Shapes, NEW p \in Prs
  PROVE  /\ cards[p]["opened"] \in Nat /\ cards[p]["checks_failed"] \in Nat
         /\ cards[p]["changes_requested"] \in Nat
         /\ happened[p].red \in Nat /\ happened[p].asked \in Nat
  BY DEF Shapes, Events

LEMMA Rises == \A x, y : Rise(x, y) \in {0, 1}
  BY DEF Rise

\* The card of an answer is of a change between the row and the answer, of the
\* checks before the review.
LEMMA TransitionSays ==
  ASSUME NEW b, NEW h
  PROVE  /\ Transition(b, h) \subseteq {"checks_failed", "changes_requested"}
         /\ "checks_failed" \in Transition(b, h) => h.red /\ ~b.red /\ ~h.merged
         /\ "changes_requested" \in Transition(b, h) => h.asked /\ ~b.asked /\ ~h.merged
         /\ h.red /\ ~b.red /\ ~h.merged => "checks_failed" \in Transition(b, h)
  BY DEF Transition

LEMMA ApplyKeeps ==
  ASSUME Board, NEW p \in Prs, NEW h \in Half, Apply(p, h)
  PROVE  Board'
  <1> DEFINE b == rows[p].half
             T == Transition(b, h)
  <1>1. /\ op.at = "write" /\ <<p, h>> \in op.answers
        /\ rows' = [rows EXCEPT ![p].half = h]
        /\ order' = Stamped(p)
        /\ news' = IF h.red /\ b.red THEN news ELSE news \ {p}
        /\ UNCHANGED <<forge, hidden, deleted, adapter, watch, backoff, changes, mishaps,
                       happened, cards>>
    BY DEF Apply
  <1>2. op' = [op EXCEPT !.answers = op.answers \ {<<p, h>>}, !.cards = op.cards \cup ({p} \X T)]
    BY DEF Apply
  <1>3. /\ T \subseteq {"checks_failed", "changes_requested"}
        /\ "checks_failed" \in T => h.red /\ ~b.red /\ ~h.merged
        /\ "changes_requested" \in T => h.asked /\ ~b.asked /\ ~h.merged
        /\ h.red /\ ~b.red /\ ~h.merged => "checks_failed" \in T
    BY TransitionSays
  <1> HIDE DEF T
  <1>4. op \in Ops /\ rows \in [Prs -> RowSet]
    BY DEF Board, Shapes
  <1> DEFINE A == op.answers \ {<<p, h>>}
             C == op.cards \cup ({p} \X T)
  <1>5. A \in SUBSET (Prs \X Half) /\ C \in SUBSET (Prs \X Events)
    BY <1>3, <1>4 DEF Ops, Events
  <1>6. \A q \in Prs, g \in Half : <<q, g>> \in A <=> <<q, g>> \in op.answers /\ <<q, g>> # <<p, h>>
    OBVIOUS
  <1>7. \A q \in Prs, e \in Events : <<q, e>> \in C <=> <<q, e>> \in op.cards \/ (q = p /\ e \in T)
    OBVIOUS
  <1>8. op' = [op EXCEPT !.answers = A, !.cards = C]
    BY <1>2
  <1> HIDE DEF A, C
  <1>9. op' \in Ops /\ op'.at = "write" /\ op'.answers = A /\ op'.cards = C
    BY <1>1, <1>4, <1>5, <1>8 DEF Ops
  <1>10. /\ Linked(p) /\ (b.merged => h.merged) /\ (h.merged => forge[p].merged)
         /\ <<p, "checks_failed">> \notin op.cards /\ <<p, "changes_requested">> \notin op.cards
         /\ \A g \in Half : <<p, g>> \notin A
    BY <1>1, <1>6 DEF Board, Answers
  <1>11. /\ rows' \in [Prs -> RowSet] /\ rows'[p].half = h
         /\ rows'[p].thread = rows[p].thread /\ rows'[p].proof = rows[p].proof
         /\ \A q \in Prs \ {p} : rows'[q] = rows[q]
    BY <1>1, <1>4 DEF RowSet
  <1>12. news' \subseteq Prs /\ \A q \in Prs \ {p} : q \in news' <=> q \in news
    BY <1>1 DEF Board, Shapes
  <1>13. Shapes'
    BY <1>1, <1>9, <1>11, <1>12 DEF Board, Shapes
  <1>14. Stages' /\ Watched'
    BY <1>1, <1>9 DEF Board, Stages, Watched
  <1>15. {"opened", "checks_failed", "changes_requested"} = Events
    BY DEF Events
  <1>16. \A q \in Prs : rows'[q].thread = rows[q].thread
    BY <1>11
  <1>17. Links'
    <2> SUFFICES ASSUME NEW q \in Prs
                 PROVE  /\ rows'[q].thread # None => rows'[q].proof # "other" /\ q \notin Strangers
                        /\ ~(rows'[q].thread # None) => rows'[q].half = Blank /\ cards[q]["opened"] = 0
                        /\ <<q, "opened">> \in C => rows'[q].thread # None /\ cards[q]["opened"] = 0
                        /\ cards[q]["opened"] <= 1
      BY <1>1, <1>9 DEF Links, Linked
    <2>1. <<q, "opened">> \in C <=> <<q, "opened">> \in op.cards
      BY <1>3, <1>7, <1>15
    <2>2. CASE q = p
      BY <1>10, <1>11, <2>1, <2>2 DEF Board, Links, Linked
    <2>3. CASE q # p
      BY <1>11, <2>1, <2>3 DEF Board, Links, Linked
    <2> QED  BY <2>2, <2>3
  <1>18. Order'
    <2>1. /\ order' \in Seq(Prs)
          /\ \A i \in 1..Len(order') : Linked(order'[i])
          /\ \A i, j \in 1..Len(order') : order'[i] = order'[j] => i = j
      BY <1>1, <1>10, StampedKeeps DEF Board
    <2>2. \A i \in 1..Len(order') : order'[i] \in Prs
      BY <2>1, ElementOfSeq
    <2>3. \A i \in 1..Len(order') : rows'[order'[i]].thread # None
      BY <1>16, <2>1, <2>2 DEF Linked
    <2> QED  BY <2>1, <2>3 DEF Order, Linked
  <1>19. Answers'
    <2> SUFFICES ASSUME NEW q \in Prs, NEW g \in Half, <<q, g>> \in A
                 PROVE  /\ rows'[q].thread # None
                        /\ rows'[q].half.merged => g.merged
                        /\ g.merged => forge[q].merged
                        /\ \A k \in Half : <<q, k>> \in A => k = g
                        /\ <<q, "checks_failed">> \notin C /\ <<q, "changes_requested">> \notin C
      BY <1>1, <1>9 DEF Answers, Linked
    <2>1. q # p /\ <<q, g>> \in op.answers
      BY <1>6, <1>10
    <2>2. <<q, "checks_failed">> \notin C /\ <<q, "changes_requested">> \notin C
      BY <1>7, <1>15, <2>1 DEF Board, Answers
    <2> QED  BY <1>6, <1>11, <2>1, <2>2 DEF Board, Answers, Linked
  <1>20. Held'
    <2> SUFFICES ASSUME NEW q \in Prs
                 PROVE  /\ rows'[q].half.merged => forge[q].merged
                        /\ <<q, "checks_failed">> \in C => rows'[q].half.red /\ ~rows'[q].half.merged
                        /\ <<q, "changes_requested">> \in C => rows'[q].half.asked /\ ~rows'[q].half.merged
                        /\ rows'[q].half.red /\ ~rows'[q].half.merged =>
                              q \in news' \/ <<q, "checks_failed">> \in C
      BY <1>1, <1>9 DEF Held
    <2>1. CASE q # p
      BY <1>7, <1>11, <1>12, <1>15, <2>1 DEF Board, Held
    <2>2. CASE q = p
      <3>1. <<p, "checks_failed">> \in C <=> "checks_failed" \in T
        BY <1>7, <1>10, <1>15
      <3>2. <<p, "changes_requested">> \in C <=> "changes_requested" \in T
        BY <1>7, <1>10, <1>15
      <3>3. h.merged => forge[p].merged
        BY <1>10
      <3>4. ASSUME h.red, ~h.merged
            PROVE  p \in news' \/ <<p, "checks_failed">> \in C
        <4>1. CASE b.red
          <5>1. ~b.merged
            BY <1>10, <3>4
          <5>2. p \in news
            BY <1>10, <4>1, <5>1 DEF Board, Held
          <5> QED  BY <1>1, <3>4, <4>1, <5>2
        <4>2. CASE ~b.red
          BY <1>3, <3>1, <3>4, <4>2
        <4> QED  BY <4>1, <4>2
      <3> QED  BY <1>3, <1>11, <2>2, <3>1, <3>2, <3>3, <3>4
    <2> QED  BY <2>1, <2>2
  <1>21. Counted'
    <2> SUFFICES ASSUME NEW q \in Prs
        PROVE  /\ cards[q]["checks_failed"] + (IF <<q, "checks_failed">> \in C THEN 1 ELSE 0)
                     + Rise(rows'[q].half.red, forge[q].red) <= happened[q].red
               /\ cards[q]["changes_requested"] + (IF <<q, "changes_requested">> \in C THEN 1 ELSE 0)
                     + Rise(rows'[q].half.asked, forge[q].asked) <= happened[q].asked
               /\ \A g \in Half : <<q, g>> \in A =>
                     /\ cards[q]["checks_failed"] + Rise(rows'[q].half.red, g.red)
                           + Rise(g.red, forge[q].red) <= happened[q].red
                     /\ cards[q]["changes_requested"] + Rise(rows'[q].half.asked, g.asked)
                           + Rise(g.asked, forge[q].asked) <= happened[q].asked
      BY <1>1, <1>9 DEF Counted, Pending
    <2>1. CASE q # p
      BY <1>6, <1>7, <1>11, <1>15, <2>1 DEF Board, Counted, Pending
    <2>2. CASE q = p
      <3>1. /\ cards[p]["checks_failed"] + Rise(b.red, h.red) + Rise(h.red, forge[p].red) <= happened[p].red
            /\ cards[p]["changes_requested"] + Rise(b.asked, h.asked)
                  + Rise(h.asked, forge[p].asked) <= happened[p].asked
        BY <1>1 DEF Board, Counted
      <3>2. <<p, "checks_failed">> \in C => Rise(b.red, h.red) = 1
        BY <1>3, <1>7, <1>10, <1>15 DEF Rise
      <3>3. <<p, "changes_requested">> \in C => Rise(b.asked, h.asked) = 1
        BY <1>3, <1>7, <1>10, <1>15 DEF Rise
      <3>4. /\ cards[p]["checks_failed"] \in Nat /\ cards[p]["changes_requested"] \in Nat
            /\ happened[p].red \in Nat /\ happened[p].asked \in Nat
        BY Numbers DEF Board
      <3>5. /\ Rise(b.red, h.red) \in {0, 1} /\ Rise(h.red, forge[p].red) \in {0, 1}
            /\ Rise(b.asked, h.asked) \in {0, 1} /\ Rise(h.asked, forge[p].asked) \in {0, 1}
        BY Rises
      <3>6. /\ cards[p]["checks_failed"] + (IF <<p, "checks_failed">> \in C THEN 1 ELSE 0)
                  + Rise(h.red, forge[p].red) <= happened[p].red
            /\ cards[p]["changes_requested"] + (IF <<p, "changes_requested">> \in C THEN 1 ELSE 0)
                  + Rise(h.asked, forge[p].asked) <= happened[p].asked
        BY <3>1, <3>2, <3>3, <3>4, <3>5
      <3> QED  BY <1>10, <1>11, <2>2, <3>6
    <2> QED  BY <2>1, <2>2
  <1> QED  BY <1>13, <1>14, <1>17, <1>18, <1>19, <1>20, <1>21 DEF Board

\* An answer whose row could not be written is let go of.
LEMMA ApplyFailsKeeps ==
  ASSUME Board, NEW p \in Prs, NEW h \in Half, ApplyFails(p, h)
  PROVE  Board'
  <1>1. /\ op.at = "write" /\ op \in Ops
        /\ op' = [op EXCEPT !.answers = op.answers \ {<<p, h>>}]
        /\ UNCHANGED <<forge, hidden, rows, order, deleted, adapter, watch, backoff, changes,
                       happened, cards, news>>
    BY DEF ApplyFails, Board, Shapes
  <1>2. op' \in Ops /\ op'.at = "write" /\ op'.cards = op.cards
        /\ op'.answers \subseteq op.answers
    BY <1>1 DEF Ops
  <1>3. Shapes' /\ Stages' /\ Watched'
    BY <1>1, <1>2 DEF Board, Shapes, Stages, Watched
  <1>4. Links' /\ Order'
    BY <1>1, <1>2 DEF Board, Links, Order, Linked
  <1>5. Answers'
    BY <1>1, <1>2 DEF Board, Answers, Linked
  <1>6. Held'
    BY <1>1, <1>2 DEF Board, Held
  <1>7. Counted'
    BY <1>1, <1>2 DEF Board, Counted, Pending
  <1> QED  BY <1>3, <1>4, <1>5, <1>6, <1>7 DEF Board

\* A card goes out of the hand, onto the Inbox or nowhere.
LEMMA TellsKeeps ==
  ASSUME Board, NEW p \in Prs, NEW event \in Events, Tell(p, event) \/ TellFails(p, event)
  PROVE  Board'
  <1>1. /\ op.at = "write" /\ op.answers = {} /\ <<p, event>> \in op.cards /\ op \in Ops
        /\ op' = [op EXCEPT !.cards = op.cards \ {<<p, event>>}]
        /\ news' = IF event = "checks_failed" THEN news \cup {p} ELSE news
        /\ UNCHANGED <<forge, hidden, rows, order, deleted, adapter, watch, backoff, changes,
                       happened>>
    BY DEF Tell, TellFails, MayTell, Board, Shapes
  <1> DEFINE C == op.cards \ {<<p, event>>}
  <1>2. C \in SUBSET (Prs \X Events)
    BY <1>1 DEF Ops
  <1>3. \A q \in Prs, e \in Events : <<q, e>> \in C <=> <<q, e>> \in op.cards /\ ~(q = p /\ e = event)
    OBVIOUS
  <1>4. op' = [op EXCEPT !.cards = C]
    BY <1>1
  <1> HIDE DEF C
  <1>5. op' \in Ops /\ op'.at = "write" /\ op'.answers = {} /\ op'.cards = C
    BY <1>1, <1>2, <1>4 DEF Ops
  <1>6. /\ cards' \in [Prs -> [Events -> Nat]]
        /\ cards'[p][event] \in {cards[p][event], cards[p][event] + 1}
        /\ \A q \in Prs, e \in Events : ~(q = p /\ e = event) => cards'[q][e] = cards[q][e]
    <2>1. cards \in [Prs -> [Events -> Nat]]
      BY DEF Board, Shapes
    <2>2. CASE Tell(p, event)
      <3>1. cards' = [cards EXCEPT ![p] = [cards[p] EXCEPT ![event] = cards[p][event] + 1]]
        BY <2>2 DEF Tell
      <3> QED  BY <2>1, <3>1
    <2>3. CASE TellFails(p, event)
      BY <2>1, <2>3 DEF TellFails
    <2> QED  BY <2>2, <2>3
  <1>7. Events = {"opened", "checks_failed", "changes_requested"}
    BY DEF Events
  <1>8. Shapes'
    BY <1>1, <1>5, <1>6 DEF Board, Shapes
  <1>9. Stages' /\ Watched'
    BY <1>1, <1>5 DEF Board, Stages, Watched
  <1>10. Links'
    <2> SUFFICES ASSUME NEW q \in Prs
                 PROVE  /\ Linked(q) => rows[q].proof # "other" /\ q \notin Strangers
                        /\ ~Linked(q) => rows[q].half = Blank /\ cards'[q]["opened"] = 0
                        /\ <<q, "opened">> \in C => Linked(q) /\ cards'[q]["opened"] = 0
                        /\ cards'[q]["opened"] <= 1
      BY <1>1, <1>5 DEF Links, Linked
    <2>1. CASE q = p /\ event = "opened"
      <3>1. Linked(p) /\ cards[p]["opened"] = 0 /\ rows[p].proof # "other" /\ p \notin Strangers
        BY <1>1, <2>1 DEF Board, Links
      <3>2. cards'[p]["opened"] = 0 \/ cards'[p]["opened"] = 1
        BY <1>6, <2>1, <3>1
      <3>3. <<p, "opened">> \notin C
        BY <1>3, <1>7, <2>1
      <3> QED  BY <2>1, <3>1, <3>2, <3>3
    <2>2. CASE ~(q = p /\ event = "opened")
      BY <1>3, <1>6, <1>7, <2>2 DEF Board, Links
    <2> QED  BY <2>1, <2>2
  <1>11. Order'
    BY <1>1 DEF Board, Order, Linked
  <1>12. Answers'
    BY <1>5 DEF Answers
  <1>13. Held'
    <2> SUFFICES ASSUME NEW q \in Prs
                 PROVE  /\ rows[q].half.merged => forge[q].merged
                        /\ <<q, "checks_failed">> \in C => rows[q].half.red /\ ~rows[q].half.merged
                        /\ <<q, "changes_requested">> \in C => rows[q].half.asked /\ ~rows[q].half.merged
                        /\ rows[q].half.red /\ ~rows[q].half.merged =>
                              q \in news' \/ <<q, "checks_failed">> \in C
      BY <1>1, <1>5 DEF Held
    <2> QED  BY <1>1, <1>3, <1>7 DEF Board, Held
  <1>14. Counted'
    <2> SUFFICES ASSUME NEW q \in Prs
        PROVE  /\ cards'[q]["checks_failed"] + (IF <<q, "checks_failed">> \in C THEN 1 ELSE 0)
                     + Rise(rows[q].half.red, forge[q].red) <= happened[q].red
               /\ cards'[q]["changes_requested"] + (IF <<q, "changes_requested">> \in C THEN 1 ELSE 0)
                     + Rise(rows[q].half.asked, forge[q].asked) <= happened[q].asked
      BY <1>1, <1>5 DEF Counted, Pending
    <2>1. /\ cards[q]["checks_failed"] + (IF <<q, "checks_failed">> \in op.cards THEN 1 ELSE 0)
                + Rise(rows[q].half.red, forge[q].red) <= happened[q].red
          /\ cards[q]["changes_requested"] + (IF <<q, "changes_requested">> \in op.cards THEN 1 ELSE 0)
                + Rise(rows[q].half.asked, forge[q].asked) <= happened[q].asked
      BY DEF Board, Counted, Pending
    <2>2. /\ cards[q]["checks_failed"] \in Nat /\ cards[q]["changes_requested"] \in Nat
          /\ happened[q].red \in Nat /\ happened[q].asked \in Nat
      BY Numbers DEF Board
    <2>3. /\ Rise(rows[q].half.red, forge[q].red) \in {0, 1}
          /\ Rise(rows[q].half.asked, forge[q].asked) \in {0, 1}
      BY Rises
    <2>4. cards'[q]["checks_failed"] + (IF <<q, "checks_failed">> \in C THEN 1 ELSE 0)
             + Rise(rows[q].half.red, forge[q].red) <= happened[q].red
      <3>1. CASE q = p /\ event = "checks_failed"
        <4>1. <<q, "checks_failed">> \in op.cards /\ <<q, "checks_failed">> \notin C
          BY <1>1, <1>3, <1>7, <3>1
        <4>2. cards'[q]["checks_failed"] \in {cards[q]["checks_failed"], cards[q]["checks_failed"] + 1}
          BY <1>6, <3>1
        <4> QED  BY <2>1, <2>2, <2>3, <4>1, <4>2
      <3>2. CASE ~(q = p /\ event = "checks_failed")
        <4>1. /\ <<q, "checks_failed">> \in op.cards <=> <<q, "checks_failed">> \in C
              /\ cards'[q]["checks_failed"] = cards[q]["checks_failed"]
          BY <1>3, <1>6, <1>7, <3>2
        <4> QED  BY <2>1, <4>1
      <3> QED  BY <3>1, <3>2
    <2>5. cards'[q]["changes_requested"] + (IF <<q, "changes_requested">> \in C THEN 1 ELSE 0)
             + Rise(rows[q].half.asked, forge[q].asked) <= happened[q].asked
      <3>1. CASE q = p /\ event = "changes_requested"
        <4>1. <<q, "changes_requested">> \in op.cards /\ <<q, "changes_requested">> \notin C
          BY <1>1, <1>3, <1>7, <3>1
        <4>2. cards'[q]["changes_requested"] \in {cards[q]["changes_requested"], cards[q]["changes_requested"] + 1}
          BY <1>6, <3>1
        <4> QED  BY <2>1, <2>2, <2>3, <4>1, <4>2
      <3>2. CASE ~(q = p /\ event = "changes_requested")
        <4>1. /\ <<q, "changes_requested">> \in op.cards <=> <<q, "changes_requested">> \in C
              /\ cards'[q]["changes_requested"] = cards[q]["changes_requested"]
          BY <1>3, <1>6, <1>7, <3>2
        <4> QED  BY <2>1, <4>1
      <3> QED  BY <3>1, <3>2
    <2> QED  BY <2>4, <2>5
  <1> QED  BY <1>8, <1>9, <1>10, <1>11, <1>12, <1>13, <1>14 DEF Board

-----------------------------------------------------------------------------
(* The surroundings.                                                       *)

LEMMA RelaunchKeeps ==
  ASSUME Board, Relaunch
  PROVE  Board'
  <1>1. /\ op' = Idle /\ op' \in Ops /\ op'.at = "idle" /\ op'.answers = {} /\ op'.cards = {}
        /\ backoff' = FALSE
        /\ watch' = [t \in Threads |-> NoWatch]
        /\ adapter' = [t \in Threads |-> NoAdapter]
        /\ news' = news \cup {p \in Prs : <<p, "checks_failed">> \in op.cards}
        /\ UNCHANGED <<forge, hidden, rows, order, deleted, changes, happened, cards>>
    BY IdleFits DEF Relaunch
  <1>2. NoWatch \in Watches /\ NoWatch.calls = {}
    BY DEF NoWatch, Watches
  <1>3. Shapes' /\ Stages'
    BY <1>1, <1>2 DEF Board, Shapes, Stages
  <1>4. Watched'
    BY <1>1, <1>2 DEF Watched, NoAdapter
  <1>5. Links' /\ Order'
    BY <1>1 DEF Board, Links, Order, Linked
  <1>6. Answers'
    BY <1>1 DEF Answers
  <1>7. Held'
    <2> SUFFICES ASSUME NEW q \in Prs
                 PROVE  /\ rows[q].half.merged => forge[q].merged
                        /\ rows[q].half.red /\ ~rows[q].half.merged => q \in news'
      BY <1>1 DEF Held
    <2> QED  BY <1>1 DEF Board, Held
  <1>8. Counted'
    <2> SUFFICES ASSUME NEW q \in Prs
        PROVE  /\ cards[q]["checks_failed"] + 0 + Rise(rows[q].half.red, forge[q].red) <= happened[q].red
               /\ cards[q]["changes_requested"] + 0 + Rise(rows[q].half.asked, forge[q].asked)
                     <= happened[q].asked
      BY <1>1 DEF Counted, Pending
    <2>1. /\ cards[q]["checks_failed"] \in Nat /\ cards[q]["changes_requested"] \in Nat
          /\ happened[q].red \in Nat /\ happened[q].asked \in Nat
      BY Numbers DEF Board
    <2>2. /\ Rise(rows[q].half.red, forge[q].red) \in {0, 1}
          /\ Rise(rows[q].half.asked, forge[q].asked) \in {0, 1}
      BY Rises
    <2>3. /\ cards[q]["checks_failed"] + Pending(q, "checks_failed")
                + Rise(rows[q].half.red, forge[q].red) <= happened[q].red
          /\ cards[q]["changes_requested"] + Pending(q, "changes_requested")
                + Rise(rows[q].half.asked, forge[q].asked) <= happened[q].asked
      BY DEF Board, Counted
    <2>4. Pending(q, "checks_failed") \in {0, 1} /\ Pending(q, "changes_requested") \in {0, 1}
      BY DEF Pending
    <2> QED  BY <2>1, <2>2, <2>3, <2>4
  <1> QED  BY <1>3, <1>4, <1>5, <1>6, <1>7, <1>8 DEF Board

LEMMA HideKeeps ==
  ASSUME Board, NEW p \in Prs, Hide(p)
  PROVE  Board'
  <1>1. UNCHANGED <<forge, rows, order, deleted, adapter, watch, op, backoff, changes,
                    mishaps, happened, cards, news>> /\ hidden' \subseteq Prs
    BY DEF Hide, Board, Shapes
  <1>2. Tale'
    BY <1>1, CalmKeeps
  <1>3. Shapes' /\ Stages' /\ Watched'
    BY <1>1 DEF Board, Shapes, Stages, Watched
  <1> QED  BY <1>2, <1>3 DEF Board, Tale

\* A pull request changes in one of three ways.
LEMMA ChangeCases ==
  ASSUME Board, NEW p \in Prs, Change(p)
  PROVE  /\ forge' \in [Prs -> Half] /\ happened' \in [Prs -> [red : Nat, asked : Nat]]
         /\ \A q \in Prs \ {p} : forge'[q] = forge[q] /\ happened'[q] = happened[q]
         /\ forge[p].merged => forge'[p].merged
         /\ \/ forge'[p].red = forge[p].red /\ happened'[p].red = happened[p].red
            \/ ~forge'[p].red /\ happened'[p].red = happened[p].red
            \/ ~forge[p].red /\ happened'[p].red = happened[p].red + 1
         /\ \/ forge'[p].asked = forge[p].asked /\ happened'[p].asked = happened[p].asked
            \/ ~forge'[p].asked /\ happened'[p].asked = happened[p].asked
            \/ ~forge[p].asked /\ happened'[p].asked = happened[p].asked + 1
  <1>1. forge \in [Prs -> Half] /\ happened \in [Prs -> [red : Nat, asked : Nat]]
    BY DEF Board, Shapes
  <1> DEFINE f == forge[p]
             n == happened[p]
             redder == [happened EXCEPT ![p] = [red |-> n.red + 1, asked |-> n.asked]]
             stricter == [happened EXCEPT ![p] = [red |-> n.red, asked |-> n.asked + 1]]
  <1>2. f \in Half /\ n \in [red : Nat, asked : Nat]
    BY <1>1
  <1>3. \/ /\ ~f.merged
           /\ forge' = [forge EXCEPT ![p] = [merged |-> TRUE, red |-> f.red, asked |-> f.asked]]
           /\ happened' = happened
        \/ /\ forge' = [forge EXCEPT ![p] = [merged |-> f.merged, red |-> ~f.red, asked |-> f.asked]]
           /\ happened' = IF f.red THEN happened ELSE redder
        \/ /\ forge' = [forge EXCEPT ![p] = [merged |-> f.merged, red |-> f.red, asked |-> ~f.asked]]
           /\ happened' = IF f.asked THEN happened ELSE stricter
    BY <1>1 DEF Change, Half
  <1>4. /\ [merged |-> TRUE, red |-> f.red, asked |-> f.asked] \in Half
        /\ [merged |-> f.merged, red |-> ~f.red, asked |-> f.asked] \in Half
        /\ [merged |-> f.merged, red |-> f.red, asked |-> ~f.asked] \in Half
    BY <1>2 DEF Half
  <1>5. /\ redder \in [Prs -> [red : Nat, asked : Nat]] /\ stricter \in [Prs -> [red : Nat, asked : Nat]]
        /\ redder[p].red = n.red + 1 /\ redder[p].asked = n.asked
        /\ stricter[p].red = n.red /\ stricter[p].asked = n.asked + 1
        /\ \A q \in Prs \ {p} : redder[q] = happened[q] /\ stricter[q] = happened[q]
    BY <1>1, <1>2
  <1> HIDE DEF redder, stricter
  <1>6. CASE /\ forge' = [forge EXCEPT ![p] = [merged |-> TRUE, red |-> f.red, asked |-> f.asked]]
             /\ happened' = happened
    BY <1>1, <1>4, <1>6
  <1>7. CASE /\ forge' = [forge EXCEPT ![p] = [merged |-> f.merged, red |-> ~f.red, asked |-> f.asked]]
             /\ happened' = IF f.red THEN happened ELSE redder
    <2>1. CASE f.red
      BY <1>1, <1>4, <1>7, <2>1
    <2>2. CASE ~f.red
      BY <1>1, <1>4, <1>5, <1>7, <2>2
    <2> QED  BY <2>1, <2>2
  <1>8. CASE /\ forge' = [forge EXCEPT ![p] = [merged |-> f.merged, red |-> f.red, asked |-> ~f.asked]]
             /\ happened' = IF f.asked THEN happened ELSE stricter
    <2>1. CASE f.asked
      BY <1>1, <1>4, <1>8, <2>1
    <2>2. CASE ~f.asked
      BY <1>1, <1>4, <1>5, <1>8, <2>2
    <2> QED  BY <2>1, <2>2
  <1> QED  BY <1>3, <1>6, <1>7, <1>8

LEMMA ChangeKeeps ==
  ASSUME Board, NEW p \in Prs, Change(p)
  PROVE  Board'
  <1>1. UNCHANGED <<hidden, rows, order, deleted, adapter, watch, op, backoff, mishaps, cards, news>>
    BY DEF Change
  <1>2. /\ forge' \in [Prs -> Half] /\ happened' \in [Prs -> [red : Nat, asked : Nat]]
        /\ \A q \in Prs \ {p} : forge'[q] = forge[q] /\ happened'[q] = happened[q]
        /\ forge[p].merged => forge'[p].merged
        /\ \/ forge'[p].red = forge[p].red /\ happened'[p].red = happened[p].red
           \/ ~forge'[p].red /\ happened'[p].red = happened[p].red
           \/ ~forge[p].red /\ happened'[p].red = happened[p].red + 1
        /\ \/ forge'[p].asked = forge[p].asked /\ happened'[p].asked = happened[p].asked
           \/ ~forge'[p].asked /\ happened'[p].asked = happened[p].asked
           \/ ~forge[p].asked /\ happened'[p].asked = happened[p].asked + 1
    BY ChangeCases
  <1>3. Shapes' /\ Stages' /\ Watched'
    BY <1>1, <1>2 DEF Board, Shapes, Stages, Watched
  <1>4. Links' /\ Order'
    BY <1>1 DEF Board, Links, Order, Linked
  <1>5. \A q \in Prs : forge[q].merged => forge'[q].merged
    BY <1>2
  <1>6. Answers'
    <2> SUFFICES ASSUME NEW q \in Prs, NEW h \in Half, <<q, h>> \in op.answers
                 PROVE  /\ Linked(q)
                        /\ rows[q].half.merged => h.merged
                        /\ h.merged => forge'[q].merged
                        /\ \A g \in Half : <<q, g>> \in op.answers => g = h
                        /\ <<q, "checks_failed">> \notin op.cards /\ <<q, "changes_requested">> \notin op.cards
      BY <1>1 DEF Answers, Linked
    <2> QED  BY <1>5 DEF Board, Answers
  <1>7. Held'
    BY <1>1, <1>5 DEF Board, Held
  <1>9. Counted'
    <2> SUFFICES ASSUME NEW q \in Prs
        PROVE  /\ cards[q]["checks_failed"] + Pending(q, "checks_failed")
                     + Rise(rows[q].half.red, forge'[q].red) <= happened'[q].red
               /\ cards[q]["changes_requested"] + Pending(q, "changes_requested")
                     + Rise(rows[q].half.asked, forge'[q].asked) <= happened'[q].asked
               /\ \A h \in Half : <<q, h>> \in op.answers =>
                     /\ cards[q]["checks_failed"] + Rise(rows[q].half.red, h.red)
                           + Rise(h.red, forge'[q].red) <= happened'[q].red
                     /\ cards[q]["changes_requested"] + Rise(rows[q].half.asked, h.asked)
                           + Rise(h.asked, forge'[q].asked) <= happened'[q].asked
      BY <1>1 DEF Counted, Pending
    <2>1. CASE q # p
      BY <1>2, <2>1 DEF Board, Counted
    <2>2. CASE q = p
      <3>1. /\ cards[p]["checks_failed"] \in Nat /\ cards[p]["changes_requested"] \in Nat
            /\ happened[p].red \in Nat /\ happened[p].asked \in Nat
        BY Numbers DEF Board
      <3>2. happened'[p].red \in Nat /\ happened'[p].asked \in Nat
        BY <1>2
      <3>3. Pending(p, "checks_failed") \in {0, 1} /\ Pending(p, "changes_requested") \in {0, 1}
        BY DEF Pending
      <3>4. /\ cards[p]["checks_failed"] + Pending(p, "checks_failed") \in Nat
            /\ cards[p]["changes_requested"] + Pending(p, "changes_requested") \in Nat
        BY <3>1, <3>3
      <3>5. \A h \in Half : /\ cards[p]["checks_failed"] + Rise(rows[p].half.red, h.red) \in Nat
                            /\ cards[p]["changes_requested"] + Rise(rows[p].half.asked, h.asked) \in Nat
        BY <3>1 DEF Rise
      <3>9. /\ cards[p]["checks_failed"] + Pending(p, "checks_failed")
                  + Rise(rows[p].half.red, forge[p].red) <= happened[p].red
            /\ cards[p]["changes_requested"] + Pending(p, "changes_requested")
                  + Rise(rows[p].half.asked, forge[p].asked) <= happened[p].asked
        BY DEF Board, Counted
      <3>6. cards[p]["checks_failed"] + Pending(p, "checks_failed")
               + Rise(rows[p].half.red, forge'[p].red) <= happened'[p].red
        BY <1>2, <3>1, <3>2, <3>4, <3>9 DEF Rise
      <3>7. cards[p]["changes_requested"] + Pending(p, "changes_requested")
               + Rise(rows[p].half.asked, forge'[p].asked) <= happened'[p].asked
        BY <1>2, <3>1, <3>2, <3>4, <3>9 DEF Rise
      <3>8. ASSUME NEW h \in Half, <<p, h>> \in op.answers
            PROVE  /\ cards[p]["checks_failed"] + Rise(rows[p].half.red, h.red)
                         + Rise(h.red, forge'[p].red) <= happened'[p].red
                   /\ cards[p]["changes_requested"] + Rise(rows[p].half.asked, h.asked)
                         + Rise(h.asked, forge'[p].asked) <= happened'[p].asked
        <4>1. /\ cards[p]["checks_failed"] + Rise(rows[p].half.red, h.red)
                    + Rise(h.red, forge[p].red) <= happened[p].red
              /\ cards[p]["changes_requested"] + Rise(rows[p].half.asked, h.asked)
                    + Rise(h.asked, forge[p].asked) <= happened[p].asked
          BY <3>8 DEF Board, Counted
        <4>2. cards[p]["checks_failed"] + Rise(rows[p].half.red, h.red)
                 + Rise(h.red, forge'[p].red) <= happened'[p].red
          BY <1>2, <3>1, <3>2, <3>5, <4>1 DEF Rise
        <4>3. cards[p]["changes_requested"] + Rise(rows[p].half.asked, h.asked)
                 + Rise(h.asked, forge'[p].asked) <= happened'[p].asked
          BY <1>2, <3>1, <3>2, <3>5, <4>1 DEF Rise
        <4> QED  BY <4>2, <4>3
      <3> QED  BY <2>2, <3>6, <3>7, <3>8
    <2> QED  BY <2>1, <2>2
  <1> QED  BY <1>3, <1>4, <1>6, <1>7, <1>9 DEF Board

-----------------------------------------------------------------------------
LEMMA BoardStep == Board /\ [Next]_vars => Board'
  <1> SUFFICES ASSUME Board, [Next]_vars PROVE Board'
    OBVIOUS
  <1>1. CASE Linkage
    BY <1>1, ToolUpdateKeeps, MentionKeeps, AdapterComesKeeps, TurnEndsKeeps, AdapterGoesKeeps,
       AdapterForgottenKeeps
       DEF Linkage
  <1>2. CASE PollStep
    BY <1>2, FetchKeeps, ApplyKeeps, TellsKeeps, ToldKeeps DEF PollStep
  <1>3. CASE Poll
    BY <1>2, <1>3, TickKeeps, PrRefreshKeeps, FetchFailsKeeps, ApplyFailsKeeps, TellsKeeps DEF Poll
  <1>4. CASE Surroundings
    BY <1>4, RelaunchKeeps, ChangeKeeps, HideKeeps DEF Surroundings
  <1>5. CASE UNCHANGED vars
    BY <1>5, CalmKeeps DEF vars, Board, Shapes, Stages, Watched, Tale
  <1> QED  BY <1>1, <1>3, <1>4, <1>5 DEF Next

LEMMA AlwaysBoard == Spec => []Board
  BY BoardInit, BoardStep, PTL DEF Spec

-----------------------------------------------------------------------------
(* What it gives.                                                          *)

LEMMA BoardIsNews == Board => CardsAreNews
  <1> SUFFICES ASSUME Board PROVE CardsAreNews
    OBVIOUS
  <1>1. order \in Seq(Prs) /\ DOMAIN order = 1..Len(order)
    BY LenProperties DEF Board, Order
  <1>2. \A p \in Prs : Polled(p) => Linked(p)
    BY <1>1 DEF Board, Order, Polled
  <1>3. \A i, j \in DOMAIN order : order[i] = order[j] => i = j
    BY <1>1 DEF Board, Order
  <1>4. op.at \in {"idle", "fetch", "write"} /\ op.cards \subseteq Prs \X Events
    BY DEF Board, Shapes, Ops
  <1>5. rows \in [Prs -> [thread : Threads \cup {None},
                          proof : {"none", "execute", "other", "left", "gh"}, half : Half]]
    BY DEF Board, Shapes, RowSet, Proofs
  <1>6. watch \in [Threads -> [calls : SUBSET Calls, suspected : BOOLEAN, left : SUBSET Calls]]
    BY DEF Board, Shapes, Watches
  <1>7. TypeOK
    BY <1>2, <1>3, <1>4, <1>5, <1>6 DEF TypeOK, Board, Shapes
  <1>8. AnnouncedOnce
    <2> SUFFICES ASSUME NEW p \in Prs
                 PROVE  /\ cards[p]["opened"] <= 1
                        /\ cards[p]["checks_failed"] <= happened[p].red
                        /\ cards[p]["changes_requested"] <= happened[p].asked
      BY DEF AnnouncedOnce
    <2>1. /\ cards[p]["checks_failed"] \in Nat /\ cards[p]["changes_requested"] \in Nat
          /\ happened[p].red \in Nat /\ happened[p].asked \in Nat
      BY Numbers DEF Board
    <2>2. /\ cards[p]["checks_failed"] + Pending(p, "checks_failed")
                + Rise(rows[p].half.red, forge[p].red) <= happened[p].red
          /\ cards[p]["changes_requested"] + Pending(p, "changes_requested")
                + Rise(rows[p].half.asked, forge[p].asked) <= happened[p].asked
      BY DEF Board, Counted
    <2>3. /\ Pending(p, "checks_failed") \in {0, 1} /\ Pending(p, "changes_requested") \in {0, 1}
          /\ Rise(rows[p].half.red, forge[p].red) \in {0, 1}
          /\ Rise(rows[p].half.asked, forge[p].asked) \in {0, 1}
      BY Rises DEF Pending
    <2>4. cards[p]["opened"] <= 1
      BY DEF Board, Links
    <2> QED  BY <2>1, <2>2, <2>3, <2>4
  <1>9. RedIsTold
    BY IdleFits DEF RedIsTold, Board, Held
  <1> QED  BY <1>7, <1>8, <1>9 DEF CardsAreNews

\* However many threads claim a pull request and whatever is polled twice,
\* fails or is cut short: its card comes once, "checks failed" and "changes
\* requested" no more often than they came about, and no red row goes untold
\* (store link_pr, card::transition, refresh_linked).
THEOREM CardsStayNews == Spec => []CardsAreNews
  BY AlwaysBoard, BoardIsNews, PTL

\* Only what an execute call showed, or gh said, links a pull request, and only
\* one of the thread's own repository, whatever ids the adapters use again
\* (detect.rs, pr_forget_thread).
THEOREM ExecuteProves == Spec => []OnlyExecuteIsProof
  <1>1. Board => OnlyExecuteIsProof
    BY DEF Board, Links, OnlyExecuteIsProof
  <1> QED  BY <1>1, AlwaysBoard, PTL

\* A card is counted when it is told, and only then.
LEMMA OnlyTellsCount ==
  ASSUME Board, [Next]_vars, NEW p \in Prs, NEW e \in Events, cards'[p][e] > cards[p][e]
  PROVE  <<p, e>> \in op.cards
  <1>1. cards \in [Prs -> [Events -> Nat]]
    BY DEF Board, Shapes
  <1>2. ~(cards' = cards)
    BY <1>1
  <1>3. PICK q \in Prs, event \in Events : Tell(q, event)
    <2>1. CASE Linkage
      <3>1. ASSUME NEW t \in Threads, NEW c \in Calls, NEW kind \in {"execute", "other"},
                   NEW declared \in BOOLEAN, NEW shows \in Prs \cup {"create", "nothing"},
                   ToolUpdate(t, c, kind, declared, shows)
            PROVE  FALSE
        BY <1>2, <3>1 DEF ToolUpdate
      <3> QED
        BY <1>2, <2>1, <3>1 DEF Linkage, Mention, AdapterComes, TurnEnds, AdapterGoes, AdapterForgotten, ThreadDelete
    <2>2. CASE PollStep
      BY <1>2, <2>2 DEF PollStep, Fetch, Apply, Told
    <2>3. CASE Poll
      BY <1>2, <2>2, <2>3 DEF Poll, Tick, PrRefresh, FetchFails, ApplyFails, TellFails, BackoffEnds
    <2>4. CASE Surroundings \/ UNCHANGED vars
      BY <1>2, <2>4 DEF Surroundings, Relaunch, Change, Hide, vars
    <2> QED  BY <2>1, <2>3, <2>4 DEF Next
  <1>4. cards' = [cards EXCEPT ![q] = [cards[q] EXCEPT ![event] = cards[q][event] + 1]]
        /\ <<q, event>> \in op.cards
    BY <1>3 DEF Tell, MayTell
  <1>5. q = p /\ event = e
    BY <1>1, <1>4
  <1> QED  BY <1>4, <1>5

\* "A card cannot announce a state the store does not hold": when one is
\* written, the row says the same (refresh_linked).
THEOREM ToldIsHeld == Spec => NothingUnheldIsTold
  <1>1. ASSUME Board, [Next]_vars
        PROVE  [\A p \in Prs :
                  /\ cards'[p]["checks_failed"] > cards[p]["checks_failed"] =>
                        rows[p].half.red /\ ~rows[p].half.merged
                  /\ cards'[p]["changes_requested"] > cards[p]["changes_requested"] =>
                        rows[p].half.asked /\ ~rows[p].half.merged]_vars
    <2>1. "checks_failed" \in Events /\ "changes_requested" \in Events
      BY DEF Events
    <2> QED  BY <1>1, <2>1, OnlyTellsCount DEF Board, Held
  <1> QED  BY <1>1, AlwaysBoard, PTL DEF Spec, NothingUnheldIsTold

=============================================================================
