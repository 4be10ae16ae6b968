---------------------------- MODULE StreamProofs ----------------------------
(***************************************************************************)
(* What the clients of one thread are shown, for any number of updates,    *)
(* asks, losses and restarts, any window and any cap of the log; and what  *)
(* a branch of the thread is made of.                                      *)
(*                                                                         *)
(* An update is in one of three places: drawn, held while a client reads,  *)
(* or on its way in a frame.  The invariants say that the frames before a  *)
(* client (its line) continue what it has, from which the promise follows  *)
(* once nothing is on its way.  For the desktop the line is held and wire  *)
(* together (DeskOK).  For the phone it is the wire, or, while it is away, *)
(* what the log in RAM has after the last number it noted (PhoneInv).      *)
(***************************************************************************)
EXTENDS Branch, SequenceTheorems, FiniteSetTheorems, TLAPS

-----------------------------------------------------------------------------
(* Induction over the numbers up to one.                                   *)

\* A set of naturals that is not empty has a least element.
LEMMA LeastOf ==
    ASSUME NEW k \in Nat, NEW S \in SUBSET (0..k), S # {}
    PROVE  \E n \in S : \A m \in S : n <= m
  <1> DEFINE Upto(n) == {m \in S : m <= n}
             T == {Upto(n) : n \in S}
  <1>1. IsWellFoundedOn(StrictSubsetOrdering(S), FiniteSubsetsOf(S))
    BY FS_StrictSubsetOrderingWellFounded
  <1>2. IsFiniteSet(S)
    <2>1. IsFiniteSet(0..k)
      BY FS_Interval
    <2> QED
      BY <2>1, FS_Subset
  <1>3. T \subseteq FiniteSubsetsOf(S) /\ T # {}
    <2>1. \A n \in S : Upto(n) \subseteq S
      OBVIOUS
    <2>2. \A n \in S : IsFiniteSet(Upto(n))
      BY <1>2, <2>1, FS_Subset
    <2> QED
      BY <2>1, <2>2 DEF FiniteSubsetsOf
  <1> HIDE DEF T
  <1>4. PICK x \in T : \A y \in T : ~ (<<y, x>> \in StrictSubsetOrdering(S))
    BY <1>1, <1>3, WFMin
  <1>5. PICK n \in S : x = Upto(n)
    BY <1>4 DEF T
  <1>6. ASSUME NEW m \in S PROVE n <= m
    <2>1. n \in Nat /\ m \in Nat
      OBVIOUS
    <2>2. CASE m < n
      <3>1. Upto(m) \subseteq Upto(n) /\ n \in Upto(n) /\ n \notin Upto(m)
        <4>1. \A j \in S : j \in Nat
          OBVIOUS
        <4>2. \A j \in S : j <= m => j <= n
          BY <2>1, <2>2, <4>1
        <4>3. n <= n /\ ~(n <= m)
          BY <2>1, <2>2
        <4> QED
          BY <4>2, <4>3
      <3>2. Upto(m) \in T /\ Upto(m) \in SUBSET S /\ Upto(n) \in SUBSET S
        BY DEF T
      <3> HIDE DEF Upto
      <3>3. <<Upto(m), Upto(n)>> \in StrictSubsetOrdering(S)
        BY <3>1, <3>2 DEF StrictSubsetOrdering
      <3> QED
        BY <1>4, <1>5, <3>2, <3>3
    <2> QED
      BY <2>1, <2>2
  <1> QED
    BY <1>6

\* What holds at zero, and after each number it holds at, holds up to the end.
LEMMA UpTo ==
    ASSUME NEW k \in Nat, NEW S, 0 \in S,
           \A n \in 0..k : n \in S /\ n < k => n + 1 \in S
    PROVE  0..k \subseteq S
  <1> SUFFICES ASSUME NEW m \in 0..k, m \notin S PROVE FALSE
    OBVIOUS
  <1>1. PICK n \in (0..k) \ S : \A l \in (0..k) \ S : n <= l
    <2> DEFINE Out == (0..k) \ S
    <2>1. Out \in SUBSET (0..k) /\ Out # {}
      OBVIOUS
    <2> QED
      BY <2>1, LeastOf
  <1>2. n - 1 \in 0..k /\ n - 1 < k
    BY <1>1
  <1>3. n - 1 \in S
    BY <1>1, <1>2
  <1> QED
    BY <1>1, <1>2, <1>3

-----------------------------------------------------------------------------
(* Folds.  A fold takes its steps one after the other: there is a function   *)
(* that gives what it has come to after each, and the last is its value.     *)

\* The four steps that are folded in Stream, by name.
Folded(step, state, frame, seq) ==
    CASE step = "live" -> ApplyLive(state, frame)
      [] step = "screen" -> DrawnOnPhone(state, frame)
      [] step = "apply" -> Apply(state, frame)
      [] OTHER -> IF frame.seq > seq THEN Append(state, frame) ELSE state

\* The function the library's fold is defined by.
Iterates(f, step, base, frames, seq, k) ==
    f = [s \in SUBSET (1..k) |->
            IF s = {} THEN base ELSE Folded(step, f[s \ {Max(s)}], frames[Max(s)], seq)]

\* The greatest of some numbers up to one that is among them.
LEMMA GreatestIs ==
    ASSUME NEW k \in Nat, NEW s \in SUBSET (1..(k + 1)), k + 1 \in s
    PROVE  Max(s) = k + 1
  <1>1. \A y \in s : k + 1 >= y
    OBVIOUS
  <1>2. \E x \in s : \A y \in s : x >= y
    BY <1>1
  <1>3. Max(s) \in s /\ \A y \in s : Max(s) >= y
    BY <1>2 DEF Max
  <1>4. Max(s) \in 1..(k + 1) /\ Max(s) >= k + 1
    BY <1>3
  <1> HIDE DEF Max
  <1> QED
    BY <1>4

\* The function of prefixes that a fold is read off exists for any line.
LEMMA IteratesExist ==
    ASSUME NEW k \in Nat, NEW step, NEW base, NEW frames, NEW seq
    PROVE  \E f : Iterates(f, step, base, frames, seq, k)
  <1> DEFINE S == {n \in 0..k : \E f : Iterates(f, step, base, frames, seq, n)}
  <1>1. 0 \in S
    <2> DEFINE f == [s \in SUBSET (1..0) |-> base]
    <2>1. SUBSET (1..0) = {{}}
      OBVIOUS
    <2>2. f = [s \in SUBSET (1..0) |->
            IF s = {} THEN base ELSE Folded(step, f[s \ {Max(s)}], frames[Max(s)], seq)]
      BY <2>1
    <2> HIDE DEF f
    <2> QED
      BY <2>2 DEF Iterates
  <1>2. ASSUME NEW n \in 0..k, n \in S, n < k PROVE n + 1 \in S
    <2>1. PICK f : Iterates(f, step, base, frames, seq, n)
      BY <1>2
    <2> DEFINE Value(s) == IF s = {} THEN base ELSE Folded(step, f[s \ {Max(s)}], frames[Max(s)], seq)
    <2>2. f = [s \in SUBSET (1..n) |-> Value(s)]
      BY <2>1 DEF Iterates
    <2> DEFINE g == [s \in SUBSET (1..(n + 1)) |->
                        IF n + 1 \in s THEN Folded(step, f[s \ {n + 1}], frames[n + 1], seq)
                        ELSE f[s]]
    <2>3. ASSUME NEW s \in SUBSET (1..(n + 1))
          PROVE  g[s] = IF s = {} THEN base ELSE Folded(step, g[s \ {Max(s)}], frames[Max(s)], seq)
      <3>1. CASE n + 1 \in s
        <4>1. Max(s) = n + 1
          BY <3>1, GreatestIs
        <4>2. s \ {n + 1} \in SUBSET (1..(n + 1)) /\ n + 1 \notin s \ {n + 1} /\ s # {}
          BY <3>1
        <4>3. g[s \ {n + 1}] = f[s \ {n + 1}]
          BY <4>2
        <4>4. g[s] = Folded(step, f[s \ {n + 1}], frames[n + 1], seq)
          BY <3>1
        <4> HIDE DEF g
        <4> QED
          BY <4>1, <4>2, <4>3, <4>4
      <3>2. CASE n + 1 \notin s
        <4>1. s \in SUBSET (1..n)
          BY <3>2
        <4>2. g[s] = f[s]
          BY <3>2
        <4>3. f[s] = Value(s)
          BY <2>2, <4>1
        <4>4. s \ {Max(s)} \in SUBSET (1..(n + 1)) /\ n + 1 \notin s \ {Max(s)}
          <5> DEFINE x == Max(s)
          <5>1. s \ {x} \subseteq s
            OBVIOUS
          <5> HIDE DEF x
          <5>2. s \ {x} \in SUBSET (1..(n + 1)) /\ n + 1 \notin s \ {x}
            BY <3>2, <5>1
          <5> QED
            BY <5>2 DEF x
        <4>5. g[s \ {Max(s)}] = f[s \ {Max(s)}]
          BY <4>4
        <4> HIDE DEF g
        <4> QED
          BY <4>2, <4>3, <4>5
      <3> QED
        BY <3>1, <3>2
    <2>4. DOMAIN g = SUBSET (1..(n + 1))
      OBVIOUS
    <2>5. g = [s \in SUBSET (1..(n + 1)) |-> g[s]]
      OBVIOUS
    <2> HIDE DEF g
    <2>6. g = [s \in SUBSET (1..(n + 1)) |->
                  IF s = {} THEN base ELSE Folded(step, g[s \ {Max(s)}], frames[Max(s)], seq)]
      BY <2>3, <2>5
    <2>7. Iterates(g, step, base, frames, seq, n + 1)
      BY <2>6 DEF Iterates
    <2>8. n + 1 \in 0..k
      BY <1>2
    <2> QED
      BY <2>7, <2>8
  <1> HIDE DEF S
  <1>3. 0..k \subseteq S
    BY <1>1, <1>2, UpTo
  <1> QED
    BY <1>3 DEF S

\* What a fold has come to after each of its steps.
Traces(h, step, base, frames, seq, value) ==
    /\ h[0] = base
    /\ \A n \in 0..Len(frames) :
          n < Len(frames) => h[n + 1] = Folded(step, h[n], frames[n + 1], seq)
    /\ h[Len(frames)] = value

\* An iterate, taken one element at a time, is such a trace.
LEMMA IteratesTrace ==
    ASSUME NEW f, NEW step, NEW base, NEW frames, NEW seq, Len(frames) \in Nat,
           Iterates(f, step, base, frames, seq, Len(frames))
    PROVE  \E h : Traces(h, step, base, frames, seq, f[1..Len(frames)])
  <1> DEFINE k == Len(frames)
             h == [n \in 0..k |-> f[1..n]]
  <1>1. ASSUME NEW s \in SUBSET (1..k)
        PROVE  f[s] = IF s = {} THEN base ELSE Folded(step, f[s \ {Max(s)}], frames[Max(s)], seq)
    BY DEF Iterates
  <1>2. h[0] = base
    <2>1. 1..0 = {} /\ {} \in SUBSET (1..k)
      OBVIOUS
    <2>2. h[0] = f[1..0]
      OBVIOUS
    <2>3. f[{}] = base
      BY <1>1, <2>1
    <2> QED
      BY <2>1, <2>2, <2>3
  <1>3. ASSUME NEW n \in 0..k, n < k
        PROVE  h[n + 1] = Folded(step, h[n], frames[n + 1], seq)
    <2> DEFINE s == 1..(n + 1)
    <2>1. s \in SUBSET (1..k) /\ n + 1 \in s /\ s # {} /\ n \in Nat
      BY <1>3
    <2>2. Max(s) = n + 1
      BY <2>1, GreatestIs
    <2>3. s \ {n + 1} = 1..n
      OBVIOUS
    <2>4. h[n + 1] = f[s] /\ h[n] = f[1..n]
      BY <1>3
    <2> HIDE DEF s, h
    <2>5. f[s] = Folded(step, f[s \ {Max(s)}], frames[Max(s)], seq)
      BY <1>1, <2>1
    <2> QED
      BY <2>2, <2>3, <2>4, <2>5
  <1>4. h[k] = f[1..k]
    OBVIOUS
  <1> HIDE DEF h
  <1> QED
    BY <1>2, <1>3, <1>4 DEF Traces

\* The frames the desktop replays, one at a time.
LEMMA LiveFold ==
    ASSUME NEW base, NEW frames, Len(frames) \in Nat, DOMAIN frames = 1..Len(frames)
    PROVE  \E h : Traces(h, "live", base, frames, 0, FoldLeft(ApplyLive, base, frames))
  <1> DEFINE f == CHOOSE g : Iterates(g, "live", base, frames, 0, Len(frames))
  <1>1. Iterates(f, "live", base, frames, 0, Len(frames))
    BY IteratesExist
  <1>2. \A g : Iterates(g, "live", base, frames, 0, Len(frames)) <=>
           g = [s \in SUBSET DOMAIN frames |->
                   IF s = {} THEN base ELSE ApplyLive(g[s \ {Max(s)}], frames[Max(s)])]
    BY DEF Iterates, Folded
  <1>3. f = CHOOSE g : g = [s \in SUBSET DOMAIN frames |->
                   IF s = {} THEN base ELSE ApplyLive(g[s \ {Max(s)}], frames[Max(s)])]
    BY <1>2
  <1> HIDE DEF f
  <1>4. FoldLeft(ApplyLive, base, frames) = f[DOMAIN frames]
    BY <1>3 DEF FoldLeft, MapThenFoldSet
  <1> QED
    BY <1>1, <1>4, IteratesTrace

\* The frames a phone screen replays, one at a time.
LEMMA ScreenFold ==
    ASSUME NEW base, NEW frames, Len(frames) \in Nat, DOMAIN frames = 1..Len(frames)
    PROVE  \E h : Traces(h, "screen", base, frames, 0, FoldLeft(DrawnOnPhone, base, frames))
  <1> DEFINE f == CHOOSE g : Iterates(g, "screen", base, frames, 0, Len(frames))
  <1>1. Iterates(f, "screen", base, frames, 0, Len(frames))
    BY IteratesExist
  <1>2. \A g : Iterates(g, "screen", base, frames, 0, Len(frames)) <=>
           g = [s \in SUBSET DOMAIN frames |->
                   IF s = {} THEN base ELSE DrawnOnPhone(g[s \ {Max(s)}], frames[Max(s)])]
    BY DEF Iterates, Folded
  <1>3. f = CHOOSE g : g = [s \in SUBSET DOMAIN frames |->
                   IF s = {} THEN base ELSE DrawnOnPhone(g[s \ {Max(s)}], frames[Max(s)])]
    BY <1>2
  <1> HIDE DEF f
  <1>4. FoldLeft(DrawnOnPhone, base, frames) = f[DOMAIN frames]
    BY <1>3 DEF FoldLeft, MapThenFoldSet
  <1> QED
    BY <1>1, <1>4, IteratesTrace

\* The frames a resume brings, one at a time.
LEMMA ApplyFold ==
    ASSUME NEW base, NEW frames, Len(frames) \in Nat, DOMAIN frames = 1..Len(frames)
    PROVE  \E h : Traces(h, "apply", base, frames, 0, FoldLeft(Apply, base, frames))
  <1> DEFINE f == CHOOSE g : Iterates(g, "apply", base, frames, 0, Len(frames))
  <1>1. Iterates(f, "apply", base, frames, 0, Len(frames))
    BY IteratesExist
  <1>2. \A g : Iterates(g, "apply", base, frames, 0, Len(frames)) <=>
           g = [s \in SUBSET DOMAIN frames |->
                   IF s = {} THEN base ELSE Apply(g[s \ {Max(s)}], frames[Max(s)])]
    BY DEF Iterates, Folded
  <1>3. f = CHOOSE g : g = [s \in SUBSET DOMAIN frames |->
                   IF s = {} THEN base ELSE Apply(g[s \ {Max(s)}], frames[Max(s)])]
    BY <1>2
  <1> HIDE DEF f
  <1>4. FoldLeft(Apply, base, frames) = f[DOMAIN frames]
    BY <1>3 DEF FoldLeft, MapThenFoldSet
  <1> QED
    BY <1>1, <1>4, IteratesTrace

\* What a resume keeps of the log, one frame at a time.
LEMMA LaterFold ==
    ASSUME NEW frames, NEW seq, Len(frames) \in Nat, DOMAIN frames = 1..Len(frames)
    PROVE  \E h : Traces(h, "later", <<>>, frames, seq, Later(frames, seq))
  <1> DEFINE f == CHOOSE g : Iterates(g, "later", <<>>, frames, seq, Len(frames))
  <1>1. Iterates(f, "later", <<>>, frames, seq, Len(frames))
    BY IteratesExist
  <1>2. \A g : Iterates(g, "later", <<>>, frames, seq, Len(frames)) <=>
           g = [s \in SUBSET DOMAIN frames |->
                   IF s = {} THEN <<>>
                   ELSE IF frames[Max(s)].seq > seq
                        THEN Append(g[s \ {Max(s)}], frames[Max(s)])
                        ELSE g[s \ {Max(s)}]]
    BY DEF Iterates, Folded
  <1>3. f = CHOOSE g : g = [s \in SUBSET DOMAIN frames |->
                   IF s = {} THEN <<>>
                   ELSE IF frames[Max(s)].seq > seq
                        THEN Append(g[s \ {Max(s)}], frames[Max(s)])
                        ELSE g[s \ {Max(s)}]]
    BY <1>2
  <1> HIDE DEF f
  <1>4. Later(frames, seq) = f[DOMAIN frames]
    BY <1>3 DEF Later, FoldLeft, MapThenFoldSet
  <1> QED
    BY <1>1, <1>4, IteratesTrace
-----------------------------------------------------------------------------
(* The parts of the invariant: what is on disk, and what is on its way.    *)

\* The rows are in the order of saying, and none is ahead of what was said.
LogOK(r, s) ==
    /\ r \in Seq(Texts)
    /\ \A i \in 1..Len(r) : r[i] <= s
    /\ \A i, j \in 1..Len(r) : i < j => r[i] < r[j]

Kinds == {"update", "ask", "resolved"}
Frames == {f \in [seq : Nat, kind : Kinds, id : Texts \cup Asks, row : Nat] :
               IF f.kind = "update" THEN f.id \in Texts ELSE f.id \in Asks /\ f.row = 0}

\* What a frame says is so: its row is the row of its update, its ask was asked,
\* and one that was resolved is settled.
Told(f, r, a, s) ==
    /\ f.kind = "update" =>
          /\ f.id <= s
          /\ f.row = 0 => f.id \notin ToSet(r)
          /\ f.row # 0 => f.row \in 1..Len(r) /\ r[f.row] = f.id
    /\ f.kind # "update" => a[f.id] # "none"
    /\ f.kind = "resolved" => a[f.id] = "settled"

\* Of a line of frames: each is told, and a settled ask on it is resolved further on.
LineOK(l, r, a, s) ==
    /\ l \in Seq(Frames)
    /\ \A i \in 1..Len(l) : Told(l[i], r, a, s)
    /\ \A i \in 1..Len(l) : l[i].kind = "ask" /\ a[l[i].id] = "settled" =>
          \E j \in 1..Len(l) : i < j /\ l[j].kind = "resolved" /\ l[j].id = l[i].id

InTurn(l) ==
    \A i, j \in 1..Len(l) :
        i < j /\ l[i].kind = "update" /\ l[j].kind = "update" => l[i].id < l[j].id

\* After its first n frames the line has a frame for each row past b, and for no other.
Behind(l, n, b, r) ==
    /\ \A k \in 1..Len(r) : b < k => \E i \in 1..Len(l) : n < i /\ l[i].row = k
    /\ \A i \in 1..Len(l) : n < i /\ l[i].row # 0 => b < l[i].row

Furthest(m, n) == IF m < n THEN n ELSE m

\* What is drawn, with what the line still brings after its first n frames.
Draws(d, reached, l, n, r, s) ==
    /\ d \in Seq(Texts) /\ reached \in 0..Len(r)
    /\ \A i \in 1..Len(d) : d[i] <= s
    /\ \A i, j \in 1..Len(d) : d[i] = d[j] => i = j
    /\ \A i, j \in 1..Len(d) : i < j /\ d[i] \in ToSet(r) /\ d[j] \in ToSet(r) => d[i] < d[j]
    /\ \A i \in 1..Len(d), j \in 1..Len(l) :
          d[i] \notin ToSet(r) /\ n < j /\ l[j].kind = "update" => d[i] < l[j].id
    /\ \E b, lo \in 0..Len(r) :
          /\ Behind(l, n, b, r)
          /\ lo <= Furthest(b, reached)
          /\ lo = 0 \/ Furthest(b, reached) - lo >= Window
          /\ \A k \in 1..Len(r) :
                r[k] \in ToSet(d) <=> lo < k /\ k <= Furthest(b, reached)

\* The cards, with what the line still brings.
Tells(shown, locked, l, n, a) ==
    /\ shown \subseteq Asks
    /\ \A x \in locked : a[x] = "settled"
    /\ \A x \in Asks : a[x] = "open" =>
          x \in shown \/ \E i \in 1..Len(l) : n < i /\ l[i].kind = "ask" /\ l[i].id = x
    /\ \A x \in shown :
          /\ a[x] # "none"
          /\ a[x] = "settled" =>
                \E i \in 1..Len(l) : n < i /\ l[i].kind = "resolved" /\ l[i].id = x

TextAnswers == [is : {"answer"}, events : Seq(Texts), head : Nat]
AskAnswers == [is : {"answer"}, open : SUBSET Asks]
Resumes == [is : {"answer"}, head : Nat, events : Seq(Frames)]
Views == [at : {"closed", "reading", "live"},
          reads : [text : {NoAnswer, Error} \cup TextAnswers, asks : {NoAnswer, Error} \cup AskAnswers],
          held : Seq(Frames), drawn : Seq(Texts), reached : Nat,
          shown : SUBSET Asks, locked : SUBSET Asks, error : BOOLEAN]
Screens == [at : {"closed", "reading", "live", "failed"}, read : {NoAnswer} \cup TextAnswers,
            held : Seq(Frames), drawn : Seq(Texts), reached : Nat, cut : BOOLEAN]
States == [heads : Nat \cup {Unheard}, cards : SUBSET Asks, screen : Screens]
Phones == [on : BOOLEAN, handlers : Nat, heads : Nat \cup {Unheard},
           step : {"idle", "refresh", "publish", "resume", "replay"}, resumes : BOOLEAN,
           from : Nat \cup {Unheard}, answer : {NoAnswer} \cup AskAnswers \cup Resumes,
           cards : SUBSET Asks, fresh : BOOLEAN, life : Nat]
Counts == [unsaved : Nat, stops : Nat, drops : Nat, views : [Clients -> Nat]]

Types ==
    /\ who \in Clients \cup {"none"}
    /\ said \in 0..MaxTexts
    /\ asks \in [Asks -> {"none", "open", "settled"}]
    /\ head \in Nat
    /\ log \in Seq(Frames) /\ Len(log) <= Cap
    /\ wire \in [Clients -> Seq(Frames)]
    /\ desk \in Views
    /\ phone \in Phones
    /\ screen \in Screens
    /\ count \in Counts
    /\ phone.step = "publish" => phone.answer \in AskAnswers
    /\ phone.step = "replay" => phone.answer \in Resumes

\* The frames the view has before it: those it holds, and those on their way.
Line == IF desk.at = "reading" THEN desk.held \o wire.desk ELSE wire.desk

DeskOK ==
    /\ desk.at # "closed" \/ wire.desk # <<>> => who = "desk"
    /\ LineOK(Line, rows, asks, said)
    /\ InTurn(Line)
    /\ \E b \in 0..Len(rows) : Behind(Line, 0, b, rows)
    /\ desk.at = "reading" => desk.locked = {}
    /\ desk.at = "reading" /\ desk.reads.text \in TextAnswers =>
          Draws(desk.reads.text.events, desk.reads.text.head, Line, 0, rows, said)
    /\ desk.at = "reading" /\ desk.reads.asks \in AskAnswers =>
          Tells(desk.reads.asks.open, {}, Line, 0, asks)
    /\ desk.at = "live" /\ ~desk.error =>
          /\ Draws(desk.drawn, desk.reached, Line, 0, rows, said)
          /\ Tells(desk.shown, desk.locked, Line, 0, asks)

RowsOK == LogOK(rows, said)
-----------------------------------------------------------------------------
(* The parts of the invariant: the phone.                                  *)

Numbered(l, h) == Len(l) <= h /\ \A i \in 1..Len(l) : l[i].seq = h - Len(l) + i
Agree(k, l) == \A i \in 1..Len(k), j \in 1..Len(l) : k[i].seq = l[j].seq => k[i] = l[j]

\* A screen that has drawn those of the rows: all from one on to the last of the
\* replay, a full answer at least, and none before it.
Opened(drawn, reached, r) ==
    /\ drawn \subseteq ToSet(r) /\ reached \in 0..Len(r)
    /\ \E lo \in 0..reached :
          /\ lo = 0 \/ reached - lo >= Window
          /\ \A k \in 1..Len(r) : r[k] \in drawn => lo < k
          /\ \A k \in 1..reached : lo < k => r[k] \in drawn

\* Each row past the replay is drawn, or on a frame that was sent after a number.
Covers(frames, from, drawn, reached, r) ==
    \A k \in 1..Len(r) : reached < k /\ r[k] \notin drawn => \E f \in frames : f.seq > from /\ f.row = k

ConnectionOK ==
    /\ phone.on => who = "phone" /\ phone.handlers # 0
    /\ ~phone.on => wire.phone = <<>> /\ phone.step = "idle"
    /\ phone.resumes => phone.step # "idle" /\ wire.phone = <<>>
    /\ phone.step \in {"resume", "replay"} =>
          phone.resumes /\ phone.from = phone.heads /\ phone.heads # Unheard
    /\ phone.step = "publish" => phone.answer.open = Pending
    /\ phone.step = "replay" =>
          phone.answer.head = head /\ phone.answer.events = After(phone.from)
    /\ phone.life <= count.stops
    /\ phone.life = count.stops => phone.heads <= head - Len(wire.phone)
NumbersOK ==
    /\ Numbered(log, head) /\ Numbered(wire.phone, head) /\ Agree(log, wire.phone)
    /\ LineOK(log, rows, asks, said) /\ LineOK(wire.phone, rows, asks, said)
CardsOK == phone.on /\ phone.fresh => Tells(phone.cards, {}, wire.phone, 0, asks)
ScreenOK ==
    /\ \A f \in ToSet(screen.held) : Told(f, rows, asks, said)
    /\ screen.at = "reading" => phone.on
    /\ screen.at = "reading" /\ screen.read # NoAnswer =>
          /\ Opened(ToSet(screen.read.events), screen.read.head, rows)
          /\ Covers(ToSet(screen.held) \cup ToSet(wire.phone), Unheard,
                    ToSet(screen.read.events), screen.read.head, rows)
    /\ screen.at = "live" => Opened(ToSet(screen.drawn), screen.reached, rows)
    /\ screen.at = "live" /\ phone.on /\ ~phone.resumes /\ ~screen.cut =>
          Covers(ToSet(wire.phone), Unheard, ToSet(screen.drawn), screen.reached, rows)
    /\ screen.at = "live" /\ (~phone.on \/ phone.resumes) /\ ~screen.cut =>
          (phone.life = count.stops /\ phone.heads # Unheard /\ phone.heads >= head - Len(log) =>
              Covers(ToSet(log), phone.heads, ToSet(screen.drawn), screen.reached, rows))
PhoneInv == ConnectionOK /\ NumbersOK /\ CardsOK /\ ScreenOK
-----------------------------------------------------------------------------
(* One frame, and several: what they leave alone.                          *)

LEMMA FrameFacts ==
    ASSUME NEW f \in Frames
    PROVE  /\ f.seq \in Nat /\ f.kind \in Kinds /\ f.row \in Nat
           /\ f.kind = "update" => f.id \in Texts
           /\ f.kind # "update" => f.id \in Asks /\ f.row = 0
  BY DEF Frames

\* What one frame makes of a view, of what is drawn and of the cards.
Drew(v, f, w) ==
    /\ w \in Views
    /\ w.at = v.at /\ w.reads = v.reads /\ w.held = v.held /\ w.reached = v.reached
    /\ w.error = v.error
    /\ w.drawn = IF f.kind = "update" /\ (f.row = 0 \/ v.reached < f.row)
                 THEN Append(v.drawn, f.id) ELSE v.drawn
    /\ w.shown = IF f.kind = "ask" /\ f.id \notin v.locked THEN v.shown \cup {f.id}
                 ELSE IF f.kind = "resolved" THEN v.shown \ {f.id} ELSE v.shown
    /\ w.locked = IF f.kind = "resolved" /\ f.id \in v.shown THEN v.locked \cup {f.id}
                  ELSE v.locked

LEMMA LiveStep ==
    ASSUME NEW v \in Views, NEW f \in Frames, NEW w, w = ApplyLive(v, f)
    PROVE  Drew(v, f, w)
  <1> SUFFICES
        /\ w \in Views
        /\ w.at = v.at /\ w.reads = v.reads /\ w.held = v.held /\ w.reached = v.reached
        /\ w.error = v.error
        /\ w.drawn = IF f.kind = "update" /\ (f.row = 0 \/ v.reached < f.row)
                     THEN Append(v.drawn, f.id) ELSE v.drawn
        /\ w.shown = IF f.kind = "ask" /\ f.id \notin v.locked THEN v.shown \cup {f.id}
                     ELSE IF f.kind = "resolved" THEN v.shown \ {f.id} ELSE v.shown
        /\ w.locked = IF f.kind = "resolved" /\ f.id \in v.shown THEN v.locked \cup {f.id}
                      ELSE v.locked
    BY DEF Drew
  <1>1. f.kind \in Kinds /\ f.row \in Nat /\ (f.kind = "update" => f.id \in Texts)
        /\ (f.kind # "update" => f.id \in Asks)
    BY FrameFacts
  <1>2. CASE f.kind = "update"
    <2>1. w = Drawn(v, f)
      BY <1>2 DEF ApplyLive
    <2>2. Append(v.drawn, f.id) \in Seq(Texts) /\ v.reached \in Nat
      BY <1>1, <1>2 DEF Views
    <2>3. CASE f.row # 0 /\ f.row <= v.reached
      <3>1. w = v
        BY <2>1, <2>3 DEF Drawn
      <3> QED
        BY <1>1, <1>2, <2>2, <2>3, <3>1
    <2>4. CASE ~(f.row # 0 /\ f.row <= v.reached)
      <3>1. w = [v EXCEPT !.drawn = Append(@, f.id)]
        BY <2>1, <2>4 DEF Drawn
      <3>2. w \in Views
        BY <2>2, <3>1 DEF Views
      <3>3. /\ w.at = v.at /\ w.reads = v.reads /\ w.held = v.held /\ w.reached = v.reached
            /\ w.error = v.error /\ w.drawn = Append(v.drawn, f.id)
            /\ w.shown = v.shown /\ w.locked = v.locked
        BY <3>1 DEF Views
      <3> QED
        BY <1>1, <1>2, <2>2, <2>4, <3>2, <3>3
    <2> QED
      BY <2>3, <2>4
  <1>3. CASE f.kind = "ask"
    <2>1. CASE f.id \in v.locked
      <3>1. w = v
        BY <1>3, <2>1 DEF ApplyLive
      <3> QED
        BY <1>3, <2>1, <3>1
    <2>2. CASE f.id \notin v.locked
      <3> DEFINE shown == v.shown \cup {f.id}
      <3>1. w = [v EXCEPT !.shown = shown]
        BY <1>3, <2>2 DEF ApplyLive
      <3>2. w \in Views
        <4>1. shown \in SUBSET Asks
          BY <1>1, <1>3 DEF Views
        <4> HIDE DEF shown
        <4> QED
          BY <3>1, <4>1 DEF Views
      <3>3. /\ w.at = v.at /\ w.reads = v.reads /\ w.held = v.held /\ w.reached = v.reached
            /\ w.error = v.error /\ w.drawn = v.drawn
            /\ w.shown = v.shown \cup {f.id} /\ w.locked = v.locked
        BY <3>1 DEF Views
      <3> QED
        BY <1>3, <2>2, <3>2, <3>3
    <2> QED
      BY <2>1, <2>2
  <1>4. CASE f.kind = "resolved"
    <2>1. CASE f.id \notin v.shown
      <3>1. w = v
        BY <1>4, <2>1 DEF ApplyLive
      <3>2. v.shown \ {f.id} = v.shown
        BY <2>1
      <3> QED
        BY <1>4, <2>1, <3>1, <3>2
    <2>2. CASE f.id \in v.shown
      <3> DEFINE shown == v.shown \ {f.id}
                 locked == v.locked \cup {f.id}
      <3>1. w = [v EXCEPT !.shown = shown, !.locked = locked]
        BY <1>4, <2>2 DEF ApplyLive
      <3>2. shown \in SUBSET Asks /\ locked \in SUBSET Asks
        BY <1>1, <1>4 DEF Views
      <3>3. w \in Views
        <4> HIDE DEF shown, locked
        <4> QED
          BY <3>1, <3>2 DEF Views
      <3>4. /\ w.at = v.at /\ w.reads = v.reads /\ w.held = v.held /\ w.reached = v.reached
            /\ w.error = v.error /\ w.drawn = v.drawn
            /\ w.shown = v.shown \ {f.id} /\ w.locked = v.locked \cup {f.id}
        BY <3>1 DEF Views
      <3> QED
        BY <1>4, <2>2, <3>3, <3>4
    <2> QED
      BY <2>1, <2>2
  <1> QED
    BY <1>1, <1>2, <1>3, <1>4 DEF Kinds

\* A step of the phone's screen.
LEMMA ScreenStep ==
    ASSUME NEW v \in Screens, NEW f \in Frames, NEW w, w = DrawnOnPhone(v, f)
    PROVE  /\ w \in Screens
           /\ w.at = v.at /\ w.read = v.read /\ w.held = v.held /\ w.reached = v.reached
           /\ w.cut = v.cut
           /\ w.drawn = IF f.row <= v.reached THEN v.drawn ELSE Append(v.drawn, f.id)
  <1>1. f.row \in Nat /\ (f.row # 0 => f.id \in Texts)
    BY FrameFacts
  <1>2. CASE f.row <= v.reached
    BY <1>2 DEF DrawnOnPhone
  <1>3. CASE ~(f.row <= v.reached)
    <2>0. f.row # 0
      BY <1>1, <1>3 DEF Screens
    <2>1. w = [v EXCEPT !.drawn = Append(@, f.id)]
      BY <1>3 DEF DrawnOnPhone
    <2>2. Append(v.drawn, f.id) \in Seq(Texts)
      BY <1>1, <2>0 DEF Screens
    <2>3. w \in Screens
      BY <2>1, <2>2 DEF Screens
    <2>4. /\ w.at = v.at /\ w.read = v.read /\ w.held = v.held /\ w.reached = v.reached
          /\ w.cut = v.cut /\ w.drawn = Append(v.drawn, f.id)
      BY <2>1 DEF Screens
    <2> QED
      BY <1>3, <2>3, <2>4
  <1> QED
    BY <1>2, <1>3

\* What the screen becomes when its thread's watcher hears a frame.
LEMMA WatchedStep ==
    ASSUME NEW v \in Screens, NEW f \in Frames, NEW w, w = Watched(v, f)
    PROVE  /\ w \in Screens
           /\ w.at = v.at /\ w.read = v.read /\ w.reached = v.reached /\ w.cut = v.cut
           /\ w.held = IF f.kind = "update" /\ v.at = "reading" THEN Append(v.held, f) ELSE v.held
           /\ w.drawn = IF f.kind = "update" /\ v.at = "live" /\ ~(f.row <= v.reached)
                        THEN Append(v.drawn, f.id) ELSE v.drawn
  <1>0. v.at \in {"closed", "reading", "live", "failed"}
    BY DEF Screens
  <1>1. CASE f.kind # "update" \/ v.at \in {"closed", "failed"}
    BY <1>1 DEF Watched
  <1>2. CASE f.kind = "update" /\ v.at = "reading"
    <2>1. w = [v EXCEPT !.held = Append(@, f)]
      BY <1>2 DEF Watched
    <2>2. Append(v.held, f) \in Seq(Frames)
      BY DEF Screens
    <2>3. w \in Screens
      BY <2>1, <2>2 DEF Screens
    <2>4. /\ w.at = v.at /\ w.read = v.read /\ w.held = Append(v.held, f)
          /\ w.reached = v.reached /\ w.cut = v.cut /\ w.drawn = v.drawn
      BY <2>1 DEF Screens
    <2> QED
      BY <1>2, <2>3, <2>4
  <1>3. CASE f.kind = "update" /\ v.at = "live"
    <2>1. w = DrawnOnPhone(v, f)
      BY <1>3 DEF Watched
    <2> HIDE DEF Screens, Frames
    <2>2. /\ w \in Screens
          /\ w.at = v.at /\ w.read = v.read /\ w.held = v.held /\ w.reached = v.reached
          /\ w.cut = v.cut
          /\ w.drawn = IF f.row <= v.reached THEN v.drawn ELSE Append(v.drawn, f.id)
      BY <1>3, <2>1, ScreenStep
    <2> QED
      BY <1>3, <2>2
  <1> QED
    BY <1>0, <1>1, <1>2, <1>3

\* And the phone.
LEMMA ApplyStep ==
    ASSUME NEW v \in States, NEW f \in Frames, NEW w, w = Apply(v, f)
    PROVE  /\ w \in States
           /\ w.heads = IF f.seq > v.heads THEN f.seq ELSE v.heads
           /\ w.cards = IF f.kind = "ask" THEN v.cards \cup {f.id}
                        ELSE IF f.kind = "resolved" THEN v.cards \ {f.id} ELSE v.cards
           /\ w.screen = Watched(v.screen, f)
  <1>1. f.seq \in Nat /\ f.kind \in Kinds /\ (f.kind # "update" => f.id \in Asks)
    BY FrameFacts
  <1>2. v.screen \in Screens /\ v.cards \in SUBSET Asks /\ v.heads \in Nat \cup {Unheard}
    BY DEF States
  <1>3. w = [v EXCEPT !.heads = Note(@, f), !.cards = Carded(@, f), !.screen = Watched(@, f)]
    BY DEF Apply
  <1>4. w.heads = Note(v.heads, f) /\ w.cards = Carded(v.cards, f) /\ w.screen = Watched(v.screen, f)
    BY <1>3 DEF States
  <1>5. Note(v.heads, f) \in Nat \cup {Unheard}
    BY <1>1, <1>2 DEF Note
  <1>6. Carded(v.cards, f) = IF f.kind = "ask" THEN v.cards \cup {f.id}
                        ELSE IF f.kind = "resolved" THEN v.cards \ {f.id} ELSE v.cards
    BY <1>1 DEF Carded, Kinds
  <1>7. Carded(v.cards, f) \in SUBSET Asks
    BY <1>1, <1>2, <1>6
  <1>8. Watched(v.screen, f) \in Screens
    BY <1>2, WatchedStep
  <1>9. w \in States
    BY <1>3, <1>5, <1>7, <1>8 DEF States
  <1> QED
    BY <1>4, <1>6, <1>9 DEF Note

LEMMA LiveFoldType ==
    ASSUME NEW v \in Views, NEW l \in Seq(Frames)
    PROVE  FoldLeft(ApplyLive, v, l) \in Views
  <1>1. Len(l) \in Nat /\ DOMAIN l = 1..Len(l)
    OBVIOUS
  <1>2. PICK h : Traces(h, "live", v, l, 0, FoldLeft(ApplyLive, v, l))
    BY <1>1, LiveFold
  <1> DEFINE S == {n \in 0..Len(l) : h[n] \in Views}
  <1>3. 0 \in S
    BY <1>1, <1>2 DEF Traces
  <1>4. ASSUME NEW n \in 0..Len(l), n \in S, n < Len(l) PROVE n + 1 \in S
    <2>1. h[n + 1] = ApplyLive(h[n], l[n + 1])
      BY <1>2, <1>4 DEF Traces, Folded
    <2>2. l[n + 1] \in Frames /\ n + 1 \in 0..Len(l)
      BY <1>1, <1>4
    <2>3. h[n + 1] \in Views
      BY <1>4, <2>1, <2>2, LiveStep DEF Drew
    <2> QED
      BY <2>2, <2>3
  <1> HIDE DEF S
  <1>5. 0..Len(l) \subseteq S
    BY <1>1, <1>3, <1>4, UpTo
  <1> QED
    BY <1>1, <1>2, <1>5 DEF S, Traces

LEMMA ScreenFoldType ==
    ASSUME NEW v \in Screens, NEW l \in Seq(Frames)
    PROVE  FoldLeft(DrawnOnPhone, v, l) \in Screens
  <1>1. Len(l) \in Nat /\ DOMAIN l = 1..Len(l)
    OBVIOUS
  <1>2. PICK h : Traces(h, "screen", v, l, 0, FoldLeft(DrawnOnPhone, v, l))
    BY <1>1, ScreenFold
  <1> DEFINE S == {n \in 0..Len(l) : h[n] \in Screens}
  <1>3. 0 \in S
    BY <1>1, <1>2 DEF Traces
  <1>4. ASSUME NEW n \in 0..Len(l), n \in S, n < Len(l) PROVE n + 1 \in S
    <2>1. h[n + 1] = DrawnOnPhone(h[n], l[n + 1])
      BY <1>2, <1>4 DEF Traces, Folded
    <2>2. l[n + 1] \in Frames /\ n + 1 \in 0..Len(l)
      BY <1>1, <1>4
    <2>3. h[n + 1] \in Screens
      BY <1>4, <2>1, <2>2, ScreenStep
    <2> QED
      BY <2>2, <2>3
  <1> HIDE DEF S
  <1>5. 0..Len(l) \subseteq S
    BY <1>1, <1>3, <1>4, UpTo
  <1> QED
    BY <1>1, <1>2, <1>5 DEF S, Traces

LEMMA ApplyFoldType ==
    ASSUME NEW v \in States, NEW l, Len(l) \in Nat, DOMAIN l = 1..Len(l),
           \A i \in 1..Len(l) : l[i] \in Frames
    PROVE  FoldLeft(Apply, v, l) \in States
  <1>2. PICK h : Traces(h, "apply", v, l, 0, FoldLeft(Apply, v, l))
    BY ApplyFold
  <1> DEFINE S == {n \in 0..Len(l) : h[n] \in States}
  <1>3. 0 \in S
    BY <1>2 DEF Traces
  <1>4. ASSUME NEW n \in 0..Len(l), n \in S, n < Len(l) PROVE n + 1 \in S
    <2>1. h[n + 1] = Apply(h[n], l[n + 1])
      BY <1>2, <1>4 DEF Traces, Folded
    <2>2. l[n + 1] \in Frames /\ n + 1 \in 0..Len(l)
      BY <1>4
    <2>3. h[n + 1] \in States
      BY <1>4, <2>1, <2>2, ApplyStep
    <2> QED
      BY <2>2, <2>3
  <1> HIDE DEF S
  <1>5. 0..Len(l) \subseteq S
    BY <1>3, <1>4, UpTo
  <1> QED
    BY <1>2, <1>5 DEF S, Traces

\* What is later than a number is of the frames.
LEMMA LaterType ==
    ASSUME NEW l \in Seq(Frames), NEW seq
    PROVE  Later(l, seq) \in Seq(Frames)
  <1>1. Len(l) \in Nat /\ DOMAIN l = 1..Len(l)
    OBVIOUS
  <1>2. PICK h : Traces(h, "later", <<>>, l, seq, Later(l, seq))
    BY <1>1, LaterFold
  <1> DEFINE S == {n \in 0..Len(l) : h[n] \in Seq(Frames)}
  <1>3. 0 \in S
    <2>1. h[0] = <<>>
      BY <1>2 DEF Traces
    <2>2. <<>> \in Seq(Frames)
      OBVIOUS
    <2>3. h[0] \in Seq(Frames)
      BY <2>1, <2>2, Zenon
    <2>4. 0 \in 0..Len(l)
      BY <1>1
    <2> QED
      BY <2>3, <2>4, Zenon
  <1>4. ASSUME NEW n \in 0..Len(l), n \in S, n < Len(l) PROVE n + 1 \in S
    <2>1. h[n + 1] = IF l[n + 1].seq > seq THEN Append(h[n], l[n + 1]) ELSE h[n]
      BY <1>2, <1>4 DEF Traces, Folded
    <2>2. l[n + 1] \in Frames /\ n + 1 \in 0..Len(l)
      BY <1>1, <1>4
    <2>3. h[n + 1] \in Seq(Frames)
      BY <1>4, <2>1, <2>2
    <2> QED
      BY <2>2, <2>3
  <1> HIDE DEF S
  <1>5. 0..Len(l) \subseteq S
    BY <1>1, <1>3, <1>4, UpTo
  <1> QED
    BY <1>1, <1>2, <1>5 DEF S, Traces
-----------------------------------------------------------------------------
(* Types: the host and the desktop.                                        *)

\* What the host sends is a frame, kept by the log up to its cap.
LEMMA NotifyType ==
    ASSUME Types, NEW kind \in Kinds, NEW id, NEW row \in Nat,
           IF kind = "update" THEN id \in Texts ELSE id \in Asks /\ row = 0,
           Notify(kind, id, row)
    PROVE  /\ head' \in Nat /\ log' \in Seq(Frames) /\ Len(log') <= Cap
           /\ wire' \in [Clients -> Seq(Frames)]
  <1> DEFINE frame == [seq |-> head + 1, kind |-> kind, id |-> id, row |-> row]
  <1>1. head + 1 \in Nat /\ head' = head + 1 /\ log' = Capped(Append(log, frame))
        /\ wire' = [c \in Clients |-> IF c = who /\ Listens(c) THEN Append(wire[c], frame)
                                      ELSE wire[c]]
    BY DEF Types, Notify
  <1>2. frame \in Frames
    BY <1>1 DEF Frames
  <1>3. Cap \in Nat \ {0} /\ log \in Seq(Frames) /\ Len(log) <= Cap /\ wire \in [Clients -> Seq(Frames)]
    BY StreamAssumption DEF Types
  <1> HIDE DEF frame, Frames
  <1>4. Append(log, frame) \in Seq(Frames) /\ Len(Append(log, frame)) = Len(log) + 1 /\ Len(log) \in Nat
    BY <1>2, <1>3
  <1>5. log' \in Seq(Frames) /\ Len(log') <= Cap
    <2>1. CASE Len(Append(log, frame)) > Cap
      <3> DEFINE longer == Append(log, frame)
      <3>1. longer \in Seq(Frames) /\ Len(longer) \in Nat /\ longer # <<>> /\ Len(longer) <= Cap + 1
        BY <1>2, <1>3, <1>4
      <3>2. log' = Tail(longer)
        BY <1>1, <2>1 DEF Capped
      <3> HIDE DEF longer
      <3>3. Tail(longer) \in Seq(Frames) /\ Len(Tail(longer)) = Len(longer) - 1
        BY <3>1
      <3> QED
        BY <1>3, <3>1, <3>2, <3>3
    <2>2. CASE ~(Len(Append(log, frame)) > Cap)
      BY <1>1, <1>3, <1>4, <2>2 DEF Capped
    <2> QED
      BY <2>1, <2>2
  <1>6. \A c \in Clients : wire[c] \in Seq(Frames) /\ Append(wire[c], frame) \in Seq(Frames)
    BY <1>2, <1>3
  <1>7. wire' \in [Clients -> Seq(Frames)]
    BY <1>1, <1>6
  <1> QED
    BY <1>1, <1>5, <1>7

LEMMA InitTypes == Init => Types
  <1> SUFFICES ASSUME Init PROVE Types
    OBVIOUS
  <1>0. StreamAssumption
    BY StreamAssumption
  <1>1. {Cap, Window} \subseteq Nat \ {0} /\ MaxTexts \in Nat
    BY StreamAssumption
  <1>2. <<>> \in Seq(Frames) /\ <<>> \in Seq(Texts) /\ Len(<<>>) = 0
    OBVIOUS
  <1>3. NoAnswer \in {NoAnswer}
    OBVIOUS
  <1> DEFINE n == NoAnswer
  <1>4. desk = [at |-> "closed", reads |-> [text |-> n, asks |-> n], held |-> <<>>,
           drawn |-> <<>>, reached |-> 0, shown |-> {}, locked |-> {}, error |-> FALSE]
    BY DEF Init, NoView
  <1>5. screen = [at |-> "closed", read |-> n, held |-> <<>>, drawn |-> <<>>,
             reached |-> 0, cut |-> FALSE]
    BY DEF Init, NoScreen
  <1>6. phone = [on |-> FALSE, handlers |-> 0, heads |-> Unheard, step |-> "idle",
                resumes |-> FALSE, from |-> Unheard, answer |-> n, cards |-> {},
                fresh |-> FALSE, life |-> 0]
    BY DEF Init
  <1> HIDE DEF n, Frames
  <1>8. n = NoAnswer
    BY DEF n
  <1>9. desk \in Views
    BY <1>2, <1>4, <1>8 DEF Views
  <1>10. screen \in Screens
    BY <1>2, <1>5, <1>8 DEF Screens
  <1>11. phone \in Phones /\ phone.step = "idle"
    BY <1>6, <1>8 DEF Phones
  <1>12. count \in Counts
    BY DEF Init, Counts
  <1>13. wire \in [Clients -> Seq(Frames)]
    BY <1>2 DEF Init
  <1> QED
    BY <1>1, <1>2, <1>9, <1>10, <1>11, <1>12, <1>13 DEF Init, Types

LEMMA CountsType ==
    ASSUME count \in Counts
    PROVE  /\ [count EXCEPT !.unsaved = @ + 1] \in Counts /\ [count EXCEPT !.stops = @ + 1] \in Counts
           /\ [count EXCEPT !.drops = @ + 1] \in Counts
           /\ [count EXCEPT !.views.desk = @ + 1] \in Counts
           /\ [count EXCEPT !.views.phone = @ + 1] \in Counts
  BY DEF Counts, Clients

LEMMA NewestType ==
    ASSUME NEW r \in Seq(Texts)
    PROVE  Newest(r) \in Seq(Texts)
  <1> DEFINE m == IF Len(r) > Window THEN Len(r) - Window + 1 ELSE 1
  <1>1. Window \in Nat \ {0} /\ Len(r) \in Nat
    BY StreamAssumption
  <1>2. m \in 1..Len(r) \/ m > Len(r)
    BY <1>1
  <1>3. m \in Nat /\ m >= 1
    BY <1>1
  <1>4. Newest(r) = SubSeq(r, m, Len(r))
    BY DEF Newest
  <1> HIDE DEF m
  <1>5. \A i \in m..Len(r) : r[i] \in Texts
    BY <1>1, <1>3
  <1> QED
    BY <1>1, <1>3, <1>4, <1>5, SubSeqProperties

LEMMA UpdateType ==
    ASSUME Types, RowsOK, Update
    PROVE  Types'
  <1>1. said \in 0..MaxTexts /\ said < MaxTexts /\ said' = said + 1 /\ said + 1 \in Texts
        /\ MaxTexts \in Nat
    BY StreamAssumption DEF Update, Types, Texts
  <1>2. Len(rows) + 1 \in Nat /\ "update" \in Kinds /\ 0 \in Nat
    BY DEF RowsOK, LogOK, Kinds
  <1>3. Notify("update", said + 1, Len(rows) + 1) \/ Notify("update", said + 1, 0)
    BY DEF Update
  <1>4. head' \in Nat /\ log' \in Seq(Frames) /\ Len(log') <= Cap /\ wire' \in [Clients -> Seq(Frames)]
    BY <1>1, <1>2, <1>3, NotifyType
  <1>5. count' \in Counts
    BY CountsType DEF Types, Update
  <1>6. /\ UNCHANGED <<who, asks, desk, phone, screen>>
    BY DEF Update
  <1> QED
    BY <1>1, <1>4, <1>5, <1>6 DEF Types

LEMMA AskType ==
    ASSUME Types, RowsOK, NEW a \in Asks, Ask(a)
    PROVE  Types'
  <1>1. "ask" \in Kinds /\ 0 \in Nat /\ Notify("ask", a, 0)
    BY DEF Ask, Kinds
  <1>2. head' \in Nat /\ log' \in Seq(Frames) /\ Len(log') <= Cap /\ wire' \in [Clients -> Seq(Frames)]
    BY <1>1, NotifyType
  <1>3. asks' \in [Asks -> {"none", "open", "settled"}]
    BY DEF Ask, Types
  <1>4. UNCHANGED <<who, said, desk, phone, screen, count>>
    BY DEF Ask
  <1> QED
    BY <1>2, <1>3, <1>4 DEF Types

LEMMA ResolveType ==
    ASSUME Types, RowsOK, NEW a \in Asks, Resolve(a)
    PROVE  Types'
  <1>1. "resolved" \in Kinds /\ 0 \in Nat /\ Notify("resolved", a, 0)
    BY DEF Resolve, Kinds
  <1>2. head' \in Nat /\ log' \in Seq(Frames) /\ Len(log') <= Cap /\ wire' \in [Clients -> Seq(Frames)]
    BY <1>1, NotifyType
  <1>3. asks' \in [Asks -> {"none", "open", "settled"}]
    BY DEF Resolve, Types
  <1>4. UNCHANGED <<who, said, desk, phone, screen, count>>
    BY DEF Resolve
  <1> QED
    BY <1>2, <1>3, <1>4 DEF Types

LEMMA NoViewType == NoView \in Views /\ NoScreen \in Screens
  <1> DEFINE n == NoAnswer
  <1>1. <<>> \in Seq(Frames) /\ <<>> \in Seq(Texts)
    OBVIOUS
  <1>2. NoView = [at |-> "closed", reads |-> [text |-> n, asks |-> n], held |-> <<>>,
           drawn |-> <<>>, reached |-> 0, shown |-> {}, locked |-> {}, error |-> FALSE]
    BY DEF NoView
  <1>3. NoScreen = [at |-> "closed", read |-> n, held |-> <<>>, drawn |-> <<>>,
             reached |-> 0, cut |-> FALSE]
    BY DEF NoScreen
  <1> HIDE DEF n, Frames
  <1>4. n = NoAnswer
    BY DEF n
  <1> QED
    BY <1>1, <1>2, <1>3, <1>4 DEF Views, Screens

LEMMA DeskType ==
    ASSUME Types, desk' \in Views, UNCHANGED <<who, asks, said, head, log, wire, phone, screen>>,
           count' \in Counts
    PROVE  Types'
  BY DEF Types

LEMMA OpenType ==
    ASSUME Types, Open
    PROVE  Types'
  <1>1. desk' \in Views
    <2>1. desk' = [NoView EXCEPT !.at = "reading"]
      BY DEF Open
    <2> QED
      BY <2>1, NoViewType DEF Views
  <1>2. count' \in Counts
    BY CountsType DEF Types, Open
  <1> QED
    BY <1>1, <1>2, DeskType DEF Open

LEMMA CloseType ==
    ASSUME Types, Close
    PROVE  Types'
  <1>1. desk' \in Views
    BY NoViewType DEF Close
  <1>2. count' \in Counts
    BY DEF Types, Close
  <1> QED
    BY <1>1, <1>2, DeskType DEF Close

LEMMA TranscriptType == RowsOK => Transcript \in TextAnswers
  BY NewestType DEF RowsOK, LogOK, Transcript, TextAnswers

LEMMA PendingType == PermissionPending \in AskAnswers
  BY DEF PermissionPending, AskAnswers, Pending

LEMMA ReadsType ==
    ASSUME Types, RowsOK, ReadTranscript \/ ReadPending
    PROVE  Types'
  <1>1. desk' \in Views
    <2>1. CASE ReadTranscript
      <3> DEFINE t == Transcript
                 e == Error
      <3>1. t \in TextAnswers
        BY TranscriptType
      <3>2. desk' \in {[desk EXCEPT !.reads["text"] = t], [desk EXCEPT !.reads["text"] = e]}
        BY <2>1 DEF ReadTranscript, Reads
      <3>3. desk \in Views /\ e \in {NoAnswer, Error}
        BY DEF Types
      <3> HIDE DEF t, e
      <3> QED
        BY <3>1, <3>2, <3>3 DEF Views
    <2>2. CASE ReadPending
      <3> DEFINE t == PermissionPending
                 e == Error
      <3>1. t \in AskAnswers
        BY PendingType
      <3>2. desk' \in {[desk EXCEPT !.reads["asks"] = t], [desk EXCEPT !.reads["asks"] = e]}
        BY <2>2 DEF ReadPending, Reads
      <3>3. desk \in Views /\ e \in {NoAnswer, Error}
        BY DEF Types
      <3> HIDE DEF t, e
      <3> QED
        BY <3>1, <3>2, <3>3 DEF Views
    <2> QED
      BY <2>1, <2>2
  <1>2. UNCHANGED <<who, asks, said, head, log, wire, phone, screen, count>>
    BY DEF ReadTranscript, ReadPending, Reads
  <1>3. count' \in Counts
    BY <1>2 DEF Types
  <1> QED
    BY <1>1, <1>2, <1>3, DeskType

\* What the view is before the frames it holds are applied.
Answered == Replayed(desk, desk.reads.text,
                     IF desk.reads.asks = Error THEN {} ELSE desk.reads.asks.open)

\* What the desktop draws of its two answers, before it replays what it held.
LEMMA AnsweredIs ==
    ASSUME Types, Hydrate
    PROVE  /\ desk.at = "reading" /\ desk.reads.text \in TextAnswers
           /\ desk.reads.asks = Error \/ desk.reads.asks \in AskAnswers
           /\ Answered \in Views
           /\ Answered.drawn = desk.reads.text.events /\ Answered.reached = desk.reads.text.head
           /\ Answered.shown = (IF desk.reads.asks = Error THEN {} ELSE desk.reads.asks.open)
           /\ Answered.locked = desk.locked
           /\ desk' = [FoldLeft(ApplyLive, Answered, desk.held) EXCEPT
                      !.at = "live", !.held = <<>>, !.error = desk.reads.asks = Error]
           /\ UNCHANGED <<who, rows, asks, said, head, log, wire, phone, screen, count>>
  <1>1. desk \in Views /\ desk.at = "reading" /\ desk.reads.text.is = "answer" /\ desk.reads.asks # NoAnswer
    BY DEF Types, Hydrate
  <1>2. desk.reads.text \in {NoAnswer, Error} \cup TextAnswers
        /\ desk.reads.asks \in {NoAnswer, Error} \cup AskAnswers
    BY <1>1 DEF Views
  <1>3. desk.reads.text \in TextAnswers
    BY <1>1, <1>2 DEF NoAnswer, Error
  <1>4. desk.reads.asks = Error \/ desk.reads.asks \in AskAnswers
    BY <1>1, <1>2
  <1>5. desk.reads.text.events \in Seq(Texts) /\ desk.reads.text.head \in Nat
    BY <1>3 DEF TextAnswers
  <1> DEFINE open == IF desk.reads.asks = Error THEN {} ELSE desk.reads.asks.open
  <1>6. open \in SUBSET Asks
    BY <1>4 DEF AskAnswers
  <1>7. Answered = [desk EXCEPT !.drawn = desk.reads.text.events, !.reached = desk.reads.text.head,
                                !.shown = open]
    BY DEF Answered, Replayed
  <1>8. desk' = [FoldLeft(ApplyLive, Answered, desk.held) EXCEPT
                      !.at = "live", !.held = <<>>, !.error = desk.reads.asks = Error]
        /\ UNCHANGED <<who, rows, asks, said, head, log, wire, phone, screen, count>>
    BY DEF Hydrate, Answered
  <1> HIDE DEF open
  <1>9. Answered \in Views /\ Answered.drawn = desk.reads.text.events
        /\ Answered.reached = desk.reads.text.head /\ Answered.shown = open
        /\ Answered.locked = desk.locked
    BY <1>1, <1>5, <1>6, <1>7 DEF Views
  <1> QED
    BY <1>1, <1>3, <1>4, <1>8, <1>9 DEF open

LEMMA HydrateType ==
    ASSUME Types, Hydrate
    PROVE  Types'
  <1>1. Answered \in Views /\ desk.held \in Seq(Frames)
    BY AnsweredIs DEF Types, Views
  <1> DEFINE folded == FoldLeft(ApplyLive, Answered, desk.held)
             failed == desk.reads.asks = Error
  <1>2. folded \in Views
    BY <1>1, LiveFoldType
  <1>3. desk' = [folded EXCEPT !.at = "live", !.held = <<>>, !.error = failed]
        /\ UNCHANGED <<who, rows, asks, said, head, log, wire, phone, screen, count>>
    BY AnsweredIs
  <1>4. failed \in BOOLEAN /\ <<>> \in Seq(Frames)
    OBVIOUS
  <1> HIDE DEF folded, failed, Frames
  <1>5. desk' \in Views
    BY <1>2, <1>3, <1>4 DEF Views
  <1>6. count' \in Counts
    BY <1>3 DEF Types
  <1> QED
    BY <1>3, <1>5, <1>6, DeskType

LEMMA HydrateFailsType ==
    ASSUME Types, HydrateFails
    PROVE  Types'
  <1>1. desk' = [desk EXCEPT !.at = "live", !.error = TRUE] /\ desk \in Views
        /\ UNCHANGED <<who, rows, asks, said, head, log, wire, phone, screen, count>>
    BY DEF HydrateFails, Types
  <1>2. desk' \in Views
    BY <1>1 DEF Views
  <1>3. count' \in Counts
    BY <1>1 DEF Types
  <1> QED
    BY <1>1, <1>2, <1>3, DeskType

\* The first frame on its way to a client leaves the rest.
LEMMA WireTail ==
    ASSUME Types, NEW c \in Clients, wire[c] # <<>>
    PROVE  /\ Head(wire[c]) \in Frames /\ Tail(wire[c]) \in Seq(Frames)
           /\ Head(wire[c]) = wire[c][1]
           /\ Len(wire[c]) \in Nat \ {0} /\ Len(Tail(wire[c])) = Len(wire[c]) - 1
           /\ \A i \in 1..(Len(wire[c]) - 1) : Tail(wire[c])[i] = wire[c][i + 1]
  <1>1. wire[c] \in Seq(Frames)
    BY DEF Types
  <1> QED
    BY <1>1, HeadTailProperties, LenProperties, EmptySeq

LEMMA DeskHearsType ==
    ASSUME Types, DeskHears
    PROVE  Types'
  <1>1. wire.desk # <<>> /\ "desk" \in Clients
    BY DEF DeskHears, Clients
  <1>2. Head(wire.desk) \in Frames /\ Tail(wire.desk) \in Seq(Frames)
    BY <1>1, WireTail
  <1>3. desk \in Views /\ wire \in [Clients -> Seq(Frames)]
    BY DEF Types
  <1> DEFINE f == Head(wire.desk)
             rest == Tail(wire.desk)
  <1>4. wire' = [wire EXCEPT !.desk = rest]
    BY DEF DeskHears
  <1>5. \/ desk.at = "closed" /\ desk' = desk
        \/ desk.at = "reading" /\ desk' = [desk EXCEPT !.held = Append(@, f)]
        \/ desk.at = "live" /\ desk' = ApplyLive(desk, f)
    BY <1>3 DEF DeskHears, Views
  <1>6. f \in Frames /\ rest \in Seq(Frames)
    BY <1>2
  <1> HIDE DEF f, rest, Frames
  <1>7. wire' \in [Clients -> Seq(Frames)]
    BY <1>3, <1>4, <1>6
  <1>8. desk' \in Views
    <2>1. CASE desk.at = "reading" /\ desk' = [desk EXCEPT !.held = Append(@, f)]
      <3>1. desk.held \in Seq(Frames) /\ Append(desk.held, f) \in Seq(Frames)
        BY <1>3, <1>6 DEF Views
      <3>2. desk' = [desk EXCEPT !.held = Append(desk.held, f)]
        BY <2>1
      <3> DEFINE more == Append(desk.held, f)
      <3> HIDE DEF more
      <3>3. more \in Seq(Frames) /\ desk' = [desk EXCEPT !.held = more]
        BY <3>1, <3>2 DEF more
      <3> QED
        BY <1>3, <3>3 DEF Views
    <2>2. CASE desk.at = "live" /\ desk' = ApplyLive(desk, f)
      BY <1>3, <1>6, <2>2, LiveStep DEF Drew
    <2> QED
      BY <1>3, <1>5, <2>1, <2>2
  <1>9. UNCHANGED <<who, rows, asks, said, head, log, phone, screen, count>>
    BY DEF DeskHears
  <1> QED
    BY <1>7, <1>8, <1>9 DEF Types
-----------------------------------------------------------------------------
(* Types: the phone.                                                       *)

LEMMA RestIs ==
    ASSUME NEW p \in Phones, NEW q, q = AtRest(p)
    PROVE  /\ q \in Phones /\ q.step = "idle" /\ q.resumes = FALSE /\ q.answer = NoAnswer
           /\ q.on = p.on /\ q.handlers = p.handlers /\ q.heads = p.heads /\ q.cards = p.cards
           /\ q.fresh = p.fresh /\ q.life = p.life
  <1> DEFINE n == NoAnswer
  <1>1. q = [p EXCEPT !.step = "idle", !.resumes = FALSE, !.from = Unheard, !.answer = n]
    BY DEF AtRest
  <1>2. n \in {NoAnswer}
    OBVIOUS
  <1> HIDE DEF n
  <1>3. q \in Phones
    BY <1>1, <1>2 DEF Phones
  <1>4. q.answer = n
    BY <1>1 DEF Phones
  <1> QED
    BY <1>1, <1>3, <1>4 DEF Phones, n

LEMMA CutIs ==
    ASSUME Types, NEW lost \in BOOLEAN
    PROVE  /\ CutIf(lost) \in Screens
           /\ CutIf(lost).at = screen.at /\ CutIf(lost).read = screen.read
           /\ CutIf(lost).held = screen.held /\ CutIf(lost).drawn = screen.drawn
           /\ CutIf(lost).reached = screen.reached
           /\ CutIf(lost).cut <=> (screen.cut \/ (lost /\ screen.at # "closed"))
  <1>1. screen \in Screens
    BY DEF Types
  <1> DEFINE c == screen.cut \/ (lost /\ screen.at # "closed")
             w == CutIf(lost)
  <1>2. c \in BOOLEAN
    BY <1>1 DEF Screens
  <1>3. w = [screen EXCEPT !.cut = c]
    BY DEF CutIf
  <1> HIDE DEF c, w
  <1>4. w \in Screens /\ w.at = screen.at /\ w.read = screen.read
        /\ w.held = screen.held /\ w.drawn = screen.drawn
        /\ w.reached = screen.reached /\ w.cut = c
    BY <1>1, <1>2, <1>3 DEF Screens
  <1> QED
    BY <1>4 DEF c, w

LEMMA OpenScreenType ==
    ASSUME Types, OpenScreen
    PROVE  Types'
  <1>1. screen' = [NoScreen EXCEPT !.at = "reading"]
    BY DEF OpenScreen
  <1>2. screen' \in Screens
    BY <1>1, NoViewType DEF Screens
  <1>3. count' \in Counts
    BY CountsType DEF Types, OpenScreen
  <1> QED
    BY <1>2, <1>3 DEF OpenScreen, Types

LEMMA CloseScreenType ==
    ASSUME Types, CloseScreen
    PROVE  Types'
  BY NoViewType DEF CloseScreen, Types

LEMMA ReadScreenType ==
    ASSUME Types, RowsOK, ReadScreen
    PROVE  Types'
  <1> DEFINE t == Transcript
  <1>1. screen \in Screens /\ t \in TextAnswers
    BY TranscriptType DEF Types
  <1>2. screen' \in {[screen EXCEPT !.read = t], [screen EXCEPT !.at = "failed"]}
    BY DEF ReadScreen
  <1> HIDE DEF t
  <1>3. screen' \in Screens
    BY <1>1, <1>2 DEF Screens
  <1> QED
    BY <1>3 DEF ReadScreen, Types

\* What the screen is before the frames it holds are applied.
Shown == [screen EXCEPT !.at = "live", !.held = <<>>, !.drawn = screen.read.events,
                        !.reached = screen.read.head]

LEMMA ShownIs ==
    ASSUME Types, HydrateScreen
    PROVE  /\ screen.at = "reading" /\ screen.read \in TextAnswers
           /\ Shown \in Screens /\ Shown.at = "live" /\ Shown.held = <<>>
           /\ Shown.drawn = screen.read.events /\ Shown.reached = screen.read.head
           /\ Shown.cut = screen.cut
           /\ screen' = FoldLeft(DrawnOnPhone, Shown, screen.held)
  <1>1. screen \in Screens /\ screen.at = "reading" /\ screen.read # NoAnswer
    BY DEF Types, HydrateScreen
  <1>2. screen.read \in TextAnswers
    BY <1>1 DEF Screens
  <1> DEFINE e == screen.read.events
             h == screen.read.head
             z == <<>>
  <1>3. e \in Seq(Texts) /\ h \in Nat /\ z \in Seq(Frames)
    BY <1>2 DEF TextAnswers
  <1>4. Shown = [screen EXCEPT !.at = "live", !.held = z, !.drawn = e, !.reached = h]
    BY DEF Shown
  <1>5. screen' = FoldLeft(DrawnOnPhone, Shown, screen.held)
    BY DEF HydrateScreen, Shown
  <1> HIDE DEF e, h, z
  <1>6. Shown \in Screens /\ Shown.at = "live" /\ Shown.held = z
           /\ Shown.drawn = e /\ Shown.reached = h /\ Shown.cut = screen.cut
    BY <1>1, <1>3, <1>4 DEF Screens
  <1> QED
    BY <1>1, <1>2, <1>5, <1>6 DEF e, h, z

LEMMA HydrateScreenType ==
    ASSUME Types, HydrateScreen
    PROVE  Types'
  <1>1. screen' \in Screens
    <2>1. screen.held \in Seq(Frames)
      BY DEF Types, Screens
    <2> QED
      BY <2>1, ShownIs, ScreenFoldType
  <1> QED
    BY <1>1 DEF HydrateScreen, Types

\* What the phone has before a frame or a replay is applied.
LEMMA StateType ==
    ASSUME NEW h \in Nat \cup {Unheard}, NEW c \in SUBSET Asks, NEW s \in Screens
    PROVE  [heads |-> h, cards |-> c, screen |-> s] \in States
  BY DEF States

Heard == [n \in 1..phone.handlers |-> Head(wire.phone)]
LEMMA HeardIs ==
    ASSUME Types, PhoneHears
    PROVE  /\ Len(Heard) = phone.handlers /\ phone.handlers \in Nat
           /\ Head(wire.phone) \in Frames
           /\ DOMAIN Heard = 1..phone.handlers
           /\ \A i \in 1..phone.handlers : Heard[i] = Head(wire.phone)
           /\ Applied(Heard) \in States
  <1>1. phone.handlers \in Nat /\ phone.heads \in Nat \cup {Unheard} /\ phone.cards \in SUBSET Asks
        /\ screen \in Screens
    BY DEF Types, Phones
  <1>2. Head(wire.phone) \in Frames
    BY WireTail DEF PhoneHears, Clients
  <1>3. Len(Heard) = phone.handlers /\ DOMAIN Heard = 1..phone.handlers
           /\ \A i \in 1..phone.handlers : Heard[i] = Head(wire.phone)
    <2> DEFINE f == Head(wire.phone)
    <2>1. f \in Frames
      BY <1>2
    <2>2. Heard = [n \in 1..phone.handlers |-> f]
      BY DEF Heard
    <2> HIDE DEF f, Frames
    <2>3. Heard \in Seq(Frames) /\ Len(Heard) = phone.handlers /\ DOMAIN Heard = 1..phone.handlers
      BY <1>1, <2>1, <2>2
    <2> QED
      BY <2>2, <2>3 DEF f
  <1> DEFINE base == [heads |-> phone.heads, cards |-> phone.cards, screen |-> screen]
  <1>4. base \in States
    BY <1>1, StateType
  <1>5. FoldLeft(Apply, base, Heard) \in States
    BY <1>1, <1>2, <1>3, <1>4, ApplyFoldType
  <1> QED
    BY <1>1, <1>2, <1>3, <1>5 DEF Applied

LEMMA PhoneHearsType ==
    ASSUME Types, PhoneHears
    PROVE  Types'
  <1> DEFINE after == Applied(Heard)
             h == after.heads
             c == after.cards
  <1>1. after \in States
    BY HeardIs
  <1>2. phone' = [phone EXCEPT !.heads = h, !.cards = c] /\ screen' = after.screen
        /\ wire' = [wire EXCEPT !.phone = Tail(@)]
        /\ UNCHANGED <<who, rows, asks, said, head, log, desk, count>>
    BY DEF PhoneHears, Heard
  <1>3. phone \in Phones /\ wire \in [Clients -> Seq(Frames)]
        /\ (phone.step = "publish" => phone.answer \in AskAnswers)
        /\ (phone.step = "replay" => phone.answer \in Resumes)
    BY DEF Types
  <1>4. h \in Nat \cup {Unheard} /\ c \in SUBSET Asks /\ after.screen \in Screens
    BY <1>1 DEF States
  <1> HIDE DEF h, c, after
  <1>5. phone' \in Phones /\ phone'.step = phone.step /\ phone'.answer = phone.answer
    BY <1>2, <1>3, <1>4 DEF Phones
  <1>6. wire' \in [Clients -> Seq(Frames)]
    <2>1. Tail(wire.phone) \in Seq(Frames)
      BY WireTail DEF PhoneHears, Clients
    <2> HIDE DEF Frames
    <2> QED
      BY <1>2, <1>3, <2>1 DEF Clients
  <1> QED
    BY <1>2, <1>3, <1>4, <1>5, <1>6 DEF Types

LEMMA ReconnectType ==
    ASSUME Types, Reconnect
    PROVE  Types'
  <1>1. phone \in Phones
    BY DEF Types
  <1>2. phone' = [phone EXCEPT !.on = TRUE, !.handlers = @ + 1, !.step = "refresh",
                              !.resumes = TRUE, !.fresh = FALSE]
    BY DEF Reconnect
  <1> DEFINE k == phone.handlers + 1
  <1>3. k \in Nat
    BY <1>1 DEF Phones
  <1>4. phone' = [phone EXCEPT !.on = TRUE, !.handlers = k, !.step = "refresh",
                              !.resumes = TRUE, !.fresh = FALSE]
    BY <1>1, <1>2 DEF Phones
  <1> HIDE DEF k
  <1>5. phone' \in Phones /\ phone'.step = "refresh"
    BY <1>1, <1>3, <1>4 DEF Phones
  <1> QED
    BY <1>5 DEF Reconnect, Types

LEMMA RefreshType ==
    ASSUME Types, Refresh
    PROVE  Types'
  <1>1. phone \in Phones
    BY DEF Types
  <1>2. phone' = [phone EXCEPT !.step = "refresh", !.resumes = FALSE]
    BY DEF Refresh
  <1>3. phone' \in Phones /\ phone'.step = "refresh"
    BY <1>1, <1>2 DEF Phones
  <1> QED
    BY <1>3 DEF Refresh, Types

LEMMA AnswerRefreshType ==
    ASSUME Types, AnswerRefresh
    PROVE  Types'
  <1> DEFINE t == PermissionPending
  <1>1. phone \in Phones /\ t \in AskAnswers
    BY PendingType DEF Types
  <1>2. phone' = [phone EXCEPT !.step = "publish", !.answer = t]
    BY DEF AnswerRefresh
  <1> HIDE DEF t
  <1>3. phone' \in Phones /\ phone'.step = "publish" /\ phone'.answer = t
    BY <1>1, <1>2 DEF Phones
  <1> QED
    BY <1>1, <1>3 DEF AnswerRefresh, Types

LEMMA RefreshFailsType ==
    ASSUME Types, RefreshFails
    PROVE  Types'
  <1> DEFINE p == AtRest(phone)
  <1>1. p \in Phones /\ p.step = "idle"
    BY RestIs DEF Types
  <1>2. phone' = [p EXCEPT !.fresh = FALSE]
    BY DEF RefreshFails
  <1> HIDE DEF p
  <1>3. phone' \in Phones /\ phone'.step = "idle"
    BY <1>1, <1>2 DEF Phones
  <1>4. screen' \in Screens
    BY CutIs DEF RefreshFails, Types, Phones
  <1> QED
    BY <1>3, <1>4 DEF RefreshFails, Types

\* The phone with the cards that were read, and what becomes of it.
Renewed == [phone EXCEPT !.cards = phone.answer.open, !.fresh = TRUE]

\* The two ways on from a refresh: the phone is done, or resumes.
LEMMA PublishIs ==
    ASSUME Types, Publish
    PROVE  /\ phone.step = "publish" /\ phone.answer \in AskAnswers
           /\ phone' \in Phones /\ screen' \in Screens
           /\ phone'.on = phone.on /\ phone'.handlers = phone.handlers
           /\ phone'.heads = phone.heads /\ phone'.life = phone.life
           /\ phone'.cards = phone.answer.open
           /\ \/ /\ phone.resumes /\ phone.heads # Unheard
                 /\ phone'.step = "resume" /\ phone'.resumes /\ phone'.from = phone.heads
                 /\ screen' = CutIf(FALSE)
              \/ /\ ~(phone.resumes /\ phone.heads # Unheard)
                 /\ phone'.step = "idle" /\ phone'.resumes = FALSE
                 /\ screen' = CutIf(phone.resumes)
  <1>1. phone \in Phones /\ phone.step = "publish" /\ phone.answer \in AskAnswers
    BY DEF Types, Publish
  <1> DEFINE open == phone.answer.open
             n == NoAnswer
             h == phone.heads
             going == [Renewed EXCEPT !.step = "resume", !.from = h, !.answer = n]
  <1>2. open \in SUBSET Asks /\ n \in {NoAnswer} /\ h \in Nat \cup {Unheard} /\ phone.resumes \in BOOLEAN
    BY <1>1 DEF AskAnswers, Phones
  <1>3. Renewed = [phone EXCEPT !.cards = open, !.fresh = TRUE]
    BY DEF Renewed
  <1>4. phone' = IF phone.resumes /\ phone.heads # Unheard THEN going ELSE AtRest(Renewed)
    BY DEF Publish, Renewed
  <1>5. screen' = CutIf(phone.resumes /\ phone.heads = Unheard)
    BY DEF Publish
  <1>6. going = [Renewed EXCEPT !.step = "resume", !.from = h, !.answer = n]
    OBVIOUS
  <1> HIDE DEF open, n, going
  <1>7. Renewed \in Phones /\ Renewed.on = phone.on /\ Renewed.handlers = phone.handlers
        /\ Renewed.heads = phone.heads /\ Renewed.life = phone.life /\ Renewed.cards = open
        /\ Renewed.resumes = phone.resumes
    BY <1>1, <1>2, <1>3 DEF Phones
  <1> HIDE DEF h
  <1>8. going \in Phones /\ going.on = Renewed.on /\ going.handlers = Renewed.handlers
        /\ going.heads = Renewed.heads /\ going.life = Renewed.life /\ going.cards = Renewed.cards
        /\ going.resumes = Renewed.resumes /\ going.step = "resume" /\ going.from = h
    BY <1>2, <1>6, <1>7 DEF Phones
  <1>9. screen' \in Screens
    BY <1>2, <1>5, CutIs
  <1>10. CASE phone.resumes /\ phone.heads # Unheard
    <2>1. phone' = going /\ screen' = CutIf(FALSE)
      BY <1>4, <1>5, <1>10
    <2> QED
      BY <1>1, <1>7, <1>8, <1>9, <1>10, <2>1 DEF h, open
  <1>11. CASE ~(phone.resumes /\ phone.heads # Unheard)
    <2>1. phone' = AtRest(Renewed)
      BY <1>4, <1>11
    <2>2. (phone.resumes /\ phone.heads = Unheard) = phone.resumes
      BY <1>2, <1>11
    <2>3. screen' = CutIf(phone.resumes)
      BY <1>5, <2>2
    <2>4. phone' \in Phones /\ phone'.step = "idle" /\ phone'.resumes = FALSE
           /\ phone'.on = Renewed.on /\ phone'.handlers = Renewed.handlers
           /\ phone'.heads = Renewed.heads /\ phone'.cards = Renewed.cards
           /\ phone'.life = Renewed.life
      BY <1>7, <2>1, RestIs
    <2> QED
      BY <1>1, <1>7, <1>9, <1>11, <2>3, <2>4 DEF open
  <1> QED
    BY <1>10, <1>11

LEMMA PublishType ==
    ASSUME Types, Publish
    PROVE  Types'
  BY PublishIs DEF Types, Publish

LEMMA AnswerResumeType ==
    ASSUME Types, AnswerResume
    PROVE  Types'
  <1> DEFINE events == After(phone.from)
             t == [is |-> "answer", head |-> head, events |-> events]
  <1>1. phone \in Phones /\ head \in Nat /\ events \in Seq(Frames)
    BY LaterType DEF Types, After
  <1>2. phone' = [phone EXCEPT !.step = "replay", !.answer = t]
    BY DEF AnswerResume
  <1> HIDE DEF events
  <1>3. t \in Resumes
    BY <1>1 DEF Resumes
  <1> HIDE DEF t
  <1>4. phone' \in Phones /\ phone'.step = "replay" /\ phone'.answer = t
    BY <1>1, <1>2, <1>3 DEF Phones
  <1> QED
    BY <1>3, <1>4 DEF AnswerResume, Types

LEMMA ResumeFailsType ==
    ASSUME Types, ResumeFails
    PROVE  Types'
  <1>1. phone' \in Phones /\ phone'.step = "idle"
    BY RestIs DEF Types, ResumeFails
  <1>2. screen' \in Screens
    BY CutIs DEF Types, ResumeFails
  <1> QED
    BY <1>1, <1>2 DEF ResumeFails, Types

\* What the phone has when a replay begins, and what it is afterwards.
Before == [heads |-> HeadKnown(phone.answer), cards |-> phone.cards,
           screen |-> CutIf(Uncovered(phone.answer))]
Caught == FoldLeft(Apply, Before, Replayable(phone.answer))

\* What a phone makes of the answer to a resume.
LEMMA ReplayIs ==
    ASSUME Types, Replay
    PROVE  /\ phone.step = "replay" /\ phone.answer \in Resumes
           /\ Before \in States /\ Caught \in States
           /\ Replayable(phone.answer) \in Seq(Frames)
           /\ Before.heads = (IF phone.answer.head < phone.from THEN phone.answer.head ELSE phone.heads)
           /\ Before.cards = phone.cards /\ Before.screen = CutIf(Uncovered(phone.answer))
           /\ Uncovered(phone.answer) \in BOOLEAN
           /\ phone' \in Phones /\ phone'.step = "idle" /\ phone'.resumes = FALSE
           /\ phone'.on = phone.on /\ phone'.handlers = phone.handlers
           /\ phone'.heads = Caught.heads /\ phone'.cards = Caught.cards
           /\ phone'.fresh = phone.fresh
           /\ phone'.life = count.stops
           /\ screen' = Caught.screen /\ screen' \in Screens
  <1>1. phone \in Phones /\ phone.step = "replay" /\ phone.answer \in Resumes /\ count.stops \in Nat
    BY DEF Types, Replay, Counts
  <1>2. phone.answer.head \in Nat /\ phone.answer.events \in Seq(Frames)
    BY <1>1 DEF Resumes
  <1>3. Replayable(phone.answer) \in Seq(Frames)
    BY <1>2, LaterType DEF Replayable
  <1>4. HeadKnown(phone.answer) \in Nat \cup {Unheard} /\ phone.cards \in SUBSET Asks
    BY <1>1, <1>2 DEF HeadKnown, Phones
  <1>5. Uncovered(phone.answer) \in BOOLEAN
    BY DEF Uncovered
  <1>6. CutIf(Uncovered(phone.answer)) \in Screens
    BY <1>5, CutIs
  <1>7. Before \in States
    BY <1>4, <1>6, StateType DEF Before
  <1>8. Caught \in States
    <2>1. Len(Replayable(phone.answer)) \in Nat
          /\ DOMAIN Replayable(phone.answer) = 1..Len(Replayable(phone.answer))
          /\ \A i \in 1..Len(Replayable(phone.answer)) : Replayable(phone.answer)[i] \in Frames
      BY <1>3, LenProperties, ElementOfSeq
    <2> QED
      BY <1>7, <2>1, ApplyFoldType DEF Caught
  <1> DEFINE p == AtRest(phone)
             h == Caught.heads
             c == Caught.cards
             n == count.stops
  <1>9. p \in Phones /\ p.step = "idle" /\ p.resumes = FALSE
        /\ p.on = phone.on /\ p.handlers = phone.handlers /\ p.fresh = phone.fresh
    BY <1>1, RestIs
  <1>10. phone' = [p EXCEPT !.heads = h, !.cards = c, !.life = n] /\ screen' = Caught.screen
    BY DEF Replay, Caught, Before
  <1>11. h \in Nat \cup {Unheard} /\ c \in SUBSET Asks /\ n \in Nat /\ Caught.screen \in Screens
    BY <1>1, <1>8 DEF States
  <1>12. Before.heads = HeadKnown(phone.answer)
           /\ Before.cards = phone.cards /\ Before.screen = CutIf(Uncovered(phone.answer))
    BY DEF Before
  <1> HIDE DEF p, h, c, n
  <1>13. phone' \in Phones /\ phone'.step = "idle" /\ phone'.resumes = FALSE
        /\ phone'.on = p.on /\ phone'.handlers = p.handlers /\ phone'.fresh = p.fresh
        /\ phone'.heads = h /\ phone'.cards = c /\ phone'.life = n
    BY <1>9, <1>10, <1>11 DEF Phones
  <1> QED
    BY <1>1, <1>3, <1>5, <1>7, <1>8, <1>9, <1>10, <1>11, <1>12, <1>13 DEF h, c, n, HeadKnown

LEMMA ReplayType ==
    ASSUME Types, Replay
    PROVE  Types'
  BY ReplayIs DEF Replay, Types

\* What is left of a connection that is lost.
LEMMA SeveredIs ==
    ASSUME Types, Severed
    PROVE  /\ phone' \in Phones /\ phone'.step = "idle" /\ phone'.resumes = FALSE
           /\ phone'.on = FALSE /\ phone'.handlers = phone.handlers
           /\ phone'.heads = phone.heads /\ phone'.cards = phone.cards
           /\ phone'.fresh = phone.fresh /\ phone'.life = phone.life
           /\ screen' \in Screens
           /\ screen'.at = (IF screen.at = "reading" THEN "failed" ELSE screen.at)
           /\ screen'.read = screen.read /\ screen'.held = screen.held
           /\ screen'.drawn = screen.drawn /\ screen'.reached = screen.reached
           /\ screen'.cut = screen.cut
  <1> DEFINE p == AtRest(phone)
  <1>1. p \in Phones /\ p.step = "idle" /\ p.resumes = FALSE
        /\ p.handlers = phone.handlers /\ p.heads = phone.heads /\ p.cards = phone.cards
        /\ p.fresh = phone.fresh /\ p.life = phone.life
    BY RestIs DEF Types
  <1>2. phone' = [p EXCEPT !.on = FALSE]
        /\ screen' = (IF screen.at = "reading" THEN [screen EXCEPT !.at = "failed"] ELSE screen)
        /\ screen \in Screens
    BY DEF Severed, Types
  <1> HIDE DEF p
  <1>3. phone' \in Phones /\ phone'.step = "idle" /\ phone'.resumes = FALSE
        /\ phone'.on = FALSE /\ phone'.handlers = p.handlers
        /\ phone'.heads = p.heads /\ phone'.cards = p.cards
        /\ phone'.fresh = p.fresh /\ phone'.life = p.life
    BY <1>1, <1>2 DEF Phones
  <1>4. CASE screen.at = "reading"
    <2>1. screen' = [screen EXCEPT !.at = "failed"]
      BY <1>2, <1>4
    <2>2. /\ screen' \in Screens /\ screen'.at = "failed"
          /\ screen'.read = screen.read /\ screen'.held = screen.held
          /\ screen'.drawn = screen.drawn /\ screen'.reached = screen.reached
          /\ screen'.cut = screen.cut
      BY <1>2, <2>1 DEF Screens
    <2> QED
      BY <1>1, <1>3, <1>4, <2>2
  <1>5. CASE screen.at # "reading"
    BY <1>1, <1>2, <1>3, <1>5
  <1> QED
    BY <1>4, <1>5

LEMMA WireCleared ==
    ASSUME Types, NEW w, w = [wire EXCEPT !.phone = <<>>]
    PROVE  w \in [Clients -> Seq(Frames)] /\ w.phone = <<>> /\ w.desk = wire.desk
  <1>1. <<>> \in Seq(Frames) /\ wire \in [Clients -> Seq(Frames)]
    BY DEF Types
  <1> HIDE DEF Frames
  <1> QED
    BY <1>1 DEF Clients

LEMMA DropType ==
    ASSUME Types, Drop
    PROVE  Types'
  <1>1. count' \in Counts
    BY CountsType DEF Drop, Types
  <1>2. wire' \in [Clients -> Seq(Frames)]
    BY WireCleared DEF Drop
  <1>3. phone' \in Phones /\ phone'.step = "idle" /\ screen' \in Screens
    BY SeveredIs DEF Drop
  <1> QED
    BY <1>1, <1>2, <1>3 DEF Drop, Types

LEMMA DisconnectIs ==
    ASSUME Types, Disconnect
    PROVE  /\ phone' \in Phones /\ phone'.step = "idle" /\ phone'.resumes = FALSE
           /\ phone'.on = FALSE /\ phone'.heads = phone.heads
           /\ phone'.life = phone.life
           /\ screen' \in Screens
           /\ screen'.at = (IF screen.at = "reading" THEN "failed" ELSE screen.at)
           /\ screen'.read = screen.read /\ screen'.held = screen.held
           /\ screen'.drawn = screen.drawn /\ screen'.reached = screen.reached
           /\ screen'.cut = screen.cut
  <1> DEFINE p == AtRest(phone)
  <1>1. p \in Phones /\ p.step = "idle" /\ p.resumes = FALSE /\ p.heads = phone.heads
        /\ p.life = phone.life
    BY RestIs DEF Types
  <1>2. phone' = [p EXCEPT !.on = FALSE, !.handlers = 0]
        /\ screen' = (IF screen.at = "reading" THEN [screen EXCEPT !.at = "failed"] ELSE screen)
        /\ screen \in Screens
    BY DEF Disconnect, Types
  <1> HIDE DEF p
  <1>3. phone' \in Phones /\ phone'.step = "idle" /\ phone'.resumes = FALSE
        /\ phone'.on = FALSE /\ phone'.heads = p.heads /\ phone'.life = p.life
    BY <1>1, <1>2 DEF Phones
  <1>4. CASE screen.at = "reading"
    <2>1. screen' = [screen EXCEPT !.at = "failed"]
      BY <1>2, <1>4
    <2>2. /\ screen' \in Screens /\ screen'.at = "failed"
          /\ screen'.read = screen.read /\ screen'.held = screen.held
          /\ screen'.drawn = screen.drawn /\ screen'.reached = screen.reached
          /\ screen'.cut = screen.cut
      BY <1>2, <2>1 DEF Screens
    <2> QED
      BY <1>1, <1>3, <1>4, <2>2
  <1>5. CASE screen.at # "reading"
    BY <1>1, <1>2, <1>3, <1>5
  <1> QED
    BY <1>4, <1>5

LEMMA DisconnectType ==
    ASSUME Types, Disconnect
    PROVE  Types'
  <1>1. count' \in Counts
    BY CountsType DEF Disconnect, Types
  <1>2. wire' \in [Clients -> Seq(Frames)]
    BY WireCleared DEF Disconnect
  <1>3. phone' \in Phones /\ phone'.step = "idle" /\ screen' \in Screens
    BY DisconnectIs
  <1> QED
    BY <1>1, <1>2, <1>3 DEF Disconnect, Types

LEMMA RestartType ==
    ASSUME Types, Restart
    PROVE  Types'
  <1>1. count' \in Counts /\ UNCHANGED who
    BY CountsType DEF Restart, Types
  <1>2. said' \in 0..MaxTexts
    <2>1. MaxTexts \in Nat /\ said \in 0..MaxTexts
      BY StreamAssumption DEF Types
    <2>2. said' = said \/ (said < MaxTexts /\ said' = said + 1)
      BY DEF Restart
    <2> QED
      BY <2>1, <2>2
  <1>3. asks' \in [Asks -> {"none", "open", "settled"}]
    <2>1. asks \in [Asks -> {"none", "open", "settled"}]
      BY DEF Types
    <2>2. asks' = asks \/ \E a \in Asks : \/ asks' = [asks EXCEPT ![a] = "open"]
                                         \/ asks' = [asks EXCEPT ![a] = "settled"]
      BY DEF Restart
    <2> QED
      BY <2>1, <2>2
  <1>4. head' = 0 /\ log' = <<>> /\ wire' = [c \in Clients |-> <<>>] /\ desk' = NoView /\ Severed
    BY DEF Restart
  <1>5. phone' \in Phones /\ phone'.step = "idle" /\ screen' \in Screens
    BY <1>4, SeveredIs
  <1>6. <<>> \in Seq(Frames) /\ Len(<<>>) <= Cap
    BY StreamAssumption
  <1>7. desk' \in Views
    BY <1>4, NoViewType
  <1>8. wire' \in [Clients -> Seq(Frames)]
    BY <1>4, <1>6
  <1> HIDE DEF Frames
  <1> QED
    BY <1>1, <1>2, <1>3, <1>4, <1>5, <1>6, <1>7, <1>8 DEF Types

\* The types stand, whatever the step.
LEMMA StepTypes ==
    ASSUME Types, RowsOK, [Next]_vars
    PROVE  Types'
  <1>1. CASE UNCHANGED vars
    BY <1>1 DEF Types, vars
  <1>2. CASE Next
    <2>1. CASE Update \/ \E a \in Asks : Ask(a) \/ Resolve(a)
      BY <2>1, UpdateType, AskType, ResolveType
    <2>2. CASE Open \/ Close \/ ReadTranscript \/ ReadPending \/ Hydrate \/ HydrateFails \/ DeskHears
      BY <2>2, OpenType, CloseType, ReadsType, HydrateType, HydrateFailsType, DeskHearsType
    <2>3. CASE OpenScreen \/ CloseScreen \/ ReadScreen \/ HydrateScreen \/ PhoneHears
      BY <2>3, OpenScreenType, CloseScreenType, ReadScreenType, HydrateScreenType, PhoneHearsType
    <2>4. CASE Reconnect \/ Refresh \/ AnswerRefresh \/ RefreshFails \/ Publish
      BY <2>4, ReconnectType, RefreshType, AnswerRefreshType, RefreshFailsType, PublishType
    <2>5. CASE AnswerResume \/ ResumeFails \/ Replay \/ Drop \/ Disconnect \/ Restart
      BY <2>5, AnswerResumeType, ResumeFailsType, ReplayType, DropType, DisconnectType, RestartType
    <2> QED
      BY <1>2, <2>1, <2>2, <2>3, <2>4, <2>5 DEF Next
  <1> QED
    BY <1>1, <1>2
-----------------------------------------------------------------------------
(* The rows.                                                               *)

\* A log grows by what is said next, and by nothing else.
LEMMA LogGrows ==
    ASSUME NEW r, NEW s \in Nat, s < MaxTexts, LogOK(r, s)
    PROVE  LogOK(r, s + 1) /\ LogOK(Append(r, s + 1), s + 1)
           /\ Len(Append(r, s + 1)) = Len(r) + 1
           /\ Append(r, s + 1)[Len(r) + 1] = s + 1
           /\ \A i \in 1..Len(r) : Append(r, s + 1)[i] = r[i]
  <1>1. MaxTexts \in Nat /\ s + 1 \in Texts
    BY StreamAssumption DEF Texts
  <1>2. r \in Seq(Texts) /\ Len(r) \in Nat /\ (\A i \in 1..Len(r) : r[i] <= s /\ r[i] \in Nat)
        /\ \A i, j \in 1..Len(r) : i < j => r[i] < r[j]
    <2>1. r \in Seq(Texts) /\ Len(r) \in Nat
      BY DEF LogOK
    <2>2. \A i \in 1..Len(r) : r[i] \in Texts
      BY <2>1
    <2> QED
      BY <2>1, <2>2 DEF LogOK, Texts
  <1> DEFINE t == Append(r, s + 1)
  <1>3. t \in Seq(Texts) /\ Len(t) = Len(r) + 1 /\ t[Len(r) + 1] = s + 1
        /\ \A i \in 1..Len(r) : t[i] = r[i]
    BY <1>1, <1>2, AppendProperties
  <1> HIDE DEF t
  <1>4. LogOK(t, s + 1)
    <2>1. \A i \in 1..Len(t) : t[i] <= s + 1
      BY <1>2, <1>3
    <2>2. ASSUME NEW i \in 1..Len(t), NEW j \in 1..Len(t), i < j PROVE t[i] < t[j]
      <3>1. i \in 1..Len(r)
        BY <1>2, <1>3, <2>2
      <3>2. CASE j \in 1..Len(r)
        BY <1>2, <1>3, <2>2, <3>1, <3>2
      <3>3. CASE j = Len(r) + 1
        BY <1>2, <1>3, <3>1, <3>3
      <3> QED
        BY <1>2, <1>3, <3>2, <3>3
    <2> QED
      BY <1>3, <2>1, <2>2 DEF LogOK
  <1>5. LogOK(r, s + 1)
    BY <1>2 DEF LogOK
  <1> QED
    BY <1>3, <1>4, <1>5 DEF t

LEMMA InitRows == Init => RowsOK
  BY DEF Init, RowsOK, LogOK

\* Whatever happens, no row is changed or lost.
LEMMA RowsStep ==
    ASSUME Types, [Next]_vars
    PROVE  \/ UNCHANGED <<rows, said>>
           \/ rows' = rows /\ said < MaxTexts /\ said' = said + 1
           \/ rows' = Append(rows, said + 1) /\ said < MaxTexts /\ said' = said + 1
  <1>1. CASE UNCHANGED vars
    BY <1>1 DEF vars
  <1>2. CASE Update
    BY <1>2 DEF Update
  <1>3. CASE Restart
    BY <1>3 DEF Restart
  <1>4. CASE \E a \in Asks : Ask(a) \/ Resolve(a)
    BY <1>4 DEF Ask, Resolve
  <1>5. CASE Open \/ Close \/ ReadTranscript \/ ReadPending \/ Hydrate \/ HydrateFails \/ DeskHears
    BY <1>5 DEF Open, Close, ReadTranscript, ReadPending, Reads, Hydrate, HydrateFails, DeskHears
  <1>6. CASE OpenScreen \/ CloseScreen \/ ReadScreen \/ HydrateScreen \/ PhoneHears
    BY <1>6 DEF OpenScreen, CloseScreen, ReadScreen, HydrateScreen, PhoneHears
  <1>7. CASE Reconnect \/ Refresh \/ AnswerRefresh \/ RefreshFails \/ Publish
    BY <1>7 DEF Reconnect, Refresh, AnswerRefresh, RefreshFails, Publish
  <1>8. CASE AnswerResume \/ ResumeFails \/ Replay \/ Drop \/ Disconnect
    BY <1>8 DEF AnswerResume, ResumeFails, Replay, Drop, Disconnect
  <1> QED
    BY <1>1, <1>2, <1>3, <1>4, <1>5, <1>6, <1>7, <1>8 DEF Next

LEMMA StepRows ==
    ASSUME Types, RowsOK, [Next]_vars
    PROVE  RowsOK'
  <1>1. said \in Nat /\ LogOK(rows, said)
    BY DEF Types, RowsOK
  <1>2. LogOK(rows', said')
    BY <1>1, RowsStep, LogGrows
  <1> QED
    BY <1>2 DEF RowsOK

\* What the rows are, at a glance.
LEMMA RowsAre ==
    ASSUME NEW r, NEW s \in Nat, LogOK(r, s)
    PROVE  /\ r \in Seq(Texts) /\ Len(r) \in Nat
           /\ \A i \in 1..Len(r) : r[i] \in Texts /\ r[i] \in Nat /\ r[i] <= s /\ r[i] \in ToSet(r)
           /\ \A i, j \in 1..Len(r) : i < j => r[i] < r[j]
           /\ \A i, j \in 1..Len(r) : r[i] = r[j] => i = j
           /\ ToSet(r) = {r[i] : i \in 1..Len(r)}
  <1>1. r \in Seq(Texts) /\ Len(r) \in Nat /\ (\A i \in 1..Len(r) : r[i] <= s /\ r[i] \in Nat)
        /\ \A i, j \in 1..Len(r) : i < j => r[i] < r[j]
    <2>1. r \in Seq(Texts) /\ Len(r) \in Nat
      BY DEF LogOK
    <2>2. \A i \in 1..Len(r) : r[i] \in Texts
      BY <2>1
    <2> QED
      BY <2>1, <2>2 DEF LogOK, Texts
  <1>2. \A i \in 1..Len(r) : r[i] \in Texts
    BY <1>1
  <1>3. ToSet(r) = {r[i] : i \in 1..Len(r)}
    BY <1>1 DEF ToSet
  <1>4. ASSUME NEW i \in 1..Len(r), NEW j \in 1..Len(r), r[i] = r[j] PROVE i = j
    <2>1. ~(i < j) /\ ~(j < i)
      BY <1>1, <1>4
    <2> QED
      BY <1>1, <2>1
  <1> QED
    BY <1>1, <1>2, <1>3, <1>4

-----------------------------------------------------------------------------
(* What the host tells.                                                    *)

\* One frame and what it is about: a row, or none; an ask; or its resolution.
Event(f, r, a, s, r2, a2, s2) ==
    /\ f \in Frames
    /\ \/ /\ f.kind = "update" /\ s < MaxTexts /\ s2 = s + 1 /\ f.id = s + 1 /\ a2 = a
          /\ \/ r2 = r /\ f.row = 0
             \/ r2 = Append(r, s + 1) /\ f.row = Len(r) + 1
       \/ /\ f.kind = "ask" /\ r2 = r /\ s2 = s
          /\ a[f.id] = "none" /\ a2 = [a EXCEPT ![f.id] = "open"]
       \/ /\ f.kind = "resolved" /\ r2 = r /\ s2 = s
          /\ a[f.id] = "open" /\ a2 = [a EXCEPT ![f.id] = "settled"]

AskStates == [Asks -> {"none", "open", "settled"}]

\* The log and the asks as far as a later moment may have them.
Onward(r, a, s, r2, a2, s2) ==
    /\ LogOK(r2, s2) /\ s2 \in Nat /\ s <= s2 /\ Len(r) <= Len(r2)
    /\ \A i \in 1..Len(r) : r2[i] = r[i]
    /\ \A i \in 1..Len(r2) : Len(r) < i => s < r2[i]
    /\ \A x \in Asks : (a[x] # "none" => a2[x] # "none") /\ (a[x] = "settled" => a2[x] = "settled")

\* An update, an ask or a resolution leaves true what was true of the log.
LEMMA EventIsLater ==
    ASSUME NEW r, NEW s \in Nat, NEW a \in AskStates, LogOK(r, s),
           NEW f, NEW r2, NEW a2, NEW s2, Event(f, r, a, s, r2, a2, s2)
    PROVE  Onward(r, a, s, r2, a2, s2) /\ a2 \in AskStates
  <1>1. f \in Frames /\ (f.kind # "update" => f.id \in Asks) /\ Len(r) \in Nat
    BY FrameFacts DEF Event, LogOK
  <1>2. a2 \in AskStates /\ \A x \in Asks : (a[x] # "none" => a2[x] # "none")
                                           /\ (a[x] = "settled" => a2[x] = "settled")
    BY <1>1 DEF Event, AskStates
  <1>3. CASE r2 = r
    <2>1. s2 = s \/ (s < MaxTexts /\ s2 = s + 1)
      BY DEF Event
    <2>2. LogOK(r2, s2)
      BY <1>3, <2>1, LogGrows
    <2> QED
      BY <1>1, <1>2, <1>3, <2>1, <2>2 DEF Onward
  <1>4. CASE r2 = Append(r, s + 1) /\ s2 = s + 1 /\ s < MaxTexts
    <2>1. LogOK(r2, s2) /\ Len(r2) = Len(r) + 1 /\ r2[Len(r) + 1] = s + 1
          /\ \A i \in 1..Len(r) : r2[i] = r[i]
      BY <1>4, LogGrows
    <2>2. \A i \in 1..Len(r2) : Len(r) < i => s < r2[i]
      BY <1>1, <2>1
    <2> QED
      BY <1>1, <1>2, <1>4, <2>1, <2>2 DEF Onward
  <1> QED
    BY <1>3, <1>4 DEF Event

\* An id that was said is in the later log only if it was in the log.
LEMMA NotRecordedLater ==
    ASSUME NEW r, NEW s \in Nat, NEW a, LogOK(r, s), NEW r2, NEW a2, NEW s2,
           Onward(r, a, s, r2, a2, s2), NEW x \in Nat, x <= s
    PROVE  x \in ToSet(r2) <=> x \in ToSet(r)
  <1>1. ToSet(r) = {r[i] : i \in 1..Len(r)} /\ Len(r) \in Nat
    BY RowsAre
  <1>2. ToSet(r2) = {r2[i] : i \in 1..Len(r2)} /\ Len(r2) \in Nat /\ \A i \in 1..Len(r2) : r2[i] \in Nat
    BY RowsAre DEF Onward
  <1>3. \A i \in 1..Len(r) : i \in 1..Len(r2) /\ r2[i] = r[i]
    BY <1>1, <1>2 DEF Onward
  <1>4. \A i \in 1..Len(r2) : r2[i] = x => i \in 1..Len(r)
    BY <1>1, <1>2 DEF Onward
  <1> QED
    BY <1>1, <1>2, <1>3, <1>4

\* What was told stays so.
LEMMA StillTold ==
    ASSUME NEW r, NEW s \in Nat, NEW a \in AskStates, LogOK(r, s), NEW r2, NEW a2, NEW s2,
           Onward(r, a, s, r2, a2, s2), NEW f \in Frames, Told(f, r, a, s)
    PROVE  Told(f, r2, a2, s2)
  <1>1. f.seq \in Nat /\ f.kind \in Kinds /\ f.row \in Nat /\ (f.kind = "update" => f.id \in Texts)
           /\ (f.kind # "update" => f.id \in Asks /\ f.row = 0)
    BY FrameFacts
  <1>2. CASE f.kind = "update"
    <2>1. f.id \in Nat /\ f.id <= s
      BY <1>1, <1>2 DEF Told, Texts
    <2>2. f.id \in ToSet(r2) <=> f.id \in ToSet(r)
      BY <2>1, NotRecordedLater
    <2>3. f.row # 0 => f.row \in 1..Len(r2) /\ r2[f.row] = f.id
      <3>1. Len(r) \in Nat /\ Len(r2) \in Nat
        BY DEF Onward, LogOK
      <3> QED
        BY <1>2, <3>1 DEF Told, Onward
    <2> QED
      BY <1>2, <2>1, <2>2, <2>3 DEF Told, Onward
  <1>3. CASE f.kind # "update"
    BY <1>1, <1>3 DEF Told, Onward
  <1> QED
    BY <1>2, <1>3

\* The event itself is told.
LEMMA EventTold ==
    ASSUME NEW r, NEW s \in Nat, NEW a \in AskStates, LogOK(r, s),
           NEW f, NEW r2, NEW a2, NEW s2, Event(f, r, a, s, r2, a2, s2)
    PROVE  Told(f, r2, a2, s2)
  <1>1. f.seq \in Nat /\ f.kind \in Kinds /\ f.row \in Nat /\ (f.kind = "update" => f.id \in Texts)
           /\ (f.kind # "update" => f.id \in Asks /\ f.row = 0)
    BY FrameFacts DEF Event
  <1>2. ToSet(r) = {r[i] : i \in 1..Len(r)} /\ Len(r) \in Nat /\ \A i \in 1..Len(r) : r[i] <= s /\ r[i] \in Nat
    BY RowsAre
  <1>3. CASE f.kind = "update"
    <2>1. s2 = s + 1 /\ f.id = s + 1 /\ s < MaxTexts
      BY <1>3 DEF Event
    <2>4. \/ r2 = r /\ f.row = 0
          \/ r2 = Append(r, s + 1) /\ f.row = Len(r) + 1
      BY <1>3 DEF Event
    <2>2. f.id \notin ToSet(r)
      BY <1>2, <2>1
    <2>3. Len(Append(r, s + 1)) = Len(r) + 1 /\ Append(r, s + 1)[Len(r) + 1] = s + 1
      BY <2>1, LogGrows
    <2> QED
      BY <1>2, <1>3, <2>1, <2>2, <2>3, <2>4 DEF Told
  <1>4. CASE f.kind # "update"
    BY <1>1, <1>4 DEF Event, Told, AskStates
  <1> QED
    BY <1>3, <1>4

-----------------------------------------------------------------------------
(* Lines of frames.                                                        *)

\* A line with one more frame.
LEMMA LineGrows ==
    ASSUME NEW r, NEW s \in Nat, NEW a \in AskStates, LogOK(r, s), NEW l, LineOK(l, r, a, s),
           NEW f, NEW r2, NEW a2, NEW s2, Event(f, r, a, s, r2, a2, s2)
    PROVE  /\ LineOK(Append(l, f), r2, a2, s2)
           /\ InTurn(l) => InTurn(Append(l, f))
           /\ Len(Append(l, f)) = Len(l) + 1 /\ Append(l, f)[Len(l) + 1] = f
           /\ \A i \in 1..Len(l) : Append(l, f)[i] = l[i]
  <1> DEFINE m == Append(l, f)
  <1>1. l \in Seq(Frames) /\ Len(l) \in Nat /\ f \in Frames /\ \A i \in 1..Len(l) : l[i] \in Frames
    BY LenProperties, ElementOfSeq DEF LineOK, Event
  <1>2. m \in Seq(Frames) /\ Len(m) = Len(l) + 1 /\ m[Len(l) + 1] = f /\ \A i \in 1..Len(l) : m[i] = l[i]
    BY <1>1, AppendProperties
  <1> HIDE DEF m
  <1>3. Onward(r, a, s, r2, a2, s2) /\ Told(f, r2, a2, s2)
    BY EventIsLater, EventTold
  <1>4. ASSUME NEW i \in 1..Len(m) PROVE Told(m[i], r2, a2, s2)
    <2>1. CASE i = Len(l) + 1
      BY <1>2, <1>3, <2>1
    <2>2. CASE i \in 1..Len(l)
      <3>1. l[i] \in Frames /\ Told(l[i], r, a, s) /\ m[i] = l[i]
        BY <1>1, <1>2, <2>2 DEF LineOK
      <3> QED
        BY <1>3, <3>1, StillTold
    <2> QED
      BY <1>1, <1>2, <2>1, <2>2
  <1>5. ASSUME NEW i \in 1..Len(m), m[i].kind = "ask", a2[m[i].id] = "settled"
        PROVE  \E j \in 1..Len(m) : i < j /\ m[j].kind = "resolved" /\ m[j].id = m[i].id
    <2>1. i \in 1..Len(l)
      <3>1. CASE i = Len(l) + 1
        <4>1. f.kind = "ask" /\ a2[f.id] = "settled" /\ f.id \in Asks
          BY <1>1, <1>2, <1>5, <3>1, FrameFacts
        <4> QED
          BY <4>1 DEF Event, AskStates
      <3> QED
        BY <1>1, <1>2, <3>1
    <2>2. m[i] = l[i] /\ l[i].id \in Asks
      BY <1>1, <1>2, <1>5, <2>1, FrameFacts
    <2>3. CASE a[l[i].id] = "settled"
      <3>1. PICK j \in 1..Len(l) : i < j /\ l[j].kind = "resolved" /\ l[j].id = l[i].id
        BY <1>5, <2>1, <2>2, <2>3 DEF LineOK
      <3> QED
        BY <1>1, <1>2, <2>2, <3>1
    <2>4. CASE a[l[i].id] # "settled"
      <3>1. f.kind = "resolved" /\ f.id = l[i].id
        <4>1. f.kind # "update" => f.id \in Asks
          BY <1>1, FrameFacts
        <4> QED
          BY <1>5, <2>2, <2>4, <4>1 DEF Event, AskStates
      <3> QED
        BY <1>1, <1>2, <2>1, <2>2, <3>1
    <2> QED
      BY <2>3, <2>4
  <1>6. LineOK(m, r2, a2, s2)
    BY <1>2, <1>4, <1>5 DEF LineOK
  <1>7. ASSUME InTurn(l) PROVE InTurn(m)
    <2> SUFFICES ASSUME NEW i \in 1..Len(m), NEW j \in 1..Len(m), i < j,
                        m[i].kind = "update", m[j].kind = "update"
                 PROVE  m[i].id < m[j].id
      BY DEF InTurn
    <2>1. i \in 1..Len(l) /\ m[i] = l[i]
      BY <1>1, <1>2
    <2>2. CASE j \in 1..Len(l)
      BY <1>2, <1>7, <2>1, <2>2 DEF InTurn
    <2>3. CASE j = Len(l) + 1
      <3>1. l[i].id <= s /\ l[i].id \in Nat
        BY <1>1, <2>1, FrameFacts DEF LineOK, Told, Texts
      <3>2. m[j] = f /\ f.id = s + 1
        BY <1>2, <2>3 DEF Event
      <3> QED
        BY <2>1, <3>1, <3>2
    <2> QED
      BY <1>1, <1>2, <2>2, <2>3
  <1> QED
    BY <1>2, <1>6, <1>7 DEF m

LEMMA EmptyLine ==
    ASSUME NEW r, NEW a, NEW s \in Nat, LogOK(r, s)
    PROVE  LineOK(<<>>, r, a, s) /\ InTurn(<<>>) /\ Behind(<<>>, 0, Len(r), r)
           /\ Len(r) \in 0..Len(r)
  <1>1. Len(<<>>) = 0 /\ <<>> \in Seq(Frames) /\ Len(r) \in Nat
    BY DEF LogOK
  <1> HIDE DEF Frames
  <1> QED
    BY <1>1 DEF LineOK, InTurn, Behind

\* What is left of a line after its first n frames.
Rest(l, n, k) ==
    /\ k \in Seq(Frames) /\ Len(l) = Len(k) + n
    /\ \A i \in 1..Len(k) : k[i] = l[i + n]

\* What is left of a good line is one.
LEMMA RestOK ==
    ASSUME NEW l, NEW n \in Nat, NEW k, Rest(l, n, k), Len(l) \in Nat
    PROVE  /\ \A r, a, s : LineOK(l, r, a, s) => LineOK(k, r, a, s)
           /\ InTurn(l) => InTurn(k)
           /\ \A b, r : Behind(l, n, b, r) => Behind(k, 0, b, r)
           /\ \A d, reached, r, s : Draws(d, reached, l, n, r, s) => Draws(d, reached, k, 0, r, s)
           /\ \A shown, locked, a : Tells(shown, locked, l, n, a) => Tells(shown, locked, k, 0, a)
  <1>1. Len(k) \in Nat /\ k \in Seq(Frames) /\ Len(l) = Len(k) + n
    BY LenProperties DEF Rest
  <1>2. \A i \in 1..Len(k) : i + n \in 1..Len(l) /\ n < i + n /\ k[i] = l[i + n]
    BY <1>1 DEF Rest
  <1>3. \A j \in 1..Len(l) : n < j => j - n \in 1..Len(k) /\ k[j - n] = l[j] /\ 0 < j - n
    <2> SUFFICES ASSUME NEW j \in 1..Len(l), n < j PROVE j - n \in 1..Len(k) /\ k[j - n] = l[j] /\ 0 < j - n
      OBVIOUS
    <2>1. j - n \in 1..Len(k) /\ j - n + n = j /\ 0 < j - n
      BY <1>1
    <2> QED
      BY <1>2, <2>1
  <1>4. ASSUME NEW r, NEW a, NEW s, LineOK(l, r, a, s) PROVE LineOK(k, r, a, s)
    <2>1. \A i \in 1..Len(k) : Told(k[i], r, a, s)
      BY <1>2, <1>4 DEF LineOK
    <2>2. ASSUME NEW i \in 1..Len(k), k[i].kind = "ask", a[k[i].id] = "settled"
          PROVE  \E j \in 1..Len(k) : i < j /\ k[j].kind = "resolved" /\ k[j].id = k[i].id
      <3>1. i + n \in 1..Len(l) /\ k[i] = l[i + n]
        BY <1>2
      <3>2. PICK j \in 1..Len(l) : i + n < j /\ l[j].kind = "resolved" /\ l[j].id = l[i + n].id
        BY <1>4, <2>2, <3>1 DEF LineOK
      <3>3. n < j /\ i < j - n
        BY <3>2
      <3> QED
        BY <1>3, <3>1, <3>2, <3>3
    <2> QED
      BY <1>1, <2>1, <2>2 DEF LineOK
  <1>5. ASSUME InTurn(l) PROVE InTurn(k)
    <2> SUFFICES ASSUME NEW i \in 1..Len(k), NEW j \in 1..Len(k), i < j,
                        k[i].kind = "update", k[j].kind = "update"
                 PROVE  k[i].id < k[j].id
      BY DEF InTurn
    <2>1. i + n \in 1..Len(l) /\ j + n \in 1..Len(l) /\ i + n < j + n
      BY <1>2
    <2>2. k[i] = l[i + n] /\ k[j] = l[j + n]
      BY <1>2
    <2> QED
      BY <1>5, <2>1, <2>2 DEF InTurn
  <1>6. ASSUME NEW b, NEW r, Behind(l, n, b, r) PROVE Behind(k, 0, b, r)
    <2>1. ASSUME NEW m \in 1..Len(r), b < m PROVE \E i \in 1..Len(k) : 0 < i /\ k[i].row = m
      BY <1>3, <1>6, <2>1 DEF Behind
    <2>2. ASSUME NEW i \in 1..Len(k), k[i].row # 0 PROVE b < k[i].row
      BY <1>2, <1>6, <2>2 DEF Behind
    <2> QED
      BY <2>1, <2>2 DEF Behind
  <1>7. ASSUME NEW d, NEW reached, NEW r, NEW s, Draws(d, reached, l, n, r, s)
        PROVE  Draws(d, reached, k, 0, r, s)
    <2>1. ASSUME NEW i \in 1..Len(d), NEW j \in 1..Len(k),
                 d[i] \notin ToSet(r), k[j].kind = "update"
          PROVE  d[i] < k[j].id
      <3>1. j + n \in 1..Len(l) /\ n < j + n /\ k[j] = l[j + n]
        BY <1>2
      <3> QED
        BY <1>7, <2>1, <3>1 DEF Draws
    <2>2. /\ d \in Seq(Texts) /\ reached \in 0..Len(r)
          /\ \A i \in 1..Len(d) : d[i] <= s
          /\ \A i, j \in 1..Len(d) : d[i] = d[j] => i = j
          /\ \A i, j \in 1..Len(d) : i < j /\ d[i] \in ToSet(r) /\ d[j] \in ToSet(r) => d[i] < d[j]
      BY <1>7 DEF Draws
    <2>3. PICK b \in 0..Len(r), lo \in 0..Len(r) :
          /\ Behind(l, n, b, r)
          /\ lo <= Furthest(b, reached)
          /\ lo = 0 \/ Furthest(b, reached) - lo >= Window
          /\ \A m \in 1..Len(r) :
                r[m] \in ToSet(d) <=> lo < m /\ m <= Furthest(b, reached)
      BY <1>7 DEF Draws
    <2>4. Behind(k, 0, b, r)
      BY <1>6, <2>3
    <2> QED
      BY <2>1, <2>2, <2>3, <2>4 DEF Draws
  <1>8. ASSUME NEW shown, NEW locked, NEW a, Tells(shown, locked, l, n, a)
        PROVE  Tells(shown, locked, k, 0, a)
    <2>1. \A x : (\E i \in 1..Len(l) : n < i /\ l[i].kind = "ask" /\ l[i].id = x) =>
                 (\E i \in 1..Len(k) : 0 < i /\ k[i].kind = "ask" /\ k[i].id = x)
      BY <1>3
    <2>2. \A x : (\E i \in 1..Len(l) : n < i /\ l[i].kind = "resolved" /\ l[i].id = x) =>
                 (\E i \in 1..Len(k) : 0 < i /\ k[i].kind = "resolved" /\ k[i].id = x)
      BY <1>3
    <2> QED
      BY <1>8, <2>1, <2>2 DEF Tells
  <1> QED
    BY <1>4, <1>5, <1>6, <1>7, <1>8

\* The next frame with a row has the next row.
LEMMA BehindNext ==
    ASSUME NEW r, NEW s \in Nat, NEW a, LogOK(r, s), NEW l, LineOK(l, r, a, s), InTurn(l),
           NEW n \in 0..Len(l), n < Len(l), NEW b \in 0..Len(r), Behind(l, n, b, r)
    PROVE  /\ l[n + 1].row = 0 => Behind(l, n + 1, b, r)
           /\ l[n + 1].row # 0 => /\ l[n + 1].row = b + 1 /\ b + 1 \in 1..Len(r)
                                  /\ Behind(l, n + 1, b + 1, r)
  <1>1. l \in Seq(Frames) /\ Len(l) \in Nat /\ \A i \in 1..Len(l) : l[i] \in Frames
    BY LenProperties, ElementOfSeq DEF LineOK
  <1>2. n + 1 \in 1..Len(l) /\ n < n + 1
    BY <1>1
  <1>3. \A i \in 1..Len(l) : n < i => i = n + 1 \/ n + 1 < i
    BY <1>1
  <1>4. \A i \in 1..Len(l) : n + 1 < i => n < i
    BY <1>1
  <1>5. \A i \in 1..Len(l) : l[i].row # 0 => /\ l[i].kind = "update" /\ l[i].id \in Nat
                                             /\ l[i].row \in 1..Len(r) /\ r[l[i].row] = l[i].id
    BY <1>1, FrameFacts DEF LineOK, Told, Texts
  <1>6. ASSUME l[n + 1].row = 0 PROVE Behind(l, n + 1, b, r)
    <2>1. ASSUME NEW k \in 1..Len(r), b < k PROVE \E i \in 1..Len(l) : n + 1 < i /\ l[i].row = k
      <3>1. PICK i \in 1..Len(l) : n < i /\ l[i].row = k
        BY <2>1 DEF Behind
      <3>2. k # 0
        OBVIOUS
      <3> QED
        BY <1>3, <1>6, <3>1, <3>2
    <2> QED
      BY <1>4, <2>1 DEF Behind
  <1>7. ASSUME l[n + 1].row # 0
        PROVE  l[n + 1].row = b + 1 /\ b + 1 \in 1..Len(r) /\ Behind(l, n + 1, b + 1, r)
    <2> DEFINE q == l[n + 1].row
    <2>1. q \in 1..Len(r) /\ b < q /\ Len(r) \in Nat
      BY <1>2, <1>5, <1>7 DEF Behind, LogOK
    <2>2. b + 1 \in 1..Len(r) /\ b < b + 1
      BY <2>1
    <2>3. PICK i \in 1..Len(l) : n < i /\ l[i].row = b + 1
      BY <2>2 DEF Behind
    <2>4. \A j, k \in 1..Len(r) : j < k => r[j] < r[k]
      BY RowsAre
    <2>5. \A j \in 1..Len(r) : r[j] \in Nat
      BY RowsAre
    <2>6. l[i].kind = "update" /\ r[b + 1] = l[i].id
      <3>1. b + 1 # 0
        OBVIOUS
      <3> QED
        BY <1>5, <2>3, <3>1
    <2>7. l[n + 1].kind = "update" /\ r[q] = l[n + 1].id
      BY <1>2, <1>5, <1>7
    <2> HIDE DEF q
    <2>8. i = n + 1
      <3>1. CASE n + 1 < i
        <4>1. l[n + 1].id < l[i].id
          BY <1>2, <2>6, <2>7, <3>1 DEF InTurn
        <4>2. r[q] < r[b + 1]
          BY <2>6, <2>7, <4>1
        <4>3. ~(b + 1 < q) /\ b + 1 # q
          BY <2>1, <2>2, <2>4, <2>5, <4>2
        <4> QED
          BY <2>1, <4>3
      <3> QED
        BY <1>3, <2>3, <3>1
    <2>9. q = b + 1
      BY <2>3, <2>8 DEF q
    <2>10. ASSUME NEW k \in 1..Len(r), b + 1 < k PROVE \E j \in 1..Len(l) : n + 1 < j /\ l[j].row = k
      <3>1. b < k
        BY <2>10
      <3>2. PICK j \in 1..Len(l) : n < j /\ l[j].row = k
        BY <3>1 DEF Behind
      <3>3. j # n + 1
        BY <2>9, <2>10, <3>2 DEF q
      <3> QED
        BY <1>3, <3>2, <3>3
    <2>11. ASSUME NEW j \in 1..Len(l), n + 1 < j, l[j].row # 0 PROVE b + 1 < l[j].row
      <3>1. b < l[j].row /\ l[j].row \in 1..Len(r) /\ r[l[j].row] = l[j].id /\ l[j].kind = "update"
        BY <1>4, <1>5, <2>11 DEF Behind
      <3>2. l[n + 1].id < l[j].id
        BY <1>2, <2>7, <2>11, <3>1 DEF InTurn
      <3>3. r[b + 1] < r[l[j].row]
        BY <2>7, <2>9, <3>1, <3>2
      <3>4. l[j].row # b + 1
        BY <2>2, <2>5, <3>3
      <3> QED
        BY <3>1, <3>4
    <2>12. Behind(l, n + 1, b + 1, r)
      BY <2>10, <2>11 DEF Behind
    <2> QED
      BY <2>2, <2>9, <2>12 DEF q
  <1> QED
    BY <1>6, <1>7

-----------------------------------------------------------------------------
(* The desktop's view and the line before it.                              *)

LEMMA SetOf ==
    ASSUME NEW S, NEW q \in Seq(S)
    PROVE  ToSet(q) = {q[i] : i \in 1..Len(q)}
  <1>1. DOMAIN q = 1..Len(q)
    BY LenProperties
  <1> QED
    BY <1>1 DEF ToSet

\* A frame that is drawn, or that is drawn already, leaves the view true.
LEMMA DrawsNext ==
    ASSUME NEW r, NEW s \in Nat, NEW a, LogOK(r, s), NEW l, LineOK(l, r, a, s), InTurn(l),
           NEW n \in 0..Len(l), n < Len(l), NEW d, NEW reached, Draws(d, reached, l, n, r, s),
           NEW e, e = IF l[n + 1].kind = "update" /\ (l[n + 1].row = 0 \/ reached < l[n + 1].row)
                      THEN Append(d, l[n + 1].id) ELSE d
    PROVE  Draws(e, reached, l, n + 1, r, s)
  <1> DEFINE f == l[n + 1]
  <1>1. l \in Seq(Frames) /\ Len(l) \in Nat /\ f \in Frames /\ n + 1 \in 1..Len(l)
        /\ \A i \in 1..Len(l) : l[i] \in Frames
    BY LenProperties, ElementOfSeq DEF LineOK
  <1>2. f.row \in Nat /\ (f.kind = "update" => f.id \in Texts) /\ (f.kind # "update" => f.row = 0)
        /\ Told(f, r, a, s)
    BY <1>1, FrameFacts DEF LineOK
  <1>3. r \in Seq(Texts) /\ Len(r) \in Nat /\ ToSet(r) = {r[i] : i \in 1..Len(r)}
        /\ (\A i \in 1..Len(r) : r[i] \in Nat /\ r[i] \in ToSet(r))
        /\ (\A i, j \in 1..Len(r) : i < j => r[i] < r[j])
        /\ (\A i, j \in 1..Len(r) : r[i] = r[j] => i = j)
    BY RowsAre
  <1>4. d \in Seq(Texts) /\ reached \in 0..Len(r) /\ Len(d) \in Nat
        /\ (\A i \in 1..Len(d) : d[i] <= s /\ d[i] \in Nat /\ d[i] \in Texts)
        /\ (\A i, j \in 1..Len(d) : d[i] = d[j] => i = j)
    <2>1. d \in Seq(Texts)
      BY DEF Draws
    <2>2. \A i \in 1..Len(d) : d[i] \in Texts
      BY <2>1
    <2> QED
      BY <2>1, <2>2 DEF Draws, Texts
  <1>5. (\A i, j \in 1..Len(d) : i < j /\ d[i] \in ToSet(r) /\ d[j] \in ToSet(r) => d[i] < d[j])
        /\ (\A i \in 1..Len(d), j \in 1..Len(l) :
              d[i] \notin ToSet(r) /\ n < j /\ l[j].kind = "update" => d[i] < l[j].id)
    BY DEF Draws
  <1>6. PICK b \in 0..Len(r), lo \in 0..Len(r) :
          /\ Behind(l, n, b, r)
          /\ lo <= Furthest(b, reached)
          /\ lo = 0 \/ Furthest(b, reached) - lo >= Window
          /\ \A m \in 1..Len(r) :
                r[m] \in ToSet(d) <=> lo < m /\ m <= Furthest(b, reached)
    BY DEF Draws
  <1>7. /\ f.row = 0 => Behind(l, n + 1, b, r)
        /\ f.row # 0 => f.row = b + 1 /\ b + 1 \in 1..Len(r) /\ Behind(l, n + 1, b + 1, r)
    <2>1. n \in 0..Len(l) /\ n < Len(l) /\ b \in 0..Len(r) /\ Behind(l, n, b, r)
      BY <1>6
    <2>2. /\ l[n + 1].row = 0 => Behind(l, n + 1, b, r)
          /\ l[n + 1].row # 0 => /\ l[n + 1].row = b + 1 /\ b + 1 \in 1..Len(r)
                                 /\ Behind(l, n + 1, b + 1, r)
      BY <2>1, BehindNext
    <2> QED
      BY <2>2
  <1>8. \A i \in 1..Len(d), j \in 1..Len(l) :
              d[i] \notin ToSet(r) /\ n + 1 < j /\ l[j].kind = "update" => d[i] < l[j].id
    <2>1. \A j \in 1..Len(l) : n + 1 < j => n < j
      BY <1>1
    <2> QED
      BY <1>5, <2>1
  <1>9. CASE e = d /\ f.row = 0
    BY <1>4, <1>5, <1>6, <1>7, <1>8, <1>9 DEF Draws
  <1>10. CASE e = d /\ f.row # 0
    <2>1. f.row = b + 1 /\ b + 1 \in 1..Len(r) /\ Behind(l, n + 1, b + 1, r) /\ f.kind = "update"
      BY <1>2, <1>7, <1>10
    <2>2. b + 1 <= reached
      <3>1. ~(reached < f.row)
        <4>1. CASE reached < f.row
          <5>1. d = Append(d, f.id) /\ f.id \in Texts
            BY <1>2, <1>10, <2>1, <4>1
          <5>2. Len(Append(d, f.id)) = Len(d) + 1
            BY <1>4, <5>1, AppendProperties
          <5> QED
            BY <1>4, <5>1, <5>2
        <4> QED
          BY <4>1
      <3> QED
        BY <1>2, <1>4, <2>1, <3>1
    <2>3. Furthest(b, reached) = reached /\ Furthest(b + 1, reached) = reached
      BY <1>4, <2>2 DEF Furthest
    <2>4. b + 1 \in 0..Len(r)
      BY <2>1
    <2> QED
      BY <1>4, <1>5, <1>6, <1>8, <1>10, <2>1, <2>3, <2>4 DEF Draws
  <1>11. CASE e # d
    <2>1. f.kind = "update" /\ (f.row = 0 \/ reached < f.row) /\ e = Append(d, f.id)
      BY <1>11
    <2>2. f.id \in Texts /\ f.id \in Nat /\ f.id <= s
      BY <1>2, <2>1 DEF Told, Texts
    <2>3. e \in Seq(Texts) /\ Len(e) = Len(d) + 1 /\ e[Len(d) + 1] = f.id
          /\ \A i \in 1..Len(d) : e[i] = d[i]
      BY <1>4, <2>1, <2>2, AppendProperties
    <2>4. ToSet(d) = {d[i] : i \in 1..Len(d)} /\ ToSet(e) = {e[i] : i \in 1..Len(e)}
      <3>1. d \in Seq(Texts) /\ e \in Seq(Texts)
        BY <1>4, <2>3
      <3>2. \A q \in Seq(Texts) : ToSet(q) = {q[i] : i \in 1..Len(q)}
        BY SetOf
      <3> QED
        BY <3>1, <3>2
    <2>5. \A x : x \in ToSet(e) <=> x \in ToSet(d) \/ x = f.id
      BY <1>4, <2>3, <2>4
    <2>6. \A i \in 1..Len(e) : i \in 1..Len(d) \/ i = Len(d) + 1
      BY <1>4, <2>3
    \* The new one is not drawn yet, and comes after what is.
    <2>7. /\ f.id \notin ToSet(d)
          /\ f.id \in ToSet(r) => \A i \in 1..Len(d) : d[i] \in ToSet(r) => d[i] < f.id
          /\ \E b2 \in 0..Len(r) :
                /\ Behind(l, n + 1, b2, r)
                /\ lo <= Furthest(b2, reached)
                /\ lo = 0 \/ Furthest(b2, reached) - lo >= Window
                /\ \A m \in 1..Len(r) :
                      r[m] \in ToSet(e) <=> lo < m /\ m <= Furthest(b2, reached)
      <3>1. CASE f.row = 0
        <4>1. f.id \notin ToSet(r)
          BY <1>2, <2>1, <3>1 DEF Told
        <4>2. f.id \notin ToSet(d)
          <5> SUFFICES ASSUME NEW i \in 1..Len(d), d[i] = f.id PROVE FALSE
            BY <2>4
          <5>1. n < n + 1
            BY <1>1
          <5>2. d[i] < f.id
            BY <1>1, <1>5, <2>1, <4>1, <5>1
          <5> QED
            BY <2>2, <5>2
        <4>3. \A m \in 1..Len(r) : r[m] \in ToSet(e) <=> r[m] \in ToSet(d)
          BY <1>3, <2>5, <4>1
        <4> QED
          BY <1>6, <1>7, <3>1, <4>1, <4>2, <4>3
      <3>2. CASE f.row # 0
        <4>1. f.row = b + 1 /\ b + 1 \in 1..Len(r) /\ Behind(l, n + 1, b + 1, r) /\ reached < b + 1
              /\ r[b + 1] = f.id
          BY <1>2, <1>7, <2>1, <3>2 DEF Told
        <4>2. Furthest(b, reached) = b /\ Furthest(b + 1, reached) = b + 1
          BY <1>4, <4>1 DEF Furthest
        <4>3. f.id \notin ToSet(d)
          BY <1>6, <4>1, <4>2
        <4>4. ASSUME NEW i \in 1..Len(d), d[i] \in ToSet(r) PROVE d[i] < f.id
          <5>1. PICK m \in 1..Len(r) : r[m] = d[i]
            BY <1>3, <4>4
          <5>2. r[m] \in ToSet(d)
            BY <2>4, <5>1
          <5>3. m < b + 1
            BY <1>6, <4>2, <5>2
          <5> QED
            BY <1>3, <4>1, <5>1, <5>3
        <4>5. lo <= b + 1 /\ (lo = 0 \/ (b + 1) - lo >= Window)
          <5>1. lo <= b /\ (lo = 0 \/ b - lo >= Window) /\ Window \in Nat
            BY <1>6, <4>2, StreamAssumption
          <5> QED
            BY <5>1
        <4>6. ASSUME NEW m \in 1..Len(r)
              PROVE  r[m] \in ToSet(e) <=> lo < m /\ m <= b + 1
          <5>1. r[m] \in ToSet(e) <=> r[m] \in ToSet(d) \/ m = b + 1
            BY <1>3, <2>5, <4>1
          <5>2. r[m] \in ToSet(d) <=> lo < m /\ m <= b
            BY <1>6, <4>2
          <5>3. lo < b + 1
            BY <1>6, <4>2
          <5> QED
            BY <5>1, <5>2, <5>3
        <4>7. b + 1 \in 0..Len(r)
          BY <4>1
        <4> QED
          BY <4>1, <4>2, <4>3, <4>4, <4>5, <4>6, <4>7
      <3> QED
        BY <3>1, <3>2
    <2>8. ASSUME NEW i \in 1..Len(e), NEW j \in 1..Len(e), e[i] = e[j] PROVE i = j
      <3>1. \A k \in 1..Len(d) : d[k] \in ToSet(d)
        BY <2>4
      <3> QED
        BY <1>4, <2>3, <2>6, <2>7, <2>8, <3>1
    <2>9. ASSUME NEW i \in 1..Len(e), NEW j \in 1..Len(e), i < j, e[i] \in ToSet(r), e[j] \in ToSet(r)
          PROVE  e[i] < e[j]
      <3>1. i \in 1..Len(d)
        BY <1>4, <2>3, <2>9
      <3>2. CASE j \in 1..Len(d)
        BY <1>5, <2>3, <2>9, <3>1, <3>2
      <3>3. CASE j = Len(d) + 1
        BY <2>3, <2>7, <2>9, <3>1, <3>3
      <3> QED
        BY <2>6, <3>2, <3>3
    <2>10. ASSUME NEW i \in 1..Len(e), NEW j \in 1..Len(l),
                  e[i] \notin ToSet(r), n + 1 < j, l[j].kind = "update"
           PROVE  e[i] < l[j].id
      <3>1. CASE i \in 1..Len(d)
        BY <1>8, <2>3, <2>10, <3>1
      <3>2. CASE i = Len(d) + 1
        BY <1>1, <2>1, <2>3, <2>10, <3>2 DEF InTurn
      <3> QED
        BY <2>6, <3>1, <3>2
    <2>11. \A i \in 1..Len(e) : e[i] <= s
      BY <1>4, <2>2, <2>3, <2>6
    <2> QED
      BY <1>4, <1>6, <2>3, <2>7, <2>8, <2>9, <2>10, <2>11 DEF Draws
  <1> QED
    BY <1>9, <1>10, <1>11

\* So it is with the cards.
LEMMA TellsNext ==
    ASSUME NEW r, NEW s, NEW a \in AskStates, NEW l, LineOK(l, r, a, s),
           NEW n \in 0..Len(l), n < Len(l), NEW shown, NEW locked, Tells(shown, locked, l, n, a),
           NEW shown2, NEW locked2,
           shown2 = IF l[n + 1].kind = "ask" /\ l[n + 1].id \notin locked THEN shown \cup {l[n + 1].id}
                    ELSE IF l[n + 1].kind = "resolved" THEN shown \ {l[n + 1].id} ELSE shown,
           locked2 = locked
           \/ (locked2 = IF l[n + 1].kind = "resolved" /\ l[n + 1].id \in shown
                         THEN locked \cup {l[n + 1].id} ELSE locked)
    PROVE  Tells(shown2, locked2, l, n + 1, a)
  <1> DEFINE f == l[n + 1]
  <1>1. l \in Seq(Frames) /\ Len(l) \in Nat /\ f \in Frames /\ n + 1 \in 1..Len(l)
    BY LenProperties, ElementOfSeq DEF LineOK
  <1>2. f.kind \in Kinds /\ (f.kind # "update" => f.id \in Asks) /\ Told(f, r, a, s)
    BY <1>1, FrameFacts DEF LineOK
  <1>3. shown \subseteq Asks
        /\ (\A x \in locked : a[x] = "settled")
        /\ (\A x \in Asks : a[x] = "open" =>
              x \in shown \/ \E i \in 1..Len(l) : n < i /\ l[i].kind = "ask" /\ l[i].id = x)
        /\ (\A x \in shown :
              /\ a[x] # "none"
              /\ a[x] = "settled" =>
                    \E i \in 1..Len(l) : n < i /\ l[i].kind = "resolved" /\ l[i].id = x)
    BY DEF Tells
  <1>4. \A i \in 1..Len(l) : n < i => i = n + 1 \/ n + 1 < i
    BY <1>1
  <1>5. shown2 \subseteq Asks
    BY <1>2, <1>3
  <1>6. ASSUME NEW x \in Asks, a[x] = "open"
        PROVE  x \in shown2 \/ \E i \in 1..Len(l) : n + 1 < i /\ l[i].kind = "ask" /\ l[i].id = x
    <2>1. f.kind = "resolved" => f.id # x
      BY <1>2, <1>6 DEF Told
    <2>2. x \notin locked
      BY <1>3, <1>6
    <2>3. x \in shown => x \in shown2
      BY <2>1
    <2>4. CASE x \in shown
      BY <2>2, <2>3, <2>4
    <2>5. CASE x \notin shown
      <3>1. PICK i \in 1..Len(l) : n < i /\ l[i].kind = "ask" /\ l[i].id = x
        BY <1>3, <1>6, <2>5
      <3>2. CASE i = n + 1
        BY <2>2, <3>1, <3>2
      <3> QED
        BY <1>4, <2>2, <3>1, <3>2
    <2> QED
      BY <2>4, <2>5
  <1>7. ASSUME NEW x \in shown2
        PROVE  /\ a[x] # "none"
               /\ a[x] = "settled" =>
                    \E i \in 1..Len(l) : n + 1 < i /\ l[i].kind = "resolved" /\ l[i].id = x
    <2>1. CASE x \in shown
      <3>1. ~(f.kind = "resolved" /\ f.id = x)
        BY <1>7
      <3>2. a[x] # "none"
        BY <1>3, <2>1
      <3>3. ASSUME a[x] = "settled"
            PROVE  \E i \in 1..Len(l) : n + 1 < i /\ l[i].kind = "resolved" /\ l[i].id = x
        <4>1. PICK i \in 1..Len(l) : n < i /\ l[i].kind = "resolved" /\ l[i].id = x
          BY <1>3, <2>1, <3>3
        <4>2. i # n + 1
          BY <3>1, <4>1
        <4> QED
          BY <1>4, <4>1, <4>2
      <3> QED
        BY <3>2, <3>3
    <2>2. CASE x \notin shown
      <3>1. f.kind = "ask" /\ x = f.id
        BY <1>7, <2>2
      <3>2. a[x] # "none"
        BY <1>2, <3>1 DEF Told
      <3>3. ASSUME a[x] = "settled"
            PROVE  \E i \in 1..Len(l) : n + 1 < i /\ l[i].kind = "resolved" /\ l[i].id = x
        BY <1>1, <3>1, <3>3 DEF LineOK
      <3> QED
        BY <3>2, <3>3
    <2> QED
      BY <2>1, <2>2
  <1>8. \A x \in locked2 : a[x] = "settled"
    BY <1>2, <1>3 DEF Told
  <1> QED
    BY <1>5, <1>6, <1>7, <1>8 DEF Tells

\* What the host says next is on the line.
LEMMA DrawsEvent ==
    ASSUME NEW r, NEW s \in Nat, NEW a \in AskStates, LogOK(r, s), NEW l, LineOK(l, r, a, s),
           NEW f, NEW r2, NEW a2, NEW s2, Event(f, r, a, s, r2, a2, s2),
           NEW b \in 0..Len(r), Behind(l, 0, b, r)
    PROVE  Behind(Append(l, f), 0, b, r2) /\ b \in 0..Len(r2)
  <1> DEFINE m == Append(l, f)
  <1>1. Len(m) = Len(l) + 1 /\ m[Len(l) + 1] = f /\ (\A i \in 1..Len(l) : m[i] = l[i])
        /\ Len(l) \in Nat
    BY LineGrows, LenProperties DEF LineOK
  <1> HIDE DEF m
  <1>2. Onward(r, a, s, r2, a2, s2) /\ f \in Frames /\ Len(r) \in Nat
    <2>1. Onward(r, a, s, r2, a2, s2)
      BY EventIsLater
    <2>2. f \in Frames
      BY DEF Event
    <2> QED
      BY <2>1, <2>2, RowsAre
  <1>3. \/ r2 = r /\ f.row = 0
        \/ Len(r2) = Len(r) + 1 /\ f.row = Len(r) + 1
    <2>1. f.kind # "update" => f.row = 0
      BY <1>2, FrameFacts
    <2>2. s < MaxTexts => Len(Append(r, s + 1)) = Len(r) + 1
      BY LogGrows
    <2> QED
      BY <2>1, <2>2 DEF Event
  <1>4. b \in 0..Len(r2)
    BY <1>2, <1>3
  <1>5. \A i \in 1..Len(m) : i \in 1..Len(l) \/ i = Len(l) + 1
    BY <1>1
  <1>6. ASSUME NEW k \in 1..Len(r2), b < k PROVE \E i \in 1..Len(m) : 0 < i /\ m[i].row = k
    <2>1. CASE k \in 1..Len(r)
      <3>1. PICK i \in 1..Len(l) : 0 < i /\ l[i].row = k
        BY <1>6, <2>1 DEF Behind
      <3>2. i \in 1..Len(m) /\ m[i] = l[i]
        BY <1>1
      <3> QED
        BY <3>1, <3>2
    <2>2. CASE k \notin 1..Len(r)
      <3>1. k = f.row
        BY <1>2, <1>3, <2>2
      <3>2. Len(l) + 1 \in 1..Len(m) /\ 0 < Len(l) + 1
        BY <1>1
      <3> QED
        BY <1>1, <3>1, <3>2
    <2> QED
      BY <2>1, <2>2
  <1>7. ASSUME NEW i \in 1..Len(m), 0 < i, m[i].row # 0 PROVE b < m[i].row
    <2>1. CASE i \in 1..Len(l)
      BY <1>1, <1>7, <2>1 DEF Behind
    <2>2. CASE i = Len(l) + 1
      BY <1>1, <1>2, <1>3, <1>7, <2>2
    <2> QED
      BY <1>5, <2>1, <2>2
  <1>8. Behind(m, 0, b, r2)
    BY <1>6, <1>7 DEF Behind
  <1> QED
    BY <1>4, <1>8 DEF m

\* What a view drew is continued by its line with one more frame on it.
LEMMA DrawsLater ==
    ASSUME NEW r, NEW s \in Nat, NEW a \in AskStates, LogOK(r, s), NEW l, LineOK(l, r, a, s),
           NEW f, NEW r2, NEW a2, NEW s2, Event(f, r, a, s, r2, a2, s2),
           NEW d, NEW reached, Draws(d, reached, l, 0, r, s)
    PROVE  Draws(d, reached, Append(l, f), 0, r2, s2)
  <1> DEFINE m == Append(l, f)
  <1>1. Len(m) = Len(l) + 1 /\ m[Len(l) + 1] = f /\ (\A i \in 1..Len(l) : m[i] = l[i])
        /\ Len(l) \in Nat
    BY LineGrows, LenProperties DEF LineOK
  <1> HIDE DEF m
  <1>2. Onward(r, a, s, r2, a2, s2) /\ f \in Frames /\ Len(r) \in Nat /\ Len(r2) \in Nat
    <2>1. Onward(r, a, s, r2, a2, s2)
      BY EventIsLater
    <2>2. f \in Frames
      BY DEF Event
    <2> QED
      BY <2>1, <2>2, RowsAre DEF Onward
  <1>3. d \in Seq(Texts) /\ reached \in 0..Len(r)
        /\ (\A i \in 1..Len(d) : d[i] <= s /\ d[i] \in Nat)
        /\ (\A i, j \in 1..Len(d) : d[i] = d[j] => i = j)
        /\ (\A i, j \in 1..Len(d) : i < j /\ d[i] \in ToSet(r) /\ d[j] \in ToSet(r) => d[i] < d[j])
        /\ (\A i \in 1..Len(d), j \in 1..Len(l) :
              d[i] \notin ToSet(r) /\ 0 < j /\ l[j].kind = "update" => d[i] < l[j].id)
    <2>1. d \in Seq(Texts)
      BY DEF Draws
    <2>2. \A i \in 1..Len(d) : d[i] \in Texts
      BY <2>1
    <2>3. \A i \in 1..Len(d) : d[i] \in Nat
      BY <2>2 DEF Texts
    <2>4. \A i \in 1..Len(d) : d[i] <= s
      BY DEF Draws
    <2>5. /\ reached \in 0..Len(r)
          /\ \A i, j \in 1..Len(d) : d[i] = d[j] => i = j
          /\ \A i, j \in 1..Len(d) : i < j /\ d[i] \in ToSet(r) /\ d[j] \in ToSet(r) => d[i] < d[j]
          /\ \A i \in 1..Len(d), j \in 1..Len(l) :
                d[i] \notin ToSet(r) /\ 0 < j /\ l[j].kind = "update" => d[i] < l[j].id
      BY DEF Draws
    <2> QED
      BY <2>1, <2>3, <2>4, <2>5
  <1>4. \A i \in 1..Len(d) : d[i] \in ToSet(r2) <=> d[i] \in ToSet(r)
    BY <1>2, <1>3, NotRecordedLater
  <1>5. PICK b \in 0..Len(r), lo \in 0..Len(r) :
          /\ Behind(l, 0, b, r)
          /\ lo <= Furthest(b, reached)
          /\ lo = 0 \/ Furthest(b, reached) - lo >= Window
          /\ \A k \in 1..Len(r) :
                r[k] \in ToSet(d) <=> lo < k /\ k <= Furthest(b, reached)
    BY DEF Draws
  <1>6. Behind(m, 0, b, r2) /\ b \in 0..Len(r2)
    BY <1>5, DrawsEvent DEF m
  <1>7. lo \in 0..Len(r2) /\ reached \in 0..Len(r2)
    BY <1>2, <1>3 DEF Onward
  <1>8. ASSUME NEW k \in 1..Len(r2)
        PROVE  r2[k] \in ToSet(d) <=> lo < k /\ k <= Furthest(b, reached)
    <2>1. CASE k \in 1..Len(r)
      BY <1>2, <1>5, <2>1 DEF Onward
    <2>2. CASE k \notin 1..Len(r)
      <3>1. s < r2[k] /\ r2[k] \in Nat
        <4>1. Len(r) < k
          BY <1>2, <2>2
        <4> QED
          BY <1>2, <4>1, RowsAre DEF Onward
      <3>2. r2[k] \notin ToSet(d)
        <4>1. ToSet(d) = {d[i] : i \in 1..Len(d)}
          BY <1>3, SetOf
        <4> SUFFICES ASSUME NEW i \in 1..Len(d), d[i] = r2[k] PROVE FALSE
          BY <4>1
        <4>2. d[i] <= s /\ d[i] \in Nat
          BY <1>3
        <4> QED
          BY <3>1, <4>2
      <3>3. ~(k <= Furthest(b, reached))
        BY <1>2, <1>3, <2>2 DEF Furthest
      <3> QED
        BY <3>2, <3>3
    <2> QED
      BY <2>1, <2>2
  <1>9. ASSUME NEW i \in 1..Len(d), NEW j \in 1..Len(m),
               d[i] \notin ToSet(r2), m[j].kind = "update"
        PROVE  d[i] < m[j].id
    <2>1. CASE j \in 1..Len(l)
      <3>1. d[i] \notin ToSet(r)
        BY <1>4, <1>9
      <3>2. m[j] = l[j] /\ 0 < j
        BY <1>1, <2>1
      <3>3. l[j].kind = "update"
        BY <1>9, <3>2
      <3>4. d[i] < l[j].id
        BY <1>3, <2>1, <3>1, <3>2, <3>3
      <3> QED
        BY <3>2, <3>4
    <2>2. CASE j = Len(l) + 1
      <3>1. f.id = s + 1
        BY <1>1, <1>9, <2>2 DEF Event
      <3> QED
        BY <1>1, <1>3, <2>2, <3>1
    <2> QED
      BY <1>1, <2>1, <2>2
  <1>10. \A i \in 1..Len(d) : d[i] <= s2
    BY <1>2, <1>3 DEF Onward
  <1>11. \A i, j \in 1..Len(d) : i < j /\ d[i] \in ToSet(r2) /\ d[j] \in ToSet(r2) => d[i] < d[j]
    BY <1>3, <1>4
  <1>12. Draws(d, reached, m, 0, r2, s2)
    BY <1>3, <1>5, <1>6, <1>7, <1>8, <1>9, <1>10, <1>11 DEF Draws
  <1> QED
    BY <1>12 DEF m

\* The cards of a view are completed by its line with one more frame on it.
LEMMA TellsLater ==
    ASSUME NEW r, NEW s \in Nat, NEW a \in AskStates, LogOK(r, s), NEW l, LineOK(l, r, a, s),
           NEW f, NEW r2, NEW a2, NEW s2, Event(f, r, a, s, r2, a2, s2),
           NEW shown, NEW locked, locked \subseteq Asks, Tells(shown, locked, l, 0, a)
    PROVE  Tells(shown, locked, Append(l, f), 0, a2)
  <1> DEFINE m == Append(l, f)
  <1>1. Len(m) = Len(l) + 1 /\ m[Len(l) + 1] = f /\ (\A i \in 1..Len(l) : m[i] = l[i])
        /\ Len(l) \in Nat
    BY LineGrows, LenProperties DEF LineOK
  <1> HIDE DEF m
  <1>2. f \in Frames /\ (f.kind # "update" => f.id \in Asks) /\ Onward(r, a, s, r2, a2, s2)
    BY FrameFacts, EventIsLater DEF Event
  <1>3. shown \subseteq Asks
        /\ (\A x \in locked : a[x] = "settled")
        /\ (\A x \in Asks : a[x] = "open" =>
              x \in shown \/ \E i \in 1..Len(l) : 0 < i /\ l[i].kind = "ask" /\ l[i].id = x)
        /\ (\A x \in shown :
              /\ a[x] # "none"
              /\ a[x] = "settled" =>
                    \E i \in 1..Len(l) : 0 < i /\ l[i].kind = "resolved" /\ l[i].id = x)
    BY DEF Tells
  <1>4. \A i \in 1..Len(l) : i \in 1..Len(m) /\ m[i] = l[i]
    BY <1>1
  <1>5. Len(l) + 1 \in 1..Len(m) /\ 0 < Len(l) + 1
    BY <1>1
  <1>6. \A x \in Asks : /\ a2[x] = "open" /\ a[x] # "open" => f.kind = "ask" /\ f.id = x
                        /\ a2[x] = "settled" /\ a[x] # "settled" => f.kind = "resolved" /\ f.id = x
    BY <1>2 DEF Event, AskStates
  <1>7. ASSUME NEW x \in Asks, a2[x] = "open"
        PROVE  x \in shown \/ \E i \in 1..Len(m) : 0 < i /\ m[i].kind = "ask" /\ m[i].id = x
    <2>1. CASE a[x] = "open"
      BY <1>3, <1>4, <2>1
    <2>2. CASE a[x] # "open"
      BY <1>1, <1>5, <1>6, <1>7, <2>2
    <2> QED
      BY <2>1, <2>2
  <1>8. ASSUME NEW x \in shown
        PROVE  /\ a2[x] # "none"
               /\ a2[x] = "settled" =>
                    \E i \in 1..Len(m) : 0 < i /\ m[i].kind = "resolved" /\ m[i].id = x
    <2>1. a2[x] # "none"
      BY <1>2, <1>3 DEF Onward
    <2>2. ASSUME a2[x] = "settled"
          PROVE  \E i \in 1..Len(m) : 0 < i /\ m[i].kind = "resolved" /\ m[i].id = x
      <3>1. CASE a[x] = "settled"
        BY <1>3, <1>4, <3>1
      <3>2. CASE a[x] # "settled"
        BY <1>1, <1>3, <1>5, <1>6, <2>2, <3>2
      <3> QED
        BY <3>1, <3>2
    <2> QED
      BY <2>1, <2>2
  <1>9. \A x \in locked : a2[x] = "settled"
    BY <1>2, <1>3 DEF Onward
  <1>10. Tells(shown, locked, m, 0, a2)
    BY <1>3, <1>7, <1>8, <1>9 DEF Tells
  <1> QED
    BY <1>10 DEF m

\* From anywhere on the line the rows still follow one another.
LEMMA BehindAnywhere ==
    ASSUME NEW r, NEW s \in Nat, NEW a, LogOK(r, s), NEW l, LineOK(l, r, a, s), InTurn(l),
           \E b \in 0..Len(r) : Behind(l, 0, b, r), NEW n \in 0..Len(l)
    PROVE  \E b \in 0..Len(r) : Behind(l, n, b, r)
  <1>1. Len(l) \in Nat /\ Len(r) \in Nat
    BY LenProperties DEF LineOK, LogOK
  <1> DEFINE S == {m \in 0..Len(l) : \E b \in 0..Len(r) : Behind(l, m, b, r)}
  <1>2. 0 \in S
    BY <1>1
  <1>3. ASSUME NEW m \in 0..Len(l), m \in S, m < Len(l) PROVE m + 1 \in S
    <2>1. PICK b \in 0..Len(r) : Behind(l, m, b, r)
      BY <1>3
    <2>2. /\ l[m + 1].row = 0 => Behind(l, m + 1, b, r)
          /\ l[m + 1].row # 0 => /\ l[m + 1].row = b + 1 /\ b + 1 \in 1..Len(r)
                                 /\ Behind(l, m + 1, b + 1, r)
      <3>1. m \in 0..Len(l) /\ m < Len(l) /\ Behind(l, m, b, r)
        BY <1>3, <2>1
      <3> QED
        BY <3>1, BehindNext
    <2>3. m + 1 \in 0..Len(l)
      BY <1>1, <1>3
    <2>4. \E c \in 0..Len(r) : Behind(l, m + 1, c, r)
      <3>1. b + 1 \in 1..Len(r) => b + 1 \in 0..Len(r)
        BY <1>1
      <3> QED
        BY <2>2, <3>1
    <2> QED
      BY <2>3, <2>4
  <1> HIDE DEF S
  <1>4. 0..Len(l) \subseteq S
    BY <1>1, <1>2, <1>3, UpTo
  <1> QED
    BY <1>4 DEF S

\* A transcript read now is what a view draws that has heard all before it.
LEMMA NewestDraws ==
    ASSUME NEW r, NEW s \in Nat, NEW a, LogOK(r, s), NEW l, LineOK(l, r, a, s),
           \E b \in 0..Len(r) : Behind(l, 0, b, r)
    PROVE  Draws(Newest(r), Len(r), l, 0, r, s)
  <1> DEFINE m == IF Len(r) > Window THEN Len(r) - Window + 1 ELSE 1
             d == SubSeq(r, m, Len(r))
  <1>1. r \in Seq(Texts) /\ Len(r) \in Nat /\ ToSet(r) = {r[i] : i \in 1..Len(r)}
        /\ (\A i \in 1..Len(r) : r[i] \in Nat /\ r[i] \in Texts /\ r[i] \in ToSet(r) /\ r[i] <= s)
        /\ (\A i, j \in 1..Len(r) : i < j => r[i] < r[j])
        /\ (\A i, j \in 1..Len(r) : r[i] = r[j] => i = j)
    BY RowsAre
  <1>2. Window \in Nat \ {0}
    BY StreamAssumption
  <1>3. m \in 1..(Len(r) + 1) /\ (m = 1 \/ Len(r) - (m - 1) >= Window)
    BY <1>1, <1>2
  <1>4. Newest(r) = d
    BY DEF Newest
  <1> HIDE DEF m
  <1>5. d \in Seq(Texts) /\ Len(d) = Len(r) - m + 1 /\ \A i \in 1..Len(d) : d[i] = r[m + i - 1]
    <2>1. \A i \in m..Len(r) : r[i] \in Texts
      BY <1>1, <1>3
    <2>2. /\ SubSeq(r, m, Len(r)) \in Seq(Texts)
          /\ Len(SubSeq(r, m, Len(r))) = IF m <= Len(r) THEN Len(r) - m + 1 ELSE 0
          /\ \A i \in 1..(Len(r) - m + 1) : SubSeq(r, m, Len(r))[i] = r[m + i - 1]
      BY <1>1, <1>3, <2>1, SubSeqProperties
    <2> QED
      BY <1>1, <1>3, <2>2
  <1> HIDE DEF d
  <1>6. ToSet(d) = {d[i] : i \in 1..Len(d)}
    BY <1>5, SetOf
  <1>7. \A i \in 1..Len(d) : m + i - 1 \in 1..Len(r)
    BY <1>1, <1>3, <1>5
  <1>8. \A i \in 1..Len(d) : d[i] <= s /\ d[i] \in ToSet(r)
    BY <1>1, <1>5, <1>7
  <1>9. ASSUME NEW i \in 1..Len(d), NEW j \in 1..Len(d), d[i] = d[j] PROVE i = j
    <2>1. r[m + i - 1] = r[m + j - 1]
      BY <1>5, <1>9
    <2>2. m + i - 1 = m + j - 1
      BY <1>1, <1>7, <2>1
    <2> QED
      BY <1>3, <2>2
  <1>10. ASSUME NEW i \in 1..Len(d), NEW j \in 1..Len(d), i < j PROVE d[i] < d[j]
    <2>1. m + i - 1 < m + j - 1
      BY <1>3, <1>10
    <2>2. r[m + i - 1] < r[m + j - 1]
      BY <1>1, <1>7, <2>1
    <2> QED
      BY <1>5, <2>2
  <1>11. PICK b \in 0..Len(r) : Behind(l, 0, b, r)
    OBVIOUS
  <1>12. Furthest(b, Len(r)) = Len(r)
    BY <1>1, <1>11 DEF Furthest
  <1>13. ASSUME NEW k \in 1..Len(r) PROVE r[k] \in ToSet(d) <=> m - 1 < k /\ k <= Len(r)
    <2>1. ASSUME r[k] \in ToSet(d) PROVE m - 1 < k
      <3>1. PICK i \in 1..Len(d) : d[i] = r[k]
        BY <1>6, <2>1
      <3>2. m + i - 1 = k
        BY <1>1, <1>5, <1>7, <3>1
      <3> QED
        BY <1>3, <3>2
    <2>2. ASSUME m - 1 < k PROVE r[k] \in ToSet(d)
      <3>1. k - m + 1 \in 1..Len(d) /\ m + (k - m + 1) - 1 = k
        BY <1>1, <1>3, <1>5, <2>2
      <3>2. d[k - m + 1] = r[k]
        BY <1>5, <3>1
      <3> QED
        BY <1>6, <3>1, <3>2
    <2> QED
      BY <1>1, <2>1, <2>2
  <1>14. m - 1 \in 0..Len(r) /\ Len(r) \in 0..Len(r) /\ m - 1 <= Len(r)
         /\ (m - 1 = 0 \/ Len(r) - (m - 1) >= Window)
    BY <1>1, <1>3
  <1>15. \E c, lo \in 0..Len(r) :
          /\ Behind(l, 0, c, r)
          /\ lo <= Furthest(c, Len(r))
          /\ lo = 0 \/ Furthest(c, Len(r)) - lo >= Window
          /\ \A k \in 1..Len(r) : r[k] \in ToSet(d) <=> lo < k /\ k <= Furthest(c, Len(r))
    BY <1>11, <1>12, <1>13, <1>14
  <1>16. Draws(d, Len(r), l, 0, r, s)
    BY <1>5, <1>8, <1>9, <1>10, <1>14, <1>15 DEF Draws
  <1> QED
    BY <1>4, <1>16

LEMMA PendingTells ==
    ASSUME Types, NEW l
    PROVE  Tells(Pending, {}, l, 0, asks)
  BY DEF Tells, Pending, Types

\* One frame applied to the view.
LEMMA ViewStep ==
    ASSUME NEW r, NEW s \in Nat, NEW a \in AskStates, LogOK(r, s),
           NEW l, LineOK(l, r, a, s), InTurn(l), NEW n \in 0..Len(l), n < Len(l),
           NEW v \in Views, Draws(v.drawn, v.reached, l, n, r, s),
           Tells(v.shown, v.locked, l, n, a),
           l[n + 1] \in Frames, NEW w, w = ApplyLive(v, l[n + 1])
    PROVE  /\ w \in Views
           /\ Draws(w.drawn, w.reached, l, n + 1, r, s)
           /\ Tells(w.shown, w.locked, l, n + 1, a)
  <1>1. /\ w \in Views /\ w.reached = v.reached
        /\ w.drawn = IF l[n + 1].kind = "update" /\ (l[n + 1].row = 0 \/ v.reached < l[n + 1].row)
                     THEN Append(v.drawn, l[n + 1].id) ELSE v.drawn
        /\ w.shown = IF l[n + 1].kind = "ask" /\ l[n + 1].id \notin v.locked
                     THEN v.shown \cup {l[n + 1].id}
                     ELSE IF l[n + 1].kind = "resolved" THEN v.shown \ {l[n + 1].id} ELSE v.shown
        /\ w.locked = IF l[n + 1].kind = "resolved" /\ l[n + 1].id \in v.shown
                      THEN v.locked \cup {l[n + 1].id} ELSE v.locked
    <2>1. Drew(v, l[n + 1], w)
      BY LiveStep
    <2> QED
      BY <2>1 DEF Drew
  <1>3. Draws(w.drawn, v.reached, l, n + 1, r, s)
    BY <1>1, DrawsNext
  <1>5. Tells(w.shown, w.locked, l, n + 1, a)
    BY <1>1, TellsNext
  <1> QED
    BY <1>1, <1>3, <1>5

\* The frames a view holds, applied one after the other.
LEMMA HeldApplied ==
    ASSUME NEW r, NEW s \in Nat, NEW a \in AskStates, LogOK(r, s),
           NEW l, LineOK(l, r, a, s), InTurn(l),
           NEW k \in Seq(Frames), Len(k) <= Len(l), \A i \in 1..Len(k) : l[i] = k[i],
           NEW v \in Views, Draws(v.drawn, v.reached, l, 0, r, s),
           Tells(v.shown, v.locked, l, 0, a),
           NEW w, w = FoldLeft(ApplyLive, v, k)
    PROVE  /\ w \in Views
           /\ Draws(w.drawn, w.reached, l, Len(k), r, s)
           /\ Tells(w.shown, w.locked, l, Len(k), a)
  <1>1. Len(k) \in Nat /\ DOMAIN k = 1..Len(k) /\ Len(l) \in Nat
    BY LenProperties DEF LineOK
  <1>2. PICK h : Traces(h, "live", v, k, 0, w)
    BY <1>1, LiveFold
  <1> DEFINE Good(u, n) == /\ u \in Views
                           /\ Draws(u.drawn, u.reached, l, n, r, s)
                           /\ Tells(u.shown, u.locked, l, n, a)
             S == {n \in 0..Len(k) : Good(h[n], n)}
  <1>3. 0 \in S
    BY <1>1, <1>2 DEF Traces
  <1>4. ASSUME NEW n \in 0..Len(k), n \in S, n < Len(k) PROVE n + 1 \in S
    <2>1. n \in 0..Len(l) /\ n < Len(l) /\ n + 1 \in 1..Len(k) /\ n + 1 \in 0..Len(k)
      BY <1>1, <1>4
    <2>2. h[n + 1] = ApplyLive(h[n], k[n + 1])
      BY <1>2, <1>4 DEF Traces, Folded
    <2>3. k[n + 1] \in Frames /\ k[n + 1] = l[n + 1]
      BY <1>1, <2>1, ElementOfSeq
    <2>4. Good(h[n], n)
      BY <1>4
    <2>5. Good(h[n + 1], n + 1)
      BY <2>1, <2>2, <2>3, <2>4, ViewStep
    <2> QED
      BY <2>1, <2>5
  <1> HIDE DEF S
  <1>5. 0..Len(k) \subseteq S
    BY <1>1, <1>3, <1>4, UpTo
  <1>6. Len(k) \in S
    BY <1>1, <1>5
  <1>7. Good(h[Len(k)], Len(k))
    BY <1>6 DEF S
  <1> QED
    BY <1>2, <1>7 DEF Traces

-----------------------------------------------------------------------------
(* The desktop, step by step.                                              *)

\* What the host does in one of its steps.
Speaks(f) ==
    /\ Event(f, rows, asks, said, rows', asks', said')
    /\ f.seq = head + 1 /\ head' = head + 1 /\ log' = Capped(Append(log, f))
    /\ wire' = [c \in Clients |-> IF c = who /\ Listens(c) THEN Append(wire[c], f) ELSE wire[c]]
    /\ Quiet => phone.step = "idle"
    /\ count'.stops = count.stops
    /\ UNCHANGED <<who, desk, phone, screen>>

\* An update, an ask or a resolution is one frame, true of what it did.
LEMMA HostSpeaks ==
    ASSUME Types, RowsOK, Update \/ \E a \in Asks : Ask(a) \/ Resolve(a)
    PROVE  \E f \in Frames : Speaks(f)
  <1>1. said \in Nat /\ head \in Nat /\ rows \in Seq(Texts) /\ Len(rows) \in Nat /\ count \in Counts
        /\ asks \in AskStates
    BY DEF Types, RowsOK, LogOK, AskStates
  <1>2. CASE Update
    <2>1. said < MaxTexts /\ said' = said + 1 /\ said + 1 \in Texts /\ (Quiet => phone.step = "idle")
          /\ UNCHANGED <<who, asks, desk, phone, screen>>
      BY <1>1, <1>2, StreamAssumption DEF Update, MayAct, Texts
    <2>2. count'.stops = count.stops
      BY <1>1, <1>2 DEF Update, Counts
    <2>3. PICK row \in Nat : /\ Notify("update", said + 1, row)
                             /\ \/ rows' = rows /\ row = 0
                                \/ rows' = Append(rows, said + 1) /\ row = Len(rows) + 1
      BY <1>1, <1>2 DEF Update
    <2> DEFINE f == [seq |-> head + 1, kind |-> "update", id |-> said + 1, row |-> row]
    <2>4. f \in Frames
      BY <1>1, <2>1 DEF Frames, Kinds
    <2>5. f.seq = head + 1 /\ f.kind = "update" /\ f.id = said + 1 /\ f.row = row
      OBVIOUS
    <2>6. head' = head + 1 /\ log' = Capped(Append(log, f))
          /\ wire' = [c \in Clients |-> IF c = who /\ Listens(c) THEN Append(wire[c], f) ELSE wire[c]]
      BY <2>3 DEF Notify
    <2> HIDE DEF f
    <2>7. Event(f, rows, asks, said, rows', asks', said')
      BY <2>1, <2>3, <2>4, <2>5 DEF Event
    <2> QED
      BY <2>1, <2>2, <2>4, <2>5, <2>6, <2>7 DEF Speaks
  <1>3. ASSUME NEW a \in Asks, Ask(a) PROVE \E f \in Frames : Speaks(f)
    <2> DEFINE f == [seq |-> head + 1, kind |-> "ask", id |-> a, row |-> 0]
    <2>1. f \in Frames
      BY <1>1 DEF Frames, Kinds
    <2>2. f.seq = head + 1 /\ f.kind = "ask" /\ f.id = a
      OBVIOUS
    <2>3. head' = head + 1 /\ log' = Capped(Append(log, f))
          /\ wire' = [c \in Clients |-> IF c = who /\ Listens(c) THEN Append(wire[c], f) ELSE wire[c]]
      BY <1>3 DEF Ask, Notify
    <2> HIDE DEF f
    <2>4. asks[a] = "none" /\ asks' = [asks EXCEPT ![a] = "open"] /\ (Quiet => phone.step = "idle")
          /\ UNCHANGED <<who, rows, said, desk, phone, screen, count>>
      BY <1>3 DEF Ask, MayAct
    <2>5. Event(f, rows, asks, said, rows', asks', said')
      BY <2>1, <2>2, <2>4 DEF Event
    <2> QED
      BY <2>1, <2>2, <2>3, <2>4, <2>5 DEF Speaks
  <1>4. ASSUME NEW a \in Asks, Resolve(a) PROVE \E f \in Frames : Speaks(f)
    <2> DEFINE f == [seq |-> head + 1, kind |-> "resolved", id |-> a, row |-> 0]
    <2>1. f \in Frames
      BY <1>1 DEF Frames, Kinds
    <2>2. f.seq = head + 1 /\ f.kind = "resolved" /\ f.id = a
      OBVIOUS
    <2>3. head' = head + 1 /\ log' = Capped(Append(log, f))
          /\ wire' = [c \in Clients |-> IF c = who /\ Listens(c) THEN Append(wire[c], f) ELSE wire[c]]
      BY <1>4 DEF Resolve, Notify
    <2> HIDE DEF f
    <2>4. asks[a] = "open" /\ asks' = [asks EXCEPT ![a] = "settled"] /\ (Quiet => phone.step = "idle")
          /\ UNCHANGED <<who, rows, said, desk, phone, screen, count>>
      BY <1>4 DEF Resolve, MayAct
    <2>5. Event(f, rows, asks, said, rows', asks', said')
      BY <2>1, <2>2, <2>4 DEF Event
    <2> QED
      BY <2>1, <2>2, <2>3, <2>4, <2>5 DEF Speaks
  <1> QED
    BY <1>2, <1>3, <1>4

LEMMA RestOfTwo ==
    ASSUME NEW m \in Nat, NEW n \in Nat, NEW l, NEW w \in Seq(Frames), n = Len(w), Len(l) = m + n,
           \A i \in 1..(m + n) : ~(i <= m) => l[i] = w[i - m]
    PROVE  Rest(l, m, w)
  <1>1. ASSUME NEW i \in 1..n PROVE w[i] = l[i + m]
    <2>1. i + m \in 1..(m + n) /\ ~(i + m <= m) /\ i + m - m = i
      OBVIOUS
    <2>2. l[i + m] = w[i + m - m]
      BY <2>1
    <2> QED
      BY <2>1, <2>2
  <1> QED
    BY <1>1 DEF Rest

LEMMA ConcatIs ==
    ASSUME NEW q \in Seq(Frames), NEW w \in Seq(Frames), NEW l, l = q \o w
    PROVE  /\ l \in Seq(Frames) /\ Len(l) \in Nat /\ Len(q) \in Nat /\ Len(w) \in Nat
           /\ Rest(l, Len(q), w) /\ Len(q) <= Len(l)
           /\ \A i \in 1..Len(q) : l[i] = q[i]
  <1> DEFINE m == Len(q)
             n == Len(w)
  <1>1. m \in Nat /\ n \in Nat
    BY LenProperties
  <1>2. l \in Seq(Frames) /\ Len(l) = m + n
        /\ \A i \in 1..(m + n) : l[i] = IF i <= m THEN q[i] ELSE w[i - m]
    BY ConcatProperties
  <1> HIDE DEF m, n
  <1>3. \A i \in 1..m : l[i] = q[i]
    BY <1>1, <1>2
  <1>5. Len(l) = n + m /\ m <= Len(l)
    BY <1>1, <1>2
  <1>6. Rest(l, m, w)
    <2>1. \A i \in 1..(m + n) : ~(i <= m) => l[i] = w[i - m]
      BY <1>2
    <2>2. n = Len(w) /\ Len(l) = m + n
      BY <1>2 DEF n
    <2> QED
      BY <1>1, <2>1, <2>2, RestOfTwo
  <1> QED
    BY <1>1, <1>2, <1>3, <1>5, <1>6 DEF m, n

\* The view that holds its frames, and the view that has applied them, have the
\* same frames before them but for those.
LEMMA LineIs ==
    ASSUME Types
    PROVE  /\ wire.desk \in Seq(Frames) /\ desk.held \in Seq(Frames)
           /\ Line \in Seq(Frames) /\ Len(Line) \in Nat
           /\ Len(desk.held) \in Nat /\ Len(wire.desk) \in Nat
           /\ desk.at = "reading" =>
                 /\ Line = desk.held \o wire.desk
                 /\ Rest(Line, Len(desk.held), wire.desk)
                 /\ Len(desk.held) <= Len(Line)
                 /\ \A i \in 1..Len(desk.held) : Line[i] = desk.held[i]
           /\ desk.at # "reading" => Line = wire.desk
  <1>1. wire.desk \in Seq(Frames) /\ desk.held \in Seq(Frames)
    BY DEF Types, Clients, Views
  <1>2. Len(desk.held) \in Nat /\ Len(wire.desk) \in Nat
    BY <1>1, LenProperties
  <1>3. CASE desk.at = "reading"
    <2>1. PICK q, w, k : q = desk.held /\ w = wire.desk /\ k = Line
      OBVIOUS
    <2>2. q \in Seq(Frames) /\ w \in Seq(Frames) /\ k = q \o w
      BY <1>1, <1>3, <2>1 DEF Line
    <2>3. /\ k \in Seq(Frames) /\ Len(k) \in Nat /\ Len(q) \in Nat /\ Len(w) \in Nat
          /\ Rest(k, Len(q), w) /\ Len(q) <= Len(k)
          /\ \A i \in 1..Len(q) : k[i] = q[i]
      BY <2>2, ConcatIs
    <2> QED
      BY <1>1, <1>3, <2>1, <2>2, <2>3
  <1>4. CASE desk.at # "reading"
    BY <1>1, <1>2, <1>4 DEF Line
  <1> QED
    BY <1>3, <1>4

\* Nothing the desktop has to do with.
LEMMA DeskAside ==
    ASSUME Types, DeskOK, UNCHANGED <<who, rows, asks, said, desk>>, wire'.desk = wire.desk
    PROVE  DeskOK'
  <1>1. Line' = Line
    BY DEF Line
  <1> QED
    BY <1>1 DEF DeskOK

\* What the invariant says of the line alone.
LEMMA LineParts ==
    ASSUME Types, RowsOK, DeskOK
    PROVE  /\ Line \in Seq(Frames) /\ Len(Line) \in Nat /\ said \in Nat /\ asks \in AskStates
           /\ LogOK(rows, said) /\ LineOK(Line, rows, asks, said) /\ InTurn(Line)
           /\ \E b \in 0..Len(rows) : Behind(Line, 0, b, rows)
           /\ desk.locked \subseteq Asks
  BY LineIs DEF DeskOK, Types, AskStates, RowsOK, Views

\* A view with nothing before it.
LEMMA DeskEmpty ==
    ASSUME Types, LogOK(rows', said'), said' \in Nat, desk'.at = "closed", wire'.desk = <<>>
    PROVE  DeskOK'
  <1>1. Line' = <<>>
    BY DEF Line
  <1>2. LineOK(<<>>, rows', asks', said') /\ InTurn(<<>>) /\ Behind(<<>>, 0, Len(rows'), rows')
        /\ Len(rows') \in 0..Len(rows')
    BY EmptyLine
  <1> QED
    BY <1>1, <1>2 DEF DeskOK

LEMMA AppendConcat ==
    ASSUME NEW q \in Seq(Frames), NEW w \in Seq(Frames), NEW f \in Frames
    PROVE  q \o Append(w, f) = Append(q \o w, f)
  OBVIOUS

LEMMA DeskSpeaks ==
    ASSUME Types, RowsOK, DeskOK, NEW f \in Frames, Speaks(f)
    PROVE  DeskOK'
  <1>1. /\ Line \in Seq(Frames) /\ Len(Line) \in Nat /\ said \in Nat /\ asks \in AskStates
        /\ LogOK(rows, said) /\ LineOK(Line, rows, asks, said) /\ InTurn(Line)
        /\ desk.locked \subseteq Asks
    BY LineParts
  <1>2. PICK b \in 0..Len(rows) : Behind(Line, 0, b, rows)
    BY LineParts
  <1>3. Event(f, rows, asks, said, rows', asks', said') /\ desk' = desk /\ who' = who
        /\ wire' = [c \in Clients |-> IF c = who /\ Listens(c) THEN Append(wire[c], f) ELSE wire[c]]
    BY DEF Speaks
  <1>4. Onward(rows, asks, said, rows', asks', said')
    BY <1>1, <1>3, EventIsLater
  <1>5. LogOK(rows', said') /\ said' \in Nat
    BY <1>4 DEF Onward
  <1>6. CASE who = "desk"
    <2>1. wire'.desk = Append(wire.desk, f)
      BY <1>3, <1>6 DEF Clients, Listens
    <2>2. Line' = Append(Line, f)
      <3>1. CASE desk.at = "reading"
        <4>1. Line = desk.held \o wire.desk /\ desk.held \in Seq(Frames) /\ wire.desk \in Seq(Frames)
          BY <3>1, LineIs
        <4>2. Line' = desk.held \o Append(wire.desk, f)
          BY <1>3, <2>1, <3>1 DEF Line
        <4> QED
          BY <4>1, <4>2, AppendConcat
      <3>2. CASE desk.at # "reading"
        BY <1>3, <2>1, <3>2 DEF Line
      <3> QED
        BY <3>1, <3>2
    <2>3. LineOK(Append(Line, f), rows', asks', said') /\ InTurn(Append(Line, f))
      BY <1>1, <1>3, LineGrows
    <2>4. Behind(Append(Line, f), 0, b, rows') /\ b \in 0..Len(rows')
      BY <1>1, <1>2, <1>3, DrawsEvent
    <2>5. ASSUME NEW d, NEW reached, Draws(d, reached, Line, 0, rows, said)
          PROVE  Draws(d, reached, Append(Line, f), 0, rows', said')
      BY <1>1, <1>3, <2>5, DrawsLater
    <2>6. ASSUME NEW shown, NEW locked, locked \subseteq Asks, Tells(shown, locked, Line, 0, asks)
          PROVE  Tells(shown, locked, Append(Line, f), 0, asks')
      BY <1>1, <1>3, <2>6, TellsLater
    <2> QED
      BY <1>1, <1>3, <1>6, <2>2, <2>3, <2>4, <2>5, <2>6 DEF DeskOK
  <1>7. CASE who # "desk"
    <2>1. desk.at = "closed" /\ wire.desk = <<>>
      BY <1>7 DEF DeskOK
    <2>2. desk'.at = "closed" /\ wire'.desk = <<>>
      BY <1>3, <1>7, <2>1 DEF Clients
    <2> QED
      BY <1>5, <2>2, DeskEmpty
  <1> QED
    BY <1>6, <1>7

LEMMA DeskOpens ==
    ASSUME Types, RowsOK, DeskOK, Open
    PROVE  DeskOK'
  <1>1. who = "desk" /\ who' = who /\ desk.at = "closed" /\ wire' = wire
        /\ rows' = rows /\ asks' = asks /\ said' = said
    BY DEF Open
  <1>2. desk' = [NoView EXCEPT !.at = "reading"]
    BY DEF Open
  <1>3. desk'.at = "reading" /\ desk'.held = <<>> /\ desk'.locked = {}
        /\ desk'.reads = [text |-> NoAnswer, asks |-> NoAnswer]
    BY <1>2 DEF NoView
  <1>4. Line = wire.desk /\ wire.desk \in Seq(Frames)
    BY <1>1, LineIs
  <1>5. Line' = Line
    <2>1. Line' = <<>> \o wire.desk
      BY <1>1, <1>3 DEF Line
    <2> QED
      BY <1>4, <2>1
  <1>6. NoAnswer \notin TextAnswers /\ NoAnswer \notin AskAnswers
    BY DEF NoAnswer, TextAnswers, AskAnswers
  <1> QED
    BY <1>1, <1>3, <1>5, <1>6 DEF DeskOK

\* The view that held what came lets it go.
LEMMA DeskRest ==
    ASSUME Types, RowsOK, DeskOK, desk'.at # "reading", wire' = wire
    PROVE  /\ Line' = wire.desk /\ LineOK(wire.desk, rows, asks, said) /\ InTurn(wire.desk)
           /\ \E b \in 0..Len(rows) : Behind(wire.desk, 0, b, rows)
  <1>1. /\ Line \in Seq(Frames) /\ Len(Line) \in Nat /\ said \in Nat /\ asks \in AskStates
        /\ LogOK(rows, said) /\ LineOK(Line, rows, asks, said) /\ InTurn(Line)
        /\ \E b \in 0..Len(rows) : Behind(Line, 0, b, rows)
    BY LineParts
  <1>2. Line' = wire.desk
    BY DEF Line
  <1>3. CASE desk.at = "reading"
    <2>1. Rest(Line, Len(desk.held), wire.desk) /\ Len(desk.held) \in Nat /\ Len(desk.held) \in 0..Len(Line)
      BY <1>1, <1>3, LineIs
    <2>2. PICK b \in 0..Len(rows) : Behind(Line, Len(desk.held), b, rows)
      BY <1>1, <2>1, BehindAnywhere
    <2>3. /\ \A r, a, s : LineOK(Line, r, a, s) => LineOK(wire.desk, r, a, s)
          /\ InTurn(Line) => InTurn(wire.desk)
          /\ \A c, r : Behind(Line, Len(desk.held), c, r) => Behind(wire.desk, 0, c, r)
      BY <1>1, <2>1, RestOK
    <2> QED
      BY <1>1, <1>2, <2>2, <2>3
  <1>4. CASE desk.at # "reading"
    <2>1. Line = wire.desk
      BY <1>4, LineIs
    <2> QED
      BY <1>1, <1>2, <2>1
  <1> QED
    BY <1>3, <1>4

LEMMA DeskCloses ==
    ASSUME Types, RowsOK, DeskOK, Close \/ HydrateFails
    PROVE  DeskOK'
  <1>1. /\ UNCHANGED <<who, rows, asks, said, wire>>
        /\ desk.at # "closed" /\ desk'.at # "reading"
        /\ (desk'.at = "live" => desk'.error)
    <2>1. CASE Close
      BY <2>1 DEF Close, NoView
    <2>2. CASE HydrateFails
      BY <2>2 DEF HydrateFails, Types, Views
    <2> QED
      BY <2>1, <2>2
  <1>2. /\ Line' = wire.desk /\ LineOK(wire.desk, rows, asks, said) /\ InTurn(wire.desk)
        /\ \E b \in 0..Len(rows) : Behind(wire.desk, 0, b, rows)
    BY <1>1, DeskRest
  <1>3. who = "desk"
    BY <1>1 DEF DeskOK
  <1> QED
    BY <1>1, <1>2, <1>3 DEF DeskOK

LEMMA DeskReads ==
    ASSUME Types, RowsOK, DeskOK, ReadTranscript \/ ReadPending
    PROVE  DeskOK'
  <1>1. /\ Line \in Seq(Frames) /\ Len(Line) \in Nat /\ said \in Nat /\ asks \in AskStates
        /\ LogOK(rows, said) /\ LineOK(Line, rows, asks, said) /\ InTurn(Line)
        /\ \E b \in 0..Len(rows) : Behind(Line, 0, b, rows)
    BY LineParts
  <1>2. UNCHANGED <<who, rows, asks, said, wire>> /\ desk.at = "reading"
    BY DEF ReadTranscript, ReadPending, Reads
  <1>3. /\ desk'.at = desk.at /\ desk'.held = desk.held /\ desk'.locked = desk.locked
        /\ desk'.reads.text \in {desk.reads.text, Transcript, Error}
        /\ desk'.reads.asks \in {desk.reads.asks, PermissionPending, Error}
    BY DEF ReadTranscript, ReadPending, Reads, Types, Views
  <1>4. Line' = Line
    BY <1>2, <1>3 DEF Line
  <1>5. Error \notin TextAnswers /\ Error \notin AskAnswers
    BY DEF Error, TextAnswers, AskAnswers
  <1>6. Draws(Newest(rows), Len(rows), Line, 0, rows, said)
    BY <1>1, NewestDraws
  <1>7. Tells(Pending, {}, Line, 0, asks)
    BY PendingTells
  <1>8. /\ Transcript.events = Newest(rows) /\ Transcript.head = Len(rows)
        /\ PermissionPending.open = Pending
    BY DEF Transcript, PermissionPending
  <1>9. desk'.reads.text \in TextAnswers =>
           Draws(desk'.reads.text.events, desk'.reads.text.head, Line, 0, rows, said)
    BY <1>2, <1>3, <1>5, <1>6, <1>8 DEF DeskOK
  <1>10. desk'.reads.asks \in AskAnswers => Tells(desk'.reads.asks.open, {}, Line, 0, asks)
    BY <1>2, <1>3, <1>5, <1>7, <1>8 DEF DeskOK
  <1> QED
    BY <1>2, <1>3, <1>4, <1>9, <1>10 DEF DeskOK

\* Both answers are in: what was held is replayed over them.
LEMMA DeskHydrates ==
    ASSUME Types, RowsOK, DeskOK, Hydrate
    PROVE  DeskOK'
  <1>1. /\ Line \in Seq(Frames) /\ Len(Line) \in Nat /\ said \in Nat /\ asks \in AskStates
        /\ LogOK(rows, said) /\ LineOK(Line, rows, asks, said) /\ InTurn(Line)
    BY LineParts
  <1>2. /\ desk.at = "reading" /\ desk.reads.text \in TextAnswers
        /\ desk.reads.asks = Error \/ desk.reads.asks \in AskAnswers
        /\ Answered \in Views
        /\ Answered.drawn = desk.reads.text.events /\ Answered.reached = desk.reads.text.head
        /\ Answered.shown = (IF desk.reads.asks = Error THEN {} ELSE desk.reads.asks.open)
        /\ Answered.locked = desk.locked
        /\ desk' = [FoldLeft(ApplyLive, Answered, desk.held) EXCEPT
                      !.at = "live", !.held = <<>>, !.error = desk.reads.asks = Error]
        /\ UNCHANGED <<who, rows, asks, said, wire>>
    BY AnsweredIs
  <1> DEFINE w == FoldLeft(ApplyLive, Answered, desk.held)
  <1>3. desk.held \in Seq(Frames)
    BY LineIs
  <1>4. w \in Views
    BY <1>2, <1>3, LiveFoldType
  <1>5. desk' = [w EXCEPT !.at = "live", !.held = <<>>, !.error = desk.reads.asks = Error]
    BY <1>2
  <1>6. w = FoldLeft(ApplyLive, Answered, desk.held)
    OBVIOUS
  <1> HIDE DEF w
  <1>7. /\ desk'.at = "live" /\ desk'.drawn = w.drawn /\ desk'.reached = w.reached
        /\ desk'.shown = w.shown /\ desk'.locked = w.locked
        /\ desk'.error = (desk.reads.asks = Error)
    BY <1>4, <1>5 DEF Views
  <1>8. who = "desk"
    BY <1>2 DEF DeskOK
  <1>9. /\ Line' = wire.desk /\ LineOK(wire.desk, rows, asks, said) /\ InTurn(wire.desk)
        /\ \E b \in 0..Len(rows) : Behind(wire.desk, 0, b, rows)
    BY <1>2, <1>7, DeskRest
  <1>10. ASSUME desk.reads.asks # Error
         PROVE  /\ Draws(w.drawn, w.reached, wire.desk, 0, rows, said)
                /\ Tells(w.shown, w.locked, wire.desk, 0, asks)
    <2>1. desk.reads.asks \in AskAnswers /\ Answered.shown = desk.reads.asks.open
          /\ Answered.locked = {}
      BY <1>2, <1>10 DEF DeskOK
    <2>2. Draws(Answered.drawn, Answered.reached, Line, 0, rows, said)
      BY <1>2 DEF DeskOK
    <2>3. Tells(Answered.shown, Answered.locked, Line, 0, asks)
      BY <1>2, <2>1 DEF DeskOK
    <2>4. /\ Rest(Line, Len(desk.held), wire.desk) /\ Len(desk.held) \in Nat
          /\ Len(desk.held) <= Len(Line) /\ \A i \in 1..Len(desk.held) : Line[i] = desk.held[i]
      BY <1>2, LineIs
    <2>5. /\ Draws(w.drawn, w.reached, Line, Len(desk.held), rows, said)
          /\ Tells(w.shown, w.locked, Line, Len(desk.held), asks)
      BY <1>1, <1>2, <1>3, <1>6, <2>2, <2>3, <2>4, HeldApplied
    <2>6. /\ \A d, reached, r, s : Draws(d, reached, Line, Len(desk.held), r, s)
                 => Draws(d, reached, wire.desk, 0, r, s)
          /\ \A shown, locked, a : Tells(shown, locked, Line, Len(desk.held), a)
                 => Tells(shown, locked, wire.desk, 0, a)
      BY <1>1, <2>4, RestOK
    <2> QED
      BY <2>5, <2>6
  <1> QED
    BY <1>2, <1>7, <1>8, <1>9, <1>10 DEF DeskOK

\* A frame that moves from the wire to what is held leaves the line as it is.
LEMMA HeldThenRest ==
    ASSUME NEW q \in Seq(Frames), NEW w \in Seq(Frames), w # <<>>
    PROVE  Append(q, Head(w)) \o Tail(w) = q \o w
  OBVIOUS

\* A frame reaches the desktop: it is held while the view reads, or applied.
LEMMA DeskHearsOne ==
    ASSUME Types, RowsOK, DeskOK, DeskHears
    PROVE  DeskOK'
  <1>1. /\ Line \in Seq(Frames) /\ Len(Line) \in Nat /\ said \in Nat /\ asks \in AskStates
        /\ LogOK(rows, said) /\ LineOK(Line, rows, asks, said) /\ InTurn(Line)
        /\ \E b \in 0..Len(rows) : Behind(Line, 0, b, rows)
    BY LineParts
  <1>2. UNCHANGED <<who, rows, asks, said>> /\ wire.desk # <<>>
        /\ wire' = [wire EXCEPT !.desk = Tail(@)]
        /\ desk' = CASE desk.at = "closed" -> desk
                     [] desk.at = "reading" -> [desk EXCEPT !.held = Append(@, Head(wire.desk))]
                     [] desk.at = "live" -> ApplyLive(desk, Head(wire.desk))
    BY DEF DeskHears
  <1>3. wire'.desk = Tail(wire.desk)
    BY <1>2 DEF Types, Clients
  <1>4. who = "desk"
    BY <1>2 DEF DeskOK
  <1>5. /\ Head(wire.desk) \in Frames /\ Tail(wire.desk) \in Seq(Frames)
        /\ Head(wire.desk) = wire.desk[1]
        /\ Len(wire.desk) \in Nat \ {0} /\ Len(Tail(wire.desk)) = Len(wire.desk) - 1
        /\ \A i \in 1..(Len(wire.desk) - 1) : Tail(wire.desk)[i] = wire.desk[i + 1]
    <2>1. "desk" \in Clients
      BY DEF Clients
    <2> QED
      BY <1>2, <2>1, WireTail
  <1>6. CASE desk.at = "reading"
    <2>1. desk' = [desk EXCEPT !.held = Append(@, Head(wire.desk))]
      BY <1>2, <1>6
    <2>2. /\ desk'.at = desk.at /\ desk'.reads = desk.reads /\ desk'.locked = desk.locked
          /\ desk'.held = Append(desk.held, Head(wire.desk))
      BY <2>1 DEF Types, Views
    <2>3. Line = desk.held \o wire.desk /\ desk.held \in Seq(Frames) /\ wire.desk \in Seq(Frames)
      BY <1>6, LineIs
    <2>4. Line' = Append(desk.held, Head(wire.desk)) \o Tail(wire.desk)
      BY <1>3, <1>6, <2>2 DEF Line
    <2>5. Line' = Line
      BY <1>2, <2>3, <2>4, HeldThenRest
    <2> QED
      BY <1>2, <1>4, <1>6, <2>2, <2>5 DEF DeskOK
  <1>7. CASE desk.at # "reading"
    <2>1. Line = wire.desk
      BY <1>7, LineIs
    <2>2. Rest(wire.desk, 1, Tail(wire.desk))
      BY <1>5 DEF Rest
    <2>3. desk'.at = desk.at /\ desk'.error = desk.error
      <3>1. CASE desk.at = "closed"
        BY <1>2, <3>1
      <3>2. CASE desk.at = "live"
        <4>1. desk' = ApplyLive(desk, Head(wire.desk)) /\ desk \in Views
          BY <1>2, <3>2 DEF Types
        <4>2. Drew(desk, Head(wire.desk), desk')
          BY <1>5, <4>1, LiveStep
        <4> QED
          BY <4>2 DEF Drew
      <3> QED
        BY <1>7, <3>1, <3>2 DEF Types, Views
    <2>4. Line' = Tail(wire.desk)
      BY <1>3, <1>7, <2>3 DEF Line
    <2>5. /\ \A r, a, s : LineOK(wire.desk, r, a, s) => LineOK(Tail(wire.desk), r, a, s)
          /\ InTurn(wire.desk) => InTurn(Tail(wire.desk))
          /\ \A b, r : Behind(wire.desk, 1, b, r) => Behind(Tail(wire.desk), 0, b, r)
          /\ \A d, reached, r, s :
                Draws(d, reached, wire.desk, 1, r, s) => Draws(d, reached, Tail(wire.desk), 0, r, s)
          /\ \A shown, locked, a :
                Tells(shown, locked, wire.desk, 1, a) => Tells(shown, locked, Tail(wire.desk), 0, a)
      BY <1>5, <2>2, RestOK
    <2>6. LineOK(wire.desk, rows, asks, said) /\ InTurn(wire.desk) /\ 1 \in 0..Len(wire.desk)
          /\ 0 \in 0..Len(wire.desk) /\ 0 < Len(wire.desk)
          /\ \E b \in 0..Len(rows) : Behind(wire.desk, 0, b, rows)
      BY <1>1, <1>5, <2>1
    <2>7. \E b \in 0..Len(rows) : Behind(Tail(wire.desk), 0, b, rows)
      <3>1. PICK b \in 0..Len(rows) : Behind(wire.desk, 1, b, rows)
        BY <1>1, <2>6, BehindAnywhere
      <3> QED
        BY <2>5, <3>1
    <2>8. ASSUME desk.at = "live", ~desk.error
          PROVE  /\ Draws(desk'.drawn, desk'.reached, Tail(wire.desk), 0, rows, said)
                 /\ Tells(desk'.shown, desk'.locked, Tail(wire.desk), 0, asks)
      <3>1. desk' = ApplyLive(desk, wire.desk[0 + 1]) /\ desk \in Views /\ wire.desk[0 + 1] \in Frames
        BY <1>2, <1>5, <2>8 DEF Types
      <3>2. /\ Draws(desk.drawn, desk.reached, wire.desk, 0, rows, said)
            /\ Tells(desk.shown, desk.locked, wire.desk, 0, asks)
        BY <2>1, <2>8 DEF DeskOK
      <3>3. /\ Draws(desk'.drawn, desk'.reached, wire.desk, 0 + 1, rows, said)
            /\ Tells(desk'.shown, desk'.locked, wire.desk, 0 + 1, asks)
        BY <1>1, <2>6, <3>1, <3>2, ViewStep
      <3>4. 0 + 1 = 1
        OBVIOUS
      <3> QED
        BY <2>5, <3>3, <3>4
    <2> QED
      BY <1>2, <1>4, <1>7, <2>3, <2>4, <2>5, <2>6, <2>7, <2>8 DEF DeskOK
  <1> QED
    BY <1>6, <1>7

LEMMA InitDesk == Init => Types /\ RowsOK /\ DeskOK
  <1> SUFFICES ASSUME Init PROVE Types /\ RowsOK /\ DeskOK
    OBVIOUS
  <1>1. Types /\ RowsOK
    BY InitTypes, InitRows
  <1>2. desk = NoView /\ wire = [c \in Clients |-> <<>>] /\ rows = <<>> /\ said = 0
    BY DEF Init
  <1>3. desk.at = "closed" /\ wire.desk = <<>>
    BY <1>2 DEF NoView, Clients
  <1>4. Line = <<>>
    BY <1>3 DEF Line
  <1>5. LogOK(rows, said) /\ said \in Nat
    BY <1>1, <1>2 DEF RowsOK
  <1>6. LineOK(<<>>, rows, asks, said) /\ InTurn(<<>>) /\ Behind(<<>>, 0, Len(rows), rows)
        /\ Len(rows) \in 0..Len(rows)
    BY <1>5, EmptyLine
  <1> QED
    BY <1>1, <1>3, <1>4, <1>6 DEF DeskOK

\* Each step keeps what the desktop has true.
LEMMA StepDesk ==
    ASSUME Types, RowsOK, DeskOK, [Next]_vars
    PROVE  DeskOK'
  <1>1. ASSUME UNCHANGED <<who, rows, asks, said, desk>>, wire'.desk = wire.desk PROVE DeskOK'
    BY <1>1, DeskAside
  <1>2. CASE Update \/ \E a \in Asks : Ask(a) \/ Resolve(a)
    <2>1. PICK f \in Frames : Speaks(f)
      BY <1>2, HostSpeaks
    <2> QED
      BY <2>1, DeskSpeaks
  <1>3. CASE Open
    BY <1>3, DeskOpens
  <1>4. CASE Close \/ HydrateFails
    BY <1>4, DeskCloses
  <1>5. CASE ReadTranscript \/ ReadPending
    BY <1>5, DeskReads
  <1>6. CASE Hydrate
    BY <1>6, DeskHydrates
  <1>7. CASE DeskHears
    BY <1>7, DeskHearsOne
  <1>8. CASE OpenScreen \/ CloseScreen \/ ReadScreen \/ HydrateScreen
    BY <1>1, <1>8 DEF OpenScreen, CloseScreen, ReadScreen, HydrateScreen
  <1>9. CASE PhoneHears
    <2>1. UNCHANGED <<who, rows, asks, said, desk>> /\ wire' = [wire EXCEPT !.phone = Tail(@)]
      BY <1>9 DEF PhoneHears
    <2> QED
      BY <1>1, <2>1 DEF Types, Clients
  <1>10. CASE Reconnect \/ Refresh \/ AnswerRefresh \/ RefreshFails
    BY <1>1, <1>10 DEF Reconnect, Refresh, AnswerRefresh, RefreshFails
  <1>11. CASE Publish \/ AnswerResume \/ ResumeFails \/ Replay
    BY <1>1, <1>11 DEF Publish, AnswerResume, ResumeFails, Replay
  <1>12. CASE Drop \/ Disconnect
    <2>1. UNCHANGED <<who, rows, asks, said, desk>> /\ wire' = [wire EXCEPT !.phone = <<>>]
      BY <1>12 DEF Drop, Disconnect
    <2> QED
      BY <1>1, <2>1 DEF Types, Clients
  <1>13. CASE Restart
    <2>1. desk' = NoView /\ wire' = [c \in Clients |-> <<>>]
      BY <1>13 DEF Restart
    <2>2. desk'.at = "closed" /\ wire'.desk = <<>>
      BY <2>1 DEF NoView, Clients
    <2>3. LogOK(rows', said')
      BY StepRows DEF RowsOK
    <2>4. said' \in Nat
      BY StepTypes DEF Types
    <2> QED
      BY <2>2, <2>3, <2>4, DeskEmpty
  <1>14. CASE UNCHANGED vars
    BY <1>1, <1>14 DEF vars
  <1> QED
    BY <1>2, <1>3, <1>4, <1>5, <1>6, <1>7, <1>8, <1>9, <1>10, <1>11, <1>12, <1>13, <1>14 DEF Next
-----------------------------------------------------------------------------
(* What the desktop draws.                                                 *)

\* A sequence that repeats nothing has as many elements as its set.
LEMMA AsManyAsDrawn ==
    ASSUME NEW S, NEW q \in Seq(S), \A i, j \in 1..Len(q) : q[i] = q[j] => i = j
    PROVE  Cardinality(ToSet(q)) = Len(q)
  <1>1. Len(q) \in Nat /\ DOMAIN q = 1..Len(q) /\ q \in [1..Len(q) -> S]
    BY LenProperties
  <1>2. ToSet(q) = {q[i] : i \in 1..Len(q)}
    BY SetOf
  <1>3. IsFiniteSet(1..Len(q)) /\ Cardinality(1..Len(q)) = Len(q)
    BY <1>1, FS_Interval
  <1>4. q \in [1..Len(q) -> ToSet(q)]
    BY <1>1, <1>2
  <1>5. q \in Surjection(1..Len(q), ToSet(q))
    BY <1>2, <1>4 DEF Surjection
  <1>6. q \in Injection(1..Len(q), ToSet(q))
    BY <1>4 DEF Injection, IsInjective
  <1>7. Cardinality(ToSet(q)) = Cardinality(1..Len(q))
    BY <1>3, <1>5, <1>6, FS_Surjection
  <1> QED
    BY <1>3, <1>7

\* The rows between two, as a set.
LEMMA RowsBetween ==
    ASSUME NEW r \in Seq(Texts), NEW lo \in 0..Len(r), NEW up \in 0..Len(r), lo <= up
    PROVE  ToSet(SubSeq(r, lo + 1, up)) = {r[k] : k \in (lo + 1)..up}
  <1>1. Len(r) \in Nat /\ (\A i \in 1..Len(r) : r[i] \in Texts)
    BY LenProperties, ElementOfSeq
  <1> DEFINE d == SubSeq(r, lo + 1, up)
  <1>2. d \in Seq(Texts) /\ Len(d) = up - lo /\ \A i \in 1..(up - lo) : d[i] = r[lo + i]
    <2>1. \A i \in (lo + 1)..up : r[i] \in Texts
      BY <1>1
    <2>2. /\ SubSeq(r, lo + 1, up) \in Seq(Texts)
          /\ Len(SubSeq(r, lo + 1, up)) = IF lo + 1 <= up THEN up - (lo + 1) + 1 ELSE 0
          /\ \A i \in 1..(up - (lo + 1) + 1) : SubSeq(r, lo + 1, up)[i] = r[lo + 1 + i - 1]
      BY <1>1, <2>1, SubSeqProperties
    <2>3. \A i \in 1..(up - lo) : lo + 1 + i - 1 = lo + i /\ i \in 1..(up - (lo + 1) + 1)
      BY <1>1
    <2> QED
      BY <1>1, <2>2, <2>3
  <1> HIDE DEF d
  <1>3. ToSet(d) = {d[i] : i \in 1..Len(d)}
    BY <1>2, SetOf
  <1>4. \A i \in 1..(up - lo) : lo + i \in (lo + 1)..up
    BY <1>1
  <1>5. \A k \in (lo + 1)..up : k - lo \in 1..(up - lo) /\ lo + (k - lo) = k
    BY <1>1
  <1>6. \A x \in ToSet(d) : x \in {r[k] : k \in (lo + 1)..up}
    BY <1>2, <1>3, <1>4
  <1>7. ASSUME NEW k \in (lo + 1)..up PROVE r[k] \in ToSet(d)
    <2>1. d[k - lo] = r[lo + (k - lo)]
      BY <1>2, <1>5
    <2> QED
      BY <1>2, <1>3, <1>5, <2>1
  <1>8. ToSet(d) = {r[k] : k \in (lo + 1)..up}
    BY <1>6, <1>7
  <1> QED
    BY <1>8 DEF d

LEMMA RecentIs ==
    ASSUME Types, RowsOK, NEW d \in Seq(Texts), NEW lo \in 0..Len(rows), NEW up \in 0..Len(rows),
           lo <= up, lo = 0 \/ up - lo >= Window,
           \A k \in 1..Len(rows) : rows[k] \in ToSet(d) <=> lo < k /\ k <= up
    PROVE  IsRecent(d, up)
  <1>1. rows \in Seq(Texts) /\ Len(rows) \in Nat /\ ToSet(rows) = {rows[i] : i \in 1..Len(rows)}
    BY RowsAre DEF Types, RowsOK
  <1>2. ToSet(SubSeq(rows, lo + 1, up)) = {rows[k] : k \in (lo + 1)..up}
    BY <1>1, RowsBetween
  <1>3. \A k \in (lo + 1)..up : k \in 1..Len(rows) /\ lo < k /\ k <= up
    BY <1>1
  <1>4. \A k \in 1..Len(rows) : lo < k /\ k <= up => k \in (lo + 1)..up
    BY <1>1
  <1>5. ToSet(d) \cap ToSet(rows) = {rows[k] : k \in (lo + 1)..up}
    BY <1>1, <1>3, <1>4
  <1>6. up - lo \in 0..up /\ up - (up - lo) + 1 = lo + 1 /\ (up - lo >= Window \/ up - lo = up)
    BY <1>1
  <1>7. ToSet(d) \cap ToSet(rows) = ToSet(SubSeq(rows, up - (up - lo) + 1, up))
    BY <1>2, <1>5, <1>6
  <1> QED
    BY <1>6, <1>7 DEF IsRecent

LEMMA TypesOK ==
    ASSUME Types, RowsOK
    PROVE  TypeOK
  BY DEF TypeOK, Types, RowsOK, LogOK, Views, Screens, Phones, Unheard

\* What the invariant says of the view is what is wanted of it.
LEMMA DeskIsTrue ==
    ASSUME Types, RowsOK, DeskOK
    PROVE  DesktopIsTrue
  <1>1. TypeOK
    BY TypesOK
  <1> SUFFICES ASSUME desk.at = "live", ~desk.error
               PROVE  /\ Cardinality(ToSet(desk.drawn)) = Len(desk.drawn)
                      /\ InLogOrder(desk.drawn)
                      /\ \E upTo \in 0..Len(rows) : IsRecent(desk.drawn, upTo)
                      /\ wire.desk = <<>> =>
                           IsRecent(desk.drawn, Len(rows)) /\ desk.shown = Pending
    BY <1>1 DEF DesktopIsTrue
  <1>2. Line = wire.desk
    BY LineIs
  <1>3. /\ Draws(desk.drawn, desk.reached, wire.desk, 0, rows, said)
        /\ Tells(desk.shown, desk.locked, wire.desk, 0, asks)
    BY <1>2 DEF DeskOK
  <1>4. desk.drawn \in Seq(Texts) /\ desk.reached \in 0..Len(rows)
        /\ (\A i, j \in 1..Len(desk.drawn) : desk.drawn[i] = desk.drawn[j] => i = j)
    BY <1>3 DEF Draws
  <1>5. Cardinality(ToSet(desk.drawn)) = Len(desk.drawn)
    BY <1>4, AsManyAsDrawn
  <1>6. InLogOrder(desk.drawn)
    BY <1>3 DEF Draws, InLogOrder
  <1>7. PICK b, lo \in 0..Len(rows) :
          /\ Behind(wire.desk, 0, b, rows)
          /\ lo <= Furthest(b, desk.reached)
          /\ lo = 0 \/ Furthest(b, desk.reached) - lo >= Window
          /\ \A k \in 1..Len(rows) :
                rows[k] \in ToSet(desk.drawn) <=> lo < k /\ k <= Furthest(b, desk.reached)
    BY <1>3 DEF Draws
  <1>8. Len(rows) \in Nat
    BY LenProperties DEF RowsOK, LogOK
  <1>9. Furthest(b, desk.reached) \in 0..Len(rows)
    BY <1>4, <1>7, <1>8 DEF Furthest
  <1>10. IsRecent(desk.drawn, Furthest(b, desk.reached))
    BY <1>4, <1>7, <1>9, RecentIs
  <1>11. ASSUME wire.desk = <<>>
         PROVE  IsRecent(desk.drawn, Len(rows)) /\ desk.shown = Pending
    <2>1. Len(wire.desk) = 0
      BY <1>11
    <2>2. \A i \in 1..Len(wire.desk) : FALSE
      BY <2>1
    <2>3. ~(b < Len(rows))
      <3>1. b < Len(rows) => Len(rows) \in 1..Len(rows)
        BY <1>7, <1>8
      <3> QED
        BY <1>7, <2>2, <3>1 DEF Behind
    <2>4. Furthest(b, desk.reached) = Len(rows)
      BY <1>4, <1>7, <1>8, <2>3 DEF Furthest
    <2>5. desk.shown = Pending
      <3>1. /\ desk.shown \subseteq Asks
            /\ \A x \in Asks : asks[x] = "open" => x \in desk.shown
            /\ \A x \in desk.shown : asks[x] # "none" /\ asks[x] # "settled"
        BY <1>3, <2>2 DEF Tells
      <3>2. \A x \in Asks : asks[x] \in {"none", "open", "settled"}
        BY DEF Types
      <3> QED
        BY <3>1, <3>2 DEF Pending
    <2> QED
      BY <1>10, <2>4, <2>5
  <1> QED
    BY <1>5, <1>6, <1>9, <1>10, <1>11

-----------------------------------------------------------------------------
\* In every behaviour of the thread and its clients the desktop's view is true
\* to the log and to the asks the host is holding (DesktopIsTrue: the
\* subscription, the replay and the frames of views/transcript.ts).

\* Whatever arrives while the view reads, whichever read fails, wherever the host
\* stops: a view that is open has drawn each row once and in the order of the log, and
\* once nothing is on its way it has the newest row and the cards that can be answered
\* (useThreadTranscript, applyAcpEvent).
THEOREM DesktopIsAlwaysTrue == Spec => []DesktopIsTrue
  <1>1. Init => Types /\ RowsOK /\ DeskOK
    BY InitDesk
  <1>2. Types /\ RowsOK /\ DeskOK /\ [Next]_vars => (Types /\ RowsOK /\ DeskOK)'
    BY StepTypes, StepRows, StepDesk
  <1>3. Types /\ RowsOK /\ DeskOK => DesktopIsTrue
    BY DeskIsTrue
  <1> QED
    BY <1>1, <1>2, <1>3, PTL DEF Spec

-----------------------------------------------------------------------------
(* The phone: numbered lines.                                              *)

\* A numbered line stays one when the next number is sent.
LEMMA NumberedGrows ==
    ASSUME NEW l \in Seq(Frames), NEW h \in Nat, Numbered(l, h), NEW f \in Frames, f.seq = h + 1
    PROVE  Numbered(Append(l, f), h + 1)
  <1>1. Len(l) \in Nat /\ Len(Append(l, f)) = Len(l) + 1 /\ Append(l, f)[Len(l) + 1] = f
        /\ \A i \in 1..Len(l) : Append(l, f)[i] = l[i]
    BY AppendProperties, LenProperties
  <1>2. ASSUME NEW i \in 1..(Len(l) + 1) PROVE Append(l, f)[i].seq = h + 1 - (Len(l) + 1) + i
    <2>1. CASE i \in 1..Len(l)
      <3>1. Append(l, f)[i].seq = h - Len(l) + i
        BY <1>1, <2>1 DEF Numbered
      <3> QED
        BY <1>1, <3>1
    <2>2. CASE i = Len(l) + 1
      BY <1>1, <2>2
    <2> QED
      BY <1>1, <2>1, <2>2
  <1>3. Len(l) <= h
    BY DEF Numbered
  <1> QED
    BY <1>1, <1>2, <1>3 DEF Numbered

LEMMA NumberedRest ==
    ASSUME NEW l, Len(l) \in Nat, NEW h \in Nat, Numbered(l, h), NEW n \in Nat, NEW k, Rest(l, n, k)
    PROVE  Numbered(k, h)
  <1>1. Len(k) \in Nat /\ Len(l) = Len(k) + n
    BY LenProperties DEF Rest
  <1>2. ASSUME NEW i \in 1..Len(k) PROVE k[i].seq = h - Len(k) + i
    <2>1. i + n \in 1..Len(l)
      BY <1>1
    <2>2. l[i + n].seq = h - Len(l) + (i + n)
      BY <2>1 DEF Numbered
    <2>3. k[i] = l[i + n]
      BY DEF Rest
    <2> QED
      BY <1>1, <2>2, <2>3
  <1>3. Len(l) <= h
    BY DEF Numbered
  <1> QED
    BY <1>1, <1>2, <1>3 DEF Numbered

LEMMA TailRest ==
    ASSUME NEW l \in Seq(Frames), l # <<>>
    PROVE  Rest(l, 1, Tail(l)) /\ Len(l) \in Nat /\ 1 \in 0..Len(l)
  <1>1. Tail(l) \in Seq(Frames) /\ Len(Tail(l)) = Len(l) - 1
        /\ \A i \in 1..Len(Tail(l)) : Tail(l)[i] = l[i + 1]
    BY HeadTailProperties
  <1>2. Len(l) \in Nat /\ Len(l) # 0
    BY LenProperties, EmptySeq
  <1> QED
    BY <1>1, <1>2 DEF Rest

\* The number of a frame is between those of the first and of the last.
LEMMA NumbersIn ==
    ASSUME NEW l \in Seq(Frames), NEW h \in Nat, Numbered(l, h)
    PROVE  /\ Len(l) \in Nat
           /\ \A i \in 1..Len(l) : l[i].seq <= h /\ l[i].seq > h - Len(l) /\ l[i].seq = h - Len(l) + i
  <1>1. Len(l) \in Nat
    BY LenProperties
  <1>2. \A i \in 1..Len(l) : l[i].seq = h - Len(l) + i
    BY DEF Numbered
  <1> QED
    BY <1>1, <1>2

\* Log and wire get the same frame, and go on to agree.
LEMMA AgreeGrows ==
    ASSUME NEW k \in Seq(Frames), NEW l \in Seq(Frames), NEW h \in Nat, Numbered(k, h), Numbered(l, h),
           Agree(k, l), NEW f \in Frames, f.seq = h + 1
    PROVE  Agree(Append(k, f), Append(l, f))
  <1>1. /\ Len(k) \in Nat /\ Len(l) \in Nat
        /\ \A i \in 1..Len(k) : k[i].seq <= h
        /\ \A i \in 1..Len(l) : l[i].seq <= h
    BY NumbersIn
  <1>2. \A i \in 1..Len(k) : k[i].seq \in Nat
    BY FrameFacts, ElementOfSeq
  <1>3. \A i \in 1..Len(l) : l[i].seq \in Nat
    BY FrameFacts, ElementOfSeq
  <1>4. /\ Len(Append(k, f)) = Len(k) + 1 /\ Append(k, f)[Len(k) + 1] = f
        /\ \A i \in 1..Len(k) : Append(k, f)[i] = k[i]
    BY AppendProperties
  <1>5. /\ Len(Append(l, f)) = Len(l) + 1 /\ Append(l, f)[Len(l) + 1] = f
        /\ \A i \in 1..Len(l) : Append(l, f)[i] = l[i]
    BY AppendProperties
  <1> SUFFICES ASSUME NEW i \in 1..(Len(k) + 1), NEW j \in 1..(Len(l) + 1),
                      Append(k, f)[i].seq = Append(l, f)[j].seq
               PROVE  Append(k, f)[i] = Append(l, f)[j]
    BY <1>4, <1>5 DEF Agree
  <1>6. i \in 1..Len(k) \/ i = Len(k) + 1
    BY <1>1
  <1>7. j \in 1..Len(l) \/ j = Len(l) + 1
    BY <1>1
  <1>8. CASE i \in 1..Len(k) /\ j \in 1..Len(l)
    BY <1>4, <1>5, <1>8 DEF Agree
  <1>9. CASE i = Len(k) + 1 /\ j \in 1..Len(l)
    BY <1>1, <1>3, <1>4, <1>5, <1>9
  <1>10. CASE i \in 1..Len(k) /\ j = Len(l) + 1
    BY <1>1, <1>2, <1>4, <1>5, <1>10
  <1>11. CASE i = Len(k) + 1 /\ j = Len(l) + 1
    BY <1>4, <1>5, <1>11
  <1> QED
    BY <1>6, <1>7, <1>8, <1>9, <1>10, <1>11

LEMMA AgreeRest ==
    ASSUME NEW k, NEW l, Len(k) \in Nat, Len(l) \in Nat, Agree(k, l)
    PROVE  /\ \A n \in Nat : \A q : Rest(k, n, q) => Agree(q, l)
           /\ \A n \in Nat : \A q : Rest(l, n, q) => Agree(k, q)
  <1>1. ASSUME NEW n \in Nat, NEW q, Rest(k, n, q) PROVE Agree(q, l)
    <2>1. Len(q) \in Nat /\ Len(k) = Len(q) + n /\ \A i \in 1..Len(q) : q[i] = k[i + n]
      BY <1>1, LenProperties DEF Rest
    <2>2. \A i \in 1..Len(q) : i + n \in 1..Len(k)
      BY <2>1
    <2> QED
      BY <2>1, <2>2 DEF Agree
  <1>2. ASSUME NEW n \in Nat, NEW q, Rest(l, n, q) PROVE Agree(k, q)
    <2>1. Len(q) \in Nat /\ Len(l) = Len(q) + n /\ \A i \in 1..Len(q) : q[i] = l[i + n]
      BY <1>2, LenProperties DEF Rest
    <2>2. \A i \in 1..Len(q) : i + n \in 1..Len(l)
      BY <2>1
    <2> QED
      BY <2>1, <2>2 DEF Agree
  <1> QED
    BY <1>1, <1>2

-----------------------------------------------------------------------------
(* What is later than a number.                                            *)

Rising(l) == \A i, j \in 1..Len(l) : i < j => l[i].seq < l[j].seq

LEMMA NumberedRises ==
    ASSUME NEW l \in Seq(Frames), NEW h \in Nat, Numbered(l, h)
    PROVE  Rising(l)
  BY NumbersIn DEF Rising

\* Of a line that rises it is the end.
LEMMA LaterIs ==
    ASSUME NEW l \in Seq(Frames), Rising(l), NEW s \in Int
    PROVE  \E n \in 0..Len(l) : /\ Rest(l, n, Later(l, s))
                                /\ \A i \in 1..n : l[i].seq <= s
                                /\ \A i \in (n + 1)..Len(l) : l[i].seq > s
  <1>1. Len(l) \in Nat /\ DOMAIN l = 1..Len(l) /\ (\A i \in 1..Len(l) : l[i] \in Frames /\ l[i].seq \in Nat)
    BY LenProperties, ElementOfSeq, FrameFacts
  <1>2. PICK h : Traces(h, "later", <<>>, l, s, Later(l, s))
    BY <1>1, LaterFold
  <1> DEFINE Good(q, j, n) == /\ q \in Seq(Frames) /\ Len(q) = j - n
                              /\ \A i \in 1..(j - n) : q[i] = l[i + n]
                              /\ \A i \in 1..n : l[i].seq <= s
                              /\ \A i \in (n + 1)..j : l[i].seq > s
             S == {j \in 0..Len(l) : \E n \in 0..j : Good(h[j], j, n)}
  <1>3. 0 \in S
    <2>1. h[0] = <<>>
      BY <1>2 DEF Traces
    <2>2. <<>> \in Seq(Frames) /\ Len(<<>>) = 0
      OBVIOUS
    <2>3. h[0] \in Seq(Frames) /\ Len(h[0]) = 0
      BY <2>1, <2>2, Zenon
    <2>4. Good(h[0], 0, 0)
      BY <2>3
    <2> QED
      BY <1>1, <2>4
  <1>4. ASSUME NEW j \in 0..Len(l), j \in S, j < Len(l) PROVE j + 1 \in S
    <2>1. PICK n \in 0..j : Good(h[j], j, n)
      BY <1>4
    <2>2. h[j + 1] = IF l[j + 1].seq > s THEN Append(h[j], l[j + 1]) ELSE h[j]
      BY <1>2, <1>4 DEF Traces, Folded
    <2>3. j + 1 \in 1..Len(l) /\ j + 1 \in 0..Len(l) /\ l[j + 1] \in Frames
      BY <1>1, <1>4
    <2>4. CASE l[j + 1].seq > s
      <3>1. h[j + 1] = Append(h[j], l[j + 1])
        BY <2>2, <2>4
      <3>2. /\ h[j + 1] \in Seq(Frames) /\ Len(h[j + 1]) = Len(h[j]) + 1
            /\ h[j + 1][Len(h[j]) + 1] = l[j + 1]
            /\ \A i \in 1..Len(h[j]) : h[j + 1][i] = h[j][i]
        BY <2>1, <2>3, <3>1, AppendProperties
      <3>3. Len(h[j + 1]) = (j + 1) - n /\ n \in 0..(j + 1)
        BY <1>1, <2>1, <3>2
      <3>4. ASSUME NEW i \in 1..((j + 1) - n) PROVE h[j + 1][i] = l[i + n]
        <4>1. CASE i \in 1..(j - n)
          BY <2>1, <3>2, <4>1
        <4>2. CASE i = j - n + 1
          <5>1. i + n = j + 1 /\ i = Len(h[j]) + 1
            BY <1>1, <2>1, <4>2
          <5> QED
            BY <3>2, <5>1
        <4> QED
          BY <1>1, <4>1, <4>2
      <3>5. \A i \in (n + 1)..(j + 1) : l[i].seq > s
        <4>1. \A i \in (n + 1)..(j + 1) : i \in (n + 1)..j \/ i = j + 1
          BY <1>1
        <4> QED
          BY <2>1, <2>4, <4>1
      <3>6. Good(h[j + 1], j + 1, n)
        BY <2>1, <3>2, <3>3, <3>4, <3>5
      <3> QED
        BY <2>3, <3>3, <3>6
    <2>5. CASE ~(l[j + 1].seq > s)
      <3>1. h[j + 1] = h[j] /\ l[j + 1].seq <= s
        BY <1>1, <2>2, <2>3, <2>5
      <3>2. n = j
        <4>1. SUFFICES ASSUME n < j PROVE FALSE
          BY <1>1
        <4>2. j \in (n + 1)..j /\ j \in 1..Len(l) /\ j < j + 1
          BY <1>1, <1>4, <4>1
        <4>3. l[j].seq > s /\ l[j].seq < l[j + 1].seq
          BY <2>1, <2>3, <4>2 DEF Rising
        <4> QED
          BY <1>1, <2>3, <3>1, <4>2, <4>3
      <3>3. \A i \in 1..(j + 1) : i \in 1..n \/ i = j + 1
        BY <1>1, <3>2
      <3>4. \A i \in 1..(j + 1) : l[i].seq <= s
        BY <2>1, <3>1, <3>3
      <3>5. (j + 1) - (j + 1) = 0 /\ j + 1 \in 0..(j + 1) /\ Len(h[j]) = 0
        BY <1>1, <2>1, <3>2
      <3>6. Good(h[j + 1], j + 1, j + 1)
        BY <1>1, <2>1, <3>1, <3>4, <3>5
      <3> QED
        BY <2>3, <3>5, <3>6
    <2> QED
      BY <2>4, <2>5
  <1> HIDE DEF S
  <1>5. 0..Len(l) \subseteq S
    BY <1>1, <1>3, <1>4, UpTo
  <1>6. Len(l) \in S
    BY <1>1, <1>5
  <1>7. PICK n \in 0..Len(l) : Good(h[Len(l)], Len(l), n)
    BY <1>6 DEF S
  <1>8. h[Len(l)] = Later(l, s)
    BY <1>2 DEF Traces
  <1>9. Good(Later(l, s), Len(l), n)
    BY <1>7, <1>8
  <1>10. Len(l) = Len(Later(l, s)) + n
    <2>1. Len(Later(l, s)) = Len(l) - n
      BY <1>9
    <2> QED
      BY <1>1, <2>1
  <1>11. \A i \in 1..Len(Later(l, s)) : Later(l, s)[i] = l[i + n]
    BY <1>9
  <1> QED
    BY <1>9, <1>10, <1>11 DEF Rest

\* And what is later already stays as it is.
LEMMA LaterTwice ==
    ASSUME NEW l \in Seq(Frames), Rising(l), NEW s \in Int
    PROVE  Later(Later(l, s), s) = Later(l, s)
  <1>1. PICK n \in 0..Len(l) : /\ Rest(l, n, Later(l, s))
                               /\ \A i \in 1..n : l[i].seq <= s
                               /\ \A i \in (n + 1)..Len(l) : l[i].seq > s
    BY LaterIs
  <1>0. \A j \in (n + 1)..Len(l) : l[j].seq > s
    BY <1>1
  <1> DEFINE k == Later(l, s)
  <1>2. Len(l) \in Nat /\ k \in Seq(Frames) /\ Len(k) \in Nat /\ Len(l) = Len(k) + n
        /\ \A i \in 1..Len(k) : k[i] = l[i + n]
    BY <1>1, LenProperties DEF Rest
  <1> HIDE DEF k
  <1>3. \A i \in 1..Len(k) : i + n \in (n + 1)..Len(l) /\ i + n \in 1..Len(l)
    BY <1>2
  <1>4. \A i \in 1..Len(k) : k[i].seq > s /\ k[i].seq \in Nat
    <2>1. \A i \in 1..Len(k) : k[i] \in Frames
      BY <1>2, ElementOfSeq
    <2>2. ASSUME NEW i \in 1..Len(k) PROVE k[i].seq > s
      <3>1. i + n \in (n + 1)..Len(l)
        BY <1>3
      <3>3. l[i + n].seq > s
        BY <1>0, <3>1
      <3>4. k[i] = l[i + n]
        BY <1>2
      <3> QED
        BY <3>3, <3>4
    <2> QED
      BY <2>1, <2>2, FrameFacts
  <1>5. Rising(k)
    <2>1. \A i, j \in 1..Len(k) : i < j => i + n < j + n
      BY <1>2
    <2> QED
      BY <1>2, <1>3, <2>1 DEF Rising
  <1>6. PICK m \in 0..Len(k) : Rest(k, m, Later(k, s)) /\ \A i \in 1..m : k[i].seq <= s
    BY <1>2, <1>5, LaterIs
  <1>7. m = 0
    <2>1. SUFFICES ASSUME m # 0 PROVE FALSE
      OBVIOUS
    <2>2. 1 \in 1..m /\ 1 \in 1..Len(k)
      BY <1>2, <2>1
    <2> QED
      BY <1>4, <1>6, <2>2
  <1>8. Later(k, s) \in Seq(Frames) /\ Len(k) = Len(Later(k, s))
        /\ \A i \in 1..Len(Later(k, s)) : Later(k, s)[i] = k[i]
    <2>1. Later(k, s) \in Seq(Frames) /\ Len(k) = Len(Later(k, s)) + 0
          /\ \A i \in 1..Len(Later(k, s)) : Later(k, s)[i] = k[i + 0]
      BY <1>6, <1>7 DEF Rest
    <2>2. Len(Later(k, s)) \in Nat
      BY <2>1, LenProperties
    <2>3. \A i \in 1..Len(Later(k, s)) : i + 0 = i
      BY <2>2
    <2> QED
      BY <2>1, <2>2, <2>3
  <1>9. Later(k, s) = k
    BY <1>2, <1>8, SeqEqual
  <1> QED
    BY <1>9 DEF k

-----------------------------------------------------------------------------
(* The phone's screen.                                                     *)

\* What a screen draws of those frames.
Ids(frames, reached) == {f.id : f \in {g \in frames : g.row > reached}}

LEMMA FramesOf ==
    ASSUME NEW l \in Seq(Frames)
    PROVE  ToSet(l) = {l[i] : i \in 1..Len(l)} /\ ToSet(l) \subseteq Frames /\ Len(l) \in Nat
  BY SetOf, ElementOfSeq, LenProperties

\* A frame past the replay draws its row.
LEMMA IdIsRow ==
    ASSUME NEW r, NEW s, NEW a, NEW f \in Frames, Told(f, r, a, s), NEW n \in Nat, f.row > n
    PROVE  f.kind = "update" /\ f.row \in 1..Len(r) /\ r[f.row] = f.id
  <1>1. f.row \in Nat /\ f.row # 0 /\ f.kind = "update"
    BY FrameFacts
  <1> QED
    BY <1>1 DEF Told

LEMMA OpenedMore ==
    ASSUME NEW r, NEW s \in Nat, NEW a, LogOK(r, s), NEW F \in SUBSET Frames,
           \A f \in F : Told(f, r, a, s), NEW drawn, NEW reached, Opened(drawn, reached, r)
    PROVE  Opened(drawn \cup Ids(F, reached), reached, r)
  <1>1. r \in Seq(Texts) /\ Len(r) \in Nat /\ ToSet(r) = {r[i] : i \in 1..Len(r)}
        /\ (\A i, j \in 1..Len(r) : r[i] = r[j] => i = j)
    BY RowsAre
  <1>2. drawn \subseteq ToSet(r) /\ reached \in 0..Len(r) /\ reached \in Nat
    BY <1>1 DEF Opened
  <1>3. PICK lo \in 0..reached :
          /\ lo = 0 \/ reached - lo >= Window
          /\ \A k \in 1..Len(r) : r[k] \in drawn => lo < k
          /\ \A k \in 1..reached : lo < k => r[k] \in drawn
    BY DEF Opened
  <1>4. ASSUME NEW x \in Ids(F, reached)
        PROVE  \E k \in 1..Len(r) : reached < k /\ r[k] = x
    <2>1. PICK f \in F : f.row > reached /\ x = f.id
      BY <1>4 DEF Ids
    <2>2. f.row \in 1..Len(r) /\ r[f.row] = f.id
      BY <1>2, <2>1, IdIsRow
    <2>3. reached < f.row
      BY <1>1, <1>2, <2>1, <2>2
    <2> QED
      BY <2>1, <2>2, <2>3
  <1>5. Ids(F, reached) \subseteq ToSet(r)
    BY <1>1, <1>4
  <1>6. ASSUME NEW k \in 1..Len(r), r[k] \in drawn \cup Ids(F, reached) PROVE lo < k
    <2>1. CASE r[k] \in drawn
      BY <1>3, <2>1
    <2>2. CASE r[k] \in Ids(F, reached)
      <3>1. PICK j \in 1..Len(r) : reached < j /\ r[j] = r[k]
        BY <1>4, <2>2
      <3>2. j = k
        BY <1>1, <3>1
      <3> QED
        BY <1>1, <1>2, <3>1, <3>2
    <2> QED
      BY <1>6, <2>1, <2>2
  <1> QED
    BY <1>2, <1>3, <1>5, <1>6 DEF Opened

\* What a screen has drawn stays what it was when the log grows.
LEMMA OpenedLater ==
    ASSUME NEW r, NEW s \in Nat, NEW a, LogOK(r, s), NEW r2, NEW a2, NEW s2,
           Onward(r, a, s, r2, a2, s2), NEW drawn, NEW reached, Opened(drawn, reached, r)
    PROVE  Opened(drawn, reached, r2)
  <1>1. Len(r) \in Nat /\ ToSet(r) = {r[i] : i \in 1..Len(r)}
    BY RowsAre
  <1>2. LogOK(r2, s2) /\ s2 \in Nat /\ Len(r) <= Len(r2) /\ \A i \in 1..Len(r) : r2[i] = r[i]
    BY DEF Onward
  <1>3. Len(r2) \in Nat /\ ToSet(r2) = {r2[i] : i \in 1..Len(r2)}
    BY <1>2, RowsAre
  <1>4. drawn \subseteq ToSet(r) /\ reached \in 0..Len(r)
    BY DEF Opened
  <1>5. PICK lo \in 0..reached :
          /\ lo = 0 \/ reached - lo >= Window
          /\ \A k \in 1..Len(r) : r[k] \in drawn => lo < k
          /\ \A k \in 1..reached : lo < k => r[k] \in drawn
    BY DEF Opened
  <1>6. ToSet(r) \subseteq ToSet(r2)
    <2>1. \A i \in 1..Len(r) : i \in 1..Len(r2)
      BY <1>1, <1>2, <1>3
    <2> QED
      BY <1>1, <1>2, <1>3, <2>1
  <1>7. ASSUME NEW k \in 1..Len(r2), r2[k] \in drawn PROVE lo < k
    <2>1. CASE k <= Len(r)
      <3>1. k \in 1..Len(r)
        BY <1>1, <1>3, <2>1
      <3> QED
        BY <1>2, <1>5, <1>7, <3>1
    <2>2. CASE ~(k <= Len(r))
      BY <1>1, <1>3, <1>4, <2>2
    <2> QED
      BY <2>1, <2>2
  <1>8. ASSUME NEW k \in 1..reached, lo < k PROVE r2[k] \in drawn
    <2>1. k \in 1..Len(r)
      BY <1>1, <1>4
    <2> QED
      BY <1>2, <1>5, <1>8, <2>1
  <1>9. reached \in 0..Len(r2)
    BY <1>1, <1>2, <1>3, <1>4
  <1> QED
    BY <1>4, <1>5, <1>6, <1>7, <1>8, <1>9 DEF Opened

\* What covers the rows covers them with more frames, or with more drawn.
LEMMA CoversMore ==
    ASSUME NEW r, NEW F, NEW G, F \subseteq G, NEW from, NEW drawn, NEW more, drawn \subseteq more,
           NEW reached, Covers(F, from, drawn, reached, r)
    PROVE  Covers(G, from, more, reached, r)
  BY DEF Covers

\* A row that is new is on the frame that tells it.
LEMMA CoversEvent ==
    ASSUME NEW r, NEW s \in Nat, NEW a \in AskStates, LogOK(r, s),
           NEW f, NEW r2, NEW a2, NEW s2, Event(f, r, a, s, r2, a2, s2),
           NEW F, NEW from, NEW drawn, NEW reached, Covers(F, from, drawn, reached, r),
           f.seq > from, NEW G, \A g \in F \cup {f} : g.seq > from => g \in G
    PROVE  Covers(G, from, drawn, reached, r2)
  <1>1. Len(r) \in Nat /\ r \in Seq(Texts)
    BY RowsAre
  <1> SUFFICES ASSUME NEW k \in 1..Len(r2), reached < k, r2[k] \notin drawn
               PROVE  \E g \in G : g.seq > from /\ g.row = k
    BY DEF Covers
  <1>2. \/ r2 = r
        \/ r2 = Append(r, s + 1) /\ f.row = Len(r) + 1
    BY DEF Event
  <1>3. CASE k \in 1..Len(r)
    <2>1. r2[k] = r[k]
      <3>1. Onward(r, a, s, r2, a2, s2)
        BY EventIsLater
      <3> QED
        BY <1>3, <3>1 DEF Onward
    <2>2. PICK g \in F : g.seq > from /\ g.row = k
      BY <1>3, <2>1 DEF Covers
    <2> QED
      BY <2>2
  <1>4. CASE k \notin 1..Len(r)
    <2>1. r2 = Append(r, s + 1) /\ f.row = Len(r) + 1
      BY <1>2, <1>4
    <2>2. Len(r2) = Len(r) + 1
      <3> DEFINE t == s + 1
      <3>1. Len(Append(r, t)) = Len(r) + 1
        BY <1>1, AppendProperties DEF Seq
      <3> QED
        BY <2>1, <3>1
    <2>3. k = f.row
      BY <1>1, <1>4, <2>1, <2>2
    <2> QED
      BY <2>3
  <1> QED
    BY <1>3, <1>4

\* The rows of frames that are drawn need no frame any more.
LEMMA CoversDrawn ==
    ASSUME NEW r, NEW s \in Nat, NEW a, LogOK(r, s), NEW F, NEW G \in SUBSET Frames,
           \A g \in G : Told(g, r, a, s), NEW from, NEW drawn, NEW reached \in Nat,
           Covers(F \cup G, from, drawn, reached, r)
    PROVE  Covers(F, from, drawn \cup Ids(G, reached), reached, r)
  <1>1. Len(r) \in Nat
    BY RowsAre
  <1> SUFFICES ASSUME NEW k \in 1..Len(r), reached < k, r[k] \notin drawn \cup Ids(G, reached)
               PROVE  \E f \in F : f.seq > from /\ f.row = k
    BY DEF Covers
  <1>2. PICK f \in F \cup G : f.seq > from /\ f.row = k
    BY DEF Covers
  <1>3. f \notin G
    <2>1. SUFFICES ASSUME f \in G PROVE FALSE
      OBVIOUS
    <2>2. f \in Frames /\ Told(f, r, a, s) /\ f.row > reached
      BY <1>1, <1>2, <2>1
    <2>3. r[f.row] = f.id
      BY <2>2, IdIsRow
    <2>4. f.id \in Ids(G, reached)
      BY <2>1, <2>2 DEF Ids
    <2> QED
      BY <1>2, <2>3, <2>4
  <1> QED
    BY <1>2, <1>3

\* A transcript read now opens the screen.
LEMMA NewestOpened ==
    ASSUME NEW r, NEW s \in Nat, LogOK(r, s)
    PROVE  /\ Opened(ToSet(Newest(r)), Len(r), r)
           /\ \A F, from : Covers(F, from, ToSet(Newest(r)), Len(r), r)
  <1> DEFINE lo == IF Len(r) > Window THEN Len(r) - Window ELSE 0
  <1>1. r \in Seq(Texts) /\ Len(r) \in Nat /\ ToSet(r) = {r[i] : i \in 1..Len(r)}
        /\ (\A i, j \in 1..Len(r) : r[i] = r[j] => i = j)
    BY RowsAre
  <1>2. Window \in Nat \ {0}
    BY StreamAssumption
  <1>3. lo \in 0..Len(r) /\ (lo = 0 \/ Len(r) - lo >= Window)
        /\ lo + 1 = (IF Len(r) > Window THEN Len(r) - Window + 1 ELSE 1)
    BY <1>1, <1>2
  <1>4. Newest(r) = SubSeq(r, lo + 1, Len(r))
    BY <1>3 DEF Newest
  <1> HIDE DEF lo
  <1>5. Len(r) \in 0..Len(r) /\ lo <= Len(r)
    BY <1>1, <1>3
  <1>6. ToSet(Newest(r)) = {r[k] : k \in (lo + 1)..Len(r)}
    BY <1>1, <1>3, <1>4, <1>5, RowsBetween
  <1>7. \A k \in (lo + 1)..Len(r) : k \in 1..Len(r) /\ lo < k
    BY <1>1, <1>3
  <1>8. \A k \in 1..Len(r) : lo < k => k \in (lo + 1)..Len(r)
    BY <1>1, <1>3
  <1>9. Opened(ToSet(Newest(r)), Len(r), r)
    BY <1>1, <1>3, <1>5, <1>6, <1>7, <1>8 DEF Opened
  <1>10. \A k \in 1..Len(r) : ~(Len(r) < k)
    BY <1>1
  <1> QED
    BY <1>9, <1>10 DEF Covers

-----------------------------------------------------------------------------
(* What the phone makes of several frames.                                 *)

\* The first n of them.
First(l, n) == {l[i] : i \in 1..n}

LEMMA FirstOnes ==
    ASSUME NEW l, NEW n \in Nat
    PROVE  First(l, 0) = {} /\ First(l, n + 1) = First(l, n) \cup {l[n + 1]}
  <1>1. \A i \in 1..(n + 1) : i \in 1..n \/ i = n + 1
    OBVIOUS
  <1>2. \A i \in 1..n : i \in 1..(n + 1)
    OBVIOUS
  <1>3. n + 1 \in 1..(n + 1)
    OBVIOUS
  <1>4. \A i \in 1..0 : FALSE
    OBVIOUS
  <1> QED
    BY <1>1, <1>2, <1>3, <1>4 DEF First

LEMMA IdsMore ==
    ASSUME NEW F, NEW f, NEW reached
    PROVE  /\ f.row > reached => Ids(F \cup {f}, reached) = Ids(F, reached) \cup {f.id}
           /\ ~(f.row > reached) => Ids(F \cup {f}, reached) = Ids(F, reached)
           /\ Ids({}, reached) = {}
  BY DEF Ids

LEMMA SetAppended ==
    ASSUME NEW S, NEW q \in Seq(S), NEW x \in S
    PROVE  ToSet(Append(q, x)) = ToSet(q) \cup {x} /\ Append(q, x) \in Seq(S)
  <1>1. /\ Append(q, x) \in Seq(S) /\ Len(Append(q, x)) = Len(q) + 1 /\ Len(q) \in Nat
        /\ Append(q, x)[Len(q) + 1] = x /\ \A i \in 1..Len(q) : Append(q, x)[i] = q[i]
    BY AppendProperties, LenProperties
  <1>2. ToSet(q) = {q[i] : i \in 1..Len(q)}
    BY SetOf
  <1>3. ToSet(Append(q, x)) = {Append(q, x)[i] : i \in 1..(Len(q) + 1)}
    BY <1>1, SetOf
  <1>4. \A i \in 1..(Len(q) + 1) : i \in 1..Len(q) \/ i = Len(q) + 1
    BY <1>1
  <1>5. (\A i \in 1..Len(q) : i \in 1..(Len(q) + 1)) /\ Len(q) + 1 \in 1..(Len(q) + 1)
    BY <1>1
  <1> QED
    BY <1>1, <1>2, <1>3, <1>4, <1>5

\* What becomes of a screen that draws.
Draw(v, w, F) ==
    /\ v \in Screens /\ w \in Screens
    /\ w.at = v.at /\ w.read = v.read /\ w.held = v.held /\ w.reached = v.reached /\ w.cut = v.cut
    /\ ToSet(w.drawn) = ToSet(v.drawn) \cup Ids(F, v.reached)

LEMMA ScreensAre ==
    ASSUME NEW v \in Screens
    PROVE  v.drawn \in Seq(Texts) /\ v.held \in Seq(Frames) /\ v.reached \in Nat /\ v.cut \in BOOLEAN
  BY DEF Screens

LEMMA DrawNext ==
    ASSUME NEW v, NEW w, NEW F, Draw(v, w, F), NEW f \in Frames, NEW x, x = DrawnOnPhone(w, f)
    PROVE  Draw(v, x, F \cup {f})
  <1>1. /\ x \in Screens /\ x.at = w.at /\ x.read = w.read /\ x.held = w.held /\ x.reached = w.reached
        /\ x.cut = w.cut /\ x.drawn = IF f.row <= w.reached THEN w.drawn ELSE Append(w.drawn, f.id)
    BY ScreenStep DEF Draw
  <1>2. /\ w \in Screens /\ v \in Screens /\ w.reached = v.reached
        /\ ToSet(w.drawn) = ToSet(v.drawn) \cup Ids(F, v.reached)
    BY DEF Draw
  <1>3. w.drawn \in Seq(Texts) /\ w.reached \in Nat
    BY <1>2, ScreensAre
  <1>4. f.row \in Nat /\ (f.row # 0 => f.id \in Texts)
    BY FrameFacts
  <1>5. CASE f.row <= w.reached
    <2>1. ~(f.row > v.reached)
      BY <1>2, <1>3, <1>4, <1>5
    <2>2. Ids(F \cup {f}, v.reached) = Ids(F, v.reached)
      BY <2>1, IdsMore
    <2>3. x.drawn = w.drawn
      BY <1>1, <1>5
    <2> QED
      BY <1>1, <1>2, <2>2, <2>3 DEF Draw
  <1>6. CASE ~(f.row <= w.reached)
    <2>1. f.row > v.reached /\ f.id \in Texts
      BY <1>2, <1>3, <1>4, <1>6
    <2>2. Ids(F \cup {f}, v.reached) = Ids(F, v.reached) \cup {f.id}
      BY <2>1, IdsMore
    <2>3. x.drawn = Append(w.drawn, f.id)
      BY <1>1, <1>6
    <2>4. ToSet(x.drawn) = ToSet(w.drawn) \cup {f.id}
      BY <1>3, <2>1, <2>3, SetAppended
    <2> QED
      BY <1>1, <1>2, <2>2, <2>4 DEF Draw
  <1> QED
    BY <1>5, <1>6

LEMMA DrawNone ==
    ASSUME NEW v \in Screens
    PROVE  Draw(v, v, {})
  BY IdsMore DEF Draw

\* What a screen comes to by several frames.
LEMMA ScreenFoldIs ==
    ASSUME NEW v \in Screens, NEW k \in Seq(Frames), NEW w, w = FoldLeft(DrawnOnPhone, v, k)
    PROVE  Draw(v, w, ToSet(k))
  <1>1. Len(k) \in Nat /\ DOMAIN k = 1..Len(k) /\ (\A i \in 1..Len(k) : k[i] \in Frames)
    BY LenProperties, ElementOfSeq
  <1>2. PICK h : Traces(h, "screen", v, k, 0, w)
    BY <1>1, ScreenFold
  <1> DEFINE S == {n \in 0..Len(k) : Draw(v, h[n], First(k, n))}
  <1>3. 0 \in S
    <2>1. First(k, 0) = {} /\ h[0] = v
      BY <1>2, FirstOnes DEF Traces
    <2>2. Draw(v, v, {})
      BY DrawNone
    <2>3. Draw(v, h[0], First(k, 0))
      BY <2>1, <2>2, Zenon
    <2> QED
      BY <1>1, <2>3
  <1>4. ASSUME NEW n \in 0..Len(k), n \in S, n < Len(k) PROVE n + 1 \in S
    <2>1. h[n + 1] = DrawnOnPhone(h[n], k[n + 1])
      BY <1>2, <1>4 DEF Traces, Folded
    <2>2. n + 1 \in 0..Len(k) /\ k[n + 1] \in Frames /\ n \in Nat
      BY <1>1, <1>4
    <2>3. Draw(v, h[n], First(k, n))
      BY <1>4
    <2>4. Draw(v, h[n + 1], First(k, n) \cup {k[n + 1]})
      BY <2>1, <2>2, <2>3, DrawNext
    <2>5. First(k, n + 1) = First(k, n) \cup {k[n + 1]}
      BY <2>2, FirstOnes
    <2> QED
      BY <2>2, <2>4, <2>5
  <1> HIDE DEF S
  <1>5. 0..Len(k) \subseteq S
    BY <1>1, <1>3, <1>4, UpTo
  <1>6. Len(k) \in S
    BY <1>1, <1>5
  <1>7. Draw(v, h[Len(k)], First(k, Len(k)))
    BY <1>6 DEF S
  <1>8. First(k, Len(k)) = ToSet(k) /\ h[Len(k)] = w
    BY <1>2, SetOf DEF First, Traces
  <1> QED
    BY <1>7, <1>8

\* What becomes of a screen whose thread's frames are heard.
Updates(F) == {f \in F : f.kind = "update"}
Watch(v, w, F) ==
    /\ v \in Screens /\ w \in Screens
    /\ w.at = v.at /\ w.read = v.read /\ w.reached = v.reached /\ w.cut = v.cut
    /\ ToSet(w.held) = ToSet(v.held) \cup (IF v.at = "reading" THEN Updates(F) ELSE {})
    /\ ToSet(w.drawn) = ToSet(v.drawn) \cup (IF v.at = "live" THEN Ids(F, v.reached) ELSE {})

LEMMA WatchNext ==
    ASSUME NEW v, NEW w, NEW F, Watch(v, w, F), NEW f \in Frames, NEW x, x = Watched(w, f)
    PROVE  Watch(v, x, F \cup {f})
  <1>1. /\ x \in Screens /\ x.at = w.at /\ x.read = w.read /\ x.reached = w.reached /\ x.cut = w.cut
        /\ x.held = IF f.kind = "update" /\ w.at = "reading" THEN Append(w.held, f) ELSE w.held
        /\ x.drawn = IF f.kind = "update" /\ w.at = "live" /\ ~(f.row <= w.reached)
                     THEN Append(w.drawn, f.id) ELSE w.drawn
    BY WatchedStep DEF Watch
  <1>2. /\ w \in Screens /\ v \in Screens /\ w.reached = v.reached /\ w.at = v.at
        /\ ToSet(w.held) = ToSet(v.held) \cup (IF v.at = "reading" THEN Updates(F) ELSE {})
        /\ ToSet(w.drawn) = ToSet(v.drawn) \cup (IF v.at = "live" THEN Ids(F, v.reached) ELSE {})
    BY DEF Watch
  <1>3. w.drawn \in Seq(Texts) /\ w.held \in Seq(Frames) /\ w.reached \in Nat
    BY <1>2, ScreensAre
  <1>4. f.row \in Nat /\ (f.kind = "update" => f.id \in Texts) /\ (f.kind # "update" => f.row = 0)
    BY FrameFacts
  <1>5. ToSet(x.held) = ToSet(v.held) \cup (IF v.at = "reading" THEN Updates(F \cup {f}) ELSE {})
    <2>1. CASE f.kind = "update" /\ v.at = "reading"
      <3>1. x.held = Append(w.held, f)
        BY <1>1, <1>2, <2>1
      <3>2. ToSet(x.held) = ToSet(w.held) \cup {f}
        BY <1>3, <3>1, SetAppended
      <3>3. Updates(F \cup {f}) = Updates(F) \cup {f}
        BY <2>1 DEF Updates
      <3> QED
        BY <1>2, <2>1, <3>2, <3>3
    <2>2. CASE ~(f.kind = "update" /\ v.at = "reading")
      <3>1. x.held = w.held
        BY <1>1, <1>2, <2>2
      <3>2. v.at = "reading" => Updates(F \cup {f}) = Updates(F)
        BY <2>2 DEF Updates
      <3> QED
        BY <1>2, <3>1, <3>2
    <2> QED
      BY <2>1, <2>2
  <1>6. ToSet(x.drawn) = ToSet(v.drawn) \cup (IF v.at = "live" THEN Ids(F \cup {f}, v.reached) ELSE {})
    <2>1. CASE f.kind = "update" /\ v.at = "live" /\ ~(f.row <= w.reached)
      <3>1. x.drawn = Append(w.drawn, f.id)
        BY <1>1, <1>2, <2>1
      <3>2. ToSet(x.drawn) = ToSet(w.drawn) \cup {f.id}
        BY <1>3, <1>4, <2>1, <3>1, SetAppended
      <3>3. f.row > v.reached
        BY <1>2, <1>3, <1>4, <2>1
      <3>4. Ids(F \cup {f}, v.reached) = Ids(F, v.reached) \cup {f.id}
        BY <3>3, IdsMore
      <3> QED
        BY <1>2, <2>1, <3>2, <3>4
    <2>2. CASE ~(f.kind = "update" /\ v.at = "live" /\ ~(f.row <= w.reached))
      <3>1. x.drawn = w.drawn
        BY <1>1, <1>2, <2>2
      <3>2. v.at = "live" => ~(f.row > v.reached)
        BY <1>2, <1>3, <1>4, <2>2
      <3>3. ASSUME v.at = "live" PROVE Ids(F \cup {f}, v.reached) = Ids(F, v.reached)
        <4>1. ~(f.row > v.reached)
          BY <3>2, <3>3
        <4> QED
          BY <4>1, IdsMore
      <3> QED
        BY <1>2, <3>1, <3>3
    <2> QED
      BY <2>1, <2>2
  <1> QED
    BY <1>1, <1>2, <1>5, <1>6 DEF Watch

LEMMA WatchNone ==
    ASSUME NEW v \in Screens
    PROVE  Watch(v, v, {})
  BY IdsMore DEF Watch, Updates

\* And of the phone.
Applies(v, w, F, bound) ==
    /\ v \in States /\ w \in States
    /\ Watch(v.screen, w.screen, F)
    /\ v.heads <= bound /\ (\A f \in F : f.seq <= bound) => w.heads <= bound

LEMMA AppliesNext ==
    ASSUME NEW v, NEW w, NEW F, NEW bound \in Int, Applies(v, w, F, bound),
           NEW f \in Frames, NEW x, x = Apply(w, f)
    PROVE  Applies(v, x, F \cup {f}, bound)
  <1>1. /\ x \in States /\ x.heads = (IF f.seq > w.heads THEN f.seq ELSE w.heads)
        /\ x.screen = Watched(w.screen, f)
    BY ApplyStep DEF Applies
  <1>2. Watch(v.screen, x.screen, F \cup {f})
    BY <1>1, WatchNext DEF Applies
  <1>3. v.heads <= bound /\ (\A g \in F \cup {f} : g.seq <= bound) => x.heads <= bound
    BY <1>1 DEF Applies
  <1> QED
    BY <1>1, <1>2, <1>3 DEF Applies

\* What a phone comes to by several frames: the last number, its cards, its screen.
LEMMA ApplyFoldIs ==
    ASSUME NEW v \in States, NEW k, Len(k) \in Nat, DOMAIN k = 1..Len(k),
           \A i \in 1..Len(k) : k[i] \in Frames,
           NEW w, w = FoldLeft(Apply, v, k), NEW bound \in Int
    PROVE  Applies(v, w, First(k, Len(k)), bound)
  <1>1. PICK h : Traces(h, "apply", v, k, 0, w)
    BY ApplyFold
  <1> DEFINE S == {n \in 0..Len(k) : Applies(v, h[n], First(k, n), bound)}
  <1>2. 0 \in S
    <2>1. First(k, 0) = {} /\ h[0] = v
      BY <1>1, FirstOnes DEF Traces
    <2>2. v.screen \in Screens
      BY DEF States
    <2>3. Applies(v, v, {}, bound)
      BY <2>2, WatchNone DEF Applies
    <2> QED
      BY <2>1, <2>3
  <1>3. ASSUME NEW n \in 0..Len(k), n \in S, n < Len(k) PROVE n + 1 \in S
    <2>1. h[n + 1] = Apply(h[n], k[n + 1])
      BY <1>1, <1>3 DEF Traces, Folded
    <2>2. n + 1 \in 0..Len(k) /\ k[n + 1] \in Frames /\ n \in Nat
      BY <1>3
    <2>3. Applies(v, h[n], First(k, n), bound)
      BY <1>3
    <2>4. Applies(v, h[n + 1], First(k, n) \cup {k[n + 1]}, bound)
      BY <2>1, <2>2, <2>3, AppliesNext
    <2>5. First(k, n + 1) = First(k, n) \cup {k[n + 1]}
      BY <2>2, FirstOnes
    <2> QED
      BY <2>2, <2>4, <2>5
  <1> HIDE DEF S
  <1>4. 0..Len(k) \subseteq S
    BY <1>2, <1>3, UpTo
  <1>5. Len(k) \in S
    BY <1>4
  <1>6. Applies(v, h[Len(k)], First(k, Len(k)), bound)
    BY <1>5 DEF S
  <1>7. h[Len(k)] = w
    BY <1>1 DEF Traces
  <1> QED
    BY <1>6, <1>7

\* The cards after a line of frames.
LEMMA CardsFold ==
    ASSUME NEW r, NEW s \in Nat, NEW a \in AskStates, NEW l, LineOK(l, r, a, s),
           NEW v \in States, Tells(v.cards, {}, l, 0, a), NEW w, w = FoldLeft(Apply, v, l)
    PROVE  Tells(w.cards, {}, l, Len(l), a)
  <1>1. l \in Seq(Frames) /\ Len(l) \in Nat /\ DOMAIN l = 1..Len(l) /\ (\A i \in 1..Len(l) : l[i] \in Frames)
    BY LenProperties, ElementOfSeq DEF LineOK
  <1>2. PICK h : Traces(h, "apply", v, l, 0, w)
    BY <1>1, ApplyFold
  <1> DEFINE S == {n \in 0..Len(l) : h[n] \in States /\ Tells(h[n].cards, {}, l, n, a)}
  <1>3. 0 \in S
    BY <1>1, <1>2 DEF Traces
  <1>4. ASSUME NEW n \in 0..Len(l), n \in S, n < Len(l) PROVE n + 1 \in S
    <2>1. h[n + 1] = Apply(h[n], l[n + 1])
      BY <1>2, <1>4 DEF Traces, Folded
    <2>2. n + 1 \in 0..Len(l) /\ l[n + 1] \in Frames
      BY <1>1, <1>4
    <2>3. h[n] \in States /\ Tells(h[n].cards, {}, l, n, a)
      BY <1>4
    <2>4. /\ h[n + 1] \in States
          /\ h[n + 1].cards = IF l[n + 1].kind = "ask" THEN h[n].cards \cup {l[n + 1].id}
                              ELSE IF l[n + 1].kind = "resolved" THEN h[n].cards \ {l[n + 1].id}
                              ELSE h[n].cards
      BY <2>1, <2>2, <2>3, ApplyStep
    <2>5. h[n + 1].cards = IF l[n + 1].kind = "ask" /\ l[n + 1].id \notin {}
                           THEN h[n].cards \cup {l[n + 1].id}
                           ELSE IF l[n + 1].kind = "resolved" THEN h[n].cards \ {l[n + 1].id}
                           ELSE h[n].cards
      BY <2>4
    <2>6. Tells(h[n + 1].cards, {}, l, n + 1, a)
      BY <1>4, <2>3, <2>5, TellsNext
    <2> QED
      BY <2>2, <2>4, <2>6
  <1> HIDE DEF S
  <1>5. 0..Len(l) \subseteq S
    BY <1>1, <1>3, <1>4, UpTo
  <1>6. Len(l) \in S
    BY <1>1, <1>5
  <1>7. Tells(h[Len(l)].cards, {}, l, Len(l), a)
    BY <1>6 DEF S
  <1>8. h[Len(l)] = w
    BY <1>2 DEF Traces
  <1> QED
    BY <1>7, <1>8

\* The cards after one frame, however many handlers apply it.
LEMMA CardsOfOne ==
    ASSUME NEW v \in States, NEW f \in Frames, NEW k, Len(k) \in Nat, Len(k) # 0,
           DOMAIN k = 1..Len(k), \A i \in 1..Len(k) : k[i] = f, NEW w, w = FoldLeft(Apply, v, k)
    PROVE  w.cards = IF f.kind = "ask" THEN v.cards \cup {f.id}
                     ELSE IF f.kind = "resolved" THEN v.cards \ {f.id} ELSE v.cards
  <1>1. PICK h : Traces(h, "apply", v, k, 0, w)
    BY ApplyFold
  <1> DEFINE c == IF f.kind = "ask" THEN v.cards \cup {f.id}
                  ELSE IF f.kind = "resolved" THEN v.cards \ {f.id} ELSE v.cards
             S == {n \in 0..Len(k) : h[n] \in States /\ h[n].cards = IF n = 0 THEN v.cards ELSE c}
  <1>2. 0 \in S
    BY <1>1 DEF Traces
  <1>3. ASSUME NEW n \in 0..Len(k), n \in S, n < Len(k) PROVE n + 1 \in S
    <2>1. n + 1 \in 0..Len(k) /\ n + 1 \in 1..Len(k) /\ n + 1 # 0
      BY <1>3
    <2>2. h[n + 1] = Apply(h[n], f)
      BY <1>1, <1>3, <2>1 DEF Traces, Folded
    <2>3. h[n] \in States /\ (h[n].cards = v.cards \/ h[n].cards = c)
      BY <1>3
    <2>4. /\ h[n + 1] \in States
          /\ h[n + 1].cards = IF f.kind = "ask" THEN h[n].cards \cup {f.id}
                              ELSE IF f.kind = "resolved" THEN h[n].cards \ {f.id} ELSE h[n].cards
      BY <2>2, <2>3, ApplyStep
    <2>5. h[n + 1].cards = c
      BY <2>3, <2>4
    <2> QED
      BY <2>1, <2>4, <2>5
  <1> HIDE DEF S, c
  <1>4. 0..Len(k) \subseteq S
    BY <1>2, <1>3, UpTo
  <1>5. Len(k) \in S
    BY <1>4
  <1>6. h[Len(k)].cards = c
    BY <1>5 DEF S
  <1> QED
    BY <1>1, <1>6 DEF Traces, c
-----------------------------------------------------------------------------
(* The connection, the numbers and the cards.                              *)

LEMMA RestNone ==
    ASSUME NEW l \in Seq(Frames)
    PROVE  Rest(l, 0, l) /\ Rest(l, Len(l), <<>>) /\ Len(l) \in Nat
  <1>1. Len(l) \in Nat /\ <<>> \in Seq(Frames) /\ Len(<<>>) = 0
    BY LenProperties, EmptySeq
  <1>2. \A i \in 1..Len(l) : i + 0 = i
    BY <1>1
  <1>3. Rest(l, 0, l)
    BY <1>1, <1>2 DEF Rest
  <1>4. Rest(l, Len(l), <<>>)
    BY <1>1 DEF Rest
  <1> QED
    BY <1>1, <1>3, <1>4

LEMMA CappedIs ==
    ASSUME NEW l \in Seq(Frames)
    PROVE  \E n \in Nat : Rest(l, n, Capped(l))
  <1>1. CASE Len(l) > Cap
    <2>1. Len(l) \in Nat /\ Cap \in Nat
      BY LenProperties, StreamAssumption
    <2>2. l # <<>>
      BY <1>1, <2>1, EmptySeq
    <2> QED
      BY <1>1, <2>2, TailRest DEF Capped
  <1>2. CASE ~(Len(l) > Cap)
    BY <1>2, RestNone DEF Capped
  <1> QED
    BY <1>1, <1>2

LEMMA RestIn ==
    ASSUME NEW l \in Seq(Frames), NEW n \in Nat, NEW k, Rest(l, n, k)
    PROVE  ToSet(k) \subseteq ToSet(l) /\ k \in Seq(Frames) /\ Len(k) <= Len(l) /\ Len(k) \in Nat
  <1>1. k \in Seq(Frames) /\ Len(k) \in Nat /\ Len(l) \in Nat /\ Len(l) = Len(k) + n
        /\ (\A i \in 1..Len(k) : k[i] = l[i + n])
    BY LenProperties DEF Rest
  <1>2. ToSet(k) = {k[i] : i \in 1..Len(k)} /\ ToSet(l) = {l[i] : i \in 1..Len(l)}
    BY <1>1, SetOf
  <1>3. \A i \in 1..Len(k) : i + n \in 1..Len(l)
    BY <1>1
  <1> QED
    BY <1>1, <1>2, <1>3

\* A frame that is not among the last has a number before theirs.
LEMMA NewEnough ==
    ASSUME NEW l \in Seq(Frames), NEW h \in Nat, Numbered(l, h), NEW n \in Nat, NEW k, Rest(l, n, k),
           NEW f \in ToSet(l), f.seq > h - Len(k)
    PROVE  f \in ToSet(k)
  <1>1. k \in Seq(Frames) /\ Len(k) \in Nat /\ Len(l) \in Nat /\ Len(l) = Len(k) + n
        /\ (\A i \in 1..Len(k) : k[i] = l[i + n])
    BY LenProperties DEF Rest
  <1>2. ToSet(k) = {k[i] : i \in 1..Len(k)} /\ ToSet(l) = {l[i] : i \in 1..Len(l)}
    BY <1>1, SetOf
  <1>3. PICK i \in 1..Len(l) : f = l[i]
    BY <1>2
  <1>4. f.seq = h - Len(l) + i
    BY <1>3 DEF Numbered
  <1>5. i - n \in 1..Len(k) /\ (i - n) + n = i
    BY <1>1, <1>3, <1>4
  <1>6. k[i - n] = l[(i - n) + n]
    BY <1>1, <1>5
  <1> QED
    BY <1>2, <1>3, <1>5, <1>6

\* What agrees with a line has its frames that are late enough.
LEMMA AgreeIn ==
    ASSUME NEW k \in Seq(Frames), NEW l \in Seq(Frames), NEW h \in Nat, Numbered(k, h), Numbered(l, h),
           Agree(k, l), NEW f \in ToSet(l), f.seq > h - Len(k)
    PROVE  f \in ToSet(k)
  <1>1. Len(k) \in Nat /\ Len(l) \in Nat
    BY LenProperties
  <1>2. ToSet(k) = {k[i] : i \in 1..Len(k)} /\ ToSet(l) = {l[i] : i \in 1..Len(l)}
    BY SetOf
  <1>3. PICK j \in 1..Len(l) : f = l[j]
    BY <1>2
  <1>4. f.seq <= h /\ f.seq = h - Len(l) + j
    BY <1>3, NumbersIn
  <1> DEFINE i == f.seq - (h - Len(k))
  <1>5. i \in 1..Len(k) /\ h - Len(k) + i = f.seq
    BY <1>1, <1>4
  <1> HIDE DEF i
  <1>6. k[i].seq = l[j].seq
    BY <1>3, <1>5 DEF Numbered
  <1>7. k[i] = l[j]
    BY <1>5, <1>6 DEF Agree
  <1> QED
    BY <1>2, <1>3, <1>5, <1>7

LEMMA PhoneParts ==
    ASSUME Types, RowsOK, NumbersOK
    PROVE  /\ wire.phone \in Seq(Frames) /\ log \in Seq(Frames) /\ head \in Nat
           /\ Len(log) \in Nat /\ Len(wire.phone) \in Nat
           /\ said \in Nat /\ asks \in AskStates /\ LogOK(rows, said)
           /\ Numbered(log, head) /\ Numbered(wire.phone, head) /\ Agree(log, wire.phone)
           /\ LineOK(log, rows, asks, said) /\ LineOK(wire.phone, rows, asks, said)
           /\ ToSet(log) \subseteq Frames /\ ToSet(wire.phone) \subseteq Frames
           /\ \A f \in ToSet(log) : Told(f, rows, asks, said)
           /\ \A f \in ToSet(wire.phone) : Told(f, rows, asks, said)
  <1>1. wire.phone \in Seq(Frames) /\ log \in Seq(Frames) /\ head \in Nat /\ said \in Nat
        /\ asks \in AskStates /\ LogOK(rows, said)
    BY DEF Types, Clients, AskStates, RowsOK
  <1>2. /\ ToSet(log) = {log[i] : i \in 1..Len(log)} /\ ToSet(log) \subseteq Frames /\ Len(log) \in Nat
        /\ ToSet(wire.phone) = {wire.phone[i] : i \in 1..Len(wire.phone)}
        /\ ToSet(wire.phone) \subseteq Frames /\ Len(wire.phone) \in Nat
    BY <1>1, FramesOf
  <1>3. Numbered(log, head) /\ Numbered(wire.phone, head) /\ Agree(log, wire.phone)
        /\ LineOK(log, rows, asks, said) /\ LineOK(wire.phone, rows, asks, said)
    BY DEF NumbersOK
  <1>4. (\A f \in ToSet(log) : Told(f, rows, asks, said))
        /\ (\A f \in ToSet(wire.phone) : Told(f, rows, asks, said))
    BY <1>2, <1>3 DEF LineOK
  <1> QED
    BY <1>1, <1>2, <1>3, <1>4

\* The numbers, when frames are taken off the wire or none is.
LEMMA NumbersFewer ==
    ASSUME Types, RowsOK, NumbersOK, UNCHANGED <<rows, asks, said, head, log>>,
           NEW n \in Nat, Rest(wire.phone, n, wire'.phone)
    PROVE  NumbersOK'
  <1>1. /\ wire.phone \in Seq(Frames) /\ log \in Seq(Frames) /\ head \in Nat
        /\ Len(log) \in Nat /\ Len(wire.phone) \in Nat
        /\ Numbered(log, head) /\ Numbered(wire.phone, head) /\ Agree(log, wire.phone)
        /\ LineOK(log, rows, asks, said) /\ LineOK(wire.phone, rows, asks, said)
    BY PhoneParts
  <1> DEFINE k == wire'.phone
  <1>2. Rest(wire.phone, n, k)
    OBVIOUS
  <1> HIDE DEF k
  <1>3. Numbered(k, head)
    BY <1>1, <1>2, NumberedRest
  <1>4. Agree(log, k)
    BY <1>1, <1>2, AgreeRest
  <1>5. LineOK(k, rows, asks, said)
    BY <1>1, <1>2, RestOK
  <1> QED
    BY <1>1, <1>3, <1>4, <1>5 DEF NumbersOK, k

LEMMA EmptyNumbers ==
    ASSUME NEW h \in Nat, NEW l
    PROVE  Numbered(<<>>, h) /\ Agree(<<>>, l) /\ Agree(l, <<>>)
  BY DEF Numbered, Agree

LEMMA WireSpeaks ==
    ASSUME Types, ConnectionOK, NEW f, Speaks(f)
    PROVE  /\ phone.on => wire'.phone = Append(wire.phone, f)
           /\ ~phone.on => wire'.phone = <<>> /\ wire.phone = <<>>
  <1>1. wire' = [c \in Clients |-> IF c = who /\ Listens(c) THEN Append(wire[c], f) ELSE wire[c]]
    BY DEF Speaks
  <1>2. "phone" \in Clients /\ (Listens("phone") <=> phone.on)
    BY DEF Clients, Listens
  <1> QED
    BY <1>1, <1>2 DEF ConnectionOK

LEMMA NumbersSpeak ==
    ASSUME Types, RowsOK, ConnectionOK, NumbersOK, NEW f \in Frames, Speaks(f)
    PROVE  NumbersOK'
  <1>1. /\ wire.phone \in Seq(Frames) /\ log \in Seq(Frames) /\ head \in Nat
        /\ Len(log) \in Nat /\ Len(wire.phone) \in Nat
        /\ said \in Nat /\ asks \in AskStates /\ LogOK(rows, said)
        /\ Numbered(log, head) /\ Numbered(wire.phone, head) /\ Agree(log, wire.phone)
        /\ LineOK(log, rows, asks, said) /\ LineOK(wire.phone, rows, asks, said)
    BY PhoneParts
  <1>2. Event(f, rows, asks, said, rows', asks', said') /\ f.seq = head + 1 /\ head' = head + 1
        /\ log' = Capped(Append(log, f))
    BY DEF Speaks
  <1> DEFINE g == Append(log, f)
  <1>3. g \in Seq(Frames) /\ Len(g) \in Nat
    BY <1>1, AppendProperties, LenProperties
  <1>4. Numbered(g, head + 1)
    BY <1>1, <1>2, NumberedGrows
  <1>5. LineOK(g, rows', asks', said')
    BY <1>1, <1>2, LineGrows
  <1>6. ASSUME phone.on PROVE Agree(g, wire'.phone)
    BY <1>1, <1>2, <1>6, AgreeGrows, WireSpeaks
  <1>7. log' = Capped(g)
    BY <1>2
  <1> HIDE DEF g
  <1>8. PICK n \in Nat : Rest(g, n, Capped(g))
    BY <1>3, CappedIs
  <1>9. Numbered(log', head + 1) /\ LineOK(log', rows', asks', said')
    <2>1. Numbered(Capped(g), head + 1)
      BY <1>1, <1>3, <1>4, <1>8, NumberedRest
    <2>2. LineOK(Capped(g), rows', asks', said')
      BY <1>3, <1>5, <1>8, RestOK
    <2> QED
      BY <1>7, <2>1, <2>2
  <1>10. CASE phone.on
    <2>1. wire'.phone = Append(wire.phone, f)
      BY <1>10, WireSpeaks
    <2>2. Append(wire.phone, f) \in Seq(Frames) /\ Len(Append(wire.phone, f)) \in Nat
      BY <1>1, AppendProperties, LenProperties
    <2>3. Numbered(Append(wire.phone, f), head + 1)
      BY <1>1, <1>2, NumberedGrows
    <2>4. LineOK(Append(wire.phone, f), rows', asks', said')
      BY <1>1, <1>2, LineGrows
    <2>5. Agree(g, Append(wire.phone, f))
      BY <1>6, <1>10, <2>1
    <2>6. Agree(Capped(g), Append(wire.phone, f))
      BY <1>3, <1>8, <2>2, <2>5, AgreeRest
    <2> QED
      BY <1>2, <1>7, <1>9, <2>1, <2>3, <2>4, <2>6 DEF NumbersOK
  <1>11. CASE ~phone.on
    <2>1. wire'.phone = <<>>
      BY <1>11, WireSpeaks
    <2>2. LogOK(rows', said') /\ said' \in Nat
      BY <1>1, <1>2, EventIsLater DEF Onward
    <2>3. LineOK(<<>>, rows', asks', said')
      BY <2>2, EmptyLine
    <2>4. Numbered(<<>>, head + 1) /\ Agree(log', <<>>)
      BY <1>1, EmptyNumbers
    <2> QED
      BY <1>2, <1>9, <2>1, <2>3, <2>4 DEF NumbersOK
  <1> QED
    BY <1>10, <1>11

LEMMA PhoneTypes ==
    ASSUME Types
    PROVE  /\ phone \in Phones /\ screen \in Screens
           /\ phone.on \in BOOLEAN /\ phone.resumes \in BOOLEAN /\ phone.fresh \in BOOLEAN
           /\ phone.heads \in Int /\ phone.heads \in Nat \cup {Unheard}
           /\ phone.handlers \in Nat /\ phone.life \in Nat /\ phone.cards \subseteq Asks
           /\ screen.held \in Seq(Frames) /\ screen.drawn \in Seq(Texts) /\ screen.reached \in Nat
           /\ screen.cut \in BOOLEAN
           /\ screen.read # NoAnswer => screen.read \in TextAnswers
           /\ count.stops \in Nat
           /\ ToSet(screen.held) \subseteq Frames
  <1>1. screen.held \in Seq(Frames)
    BY DEF Types, Screens
  <1>2. ToSet(screen.held) \subseteq Frames
    BY <1>1, FramesOf
  <1> QED
    BY <1>1, <1>2 DEF Types, Phones, Screens, Counts, Unheard

LEMMA StepLength ==
    ASSUME Types, ConnectionOK, NEW f \in Frames, Speaks(f)
    PROVE  Len(wire'.phone) \in Nat /\ Len(log') \in Nat
  <1>1. wire.phone \in Seq(Frames) /\ log \in Seq(Frames) /\ log' = Capped(Append(log, f))
    BY DEF Types, Clients, Speaks
  <1>2. Append(log, f) \in Seq(Frames) /\ Append(wire.phone, f) \in Seq(Frames) /\ <<>> \in Seq(Frames)
    BY <1>1, AppendProperties, EmptySeq
  <1>3. \A q \in Seq(Frames) : Len(q) \in Nat
    BY LenProperties
  <1>4. wire'.phone = Append(wire.phone, f) \/ wire'.phone = <<>>
    BY WireSpeaks
  <1>5. Len(wire'.phone) \in Nat
    BY <1>2, <1>3, <1>4
  <1>6. Len(Capped(Append(log, f))) \in Nat
    BY <1>2, CappedIs, RestIn
  <1> QED
    BY <1>1, <1>5, <1>6

\* The host speaks: the connection.
LEMMA ConnectionSpeaks ==
    ASSUME Quiet, Types, RowsOK, ConnectionOK, NEW f \in Frames, Speaks(f)
    PROVE  ConnectionOK' /\ phone.step = "idle" /\ ~phone.resumes
  <1>1. phone' = phone /\ who' = who /\ head' = head + 1 /\ count'.stops = count.stops
        /\ phone.step = "idle"
    BY DEF Speaks
  <1>2. ~phone.resumes
    BY <1>1 DEF ConnectionOK
  <1>3. head \in Nat /\ phone.heads \in Int /\ wire.phone \in Seq(Frames) /\ Len(wire.phone) \in Nat
    <2>1. wire.phone \in Seq(Frames)
      BY DEF Types, Clients
    <2> QED
      BY <2>1, PhoneTypes, LenProperties DEF Types
  <1>4. phone.life = count.stops => phone.heads <= head + 1 - Len(wire'.phone)
    <2>1. SUFFICES ASSUME phone.heads <= head - Len(wire.phone)
                   PROVE  phone.heads <= head + 1 - Len(wire'.phone)
      BY DEF ConnectionOK
    <2>2. CASE phone.on
      <3>1. wire'.phone = Append(wire.phone, f)
        BY <2>2, WireSpeaks
      <3>2. Len(wire'.phone) = Len(wire.phone) + 1
        BY <1>3, <3>1, AppendProperties
      <3> QED
        BY <1>3, <2>1, <3>2
    <2>3. CASE ~phone.on
      <3>1. wire'.phone = <<>> /\ wire.phone = <<>>
        BY <2>3, WireSpeaks
      <3>2. Len(<<>>) = 0
        BY EmptySeq
      <3> QED
        BY <1>3, <2>1, <3>1, <3>2
    <2> QED
      BY <2>2, <2>3
  <1>5. ~phone.on => wire'.phone = <<>>
    BY WireSpeaks
  <1>6. /\ phone'.on => who' = "phone" /\ phone'.handlers # 0
        /\ ~phone'.on => wire'.phone = <<>> /\ phone'.step = "idle"
        /\ phone'.life <= count'.stops
    BY <1>1, <1>5 DEF ConnectionOK
  <1>7. phone'.step = "idle" /\ ~phone'.resumes
    BY <1>1, <1>2
  <1>8. phone'.life = count'.stops => phone'.heads <= head' - Len(wire'.phone)
    <2> DEFINE n == Len(wire'.phone)
    <2>1. phone.life = count.stops => phone.heads <= head + 1 - n
      BY <1>4
    <2>2. n \in Nat
      BY StepLength
    <2> HIDE DEF n
    <2>3. phone.life = count.stops => phone.heads <= head' - n
      BY <1>1, <1>3, <2>1, <2>2
    <2>4. phone'.life = count'.stops => phone'.heads <= head' - n
      BY <1>1, <2>3
    <2> QED
      BY <2>4 DEF n
  <1>9. ConnectionOK'
    BY <1>6, <1>7, <1>8 DEF ConnectionOK
  <1> QED
    BY <1>1, <1>2, <1>9

\* The host speaks: the cards.
LEMMA CardsSpeak ==
    ASSUME Quiet, Types, RowsOK, PhoneInv, NEW f \in Frames, Speaks(f)
    PROVE  CardsOK'
  <1>1. phone' = phone /\ Event(f, rows, asks, said, rows', asks', said')
    BY DEF Speaks
  <1> SUFFICES ASSUME phone.on, phone.fresh PROVE Tells(phone.cards, {}, wire'.phone, 0, asks')
    BY <1>1 DEF CardsOK
  <1>2. wire'.phone = Append(wire.phone, f)
    BY WireSpeaks DEF PhoneInv
  <1>3. Tells(phone.cards, {}, wire.phone, 0, asks)
    BY DEF PhoneInv, CardsOK
  <1>4. said \in Nat /\ asks \in AskStates /\ LogOK(rows, said) /\ LineOK(wire.phone, rows, asks, said)
    BY PhoneParts DEF PhoneInv
  <1>5. Tells(phone.cards, {}, Append(wire.phone, f), 0, asks')
    BY <1>1, <1>3, <1>4, TellsLater
  <1> QED
    BY <1>2, <1>5

\* The host speaks: the screen.
LEMMA ScreenSpeaks ==
    ASSUME Quiet, Types, RowsOK, PhoneInv, NEW f \in Frames, Speaks(f)
    PROVE  ScreenOK'
  <1>1. phone' = phone /\ screen' = screen /\ count'.stops = count.stops /\ head' = head + 1
        /\ f.seq = head + 1 /\ log' = Capped(Append(log, f))
        /\ Event(f, rows, asks, said, rows', asks', said')
    BY DEF Speaks
  <1>2. /\ wire.phone \in Seq(Frames) /\ log \in Seq(Frames) /\ head \in Nat
        /\ Len(log) \in Nat /\ Len(wire.phone) \in Nat
        /\ said \in Nat /\ asks \in AskStates /\ LogOK(rows, said)
        /\ Numbered(log, head)
    BY PhoneParts DEF PhoneInv
  <1>3. /\ phone.heads \in Int /\ phone.on \in BOOLEAN
        /\ screen.read # NoAnswer => screen.read \in TextAnswers
        /\ ToSet(screen.held) \subseteq Frames
    BY PhoneTypes
  <1>4. Onward(rows, asks, said, rows', asks', said')
    BY <1>1, <1>2, EventIsLater
  <1>5. ~phone.resumes
    BY ConnectionSpeaks DEF PhoneInv
  <1>6. f.seq > Unheard /\ Unheard \in Int
    BY <1>1, <1>2 DEF Unheard
  <1>7. \A g \in ToSet(screen.held) : Told(g, rows', asks', said')
    BY <1>2, <1>3, <1>4, StillTold DEF PhoneInv, ScreenOK
  <1>8. \A drawn, reached : Opened(drawn, reached, rows) => Opened(drawn, reached, rows')
    BY <1>2, <1>4, OpenedLater
  <1>9. ASSUME phone.on PROVE ToSet(wire'.phone) = ToSet(wire.phone) \cup {f}
    <2>1. wire'.phone = Append(wire.phone, f)
      BY <1>9, WireSpeaks DEF PhoneInv
    <2>2. ToSet(Append(wire.phone, f)) = ToSet(wire.phone) \cup {f}
      BY <1>2, SetAppended
    <2> QED
      BY <2>1, <2>2
  <1>10. ASSUME screen.at = "reading", screen.read # NoAnswer
         PROVE  Covers(ToSet(screen.held) \cup ToSet(wire'.phone), Unheard,
                       ToSet(screen.read.events), screen.read.head, rows')
    <2>1. phone.on
      BY <1>10 DEF PhoneInv, ScreenOK
    <2>2. Covers(ToSet(screen.held) \cup ToSet(wire.phone), Unheard,
                 ToSet(screen.read.events), screen.read.head, rows)
      BY <1>10 DEF PhoneInv, ScreenOK
    <2>3. \A g \in (ToSet(screen.held) \cup ToSet(wire.phone)) \cup {f} :
             g.seq > Unheard => g \in ToSet(screen.held) \cup ToSet(wire'.phone)
      BY <1>9, <2>1
    <2> QED
      BY <1>1, <1>2, <1>6, <2>2, <2>3, CoversEvent
  <1>11. ASSUME screen.at = "live", phone.on, ~screen.cut
         PROVE  Covers(ToSet(wire'.phone), Unheard, ToSet(screen.drawn), screen.reached, rows')
    <2>1. Covers(ToSet(wire.phone), Unheard, ToSet(screen.drawn), screen.reached, rows)
      BY <1>5, <1>11 DEF PhoneInv, ScreenOK
    <2>2. \A g \in ToSet(wire.phone) \cup {f} : g.seq > Unheard => g \in ToSet(wire'.phone)
      BY <1>9, <1>11
    <2> QED
      BY <1>1, <1>2, <1>6, <2>1, <2>2, CoversEvent
  <1>12. ASSUME screen.at = "live", ~phone.on, ~screen.cut, phone.life = count.stops,
                phone.heads # Unheard, phone.heads >= head' - Len(log')
         PROVE  Covers(ToSet(log'), phone.heads, ToSet(screen.drawn), screen.reached, rows')
    <2>0. phone.heads >= head + 1 - Len(log')
      <3> DEFINE m == Len(log')
      <3>1. m \in Nat
        BY StepLength DEF PhoneInv
      <3>2. phone.heads >= head' - m
        BY <1>12
      <3> HIDE DEF m
      <3>3. phone.heads >= head + 1 - m
        BY <1>1, <1>2, <1>3, <3>1, <3>2
      <3> QED
        BY <3>3 DEF m
    <2> DEFINE g == Append(log, f)
    <2>1. g \in Seq(Frames) /\ Len(g) = Len(log) + 1 /\ ToSet(g) = ToSet(log) \cup {f}
      BY <1>2, AppendProperties, SetAppended
    <2>2. Numbered(g, head + 1)
      BY <1>1, <1>2, NumberedGrows
    <2>3. log' = Capped(g)
      BY <1>1
    <2> HIDE DEF g
    <2>4. PICK n \in Nat : Rest(g, n, Capped(g))
      BY <2>1, CappedIs
    <2>5. Len(log') <= Len(log) + 1 /\ Len(log') \in Nat
      BY <2>1, <2>3, <2>4, RestIn
    <2>6. phone.heads >= head - Len(log)
      BY <1>2, <1>3, <2>0, <2>5
    <2>7. Covers(ToSet(log), phone.heads, ToSet(screen.drawn), screen.reached, rows)
      BY <1>12, <2>6 DEF PhoneInv, ScreenOK
    <2>8. phone.heads <= head
      <3>1. phone.heads <= head - Len(wire.phone)
        BY <1>12 DEF PhoneInv, ConnectionOK
      <3> QED
        BY <1>2, <1>3, <3>1
    <2>9. f.seq > phone.heads
      BY <1>1, <1>2, <1>3, <2>8
    <2>10. ASSUME NEW x \in ToSet(log) \cup {f}, x.seq > phone.heads PROVE x \in ToSet(log')
      <3>1. x \in ToSet(g) /\ x \in Frames
        BY <1>2, <2>1, FramesOf
      <3>2. x.seq > head + 1 - Len(Capped(g))
        <4>1. x.seq \in Nat
          BY <3>1, FrameFacts
        <4>2. phone.heads >= head + 1 - Len(Capped(g)) /\ Len(Capped(g)) \in Nat
          BY <2>0, <2>3, <2>5
        <4> QED
          BY <1>2, <1>3, <2>10, <4>1, <4>2
      <3>3. x \in ToSet(Capped(g))
        BY <1>2, <2>1, <2>2, <2>4, <3>1, <3>2, NewEnough
      <3> QED
        BY <2>3, <3>3
    <2> QED
      BY <1>1, <1>2, <2>7, <2>9, <2>10, CoversEvent
  <1>13. screen'.at = "reading" => phone'.on
    BY <1>1 DEF PhoneInv, ScreenOK
  <1>14. screen'.at = "reading" /\ screen'.read # NoAnswer =>
            /\ Opened(ToSet(screen'.read.events), screen'.read.head, rows')
            /\ Covers(ToSet(screen'.held) \cup ToSet(wire'.phone), Unheard,
                      ToSet(screen'.read.events), screen'.read.head, rows')
    BY <1>1, <1>8, <1>10 DEF PhoneInv, ScreenOK
  <1>15. screen'.at = "live" => Opened(ToSet(screen'.drawn), screen'.reached, rows')
    BY <1>1, <1>8 DEF PhoneInv, ScreenOK
  <1>16. screen'.at = "live" /\ phone'.on /\ ~phone'.resumes /\ ~screen'.cut =>
            Covers(ToSet(wire'.phone), Unheard, ToSet(screen'.drawn), screen'.reached, rows')
    BY <1>1, <1>11
  <1>17. screen'.at = "live" /\ (~phone'.on \/ phone'.resumes) /\ ~screen'.cut =>
            (phone'.life = count'.stops /\ phone'.heads # Unheard /\ phone'.heads >= head' - Len(log') =>
                Covers(ToSet(log'), phone'.heads, ToSet(screen'.drawn), screen'.reached, rows'))
    BY <1>1, <1>5, <1>12
  <1>18. \A g \in ToSet(screen'.held) : Told(g, rows', asks', said')
    BY <1>1, <1>7
  <1> QED
    BY <1>13, <1>14, <1>15, <1>16, <1>17, <1>18 DEF ScreenOK

LEMMA PhoneSpeaks ==
    ASSUME Quiet, Types, RowsOK, PhoneInv, NEW f \in Frames, Speaks(f)
    PROVE  PhoneInv'
  BY ConnectionSpeaks, NumbersSpeak, CardsSpeak, ScreenSpeaks DEF PhoneInv

\* Nothing the phone has to do with.
LEMMA PhoneAside ==
    ASSUME PhoneInv, UNCHANGED <<who, rows, asks, said, head, log, phone, screen>>,
           wire'.phone = wire.phone, count'.stops = count.stops
    PROVE  PhoneInv'
  <1>1. ConnectionOK'
    BY DEF PhoneInv, ConnectionOK, Pending, After
  <1>2. NumbersOK' /\ CardsOK' /\ ScreenOK'
    BY DEF PhoneInv, NumbersOK, CardsOK, ScreenOK
  <1> QED
    BY <1>1, <1>2 DEF PhoneInv

-----------------------------------------------------------------------------
(* The screen alone.                                                       *)

LEMMA ScreenAlone ==
    ASSUME PhoneInv, UNCHANGED <<who, rows, asks, said, head, log, wire, phone>>,
           count'.stops = count.stops, ScreenOK'
    PROVE  PhoneInv'
  <1>1. ConnectionOK'
    BY DEF PhoneInv, ConnectionOK, Pending, After
  <1>2. NumbersOK' /\ CardsOK'
    BY DEF PhoneInv, NumbersOK, CardsOK
  <1> QED
    BY <1>1, <1>2 DEF PhoneInv

LEMMA EmptySet == ToSet(<<>>) = {}
  BY DEF ToSet

LEMMA ScreenOpens ==
    ASSUME Types, PhoneInv, OpenScreen
    PROVE  PhoneInv'
  <1>1. phone.on /\ UNCHANGED <<who, rows, asks, said, head, log, wire, desk, phone>>
        /\ screen' = [NoScreen EXCEPT !.at = "reading"] /\ count'.stops = count.stops
    BY DEF OpenScreen, Types, Counts
  <1>2. screen'.at = "reading" /\ screen'.read = NoAnswer /\ screen'.held = <<>>
    BY <1>1 DEF NoScreen
  <1>3. ScreenOK'
    BY <1>1, <1>2, EmptySet DEF ScreenOK
  <1> QED
    BY <1>1, <1>3, ScreenAlone

LEMMA ScreenCloses ==
    ASSUME PhoneInv, CloseScreen
    PROVE  PhoneInv'
  <1>1. UNCHANGED <<who, rows, asks, said, head, log, wire, desk, phone, count>> /\ screen' = NoScreen
    BY DEF CloseScreen
  <1>2. screen'.at = "closed" /\ screen'.held = <<>>
    BY <1>1 DEF NoScreen
  <1>3. ScreenOK'
    BY <1>1, <1>2, EmptySet DEF ScreenOK
  <1> QED
    BY <1>1, <1>3, ScreenAlone

LEMMA ScreenReads ==
    ASSUME Types, RowsOK, PhoneInv, ReadScreen
    PROVE  PhoneInv'
  <1>1. screen.at = "reading" /\ UNCHANGED <<who, rows, asks, said, head, log, wire, desk, phone, count>>
        /\ screen' \in {[screen EXCEPT !.read = Transcript], [screen EXCEPT !.at = "failed"]}
    BY DEF ReadScreen
  <1>2. screen \in Screens
    BY DEF Types
  <1>3. phone.on /\ \A f \in ToSet(screen.held) : Told(f, rows, asks, said)
    BY <1>1 DEF PhoneInv, ScreenOK
  <1>4. CASE screen' = [screen EXCEPT !.read = Transcript]
    <2>1. screen'.at = "reading" /\ screen'.held = screen.held /\ screen'.read = Transcript
      BY <1>1, <1>2, <1>4 DEF Screens
    <2>2. screen'.read.events = Newest(rows) /\ screen'.read.head = Len(rows)
      BY <2>1 DEF Transcript
    <2>3. said \in Nat /\ LogOK(rows, said)
      BY DEF Types, RowsOK
    <2>4. /\ Opened(ToSet(Newest(rows)), Len(rows), rows)
          /\ \A F, from : Covers(F, from, ToSet(Newest(rows)), Len(rows), rows)
      BY <2>3, NewestOpened
    <2>5. ScreenOK'
      BY <1>1, <1>3, <2>1, <2>2, <2>4 DEF ScreenOK
    <2> QED
      BY <1>1, <2>5, ScreenAlone
  <1>5. CASE screen' = [screen EXCEPT !.at = "failed"]
    <2>1. screen'.at = "failed" /\ screen'.held = screen.held
      BY <1>2, <1>5 DEF Screens
    <2>2. ScreenOK'
      BY <1>1, <1>3, <2>1 DEF ScreenOK
    <2> QED
      BY <1>1, <2>2, ScreenAlone
  <1> QED
    BY <1>1, <1>4, <1>5

\* The replay, and what came while it was read.
LEMMA ScreenHydrates ==
    ASSUME Types, RowsOK, PhoneInv, HydrateScreen
    PROVE  PhoneInv'
  <1>1. UNCHANGED <<who, rows, asks, said, head, log, wire, desk, phone, count>>
        /\ screen.at = "reading" /\ screen.read # NoAnswer
    BY DEF HydrateScreen
  <1>2. /\ screen.read \in TextAnswers
        /\ Shown \in Screens /\ Shown.at = "live" /\ Shown.held = <<>>
        /\ Shown.drawn = screen.read.events /\ Shown.reached = screen.read.head
        /\ Shown.cut = screen.cut
        /\ screen' = FoldLeft(DrawnOnPhone, Shown, screen.held)
    BY ShownIs
  <1> DEFINE K == ToSet(screen.held)
             E == ToSet(screen.read.events)
             n == screen.read.head
  <1>3. screen.held \in Seq(Frames) /\ K \subseteq Frames
    BY PhoneTypes
  <1>4. n \in Nat
    BY <1>2 DEF TextAnswers
  <1>5. /\ wire.phone \in Seq(Frames) /\ ToSet(wire.phone) \subseteq Frames
        /\ said \in Nat /\ LogOK(rows, said)
    BY PhoneParts DEF PhoneInv
  <1>6. /\ \A f \in K : Told(f, rows, asks, said)
        /\ phone.on /\ Opened(E, n, rows)
        /\ Covers(K \cup ToSet(wire.phone), Unheard, E, n, rows)
    BY <1>1 DEF PhoneInv, ScreenOK
  <1>7. Draw(Shown, screen', K)
    BY <1>2, <1>3, ScreenFoldIs
  <1>8. /\ screen'.at = "live" /\ screen'.held = <<>> /\ screen'.reached = n
        /\ ToSet(screen'.drawn) = E \cup Ids(K, n)
    BY <1>2, <1>7 DEF Draw
  <1> HIDE DEF K, E, n
  <1>9. Opened(E \cup Ids(K, n), n, rows)
    BY <1>3, <1>5, <1>6, OpenedMore
  <1>10. ToSet(wire.phone) \cup K = K \cup ToSet(wire.phone)
    OBVIOUS
  <1>11. Covers(ToSet(wire.phone), Unheard, E \cup Ids(K, n), n, rows)
    BY <1>3, <1>4, <1>5, <1>6, <1>10, CoversDrawn
  <1>12. phone.resumes => Covers(ToSet(log), phone.heads, E \cup Ids(K, n), n, rows)
    <2>1. phone.resumes => wire.phone = <<>>
      BY DEF PhoneInv, ConnectionOK
    <2>2. phone.resumes => Covers({}, Unheard, E \cup Ids(K, n), n, rows)
      BY <1>11, <2>1, EmptySet
    <2> QED
      BY <2>2 DEF Covers
  <1>13. ScreenOK'
    BY <1>1, <1>6, <1>8, <1>9, <1>11, <1>12, EmptySet DEF ScreenOK
  <1> QED
    BY <1>1, <1>13, ScreenAlone

-----------------------------------------------------------------------------
(* The calls of the phone.                                                 *)

LEMMA ScreenKept ==
    ASSUME ScreenOK, UNCHANGED <<rows, asks, said, head, log, wire>>, count'.stops = count.stops,
           screen'.at = screen.at, screen'.read = screen.read, screen'.held = screen.held,
           screen'.drawn = screen.drawn, screen'.reached = screen.reached,
           screen.cut => screen'.cut,
           screen.at = "reading" => phone'.on,
           screen.at = "live" /\ ~screen'.cut /\ phone'.on /\ ~phone'.resumes =>
               phone.on /\ ~phone.resumes,
           screen.at = "live" /\ ~screen'.cut /\ (~phone'.on \/ phone'.resumes) =>
               (~phone.on \/ phone.resumes) /\ phone'.life = phone.life /\ phone'.heads = phone.heads
    PROVE  ScreenOK'
  <1>1. \A f \in ToSet(screen'.held) : Told(f, rows', asks', said')
    BY DEF ScreenOK
  <1>2. screen'.at = "reading" => phone'.on
    OBVIOUS
  <1>3. screen'.at = "reading" /\ screen'.read # NoAnswer =>
            /\ Opened(ToSet(screen'.read.events), screen'.read.head, rows')
            /\ Covers(ToSet(screen'.held) \cup ToSet(wire'.phone), Unheard,
                      ToSet(screen'.read.events), screen'.read.head, rows')
    BY DEF ScreenOK
  <1>4. screen'.at = "live" => Opened(ToSet(screen'.drawn), screen'.reached, rows')
    BY DEF ScreenOK
  <1>5. screen'.at = "live" /\ phone'.on /\ ~phone'.resumes /\ ~screen'.cut =>
            Covers(ToSet(wire'.phone), Unheard, ToSet(screen'.drawn), screen'.reached, rows')
    BY DEF ScreenOK
  <1>6. screen'.at = "live" /\ (~phone'.on \/ phone'.resumes) /\ ~screen'.cut =>
            (phone'.life = count'.stops /\ phone'.heads # Unheard /\ phone'.heads >= head' - Len(log') =>
                Covers(ToSet(log'), phone'.heads, ToSet(screen'.drawn), screen'.reached, rows'))
    BY DEF ScreenOK
  <1> QED
    BY <1>1, <1>2, <1>3, <1>4, <1>5, <1>6 DEF ScreenOK

\* A call that leaves what was noted and the cards as they are.
LEMMA NumbersKept ==
    ASSUME NumbersOK, UNCHANGED <<rows, asks, said, head, log, wire>>
    PROVE  NumbersOK'
  BY DEF NumbersOK

LEMMA PhoneReconnects ==
    ASSUME Types, PhoneInv, Reconnect
    PROVE  PhoneInv'
  <1>1. UNCHANGED <<who, rows, asks, said, head, log, wire, desk, screen, count>>
        /\ who = "phone" /\ ~phone.on
        /\ phone' = [phone EXCEPT !.on = TRUE, !.handlers = @ + 1, !.step = "refresh",
                                  !.resumes = TRUE, !.fresh = FALSE]
    BY DEF Reconnect
  <1>2. phone'.on = TRUE /\ phone'.handlers = phone.handlers + 1 /\ phone'.step = "refresh"
        /\ phone'.resumes = TRUE /\ phone'.fresh = FALSE /\ phone'.heads = phone.heads
        /\ phone'.life = phone.life /\ phone.handlers \in Nat
    BY <1>1, PhoneTypes DEF Types, Phones
  <1>3. ConnectionOK'
    <2>1. phone'.handlers # 0
      BY <1>2
    <2>2. wire.phone = <<>> /\ phone.life <= count.stops
          /\ (phone.life = count.stops => phone.heads <= head - Len(wire.phone))
      BY <1>1 DEF PhoneInv, ConnectionOK
    <2> QED
      BY <1>1, <1>2, <2>1, <2>2 DEF ConnectionOK
  <1>4. ScreenOK'
    BY <1>1, <1>2, ScreenKept DEF PhoneInv
  <1>5. CardsOK'
    BY <1>2 DEF CardsOK
  <1> QED
    BY <1>1, <1>3, <1>4, <1>5, NumbersKept DEF PhoneInv

\* A call the phone makes, and what comes of it.
LEMMA PhoneCalls ==
    ASSUME Types, PhoneInv, phone.on, UNCHANGED <<who, rows, asks, said, head, log, wire, count>>,
           phone'.on = phone.on, phone'.handlers = phone.handlers, phone'.heads = phone.heads,
           phone'.life = phone.life,
           phone'.resumes => phone.resumes /\ phone'.step # "idle",
           phone'.step \in {"resume", "replay"} =>
               phone'.resumes /\ phone'.from = phone.heads /\ phone.heads # Unheard,
           phone'.step = "publish" => phone'.answer.open = Pending,
           phone'.step = "replay" =>
               phone'.answer.head = head /\ phone'.answer.events = Later(log, phone'.from),
           screen' \in {CutIf(FALSE), CutIf(phone.resumes), CutIf(TRUE), screen},
           phone.resumes /\ ~phone'.resumes /\ screen.at # "closed" => screen'.cut,
           phone'.fresh => \/ phone.fresh /\ phone'.cards = phone.cards
                           \/ phone'.cards = Pending
    PROVE  PhoneInv'
  <1>1. ConnectionOK'
    <2>1. who = "phone" /\ phone.handlers # 0
          /\ (phone.resumes => wire.phone = <<>>)
          /\ phone.life <= count.stops
          /\ (phone.life = count.stops => phone.heads <= head - Len(wire.phone))
      BY DEF PhoneInv, ConnectionOK
    <2>2. Pending' = Pending
      BY DEF Pending
    <2>3. After(phone'.from) = Later(log, phone'.from) /\ After(phone.from)' = Later(log', phone'.from)
      BY DEF After
    <2> QED
      BY <2>1, <2>2, <2>3 DEF ConnectionOK
  <1>2. screen'.at = screen.at /\ screen'.read = screen.read /\ screen'.held = screen.held
        /\ screen'.drawn = screen.drawn /\ screen'.reached = screen.reached
        /\ (screen.cut => screen'.cut)
    <2>1. ASSUME NEW lost \in BOOLEAN, screen' = CutIf(lost)
          PROVE  /\ screen'.at = screen.at /\ screen'.read = screen.read /\ screen'.held = screen.held
                 /\ screen'.drawn = screen.drawn /\ screen'.reached = screen.reached
                 /\ screen.cut => screen'.cut
      BY <2>1, CutIs
    <2>2. phone.resumes \in BOOLEAN
      BY PhoneTypes
    <2> QED
      BY <2>1, <2>2
  <1>3. ScreenOK'
    <2>1. screen.at = "reading" => phone'.on
      OBVIOUS
    <2>2. screen.at = "live" /\ ~screen'.cut /\ phone'.on /\ ~phone'.resumes => phone.on /\ ~phone.resumes
      OBVIOUS
    <2>3. screen.at = "live" /\ ~screen'.cut /\ (~phone'.on \/ phone'.resumes) =>
             (~phone.on \/ phone.resumes) /\ phone'.life = phone.life /\ phone'.heads = phone.heads
      OBVIOUS
    <2>4. ScreenOK /\ UNCHANGED <<rows, asks, said, head, log, wire>> /\ count'.stops = count.stops
      BY DEF PhoneInv
    <2> QED
      BY <1>2, <2>1, <2>2, <2>3, <2>4, ScreenKept
  <1>4. CardsOK'
    <2> SUFFICES ASSUME phone'.fresh PROVE Tells(phone'.cards, {}, wire.phone, 0, asks)
      BY DEF CardsOK
    <2>1. CASE phone.fresh /\ phone'.cards = phone.cards
      BY <2>1 DEF PhoneInv, CardsOK
    <2>2. CASE phone'.cards = Pending
      BY <2>2, PendingTells
    <2> QED
      BY <2>1, <2>2
  <1>5. NumbersOK'
    BY NumbersKept DEF PhoneInv
  <1> QED
    BY <1>1, <1>3, <1>4, <1>5 DEF PhoneInv

LEMMA PhoneRefreshes ==
    ASSUME Types, PhoneInv, Refresh
    PROVE  PhoneInv'
  <1>1. UNCHANGED <<who, rows, asks, said, head, log, wire, desk, screen, count>>
        /\ phone.on /\ phone.step = "idle"
        /\ phone' = [phone EXCEPT !.step = "refresh", !.resumes = FALSE]
    BY DEF Refresh
  <1>2. ~phone.resumes
    BY <1>1 DEF PhoneInv, ConnectionOK
  <1>3. /\ phone'.on = phone.on /\ phone'.handlers = phone.handlers /\ phone'.heads = phone.heads
        /\ phone'.life = phone.life /\ phone'.step = "refresh" /\ phone'.resumes = FALSE
        /\ phone'.fresh = phone.fresh /\ phone'.cards = phone.cards
    BY <1>1 DEF Types, Phones
  <1> QED
    BY <1>1, <1>2, <1>3, PhoneCalls

LEMMA OnTheLine ==
    ASSUME PhoneInv, phone.step # "idle"
    PROVE  phone.on
  BY DEF PhoneInv, ConnectionOK

LEMMA RefreshAnswered ==
    ASSUME Types, PhoneInv, AnswerRefresh
    PROVE  PhoneInv'
  <1>1. UNCHANGED <<who, rows, asks, said, head, log, wire, desk, screen, count>>
        /\ phone.step = "refresh"
        /\ phone' = [phone EXCEPT !.step = "publish", !.answer = PermissionPending]
    BY DEF AnswerRefresh
  <1>2. phone.on
    BY <1>1, OnTheLine
  <1>3. /\ phone'.on = phone.on /\ phone'.handlers = phone.handlers /\ phone'.heads = phone.heads
        /\ phone'.life = phone.life /\ phone'.step = "publish" /\ phone'.resumes = phone.resumes
        /\ phone'.fresh = phone.fresh /\ phone'.cards = phone.cards
        /\ phone'.answer.open = Pending
    BY <1>1 DEF Types, Phones, PermissionPending
  <1> QED
    BY <1>1, <1>2, <1>3, PhoneCalls

LEMMA CutWhen ==
    ASSUME Types, NEW lost \in BOOLEAN, screen' = CutIf(lost), lost, screen.at # "closed"
    PROVE  screen'.cut
  BY CutIs

LEMMA RefreshLost ==
    ASSUME Types, PhoneInv, RefreshFails
    PROVE  PhoneInv'
  <1>1. UNCHANGED <<who, rows, asks, said, head, log, wire, desk, count>>
        /\ phone.step = "refresh" /\ phone' = [AtRest(phone) EXCEPT !.fresh = FALSE]
        /\ screen' = CutIf(phone.resumes)
    BY DEF RefreshFails
  <1>2. phone.on /\ phone \in Phones /\ phone.resumes \in BOOLEAN
    BY <1>1, OnTheLine, PhoneTypes
  <1> DEFINE q == AtRest(phone)
  <1>3. /\ q \in Phones /\ q.step = "idle" /\ q.resumes = FALSE
        /\ q.on = phone.on /\ q.handlers = phone.handlers /\ q.heads = phone.heads
        /\ q.life = phone.life
    BY <1>2, RestIs
  <1>4. phone' = [q EXCEPT !.fresh = FALSE]
    BY <1>1
  <1> HIDE DEF q
  <1>5. /\ phone'.on = phone.on /\ phone'.handlers = phone.handlers /\ phone'.heads = phone.heads
        /\ phone'.life = phone.life /\ phone'.step = "idle" /\ phone'.resumes = FALSE
        /\ phone'.fresh = FALSE
    BY <1>3, <1>4 DEF Phones
  <1>6. phone.resumes /\ screen.at # "closed" => screen'.cut
    BY <1>1, <1>2, CutWhen
  <1> QED
    BY <1>1, <1>2, <1>5, <1>6, PhoneCalls

\* The phone publishes what a refresh read.
LEMMA Published ==
    ASSUME Types, PhoneInv, Publish
    PROVE  PhoneInv'
  <1>1. UNCHANGED <<who, rows, asks, said, head, log, wire, desk, count>>
    BY DEF Publish
  <1>2. /\ phone.step = "publish"
        /\ phone'.on = phone.on /\ phone'.handlers = phone.handlers
        /\ phone'.heads = phone.heads /\ phone'.life = phone.life
        /\ phone'.cards = phone.answer.open
        /\ \/ /\ phone.resumes /\ phone.heads # Unheard
              /\ phone'.step = "resume" /\ phone'.resumes /\ phone'.from = phone.heads
              /\ screen' = CutIf(FALSE)
           \/ /\ ~(phone.resumes /\ phone.heads # Unheard)
              /\ phone'.step = "idle" /\ phone'.resumes = FALSE
              /\ screen' = CutIf(phone.resumes)
    BY PublishIs
  <1>3. phone.on /\ phone.answer.open = Pending
    BY <1>2, OnTheLine DEF PhoneInv, ConnectionOK
  <1>4. phone.resumes /\ ~phone'.resumes /\ screen.at # "closed" => screen'.cut
    <2>1. phone.resumes \in BOOLEAN
      BY PhoneTypes
    <2> SUFFICES ASSUME phone.resumes, ~phone'.resumes, screen.at # "closed" PROVE screen'.cut
      OBVIOUS
    <2>2. screen' = CutIf(phone.resumes)
      BY <1>2
    <2> QED
      BY <2>1, <2>2, CutWhen
  <1> QED
    BY <1>1, <1>2, <1>3, <1>4, PhoneCalls

\* The host answers a resume out of its log.
LEMMA ResumeAnswered ==
    ASSUME Types, PhoneInv, AnswerResume
    PROVE  PhoneInv'
  <1>1. UNCHANGED <<who, rows, asks, said, head, log, wire, desk, screen, count>>
        /\ phone.step = "resume"
        /\ phone' = [phone EXCEPT !.step = "replay",
                        !.answer = [is |-> "answer", head |-> head, events |-> After(phone.from)]]
    BY DEF AnswerResume
  <1>2. phone.on /\ phone.resumes /\ phone.from = phone.heads /\ phone.heads # Unheard
    BY <1>1, OnTheLine DEF PhoneInv, ConnectionOK
  <1> DEFINE answer == [is |-> "answer", head |-> head, events |-> After(phone.from)]
  <1>3. answer.head = head /\ answer.events = Later(log, phone.from)
    BY DEF After
  <1> HIDE DEF answer
  <1>4. phone' = [phone EXCEPT !.step = "replay", !.answer = answer]
    BY <1>1 DEF answer
  <1>5. /\ phone'.on = phone.on /\ phone'.handlers = phone.handlers /\ phone'.heads = phone.heads
        /\ phone'.life = phone.life /\ phone'.step = "replay" /\ phone'.resumes = phone.resumes
        /\ phone'.fresh = phone.fresh /\ phone'.cards = phone.cards
        /\ phone'.from = phone.from /\ phone'.answer = answer
    BY <1>4 DEF Types, Phones
  <1>6. phone'.answer.head = head /\ phone'.answer.events = Later(log, phone'.from)
    BY <1>3, <1>5
  <1> QED
    BY <1>1, <1>2, <1>5, <1>6, PhoneCalls

LEMMA ResumeLost ==
    ASSUME Types, PhoneInv, ResumeFails
    PROVE  PhoneInv'
  <1>1. UNCHANGED <<who, rows, asks, said, head, log, wire, desk, count>>
        /\ phone.step = "resume" /\ phone' = AtRest(phone) /\ screen' = CutIf(TRUE)
    BY DEF ResumeFails
  <1>2. phone.on /\ phone \in Phones
    BY <1>1, OnTheLine, PhoneTypes
  <1>3. /\ phone'.on = phone.on /\ phone'.handlers = phone.handlers /\ phone'.heads = phone.heads
        /\ phone'.life = phone.life /\ phone'.step = "idle" /\ phone'.resumes = FALSE
        /\ phone'.fresh = phone.fresh /\ phone'.cards = phone.cards
    BY <1>1, <1>2, RestIs
  <1>4. screen.at # "closed" => screen'.cut
    BY <1>1, CutWhen
  <1> QED
    BY <1>1, <1>2, <1>3, <1>4, PhoneCalls

-----------------------------------------------------------------------------
(* The connection is lost, and the host.                                   *)

\* What a client off the line can ask for covers what a line on it would bring.
LEMMA OffTheLine ==
    ASSUME Types, RowsOK, PhoneInv, UNCHANGED <<who, rows, asks, said, head, log>>,
           wire'.phone = <<>>, phone.on, phone'.on = FALSE, phone'.step = "idle",
           phone'.resumes = FALSE, phone'.heads = phone.heads, phone'.life = phone.life,
           count'.stops = count.stops,
           screen'.at = (IF screen.at = "reading" THEN "failed" ELSE screen.at),
           screen'.read = screen.read, screen'.held = screen.held, screen'.drawn = screen.drawn,
           screen'.reached = screen.reached, screen'.cut = screen.cut
    PROVE  PhoneInv'
  <1>1. /\ wire.phone \in Seq(Frames) /\ log \in Seq(Frames) /\ head \in Nat
        /\ Len(log) \in Nat /\ Len(wire.phone) \in Nat
        /\ Numbered(log, head) /\ Numbered(wire.phone, head) /\ Agree(log, wire.phone)
        /\ ToSet(wire.phone) \subseteq Frames
    BY PhoneParts DEF PhoneInv
  <1>2. phone.heads \in Int /\ phone.life \in Nat /\ count.stops \in Nat
    BY PhoneTypes
  <1>3. phone.life <= count.stops /\ (phone.life = count.stops => phone.heads <= head - Len(wire.phone))
    BY DEF PhoneInv, ConnectionOK
  <1>4. ConnectionOK'
    <2>1. Len(<<>>) = 0
      BY EmptySeq
    <2>2. phone.life = count.stops => phone.heads <= head - 0
      BY <1>1, <1>2, <1>3
    <2> QED
      BY <1>3, <2>1, <2>2 DEF ConnectionOK
  <1>5. NumbersOK'
    <2>1. Rest(wire.phone, Len(wire.phone), <<>>)
      BY <1>1, RestNone
    <2>2. Rest(wire.phone, Len(wire.phone), wire'.phone)
      BY <2>1
    <2> QED
      BY <1>1, <2>2, NumbersFewer DEF PhoneInv
  <1>6. CardsOK'
    BY DEF CardsOK
  <1>7. ASSUME screen.at = "live", ~screen.cut, phone.life = count.stops,
               phone.heads # Unheard, phone.heads >= head - Len(log)
        PROVE  Covers(ToSet(log), phone.heads, ToSet(screen.drawn), screen.reached, rows)
    <2>1. CASE phone.resumes
      BY <1>7, <2>1 DEF PhoneInv, ScreenOK
    <2>2. CASE ~phone.resumes
      <3>1. Covers(ToSet(wire.phone), Unheard, ToSet(screen.drawn), screen.reached, rows)
        BY <1>7, <2>2 DEF PhoneInv, ScreenOK
      <3>2. ASSUME NEW f \in ToSet(wire.phone) PROVE f \in ToSet(log) /\ f.seq > phone.heads
        <4>1. f.seq > head - Len(wire.phone) /\ f.seq <= head
          <5>1. PICK i \in 1..Len(wire.phone) : f = wire.phone[i]
            BY <1>1, FramesOf
          <5> QED
            BY <1>1, <5>1, NumbersIn
        <4>2. f.seq \in Nat
          BY <1>1, FrameFacts
        <4>3. f.seq > phone.heads
          BY <1>1, <1>2, <1>3, <1>7, <4>1, <4>2
        <4>4. f.seq > head - Len(log)
          BY <1>1, <1>2, <1>7, <4>2, <4>3
        <4> QED
          BY <1>1, <4>3, <4>4, AgreeIn
      <3> QED
        BY <3>1, <3>2 DEF Covers
    <2> QED
      BY <2>1, <2>2
  <1>8. ScreenOK'
    <2>1. \A f \in ToSet(screen'.held) : Told(f, rows', asks', said')
      BY DEF PhoneInv, ScreenOK
    <2>2. screen'.at # "reading" /\ (screen'.at = "live" => screen.at = "live")
      OBVIOUS
    <2>3. screen'.at = "live" => Opened(ToSet(screen'.drawn), screen'.reached, rows')
      BY <2>2 DEF PhoneInv, ScreenOK
    <2>4. screen'.at = "live" /\ ~screen'.cut =>
             (phone'.life = count'.stops /\ phone'.heads # Unheard /\ phone'.heads >= head' - Len(log') =>
                 Covers(ToSet(log'), phone'.heads, ToSet(screen'.drawn), screen'.reached, rows'))
      BY <1>7, <2>2
    <2> QED
      BY <2>1, <2>2, <2>3, <2>4 DEF ScreenOK
  <1> QED
    BY <1>4, <1>5, <1>6, <1>8 DEF PhoneInv

LEMMA DropStops ==
    ASSUME Types, count' = [count EXCEPT !.drops = @ + 1]
    PROVE  count'.stops = count.stops
  BY DEF Types, Counts

LEMMA PhoneDrops ==
    ASSUME Types, RowsOK, PhoneInv, Drop
    PROVE  PhoneInv'
  <1>1. UNCHANGED <<who, rows, asks, said, head, log, desk>> /\ phone.on /\ Severed
        /\ count' = [count EXCEPT !.drops = @ + 1] /\ wire' = [wire EXCEPT !.phone = <<>>]
    BY DEF Drop
  <1>2. wire'.phone = <<>> /\ count'.stops = count.stops
    BY <1>1, WireCleared, DropStops
  <1>3. /\ phone'.step = "idle" /\ phone'.resumes = FALSE
        /\ phone'.on = FALSE /\ phone'.heads = phone.heads /\ phone'.life = phone.life
        /\ screen'.at = (IF screen.at = "reading" THEN "failed" ELSE screen.at)
        /\ screen'.read = screen.read /\ screen'.held = screen.held
        /\ screen'.drawn = screen.drawn /\ screen'.reached = screen.reached
        /\ screen'.cut = screen.cut
    BY <1>1, SeveredIs
  <1> QED
    BY <1>1, <1>2, <1>3, OffTheLine

LEMMA PhoneDisconnects ==
    ASSUME Types, RowsOK, PhoneInv, Disconnect
    PROVE  PhoneInv'
  <1>1. UNCHANGED <<who, rows, asks, said, head, log, desk>> /\ phone.on
        /\ count' = [count EXCEPT !.drops = @ + 1] /\ wire' = [wire EXCEPT !.phone = <<>>]
    BY DEF Disconnect
  <1>2. wire'.phone = <<>> /\ count'.stops = count.stops
    BY <1>1, WireCleared, DropStops
  <1>3. /\ phone'.step = "idle" /\ phone'.resumes = FALSE
        /\ phone'.on = FALSE /\ phone'.heads = phone.heads /\ phone'.life = phone.life
        /\ screen'.at = (IF screen.at = "reading" THEN "failed" ELSE screen.at)
        /\ screen'.read = screen.read /\ screen'.held = screen.held
        /\ screen'.drawn = screen.drawn /\ screen'.reached = screen.reached
        /\ screen'.cut = screen.cut
    BY DisconnectIs
  <1> QED
    BY <1>1, <1>2, <1>3, OffTheLine

LEMMA RestartIsLater ==
    ASSUME Types, RowsOK, Restart
    PROVE  Onward(rows, asks, said, rows', asks', said')
  <1>1. said \in Nat /\ LogOK(rows, said) /\ Len(rows) \in Nat /\ rows \in Seq(Texts)
    BY RowsAre DEF Types, RowsOK
  <1>2. LogOK(rows', said')
    BY StepRows DEF RowsOK, Next
  <1>3. said' \in Nat
    BY StepTypes DEF Types, Next
  <1>4. CASE UNCHANGED <<rows, asks, said>>
    <2>1. \A i \in 1..Len(rows) : ~(Len(rows) < i)
      BY <1>1
    <2>2. said <= said' /\ Len(rows) <= Len(rows')
      BY <1>1, <1>4
    <2> QED
      BY <1>2, <1>3, <1>4, <2>1, <2>2 DEF Onward
  <1>5. CASE said < MaxTexts /\ said' = said + 1 /\ rows' = Append(rows, said + 1) /\ UNCHANGED asks
    <2>1. Len(rows') = Len(rows) + 1 /\ (\A i \in 1..Len(rows) : rows'[i] = rows[i])
          /\ rows'[Len(rows) + 1] = said + 1
      BY <1>1, <1>5, LogGrows
    <2>2. \A i \in 1..Len(rows') : Len(rows) < i => said < rows'[i]
      <3>1. \A i \in 1..Len(rows') : Len(rows) < i => i = Len(rows) + 1
        BY <1>1, <2>1
      <3> QED
        BY <1>1, <2>1, <3>1
    <2> QED
      BY <1>1, <1>2, <1>3, <1>5, <2>1, <2>2 DEF Onward
  <1>6. CASE /\ \E a \in Asks : \/ asks[a] = "none" /\ asks' = [asks EXCEPT ![a] = "open"]
                                \/ asks[a] = "open" /\ asks' = [asks EXCEPT ![a] = "settled"]
             /\ UNCHANGED <<rows, said>>
    <2>1. \A i \in 1..Len(rows) : ~(Len(rows) < i)
      BY <1>1
    <2>2. \A x \in Asks : (asks[x] # "none" => asks'[x] # "none")
                          /\ (asks[x] = "settled" => asks'[x] = "settled")
      BY <1>6 DEF Types
    <2>3. said <= said' /\ Len(rows) <= Len(rows')
      BY <1>1, <1>6
    <2> QED
      BY <1>2, <1>3, <1>6, <2>1, <2>2, <2>3 DEF Onward
  <1> QED
    BY <1>4, <1>5, <1>6 DEF Restart

\* The host stops: the log and the numbers begin again.
LEMMA PhoneRestarts ==
    ASSUME Types, RowsOK, PhoneInv, Restart
    PROVE  PhoneInv'
  <1>1. UNCHANGED who /\ head' = 0 /\ log' = <<>> /\ wire' = [c \in Clients |-> <<>>] /\ Severed
        /\ count' = [count EXCEPT !.stops = @ + 1]
    BY DEF Restart
  <1>2. wire'.phone = <<>>
    BY <1>1 DEF Clients
  <1>3. count'.stops = count.stops + 1 /\ count.stops \in Nat /\ phone.life \in Nat
    BY <1>1, PhoneTypes DEF Types, Counts
  <1>4. /\ phone'.step = "idle" /\ phone'.resumes = FALSE
        /\ phone'.on = FALSE /\ phone'.life = phone.life
        /\ screen'.at = (IF screen.at = "reading" THEN "failed" ELSE screen.at)
        /\ screen'.held = screen.held /\ screen'.drawn = screen.drawn
        /\ screen'.reached = screen.reached
    BY <1>1, SeveredIs
  <1>5. phone.life <= count.stops
    BY DEF PhoneInv, ConnectionOK
  <1>6. phone'.life <= count'.stops /\ phone'.life # count'.stops
    BY <1>3, <1>4, <1>5
  <1>7. ConnectionOK'
    BY <1>2, <1>4, <1>6 DEF ConnectionOK
  <1>8. Onward(rows, asks, said, rows', asks', said') /\ said \in Nat /\ LogOK(rows, said)
        /\ asks \in AskStates
    BY RestartIsLater DEF Types, RowsOK, AskStates
  <1>9. NumbersOK'
    <2>1. LineOK(<<>>, rows', asks', said')
      BY <1>8, EmptyLine DEF Onward
    <2>2. Numbered(<<>>, 0) /\ Agree(<<>>, <<>>)
      BY EmptyNumbers
    <2> QED
      BY <1>1, <1>2, <2>1, <2>2 DEF NumbersOK
  <1>10. CardsOK'
    BY <1>4 DEF CardsOK
  <1>11. ScreenOK'
    <2>1. \A f \in ToSet(screen.held) : Told(f, rows', asks', said')
      BY <1>8, StillTold, PhoneTypes DEF PhoneInv, ScreenOK
    <2>2. screen'.at # "reading" /\ (screen'.at = "live" => screen.at = "live")
      BY <1>4
    <2>3. screen'.at = "live" => Opened(ToSet(screen'.drawn), screen'.reached, rows')
      <3>1. screen.at = "live" => Opened(ToSet(screen.drawn), screen.reached, rows')
        BY <1>8, OpenedLater DEF PhoneInv, ScreenOK
      <3> QED
        BY <1>4, <2>2, <3>1
    <2> QED
      BY <1>4, <1>6, <2>1, <2>2, <2>3 DEF ScreenOK
  <1> QED
    BY <1>7, <1>9, <1>10, <1>11 DEF PhoneInv

-----------------------------------------------------------------------------
(* A frame reaches the phone.                                              *)

LEMMA CoversInto ==
    ASSUME NEW r, NEW F, NEW G, \A f \in F : f.row \in Nat \ {0} => f \in G,
           NEW from, NEW drawn, NEW reached, Covers(F, from, drawn, reached, r), Len(r) \in Nat
    PROVE  Covers(G, from, drawn, reached, r)
  <1> SUFFICES ASSUME NEW k \in 1..Len(r), reached < k, r[k] \notin drawn
               PROVE  \E f \in G : f.seq > from /\ f.row = k
    BY DEF Covers
  <1>1. PICK f \in F : f.seq > from /\ f.row = k
    BY DEF Covers
  <1>2. f.row \in Nat \ {0}
    BY <1>1
  <1> QED
    BY <1>1, <1>2

LEMMA HeadAndTail ==
    ASSUME NEW l \in Seq(Frames), l # <<>>
    PROVE  ToSet(l) = {Head(l)} \cup ToSet(Tail(l)) /\ Head(l) = l[1] /\ Head(l) \in Frames
           /\ 1 \in 1..Len(l)
  <1>1. Tail(l) \in Seq(Frames) /\ Len(Tail(l)) = Len(l) - 1 /\ Head(l) \in Frames
        /\ \A i \in 1..Len(Tail(l)) : Tail(l)[i] = l[i + 1]
    BY HeadTailProperties
  <1>2. Len(l) \in Nat \ {0}
    BY EmptySeq
  <1>3. Head(l) = l[1]
    OBVIOUS
  <1>4. ToSet(l) = {l[i] : i \in 1..Len(l)} /\ ToSet(Tail(l)) = {Tail(l)[i] : i \in 1..Len(Tail(l))}
    BY <1>1, SetOf
  <1>5. ASSUME NEW i \in 1..Len(l) PROVE l[i] \in {Head(l)} \cup ToSet(Tail(l))
    <2>1. CASE i = 1
      BY <1>3, <2>1
    <2>2. CASE i # 1
      <3>1. i - 1 \in 1..Len(Tail(l)) /\ (i - 1) + 1 = i
        BY <1>1, <1>2, <2>2
      <3>2. Tail(l)[i - 1] = l[(i - 1) + 1]
        BY <1>1, <3>1
      <3> QED
        BY <1>4, <3>1, <3>2
    <2> QED
      BY <2>1, <2>2
  <1>6. \A i \in 1..Len(Tail(l)) : i + 1 \in 1..Len(l)
    BY <1>1, <1>2
  <1>7. 1 \in 1..Len(l)
    BY <1>2
  <1>8. ToSet(Tail(l)) \subseteq ToSet(l)
    BY <1>1, <1>4, <1>6
  <1> QED
    BY <1>1, <1>3, <1>4, <1>5, <1>7, <1>8

\* What one frame does to the phone, once or more.
Had == [heads |-> phone.heads, cards |-> phone.cards, screen |-> screen]

LEMMA PhoneHearsIs ==
    ASSUME Types, PhoneInv, PhoneHears, NEW bound \in Int
    PROVE  /\ UNCHANGED <<who, rows, asks, said, head, log, desk, count>>
           /\ wire.phone # <<>> /\ wire'.phone = Tail(wire.phone) /\ phone.on /\ ~phone.resumes
           /\ phone'.on = phone.on /\ phone'.handlers = phone.handlers /\ phone'.step = phone.step
           /\ phone'.resumes = phone.resumes /\ phone'.from = phone.from
           /\ phone'.answer = phone.answer /\ phone'.fresh = phone.fresh /\ phone'.life = phone.life
           /\ phone'.cards = (IF Head(wire.phone).kind = "ask" THEN phone.cards \cup {Head(wire.phone).id}
                              ELSE IF Head(wire.phone).kind = "resolved"
                              THEN phone.cards \ {Head(wire.phone).id} ELSE phone.cards)
           /\ phone.heads <= bound /\ Head(wire.phone).seq <= bound => phone'.heads <= bound
           /\ Watch(screen, screen', {Head(wire.phone)})
  <1>1. UNCHANGED <<who, rows, asks, said, head, log, desk, count>> /\ wire.phone # <<>>
        /\ wire' = [wire EXCEPT !.phone = Tail(@)]
        /\ phone' = [phone EXCEPT !.heads = Applied(Heard).heads, !.cards = Applied(Heard).cards]
        /\ screen' = Applied(Heard).screen
    BY DEF PhoneHears, Heard
  <1>2. wire'.phone = Tail(wire.phone)
    BY <1>1 DEF Types, Clients
  <1>3. phone.on /\ ~phone.resumes /\ phone.handlers # 0
    BY <1>1 DEF PhoneInv, ConnectionOK
  <1>4. /\ Len(Heard) = phone.handlers /\ phone.handlers \in Nat
        /\ Head(wire.phone) \in Frames
        /\ DOMAIN Heard = 1..phone.handlers
        /\ \A i \in 1..phone.handlers : Heard[i] = Head(wire.phone)
        /\ Applied(Heard) \in States
    BY HeardIs
  <1> DEFINE k == Heard
             f == Head(wire.phone)
             w == Applied(Heard)
  <1>5. Had \in States /\ Had.heads = phone.heads /\ Had.cards = phone.cards /\ Had.screen = screen
    <2>1. phone.heads \in Nat \cup {Unheard} /\ phone.cards \in SUBSET Asks /\ screen \in Screens
      BY PhoneTypes
    <2> QED
      BY <2>1, StateType DEF Had
  <1>6. w = FoldLeft(Apply, Had, k)
    BY DEF Applied, Had
  <1>7. phone'.heads = w.heads /\ phone'.cards = w.cards
        /\ phone'.on = phone.on /\ phone'.handlers = phone.handlers /\ phone'.step = phone.step
        /\ phone'.resumes = phone.resumes /\ phone'.from = phone.from
        /\ phone'.answer = phone.answer /\ phone'.fresh = phone.fresh /\ phone'.life = phone.life
    BY <1>1 DEF Types, Phones
  <1>8. f \in Frames /\ Len(k) \in Nat /\ Len(k) # 0 /\ DOMAIN k = 1..Len(k)
        /\ \A i \in 1..Len(k) : k[i] = f /\ k[i] \in Frames
    BY <1>3, <1>4
  <1>9. screen' = w.screen
    BY <1>1
  <1> HIDE DEF k, f, w
  <1>10. w.cards = IF f.kind = "ask" THEN Had.cards \cup {f.id}
                   ELSE IF f.kind = "resolved" THEN Had.cards \ {f.id} ELSE Had.cards
    BY <1>5, <1>6, <1>8, CardsOfOne
  <1>11. Applies(Had, w, First(k, Len(k)), bound)
    BY <1>5, <1>6, <1>8, ApplyFoldIs
  <1>12. First(k, Len(k)) = {f}
    <2>1. 1 \in 1..Len(k)
      BY <1>8
    <2> QED
      BY <1>8, <2>1 DEF First
  <1>13. Watch(screen, screen', {f})
    BY <1>5, <1>9, <1>11, <1>12 DEF Applies
  <1>14. phone.heads <= bound /\ f.seq <= bound => phone'.heads <= bound
    BY <1>5, <1>7, <1>11, <1>12 DEF Applies
  <1>15. phone'.cards = (IF f.kind = "ask" THEN phone.cards \cup {f.id}
                         ELSE IF f.kind = "resolved" THEN phone.cards \ {f.id} ELSE phone.cards)
    BY <1>5, <1>7, <1>10
  <1> QED
    BY <1>1, <1>2, <1>3, <1>7, <1>13, <1>14, <1>15 DEF f

\* A frame reaches the phone: noted, and applied to cards and screen.
LEMMA PhoneHearsOne ==
    ASSUME Types, RowsOK, PhoneInv, PhoneHears
    PROVE  PhoneInv'
  <1> DEFINE f == Head(wire.phone)
             w == Tail(wire.phone)
             m == Len(wire.phone)
             n == Len(w)
             bound == head - m + 1
  <1>1. /\ wire.phone \in Seq(Frames) /\ log \in Seq(Frames) /\ head \in Nat
        /\ Len(log) \in Nat /\ m \in Nat
        /\ said \in Nat /\ asks \in AskStates /\ LogOK(rows, said)
        /\ Numbered(wire.phone, head)
        /\ LineOK(wire.phone, rows, asks, said)
        /\ ToSet(wire.phone) \subseteq Frames
        /\ \A g \in ToSet(wire.phone) : Told(g, rows, asks, said)
    BY PhoneParts DEF PhoneInv
  <1>2. bound \in Int
    BY <1>1
  <1>3. /\ UNCHANGED <<who, rows, asks, said, head, log, desk, count>>
        /\ wire.phone # <<>> /\ wire'.phone = w /\ phone.on /\ ~phone.resumes
        /\ phone'.on = phone.on /\ phone'.handlers = phone.handlers /\ phone'.step = phone.step
        /\ phone'.resumes = phone.resumes /\ phone'.from = phone.from
        /\ phone'.answer = phone.answer /\ phone'.fresh = phone.fresh /\ phone'.life = phone.life
        /\ phone'.cards = (IF f.kind = "ask" THEN phone.cards \cup {f.id}
                           ELSE IF f.kind = "resolved" THEN phone.cards \ {f.id} ELSE phone.cards)
        /\ phone.heads <= bound /\ f.seq <= bound => phone'.heads <= bound
        /\ Watch(screen, screen', {f})
    BY <1>2, PhoneHearsIs
  <1>4. ToSet(wire.phone) = {f} \cup ToSet(w) /\ f = wire.phone[1] /\ f \in Frames
        /\ 1 \in 1..Len(wire.phone)
    BY <1>1, <1>3, HeadAndTail
  <1>5. Rest(wire.phone, 1, w) /\ 1 \in 0..Len(wire.phone)
    BY <1>1, <1>3, TailRest
  <1>6. f.seq = bound
    <2>1. wire.phone[1].seq = head - Len(wire.phone) + 1
      BY <1>4 DEF Numbered, PhoneInv, NumbersOK
    <2> QED
      BY <1>4, <2>1
  <1>7. n = m - 1
    BY <1>1, <1>5, LenProperties DEF Rest
  <1>8. m = Len(wire.phone) /\ n = Len(w) /\ bound = head - m + 1
    OBVIOUS
  <1> HIDE DEF f, w, bound, m, n
  <1>15. bound = head - m + 1
    BY <1>8
  <1>14. bound = head - n
    BY <1>1, <1>7, <1>8
  <1>17. head \in Nat
    BY <1>1
  <1>16. m \in Nat
    BY <1>1
  <1>9. ConnectionOK'
    <2>1. /\ who = "phone" /\ phone.handlers # 0
          /\ phone.step \notin {"resume", "replay"}
          /\ phone.step = "publish" => phone.answer.open = Pending
          /\ phone.life <= count.stops
          /\ phone.life = count.stops => phone.heads <= head - m
      BY <1>3, <1>8 DEF PhoneInv, ConnectionOK
    <2>2. phone.life = count.stops => phone'.heads <= head - n
      <3>1. phone.heads \in Int
        BY PhoneTypes
      <3>2. phone.heads <= head - m => phone.heads <= bound
        BY <1>15, <1>16, <1>17, <3>1
      <3>3. f.seq <= bound
        BY <1>2, <1>6
      <3> QED
        BY <1>3, <1>14, <2>1, <3>2, <3>3
    <2>3. Pending' = Pending
      BY <1>3 DEF Pending
    <2> QED
      BY <1>3, <1>8, <2>1, <2>2, <2>3 DEF ConnectionOK
  <1>10. NumbersOK'
    BY <1>3, <1>5, NumbersFewer DEF PhoneInv
  <1>11. CardsOK'
    <2> SUFFICES ASSUME phone.fresh PROVE Tells(phone'.cards, {}, w, 0, asks)
      BY <1>3 DEF CardsOK
    <2>1. Tells(phone.cards, {}, wire.phone, 0, asks)
      BY <1>3 DEF PhoneInv, CardsOK
    <2>2. phone'.cards = IF wire.phone[0 + 1].kind = "ask" /\ wire.phone[0 + 1].id \notin {}
                         THEN phone.cards \cup {wire.phone[0 + 1].id}
                         ELSE IF wire.phone[0 + 1].kind = "resolved"
                         THEN phone.cards \ {wire.phone[0 + 1].id} ELSE phone.cards
      BY <1>3, <1>4
    <2>3. 0 \in 0..Len(wire.phone) /\ 0 < Len(wire.phone)
      BY <1>1, <1>5
    <2>4. Tells(phone'.cards, {}, wire.phone, 0 + 1, asks)
      BY <1>1, <2>1, <2>2, <2>3, TellsNext
    <2>5. Tells(phone'.cards, {}, wire.phone, 1, asks)
      BY <2>4
    <2> QED
      BY <1>1, <1>5, <2>5, RestOK
  <1>12. /\ screen \in Screens /\ screen' \in Screens
         /\ screen'.at = screen.at /\ screen'.read = screen.read /\ screen'.reached = screen.reached
         /\ screen'.cut = screen.cut
         /\ ToSet(screen'.held) = ToSet(screen.held) \cup (IF screen.at = "reading" THEN Updates({f}) ELSE {})
         /\ ToSet(screen'.drawn) = ToSet(screen.drawn)
                                   \cup (IF screen.at = "live" THEN Ids({f}, screen.reached) ELSE {})
    BY <1>3 DEF Watch
  <1>13. ScreenOK'
    <2>1. \A g \in ToSet(screen'.held) : Told(g, rows', asks', said')
      <3>1. \A g \in ToSet(screen'.held) : g \in ToSet(screen.held) \/ g = f
        BY <1>12 DEF Updates
      <3>2. Told(f, rows, asks, said)
        BY <1>1, <1>4
      <3> QED
        BY <1>3, <3>1, <3>2 DEF PhoneInv, ScreenOK
    <2>2. screen'.at = "reading" => phone'.on
      BY <1>3
    <2>3. ASSUME screen.at = "reading", screen.read # NoAnswer
          PROVE  /\ Opened(ToSet(screen.read.events), screen.read.head, rows)
                 /\ Covers(ToSet(screen'.held) \cup ToSet(w), Unheard,
                           ToSet(screen.read.events), screen.read.head, rows)
      <3>1. /\ Opened(ToSet(screen.read.events), screen.read.head, rows)
            /\ Covers(ToSet(screen.held) \cup ToSet(wire.phone), Unheard,
                      ToSet(screen.read.events), screen.read.head, rows)
        BY <2>3 DEF PhoneInv, ScreenOK
      <3>2. ASSUME NEW g \in ToSet(screen.held) \cup ToSet(wire.phone), g.row \in Nat \ {0}
            PROVE  g \in ToSet(screen'.held) \cup ToSet(w)
        <4>1. CASE g = f
          <5>1. f.kind = "update"
            BY <1>4, <3>2, <4>1, FrameFacts
          <5>2. f \in Updates({f})
            BY <5>1 DEF Updates
          <5> QED
            BY <1>12, <2>3, <4>1, <5>2
        <4>2. CASE g # f
          BY <1>4, <1>12, <3>2, <4>2
        <4> QED
          BY <4>1, <4>2
      <3>3. Len(rows) \in Nat
        BY <1>1, RowsAre
      <3>4. Covers(ToSet(screen'.held) \cup ToSet(w), Unheard,
                   ToSet(screen.read.events), screen.read.head, rows)
        BY <3>1, <3>2, <3>3, CoversInto
      <3> QED
        BY <3>1, <3>4
    <2>4. ASSUME screen.at = "live"
          PROVE  Opened(ToSet(screen'.drawn), screen.reached, rows)
      <3>1. Opened(ToSet(screen.drawn), screen.reached, rows)
        BY <2>4 DEF PhoneInv, ScreenOK
      <3>2. {f} \in SUBSET Frames /\ \A g \in {f} : Told(g, rows, asks, said)
        BY <1>1, <1>4
      <3>3. Opened(ToSet(screen.drawn) \cup Ids({f}, screen.reached), screen.reached, rows)
        BY <1>1, <3>1, <3>2, OpenedMore
      <3> QED
        BY <1>12, <2>4, <3>3
    <2>5. ASSUME screen.at = "live", ~screen.cut
          PROVE  Covers(ToSet(w), Unheard, ToSet(screen'.drawn), screen.reached, rows)
      <3>1. Covers(ToSet(wire.phone), Unheard, ToSet(screen.drawn), screen.reached, rows)
        BY <1>3, <2>5 DEF PhoneInv, ScreenOK
      <3>2. {f} \in SUBSET Frames /\ \A g \in {f} : Told(g, rows, asks, said)
        BY <1>1, <1>4
      <3>3. ToSet(wire.phone) = ToSet(w) \cup {f}
        BY <1>4
      <3>4. screen.reached \in Nat
        BY PhoneTypes
      <3>5. Covers(ToSet(w) \cup {f}, Unheard, ToSet(screen.drawn), screen.reached, rows)
        BY <3>1, <3>3
      <3>6. Covers(ToSet(w), Unheard, ToSet(screen.drawn) \cup Ids({f}, screen.reached),
                   screen.reached, rows)
        BY <1>1, <3>2, <3>4, <3>5, CoversDrawn
      <3> QED
        BY <1>12, <2>5, <3>6
    <2>6. screen'.at = "reading" /\ screen'.read # NoAnswer =>
             /\ Opened(ToSet(screen'.read.events), screen'.read.head, rows')
             /\ Covers(ToSet(screen'.held) \cup ToSet(wire'.phone), Unheard,
                       ToSet(screen'.read.events), screen'.read.head, rows')
      BY <1>3, <1>12, <2>3
    <2>7. screen'.at = "live" => Opened(ToSet(screen'.drawn), screen'.reached, rows')
      BY <1>3, <1>12, <2>4
    <2>8. screen'.at = "live" /\ ~screen'.cut =>
             Covers(ToSet(wire'.phone), Unheard, ToSet(screen'.drawn), screen'.reached, rows')
      BY <1>3, <1>12, <2>5
    <2>9. phone'.on /\ ~phone'.resumes
      BY <1>3
    <2> QED
      BY <2>1, <2>2, <2>6, <2>7, <2>8, <2>9 DEF ScreenOK
  <1> QED
    BY <1>9, <1>10, <1>11, <1>13 DEF PhoneInv

-----------------------------------------------------------------------------
(* The answer to a resume is applied.                                      *)

\* Of a numbered log, what comes after a number: all of it, and if it begins right
\* after that number, the log goes back that far.
LEMMA LaterFrames ==
    ASSUME NEW l \in Seq(Frames), NEW h \in Nat, Numbered(l, h), NEW s \in Int,
           NEW e, e = Later(l, s)
    PROVE  /\ e \in Seq(Frames) /\ Later(e, s) = e
           /\ ToSet(e) \subseteq ToSet(l)
           /\ \A f \in ToSet(l) : f.seq > s => f \in ToSet(e)
           /\ e # <<>> /\ e[1].seq <= s + 1 => s >= h - Len(l)
           /\ \A r, a, t : LineOK(l, r, a, t) => LineOK(e, r, a, t)
           /\ ToSet(e) = First(e, Len(e)) /\ Len(e) \in Nat /\ DOMAIN e = 1..Len(e)
           /\ \A i \in 1..Len(e) : e[i] \in Frames
  <1>1. Rising(l)
    BY NumberedRises
  <1>2. PICK n \in 0..Len(l) : /\ Rest(l, n, Later(l, s))
                               /\ \A i \in 1..n : l[i].seq <= s
                               /\ \A i \in (n + 1)..Len(l) : l[i].seq > s
    BY <1>1, LaterIs
  <1>3. Rest(l, n, e) /\ n \in Nat
    BY <1>2
  <1>4. e \in Seq(Frames) /\ Len(l) = Len(e) + n /\ \A i \in 1..Len(e) : e[i] = l[i + n]
    BY <1>3 DEF Rest
  <1>5. Len(e) \in Nat /\ Len(l) \in Nat /\ DOMAIN e = 1..Len(e)
        /\ \A i \in 1..Len(e) : e[i] \in Frames
    BY <1>4, LenProperties, ElementOfSeq
  <1>6. Later(e, s) = e
    BY <1>1, LaterTwice
  <1>7. ToSet(e) = {e[i] : i \in 1..Len(e)} /\ ToSet(l) = {l[i] : i \in 1..Len(l)}
    <2>1. e \in Seq(Frames)
      BY <1>4
    <2>2. ToSet(e) = {e[i] : i \in 1..Len(e)}
      BY <2>1, SetOf
    <2>3. ToSet(l) = {l[i] : i \in 1..Len(l)}
      BY SetOf
    <2> QED
      BY <2>2, <2>3
  <1>8. ToSet(e) \subseteq ToSet(l)
    BY <1>3, RestIn
  <1>9. ASSUME NEW i \in 1..Len(l), l[i].seq > s PROVE l[i] \in ToSet(e)
    <2>1. ~(i \in 1..n)
      <3> SUFFICES ASSUME i \in 1..n PROVE FALSE
        OBVIOUS
      <3>1. l[i].seq <= s /\ l[i].seq \in Nat
        BY <1>2, ElementOfSeq, FrameFacts
      <3> QED
        BY <1>9, <3>1
    <2>2. i - n \in 1..Len(e) /\ (i - n) + n = i
      BY <1>3, <1>4, <1>5, <2>1
    <2>3. e[i - n] = l[(i - n) + n]
      BY <1>4, <2>2
    <2> QED
      BY <1>7, <2>2, <2>3
  <1>10. ASSUME e # <<>>, e[1].seq <= s + 1 PROVE s >= h - Len(l)
    <2>1. Len(e) # 0
      BY <1>4, <1>10, EmptySeq
    <2>2. 1 \in 1..Len(e) /\ 1 + n \in 1..Len(l)
      BY <1>3, <1>4, <1>5, <2>1
    <2>3. e[1] = l[1 + n]
      BY <1>4, <2>2
    <2>4. l[1 + n].seq = h - Len(l) + (1 + n)
      BY <2>2 DEF Numbered
    <2> DEFINE m == Len(l)
               q == e[1].seq
    <2>5. q = h - m + (1 + n) /\ q <= s + 1 /\ m \in Nat
      BY <1>5, <1>10, <2>3, <2>4
    <2> HIDE DEF m, q
    <2>6. s >= h - m
      BY <1>3, <2>5
    <2> QED
      BY <2>6 DEF m
  <1>11. \A r, a, t : LineOK(l, r, a, t) => LineOK(e, r, a, t)
    BY <1>3, <1>5, RestOK
  <1>12. ToSet(e) = First(e, Len(e))
    BY <1>7 DEF First
  <1>13. \A f \in ToSet(l) : f.seq > s => f \in ToSet(e)
    BY <1>7, <1>9
  <1> QED
    BY <1>4, <1>5, <1>6, <1>8, <1>10, <1>11, <1>12, <1>13

Answer == Replayable(phone.answer)

LEMMA ReplayParts ==
    ASSUME Types, RowsOK, PhoneInv, Replay
    PROVE  /\ UNCHANGED <<who, rows, asks, said, head, log, wire, desk, count>>
           /\ phone.on /\ phone.resumes /\ wire.phone = <<>>
           /\ phone.heads \in Nat /\ phone.from = phone.heads
           /\ phone.answer.head = head /\ phone.answer.events = Later(log, phone.heads)
           /\ Answer = Later(log, phone.heads)
           /\ Answer \in Seq(Frames) /\ ToSet(Answer) \subseteq ToSet(log)
           /\ \A f \in ToSet(log) : f.seq > phone.heads => f \in ToSet(Answer)
           /\ Answer # <<>> /\ Answer[1].seq <= phone.heads + 1 => phone.heads >= head - Len(log)
           /\ LineOK(Answer, rows, asks, said)
           /\ ToSet(Answer) = First(Answer, Len(Answer))
           /\ Len(Answer) \in Nat /\ DOMAIN Answer = 1..Len(Answer)
           /\ \A i \in 1..Len(Answer) : Answer[i] \in Frames
  <1>1. UNCHANGED <<who, rows, asks, said, head, log, wire, desk, count>> /\ phone.step = "replay"
    BY DEF Replay
  <1>2. phone.on
    BY <1>1, OnTheLine
  <1>3. phone.resumes /\ phone.from = phone.heads /\ phone.heads # Unheard
        /\ phone.answer.head = head /\ phone.answer.events = After(phone.from)
        /\ wire.phone = <<>>
    BY <1>1 DEF PhoneInv, ConnectionOK
  <1>4. phone.heads \in Nat
    BY <1>3, PhoneTypes
  <1>5. phone.answer.events = Later(log, phone.heads)
    BY <1>3 DEF After
  <1>6. Answer = Later(Later(log, phone.heads), phone.heads)
    BY <1>3, <1>5 DEF Answer, Replayable
  <1>7. log \in Seq(Frames) /\ head \in Nat /\ Numbered(log, head) /\ LineOK(log, rows, asks, said)
    BY PhoneParts DEF PhoneInv
  <1> DEFINE e == Later(log, phone.heads)
  <1>8. e = Later(log, phone.heads) /\ phone.heads \in Int
    BY <1>4
  <1> HIDE DEF e
  <1>9. /\ e \in Seq(Frames) /\ Later(e, phone.heads) = e
        /\ ToSet(e) \subseteq ToSet(log)
        /\ \A f \in ToSet(log) : f.seq > phone.heads => f \in ToSet(e)
        /\ e # <<>> /\ e[1].seq <= phone.heads + 1 => phone.heads >= head - Len(log)
        /\ \A r, a, t : LineOK(log, r, a, t) => LineOK(e, r, a, t)
        /\ ToSet(e) = First(e, Len(e)) /\ Len(e) \in Nat /\ DOMAIN e = 1..Len(e)
        /\ \A i \in 1..Len(e) : e[i] \in Frames
    BY <1>7, <1>8, LaterFrames
  <1>10. Answer = e
    BY <1>6, <1>8, <1>9
  <1>11. LineOK(e, rows, asks, said)
    BY <1>7, <1>9
  <1> QED
    BY <1>1, <1>2, <1>3, <1>4, <1>5, <1>8, <1>9, <1>10, <1>11

\* A screen that is not cut, had the log what the phone was away for, is whole again.
LEMMA GapClosed ==
    ASSUME Types, RowsOK, PhoneInv, Replay, screen.at = "live", ~screen.cut,
           ~Uncovered(phone.answer)
    PROVE  Covers(ToSet(Answer), Unheard, ToSet(screen.drawn), screen.reached, rows)
  <1>1. /\ phone.on /\ phone.resumes
        /\ phone.heads \in Nat /\ phone.from = phone.heads
        /\ phone.answer.head = head /\ phone.answer.events = Later(log, phone.heads)
        /\ Answer = Later(log, phone.heads)
        /\ \A f \in ToSet(log) : f.seq > phone.heads => f \in ToSet(Answer)
        /\ Answer # <<>> /\ Answer[1].seq <= phone.heads + 1 => phone.heads >= head - Len(log)
    BY ReplayParts
  <1>2. phone.life = count.stops
        /\ ~(head > phone.heads /\ (Answer = <<>> \/ Answer[1].seq > phone.heads + 1))
    BY <1>1 DEF Uncovered
  <1>3. log \in Seq(Frames) /\ head \in Nat /\ Len(log) \in Nat /\ ToSet(log) \subseteq Frames
    BY PhoneParts DEF PhoneInv
  <1>4. phone.heads >= head - Len(log)
    <2>1. CASE ~(head > phone.heads)
      <3> DEFINE m == Len(log)
      <3>1. m \in Nat
        BY <1>3
      <3> HIDE DEF m
      <3>2. phone.heads >= head - m
        BY <1>1, <1>3, <2>1, <3>1
      <3> QED
        BY <3>2 DEF m
    <2>2. CASE head > phone.heads
      <3>1. Answer # <<>> /\ ~(Answer[1].seq > phone.heads + 1)
        BY <1>2, <2>2
      <3>2. Answer \in Seq(Frames)
        BY ReplayParts
      <3>3. Len(Answer) \in Nat /\ Len(Answer) # 0
        BY <3>1, <3>2, EmptySeq, LenProperties
      <3>4. Answer[1] \in Frames
        BY <3>2, <3>3, ElementOfSeq
      <3>5. Answer[1].seq \in Nat
        BY <3>4, FrameFacts
      <3>6. Answer[1].seq <= phone.heads + 1
        BY <1>1, <3>1, <3>5
      <3> QED
        BY <1>1, <3>1, <3>6
    <2> QED
      BY <2>1, <2>2
  <1>5. phone.heads # Unheard
    BY <1>1 DEF Unheard
  <1>6. Covers(ToSet(log), phone.heads, ToSet(screen.drawn), screen.reached, rows)
    BY <1>1, <1>2, <1>4, <1>5 DEF PhoneInv, ScreenOK
  <1>7. \A f \in ToSet(log) : f.seq > Unheard
    BY <1>3, FrameFacts DEF Unheard
  <1> QED
    BY <1>1, <1>6, <1>7 DEF Covers

\* The phone applies the answer to a resume.
LEMMA PhoneReplays ==
    ASSUME Types, RowsOK, PhoneInv, Replay
    PROVE  PhoneInv'
  <1> DEFINE e == Answer
             K == ToSet(Answer)
             u == Uncovered(phone.answer)
  <1>1. /\ UNCHANGED <<who, rows, asks, said, head, log, wire, desk, count>>
        /\ phone.on /\ phone.resumes /\ wire.phone = <<>>
        /\ phone.heads \in Nat /\ phone.from = phone.heads
        /\ phone.answer.head = head
        /\ e \in Seq(Frames) /\ K \subseteq ToSet(log)
        /\ LineOK(e, rows, asks, said)
        /\ K = First(e, Len(e))
        /\ Len(e) \in Nat /\ DOMAIN e = 1..Len(e)
        /\ \A i \in 1..Len(e) : e[i] \in Frames
    BY ReplayParts
  <1>2. /\ Before \in States /\ Caught \in States
        /\ Before.heads = (IF phone.answer.head < phone.from THEN phone.answer.head ELSE phone.heads)
        /\ Before.cards = phone.cards /\ Before.screen = CutIf(u)
        /\ u \in BOOLEAN
        /\ phone'.step = "idle" /\ phone'.resumes = FALSE
        /\ phone'.on = phone.on /\ phone'.handlers = phone.handlers
        /\ phone'.heads = Caught.heads /\ phone'.cards = Caught.cards
        /\ phone'.fresh = phone.fresh
        /\ phone'.life = count.stops
        /\ screen' = Caught.screen
    BY ReplayIs
  <1>3. Caught = FoldLeft(Apply, Before, e)
    BY DEF Caught, Answer
  <1>4. /\ log \in Seq(Frames) /\ head \in Nat
        /\ Len(log) \in Nat /\ said \in Nat /\ asks \in AskStates /\ LogOK(rows, said)
        /\ Numbered(log, head) /\ LineOK(log, rows, asks, said)
        /\ ToSet(log) \subseteq Frames
        /\ \A f \in ToSet(log) : Told(f, rows, asks, said)
    BY PhoneParts DEF PhoneInv
  <1>5. screen.at = "live" /\ ~screen.cut /\ ~u =>
             Covers(K, Unheard, ToSet(screen.drawn), screen.reached, rows)
    BY GapClosed
  <1> HIDE DEF e, K, u
  <1>6. Applies(Before, Caught, K, head)
    <2>1. Applies(Before, Caught, First(e, Len(e)), head)
      BY <1>1, <1>2, <1>3, <1>4, ApplyFoldIs
    <2> QED
      BY <1>1, <2>1
  <1>7. Caught.heads <= head
    <2>1. Before.heads <= head
      BY <1>1, <1>2, <1>4
    <2>2. \A f \in K : f.seq <= head
      <3>1. \A i \in 1..Len(log) : log[i].seq <= head
        BY <1>4, NumbersIn
      <3>2. ToSet(log) = {log[i] : i \in 1..Len(log)}
        BY <1>4, SetOf
      <3> QED
        BY <1>1, <3>1, <3>2
    <2> QED
      BY <1>6, <2>1, <2>2 DEF Applies
  <1>8. CutIf(u) \in Screens
        /\ CutIf(u).at = screen.at /\ CutIf(u).read = screen.read
        /\ CutIf(u).held = screen.held /\ CutIf(u).drawn = screen.drawn
        /\ CutIf(u).reached = screen.reached
        /\ (CutIf(u).cut <=> (screen.cut \/ (u /\ screen.at # "closed")))
    BY <1>2, CutIs
  <1>9. /\ screen'.at = screen.at /\ screen'.read = screen.read /\ screen'.reached = screen.reached
        /\ screen'.cut = CutIf(u).cut
        /\ ToSet(screen'.held) = ToSet(screen.held) \cup (IF screen.at = "reading" THEN Updates(K) ELSE {})
        /\ ToSet(screen'.drawn) = ToSet(screen.drawn)
                                  \cup (IF screen.at = "live" THEN Ids(K, screen.reached) ELSE {})
    BY <1>2, <1>6, <1>8 DEF Applies, Watch
  <1>10. K \in SUBSET Frames /\ \A f \in K : Told(f, rows, asks, said)
    BY <1>1, <1>4
  <1>11. ConnectionOK'
    <2>1. who = "phone" /\ phone.handlers # 0
      BY <1>1 DEF PhoneInv, ConnectionOK
    <2>2. Len(wire'.phone) = 0
      BY <1>1
    <2>3. phone'.heads <= head - Len(wire'.phone)
      <3>1. Caught.heads \in Int
        BY <1>2, <1>7 DEF States, Unheard
      <3>2. head - 0 = head
        BY <1>4
      <3> QED
        BY <1>2, <1>7, <2>2, <3>2
    <2>4. phone'.life <= count'.stops
      BY <1>1, <1>2, PhoneTypes
    <2>5. head' = head
      BY <1>1
    <2> QED
      BY <1>1, <1>2, <2>1, <2>3, <2>4, <2>5 DEF ConnectionOK
  <1>12. NumbersOK'
    BY <1>1, NumbersKept DEF PhoneInv
  <1>13. CardsOK'
    <2> SUFFICES ASSUME phone.fresh PROVE Tells(phone'.cards, {}, <<>>, 0, asks)
      BY <1>1, <1>2 DEF CardsOK
    <2>1. Tells(phone.cards, {}, <<>>, 0, asks)
      BY <1>1 DEF PhoneInv, CardsOK
    <2>2. Tells(Before.cards, {}, e, 0, asks)
      BY <1>1, <1>2, <2>1 DEF Tells
    <2>3. Tells(Caught.cards, {}, e, Len(e), asks)
      BY <1>1, <1>2, <1>3, <1>4, <2>2, CardsFold
    <2>4. Rest(e, Len(e), <<>>)
      BY <1>1, RestNone
    <2>5. Tells(Caught.cards, {}, <<>>, 0, asks)
      BY <1>1, <2>3, <2>4, RestOK
    <2> QED
      BY <1>2, <2>5
  <1>14. ScreenOK'
    <2>1. \A f \in ToSet(screen'.held) : Told(f, rows', asks', said')
      <3>1. \A f \in ToSet(screen'.held) : f \in ToSet(screen.held) \/ f \in K
        BY <1>9 DEF Updates
      <3> QED
        BY <1>1, <1>10, <3>1 DEF PhoneInv, ScreenOK
    <2>2. screen'.at = "reading" => phone'.on
      BY <1>1, <1>2
    <2>3. screen'.at = "reading" /\ screen'.read # NoAnswer =>
             /\ Opened(ToSet(screen'.read.events), screen'.read.head, rows')
             /\ Covers(ToSet(screen'.held) \cup ToSet(wire'.phone), Unheard,
                       ToSet(screen'.read.events), screen'.read.head, rows')
      <3> SUFFICES ASSUME screen.at = "reading", screen.read # NoAnswer
                   PROVE  /\ Opened(ToSet(screen.read.events), screen.read.head, rows)
                          /\ Covers(ToSet(screen'.held) \cup ToSet(wire.phone), Unheard,
                                    ToSet(screen.read.events), screen.read.head, rows)
        BY <1>1, <1>9
      <3>1. /\ Opened(ToSet(screen.read.events), screen.read.head, rows)
            /\ Covers(ToSet(screen.held) \cup ToSet(wire.phone), Unheard,
                      ToSet(screen.read.events), screen.read.head, rows)
        BY DEF PhoneInv, ScreenOK
      <3>2. ToSet(screen.held) \cup ToSet(wire.phone) \subseteq ToSet(screen'.held) \cup ToSet(wire.phone)
        BY <1>9
      <3> QED
        BY <3>1, <3>2, CoversMore
    <2>4. screen'.at = "live" => Opened(ToSet(screen'.drawn), screen'.reached, rows')
      <3> SUFFICES ASSUME screen.at = "live"
                   PROVE  Opened(ToSet(screen'.drawn), screen.reached, rows)
        BY <1>1, <1>9
      <3>1. Opened(ToSet(screen.drawn), screen.reached, rows)
        BY DEF PhoneInv, ScreenOK
      <3>2. Opened(ToSet(screen.drawn) \cup Ids(K, screen.reached), screen.reached, rows)
        BY <1>4, <1>10, <3>1, OpenedMore
      <3> QED
        BY <1>9, <3>2
    <2>5. screen'.at = "live" /\ ~screen'.cut =>
             Covers(ToSet(wire'.phone), Unheard, ToSet(screen'.drawn), screen'.reached, rows')
      <3> SUFFICES ASSUME screen.at = "live", ~screen'.cut
                   PROVE  Covers(ToSet(wire.phone), Unheard, ToSet(screen'.drawn), screen.reached, rows)
        BY <1>1, <1>9
      <3>1. ~screen.cut /\ ~u
        BY <1>8, <1>9
      <3>2. Covers(K, Unheard, ToSet(screen.drawn), screen.reached, rows)
        BY <1>5, <3>1
      <3>3. ToSet(wire.phone) = {}
        BY <1>1, EmptySet
      <3>4. {} \cup K = K
        OBVIOUS
      <3>5. Covers({} \cup K, Unheard, ToSet(screen.drawn), screen.reached, rows)
        BY <3>2, <3>4
      <3>6. screen.reached \in Nat
        BY PhoneTypes
      <3>7. Covers({}, Unheard, ToSet(screen.drawn) \cup Ids(K, screen.reached), screen.reached, rows)
        BY <1>4, <1>10, <3>5, <3>6, CoversDrawn
      <3> QED
        BY <1>9, <3>3, <3>7
    <2>6. phone'.on /\ ~phone'.resumes
      BY <1>1, <1>2
    <2> QED
      BY <2>1, <2>2, <2>3, <2>4, <2>5, <2>6 DEF ScreenOK
  <1> QED
    BY <1>11, <1>12, <1>13, <1>14 DEF PhoneInv
-----------------------------------------------------------------------------
(* The phone, step by step.                                                *)

LEMMA InitPhone == Init => PhoneInv
  <1> SUFFICES ASSUME Init PROVE PhoneInv
    OBVIOUS
  <1>1. Types /\ LogOK(rows, said) /\ said \in Nat
    BY InitDesk DEF RowsOK, Types
  <1>2. /\ head = 0 /\ log = <<>> /\ wire = [c \in Clients |-> <<>>] /\ screen = NoScreen
        /\ phone = [on |-> FALSE, handlers |-> 0, heads |-> Unheard, step |-> "idle",
                    resumes |-> FALSE, from |-> Unheard, answer |-> NoAnswer, cards |-> {},
                    fresh |-> FALSE, life |-> 0]
        /\ count = [unsaved |-> 0, stops |-> 0, drops |-> 0, views |-> [c \in Clients |-> 0]]
    BY DEF Init
  <1>3. phone.on = FALSE /\ phone.step = "idle" /\ phone.resumes = FALSE /\ phone.life = 0
        /\ phone.heads = Unheard /\ count.stops = 0 /\ wire.phone = <<>>
    BY <1>2 DEF Clients
  <1>4. screen.at = "closed" /\ screen.held = <<>>
    BY <1>2 DEF NoScreen
  <1>5. ConnectionOK
    <2>1. Unheard <= 0 - 0
      BY DEF Unheard
    <2>2. Len(wire.phone) = 0
      BY <1>3
    <2> QED
      BY <1>2, <1>3, <2>1, <2>2 DEF ConnectionOK
  <1>6. NumbersOK
    <2>1. LineOK(<<>>, rows, asks, said)
      BY <1>1, EmptyLine
    <2>2. Numbered(<<>>, 0) /\ Agree(<<>>, <<>>)
      BY EmptyNumbers
    <2> QED
      BY <1>2, <1>3, <2>1, <2>2 DEF NumbersOK
  <1>7. CardsOK
    BY <1>3 DEF CardsOK
  <1>8. ScreenOK
    BY <1>4, EmptySet DEF ScreenOK
  <1> QED
    BY <1>5, <1>6, <1>7, <1>8 DEF PhoneInv

\* Each step keeps what the phone has true, while the host is silent over a reconnect.
LEMMA StepPhone ==
    ASSUME Quiet, Types, RowsOK, PhoneInv, [Next]_vars
    PROVE  PhoneInv'
  <1>1. ASSUME UNCHANGED <<who, rows, asks, said, head, log, phone, screen>>,
               wire'.phone = wire.phone, count'.stops = count.stops
        PROVE  PhoneInv'
    BY <1>1, PhoneAside
  <1>2. CASE Update \/ \E a \in Asks : Ask(a) \/ Resolve(a)
    <2>1. PICK f \in Frames : Speaks(f)
      BY <1>2, HostSpeaks
    <2> QED
      BY <2>1, PhoneSpeaks
  <1>3. CASE Open
    <2>1. UNCHANGED <<who, rows, asks, said, head, log, wire, phone, screen>>
          /\ count' = [count EXCEPT !.views.desk = @ + 1]
      BY <1>3 DEF Open
    <2>2. count'.stops = count.stops
      BY <2>1 DEF Types, Counts
    <2> QED
      BY <1>1, <2>1, <2>2
  <1>4. CASE Close \/ ReadTranscript \/ ReadPending
    BY <1>1, <1>4 DEF Close, ReadTranscript, ReadPending, Reads
  <1>5. CASE Hydrate \/ HydrateFails
    BY <1>1, <1>5 DEF Hydrate, HydrateFails
  <1>6. CASE DeskHears
    <2>1. UNCHANGED <<who, rows, asks, said, head, log, phone, screen, count>>
          /\ wire' = [wire EXCEPT !.desk = Tail(@)]
      BY <1>6 DEF DeskHears
    <2>2. wire'.phone = wire.phone
      BY <2>1 DEF Types, Clients
    <2> QED
      BY <1>1, <2>1, <2>2
  <1>7. CASE OpenScreen \/ CloseScreen
    BY <1>7, ScreenOpens, ScreenCloses
  <1>8. CASE ReadScreen \/ HydrateScreen
    BY <1>8, ScreenReads, ScreenHydrates
  <1>9. CASE PhoneHears
    BY <1>9, PhoneHearsOne
  <1>10. CASE Reconnect \/ Refresh
    BY <1>10, PhoneReconnects, PhoneRefreshes
  <1>11. CASE AnswerRefresh \/ RefreshFails
    BY <1>11, RefreshAnswered, RefreshLost
  <1>12. CASE Publish \/ AnswerResume \/ ResumeFails
    BY <1>12, Published, ResumeAnswered, ResumeLost
  <1>13. CASE Replay
    BY <1>13, PhoneReplays
  <1>14. CASE Drop \/ Disconnect
    BY <1>14, PhoneDrops, PhoneDisconnects
  <1>15. CASE Restart
    BY <1>15, PhoneRestarts
  <1>16. CASE UNCHANGED vars
    BY <1>1, <1>16 DEF vars
  <1> QED
    BY <1>2, <1>3, <1>4, <1>5, <1>6, <1>7, <1>8, <1>9, <1>10, <1>11, <1>12, <1>13, <1>14, <1>15,
       <1>16 DEF Next

\* All that was drawn is the newest rows, if no row waits on a frame.
LEMMA AllDrawn ==
    ASSUME NEW r, NEW s \in Nat, LogOK(r, s), NEW drawn, NEW reached, Opened(drawn, reached, r),
           Covers({}, Unheard, drawn, reached, r)
    PROVE  \E n \in 0..Len(r) :
              /\ ToSet(SubSeq(r, Len(r) - n + 1, Len(r))) = drawn
              /\ n >= Window \/ n = Len(r)
  <1>1. r \in Seq(Texts) /\ Len(r) \in Nat /\ ToSet(r) = {r[i] : i \in 1..Len(r)}
    BY RowsAre
  <1>2. drawn \subseteq ToSet(r) /\ reached \in 0..Len(r)
    BY DEF Opened
  <1>3. PICK lo \in 0..reached :
          /\ lo = 0 \/ reached - lo >= Window
          /\ \A k \in 1..Len(r) : r[k] \in drawn => lo < k
          /\ \A k \in 1..reached : lo < k => r[k] \in drawn
    BY DEF Opened
  <1>4. \A k \in 1..Len(r) : reached < k => r[k] \in drawn
    BY DEF Covers
  <1> DEFINE m == Len(r)
  <1>5. m = Len(r) /\ m \in Nat
    BY <1>1
  <1> HIDE DEF m
  <1>6. reached \in Nat /\ reached <= m /\ lo \in Nat /\ lo <= reached /\ lo \in 0..m /\ m \in 0..m
    BY <1>2, <1>5, <1>3
  <1>7. m - lo \in 0..m /\ m - (m - lo) + 1 = lo + 1
    BY <1>5, <1>6
  <1>8. m - lo >= Window \/ m - lo = m
    BY <1>3, <1>5, <1>6, StreamAssumption DEF StreamAssumption
  <1>9. ToSet(SubSeq(r, lo + 1, m)) = {r[k] : k \in (lo + 1)..m}
    BY <1>1, <1>5, <1>6, RowsBetween
  <1>10. \A k \in 1..m : r[k] \in drawn <=> lo < k
    <2> SUFFICES ASSUME NEW k \in 1..m PROVE r[k] \in drawn <=> lo < k
      OBVIOUS
    <2>1. CASE reached < k
      BY <1>4, <1>5, <1>6, <2>1
    <2>2. CASE ~(reached < k)
      <3>1. k \in 1..reached
        BY <1>6, <2>2
      <3> QED
        BY <1>3, <1>5, <3>1
    <2> QED
      BY <2>1, <2>2
  <1>11. \A k : k \in (lo + 1)..m <=> k \in 1..m /\ lo < k
    BY <1>5, <1>6
  <1>12. drawn = {r[k] : k \in (lo + 1)..m}
    <2>1. \A x \in drawn : \E k \in 1..m : x = r[k]
      BY <1>1, <1>2, <1>5
    <2> QED
      BY <1>10, <1>11, <2>1
  <1>13. ToSet(SubSeq(r, m - (m - lo) + 1, m)) = drawn
    BY <1>7, <1>9, <1>12
  <1> QED
    BY <1>5, <1>7, <1>8, <1>13

\* The invariant gives the property.
LEMMA PhoneIsWhole ==
    ASSUME Types, RowsOK, PhoneInv
    PROVE  PhoneMissesNothing
  <1> SUFFICES ASSUME phone.on, phone.step = "idle", wire.phone = <<>>
               PROVE  /\ phone.fresh => phone.cards = Pending
                      /\ screen.at = "live" /\ ~screen.cut =>
                            \E n \in 0..Len(rows) :
                               /\ ToSet(SubSeq(rows, Len(rows) - n + 1, Len(rows))) = ToSet(screen.drawn)
                               /\ n >= Window \/ n = Len(rows)
    BY DEF PhoneMissesNothing
  <1>1. ~phone.resumes
    BY DEF PhoneInv, ConnectionOK
  <1>2. ASSUME phone.fresh PROVE phone.cards = Pending
    <2>1. Tells(phone.cards, {}, <<>>, 0, asks)
      BY <1>2 DEF PhoneInv, CardsOK
    <2>2. Len(<<>>) = 0 /\ \A i : ~(i \in 1..0)
      OBVIOUS
    <2>3. /\ phone.cards \subseteq Asks
          /\ \A x \in Asks : asks[x] = "open" => x \in phone.cards
          /\ \A x \in phone.cards : asks[x] # "none" /\ asks[x] # "settled"
      BY <2>1, <2>2 DEF Tells
    <2>4. \A x \in Asks : asks[x] \in {"none", "open", "settled"}
      BY DEF Types
    <2>5. \A x \in phone.cards : x \in Asks /\ asks[x] = "open"
      <3> SUFFICES ASSUME NEW x \in phone.cards PROVE x \in Asks /\ asks[x] = "open"
        OBVIOUS
      <3>1. x \in Asks
        BY <2>3
      <3>2. asks[x] # "none" /\ asks[x] # "settled"
        BY <2>3
      <3>3. asks[x] \in {"none", "open", "settled"}
        BY <2>4, <3>1
      <3>4. asks[x] = "open"
        BY <3>2, <3>3
      <3> QED
        BY <3>1, <3>4
    <2>6. Pending = {a \in Asks : asks[a] = "open"}
      BY DEF Pending
    <2> QED
      BY <2>3, <2>5, <2>6
  <1>3. ASSUME screen.at = "live", ~screen.cut
        PROVE  \E n \in 0..Len(rows) :
                  /\ ToSet(SubSeq(rows, Len(rows) - n + 1, Len(rows))) = ToSet(screen.drawn)
                  /\ n >= Window \/ n = Len(rows)
    <2>1. Opened(ToSet(screen.drawn), screen.reached, rows)
      BY <1>3 DEF PhoneInv, ScreenOK
    <2>2. Covers(ToSet(wire.phone), Unheard, ToSet(screen.drawn), screen.reached, rows)
      BY <1>1, <1>3 DEF PhoneInv, ScreenOK
    <2>3. Covers({}, Unheard, ToSet(screen.drawn), screen.reached, rows)
      BY <2>2, EmptySet
    <2>4. said \in Nat /\ LogOK(rows, said)
      BY DEF Types, RowsOK
    <2> QED
      BY <2>1, <2>3, <2>4, AllDrawn
  <1> QED
    BY <1>2, <1>3

\* While the host is silent until a reconnect or a refresh is done, a phone with nothing
\* on its way has every row since the oldest its screen began with, whatever was said
\* while it was away, and a card for each ask that waits and for no other; a screen that
\* cannot have them was cut, because the host was restarted or its log has rolled
\* (reconnect, resume_from, TranscriptScreen).
THEOREM PhoneNeverMisses == Quiet => (Spec => []PhoneMissesNothing)
  <1> SUFFICES ASSUME Quiet PROVE Spec => []PhoneMissesNothing
    OBVIOUS
  <1>1. Init => Types /\ RowsOK /\ PhoneInv
    BY InitDesk, InitPhone
  <1>2. Types /\ RowsOK /\ PhoneInv /\ [Next]_vars => (Types /\ RowsOK /\ PhoneInv)'
    BY StepTypes, StepRows, StepPhone
  <1>3. Types /\ RowsOK /\ PhoneInv => PhoneMissesNothing
    BY PhoneIsWhole
  <1> QED
    BY <1>1, <1>2, <1>3, PTL DEF Spec
-----------------------------------------------------------------------------
(* Branches.                                                               *)

Threads == [through : Texts, rows : Seq({Own} \cup Texts \cup {Marker}),
            deleted : BOOLEAN, session : BOOLEAN, knows : BOOLEAN]
Lines == {Own} \cup Texts \cup {Marker}

\* A branch begins with the source up to a message.
Begins(child, n, r) ==
    /\ child.through = n /\ n <= Len(r) /\ n <= Len(child.rows)
    /\ \A i \in 1..n : child.rows[i] = r[i]

\* A live link leads to such a branch, and an answer that stands is the link.
LinksOK(lk, an, ch, r) ==
    \A n \in Texts :
       /\ lk[n] # 0 /\ ~ch[lk[n]].deleted => Begins(ch[lk[n]], n, r)
       /\ an[n] # 0 /\ ~ch[an[n]].deleted => lk[n] = an[n]

\* The handler under way has no link yet; its child is there from `copy` on, and
\* begins with the source from `mark` on.
WorkOK(br, lk, ch, r) ==
    /\ br.at # "rest" =>
          br.through \in Texts /\ br.through <= Len(r) /\ lk[br.through] = 0
    /\ br.at \in {"copy", "mark", "link"} =>
          Len(ch) # 0 /\ ~ch[Len(ch)].deleted /\ ch[Len(ch)].through = br.through
    /\ br.at \in {"mark", "link"} => Begins(ch[Len(ch)], br.through, r)

BranchTypes ==
    /\ links \in [Texts -> 0..Child] /\ answered \in [Texts -> 0..Child]
    /\ children \in Seq(Threads)
    /\ branching \in [at : {"rest", "open", "copy", "mark", "link"}, through : Nat]

BranchInv ==
    /\ BranchTypes
    /\ LinksOK(links, answered, children, rows)
    /\ WorkOK(branching, links, children, rows)

LEMMA BranchInitInv == BranchInit => BranchInv
  <1> SUFFICES ASSUME BranchInit PROVE BranchInv
    OBVIOUS
  <1>1. links = [n \in Texts |-> 0] /\ answered = [n \in Texts |-> 0] /\ children = <<>>
        /\ branching = [at |-> "rest", through |-> 0]
    BY DEF BranchInit, Resting
  <1>2. Child = 0
    BY <1>1 DEF Child
  <1>3. BranchTypes
    BY <1>1, <1>2 DEF BranchTypes
  <1>4. \A n \in Texts : links[n] = 0 /\ answered[n] = 0
    BY <1>1
  <1>5. branching.at = "rest"
    BY <1>1
  <1> QED
    BY <1>3, <1>4, <1>5 DEF BranchInv, LinksOK, WorkOK

\* A branch that begins with the log begins with the log however it grows.
LEMMA StillBegins ==
    ASSUME NEW r, NEW s \in Nat, LogOK(r, s), NEW t, t = r \/ (s < MaxTexts /\ t = Append(r, s + 1)),
           NEW c, NEW n \in Nat, Begins(c, n, r)
    PROVE  Begins(c, n, t)
  <1>1. CASE t = r
    BY <1>1
  <1>2. CASE s < MaxTexts /\ t = Append(r, s + 1)
    <2>1. Len(t) = Len(r) + 1 /\ Len(r) \in Nat /\ \A i \in 1..Len(r) : t[i] = r[i]
      BY <1>2, LogGrows DEF LogOK
    <2> QED
      BY <2>1 DEF Begins
  <1> QED
    BY <1>1, <1>2

\* A step about branches is a step of the stream or none.
LEMMA BranchIsStream == BranchNext => [Next]_vars
  BY DEF BranchNext, Click, OpenChild, OpenChildFails, Copy, CopyFails, Mark, Link, LinkFails,
         Prompt, Delete, Next

\* When the thread moves, the branches do not.
LEMMA BranchAside ==
    ASSUME BranchInv, Types, RowsOK, [Next]_vars,
           UNCHANGED <<links, children, answered>>, branching' = branching \/ branching' = Resting
    PROVE  BranchInv'
  <1>1. said \in Nat /\ LogOK(rows, said) /\ Len(rows) \in Nat
    BY DEF Types, RowsOK, LogOK
  <1>2. rows' = rows \/ (said < MaxTexts /\ rows' = Append(rows, said + 1))
    BY RowsStep
  <1>3. BranchTypes'
    <2>1. Resting \in [at : {"rest", "open", "copy", "mark", "link"}, through : Nat]
      BY DEF Resting
    <2> QED
      BY <2>1 DEF BranchInv, BranchTypes, Child
  <1>4. \A c, n \in Nat : Begins(children[c], n, rows) => Begins(children[c], n, rows')
    BY <1>1, <1>2, StillBegins
  <1>5. Len(rows) <= Len(rows') /\ Len(rows') \in Nat
    BY <1>1, <1>2, LogGrows
  <1>6. LinksOK(links, answered, children, rows) /\ WorkOK(branching, links, children, rows)
        /\ links \in [Texts -> 0..Child] /\ Child \in Nat
    BY DEF BranchInv, BranchTypes, Child
  <1>7. Texts \subseteq Nat
    BY DEF Texts
  <1>8. LinksOK(links, answered, children, rows')
    BY <1>4, <1>6, <1>7 DEF LinksOK
  <1>9. WorkOK(branching', links, children, rows')
    <2>1. CASE branching' = Resting
      BY <2>1 DEF Resting, WorkOK
    <2>2. CASE branching' = branching
      <3>1. branching.at # "rest" => branching.through <= Len(rows')
        BY <1>1, <1>5, <1>6, <1>7 DEF WorkOK
      <3>2. branching.at \in {"mark", "link"} => Begins(children[Len(children)], branching.through, rows')
        BY <1>4, <1>6, <1>7 DEF WorkOK, Child
      <3> QED
        BY <1>6, <2>2, <3>1, <3>2 DEF WorkOK
    <2> QED
      BY <2>1, <2>2
  <1> QED
    BY <1>3, <1>8, <1>9 DEF BranchInv

LEMMA ClickKeeps ==
    ASSUME BranchInv, Types, RowsOK, NEW n \in Texts, Click(n)
    PROVE  BranchInv'
  <1>1. UNCHANGED <<rows, children>> /\ branching.at = "rest" /\ n \in 1..Len(rows) /\ Child' = Child
    BY DEF Click, vars, Step, Child, RowsOK, LogOK
  <1>2. links \in [Texts -> 0..Child] /\ answered \in [Texts -> 0..Child] /\ Child \in Nat
        /\ children \in Seq(Threads) /\ LinksOK(links, answered, children, rows)
    BY DEF BranchInv, BranchTypes, Child
  <1>3. CASE Live(links[n])
    <2>1. answered' = [answered EXCEPT ![n] = links[n]] /\ links' = links /\ branching' = branching
      BY <1>3 DEF Click
    <2>2. answered' \in [Texts -> 0..Child]
      BY <1>2, <2>1
    <2>3. LinksOK(links, answered', children, rows)
      BY <1>2, <2>1 DEF LinksOK
    <2> QED
      BY <1>1, <2>1, <2>2, <2>3 DEF BranchInv, BranchTypes
  <1>4. CASE ~Live(links[n])
    <2>1. links' = [links EXCEPT ![n] = 0] /\ branching' = [at |-> "open", through |-> n]
          /\ answered' = answered
      BY <1>4 DEF Click
    <2>2. links' \in [Texts -> 0..Child] /\ n \in Nat
      BY <1>2, <2>1 DEF Texts
    <2>3. LinksOK(links', answered, children, rows)
      BY <1>2, <1>4, <2>1 DEF LinksOK, Live
    <2>4. branching'.at = "open" /\ branching'.through = n /\ links'[n] = 0
      BY <1>2, <2>1
    <2>5. WorkOK(branching', links', children, rows)
      BY <1>1, <2>4 DEF WorkOK
    <2> QED
      BY <1>1, <1>2, <2>1, <2>2, <2>3, <2>5 DEF BranchInv, BranchTypes
  <1> QED
    BY <1>3, <1>4

LEMMA OpenChildKeeps ==
    ASSUME BranchInv, OpenChild
    PROVE  BranchInv'
  <1>1. links \in [Texts -> 0..Child] /\ answered \in [Texts -> 0..Child] /\ Child \in Nat
        /\ children \in Seq(Threads) /\ Child = Len(children)
        /\ LinksOK(links, answered, children, rows) /\ WorkOK(branching, links, children, rows)
        /\ branching \in [at : {"rest", "open", "copy", "mark", "link"}, through : Nat]
    BY DEF BranchInv, BranchTypes, Child
  <1>2. branching.at = "open" /\ children' = Append(children, NewChild)
        /\ branching' = [branching EXCEPT !.at = "copy"]
        /\ UNCHANGED <<rows, links, answered>>
    BY DEF OpenChild, Step, Goes, vars
  <1>3. branching.through \in Texts /\ branching.through <= Len(rows) /\ links[branching.through] = 0
    BY <1>1, <1>2 DEF WorkOK
  <1> DEFINE child == NewChild
  <1>4. child \in Threads /\ child.through = branching.through /\ child.deleted = FALSE
    BY <1>3 DEF NewChild, Threads
  <1>5. children' = Append(children, child)
    BY <1>2
  <1> HIDE DEF child
  <1>6. children' \in Seq(Threads) /\ Len(children') = Child + 1 /\ children'[Child + 1] = child
        /\ \A c \in 1..Child : children'[c] = children[c]
    BY <1>1, <1>4, <1>5, AppendProperties
  <1>7. \A n \in Texts : links[n] \in 0..Child /\ answered[n] \in 0..Child
    BY <1>1
  <1>8. LinksOK(links, answered, children', rows)
    <2> SUFFICES ASSUME NEW n \in Texts
                 PROVE  /\ links[n] # 0 /\ ~children'[links[n]].deleted => Begins(children'[links[n]], n, rows)
                        /\ answered[n] # 0 /\ ~children'[answered[n]].deleted => links[n] = answered[n]
      BY DEF LinksOK
    <2>1. links[n] # 0 => children'[links[n]] = children[links[n]]
      BY <1>1, <1>6, <1>7
    <2>2. answered[n] # 0 => children'[answered[n]] = children[answered[n]]
      BY <1>1, <1>6, <1>7
    <2> QED
      BY <1>1, <2>1, <2>2 DEF LinksOK
  <1>9. branching' \in [at : {"rest", "open", "copy", "mark", "link"}, through : Nat]
        /\ branching'.at = "copy" /\ branching'.through = branching.through
    BY <1>1, <1>2
  <1>10. WorkOK(branching', links, children', rows)
    BY <1>1, <1>3, <1>4, <1>6, <1>9 DEF WorkOK
  <1>11. links \in [Texts -> 0..Child'] /\ answered \in [Texts -> 0..Child']
    BY <1>1, <1>6, <1>7 DEF Child
  <1> QED
    BY <1>2, <1>6, <1>8, <1>9, <1>10, <1>11 DEF BranchInv, BranchTypes

\* While its child is being made, no message leads to it.
LEMMA NotLinked ==
    ASSUME BranchInv, branching.at \in {"copy", "mark", "link"}
    PROVE  /\ Child \in 1..Len(children) /\ children[Child] \in Threads
           /\ branching.through \in Texts /\ links[branching.through] = 0
           /\ \A n \in Texts : links[n] # Child /\ answered[n] # Child
  <1>1. links \in [Texts -> 0..Child] /\ answered \in [Texts -> 0..Child] /\ Child \in Nat
        /\ children \in Seq(Threads) /\ Child = Len(children)
        /\ LinksOK(links, answered, children, rows) /\ WorkOK(branching, links, children, rows)
    BY DEF BranchInv, BranchTypes, Child
  <1>2. Child # 0 /\ ~children[Child].deleted /\ children[Child].through = branching.through
        /\ branching.through \in Texts /\ links[branching.through] = 0
    BY <1>1 DEF WorkOK
  <1>3. Child \in 1..Len(children) /\ children[Child] \in Threads
    BY <1>1, <1>2
  <1>4. ASSUME NEW n \in Texts, links[n] = Child PROVE FALSE
    <2>1. children[Child].through = n
      BY <1>1, <1>2, <1>4 DEF LinksOK, Begins
    <2> QED
      BY <1>2, <1>4, <2>1
  <1>5. ASSUME NEW n \in Texts, answered[n] = Child PROVE FALSE
    <2>1. links[n] = Child
      BY <1>1, <1>2, <1>5 DEF LinksOK
    <2> QED
      BY <1>4, <2>1
  <1> QED
    BY <1>2, <1>3, <1>4, <1>5

\* What is done to that child is done to no other.
LEMMA ChildAlone ==
    ASSUME BranchInv, branching.at \in {"copy", "mark", "link"}, NEW child \in Threads,
           NEW ch, ch = [children EXCEPT ![Child] = child]
    PROVE  /\ ch \in Seq(Threads) /\ Len(ch) = Child /\ ch[Child] = child
           /\ LinksOK(links, answered, ch, rows)
  <1>1. links \in [Texts -> 0..Child] /\ answered \in [Texts -> 0..Child] /\ Child \in Nat
        /\ children \in Seq(Threads) /\ Child = Len(children)
        /\ LinksOK(links, answered, children, rows)
    BY DEF BranchInv, BranchTypes, Child
  <1>2. Child \in 1..Len(children) /\ \A n \in Texts : links[n] # Child /\ answered[n] # Child
    BY NotLinked
  <1>3. ch \in Seq(Threads) /\ Len(ch) = Child /\ ch[Child] = child
        /\ \A c \in 1..Child : c # Child => ch[c] = children[c]
    BY <1>1, <1>2, ExceptSeq
  <1>4. \A n \in Texts : /\ links[n] # 0 => ch[links[n]] = children[links[n]]
                         /\ answered[n] # 0 => ch[answered[n]] = children[answered[n]]
    BY <1>1, <1>2, <1>3
  <1> QED
    BY <1>1, <1>3, <1>4 DEF LinksOK

\* The history is copied to the child.
LEMMA CopyKeeps ==
    ASSUME BranchInv, RowsOK, Copy
    PROVE  BranchInv'
  <1>1. branching.at = "copy" /\ branching' = [branching EXCEPT !.at = "mark"]
        /\ children' = [children EXCEPT ![Child].rows = SubSeq(rows, 1, branching.through)]
        /\ UNCHANGED <<rows, links, answered>>
    BY DEF Copy, Step, Goes, vars
  <1>2. links \in [Texts -> 0..Child] /\ answered \in [Texts -> 0..Child]
        /\ WorkOK(branching, links, children, rows) /\ children \in Seq(Threads)
        /\ branching \in [at : {"rest", "open", "copy", "mark", "link"}, through : Nat]
        /\ rows \in Seq(Texts) /\ Len(rows) \in Nat
    BY DEF BranchInv, BranchTypes, RowsOK, LogOK
  <1> DEFINE n == branching.through
             copied == SubSeq(rows, 1, n)
             old == children[Child]
             child == [old EXCEPT !.rows = copied]
  <1>3. n \in Texts /\ n \in Nat /\ n <= Len(rows) /\ links[n] = 0 /\ ~old.deleted /\ old.through = n
    BY <1>1, <1>2 DEF WorkOK, Texts, Child
  <1>4. copied \in Seq(Lines) /\ Len(copied) = n /\ \A i \in 1..n : copied[i] = rows[i]
    <2>1. \A i \in 1..n : rows[i] \in Lines
      BY <1>2, <1>3 DEF Lines
    <2>2. /\ SubSeq(rows, 1, n) \in Seq(Lines)
          /\ Len(SubSeq(rows, 1, n)) = IF 1 <= n THEN n - 1 + 1 ELSE 0
          /\ \A i \in 1..(n - 1 + 1) : SubSeq(rows, 1, n)[i] = rows[1 + i - 1]
      BY <1>3, <2>1, SubSeqProperties
    <2> QED
      BY <1>3, <2>2 DEF Texts
  <1>5. old \in Threads /\ Child \in 1..Len(children)
    BY <1>1, NotLinked
  <1>6. children' = [children EXCEPT ![Child] = child]
    BY <1>1, <1>2, <1>5
  <1> HIDE DEF copied, old
  <1>7. child \in Threads /\ child.rows = copied /\ child.deleted = old.deleted /\ child.through = old.through
    BY <1>4, <1>5 DEF Threads, Lines
  <1> HIDE DEF child, n
  <1>8. children' \in Seq(Threads) /\ Len(children') = Child /\ children'[Child] = child
        /\ LinksOK(links, answered, children', rows)
    BY <1>1, <1>6, <1>7, ChildAlone
  <1>9. Begins(child, n, rows)
    BY <1>3, <1>4, <1>7 DEF Begins
  <1>10. branching'.at = "mark" /\ branching'.through = n
         /\ branching' \in [at : {"rest", "open", "copy", "mark", "link"}, through : Nat]
    BY <1>1, <1>2 DEF n
  <1>11. Child # 0
    BY <1>5 DEF Child
  <1>12. WorkOK(branching', links, children', rows)
    BY <1>3, <1>7, <1>8, <1>9, <1>10, <1>11 DEF WorkOK
  <1>13. Child' = Child
    BY <1>8 DEF Child
  <1> QED
    BY <1>1, <1>2, <1>8, <1>10, <1>12, <1>13 DEF BranchInv, BranchTypes

LEMMA CopyFailsKeeps ==
    ASSUME BranchInv, CopyFails
    PROVE  BranchInv'
  <1>1. branching.at = "copy" /\ branching' = Resting
        /\ children' = [children EXCEPT ![Child].deleted = TRUE]
        /\ UNCHANGED <<rows, links, answered>>
    BY DEF CopyFails, Step, Fails, vars
  <1>2. links \in [Texts -> 0..Child] /\ answered \in [Texts -> 0..Child] /\ children \in Seq(Threads)
    BY DEF BranchInv, BranchTypes
  <1> DEFINE old == children[Child]
             child == [old EXCEPT !.deleted = TRUE]
  <1>3. old \in Threads /\ Child \in 1..Len(children)
    BY <1>1, NotLinked
  <1>4. children' = [children EXCEPT ![Child] = child]
    BY <1>1, <1>2, <1>3
  <1> HIDE DEF old
  <1>5. child \in Threads
    BY <1>3 DEF Threads
  <1> HIDE DEF child
  <1>6. children' \in Seq(Threads) /\ Len(children') = Child
        /\ LinksOK(links, answered, children', rows)
    BY <1>1, <1>4, <1>5, ChildAlone
  <1>7. Child' = Child
    BY <1>6 DEF Child
  <1>8. branching' \in [at : {"rest", "open", "copy", "mark", "link"}, through : Nat]
        /\ branching'.at = "rest"
    BY <1>1 DEF Resting
  <1> QED
    BY <1>1, <1>2, <1>6, <1>7, <1>8 DEF BranchInv, BranchTypes, WorkOK

LEMMA MarkKeeps ==
    ASSUME BranchInv, Mark
    PROVE  BranchInv'
  <1>1. branching.at = "mark" /\ branching' = [branching EXCEPT !.at = "link"]
        /\ children' \in {children, [children EXCEPT ![Child].rows = Append(@, Marker)]}
        /\ UNCHANGED <<rows, links, answered>>
    BY DEF Mark, Step, Goes, vars
  <1>2. links \in [Texts -> 0..Child] /\ answered \in [Texts -> 0..Child] /\ children \in Seq(Threads)
        /\ branching \in [at : {"rest", "open", "copy", "mark", "link"}, through : Nat]
        /\ WorkOK(branching, links, children, rows)
    BY DEF BranchInv, BranchTypes
  <1> DEFINE n == branching.through
             old == children[Child]
             marked == Append(old.rows, Marker)
             child == [old EXCEPT !.rows = marked]
  <1>3. old \in Threads /\ Child \in 1..Len(children) /\ children[Len(children)] = old
    BY <1>1, NotLinked DEF Child
  <1>4. \/ children' = [children EXCEPT ![Child] = old]
        \/ children' = [children EXCEPT ![Child] = child]
    <2>1. CASE children' = children
      BY <1>2, <1>3, <2>1
    <2>2. CASE children' = [children EXCEPT ![Child].rows = Append(@, Marker)]
      BY <1>2, <1>3, <2>2
    <2> QED
      BY <1>1, <2>1, <2>2
  <1>5. n \in Texts /\ n \in Nat /\ n <= Len(rows) /\ links[n] = 0 /\ ~old.deleted /\ old.through = n
        /\ Begins(old, n, rows)
    BY <1>1, <1>2, <1>3 DEF WorkOK, Texts
  <1>6. old.rows \in Seq(Lines) /\ marked \in Seq(Lines) /\ Len(marked) = Len(old.rows) + 1
        /\ Len(old.rows) \in Nat
        /\ \A i \in 1..Len(old.rows) : marked[i] = old.rows[i]
    <2>1. old.rows \in Seq(Lines) /\ Marker \in Lines
      BY <1>3 DEF Threads, Lines
    <2> HIDE DEF old
    <2> QED
      BY <2>1, AppendProperties
  <1> HIDE DEF old, marked
  <1>7. child \in Threads /\ child.rows = marked /\ child.deleted = old.deleted /\ child.through = old.through
    BY <1>3, <1>6 DEF Threads, Lines
  <1> HIDE DEF child, n
  <1>8. Begins(child, n, rows)
    BY <1>5, <1>6, <1>7 DEF Begins
  <1>9. PICK c \in {old, child} : children' = [children EXCEPT ![Child] = c]
    BY <1>4
  <1>10. c \in Threads /\ ~c.deleted /\ c.through = n /\ Begins(c, n, rows)
    BY <1>3, <1>5, <1>7, <1>8
  <1>11. children' \in Seq(Threads) /\ Len(children') = Child /\ children'[Child] = c
        /\ LinksOK(links, answered, children', rows)
    BY <1>1, <1>9, <1>10, ChildAlone
  <1>12. branching'.at = "link" /\ branching'.through = n
         /\ branching' \in [at : {"rest", "open", "copy", "mark", "link"}, through : Nat]
    BY <1>1, <1>2 DEF n
  <1>13. Child # 0
    BY <1>3 DEF Child
  <1>14. WorkOK(branching', links, children', rows)
    BY <1>5, <1>10, <1>11, <1>12, <1>13 DEF WorkOK
  <1>15. Child' = Child
    BY <1>11 DEF Child
  <1> QED
    BY <1>1, <1>2, <1>11, <1>12, <1>14, <1>15 DEF BranchInv, BranchTypes

\* The link is written last, when the child begins as it should.
LEMMA LinkKeeps ==
    ASSUME BranchInv, Link
    PROVE  BranchInv'
  <1> DEFINE n == branching.through
  <1>1. branching.at = "link" /\ branching' = Resting
        /\ links' = [links EXCEPT ![n] = Child] /\ answered' = [answered EXCEPT ![n] = Child]
        /\ UNCHANGED <<rows, children>>
    BY DEF Link, Step, vars
  <1>2. links \in [Texts -> 0..Child] /\ answered \in [Texts -> 0..Child] /\ children \in Seq(Threads)
        /\ WorkOK(branching, links, children, rows) /\ LinksOK(links, answered, children, rows)
        /\ Child = Len(children) /\ Child \in Nat
    BY DEF BranchInv, BranchTypes, Child
  <1>3. n \in Texts /\ Begins(children[Child], n, rows)
    BY <1>1, <1>2 DEF WorkOK
  <1> HIDE DEF n
  <1>4. links' \in [Texts -> 0..Child] /\ answered' \in [Texts -> 0..Child]
        /\ links'[n] = Child /\ answered'[n] = Child
        /\ \A m \in Texts : m # n => links'[m] = links[m] /\ answered'[m] = answered[m]
    BY <1>1, <1>2, <1>3
  <1>5. LinksOK(links', answered', children, rows)
    <2> SUFFICES ASSUME NEW m \in Texts
                 PROVE  /\ links'[m] # 0 /\ ~children[links'[m]].deleted => Begins(children[links'[m]], m, rows)
                        /\ answered'[m] # 0 /\ ~children[answered'[m]].deleted => links'[m] = answered'[m]
      BY DEF LinksOK
    <2>1. CASE m = n
      BY <1>3, <1>4, <2>1
    <2>2. CASE m # n
      BY <1>2, <1>4, <2>2 DEF LinksOK
    <2> QED
      BY <2>1, <2>2
  <1>6. branching' \in [at : {"rest", "open", "copy", "mark", "link"}, through : Nat]
        /\ branching'.at = "rest"
    BY <1>1 DEF Resting
  <1>7. Child' = Child
    BY <1>1 DEF Child
  <1> QED
    BY <1>1, <1>2, <1>4, <1>5, <1>6, <1>7 DEF BranchInv, BranchTypes, WorkOK

\* A prompt or a deletion changes one branch, which is deleted or begins as before.
LEMMA OtherwiseKeeps ==
    ASSUME BranchInv, branching.at = "rest", NEW c \in 1..Child, NEW child \in Threads,
           child.deleted \/ (~children[c].deleted /\ child.through = children[c].through
               /\ Len(children[c].rows) <= Len(child.rows)
               /\ \A i \in 1..Len(children[c].rows) : child.rows[i] = children[c].rows[i]),
           children' = [children EXCEPT ![c] = child],
           UNCHANGED <<rows, links, answered, branching>>
    PROVE  BranchInv'
  <1>1. links \in [Texts -> 0..Child] /\ answered \in [Texts -> 0..Child] /\ children \in Seq(Threads)
        /\ LinksOK(links, answered, children, rows)
        /\ branching \in [at : {"rest", "open", "copy", "mark", "link"}, through : Nat]
        /\ Child = Len(children) /\ Child \in Nat /\ c \in 1..Len(children)
    BY DEF BranchInv, BranchTypes, Child
  <1>2. children' \in Seq(Threads) /\ Len(children') = Child /\ children'[c] = child
        /\ \A d \in 1..Child : d # c => children'[d] = children[d]
    BY <1>1, ExceptSeq
  <1>3. \A n \in Nat : Begins(children[c], n, rows) => child.deleted \/ Begins(child, n, rows)
    <2>1. children[c] \in Threads
      BY <1>1
    <2>2. children[c].rows \in Seq(Lines) /\ child.rows \in Seq(Lines)
      BY <2>1 DEF Threads, Lines
    <2>3. Len(children[c].rows) \in Nat /\ Len(child.rows) \in Nat
      BY <2>2
    <2> QED
      BY <2>3 DEF Begins
  <1>4. LinksOK(links, answered, children', rows)
    <2> SUFFICES ASSUME NEW n \in Texts
                 PROVE  /\ links[n] # 0 /\ ~children'[links[n]].deleted => Begins(children'[links[n]], n, rows)
                        /\ answered[n] # 0 /\ ~children'[answered[n]].deleted => links[n] = answered[n]
      BY DEF LinksOK
    <2>1. n \in Nat
      BY DEF Texts
    <2>2. links[n] \in 0..Child /\ answered[n] \in 0..Child
      BY <1>1
    <2>3. ASSUME NEW d \in 1..Child, ~children'[d].deleted
          PROVE  ~children[d].deleted /\ (Begins(children[d], n, rows) => Begins(children'[d], n, rows))
      <3>1. CASE d = c
        BY <1>2, <1>3, <2>1, <2>3, <3>1
      <3>2. CASE d # c
        BY <1>2, <2>3, <3>2
      <3> QED
        BY <3>1, <3>2
    <2> QED
      BY <1>1, <2>2, <2>3 DEF LinksOK
  <1>5. Child' = Child
    BY <1>2 DEF Child
  <1> QED
    BY <1>1, <1>2, <1>4, <1>5 DEF BranchInv, BranchTypes, WorkOK

LEMMA PromptKeeps ==
    ASSUME BranchInv, NEW c \in 1..Child, Prompt(c)
    PROVE  BranchInv'
  <1>1. children \in Seq(Threads) /\ c \in 1..Len(children)
    BY DEF BranchInv, BranchTypes, Child
  <1> DEFINE old == children[c]
  <1>2. old \in Threads
    BY <1>1
  <1>3. PICK sent \in BOOLEAN :
          children' = [children EXCEPT
              ![c].session = TRUE,
              ![c].knows = @ \/ (sent /\ GivesHistory(c)),
              ![c].rows = IF sent THEN Append(@, Own) ELSE @]
    BY DEF Prompt
  <1> DEFINE known == old.knows \/ (sent /\ GivesHistory(c))
             more == IF sent THEN Append(old.rows, Own) ELSE old.rows
             child == [old EXCEPT !.session = TRUE, !.knows = known, !.rows = more]
  <1>4. children' = [children EXCEPT ![c] = child]
    BY <1>1, <1>3
  <1>5. old.rows \in Seq(Lines) /\ Own \in Lines /\ Len(old.rows) \in Nat
    BY <1>2 DEF Threads, Lines
  <1> HIDE DEF old
  <1>6. more \in Seq(Lines) /\ Len(old.rows) <= Len(more)
        /\ \A i \in 1..Len(old.rows) : more[i] = old.rows[i]
    <2>1. CASE sent
      <3> DEFINE longer == Append(old.rows, Own)
      <3>1. longer \in Seq(Lines) /\ Len(longer) = Len(old.rows) + 1
            /\ \A i \in 1..Len(old.rows) : longer[i] = old.rows[i]
        BY <1>5, AppendProperties
      <3>2. more = longer
        BY <2>1
      <3> HIDE DEF longer, more
      <3> QED
        BY <1>5, <3>1, <3>2
    <2>2. CASE ~sent
      BY <1>5, <2>2
    <2> QED
      BY <2>1, <2>2
  <1>7. known \in BOOLEAN
    BY <1>2 DEF Threads
  <1> HIDE DEF more, known
  <1>8. child \in Threads /\ child.deleted = old.deleted /\ child.through = old.through /\ child.rows = more
    BY <1>2, <1>6, <1>7 DEF Threads, Lines
  <1>9. ~old.deleted /\ branching.at = "rest" /\ UNCHANGED <<rows, links, answered, branching>>
    BY DEF Prompt, Live, Step, vars, old
  <1> HIDE DEF child
  <1>10. old = children[c]
    BY DEF old
  <1> QED
    BY <1>4, <1>6, <1>8, <1>9, <1>10, OtherwiseKeeps

LEMMA DeleteKeeps ==
    ASSUME BranchInv, NEW c \in 1..Child, Delete(c)
    PROVE  BranchInv'
  <1>1. children \in Seq(Threads) /\ c \in 1..Len(children)
    BY DEF BranchInv, BranchTypes, Child
  <1> DEFINE old == children[c]
             child == [old EXCEPT !.deleted = TRUE]
  <1>2. old \in Threads
    BY <1>1
  <1>3. children' = [children EXCEPT ![c] = child]
    BY <1>1 DEF Delete
  <1> HIDE DEF old
  <1>4. child \in Threads /\ child.deleted
    BY <1>2 DEF Threads
  <1>5. branching.at = "rest" /\ UNCHANGED <<rows, links, answered, branching>>
    BY DEF Delete, Step, vars
  <1> HIDE DEF child
  <1> QED
    BY <1>3, <1>4, <1>5, OtherwiseKeeps

\* Each step keeps the links true.
LEMMA BranchStep ==
    ASSUME BranchInv, Types, RowsOK, [BranchNext]_<<vars, branchVars>>
    PROVE  BranchInv'
  <1>1. CASE UNCHANGED <<vars, branchVars>>
    BY <1>1, BranchAside DEF vars, branchVars
  <1>2. CASE \/ Step("rest") /\ Next /\ UNCHANGED branchVars
             \/ ~Step("rest") /\ Restart /\ Fails /\ UNCHANGED <<links, children, answered>>
    BY <1>2, BranchAside DEF branchVars, Fails, Next
  <1>3. CASE \E n \in Texts : Click(n)
    BY <1>3, ClickKeeps
  <1>4. CASE OpenChildFails \/ LinkFails
    BY <1>4, BranchAside DEF OpenChildFails, LinkFails, Fails
  <1>5. CASE OpenChild \/ Copy \/ CopyFails \/ Mark \/ Link
    BY <1>5, OpenChildKeeps, CopyKeeps, CopyFailsKeeps, MarkKeeps, LinkKeeps
  <1>6. CASE \E c \in 1..Child : Prompt(c) \/ Delete(c)
    BY <1>6, PromptKeeps, DeleteKeeps
  <1> QED
    BY <1>1, <1>2, <1>3, <1>4, <1>5, <1>6 DEF BranchNext

LEMMA StandsFrom == BranchInv /\ RowsOK => BranchesStand
  <1> SUFFICES ASSUME BranchInv, RowsOK PROVE BranchesStand
    OBVIOUS
  <1>1. links \in [Texts -> 0..Child] /\ children \in Seq(Threads) /\ Child = Len(children)
        /\ Child \in Nat /\ LinksOK(links, answered, children, rows) /\ rows \in Seq(Texts)
        /\ branching.at \in {"rest", "open", "copy", "mark", "link"}
    BY DEF BranchInv, BranchTypes, RowsOK, LogOK, Child
  <1>2. BranchTypeOK
    <2>1. \A c \in 1..Child : children[c] \in Threads
      BY <1>1
    <2> QED
      BY <1>1, <2>1 DEF BranchTypeOK, Threads
  <1>3. ASSUME NEW n \in Texts, Live(links[n])
        PROVE  /\ children[links[n]].through = n
               /\ IsPrefix(SubSeq(rows, 1, n), children[links[n]].rows)
    <2> DEFINE child == children[links[n]]
    <2>1. links[n] # 0 /\ ~child.deleted /\ links[n] \in 1..Child
      BY <1>1, <1>3 DEF Live
    <2>2. Begins(child, n, rows) /\ child \in Threads
      BY <1>1, <2>1 DEF LinksOK
    <2> HIDE DEF child
    <2>3. child.rows \in Seq(Lines) /\ n \in Nat /\ n >= 1
      BY <2>2 DEF Threads, Lines, Texts
    <2> DEFINE a == SubSeq(rows, 1, n)
               b == SubSeq(child.rows, 1, n)
    <2>4. \A i \in 1..n : rows[i] \in Lines /\ child.rows[i] \in Lines /\ child.rows[i] = rows[i]
      BY <1>1, <2>2, <2>3 DEF Begins, Lines
    <2>5. a \in Seq(Lines) /\ Len(a) = n /\ \A i \in 1..n : a[i] = rows[i]
      <3>1. /\ SubSeq(rows, 1, n) \in Seq(Lines)
            /\ Len(SubSeq(rows, 1, n)) = IF 1 <= n THEN n - 1 + 1 ELSE 0
            /\ \A i \in 1..(n - 1 + 1) : SubSeq(rows, 1, n)[i] = rows[1 + i - 1]
        BY <2>3, <2>4, SubSeqProperties
      <3> QED
        BY <2>3, <3>1
    <2>6. b \in Seq(Lines) /\ Len(b) = n /\ \A i \in 1..n : b[i] = child.rows[i]
      <3>1. /\ SubSeq(child.rows, 1, n) \in Seq(Lines)
            /\ Len(SubSeq(child.rows, 1, n)) = IF 1 <= n THEN n - 1 + 1 ELSE 0
            /\ \A i \in 1..(n - 1 + 1) : SubSeq(child.rows, 1, n)[i] = child.rows[1 + i - 1]
        BY <2>3, <2>4, SubSeqProperties
      <3> QED
        BY <2>3, <3>1
    <2>7. SubSeq(a, 1, n) = a
      BY <2>5, SubSeqFull
    <2>8. b = SubSeq(child.rows, 1, Len(a))
      BY <2>5
    <2> HIDE DEF a, b
    <2>9. a = b
      BY <2>4, <2>5, <2>6, SeqEqual
    <2>10. Len(a) <= Len(child.rows)
      BY <2>2, <2>5 DEF Begins
    <2>11. IsPrefix(a, child.rows)
      BY <2>5, <2>7, <2>8, <2>9, <2>10 DEF IsPrefix
    <2> QED
      BY <2>2, <2>11 DEF a, child, Begins
  <1>4. \A n \in Texts : Live(answered[n]) => links[n] = answered[n]
    BY <1>1 DEF LinksOK, Live
  <1> QED
    BY <1>2, <1>3, <1>4 DEF BranchesStand

\* Wherever the host stops and whichever write fails, a message that leads to a branch
\* leads to one that begins with the source up to that message, and a click is answered
\* the same again while that branch is there (thread_branch).
THEOREM BranchesAlwaysStand == BranchSpec => []BranchesStand
  <1> DEFINE I == Types /\ RowsOK /\ BranchInv
  <1>1. BranchInit => I
    BY InitDesk, BranchInitInv DEF BranchInit
  <1>2. I /\ [BranchNext]_<<vars, branchVars>> => I'
    <2> SUFFICES ASSUME I, [BranchNext]_<<vars, branchVars>> PROVE I'
      OBVIOUS
    <2>1. [Next]_vars
      BY BranchIsStream
    <2>2. Types' /\ RowsOK'
      BY <2>1, StepTypes, StepRows
    <2>3. BranchInv'
      BY BranchStep
    <2> QED
      BY <2>2, <2>3
  <1>3. I => BranchesStand
    BY StandsFrom
  <1> QED
    BY <1>1, <1>2, <1>3, PTL DEF BranchSpec

\* Whatever is done about branches, a thread that has some is the thread of Stream:
\* what is proved of the one is so of the other (lifecycle/branch.rs writes no row of
\* the source).
THEOREM BranchesAreOfAStream == BranchSpec => Spec
  <1>1. BranchInit => Init
    BY DEF BranchInit
  <1>2. [BranchNext]_<<vars, branchVars>> => [Next]_vars
    BY BranchIsStream
  <1> QED
    BY <1>1, <1>2, PTL DEF BranchSpec, Spec

=============================================================================
