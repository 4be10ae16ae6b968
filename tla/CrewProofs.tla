----------------------------- MODULE CrewProofs -----------------------------
(***************************************************************************)
(* What holds of the crew's tools, handoffs and drafts for any bots,       *)
(* windows, calls, decisions and crashes.                                  *)
(***************************************************************************)
EXTENDS Drafts, FiniteSetTheorems, SequenceTheorems, TLAPS

-----------------------------------------------------------------------------
(* Types.  A dispatch is never begun inside another, so there is one frame *)
(* at most.                                                                *)

CallRows == [by : Threads, kind : Kinds, to : Bots \cup Threads,
             state : {"waiting", "over", "cut"}]
Steps == {"next", "record", "deliver", "attach", "pump", "settle"}
Batches == Seq(Seq(Calls))
Frames == [batch : Batches, step : Steps, target : Threads \cup {None},
           dispatched : BOOLEAN]

\* No bridge without a call has a part in a batch.
Filled(batch) == batch # <<>> /\ \A k \in DOMAIN batch : batch[k] # <<>>

OneFrame ==
    \/ frames = <<>>
    \/ \E f \in Frames : /\ frames = <<f>> /\ Filled(f.batch)
                         /\ f.step # "next" => f.target \in Threads

Shapes ==
    /\ TypeOK
    /\ calls \in Seq(CallRows) /\ Len(calls) <= MaxCalls
    /\ \A c \in DOMAIN calls : calls[c].kind = "handoff" => calls[c].to \in Bots
    /\ ran \in Seq(Calls)
    /\ OneFrame
    /\ IsFiniteSet(bridges)

-----------------------------------------------------------------------------
(* The order of the calls.  What a session has asked is, in this order,    *)
(* carried out, in the host's hands, or still at its bridge.               *)

Ascending(s) == \A i, j \in DOMAIN s : i < j => s[i] < s[j]

\* The calls the host has taken and not begun.
InHand ==
    IF frames = <<>> THEN <<>>
    ELSE IF Top.step = "next" THEN Top.batch ELSE Remaining(Top.batch)

\* A call that can still be carried out.
Due(c) == c \in DOMAIN calls /\ calls[c].state # "cut"

AtBridges ==
    \A t \in Threads :
        /\ Ascending(rx[t])
        /\ \A c \in Range(rx[t]) : Due(c) /\ calls[c].by = t
InHands ==
    \A k \in DOMAIN InHand :
        /\ Ascending(InHand[k])
        /\ \A c \in Range(InHand[k]) : Due(c)
        /\ \A c, d \in Range(InHand[k]) : calls[c].by = calls[d].by
OnePart ==
    \A k, l \in DOMAIN InHand : k # l =>
        \A c \in Range(InHand[k]), d \in Range(InHand[l]) : calls[c].by # calls[d].by
HandsFirst ==
    \A k \in DOMAIN InHand : \A c \in Range(InHand[k]) :
        \A d \in Range(rx[calls[c].by]) : c < d
Carried ==
    /\ \A i \in DOMAIN ran : Due(ran[i])
    /\ \A i, j \in DOMAIN ran :
          i < j /\ calls[ran[i]].by = calls[ran[j]].by => ran[i] < ran[j]
CarriedFirst ==
    \A i \in DOMAIN ran :
        /\ \A d \in Range(rx[calls[ran[i]].by]) : ran[i] < d
        /\ \A k \in DOMAIN InHand : \A d \in Range(InHand[k]) :
              calls[d].by = calls[ran[i]].by => ran[i] < d
\* The call under way is the last that was begun.
Latest ==
    frames # <<>> /\ Top.step # "next" => ran # <<>> /\ Call = ran[Len(ran)]

Line ==
    /\ AtBridges /\ InHands /\ OnePart /\ HandsFirst
    /\ Carried /\ CarriedFirst /\ Latest

-----------------------------------------------------------------------------
(* Where the work is.                                                      *)

\* Of a bot's standing threads, those before one there has been are tombstones.
Tombstones ==
    \A b \in Bots : \A g, h \in Generations :
        h < g /\ thread[<<b, g>>] # "none" => thread[<<b, h>>] = "deleted"
\* A spawned thread is made by its call.
Spawned == \A c \in Calls : thread[<<Code, c>>] # "none" => c \in Range(ran)
\* The thread a task is on its way to is open.
Targeted ==
    frames # <<>> /\ Top.step \in {"record", "deliver", "attach"} =>
        thread[Top.target] \in {"active", "folded"}
Sight == WorkIsInSight /\ Tombstones /\ Spawned /\ Targeted

-----------------------------------------------------------------------------
(* The record of the tasks.                                                *)

Given(c) == \E t \in Threads : turn[t] = c \/ c \in Range(queue[t])

OnRecord ==
    \A c \in Calls : Given(c) => rows[c] \notin {"none", "failed"} /\ c \in Range(ran)
\* A task is written down before it is given and given once.
Undelivered ==
    /\ frames # <<>>
    /\ \/ Top.step \in {"record", "deliver", "attach"}
       \/ Top.step = "settle" /\ ~Top.dispatched
WrittenDown ==
    /\ Undelivered => ~Given(Call)
    /\ frames # <<>> /\ Top.step \in {"deliver", "attach", "pump", "settle"}
          => rows[Call] = "recorded"
Tasks == OnRecord /\ WrittenDown

Duties == Shapes /\ Line /\ Sight /\ Tasks

-----------------------------------------------------------------------------
(* The operators the model is built from.                                  *)

LEMMA RangeOfAppend ==
    ASSUME NEW T, NEW q \in Seq(T), NEW e \in T
    PROVE  Append(q, e) \in Seq(T) /\ Range(Append(q, e)) = Range(q) \cup {e}
  <1>1. /\ Append(q, e) \in Seq(T) /\ Len(Append(q, e)) = Len(q) + 1
        /\ \A i \in 1..Len(q) : Append(q, e)[i] = q[i]
        /\ Append(q, e)[Len(q) + 1] = e
    BY AppendProperties
  <1>2. /\ DOMAIN q = 1..Len(q) /\ Len(q) \in Nat
        /\ DOMAIN Append(q, e) = 1..(Len(q) + 1)
    BY <1>1, LenProperties
  <1>3. \A i \in 1..(Len(q) + 1) : i \in 1..Len(q) \/ i = Len(q) + 1
    BY <1>2
  <1>4. \A i \in 1..Len(q) : i \in 1..(Len(q) + 1)
    BY <1>2
  <1>5. Len(q) + 1 \in 1..(Len(q) + 1)
    BY <1>2
  <1> QED
    BY <1>1, <1>2, <1>3, <1>4, <1>5 DEF Range

LEMMA TailOf ==
    ASSUME NEW T, NEW q \in Seq(T), q # <<>>
    PROVE  /\ Head(q) \in T /\ Head(q) = q[1] /\ 1 \in DOMAIN q
           /\ Tail(q) \in Seq(T)
           /\ DOMAIN q = 1..Len(q) /\ Len(q) \in Nat \ {0} /\ Len(Tail(q)) = Len(q) - 1
           /\ \A i \in DOMAIN Tail(q) : i + 1 \in DOMAIN q /\ Tail(q)[i] = q[i + 1]
           /\ \A i \in DOMAIN q : i # 1 => i - 1 \in DOMAIN Tail(q) /\ Tail(q)[i - 1] = q[i]
  <1>1. /\ Head(q) \in T /\ Tail(q) \in Seq(T) /\ Len(Tail(q)) = Len(q) - 1
        /\ \A i \in 1..Len(Tail(q)) : Tail(q)[i] = q[i + 1]
    BY HeadTailProperties
  <1>2. DOMAIN q = 1..Len(q) /\ Len(q) \in Nat \ {0}
    BY LenProperties, EmptySeq
  <1>3. DOMAIN Tail(q) = 1..Len(Tail(q)) /\ Len(Tail(q)) \in Nat
    BY <1>1, LenProperties
  <1>4. Head(q) = q[1]
    BY DEF Head
  <1>5. \A i \in DOMAIN q : i # 1 => i - 1 \in 1..Len(Tail(q)) /\ (i - 1) + 1 = i
    BY <1>1, <1>2, <1>3
  <1> QED
    BY <1>1, <1>2, <1>3, <1>4, <1>5

LEMMA RangeOfTail ==
    ASSUME NEW T, NEW q \in Seq(T), q # <<>>
    PROVE  Range(q) = {Head(q)} \cup Range(Tail(q))
  <1>1. \A i \in DOMAIN q : q[i] = Head(q) \/ q[i] \in Range(Tail(q))
    BY TailOf DEF Range
  <1>2. \A i \in DOMAIN Tail(q) : Tail(q)[i] \in Range(q)
    BY TailOf DEF Range
  <1>3. Head(q) \in Range(q)
    BY TailOf DEF Range
  <1> QED
    BY <1>1, <1>2, <1>3 DEF Range

LEMMA RangeOfEmpty == Range(<<>>) = {} /\ Ascending(<<>>)
  BY DEF Range, Ascending

\* A call asked last comes last.
LEMMA AscendingAppend ==
    ASSUME NEW q \in Seq(Calls), NEW e \in Calls, Ascending(q), \A c \in Range(q) : c < e
    PROVE  Ascending(Append(q, e))
  <1>1. /\ Append(q, e) \in Seq(Calls) /\ Len(Append(q, e)) = Len(q) + 1
        /\ \A i \in 1..Len(q) : Append(q, e)[i] = q[i]
        /\ Append(q, e)[Len(q) + 1] = e
    BY AppendProperties
  <1>2. /\ DOMAIN q = 1..Len(q) /\ Len(q) \in Nat
        /\ DOMAIN Append(q, e) = 1..(Len(q) + 1)
    BY <1>1, LenProperties
  <1>3. \A i, j \in 1..(Len(q) + 1) : i < j => i \in 1..Len(q) /\ (j \in 1..Len(q) \/ j = Len(q) + 1)
    BY <1>2
  <1>4. \A i \in 1..Len(q) : q[i] < e
    BY <1>2 DEF Range
  <1>5. ASSUME NEW i \in 1..(Len(q) + 1), NEW j \in 1..(Len(q) + 1), i < j
        PROVE  Append(q, e)[i] < Append(q, e)[j]
    <2>1. CASE j \in 1..Len(q)
      BY <1>1, <1>2, <1>3, <1>5, <2>1 DEF Ascending
    <2>2. CASE j = Len(q) + 1
      <3>1. i \in 1..Len(q)
        BY <1>3, <1>5
      <3> QED
        BY <1>1, <1>4, <2>2, <3>1
    <2> QED
      BY <1>3, <1>5, <2>1, <2>2
  <1> QED
    BY <1>2, <1>5 DEF Ascending

LEMMA AscendingTail ==
    ASSUME NEW q \in Seq(Calls), q # <<>>, Ascending(q)
    PROVE  /\ Ascending(Tail(q))
           /\ \A c \in Range(Tail(q)) : Head(q) < c
  <1>1. /\ Head(q) = q[1] /\ 1 \in DOMAIN q
        /\ DOMAIN q \subseteq Nat /\ DOMAIN Tail(q) \subseteq Nat \ {0}
        /\ \A i \in DOMAIN Tail(q) : i + 1 \in DOMAIN q /\ Tail(q)[i] = q[i + 1]
    <2>1. DOMAIN Tail(q) = 1..Len(Tail(q)) /\ Len(Tail(q)) \in Nat
      BY TailOf, LenProperties
    <2> QED
      BY TailOf, <2>1
  <1>2. \A i, j \in DOMAIN Tail(q) : i < j => i + 1 < j + 1
    BY <1>1
  <1>3. \A i \in DOMAIN Tail(q) : 1 < i + 1
    BY <1>1
  <1> QED
    BY <1>1, <1>2, <1>3 DEF Ascending, Range

\* A batch without its first call is a batch, and each of its parts is one of the
\* batch, but for the first, which may have lost its head.
LEMMA RemainingOf ==
    ASSUME NEW b \in Batches, Filled(b)
    PROVE  /\ b[1] \in Seq(Calls) /\ b[1] # <<>> /\ 1 \in DOMAIN b
           /\ Head(b) = b[1] /\ Head(b[1]) \in Calls /\ Head(b[1]) \in Range(b[1])
           /\ Remaining(b) \in Batches
           /\ \A k \in DOMAIN Remaining(b) : Remaining(b)[k] # <<>>
           /\ \E w \in [DOMAIN Remaining(b) -> DOMAIN b] :
                 /\ \A k, l \in DOMAIN Remaining(b) : k # l => w[k] # w[l]
                 /\ \A k \in DOMAIN Remaining(b) :
                       /\ Range(Remaining(b)[k]) \subseteq Range(b[w[k]])
                       /\ Ascending(b[w[k]]) => Ascending(Remaining(b)[k])
                       /\ w[k] = 1 /\ Ascending(b[1]) =>
                             \A c \in Range(Remaining(b)[k]) : Head(b[1]) < c
  <1>1. /\ b # <<>> /\ DOMAIN b = 1..Len(b) /\ Len(b) \in Nat \ {0}
        /\ Head(b) = b[1] /\ 1 \in DOMAIN b /\ b[1] \in Seq(Calls) /\ b[1] # <<>>
    <2>1. b # <<>> /\ b \in Seq(Seq(Calls))
      BY DEF Filled, Batches
    <2>2. Head(b) \in Seq(Calls) /\ Head(b) = b[1] /\ 1 \in DOMAIN b
      BY <2>1, TailOf
    <2>3. DOMAIN b = 1..Len(b) /\ Len(b) \in Nat \ {0}
      BY <2>1, TailOf
    <2> QED
      BY <2>1, <2>2, <2>3 DEF Filled
  <1>2. /\ Head(b[1]) \in Calls /\ Head(b[1]) \in Range(b[1])
        /\ Len(b[1]) \in Nat \ {0} /\ Tail(b[1]) \in Seq(Calls)
        /\ Len(Tail(b[1])) = Len(b[1]) - 1
    <2>1. /\ Head(b[1]) \in Calls /\ Len(b[1]) \in Nat \ {0} /\ Tail(b[1]) \in Seq(Calls)
          /\ Len(Tail(b[1])) = Len(b[1]) - 1
      BY <1>1, TailOf
    <2>2. Range(b[1]) = {Head(b[1])} \cup Range(Tail(b[1]))
      BY <1>1, RangeOfTail
    <2> QED
      BY <2>1, <2>2
  <1>3. \A k \in DOMAIN b : b[k] \in Seq(Calls) /\ b[k] # <<>>
    <2>1. \A k \in 1..Len(b) : b[k] \in Seq(Calls)
      BY ElementOfSeq DEF Batches
    <2> QED
      BY <1>1, <2>1 DEF Filled
  <1>4. /\ Range(Tail(b[1])) \subseteq Range(b[1])
        /\ Ascending(b[1]) => Ascending(Tail(b[1])) /\ \A c \in Range(Tail(b[1])) : Head(b[1]) < c
    BY <1>1, RangeOfTail, AscendingTail
  <1>5. CASE Len(b[1]) > 1
    <2> DEFINE r == [b EXCEPT ![1] = Tail(b[1])]
    <2>1. Remaining(b) = r
      BY <1>1, <1>5 DEF Remaining
    <2>2. DOMAIN r = DOMAIN b /\ r[1] = Tail(b[1]) /\ \A k \in DOMAIN b : k # 1 => r[k] = b[k]
      BY <1>1
    <2>3. Tail(b[1]) # <<>>
      <3>0. Len(b[1]) \in Nat
        BY <1>2
      <3>1. Len(b[1]) - 1 # 0
        <4>1. \A n \in Nat : n > 1 => n - 1 # 0
          OBVIOUS
        <4>2. Len(b[1]) > 1
          BY <1>5
        <4> HIDE DEF r
        <4> QED
          BY <3>0, <4>1, <4>2
      <3>2. ASSUME Tail(b[1]) = <<>> PROVE FALSE
        BY <1>2, <3>1, <3>2, EmptySeq
      <3> QED
        BY <3>2
    <2>4. r \in Batches
      <3>1. \A k \in 1..Len(b) : r[k] \in Seq(Calls)
        BY <1>1, <1>2, <1>3, <2>2
      <3> QED
        BY <1>1, <1>2, ExceptSeq DEF Batches
    <2>5. \A k \in DOMAIN r : r[k] # <<>>
      BY <1>3, <2>2, <2>3
    <2> HIDE DEF r
    <2> DEFINE w == [k \in DOMAIN r |-> k]
    <2>6. /\ w \in [DOMAIN r -> DOMAIN b]
          /\ \A k, l \in DOMAIN r : k # l => w[k] # w[l]
      BY <2>2
    <2>7. \A k \in DOMAIN r :
             /\ Range(r[k]) \subseteq Range(b[w[k]])
             /\ Ascending(b[w[k]]) => Ascending(r[k])
             /\ w[k] = 1 /\ Ascending(b[1]) => \A c \in Range(r[k]) : Head(b[1]) < c
      BY <1>4, <2>2
    <2> HIDE DEF w
    <2> QED
      BY <1>1, <1>2, <2>1, <2>4, <2>5, <2>6, <2>7
  <1>6. CASE ~(Len(b[1]) > 1)
    <2>1. Remaining(b) = Tail(b)
      BY <1>1, <1>6 DEF Remaining
    <2>2. /\ Tail(b) \in Batches
          /\ DOMAIN Tail(b) \subseteq Nat \ {0}
          /\ \A i \in DOMAIN Tail(b) : i + 1 \in DOMAIN b /\ Tail(b)[i] = b[i + 1]
      <3>1. b \in Seq(Seq(Calls))
        BY DEF Batches
      <3>2. Tail(b) \in Seq(Seq(Calls))
        BY <1>1, <3>1, TailOf
      <3>3. DOMAIN Tail(b) = 1..Len(Tail(b)) /\ Len(Tail(b)) \in Nat
        BY <3>2, LenProperties
      <3> QED
        BY <1>1, <3>1, <3>2, <3>3, TailOf DEF Batches
    <2>3. \A k \in DOMAIN Tail(b) : Tail(b)[k] # <<>>
      BY <1>3, <2>2
    <2> DEFINE w == [k \in DOMAIN Tail(b) |-> k + 1]
    <2>4. w \in [DOMAIN Tail(b) -> DOMAIN b]
      BY <2>2
    <2>5. \A k, l \in DOMAIN Tail(b) : k # l => w[k] # w[l]
      BY <2>2
    <2>6. \A k \in DOMAIN Tail(b) :
             /\ Range(Tail(b)[k]) \subseteq Range(b[w[k]])
             /\ Ascending(b[w[k]]) => Ascending(Tail(b)[k])
             /\ w[k] # 1
      BY <2>2
    <2> HIDE DEF w
    <2> QED
      BY <1>1, <1>2, <2>1, <2>2, <2>3, <2>4, <2>5, <2>6
  <1> QED
    BY <1>2, <1>5, <1>6

\* There is one frame or none.
LEMMA TheFrame ==
    ASSUME NEW f, frames = <<f>>
    PROVE  /\ Top = f /\ frames # <<>> /\ Len(frames) = 1
           /\ Front(frames) = <<>>
           /\ \A g : [frames EXCEPT ![Len(frames)] = g] = <<g>>
  BY DEF Top, Front

-----------------------------------------------------------------------------
(* The steps a dispatch takes, by what they do to its frame.               *)

\* The call under way or next.
LEMMA CallOf ==
    ASSUME NEW f \in Frames, frames = <<f>>, Filled(f.batch)
    PROVE  /\ Call = Head(f.batch[1]) /\ Call \in Calls /\ Call \in Range(f.batch[1])
           /\ 1 \in DOMAIN f.batch
           /\ f.batch \in Batches /\ f.step \in Steps /\ f.target \in Threads \cup {None}
           /\ f.dispatched \in BOOLEAN
  <1>1. /\ f.batch \in Batches /\ f.step \in Steps /\ f.target \in Threads \cup {None}
        /\ f.dispatched \in BOOLEAN
    BY DEF Frames
  <1>2. Top = f
    BY TheFrame
  <1> QED
    BY <1>1, <1>2, RemainingOf DEF Call

\* A step within a call leaves the batch alone.
LEMMA StepWithin ==
    ASSUME NEW f \in Frames, frames = <<f>>, Filled(f.batch),
           NEW g \in Frames, g.batch = f.batch, g.step # "next" => g.target \in Threads, Set(g)
    PROVE  /\ frames' = <<g>> /\ OneFrame' /\ Top' = g /\ Call' = Call /\ frames' # <<>>
           /\ InHand' = IF g.step = "next" THEN f.batch ELSE Remaining(f.batch)
  <1>1. frames' = <<g>>
    BY TheFrame DEF Set
  <1>2. Top' = g
    BY <1>1 DEF Top
  <1>3. OneFrame'
    BY <1>1 DEF OneFrame
  <1>4. Call' = Call
    BY <1>2, TheFrame DEF Call
  <1>5. frames' # <<>>
    BY <1>1
  <1>6. InHand' = IF g.step = "next" THEN f.batch ELSE Remaining(f.batch)
    BY <1>2, <1>5 DEF InHand
  <1> QED
    BY <1>1, <1>2, <1>3, <1>4, <1>5, <1>6

\* The end of a call: what is left of the batch is still in hand.
LEMMA StepOnward ==
    ASSUME NEW f \in Frames, frames = <<f>>, Filled(f.batch), Onward
    PROVE  /\ OneFrame' /\ InHand' = Remaining(f.batch)
           /\ frames' # <<>> => Top'.step = "next"
  <1> DEFINE r == Remaining(f.batch)
             g == [f EXCEPT !.batch = r, !.step = "next", !.target = None]
  <1>1. r \in Batches /\ \A k \in DOMAIN r : r[k] # <<>>
    BY RemainingOf, CallOf
  <1>2. Top = f /\ Top.batch = f.batch
    BY TheFrame
  <1>3. CASE r # <<>>
    <2>1. Set(g)
      BY <1>2, <1>3 DEF Onward
    <2>2. g \in Frames /\ g.batch = r /\ g.step = "next"
      <3>1. "next" \in Steps /\ None \in Threads \cup {None} /\ TRUE \in BOOLEAN
        BY DEF Steps
      <3> HIDE DEF r
      <3> QED
        BY <1>1, <3>1 DEF Frames
    <2>3. frames' = <<g>>
      BY <2>1, TheFrame DEF Set
    <2> HIDE DEF g, r
    <2>4. Top' = g /\ frames' # <<>>
      BY <2>3 DEF Top
    <2>5. OneFrame'
      BY <1>1, <1>3, <2>2, <2>3 DEF OneFrame, Filled
    <2>6. InHand' = r
      BY <2>2, <2>4 DEF InHand
    <2> QED
      BY <2>2, <2>4, <2>5, <2>6 DEF r
  <1>4. CASE r = <<>>
    <2>1. frames' = <<>>
      BY <1>2, <1>4, TheFrame DEF Onward
    <2> QED
      BY <1>4, <2>1 DEF OneFrame, InHand
  <1> QED
    BY <1>3, <1>4

-----------------------------------------------------------------------------
(* What a step may do to the calls: their state changes, and one more is   *)
(* made.                                                                   *)

CallsStay ==
    /\ calls' \in Seq(CallRows) /\ Len(calls') = Len(calls) /\ DOMAIN calls' = DOMAIN calls
    /\ \A c \in DOMAIN calls : /\ calls'[c].by = calls[c].by /\ calls'[c].kind = calls[c].kind
                               /\ calls'[c].to = calls[c].to
NoneIsCut ==
    \A c \in DOMAIN calls : calls'[c].state = "cut" => calls[c].state = "cut"

\* A sequence of calls with some of them changed is one.
LEMMA CallsChanged ==
    ASSUME calls \in Seq(CallRows), NEW new, DOMAIN new = DOMAIN calls,
           calls' = new,
           \A c \in DOMAIN calls : /\ new[c] \in CallRows
                                   /\ new[c].by = calls[c].by /\ new[c].kind = calls[c].kind
                                   /\ new[c].to = calls[c].to,
           new = [c \in DOMAIN calls |-> new[c]]
    PROVE  CallsStay
  <1>1. DOMAIN calls = 1..Len(calls) /\ Len(calls) \in Nat
    BY LenProperties
  <1>2. new = [c \in 1..Len(calls) |-> new[c]] /\ \A c \in 1..Len(calls) : new[c] \in CallRows
    BY <1>1
  <1>3. new \in [1..Len(calls) -> CallRows]
    BY <1>2
  <1>4. new \in Seq(CallRows)
    <2>1. [1..Len(calls) -> CallRows] \in {[1..n -> CallRows] : n \in Nat}
      BY <1>1
    <2>2. new \in UNION {[1..n -> CallRows] : n \in Nat}
      BY <1>3, <2>1
    <2> QED
      BY <2>2, SeqDef
  <1>5. Len(new) = Len(calls)
    BY <1>1, <1>4, LenProperties
  <1> QED
    BY <1>4, <1>5 DEF CallsStay

LEMMA CallRow ==
    ASSUME calls \in Seq(CallRows), NEW c \in DOMAIN calls
    PROVE  /\ c \in 1..Len(calls) /\ calls[c] \in CallRows /\ calls[c].by \in Threads
           /\ calls[c].kind \in Kinds /\ calls[c].to \in Bots \cup Threads
           /\ \A state \in {"waiting", "over", "cut"} :
                 /\ [calls[c] EXCEPT !.state = state] \in CallRows
                 /\ [calls[c] EXCEPT !.state = state].by = calls[c].by
                 /\ [calls[c] EXCEPT !.state = state].kind = calls[c].kind
                 /\ [calls[c] EXCEPT !.state = state].to = calls[c].to
                 /\ [calls[c] EXCEPT !.state = state].state = state
  <1>1. c \in 1..Len(calls)
    BY LenProperties
  <1>2. calls[c] \in CallRows
    BY <1>1, ElementOfSeq
  <1> QED
    BY <1>1, <1>2 DEF CallRows

LEMMA AnsweredStay ==
    ASSUME calls \in Seq(CallRows), Answered
    PROVE  CallsStay /\ NoneIsCut
  <1> DEFINE row == IF calls[Call].state = "waiting"
                      THEN [calls[Call] EXCEPT !.state = "over"]
                      ELSE [calls[Call] EXCEPT !.state = calls[Call].state]
             new == [c \in DOMAIN calls |-> IF c = Call THEN row ELSE calls[c]]
  <1>1. calls' = new
    BY DEF Answered
  <1>2. \A c \in DOMAIN calls :
           /\ new[c] \in CallRows
           /\ new[c].by = calls[c].by /\ new[c].kind = calls[c].kind /\ new[c].to = calls[c].to
           /\ new[c].state = "cut" => calls[c].state = "cut"
    <2> SUFFICES ASSUME NEW c \in DOMAIN calls
                 PROVE  /\ new[c] \in CallRows
                        /\ new[c].by = calls[c].by /\ new[c].kind = calls[c].kind
                        /\ new[c].to = calls[c].to
                        /\ new[c].state = "cut" => calls[c].state = "cut"
      OBVIOUS
    <2>1. calls[c].state \in {"waiting", "over", "cut"}
      BY CallRow DEF CallRows
    <2>2. CASE c = Call /\ calls[c].state = "waiting"
      <3>1. new[c] = [calls[c] EXCEPT !.state = "over"]
        BY <2>2
      <3> QED
        BY ZenonT(40), <3>1, CallRow
    <2>3. CASE c = Call /\ calls[c].state # "waiting"
      <3>1. new[c] = [calls[c] EXCEPT !.state = calls[c].state]
        BY <2>3
      <3>2. [calls[c] EXCEPT !.state = calls[c].state] = calls[c]
        BY CallRow DEF CallRows
      <3> QED
        BY <3>1, <3>2, CallRow
    <2>4. CASE c # Call
      BY <2>4, CallRow
    <2> QED
      BY <2>2, <2>3, <2>4
  <1>3. new = [c \in DOMAIN calls |-> new[c]] /\ DOMAIN new = DOMAIN calls
    OBVIOUS
  <1> HIDE DEF new
  <1> QED
    BY <1>1, <1>2, <1>3, CallsChanged DEF NoneIsCut

LEMMA GaveUpStay ==
    ASSUME calls \in Seq(CallRows), NEW d, GiveUp(d)
    PROVE  CallsStay /\ NoneIsCut
  <1> DEFINE new == [c \in DOMAIN calls |->
                        IF c = d THEN [calls[c] EXCEPT !.state = "over"] ELSE calls[c]]
  <1>1. calls' = new
    BY DEF GiveUp
  <1>2. \A c \in DOMAIN calls :
           /\ new[c] \in CallRows
           /\ new[c].by = calls[c].by /\ new[c].kind = calls[c].kind /\ new[c].to = calls[c].to
           /\ new[c].state = "cut" => calls[c].state = "cut"
    BY CallRow
  <1>3. new = [c \in DOMAIN calls |-> new[c]] /\ DOMAIN new = DOMAIN calls
    OBVIOUS
  <1> HIDE DEF new
  <1> QED
    BY <1>1, <1>2, <1>3, CallsChanged DEF NoneIsCut

\* Only a call that was lost before it was begun is told that the host stopped.
LEMMA DisconnectedStay ==
    ASSUME calls \in Seq(CallRows), NEW cs, calls' = Disconnected(cs)
    PROVE  /\ CallsStay
           /\ \A c \in DOMAIN calls : calls'[c].state = "cut" =>
                 calls[c].state = "cut" \/ (c \in cs /\ c \notin Range(ran))
  <1> DEFINE row(c) == [calls[c] EXCEPT !.state = IF c \in Range(ran) THEN "over" ELSE "cut"]
             new == [c \in DOMAIN calls |->
                        IF c \in cs /\ calls[c].state = "waiting" THEN row(c) ELSE calls[c]]
  <1>1. calls' = new
    BY DEF Disconnected
  <1>2. \A c \in DOMAIN calls :
           /\ row(c) \in CallRows
           /\ row(c).by = calls[c].by /\ row(c).kind = calls[c].kind /\ row(c).to = calls[c].to
           /\ row(c).state = "cut" => c \notin Range(ran)
    <2> SUFFICES ASSUME NEW c \in DOMAIN calls
                 PROVE  /\ row(c) \in CallRows
                        /\ row(c).by = calls[c].by /\ row(c).kind = calls[c].kind
                        /\ row(c).to = calls[c].to
                        /\ row(c).state = "cut" => c \notin Range(ran)
      OBVIOUS
    <2>1. CASE c \in Range(ran)
      <3>1. row(c) = [calls[c] EXCEPT !.state = "over"]
        BY <2>1
      <3> QED
        BY <3>1, CallRow
    <2>2. CASE c \notin Range(ran)
      <3>1. row(c) = [calls[c] EXCEPT !.state = "cut"]
        BY <2>2
      <3> QED
        BY <2>2, <3>1, CallRow
    <2> QED
      BY <2>1, <2>2
  <1>3. \A c \in DOMAIN calls :
           /\ new[c] \in CallRows
           /\ new[c].by = calls[c].by /\ new[c].kind = calls[c].kind /\ new[c].to = calls[c].to
           /\ new[c].state = "cut" => calls[c].state = "cut" \/ (c \in cs /\ c \notin Range(ran))
    <2> HIDE DEF row
    <2> QED
      BY <1>2, CallRow
  <1>4. new = [c \in DOMAIN calls |-> new[c]] /\ DOMAIN new = DOMAIN calls
    OBVIOUS
  <1> HIDE DEF new
  <1> QED
    BY <1>1, <1>3, <1>4, CallsChanged

-----------------------------------------------------------------------------
(* Types.                                                                  *)

ThreadStates == {"none", "active", "folded", "archived", "deleted"}
RowStates == {"none", "recorded", "dispatched", "failed"}

\* The variables of Shapes besides the calls and the frames.
Stores ==
    /\ chips \subseteq Bots
    /\ thread \in [Threads -> ThreadStates]
    /\ session \subseteq Threads /\ bridges \subseteq Threads /\ IsFiniteSet(bridges)
    /\ rx \in [Threads -> Seq(Calls)]
    /\ turn \in [Threads -> Calls \cup {None, User}]
    /\ queue \in [Threads -> Seq(Calls)]
    /\ rows \in [Calls -> RowStates]
    /\ ran \in Seq(Calls)

LEMMA ShapesParts ==
    ASSUME Shapes
    PROVE  /\ Stores /\ OneFrame /\ calls \in Seq(CallRows)
           /\ Len(calls) \in Nat /\ DOMAIN calls = 1..Len(calls) /\ DOMAIN calls \subseteq Calls
  <1>1. Len(calls) \in Nat /\ DOMAIN calls = 1..Len(calls) /\ Len(calls) <= MaxCalls
    BY LenProperties DEF Shapes
  <1>2. MaxCalls \in Nat
    BY ChiefAssumption
  <1>3. DOMAIN calls \subseteq Calls
    BY <1>1, <1>2 DEF Calls
  <1> QED
    BY <1>1, <1>3 DEF Shapes, TypeOK, Stores, ThreadStates, RowStates

\* A step that makes no call.
LEMMA ShapesStay ==
    ASSUME Shapes, CallsStay, Stores', OneFrame'
    PROVE  Shapes'
  <1>1. /\ calls' \in Seq(CallRows) /\ Len(calls') <= MaxCalls
        /\ \A c \in DOMAIN calls' : calls'[c].kind = "handoff" => calls'[c].to \in Bots
    BY DEF Shapes, CallsStay
  <1>2. \A c \in DOMAIN calls' : /\ calls'[c].by \in Threads /\ calls'[c].to \in Bots \cup Threads
                                 /\ calls'[c].state \in {"waiting", "over", "cut"}
    <2>1. \A c \in DOMAIN calls' : calls'[c] \in CallRows
      BY <1>1, ElementOfSeq, LenProperties
    <2> QED
      BY <2>1 DEF CallRows
  <1> QED
    BY <1>1, <1>2 DEF Shapes, Stores, TypeOK, ThreadStates, RowStates

LEMMA CallsSame ==
    ASSUME calls \in Seq(CallRows), UNCHANGED calls
    PROVE  CallsStay /\ NoneIsCut
  BY DEF CallsStay, NoneIsCut

LEMMA FramesSame ==
    ASSUME UNCHANGED frames
    PROVE  OneFrame => OneFrame'
  BY DEF OneFrame

\* A thread whose adapter is gone.
LEMMA ClearedStores ==
    ASSUME Stores, calls \in Seq(CallRows), NEW t \in Threads, Cleared(t)
    PROVE  /\ session' \subseteq Threads /\ bridges' \subseteq Threads /\ IsFiniteSet(bridges')
           /\ rx' \in [Threads -> Seq(Calls)] /\ turn' \in [Threads -> Calls \cup {None, User}]
           /\ queue' \in [Threads -> Seq(Calls)] /\ CallsStay
           /\ rx' = [rx EXCEPT ![t] = <<>>] /\ calls' = Disconnected(Range(rx[t]))
  <1>1. /\ rx' = [rx EXCEPT ![t] = <<>>] /\ calls' = Disconnected(Range(rx[t]))
        /\ bridges' = bridges \ {t} /\ session' = session \ {t}
        /\ turn' = [turn EXCEPT ![t] = None] /\ queue' = [queue EXCEPT ![t] = <<>>]
    BY DEF Cleared, DropBridge
  <1>2. CallsStay
    BY <1>1, DisconnectedStay
  <1>3. IsFiniteSet(bridges')
    BY <1>1, FS_Subset DEF Stores
  <1>4. <<>> \in Seq(Calls)
    BY EmptySeq
  <1> QED
    BY <1>1, <1>2, <1>3, <1>4 DEF Stores

\* What bridges there may be once a session has begun.
LEMMA BridgesGrow ==
    ASSUME Stores, NEW t \in Threads
    PROVE  WithBridge(t) \subseteq Threads /\ IsFiniteSet(WithBridge(t))
  <1>1. IsFiniteSet(bridges \cup {t})
    BY FS_AddElement DEF Stores
  <1> QED
    BY <1>1 DEF Stores, WithBridge

LEMMA StandingOf ==
    ASSUME NEW b \in Bots, NEW t \in Standing(b)
    PROVE  /\ t \in Threads
           /\ \E g \in Generations :
                 /\ t = <<b, g>> /\ thread[t] # "deleted"
                 /\ \A older \in 1..(g - 1) : thread[<<b, older>>] = "deleted"
  <1>1. PICK g \in Generations :
           /\ t = <<b, g>> /\ thread[<<b, g>>] # "deleted"
           /\ \A older \in 1..(g - 1) : thread[<<b, older>>] = "deleted"
    BY Zenon DEF Standing
  <1>2. <<b, g>> \in Bots \X Generations
    OBVIOUS
  <1> QED
    BY <1>1, <1>2 DEF Threads

LEMMA TargetTyped ==
    ASSUME Shapes, Call \in DOMAIN calls, NEW t \in Target,
           calls[Call].kind \in {"spawn", "handoff"}
    PROVE  t \in Threads
  <1>1. Call \in Calls
    BY ShapesParts
  <1>2. CASE calls[Call].kind = "spawn"
    BY <1>1, <1>2 DEF Target, Threads
  <1>3. CASE calls[Call].kind = "handoff"
    <2>1. calls[Call].to \in Bots
      BY <1>3 DEF Shapes
    <2> QED
      BY <1>3, <2>1, StandingOf DEF Target
  <1> QED
    BY <1>2, <1>3

\* A call asked: the last of all, and the last at its bridge.
LEMMA AskOf ==
    ASSUME Shapes, NEW t \in Threads, Ask(t)
    PROVE  LET n == Len(calls) + 1 IN
           /\ n \in Calls /\ \A c \in DOMAIN calls : c < n
           /\ calls' \in Seq(CallRows) /\ DOMAIN calls' = DOMAIN calls \cup {n}
           /\ n \notin DOMAIN calls
           /\ \A c \in DOMAIN calls : calls'[c] = calls[c]
           /\ calls'[n].by = t /\ calls'[n].state = "waiting"
           /\ rx' = [rx EXCEPT ![t] = Append(rx[t], n)]
           /\ Append(rx[t], n) \in Seq(Calls)
           /\ UNCHANGED <<frames, ran>>
           /\ Shapes'
  <1> DEFINE n == Len(calls) + 1
  <1>1. PICK kind \in Kinds :
        \E to \in IF kind = "handoff" THEN Bots
                  ELSE IF kind = "fold" THEN {u \in Threads : thread[u] # "none"}
                  ELSE {t} :
           calls' = Append(calls, [by |-> t, kind |-> kind, to |-> to, state |-> "waiting"])
    BY DEF Ask
  <1>2. PICK to \in Bots \cup Threads :
           /\ kind = "handoff" => to \in Bots
           /\ calls' = Append(calls, [by |-> t, kind |-> kind, to |-> to, state |-> "waiting"])
    BY <1>1
  <1> DEFINE row == [by |-> t, kind |-> kind, to |-> to, state |-> "waiting"]
  <1>3. row \in CallRows
    BY DEF CallRows
  <1>4. /\ Stores /\ OneFrame /\ calls \in Seq(CallRows)
        /\ Len(calls) \in Nat /\ DOMAIN calls = 1..Len(calls) /\ DOMAIN calls \subseteq Calls
    BY ShapesParts
  <1>5. Len(calls) < MaxCalls /\ MaxCalls \in Nat
    BY ChiefAssumption DEF Ask
  <1>6. n \in Calls /\ n <= MaxCalls /\ n \notin DOMAIN calls /\ \A c \in DOMAIN calls : c < n
    BY <1>4, <1>5 DEF Calls
  <1>7. /\ calls' \in Seq(CallRows) /\ Len(calls') = n
        /\ \A c \in 1..Len(calls) : calls'[c] = calls[c]
        /\ calls'[n] = row
    <2> HIDE DEF row
    <2> QED
      BY <1>2, <1>3, <1>4, AppendProperties DEF row
  <1>8. DOMAIN calls' = DOMAIN calls \cup {n}
    <2>1. DOMAIN calls' = 1..n
      BY <1>7, LenProperties
    <2> QED
      BY <1>4, <2>1
  <1>9. row.by = t /\ row.kind = kind /\ row.to = to /\ row.state = "waiting"
    OBVIOUS
  <1>10. rx' = [rx EXCEPT ![t] = Append(rx[t], n)] /\ Append(rx[t], n) \in Seq(Calls)
    <2>1. rx[t] \in Seq(Calls)
      BY <1>4 DEF Stores
    <2> QED
      BY <1>6, <2>1, AppendProperties DEF Ask
  <1>11. Stores'
    BY <1>4, <1>10 DEF Ask, Stores
  <1>12. OneFrame'
    BY <1>4, FramesSame DEF Ask
  <1> HIDE DEF n, row
  <1>13. \A c \in DOMAIN calls' : calls'[c].kind = "handoff" => calls'[c].to \in Bots
    BY <1>2, <1>4, <1>7, <1>8, <1>9 DEF Shapes
  <1>14. \A c \in DOMAIN calls' : /\ calls'[c].by \in Threads /\ calls'[c].to \in Bots \cup Threads
                                  /\ calls'[c].state \in {"waiting", "over", "cut"}
    <2>1. \A c \in DOMAIN calls' : calls'[c] \in CallRows
      BY <1>7, ElementOfSeq, LenProperties
    <2> QED
      BY <2>1 DEF CallRows
  <1>15. Shapes'
    BY <1>6, <1>7, <1>11, <1>12, <1>13, <1>14 DEF Shapes, Stores, TypeOK, ThreadStates, RowStates
  <1>16. UNCHANGED <<frames, ran>>
    BY DEF Ask
  <1> QED
    BY <1>4, <1>6, <1>7, <1>8, <1>9, <1>10, <1>15, <1>16 DEF n

\* The calls taken from the bridges.
LEMMA TakeOf ==
    ASSUME Shapes, TakeCalls
    PROVE  /\ Shapes' /\ frames = <<>> /\ frames' # <<>> /\ Top'.step = "next"
           /\ UNCHANGED <<calls, ran>>
           /\ \A t \in Threads : rx'[t] = rx[t] \/ rx'[t] = <<>>
           /\ InHand = <<>>
           /\ \E w \in [DOMAIN InHand' -> Threads] :
                 /\ \A k, l \in DOMAIN InHand' : k # l => w[k] # w[l]
                 /\ \A k \in DOMAIN InHand' : InHand'[k] = rx[w[k]] /\ rx'[w[k]] = <<>>
  <1> DEFINE S == {t \in bridges : rx[t] # <<>>}
  <1>1. PICK order \in SetToSeqs(S) :
          frames' = Append(frames,
             [batch |-> [i \in DOMAIN order |-> rx[order[i]]],
              step |-> "next", target |-> None, dispatched |-> FALSE])
    BY DEF TakeCalls
  <1> DEFINE b == [i \in DOMAIN order |-> rx[order[i]]]
             f == [batch |-> b, step |-> "next", target |-> None, dispatched |-> FALSE]
  <1>2. /\ Stores /\ OneFrame /\ calls \in Seq(CallRows)
    BY ShapesParts
  <1>3. frames = <<>>
    BY DEF TakeCalls, MayDispatch
  <1>4. frames' = <<f>>
    BY <1>1, <1>3
  <1>5. /\ Cardinality(S) \in Nat \ {0}
        /\ order \in [1..Cardinality(S) -> S]
        /\ \A i, j \in 1..Cardinality(S) : i # j => order[i] # order[j]
    <2>1. IsFiniteSet(S)
      BY <1>2, FS_Subset DEF Stores
    <2>2. S # {}
      BY DEF TakeCalls
    <2>3. Cardinality(S) \in Nat /\ Cardinality(S) # 0
      BY <2>1, <2>2, FS_CardinalityType, FS_EmptySet
    <2> QED
      BY <2>3 DEF SetToSeqs
  <1>6. S \subseteq Threads /\ \A t \in S : rx[t] \in Seq(Calls) /\ rx[t] # <<>>
    BY <1>2 DEF Stores
  <1>7. b \in Batches /\ DOMAIN b = 1..Cardinality(S) /\ b # <<>>
    <2>1. b \in [1..Cardinality(S) -> Seq(Calls)] /\ DOMAIN b = 1..Cardinality(S)
      BY <1>5, <1>6
    <2>2. [1..Cardinality(S) -> Seq(Calls)] \in {[1..n -> Seq(Calls)] : n \in Nat}
      BY <1>5
    <2>3. b \in UNION {[1..n -> Seq(Calls)] : n \in Nat}
      BY <2>1, <2>2
    <2>4. b \in Seq(Seq(Calls))
      BY <2>3, SeqDef
    <2>5. 1 \in DOMAIN b
      BY <1>5, <2>1
    <2> HIDE DEF b
    <2>6. b # <<>>
      BY <2>5
    <2> QED
      BY <2>1, <2>4, <2>6 DEF Batches
  <1>8. \A k \in DOMAIN b : b[k] = rx[order[k]] /\ order[k] \in S
    BY <1>5
  <1>9. Filled(b)
    BY <1>6, <1>7, <1>8 DEF Filled
  <1> HIDE DEF b
  <1>10. f \in Frames /\ f.batch = b /\ f.step = "next"
    BY <1>7 DEF Frames, Steps
  <1> HIDE DEF f
  <1>11. Top' = f /\ frames' # <<>>
    BY <1>4 DEF Top
  <1>12. InHand' = b /\ InHand = <<>>
    BY <1>3, <1>10, <1>11 DEF InHand
  <1>13. OneFrame'
    BY <1>4, <1>9, <1>10 DEF OneFrame
  <1>14. rx' = [t \in Threads |-> IF t \in bridges THEN <<>> ELSE rx[t]]
    BY DEF TakeCalls
  <1>15. Stores'
    <2>1. rx' \in [Threads -> Seq(Calls)]
      <3>1. <<>> \in Seq(Calls)
        BY EmptySeq
      <3> QED
        BY <1>2, <1>14, <3>1 DEF Stores
    <2> QED
      BY <1>2, <2>1 DEF Stores, TakeCalls
  <1>16. UNCHANGED <<calls, ran>>
    BY DEF TakeCalls
  <1>17. Shapes'
    BY <1>2, <1>13, <1>15, <1>16, CallsSame, ShapesStay
  <1>18. /\ order \in [DOMAIN b -> Threads]
         /\ \A k, l \in DOMAIN b : k # l => order[k] # order[l]
         /\ \A k \in DOMAIN b : b[k] = rx[order[k]] /\ rx'[order[k]] = <<>>
    BY <1>5, <1>6, <1>7, <1>8, <1>14
  <1>19. \A t \in Threads : rx'[t] = rx[t] \/ rx'[t] = <<>>
    BY <1>14
  <1> QED
    BY <1>3, <1>10, <1>11, <1>12, <1>16, <1>17, <1>18, <1>19

-----------------------------------------------------------------------------
(* The steps, by what they do to the calls.                                *)

\* Within a call nothing moves but the work it does.
Within ==
    \E f, g \in Frames : /\ frames = <<f>> /\ Filled(f.batch) /\ frames' = <<g>>
                         /\ g.batch = f.batch /\ f.step # "next" /\ g.step # "next"
                         /\ UNCHANGED <<calls, rx, ran>>
\* A call that is begun and answered in one step.
AtOnce ==
    \E f \in Frames : /\ frames = <<f>> /\ Filled(f.batch) /\ f.step = "next" /\ Onward
                      /\ ran' = Append(ran, Call) /\ UNCHANGED rx
                      /\ CallsStay /\ NoneIsCut
\* A call that begins with a thread to open.
Opens ==
    \E f, g \in Frames : /\ frames = <<f>> /\ Filled(f.batch) /\ f.step = "next"
                         /\ frames' = <<g>> /\ g.batch = f.batch /\ g.step = "record"
                         /\ ran' = Append(ran, Call) /\ UNCHANGED <<rx, calls>>
\* The end of a task's call.
Ends ==
    \E f \in Frames : /\ frames = <<f>> /\ Filled(f.batch) /\ f.step # "next" /\ Onward
                      /\ CallsStay /\ NoneIsCut /\ UNCHANGED <<rx, ran>>
\* An adapter goes with its bridge.
Loses ==
    \E t \in Threads : /\ rx' = [rx EXCEPT ![t] = <<>>] /\ calls' = Disconnected(Range(rx[t]))
                       /\ UNCHANGED <<frames, ran>>
Untouched == CallsStay /\ NoneIsCut /\ UNCHANGED <<rx, frames, ran>>

LEMMA FrameIs ==
    ASSUME Shapes, frames # <<>>
    PROVE  \E f \in Frames : /\ frames = <<f>> /\ Filled(f.batch) /\ Top = f
                             /\ f.step # "next" => f.target \in Threads
  <1>1. PICK f \in Frames : /\ frames = <<f>> /\ Filled(f.batch)
                            /\ f.step # "next" => f.target \in Threads
    BY DEF Shapes, OneFrame
  <1>2. Top = f
    BY <1>1, TheFrame
  <1> QED
    BY <1>1, <1>2

\* The steps of a task, and what each does to the frame.
Becomes(step, next) ==
    /\ At(step) /\ frames' # <<>> /\ Top'.step = next
    /\ Top.target \in Threads /\ Top'.target = Top.target
    /\ Call \in Calls /\ Call' = Call

LEMMA WithinFrames ==
    ASSUME Shapes, NEW step \in Steps \ {"next"}, NEW next \in Steps \ {"next"}, At(step),
           NEW g \in Frames, g.batch = Top.batch, g.step = next, g.target = Top.target,
           Set(g), UNCHANGED <<calls, rx, ran>>, Stores'
    PROVE  Within /\ Shapes' /\ Becomes(step, next) /\ Top' = g
  <1>1. PICK f \in Frames : /\ frames = <<f>> /\ Filled(f.batch) /\ f.step = step /\ Top = f
                            /\ f.target \in Threads
    BY FrameIs DEF At
  <1>2. frames' = <<g>> /\ OneFrame' /\ Top' = g /\ Call' = Call /\ frames' # <<>>
    BY <1>1, StepWithin
  <1>3. CallsStay
    BY ShapesParts, CallsSame
  <1>4. Call \in Calls
    BY <1>1, CallOf
  <1> QED
    BY <1>1, <1>2, <1>3, <1>4, ShapesStay DEF Within, Becomes

LEMMA RecordOf ==
    ASSUME Shapes, Record
    PROVE  /\ Within /\ Shapes' /\ Becomes("record", "deliver")
           /\ rows' = [rows EXCEPT ![Call] = "recorded"]
           /\ UNCHANGED <<thread, turn, queue>>
  <1> DEFINE g == [Top EXCEPT !.step = "deliver"]
  <1>1. At("record") /\ Set(g) /\ UNCHANGED <<calls, rx, ran>>
    BY DEF Record
  <1>2. g \in Frames /\ g.batch = Top.batch /\ g.step = "deliver" /\ g.target = Top.target
    <2>1. Top \in Frames
      BY <1>1, FrameIs DEF At
    <2> QED
      BY <2>1 DEF Frames, Steps
  <1>3. Stores'
    BY ShapesParts DEF Stores, Record, RowStates
  <1> HIDE DEF g
  <1> QED
    BY <1>1, <1>2, <1>3, WithinFrames DEF Steps, Record

LEMMA QueueOf ==
    ASSUME Shapes, Queue
    PROVE  /\ Within /\ Shapes' /\ Becomes("deliver", "settle") /\ Top'.dispatched
           /\ queue' = [queue EXCEPT ![Top.target] = Append(queue[Top.target], Call)]
           /\ Busy(Top.target) /\ UNCHANGED <<thread, turn, rows>>
  <1> DEFINE g == [Top EXCEPT !.step = "settle", !.dispatched = TRUE]
  <1>1. /\ At("deliver") /\ Set(g) /\ UNCHANGED <<calls, rx, ran>>
        /\ queue' = [queue EXCEPT ![Top.target] = Append(queue[Top.target], Call)]
    BY DEF Queue
  <1>2. /\ g \in Frames /\ g.batch = Top.batch /\ g.step = "settle" /\ g.target = Top.target
        /\ g.dispatched
    <2>1. Top \in Frames
      BY <1>1, FrameIs DEF At
    <2> QED
      BY <2>1 DEF Frames, Steps
  <1>3. Top.target \in Threads /\ Call \in Calls
    BY <1>1, FrameIs, CallOf DEF At
  <1>4. Stores'
    <2>1. queue' \in [Threads -> Seq(Calls)]
      <3>1. Append(queue[Top.target], Call) \in Seq(Calls)
        BY <1>3, ShapesParts, AppendProperties DEF Stores
      <3> QED
        BY <1>1, <3>1, ShapesParts DEF Stores
    <2> QED
      BY <2>1, ShapesParts DEF Stores, Queue
  <1> HIDE DEF g
  <1> QED
    BY <1>1, <1>2, <1>4, WithinFrames DEF Steps, Queue

LEMMA SendOf ==
    ASSUME Shapes, Send
    PROVE  /\ Within /\ Shapes' /\ Becomes("deliver", "pump")
           /\ turn' = [turn EXCEPT ![Top.target] = Call] /\ UNCHANGED <<thread, queue, rows>>
  <1> DEFINE g == [Top EXCEPT !.step = "pump"]
  <1>1. At("deliver") /\ Set(g) /\ UNCHANGED <<calls, rx, ran>>
    BY DEF Send
  <1>2. /\ g \in Frames /\ g.batch = Top.batch /\ g.step = "pump" /\ g.target = Top.target
    <2>1. Top \in Frames
      BY <1>1, FrameIs DEF At
    <2> QED
      BY <2>1 DEF Frames, Steps
  <1>3. Top.target \in Threads /\ Call \in Calls
    BY <1>1, FrameIs, CallOf DEF At
  <1>4. Stores'
    BY <1>3, ShapesParts DEF Stores, Send, Begun
  <1> HIDE DEF g
  <1> QED
    BY <1>1, <1>2, <1>4, WithinFrames DEF Steps, Send, Begun

LEMMA SendFailsOf ==
    ASSUME Shapes, SendFails
    PROVE  /\ Within /\ Shapes' /\ Becomes("deliver", "settle") /\ ~Top'.dispatched
           /\ UNCHANGED <<thread, turn, queue, rows>>
  <1> DEFINE g == [Top EXCEPT !.step = "settle", !.dispatched = FALSE]
  <1>1. At("deliver") /\ Set(g) /\ UNCHANGED <<calls, rx, ran>>
    BY DEF SendFails
  <1>2. /\ g \in Frames /\ g.batch = Top.batch /\ g.step = "settle" /\ g.target = Top.target
        /\ ~g.dispatched
    <2>1. Top \in Frames
      BY <1>1, FrameIs DEF At
    <2> QED
      BY <2>1 DEF Frames, Steps
  <1>3. Top.target \in Threads /\ Call \in Calls
    BY <1>1, FrameIs, CallOf DEF At
  <1>4. Stores'
    BY <1>3, ShapesParts DEF Stores, SendFails
  <1> HIDE DEF g
  <1> QED
    BY <1>1, <1>2, <1>4, WithinFrames DEF Steps, SendFails

LEMMA AttachOf ==
    ASSUME Shapes, Attach
    PROVE  /\ Within /\ Shapes' /\ Becomes("deliver", "attach")
           /\ UNCHANGED <<thread, turn, queue, rows>>
  <1> DEFINE g == [Top EXCEPT !.step = "attach"]
  <1>1. At("deliver") /\ Set(g) /\ UNCHANGED <<calls, rx, ran>>
    BY DEF Attach
  <1>2. /\ g \in Frames /\ g.batch = Top.batch /\ g.step = "attach" /\ g.target = Top.target
    <2>1. Top \in Frames
      BY <1>1, FrameIs DEF At
    <2> QED
      BY <2>1 DEF Frames, Steps
  <1>3. Top.target \in Threads /\ Call \in Calls
    BY <1>1, FrameIs, CallOf DEF At
  <1>4. Stores'
    BY <1>3, ShapesParts, BridgesGrow DEF Stores, Attach 
  <1> HIDE DEF g
  <1> QED
    BY <1>1, <1>2, <1>4, WithinFrames DEF Steps, Attach

LEMMA AttachedOf ==
    ASSUME Shapes, Attached
    PROVE  /\ Within /\ Shapes' /\ Becomes("attach", "pump")
           /\ turn' = [turn EXCEPT ![Top.target] = Call] /\ UNCHANGED <<thread, queue, rows>>
  <1> DEFINE g == [Top EXCEPT !.step = "pump"]
  <1>1. At("attach") /\ Set(g) /\ UNCHANGED <<calls, rx, ran>>
    BY DEF Attached
  <1>2. /\ g \in Frames /\ g.batch = Top.batch /\ g.step = "pump" /\ g.target = Top.target
    <2>1. Top \in Frames
      BY <1>1, FrameIs DEF At
    <2> QED
      BY <2>1 DEF Frames, Steps
  <1>3. Top.target \in Threads /\ Call \in Calls
    BY <1>1, FrameIs, CallOf DEF At
  <1>4. Stores'
    BY <1>3, ShapesParts DEF Stores, Attached, Begun
  <1> HIDE DEF g
  <1> QED
    BY <1>1, <1>2, <1>4, WithinFrames DEF Steps, Attached, Begun

LEMMA AttachFailsOf ==
    ASSUME Shapes, AttachFails
    PROVE  /\ Within /\ Shapes' /\ Becomes("attach", "settle") /\ ~Top'.dispatched
           /\ UNCHANGED <<thread, turn, queue, rows>>
  <1> DEFINE g == [Top EXCEPT !.step = "settle", !.dispatched = FALSE]
  <1>1. At("attach") /\ Set(g) /\ UNCHANGED <<calls, rx, ran>>
    BY DEF AttachFails
  <1>2. /\ g \in Frames /\ g.batch = Top.batch /\ g.step = "settle" /\ g.target = Top.target
        /\ ~g.dispatched
    <2>1. Top \in Frames
      BY <1>1, FrameIs DEF At
    <2> QED
      BY <2>1 DEF Frames, Steps
  <1>3. Top.target \in Threads /\ Call \in Calls
    BY <1>1, FrameIs, CallOf DEF At
  <1>4. Stores'
    BY <1>3, ShapesParts DEF Stores, AttachFails
  <1> HIDE DEF g
  <1> QED
    BY <1>1, <1>2, <1>4, WithinFrames DEF Steps, AttachFails

LEMMA PumpedOf ==
    ASSUME Shapes, Pumped
    PROVE  /\ Within /\ Shapes' /\ Becomes("pump", "settle") /\ Top'.dispatched
           /\ UNCHANGED <<thread, turn, queue, rows>>
  <1> DEFINE g == [Top EXCEPT !.step = "settle", !.dispatched = TRUE]
  <1>1. At("pump") /\ Set(g) /\ UNCHANGED <<calls, rx, ran>>
    BY DEF Pumped
  <1>2. /\ g \in Frames /\ g.batch = Top.batch /\ g.step = "settle" /\ g.target = Top.target
        /\ g.dispatched
    <2>1. Top \in Frames
      BY <1>1, FrameIs DEF At
    <2> QED
      BY <2>1 DEF Frames, Steps
  <1>3. Top.target \in Threads /\ Call \in Calls
    BY <1>1, FrameIs, CallOf DEF At
  <1>4. Stores'
    BY <1>3, ShapesParts DEF Stores, Pumped
  <1> HIDE DEF g
  <1> QED
    BY <1>1, <1>2, <1>4, WithinFrames DEF Steps, Pumped

\* A call that is begun.
LEMMA BeginsOf ==
    ASSUME Shapes, Begins
    PROVE  /\ \E f \in Frames : frames = <<f>> /\ Filled(f.batch) /\ f.step = "next" /\ Top = f
           /\ ran' = Append(ran, Call) /\ Call \in Calls /\ ran' \in Seq(Calls)
           /\ Range(ran') = Range(ran) \cup {Call}
  <1>1. At("next") /\ ran' = Append(ran, Call)
    BY DEF Begins
  <1>2. PICK f \in Frames : frames = <<f>> /\ Filled(f.batch) /\ Top = f
    BY <1>1, FrameIs DEF At
  <1>3. f.step = "next"
    BY <1>1, <1>2 DEF At
  <1>4. Call \in Calls
    BY <1>2, CallOf
  <1>5. ran \in Seq(Calls)
    BY DEF Shapes
  <1> QED
    BY <1>1, <1>2, <1>3, <1>4, <1>5, RangeOfAppend

LEMMA AtOnceOf ==
    ASSUME Shapes, Begins, Answered,
           UNCHANGED <<chips, session, bridges, rx, turn, queue, rows>>,
           thread' \in [Threads -> ThreadStates]
    PROVE  AtOnce /\ Shapes' /\ (frames' # <<>> => Top'.step = "next")
  <1>1. PICK f \in Frames : frames = <<f>> /\ Filled(f.batch) /\ f.step = "next"
    BY BeginsOf
  <1>2. Onward
    BY DEF Answered
  <1>3. CallsStay /\ NoneIsCut
    BY ShapesParts, AnsweredStay
  <1>4. OneFrame' /\ (frames' # <<>> => Top'.step = "next")
    BY <1>1, <1>2, StepOnward
  <1>5. Stores'
    BY BeginsOf, ShapesParts DEF Stores
  <1>6. AtOnce
    BY <1>1, <1>2, <1>3, BeginsOf DEF AtOnce
  <1> QED
    BY <1>3, <1>4, <1>5, <1>6, ShapesStay

LEMMA AnswerOnlyOf ==
    ASSUME Shapes, AnswerOnly
    PROVE  /\ AtOnce /\ Shapes' /\ Begins /\ (frames' # <<>> => Top'.step = "next")
           /\ UNCHANGED <<thread, turn, queue, rows>>
  <1>1. thread' \in [Threads -> ThreadStates]
    BY ShapesParts DEF Stores, AnswerOnly
  <1> QED
    BY <1>1, AtOnceOf DEF AnswerOnly

LEMMA FoldThreadOf ==
    ASSUME Shapes, FoldThread
    PROVE  /\ AtOnce /\ Shapes' /\ Begins /\ (frames' # <<>> => Top'.step = "next")
           /\ UNCHANGED <<turn, queue, rows>>
           /\ \/ thread' = thread
              \/ \E t : thread[t] = "active" /\ thread' = [thread EXCEPT ![t] = "folded"]
  <1>1. thread' \in [Threads -> ThreadStates]
    BY ShapesParts DEF Stores, FoldThread, ThreadStates
  <1>2. \/ thread' = thread
        \/ \E t : thread[t] = "active" /\ thread' = [thread EXCEPT ![t] = "folded"]
    BY DEF FoldThread
  <1> QED
    BY <1>1, <1>2, AtOnceOf DEF FoldThread

LEMMA OpenFailsOf ==
    ASSUME Shapes, OpenFails
    PROVE  /\ AtOnce /\ Shapes' /\ Begins /\ (frames' # <<>> => Top'.step = "next")
           /\ UNCHANGED <<thread, turn, queue, rows>>
  <1>1. thread' \in [Threads -> ThreadStates]
    BY ShapesParts DEF Stores, OpenFails
  <1> QED
    BY <1>1, AtOnceOf DEF OpenFails

LEMMA DraftBotOf ==
    ASSUME Shapes, DraftBot
    PROVE  /\ AtOnce /\ Shapes' /\ Begins /\ (frames' # <<>> => Top'.step = "next")
           /\ UNCHANGED <<thread, turn, queue, rows>>
  <1>1. thread' \in [Threads -> ThreadStates]
    BY ShapesParts DEF Stores, DraftBot
  <1> QED
    BY <1>1, AtOnceOf DEF DraftBot

\* A thread opened for a task: nothing of it is done yet.
LEMMA OpenOf ==
    ASSUME Shapes, Open, Call \in DOMAIN calls
    PROVE  /\ Opens /\ Shapes' /\ Begins /\ Call' = Call
           /\ UNCHANGED <<turn, queue, rows>>
           /\ calls[Call].kind \in {"spawn", "handoff"}
           /\ calls[Call].kind = "handoff" => calls[Call].to \in Bots
           /\ frames' # <<>> /\ Top'.step = "record"
           /\ \E t \in Target \cap Threads : thread' = Opened(t) /\ Top'.target = t
  <1>1. PICK f \in Frames : frames = <<f>> /\ Filled(f.batch) /\ f.step = "next" /\ Top = f
    BY BeginsOf DEF Open
  <1>2. PICK t \in Target :
           thread' = Opened(t) /\ Set([Top EXCEPT !.step = "record", !.target = t])
    BY DEF Open
  <1>3. calls[Call].kind \in {"spawn", "handoff"}
    BY DEF Open
  <1>4. t \in Threads
    BY <1>3, TargetTyped
  <1> DEFINE g == [f EXCEPT !.step = "record", !.target = t]
  <1>5. g \in Frames /\ g.batch = f.batch /\ g.step = "record" /\ g.target = t
    BY <1>4 DEF Frames, Steps
  <1>6. Set(g)
    BY <1>1, <1>2
  <1> HIDE DEF g
  <1>7. frames' = <<g>> /\ OneFrame' /\ Top' = g /\ Call' = Call /\ frames' # <<>>
    BY <1>1, <1>4, <1>5, <1>6, StepWithin
  <1>8. Stores'
    <2>1. Opened(t) \in [Threads -> ThreadStates]
      BY ShapesParts DEF Stores, Opened, ThreadStates
    <2> QED
      BY <1>2, <2>1, BeginsOf, ShapesParts DEF Stores, Open
  <1>9. CallsStay
    BY ShapesParts, CallsSame DEF Open
  <1>10. Opens
    BY <1>1, <1>5, <1>7, BeginsOf DEF Opens, Open
  <1>11. calls[Call].kind = "handoff" => calls[Call].to \in Bots
    BY DEF Shapes
  <1> QED
    BY <1>2, <1>3, <1>4, <1>5, <1>7, <1>8, <1>9, <1>10, <1>11, ShapesParts, ShapesStay DEF Open

LEMMA SettleOf ==
    ASSUME Shapes, Settle
    PROVE  /\ Ends /\ Shapes' /\ At("settle") /\ (frames' # <<>> => Top'.step = "next")
           /\ Call \in Calls /\ UNCHANGED <<thread, turn, queue>>
           /\ rows' = [rows EXCEPT ![Call] = IF Top.dispatched THEN "dispatched" ELSE "failed"]
  <1>1. At("settle") /\ Answered /\ Onward
    BY DEF Settle, Answered
  <1>2. PICK f \in Frames : frames = <<f>> /\ Filled(f.batch) /\ Top = f
    BY <1>1, FrameIs DEF At
  <1>3. f.step = "settle" /\ Call \in Calls
    BY <1>1, <1>2, CallOf DEF At
  <1>4. CallsStay /\ NoneIsCut
    BY <1>1, ShapesParts, AnsweredStay
  <1>5. OneFrame' /\ (frames' # <<>> => Top'.step = "next")
    BY <1>1, <1>2, StepOnward
  <1>6. Stores'
    BY ShapesParts DEF Stores, Settle, RowStates
  <1>7. Ends
    BY <1>1, <1>2, <1>3, <1>4 DEF Ends, Settle
  <1> QED
    BY <1>1, <1>3, <1>4, <1>5, <1>6, <1>7, ShapesParts, ShapesStay DEF Settle

LEMMA ResurfacedState ==
    ASSUME Stores, NEW t \in Threads
    PROVE  Resurfaced(t) \in ThreadStates
  BY DEF Stores, Resurfaced, ThreadStates

\* What has gone with the adapter of a thread.
LEMMA ClearedOf ==
    ASSUME Shapes, NEW t \in Threads, Cleared(t), UNCHANGED <<chips, rows, frames, ran>>,
           thread' \in [Threads -> ThreadStates]
    PROVE  Loses /\ Shapes'
  <1>1. /\ session' \subseteq Threads /\ bridges' \subseteq Threads /\ IsFiniteSet(bridges')
        /\ rx' \in [Threads -> Seq(Calls)] /\ turn' \in [Threads -> Calls \cup {None, User}]
        /\ queue' \in [Threads -> Seq(Calls)] /\ CallsStay
        /\ rx' = [rx EXCEPT ![t] = <<>>] /\ calls' = Disconnected(Range(rx[t]))
    BY ShapesParts, ClearedStores
  <1>2. Stores'
    BY <1>1, ShapesParts DEF Stores
  <1>3. OneFrame'
    BY ShapesParts, FramesSame
  <1>4. Loses
    BY <1>1 DEF Loses
  <1> QED
    BY <1>1, <1>2, <1>3, <1>4, ShapesStay

LEMMA TurnEndsOf ==
    ASSUME Shapes, NEW t \in Threads, TurnEnds(t)
    PROVE  /\ Loses \/ Untouched
           /\ Shapes' /\ UNCHANGED rows /\ turn[t] # None
           /\ \A u \in Threads : u # t =>
                 turn'[u] = turn[u] /\ queue'[u] = queue[u] /\ thread'[u] = thread[u]
           /\ thread'[t] = Resurfaced(t)
           /\ \/ turn'[t] = None /\ queue'[t] = <<>>
              \/ queue[t] # <<>> /\ turn'[t] = Head(queue[t]) /\ queue'[t] = Tail(queue[t])
           /\ UNCHANGED frames
  <1>1. /\ Stores /\ OneFrame' /\ thread' = [thread EXCEPT ![t] = Resurfaced(t)]
        /\ UNCHANGED <<chips, rows, frames, ran>> /\ turn[t] # None
    BY ShapesParts, FramesSame DEF TurnEnds
  <1>2. thread' \in [Threads -> ThreadStates] /\ thread'[t] = Resurfaced(t)
    BY <1>1, ResurfacedState DEF Stores
  <1>3. CASE queue[t] = <<>>
    <2>1. turn' = [turn EXCEPT ![t] = None] /\ UNCHANGED <<session, bridges, rx, queue, calls>>
      BY <1>3 DEF TurnEnds
    <2>2. Stores'
      BY <1>1, <1>2, <2>1 DEF Stores
    <2>3. CallsStay /\ NoneIsCut
      BY <2>1, ShapesParts, CallsSame
    <2>4. Shapes' /\ Untouched
      BY <1>1, <2>1, <2>2, <2>3, ShapesStay DEF Untouched
    <2> QED
      BY <1>1, <1>2, <1>3, <2>1, <2>4 DEF Stores
  <1>4. CASE queue[t] # <<>> /\ Cleared(t)
    <2>1. turn' = [turn EXCEPT ![t] = None] /\ queue' = [queue EXCEPT ![t] = <<>>]
      BY <1>4 DEF Cleared
    <2>2. Loses /\ Shapes'
      BY <1>1, <1>2, <1>4, ClearedOf
    <2> QED
      BY <1>1, <1>2, <2>1, <2>2 DEF Stores
  <1>5. CASE /\ queue[t] # <<>> /\ Begun(t, Head(queue[t]))
             /\ queue' = [queue EXCEPT ![t] = Tail(queue[t])]
             /\ UNCHANGED <<session, bridges, rx, calls>>
    <2>1. turn' = [turn EXCEPT ![t] = Head(queue[t])]
      BY <1>5 DEF Begun
    <2>2. Head(queue[t]) \in Calls /\ Tail(queue[t]) \in Seq(Calls)
      BY <1>1, <1>5, TailOf DEF Stores
    <2>3. Stores'
      BY <1>1, <1>2, <1>5, <2>1, <2>2 DEF Stores
    <2>4. CallsStay /\ NoneIsCut
      BY <1>5, ShapesParts, CallsSame
    <2>5. Shapes' /\ Untouched
      BY <1>1, <1>5, <2>3, <2>4, ShapesStay DEF Untouched
    <2> QED
      BY <1>1, <1>2, <1>5, <2>1, <2>5 DEF Stores
  <1> QED
    BY <1>3, <1>4, <1>5 DEF TurnEnds

\* A thread's work is closed out, and the row left in some state.
Closes(t, state) ==
    /\ turn'[t] = None /\ queue'[t] = <<>> /\ thread'[t] = state
    /\ \A u \in Threads : u # t =>
          turn'[u] = turn[u] /\ queue'[u] = queue[u] /\ thread'[u] = thread[u]
    /\ UNCHANGED <<rows, frames>>

LEMMA ClosesOf ==
    ASSUME Shapes, NEW t \in Threads, NEW state \in ThreadStates,
           thread' = [thread EXCEPT ![t] = state], Cleared(t), UNCHANGED <<chips, rows, frames, ran>>
    PROVE  Loses /\ Shapes' /\ Closes(t, state)
  <1>1. Stores
    BY ShapesParts
  <1>2. thread' \in [Threads -> ThreadStates]
    BY <1>1 DEF Stores
  <1>3. Loses /\ Shapes'
    BY <1>2, ClearedOf
  <1>4. turn' = [turn EXCEPT ![t] = None] /\ queue' = [queue EXCEPT ![t] = <<>>]
    BY DEF Cleared
  <1> QED
    BY <1>1, <1>3, <1>4 DEF Closes, Stores

LEMMA AdapterGoneOf ==
    ASSUME Shapes, NEW t \in Threads, AdapterGone(t)
    PROVE  /\ Loses /\ Shapes'
           /\ Closes(t, IF turn[t] # None THEN Resurfaced(t) ELSE thread[t])
  <1> DEFINE state == IF turn[t] # None THEN Resurfaced(t) ELSE thread[t]
  <1>1. state \in ThreadStates
    BY ShapesParts, ResurfacedState DEF Stores
  <1>2. thread' = [thread EXCEPT ![t] = state] /\ Cleared(t) /\ UNCHANGED <<chips, rows, frames, ran>>
    BY DEF AdapterGone
  <1> HIDE DEF state
  <1>3. Loses /\ Shapes' /\ Closes(t, state)
    BY <1>1, <1>2, ClosesOf
  <1> QED
    BY <1>3 DEF state

LEMMA ArchiveOf ==
    ASSUME Shapes, NEW t \in Threads, Archive(t)
    PROVE  Loses /\ Shapes' /\ Closes(t, "archived")
  BY ClosesOf DEF Archive, ThreadStates

LEMMA DeleteOf ==
    ASSUME Shapes, NEW t \in Threads, Delete(t)
    PROVE  Loses /\ Shapes' /\ Closes(t, "deleted")
  BY ClosesOf DEF Delete, ThreadStates

\* The user's prompt opens the standing thread it is for, or leaves the thread be.
LEMMA UserPromptsOf ==
    ASSUME Shapes, NEW t \in Threads, UserPrompts(t)
    PROVE  /\ Untouched /\ Shapes' /\ turn' = [turn EXCEPT ![t] = User]
           /\ \/ t \in UNION {Standing(b) : b \in Bots} /\ thread' = Opened(t)
              \/ UNCHANGED thread
           /\ UNCHANGED <<rows, queue, frames>> /\ frames = <<>>
  <1>1. Stores /\ OneFrame' /\ CallsStay /\ NoneIsCut
    BY ShapesParts, FramesSame, CallsSame DEF UserPrompts
  <1>2. /\ turn' = [turn EXCEPT ![t] = User]
        /\ bridges' = IF t \in session THEN bridges ELSE WithBridge(t)
        /\ session' = session \cup {t} /\ frames = <<>>
        /\ \/ t \in UNION {Standing(b) : b \in Bots} /\ thread' = Opened(t)
           \/ UNCHANGED thread
        /\ UNCHANGED <<chips, rx, queue, calls, rows, frames, crashes, ran>>
    BY DEF UserPrompts, Begun, Moves, Idle
  <1>3. thread' \in [Threads -> ThreadStates]
    BY <1>1, <1>2 DEF Stores, Opened, ThreadStates
  <1>4. bridges' \subseteq Threads /\ IsFiniteSet(bridges')
    BY <1>1, <1>2, BridgesGrow DEF Stores
  <1>5. turn' \in [Threads -> Calls \cup {None, User}]
    BY <1>1, <1>2 DEF Stores
  <1>6. Stores'
    BY <1>1, <1>2, <1>3, <1>4, <1>5 DEF Stores
  <1> QED
    BY <1>1, <1>2, <1>6, ShapesStay DEF Untouched

\* What touches nothing of a task.
Elsewhere == UNCHANGED <<thread, turn, queue, rows, frames>>

LEMMA EditOf ==
    ASSUME Shapes, NEW b \in Bots, Edit(b)
    PROVE  Untouched /\ Shapes' /\ Elsewhere
  <1>1. Stores /\ OneFrame' /\ CallsStay /\ NoneIsCut
    BY ShapesParts, FramesSame, CallsSame DEF Edit
  <1>2. Stores'
    BY <1>1 DEF Stores, Edit
  <1> QED
    BY <1>1, <1>2, ShapesStay DEF Untouched, Elsewhere, Edit

LEMMA GiveUpOf ==
    ASSUME Shapes, NEW c \in Calls, GiveUp(c)
    PROVE  Untouched /\ Shapes' /\ Elsewhere
  <1>1. Stores /\ OneFrame' /\ CallsStay /\ NoneIsCut
    BY ShapesParts, FramesSame, GaveUpStay DEF GiveUp
  <1>2. Stores'
    BY <1>1 DEF Stores, GiveUp
  <1> QED
    BY <1>1, <1>2, ShapesStay DEF Untouched, Elsewhere, GiveUp

\* The windows touch nothing of a task either.
LEMMA StutterOf ==
    ASSUME Shapes, UNCHANGED <<chips, thread, session, bridges, rx, turn, queue, calls, rows,
                               frames, ran>>
    PROVE  Untouched /\ Shapes' /\ Elsewhere
  <1>1. Stores /\ OneFrame' /\ CallsStay /\ NoneIsCut
    BY ShapesParts, FramesSame, CallsSame
  <1>2. Stores'
    BY <1>1 DEF Stores
  <1> QED
    BY <1>1, <1>2, ShapesStay DEF Untouched, Elsewhere

LEMMA RelaunchOf ==
    ASSUME Shapes, Relaunch
    PROVE  /\ Shapes' /\ CallsStay /\ calls' = Disconnected(DOMAIN calls)
           /\ frames' = <<>> /\ UNCHANGED <<rows, ran>>
           /\ \A t \in Threads :
                 /\ rx'[t] = <<>> /\ queue'[t] = <<>> /\ turn'[t] = None
                 /\ thread'[t] \in {thread[t], Resurfaced(t)}
  <1>1. Stores /\ calls \in Seq(CallRows)
    BY ShapesParts
  <1>2. /\ calls' = Disconnected(DOMAIN calls)
        /\ thread' = [t \in Threads |-> IF turn[t] # None THEN Resurfaced(t) ELSE thread[t]]
        /\ session' = {} /\ bridges' = {} /\ frames' = <<>>
        /\ rx' = [t \in Threads |-> <<>>] /\ queue' = [t \in Threads |-> <<>>]
        /\ turn' = [t \in Threads |-> None]
        /\ UNCHANGED <<chips, rows, moves, ran>>
    BY DEF Relaunch
  <1>3. CallsStay
    BY <1>1, <1>2, DisconnectedStay
  <1>4. OneFrame'
    BY <1>2 DEF OneFrame
  <1>5. \A t \in Threads : /\ rx'[t] = <<>> /\ queue'[t] = <<>> /\ turn'[t] = None
                           /\ thread'[t] \in {thread[t], Resurfaced(t)}
    BY <1>2
  <1>6. Stores'
    <2>1. <<>> \in Seq(Calls) /\ IsFiniteSet({})
      BY EmptySeq, FS_EmptySet
    <2>2. rx' \in [Threads -> Seq(Calls)] /\ queue' \in [Threads -> Seq(Calls)]
      BY <1>2, <2>1
    <2>3. thread' \in [Threads -> ThreadStates]
      BY <1>1, <1>2, ResurfacedState DEF Stores
    <2>4. turn' \in [Threads -> Calls \cup {None, User}]
      BY <1>2
    <2>5. IsFiniteSet(bridges')
      BY <1>2, <2>1
    <2> QED
      BY <1>1, <1>2, <2>2, <2>3, <2>4, <2>5 DEF Stores
  <1> QED
    BY <1>2, <1>3, <1>4, <1>5, <1>6, ShapesStay

-----------------------------------------------------------------------------
(* The order of the calls is kept.                                         *)

\* What a call is about never changes.
LEMMA ByStays ==
    ASSUME CallsStay, NEW c \in DOMAIN calls
    PROVE  calls'[c].by = calls[c].by /\ c \in DOMAIN calls'
  BY DEF CallsStay

\* Who asked is a thread.
LEMMA ByTyped ==
    ASSUME Shapes, NEW c \in DOMAIN calls
    PROVE  calls[c].by \in Threads
  BY ShapesParts, CallRow

LEMMA LineThins ==
    ASSUME Shapes, Line, CallsStay, UNCHANGED ran,
           \A t \in Threads : rx'[t] = rx[t] \/ rx'[t] = <<>>,
           InHand' = InHand \/ InHand' = <<>>,
           \A c \in DOMAIN calls : calls'[c].state = "cut" =>
               \/ calls[c].state = "cut"
               \/ /\ c \notin Range(ran)
                  /\ \A t \in Threads : c \notin Range(rx'[t])
                  /\ \A k \in DOMAIN InHand' : c \notin Range(InHand'[k]),
           Latest'
    PROVE  Line'
  <1>1. \A t \in Threads : /\ Range(rx'[t]) \subseteq Range(rx[t])
                           /\ Ascending(rx[t]) => Ascending(rx'[t])
    BY RangeOfEmpty
  <1>2. /\ DOMAIN InHand' \subseteq DOMAIN InHand
        /\ \A k \in DOMAIN InHand' : InHand'[k] = InHand[k]
    <2>1. CASE InHand' = InHand
      BY <2>1
    <2>2. CASE InHand' = <<>>
      BY <2>2
    <2> QED
      BY <2>1, <2>2
  <1>3. \A c \in DOMAIN calls : c \in DOMAIN calls' /\ calls'[c].by = calls[c].by /\ calls[c].by \in Threads
    BY ByStays, ByTyped
  <1>4. AtBridges'
    <2> SUFFICES ASSUME NEW t \in Threads
                 PROVE  /\ Ascending(rx'[t])
                        /\ \A c \in Range(rx'[t]) : /\ c \in DOMAIN calls' /\ calls'[c].state # "cut"
                                                    /\ calls'[c].by = t
      BY DEF AtBridges, Due
    <2>1. Ascending(rx[t]) /\ \A c \in Range(rx[t]) :
              c \in DOMAIN calls /\ calls[c].state # "cut" /\ calls[c].by = t
      BY DEF Line, AtBridges, Due
    <2> QED
      BY <1>1, <1>3, <2>1
  <1>5. InHands'
    <2> SUFFICES ASSUME NEW k \in DOMAIN InHand'
                 PROVE  /\ Ascending(InHand'[k])
                        /\ \A c \in Range(InHand'[k]) : c \in DOMAIN calls' /\ calls'[c].state # "cut"
                        /\ \A c, d \in Range(InHand'[k]) : calls'[c].by = calls'[d].by
      BY DEF InHands, Due
    <2>1. /\ Ascending(InHand[k])
          /\ \A c \in Range(InHand[k]) : c \in DOMAIN calls /\ calls[c].state # "cut"
          /\ \A c, d \in Range(InHand[k]) : calls[c].by = calls[d].by
      BY <1>2 DEF Line, InHands, Due
    <2> QED
      BY <1>2, <1>3, <2>1
  <1>6. \A k \in DOMAIN InHand' : \A c \in Range(InHand'[k]) :
           k \in DOMAIN InHand /\ c \in Range(InHand[k]) /\ c \in DOMAIN calls
    BY <1>2 DEF Line, InHands, Due
  <1>7. OnePart'
    BY <1>3, <1>6 DEF Line, OnePart
  <1>8. HandsFirst'
    BY <1>1, <1>3, <1>6 DEF Line, HandsFirst
  <1>9. \A i \in DOMAIN ran : ran[i] \in DOMAIN calls /\ calls[ran[i]].state # "cut" /\ ran[i] \in Range(ran)
    BY DEF Line, Carried, Due, Range
  <1>10. Carried'
    BY <1>3, <1>9 DEF Line, Carried, Due
  <1>11. CarriedFirst'
    BY <1>1, <1>3, <1>6, <1>9 DEF Line, CarriedFirst
  <1> QED
    BY <1>4, <1>5, <1>7, <1>8, <1>10, <1>11 DEF Line

\* The next call has not been begun, and comes after all those of its session that
\* have been and before the others.
LEMMA NextCall ==
    ASSUME Shapes, Line, NEW f \in Frames, frames = <<f>>, Filled(f.batch), f.step = "next"
    PROVE  /\ InHand = f.batch /\ Call \in Range(InHand[1]) /\ 1 \in DOMAIN InHand
           /\ Call \in DOMAIN calls /\ calls[Call].state # "cut"
           /\ Call \notin Range(ran)
           /\ \A i \in DOMAIN ran : calls[ran[i]].by = calls[Call].by => ran[i] < Call
  <1>1. InHand = f.batch
    BY TheFrame DEF InHand
  <1>2. Call \in Range(InHand[1]) /\ 1 \in DOMAIN InHand
    BY <1>1, CallOf
  <1>3. Call \in DOMAIN calls /\ calls[Call].state # "cut"
    BY <1>2 DEF Line, InHands, Due
  <1>4. \A i \in DOMAIN ran : calls[ran[i]].by = calls[Call].by => ran[i] < Call
    BY <1>2 DEF Line, CarriedFirst
  <1>5. Call \notin Range(ran)
    <2> SUFFICES ASSUME NEW i \in DOMAIN ran, ran[i] = Call PROVE FALSE
      BY DEF Range
    <2>1. Call < Call
      BY <1>4
    <2>2. Call \in Nat
      BY CallOf DEF Calls
    <2> QED
      BY <2>1, <2>2
  <1> QED
    BY <1>1, <1>2, <1>3, <1>4, <1>5

LEMMA LineBegins ==
    ASSUME Shapes, Line, NEW f \in Frames, frames = <<f>>, Filled(f.batch), f.step = "next",
           ran' = Append(ran, Call), UNCHANGED rx, CallsStay, NoneIsCut,
           InHand' = Remaining(f.batch), frames' # <<>> /\ Top'.step # "next" => Call' = Call
    PROVE  Line'
  <1> DEFINE b == f.batch
             r == Remaining(f.batch)
             h == Call
  <1>1. /\ InHand = b /\ h \in Range(b[1]) /\ 1 \in DOMAIN b
        /\ h \in DOMAIN calls /\ calls[h].state # "cut"
        /\ \A i \in DOMAIN ran : calls[ran[i]].by = calls[h].by => ran[i] < h
    BY NextCall
  <1>2. h = Head(b[1]) /\ b \in Batches
    BY CallOf
  <1>3. PICK w \in [DOMAIN r -> DOMAIN b] :
           /\ \A k, l \in DOMAIN r : k # l => w[k] # w[l]
           /\ \A k \in DOMAIN r :
                 /\ Range(r[k]) \subseteq Range(b[w[k]])
                 /\ Ascending(b[w[k]]) => Ascending(r[k])
                 /\ w[k] = 1 /\ Ascending(b[1]) =>
                       \A c \in Range(r[k]) : Head(b[1]) < c
    BY <1>2, RemainingOf
  <1>4. \A c \in DOMAIN calls : /\ c \in DOMAIN calls' /\ calls'[c].by = calls[c].by
                                /\ calls[c].by \in Threads
                                /\ calls[c].state # "cut" => calls'[c].state # "cut"
    BY ByStays, ByTyped DEF NoneIsCut
  <1>5. /\ ran \in Seq(Calls) /\ h \in Calls
        /\ Len(ran) \in Nat /\ DOMAIN ran = 1..Len(ran) /\ DOMAIN ran' = 1..(Len(ran) + 1)
        /\ Len(ran') = Len(ran) + 1
        /\ \A i \in 1..Len(ran) : ran'[i] = ran[i]
        /\ ran'[Len(ran) + 1] = h
    <2>1. ran \in Seq(Calls) /\ h \in Calls
      BY CallOf DEF Shapes
    <2>2. /\ Append(ran, h) \in Seq(Calls) /\ Len(Append(ran, h)) = Len(ran) + 1
          /\ \A i \in 1..Len(ran) : Append(ran, h)[i] = ran[i]
          /\ Append(ran, h)[Len(ran) + 1] = h
      BY <2>1, AppendProperties
    <2> QED
      BY <2>1, <2>2, LenProperties
  <1>6. \A i \in DOMAIN ran' : i \in DOMAIN ran \/ i = Len(ran) + 1
    BY <1>5
  <1>7. InHand' = r
    OBVIOUS
  <1> HIDE DEF b, r, h
  <1>8. \A k \in DOMAIN b : /\ Ascending(b[k])
                            /\ \A c \in Range(b[k]) : c \in DOMAIN calls /\ calls[c].state # "cut"
                            /\ \A c, d \in Range(b[k]) : calls[c].by = calls[d].by
    BY <1>1 DEF Line, InHands, Due
  <1>9. \A k, l \in DOMAIN b : k # l =>
           \A c \in Range(b[k]), d \in Range(b[l]) : calls[c].by # calls[d].by
    BY <1>1 DEF Line, OnePart
  <1>10. \A k \in DOMAIN b : \A c \in Range(b[k]) : \A d \in Range(rx[calls[c].by]) : c < d
    BY <1>1 DEF Line, HandsFirst
  <1>11. \A k \in DOMAIN r : \A c \in Range(r[k]) : calls[c].by = calls[h].by => h < c
    BY <1>1, <1>2, <1>3, <1>8, <1>9
  <1>12. AtBridges'
    BY <1>4 DEF Line, AtBridges, Due
  <1>13. InHands'
    <2> SUFFICES ASSUME NEW k \in DOMAIN r
                 PROVE  /\ Ascending(r[k])
                        /\ \A c \in Range(r[k]) : c \in DOMAIN calls' /\ calls'[c].state # "cut"
                        /\ \A c, d \in Range(r[k]) : calls'[c].by = calls'[d].by
      BY <1>7 DEF InHands, Due
    <2> QED
      BY <1>3, <1>4, <1>8
  <1>14. OnePart'
    <2> SUFFICES ASSUME NEW k \in DOMAIN r, NEW l \in DOMAIN r, k # l,
                        NEW c \in Range(r[k]), NEW d \in Range(r[l])
                 PROVE  calls'[c].by # calls'[d].by
      BY <1>7 DEF OnePart
    <2> QED
      BY <1>3, <1>4, <1>8, <1>9
  <1>15. HandsFirst'
    <2> SUFFICES ASSUME NEW k \in DOMAIN r, NEW c \in Range(r[k]), NEW d \in Range(rx[calls'[c].by])
                 PROVE  c < d
      BY <1>7 DEF HandsFirst
    <2> QED
      BY <1>3, <1>4, <1>8, <1>10
  <1>16. Carried'
    <2>1. \A i \in DOMAIN ran' : ran'[i] \in DOMAIN calls /\ calls[ran'[i]].state # "cut"
      BY <1>1, <1>5, <1>6 DEF Line, Carried, Due
    <2>2. ASSUME NEW i \in DOMAIN ran', NEW j \in DOMAIN ran', i < j,
                 calls[ran'[i]].by = calls[ran'[j]].by
          PROVE  ran'[i] < ran'[j]
      <3>1. i \in DOMAIN ran
        BY <1>5, <2>2
      <3>2. CASE j \in DOMAIN ran
        BY <1>5, <2>2, <3>1, <3>2 DEF Line, Carried
      <3>3. CASE j = Len(ran) + 1
        BY <1>1, <1>5, <2>2, <3>1, <3>3
      <3> QED
        BY <1>6, <3>2, <3>3
    <2> QED
      BY <1>4, <2>1, <2>2 DEF Carried, Due
  <1>17. CarriedFirst'
    <2>1. \A i \in DOMAIN ran : ran[i] \in DOMAIN calls
      BY DEF Line, Carried, Due
    <2>2. ASSUME NEW i \in DOMAIN ran', NEW d \in Range(rx[calls'[ran'[i]].by])
          PROVE  ran'[i] < d
      <3>1. CASE i \in DOMAIN ran
        BY <1>4, <1>5, <2>1, <2>2, <3>1 DEF Line, CarriedFirst
      <3>2. CASE i = Len(ran) + 1
        BY <1>1, <1>4, <1>5, <1>10, <2>2, <3>2
      <3> QED
        BY <1>6, <3>1, <3>2
    <2>3. ASSUME NEW i \in DOMAIN ran', NEW k \in DOMAIN r, NEW d \in Range(r[k]),
                 calls'[d].by = calls'[ran'[i]].by
          PROVE  ran'[i] < d
      <3>1. w[k] \in DOMAIN b /\ d \in Range(b[w[k]]) /\ d \in DOMAIN calls
        BY <1>3, <1>8
      <3>2. CASE i \in DOMAIN ran
        BY <1>1, <1>4, <1>5, <2>1, <2>3, <3>1, <3>2 DEF Line, CarriedFirst
      <3>3. CASE i = Len(ran) + 1
        BY <1>1, <1>4, <1>5, <1>11, <2>3, <3>1, <3>3
      <3> QED
        BY <1>6, <3>2, <3>3
    <2> QED
      BY <1>7, <2>2, <2>3 DEF CarriedFirst
  <1>18. Latest'
    <2>1. ran' # <<>> /\ ran'[Len(ran')] = h
      BY <1>5
    <2> QED
      BY <2>1 DEF Latest, h
  <1> QED
    BY <1>12, <1>13, <1>14, <1>15, <1>16, <1>17, <1>18 DEF Line

LEMMA LineAsk ==
    ASSUME Shapes, Line, NEW t \in Threads, Ask(t)
    PROVE  Line'
  <1> DEFINE n == Len(calls) + 1
  <1>1. /\ n \in Calls /\ \A c \in DOMAIN calls : c < n
        /\ DOMAIN calls' = DOMAIN calls \cup {n} /\ n \notin DOMAIN calls
        /\ \A c \in DOMAIN calls : calls'[c] = calls[c]
        /\ calls'[n].by = t /\ calls'[n].state = "waiting"
        /\ rx' = [rx EXCEPT ![t] = Append(rx[t], n)]
        /\ UNCHANGED <<frames, ran>>
    BY AskOf
  <1> HIDE DEF n
  <1>2. rx \in [Threads -> Seq(Calls)]
    BY ShapesParts DEF Stores
  <1>3. /\ rx'[t] = Append(rx[t], n) /\ Range(rx'[t]) = Range(rx[t]) \cup {n}
        /\ \A u \in Threads : u # t => rx'[u] = rx[u]
    BY <1>1, <1>2, RangeOfAppend
  <1>4. InHand' = InHand
    BY <1>1 DEF InHand, Top
  <1>5. \A c \in DOMAIN calls : c \in DOMAIN calls' /\ calls'[c] = calls[c] /\ calls[c].by \in Threads
    BY <1>1, ByTyped
  <1>6. \A u \in Threads : \A c \in Range(rx[u]) : c \in DOMAIN calls /\ calls[c].by = u
    BY DEF Line, AtBridges, Due
  <1>7. \A k \in DOMAIN InHand : \A c \in Range(InHand[k]) : c \in DOMAIN calls
    BY DEF Line, InHands, Due
  <1>8. \A i \in DOMAIN ran : ran[i] \in DOMAIN calls
    BY DEF Line, Carried, Due
  <1>9. AtBridges'
    <2>1. Ascending(rx'[t])
      <3>1. Ascending(rx[t]) /\ \A c \in Range(rx[t]) : c < n
        BY <1>1, <1>6 DEF Line, AtBridges
      <3> QED
        BY <1>1, <1>2, <1>3, <3>1, AscendingAppend
    <2>2. \A c \in Range(rx'[t]) : c \in DOMAIN calls' /\ calls'[c].state # "cut" /\ calls'[c].by = t
      BY <1>1, <1>3, <1>5 DEF Line, AtBridges, Due
    <2>3. \A u \in Threads : u # t =>
             /\ Ascending(rx'[u])
             /\ \A c \in Range(rx'[u]) : c \in DOMAIN calls' /\ calls'[c].state # "cut" /\ calls'[c].by = u
      BY <1>3, <1>5 DEF Line, AtBridges, Due
    <2> QED
      BY <2>1, <2>2, <2>3 DEF AtBridges, Due
  <1>10. InHands'
    BY <1>4, <1>5, <1>7 DEF Line, InHands, Due
  <1>11. OnePart'
    BY <1>4, <1>5, <1>7 DEF Line, OnePart
  <1>12. HandsFirst'
    <2> SUFFICES ASSUME NEW k \in DOMAIN InHand, NEW c \in Range(InHand[k]),
                        NEW d \in Range(rx'[calls[c].by])
                 PROVE  c < d
      BY <1>4, <1>5, <1>7 DEF HandsFirst
    <2>1. c \in DOMAIN calls /\ calls[c].by \in Threads /\ c < n
      BY <1>1, <1>5, <1>7
    <2>2. d \in Range(rx[calls[c].by]) \/ d = n
      BY <1>3, <2>1
    <2> QED
      BY <2>1, <2>2 DEF Line, HandsFirst
  <1>13. Carried'
    BY <1>1, <1>5, <1>8 DEF Line, Carried, Due
  <1>14. CarriedFirst'
    <2>1. ASSUME NEW i \in DOMAIN ran, NEW d \in Range(rx'[calls[ran[i]].by])
          PROVE  ran[i] < d
      <3>1. ran[i] \in DOMAIN calls /\ calls[ran[i]].by \in Threads /\ ran[i] < n
        BY <1>1, <1>5, <1>8
      <3>2. d \in Range(rx[calls[ran[i]].by]) \/ d = n
        BY <1>3, <3>1
      <3> QED
        BY <3>1, <3>2 DEF Line, CarriedFirst
    <2>2. ASSUME NEW i \in DOMAIN ran, NEW k \in DOMAIN InHand, NEW d \in Range(InHand[k]),
                 calls[d].by = calls[ran[i]].by
          PROVE  ran[i] < d
      BY <2>2 DEF Line, CarriedFirst
    <2> QED
      BY <1>1, <1>4, <1>5, <1>7, <1>8, <2>1, <2>2 DEF CarriedFirst
  <1>15. Latest'
    BY <1>1 DEF Line, Latest, Top, Call
  <1> QED
    BY <1>9, <1>10, <1>11, <1>12, <1>13, <1>14, <1>15 DEF Line

LEMMA LineTake ==
    ASSUME Shapes, Line, TakeCalls
    PROVE  Line'
  <1>1. /\ frames' # <<>> /\ Top'.step = "next" /\ UNCHANGED <<calls, ran>>
        /\ \A t \in Threads : rx'[t] = rx[t] \/ rx'[t] = <<>>
    BY TakeOf
  <1>2. PICK w \in [DOMAIN InHand' -> Threads] :
           /\ \A k, l \in DOMAIN InHand' : k # l => w[k] # w[l]
           /\ \A k \in DOMAIN InHand' : InHand'[k] = rx[w[k]] /\ rx'[w[k]] = <<>>
    BY TakeOf
  <1>3. \A t \in Threads :
           /\ Ascending(rx[t])
           /\ \A c \in Range(rx[t]) : c \in DOMAIN calls /\ calls[c].state # "cut" /\ calls[c].by = t
    BY DEF Line, AtBridges, Due
  <1>4. AtBridges'
    BY <1>1, <1>3, RangeOfEmpty DEF AtBridges, Due
  <1>5. InHands'
    BY <1>1, <1>2, <1>3 DEF InHands, Due
  <1>6. OnePart'
    BY <1>1, <1>2, <1>3 DEF OnePart
  <1>7. HandsFirst'
    <2> SUFFICES ASSUME NEW k \in DOMAIN InHand', NEW c \in Range(InHand'[k]),
                        NEW d \in Range(rx'[calls[c].by])
                 PROVE  FALSE
      BY <1>1 DEF HandsFirst
    <2>1. calls[c].by = w[k] /\ rx'[w[k]] = <<>>
      BY <1>2, <1>3
    <2> QED
      BY <2>1, RangeOfEmpty
  <1>8. Carried'
    BY <1>1 DEF Line, Carried, Due
  <1>9. CarriedFirst'
    <2>1. \A i \in DOMAIN ran : ran[i] \in DOMAIN calls /\ calls[ran[i]].by \in Threads
      BY ByTyped DEF Line, Carried, Due
    <2>2. ASSUME NEW i \in DOMAIN ran, NEW d \in Range(rx'[calls[ran[i]].by])
          PROVE  ran[i] < d
      BY <1>1, <2>1, RangeOfEmpty DEF Line, CarriedFirst
    <2>3. ASSUME NEW i \in DOMAIN ran, NEW k \in DOMAIN InHand', NEW d \in Range(InHand'[k]),
                 calls[d].by = calls[ran[i]].by
          PROVE  ran[i] < d
      <3>1. d \in Range(rx[calls[ran[i]].by])
        BY <1>2, <1>3, <2>3
      <3> QED
        BY <3>1 DEF Line, CarriedFirst
    <2> QED
      BY <1>1, <2>2, <2>3 DEF CarriedFirst
  <1>10. Latest'
    BY <1>1 DEF Latest
  <1> QED
    BY <1>4, <1>5, <1>6, <1>7, <1>8, <1>9, <1>10 DEF Line

LEMMA LineWithin ==
    ASSUME Shapes, Line, Within
    PROVE  Line'
  <1>1. PICK f \in Frames, g \in Frames :
           /\ frames = <<f>> /\ Filled(f.batch) /\ frames' = <<g>>
           /\ g.batch = f.batch /\ f.step # "next" /\ g.step # "next"
           /\ UNCHANGED <<calls, rx, ran>>
    BY DEF Within
  <1>2. Top = f /\ frames # <<>>
    BY <1>1, TheFrame
  <1>3. Top' = g /\ frames' # <<>>
    BY <1>1 DEF Top
  <1>4. InHand' = InHand /\ Call' = Call
    BY <1>1, <1>2, <1>3 DEF InHand, Call
  <1>5. Latest'
    BY <1>1, <1>2, <1>4 DEF Line, Latest
  <1>6. CallsStay /\ NoneIsCut
    BY <1>1, ShapesParts, CallsSame
  <1> QED
    BY <1>1, <1>4, <1>5, <1>6, LineThins DEF NoneIsCut

LEMMA LineEnds ==
    ASSUME Shapes, Line, Ends
    PROVE  Line'
  <1>1. PICK f \in Frames :
           /\ frames = <<f>> /\ Filled(f.batch) /\ f.step # "next" /\ Onward
           /\ CallsStay /\ NoneIsCut /\ UNCHANGED <<rx, ran>>
    BY DEF Ends
  <1>2. InHand' = Remaining(f.batch) /\ (frames' # <<>> => Top'.step = "next")
    BY <1>1, StepOnward
  <1>3. InHand = Remaining(f.batch)
    BY <1>1, TheFrame DEF InHand
  <1>4. Latest'
    BY <1>2 DEF Latest
  <1> QED
    BY <1>1, <1>2, <1>3, <1>4, LineThins DEF NoneIsCut

LEMMA LineAtOnce ==
    ASSUME Shapes, Line, AtOnce
    PROVE  Line'
  <1>1. PICK f \in Frames :
           /\ frames = <<f>> /\ Filled(f.batch) /\ f.step = "next" /\ Onward
           /\ ran' = Append(ran, Call) /\ UNCHANGED rx /\ CallsStay /\ NoneIsCut
    BY DEF AtOnce
  <1>2. InHand' = Remaining(f.batch) /\ (frames' # <<>> => Top'.step = "next")
    BY <1>1, StepOnward
  <1> QED
    BY <1>1, <1>2, LineBegins

LEMMA LineOpens ==
    ASSUME Shapes, Line, Opens
    PROVE  Line'
  <1>1. PICK f \in Frames, g \in Frames :
           /\ frames = <<f>> /\ Filled(f.batch) /\ f.step = "next"
           /\ frames' = <<g>> /\ g.batch = f.batch /\ g.step = "record"
           /\ ran' = Append(ran, Call) /\ UNCHANGED <<rx, calls>>
    BY DEF Opens
  <1>2. Top = f
    BY <1>1, TheFrame
  <1>3. Top' = g /\ frames' # <<>>
    BY <1>1 DEF Top
  <1>4. InHand' = Remaining(f.batch) /\ Call' = Call
    BY <1>1, <1>2, <1>3 DEF InHand, Call
  <1>5. CallsStay /\ NoneIsCut
    BY <1>1, ShapesParts, CallsSame
  <1> QED
    BY <1>1, <1>4, <1>5, LineBegins

\* A lost bridge loses calls that were at it and nowhere else.
LEMMA LineLoses ==
    ASSUME Shapes, Line, Loses
    PROVE  Line'
  <1>1. PICK t \in Threads :
           /\ rx' = [rx EXCEPT ![t] = <<>>] /\ calls' = Disconnected(Range(rx[t]))
           /\ UNCHANGED <<frames, ran>>
    BY DEF Loses
  <1>2. rx \in [Threads -> Seq(Calls)] /\ calls \in Seq(CallRows)
    BY ShapesParts DEF Stores
  <1>3. rx'[t] = <<>> /\ \A u \in Threads : u # t => rx'[u] = rx[u]
    BY <1>1, <1>2
  <1>4. /\ CallsStay
        /\ \A c \in DOMAIN calls : calls'[c].state = "cut" =>
              calls[c].state = "cut" \/ (c \in Range(rx[t]) /\ c \notin Range(ran))
    BY <1>1, <1>2, DisconnectedStay
  <1>5. InHand' = InHand
    BY <1>1 DEF InHand, Top
  <1>6. \A u \in Threads : \A c \in Range(rx[u]) : c \in Nat /\ calls[c].by = u
    BY ShapesParts DEF Line, AtBridges, Due, Calls
  <1>7. ASSUME NEW c \in Range(rx[t])
        PROVE  /\ \A u \in Threads : c \notin Range(rx'[u])
               /\ \A k \in DOMAIN InHand : c \notin Range(InHand[k])
    <2>1. ASSUME NEW u \in Threads, c \in Range(rx'[u]) PROVE FALSE
      <3>1. u # t
        BY <1>3, <2>1, RangeOfEmpty
      <3> QED
        BY <1>3, <1>6, <2>1, <3>1
    <2>2. ASSUME NEW k \in DOMAIN InHand, c \in Range(InHand[k]) PROVE FALSE
      <3>1. c < c
        BY <1>6, <2>2 DEF Line, HandsFirst
      <3> QED
        BY <1>6, <3>1
    <2> QED
      BY <2>1, <2>2
  <1>8. Latest'
    BY <1>1 DEF Line, Latest, Top, Call
  <1> QED
    BY <1>1, <1>3, <1>4, <1>5, <1>7, <1>8, LineThins

LEMMA LineUntouched ==
    ASSUME Shapes, Line, Untouched
    PROVE  Line'
  <1>1. InHand' = InHand /\ Latest'
    BY DEF Untouched, InHand, Top, Line, Latest, Call
  <1> QED
    BY <1>1, LineThins DEF Untouched, NoneIsCut

LEMMA LineRelaunch ==
    ASSUME Shapes, Line, Relaunch
    PROVE  Line'
  <1>1. /\ CallsStay /\ calls' = Disconnected(DOMAIN calls)
        /\ frames' = <<>> /\ UNCHANGED ran /\ \A t \in Threads : rx'[t] = <<>>
    BY RelaunchOf
  <1>2. \A c \in DOMAIN calls : calls'[c].state = "cut" =>
           calls[c].state = "cut" \/ c \notin Range(ran)
    BY <1>1, ShapesParts, DisconnectedStay
  <1>3. InHand' = <<>> /\ Latest'
    BY <1>1 DEF InHand, Latest
  <1> QED
    BY <1>1, <1>2, <1>3, RangeOfEmpty, LineThins

-----------------------------------------------------------------------------
(* Work is on threads that are open.                                       *)

InTheOpen == {"active", "folded"}

LEMMA NoCall == None \notin Calls /\ User \notin Calls
  BY ChiefAssumption DEF Calls

\* Threads wake, sleep or stay, and work is taken up only where it can be seen.
LEMMA SightFrom ==
    ASSUME Shapes, Sight,
           \A u \in Threads : turn'[u] \in Calls \/ queue'[u] # <<>> =>
               HasTask(u) \/ thread[u] \in InTheOpen,
           \A u \in Threads : \/ thread'[u] = thread[u]
                              \/ thread[u] \in InTheOpen /\ thread'[u] \in InTheOpen,
           Range(ran) \subseteq Range(ran'), Targeted'
    PROVE  Sight'
  <1>1. WorkIsInSight'
    BY DEF Sight, WorkIsInSight, HasTask, InTheOpen
  <1>2. Tombstones'
    <2>1. \A b \in Bots : \A g \in Generations : <<b, g>> \in Threads
      BY DEF Threads
    <2>2. \A u \in Threads : /\ thread[u] = "none" => thread'[u] = "none"
                             /\ thread[u] = "deleted" => thread'[u] = "deleted"
      BY DEF InTheOpen
    <2> QED
      BY <2>1, <2>2 DEF Sight, Tombstones
  <1>3. Spawned'
    <2>1. \A c \in Calls : <<Code, c>> \in Threads
      BY DEF Threads
    <2>2. \A u \in Threads : thread[u] = "none" => thread'[u] = "none"
      BY DEF InTheOpen
    <2> QED
      BY <2>1, <2>2 DEF Sight, Spawned
  <1> QED
    BY <1>1, <1>2, <1>3 DEF Sight

\* A thread opened where there may be one.
MayOpen(t) ==
    /\ thread[t] # "deleted"
    /\ \/ \E b \in Bots : t \in Standing(b)
       \/ \E c \in Calls : t = <<Code, c>> /\ c \in Range(ran')
       \/ thread[t] \in InTheOpen

LEMMA OpenedOf ==
    ASSUME Stores, NEW t \in Threads, thread[t] # "deleted"
    PROVE  /\ Opened(t)[t] \in InTheOpen
           /\ \A u \in Threads : u # t => Opened(t)[u] = thread[u]
           /\ thread[t] \in InTheOpen => Opened(t) = thread
  BY DEF Stores, Opened, ThreadStates, InTheOpen

LEMMA SightOpens ==
    ASSUME Shapes, Sight, NEW t \in Threads, thread' = Opened(t), MayOpen(t),
           \A u \in Threads : u # t => turn'[u] = turn[u] /\ queue'[u] = queue[u],
           Range(ran) \subseteq Range(ran'), Targeted'
    PROVE  Sight'
  <1>1. /\ thread'[t] \in InTheOpen
        /\ \A u \in Threads : u # t => thread'[u] = thread[u]
        /\ thread[t] \in InTheOpen => thread' = thread
    BY ShapesParts, OpenedOf DEF MayOpen
  <1>2. CASE thread[t] \in InTheOpen
    <2>1. \A u \in Threads : turn'[u] \in Calls \/ queue'[u] # <<>> =>
               HasTask(u) \/ thread[u] \in InTheOpen
      BY <1>2 DEF HasTask
    <2> QED
      BY <1>1, <1>2, <2>1, SightFrom
  <1>3. CASE thread[t] \notin InTheOpen
    <2>1. WorkIsInSight'
      BY <1>1 DEF Sight, WorkIsInSight, HasTask, InTheOpen
    <2>2. Tombstones'
      <3> SUFFICES ASSUME NEW b \in Bots, NEW g \in Generations, NEW h \in Generations,
                          h < g, thread'[<<b, g>>] # "none"
                   PROVE  thread'[<<b, h>>] = "deleted"
        BY DEF Tombstones
      <3>1. <<b, g>> \in Threads /\ <<b, h>> \in Threads /\ g \in Nat /\ h \in Nat /\ 1 <= h
        BY DEF Threads, Generations
      <3>2. CASE t = <<b, g>>
        <4>1. PICK a \in Bots : t \in Standing(a)
          BY <1>3, <3>2, ChiefAssumption DEF MayOpen
        <4>2. PICK n \in Generations :
                 /\ t = <<a, n>> /\ \A older \in 1..(n - 1) : thread[<<a, older>>] = "deleted"
          BY <4>1, StandingOf
        <4>3. a = b /\ n = g
          BY <3>2, <4>2
        <4>4. h \in 1..(g - 1) /\ <<b, h>> # t
          BY <3>1, <3>2
        <4> QED
          BY <1>1, <3>1, <4>2, <4>3, <4>4
      <3>3. CASE t = <<b, h>>
        <4>1. <<b, g>> # t
          BY <3>1, <3>3
        <4>2. thread[<<b, g>>] # "none"
          BY <1>1, <3>1, <4>1
        <4> QED
          BY <3>3, <4>2 DEF Sight, Tombstones, MayOpen
      <3>4. CASE t # <<b, g>> /\ t # <<b, h>>
        BY <1>1, <3>1, <3>4 DEF Sight, Tombstones
      <3> QED
        BY <3>2, <3>3, <3>4
    <2>3. Spawned'
      <3> SUFFICES ASSUME NEW c \in Calls, thread'[<<Code, c>>] # "none"
                   PROVE  c \in Range(ran')
        BY DEF Spawned
      <3>1. <<Code, c>> \in Threads
        BY DEF Threads
      <3>2. CASE t = <<Code, c>>
        <4>1. \A b \in Bots : t \notin Standing(b)
          BY <3>2, StandingOf, ChiefAssumption
        <4>2. PICK d \in Calls : t = <<Code, d>> /\ d \in Range(ran')
          BY <1>3, <4>1 DEF MayOpen
        <4> QED
          BY <3>2, <4>2
      <3>3. CASE t # <<Code, c>>
        BY <1>1, <3>1, <3>3 DEF Sight, Spawned
      <3> QED
        BY <3>2, <3>3
    <2> QED
      BY <2>1, <2>2, <2>3 DEF Sight
  <1> QED
    BY <1>2, <1>3

\* A thread the user puts away.
LEMMA SightCloses ==
    ASSUME Shapes, Sight, NEW t \in Threads, NEW state \in {"archived", "deleted"},
           Closes(t, state), thread[t] \in {"active", "folded", "archived"},
           UNCHANGED ran, frames = <<>>
    PROVE  Sight'
  <1>1. /\ turn'[t] = None /\ queue'[t] = <<>> /\ thread'[t] = state
        /\ \A u \in Threads : u # t =>
              turn'[u] = turn[u] /\ queue'[u] = queue[u] /\ thread'[u] = thread[u]
        /\ frames' = <<>>
    BY DEF Closes
  <1>2. WorkIsInSight'
    BY <1>1, NoCall DEF Sight, WorkIsInSight, HasTask
  <1>3. Tombstones'
    <2> SUFFICES ASSUME NEW b \in Bots, NEW g \in Generations, NEW h \in Generations,
                        h < g, thread'[<<b, g>>] # "none"
                 PROVE  thread'[<<b, h>>] = "deleted"
      BY DEF Tombstones
    <2>1. <<b, g>> \in Threads /\ <<b, h>> \in Threads
      BY DEF Threads
    <2>2. thread[<<b, g>>] # "none"
      BY <1>1, <2>1
    <2>3. thread[<<b, h>>] = "deleted"
      BY <2>2 DEF Sight, Tombstones
    <2> QED
      BY <1>1, <2>1, <2>3
  <1>4. Spawned'
    <2> SUFFICES ASSUME NEW c \in Calls, thread'[<<Code, c>>] # "none"
                 PROVE  c \in Range(ran)
      BY DEF Spawned
    <2>1. <<Code, c>> \in Threads
      BY DEF Threads
    <2>2. thread[<<Code, c>>] # "none"
      BY <1>1, <2>1
    <2> QED
      BY <2>2 DEF Sight, Spawned
  <1>5. Targeted'
    BY <1>1 DEF Targeted
  <1> QED
    BY <1>2, <1>3, <1>4, <1>5 DEF Sight

-----------------------------------------------------------------------------
(* Tasks are on record before they are given, and given once.              *)

Fewer == \A c \in Calls : Given(c)' => Given(c)

LEMMA TasksFewer ==
    ASSUME Tasks, Fewer, UNCHANGED rows, Range(ran) \subseteq Range(ran'), WrittenDown'
    PROVE  Tasks'
  <1>1. OnRecord'
    BY DEF Tasks, OnRecord, Fewer
  <1> QED
    BY <1>1 DEF Tasks

\* A turn that ends takes its task along, and may leave the next one to the queue.
LEMMA TurnEndsFewer ==
    ASSUME Shapes, NEW t \in Threads, TurnEnds(t)
    PROVE  Fewer
  <1>1. /\ \A u \in Threads : u # t => turn'[u] = turn[u] /\ queue'[u] = queue[u]
        /\ \/ turn'[t] = None /\ queue'[t] = <<>>
           \/ queue[t] # <<>> /\ turn'[t] = Head(queue[t]) /\ queue'[t] = Tail(queue[t])
    BY TurnEndsOf
  <1>2. queue[t] # <<>> => Range(queue[t]) = {Head(queue[t])} \cup Range(Tail(queue[t]))
    BY ShapesParts, RangeOfTail DEF Stores
  <1> SUFFICES ASSUME NEW c \in Calls, NEW u \in Threads,
                      turn'[u] = c \/ c \in Range(queue'[u])
               PROVE  turn[u] = c \/ c \in Range(queue[u])
    BY DEF Fewer, Given
  <1>3. CASE u # t
    BY <1>1, <1>3
  <1>4. CASE u = t /\ turn'[t] = None /\ queue'[t] = <<>>
    BY <1>4, NoCall, RangeOfEmpty
  <1>5. CASE u = t /\ queue[t] # <<>> /\ turn'[t] = Head(queue[t]) /\ queue'[t] = Tail(queue[t])
    BY <1>2, <1>5
  <1> QED
    BY <1>1, <1>3, <1>4, <1>5

LEMMA ClosesFewer ==
    ASSUME NEW t \in Threads, NEW state, Closes(t, state)
    PROVE  Fewer
  <1> SUFFICES ASSUME NEW c \in Calls, NEW u \in Threads,
                      turn'[u] = c \/ c \in Range(queue'[u])
               PROVE  turn[u] = c \/ c \in Range(queue[u])
    BY DEF Fewer, Given
  <1>1. /\ turn'[t] = None /\ queue'[t] = <<>>
        /\ \A v \in Threads : v # t => turn'[v] = turn[v] /\ queue'[v] = queue[v]
    BY DEF Closes
  <1> QED
    BY <1>1, NoCall, RangeOfEmpty

\* The task under way, given to a thread.
LEMMA TasksGiven ==
    ASSUME Tasks, Call \in Calls, rows[Call] = "recorded", Call \in Range(ran),
           \A c \in Calls : Given(c)' => Given(c) \/ c = Call,
           UNCHANGED <<rows, ran>>, WrittenDown'
    PROVE  Tasks'
  <1>1. OnRecord'
    BY DEF Tasks, OnRecord
  <1> QED
    BY <1>1 DEF Tasks

\* A turn that begins, or a queue that grows, has the task besides what there was.
LEMMA GivenTurn ==
    ASSUME Stores, NEW t \in Threads, turn' = [turn EXCEPT ![t] = Call], UNCHANGED queue
    PROVE  \A c \in Calls : Given(c)' => Given(c) \/ c = Call
  BY DEF Stores, Given

LEMMA GivenQueue ==
    ASSUME Stores, NEW t \in Threads, Call \in Calls,
           queue' = [queue EXCEPT ![t] = Append(queue[t], Call)], UNCHANGED turn
    PROVE  \A c \in Calls : Given(c)' => Given(c) \/ c = Call
  <1>1. Range(Append(queue[t], Call)) = Range(queue[t]) \cup {Call}
    BY RangeOfAppend DEF Stores
  <1>2. \A u \in Threads : Range(queue'[u]) \subseteq Range(queue[u]) \cup {Call}
    BY <1>1 DEF Stores
  <1> QED
    BY <1>2 DEF Given

LEMMA WrittenAfter ==
    ASSUME frames' # <<>> /\ (\/ Top'.step \in {"record", "deliver", "attach"}
                              \/ Top'.step = "settle" /\ ~Top'.dispatched) =>
               \A t \in Threads : turn'[t] # Call' /\ Call' \notin Range(queue'[t]),
           frames' # <<>> /\ Top'.step \in {"deliver", "attach", "pump", "settle"} =>
               rows'[Call'] = "recorded"
    PROVE  WrittenDown'
  BY DEF WrittenDown, Undelivered, Given

\* The call under way has been begun.
LEMMA UnderWayRan ==
    ASSUME Shapes, Line, frames # <<>>, Top.step # "next"
    PROVE  Call \in Range(ran)
  <1>1. ran # <<>> /\ Call = ran[Len(ran)]
    BY DEF Line, Latest
  <1>2. Len(ran) \in DOMAIN ran
    <2>1. ran \in Seq(Calls)
      BY DEF Shapes
    <2>2. DOMAIN ran = 1..Len(ran) /\ Len(ran) \in Nat \ {0}
      BY <1>1, <2>1, TailOf
    <2> QED
      BY <2>2
  <1> QED
    BY <1>1, <1>2 DEF Range

-----------------------------------------------------------------------------
(* Each step keeps the invariant.                                          *)

\* A step of a task whose thread is open before and after.
LEMMA WithinSight ==
    ASSUME Duties, NEW step \in Steps \ {"next"}, NEW next \in Steps \ {"next"},
           Becomes(step, next), UNCHANGED <<thread, turn, queue, ran>>,
           step \in {"record", "deliver", "attach"} \/ next \in {"pump", "settle"}
    PROVE  Sight'
  <1>1. /\ frames # <<>> /\ Top.step = step /\ frames' # <<>> /\ Top'.step = next
        /\ Top'.target = Top.target
    BY DEF Becomes, At
  <1>2. Targeted'
    BY <1>1 DEF Duties, Sight, Targeted
  <1> QED
    BY <1>2, SightFrom DEF Duties, HasTask

LEMMA RecordDuties == ASSUME Duties, Record PROVE Duties'
  <1>1. /\ Within /\ Shapes' /\ Becomes("record", "deliver")
        /\ rows' = [rows EXCEPT ![Call] = "recorded"]
        /\ UNCHANGED <<thread, turn, queue>>
    BY RecordOf DEF Duties
  <1>2. /\ At("record") /\ frames # <<>> /\ Top.step = "record" /\ frames' # <<>>
        /\ Top'.step = "deliver" /\ Call \in Calls /\ Call' = Call
    BY <1>1 DEF Becomes, At
  <1>3. Line'
    BY <1>1, LineWithin DEF Duties
  <1>4. UNCHANGED ran
    BY DEF Record
  <1>5. Sight'
    BY <1>1, <1>4, WithinSight DEF Steps
  <1>6. rows'[Call] = "recorded" /\ \A c \in Calls : c # Call => rows'[c] = rows[c]
    BY <1>1, <1>2, ShapesParts DEF Stores, Duties
  <1>7. ~Given(Call)
    BY <1>2 DEF Duties, Tasks, WrittenDown, Undelivered
  <1>8. \A c \in Calls : Given(c)' <=> Given(c)
    BY <1>1 DEF Given
  <1>9. \A t \in Threads : turn'[t] # Call' /\ Call' \notin Range(queue'[t])
    BY <1>1, <1>2, <1>7 DEF Given
  <1>10. OnRecord'
    BY <1>4, <1>6, <1>7, <1>8 DEF Duties, Tasks, OnRecord
  <1>11. WrittenDown'
    BY <1>2, <1>6, <1>9, WrittenAfter
  <1> QED
    BY <1>1, <1>3, <1>5, <1>10, <1>11 DEF Duties, Tasks

\* A task's step that gives it to nobody.
LEMMA NotGivenDuties ==
    ASSUME Duties, Within, Shapes',
           NEW step \in {"deliver", "attach", "pump"}, NEW next \in {"attach", "settle"},
           Becomes(step, next), step = "pump" => next = "settle" /\ Top'.dispatched,
           UNCHANGED <<thread, turn, queue, rows, ran>>
    PROVE  Duties'
  <1>1. /\ frames # <<>> /\ Top.step = step /\ frames' # <<>>
        /\ Top'.step = next /\ Call \in Calls /\ Call' = Call
    BY DEF Becomes, At
  <1>2. Line'
    BY LineWithin DEF Duties
  <1>3. step \in Steps \ {"next"} /\ next \in Steps \ {"next"}
    BY DEF Steps
  <1>4. Sight'
    <2>1. step \in {"record", "deliver", "attach"} \/ next \in {"pump", "settle"}
      OBVIOUS
    <2> QED
      BY <1>3, <2>1, WithinSight
  <1>5. rows[Call] = "recorded" /\ (step # "pump" => ~Given(Call))
    BY <1>1 DEF Duties, Tasks, WrittenDown, Undelivered
  <1>6. step # "pump" => \A t \in Threads : turn'[t] # Call' /\ Call' \notin Range(queue'[t])
    BY <1>1, <1>5 DEF Given
  <1>7. WrittenDown'
    BY <1>1, <1>5, <1>6, WrittenAfter
  <1>8. Fewer
    BY DEF Fewer, Given
  <1>9. Tasks'
    BY <1>7, <1>8, TasksFewer DEF Duties
  <1> QED
    BY <1>2, <1>4, <1>9 DEF Duties

LEMMA SendFailsDuties == ASSUME Duties, SendFails PROVE Duties'
  BY SendFailsOf, NotGivenDuties DEF Duties, SendFails

LEMMA AttachDuties == ASSUME Duties, Attach PROVE Duties'
  BY AttachOf, NotGivenDuties DEF Duties, Attach

LEMMA AttachFailsDuties == ASSUME Duties, AttachFails PROVE Duties'
  BY AttachFailsOf, NotGivenDuties DEF Duties, AttachFails

LEMMA PumpedDuties == ASSUME Duties, Pumped PROVE Duties'
  BY PumpedOf, NotGivenDuties DEF Duties, Pumped

\* A task's step that gives it to the thread it is for.
LEMMA GivenDuties ==
    ASSUME Duties, Within, Shapes',
           NEW step \in {"deliver", "attach"}, NEW next \in {"pump", "settle"},
           Becomes(step, next), next = "settle" => Top'.dispatched,
           UNCHANGED <<thread, rows, ran>>,
           \A c \in Calls : Given(c)' => Given(c) \/ c = Call,
           \A u \in Threads : turn'[u] \in Calls \/ queue'[u] # <<>> => HasTask(u) \/ u = Top.target
    PROVE  Duties'
  <1>1. /\ frames # <<>> /\ Top.step = step /\ frames' # <<>> /\ Top.target \in Threads
        /\ Top'.step = next /\ Call \in Calls /\ Call' = Call
    BY DEF Becomes, At
  <1>2. Line'
    BY LineWithin DEF Duties
  <1>3. Targeted'
    BY <1>1 DEF Targeted
  <1>4. thread[Top.target] \in InTheOpen
    BY <1>1 DEF Duties, Sight, Targeted, InTheOpen
  <1>5. Sight'
    <2>1. \A u \in Threads : turn'[u] \in Calls \/ queue'[u] # <<>> =>
               HasTask(u) \/ thread[u] \in InTheOpen
      BY <1>4
    <2> QED
      BY <1>3, <2>1, SightFrom DEF Duties
  <1>6. rows[Call] = "recorded"
    BY <1>1 DEF Duties, Tasks, WrittenDown
  <1>7. WrittenDown'
    BY <1>1, <1>6, WrittenAfter
  <1>8. Call \in Range(ran)
    BY <1>1, UnderWayRan DEF Duties
  <1>9. Tasks'
    BY <1>1, <1>6, <1>7, <1>8, TasksGiven DEF Duties
  <1> QED
    BY <1>2, <1>5, <1>9 DEF Duties

LEMMA QueueDuties == ASSUME Duties, Queue PROVE Duties'
  <1>1. /\ Within /\ Shapes' /\ Becomes("deliver", "settle") /\ Top'.dispatched
        /\ queue' = [queue EXCEPT ![Top.target] = Append(queue[Top.target], Call)]
        /\ Busy(Top.target) /\ UNCHANGED <<thread, turn, rows>>
    BY QueueOf DEF Duties
  <1>2. Top.target \in Threads /\ Call \in Calls /\ Stores /\ UNCHANGED ran
    BY <1>1, ShapesParts DEF Becomes, Duties, Queue
  <1>3. \A c \in Calls : Given(c)' => Given(c) \/ c = Call
    BY <1>1, <1>2, GivenQueue
  <1>4. \A u \in Threads : turn'[u] \in Calls \/ queue'[u] # <<>> => HasTask(u) \/ u = Top.target
    BY <1>1, <1>2 DEF HasTask, Stores
  <1> QED
    BY <1>1, <1>2, <1>3, <1>4, GivenDuties

LEMMA SendDuties == ASSUME Duties, Send PROVE Duties'
  <1>1. /\ Within /\ Shapes' /\ Becomes("deliver", "pump")
        /\ turn' = [turn EXCEPT ![Top.target] = Call] /\ UNCHANGED <<thread, queue, rows>>
    BY SendOf DEF Duties
  <1>2. Top.target \in Threads /\ Call \in Calls /\ Stores /\ UNCHANGED ran
    BY <1>1, ShapesParts DEF Becomes, Duties, Send
  <1>3. \A c \in Calls : Given(c)' => Given(c) \/ c = Call
    BY <1>1, <1>2, GivenTurn
  <1>4. \A u \in Threads : turn'[u] \in Calls \/ queue'[u] # <<>> => HasTask(u) \/ u = Top.target
    BY <1>1, <1>2 DEF HasTask, Stores
  <1> QED
    BY <1>1, <1>2, <1>3, <1>4, GivenDuties

LEMMA AttachedDuties == ASSUME Duties, Attached PROVE Duties'
  <1>1. /\ Within /\ Shapes' /\ Becomes("attach", "pump")
        /\ turn' = [turn EXCEPT ![Top.target] = Call] /\ UNCHANGED <<thread, queue, rows>>
    BY AttachedOf DEF Duties
  <1>2. Top.target \in Threads /\ Call \in Calls /\ Stores /\ UNCHANGED ran
    BY <1>1, ShapesParts DEF Becomes, Duties, Attached
  <1>3. \A c \in Calls : Given(c)' => Given(c) \/ c = Call
    BY <1>1, <1>2, GivenTurn
  <1>4. \A u \in Threads : turn'[u] \in Calls \/ queue'[u] # <<>> => HasTask(u) \/ u = Top.target
    BY <1>1, <1>2 DEF HasTask, Stores
  <1> QED
    BY <1>1, <1>2, <1>3, <1>4, GivenDuties

LEMMA SettleDuties == ASSUME Duties, Settle PROVE Duties'
  <1>1. /\ Ends /\ Shapes' /\ At("settle") /\ (frames' # <<>> => Top'.step = "next")
        /\ Call \in Calls /\ UNCHANGED <<thread, turn, queue>>
        /\ rows' = [rows EXCEPT ![Call] = IF Top.dispatched THEN "dispatched" ELSE "failed"]
    BY SettleOf DEF Duties
  <1>2. frames # <<>> /\ Top.step = "settle" /\ UNCHANGED ran
    BY <1>1 DEF At, Settle
  <1>3. Line'
    BY <1>1, LineEnds DEF Duties
  <1>4. Targeted' /\ WrittenDown'
    BY <1>1 DEF Targeted, WrittenDown, Undelivered
  <1>5. Sight'
    BY <1>1, <1>2, <1>4, SightFrom DEF Duties, HasTask
  <1>6. ~Top.dispatched => ~Given(Call)
    BY <1>2 DEF Duties, Tasks, WrittenDown, Undelivered
  <1>7. /\ \A c \in Calls : c # Call => rows'[c] = rows[c]
        /\ Top.dispatched => rows'[Call] = "dispatched"
    BY <1>1, ShapesParts DEF Stores, Duties
  <1>8. \A c \in Calls : Given(c)' <=> Given(c)
    BY <1>1 DEF Given
  <1>9. OnRecord'
    BY <1>2, <1>6, <1>7, <1>8 DEF Duties, Tasks, OnRecord
  <1> QED
    BY <1>1, <1>3, <1>4, <1>5, <1>9 DEF Duties, Tasks

\* A call that is answered at once does nothing to a task.
LEMMA AtOnceDuties ==
    ASSUME Duties, AtOnce, Shapes', Begins, frames' # <<>> => Top'.step = "next",
           UNCHANGED <<turn, queue, rows>>,
           \/ thread' = thread
           \/ \E t : thread[t] = "active" /\ thread' = [thread EXCEPT ![t] = "folded"]
    PROVE  Duties'
  <1>1. Line'
    BY LineAtOnce DEF Duties
  <1>2. Range(ran) \subseteq Range(ran')
    BY BeginsOf DEF Duties
  <1>3. Targeted' /\ WrittenDown'
    BY DEF Targeted, WrittenDown, Undelivered
  <1>4. Sight'
    <2>1. \A u \in Threads : \/ thread'[u] = thread[u]
                             \/ thread[u] \in InTheOpen /\ thread'[u] \in InTheOpen
      BY ShapesParts DEF Duties, Stores, InTheOpen
    <2> QED
      BY <1>2, <1>3, <2>1, SightFrom DEF Duties, HasTask
  <1>5. Fewer
    BY DEF Fewer, Given
  <1>6. Tasks'
    BY <1>2, <1>3, <1>5, TasksFewer DEF Duties
  <1> QED
    BY <1>1, <1>4, <1>6 DEF Duties

LEMMA AnswerOnlyDuties == ASSUME Duties, AnswerOnly PROVE Duties'
  BY AnswerOnlyOf, AtOnceDuties DEF Duties

LEMMA FoldThreadDuties == ASSUME Duties, FoldThread PROVE Duties'
  BY FoldThreadOf, AtOnceDuties DEF Duties

LEMMA OpenFailsDuties == ASSUME Duties, OpenFails PROVE Duties'
  BY OpenFailsOf, AtOnceDuties DEF Duties

LEMMA DraftBotDuties == ASSUME Duties, DraftBot PROVE Duties'
  BY DraftBotOf, AtOnceDuties DEF Duties

\* The thread a task is for is open from the step that finds it.
LEMMA OpenDuties == ASSUME Duties, Open PROVE Duties'
  <1>1. PICK f \in Frames : frames = <<f>> /\ Filled(f.batch) /\ f.step = "next" /\ Top = f
    BY BeginsOf DEF Duties, Open
  <1>2. Call \in DOMAIN calls /\ Call \notin Range(ran)
    BY <1>1, NextCall DEF Duties
  <1>3. /\ Opens /\ Shapes' /\ Begins /\ Call' = Call
        /\ UNCHANGED <<turn, queue, rows>>
        /\ calls[Call].kind \in {"spawn", "handoff"}
        /\ calls[Call].kind = "handoff" => calls[Call].to \in Bots
        /\ frames' # <<>> /\ Top'.step = "record"
    BY <1>2, OpenOf DEF Duties
  <1>4. PICK t \in Target \cap Threads : thread' = Opened(t) /\ Top'.target = t
    BY <1>2, OpenOf DEF Duties
  <1>5. Range(ran') = Range(ran) \cup {Call} /\ Call \in Calls
    BY <1>3, BeginsOf DEF Duties
  <1>6. Line'
    BY <1>3, LineOpens DEF Duties
  <1>7. MayOpen(t)
    <2>1. CASE calls[Call].kind = "spawn"
      <3>1. t = <<Code, Call>>
        BY <1>4, <2>1 DEF Target
      <3>2. thread[t] = "none"
        BY <1>2, <1>5, <3>1 DEF Duties, Sight, Spawned
      <3> QED
        BY <1>5, <3>1, <3>2 DEF MayOpen
    <2>2. CASE calls[Call].kind = "handoff"
      <3>1. t \in Standing(calls[Call].to) /\ calls[Call].to \in Bots
        BY <1>3, <1>4, <2>2 DEF Target
      <3>2. thread[t] # "deleted"
        BY <3>1, StandingOf
      <3> QED
        BY <3>1, <3>2 DEF MayOpen
    <2> QED
      BY <1>3, <2>1, <2>2
  <1>8. Targeted'
    <2>1. thread'[t] \in InTheOpen
      BY <1>4, <1>7, ShapesParts, OpenedOf DEF Duties, MayOpen
    <2> QED
      BY <1>4, <2>1 DEF Targeted, InTheOpen
  <1>9. Sight'
    BY <1>3, <1>4, <1>5, <1>7, <1>8, SightOpens DEF Duties
  <1>10. ~Given(Call)
    BY <1>2, <1>5 DEF Duties, Tasks, OnRecord
  <1>11. WrittenDown'
    <2>1. \A u \in Threads : turn'[u] # Call' /\ Call' \notin Range(queue'[u])
      BY <1>3, <1>10 DEF Given
    <2> QED
      BY <1>3, <2>1, WrittenAfter
  <1>12. Fewer
    BY <1>3 DEF Fewer, Given
  <1>13. Tasks'
    BY <1>3, <1>5, <1>11, <1>12, TasksFewer DEF Duties
  <1> QED
    BY <1>3, <1>6, <1>9, <1>13 DEF Duties

LEMMA TakeCallsDuties == ASSUME Duties, TakeCalls PROVE Duties'
  <1>1. /\ Shapes' /\ frames' # <<>> /\ Top'.step = "next" /\ UNCHANGED <<calls, ran>>
    BY TakeOf DEF Duties
  <1>2. UNCHANGED <<thread, turn, queue, rows>>
    BY DEF TakeCalls
  <1>3. Line'
    BY LineTake DEF Duties
  <1>4. Targeted' /\ WrittenDown' /\ Fewer
    BY <1>1, <1>2 DEF Targeted, WrittenDown, Undelivered, Fewer, Given
  <1>5. Sight'
    BY <1>1, <1>2, <1>4, SightFrom DEF Duties, HasTask
  <1>6. Tasks'
    BY <1>1, <1>2, <1>4, TasksFewer DEF Duties
  <1> QED
    BY <1>1, <1>3, <1>5, <1>6 DEF Duties

\* What has to do with no task leaves the tasks as they are.
LEMMA ElsewhereDuties ==
    ASSUME Duties, Shapes', Line', Elsewhere, UNCHANGED ran
    PROVE  Duties'
  <1>1. UNCHANGED <<thread, turn, queue, rows, frames>> /\ UNCHANGED <<Top, Call>>
    BY DEF Elsewhere, Top, Call
  <1>2. Targeted' /\ WrittenDown' /\ Fewer
    BY <1>1 DEF Duties, Sight, Tasks, Targeted, WrittenDown, Undelivered, Fewer, Given
  <1>3. Sight'
    BY <1>1, <1>2, SightFrom DEF Duties, HasTask
  <1>4. Tasks'
    BY <1>1, <1>2, TasksFewer DEF Duties
  <1> QED
    BY <1>3, <1>4 DEF Duties

LEMMA AskDuties == ASSUME Duties, NEW t \in Threads, Ask(t) PROVE Duties'
  <1>1. Shapes' /\ UNCHANGED ran
    BY AskOf DEF Duties
  <1>2. Line'
    BY LineAsk DEF Duties
  <1>3. Elsewhere
    BY DEF Ask, Elsewhere
  <1> QED
    BY <1>1, <1>2, <1>3, ElsewhereDuties

LEMMA GiveUpDuties == ASSUME Duties, NEW c \in Calls, GiveUp(c) PROVE Duties'
  BY GiveUpOf, LineUntouched, ElsewhereDuties DEF Duties, Untouched

LEMMA EditDuties == ASSUME Duties, NEW b \in Bots, Edit(b) PROVE Duties'
  BY EditOf, LineUntouched, ElsewhereDuties DEF Duties, Untouched

LEMMA StutterDuties ==
    ASSUME Duties, UNCHANGED <<chips, thread, session, bridges, rx, turn, queue, calls, rows,
                               frames, ran>>
    PROVE  Duties'
  BY StutterOf, LineUntouched, ElsewhereDuties DEF Duties, Untouched

\* While the host pumps no task is on its way.
LEMMA PumpingWritten ==
    ASSUME Duties, Pumping, UNCHANGED <<rows, frames>>
    PROVE  Targeted' /\ WrittenDown'
  <1>1. frames = <<>> \/ Top.step = "pump"
    BY DEF Pumping, At
  <1>2. UNCHANGED <<Top, Call>>
    BY DEF Top, Call
  <1> QED
    BY <1>1, <1>2 DEF Duties, Tasks, Targeted, WrittenDown, Undelivered

LEMMA LosesOrNot ==
    ASSUME Shapes, Line, Loses \/ Untouched
    PROVE  Line' /\ UNCHANGED ran
  BY LineLoses, LineUntouched DEF Loses, Untouched

LEMMA ResurfacedOpen ==
    ASSUME Stores, NEW t \in Threads, NEW state \in {thread[t], Resurfaced(t)}
    PROVE  state = thread[t] \/ (thread[t] \in InTheOpen /\ state \in InTheOpen)
  BY DEF Resurfaced, InTheOpen

LEMMA TurnEndsDuties == ASSUME Duties, NEW t \in Threads, TurnEnds(t) PROVE Duties'
  <1>1. /\ Loses \/ Untouched
        /\ Shapes' /\ UNCHANGED <<rows, frames>> /\ turn[t] # None
        /\ \A u \in Threads : u # t =>
              turn'[u] = turn[u] /\ queue'[u] = queue[u] /\ thread'[u] = thread[u]
        /\ thread'[t] = Resurfaced(t)
    BY TurnEndsOf DEF Duties
  <1>2. Line' /\ UNCHANGED ran
    BY <1>1, LosesOrNot DEF Duties
  <1>3. Targeted' /\ WrittenDown'
    BY <1>1, PumpingWritten DEF TurnEnds
  <1>4. Sight'
    <2>1. \A u \in Threads : \/ thread'[u] = thread[u]
                             \/ thread[u] \in InTheOpen /\ thread'[u] \in InTheOpen
      BY <1>1, ShapesParts, ResurfacedOpen DEF Duties
    <2>2. \A u \in Threads : turn'[u] \in Calls \/ queue'[u] # <<>> => HasTask(u)
      <3>1. queue[t] = <<>> => turn'[t] = None /\ queue'[t] = <<>>
        BY ShapesParts DEF TurnEnds, Stores, Duties
      <3> QED
        BY <1>1, <3>1, NoCall DEF HasTask
    <2> QED
      BY <1>2, <1>3, <2>1, <2>2, SightFrom DEF Duties
  <1>5. Tasks'
    BY <1>1, <1>2, <1>3, TurnEndsFewer, TasksFewer DEF Duties
  <1> QED
    BY <1>1, <1>2, <1>4, <1>5 DEF Duties

LEMMA AdapterGoneDuties == ASSUME Duties, NEW t \in Threads, AdapterGone(t) PROVE Duties'
  <1> DEFINE state == IF turn[t] # None THEN Resurfaced(t) ELSE thread[t]
  <1>1. Loses /\ Shapes' /\ Closes(t, state)
    BY AdapterGoneOf DEF Duties
  <1>2. Line' /\ UNCHANGED ran
    BY <1>1, LosesOrNot DEF Duties
  <1>3. /\ turn'[t] = None /\ queue'[t] = <<>> /\ thread'[t] \in {thread[t], Resurfaced(t)}
        /\ \A u \in Threads : u # t =>
              turn'[u] = turn[u] /\ queue'[u] = queue[u] /\ thread'[u] = thread[u]
        /\ UNCHANGED <<rows, frames>>
    BY <1>1 DEF Closes
  <1>4. Targeted' /\ WrittenDown'
    BY <1>3, PumpingWritten DEF AdapterGone
  <1>5. Sight'
    <2>1. \A u \in Threads : \/ thread'[u] = thread[u]
                             \/ thread[u] \in InTheOpen /\ thread'[u] \in InTheOpen
      BY <1>3, ShapesParts, ResurfacedOpen DEF Duties
    <2>2. \A u \in Threads : turn'[u] \in Calls \/ queue'[u] # <<>> => HasTask(u)
      BY <1>3, NoCall DEF HasTask
    <2> QED
      BY <1>2, <1>4, <2>1, <2>2, SightFrom DEF Duties
  <1>6. Tasks'
    BY <1>1, <1>2, <1>3, <1>4, ClosesFewer, TasksFewer DEF Duties
  <1> QED
    BY <1>1, <1>2, <1>5, <1>6 DEF Duties

\* The user puts a thread away while nothing is on its way to it.
LEMMA PutAwayDuties ==
    ASSUME Duties, NEW t \in Threads, NEW state \in {"archived", "deleted"}, Loses, Shapes',
           Closes(t, state), thread[t] \in {"active", "folded", "archived"}, frames = <<>>
    PROVE  Duties'
  <1>1. Line' /\ UNCHANGED ran /\ UNCHANGED <<rows, frames>>
    BY LosesOrNot DEF Duties, Closes
  <1>2. Sight'
    BY <1>1, SightCloses DEF Duties
  <1>3. WrittenDown'
    BY <1>1 DEF WrittenDown, Undelivered
  <1>4. Tasks'
    BY <1>1, <1>3, ClosesFewer, TasksFewer DEF Duties
  <1> QED
    BY <1>1, <1>2, <1>4 DEF Duties

LEMMA ArchiveDuties == ASSUME Duties, NEW t \in Threads, Archive(t) PROVE Duties'
  BY ArchiveOf, PutAwayDuties DEF Duties, Archive, Moves, Idle

LEMMA DeleteDuties == ASSUME Duties, NEW t \in Threads, Delete(t) PROVE Duties'
  BY DeleteOf, PutAwayDuties DEF Duties, Delete, Moves, Idle

LEMMA UserPromptsDuties == ASSUME Duties, NEW t \in Threads, UserPrompts(t) PROVE Duties'
  <1>1. /\ Untouched /\ Shapes' /\ turn' = [turn EXCEPT ![t] = User]
        /\ \/ t \in UNION {Standing(b) : b \in Bots} /\ thread' = Opened(t)
           \/ UNCHANGED thread
        /\ UNCHANGED <<rows, queue, frames>> /\ frames = <<>>
    BY UserPromptsOf DEF Duties
  <1>2. Line' /\ UNCHANGED ran
    BY <1>1, LosesOrNot DEF Duties
  <1>3. Targeted' /\ WrittenDown'
    BY <1>1 DEF Targeted, WrittenDown, Undelivered
  <1>4. \A u \in Threads : u # t => turn'[u] = turn[u] /\ queue'[u] = queue[u]
    BY <1>1, ShapesParts DEF Stores, Duties
  <1>5. Sight'
    <2>1. CASE t \in UNION {Standing(b) : b \in Bots} /\ thread' = Opened(t)
      <3>1. PICK b \in Bots : t \in Standing(b)
        BY <2>1
      <3>2. thread[t] # "deleted"
        BY <3>1, StandingOf
      <3>3. MayOpen(t)
        BY <3>1, <3>2 DEF MayOpen
      <3> QED
        BY <1>2, <1>3, <1>4, <2>1, <3>3, SightOpens DEF Duties
    <2>2. CASE UNCHANGED thread
      \* A turn of the user's is no task.
      <3>1. \A u \in Threads : turn'[u] \in Calls \/ queue'[u] # <<>> => HasTask(u)
        BY <1>1, NoCall, ShapesParts DEF HasTask, Stores, Duties
      <3> QED
        BY <1>2, <1>3, <2>2, <3>1, SightFrom DEF Duties
    <2> QED
      BY <1>1, <2>1, <2>2
  <1>6. Fewer
    BY <1>1, NoCall, ShapesParts DEF Fewer, Given, Stores, Duties
  <1>7. Tasks'
    BY <1>1, <1>2, <1>3, <1>6, TasksFewer DEF Duties
  <1> QED
    BY <1>1, <1>2, <1>5, <1>7 DEF Duties

LEMMA RelaunchDuties == ASSUME Duties, Relaunch PROVE Duties'
  <1>1. /\ Shapes' /\ frames' = <<>> /\ UNCHANGED <<rows, ran>>
        /\ \A t \in Threads :
              /\ queue'[t] = <<>> /\ turn'[t] = None
              /\ thread'[t] \in {thread[t], Resurfaced(t)}
    BY RelaunchOf DEF Duties
  <1>2. Line'
    BY LineRelaunch DEF Duties
  <1>3. Targeted' /\ WrittenDown'
    BY <1>1 DEF Targeted, WrittenDown, Undelivered
  <1>4. Sight'
    <2>1. \A u \in Threads : \/ thread'[u] = thread[u]
                             \/ thread[u] \in InTheOpen /\ thread'[u] \in InTheOpen
      BY <1>1, ShapesParts, ResurfacedOpen DEF Duties
    <2>2. \A u \in Threads : ~(turn'[u] \in Calls \/ queue'[u] # <<>>)
      BY <1>1, NoCall
    <2> QED
      BY <1>1, <1>3, <2>1, <2>2, SightFrom DEF Duties
  <1>5. Fewer
    BY <1>1, NoCall, RangeOfEmpty DEF Fewer, Given
  <1>6. Tasks'
    BY <1>1, <1>3, <1>5, TasksFewer DEF Duties
  <1> QED
    BY <1>1, <1>2, <1>4, <1>6 DEF Duties

-----------------------------------------------------------------------------
(* The invariant and what it says.                                         *)

LEMMA InitDuties == DraftsInit => Duties
  <1> SUFFICES ASSUME DraftsInit PROVE Duties
    OBVIOUS
  <1>1. /\ chips = Bots /\ thread = [t \in Threads |-> "none"]
        /\ session = {} /\ bridges = {}
        /\ rx = [t \in Threads |-> <<>>] /\ queue = [t \in Threads |-> <<>>]
        /\ turn = [t \in Threads |-> None] /\ calls = <<>>
        /\ rows = [c \in Calls |-> "none"] /\ frames = <<>> /\ ran = <<>>
    BY DEF DraftsInit, Init
  <1>2. /\ \A S : <<>> \in Seq(S)
        /\ Len(<<>>) = 0 /\ DOMAIN <<>> = {}
    BY EmptySeq
  <1>3. Shapes
    <2>1. TypeOK
      BY <1>1, <1>2 DEF TypeOK
    <2>2. Len(calls) <= MaxCalls
      BY <1>1, <1>2, ChiefAssumption
    <2>3. IsFiniteSet(bridges)
      BY <1>1, FS_EmptySet
    <2> QED
      BY <1>1, <1>2, <2>1, <2>2, <2>3 DEF Shapes, OneFrame
  <1>4. Line
    <2>1. InHand = <<>>
      BY <1>1 DEF InHand
    <2> QED
      BY <1>1, <1>2, <2>1, RangeOfEmpty
      DEF Line, AtBridges, InHands, OnePart, HandsFirst, Carried, CarriedFirst, Latest
  <1>5. Sight
    <2>1. \A t \in Threads : thread[t] = "none" /\ ~HasTask(t)
      BY <1>1, NoCall DEF HasTask
    <2>2. \A b \in Bots : \A g \in Generations : <<b, g>> \in Threads
      BY DEF Threads
    <2>3. \A c \in Calls : <<Code, c>> \in Threads
      BY DEF Threads
    <2> QED
      BY <1>1, <2>1, <2>2, <2>3 DEF Sight, WorkIsInSight, Tombstones, Spawned, Targeted
  <1>6. Tasks
    <2>1. \A c \in Calls : ~Given(c)
      BY <1>1, RangeOfEmpty, NoCall DEF Given
    <2> QED
      BY <1>1, <2>1 DEF Tasks, OnRecord, WrittenDown, Undelivered
  <1> QED
    BY <1>3, <1>4, <1>5, <1>6 DEF Duties

LEMMA DispatchDuties == ASSUME Duties, Dispatch PROVE Duties'
  BY AnswerOnlyDuties, FoldThreadDuties, OpenDuties, OpenFailsDuties, RecordDuties,
     QueueDuties, SendDuties, SendFailsDuties, AttachDuties, AttachedDuties,
     AttachFailsDuties, PumpedDuties, SettleDuties
  DEF Dispatch

LEMMA NextDuties == Duties /\ [DraftsNext]_<<vars, draftVars>> => Duties'
  <1> SUFFICES ASSUME Duties, [DraftsNext]_<<vars, draftVars>> PROVE Duties'
    OBVIOUS
  <1>1. CASE Next
    <2>1. CASE TakeCalls
      BY <2>1, TakeCallsDuties
    <2>2. CASE Dispatch
      BY <2>2, DispatchDuties
    <2>3. CASE Relaunch
      BY <2>3, RelaunchDuties
    <2>4. ASSUME NEW t \in Threads, \/ Ask(t) \/ TurnEnds(t) \/ AdapterGone(t)
                                    \/ UserPrompts(t) \/ Archive(t) \/ Delete(t)
          PROVE  Duties'
      BY <2>4, AskDuties, TurnEndsDuties, AdapterGoneDuties, UserPromptsDuties,
         ArchiveDuties, DeleteDuties
    <2>5. ASSUME NEW c \in Calls, GiveUp(c) PROVE Duties'
      BY <2>5, GiveUpDuties
    <2>6. ASSUME NEW b \in Bots, Edit(b) PROVE Duties'
      BY <2>6, EditDuties
    <2> QED
      BY <1>1, <2>1, <2>2, <2>3, <2>4, <2>5, <2>6 DEF Next
  <1>2. CASE DraftBot
    BY <1>2, DraftBotDuties
  <1>3. ASSUME NEW w \in Windows, List(w) PROVE Duties'
    BY <1>3, StutterDuties DEF List, vars
  <1>4. ASSUME NEW w \in Windows, NEW b \in Bots, Save(w, b) \/ Dismiss(w, b) PROVE Duties'
    BY <1>4, StutterDuties DEF Save, Dismiss
  <1>5. CASE UNCHANGED <<vars, draftVars>>
    BY <1>5, StutterDuties DEF vars
  <1> QED
    BY <1>1, <1>2, <1>3, <1>4, <1>5 DEF DraftsNext

LEMMA CallsFromDuties == Duties => CallsAreKept
  <1> SUFFICES ASSUME Duties PROVE CallsAreKept
    OBVIOUS
  <1>1. /\ TypeOK /\ OneFrame /\ Carried /\ Latest /\ ran \in Seq(Calls)
    BY DEF Duties, Shapes, Line
  <1>2. DOMAIN ran = 1..Len(ran) /\ Len(ran) \in Nat
    BY <1>1, LenProperties
  <1>3. UnderWay \subseteq {ran[Len(ran)]}
    <2>1. CASE frames = <<>>
      BY <2>1 DEF UnderWay
    <2>2. CASE frames # <<>>
      <3>1. PICK f \in Frames : frames = <<f>>
        BY <1>1, <2>2 DEF OneFrame
      <3>2. Top = f /\ DOMAIN frames = {1} /\ frames[1] = f
        BY <3>1, TheFrame
      <3>3. CASE f.step = "next"
        BY <3>2, <3>3 DEF UnderWay
      <3>4. CASE f.step # "next"
        <4>1. UnderWay = {Call}
          BY <3>2, <3>4 DEF UnderWay, Call
        <4>2. Call = ran[Len(ran)]
          BY <1>1, <2>2, <3>2, <3>4 DEF Latest
        <4> QED
          BY <4>1, <4>2
      <3> QED
        BY <3>3, <3>4
    <2> QED
      BY <2>1, <2>2
  <1>4. CallsInOrder
    <2> SUFFICES ASSUME NEW i \in DOMAIN ran, NEW j \in DOMAIN ran,
                        i < j, calls[ran[i]].by = calls[ran[j]].by
                 PROVE  ran[i] < ran[j] /\ ran[i] \notin UnderWay
      BY DEF CallsInOrder
    <2>1. ran[i] < ran[j]
      BY <1>1 DEF Carried
    <2>2. ran[i] \in Nat /\ ran[j] \in Nat
      <3>1. \A k \in 1..Len(ran) : ran[k] \in Calls
        BY <1>1, ElementOfSeq
      <3>2. Calls \subseteq Nat
        BY ChiefAssumption DEF Calls
      <3> QED
        BY <1>2, <3>1, <3>2
    <2>3. ran[i] # ran[Len(ran)]
      <3>1. CASE j = Len(ran)
        BY <2>1, <2>2, <3>1
      <3>2. CASE j # Len(ran)
        <4> DEFINE last == Len(ran)
        <4>1. last \in DOMAIN ran /\ j < last /\ i < last
          BY <1>2, <3>2
        <4>2. CASE calls[ran[last]].by = calls[ran[i]].by
          <5>1. ran[i] < ran[last]
            BY <1>1, <4>1, <4>2 DEF Carried
          <5> QED
            BY <2>2, <5>1
        <4>3. CASE calls[ran[last]].by # calls[ran[i]].by
          BY <4>3
        <4> QED
          BY <4>2, <4>3
      <3> QED
        BY <3>1, <3>2
    <2> QED
      BY <1>3, <2>1, <2>3
  <1>5. CutNeverRan
    BY <1>1 DEF CutNeverRan, Carried, Due, Range
  <1> QED
    BY <1>1, <1>4, <1>5 DEF CallsAreKept

LEMMA HandoffsFromDuties == Duties => HandoffsStand
  <1> SUFFICES ASSUME Duties PROVE HandoffsStand
    OBVIOUS
  <1>1. TasksAreOnRecord
    BY DEF Duties, Tasks, OnRecord, Given, TasksAreOnRecord
  <1>2. WorkIsInSight
    BY DEF Duties, Sight
  <1>3. OneStandingThread
    <2>1. Tombstones
      BY DEF Duties, Sight
    <2>2. Generations \subseteq Nat
      BY ChiefAssumption DEF Generations
    <2>3. \A g, h \in Generations : g # h => g < h \/ h < g
      BY <2>2
    <2> QED
      BY <2>1, <2>3 DEF Tombstones, OneStandingThread
  <1> QED
    BY <1>1, <1>2, <1>3 DEF HandoffsStand

LEMMA DutiesHold == DraftsSpec => []Duties
  BY InitDuties, NextDuties, PTL DEF DraftsSpec

\* However calls, adapters' ends, the user's moves and crashes interleave, the host
\* carries a session's calls out in the order they were made, one to its end before
\* the next, and no call whose agent was told that JaBot stopped was begun
\* (pump_chief_tools).
THEOREM CallsKept == DraftsSpec => []CallsAreKept
  BY DutiesHold, CallsFromDuties, PTL

\* At every point at which a crash can cut the work off, a task an agent has or will be given
\* is on record, waits where the user sees it, and a bot has one live standing
\* thread (handoff_to_bot, deliver, standing_thread_id).
THEOREM HandoffsHeld == DraftsSpec => []HandoffsStand
  BY DutiesHold, HandoffsFromDuties, PTL

-----------------------------------------------------------------------------
(* The drafts.  A draft keeps its first revision until it is decided, so a *)
(* window that names that revision has seen what is decided.               *)

Contents == Proposals \cup Edited \cup {None}
DraftRows == [status : {"none", "saved", "dismissed"} \cup Reviewable,
              proposal : Contents, revision : 0..2]
MadeRows == [as : Contents, shown : Contents]

\* What a window has read of a draft.
Reading(w, b) ==
    listed[w][b] # NoDraft =>
        /\ listed[w][b].revision = 1
        /\ drafts[b].status # "none"
        /\ drafts[b].status \in Reviewable => listed[w][b].proposal = drafts[b].proposal
Decisions ==
    /\ DraftTypeOK
    /\ made \in [Bots -> Seq(MadeRows)]
    /\ listed \in [Windows -> [Bots -> DraftRows]]
    /\ \A b \in Bots : /\ drafts[b].status \in Reviewable => drafts[b].revision = 1
                       /\ drafts[b].status = "none" => told[b] = {}
    /\ \A w \in Windows, b \in Bots : Reading(w, b)
Drafting == Decisions /\ ProposalsStand

LEMMA InitDrafting == DraftsInit => Drafting
  <1> SUFFICES ASSUME DraftsInit PROVE Drafting
    OBVIOUS
  <1>1. /\ drafts = [b \in Bots |-> NoDraft] /\ made = [b \in Bots |-> <<>>]
        /\ listed = [w \in Windows |-> [b \in Bots |-> NoDraft]]
        /\ told = [b \in Bots |-> {}]
    BY DEF DraftsInit
  <1>2. NoDraft \in DraftRows
    BY DEF NoDraft, DraftRows, Contents
  <1>3. DraftTypeOK
    BY <1>1, <1>2 DEF DraftTypeOK, DraftRows, Contents
  <1>4. <<>> \in Seq(MadeRows) /\ Len(<<>>) = 0 /\ DOMAIN <<>> = {}
    BY EmptySeq
  <1>5. Decisions
    BY <1>1, <1>2, <1>3, <1>4 DEF Decisions, Reading, NoDraft, Reviewable
  <1>6. ProposalsStand
    BY <1>1, <1>3, <1>4 DEF ProposalsStand, NoDraft
  <1> QED
    BY <1>5, <1>6 DEF Drafting

\* The rows as the invariant has them.
LEMMA DraftsParts ==
    ASSUME Drafting
    PROVE  /\ drafts \in [Bots -> DraftRows] /\ told \in [Bots -> SUBSET {"saved", "dismissed"}]
           /\ made \in [Bots -> Seq(MadeRows)] /\ listed \in [Windows -> [Bots -> DraftRows]]
           /\ \A b \in Bots :
                 /\ drafts[b].status \in Reviewable => drafts[b].revision = 1
                 /\ drafts[b].status = "none" => told[b] = {}
                 /\ Len(made[b]) = (IF drafts[b].status = "saved" THEN 1 ELSE 0)
                 /\ \A n \in DOMAIN made[b] : made[b][n].as \in {made[b][n].shown} \cup Edited
                 /\ \A verdict \in told[b] : drafts[b].status = verdict
           /\ \A w \in Windows, b \in Bots : Reading(w, b)
  BY DEF Drafting, Decisions, ProposalsStand, DraftTypeOK, DraftRows, Contents

LEMMA DraftingOf ==
    ASSUME drafts' \in [Bots -> DraftRows], told' \in [Bots -> SUBSET {"saved", "dismissed"}],
           made' \in [Bots -> Seq(MadeRows)], listed' \in [Windows -> [Bots -> DraftRows]],
           \A b \in Bots :
              /\ drafts'[b].status \in Reviewable => drafts'[b].revision = 1
              /\ drafts'[b].status = "none" => told'[b] = {}
              /\ Len(made'[b]) = (IF drafts'[b].status = "saved" THEN 1 ELSE 0)
              /\ \A n \in DOMAIN made'[b] : made'[b][n].as \in {made'[b][n].shown} \cup Edited
              /\ \A verdict \in told'[b] : drafts'[b].status = verdict,
           \A w \in Windows, b \in Bots : Reading(w, b)'
    PROVE  Drafting'
  BY DEF Drafting, Decisions, ProposalsStand, DraftTypeOK, DraftRows, Contents

\* The agent proposes: of a draft there is, nothing changes.
LEMMA DraftBotDrafting == ASSUME Drafting, DraftBot PROVE Drafting'
  <1>1. UNCHANGED <<made, listed, told>>
    BY DEF DraftBot
  <1>2. PICK proposal \in Proposals :
           drafts' = [drafts EXCEPT ![Owner(By)] = Inserted(@, proposal)]
    BY DEF DraftBot
  <1> DEFINE bot == Owner(By)
             row == [status |-> "pending", proposal |-> proposal, revision |-> 1]
  <1>3. row \in DraftRows /\ row.status = "pending" /\ row.revision = 1
    BY DEF DraftRows, Contents, Reviewable
  <1>4. \A b \in Bots : \/ drafts'[b] = drafts[b]
                        \/ drafts[b].status = "none" /\ drafts'[b] = row
    BY <1>2, DraftsParts DEF Inserted
  <1>5. drafts' \in [Bots -> DraftRows]
    <2>1. DOMAIN drafts' = Bots /\ drafts' = [b \in Bots |-> drafts'[b]]
      BY <1>2, DraftsParts
    <2> QED
      BY <1>3, <1>4, <2>1, DraftsParts
  <1> HIDE DEF row
  <1>6. \A b \in Bots :
           /\ drafts'[b].status \in Reviewable => drafts'[b].revision = 1
           /\ drafts'[b].status = "none" => told[b] = {}
           /\ Len(made[b]) = (IF drafts'[b].status = "saved" THEN 1 ELSE 0)
           /\ \A verdict \in told[b] : drafts'[b].status = verdict
    BY <1>3, <1>4, DraftsParts
  <1>7. \A w \in Windows, b \in Bots : Reading(w, b)'
    BY <1>1, <1>3, <1>4, DraftsParts DEF Reading
  <1> QED
    BY <1>1, <1>5, <1>6, <1>7, DraftsParts, DraftingOf

\* What a draft read anew is.
LEMMA RefreshedOf ==
    ASSUME Drafting, NEW b \in Bots
    PROVE  /\ Refreshed(b) \in DraftRows
           /\ Refreshed(b).proposal = drafts[b].proposal
           /\ Refreshed(b).revision = drafts[b].revision
           /\ \/ Refreshed(b).status = drafts[b].status
              \/ drafts[b].status = "pending" /\ Refreshed(b).status = "stale"
  BY DraftsParts DEF Refreshed, DraftRows, Reviewable

LEMMA ListDrafting == ASSUME Drafting, NEW w \in Windows, List(w) PROVE Drafting'
  <1>1. /\ UNCHANGED <<made, told>> /\ drafts' = [b \in Bots |-> Refreshed(b)]
        /\ listed' = [listed EXCEPT ![w] =
              [b \in Bots |-> IF drafts[b].status \in Reviewable THEN Refreshed(b) ELSE NoDraft]]
    BY DEF List
  <1>2. drafts' \in [Bots -> DraftRows]
    BY <1>1, RefreshedOf
  <1>3. listed' \in [Windows -> [Bots -> DraftRows]]
    <2>1. NoDraft \in DraftRows
      BY DEF NoDraft, DraftRows, Contents
    <2>2. [b \in Bots |-> IF drafts[b].status \in Reviewable THEN Refreshed(b) ELSE NoDraft]
             \in [Bots -> DraftRows]
      BY <2>1, RefreshedOf
    <2> QED
      BY <1>1, <2>2, DraftsParts
  <1>4. \A b \in Bots :
           /\ drafts'[b].revision = drafts[b].revision
           /\ drafts'[b].proposal = drafts[b].proposal
           /\ \/ drafts'[b].status = drafts[b].status
              \/ drafts[b].status = "pending" /\ drafts'[b].status = "stale"
    BY <1>1, RefreshedOf
  <1>5. \A b \in Bots :
           /\ drafts'[b].status \in Reviewable => drafts'[b].revision = 1
           /\ drafts'[b].status = "none" => told[b] = {}
           /\ Len(made[b]) = (IF drafts'[b].status = "saved" THEN 1 ELSE 0)
           /\ \A verdict \in told[b] : drafts'[b].status = verdict
    <2> SUFFICES ASSUME NEW b \in Bots
                 PROVE  /\ drafts'[b].status \in Reviewable => drafts'[b].revision = 1
                        /\ drafts'[b].status = "none" => told[b] = {}
                        /\ Len(made[b]) = (IF drafts'[b].status = "saved" THEN 1 ELSE 0)
                        /\ \A verdict \in told[b] : drafts'[b].status = verdict
      OBVIOUS
    <2>1. /\ told[b] \subseteq {"saved", "dismissed"}
          /\ drafts[b].status \in Reviewable => drafts[b].revision = 1
          /\ drafts[b].status = "none" => told[b] = {}
          /\ Len(made[b]) = (IF drafts[b].status = "saved" THEN 1 ELSE 0)
          /\ \A verdict \in told[b] : drafts[b].status = verdict
      BY DraftsParts
    <2>2. CASE drafts'[b].status = drafts[b].status
      BY <1>4, <2>1, <2>2
    <2>3. CASE drafts[b].status = "pending" /\ drafts'[b].status = "stale"
      <3>1. told[b] = {}
        BY <2>1, <2>3
      <3> QED
        BY <1>4, <2>1, <2>3, <3>1 DEF Reviewable
    <2> QED
      BY <1>4, <2>2, <2>3
  <1>6. ASSUME NEW v \in Windows, NEW b \in Bots PROVE Reading(v, b)'
    <2>1. CASE v = w
      <3>1. listed'[v][b] = IF drafts[b].status \in Reviewable THEN Refreshed(b) ELSE NoDraft
        BY <1>1, <2>1, DraftsParts
      <3>2. drafts'[b] = Refreshed(b)
        BY <1>1
      <3> QED
        BY <1>4, <3>1, <3>2, DraftsParts DEF Reading, Reviewable
    <2>2. CASE v # w
      <3>1. listed'[v][b] = listed[v][b]
        BY <1>1, <2>2, DraftsParts
      <3>2. Reading(v, b)
        BY DraftsParts
      <3> QED
        BY <1>4, <3>1, <3>2 DEF Reading, Reviewable
    <2> QED
      BY <2>1, <2>2
  <1> QED
    BY <1>1, <1>2, <1>3, <1>5, <1>6, DraftsParts, DraftingOf

\* A decision that the draft no longer waits for at most refreshes it.
LEMMA DecidedDrafting ==
    ASSUME Drafting, NEW b \in Bots, NEW row \in DraftRows, NEW verdict \in {"saved", "dismissed"},
           drafts' = [drafts EXCEPT ![b] = row],
           UNCHANGED <<made, listed>>,
           row.revision = drafts[b].revision, row.proposal = drafts[b].proposal,
           \/ row.status = drafts[b].status
           \/ drafts[b].status = "pending" /\ row.status = "stale",
           \/ UNCHANGED told
           \/ row.status = verdict /\ told' = [told EXCEPT ![b] = @ \cup {verdict}]
    PROVE  Drafting'
  <1>1. drafts' \in [Bots -> DraftRows] /\ told' \in [Bots -> SUBSET {"saved", "dismissed"}]
    <2>1. told[b] \cup {verdict} \in SUBSET {"saved", "dismissed"}
      BY DraftsParts
    <2> QED
      BY <2>1, DraftsParts
  <1>2. \A a \in Bots : drafts'[a] = (IF a = b THEN row ELSE drafts[a])
    BY DraftsParts
  <1>3. \A a \in Bots :
           \/ told'[a] = told[a]
           \/ a = b /\ row.status = verdict /\ told'[a] = told[a] \cup {verdict}
    BY DraftsParts
  <1>4. \A a \in Bots : told[a] \subseteq {"saved", "dismissed"}
    BY DraftsParts
  <1>5. \A a \in Bots :
           /\ drafts'[a].status \in Reviewable => drafts'[a].revision = 1
           /\ drafts'[a].status = "none" => told'[a] = {}
           /\ Len(made[a]) = (IF drafts'[a].status = "saved" THEN 1 ELSE 0)
    BY <1>2, <1>3, <1>4, DraftsParts DEF Reviewable
  <1>6. \A a \in Bots : \A v \in told'[a] : drafts'[a].status = v
    BY <1>2, <1>3, <1>4, DraftsParts DEF Reviewable
  <1>7. \A w \in Windows, a \in Bots : Reading(w, a)'
    BY <1>2, DraftsParts DEF Reading, Reviewable
  <1> QED
    BY <1>1, <1>5, <1>6, <1>7, DraftsParts, DraftingOf

\* The decision that ends the draft.
LEMMA DecidesDrafting ==
    ASSUME Drafting, NEW w \in Windows, NEW b \in Bots, NEW row \in DraftRows,
           drafts[b].status \in Reviewable, row.status \in {"saved", "dismissed"},
           drafts' = [drafts EXCEPT ![b] = row], UNCHANGED listed,
           told' = [told EXCEPT ![b] = @ \cup {row.status}],
           row.status = "dismissed" => UNCHANGED made,
           row.status = "saved" =>
              /\ row.proposal \in {listed[w][b].proposal} \cup Edited
              /\ made' = [made EXCEPT ![b] =
                             Append(@, [as |-> row.proposal, shown |-> listed[w][b].proposal])]
    PROVE  Drafting'
  <1>1. drafts' \in [Bots -> DraftRows] /\ told' \in [Bots -> SUBSET {"saved", "dismissed"}]
    BY DraftsParts
  <1>2. \A a \in Bots : drafts'[a] = (IF a = b THEN row ELSE drafts[a])
    BY DraftsParts
  <1>3. told[b] = {} /\ drafts[b].status \notin {"none", "saved", "dismissed"}
    <2>1. told[b] \subseteq {"saved", "dismissed"}
      BY DraftsParts
    <2> QED
      BY <2>1, DraftsParts DEF Reviewable
  <1>4. \A a \in Bots : told'[a] = (IF a = b THEN {row.status} ELSE told[a])
    BY <1>3, DraftsParts
  <1> DEFINE bot == [as |-> row.proposal, shown |-> listed[w][b].proposal]
  <1>5. bot \in MadeRows /\ bot.as = row.proposal /\ bot.shown = listed[w][b].proposal
    <2>1. listed[w][b] \in DraftRows
      BY DraftsParts
    <2>2. listed[w][b].proposal \in Contents /\ row.proposal \in Contents
      BY <2>1 DEF DraftRows
    <2> QED
      BY <2>2 DEF MadeRows
  <1> HIDE DEF bot
  <1>6. made[b] \in Seq(MadeRows) /\ Len(made[b]) = 0
    BY <1>3, DraftsParts
  <1>7. /\ made' \in [Bots -> Seq(MadeRows)]
        /\ \A a \in Bots : a # b => made'[a] = made[a]
        /\ Len(made'[b]) = (IF row.status = "saved" THEN 1 ELSE 0)
        /\ \A n \in DOMAIN made'[b] : made'[b][n].as \in {made'[b][n].shown} \cup Edited
    <2>1. CASE row.status = "dismissed"
      BY <1>6, <2>1, DraftsParts
    <2>2. CASE row.status = "saved"
      <3>1. made' = [made EXCEPT ![b] = Append(made[b], bot)]
        BY <2>2 DEF bot
      <3>2. /\ Append(made[b], bot) \in Seq(MadeRows) /\ Len(Append(made[b], bot)) = 1
            /\ Append(made[b], bot)[1] = bot
        <4>1. /\ Append(made[b], bot) \in Seq(MadeRows)
              /\ Len(Append(made[b], bot)) = Len(made[b]) + 1
              /\ Append(made[b], bot)[Len(made[b]) + 1] = bot
          BY <1>5, <1>6, AppendProperties
        <4> QED
          BY <1>6, <4>1
      <3>3. DOMAIN Append(made[b], bot) = {1}
        BY <3>2, LenProperties
      <3>4. made'[b] = Append(made[b], bot) /\ \A a \in Bots : a # b => made'[a] = made[a]
        BY <3>1, DraftsParts
      <3>5. made' \in [Bots -> Seq(MadeRows)]
        BY <3>1, <3>2, DraftsParts
      <3> QED
        BY <1>5, <2>2, <3>2, <3>3, <3>4, <3>5
    <2> QED
      BY <2>1, <2>2
  <1>8. \A a \in Bots :
           /\ drafts'[a].status \in Reviewable => drafts'[a].revision = 1
           /\ drafts'[a].status = "none" => told'[a] = {}
           /\ Len(made'[a]) = (IF drafts'[a].status = "saved" THEN 1 ELSE 0)
           /\ \A n \in DOMAIN made'[a] : made'[a][n].as \in {made'[a][n].shown} \cup Edited
           /\ \A v \in told'[a] : drafts'[a].status = v
    BY <1>2, <1>4, <1>7, DraftsParts DEF Reviewable
  <1>9. \A v \in Windows, a \in Bots : Reading(v, a)'
    BY <1>2, DraftsParts DEF Reading, Reviewable
  <1> QED
    BY <1>1, <1>7, <1>8, <1>9, DraftsParts, DraftingOf

LEMMA SaveDrafting ==
    ASSUME Drafting, NEW w \in Windows, NEW b \in Bots, Save(w, b)
    PROVE  Drafting'
  <1>1. /\ listed[w][b] # NoDraft /\ UNCHANGED listed
        /\ \E given \in {None, listed[w][b].proposal} \cup Edited : SaveTook(w, b, given)
    BY DEF Save
  <1>2. PICK given \in {None, listed[w][b].proposal} \cup Edited : SaveTook(w, b, given)
    BY <1>1
  <1> DEFINE content == IF given = None THEN Refreshed(b).proposal ELSE given
             row == [status |-> "saved", proposal |-> content,
                     revision |-> Refreshed(b).revision + 1]
  <1>3. Reading(w, b) /\ listed[w][b] \in DraftRows
    BY DraftsParts
  <1>4. CASE /\ Refreshed(b).status \in Reviewable
             /\ Refreshed(b).revision = listed[w][b].revision
    <2>1. drafts[b].status \in Reviewable /\ Refreshed(b).revision = 1
      BY <1>1, <1>3, <1>4, RefreshedOf DEF Reading, Reviewable
    <2>2. content \in {listed[w][b].proposal} \cup Edited /\ content \in Contents
      <3>1. Refreshed(b).proposal = listed[w][b].proposal
        BY <1>1, <1>3, <2>1, RefreshedOf DEF Reading
      <3>2. listed[w][b].proposal \in Contents
        BY <1>3 DEF DraftRows
      <3> QED
        BY <3>1, <3>2 DEF Contents
    <2>3. row \in DraftRows /\ row.status = "saved" /\ row.proposal = content
      <3> HIDE DEF content
      <3> QED
        BY <2>1, <2>2 DEF DraftRows
    <2>4. /\ drafts' = [drafts EXCEPT ![b] = row]
          /\ made' = [made EXCEPT ![b] =
                         Append(@, [as |-> content, shown |-> listed[w][b].proposal])]
          /\ told' = [told EXCEPT ![b] = @ \cup {"saved"}]
      BY <1>2, <1>4 DEF SaveTook, Tell
    <2> HIDE DEF row, content
    <2> QED
      BY <1>1, <2>1, <2>2, <2>3, <2>4, DecidesDrafting
  <1>5. CASE ~(/\ Refreshed(b).status \in Reviewable
               /\ Refreshed(b).revision = listed[w][b].revision)
    <2>1. /\ drafts' = [drafts EXCEPT ![b] = Refreshed(b)] /\ UNCHANGED <<made, listed>>
          /\ \/ Refreshed(b).status = "saved" /\ told' = [told EXCEPT ![b] = @ \cup {"saved"}]
             \/ UNCHANGED told
      BY <1>1, <1>2, <1>5 DEF SaveTook, Tell
    <2> DEFINE kept == Refreshed(b)
    <2>2. /\ kept \in DraftRows /\ kept.revision = drafts[b].revision
          /\ kept.proposal = drafts[b].proposal
          /\ \/ kept.status = drafts[b].status
             \/ drafts[b].status = "pending" /\ kept.status = "stale"
      BY RefreshedOf
    <2> HIDE DEF kept
    <2>3. "saved" \in {"saved", "dismissed"} /\ drafts' = [drafts EXCEPT ![b] = kept]
      BY <2>1 DEF kept
    <2>4. \/ UNCHANGED told
          \/ kept.status = "saved" /\ told' = [told EXCEPT ![b] = @ \cup {"saved"}]
      BY <2>1 DEF kept
    <2> QED
      BY <2>1, <2>2, <2>3, <2>4, DecidedDrafting
  <1> QED
    BY <1>4, <1>5

LEMMA DismissDrafting ==
    ASSUME Drafting, NEW w \in Windows, NEW b \in Bots, Dismiss(w, b)
    PROVE  Drafting'
  <1> DEFINE takes == /\ drafts[b].status \in Reviewable
                      /\ drafts[b].revision = listed[w][b].revision
             row == [status |-> "dismissed", proposal |-> drafts[b].proposal,
                     revision |-> drafts[b].revision + 1]
  <1>1. drafts[b] \in DraftRows /\ UNCHANGED <<made, listed>>
    BY DraftsParts DEF Dismiss
  <1>2. CASE takes
    <2>1. drafts[b].status \in Reviewable /\ drafts[b].revision = 1
      BY <1>2, DraftsParts
    <2>2. row \in DraftRows /\ row.status = "dismissed"
      <3>1. drafts[b].revision + 1 = 2
        BY <2>1
      <3>2. row = [status |-> "dismissed", proposal |-> drafts[b].proposal, revision |-> 2]
        BY <1>1, <3>1 DEF DraftRows
      <3>3. drafts[b].proposal \in Contents
        BY <1>1 DEF DraftRows
      <3> HIDE DEF row
      <3> QED
        BY <3>2, <3>3 DEF DraftRows
    <2>3. /\ drafts' = [drafts EXCEPT ![b] = row]
          /\ told' = [told EXCEPT ![b] = @ \cup {"dismissed"}]
      <3>1. drafts' = [drafts EXCEPT ![b] = row]
        BY <1>2 DEF Dismiss
      <3>2. told' = [told EXCEPT ![b] = @ \cup {"dismissed"}]
        BY <1>2 DEF Dismiss, Tell
      <3> HIDE DEF row
      <3> QED
        BY <3>1, <3>2
    <2> HIDE DEF row
    <2> QED
      BY <1>1, <2>1, <2>2, <2>3, DecidesDrafting
  <1>3. CASE ~takes
    <2>1. /\ drafts' = drafts
          /\ \/ UNCHANGED told
             \/ /\ drafts[b].status = "dismissed"
                /\ told' = [told EXCEPT ![b] = @ \cup {"dismissed"}]
      BY <1>3 DEF Dismiss, Tell
    <2>2. drafts' = [drafts EXCEPT ![b] = drafts[b]]
      BY <2>1, DraftsParts
    <2> QED
      BY <1>1, <2>1, <2>2, DecidedDrafting
  <1> QED
    BY <1>2, <1>3

LEMMA NextDrafting == Drafting /\ [DraftsNext]_<<vars, draftVars>> => Drafting'
  <1> SUFFICES ASSUME Drafting, [DraftsNext]_<<vars, draftVars>> PROVE Drafting'
    OBVIOUS
  <1>1. CASE UNCHANGED draftVars
    BY <1>1, DraftsParts, DraftingOf DEF draftVars, Reading
  <1>2. CASE DraftBot
    BY <1>2, DraftBotDrafting
  <1>3. ASSUME NEW w \in Windows, List(w) PROVE Drafting'
    BY <1>3, ListDrafting
  <1>4. ASSUME NEW w \in Windows, NEW b \in Bots, Save(w, b) \/ Dismiss(w, b)
        PROVE  Drafting'
    BY <1>4, SaveDrafting, DismissDrafting
  <1> QED
    BY <1>1, <1>2, <1>3, <1>4 DEF DraftsNext

\* However often an agent proposes, however its tool comes and goes, and however the
\* windows' decisions cross and are repeated, a draft makes one bot at most, of what
\* the deciding window showed or of the user's own words, and no two windows are told
\* of different ends (insert_draft, save_draft, dismiss_draft).
THEOREM ProposalsHold == DraftsSpec => []ProposalsStand
  <1>1. Drafting => ProposalsStand
    BY DEF Drafting
  <1> QED
    BY <1>1, InitDrafting, NextDrafting, PTL DEF DraftsSpec

=============================================================================
