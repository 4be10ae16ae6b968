----------------------------- MODULE PoolProofs ------------------------------
(***************************************************************************)
(* What holds of a process shared by any number of threads, sessions and   *)
(* prompts, and of the adapter for Aider with any number of turns, cancels *)
(* and adapters that are given up.  The shared process comes first; its    *)
(* invariant has layers, each proved with the help of the ones before it.  *)
(***************************************************************************)
EXTENDS Aider, FiniteSetTheorems, SequenceTheorems, TLAPS

-----------------------------------------------------------------------------
(* The first layer: types, the call the host is in, the prompts promised.  *)

\* An event as the reader makes it.
Read ==
    {e \in Events :
        /\ e.type # "closed" => e.session \in Sessions
        /\ e.named => e.type \notin {"closed", "result"}
        /\ e.type = "result" => e.id \in Requests
        /\ e.type \in {"permission", "extension"} => e.id \in 1..MaxAsks}
Conns == [up : BOOLEAN, ready : BOOLEAN, sessions : [Threads -> 0..MaxSessions],
          bySession : [Sessions -> Threads \cup {Nobody}],
          owners : [Requests -> Threads \cup {Nobody}]]
Agents == [alive : BOOLEAN, eof : BOOLEAN, able : SUBSET {"resume", "load", "close", "states"},
           open : SUBSET Sessions,
           turns : SUBSET [id : Requests, session : Sessions],
           blocked : SUBSET [id : 1..MaxAsks, session : Sessions,
                             type : {"permission", "extension"}]]
Calls == [at : {"none", "initialize", "resume", "load", "new", "settling", "send"},
          thread : Threads \cup {Nobody}, why : {"prompt", "resume"},
          session : 0..MaxSessions, reply : {"none", "yes", "no"}]
Counts == [prompts : 0..MaxPrompts, updates : 0..MaxUpdates, asks : 0..MaxAsks,
           procs : 0..MaxProcs, leaves : 0..MaxLeaves]

Types ==
    /\ stored \in [Threads -> 0..MaxSessions]
    /\ transcript \in [Threads -> SUBSET Sessions]
    /\ run \in [Threads -> 0..MaxPrompts] /\ early \in SUBSET Requests
    /\ up \in BOOLEAN
    /\ conn \in Conns
    /\ queue \in Seq(Read)
    /\ phase \in {"idle", "pump", "settle", "handle"}
    /\ batch \in Seq([to : Threads, event : Read, by : {"pump", "settle"}])
    /\ call \in Calls
    /\ held \in [Threads -> SUBSET (1..MaxAsks)]
    /\ waiting \in [Threads -> BOOLEAN]
    /\ agent \in Agents
    /\ made \in Seq(Threads) /\ Len(made) <= MaxSessions
    /\ count \in Counts

\* The call has a thread; it knows the session where it has one; and nothing is
\* drained in the middle of one, but to settle a replay.
CallMade ==
    /\ call.at = "none" => call = NoCall
    /\ call.at # "none" => call.thread \in Threads
    /\ call.at \in {"resume", "load", "settling", "send"} => call.session \in Sessions
    /\ call.at \in {"resume", "load"} => call.session = stored[call.thread]
    /\ call.at = "new" /\ call.reply = "yes" => call.session \in Sessions
    /\ call.at = "send" => call.why = "prompt"
    /\ call.at \notin {"none", "settling"} => phase = "idle"
    /\ phase = "settle" => call.at = "settling"
    /\ phase = "idle" => batch = <<>>

\* The prompt that an attachment is for has a place kept for it.
Kept == IF call.at # "none" /\ call.why = "prompt" THEN 1 ELSE 0
Room == Promised + Kept <= MaxPrompts

-----------------------------------------------------------------------------
(* The second layer: who rides the process.                                *)

\* A connection that is gone left nothing behind.
Down == ~conn.up => conn = NoConn /\ agent = NoAgent /\ queue = <<>>
\* A call that attaches has a process under it.
CallRides == call.at \in {"initialize", "resume", "load", "new"} => conn.up
\* An open run rides, and so does a thread that holds a prompt back.
RunRides ==
    \A t \in Threads :
        /\ run[t] # 0 => conn.sessions[t] # 0
        /\ waiting[t] => conn.sessions[t] # 0
\* The thread of a call has no run and holds nothing back, and rides when the
\* prompt is sent, or else the pipe is closed.
CallIdle ==
    call.at # "none" =>
        /\ run[call.thread] = 0 /\ ~waiting[call.thread]
        /\ call.at \in {"settling", "send"} /\ PipeOpen => conn.sessions[call.thread] # 0
\* End of file is the last the reader says of a process.
ClosedIsDead ==
    /\ \A i \in DOMAIN queue : queue[i].type = "closed" => ~PipeOpen
    /\ \A i \in DOMAIN batch : batch[i].event.type = "closed" => ~PipeOpen
Riding == Down /\ CallRides /\ RunRides /\ CallIdle /\ ClosedIsDead

-----------------------------------------------------------------------------
(* The third layer: an answer is for one prompt.                           *)

ResultsOf(q) == {i \in DOMAIN q : q[i].type = "result"}
ResultsIn(b) == {i \in DOMAIN b : b[i].event.type = "result"}

\* The owner of a prompt is the thread whose run it is, or was until it ended early.
OwnerRuns ==
    \A r \in Requests : conn.owners[r] # Nobody => r \in early \/ run[conn.owners[r]] = r
\* The thread has no run but that of this prompt, and nothing waits behind another.
Awaits(t, id) == run[t] \in {0, id} /\ (waiting[t] => run[t] # 0)
\* The same of the state after the step.
AwaitsNext(t, id) == run'[t] \in {0, id} /\ (waiting'[t] => run'[t] # 0)
\* An answer that is handed out is no longer owed.
HandedOut ==
    \A i \in ResultsIn(batch) :
        /\ conn.owners[batch[i].event.id] = Nobody
        /\ batch[i].event.id \in early \/ Awaits(batch[i].to, batch[i].event.id)
\* A prompt is answered once: by the turn, the queue or the batch.
Fresh ==
    /\ \A x \in agent.turns : x.id <= count.prompts
    /\ \A i \in ResultsOf(queue) : queue[i].id <= count.prompts
    /\ \A i \in ResultsIn(batch) : batch[i].event.id <= count.prompts
    /\ \A r \in Requests : conn.owners[r] # Nobody => r <= count.prompts
Once ==
    /\ \A x, y \in agent.turns : x.id = y.id => x = y
    /\ \A i, j \in ResultsOf(queue) : queue[i].id = queue[j].id => i = j
    /\ \A i, j \in ResultsIn(batch) : batch[i].event.id = batch[j].event.id => i = j
    /\ \A x \in agent.turns, i \in ResultsOf(queue) : x.id # queue[i].id
    /\ \A x \in agent.turns, i \in ResultsIn(batch) : x.id # batch[i].event.id
    /\ \A i \in ResultsOf(queue), j \in ResultsIn(batch) : queue[i].id # batch[j].event.id
Answering == OwnerRuns /\ HandedOut /\ Fresh /\ Once

-----------------------------------------------------------------------------
(* The fourth layer: a session serves the thread it was made for.          *)

MadeFor(s, t) == s \in DOMAIN made /\ made[s] = t

StoredMade == \A t \in Threads : stored[t] # 0 => MadeFor(stored[t], t)
TablesMade ==
    /\ \A t \in Threads : conn.sessions[t] # 0 => MadeFor(conn.sessions[t], t)
    /\ \A s \in Sessions : conn.bySession[s] # Nobody => MadeFor(s, conn.bySession[s])
CallForMade ==
    call.at \in {"settling", "send"} \/ (call.at = "new" /\ call.reply = "yes")
        => MadeFor(call.session, call.thread)
SessionsMade == StoredMade /\ TablesMade /\ CallForMade
OwnedTurns ==
    /\ \A x \in agent.turns : conn.owners[x.id] # Nobody => MadeFor(x.session, conn.owners[x.id])
    /\ \A i \in ResultsOf(queue) :
          conn.owners[queue[i].id] # Nobody => MadeFor(queue[i].session, conn.owners[queue[i].id])
HandedHome ==
    \A i \in DOMAIN batch :
        batch[i].by = "pump" /\ (batch[i].event.named \/ batch[i].event.type = "result")
            => MadeFor(batch[i].event.session, batch[i].to)
Homing == SessionsMade /\ OwnedTurns /\ HandedHome

Layers == Types /\ CallMade /\ Room /\ Riding /\ Answering /\ Homing /\ ExtensionIsHeld

-----------------------------------------------------------------------------
(* The operators the model is built from.                                  *)

\* A set of n elements in sequence: each of them is there, once.
LEMMA InSequence ==
    ASSUME NEW S, IsFiniteSet(S)
    PROVE  /\ Cardinality(S) \in Nat
           /\ SetToSeq(S) \in [1..Cardinality(S) -> S]
           /\ \A x \in S : \E i \in 1..Cardinality(S) : SetToSeq(S)[i] = x
           /\ \A i, j \in 1..Cardinality(S) : SetToSeq(S)[i] = SetToSeq(S)[j] => i = j
  <1> DEFINE n == Cardinality(S)
             Fits(f) == f \in [1..n -> S] /\ IsInjective(f)
  <1>1. n \in Nat /\ ExistsBijection(1..n, S)
    BY FS_CardinalityType
  <1>2. PICK f : f \in Bijection(1..n, S)
    BY <1>1 DEF ExistsBijection
  <1>3. Fits(f)
    BY <1>2 DEF Bijection, Injection, IsInjective
  <1>4. Fits(SetToSeq(S))
    BY <1>3 DEF SetToSeq
  <1>5. IsFiniteSet(1..n) /\ Cardinality(1..n) = n
    <2>1. 1 \in Int /\ n \in Int
      BY <1>1
    <2> QED
      BY <1>1, <2>1, FS_Interval
  <1>6. SetToSeq(S) \in Injection(1..n, S)
    BY <1>4 DEF Injection
  <1>7. SetToSeq(S) \in Surjection(1..n, S)
    BY <1>5, <1>6, FS_Injection
  <1> QED
    BY <1>1, <1>4, <1>7 DEF Surjection, IsInjective

\* A function from the first n numbers is a sequence.
LEMMA IsSequence ==
    ASSUME NEW T, NEW n \in Nat, NEW f \in [1..n -> T]
    PROVE  f \in Seq(T)
  <1>1. [1..n -> T] \in {[1..k -> T] : k \in Nat}
    OBVIOUS
  <1>2. f \in UNION {[1..k -> T] : k \in Nat}
    BY <1>1
  <1> QED
    BY <1>2, SeqDef

\* What is handed out is the event, once to each of its owners.
LEMMA HandedOn ==
    ASSUME NEW S \in SUBSET Threads, NEW e, NEW how
    PROVE  /\ Len(Handed(S, e, how)) = Cardinality(S) /\ Cardinality(S) \in Nat
           /\ Handed(S, e, how) \in Seq([to : S, event : {e}, by : {how}])
           /\ S # {} => Cardinality(S) # 0
  <1>1. IsFiniteSet(S)
    BY PoolAssumption, FS_Subset
  <1>2. /\ Cardinality(S) \in Nat
        /\ SetToSeq(S) \in [1..Cardinality(S) -> S]
    BY <1>1, InSequence
  <1> DEFINE one(i) == [to |-> SetToSeq(S)[i], event |-> e, by |-> how]
  <1>3. \A i \in 1..Cardinality(S) : one(i) \in [to : S, event : {e}, by : {how}]
    BY <1>2
  <1>4. Handed(S, e, how) = [i \in 1..Cardinality(S) |-> one(i)]
    BY DEF Handed
  <1>5. [i \in 1..Cardinality(S) |-> one(i)] \in [1..Cardinality(S) -> [to : S, event : {e}, by : {how}]]
    BY <1>3
  <1>6. Handed(S, e, how) \in Seq([to : S, event : {e}, by : {how}])
    <2> HIDE DEF one
    <2> QED
      BY <1>2, <1>4, <1>5, IsSequence
  <1>7. Len(Handed(S, e, how)) = Cardinality(S)
    BY <1>2, <1>4
  <1>8. S # {} => Cardinality(S) # 0
    BY <1>1, FS_EmptySet
  <1> QED
    BY <1>2, <1>6, <1>7, <1>8

\* A queue read to the end, or by one event.
LEMMA TailOf ==
    ASSUME NEW T, NEW q \in Seq(T), q # <<>>
    PROVE  /\ Head(q) \in T /\ Head(q) = q[1] /\ 1 \in DOMAIN q
           /\ Tail(q) \in Seq(T)
           /\ \A i \in DOMAIN Tail(q) : i + 1 \in DOMAIN q /\ Tail(q)[i] = q[i + 1]
           /\ \A i \in DOMAIN q : i # 1 => i - 1 \in DOMAIN Tail(q) /\ Tail(q)[i - 1] = q[i]
  <1>1. /\ Head(q) \in T /\ Tail(q) \in Seq(T) /\ Len(Tail(q)) = Len(q) - 1
        /\ \A i \in 1..Len(Tail(q)) : Tail(q)[i] = q[i + 1]
    BY HeadTailProperties
  <1>2. DOMAIN q = 1..Len(q) /\ Len(q) \in Nat \ {0}
    BY LenProperties, EmptySeq
  <1>3. DOMAIN Tail(q) = 1..Len(Tail(q)) /\ Len(Tail(q)) \in Nat
    BY <1>1, LenProperties
  <1>4. Head(q) = q[1]
    BY DEF Head
  <1>5. \A i \in DOMAIN q : i # 1 => i - 1 \in 1..Len(Tail(q)) /\ (i - 1) + 1 = i
    BY <1>1, <1>2, <1>3
  <1> QED
    BY <1>1, <1>2, <1>3, <1>4, <1>5

\* A queue with an event more.
LEMMA AppendOf ==
    ASSUME NEW T, NEW q \in Seq(T), NEW e \in T
    PROVE  /\ Append(q, e) \in Seq(T)
           /\ Len(q) + 1 \in DOMAIN Append(q, e) /\ Append(q, e)[Len(q) + 1] = e
           /\ \A i \in DOMAIN q : i \in DOMAIN Append(q, e) /\ Append(q, e)[i] = q[i]
           /\ \A i \in DOMAIN Append(q, e) :
                 \/ i \in DOMAIN q
                 \/ i = Len(q) + 1
  <1>1. /\ Append(q, e) \in Seq(T) /\ Len(Append(q, e)) = Len(q) + 1
        /\ \A i \in 1..Len(q) : Append(q, e)[i] = q[i]
        /\ Append(q, e)[Len(q) + 1] = e
    BY AppendProperties
  <1>2. DOMAIN q = 1..Len(q) /\ Len(q) \in Nat
    BY LenProperties
  <1>3. DOMAIN Append(q, e) = 1..(Len(q) + 1)
    BY <1>1, LenProperties
  <1> QED
    BY <1>1, <1>2, <1>3

\* A sequence after another.
LEMMA ConcatOf ==
    ASSUME NEW T, NEW p \in Seq(T), NEW q \in Seq(T)
    PROVE  /\ p \o q \in Seq(T)
           /\ \A i \in DOMAIN p : i \in DOMAIN (p \o q) /\ (p \o q)[i] = p[i]
           /\ \A j \in DOMAIN q : Len(p) + j \in DOMAIN (p \o q) /\ (p \o q)[Len(p) + j] = q[j]
           /\ \A i \in DOMAIN (p \o q) :
                 \/ i \in DOMAIN p
                 \/ i - Len(p) \in DOMAIN q /\ (p \o q)[i] = q[i - Len(p)]
                    /\ i = Len(p) + (i - Len(p))
  <1>1. /\ p \o q \in Seq(T) /\ Len(p \o q) = Len(p) + Len(q)
        /\ \A i \in 1..(Len(p) + Len(q)) :
              (p \o q)[i] = IF i <= Len(p) THEN p[i] ELSE q[i - Len(p)]
    BY ConcatProperties
  <1>2. DOMAIN p = 1..Len(p) /\ Len(p) \in Nat /\ DOMAIN q = 1..Len(q) /\ Len(q) \in Nat
    BY LenProperties
  <1>3. DOMAIN (p \o q) = 1..(Len(p) + Len(q))
    BY <1>1, LenProperties
  <1>4. \A j \in DOMAIN q : /\ Len(p) + j \in 1..(Len(p) + Len(q)) /\ ~(Len(p) + j <= Len(p))
                            /\ (Len(p) + j) - Len(p) = j
    BY <1>2
  <1>5. \A i \in DOMAIN p : i \in 1..(Len(p) + Len(q)) /\ i <= Len(p)
    BY <1>2
  <1>6. \A i \in 1..(Len(p) + Len(q)) : i \notin 1..Len(p) =>
           /\ ~(i <= Len(p)) /\ i - Len(p) \in 1..Len(q) /\ i = Len(p) + (i - Len(p))
    BY <1>2
  <1> QED
    BY <1>1, <1>2, <1>3, <1>4, <1>5, <1>6

-----------------------------------------------------------------------------
(* The tables of a connection.                                             *)

\* What a thread's leaving does to them.
LEMMA Released ==
    ASSUME NEW c \in Conns, NEW ts \in SUBSET Threads
    PROVE  /\ Release(c, ts) \in Conns
           /\ Release(c, ts).up = c.up
           /\ \A t \in Threads : Release(c, ts).sessions[t] = IF t \in ts THEN 0 ELSE c.sessions[t]
           /\ \A s \in Sessions :
                 Release(c, ts).bySession[s] = IF c.bySession[s] \in ts THEN Nobody ELSE c.bySession[s]
           /\ \A r \in Requests :
                 Release(c, ts).owners[r] = IF c.owners[r] \in ts THEN Nobody ELSE c.owners[r]
  <1>2. /\ c.up \in BOOLEAN /\ c.ready \in BOOLEAN
        /\ c.sessions \in [Threads -> 0..MaxSessions]
        /\ c.bySession \in [Sessions -> Threads \cup {Nobody}]
        /\ c.owners \in [Requests -> Threads \cup {Nobody}]
    BY DEF Conns
  <1>3. 0 \in 0..MaxSessions
    BY PoolAssumption
  <1> DEFINE r == [up |-> c.up, ready |-> c.ready,
                   sessions |-> [t \in Threads |-> IF t \in ts THEN 0 ELSE c.sessions[t]],
                   bySession |-> [x \in Sessions |-> IF c.bySession[x] \in ts THEN Nobody ELSE c.bySession[x]],
                   owners |-> [x \in Requests |-> IF c.owners[x] \in ts THEN Nobody ELSE c.owners[x]]]
             ss == [t \in Threads |-> IF t \in ts THEN 0 ELSE c.sessions[t]]
             bb == [x \in Sessions |-> IF c.bySession[x] \in ts THEN Nobody ELSE c.bySession[x]]
             oo == [x \in Requests |-> IF c.owners[x] \in ts THEN Nobody ELSE c.owners[x]]
  <1>4. Release(c, ts) = r
    <2>1. Release(c, ts) = [c EXCEPT !.sessions = ss, !.bySession = bb, !.owners = oo]
      BY DEF Release
    <2>2. r = [up |-> c.up, ready |-> c.ready, sessions |-> ss, bySession |-> bb, owners |-> oo]
      OBVIOUS
    <2> HIDE DEF ss, bb, oo, r
    <2> QED
      BY <2>1, <2>2 DEF Conns
  <1>5. /\ r.sessions \in [Threads -> 0..MaxSessions]
        /\ r.bySession \in [Sessions -> Threads \cup {Nobody}]
        /\ r.owners \in [Requests -> Threads \cup {Nobody}]
    BY <1>2, <1>3
  <1>6. r \in Conns
    BY <1>2, <1>5 DEF Conns
  <1> QED
    BY <1>4, <1>6

\* What they come to when the threads ts have left: nothing, when nobody rides.
LEMMA Left ==
    ASSUME NEW ts \in SUBSET Threads, NEW a \in Agents, conn \in Conns, queue \in Seq(Read),
           Leaves(Release(conn, ts), a)
    PROVE  /\ conn' \in Conns /\ agent' \in Agents /\ queue' \in Seq(Read)
           /\ conn'.up => agent' = a /\ queue' = queue /\ conn.up
           /\ ~conn'.up => agent' = NoAgent /\ queue' = <<>>
           /\ conn' = NoConn \/ (conn'.up = conn.up /\ \E t \in Threads : conn'.sessions[t] # 0)
           /\ \A t \in Threads : conn'.sessions[t] = IF t \in ts THEN 0 ELSE conn.sessions[t]
           /\ \A t \in Threads \ ts : conn.sessions[t] # 0 => conn'.up = conn.up
           /\ \A s \in Sessions :
                 conn'.bySession[s] # Nobody =>
                    conn'.bySession[s] = conn.bySession[s] /\ conn.bySession[s] \notin ts
           /\ \A r \in Requests :
                 conn'.owners[r] # Nobody =>
                    conn'.owners[r] = conn.owners[r] /\ conn.owners[r] \notin ts
  <1> DEFINE c == Release(conn, ts)
  <1>1. /\ c \in Conns /\ c.up = conn.up
        /\ \A t \in Threads : c.sessions[t] = IF t \in ts THEN 0 ELSE conn.sessions[t]
        /\ \A s \in Sessions :
              c.bySession[s] = IF conn.bySession[s] \in ts THEN Nobody ELSE conn.bySession[s]
        /\ \A r \in Requests :
              c.owners[r] = IF conn.owners[r] \in ts THEN Nobody ELSE conn.owners[r]
    BY Released
  <1>2. NoConn \in Conns /\ NoAgent \in Agents /\ <<>> \in Seq(Read)
    BY PoolAssumption, EmptySeq DEF NoConn, Vacant, Conns, NoAgent, Agents
  <1>3. /\ conn' = IF IsVacant(c) THEN NoConn ELSE c
        /\ agent' = IF conn'.up THEN a ELSE NoAgent
        /\ queue' = IF conn'.up THEN queue ELSE <<>>
    BY DEF Leaves, IfRidden
  <1> HIDE DEF c
  <1>4. CASE IsVacant(c)
    <2>1. conn' = NoConn
      BY <1>3, <1>4
    <2>2. /\ ~NoConn.up
          /\ \A t \in Threads : NoConn.sessions[t] = 0
          /\ \A s \in Sessions : NoConn.bySession[s] = Nobody
          /\ \A r \in Requests : NoConn.owners[r] = Nobody
      BY DEF NoConn, Vacant
    <2>3. \A t \in Threads : c.sessions[t] = 0
      BY <1>4 DEF IsVacant, Tenants
    <2> QED
      BY <1>1, <1>2, <1>3, <2>1, <2>2, <2>3
  <1>5. CASE ~IsVacant(c)
    <2>1. conn' = c
      BY <1>3, <1>5
    <2>2. \E t \in Threads : c.sessions[t] # 0
      BY <1>5 DEF IsVacant, Tenants
    <2> QED
      BY <1>1, <1>2, <1>3, <2>1, <2>2
  <1> QED
    BY <1>4, <1>5

\* A session is taken over.
LEMMA Adopted ==
    ASSUME NEW c \in Conns, NEW t \in Threads, NEW s \in Sessions
    PROVE  /\ Adopt(c, t, s) \in Conns
           /\ Adopt(c, t, s).up = c.up /\ Adopt(c, t, s).owners = c.owners
           /\ \A u \in Threads : Adopt(c, t, s).sessions[u] = IF u = t THEN s ELSE c.sessions[u]
           /\ \A x \in Sessions :
                 /\ x = s => Adopt(c, t, s).bySession[x] = t
                 /\ x # s => Adopt(c, t, s).bySession[x] \in {Nobody, c.bySession[x]}
  <1>2. /\ c.up \in BOOLEAN /\ c.ready \in BOOLEAN
        /\ c.sessions \in [Threads -> 0..MaxSessions]
        /\ c.bySession \in [Sessions -> Threads \cup {Nobody}]
        /\ c.owners \in [Requests -> Threads \cup {Nobody}]
    BY DEF Conns
  <1>3. s \in 0..MaxSessions
    BY PoolAssumption DEF Sessions
  <1> DEFINE b == [x \in Sessions |-> IF x = s THEN t
                                      ELSE IF x = c.sessions[t] THEN Nobody ELSE c.bySession[x]]
             r == [up |-> c.up, ready |-> c.ready, sessions |-> [c.sessions EXCEPT ![t] = s],
                   bySession |-> b, owners |-> c.owners]
             q == [c.sessions EXCEPT ![t] = s]
  <1>4. Adopt(c, t, s) = r
    <2>1. Adopt(c, t, s) = [c EXCEPT !.sessions = q, !.bySession = b]
      BY DEF Adopt
    <2>2. r = [up |-> c.up, ready |-> c.ready, sessions |-> q, bySession |-> b, owners |-> c.owners]
      OBVIOUS
    <2> HIDE DEF b, q, r
    <2> QED
      BY <2>1, <2>2 DEF Conns
  <1>5. /\ r.sessions \in [Threads -> 0..MaxSessions]
        /\ b \in [Sessions -> Threads \cup {Nobody}]
    BY <1>2, <1>3
  <1>6. r \in Conns
    BY <1>2, <1>5 DEF Conns
  <1> QED
    BY <1>2, <1>4, <1>6

\* An event comes to threads, and an answer to the owner of its prompt.
LEMMA Routed1 ==
    ASSUME NEW c \in Conns, NEW e \in Read
    PROVE  /\ Route(c, e) \in SUBSET Threads
           /\ e.type = "result" => Route(c, e) = {c.owners[e.id]} \ {Nobody}
           /\ e.type # "closed" /\ e.named => Route(c, e) = {c.bySession[e.session]} \ {Nobody}
           /\ Spent(c, e) \in Conns
           /\ Spent(c, e).up = c.up /\ Spent(c, e).sessions = c.sessions
           /\ Spent(c, e).bySession = c.bySession
           /\ e.type # "result" => Spent(c, e) = c
           /\ e.type = "result" =>
                /\ e.id \in Requests
                /\ \A r \in Requests :
                      Spent(c, e).owners[r] = IF r = e.id THEN Nobody ELSE c.owners[r]
  <1>1. e.type = "result" => e.id \in Requests /\ e.id # 0 /\ ~e.named
    BY DEF Read, Requests
  <1>2. e.type # "closed" => e.session \in Sessions
    BY DEF Read
  <1>3. Route(c, e) \in SUBSET Threads
    BY <1>1, <1>2 DEF Route, OwnerOfSession, Tenants, Conns
  <1>4. e.type = "result" => Route(c, e) = {c.owners[e.id]} \ {Nobody}
    BY <1>1 DEF Route
  <1>5. e.type # "closed" /\ e.named => Route(c, e) = {c.bySession[e.session]} \ {Nobody}
    BY <1>1 DEF Route, OwnerOfSession
  <1>6. /\ Spent(c, e) \in Conns
        /\ Spent(c, e).up = c.up /\ Spent(c, e).sessions = c.sessions
        /\ Spent(c, e).bySession = c.bySession
    BY DEF Spent, Conns
  <1>7. e.type # "result" => Spent(c, e) = c
    BY DEF Spent
  <1>8. e.type = "result" => \A r \in Requests :
           Spent(c, e).owners[r] = IF r = e.id THEN Nobody ELSE c.owners[r]
    BY <1>1 DEF Spent, Conns
  <1> QED
    BY <1>1, <1>3, <1>4, <1>5, <1>6, <1>7, <1>8

-----------------------------------------------------------------------------
(* The agent, and a prompt that is sent to it.                             *)

\* It stops to wait for what is answered, and for what goes with a session.
LEMMA Unblocked ==
    ASSUME NEW a \in Agents, NEW asks, NEW s
    PROVE  /\ Answered(a, asks) \in Agents /\ Closed(a, s) \in Agents
           /\ Answered(a, asks).blocked = {b \in a.blocked : b.id \notin asks}
           /\ Answered(a, asks).turns = a.turns
           /\ Answered(a, asks).alive = a.alive /\ Answered(a, asks).eof = a.eof
           /\ Closed(a, s).blocked \subseteq a.blocked /\ Closed(a, s).turns \subseteq a.turns
           /\ Closed(a, s).alive = a.alive /\ Closed(a, s).eof = a.eof
  <1> DEFINE bb == {b \in a.blocked : b.id \notin asks}
             cc == {b \in a.blocked : b.session # s}
             tt == {x \in a.turns : x.session # s}
             oo == a.open \ {s}
  <1>1. Answered(a, asks) = [a EXCEPT !.blocked = bb]
    BY DEF Answered
  <1>2. Closed(a, s) = [a EXCEPT !.open = oo, !.turns = tt, !.blocked = cc]
    BY DEF Closed
  <1>3. bb \subseteq a.blocked /\ cc \subseteq a.blocked /\ tt \subseteq a.turns /\ oo \subseteq a.open
    OBVIOUS
  <1> HIDE DEF bb, cc, tt, oo
  <1>4. Answered(a, asks) \in Agents /\ Answered(a, asks).blocked = bb
        /\ Answered(a, asks).turns = a.turns
        /\ Answered(a, asks).alive = a.alive /\ Answered(a, asks).eof = a.eof
    BY <1>1, <1>3 DEF Agents
  <1>5. Closed(a, s) \in Agents /\ Closed(a, s).blocked = cc /\ Closed(a, s).turns = tt
        /\ Closed(a, s).alive = a.alive /\ Closed(a, s).eof = a.eof
    BY <1>2, <1>3 DEF Agents
  <1> QED
    BY <1>3, <1>4, <1>5 DEF bb

\* Dropping the adapter of a thread is its leaving, with fewer asks and turns.
LEMMA Dropped ==
    ASSUME NEW t \in Threads, Types, DropAdapter(t)
    PROVE  \E a \in Agents :
              /\ Leaves(Release(conn, {t}), a)
              /\ a.turns \subseteq agent.turns /\ a.alive = agent.alive /\ a.eof = agent.eof
              /\ a.blocked \subseteq {b \in agent.blocked : b.id \notin held[t]}
  <1> DEFINE a == Answered(agent, held[t])
             d == Closed(a, conn.sessions[t])
  <1>1. agent \in Agents
    BY DEF Types
  <1>2. /\ a \in Agents /\ a.turns = agent.turns /\ a.alive = agent.alive /\ a.eof = agent.eof
        /\ a.blocked = {b \in agent.blocked : b.id \notin held[t]}
    BY <1>1, Unblocked
  <1>3. /\ d \in Agents /\ d.turns \subseteq a.turns /\ d.alive = a.alive /\ d.eof = a.eof
        /\ d.blocked \subseteq a.blocked
    BY <1>2, Unblocked
  <1>4. Leaves(Release(conn, {t}), a) \/ Leaves(Release(conn, {t}), d)
    BY DEF DropAdapter
  <1> HIDE DEF a, d
  <1>5. CASE Leaves(Release(conn, {t}), a)
    BY <1>2, <1>5
  <1>6. CASE Leaves(Release(conn, {t}), d)
    BY <1>2, <1>3, <1>6
  <1> QED
    BY <1>4, <1>5, <1>6

\* A prompt that goes out.
LEMMA SentOut ==
    ASSUME Types, NEW t \in Threads, NEW s \in Sessions, NEW a \in Agents,
           count.prompts < MaxPrompts, Sent(t, s, a)
    PROVE  LET r == count.prompts + 1
           IN /\ r \in Requests /\ r \in Nat \ {0} /\ PipeOpen
              /\ conn' \in Conns /\ conn'.up = conn.up /\ conn'.sessions = conn.sessions
              /\ conn'.bySession = conn.bySession
              /\ \A q \in Requests : conn'.owners[q] = IF q = r THEN t ELSE conn.owners[q]
              /\ agent' \in Agents /\ agent'.alive = a.alive /\ agent'.eof = a.eof
              /\ agent'.turns \subseteq a.turns \cup {[id |-> r, session |-> s]}
              /\ agent'.blocked = a.blocked
              /\ run' \in [Threads -> 0..MaxPrompts] /\ run' = [run EXCEPT ![t] = r]
              /\ transcript' \in [Threads -> SUBSET Sessions]
              /\ count' \in Counts /\ count'.prompts = r
              /\ queue' = queue
  <1> DEFINE r == count.prompts + 1
             tt == a.turns \cup {[id |-> r, session |-> s]}
             oo == [conn.owners EXCEPT ![r] = t]
  <1>1. count \in Counts /\ conn \in Conns
    BY DEF Types
  <1>2. r \in 0..MaxPrompts /\ r \in Requests /\ r \in Nat \ {0}
    BY <1>1, PoolAssumption DEF Counts, Requests
  <1>3. /\ PipeOpen /\ queue' = queue
        /\ conn' = [conn EXCEPT !.owners = oo]
        /\ agent' = IF a.alive THEN [a EXCEPT !.turns = tt] ELSE a
        /\ run' = [run EXCEPT ![t] = r]
        /\ transcript' = [transcript EXCEPT ![t] = transcript[t] \cup {s}]
        /\ count' = [count EXCEPT !.prompts = r]
    BY DEF Sent
  <1>4. oo \in [Requests -> Threads \cup {Nobody}]
        /\ \A q \in Requests : oo[q] = IF q = r THEN t ELSE conn.owners[q]
    BY <1>1, <1>2 DEF Conns
  <1>5. tt \in SUBSET [id : Requests, session : Sessions]
    BY <1>2 DEF Agents
  <1>6. run' \in [Threads -> 0..MaxPrompts] /\ transcript' \in [Threads -> SUBSET Sessions]
    BY <1>2, <1>3 DEF Types
  <1> HIDE DEF oo, tt
  <1>7. /\ conn' \in Conns /\ conn'.up = conn.up /\ conn'.sessions = conn.sessions
        /\ conn'.bySession = conn.bySession /\ conn'.owners = oo
    BY <1>1, <1>3, <1>4 DEF Conns
  <1>8. /\ agent' \in Agents /\ agent'.alive = a.alive /\ agent'.eof = a.eof
        /\ agent'.turns \subseteq tt /\ agent'.blocked = a.blocked
    <2>1. CASE a.alive
      BY <1>3, <1>5, <2>1 DEF Agents
    <2>2. CASE ~a.alive
      BY <1>3, <2>2 DEF tt
    <2> QED
      BY <2>1, <2>2
  <1>9. count' \in Counts /\ count'.prompts = r
    BY <1>1, <1>2, <1>3 DEF Counts
  <1> QED
    BY <1>2, <1>3, <1>4, <1>6, <1>7, <1>8, <1>9 DEF tt

-----------------------------------------------------------------------------
(* The first layer is inductive.                                           *)

Base == Types /\ CallMade /\ Room

\* How many prompts are held back.
LEMMA Backlog ==
    ASSUME NEW w \in [Threads -> BOOLEAN]
    PROVE  LET W == {t \in Threads : w[t]}
           IN /\ IsFiniteSet(W) /\ Cardinality(W) \in Nat
              /\ \A t \in Threads : w[t] => Cardinality(W) >= 1
              /\ \A t \in Threads :
                    w[t] => Cardinality({u \in Threads : w[u] /\ u # t}) = Cardinality(W) - 1
              /\ \A t \in Threads :
                    ~w[t] => Cardinality({u \in Threads : w[u] \/ u = t}) = Cardinality(W) + 1
              /\ \A V \in SUBSET W : Cardinality(V) \in Nat /\ Cardinality(V) <= Cardinality(W)
  <1> DEFINE W == {t \in Threads : w[t]}
  <1>1. W \in SUBSET Threads /\ IsFiniteSet(Threads)
    BY PoolAssumption
  <1>2. IsFiniteSet(W)
    BY <1>1, FS_Subset
  <1>3. Cardinality(W) \in Nat
    BY <1>2, FS_CardinalityType
  <1>4. \A V \in SUBSET W : Cardinality(V) \in Nat /\ Cardinality(V) <= Cardinality(W)
    BY <1>2, FS_Subset, FS_CardinalityType
  <1>5. ASSUME NEW t \in Threads, w[t]
        PROVE  /\ Cardinality({u \in Threads : w[u] /\ u # t}) = Cardinality(W) - 1
               /\ Cardinality(W) >= 1
    <2>1. {u \in Threads : w[u] /\ u # t} = W \ {t} /\ t \in W
      BY <1>5
    <2>2. W \ {t} \in SUBSET W
      OBVIOUS
    <2>3. Cardinality(W \ {t}) = Cardinality(W) - 1
      BY <1>2, <2>1, FS_RemoveElement
    <2>4. Cardinality(W \ {t}) \in Nat
      BY <1>4, <2>2
    <2>5. Cardinality(W) >= 1
      <3> HIDE DEF W
      <3> QED
        BY <1>3, <2>3, <2>4
    <2> QED
      BY <2>1, <2>3, <2>5
  <1>6. ASSUME NEW t \in Threads, ~w[t]
        PROVE  Cardinality({u \in Threads : w[u] \/ u = t}) = Cardinality(W) + 1
    <2>1. {u \in Threads : w[u] \/ u = t} = W \cup {t} /\ t \notin W
      BY <1>6
    <2> QED
      BY <1>2, <2>1, FS_AddElement
  <1> QED
    BY <1>2, <1>3, <1>4, <1>5, <1>6

\* There is room for the prompt that goes out.
LEMMA RoomForIt ==
    ASSUME Base
    PROVE  /\ call.at = "send" => count.prompts < MaxPrompts
           /\ \A t \in Threads : waiting[t] => count.prompts < MaxPrompts
           /\ count.prompts \in Nat /\ MaxPrompts \in Nat /\ Promised \in Nat
  <1>1. waiting \in [Threads -> BOOLEAN] /\ count.prompts \in Nat /\ MaxPrompts \in Nat
    BY PoolAssumption DEF Base, Types, Counts
  <1> DEFINE n == Cardinality({t \in Threads : waiting[t]})
  <1>2. n \in Nat /\ \A t \in Threads : waiting[t] => n >= 1
    BY <1>1, Backlog
  <1>3. Promised = count.prompts + n
    BY DEF Promised
  <1> HIDE DEF n
  <1>4. call.at = "send" => Kept = 1
    BY DEF Base, CallMade, Kept
  <1>5. Kept \in {0, 1} /\ Promised + Kept <= MaxPrompts
    BY DEF Base, Room, Kept
  <1> QED
    BY <1>1, <1>2, <1>3, <1>4, <1>5

\* What an adapter is when it is spawned, or ridden.
LEMMA Connected ==
    ASSUME Types, EnsureConnection
    PROVE  /\ conn' \in Conns /\ conn'.up /\ agent' \in Agents /\ queue' \in Seq(Read)
           /\ count' \in Counts /\ count'.prompts = count.prompts
           /\ \/ conn.up /\ UNCHANGED <<conn, agent, queue, count>>
              \/ /\ ~conn.up /\ conn' = FreshConn /\ queue' = <<>>
                 /\ agent'.turns = {} /\ agent'.blocked = {} /\ agent'.alive /\ ~agent'.eof
  <1>1. conn \in Conns /\ agent \in Agents /\ queue \in Seq(Read) /\ count \in Counts
    BY DEF Types
  <1>2. CASE conn.up /\ UNCHANGED <<conn, agent, queue, count>>
    BY <1>1, <1>2
  <1>3. CASE /\ ~conn.up /\ count.procs < MaxProcs
             /\ count' = [count EXCEPT !.procs = @ + 1]
             /\ conn' = FreshConn /\ queue' = <<>>
             /\ \E able \in Abilities :
                   agent' = [NoAgent EXCEPT !.alive = TRUE, !.eof = FALSE, !.able = able]
    <2>1. FreshConn \in Conns /\ FreshConn.up
      BY PoolAssumption DEF FreshConn, Vacant, Conns
    <2>2. PICK able \in Abilities :
             agent' = [NoAgent EXCEPT !.alive = TRUE, !.eof = FALSE, !.able = able]
      BY <1>3
    <2>3. able \in SUBSET {"resume", "load", "close", "states"}
      BY PoolAssumption
    <2>4. /\ agent' \in Agents /\ agent'.turns = {} /\ agent'.blocked = {}
          /\ agent'.alive /\ ~agent'.eof
      BY <2>2, <2>3 DEF NoAgent, Agents
    <2>5. count' \in Counts /\ count'.prompts = count.prompts
      BY <1>1, <1>3, PoolAssumption DEF Counts
    <2>6. <<>> \in Seq(Read)
      BY EmptySeq
    <2> QED
      BY <1>3, <2>1, <2>4, <2>5, <2>6
  <1> QED
    BY <1>2, <1>3 DEF EnsureConnection

\* What the reader writes down is an event.
LEMMA Written ==
    /\ \A s \in Sessions, b \in BOOLEAN :
          /\ Event("update", s, 0, b) \in Read /\ Event("replay", s, 0, b) \in Read
          /\ Event("ended", s, 0, b) \in Read
          /\ \A id \in 1..MaxAsks, type \in {"permission", "extension"} :
                Event(type, s, id, b) \in Read
          /\ \A id \in Requests : Event("result", s, id, FALSE) \in Read
    /\ Event("closed", 0, 0, FALSE) \in Read
  BY PoolAssumption DEF Event, Read, Events, Sessions, Requests

\* A call that waits for a thread, or that is over.
LEMMA Calling ==
    ASSUME Types, NEW t \in Threads, NEW why \in {"prompt", "resume"},
           NEW at \in {"initialize", "resume", "load", "new"}
    PROVE  Waits(t, why, at) \in Calls /\ NoCall \in Calls
  BY PoolAssumption DEF Types, Calls, Waits, NoCall

\* The types, when the host attaches a thread.
LEMMA TypesAttach ==
    ASSUME Base,
           \/ \E t \in Threads : Attach(t)
           \/ Initialized \/ InitializeFailed \/ Resumed \/ ResumeFailed
           \/ Loaded \/ LoadFailed \/ Settled \/ ResumeUnsupported
           \/ NewSession \/ NewSessionFailed
    PROVE  Types'
  <1>1. Types /\ CallMade
    BY DEF Base
  <1>2. /\ stored \in [Threads -> 0..MaxSessions] /\ conn \in Conns /\ agent \in Agents
        /\ call \in Calls /\ queue \in Seq(Read)
    BY <1>1 DEF Types
  <1>3. call.at # "none" => call.thread \in Threads
    BY <1>1 DEF CallMade
  <1>4. call.why \in {"prompt", "resume"}
    BY <1>2 DEF Calls
  <1>5. ASSUME NEW s \in Sessions PROVE AttachedCall(s) \in Calls
    <2>1. s \in 0..MaxSessions
      BY PoolAssumption DEF Sessions
    <2>2. [call EXCEPT !.at = "send", !.session = s, !.reply = "none"] \in Calls
      BY <1>2, <2>1 DEF Calls
    <2>3. NoCall \in Calls
      BY PoolAssumption DEF Calls, NoCall
    <2> QED
      BY <2>2, <2>3 DEF AttachedCall
  <1>6. ASSUME NEW t \in Threads, Attach(t) PROVE Types'
    <2>1. conn' \in Conns /\ agent' \in Agents /\ queue' \in Seq(Read) /\ count' \in Counts
      BY <1>1, <1>6, Connected DEF Attach
    <2>2. call' \in Calls
      BY <1>1, <1>6, Calling DEF Attach
    <2> QED
      BY <1>1, <1>6, <2>1, <2>2 DEF Attach, Types, disk
  <1>7. CASE Initialized
    <2>1. conn' \in Conns
      BY <1>2, <1>7 DEF Initialized, Conns
    <2>2. call.thread \in Threads
      BY <1>3, <1>7 DEF Initialized, CallIs
    <2>3. call' \in Calls
      BY <1>1, <1>4, <1>7, <2>2, Calling DEF Initialized, Restore
    <2> QED
      BY <1>1, <1>7, <2>1, <2>3 DEF Initialized, Types, disk
  <1>8. CASE InitializeFailed
    <2>1. call.thread \in Threads
      BY <1>3, <1>8 DEF InitializeFailed, CallIs
    <2>2. call' \in Calls
      BY <1>1, <1>8, <2>1, Calling DEF InitializeFailed
    <2>3. conn' \in Conns /\ agent' \in Agents /\ queue' \in Seq(Read)
      <3>1. CASE UNCHANGED <<conn, agent, queue>>
        BY <1>2, <3>1
      <3>2. CASE ForgetAdapter(call.thread, agent)
        BY <1>2, <2>1, <3>2, Left DEF ForgetAdapter
      <3> QED
        BY <1>8, <3>1, <3>2 DEF InitializeFailed
    <2> QED
      BY <1>1, <1>8, <2>2, <2>3 DEF InitializeFailed, Types, disk
  <1>9. CASE Resumed \/ Loaded
    <2>1. call.thread \in Threads /\ call.session \in Sessions
      BY <1>1, <1>9 DEF Resumed, Loaded, CallIs, CallMade
    <2>2. conn' \in Conns
      BY <1>2, <1>9, <2>1, Adopted DEF Resumed, Loaded
    <2>3. call' \in Calls
      BY <1>2, <1>5, <1>9, <2>1 DEF Resumed, Loaded, CallIs, Calls
    <2> QED
      BY <1>1, <1>9, <2>2, <2>3 DEF Resumed, Loaded, Types, disk
  <1>10. CASE ResumeFailed \/ LoadFailed
    <2>1. call.thread \in Threads
      BY <1>3, <1>10 DEF ResumeFailed, LoadFailed, CallIs
    <2>2. call' \in Calls
      BY <1>1, <1>4, <1>10, <2>1, Calling DEF ResumeFailed, LoadFailed
    <2> QED
      BY <1>1, <1>10, <2>2 DEF ResumeFailed, LoadFailed, Types, disk
  <1>11. CASE Settled
    <2>1. call.session \in Sessions
      BY <1>1, <1>11 DEF Settled, CallIs, CallMade
    <2>2. call' \in Calls
      BY <1>5, <1>11, <2>1 DEF Settled, CallIs
    <2> QED
      BY <1>1, <1>11, <2>2 DEF Settled, Types, disk
  <1>12. CASE ResumeUnsupported
    <2>1. call.thread \in Threads
      BY <1>3, <1>12 DEF ResumeUnsupported, CallIs
    <2>2. PICK a \in Agents : Leaves(Release(conn, {call.thread}), a)
      BY <1>1, <1>12, <2>1, Dropped DEF ResumeUnsupported
    <2>3. conn' \in Conns /\ agent' \in Agents /\ queue' \in Seq(Read)
      BY <1>2, <2>1, <2>2, Left
    <2>4. call' \in Calls
      BY <1>1, <1>12, <2>1, Calling DEF ResumeUnsupported
    <2> QED
      BY <1>1, <1>12, <2>3, <2>4 DEF ResumeUnsupported, Types, disk
  <1>13. CASE NewSession
    <2>1. call.thread \in Threads /\ call.session \in Sessions
      BY <1>1, <1>13 DEF NewSession, CallIs, CallMade
    <2>2. Adopt(conn, call.thread, call.session) \in Conns
      BY <1>2, <2>1, Adopted
    <2>3. conn' \in Conns
      BY <1>13, <2>2 DEF NewSession, Conns
    <2>4. call' \in Calls
      BY <1>5, <1>13, <2>1 DEF NewSession, CallIs
    <2> QED
      BY <1>1, <1>13, <2>3, <2>4 DEF NewSession, Types, disk
  <1>14. CASE NewSessionFailed
    <2>1. call.thread \in Threads
      BY <1>3, <1>14 DEF NewSessionFailed, CallIs
    <2>2. conn' \in Conns /\ agent' \in Agents /\ queue' \in Seq(Read)
      BY <1>2, <1>14, <2>1, Left DEF NewSessionFailed, ForgetAdapter
    <2>3. call' \in Calls
      BY <1>1, <1>14, <2>1, Calling DEF NewSessionFailed
    <2> QED
      BY <1>1, <1>14, <2>2, <2>3 DEF NewSessionFailed, Types, disk
  <1> QED
    BY <1>6, <1>7, <1>8, <1>9, <1>10, <1>11, <1>12, <1>13, <1>14

\* The types, when a turn is over and the next prompt goes out, or is dropped.
LEMMA TypesNext ==
    ASSUME Base, NEW t \in Threads, NEW a \in Agents, NextPrompt(t, a)
    PROVE  /\ conn' \in Conns /\ agent' \in Agents /\ queue' \in Seq(Read)
           /\ run' \in [Threads -> 0..MaxPrompts] /\ count' \in Counts
           /\ transcript' \in [Threads -> SUBSET Sessions]
  <1>1. Types
    BY DEF Base
  <1>2. /\ conn \in Conns /\ agent \in Agents /\ queue \in Seq(Read) /\ count \in Counts
        /\ run \in [Threads -> 0..MaxPrompts] /\ 0 \in 0..MaxPrompts
        /\ transcript \in [Threads -> SUBSET Sessions]
    BY <1>1, PoolAssumption DEF Types
  <1>3. CASE /\ agent' = a /\ run' = [run EXCEPT ![t] = 0]
             /\ UNCHANGED <<conn, queue, transcript, count>>
    BY <1>2, <1>3
  <1>4. CASE waiting[t] /\ HasAdapter(t) /\ Sent(t, conn.sessions[t], a)
    <2>1. conn.sessions[t] \in Sessions
      BY <1>2, <1>4, PoolAssumption DEF HasAdapter, Conns, Sessions
    <2>2. count.prompts < MaxPrompts
      BY <1>4, RoomForIt
    <2> QED
      BY <1>1, <1>2, <1>4, <2>1, <2>2, SentOut
  <1>5. CASE /\ run' = [run EXCEPT ![t] = 0]
             /\ ForgetAdapter(t, a) /\ UNCHANGED <<transcript, count>>
    <2>1. conn' \in Conns /\ agent' \in Agents /\ queue' \in Seq(Read)
      BY <1>2, <1>5, Left DEF ForgetAdapter
    <2> QED
      BY <1>2, <1>5, <2>1
  <1> QED
    BY <1>3, <1>4, <1>5 DEF NextPrompt, HeldBackGoes

\* The types, when a prompt is sent or held back, and when a thread leaves.
LEMMA TypesPrompt ==
    ASSUME Base,
           \/ \E t \in Threads : \/ PromptOnSession(t) \/ PromptHeldBack(t) \/ Leave(t)
                                \/ Decide(t) \/ DrainStranded(t)
           \/ SendPrompt \/ Panic \/ Reap
    PROVE  Types'
  <1>1. Types /\ CallMade
    BY DEF Base
  <1>2. /\ stored \in [Threads -> 0..MaxSessions] /\ conn \in Conns /\ agent \in Agents
        /\ call \in Calls /\ queue \in Seq(Read) /\ count \in Counts
        /\ waiting \in [Threads -> BOOLEAN] /\ held \in [Threads -> SUBSET (1..MaxAsks)]
        /\ run \in [Threads -> 0..MaxPrompts] /\ 0 \in 0..MaxPrompts
    BY <1>1, PoolAssumption DEF Types
  <1>3. ASSUME NEW t \in Threads, PromptOnSession(t) PROVE Types'
    <2>1. conn.sessions[t] \in 0..MaxSessions
      BY <1>2 DEF Conns
    <2>2. call' = [at |-> "send", thread |-> t, why |-> "prompt", session |-> conn.sessions[t],
                   reply |-> "none"]
      BY <1>3 DEF PromptOnSession, NoCall
    <2>3. call' \in Calls
      BY <2>1, <2>2 DEF Calls
    <2> QED
      BY <1>1, <1>3, <2>3 DEF PromptOnSession, Types, disk
  <1>4. ASSUME NEW t \in Threads, PromptHeldBack(t) PROVE Types'
    BY <1>1, <1>4 DEF PromptHeldBack, Types, disk
  <1>5. ASSUME NEW t \in Threads, Leave(t) PROVE Types'
    <2>1. PICK a \in Agents : Leaves(Release(conn, {t}), a)
      BY <1>1, <1>5, Dropped DEF Leave
    <2>2. conn' \in Conns /\ agent' \in Agents /\ queue' \in Seq(Read)
      BY <1>2, <2>1, Left
    <2>3. count' \in Counts
      <3>1. /\ count.leaves < MaxLeaves /\ MaxLeaves \in Nat
            /\ count' = [count EXCEPT !.leaves = count.leaves + 1]
        BY <1>5, PoolAssumption DEF Leave
      <3>2. count.leaves + 1 \in 0..MaxLeaves
        BY <1>2, <3>1 DEF Counts
      <3> QED
        BY <1>2, <3>1, <3>2 DEF Counts
    <2>4. /\ run' \in [Threads -> 0..MaxPrompts]
          /\ held' \in [Threads -> SUBSET (1..MaxAsks)]
          /\ waiting' \in [Threads -> BOOLEAN]
      BY <1>2, <1>5 DEF Leave
    <2> QED
      BY <1>1, <1>5, <2>2, <2>3, <2>4 DEF Leave, Types
  <1>6. ASSUME NEW t \in Threads, Decide(t) PROVE Types'
    <2>1. PICK x \in held[t] : held' = [held EXCEPT ![t] = @ \ {x}] /\ agent' = Answered(agent, {x})
      BY <1>6 DEF Decide
    <2>2. agent' \in Agents
      BY <1>2, <2>1, Unblocked
    <2>3. held' \in [Threads -> SUBSET (1..MaxAsks)]
      BY <1>2, <2>1
    <2> QED
      BY <1>1, <1>6, <2>2, <2>3 DEF Decide, Types, disk
  <1>7. CASE SendPrompt
    <2>1. call.thread \in Threads /\ call.session \in Sessions /\ count.prompts < MaxPrompts
      BY <1>1, <1>7, RoomForIt DEF SendPrompt, CallIs, CallMade
    <2>2. stored' \in [Threads -> 0..MaxSessions]
      BY <1>2, <1>7, <2>1, PoolAssumption DEF SendPrompt, Sessions
    <2>3. call' \in Calls
      BY <1>7, PoolAssumption DEF SendPrompt, Calls, NoCall
    <2>4. CASE Sent(call.thread, call.session, agent) /\ phase' = "pump"
      <3>1. /\ conn' \in Conns /\ agent' \in Agents /\ queue' = queue
            /\ run' \in [Threads -> 0..MaxPrompts] /\ count' \in Counts
            /\ transcript' \in [Threads -> SUBSET Sessions]
        BY <1>1, <1>2, <2>1, <2>4, SentOut
      <3> QED
        BY <1>1, <1>7, <2>2, <2>3, <2>4, <3>1 DEF SendPrompt, Types
    <2>5. CASE ForgetAdapter(call.thread, agent) /\ UNCHANGED <<transcript, run, count, phase>>
      <3>1. conn' \in Conns /\ agent' \in Agents /\ queue' \in Seq(Read)
        BY <1>2, <2>1, <2>5, Left DEF ForgetAdapter
      <3> QED
        BY <1>1, <1>7, <2>2, <2>3, <2>5, <3>1 DEF SendPrompt, Types
    <2> QED
      BY <1>7, <2>4, <2>5 DEF SendPrompt
  <1>8. CASE Panic
    BY <1>1, <1>8 DEF Panic, Types, disk
  <1>9. CASE Reap
    <2>1. Tenants(conn) \in SUBSET Threads
      BY DEF Tenants
    <2>2. conn' \in Conns /\ agent' \in Agents /\ queue' \in Seq(Read)
      BY <1>2, <1>9, <2>1, Left DEF Reap, Gone
    <2>3. /\ run' \in [Threads -> 0..MaxPrompts]
          /\ held' \in [Threads -> SUBSET (1..MaxAsks)]
          /\ waiting' \in [Threads -> BOOLEAN]
      BY <1>2, <1>9 DEF Reap, Gone
    <2> QED
      BY <1>1, <1>9, <2>2, <2>3 DEF Reap, Types
  <1>10. ASSUME NEW t \in Threads, DrainStranded(t) PROVE Types'
    <2>1. /\ conn' \in Conns /\ agent' \in Agents /\ queue' \in Seq(Read)
          /\ run' \in [Threads -> 0..MaxPrompts] /\ count' \in Counts
          /\ transcript' \in [Threads -> SUBSET Sessions]
      BY <1>2, <1>10, TypesNext DEF DrainStranded, NextPrompt
    <2>2. waiting' \in [Threads -> BOOLEAN]
      BY <1>2, <1>10 DEF DrainStranded
    <2> QED
      BY <1>1, <1>10, <2>1, <2>2 DEF DrainStranded, Types
  <1> QED
    BY <1>3, <1>4, <1>5, <1>6, <1>7, <1>8, <1>9, <1>10

\* A run that ends early is of a prompt that was sent.
LEMMA EarlyGrows ==
    ASSUME early \in SUBSET Requests, NEW r \in 0..MaxPrompts
    PROVE  early \cup ({r} \ {0}) \in SUBSET Requests
  <1>1. r # 0 => r \in Requests
    <2>1. MaxPrompts \in Nat
      BY PoolAssumption
    <2> QED
      BY SMT, <2>1 DEF Requests
  <1> QED
    BY <1>1

\* The types, when the queue is drained and what was drained is handled.
LEMMA TypesPump ==
    ASSUME Base,
           \/ StartPump \/ Drain \/ Settle \/ Drained
           \/ HandleUpdate \/ HandleEnded \/ HandleAsk \/ HandleResult \/ HandleClosed \/ Handled
    PROVE  Types'
  <1> DEFINE Routes == [to : Threads, event : Read, by : {"pump", "settle"}]
  <1>1. Types /\ CallMade
    BY DEF Base
  <1>2. /\ conn \in Conns /\ agent \in Agents /\ batch \in Seq(Routes)
        /\ call \in Calls /\ queue \in Seq(Read) /\ count \in Counts
        /\ waiting \in [Threads -> BOOLEAN] /\ held \in [Threads -> SUBSET (1..MaxAsks)]
        /\ run \in [Threads -> 0..MaxPrompts] /\ 0 \in 0..MaxPrompts
        /\ transcript \in [Threads -> SUBSET Sessions]
    BY <1>1, PoolAssumption DEF Types
  <1>3. CASE StartPump \/ Drained \/ Handled
    BY <1>1, <1>3 DEF StartPump, Drained, Handled, Types, disk
  <1>4. ASSUME NEW S \in SUBSET Threads, NEW e \in Read, NEW how \in {"pump", "settle"}
        PROVE  batch \o Handed(S, e, how) \in Seq(Routes)
    <2>1. Handed(S, e, how) \in Seq([to : S, event : {e}, by : {how}])
      BY HandedOn
    <2>2. [to : S, event : {e}, by : {how}] \subseteq Routes
      OBVIOUS
    <2>3. Handed(S, e, how) \in Seq(Routes)
      BY <2>1, <2>2, SeqMonotonic
    <2> QED
      BY <1>2, <2>3, ConcatOf
  <1>5. CASE Drain
    <2> DEFINE e == Head(queue)
    <2>1. e \in Read /\ Tail(queue) \in Seq(Read)
      BY <1>2, <1>5, TailOf DEF Drain
    <2>2. Route(conn, e) \in SUBSET Threads /\ Spent(conn, e) \in Conns
      BY <1>2, <2>1, Routed1
    <2>3. batch' \in Seq(Routes) /\ conn' \in Conns
      BY <1>4, <1>5, <2>1, <2>2 DEF Drain
    <2>4. agent' \in Agents
      BY <1>2, <1>5, Unblocked DEF Drain, Unowned
    <2> QED
      BY <1>1, <1>5, <2>1, <2>3, <2>4 DEF Drain, Types, disk
  <1>6. CASE Settle
    <2> DEFINE e == Head(queue)
    <2>1. e \in Read /\ Tail(queue) \in Seq(Read)
      BY <1>2, <1>6, TailOf DEF Settle
    <2>2. Route(conn, e) \in SUBSET Threads /\ Spent(conn, e) \in Conns
      BY <1>2, <2>1, Routed1
    <2>3. call.thread \in Threads
      BY <1>1, <1>6 DEF Settle, CallMade
    <2>4. batch' \in Seq(Routes) /\ conn' \in Conns
      BY <1>2, <1>4, <1>6, <2>1, <2>2, <2>3 DEF Settle
    <2> QED
      BY <1>1, <1>6, <2>1, <2>4 DEF Settle, Types, disk
  <1>7. ASSUME NEW types, Handle(types)
        PROVE  /\ batch' \in Seq(Routes) /\ Head(batch).to \in Threads /\ Head(batch).event \in Read
               /\ Head(batch).event.type \in types
               /\ UNCHANGED <<stored, up, phase, call, made>>
    <2>1. Head(batch) \in Routes /\ Tail(batch) \in Seq(Routes)
      BY <1>2, <1>7, TailOf DEF Handle
    <2>2. batch' = Tail(batch) /\ Head(batch).event.type \in types
      BY <1>7 DEF Handle
    <2>3. UNCHANGED <<stored, up, phase, call, made>>
      BY <1>7 DEF Handle
    <2> QED
      BY <2>1, <2>2, <2>3
  <1>8. CASE HandleUpdate
    <2>1. Handle({"update", "replay"})
      BY <1>8 DEF HandleUpdate
    <2>2. Head(batch).event.session \in Sessions
      <3>1. Head(batch).event \in Read /\ Head(batch).event.type \in {"update", "replay"}
        BY <1>7, <2>1
      <3> QED
        BY <3>1 DEF Read
    <2>3. transcript' \in [Threads -> SUBSET Sessions]
      BY <1>2, <1>7, <1>8, <2>1, <2>2 DEF HandleUpdate
    <2> QED
      BY <1>1, <1>7, <1>8, <2>1, <2>3 DEF HandleUpdate, Types
  <1>9. CASE HandleAsk
    <2>1. Handle({"permission", "extension"})
      BY <1>9 DEF HandleAsk
    <2>2. Head(batch).event.id \in 1..MaxAsks
      BY <1>7, <2>1 DEF Read
    <2>3. held' \in [Threads -> SUBSET (1..MaxAsks)]
      BY <1>2, <1>7, <1>9, <2>1, <2>2 DEF HandleAsk
    <2> QED
      BY <1>1, <1>7, <1>9, <2>1, <2>3 DEF HandleAsk, Types
  <1>10. CASE HandleResult
    <2> DEFINE t == Head(batch).to
               a == Answered(agent, held[t])
    <2>1. Handle({"result"}) /\ t \in Threads
      BY <1>7, <1>10 DEF HandleResult
    <2>2. a \in Agents
      BY <1>2, Unblocked
    <2>3. /\ held' \in [Threads -> SUBSET (1..MaxAsks)]
          /\ waiting' \in [Threads -> BOOLEAN]
      BY <1>2, <1>10, <2>1 DEF HandleResult
    <2>4. NextPrompt(t, a)
      BY <1>10 DEF HandleResult
    <2> HIDE DEF t, a
    <2>5. /\ conn' \in Conns /\ agent' \in Agents /\ queue' \in Seq(Read)
          /\ run' \in [Threads -> 0..MaxPrompts] /\ count' \in Counts
          /\ transcript' \in [Threads -> SUBSET Sessions]
      BY <2>1, <2>2, <2>4, TypesNext
    <2>6. early' \in SUBSET Requests
      <3>1. run[t] \in 0..MaxPrompts /\ early \in SUBSET Requests
        BY <1>1, <1>2, <2>1 DEF Types
      <3>2. early' = early \/ early' = early \cup ({run[t]} \ {0})
        BY <1>10 DEF HandleResult, t
      <3> QED
        BY <3>1, <3>2, EarlyGrows
    <2> QED
      BY <1>1, <1>7, <2>1, <2>3, <2>5, <2>6 DEF Types
  <1>11. CASE HandleClosed
    <2>1. Handle({"closed"}) /\ Gone({Head(batch).to}) /\ UNCHANGED <<transcript, count>>
      BY <1>11 DEF HandleClosed
    <2>2. {Head(batch).to} \in SUBSET Threads
      BY <1>7, <2>1
    <2>3. conn' \in Conns /\ agent' \in Agents /\ queue' \in Seq(Read)
      BY <1>2, <2>1, <2>2, Left DEF Gone
    <2>4. /\ run' \in [Threads -> 0..MaxPrompts]
          /\ held' \in [Threads -> SUBSET (1..MaxAsks)]
          /\ waiting' \in [Threads -> BOOLEAN]
      BY <1>2, <2>1 DEF Gone
    <2> QED
      BY <1>1, <1>7, <1>11, <2>1, <2>3, <2>4 DEF HandleClosed, Types
  <1>12. CASE HandleEnded
    <2> DEFINE t == Head(batch).to
    <2>1. Handle({"ended"}) /\ t \in Threads
      BY <1>7, <1>12 DEF HandleEnded
    <2>2. Head(batch).event.session \in Sessions
      <3>1. Head(batch).event \in Read /\ Head(batch).event.type = "ended"
        BY <1>7, <2>1
      <3> QED
        BY <3>1 DEF Read
    <2>3. /\ transcript' = [transcript EXCEPT ![t] = @ \cup {Head(batch).event.session}]
          /\ run' = [run EXCEPT ![t] = 0] /\ early' = early \cup ({run[t]} \ {0})
      BY <1>12 DEF HandleEnded
    <2>4. transcript' \in [Threads -> SUBSET Sessions] /\ run' \in [Threads -> 0..MaxPrompts]
      BY <1>2, <2>1, <2>2, <2>3
    <2>5. early' \in SUBSET Requests
      <3>1. run[t] \in 0..MaxPrompts /\ early \in SUBSET Requests
        BY <1>1, <1>2, <2>1 DEF Types
      <3> HIDE DEF t
      <3> QED
        BY <2>3, <3>1, EarlyGrows
    <2> QED
      BY <1>1, <1>7, <1>12, <2>1, <2>4, <2>5 DEF HandleEnded, Types
  <1> QED
    BY <1>3, <1>5, <1>6, <1>8, <1>9, <1>10, <1>11, <1>12

\* The types, when the agent moves.
LEMMA TypesAgent ==
    ASSUME Base, AgentMoves
    PROVE  Types'
  <1>1. Types /\ CallMade
    BY DEF Base
  <1>2. /\ agent \in Agents /\ queue \in Seq(Read) /\ count \in Counts /\ call \in Calls
        /\ made \in Seq(Threads) /\ Len(made) \in Nat /\ Len(made) <= MaxSessions
    BY <1>1, LenProperties DEF Types
  <1>3. {MaxPrompts, MaxUpdates, MaxAsks, MaxSessions} \subseteq Nat
    BY PoolAssumption
  <1>4. count.updates < MaxUpdates => [count EXCEPT !.updates = @ + 1] \in Counts
    BY SMTT(30), <1>2, <1>3 DEF Counts
  <1>5. \A e \in Read : Says(e) => queue' \in Seq(Read)
    BY <1>2, AppendOf DEF Says
  <1>6. ASSUME NEW s \in agent.open, Speak(s) PROVE Types'
    <2>1. s \in Sessions
      BY <1>2 DEF Agents
    <2>2. PICK named \in BOOLEAN, type \in {"update", "ended"} : Says(Event(type, s, 0, named))
      BY <1>6 DEF Speak, Names, Reports
    <2>3. queue' \in Seq(Read)
      BY <1>5, <2>1, <2>2, Written
    <2>4. count' \in Counts
      BY <1>4, <1>6 DEF Speak
    <2> QED
      BY <1>1, <1>6, <2>3, <2>4 DEF Speak, AgentOnly, disk, Types
  <1>7. ASSUME NEW x \in agent.turns, NEW type \in {"permission", "extension"}, Ask(x, type)
        PROVE  Types'
    <2>1. x.session \in Sessions
      BY <1>2 DEF Agents
    <2> DEFINE id == count.asks + 1
    <2>2. id \in 1..MaxAsks /\ [count EXCEPT !.asks = id] \in Counts
      <3>1. count.asks < MaxAsks
        BY <1>7 DEF Ask
      <3> QED
        BY SMTT(30), <1>2, <1>3, <3>1 DEF Counts
    <2>3. PICK named \in BOOLEAN : Says(Event(type, x.session, id, named))
      BY <1>7 DEF Ask, Names
    <2>4. agent' = [agent EXCEPT !.blocked = agent.blocked \cup
                       {[id |-> id, session |-> x.session, type |-> type]}]
      BY <1>7 DEF Ask
    <2>5. count' = [count EXCEPT !.asks = id]
      BY <1>7 DEF Ask
    <2> HIDE DEF id
    <2>6. queue' \in Seq(Read)
      BY <1>5, <2>1, <2>2, <2>3, Written
    <2>7. agent' \in Agents
      <3> DEFINE more == agent.blocked \cup {[id |-> id, session |-> x.session, type |-> type]}
      <3>1. more \in SUBSET [id : 1..MaxAsks, session : Sessions, type : {"permission", "extension"}]
        BY <1>2, <2>1, <2>2 DEF Agents
      <3>2. agent' = [agent EXCEPT !.blocked = more]
        BY <2>4
      <3> HIDE DEF more
      <3> QED
        BY <1>2, <3>1, <3>2 DEF Agents
    <2> QED
      BY <1>1, <1>7, <2>2, <2>5, <2>6, <2>7 DEF Ask, AgentOnly, disk, Types
  <1>8. ASSUME NEW x \in agent.turns, Finish(x) PROVE Types'
    <2>1. x.session \in Sessions /\ x.id \in Requests
      BY <1>2 DEF Agents
    <2>2. queue' \in Seq(Read)
      BY <1>5, <1>8, <2>1, Written DEF Finish
    <2>3. agent' \in Agents
      BY <1>2, <1>8 DEF Finish, Agents
    <2> QED
      BY <1>1, <1>8, <2>2, <2>3 DEF Finish, AgentOnly, disk, Types
  <1>9. \A reply \in {"yes", "no"} : Replies(reply) => call' \in Calls
    BY <1>2 DEF Replies, Calls
  <1>10. \A s \in Sessions : Serves(s) => agent' \in Agents
    BY SMTT(30), <1>2 DEF Serves, Agents
  <1>11. CASE ReplyInitialize
    BY <1>1, <1>9, <1>11 DEF ReplyInitialize, AgentOnly, disk, Types
  <1>12. CASE ReplyResume
    <2>1. call.session \in Sessions
      BY <1>1, <1>12 DEF ReplyResume, Asked, CallMade
    <2> QED
      BY <1>1, <1>9, <1>10, <1>12, <2>1 DEF ReplyResume, AgentOnly, disk, Types
  <1>13. CASE ReplyLoad
    <2>1. call.session \in Sessions
      BY <1>1, <1>13 DEF ReplyLoad, Asked, CallMade
    <2>2. queue' \in Seq(Read) /\ count' \in Counts
      <3>1. CASE UNCHANGED <<queue, count>>
        BY <1>2, <3>1
      <3>2. CASE /\ count.updates < MaxUpdates
                 /\ Says(Event("replay", call.session, 0, TRUE))
                 /\ count' = [count EXCEPT !.updates = @ + 1]
        BY <1>4, <1>5, <2>1, <3>2, Written
      <3> QED
        BY <1>13, <3>1, <3>2 DEF ReplyLoad
    <2>3. agent' \in Agents /\ call' \in Calls
      BY <1>9, <1>10, <1>13, <2>1 DEF ReplyLoad
    <2> QED
      BY <1>1, <1>13, <2>2, <2>3 DEF ReplyLoad, AgentOnly, disk, Types
  <1>14. CASE ReplyNew
    <2>1. call.thread \in Threads
      BY <1>1, <1>14 DEF ReplyNew, Asked, CallMade
    <2>2. made' \in Seq(Threads) /\ Len(made') = Len(made) + 1
      BY <1>2, <1>14, <2>1, AppendProperties DEF ReplyNew
    <2>3. Len(made') \in Sessions /\ Len(made') \in 0..MaxSessions /\ Len(made') <= MaxSessions
      BY <1>2, <1>3, <1>14, <2>2 DEF ReplyNew, Sessions
    <2>4. agent' \in Agents
      BY <1>10, <1>14, <2>3 DEF ReplyNew
    <2>5. call' \in Calls
      <3>1. PICK reply \in {"yes", "no"} :
               call' = [call EXCEPT !.reply = reply, !.session = Len(made')]
        BY <1>14 DEF ReplyNew
      <3> QED
        BY <1>2, <2>3, <3>1 DEF Calls
    <2> QED
      BY <1>1, <1>14, <2>2, <2>3, <2>4, <2>5 DEF ReplyNew, AgentOnly, disk, Types
  <1>15. CASE Die \/ PipeCloses
    <2>1. agent' \in Agents
      BY <1>2, <1>15 DEF Die, PipeCloses, Agents
    <2>2. queue' \in Seq(Read)
      BY <1>2, <1>5, <1>15, Written DEF Die, PipeCloses
    <2> QED
      BY <1>1, <1>15, <2>1, <2>2 DEF Die, PipeCloses, AgentOnly, disk, Types
  <1> QED
    BY <1>6, <1>7, <1>8, <1>11, <1>12, <1>13, <1>14, <1>15 DEF AgentMoves

\* The call, in each step.
LEMMA CallMadeStep ==
    ASSUME Base, Next
    PROVE  CallMade'
  <1>1. Types /\ CallMade
    BY DEF Base
  <1>2. /\ stored \in [Threads -> 0..MaxSessions] /\ conn \in Conns /\ call \in Calls
        /\ \A n \in 0..MaxSessions : n # 0 => n \in Sessions
    BY <1>1, PoolAssumption DEF Types, Sessions
  <1>3. ASSUME UNCHANGED <<stored, call, phase, batch>> PROVE CallMade'
    BY <1>1, <1>3 DEF CallMade
  <1>4. ASSUME call' = NoCall, phase = "idle", UNCHANGED batch, phase' \in {"idle", "pump"}
        PROVE  CallMade'
    BY <1>1, <1>4 DEF CallMade, NoCall
  <1>5. ASSUME NEW t \in Threads, Attach(t) PROVE CallMade'
    <2>1. PICK why \in {"prompt", "resume"} : call' = Waits(t, why, "initialize")
      BY <1>5 DEF Attach
    <2>2. /\ call'.at = "initialize" /\ call'.thread = t /\ call'.reply = "none"
      BY <2>1 DEF Waits
    <2>3. phase' = "idle" /\ batch' = batch
      BY <1>5 DEF Attach, Idle
    <2> QED
      BY <1>1, <1>5, <2>2, <2>3 DEF Attach, Idle, CallMade
  <1>6. ASSUME NEW why \in {"prompt", "resume"}, NEW at \in {"resume", "load", "new"},
               call' = Waits(call.thread, why, at), call.thread \in Threads,
               at # "new" => stored[call.thread] # 0,
               phase = "idle", UNCHANGED <<stored, phase, batch>>
        PROVE  CallMade'
    <2>1. /\ call'.at = at /\ call'.thread = call.thread /\ call'.reply = "none"
          /\ call'.session = stored[call.thread]
      BY <1>6 DEF Waits
    <2>2. stored[call.thread] \in 0..MaxSessions
      BY <1>2, <1>6
    <2> QED
      BY <1>1, <1>2, <1>6, <2>1, <2>2 DEF CallMade
  <1>7. ASSUME NEW at, CallIs(at), at # "none"
        PROVE  call.at = at /\ call.thread \in Threads /\ phase = "idle" /\ call.why \in {"prompt", "resume"}
    BY <1>1, <1>2, <1>7 DEF CallIs, CallMade, Calls
  <1>8. CASE Initialized
    <2>1. PICK drifted \in BOOLEAN :
             call' = Restore(call.thread, call.why, agent.able, stored[call.thread] # 0 /\ ~drifted)
      BY <1>8 DEF Initialized
    <2>2. CallIs("initialize") /\ UNCHANGED <<stored, phase, batch>>
      BY <1>8 DEF Initialized, disk
    <2>3. \E at \in {"resume", "load", "new"} :
             call' = Waits(call.thread, call.why, at) /\ (at # "new" => stored[call.thread] # 0)
      BY <2>1 DEF Restore
    <2> QED
      BY <1>6, <1>7, <2>2, <2>3
  <1>9. CASE InitializeFailed
    <2>1. CallIs("initialize") /\ UNCHANGED <<stored, phase, batch>>
      BY <1>9 DEF InitializeFailed, disk
    <2>2. call' = NoCall \/ call' = Waits(call.thread, "prompt", "new")
      BY <1>9 DEF InitializeFailed
    <2> QED
      BY <1>4, <1>6, <1>7, <2>1, <2>2
  <1>10. ASSUME UNCHANGED <<stored, phase, batch>>, phase = "idle", call.at \in {"resume", "settling", "new"},
                call.session \in Sessions, call' = AttachedCall(call.session)
         PROVE  CallMade'
    <2>1. CASE call.why = "prompt"
      <3>1. /\ call'.at = "send" /\ call'.thread = call.thread /\ call'.why = "prompt"
            /\ call'.session = call.session
        BY <1>2, <1>10, <2>1 DEF AttachedCall, Calls
      <3> QED
        BY <1>1, <1>10, <3>1 DEF CallMade
    <2>2. CASE call.why # "prompt"
      BY <1>4, <1>10, <2>2 DEF AttachedCall
    <2> QED
      BY <2>1, <2>2
  <1>11. CASE Resumed \/ Settled \/ NewSession
    <2>1. /\ call.at \in {"resume", "settling", "new"} /\ UNCHANGED <<stored, phase, batch>>
          /\ phase = "idle" /\ call' = AttachedCall(call.session)
      BY <1>11 DEF Resumed, Settled, NewSession, CallIs, disk
    <2>2. call.session \in Sessions
      BY <1>1, <1>11 DEF Resumed, Settled, NewSession, CallIs, CallMade
    <2> QED
      BY <1>10, <2>1, <2>2
  <1>12. CASE ResumeFailed
    <2>1. /\ CallIs("resume") /\ UNCHANGED <<stored, phase, batch>>
          /\ \E at \in {"load", "new"} : call' = Waits(call.thread, call.why, at)
      BY <1>12 DEF ResumeFailed, disk
    <2>2. stored[call.thread] # 0
      BY <1>1, <2>1 DEF CallIs, CallMade, Sessions
    <2> QED
      BY <1>6, <1>7, <2>1, <2>2
  <1>13. CASE LoadFailed
    <2>1. /\ CallIs("load") /\ UNCHANGED <<stored, phase, batch>>
          /\ call' = Waits(call.thread, call.why, "new")
      BY <1>13 DEF LoadFailed, disk
    <2> QED
      BY <1>6, <1>7, <2>1
  <1>14. CASE Loaded
    <2>1. /\ CallIs("load") /\ UNCHANGED <<stored, batch>> /\ phase' = "settle"
          /\ call' = [call EXCEPT !.at = "settling"]
      BY <1>14 DEF Loaded, disk
    <2>2. /\ call'.at = "settling" /\ call'.thread = call.thread /\ call'.session = call.session
      BY <1>2, <2>1 DEF Calls
    <2> QED
      BY <1>1, <2>1, <2>2 DEF CallIs, CallMade
  <1>15. CASE ResumeUnsupported \/ NewSessionFailed
    <2>1. phase = "idle" /\ call' = NoCall /\ UNCHANGED <<phase, batch>>
      BY <1>15 DEF ResumeUnsupported, NewSessionFailed, CallIs
    <2> QED
      BY <1>4, <2>1
  <1>16. CASE SendPrompt
    <2>1. phase = "idle" /\ call' = NoCall /\ phase' \in {"idle", "pump"} /\ UNCHANGED batch
      BY <1>16 DEF SendPrompt, CallIs
    <2> QED
      BY <1>4, <2>1
  <1>17. ASSUME NEW t \in Threads, PromptOnSession(t) PROVE CallMade'
    <2>1. call' = [at |-> "send", thread |-> t, why |-> "prompt", session |-> conn.sessions[t],
                   reply |-> "none"]
      BY <1>17 DEF PromptOnSession, NoCall
    <2>2. conn.sessions[t] \in Sessions
      <3>1. conn.sessions[t] \in 0..MaxSessions
        BY <1>2 DEF Conns
      <3> QED
        BY <1>2, <1>17, <3>1 DEF PromptOnSession, HasAdapter
    <2>3. phase = "idle" /\ UNCHANGED <<phase, batch>>
      BY <1>17 DEF PromptOnSession, Idle
    <2> QED
      BY <1>1, <2>1, <2>2, <2>3 DEF CallMade
  <1>18. ASSUME UNCHANGED <<stored, call>>,
                phase' \in {"pump", "handle"} \/ (phase' = "settle" /\ phase = "settle")
                  \/ (phase' = "idle" /\ batch' = <<>>),
                call.at \in {"none", "settling"} \/ (phase' = "idle" /\ phase = "idle")
         PROVE  CallMade'
    BY <1>1, <1>18 DEF CallMade
  <1>19. phase # "idle" => call.at \in {"none", "settling"}
    BY <1>1 DEF CallMade
  <1>20. CASE StartPump \/ Drain \/ Settle \/ Drained
    <2>1. UNCHANGED <<stored, call>>
      BY <1>20 DEF StartPump, Drain, Settle, Drained, disk
    <2>2. \/ phase' \in {"pump", "handle"}
          \/ phase' = "settle" /\ phase = "settle"
      BY <1>20 DEF StartPump, Drain, Settle, Drained
    <2>3. call.at \in {"none", "settling"}
      BY <1>19, <1>20 DEF StartPump, Idle, NoCall, Drain, Settle, Drained
    <2> QED
      BY <1>18, <2>1, <2>2, <2>3
  <1>21. CASE HandleUpdate \/ HandleEnded \/ HandleAsk \/ HandleResult \/ HandleClosed
    <2>1. UNCHANGED <<stored, call>> /\ phase = "handle" /\ phase' = "handle"
      BY <1>21 DEF HandleUpdate, HandleEnded, HandleAsk, HandleResult, HandleClosed, Handle
    <2> QED
      BY <1>18, <1>19, <2>1
  <1>22. CASE Handled
    <2>1. UNCHANGED <<stored, call>> /\ phase = "handle" /\ phase' = "idle" /\ batch' = <<>>
      BY <1>22 DEF Handled, disk
    <2> QED
      BY <1>18, <1>19, <2>1
  <1>23. ASSUME NEW t \in Threads,
                PromptHeldBack(t) \/ Leave(t) \/ Decide(t) \/ DrainStranded(t)
         PROVE  CallMade'
    <2>1. UNCHANGED <<stored, call, phase, batch>>
      BY <1>23 DEF PromptHeldBack, Leave, Decide, DrainStranded, disk
    <2> QED
      BY <1>3, <2>1
  <1>24. CASE Panic \/ Reap
    <2>1. UNCHANGED <<stored, call, phase, batch>>
      BY <1>24 DEF Panic, Reap, disk
    <2> QED
      BY <1>3, <2>1
  <1>25. CASE AgentMoves
    <2>1. UNCHANGED <<stored, phase, batch>>
      BY <1>25 DEF AgentMoves, Speak, Ask, Finish, ReplyInitialize, ReplyResume, ReplyLoad,
                   ReplyNew, Die, PipeCloses, AgentOnly, disk
    <2>2. CASE UNCHANGED call
      BY <1>3, <2>1, <2>2
    <2>3. CASE ReplyInitialize \/ ReplyResume \/ ReplyLoad
      <3>1. PICK reply \in {"yes", "no"} : call' = [call EXCEPT !.reply = reply]
        BY <2>3 DEF ReplyInitialize, ReplyResume, ReplyLoad, Replies
      <3>2. call.at \in {"initialize", "resume", "load"}
        BY <2>3 DEF ReplyInitialize, ReplyResume, ReplyLoad, Asked
      <3>3. /\ call'.at = call.at /\ call'.thread = call.thread /\ call'.session = call.session
        BY <1>2, <3>1 DEF Calls
      <3> QED
        BY <1>1, <2>1, <3>2, <3>3 DEF CallMade
    <2>4. CASE ReplyNew
      <3>1. PICK reply \in {"yes", "no"} :
               call' = [call EXCEPT !.reply = reply, !.session = Len(made')]
        BY <2>4 DEF ReplyNew
      <3>2. call.at = "new"
        BY <2>4 DEF ReplyNew, Asked
      <3>3. Len(made') \in Sessions
        <4>1. made \in Seq(Threads) /\ call.thread \in Threads /\ Len(made) \in Nat
              /\ Len(made) < MaxSessions
          BY <1>1, <2>4, <3>2, LenProperties DEF Types, CallMade, ReplyNew
        <4>2. Len(made') = Len(made) + 1
          BY <2>4, <4>1, AppendProperties DEF ReplyNew
        <4> QED
          BY <4>1, <4>2, PoolAssumption DEF Sessions
      <3>4. /\ call'.at = call.at /\ call'.thread = call.thread /\ call'.session \in Sessions
        BY <1>2, <3>1, <3>3 DEF Calls
      <3> QED
        BY <1>1, <2>1, <3>2, <3>4 DEF CallMade
    <2> QED
      BY <1>25, <2>2, <2>3, <2>4 DEF AgentMoves, Speak, Ask, Finish, Die, PipeCloses
  <1> QED
    BY <1>5, <1>8, <1>9, <1>11, <1>12, <1>13, <1>14, <1>15, <1>16, <1>17, <1>20, <1>21, <1>22,
       <1>23, <1>24, <1>25 DEF Next, HostMoves, UserMoves

\* The room, in each step.
LEMMA RoomStep ==
    ASSUME Base, Next, Types'
    PROVE  Room'
  <1> DEFINE W == {t \in Threads : waiting[t]}
             V == {t \in Threads : waiting'[t]}
  <1>1. Types /\ CallMade /\ Room
    BY DEF Base
  <1>2. /\ call \in Calls /\ count \in Counts /\ count.prompts \in Nat /\ MaxPrompts \in Nat
        /\ waiting \in [Threads -> BOOLEAN] /\ waiting' \in [Threads -> BOOLEAN]
        /\ count'.prompts \in Nat
    BY SMTT(30), <1>1, PoolAssumption DEF Types, Counts
  <1>3. Cardinality(W) \in Nat /\ Cardinality(V) \in Nat
    BY <1>2, Backlog
  <1>4. /\ Room <=> count.prompts + Cardinality(W) + Kept <= MaxPrompts
        /\ Room' <=> count'.prompts + Cardinality(V) + Kept' <= MaxPrompts
    BY DEF Room, Promised
  <1>5. Kept \in {0, 1} /\ Kept' \in {0, 1}
    BY DEF Kept
  <1>6. /\ call.at # "none" /\ call.why = "prompt" <=> Kept = 1
        /\ call'.at # "none" /\ call'.why = "prompt" <=> Kept' = 1
        /\ call' = NoCall => Kept' = 0
        /\ call' = call => Kept' = Kept
    BY DEF Kept, NoCall
  <1>7. waiting' = waiting => V = W
    OBVIOUS
  <1>8. (\A t \in Threads : waiting'[t] => waiting[t]) => Cardinality(V) <= Cardinality(W)
    <2>1. (\A t \in Threads : waiting'[t] => waiting[t]) => V \in SUBSET W
      OBVIOUS
    <2> QED
      BY <1>2, <2>1, Backlog
  <1> HIDE DEF W, V
  <1>9. ASSUME count'.prompts = count.prompts, Kept' <= Kept,
               waiting' = waiting \/ \A t \in Threads : waiting'[t] => waiting[t]
        PROVE  Room'
    <2>1. Cardinality(V) <= Cardinality(W)
      BY <1>3, <1>7, <1>8, <1>9
    <2> QED
      BY <1>1, <1>2, <1>3, <1>4, <1>5, <1>9, <2>1
  <1>10. ASSUME count'.prompts = count.prompts, waiting' = waiting, Promised < MaxPrompts
         PROVE  Room'
    <2>1. Promised = count.prompts + Cardinality(W)
      BY DEF Promised, W
    <2> QED
      BY <1>2, <1>3, <1>4, <1>5, <1>7, <1>10, <2>1
  <1>11. ASSUME NEW t \in Threads, Attach(t) PROVE Room'
    <2>1. PICK why \in {"prompt", "resume"} :
             /\ why = "prompt" => Promised < MaxPrompts
             /\ call' = Waits(t, why, "initialize")
      BY <1>11 DEF Attach
    <2>2. count'.prompts = count.prompts /\ waiting' = waiting
      BY <1>1, <1>11, Connected DEF Attach
    <2>3. call'.why = why
      BY <2>1 DEF Waits
    <2>4. CASE why = "prompt"
      BY <1>10, <2>1, <2>2, <2>4
    <2>5. CASE why = "resume"
      BY <1>5, <1>6, <1>9, <2>2, <2>3, <2>5
    <2> QED
      BY <2>1, <2>4, <2>5
  <1>12. ASSUME NEW t \in Threads, PromptOnSession(t) PROVE Room'
    BY <1>10, <1>12 DEF PromptOnSession
  <1>13. ASSUME NEW t \in Threads, PromptHeldBack(t) PROVE Room'
    <2>1. Kept = 0 /\ Kept' = 0 /\ count' = count /\ ~waiting[t]
          /\ count.prompts + Cardinality(W) < MaxPrompts
      BY <1>6, <1>13 DEF PromptHeldBack, Idle, Promised, W
    <2>2. V = {u \in Threads : waiting[u] \/ u = t}
      BY <1>2, <1>13 DEF PromptHeldBack, V
    <2>3. Cardinality(V) = Cardinality(W) + 1
      BY <1>2, <2>1, <2>2, Backlog DEF W
    <2> QED
      BY <1>2, <1>3, <1>4, <2>1, <2>3
  <1>14. ASSUME NEW t \in Threads, Leave(t) \/ Decide(t) PROVE Room'
    <2>1. count'.prompts = count.prompts /\ call' = call
      BY <1>2, <1>14 DEF Leave, Decide, Counts
    <2>2. \A u \in Threads : waiting'[u] => waiting[u]
      BY <1>2, <1>14 DEF Leave, Decide
    <2> QED
      BY <1>5, <1>6, <1>9, <2>1, <2>2
  <1>15. ASSUME UNCHANGED <<waiting, count>>,
                \/ call' = NoCall \/ call' = call
                \/ /\ call.at # "none"
                   /\ \/ \E at \in {"resume", "load", "new"} : call' = Waits(call.thread, call.why, at)
                      \/ call' = AttachedCall(call.session)
                      \/ call' = [call EXCEPT !.at = "settling"]
         PROVE  Room'
    <2>1. Kept' <= Kept
      <3>1. CASE call' = NoCall \/ call' = call
        BY <1>5, <1>6, <3>1
      <3>2. CASE call.at # "none" /\ \E at \in {"resume", "load", "new"} : call' = Waits(call.thread, call.why, at)
        <4>1. call'.why = call.why
          BY <3>2 DEF Waits
        <4> QED
          BY <1>5, <1>6, <3>2, <4>1
      <3>3. CASE call.at # "none" /\ call' = AttachedCall(call.session)
        <4>1. call'.why = call.why \/ call' = NoCall
          BY <1>2, <3>3 DEF AttachedCall, Calls
        <4> QED
          BY <1>5, <1>6, <3>3, <4>1
      <3>4. CASE call.at # "none" /\ call' = [call EXCEPT !.at = "settling"]
        <4>1. call'.why = call.why
          BY <1>2, <3>4 DEF Calls
        <4> QED
          BY <1>5, <1>6, <3>4, <4>1
      <3> QED
        BY <1>15, <3>1, <3>2, <3>3, <3>4
    <2> QED
      BY <1>9, <1>15, <2>1
  <1>16. CASE Initialized
    <2>1. PICK drifted \in BOOLEAN :
             call' = Restore(call.thread, call.why, agent.able, stored[call.thread] # 0 /\ ~drifted)
      BY <1>16 DEF Initialized
    <2>2. \E at \in {"resume", "load", "new"} : call' = Waits(call.thread, call.why, at)
      BY <2>1 DEF Restore
    <2>3. call.at # "none" /\ UNCHANGED <<waiting, count>>
      BY <1>16 DEF Initialized, CallIs
    <2> QED
      BY <1>15, <2>2, <2>3
  <1>17. CASE InitializeFailed
    <2>1. \/ call' = NoCall
          \/ call.why = "prompt" /\ call' = Waits(call.thread, "prompt", "new")
      BY <1>17 DEF InitializeFailed
    <2>2. call.at # "none" /\ UNCHANGED <<waiting, count>>
      BY <1>17 DEF InitializeFailed, CallIs
    <2> QED
      BY <1>15, <2>1, <2>2
  <1>18. CASE Resumed \/ Settled \/ NewSession
    <2>1. call.at # "none" /\ call' = AttachedCall(call.session) /\ UNCHANGED <<waiting, count>>
      BY <1>18 DEF Resumed, Settled, NewSession, CallIs
    <2> QED
      BY <1>15, <2>1
  <1>19. CASE ResumeFailed \/ LoadFailed \/ Loaded
    <2>1. /\ call.at # "none" /\ UNCHANGED <<waiting, count>>
          /\ \/ \E at \in {"load", "new"} : call' = Waits(call.thread, call.why, at)
             \/ call' = [call EXCEPT !.at = "settling"]
      BY <1>19 DEF ResumeFailed, LoadFailed, Loaded, CallIs
    <2> QED
      BY <1>15, <2>1
  <1>20. CASE \/ ResumeUnsupported \/ NewSessionFailed \/ Panic \/ StartPump \/ Drain \/ Settle
              \/ Drained \/ HandleUpdate \/ HandleEnded \/ HandleAsk \/ Handled
    <2>1. (call' = NoCall \/ call' = call) /\ UNCHANGED <<waiting, count>>
      BY <1>20 DEF ResumeUnsupported, NewSessionFailed, Panic, StartPump, Drain, Settle, Drained,
                   HandleUpdate, HandleEnded, HandleAsk, Handled, Handle
    <2> QED
      BY <1>15, <2>1
  <1>21. CASE SendPrompt
    <2>1. call' = NoCall /\ waiting' = waiting /\ Kept = 1
      BY <1>1, <1>6, <1>21 DEF SendPrompt, CallIs, CallMade
    <2>2. count'.prompts = count.prompts \/ count'.prompts = count.prompts + 1
      BY <1>2, <1>21 DEF SendPrompt, Sent, Counts
    <2> QED
      BY <1>1, <1>2, <1>3, <1>4, <1>5, <1>6, <1>7, <2>1, <2>2
  <1>22. ASSUME NEW t \in Threads, NEW a, call' = call, NextPrompt(t, a),
                waiting' = [waiting EXCEPT ![t] = FALSE]
         PROVE  Room'
    <2>1. \A u \in Threads : waiting'[u] => waiting[u] /\ u # t
      BY <1>2, <1>22
    <2>2. CASE count' = count
      BY <1>5, <1>6, <1>9, <1>22, <2>1, <2>2
    <2>3. CASE waiting[t] /\ count'.prompts = count.prompts + 1
      <3>1. V = {u \in Threads : waiting[u] /\ u # t}
        BY <1>2, <1>22 DEF V
      <3>2. Cardinality(V) = Cardinality(W) - 1
        BY <1>2, <2>3, <3>1, Backlog DEF W
      <3> QED
        BY <1>1, <1>2, <1>3, <1>4, <1>5, <1>6, <1>22, <2>3, <3>2
    <2> QED
      BY <1>2, <1>22, <2>2, <2>3 DEF NextPrompt, HeldBackGoes, Sent, Counts
  <1>25. CASE HandleResult
    <2>1. /\ call' = call /\ NextPrompt(Head(batch).to, Answered(agent, held[Head(batch).to]))
          /\ waiting' = [waiting EXCEPT ![Head(batch).to] = FALSE]
      BY <1>25 DEF HandleResult, Handle
    <2>2. Head(batch).to \in Threads
      <3>1. batch \in Seq([to : Threads, event : Read, by : {"pump", "settle"}]) /\ batch # <<>>
        BY <1>1, <1>25 DEF Types, HandleResult, Handle
      <3>2. Head(batch) \in [to : Threads, event : Read, by : {"pump", "settle"}]
        BY <3>1, TailOf
      <3> QED
        BY <3>2
    <2> QED
      BY <1>22, <2>1, <2>2
  <1>26. ASSUME NEW t \in Threads, DrainStranded(t) PROVE Room'
    BY <1>22, <1>26 DEF DrainStranded, NextPrompt
  <1>23. CASE HandleClosed \/ Reap
    <2>1. \A u \in Threads : waiting'[u] => waiting[u]
      BY <1>23 DEF HandleClosed, Reap, Gone
    <2>2. count' = count /\ call' = call
      BY <1>23 DEF HandleClosed, Reap, Handle
    <2> QED
      BY <1>5, <1>6, <1>9, <2>1, <2>2
  <1>24. CASE AgentMoves
    <2>1. waiting' = waiting /\ count'.prompts = count.prompts
      BY <1>2, <1>24 DEF AgentMoves, Speak, Ask, Finish, ReplyInitialize, ReplyResume, ReplyLoad,
                   ReplyNew, Die, PipeCloses, AgentOnly, Counts
    <2>2. call'.at = call.at /\ call'.why = call.why
      BY <1>2, <1>24 DEF AgentMoves, Speak, Ask, Finish, ReplyInitialize, ReplyResume, ReplyLoad,
                   ReplyNew, Die, PipeCloses, Replies, Calls
    <2> QED
      BY <1>5, <1>6, <1>9, <2>1, <2>2
  <1> QED
    BY <1>11, <1>12, <1>13, <1>14, <1>16, <1>17, <1>18, <1>19, <1>20, <1>21, <1>23, <1>24,
       <1>25, <1>26 DEF Next, HostMoves, UserMoves

\* The first layer, in each step and in none.
LEMMA BaseStep ==
    ASSUME Base, [Next]_vars
    PROVE  Base'
  <1>1. CASE Next
    <2>1. Types'
      <3>1. CASE AgentMoves
        BY <3>1, TypesAgent
      <3>2. CASE HostMoves
        BY <3>2, TypesAttach, TypesPrompt, TypesPump DEF HostMoves
      <3>3. CASE UserMoves
        BY <3>3, TypesAttach, TypesPrompt DEF UserMoves
      <3> QED
        BY <1>1, <3>1, <3>2, <3>3 DEF Next
    <2> QED
      BY <1>1, <2>1, CallMadeStep, RoomStep DEF Base
  <1>2. CASE UNCHANGED vars
    BY <1>2 DEF vars, Base, Types, CallMade, Room, Promised, Kept
  <1> QED
    BY <1>1, <1>2

-----------------------------------------------------------------------------
(* The second layer is inductive.                                          *)

\* Threads that have no open run any more leave.
LEMMA LeftRiding ==
    ASSUME Types, Riding, NEW ts \in SUBSET Threads, NEW a \in Agents,
           a.alive = agent.alive, a.eof = agent.eof, Leaves(Release(conn, ts), a),
           \A t \in Threads : run'[t] # 0 => run[t] # 0 /\ t \notin ts,
           \A t \in Threads : waiting'[t] => waiting[t] /\ t \notin ts
    PROVE  /\ Down' /\ RunRides'
           /\ ~PipeOpen => ~PipeOpen'
           /\ PipeOpen' => agent' = a /\ queue' = queue /\ conn'.up
           /\ \A i \in DOMAIN queue' : queue'[i].type = "closed" => ~PipeOpen'
           /\ \A t \in Threads \ ts : conn'.sessions[t] = conn.sessions[t]
  <1>1. conn \in Conns /\ queue \in Seq(Read)
    BY DEF Types
  <1>2. /\ conn'.up => agent' = a /\ queue' = queue /\ conn.up
        /\ ~conn'.up => agent' = NoAgent /\ queue' = <<>>
        /\ conn' = NoConn \/ (conn'.up = conn.up /\ \E t \in Threads : conn'.sessions[t] # 0)
        /\ \A t \in Threads : conn'.sessions[t] = IF t \in ts THEN 0 ELSE conn.sessions[t]
    BY <1>1, Left
  <1>3. ~conn.up => \A t \in Threads : conn.sessions[t] = 0
    BY DEF Riding, Down, NoConn, Vacant
  <1>4. Down'
    BY <1>2, <1>3 DEF Down
  <1>5. RunRides'
    BY <1>2 DEF Riding, RunRides
  <1>6. ~NoAgent.alive /\ NoAgent.eof
    BY DEF NoAgent
  <1>7. ~PipeOpen => ~PipeOpen'
    BY <1>2, <1>6 DEF PipeOpen
  <1>8. PipeOpen' => agent' = a /\ queue' = queue /\ conn'.up
    BY <1>2, <1>6 DEF PipeOpen
  <1>9. \A i \in DOMAIN queue' : queue'[i].type = "closed" => ~PipeOpen'
    BY <1>7, <1>8 DEF Riding, ClosedIsDead
  <1> QED
    BY <1>2, <1>4, <1>5, <1>7, <1>8, <1>9

\* Who rides, when the host attaches a thread.
LEMMA RidingAttach ==
    ASSUME Base, Riding,
           \/ \E t \in Threads : Attach(t)
           \/ Initialized \/ InitializeFailed \/ Resumed \/ ResumeFailed
           \/ Loaded \/ LoadFailed \/ Settled \/ ResumeUnsupported
           \/ NewSession \/ NewSessionFailed
    PROVE  Riding'
  <1>1. Types /\ CallMade /\ Down /\ CallRides /\ RunRides /\ CallIdle /\ ClosedIsDead
    BY DEF Base, Riding
  <1>2. /\ conn \in Conns /\ agent \in Agents /\ call \in Calls /\ queue \in Seq(Read)
    BY <1>1 DEF Types
  <1>3. call.at # "none" => call.thread \in Threads /\ run[call.thread] = 0 /\ ~waiting[call.thread]
    BY <1>1 DEF CallMade, CallIdle
  <1>4. phase = "idle" => batch = <<>>
    BY <1>1 DEF CallMade
  <1>5. ASSUME NEW t \in Threads, Attach(t) PROVE Riding'
    <2>1. /\ conn'.up
          /\ \/ conn.up /\ UNCHANGED <<conn, agent, queue>>
             \/ /\ ~conn.up /\ conn' = FreshConn /\ queue' = <<>>
                /\ agent'.alive /\ ~agent'.eof
      BY <1>1, <1>5, Connected DEF Attach
    <2>2. ~HasAdapter(t) /\ UNCHANGED <<run, waiting, batch, phase>> /\ phase = "idle"
      BY <1>5 DEF Attach, disk, Idle
    <2>3. ~conn.up => \A u \in Threads : conn.sessions[u] = 0 /\ run[u] = 0 /\ ~waiting[u]
      BY <1>1 DEF Down, RunRides, NoConn, Vacant
    <2>4. run[t] = 0 /\ ~waiting[t]
      BY <1>1, <2>2, <2>3 DEF HasAdapter, RunRides
    <2>5. call'.at = "initialize" /\ call'.thread = t
      BY <1>5 DEF Attach, Waits
    <2>6. Down' /\ CallRides'
      BY <2>1 DEF Down, CallRides
    <2>7. RunRides'
      BY <1>1, <2>1, <2>2, <2>3 DEF RunRides
    <2>8. CallIdle'
      BY <2>2, <2>4, <2>5 DEF CallIdle
    <2>9. ClosedIsDead'
      BY <1>1, <1>4, <2>1, <2>2 DEF ClosedIsDead, PipeOpen
    <2> QED
      BY <2>6, <2>7, <2>8, <2>9 DEF Riding
  <1>6. ASSUME UNCHANGED <<run, conn, queue, batch, waiting, agent>>,
               \/ call' = NoCall
               \/ /\ call.at # "none" /\ call'.thread = call.thread
                  /\ call'.at \in {"initialize", "resume", "load", "new"} => conn.up
                  /\ call'.at \in {"settling", "send"} => call.at \in {"settling", "send"}
        PROVE  Riding'
    <2>1. Down' /\ RunRides' /\ ClosedIsDead'
      BY <1>1, <1>6 DEF Down, RunRides, ClosedIsDead, PipeOpen
    <2>2. CallRides' /\ CallIdle'
      BY <1>1, <1>6 DEF CallRides, CallIdle, PipeOpen, NoCall
    <2> QED
      BY <2>1, <2>2 DEF Riding
  <1>7. CASE Initialized
    <2>1. /\ call.at = "initialize" /\ conn' = [conn EXCEPT !.ready = TRUE]
          /\ UNCHANGED <<run, queue, batch, waiting, agent>>
      BY <1>7 DEF Initialized, CallIs, disk
    <2>2. conn'.up /\ conn'.sessions = conn.sessions
      BY <1>1, <1>2, <2>1 DEF Conns, CallRides
    <2>3. call'.at \in {"resume", "load", "new"} /\ call'.thread = call.thread
      BY <1>7 DEF Initialized, Restore, Waits
    <2>4. Down' /\ CallRides'
      BY <2>2 DEF Down, CallRides
    <2>5. RunRides' /\ CallIdle' /\ ClosedIsDead'
      BY <1>1, <1>3, <2>1, <2>2, <2>3 DEF RunRides, CallIdle, ClosedIsDead, PipeOpen
    <2> QED
      BY <2>4, <2>5 DEF Riding
  <1>8. ASSUME call.at # "none", call' = NoCall, phase = "idle", UNCHANGED <<run, waiting, batch>>,
               NEW a \in Agents, a.alive = agent.alive, a.eof = agent.eof,
               Leaves(Release(conn, {call.thread}), a)
        PROVE  Riding'
    <2>1. call.thread \in Threads /\ run[call.thread] = 0 /\ ~waiting[call.thread]
      BY <1>3, <1>8
    <2>2. \A t \in Threads : run'[t] # 0 => run[t] # 0 /\ t \notin {call.thread}
      BY <1>8, <2>1
    <2>3. \A t \in Threads : waiting'[t] => waiting[t] /\ t \notin {call.thread}
      BY <1>8, <2>1
    <2>4. {call.thread} \in SUBSET Threads
      BY <2>1
    <2>5. /\ Down' /\ RunRides'
          /\ \A i \in DOMAIN queue' : queue'[i].type = "closed" => ~PipeOpen'
      BY <1>1, <1>8, <2>2, <2>3, <2>4, LeftRiding
    <2>6. CallRides' /\ CallIdle'
      BY <1>8 DEF CallRides, CallIdle, NoCall
    <2>7. ClosedIsDead'
      BY <1>4, <1>8, <2>5 DEF ClosedIsDead
    <2> QED
      BY <2>5, <2>6, <2>7 DEF Riding
  <1>9. CASE InitializeFailed
    <2>1. call.at = "initialize" /\ conn.up /\ phase = "idle" /\ UNCHANGED <<run, waiting, batch>>
      BY <1>1, <1>9 DEF InitializeFailed, CallIs, CallRides, disk
    <2>2. CASE UNCHANGED <<conn, agent, queue>>
      <3>1. call' = NoCall \/ call' = Waits(call.thread, "prompt", "new")
        BY <1>9 DEF InitializeFailed
      <3>2. call' = NoCall \/ (call'.at = "new" /\ call'.thread = call.thread)
        BY <3>1 DEF Waits
      <3> QED
        BY <1>6, <2>1, <2>2, <3>2
    <2>3. CASE call' = NoCall /\ ForgetAdapter(call.thread, agent)
      BY <1>2, <1>8, <2>1, <2>3 DEF ForgetAdapter
    <2> QED
      BY <1>9, <2>2, <2>3 DEF InitializeFailed
  <1>10. ASSUME call.at \in {"resume", "load", "new"}, call.session \in Sessions,
                conn' = Adopt(conn, call.thread, call.session)
                  \/ conn' = [Adopt(conn, call.thread, call.session) EXCEPT !.ready = TRUE],
                call' = NoCall \/ (call'.at \in {"send", "settling"} /\ call'.thread = call.thread),
                UNCHANGED <<run, queue, batch, waiting, agent>>
         PROVE  Riding'
    <2>1. /\ call.thread \in Threads /\ conn.up
          /\ run[call.thread] = 0 /\ ~waiting[call.thread]
      BY <1>1, <1>3, <1>10 DEF CallRides
    <2>2. /\ conn'.up
          /\ \A u \in Threads :
                conn'.sessions[u] = IF u = call.thread THEN call.session ELSE conn.sessions[u]
      <3> DEFINE c == Adopt(conn, call.thread, call.session)
      <3>1. /\ c \in Conns /\ c.up
            /\ \A u \in Threads :
                  c.sessions[u] = IF u = call.thread THEN call.session ELSE conn.sessions[u]
        BY <1>2, <1>10, <2>1, Adopted
      <3>2. conn' = c \/ conn' = [c EXCEPT !.ready = TRUE]
        BY <1>10
      <3> HIDE DEF c
      <3>3. conn'.up = c.up /\ conn'.sessions = c.sessions
        BY <3>1, <3>2 DEF Conns
      <3> QED
        BY <3>1, <3>3
    <2>3. call.session # 0
      BY <1>10 DEF Sessions
    <2>4. Down' /\ CallRides'
      BY <2>2 DEF Down, CallRides
    <2>5. RunRides' /\ ClosedIsDead'
      BY <1>1, <1>10, <2>1, <2>2, <2>3 DEF RunRides, ClosedIsDead, PipeOpen
    <2>6. CallIdle'
      BY <1>10, <2>1, <2>2, <2>3 DEF CallIdle, NoCall
    <2> QED
      BY <2>4, <2>5, <2>6 DEF Riding
  <1>11. call' = AttachedCall(call.session)
            => call' = NoCall \/ (call'.at = "send" /\ call'.thread = call.thread)
    BY <1>2 DEF AttachedCall, Calls
  <1>12. CASE Resumed \/ NewSession
    <2>1. /\ call.at \in {"resume", "new"} /\ call' = AttachedCall(call.session)
          /\ UNCHANGED <<run, queue, batch, waiting, agent>>
          /\ \/ conn' = Adopt(conn, call.thread, call.session)
             \/ conn' = [Adopt(conn, call.thread, call.session) EXCEPT !.ready = TRUE]
      BY <1>12 DEF Resumed, NewSession, CallIs, disk
    <2>2. call.session \in Sessions
      BY <1>1, <1>12 DEF Resumed, NewSession, CallIs, CallMade
    <2> QED
      BY <1>10, <1>11, <2>1, <2>2
  <1>13. CASE Loaded
    <2>1. /\ call.at = "load" /\ call' = [call EXCEPT !.at = "settling"]
          /\ UNCHANGED <<run, queue, batch, waiting, agent>>
          /\ conn' = Adopt(conn, call.thread, call.session)
      BY <1>13 DEF Loaded, CallIs, disk
    <2>2. call.session \in Sessions
      BY <1>1, <2>1 DEF CallMade
    <2>3. call'.at = "settling" /\ call'.thread = call.thread
      BY <1>2, <2>1 DEF Calls
    <2> QED
      BY <1>10, <2>1, <2>2, <2>3
  <1>14. CASE ResumeFailed \/ LoadFailed
    <2>1. /\ call.at \in {"resume", "load"} /\ conn.up
          /\ UNCHANGED <<run, conn, queue, batch, waiting, agent>>
      BY <1>1, <1>14 DEF ResumeFailed, LoadFailed, CallIs, CallRides, disk
    <2>2. call'.at \in {"load", "new"} /\ call'.thread = call.thread
      BY <1>14 DEF ResumeFailed, LoadFailed, Waits
    <2> QED
      BY <1>6, <2>1, <2>2
  <1>15. CASE Settled
    <2>1. /\ call.at = "settling" /\ call' = AttachedCall(call.session)
          /\ UNCHANGED <<run, conn, queue, batch, waiting, agent>>
      BY <1>15 DEF Settled, CallIs, disk
    <2> QED
      BY <1>6, <1>11, <2>1
  <1>16. CASE ResumeUnsupported
    <2>1. call.at = "new" /\ phase = "idle" /\ call' = NoCall /\ UNCHANGED <<run, waiting, batch>>
      BY <1>16 DEF ResumeUnsupported, CallIs, disk
    <2>2. call.thread \in Threads
      BY <1>3, <2>1
    <2>3. PICK a \in Agents : /\ Leaves(Release(conn, {call.thread}), a)
                              /\ a.alive = agent.alive /\ a.eof = agent.eof
      BY <1>1, <1>16, <2>2, Dropped DEF ResumeUnsupported
    <2> QED
      BY <1>8, <2>1, <2>3
  <1>17. CASE NewSessionFailed
    <2>1. /\ call.at = "new" /\ phase = "idle" /\ call' = NoCall /\ UNCHANGED <<run, waiting, batch>>
          /\ Leaves(Release(conn, {call.thread}), agent)
      BY <1>17 DEF NewSessionFailed, CallIs, ForgetAdapter, disk
    <2> QED
      BY <1>2, <1>8, <2>1
  <1> QED
    BY <1>5, <1>7, <1>9, <1>12, <1>13, <1>14, <1>15, <1>16, <1>17

\* A prompt that goes out on a session its thread rides.
LEMMA SentRiding ==
    ASSUME Types, Riding, NEW t \in Threads, NEW s \in Sessions, NEW a \in Agents,
           a.alive = agent.alive, a.eof = agent.eof, count.prompts < MaxPrompts,
           Sent(t, s, a), conn.up, conn.sessions[t] # 0,
           \A u \in Threads : waiting'[u] => waiting[u]
    PROVE  /\ Down' /\ RunRides'
           /\ PipeOpen /\ PipeOpen' /\ conn'.up /\ conn'.sessions = conn.sessions
           /\ \A i \in DOMAIN queue' : queue'[i].type # "closed"
  <1>1. /\ PipeOpen /\ count.prompts + 1 \in Nat \ {0}
        /\ conn'.up = conn.up /\ conn'.sessions = conn.sessions
        /\ agent'.alive = a.alive /\ agent'.eof = a.eof /\ queue' = queue
        /\ run' = [run EXCEPT ![t] = count.prompts + 1]
    <2>1. PipeOpen /\ queue' = queue
      BY DEF Sent
    <2>2. count.prompts + 1 \in Nat \ {0}
      BY DEF Types, Counts
    <2>3. run' = [run EXCEPT ![t] = count.prompts + 1]
      BY DEF Sent
    <2>4. conn'.up = conn.up /\ conn'.sessions = conn.sessions
      BY SentOut
    <2>5. agent'.alive = a.alive /\ agent'.eof = a.eof
      <3>1. \E tt : agent' = [a EXCEPT !.turns = tt] \/ agent' = a
        BY DEF Sent
      <3> QED
        BY <3>1 DEF Agents
    <2> QED
      BY <2>1, <2>2, <2>3, <2>4, <2>5
  <1>2. PipeOpen'
    BY <1>1 DEF PipeOpen
  <1>3. Down'
    BY <1>1 DEF Down
  <1>4. RunRides'
    <2>1. \A u \in Threads : run'[u] = IF u = t THEN count.prompts + 1 ELSE run[u]
      BY <1>1 DEF Types
    <2> QED
      BY <1>1, <2>1 DEF Riding, RunRides
  <1>5. \A i \in DOMAIN queue' : queue'[i].type # "closed"
    BY <1>1 DEF Riding, ClosedIsDead
  <1> QED
    BY <1>1, <1>2, <1>3, <1>4, <1>5

\* A turn is over, and the next prompt goes out or is dropped.
LEMMA NextRiding ==
    ASSUME Base, Riding, NEW t \in Threads, NEW a \in Agents,
           a.alive = agent.alive, a.eof = agent.eof, ~conn.up => a = NoAgent,
           NextPrompt(t, a), waiting' = [waiting EXCEPT ![t] = FALSE], call' = call
    PROVE  /\ Down' /\ RunRides' /\ CallIdle' /\ (~PipeOpen => ~PipeOpen')
           /\ \A i \in DOMAIN queue' : queue'[i].type = "closed" => ~PipeOpen'
  <1>1. Types /\ CallMade /\ Down /\ RunRides /\ CallIdle /\ ClosedIsDead
    BY DEF Base, Riding
  <1>2. /\ conn \in Conns /\ agent \in Agents
        /\ run \in [Threads -> 0..MaxPrompts] /\ waiting \in [Threads -> BOOLEAN]
    BY <1>1 DEF Types
  <1>3. /\ call.at # "none" => call.thread \in Threads /\ run[call.thread] = 0
        /\ call.at # "none" => ~waiting[call.thread]
    BY <1>1 DEF CallMade, CallIdle
  <1>4. \A u \in Threads : waiting'[u] => waiting[u] /\ u # t
    BY <1>2
  <1>5. CASE ~waiting[t] /\ agent' = a /\ run' = [run EXCEPT ![t] = 0] /\ UNCHANGED <<conn, queue>>
    <2>1. PipeOpen' <=> PipeOpen
      BY <1>5 DEF PipeOpen
    <2>2. \A u \in Threads : run'[u] = IF u = t THEN 0 ELSE run[u]
      BY <1>2, <1>5
    <2>3. Down' /\ RunRides'
      BY <1>1, <1>4, <1>5, <2>2 DEF Down, RunRides
    <2>4. CallIdle'
      BY <1>1, <1>3, <1>4, <1>5, <2>1, <2>2 DEF CallIdle
    <2>5. \A i \in DOMAIN queue' : queue'[i].type = "closed" => ~PipeOpen'
      BY <1>1, <1>5, <2>1 DEF ClosedIsDead
    <2> QED
      BY <2>1, <2>3, <2>4, <2>5
  <1>6. CASE waiting[t] /\ HasAdapter(t) /\ Sent(t, conn.sessions[t], a)
    <2>1. /\ conn.up /\ conn.sessions[t] # 0 /\ conn.sessions[t] \in Sessions
          /\ count.prompts < MaxPrompts
      <3>1. conn.sessions[t] \in 0..MaxSessions
        BY <1>2 DEF Conns
      <3> QED
        BY <1>1, <1>6, <3>1, RoomForIt, PoolAssumption DEF HasAdapter, Sessions
    <2>2. /\ Down' /\ RunRides' /\ PipeOpen /\ PipeOpen'
          /\ conn'.up /\ conn'.sessions = conn.sessions
          /\ \A i \in DOMAIN queue' : queue'[i].type # "closed"
      BY <1>1, <1>4, <1>6, <2>1, SentRiding
    <2>3. \A u \in Threads : u # t => run'[u] = run[u]
      BY <1>2, <1>6 DEF Sent
    <2>4. CallIdle'
      BY <1>1, <1>3, <1>4, <1>6, <2>2, <2>3 DEF CallIdle
    <2> QED
      BY <2>2, <2>4
  <1>7. CASE waiting[t] /\ run' = [run EXCEPT ![t] = 0] /\ ForgetAdapter(t, a)
    <2>1. \A u \in Threads : run'[u] # 0 => run[u] # 0 /\ u \notin {t}
      BY <1>2, <1>7
    <2>2. \A u \in Threads : waiting'[u] => waiting[u] /\ u \notin {t}
      BY <1>4
    <2>3. {t} \in SUBSET Threads
      OBVIOUS
    <2>4. /\ Down' /\ RunRides' /\ (~PipeOpen => ~PipeOpen')
          /\ \A i \in DOMAIN queue' : queue'[i].type = "closed" => ~PipeOpen'
          /\ \A u \in Threads \ {t} : conn'.sessions[u] = conn.sessions[u]
      BY <1>1, <1>7, <2>1, <2>2, <2>3, LeftRiding DEF ForgetAdapter
    <2>5. CallIdle'
      BY <1>1, <1>2, <1>3, <1>4, <1>7, <2>4 DEF CallIdle
    <2> QED
      BY <2>4, <2>5
  <1> QED
    BY <1>5, <1>6, <1>7 DEF NextPrompt, HeldBackGoes

\* Who rides, when a prompt is sent or held back, and when a thread leaves.
LEMMA RidingPrompt ==
    ASSUME Base, Riding,
           \/ \E t \in Threads : \/ PromptOnSession(t) \/ PromptHeldBack(t) \/ Leave(t)
                                \/ Decide(t) \/ DrainStranded(t)
           \/ SendPrompt \/ Panic \/ Reap
    PROVE  Riding'
  <1>1. Types /\ CallMade /\ Down /\ CallRides /\ RunRides /\ CallIdle /\ ClosedIsDead
    BY DEF Base, Riding
  <1>2. /\ conn \in Conns /\ agent \in Agents /\ call \in Calls /\ queue \in Seq(Read)
        /\ run \in [Threads -> 0..MaxPrompts] /\ waiting \in [Threads -> BOOLEAN]
    BY <1>1 DEF Types
  <1>3. call.at # "none" => call.thread \in Threads /\ run[call.thread] = 0 /\ ~waiting[call.thread]
    BY <1>1 DEF CallMade, CallIdle
  <1>4. phase = "idle" => batch = <<>>
    BY <1>1 DEF CallMade
  <1>5. ASSUME NEW t \in Threads, PromptOnSession(t) PROVE Riding'
    <2>1. call' = [at |-> "send", thread |-> t, why |-> "prompt", session |-> conn.sessions[t],
                   reply |-> "none"]
      BY <1>5 DEF PromptOnSession, NoCall
    <2>2. /\ UNCHANGED <<run, conn, queue, batch, waiting, agent>>
          /\ run[t] = 0 /\ ~waiting[t] /\ conn.sessions[t] # 0
      BY <1>5 DEF PromptOnSession, HasAdapter, disk
    <2>3. Down' /\ CallRides' /\ RunRides' /\ ClosedIsDead'
      BY <1>1, <2>1, <2>2 DEF Down, CallRides, RunRides, ClosedIsDead, PipeOpen
    <2>4. CallIdle'
      BY <2>1, <2>2 DEF CallIdle
    <2> QED
      BY <2>3, <2>4 DEF Riding
  <1>6. ASSUME NEW t \in Threads, PromptHeldBack(t) PROVE Riding'
    <2>1. /\ UNCHANGED <<run, conn, queue, batch, agent, call>> /\ call = NoCall
          /\ conn.sessions[t] # 0 /\ waiting' = [waiting EXCEPT ![t] = TRUE]
      BY <1>6 DEF PromptHeldBack, HasAdapter, Idle, disk
    <2>2. RunRides'
      BY <1>1, <1>2, <2>1 DEF RunRides
    <2>3. Down' /\ CallRides' /\ CallIdle' /\ ClosedIsDead'
      BY <1>1, <2>1 DEF Down, CallRides, CallIdle, NoCall, ClosedIsDead, PipeOpen
    <2> QED
      BY <2>2, <2>3 DEF Riding
  <1>7. ASSUME NEW t \in Threads, Leave(t) PROVE Riding'
    <2>1. PICK a \in Agents : /\ Leaves(Release(conn, {t}), a)
                              /\ a.alive = agent.alive /\ a.eof = agent.eof
      BY <1>1, <1>7, Dropped DEF Leave
    <2>2. /\ run' = [run EXCEPT ![t] = 0] /\ waiting' = [waiting EXCEPT ![t] = FALSE]
          /\ UNCHANGED <<batch, call>> /\ call = NoCall /\ phase = "idle"
      BY <1>7 DEF Leave, Idle
    <2>3. \A u \in Threads : run'[u] # 0 => run[u] # 0 /\ u \notin {t}
      BY <1>2, <2>2
    <2>4. \A u \in Threads : waiting'[u] => waiting[u] /\ u \notin {t}
      BY <1>2, <2>2
    <2>5. /\ Down' /\ RunRides'
          /\ \A i \in DOMAIN queue' : queue'[i].type = "closed" => ~PipeOpen'
      <3>1. {t} \in SUBSET Threads
        OBVIOUS
      <3> QED
        BY <1>1, <2>1, <2>3, <2>4, <3>1, LeftRiding DEF Riding
    <2>6. CallRides' /\ CallIdle'
      BY <2>2 DEF CallRides, CallIdle, NoCall
    <2>7. ClosedIsDead'
      BY <1>4, <2>2, <2>5 DEF ClosedIsDead
    <2> QED
      BY <2>5, <2>6, <2>7 DEF Riding
  <1>8. ASSUME NEW t \in Threads, Decide(t) PROVE Riding'
    <2>1. PICK x \in held[t] : agent' = Answered(agent, {x})
      BY <1>8 DEF Decide
    <2>2. agent'.alive = agent.alive /\ agent'.eof = agent.eof
      BY <1>2, <2>1, Unblocked
    <2>4. UNCHANGED <<run, conn, queue, batch, waiting, call>>
      BY <1>8 DEF Decide, disk
    <2>5. ~conn.up => agent' = NoAgent
      <3>1. ~conn.up => agent = NoAgent
        BY <1>1 DEF Down
      <3>2. NoAgent = [alive |-> FALSE, eof |-> TRUE, able |-> {}, open |-> {}, turns |-> {}, blocked |-> {}]
        BY DEF NoAgent
      <3>3. {b \in {} : b.id \notin {x}} = {}
        OBVIOUS
      <3>4. Answered(NoAgent, {x}) = NoAgent
        BY <3>2, <3>3 DEF Answered
      <3> QED
        BY <2>1, <3>1, <3>4
    <2>6. Down' /\ CallRides' /\ RunRides'
      BY <1>1, <2>4, <2>5 DEF Down, CallRides, RunRides
    <2>7. CallIdle' /\ ClosedIsDead'
      BY <1>1, <2>2, <2>4 DEF CallIdle, ClosedIsDead, PipeOpen
    <2> QED
      BY <2>6, <2>7 DEF Riding
  <1>9. CASE SendPrompt
    <2>1. /\ call.at = "send" /\ conn.up /\ phase = "idle" /\ call' = NoCall
          /\ UNCHANGED <<batch, waiting>>
      BY <1>9 DEF SendPrompt, CallIs
    <2>2. /\ call.thread \in Threads /\ call.session \in Sessions /\ count.prompts < MaxPrompts
          /\ run[call.thread] = 0 /\ ~waiting[call.thread]
      BY <1>1, <1>3, <2>1, RoomForIt DEF CallMade
    <2>3. CallRides' /\ CallIdle'
      BY <2>1 DEF CallRides, CallIdle, NoCall
    <2>4. CASE Sent(call.thread, call.session, agent)
      <3>1. PipeOpen
        BY <2>4 DEF Sent
      <3>2. conn.sessions[call.thread] # 0
        BY <1>1, <2>1, <3>1 DEF CallIdle
      <3>3. /\ Down' /\ RunRides'
            /\ \A i \in DOMAIN queue' : queue'[i].type # "closed"
        BY <1>1, <1>2, <2>1, <2>2, <2>4, <3>2, SentRiding DEF Riding
      <3>4. ClosedIsDead'
        BY <1>4, <2>1, <3>3 DEF ClosedIsDead
      <3> QED
        BY <2>3, <3>3, <3>4 DEF Riding
    <2>5. CASE ForgetAdapter(call.thread, agent) /\ UNCHANGED run
      <3>1. \A u \in Threads : run'[u] # 0 => run[u] # 0 /\ u \notin {call.thread}
        BY <2>2, <2>5
      <3>2. \A u \in Threads : waiting'[u] => waiting[u] /\ u \notin {call.thread}
        BY <2>1, <2>2
      <3>3. {call.thread} \in SUBSET Threads
        BY <2>2
      <3>4. /\ Down' /\ RunRides'
            /\ \A i \in DOMAIN queue' : queue'[i].type = "closed" => ~PipeOpen'
        BY <1>1, <1>2, <2>5, <3>1, <3>2, <3>3, LeftRiding DEF Riding, ForgetAdapter
      <3>5. ClosedIsDead'
        BY <1>4, <2>1, <3>4 DEF ClosedIsDead
      <3> QED
        BY <2>3, <3>4, <3>5 DEF Riding
    <2> QED
      BY <1>9, <2>4, <2>5 DEF SendPrompt
  <1>10. CASE Panic
    <2>1. UNCHANGED <<run, conn, queue, batch, waiting, call, agent>>
      BY <1>10 DEF Panic, disk
    <2> QED
      BY <1>1, <2>1 DEF Riding, Down, CallRides, RunRides, CallIdle, ClosedIsDead, PipeOpen
  <1>11. CASE Reap
    <2>1. /\ Leaves(Release(conn, Tenants(conn)), agent) /\ Tenants(conn) \in SUBSET Threads
          /\ run' = [t \in Threads |-> IF t \in Tenants(conn) THEN 0 ELSE run[t]]
          /\ waiting' = [t \in Threads |-> waiting[t] /\ t \notin Tenants(conn)]
          /\ UNCHANGED <<batch, call>> /\ call = NoCall /\ phase = "idle"
      BY <1>11 DEF Reap, Gone, Tenants, Idle
    <2>2. \A u \in Threads : run'[u] # 0 => run[u] # 0 /\ u \notin Tenants(conn)
      BY <2>1
    <2>3. \A u \in Threads : waiting'[u] => waiting[u] /\ u \notin Tenants(conn)
      BY <2>1
    <2>4. /\ Down' /\ RunRides'
          /\ \A i \in DOMAIN queue' : queue'[i].type = "closed" => ~PipeOpen'
      BY <1>1, <1>2, <2>1, <2>2, <2>3, LeftRiding DEF Riding
    <2>5. CallRides' /\ CallIdle' /\ ClosedIsDead'
      BY <1>4, <2>1, <2>4 DEF CallRides, CallIdle, ClosedIsDead, NoCall
    <2> QED
      BY <2>4, <2>5 DEF Riding
  <1>12. ASSUME NEW t \in Threads, DrainStranded(t) PROVE Riding'
    <2>1. /\ NextPrompt(t, agent) /\ waiting' = [waiting EXCEPT ![t] = FALSE]
          /\ UNCHANGED <<batch, call>> /\ call = NoCall /\ phase = "idle"
      BY <1>12 DEF DrainStranded, Idle, NextPrompt
    <2>2. /\ Down' /\ RunRides' /\ CallIdle'
          /\ \A i \in DOMAIN queue' : queue'[i].type = "closed" => ~PipeOpen'
      <3>1. ~conn.up => agent = NoAgent
        BY <1>1 DEF Down
      <3> QED
        BY <1>1, <1>2, <2>1, <3>1, NextRiding
    <2>3. CallRides' /\ ClosedIsDead'
      BY <1>4, <2>1, <2>2 DEF CallRides, ClosedIsDead, NoCall
    <2> QED
      BY <2>2, <2>3 DEF Riding
  <1> QED
    BY <1>5, <1>6, <1>7, <1>8, <1>9, <1>10, <1>11, <1>12

\* The batch, and an event that is handed out.
Joined(S, e, how) == batch \o Handed(S, e, how)

\* Each part of the longer batch b is old, or is the event for a thread of S.
Longer(b, S, e, how) ==
    LET new == DOMAIN b \ DOMAIN batch
    IN /\ \A i \in DOMAIN batch : i \in DOMAIN b /\ b[i] = batch[i]
       /\ \A i \in new : b[i] \in [to : S, event : {e}, by : {how}]
       /\ Cardinality(S) = 1 => \A i, j \in new : i = j
       /\ S # {} => new # {}

\* What is handed out joins the batch.
LEMMA BatchGrows ==
    ASSUME Types, NEW S \in SUBSET Threads, NEW e \in Read, NEW how \in {"pump", "settle"}
    PROVE  Longer(Joined(S, e, how), S, e, how)
  <1> DEFINE Routes == [to : Threads, event : Read, by : {"pump", "settle"}]
             One == [to : S, event : {e}, by : {how}]
             h == Handed(S, e, how)
             b == Joined(S, e, how)
  <1>1. Len(h) = Cardinality(S) /\ Cardinality(S) \in Nat /\ h \in Seq(One)
    BY HandedOn
  <1>2. One \subseteq Routes
    OBVIOUS
  <1>3. h \in Seq(Routes) /\ batch \in Seq(Routes) /\ Len(batch) \in Nat
    BY <1>1, <1>2, SeqMonotonic, LenProperties DEF Types
  <1>4. DOMAIN h = 1..Cardinality(S) /\ \A j \in DOMAIN h : h[j] \in One
    BY <1>1, LenProperties, ElementOfSeq
  <1>5. b = batch \o h
    BY DEF Joined
  <1> HIDE DEF h, b
  <1>6. /\ \A i \in DOMAIN batch : i \in DOMAIN b /\ b[i] = batch[i]
        /\ \A j \in DOMAIN h : Len(batch) + j \in DOMAIN b /\ b[Len(batch) + j] = h[j]
        /\ \A i \in DOMAIN b :
              \/ i \in DOMAIN batch
              \/ i - Len(batch) \in DOMAIN h /\ b[i] = h[i - Len(batch)]
                 /\ i = Len(batch) + (i - Len(batch))
    BY <1>3, <1>5, ConcatOf
  <1>8. ASSUME NEW i \in DOMAIN b, i \notin DOMAIN batch
        PROVE  /\ b[i] \in One
               /\ i - Len(batch) \in 1..Cardinality(S) /\ i = Len(batch) + (i - Len(batch))
    <2>1. /\ i - Len(batch) \in DOMAIN h /\ b[i] = h[i - Len(batch)]
          /\ i = Len(batch) + (i - Len(batch))
      BY <1>6, <1>8
    <2> QED
      BY <1>4, <2>1
  <1>9. ASSUME S # {} PROVE \E i \in DOMAIN b : i \notin DOMAIN batch
    <2>1. Cardinality(S) # 0
      BY <1>9, HandedOn
    <2>2. 1 \in DOMAIN h
      BY <1>1, <1>4, <2>1
    <2>3. Len(batch) + 1 \in DOMAIN b
      BY <1>6, <2>2
    <2>4. Len(batch) + 1 \notin DOMAIN batch
      BY <1>3, LenProperties
    <2> QED
      BY <2>3, <2>4
  <1>10. ASSUME Cardinality(S) = 1, NEW i \in DOMAIN b, NEW j \in DOMAIN b,
                i \notin DOMAIN batch, j \notin DOMAIN batch
         PROVE  i = j
    <2>1. i - Len(batch) \in 1..1 /\ i = Len(batch) + (i - Len(batch))
      BY <1>8, <1>10
    <2>2. j - Len(batch) \in 1..1 /\ j = Len(batch) + (j - Len(batch))
      BY <1>8, <1>10
    <2>3. i = Len(batch) + 1 /\ j = Len(batch) + 1
      BY <1>3, <2>1, <2>2
    <2> QED
      BY <2>3
  <1> QED
    BY <1>6, <1>8, <1>9, <1>10 DEF Longer, b

\* Who rides, when the queue is drained and what was drained is handled.
LEMMA RidingPump ==
    ASSUME Base, Riding,
           \/ StartPump \/ Drain \/ Settle \/ Drained
           \/ HandleUpdate \/ HandleEnded \/ HandleAsk \/ HandleResult \/ HandleClosed \/ Handled
    PROVE  Riding'
  <1> DEFINE Routes == [to : Threads, event : Read, by : {"pump", "settle"}]
  <1>1. Types /\ CallMade /\ Down /\ CallRides /\ RunRides /\ CallIdle /\ ClosedIsDead
    BY DEF Base, Riding
  <1>2. /\ conn \in Conns /\ agent \in Agents /\ call \in Calls /\ queue \in Seq(Read)
        /\ run \in [Threads -> 0..MaxPrompts] /\ waiting \in [Threads -> BOOLEAN]
        /\ batch \in Seq(Routes)
    BY <1>1 DEF Types
  <1>3. call.at # "none" => call.thread \in Threads /\ run[call.thread] = 0 /\ ~waiting[call.thread]
    BY <1>1 DEF CallMade, CallIdle
  <1>4. phase # "idle" => call.at \in {"none", "settling"}
    BY <1>1 DEF CallMade
  <1>5. CASE StartPump \/ Drained \/ Handled
    <2>1. UNCHANGED <<run, conn, queue, batch, waiting, call, agent>>
      BY <1>5 DEF StartPump, Drained, Handled, disk
    <2> QED
      BY <1>1, <2>1 DEF Riding, Down, CallRides, RunRides, CallIdle, ClosedIsDead, PipeOpen
  <1>6. CASE Drain \/ Settle
    <2> DEFINE e == Head(queue)
    <2>1. queue # <<>> /\ queue' = Tail(queue) /\ conn' = Spent(conn, e)
          /\ UNCHANGED <<run, waiting, call>> /\ phase # "idle"
      BY <1>6 DEF Drain, Settle, disk
    <2>2. /\ e \in Read /\ e = queue[1] /\ 1 \in DOMAIN queue
          /\ \A i \in DOMAIN queue' : i + 1 \in DOMAIN queue /\ queue'[i] = queue[i + 1]
      BY <1>2, <2>1, TailOf
    <2>3. conn.up
      BY <1>1, <2>1 DEF Down
    <2>4. conn'.up /\ conn'.sessions = conn.sessions
      BY <1>2, <2>1, <2>2, <2>3, Routed1
    <2>5. agent'.alive = agent.alive /\ agent'.eof = agent.eof
      <3>1. agent' = agent \/ agent' = Answered(agent, {e.id})
        BY <1>6 DEF Drain, Settle, Unowned
      <3> QED
        BY SMTT(30), <1>2, <3>1, Unblocked
    <2>6. \/ batch' = batch
          \/ \E S \in SUBSET Threads, how \in {"pump", "settle"} : batch' = Joined(S, e, how)
      <3>1. Route(conn, e) \in SUBSET Threads
        BY <1>2, <2>2, Routed1
      <3>2. CASE Drain
        BY <3>1, <3>2 DEF Drain, Joined
      <3>3. CASE Settle
        <4>1. call.thread \in Threads
          BY <1>1, <3>3 DEF Settle, CallMade
        <4> QED
          BY <3>1, <3>3, <4>1 DEF Settle, Joined
      <3> QED
        BY <1>6, <3>2, <3>3
    <2>7. \A i \in DOMAIN batch' : (i \in DOMAIN batch /\ batch'[i] = batch[i]) \/ batch'[i].event = e
      <3>1. CASE batch' = batch
        BY <3>1
      <3>2. ASSUME NEW S \in SUBSET Threads, NEW how \in {"pump", "settle"},
                   batch' = Joined(S, e, how)
            PROVE  \A i \in DOMAIN batch' :
                      (i \in DOMAIN batch /\ batch'[i] = batch[i]) \/ batch'[i].event = e
        <4>1. Longer(batch', S, e, how)
          BY <1>1, <2>2, <3>2, BatchGrows
        <4>2. \A i \in DOMAIN batch : batch'[i] = batch[i]
          BY <4>1 DEF Longer
        <4>3. \A i \in DOMAIN batch' \ DOMAIN batch : batch'[i] \in [to : S, event : {e}, by : {how}]
          BY <4>1 DEF Longer
        <4>4. \A i \in DOMAIN batch' \ DOMAIN batch : batch'[i].event = e
          BY <4>3
        <4> QED
          BY <4>2, <4>4
      <3> QED
        BY <2>6, <3>1, <3>2
    <2> HIDE DEF e
    <2>8. ClosedIsDead'
      <3>1. PipeOpen' <=> PipeOpen
        BY <2>5 DEF PipeOpen
      <3>2. \A i \in DOMAIN queue' : queue'[i].type = "closed" => ~PipeOpen
        BY <1>1, <2>2 DEF ClosedIsDead
      <3>3. e.type = "closed" => ~PipeOpen
        BY <1>1, <2>2 DEF ClosedIsDead
      <3>4. \A i \in DOMAIN batch' : batch'[i].event.type = "closed" => ~PipeOpen
        BY <1>1, <2>7, <3>3 DEF ClosedIsDead
      <3> QED
        BY <3>1, <3>2, <3>4 DEF ClosedIsDead
    <2>9. Down' /\ CallRides' /\ RunRides'
      BY <1>1, <2>1, <2>4 DEF Down, CallRides, RunRides
    <2>10. CallIdle'
      BY <1>1, <2>1, <2>4, <2>5 DEF CallIdle, PipeOpen
    <2> QED
      BY <2>8, <2>9, <2>10 DEF Riding
  <1>7. ASSUME NEW types, Handle(types)
        PROVE  /\ Head(batch).to \in Threads /\ Head(batch).event.type \in types
               /\ UNCHANGED <<phase, call>> /\ phase = "handle"
               /\ Head(batch) = batch[1] /\ 1 \in DOMAIN batch
               /\ \A i \in DOMAIN batch' : i + 1 \in DOMAIN batch /\ batch'[i] = batch[i + 1]
    <2>1. /\ batch # <<>> /\ batch' = Tail(batch) /\ Head(batch).event.type \in types
          /\ UNCHANGED <<phase, call>> /\ phase = "handle"
      BY <1>7 DEF Handle
    <2>2. /\ Head(batch) \in Routes /\ Head(batch) = batch[1] /\ 1 \in DOMAIN batch
          /\ \A i \in DOMAIN batch' : i + 1 \in DOMAIN batch /\ batch'[i] = batch[i + 1]
      BY <1>2, <2>1, TailOf
    <2> QED
      BY <2>1, <2>2
  <1>8. \A types : Handle(types) => CallRides'
    BY <1>4, <1>7 DEF CallRides
  <1>9. ASSUME NEW types, Handle(types), ~PipeOpen => ~PipeOpen'
        PROVE  \A i \in DOMAIN batch' : batch'[i].event.type = "closed" => ~PipeOpen'
    BY <1>1, <1>7, <1>9 DEF ClosedIsDead
  <1>13. CASE HandleEnded
    <2>1. Handle({"ended"}) /\ run' = [run EXCEPT ![Head(batch).to] = 0]
      BY <1>13 DEF HandleEnded
    <2>2. UNCHANGED <<conn, queue, waiting, agent>>
      BY <1>13 DEF HandleEnded
    <2>3. call' = call /\ \A t \in Threads : run'[t] \in {0, run[t]}
      BY <1>2, <1>7, <2>1
    <2>4. \A i \in DOMAIN batch' : batch'[i].event.type = "closed" => ~PipeOpen'
      BY <1>9, <2>1, <2>2 DEF PipeOpen
    <2>5. Down' /\ RunRides' /\ ClosedIsDead'
      BY <1>1, <2>2, <2>3, <2>4 DEF Down, RunRides, ClosedIsDead, PipeOpen
    <2>6. CallIdle'
      BY <1>1, <1>3, <2>2, <2>3 DEF CallIdle, PipeOpen
    <2> QED
      BY <1>8, <2>1, <2>5, <2>6 DEF Riding
  <1>10. CASE HandleUpdate \/ HandleAsk
    <2>1. PICK types : Handle(types)
      BY <1>10 DEF HandleUpdate, HandleAsk
    <2>2. UNCHANGED <<run, conn, queue, waiting, agent>>
      BY <1>10 DEF HandleUpdate, HandleAsk
    <2>3. call' = call
      BY <1>7, <2>1
    <2>4. \A i \in DOMAIN batch' : batch'[i].event.type = "closed" => ~PipeOpen'
      BY <1>9, <2>1, <2>2 DEF PipeOpen
    <2>5. Down' /\ RunRides' /\ CallIdle' /\ ClosedIsDead'
      BY <1>1, <2>2, <2>3, <2>4 DEF Down, RunRides, CallIdle, ClosedIsDead, PipeOpen
    <2> QED
      BY <1>8, <2>1, <2>5 DEF Riding
  <1>11. CASE HandleResult
    <2> DEFINE t == Head(batch).to
               a == Answered(agent, held[t])
    <2>1. /\ Handle({"result"}) /\ t \in Threads /\ NextPrompt(t, a)
          /\ waiting' = [waiting EXCEPT ![t] = FALSE] /\ call' = call
      BY <1>7, <1>11 DEF HandleResult
    <2>2. a \in Agents /\ a.alive = agent.alive /\ a.eof = agent.eof
      BY <1>2, Unblocked
    <2>3. ~conn.up => a = NoAgent
      <3>1. ~conn.up => agent = NoAgent
        BY <1>1 DEF Down
      <3>2. NoAgent = [alive |-> FALSE, eof |-> TRUE, able |-> {}, open |-> {}, turns |-> {}, blocked |-> {}]
        BY DEF NoAgent
      <3>3. {b \in {} : b.id \notin held[t]} = {}
        OBVIOUS
      <3>4. Answered(NoAgent, held[t]) = NoAgent
        BY <3>2, <3>3 DEF Answered
      <3> QED
        BY <3>1, <3>4
    <2> HIDE DEF t, a
    <2>4. /\ Down' /\ RunRides' /\ CallIdle' /\ (~PipeOpen => ~PipeOpen')
          /\ \A i \in DOMAIN queue' : queue'[i].type = "closed" => ~PipeOpen'
      BY <1>1, <2>1, <2>2, <2>3, NextRiding
    <2>5. ClosedIsDead'
      BY <1>9, <2>1, <2>4 DEF ClosedIsDead
    <2> QED
      BY <1>8, <2>1, <2>4, <2>5 DEF Riding
  <1>12. CASE HandleClosed
    <2> DEFINE ts == {Head(batch).to}
    <2>1. Handle({"closed"}) /\ Gone(ts) /\ call' = call /\ ts \in SUBSET Threads
      BY <1>7, <1>12 DEF HandleClosed
    <2>2. ~PipeOpen
      BY <1>1, <1>7, <2>1 DEF ClosedIsDead
    <2> HIDE DEF ts
    <2>3. /\ Leaves(Release(conn, ts), agent)
          /\ run' = [t \in Threads |-> IF t \in ts THEN 0 ELSE run[t]]
          /\ waiting' = [t \in Threads |-> waiting[t] /\ t \notin ts]
      BY <2>1 DEF Gone
    <2>4. \A u \in Threads : run'[u] # 0 => run[u] # 0 /\ u \notin ts
      BY <2>3
    <2>5. \A u \in Threads : waiting'[u] => waiting[u] /\ u \notin ts
      BY <2>3
    <2>6. /\ Down' /\ RunRides' /\ ~PipeOpen'
          /\ \A i \in DOMAIN queue' : queue'[i].type = "closed" => ~PipeOpen'
      BY <1>1, <1>2, <2>1, <2>2, <2>3, <2>4, <2>5, LeftRiding
    <2>7. CallIdle'
      BY <1>1, <1>3, <2>1, <2>3, <2>6 DEF CallIdle
    <2>8. ClosedIsDead'
      BY <2>6 DEF ClosedIsDead
    <2> QED
      BY <1>8, <2>1, <2>6, <2>7, <2>8 DEF Riding
  <1> QED
    BY <1>5, <1>6, <1>10, <1>11, <1>12, <1>13

\* What the agent says.
LEMMA Spoken ==
    ASSUME Types, CallMade, AgentMoves, queue' # queue
    PROVE  \E e \in Read :
              /\ Says(e)
              /\ e.type = "closed" => Die \/ PipeCloses
              /\ e.type = "result" => \E x \in agent.turns : Finish(x)
  <1>1. agent \in Agents
    BY DEF Types
  <1>2. ASSUME NEW s \in agent.open, Speak(s)
        PROVE  \E e \in Read : e.type \in {"update", "ended"} /\ Says(e)
    <2>1. PICK b \in BOOLEAN, type \in {"update", "ended"} : Says(Event(type, s, 0, b))
      BY <1>2 DEF Speak, Names, Reports
    <2>2. s \in Sessions
      BY <1>1 DEF Agents
    <2>3. Event(type, s, 0, b) \in Read /\ Event(type, s, 0, b).type = type
      BY <2>2, Written DEF Event
    <2> QED
      BY <2>1, <2>3
  <1>3. ASSUME NEW x \in agent.turns, NEW type \in {"permission", "extension"}, Ask(x, type)
        PROVE  \E e \in Read : e.type = type /\ Says(e)
    <2> DEFINE id == count.asks + 1
    <2>1. PICK b \in BOOLEAN : Says(Event(type, x.session, id, b))
      BY <1>3 DEF Ask, Names
    <2>2. x.session \in Sessions /\ id \in 1..MaxAsks
      <3>1. count.asks < MaxAsks /\ MaxAsks \in Nat /\ count.asks \in Nat
        BY <1>3, PoolAssumption DEF Ask, Types, Counts
      <3> QED
        BY <1>1, <3>1 DEF Agents
    <2> HIDE DEF id
    <2>3. Event(type, x.session, id, b) \in Read /\ Event(type, x.session, id, b).type = type
      BY <2>2, Written DEF Event
    <2> QED
      BY <2>1, <2>3
  <1>4. ASSUME NEW x \in agent.turns, Finish(x)
        PROVE  \E e \in Read : e.type = "result" /\ Says(e)
    <2>1. x.session \in Sessions /\ x.id \in Requests
      BY <1>1 DEF Agents
    <2>2. Event("result", x.session, x.id, FALSE) \in Read
          /\ Event("result", x.session, x.id, FALSE).type = "result"
      BY <2>1, Written DEF Event
    <2> QED
      BY <1>4, <2>2 DEF Finish
  <1>5. ASSUME ReplyLoad, queue' # queue
        PROVE  \E e \in Read : e.type = "replay" /\ Says(e)
    <2>1. call.session \in Sessions
      BY <1>5 DEF ReplyLoad, Asked, CallMade
    <2>2. Event("replay", call.session, 0, TRUE) \in Read
          /\ Event("replay", call.session, 0, TRUE).type = "replay"
      BY <2>1, Written DEF Event
    <2> QED
      BY <1>5, <2>2 DEF ReplyLoad
  <1>6. ASSUME Die \/ PipeCloses, queue' # queue
        PROVE  \E e \in Read : e.type = "closed" /\ Says(e)
    <2>1. Says(Event("closed", 0, 0, FALSE))
      BY <1>6 DEF Die, PipeCloses
    <2>2. Event("closed", 0, 0, FALSE).type = "closed"
      BY DEF Event
    <2> QED
      BY <2>1, <2>2, Written
  <1>7. \/ \E s \in agent.open : Speak(s)
        \/ \E x \in agent.turns : Finish(x) \/ Ask(x, "permission") \/ Ask(x, "extension")
        \/ ReplyLoad \/ Die \/ PipeCloses
    BY DEF AgentMoves, ReplyInitialize, ReplyResume, ReplyNew
  <1> QED
    BY <1>2, <1>3, <1>4, <1>5, <1>6, <1>7

\* Who rides, when the agent moves.
LEMMA RidingAgent ==
    ASSUME Base, Riding, AgentMoves
    PROVE  Riding'
  <1>1. Types /\ CallMade /\ Down /\ CallRides /\ RunRides /\ CallIdle /\ ClosedIsDead
    BY DEF Base, Riding
  <1>2. agent \in Agents /\ call \in Calls /\ queue \in Seq(Read)
    BY <1>1 DEF Types
  <1>3. UNCHANGED <<run, conn, batch, waiting>> /\ conn.up
    <2>1. UNCHANGED <<run, conn, batch, waiting>>
      BY DEF AgentMoves, Speak, Ask, Finish, ReplyInitialize, ReplyResume, ReplyLoad, ReplyNew,
             Die, PipeCloses, AgentOnly, disk
    <2>2. agent.alive \/ conn.up \/ agent.open # {} \/ agent.turns # {}
      BY DEF AgentMoves, ReplyInitialize, ReplyResume, ReplyLoad, ReplyNew, Asked, Die, PipeCloses
    <2>3. ~NoAgent.alive /\ NoAgent.open = {} /\ NoAgent.turns = {}
      BY DEF NoAgent
    <2> QED
      BY <1>1, <2>1, <2>2, <2>3 DEF Down
  <1>4. call'.at = call.at /\ call'.thread = call.thread
    BY <1>2 DEF AgentMoves, Speak, Ask, Finish, ReplyInitialize, ReplyResume, ReplyLoad, ReplyNew,
                Die, PipeCloses, Replies, Calls
  <1>5. Down' /\ CallRides' /\ RunRides'
    BY <1>1, <1>3, <1>4 DEF Down, CallRides, RunRides
  <1>6. \/ agent.alive /\ agent'.alive /\ agent'.eof = agent.eof
        \/ ~agent'.alive
    BY <1>2 DEF AgentMoves, Speak, Ask, Finish, ReplyInitialize, ReplyResume, ReplyLoad, ReplyNew,
                Die, PipeCloses, Asked, Serves, Agents
  <1>7. PipeOpen' => PipeOpen
    <2>1. CASE agent.alive
      BY <2>1 DEF PipeOpen
    <2>2. CASE ~agent.alive
      <3>1. PipeCloses
        BY <2>2 DEF AgentMoves, Speak, Ask, Finish, ReplyInitialize, ReplyResume, ReplyLoad, ReplyNew,
                    Die, Asked
      <3>2. ~agent'.alive /\ agent'.eof
        BY <1>2, <2>2, <3>1 DEF PipeCloses, Agents
      <3> QED
        BY <3>2 DEF PipeOpen
    <2> QED
      BY <2>1, <2>2
  <1>8. CallIdle'
    BY <1>1, <1>3, <1>4, <1>7 DEF CallIdle
  <1>9. ASSUME NEW e \in Read, e.type # "closed" \/ ~PipeOpen', Says(e)
        PROVE  \A i \in DOMAIN queue' : queue'[i].type = "closed" => ~PipeOpen'
    <2>1. \A i \in DOMAIN queue' : (i \in DOMAIN queue /\ queue'[i] = queue[i]) \/ queue'[i] = e
      BY <1>2, <1>9, AppendOf DEF Says
    <2> QED
      BY <1>1, <1>7, <1>9, <2>1 DEF ClosedIsDead
  <1>10. \A i \in DOMAIN queue' : queue'[i].type = "closed" => ~PipeOpen'
    <2>1. CASE queue' = queue
      BY <1>1, <1>7, <2>1 DEF ClosedIsDead
    <2>2. CASE queue' # queue
      <3>1. PICK e \in Read : Says(e) /\ (e.type = "closed" => Die \/ PipeCloses)
        BY <1>1, <2>2, Spoken
      <3>2. ASSUME Die \/ PipeCloses PROVE ~PipeOpen'
        <4>1. ~agent'.alive /\ agent'.eof
          BY <1>2, <2>2, <3>2 DEF Die, PipeCloses, Agents
        <4> QED
          BY <4>1 DEF PipeOpen
      <3> QED
        BY <1>9, <3>1, <3>2
    <2> QED
      BY <2>1, <2>2
  <1>11. ClosedIsDead'
    BY <1>1, <1>3, <1>7, <1>10 DEF ClosedIsDead
  <1> QED
    BY <1>5, <1>8, <1>11 DEF Riding

\* The second layer, in each step and in none.
LEMMA RidingStep ==
    ASSUME Base, Riding, [Next]_vars
    PROVE  Riding'
  <1>1. CASE AgentMoves
    BY <1>1, RidingAgent
  <1>2. CASE HostMoves
    BY <1>2, RidingAttach, RidingPrompt, RidingPump DEF HostMoves
  <1>3. CASE UserMoves
    BY <1>3, RidingAttach, RidingPrompt DEF UserMoves
  <1>4. CASE UNCHANGED vars
    BY <1>4 DEF vars, Riding, Down, CallRides, RunRides, CallIdle, ClosedIsDead, PipeOpen
  <1> QED
    BY <1>1, <1>2, <1>3, <1>4 DEF Next

-----------------------------------------------------------------------------
(* The third layer is inductive.                                           *)

\* What is in a queue and in a batch.
LEMMA Inside ==
    ASSUME NEW q \in Seq(Read), NEW b \in Seq([to : Threads, event : Read, by : {"pump", "settle"}])
    PROVE  /\ \A i \in DOMAIN q : q[i] \in Read /\ i \in Int
           /\ \A i \in DOMAIN b : b[i].event \in Read /\ b[i].to \in Threads /\ i \in Int
           /\ \A i \in ResultsOf(q) : q[i].id \in Requests /\ i \in Int
           /\ \A i \in ResultsIn(b) : b[i].event.id \in Requests /\ b[i].to \in Threads /\ i \in Int
  <1>1. DOMAIN q = 1..Len(q) /\ DOMAIN b = 1..Len(b) /\ Len(q) \in Nat /\ Len(b) \in Nat
    BY LenProperties
  <1>2. \A i \in DOMAIN q : q[i] \in Read /\ i \in Int
    BY <1>1, ElementOfSeq
  <1> DEFINE Routes == [to : Threads, event : Read, by : {"pump", "settle"}]
  <1>3. \A i \in DOMAIN b : b[i] \in Routes /\ i \in Int
    <2>1. b \in Seq(Routes)
      OBVIOUS
    <2> HIDE DEF Routes
    <2> QED
      BY <1>1, <2>1, ElementOfSeq
  <1>4. \A i \in DOMAIN b : b[i].event \in Read /\ b[i].to \in Threads /\ i \in Int
    BY <1>3
  <1>5. \A e \in Read : e.type = "result" => e.id \in Requests
    BY DEF Read
  <1> QED
    BY <1>2, <1>4, <1>5 DEF ResultsOf, ResultsIn

\* A thread's run is as it was, or ended with nothing that waits, or ended early.
Undisturbed(t) ==
    /\ run'[t] \in {0, run[t]}
    /\ \/ run'[t] = run[t] /\ (waiting'[t] => waiting[t] \/ run[t] # 0)
       \/ ~waiting'[t]
       \/ run[t] # 0 /\ run[t] \in early'

\* Nothing is asked: prompts are forgotten, and events are read, or lost.
LEMMA AnsweringKept ==
    ASSUME Types, Types', Answering, NEW j \in {0, 1}, NEW k \in {0, 1},
           agent'.turns \subseteq agent.turns, count'.prompts = count.prompts,
           \A i \in ResultsOf(queue') : i + j \in ResultsOf(queue) /\ queue'[i] = queue[i + j],
           \A i \in ResultsIn(batch') : i + k \in ResultsIn(batch) /\ batch'[i] = batch[i + k],
           early \subseteq early',
           \A r \in Requests : conn'.owners[r] # Nobody =>
              /\ conn'.owners[r] = conn.owners[r]
              /\ r \in early' \/ run'[conn.owners[r]] = run[conn.owners[r]],
           \A t \in Threads : Undisturbed(t)
    PROVE  Answering'
  <1>1. /\ \A i \in ResultsIn(batch') :
              batch'[i].event.id \in Requests /\ batch'[i].to \in Threads /\ i \in Int
        /\ \A i \in ResultsOf(queue') : i \in Int
    BY Inside DEF Types
  <1>2. OwnerRuns'
    BY DEF Answering, OwnerRuns
  <1>3. HandedOut'
    <2>1. ASSUME NEW i \in ResultsIn(batch')
          PROVE  /\ conn'.owners[batch'[i].event.id] = Nobody
                 /\ batch'[i].event.id \in early' \/ AwaitsNext(batch'[i].to, batch'[i].event.id)
      <3> DEFINE t == batch'[i].to
                 id == batch'[i].event.id
      <3>1. i + k \in ResultsIn(batch) /\ batch'[i] = batch[i + k] /\ t \in Threads /\ id \in Requests
        BY <1>1
      <3>2. conn.owners[id] = Nobody /\ (id \in early \/ Awaits(t, id))
        BY <3>1 DEF Answering, HandedOut
      <3>3. conn'.owners[id] = Nobody
        BY <3>1, <3>2
      <3>4. Undisturbed(t)
        BY <3>1
      <3> HIDE DEF t, id
      <3>5. id \in early' \/ AwaitsNext(t, id)
        BY <3>2, <3>4 DEF Awaits, Undisturbed, AwaitsNext
      <3> QED
        BY <3>3, <3>5 DEF t, id
    <2> QED
      BY <2>1 DEF HandedOut, Awaits, AwaitsNext
  <1>4. Fresh'
    BY DEF Answering, Fresh
  <1>5. Once'
    <2>1. \A x, y \in agent'.turns : x.id = y.id => x = y
      BY DEF Answering, Once
    <2>2. \A x, y \in ResultsOf(queue') : queue'[x].id = queue'[y].id => x = y
      BY <1>1 DEF Answering, Once
    <2>3. ASSUME NEW x \in ResultsIn(batch'), NEW y \in ResultsIn(batch'),
                 batch'[x].event.id = batch'[y].event.id
          PROVE  x = y
      <3>1. /\ x + k \in ResultsIn(batch) /\ y + k \in ResultsIn(batch)
            /\ batch[x + k].event.id = batch[y + k].event.id
        BY <2>3
      <3>2. x + k = y + k
        BY <3>1 DEF Answering, Once
      <3>3. x \in Int /\ y \in Int /\ k \in Int
        BY <1>1
      <3> QED
        BY <3>2, <3>3
    <2>4. /\ \A x \in agent'.turns, i \in ResultsOf(queue') : x.id # queue'[i].id
          /\ \A x \in agent'.turns, i \in ResultsIn(batch') : x.id # batch'[i].event.id
          /\ \A x \in ResultsOf(queue'), y \in ResultsIn(batch') : queue'[x].id # batch'[y].event.id
      BY DEF Answering, Once
    <2> QED
      BY <2>1, <2>2, <2>3, <2>4 DEF Once
  <1> QED
    BY <1>2, <1>3, <1>4, <1>5 DEF Answering

\* A prompt goes out, for a thread that no prompt and no answer is left of.
LEMMA AnsweringSent ==
    ASSUME Types, Types', Answering, NEW t \in Threads, NEW s \in Sessions, NEW a \in Agents,
           NEW k \in {0, 1},
           a.turns \subseteq agent.turns, count.prompts < MaxPrompts, Sent(t, s, a),
           early \subseteq early', \A u \in Threads : u # t => waiting'[u] = waiting[u],
           \A r \in Requests : conn.owners[r] = t => r \in early',
           \A i \in ResultsIn(batch') :
              /\ i + k \in ResultsIn(batch) /\ batch'[i] = batch[i + k]
              /\ batch'[i].to = t => batch'[i].event.id \in early'
    PROVE  Answering'
  <1> DEFINE n == count.prompts + 1
  <1>1. /\ n \in Requests /\ n \in Nat \ {0} /\ count.prompts \in Nat
        /\ \A q \in Requests : conn'.owners[q] = IF q = n THEN t ELSE conn.owners[q]
        /\ \A u \in Threads : run'[u] = IF u = t THEN n ELSE run[u]
        /\ count'.prompts = n /\ queue' = queue
    <2>1. count.prompts \in Nat /\ run \in [Threads -> 0..MaxPrompts]
      BY DEF Types, Counts
    <2>2. /\ n \in Requests /\ n \in Nat \ {0} /\ queue' = queue
          /\ run' = [run EXCEPT ![t] = n] /\ count'.prompts = n
      BY SentOut
    <2>3. \A q \in Requests : conn'.owners[q] = IF q = n THEN t ELSE conn.owners[q]
      BY SentOut
    <2> QED
      BY <2>1, <2>2, <2>3
  <1>2. agent'.turns \subseteq agent.turns \cup {[id |-> n, session |-> s]}
    <2>1. agent'.turns \subseteq a.turns \cup {[id |-> n, session |-> s]}
      BY SentOut
    <2> QED
      BY <2>1
  <1> HIDE DEF n
  <1>3. t # Nobody
    BY PoolAssumption
  <1>4. /\ \A i \in ResultsIn(batch') : batch'[i].event.id \in Requests /\ batch'[i].to \in Threads
        /\ \A i \in ResultsIn(batch') : i \in Int
        /\ \A r \in Requests : r \in Int
        /\ \A i \in ResultsOf(queue) : queue[i].id \in Requests
    <2>1. \A r \in Requests : r \in Int
      BY PoolAssumption DEF Requests
    <2> QED
      BY <2>1, Inside DEF Types
  <1>5. /\ \A i \in ResultsIn(batch') : batch'[i].event.id <= count.prompts /\ batch'[i].event.id \in Int
        /\ \A i \in ResultsOf(queue) : queue[i].id <= count.prompts /\ queue[i].id \in Int
        /\ \A x \in agent.turns : x.id <= count.prompts /\ x.id \in Int
        /\ \A r \in Requests : conn.owners[r] # Nobody => r <= count.prompts
    <2>1. \A x \in agent.turns : x.id \in Requests
      BY DEF Types, Agents
    <2> QED
      BY <1>4, <2>1 DEF Answering, Fresh
  <1>6. ~(n <= count.prompts) /\ \A m \in Int : m <= count.prompts => m <= n /\ m # n
    BY <1>1 DEF n
  <1>7. OwnerRuns'
    <2>1. \A q \in Requests : conn.owners[q] \in Threads \cup {Nobody}
      BY DEF Types, Conns
    <2>2. ASSUME NEW q \in Requests, conn'.owners[q] # Nobody
          PROVE  q \in early' \/ run'[conn'.owners[q]] = q
      <3>1. CASE q = n
        BY <1>1, <3>1
      <3>2. CASE q # n
        <4>1. conn'.owners[q] = conn.owners[q] /\ conn.owners[q] \in Threads
          BY <1>1, <2>1, <2>2, <3>2
        <4>2. q \in early \/ run[conn.owners[q]] = q
          BY <2>2, <4>1 DEF Answering, OwnerRuns
        <4> QED
          BY <1>1, <4>1, <4>2
      <3> QED
        BY <3>1, <3>2
    <2> QED
      BY <2>2 DEF OwnerRuns
  <1>8. HandedOut'
    <2>1. ASSUME NEW i \in ResultsIn(batch')
          PROVE  /\ conn'.owners[batch'[i].event.id] = Nobody
                 /\ batch'[i].event.id \in early' \/ AwaitsNext(batch'[i].to, batch'[i].event.id)
      <3> DEFINE u == batch'[i].to
                 id == batch'[i].event.id
      <3>1. /\ i + k \in ResultsIn(batch) /\ batch'[i] = batch[i + k] /\ u \in Threads
            /\ id \in Requests /\ (u = t => id \in early')
        BY <1>4
      <3>2. conn.owners[id] = Nobody /\ (id \in early \/ Awaits(u, id))
        BY <3>1 DEF Answering, HandedOut
      <3>3. id # n
        BY <1>5, <1>6
      <3> HIDE DEF u, id
      <3>4. id \in early' \/ AwaitsNext(u, id)
        BY <1>1, <3>1, <3>2 DEF Awaits, AwaitsNext
      <3>5. conn'.owners[id] = Nobody
        BY <1>1, <3>1, <3>2, <3>3
      <3> QED
        BY <3>4, <3>5 DEF u, id
    <2> QED
      BY <2>1 DEF HandedOut, Awaits, AwaitsNext
  <1>9. Fresh'
    <2>1. \A x \in agent'.turns : x.id <= n
      BY <1>1, <1>2, <1>5, <1>6
    <2>2. \A i \in ResultsOf(queue) : queue[i].id <= n
      BY <1>5, <1>6
    <2>3. \A i \in ResultsIn(batch') : batch'[i].event.id <= n
      BY <1>5, <1>6
    <2>4. \A r \in Requests : conn'.owners[r] # Nobody => r <= n
      BY <1>1, <1>4, <1>5, <1>6
    <2> QED
      BY <1>1, <2>1, <2>2, <2>3, <2>4 DEF Fresh
  <1>10. Once'
    <2>1. \A x \in agent'.turns : x.id = n => x = [id |-> n, session |-> s]
      BY <1>2, <1>5, <1>6
    <2>2. \A x, y \in agent'.turns : x.id = y.id => x = y
      BY <1>2, <1>5, <1>6, <2>1 DEF Answering, Once
    <2>3. /\ \A x \in agent'.turns, i \in ResultsOf(queue) : x.id # queue[i].id
          /\ \A x \in agent'.turns, i \in ResultsIn(batch') : x.id # batch'[i].event.id
      BY <1>2, <1>5, <1>6 DEF Answering, Once
    <2>4. ASSUME NEW x \in ResultsIn(batch'), NEW y \in ResultsIn(batch'),
                 batch'[x].event.id = batch'[y].event.id
          PROVE  x = y
      <3>1. /\ x + k \in ResultsIn(batch) /\ y + k \in ResultsIn(batch)
            /\ batch[x + k].event.id = batch[y + k].event.id
        BY <2>4
      <3>2. x + k = y + k
        BY <3>1 DEF Answering, Once
      <3>3. x \in Int /\ y \in Int /\ k \in Int
        BY <1>4
      <3> QED
        BY <3>2, <3>3
    <2>5. /\ \A x, y \in ResultsOf(queue) : queue[x].id = queue[y].id => x = y
          /\ \A x \in ResultsOf(queue), y \in ResultsIn(batch') : queue[x].id # batch'[y].event.id
      BY DEF Answering, Once
    <2> QED
      BY <1>1, <2>2, <2>3, <2>4, <2>5 DEF Once
  <1> QED
    BY <1>7, <1>8, <1>9, <1>10 DEF Answering

\* What is neither read nor handled stays.
LEMMA Unread ==
    ASSUME Types
    PROVE  /\ \A i \in ResultsIn(batch) : i + 0 = i
           /\ \A i \in ResultsOf(queue) : i + 0 = i
           /\ batch' = batch =>
                \A i \in ResultsIn(batch') : i + 0 \in ResultsIn(batch) /\ batch'[i] = batch[i + 0]
           /\ queue' = queue =>
                \A i \in ResultsOf(queue') : i + 0 \in ResultsOf(queue) /\ queue'[i] = queue[i + 0]
  <1>1. queue \in Seq(Read) /\ batch \in Seq([to : Threads, event : Read, by : {"pump", "settle"}])
    BY DEF Types
  <1>2. /\ \A i \in ResultsIn(batch) : i \in Int
        /\ \A i \in ResultsOf(queue) : i \in Int
    BY <1>1, Inside
  <1>3. \A i \in Int : i + 0 = i
    OBVIOUS
  <1>4. /\ \A i \in ResultsIn(batch) : i + 0 = i
        /\ \A i \in ResultsOf(queue) : i + 0 = i
    BY <1>2, <1>3
  <1> QED
    BY <1>4

\* Threads leave, with their runs or without one.
LEMMA AnsweringLeft ==
    ASSUME Types, Types', Answering, NEW ts \in SUBSET Threads, NEW a \in Agents, NEW k \in {0, 1},
           a.turns \subseteq agent.turns, Leaves(Release(conn, ts), a),
           count'.prompts = count.prompts,
           \A i \in ResultsIn(batch') : i + k \in ResultsIn(batch) /\ batch'[i] = batch[i + k],
           early \subseteq early',
           \A t \in Threads : Undisturbed(t) /\ (t \notin ts => run'[t] = run[t])
    PROVE  Answering'
  <1>1. conn \in Conns /\ queue \in Seq(Read)
    BY DEF Types
  <1>2. /\ conn'.up => agent' = a /\ queue' = queue
        /\ ~conn'.up => agent' = NoAgent /\ queue' = <<>>
        /\ \A r \in Requests :
              conn'.owners[r] # Nobody =>
                 conn'.owners[r] = conn.owners[r] /\ conn.owners[r] \notin ts
    BY <1>1, Left
  <1>3. agent'.turns \subseteq agent.turns
    <2>1. NoAgent.turns = {}
      BY DEF NoAgent
    <2> QED
      BY <1>2, <2>1
  <1>4. \A i \in ResultsOf(queue') : i + 0 \in ResultsOf(queue) /\ queue'[i] = queue[i + 0]
    <2>1. \A i \in ResultsOf(queue') : i \in ResultsOf(queue) /\ queue'[i] = queue[i]
      <3>1. ResultsOf(<<>>) = {}
        BY DEF ResultsOf
      <3> QED
        BY <1>2, <3>1
    <2> QED
      BY <2>1, Unread
  <1>5. \A r \in Requests : conn'.owners[r] # Nobody =>
           conn'.owners[r] = conn.owners[r] /\ run'[conn.owners[r]] = run[conn.owners[r]]
    BY <1>1, <1>2 DEF Conns
  <1> QED
    BY <1>3, <1>4, <1>5, AnsweringKept

\* The answers, when the host attaches a thread.
LEMMA AnsweringAttach ==
    ASSUME Base, Types', Riding, Answering,
           \/ \E t \in Threads : Attach(t)
           \/ Initialized \/ InitializeFailed \/ Resumed \/ ResumeFailed
           \/ Loaded \/ LoadFailed \/ Settled \/ ResumeUnsupported
           \/ NewSession \/ NewSessionFailed
    PROVE  Answering'
  <1>1. Types /\ CallMade
    BY DEF Base
  <1>2. /\ conn \in Conns /\ agent \in Agents /\ call \in Calls /\ queue \in Seq(Read)
    BY <1>1 DEF Types
  <1>3. UNCHANGED <<run, early, waiting, batch>>
    BY DEF Attach, Initialized, InitializeFailed, Resumed, ResumeFailed, Loaded, LoadFailed, Settled,
           ResumeUnsupported, NewSession, NewSessionFailed, disk
  <1>4. /\ \A i \in ResultsIn(batch') : i + 0 \in ResultsIn(batch) /\ batch'[i] = batch[i + 0]
        /\ early \subseteq early' /\ \A t \in Threads : Undisturbed(t) /\ run'[t] = run[t]
    BY <1>1, <1>3, Unread DEF Undisturbed
  <1>5. ASSUME agent'.turns \subseteq agent.turns, count'.prompts = count.prompts,
               queue' = queue \/ queue' = <<>>,
               \A r \in Requests : conn'.owners[r] # Nobody => conn'.owners[r] = conn.owners[r]
        PROVE  Answering'
    <2>1. \A i \in ResultsOf(queue') : i + 0 \in ResultsOf(queue) /\ queue'[i] = queue[i + 0]
      <3>1. ResultsOf(<<>>) = {}
        BY DEF ResultsOf
      <3> QED
        BY <1>1, <1>5, <3>1, Unread
    <2>2. \A r \in Requests : conn'.owners[r] # Nobody =>
             /\ conn'.owners[r] = conn.owners[r]
             /\ r \in early' \/ run'[conn.owners[r]] = run[conn.owners[r]]
      BY <1>3, <1>5
    <2> QED
      BY <1>1, <1>4, <1>5, <2>1, <2>2, AnsweringKept
  <1>6. ASSUME NEW t \in Threads, Attach(t) PROVE Answering'
    <2>1. /\ count'.prompts = count.prompts
          /\ \/ UNCHANGED <<conn, agent, queue>>
             \/ conn' = FreshConn /\ queue' = <<>> /\ agent'.turns = {}
      BY <1>1, <1>6, Connected DEF Attach
    <2>2. \A r \in Requests : FreshConn.owners[r] = Nobody
      BY DEF FreshConn, Vacant
    <2> QED
      BY <1>5, <2>1, <2>2
  <1>7. CASE Initialized \/ Resumed \/ ResumeFailed \/ Loaded \/ LoadFailed \/ Settled \/ NewSession
    <2>1. UNCHANGED <<agent, queue, count>>
      BY <1>7 DEF Initialized, Resumed, ResumeFailed, Loaded, LoadFailed, Settled, NewSession
    <2>2. conn'.owners = conn.owners
      <3>1. CASE Initialized
        BY <1>2, <3>1 DEF Initialized, Conns
      <3>2. CASE ResumeFailed \/ LoadFailed \/ Settled
        BY <3>2 DEF ResumeFailed, LoadFailed, Settled
      <3>3. CASE Resumed \/ Loaded \/ NewSession
        <4>1. call.thread \in Threads /\ call.session \in Sessions
          BY <1>1, <3>3 DEF Resumed, Loaded, NewSession, CallIs, CallMade
        <4> DEFINE c == Adopt(conn, call.thread, call.session)
        <4>2. c \in Conns /\ c.owners = conn.owners
          BY <1>2, <4>1, Adopted
        <4>3. conn' = c \/ conn' = [c EXCEPT !.ready = TRUE]
          BY <3>3 DEF Resumed, Loaded, NewSession
        <4> HIDE DEF c
        <4> QED
          BY <4>2, <4>3 DEF Conns
      <3> QED
        BY <1>7, <3>1, <3>2, <3>3
    <2> QED
      BY <1>5, <2>1, <2>2
  <1>8. ASSUME UNCHANGED count, NEW a \in Agents, a.turns \subseteq agent.turns,
               call.thread \in Threads, Leaves(Release(conn, {call.thread}), a)
        PROVE  Answering'
    <2>1. {call.thread} \in SUBSET Threads
      BY <1>8
    <2> QED
      BY <1>1, <1>4, <1>8, <2>1, AnsweringLeft
  <1>9. CASE InitializeFailed \/ NewSessionFailed
    <2>1. call.thread \in Threads /\ UNCHANGED count
      BY <1>1, <1>9 DEF InitializeFailed, NewSessionFailed, CallIs, CallMade
    <2>2. CASE UNCHANGED <<conn, agent, queue>>
      BY <1>5, <2>1, <2>2
    <2>3. CASE ForgetAdapter(call.thread, agent)
      BY <1>2, <1>8, <2>1, <2>3 DEF ForgetAdapter
    <2> QED
      BY <1>9, <2>2, <2>3 DEF InitializeFailed, NewSessionFailed
  <1>10. CASE ResumeUnsupported
    <2>1. call.thread \in Threads /\ UNCHANGED count
      BY <1>1, <1>10 DEF ResumeUnsupported, CallIs, CallMade
    <2>2. PICK a \in Agents : /\ Leaves(Release(conn, {call.thread}), a)
                              /\ a.turns \subseteq agent.turns
      BY <1>1, <1>10, <2>1, Dropped DEF ResumeUnsupported
    <2> QED
      BY <1>8, <2>1, <2>2
  <1> QED
    BY <1>6, <1>7, <1>9, <1>10

\* A turn is over, and the next prompt goes out or is dropped: what is still owed
\* to the thread, or was handed to it, is of prompts that ended early.
LEMMA AnsweringNext ==
    ASSUME Base, Types', Answering, NEW t \in Threads, NEW a \in Agents, NEW k \in {0, 1},
           a.turns = agent.turns, NextPrompt(t, a), waiting' = [waiting EXCEPT ![t] = FALSE],
           early \subseteq early', \A r \in Requests : conn.owners[r] = t => r \in early',
           \A i \in ResultsIn(batch') :
              /\ i + k \in ResultsIn(batch) /\ batch'[i] = batch[i + k]
              /\ waiting[t] /\ batch'[i].to = t => batch'[i].event.id \in early'
    PROVE  Answering'
  <1>1. Types
    BY DEF Base
  <1>2. /\ conn \in Conns /\ run \in [Threads -> 0..MaxPrompts] /\ waiting \in [Threads -> BOOLEAN]
    BY <1>1 DEF Types
  <1>3. ~waiting'[t] /\ \A u \in Threads : u # t => waiting'[u] = waiting[u]
    BY <1>2
  <1>4. CASE /\ agent' = a /\ run' = [run EXCEPT ![t] = 0]
             /\ UNCHANGED <<conn, queue, count>>
    <2>1. \A u \in Threads : Undisturbed(u) /\ (u # t => run'[u] = run[u])
      BY <1>2, <1>3, <1>4 DEF Undisturbed
    <2>2. \A r \in Requests : conn'.owners[r] # Nobody =>
             /\ conn'.owners[r] = conn.owners[r]
             /\ r \in early' \/ run'[conn.owners[r]] = run[conn.owners[r]]
      <3>1. \A r \in Requests : conn.owners[r] = Nobody \/ conn.owners[r] \in Threads
        BY <1>2 DEF Conns
      <3> QED
        BY <1>4, <2>1, <3>1
    <2>3. \A i \in ResultsOf(queue') : i + 0 \in ResultsOf(queue) /\ queue'[i] = queue[i + 0]
      BY <1>1, <1>4, Unread
    <2>4. agent'.turns \subseteq agent.turns /\ count'.prompts = count.prompts
      BY <1>4
    <2> QED
      BY <1>1, <2>1, <2>2, <2>3, <2>4, AnsweringKept
  <1>5. CASE waiting[t] /\ HasAdapter(t) /\ Sent(t, conn.sessions[t], a)
    <2>1. conn.sessions[t] \in Sessions /\ count.prompts < MaxPrompts
      <3>1. conn.sessions[t] # 0 /\ conn.sessions[t] \in 0..MaxSessions
        BY <1>2, <1>5 DEF HasAdapter, Conns
      <3> QED
        BY <1>5, <3>1, RoomForIt, PoolAssumption DEF Sessions
    <2> QED
      BY <1>1, <1>3, <1>5, <2>1, AnsweringSent
  <1>6. CASE run' = [run EXCEPT ![t] = 0] /\ ForgetAdapter(t, a) /\ UNCHANGED count
    <2>1. \A u \in Threads : Undisturbed(u) /\ (u \notin {t} => run'[u] = run[u])
      BY <1>2, <1>3, <1>6 DEF Undisturbed
    <2>2. {t} \in SUBSET Threads /\ count'.prompts = count.prompts
      BY <1>6
    <2> QED
      BY <1>1, <1>6, <2>1, <2>2, AnsweringLeft DEF ForgetAdapter
  <1> QED
    BY <1>4, <1>5, <1>6 DEF NextPrompt, HeldBackGoes

\* The answers, when a prompt is sent or held back, and when a thread leaves.
LEMMA AnsweringPrompt ==
    ASSUME Base, Types', Riding, Answering,
           \/ \E t \in Threads : \/ PromptOnSession(t) \/ PromptHeldBack(t) \/ Leave(t)
                                \/ Decide(t) \/ DrainStranded(t)
           \/ SendPrompt \/ Panic \/ Reap
    PROVE  Answering'
  <1>1. Types /\ CallMade
    BY DEF Base
  <1>2. /\ conn \in Conns /\ agent \in Agents /\ call \in Calls /\ queue \in Seq(Read)
        /\ run \in [Threads -> 0..MaxPrompts] /\ count \in Counts
    BY <1>1 DEF Types
  <1>3. /\ batch' = batch => \A i \in ResultsIn(batch') : i + 0 \in ResultsIn(batch) /\ batch'[i] = batch[i + 0]
        /\ queue' = queue => \A i \in ResultsOf(queue') : i + 0 \in ResultsOf(queue) /\ queue'[i] = queue[i + 0]
    BY <1>1, Unread
  <1>4. ASSUME UNCHANGED <<run, early, conn, queue, batch, count>>, agent'.turns = agent.turns,
               \A t \in Threads : waiting'[t] => waiting[t] \/ run[t] # 0
        PROVE  Answering'
    <2>1. /\ \A r \in Requests : conn'.owners[r] # Nobody =>
                /\ conn'.owners[r] = conn.owners[r]
                /\ r \in early' \/ run'[conn.owners[r]] = run[conn.owners[r]]
          /\ early \subseteq early' /\ \A t \in Threads : Undisturbed(t)
          /\ agent'.turns \subseteq agent.turns /\ count'.prompts = count.prompts
      BY <1>4 DEF Undisturbed
    <2> QED
      BY <1>1, <1>3, <1>4, <2>1, AnsweringKept
  <1>5. ASSUME NEW t \in Threads, PromptOnSession(t) \/ PromptHeldBack(t) PROVE Answering'
    <2>1. \A u \in Threads : waiting'[u] => waiting[u] \/ run[u] # 0
      <3>1. waiting \in [Threads -> BOOLEAN]
        BY <1>1 DEF Types
      <3> QED
        BY <1>5, <3>1 DEF PromptOnSession, PromptHeldBack
    <2> QED
      BY <1>4, <1>5, <2>1 DEF PromptOnSession, PromptHeldBack, disk
  <1>6. ASSUME NEW t \in Threads, Decide(t) PROVE Answering'
    <2>1. PICK x \in held[t] : agent' = Answered(agent, {x})
      BY <1>6 DEF Decide
    <2>2. agent'.turns = agent.turns
      BY <1>2, <2>1, Unblocked
    <2> QED
      BY <1>4, <1>6, <2>2 DEF Decide, disk
  <1>7. CASE Panic
    BY <1>4, <1>7 DEF Panic, disk
  <1>8. ASSUME NEW t \in Threads, Leave(t) PROVE Answering'
    <2>1. PICK a \in Agents : Leaves(Release(conn, {t}), a) /\ a.turns \subseteq agent.turns
      BY <1>1, <1>8, Dropped DEF Leave
    <2>2. /\ run' = [run EXCEPT ![t] = 0] /\ waiting' = [waiting EXCEPT ![t] = FALSE]
          /\ UNCHANGED <<batch, early>> /\ count'.prompts = count.prompts
      BY <1>2, <1>8 DEF Leave, Counts
    <2>3. \A u \in Threads : Undisturbed(u) /\ (u \notin {t} => run'[u] = run[u])
      <3>1. waiting \in [Threads -> BOOLEAN]
        BY <1>1 DEF Types
      <3> QED
        BY <1>2, <2>2, <3>1 DEF Undisturbed
    <2>4. {t} \in SUBSET Threads
      OBVIOUS
    <2> QED
      BY <1>1, <1>3, <2>1, <2>2, <2>3, <2>4, AnsweringLeft
  <1>9. CASE Reap
    <2>1. /\ Leaves(Release(conn, Tenants(conn)), agent) /\ Tenants(conn) \in SUBSET Threads
          /\ run' = [t \in Threads |-> IF t \in Tenants(conn) THEN 0 ELSE run[t]]
          /\ waiting' = [t \in Threads |-> waiting[t] /\ t \notin Tenants(conn)]
          /\ UNCHANGED <<batch, count, early>>
      BY <1>9 DEF Reap, Gone, Tenants
    <2>2. \A u \in Threads : Undisturbed(u) /\ (u \notin Tenants(conn) => run'[u] = run[u])
      BY <2>1 DEF Undisturbed
    <2> QED
      BY <1>1, <1>2, <1>3, <2>1, <2>2, AnsweringLeft
  <1>10. CASE SendPrompt
    <2>1. /\ call.at = "send" /\ phase = "idle" /\ UNCHANGED <<batch, early, waiting>>
      BY <1>10 DEF SendPrompt, CallIs
    <2>2. /\ call.thread \in Threads /\ call.session \in Sessions /\ count.prompts < MaxPrompts
          /\ run[call.thread] = 0 /\ batch = <<>>
      BY <1>1, <2>1, RoomForIt DEF CallMade, Riding, CallIdle
    <2>3. CASE Sent(call.thread, call.session, agent)
      <3>1. \A r \in Requests : conn.owners[r] = call.thread => r \in early
        <4>1. \A r \in Requests : r # 0
          BY DEF Requests
        <4>2. call.thread # Nobody
          BY <2>2, PoolAssumption
        <4> QED
          BY <2>2, <4>1, <4>2 DEF Answering, OwnerRuns
      <3>2. \A i \in ResultsIn(batch') :
               /\ i + 0 \in ResultsIn(batch) /\ batch'[i] = batch[i + 0]
               /\ batch'[i].to = call.thread => batch'[i].event.id \in early'
        BY <2>1, <2>2 DEF ResultsIn
      <3>3. /\ early \subseteq early' /\ \A r \in Requests : conn.owners[r] = call.thread => r \in early'
            /\ \A u \in Threads : u # call.thread => waiting'[u] = waiting[u]
        BY <2>1, <3>1
      <3> QED
        BY <1>1, <1>2, <2>2, <2>3, <3>2, <3>3, AnsweringSent
    <2>4. CASE ForgetAdapter(call.thread, agent) /\ UNCHANGED <<run, count>>
      <3>1. {call.thread} \in SUBSET Threads
        BY <2>2
      <3>2. \A u \in Threads : Undisturbed(u) /\ (u \notin {call.thread} => run'[u] = run[u])
        BY <2>1, <2>4 DEF Undisturbed
      <3>3. count'.prompts = count.prompts /\ early \subseteq early'
        BY <2>1, <2>4
      <3> QED
        BY <1>1, <1>2, <1>3, <2>1, <2>4, <3>1, <3>2, <3>3, AnsweringLeft DEF ForgetAdapter
    <2> QED
      BY <1>10, <2>3, <2>4 DEF SendPrompt
  <1>11. ASSUME NEW t \in Threads, DrainStranded(t) PROVE Answering'
    <2>1. /\ NextPrompt(t, agent) /\ run[t] = 0 /\ phase = "idle"
          /\ waiting' = [waiting EXCEPT ![t] = FALSE] /\ UNCHANGED <<batch, early>>
      BY <1>11 DEF DrainStranded, Idle, NextPrompt
    <2>2. batch = <<>> /\ t # Nobody /\ \A r \in Requests : r # 0
      BY <1>1, <2>1, PoolAssumption DEF CallMade, Requests
    <2>3. \A r \in Requests : conn.owners[r] = t => r \in early'
      BY <2>1, <2>2 DEF Answering, OwnerRuns
    <2>4. \A i \in ResultsIn(batch') :
             /\ i + 0 \in ResultsIn(batch) /\ batch'[i] = batch[i + 0]
             /\ batch'[i].to = t => batch'[i].event.id \in early'
      BY <2>1, <2>2 DEF ResultsIn
    <2> QED
      BY <1>1, <1>2, <2>1, <2>3, <2>4, AnsweringNext
  <1> QED
    BY <1>5, <1>6, <1>7, <1>8, <1>9, <1>10, <1>11

\* The head of the batch is taken.
LEMMA Taken ==
    ASSUME Types, NEW types, Handle(types)
    PROVE  /\ Head(batch).to \in Threads /\ Head(batch).event \in Read
           /\ Head(batch).event.type \in types
           /\ Head(batch) = batch[1] /\ 1 \in DOMAIN batch
           /\ UNCHANGED <<stored, up, phase, call, made>> /\ phase = "handle"
           /\ \A i \in DOMAIN batch' : i + 1 \in DOMAIN batch /\ batch'[i] = batch[i + 1]
           /\ \A i \in DOMAIN batch : i # 1 => i - 1 \in DOMAIN batch' /\ batch'[i - 1] = batch[i]
           /\ \A i \in ResultsIn(batch') :
                 i + 1 \in ResultsIn(batch) /\ batch'[i] = batch[i + 1] /\ i + 1 # 1
  <1> DEFINE Routes == [to : Threads, event : Read, by : {"pump", "settle"}]
  <1>1. batch \in Seq(Routes)
    BY DEF Types
  <1>2. /\ batch # <<>> /\ batch' = Tail(batch) /\ Head(batch).event.type \in types
        /\ UNCHANGED <<stored, up, phase, call, made>> /\ phase = "handle"
    BY DEF Handle
  <1>3. /\ Head(batch) \in Routes /\ Head(batch) = batch[1] /\ 1 \in DOMAIN batch
        /\ Tail(batch) \in Seq(Routes)
        /\ \A i \in DOMAIN batch' : i + 1 \in DOMAIN batch /\ batch'[i] = batch[i + 1]
        /\ \A i \in DOMAIN batch : i # 1 => i - 1 \in DOMAIN batch' /\ batch'[i - 1] = batch[i]
    BY <1>1, <1>2, TailOf
  <1>4. Head(batch).to \in Threads /\ Head(batch).event \in Read
    BY <1>3
  <1> HIDE DEF Routes
  <1>5. \A i \in DOMAIN batch' : i + 1 # 1
    <2>1. DOMAIN batch' = 1..Len(batch') /\ Len(batch') \in Nat
      BY <1>2, <1>3, LenProperties
    <2> QED
      BY <2>1
  <1>6. \A i \in ResultsIn(batch') :
           i + 1 \in ResultsIn(batch) /\ batch'[i] = batch[i + 1] /\ i + 1 # 1
    BY <1>3, <1>5 DEF ResultsIn
  <1> QED
    BY <1>2, <1>3, <1>4, <1>6

\* The head of the queue is taken.
LEMMA Drawn ==
    ASSUME Types, queue # <<>>, queue' = Tail(queue)
    PROVE  /\ Head(queue) \in Read /\ Head(queue) = queue[1] /\ 1 \in DOMAIN queue
           /\ \A i \in DOMAIN queue' : i + 1 \in DOMAIN queue /\ queue'[i] = queue[i + 1]
           /\ \A i \in DOMAIN queue : i # 1 => i - 1 \in DOMAIN queue' /\ queue'[i - 1] = queue[i]
           /\ \A i \in ResultsOf(queue') :
                 i + 1 \in ResultsOf(queue) /\ queue'[i] = queue[i + 1] /\ i + 1 # 1
  <1>1. queue \in Seq(Read)
    BY DEF Types
  <1>2. /\ Head(queue) \in Read /\ Head(queue) = queue[1] /\ 1 \in DOMAIN queue
        /\ Tail(queue) \in Seq(Read)
        /\ \A i \in DOMAIN queue' : i + 1 \in DOMAIN queue /\ queue'[i] = queue[i + 1]
        /\ \A i \in DOMAIN queue : i # 1 => i - 1 \in DOMAIN queue' /\ queue'[i - 1] = queue[i]
    BY <1>1, TailOf
  <1>3. \A i \in DOMAIN queue' : i + 1 # 1
    <2>1. DOMAIN queue' = 1..Len(queue') /\ Len(queue') \in Nat
      BY <1>2, LenProperties
    <2> QED
      BY <2>1
  <1>4. \A i \in ResultsOf(queue') :
           i + 1 \in ResultsOf(queue) /\ queue'[i] = queue[i + 1] /\ i + 1 # 1
    BY <1>2, <1>3 DEF ResultsOf
  <1> QED
    BY <1>2, <1>4

\* An answer is handed out, to the one thread it is for or to nobody.
LEMMA AnswerHanded ==
    ASSUME Types, Types', Answering, queue # <<>>, queue' = Tail(queue),
           Head(queue).type = "result",
           NEW S \in SUBSET Threads, NEW how \in {"pump", "settle"},
           batch' = Joined(S, Head(queue), how), S = {} \/ Cardinality(S) = 1,
           Head(queue).id \in early \/ \A t \in S : Awaits(t, Head(queue).id),
           conn' = Spent(conn, Head(queue)), UNCHANGED <<run, early, waiting, agent, count>>
    PROVE  Answering'
  <1> DEFINE e == Head(queue)
  <1>1. /\ e \in Read /\ e = queue[1] /\ 1 \in ResultsOf(queue)
        /\ \A i \in ResultsOf(queue') :
              i + 1 \in ResultsOf(queue) /\ queue'[i] = queue[i + 1] /\ i + 1 # 1
    BY Drawn DEF ResultsOf
  <1>2. /\ e.id \in Requests
        /\ \A r \in Requests : conn'.owners[r] = IF r = e.id THEN Nobody ELSE conn.owners[r]
    <2>1. conn \in Conns
      BY DEF Types
    <2> QED
      BY <1>1, <2>1, Routed1
  <1>3. Longer(batch', S, e, how)
    BY <1>1, BatchGrows
  <1> HIDE DEF e
  <1> DEFINE new == DOMAIN batch' \ DOMAIN batch
  <1>4. /\ \A i \in DOMAIN batch' : i \notin new => i \in DOMAIN batch /\ batch'[i] = batch[i]
        /\ \A i \in new : batch'[i].event = e /\ batch'[i].to \in S
        /\ \A i, j \in new : i = j
    <2>1. \A i \in new : batch'[i] \in [to : S, event : {e}, by : {how}]
      BY <1>3 DEF Longer
    <2>2. \A i \in new : batch'[i].event = e /\ batch'[i].to \in S
      BY <2>1
    <2>3. \A i, j \in new : i = j
      BY <1>3, <2>2 DEF Longer
    <2>4. \A i \in DOMAIN batch' : i \notin new => i \in DOMAIN batch /\ batch'[i] = batch[i]
      BY <1>3 DEF Longer
    <2> QED
      BY <2>2, <2>3, <2>4
  <1> HIDE DEF new
  <1>5. \A i \in ResultsIn(batch') :
           \/ i \notin new /\ i \in ResultsIn(batch) /\ batch'[i] = batch[i]
           \/ i \in new /\ batch'[i].event = e /\ batch'[i].to \in S
    BY <1>4 DEF ResultsIn
  <1>6. \A i \in ResultsIn(batch) : batch[i].event.id \in Requests
    BY Inside DEF Types
  <1>7. /\ \A i \in ResultsOf(queue') : queue'[i].id # e.id
        /\ \A x \in agent.turns : x.id # e.id
        /\ \A i \in ResultsIn(batch) : batch[i].event.id # e.id
    BY <1>1 DEF Answering, Once
  <1>8. OwnerRuns'
    BY <1>2 DEF Answering, OwnerRuns
  <1>9. HandedOut'
    <2>1. ASSUME NEW i \in ResultsIn(batch')
          PROVE  /\ conn'.owners[batch'[i].event.id] = Nobody
                 /\ batch'[i].event.id \in early' \/ AwaitsNext(batch'[i].to, batch'[i].event.id)
      <3>1. CASE i \in ResultsIn(batch) /\ batch'[i] = batch[i]
        BY <1>2, <1>6, <3>1 DEF Answering, HandedOut, Awaits, AwaitsNext
      <3>2. CASE batch'[i].event = e /\ batch'[i].to \in S
        BY <1>2, <3>2 DEF e, Awaits, AwaitsNext
      <3> QED
        BY <1>5, <3>1, <3>2
    <2> QED
      BY <2>1 DEF HandedOut, Awaits, AwaitsNext
  <1>10. Fresh'
    <2>1. e.id <= count.prompts
      BY <1>1 DEF Answering, Fresh
    <2>2. \A i \in ResultsIn(batch') : batch'[i].event.id <= count.prompts
      BY <1>5, <2>1 DEF Answering, Fresh
    <2> QED
      BY <1>1, <1>2, <2>2 DEF Answering, Fresh
  <1>11. Once'
    <2>1. \A i, j \in ResultsIn(batch') : batch'[i].event.id = batch'[j].event.id => i = j
      BY <1>4, <1>5, <1>7 DEF Answering, Once
    <2>2. ASSUME NEW i \in ResultsOf(queue'), NEW j \in ResultsOf(queue'), queue'[i].id = queue'[j].id
          PROVE  i = j
      <3>1. /\ i + 1 \in ResultsOf(queue) /\ j + 1 \in ResultsOf(queue)
            /\ queue[i + 1].id = queue[j + 1].id
        BY <1>1, <2>2
      <3>2. i + 1 = j + 1
        BY <3>1 DEF Answering, Once
      <3>3. i \in Int /\ j \in Int
        <4>1. queue' \in Seq(Read)
          BY DEF Types
        <4>2. DOMAIN queue' = 1..Len(queue') /\ Len(queue') \in Nat
          BY <4>1, LenProperties
        <4> QED
          BY <4>2 DEF ResultsOf
      <3> QED
        BY <3>2, <3>3
    <2>3. ASSUME NEW i \in ResultsOf(queue')
          PROVE  /\ \A x \in agent.turns : x.id # queue'[i].id
                 /\ \A j \in ResultsIn(batch) : queue'[i].id # batch[j].event.id
      <3>1. PICK k \in ResultsOf(queue) : queue'[i] = queue[k]
        BY <1>1
      <3> QED
        BY ZenonT(40), <3>1 DEF Answering, Once
    <2>4. \A x \in agent.turns, i \in ResultsIn(batch') : x.id # batch'[i].event.id
      BY <1>5, <1>7 DEF Answering, Once
    <2>5. ASSUME NEW i \in ResultsOf(queue'), NEW j \in ResultsIn(batch')
          PROVE  queue'[i].id # batch'[j].event.id
      <3>1. CASE j \in ResultsIn(batch) /\ batch'[j] = batch[j]
        BY <2>3, <3>1
      <3>2. CASE batch'[j].event = e
        BY <1>7, <3>2
      <3> QED
        BY <1>5, <3>1, <3>2
    <2>6. \A x, y \in agent.turns : x.id = y.id => x = y
      BY DEF Answering, Once
    <2> QED
      BY <2>1, <2>2, <2>3, <2>4, <2>5, <2>6 DEF Once
  <1> QED
    BY <1>8, <1>9, <1>10, <1>11 DEF Answering

\* The answers, when the queue is drained and what was drained is handled.
LEMMA AnsweringPump ==
    ASSUME Base, Types', Riding, Answering,
           \/ StartPump \/ Drain \/ Settle \/ Drained
           \/ HandleUpdate \/ HandleEnded \/ HandleAsk \/ HandleResult \/ HandleClosed \/ Handled
    PROVE  Answering'
  <1>1. Types /\ CallMade
    BY DEF Base
  <1>2. /\ conn \in Conns /\ agent \in Agents /\ call \in Calls /\ queue \in Seq(Read)
        /\ run \in [Threads -> 0..MaxPrompts] /\ count \in Counts
    BY <1>1 DEF Types
  <1>3. \A r \in Requests : conn.owners[r] = Nobody \/ conn.owners[r] \in Threads
    BY <1>2 DEF Conns
  <1>4. CASE StartPump \/ Drained \/ Handled
    <2>1. UNCHANGED <<run, early, waiting, conn, queue, batch, agent, count>>
      BY <1>4 DEF StartPump, Drained, Handled, disk
    <2>2. /\ \A i \in ResultsIn(batch') : i + 0 \in ResultsIn(batch) /\ batch'[i] = batch[i + 0]
          /\ \A i \in ResultsOf(queue') : i + 0 \in ResultsOf(queue) /\ queue'[i] = queue[i + 0]
      BY <1>1, <2>1, Unread
    <2>3. /\ \A r \in Requests : conn'.owners[r] # Nobody =>
                /\ conn'.owners[r] = conn.owners[r]
                /\ r \in early' \/ run'[conn.owners[r]] = run[conn.owners[r]]
          /\ early \subseteq early' /\ \A t \in Threads : Undisturbed(t)
          /\ agent'.turns \subseteq agent.turns /\ count'.prompts = count.prompts
      BY <2>1 DEF Undisturbed
    <2> QED
      BY <1>1, <2>2, <2>3, AnsweringKept
  <1>5. ASSUME queue # <<>>, queue' = Tail(queue), conn' = Spent(conn, Head(queue)),
               UNCHANGED <<run, early, waiting, count>>, Head(queue).type # "result",
               agent'.turns = agent.turns,
               \/ batch' = batch
               \/ \E S \in SUBSET Threads, how \in {"pump", "settle"} :
                     batch' = Joined(S, Head(queue), how)
        PROVE  Answering'
    <2> DEFINE e == Head(queue)
    <2>1. /\ e \in Read
          /\ \A i \in ResultsOf(queue') : i + 1 \in ResultsOf(queue) /\ queue'[i] = queue[i + 1]
      BY <1>1, <1>5, Drawn
    <2>2. conn' = conn
      BY <1>2, <1>5, <2>1, Routed1
    <2>3. \A i \in ResultsIn(batch') : i \in ResultsIn(batch) /\ batch'[i] = batch[i]
      <3>1. CASE batch' = batch
        BY <3>1
      <3>2. ASSUME NEW S \in SUBSET Threads, NEW how \in {"pump", "settle"},
                   batch' = Joined(S, e, how)
            PROVE  \A i \in ResultsIn(batch') : i \in ResultsIn(batch) /\ batch'[i] = batch[i]
        <4>1. Longer(batch', S, e, how)
          BY <1>1, <2>1, <3>2, BatchGrows
        <4>2. \A i \in DOMAIN batch : batch'[i] = batch[i]
          BY <4>1 DEF Longer
        <4>3. \A i \in DOMAIN batch' \ DOMAIN batch : batch'[i] \in [to : S, event : {e}, by : {how}]
          BY <4>1 DEF Longer
        <4>4. \A i \in DOMAIN batch' \ DOMAIN batch : batch'[i].event = e
          BY <4>3
        <4> QED
          BY <1>5, <4>2, <4>4 DEF ResultsIn
      <3> QED
        BY <1>5, <3>1, <3>2
    <2>4. \A i \in ResultsIn(batch') : i + 0 \in ResultsIn(batch) /\ batch'[i] = batch[i + 0]
      BY <1>1, <2>3, Unread
    <2>5. /\ \A r \in Requests : conn'.owners[r] # Nobody =>
                /\ conn'.owners[r] = conn.owners[r]
                /\ r \in early' \/ run'[conn.owners[r]] = run[conn.owners[r]]
          /\ early \subseteq early' /\ \A t \in Threads : Undisturbed(t)
          /\ agent'.turns \subseteq agent.turns /\ count'.prompts = count.prompts
      BY <1>5, <2>2 DEF Undisturbed
    <2> QED
      BY <1>1, <2>1, <2>4, <2>5, AnsweringKept
  <1>6. CASE Drain
    <2> DEFINE e == Head(queue)
               S == Route(conn, e)
    <2>1. /\ queue # <<>> /\ queue' = Tail(queue) /\ conn' = Spent(conn, e)
          /\ UNCHANGED <<run, early, waiting, count>> /\ batch' = Joined(S, e, "pump")
          /\ agent' = IF S = {} THEN Unowned(e) ELSE agent
      BY <1>6 DEF Drain, disk, Joined
    <2>2. e \in Read
      BY <1>1, <2>1, Drawn
    <2>3. S \in SUBSET Threads /\ (e.type = "result" => S = {conn.owners[e.id]} \ {Nobody})
          /\ (e.type = "result" => e.id \in Requests)
      BY <1>2, <2>2, Routed1
    <2>4. CASE e.type = "result"
      <3>1. agent' = agent
        BY <2>1, <2>4 DEF Unowned
      <3>2. S = {} \/ S = {conn.owners[e.id]}
        BY <2>3, <2>4
      <3>3. e.id \in early \/ \A t \in S : Awaits(t, e.id)
        BY <2>3, <2>4 DEF Answering, OwnerRuns, Awaits, Requests
      <3>4. S = {} \/ Cardinality(S) = 1
        BY <3>2, FS_Singleton
      <3> QED
        BY <1>1, <2>1, <2>3, <2>4, <3>1, <3>3, <3>4, AnswerHanded
    <2>5. CASE e.type # "result"
      <3>1. agent'.turns = agent.turns
        BY <1>2, <2>1, Unblocked DEF Unowned
      <3> QED
        BY <1>5, <2>1, <2>3, <2>5, <3>1
    <2> QED
      BY <2>4, <2>5
  <1>7. CASE Settle
    <2> DEFINE e == Head(queue)
               owners == Route(conn, e)
               S == IF Cardinality(owners) = 1 THEN owners ELSE {call.thread}
    <2>1. /\ queue # <<>> /\ queue' = Tail(queue) /\ conn' = Spent(conn, e)
          /\ UNCHANGED <<run, early, waiting, count, agent>>
          /\ batch' = batch \/ batch' = Joined(S, e, "settle")
          /\ e.type \notin {"update", "replay", "ended"} => batch' = Joined(S, e, "settle")
      BY <1>7 DEF Settle, disk, Joined
    <2>2. e \in Read
      BY <1>1, <2>1, Drawn
    <2>3. call.thread \in Threads /\ run[call.thread] = 0 /\ ~waiting[call.thread]
      BY <1>1, <1>7 DEF Settle, CallMade, Riding, CallIdle
    <2>4. /\ owners \in SUBSET Threads
          /\ e.type = "result" => owners = {conn.owners[e.id]} \ {Nobody} /\ e.id \in Requests
      BY <1>2, <2>2, Routed1
    <2>5. S \in SUBSET Threads
      BY <2>3, <2>4
    <2>6. CASE e.type = "result"
      <3>1. e.id \in early \/ \A t \in owners : Awaits(t, e.id)
        BY <2>4, <2>6 DEF Answering, OwnerRuns, Awaits, Requests
      <3>2. e.id \in early \/ \A t \in S : Awaits(t, e.id)
        BY <2>3, <3>1 DEF Awaits
      <3>3. Cardinality(S) = 1
        BY FS_Singleton
      <3> QED
        BY <1>1, <2>1, <2>5, <2>6, <3>2, <3>3, AnswerHanded
    <2>7. CASE e.type # "result"
      BY <1>5, <2>1, <2>5, <2>7
    <2> QED
      BY <2>6, <2>7
  <1>8. CASE HandleUpdate \/ HandleAsk
    <2>1. PICK types : Handle(types)
      BY <1>8 DEF HandleUpdate, HandleAsk
    <2>2. UNCHANGED <<run, early, waiting, conn, queue, agent, count>>
      BY <1>8 DEF HandleUpdate, HandleAsk
    <2>3. /\ \A i \in ResultsIn(batch') : i + 1 \in ResultsIn(batch) /\ batch'[i] = batch[i + 1]
          /\ \A i \in ResultsOf(queue') : i + 0 \in ResultsOf(queue) /\ queue'[i] = queue[i + 0]
      BY <1>1, <2>1, <2>2, Taken, Unread
    <2>4. /\ \A r \in Requests : conn'.owners[r] # Nobody =>
                /\ conn'.owners[r] = conn.owners[r]
                /\ r \in early' \/ run'[conn.owners[r]] = run[conn.owners[r]]
          /\ early \subseteq early' /\ \A t \in Threads : Undisturbed(t)
          /\ agent'.turns \subseteq agent.turns /\ count'.prompts = count.prompts
      BY <2>2 DEF Undisturbed
    <2> QED
      BY <1>1, <2>3, <2>4, AnsweringKept
  <1>11. CASE HandleEnded
    <2> DEFINE t == Head(batch).to
    <2>1. /\ Handle({"ended"}) /\ run' = [run EXCEPT ![t] = 0]
          /\ early' = early \cup ({run[t]} \ {0}) /\ UNCHANGED <<conn, queue, waiting, agent, count>>
      BY <1>11 DEF HandleEnded
    <2>2. /\ t \in Threads
          /\ \A i \in ResultsIn(batch') : i + 1 \in ResultsIn(batch) /\ batch'[i] = batch[i + 1]
          /\ \A i \in ResultsOf(queue') : i + 0 \in ResultsOf(queue) /\ queue'[i] = queue[i + 0]
      BY <1>1, <2>1, Taken, Unread
    <2> HIDE DEF t
    <2>3. early \subseteq early' /\ (run[t] # 0 => run[t] \in early')
      BY <2>1
    <2>4. \A u \in Threads : run'[u] = IF u = t THEN 0 ELSE run[u]
      BY <1>2, <2>1, <2>2
    <2>5. \A u \in Threads : Undisturbed(u)
      BY <2>1, <2>3, <2>4 DEF Undisturbed
    <2>6. ASSUME NEW r \in Requests, conn'.owners[r] # Nobody
          PROVE  /\ conn'.owners[r] = conn.owners[r]
                 /\ r \in early' \/ run'[conn.owners[r]] = run[conn.owners[r]]
      <3>1. conn'.owners[r] = conn.owners[r] /\ conn.owners[r] \in Threads
        BY <1>3, <2>1, <2>6
      <3>2. r \in early \/ run[conn.owners[r]] = r
        BY <2>6, <3>1 DEF Answering, OwnerRuns
      <3>3. r # 0
        BY PoolAssumption DEF Requests
      <3> QED
        BY <2>3, <2>4, <3>1, <3>2, <3>3
    <2>7. agent'.turns \subseteq agent.turns /\ count'.prompts = count.prompts
      BY <2>1
    <2> QED
      BY <1>1, <2>2, <2>3, <2>5, <2>6, <2>7, AnsweringKept
  <1>9. CASE HandleResult
    <2> DEFINE t == Head(batch).to
               id == Head(batch).event.id
               a == Answered(agent, held[t])
    <2>1. Handle({"result"}) /\ NextPrompt(t, a)
      BY <1>9 DEF HandleResult
    <2>2. /\ t \in Threads /\ Head(batch).event \in Read /\ Head(batch).event.type = "result"
          /\ Head(batch) = batch[1] /\ 1 \in ResultsIn(batch)
          /\ \A i \in ResultsIn(batch') :
                i + 1 \in ResultsIn(batch) /\ batch'[i] = batch[i + 1] /\ i + 1 # 1
      BY <1>1, <2>1, Taken DEF ResultsIn
    <2>3. id \in Requests /\ conn.owners[id] = Nobody /\ (id \in early \/ Awaits(t, id))
      BY <2>2 DEF Read, Answering, HandedOut
    <2>4. \A i \in ResultsIn(batch') : batch'[i].event.id # id
      BY <2>2 DEF Answering, Once
    <2>5. a \in Agents /\ a.turns = agent.turns
      BY <1>2, Unblocked
    <2>6. /\ early' = IF id \in early THEN early \cup ({run[t]} \ {0}) ELSE early
          /\ waiting' = [waiting EXCEPT ![t] = FALSE]
      BY <1>9 DEF HandleResult
    <2>7. t # Nobody /\ \A r \in Requests : r # 0
      BY <2>2, PoolAssumption DEF Requests
    <2> HIDE DEF t, id, a
    <2>8. early \subseteq early' /\ (id \in early /\ run[t] # 0 => run[t] \in early')
      BY <2>6
    <2>9. ASSUME NEW r \in Requests, conn.owners[r] = t PROVE r \in early'
      <3>1. r \in early \/ run[t] = r
        BY <2>7, <2>9 DEF Answering, OwnerRuns
      <3> QED
        BY <2>3, <2>7, <2>8, <2>9, <3>1 DEF Awaits
    <2>10. ASSUME NEW i \in ResultsIn(batch'), waiting[t], batch'[i].to = t
           PROVE  batch'[i].event.id \in early'
      <3>1. \/ batch'[i].event.id \in early
            \/ Awaits(t, batch'[i].event.id)
        BY <2>2, <2>10 DEF Answering, HandedOut
      <3>2. batch'[i].event.id # id
        BY <2>4
      <3> QED
        BY <2>3, <2>8, <2>10, <3>1, <3>2 DEF Awaits
    <2>11. \A i \in ResultsIn(batch') :
              /\ i + 1 \in ResultsIn(batch) /\ batch'[i] = batch[i + 1]
              /\ waiting[t] /\ batch'[i].to = t => batch'[i].event.id \in early'
      BY <2>2, <2>10
    <2>12. t \in Threads /\ NextPrompt(t, a)
      BY <2>1, <2>2 DEF t, a
    <2> QED
      BY <2>5, <2>6, <2>8, <2>9, <2>11, <2>12, AnsweringNext
  <1>10. CASE HandleClosed
    <2> DEFINE ts == {Head(batch).to}
    <2>1. Handle({"closed"}) /\ Gone(ts) /\ UNCHANGED <<early, count>>
      BY <1>10 DEF HandleClosed
    <2>2. /\ ts \in SUBSET Threads
          /\ \A i \in ResultsIn(batch') : i + 1 \in ResultsIn(batch) /\ batch'[i] = batch[i + 1]
      BY <1>1, <2>1, Taken
    <2> HIDE DEF ts
    <2>3. /\ Leaves(Release(conn, ts), agent) /\ count'.prompts = count.prompts
          /\ run' = [t \in Threads |-> IF t \in ts THEN 0 ELSE run[t]]
          /\ waiting' = [t \in Threads |-> waiting[t] /\ t \notin ts] /\ early \subseteq early'
      BY <2>1 DEF Gone
    <2>4. \A u \in Threads : Undisturbed(u) /\ (u \notin ts => run'[u] = run[u])
      BY <2>3 DEF Undisturbed
    <2> QED
      BY <1>1, <1>2, <2>2, <2>3, <2>4, AnsweringLeft
  <1> QED
    BY <1>4, <1>6, <1>7, <1>8, <1>9, <1>10, <1>11

\* The answers, when the agent moves.
LEMMA AnsweringAgent ==
    ASSUME Base, Types', Answering, AgentMoves
    PROVE  Answering'
  <1>1. Types /\ CallMade
    BY DEF Base
  <1>2. agent \in Agents /\ queue \in Seq(Read) /\ count \in Counts
    BY <1>1 DEF Types
  <1>3. UNCHANGED <<run, early, waiting, conn, batch>>
    BY DEF AgentMoves, Speak, Ask, Finish, ReplyInitialize, ReplyResume, ReplyLoad, ReplyNew,
           Die, PipeCloses, AgentOnly, disk
  <1>4. \A i \in ResultsIn(batch') : i + 0 \in ResultsIn(batch) /\ batch'[i] = batch[i + 0]
    BY <1>1, <1>3, Unread
  <1>5. count'.prompts = count.prompts
    BY <1>2 DEF AgentMoves, Speak, Ask, Finish, ReplyInitialize, ReplyResume, ReplyLoad, ReplyNew,
                Die, PipeCloses, Counts
  <1>6. agent'.turns \subseteq agent.turns
    BY <1>2 DEF AgentMoves, Speak, Ask, Finish, ReplyInitialize, ReplyResume, ReplyLoad, ReplyNew,
                Die, PipeCloses, Serves, Agents
  <1>7. /\ \A r \in Requests : conn'.owners[r] # Nobody =>
              /\ conn'.owners[r] = conn.owners[r]
              /\ r \in early' \/ run'[conn.owners[r]] = run[conn.owners[r]]
        /\ early \subseteq early' /\ \A t \in Threads : Undisturbed(t)
    BY <1>3 DEF Undisturbed
  <1>8. ASSUME NEW x \in agent.turns, Finish(x) PROVE Answering'
    <2> DEFINE e == Event("result", x.session, x.id, FALSE)
    <2>1. x.id \in Requests /\ x.session \in Sessions
      BY <1>2 DEF Agents
    <2>2. e \in Read /\ e.id = x.id /\ e.type = "result"
      BY <2>1, Written DEF Event
    <2>3. queue' = Append(queue, e) /\ agent'.turns = agent.turns \ {x} /\ count' = count
      BY <1>2, <1>8 DEF Finish, Says, Agents
    <2> HIDE DEF e
    <2>4. \A i \in ResultsOf(queue') :
             \/ i \in ResultsOf(queue) /\ queue'[i] = queue[i]
             \/ i = Len(queue) + 1 /\ queue'[i] = e
      BY <1>2, <2>2, <2>3, AppendOf DEF ResultsOf
    <2>5. /\ \A y \in agent'.turns : y \in agent.turns /\ y.id # e.id
          /\ \A i \in ResultsOf(queue) : queue[i].id # e.id
          /\ \A i \in ResultsIn(batch) : batch[i].event.id # e.id
      BY <2>2, <2>3 DEF Answering, Once
    <2>6. OwnerRuns' /\ HandedOut'
      BY <1>3 DEF Answering, OwnerRuns, HandedOut, Awaits
    <2>7. Fresh'
      <3>1. \A i \in ResultsOf(queue') : queue'[i].id <= count.prompts
        BY <2>2, <2>4 DEF Answering, Fresh
      <3> QED
        BY <1>3, <2>3, <2>5, <3>1 DEF Answering, Fresh
    <2>8. Once'
      <3>1. \A y, z \in agent'.turns : y.id = z.id => y = z
        BY <2>5 DEF Answering, Once
      <3>2. \A i, j \in ResultsOf(queue') : queue'[i].id = queue'[j].id => i = j
        BY <2>4, <2>5 DEF Answering, Once
      <3>3. \A i, j \in ResultsIn(batch') : batch'[i].event.id = batch'[j].event.id => i = j
        BY <1>3 DEF Answering, Once
      <3>4. \A y \in agent'.turns, i \in ResultsOf(queue') : y.id # queue'[i].id
        BY <2>4, <2>5 DEF Answering, Once
      <3>5. \A y \in agent'.turns, i \in ResultsIn(batch') : y.id # batch'[i].event.id
        BY <1>3, <2>5 DEF Answering, Once
      <3>6. ASSUME NEW i \in ResultsOf(queue'), NEW j \in ResultsIn(batch')
            PROVE  queue'[i].id # batch'[j].event.id
        <4>1. CASE i \in ResultsOf(queue) /\ queue'[i] = queue[i]
          BY <1>3, <4>1 DEF Answering, Once
        <4>2. CASE queue'[i] = e
          BY <1>3, <2>5, <4>2
        <4> QED
          BY <2>4, <4>1, <4>2
      <3> QED
        BY <3>1, <3>2, <3>3, <3>4, <3>5, <3>6 DEF Once
    <2> QED
      BY <2>6, <2>7, <2>8 DEF Answering
  <1>9. CASE ~ \E x \in agent.turns : Finish(x)
    <2>1. \A i \in ResultsOf(queue') : i \in ResultsOf(queue) /\ queue'[i] = queue[i]
      <3>1. CASE queue' = queue
        BY <3>1
      <3>2. CASE queue' # queue
        <4>1. PICK e \in Read : Says(e) /\ e.type # "result"
          BY <1>1, <1>9, <3>2, Spoken
        <4>2. \A i \in DOMAIN queue' : (i \in DOMAIN queue /\ queue'[i] = queue[i]) \/ queue'[i] = e
          BY <1>2, <4>1, AppendOf DEF Says
        <4> QED
          BY <4>1, <4>2 DEF ResultsOf
      <3> QED
        BY <3>1, <3>2
    <2>2. \A i \in ResultsOf(queue') : i + 0 \in ResultsOf(queue) /\ queue'[i] = queue[i + 0]
      BY <1>1, <2>1, Unread
    <2> QED
      BY <1>1, <1>4, <1>5, <1>6, <1>7, <2>2, AnsweringKept
  <1> QED
    BY <1>8, <1>9

\* The third layer, in each step and in none.
LEMMA AnsweringStep ==
    ASSUME Base, Riding, Answering, [Next]_vars
    PROVE  Answering'
  <1>1. Types'
    BY BaseStep DEF Base
  <1>2. CASE AgentMoves
    BY <1>1, <1>2, AnsweringAgent
  <1>3. CASE HostMoves
    BY <1>1, <1>3, AnsweringAttach, AnsweringPrompt, AnsweringPump DEF HostMoves
  <1>4. CASE UserMoves
    BY <1>1, <1>4, AnsweringAttach, AnsweringPrompt DEF UserMoves
  <1>5. CASE UNCHANGED vars
    BY <1>5 DEF vars, Answering, OwnerRuns, HandedOut, Awaits, Fresh, Once, ResultsOf, ResultsIn
  <1> QED
    BY <1>2, <1>3, <1>4, <1>5 DEF Next

-----------------------------------------------------------------------------
(* The fourth layer is inductive.                                          *)

\* The sessions that were made stay what they were.
StillMade == \A s \in DOMAIN made : s \in DOMAIN made' /\ made'[s] = made[s]

\* Nothing is sent: turns and answers go, and threads leave.
LEMMA HomingKept ==
    ASSUME Types, Homing, SessionsMade', StillMade, NEW j \in {0, 1}, NEW k \in {0, 1},
           agent'.turns \subseteq agent.turns,
           \A i \in ResultsOf(queue') : i + j \in ResultsOf(queue) /\ queue'[i] = queue[i + j],
           \A i \in DOMAIN batch' : i + k \in DOMAIN batch /\ batch'[i] = batch[i + k],
           \A r \in Requests : conn'.owners[r] # Nobody => conn'.owners[r] = conn.owners[r]
    PROVE  Homing'
  <1>1. \A i \in ResultsOf(queue) : queue[i].id \in Requests
    BY Inside DEF Types
  <1>2. \A x \in agent.turns : x.id \in Requests
    BY DEF Types, Agents
  <1>3. OwnedTurns'
    <2>1. ASSUME NEW x \in agent'.turns, conn'.owners[x.id] # Nobody
          PROVE  x.session \in DOMAIN made' /\ made'[x.session] = conn'.owners[x.id]
      <3>1. conn'.owners[x.id] = conn.owners[x.id] /\ x \in agent.turns
        BY <1>2, <2>1
      <3>2. x.session \in DOMAIN made /\ made[x.session] = conn.owners[x.id]
        BY <2>1, <3>1 DEF Homing, OwnedTurns, MadeFor
      <3> QED
        BY <3>1, <3>2 DEF StillMade
    <2>2. ASSUME NEW i \in ResultsOf(queue'), conn'.owners[queue'[i].id] # Nobody
          PROVE  /\ queue'[i].session \in DOMAIN made'
                 /\ made'[queue'[i].session] = conn'.owners[queue'[i].id]
      <3>1. PICK n \in ResultsOf(queue) : queue'[i] = queue[n]
        OBVIOUS
      <3>2. conn'.owners[queue[n].id] = conn.owners[queue[n].id]
        BY <1>1, <2>2, <3>1
      <3>3. queue[n].session \in DOMAIN made /\ made[queue[n].session] = conn.owners[queue[n].id]
        BY <2>2, <3>1, <3>2 DEF Homing, OwnedTurns, MadeFor
      <3> QED
        BY <3>1, <3>2, <3>3 DEF StillMade
    <2> QED
      BY <2>1, <2>2 DEF OwnedTurns, MadeFor
  <1>4. HandedHome'
    <2>1. ASSUME NEW i \in DOMAIN batch', batch'[i].by = "pump",
                 batch'[i].event.named \/ batch'[i].event.type = "result"
          PROVE  /\ batch'[i].event.session \in DOMAIN made'
                 /\ made'[batch'[i].event.session] = batch'[i].to
      <3>1. PICK n \in DOMAIN batch : batch'[i] = batch[n]
        OBVIOUS
      <3>2. /\ batch[n].event.session \in DOMAIN made
            /\ made[batch[n].event.session] = batch[n].to
        BY <2>1, <3>1 DEF Homing, HandedHome, MadeFor
      <3> QED
        BY <3>1, <3>2 DEF StillMade
    <2> QED
      BY <2>1 DEF HandedHome, MadeFor
  <1> QED
    BY <1>3, <1>4 DEF Homing

\* The tables, when they lose entries or nothing.
LEMMA TablesKept ==
    ASSUME TablesMade, StillMade,
           \A t \in Threads : conn'.sessions[t] \in {0, conn.sessions[t]},
           \A s \in Sessions : conn'.bySession[s] \in {Nobody, conn.bySession[s]}
    PROVE  TablesMade'
  BY DEF TablesMade, MadeFor, StillMade

\* Threads leave.
LEMMA HomingLeft ==
    ASSUME Types, Homing, NEW ts \in SUBSET Threads, NEW a \in Agents, NEW k \in {0, 1},
           a.turns \subseteq agent.turns, Leaves(Release(conn, ts), a),
           UNCHANGED <<made, stored>>, CallForMade',
           \A i \in DOMAIN batch' : i + k \in DOMAIN batch /\ batch'[i] = batch[i + k]
    PROVE  Homing'
  <1>1. conn \in Conns /\ queue \in Seq(Read)
    BY DEF Types
  <1>2. /\ conn'.up => agent' = a /\ queue' = queue
        /\ ~conn'.up => agent' = NoAgent /\ queue' = <<>>
        /\ \A t \in Threads : conn'.sessions[t] \in {0, conn.sessions[t]}
        /\ \A s \in Sessions : conn'.bySession[s] \in {Nobody, conn.bySession[s]}
        /\ \A r \in Requests : conn'.owners[r] # Nobody => conn'.owners[r] = conn.owners[r]
    BY <1>1, Left
  <1>3. agent'.turns \subseteq agent.turns
    <2>1. NoAgent.turns = {}
      BY DEF NoAgent
    <2> QED
      BY <1>2, <2>1
  <1>4. \A i \in ResultsOf(queue') : i + 0 \in ResultsOf(queue) /\ queue'[i] = queue[i + 0]
    <2>1. \A i \in ResultsOf(queue') : i \in ResultsOf(queue) /\ queue'[i] = queue[i]
      <3>1. ResultsOf(<<>>) = {}
        BY DEF ResultsOf
      <3> QED
        BY <1>2, <3>1
    <2> QED
      BY <2>1, Unread
  <1>5. StillMade
    BY DEF StillMade
  <1>6. SessionsMade'
    <2>1. TablesMade'
      BY <1>2, <1>5, TablesKept DEF Homing, SessionsMade
    <2>2. StoredMade'
      BY DEF Homing, SessionsMade, StoredMade, MadeFor
    <2> QED
      BY <2>1, <2>2 DEF SessionsMade
  <1> QED
    BY <1>2, <1>3, <1>4, <1>5, <1>6, HomingKept

\* A prompt goes out on a session that was made for its thread.
LEMMA HomingSent ==
    ASSUME Types, Answering, Homing, NEW t \in Threads, NEW s \in Sessions, NEW a \in Agents,
           NEW k \in {0, 1},
           a.turns \subseteq agent.turns, count.prompts < MaxPrompts, Sent(t, s, a),
           MadeFor(s, t), UNCHANGED made, StoredMade', CallForMade',
           \A i \in DOMAIN batch' : i + k \in DOMAIN batch /\ batch'[i] = batch[i + k]
    PROVE  Homing'
  <1> DEFINE n == count.prompts + 1
  <1>1. /\ n \in Nat \ {0} /\ count.prompts \in Nat /\ queue' = queue
        /\ conn'.sessions = conn.sessions /\ conn'.bySession = conn.bySession
        /\ \A q \in Requests : conn'.owners[q] = IF q = n THEN t ELSE conn.owners[q]
    <2>1. count.prompts \in Nat
      BY DEF Types, Counts
    <2>2. /\ n \in Nat \ {0} /\ queue' = queue
          /\ conn'.sessions = conn.sessions /\ conn'.bySession = conn.bySession
      BY SentOut
    <2>3. \A q \in Requests : conn'.owners[q] = IF q = n THEN t ELSE conn.owners[q]
      BY SentOut
    <2> QED
      BY <2>1, <2>2, <2>3
  <1>2. agent'.turns \subseteq agent.turns \cup {[id |-> n, session |-> s]}
    <2>1. agent'.turns \subseteq a.turns \cup {[id |-> n, session |-> s]}
      BY SentOut
    <2> QED
      BY <2>1
  <1>3. n \in Requests
    BY SentOut
  <1> HIDE DEF n
  <1>4. /\ \A i \in ResultsOf(queue) : queue[i].id \in Requests /\ queue[i].id # n
        /\ \A x \in agent.turns : x.id \in Requests /\ x.id # n
    <2>1. \A i \in ResultsOf(queue) : queue[i].id \in Requests
      BY Inside DEF Types
    <2>2. \A x \in agent.turns : x.id \in Requests
      BY DEF Types, Agents
    <2>3. ~(n <= count.prompts)
      BY <1>1 DEF n
    <2> QED
      BY <2>1, <2>2, <2>3 DEF Answering, Fresh
  <1>5. TablesMade'
    BY <1>1 DEF Homing, SessionsMade, TablesMade, MadeFor
  <1>6. OwnedTurns'
    <2>1. ASSUME NEW x \in agent'.turns, conn'.owners[x.id] # Nobody
          PROVE  x.session \in DOMAIN made /\ made[x.session] = conn'.owners[x.id]
      <3>1. CASE x \in agent.turns
        <4>1. conn'.owners[x.id] = conn.owners[x.id]
          BY <1>1, <1>4, <3>1
        <4> QED
          BY <2>1, <3>1, <4>1 DEF Homing, OwnedTurns, MadeFor
      <3>2. CASE x = [id |-> n, session |-> s]
        <4>1. x.id = n /\ x.session = s
          BY <3>2
        <4>2. conn'.owners[x.id] = t
          BY <1>1, <1>3, <4>1
        <4> QED
          BY <4>1, <4>2 DEF MadeFor
      <3> QED
        BY <1>2, <3>1, <3>2
    <2>2. ASSUME NEW i \in ResultsOf(queue), conn'.owners[queue[i].id] # Nobody
          PROVE  /\ queue[i].session \in DOMAIN made
                 /\ made[queue[i].session] = conn'.owners[queue[i].id]
      <3>1. conn'.owners[queue[i].id] = conn.owners[queue[i].id]
        BY <1>1, <1>4
      <3> QED
        BY <2>2, <3>1 DEF Homing, OwnedTurns, MadeFor
    <2> QED
      BY <1>1, <2>1, <2>2 DEF OwnedTurns, MadeFor
  <1>7. HandedHome'
    <2>1. ASSUME NEW i \in DOMAIN batch', batch'[i].by = "pump",
                 batch'[i].event.named \/ batch'[i].event.type = "result"
          PROVE  /\ batch'[i].event.session \in DOMAIN made
                 /\ made[batch'[i].event.session] = batch'[i].to
      <3>1. PICK m \in DOMAIN batch : batch'[i] = batch[m]
        OBVIOUS
      <3> QED
        BY <2>1, <3>1 DEF Homing, HandedHome, MadeFor
    <2> QED
      BY <2>1 DEF HandedHome, MadeFor
  <1> QED
    BY <1>5, <1>6, <1>7 DEF Homing, SessionsMade

\* Whose sessions are whose, when the host attaches a thread.
LEMMA HomingAttach ==
    ASSUME Base, Homing,
           \/ \E t \in Threads : Attach(t)
           \/ Initialized \/ InitializeFailed \/ Resumed \/ ResumeFailed
           \/ Loaded \/ LoadFailed \/ Settled \/ ResumeUnsupported
           \/ NewSession \/ NewSessionFailed
    PROVE  Homing'
  <1>1. Types /\ CallMade /\ StoredMade /\ TablesMade /\ CallForMade
    BY DEF Base, Homing, SessionsMade
  <1>2. /\ conn \in Conns /\ agent \in Agents /\ call \in Calls /\ queue \in Seq(Read)
    BY <1>1 DEF Types
  <1>3. UNCHANGED <<stored, batch, made>>
    BY DEF Attach, Initialized, InitializeFailed, Resumed, ResumeFailed, Loaded, LoadFailed, Settled,
           ResumeUnsupported, NewSession, NewSessionFailed, disk
  <1>4. StillMade /\ StoredMade'
    BY <1>1, <1>3 DEF StillMade, StoredMade, MadeFor
  <1>5. \A i \in DOMAIN batch' : i + 0 \in DOMAIN batch /\ batch'[i] = batch[i + 0]
    <2>1. batch \in Seq([to : Threads, event : Read, by : {"pump", "settle"}])
      BY <1>1 DEF Types
    <2>2. \A i \in DOMAIN batch : i \in Int
      BY <1>2, <2>1, Inside
    <2>3. \A i \in DOMAIN batch : i + 0 = i
      BY <2>2
    <2> QED
      BY <1>3, <2>3
  <1>6. ASSUME agent'.turns \subseteq agent.turns, queue' = queue \/ queue' = <<>>,
               \A r \in Requests : conn'.owners[r] # Nobody => conn'.owners[r] = conn.owners[r],
               TablesMade', CallForMade'
        PROVE  Homing'
    <2>1. \A i \in ResultsOf(queue') : i + 0 \in ResultsOf(queue) /\ queue'[i] = queue[i + 0]
      <3>1. ResultsOf(<<>>) = {}
        BY DEF ResultsOf
      <3> QED
        BY <1>1, <1>6, <3>1, Unread
    <2>2. SessionsMade'
      BY <1>4, <1>6 DEF SessionsMade
    <2> QED
      BY <1>1, <1>4, <1>5, <1>6, <2>1, <2>2, HomingKept
  <1>7. ASSUME NEW t \in Threads, Attach(t) PROVE Homing'
    <2>1. \/ UNCHANGED <<conn, agent, queue>>
          \/ conn' = FreshConn /\ queue' = <<>> /\ agent'.turns = {}
      BY <1>1, <1>7, Connected DEF Attach
    <2>2. /\ \A r \in Requests : FreshConn.owners[r] = Nobody
          /\ \A u \in Threads : FreshConn.sessions[u] = 0
          /\ \A s \in Sessions : FreshConn.bySession[s] = Nobody
      BY DEF FreshConn, Vacant
    <2>3. TablesMade'
      BY <1>1, <1>4, <2>1, <2>2, TablesKept
    <2>4. CallForMade'
      BY <1>7 DEF Attach, Waits, CallForMade
    <2> QED
      BY <1>6, <2>1, <2>2, <2>3, <2>4
  <1>8. ASSUME NEW s, call' = AttachedCall(s), call.why = "prompt" => MadeFor(s, call.thread)
        PROVE  CallForMade'
    <2>1. CASE call.why = "prompt"
      <3>1. call' = [call EXCEPT !.at = "send", !.session = s, !.reply = "none"]
        BY <1>8, <2>1 DEF AttachedCall
      <3>2. call'.session = s /\ call'.thread = call.thread
        BY <1>2, <3>1 DEF Calls
      <3> QED
        BY <1>3, <1>8, <2>1, <3>2 DEF CallForMade, MadeFor
    <2>2. CASE call.why # "prompt"
      BY <1>8, <2>2 DEF AttachedCall, NoCall, CallForMade
    <2> QED
      BY <2>1, <2>2
  <1>9. ASSUME NEW c \in Conns, c = Adopt(conn, call.thread, call.session),
               conn' = c \/ conn' = [c EXCEPT !.ready = TRUE],
               call.thread \in Threads, call.session \in Sessions, MadeFor(call.session, call.thread)
        PROVE  TablesMade' /\ conn'.owners = conn.owners
    <2>1. /\ c.owners = conn.owners
          /\ \A u \in Threads :
                c.sessions[u] = IF u = call.thread THEN call.session ELSE conn.sessions[u]
          /\ \A x \in Sessions :
                /\ x = call.session => c.bySession[x] = call.thread
                /\ x # call.session => c.bySession[x] \in {Nobody, conn.bySession[x]}
      BY <1>2, <1>9, Adopted
    <2>2. conn'.sessions = c.sessions /\ conn'.bySession = c.bySession /\ conn'.owners = c.owners
      BY <1>9 DEF Conns
    <2> HIDE <1>9
    <2>3. \A u \in Threads : c.sessions[u] # 0 => MadeFor(c.sessions[u], u)
      BY <1>1, <1>9, <2>1 DEF TablesMade
    <2>4. \A x \in Sessions : c.bySession[x] # Nobody => MadeFor(x, c.bySession[x])
      BY <1>1, <1>9, <2>1 DEF TablesMade
    <2>5. TablesMade'
      BY <1>3, <2>2, <2>3, <2>4 DEF TablesMade, MadeFor
    <2> QED
      BY <2>1, <2>2, <2>5
  <1>10. CASE Resumed \/ Loaded \/ NewSession
    <2>1. /\ call.at \in {"resume", "load", "new"} /\ (call.at = "new" => call.reply = "yes")
          /\ UNCHANGED <<agent, queue>>
      BY <1>10 DEF Resumed, Loaded, NewSession, CallIs
    <2>2. call.thread \in Threads /\ call.session \in Sessions
      BY <1>1, <2>1 DEF CallMade
    <2>3. MadeFor(call.session, call.thread)
      <3>1. CASE call.at = "new"
        BY <1>1, <2>1, <3>1 DEF CallForMade
      <3>2. CASE call.at \in {"resume", "load"}
        <4>1. call.session # 0 /\ call.session = stored[call.thread]
          BY <1>1, <2>2, <3>2 DEF CallMade, Sessions
        <4> QED
          BY <1>1, <2>2, <4>1 DEF StoredMade
      <3> QED
        BY <2>1, <3>1, <3>2
    <2>4. Adopt(conn, call.thread, call.session) \in Conns
      BY <1>2, <2>2, Adopted
    <2>5. \/ conn' = Adopt(conn, call.thread, call.session)
          \/ conn' = [Adopt(conn, call.thread, call.session) EXCEPT !.ready = TRUE]
      BY <1>10 DEF Resumed, Loaded, NewSession
    <2>6. TablesMade' /\ conn'.owners = conn.owners
      BY <1>9, <2>2, <2>3, <2>4, <2>5
    <2>7. CallForMade'
      <3>1. CASE Resumed \/ NewSession
        BY <1>8, <2>3, <3>1 DEF Resumed, NewSession
      <3>2. CASE Loaded
        <4>1. call'.session = call.session /\ call'.thread = call.thread
          BY <1>2, <3>2 DEF Loaded, Calls
        <4> QED
          BY <1>3, <2>3, <4>1 DEF CallForMade, MadeFor
      <3> QED
        BY <1>10, <3>1, <3>2
    <2> QED
      BY <1>6, <2>1, <2>6, <2>7
  <1>11. CASE Initialized \/ ResumeFailed \/ LoadFailed \/ Settled
    <2>1. UNCHANGED <<agent, queue>>
      BY <1>11 DEF Initialized, ResumeFailed, LoadFailed, Settled
    <2>2. /\ conn'.sessions = conn.sessions /\ conn'.bySession = conn.bySession
          /\ conn'.owners = conn.owners
      BY <1>2, <1>11 DEF Initialized, ResumeFailed, LoadFailed, Settled, Conns
    <2>3. TablesMade'
      BY <1>1, <1>4, <2>2, TablesKept
    <2>4. CallForMade'
      <3>1. CASE Settled
        BY <1>1, <1>8, <3>1 DEF Settled, CallIs, CallForMade
      <3>2. CASE Initialized \/ ResumeFailed \/ LoadFailed
        BY <3>2 DEF Initialized, ResumeFailed, LoadFailed, Restore, Waits, CallForMade
      <3> QED
        BY <1>11, <3>1, <3>2
    <2> QED
      BY <1>6, <2>1, <2>2, <2>3, <2>4
  <1>12. CASE InitializeFailed \/ NewSessionFailed \/ ResumeUnsupported
    <2>1. call.thread \in Threads
      BY <1>1, <1>12 DEF InitializeFailed, NewSessionFailed, ResumeUnsupported, CallIs, CallMade
    <2>2. CallForMade'
      BY <1>12 DEF InitializeFailed, NewSessionFailed, ResumeUnsupported, NoCall, Waits, CallForMade
    <2>3. ASSUME NEW a \in Agents, Leaves(Release(conn, {call.thread}), a),
                 a.turns \subseteq agent.turns
          PROVE  Homing'
      <3>1. {call.thread} \in SUBSET Threads
        BY <2>1
      <3> QED
        BY <1>1, <1>3, <1>5, <2>2, <2>3, <3>1, HomingLeft
    <2>4. CASE UNCHANGED <<conn, agent, queue>>
      <3>1. TablesMade'
        BY <1>1, <1>4, <2>4, TablesKept
      <3> QED
        BY <1>6, <2>2, <2>4, <3>1
    <2>5. CASE ForgetAdapter(call.thread, agent)
      BY <1>2, <2>3, <2>5 DEF ForgetAdapter
    <2>6. CASE DropAdapter(call.thread)
      <3>1. PICK a \in Agents : /\ Leaves(Release(conn, {call.thread}), a)
                                /\ a.turns \subseteq agent.turns
        BY <1>1, <2>1, <2>6, Dropped
      <3> QED
        BY <2>3, <3>1
    <2> QED
      BY <1>12, <2>4, <2>5, <2>6 DEF InitializeFailed, NewSessionFailed, ResumeUnsupported
  <1> QED
    BY <1>7, <1>10, <1>11, <1>12

\* What was held back goes out, or is dropped, or nothing was held back.
LEMMA HomingNext ==
    ASSUME Base, Answering, Homing, NEW t \in Threads, NEW a \in Agents, NEW k \in {0, 1},
           a.turns \subseteq agent.turns, NextPrompt(t, a),
           UNCHANGED <<made, stored>>, CallForMade',
           \A i \in DOMAIN batch' : i + k \in DOMAIN batch /\ batch'[i] = batch[i + k]
    PROVE  Homing'
  <1>1. Types /\ StoredMade /\ TablesMade /\ conn \in Conns
    BY DEF Base, Homing, SessionsMade, Types
  <1>2. StillMade /\ StoredMade'
    BY <1>1 DEF StillMade, StoredMade, MadeFor
  <1>3. CASE agent' = a /\ UNCHANGED <<conn, queue>>
    <2>1. SessionsMade'
      BY <1>1, <1>2, <1>3, TablesKept DEF SessionsMade
    <2>2. \A i \in ResultsOf(queue') : i + 0 \in ResultsOf(queue) /\ queue'[i] = queue[i + 0]
      BY <1>1, <1>3, Unread
    <2>3. \A r \in Requests : conn'.owners[r] # Nobody => conn'.owners[r] = conn.owners[r]
      BY <1>3
    <2> QED
      BY <1>1, <1>2, <1>3, <2>1, <2>2, <2>3, HomingKept
  <1>4. CASE waiting[t] /\ HasAdapter(t) /\ Sent(t, conn.sessions[t], a)
    <2>1. conn.sessions[t] # 0 /\ conn.sessions[t] \in 0..MaxSessions
      BY <1>1, <1>4 DEF HasAdapter, Conns
    <2>2. MadeFor(conn.sessions[t], t)
      BY <1>1, <2>1 DEF TablesMade
    <2>3. conn.sessions[t] \in Sessions /\ count.prompts < MaxPrompts
      BY <1>4, <2>1, RoomForIt, PoolAssumption DEF Sessions
    <2> QED
      BY <1>1, <1>2, <1>4, <2>2, <2>3, HomingSent
  <1>5. CASE ForgetAdapter(t, a)
    BY <1>1, <1>5, HomingLeft DEF ForgetAdapter
  <1> QED
    BY <1>3, <1>4, <1>5 DEF NextPrompt, HeldBackGoes

\* The batch, when it is not touched.
LEMMA Untouched ==
    ASSUME Types, UNCHANGED batch
    PROVE  \A i \in DOMAIN batch' : i + 0 \in DOMAIN batch /\ batch'[i] = batch[i + 0]
  <1>1. queue \in Seq(Read) /\ batch \in Seq([to : Threads, event : Read, by : {"pump", "settle"}])
    BY DEF Types
  <1>2. \A i \in DOMAIN batch : i \in Int
    BY <1>1, Inside
  <1>3. \A i \in DOMAIN batch : i + 0 = i
    BY <1>2
  <1> QED
    BY <1>3

\* Whose sessions are whose, when a prompt is sent or held back, and when a
\* thread leaves.
LEMMA HomingPrompt ==
    ASSUME Base, Riding, Answering, Homing,
           \/ \E t \in Threads : \/ PromptOnSession(t) \/ PromptHeldBack(t) \/ Leave(t)
                                \/ Decide(t) \/ DrainStranded(t)
           \/ SendPrompt \/ Panic \/ Reap
    PROVE  Homing'
  <1>1. Types /\ CallMade /\ StoredMade /\ TablesMade /\ CallForMade
    BY DEF Base, Homing, SessionsMade
  <1>2. /\ conn \in Conns /\ agent \in Agents /\ call \in Calls
        /\ stored \in [Threads -> 0..MaxSessions]
    BY <1>1 DEF Types
  <1>3. UNCHANGED <<made, batch>> /\ StillMade
    BY DEF PromptOnSession, PromptHeldBack, Leave, Decide, DrainStranded, SendPrompt, Panic, Reap,
           StillMade
  <1>4. \A i \in DOMAIN batch' : i + 0 \in DOMAIN batch /\ batch'[i] = batch[i + 0]
    BY <1>1, <1>3, Untouched
  <1>5. stored' = stored => StoredMade'
    BY <1>1, <1>3 DEF StoredMade, MadeFor
  <1>6. call' = call \/ call' = NoCall => CallForMade'
    BY <1>1, <1>3 DEF CallForMade, MadeFor, NoCall
  <1>7. ASSUME UNCHANGED <<stored, conn, queue>>, agent'.turns = agent.turns, CallForMade'
        PROVE  Homing'
    <2>1. SessionsMade'
      BY <1>1, <1>3, <1>5, <1>7, TablesKept DEF SessionsMade
    <2>2. \A i \in ResultsOf(queue') : i + 0 \in ResultsOf(queue) /\ queue'[i] = queue[i + 0]
      BY <1>1, <1>7, Unread
    <2>3. /\ \A r \in Requests : conn'.owners[r] # Nobody => conn'.owners[r] = conn.owners[r]
          /\ agent'.turns \subseteq agent.turns
      BY <1>7
    <2> QED
      BY <1>1, <1>3, <1>4, <2>1, <2>2, <2>3, HomingKept
  <1>8. ASSUME NEW t \in Threads, PromptOnSession(t) PROVE Homing'
    <2>1. /\ call'.thread = t /\ call'.session = conn.sessions[t] /\ conn.sessions[t] # 0
          /\ UNCHANGED <<stored, conn, queue, agent>>
      BY <1>8 DEF PromptOnSession, NoCall, HasAdapter, disk
    <2>2. CallForMade'
      BY <1>1, <1>3, <2>1 DEF TablesMade, CallForMade, MadeFor
    <2> QED
      BY <1>7, <2>1, <2>2
  <1>9. ASSUME NEW t \in Threads, PromptHeldBack(t) PROVE Homing'
    BY <1>6, <1>7, <1>9 DEF PromptHeldBack, disk
  <1>10. ASSUME NEW t \in Threads, Decide(t) PROVE Homing'
    <2>1. PICK x \in held[t] : agent' = Answered(agent, {x})
      BY <1>10 DEF Decide
    <2>2. agent'.turns = agent.turns
      BY <1>2, <2>1, Unblocked
    <2> QED
      BY <1>6, <1>7, <1>10, <2>2 DEF Decide, disk
  <1>11. CASE Panic
    BY <1>6, <1>7, <1>11 DEF Panic, disk
  <1>12. ASSUME NEW t \in Threads, Leave(t) PROVE Homing'
    <2>1. PICK a \in Agents : Leaves(Release(conn, {t}), a) /\ a.turns \subseteq agent.turns
      BY <1>1, <1>12, Dropped DEF Leave
    <2>2. CallForMade' /\ UNCHANGED stored
      BY <1>6, <1>12 DEF Leave
    <2>3. {t} \in SUBSET Threads
      OBVIOUS
    <2> QED
      BY <1>1, <1>3, <1>4, <2>1, <2>2, <2>3, HomingLeft
  <1>13. CASE Reap
    <2>1. /\ Leaves(Release(conn, Tenants(conn)), agent) /\ Tenants(conn) \in SUBSET Threads
          /\ UNCHANGED <<stored, call>>
      BY <1>13 DEF Reap, Gone, Tenants
    <2>2. CallForMade'
      BY <1>6, <2>1
    <2> QED
      BY <1>1, <1>2, <1>3, <1>4, <2>1, <2>2, HomingLeft
  <1>14. CASE SendPrompt
    <2>1. /\ call.at = "send" /\ phase = "idle" /\ call' = NoCall
          /\ stored' = [stored EXCEPT ![call.thread] = call.session]
      BY <1>14 DEF SendPrompt, CallIs
    <2>2. /\ call.thread \in Threads /\ call.session \in Sessions /\ count.prompts < MaxPrompts
          /\ MadeFor(call.session, call.thread)
      BY <1>1, <2>1, RoomForIt DEF CallMade, CallForMade
    <2>3. StoredMade'
      <3>1. \A t \in Threads : stored'[t] = IF t = call.thread THEN call.session ELSE stored[t]
        BY <1>2, <2>1, <2>2
      <3> QED
        BY <1>1, <1>3, <2>2, <3>1 DEF StoredMade, MadeFor
    <2>4. CallForMade'
      BY <1>6, <2>1
    <2>5. CASE Sent(call.thread, call.session, agent)
      BY <1>1, <1>2, <1>3, <1>4, <2>2, <2>3, <2>4, <2>5, HomingSent
    <2>6. CASE ForgetAdapter(call.thread, agent)
      <3> DEFINE ts == {call.thread}
      <3>1. ts \in SUBSET Threads /\ Leaves(Release(conn, ts), agent)
        BY <2>2, <2>6 DEF ForgetAdapter
      <3> HIDE DEF ts
      <3>2. /\ conn'.up => agent' = agent /\ queue' = queue
            /\ ~conn'.up => agent' = NoAgent /\ queue' = <<>>
            /\ \A t \in Threads : conn'.sessions[t] \in {0, conn.sessions[t]}
            /\ \A s \in Sessions : conn'.bySession[s] \in {Nobody, conn.bySession[s]}
            /\ \A r \in Requests : conn'.owners[r] # Nobody => conn'.owners[r] = conn.owners[r]
        <4>1. queue \in Seq(Read)
          BY <1>1 DEF Types
        <4> QED
          BY <1>2, <3>1, <4>1, Left
      <3>3. SessionsMade'
        BY <1>1, <1>3, <2>3, <2>4, <3>2, TablesKept DEF SessionsMade
      <3>4. agent'.turns \subseteq agent.turns
        <4>1. NoAgent.turns = {}
          BY DEF NoAgent
        <4> QED
          BY <3>2, <4>1
      <3>5. \A i \in ResultsOf(queue') : i + 0 \in ResultsOf(queue) /\ queue'[i] = queue[i + 0]
        <4>1. ResultsOf(<<>>) = {}
          BY DEF ResultsOf
        <4> QED
          BY <1>1, <3>2, <4>1, Unread
      <3> QED
        BY <1>1, <1>3, <1>4, <3>2, <3>3, <3>4, <3>5, HomingKept
    <2> QED
      BY <1>14, <2>5, <2>6 DEF SendPrompt
  <1>15. ASSUME NEW t \in Threads, DrainStranded(t) PROVE Homing'
    <2>1. NextPrompt(t, agent) /\ UNCHANGED <<stored, call>>
      BY <1>15 DEF DrainStranded, NextPrompt
    <2> QED
      BY <1>2, <1>3, <1>4, <1>6, <2>1, HomingNext
  <1> QED
    BY <1>8, <1>9, <1>10, <1>11, <1>12, <1>13, <1>14, <1>15

\* An event is handed out to the owners of its session, or of its prompt.
LEMMA HomingHanded ==
    ASSUME Types, Homing, queue # <<>>, queue' = Tail(queue), conn' = Spent(conn, Head(queue)),
           UNCHANGED <<stored, call, made>>, agent'.turns \subseteq agent.turns,
           \/ batch' = batch
           \/ \E S \in SUBSET Threads : batch' = Joined(S, Head(queue), "settle")
           \/ batch' = Joined(Route(conn, Head(queue)), Head(queue), "pump")
    PROVE  Homing'
  <1> DEFINE e == Head(queue)
             o == Route(conn, e)
  <1>1. conn \in Conns
    BY DEF Types
  <1>2. /\ e \in Read /\ e = queue[1] /\ 1 \in DOMAIN queue
        /\ \A i \in ResultsOf(queue') : i + 1 \in ResultsOf(queue) /\ queue'[i] = queue[i + 1]
    BY Drawn
  <1>3. /\ conn'.sessions = conn.sessions /\ conn'.bySession = conn.bySession
        /\ o \in SUBSET Threads
        /\ e.type = "result" => o = {conn.owners[e.id]} \ {Nobody}
        /\ e.type # "closed" /\ e.named => o = {conn.bySession[e.session]} \ {Nobody}
        /\ \A r \in Requests : conn'.owners[r] # Nobody => conn'.owners[r] = conn.owners[r]
    BY <1>1, <1>2, Routed1
  <1>4. StillMade
    BY DEF StillMade
  <1>5. SessionsMade'
    <2>1. TablesMade'
      BY <1>3, <1>4, TablesKept DEF Homing, SessionsMade
    <2>2. StoredMade' /\ CallForMade'
      BY DEF Homing, SessionsMade, StoredMade, CallForMade, MadeFor
    <2> QED
      BY <2>1, <2>2 DEF SessionsMade
  <1>6. OwnedTurns'
    <2>1. \A i \in ResultsOf(queue) : queue[i].id \in Requests
      BY Inside DEF Types
    <2>2. \A x \in agent.turns : x.id \in Requests
      BY DEF Types, Agents
    <2>3. ASSUME NEW x \in agent'.turns, conn'.owners[x.id] # Nobody
          PROVE  x.session \in DOMAIN made /\ made[x.session] = conn'.owners[x.id]
      <3>1. conn'.owners[x.id] = conn.owners[x.id] /\ x \in agent.turns
        BY <1>3, <2>2, <2>3
      <3> QED
        BY <2>3, <3>1 DEF Homing, OwnedTurns, MadeFor
    <2>4. ASSUME NEW i \in ResultsOf(queue'), conn'.owners[queue'[i].id] # Nobody
          PROVE  /\ queue'[i].session \in DOMAIN made
                 /\ made[queue'[i].session] = conn'.owners[queue'[i].id]
      <3>1. PICK n \in ResultsOf(queue) : queue'[i] = queue[n]
        BY <1>2
      <3>2. conn'.owners[queue[n].id] = conn.owners[queue[n].id]
        BY <1>3, <2>1, <2>4, <3>1
      <3> QED
        BY <2>4, <3>1, <3>2 DEF Homing, OwnedTurns, MadeFor
    <2> QED
      BY <2>3, <2>4 DEF OwnedTurns, MadeFor
  <1> HIDE DEF e, o
  <1>7. \A t \in o : e.named \/ e.type = "result" => MadeFor(e.session, t)
    <2>1. CASE e.type = "result"
      <3>1. 1 \in ResultsOf(queue)
        BY <1>2, <2>1 DEF ResultsOf
      <3> QED
        BY <1>2, <1>3, <2>1, <3>1 DEF Homing, OwnedTurns
    <2>2. CASE e.named
      <3>1. e.type # "closed" /\ e.session \in Sessions
        BY <1>2, <2>2 DEF Read
      <3> QED
        BY <1>3, <2>2, <3>1 DEF Homing, SessionsMade, TablesMade
    <2> QED
      BY <2>1, <2>2
  <1>8. HandedHome'
    <2>1. ASSUME NEW S \in SUBSET Threads, NEW how \in {"pump", "settle"},
                 batch' = Joined(S, e, how)
          PROVE  \A i \in DOMAIN batch' :
                    \/ i \in DOMAIN batch /\ batch'[i] = batch[i]
                    \/ batch'[i].event = e /\ batch'[i].to \in S /\ batch'[i].by = how
      <3>1. Longer(batch', S, e, how)
        BY <1>2, <2>1, BatchGrows
      <3>2. \A i \in DOMAIN batch : batch'[i] = batch[i]
        BY <3>1 DEF Longer
      <3>3. \A i \in DOMAIN batch' \ DOMAIN batch : batch'[i] \in [to : S, event : {e}, by : {how}]
        BY <3>1 DEF Longer
      <3>4. \A i \in DOMAIN batch' \ DOMAIN batch :
               batch'[i].event = e /\ batch'[i].to \in S /\ batch'[i].by = how
        BY <3>3
      <3> QED
        BY <3>2, <3>4
    <2>2. \A i \in DOMAIN batch' :
             \/ i \in DOMAIN batch /\ batch'[i] = batch[i]
             \/ batch'[i].event = e /\ (batch'[i].to \in o \/ batch'[i].by # "pump")
      <3>1. CASE batch' = batch
        BY <3>1
      <3>2. ASSUME NEW S \in SUBSET Threads, batch' = Joined(S, e, "settle")
            PROVE  \A i \in DOMAIN batch' :
                      \/ i \in DOMAIN batch /\ batch'[i] = batch[i]
                      \/ batch'[i].event = e /\ batch'[i].by # "pump"
        BY <2>1, <3>2
      <3>3. CASE batch' = Joined(o, e, "pump")
        BY <1>3, <2>1, <3>3
      <3> QED
        BY <3>1, <3>2, <3>3 DEF e, o
    <2>3. ASSUME NEW i \in DOMAIN batch', batch'[i].by = "pump",
                 batch'[i].event.named \/ batch'[i].event.type = "result"
          PROVE  /\ batch'[i].event.session \in DOMAIN made
                 /\ made[batch'[i].event.session] = batch'[i].to
      <3>1. CASE i \in DOMAIN batch /\ batch'[i] = batch[i]
        BY <2>3, <3>1 DEF Homing, HandedHome, MadeFor
      <3>2. CASE batch'[i].event = e /\ batch'[i].to \in o
        BY <1>7, <2>3, <3>2 DEF MadeFor
      <3> QED
        BY <2>2, <2>3, <3>1, <3>2
    <2> QED
      BY <2>3 DEF HandedHome, MadeFor
  <1> QED
    BY <1>5, <1>6, <1>8 DEF Homing

\* Whose sessions are whose, when the queue is drained and what was drained is
\* handled.
LEMMA HomingPump ==
    ASSUME Base, Riding, Answering, Homing,
           \/ StartPump \/ Drain \/ Settle \/ Drained
           \/ HandleUpdate \/ HandleEnded \/ HandleAsk \/ HandleResult \/ HandleClosed \/ Handled
    PROVE  Homing'
  <1>1. Types /\ CallMade /\ StoredMade /\ TablesMade /\ CallForMade
    BY DEF Base, Homing, SessionsMade
  <1>2. /\ conn \in Conns /\ agent \in Agents /\ call \in Calls /\ queue \in Seq(Read)
    BY <1>1 DEF Types
  <1>3. UNCHANGED <<stored, call, made>> /\ StillMade /\ StoredMade' /\ CallForMade'
    <2>1. UNCHANGED <<stored, call, made>>
      BY DEF StartPump, Drain, Settle, Drained, HandleUpdate, HandleEnded, HandleAsk, HandleResult,
             HandleClosed, Handled, Handle, disk
    <2> QED
      BY <1>1, <2>1 DEF StillMade, StoredMade, CallForMade, MadeFor
  <1>4. ASSUME UNCHANGED <<conn, queue>>, agent'.turns \subseteq agent.turns, NEW k \in {0, 1},
               \A i \in DOMAIN batch' : i + k \in DOMAIN batch /\ batch'[i] = batch[i + k]
        PROVE  Homing'
    <2>1. SessionsMade'
      BY <1>1, <1>3, <1>4, TablesKept DEF SessionsMade
    <2>2. \A i \in ResultsOf(queue') : i + 0 \in ResultsOf(queue) /\ queue'[i] = queue[i + 0]
      BY <1>1, <1>4, Unread
    <2>3. \A r \in Requests : conn'.owners[r] # Nobody => conn'.owners[r] = conn.owners[r]
      BY <1>4
    <2> QED
      BY <1>1, <1>3, <1>4, <2>1, <2>2, <2>3, HomingKept
  <1>5. CASE StartPump \/ Drained \/ Handled
    <2>1. UNCHANGED <<conn, queue, batch, agent>>
      BY <1>5 DEF StartPump, Drained, Handled
    <2>2. \A i \in DOMAIN batch' : i + 0 \in DOMAIN batch /\ batch'[i] = batch[i + 0]
      BY <1>1, <2>1, Untouched
    <2> QED
      BY <1>4, <2>1, <2>2
  <1>6. CASE Drain
    <2>1. agent'.turns = agent.turns
      BY <1>2, <1>6, Unblocked DEF Drain, Unowned
    <2>2. batch' = Joined(Route(conn, Head(queue)), Head(queue), "pump")
      BY <1>6 DEF Drain, Joined
    <2>3. queue # <<>> /\ queue' = Tail(queue) /\ conn' = Spent(conn, Head(queue))
      BY <1>6 DEF Drain
    <2> QED
      BY <1>1, <1>3, <2>1, <2>2, <2>3, HomingHanded
  <1>7. CASE Settle
    <2>1. /\ queue # <<>> /\ queue' = Tail(queue) /\ conn' = Spent(conn, Head(queue))
          /\ agent' = agent /\ call.thread \in Threads
      BY <1>1, <1>7 DEF Settle, CallMade
    <2>2. Route(conn, Head(queue)) \in SUBSET Threads
      BY <1>1, <1>2, <2>1, Drawn, Routed1
    <2>3. \/ batch' = batch
          \/ \E S \in SUBSET Threads : batch' = Joined(S, Head(queue), "settle")
      BY <1>7, <2>1, <2>2 DEF Settle, Joined
    <2> QED
      BY <1>1, <1>3, <2>1, <2>3, HomingHanded
  <1>8. ASSUME NEW types, Handle(types)
        PROVE  \A i \in DOMAIN batch' : i + 1 \in DOMAIN batch /\ batch'[i] = batch[i + 1]
    BY <1>1, <1>8, Taken
  <1>9. CASE HandleUpdate \/ HandleEnded \/ HandleAsk
    <2>1. PICK types : Handle(types)
      BY <1>9 DEF HandleUpdate, HandleEnded, HandleAsk
    <2>2. UNCHANGED <<conn, queue, agent>>
      BY <1>9 DEF HandleUpdate, HandleEnded, HandleAsk
    <2> QED
      BY <1>4, <1>8, <2>1, <2>2
  <1>10. CASE HandleResult
    <2> DEFINE t == Head(batch).to
               a == Answered(agent, held[t])
    <2>1. Handle({"result"}) /\ NextPrompt(t, a)
      BY <1>10 DEF HandleResult
    <2>2. /\ t \in Threads
          /\ \A i \in DOMAIN batch' : i + 1 \in DOMAIN batch /\ batch'[i] = batch[i + 1]
      BY <1>1, <2>1, Taken
    <2>3. a \in Agents /\ a.turns \subseteq agent.turns
      BY <1>2, Unblocked
    <2> HIDE DEF t, a
    <2> QED
      BY <1>1, <1>3, <2>1, <2>2, <2>3, HomingNext
  <1>11. CASE HandleClosed
    <2>1. Handle({"closed"}) /\ Gone({Head(batch).to})
      BY <1>11 DEF HandleClosed
    <2>2. {Head(batch).to} \in SUBSET Threads
      BY <1>1, <2>1, Taken
    <2>3. Leaves(Release(conn, {Head(batch).to}), agent)
      BY <2>1 DEF Gone
    <2> QED
      BY <1>1, <1>2, <1>3, <1>8, <2>1, <2>2, <2>3, HomingLeft
  <1> QED
    BY <1>5, <1>6, <1>7, <1>9, <1>10, <1>11

\* Whose sessions are whose, when the agent moves.
LEMMA HomingAgent ==
    ASSUME Base, Homing, AgentMoves
    PROVE  Homing'
  <1>1. Types /\ CallMade /\ StoredMade /\ TablesMade /\ CallForMade
    BY DEF Base, Homing, SessionsMade
  <1>2. /\ agent \in Agents /\ call \in Calls /\ queue \in Seq(Read)
        /\ made \in Seq(Threads) /\ Len(made) \in Nat
    BY <1>1, LenProperties DEF Types
  <1>3. UNCHANGED <<stored, conn, batch>>
    BY DEF AgentMoves, Speak, Ask, Finish, ReplyInitialize, ReplyResume, ReplyLoad, ReplyNew,
           Die, PipeCloses, AgentOnly, disk
  <1>4. ReplyNew => /\ call.thread \in Threads /\ call.at = "new"
                    /\ made' = Append(made, call.thread)
    BY <1>1 DEF ReplyNew, Asked, CallMade
  <1>5. made' = made \/ ReplyNew
    BY DEF AgentMoves, Speak, Ask, Finish, ReplyInitialize, ReplyResume, ReplyLoad, ReplyNew,
           Die, PipeCloses
  <1>6. StillMade
    <2>1. CASE made' = made
      BY <2>1 DEF StillMade
    <2>2. CASE ReplyNew
      BY <1>2, <1>4, <2>2, AppendOf DEF StillMade
    <2> QED
      BY <1>5, <2>1, <2>2
  <1>7. CallForMade'
    <2>1. CASE ReplyNew
      <3>1. /\ made' = Append(made, call.thread) /\ Len(made') = Len(made) + 1
            /\ Len(made) + 1 \in DOMAIN made' /\ made'[Len(made) + 1] = call.thread
        BY <1>2, <1>4, <2>1, AppendOf, AppendProperties
      <3>2. call'.session = Len(made') /\ call'.thread = call.thread
        <4>1. PICK reply \in {"yes", "no"} :
                 call' = [call EXCEPT !.reply = reply, !.session = Len(made')]
          BY <2>1 DEF ReplyNew
        <4> QED
          BY <1>2, <4>1 DEF Calls
      <3> QED
        BY <3>1, <3>2 DEF CallForMade, MadeFor
    <2>2. CASE ~ReplyNew
      <3>1. /\ call'.at = call.at /\ call'.thread = call.thread /\ call'.session = call.session
            /\ call.at = "new" => call'.reply = call.reply
        BY <1>2, <2>2 DEF AgentMoves, Speak, Ask, Finish, ReplyInitialize, ReplyResume, ReplyLoad,
                          Die, PipeCloses, Asked, Replies, Calls
      <3> QED
        BY <1>1, <1>5, <2>2, <3>1 DEF CallForMade, MadeFor
    <2> QED
      BY <2>1, <2>2
  <1>8. SessionsMade'
    <2>1. StoredMade'
      BY <1>1, <1>3, <1>6 DEF StoredMade, MadeFor, StillMade
    <2>2. TablesMade'
      BY <1>1, <1>3, <1>6, TablesKept
    <2> QED
      BY <1>7, <2>1, <2>2 DEF SessionsMade
  <1>9. agent'.turns \subseteq agent.turns
    BY <1>2 DEF AgentMoves, Speak, Ask, Finish, ReplyInitialize, ReplyResume, ReplyLoad, ReplyNew,
                Die, PipeCloses, Serves, Agents
  <1>10. \A i \in DOMAIN batch' : i + 0 \in DOMAIN batch /\ batch'[i] = batch[i + 0]
    BY <1>1, <1>3, Untouched
  <1>11. \A r \in Requests : conn'.owners[r] # Nobody => conn'.owners[r] = conn.owners[r]
    BY <1>3
  <1>12. CASE ~ \E x \in agent.turns : Finish(x)
    <2>1. \A i \in ResultsOf(queue') : i \in ResultsOf(queue) /\ queue'[i] = queue[i]
      <3>1. CASE queue' = queue
        BY <3>1
      <3>2. CASE queue' # queue
        <4>1. PICK e \in Read : Says(e) /\ e.type # "result"
          BY <1>1, <1>12, <3>2, Spoken
        <4>2. \A i \in DOMAIN queue' : (i \in DOMAIN queue /\ queue'[i] = queue[i]) \/ queue'[i] = e
          BY <1>2, <4>1, AppendOf DEF Says
        <4> QED
          BY <4>1, <4>2 DEF ResultsOf
      <3> QED
        BY <3>1, <3>2
    <2>2. \A i \in ResultsOf(queue') : i + 0 \in ResultsOf(queue) /\ queue'[i] = queue[i + 0]
      BY <1>1, <2>1, Unread
    <2> QED
      BY <1>1, <1>6, <1>8, <1>9, <1>10, <1>11, <2>2, HomingKept
  <1>13. ASSUME NEW x \in agent.turns, Finish(x) PROVE Homing'
    <2> DEFINE e == Event("result", x.session, x.id, FALSE)
    <2>1. x.id \in Requests /\ x.session \in Sessions
      BY <1>2 DEF Agents
    <2>2. e \in Read /\ e.id = x.id /\ e.session = x.session
      BY <2>1, Written DEF Event
    <2>3. queue' = Append(queue, e) /\ made' = made
      BY <1>13 DEF Finish, Says
    <2> HIDE DEF e
    <2>4. \A i \in ResultsOf(queue') :
             (i \in ResultsOf(queue) /\ queue'[i] = queue[i]) \/ queue'[i] = e
      BY <1>2, <2>2, <2>3, AppendOf DEF ResultsOf
    <2>5. OwnedTurns'
      <3>1. \A y \in agent'.turns :
               conn.owners[y.id] # Nobody => MadeFor(y.session, conn.owners[y.id])
        BY <1>9 DEF Homing, OwnedTurns
      <3>2. \A i \in ResultsOf(queue') : conn.owners[queue'[i].id] # Nobody =>
               MadeFor(queue'[i].session, conn.owners[queue'[i].id])
        BY <2>2, <2>4 DEF Homing, OwnedTurns
      <3> QED
        BY <1>3, <2>3, <3>1, <3>2 DEF OwnedTurns, MadeFor
    <2>6. HandedHome'
      BY <1>3, <2>3 DEF Homing, HandedHome, MadeFor
    <2> QED
      BY <1>8, <2>5, <2>6 DEF Homing
  <1> QED
    BY <1>12, <1>13

\* The fourth layer, in each step and in none.
LEMMA HomingStep ==
    ASSUME Base, Riding, Answering, Homing, [Next]_vars
    PROVE  Homing'
  <1>1. CASE AgentMoves
    BY <1>1, HomingAgent
  <1>2. CASE HostMoves
    BY <1>2, HomingAttach, HomingPrompt, HomingPump DEF HostMoves
  <1>3. CASE UserMoves
    BY <1>3, HomingAttach, HomingPrompt DEF UserMoves
  <1>4. CASE UNCHANGED vars
    BY <1>4 DEF vars, Homing, SessionsMade, StoredMade, TablesMade, CallForMade, OwnedTurns,
                HandedHome, MadeFor, ResultsOf
  <1> QED
    BY <1>1, <1>2, <1>3, <1>4 DEF Next

-----------------------------------------------------------------------------
(* A blocking extension request is kept.                                   *)

\* An event of the queue stays there, is handed out, or is answered.
QueueKeeps ==
    \A i \in DOMAIN queue : queue[i].type = "extension" =>
        \/ \E j \in DOMAIN queue' : queue'[j] = queue[i]
        \/ \E j \in DOMAIN batch' : batch'[j].event = queue[i]
        \/ \A b \in agent'.blocked : b.id # queue[i].id
\* One of the batch stays there, or is put in front of a user.
BatchKeeps ==
    \A i \in DOMAIN batch : batch[i].event.type = "extension" =>
        \/ \E j \in DOMAIN batch' : batch'[j] = batch[i]
        \/ \E t \in Threads : batch[i].event.id \in held'[t]
\* One that a user has stays there, or is answered.
UserKeeps ==
    \A t \in Threads, b \in agent'.blocked : b.id \in held[t] => b.id \in held'[t]

\* What keeps the old requests keeps the property, if there is no new one.
LEMMA RequestsKept ==
    ASSUME ExtensionIsHeld,
           up' /\ agent'.alive =>
               /\ up /\ agent.alive /\ agent'.blocked \subseteq agent.blocked
               /\ QueueKeeps /\ BatchKeeps /\ UserKeeps
    PROVE  ExtensionIsHeld'
  <1>1. ASSUME up', agent'.alive, NEW b \in agent'.blocked, b.type = "extension"
        PROVE  \/ \E i \in DOMAIN queue' : queue'[i].id = b.id /\ queue'[i].type = b.type
               \/ \E i \in DOMAIN batch' : batch'[i].event.id = b.id /\ batch'[i].event.type = b.type
               \/ \E t \in Threads : b.id \in held'[t]
    <2>1. /\ up /\ agent.alive /\ b \in agent.blocked
          /\ QueueKeeps /\ BatchKeeps /\ UserKeeps
      BY <1>1
    <2>2. CASE \E i \in DOMAIN queue : queue[i].id = b.id /\ queue[i].type = b.type
      BY <1>1, <2>1, <2>2 DEF QueueKeeps
    <2>3. CASE \E i \in DOMAIN batch : batch[i].event.id = b.id /\ batch[i].event.type = b.type
      BY <1>1, <2>1, <2>3 DEF BatchKeeps
    <2>4. CASE \E t \in Threads : b.id \in held[t]
      BY <1>1, <2>1, <2>4 DEF UserKeeps
    <2> QED
      BY <1>1, <2>1, <2>2, <2>3, <2>4 DEF ExtensionIsHeld
  <1> QED
    BY <1>1 DEF ExtensionIsHeld

\* Threads leave, whose asks are answered or whose process is dead.
LEMMA RequestsLeft ==
    ASSUME Types, ExtensionIsHeld, NEW ts \in SUBSET Threads, NEW a \in Agents,
           Leaves(Release(conn, ts), a), UNCHANGED up,
           a.alive => /\ agent.alive /\ a.blocked \subseteq agent.blocked /\ BatchKeeps
                      /\ \A t \in Threads, b \in a.blocked : b.id \in held[t] => b.id \in held'[t]
    PROVE  ExtensionIsHeld'
  <1>1. conn \in Conns /\ queue \in Seq(Read)
    BY DEF Types
  <1>2. /\ conn'.up => agent' = a /\ queue' = queue
        /\ ~conn'.up => agent' = NoAgent
    BY <1>1, Left
  <1>3. ~NoAgent.alive
    BY DEF NoAgent
  <1>4. agent'.alive => agent' = a /\ queue' = queue
    BY <1>2, <1>3
  <1>5. agent'.alive => QueueKeeps /\ UserKeeps
    BY <1>4 DEF QueueKeeps, UserKeeps
  <1> QED
    BY <1>4, <1>5, RequestsKept

\* The requests, when the host attaches a thread.
LEMMA RequestsAttach ==
    ASSUME Base, ExtensionIsHeld,
           \/ \E t \in Threads : Attach(t)
           \/ Initialized \/ InitializeFailed \/ Resumed \/ ResumeFailed
           \/ Loaded \/ LoadFailed \/ Settled \/ ResumeUnsupported
           \/ NewSession \/ NewSessionFailed
    PROVE  ExtensionIsHeld'
  <1>1. Types /\ CallMade /\ agent \in Agents
    BY DEF Base, Types
  <1>2. UNCHANGED <<up, batch, held>> /\ BatchKeeps
    BY DEF Attach, Initialized, InitializeFailed, Resumed, ResumeFailed, Loaded, LoadFailed, Settled,
           ResumeUnsupported, NewSession, NewSessionFailed, BatchKeeps
  <1>3. CASE UNCHANGED <<agent, queue>>
    <2>1. QueueKeeps /\ UserKeeps
      BY <1>2, <1>3 DEF QueueKeeps, UserKeeps
    <2> QED
      BY <1>2, <1>3, <2>1, RequestsKept
  <1>4. ASSUME NEW t \in Threads, Attach(t), ~UNCHANGED <<agent, queue>> PROVE ExtensionIsHeld'
    <2>1. PICK able \in Abilities :
             agent' = [NoAgent EXCEPT !.alive = TRUE, !.eof = FALSE, !.able = able]
      BY <1>4 DEF Attach, EnsureConnection
    <2>2. agent'.blocked = {}
      BY <2>1 DEF NoAgent
    <2> QED
      BY <2>2 DEF ExtensionIsHeld
  <1>5. ASSUME NEW a \in Agents, a.alive = agent.alive, a.blocked \subseteq agent.blocked,
               call.thread \in Threads, Leaves(Release(conn, {call.thread}), a)
        PROVE  ExtensionIsHeld'
    <2>1. {call.thread} \in SUBSET Threads
      BY <1>5
    <2> QED
      BY <1>1, <1>2, <1>5, <2>1, RequestsLeft
  <1>6. CASE InitializeFailed \/ NewSessionFailed \/ ResumeUnsupported
    <2>1. call.thread \in Threads
      BY <1>1, <1>6 DEF InitializeFailed, NewSessionFailed, ResumeUnsupported, CallIs, CallMade
    <2>2. CASE ForgetAdapter(call.thread, agent)
      BY <1>1, <1>5, <2>1, <2>2 DEF ForgetAdapter
    <2>3. CASE DropAdapter(call.thread)
      <3>1. PICK a \in Agents :
               /\ Leaves(Release(conn, {call.thread}), a) /\ a.alive = agent.alive
               /\ a.blocked \subseteq {b \in agent.blocked : b.id \notin held[call.thread]}
        BY <1>1, <2>1, <2>3, Dropped
      <3> QED
        BY <1>5, <2>1, <3>1
    <2> QED
      BY <1>3, <1>6, <2>2, <2>3 DEF InitializeFailed, NewSessionFailed, ResumeUnsupported
  <1>7. CASE Initialized \/ Resumed \/ ResumeFailed \/ Loaded \/ LoadFailed \/ Settled \/ NewSession
    BY <1>3, <1>7 DEF Initialized, Resumed, ResumeFailed, Loaded, LoadFailed, Settled, NewSession
  <1> QED
    BY <1>3, <1>4, <1>6, <1>7

\* The prompt held back goes out, or is dropped with the adapter, and those whose
\* asks are forgotten have been answered.
LEMMA RequestsNext ==
    ASSUME Base, ExtensionIsHeld, NEW t \in Threads, NEW a \in Agents,
           a.alive = agent.alive, a.blocked \subseteq agent.blocked, NextPrompt(t, a),
           UNCHANGED up, BatchKeeps,
           \A u \in Threads, b \in a.blocked : b.id \in held[u] => b.id \in held'[u]
    PROVE  ExtensionIsHeld'
  <1>1. Types /\ conn \in Conns
    BY DEF Base, Types
  <1>2. ASSUME agent'.alive = a.alive, agent'.blocked = a.blocked, queue' = queue
        PROVE  ExtensionIsHeld'
    <2>1. QueueKeeps /\ UserKeeps
      BY <1>2 DEF QueueKeeps, UserKeeps
    <2> QED
      BY <1>2, <2>1, RequestsKept
  <1>3. CASE agent' = a /\ UNCHANGED <<conn, queue>>
    BY <1>2, <1>3
  <1>4. CASE waiting[t] /\ HasAdapter(t) /\ Sent(t, conn.sessions[t], a)
    <2>1. conn.sessions[t] # 0 /\ conn.sessions[t] \in 0..MaxSessions
      BY <1>1, <1>4 DEF HasAdapter, Conns
    <2>2. conn.sessions[t] \in Sessions /\ count.prompts < MaxPrompts
      BY <1>4, <2>1, RoomForIt, PoolAssumption DEF Sessions
    <2>3. agent'.alive = a.alive /\ agent'.blocked = a.blocked /\ queue' = queue
      BY <1>1, <1>4, <2>2, SentOut
    <2> QED
      BY <1>2, <2>3
  <1>5. CASE ForgetAdapter(t, a)
    BY <1>1, <1>5, RequestsLeft DEF ForgetAdapter
  <1> QED
    BY <1>3, <1>4, <1>5 DEF NextPrompt, HeldBackGoes

\* The requests, when a prompt is sent or held back, and when a thread leaves.
LEMMA RequestsPrompt ==
    ASSUME Base, Riding, ExtensionIsHeld,
           \/ \E t \in Threads : \/ PromptOnSession(t) \/ PromptHeldBack(t) \/ Leave(t)
                                \/ Decide(t) \/ DrainStranded(t)
           \/ SendPrompt \/ Panic \/ Reap
    PROVE  ExtensionIsHeld'
  <1>1. Types /\ CallMade /\ agent \in Agents /\ held \in [Threads -> SUBSET (1..MaxAsks)]
    BY DEF Base, Types
  <1>2. UNCHANGED batch /\ BatchKeeps
    BY DEF PromptOnSession, PromptHeldBack, Leave, Decide, DrainStranded, SendPrompt, Panic, Reap,
           BatchKeeps
  <1>3. queue' = queue => QueueKeeps
    BY DEF QueueKeeps
  <1>4. ASSUME NEW t \in Threads, PromptOnSession(t) \/ PromptHeldBack(t) PROVE ExtensionIsHeld'
    <2>1. UNCHANGED <<up, agent, queue, batch, held>>
      BY <1>4 DEF PromptOnSession, PromptHeldBack
    <2> QED
      BY <2>1 DEF ExtensionIsHeld
  <1>5. CASE Panic
    BY <1>5 DEF Panic, ExtensionIsHeld
  <1>6. ASSUME NEW t \in Threads, Decide(t) PROVE ExtensionIsHeld'
    <2>1. PICK x \in held[t] : /\ agent' = Answered(agent, {x})
                               /\ held' = [held EXCEPT ![t] = held[t] \ {x}]
      BY <1>6 DEF Decide
    <2>2. agent'.alive = agent.alive /\ agent'.blocked = {b \in agent.blocked : b.id \notin {x}}
      BY <1>1, <2>1, Unblocked
    <2>3. UserKeeps
      BY <1>1, <2>1, <2>2 DEF UserKeeps
    <2>4. up' = up /\ queue' = queue
      BY <1>6 DEF Decide
    <2> QED
      BY <1>2, <1>3, <2>2, <2>3, <2>4, RequestsKept
  <1>7. ASSUME NEW t \in Threads, Leave(t) PROVE ExtensionIsHeld'
    <2>1. PICK a \in Agents :
             /\ Leaves(Release(conn, {t}), a) /\ a.alive = agent.alive
             /\ a.blocked \subseteq {b \in agent.blocked : b.id \notin held[t]}
      BY <1>1, <1>7, Dropped DEF Leave
    <2>2. held' = [held EXCEPT ![t] = {}] /\ up' = up
      BY <1>7 DEF Leave
    <2>3. \A u \in Threads, b \in a.blocked : b.id \in held[u] => b.id \in held'[u]
      BY <1>1, <2>1, <2>2
    <2>4. {t} \in SUBSET Threads
      OBVIOUS
    <2> QED
      BY <1>1, <1>2, <2>1, <2>2, <2>3, <2>4, RequestsLeft
  <1>8. CASE Reap
    <2>1. /\ Leaves(Release(conn, Tenants(conn)), agent) /\ ~agent.alive /\ up' = up
          /\ Tenants(conn) \in SUBSET Threads
      BY <1>8 DEF Reap, Gone, Tenants
    <2> QED
      BY <1>1, <2>1, RequestsLeft
  <1>9. CASE SendPrompt
    <2>1. /\ call.at = "send" /\ UNCHANGED <<up, held>>
      BY <1>9 DEF SendPrompt, CallIs
    <2>2. call.thread \in Threads /\ call.session \in Sessions /\ count.prompts < MaxPrompts
      BY <1>1, <2>1, RoomForIt DEF CallMade
    <2>3. CASE Sent(call.thread, call.session, agent)
      <3>1. queue' = queue /\ agent'.alive = agent.alive /\ agent'.blocked = agent.blocked
        BY <1>1, <2>2, <2>3, SentOut
      <3>2. UserKeeps
        BY <2>1 DEF UserKeeps
      <3> QED
        BY <1>2, <1>3, <2>1, <3>1, <3>2, RequestsKept
    <2>4. CASE ForgetAdapter(call.thread, agent)
      <3>1. {call.thread} \in SUBSET Threads
        BY <2>2
      <3> QED
        BY <1>1, <1>2, <2>1, <2>4, <3>1, RequestsLeft DEF ForgetAdapter
    <2> QED
      BY <1>9, <2>3, <2>4 DEF SendPrompt
  <1>10. ASSUME NEW t \in Threads, DrainStranded(t) PROVE ExtensionIsHeld'
    <2>1. NextPrompt(t, agent) /\ UNCHANGED <<up, held>>
      BY <1>10 DEF DrainStranded, NextPrompt
    <2> QED
      BY <1>1, <1>2, <2>1, RequestsNext
  <1> QED
    BY <1>4, <1>5, <1>6, <1>7, <1>8, <1>9, <1>10

\* The requests, when the queue is drained and what was drained is handled.
LEMMA RequestsPump ==
    ASSUME Base, Riding, ExtensionIsHeld,
           \/ StartPump \/ Drain \/ Settle \/ Drained
           \/ HandleUpdate \/ HandleEnded \/ HandleAsk \/ HandleResult \/ HandleClosed \/ Handled
    PROVE  ExtensionIsHeld'
  <1>1. /\ Types /\ CallMade /\ agent \in Agents /\ conn \in Conns
        /\ held \in [Threads -> SUBSET (1..MaxAsks)]
    BY DEF Base, Types
  <1>2. CASE StartPump \/ Drained \/ Handled
    <2>1. UNCHANGED <<up, agent, queue, batch, held>>
      BY <1>2 DEF StartPump, Drained, Handled
    <2> QED
      BY <2>1 DEF ExtensionIsHeld
  <1>3. ASSUME queue # <<>>, queue' = Tail(queue), UNCHANGED <<up, held>>,
               agent'.alive = agent.alive, agent'.blocked \subseteq agent.blocked,
               \/ batch' = batch /\ Head(queue).type # "extension"
               \/ \E S \in SUBSET Threads, how \in {"pump", "settle"} :
                     /\ batch' = Joined(S, Head(queue), how)
                     /\ Head(queue).type = "extension" /\ S = {} =>
                           \A b \in agent'.blocked : b.id # Head(queue).id
        PROVE  ExtensionIsHeld'
    <2> DEFINE e == Head(queue)
    <2>1. /\ e \in Read /\ e = queue[1]
          /\ \A i \in DOMAIN queue : i # 1 => i - 1 \in DOMAIN queue' /\ queue'[i - 1] = queue[i]
      BY <1>1, <1>3, Drawn
    <2>2. /\ \A i \in DOMAIN batch : i \in DOMAIN batch' /\ batch'[i] = batch[i]
          /\ e.type = "extension" =>
                \/ \E j \in DOMAIN batch' : batch'[j].event = e
                \/ \A b \in agent'.blocked : b.id # e.id
      <3>1. CASE batch' = batch /\ Head(queue).type # "extension"
        BY <3>1
      <3>2. ASSUME NEW S \in SUBSET Threads, NEW how \in {"pump", "settle"},
                   batch' = Joined(S, e, how),
                   e.type = "extension" /\ S = {} => \A b \in agent'.blocked : b.id # e.id
            PROVE  /\ \A i \in DOMAIN batch : i \in DOMAIN batch' /\ batch'[i] = batch[i]
                   /\ e.type = "extension" =>
                         \/ \E j \in DOMAIN batch' : batch'[j].event = e
                         \/ \A b \in agent'.blocked : b.id # e.id
        <4>1. Longer(batch', S, e, how)
          BY <1>1, <2>1, <3>2, BatchGrows
        <4>2. \A i \in DOMAIN batch : i \in DOMAIN batch' /\ batch'[i] = batch[i]
          BY <4>1 DEF Longer
        <4>3. \A i \in DOMAIN batch' \ DOMAIN batch : batch'[i] \in [to : S, event : {e}, by : {how}]
          BY <4>1 DEF Longer
        <4>4. S # {} => \E j \in DOMAIN batch' : batch'[j].event = e
          <5>1. \A i \in DOMAIN batch' \ DOMAIN batch : batch'[i].event = e
            BY <4>3
          <5> QED
            BY <4>1, <5>1 DEF Longer
        <4> QED
          BY <3>2, <4>2, <4>4
      <3> QED
        BY <1>3, <3>1, <3>2
    <2> HIDE DEF e
    <2>3. QueueKeeps
      BY <2>1, <2>2 DEF QueueKeeps
    <2>4. BatchKeeps /\ UserKeeps
      BY <1>3, <2>2 DEF BatchKeeps, UserKeeps
    <2> QED
      BY <1>3, <2>3, <2>4, RequestsKept
  <1>4. CASE Drain
    <2> DEFINE e == Head(queue)
               o == Route(conn, e)
    <2>1. /\ queue # <<>> /\ queue' = Tail(queue) /\ UNCHANGED <<up, held>>
          /\ batch' = Joined(o, e, "pump")
          /\ agent' = IF o = {} THEN Unowned(e) ELSE agent
      BY <1>4 DEF Drain, Joined
    <2>2. o \in SUBSET Threads
      <3>1. e \in Read
        BY <1>1, <2>1, Drawn
      <3> QED
        BY <1>1, <3>1, Routed1
    <2>3. /\ agent'.alive = agent.alive /\ agent'.blocked \subseteq agent.blocked
          /\ e.type = "extension" /\ o = {} => \A b \in agent'.blocked : b.id # e.id
      <3>1. /\ Answered(agent, {e.id}).blocked = {b \in agent.blocked : b.id \notin {e.id}}
            /\ Answered(agent, {e.id}).alive = agent.alive
        BY <1>1, Unblocked
      <3> QED
        BY <2>1, <3>1 DEF Unowned
    <2> QED
      BY <1>3, <2>1, <2>2, <2>3
  <1>5. CASE Settle
    <2> DEFINE e == Head(queue)
               o == Route(conn, e)
               S == IF Cardinality(o) = 1 THEN o ELSE {call.thread}
    <2>1. /\ queue # <<>> /\ queue' = Tail(queue) /\ UNCHANGED <<up, held, agent>>
          /\ call.thread \in Threads
          /\ \/ batch' = batch /\ e.type # "extension"
             \/ batch' = Joined(S, e, "settle")
      BY <1>1, <1>5 DEF Settle, Joined, CallMade
    <2>2. o \in SUBSET Threads
      <3>1. e \in Read
        BY <1>1, <2>1, Drawn
      <3> QED
        BY <1>1, <3>1, Routed1
    <2>3. S \in SUBSET Threads /\ S # {}
      <3>1. Cardinality({}) = 0
        BY FS_EmptySet
      <3>2. Cardinality(o) = 1 => o # {}
        BY <3>1
      <3> QED
        BY <2>1, <2>2, <3>2
    <2> QED
      BY <1>3, <2>1, <2>3
  <1>6. ASSUME NEW types, Handle(types)
        PROVE  /\ Head(batch).to \in Threads /\ Head(batch).event.type \in types /\ up' = up
               /\ \A i \in DOMAIN batch :
                     batch[i] = Head(batch) \/ \E j \in DOMAIN batch' : batch'[j] = batch[i]
    BY <1>1, <1>6, Taken
  <1>7. ASSUME NEW types, Handle(types), "extension" \notin types PROVE BatchKeeps
    BY <1>6, <1>7 DEF BatchKeeps
  <1>8. CASE HandleUpdate \/ HandleEnded
    <2>1. /\ Handle({"update", "replay"}) \/ Handle({"ended"})
          /\ UNCHANGED <<queue, agent, held>>
      BY <1>8 DEF HandleUpdate, HandleEnded
    <2>2. QueueKeeps /\ UserKeeps
      BY <2>1 DEF QueueKeeps, UserKeeps
    <2> QED
      BY <1>6, <1>7, <2>1, <2>2, RequestsKept
  <1>9. CASE HandleAsk
    <2> DEFINE b == Head(batch)
    <2>1. /\ Handle({"permission", "extension"}) /\ UNCHANGED <<queue, agent>>
          /\ held' = [held EXCEPT ![b.to] = held[b.to] \cup {b.event.id}]
      BY <1>9 DEF HandleAsk
    <2>2. b.to \in Threads
      BY <1>6, <2>1
    <2> HIDE DEF b
    <2>3. \A t \in Threads : held[t] \subseteq held'[t]
      BY <1>1, <2>1
    <2>4. b.event.id \in held'[b.to]
      BY <1>1, <2>1, <2>2
    <2>5. QueueKeeps /\ UserKeeps
      BY <2>1, <2>3 DEF QueueKeeps, UserKeeps
    <2>6. BatchKeeps
      BY <1>6, <2>1, <2>2, <2>4 DEF BatchKeeps, b
    <2> QED
      BY <1>6, <2>1, <2>5, <2>6, RequestsKept
  <1>10. CASE HandleResult
    <2> DEFINE t == Head(batch).to
               a == Answered(agent, held[t])
    <2>1. Handle({"result"}) /\ NextPrompt(t, a) /\ held' = [held EXCEPT ![t] = {}]
      BY <1>10 DEF HandleResult
    <2>2. t \in Threads /\ up' = up /\ BatchKeeps
      BY <1>6, <1>7, <2>1
    <2>3. /\ a \in Agents /\ a.alive = agent.alive
          /\ a.blocked = {b \in agent.blocked : b.id \notin held[t]}
      BY <1>1, Unblocked
    <2> HIDE DEF t, a
    <2>4. \A u \in Threads, b \in a.blocked : b.id \in held[u] => b.id \in held'[u]
      BY <1>1, <2>1, <2>2, <2>3
    <2>5. a.blocked \subseteq agent.blocked
      BY <2>3
    <2> QED
      BY <2>1, <2>2, <2>3, <2>4, <2>5, RequestsNext
  <1>11. CASE HandleClosed
    <2>1. /\ Handle({"closed"}) /\ Leaves(Release(conn, {Head(batch).to}), agent)
      BY <1>11 DEF HandleClosed, Gone
    <2>2. {Head(batch).to} \in SUBSET Threads /\ up' = up
      BY <1>6, <2>1
    <2>3. ~agent.alive
      <3>1. 1 \in DOMAIN batch /\ batch[1].event.type = "closed"
        BY <1>1, <2>1, Taken
      <3> QED
        BY <3>1 DEF Riding, ClosedIsDead, PipeOpen
    <2> QED
      BY <1>1, <2>1, <2>2, <2>3, RequestsLeft
  <1> QED
    BY <1>2, <1>4, <1>5, <1>8, <1>9, <1>10, <1>11

\* The requests, when the agent moves.
LEMMA RequestsAgent ==
    ASSUME Base, ExtensionIsHeld, AgentMoves
    PROVE  ExtensionIsHeld'
  <1>1. Types /\ agent \in Agents /\ queue \in Seq(Read)
    BY DEF Base, Types
  <1>2. UNCHANGED <<up, batch, held>>
    BY DEF AgentMoves, Speak, Ask, Finish, ReplyInitialize, ReplyResume, ReplyLoad, ReplyNew,
           Die, PipeCloses, AgentOnly
  <1>3. agent'.alive => agent.alive
    <2>1. CASE Die \/ PipeCloses
      BY <1>1, <2>1 DEF Die, PipeCloses, Agents
    <2>2. CASE ~Die /\ ~PipeCloses
      BY <2>2 DEF AgentMoves, Speak, Ask, Finish, ReplyInitialize, ReplyResume, ReplyLoad, ReplyNew,
                  Asked
    <2> QED
      BY <2>1, <2>2
  <1>4. \A i \in DOMAIN queue : i \in DOMAIN queue' /\ queue'[i] = queue[i]
    <2>1. CASE queue' = queue
      BY <2>1
    <2>2. CASE queue' # queue
      <3>1. PICK e \in Read : Says(e)
        BY <2>2, Spoken DEF Base
      <3> QED
        BY <1>1, <3>1, AppendOf DEF Says
    <2> QED
      BY <2>1, <2>2
  <1>5. QueueKeeps /\ BatchKeeps /\ UserKeeps
    BY <1>2, <1>4 DEF QueueKeeps, BatchKeeps, UserKeeps
  <1>6. CASE agent'.blocked \subseteq agent.blocked
    BY <1>2, <1>3, <1>5, <1>6, RequestsKept
  <1>7. ASSUME NEW x \in agent.turns, NEW type \in {"permission", "extension"}, Ask(x, type)
        PROVE  ExtensionIsHeld'
    <2> DEFINE id == count.asks + 1
               more == agent.blocked \cup {[id |-> id, session |-> x.session, type |-> type]}
    <2>1. PICK n \in BOOLEAN : Says(Event(type, x.session, id, n))
      BY <1>7 DEF Ask, Names
    <2>2. agent' = [agent EXCEPT !.blocked = more] /\ agent.alive
      BY <1>7 DEF Ask
    <2>3. agent'.blocked = more
      <3> HIDE DEF more
      <3> QED
        BY <1>1, <2>2 DEF Agents
    <2>4. id \in 1..MaxAsks /\ x.session \in Sessions
      <3>1. count.asks < MaxAsks /\ MaxAsks \in Nat /\ count.asks \in Nat
        BY <1>1, <1>7, PoolAssumption DEF Ask, Types, Counts
      <3> QED
        BY <1>1, <3>1 DEF Agents
    <2> HIDE DEF id
    <2>5. /\ Event(type, x.session, id, n) \in Read
          /\ Event(type, x.session, id, n).id = id /\ Event(type, x.session, id, n).type = type
      BY <2>4, Written DEF Event
    <2>6. \E i \in DOMAIN queue' : queue'[i].id = id /\ queue'[i].type = type
      BY <1>1, <2>1, <2>5, AppendOf DEF Says
    <2>7. ASSUME up, NEW b \in agent.blocked, b.type = "extension"
          PROVE  \/ \E i \in DOMAIN queue' : queue'[i].id = b.id /\ queue'[i].type = b.type
                 \/ \E i \in DOMAIN batch : batch[i].event.id = b.id /\ batch[i].event.type = b.type
                 \/ \E t \in Threads : b.id \in held[t]
      BY <1>4, <2>2, <2>7 DEF ExtensionIsHeld
    <2>8. \A b \in agent'.blocked :
             b \in agent.blocked \/ (b.id = id /\ b.type = type)
      <3>1. \A b \in agent'.blocked :
               b \in agent.blocked \/ b = [id |-> id, session |-> x.session, type |-> type]
        BY <2>3
      <3> QED
        BY <3>1
    <2> QED
      BY <1>2, <2>6, <2>7, <2>8 DEF ExtensionIsHeld
  <1>8. \/ agent'.blocked \subseteq agent.blocked
        \/ \E x \in agent.turns : Ask(x, "permission") \/ Ask(x, "extension")
    BY <1>1 DEF AgentMoves, Speak, Finish, ReplyInitialize, ReplyResume, ReplyLoad, ReplyNew,
                Die, PipeCloses, Serves, Agents
  <1> QED
    BY <1>6, <1>7, <1>8

\* The requests, in each step and in none.
LEMMA RequestsStep ==
    ASSUME Base, Riding, ExtensionIsHeld, [Next]_vars
    PROVE  ExtensionIsHeld'
  <1>1. CASE AgentMoves
    BY <1>1, RequestsAgent
  <1>2. CASE HostMoves
    BY <1>2, RequestsAttach, RequestsPrompt, RequestsPump DEF HostMoves
  <1>3. CASE UserMoves
    BY <1>3, RequestsAttach, RequestsPrompt DEF UserMoves
  <1>4. CASE UNCHANGED vars
    BY <1>4 DEF vars, ExtensionIsHeld
  <1> QED
    BY <1>1, <1>2, <1>3, <1>4 DEF Next

-----------------------------------------------------------------------------
(* The layers together, and what follows from them.                        *)

\* The layers hold at first.
LEMMA LayersInit ==
    ASSUME Init
    PROVE  Layers
  <1>1. /\ stored = [t \in Threads |-> 0] /\ transcript = [t \in Threads |-> {}]
        /\ run = [t \in Threads |-> 0] /\ early = {} /\ up = TRUE /\ conn = NoConn /\ queue = <<>>
        /\ phase = "idle" /\ batch = <<>> /\ call = NoCall
        /\ held = [t \in Threads |-> {}] /\ waiting = [t \in Threads |-> FALSE]
        /\ agent = NoAgent /\ made = <<>>
        /\ count = [prompts |-> 0, updates |-> 0, asks |-> 0, procs |-> 0, leaves |-> 0]
    BY DEF Init
  <1>2. /\ NoConn.sessions = [t \in Threads |-> 0] /\ NoConn.up = FALSE
        /\ NoConn.bySession = [s \in Sessions |-> Nobody]
        /\ NoConn.owners = [r \in Requests |-> Nobody]
        /\ NoAgent.turns = {} /\ NoAgent.blocked = {} /\ ~NoAgent.alive
        /\ NoCall.at = "none" /\ NoCall.reply = "none"
    BY DEF NoConn, Vacant, NoAgent, NoCall
  <1>3. \A i \in DOMAIN <<>> : FALSE
    OBVIOUS
  <1>4. 0 \in 0..MaxSessions /\ 0 \in 0..MaxPrompts /\ 0 \in 0..MaxUpdates /\ 0 \in 0..MaxAsks
        /\ 0 \in 0..MaxProcs /\ 0 \in 0..MaxLeaves /\ MaxPrompts \in Nat /\ MaxSessions \in Nat
    BY PoolAssumption
  <1>5. Types
    <2>1. NoConn \in Conns /\ NoAgent \in Agents /\ NoCall \in Calls /\ count \in Counts
      BY <1>1, <1>4 DEF NoConn, Vacant, Conns, NoAgent, Agents, NoCall, Calls, Counts
    <2>2. /\ queue \in Seq(Read) /\ made \in Seq(Threads) /\ Len(made) = 0
          /\ batch \in Seq([to : Threads, event : Read, by : {"pump", "settle"}])
      BY <1>1, EmptySeq
    <2> QED
      BY <1>1, <1>4, <2>1, <2>2 DEF Types
  <1>6. CallMade
    BY <1>1, <1>2 DEF CallMade
  <1>7. Room
    <2>1. {t \in Threads : waiting[t]} = {}
      BY <1>1
    <2>2. count.prompts = 0 /\ Cardinality({}) = 0
      BY <1>1, FS_EmptySet
    <2>3. Promised = 0
      BY <2>1, <2>2 DEF Promised
    <2>4. Kept = 0
      BY <1>1, <1>2 DEF Kept
    <2> QED
      BY <1>4, <2>3, <2>4 DEF Room
  <1>8. Riding
    BY <1>1, <1>2 DEF Riding, Down, CallRides, RunRides, CallIdle, ClosedIsDead
  <1>9. Answering
    BY <1>1, <1>2 DEF Answering, OwnerRuns, HandedOut, Fresh, Once, ResultsOf, ResultsIn
  <1>10. Homing
    BY <1>1, <1>2 DEF Homing, SessionsMade, StoredMade, TablesMade, CallForMade, OwnedTurns,
                      HandedHome, ResultsOf
  <1>11. ExtensionIsHeld
    BY <1>1, <1>2 DEF ExtensionIsHeld
  <1> QED
    BY <1>5, <1>6, <1>7, <1>8, <1>9, <1>10, <1>11 DEF Layers

\* And always after.
LEMMA LayersHold == Spec => []Layers
  <1>1. Init => Layers
    BY LayersInit
  <1>2. Layers /\ [Next]_vars => Layers'
    <2> SUFFICES ASSUME Layers, [Next]_vars PROVE Layers'
      OBVIOUS
    <2>1. Base /\ Riding /\ Answering /\ Homing /\ ExtensionIsHeld
      BY DEF Layers, Base
    <2>2. Base' /\ Riding' /\ Answering' /\ Homing' /\ ExtensionIsHeld'
      BY <2>1, BaseStep, RidingStep, AnsweringStep, HomingStep, RequestsStep
    <2> QED
      BY <2>2 DEF Layers, Base
  <1> QED
    BY <1>1, <1>2, PTL DEF Spec

\* When the host is at rest, each open run has a session on the process: however
\* a process died or a thread left, the run ended with it (on_adapter_gone,
\* release, reap_dead_adapters).
THEOREM RunsRide == Spec => []OpenRunHasSession
  <1>1. Layers => OpenRunHasSession
    <2> SUFFICES ASSUME Layers, NEW t \in Threads, run[t] # 0 PROVE HasAdapter(t)
      BY DEF OpenRunHasSession
    <2>1. conn.sessions[t] # 0
      BY DEF Layers, Riding, RunRides
    <2>2. conn.up
      BY <2>1 DEF Layers, Riding, Down, NoConn, Vacant
    <2> QED
      BY <2>1, <2>2 DEF HasAdapter
  <1> QED
    BY <1>1, LayersHold, PTL

\* A response ends the run of the prompt it answers and no other, however many
\* turns are open on the process and however late it is handled, when nothing but
\* that response ended the run of that prompt (prompt_owners).
THEOREM ResultsEndTheirTurn == Spec => ResultEndsOwnTurn
  <1>1. Layers => [(/\ phase = "handle" /\ batch # <<>> /\ batch' = Tail(batch)
                    /\ Head(batch).event.type = "result"
                    /\ Head(batch).event.id \notin early)
                     => run[Head(batch).to] \in {0, Head(batch).event.id}]_vars
    <2> SUFFICES ASSUME Layers, batch # <<>>, Head(batch).event.type = "result",
                        Head(batch).event.id \notin early
                 PROVE  run[Head(batch).to] \in {0, Head(batch).event.id}
      OBVIOUS
    <2> DEFINE Routes == [to : Threads, event : Read, by : {"pump", "settle"}]
    <2>1. batch \in Seq(Routes)
      BY DEF Layers, Types
    <2>2. Head(batch) = batch[1] /\ 1 \in DOMAIN batch
      <3> HIDE DEF Routes
      <3> QED
        BY <2>1, TailOf
    <2>3. 1 \in ResultsIn(batch)
      BY <2>2 DEF ResultsIn
    <2> QED
      BY <2>2, <2>3 DEF Layers, Answering, HandedOut, Awaits
  <1> QED
    BY <1>1, LayersHold, PTL DEF ResultEndsOwnTurn

\* What the pump hands a thread is of a session that was made for it, or answers
\* its prompt; and a blocking extension request is on its way, in front of a
\* user, or answered (route, pump_acp).
THEOREM EventsComeHome == Spec => []EventsFindTheirWay
  <1>1. Layers => EventsFindTheirWay
    <2> SUFFICES ASSUME Layers PROVE EventsFindTheirWay
      OBVIOUS
    <2>1. TypeOK
      <3>1. Types
        BY DEF Layers
      <3>2. Read \subseteq Events
        BY DEF Read
      <3>3. [to : Threads, event : Read, by : {"pump", "settle"}] \subseteq Routed
        BY <3>2 DEF Routed
      <3>4. queue \in Seq(Events) /\ batch \in Seq(Routed)
        <4> DEFINE Routes == [to : Threads, event : Read, by : {"pump", "settle"}]
        <4>1. queue \in Seq(Read) /\ batch \in Seq(Routes) /\ Routes \subseteq Routed
          BY <3>1, <3>3 DEF Types
        <4> HIDE DEF Routes
        <4> QED
          BY <3>2, <4>1, SeqMonotonic
      <3>5. agent.able \subseteq {"resume", "load", "close", "states"} /\ agent.open \subseteq Sessions
        BY <3>1 DEF Types, Agents
      <3> QED
        BY <3>1, <3>4, <3>5 DEF Types, TypeOK, Conns, Calls, Counts
    <2>2. PumpedHome
      BY DEF Layers, Homing, HandedHome, MadeFor, PumpedHome
    <2>3. ExtensionIsHeld
      BY DEF Layers
    <2> QED
      BY <2>1, <2>2, <2>3 DEF EventsFindTheirWay
  <1> QED
    BY <1>1, LayersHold, PTL

-----------------------------------------------------------------------------
(* The adapter for Aider.                                                  *)

-----------------------------------------------------------------------------
(* The shape of the state.                                                 *)

Stops == {"end_turn", "error", "cancelled"}
Procs == [alive : BOOLEAN, in : Seq(Nat), out : Seq(Nat), turn : Nat,
          at : {"read", "kill", "finish"}, cancels : Nat]
Turns == [thread : Threads, alive : BOOLEAN,
          at : {"sent", "stream", "wait", "judge", "close", "over"}, done : BOOLEAN,
          aider : AtWork \cup {"none", "exited", "killed"}, code : {-1, 0, 1},
          says : Stops \cup {"none"}, told : Nat, heard : SUBSET Nat, answers : Seq(Stops)]

Shape ==
    /\ open \in [Threads -> Nat]
    /\ proc \in [Threads -> Procs]
    /\ turns \in Seq(Turns)
    /\ folder \in [message : Nat, chat : SUBSET Nat]

\* A turn by itself: it is done when it is answered, a good end is an exit, and
\* what its thread is about to say was true when it looked.
Sound(x) ==
    /\ (~x.done /\ x.answers = <<>>) \/ (x.done /\ \E stop \in Stops : x.answers = <<stop>>)
    /\ x.answers = <<"end_turn">> => x.at = "over" /\ x.aider = "exited" /\ x.code = 0
    /\ x.code = 0 => x.aider = "exited"
    /\ x.at = "sent" => ~x.done /\ x.aider = "none"
    /\ x.aider \in AtWork => x.at = "stream" /\ ~x.done
    /\ x.at = "close" =>
         x.says \in Stops /\ (x.says = "end_turn" => x.aider = "exited" /\ x.code = 0)
    /\ x.at = "over" => x.done

\* A served turn of the thread that its reader has seen, and one it has not.
Seen(t, n) == /\ n \in DOMAIN turns /\ turns[n].thread = t
              /\ turns[n].alive /\ turns[n].at # "sent"
Unseen(t, n) == /\ n \in DOMAIN turns /\ turns[n].thread = t
                /\ turns[n].alive /\ turns[n].at = "sent"

\* The turn that is not answered is the open run; the reader knows turns it has
\* seen; what waits to be read is the open run, once; what waits to be heard is
\* the open run, and it is done.
OpenOf(t) ==
    \A n \in DOMAIN turns :
        turns[n].thread = t /\ turns[n].alive /\ ~turns[n].done => open[t] = n
ReaderOf(t) ==
    /\ proc[t].turn # 0 => Seen(t, proc[t].turn)
    /\ proc[t].cancels # 0 => Seen(t, proc[t].cancels)
    /\ proc[t].at # "read" => proc[t].cancels # 0
    /\ proc[t].at = "finish" => turns[proc[t].cancels].aider \notin AtWork
InOf(t) ==
    /\ \A i \in 1..Len(proc[t].in) :
          proc[t].in[i] # 0 => proc[t].in[i] = open[t] /\ Unseen(t, proc[t].in[i])
    /\ \A i, j \in 1..Len(proc[t].in) : proc[t].in[i] # 0 /\ proc[t].in[j] # 0 => i = j
OutOf(t) ==
    \/ proc[t].out = <<>>
    \/ /\ open[t] \in DOMAIN turns /\ proc[t].out = <<open[t]>>
       /\ turns[open[t]].thread = t /\ turns[open[t]].done

OpenTyped(t) == open[t] # 0 => open[t] \in DOMAIN turns

ThreadInv(t) == OpenOf(t) /\ ReaderOf(t) /\ InOf(t) /\ OutOf(t) /\ OpenTyped(t)

Inv ==
    /\ Shape
    /\ \A n \in DOMAIN turns : Sound(turns[n])
    /\ \A t \in Threads : ThreadInv(t)

\* What a thread's turns, run and adapter do is nothing to another thread.
LEMMA OthersKept ==
    ASSUME Inv, NEW t \in Threads,
           \A u \in Threads \ {t} : proc'[u] = proc[u] /\ open'[u] = open[u],
           DOMAIN turns \subseteq DOMAIN turns',
           \A n \in DOMAIN turns' :
              IF n \in DOMAIN turns
                THEN turns'[n] = turns[n] \/ (turns[n].thread = t /\ turns'[n].thread = t)
                ELSE turns'[n].thread = t
    PROVE  \A u \in Threads \ {t} : ThreadInv(u)'
  <1> SUFFICES ASSUME NEW u \in Threads \ {t} PROVE ThreadInv(u)'
    OBVIOUS
  <1>1. ThreadInv(u)
    BY DEF Inv
  <1>2. proc'[u] = proc[u] /\ open'[u] = open[u]
    OBVIOUS
  <1>3. \A n \in DOMAIN turns : turns[n].thread = u => turns'[n] = turns[n]
    OBVIOUS
  <1>4. OpenOf(u)'
    BY <1>1, <1>2, <1>3 DEF ThreadInv, OpenOf
  <1>5. ReaderOf(u)'
    BY <1>1, <1>2, <1>3 DEF ThreadInv, ReaderOf, Seen
  <1>6. InOf(u)'
    BY <1>1, <1>2, <1>3 DEF ThreadInv, InOf, Unseen
  <1>7. OutOf(u)' /\ OpenTyped(u)'
    BY <1>1, <1>2, <1>3 DEF ThreadInv, OutOf, OpenTyped
  <1> QED
    BY <1>4, <1>5, <1>6, <1>7 DEF ThreadInv

\* A step of one turn, with its adapter.
LEMMA TurnStep ==
    ASSUME Inv, NEW t \in Threads, NEW n \in DOMAIN turns, turns[n].thread = t,
           NEW x \in Turns, Sound(x), NEW p \in Procs, x.thread = t,
           turns' = [turns EXCEPT ![n] = x],
           proc' = [proc EXCEPT ![t] = p],
           open' = open, folder' \in [message : Nat, chat : SUBSET Nat],
           ThreadInv(t)'
    PROVE  Inv'
  <1>1. turns \in Seq(Turns) /\ n \in 1..Len(turns) /\ DOMAIN turns = 1..Len(turns)
    BY LenProperties DEF Inv, Shape
  <1>2. /\ turns' \in Seq(Turns) /\ DOMAIN turns' = DOMAIN turns
        /\ \A m \in DOMAIN turns : turns'[m] = IF m = n THEN x ELSE turns[m]
    BY <1>1, ExceptSeq
  <1>3. Shape'
    BY <1>2 DEF Inv, Shape
  <1>4. \A u \in Threads \ {t} : proc'[u] = proc[u] /\ open'[u] = open[u]
    BY DEF Inv, Shape
  <1>5. \A u \in Threads \ {t} : ThreadInv(u)'
    BY <1>2, <1>4, OthersKept
  <1>6. \A m \in DOMAIN turns' : Sound(turns'[m])
    BY <1>2 DEF Inv
  <1> QED
    BY <1>3, <1>5, <1>6 DEF Inv

\* What is known of a turn, and of the adapter it is served by.
LEMMA TurnFacts ==
    ASSUME Inv, NEW n \in DOMAIN turns
    PROVE  /\ turns[n] \in Turns /\ Sound(turns[n]) /\ n \in Nat \ {0}
           /\ turns[n].thread \in Threads /\ Mine(n) \in Procs
           /\ ThreadInv(turns[n].thread)
  <1>1. turns \in Seq(Turns) /\ DOMAIN turns = 1..Len(turns) /\ Len(turns) \in Nat
    BY LenProperties DEF Inv, Shape
  <1>2. turns[n] \in Turns /\ n \in 1..Len(turns)
    BY <1>1, ElementOfSeq
  <1>3. turns[n].thread \in Threads
    BY <1>2 DEF Turns
  <1> QED
    BY <1>1, <1>2, <1>3 DEF Inv, Shape, Mine

\* A turn that goes on, and answers nothing.
LEMMA QuietTurn ==
    ASSUME Inv, NEW t \in Threads, NEW n \in DOMAIN turns, turns[n].thread = t,
           NEW x \in Turns, Sound(x),
           turns[n].at # "sent", x.at # "sent",
           x.thread = t, x.alive = turns[n].alive, x.done = turns[n].done,
           x.aider \in AtWork => turns[n].aider \in AtWork,
           turns' = [turns EXCEPT ![n] = x],
           proc' = proc, open' = open, folder' \in [message : Nat, chat : SUBSET Nat]
    PROVE  Inv'
  <1>1. ThreadInv(t) /\ proc[t] \in Procs
    BY TurnFacts DEF Mine
  <1>2. DOMAIN turns' = DOMAIN turns
        /\ \A m \in DOMAIN turns : turns'[m] = IF m = n THEN x ELSE turns[m]
    OBVIOUS
  <1>3. proc' = [proc EXCEPT ![t] = proc[t]]
    BY <1>1 DEF Inv, Shape
  <1>5. OpenOf(t)'
    BY <1>1, <1>2 DEF ThreadInv, OpenOf
  <1>6. ReaderOf(t)'
    BY <1>1, <1>2 DEF ThreadInv, ReaderOf, Seen
  <1>7. InOf(t)'
    BY <1>1, <1>2 DEF ThreadInv, InOf, Unseen
  <1>8. OutOf(t)' /\ OpenTyped(t)'
    BY <1>1, <1>2 DEF ThreadInv, OutOf, OpenTyped
  <1>9. ThreadInv(t)'
    BY <1>5, <1>6, <1>7, <1>8 DEF ThreadInv
  <1> QED
    BY <1>1, <1>3, <1>9, TurnStep

\* The answer of a turn, by its own thread or by the reader: it is heard if it is
\* the first, and then it is the open run's.
LEMMA AnswerStep ==
    ASSUME Inv, NEW t \in Threads, NEW n \in DOMAIN turns, turns[n].thread = t,
           NEW x \in Turns, Sound(x), NEW p \in Procs,
           turns[n].alive, turns[n].at # "sent", turns[n].aider \notin AtWork,
           x.thread = t, x.alive = turns[n].alive, x.done, x.at # "sent",
           x.aider = turns[n].aider,
           p.in = Mine(n).in, p.out = OutAfter(n), p.turn = Mine(n).turn,
           \/ p.cancels = Mine(n).cancels /\ p.at = Mine(n).at
           \/ p.cancels = 0 /\ p.at = "read",
           turns' = [turns EXCEPT ![n] = x],
           proc' = [proc EXCEPT ![t] = p],
           open' = open, folder' = folder
    PROVE  Inv'
  <1>1. ThreadInv(t) /\ proc[t] \in Procs /\ n # 0
    BY TurnFacts DEF Mine
  <1>2. DOMAIN turns' = DOMAIN turns
        /\ \A m \in DOMAIN turns : turns'[m] = IF m = n THEN x ELSE turns[m]
    OBVIOUS
  <1>3. Mine(n) = proc[t]
    BY DEF Mine
  <1>4. proc'[t] = p
    BY <1>1, <1>3 DEF Inv, Shape
  <1>5. OpenOf(t)'
    BY <1>1, <1>2, <1>3 DEF ThreadInv, OpenOf
  <1>6. ReaderOf(t)'
    <2>1. \A m \in DOMAIN turns : Seen(t, m) => Seen(t, m)'
      BY <1>2 DEF Seen
    <2>2. \A m \in DOMAIN turns : turns[m].aider \notin AtWork => turns'[m].aider \notin AtWork
      BY <1>2
    <2>3. ReaderOf(t) /\ proc[t].turn # 0 => proc[t].turn \in DOMAIN turns
      BY <1>1 DEF ThreadInv, ReaderOf, Seen
    <2>4. proc[t].cancels # 0 => proc[t].cancels \in DOMAIN turns
      BY <1>1 DEF ThreadInv, ReaderOf, Seen
    <2>5. CASE p.cancels = proc[t].cancels /\ p.at = proc[t].at
      BY <1>1, <1>3, <1>4, <2>1, <2>2, <2>3, <2>4, <2>5 DEF ThreadInv, ReaderOf
    <2>6. CASE p.cancels = 0 /\ p.at = "read"
      BY <1>1, <1>3, <1>4, <2>1, <2>3, <2>6 DEF ThreadInv, ReaderOf
    <2> QED
      BY <1>3, <2>5, <2>6
  <1>7. InOf(t)'
    <2>1. \A i \in 1..Len(proc[t].in) : proc[t].in[i] # 0 => proc[t].in[i] # n
      BY <1>1, <1>3 DEF ThreadInv, InOf, Unseen
    <2> QED
      BY <1>1, <1>2, <1>3, <1>4, <2>1 DEF ThreadInv, InOf, Unseen
  <1>8. OutOf(t)'
    <2>1. CASE turns[n].done
      BY <1>1, <1>2, <1>3, <1>4, <2>1 DEF ThreadInv, OutOf, OutAfter, Answers
    <2>2. CASE ~turns[n].done
      <3>1. open[t] = n /\ proc[t].out = <<>>
        BY <1>1, <1>3, <2>2 DEF ThreadInv, OpenOf, OutOf
      <3>2. p.out = <<n>>
        BY <1>3, <2>2, <3>1 DEF OutAfter, Answers
      <3> QED
        BY <1>2, <1>3, <1>4, <3>1, <3>2 DEF OutOf
    <2> QED
      BY <2>1, <2>2
  <1>9. ThreadInv(t)'
    BY <1>1, <1>2, <1>5, <1>6, <1>7, <1>8 DEF ThreadInv, OpenTyped
  <1> QED
    BY <1>3, <1>9, TurnStep DEF Inv, Shape

\* What an answer makes of a turn.
LEMMA AnsweredTurn ==
    ASSUME NEW x \in Turns, Sound(x), NEW stop \in Stops, NEW at \in {x.at, "over"},
           x.at # "sent", x.aider \notin AtWork,
           stop = "end_turn" => x.aider = "exited" /\ x.code = 0 /\ at = "over",
           NEW y, y = [x EXCEPT !.done = TRUE, !.at = at,
                                !.answers = IF x.done THEN @ ELSE Append(@, stop)]
    PROVE  y \in Turns /\ Sound(y)
  <1>1. CASE x.done
    <2>1. y = [x EXCEPT !.done = TRUE, !.at = at]
      BY <1>1
    <2>2. y \in Turns
      BY <2>1 DEF Turns
    <2> QED
      BY <1>1, <2>1, <2>2 DEF Sound, Turns
  <1>2. CASE ~x.done
    <2>1. x.answers = <<>>
      BY <1>2 DEF Sound
    <2>2. y = [x EXCEPT !.done = TRUE, !.at = at, !.answers = <<stop>>]
      BY <1>2, <2>1
    <2>3. <<stop>> \in Seq(Stops)
      OBVIOUS
    <2>4. y \in Turns
      BY <2>2, <2>3 DEF Turns
    <2>5. /\ y.done /\ y.answers = <<stop>> /\ y.at = at /\ y.thread = x.thread
          /\ y.aider = x.aider /\ y.code = x.code /\ y.says = x.says
      BY <2>2 DEF Turns
    <2>6. <<stop>> = <<"end_turn">> => stop = "end_turn"
      OBVIOUS
    <2> QED
      BY <2>4, <2>5, <2>6 DEF Sound
  <1> QED
    BY <1>1, <1>2

-----------------------------------------------------------------------------
(* The thread of a turn, and its `aider`.                                  *)

LEMMA TurnSteps_Inv ==
    ASSUME Inv, NEW n \in DOMAIN turns, TurnSteps(n)
    PROVE  Inv'
  <1> DEFINE y == turns[n]
  <1>1. /\ y \in Turns /\ Sound(y) /\ y.thread \in Threads /\ n \in Nat \ {0}
        /\ Mine(n) \in Procs
    BY TurnFacts
  <1>2. folder \in [message : Nat, chat : SUBSET Nat]
    BY DEF Inv, Shape
  <1>3. CASE Streamed(n)
    <2> DEFINE x == [y EXCEPT !.at = "wait"]
    <2>1. turns' = [turns EXCEPT ![n] = x] /\ UNCHANGED <<proc, open, folder>> /\ y.at = "stream"
      BY <1>3 DEF Streamed, Runs
    <2>2. x \in Turns /\ Sound(x)
      BY <1>1, <1>3, <2>1 DEF Turns, Sound, Streamed
    <2>3. x.at = "wait" /\ x.thread = y.thread /\ x.alive = y.alive /\ x.done = y.done /\ x.aider = y.aider
      BY <1>1 DEF Turns
    <2> HIDE DEF x
    <2> QED
      BY <1>1, <1>2, <2>1, <2>2, <2>3, QuietTurn
  <1>4. CASE Waited(n)
    <2> DEFINE x == [y EXCEPT !.at = "judge", !.code = IF y.done THEN -1 ELSE @]
    <2>1. turns' = [turns EXCEPT ![n] = x] /\ UNCHANGED <<proc, open, folder>> /\ y.at = "wait"
      BY <1>4 DEF Waited, Runs
    <2>2. x \in Turns
      BY <1>1 DEF Turns
    <2>3. /\ x.at = "judge" /\ x.thread = y.thread /\ x.alive = y.alive /\ x.done = y.done
          /\ x.aider = y.aider /\ x.answers = y.answers /\ x.code \in {y.code, -1}
      BY <1>1 DEF Turns
    <2>4. Sound(x)
      BY <1>1, <2>1, <2>3 DEF Sound
    <2> HIDE DEF x
    <2> QED
      BY <1>1, <1>2, <2>1, <2>2, <2>3, <2>4, QuietTurn
  <1>5. CASE Judged(n)
    <2> DEFINE x == [y EXCEPT !.at = "close", !.says = Verdict(n)]
    <2>1. turns' = [turns EXCEPT ![n] = x] /\ UNCHANGED <<proc, open, folder>> /\ y.at = "judge"
      BY <1>5 DEF Judged, Runs
    <2>2. Verdict(n) \in Stops /\ (Verdict(n) = "end_turn" => y.code = 0)
      BY DEF Verdict, Stops
    <2>3. x \in Turns
      BY <1>1, <2>2 DEF Turns
    <2>4. /\ x.at = "close" /\ x.thread = y.thread /\ x.alive = y.alive /\ x.done = y.done
          /\ x.aider = y.aider /\ x.answers = y.answers /\ x.code = y.code
          /\ x.says = Verdict(n)
      BY <1>1 DEF Turns
    <2>5. Sound(x)
      BY <1>1, <2>1, <2>2, <2>4 DEF Sound
    <2> HIDE DEF x
    <2> QED
      BY <1>1, <1>2, <2>1, <2>3, <2>4, <2>5, QuietTurn
  <1>6. CASE Ended(n)
    <2> DEFINE x == [y EXCEPT !.done = TRUE, !.at = "over",
                              !.answers = IF y.done THEN @ ELSE Append(@, y.says)]
               p == [Mine(n) EXCEPT !.out = OutAfter(n)]
    <2>1. y.at = "close" /\ y.alive /\ UNCHANGED <<open, folder>>
      BY <1>6 DEF Ended, Runs, Served
    <2>2. turns' = [turns EXCEPT ![n] = x]
      <3>1. CASE y.done
        BY <1>1, <1>6, <3>1 DEF Ended, TurnsAfter, Answers, Turns
      <3>2. CASE ~y.done
        BY <1>1, <1>6, <3>2 DEF Ended, TurnsAfter, Answers, Turns
      <3> QED
        BY <3>1, <3>2
    <2>3. proc' = [proc EXCEPT ![y.thread] = p]
      BY <1>6 DEF Ended, Mine
    <2>4. y.says \in Stops /\ (y.says = "end_turn" => y.aider = "exited" /\ y.code = 0)
      BY <1>1, <2>1 DEF Sound
    <2>5. y.aider \notin AtWork /\ y.at # "sent"
      BY <1>1, <2>1 DEF Sound
    <2>6. x \in Turns /\ Sound(x)
      BY <1>1, <2>4, <2>5, AnsweredTurn
    <2>7. OutAfter(n) \in Seq(Nat)
      BY <1>1, AppendProperties DEF OutAfter, Procs
    <2>8. /\ p \in Procs /\ p.in = Mine(n).in /\ p.out = OutAfter(n) /\ p.turn = Mine(n).turn
          /\ p.cancels = Mine(n).cancels /\ p.at = Mine(n).at
      BY <1>1, <2>7 DEF Procs
    <2>9. /\ x.thread = y.thread /\ x.alive = y.alive /\ x.done /\ x.at # "sent"
          /\ x.aider = y.aider
      BY <1>1 DEF Turns
    <2> HIDE DEF x, p
    <2> QED
      BY <1>1, <2>1, <2>2, <2>3, <2>5, <2>6, <2>8, <2>9, AnswerStep
  <1> QED
    BY <1>3, <1>4, <1>5, <1>6 DEF TurnSteps

LEMMA AiderSteps_Inv ==
    ASSUME Inv, NEW n \in DOMAIN turns, Begin(n) \/ Exit(n)
    PROVE  Inv'
  <1> DEFINE y == turns[n]
  <1>1. y \in Turns /\ Sound(y) /\ y.thread \in Threads /\ n \in Nat
    BY TurnFacts
  <1>2. folder \in [message : Nat, chat : SUBSET Nat]
    BY DEF Inv, Shape
  <1>3. y.aider \in AtWork /\ y.at = "stream" /\ ~y.done /\ y.answers = <<>> /\ y.code # 0
    BY <1>1 DEF Begin, Exit, Sound, AtWork
  <1>4. CASE Begin(n)
    <2> DEFINE x == [y EXCEPT !.aider = "working", !.told = folder.message, !.heard = folder.chat]
    <2>1. turns' = [turns EXCEPT ![n] = x] /\ UNCHANGED <<proc, open>>
      BY <1>4 DEF Begin
    <2>2. folder' \in [message : Nat, chat : SUBSET Nat]
      <3>1. folder.chat \cup {n} \in SUBSET Nat
        BY <1>1, <1>2
      <3> QED
        BY <1>2, <1>4, <3>1 DEF Begin
    <2>3. x \in Turns
      BY <1>1, <1>2 DEF Turns, AtWork
    <2>4. /\ x.at = y.at /\ x.thread = y.thread /\ x.alive = y.alive /\ x.done = y.done
          /\ x.aider = "working" /\ x.answers = y.answers /\ x.code = y.code
          /\ x.says = y.says
      BY <1>1 DEF Turns
    <2>5. Sound(x)
      BY <1>1, <1>3, <2>4 DEF Sound
    <2> HIDE DEF x
    <2> QED
      BY <1>1, <1>3, <2>1, <2>2, <2>3, <2>4, <2>5, QuietTurn
  <1>5. CASE Exit(n)
    <2>1. PICK code \in {0, 1} :
             turns' = [turns EXCEPT ![n].aider = "exited", ![n].code = code]
      BY <1>5 DEF Exit
    <2> DEFINE x == [y EXCEPT !.aider = "exited", !.code = code]
    <2>2. turns' = [turns EXCEPT ![n] = x] /\ UNCHANGED <<proc, open, folder>>
      BY <1>5, <2>1 DEF Exit
    <2>3. x \in Turns
      BY <1>1 DEF Turns
    <2>4. /\ x.at = y.at /\ x.thread = y.thread /\ x.alive = y.alive /\ x.done = y.done
          /\ x.aider = "exited" /\ x.answers = y.answers /\ x.says = y.says
      BY <1>1 DEF Turns
    <2>5. Sound(x)
      BY <1>1, <1>3, <2>4 DEF Sound, AtWork
    <2> HIDE DEF x
    <2> QED
      BY <1>1, <1>2, <1>3, <2>2, <2>3, <2>4, <2>5, QuietTurn DEF AtWork
  <1> QED
    BY <1>4, <1>5

-----------------------------------------------------------------------------
(* The adapter's reader.                                                   *)

\* A step of one adapter, and of the run of its thread.
LEMMA ProcStep ==
    ASSUME Inv, NEW t \in Threads, NEW p \in Procs,
           proc' = [proc EXCEPT ![t] = p],
           open' \in [Threads -> Nat], \A u \in Threads \ {t} : open'[u] = open[u],
           turns' = turns, folder' = folder, ThreadInv(t)'
    PROVE  Inv'
  <1>1. Shape' /\ \A n \in DOMAIN turns' : Sound(turns'[n])
    BY DEF Inv, Shape
  <1>2. \A u \in Threads \ {t} : ThreadInv(u)'
    BY OthersKept DEF Inv, Shape
  <1> QED
    BY <1>1, <1>2 DEF Inv

\* The head of what waits is the open run, and nothing else of it waits behind.
LEMMA HeadIsOpen ==
    ASSUME Inv, NEW t \in Threads, Reads(t)
    PROVE  /\ Head(proc[t].in) \in Nat /\ Tail(proc[t].in) \in Seq(Nat)
           /\ \A i \in 1..Len(Tail(proc[t].in)) :
                 i + 1 \in 1..Len(proc[t].in) /\ Tail(proc[t].in)[i] = proc[t].in[i + 1]
           /\ Head(proc[t].in) # Cancel =>
                /\ Head(proc[t].in) = open[t] /\ Unseen(t, open[t])
                /\ \A i \in 1..Len(Tail(proc[t].in)) : Tail(proc[t].in)[i] = 0
  <1>1. proc[t] \in Procs /\ InOf(t)
    BY DEF Inv, Shape, ThreadInv
  <1>2. proc[t].in \in Seq(Nat) /\ proc[t].in # <<>>
    BY <1>1 DEF Procs, Reads
  <1>3. Len(proc[t].in) \in Nat \ {0} /\ Head(proc[t].in) = proc[t].in[1]
    BY <1>2, EmptySeq, LenProperties
  <1>4. /\ Head(proc[t].in) \in Nat /\ Tail(proc[t].in) \in Seq(Nat)
        /\ Len(Tail(proc[t].in)) = Len(proc[t].in) - 1
        /\ \A i \in 1..Len(Tail(proc[t].in)) : Tail(proc[t].in)[i] = proc[t].in[i + 1]
    BY <1>2, HeadTailProperties
  <1>5. \A i \in 1..Len(Tail(proc[t].in)) : i + 1 \in 1..Len(proc[t].in) /\ i + 1 # 1
    BY <1>3, <1>4
  <1> QED
    BY <1>1, <1>3, <1>4, <1>5 DEF InOf, Cancel

LEMMA ReadPrompt_Inv ==
    ASSUME Inv, NEW t \in Threads, ReadPrompt(t)
    PROVE  Inv'
  <1>1. PICK n \in DOMAIN turns : n = Head(proc[t].in) /\ n = open[t] /\ Unseen(t, n)
    BY HeadIsOpen DEF ReadPrompt, Unseen
  <1> DEFINE x == [turns[n] EXCEPT !.at = "stream", !.aider = "starting"]
             p == [proc[t] EXCEPT !.in = Tail(proc[t].in), !.turn = n]
  <1>2. turns[n] \in Turns /\ Sound(turns[n]) /\ n \in Nat \ {0} /\ ThreadInv(t)
        /\ proc[t] \in Procs
    BY <1>1, TurnFacts DEF Unseen, Mine
  <1>3. /\ turns' = [turns EXCEPT ![n] = x] /\ proc' = [proc EXCEPT ![t] = p] /\ open' = open
        /\ folder' = [folder EXCEPT !.message = n]
    BY <1>1 DEF ReadPrompt
  <1>4. folder' \in [message : Nat, chat : SUBSET Nat]
    BY <1>2, <1>3 DEF Inv, Shape
  <1>5. x \in Turns
    BY <1>2 DEF Turns, AtWork
  <1>6. /\ x.at = "stream" /\ x.aider = "starting" /\ x.thread = t /\ x.alive
        /\ x.done = turns[n].done /\ x.answers = turns[n].answers /\ x.code = turns[n].code
    BY <1>1, <1>2 DEF Turns, Unseen
  <1>7. Sound(x)
    BY <1>1, <1>2, <1>6 DEF Sound, Unseen
  <1>8. p \in Procs /\ p.in = Tail(proc[t].in) /\ p.turn = n /\ p.out = proc[t].out
        /\ p.at = "read" /\ p.cancels = proc[t].cancels
    BY <1>2, HeadIsOpen DEF ReadPrompt, Procs, Reads
  <1> HIDE DEF x, p
  <1>9. DOMAIN turns' = DOMAIN turns /\ proc'[t] = p
        /\ \A m \in DOMAIN turns : turns'[m] = IF m = n THEN x ELSE turns[m]
    BY <1>3 DEF Inv, Shape
  <1>10. OpenOf(t)'
    BY <1>1, <1>2, <1>3, <1>6, <1>9 DEF ThreadInv, OpenOf, Unseen
  <1>11. ReaderOf(t)'
    BY <1>1, <1>2, <1>6, <1>8, <1>9 DEF ThreadInv, ReaderOf, Seen, Unseen
  <1>12. InOf(t)'
    <2>1. \A i \in 1..Len(Tail(proc[t].in)) : Tail(proc[t].in)[i] = 0
      BY HeadIsOpen DEF ReadPrompt
    <2> QED
      BY <1>8, <1>9, <2>1 DEF InOf
  <1>13. OutOf(t)'
    BY <1>2, <1>3, <1>6, <1>8, <1>9 DEF ThreadInv, OutOf
  <1>14. ThreadInv(t)'
    BY <1>2, <1>3, <1>9, <1>10, <1>11, <1>12, <1>13 DEF ThreadInv, OpenTyped
  <1>15. turns[n].thread = t
    BY <1>1 DEF Unseen
  <1> QED
    BY <1>3, <1>4, <1>5, <1>6, <1>7, <1>8, <1>14, <1>15, TurnStep

LEMMA PromptFails_Inv ==
    ASSUME Inv, NEW t \in Threads, PromptFails(t)
    PROVE  Inv'
  <1>1. PICK n \in DOMAIN turns : n = Head(proc[t].in) /\ n = open[t] /\ Unseen(t, n)
    BY HeadIsOpen DEF PromptFails, Unseen
  <1> DEFINE x == [turns[n] EXCEPT !.at = "over", !.done = TRUE, !.answers = <<"error">>]
             p == [proc[t] EXCEPT !.in = Tail(proc[t].in), !.out = Append(proc[t].out, n)]
  <1>2. turns[n] \in Turns /\ Sound(turns[n]) /\ n \in Nat \ {0} /\ ThreadInv(t)
        /\ proc[t] \in Procs
    BY <1>1, TurnFacts DEF Unseen, Mine
  <1>3. /\ turns' = [turns EXCEPT ![n] = x] /\ proc' = [proc EXCEPT ![t] = p] /\ open' = open
        /\ folder' \in {folder, [folder EXCEPT !.message = n]}
    BY <1>1 DEF PromptFails
  <1>4. folder' \in [message : Nat, chat : SUBSET Nat]
    BY <1>2, <1>3 DEF Inv, Shape
  <1>5. x \in Turns
    <2>1. <<"error">> \in Seq(Stops)
      BY DEF Stops
    <2> QED
      BY <1>2, <2>1 DEF Turns
  <1>6. /\ x.at = "over" /\ x.aider = turns[n].aider /\ x.thread = t /\ x.alive /\ x.done
        /\ x.answers = <<"error">> /\ x.code = turns[n].code
    BY <1>1, <1>2 DEF Turns, Unseen
  <1>7. Sound(x)
    <2>1. <<"error">> # <<"end_turn">> /\ "error" \in Stops
      BY DEF Stops
    <2> QED
      BY <1>1, <1>2, <1>6, <2>1 DEF Sound, Unseen, AtWork
  <1>8. ~turns[n].done /\ proc[t].out = <<>>
    BY <1>1, <1>2 DEF Sound, Unseen, ThreadInv, OutOf
  <1>9. p \in Procs /\ p.in = Tail(proc[t].in) /\ p.turn = proc[t].turn /\ p.out = <<n>>
        /\ p.at = "read" /\ p.cancels = proc[t].cancels
    <2>1. Append(proc[t].out, n) = <<n>> /\ <<n>> \in Seq(Nat)
      BY <1>2, <1>8
    <2>2. Tail(proc[t].in) \in Seq(Nat) /\ proc[t].at = "read"
      BY HeadIsOpen DEF PromptFails, Reads
    <2> QED
      BY <1>2, <2>1, <2>2 DEF Procs
  <1> HIDE DEF x, p
  <1>10. DOMAIN turns' = DOMAIN turns /\ proc'[t] = p
         /\ \A m \in DOMAIN turns : turns'[m] = IF m = n THEN x ELSE turns[m]
    BY <1>3 DEF Inv, Shape
  <1>11. OpenOf(t)'
    BY <1>1, <1>2, <1>3, <1>6, <1>10 DEF ThreadInv, OpenOf, Unseen
  <1>12. ReaderOf(t)'
    BY <1>1, <1>2, <1>6, <1>9, <1>10 DEF ThreadInv, ReaderOf, Seen, Unseen
  <1>13. InOf(t)'
    <2>1. \A i \in 1..Len(Tail(proc[t].in)) : Tail(proc[t].in)[i] = 0
      BY HeadIsOpen DEF PromptFails
    <2> QED
      BY <1>9, <1>10, <2>1 DEF InOf
  <1>14. OutOf(t)'
    BY <1>1, <1>3, <1>6, <1>9, <1>10 DEF OutOf
  <1>15. ThreadInv(t)'
    BY <1>2, <1>3, <1>10, <1>11, <1>12, <1>13, <1>14 DEF ThreadInv, OpenTyped
  <1>16. turns[n].thread = t
    BY <1>1 DEF Unseen
  <1> QED
    BY <1>3, <1>4, <1>5, <1>6, <1>7, <1>9, <1>15, <1>16, TurnStep

LEMMA ReadCancel_Inv ==
    ASSUME Inv, NEW t \in Threads, ReadCancel(t)
    PROVE  Inv'
  <1> DEFINE p == [proc[t] EXCEPT !.in = Tail(proc[t].in), !.cancels = proc[t].turn, !.turn = 0,
                                  !.at = IF proc[t].turn = 0 THEN "read" ELSE "kill"]
  <1>1. ThreadInv(t) /\ proc[t] \in Procs
    BY DEF Inv, Shape
  <1>2. proc' = [proc EXCEPT ![t] = p] /\ UNCHANGED <<open, turns, folder>>
    BY DEF ReadCancel
  <1>3. /\ p \in Procs /\ p.in = Tail(proc[t].in) /\ p.cancels = proc[t].turn /\ p.turn = 0
        /\ p.out = proc[t].out /\ p.at \in {"read", "kill"}
        /\ p.at # "read" => proc[t].turn # 0
    BY <1>1, HeadIsOpen DEF ReadCancel, Procs
  <1> HIDE DEF p
  <1>4. proc'[t] = p
    BY <1>2 DEF Inv, Shape
  <1>5. OpenOf(t)' /\ OutOf(t)' /\ OpenTyped(t)'
    BY <1>1, <1>2, <1>3, <1>4 DEF ThreadInv, OpenOf, OutOf, OpenTyped
  <1>6. ReaderOf(t)'
    BY <1>1, <1>2, <1>3, <1>4 DEF ThreadInv, ReaderOf, Seen
  <1>7. InOf(t)'
    <2>1. InOf(t)
      BY <1>1 DEF ThreadInv
    <2>2. Reads(t)
      BY DEF ReadCancel
    <2>3. \A i \in 1..Len(Tail(proc[t].in)) :
             i + 1 \in 1..Len(proc[t].in) /\ Tail(proc[t].in)[i] = proc[t].in[i + 1]
      BY <2>2, HeadIsOpen
    <2>4. \A i, j \in 1..Len(Tail(proc[t].in)) :
             Tail(proc[t].in)[i] # 0 /\ Tail(proc[t].in)[j] # 0 => i = j
      <3> SUFFICES ASSUME NEW i \in 1..Len(Tail(proc[t].in)), NEW j \in 1..Len(Tail(proc[t].in)),
                          Tail(proc[t].in)[i] # 0, Tail(proc[t].in)[j] # 0
                   PROVE  i = j
        OBVIOUS
      <3>1. i + 1 = j + 1
        BY <2>1, <2>3 DEF InOf
      <3> QED
        BY <3>1
    <2>5. \A i \in 1..Len(Tail(proc[t].in)) : Tail(proc[t].in)[i] # 0 =>
             Tail(proc[t].in)[i] = open[t] /\ Unseen(t, Tail(proc[t].in)[i])
      BY <2>1, <2>3 DEF InOf
    <2>6. proc'[t].in = Tail(proc[t].in)
      BY <1>3, <1>4
    <2>7. \A i \in 1..Len(proc'[t].in) : proc'[t].in[i] # 0 =>
             proc'[t].in[i] = open'[t] /\ Unseen(t, proc[t].in[i])'
      BY <1>2, <2>5, <2>6 DEF Unseen
    <2> QED
      BY <2>4, <2>6, <2>7 DEF InOf
  <1>8. ThreadInv(t)'
    BY <1>5, <1>6, <1>7 DEF ThreadInv
  <1> QED
    BY <1>2, <1>3, <1>8, ProcStep DEF Inv, Shape

LEMMA Kill_Inv ==
    ASSUME Inv, NEW t \in Threads, Kill(t)
    PROVE  Inv'
  <1>1. PICK n \in DOMAIN turns : n = proc[t].cancels /\ Seen(t, n)
    BY DEF Kill, Inv, ThreadInv, ReaderOf, Seen
  <1> DEFINE x == [turns[n] EXCEPT !.aider = IF @ \in AtWork THEN "killed" ELSE @]
             p == [proc[t] EXCEPT !.at = "finish"]
  <1>2. turns[n] \in Turns /\ Sound(turns[n]) /\ n \in Nat \ {0} /\ ThreadInv(t)
        /\ proc[t] \in Procs
    BY <1>1, TurnFacts DEF Seen, Mine
  <1>3. turns' = [turns EXCEPT ![n] = x] /\ proc' = [proc EXCEPT ![t] = p]
        /\ UNCHANGED <<open, folder>>
    BY <1>1 DEF Kill
  <1>4. x \in Turns
    BY <1>2 DEF Turns
  <1>5. /\ x.at = turns[n].at /\ x.aider \notin AtWork /\ x.thread = t /\ x.alive
        /\ x.done = turns[n].done /\ x.answers = turns[n].answers /\ x.code = turns[n].code
        /\ x.says = turns[n].says /\ turns[n].aider \notin AtWork => x.aider = turns[n].aider
    BY <1>1, <1>2 DEF Turns, Seen, AtWork
  <1>6. Sound(x)
    BY <1>2, <1>5 DEF Sound, AtWork
  <1>7. /\ p \in Procs /\ p.in = proc[t].in /\ p.turn = proc[t].turn /\ p.out = proc[t].out
        /\ p.at = "finish" /\ p.cancels = n
    BY <1>1, <1>2 DEF Procs
  <1> HIDE DEF x, p
  <1>8. DOMAIN turns' = DOMAIN turns /\ proc'[t] = p
         /\ \A m \in DOMAIN turns : turns'[m] = IF m = n THEN x ELSE turns[m]
    BY <1>3 DEF Inv, Shape
  <1>9. OpenOf(t)' /\ OpenTyped(t)'
    BY <1>1, <1>2, <1>3, <1>5, <1>8 DEF ThreadInv, OpenOf, OpenTyped, Seen
  <1>10. ReaderOf(t)'
    BY <1>1, <1>2, <1>5, <1>7, <1>8 DEF ThreadInv, ReaderOf, Seen
  <1>11. InOf(t)'
    BY <1>1, <1>2, <1>3, <1>5, <1>7, <1>8 DEF ThreadInv, InOf, Unseen, Seen
  <1>12. OutOf(t)'
    BY <1>2, <1>3, <1>5, <1>7, <1>8 DEF ThreadInv, OutOf
  <1>13. ThreadInv(t)'
    BY <1>9, <1>10, <1>11, <1>12 DEF ThreadInv
  <1>14. turns[n].thread = t
    BY <1>1 DEF Seen
  <1> QED
    BY <1>3, <1>4, <1>5, <1>6, <1>7, <1>13, <1>14, TurnStep DEF Inv, Shape

LEMMA SayCancelled_Inv ==
    ASSUME Inv, NEW t \in Threads, SayCancelled(t)
    PROVE  Inv'
  <1>1. PICK n \in DOMAIN turns : n = proc[t].cancels /\ Seen(t, n) /\ turns[n].aider \notin AtWork
    BY DEF SayCancelled, Inv, ThreadInv, ReaderOf, Seen
  <1> DEFINE y == turns[n]
             x == [y EXCEPT !.done = TRUE, !.at = y.at,
                            !.answers = IF y.done THEN @ ELSE Append(@, "cancelled")]
             p == [proc[t] EXCEPT !.out = OutAfter(n), !.at = "read", !.cancels = 0]
  <1>2. y \in Turns /\ Sound(y) /\ proc[t] \in Procs /\ Mine(n) = proc[t] /\ n \in Nat
        /\ y.thread = t
    BY <1>1, TurnFacts DEF Seen, Mine
  <1>3. turns' = [turns EXCEPT ![n] = x]
    <2>1. CASE y.done
      BY <1>1, <1>2, <2>1 DEF SayCancelled, TurnsAfter, Answers, Turns
    <2>2. CASE ~y.done
      BY <1>1, <1>2, <2>2 DEF SayCancelled, TurnsAfter, Answers, Turns
    <2> QED
      BY <2>1, <2>2
  <1>4. proc' = [proc EXCEPT ![t] = p] /\ UNCHANGED <<open, folder>>
    BY <1>1 DEF SayCancelled
  <1>5. x \in Turns /\ Sound(x)
    BY <1>1, <1>2, AnsweredTurn DEF Stops, Seen
  <1>6. OutAfter(n) \in Seq(Nat)
    BY <1>2, AppendProperties DEF OutAfter, Procs
  <1>7. /\ p \in Procs /\ p.in = Mine(n).in /\ p.out = OutAfter(n) /\ p.turn = Mine(n).turn
        /\ p.cancels = 0 /\ p.at = "read"
    BY <1>2, <1>6 DEF Procs
  <1>8. /\ x.thread = t /\ x.alive = y.alive /\ x.done /\ x.at = y.at /\ x.aider = y.aider
    BY <1>2 DEF Turns
  <1> HIDE DEF x, p
  <1> QED
    BY <1>1, <1>2, <1>3, <1>4, <1>5, <1>7, <1>8, AnswerStep DEF Seen

-----------------------------------------------------------------------------
(* The host.                                                               *)

LEMMA Spawn_Inv ==
    ASSUME Inv, NEW t \in Threads, Spawn(t)
    PROVE  Inv'
  <1> DEFINE p == [NoProc EXCEPT !.alive = TRUE]
  <1>1. ThreadInv(t) /\ UNCHANGED <<open, turns, folder>> /\ proc' = [proc EXCEPT ![t] = p]
    BY DEF Inv, Spawn
  <1>2. p \in Procs /\ p.in = <<>> /\ p.out = <<>> /\ p.turn = 0 /\ p.cancels = 0 /\ p.at = "read"
    <2>1. NoProc \in Procs /\ NoProc.in = <<>> /\ NoProc.out = <<>> /\ NoProc.turn = 0
          /\ NoProc.cancels = 0 /\ NoProc.at = "read"
      BY DEF NoProc, Procs
    <2> QED
      BY <2>1 DEF Procs
  <1> HIDE DEF p
  <1>3. proc'[t] = p
    BY <1>1 DEF Inv, Shape
  <1>4. InOf(t)'
    BY <1>2, <1>3, EmptySeq DEF InOf
  <1>5. ThreadInv(t)'
    BY <1>1, <1>2, <1>3, <1>4 DEF ThreadInv, OpenOf, ReaderOf, OutOf, OpenTyped
  <1> QED
    BY <1>1, <1>2, <1>5, ProcStep DEF Inv, Shape

\* What is added to what waits is behind it.
LEMMA AddedToIn ==
    ASSUME NEW s \in Seq(Nat), NEW n \in Nat
    PROVE  /\ Append(s, n) \in Seq(Nat) /\ Len(s) \in Nat
           /\ \A i \in 1..Len(Append(s, n)) :
                \/ i \in 1..Len(s) /\ Append(s, n)[i] = s[i]
                \/ i = Len(s) + 1 /\ Append(s, n)[i] = n
  <1>1. Len(s) \in Nat
    BY LenProperties
  <1>2. /\ Append(s, n) \in Seq(Nat) /\ Len(Append(s, n)) = Len(s) + 1
        /\ \A i \in 1..Len(s) : Append(s, n)[i] = s[i]
        /\ Append(s, n)[Len(s) + 1] = n
    BY AppendProperties
  <1>3. ASSUME NEW i \in 1..Len(Append(s, n))
        PROVE  \/ i \in 1..Len(s) /\ Append(s, n)[i] = s[i]
               \/ i = Len(s) + 1 /\ Append(s, n)[i] = n
    <2>1. i \in 1..Len(s) \/ i = Len(s) + 1
      BY <1>1, <1>2
    <2> QED
      BY <1>2, <2>1
  <1> QED
    BY <1>1, <1>2, <1>3

LEMMA SendCancel_Inv ==
    ASSUME Inv, NEW t \in Threads, SendCancel(t)
    PROVE  Inv'
  <1> DEFINE p == [proc[t] EXCEPT !.in = Append(proc[t].in, Cancel)]
  <1>1. /\ ThreadInv(t) /\ UNCHANGED <<open, turns, folder>>
        /\ proc[t] \in Procs /\ proc' = [proc EXCEPT ![t] = p] /\ Cancel = 0
    BY DEF Inv, Shape, SendCancel, Cancel
  <1>0. p = [proc[t] EXCEPT !.in = Append(proc[t].in, 0)]
    BY DEF Cancel
  <1> HIDE DEF p
  <1>2. /\ p \in Procs /\ p.out = proc[t].out /\ p.turn = proc[t].turn /\ p.at = proc[t].at
        /\ p.cancels = proc[t].cancels
        /\ \A i \in 1..Len(p.in) : p.in[i] # 0 =>
              i \in 1..Len(proc[t].in) /\ p.in[i] = proc[t].in[i]
    <2>1. proc[t].in \in Seq(Nat)
      BY <1>1 DEF Procs
    <2>2. p \in Procs /\ p.in = Append(proc[t].in, 0)
      BY <1>1, <1>0, <2>1, AddedToIn DEF Procs
    <2>3. /\ p.out = proc[t].out /\ p.turn = proc[t].turn /\ p.at = proc[t].at
          /\ p.cancels = proc[t].cancels
      BY <1>1, <1>0 DEF Procs
    <2> QED
      BY <2>1, <2>2, <2>3, AddedToIn
  <1>3. proc'[t] = p
    BY <1>1 DEF Inv, Shape
  <1>4. InOf(t)'
    BY <1>1, <1>2, <1>3 DEF ThreadInv, InOf, Unseen
  <1>5. OpenOf(t)' /\ OutOf(t)' /\ OpenTyped(t)' /\ ReaderOf(t)'
    BY <1>1, <1>2, <1>3 DEF ThreadInv, OpenOf, OutOf, OpenTyped, ReaderOf, Seen
  <1>6. ThreadInv(t)'
    BY <1>4, <1>5 DEF ThreadInv
  <1> QED
    BY <1>1, <1>2, <1>6, ProcStep DEF Inv, Shape

LEMMA HandleAnswer_Inv ==
    ASSUME Inv, NEW t \in Threads, HandleAnswer(t)
    PROVE  Inv'
  <1> DEFINE p == [proc[t] EXCEPT !.out = Tail(proc[t].out)]
  <1>1. /\ ThreadInv(t) /\ UNCHANGED <<turns, folder>> /\ open' = [open EXCEPT ![t] = 0]
        /\ proc[t] \in Procs /\ proc' = [proc EXCEPT ![t] = p]
    BY DEF Inv, Shape, HandleAnswer
  <1>2. /\ open[t] \in DOMAIN turns /\ proc[t].out = <<open[t]>> /\ turns[open[t]].done
        /\ Sound(turns[open[t]])
    BY <1>1 DEF HandleAnswer, ThreadInv, OutOf, Inv
  <1>3. Tail(proc[t].out) = <<>>
    BY <1>2
  <1>4. /\ p \in Procs /\ p.out = <<>> /\ p.turn = proc[t].turn /\ p.at = proc[t].at
        /\ p.cancels = proc[t].cancels /\ p.in = proc[t].in
    BY <1>1, <1>3, EmptySeq DEF Procs
  <1> HIDE DEF p
  <1>5. proc'[t] = p /\ open'[t] = 0 /\ open' \in [Threads -> Nat]
        /\ \A u \in Threads \ {t} : open'[u] = open[u]
    BY <1>1 DEF Inv, Shape
  <1>6. OpenOf(t)'
    BY <1>1, <1>2 DEF ThreadInv, OpenOf
  <1>7. InOf(t)'
    <2>1. \A i \in 1..Len(proc[t].in) : proc[t].in[i] = 0
      BY <1>1, <1>2 DEF ThreadInv, InOf, Unseen, Sound
    <2> QED
      BY <1>4, <1>5, <2>1 DEF InOf
  <1>8. ReaderOf(t)'
    BY <1>1, <1>4, <1>5 DEF ThreadInv, ReaderOf, Seen
  <1>9. ThreadInv(t)'
    BY <1>4, <1>5, <1>6, <1>7, <1>8 DEF ThreadInv, OutOf, OpenTyped
  <1> QED
    BY <1>1, <1>4, <1>5, <1>9, ProcStep

LEMMA SendTurn_Inv ==
    ASSUME Inv, NEW t \in Threads, SendTurn(t)
    PROVE  Inv'
  <1> DEFINE n == Len(turns) + 1
             p == [proc[t] EXCEPT !.in = Append(proc[t].in, n)]
             x == NewTurn(t)
  <1>1. /\ ThreadInv(t) /\ open[t] = 0 /\ folder' = folder /\ turns' = Append(turns, x)
        /\ open' = [open EXCEPT ![t] = n] /\ proc' = [proc EXCEPT ![t] = p]
        /\ proc[t] \in Procs
    BY DEF Inv, Shape, SendTurn
  <1>2. turns \in Seq(Turns) /\ Len(turns) \in Nat /\ DOMAIN turns = 1..Len(turns)
    BY LenProperties DEF Inv, Shape
  <1>3. x \in Turns /\ Sound(x) /\ x.thread = t /\ x.alive /\ x.at = "sent"
    BY DEF NewTurn, Turns, Sound, AtWork
  <1>4. /\ turns' \in Seq(Turns) /\ Len(turns') = n /\ turns'[n] = x
        /\ DOMAIN turns' = 1..n /\ \A m \in DOMAIN turns : turns'[m] = turns[m]
    BY <1>1, <1>2, <1>3, AppendProperties, LenProperties
  <1>5. n \in Nat \ {0} /\ DOMAIN turns' = DOMAIN turns \cup {n} /\ n \notin DOMAIN turns
    BY <1>2, <1>4
  <1>0. p = [proc[t] EXCEPT !.in = Append(proc[t].in, n)]
    OBVIOUS
  <1> HIDE DEF n, p, x
  <1>6. /\ p \in Procs /\ p.out = proc[t].out /\ p.turn = proc[t].turn /\ p.at = proc[t].at
        /\ p.cancels = proc[t].cancels /\ Len(proc[t].in) \in Nat
        /\ \A i \in 1..Len(p.in) :
             \/ i \in 1..Len(proc[t].in) /\ p.in[i] = proc[t].in[i]
             \/ i = Len(proc[t].in) + 1 /\ p.in[i] = n
    <2>1. proc[t].in \in Seq(Nat)
      BY <1>1 DEF Procs
    <2>2. p \in Procs /\ p.in = Append(proc[t].in, n)
      BY <1>1, <1>5, <1>0, <2>1, AddedToIn DEF Procs
    <2>3. /\ p.out = proc[t].out /\ p.turn = proc[t].turn /\ p.at = proc[t].at
          /\ p.cancels = proc[t].cancels
      BY <1>1, <1>0 DEF Procs
    <2>4. Len(proc[t].in) \in Nat
          /\ \A i \in 1..Len(p.in) :
               \/ i \in 1..Len(proc[t].in) /\ p.in[i] = proc[t].in[i]
               \/ i = Len(proc[t].in) + 1 /\ p.in[i] = n
      <3>1. n \in Nat
        BY <1>5
      <3> QED
        BY <2>1, <2>2, <3>1, AddedToIn
    <2> QED
      BY <2>2, <2>3, <2>4
  <1>7. PICK k \in Nat \ {0} : k = n
    BY <1>5
  <1>8. /\ proc'[t] = p /\ open'[t] = k /\ Shape'
        /\ \A u \in Threads \ {t} : proc'[u] = proc[u] /\ open'[u] = open[u]
    BY <1>1, <1>4, <1>6, <1>7 DEF Inv, Shape
  <1>9. \A m \in DOMAIN turns' : Sound(turns'[m])
    BY <1>3, <1>4, <1>5 DEF Inv
  <1>10. \A u \in Threads \ {t} : ThreadInv(u)'
    BY <1>3, <1>4, <1>5, <1>8, OthersKept
  <1>11. proc[t].out = <<>>
    BY <1>1, <1>2 DEF ThreadInv, OutOf
  <1>12. \A i \in 1..Len(proc[t].in) : proc[t].in[i] = 0
    BY <1>1 DEF ThreadInv, InOf
  <1>13. OpenOf(t)'
    BY <1>1, <1>2, <1>4, <1>5, <1>7, <1>8 DEF ThreadInv, OpenOf
  <1>14. InOf(t)'
    <2>1. Unseen(t, k)'
      BY <1>3, <1>4, <1>5, <1>7 DEF Unseen
    <2>2. \A i \in 1..Len(p.in) : p.in[i] # 0 => i = Len(proc[t].in) + 1 /\ p.in[i] = k
      BY <1>6, <1>7, <1>12
    <2> QED
      BY <1>8, <2>1, <2>2 DEF InOf, Unseen
  <1>15. ReaderOf(t)'
    <2>1. \A m \in DOMAIN turns : Seen(t, m) => Seen(t, m)'
      BY <1>4, <1>5 DEF Seen
    <2>2. proc[t].turn # 0 => proc[t].turn \in DOMAIN turns
      BY <1>1 DEF ThreadInv, ReaderOf, Seen
    <2>3. proc[t].cancels # 0 => proc[t].cancels \in DOMAIN turns
      BY <1>1 DEF ThreadInv, ReaderOf, Seen
    <2> QED
      BY <1>1, <1>4, <1>6, <1>8, <2>1, <2>2, <2>3 DEF ThreadInv, ReaderOf, Seen
  <1>16. ThreadInv(t)'
    BY <1>5, <1>6, <1>7, <1>8, <1>11, <1>13, <1>14, <1>15 DEF ThreadInv, OutOf, OpenTyped
  <1> QED
    BY <1>8, <1>9, <1>10, <1>16 DEF Inv

LEMMA Drop_Inv ==
    ASSUME Inv, NEW t \in Threads, Drop(t)
    PROVE  Inv'
  <1>1. /\ proc' = [proc EXCEPT ![t] = NoProc] /\ open' = [open EXCEPT ![t] = 0]
        /\ folder' = folder
        /\ turns' = [n \in DOMAIN turns |->
                       IF turns[n].thread = t THEN [turns[n] EXCEPT !.alive = FALSE] ELSE turns[n]]
    BY DEF Drop
  <1>2. turns \in Seq(Turns) /\ Len(turns) \in Nat /\ DOMAIN turns = 1..Len(turns)
    BY LenProperties DEF Inv, Shape
  <1>3. \A n \in DOMAIN turns : turns[n] \in Turns /\ Sound(turns[n])
    BY TurnFacts
  <1>4. \A n \in DOMAIN turns : /\ [turns[n] EXCEPT !.alive = FALSE] \in Turns
                                /\ Sound([turns[n] EXCEPT !.alive = FALSE])
    BY ZenonT(40), <1>3 DEF Turns, Sound
  <1>5. \A n \in DOMAIN turns :
           /\ turns'[n] \in Turns /\ Sound(turns'[n]) /\ turns'[n].thread = turns[n].thread
           /\ turns[n].thread = t => ~turns'[n].alive
           /\ turns[n].thread # t => turns'[n] = turns[n]
    BY <1>1, <1>3, <1>4 DEF Turns
  <1>6. turns' \in Seq(Turns) /\ DOMAIN turns' = DOMAIN turns
    <2>1. turns' \in [1..Len(turns) -> Turns]
      BY <1>1, <1>2, <1>5
    <2> QED
      BY <1>2, <2>1 DEF Seq
  <1>7. NoProc \in Procs /\ NoProc.in = <<>> /\ NoProc.out = <<>> /\ NoProc.turn = 0
        /\ NoProc.cancels = 0 /\ NoProc.at = "read"
    BY DEF NoProc, Procs
  <1>8. Shape' /\ proc'[t] = NoProc /\ open'[t] = 0
        /\ \A u \in Threads \ {t} : proc'[u] = proc[u] /\ open'[u] = open[u]
    BY <1>1, <1>6, <1>7 DEF Inv, Shape
  <1>9. \A u \in Threads \ {t} : ThreadInv(u)'
    BY <1>5, <1>6, <1>8, OthersKept
  <1>10. InOf(t)'
    BY <1>7, <1>8, EmptySeq DEF InOf
  <1>11. ThreadInv(t)'
    BY <1>5, <1>6, <1>7, <1>8, <1>10 DEF ThreadInv, OpenOf, ReaderOf, OutOf, OpenTyped
  <1> QED
    BY <1>5, <1>6, <1>8, <1>9, <1>11 DEF Inv

-----------------------------------------------------------------------------
(* The theorem.                                                            *)

LEMMA AiderInit_Inv == AiderInit => Inv
  <1> SUFFICES ASSUME AiderInit PROVE Inv
    OBVIOUS
  <1>1. NoProc \in Procs /\ NoProc.in = <<>> /\ NoProc.out = <<>> /\ NoProc.turn = 0
        /\ NoProc.cancels = 0 /\ NoProc.at = "read"
    BY DEF NoProc, Procs
  <1>2. turns = <<>> /\ turns \in Seq(Turns) /\ DOMAIN turns = {}
    BY EmptySeq, LenProperties DEF AiderInit
  <1>3. Shape
    BY <1>1, <1>2 DEF AiderInit, Shape
  <1>4. \A t \in Threads : proc[t] = NoProc /\ open[t] = 0
    BY DEF AiderInit
  <1>5. \A t \in Threads : ThreadInv(t)
    BY <1>1, <1>2, <1>4, EmptySeq DEF ThreadInv, OpenOf, ReaderOf, InOf, OutOf, OpenTyped
  <1> QED
    BY <1>2, <1>3, <1>5 DEF Inv

LEMMA AiderNext_Inv == Inv /\ [AiderNext]_<<vars, aiderVars>> => Inv'
  <1> SUFFICES ASSUME Inv, [AiderNext]_<<vars, aiderVars>> PROVE Inv'
    OBVIOUS
  <1>1. CASE UNCHANGED aiderVars
    BY <1>1 DEF aiderVars, Inv, Shape, ThreadInv, OpenOf, ReaderOf, InOf, OutOf, OpenTyped,
                Seen, Unseen
  <1>2. ASSUME NEW t \in Threads, HostSteps(t)
        PROVE  Inv'
    BY <1>2, Spawn_Inv, SendTurn_Inv, SendCancel_Inv, HandleAnswer_Inv, Drop_Inv DEF HostSteps
  <1>3. ASSUME NEW t \in Threads, ReaderSteps(t)
        PROVE  Inv'
    BY <1>3, ReadPrompt_Inv, PromptFails_Inv, ReadCancel_Inv, Kill_Inv, SayCancelled_Inv
    DEF ReaderSteps
  <1>4. ASSUME NEW n \in DOMAIN turns, TurnSteps(n) \/ Begin(n) \/ Exit(n)
        PROVE  Inv'
    BY <1>4, TurnSteps_Inv, AiderSteps_Inv
  <1> QED
    BY <1>1, <1>2, <1>3, <1>4 DEF AiderNext

\* However a cancel races the end of a turn, the next prompt and the adapter's
\* death, each turn is answered once and truly, and an `aider` at work under a
\* live adapter is the open run of its thread (aider_acp.rs, finish_turn).
THEOREM TurnsAnswered == AiderSpec => []TurnsAreAnswered
  <1>1. AiderInit => Inv
    BY AiderInit_Inv
  <1>2. Inv /\ [AiderNext]_<<vars, aiderVars>> => Inv'
    BY AiderNext_Inv
  <1>3. Inv => TurnsAreAnswered
    <2> SUFFICES ASSUME Inv PROVE TurnsAreAnswered
      OBVIOUS
    <2>1. turns \in Seq(Turns) /\ Len(turns) \in Nat /\ DOMAIN turns = 1..Len(turns)
      BY LenProperties DEF Inv, Shape
    <2>2. \A n \in DOMAIN turns : turns[n] \in Turns /\ Sound(turns[n])
      BY TurnFacts
    <2>3. \A t \in Threads :
             /\ open[t] \in 0..Len(turns) /\ proc[t].at \in {"read", "kill", "finish"}
             /\ {proc[t].turn, proc[t].cancels} \subseteq 0..Len(turns)
      BY <2>1 DEF Inv, Shape, ThreadInv, OpenTyped, ReaderOf, Seen, Procs
    <2>4. AiderTypeOK
      BY <2>1, <2>2, <2>3 DEF AiderTypeOK, Inv, Shape, Turns, Stops
    <2>5. ASSUME NEW n \in DOMAIN turns
          PROVE  OneAnswer(n) /\ HonestAnswer(n)
      <3>1. Sound(turns[n])
        BY <2>2
      <3>2. turns[n].answers = <<>> \/ \E stop \in Stops : turns[n].answers = <<stop>>
        BY <3>1 DEF Sound
      <3>0. \A stop \in Stops : Len(<<stop>>) = 1 /\ <<stop>> # <<>>
        OBVIOUS
      <3>3. Len(turns[n].answers) <= 1
        <4>1. CASE turns[n].answers = <<>>
          BY <4>1
        <4>2. CASE turns[n].answers # <<>>
          <5>1. PICK stop \in Stops : turns[n].answers = <<stop>>
            BY <3>2, <4>2
          <5>2. Len(turns[n].answers) = 1
            BY <3>0, <5>1
          <5> QED
            BY <5>2
        <4> QED
          BY <4>1, <4>2
      <3>4. turns[n].at = "over" => turns[n].answers # <<>>
        BY <3>0, <3>1 DEF Sound
      <3> QED
        BY <3>1, <3>3, <3>4 DEF OneAnswer, HonestAnswer, Sound
    <2>6. ASSUME NEW n \in DOMAIN turns, Served(n), turns[n].aider \in AtWork
          PROVE  open[turns[n].thread] = n
      BY <2>2, <2>6, TurnFacts DEF Served, Sound, ThreadInv, OpenOf
    <2> QED
      BY <2>4, <2>5, <2>6 DEF TurnsAreAnswered
  <1> QED
    BY <1>1, <1>2, <1>3, PTL DEF AiderSpec

\* What is proved above of the shared process holds beside the adapters of
\* threads: none of their steps touches it.
THEOREM PoolUntouched == AiderSpec => Spec
  <1>1. AiderInit => Init
    BY DEF AiderInit
  <1>2. [AiderNext]_<<vars, aiderVars>> => [Next]_vars
    BY DEF AiderNext, HostSteps, Spawn, SendTurn, SendCancel, HandleAnswer, Drop,
           ReaderSteps, ReadPrompt, PromptFails, ReadCancel, Kill, SayCancelled,
           TurnSteps, Streamed, Waited, Judged, Ended, Begin, Exit
  <1> QED
    BY <1>1, <1>2, PTL DEF AiderSpec, Spec

=============================================================================
