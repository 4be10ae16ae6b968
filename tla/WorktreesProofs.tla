-------------------------- MODULE WorktreesProofs ---------------------------
(***************************************************************************)
(* What holds of the worktrees for any threads and slugs, edits, failing   *)
(* commands, crashes, archives and reopenings.                             *)
(***************************************************************************)
EXTENDS Worktrees, FiniteSetTheorems, TLAPS

-----------------------------------------------------------------------------
(* The invariant.                                                          *)

TreeRows == [disk : BOOLEAN, known : BOOLEAN, head : Branches \cup {Detached},
             at : SUBSET Work, dirt : SUBSET Work]
ThreadRows == [state : {"none", "live", "archived", "deleted"},
               cwd : {"none", "tree", "checkout"},
               branch : Branches \cup {NoBranch, Main}, claims : BOOLEAN]
Ops == [kind : Releases \cup {"open", "reopen"}, thread : Threads \cup {NoThread},
        dir : Dirs,
        step : {"save", "anchor", "remove", "branch", "clear", "misnamed", "add", "insert",
                "restore", "claim"},
        saved : Branches \cup {NoBranch}, todo : SUBSET Dirs]

HeadsOK == /\ heads \in [DOMAIN heads -> SUBSET Work]
           /\ DOMAIN heads \subseteq Branches
\* A directory is registered as long as it stands.
TreesOK == /\ trees \in [Dirs -> TreeRows]
           /\ \A d \in Dirs : /\ trees[d].head # Detached => trees[d].head \in DOMAIN heads
                              /\ trees[d].disk => trees[d].known
RowsOK == /\ rows \in [Threads -> ThreadRows]
          /\ \A t \in Threads : rows[t].state = "none" => ~rows[t].claims
RestOK == /\ up \in {"down", "up", "storeless"} /\ work \in 0..MaxWork
          /\ forfeited \cup adrift \subseteq Work

\* An operation is about a thread that is not live, but for a reopening, or about
\* directories that no live thread claims; what it saved is on a branch, and is what
\* the row says when the claim is cleared.
Fit(o) == /\ o \in Ops /\ o.saved \in DOMAIN heads \cup {NoBranch}
          /\ IF o.kind = "sweep" THEN \A d \in o.todo \cup {o.dir} : ~Claimed(d)
             ELSE /\ o.thread \in Threads /\ o.dir = Slug[o.thread]
                  /\ IF o.kind = "reopen" THEN rows[o.thread].state = "live"
                     ELSE ~Live(o.thread)
OpOK == op # Idle => /\ Fit(op)
                     /\ op.step = "clear" /\ op.saved # NoBranch
                           => rows[op.thread].branch = op.saved

\* What a detached HEAD has is on a branch too, or was committed on no branch.
HeadsAreHeld == \A d \in Dirs : trees[d].at \subseteq Reachable \cup adrift

Kept == HeadsOK /\ TreesOK /\ RowsOK /\ RestOK /\ OpOK /\ HeadsAreHeld /\ WorkIsKept

LEMMA KeptTypes == Kept => TypeOK
  BY DEF Kept, HeadsOK, TreesOK, RowsOK, RestOK, OpOK, Fit, Ops, TreeRows, ThreadRows, TypeOK

-----------------------------------------------------------------------------
(* The operators the model is built from.                                  *)

LEMMA Bounds == MaxNames \in Nat \ {0} /\ MaxWork \in Nat /\ {MaxStops, MaxMishaps, MaxMoves} \subseteq Nat
  BY WorktreesAssumption

\* A set of numbers up to a bound has a least.
LEMMA LeastOf ==
    ASSUME NEW k \in Nat, NEW S \in SUBSET (1..k), S # {}
    PROVE  \E n \in S : \A m \in S : n <= m
  <1> DEFINE Upto(n) == {m \in S : m <= n}
             T == {Upto(n) : n \in S}
  <1>1. IsWellFoundedOn(StrictSubsetOrdering(S), FiniteSubsetsOf(S))
    BY FS_StrictSubsetOrderingWellFounded
  <1>2. IsFiniteSet(S)
    <2>1. IsFiniteSet(1..k)
      BY FS_Interval
    <2> QED
      BY <2>1, FS_Subset
  <1>3. T \subseteq FiniteSubsetsOf(S) /\ T # {}
    <2>1. \A n \in S : Upto(n) \subseteq S
      OBVIOUS
    <2>2. \A n \in S : IsFiniteSet(Upto(n))
      BY <1>2, <2>1, FS_Subset
    <2> QED
      BY <2>1, <2>2 DEF FiniteSubsetsOf
  <1> HIDE DEF T
  <1>4. PICK x \in T : \A y \in T : ~ (<<y, x>> \in StrictSubsetOrdering(S))
    BY <1>1, <1>3, WFMin
  <1>5. PICK n \in S : x = Upto(n)
    BY <1>4 DEF T
  <1>6. ASSUME NEW m \in S PROVE n <= m
    <2>1. n \in Nat /\ m \in Nat
      OBVIOUS
    <2>2. CASE m < n
      <3>1. Upto(m) \subseteq Upto(n) /\ n \in Upto(n) /\ n \notin Upto(m)
        <4>1. \A j \in S : j \in Nat
          OBVIOUS
        <4>2. \A j \in S : j <= m => j <= n
          BY <2>1, <2>2, <4>1
        <4>3. n <= n /\ ~(n <= m)
          BY <2>1, <2>2
        <4> QED
          BY <4>2, <4>3
      <3>2. Upto(m) \in T /\ Upto(m) \in SUBSET S /\ Upto(n) \in SUBSET S
        BY DEF T
      <3> HIDE DEF Upto
      <3>3. <<Upto(m), Upto(n)>> \in StrictSubsetOrdering(S)
        BY <3>1, <3>2 DEF StrictSubsetOrdering
      <3> QED
        BY <1>4, <1>5, <3>2, <3>3
    <2> QED
      BY <2>1, <2>2
  <1> QED
    BY <1>6

\* free_branch finds a name that nothing holds.
LEMMA FreeBranchOf ==
    ASSUME NEW kind \in {"own", "rescue"}, NEW d \in Dirs, Names(kind, d) # {}
    PROVE  /\ FreeBranch(kind, d) \in Branches /\ FreeBranch(kind, d) \in OwnBranches
           /\ FreeBranch(kind, d) \notin DOMAIN heads
  <1>1. Names(kind, d) \subseteq 1..MaxNames
    BY DEF Names
  <1>2. \E n \in Names(kind, d) : \A m \in Names(kind, d) : n <= m
    BY <1>1, Bounds, LeastOf
  <1> DEFINE n == CHOOSE n \in Names(kind, d) : \A m \in Names(kind, d) : n <= m
  <1>3. n \in Names(kind, d)
    BY <1>2
  <1>4. FreeBranch(kind, d) = <<kind, d, n>>
    BY DEF FreeBranch
  <1> HIDE DEF n
  <1>5. n \in 1..MaxNames /\ <<kind, d, n>> \notin DOMAIN heads
    BY <1>3 DEF Names
  <1> QED
    BY <1>4, <1>5 DEF Branches, OwnBranches

LEMMA NoTreeOf == NoTree \in TreeRows /\ NoTree.head = Detached /\ ~NoTree.disk /\ NoTree.at = {}
  BY DEF NoTree, TreeRows

LEMMA CheckoutOf ==
    ASSUME NEW b \in Branches
    PROVE  /\ Checkout(b) \in TreeRows /\ Checkout(b).head = b /\ Checkout(b).at = {}
           /\ Checkout(b).disk /\ Checkout(b).known /\ Checkout(b).dirt = {}
  BY DEF Checkout, TreeRows

\* A branch is no empty name, and the operation at rest is none.
LEMMA Names3 == /\ \A b \in Branches : b # NoBranch /\ b # Detached
                /\ Detached = NoBranch
                /\ \A o : o = Idle => o.kind = "idle"
                /\ \A o \in Ops : o # Idle /\ o.kind # "idle"
  <1>1. \A b \in Branches : b # NoBranch /\ b # Detached
    BY DEF Branches, OwnBranches, Features, NoBranch, Detached
  <1>2. Detached = NoBranch
    BY DEF Detached, NoBranch
  <1>3. \A o : o = Idle => o.kind = "idle"
    BY DEF Idle
  <1>4. \A o \in Ops : o.kind # "idle"
    BY DEF Ops, Releases
  <1> QED
    BY <1>1, <1>2, <1>3, <1>4

LEMMA ReleaseKinds == /\ "idle" \notin Releases /\ {"open", "reopen"} \cap Releases = {}
                      /\ Forced \subseteq Releases /\ Closes \subseteq Releases
                      /\ {"archive", "delete", "discard", "reclaim"} \subseteq Releases \ {"sweep"}
                      /\ Closes = {"archive", "delete"}
  BY DEF Releases, Forced, Closes

LEMMA DoerOf ==
    ASSUME NEW kind \in (Releases \ {"sweep"}) \cup {"open", "reopen"}, NEW t \in Threads,
           NEW step \in {"save", "add", "restore"}
    PROVE  /\ Doer(kind, t, step) \in Ops /\ Doer(kind, t, step).saved = NoBranch
           /\ Doer(kind, t, step).thread = t /\ Doer(kind, t, step).dir = Slug[t]
           /\ Doer(kind, t, step).kind = kind /\ Doer(kind, t, step).step = step
  BY DEF Doer, Ops, Dirs

LEMMA ReleasingOf ==
    ASSUME NEW kind \in Releases \ {"sweep"}, NEW t \in Threads, ~Live(t)
    PROVE  Fit(Releasing(kind, t)) /\ Releasing(kind, t).step = "save"
  BY ReleaseKinds, DoerOf DEF Releasing, Fit

LEMMA AddingOf ==
    ASSUME NEW t \in Threads, ~Live(t)
    PROVE  Fit(Adding(t)) /\ Adding(t).step = "add"
  BY ReleaseKinds, DoerOf DEF Adding, Fit

LEMMA SweptOf ==
    ASSUME NEW todo \in SUBSET Dirs, \A d \in todo : ~Claimed(d)
    PROVE  Swept(todo) # Idle => Fit(Swept(todo)) /\ Swept(todo).step = "save"
  <1>1. CASE todo = {}
    BY <1>1 DEF Swept
  <1>2. CASE todo # {}
    <2> DEFINE d == CHOOSE x \in todo : TRUE
               o == [kind |-> "sweep", thread |-> NoThread, dir |-> d, step |-> "save",
                     saved |-> NoBranch, todo |-> todo \ {d}]
    <2>1. d \in todo /\ Swept(todo) = o
      BY <1>2 DEF Swept
    <2> HIDE DEF d
    <2>2. o \in Ops
      BY <2>1 DEF Ops, Releases
    <2>3. o.kind = "sweep" /\ o.todo \cup {o.dir} = todo /\ o.saved = NoBranch /\ o.step = "save"
      BY <2>1
    <2> HIDE DEF o
    <2> QED
      BY <2>1, <2>2, <2>3 DEF Fit
  <1> QED
    BY <1>1, <1>2

\* What follows a release is about threads that are not live either.
LEMMA AfterOf ==
    ASSUME Kept, op # Idle, op.kind # "reopen"
    PROVE  /\ AfterError # Idle => Fit(AfterError) /\ AfterError.step \in {"save", "add"}
           /\ AfterRelease # Idle => Fit(AfterRelease) /\ AfterRelease.step \in {"save", "add", "branch"}
  <1>1. /\ Fit(op) /\ op \in Ops /\ op.todo \in SUBSET Dirs
        /\ op.kind = "sweep" => \A d \in op.todo : ~Claimed(d)
        /\ op.kind # "sweep" => op.thread \in Threads /\ ~Live(op.thread)
    BY DEF Kept, OpOK, Fit, Ops
  <1>2. AfterError # Idle => Fit(AfterError) /\ AfterError.step \in {"save", "add"}
    BY <1>1, SweptOf, AddingOf DEF AfterError
  <1>3. CASE op.kind \in Closes
    <2>1. AfterRelease = [op EXCEPT !.step = "branch"]
      BY <1>3 DEF AfterRelease
    <2>2. Fit([op EXCEPT !.step = "branch"]) /\ [op EXCEPT !.step = "branch"].step = "branch"
      BY <1>1 DEF Fit, Ops
    <2> QED
      BY <1>2, <2>1, <2>2
  <1>4. CASE op.kind \notin Closes
    BY <1>2, <1>4 DEF AfterRelease
  <1> QED
    BY <1>3, <1>4

-----------------------------------------------------------------------------
(* What a step may do to the branches, the trees, the rows and the         *)
(* operation.                                                              *)

\* Branches only grow.
Grown == \A b \in DOMAIN heads : b \in DOMAIN heads' /\ heads[b] \subseteq heads'[b]
\* No thread becomes live with a tree, and none is put away.
NoneLives ==
    \A u \in Threads : /\ rows'[u].state = "live" /\ rows'[u].claims => Live(u)
                       /\ rows[u].state = "live" => rows'[u].state = "live"
\* An operation that fits what follows the step.
LiveNext(t) == rows'[t].state = "live" /\ rows'[t].claims
ClaimedNext(d) == \E t \in Threads : Slug[t] = d /\ LiveNext(t)
FitNext(o) == /\ o \in Ops /\ o.saved \in DOMAIN heads' \cup {NoBranch}
              /\ IF o.kind = "sweep" THEN \A d \in o.todo \cup {o.dir} : ~ClaimedNext(d)
                 ELSE /\ o.thread \in Threads /\ o.dir = Slug[o.thread]
                      /\ IF o.kind = "reopen" THEN rows'[o.thread].state = "live"
                         ELSE ~LiveNext(o.thread)

LEMMA ReachGrown == ASSUME Grown PROVE Reachable \subseteq Reachable'
  BY DEF Grown, Reachable

LEMMA SameHeads == ASSUME HeadsOK, UNCHANGED heads PROVE HeadsOK' /\ Grown
  BY DEF HeadsOK, Grown

LEMMA NewHead ==
    ASSUME HeadsOK, NEW b \in Branches, b \notin DOMAIN heads, NEW S \in SUBSET Work,
           heads' = [x \in DOMAIN heads \cup {b} |-> IF x = b THEN S ELSE heads[x]]
    PROVE  HeadsOK' /\ Grown /\ DOMAIN heads' = DOMAIN heads \cup {b} /\ heads'[b] = S
  <1>1. DOMAIN heads' = DOMAIN heads \cup {b} /\ heads'[b] = S
    OBVIOUS
  <1>2. \A x \in DOMAIN heads : heads'[x] = heads[x]
    OBVIOUS
  <1>3. heads' \in [DOMAIN heads' -> SUBSET Work]
    BY DEF HeadsOK
  <1> QED
    BY <1>1, <1>2, <1>3 DEF HeadsOK, Grown

LEMMA OpStep ==
    ASSUME Kept, NEW o, op' = o, o # Idle => Fit(o) /\ o.step # "clear", Grown, NoneLives
    PROVE  OpOK'
  <1>1. o # Idle => FitNext(o)
    <2> SUFFICES ASSUME o # Idle PROVE FitNext(o)
      OBVIOUS
    <2>1. Fit(o)
      OBVIOUS
    <2>2. o.saved \in DOMAIN heads' \cup {NoBranch}
      BY <2>1 DEF Fit, Grown
    <2>3. /\ \A t \in Threads : LiveNext(t) => Live(t)
          /\ \A d : ClaimedNext(d) => Claimed(d)
      BY DEF NoneLives, LiveNext, ClaimedNext, Claimed
    <2> QED
      BY <2>1, <2>2, <2>3 DEF Fit, FitNext, NoneLives
  <1> QED
    BY <1>1 DEF OpOK, Fit, FitNext, Live, Claimed, LiveNext, ClaimedNext

LEMMA OpStays == ASSUME Kept, UNCHANGED <<op, rows>>, Grown PROVE OpOK'
  <1> SUFFICES ASSUME op # Idle PROVE OpOK'
    BY DEF OpOK
  <1>1. Fit(op) /\ (op.step = "clear" /\ op.saved # NoBranch => rows[op.thread].branch = op.saved)
    BY DEF Kept, OpOK
  <1>2. op.saved \in DOMAIN heads' \cup {NoBranch}
    BY <1>1 DEF Fit, Grown
  <1> QED
    BY <1>1, <1>2 DEF OpOK, Fit, Live, Claimed

LEMMA SameRows == ASSUME UNCHANGED rows PROVE NoneLives /\ (RowsOK => RowsOK')
  BY DEF NoneLives, Live, RowsOK

LEMMA RowStep ==
    ASSUME Kept, NEW t \in Threads, NEW r \in ThreadRows, rows' = [rows EXCEPT ![t] = r],
           r.state = "none" => ~r.claims
    PROVE  /\ RowsOK' /\ rows'[t] = r
           /\ (r.state = "live" /\ r.claims => Live(t)) /\ (rows[t].state = "live" => r.state = "live")
                 => NoneLives
  BY DEF Kept, RowsOK, NoneLives, Live

\* Trees, branches and edits as they were.
LEMMA SameWork ==
    ASSUME Kept, UNCHANGED <<heads, trees, work, forfeited, adrift>>
    PROVE  HeadsOK' /\ Grown /\ TreesOK' /\ HeadsAreHeld' /\ WorkIsKept'
  BY DEF Kept, HeadsOK, Grown, TreesOK, HeadsAreHeld, WorkIsKept, Reachable, InTrees,
         OnDisk, At

\* One tree changes, and what is no longer in it is elsewhere.
LEMMA TreeStep ==
    ASSUME Kept, HeadsOK', Grown, NEW d \in Dirs, NEW g \in TreeRows,
           trees' = [trees EXCEPT ![d] = g],
           g.head # Detached => g.head \in DOMAIN heads', g.disk => g.known,
           g.at \subseteq Reachable' \cup adrift',
           forfeited \subseteq forfeited', adrift \subseteq adrift',
           OnDisk(d) \subseteq Reachable' \cup OnDisk(d)' \cup forfeited' \cup adrift',
           1..work' \subseteq (1..work) \cup OnDisk(d)'
    PROVE  TreesOK' /\ HeadsAreHeld' /\ WorkIsKept'
  <1>1. trees'[d] = g /\ \A u \in Dirs : u # d => trees'[u] = trees[u]
    BY DEF Kept, TreesOK
  <1>2. Reachable \subseteq Reachable'
    BY ReachGrown
  <1>3. TreesOK'
    <2>1. trees' \in [Dirs -> TreeRows]
      BY DEF Kept, TreesOK
    <2> QED
      BY <1>1, <2>1 DEF Kept, TreesOK, Grown
  <1>4. HeadsAreHeld'
    BY <1>1, <1>2 DEF Kept, HeadsAreHeld
  <1>5. ASSUME NEW u \in Dirs, u # d PROVE OnDisk(u) \subseteq OnDisk(u)'
    <2>1. At(u) \subseteq At(u)'
      BY <1>1, <1>5 DEF At, Grown, Kept, TreesOK
    <2> QED
      BY <1>1, <1>5, <2>1 DEF OnDisk
  <1>6. WorkIsKept'
    <2> SUFFICES ASSUME NEW e \in 1..work'
                 PROVE  e \in Reachable' \cup InTrees' \cup forfeited' \cup adrift'
      BY DEF WorkIsKept
    <2>1. \A u \in Dirs : OnDisk(u)' \subseteq InTrees'
      BY DEF InTrees
    <2>2. CASE e \in OnDisk(d)'
      BY <2>1, <2>2
    <2>3. CASE e \in InTrees
      <3>1. PICK u \in Dirs : e \in OnDisk(u)
        BY <2>3 DEF InTrees
      <3> QED
        BY <1>2, <1>5, <2>1, <3>1
    <2>4. CASE e \in Reachable \cup forfeited \cup adrift
      BY <1>2, <2>4
    <2>5. e \in OnDisk(d)' \/ e \in Reachable \cup InTrees \cup forfeited \cup adrift
      BY DEF Kept, WorkIsKept
    <2> QED
      BY <2>2, <2>3, <2>4, <2>5
  <1> QED
    BY <1>3, <1>4, <1>6

\* git commit moves the edits to the branch, or loses sight of them.
LEMMA CommitStep ==
    ASSUME Kept, NEW d \in Dirs, Committed(d), UNCHANGED <<work, forfeited>>
    PROVE  /\ HeadsOK' /\ Grown /\ TreesOK' /\ HeadsAreHeld' /\ WorkIsKept'
           /\ adrift' \subseteq Work
  <1> DEFINE tree == trees[d]
             at == IF tree.head = Detached THEN tree.at \cup tree.dirt ELSE {}
             g == [tree EXCEPT !.at = at, !.dirt = {}]
  <1>1. /\ tree \in TreeRows /\ tree.head \in Branches \cup {Detached}
        /\ tree.at \in SUBSET Work /\ tree.dirt \in SUBSET Work
        /\ tree.head # Detached => tree.head \in DOMAIN heads
        /\ tree.disk => tree.known
        /\ tree.at \subseteq Reachable \cup adrift
    BY DEF Kept, TreesOK, TreeRows, HeadsAreHeld
  <1>2. trees' = [trees EXCEPT ![d] = g]
    BY DEF Committed
  <1>3. /\ g \in TreeRows /\ g.head = tree.head /\ g.disk = tree.disk /\ g.known = tree.known
        /\ g.at = at /\ g.dirt = {}
    <2>1. at \in SUBSET Work
      BY <1>1
    <2> HIDE DEF at
    <2> QED
      BY <1>1, <2>1 DEF TreeRows
  <1>4. trees'[d] = g
    BY <1>2 DEF Kept, TreesOK
  <1> HIDE DEF g
  <1>5. CASE tree.head = Detached
    <2>1. UNCHANGED heads /\ adrift' = adrift \cup tree.dirt /\ at = tree.at \cup tree.dirt
      BY <1>5 DEF Committed
    <2>2. HeadsOK' /\ Grown
      BY <2>1, SameHeads DEF Kept
    <2>3. adrift' \subseteq Work
      BY <1>1, <2>1 DEF Kept, RestOK
    <2>4. At(d) = tree.at /\ At(d)' = at
      BY <1>3, <1>4, <1>5 DEF At
    <2>5. OnDisk(d) \subseteq OnDisk(d)'
      BY <1>3, <1>4, <2>1, <2>4 DEF OnDisk
    <2>6. g.at \subseteq Reachable' \cup adrift'
      BY <1>1, <1>3, <2>1, <2>2, ReachGrown
    <2>7. TreesOK' /\ HeadsAreHeld' /\ WorkIsKept'
      BY <1>1, <1>2, <1>3, <1>5, <2>1, <2>2, <2>5, <2>6, TreeStep
    <2> QED
      BY <2>2, <2>3, <2>7
  <1>6. CASE tree.head # Detached
    <2>1. /\ heads' = [heads EXCEPT ![tree.head] = @ \cup tree.dirt] /\ UNCHANGED adrift
          /\ at = {}
      BY <1>6 DEF Committed
    <2>2. HeadsOK' /\ Grown /\ heads'[tree.head] = heads[tree.head] \cup tree.dirt
          /\ DOMAIN heads' = DOMAIN heads
      <3>1. heads[tree.head] \cup tree.dirt \in SUBSET Work
        BY <1>1, <1>6 DEF Kept, HeadsOK
      <3>2. DOMAIN heads' = DOMAIN heads /\ heads' \in [DOMAIN heads -> SUBSET Work]
        BY <1>1, <2>1, <3>1 DEF Kept, HeadsOK
      <3> QED
        BY <1>1, <1>6, <2>1, <3>2 DEF Kept, HeadsOK, Grown
    <2>3. adrift' \subseteq Work
      BY <2>1 DEF Kept, RestOK
    <2>4. At(d) = heads[tree.head] /\ At(d)' = heads'[tree.head]
      BY <1>3, <1>4, <1>6 DEF At
    <2>5. OnDisk(d) \subseteq OnDisk(d)'
      BY <1>3, <1>4, <2>2, <2>4 DEF OnDisk
    <2>6. g.at \subseteq Reachable' \cup adrift'
      BY <1>3, <2>1
    <2>7. TreesOK' /\ HeadsAreHeld' /\ WorkIsKept'
      BY <1>1, <1>2, <1>3, <1>6, <2>1, <2>2, <2>5, <2>6, TreeStep
    <2> QED
      BY <2>2, <2>3, <2>7
  <1> QED
    BY <1>5, <1>6

\* What is committed in a tree is on a branch, or was committed on none.
LEMMA AtHeld ==
    ASSUME Kept, NEW d \in Dirs
    PROVE  At(d) \subseteq Reachable \cup adrift /\ At(d) \in SUBSET Work
  <1>1. CASE trees[d].head = Detached
    BY <1>1 DEF At, Kept, HeadsAreHeld, TreesOK, TreeRows
  <1>2. CASE trees[d].head # Detached
    BY <1>2 DEF At, Kept, TreesOK, HeadsOK, Reachable
  <1> QED
    BY <1>1, <1>2

-----------------------------------------------------------------------------
(* Each step keeps the invariant.                                          *)

LEMMA InitKept == Init => Kept
  <1> SUFFICES ASSUME Init PROVE Kept
    OBVIOUS
  <1>1. /\ heads = [b \in {} |-> {}] /\ trees = [d \in Dirs |-> NoTree]
        /\ rows = [t \in Threads |-> NoRow] /\ op = Idle /\ up = "up" /\ work = 0
        /\ forfeited = {} /\ adrift = {}
    BY DEF Init
  <1>2. HeadsOK
    BY <1>1 DEF HeadsOK
  <1>3. TreesOK /\ HeadsAreHeld
    BY <1>1, NoTreeOf DEF TreesOK, HeadsAreHeld
  <1>4. RowsOK
    <2>1. NoRow \in ThreadRows /\ ~NoRow.claims
      BY DEF NoRow, ThreadRows
    <2> QED
      BY <1>1, <2>1 DEF RowsOK
  <1>5. RestOK
    BY <1>1, Bounds DEF RestOK
  <1>6. OpOK
    BY <1>1 DEF OpOK
  <1>7. WorkIsKept
    <2>1. 1..work = {}
      BY <1>1
    <2> QED
      BY <2>1 DEF WorkIsKept
  <1> QED
    BY <1>2, <1>3, <1>4, <1>5, <1>6, <1>7 DEF Kept

\* A step of the operation that touches neither trees nor branches nor rows.
LEMMA OpOnly ==
    ASSUME Kept, UNCHANGED <<heads, trees, rows, work, forfeited, adrift>>,
           up' \in {"down", "up", "storeless"},
           NEW o, op' = o, o # Idle => Fit(o) /\ o.step # "clear"
    PROVE  Kept'
  <1>1. HeadsOK' /\ Grown /\ TreesOK' /\ HeadsAreHeld' /\ WorkIsKept'
    BY SameWork
  <1>2. NoneLives /\ RowsOK'
    BY SameRows DEF Kept
  <1>3. OpOK'
    BY <1>1, <1>2, OpStep
  <1>4. RestOK'
    BY DEF Kept, RestOK
  <1> QED
    BY <1>1, <1>2, <1>3, <1>4 DEF Kept

\* A step of the operation that touches the thread's row.
LEMMA RowOnly ==
    ASSUME Kept, UNCHANGED <<heads, trees, up, work, forfeited, adrift>>, OpOK', RowsOK'
    PROVE  Kept'
  <1>1. HeadsOK' /\ Grown /\ TreesOK' /\ HeadsAreHeld' /\ WorkIsKept'
    BY SameWork
  <1>2. RestOK'
    BY DEF Kept, RestOK
  <1> QED
    BY <1>1, <1>2 DEF Kept

\* The operation as a release, an opening or a reopening has it.
LEMMA OpOf ==
    ASSUME Kept, NEW kinds, NEW step, Doing(kinds, step), "idle" \notin kinds
    PROVE  /\ op # Idle /\ Fit(op) /\ op \in Ops /\ op.kind \in kinds /\ op.step = step
           /\ op.saved \in Branches \cup {NoBranch}
           /\ op.kind = "sweep" => ~Claimed(op.dir)
           /\ op.kind # "sweep" => op.thread \in Threads /\ op.dir = Slug[op.thread]
           /\ op.kind = "reopen" => rows[op.thread].state = "live"
           /\ op.kind \notin {"sweep", "reopen"} => ~Live(op.thread)
           /\ op.step = "clear" /\ op.saved # NoBranch => rows[op.thread].branch = op.saved
  <1>1. op # Idle
    BY Names3 DEF Doing
  <1> QED
    BY <1>1 DEF Doing, Kept, OpOK, Fit, Ops

\* An operation that moves on to another step, with what it saved.
LEMMA OpSet ==
    ASSUME Fit(op), HeadsOK, NEW b \in DOMAIN heads \cup {NoBranch},
           NEW step \in {"remove", "anchor", "insert", "branch", "clear", "misnamed", "claim"}
    PROVE  /\ Fit([op EXCEPT !.step = step]) /\ [op EXCEPT !.step = step].step = step
           /\ [op EXCEPT !.step = step].saved = op.saved
           /\ [op EXCEPT !.step = step].thread = op.thread
           /\ Fit([op EXCEPT !.step = step, !.saved = b])
           /\ [op EXCEPT !.step = step, !.saved = b].step = step
  <1>1. b \in Branches \cup {NoBranch}
    BY DEF HeadsOK
  <1> QED
    BY <1>1 DEF Fit, Ops

LEMMA OpenKept == ASSUME Kept, NEW t \in Threads, Open(t) PROVE Kept'
  <1>1. /\ op = Idle /\ rows[t].state = "none" /\ ~Live(t)
        /\ UNCHANGED <<heads, trees, up, work, forfeited, adrift>>
    BY DEF Open, Serving, Live
  <1>2. CASE /\ op' = IF trees[Slug[t]].disk THEN Releasing("reclaim", t) ELSE Adding(t)
             /\ UNCHANGED rows
    <2> DEFINE o == IF trees[Slug[t]].disk THEN Releasing("reclaim", t) ELSE Adding(t)
    <2>1. Fit(o) /\ o.step # "clear"
      BY <1>1, ReleasingOf, AddingOf, ReleaseKinds
    <2>2. op' = o
      BY <1>2
    <2>3. up' \in {"down", "up", "storeless"}
      BY <1>1 DEF Kept, RestOK
    <2> HIDE DEF o
    <2> QED
      BY <1>1, <1>2, <2>1, <2>2, <2>3, OpOnly
  <1>3. CASE /\ rows' = [rows EXCEPT ![t] = [state |-> "live", cwd |-> "checkout",
                                             branch |-> Main, claims |-> FALSE]]
             /\ UNCHANGED op
    <2> DEFINE r == [state |-> "live", cwd |-> "checkout", branch |-> Main, claims |-> FALSE]
    <2>1. r \in ThreadRows /\ ~r.claims
      BY DEF ThreadRows
    <2> HIDE DEF r
    <2>2. RowsOK'
      BY <1>3, <2>1, RowStep DEF r
    <2>3. OpOK'
      BY <1>1, <1>3 DEF OpOK
    <2> QED
      BY <1>1, <2>2, <2>3, RowOnly
  <1> QED
    BY <1>2, <1>3 DEF Open

LEMMA AddKept == ASSUME Kept, NEW t \in Threads, Add(t) PROVE Kept'
  <1> DEFINE d == Slug[t]
  <1>1. /\ Doing({"open"}, "add") /\ op.thread = t
        /\ UNCHANGED <<rows, up, work, forfeited, adrift>>
    BY DEF Add
  <1>0. d \in Dirs
    BY DEF Dirs
  <1>2. Fit(op) /\ op # Idle /\ ~Live(t)
    <2>1. "idle" \notin {"open"}
      OBVIOUS
    <2> QED
      BY <1>1, <2>1, OpOf
  <1>3. CASE trees[d].disk \/ trees[d].known
    <2>1. op' = Idle /\ UNCHANGED <<heads, trees>>
      BY <1>3 DEF Add
    <2>2. up' \in {"down", "up", "storeless"}
      BY <1>1 DEF Kept, RestOK
    <2> QED
      BY <1>1, <2>1, <2>2, OpOnly
  <1>4. CASE ~(trees[d].disk \/ trees[d].known)
    <2> DEFINE b == FreeBranch("own", d)
    <2>1. /\ Names("own", d) # {}
          /\ heads' = [x \in DOMAIN heads \cup {b} |-> IF x = b THEN {} ELSE heads[x]]
          /\ trees' = [trees EXCEPT ![d] = Checkout(b)]
          /\ op' = [op EXCEPT !.step = "insert"]
      BY <1>4 DEF Add
    <2>2. b \in Branches /\ b \notin DOMAIN heads
      BY <1>0, <2>1, FreeBranchOf
    <2> HIDE DEF b
    <2>3. HeadsOK' /\ Grown /\ b \in DOMAIN heads'
      <3>1. HeadsOK /\ {} \in SUBSET Work
        BY DEF Kept
      <3>2. HeadsOK' /\ Grown /\ DOMAIN heads' = DOMAIN heads \cup {b}
        BY <2>1, <2>2, <3>1, NewHead
      <3> QED
        BY <3>2
    <2>4. OnDisk(d) = {}
      BY <1>4 DEF OnDisk
    <2>5. TreesOK' /\ HeadsAreHeld' /\ WorkIsKept'
      BY <1>0, <1>1, <2>1, <2>2, <2>3, <2>4, CheckoutOf, TreeStep
    <2>6. OpOK'
      <3>1. /\ Fit([op EXCEPT !.step = "insert"])
            /\ [op EXCEPT !.step = "insert"].step # "clear"
        BY <1>2, OpSet DEF Kept
      <3>2. NoneLives
        BY <1>1, SameRows
      <3> QED
        BY <2>1, <2>3, <3>1, <3>2, OpStep
    <2>7. RowsOK' /\ RestOK'
      BY <1>1 DEF Kept, RowsOK, RestOK
    <2> QED
      BY <2>3, <2>5, <2>6, <2>7 DEF Kept
  <1> QED
    BY <1>3, <1>4

LEMMA InsertKept == ASSUME Kept, NEW t \in Threads, Insert(t) PROVE Kept'
  <1> DEFINE r == [state |-> "live", cwd |-> "tree", branch |-> trees[Slug[t]].head, claims |-> TRUE]
  <1>1. /\ rows' = [rows EXCEPT ![t] = r] /\ op' = Idle
        /\ UNCHANGED <<heads, trees, up, work, forfeited, adrift>>
    BY DEF Insert
  <1>2. r \in ThreadRows /\ r.state # "none"
    <2>1. trees[Slug[t]].head \in Branches \cup {NoBranch, Main}
      BY Names3 DEF Kept, TreesOK, TreeRows, Dirs
    <2> QED
      BY <2>1 DEF ThreadRows
  <1> HIDE DEF r
  <1>3. RowsOK'
    BY <1>1, <1>2, RowStep
  <1>4. OpOK'
    BY <1>1 DEF OpOK
  <1> QED
    BY <1>1, <1>3, <1>4, RowOnly

LEMMA InsertFailsKept == ASSUME Kept, NEW t \in Threads, InsertFails(t) PROVE Kept'
  <1>1. /\ Doing({"open"}, "insert") /\ op.thread = t /\ op' = Releasing("discard", t)
        /\ UNCHANGED <<heads, trees, rows, up, work, forfeited, adrift>>
    BY DEF InsertFails
  <1>2. ~Live(t)
    <2>1. "idle" \notin {"open"}
      OBVIOUS
    <2>2. op.kind = "open" /\ ~Live(op.thread)
      BY <1>1, <2>1, OpOf
    <2> QED
      BY <1>1, <2>2
  <1>3. Fit(Releasing("discard", t)) /\ Releasing("discard", t).step # "clear"
    BY <1>2, ReleasingOf, ReleaseKinds
  <1>4. up' \in {"down", "up", "storeless"}
    BY <1>1 DEF Kept, RestOK
  <1> QED
    BY <1>1, <1>3, <1>4, OpOnly

LEMMA CloseKept ==
    ASSUME Kept, NEW t \in Threads, NEW kind \in {"archive", "delete"}, Close(t, kind)
    PROVE  Kept'
  <1> DEFINE state == IF kind = "archive" THEN "archived" ELSE "deleted"
             r == [rows[t] EXCEPT !.state = state]
             o == IF rows[t].claims THEN Releasing(kind, t) ELSE Idle
  <1>1. /\ rows' = [rows EXCEPT ![t] = r] /\ op' = o /\ op = Idle
        /\ UNCHANGED <<heads, trees, up, work, forfeited, adrift>>
    BY DEF Close, Serving
  <1>2. r \in ThreadRows /\ r.state \in {"archived", "deleted"}
    BY DEF Kept, RowsOK, ThreadRows
  <1> HIDE DEF r
  <1>3. RowsOK' /\ rows'[t] = r
    BY <1>1, <1>2, RowStep
  <1>4. OpOK'
    <2>1. CASE o = Idle
      BY <1>1, <2>1 DEF OpOK
    <2>2. CASE o = Releasing(kind, t)
      <3>1. /\ o \in Ops /\ o.saved = NoBranch /\ o.thread = t /\ o.dir = Slug[t]
            /\ o.step = "save" /\ o.kind \notin {"sweep", "reopen"}
        BY <2>2, ReleaseKinds, DoerOf DEF Releasing
      <3> HIDE DEF o
      <3> QED
        BY <1>1, <1>2, <1>3, <3>1 DEF OpOK, Fit, Live
    <2> QED
      BY <2>1, <2>2
  <1> QED
    BY <1>1, <1>3, <1>4, RowOnly

\* A tree that is not there, or that holds nothing but what is on a branch, is
\* dropped with nothing lost that is not said to be.
LEMMA TreeGone ==
    ASSUME Kept, NEW d \in Dirs, trees' = [trees EXCEPT ![d] = NoTree],
           UNCHANGED <<heads, rows, up, work, adrift>>, forfeited \subseteq forfeited',
           forfeited' \subseteq Work,
           trees[d].disk => trees[d].dirt \subseteq forfeited',
           NEW o, op' = o, o # Idle => Fit(o) /\ o.step # "clear"
    PROVE  Kept'
  <1>1. HeadsOK' /\ Grown /\ NoneLives /\ RowsOK'
    BY SameHeads, SameRows DEF Kept
  <1>2. OnDisk(d) \subseteq Reachable' \cup forfeited' \cup adrift'
    <2>1. At(d) \subseteq Reachable \cup adrift
      BY AtHeld
    <2>2. Reachable' = Reachable
      BY DEF Reachable
    <2> QED
      BY <2>1, <2>2 DEF OnDisk
  <1>3. TreesOK' /\ HeadsAreHeld' /\ WorkIsKept'
    BY <1>1, <1>2, NoTreeOf, TreeStep
  <1>4. OpOK'
    BY <1>1, OpStep
  <1>5. RestOK'
    BY DEF Kept, RestOK
  <1> QED
    BY <1>1, <1>3, <1>4, <1>5 DEF Kept

LEMMA ReleaseMissingKept == ASSUME Kept, NEW d \in Dirs, ReleaseMissing(d) PROVE Kept'
  <1>1. /\ Doing(Releases, "save") /\ ~trees[d].disk
        /\ trees' = [trees EXCEPT ![d] = NoTree] /\ op' = AfterRelease
        /\ UNCHANGED <<heads, rows, up, work, forfeited, adrift>>
    BY DEF ReleaseMissing
  <1>2. op # Idle /\ op.kind # "reopen"
    BY <1>1, OpOf, ReleaseKinds
  <1>3. AfterRelease # Idle => Fit(AfterRelease) /\ AfterRelease.step # "clear"
    BY <1>2, AfterOf
  <1>4. forfeited' \subseteq Work /\ forfeited \subseteq forfeited'
    BY <1>1 DEF Kept, RestOK
  <1> QED
    BY <1>1, <1>3, <1>4, TreeGone

LEMMA RemoveKept == ASSUME Kept, NEW d \in Dirs, Remove(d) PROVE Kept'
  <1>1. /\ Doing(Releases, "remove") /\ MayRemove(d)
        /\ forfeited' = forfeited \cup (IF op.kind \in Forced THEN trees[d].dirt ELSE {})
        /\ trees' = [trees EXCEPT ![d] = NoTree] /\ op' = AfterRelease
        /\ UNCHANGED <<heads, rows, up, work, adrift>>
    BY DEF Remove
  <1>2. op # Idle /\ op.kind # "reopen"
    BY <1>1, OpOf, ReleaseKinds
  <1>3. AfterRelease # Idle => Fit(AfterRelease) /\ AfterRelease.step # "clear"
    BY <1>2, AfterOf
  <1>4. forfeited' \subseteq Work /\ forfeited \subseteq forfeited'
    BY <1>1 DEF Kept, RestOK, TreesOK, TreeRows
  <1>5. trees[d].dirt \subseteq forfeited'
    BY <1>1 DEF MayRemove
  <1> QED
    BY <1>1, <1>3, <1>4, <1>5, TreeGone

LEMMA SaveCleanKept == ASSUME Kept, NEW d \in Dirs, SaveClean(d) PROVE Kept'
  <1>1. /\ Doing(Releases, "save") /\ op' = [op EXCEPT !.step = "remove"]
        /\ UNCHANGED <<heads, trees, rows, up, work, forfeited, adrift>>
    BY DEF SaveClean
  <1>2. Fit([op EXCEPT !.step = "remove"]) /\ [op EXCEPT !.step = "remove"].step # "clear"
    BY <1>1, OpOf, OpSet, ReleaseKinds DEF Kept
  <1>3. up' \in {"down", "up", "storeless"}
    BY <1>1 DEF Kept, RestOK
  <1> QED
    BY <1>1, <1>2, <1>3, OpOnly

LEMMA SaveDirtyKept == ASSUME Kept, NEW d \in Dirs, SaveDirty(d) PROVE Kept'
  <1>1. /\ Doing(Releases, "save") /\ Committed(d) /\ op' = [op EXCEPT !.step = "anchor"]
        /\ UNCHANGED <<rows, up, work, forfeited>>
    BY DEF SaveDirty
  <1>2. Fit([op EXCEPT !.step = "anchor"]) /\ [op EXCEPT !.step = "anchor"].step # "clear"
    BY <1>1, OpOf, OpSet, ReleaseKinds DEF Kept
  <1>3. HeadsOK' /\ Grown /\ TreesOK' /\ HeadsAreHeld' /\ WorkIsKept' /\ adrift' \subseteq Work
    BY <1>1, CommitStep
  <1>4. OpOK' /\ RowsOK'
    BY <1>1, <1>2, <1>3, SameRows, OpStep DEF Kept
  <1>5. RestOK'
    BY <1>1, <1>3 DEF Kept, RestOK
  <1> QED
    BY <1>3, <1>4, <1>5 DEF Kept

LEMMA CommitKept == ASSUME Kept, NEW d \in Dirs, Commit(d) PROVE Kept'
  <1>1. Committed(d) /\ UNCHANGED <<rows, op, up, work, forfeited>>
    BY DEF Commit
  <1>2. HeadsOK' /\ Grown /\ TreesOK' /\ HeadsAreHeld' /\ WorkIsKept' /\ adrift' \subseteq Work
    BY <1>1, CommitStep
  <1>3. OpOK' /\ RowsOK'
    BY <1>1, <1>2, SameRows, OpStays DEF Kept
  <1>4. RestOK'
    BY <1>1, <1>2 DEF Kept, RestOK
  <1> QED
    BY <1>2, <1>3, <1>4 DEF Kept

LEMMA AnchorKept == ASSUME Kept, NEW d \in Dirs, Anchor(d) PROVE Kept'
  <1>1. Doing(Releases, "anchor") /\ UNCHANGED <<trees, rows, up, work, forfeited, adrift>>
    BY DEF Anchor
  <1>2. Fit(op) /\ HeadsOK /\ op.saved \in Branches \cup {NoBranch}
    BY <1>1, OpOf, ReleaseKinds DEF Kept
  <1>3. CASE trees[d].head \in OwnBranches
    <2> DEFINE b == trees[d].head
    <2>1. op' = [op EXCEPT !.step = "remove", !.saved = b] /\ UNCHANGED heads
      BY <1>3 DEF Anchor
    <2>2. b \in DOMAIN heads
      BY <1>3, Names3 DEF Kept, TreesOK, Branches
    <2> HIDE DEF b
    <2> DEFINE o == [op EXCEPT !.step = "remove", !.saved = b]
    <2>3. Fit(o) /\ o.step # "clear"
      BY <1>2, <2>2, OpSet
    <2>4. up' \in {"down", "up", "storeless"} /\ op' = o
      BY <1>1, <2>1 DEF Kept, RestOK
    <2> HIDE DEF o
    <2> QED
      BY <1>1, <2>1, <2>3, <2>4, OpOnly
  <1>4. CASE trees[d].head \notin OwnBranches
    <2> DEFINE b == FreeBranch("rescue", d)
    <2>1. /\ Names("rescue", d) # {}
          /\ heads' = [x \in DOMAIN heads \cup {b} |-> IF x = b THEN At(d) ELSE heads[x]]
          /\ op' = [op EXCEPT !.step = "remove", !.saved = b]
      BY <1>4 DEF Anchor
    <2>2. b \in Branches /\ b \notin DOMAIN heads
      BY <2>1, FreeBranchOf
    <2> HIDE DEF b
    <2>3. HeadsOK' /\ Grown /\ DOMAIN heads' = DOMAIN heads \cup {b}
      <3>1. At(d) \in SUBSET Work
        BY AtHeld
      <3> QED
        BY <1>2, <2>1, <2>2, <3>1, NewHead
    <2>4. TreesOK' /\ HeadsAreHeld' /\ WorkIsKept'
      <3> DEFINE g == trees[d]
      <3>1. /\ g \in TreeRows /\ (g.head # Detached => g.head \in DOMAIN heads')
            /\ (g.disk => g.known) /\ trees' = [trees EXCEPT ![d] = g]
            /\ g.at \subseteq Reachable \cup adrift
        BY <1>1, <2>3 DEF Kept, TreesOK, HeadsAreHeld
      <3>2. g.at \subseteq Reachable' \cup adrift'
        BY <1>1, <2>3, <3>1, ReachGrown
      <3>3. OnDisk(d) \subseteq Reachable' \cup OnDisk(d)' \cup forfeited' \cup adrift'
        <4>1. At(d) \subseteq Reachable' \cup adrift'
          BY <1>1, <2>3, AtHeld, ReachGrown
        <4>2. trees'[d] = trees[d]
          BY <1>1
        <4> QED
          BY <4>1, <4>2 DEF OnDisk
      <3> HIDE DEF g
      <3> QED
        BY <1>1, <2>3, <3>1, <3>2, <3>3, TreeStep
    <2> DEFINE o == [op EXCEPT !.step = "remove", !.saved = b]
    <2>5. OpOK'
      <3>1. /\ o \in Ops /\ o.saved = b /\ o.step = "remove" /\ o.kind = op.kind
            /\ o.thread = op.thread /\ o.dir = op.dir /\ o.todo = op.todo /\ o # Idle
        <4>1. o \in Ops
          BY <1>2, <2>2 DEF Fit, Ops
        <4>2. /\ o.saved = b /\ o.step = "remove" /\ o.kind = op.kind
              /\ o.thread = op.thread /\ o.dir = op.dir /\ o.todo = op.todo
          BY <1>2 DEF Fit, Ops
        <4> QED
          BY <4>1, <4>2, Names3
      <3>2. op' = o /\ UNCHANGED rows
        BY <1>1, <2>1
      <3> HIDE DEF o
      <3> QED
        BY <1>2, <2>3, <3>1, <3>2 DEF OpOK, Fit, Live, Claimed
    <2>6. RowsOK' /\ RestOK'
      BY <1>1 DEF Kept, RowsOK, RestOK
    <2> QED
      BY <2>3, <2>4, <2>5, <2>6 DEF Kept
  <1> QED
    BY <1>3, <1>4

\* A command fails: the operation goes on or ends.
LEMMA SaveFailsKept == ASSUME Kept, NEW d \in Dirs, SaveFails(d) PROVE Kept'
  <1> DEFINE o == IF op.kind \in Forced THEN [op EXCEPT !.step = "remove"] ELSE AfterError
  <1>1. /\ op' = o /\ UNCHANGED <<heads, trees, rows, up, work, forfeited, adrift>>
        /\ Doing(Releases, "save") \/ Doing(Releases, "anchor")
    BY DEF SaveFails
  <1>2. op # Idle /\ Fit(op) /\ op.kind # "reopen"
    BY <1>1, OpOf, ReleaseKinds
  <1>3. o # Idle => Fit(o) /\ o.step # "clear"
    <2>1. /\ Fit([op EXCEPT !.step = "remove"])
          /\ [op EXCEPT !.step = "remove"].step = "remove"
      BY <1>2, OpSet DEF Kept
    <2>2. AfterError # Idle => Fit(AfterError) /\ AfterError.step # "clear"
      BY <1>2, AfterOf
    <2> QED
      BY <2>1, <2>2
  <1>4. up' \in {"down", "up", "storeless"}
    BY <1>1 DEF Kept, RestOK
  <1> HIDE DEF o
  <1> QED
    BY <1>1, <1>3, <1>4, OpOnly

LEMMA RemoveFailsKept == ASSUME Kept, NEW d \in Dirs, RemoveFails(d) PROVE Kept'
  <1>1. /\ op' = AfterError /\ UNCHANGED <<heads, trees, rows, up, work, forfeited, adrift>>
        /\ Doing(Releases, "remove")
    BY DEF RemoveFails
  <1>2. op # Idle /\ op.kind # "reopen"
    BY <1>1, OpOf, ReleaseKinds
  <1>3. AfterError # Idle => Fit(AfterError) /\ AfterError.step # "clear"
    BY <1>2, AfterOf
  <1>4. up' \in {"down", "up", "storeless"}
    BY <1>1 DEF Kept, RestOK
  <1> QED
    BY <1>1, <1>3, <1>4, OpOnly

LEMMA RecordBranchKept == ASSUME Kept, NEW t \in Threads, RecordBranch(t) PROVE Kept'
  <1>1. /\ Doing(Closes, "branch") /\ op.thread = t
        /\ op' = [op EXCEPT !.step = "clear"]
        /\ rows' = IF op.saved = NoBranch THEN rows ELSE [rows EXCEPT ![t].branch = op.saved]
        /\ UNCHANGED <<heads, trees, up, work, forfeited, adrift>>
    BY DEF RecordBranch
  <1>2. /\ Fit(op) /\ op \in Ops /\ op # Idle /\ op.kind \in Closes
        /\ op.saved \in Branches \cup {NoBranch} /\ ~Live(t) /\ op.dir = Slug[t]
    BY <1>1, ReleaseKinds, OpOf
  <1>3. /\ RowsOK' /\ NoneLives
        /\ op.saved # NoBranch => rows'[t].branch = op.saved
    <2>1. CASE op.saved = NoBranch
      BY <1>1, <2>1, SameRows DEF Kept
    <2>2. CASE op.saved # NoBranch
      <3> DEFINE r == [rows[t] EXCEPT !.branch = op.saved]
      <3>1. /\ r \in ThreadRows /\ r.branch = op.saved /\ r.state = rows[t].state
            /\ r.claims = rows[t].claims
        BY <1>2 DEF Kept, RowsOK, ThreadRows
      <3>2. rows' = [rows EXCEPT ![t] = r]
        BY <1>1, <2>2
      <3>3. (r.state = "none" => ~r.claims) /\ (r.state = "live" /\ r.claims => Live(t))
        BY <3>1 DEF Kept, RowsOK, Live
      <3> HIDE DEF r
      <3> QED
        BY <3>1, <3>2, <3>3, RowStep
    <2> QED
      BY <2>1, <2>2
  <1>4. OpOK'
    <2> DEFINE o == [op EXCEPT !.step = "clear"]
    <2>1. /\ o \in Ops /\ o.saved = op.saved /\ o.thread = t /\ o.dir = Slug[t]
          /\ o.kind \notin {"sweep", "reopen"}
      BY <1>1, <1>2, ReleaseKinds DEF Ops
    <2>2. op' = o
      BY <1>1
    <2> HIDE DEF o
    <2>3. ~(rows'[t].state = "live" /\ rows'[t].claims)
      BY <1>2, <1>3 DEF NoneLives
    <2>4. o.saved \in DOMAIN heads' \cup {NoBranch}
      BY <1>1, <1>2, <2>1 DEF Fit
    <2> QED
      BY <1>3, <2>1, <2>2, <2>3, <2>4 DEF OpOK, Fit, Live
  <1> QED
    BY <1>1, <1>3, <1>4, RowOnly

\* The row's claim, and the end of the operation.
LEMMA ClaimSet ==
    ASSUME Kept, NEW t \in Threads, NEW claims \in BOOLEAN,
           rows' = [rows EXCEPT ![t].claims = claims], op' = Idle,
           claims => rows[t].state # "none",
           UNCHANGED <<heads, trees, up, work, forfeited, adrift>>
    PROVE  Kept'
  <1> DEFINE r == [rows[t] EXCEPT !.claims = claims]
  <1>1. r \in ThreadRows /\ r.claims = claims /\ r.state = rows[t].state
    BY DEF Kept, RowsOK, ThreadRows
  <1>2. rows' = [rows EXCEPT ![t] = r]
    OBVIOUS
  <1> HIDE DEF r
  <1>3. RowsOK'
    BY <1>1, <1>2, RowStep
  <1>4. OpOK'
    BY DEF OpOK
  <1> QED
    BY <1>3, <1>4, RowOnly

LEMMA RecordFailsKept == ASSUME Kept, NEW t \in Threads, RecordFails(t) PROVE Kept'
  <1>1. /\ Doing(Closes, "branch") /\ op' = [op EXCEPT !.step = "misnamed"]
        /\ UNCHANGED <<heads, trees, rows, up, work, forfeited, adrift>>
    BY DEF RecordFails
  <1>2. Fit([op EXCEPT !.step = "misnamed"]) /\ [op EXCEPT !.step = "misnamed"].step # "clear"
    BY <1>1, OpOf, OpSet, ReleaseKinds DEF Kept
  <1>3. up' \in {"down", "up", "storeless"}
    BY <1>1 DEF Kept, RestOK
  <1> QED
    BY <1>1, <1>2, <1>3, OpOnly

LEMMA StoreFailsKept == ASSUME Kept, NEW t \in Threads, StoreFails(t) PROVE Kept'
  <1>1. op' = Idle /\ UNCHANGED <<heads, trees, rows, up, work, forfeited, adrift>>
    BY DEF StoreFails
  <1>2. up' \in {"down", "up", "storeless"}
    BY <1>1 DEF Kept, RestOK
  <1> QED
    BY <1>1, <1>2, OpOnly

LEMMA ClearClaimKept == ASSUME Kept, NEW t \in Threads, ClearClaim(t) PROVE Kept'
  BY ClaimSet DEF ClearClaim

LEMMA ReopeningOf ==
    ASSUME Kept, NEW kinds, NEW step, Doing(kinds, step), kinds = {"reopen"}
    PROVE  Fit(op) /\ op # Idle /\ op \in Ops /\ rows[op.thread].state = "live"
  <1>1. "idle" \notin kinds
    OBVIOUS
  <1> QED
    BY <1>1, OpOf

LEMMA ClaimKept == ASSUME Kept, NEW t \in Threads, Claim(t) PROVE Kept'
  <1>1. Doing({"reopen"}, "claim") /\ op.thread = t
    BY DEF Claim
  <1>2. rows[t].state = "live"
    BY <1>1, ReopeningOf
  <1> QED
    BY <1>2, ClaimSet DEF Claim

LEMMA ReopenKept == ASSUME Kept, NEW t \in Threads, Reopen(t) PROVE Kept'
  <1> DEFINE r == [rows[t] EXCEPT !.state = "live"]
             back == Doer("reopen", t, "restore")
             o == IF MayRestore(t) THEN back ELSE Idle
  <1>1. /\ rows' = [rows EXCEPT ![t] = r] /\ op' = o /\ op = Idle
        /\ UNCHANGED <<heads, trees, up, work, forfeited, adrift>>
    BY DEF Reopen, Serving
  <1>2. r \in ThreadRows /\ r.state = "live"
    BY DEF Kept, RowsOK, ThreadRows
  <1> HIDE DEF r
  <1>3. RowsOK' /\ rows'[t] = r
    BY <1>1, <1>2, RowStep
  <1>4. OpOK'
    <2>1. CASE o = Idle
      BY <1>1, <2>1 DEF OpOK
    <2>2. CASE o = back
      <3>1. /\ o \in Ops /\ o.saved = NoBranch /\ o.thread = t /\ o.dir = Slug[t]
            /\ o.step = "restore" /\ o.kind = "reopen"
        BY <2>2, DoerOf
      <3> HIDE DEF o, back
      <3> QED
        BY <1>1, <1>2, <1>3, <3>1 DEF OpOK, Fit, Live
    <2> QED
      BY <2>1, <2>2
  <1> QED
    BY <1>1, <1>3, <1>4, RowOnly

LEMMA RestoreKept == ASSUME Kept, NEW t \in Threads, Restore(t) PROVE Kept'
  <1> DEFINE b == rows[t].branch
             d == Slug[t]
  <1>0. d \in Dirs
    BY DEF Dirs
  <1>1. Doing({"reopen"}, "restore") /\ UNCHANGED <<heads, rows, up, work, forfeited, adrift>>
    BY DEF Restore
  <1>2. Fit(op)
    BY <1>1, ReopeningOf
  <1>3. CASE trees[d].known \/ b \notin DOMAIN heads \/ CheckedOut(b)
    <2>1. op' = Idle /\ UNCHANGED trees
      BY <1>3 DEF Restore
    <2>2. up' \in {"down", "up", "storeless"}
      BY <1>1 DEF Kept, RestOK
    <2> QED
      BY <1>1, <2>1, <2>2, OpOnly
  <1>4. CASE ~(trees[d].known \/ b \notin DOMAIN heads \/ CheckedOut(b))
    <2>1. trees' = [trees EXCEPT ![d] = Checkout(b)] /\ op' = [op EXCEPT !.step = "claim"]
      BY <1>4 DEF Restore
    <2>2. HeadsOK' /\ Grown /\ b \in Branches /\ b \in DOMAIN heads'
      BY <1>1, <1>4, SameHeads DEF Kept, HeadsOK
    <2>3. OnDisk(d) = {}
      BY <1>0, <1>4 DEF OnDisk, Kept, TreesOK
    <2> HIDE DEF b
    <2>4. TreesOK' /\ HeadsAreHeld' /\ WorkIsKept'
      BY <1>0, <1>1, <2>1, <2>2, <2>3, CheckoutOf, TreeStep
    <2>5. OpOK'
      <3>1. Fit([op EXCEPT !.step = "claim"]) /\ [op EXCEPT !.step = "claim"].step # "clear"
        BY <1>2, OpSet DEF Kept
      <3> QED
        BY <1>1, <2>1, <2>2, <3>1, SameRows, OpStep
    <2>6. RowsOK' /\ RestOK'
      BY <1>1 DEF Kept, RowsOK, RestOK
    <2> QED
      BY <2>2, <2>4, <2>5, <2>6 DEF Kept
  <1> QED
    BY <1>3, <1>4

LEMMA StopKept == ASSUME Kept, Stop PROVE Kept'
  BY OpOnly DEF Stop

LEMMA BootKept == ASSUME Kept, NEW readable \in BOOLEAN, Boot(readable) PROVE Kept'
  <1>1. Unclaimed(readable) \in SUBSET Dirs /\ \A d \in Unclaimed(readable) : ~Claimed(d)
    BY DEF Unclaimed
  <1>2. Swept(Unclaimed(readable)) # Idle =>
           Fit(Swept(Unclaimed(readable))) /\ Swept(Unclaimed(readable)).step # "clear"
    BY <1>1, SweptOf
  <1> QED
    BY <1>2, OpOnly DEF Boot

\* The agent, the user or a git command of theirs in one tree.
LEMMA InTree ==
    ASSUME Kept, HeadsOK', Grown, NEW d \in Dirs, NEW g \in TreeRows,
           trees' = [trees EXCEPT ![d] = g],
           g.head # Detached => g.head \in DOMAIN heads', g.disk => g.known,
           g.at \subseteq Reachable' \cup adrift',
           forfeited \subseteq forfeited', forfeited' \subseteq Work,
           OnDisk(d) \subseteq Reachable' \cup OnDisk(d)' \cup forfeited' \cup adrift',
           1..work' \subseteq (1..work) \cup OnDisk(d)', work' \in 0..MaxWork,
           UNCHANGED <<rows, op, up, adrift>>
    PROVE  Kept'
  <1>1. TreesOK' /\ HeadsAreHeld' /\ WorkIsKept'
    BY TreeStep
  <1>2. OpOK' /\ RowsOK'
    BY OpStays, SameRows DEF Kept
  <1>3. RestOK'
    BY DEF Kept, RestOK
  <1> QED
    BY <1>1, <1>2, <1>3 DEF Kept

\* A tree as the invariant has it.
LEMMA TreeOf ==
    ASSUME Kept, NEW d \in Dirs
    PROVE  /\ trees[d] \in TreeRows /\ trees[d].head \in Branches \cup {Detached}
           /\ trees[d].head # Detached => trees[d].head \in DOMAIN heads
           /\ trees[d].disk \in BOOLEAN /\ trees[d].known \in BOOLEAN
           /\ trees[d].disk => trees[d].known
           /\ trees[d].at \in SUBSET Work /\ trees[d].dirt \in SUBSET Work
           /\ trees[d].at \subseteq Reachable \cup adrift
           /\ \A g : trees' = [trees EXCEPT ![d] = g] => trees'[d] = g
           /\ work \in Nat /\ work <= MaxWork /\ forfeited \subseteq Work
  BY Bounds DEF Kept, TreesOK, TreeRows, HeadsAreHeld, RestOK

LEMMA WriteKept == ASSUME Kept, NEW d \in Dirs, Write(d) PROVE Kept'
  <1> DEFINE tree == trees[d]
             g == [tree EXCEPT !.dirt = @ \cup {work + 1}]
  <1>1. /\ tree.disk /\ work < MaxWork /\ work' = work + 1
        /\ trees' = [trees EXCEPT ![d] = g]
        /\ UNCHANGED <<heads, rows, op, up, forfeited, adrift>>
    BY DEF Write
  <1>2. work + 1 \in Work /\ work' \in 0..MaxWork /\ 1..work' = (1..work) \cup {work + 1}
    BY <1>1, TreeOf, Bounds DEF Work
  <1>3. /\ g \in TreeRows /\ g.head = tree.head /\ g.disk = tree.disk /\ g.known = tree.known
        /\ g.at = tree.at /\ g.dirt = tree.dirt \cup {work + 1}
    BY <1>2, TreeOf DEF TreeRows
  <1> HIDE DEF g
  <1>4. HeadsOK' /\ Grown /\ Reachable \subseteq Reachable'
    BY <1>1, SameHeads, ReachGrown DEF Kept
  <1>5. OnDisk(d)' = OnDisk(d) \cup {work + 1}
    <2>1. trees'[d] = g
      BY <1>1, TreeOf
    <2>2. At(d)' = At(d)
      BY <1>1, <1>3, <2>1 DEF At
    <2> QED
      BY <1>1, <1>3, <2>1, <2>2 DEF OnDisk
  <1>6. g.at \subseteq Reachable' \cup adrift'
    BY <1>1, <1>3, <1>4, TreeOf
  <1> QED
    BY <1>1, <1>2, <1>3, <1>4, <1>5, <1>6, TreeOf, InTree

LEMMA DetachKept == ASSUME Kept, NEW d \in Dirs, Detach(d) PROVE Kept'
  <1> DEFINE tree == trees[d]
             g == [tree EXCEPT !.head = Detached, !.at = At(d)]
  <1>1. /\ trees' = [trees EXCEPT ![d] = g]
        /\ UNCHANGED <<heads, rows, op, up, work, forfeited, adrift>>
    BY DEF Detach
  <1>2. At(d) \in SUBSET Work /\ At(d) \subseteq Reachable \cup adrift
    BY AtHeld
  <1>3. /\ g \in TreeRows /\ g.head = Detached /\ g.disk = tree.disk /\ g.known = tree.known
        /\ g.at = At(d) /\ g.dirt = tree.dirt
    BY <1>2, TreeOf DEF TreeRows
  <1> HIDE DEF g
  <1>4. HeadsOK' /\ Grown /\ Reachable' = Reachable
    BY <1>1, SameHeads DEF Kept, Reachable
  <1>5. OnDisk(d)' = OnDisk(d)
    <2>1. trees'[d] = g
      BY <1>1, TreeOf
    <2>2. At(d)' = At(d)
      BY <1>3, <2>1 DEF At
    <2> QED
      BY <1>3, <2>1, <2>2 DEF OnDisk
  <1>6. work' \in 0..MaxWork
    BY <1>1 DEF Kept, RestOK
  <1> QED
    BY <1>1, <1>2, <1>3, <1>4, <1>5, <1>6, TreeOf, InTree

LEMMA ForkKept == ASSUME Kept, NEW d \in Dirs, Fork(d) PROVE Kept'
  <1> DEFINE b == <<"feature", d, 1>>
             tree == trees[d]
             g == [tree EXCEPT !.head = b, !.at = {}]
  <1>1. /\ b \notin DOMAIN heads /\ trees' = [trees EXCEPT ![d] = g]
        /\ heads' = [x \in DOMAIN heads \cup {b} |-> IF x = b THEN At(d) ELSE heads[x]]
        /\ UNCHANGED <<rows, op, up, work, forfeited, adrift>>
    BY DEF Fork
  <1>2. At(d) \in SUBSET Work /\ b \in Branches
    BY AtHeld DEF Branches, Features
  <1> HIDE DEF b
  <1>3. /\ g \in TreeRows /\ g.head = b /\ g.disk = tree.disk /\ g.known = tree.known
        /\ g.at = {} /\ g.dirt = tree.dirt
    BY <1>2, TreeOf DEF TreeRows
  <1> HIDE DEF g
  <1>4. HeadsOK' /\ Grown /\ DOMAIN heads' = DOMAIN heads \cup {b} /\ heads'[b] = At(d)
    BY <1>1, <1>2, NewHead DEF Kept
  <1>5. OnDisk(d)' = OnDisk(d)
    <2>1. trees'[d] = g
      BY <1>1, TreeOf
    <2>2. At(d)' = At(d)
      BY <1>2, <1>3, <1>4, <2>1, Names3 DEF At
    <2> QED
      BY <1>3, <2>1, <2>2 DEF OnDisk
  <1>6. work' \in 0..MaxWork
    BY <1>1 DEF Kept, RestOK
  <1> QED
    BY <1>1, <1>3, <1>4, <1>5, <1>6, TreeOf, InTree

LEMMA RemoveByHandKept == ASSUME Kept, NEW d \in Dirs, RemoveByHand(d) PROVE Kept'
  <1> DEFINE tree == trees[d]
             g == [tree EXCEPT !.disk = FALSE, !.dirt = {}]
  <1>1. /\ trees' = [trees EXCEPT ![d] = g]
        /\ forfeited' = forfeited \cup tree.dirt \cup tree.at
        /\ UNCHANGED <<heads, rows, op, up, work, adrift>>
    BY DEF RemoveByHand
  <1>2. /\ g \in TreeRows /\ g.head = tree.head /\ g.disk = FALSE
        /\ g.at = tree.at /\ g.dirt = {}
    BY TreeOf DEF TreeRows
  <1> HIDE DEF g
  <1>3. HeadsOK' /\ Grown /\ Reachable' = Reachable
    BY <1>1, SameHeads DEF Kept, Reachable
  <1>4. OnDisk(d) \subseteq Reachable' \cup forfeited' \cup adrift'
    BY <1>1, <1>3, AtHeld DEF OnDisk
  <1>5. work' \in 0..MaxWork
    BY <1>1 DEF Kept, RestOK
  <1>6. forfeited' \subseteq Work
    BY <1>1, TreeOf
  <1> QED
    BY <1>1, <1>2, <1>3, <1>4, <1>5, <1>6, TreeOf, InTree

LEMMA NextKept == Kept /\ [Next]_vars => Kept'
  <1> SUFFICES ASSUME Kept, [Next]_vars PROVE Kept'
    OBVIOUS
  <1>1. ASSUME NEW t \in Threads,
               \/ Open(t) \/ Add(t) \/ Insert(t) \/ InsertFails(t)
               \/ Archive(t) \/ Delete(t) \/ RecordBranch(t) \/ RecordFails(t) \/ ClearClaim(t)
               \/ Reopen(t) \/ Restore(t) \/ Claim(t) \/ StoreFails(t)
        PROVE  Kept'
    BY <1>1, OpenKept, AddKept, InsertKept, InsertFailsKept, CloseKept, RecordBranchKept,
       RecordFailsKept, ClearClaimKept, ReopenKept, RestoreKept, ClaimKept, StoreFailsKept
       DEF Archive, Delete
  <1>2. ASSUME NEW d \in Dirs,
               \/ ReleaseMissing(d) \/ SaveClean(d) \/ SaveDirty(d) \/ Anchor(d) \/ SaveFails(d)
               \/ Remove(d) \/ RemoveFails(d)
        PROVE  Kept'
    BY <1>2, ReleaseMissingKept, SaveCleanKept, SaveDirtyKept, AnchorKept, SaveFailsKept,
       RemoveKept, RemoveFailsKept
  <1>3. ASSUME NEW d \in Dirs,
               Write(d) \/ Commit(d) \/ Detach(d) \/ Fork(d) \/ RemoveByHand(d)
        PROVE  Kept'
    BY <1>3, WriteKept, CommitKept, DetachKept, ForkKept, RemoveByHandKept
  <1>4. CASE Stop
    BY <1>4, StopKept
  <1>5. ASSUME NEW readable \in BOOLEAN, Boot(readable) PROVE Kept'
    BY <1>5, BootKept
  <1>6. CASE UNCHANGED vars
    <2>1. UNCHANGED <<heads, trees, rows, op, up, work, forfeited, adrift>>
      BY <1>6 DEF vars
    <2>2. RowsOK' /\ OpOK'
      BY <2>1, SameRows, SameHeads, OpStays DEF Kept
    <2> QED
      BY <2>1, <2>2, RowOnly
  <1> QED
    BY <1>1, <1>2, <1>3, <1>4, <1>5, <1>6 DEF Next

LEMMA KeptHolds == Spec => []Kept
  BY InitKept, NextKept, PTL DEF Spec

\* Wherever a crash cuts an open, an archive, a reopening or a sweep short, whatever
\* command fails and whatever an editor writes in between, every edit is in a tree
\* that stands or on a branch; or the user destroyed it, or it was committed on a
\* detached HEAD (release_at, save_uncommitted, anchor).
THEOREM NoWorkLost == Spec => []NoWorkIsLost
  <1>1. Kept => NoWorkIsLost
    BY KeptTypes DEF Kept, NoWorkIsLost
  <1> QED
    BY <1>1, KeptHolds, PTL

-----------------------------------------------------------------------------
(* What the rows say.                                                      *)

\* A tree goes only by a release, of a thread that is not live, or by hand.
LEMMA TreeStands ==
    ASSUME SlugsDiffer, Kept, [Next]_vars, NEW t \in Threads
    PROVE  LiveTreeStands(t)
  <1> SUFFICES ASSUME op # Idle, Live(t), trees[Slug[t]].disk PROVE trees'[Slug[t]].disk
    BY DEF LiveTreeStands
  <1>0. Slug[t] \in Dirs
    BY DEF Dirs
  <1>1. CASE UNCHANGED trees
    BY <1>1
  <1>2. ASSUME NEW u \in Dirs, NEW g, trees' = [trees EXCEPT ![u] = g], g.disk \/ u # Slug[t]
        PROVE  trees'[Slug[t]].disk
    BY <1>0, <1>2 DEF Kept, TreesOK
  <1>3. ASSUME NEW u \in Dirs, Committed(u) PROVE trees'[Slug[t]].disk
    <2>1. trees' = [trees EXCEPT ![u] = [trees[u] EXCEPT
             !.at = IF trees[u].head = Detached THEN @ \cup trees[u].dirt ELSE {}, !.dirt = {}]]
      BY <1>3 DEF Committed
    <2>2. trees'[Slug[t]].disk = trees[Slug[t]].disk
      BY <1>0, <2>1 DEF Kept, TreesOK, TreeRows
    <2> QED
      BY <2>2
  <1>4. ASSUME NEW u \in Dirs,
               Doing(Releases, "save") \/ Doing(Releases, "remove"), op.dir = u
        PROVE  u # Slug[t]
    <2>1. /\ op.kind = "sweep" => ~Claimed(op.dir)
          /\ op.kind # "sweep" => op.thread \in Threads /\ op.dir = Slug[op.thread]
          /\ op.kind \notin {"sweep", "reopen"} => ~Live(op.thread)
          /\ op.kind # "reopen"
      BY <1>4, OpOf, ReleaseKinds
    <2> QED
      BY <1>4, <2>1 DEF Claimed, SlugsDiffer
  <1>5. ASSUME NEW u \in Dirs, ReleaseMissing(u) PROVE trees'[Slug[t]].disk
    <2>1. u # Slug[t] /\ trees' = [trees EXCEPT ![u] = NoTree]
      BY <1>4, <1>5 DEF ReleaseMissing
    <2> QED
      BY <1>2, <2>1
  <1>6. ASSUME NEW u \in Dirs, Remove(u) PROVE trees'[Slug[t]].disk
    <2>1. u # Slug[t] /\ trees' = [trees EXCEPT ![u] = NoTree]
      BY <1>4, <1>6 DEF Remove
    <2> QED
      BY <1>2, <2>1
  <1>7. ASSUME NEW u \in Threads, Add(u) PROVE trees'[Slug[t]].disk
    <2>1. \/ UNCHANGED trees
          \/ trees' = [trees EXCEPT ![Slug[u]] = Checkout(FreeBranch("own", Slug[u]))]
      BY <1>7 DEF Add
    <2>2. Checkout(FreeBranch("own", Slug[u])).disk /\ Slug[u] \in Dirs
      BY DEF Checkout, Dirs
    <2> QED
      BY <1>1, <1>2, <2>1, <2>2
  <1>8. ASSUME NEW u \in Threads, Restore(u) PROVE trees'[Slug[t]].disk
    <2>1. UNCHANGED trees \/ trees' = [trees EXCEPT ![Slug[u]] = Checkout(rows[u].branch)]
      BY <1>8 DEF Restore
    <2>2. Checkout(rows[u].branch).disk /\ Slug[u] \in Dirs
      BY DEF Checkout, Dirs
    <2> QED
      BY <1>1, <1>2, <2>1, <2>2
  <1>9. ASSUME NEW u \in Dirs, Write(u) \/ Detach(u) \/ Fork(u) PROVE trees'[Slug[t]].disk
    <2>1. \/ trees' = [trees EXCEPT ![u] = [trees[u] EXCEPT !.dirt = @ \cup {work + 1}]]
          \/ trees' = [trees EXCEPT ![u] = [trees[u] EXCEPT !.head = Detached, !.at = At(u)]]
          \/ trees' = [trees EXCEPT ![u] =
                          [trees[u] EXCEPT !.head = <<"feature", u, 1>>, !.at = {}]]
      BY <1>9 DEF Write, Detach, Fork
    <2>2. trees'[Slug[t]].disk = trees[Slug[t]].disk
      BY <1>0, <2>1 DEF Kept, TreesOK, TreeRows
    <2> QED
      BY <2>2
  <1>10. ASSUME NEW u \in Dirs, RemoveByHand(u) PROVE FALSE
    BY <1>10 DEF RemoveByHand
  <1>11. ASSUME NEW u \in Dirs, SaveDirty(u) \/ Commit(u) PROVE trees'[Slug[t]].disk
    BY <1>3, <1>11 DEF SaveDirty, Commit
  <1>12. ASSUME NEW u \in Threads,
                \/ Open(u) \/ Insert(u) \/ InsertFails(u) \/ Archive(u) \/ Delete(u)
                \/ RecordBranch(u) \/ RecordFails(u) \/ ClearClaim(u) \/ Reopen(u) \/ Claim(u)
                \/ StoreFails(u)
         PROVE  UNCHANGED trees
    BY <1>12 DEF Open, Insert, InsertFails, Archive, Delete, Close, RecordBranch, RecordFails,
                 ClearClaim, Reopen, Claim, StoreFails
  <1>13. ASSUME NEW u \in Dirs, SaveClean(u) \/ Anchor(u) \/ SaveFails(u) \/ RemoveFails(u)
         PROVE  UNCHANGED trees
    BY <1>13 DEF SaveClean, Anchor, SaveFails, RemoveFails
  <1>14. Stop \/ (\E readable \in BOOLEAN : Boot(readable)) \/ UNCHANGED vars => UNCHANGED trees
    BY DEF Stop, Boot, vars
  <1> QED
    BY <1>1, <1>5, <1>6, <1>7, <1>8, <1>9, <1>10, <1>11, <1>12, <1>13, <1>14 DEF Next

\* A claim is cleared by the operation that saved the work, and by no other step.
LEMMA ClearedHasWork ==
    ASSUME Kept, [Next]_vars, NEW t \in Threads
    PROVE  ClearedRowHasWork(t)
  <1> SUFFICES ASSUME rows[t].claims, ~rows'[t].claims, op.saved # NoBranch,
                      op.step # "misnamed"
               PROVE  rows'[t].branch \in DOMAIN heads /\ heads[op.saved] \subseteq heads[rows'[t].branch]
    BY DEF ClearedRowHasWork, RowHasWork
  <1>0. rows[t] \in ThreadRows /\ rows \in [Threads -> ThreadRows] /\ rows[t].state # "none"
    BY DEF Kept, RowsOK
  <1>1. rows' # rows
    OBVIOUS
  <1>2. ASSUME NEW u \in Threads, ClearClaim(u)
        PROVE  rows'[t].branch \in DOMAIN heads /\ heads[op.saved] \subseteq heads[rows'[t].branch]
    <2>1. /\ Doing(Closes, "clear") /\ op.thread = u
          /\ rows' = [rows EXCEPT ![u].claims = FALSE]
      BY <1>2 DEF ClearClaim, Doing
    <2>2. /\ op.step = "clear" /\ Fit(op)
          /\ (op.step = "clear" /\ op.saved # NoBranch => rows[op.thread].branch = op.saved)
      BY <2>1, ReleaseKinds, OpOf
    <2>3. u = t
      BY <1>0, <2>1
    <2>4. rows'[t].branch = rows[t].branch /\ rows[t].branch = op.saved
      BY <1>0, <2>1, <2>2, <2>3 DEF ThreadRows
    <2> QED
      BY <2>2, <2>4 DEF Fit
  <1>3. ASSUME NEW u \in Threads, Open(u) \/ Insert(u) PROVE FALSE
    <2>1. \/ rows' = rows
          \/ /\ rows[u].state = "none"
             /\ rows' = [rows EXCEPT ![u] = [state |-> "live", cwd |-> "checkout",
                                             branch |-> Main, claims |-> FALSE]]
          \/ rows' = [rows EXCEPT ![u] = [state |-> "live", cwd |-> "tree",
                                          branch |-> trees[Slug[u]].head, claims |-> TRUE]]
      BY <1>3 DEF Open, Insert
    <2> QED
      BY <1>0, <1>1, <2>1
  <1>4. ASSUME NEW u \in Threads,
               Archive(u) \/ Delete(u) \/ RecordBranch(u) \/ Reopen(u) \/ Claim(u)
        PROVE  FALSE
    <2>1. \/ rows' = rows
          \/ rows' = [rows EXCEPT ![u].state = "archived"]
          \/ rows' = [rows EXCEPT ![u].state = "deleted"]
          \/ rows' = [rows EXCEPT ![u].branch = op.saved]
          \/ rows' = [rows EXCEPT ![u].state = "live"]
          \/ rows' = [rows EXCEPT ![u].claims = TRUE]
      BY <1>4 DEF Archive, Delete, Close, RecordBranch, Reopen, Claim
    <2>2. rows'[t].claims
      BY <1>0, <2>1 DEF ThreadRows
    <2> QED
      BY <2>2
  <1>5. /\ \A u \in Threads :
             ~(Add(u) \/ InsertFails(u) \/ RecordFails(u) \/ Restore(u) \/ StoreFails(u))
        /\ \A u \in Dirs :
             ~(\/ ReleaseMissing(u) \/ SaveClean(u) \/ SaveDirty(u) \/ Anchor(u) \/ SaveFails(u)
               \/ Remove(u) \/ RemoveFails(u)
               \/ Write(u) \/ Commit(u) \/ Detach(u) \/ Fork(u) \/ RemoveByHand(u))
    BY <1>1 DEF Add, InsertFails, RecordFails, Restore, StoreFails, ReleaseMissing, SaveClean,
                SaveDirty, Anchor, SaveFails, Remove, RemoveFails, Write, Commit, Detach, Fork,
                RemoveByHand
  <1>6. ~Stop /\ ~(\E readable \in BOOLEAN : Boot(readable)) /\ ~UNCHANGED vars
    BY <1>1 DEF Stop, Boot, vars
  <1> QED
    BY <1>2, <1>3, <1>4, <1>5, <1>6 DEF Next

\* Where threads have directories of their own, no operation of the host removes a
\* tree that a live thread claims, and a row that stops claiming its tree names a
\* branch with everything the save committed, unless the store did not take the name
\* (sweep_worktrees, reclaim_path, release_worktree, set_thread_branch).
THEOREM RowsReliable ==
    ASSUME SlugsDiffer
    PROVE  Spec => RowsAreReliable
  <1>1. Kept /\ [Next]_vars =>
           [\A t \in Threads : LiveTreeStands(t) /\ ClearedRowHasWork(t)]_vars
    BY TreeStands, ClearedHasWork
  <1> QED
    BY <1>1, KeptHolds, PTL DEF Spec, RowsAreReliable

=============================================================================
