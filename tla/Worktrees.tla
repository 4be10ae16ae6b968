----------------------------- MODULE Worktrees -----------------------------
(***************************************************************************)
(* The worktrees of code threads (host/git/mod.rs, host/git/worktree.rs,   *)
(* with the calls in host/lifecycle/mod.rs and host/store/overlay.rs).     *)
(*                                                                         *)
(* A thread's directory is named by the slug of its id, and two ids may    *)
(* have one slug; the folder is one repository with a commit in it.  Work  *)
(* is a set of numbered edits: a branch head is the set of edits reachable *)
(* from it, a tree has edits it has not committed.  The host runs one      *)
(* operation at a time, but every git command, and every read and write of *)
(* the store, is a step of its own that may fail, and the host may stop    *)
(* between any two of them.  The agent, and the user's editor, work in the *)
(* trees all the while.                                                    *)
(***************************************************************************)
EXTENDS Naturals, FiniteSets

CONSTANTS
    Threads,
    Slug,        \* slug: the directory, and the branches, of a thread
    MaxNames,    \* how many names free_branch tries
    MaxWork,     \* bound: the edits ever made
    MaxStops,    \* bound: the crashes of the host
    MaxMishaps,  \* bound: failures of commands and of the store, removals by hand
    MaxMoves     \* bound: archives, deletes and reopens

ASSUME WorktreesAssumption ==
    /\ MaxNames \in Nat \ {0}
    /\ {MaxWork, MaxStops, MaxMishaps, MaxMoves} \subseteq Nat

Work == 1..MaxWork
Dirs == {Slug[t] : t \in Threads}

\* jabot/<slug>[-n], jabot/<slug>-rescue[-n], and the branches agents make.
OwnBranches == {"own", "rescue"} \X Dirs \X (1..MaxNames)
Features == {"feature"} \X Dirs \X {1}
Branches == OwnBranches \cup Features
NoBranch == <<>>
Detached == <<>>
Main == <<"main">>

VARIABLES
    heads,    \* the repository's branches, and the edits on each
    trees,    \* the directories under the worktree root
    rows,     \* what the store says of each thread
    op,       \* the operation under way, and the step it is at
    up,       \* "down", "up", or "storeless": the store would not open
    work, stops, mishaps, moves,  \* what is used up of the bounds
    forfeited,  \* ghost: edits destroyed by the user, or by a forced removal
    adrift      \* ghost: edits that were committed on a detached HEAD

vars == <<heads, trees, rows, op, up, work, stops, mishaps, moves, forfeited, adrift>>

NoTree == [disk |-> FALSE, known |-> FALSE, head |-> Detached, at |-> {}, dirt |-> {}]
NoRow == [state |-> "none", cwd |-> "none", branch |-> NoBranch, claims |-> FALSE]
Idle == [kind |-> "idle"]

TypeOK ==
    /\ DOMAIN heads \subseteq Branches
    /\ \A b \in DOMAIN heads : heads[b] \subseteq Work
    /\ trees \in [Dirs -> [disk : BOOLEAN, known : BOOLEAN,
                           head : Branches \cup {Detached},
                           at : SUBSET Work, dirt : SUBSET Work]]
    /\ \A d \in Dirs : trees[d].head # Detached => trees[d].head \in DOMAIN heads
    /\ rows \in [Threads -> [state : {"none", "live", "archived", "deleted"},
                             cwd : {"none", "tree", "checkout"},
                             branch : Branches \cup {NoBranch, Main},
                             claims : BOOLEAN]]
    /\ op = Idle \/ op.dir \in Dirs
    /\ up \in {"down", "up", "storeless"}
    /\ work \in 0..MaxWork
    /\ forfeited \cup adrift \subseteq Work

-----------------------------------------------------------------------------
(* git.                                                                    *)

\* The edits committed in a tree.
At(d) == IF trees[d].head = Detached THEN trees[d].at ELSE heads[trees[d].head]

\* A branch is checked out in one tree.
CheckedOut(b) == \E d \in Dirs : trees[d].known /\ trees[d].head = b

\* free_branch: the first name of the kind that nothing holds.
Names(kind, d) == {n \in 1..MaxNames : <<kind, d, n>> \notin DOMAIN heads}
FreeBranch(kind, d) ==
    <<kind, d, CHOOSE n \in Names(kind, d) : \A m \in Names(kind, d) : n <= m>>

\* git commit: HEAD moves, whatever it is.
Committed(d) ==
    LET tree == trees[d] IN
    /\ trees' = [trees EXCEPT ![d].at = IF tree.head = Detached THEN @ \cup tree.dirt ELSE {},
                              ![d].dirt = {}]
    /\ IF tree.head = Detached
       THEN UNCHANGED heads /\ adrift' = adrift \cup tree.dirt
       ELSE /\ heads' = [heads EXCEPT ![tree.head] = @ \cup tree.dirt]
            /\ UNCHANGED adrift

Checkout(b) == [disk |-> TRUE, known |-> TRUE, head |-> b, at |-> {}, dirt |-> {}]

-----------------------------------------------------------------------------
(* The operations of the host: thread/open, archive, delete, reopen, and   *)
(* the sweep of a boot.                                                    *)

\* list_worktree_threads.
Live(t) == rows[t].state = "live" /\ rows[t].claims
Claimed(d) == \E t \in Threads : Slug[t] = d /\ Live(t)

Serving == up = "up" /\ op = Idle
Doing(kinds, step) == /\ up # "down"
                      /\ op.kind \in kinds
                      /\ op.step = step
Releases == {"archive", "delete", "sweep", "reclaim", "discard"}
Closes == {"archive", "delete"}
Forced == {"delete", "discard"}

\* A sweep finds directories and is about no thread.
NoThread == "none"
Doer(kind, t, step) == [kind |-> kind, thread |-> t, dir |-> Slug[t], step |-> step,
                        saved |-> NoBranch, todo |-> {}]
Releasing(kind, t) == Doer(kind, t, "save")
Adding(t) == Doer("open", t, "add")
Swept(todo) ==
    IF todo = {} THEN Idle
    ELSE LET d == CHOOSE x \in todo : TRUE IN
         [kind |-> "sweep", thread |-> NoThread, dir |-> d, step |-> "save",
          saved |-> NoBranch, todo |-> todo \ {d}]

\* What follows when release_at has returned: an error ends the operation, except
\* that a sweep goes on to the next tree and thread/open goes on to add its own.
AfterError ==
    CASE op.kind = "sweep" -> Swept(op.todo)
      [] op.kind = "reclaim" -> Adding(op.thread)
      [] OTHER -> Idle
AfterRelease ==
    IF op.kind \in Closes THEN [op EXCEPT !.step = "branch"] ELSE AfterError

\* provision_worktree: a directory that is there already, left by a crash or of a
\* thread with the same slug, is collected first.  With useCheckout, no repository, or
\* a folder that cannot be read there is no tree and the row is written at once.
Open(t) ==
    /\ Serving
    /\ rows[t].state = "none"
    /\ \/ /\ op' = IF trees[Slug[t]].disk THEN Releasing("reclaim", t) ELSE Adding(t)
          /\ UNCHANGED rows
       \/ /\ rows' = [rows EXCEPT ![t] = [state |-> "live", cwd |-> "checkout",
                                          branch |-> Main, claims |-> FALSE]]
          /\ UNCHANGED op
    /\ UNCHANGED <<heads, trees, up, work, stops, mishaps, moves, forfeited, adrift>>

\* git worktree add refuses a directory that exists, or is registered and locked.
Add(t) ==
    /\ Doing({"open"}, "add")
    /\ op.thread = t
    /\ LET d == Slug[t]
           b == FreeBranch("own", d) IN
       IF trees[d].disk \/ trees[d].known
       THEN /\ op' = Idle
            /\ UNCHANGED <<heads, trees>>
       ELSE /\ Names("own", d) # {}
            /\ heads' = [x \in DOMAIN heads \cup {b} |-> IF x = b THEN {} ELSE heads[x]]
            /\ trees' = [trees EXCEPT ![d] = Checkout(b)]
            /\ op' = [op EXCEPT !.step = "insert"]
    /\ UNCHANGED <<rows, up, work, stops, mishaps, moves, forfeited, adrift>>

Insert(t) ==
    /\ Doing({"open"}, "insert")
    /\ op.thread = t
    /\ rows' = [rows EXCEPT ![t] = [state |-> "live", cwd |-> "tree",
                                    branch |-> trees[Slug[t]].head, claims |-> TRUE]]
    /\ op' = Idle
    /\ UNCHANGED <<heads, trees, up, work, stops, mishaps, moves, forfeited, adrift>>

\* discard_worktree: a tree whose thread does not exist is taken back out.
InsertFails(t) ==
    /\ Doing({"open"}, "insert")
    /\ op.thread = t
    /\ mishaps < MaxMishaps
    /\ mishaps' = mishaps + 1
    /\ op' = Releasing("discard", t)
    /\ UNCHANGED <<heads, trees, rows, up, work, stops, moves, forfeited, adrift>>

\* The overlay moves first, then release_worktree looks for a tree the row claims.
Close(t, kind) ==
    /\ Serving
    /\ moves < MaxMoves
    /\ moves' = moves + 1
    /\ rows[t].state \in (IF kind = "archive" THEN {"live"} ELSE {"live", "archived"})
    /\ rows' = [rows EXCEPT ![t].state = IF kind = "archive" THEN "archived" ELSE "deleted"]
    /\ op' = IF rows[t].claims THEN Releasing(kind, t) ELSE Idle
    /\ UNCHANGED <<heads, trees, up, work, stops, mishaps, forfeited, adrift>>

Archive(t) == Close(t, "archive")
Delete(t) == Close(t, "delete")

-----------------------------------------------------------------------------
(* release_at: save, remove; then release_worktree records what it did.    *)

\* The directory is gone already: its registration is forgotten.
ReleaseMissing(d) ==
    /\ Doing(Releases, "save")
    /\ op.dir = d
    /\ ~trees[d].disk
    /\ trees' = [trees EXCEPT ![d] = NoTree]
    /\ op' = AfterRelease
    /\ UNCHANGED <<heads, rows, up, work, stops, mishaps, moves, forfeited, adrift>>

SaveClean(d) ==
    /\ Doing(Releases, "save")
    /\ op.dir = d
    /\ trees[d].disk
    /\ trees[d].dirt = {}
    /\ op' = [op EXCEPT !.step = "remove"]
    /\ UNCHANGED <<heads, trees, rows, up, work, stops, mishaps, moves, forfeited, adrift>>

SaveDirty(d) ==
    /\ Doing(Releases, "save")
    /\ op.dir = d
    /\ trees[d].disk
    /\ trees[d].dirt # {}
    /\ Committed(d)
    /\ op' = [op EXCEPT !.step = "anchor"]
    /\ UNCHANGED <<rows, up, work, stops, mishaps, moves, forfeited>>

\* anchor: a jabot/ branch holds the commit already, or a rescue branch is planted.
Anchor(d) ==
    /\ Doing(Releases, "anchor")
    /\ op.dir = d
    /\ IF trees[d].head \in OwnBranches
       THEN /\ op' = [op EXCEPT !.step = "remove", !.saved = trees[d].head]
            /\ UNCHANGED heads
       ELSE /\ Names("rescue", d) # {}
            /\ LET b == FreeBranch("rescue", d) IN
               /\ heads' = [x \in DOMAIN heads \cup {b} |-> IF x = b THEN At(d) ELSE heads[x]]
               /\ op' = [op EXCEPT !.step = "remove", !.saved = b]
    /\ UNCHANGED <<trees, rows, up, work, stops, mishaps, moves, forfeited, adrift>>

\* add, commit or update-ref fails: only a delete goes on.
SaveFails(d) ==
    /\ Doing(Releases, "save") \/ Doing(Releases, "anchor")
    /\ op.dir = d
    /\ trees[d].disk
    /\ op.step = "save" => trees[d].dirt # {}
    /\ mishaps < MaxMishaps
    /\ mishaps' = mishaps + 1
    /\ op' = IF op.kind \in Forced THEN [op EXCEPT !.step = "remove"] ELSE AfterError
    /\ UNCHANGED <<heads, trees, rows, up, work, stops, moves, forfeited, adrift>>

\* Broken: every removal is forced.
AlwaysForced(d) == TRUE

\* git worktree remove refuses a dirty tree unless forced.
MayRemove(d) == op.kind \in Forced \/ trees[d].dirt = {}

Remove(d) ==
    /\ Doing(Releases, "remove")
    /\ op.dir = d
    /\ MayRemove(d)
    /\ forfeited' = forfeited \cup (IF op.kind \in Forced THEN trees[d].dirt ELSE {})
    /\ trees' = [trees EXCEPT ![d] = NoTree]
    /\ op' = AfterRelease
    /\ UNCHANGED <<heads, rows, up, work, stops, mishaps, moves, adrift>>

RemoveFails(d) ==
    /\ Doing(Releases, "remove")
    /\ op.dir = d
    /\ \/ ~MayRemove(d) /\ UNCHANGED mishaps
       \/ mishaps < MaxMishaps /\ mishaps' = mishaps + 1
    /\ op' = AfterError
    /\ UNCHANGED <<heads, trees, rows, up, work, stops, moves, forfeited, adrift>>

\* set_thread_branch: the row follows the save.
RecordBranch(t) ==
    /\ Doing(Closes, "branch")
    /\ op.thread = t
    /\ rows' = IF op.saved = NoBranch THEN rows ELSE [rows EXCEPT ![t].branch = op.saved]
    /\ op' = [op EXCEPT !.step = "clear"]
    /\ UNCHANGED <<heads, trees, up, work, stops, mishaps, moves, forfeited, adrift>>

\* A branch that is not recorded is logged, and the claim is cleared all the same.
RecordFails(t) ==
    /\ Doing(Closes, "branch")
    /\ op.thread = t
    /\ op.saved \notin {NoBranch, rows[t].branch}
    /\ mishaps < MaxMishaps
    /\ mishaps' = mishaps + 1
    /\ op' = [op EXCEPT !.step = "misnamed"]
    /\ UNCHANGED <<heads, trees, rows, up, work, stops, moves, forfeited, adrift>>

\* set_thread_worktree(None).
ClearClaim(t) ==
    /\ Doing(Closes, "clear") \/ Doing(Closes, "misnamed")
    /\ op.thread = t
    /\ rows' = [rows EXCEPT ![t].claims = FALSE]
    /\ op' = Idle
    /\ UNCHANGED <<heads, trees, up, work, stops, mishaps, moves, forfeited, adrift>>

-----------------------------------------------------------------------------
(* thread/reopen of a thread that sleeps or is archived, and               *)
(* restore_worktree.                                                       *)

MayRestore(t) ==
    /\ ~rows[t].claims
    /\ rows[t].cwd = "tree"
    /\ ~trees[Slug[t]].disk
    /\ rows[t].branch \in OwnBranches

Reopen(t) ==
    /\ Serving
    /\ moves < MaxMoves
    /\ moves' = moves + 1
    /\ rows[t].state \in {"archived", "live"}
    /\ rows[t].state = "live" => MayRestore(t)
    /\ rows' = [rows EXCEPT ![t].state = "live"]
    /\ op' = IF MayRestore(t) THEN Doer("reopen", t, "restore") ELSE Idle
    /\ UNCHANGED <<heads, trees, up, work, stops, mishaps, forfeited, adrift>>

\* Without -b: the branch has to be there, and in no other tree.
Restore(t) ==
    /\ Doing({"reopen"}, "restore")
    /\ op.thread = t
    /\ LET d == Slug[t]
           b == rows[t].branch IN
       IF trees[d].known \/ b \notin DOMAIN heads \/ CheckedOut(b)
       THEN op' = Idle /\ UNCHANGED trees
       ELSE /\ trees' = [trees EXCEPT ![d] = Checkout(b)]
            /\ op' = [op EXCEPT !.step = "claim"]
    /\ UNCHANGED <<heads, rows, up, work, stops, mishaps, moves, forfeited, adrift>>

Claim(t) ==
    /\ Doing({"reopen"}, "claim")
    /\ op.thread = t
    /\ rows' = [rows EXCEPT ![t].claims = TRUE]
    /\ op' = Idle
    /\ UNCHANGED <<heads, trees, up, work, stops, mishaps, moves, forfeited, adrift>>

\* The row cannot be read, before a tree is released or restored, or its claim cannot
\* be written, after: the operation ends there, and the row is as it was.
StoreFails(t) ==
    /\ \/ \E step \in {"save", "clear", "misnamed"} : Doing(Closes, step)
       \/ \E step \in {"restore", "claim"} : Doing({"reopen"}, step)
    /\ op.thread = t
    /\ mishaps < MaxMishaps
    /\ mishaps' = mishaps + 1
    /\ op' = Idle
    /\ UNCHANGED <<heads, trees, rows, up, work, stops, moves, forfeited, adrift>>

-----------------------------------------------------------------------------
(* The host stops, and boots.                                              *)

Stop ==
    /\ up # "down"
    /\ stops < MaxStops
    /\ stops' = stops + 1
    /\ up' = "down"
    /\ op' = Idle
    /\ UNCHANGED <<heads, trees, rows, work, mishaps, moves, forfeited, adrift>>

\* Broken: a store that cannot be read has no threads in it.
AllUnclaimed(readable) == {d \in Dirs : trees[d].disk /\ (readable => ~Claimed(d))}

\* live_worktree_paths: a store that cannot be read claims nothing and sweeps nothing.
Unclaimed(readable) ==
    IF readable THEN {d \in Dirs : trees[d].disk /\ ~Claimed(d)} ELSE {}

\* A store that opens may still fail the query.
Boot(readable) ==
    /\ up = "down"
    /\ up' \in (IF readable THEN {"up"} ELSE {"up", "storeless"})
    /\ op' = Swept(Unclaimed(readable))
    /\ UNCHANGED <<heads, trees, rows, work, stops, mishaps, moves, forfeited, adrift>>

-----------------------------------------------------------------------------
(* The agent and the user, in a tree.  An adapter is gone before its       *)
(* thread's tree is released; an editor is not.                            *)

Write(d) ==
    /\ trees[d].disk
    /\ work < MaxWork
    /\ work' = work + 1
    /\ trees' = [trees EXCEPT ![d].dirt = @ \cup {work + 1}]
    /\ UNCHANGED <<heads, rows, op, up, stops, mishaps, moves, forfeited, adrift>>

\* An adapter of a live thread works in it, but not of the one an operation is about;
\* the sweep of a boot is before the first of them.
AtWork(d) ==
    /\ up = "up"
    /\ trees[d].disk
    /\ \E t \in Threads :
          /\ Slug[t] = d
          /\ rows[t].state = "live"
          /\ op # Idle => op.kind # "sweep" /\ op.thread # t

Commit(d) ==
    /\ AtWork(d)
    /\ trees[d].dirt # {}
    /\ Committed(d)
    /\ UNCHANGED <<rows, op, up, work, stops, mishaps, moves, forfeited>>

\* git checkout <sha>, a bisect, a rebase that stopped.
Detach(d) ==
    /\ AtWork(d)
    /\ trees[d].head # Detached
    /\ trees' = [trees EXCEPT ![d].head = Detached, ![d].at = At(d)]
    /\ UNCHANGED <<heads, rows, op, up, work, stops, mishaps, moves, forfeited, adrift>>

\* git checkout -b.
Fork(d) ==
    LET b == <<"feature", d, 1>> IN
    /\ AtWork(d)
    /\ b \notin DOMAIN heads
    /\ heads' = [x \in DOMAIN heads \cup {b} |-> IF x = b THEN At(d) ELSE heads[x]]
    /\ trees' = [trees EXCEPT ![d].head = b, ![d].at = {}]
    /\ UNCHANGED <<rows, op, up, work, stops, mishaps, moves, forfeited, adrift>>

\* The directory is removed by hand, with everything only it held.
RemoveByHand(d) ==
    /\ trees[d].disk
    /\ op = Idle
    /\ mishaps < MaxMishaps
    /\ mishaps' = mishaps + 1
    /\ trees' = [trees EXCEPT ![d].disk = FALSE, ![d].dirt = {}]
    /\ forfeited' = forfeited \cup trees[d].dirt \cup trees[d].at
    /\ UNCHANGED <<heads, rows, op, up, work, stops, moves, adrift>>

-----------------------------------------------------------------------------
Init ==
    /\ heads = [b \in {} |-> {}]
    /\ trees = [d \in Dirs |-> NoTree]
    /\ rows = [t \in Threads |-> NoRow]
    /\ op = Idle
    /\ up = "up"
    /\ work = 0 /\ stops = 0 /\ mishaps = 0 /\ moves = 0
    /\ forfeited = {} /\ adrift = {}

Next ==
    \/ \E t \in Threads :
          \/ Open(t) \/ Add(t) \/ Insert(t) \/ InsertFails(t)
          \/ Archive(t) \/ Delete(t) \/ RecordBranch(t) \/ RecordFails(t) \/ ClearClaim(t)
          \/ Reopen(t) \/ Restore(t) \/ Claim(t) \/ StoreFails(t)
    \/ \E d \in Dirs :
          \/ ReleaseMissing(d) \/ SaveClean(d) \/ SaveDirty(d) \/ Anchor(d) \/ SaveFails(d)
          \/ Remove(d) \/ RemoveFails(d)
          \/ Write(d) \/ Commit(d) \/ Detach(d) \/ Fork(d) \/ RemoveByHand(d)
    \/ Stop
    \/ \E readable \in BOOLEAN : Boot(readable)

Spec == Init /\ [][Next]_vars

-----------------------------------------------------------------------------
(* Properties.                                                             *)

Reachable == UNION {heads[b] : b \in DOMAIN heads}
OnDisk(d) == IF trees[d].disk THEN At(d) \cup trees[d].dirt ELSE {}
InTrees == UNION {OnDisk(d) : d \in Dirs}

\* Every edit ever made in a tree is in a tree that stands, or on a branch; or the
\* user destroyed it, or it was committed on a detached HEAD.  A crash between any
\* two steps of open, archive, reopen or sweep, a command that fails, an editor that
\* writes between the save and the removal: none of them loses an edit that was not
\* committed (release_at, save_uncommitted), whichever threads have one slug.
WorkIsKept ==
    1..work \subseteq Reachable \cup InTrees \cup forfeited \cup adrift

\* The same, with the types of rows, trees and branches it is about.
NoWorkIsLost == TypeOK /\ WorkIsKept

\* The same without the exemption, as the module says of itself: "Nothing is removed
\* before it is saved" (worktree.rs:22).  An agent that commits on a detached HEAD
\* leaves a clean tree, and a clean tree is removed without a ref on its commits; so
\* is a tree whose save was committed and not yet anchored when the host stopped.
NothingUnsavedIsRemoved ==
    1..work \subseteq Reachable \cup InTrees \cup forfeited

\* Threads have directories of their own, as the ids the host and its clients make
\* do; a client may name another (slug: a.b and a-b have one).
SlugsDiffer == \A t, u \in Threads : Slug[t] = Slug[u] => t = u

\* No operation of the host removes a tree that a live thread claims: only the
\* user's hand does.  A boot that cannot read the store, a sweep after a crash in
\* the middle of an archive, and thread/open over a directory left by a crash all
\* keep to it (sweep_worktrees, live_worktree_paths, reclaim_path), when SlugsDiffer.
LiveTreeStands(t) ==
    op # Idle /\ Live(t) /\ trees[Slug[t]].disk => trees'[Slug[t]].disk

\* The row of a thread whose tree was saved and removed names, once it stops
\* claiming the tree, a branch with everything the save committed, so that reopening
\* it finds the work (release_worktree, anchor).
RowHasWork(t) ==
    op.saved # NoBranch =>
        rows'[t].branch \in DOMAIN heads /\ heads[op.saved] \subseteq heads[rows'[t].branch]

\* But where the store did not take the name.
ClearedRowHasWork(t) ==
    rows[t].claims /\ ~rows'[t].claims /\ op.step # "misnamed" => RowHasWork(t)

\* Both, in every step: what a thread's row says of its tree can be relied on.
RowsAreReliable == [][\A t \in Threads : LiveTreeStands(t) /\ ClearedRowHasWork(t)]_vars

\* The same with no exception, as release_worktree says: "The row has to follow it, or
\* reopen restores a checkout of the branch that does *not* have the work".  When the
\* write of the branch fails, the claim is cleared all the same.
RowFollowsSave == [][\A t \in Threads : rows[t].claims /\ ~rows'[t].claims => RowHasWork(t)]_vars

\* "The column means a host-owned tree exists here" (git/mod.rs): while the host is
\* idle, a row that claims a tree has one, unless the user removed it by hand.  A
\* sweep that collects the tree of an archived thread does not clear the column, so
\* the thread reopens without its tree.
ClaimIsTrue ==
    up = "up" /\ op = Idle
       => \A t \in Threads : rows[t].claims => trees[Slug[t]].disk \/ trees[Slug[t]].known

=============================================================================
