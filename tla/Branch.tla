------------------------------- MODULE Branch -------------------------------
(***************************************************************************)
(* Branches of a thread (host/lifecycle/branch.rs, host/store/branch.rs):  *)
(* a new thread whose log is that of Stream's thread up to a message.      *)
(*                                                                         *)
(* The handler holds the session's lock from its first write to its last,  *)
(* so the source does not move under it; but the host may stop, and a      *)
(* write may fail, between any two of them.                                *)
(***************************************************************************)
EXTENDS Stream

CONSTANT MaxBranches  \* bound: the threads opened for branches

ASSUME BranchAssumption == MaxBranches \in Nat

VARIABLES
    links,     \* thread_branches: the child of each message, 0 for none
    children,  \* the threads opened for branches, in that order
    branching, \* the handler under way
    answered   \* ghost: the child the last click on a message was answered with

branchVars == <<links, children, branching, answered>>

Resting == [at |-> "rest", through |-> 0]
Marker == 0   \* the row branched_from
Own == -1     \* a row of the branch itself
Child == Len(children)
Live(c) == c # 0 /\ ~children[c].deleted

BranchTypeOK ==
    /\ links \in [Texts -> 0..Child]
    /\ \A c \in 1..Child :
          /\ children[c].through \in Texts /\ children[c].rows \in Seq({Own} \cup Texts \cup {Marker})
          /\ {children[c].deleted, children[c].session, children[c].knows} \subseteq BOOLEAN
    /\ branching.at \in {"rest", "open", "copy", "mark", "link"}

Step(at) == branching.at = at
Goes(at) == branching' = [branching EXCEPT !.at = at]
Fails == branching' = Resting

-----------------------------------------------------------------------------
(* thread_branch.                                                          *)

\* A live child is the answer; the link to a deleted one is dropped.
Click(through) ==
    /\ who = "none" /\ Step("rest") /\ through \in DOMAIN rows
    /\ IF Live(links[through])
         THEN /\ answered' = [answered EXCEPT ![through] = links[through]]
              /\ UNCHANGED <<links, branching>>
         ELSE /\ Child < MaxBranches
              /\ links' = [links EXCEPT ![through] = 0]
              /\ branching' = [at |-> "open", through |-> through]
              /\ UNCHANGED answered
    /\ UNCHANGED <<vars, children>>

NewChild == [through |-> branching.through, rows |-> <<>>, deleted |-> FALSE,
             session |-> FALSE, knows |-> FALSE]

\* Broken: the link is there before what it leads to.
OpenChildLinked ==
    /\ Step("open")
    /\ children' = Append(children, NewChild)
    /\ links' = [links EXCEPT ![branching.through] = Child + 1]
    /\ Goes("copy")
    /\ UNCHANGED <<vars, answered>>

\* thread_open, with a folder of its own.
OpenChild ==
    /\ Step("open")
    /\ children' = Append(children, NewChild)
    /\ Goes("copy")
    /\ UNCHANGED <<vars, links, answered>>

OpenChildFails == Step("open") /\ Fails /\ UNCHANGED <<vars, links, children, answered>>

\* copy_transcript_through: all of it in one statement.
Copy ==
    /\ Step("copy")
    /\ children' = [children EXCEPT ![Child].rows = SubSeq(rows, 1, branching.through)]
    /\ Goes("mark")
    /\ UNCHANGED <<vars, links, answered>>

\* A child without its history is deleted again.
CopyFails ==
    /\ Step("copy")
    /\ children' = [children EXCEPT ![Child].deleted = TRUE]
    /\ Fails
    /\ UNCHANGED <<vars, links, answered>>

\* The row that says what this is a branch of; nobody hears that it failed.
Mark ==
    /\ Step("mark")
    /\ children' \in {children, [children EXCEPT ![Child].rows = Append(@, Marker)]}
    /\ Goes("link")
    /\ UNCHANGED <<vars, links, answered>>

Link ==
    /\ Step("link")
    /\ links' = [links EXCEPT ![branching.through] = Child]
    /\ answered' = [answered EXCEPT ![branching.through] = Child]
    /\ branching' = Resting
    /\ UNCHANGED <<vars, children>>

\* The child stays, and no click leads to it.
LinkFails == Step("link") /\ Fails /\ UNCHANGED <<vars, links, children, answered>>

-----------------------------------------------------------------------------
(* The branch afterwards.                                                  *)

\* branch_first_prompt: a branch that never had a session is given its history.
GivesHistory(c) == c \in Range(links) /\ ~children[c].session

\* session_prompt: the session is on the row before the prompt is on the wire,
\* which may break.
Prompt(c) ==
    /\ Step("rest") /\ Live(c) /\ Own \notin Range(children[c].rows)
    /\ \E sent \in BOOLEAN :
          children' = [children EXCEPT
              ![c].session = TRUE,
              ![c].knows = @ \/ (sent /\ GivesHistory(c)),
              ![c].rows = IF sent THEN Append(@, Own) ELSE @]
    /\ UNCHANGED <<vars, links, branching, answered>>

Delete(c) ==
    /\ Step("rest") /\ Live(c)
    /\ children' = [children EXCEPT ![c].deleted = TRUE]
    /\ UNCHANGED <<vars, links, branching, answered>>

-----------------------------------------------------------------------------
BranchInit ==
    /\ Init
    /\ links = [n \in Texts |-> 0]
    /\ children = <<>>
    /\ branching = Resting
    /\ answered = [n \in Texts |-> 0]

BranchNext ==
    \/ Step("rest") /\ Next /\ UNCHANGED branchVars
    \/ ~Step("rest") /\ Restart /\ Fails /\ UNCHANGED <<links, children, answered>>
    \/ \E n \in Texts : Click(n)
    \/ OpenChild \/ OpenChildFails \/ Copy \/ CopyFails \/ Mark \/ Link \/ LinkFails
    \/ \E c \in 1..Child : Prompt(c) \/ Delete(c)

BranchSpec == BranchInit /\ [][BranchNext]_<<vars, branchVars>>

-----------------------------------------------------------------------------
(* Properties.                                                             *)

\* "Idempotent for a live child" (thread_branch): wherever the host stops and
\* whatever fails, a message that leads to a branch leads to one that begins with
\* the whole of the source up to that message, and a click that was answered is
\* answered the same again while that branch is there.
BranchesStand ==
    BranchTypeOK /\ \A n \in Texts :
        /\ Live(links[n]) =>
              /\ children[links[n]].through = n
              /\ IsPrefix(SubSeq(rows, 1, n), children[links[n]].rows)
        /\ Live(answered[n]) => links[n] = answered[n]

\* "So the agent can continue from the cut" (session_prompt).  Not the agent of a
\* branch whose first prompt failed, nor of one no click leads to.
BranchKnowsItsPast ==
    \A c \in 1..Child : Own \in Range(children[c].rows) => children[c].knows

=============================================================================
