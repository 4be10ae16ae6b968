------------------------------- MODULE Overlay -------------------------------
(***************************************************************************)
(* The overlay of one thread: its row (state, resurfaced_reason,           *)
(* fold_policy, deleted_at) and its Inbox cards, with the transition table *)
(* of host/lifecycle/state.rs and the store writes that keep the two       *)
(* together (host/store/overlay.rs).                                       *)
(*                                                                         *)
(* Of the cards, "unread" holds the kinds with an unread card and "seen"   *)
(* the kinds with a card that was read and never dismissed.  Titles,       *)
(* summaries and cards of other kinds (judgment_call, pr) are left out.    *)
(***************************************************************************)

ThreadStates == {"active", "folded", "resurfaced", "archived"}
Reasons == {"done", "stuck", "failed", "needs_you"}
FoldPolicies == {"default", "wait_for_inbox"}

ThreadRows == [state   : ThreadStates,
               reason  : Reasons \cup {"none"},
               policy  : FoldPolicies,
               deleted : BOOLEAN,
               unread  : SUBSET Reasons,
               seen    : SUBSET Reasons]

NewThread == [state |-> "active", reason |-> "none", policy |-> "default",
              deleted |-> FALSE, unread |-> {}, seen |-> {}]

\* Broken: a failure outranks an ask.
QuieterAsks ==
    {<<"done", "stuck">>, <<"done", "failed">>, <<"done", "needs_you">>,
     <<"stuck", "failed">>, <<"stuck", "needs_you">>, <<"needs_you", "failed">>}

\* How loud each reason is, and the two that report how a run ended.
Quieter == {<<"done", "stuck">>, <<"done", "failed">>, <<"done", "needs_you">>,
            <<"stuck", "failed">>, <<"stuck", "needs_you">>, <<"failed", "needs_you">>}
Outcomes == {"done", "failed"}

-----------------------------------------------------------------------------
(* The user's moves.                                                       *)

Moves == [fold    |-> {"active"},
          reopen  |-> {"folded", "resurfaced", "archived"},
          archive |-> {"active", "folded", "resurfaced"},
          delete  |-> ThreadStates]

CanMove(thread, action) == ~thread.deleted /\ thread.state \in Moves[action]

\* A move that is not a resurface leaves no reason behind.
MoveTo(thread, state) == [thread EXCEPT !.state = state, !.reason = "none"]

\* Opening the thread, or closing it out, reads every card it has.
ReadAll(thread) ==
    [thread EXCEPT !.seen = @ \cup thread.unread, !.unread = {}]

\* Answering an ask reads the card that carried it, and no other.
ReadNeedsYou(thread) ==
    [thread EXCEPT !.seen = @ \cup (thread.unread \cap {"needs_you"}),
                   !.unread = @ \ {"needs_you"}]

-----------------------------------------------------------------------------
(* Coming back.                                                            *)

\* A sleeping thread comes back for any reason; a thread that is back already
\* only for a different reason that reports an outcome or is louder.
CanResurface(thread, reason) ==
    /\ ~thread.deleted
    /\ \/ thread.state = "folded"
       \/ /\ thread.state = "resurfaced"
          /\ thread.reason # reason
          /\ \/ reason \in Outcomes
             \/ thread.reason = "none"
             \/ <<thread.reason, reason>> \in Quieter

\* The row and the card land together: every unread card is dismissed and one
\* of this kind is inserted.  Where no resurface applies, nothing is written.
Resurface(thread, reason) ==
    IF CanResurface(thread, reason)
    THEN [thread EXCEPT !.state = "resurfaced", !.reason = reason, !.unread = {reason}]
    ELSE thread

\* Rewriting the newest undismissed card of a kind makes it unread again; an
\* older read card of the same kind may stay behind.
Restatements(thread, reason) ==
    IF reason \in thread.seen
    THEN {[thread EXCEPT !.unread = @ \cup {reason}, !.seen = rest] :
             rest \in {thread.seen, thread.seen \ {reason}}}
    ELSE {thread}
=============================================================================
