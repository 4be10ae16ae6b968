------------------------------- MODULE Drafts -------------------------------
(***************************************************************************)
(* The crew members that agents propose (host/crew/draft.rs,               *)
(* host/store/draft.rs) and the windows in which the user decides about    *)
(* them (views/crew.ts, App.tsx).                                          *)
(*                                                                         *)
(* A proposal is a tool call like those of Chief: its answer may be lost,  *)
(* its agent may ask again, and the tool may be taken from the bot between *)
(* the proposal and the decision.  A window decides on what it last read.  *)
(* Each bot uses one request key.                                          *)
(***************************************************************************)
EXTENDS Chief

CONSTANTS
    Windows,    \* the full devices of the user
    Proposals,  \* what a bot may be proposed as
    Edited      \* what the user may make of a proposal in the editor

ASSUME DraftsAssumption == {None} \cap (Proposals \cup Edited) = {}

VARIABLES
    drafts,   \* bot_drafts, by the bot that proposes
    made,     \* ghost: the bots made of each draft, and what the window showed
    listed,   \* per window, the drafts as the last crew/drafts told them
    told      \* ghost: what the host has answered became of a draft

draftVars == <<drafts, made, listed, told>>

NoDraft == [status |-> "none", proposal |-> None, revision |-> 0]
Reviewable == {"pending", "stale"}

DraftTypeOK ==
    /\ drafts \in [Bots -> [status : {"none", "saved", "dismissed"} \cup Reviewable,
                            proposal : Proposals \cup Edited \cup {None}, revision : 0..2]]
    /\ told \in [Bots -> SUBSET {"saved", "dismissed"}]

-----------------------------------------------------------------------------
(* The tool.                                                               *)

\* Broken: a second proposal under the key takes the first one's place.
InsertedOver(draft, proposal) ==
    IF draft.status \in Reviewable \cup {"none"}
      THEN [status |-> "pending", proposal |-> proposal, revision |-> 1] ELSE draft

\* insert_draft: a key is used once; the same again is the draft there is, and
\* another proposal under it is refused.
Inserted(draft, proposal) ==
    IF draft.status = "none"
      THEN [status |-> "pending", proposal |-> proposal, revision |-> 1] ELSE draft

DraftBot ==
    /\ Begins /\ Owner(By) \in chips /\ calls[Call].kind = "draft"
    /\ \E proposal \in Proposals :
          drafts' = [drafts EXCEPT ![Owner(By)] = Inserted(@, proposal)]
    /\ Answered
    /\ UNCHANGED <<chips, thread, session, bridges, rx, turn, queue, rows, moves, crashes,
                   made, listed, told>>

-----------------------------------------------------------------------------
(* The windows.                                                            *)

\* refresh_stale: the proposer has lost the tool meanwhile.
Refreshed(b) ==
    IF drafts[b].status = "pending" /\ b \notin chips
      THEN [drafts[b] EXCEPT !.status = "stale"] ELSE drafts[b]

\* crew/drafts, when a window opens, decides, or hears of a draft.  One that fails
\* shows none, and is a window that does not decide.
List(w) ==
    /\ Idle
    /\ drafts' = [b \in Bots |-> Refreshed(b)]
    /\ listed' = [listed EXCEPT ![w] =
          [b \in Bots |-> IF drafts[b].status \in Reviewable THEN Refreshed(b) ELSE NoDraft]]
    /\ UNCHANGED <<vars, made, told>>

\* The answer to a decision.  A window that loses it may decide again all the same.
Tell(b, verdict) == told' = [told EXCEPT ![b] = @ \cup {verdict}]

\* crew_draft_save and save_draft.  What is given replaces what was proposed.
SaveTook(w, b, given) ==
    LET draft == Refreshed(b)
        content == IF given = None THEN draft.proposal ELSE given
    IN IF draft.status \in Reviewable /\ draft.revision = listed[w][b].revision
         THEN /\ drafts' = [drafts EXCEPT ![b] =
                               [status |-> "saved", proposal |-> content,
                                revision |-> draft.revision + 1]]
              /\ made' = [made EXCEPT ![b] =
                             Append(@, [as |-> content, shown |-> listed[w][b].proposal])]
              /\ Tell(b, "saved")
         ELSE /\ drafts' = [drafts EXCEPT ![b] = draft]
              /\ UNCHANGED made
              /\ IF draft.status = "saved" THEN Tell(b, "saved") ELSE UNCHANGED told

\* crew/drafts/save: nothing given, what the window shows, or what its editor made of it.
Save(w, b) ==
    /\ Moves /\ listed[w][b] # NoDraft
    /\ \E given \in {None, listed[w][b].proposal} \cup Edited : SaveTook(w, b, given)
    /\ UNCHANGED <<chips, thread, session, bridges, rx, turn, queue, calls, rows, frames,
                   crashes, ran, listed>>

\* crew/drafts/dismiss.
Dismiss(w, b) ==
    /\ Moves /\ listed[w][b] # NoDraft
    /\ LET draft == drafts[b]
           takes == draft.status \in Reviewable /\ draft.revision = listed[w][b].revision
       IN /\ drafts' = IF takes
                         THEN [drafts EXCEPT ![b] =
                                 [status |-> "dismissed", proposal |-> draft.proposal,
                                  revision |-> draft.revision + 1]]
                         ELSE drafts
          /\ IF takes \/ draft.status = "dismissed" THEN Tell(b, "dismissed")
             ELSE UNCHANGED told
    /\ UNCHANGED <<chips, thread, session, bridges, rx, turn, queue, calls, rows, frames,
                   crashes, ran, made, listed>>

-----------------------------------------------------------------------------
DraftsInit ==
    /\ Init
    /\ drafts = [b \in Bots |-> NoDraft]
    /\ made = [b \in Bots |-> <<>>]
    /\ listed = [w \in Windows |-> [b \in Bots |-> NoDraft]]
    /\ told = [b \in Bots |-> {}]

DraftsNext ==
    \/ Next /\ UNCHANGED draftVars
    \/ DraftBot
    \/ \E w \in Windows : List(w) \/ \E b \in Bots : Save(w, b) \/ Dismiss(w, b)

DraftsSpec == DraftsInit /\ [][DraftsNext]_<<vars, draftVars>>

-----------------------------------------------------------------------------
(* Property.                                                               *)

\* "Create the bot and mark the draft saved in one transaction. A retry after a
\* lost response, or a second window, returns the same bot" (save_draft): however
\* often the agent proposes and however the windows' decisions cross, a draft makes
\* one bot at most, of what the window that saved it showed or of the user's own
\* words, and no two windows hear of different ends.
ProposalsStand ==
    DraftTypeOK /\ \A b \in Bots :
        /\ Len(made[b]) = (IF drafts[b].status = "saved" THEN 1 ELSE 0)
        /\ \A n \in DOMAIN made[b] : made[b][n].as \in {made[b][n].shown} \cup Edited
        /\ \A verdict \in told[b] : drafts[b].status = verdict

=============================================================================
