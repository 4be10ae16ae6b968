------------------------------- MODULE Tools --------------------------------
(***************************************************************************)
(* Tools and the grants behind them (host/tools/mod.rs, flow.rs,           *)
(* loopback.rs, oauth.rs, and the tool grants of host/store/mod.rs and     *)
(* host/store/secrets.rs).                                                 *)
(*                                                                         *)
(* One provider, and one local server whose profile directory is a lock.   *)
(* A sign-in runs on a thread of its own; everything else runs on the      *)
(* host's, but the grant is bytes in the vault, a pointer to them and a    *)
(* row, each written by itself, with the host liable to stop in between.   *)
(* A token stands for the bundle it comes in.                              *)
(***************************************************************************)
EXTENDS Naturals, FiniteSets

CONSTANTS
    Threads,
    None,
    MaxConsents,   \* bound: the sign-ins started
    MaxTokens,     \* bound: the tokens the provider issues
    MaxMishaps     \* bound: vault failures and crashes of the host

ASSUME ToolsAssumption ==
    /\ None \notin Threads \cup Nat
    /\ {MaxConsents, MaxTokens, MaxMishaps} \subseteq Nat

Tokens == 1..MaxTokens
Ids == 1..(MaxMishaps + 2)    \* secret_refs ids: only orphans keep one for good

VARIABLES
    flow,      \* connect_flows: the sign-in under way
    row,       \* tool_connections
    refs,      \* secret_refs
    bundles,   \* the vault's bytes: token and the consent it goes back to, by id
    honoured,  \* the tokens the provider accepts
    op,        \* the operation under way on the host, and its step
    chipped,   \* the threads whose bot is allowed the local server
    live,      \* per thread: whether it has a session, and what it was given
    lease,     \* mcp_profiles: the thread that claimed the profile
    consents, tokens, mishaps,   \* what is used up of the bounds
    ended,     \* ghost: the last consent before the user last disconnected
    orphans    \* ghost: ids whose bytes a failure or a crash cut loose

toolsVars == <<flow, row, refs, bundles, honoured, op, chipped, live, lease,
          consents, tokens, mishaps, ended, orphans>>

NoFlow == [state |-> "none", consent |-> 0, token |-> None, late |-> FALSE]
NoConnection == [status |-> "none", ref |-> None]
Idle == [kind |-> "idle", step |-> "none", ref |-> None, token |-> None,
         consent |-> 0, thread |-> None]
NoSession == [session |-> FALSE, profile |-> FALSE]

ToolsTypeOK ==
    /\ flow.state \in {"none", "discovering", "awaiting", "exchanging", "done",
                       "failed", "dead"}
    /\ row.status \in {"none", "connected", "needs_auth", "error"}
    /\ row.ref \in refs \cup {None}
    /\ refs \subseteq Ids
    /\ DOMAIN bundles \subseteq Ids
    /\ honoured \subseteq Tokens
    /\ op.kind \in {"idle", "put", "refresh", "expire", "disconnect", "claim"}
    /\ op.step \in {"none", "unlink", "erase", "insert", "store", "write"}
    /\ chipped \subseteq Threads
    /\ live \in [Threads -> [session : BOOLEAN, profile : BOOLEAN]]
    /\ lease \in Threads \cup {None}

-----------------------------------------------------------------------------
(* The sign-in, on its own thread (ConnectFlow).                           *)

Finished == flow.state \in {"done", "failed"}

\* Discovery produced an authorize URL; the browser came back with a code.
FlowMoves ==
    /\ flow' = CASE flow.state = "discovering" -> [flow EXCEPT !.state = "awaiting"]
                 [] flow.state = "awaiting" -> [flow EXCEPT !.state = "exchanging"]
                 [] OTHER -> flow
    /\ flow' # flow
    /\ UNCHANGED <<row, refs, bundles, honoured, op, chipped, live, lease, consents,
                   tokens, mishaps, ended, orphans>>

\* The code was traded for tokens.
FlowDone ==
    /\ flow.state = "exchanging" /\ tokens < MaxTokens
    /\ tokens' = tokens + 1
    /\ honoured' = honoured \cup {tokens + 1}
    /\ flow' = [flow EXCEPT !.state = "done", !.token = tokens + 1]
    /\ UNCHANGED <<row, refs, bundles, op, chipped, live, lease, consents, mishaps,
                   ended, orphans>>

\* A step was refused or timed out, or the thread died and published nothing.
FlowFails(how) ==
    /\ flow.state \in {"discovering", "awaiting", "exchanging"}
    /\ flow' = [flow EXCEPT !.state = how]
    /\ UNCHANGED <<row, refs, bundles, honoured, op, chipped, live, lease, consents,
                   tokens, mishaps, ended, orphans>>

\* is_abandoned: the time a flow may take is over.  One that waits for the user
\* has given up by itself before.
FlowIsLate ==
    /\ flow.state \notin {"none", "awaiting"} /\ ~flow.late
    /\ flow' = [flow EXCEPT !.late = TRUE]
    /\ UNCHANGED <<row, refs, bundles, honoured, op, chipped, live, lease, consents,
                   tokens, mishaps, ended, orphans>>

\* Broken: a dead sign-in is waited for.
NeverAbandoned == FALSE

Abandoned == flow.late

-----------------------------------------------------------------------------
(* The grant: revoke, then put (put_tool_grant and its kin).               *)

\* What follows the operation: the rest of the spawn it was part of, if any.
Onward == IF op.thread = None THEN Idle ELSE [Idle EXCEPT !.kind = "claim", !.thread = op.thread]

\* revoke_tool_secret is where all four operations begin.
Begin(kind, token, consent, thread) ==
    [kind |-> kind, step |-> "unlink", ref |-> row.ref, token |-> token,
     consent |-> consent, thread |-> thread]

\* What follows the revocation: the new bytes, if there are any.
AfterRevoke == IF op.kind \in {"put", "refresh"} THEN "insert" ELSE "write"

\* delete_secret: the pointer goes first, and the row's reference with it.
Unlink ==
    /\ op.step = "unlink"
    /\ IF op.ref = None
         THEN op' = [op EXCEPT !.step = AfterRevoke] /\ UNCHANGED <<refs, row>>
         ELSE /\ op' = [op EXCEPT !.step = "erase"]
              /\ refs' = refs \ {op.ref}
              /\ row' = [row EXCEPT !.ref = None]
    /\ ended' = IF op.kind = "disconnect" THEN consents ELSE ended
    /\ UNCHANGED <<flow, bundles, honoured, chipped, live, lease, consents, tokens,
                   mishaps, orphans>>

\* ... and then the bytes.
Erase ==
    /\ op.step = "erase"
    /\ bundles' = [id \in DOMAIN bundles \ {op.ref} |-> bundles[id]]
    /\ op' = [op EXCEPT !.step = AfterRevoke, !.ref = None]
    /\ UNCHANGED <<flow, row, refs, honoured, chipped, live, lease, consents, tokens,
                   mishaps, ended, orphans>>

\* The vault would not delete: the operation ends there.
EraseFails ==
    /\ op.step = "erase" /\ mishaps < MaxMishaps
    /\ mishaps' = mishaps + 1
    /\ orphans' = orphans \cup ({op.ref} \cap DOMAIN bundles)
    /\ op' = Onward
    /\ UNCHANGED <<flow, row, refs, bundles, honoured, chipped, live, lease, consents,
                   tokens, ended>>

\* put_secret: the pointer first.
Insert ==
    /\ op.step = "insert"
    /\ \E id \in Ids \ (refs \cup DOMAIN bundles) :
          /\ \A other \in Ids \ (refs \cup DOMAIN bundles) : id <= other
          /\ refs' = refs \cup {id}
          /\ op' = [op EXCEPT !.step = "store", !.ref = id]
    /\ UNCHANGED <<flow, row, bundles, honoured, chipped, live, lease, consents, tokens,
                   mishaps, ended, orphans>>

Store ==
    /\ op.step = "store"
    /\ bundles' = [id \in DOMAIN bundles \cup {op.ref} |->
                    IF id = op.ref THEN [token |-> op.token, consent |-> op.consent]
                                   ELSE bundles[id]]
    /\ op' = [op EXCEPT !.step = "write"]
    /\ UNCHANGED <<flow, row, refs, honoured, chipped, live, lease, consents, tokens,
                   mishaps, ended, orphans>>

\* The vault would not take the bytes: their pointer goes again.
StoreFails ==
    /\ op.step = "store" /\ mishaps < MaxMishaps
    /\ mishaps' = mishaps + 1
    /\ refs' = refs \ {op.ref}
    /\ op' = Onward
    /\ UNCHANGED <<flow, row, bundles, honoured, chipped, live, lease, consents, tokens,
                   ended, orphans>>

\* upsert_tool_connection, or delete_tool_connection.
Write ==
    /\ op.step = "write"
    /\ row' = CASE op.kind \in {"put", "refresh"} -> [status |-> "connected", ref |-> op.ref]
                [] op.kind = "expire" -> [status |-> "needs_auth", ref |-> None]
                [] op.kind = "disconnect" -> NoConnection
    /\ op' = Onward
    /\ UNCHANGED <<flow, refs, bundles, honoured, chipped, live, lease, consents, tokens,
                   mishaps, ended, orphans>>

\* fail_tool_connection: the reason goes on the row, the grant stays.
Fail == row' = [row EXCEPT !.status = "error"]

-----------------------------------------------------------------------------
(* The handlers.                                                           *)

\* drain_connect_flows, which tools/list, tools/connect and every spawn begin
\* with: a finished flow is committed, an abandoned one given up.
Drain ==
    /\ op = Idle /\ (Finished \/ Abandoned)
    /\ flow' = NoFlow
    /\ IF flow.state = "done"
         THEN op' = Begin("put", flow.token, flow.consent, None) /\ UNCHANGED row
         ELSE Fail /\ UNCHANGED op
    /\ UNCHANGED <<refs, bundles, honoured, chipped, live, lease, consents, tokens,
                   mishaps, ended, orphans>>

\* tools/connect: a flow that is running is the answer, else one is started.
Connect ==
    /\ op = Idle /\ flow = NoFlow /\ consents < MaxConsents
    /\ consents' = consents + 1
    /\ flow' = [NoFlow EXCEPT !.state = "discovering", !.consent = consents + 1]
    /\ UNCHANGED <<row, refs, bundles, honoured, op, chipped, live, lease, tokens,
                   mishaps, ended, orphans>>

\* Broken: the sign-in the user gives up is left running.
LeavesFlow == UNCHANGED flow

\* A flow that is cancelled answers to nobody, whatever it comes to.
CancelFlow == flow' = NoFlow

\* tools/disconnect, which does not drain: what a flow has won goes with it.
Disconnect ==
    /\ op = Idle
    /\ CancelFlow
    /\ op' = Begin("disconnect", None, 0, None)
    /\ UNCHANGED <<row, refs, bundles, honoured, chipped, live, lease, consents, tokens,
                   mishaps, ended, orphans>>

Held == row.ref # None /\ row.ref \in DOMAIN bundles

\* Broken: a refresh that got no answer is a refusal.
NoAnswerIsNo(t) ==
    /\ op' = Begin("expire", None, 0, t)
    /\ UNCHANGED <<row, honoured, tokens>>

\* A refresh that got no answer.
Unanswered(t) ==
    /\ Fail
    /\ op' = [Idle EXCEPT !.kind = "claim", !.thread = t]
    /\ UNCHANGED <<honoured, tokens>>

\* bearer_for, for a session about to be made: the grant as it stands, or a
\* refreshed one.  A provider may retire the token it refreshes, and one it does
\* not honour it refuses.
Spawn(t) ==
    /\ op = Idle /\ ~live[t].session /\ ~Finished /\ ~Abandoned
    /\ \/ /\ op' = [Idle EXCEPT !.kind = "claim", !.thread = t]
          /\ UNCHANGED <<row, honoured, tokens>>
       \/ /\ Held /\ bundles[row.ref].token \in honoured /\ tokens < MaxTokens
          /\ tokens' = tokens + 1
          /\ \E retired \in {{}, {bundles[row.ref].token}} :
                honoured' = (honoured \ retired) \cup {tokens + 1}
          /\ op' = Begin("refresh", tokens + 1, bundles[row.ref].consent, t)
          /\ UNCHANGED row
       \/ /\ Held /\ bundles[row.ref].token \notin honoured
          /\ op' = Begin("expire", None, 0, t)
          /\ UNCHANGED <<row, honoured, tokens>>
       \/ Held /\ Unanswered(t)
    /\ UNCHANGED <<flow, refs, bundles, chipped, live, lease, consents, mishaps, ended,
                   orphans>>

\* Broken: whoever asks last has it.
MayAlwaysLease(t) == TRUE

\* claim_profile: the lease is its holder's as long as that has a session.
MayLease(t) == lease \in {None, t} \/ ~live[lease].session

\* session/new with what the bot is allowed, or without what could not be had.
Attach(t) ==
    /\ op.kind = "claim" /\ op.thread = t
    /\ LET given == t \in chipped /\ MayLease(t)
       IN  /\ lease' = IF given THEN t ELSE lease
           /\ live' = [live EXCEPT ![t] = [session |-> TRUE, profile |-> given]]
    /\ op' = Idle
    /\ UNCHANGED <<flow, row, refs, bundles, honoured, chipped, consents, tokens, mishaps,
                   ended, orphans>>

\* The session could not be made: the claim stands, the adapter is forgotten.
AttachFails(t) ==
    /\ op.kind = "claim" /\ op.thread = t
    /\ lease' = IF t \in chipped /\ MayLease(t) THEN t ELSE lease
    /\ op' = Idle
    /\ UNCHANGED <<flow, row, refs, bundles, honoured, chipped, live, consents, tokens,
                   mishaps, ended, orphans>>

-----------------------------------------------------------------------------
(* The surroundings.                                                       *)

\* The adapter of a thread goes, and with it the servers it ran.
Leave(t) ==
    /\ op = Idle /\ live[t].session
    /\ live' = [live EXCEPT ![t] = NoSession]
    /\ UNCHANGED <<flow, row, refs, bundles, honoured, op, chipped, lease, consents,
                   tokens, mishaps, ended, orphans>>

\* The user edits what a bot may use.
Chip(t) ==
    /\ op = Idle
    /\ chipped' = IF t \in chipped THEN chipped \ {t} ELSE chipped \cup {t}
    /\ UNCHANGED <<flow, row, refs, bundles, honoured, op, live, lease, consents, tokens,
                   mishaps, ended, orphans>>

\* The user takes the grant back at the provider.
Retire(token) ==
    /\ token \in honoured
    /\ honoured' = honoured \ {token}
    /\ UNCHANGED <<flow, row, refs, bundles, op, chipped, live, lease, consents, tokens,
                   mishaps, ended, orphans>>

\* The host stops and is started again.
Relaunch ==
    /\ mishaps < MaxMishaps
    /\ mishaps' = mishaps + 1
    /\ flow' = NoFlow /\ op' = Idle
    /\ live' = [t \in Threads |-> NoSession]
    /\ lease' = None
    /\ orphans' = orphans \cup ({op.ref} \ {row.ref, None})
    /\ UNCHANGED <<row, refs, bundles, honoured, chipped, consents, tokens, ended>>

-----------------------------------------------------------------------------
ToolsInit ==
    /\ flow = NoFlow /\ row = NoConnection /\ refs = {} /\ bundles = <<>> /\ honoured = {}
    /\ op = Idle
    /\ chipped = Threads
    /\ live = [t \in Threads |-> NoSession]
    /\ lease = None
    /\ consents = 0 /\ tokens = 0 /\ mishaps = 0 /\ ended = 0
    /\ orphans = {}

SignIn == FlowMoves \/ FlowDone \/ (\E how \in {"failed", "dead"} : FlowFails(how)) \/ FlowIsLate

GrantStep == Unlink \/ Erase \/ Insert \/ Store \/ Write

Handlers ==
    \/ Drain \/ Connect \/ Disconnect
    \/ \E t \in Threads : Spawn(t) \/ Attach(t) \/ AttachFails(t)

ToolsNext ==
    \/ SignIn \/ GrantStep \/ EraseFails \/ StoreFails \/ Handlers
    \/ \E t \in Threads : Leave(t) \/ Chip(t)
    \/ \E token \in Tokens : Retire(token)
    \/ Relaunch

ToolsSpec == ToolsInit /\ [][ToolsNext]_toolsVars

\* Time passes for a flow, the client that shows the chips polls tools/list, and
\* the host finishes what it began.  Nothing is assumed of the user, of the
\* sign-in's thread or of the provider.
Fairness ==
    /\ WF_toolsVars(FlowIsLate \/ FlowFails("failed"))
    /\ SF_toolsVars(Drain)
    /\ WF_toolsVars(GrantStep)
    /\ \A t \in Threads : WF_toolsVars(Attach(t) \/ AttachFails(t))

ToolsLiveSpec == ToolsSpec /\ Fairness

-----------------------------------------------------------------------------
(* Properties.                                                             *)

\* Between operations every item of the vault is the one the provider's row
\* points at, but for those a failure or a crash cut loose: a re-consent replaces
\* the tokens "instead of leaving an orphaned keychain entry nobody can reach or
\* delete" (put_tool_grant).
OneReachableGrant ==
    op = Idle => \A id \in DOMAIN bundles : id = row.ref \/ id \in orphans

\* "Expiring here would delete the refresh token, so a Wi-Fi blip [...] would
\* cost the user a full re-consent" (bearer_for): a token the provider honours
\* leaves the vault only for the user's disconnect, or for the one that follows
\* it.
HonouredIsKept ==
    [][\A id \in DOMAIN bundles \ DOMAIN bundles' :
          bundles[id].token \in honoured => op.kind # "expire"]_toolsVars

\* Once a disconnect has begun to revoke, nothing of an earlier sign-in is recorded, however late its
\* thread comes back with tokens (tools_disconnect, drain_connect_flows).
DisconnectSticks ==
    op = Idle /\ Held => bundles[row.ref].consent > ended

\* Both: the vault holds the grant the user last agreed to, if any.
GrantIsCurrent == ToolsTypeOK /\ OneReachableGrant /\ DisconnectSticks

\* "One profile lock at a time" (claim_profile): of all live sessions at most one
\* was given the profile directory.
OneProfileAtATime ==
    \A t, u \in Threads : live[t].profile /\ live[u].profile => t = u

\* A chip does not say "connecting" forever, even of a flow whose thread died
\* without publishing anything (is_abandoned).
ConnectingEnds == flow # NoFlow ~> flow = NoFlow

\* "The chip can say 'needs auth' instead of silently pretending to work"
\* (expire_tool_grant; card): a chip that says connected has tokens behind it.
\* It may not: each operation revokes first, and a vault that fails next, or a
\* crash, leaves a row that says connected over no bytes.
ConnectedHasTokens == op = Idle /\ row.status = "connected" => Held

\* "A lease that outlived the process it described would lock the tool out"
\* (claim_profile): a thread is refused the profile only while some session has
\* it.  The holder may have come back without the tool.
RefusedForAHolder ==
    [][\A t \in chipped :
          live'[t].session /\ ~live[t].session /\ ~live'[t].profile =>
              \E u \in Threads : live[u].profile]_toolsVars

=============================================================================
