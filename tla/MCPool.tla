------------------------------- MODULE MCPool -------------------------------
(***************************************************************************)
(* Pool on a small instance: two chats of one profile.                     *)
(***************************************************************************)
EXTENDS Aider

CONSTANTS t1, t2

\* An adapter that can do it all but report an ending, and one that loads and does.
AllOrLoad == {{"resume", "load", "close"}, {"load", "states"}}
OnlyLoad == {{"load"}}
=============================================================================
