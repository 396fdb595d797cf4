---------------------------- MODULE MCWebSession ----------------------------
(* Values for the constants of WebSession.                                 *)
EXTENDS WebSession, TLC

CONSTANTS mine, theirs
TwoTokens == {mine, theirs}

\* Which slot a call is in, and which of the tokens is which, makes no
\* difference: the initial state and every action treat them alike.
Renamings == Permutations(Slots) \cup Permutations(Tokens)
=============================================================================
