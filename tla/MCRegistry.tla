----------------------------- MODULE MCRegistry -----------------------------
(* Values for the constants of Registry.                                   *)
EXTENDS Registry, TLC

CONSTANTS n1, n2

TwoLabels == {"root", "dave"}

Body(role, upload, max) ==
  [role |-> role, can_upload |-> upload, max_voices |-> max, expires |-> "never"]

Users == {Body("user", TRUE, 1)}
UsersAndAdmins == {Body("user", TRUE, 1), Body("admin", TRUE, 0)}

\* One field each, as an administrator would send them.
KeyPatches == {[enabled |-> FALSE], [expires |-> "later"], [role |-> "user"]}
LimitPatches == {[max_voices |-> 0]}
NoPatches == {}

\* Which of two connections a request comes on makes no difference: none is in a
\* constant, and the initial state and every action treat them alike.
AnyConn == Permutations(Conns)
=============================================================================
