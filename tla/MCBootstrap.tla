---------------------------- MODULE MCBootstrap -----------------------------
(* Values for the constants of Bootstrap.                                  *)
EXTENDS Bootstrap

\* A voice called as the root key is, and one that is not.
CONSTANTS mum
SomeNames == {RootLabel, mum}
=============================================================================
