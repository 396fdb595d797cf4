---------------------------- MODULE MCCloneCard -----------------------------
(* CloneCard has numbers for constants only, given in the cfg.             *)
EXTENDS CloneCard
=============================================================================
