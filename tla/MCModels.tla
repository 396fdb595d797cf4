------------------------------ MODULE MCModels ------------------------------
(* Models has numbers for constants only, given in the cfg.                *)
EXTENDS Models
=============================================================================
