------------------------------ MODULE MCUsage -------------------------------
(* Values for the constants of Usage.                                      *)
EXTENDS Usage

CONSTANTS k1, c1, c2, wyoming

HttpAndWyoming == {c1, c2, wyoming}
=============================================================================
