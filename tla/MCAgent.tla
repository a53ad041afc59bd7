------------------------------ MODULE MCAgent ------------------------------
(***************************************************************************)
(* Model-checking instances of Agent; the constants are in the .cfg files. *)
(***************************************************************************)
EXTENDS Agent

CONSTANTS d1, d2, s1, f1, h1
============================================================================
