------------------------------ MODULE MCStorage ------------------------------
(***************************************************************************)
(* An instance of Storage for TLC: a table that is full after a few rows,  *)
(* and rows, an edit and commits that do not fit into the queue together.  *)
(***************************************************************************)
EXTENDS Storage, TLC

CONSTANT a1
===============================================================================
