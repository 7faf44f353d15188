------------------------------ MODULE MCThreadDog ------------------------------
(***************************************************************************)
(* Instances of ThreadDog for TLC.                                         *)
(***************************************************************************)
EXTENDS ThreadDog, TLC
===============================================================================
