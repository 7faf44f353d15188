----------------------------- MODULE MCMbMaster -----------------------------
(***************************************************************************)
(* Instances of MbMaster for TLC.                                          *)
(***************************************************************************)
EXTENDS MbMaster, TLC
=============================================================================
