----------------------------- MODULE MCSerialXfer -----------------------------
(***************************************************************************)
(* An instance of SerialXfer for TLC: a wired line and the radio line.     *)
(***************************************************************************)
EXTENDS SerialXfer, TLC
===============================================================================
