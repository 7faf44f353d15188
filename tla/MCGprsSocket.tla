----------------------------- MODULE MCGprsSocket -----------------------------
(***************************************************************************)
(* Instances of GprsSocket for TLC: two links on two sockets, one of them  *)
(* with a protocol worker, one with a thread that sends on it.             *)
(***************************************************************************)
EXTENDS GprsSocket, TLC

CONSTANTS a, b, worker, sender

MCLinkOf == [t \in {a, b} \cup Workers \cup Senders |-> IF t = b THEN b ELSE a]
===============================================================================
