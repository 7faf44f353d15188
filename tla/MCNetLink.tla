------------------------------ MODULE MCNetLink ------------------------------
(***************************************************************************)
(* Instances of NetLink for TLC: a TCP server link, which needs two        *)
(* descriptors, beside a TCP client link with a protocol worker.           *)
(***************************************************************************)
EXTENDS NetLink, TLC

CONSTANTS srv, cli, worker, other

MCRole     == (srv :> "tcp_server") @@ (cli :> "tcp_client")
MCWorkerOf == (worker :> cli) @@ (other :> NoLink)
MCSendsOn  == (worker :> {cli}) @@ (other :> {srv, cli})
===============================================================================
