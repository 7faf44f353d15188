------------------------------- MODULE SdccpLink -------------------------------
(***************************************************************************)
(* What the workers of the two upward protocols, CC BJDC and HJ/T 212,     *)
(* share (sdccp_net.c and the receivers of cc_bjdc.c and hjt212.c): a      *)
(* client link (see NetLink), a receiver that the task of the link feeds   *)
(* and that is never reset, and a queue from it to the worker, which       *)
(* drops what does not fit.                                                *)
(*                                                                         *)
(* The server is external: it answers a request or is silent, and may      *)
(* send messages of its own.  A message is a record:                       *)
(*   kind "seq"     a sequence for the digest; good: it is the last one    *)
(*                  the server has sent on this connection                 *)
(*   kind "result"  the server's verdict on a digest; good: passed         *)
(*   kind "time"    the answer to a heartbeat                              *)
(*   kind "other"   any message that asks for no change of state           *)
(*   kind "restart" the order to restart the gateway                       *)
(*                                                                         *)
(* Bounds: MaxMishap mishaps, which are connections that are lost, fail or  *)
(* take longer to come back than the worker gives them, requests without   *)
(* answer, answers later than the wait for them, messages nobody has asked *)
(* for and calls of calloc that fail; MaxAir messages on their way.        *)
(***************************************************************************)
EXTENDS Naturals, Sequences

CONSTANTS
    QueueLen,   \* the length of s_CCDataQueue
    MaxMishap, MaxAir   \* bounds, see above

ASSUME SdccpAssumption == QueueLen \in Nat \ {0} /\ {MaxMishap, MaxAir} \subseteq Nat

VARIABLES
    conn,       \* the task of the link: between two attempts, trying, or connected
    req,        \* net->disconnect
    air,        \* the messages on their way to the gateway
    rx,         \* the receiver: at the head of a frame, in one that is cut, or deaf
    queue,      \* s_CCDataQueue
    mishaps     \* see the bounds

linkVars == <<conn, req, air, rx, queue, mishaps>>

Messages == [kind : {"seq", "result", "time", "other", "restart"}, good : BOOLEAN]

LinkTypeOK ==
    /\ conn \in {"idle", "trying", "up"} /\ req \in BOOLEAN
    /\ air \in Seq(Messages) /\ Len(air) <= MaxAir
    /\ rx \in {"clean", "cut", "deaf"}
    /\ queue \in Seq(Messages) /\ Len(queue) <= QueueLen
    /\ mishaps \in 0 .. MaxMishap

\* The first connection starts the worker.
LinkInit ==
    /\ conn = "up" /\ req = FALSE
    /\ air = <<>> /\ rx = "clean" /\ queue = <<>>
    /\ mishaps = 0

-------------------------------------------------------------------------------
\* net_isconnect.
Up == conn = "up"

Msg(kind) == [kind |-> kind, good |-> FALSE]
Mishap == mishaps < MaxMishap /\ mishaps' = mishaps + 1

\* The sequences in s are no longer the server's last.
Staled(s) == [i \in DOMAIN s |->
                IF s[i].kind = "seq" THEN [s[i] EXCEPT !.good = FALSE] ELSE s[i]]

\* net_send: the server gets the request and answers it with m or is silent.
Ask(m) ==
    \/ ~Up /\ UNCHANGED <<air, mishaps>>
    \/ /\ Up /\ Len(air) < MaxAir
       /\ air' = Append(air, m)
       /\ UNCHANGED mishaps
    \/ Up /\ Mishap /\ UNCHANGED air

\* rt_mq_recv(queue, timeout) gets a message, or runs out of time.
Got(m)  == queue # <<>> /\ m = Head(queue) /\ queue' = Tail(queue)
TimeUp  == /\ queue = <<>>
           /\ IF air = <<>> THEN UNCHANGED mishaps ELSE Mishap

\* _net_task: requests to drop the connection that came before an attempt are
\* cleared, those that come during it hold for the new connection.
Attempt ==
    /\ conn = "idle"
    /\ conn' = "trying" /\ req' = FALSE
    /\ UNCHANGED <<air, rx, queue, mishaps>>

Connect ==
    /\ conn = "trying" /\ conn' = "up"
    /\ UNCHANGED <<req, air, rx, queue, mishaps>>

Fail ==
    /\ conn = "trying" /\ conn' = "idle"
    /\ Mishap
    /\ UNCHANGED <<req, air, rx, queue>>

\* The connection ends.  A frame that is cut leaves the receiver in a state of
\* cuts: inside the frame, or deaf to the head of every other.
Ended(cuts) ==
    /\ Up
    /\ conn' = "idle" /\ air' = <<>>
    /\ queue' = Staled(queue)
    /\ rx' \in IF air = <<>> THEN {rx} ELSE {rx} \cup cuts
    /\ UNCHANGED req

\* It is lost, or it is dropped for the worker after 4 seconds of silence, in
\* which the worker has nothing to do.
Lose(cuts) == Ended(cuts) /\ Mishap
Drop(rests) ==
    /\ req /\ rests /\ air = <<>>
    /\ Ended({}) /\ UNCHANGED mishaps

\* 5 seconds after net_disconnect has seen the connection end.
Dropped == IF req /\ Up THEN Mishap ELSE UNCHANGED mishaps

\* Variant of Deliver: the queue is taken to have room.
DeliverAlways ==
    /\ Up /\ air # <<>>
    /\ air' = Tail(air)
    /\ rx' = IF rx = "cut" THEN "clean" ELSE rx
    /\ queue' = IF rx = "clean" THEN Append(queue, Head(air)) ELSE queue
    /\ UNCHANGED <<conn, req, mishaps>>

\* PutBytes and ParsePack: a whole frame goes to the queue if that has room.
Deliver ==
    /\ Up /\ air # <<>>
    /\ air' = Tail(air)
    /\ rx' = IF rx = "cut" THEN "clean" ELSE rx
    /\ queue' = IF rx = "clean" /\ Len(queue) < QueueLen
                  THEN Append(queue, Head(air)) ELSE queue
    /\ UNCHANGED <<conn, req, mishaps>>

\* The server sends a message nobody has asked for.
Push(kinds) ==
    /\ Up /\ Len(air) < MaxAir /\ Mishap
    /\ \E k \in kinds : air' = Append(air, Msg(k))
    /\ UNCHANGED <<conn, req, rx, queue>>
===============================================================================
