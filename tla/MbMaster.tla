------------------------------- MODULE MbMaster -------------------------------
(***************************************************************************)
(* One network port of the Modbus master (freemodbus, Modbus TCP).  The    *)
(* threads that read and write the remote registers (the refresh task and  *)
(* the writers of varmanage.c) share the port: a semaphore, the "run       *)
(* resource", lets one request through at a time.  The request is put into *)
(* the port's only send buffer, the poll thread (eMBMasterPoll) sends it,  *)
(* handles the answer, the respond timer or an error, reports the outcome  *)
(* through a second event object and releases the semaphore.               *)
(*                                                                         *)
(* An event object is a set of bits; a thread that already waits gets the  *)
(* first bit sent, one that comes later gets all that are pending, and     *)
(* xMBMasterPortEventGet understands only a single bit.                    *)
(*                                                                         *)
(* An answer may be read in two parts; nothing puts them together again.   *)
(*                                                                         *)
(* Bounds: MaxReq requests in a behaviour, numbered in the order in which  *)
(* their threads asked for the semaphore, and MaxPart answers in parts.    *)
(***************************************************************************)
EXTENDS Naturals, Sequences, FiniteSets

CONSTANTS
    Threads,    \* the threads that make requests on the port
    MaxReq,     \* bound on the number of requests
    MaxPart,    \* bound on the number of answers that come in parts
    Garbage     \* the events an uninitialised eEvent may look like

Events == {"received", "execute", "sent", "error"}

ASSUME MbAssumption ==
    /\ IsFiniteSet(Threads)
    /\ MaxReq \in Nat \ {0} /\ MaxPart \in Nat
    /\ Garbage \subseteq Events

VARIABLES
    sem,        \* value of xMasterRunRes
    st,         \* st[t]: where thread t is
    cur,        \* cur[t]: the number of t's request
    got,        \* got[t]: the response bits eMBMasterWaitRequestFinish received
    pdu,        \* the request in the send buffer
    ev,         \* pending bits of xMasterOsEvents
    poll,       \* where the poll thread is
    frm,        \* the buffer ucMBFrame points into
    err,        \* eMBMasterCurErrorType
    timer,      \* the respond timer runs
    rsp,        \* pending bits of xMasterOsRspEvents
    waitq,      \* the threads suspended on it, FIFO
    wire,       \* requests the slave has received and not answered
    buf,        \* net->buffer: the request whose whole answer it holds, or 0
    torn,       \* requests of wire whose answer has begun to come in parts
    parts,      \* answers that came in parts so far
    last,       \* requests made so far (history)
    executed,   \* the open requests whose answer was executed with success (history)
    clean       \* nothing has come at the wrong moment so far (history)

reqVars == <<sem, st, cur, got, last>>
bufVars == <<pdu, frm, buf, torn, parts>>
rspVars == <<rsp, waitq>>
vars == <<reqVars, bufVars, ev, poll, err, timer, rspVars, wire, executed, clean>>

Errors  == {"timeout", "data", "function"}
Results == Errors \cup {"success"}
Reqs    == 1 .. MaxReq

TypeOK ==
    /\ sem \in Nat
    /\ st \in [Threads -> {"idle", "take", "fill", "post", "recv", "wait", "done"}]
    /\ cur \in [Threads -> 0 .. MaxReq]
    /\ got \in [Threads -> SUBSET Results]
    /\ pdu \in 0 .. MaxReq
    /\ ev \in SUBSET Events
    /\ poll \in Events \cup {"get", "blocked", "armed", "failed", "release"}
    /\ frm \in {"request", "reply"}
    /\ err \in Errors
    /\ timer \in BOOLEAN
    /\ rsp \in SUBSET Results
    /\ waitq \in Seq(Threads)
    /\ wire \in SUBSET Reqs
    /\ buf \in 0 .. MaxReq
    /\ torn \in SUBSET Reqs
    /\ parts \in 0 .. MaxPart
    /\ last \in 0 .. MaxReq
    /\ executed \in SUBSET Reqs
    /\ clean \in BOOLEAN

Init ==
    /\ sem = 1
    /\ st = [t \in Threads |-> "idle"]
    /\ cur = [t \in Threads |-> 0]
    /\ got = [t \in Threads |-> {}]
    /\ pdu = 0 /\ frm = "request" /\ buf = 0 /\ torn = {} /\ parts = 0
    /\ ev = {} /\ poll = "get" /\ err = "timeout" /\ timer = FALSE
    /\ rsp = {} /\ waitq = <<>>
    /\ wire = {} /\ last = 0 /\ executed = {} /\ clean = TRUE

-------------------------------------------------------------------------------
(* The event objects and the semaphore.                                     *)

\* xMBMasterPortEventPost, by anyone but the poll thread.
Post(e) ==
    IF poll = "blocked"
      THEN poll' = e /\ UNCHANGED ev
      ELSE ev' = ev \cup {e} /\ UNCHANGED poll

\* xMBMasterPortEventPost by the poll thread, as the last thing it does.
PollPost(e) == ev' = ev \cup {e} /\ poll' = "get"

\* rt_event_send on the response events: the longest waiting thread gets the
\* bit, or it stays pending for a thread that is not there yet.
Respond(r) ==
    /\ clean' = (clean /\ \A t \in Threads : st[t] # "recv")
    /\ \/ /\ waitq = <<>>
          /\ rsp' = rsp \cup {r}
          /\ UNCHANGED <<st, got, waitq>>
       \/ /\ waitq # <<>>
          /\ st' = [st EXCEPT ![Head(waitq)] = "done"]
          /\ got' = [got EXCEPT ![Head(waitq)] = {r}]
          /\ waitq' = Tail(waitq)
          /\ UNCHANGED rsp

\* What eMBMasterWaitRequestFinish makes of the bits: two of them match no
\* case and count as success.
Status(bits) == IF Cardinality(bits) = 1 THEN CHOOSE r \in bits : TRUE ELSE "success"

-------------------------------------------------------------------------------
(* A request (eMBMasterReqReadHoldingRegister and its like).                *)

\* Variant of Take: the result of rt_sem_take is not looked at.
TakeAnyway(t) ==
    /\ st[t] = "idle"
    /\ last < MaxReq
    /\ last' = last + 1
    /\ cur' = [cur EXCEPT ![t] = last + 1]
    /\ sem' = sem - 1
    /\ st' = [st EXCEPT ![t] = "fill"]
    /\ UNCHANGED <<got, bufVars, ev, poll, err, timer, rspVars, wire, executed, clean>>

\* xMBMasterRunResTake, for ever.
Take(t) ==
    /\ st[t] = "idle"
    /\ last < MaxReq
    /\ last' = last + 1
    /\ cur' = [cur EXCEPT ![t] = last + 1]
    /\ IF sem > 0
         THEN sem' = sem - 1 /\ st' = [st EXCEPT ![t] = "fill"]
         ELSE st' = [st EXCEPT ![t] = "take"] /\ UNCHANGED sem
    /\ UNCHANGED <<got, bufVars, ev, poll, err, timer, rspVars, wire, executed, clean>>

\* The request is written into the send buffer, ...
Fill(t) ==
    /\ st[t] = "fill"
    /\ pdu' = cur[t]
    /\ st' = [st EXCEPT ![t] = "post"]
    /\ UNCHANGED <<sem, cur, got, last, frm, buf, torn, parts, ev, poll, err, timer, rspVars,
                   wire, executed, clean>>

\* ... the poll thread is told, ...
PostSent(t) ==
    /\ st[t] = "post"
    /\ Post("sent")
    /\ st' = [st EXCEPT ![t] = "recv"]
    /\ UNCHANGED <<sem, cur, got, last, bufVars, err, timer, rspVars, wire,
                   executed, clean>>

\* ... and the thread waits for any of the response bits.
Recv(t) ==
    /\ st[t] = "recv"
    /\ IF rsp = {}
         THEN /\ st' = [st EXCEPT ![t] = "wait"]
              /\ waitq' = Append(waitq, t)
              /\ UNCHANGED <<got, rsp>>
         ELSE /\ st' = [st EXCEPT ![t] = "done"]
              /\ got' = [got EXCEPT ![t] = rsp]
              /\ rsp' = {}
              /\ UNCHANGED waitq
    /\ UNCHANGED <<sem, cur, last, bufVars, ev, poll, err, timer, wire, executed,
                   clean>>

\* Ten seconds pass only when the poll thread has nothing to do and no timer
\* (of one second) runs, or while it is blocked in net_send.
TenSeconds == ~timer /\ ev = {} /\ poll \in {"blocked", "sent"}

\* Variant of WaitTimeout: the thread just waits again.
WaitTimeoutNoPost(t) ==
    /\ st[t] = "wait"
    /\ TenSeconds
    /\ UNCHANGED vars

\* The wait ends without a response: the thread reports an error itself and
\* waits again.
WaitTimeout(t) ==
    /\ st[t] = "wait"
    /\ TenSeconds
    /\ \E i \in DOMAIN waitq :
          /\ waitq[i] = t
          /\ waitq' = SubSeq(waitq, 1, i - 1) \o SubSeq(waitq, i + 1, Len(waitq))
    /\ st' = [st EXCEPT ![t] = "recv"]
    /\ timer' = FALSE
    /\ err' = "timeout"
    /\ Post("error")
    /\ clean' = FALSE
    /\ UNCHANGED <<sem, cur, got, last, bufVars, rsp, wire, executed>>

\* The request returns to its caller.
Return(t) ==
    /\ st[t] = "done"
    /\ st' = [st EXCEPT ![t] = "idle"]
    /\ cur' = [cur EXCEPT ![t] = 0]
    /\ got' = [got EXCEPT ![t] = {}]
    /\ executed' = executed \ {cur[t]}
    /\ UNCHANGED <<sem, last, bufVars, ev, poll, err, timer, rspVars, wire, clean>>

-------------------------------------------------------------------------------
(* The poll thread.                                                         *)

\* xMBMasterPortEventGet: the pending bits are cleared.  More than one matches
\* no case of the switch: *eEvent keeps whatever the stack held.
Get ==
    /\ poll = "get"
    /\ ev' = {}
    /\ \/ ev = {} /\ poll' = "blocked"
       \/ Cardinality(ev) = 1 /\ poll' \in ev
       \/ Cardinality(ev) > 1 /\ poll' \in Garbage \cup {"get"}
    /\ UNCHANGED <<reqVars, bufVars, err, timer, rspVars, wire, executed, clean>>

\* Variant of Receive: the respond timer is left running.
ReceiveKeepsTimer ==
    /\ poll = "received"
    /\ \/ PollPost("execute") /\ frm' = "reply" /\ UNCHANGED err
       \/ PollPost("error") /\ err' = "data" /\ UNCHANGED frm
    /\ UNCHANGED <<reqVars, pdu, buf, torn, parts, timer, rspVars, wire, executed, clean>>

\* EV_MASTER_FRAME_RECEIVED: the respond timer is stopped; the frame is sound
\* and from the addressed slave, or it is not.
Receive ==
    /\ poll = "received"
    /\ timer' = FALSE
    /\ \/ PollPost("execute") /\ frm' = "reply" /\ UNCHANGED err
       \/ PollPost("error") /\ err' = "data" /\ UNCHANGED frm
    /\ UNCHANGED <<reqVars, pdu, buf, torn, parts, rspVars, wire, executed, clean>>

\* The request whose answer ucMBFrame points to, if it has not returned.
Answered == {cur[t] : t \in {u \in Threads : frm = "reply" /\ cur[u] = buf /\ buf # 0}}

\* Variant of Execute: an exception is taken for success.
ExecuteHidesException ==
    /\ poll = "execute"
    /\ poll' = "release"
    /\ Respond("success")
    /\ \/ executed' = executed \cup Answered
       \/ UNCHANGED executed
    /\ UNCHANGED <<sem, cur, last, bufVars, ev, err, timer, wire>>

\* EV_MASTER_EXECUTE: the handler stores the values of the frame under the
\* registers named in the send buffer, or finds an exception.
Execute ==
    /\ poll = "execute"
    /\ \/ /\ poll' = "release"
          /\ Respond("success")
          /\ executed' = executed \cup Answered
          /\ UNCHANGED <<ev, err>>
       \/ /\ err' = "function"
          /\ PollPost("error")
          /\ UNCHANGED <<st, got, rspVars, executed, clean>>
    /\ UNCHANGED <<sem, cur, last, bufVars, timer, wire>>

\* EV_MASTER_FRAME_SENT: net_send succeeds or not, ...
Send ==
    /\ poll = "sent"
    /\ frm' = "request"
    /\ \/ poll' = "armed" /\ wire' = wire \cup ({pdu} \cap Reqs) /\ UNCHANGED clean
       \/ poll' = "failed" /\ clean' = FALSE /\ UNCHANGED wire
    /\ UNCHANGED <<reqVars, pdu, buf, torn, parts, ev, err, timer, rspVars, executed>>

\* ... the respond timer is started either way, and a failure is posted with
\* the error type of the last error.
Arm ==
    /\ timer' = TRUE
    /\ \/ poll = "armed" /\ poll' = "get" /\ UNCHANGED ev
       \/ poll = "failed" /\ PollPost("error")
    /\ UNCHANGED <<reqVars, bufVars, err, rspVars, wire, executed, clean>>

\* EV_MASTER_ERROR_PROCESS: the callback of the current error type.
ErrorProcess ==
    /\ poll = "error"
    /\ poll' = "release"
    /\ frm' = "request"
    /\ Respond(err)
    /\ UNCHANGED <<sem, cur, last, pdu, buf, torn, parts, ev, err, timer, wire, executed>>

\* Variant of Release: only a success gives the permit back.
ReleaseAfterSuccess ==
    /\ poll = "release"
    /\ poll' = "get"
    /\ \/ \E t \in Threads : st[t] = "take" /\ st' = [st EXCEPT ![t] = "fill"] /\ UNCHANGED sem
       \/ /\ \A t \in Threads : st[t] # "take"
          /\ sem' = IF frm = "reply" THEN sem + 1 ELSE sem
          /\ UNCHANGED st
    /\ UNCHANGED <<cur, got, last, bufVars, ev, err, timer, rspVars, wire,
                   executed, clean>>

\* vMBMasterRunResRelease: a waiting thread gets the permit.
Release ==
    /\ poll = "release"
    /\ poll' = "get"
    /\ \/ \E t \in Threads : st[t] = "take" /\ st' = [st EXCEPT ![t] = "fill"] /\ UNCHANGED sem
       \/ (\A t \in Threads : st[t] # "take") /\ sem' = sem + 1 /\ UNCHANGED st
    /\ UNCHANGED <<cur, got, last, bufVars, ev, err, timer, rspVars, wire,
                   executed, clean>>

-------------------------------------------------------------------------------
(* The interrupt and the network.                                           *)

\* xMBMasterTCPTimerExpired.  It races with an answer that is there already.
Expire ==
    /\ timer
    /\ timer' = FALSE
    /\ err' = "timeout"
    /\ Post("error")
    /\ clean' = (clean /\ "received" \notin ev /\ poll # "received")
    /\ UNCHANGED <<reqVars, bufVars, rspVars, wire, executed>>

\* The answer the port waits for, and not one to a request it has given up.
Awaited(i) == i = pdu /\ (timer \/ poll = "armed")

\* The net task reads a whole answer into net->buffer and tells the poll thread.
Arrive(i) ==
    /\ i \in wire \ torn
    /\ wire' = wire \ {i}
    /\ buf' = i
    /\ Post("received")
    /\ clean' = (clean /\ Awaited(i))
    /\ UNCHANGED <<reqVars, pdu, frm, torn, parts, err, timer, rspVars, executed>>

\* A read returns only a part of an answer, the first or the rest: each is
\* written over the start of the buffer and told as a frame.
ArrivePart(i) ==
    /\ i \in wire
    /\ \/ /\ i \notin torn /\ parts < MaxPart
          /\ torn' = torn \cup {i} /\ parts' = parts + 1
          /\ UNCHANGED wire
       \/ /\ i \in torn
          /\ torn' = torn \ {i} /\ wire' = wire \ {i}
          /\ UNCHANGED parts
    /\ buf' = 0
    /\ Post("received")
    /\ clean' = FALSE
    /\ UNCHANGED <<reqVars, pdu, frm, err, timer, rspVars, executed>>

-------------------------------------------------------------------------------
Request(t) == \/ Take(t) \/ Fill(t) \/ PostSent(t) \/ Recv(t)
              \/ WaitTimeout(t) \/ Return(t)

eMBMasterPoll == \/ Get \/ Receive \/ Execute \/ Send \/ Arm \/ ErrorProcess \/ Release

Next == \/ \E t \in Threads : Request(t)
        \/ eMBMasterPoll
        \/ Expire
        \/ \E i \in Reqs : Arrive(i) \/ ArrivePart(i)

Spec == Init /\ [][Next]_vars

-------------------------------------------------------------------------------
(* Properties.                                                              *)

\* The threads that are inside a request: they have a permit and no outcome.
Holders == {t \in Threads : st[t] \in {"fill", "post", "recv", "wait"}}
Permits == sem + Cardinality(Holders) + (IF poll = "release" THEN 1 ELSE 0)

\* The port never jams: whatever events and answers are lost, the permit is
\* free, in use by a request, or about to be released.
PermitKept == Permits >= 1

\* As long as no send fails or blocks for ten seconds, no answer comes late, in
\* parts or together with the timer, and no outcome comes before its thread waits for
\* it, there is exactly one permit: one request at a time owns the send buffer,
\* the timer and the response events.
OnePermit == clean => Permits = 1 /\ rsp = {}

\* Under the same condition the values of an answer are stored under the
\* registers of the request it answers, and a request reported as successful
\* is one whose own answer was executed.
OwnAnswer ==
    clean => /\ poll = "execute" => frm = "reply" /\ buf = pdu
             /\ \A t \in Threads :
                   st[t] = "done" /\ Status(got[t]) = "success" => cur[t] \in executed

\* What eMBMasterWaitRequestFinish says of itself: it waits for the request to
\* finish and returns its result.  A thread that was told of success was never
\* told of another request's.
ResultIsOwn ==
    \A t \in Threads :
        st[t] = "done" /\ got[t] = {"success"} => cur[t] \in executed

\* The threads run, the timers expire, net_send returns.
Fairness ==
    /\ WF_vars(eMBMasterPoll) /\ WF_vars(Expire)
    /\ \A t \in Threads : WF_vars(Fill(t) \/ PostSent(t) \/ Recv(t) \/ Return(t))
    /\ \A t \in Threads : WF_vars(WaitTimeout(t))

FairSpec == Spec /\ Fairness

\* A request that was posted returns, although events were lost and its outcome
\* may have gone to another thread, once events no longer collide.
RequestReturns ==
    \A t \in Threads :
        <>[](Cardinality(ev) <= 1) => (st[t] = "post" ~> st[t] = "done")
===============================================================================
