------------------------------ MODULE GprsSocket ------------------------------
(***************************************************************************)
(* The GPRS links (prvRunAsGPRSClient and prvRunAsGPRSServer of            *)
(* board/net_helper.c) over the sockets of the one AT modem                *)
(* (drivers/gprs/gprs_helper.c).  The task of every link opens a socket of *)
(* the modem, polls its state every 5 seconds and closes it when it is     *)
(* gone; a protocol worker may drop the link, any thread may send on it.   *)
(* All of them share the modem under one FIFO mutex, and they read the     *)
(* socket number tcp_fd before they wait for it.  A parser thread takes    *)
(* the modem's answers and reports in the order they come, without the     *)
(* mutex.                                                                  *)
(*                                                                         *)
(* A step is what a thread does from one blocking call to the next.  AT    *)
(* commands that leave the sockets alone are an outcome, good or bad.      *)
(*                                                                         *)
(* Bounds: MaxFault faults in a behaviour, which are unanswered or late    *)
(* commands, buffers that cannot be allocated, power cycles and calls of   *)
(* net_disconnect; data is sent only while less than MaxOut reports wait.  *)
(***************************************************************************)
EXTENDS Naturals, Sequences

CONSTANTS
    Links,      \* the enabled GPRS links
    Workers,    \* the protocol workers that may call net_disconnect
    Senders,    \* the threads that call net_send
    LinkOf,     \* LinkOf[t]: the link thread t works for
    Socks,      \* the sockets of the modem, 0 .. GPRS_SOCKET_MAX - 1
    NoSock,     \* the value -1 of a socket variable
    NoLink,     \* a socket the modem has not opened belongs to it
    MaxFault, MaxOut    \* bounds, see above

Threads == Links \cup Workers \cup Senders

ASSUME GprsAssumption ==
    /\ NoSock \notin Socks /\ NoLink \notin Links
    /\ Socks \subseteq Nat
    /\ Links \cap (Workers \cup Senders) = {} /\ Workers \cap Senders = {}
    /\ LinkOf \in [Threads -> Links] /\ \A n \in Links : LinkOf[n] = n
    /\ {MaxFault, MaxOut} \subseteq Nat

VARIABLES
    fd,         \* fd[n]: net->tcp_fd of link n
    pc,         \* pc[t]: where thread t is
    arg,        \* arg[t]: the socket of the call t is in
    lock,       \* gprs_mutex: its owner, then the waiters
    used,       \* used[s]: s_xSocketList[s].bUsed
    eConn,      \* eConn[s]: s_xSocketList[s].eConn
    srv,        \* srv[s]: g_xGPRS_SState[s].uSrvState
    ans,        \* s_bRcvCode and s_bIsEvtParse: parsed since the last command
    torn,       \* the parser is between clearing srv and filling it
    recent,     \* a state query is running or less than 5 s old
    power,      \* the modem is on
    modem,      \* modem[s]: the link the modem opened s for, and how far it is
    out,        \* what the modem has sent and the parser not taken
    faults,     \* see the bounds
    mishaps     \* what has gone wrong so far (history)

sockVars == <<used, eConn, srv>>
evtVars  == <<ans, torn>>
modVars  == <<power, modem, out>>
cntVars  == <<faults, mishaps>>
vars == <<fd, pc, arg, lock, sockVars, evtVars, recent, modVars, cntVars>>

Places == {"start", "idle", "create", "cclose", "open", "opened", "conn", "loop",
           "query", "stat", "check", "close", "closewait", "down", "off", "init",
           "work", "send", "sending"}
Reports == [kind : {"ok", "error"}]
             \cup [kind : {"connect", "close"}, sock : Socks]
             \cup [kind : {"stat"}, open : SUBSET Socks]
             \cup [kind : {"data"}, sock : Socks, from : Links]

TypeOK ==
    /\ fd \in [Links -> Socks \cup {NoSock}]
    /\ pc \in [Threads -> Places]
    /\ arg \in [Threads -> Socks \cup {NoSock}]
    \* no thread waits for the mutex while it owns it, but by recursion
    /\ lock \in Seq(Threads) /\ \A i, j \in DOMAIN lock : lock[i] = lock[j] => i = j
    /\ used \in [Socks -> BOOLEAN]
    /\ eConn \in [Socks -> {"WAIT", "EXE", "OK"}]
    /\ srv \in [Socks -> {"zero", "wait", "up"}]
    /\ ans \subseteq {"ok", "error", "close", "stat"}
    /\ torn \in BOOLEAN /\ recent \in BOOLEAN /\ power \in BOOLEAN
    /\ modem \in [Socks -> [who : Links \cup {NoLink}, st : {"idle", "opening", "open"}]]
    /\ out \in Seq(Reports)
    /\ faults \in 0 .. MaxFault
    /\ mishaps \subseteq {"late", "torn", "nomem", "cycle", "drop"}

Idle == [who |-> NoLink, st |-> "idle"]

\* The modem has been initialised, the tasks are about to run.
Init ==
    /\ fd = [n \in Links |-> NoSock]
    /\ pc = [t \in Threads |-> IF t \in Links THEN "start" ELSE "work"]
    /\ arg = [t \in Threads |-> NoSock]
    /\ lock = <<>>
    /\ used = [s \in Socks |-> FALSE]
    /\ eConn = [s \in Socks |-> "WAIT"]
    /\ srv = [s \in Socks |-> "zero"]
    /\ ans = {} /\ torn = FALSE /\ recent = FALSE /\ power = TRUE
    /\ modem = [s \in Socks |-> Idle]
    /\ out = <<>>
    /\ faults = 0 /\ mishaps = {}

-------------------------------------------------------------------------------
Goto(t, p) == pc' = [pc EXCEPT ![t] = p]
Owns(t)    == lock # <<>> /\ Head(lock) = t
Enter(t)   == lock' = Append(lock, t)
\* The end of a call: its answers and its argument are not looked at again.
Leave(t)   == /\ lock' = Tail(lock)
              /\ ans' = {} /\ arg' = [arg EXCEPT ![t] = NoSock]
Fault == faults < MaxFault /\ faults' = faults + 1
Mishap(what) == mishaps' = mishaps \cup {what}

\* prvReleaseSocket of every socket in S.
Released(S) ==
    /\ used' = [s \in Socks |-> used[s] /\ s \notin S]
    /\ eConn' = [s \in Socks |-> IF s \in S THEN "WAIT" ELSE eConn[s]]

\* A command is sent: the modem answers with msg, or not at all.
Answered(msg) == power /\ out' = Append(out, msg) /\ UNCHANGED faults
Unanswered ==
    /\ UNCHANGED out
    /\ IF power THEN Fault ELSE UNCHANGED faults

\* The caller's time is up, with the answer missing or what was sent long ago
\* not parsed yet.
GivesUp ==
    /\ IF out = <<>> THEN UNCHANGED mishaps ELSE Mishap("late")
    /\ IF \E i \in DOMAIN out : out[i].kind # "data" THEN Fault ELSE UNCHANGED faults

\* AT+QICLOSE=s, which may be an error for a socket that is not open.
SendClose(s) ==
    /\ ans' = {}
    /\ IF s \notin Socks \/ ~power
         THEN UNCHANGED <<modem, out, faults>>
         ELSE \/ /\ modem' = [modem EXCEPT ![s] = Idle]
                 /\ Answered([kind |-> "close", sock |-> s])
              \/ /\ modem[s].st = "idle"
                 /\ UNCHANGED modem
                 /\ Answered([kind |-> "error"])
              \/ /\ Unanswered
                 /\ modem' \in {modem, [modem EXCEPT ![s] = Idle]}

\* prvWaitEvt ended with an answer, or after its time.
CloseReturns == IF ans \cap {"close", "error"} # {} THEN UNCHANGED <<faults, mishaps>> ELSE GivesUp

-------------------------------------------------------------------------------
(* The task of a link: __nGPRS_SocketCreate.                                *)

\* The head of prvRunAsGPRSClient.
Start(n) ==
    /\ pc[n] = "start"
    /\ fd' = [fd EXCEPT ![n] = NoSock]
    /\ Goto(n, "idle")
    /\ UNCHANGED <<arg, lock, sockVars, evtVars, recent, modVars, cntVars>>

\* The modem is registered: the task asks for a socket.
Register(n) ==
    /\ pc[n] = "idle"
    /\ Enter(n)
    /\ Goto(n, "create")
    /\ UNCHANGED <<fd, arg, sockVars, evtVars, recent, modVars, cntVars>>

Free(s) == ~used[s]

\* prvGetFreeSocket, and whatever is open there is closed.
Create(n) ==
    /\ pc[n] = "create" /\ Owns(n)
    /\ \/ \E s \in Socks :
             /\ Free(s) /\ \A r \in Socks : r < s => ~Free(r)
             /\ SendClose(s)
             /\ arg' = [arg EXCEPT ![n] = s]
             /\ Goto(n, "cclose")
             /\ UNCHANGED lock
       \/ /\ \A s \in Socks : ~Free(s)
          /\ Leave(n) /\ Goto(n, "idle")
          /\ UNCHANGED <<modem, out, faults>>
    /\ UNCHANGED <<fd, sockVars, torn, recent, power, mishaps>>

CreateClosed(n) ==
    /\ pc[n] = "cclose"
    /\ CloseReturns
    /\ Released({arg[n]})
    /\ Goto(n, "open")
    /\ UNCHANGED <<fd, arg, lock, srv, evtVars, recent, modVars>>

\* AT+QIDNSIP fails, or AT+QIOPEN is sent.  An open socket is not opened again.
Open(n) ==
    /\ pc[n] = "open"
    /\ \/ Leave(n) /\ Goto(n, "idle") /\ UNCHANGED <<modem, out, faults>>
       \/ /\ ans' = {}
          /\ Goto(n, "opened") /\ UNCHANGED <<lock, arg>>
          /\ \/ /\ modem[arg[n]].st = "idle"
                /\ modem' = [modem EXCEPT ![arg[n]] = [who |-> n, st |-> "opening"]]
                /\ Answered([kind |-> "ok"]) \/ Unanswered
             \/ UNCHANGED modem /\ (Answered([kind |-> "error"]) \/ Unanswered)
    /\ UNCHANGED <<fd, sockVars, torn, recent, power, mishaps>>

\* Variant of Opened: the error return keeps the mutex.
OpenedKeepsMutex(n) ==
    /\ pc[n] = "opened"
    /\ IF "ok" \in ans
         THEN /\ eConn' = [eConn EXCEPT ![arg[n]] = "EXE"]
              /\ Goto(n, "conn") /\ UNCHANGED <<ans, arg, faults, mishaps>>
         ELSE /\ IF "error" \in ans THEN UNCHANGED <<faults, mishaps>> ELSE GivesUp
              /\ ans' = {} /\ arg' = [arg EXCEPT ![n] = NoSock]
              /\ Goto(n, "idle") /\ UNCHANGED eConn
    /\ UNCHANGED <<fd, lock, used, srv, torn, recent, modVars>>

\* The task sees the result of AT+QIOPEN, maybe after CONNECT OK was parsed.
Opened(n) ==
    /\ pc[n] = "opened"
    /\ IF "ok" \in ans
         THEN /\ eConn' = [eConn EXCEPT ![arg[n]] = "EXE"]
              /\ Goto(n, "conn") /\ UNCHANGED <<lock, ans, arg, faults, mishaps>>
         ELSE /\ IF "error" \in ans THEN UNCHANGED <<faults, mishaps>> ELSE GivesUp
              /\ Leave(n) /\ Goto(n, "idle") /\ UNCHANGED eConn
    /\ UNCHANGED <<fd, used, srv, torn, recent, modVars>>

\* prvWaitConnect: the socket becomes the link's.  If its buffer cannot be
\* allocated the socket is returned all the same, but it stays free.
Connected(n) ==
    /\ pc[n] = "conn" /\ eConn[arg[n]] = "OK"
    /\ \/ /\ used' = [used EXCEPT ![arg[n]] = TRUE]
          /\ UNCHANGED <<eConn, faults, mishaps>>
       \/ /\ eConn' = [eConn EXCEPT ![arg[n]] = "WAIT"]
          /\ UNCHANGED used /\ Fault /\ Mishap("nomem")
    /\ fd' = [fd EXCEPT ![n] = arg[n]]
    /\ Leave(n) /\ Goto(n, "loop")
    /\ UNCHANGED <<srv, torn, recent, modVars>>

\* Ten seconds are over; the modem may still be connecting.
ConnectTimeout(n) ==
    /\ pc[n] = "conn" /\ eConn[arg[n]] # "OK"
    /\ Leave(n) /\ Goto(n, "idle")
    /\ UNCHANGED <<fd, sockVars, torn, recent, modVars, cntVars>>

-------------------------------------------------------------------------------
(* The task of a connected link: its loop, and the power cycle at __END.    *)

\* bGPRS_SocketState: one query of the modem every 5 seconds for all links.
Query(n) ==
    /\ pc[n] = "loop" /\ ~recent
    /\ recent' = TRUE
    /\ Enter(n) /\ Goto(n, "query")
    /\ UNCHANGED <<fd, arg, sockVars, evtVars, modVars, cntVars>>

\* The modem lists the sockets that are connected.
SendQuery(n) ==
    /\ pc[n] = "query" /\ Owns(n)
    /\ ans' = {}
    /\ \/ Answered([kind |-> "stat", open |-> {s \in Socks : modem[s].st = "open"}])
       \/ Unanswered
    /\ Goto(n, "stat")
    /\ UNCHANGED <<fd, arg, lock, sockVars, torn, recent, power, modem, mishaps>>

\* With an answer the table is looked at, without one not until next time.
QueryDone(n) ==
    /\ pc[n] = "stat"
    /\ IF "stat" \in ans THEN Goto(n, "check") /\ UNCHANGED <<faults, mishaps>>
               ELSE Goto(n, "loop") /\ GivesUp
    /\ Leave(n)
    /\ UNCHANGED <<fd, sockVars, torn, recent, modVars>>

\* Variant of IsGone: a connection that was just made is no exception.
IsGoneOrNew(s) == srv[s] # "up"

\* Neither listed nor new.
IsGone(s) == srv[s] = "zero"

\* The table is read without the mutex, while the parser may be filling it.
\* After net_disconnect the task reads the entry -1, which is any memory.
Check(n) ==
    /\ pc[n] = "check" \/ (pc[n] = "loop" /\ recent)
    /\ \E gone \in BOOLEAN :
          /\ fd[n] # NoSock => gone = IsGone(fd[n])
          /\ IF gone
               THEN /\ arg' = [arg EXCEPT ![n] = fd[n]]
                    /\ Enter(n) /\ Goto(n, "close")
                    /\ IF torn THEN Mishap("torn") ELSE UNCHANGED mishaps
               ELSE Goto(n, "loop") /\ UNCHANGED <<arg, lock, mishaps>>
    /\ UNCHANGED <<fd, sockVars, evtVars, recent, modVars, faults>>

\* The 5 seconds are over.
Elapse ==
    /\ recent /\ \A n \in Links : pc[n] \notin {"query", "stat"}
    /\ recent' = FALSE
    /\ UNCHANGED <<fd, pc, arg, lock, sockVars, evtVars, modVars, cntVars>>

\* No data for 360 s, six failed connects, or five minutes without network.
GiveUp(n) ==
    /\ pc[n] \in {"loop", "idle"}
    /\ Fault
    /\ Enter(n) /\ Goto(n, "down")
    /\ UNCHANGED <<fd, arg, sockVars, evtVars, recent, modVars, mishaps>>

\* vGPRS_PowerDown.
PowerDown(n) ==
    /\ pc[n] = "down" /\ Owns(n)
    /\ power' = FALSE /\ modem' = [s \in Socks |-> Idle]
    /\ out' = IF torn THEN <<Head(out)>> ELSE <<>>
    /\ Mishap("cycle")
    /\ Leave(n) /\ Goto(n, "off")
    /\ UNCHANGED <<fd, sockVars, torn, recent, faults>>

\* vGPRS_PowerUp and vGPRS_TermUp.
PowerUp(n) ==
    /\ pc[n] = "off"
    /\ power' = TRUE
    /\ Enter(n) /\ Goto(n, "init")
    /\ UNCHANGED <<fd, arg, sockVars, evtVars, recent, modem, out, cntVars>>

\* bGPRS_NetInit ends in prvReleaseAllSocket, whosever they are.
NetInit(n) ==
    /\ pc[n] = "init" /\ Owns(n)
    /\ Released(Socks)
    /\ Leave(n) /\ Goto(n, "start")
    /\ UNCHANGED <<fd, srv, torn, recent, modVars, cntVars>>

-------------------------------------------------------------------------------
(* Calls of the task and of the other threads with a socket number they     *)
(* read before they waited for the mutex.                                   *)

\* net_disconnect of a worker.
Drop(w) ==
    /\ w \in Workers /\ pc[w] = "work"
    /\ fd[LinkOf[w]] # NoSock
    /\ Fault /\ Mishap("drop")
    /\ arg' = [arg EXCEPT ![w] = fd[LinkOf[w]]]
    /\ Enter(w) /\ Goto(w, "close")
    /\ UNCHANGED <<fd, sockVars, evtVars, recent, modVars>>

\* bGPRS_SocketClose, for the task or a worker.
Close(t) ==
    /\ pc[t] = "close" /\ Owns(t)
    /\ SendClose(arg[t])
    /\ Goto(t, "closewait")
    /\ UNCHANGED <<fd, arg, lock, sockVars, torn, recent, power, mishaps>>

\* Variant of Closed: the socket is not released.
ClosedNotReleased(t) ==
    /\ pc[t] = "closewait"
    /\ CloseReturns
    /\ fd' = [fd EXCEPT ![LinkOf[t]] = NoSock]
    /\ Leave(t) /\ Goto(t, IF t \in Links THEN "idle" ELSE "work")
    /\ UNCHANGED <<sockVars, torn, recent, modVars>>

\* Variant of Closed: the caller does not forget the number.
ClosedKeepsFd(t) ==
    /\ pc[t] = "closewait"
    /\ CloseReturns
    /\ Released({arg[t]})
    /\ Leave(t) /\ Goto(t, IF t \in Links THEN "idle" ELSE "work")
    /\ UNCHANGED <<fd, srv, torn, recent, modVars>>

Closed(t) ==
    /\ pc[t] = "closewait"
    /\ CloseReturns
    /\ Released({arg[t]})
    /\ fd' = [fd EXCEPT ![LinkOf[t]] = NoSock]
    /\ Leave(t) /\ Goto(t, IF t \in Links THEN "idle" ELSE "work")
    /\ UNCHANGED <<srv, torn, recent, modVars>>

\* net_send.
Send(u) ==
    /\ u \in Senders /\ pc[u] = "work"
    /\ fd[LinkOf[u]] # NoSock
    /\ arg' = [arg EXCEPT ![u] = fd[LinkOf[u]]]
    /\ Enter(u) /\ Goto(u, "send")
    /\ UNCHANGED <<fd, sockVars, evtVars, recent, modVars, cntVars>>

\* nGPRS_SocketSend: zero is returned unless the socket's state is OK.
SendCheck(u) ==
    /\ pc[u] = "send" /\ Owns(u)
    /\ IF eConn[arg[u]] = "OK"
         THEN ans' = {} /\ Goto(u, "sending") /\ UNCHANGED <<lock, arg>>
         ELSE Goto(u, "work") /\ Leave(u)
    /\ UNCHANGED <<fd, sockVars, torn, recent, modVars, cntVars>>

\* AT+QISEND and its data, with success or not.
SendDone(u) ==
    /\ pc[u] = "sending"
    /\ Leave(u) /\ Goto(u, "work")
    /\ UNCHANGED <<fd, sockVars, torn, recent, modVars, cntVars>>

-------------------------------------------------------------------------------
(* The modem and its peers.                                                 *)

ConnectDone(s) ==
    /\ modem[s].st = "opening"
    /\ Len(out) < MaxOut
    /\ modem' = [modem EXCEPT ![s].st = "open"]
    /\ out' = Append(out, [kind |-> "connect", sock |-> s])
    /\ UNCHANGED <<fd, pc, arg, lock, sockVars, evtVars, recent, power, cntVars>>

\* The peer refuses or ends the connection; the report says nothing to us.
PeerCloses(s) ==
    /\ modem[s].st # "idle"
    /\ modem' = [modem EXCEPT ![s] = Idle]
    /\ UNCHANGED <<fd, pc, arg, lock, sockVars, evtVars, recent, power, out, cntVars>>

DataIn(s) ==
    /\ modem[s].st = "open"
    /\ Len(out) < MaxOut
    /\ out' = Append(out, [kind |-> "data", sock |-> s, from |-> modem[s].who])
    /\ UNCHANGED <<fd, pc, arg, lock, sockVars, evtVars, recent, power, modem, cntVars>>

-------------------------------------------------------------------------------
(* The parser thread.                                                       *)

Report == Head(out)

ParseCode ==
    /\ out # <<>> /\ Report.kind \in {"ok", "error"}
    /\ ans' = ans \cup {Report.kind}
    /\ out' = Tail(out)
    /\ UNCHANGED <<fd, pc, arg, lock, sockVars, torn, recent, power, modem, cntVars>>

ParseConnect ==
    /\ out # <<>> /\ Report.kind = "connect"
    /\ eConn' = [eConn EXCEPT ![Report.sock] = "OK"]
    /\ srv' = [srv EXCEPT ![Report.sock] = "wait"]
    /\ out' = Tail(out)
    /\ UNCHANGED <<fd, pc, arg, lock, used, evtVars, recent, power, modem, cntVars>>

ParseClose ==
    /\ out # <<>> /\ Report.kind = "close"
    /\ eConn' = [eConn EXCEPT ![Report.sock] = "WAIT"]
    /\ srv' = [srv EXCEPT ![Report.sock] = "wait"]
    /\ ans' = ans \cup {"close"}
    /\ out' = Tail(out)
    /\ UNCHANGED <<fd, pc, arg, lock, used, torn, recent, power, modem, cntVars>>

\* Variant of StatClear: the memset is left out.
StatNoClear ==
    /\ out # <<>> /\ Report.kind = "stat" /\ ~torn
    /\ torn' = TRUE
    /\ UNCHANGED <<fd, pc, arg, lock, sockVars, ans, recent, modVars, cntVars>>

\* prvParseSISO clears the whole table ...
StatClear ==
    /\ out # <<>> /\ Report.kind = "stat" /\ ~torn
    /\ srv' = [s \in Socks |-> "zero"]
    /\ torn' = TRUE
    /\ UNCHANGED <<fd, pc, arg, lock, used, eConn, ans, recent, modVars, cntVars>>

\* ... and fills in the sockets that are listed.
StatFill ==
    /\ torn
    /\ srv' = [s \in Socks |-> IF s \in Report.open THEN "up" ELSE srv[s]]
    /\ torn' = FALSE /\ ans' = ans \cup {"stat"}
    /\ out' = Tail(out)
    /\ UNCHANGED <<fd, pc, arg, lock, used, eConn, recent, power, modem, cntVars>>

\* onGPRSTcpRecv, if the socket has a callback: the first link with the number.
Takers(s) == IF used[s] THEN {n \in Links : fd[n] = s} ELSE {}

ParseData ==
    /\ out # <<>> /\ Report.kind = "data"
    /\ out' = Tail(out)
    /\ UNCHANGED <<fd, pc, arg, lock, sockVars, evtVars, recent, power, modem, cntVars>>

Parse == ParseCode \/ ParseConnect \/ ParseClose \/ StatClear \/ StatFill \/ ParseData

-------------------------------------------------------------------------------
TaskStep(n) ==
    \/ Start(n) \/ Register(n) \/ Create(n) \/ CreateClosed(n) \/ Open(n) \/ Opened(n)
    \/ Connected(n) \/ ConnectTimeout(n)
    \/ Query(n) \/ SendQuery(n) \/ QueryDone(n) \/ Check(n)
    \/ GiveUp(n) \/ PowerDown(n) \/ PowerUp(n) \/ NetInit(n)

CallStep(t) == Drop(t) \/ Close(t) \/ Closed(t) \/ Send(t) \/ SendCheck(t) \/ SendDone(t)

ModemStep == \E s \in Socks : ConnectDone(s) \/ PeerCloses(s) \/ DataIn(s)

Next == \/ \E n \in Links : TaskStep(n)
        \/ \E t \in Threads : CallStep(t)
        \/ ModemStep \/ Parse \/ Elapse

Spec == Init /\ [][Next]_vars

\* Every wait has a time limit, ready threads run and what the modem has sent
\* is parsed.  Nobody has to send or to drop a link, the modem need not connect.
Fairness ==
    /\ \A n \in Links :
          /\ WF_vars(Start(n)) /\ WF_vars(Create(n)) /\ WF_vars(CreateClosed(n))
          /\ WF_vars(Open(n)) /\ WF_vars(Opened(n))
          /\ WF_vars(Connected(n) \/ ConnectTimeout(n))
          /\ WF_vars(Query(n) \/ Check(n)) /\ WF_vars(SendQuery(n)) /\ WF_vars(QueryDone(n))
          /\ WF_vars(PowerDown(n)) /\ WF_vars(PowerUp(n)) /\ WF_vars(NetInit(n))
    /\ \A t \in Threads :
          /\ WF_vars(Close(t)) /\ WF_vars(Closed(t))
          /\ WF_vars(SendCheck(t)) /\ WF_vars(SendDone(t))
    /\ WF_vars(Parse) /\ WF_vars(Elapse)

FairSpec == Spec /\ Fairness

-------------------------------------------------------------------------------
(* Properties.  Each names the mishaps it does not survive: a command whose *)
(* answer came too late ("late"), the table read while it was being filled  *)
(* ("torn"), no memory for the buffer of a socket ("nomem"), another link's *)
(* power cycle ("cycle"), a link dropped by its worker ("drop").            *)

Without(bad) == mishaps \cap bad = {}

\* The socket a link holds is allocated to it and to no other link, and the
\* modem has not opened it for another (prvGetFreeSocket, prvReleaseSocket and
\* the assignments to tcp_fd, all in different threads).
SocketIsOwn ==
    Without({"late", "nomem", "cycle", "drop"}) =>
        \A n \in Links : fd[n] # NoSock =>
            /\ used[fd[n]]
            /\ modem[fd[n]].who \in {n, NoLink}
            /\ \A m \in Links \ {n} : fd[m] # fd[n]

\* The modem's sockets are not used up: one that is allocated is some link's,
\* whatever has gone wrong (the order of the FIFO mutex sees to it that a late
\* net_disconnect does not make a link forget the socket it has just opened).
NoSocketLost ==
    \A s \in Socks : used[s] => \E n \in Links : fd[n] = s

\* A link does not close a connection that works, whatever the polls of the
\* other links do to the table in the meantime (bGPRS_SocketState for a link
\* whose own query is the one that was left out, and for a connection that is
\* younger than the answer).
NoLiveClose ==
    Without({"late", "torn", "nomem", "cycle", "drop"}) =>
        \A n \in Links : pc[n] = "close" => modem[arg[n]].st = "idle"

\* Data is never handed to a link it was not sent to.
DataToOwner ==
    Without({"late", "nomem", "cycle", "drop"}) =>
        (out # <<>> /\ Report.kind = "data" => Takers(Report.sock) \subseteq {Report.from})

\* nGPRS_SocketSend with a number that was read before the mutex was taken: "if
\* close return 0".  It does not send on a socket that another link holds now.
ClosedReturnsZero ==
    Without({"late", "torn", "nomem", "cycle", "drop"}) =>
        \A u \in Senders : pc[u] = "sending" =>
            \A n \in Links : fd[n] = arg[u] => n = LinkOf[u]

\* A link whose connection is gone notices it and gives the socket up.
LossNoticed ==
    \A n \in Links : \A s \in Socks :
        fd[n] = s /\ modem[s].who # n ~> fd[n] # s \/ ~Without({"late", "nomem", "cycle", "drop"})

\* Whoever waits for the modem gets it: every path through a command, with an
\* error or a timeout too, gives the mutex back.
ModemShared ==
    \A t \in Threads :
        pc[t] \in {"create", "query", "close", "down", "init", "send"} ~> Owns(t)
===============================================================================
