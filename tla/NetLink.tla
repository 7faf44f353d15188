-------------------------------- MODULE NetLink --------------------------------
(***************************************************************************)
(* The Ethernet links of the gateway (board/net_helper.c).  Each link has  *)
(* a task (_net_task) that opens a socket in one of four roles, serves it  *)
(* and closes it again, for ever.  The threads that use the link write on  *)
(* its socket through net_send; the protocol worker of a TCP client link   *)
(* also waits for the connection and asks for it to be dropped.  The task  *)
(* and its users share the descriptors sock_fd and tcp_fd, the flag        *)
(* "disconnect" and one mutex per link; the descriptors themselves are     *)
(* handed out by lwIP to all links from one table.                         *)
(*                                                                         *)
(* Bounds: reqs[l], the requests to drop link l, stops at MaxReq.          *)
(* Net_close and "shutdown" are absent: after boot nothing reaches them.   *)
(***************************************************************************)
EXTENDS Naturals, Sequences

CONSTANTS
    Links,      \* the enabled Ethernet links, indexes of s_net_list
    Users,      \* the threads that call net_send
    Fds,        \* the descriptors lwIP can hand out (MEMP_NUM_NETCONN of them)
    NoFd,       \* the value -1 of a descriptor variable
    NoLink,     \* a descriptor that is free belongs to it
    Role,       \* Role[l]: "tcp_server", "tcp_client", "udp_server" or "udp_client"
    WorkerOf,   \* WorkerOf[u]: the link whose protocol worker u is, or NoLink
    SendsOn,    \* SendsOn[u]: the links user u writes to
    MaxReq      \* bound on the disconnect requests of each link

Roles == {"tcp_server", "tcp_client", "udp_server", "udp_client"}

ASSUME NetAssumption ==
    /\ Fds \subseteq Nat /\ NoFd \notin Fds
    /\ NoLink \notin Links
    /\ Links \cap Users = {}
    /\ Role \in [Links -> Roles]
    /\ WorkerOf \in [Users -> Links \cup {NoLink}]
    /\ SendsOn \in [Users -> SUBSET Links]
    /\ MaxReq \in Nat
    \* only TCP clients carry the protocols that have a worker (lines 454-462)
    /\ \A u \in Users : WorkerOf[u] \in Links => Role[WorkerOf[u]] = "tcp_client"
    /\ \A u \in Users : WorkerOf[u] \in Links => SendsOn[u] = {WorkerOf[u]}

VARIABLES
    task,       \* task[l]: where the task of link l is
    sock_fd,    \* net->sock_fd
    tcp_fd,     \* net->tcp_fd
    disconnect, \* net->disconnect
    mutex,      \* net->mutex: its owner, then the waiters in FIFO order
    user,       \* user[u]: where thread u is
    at,         \* at[u]: the link of u's current net_send
    wfd,        \* wfd[u]: the descriptor u's lwip_write was called with
    kern,       \* kern[f]: the link descriptor f was opened for, or NoLink
    rx,         \* rx[l]: what lwip_read on the connection would find
    backlog,    \* backlog[l]: a connection request waits on the listening socket
    stall,      \* stall[l]: the peer has stopped taking what is written to it
    reqs,       \* reqs[l]: how often net_disconnect was called (history)
    kills       \* kills[l]: how often a connection was dropped for it (history)

netVars == <<sock_fd, tcp_fd, disconnect>>
envVars == <<rx, backlog, stall>>
useVars == <<user, at, wfd>>
hisVars == <<reqs, kills>>
vars == <<task, netVars, mutex, useVars, kern, envVars, hisVars>>

TaskStates == {"start", "socket", "setup", "select", "read",
               "end", "close", "clear", "delay"}
UserStates == {"off", "waitconn", "idle", "wait", "write", "discwait"}

TypeOK ==
    /\ task \in [Links -> TaskStates]
    /\ sock_fd \in [Links -> Fds \cup {NoFd}]
    /\ tcp_fd \in [Links -> Fds \cup {NoFd}]
    /\ disconnect \in [Links -> BOOLEAN]
    /\ mutex \in [Links -> Seq(Links \cup Users)]
    /\ user \in [Users -> UserStates]
    /\ at \in [Users -> Links \cup {NoLink}]
    /\ wfd \in [Users -> Fds \cup {NoFd}]
    /\ kern \in [Fds -> Links \cup {NoLink}]
    /\ rx \in [Links -> {"quiet", "data", "eof"}]
    /\ backlog \in [Links -> BOOLEAN]
    /\ stall \in [Links -> BOOLEAN]
    /\ reqs \in [Links -> 0 .. MaxReq]
    /\ kills \in [Links -> 0 .. MaxReq]

\* Every link has been through net_open, its task is about to run.
Init ==
    /\ task = [l \in Links |-> "start"]
    /\ sock_fd = [l \in Links |-> NoFd]
    /\ tcp_fd = [l \in Links |-> NoFd]
    /\ disconnect = [l \in Links |-> FALSE]
    /\ mutex = [l \in Links |-> <<>>]
    /\ user = [u \in Users |-> IF WorkerOf[u] \in Links THEN "off" ELSE "idle"]
    /\ at = [u \in Users |-> NoLink]
    /\ wfd = [u \in Users |-> NoFd]
    /\ kern = [f \in Fds |-> NoLink]
    /\ rx = [l \in Links |-> "quiet"]
    /\ backlog = [l \in Links |-> FALSE]
    /\ stall = [l \in Links |-> FALSE]
    /\ reqs = [l \in Links |-> 0]
    /\ kills = [l \in Links |-> 0]

-------------------------------------------------------------------------------
(* The mutex: rt_mutex_take with RT_WAITING_FOREVER on a FIFO mutex.        *)

Owns(x, l) == mutex[l] # <<>> /\ Head(mutex[l]) = x
Take(x, l) == mutex' = [mutex EXCEPT ![l] = Append(@, x)]
Release(l) == mutex' = [mutex EXCEPT ![l] = Tail(@)]

Goto(l, place) == task' = [task EXCEPT ![l] = place]

\* lwIP gives the first free socket to link l, or takes sockets back.
IsFree(f)   == kern[f] = NoLink /\ \A g \in Fds : kern[g] = NoLink => f <= g
Alloc(f, l) == kern' = [kern EXCEPT ![f] = l]
FreeFd(F)   == kern' = [f \in Fds |-> IF f \in F THEN NoLink ELSE kern[f]]

\* The roles whose socket accepts connections; the others serve the socket
\* they opened.
IsServer(l) == Role[l] = "tcp_server"
\* Only the socket of an accepted connection blocks in lwip_write: a client's
\* and a UDP socket is set O_NONBLOCK (lines 444, 643, 795).
WriteBlocks(l) == IsServer(l) /\ stall[l] /\ rx[l] # "eof"

-------------------------------------------------------------------------------
(* The task of a link.                                                      *)

\* Variant of Start: a request of the previous round is not forgotten.
StartKeepsRequest(l) ==
    /\ task[l] = "start"
    /\ sock_fd' = [sock_fd EXCEPT ![l] = NoFd]
    /\ tcp_fd' = [tcp_fd EXCEPT ![l] = NoFd]
    /\ Goto(l, "socket")
    /\ UNCHANGED <<disconnect, mutex, useVars, kern, envVars, hisVars>>

\* The head of the task's loop and of the function of its role.
Start(l) ==
    /\ task[l] = "start"
    /\ disconnect' = [disconnect EXCEPT ![l] = FALSE]
    /\ sock_fd' = [sock_fd EXCEPT ![l] = NoFd]
    /\ tcp_fd' = [tcp_fd EXCEPT ![l] = NoFd]
    /\ Goto(l, "socket")
    /\ UNCHANGED <<mutex, useVars, kern, envVars, hisVars>>

\* A client resolves its peer first; then lwip_socket.  Either may fail.
Socket(l) ==
    /\ task[l] = "socket"
    /\ \/ /\ Goto(l, "end")
          /\ UNCHANGED <<sock_fd, kern>>
       \/ \E f \in Fds :
             /\ IsFree(f)
             /\ Alloc(f, l)
             /\ sock_fd' = [sock_fd EXCEPT ![l] = f]
             /\ Goto(l, "setup")
    /\ UNCHANGED <<tcp_fd, disconnect, mutex, useVars, envVars, hisVars>>

\* One of setsockopt, bind, listen, connect, fcntl fails.
SetupFail(l) ==
    /\ task[l] = "setup"
    /\ Goto(l, "end")
    /\ UNCHANGED <<netVars, mutex, useVars, kern, envVars, hisVars>>

\* A TCP server listens.
Listen(l) ==
    /\ task[l] = "setup"
    /\ IsServer(l)
    /\ Goto(l, "select")
    /\ UNCHANGED <<netVars, mutex, useVars, kern, envVars, hisVars>>

\* Variant of Connect: sock_fd keeps the descriptor that tcp_fd now holds.
ConnectKeepsBoth(l) ==
    /\ task[l] = "setup"
    /\ ~IsServer(l)
    /\ tcp_fd' = [tcp_fd EXCEPT ![l] = sock_fd[l]]
    /\ Goto(l, "select")
    /\ UNCHANGED <<sock_fd, disconnect, mutex, useVars, kern, envVars, hisVars>>

\* A client is connected, or a UDP socket bound: the socket becomes tcp_fd.
\* The worker of the link's protocol is created unless it exists.
Connect(l) ==
    /\ task[l] = "setup"
    /\ ~IsServer(l)
    /\ tcp_fd' = [tcp_fd EXCEPT ![l] = sock_fd[l]]
    /\ sock_fd' = [sock_fd EXCEPT ![l] = NoFd]
    /\ user' = [u \in Users |->
                  IF WorkerOf[u] = l /\ user[u] = "off" THEN "waitconn" ELSE user[u]]
    /\ rx' = [rx EXCEPT ![l] = "quiet"]
    /\ stall' = [stall EXCEPT ![l] = FALSE]
    /\ Goto(l, "select")
    /\ UNCHANGED <<disconnect, mutex, at, wfd, kern, backlog, hisVars>>

\* lwip_select: nobody sends for 4 seconds, and only then the flag is read.
Quiet(l) == rx[l] = "quiet" /\ ~backlog[l]

\* Variant of SelectTimeout: only "shutdown" is looked at.
SelectTimeoutIgnores(l) == FALSE /\ UNCHANGED <<vars, l>>

SelectTimeout(l) ==
    /\ task[l] = "select"
    /\ Quiet(l)
    /\ disconnect[l]
    /\ kills' = [kills EXCEPT ![l] = IF tcp_fd[l] = NoFd THEN @ ELSE @ + 1]
    /\ Goto(l, "end")
    /\ UNCHANGED <<netVars, mutex, useVars, kern, envVars, reqs>>

SelectError(l) ==
    /\ task[l] = "select"
    /\ Goto(l, "end")
    /\ UNCHANGED <<netVars, mutex, useVars, kern, envVars, hisVars>>

\* The connection is readable: the task takes the mutex to read.
Readable(l) == tcp_fd[l] # NoFd /\ rx[l] # "quiet"

SelectRead(l) ==
    /\ task[l] = "select"
    /\ ~backlog[l]
    /\ Readable(l)
    /\ Take(l, l)
    /\ Goto(l, "read")
    /\ UNCHANGED <<netVars, useVars, kern, envVars, hisVars>>

\* A request is accepted (or lwip_accept fails).  A second connection is
\* closed at once: "just keep one conn".  Then the first one is read.
Accept(l) ==
    /\ task[l] = "select"
    /\ backlog[l]
    /\ backlog' = [backlog EXCEPT ![l] = FALSE]
    /\ \/ UNCHANGED <<tcp_fd, kern, rx, stall>>
       \/ \E f \in Fds :
             /\ IsFree(f)
             /\ tcp_fd[l] = NoFd
             /\ Alloc(f, l)
             /\ tcp_fd' = [tcp_fd EXCEPT ![l] = f]
             /\ rx' = [rx EXCEPT ![l] = "quiet"]
             /\ stall' = [stall EXCEPT ![l] = FALSE]
    /\ IF Readable(l)
         THEN Take(l, l) /\ Goto(l, "read")
         ELSE UNCHANGED <<mutex, task>>
    /\ UNCHANGED <<sock_fd, disconnect, useVars, hisVars>>

\* Variant of Read: the jump to __END after an error skips the release.
ReadKeepsMutex(l) ==
    /\ task[l] = "read"
    /\ Owns(l, l)
    /\ IF rx[l] = "eof"
         THEN Goto(l, "end") /\ UNCHANGED <<mutex, rx>>
         ELSE Release(l) /\ Goto(l, "select") /\ rx' = [rx EXCEPT ![l] = "quiet"]
    /\ UNCHANGED <<netVars, useVars, kern, backlog, stall, hisVars>>

\* lwip_read under the mutex: a frame is delivered and the task goes back to
\* select; an end of file or an error ends the connection.
Read(l) ==
    /\ task[l] = "read"
    /\ Owns(l, l)
    /\ Release(l)
    /\ IF rx[l] = "eof"
         THEN Goto(l, "end") /\ UNCHANGED rx
         ELSE Goto(l, "select") /\ rx' = [rx EXCEPT ![l] = "quiet"]
    /\ UNCHANGED <<netVars, useVars, kern, backlog, stall, hisVars>>

\* __END: the task takes the mutex, ...
End(l) ==
    /\ task[l] = "end"
    /\ Take(l, l)
    /\ Goto(l, "close")
    /\ UNCHANGED <<netVars, useVars, kern, envVars, hisVars>>

\* Variant of CloseConn: the connection is closed before the mutex is there.
CloseConnUnlocked(l) ==
    /\ task[l] = "close"
    /\ FreeFd({tcp_fd[l]})
    /\ rx' = [rx EXCEPT ![l] = "quiet"]
    /\ stall' = [stall EXCEPT ![l] = FALSE]
    /\ Goto(l, "clear")
    /\ UNCHANGED <<netVars, mutex, useVars, backlog, hisVars>>

\* ... closes the connection, whose number is free again for any link, ...
CloseConn(l) ==
    /\ task[l] = "close"
    /\ Owns(l, l)
    /\ FreeFd({tcp_fd[l]})
    /\ rx' = [rx EXCEPT ![l] = "quiet"]
    /\ stall' = [stall EXCEPT ![l] = FALSE]
    /\ Goto(l, "clear")
    /\ UNCHANGED <<netVars, mutex, useVars, backlog, hisVars>>

\* Variant of CloseSock: the listening socket is forgotten, not closed.
CloseSockLeaks(l) ==
    /\ task[l] = "clear"
    /\ tcp_fd' = [tcp_fd EXCEPT ![l] = NoFd]
    /\ sock_fd' = [sock_fd EXCEPT ![l] = NoFd]
    /\ backlog' = [backlog EXCEPT ![l] = FALSE]
    /\ Release(l)
    /\ Goto(l, "delay")
    /\ UNCHANGED <<disconnect, useVars, kern, rx, stall, hisVars>>

\* ... forgets it, closes the other socket and releases the mutex.
CloseSock(l) ==
    /\ task[l] = "clear"
    /\ tcp_fd' = [tcp_fd EXCEPT ![l] = NoFd]
    /\ FreeFd({sock_fd[l]})
    /\ sock_fd' = [sock_fd EXCEPT ![l] = NoFd]
    /\ backlog' = [backlog EXCEPT ![l] = FALSE]
    /\ Release(l)
    /\ Goto(l, "delay")
    /\ UNCHANGED <<disconnect, useVars, rx, stall, hisVars>>

\* rt_thread_delay, then the next round.
Delay(l) ==
    /\ task[l] = "delay"
    /\ Goto(l, "start")
    /\ UNCHANGED <<netVars, mutex, useVars, kern, envVars, hisVars>>

-------------------------------------------------------------------------------
(* The threads that use the links.                                          *)

Be(u, state) == user' = [user EXCEPT ![u] = state]

\* A worker uses its own link, the others (poll, transfer, virtual serial port)
\* the links they are configured for.
Uses(u, l) == l \in SendsOn[u]

\* net_send, while nobody has looked at the mutex yet: is the link connected?
SendCheck(u, l) ==
    /\ user[u] = "idle"
    /\ Uses(u, l)
    /\ tcp_fd[l] # NoFd
    /\ Take(u, l)
    /\ at' = [at EXCEPT ![u] = l]
    /\ Be(u, "wait")
    /\ UNCHANGED <<task, netVars, wfd, kern, envVars, hisVars>>

\* Variant of SendWrite: the write does not wait for the mutex.
SendWriteUnlocked(u) ==
    /\ user[u] = "wait"
    /\ wfd' = [wfd EXCEPT ![u] = tcp_fd[at[u]]]
    /\ Be(u, "write")
    /\ UNCHANGED <<task, netVars, mutex, at, kern, envVars, hisVars>>

\* lwip_write is called with what tcp_fd is now, possibly -1.
SendWrite(u) ==
    /\ user[u] = "wait"
    /\ Owns(u, at[u])
    /\ wfd' = [wfd EXCEPT ![u] = tcp_fd[at[u]]]
    /\ Be(u, "write")
    /\ UNCHANGED <<task, netVars, mutex, at, kern, envVars, hisVars>>

\* lwip_write returns, the mutex is released.
SendDone(u) ==
    /\ user[u] = "write"
    /\ wfd[u] = NoFd \/ ~WriteBlocks(at[u])
    /\ Release(at[u])
    /\ wfd' = [wfd EXCEPT ![u] = NoFd]
    /\ at' = [at EXCEPT ![u] = NoLink]
    /\ Be(u, "idle")
    /\ UNCHANGED <<task, netVars, kern, envVars, hisVars>>

\* net_waitconnect returns.
WaitConnect(u) ==
    /\ user[u] = "waitconn"
    /\ tcp_fd[WorkerOf[u]] # NoFd
    /\ Be(u, "idle")
    /\ UNCHANGED <<task, netVars, mutex, at, wfd, kern, envVars, hisVars>>

\* net_disconnect of a worker whose login failed or timed out.
Disconnect(u) ==
    LET l == WorkerOf[u] IN
    /\ user[u] = "idle"
    /\ l \in Links
    /\ reqs[l] < MaxReq
    /\ disconnect' = [disconnect EXCEPT ![l] = TRUE]
    /\ reqs' = [reqs EXCEPT ![l] = @ + 1]
    /\ Be(u, "discwait")
    /\ UNCHANGED <<task, sock_fd, tcp_fd, mutex, at, wfd, kern, envVars, kills>>

\* It returns when it sees the link down, or after 50 looks whatever it sees;
\* the worker starts again with net_waitconnect.
DisconnectReturn(u) ==
    /\ user[u] = "discwait"
    /\ Be(u, "waitconn")
    /\ UNCHANGED <<task, netVars, mutex, at, wfd, kern, envVars, hisVars>>

-------------------------------------------------------------------------------
(* The peers of the links, through lwIP.                                    *)

\* A frame arrives, or the connection is closed or reset by the peer.
Arrive(l, what) ==
    /\ tcp_fd[l] # NoFd
    /\ task[l] # "clear"
    /\ rx[l] = "quiet" \/ (rx[l] = "data" /\ what = "eof")
    /\ rx' = [rx EXCEPT ![l] = what]
    /\ UNCHANGED <<task, netVars, mutex, useVars, kern, backlog, stall, hisVars>>

\* Someone connects to a listening socket.
Knock(l) ==
    /\ IsServer(l)
    /\ task[l] \in {"select", "read"}
    /\ ~backlog[l]
    /\ backlog' = [backlog EXCEPT ![l] = TRUE]
    /\ UNCHANGED <<task, netVars, mutex, useVars, kern, rx, stall, hisVars>>

\* The peer stops taking data, or takes it again.
Stall(l) ==
    /\ IsServer(l)
    /\ tcp_fd[l] # NoFd
    /\ task[l] # "clear"
    /\ stall' = [stall EXCEPT ![l] = ~@]
    /\ UNCHANGED <<task, netVars, mutex, useVars, kern, rx, backlog, hisVars>>

-------------------------------------------------------------------------------
TaskStep(l) ==
    \/ Start(l) \/ Socket(l) \/ SetupFail(l) \/ Listen(l) \/ Connect(l)
    \/ SelectTimeout(l) \/ SelectError(l) \/ SelectRead(l) \/ Accept(l)
    \/ Read(l) \/ End(l) \/ CloseConn(l) \/ CloseSock(l) \/ Delay(l)

UserStep(u) ==
    \/ \E l \in Links : SendCheck(u, l)
    \/ SendWrite(u) \/ SendDone(u)
    \/ WaitConnect(u) \/ Disconnect(u) \/ DisconnectReturn(u)

PeerStep(l) ==
    \/ \E what \in {"data", "eof"} : Arrive(l, what)
    \/ Knock(l) \/ Stall(l)

Next == \/ \E l \in Links : TaskStep(l) \/ PeerStep(l)
        \/ \E u \in Users : UserStep(u)

Spec == Init /\ [][Next]_vars

-------------------------------------------------------------------------------
(* Properties.                                                              *)

\* A descriptor variable never names a socket that lwIP has taken back or
\* given to another link, so no close or write of a link reaches another's
\* (the order of lwip_close and the assignments at __END, under the mutex).
LiveFds ==
    \A l \in Links :
        /\ sock_fd[l] # NoFd => kern[sock_fd[l]] = l
        /\ tcp_fd[l] # NoFd /\ task[l] # "clear" => kern[tcp_fd[l]] = l
        /\ sock_fd[l] # NoFd => sock_fd[l] # tcp_fd[l]

\* Every socket opened for a link is reachable through its structure, and a
\* link between two rounds holds none: thousands of reconnections do not use
\* up the descriptors.
NoLeak ==
    \A f \in Fds : \A l \in Links :
        kern[f] = l => /\ f \in {sock_fd[l], tcp_fd[l]}
                       /\ task[l] \notin {"delay", "start", "socket"}

\* The socket a thread is writing on stays open and stays its link's until
\* the write returns, although the task of the link may be closing it.
WriterSafe ==
    \A u \in Users :
        user[u] = "write" /\ wfd[u] # NoFd =>
            /\ kern[wfd[u]] = at[u]
            /\ tcp_fd[at[u]] = wfd[u]

\* A request to drop the connection drops at most one: the flag of an old
\* request does not throw the link out of every later connection.
KillPerRequest == \A l \in Links : kills[l] <= reqs[l]

\* The links as their users see them, see LinkSpec.  Between lwip_close and
\* the assignment that follows it, tcp_fd names a socket the link lost.
Abstract == INSTANCE LinkSpec WITH
    conn  <- [l \in Links |-> IF task[l] = "clear" THEN NoFd ELSE tcp_fd[l]],
    using <- wfd

\* Every step of the tasks and the users is a step the users were promised.
ImplementsLinkSpec == Abstract!Spec

\* The scheduler runs every ready thread (round robin at priority 20), a
\* select without input times out, a delay ends.
Fairness ==
    /\ \A l \in Links :
          /\ WF_vars(Start(l)) /\ WF_vars(Socket(l))
          /\ WF_vars(SetupFail(l) \/ Listen(l) \/ Connect(l))
          /\ WF_vars(SelectTimeout(l) \/ SelectRead(l) \/ Accept(l))
          /\ WF_vars(Read(l)) /\ WF_vars(End(l))
          /\ WF_vars(CloseConn(l)) /\ WF_vars(CloseSock(l)) /\ WF_vars(Delay(l))
    /\ \A u \in Users :
          /\ WF_vars(SendWrite(u)) /\ WF_vars(SendDone(u))
          /\ WF_vars(WaitConnect(u)) /\ WF_vars(DisconnectReturn(u))

FairSpec == Spec /\ Fairness

\* A pending request to drop the link takes effect whatever its users are
\* sending, unless the peer never stops sending or stops reading.
DisconnectHonoured ==
    \A l \in {WorkerOf[u] : u \in Users} \ {NoLink} :
        disconnect[l] /\ tcp_fd[l] # NoFd
          ~> tcp_fd[l] = NoFd \/ rx[l] = "data" \/ stall[l]

\* A thread that waits for the mutex of a link gets it and returns from
\* net_send, also when the link goes down before it does, unless the peer of
\* that link stops reading.
SendReturns ==
    \A u \in Users :
        user[u] \in {"wait", "write"} ~> user[u] = "idle" \/ \E l \in Links : at[u] = l /\ stall[l]
===============================================================================
