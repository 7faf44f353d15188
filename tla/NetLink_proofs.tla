---------------------------- MODULE NetLink_proofs ----------------------------
(***************************************************************************)
(* Proofs about NetLink for every set of links, users and descriptors: the *)
(* safety properties through one inductive invariant, and the refinement   *)
(* of LinkSpec.                                                            *)
(***************************************************************************)
EXTENDS NetLink, SequenceTheorems, TLAPS

\* Who holds which mutex: a thread inside lwip_write and a task that is
\* closing its link own the mutex of that link.
OwnerInv ==
    /\ \A u \in Users :
          /\ user[u] = "wait" => at[u] \in Links
          /\ user[u] = "write" => at[u] \in Links /\ Owns(u, at[u])
          /\ user[u] # "write" => wfd[u] = NoFd
          /\ wfd[u] # NoFd => wfd[u] = tcp_fd[at[u]]
    /\ \A l \in Links : task[l] = "clear" => Owns(l, l)

\* Where a task is, which descriptors it has, and whose they are for lwIP.
FdInv ==
    /\ \A l \in Links :
          /\ task[l] \in {"delay", "start", "socket"} =>
                sock_fd[l] = NoFd /\ tcp_fd[l] = NoFd
          /\ task[l] = "setup" => sock_fd[l] # NoFd /\ tcp_fd[l] = NoFd
          /\ sock_fd[l] # NoFd => kern[sock_fd[l]] = l /\ sock_fd[l] # tcp_fd[l]
          /\ tcp_fd[l] # NoFd => (kern[tcp_fd[l]] = l <=> task[l] # "clear")
    /\ \A f \in Fds : \A l \in Links : kern[f] = l => f \in {sock_fd[l], tcp_fd[l]}

\* A pending request in a round that may still be ended by it is not used up.
KillInv ==
    \A l \in Links :
        /\ kills[l] <= reqs[l]
        /\ disconnect[l] /\ task[l] \in {"socket", "setup", "select", "read"} =>
              kills[l] < reqs[l]

IInv == TypeOK /\ OwnerInv /\ FdInv /\ KillInv

-------------------------------------------------------------------------------
(* The mutex.                                                               *)

\* Joining the queue of a mutex changes no owner.
LEMMA TakeKeepsOwner ==
    ASSUME TypeOK, NEW l \in Links, NEW x \in Links \cup Users, Take(x, l)
    PROVE  /\ mutex' \in [Links -> Seq(Links \cup Users)]
           /\ \A k \in Links : mutex[k] # <<>> =>
                 mutex'[k] # <<>> /\ Head(mutex'[k]) = Head(mutex[k])
<1> DEFINE S == Links \cup Users
<1> HIDE DEF S
<1>1. mutex \in [Links -> Seq(S)] /\ mutex[l] \in Seq(S) /\ x \in S
  BY DEF TypeOK, S
<1>2. mutex' = [mutex EXCEPT ![l] = Append(mutex[l], x)]
  BY DEF Take
<1>3. Append(mutex[l], x) \in Seq(S) /\ Append(mutex[l], x) # <<>>
  BY <1>1, AppendProperties
<1>4. mutex[l] # <<>> => Head(Append(mutex[l], x)) = Head(mutex[l])
  BY <1>1, HeadTailAppend
<1>5. mutex' \in [Links -> Seq(S)]
  BY <1>1, <1>2, <1>3
<1> QED BY <1>1, <1>2, <1>3, <1>4, <1>5 DEF S

\* A release changes the owner of one mutex.
LEMMA ReleaseKeepsOthers ==
    ASSUME TypeOK, NEW l \in Links, mutex[l] # <<>>, Release(l)
    PROVE  /\ mutex' \in [Links -> Seq(Links \cup Users)]
           /\ \A k \in Links : k # l => mutex'[k] = mutex[k]
<1>1. mutex \in [Links -> Seq(Links \cup Users)]
  BY DEF TypeOK
<1>2. Tail(mutex[l]) \in Seq(Links \cup Users)
  BY <1>1, HeadTailProperties
<1>3. mutex' = [mutex EXCEPT ![l] = Tail(mutex[l])]
  BY DEF Release
<1> QED BY <1>1, <1>2, <1>3

-------------------------------------------------------------------------------
(* The invariant holds initially and is kept by every step.                      *)

\* After net_open of every link the invariant holds: no descriptor is out.
LEMMA InitIInv == Init => IInv
BY NetAssumption DEF Init, IInv, TypeOK, OwnerInv, FdInv, KillInv, Owns,
                     TaskStates, UserStates

\* The steps of a task that leave the mutex alone.
LEMMA TaskKeepsIInv ==
    ASSUME IInv, NEW l \in Links,
           \/ Start(l) \/ Socket(l) \/ SetupFail(l) \/ Listen(l) \/ Connect(l)
           \/ SelectTimeout(l) \/ SelectError(l) \/ CloseConn(l) \/ Delay(l)
    PROVE  IInv'
<1> USE NetAssumption DEF IInv, TypeOK, OwnerInv, FdInv, KillInv, Goto, Owns,
                          TaskStates, UserStates, netVars, envVars, useVars, hisVars
<1>1. CASE Start(l)
  BY <1>1 DEF Start
<1>2. CASE Socket(l)
  <2>1. CASE Goto(l, "end") /\ UNCHANGED <<sock_fd, kern>>
    BY <1>2, <2>1 DEF Socket
  <2>2. ASSUME NEW f \in Fds, IsFree(f), Alloc(f, l),
               sock_fd' = [sock_fd EXCEPT ![l] = f], Goto(l, "setup")
        PROVE  IInv'
    <3> USE <1>2, <2>2 DEF Socket, Alloc, IsFree
    <3>1. kern' = [kern EXCEPT ![f] = l] /\ kern[f] = NoLink
      OBVIOUS
    <3>2. TypeOK'
      OBVIOUS
    <3>3. OwnerInv'
      OBVIOUS
    <3>4. FdInv'
      OBVIOUS
    <3>5. KillInv'
      OBVIOUS
    <3> QED BY <3>2, <3>3, <3>4, <3>5
  <2> QED BY <1>2, <2>1, <2>2 DEF Socket
<1>3. CASE SetupFail(l)
  BY <1>3 DEF SetupFail
<1>4. CASE Listen(l)
  BY <1>4 DEF Listen, IsServer
<1>5. CASE Connect(l)
  BY <1>5 DEF Connect, IsServer
<1>6. CASE SelectTimeout(l)
  BY <1>6 DEF SelectTimeout, Quiet
<1>7. CASE SelectError(l)
  BY <1>7 DEF SelectError
<1>8. CASE CloseConn(l)
  BY <1>8 DEF CloseConn, FreeFd
<1>9. CASE Delay(l)
  BY <1>9 DEF Delay
<1> QED BY <1>1, <1>2, <1>3, <1>4, <1>5, <1>6, <1>7, <1>8, <1>9

\* The steps of a task that take or release the mutex.
LEMMA TaskMutexKeepsIInv ==
    ASSUME IInv, NEW l \in Links,
           SelectRead(l) \/ Accept(l) \/ Read(l) \/ End(l) \/ CloseSock(l)
    PROVE  IInv'
<1> DEFINE Kept == /\ mutex' \in [Links -> Seq(Links \cup Users)]
                   /\ \A k \in Links : mutex[k] # <<>> =>
                         mutex'[k] # <<>> /\ Head(mutex'[k]) = Head(mutex[k])
           KeptElse == /\ mutex' \in [Links -> Seq(Links \cup Users)]
                       /\ \A k \in Links : k # l => mutex'[k] = mutex[k]
<1> USE NetAssumption DEF IInv, TypeOK, OwnerInv, FdInv, KillInv, Goto, Owns,
                          TaskStates, UserStates, netVars, envVars, useVars, hisVars
<1>1. CASE SelectRead(l)
  <2>1. Kept
    BY <1>1, TakeKeepsOwner DEF SelectRead
  <2>2. TypeOK'
    BY <1>1, <2>1 DEF SelectRead
  <2>3. OwnerInv'
    <3>1. ASSUME NEW u \in Users, user[u] = "write"
          PROVE  Owns(u, at[u])'
      BY <1>1, <2>1, <3>1 DEF SelectRead
    <3>2. ASSUME NEW k \in Links, task'[k] = "clear"
          PROVE  Owns(k, k)'
      BY <1>1, <2>1, <3>2 DEF SelectRead
    <3> QED BY <1>1, <3>1, <3>2 DEF SelectRead
  <2>4. FdInv' /\ KillInv'
    BY <1>1 DEF SelectRead
  <2> QED BY <2>2, <2>3, <2>4
<1>2. CASE Accept(l)
  <2>1. Kept
    <3>1. CASE Readable(l)
      BY <1>2, <3>1, TakeKeepsOwner DEF Accept
    <3>2. CASE ~Readable(l)
      BY <1>2, <3>2 DEF Accept
    <3> QED BY <3>1, <3>2
  <2>2. task' \in {task, [task EXCEPT ![l] = "read"]}
    BY <1>2 DEF Accept
  <2>3. /\ task' \in [Links -> TaskStates]
        /\ \A k \in Links : k # l => task'[k] = task[k]
        /\ task[l] = "select" /\ task'[l] \in {"select", "read"}
    <3>1. task[l] = "select"
      BY <1>2 DEF Accept
    <3>2. CASE task' = task
      BY <3>1, <3>2
    <3>3. CASE task' = [task EXCEPT ![l] = "read"]
      BY <3>1, <3>3
    <3> QED BY <2>2, <3>2, <3>3
  <2>6. /\ \A u \in Users : user[u] = "write" => Owns(u, at[u])'
        /\ \A k \in Links : task'[k] = "clear" => Owns(k, k)'
    <3>1. ASSUME NEW u \in Users, user[u] = "write"
          PROVE  Owns(u, at[u])'
      BY <1>2, <2>1, <3>1 DEF Accept
    <3>2. ASSUME NEW k \in Links, task'[k] = "clear"
          PROVE  Owns(k, k)'
      BY <2>1, <2>3, <3>2
    <3> QED BY <3>1, <3>2
  <2>4. CASE UNCHANGED <<tcp_fd, kern, rx, stall>>
    <3>1. TypeOK'
      BY <1>2, <2>1, <2>3, <2>4 DEF Accept
    <3>2. OwnerInv'
      BY <1>2, <2>3, <2>4, <2>6 DEF Accept
    <3>3. FdInv' /\ KillInv'
      BY <1>2, <2>3, <2>4 DEF Accept
    <3> QED BY <3>1, <3>2, <3>3
  <2>5. ASSUME NEW f \in Fds, IsFree(f), tcp_fd[l] = NoFd, Alloc(f, l),
               tcp_fd' = [tcp_fd EXCEPT ![l] = f],
               rx' = [rx EXCEPT ![l] = "quiet"],
               stall' = [stall EXCEPT ![l] = FALSE]
        PROVE  IInv'
    <3>1. TypeOK'
      BY <1>2, <2>1, <2>3, <2>5 DEF Accept, Alloc
    <3>2. OwnerInv'
      BY <1>2, <2>3, <2>5, <2>6 DEF Accept
    <3>3. FdInv'
      BY <1>2, <2>3, <2>5 DEF Accept, Alloc, IsFree
    <3>4. KillInv'
      BY <1>2, <2>3, <2>5 DEF Accept
    <3> QED BY <3>1, <3>2, <3>3, <3>4
  <2> QED BY <1>2, <2>4, <2>5 DEF Accept
<1>3. CASE Read(l)
  <2>1. KeptElse
    BY <1>3, ReleaseKeepsOthers DEF Read
  <2>2. TypeOK'
    <3>0. \/ task' = [task EXCEPT ![l] = "end"] /\ rx' = rx
          \/ task' = [task EXCEPT ![l] = "select"] /\ rx' = [rx EXCEPT ![l] = "quiet"]
      BY <1>3 DEF Read
    <3>1. task' \in [Links -> TaskStates]
      BY <3>0, ZenonT(30)
    <3>2. rx' \in [Links -> {"quiet", "data", "eof"}]
      BY <3>0, ZenonT(30)
    <3>3. mutex' \in [Links -> Seq(Links \cup Users)]
      BY <2>1
    <3> QED BY <1>3, <3>1, <3>2, <3>3 DEF Read
  <2>3. OwnerInv'
    <3>1. ASSUME NEW u \in Users, user[u] = "write"
          PROVE  Owns(u, at[u])'
      BY <1>3, <2>1, <3>1 DEF Read
    <3>2. ASSUME NEW k \in Links, task'[k] = "clear"
          PROVE  Owns(k, k)'
      BY <1>3, <2>1, <3>2 DEF Read
    <3> QED BY <1>3, <3>1, <3>2 DEF Read
  <2>4. FdInv' /\ KillInv'
    BY <1>3 DEF Read
  <2> QED BY <2>2, <2>3, <2>4
<1>4. CASE End(l)
  <2>1. Kept
    BY <1>4, TakeKeepsOwner DEF End
  <2>2. TypeOK'
    BY <1>4, <2>1 DEF End
  <2>3. OwnerInv'
    <3>1. ASSUME NEW u \in Users, user[u] = "write"
          PROVE  Owns(u, at[u])'
      BY <1>4, <2>1, <3>1 DEF End
    <3>2. ASSUME NEW k \in Links, task'[k] = "clear"
          PROVE  Owns(k, k)'
      BY <1>4, <2>1, <3>2 DEF End
    <3> QED BY <1>4, <3>1, <3>2 DEF End
  <2>4. FdInv' /\ KillInv'
    BY <1>4 DEF End
  <2> QED BY <2>2, <2>3, <2>4
<1>5. CASE CloseSock(l)
  <2>1. Owns(l, l)
    BY <1>5 DEF CloseSock
  <2>2. KeptElse
    BY <1>5, <2>1, ReleaseKeepsOthers DEF CloseSock
  <2>3. TypeOK'
    BY <1>5, <2>2 DEF CloseSock, FreeFd
  <2>4. OwnerInv'
    BY <1>5, <2>1, <2>2 DEF CloseSock
  <2>5. FdInv'
    BY <1>5 DEF CloseSock, FreeFd
  <2>6. KillInv'
    BY <1>5 DEF CloseSock
  <2> QED BY <2>3, <2>4, <2>5, <2>6
<1> QED BY <1>1, <1>2, <1>3, <1>4, <1>5

\* The steps of the threads that use the links.
LEMMA UserKeepsIInv ==
    ASSUME IInv, NEW u \in Users, UserStep(u)
    PROVE  IInv'
<1> USE NetAssumption DEF IInv, TypeOK, OwnerInv, FdInv, KillInv, Be, Owns,
                          TaskStates, UserStates, netVars, envVars, useVars, hisVars
<1>1. ASSUME NEW l \in Links, SendCheck(u, l)
      PROVE  IInv'
  <2>1. /\ mutex' \in [Links -> Seq(Links \cup Users)]
        /\ \A k \in Links : mutex[k] # <<>> =>
              mutex'[k] # <<>> /\ Head(mutex'[k]) = Head(mutex[k])
    BY <1>1, TakeKeepsOwner DEF SendCheck
  <2>2. TypeOK'
    BY <1>1, <2>1 DEF SendCheck
  <2>3. OwnerInv'
    <3>1. ASSUME NEW v \in Users, user'[v] = "write"
          PROVE  at'[v] \in Links /\ Owns(v, at[v])'
      BY <1>1, <2>1, <3>1 DEF SendCheck
    <3>2. ASSUME NEW k \in Links, task'[k] = "clear"
          PROVE  Owns(k, k)'
      BY <1>1, <2>1, <3>2 DEF SendCheck
    <3> QED BY <1>1, <3>1, <3>2 DEF SendCheck
  <2>4. FdInv' /\ KillInv'
    BY <1>1 DEF SendCheck
  <2> QED BY <2>2, <2>3, <2>4
<1>2. CASE SendWrite(u)
  BY <1>2 DEF SendWrite
<1>3. CASE SendDone(u)
  <2>1. at[u] \in Links /\ Owns(u, at[u])
    BY <1>3 DEF SendDone
  <2>2. /\ mutex' \in [Links -> Seq(Links \cup Users)]
        /\ \A k \in Links : k # at[u] => mutex'[k] = mutex[k]
    BY <1>3, <2>1, ReleaseKeepsOthers DEF SendDone
  <2>3. TypeOK'
    BY <1>3, <2>2 DEF SendDone
  <2>4. OwnerInv'
    <3>1. ASSUME NEW v \in Users, user'[v] = "write"
          PROVE  at'[v] \in Links /\ Owns(v, at[v])'
      BY <1>3, <2>1, <2>2, <3>1 DEF SendDone
    <3>2. ASSUME NEW k \in Links, task'[k] = "clear"
          PROVE  Owns(k, k)'
      BY <1>3, <2>1, <2>2, <3>2 DEF SendDone
    <3> QED BY <1>3, <3>1, <3>2 DEF SendDone
  <2>5. FdInv' /\ KillInv'
    BY <1>3 DEF SendDone
  <2> QED BY <2>3, <2>4, <2>5
<1>4. CASE WaitConnect(u)
  BY <1>4 DEF WaitConnect
<1>5. CASE Disconnect(u)
  BY <1>5 DEF Disconnect
<1>6. CASE DisconnectReturn(u)
  BY <1>6 DEF DisconnectReturn
<1> QED BY <1>1, <1>2, <1>3, <1>4, <1>5, <1>6 DEF UserStep

\* The peers change only what lwIP will say next.
LEMMA PeerKeepsIInv ==
    ASSUME IInv, NEW l \in Links, PeerStep(l)
    PROVE  IInv'
<1> USE DEF IInv, TypeOK, OwnerInv, FdInv, KillInv, Owns, netVars, useVars, hisVars
<1>1. ASSUME NEW what \in {"data", "eof"}, Arrive(l, what)
      PROVE  IInv'
  BY <1>1 DEF Arrive
<1>2. CASE Knock(l)
  BY <1>2 DEF Knock
<1>3. CASE Stall(l)
  BY <1>3 DEF Stall
<1> QED BY <1>1, <1>2, <1>3, SMTT(20) DEF PeerStep

\* Every step of a task, a user or a peer keeps the invariant.
LEMMA NextIInv == IInv /\ [Next]_vars => IInv'
<1> SUFFICES ASSUME IInv, [Next]_vars
             PROVE  IInv'
  OBVIOUS
<1>1. ASSUME NEW l \in Links, TaskStep(l)
      PROVE  IInv'
  BY <1>1, TaskKeepsIInv, TaskMutexKeepsIInv DEF TaskStep
<1>2. ASSUME NEW l \in Links, PeerStep(l)
      PROVE  IInv'
  BY <1>2, PeerKeepsIInv
<1>3. ASSUME NEW u \in Users, UserStep(u)
      PROVE  IInv'
  BY <1>3, UserKeepsIInv
<1>4. CASE UNCHANGED vars
  BY <1>4 DEF vars, netVars, envVars, useVars, hisVars, IInv, TypeOK, OwnerInv,
              FdInv, KillInv, Owns
<1> QED BY <1>1, <1>2, <1>3, <1>4 DEF Next

\* So the invariant holds in every reachable state.
LEMMA SpecIInv == Spec => []IInv
BY InitIInv, NextIInv, PTL DEF Spec

\* A thread that is writing owns the mutex of its link, which is still up on
\* the socket that is being written on.
LEMMA WriterOnLiveSocket ==
    ASSUME IInv, NEW u \in Users, wfd[u] # NoFd
    PROVE  /\ at[u] \in Links /\ Owns(u, at[u])
           /\ tcp_fd[at[u]] = wfd[u]
           /\ task[at[u]] # "clear"
           /\ kern[wfd[u]] = at[u]
<1>1. at[u] \in Links /\ Owns(u, at[u]) /\ tcp_fd[at[u]] = wfd[u]
  BY DEF IInv, OwnerInv
<1>2. task[at[u]] # "clear"
  BY <1>1, NetAssumption DEF IInv, OwnerInv, Owns
<1> QED BY <1>1, <1>2 DEF IInv, FdInv

-------------------------------------------------------------------------------
(* What follows.                                                            *)

\* The variables keep their types in every run of every set of links (the
\* whole of net_helper.c); the bound on kills needs KillInv.
THEOREM TypeCorrect == Spec => []TypeOK
BY SpecIInv, PTL DEF IInv

\* No descriptor variable is stale, whatever the other links open and close.
THEOREM DescriptorsLive == Spec => []LiveFds
<1>1. IInv => LiveFds
  BY DEF IInv, FdInv, LiveFds
<1> QED BY <1>1, SpecIInv, PTL

\* No descriptor is lost over any number of reconnections (__END).
THEOREM DescriptorsNotLost == Spec => []NoLeak
<1>1. IInv => NoLeak
  BY NetAssumption DEF IInv, TypeOK, FdInv, NoLeak
<1> QED BY <1>1, SpecIInv, PTL

\* The socket under a thread that is inside lwip_write is not closed or reused.
THEOREM WritersSafe == Spec => []WriterSafe
<1>1. IInv => WriterSafe
  BY WriterOnLiveSocket DEF WriterSafe
<1> QED BY <1>1, SpecIInv, PTL

\* A call of net_disconnect drops at most one connection.
THEOREM RequestsDropOnce == Spec => []KillPerRequest
<1>1. IInv => KillPerRequest
  BY DEF IInv, KillInv, KillPerRequest
<1> QED BY <1>1, SpecIInv, PTL

-------------------------------------------------------------------------------
(* NetLink implements LinkSpec.                                             *)

\* The refinement mapping of NetLink, by the names it has in the steps below.
link == [l \in Links |-> IF task[l] = "clear" THEN NoFd ELSE tcp_fd[l]]

\* A step of a task brings its link up, takes it down, or is not seen.
LEMMA TaskImplements ==
    ASSUME IInv, NEW l \in Links, TaskStep(l)
    PROVE  Abstract!Next \/ UNCHANGED Abstract!vars
<1> USE NetAssumption DEF IInv, TypeOK, FdInv, Goto, netVars, envVars, useVars, hisVars
<1>1. wfd' = wfd
  BY DEF TaskStep, Start, Socket, SetupFail, Listen, Connect, SelectTimeout, SelectError,
         SelectRead, Accept, Read, End, CloseConn, CloseSock, Delay
<1>2. ASSUME link' = link
      PROVE  UNCHANGED Abstract!vars
  BY <1>1, <1>2 DEF link, Abstract!vars
<1>3. CASE Start(l)
  BY <1>2, <1>3 DEF link, Start
<1>4. CASE \/ Socket(l) \/ SetupFail(l) \/ Listen(l) \/ SelectTimeout(l) \/ SelectError(l)
           \/ SelectRead(l) \/ Read(l) \/ End(l) \/ Delay(l)
  <2>1. tcp_fd' = tcp_fd
    BY <1>4 DEF Socket, SetupFail, Listen, SelectTimeout, SelectError, SelectRead, Read, End, Delay
  <2>2. \A k \in Links : task'[k] = "clear" <=> task[k] = "clear"
    BY <1>4 DEF Socket, SetupFail, Listen, SelectTimeout, SelectError, SelectRead, Read, End, Delay
  <2>3. link' = link
    BY <2>1, <2>2 DEF link
  <2> QED BY <1>2, <2>3
<1>5. CASE CloseSock(l)
  BY <1>2, <1>5 DEF link, CloseSock
\* A link that comes up gets a socket that no other link and no writer has.
<1>6. ASSUME NEW f \in Fds, tcp_fd[l] = NoFd, task[l] # "clear",
             kern[f] \in {l, NoLink}, link' = [link EXCEPT ![l] = f]
      PROVE  Abstract!Next
  <2>1. link[l] = NoFd
    BY <1>6 DEF link
  <2>2. ASSUME NEW k \in Links
        PROVE  link[k] # f
    BY <1>6 DEF link
  <2>3. ASSUME NEW u \in Users
        PROVE  wfd[u] # f
    <3>1. SUFFICES ASSUME wfd[u] = f
                   PROVE  FALSE
      OBVIOUS
    <3>2. at[u] \in Links /\ tcp_fd[at[u]] = f /\ kern[f] = at[u]
      BY <3>1, WriterOnLiveSocket
    <3> QED BY <1>6, <3>2
  <2>4. Abstract!Up(l, f)
    BY <1>1, <1>6, <2>1, <2>2, <2>3 DEF Abstract!Up, link
  <2> QED BY <2>4 DEF Abstract!Next
<1>7. CASE Connect(l)
  <2>1. sock_fd[l] \in Fds /\ kern[sock_fd[l]] = l /\ tcp_fd[l] = NoFd
    BY <1>7 DEF Connect
  <2>2. link' = [link EXCEPT ![l] = sock_fd[l]]
    BY <1>7 DEF Connect, link
  <2> QED BY <1>6, <1>7, <2>1, <2>2 DEF Connect
<1>8. CASE Accept(l)
  <2>1. \A k \in Links : task'[k] = "clear" <=> task[k] = "clear"
    BY <1>8 DEF Accept
  <2>2. CASE UNCHANGED tcp_fd
    <3>1. link' = link
      BY <2>1, <2>2 DEF link
    <3> QED BY <1>2, <3>1
  <2>3. ASSUME NEW f \in Fds, IsFree(f), tcp_fd[l] = NoFd,
               tcp_fd' = [tcp_fd EXCEPT ![l] = f]
        PROVE  Abstract!Next
    <3>1. task[l] = "select"
      BY <1>8 DEF Accept
    <3>2. link' = [link EXCEPT ![l] = f]
      BY <2>1, <2>3, <3>1, ZenonT(30) DEF link
    <3> QED BY <1>6, <2>3, <3>1, <3>2 DEF IsFree
  <2> QED BY <1>8, <2>2, <2>3 DEF Accept
<1>9. CASE CloseConn(l)
  <2>1. task[l] = "close" /\ Owns(l, l) /\ tcp_fd' = tcp_fd /\ task' = [task EXCEPT ![l] = "clear"]
    BY <1>9 DEF CloseConn
  <2>2. link' = [link EXCEPT ![l] = NoFd]
    BY <2>1 DEF link
  <2>3. CASE tcp_fd[l] = NoFd
    <3>1. link' = link
      BY <2>1, <2>2, <2>3 DEF link
    <3> QED BY <1>2, <3>1
  <2>4. CASE tcp_fd[l] # NoFd
    <3>1. link[l] = tcp_fd[l] /\ kern[tcp_fd[l]] = l
      BY <2>1, <2>4 DEF link
    <3>2. ASSUME NEW u \in Users
          PROVE  wfd[u] # link[l]
      <4>1. SUFFICES ASSUME wfd[u] = link[l]
                     PROVE  FALSE
        OBVIOUS
      <4>2. Owns(u, at[u]) /\ kern[link[l]] = at[u]
        BY <2>4, <3>1, <4>1, WriterOnLiveSocket
      <4> QED BY <2>1, <3>1, <4>2 DEF Owns
    <3>3. Abstract!Down(l)
      BY <1>1, <2>2, <2>4, <3>1, <3>2 DEF Abstract!Down, link
    <3> QED BY <3>3 DEF Abstract!Next
  <2> QED BY <2>3, <2>4
<1> QED BY <1>3, <1>4, <1>5, <1>7, <1>8, <1>9 DEF TaskStep

\* A step of a user begins or ends a write, or is not seen.
LEMMA UserImplements ==
    ASSUME IInv, NEW u \in Users, UserStep(u)
    PROVE  Abstract!Next \/ UNCHANGED Abstract!vars
<1> USE NetAssumption DEF IInv, TypeOK, OwnerInv, Be, Owns,
                          netVars, envVars, useVars, hisVars
<1>1. link' = link
  BY DEF link, UserStep, SendCheck, SendWrite, SendDone, WaitConnect, Disconnect, DisconnectReturn
<1>2. CASE wfd' = wfd
  BY <1>1, <1>2 DEF link, Abstract!vars
<1>3. CASE SendWrite(u)
  <2>1. at[u] \in Links /\ Owns(u, at[u]) /\ wfd[u] = NoFd
        /\ wfd' = [wfd EXCEPT ![u] = tcp_fd[at[u]]]
    BY <1>3 DEF SendWrite
  <2>2. CASE tcp_fd[at[u]] = NoFd
    <3>1. wfd' = wfd
      BY <2>1, <2>2
    <3> QED BY <1>2, <3>1
  <2>3. CASE tcp_fd[at[u]] # NoFd
    <3>1. task[at[u]] # "clear"
      BY <2>1
    <3>2. link[at[u]] = tcp_fd[at[u]]
      BY <2>1, <3>1 DEF link
    <3>3. Abstract!Begin(u, at[u])
      BY <1>1, <2>1, <2>3, <3>2 DEF Abstract!Begin, link
    <3> QED BY <2>1, <3>3 DEF Abstract!Next
  <2> QED BY <2>2, <2>3
<1>4. CASE SendDone(u)
  <2>1. wfd' = [wfd EXCEPT ![u] = NoFd]
    BY <1>4 DEF SendDone
  <2>2. CASE wfd[u] = NoFd
    <3>1. wfd' = wfd
      BY <2>1, <2>2
    <3> QED BY <1>2, <3>1
  <2>3. CASE wfd[u] # NoFd
    <3>1. Abstract!End(u)
      BY <1>1, <2>1, <2>3 DEF Abstract!End, link
    <3> QED BY <3>1 DEF Abstract!Next
  <2> QED BY <2>2, <2>3
<1>5. CASE (\E l \in Links : SendCheck(u, l)) \/ WaitConnect(u) \/ Disconnect(u) \/ DisconnectReturn(u)
  <2>1. wfd' = wfd
    BY <1>5 DEF SendCheck, WaitConnect, Disconnect, DisconnectReturn
  <2> QED BY <1>2, <2>1
<1> QED BY <1>3, <1>4, <1>5 DEF UserStep

\* Tasks, mutexes and lwIP together keep the promise of LinkSpec: the users of
\* net_send see sockets that come and go, never one that is closed under a
\* write or shared by two links.
THEOREM Refinement == Spec => ImplementsLinkSpec
<1>1. Init => Abstract!Init
  BY DEF Init, Abstract!Init
<1>2. IInv /\ [Next]_vars => [Abstract!Next]_Abstract!vars
  <2> SUFFICES ASSUME IInv, [Next]_vars
               PROVE  Abstract!Next \/ UNCHANGED Abstract!vars
    OBVIOUS
  <2>1. ASSUME NEW l \in Links, PeerStep(l)
        PROVE  UNCHANGED Abstract!vars
    BY <2>1 DEF PeerStep, Arrive, Knock, Stall, Abstract!vars, netVars, useVars
  <2>2. CASE UNCHANGED vars
    BY <2>2 DEF vars, netVars, useVars, Abstract!vars
  <2> QED BY <2>1, <2>2, TaskImplements, UserImplements DEF Next
<1> QED BY <1>1, <1>2, SpecIInv, PTL DEF Spec, Abstract!Spec, ImplementsLinkSpec
===============================================================================
