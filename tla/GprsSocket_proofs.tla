--------------------------- MODULE GprsSocket_proofs ---------------------------
(***************************************************************************)
(* Proofs about GprsSocket for every set of links, threads and sockets and *)
(* every number of faults: what holds whatever goes wrong (types, the      *)
(* mutex, no socket lost), and what holds until something does (a socket   *)
(* is one link's own, its data too, and no live connection is closed).     *)
(***************************************************************************)
EXTENDS GprsSocket, SequenceTheorems, TLAPS

Creating == {"create", "cclose", "open", "opened", "conn"}
Closing  == {"close", "closewait"}

\* Where a thread waits for the mutex, or has just got it, and where it has it.
Asking  == {"create", "query", "close", "down", "init", "send"}
Holding == {"cclose", "open", "opened", "conn", "stat", "closewait", "sending"}

LockInv ==
    /\ \A i \in DOMAIN lock : pc[lock[i]] \in Asking \cup Holding
    /\ \A t \in Threads : pc[t] \in Asking \cup Holding => \E i \in DOMAIN lock : lock[i] = t
    /\ \A t \in Threads : pc[t] \in Holding => Owns(t)

PlaceInv ==
    /\ \A n \in Links : pc[n] \notin {"work", "send", "sending"}
    /\ \A w \in Workers : pc[w] \in {"work", "close", "closewait"}
    /\ \A u \in Senders : pc[u] \in {"work", "send", "sending"}

\* A socket the modem has opened, or is opening, is some link's for it.
ModemInv == /\ \A s \in Socks : modem[s].who = NoLink <=> modem[s].st = "idle"
            /\ torn => out # <<>> /\ Head(out).kind = "stat"

\* What a link has and holds while it looks for a socket.
CreateInv == \A n \in Links :
    /\ pc[n] \in {"idle"} \cup Creating => fd[n] = NoSock
    /\ pc[n] \in Creating \ {"create"} => arg[n] \in Socks /\ ~used[arg[n]]

\* A thread that closes does so for the socket its link has had since, or for a
\* link that has none: a link that looks for one stands behind it in the queue.
CloseInv == \A t \in Threads : pc[t] \in Closing =>
    /\ fd[LinkOf[t]] \in {arg[t], NoSock}
    /\ \A i, j \in DOMAIN lock :
         lock[i] = t /\ lock[j] = LinkOf[t] /\ t # LinkOf[t] /\ pc[LinkOf[t]] \in Creating => i < j

\* A link that starts over does not know yet that its socket was released.
HolderInv == \A s \in Socks : used[s] => \E n \in Links : fd[n] = s /\ pc[n] # "start"

AnyInv == /\ TypeOK /\ LockInv /\ PlaceInv /\ ModemInv
          /\ CreateInv /\ CloseInv /\ HolderInv

-------------------------------------------------------------------------------
(* Until a command is answered late, a buffer is missing, the modem is      *)
(* cycled or a link is dropped by a worker.                                 *)

Clean == Without({"late", "nomem", "cycle", "drop"})

Answers == {"ok", "error", "close", "stat"}
\* The answers to the command a thread has sent.
Awaited(p) == CASE p \in {"cclose", "closewait"} -> {"close", "error"}
                [] p = "opened" -> {"ok", "error"}
                [] p = "stat" -> {"stat"}
                [] OTHER -> {}

\* The only answer in out is to the command of the thread that has the mutex.
AnswerInv == \A i \in DOMAIN out : out[i].kind \in Answers =>
    /\ lock # <<>> /\ out[i].kind \in Awaited(pc[Head(lock)])
    /\ ans \cap Awaited(pc[Head(lock)]) = {}
    /\ \A j \in DOMAIN out : out[j].kind \in Answers => j = i

\* Nobody but the link's own task has touched it.
TaskInv ==
    /\ power
    /\ \A w \in Workers : pc[w] = "work"
    /\ \A n \in Links :
          /\ pc[n] \notin {"off", "init"}
          /\ pc[n] = "start" => fd[n] = NoSock
          /\ pc[n] \in {"loop", "query", "stat", "check"} \cup Closing => fd[n] # NoSock
          /\ pc[n] \in Closing => arg[n] = fd[n]

\* A report of an earlier connection on socket s, whose state is st, that n is
\* opening.
Stale(n, s, st, r) ==
    \/ r.kind = "data" /\ r.sock = s /\ r.from # n
    \/ r.kind = "connect" /\ r.sock = s /\ st = "opening"

\* AT+QIOPEN was accepted, and what came before it has been parsed before it.
OpenInv == \A n \in Links :
    /\ pc[n] = "opened" /\ ("ok" \in ans \/ \E i \in DOMAIN out : out[i].kind = "ok") =>
          /\ modem[arg[n]].who \in {n, NoLink}
          /\ \A j \in DOMAIN out : Stale(n, arg[n], modem[arg[n]].st, out[j]) =>
                \E i \in DOMAIN out : j < i /\ out[i].kind = "ok"
    /\ pc[n] = "conn" =>
          /\ modem[arg[n]].who \in {n, NoLink}
          /\ \A j \in DOMAIN out : ~Stale(n, arg[n], modem[arg[n]].st, out[j])
          /\ eConn[arg[n]] = "OK" => srv[arg[n]] # "zero" /\ modem[arg[n]].st # "opening"

\* The socket of a link is its own, and the table, or what will be parsed into
\* it, knows that it is connected.
HeldInv == \A n \in Links : fd[n] # NoSock =>
    /\ used[fd[n]]
    /\ \A m \in Links \ {n} : fd[m] # fd[n]
    /\ modem[fd[n]].who \in {n, NoLink} /\ modem[fd[n]].st # "opening"
    /\ \A i \in DOMAIN out : out[i].kind = "data" /\ out[i].sock = fd[n] => out[i].from = n
    /\ modem[fd[n]].st = "open" =>
          /\ torn \/ srv[fd[n]] # "zero"
          /\ \A i \in DOMAIN out : out[i].kind = "stat" => fd[n] \in out[i].open

CleanInv == AnswerInv /\ TaskInv /\ OpenInv /\ HeldInv

IInv == AnyInv /\ (Clean => CleanInv) /\ NoLiveClose

-------------------------------------------------------------------------------
(* Places, reports and the queue of the mutex.                              *)

LEMMA PlacesAre ==
    /\ \A p \in Asking \cup Holding : p \in Places
    /\ \A p \in {"start", "idle", "loop", "check", "off", "work"} :
          p \in Places /\ p \notin Asking \cup Holding
BY DEF Places, Asking, Holding

\* What the modem sends, and what is in it.
LEMMA ReportsAre ==
    /\ [kind |-> "ok"] \in Reports /\ [kind |-> "error"] \in Reports
    /\ \A s \in Socks : /\ [kind |-> "connect", sock |-> s] \in Reports
                        /\ [kind |-> "close", sock |-> s] \in Reports
    /\ \A S \in SUBSET Socks : [kind |-> "stat", open |-> S] \in Reports
    /\ \A s \in Socks, n \in Links : [kind |-> "data", sock |-> s, from |-> n] \in Reports
    /\ \A r \in Reports :
          /\ r.kind \in Answers \cup {"connect", "data"}
          /\ r.kind \in {"connect", "close", "data"} => r.sock \in Socks
          /\ r.kind = "stat" => r.open \subseteq Socks
          /\ r.kind = "data" => r.from \in Links
<1>1. /\ [kind |-> "ok"] \in Reports /\ [kind |-> "error"] \in Reports
  BY DEF Reports
<1>2. \A s \in Socks : /\ [kind |-> "connect", sock |-> s] \in Reports
                      /\ [kind |-> "close", sock |-> s] \in Reports
  BY DEF Reports
<1>3. \A S \in SUBSET Socks : [kind |-> "stat", open |-> S] \in Reports
  BY DEF Reports
<1>4. \A s \in Socks, n \in Links : [kind |-> "data", sock |-> s, from |-> n] \in Reports
  BY DEF Reports
<1>5. ASSUME NEW r \in Reports
      PROVE  /\ r.kind \in Answers \cup {"connect", "data"}
             /\ r.kind \in {"connect", "close", "data"} => r.sock \in Socks
             /\ r.kind = "stat" => r.open \subseteq Socks
             /\ r.kind = "data" => r.from \in Links
  <2>1. CASE r \in [kind : {"ok", "error"}]
    BY <2>1 DEF Answers
  <2>2. CASE r \in [kind : {"connect", "close"}, sock : Socks]
    BY <2>2 DEF Answers
  <2>3. CASE r \in [kind : {"stat"}, open : SUBSET Socks]
    BY <2>3 DEF Answers
  <2>4. CASE r \in [kind : {"data"}, sock : Socks, from : Links]
    BY <2>4 DEF Answers
  <2> QED BY <1>5, <2>1, <2>2, <2>3, <2>4 DEF Reports
<1> QED BY <1>1, <1>2, <1>3, <1>4, <1>5

\* A thread that begins to wait for the mutex stands behind all the others.
LEMMA EnterKeepsLock ==
    ASSUME TypeOK, LockInv, NEW t \in Threads, pc[t] \notin Asking \cup Holding,
           Enter(t), NEW p \in Asking, Goto(t, p)
    PROVE  /\ lock' \in Seq(Threads)
           /\ \A i, j \in DOMAIN lock' : lock'[i] = lock'[j] => i = j
           /\ LockInv'
           /\ \A i \in DOMAIN lock : i \in DOMAIN lock' /\ lock'[i] = lock[i]
           /\ \A i \in DOMAIN lock' : i \in DOMAIN lock \/ lock'[i] = t
           /\ \A i \in DOMAIN lock, j \in DOMAIN lock' : lock'[j] = t => i < j
           /\ lock # <<>> => lock' # <<>> /\ Head(lock') = Head(lock)
           /\ pc' \in [Threads -> Places]
<1>1. lock \in Seq(Threads) /\ pc \in [Threads -> Places]
  BY DEF TypeOK
<1>2. /\ lock' \in Seq(Threads) /\ lock' # <<>>
      /\ Len(lock') = Len(lock) + 1 /\ Len(lock) \in Nat
      /\ \A i \in 1 .. Len(lock) : lock'[i] = lock[i]
      /\ lock'[Len(lock) + 1] = t
  BY <1>1, AppendProperties, LenProperties DEF Enter
<1>3. DOMAIN lock = 1 .. Len(lock) /\ DOMAIN lock' = 1 .. Len(lock) + 1
  BY <1>1, <1>2, LenProperties
<1>4. \A i \in DOMAIN lock : lock[i] # t /\ lock[i] \in Threads
  BY <1>1 DEF LockInv
<1>5. lock # <<>> => Head(lock') = Head(lock)
  BY <1>1, HeadTailAppend DEF Enter
<1>6. \A i, j \in DOMAIN lock' : lock'[i] = lock'[j] => i = j
  BY <1>2, <1>3, <1>4 DEF TypeOK
<1>7. pc' \in [Threads -> Places] /\ pc'[t] = p /\ \A x \in Threads \ {t} : pc'[x] = pc[x]
  BY <1>1, PlacesAre DEF Goto
<1>8. LockInv'
  <2>1. \A i \in DOMAIN lock' : pc'[lock'[i]] \in Asking \cup Holding
    BY <1>2, <1>3, <1>4, <1>7 DEF LockInv
  <2>2. \A x \in Threads : pc'[x] \in Asking \cup Holding =>
           \E i \in DOMAIN lock' : lock'[i] = x
    BY <1>2, <1>3, <1>7 DEF LockInv
  <2>3. \A x \in Threads : pc'[x] \in Holding => Owns(x)'
    BY <1>2, <1>5, <1>7 DEF LockInv, Owns, Asking, Holding
  <2> QED BY <2>1, <2>2, <2>3 DEF LockInv
<1> QED BY <1>2, <1>3, <1>4, <1>5, <1>6, <1>7, <1>8

\* The owner gives the mutex to the next in the queue.
LEMMA LeaveKeepsLock ==
    ASSUME TypeOK, LockInv, NEW t \in Threads, Owns(t), lock' = Tail(lock),
           NEW p \in Places \ (Asking \cup Holding), Goto(t, p)
    PROVE  /\ lock' \in Seq(Threads)
           /\ \A i, j \in DOMAIN lock' : lock'[i] = lock'[j] => i = j
           /\ LockInv'
           /\ \A i \in DOMAIN lock' : /\ i + 1 \in DOMAIN lock /\ i \in Nat
                                      /\ lock'[i] = lock[i + 1] /\ lock'[i] # t
           /\ pc' \in [Threads -> Places]
           /\ \A x \in Threads \ {t} : pc[x] \notin Holding
<1>1. lock \in Seq(Threads) /\ lock # <<>> /\ lock[1] = t /\ Head(lock) = t
  BY DEF TypeOK, Owns
<1>2. /\ lock' \in Seq(Threads) /\ Len(lock) \in Nat \ {0}
      /\ Len(lock') = Len(lock) - 1
      /\ \A i \in 1 .. Len(lock) - 1 : lock'[i] = lock[i + 1]
  BY <1>1, HeadTailProperties, EmptySeq, LenProperties
<1>3. DOMAIN lock = 1 .. Len(lock) /\ DOMAIN lock' = 1 .. Len(lock) - 1
  BY <1>1, <1>2, LenProperties
<1>4. \A i \in DOMAIN lock : lock[i] = t => i = 1
  BY <1>1, <1>2, <1>3 DEF TypeOK
<1>5. \A i \in DOMAIN lock' : /\ i + 1 \in DOMAIN lock /\ i \in Nat /\ i + 1 # 1
                             /\ lock'[i] = lock[i + 1] /\ lock'[i] # t
  <2> SUFFICES ASSUME NEW i \in 1 .. Len(lock) - 1
               PROVE  i + 1 \in 1 .. Len(lock) /\ i \in Nat /\ i + 1 # 1 /\ lock'[i] # t
    BY <1>2, <1>3
  <2> QED BY <1>2, <1>3, <1>4
<1>6. \A i, j \in DOMAIN lock' : lock'[i] = lock'[j] => i = j
  <2> SUFFICES ASSUME NEW i \in DOMAIN lock', NEW j \in DOMAIN lock', lock'[i] = lock'[j]
               PROVE  i = j
    OBVIOUS
  <2>1. i + 1 = j + 1
    BY <1>5 DEF TypeOK
  <2> QED BY <2>1, <1>5
<1>7. pc' \in [Threads -> Places] /\ pc'[t] = p /\ \A x \in Threads \ {t} : pc'[x] = pc[x]
  BY DEF Goto, TypeOK
<1>8. \A x \in Threads \ {t} : pc[x] \notin Holding
  BY <1>1 DEF LockInv, Owns
<1>9. LockInv'
  <2>1. \A i \in DOMAIN lock' : pc'[lock'[i]] \in Asking \cup Holding
    <3> SUFFICES ASSUME NEW i \in DOMAIN lock' PROVE pc'[lock'[i]] \in Asking \cup Holding
      OBVIOUS
    <3>1. lock'[i] = lock[i + 1] /\ i + 1 \in DOMAIN lock /\ lock'[i] \in Threads \ {t}
      BY <1>1, <1>2, <1>5
    <3> QED BY <3>1, <1>7 DEF LockInv
  <2>2. \A x \in Threads : pc'[x] \in Asking \cup Holding =>
           \E i \in DOMAIN lock' : lock'[i] = x
    <3> SUFFICES ASSUME NEW x \in Threads, pc'[x] \in Asking \cup Holding
                 PROVE  \E i \in DOMAIN lock' : lock'[i] = x
      OBVIOUS
    <3>1. x # t /\ pc[x] \in Asking \cup Holding
      BY <1>7
    <3>2. PICK i \in DOMAIN lock : lock[i] = x
      BY <3>1 DEF LockInv
    <3>3. i # 1 /\ i \in 1 .. Len(lock)
      BY <3>1, <3>2, <1>1, <1>3
    <3>4. i - 1 \in 1 .. Len(lock) - 1 /\ (i - 1) + 1 = i
      BY <3>3, <1>2
    <3> QED BY <3>2, <3>4, <1>2, <1>3
  <2>3. \A x \in Threads : pc'[x] \in Holding => Owns(x)'
    BY <1>7, <1>8
  <2> QED BY <2>1, <2>2, <2>3 DEF LockInv
<1> QED BY <1>2, <1>5, <1>6, <1>7, <1>8, <1>9

\* The owner goes on, or a thread moves that has nothing to do with the mutex.
LEMMA MoveKeepsLock ==
    ASSUME TypeOK, LockInv, NEW t \in Threads, UNCHANGED lock, NEW p \in Places, Goto(t, p),
           \/ Owns(t) /\ p \in Asking \cup Holding
           \/ {pc[t], p} \cap (Asking \cup Holding) = {}
    PROVE  LockInv' /\ pc' \in [Threads -> Places]
<1>1. pc' \in [Threads -> Places] /\ pc'[t] = p /\ \A x \in Threads \ {t} : pc'[x] = pc[x]
  BY DEF Goto, TypeOK
<1>2. lock \in Seq(Threads) /\ \A i \in DOMAIN lock : lock[i] \in Threads
  BY DEF TypeOK
<1>3. Owns(t) => 1 \in DOMAIN lock /\ lock[1] = t
  BY <1>2, HeadTailProperties, EmptySeq, LenProperties DEF Owns
<1>4. \A i \in DOMAIN lock : pc'[lock[i]] \in Asking \cup Holding
  BY <1>1, <1>2 DEF LockInv
<1>5. \A x \in Threads : pc'[x] \in Asking \cup Holding => \E i \in DOMAIN lock : lock[i] = x
  BY <1>1, <1>3 DEF LockInv
<1>6. \A x \in Threads : pc'[x] \in Holding => Owns(x)
  BY <1>1 DEF LockInv
<1> QED BY <1>1, <1>4, <1>5, <1>6 DEF LockInv, Owns

-------------------------------------------------------------------------------
(* Types and the mutex.                                                     *)

\* What a command does, and what giving up an answer does, leaves the types.
LEMMA AnswerTypes ==
    ASSUME TypeOK, NEW r \in Reports
    PROVE  /\ Append(out, r) \in Seq(Reports)
           /\ Fault => faults' \in 0 .. MaxFault
           /\ Answered(r) => out' \in Seq(Reports) /\ faults' \in 0 .. MaxFault
           /\ Unanswered => out' \in Seq(Reports) /\ faults' \in 0 .. MaxFault
<1>1. out \in Seq(Reports) /\ faults \in 0 .. MaxFault /\ MaxFault \in Nat
  BY GprsAssumption DEF TypeOK
<1>2. Append(out, r) \in Seq(Reports)
  BY <1>1, AppendProperties
<1>3. Fault => faults' \in 0 .. MaxFault
  BY <1>1 DEF Fault
<1> QED BY <1>1, <1>2, <1>3 DEF Answered, Unanswered

LEMMA GivesUpTypes ==
    ASSUME TypeOK, GivesUp
    PROVE  /\ faults' \in 0 .. MaxFault
           /\ mishaps' \subseteq {"late", "torn", "nomem", "cycle", "drop"}
<1>1. faults \in 0 .. MaxFault /\ mishaps \subseteq {"late", "torn", "nomem", "cycle", "drop"}
  BY DEF TypeOK
<1>2. (Fault \/ UNCHANGED faults) /\ (Mishap("late") \/ UNCHANGED mishaps)
  BY DEF GivesUp
<1>3. faults' \in 0 .. MaxFault
  BY <1>1, <1>2, GprsAssumption DEF Fault
<1> QED BY <1>1, <1>2, <1>3 DEF Mishap

LEMMA SendCloseTypes ==
    ASSUME TypeOK, NEW s \in Socks \cup {NoSock}, SendClose(s)
    PROVE  /\ ans' = {} /\ out' \in Seq(Reports) /\ faults' \in 0 .. MaxFault
           /\ modem' \in [Socks -> [who : Links \cup {NoLink}, st : {"idle", "opening", "open"}]]
           /\ modem' = modem \/ (s \in Socks /\ modem' = [modem EXCEPT ![s] = Idle])
<1> USE DEF TypeOK
<1>1. CASE s \notin Socks \/ ~power
  <2>1. ans' = {} /\ out' = out /\ faults' = faults /\ modem' = modem
    BY <1>1 DEF SendClose
  <2> QED BY <2>1
<1>2. CASE s \in Socks /\ power
  <2> DEFINE M == [who : Links \cup {NoLink}, st : {"idle", "opening", "open"}]
  <2>1. Idle \in M /\ modem \in [Socks -> M]
    BY DEF Idle, TypeOK
  <2> HIDE DEF M
  <2>2. modem' = modem \/ modem' = [modem EXCEPT ![s] = Idle]
    BY <1>2 DEF SendClose
  <2>3. modem' \in [Socks -> M]
    BY <2>1, <2>2
  <2>4. \/ Unanswered
        \/ \E r \in Reports : Answered(r)
    BY <1>2, ReportsAre DEF SendClose
  <2>5. out' \in Seq(Reports) /\ faults' \in 0 .. MaxFault
    BY <2>4, ReportsAre, AnswerTypes
  <2>6. ans' = {}
    BY DEF SendClose
  <2> QED BY <1>2, <2>2, <2>3, <2>5, <2>6 DEF M
<1> QED BY <1>1, <1>2

\* A task opens a socket.
LEMMA OpenTypeLock ==
    ASSUME TypeOK, LockInv, PlaceInv, CreateInv, NEW n \in Links,
           \/ Start(n) \/ Register(n) \/ Create(n) \/ CreateClosed(n)
           \/ Open(n) \/ Opened(n) \/ Connected(n) \/ ConnectTimeout(n)
    PROVE  TypeOK' /\ LockInv'
<1> USE DEF sockVars, evtVars, modVars, cntVars
<1>0. n \in Threads /\ NoSock \in Socks \cup {NoSock}
  BY DEF Threads
<1>1. CASE Start(n)
  <2>1. LockInv' /\ pc' \in [Threads -> Places]
    BY <1>0, <1>1, PlacesAre, MoveKeepsLock DEF Start, Goto, Asking, Holding
  <2> QED BY <1>1, <2>1 DEF Start, TypeOK
<1>2. CASE Register(n)
  <2>1. /\ LockInv' /\ pc' \in [Threads -> Places] /\ lock' \in Seq(Threads)
        /\ \A i, j \in DOMAIN lock' : lock'[i] = lock'[j] => i = j
    BY <1>0, <1>2, EnterKeepsLock DEF Register, Asking, Holding
  <2> QED BY <1>2, <2>1 DEF Register, TypeOK
<1>3. CASE Create(n)
  <2>1. CASE Leave(n) /\ Goto(n, "idle") /\ UNCHANGED <<modem, out, faults>>
    <3>1. /\ LockInv' /\ pc' \in [Threads -> Places] /\ lock' \in Seq(Threads)
          /\ \A i, j \in DOMAIN lock' : lock'[i] = lock'[j] => i = j
      BY <1>0, <1>3, <2>1, PlacesAre, LeaveKeepsLock DEF Create, Leave
    <3> QED BY <1>3, <2>1, <3>1 DEF Create, Leave, TypeOK
  <2>2. ASSUME NEW s \in Socks, SendClose(s), arg' = [arg EXCEPT ![n] = s],
               Goto(n, "cclose"), UNCHANGED lock
        PROVE  TypeOK' /\ LockInv'
    <3>1. LockInv' /\ pc' \in [Threads -> Places]
      BY <1>0, <1>3, <2>2, PlacesAre, MoveKeepsLock DEF Create, Asking, Holding
    <3>2. /\ ans' = {} /\ out' \in Seq(Reports) /\ faults' \in 0 .. MaxFault
          /\ modem' \in [Socks -> [who : Links \cup {NoLink}, st : {"idle", "opening", "open"}]]
      BY <2>2, SendCloseTypes
    <3> QED BY <1>0, <1>3, <2>2, <3>1, <3>2 DEF Create, TypeOK
  <2> QED BY <1>3, <2>1, <2>2 DEF Create
<1>4. CASE CreateClosed(n)
  <2>1. LockInv' /\ pc' \in [Threads -> Places]
    BY <1>0, <1>4, PlacesAre, MoveKeepsLock DEF CreateClosed, LockInv, Asking, Holding
  <2>2. faults' \in 0 .. MaxFault /\ mishaps' \subseteq {"late", "torn", "nomem", "cycle", "drop"}
    BY <1>4, GivesUpTypes DEF CreateClosed, CloseReturns, TypeOK
  <2> QED BY <1>0, <1>4, <2>1, <2>2 DEF CreateClosed, Released, TypeOK
<1>5. CASE Open(n)
  <2>0. Owns(n)
    BY <1>0, <1>5 DEF Open, LockInv, Holding
  <2>1. CASE Leave(n) /\ Goto(n, "idle") /\ UNCHANGED <<modem, out, faults>>
    <3>1. /\ LockInv' /\ pc' \in [Threads -> Places] /\ lock' \in Seq(Threads)
          /\ \A i, j \in DOMAIN lock' : lock'[i] = lock'[j] => i = j
      BY <1>0, <2>0, <2>1, PlacesAre, LeaveKeepsLock DEF Leave
    <3> QED BY <1>5, <2>1, <3>1 DEF Open, Leave, TypeOK
  <2>2. ASSUME ans' = {}, Goto(n, "opened"), UNCHANGED <<lock, arg>>,
               \/ modem' = [modem EXCEPT ![arg[n]] = [who |-> n, st |-> "opening"]]
               \/ UNCHANGED modem,
               Answered([kind |-> "ok"]) \/ Answered([kind |-> "error"]) \/ Unanswered
        PROVE  TypeOK' /\ LockInv'
    <3>1. LockInv' /\ pc' \in [Threads -> Places]
      BY <1>0, <2>0, <2>2, PlacesAre, MoveKeepsLock DEF Asking, Holding
    <3>2. out' \in Seq(Reports) /\ faults' \in 0 .. MaxFault
      BY <2>2, ReportsAre, AnswerTypes
    <3>3. modem' \in [Socks -> [who : Links \cup {NoLink}, st : {"idle", "opening", "open"}]]
      <4> DEFINE M == [who : Links \cup {NoLink}, st : {"idle", "opening", "open"}]
      <4>1. [who |-> n, st |-> "opening"] \in M /\ modem \in [Socks -> M]
        BY DEF TypeOK
      <4> HIDE DEF M
      <4>2. modem' \in [Socks -> M]
        BY <2>2, <4>1
      <4> QED BY <4>2 DEF M
    <3> QED BY <1>0, <1>5, <2>2, <3>1, <3>2, <3>3 DEF Open, TypeOK
  <2> QED BY <1>5, <2>1, <2>2 DEF Open
<1>6. CASE Opened(n)
  <2>0. Owns(n)
    BY <1>0, <1>6 DEF Opened, LockInv, Holding
  <2>1. CASE "ok" \in ans
    <3>1. LockInv' /\ pc' \in [Threads -> Places]
      BY <1>0, <1>6, <2>0, <2>1, PlacesAre, MoveKeepsLock DEF Opened, Asking, Holding
    <3> QED BY <1>0, <1>6, <2>1, <3>1 DEF Opened, TypeOK
  <2>2. CASE "ok" \notin ans
    <3>1. /\ LockInv' /\ pc' \in [Threads -> Places] /\ lock' \in Seq(Threads)
          /\ \A i, j \in DOMAIN lock' : lock'[i] = lock'[j] => i = j
      BY <1>0, <1>6, <2>0, <2>2, PlacesAre, LeaveKeepsLock DEF Opened, Leave
    <3>2. faults' \in 0 .. MaxFault /\ mishaps' \subseteq {"late", "torn", "nomem", "cycle", "drop"}
      BY <1>6, <2>2, GivesUpTypes DEF Opened, TypeOK
    <3> QED BY <1>0, <1>6, <2>2, <3>1, <3>2 DEF Opened, Leave, TypeOK
  <2> QED BY <2>1, <2>2
<1>7. CASE Connected(n)
  <2>1. /\ LockInv' /\ pc' \in [Threads -> Places] /\ lock' \in Seq(Threads)
        /\ \A i, j \in DOMAIN lock' : lock'[i] = lock'[j] => i = j
    BY <1>0, <1>7, PlacesAre, LeaveKeepsLock DEF Connected, Leave, LockInv, Holding
  <2>2. faults' \in 0 .. MaxFault /\ mishaps' \subseteq {"late", "torn", "nomem", "cycle", "drop"}
    <3>1. (Fault \/ UNCHANGED faults) /\ (Mishap("nomem") \/ UNCHANGED mishaps)
      BY <1>7 DEF Connected
    <3>2. faults' \in 0 .. MaxFault
      BY <3>1, GprsAssumption DEF Fault, TypeOK
    <3> QED BY <3>1, <3>2 DEF Mishap, TypeOK
  <2> QED BY <1>0, <1>7, <2>1, <2>2 DEF Connected, Leave, TypeOK
<1>8. CASE ConnectTimeout(n)
  <2>1. /\ LockInv' /\ pc' \in [Threads -> Places] /\ lock' \in Seq(Threads)
        /\ \A i, j \in DOMAIN lock' : lock'[i] = lock'[j] => i = j
    BY <1>0, <1>8, PlacesAre, LeaveKeepsLock DEF ConnectTimeout, Leave, LockInv, Holding
  <2> QED BY <1>8, <2>1 DEF ConnectTimeout, Leave, TypeOK
<1> QED BY <1>1, <1>2, <1>3, <1>4, <1>5, <1>6, <1>7, <1>8

\* A connected task polls the modem, or gives it up.
LEMMA LoopTypeLock ==
    ASSUME TypeOK, LockInv, PlaceInv, ModemInv, NEW n \in Links,
           \/ Query(n) \/ SendQuery(n) \/ QueryDone(n) \/ Check(n)
           \/ GiveUp(n) \/ PowerDown(n) \/ PowerUp(n) \/ NetInit(n)
    PROVE  TypeOK' /\ LockInv'
<1> USE DEF sockVars, evtVars, modVars, cntVars
<1>0. n \in Threads /\ NoSock \in Socks \cup {NoSock}
  BY DEF Threads
<1>1. CASE Query(n)
  <2>1. /\ LockInv' /\ pc' \in [Threads -> Places] /\ lock' \in Seq(Threads)
        /\ \A i, j \in DOMAIN lock' : lock'[i] = lock'[j] => i = j
    BY <1>0, <1>1, EnterKeepsLock DEF Query, Asking, Holding
  <2> QED BY <1>1, <2>1 DEF Query, TypeOK
<1>2. CASE SendQuery(n)
  <2>1. LockInv' /\ pc' \in [Threads -> Places]
    BY <1>0, <1>2, PlacesAre, MoveKeepsLock DEF SendQuery, Asking, Holding
  <2>2. \/ Answered([kind |-> "stat", open |-> {s \in Socks : modem[s].st = "open"}])
        \/ Unanswered
    BY <1>2 DEF SendQuery
  <2>3. [kind |-> "stat", open |-> {s \in Socks : modem[s].st = "open"}] \in Reports
    BY ReportsAre
  <2>4. out' \in Seq(Reports) /\ faults' \in 0 .. MaxFault
    BY <2>2, <2>3, AnswerTypes
  <2> QED BY <1>0, <1>2, <2>1, <2>4 DEF SendQuery, TypeOK
<1>3. CASE QueryDone(n)
  <2>1. /\ LockInv' /\ pc' \in [Threads -> Places] /\ lock' \in Seq(Threads)
        /\ \A i, j \in DOMAIN lock' : lock'[i] = lock'[j] => i = j
    BY <1>0, <1>3, PlacesAre, LeaveKeepsLock DEF QueryDone, Leave, LockInv, Holding
  <2>2. faults' \in 0 .. MaxFault /\ mishaps' \subseteq {"late", "torn", "nomem", "cycle", "drop"}
    BY <1>3, GivesUpTypes DEF QueryDone, TypeOK
  <2> QED BY <1>0, <1>3, <2>1, <2>2 DEF QueryDone, Leave, TypeOK
<1>4. CASE Check(n)
  <2>0. pc[n] \in {"check", "loop"} /\ fd[n] \in Socks \cup {NoSock}
    BY <1>4 DEF Check, TypeOK
  <2>1. CASE Goto(n, "loop") /\ UNCHANGED <<arg, lock, mishaps>>
    <3>1. LockInv' /\ pc' \in [Threads -> Places]
      BY <1>0, <2>0, <2>1, PlacesAre, MoveKeepsLock DEF Asking, Holding
    <3> QED BY <1>4, <2>1, <3>1 DEF Check, TypeOK
  <2>2. CASE /\ arg' = [arg EXCEPT ![n] = fd[n]]
             /\ Enter(n) /\ Goto(n, "close")
             /\ Mishap("torn") \/ UNCHANGED mishaps
    <3>1. /\ LockInv' /\ pc' \in [Threads -> Places] /\ lock' \in Seq(Threads)
          /\ \A i, j \in DOMAIN lock' : lock'[i] = lock'[j] => i = j
      BY <1>0, <2>0, <2>2, EnterKeepsLock DEF Asking, Holding
    <3>2. /\ arg' \in [Threads -> Socks \cup {NoSock}]
          /\ mishaps' \subseteq {"late", "torn", "nomem", "cycle", "drop"}
      BY <1>0, <2>0, <2>2 DEF TypeOK, Mishap
    <3> QED BY <1>4, <2>2, <3>1, <3>2 DEF Check, TypeOK
  <2> QED BY <1>4, <2>1, <2>2 DEF Check
<1>5. CASE GiveUp(n)
  <2>1. /\ LockInv' /\ pc' \in [Threads -> Places] /\ lock' \in Seq(Threads)
        /\ \A i, j \in DOMAIN lock' : lock'[i] = lock'[j] => i = j
    BY <1>0, <1>5, EnterKeepsLock DEF GiveUp, Asking, Holding
  <2>2. faults' \in 0 .. MaxFault
    BY <1>5, ReportsAre, AnswerTypes DEF GiveUp
  <2> QED BY <1>5, <2>1, <2>2 DEF GiveUp, TypeOK
<1>6. CASE PowerDown(n)
  <2>1. /\ LockInv' /\ pc' \in [Threads -> Places] /\ lock' \in Seq(Threads)
        /\ \A i, j \in DOMAIN lock' : lock'[i] = lock'[j] => i = j
    BY <1>0, <1>6, PlacesAre, LeaveKeepsLock DEF PowerDown, Leave
  <2>2. torn => out # <<>> /\ Head(out) \in Reports
    BY HeadTailProperties DEF ModemInv, TypeOK
  <2>3. out' \in Seq(Reports)
    BY <1>6, <2>2, EmptySeq DEF PowerDown
  <2>4. modem' \in [Socks -> [who : Links \cup {NoLink}, st : {"idle", "opening", "open"}]]
    BY <1>6 DEF PowerDown, Idle
  <2> QED BY <1>0, <1>6, <2>1, <2>3, <2>4 DEF PowerDown, Leave, Mishap, TypeOK
<1>7. CASE PowerUp(n)
  <2>1. /\ LockInv' /\ pc' \in [Threads -> Places] /\ lock' \in Seq(Threads)
        /\ \A i, j \in DOMAIN lock' : lock'[i] = lock'[j] => i = j
    BY <1>0, <1>7, EnterKeepsLock DEF PowerUp, Asking, Holding
  <2> QED BY <1>7, <2>1 DEF PowerUp, TypeOK
<1>8. CASE NetInit(n)
  <2>1. /\ LockInv' /\ pc' \in [Threads -> Places] /\ lock' \in Seq(Threads)
        /\ \A i, j \in DOMAIN lock' : lock'[i] = lock'[j] => i = j
    BY <1>0, <1>8, PlacesAre, LeaveKeepsLock DEF NetInit, Leave
  <2> QED BY <1>0, <1>8, <2>1 DEF NetInit, Leave, Released, TypeOK
<1> QED BY <1>1, <1>2, <1>3, <1>4, <1>5, <1>6, <1>7, <1>8

\* The calls with a socket number.
LEMMA CallTypeLock ==
    ASSUME TypeOK, LockInv, PlaceInv, NEW t \in Threads, CallStep(t)
    PROVE  TypeOK' /\ LockInv'
<1> USE DEF sockVars, evtVars, modVars, cntVars
<1>0. /\ NoSock \in Socks \cup {NoSock}
      /\ LinkOf[t] \in Links /\ fd[LinkOf[t]] \in Socks \cup {NoSock}
  BY GprsAssumption DEF TypeOK
<1>1. CASE Drop(t)
  <2>1. /\ LockInv' /\ pc' \in [Threads -> Places] /\ lock' \in Seq(Threads)
        /\ \A i, j \in DOMAIN lock' : lock'[i] = lock'[j] => i = j
    BY <1>1, EnterKeepsLock DEF Drop, Asking, Holding
  <2>2. faults' \in 0 .. MaxFault
    BY <1>1, ReportsAre, AnswerTypes DEF Drop
  <2> QED BY <1>0, <1>1, <2>1, <2>2 DEF Drop, Mishap, TypeOK
<1>2. CASE Close(t)
  <2>1. LockInv' /\ pc' \in [Threads -> Places]
    BY <1>2, PlacesAre, MoveKeepsLock DEF Close, Asking, Holding
  <2>2. /\ ans' = {} /\ out' \in Seq(Reports) /\ faults' \in 0 .. MaxFault
        /\ modem' \in [Socks -> [who : Links \cup {NoLink}, st : {"idle", "opening", "open"}]]
    BY <1>2, SendCloseTypes DEF Close, TypeOK
  <2> QED BY <1>2, <2>1, <2>2 DEF Close, TypeOK
<1>3. CASE Closed(t)
  <2>1. /\ LockInv' /\ pc' \in [Threads -> Places] /\ lock' \in Seq(Threads)
        /\ \A i, j \in DOMAIN lock' : lock'[i] = lock'[j] => i = j
    BY <1>3, PlacesAre, LeaveKeepsLock DEF Closed, Leave, LockInv, Holding
  <2>2. faults' \in 0 .. MaxFault /\ mishaps' \subseteq {"late", "torn", "nomem", "cycle", "drop"}
    BY <1>3, GivesUpTypes DEF Closed, CloseReturns, TypeOK
  <2> QED BY <1>0, <1>3, <2>1, <2>2 DEF Closed, Leave, Released, TypeOK
<1>4. CASE Send(t)
  <2>1. /\ LockInv' /\ pc' \in [Threads -> Places] /\ lock' \in Seq(Threads)
        /\ \A i, j \in DOMAIN lock' : lock'[i] = lock'[j] => i = j
    BY <1>4, EnterKeepsLock DEF Send, Asking, Holding
  <2> QED BY <1>0, <1>4, <2>1 DEF Send, TypeOK
<1>5. CASE SendCheck(t)
  <2>1. CASE ans' = {} /\ Goto(t, "sending") /\ UNCHANGED <<lock, arg>>
    <3>1. LockInv' /\ pc' \in [Threads -> Places]
      BY <1>5, <2>1, PlacesAre, MoveKeepsLock DEF SendCheck, Asking, Holding
    <3> QED BY <1>5, <2>1, <3>1 DEF SendCheck, TypeOK
  <2>2. CASE Goto(t, "work") /\ Leave(t)
    <3>1. /\ LockInv' /\ pc' \in [Threads -> Places] /\ lock' \in Seq(Threads)
          /\ \A i, j \in DOMAIN lock' : lock'[i] = lock'[j] => i = j
      BY <1>5, <2>2, PlacesAre, LeaveKeepsLock DEF SendCheck, Leave
    <3> QED BY <1>0, <1>5, <2>2, <3>1 DEF SendCheck, Leave, TypeOK
  <2> QED BY <1>5, <2>1, <2>2 DEF SendCheck
<1>6. CASE SendDone(t)
  <2>1. /\ LockInv' /\ pc' \in [Threads -> Places] /\ lock' \in Seq(Threads)
        /\ \A i, j \in DOMAIN lock' : lock'[i] = lock'[j] => i = j
    BY <1>6, PlacesAre, LeaveKeepsLock DEF SendDone, Leave, LockInv, Holding
  <2> QED BY <1>0, <1>6, <2>1 DEF SendDone, Leave, TypeOK
<1> QED BY <1>1, <1>2, <1>3, <1>4, <1>5, <1>6 DEF CallStep

\* The steps of the modem, of the parser and of time leave the mutex alone.
LEMMA ModemTypes ==
    ASSUME TypeOK, ModemInv, NEW s \in Socks, ConnectDone(s) \/ PeerCloses(s) \/ DataIn(s)
    PROVE  TypeOK'
<1> DEFINE M == [who : Links \cup {NoLink}, st : {"idle", "opening", "open"}]
<1> USE DEF sockVars, evtVars, modVars, cntVars
<1>1. modem \in [Socks -> M] /\ modem[s] \in M /\ Idle \in M
  BY DEF TypeOK, Idle
<1>2. [modem[s] EXCEPT !.st = "open"] \in M
  BY <1>1
<1> HIDE DEF M
<1>3. CASE ConnectDone(s)
  <2>1. modem' = [modem EXCEPT ![s] = [modem[s] EXCEPT !.st = "open"]]
    BY <1>3 DEF ConnectDone
  <2>2. modem' \in [Socks -> M]
    BY <1>1, <1>2, <2>1
  <2>3. out' \in Seq(Reports)
    BY <1>3, ReportsAre, AnswerTypes DEF ConnectDone
  <2> QED BY <1>3, <2>2, <2>3 DEF ConnectDone, TypeOK, M
<1>4. CASE PeerCloses(s)
  <2>1. modem' \in [Socks -> M]
    BY <1>1, <1>4 DEF PeerCloses
  <2> QED BY <1>4, <2>1 DEF PeerCloses, TypeOK, M
<1>5. CASE DataIn(s)
  <2>1. modem[s].who \in Links
    BY <1>1, <1>5 DEF DataIn, ModemInv, M
  <2>2. out' \in Seq(Reports)
    BY <1>5, <2>1, ReportsAre, AnswerTypes DEF DataIn
  <2> QED BY <1>5, <2>2 DEF DataIn, TypeOK
<1> QED BY <1>3, <1>4, <1>5

\* What has been sent loses its first report.
LEMMA TailTypes ==
    ASSUME TypeOK, out # <<>>
    PROVE  /\ Tail(out) \in Seq(Reports) /\ Report \in Reports /\ Report = out[1]
           /\ 1 \in DOMAIN out
           /\ \A i \in DOMAIN Tail(out) : /\ i \in Nat \ {0} /\ i + 1 \in DOMAIN out
                                          /\ Tail(out)[i] = out[i + 1]
<1>1. out \in Seq(Reports)
  BY DEF TypeOK
<1>2. /\ Tail(out) \in Seq(Reports) /\ Head(out) \in Reports /\ Head(out) = out[1]
      /\ Len(out) \in Nat \ {0} /\ Len(Tail(out)) = Len(out) - 1
      /\ \A i \in 1 .. Len(out) - 1 : Tail(out)[i] = out[i + 1]
  BY <1>1, HeadTailProperties, EmptySeq, LenProperties
<1>3. DOMAIN out = 1 .. Len(out) /\ DOMAIN Tail(out) = 1 .. Len(out) - 1
  BY <1>1, <1>2, LenProperties
<1>4. \A i \in 1 .. Len(out) - 1 : i \in Nat \ {0} /\ i + 1 \in 1 .. Len(out)
  BY <1>2
<1> QED BY <1>2, <1>3, <1>4 DEF Report

\* The report at the head of what was sent is taken.
LEMMA ParseTypes ==
    ASSUME TypeOK, ModemInv, Parse
    PROVE  TypeOK'
<1> USE DEF sockVars, evtVars, modVars, cntVars
<1>0. out # <<>>
  BY DEF Parse, ParseCode, ParseConnect, ParseClose, StatClear, StatFill, ParseData, ModemInv
<1>1. Tail(out) \in Seq(Reports) /\ Report \in Reports
  BY <1>0, TailTypes
<1>2. CASE ParseCode
  BY <1>1, <1>2 DEF ParseCode, TypeOK
<1>3. CASE ParseConnect
  <2>1. Report.sock \in Socks
    BY <1>1, <1>3, ReportsAre DEF ParseConnect
  <2> QED BY <1>1, <1>3, <2>1 DEF ParseConnect, TypeOK
<1>4. CASE ParseClose
  <2>1. Report.sock \in Socks
    BY <1>1, <1>4, ReportsAre DEF ParseClose
  <2> QED BY <1>1, <1>4, <2>1 DEF ParseClose, TypeOK
<1>5. CASE StatClear
  BY <1>5 DEF StatClear, TypeOK
<1>6. CASE StatFill
  BY <1>1, <1>6 DEF StatFill, TypeOK
<1>7. CASE ParseData
  BY <1>1, <1>7 DEF ParseData, TypeOK
<1> QED BY <1>2, <1>3, <1>4, <1>5, <1>6, <1>7 DEF Parse

\* The types and the mutex, for every step.
LEMMA StepTypeLock ==
    ASSUME TypeOK, LockInv, PlaceInv, ModemInv, CreateInv, Next
    PROVE  TypeOK' /\ LockInv'
<1>1. ASSUME NEW n \in Links, TaskStep(n) PROVE TypeOK' /\ LockInv'
  BY <1>1, OpenTypeLock, LoopTypeLock DEF TaskStep
<1>2. ASSUME NEW t \in Threads, CallStep(t) PROVE TypeOK' /\ LockInv'
  BY <1>2, CallTypeLock
<1>3. CASE ModemStep
  <2>1. TypeOK'
    BY <1>3, ModemTypes DEF ModemStep
  <2>2. pc' = pc /\ lock' = lock
    BY <1>3 DEF ModemStep, ConnectDone, PeerCloses, DataIn
  <2> QED BY <2>1, <2>2 DEF LockInv, Owns
<1>4. CASE Parse
  <2>1. TypeOK'
    BY <1>4, ParseTypes
  <2>2. pc' = pc /\ lock' = lock
    BY <1>4 DEF Parse, ParseCode, ParseConnect, ParseClose, StatClear, StatFill, ParseData
  <2> QED BY <2>1, <2>2 DEF LockInv, Owns
<1>5. CASE Elapse
  BY <1>5 DEF Elapse, TypeOK, LockInv, Owns, sockVars, evtVars, modVars, cntVars
<1> QED BY <1>1, <1>2, <1>3, <1>4, <1>5 DEF Next

-------------------------------------------------------------------------------
(* Where the threads are, what the modem has opened, what a link has.       *)

LEMMA StepPlace ==
    ASSUME TypeOK, PlaceInv, Next
    PROVE  PlaceInv'
<1> USE GprsAssumption DEF Goto, Threads, TypeOK, PlaceInv
<1>1. ASSUME NEW n \in Links, TaskStep(n) PROVE PlaceInv'
  <2>1. \E p \in Places \ {"work", "send", "sending"} : Goto(n, p)
    BY <1>1 DEF TaskStep, Start, Register, Create, CreateClosed, Open, Opened, Connected,
         ConnectTimeout, Query, SendQuery, QueryDone, Check, GiveUp, PowerDown, PowerUp,
         NetInit, Places
  <2> QED BY <2>1
<1>2. ASSUME NEW t \in Threads, CallStep(t) PROVE PlaceInv'
  <2>1. CASE Drop(t) \/ Close(t) \/ Closed(t)
    BY <2>1 DEF Drop, Close, Closed
  <2>2. CASE Send(t) \/ SendCheck(t) \/ SendDone(t)
    <3>1. pc[t] \in {"work", "send", "sending"} /\ t \in Senders
      BY <2>2 DEF Send, SendCheck, SendDone
    <3>2. Goto(t, "send") \/ Goto(t, "sending") \/ Goto(t, "work")
      BY <2>2 DEF Send, SendCheck, SendDone
    <3>3. t \notin Links \cup Workers /\ \A x \in Threads \ {t} : pc'[x] = pc[x]
      BY <3>1, <3>2
    <3>4. pc'[t] \in {"work", "send", "sending"}
      BY <3>2
    <3> QED BY <3>3, <3>4
  <2> QED BY <1>2, <2>1, <2>2 DEF CallStep
<1>3. CASE ModemStep \/ Parse \/ Elapse
  <2>1. pc' = pc
    BY <1>3 DEF ModemStep, ConnectDone, PeerCloses, DataIn, Elapse, Parse, ParseCode,
         ParseConnect, ParseClose, StatClear, StatFill, ParseData
  <2> QED BY <2>1
<1> QED BY <1>1, <1>2, <1>3 DEF Next

\* What is sent stands behind what was sent before.
LEMMA AppendTypes ==
    ASSUME TypeOK, NEW r \in Reports
    PROVE  /\ Append(out, r) # <<>>
           /\ out # <<>> => Head(Append(out, r)) = Head(out)
           /\ Len(out) \in Nat /\ DOMAIN Append(out, r) = DOMAIN out \cup {Len(out) + 1}
           /\ Append(out, r)[Len(out) + 1] = r
           /\ \A i \in DOMAIN out : i \in Nat /\ i < Len(out) + 1 /\ Append(out, r)[i] = out[i]
<1>1. out \in Seq(Reports)
  BY DEF TypeOK
<1>2. /\ Append(out, r) # <<>> /\ Len(Append(out, r)) = Len(out) + 1 /\ Len(out) \in Nat
      /\ Append(out, r) \in Seq(Reports)
      /\ \A i \in 1 .. Len(out) : Append(out, r)[i] = out[i]
      /\ Append(out, r)[Len(out) + 1] = r
  BY <1>1, AppendProperties, LenProperties
<1>3. DOMAIN out = 1 .. Len(out) /\ DOMAIN Append(out, r) = 1 .. Len(out) + 1
  BY <1>1, <1>2, LenProperties
<1>4. out # <<>> => Head(Append(out, r)) = Head(out)
  BY <1>1, HeadTailAppend
<1> QED BY <1>2, <1>3, <1>4

LEMMA StepModemInv ==
    ASSUME TypeOK, ModemInv, CreateInv, PlaceInv, Next
    PROVE  ModemInv'
<1> DEFINE WhoInv == \A s \in Socks : modem[s].who = NoLink <=> modem[s].st = "idle"
           TornInv == torn => out # <<>> /\ Head(out).kind = "stat"
<1>1. (WhoInv /\ TornInv) <=> ModemInv
  BY DEF ModemInv
<1>2. (WhoInv /\ TornInv)' <=> ModemInv'
  BY DEF ModemInv
<1>3. WhoInv'
  <2> DEFINE M == [who : Links \cup {NoLink}, st : {"idle", "opening", "open"}]
  <2>1. modem \in [Socks -> M] /\ Idle.who = NoLink /\ Idle.st = "idle"
    BY DEF TypeOK, Idle
  <2>2. ASSUME NEW s \in Socks, modem' = modem \/ modem' = [modem EXCEPT ![s] = Idle]
        PROVE  WhoInv'
    BY <1>1, <2>1, <2>2
  <2>3. ASSUME modem' = modem PROVE WhoInv'
    BY <1>1, <2>3
  <2>4. ASSUME NEW s \in Socks \cup {NoSock}, SendClose(s) PROVE WhoInv'
    BY <2>2, <2>3, <2>4, SendCloseTypes
  <2>5. ASSUME NEW n \in Links, Open(n) PROVE WhoInv'
    <3>1. CASE modem' = [modem EXCEPT ![arg[n]] = [who |-> n, st |-> "opening"]]
      BY <1>1, <2>1, <3>1, GprsAssumption
    <3> QED BY <2>3, <2>5, <3>1 DEF Open
  <2>6. ASSUME NEW n \in Links, PowerDown(n) PROVE WhoInv'
    BY <2>1, <2>6 DEF PowerDown
  <2>7. ASSUME NEW n \in Links, TaskStep(n) PROVE WhoInv'
    <3>1. CASE Create(n)
      BY <2>3, <2>4, <3>1 DEF Create
    <3>2. modem' = modem \/ Create(n) \/ Open(n) \/ PowerDown(n)
      BY <2>7 DEF TaskStep, Start, Register, CreateClosed, Opened, Connected, ConnectTimeout,
           Query, SendQuery, QueryDone, Check, GiveUp, PowerUp, NetInit, modVars
    <3> QED BY <2>3, <2>5, <2>6, <3>1, <3>2
  <2>8. ASSUME NEW t \in Threads, CallStep(t) PROVE WhoInv'
    <3>1. CASE Close(t)
      BY <2>4, <3>1 DEF Close, TypeOK
    <3>2. modem' = modem \/ Close(t)
      BY <2>8 DEF CallStep, Drop, Closed, Send, SendCheck, SendDone, modVars
    <3> QED BY <2>3, <3>1, <3>2
  <2>9. CASE ModemStep
    <3>1. ASSUME NEW s \in Socks, ConnectDone(s) PROVE WhoInv'
      <4>1. modem[s].who # NoLink /\ modem[s] \in M
        BY <1>1, <2>1, <3>1 DEF ConnectDone
      <4>2. /\ [modem[s] EXCEPT !.st = "open"].who # NoLink
            /\ [modem[s] EXCEPT !.st = "open"].st # "idle"
        BY <4>1
      <4>3. modem' = [modem EXCEPT ![s] = [modem[s] EXCEPT !.st = "open"]]
        BY <3>1 DEF ConnectDone
      <4> HIDE DEF M
      <4> QED BY <1>1, <2>1, <4>2, <4>3
    <3> QED BY <2>2, <2>3, <2>9, <3>1 DEF ModemStep, PeerCloses, DataIn
  <2>10. CASE Parse \/ Elapse
    <3>1. modem' = modem
      BY <2>10 DEF Parse, ParseCode, ParseConnect, ParseClose, StatClear, StatFill, ParseData,
           Elapse, modVars
    <3> QED BY <2>3, <3>1
  <2> QED BY <2>7, <2>8, <2>9, <2>10 DEF Next
<1>4. TornInv'
  <2>1. ASSUME torn' = torn, out' = out \/ \E r \in Reports : out' = Append(out, r)
        PROVE  TornInv'
    BY <1>1, <2>1, AppendTypes
  <2>2. ASSUME NEW s \in Socks \cup {NoSock}, SendClose(s), torn' = torn PROVE TornInv'
    BY <2>1, <2>2, ReportsAre DEF SendClose, Answered, Unanswered
  <2>3. ASSUME NEW n \in Links, TaskStep(n) PROVE TornInv'
    <3>1. CASE Create(n)
      BY <2>1, <2>2, <3>1 DEF Create
    <3>2. CASE Open(n)
      BY <2>1, <3>2, ReportsAre DEF Open, Answered, Unanswered
    <3>3. CASE SendQuery(n)
      BY <2>1, <3>3, ReportsAre DEF SendQuery, Answered, Unanswered
    <3>4. CASE PowerDown(n)
      <4>1. torn => <<Head(out)>> # <<>> /\ Head(<<Head(out)>>) = Head(out)
        BY HeadTailProperties, EmptySeq
      <4> QED BY <1>1, <3>4, <4>1 DEF PowerDown
    <3>5. torn' = torn
      BY <2>3 DEF TaskStep, Start, Register, Create, CreateClosed, Open, Opened, Connected,
           ConnectTimeout, Query, SendQuery, QueryDone, Check, GiveUp, PowerDown, PowerUp,
           NetInit, evtVars
    <3>6. out' = out \/ Create(n) \/ Open(n) \/ SendQuery(n) \/ PowerDown(n)
      BY <2>3 DEF TaskStep, Start, Register, CreateClosed, Opened, Connected, ConnectTimeout,
           Query, QueryDone, Check, GiveUp, PowerUp, NetInit, modVars
    <3> QED BY <2>1, <3>1, <3>2, <3>3, <3>4, <3>5, <3>6
  <2>4. ASSUME NEW t \in Threads, CallStep(t) PROVE TornInv'
    <3>1. CASE Close(t)
      BY <2>2, <3>1 DEF Close, TypeOK
    <3>2. torn' = torn /\ (out' = out \/ Close(t))
      BY <2>4 DEF CallStep, Drop, Close, Closed, Send, SendCheck, SendDone, modVars, evtVars
    <3> QED BY <2>1, <3>1, <3>2
  <2>5. CASE ModemStep
    <3>1. ASSUME NEW s \in Socks, DataIn(s) PROVE TornInv'
      <4>1. modem[s].who \in Links
        BY <3>1 DEF DataIn, ModemInv, TypeOK
      <4> QED BY <2>1, <3>1, <4>1, ReportsAre DEF DataIn, evtVars
    <3> QED BY <2>1, <2>5, <3>1, ReportsAre DEF ModemStep, ConnectDone, PeerCloses, evtVars
  <2>6. CASE Parse
    <3>1. CASE StatClear
      BY <3>1 DEF StatClear, Report, modVars
    <3>2. CASE StatFill
      BY <3>2 DEF StatFill
    <3>3. CASE ParseCode \/ ParseConnect \/ ParseClose \/ ParseData
      <4>1. ~torn /\ torn' = torn
        BY <1>1, <3>3 DEF ParseCode, ParseConnect, ParseClose, ParseData, Report, evtVars
      <4> QED BY <4>1
    <3> QED BY <2>6, <3>1, <3>2, <3>3 DEF Parse
  <2>7. CASE Elapse
    BY <2>1, <2>7 DEF Elapse, evtVars, modVars
  <2> QED BY <2>3, <2>4, <2>5, <2>6, <2>7 DEF Next
<1> QED BY <1>2, <1>3, <1>4

\* The socket a link looks for is free, and it has no other.
LEMMA StepCreateInv ==
    ASSUME TypeOK, LockInv, PlaceInv, CreateInv, Next
    PROVE  CreateInv'
<1> USE DEF CreateInv, Creating
<1>1. /\ Links \subseteq Threads /\ NoSock \notin Socks
      /\ fd \in [Links -> Socks \cup {NoSock}] /\ pc \in [Threads -> Places]
      /\ arg \in [Threads -> Socks \cup {NoSock}] /\ used \in [Socks -> BOOLEAN]
  BY GprsAssumption DEF TypeOK, Threads
<1>2. ASSUME NEW n \in Links,
             \/ Start(n) \/ Register(n) \/ Create(n) \/ CreateClosed(n)
             \/ Open(n) \/ Opened(n) \/ ConnectTimeout(n)
      PROVE  CreateInv'
  <2>1. CASE Start(n)
    BY <1>1, <2>1 DEF Start, Goto, sockVars
  <2>2. CASE Register(n)
    BY <1>1, <2>2 DEF Register, Goto, sockVars
  <2>3. CASE Create(n)
    <3>1. fd' = fd /\ used' = used /\ pc[n] = "create"
      BY <2>3 DEF Create, sockVars
    <3>2. CASE arg' = [arg EXCEPT ![n] = NoSock] /\ Goto(n, "idle")
      BY <1>1, <3>1, <3>2 DEF Goto
    <3>3. ASSUME NEW s \in Socks, Free(s), arg' = [arg EXCEPT ![n] = s], Goto(n, "cclose")
          PROVE  CreateInv'
      BY <1>1, <3>1, <3>3 DEF Goto, Free
    <3> QED BY <2>3, <3>2, <3>3 DEF Create, Leave
  <2>4. CASE CreateClosed(n)
    BY <1>1, <2>4 DEF CreateClosed, Released, Goto
  <2>5. CASE Open(n)
    BY <1>1, <2>5 DEF Open, Leave, Goto, sockVars
  <2>6. CASE Opened(n)
    BY <1>1, <2>6 DEF Opened, Leave, Goto
  <2>7. CASE ConnectTimeout(n)
    BY <1>1, <2>7 DEF ConnectTimeout, Leave, Goto, sockVars
  <2> QED BY <1>2, <2>1, <2>2, <2>3, <2>4, <2>5, <2>6, <2>7
<1>3. ASSUME NEW n \in Links, Connected(n) PROVE CreateInv'
  \* Nobody else is that far.
  <2>1. \A m \in Links \ {n} : pc[m] \notin Holding
    BY <1>1, <1>3 DEF Connected, LockInv, Owns, Holding
  <2>2. \A m \in Links \ {n} : pc[m] \notin Creating \ {"create"} /\ pc'[m] = pc[m]
    BY <1>1, <1>3, <2>1 DEF Holding, Connected, Goto
  <2>3. pc'[n] = "loop" /\ fd' = [fd EXCEPT ![n] = arg[n]]
    BY <1>1, <1>3 DEF Connected, Goto
  <2> QED BY <1>1, <2>2, <2>3
<1>4. ASSUME NEW n \in Links,
             \/ Query(n) \/ SendQuery(n) \/ QueryDone(n) \/ Check(n)
             \/ GiveUp(n) \/ PowerDown(n) \/ PowerUp(n) \/ NetInit(n)
      PROVE  CreateInv'
  <2>1. fd' = fd /\ \A s \in Socks : used'[s] => used[s]
    BY <1>1, <1>4 DEF Query, SendQuery, QueryDone, Check, GiveUp, PowerDown, PowerUp, NetInit,
         Released, sockVars
  <2>2. \E p \in {"query", "stat", "check", "loop", "close", "down", "off", "init", "start"} :
           Goto(n, p)
    BY <1>4 DEF Query, SendQuery, QueryDone, Check, GiveUp, PowerDown, PowerUp, NetInit
  <2>3. \A m \in Links \ {n} : arg'[m] = arg[m]
    BY <1>1, <1>4 DEF Query, SendQuery, QueryDone, Check, GiveUp, PowerDown, PowerUp, NetInit,
         Leave
  <2>4. pc'[n] \notin {"idle"} \cup Creating /\ \A m \in Links \ {n} : pc'[m] = pc[m]
    BY <1>1, <2>2 DEF Goto
  <2> QED BY <1>1, <2>1, <2>3, <2>4
<1>5. ASSUME NEW t \in Threads, CallStep(t) PROVE CreateInv'
  <2>0. LinkOf[t] \in Links /\ (t \in Links => LinkOf[t] = t)
    BY GprsAssumption
  <2>1. CASE Closed(t)
    <3>1. /\ fd' = [fd EXCEPT ![LinkOf[t]] = NoSock]
          /\ (Goto(t, "idle") /\ t \in Links) \/ Goto(t, "work")
          /\ arg' = [arg EXCEPT ![t] = NoSock] /\ \A s \in Socks : used'[s] => used[s]
      BY <1>1, <2>1 DEF Closed, Leave, Released
    <3> QED BY <1>1, <2>0, <3>1 DEF Goto
  <2>2. CASE Drop(t) \/ Close(t) \/ Send(t) \/ SendCheck(t) \/ SendDone(t)
    <3>1. fd' = fd /\ used' = used
      BY <2>2 DEF Drop, Close, Send, SendCheck, SendDone, sockVars
    <3>2. \E p \in {"close", "closewait", "send", "sending", "work"} : Goto(t, p)
      BY <2>2 DEF Drop, Close, Send, SendCheck, SendDone
    <3>3. \A m \in Threads \ {t} : arg'[m] = arg[m]
      BY <1>1, <2>2 DEF Drop, Close, Send, SendCheck, SendDone, Leave
    <3> QED BY <1>1, <3>1, <3>2, <3>3 DEF Goto
  <2> QED BY <1>5, <2>1, <2>2 DEF CallStep
<1>6. CASE ModemStep \/ Parse \/ Elapse
  <2>1. UNCHANGED <<fd, pc, arg, used>>
    BY <1>6 DEF ModemStep, ConnectDone, PeerCloses, DataIn, Parse, ParseCode, ParseConnect,
         ParseClose, StatClear, StatFill, ParseData, Elapse, sockVars
  <2> QED BY <2>1
<1> QED BY <1>2, <1>3, <1>4, <1>5, <1>6 DEF Next, TaskStep

\* The holder of a socket that is allocated remembers it.
LEMMA StepHolderInv ==
    ASSUME TypeOK, PlaceInv, CreateInv, CloseInv, HolderInv, Next
    PROVE  HolderInv'
<1> USE DEF HolderInv
<1>1. /\ Links \subseteq Threads /\ NoSock \notin Socks
      /\ fd \in [Links -> Socks \cup {NoSock}] /\ pc \in [Threads -> Places]
      /\ arg \in [Threads -> Socks \cup {NoSock}] /\ used \in [Socks -> BOOLEAN]
  BY GprsAssumption DEF TypeOK, Threads
<1>2. ASSUME NEW t \in Threads, NEW p \in Places \ {"start"}, Goto(t, p), UNCHANGED fd,
             \A s \in Socks : used'[s] => used[s]
      PROVE  HolderInv'
  BY <1>1, <1>2 DEF Goto
<1>3. ASSUME NEW n \in Links, TaskStep(n) PROVE HolderInv'
  <2>1. CASE Start(n)
    BY <1>1, <2>1 DEF Start, Goto, sockVars
  <2>2. CASE Connected(n)
    <3>1. pc[n] = "conn" /\ fd[n] = NoSock /\ arg[n] \in Socks
      BY <2>2 DEF Connected, CreateInv, Creating
    <3>2. fd' = [fd EXCEPT ![n] = arg[n]] /\ Goto(n, "loop")
      BY <2>2 DEF Connected
    <3>3. \A s \in Socks : used'[s] => used[s] \/ s = arg[n]
      BY <1>1, <2>2, <3>1 DEF Connected
    <3> QED BY <1>1, <3>1, <3>2, <3>3 DEF Goto
  <2>3. CASE NetInit(n)
    BY <1>1, <2>3 DEF NetInit, Released
  <2>4. CASE \/ Register(n) \/ Create(n) \/ CreateClosed(n) \/ Open(n) \/ Opened(n)
             \/ ConnectTimeout(n)
    <3>1. fd' = fd /\ \A s \in Socks : used'[s] => used[s]
      BY <1>1, <2>4 DEF Register, Create, CreateClosed, Open, Opened, ConnectTimeout, Released,
           sockVars
    <3>2. \E p \in Places \ {"start"} : Goto(n, p)
      BY <2>4 DEF Register, Create, CreateClosed, Open, Opened, ConnectTimeout, Places
    <3> QED BY <1>1, <1>2, <3>1, <3>2
  <2>5. CASE \/ Query(n) \/ SendQuery(n) \/ QueryDone(n) \/ Check(n)
             \/ GiveUp(n) \/ PowerDown(n) \/ PowerUp(n)
    <3>1. fd' = fd /\ used' = used
      BY <2>5 DEF Query, SendQuery, QueryDone, Check, GiveUp, PowerDown, PowerUp, sockVars
    <3>2. \E p \in Places \ {"start"} : Goto(n, p)
      BY <2>5 DEF Query, SendQuery, QueryDone, Check, GiveUp, PowerDown, PowerUp, Places
    <3> QED BY <1>1, <1>2, <3>1, <3>2
  <2> QED BY <1>3, <2>1, <2>2, <2>3, <2>4, <2>5 DEF TaskStep
<1>4. ASSUME NEW t \in Threads, CallStep(t) PROVE HolderInv'
  <2>1. CASE Closed(t)
    <3>1. LinkOf[t] \in Links /\ fd[LinkOf[t]] \in {arg[t], NoSock}
      BY <2>1, GprsAssumption DEF Closed, CloseInv, Closing
    <3>2. fd' = [fd EXCEPT ![LinkOf[t]] = NoSock]
      BY <2>1 DEF Closed
    <3>3. \A s \in Socks : used'[s] => used[s] /\ s # arg[t]
      BY <1>1, <2>1 DEF Closed, Released
    <3>4. Goto(t, "idle") \/ Goto(t, "work")
      BY <2>1 DEF Closed
    <3> QED BY <1>1, <3>1, <3>2, <3>3, <3>4 DEF Goto
  <2>2. CASE Drop(t) \/ Close(t) \/ Send(t) \/ SendCheck(t) \/ SendDone(t)
    <3>1. fd' = fd /\ used' = used
      BY <2>2 DEF Drop, Close, Send, SendCheck, SendDone, sockVars
    <3>2. \E p \in Places \ {"start"} : Goto(t, p)
      BY <2>2 DEF Drop, Close, Send, SendCheck, SendDone, Places
    <3> QED BY <1>2, <3>1, <3>2
  <2> QED BY <1>4, <2>1, <2>2 DEF CallStep
<1>5. CASE ModemStep \/ Parse \/ Elapse
  <2>1. UNCHANGED <<fd, pc, used>>
    BY <1>5 DEF ModemStep, ConnectDone, PeerCloses, DataIn, Parse, ParseCode, ParseConnect,
         ParseClose, StatClear, StatFill, ParseData, Elapse, sockVars
  <2> QED BY <2>1
<1> QED BY <1>3, <1>4, <1>5 DEF Next

\* A call that closes stands in the queue before the next socket of its link.
LEMMA StepCloseInv ==
    ASSUME TypeOK, LockInv, PlaceInv, CreateInv, CloseInv, Next
    PROVE  CloseInv'
<1> DEFINE Before == \A t \in Threads : pc[t] \in Closing =>
               \A i, j \in DOMAIN lock :
                  lock[i] = t /\ lock[j] = LinkOf[t] /\ t # LinkOf[t]
                     /\ pc[LinkOf[t]] \in Creating => i < j
           Number == \A t \in Threads : pc[t] \in Closing => fd[LinkOf[t]] \in {arg[t], NoSock}
<1>0. (CloseInv <=> Before /\ Number) /\ (CloseInv' <=> Before' /\ Number')
  BY DEF CloseInv
<1>1. /\ Links \subseteq Threads /\ NoSock \notin Socks
      /\ fd \in [Links -> Socks \cup {NoSock}] /\ pc \in [Threads -> Places]
      /\ arg \in [Threads -> Socks \cup {NoSock}] /\ lock \in Seq(Threads)
      /\ \A i \in DOMAIN lock : lock[i] \in Threads
      /\ \A t \in Threads : LinkOf[t] \in Links /\ (t \in Links => LinkOf[t] = t)
  BY GprsAssumption DEF TypeOK, Threads
\* The owner goes on, or a thread moves that has nothing to do with the mutex.
<1>2. ASSUME NEW t \in Threads, UNCHANGED lock, NEW p \in Places, Goto(t, p),
             p \in Closing => pc[t] \in Closing,
             p \in Creating => pc[t] \in Creating \/ pc[t] \notin Asking \cup Holding
      PROVE  Before'
  <2>1. pc'[t] = p /\ \A x \in Threads \ {t} : pc'[x] = pc[x]
    BY <1>1, <1>2 DEF Goto
  <2>2. pc[t] \notin Asking \cup Holding => \A i \in DOMAIN lock : lock[i] # t
    BY DEF LockInv
  <2> QED BY <1>0, <1>1, <1>2, <2>1, <2>2
\* The owner leaves.
<1>3. ASSUME NEW t \in Threads, Owns(t), lock' = Tail(lock),
             NEW p \in Places \ (Asking \cup Holding), Goto(t, p)
      PROVE  Before'
  <2>1. pc'[t] = p /\ \A x \in Threads \ {t} : pc'[x] = pc[x]
    BY <1>1, <1>3 DEF Goto
  <2>2. \A i \in DOMAIN lock' : /\ i + 1 \in DOMAIN lock /\ i \in Nat
                                /\ lock'[i] = lock[i + 1] /\ lock'[i] # t
    BY <1>3, LeaveKeepsLock
  <2> SUFFICES ASSUME NEW x \in Threads, pc'[x] \in Closing,
                      NEW i \in DOMAIN lock', NEW j \in DOMAIN lock',
                      lock'[i] = x, lock'[j] = LinkOf[x], x # LinkOf[x],
                      pc'[LinkOf[x]] \in Creating
               PROVE  i < j
    OBVIOUS
  <2>3. x # t /\ LinkOf[x] # t /\ LinkOf[x] \in Threads
    BY <1>1, <2>2
  <2>4. i + 1 < j + 1
    BY <1>0, <2>1, <2>2, <2>3
  <2> QED BY <2>2, <2>4
\* A thread begins to wait.
<1>4. ASSUME NEW t \in Threads, pc[t] \notin Asking \cup Holding, Enter(t),
             NEW p \in Asking, Goto(t, p),
             p \in Closing => t = LinkOf[t] \/ pc[LinkOf[t]] \notin Creating
      PROVE  Before'
  <2>1. pc'[t] = p /\ \A x \in Threads \ {t} : pc'[x] = pc[x]
    BY <1>1, <1>4 DEF Goto
  <2>2. /\ \A i \in DOMAIN lock' : i \in DOMAIN lock \/ lock'[i] = t
        /\ \A i \in DOMAIN lock : lock'[i] = lock[i]
        /\ \A i \in DOMAIN lock, j \in DOMAIN lock' : lock'[j] = t => i < j
    BY <1>4, EnterKeepsLock
  <2> SUFFICES ASSUME NEW x \in Threads, pc'[x] \in Closing,
                      NEW i \in DOMAIN lock', NEW j \in DOMAIN lock',
                      lock'[i] = x, lock'[j] = LinkOf[x], x # LinkOf[x],
                      pc'[LinkOf[x]] \in Creating
               PROVE  i < j
    OBVIOUS
  <2>3. CASE x = t
    <3>1. pc'[LinkOf[t]] = pc[LinkOf[t]]
      BY <1>1, <2>1, <2>3
    <3> QED BY <1>4, <2>1, <2>3, <3>1
  <2>4. CASE x # t /\ LinkOf[x] = t
    BY <2>2, <2>4
  <2>5. CASE x # t /\ LinkOf[x] # t
    BY <1>0, <1>1, <2>1, <2>2, <2>5
  <2> QED BY <2>3, <2>4, <2>5
<1>5. ASSUME NEW t \in Threads, NEW p \in Places \ Closing, Goto(t, p),
             \A x \in Threads \ {t} : arg'[x] = arg[x],
             \A n \in Links : fd'[n] \in {fd[n], NoSock}
      PROVE  Number'
  BY <1>0, <1>1, <1>5 DEF Goto
<1>6. ASSUME NEW n \in Links,
             \/ Start(n) \/ Register(n) \/ Create(n) \/ CreateClosed(n)
             \/ Open(n) \/ Opened(n) \/ ConnectTimeout(n)
      PROVE  CloseInv'
  <2>1. CASE Start(n)
    <3>1. Before'
      BY <1>1, <1>2, <2>1, PlacesAre DEF Start, Asking, Holding, Creating, Closing
    <3>2. Number'
      BY <1>1, <1>5, <2>1, PlacesAre DEF Start, Closing
    <3> QED BY <1>0, <3>1, <3>2
  <2>2. CASE Register(n)
    <3>1. Before'
      BY <1>1, <1>4, <2>2 DEF Register, Asking, Holding, Closing
    <3>2. Number'
      BY <1>1, <1>5, <2>2, PlacesAre DEF Register, Closing, Asking
    <3> QED BY <1>0, <3>1, <3>2
  <2>3. CASE Create(n) \/ CreateClosed(n) \/ Open(n) \/ Opened(n) \/ ConnectTimeout(n)
    <3>1. pc[n] \in Creating /\ Owns(n)
      BY <1>1, <2>3 DEF Create, CreateClosed, Open, Opened, ConnectTimeout, LockInv, Holding,
                        Creating
    <3>2. \/ UNCHANGED lock /\ \E p \in Places \cap Holding \cap Creating : Goto(n, p)
          \/ Leave(n) /\ Goto(n, "idle")
      BY <2>3 DEF Create, CreateClosed, Open, Opened, ConnectTimeout, Holding, Creating, Places
    <3>3. (\A x \in Threads \ {n} : arg'[x] = arg[x]) /\ fd' = fd
      BY <1>1, <2>3 DEF Create, CreateClosed, Open, Opened, ConnectTimeout, Leave
    <3>4. Before'
      BY <1>1, <1>2, <1>3, <3>1, <3>2, PlacesAre DEF Leave, Creating, Closing
    <3>5. Number'
      BY <1>1, <1>5, <3>2, <3>3, PlacesAre DEF Creating, Closing
    <3> QED BY <1>0, <3>4, <3>5
  <2> QED BY <1>6, <2>1, <2>2, <2>3
\* Nobody closes for a link that owns the mutex to connect.
<1>7. ASSUME NEW n \in Links, Connected(n) PROVE CloseInv'
  <2>1. /\ pc[n] \in Creating /\ Owns(n) /\ Leave(n) /\ Goto(n, "loop")
        /\ fd' = [fd EXCEPT ![n] = arg[n]]
    BY <1>1, <1>7 DEF Connected, LockInv, Holding, Creating
  <2>2. 1 \in DOMAIN lock /\ lock[1] = n /\ \A i \in DOMAIN lock : i \in Nat \ {0}
    BY <1>1, <2>1, HeadTailProperties, EmptySeq, LenProperties DEF Owns
  <2>3. \A t \in Threads \ {n} : LinkOf[t] = n => pc[t] \notin Closing
    <3> SUFFICES ASSUME NEW t \in Threads \ {n}, LinkOf[t] = n, pc[t] \in Closing
                 PROVE  FALSE
      OBVIOUS
    <3>1. pc[t] \in Asking \cup Holding
      BY DEF Closing, Asking, Holding
    <3>2. PICK i \in DOMAIN lock : lock[i] = t
      BY <3>1 DEF LockInv
    <3>3. i < 1
      BY <1>0, <2>1, <2>2, <3>2
    <3> QED BY <2>2, <3>3
  <2>4. Before'
    BY <1>1, <1>3, <2>1, PlacesAre DEF Leave
  <2>5. Number'
    <3>1. pc'[n] = "loop" /\ \A x \in Threads \ {n} : pc'[x] = pc[x] /\ arg'[x] = arg[x]
      BY <1>1, <2>1 DEF Goto, Leave
    <3> QED BY <1>0, <1>1, <2>1, <2>3, <3>1 DEF Closing
  <2> QED BY <1>0, <2>4, <2>5
<1>8. ASSUME NEW n \in Links,
             \/ Query(n) \/ SendQuery(n) \/ QueryDone(n)
             \/ GiveUp(n) \/ PowerDown(n) \/ PowerUp(n) \/ NetInit(n)
      PROVE  CloseInv'
  <2>1. (\A x \in Threads \ {n} : arg'[x] = arg[x]) /\ fd' = fd
    BY <1>1, <1>8 DEF Query, SendQuery, QueryDone, GiveUp, PowerDown, PowerUp, NetInit, Leave
  <2>2. CASE Query(n) \/ GiveUp(n) \/ PowerUp(n)
    <3>1. Enter(n) /\ pc[n] \notin Asking \cup Holding
      BY <2>2 DEF Query, GiveUp, PowerUp, Asking, Holding
    <3>2. \E p \in Asking \ Closing : Goto(n, p)
      BY <2>2 DEF Query, GiveUp, PowerUp, Asking, Closing
    <3> QED BY <1>0, <1>1, <1>4, <1>5, <2>1, <3>1, <3>2, PlacesAre
  <2>3. CASE SendQuery(n)
    <3>1. Goto(n, "stat") /\ UNCHANGED lock
      BY <2>3 DEF SendQuery
    <3> QED BY <1>0, <1>1, <1>2, <1>5, <2>1, <3>1, PlacesAre DEF Closing, Creating, Holding
  <2>4. CASE QueryDone(n) \/ PowerDown(n) \/ NetInit(n)
    <3>1. Owns(n) /\ lock' = Tail(lock)
      BY <1>1, <2>4 DEF QueryDone, PowerDown, NetInit, Leave, LockInv, Holding
    <3>2. \E p \in Places \ (Asking \cup Holding) : Goto(n, p)
      BY <2>4, PlacesAre DEF QueryDone, PowerDown, NetInit
    <3>3. Closing \subseteq Asking \cup Holding
      BY DEF Closing, Asking, Holding
    <3> QED BY <1>0, <1>1, <1>3, <1>5, <2>1, <3>1, <3>2, <3>3
  <2> QED BY <1>8, <2>2, <2>3, <2>4
<1>9. ASSUME NEW n \in Links, Check(n) PROVE CloseInv'
  <2>1. CASE Goto(n, "loop") /\ UNCHANGED <<arg, lock>>
    <3>1. Before'
      BY <1>1, <1>2, <2>1, PlacesAre DEF Closing, Creating
    <3>2. Number'
      BY <1>1, <1>5, <1>9, <2>1, PlacesAre DEF Check, Closing
    <3> QED BY <1>0, <3>1, <3>2
  <2>2. CASE arg' = [arg EXCEPT ![n] = fd[n]] /\ Enter(n) /\ Goto(n, "close")
    <3>1. Before'
      BY <1>1, <1>4, <1>9, <2>2 DEF Check, Asking, Holding
    <3>2. Number'
      BY <1>0, <1>1, <1>9, <2>2 DEF Check, Goto
    <3> QED BY <1>0, <3>1, <3>2
  <2> QED BY <1>9, <2>1, <2>2 DEF Check
<1>10. ASSUME NEW t \in Threads, CallStep(t) PROVE CloseInv'
  <2>1. CASE Drop(t)
    <3>1. /\ arg' = [arg EXCEPT ![t] = fd[LinkOf[t]]] /\ Enter(t) /\ Goto(t, "close")
          /\ fd[LinkOf[t]] # NoSock /\ fd' = fd /\ pc[t] \notin Asking \cup Holding
      BY <2>1 DEF Drop, Asking, Holding
    <3>2. Before'
      BY <1>1, <1>4, <3>1 DEF CreateInv, Asking
    <3>3. Number'
      BY <1>0, <1>1, <3>1 DEF Goto
    <3> QED BY <1>0, <3>2, <3>3
  <2>2. CASE Close(t)
    <3>1. Before'
      BY <1>2, <2>2, PlacesAre DEF Close, Closing, Creating, Holding
    <3>2. Number'
      BY <1>0, <1>1, <2>2 DEF Close, Goto, Closing
    <3> QED BY <1>0, <3>1, <3>2
  <2>3. CASE Closed(t)
    <3>1. /\ Owns(t) /\ lock' = Tail(lock) /\ fd' = [fd EXCEPT ![LinkOf[t]] = NoSock]
          /\ arg' = [arg EXCEPT ![t] = NoSock]
          /\ Goto(t, "idle") \/ Goto(t, "work")
      BY <2>3 DEF Closed, Leave, LockInv, Holding
    <3>2. Before'
      BY <1>3, <3>1, PlacesAre
    <3>3. Number'
      BY <1>1, <1>5, <3>1, PlacesAre DEF Closing
    <3> QED BY <1>0, <3>2, <3>3
  <2>4. CASE Send(t)
    <3>1. Before'
      BY <1>4, <2>4 DEF Send, Asking, Holding, Closing
    <3>2. Number'
      BY <1>1, <1>5, <2>4, PlacesAre DEF Send, Asking, Closing
    <3> QED BY <1>0, <3>1, <3>2
  <2>5. CASE SendCheck(t) \/ SendDone(t)
    <3>1. /\ Owns(t) /\ fd' = fd /\ \A x \in Threads \ {t} : arg'[x] = arg[x]
          /\ \/ UNCHANGED lock /\ Goto(t, "sending")
             \/ lock' = Tail(lock) /\ Goto(t, "work")
      BY <1>1, <2>5 DEF SendCheck, SendDone, Leave, LockInv, Holding
    <3>2. Before'
      BY <1>2, <1>3, <3>1, PlacesAre DEF Closing, Creating, Holding
    <3>3. Number'
      BY <1>5, <3>1, PlacesAre DEF Closing, Holding
    <3> QED BY <1>0, <3>2, <3>3
  <2> QED BY <1>10, <2>1, <2>2, <2>3, <2>4, <2>5 DEF CallStep
<1>11. CASE ModemStep \/ Parse \/ Elapse
  <2>1. UNCHANGED <<fd, pc, arg, lock>>
    BY <1>11 DEF ModemStep, ConnectDone, PeerCloses, DataIn, Parse, ParseCode, ParseConnect,
         ParseClose, StatClear, StatFill, ParseData, Elapse
  <2> QED BY <2>1 DEF CloseInv
<1> QED BY <1>6, <1>7, <1>8, <1>9, <1>10, <1>11 DEF Next, TaskStep

-------------------------------------------------------------------------------
(* What holds whatever goes wrong.                                          *)

LEMMA InitAnyInv == Init => AnyInv
<1> SUFFICES ASSUME Init PROVE AnyInv
  OBVIOUS
<1>1. Idle \in [who : Links \cup {NoLink}, st : {"idle", "opening", "open"}]
  BY DEF Idle
<1>2. TypeOK
  <2>1. <<>> \in Seq(Threads) /\ <<>> \in Seq(Reports) /\ DOMAIN <<>> = {}
    BY EmptySeq
  <2>2. pc \in [Threads -> Places]
    BY PlacesAre DEF Init
  <2>3. /\ fd \in [Links -> Socks \cup {NoSock}] /\ arg \in [Threads -> Socks \cup {NoSock}]
        /\ used \in [Socks -> BOOLEAN] /\ eConn \in [Socks -> {"WAIT", "EXE", "OK"}]
        /\ srv \in [Socks -> {"zero", "wait", "up"}]
    BY DEF Init
  <2>4. modem \in [Socks -> [who : Links \cup {NoLink}, st : {"idle", "opening", "open"}]]
    BY <1>1 DEF Init
  <2>5. lock \in Seq(Threads) /\ (\A i, j \in DOMAIN lock : lock[i] = lock[j] => i = j)
        /\ out \in Seq(Reports)
    BY <2>1 DEF Init
  <2>6. /\ ans = {} /\ torn = FALSE /\ recent = FALSE /\ power = TRUE
        /\ faults \in 0 .. MaxFault /\ mishaps = {}
    BY GprsAssumption DEF Init
  <2> QED BY <2>2, <2>3, <2>4, <2>5, <2>6 DEF TypeOK
<1>3. LockInv /\ PlaceInv /\ CreateInv /\ CloseInv
  <2>1. \A t \in Threads : pc[t] = IF t \in Links THEN "start" ELSE "work"
    BY DEF Init
  <2>2. DOMAIN lock = {}
    BY DEF Init
  <2> QED BY <2>1, <2>2, GprsAssumption
          DEF LockInv, PlaceInv, CreateInv, CloseInv, Asking, Holding, Creating, Closing, Threads
<1>4. ModemInv /\ HolderInv
  BY DEF Init, ModemInv, HolderInv, Idle
<1> QED BY <1>2, <1>3, <1>4 DEF AnyInv

LEMMA StepAnyInv == AnyInv /\ [Next]_vars => AnyInv'
<1> SUFFICES ASSUME AnyInv, [Next]_vars PROVE AnyInv'
  OBVIOUS
<1>1. CASE Next
  BY <1>1, StepTypeLock, StepPlace, StepModemInv, StepCreateInv, StepCloseInv, StepHolderInv
  DEF AnyInv
<1>2. CASE UNCHANGED vars
  BY <1>2 DEF vars, sockVars, evtVars, modVars, cntVars, AnyInv, TypeOK, LockInv, PlaceInv,
              ModemInv, CreateInv, CloseInv, HolderInv, Owns
<1> QED BY <1>1, <1>2

LEMMA AnyInvHolds == Spec => []AnyInv
BY InitAnyInv, StepAnyInv, PTL DEF Spec

\* Every variable keeps its type, and no thread queues twice for gprs_mutex
\* (the code takes it recursively, one thread waits for it once).
THEOREM TypeCorrect == Spec => []TypeOK
<1>1. AnyInv => TypeOK
  BY DEF AnyInv
<1> QED BY <1>1, AnyInvHolds, PTL

\* Only the owner of gprs_mutex is in a call to the modem, and who is in no call
\* has given it back: every return of __nGPRS_SocketCreate, bGPRS_SocketState,
\* bGPRS_SocketClose, nGPRS_SocketSend and of the power cycle, by an error or a
\* timeout too.
THEOREM MutexKept == Spec => []LockInv
<1>1. AnyInv => LockInv
  BY DEF AnyInv
<1> QED BY <1>1, AnyInvHolds, PTL

\* A socket of the modem that prvGetFreeSocket does not give out any more is
\* held by a link, whatever answers were late, whoever dropped a link and
\* whichever link cycled the power: sockets do not leak.
THEOREM SocketsKept == Spec => []NoSocketLost
<1>1. AnyInv => NoSocketLost
  BY DEF AnyInv, HolderInv, NoSocketLost
<1> QED BY <1>1, AnyInvHolds, PTL

-------------------------------------------------------------------------------
(* What a step does as long as nothing has gone wrong.                      *)

\* No answer has been sent that the parser has not taken.
NoAnswer == \A i \in DOMAIN out : out[i].kind \notin Answers

LEMMA MishapsStay ==
    ASSUME Next
    PROVE  mishaps \subseteq mishaps'
<1>1. \A what : Mishap(what) => mishaps \subseteq mishaps'
  BY DEF Mishap
<1>2. GivesUp \/ CloseReturns => mishaps \subseteq mishaps'
  BY <1>1 DEF GivesUp, CloseReturns
<1>3. ASSUME NEW n \in Links, TaskStep(n) PROVE mishaps \subseteq mishaps'
  BY <1>1, <1>2, <1>3 DEF TaskStep, Start, Register, Create, CreateClosed, Open, Opened,
     Connected, ConnectTimeout, Query, SendQuery, QueryDone, Check, GiveUp, PowerDown, PowerUp,
     NetInit, cntVars
<1>4. ASSUME NEW t \in Threads, CallStep(t) PROVE mishaps \subseteq mishaps'
  BY <1>1, <1>2, <1>4 DEF CallStep, Drop, Close, Closed, Send, SendCheck, SendDone, cntVars
<1>5. ModemStep \/ Parse \/ Elapse => mishaps' = mishaps
  BY DEF ModemStep, ConnectDone, PeerCloses, DataIn, Parse, ParseCode, ParseConnect,
     ParseClose, StatClear, StatFill, ParseData, Elapse, cntVars
<1> QED BY <1>3, <1>4, <1>5 DEF Next

\* What has a mishap does not happen.
LEMMA CleanSteps ==
    ASSUME Clean'
    PROVE  /\ GivesUp => out = <<>>
           /\ \A n : ~PowerDown(n) /\ ~Drop(n)
           /\ \A n : Connected(n) => used' = [used EXCEPT ![arg[n]] = TRUE] /\ eConn' = eConn
<1>1. ~Mishap("late") /\ ~Mishap("nomem") /\ ~Mishap("cycle") /\ ~Mishap("drop")
  BY DEF Clean, Without, Mishap
<1> QED BY <1>1 DEF GivesUp, PowerDown, Drop, Connected

LEMMA SendCloseSends ==
    ASSUME NEW s \in Socks \cup {NoSock}, SendClose(s)
    PROVE  /\ ans' = {}
           /\ \/ out' = out
              \/ \E r \in Reports : r.kind \in {"close", "error"} /\ out' = Append(out, r)
<1>1. CASE s \in Socks
  <2>1. /\ [kind |-> "close", sock |-> s] \in Reports /\ [kind |-> "error"] \in Reports
        /\ [kind |-> "close", sock |-> s].kind = "close" /\ [kind |-> "error"].kind = "error"
    BY <1>1, ReportsAre
  <2> QED BY <2>1 DEF SendClose, Answered, Unanswered
<1>2. CASE s \notin Socks
  BY <1>2 DEF SendClose
<1> QED BY <1>1, <1>2

\* The owner of the mutex is the only one in a call to the modem.
LEMMA OwnerAlone ==
    ASSUME LockInv, NEW t \in Threads, Owns(t)
    PROVE  lock # <<>> /\ Head(lock) = t /\ \A x \in Threads \ {t} : pc[x] \notin Holding
BY DEF LockInv, Owns

\* Where only the tasks of the links change anything, they know what they have.
LEMMA StepTaskInv ==
    ASSUME AnyInv, TaskInv, Clean', Next
    PROVE  TaskInv'
<1>1. /\ Links \subseteq Threads /\ Workers \subseteq Threads /\ NoSock \notin Socks
      /\ fd \in [Links -> Socks \cup {NoSock}] /\ pc \in [Threads -> Places]
      /\ arg \in [Threads -> Socks \cup {NoSock}] /\ Links \cap Workers = {}
      /\ \A n \in Links : LinkOf[n] = n
  BY GprsAssumption DEF AnyInv, TypeOK, Threads
<1>2. ASSUME NEW n \in Links, TaskStep(n) PROVE TaskInv'
  <2>0. power' = power
    BY <1>2, CleanSteps DEF TaskStep, Start, Register, Create, CreateClosed, Open, Opened,
       Connected, ConnectTimeout, Query, SendQuery, QueryDone, Check, GiveUp, PowerUp, NetInit,
       TaskInv, modVars
  <2>1. CASE \/ Start(n) \/ Register(n) \/ Create(n) \/ CreateClosed(n) \/ Open(n)
             \/ Opened(n) \/ ConnectTimeout(n)
    <3>1. \A m \in Links : fd'[m] = fd[m] \/ m = n
      BY <1>1, <2>1 DEF Start, Register, Create, CreateClosed, Open, Opened, ConnectTimeout
    <3>2. \A m \in Links \ {n} : arg'[m] = arg[m]
      BY <1>1, <2>1 DEF Start, Register, Create, CreateClosed, Open, Opened, ConnectTimeout, Leave
    <3>3. \E p \in {"idle"} \cup Creating : Goto(n, p)
      BY <2>1 DEF Start, Register, Create, CreateClosed, Open, Opened, ConnectTimeout, Creating
    <3>4. pc'[n] \in {"idle"} \cup Creating /\ \A x \in Threads \ {n} : pc'[x] = pc[x]
      BY <1>1, <3>3 DEF Goto
    <3> QED BY <1>1, <2>0, <3>1, <3>2, <3>4 DEF TaskInv, Creating, Closing
  <2>2. CASE Connected(n)
    <3>1. arg[n] \in Socks
      BY <2>2 DEF Connected, AnyInv, CreateInv, Creating
    <3>2. /\ fd' = [fd EXCEPT ![n] = arg[n]] /\ Goto(n, "loop")
          /\ arg' = [arg EXCEPT ![n] = NoSock]
      BY <2>2 DEF Connected, Leave
    <3> QED BY <1>1, <2>0, <3>1, <3>2 DEF TaskInv, Goto, Closing
  <2>3. CASE Query(n) \/ SendQuery(n) \/ QueryDone(n) \/ GiveUp(n)
    <3>1. /\ fd' = fd /\ (\A m \in Links \ {n} : arg'[m] = arg[m])
          /\ pc[n] \in {"loop", "query", "stat"} \/ Goto(n, "down")
      BY <1>1, <2>3 DEF Query, SendQuery, QueryDone, GiveUp, Leave
    <3>2. \E p \in {"query", "stat", "check", "loop", "down"} : Goto(n, p)
      BY <2>3 DEF Query, SendQuery, QueryDone, GiveUp
    <3>3. /\ pc'[n] \in {"query", "stat", "check", "loop", "down"}
          /\ pc[n] \in {"loop", "query", "stat"} \/ pc'[n] = "down"
          /\ \A x \in Threads \ {n} : pc'[x] = pc[x]
      BY <1>1, <3>1, <3>2 DEF Goto
    <3> QED BY <1>1, <2>0, <3>1, <3>3 DEF TaskInv, Closing
  <2>4. CASE Check(n)
    <3>1. /\ fd' = fd /\ pc[n] \in {"loop", "check"}
          /\ \/ Goto(n, "loop") /\ arg' = arg
             \/ Goto(n, "close") /\ arg' = [arg EXCEPT ![n] = fd[n]]
      BY <2>4 DEF Check
    <3> QED BY <1>1, <2>0, <3>1 DEF TaskInv, Goto, Closing
  <2>5. ~PowerDown(n) /\ ~PowerUp(n) /\ ~NetInit(n)
    BY CleanSteps DEF PowerUp, NetInit, TaskInv
  <2> QED BY <1>2, <2>1, <2>2, <2>3, <2>4, <2>5 DEF TaskStep
<1>3. ASSUME NEW t \in Threads, CallStep(t) PROVE TaskInv'
  <2>0. power' = power /\ ~Drop(t)
    BY <1>3, CleanSteps DEF CallStep, Close, Closed, Send, SendCheck, SendDone, modVars
  <2>1. CASE Close(t) \/ Closed(t)
    <3>1. t \in Links
      BY <2>1 DEF Close, Closed, AnyInv, PlaceInv, TaskInv, Threads
    <3>2. \/ Goto(t, "closewait") /\ UNCHANGED <<fd, arg>> /\ pc[t] = "close"
          \/ Goto(t, "idle") /\ fd' = [fd EXCEPT ![t] = NoSock] /\ arg' = [arg EXCEPT ![t] = NoSock]
      BY <1>1, <2>1, <3>1 DEF Close, Closed, Leave
    <3> QED BY <1>1, <2>0, <3>1, <3>2 DEF TaskInv, Goto, Closing
  <2>2. CASE Send(t) \/ SendCheck(t) \/ SendDone(t)
    <3>1. t \in Senders
      BY <2>2 DEF Send, SendCheck, SendDone, AnyInv, PlaceInv, TaskInv, Threads
    <3>2. t \notin Links \cup Workers
      BY <3>1, GprsAssumption
    <3>3. /\ fd' = fd /\ \A x \in Threads \ {t} : arg'[x] = arg[x] /\ pc'[x] = pc[x]
      BY <1>1, <2>2 DEF Send, SendCheck, SendDone, Leave, Goto
    <3> QED BY <1>1, <2>0, <3>2, <3>3 DEF TaskInv
  <2> QED BY <1>3, <2>0, <2>1, <2>2 DEF CallStep
<1>4. CASE ModemStep \/ Parse \/ Elapse
  <2>1. UNCHANGED <<power, pc, fd, arg>>
    BY <1>4 DEF ModemStep, ConnectDone, PeerCloses, DataIn, Parse, ParseCode, ParseConnect,
       ParseClose, StatClear, StatFill, ParseData, Elapse, modVars
  <2> QED BY <2>1 DEF TaskInv
<1> QED BY <1>2, <1>3, <1>4 DEF Next

\* The only answer that is under way is the one the owner of the mutex waits for.
LEMMA StepAnswerInv ==
    ASSUME AnyInv, AnswerInv, TaskInv, Clean', Next
    PROVE  AnswerInv'
<1>1. /\ Links \subseteq Threads /\ pc \in [Threads -> Places] /\ TypeOK /\ LockInv
      /\ lock \in Seq(Threads)
  BY DEF AnyInv, TypeOK, Threads
<1>2. lock # <<>> => Head(lock) \in Threads /\ Owns(Head(lock))
  BY <1>1, HeadTailProperties, EmptySeq DEF Owns
\* With the answer the mutex may change hands.
<1>3. ASSUME NoAnswer, out' = out PROVE AnswerInv'
  BY <1>3 DEF AnswerInv, NoAnswer
<1>4. ASSUME NEW t \in Threads, Owns(t), Awaited(pc[t]) = {} \/ ans \cap Awaited(pc[t]) # {}
      PROVE  NoAnswer
  BY <1>4 DEF AnswerInv, NoAnswer, Owns
<1>5. out = <<>> => NoAnswer
  BY EmptySeq DEF NoAnswer
\* A command is sent.
<1>6. ASSUME NEW t \in Threads, Owns(t), Awaited(pc[t]) = {}, NEW p, Goto(t, p), UNCHANGED lock,
             ans' = {},
             \/ out' = out
             \/ \E r \in Reports : r.kind \in Awaited(p) /\ out' = Append(out, r)
      PROVE  AnswerInv'
  <2>1. NoAnswer
    BY <1>4, <1>6
  <2>2. pc'[t] = p /\ lock' # <<>> /\ Head(lock') = t
    BY <1>1, <1>6 DEF Goto, Owns
  <2>3. ASSUME NEW r \in Reports, r.kind \in Awaited(p), out' = Append(out, r)
        PROVE  AnswerInv'
    <3>1. \A i \in DOMAIN out' : out'[i].kind \in Answers =>
             i = Len(out) + 1 /\ out'[i].kind \in Awaited(p)
      BY <1>1, <2>1, <2>3, AppendTypes DEF NoAnswer
    <3> QED BY <1>6, <2>2, <3>1 DEF AnswerInv
  <2> QED BY <1>3, <1>6, <2>1, <2>3
\* A thread begins to wait, or does something else.
<1>7. ASSUME UNCHANGED <<ans, out>>,
             lock # <<>> => lock' # <<>> /\ Head(lock') = Head(lock)
                              /\ pc'[Head(lock)] = pc[Head(lock)]
      PROVE  AnswerInv'
  BY <1>7 DEF AnswerInv
<1>8. ASSUME NEW t \in Threads, pc[t] \notin Asking \cup Holding, NEW p, Goto(t, p),
             UNCHANGED <<ans, out>>, UNCHANGED lock \/ (Enter(t) /\ p \in Asking)
      PROVE  AnswerInv'
  <2>1. lock # <<>> => Head(lock) # t /\ pc[Head(lock)] \in Asking \cup Holding
    <3>1. lock # <<>> => 1 \in DOMAIN lock /\ Head(lock) = lock[1]
      BY <1>1, HeadTailProperties, EmptySeq, LenProperties
    <3> QED BY <1>1, <1>8, <3>1 DEF LockInv
  <2>2. lock # <<>> => lock' # <<>> /\ Head(lock') = Head(lock)
    BY <1>1, <1>8, EnterKeepsLock
  <2>3. lock # <<>> => pc'[Head(lock)] = pc[Head(lock)]
    BY <1>1, <1>2, <1>8, <2>1 DEF Goto
  <2> QED BY <1>7, <1>8, <2>2, <2>3
\* The modem reports something.
<1>9. ASSUME UNCHANGED <<pc, lock, ans>>, NEW r \in Reports, r.kind \notin Answers,
             out' = Append(out, r)
      PROVE  AnswerInv'
  <2>1. \A i \in DOMAIN out' : out'[i].kind \in Answers =>
           i \in DOMAIN out /\ out[i] = out'[i]
    BY <1>1, <1>9, AppendTypes
  <2> QED BY <1>9, <2>1 DEF AnswerInv
<1>10. ASSUME NEW n \in Links, TaskStep(n) PROVE AnswerInv'
  <2>1. CASE Start(n) \/ Register(n) \/ Query(n) \/ GiveUp(n)
    <3>1. pc[n] \notin Asking \cup Holding /\ UNCHANGED <<ans, out>>
      BY <2>1 DEF Start, Register, Query, GiveUp, Asking, Holding, evtVars, modVars
    <3>2. \E p \in Places : Goto(n, p) /\ (UNCHANGED lock \/ (Enter(n) /\ p \in Asking))
      BY <2>1 DEF Start, Register, Query, GiveUp, Asking, Places
    <3> QED BY <1>1, <1>8, <3>1, <3>2
  <2>2. CASE Check(n)
    <3>1. pc[n] \notin Asking \cup Holding /\ UNCHANGED <<ans, out>>
      BY <2>2 DEF Check, Asking, Holding, evtVars, modVars
    <3>2. \E p \in Places : Goto(n, p) /\ (UNCHANGED lock \/ (Enter(n) /\ p \in Asking))
      BY <2>2 DEF Check, Asking, Places
    <3> QED BY <1>1, <1>8, <3>1, <3>2
  <2>3. CASE Create(n)
    <3>1. Owns(n) /\ Awaited(pc[n]) = {}
      BY <2>3 DEF Create, Awaited
    <3>2. ASSUME NEW s \in Socks, SendClose(s), Goto(n, "cclose"), UNCHANGED lock
          PROVE  AnswerInv'
      BY <1>1, <1>6, <3>1, <3>2, SendCloseSends DEF Awaited
    <3> QED BY <1>1, <1>3, <1>4, <2>3, <3>1, <3>2 DEF Create
  <2>4. CASE CreateClosed(n)
    <3>1. Owns(n) /\ out' = out
      BY <1>1, <2>4 DEF CreateClosed, LockInv, Holding, modVars
    <3>2. ans \cap Awaited(pc[n]) # {} \/ out = <<>>
      BY <2>4, CleanSteps DEF CreateClosed, CloseReturns, Awaited
    <3> QED BY <1>1, <1>3, <1>4, <1>5, <3>1, <3>2
  <2>5. CASE Open(n)
    <3>1. Owns(n) /\ Awaited(pc[n]) = {}
      BY <1>1, <2>5 DEF Open, LockInv, Holding, Awaited
    <3>2. ASSUME ans' = {}, Goto(n, "opened"), UNCHANGED lock,
                 Answered([kind |-> "ok"]) \/ Answered([kind |-> "error"]) \/ Unanswered
          PROVE  AnswerInv'
      <4>1. /\ [kind |-> "ok"] \in Reports /\ [kind |-> "ok"].kind \in Awaited("opened")
            /\ [kind |-> "error"] \in Reports /\ [kind |-> "error"].kind \in Awaited("opened")
        BY ReportsAre DEF Awaited
      <4> QED BY <1>1, <1>6, <3>1, <3>2, <4>1 DEF Answered, Unanswered
    <3> QED BY <1>1, <1>3, <1>4, <2>5, <3>1, <3>2 DEF Open
  <2>6. CASE Opened(n)
    <3>1. Owns(n) /\ out' = out
      BY <1>1, <2>6 DEF Opened, LockInv, Holding, modVars
    <3>2. ans \cap Awaited(pc[n]) # {} \/ out = <<>>
      BY <2>6, CleanSteps DEF Opened, Awaited
    <3> QED BY <1>1, <1>3, <1>4, <1>5, <3>1, <3>2
  <2>7. CASE Connected(n) \/ ConnectTimeout(n)
    <3>1. Owns(n) /\ out' = out /\ Awaited(pc[n]) = {}
      BY <1>1, <2>7 DEF Connected, ConnectTimeout, LockInv, Holding, modVars, Awaited
    <3> QED BY <1>1, <1>3, <1>4, <3>1
  <2>8. CASE SendQuery(n)
    <3> DEFINE r == [kind |-> "stat", open |-> {s \in Socks : modem[s].st = "open"}]
    <3>1. Owns(n) /\ Awaited(pc[n]) = {} /\ r \in Reports /\ r.kind \in Awaited("stat")
      BY <2>8, ReportsAre DEF SendQuery, Awaited
    <3>2. Goto(n, "stat") /\ UNCHANGED lock /\ ans' = {} /\ (Answered(r) \/ Unanswered)
      BY <2>8 DEF SendQuery
    <3>3. out' = out \/ out' = Append(out, r)
      BY <3>2 DEF Answered, Unanswered
    <3> HIDE DEF r
    <3> QED BY <1>1, <1>6, <3>1, <3>2, <3>3
  <2>9. CASE QueryDone(n)
    <3>1. Owns(n) /\ out' = out
      BY <1>1, <2>9 DEF QueryDone, LockInv, Holding, modVars
    <3>2. ans \cap Awaited(pc[n]) # {} \/ out = <<>>
      BY <2>9, CleanSteps DEF QueryDone, Awaited
    <3> QED BY <1>1, <1>3, <1>4, <1>5, <3>1, <3>2
  <2>10. ~PowerDown(n) /\ ~PowerUp(n) /\ ~NetInit(n)
    BY CleanSteps DEF PowerUp, NetInit, TaskInv
  <2> QED BY <1>10, <2>1, <2>2, <2>3, <2>4, <2>5, <2>6, <2>7, <2>8, <2>9, <2>10 DEF TaskStep
<1>11. ASSUME NEW t \in Threads, CallStep(t) PROVE AnswerInv'
  <2>1. CASE Close(t)
    <3>1. Owns(t) /\ Awaited(pc[t]) = {} /\ Goto(t, "closewait") /\ UNCHANGED lock
      BY <2>1 DEF Close, Awaited
    <3>2. SendClose(arg[t]) /\ arg[t] \in Socks \cup {NoSock}
      BY <1>1, <2>1 DEF Close, TypeOK
    <3> QED BY <1>6, <3>1, <3>2, SendCloseSends DEF Awaited
  <2>2. CASE Closed(t)
    <3>1. Owns(t) /\ out' = out
      BY <1>1, <2>2 DEF Closed, LockInv, Holding, modVars
    <3>2. ans \cap Awaited(pc[t]) # {} \/ out = <<>>
      BY <2>2, CleanSteps DEF Closed, CloseReturns, Awaited
    <3> QED BY <1>3, <1>4, <1>5, <3>1, <3>2
  <2>3. CASE Send(t)
    BY <1>8, <2>3 DEF Send, Asking, Holding, evtVars, modVars
  <2>4. CASE SendCheck(t) \/ SendDone(t)
    <3>1. Owns(t) /\ Awaited(pc[t]) = {} /\ out' = out
      BY <1>1, <2>4 DEF SendCheck, SendDone, LockInv, Holding, Awaited, modVars
    <3> QED BY <1>3, <1>4, <3>1
  <2> QED BY <1>11, <2>1, <2>2, <2>3, <2>4, CleanSteps DEF CallStep
<1>12. CASE ModemStep
  <2>1. ASSUME NEW s \in Socks, ConnectDone(s) PROVE AnswerInv'
    BY <1>9, <2>1, ReportsAre DEF ConnectDone, evtVars, Answers
  <2>2. ASSUME NEW s \in Socks, PeerCloses(s) PROVE AnswerInv'
    BY <1>7, <2>2 DEF PeerCloses, evtVars
  <2>3. ASSUME NEW s \in Socks, DataIn(s) PROVE AnswerInv'
    <3>1. modem[s].who \in Links
      BY <2>3 DEF DataIn, AnyInv, ModemInv, TypeOK
    <3> QED BY <1>9, <2>3, <3>1, ReportsAre DEF DataIn, evtVars, Answers
  <2> QED BY <1>12, <2>1, <2>2, <2>3 DEF ModemStep
<1>13. CASE Parse
  <2>1. out # <<>>
    BY <1>13 DEF Parse, ParseCode, ParseConnect, ParseClose, StatClear, StatFill, ParseData,
                 AnyInv, ModemInv
  <2>2. UNCHANGED <<pc, lock>>
    BY <1>13 DEF Parse, ParseCode, ParseConnect, ParseClose, StatClear, StatFill, ParseData
  <2>3. /\ Report = out[1] /\ 1 \in DOMAIN out
        /\ \A i \in DOMAIN Tail(out) : /\ i \in Nat \ {0} /\ i + 1 \in DOMAIN out
                                       /\ Tail(out)[i] = out[i + 1]
    BY <1>1, <2>1, TailTypes
  <2>4. CASE out' = Tail(out) /\ ans' = ans
    <3> SUFFICES ASSUME NEW i \in DOMAIN out', out'[i].kind \in Answers
                 PROVE  /\ lock # <<>> /\ out'[i].kind \in Awaited(pc[Head(lock)])
                        /\ ans \cap Awaited(pc[Head(lock)]) = {}
                        /\ \A j \in DOMAIN out' : out'[j].kind \in Answers => j = i
      BY <2>2, <2>4 DEF AnswerInv
    <3>1. i \in Nat \ {0} /\ i + 1 \in DOMAIN out /\ out'[i] = out[i + 1]
      BY <2>3, <2>4
    <3>2. \A j \in DOMAIN out' : out'[j].kind \in Answers => j + 1 = i + 1 /\ j \in Nat
      BY <2>3, <2>4, <3>1 DEF AnswerInv
    <3> QED BY <3>1, <3>2 DEF AnswerInv
  <2>5. CASE out' = Tail(out) /\ Report.kind \in Answers
    <3>1. \A i \in DOMAIN out' : out'[i].kind \notin Answers
      <4> SUFFICES ASSUME NEW i \in DOMAIN out', out'[i].kind \in Answers PROVE FALSE
        OBVIOUS
      <4>1. i \in Nat \ {0} /\ i + 1 \in DOMAIN out /\ out'[i] = out[i + 1]
        BY <2>3, <2>5
      <4>2. i + 1 = 1
        BY <2>3, <2>5, <4>1 DEF AnswerInv
      <4> QED BY <4>1, <4>2
    <3> QED BY <3>1 DEF AnswerInv
  <2>6. \/ out' = Tail(out) /\ (ans' = ans \/ Report.kind \in Answers)
        \/ UNCHANGED <<ans, out>>
    BY <1>13 DEF Parse, ParseCode, ParseConnect, ParseClose, StatClear, StatFill, ParseData,
                 AnyInv, ModemInv, Report, Answers, evtVars, modVars
  <2> QED BY <1>7, <2>2, <2>4, <2>5, <2>6
<1>14. CASE Elapse
  BY <1>7, <1>14 DEF Elapse, evtVars, modVars
<1> QED BY <1>10, <1>11, <1>12, <1>13, <1>14 DEF Next

\* While a link opens a socket nobody else talks to the modem, and the parser
\* takes what is left of the last connection before the answer to AT+QIOPEN.
LEMMA StepOpenInv ==
    ASSUME AnyInv, CleanInv, Clean', Next
    PROVE  OpenInv'
<1> DEFINE Old(n, r) == Stale(n, arg[n], modem[arg[n]].st, r)
           New(n, r) == Stale(n, arg'[n], modem'[arg'[n]].st, r)
           Accepted(n) == "ok" \in ans \/ \E i \in DOMAIN out : out[i].kind = "ok"
           Opening(n) == /\ modem[arg[n]].who \in {n, NoLink}
                         /\ \A j \in DOMAIN out : Old(n, out[j]) =>
                               \E i \in DOMAIN out : j < i /\ out[i].kind = "ok"
           Connecting(n) ==
               /\ modem[arg[n]].who \in {n, NoLink}
               /\ \A j \in DOMAIN out : ~Old(n, out[j])
               /\ eConn[arg[n]] = "OK" => srv[arg[n]] # "zero" /\ modem[arg[n]].st # "opening"
<1>0. /\ OpenInv <=> \A n \in Links : /\ pc[n] = "opened" /\ Accepted(n) => Opening(n)
                                      /\ pc[n] = "conn" => Connecting(n)
      /\ OpenInv' <=> \A n \in Links : /\ pc'[n] = "opened" /\ Accepted(n)' => Opening(n)'
                                       /\ pc'[n] = "conn" => Connecting(n)'
  BY DEF OpenInv
<1>1. /\ Links \subseteq Threads /\ pc \in [Threads -> Places] /\ TypeOK /\ LockInv
      /\ arg \in [Threads -> Socks \cup {NoSock}] /\ NoLink \notin Links
      /\ modem \in [Socks -> [who : Links \cup {NoLink}, st : {"idle", "opening", "open"}]]
      /\ AnswerInv /\ OpenInv
  BY GprsAssumption DEF AnyInv, TypeOK, Threads, CleanInv
<1>2. \A n \in Links : pc[n] \in {"opened", "conn"} =>
         arg[n] \in Socks /\ lock # <<>> /\ Head(lock) = n
  BY <1>1 DEF AnyInv, CreateInv, Creating, LockInv, Holding, Owns
\* Another thread does something.
<1>3. ASSUME NEW t \in Threads, NEW p, p \notin {"opened", "conn"}, Goto(t, p),
             \A x \in Threads \ {t} : arg'[x] = arg[x],
             Owns(t) \/ UNCHANGED <<modem, out, ans, eConn, srv>>
      PROVE  OpenInv'
  <2>1. pc'[t] = p /\ \A x \in Threads \ {t} : pc'[x] = pc[x]
    BY <1>1, <1>3 DEF Goto
  <2> SUFFICES ASSUME NEW n \in Links, pc'[n] \in {"opened", "conn"}
               PROVE  /\ pc'[n] = "opened" /\ Accepted(n)' => Opening(n)'
                      /\ pc'[n] = "conn" => Connecting(n)'
    BY <1>0
  <2>2. n # t /\ pc'[n] = pc[n] /\ arg'[n] = arg[n] /\ n \in Threads
    BY <1>1, <1>3, <2>1
  <2>3. ~Owns(t)
    BY <1>1, <2>2, OwnerAlone DEF Holding
  <2>4. Accepted(n)' = Accepted(n) /\ Opening(n)' = Opening(n) /\ Connecting(n)' = Connecting(n)
    BY <1>3, <2>2, <2>3 DEF Stale
  <2> QED BY <1>0, <1>1, <2>2, <2>4
\* The modem or the parser does something, and one link is opening.
<1>4. ASSUME UNCHANGED <<pc, arg>>,
             \A n \in Links : pc[n] = "opened" /\ Accepted(n)' => Opening(n)',
             \A n \in Links : pc[n] = "conn" => Connecting(n)'
      PROVE  OpenInv'
  BY <1>0, <1>4
<1>5. ASSUME NEW n \in Links, TaskStep(n) PROVE OpenInv'
  <2>1. CASE Open(n)
    <3>1. Owns(n) /\ pc[n] = "open" /\ arg[n] \in Socks
      BY <1>1, <2>1 DEF Open, LockInv, Holding, AnyInv, CreateInv, Creating
    <3>2. CASE Leave(n) /\ Goto(n, "idle")
      BY <1>1, <1>3, <3>1, <3>2 DEF Leave
    <3>3. ASSUME ans' = {}, Goto(n, "opened"), arg' = arg,
                 \/ /\ modem' = [modem EXCEPT ![arg[n]] = [who |-> n, st |-> "opening"]]
                    /\ Answered([kind |-> "ok"]) \/ Unanswered
                 \/ Answered([kind |-> "error"]) \/ Unanswered
          PROVE  OpenInv'
      <4>1. pc'[n] = "opened" /\ \A x \in Threads \ {n} : pc'[x] = pc[x]
        BY <1>1, <3>3 DEF Goto
      <4>2. \A x \in Links \ {n} : pc'[x] \notin {"opened", "conn"}
        BY <1>1, <3>1, <4>1, OwnerAlone DEF Holding
      \* Nothing is left of an earlier command.
      <4>3. \A i \in DOMAIN out : out[i].kind \notin Answers
        BY <1>1, <3>1 DEF AnswerInv, Owns, Awaited
      <4>4. CASE out' = out
        BY <1>0, <3>3, <4>1, <4>2, <4>3, <4>4 DEF Answers
      <4>5. CASE out' = Append(out, [kind |-> "error"])
        <5>1. \A i \in DOMAIN out' : out'[i].kind # "ok"
          BY <1>1, <4>3, <4>5, ReportsAre, AppendTypes DEF Answers
        <5> QED BY <1>0, <3>3, <4>1, <4>2, <5>1
      <4>6. CASE /\ out' = Append(out, [kind |-> "ok"])
                 /\ modem' = [modem EXCEPT ![arg[n]] = [who |-> n, st |-> "opening"]]
        <5>1. /\ Len(out) + 1 \in DOMAIN out' /\ out'[Len(out) + 1] = [kind |-> "ok"]
              /\ \A j \in DOMAIN out' : j = Len(out) + 1 \/ j < Len(out) + 1
          BY <1>1, <4>6, ReportsAre, AppendTypes
        <5>2. \A j \in DOMAIN out' : New(n, out'[j]) =>
                 \E i \in DOMAIN out' : j < i /\ out'[i].kind = "ok"
          BY <5>1 DEF Stale
        <5>3. modem'[arg'[n]].who = n
          BY <1>1, <3>1, <3>3, <4>6
        <5> QED BY <1>0, <4>1, <4>2, <5>2, <5>3
      <4> QED BY <3>3, <4>4, <4>5, <4>6 DEF Answered, Unanswered
    <3> QED BY <2>1, <3>2, <3>3 DEF Open
  <2>2. CASE Opened(n)
    <3>1. Owns(n) /\ pc[n] = "opened" /\ arg[n] \in Socks
      BY <1>1, <1>2, <2>2 DEF Opened, LockInv, Holding
    <3>2. CASE "ok" \in ans
      <4>1. /\ eConn' = [eConn EXCEPT ![arg[n]] = "EXE"] /\ Goto(n, "conn")
            /\ UNCHANGED <<arg, modem, out>>
        BY <2>2, <3>2 DEF Opened, modVars
      <4>2. pc'[n] = "conn" /\ \A x \in Threads \ {n} : pc'[x] = pc[x]
        BY <1>1, <4>1 DEF Goto
      <4>3. \A x \in Links \ {n} : pc'[x] \notin {"opened", "conn"}
        BY <1>1, <3>1, <4>2, OwnerAlone DEF Holding
      <4>4. \A i \in DOMAIN out : out[i].kind # "ok"
        BY <1>1, <3>1, <3>2 DEF AnswerInv, Owns, Awaited, Answers
      <4>5. modem[arg[n]].who \in {n, NoLink} /\ \A j \in DOMAIN out : ~Old(n, out[j])
        BY <1>0, <1>1, <3>1, <3>2, <4>4
      <4>6. \A j \in DOMAIN out : ~New(n, out[j])
        BY <4>1, <4>5 DEF Stale
      <4>7. eConn'[arg'[n]] # "OK"
        BY <1>1, <3>1, <4>1 DEF TypeOK
      <4> QED BY <1>0, <4>1, <4>2, <4>3, <4>5, <4>6, <4>7
    <3>3. CASE "ok" \notin ans
      BY <1>1, <1>3, <2>2, <3>1, <3>3 DEF Opened, Leave
    <3> QED BY <3>2, <3>3
  <2>3. CASE \/ Create(n) \/ CreateClosed(n) \/ Connected(n) \/ ConnectTimeout(n)
             \/ SendQuery(n) \/ QueryDone(n)
    <3>1. Owns(n)
      BY <1>1, <2>3 DEF Create, CreateClosed, Connected, ConnectTimeout, SendQuery, QueryDone,
                        LockInv, Holding
    <3>2. \E p \in {"idle", "cclose", "open", "loop", "stat", "check"} : Goto(n, p)
      BY <2>3 DEF Create, CreateClosed, Connected, ConnectTimeout, SendQuery, QueryDone
    <3>3. \A x \in Threads \ {n} : arg'[x] = arg[x]
      BY <1>1, <2>3 DEF Create, CreateClosed, Connected, ConnectTimeout, SendQuery, QueryDone,
                        Leave
    <3> QED BY <1>1, <1>3, <3>1, <3>2, <3>3
  <2>4. CASE Start(n) \/ Register(n) \/ Query(n) \/ Check(n) \/ GiveUp(n)
    <3>1. UNCHANGED <<modem, out, ans, eConn, srv>>
      BY <2>4 DEF Start, Register, Query, Check, GiveUp, modVars, evtVars, sockVars
    <3>2. \E p \in {"idle", "create", "query", "close", "loop", "down"} : Goto(n, p)
      BY <2>4 DEF Start, Register, Query, Check, GiveUp
    <3>3. \A x \in Threads \ {n} : arg'[x] = arg[x]
      BY <1>1, <2>4 DEF Start, Register, Query, Check, GiveUp
    <3> QED BY <1>1, <1>3, <3>1, <3>2, <3>3
  <2>5. ~PowerDown(n) /\ ~PowerUp(n) /\ ~NetInit(n)
    BY CleanSteps DEF PowerUp, NetInit, CleanInv, TaskInv
  <2> QED BY <1>5, <2>1, <2>2, <2>3, <2>4, <2>5 DEF TaskStep
<1>6. ASSUME NEW t \in Threads, CallStep(t) PROVE OpenInv'
  <2>1. Owns(t) \/ UNCHANGED <<modem, out, ans, eConn, srv>>
    BY <1>1, <1>6, CleanSteps DEF CallStep, Close, Closed, Send, SendCheck, SendDone,
       LockInv, Holding, modVars, evtVars, sockVars
  <2>2. \E p \in {"closewait", "idle", "work", "send", "sending"} : Goto(t, p)
    BY <1>6, CleanSteps DEF CallStep, Close, Closed, Send, SendCheck, SendDone
  <2>3. \A x \in Threads \ {t} : arg'[x] = arg[x]
    BY <1>1, <1>6, CleanSteps DEF CallStep, Close, Closed, Send, SendCheck, SendDone, Leave
  <2> QED BY <1>3, <2>1, <2>2, <2>3
<1>7. CASE ModemStep
  <2> PICK s \in Socks : ConnectDone(s) \/ PeerCloses(s) \/ DataIn(s)
    BY <1>7 DEF ModemStep
  <2>0. UNCHANGED <<pc, arg, ans, eConn, srv>>
    BY DEF ConnectDone, PeerCloses, DataIn, evtVars, sockVars
  <2>1. modem[s] \in [who : Links \cup {NoLink}, st : {"idle", "opening", "open"}]
    BY <1>1
  <2>2. CASE ConnectDone(s)
    <3> DEFINE r == [kind |-> "connect", sock |-> s]
    <3>1. /\ modem[s].st = "opening" /\ out' = Append(out, r) /\ r \in Reports
          /\ modem' = [modem EXCEPT ![s] = [modem[s] EXCEPT !.st = "open"]]
      BY <2>2, ReportsAre DEF ConnectDone
    <3>2. /\ modem'[s].who = modem[s].who /\ modem'[s].st = "open"
          /\ \A x \in Socks \ {s} : modem'[x] = modem[x]
      BY <1>1, <2>1, <3>1
    <3>3. r.kind = "connect" /\ r.sock = s
      OBVIOUS
    <3> HIDE DEF r
    <3>4. /\ DOMAIN out' = DOMAIN out \cup {Len(out) + 1} /\ out'[Len(out) + 1] = r
          /\ \A i \in DOMAIN out : out'[i] = out[i]
      BY <1>1, <3>1, AppendTypes
    <3>5. ASSUME NEW n \in Links, arg[n] \in Socks
          PROVE  /\ ~New(n, r) /\ \A q : New(n, q) => Old(n, q)
                 /\ modem'[arg[n]].who = modem[arg[n]].who
                 /\ modem'[arg[n]].st = "opening" => modem[arg[n]].st = "opening"
      BY <2>0, <3>2, <3>3, <3>5 DEF Stale
    <3>6. \A i \in DOMAIN out' : out'[i].kind = "ok" => i \in DOMAIN out /\ out[i].kind = "ok"
      BY <3>3, <3>4
    <3>7. ASSUME NEW n \in Links, pc[n] = "opened", Accepted(n)' PROVE Opening(n)'
      <4>1. arg[n] \in Socks /\ Opening(n)
        BY <1>0, <1>1, <1>2, <2>0, <3>6, <3>7
      <4>2. \A j \in DOMAIN out' : New(n, out'[j]) => j \in DOMAIN out /\ Old(n, out[j])
        BY <3>4, <3>5, <4>1
      <4> QED BY <2>0, <3>4, <3>5, <4>1, <4>2
    <3>8. ASSUME NEW n \in Links, pc[n] = "conn" PROVE Connecting(n)'
      <4>1. arg[n] \in Socks /\ Connecting(n)
        BY <1>0, <1>1, <1>2, <3>8
      <4>2. \A j \in DOMAIN out' : New(n, out'[j]) => j \in DOMAIN out /\ Old(n, out[j])
        BY <3>4, <3>5, <4>1
      <4> QED BY <2>0, <3>5, <4>1, <4>2
    <3> QED BY <1>4, <2>0, <3>7, <3>8
  <2>3. CASE PeerCloses(s)
    <3>1. modem' = [modem EXCEPT ![s] = Idle] /\ out' = out
      BY <2>3 DEF PeerCloses
    <3>2. /\ modem'[s].who = NoLink /\ modem'[s].st = "idle"
          /\ \A x \in Socks \ {s} : modem'[x] = modem[x]
      BY <1>1, <3>1 DEF Idle
    <3>3. ASSUME NEW n \in Links, arg[n] \in Socks
          PROVE  /\ \A q : New(n, q) => Old(n, q)
                 /\ modem'[arg[n]].who \in {modem[arg[n]].who, NoLink}
                 /\ modem'[arg[n]].st = "opening" => modem[arg[n]].st = "opening"
      BY <2>0, <3>2, <3>3 DEF Stale
    <3>4. ASSUME NEW n \in Links, pc[n] = "opened", Accepted(n)' PROVE Opening(n)'
      <4>1. arg[n] \in Socks /\ Opening(n)
        BY <1>0, <1>1, <1>2, <2>0, <3>1, <3>4
      <4> QED BY <2>0, <3>1, <3>3, <4>1
    <3>5. ASSUME NEW n \in Links, pc[n] = "conn" PROVE Connecting(n)'
      <4>1. arg[n] \in Socks /\ Connecting(n)
        BY <1>0, <1>1, <1>2, <3>5
      <4> QED BY <2>0, <3>1, <3>3, <4>1
    <3> QED BY <1>4, <2>0, <3>4, <3>5
  <2>4. CASE DataIn(s)
    <3> DEFINE r == [kind |-> "data", sock |-> s, from |-> modem[s].who]
    <3>1. modem[s].st = "open" /\ modem[s].who \in Links
      BY <2>1, <2>4 DEF DataIn, AnyInv, ModemInv
    <3>2. out' = Append(out, r) /\ r \in Reports /\ modem' = modem
      BY <2>4, <3>1, ReportsAre DEF DataIn
    <3>3. r.kind = "data" /\ r.sock = s /\ r.from = modem[s].who
      OBVIOUS
    <3> HIDE DEF r
    <3>4. /\ DOMAIN out' = DOMAIN out \cup {Len(out) + 1} /\ out'[Len(out) + 1] = r
          /\ \A i \in DOMAIN out : out'[i] = out[i]
      BY <1>1, <3>2, AppendTypes
    <3>5. ASSUME NEW n \in Links, modem[arg[n]].who \in {n, NoLink}
          PROVE  /\ ~New(n, r) /\ \A q : New(n, q) => Old(n, q)
      BY <1>1, <2>0, <3>1, <3>2, <3>3, <3>5 DEF Stale
    <3>6. \A i \in DOMAIN out' : out'[i].kind = "ok" => i \in DOMAIN out /\ out[i].kind = "ok"
      BY <3>3, <3>4
    <3>7. ASSUME NEW n \in Links, pc[n] = "opened", Accepted(n)' PROVE Opening(n)'
      <4>1. Opening(n)
        BY <1>0, <1>1, <2>0, <3>6, <3>7
      <4>2. \A j \in DOMAIN out' : New(n, out'[j]) => j \in DOMAIN out /\ Old(n, out[j])
        BY <3>4, <3>5, <4>1
      <4> QED BY <2>0, <3>2, <3>4, <4>1, <4>2
    <3>8. ASSUME NEW n \in Links, pc[n] = "conn" PROVE Connecting(n)'
      <4>1. Connecting(n)
        BY <1>0, <1>1, <3>8
      <4>2. \A j \in DOMAIN out' : New(n, out'[j]) => j \in DOMAIN out /\ Old(n, out[j])
        BY <3>4, <3>5, <4>1
      <4> QED BY <2>0, <3>2, <4>1, <4>2
    <3> QED BY <1>4, <2>0, <3>7, <3>8
  <2> QED BY <2>2, <2>3, <2>4
<1>8. CASE Parse
  <2>0. out # <<>>
    BY <1>8 DEF Parse, ParseCode, ParseConnect, ParseClose, StatClear, StatFill, ParseData,
                AnyInv, ModemInv
  <2>1. UNCHANGED <<pc, arg, modem>>
    BY <1>8 DEF Parse, ParseCode, ParseConnect, ParseClose, StatClear, StatFill, ParseData,
                modVars
  <2>2. /\ Report = out[1] /\ 1 \in DOMAIN out /\ Report \in Reports
        /\ \A i \in DOMAIN Tail(out) : /\ i \in Nat \ {0} /\ i + 1 \in DOMAIN out
                                       /\ Tail(out)[i] = out[i + 1]
    BY <1>1, <2>0, TailTypes
  <2>3. DOMAIN out = 1 .. Len(out) /\ DOMAIN Tail(out) = 1 .. Len(out) - 1 /\ Len(out) \in Nat
    BY <1>1, <2>0, HeadTailProperties, LenProperties DEF TypeOK
  \* A link that waits for its connection waits for no answer.
  <2>4. \A n \in Links : pc[n] = "conn" => Report.kind \notin Answers
    BY <1>1, <1>2, <2>2 DEF AnswerInv, Awaited
  <2>5. \A n \in Links : pc[n] = "opened" => Report.kind # "stat"
    BY <1>1, <1>2, <2>2 DEF AnswerInv, Awaited, Answers
  <2>6. CASE StatClear
    <3>1. Report.kind = "stat" /\ UNCHANGED <<ans, out>>
      BY <2>6 DEF StatClear, modVars
    <3>2. \A n \in Links : pc[n] \notin {"opened", "conn"}
      BY <2>4, <2>5, <3>1 DEF Answers
    <3> QED BY <1>4, <2>1, <3>2
  <2>7. CASE out' = Tail(out) /\ (ParseCode \/ ParseConnect \/ ParseClose \/ StatFill \/ ParseData)
    <3>1. ASSUME NEW n \in Links, pc[n] = "opened", Accepted(n)' PROVE Opening(n)'
      <4>1. Accepted(n)
        <5>1. "ok" \in ans' => "ok" \in ans \/ Report.kind = "ok"
          BY <2>7 DEF ParseCode, ParseConnect, ParseClose, StatFill, ParseData, evtVars
        <5> QED BY <2>2, <2>7, <3>1, <5>1
      <4>2. Opening(n)
        BY <1>0, <1>1, <3>1, <4>1
      <4>3. ASSUME NEW j \in DOMAIN out', New(n, out'[j])
            PROVE  \E i \in DOMAIN out' : j < i /\ out'[i].kind = "ok"
        <5>1. j \in Nat \ {0} /\ j + 1 \in DOMAIN out /\ Old(n, out[j + 1])
          BY <2>1, <2>2, <2>7, <4>3 DEF Stale
        <5>2. PICK i \in DOMAIN out : j + 1 < i /\ out[i].kind = "ok"
          BY <4>2, <5>1
        <5>3. i - 1 \in DOMAIN out' /\ j < i - 1 /\ (i - 1) + 1 = i
          BY <2>3, <2>7, <5>1, <5>2
        <5>4. out'[i - 1] = out[i]
          BY <2>2, <2>7, <5>3
        <5> QED BY <5>2, <5>3, <5>4
      <4> QED BY <2>1, <4>2, <4>3
    <3>2. ASSUME NEW n \in Links, pc[n] = "conn" PROVE Connecting(n)'
      <4>1. Connecting(n) /\ arg[n] \in Socks
        BY <1>0, <1>1, <1>2, <3>2
      <4>2. \A j \in DOMAIN out' : ~New(n, out'[j])
        BY <2>1, <2>2, <2>7, <4>1 DEF Stale
      <4>3. ~Old(n, Report)
        BY <2>2, <4>1
      <4>4. CASE ParseConnect
        <5>1. /\ eConn' = [eConn EXCEPT ![Report.sock] = "OK"] /\ Report.sock \in Socks
              /\ srv' = [srv EXCEPT ![Report.sock] = "wait"] /\ Report.kind = "connect"
          BY <2>2, <4>4, ReportsAre DEF ParseConnect
        <5>2. Report.sock = arg[n] => modem[arg[n]].st # "opening"
          BY <4>3, <5>1 DEF Stale
        <5>3. eConn'[arg[n]] = "OK" => srv'[arg[n]] # "zero" /\ modem[arg[n]].st # "opening"
          BY <1>1, <4>1, <5>1, <5>2 DEF TypeOK
        <5> QED BY <2>1, <4>1, <4>2, <5>3
      <4>5. CASE ParseData
        <5>1. eConn' = eConn /\ srv' = srv
          BY <4>5 DEF ParseData, sockVars
        <5> QED BY <2>1, <4>1, <4>2, <5>1
      <4>6. Report.kind \notin Answers
        BY <2>4, <3>2
      <4>7. ~ParseCode /\ ~ParseClose /\ ~StatFill
        BY <4>6 DEF ParseCode, ParseClose, StatFill, Answers, AnyInv, ModemInv, Report
      <4> QED BY <2>7, <4>4, <4>5, <4>7
    <3> QED BY <1>4, <2>1, <3>1, <3>2
  <2>8. StatClear \/ (out' = Tail(out) /\ (ParseCode \/ ParseConnect \/ ParseClose \/ StatFill
                                              \/ ParseData))
    BY <1>8 DEF Parse, ParseCode, ParseConnect, ParseClose, StatFill, ParseData
  <2> QED BY <2>6, <2>7, <2>8
<1>9. CASE Elapse
  <2>1. UNCHANGED <<pc, arg, modem, out, ans, eConn, srv>>
    BY <1>9 DEF Elapse, modVars, evtVars, sockVars
  <2>2. \A n \in Links : (Accepted(n)' <=> Accepted(n)) /\ (Opening(n)' <=> Opening(n))
                            /\ (Connecting(n)' <=> Connecting(n))
    BY <2>1 DEF Stale
  <2> QED BY <1>0, <1>1, <2>1, <2>2
<1> QED BY <1>5, <1>6, <1>7, <1>8, <1>9 DEF Next

\* The socket of a link stays its own, and its connection is in the table.
LEMMA StepHeldInv ==
    ASSUME AnyInv, CleanInv, Clean', Next
    PROVE  HeldInv'
<1> DEFINE M == [who : Links \cup {NoLink}, st : {"idle", "opening", "open"}]
           Has(n) ==
               /\ used[fd[n]]
               /\ \A m \in Links \ {n} : fd[m] # fd[n]
               /\ modem[fd[n]].who \in {n, NoLink} /\ modem[fd[n]].st # "opening"
               /\ \A i \in DOMAIN out :
                     out[i].kind = "data" /\ out[i].sock = fd[n] => out[i].from = n
               /\ modem[fd[n]].st = "open" =>
                     /\ torn \/ srv[fd[n]] # "zero"
                     /\ \A i \in DOMAIN out : out[i].kind = "stat" => fd[n] \in out[i].open
<1>0. /\ HeldInv <=> \A n \in Links : fd[n] # NoSock => Has(n)
      /\ HeldInv' <=> \A n \in Links : fd'[n] # NoSock => Has(n)'
  BY DEF HeldInv
<1>1. /\ Links \subseteq Threads /\ TypeOK /\ LockInv /\ NoLink \notin Links /\ NoSock \notin Socks
      /\ arg \in [Threads -> Socks \cup {NoSock}] /\ fd \in [Links -> Socks \cup {NoSock}]
      /\ modem \in [Socks -> M] /\ used \in [Socks -> BOOLEAN]
      /\ srv \in [Socks -> {"zero", "wait", "up"}]
      /\ HeldInv /\ OpenInv /\ AnswerInv /\ TaskInv
      /\ Idle \in M /\ Idle.who = NoLink /\ Idle.st = "idle"
  BY GprsAssumption DEF AnyInv, TypeOK, Threads, CleanInv, Idle
<1>2. \A n \in Links : pc[n] \in Creating \ {"create"} => arg[n] \in Socks /\ ~used[arg[n]]
  BY DEF AnyInv, CreateInv
<1> HIDE DEF M
\* Nothing happens to the sockets that are held, except that one is closed.
<1>3. ASSUME UNCHANGED <<fd, torn, srv>>,
             \A n \in Links : fd[n] # NoSock => used'[fd[n]] = used[fd[n]]
                                 /\ modem'[fd[n]] \in {modem[fd[n]], Idle},
             \/ out' = out
             \/ \E r \in Reports : r.kind \notin {"data", "stat"} /\ out' = Append(out, r)
      PROVE  HeldInv'
  <2>1. \A i \in DOMAIN out' : out'[i].kind \in {"data", "stat"} =>
           i \in DOMAIN out /\ out'[i] = out[i]
    BY <1>1, <1>3, AppendTypes
  <2> SUFFICES ASSUME NEW n \in Links, fd[n] # NoSock PROVE Has(n)'
    BY <1>0, <1>3
  <2>2. Has(n)
    BY <1>0, <1>1
  <2>3. \/ modem'[fd[n]] = modem[fd[n]]
        \/ modem'[fd[n]].who = NoLink /\ modem'[fd[n]].st = "idle"
    BY <1>1, <1>3
  <2> QED BY <1>3, <2>1, <2>2, <2>3
\* A socket that no link has is closed.
<1>4. ASSUME NEW s \in Socks \cup {NoSock}, SendClose(s)
      PROVE  /\ \A x \in Socks : modem'[x] \in {modem[x], Idle}
             /\ s \in Socks /\ modem' # modem => modem'[s] = Idle
             /\ \/ out' = out
                \/ \E r \in Reports : r.kind \notin {"data", "stat"} /\ out' = Append(out, r)
  <2>1. modem' = modem \/ (s \in Socks /\ modem' = [modem EXCEPT ![s] = Idle])
    BY <1>1, <1>4, SendCloseTypes
  <2> QED BY <1>1, <1>4, <2>1, SendCloseSends
<1>5. ASSUME NEW n \in Links, TaskStep(n) PROVE HeldInv'
  <2>1. CASE Start(n)
    <3>1. /\ fd' = [fd EXCEPT ![n] = NoSock]
          /\ UNCHANGED <<used, modem, out, torn, srv>>
      BY <2>1 DEF Start, sockVars, evtVars, modVars
    <3>2. fd[n] = NoSock
      BY <1>1, <2>1 DEF Start, TaskInv
    <3>3. fd' = fd
      BY <1>1, <3>1, <3>2
    <3> QED BY <1>3, <3>1, <3>3
  <2>2. CASE Create(n)
    <3>1. UNCHANGED <<fd, torn, srv, used>>
      BY <2>2 DEF Create, sockVars
    <3>2. CASE UNCHANGED <<modem, out>>
      BY <1>3, <3>1, <3>2
    <3>3. ASSUME NEW s \in Socks, SendClose(s) PROVE HeldInv'
      BY <1>1, <1>3, <1>4, <3>1, <3>3
    <3> QED BY <2>2, <3>2, <3>3 DEF Create
  <2>3. CASE CreateClosed(n)
    <3>1. UNCHANGED <<fd, torn, srv, modem, out>>
      BY <2>3 DEF CreateClosed, evtVars, modVars
    <3>2. \A s \in Socks : used'[s] = (used[s] /\ s # arg[n])
      BY <2>3 DEF CreateClosed, Released
    <3>3. arg[n] \in Socks /\ ~used[arg[n]]
      BY <1>2, <2>3 DEF CreateClosed, Creating
    <3>4. \A m \in Links : fd[m] # NoSock => fd[m] \in Socks /\ used[fd[m]]
      BY <1>0, <1>1
    <3>5. \A m \in Links : fd[m] # NoSock => used'[fd[m]] = used[fd[m]]
      BY <1>1, <3>2, <3>3, <3>4
    <3> QED BY <1>3, <3>1, <3>5
  <2>4. CASE Open(n)
    <3>1. arg[n] \in Socks /\ ~used[arg[n]]
      BY <1>2, <2>4 DEF Open, Creating
    <3>2. UNCHANGED <<fd, torn, srv, used>>
      BY <2>4 DEF Open, sockVars
    <3>3. modem' = modem \/ modem' = [modem EXCEPT ![arg[n]] = [who |-> n, st |-> "opening"]]
      BY <2>4 DEF Open
    <3>4. \A m \in Links : fd[m] # NoSock => fd[m] \in Socks /\ fd[m] # arg[n]
      BY <1>0, <1>1, <3>1
    <3>5. \A m \in Links : fd[m] # NoSock => modem'[fd[m]] = modem[fd[m]]
      BY <1>1, <3>1, <3>3, <3>4
    <3>6. \/ out' = out
          \/ \E r \in Reports : r.kind \notin {"data", "stat"} /\ out' = Append(out, r)
      <4>1. /\ [kind |-> "ok"] \in Reports /\ [kind |-> "ok"].kind \notin {"data", "stat"}
            /\ [kind |-> "error"] \in Reports /\ [kind |-> "error"].kind \notin {"data", "stat"}
        BY ReportsAre
      <4> QED BY <2>4, <4>1 DEF Open, Answered, Unanswered
    <3> QED BY <1>3, <3>2, <3>5, <3>6
  <2>5. CASE Connected(n)
    <3>1. /\ fd' = [fd EXCEPT ![n] = arg[n]] /\ used' = [used EXCEPT ![arg[n]] = TRUE]
          /\ UNCHANGED <<torn, srv, modem, out>> /\ pc[n] = "conn" /\ eConn[arg[n]] = "OK"
      BY <2>5, CleanSteps DEF Connected, modVars
    <3>2. arg[n] \in Socks /\ ~used[arg[n]]
      BY <1>2, <3>1 DEF Creating
    <3>3. /\ modem[arg[n]].who \in {n, NoLink} /\ modem[arg[n]].st # "opening"
          /\ srv[arg[n]] # "zero"
          /\ \A i \in DOMAIN out :
                out[i].kind = "data" /\ out[i].sock = arg[n] => out[i].from = n
      BY <1>1, <3>1 DEF OpenInv, Stale
    \* No answer is under way, so the table is not on its way either.
    <3>4. \A i \in DOMAIN out : out[i].kind # "stat"
      <4>1. lock # <<>> /\ Head(lock) = n
        BY <1>1, <3>1 DEF LockInv, Holding, Owns
      <4> QED BY <1>1, <3>1, <4>1 DEF AnswerInv, Awaited, Answers
    <3>5. \A m \in Links : fd[m] # NoSock => fd[m] \in Socks /\ fd[m] # arg[n]
      BY <1>0, <1>1, <3>2
    <3> SUFFICES ASSUME NEW m \in Links, fd'[m] # NoSock PROVE Has(m)'
      BY <1>0
    <3>6. CASE m = n
      <4>1. fd'[n] = arg[n] /\ used'[arg[n]] /\ \A x \in Links \ {n} : fd'[x] # arg[n]
        BY <1>1, <3>1, <3>2, <3>5
      <4> QED BY <3>1, <3>3, <3>4, <3>6, <4>1
    <3>7. CASE m # n
      <4>1. fd'[m] = fd[m] /\ fd[m] \in Socks /\ fd[m] # arg[n] /\ Has(m)
        BY <1>0, <1>1, <3>1, <3>5, <3>7
      <4>2. used'[fd[m]] /\ \A x \in Links \ {m} : fd'[x] # fd[m]
        BY <1>1, <3>1, <3>2, <4>1
      <4> QED BY <3>1, <4>1, <4>2
    <3> QED BY <3>6, <3>7
  <2>6. CASE SendQuery(n)
    <3> DEFINE r == [kind |-> "stat", open |-> {s \in Socks : modem[s].st = "open"}]
    <3>1. /\ UNCHANGED <<fd, torn, srv, used, modem>> /\ r \in Reports
          /\ out' = out \/ out' = Append(out, r)
      BY <2>6, ReportsAre DEF SendQuery, sockVars, Answered, Unanswered
    <3>2. r.kind = "stat" /\ \A s \in Socks : modem[s].st = "open" => s \in r.open
      OBVIOUS
    <3> HIDE DEF r
    <3>3. \A i \in DOMAIN out' : (i \in DOMAIN out /\ out'[i] = out[i]) \/ out'[i] = r
      BY <1>1, <3>1, AppendTypes
    <3> SUFFICES ASSUME NEW m \in Links, fd[m] # NoSock PROVE Has(m)'
      BY <1>0, <3>1
    <3>4. Has(m) /\ fd[m] \in Socks
      BY <1>0, <1>1
    <3> QED BY <3>1, <3>2, <3>3, <3>4
  <2>7. CASE \/ Register(n) \/ Opened(n) \/ ConnectTimeout(n) \/ Query(n) \/ QueryDone(n)
             \/ Check(n) \/ GiveUp(n)
    <3>1. UNCHANGED <<fd, torn, srv, used, modem, out>>
      BY <2>7 DEF Register, Opened, ConnectTimeout, Query, QueryDone, Check, GiveUp,
         sockVars, evtVars, modVars
    <3> QED BY <1>3, <3>1
  <2>8. ~PowerDown(n) /\ ~PowerUp(n) /\ ~NetInit(n)
    BY <1>1, CleanSteps DEF PowerUp, NetInit, TaskInv
  <2> QED BY <1>5, <2>1, <2>2, <2>3, <2>4, <2>5, <2>6, <2>7, <2>8 DEF TaskStep
<1>6. ASSUME NEW t \in Threads, CallStep(t) PROVE HeldInv'
  <2>1. CASE Close(t)
    <3>1. UNCHANGED <<fd, torn, srv, used>> /\ SendClose(arg[t]) /\ arg[t] \in Socks \cup {NoSock}
      BY <1>1, <2>1 DEF Close, sockVars
    <3> QED BY <1>1, <1>3, <1>4, <3>1
  <2>2. CASE Closed(t)
    <3>1. t \in Links /\ LinkOf[t] = t /\ arg[t] = fd[t]
      BY <1>1, <2>2, GprsAssumption
      DEF Closed, AnyInv, PlaceInv, TaskInv, Threads, Closing
    <3>2. /\ fd' = [fd EXCEPT ![t] = NoSock] /\ UNCHANGED <<torn, srv, modem, out>>
          /\ \A s \in Socks : used'[s] = (used[s] /\ s # fd[t])
      BY <2>2, <3>1 DEF Closed, Released, modVars
    <3> SUFFICES ASSUME NEW m \in Links, fd'[m] # NoSock PROVE Has(m)'
      BY <1>0
    <3>3. m # t /\ fd'[m] = fd[m] /\ fd[m] \in Socks /\ Has(m)
      BY <1>0, <1>1, <3>1, <3>2
    <3>4. used'[fd[m]] /\ \A x \in Links \ {m} : fd'[x] # fd[m]
      BY <1>1, <3>1, <3>2, <3>3
    <3> QED BY <3>2, <3>3, <3>4
  <2>3. CASE Send(t) \/ SendCheck(t) \/ SendDone(t)
    <3>1. UNCHANGED <<fd, torn, srv, used, modem, out>>
      BY <2>3 DEF Send, SendCheck, SendDone, sockVars, evtVars, modVars
    <3> QED BY <1>3, <3>1
  <2> QED BY <1>6, <2>1, <2>2, <2>3, CleanSteps DEF CallStep
<1>7. CASE ModemStep
  <2> PICK s \in Socks : ConnectDone(s) \/ PeerCloses(s) \/ DataIn(s)
    BY <1>7 DEF ModemStep
  <2>0. UNCHANGED <<fd, torn, srv, used>>
    BY DEF ConnectDone, PeerCloses, DataIn, evtVars, sockVars
  <2>1. CASE ConnectDone(s)
    <3>1. /\ modem[s].st = "opening" /\ modem' = [modem EXCEPT ![s].st = "open"]
          /\ out' = Append(out, [kind |-> "connect", sock |-> s])
      BY <2>1 DEF ConnectDone
    <3>2. \A m \in Links : fd[m] # NoSock => fd[m] \in Socks /\ fd[m] # s
      BY <1>0, <1>1, <3>1
    <3>3. \A m \in Links : fd[m] # NoSock => modem'[fd[m]] = modem[fd[m]]
      BY <1>1, <3>1, <3>2
    <3>4. /\ [kind |-> "connect", sock |-> s] \in Reports
          /\ [kind |-> "connect", sock |-> s].kind \notin {"data", "stat"}
      BY ReportsAre
    <3> QED BY <1>3, <2>0, <3>1, <3>3, <3>4
  <2>2. CASE PeerCloses(s)
    <3>1. modem' = [modem EXCEPT ![s] = Idle] /\ out' = out
      BY <2>2 DEF PeerCloses
    <3>2. \A x \in Socks : modem'[x] \in {modem[x], Idle}
      BY <1>1, <3>1
    <3> QED BY <1>1, <1>3, <2>0, <3>1, <3>2
  <2>3. CASE DataIn(s)
    <3> DEFINE r == [kind |-> "data", sock |-> s, from |-> modem[s].who]
    <3>1. modem[s].who # NoLink /\ modem[s].who \in Links
      BY <1>1, <2>3 DEF DataIn, AnyInv, ModemInv, M
    <3>2. r \in Reports /\ out' = Append(out, r) /\ modem' = modem
      BY <2>3, <3>1, ReportsAre DEF DataIn
    <3>3. r.kind = "data" /\ r.sock = s /\ r.from = modem[s].who
      OBVIOUS
    <3> HIDE DEF r
    <3>4. \A i \in DOMAIN out' : (i \in DOMAIN out /\ out'[i] = out[i]) \/ out'[i] = r
      BY <1>1, <3>2, AppendTypes
    <3> SUFFICES ASSUME NEW m \in Links, fd[m] # NoSock PROVE Has(m)'
      BY <1>0, <2>0
    <3>5. Has(m)
      BY <1>0, <1>1
    <3>6. fd[m] = s => modem[s].who = m
      BY <3>1, <3>5
    <3> QED BY <2>0, <3>2, <3>3, <3>4, <3>5, <3>6
  <2> QED BY <2>1, <2>2, <2>3
<1>8. CASE Parse
  <2>0. out # <<>>
    BY <1>8 DEF Parse, ParseCode, ParseConnect, ParseClose, StatClear, StatFill, ParseData,
                AnyInv, ModemInv
  <2>1. UNCHANGED <<fd, used, modem>>
    BY <1>8 DEF Parse, ParseCode, ParseConnect, ParseClose, StatClear, StatFill, ParseData,
                modVars, sockVars
  <2>2. /\ Report = out[1] /\ 1 \in DOMAIN out /\ Report \in Reports
        /\ \A i \in DOMAIN Tail(out) : i + 1 \in DOMAIN out /\ Tail(out)[i] = out[i + 1]
    BY <1>1, <2>0, TailTypes
  <2>3. \A i \in DOMAIN out' : \E j \in DOMAIN out : out'[i] = out[j]
    <3>1. out' = out \/ out' = Tail(out)
      BY <1>8 DEF Parse, ParseCode, ParseConnect, ParseClose, StatClear, StatFill, ParseData,
                  modVars
    <3> QED BY <2>2, <3>1
  <2> SUFFICES ASSUME NEW n \in Links, fd[n] # NoSock PROVE Has(n)'
    BY <1>0, <2>1
  <2>4. Has(n) /\ fd[n] \in Socks
    BY <1>0, <1>1
  <2>5. modem[fd[n]].st = "open" => torn' \/ srv'[fd[n]] # "zero"
    <3>1. CASE StatClear
      BY <3>1 DEF StatClear
    <3>2. CASE StatFill
      <4>1. Report.kind = "stat"
        BY <3>2 DEF StatFill, AnyInv, ModemInv, Report
      <4>2. modem[fd[n]].st = "open" => fd[n] \in Report.open
        BY <2>2, <2>4, <4>1
      <4>3. fd[n] \in Report.open => srv'[fd[n]] = "up"
        BY <2>4, <3>2 DEF StatFill
      <4> QED BY <4>2, <4>3
    <3>3. CASE ParseConnect \/ ParseClose
      <4>1. srv' = [srv EXCEPT ![Report.sock] = "wait"] /\ torn' = torn
        BY <3>3 DEF ParseConnect, ParseClose, evtVars
      <4> QED BY <1>1, <2>4, <4>1
    <3>4. CASE ParseCode \/ ParseData
      <4>1. srv' = srv /\ torn' = torn
        BY <3>4 DEF ParseCode, ParseData, evtVars, sockVars
      <4> QED BY <2>4, <4>1
    <3> QED BY <1>8, <3>1, <3>2, <3>3, <3>4 DEF Parse
  <2> QED BY <2>1, <2>3, <2>4, <2>5
<1>9. CASE Elapse
  <2>1. UNCHANGED <<fd, torn, srv, used, modem, out>>
    BY <1>9 DEF Elapse, modVars, evtVars, sockVars
  <2> QED BY <1>3, <2>1
<1> QED BY <1>5, <1>6, <1>7, <1>8, <1>9 DEF Next

\* A connection that the table did not show stays closed until its link, which
\* has still the socket, has asked for it.
LEMMA StepNoLiveClose ==
    ASSUME AnyInv, CleanInv, NoLiveClose, Clean', Next
    PROVE  NoLiveClose'
<1> DEFINE Calm == Without({"late", "torn", "nomem", "cycle", "drop"})
           Dead == \A n \in Links : pc[n] = "close" => modem[arg[n]].st = "idle"
           M == [who : Links \cup {NoLink}, st : {"idle", "opening", "open"}]
<1>0. (NoLiveClose <=> (Calm => Dead)) /\ (NoLiveClose' <=> (Calm' => Dead'))
  BY DEF NoLiveClose
<1>1. /\ Links \subseteq Threads /\ TypeOK /\ LockInv /\ NoSock \notin Socks
      /\ arg \in [Threads -> Socks \cup {NoSock}] /\ fd \in [Links -> Socks \cup {NoSock}]
      /\ pc \in [Threads -> Places] /\ modem \in [Socks -> M]
      /\ HeldInv /\ TaskInv /\ Idle.st = "idle"
  BY GprsAssumption DEF AnyInv, TypeOK, Threads, CleanInv, Idle
<1> HIDE DEF M
\* A link that closes has the socket.
<1>2. \A n \in Links : pc[n] = "close" =>
         arg[n] \in Socks /\ used[arg[n]] /\ modem[arg[n]].st # "opening"
  BY <1>1 DEF TaskInv, HeldInv, Closing
<1> SUFFICES ASSUME Calm' PROVE Dead'
  BY <1>0
\* What has gone wrong stays so.
<1>3. Calm /\ Dead
  BY <1>0, MishapsStay DEF Without
\* The other links leave the socket alone.
<1>4. ASSUME \A x \in Links : pc'[x] = "close" => pc[x] = "close" /\ arg'[x] = arg[x],
             \A x \in Links : pc[x] = "close" => modem'[arg[x]].st \in {modem[arg[x]].st, "idle"}
      PROVE  Dead'
  BY <1>3, <1>4
<1>5. ASSUME NEW s \in Socks \cup {NoSock}, SendClose(s)
      PROVE  \A x \in Socks : modem'[x].st \in {modem[x].st, "idle"}
  BY <1>1, <1>5, SendCloseTypes
<1>6. ASSUME NEW n \in Links, TaskStep(n) PROVE Dead'
  <2>1. CASE Check(n)
    <3>1. CASE Goto(n, "loop") /\ arg' = arg
      <4>1. modem' = modem
        BY <2>1 DEF Check, modVars
      <4> QED BY <1>1, <1>4, <3>1, <4>1 DEF Goto
    <3>2. CASE Goto(n, "close") /\ arg' = [arg EXCEPT ![n] = fd[n]]
      <4>0. ~Goto(n, "loop")
        BY <1>1, <3>2 DEF Goto
      <4>1. fd[n] \in Socks /\ modem' = modem /\ n \in Threads
        BY <1>1, <2>1 DEF Check, TaskInv, modVars
      \* The table was not being filled in, and the socket was not in it.
      <4>2. srv[fd[n]] = "zero" /\ ~torn
        BY <1>1, <2>1, <4>0, <4>1 DEF Check, IsGone, Without, Mishap
      <4>3. modem[fd[n]].st \notin {"open", "opening"}
        BY <1>1, <4>1, <4>2 DEF HeldInv
      <4>4. modem[fd[n]].st = "idle"
        BY <1>1, <4>1, <4>3 DEF M
      <4>5. \A x \in Links \ {n} : pc'[x] = pc[x] /\ arg'[x] = arg[x]
        BY <1>1, <3>2 DEF Goto
      <4>6. arg'[n] = fd[n]
        BY <1>1, <3>2, <4>1
      <4> QED BY <1>3, <4>1, <4>4, <4>5, <4>6
    <3> QED BY <2>1, <3>1, <3>2 DEF Check
  <2>2. CASE ~Check(n)
    <3>1. \E p : p # "close" /\ Goto(n, p)
      BY <1>6, <2>2 DEF TaskStep, Start, Register, Create, CreateClosed, Open, Opened, Connected,
         ConnectTimeout, Query, SendQuery, QueryDone, GiveUp, PowerDown, PowerUp, NetInit
    <3>2. \A x \in Links \ {n} : arg'[x] = arg[x]
      BY <1>1, <1>6, <2>2 DEF TaskStep, Start, Register, Create, CreateClosed, Open, Opened,
         Connected, ConnectTimeout, Query, SendQuery, QueryDone, GiveUp, PowerDown, PowerUp,
         NetInit, Leave
    <3>3. \A x \in Links : pc[x] = "close" => modem'[arg[x]].st \in {modem[arg[x]].st, "idle"}
      <4>1. CASE Create(n)
        <5>1. CASE modem' = modem
          BY <5>1
        <5>2. ASSUME NEW s \in Socks, SendClose(s)
              PROVE  \A x \in Socks : modem'[x].st \in {modem[x].st, "idle"}
          BY <1>5, <5>2
        <5> QED BY <1>2, <4>1, <5>1, <5>2 DEF Create
      <4>2. CASE Open(n)
        <5>1. arg[n] \in Socks /\ ~used[arg[n]]
          BY <4>2 DEF Open, AnyInv, CreateInv, Creating
        <5>2. modem' = modem \/ modem' = [modem EXCEPT ![arg[n]] = [who |-> n, st |-> "opening"]]
          BY <4>2 DEF Open
        <5> QED BY <1>1, <1>2, <5>1, <5>2
      <4>3. modem' = modem \/ Create(n) \/ Open(n)
        BY <1>6, CleanSteps DEF TaskStep, Start, Register, CreateClosed, Opened, Connected,
           ConnectTimeout, Query, SendQuery, QueryDone, Check, GiveUp, PowerUp, NetInit, modVars
      <4> QED BY <4>1, <4>2, <4>3
    <3> QED BY <1>1, <1>4, <3>1, <3>2, <3>3 DEF Goto
  <2> QED BY <2>1, <2>2
<1>7. ASSUME NEW t \in Threads, CallStep(t) PROVE Dead'
  <2>1. \E p : p # "close" /\ Goto(t, p)
    BY <1>7, CleanSteps DEF CallStep, Close, Closed, Send, SendCheck, SendDone
  <2>2. \A x \in Threads \ {t} : arg'[x] = arg[x]
    BY <1>1, <1>7, CleanSteps DEF CallStep, Close, Closed, Send, SendCheck, SendDone, Leave
  <2>3. \A x \in Socks : modem'[x].st \in {modem[x].st, "idle"}
    <3>1. CASE Close(t)
      BY <1>1, <1>5, <3>1 DEF Close
    <3>2. modem' = modem \/ Close(t)
      BY <1>7, CleanSteps DEF CallStep, Closed, Send, SendCheck, SendDone, modVars
    <3> QED BY <3>1, <3>2
  <2> QED BY <1>1, <1>2, <1>4, <2>1, <2>2, <2>3 DEF Goto
<1>8. CASE ModemStep
  <2> PICK s \in Socks : ConnectDone(s) \/ PeerCloses(s) \/ DataIn(s)
    BY <1>8 DEF ModemStep
  <2>1. UNCHANGED <<pc, arg>>
    BY DEF ConnectDone, PeerCloses, DataIn
  <2>2. \A x \in Links : pc[x] = "close" => modem'[arg[x]].st \in {modem[arg[x]].st, "idle"}
    <3>1. CASE ConnectDone(s)
      <4>1. modem[s].st = "opening" /\ \A x \in Socks \ {s} : modem'[x] = modem[x]
        BY <1>1, <3>1 DEF ConnectDone
      <4> QED BY <1>2, <4>1
    <3>2. CASE PeerCloses(s) \/ DataIn(s)
      <4>1. modem' = modem \/ modem' = [modem EXCEPT ![s] = Idle]
        BY <3>2 DEF PeerCloses, DataIn
      <4> QED BY <1>1, <1>2, <4>1
    <3> QED BY <3>1, <3>2
  <2> QED BY <1>4, <2>1, <2>2
<1>9. CASE Parse \/ Elapse
  <2>1. UNCHANGED <<pc, arg, modem>>
    BY <1>9 DEF Parse, ParseCode, ParseConnect, ParseClose, StatClear, StatFill, ParseData,
                Elapse, modVars
  <2> QED BY <1>4, <2>1
<1> QED BY <1>6, <1>7, <1>8, <1>9 DEF Next

LEMMA InitIInv == Init => IInv
<1> SUFFICES ASSUME Init PROVE IInv
  OBVIOUS
<1>1. AnyInv
  BY InitAnyInv
<1>2. /\ DOMAIN out = {} /\ \A n \in Links : fd[n] = NoSock
      /\ power /\ \A t \in Threads : pc[t] = IF t \in Links THEN "start" ELSE "work"
      /\ Links \subseteq Threads /\ Workers \subseteq Threads /\ Links \cap Workers = {}
  <2>1. DOMAIN out = {}
    BY DEF Init
  <2> QED BY <2>1, GprsAssumption DEF Init, Threads
<1>3. AnswerInv /\ OpenInv /\ HeldInv /\ TaskInv /\ NoLiveClose
  BY <1>2 DEF AnswerInv, OpenInv, HeldInv, TaskInv, NoLiveClose, Closing
<1> QED BY <1>1, <1>3 DEF IInv, CleanInv

LEMMA StepIInv == IInv /\ [Next]_vars => IInv'
<1> SUFFICES ASSUME IInv, [Next]_vars PROVE IInv'
  OBVIOUS
<1>1. AnyInv'
  BY StepAnyInv DEF IInv
<1>2. CASE Next
  <2>1. Clean' => Clean
    BY <1>2, MishapsStay DEF Clean, Without
  <2>2. Clean' => CleanInv'
    BY <1>2, <2>1, StepAnswerInv, StepTaskInv, StepOpenInv, StepHeldInv DEF IInv, CleanInv
  <2>3. Clean' => NoLiveClose'
    BY <1>2, <2>1, StepNoLiveClose DEF IInv
  <2>4. ~Clean' => NoLiveClose'
    BY DEF Clean, Without, NoLiveClose
  <2> QED BY <1>1, <2>2, <2>3, <2>4 DEF IInv
<1>3. CASE UNCHANGED vars
  <2>1. UNCHANGED <<fd, pc, arg, lock, used, eConn, srv, ans, torn, power, modem, out, mishaps>>
    BY <1>3 DEF vars, sockVars, evtVars, modVars, cntVars
  <2>2. (Clean => CleanInv)'
    BY <2>1 DEF IInv, Clean, Without, CleanInv, AnswerInv, TaskInv, OpenInv, HeldInv
  <2>3. NoLiveClose'
    BY <2>1 DEF IInv, NoLiveClose, Without
  <2> QED BY <1>1, <2>2, <2>3 DEF IInv
<1> QED BY <1>2, <1>3

LEMMA IInvHolds == Spec => []IInv
BY InitIInv, StepIInv, PTL DEF Spec

\* Until a command is answered late, a buffer is missing, the modem is cycled
\* or a worker drops a link: what tcp_fd says is the link's own socket, for the
\* table of the links' side and for the modem, though prvGetFreeSocket,
\* prvReleaseSocket and the assignments to tcp_fd are in different threads.
THEOREM SocketsAreOwn == Spec => []SocketIsOwn
<1>1. IInv => SocketIsOwn
  BY DEF IInv, Clean, CleanInv, HeldInv, SocketIsOwn
<1> QED BY <1>1, IInvHolds, PTL

\* Until then, what onGPRSTcpRecv is given goes to the link the modem received it
\* for: what was sent on an earlier connection of the socket has been taken
\* before the socket is another link's.
THEOREM DataGoesToOwner == Spec => []DataToOwner
<1>1. IInv => DataToOwner
  <2> SUFFICES ASSUME IInv, Clean, out # <<>>, Report.kind = "data",
                      NEW n \in Takers(Report.sock)
               PROVE  n = Report.from
    BY DEF DataToOwner, Clean
  <2>1. Report = out[1] /\ 1 \in DOMAIN out /\ Report \in Reports
    BY TailTypes DEF IInv, AnyInv
  <2>2. n \in Links /\ fd[n] = Report.sock /\ Report.sock \in Socks
    BY <2>1, ReportsAre DEF Takers
  <2> QED BY <2>1, <2>2, GprsAssumption DEF IInv, CleanInv, HeldInv
<1> QED BY <1>1, IInvHolds, PTL

\* And as long as the table was not read while it was filled in either, the
\* close that bGPRS_SocketState makes a link ask for is never for a connection
\* that works, whoever asked the modem and when the answer came.
THEOREM LiveNotClosed == Spec => []NoLiveClose
<1>1. IInv => NoLiveClose
  BY DEF IInv
<1> QED BY <1>1, IInvHolds, PTL
===============================================================================
