---------------------------- MODULE MbMaster_proofs ----------------------------
(***************************************************************************)
(* Proofs about MbMaster for every set of threads and every number of      *)
(* requests: the port never jams, and as long as nothing comes at the      *)
(* wrong moment it carries one request at a time and gives every thread    *)
(* its own answer.                                                         *)
(***************************************************************************)
EXTENDS MbMaster, SequenceTheorems, FiniteSetTheorems, TLAPS

\* The threads suspended on the response events are those that wait.
WaitInv ==
    /\ \A i \in DOMAIN waitq : st[waitq[i]] = "wait"
    /\ \A i, j \in DOMAIN waitq : i # j => waitq[i] # waitq[j]
    /\ \A t \in Threads : st[t] = "wait" => \E i \in DOMAIN waitq : waitq[i] = t

\* Every request has a number of its own.
NumInv ==
    /\ pdu <= last
    /\ \A t \in Threads : /\ st[t] = "idle" <=> cur[t] = 0
                          /\ cur[t] <= last
    /\ \A t, u \in Threads : t # u /\ cur[t] = cur[u] => cur[t] = 0

\* An outcome nobody has received yet stands for a permit more.
PermitInv == Permits >= (IF rsp = {} THEN 1 ELSE 2)

\* Nothing goes on at the port.
Quiet == ev = {} /\ poll \in {"get", "blocked"} /\ ~timer

\* The poll thread has the request e before it, or the bit is pending.
At(e) == (ev = {e} /\ poll = "get") \/ (ev = {} /\ poll = e)

\* The way of a posted request through the poll thread.
Going ==
    \/ ~timer /\ At("sent")
    \/ ~timer /\ poll = "armed" /\ ev = {}
    \/ ~timer /\ poll = "armed" /\ ev = {"received"} /\ buf = pdu /\ pdu \notin wire
    \/ timer /\ poll \in {"get", "blocked"} /\ ev = {}
    \/ timer /\ At("received") /\ buf = pdu /\ pdu \notin wire
    \/ ~timer /\ At("execute") /\ buf = pdu /\ frm = "reply"
    \/ ~timer /\ At("error")

\* As long as nothing has come at the wrong moment.
CleanInv ==
    /\ rsp = {}
    /\ \A t, u \in Holders : t = u
    /\ sem = IF Holders = {} /\ poll # "release" THEN 1 ELSE 0
    /\ poll = "release" => Holders = {} /\ ev = {} /\ ~timer
    /\ poll # "release" /\ (\A t \in Holders : st[t] \in {"fill", "post"}) => Quiet
    /\ \A t \in Threads : st[t] \in {"post", "recv", "wait"} => pdu = cur[t]
    /\ \A t \in Threads : st[t] \in {"recv", "wait"} => Going
    /\ \A t \in Threads : st[t] = "done" /\ Status(got[t]) = "success" => cur[t] \in executed

IInv == TypeOK /\ WaitInv /\ NumInv /\ PermitInv /\ (clean => CleanInv)

-------------------------------------------------------------------------------
(* Types.                                                                   *)

\* What the poll thread posts, and what the request threads and the interrupt
\* post, keeps the types of the event object.
LEMMA PostType ==
    ASSUME TypeOK, NEW e \in Events, Post(e) \/ PollPost(e)
    PROVE  ev' \in SUBSET Events /\ poll' \in Events \cup {"get", "blocked", "armed", "failed", "release"}
BY DEF TypeOK, Post, PollPost

LEMMA RespondType ==
    ASSUME TypeOK, NEW r \in Results, Respond(r)
    PROVE  /\ st' \in [Threads -> {"idle", "take", "fill", "post", "recv", "wait", "done"}]
           /\ got' \in [Threads -> SUBSET Results]
           /\ rsp' \in SUBSET Results
           /\ waitq' \in Seq(Threads)
           /\ clean' \in BOOLEAN
<1>1. clean' \in BOOLEAN
  BY DEF TypeOK, Respond
<1>2. CASE waitq = <<>>
  BY <1>1, <1>2 DEF TypeOK, Respond
<1>3. CASE waitq # <<>>
  <2>1. Head(waitq) \in Threads /\ Tail(waitq) \in Seq(Threads)
    BY <1>3 DEF TypeOK
  <2>2. {r} \in SUBSET Results
    OBVIOUS
  <2> QED
    BY <1>1, <1>3, <2>1, <2>2 DEF TypeOK, Respond
<1> QED
  BY <1>2, <1>3

LEMMA RequestType ==
    ASSUME TypeOK, NEW t \in Threads, Request(t)
    PROVE  TypeOK'
<1> USE MbAssumption
<1>1. CASE Take(t)
  <2>1. last + 1 \in 0 .. MaxReq
    BY <1>1 DEF Take, TypeOK
  <2>2. sem' \in Nat
    BY <1>1 DEF Take, TypeOK
  <2> QED
    BY <1>1, <2>1, <2>2 DEF Take, TypeOK, bufVars, rspVars
<1>2. CASE Fill(t)
  BY <1>2 DEF Fill, TypeOK, rspVars
<1>3. CASE PostSent(t)
  <2>1. ev' \in SUBSET Events /\ poll' \in Events \cup {"get", "blocked", "armed", "failed", "release"}
    BY <1>3, PostType DEF PostSent, Events
  <2> QED
    BY <1>3, <2>1 DEF PostSent, TypeOK, bufVars, rspVars
<1>4. CASE Recv(t)
  <2>1. waitq' \in Seq(Threads)
    <3>1. Append(waitq, t) \in Seq(Threads)
      BY DEF TypeOK
    <3> QED
      BY <1>4, <3>1 DEF Recv, TypeOK
  <2> QED
    BY <1>4, <2>1 DEF Recv, TypeOK, bufVars
<1>5. CASE WaitTimeout(t)
  <2>1. ev' \in SUBSET Events /\ poll' \in Events \cup {"get", "blocked", "armed", "failed", "release"}
    BY <1>5, PostType DEF WaitTimeout, Events
  <2>2. waitq' \in Seq(Threads)
    <3>1. PICK i \in DOMAIN waitq : waitq' = SubSeq(waitq, 1, i - 1) \o SubSeq(waitq, i + 1, Len(waitq))
      BY <1>5 DEF WaitTimeout
    <3>2. SubSeq(waitq, 1, i - 1) \in Seq(Threads) /\ SubSeq(waitq, i + 1, Len(waitq)) \in Seq(Threads)
      BY DEF TypeOK
    <3> QED
      BY <3>1, <3>2
  <2>3. err' \in Errors
    BY <1>5 DEF WaitTimeout, Errors
  <2> QED
    BY <1>5, <2>1, <2>2, <2>3 DEF WaitTimeout, TypeOK, bufVars
<1>6. CASE Return(t)
  BY <1>6 DEF Return, TypeOK, bufVars, rspVars
<1> QED
  BY <1>1, <1>2, <1>3, <1>4, <1>5, <1>6 DEF Request

LEMMA PollType ==
    ASSUME TypeOK, eMBMasterPoll
    PROVE  TypeOK'
<1> USE MbAssumption
<1> USE DEF reqVars, bufVars, rspVars
<1>1. CASE Get
  BY <1>1 DEF Get, TypeOK
<1>2. CASE Receive
  <2>1. ev' \in SUBSET Events /\ poll' \in Events \cup {"get", "blocked", "armed", "failed", "release"}
    BY <1>2, PostType DEF Receive, Events
  <2> QED
    BY <1>2, <2>1 DEF Receive, TypeOK, Errors
<1>3. CASE Execute
  <2>1. CASE poll' = "release" /\ Respond("success") /\ executed' = executed \cup Answered
             /\ UNCHANGED <<ev, err>>
    <3>1. Answered \subseteq Reqs
      BY DEF Answered, TypeOK, Reqs
    <3> QED
      BY <1>3, <2>1, <3>1, RespondType DEF Execute, TypeOK, Results
  <2>2. CASE err' = "function" /\ PollPost("error")
             /\ UNCHANGED <<st, got, rspVars, executed, clean>>
    <3>1. ev' \in SUBSET Events /\ poll' \in Events \cup {"get", "blocked", "armed", "failed", "release"}
      BY <2>2, PostType DEF Events
    <3> QED
      BY <1>3, <2>2, <3>1 DEF Execute, TypeOK, Errors
  <2> QED
    BY <1>3, <2>1, <2>2 DEF Execute
<1>4. CASE Send
  BY <1>4 DEF Send, TypeOK
<1>5. CASE Arm
  <2>1. ev' \in SUBSET Events /\ poll' \in Events \cup {"get", "blocked", "armed", "failed", "release"}
    BY <1>5, PostType DEF Arm, Events, TypeOK
  <2> QED
    BY <1>5, <2>1 DEF Arm, TypeOK
<1>6. CASE ErrorProcess
  <2>1. err \in Results
    BY DEF TypeOK, Results
  <2> QED
    BY <1>6, <2>1, RespondType DEF ErrorProcess, TypeOK
<1>7. CASE Release
  BY <1>7 DEF Release, TypeOK
<1> QED
  BY <1>1, <1>2, <1>3, <1>4, <1>5, <1>6, <1>7 DEF eMBMasterPoll

LEMMA OutsideType ==
    ASSUME TypeOK, Expire \/ \E i \in Reqs : Arrive(i) \/ ArrivePart(i)
    PROVE  TypeOK'
<1> USE MbAssumption
<1>1. ev' \in SUBSET Events /\ poll' \in Events \cup {"get", "blocked", "armed", "failed", "release"}
  BY PostType DEF Expire, Arrive, ArrivePart, Events
<1>2. CASE Expire
  BY <1>1, <1>2 DEF Expire, TypeOK, Errors, reqVars, bufVars, rspVars
<1>3. CASE \E i \in Reqs : Arrive(i)
  BY <1>1, <1>3 DEF Arrive, TypeOK, Reqs, reqVars, rspVars
<1>4. ASSUME NEW i \in Reqs, ArrivePart(i)
      PROVE  TypeOK'
  <2>1. torn' \in SUBSET Reqs /\ wire' \in SUBSET Reqs
    BY <1>4 DEF ArrivePart, TypeOK
  <2>2. parts' \in 0 .. MaxPart
    BY <1>4 DEF ArrivePart, TypeOK
  <2>3. buf' \in 0 .. MaxReq /\ clean' \in BOOLEAN
    <3>1. buf' = 0 /\ clean' = FALSE
      BY <1>4 DEF ArrivePart
    <3>2. 0 \in 0 .. MaxReq
      OBVIOUS
    <3> QED
      BY <3>1, <3>2
  <2>4. UNCHANGED <<sem, st, cur, got, last, pdu, frm, err, timer, rsp, waitq, executed>>
    BY <1>4 DEF ArrivePart, reqVars, rspVars
  <2> QED
    BY <1>1, <2>1, <2>2, <2>3, <2>4 DEF TypeOK
<1> QED
  BY <1>2, <1>3, <1>4

LEMMA NextType ==
    ASSUME TypeOK, [Next]_vars
    PROVE  TypeOK'
<1>1. CASE UNCHANGED vars
  <2>1. /\ UNCHANGED <<sem, st, cur, got, last, pdu, frm, buf, torn, parts, ev, poll>>
        /\ UNCHANGED <<err, timer, rsp, waitq, wire, executed, clean>>
    BY <1>1 DEF vars, reqVars, bufVars, rspVars
  <2> QED
    BY <2>1 DEF TypeOK
<1> QED
  BY <1>1, RequestType, PollType, OutsideType DEF Next

-------------------------------------------------------------------------------
(* The threads that wait, and the numbers of the requests.                  *)

\* The longest waiting thread, if there is one, gets the outcome.
LEMMA RespondStep ==
    ASSUME TypeOK, WaitInv, NEW r \in Results, Respond(r)
    PROVE  \/ /\ waitq = <<>> /\ rsp' = rsp \cup {r}
              /\ UNCHANGED <<st, got, waitq>>
           \/ \E u \in Threads :
                 /\ st[u] = "wait"
                 /\ st' = [st EXCEPT ![u] = "done"]
                 /\ got' = [got EXCEPT ![u] = {r}]
                 /\ waitq # <<>> /\ u = waitq[1] /\ waitq' = Tail(waitq)
                 /\ UNCHANGED rsp
<1>1. CASE waitq = <<>>
  BY <1>1 DEF Respond
<1>2. CASE waitq # <<>>
  <2>1. 1 \in DOMAIN waitq /\ Head(waitq) = waitq[1] /\ waitq[1] \in Threads
    BY <1>2 DEF TypeOK
  <2>2. st[waitq[1]] = "wait"
    BY <2>1 DEF WaitInv
  <2> QED
    BY <1>2, <2>1, <2>2 DEF Respond
<1> QED
  BY <1>1, <1>2

\* A step that leaves the queue alone, and with it the threads that wait.
LEMMA WaitFrame ==
    ASSUME TypeOK, WaitInv, waitq' = waitq,
           \A t \in Threads : st'[t] = "wait" <=> st[t] = "wait"
    PROVE  WaitInv'
<1>1. \A i \in DOMAIN waitq : waitq[i] \in Threads
  BY DEF TypeOK
<1> QED
  BY <1>1 DEF WaitInv

LEMMA RespondKeepsWait ==
    ASSUME TypeOK, WaitInv, NEW r \in Results, Respond(r)
    PROVE  WaitInv'
<1>1. CASE UNCHANGED <<st, waitq>>
  BY <1>1, WaitFrame
<1>2. ASSUME NEW u \in Threads, waitq # <<>>, u = waitq[1], waitq' = Tail(waitq),
             st' = [st EXCEPT ![u] = "done"]
      PROVE  WaitInv'
  <2>1. waitq \in Seq(Threads) /\ Len(waitq) \in Nat \ {0} /\ DOMAIN waitq = 1 .. Len(waitq)
    BY <1>2 DEF TypeOK
  <2>2. DOMAIN waitq' = 1 .. (Len(waitq) - 1)
    BY <1>2, <2>1
  <2>3. \A i \in DOMAIN waitq' : i + 1 \in DOMAIN waitq /\ waitq'[i] = waitq[i + 1]
    BY <1>2, <2>1, <2>2
  <2>4. \A t \in Threads : st'[t] = IF t = u THEN "done" ELSE st[t]
    BY <1>2 DEF TypeOK
  <2>5. \A i \in DOMAIN waitq' : st'[waitq'[i]] = "wait"
    <3>1. \A i \in DOMAIN waitq' : waitq'[i] \in Threads /\ waitq'[i] # u /\ st[waitq'[i]] = "wait"
      BY <1>2, <2>1, <2>2, <2>3 DEF WaitInv
    <3> QED
      BY <2>4, <3>1
  <2>6. \A i, j \in DOMAIN waitq' : i # j => waitq'[i] # waitq'[j]
    BY <2>1, <2>2, <2>3 DEF WaitInv
  <2>7. ASSUME NEW t \in Threads, st'[t] = "wait"
        PROVE  \E i \in DOMAIN waitq' : waitq'[i] = t
    <3>1. st[t] = "wait" /\ t # u
      BY <2>4, <2>7
    <3>2. PICK k \in DOMAIN waitq : waitq[k] = t
      BY <3>1 DEF WaitInv
    <3>3. k - 1 \in DOMAIN waitq' /\ (k - 1) + 1 = k
      BY <1>2, <2>1, <2>2, <3>1, <3>2
    <3> QED
      BY <2>3, <3>2, <3>3
  <2> QED
    BY <2>5, <2>6, <2>7 DEF WaitInv
<1> QED
  BY <1>1, <1>2, RespondStep

LEMMA RecvKeepsWait ==
    ASSUME TypeOK, WaitInv, NEW t \in Threads, Recv(t)
    PROVE  WaitInv'
<1>1. CASE rsp # {}
  <2>1. \A u \in Threads : st'[u] = IF u = t THEN "done" ELSE st[u]
    BY <1>1 DEF Recv, TypeOK
  <2>2. waitq' = waitq /\ st[t] # "wait"
    BY <1>1 DEF Recv
  <2> QED
    BY <2>1, <2>2, WaitFrame
<1>2. CASE rsp = {}
  <2>1. waitq' = Append(waitq, t) /\ st[t] = "recv"
    BY <1>2 DEF Recv
  <2>2. \A u \in Threads : st'[u] = IF u = t THEN "wait" ELSE st[u]
    BY <1>2 DEF Recv, TypeOK
  <2>3. waitq \in Seq(Threads) /\ Len(waitq) \in Nat /\ DOMAIN waitq = 1 .. Len(waitq)
    BY DEF TypeOK
  <2>4. DOMAIN waitq' = 1 .. (Len(waitq) + 1)
    BY <2>1, <2>3
  <2>5. /\ \A i \in DOMAIN waitq : i \in DOMAIN waitq' /\ waitq'[i] = waitq[i]
        /\ waitq'[Len(waitq) + 1] = t
    BY <2>1, <2>3, <2>4
  <2>6. \A i \in DOMAIN waitq : waitq[i] \in Threads /\ waitq[i] # t /\ st[waitq[i]] = "wait"
    BY <2>1, <2>3 DEF WaitInv
  <2>7. \A i \in DOMAIN waitq' : i \in DOMAIN waitq \/ i = Len(waitq) + 1
    BY <2>3, <2>4
  <2>8. \A i \in DOMAIN waitq' : st'[waitq'[i]] = "wait"
    BY <2>2, <2>5, <2>6, <2>7
  <2>9. \A i, j \in DOMAIN waitq' : i # j => waitq'[i] # waitq'[j]
    BY <2>5, <2>6, <2>7 DEF WaitInv
  <2>10. ASSUME NEW u \in Threads, st'[u] = "wait"
         PROVE  \E i \in DOMAIN waitq' : waitq'[i] = u
    <3>1. CASE u = t
      BY <2>3, <2>4, <2>5, <3>1
    <3>2. CASE u # t
      BY <2>2, <2>5, <2>10, <3>2 DEF WaitInv
    <3> QED
      BY <3>1, <3>2
  <2> QED
    BY <2>8, <2>9, <2>10 DEF WaitInv
<1> QED
  BY <1>1, <1>2

LEMMA TimeoutKeepsWait ==
    ASSUME TypeOK, WaitInv, NEW t \in Threads, WaitTimeout(t)
    PROVE  WaitInv'
<1>1. PICK k \in DOMAIN waitq :
          /\ waitq[k] = t
          /\ waitq' = SubSeq(waitq, 1, k - 1) \o SubSeq(waitq, k + 1, Len(waitq))
  BY DEF WaitTimeout
<1>2. \A u \in Threads : st'[u] = IF u = t THEN "recv" ELSE st[u]
  BY DEF WaitTimeout, TypeOK
<1> DEFINE n == Len(waitq)
           a == SubSeq(waitq, 1, k - 1)
           b == SubSeq(waitq, k + 1, n)
<1>3. n \in Nat /\ DOMAIN waitq = 1 .. n /\ k \in 1 .. n /\ waitq \in Seq(Threads)
  BY DEF TypeOK
<1>4. /\ a \in Seq(Threads) /\ b \in Seq(Threads)
      /\ Len(a) = k - 1 /\ \A i \in 1 .. (k - 1) : a[i] = waitq[i]
      /\ Len(b) = n - k /\ \A i \in 1 .. (n - k) : b[i] = waitq[k + i]
  <2>1. /\ a \in Seq(Threads) /\ Len(a) = k - 1
        /\ \A i \in 1 .. (k - 1) : a[i] = waitq[i]
    BY <1>3
  <2>2. b \in Seq(Threads)
    BY <1>3
  <2>3. Len(b) = n - k
    BY <1>3
  <2>4. \A i \in 1 .. (n - k) : b[i] = waitq[(k + 1) + i - 1]
    BY <1>3
  <2>5. \A i \in 1 .. (n - k) : (k + 1) + i - 1 = k + i
    BY <1>3
  <2> QED
    BY <2>1, <2>2, <2>3, <2>4, <2>5
<1> HIDE DEF a, b
<1>5. /\ DOMAIN waitq' = 1 .. (n - 1)
      /\ \A i \in 1 .. (n - 1) : waitq'[i] = IF i < k THEN waitq[i] ELSE waitq[i + 1]
  <2>1. waitq' = a \o b
    BY <1>1 DEF a, b
  <2>2. Len(a \o b) = n - 1 /\ DOMAIN (a \o b) = 1 .. (n - 1)
    <3>1. Len(a \o b) = Len(a) + Len(b) /\ a \o b \in Seq(Threads)
      BY <1>4, ConcatProperties
    <3>2. Len(a) + Len(b) = n - 1
      BY <1>3, <1>4
    <3> QED
      BY <3>1, <3>2
  <2>3. ASSUME NEW i \in 1 .. (n - 1)
        PROVE  (a \o b)[i] = IF i < k THEN waitq[i] ELSE waitq[i + 1]
    <3>1. CASE i < k
      <4>1. (a \o b)[i] = a[i]
        BY <1>3, <1>4, <3>1
      <4> QED
        BY <1>3, <1>4, <3>1, <4>1
    <3>2. CASE ~(i < k)
      <4>1. (a \o b)[i] = b[i - (k - 1)]
        BY <1>3, <1>4, <3>2
      <4>2. i - (k - 1) \in 1 .. (n - k) /\ k + (i - (k - 1)) = i + 1
        BY <1>3, <3>2
      <4> QED
        BY <1>3, <1>4, <3>2, <4>1, <4>2
    <3> QED
      BY <3>1, <3>2
  <2> QED
    BY <2>1, <2>2, <2>3
<1> DEFINE old(i) == IF i < k THEN i ELSE i + 1
<1>6. \A i \in DOMAIN waitq' : old(i) \in DOMAIN waitq /\ old(i) # k /\ waitq'[i] = waitq[old(i)]
  BY <1>3, <1>5
<1>7. \A i, j \in DOMAIN waitq' : i # j => old(i) # old(j)
  BY <1>3, <1>5
<1>8. \A i \in DOMAIN waitq : i # k => \E j \in DOMAIN waitq' : old(j) = i
  <2>1. SUFFICES ASSUME NEW i \in DOMAIN waitq, i # k
                 PROVE  \E j \in DOMAIN waitq' : old(j) = i
    OBVIOUS
  <2>2. CASE i < k
    BY <1>3, <1>5, <2>2
  <2>3. CASE i > k
    <3>1. i - 1 \in DOMAIN waitq' /\ old(i - 1) = i
      BY <1>3, <1>5, <2>3
    <3> QED
      BY <3>1
  <2> QED
    BY <1>3, <2>1, <2>2, <2>3
<1> HIDE DEF old
<1>9. \A i \in DOMAIN waitq' : st'[waitq'[i]] = "wait"
  <2>1. \A i \in DOMAIN waitq : waitq[i] \in Threads
    BY <1>3
  <2>2. ASSUME NEW i \in DOMAIN waitq'
        PROVE  waitq'[i] \in Threads /\ waitq'[i] # t /\ st[waitq'[i]] = "wait"
    <3>1. old(i) \in DOMAIN waitq /\ old(i) # k /\ waitq'[i] = waitq[old(i)]
      BY <1>6
    <3>2. waitq[old(i)] # waitq[k]
      BY <3>1 DEF WaitInv
    <3> QED
      BY <1>1, <2>1, <3>1, <3>2 DEF WaitInv
  <2> QED
    BY <1>2, <2>2
<1>10. \A i, j \in DOMAIN waitq' : i # j => waitq'[i] # waitq'[j]
  BY <1>6, <1>7 DEF WaitInv
<1>11. \A u \in Threads : st'[u] = "wait" => \E i \in DOMAIN waitq' : waitq'[i] = u
  <2>1. SUFFICES ASSUME NEW u \in Threads, st'[u] = "wait"
                 PROVE  \E i \in DOMAIN waitq' : waitq'[i] = u
    OBVIOUS
  <2>2. st[u] = "wait" /\ u # t
    BY <1>2, <2>1
  <2>3. PICK i \in DOMAIN waitq : waitq[i] = u
    BY <2>2 DEF WaitInv
  <2>4. i # k
    BY <1>1, <2>2, <2>3
  <2> QED
    BY <1>6, <1>8, <2>3, <2>4
<1> QED
  BY <1>9, <1>10, <1>11 DEF WaitInv

\* The steps of the poll thread that leave every request thread where it is.
LEMMA PollStill ==
    ASSUME TypeOK, Get \/ Receive \/ Send \/ Arm
    PROVE  /\ UNCHANGED <<sem, st, cur, got, last, pdu, rsp, waitq, executed>>
           /\ poll' # "release" /\ poll # "release"
BY MbAssumption DEF Get, Receive, Send, Arm, PollPost, Events, TypeOK,
                    reqVars, bufVars, rspVars

\* A failing handler leaves them there as well.
LEMMA ExecuteCases ==
    ASSUME Execute
    PROVE  \/ /\ poll = "execute" /\ poll' = "release"
              /\ Respond("success") /\ executed' = executed \cup Answered
              /\ UNCHANGED <<sem, cur, last, pdu, frm, buf, ev, err, timer, wire>>
           \/ /\ poll = "execute" /\ poll' = "get" /\ ev' = ev \cup {"error"}
              /\ err' = "function"
              /\ UNCHANGED <<sem, st, cur, got, last, pdu, frm, buf, rsp, waitq, timer,
                             wire, executed, clean>>
BY DEF Execute, PollPost, bufVars, rspVars

LEMMA OutsideStill ==
    ASSUME TypeOK, Expire \/ \E i \in Reqs : Arrive(i) \/ ArrivePart(i)
    PROVE  /\ UNCHANGED <<sem, st, cur, got, last, pdu, rsp, waitq, executed>>
           /\ poll' = "release" <=> poll = "release"
BY DEF Expire, Arrive, ArrivePart, Post, reqVars, bufVars, rspVars

LEMMA NextWait ==
    ASSUME TypeOK, WaitInv, [Next]_vars
    PROVE  WaitInv'
<1>1. ASSUME NEW t \in Threads, Take(t) \/ Fill(t) \/ PostSent(t) \/ Return(t)
      PROVE  WaitInv'
  <2>1. waitq' = waitq
    BY <1>1 DEF Take, Fill, PostSent, Return, rspVars
  <2>2. \A u \in Threads : st'[u] = "wait" <=> st[u] = "wait"
    BY <1>1 DEF Take, Fill, PostSent, Return, TypeOK
  <2> QED
    BY <2>1, <2>2, WaitFrame
<1>2. CASE UNCHANGED <<st, waitq>>
  BY <1>2, WaitFrame
<1>3. CASE Execute
  <2>1. "success" \in Results
    BY DEF Results
  <2> QED
    BY <1>2, <1>3, <2>1, ExecuteCases, RespondKeepsWait
<1>4. CASE ErrorProcess
  <2>1. err \in Results
    BY DEF TypeOK, Results
  <2> QED
    BY <1>4, <2>1, RespondKeepsWait DEF ErrorProcess
<1>5. CASE Release
  <2>1. waitq' = waitq
    BY <1>5 DEF Release, rspVars
  <2>2. \A u \in Threads : st'[u] = "wait" <=> st[u] = "wait"
    BY <1>5 DEF Release, TypeOK
  <2> QED
    BY <2>1, <2>2, WaitFrame
<1>6. CASE UNCHANGED vars
  BY <1>2, <1>6 DEF vars, reqVars, rspVars
<1> QED
  BY <1>1, <1>2, <1>3, <1>4, <1>5, <1>6, RecvKeepsWait, TimeoutKeepsWait, PollStill,
     OutsideStill DEF Next, Request, eMBMasterPoll

\* A step that moves threads between places other than "idle".
LEMMA NumFrame ==
    ASSUME TypeOK, NumInv, UNCHANGED <<cur, last, pdu>>,
           \A t \in Threads : st'[t] = "idle" <=> st[t] = "idle"
    PROVE  NumInv'
BY DEF NumInv

LEMMA RespondKeepsNum ==
    ASSUME TypeOK, WaitInv, NumInv, NEW r \in Results, Respond(r), UNCHANGED <<cur, last, pdu>>
    PROVE  NumInv'
<1>1. \A t \in Threads : st'[t] = "idle" <=> st[t] = "idle"
  BY RespondStep DEF TypeOK
<1> QED
  BY <1>1, NumFrame

LEMMA NextNum ==
    ASSUME TypeOK, WaitInv, NumInv, [Next]_vars
    PROVE  NumInv'
<1>1. ASSUME NEW t \in Threads, Take(t)
      PROVE  NumInv'
  <2>1. \A u \in Threads : cur'[u] = IF u = t THEN last + 1 ELSE cur[u]
    BY <1>1 DEF Take, TypeOK
  <2>2. \A u \in Threads : st'[u] = "idle" <=> u # t /\ st[u] = "idle"
    BY <1>1 DEF Take, TypeOK
  <2>3. last' = last + 1 /\ pdu' = pdu
    BY <1>1 DEF Take, bufVars
  <2>4. last \in Nat /\ pdu \in Nat /\ \A u \in Threads : cur[u] \in Nat
    BY MbAssumption DEF TypeOK
  <2> QED
    BY <2>1, <2>2, <2>3, <2>4 DEF NumInv
<1>2. ASSUME NEW t \in Threads, Return(t)
      PROVE  NumInv'
  <2>1. \A u \in Threads : cur'[u] = IF u = t THEN 0 ELSE cur[u]
    BY <1>2 DEF Return, TypeOK
  <2>2. \A u \in Threads : st'[u] = "idle" <=> u = t \/ st[u] = "idle"
    BY <1>2 DEF Return, TypeOK
  <2>3. last' = last /\ pdu' = pdu /\ last \in Nat
    BY <1>2, MbAssumption DEF Return, bufVars, TypeOK
  <2> QED
    BY <2>1, <2>2, <2>3 DEF NumInv
<1>3. ASSUME NEW t \in Threads, Fill(t)
      PROVE  NumInv'
  <2>1. \A u \in Threads : st'[u] = "idle" <=> st[u] = "idle"
    BY <1>3 DEF Fill, TypeOK
  <2>2. pdu' = cur[t] /\ cur' = cur /\ last' = last
    BY <1>3 DEF Fill
  <2> QED
    BY <2>1, <2>2 DEF NumInv
<1>4. ASSUME NEW t \in Threads, PostSent(t) \/ Recv(t) \/ WaitTimeout(t)
      PROVE  NumInv'
  <2>1. \A u \in Threads : st'[u] = "idle" <=> st[u] = "idle"
    BY <1>4 DEF PostSent, Recv, WaitTimeout, TypeOK
  <2>2. UNCHANGED <<cur, last, pdu>>
    BY <1>4 DEF PostSent, Recv, WaitTimeout, bufVars
  <2> QED
    BY <2>1, <2>2, NumFrame
<1>5. CASE UNCHANGED <<st, cur, last, pdu>>
  BY <1>5, NumFrame
<1>6. CASE Execute
  <2>1. "success" \in Results
    BY DEF Results
  <2> QED
    BY <1>5, <1>6, <2>1, ExecuteCases, RespondKeepsNum
<1>7. CASE ErrorProcess
  <2>1. err \in Results
    BY DEF TypeOK, Results
  <2> QED
    BY <1>7, <2>1, RespondKeepsNum DEF ErrorProcess
<1>8. CASE Release
  <2>1. \A u \in Threads : st'[u] = "idle" <=> st[u] = "idle"
    BY <1>8 DEF Release, TypeOK
  <2> QED
    BY <1>8, <2>1, NumFrame DEF Release, bufVars
<1>9. CASE UNCHANGED vars
  BY <1>5, <1>9 DEF vars, reqVars, bufVars
<1> QED
  BY <1>1, <1>2, <1>3, <1>4, <1>5, <1>6, <1>7, <1>8, <1>9, PollStill, OutsideStill
     DEF Next, Request, eMBMasterPoll

-------------------------------------------------------------------------------
(* The permit.                                                              *)

Inside == {"fill", "post", "recv", "wait"}

LEMMA HoldersFinite ==
    /\ IsFiniteSet(Holders) /\ Cardinality(Holders) \in Nat
    /\ IsFiniteSet(Holders') /\ Cardinality(Holders') \in Nat
<1>1. Holders \subseteq Threads /\ Holders' \subseteq Threads
  BY DEF Holders
<1> QED
  BY <1>1, MbAssumption, FS_Subset, FS_CardinalityType

\* A step in which no thread gets or gives away a permit, ...
LEMMA HoldersSame ==
    ASSUME \A t \in Threads : st'[t] \in Inside <=> st[t] \in Inside
    PROVE  Holders' = Holders
BY DEF Holders, Inside

\* ... in which one gets a permit, and in which one gives it away.
LEMMA HoldersMore ==
    ASSUME TypeOK, NEW u \in Threads, NEW p \in Inside, st[u] \notin Inside,
           st' = [st EXCEPT ![u] = p]
    PROVE  Holders' = Holders \cup {u} /\ Cardinality(Holders') = Cardinality(Holders) + 1
<1>1. \A t \in Threads : st'[t] = IF t = u THEN p ELSE st[t]
  BY DEF TypeOK
<1>2. Holders' = Holders \cup {u} /\ u \notin Holders
  BY <1>1 DEF Holders, Inside
<1> QED
  BY <1>2, HoldersFinite, FS_AddElement

LEMMA HoldersLess ==
    ASSUME TypeOK, NEW u \in Threads, st[u] \in Inside,
           st' = [st EXCEPT ![u] = "done"]
    PROVE  Holders' = Holders \ {u} /\ Cardinality(Holders') = Cardinality(Holders) - 1
<1>1. \A t \in Threads : st'[t] = IF t = u THEN "done" ELSE st[t]
  BY DEF TypeOK
<1>2. Holders' = Holders \ {u} /\ u \in Holders
  BY <1>1 DEF Holders, Inside
<1> QED
  BY <1>2, HoldersFinite, FS_RemoveElement

LEMMA PermitFrame ==
    ASSUME TypeOK, PermitInv, UNCHANGED <<sem, rsp>>,
           poll' = "release" <=> poll = "release",
           \A t \in Threads : st'[t] \in Inside <=> st[t] \in Inside
    PROVE  PermitInv'
BY HoldersSame DEF PermitInv, Permits

\* The poll thread reports an outcome and goes to release a permit.
LEMMA RespondKeepsPermit ==
    ASSUME TypeOK, WaitInv, PermitInv, NEW r \in Results, Respond(r),
           sem' = sem, poll # "release", poll' = "release"
    PROVE  PermitInv'
<1>1. sem \in Nat /\ Cardinality(Holders) \in Nat
  BY HoldersFinite DEF TypeOK
<1>2. CASE rsp' = rsp \cup {r} /\ st' = st
  <2>1. Holders' = Holders
    BY <1>2 DEF Holders
  <2> QED
    BY <1>1, <1>2, <2>1 DEF PermitInv, Permits
<1>3. ASSUME NEW u \in Threads, st[u] = "wait", st' = [st EXCEPT ![u] = "done"], rsp' = rsp
      PROVE  PermitInv'
  <2>1. Cardinality(Holders') = Cardinality(Holders) - 1
    BY <1>3, HoldersLess DEF Inside
  <2> QED
    BY <1>1, <1>3, <2>1 DEF PermitInv, Permits
<1> QED
  BY <1>2, <1>3, RespondStep

LEMMA NextPermit ==
    ASSUME TypeOK, WaitInv, PermitInv, [Next]_vars
    PROVE  PermitInv'
<1>0. sem \in Nat /\ Cardinality(Holders) \in Nat
  BY HoldersFinite DEF TypeOK
<1>1. ASSUME NEW t \in Threads, Take(t)
      PROVE  PermitInv'
  <2>1. UNCHANGED <<rsp, poll>>
    BY <1>1 DEF Take, rspVars
  <2>2. CASE sem > 0
    <3>1. sem' = sem - 1 /\ st' = [st EXCEPT ![t] = "fill"] /\ st[t] = "idle"
      BY <1>1, <2>2 DEF Take
    <3>2. Cardinality(Holders') = Cardinality(Holders) + 1
      BY <3>1, HoldersMore DEF Inside
    <3> QED
      BY <1>0, <2>1, <3>1, <3>2 DEF PermitInv, Permits
  <2>3. CASE ~(sem > 0)
    <3>1. sem' = sem
      BY <1>1, <2>3 DEF Take
    <3>2. \A u \in Threads : st'[u] \in Inside <=> st[u] \in Inside
      BY <1>1, <2>3 DEF Take, TypeOK, Inside
    <3> QED
      BY <2>1, <3>1, <3>2, PermitFrame
  <2> QED
    BY <2>2, <2>3
<1>2. ASSUME NEW t \in Threads, Fill(t) \/ PostSent(t) \/ WaitTimeout(t) \/ Return(t)
      PROVE  PermitInv'
  <2>1. UNCHANGED <<sem, rsp>>
    BY <1>2 DEF Fill, PostSent, WaitTimeout, Return, rspVars
  <2>2. poll' = "release" <=> poll = "release"
    BY <1>2 DEF Fill, PostSent, WaitTimeout, Return, Post
  <2>3. \A u \in Threads : st'[u] \in Inside <=> st[u] \in Inside
    BY <1>2 DEF Fill, PostSent, WaitTimeout, Return, TypeOK, Inside
  <2> QED
    BY <2>1, <2>2, <2>3, PermitFrame
<1>3. ASSUME NEW t \in Threads, Recv(t)
      PROVE  PermitInv'
  <2>1. UNCHANGED <<sem, poll>> /\ st[t] = "recv"
    BY <1>3 DEF Recv
  <2>2. CASE rsp = {}
    <3>1. rsp' = rsp
      BY <1>3, <2>2 DEF Recv
    <3>2. \A u \in Threads : st'[u] \in Inside <=> st[u] \in Inside
      BY <1>3, <2>2 DEF Recv, TypeOK, Inside
    <3> QED
      BY <2>1, <3>1, <3>2, PermitFrame
  <2>3. CASE rsp # {}
    <3>1. rsp' = {} /\ st' = [st EXCEPT ![t] = "done"]
      BY <1>3, <2>3 DEF Recv
    <3>2. Cardinality(Holders') = Cardinality(Holders) - 1
      BY <2>1, <3>1, HoldersLess DEF Inside
    <3> QED
      BY <1>0, <2>1, <2>3, <3>1, <3>2 DEF PermitInv, Permits
  <2> QED
    BY <2>2, <2>3
<1>4. CASE UNCHANGED <<st, sem, rsp>> /\ (poll' = "release" <=> poll = "release")
  BY <1>4, PermitFrame
<1>5. CASE Execute
  <2>1. "success" \in Results
    BY DEF Results
  <2> QED
    BY <1>4, <1>5, <2>1, ExecuteCases, RespondKeepsPermit
<1>6. CASE ErrorProcess
  <2>1. err \in Results
    BY DEF TypeOK, Results
  <2> QED
    BY <1>6, <2>1, RespondKeepsPermit DEF ErrorProcess
<1>7. CASE Release
  <2>1. poll = "release" /\ poll' # "release" /\ rsp' = rsp
    BY <1>7 DEF Release, rspVars
  <2>2. ASSUME NEW t \in Threads, st[t] = "take", st' = [st EXCEPT ![t] = "fill"], sem' = sem
        PROVE  PermitInv'
    <3>1. Cardinality(Holders') = Cardinality(Holders) + 1
      BY <2>2, HoldersMore DEF Inside
    <3> QED
      BY <1>0, <2>1, <2>2, <3>1 DEF PermitInv, Permits
  <2>3. CASE sem' = sem + 1 /\ st' = st
    <3>1. Holders' = Holders
      BY <2>3 DEF Holders
    <3> QED
      BY <1>0, <2>1, <2>3, <3>1 DEF PermitInv, Permits
  <2> QED
    BY <1>7, <2>2, <2>3 DEF Release
<1>8. CASE UNCHANGED vars
  BY <1>4, <1>8 DEF vars, reqVars, rspVars
<1> QED
  BY <1>1, <1>2, <1>3, <1>4, <1>5, <1>6, <1>7, <1>8, PollStill, OutsideStill
     DEF Next, Request, eMBMasterPoll

-------------------------------------------------------------------------------
(* As long as nothing comes at the wrong moment: the poll thread.           *)

\* A step that leaves the requests where they are.
LEMMA CleanFrame ==
    ASSUME CleanInv, UNCHANGED <<sem, st, cur, got, pdu, rsp, executed>>,
           poll # "release", poll' # "release",
           Quiet => Quiet', Going => Going'
    PROVE  CleanInv'
<1>1. Holders' = Holders
  BY DEF Holders
<1> QED
  BY <1>1 DEF CleanInv

\* An event means that a posted request is on its way, and nobody else's.
LEMMA OnTheWay ==
    ASSUME CleanInv, poll # "release", ~Quiet
    PROVE  Going /\ \E t \in Holders : st[t] \in {"recv", "wait"}
<1>1. PICK t \in Holders : st[t] \notin {"fill", "post"}
  BY DEF CleanInv
<1>2. t \in Threads /\ st[t] \in {"recv", "wait"}
  BY <1>1 DEF Holders
<1> QED
  BY <1>1, <1>2 DEF CleanInv

LEMMA GetClean ==
    ASSUME TypeOK, CleanInv, Get
    PROVE  CleanInv'
<1>1. UNCHANGED <<sem, st, cur, got, pdu, rsp, executed, frm, buf, timer, wire>>
  BY DEF Get, reqVars, bufVars, rspVars
<1>2. poll = "get" /\ poll' # "release"
  BY MbAssumption DEF Get, Events, TypeOK
<1>3. \A e : Cardinality({e}) = 1
  BY FS_Singleton
<1>4. Cardinality({}) = 0
  BY FS_EmptySet
<1>5. Quiet => Quiet'
  BY <1>1, <1>4 DEF Quiet, Get
<1>6. ASSUME NEW e, ev = {e}
      PROVE  ev' = {} /\ poll' = e
  <2>1. Cardinality(ev) = 1
    BY <1>3, <1>6
  <2> QED
    BY <1>6, <2>1 DEF Get
<1>7. ASSUME NEW e \in Events, At(e)
      PROVE  At(e)'
  <2>1. ev = {e}
    BY <1>2, <1>7 DEF At, Events
  <2> QED
    BY <1>6, <2>1 DEF At
<1>8. Going => Going'
  <2>1. ASSUME timer /\ ev = {}
        PROVE  timer' /\ poll' = "blocked" /\ ev' = {}
    BY <1>1, <1>4, <2>1 DEF Get
  <2> QED
    BY <1>1, <1>2, <1>7, <2>1 DEF Going, Events
<1> QED
  BY <1>1, <1>2, <1>5, <1>8, CleanFrame

LEMMA ReceiveClean ==
    ASSUME TypeOK, CleanInv, Receive
    PROVE  CleanInv'
<1>1. UNCHANGED <<sem, st, cur, got, pdu, rsp, executed, buf>>
  BY DEF Receive, reqVars, rspVars
<1>2. poll = "received" /\ poll' = "get" /\ ~timer'
  BY DEF Receive, PollPost
<1>3. ~Quiet
  BY <1>2 DEF Quiet
<1>4. timer /\ ev = {} /\ buf = pdu
  BY <1>2, <1>3, OnTheWay DEF Going, At
<1>5. (ev' = {"execute"} /\ frm' = "reply") \/ ev' = {"error"}
  BY <1>4 DEF Receive, PollPost
<1>6. Going'
  BY <1>1, <1>2, <1>4, <1>5 DEF Going, At
<1> QED
  BY <1>1, <1>2, <1>3, <1>6, CleanFrame

LEMMA SendClean ==
    ASSUME TypeOK, CleanInv, Send, clean'
    PROVE  CleanInv'
<1>1. UNCHANGED <<sem, st, cur, got, pdu, rsp, executed, timer, ev>>
  BY DEF Send, reqVars, rspVars
<1>2. poll = "sent" /\ poll' = "armed"
  BY DEF Send
<1>3. ~Quiet
  BY <1>2 DEF Quiet
<1>4. ~timer /\ ev = {}
  BY <1>2, <1>3, OnTheWay DEF Going, At
<1>5. Going'
  BY <1>1, <1>2, <1>4 DEF Going, At
<1> QED
  BY <1>1, <1>2, <1>3, <1>5, CleanFrame

LEMMA ArmClean ==
    ASSUME TypeOK, CleanInv, Arm
    PROVE  CleanInv'
<1>1. UNCHANGED <<sem, st, cur, got, pdu, rsp, executed, buf, wire>>
  BY DEF Arm, reqVars, bufVars, rspVars
<1>2. poll \in {"armed", "failed"} /\ poll' = "get" /\ timer'
  BY DEF Arm, PollPost
<1>3. ~Quiet
  BY <1>2 DEF Quiet
<1>4. Going
  BY <1>2, <1>3, OnTheWay
<1>5. poll = "armed" /\ (ev = {} \/ (ev = {"received"} /\ buf = pdu /\ pdu \notin wire))
  BY <1>2, <1>4 DEF Going, At
<1>6. ev' = ev
  BY <1>5 DEF Arm
<1>7. Going'
  BY <1>1, <1>2, <1>5, <1>6 DEF Going, At
<1> QED
  BY <1>1, <1>2, <1>3, <1>7, CleanFrame

LEMMA ExpireClean ==
    ASSUME TypeOK, CleanInv, Expire, clean'
    PROVE  CleanInv'
<1>1. UNCHANGED <<sem, st, cur, got, pdu, rsp, executed>>
  BY DEF Expire, reqVars, bufVars, rspVars
<1>2. timer /\ ~timer' /\ "received" \notin ev /\ poll # "received"
  BY DEF Expire
<1>3. ~Quiet /\ poll # "release"
  BY <1>2 DEF Quiet, CleanInv
<1>4. poll \in {"get", "blocked"} /\ ev = {}
  BY <1>2, <1>3, OnTheWay DEF Going, At
<1>5. \/ poll' = "error" /\ ev' = {}
      \/ poll' = "get" /\ ev' = {"error"}
  BY <1>4 DEF Expire, Post
<1>6. Going'
  BY <1>2, <1>5 DEF Going, At
<1> QED
  BY <1>1, <1>3, <1>5, <1>6, CleanFrame

LEMMA ArriveClean ==
    ASSUME TypeOK, CleanInv, NEW i \in Reqs, Arrive(i), clean'
    PROVE  CleanInv'
<1>1. UNCHANGED <<sem, st, cur, got, pdu, rsp, executed, timer>>
  BY DEF Arrive, reqVars, rspVars
<1>2. /\ i = pdu /\ (timer \/ poll = "armed")
      /\ pdu \in wire /\ pdu' \notin wire' /\ buf' = pdu'
  BY <1>1 DEF Arrive, Awaited
<1>3. ~Quiet /\ poll # "release"
  BY <1>2 DEF Quiet, CleanInv
<1>4. ev = {} /\ (\/ timer /\ poll \in {"get", "blocked"}
                  \/ ~timer /\ poll = "armed")
  BY <1>2, <1>3, OnTheWay DEF Going, At
<1>5. CASE poll = "blocked"
  <2>1. poll' = "received" /\ ev' = {}
    BY <1>4, <1>5 DEF Arrive, Post
  <2>2. Going'
    BY <1>1, <1>2, <1>4, <1>5, <2>1 DEF Going, At
  <2> QED
    BY <1>1, <1>3, <2>1, <2>2, CleanFrame
<1>6. CASE poll # "blocked"
  <2>1. poll' = poll /\ ev' = {"received"}
    BY <1>4, <1>6 DEF Arrive, Post
  <2>2. Going'
    BY <1>1, <1>2, <1>4, <1>6, <2>1 DEF Going, At
  <2> QED
    BY <1>1, <1>3, <2>1, <2>2, CleanFrame
<1> QED
  BY <1>5, <1>6

-------------------------------------------------------------------------------
(* As long as nothing comes at the wrong moment: outcomes and the permit.   *)

\* The outcome goes to the one thread that is inside a request.
LEMMA RespondClean ==
    ASSUME TypeOK, WaitInv, NumInv, CleanInv, NEW r \in Results, Respond(r), clean',
           poll # "release", poll' = "release",
           UNCHANGED <<sem, cur, pdu, ev, timer>>,
           ev = {}, ~timer, \E t \in Holders : st[t] \in {"recv", "wait"},
           executed \subseteq executed',
           r = "success" => \A t \in Holders : cur[t] \in executed'
    PROVE  CleanInv'
<1>1. PICK t \in Holders : st[t] \in {"recv", "wait"}
  OBVIOUS
<1>2. t \in Threads /\ st[t] = "wait"
  BY <1>1 DEF Respond, Holders
<1>3. waitq # <<>>
  <2>1. PICK i \in DOMAIN waitq : waitq[i] = t
    BY <1>2 DEF WaitInv
  <2> QED
    BY <2>1
<1>4. PICK u \in Threads :
          /\ st[u] = "wait"
          /\ st' = [st EXCEPT ![u] = "done"]
          /\ got' = [got EXCEPT ![u] = {r}]
          /\ UNCHANGED rsp
  BY <1>3, RespondStep
<1>5. u \in Holders
  BY <1>4 DEF Holders
<1>6. u = t /\ Holders = {t} /\ sem = 0
  BY <1>1, <1>5 DEF CleanInv
<1>7. Holders' = {}
  BY <1>4, <1>6, HoldersLess DEF Inside
<1>8. /\ \A v \in Threads : st'[v] = IF v = t THEN "done" ELSE st[v]
      /\ \A v \in Threads : got'[v] = IF v = t THEN {r} ELSE got[v]
  BY <1>4, <1>6 DEF TypeOK
<1>9. Status({r}) = r
  BY FS_Singleton DEF Status
<1>10. \A v \in Threads : st'[v] = "done" /\ Status(got'[v]) = "success" => cur[v] \in executed'
  BY <1>1, <1>8, <1>9 DEF CleanInv
<1>11. \A v \in Threads : st'[v] \notin {"fill", "post", "recv", "wait"}
  BY <1>7 DEF Holders
<1>12. rsp' = {}
  BY <1>4 DEF CleanInv
<1> QED
  BY <1>6, <1>7, <1>10, <1>11, <1>12 DEF CleanInv, Status

LEMMA ExecuteClean ==
    ASSUME TypeOK, WaitInv, NumInv, CleanInv, Execute, clean'
    PROVE  CleanInv'
<1>1. poll = "execute"
  BY DEF Execute
<1>2. ~Quiet
  BY <1>1 DEF Quiet
<1>3. Going /\ \E t \in Holders : st[t] \in {"recv", "wait"}
  BY <1>1, <1>2, OnTheWay
<1>4. ev = {} /\ ~timer /\ buf = pdu /\ frm = "reply"
  BY <1>1, <1>3 DEF Going, At
<1>5. CASE /\ poll' = "release"
           /\ Respond("success") /\ executed' = executed \cup Answered
           /\ UNCHANGED <<sem, cur, last, pdu, frm, buf, ev, err, timer, wire>>
  <2>1. \A t \in Holders : cur[t] \in Answered
    <3>1. SUFFICES ASSUME NEW t \in Holders
                   PROVE  cur[t] \in Answered
      OBVIOUS
    <3>2. t \in Threads /\ st[t] \in {"recv", "wait"}
      BY <1>3 DEF Holders, CleanInv
    <3>3. cur[t] = buf /\ buf # 0
      BY <1>4, <3>2 DEF CleanInv, NumInv
    <3> QED
      BY <1>4, <3>2, <3>3 DEF Answered
  <2>2. "success" \in Results
    BY DEF Results
  <2> QED
    BY <1>1, <1>3, <1>4, <1>5, <2>1, <2>2, RespondClean
<1>6. CASE /\ poll' = "get" /\ ev' = ev \cup {"error"}
           /\ UNCHANGED <<sem, st, cur, got, last, pdu, rsp, executed, timer>>
  <2>1. Going'
    BY <1>4, <1>6 DEF Going, At
  <2> QED
    BY <1>1, <1>2, <1>6, <2>1, CleanFrame
<1> QED
  BY <1>5, <1>6, ExecuteCases

LEMMA ErrorClean ==
    ASSUME TypeOK, WaitInv, NumInv, CleanInv, ErrorProcess, clean'
    PROVE  CleanInv'
<1>1. poll = "error" /\ poll' = "release" /\ Respond(err)
  BY DEF ErrorProcess
<1>2. ~Quiet
  BY <1>1 DEF Quiet
<1>3. Going /\ \E t \in Holders : st[t] \in {"recv", "wait"}
  BY <1>1, <1>2, OnTheWay
<1>4. ev = {} /\ ~timer
  BY <1>1, <1>3 DEF Going, At
<1>5. err \in Results /\ err # "success"
  BY DEF TypeOK, Results, Errors
<1>6. UNCHANGED <<sem, cur, pdu, ev, timer, executed>>
  BY DEF ErrorProcess
<1> QED
  BY <1>1, <1>3, <1>4, <1>5, <1>6, RespondClean

LEMMA ReleaseClean ==
    ASSUME TypeOK, CleanInv, Release
    PROVE  CleanInv'
<1>1. /\ poll = "release" /\ poll' = "get"
      /\ UNCHANGED <<cur, got, pdu, ev, timer, rsp, executed>>
  BY DEF Release, bufVars, rspVars
<1>2. Holders = {} /\ ev = {} /\ ~timer /\ sem = 0
  BY <1>1 DEF CleanInv
<1>3. Quiet'
  BY <1>1, <1>2 DEF Quiet
<1>4. ASSUME NEW t \in Threads, st[t] = "take", st' = [st EXCEPT ![t] = "fill"], sem' = sem
      PROVE  CleanInv'
  <2>1. Holders' = {t}
    BY <1>2, <1>4, HoldersMore DEF Inside
  <2>2. \A u \in Threads : st'[u] = IF u = t THEN "fill" ELSE st[u]
    BY <1>4 DEF TypeOK
  <2>3. \A u \in Threads : st'[u] \notin {"post", "recv", "wait"}
    BY <1>2, <2>2 DEF Holders
  <2>4. \A u \in Threads : st'[u] = "done" /\ Status(got'[u]) = "success" => cur'[u] \in executed'
    BY <1>1, <2>2 DEF CleanInv
  <2> QED
    BY <1>1, <1>2, <1>3, <1>4, <2>1, <2>3, <2>4 DEF CleanInv, Status
<1>5. CASE sem' = sem + 1 /\ st' = st
  <2>1. Holders' = {} /\ sem' = 1
    BY <1>2, <1>5 DEF Holders
  <2>2. \A u \in Threads : st'[u] \notin {"post", "recv", "wait"}
    BY <1>2, <1>5 DEF Holders
  <2>3. \A u \in Threads : st'[u] = "done" /\ Status(got'[u]) = "success" => cur'[u] \in executed'
    BY <1>1, <1>5 DEF CleanInv
  <2> QED
    BY <1>1, <1>3, <2>1, <2>2, <2>3 DEF CleanInv, Status
<1> QED
  BY <1>4, <1>5 DEF Release

-------------------------------------------------------------------------------
(* As long as nothing comes at the wrong moment: the requests.              *)

LEMMA TakeClean ==
    ASSUME TypeOK, CleanInv, NEW t \in Threads, Take(t)
    PROVE  CleanInv'
<1>1. /\ st[t] = "idle"
      /\ UNCHANGED <<got, pdu, frm, buf, ev, poll, timer, rsp, wire, executed>>
  BY DEF Take, bufVars, rspVars
<1>2. /\ \A u \in Threads : u # t => st'[u] = st[u] /\ cur'[u] = cur[u]
      /\ st'[t] \in {"fill", "take"}
  BY DEF Take, TypeOK
<1>3. CASE sem > 0
  <2>1. sem' = sem - 1 /\ st' = [st EXCEPT ![t] = "fill"]
    BY <1>3 DEF Take
  <2>2. Holders = {} /\ poll # "release" /\ sem = 1
    BY <1>3 DEF CleanInv
  <2>3. Holders' = {t}
    BY <1>1, <2>1, <2>2, HoldersMore DEF Inside
  <2>4. Quiet'
    BY <1>1, <2>2 DEF CleanInv, Quiet
  <2>5. \A u \in Threads : st'[u] \notin {"post", "recv", "wait"}
    BY <1>2, <2>2 DEF Holders
  <2>6. \A u \in Threads : st'[u] = "done" /\ Status(got'[u]) = "success" => cur'[u] \in executed'
    BY <1>1, <1>2 DEF CleanInv
  <2> QED
    BY <1>1, <2>1, <2>2, <2>3, <2>4, <2>5, <2>6 DEF CleanInv, Status
<1>4. CASE ~(sem > 0)
  <2>1. sem' = sem /\ st' = [st EXCEPT ![t] = "take"]
    BY <1>4 DEF Take
  <2>2. st'[t] = "take"
    BY <2>1 DEF TypeOK
  <2>3. Holders' = Holders /\ \A u \in Holders : u \in Threads /\ st'[u] = st[u]
    BY <1>1, <1>2, <2>2 DEF Holders
  <2>4. Going' = Going /\ Quiet' = Quiet
    BY <1>1 DEF Going, At, Quiet
  <2>5. \A u \in Threads : st'[u] \in {"post", "recv", "wait", "done"} =>
            st'[u] = st[u] /\ cur'[u] = cur[u]
    BY <1>2, <2>2
  <2>6. \A u \in Threads : st'[u] = "done" /\ Status(got'[u]) = "success" => cur'[u] \in executed'
    BY <1>1, <2>5 DEF CleanInv
  <2>7. \A u \in Threads : st'[u] \in {"post", "recv", "wait"} => pdu' = cur'[u]
    BY <1>1, <2>5 DEF CleanInv
  <2>8. \A u \in Threads : st'[u] \in {"recv", "wait"} => Going'
    BY <2>4, <2>5 DEF CleanInv
  <2> QED
    BY <1>1, <2>1, <2>3, <2>4, <2>6, <2>7, <2>8 DEF CleanInv, Status
<1> QED
  BY <1>3, <1>4

\* A thread with the permit goes on: it is the only one.
LEMMA Alone ==
    ASSUME CleanInv, NEW t \in Threads, st[t] \in Inside
    PROVE  /\ Holders = {t} /\ poll # "release"
           /\ \A u \in Threads : u # t => st[u] \notin Inside
           /\ st[t] \in {"fill", "post"} => Quiet
<1>1. t \in Holders
  BY DEF Holders, Inside
<1>2. Holders = {t}
  BY <1>1 DEF CleanInv
<1>3. \A u \in Threads : st[u] \in Inside => u \in Holders
  BY DEF Holders, Inside
<1> QED
  BY <1>1, <1>2, <1>3 DEF CleanInv

LEMMA FillClean ==
    ASSUME TypeOK, CleanInv, NEW t \in Threads, Fill(t)
    PROVE  CleanInv'
<1>1. /\ st[t] = "fill" /\ pdu' = cur[t]
      /\ UNCHANGED <<sem, cur, got, ev, poll, timer, rsp, executed>>
  BY DEF Fill, rspVars
<1>2. \A u \in Threads : st'[u] = IF u = t THEN "post" ELSE st[u]
  BY DEF Fill, TypeOK
<1>3. Holders = {t} /\ poll # "release" /\ Quiet /\ \A u \in Threads : u # t => st[u] \notin Inside
  BY <1>1, Alone DEF Inside
<1>4. Holders' = Holders
  BY <1>1, <1>2, HoldersSame DEF Inside
<1>5. Quiet'
  BY <1>1, <1>3 DEF Quiet
<1>6. \A u \in Threads : st'[u] \in Inside => u = t
  BY <1>2, <1>3
<1>7. \A u \in Threads : st'[u] = "done" /\ Status(got'[u]) = "success" => cur'[u] \in executed'
  BY <1>1, <1>2 DEF CleanInv
<1>8. \A u \in Threads : st'[u] \in {"post", "recv", "wait"} => u = t /\ st'[u] = "post"
  BY <1>2, <1>6 DEF Inside
<1> QED
  BY <1>1, <1>3, <1>4, <1>5, <1>7, <1>8 DEF CleanInv, Status

LEMMA PostClean ==
    ASSUME TypeOK, CleanInv, NEW t \in Threads, PostSent(t)
    PROVE  CleanInv'
<1>1. /\ st[t] = "post" /\ Post("sent")
      /\ UNCHANGED <<sem, cur, got, pdu, timer, rsp, executed>>
  BY DEF PostSent, bufVars, rspVars
<1>2. \A u \in Threads : st'[u] = IF u = t THEN "recv" ELSE st[u]
  BY DEF PostSent, TypeOK
<1>3. Holders = {t} /\ poll # "release" /\ Quiet /\ \A u \in Threads : u # t => st[u] \notin Inside
  BY <1>1, Alone DEF Inside
<1>4. Holders' = {t}
  BY <1>1, <1>2, <1>3, HoldersSame DEF Inside
<1>5. Going' /\ poll' # "release"
  BY <1>1, <1>3 DEF Quiet, Post, Going, At
<1>6. \A u \in Threads : st'[u] \in Inside => u = t
  BY <1>2, <1>3
<1>7. \A u \in Threads : st'[u] = "done" /\ Status(got'[u]) = "success" => cur'[u] \in executed'
  BY <1>1, <1>2 DEF CleanInv
<1>8. \A u \in Threads : st'[u] \in {"post", "recv", "wait"} => pdu' = cur'[u]
  BY <1>1, <1>6 DEF CleanInv, Inside
<1>9. st'[t] \notin {"fill", "post"}
  BY <1>2
<1> QED
  BY <1>1, <1>3, <1>4, <1>5, <1>7, <1>8, <1>9 DEF CleanInv, Status

LEMMA RecvClean ==
    ASSUME TypeOK, CleanInv, NEW t \in Threads, Recv(t)
    PROVE  CleanInv'
<1>1. rsp = {} /\ st[t] = "recv"
  BY DEF CleanInv, Recv
<1>2. UNCHANGED <<sem, cur, got, pdu, frm, buf, ev, poll, timer, rsp, wire, executed>>
  BY <1>1 DEF Recv, bufVars
<1>3. \A u \in Threads : st'[u] = IF u = t THEN "wait" ELSE st[u]
  BY <1>1 DEF Recv, TypeOK
<1>4. Holders' = Holders
  BY <1>1, <1>3, HoldersSame DEF Inside
<1>5. Going' = Going /\ Quiet' = Quiet
  BY <1>2 DEF Going, At, Quiet
<1>6. \A u \in Threads : st'[u] = "done" /\ Status(got'[u]) = "success" => cur'[u] \in executed'
  BY <1>2, <1>3 DEF CleanInv
<1>7. \A u \in Threads : /\ st'[u] \in {"post", "recv", "wait"} => pdu' = cur'[u]
                         /\ st'[u] \in {"recv", "wait"} => Going'
  BY <1>1, <1>2, <1>3, <1>5 DEF CleanInv
<1>8. \A u \in Holders : u \in Threads
  BY DEF Holders
<1>9. (\A u \in Holders : st'[u] \in {"fill", "post"}) => \A u \in Holders : st[u] \in {"fill", "post"}
  BY <1>1, <1>3, <1>8
<1> QED
  BY <1>2, <1>4, <1>5, <1>6, <1>7, <1>9 DEF CleanInv, Status

LEMMA ReturnClean ==
    ASSUME TypeOK, NumInv, CleanInv, NEW t \in Threads, Return(t)
    PROVE  CleanInv'
<1>1. /\ st[t] = "done" /\ executed' = executed \ {cur[t]}
      /\ UNCHANGED <<sem, pdu, frm, buf, ev, poll, timer, rsp, wire>>
  BY DEF Return, bufVars, rspVars
<1>2. \A u \in Threads : /\ st'[u] = IF u = t THEN "idle" ELSE st[u]
                         /\ u # t => cur'[u] = cur[u] /\ got'[u] = got[u]
  BY DEF Return, TypeOK
<1>3. Holders' = Holders /\ \A u \in Holders : u \in Threads /\ st'[u] = st[u]
  BY <1>1, <1>2 DEF Holders
<1>4. Going' = Going /\ Quiet' = Quiet
  BY <1>1 DEF Going, At, Quiet
<1>5. ASSUME NEW u \in Threads, st'[u] = "done", Status(got'[u]) = "success"
      PROVE  cur'[u] \in executed'
  <2>1. u # t /\ st[u] = "done" /\ cur[u] \in executed
    BY <1>2, <1>5 DEF CleanInv
  <2>2. cur[u] # cur[t]
    BY <2>1 DEF NumInv
  <2> QED
    BY <1>1, <1>2, <2>1, <2>2
<1>6. \A u \in Threads : /\ st'[u] \in {"post", "recv", "wait"} => pdu' = cur'[u]
                         /\ st'[u] \in {"recv", "wait"} => Going'
  BY <1>1, <1>2, <1>4 DEF CleanInv
<1> QED
  BY <1>1, <1>3, <1>4, <1>5, <1>6 DEF CleanInv, Status

LEMMA NextClean ==
    ASSUME TypeOK, WaitInv, NumInv, clean => CleanInv, [Next]_vars
    PROVE  clean' => CleanInv'
<1>1. SUFFICES ASSUME clean'
               PROVE  CleanInv'
  OBVIOUS
<1>2. ASSUME NEW t \in Threads, Request(t)
      PROVE  CleanInv'
  <2>1. clean /\ ~WaitTimeout(t)
    BY <1>1, <1>2 DEF Request, Take, Fill, PostSent, Recv, WaitTimeout, Return
  <2> QED
    BY <1>2, <2>1, TakeClean, FillClean, PostClean, RecvClean, ReturnClean DEF Request
<1>3. CASE eMBMasterPoll
  <2>1. clean
    BY <1>1, <1>3 DEF eMBMasterPoll, Get, Receive, Execute, Send, Arm, ErrorProcess,
                      Release, Respond
  <2> QED
    BY <1>1, <1>3, <2>1, GetClean, ReceiveClean, ExecuteClean, SendClean, ArmClean,
       ErrorClean, ReleaseClean DEF eMBMasterPoll
<1>4. CASE Expire \/ \E i \in Reqs : Arrive(i) \/ ArrivePart(i)
  <2>1. clean /\ \A i \in Reqs : ~ArrivePart(i)
    BY <1>1, <1>4 DEF Expire, Arrive, ArrivePart
  <2> QED
    BY <1>1, <1>4, <2>1, ExpireClean, ArriveClean
<1>5. CASE UNCHANGED vars
  <2>1. UNCHANGED <<reqVars, bufVars, ev, poll, timer, rspVars, wire, executed, clean>>
    BY <1>5 DEF vars
  <2>2. UNCHANGED <<sem, st, cur, got, pdu, frm, buf, ev, poll, timer, rsp, wire, executed, clean>>
    BY <2>1 DEF reqVars, bufVars, rspVars
  <2>3. Holders' = Holders /\ Going' = Going /\ Quiet' = Quiet
    BY <2>2 DEF Holders, Going, At, Quiet
  <2> QED
    BY <1>1, <2>2, <2>3 DEF CleanInv, Status
<1> QED
  BY <1>2, <1>3, <1>4, <1>5 DEF Next

-------------------------------------------------------------------------------
(* The theorems.                                                            *)

LEMMA InitIInv == Init => IInv
<1> SUFFICES ASSUME Init PROVE IInv
  OBVIOUS
<1>1. /\ sem = 1 /\ rsp = {} /\ waitq = <<>> /\ poll = "get" /\ pdu = 0 /\ last = 0
      /\ ev = {} /\ ~timer
      /\ \A t \in Threads : st[t] = "idle" /\ cur[t] = 0
  BY DEF Init
<1>2. TypeOK
  <2>1. waitq \in Seq(Threads) /\ sem \in Nat /\ 0 \in 0 .. MaxReq /\ 0 \in 0 .. MaxPart
    BY <1>1, MbAssumption
  <2>2. /\ st \in [Threads -> {"idle", "take", "fill", "post", "recv", "wait", "done"}]
        /\ got \in [Threads -> SUBSET Results]
    BY DEF Init
  <2>3. cur \in [Threads -> 0 .. MaxReq]
    BY <2>1 DEF Init
  <2> QED
    BY <2>1, <2>2, <2>3 DEF Init, TypeOK, Events, Errors
<1>3. WaitInv /\ NumInv
  BY <1>1 DEF WaitInv, NumInv
<1>4. Holders = {} /\ Cardinality(Holders) = 0
  BY <1>1, FS_EmptySet DEF Holders
<1>5. PermitInv
  BY <1>1, <1>4 DEF PermitInv, Permits
<1>6. CleanInv
  BY <1>1, <1>4 DEF CleanInv, Quiet
<1> QED
  BY <1>2, <1>3, <1>5, <1>6 DEF IInv

LEMMA NextIInv == IInv /\ [Next]_vars => IInv'
BY NextType, NextWait, NextNum, NextPermit, NextClean DEF IInv

LEMMA Invariance == Spec => []IInv
BY InitIInv, NextIInv, PTL DEF Spec

\* The variables of the port keep their types: a request has a number, the
\* outcome a thread is told is one of the four of portevent_m.c.
THEOREM TypeCorrect == Spec => []TypeOK
<1>1. IInv => TypeOK
  BY DEF IInv
<1> QED
  BY Invariance, <1>1, PTL

\* Whatever is lost, late or in collision, xMasterRunRes is free, in the hands
\* of a request, or about to be released: no request waits for it for ever
\* while none is under way.
THEOREM NeverJams == Spec => []PermitKept
<1>1. IInv => PermitKept
  <2>1. ASSUME IInv PROVE PermitKept
    BY <2>1, HoldersFinite DEF IInv, PermitInv, PermitKept, Permits, TypeOK
  <2> QED
    BY <2>1
<1> QED
  BY Invariance, <1>1, PTL

\* Until something comes at the wrong moment, there is one permit: the send
\* buffer, the timer and the response events belong to one request at a time.
THEOREM OneRequestAtATime == Spec => []OnePermit
<1>1. IInv => OnePermit
  <2>1. SUFFICES ASSUME IInv, clean
                 PROVE  Permits = 1 /\ rsp = {}
    BY DEF OnePermit
  <2>2. CleanInv
    BY <2>1 DEF IInv
  <2>3. CASE Holders = {}
    <3>1. Cardinality(Holders) = 0
      BY <2>3, FS_EmptySet
    <3> QED
      BY <2>2, <2>3, <3>1 DEF CleanInv, Permits
  <2>4. CASE Holders # {}
    <3>1. PICK t : t \in Holders
      BY <2>4
    <3>2. \A u \in Holders : u = t
      BY <2>2, <3>1 DEF CleanInv
    <3>3. Holders = {t}
      BY <3>1, <3>2
    <3>4. Cardinality(Holders) = 1
      BY <3>3, FS_Singleton
    <3> QED
      BY <2>2, <2>4, <3>4 DEF CleanInv, Permits
  <2> QED
    BY <2>3, <2>4
<1> QED
  BY Invariance, <1>1, PTL

\* Until then, the answer that is executed is the one to the request in the
\* send buffer, and a request reported as successful has had its own answer.
THEOREM AnswersAreOwn == Spec => []OwnAnswer
<1>1. IInv => OwnAnswer
  <2>1. SUFFICES ASSUME IInv, clean
                 PROVE  /\ poll = "execute" => frm = "reply" /\ buf = pdu
                        /\ \A t \in Threads :
                              st[t] = "done" /\ Status(got[t]) = "success" => cur[t] \in executed
    BY DEF OwnAnswer
  <2>2. CleanInv
    BY <2>1 DEF IInv
  <2>3. ASSUME poll = "execute"
        PROVE  frm = "reply" /\ buf = pdu
    <3>1. Going
      BY <2>2, <2>3, OnTheWay DEF Quiet
    <3> QED
      BY <2>3, <3>1 DEF Going, At
  <2> QED
    BY <2>2, <2>3 DEF CleanInv
<1> QED
  BY Invariance, <1>1, PTL
===============================================================================
