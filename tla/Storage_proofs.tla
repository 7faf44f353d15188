----------------------------- MODULE Storage_proofs -----------------------------
(***************************************************************************)
(* Proofs about Storage for every set of threads, every length of the      *)
(* queue and every limit of the table.                                     *)
(***************************************************************************)
EXTENDS Storage, SequenceTheorems, FiniteSetTheorems, TLAPS

\* t is s without its oldest rows, as StoreSpec allows.
Cut(t, s) ==
    \E k \in 0 .. Len(s) : /\ k = 0 \/ Len(s) - k >= Limit + 1 - DelNum
                           /\ t = SubSeq(s, k + 1, Len(s))

\* __relimit_table, CREATE TABLE and bStorageDoCommit run under the mutex, which
\* bStorageDoCommit has asked for.
LockInv ==
    /\ pc[Keeper] = "relimit" => Owns(Keeper)
    /\ pc[Web] \in {"create", "clear", "begin"} => Owns(Web)
    /\ pc[Web] = "end" => \E i \in DOMAIN lock : lock[i] = Web

\* Nobody uses the database before it is open.
BootInv == pc[Keeper] = "open" => ~intx /\ ~dbinit /\ pc[Web] = "idle"

\* Between two transactions nothing is uncommitted.
TxInv == ~intx => disk = tbl /\ open = <<>> /\ ~dropped /\ gone = gonedisk

\* The connection sees what is on the disk, unless it was dropped, and what was
\* inserted since.
Kept    == IF dropped THEN <<>> ELSE disk
DiskInv == Cut(tbl, Kept \o open)

\* Only the user drops the table.
DropInv == drops = 0 => ~gone /\ ~gonedisk

\* The rows in the queue are the last that were accepted, oldest first.
QueueInv ==
    /\ \E n \in 0 .. rows : Queued = n + 1 .. rows
    /\ \A i, j \in DOMAIN queue :
         i < j /\ queue[i] # CommitItem /\ queue[j] # CommitItem => queue[i] < queue[j]

\* Who has passed the test of the bound may still add a row.
Sending  == {a \in Adders : pc[a] \in {"wait", "send"}}
BoundInv == rows + Cardinality(Sending) <= MaxRow + Cardinality(Adders)

\* How far the table is over its limit, by the step of the storage thread.  While
\* no transaction is open or being begun an INSERT is durable at once, and a
\* begin has failed, so that there is room for the row.
Cutting == IF pc[Keeper] = "relimit" THEN 1 ELSE 0
Bare    == /\ ~intx /\ pc[Keeper] \notin {"open", "clear", "begin"}
           /\ pc[Web] \notin {"clear", "begin"}
SizeInv ==
    /\ Len(disk) <= Limit + 1 + faults
    /\ Len(tbl) <= Limit + 1 + faults + Cutting
    /\ Bare => faults > 0 /\ Len(tbl) <= Limit + faults + Cutting

IInv == /\ TypeOK /\ LockInv /\ BootInv /\ TxInv /\ DiskInv /\ DropInv
        /\ QueueInv /\ BoundInv /\ SizeInv

-------------------------------------------------------------------------------
(* Facts about sequences and what is cut from them.                         *)

LEMMA Constants ==
    /\ QueueLen \in Nat \ {0} /\ DelNum \in Nat \ {0} /\ Limit \in Nat /\ Limit >= DelNum
    /\ MaxRow \in Nat /\ MaxUse \in Nat /\ MaxFault \in Nat
    /\ Web \notin Adders /\ Keeper \notin Adders /\ Keeper # Web
    /\ IsFiniteSet(Adders) /\ Cardinality(Adders) \in Nat
BY StorageAssumption, FS_CardinalityType

\* The first part of a sequence and the rest of it.
LEMMA Parts ==
    ASSUME NEW s \in Seq(Nat), NEW t \in Seq(Nat)
    PROVE  /\ SubSeq(s \o t, 1, Len(s)) = s
           /\ SubSeq(s \o t, Len(s) + 1, Len(s \o t)) = t
<1> DEFINE c == s \o t
<1>1. c \in Seq(Nat) /\ Len(c) = Len(s) + Len(t)
      /\ \A i \in 1 .. Len(s) + Len(t) : c[i] = IF i <= Len(s) THEN s[i] ELSE t[i - Len(s)]
  BY ConcatProperties
<1>2. Len(s) \in Nat /\ Len(t) \in Nat
  OBVIOUS
<1> HIDE DEF c
<1>3. SubSeq(c, 1, Len(s)) = s
  <2>1. \A i \in 1 .. Len(s) : c[i] \in Nat /\ c[i] = s[i]
    BY <1>1, <1>2
  <2>2. SubSeq(c, 1, Len(s)) \in Seq(Nat) /\ Len(SubSeq(c, 1, Len(s))) = Len(s)
        /\ \A i \in 1 .. Len(s) : SubSeq(c, 1, Len(s))[i] = c[i]
    BY <1>2, <2>1, SubSeqProperties
  <2> QED BY <2>1, <2>2, SeqEqual
<1>4. SubSeq(c, Len(s) + 1, Len(c)) = t
  <2>1. \A i \in Len(s) + 1 .. Len(c) : c[i] \in Nat
    BY <1>1, <1>2
  <2> DEFINE u == SubSeq(c, Len(s) + 1, Len(c))
  <2>2. u \in Seq(Nat) /\ Len(u) = (IF Len(s) + 1 <= Len(c) THEN Len(c) - (Len(s) + 1) + 1 ELSE 0)
        /\ \A i \in 1 .. Len(c) - (Len(s) + 1) + 1 : u[i] = c[Len(s) + 1 + i - 1]
    BY <1>1, <1>2, <2>1, SubSeqProperties
  <2> HIDE DEF u
  <2>3. Len(u) = Len(t)
    BY <1>1, <1>2, <2>2
  <2>4. ASSUME NEW i \in 1 .. Len(u) PROVE u[i] = t[i]
    <3>1. u[i] = c[Len(s) + i]
      BY <1>1, <1>2, <2>2, <2>3, SMTT(20)
    <3>2. Len(s) + i \in 1 .. Len(s) + Len(t) /\ ~(Len(s) + i <= Len(s))
          /\ Len(s) + i - Len(s) = i
      BY <1>2, <2>3
    <3>3. c[Len(s) + i] = t[Len(s) + i - Len(s)]
      BY <1>1, <3>2
    <3> QED BY <3>1, <3>2, <3>3
  <2>5. u = t
    BY <2>2, <2>3, <2>4, SeqEqual
  <2> QED BY <2>5 DEF u
<1> QED BY <1>1, <1>3, <1>4 DEF c

\* Cutting nothing, a sequence that grows, and cutting twice.
LEMMA CutNothing ==
    ASSUME NEW s \in Seq(Nat)
    PROVE  Cut(s, s)
BY SubSeqFull DEF Cut

LEMMA CutAppend ==
    ASSUME NEW s \in Seq(Nat), NEW t, Cut(t, s), NEW x \in Nat
    PROVE  Cut(Append(t, x), Append(s, x))
<1>1. PICK k \in 0 .. Len(s) : /\ k = 0 \/ Len(s) - k >= Limit + 1 - DelNum
                               /\ t = SubSeq(s, k + 1, Len(s))
  BY DEF Cut
<1>2. Append(s, x) \in Seq(Nat) /\ Len(Append(s, x)) = Len(s) + 1 /\ Len(s) \in Nat
      /\ \A i \in 1 .. Len(s) : Append(s, x)[i] = s[i]
      /\ Append(s, x)[Len(s) + 1] = x
  OBVIOUS
<1> DEFINE v == Append(s, x)  u == SubSeq(v, k + 1, Len(v))
<1>3. t \in Seq(Nat) /\ Len(t) = Len(s) - k /\ \A i \in 1 .. Len(s) - k : t[i] = s[k + i]
  <2>1. \A i \in k + 1 .. Len(s) : s[i] \in Nat
    OBVIOUS
  <2>2. t \in Seq(Nat) /\ Len(t) = (IF k + 1 <= Len(s) THEN Len(s) - (k + 1) + 1 ELSE 0)
        /\ \A i \in 1 .. Len(s) - (k + 1) + 1 : t[i] = s[k + 1 + i - 1]
    BY <1>1, <1>2, <2>1, SubSeqProperties
  <2>3. ASSUME NEW i \in 1 .. Len(s) - k PROVE t[i] = s[k + i]
    <3>1. i \in 1 .. Len(s) - (k + 1) + 1 /\ k + 1 + i - 1 = k + i
      BY <1>2
    <3> QED BY <2>2, <3>1
  <2> QED BY <1>2, <2>2, <2>3
<1>4. u \in Seq(Nat) /\ Len(u) = Len(v) - k /\ \A i \in 1 .. Len(v) - k : u[i] = v[k + i]
  <2> HIDE DEF v
  <2>1. v \in Seq(Nat) /\ Len(v) = Len(s) + 1
    BY <1>2 DEF v
  <2>2. \A i \in k + 1 .. Len(v) : v[i] \in Nat
    BY <2>1
  <2>3. u \in Seq(Nat) /\ Len(u) = (IF k + 1 <= Len(v) THEN Len(v) - (k + 1) + 1 ELSE 0)
        /\ \A i \in 1 .. Len(v) - (k + 1) + 1 : u[i] = v[k + 1 + i - 1]
    BY <1>2, <2>1, <2>2, SubSeqProperties
  <2> HIDE DEF u
  <2>4. ASSUME NEW i \in 1 .. Len(v) - k PROVE u[i] = v[k + i]
    <3>1. i \in 1 .. Len(v) - (k + 1) + 1 /\ k + 1 + i - 1 = k + i
      BY <1>2, <2>1
    <3> QED BY <2>3, <3>1
  <2> QED BY <1>2, <2>1, <2>3, <2>4
<1>12. Len(v) = Len(s) + 1
  BY <1>2
<1> HIDE DEF v, u
<1>5. Append(t, x) \in Seq(Nat) /\ Len(Append(t, x)) = Len(t) + 1
      /\ \A i \in 1 .. Len(t) : Append(t, x)[i] = t[i]
      /\ Append(t, x)[Len(t) + 1] = x
  BY <1>3
<1>6. Len(u) = Len(Append(t, x))
  BY <1>2, <1>3, <1>4, <1>5 DEF v
<1>7. ASSUME NEW i \in 1 .. Len(u) PROVE u[i] = Append(t, x)[i]
  <2>1. CASE i <= Len(t)
    <3>1. u[i] = v[k + i] /\ k + i \in 1 .. Len(s) /\ i \in 1 .. Len(s) - k
      BY <1>2, <1>3, <1>4, <1>5, <1>6, <2>1
    <3> QED BY <1>2, <1>3, <1>5, <2>1, <3>1 DEF v
  <2>2. CASE ~(i <= Len(t))
    <3>1. i = Len(t) + 1 /\ k + i = Len(s) + 1 /\ i \in 1 .. Len(v) - k
      BY <1>2, <1>3, <1>4, <1>5, <1>6, <1>12, <2>2
    <3> QED BY <1>2, <1>4, <1>5, <3>1 DEF v
  <2> QED BY <2>1, <2>2
<1>8. Append(t, x) = u
  BY <1>4, <1>5, <1>6, <1>7, SeqEqual
<1>9. k \in 0 .. Len(v) /\ (k = 0 \/ Len(v) - k >= Limit + 1 - DelNum)
  BY <1>1, <1>2, Constants DEF v
<1>10. Append(t, x) = SubSeq(v, k + 1, Len(v))
  BY <1>8 DEF u
<1>11. Cut(Append(t, x), v)
  BY <1>9, <1>10 DEF Cut
<1> QED BY <1>11 DEF v

LEMMA CutTypes ==
    ASSUME NEW s \in Seq(Nat), NEW t, Cut(t, s)
    PROVE  t \in Seq(Nat) /\ Len(t) <= Len(s)
<1>1. PICK k \in 0 .. Len(s) : t = SubSeq(s, k + 1, Len(s))
  BY DEF Cut
<1>2. \A i \in k + 1 .. Len(s) : s[i] \in Nat
  OBVIOUS
<1> QED BY <1>1, <1>2, SubSeqProperties

LEMMA CutRelimited ==
    ASSUME NEW s \in Seq(Nat), NEW t, Cut(t, s)
    PROVE  /\ Cut(Relimited(t), s)
           /\ Relimited(t) \in Seq(Nat)
           /\ Len(Relimited(t)) <= Limit + 1
<1>1. PICK k \in 0 .. Len(s) : /\ k = 0 \/ Len(s) - k >= Limit + 1 - DelNum
                               /\ t = SubSeq(s, k + 1, Len(s))
  BY DEF Cut
<1>2. t \in Seq(Nat) /\ Len(t) = Len(s) - k /\ Len(s) \in Nat
  <2>1. \A i \in k + 1 .. Len(s) : s[i] \in Nat
    OBVIOUS
  <2>2. t \in Seq(Nat) /\ Len(t) = (IF k + 1 <= Len(s) THEN Len(s) - (k + 1) + 1 ELSE 0)
    BY <1>1, <2>1, SubSeqProperties
  <2> QED BY <2>2
<1>3. CASE ~(Len(t) - 1 > Limit)
  BY <1>2, <1>3, Constants DEF Relimited
<1>4. CASE Len(t) - 1 > Limit
  <2> DEFINE d == Len(t) - Limit + DelNum - 1
  <2>1. d \in 1 .. Len(t) /\ Len(t) + DelNum - Limit = d + 1 /\ d + 1 \in 1 .. Len(t)
        /\ k + d \in 0 .. Len(s) /\ Len(s) - (k + d) = Limit + 1 - DelNum
    BY <1>2, <1>4, Constants, SMTT(20)
  <2>2. Relimited(t) = SubSeq(t, d + 1, Len(t))
    BY <1>4, <2>1 DEF Relimited
  <2> HIDE DEF d
  <2>3. SubSeq(t, d + 1, Len(t)) = SubSeq(s, k + d + 1, Len(s))
    <3>3. k \in Nat /\ Len(s) \in Nat /\ Len(t) \in Nat /\ d \in Nat
          /\ Len(t) = Len(s) - k /\ d >= 1 /\ d + 1 <= Len(t)
      BY <1>2, <2>1
    <3>1. /\ k + 1 \in 1 .. Len(s) /\ Len(s) \in 1 .. Len(s)
          /\ d + 1 \in 1 .. Len(s) - (k + 1) + 1
          /\ Len(t) \in 1 .. Len(s) - (k + 1) + 1
          /\ (k + 1) + (d + 1) - 1 = k + d + 1
          /\ (k + 1) + Len(t) - 1 = Len(s)
      BY <3>3
    <3>2. SubSeq(SubSeq(s, k + 1, Len(s)), d + 1, Len(t))
            = SubSeq(s, (k + 1) + (d + 1) - 1, (k + 1) + Len(t) - 1)
      <4>1. \A i, j \in 1 .. Len(s) : \A m, n \in 1 .. j - i + 1 :
              SubSeq(SubSeq(s, i, j), m, n) = SubSeq(s, i + m - 1, i + n - 1)
        BY SubSeqOfSubSeq
      <4>2. \A m, n \in 1 .. Len(s) - (k + 1) + 1 :
              SubSeq(SubSeq(s, k + 1, Len(s)), m, n) = SubSeq(s, (k + 1) + m - 1, (k + 1) + n - 1)
        BY <3>1, <4>1
      <4> QED BY <3>1, <4>2
    <3> QED BY <1>1, <3>1, <3>2
  <2>4. Cut(Relimited(t), s)
    <3>1. \E e \in 0 .. Len(s) : /\ Len(s) - e = Limit + 1 - DelNum
                                 /\ Relimited(t) = SubSeq(s, e + 1, Len(s))
      BY <2>1, <2>2, <2>3
    <3>2. PICK e \in 0 .. Len(s) : /\ Len(s) - e = Limit + 1 - DelNum
                                  /\ Relimited(t) = SubSeq(s, e + 1, Len(s))
      BY <3>1
    <3>3. Len(s) - e >= Limit + 1 - DelNum
      BY <1>2, <3>2, Constants
    <3> QED BY <3>2, <3>3 DEF Cut
  <2>5. \A i \in k + d + 1 .. Len(s) : s[i] \in Nat
    <3>1. k \in Nat /\ d \in Nat /\ d >= 1
      BY <2>1, <1>2
    <3> QED BY <3>1
  <2>6. Len(Relimited(t)) = IF k + d + 1 <= Len(s) THEN Len(s) - (k + d + 1) + 1 ELSE 0
    BY <1>2, <2>1, <2>2, <2>3, <2>5, SubSeqProperties
  <2>7. Relimited(t) \in Seq(Nat)
    BY <2>4, CutTypes
  <2> QED BY <1>2, <2>1, <2>4, <2>6, <2>7, Constants
<1> QED BY <1>3, <1>4

-------------------------------------------------------------------------------
(* Each step keeps the types.                                               *)

LEMMA PlacesAre ==
    /\ "open" \in Places /\ "recv" \in Places /\ "insert" \in Places
    /\ "relimit" \in Places /\ "check" \in Places /\ "dead" \in Places
    /\ "idle" \in Places /\ "wait" \in Places /\ "send" \in Places
    /\ "edit" \in Places /\ "drop" \in Places /\ "create" \in Places /\ "end" \in Places /\ "clear" \in Places
    /\ "begin" \in Places /\ "fail" \in Places /\ "ok" \in Places
BY DEF Places

LEMMA InitIInv == Init => IInv
<1> SUFFICES ASSUME Init PROVE IInv
  OBVIOUS
<1> USE Constants DEF Init
<1>1. TypeOK
  <2>1. <<>> \in Seq(Nat) /\ <<>> \in Seq(Threads) /\ Len(<<>>) = 0
    OBVIOUS
  <2>2. pc \in [Threads -> Places]
    BY PlacesAre DEF AtBoot
  <2>3. dbinit \in BOOLEAN /\ strans \in BOOLEAN /\ intx \in BOOLEAN /\ insert \in BOOLEAN /\ due \in BOOLEAN
    OBVIOUS
  <2>4. cfg \in Nat /\ cfgdisk \in Nat /\ rows \in Nat /\ faults \in Nat /\ item \in Nat
    OBVIOUS
  <2>5. tbl \in Seq(Nat) /\ disk \in Seq(Nat) /\ open \in Seq(Nat)
    BY <2>1
  <2>6. lock \in Seq(Threads) /\ queue \in Seq(Nat)
    BY <2>1
  <2>7. Len(queue) <= QueueLen
    BY <2>1
  <2>8. gone \in BOOLEAN /\ gonedisk \in BOOLEAN /\ dropped \in BOOLEAN /\ drops \in Nat
    OBVIOUS
  <2> QED BY <2>1, <2>2, <2>3, <2>4, <2>5, <2>6, <2>7, <2>8 DEF TypeOK
<1>2. LockInv /\ BootInv /\ TxInv /\ DropInv
  BY DEF LockInv, BootInv, TxInv, DropInv, AtBoot, Threads
<1>3. DiskInv
  <2>1. <<>> \in Seq(Nat) /\ <<>> \o <<>> = <<>>
    OBVIOUS
  <2>2. Cut(<<>>, <<>>)
    BY <2>1, CutNothing
  <2> QED BY <2>1, <2>2 DEF DiskInv, Kept
<1>4. QueueInv
  <2>1. Queued = {} /\ DOMAIN queue = {}
    BY DEF Queued
  <2>2. 0 + 1 .. 0 = {}
    OBVIOUS
  <2> QED BY <2>1, <2>2 DEF QueueInv
<1>5. BoundInv
  <2>1. Sending = {}
    BY DEF Sending, AtBoot, Threads
  <2> QED BY <2>1, FS_EmptySet DEF BoundInv
<1>6. SizeInv
  BY DEF SizeInv, Bare, Cutting, AtBoot, Threads
<1> QED BY <1>1, <1>2, <1>3, <1>4, <1>5, <1>6 DEF IInv

LEMMA KeeperTypes ==
    ASSUME IInv, OpenDb \/ Receive \/ Insert \/ Relimit \/ Check \/ TenSeconds
    PROVE  TypeOK'
<1> SUFFICES ASSUME TypeOK PROVE TypeOK'
  BY DEF IInv
<1> USE PlacesAre, Constants DEF TypeOK, dbVars, thrVars, tblVars, dropVars, cfgVars, Goto, Take, Release, Fault
<1>0. Keeper \in Threads
  BY DEF Threads
<1>1. CASE OpenDb
  <2>11. pc' \in [Threads -> Places]
    BY <1>0, <1>1 DEF OpenDb
  <2>12. lock' \in Seq(Threads)
    BY <1>0, <1>1 DEF OpenDb
  <2>13. queue' \in Seq(Nat) /\ Len(queue') <= QueueLen /\ item' \in Nat
    BY <1>0, <1>1 DEF OpenDb
  <2>14. dbinit' \in BOOLEAN /\ strans' \in BOOLEAN /\ intx' \in BOOLEAN
    BY <1>0, <1>1 DEF OpenDb
  <2>15. insert' \in BOOLEAN /\ due' \in BOOLEAN
    BY <1>0, <1>1 DEF OpenDb
  <2>16. tbl' \in Seq(Nat) /\ disk' \in Seq(Nat) /\ open' \in Seq(Nat)
    BY <1>0, <1>1 DEF OpenDb
  <2>17. cfg' \in Nat /\ cfgdisk' \in Nat /\ rows' \in Nat /\ faults' \in Nat
    BY <1>0, <1>1 DEF OpenDb
  <2>18. gone' \in BOOLEAN /\ gonedisk' \in BOOLEAN /\ dropped' \in BOOLEAN /\ drops' \in Nat
    BY <1>0, <1>1 DEF OpenDb
  <2> QED BY <2>11, <2>12, <2>13, <2>14, <2>15, <2>16, <2>17, <2>18
<1>2. CASE Receive
  <2>1. CASE queue # <<>> /\ item' = Head(queue) /\ queue' = Tail(queue)
    <3>1. Head(queue) \in Nat /\ Tail(queue) \in Seq(Nat) /\ Len(Tail(queue)) <= QueueLen
      BY <2>1
    <3>2. Append(lock, Keeper) \in Seq(Threads)
      BY <1>0
    <3> QED BY <1>0, <1>2, <2>1, <3>1, <3>2 DEF Receive, TypeOK
  <2>2. CASE queue' = queue /\ item' = item /\ lock' = lock
    BY <1>0, <1>2, <2>2 DEF Receive, TypeOK
  <2> QED BY <1>2, <2>1, <2>2 DEF Receive
<1>3. CASE Insert
  <2>1. Append(tbl, item) \in Seq(Nat) /\ Append(open, item) \in Seq(Nat)
    OBVIOUS
  <2>2. lock # <<>> /\ Tail(lock) \in Seq(Threads)
    BY <1>3 DEF Insert, Owns
  <2>11. pc' \in [Threads -> Places]
    BY <1>0, <1>3, <2>1, <2>2 DEF Insert, Write
  <2>12. lock' \in Seq(Threads)
    BY <1>0, <1>3, <2>1, <2>2 DEF Insert, Write
  <2>13. queue' \in Seq(Nat) /\ Len(queue') <= QueueLen /\ item' \in Nat
    BY <1>0, <1>3, <2>1, <2>2 DEF Insert, Write
  <2>14. dbinit' \in BOOLEAN /\ strans' \in BOOLEAN /\ intx' \in BOOLEAN
    BY <1>0, <1>3, <2>1, <2>2 DEF Insert, Write
  <2>15. insert' \in BOOLEAN /\ due' \in BOOLEAN
    BY <1>0, <1>3, <2>1, <2>2 DEF Insert, Write
  <2>16. tbl' \in Seq(Nat) /\ disk' \in Seq(Nat) /\ open' \in Seq(Nat)
    BY <1>0, <1>3, <2>1, <2>2 DEF Insert, Write
  <2>17. cfg' \in Nat /\ cfgdisk' \in Nat /\ rows' \in Nat /\ faults' \in Nat
    <3>1. cfg' = cfg /\ cfgdisk' = cfgdisk /\ rows' = rows
      BY <1>3 DEF Insert
    <3>2. faults' = faults \/ faults' = faults + 1
      BY <1>3 DEF Insert
    <3> QED BY <3>1, <3>2
  <2>18. gone' \in BOOLEAN /\ gonedisk' \in BOOLEAN /\ dropped' \in BOOLEAN /\ drops' \in Nat
    BY <1>0, <1>3, <2>1, <2>2 DEF Insert, Write
  <2> QED BY <2>11, <2>12, <2>13, <2>14, <2>15, <2>16, <2>17, <2>18
<1>4. CASE Relimit
  <2>1. lock # <<>> /\ Tail(lock) \in Seq(Threads)
    BY <1>4 DEF IInv, LockInv, Relimit, Owns
  <2>2. Relimited(tbl) \in Seq(Nat)
    BY CutNothing, CutRelimited
  <2> QED BY <1>0, <1>4, <2>1, <2>2 DEF Relimit, Write, TypeOK
<1>5. CASE Check
  <2>1. Append(lock, Keeper) \in Seq(Threads)
    BY <1>0
  <2> QED BY <1>0, <1>5, <2>1 DEF Check, TypeOK
<1>6. CASE TenSeconds
  BY <1>6 DEF TenSeconds, TypeOK
<1> QED BY <1>1, <1>2, <1>3, <1>4, <1>5, <1>6

LEMMA CommitTypes ==
    ASSUME IInv, NEW t \in Threads, CommitStep(t)
    PROVE  TypeOK'
<1> SUFFICES ASSUME TypeOK PROVE TypeOK'
  BY DEF IInv
<1> USE PlacesAre, Constants DEF TypeOK, dbVars, thrVars, tblVars, dropVars, cfgVars, Goto, Release, Fault
<1>1. CASE EndTx(t)
  <2>1. <<>> \in Seq(Nat)
    OBVIOUS
  <2>11. pc' \in [Threads -> Places]
    BY <1>1, <2>1 DEF EndTx
  <2>12. lock' \in Seq(Threads)
    BY <1>1, <2>1 DEF EndTx
  <2>13. queue' \in Seq(Nat) /\ Len(queue') <= QueueLen /\ item' \in Nat
    BY <1>1, <2>1 DEF EndTx
  <2>14. dbinit' \in BOOLEAN /\ strans' \in BOOLEAN /\ intx' \in BOOLEAN
    BY <1>1, <2>1 DEF EndTx
  <2>15. insert' \in BOOLEAN /\ due' \in BOOLEAN
    BY <1>1, <2>1 DEF EndTx
  <2>16. tbl' \in Seq(Nat) /\ disk' \in Seq(Nat) /\ open' \in Seq(Nat)
    BY <1>1, <2>1 DEF EndTx
  <2>17. cfg' \in Nat /\ cfgdisk' \in Nat /\ rows' \in Nat /\ faults' \in Nat
    BY <1>1, <2>1, SMTT(20) DEF EndTx
  <2>18. gone' \in BOOLEAN /\ gonedisk' \in BOOLEAN /\ dropped' \in BOOLEAN /\ drops' \in Nat
    BY <1>1, <2>1 DEF EndTx
  <2> QED BY <2>11, <2>12, <2>13, <2>14, <2>15, <2>16, <2>17, <2>18
<1>2. CASE BeginTx(t)
  <2>11. pc' \in [Threads -> Places]
    BY <1>2 DEF BeginTx
  <2>12. lock' \in Seq(Threads)
    BY <1>2 DEF BeginTx
  <2>13. queue' \in Seq(Nat) /\ Len(queue') <= QueueLen /\ item' \in Nat
    BY <1>2 DEF BeginTx
  <2>14. dbinit' \in BOOLEAN /\ strans' \in BOOLEAN /\ intx' \in BOOLEAN
    BY <1>2 DEF BeginTx
  <2>15. insert' \in BOOLEAN /\ due' \in BOOLEAN
    BY <1>2 DEF BeginTx
  <2>16. tbl' \in Seq(Nat) /\ disk' \in Seq(Nat) /\ open' \in Seq(Nat)
    BY <1>2 DEF BeginTx
  <2>17. cfg' \in Nat /\ cfgdisk' \in Nat /\ rows' \in Nat /\ faults' \in Nat
    BY <1>2 DEF BeginTx
  <2>18. gone' \in BOOLEAN /\ gonedisk' \in BOOLEAN /\ dropped' \in BOOLEAN /\ drops' \in Nat
    BY <1>2 DEF BeginTx
  <2> QED BY <2>11, <2>12, <2>13, <2>14, <2>15, <2>16, <2>17, <2>18
<1>3. CASE SetTx(t)
  <2>1. Owns(t) => Tail(lock) \in Seq(Threads)
    BY DEF Owns
  <2> QED BY <1>3, <2>1 DEF SetTx, TypeOK
<1> QED BY <1>1, <1>2, <1>3 DEF CommitStep

LEMMA UserTypes ==
    ASSUME IInv, \/ \E a \in Adders : Add(a) \/ AdderStep(a)
                 \/ Edit \/ DelLogData \/ DoCommit \/ Edited \/ Drop \/ Create
                 \/ Crash \/ UNCHANGED vars
    PROVE  TypeOK'
<1> SUFFICES ASSUME TypeOK, LockInv PROVE TypeOK'
  BY DEF IInv
<1> USE PlacesAre, Constants DEF TypeOK, dbVars, thrVars, tblVars, dropVars, cfgVars, Goto, Take, Release, Fault
<1>0. Web \in Threads /\ Adders \subseteq Threads
  BY DEF Threads
<1>1. ASSUME NEW a \in Adders, Add(a) PROVE TypeOK'
  <2>1. Append(lock, a) \in Seq(Threads)
    BY <1>0
  <2> QED BY <1>0, <1>1, <2>1 DEF Add, TypeOK
<1>2. ASSUME NEW a \in Adders, Waited(a) PROVE TypeOK'
  <2>1. Tail(lock) \in Seq(Threads)
    BY <1>2 DEF Waited, Owns
  <2> QED BY <1>0, <1>2, <2>1 DEF Waited, TypeOK
<1>3. ASSUME NEW a \in Adders, Send(a) PROVE TypeOK'
  <2>1. Append(queue, rows + 1) \in Seq(Nat) /\ Len(Append(queue, rows + 1)) = Len(queue) + 1
        /\ Len(queue) \in Nat
    OBVIOUS
  <2>11. pc' \in [Threads -> Places]
    BY <1>0, <1>3, <2>1 DEF Send
  <2>12. lock' \in Seq(Threads)
    BY <1>0, <1>3, <2>1 DEF Send
  <2>13. queue' \in Seq(Nat) /\ Len(queue') <= QueueLen /\ item' \in Nat
    <3>1. \/ queue' = queue
          \/ Len(queue) < QueueLen /\ queue' = Append(queue, rows + 1)
      BY <1>3 DEF Send
    <3>2. item' = item
      BY <1>3 DEF Send
    <3>3. queue' \in Seq(Nat)
      BY <2>1, <3>1
    <3>4. Len(queue') <= QueueLen
      <4>1. CASE queue' = queue
        BY <4>1
      <4>2. CASE Len(queue) < QueueLen /\ queue' = Append(queue, rows + 1)
        <5>1. Len(queue') = Len(queue) + 1
          BY <2>1, <4>2
        <5> QED BY <2>1, <4>2, <5>1
      <4> QED BY <3>1, <4>1, <4>2
    <3> QED BY <3>2, <3>3, <3>4
  <2>14. dbinit' \in BOOLEAN /\ strans' \in BOOLEAN /\ intx' \in BOOLEAN
    BY <1>0, <1>3, <2>1 DEF Send
  <2>15. insert' \in BOOLEAN /\ due' \in BOOLEAN
    BY <1>0, <1>3, <2>1 DEF Send
  <2>16. tbl' \in Seq(Nat) /\ disk' \in Seq(Nat) /\ open' \in Seq(Nat)
    BY <1>0, <1>3, <2>1 DEF Send
  <2>17. cfg' \in Nat /\ cfgdisk' \in Nat /\ rows' \in Nat /\ faults' \in Nat
    BY <1>0, <1>3, <2>1 DEF Send
  <2>18. gone' \in BOOLEAN /\ gonedisk' \in BOOLEAN /\ dropped' \in BOOLEAN /\ drops' \in Nat
    BY <1>0, <1>3, <2>1 DEF Send
  <2> QED BY <2>11, <2>12, <2>13, <2>14, <2>15, <2>16, <2>17, <2>18
<1>4. CASE Edit \/ DelLogData \/ DoCommit
  <2>1. Append(lock, Web) \in Seq(Threads)
    BY <1>0
  <2> QED BY <1>0, <1>4, <2>1 DEF Edit, DelLogData, DoCommit, TypeOK
<1>5. CASE Edited
  <2>1. Append(queue, CommitItem) \in Seq(Nat) /\ Len(queue) \in Nat
        /\ Len(Append(queue, CommitItem)) = Len(queue) + 1
    BY DEF CommitItem
  <2>2. Tail(lock) \in Seq(Threads)
    BY <1>5 DEF Edited, Owns
  <2>11. pc' \in [Threads -> Places]
    BY <1>0, <1>5, <2>1, <2>2 DEF Edited
  <2>12. lock' \in Seq(Threads)
    BY <1>0, <1>5, <2>1, <2>2 DEF Edited
  <2>13. queue' \in Seq(Nat) /\ Len(queue') <= QueueLen /\ item' \in Nat
    <3>1. \/ queue' = queue
          \/ Len(queue) < QueueLen /\ queue' = Append(queue, CommitItem)
      BY <1>5 DEF Edited
    <3>2. item' = item
      BY <1>5 DEF Edited
    <3>3. queue' \in Seq(Nat)
      BY <2>1, <3>1
    <3>4. Len(queue') <= QueueLen
      <4>1. CASE queue' = queue
        BY <4>1
      <4>2. CASE Len(queue) < QueueLen /\ queue' = Append(queue, CommitItem)
        <5>1. Len(queue') = Len(queue) + 1
          BY <2>1, <4>2
        <5> QED BY <2>1, <4>2, <5>1
      <4> QED BY <3>1, <4>1, <4>2
    <3> QED BY <3>2, <3>3, <3>4
  <2>14. dbinit' \in BOOLEAN /\ strans' \in BOOLEAN /\ intx' \in BOOLEAN
    BY <1>0, <1>5, <2>1, <2>2 DEF Edited
  <2>15. insert' \in BOOLEAN /\ due' \in BOOLEAN
    BY <1>0, <1>5, <2>1, <2>2 DEF Edited
  <2>16. tbl' \in Seq(Nat) /\ disk' \in Seq(Nat) /\ open' \in Seq(Nat)
    BY <1>0, <1>5, <2>1, <2>2 DEF Edited
  <2>17. cfg' \in Nat /\ cfgdisk' \in Nat /\ rows' \in Nat /\ faults' \in Nat
    <3>1. rows' = rows
      BY <1>5 DEF Edited
    <3>2. \/ cfg' = cfg + 1 /\ (cfgdisk' = cfgdisk \/ cfgdisk' = cfg') /\ faults' = faults
          \/ cfg' = cfg /\ cfgdisk' = cfgdisk /\ faults' = faults + 1
      BY <1>5, SMTT(20) DEF Edited
    <3>3. cfg \in Nat /\ cfgdisk \in Nat /\ faults \in Nat /\ rows \in Nat
      OBVIOUS
    <3> HIDE DEF TypeOK
    <3> QED BY ONLY <3>1, <3>2, <3>3
  <2>18. gone' \in BOOLEAN /\ gonedisk' \in BOOLEAN /\ dropped' \in BOOLEAN /\ drops' \in Nat
    BY <1>0, <1>5, <2>1, <2>2 DEF Edited
  <2> QED BY <2>11, <2>12, <2>13, <2>14, <2>15, <2>16, <2>17, <2>18
<1>6. CASE Crash
  <2>1. <<>> \in Seq(Nat) /\ <<>> \in Seq(Threads) /\ Len(<<>>) = 0
    OBVIOUS
  <2>11. pc' \in [Threads -> Places]
    BY <1>6, <2>1 DEF Crash, AtBoot
  <2>12. lock' \in Seq(Threads)
    BY <1>6, <2>1 DEF Crash, AtBoot
  <2>13. queue' \in Seq(Nat) /\ Len(queue') <= QueueLen /\ item' \in Nat
    <3>1. queue' = <<>> /\ item' = 0
      BY <1>6 DEF Crash
    <3>2. Len(queue') = 0 /\ queue' \in Seq(Nat)
      BY <2>1, <3>1
    <3>3. item' \in Nat
      BY <3>1
    <3>4. 0 <= QueueLen
      OBVIOUS
    <3> QED BY <3>2, <3>3, <3>4
  <2>14. dbinit' \in BOOLEAN /\ strans' \in BOOLEAN /\ intx' \in BOOLEAN
    BY <1>6, <2>1 DEF Crash, AtBoot
  <2>15. insert' \in BOOLEAN /\ due' \in BOOLEAN
    BY <1>6, <2>1 DEF Crash, AtBoot
  <2>16. tbl' \in Seq(Nat) /\ disk' \in Seq(Nat) /\ open' \in Seq(Nat)
    BY <1>6, <2>1 DEF Crash, AtBoot
  <2>17. cfg' \in Nat /\ cfgdisk' \in Nat /\ rows' \in Nat /\ faults' \in Nat
    BY <1>6, <2>1 DEF Crash, AtBoot
  <2>18. gone' \in BOOLEAN /\ gonedisk' \in BOOLEAN /\ dropped' \in BOOLEAN /\ drops' \in Nat
    BY <1>6, <2>1 DEF Crash, AtBoot
  <2> QED BY <2>11, <2>12, <2>13, <2>14, <2>15, <2>16, <2>17, <2>18
<1>7. CASE Drop
  <2>1. lock # <<>> /\ Tail(lock) \in Seq(Threads) /\ <<>> \in Seq(Nat)
    BY <1>7 DEF Drop, Create, LockInv, Owns
  <2>11. pc' \in [Threads -> Places]
    BY <1>0, <1>7, <2>1 DEF Drop, Write
  <2>12. lock' \in Seq(Threads)
    BY <1>0, <1>7, <2>1 DEF Drop, Write
  <2>13. queue' \in Seq(Nat) /\ Len(queue') <= QueueLen /\ item' \in Nat
    BY <1>0, <1>7, <2>1 DEF Drop, Write
  <2>14. dbinit' \in BOOLEAN /\ strans' \in BOOLEAN /\ intx' \in BOOLEAN
    BY <1>0, <1>7, <2>1 DEF Drop, Write
  <2>15. insert' \in BOOLEAN /\ due' \in BOOLEAN
    BY <1>0, <1>7, <2>1 DEF Drop, Write
  <2>16. tbl' \in Seq(Nat) /\ disk' \in Seq(Nat) /\ open' \in Seq(Nat)
    BY <1>0, <1>7, <2>1 DEF Drop, Write
  <2>17. cfg' \in Nat /\ cfgdisk' \in Nat /\ rows' \in Nat /\ faults' \in Nat
    BY <1>0, <1>7, <2>1 DEF Drop, Write
  <2>18. gone' \in BOOLEAN /\ gonedisk' \in BOOLEAN /\ dropped' \in BOOLEAN /\ drops' \in Nat
    <3>1. CASE UNCHANGED dropVars
      BY <3>1
    <3>2. CASE gone' = TRUE /\ gonedisk' = (gonedisk \/ ~intx) /\ dropped' = intx /\ drops' = drops + 1
      <4>1. (gonedisk \/ ~intx) \in BOOLEAN /\ intx \in BOOLEAN
        OBVIOUS
      <4>2. gone' \in BOOLEAN /\ gonedisk' \in BOOLEAN /\ dropped' \in BOOLEAN
        BY <3>2, <4>1, Zenon
      <4>3. drops' \in Nat
        BY <3>2
      <4> QED BY <4>2, <4>3
    <3> QED BY <1>7, <3>1, <3>2 DEF Drop
  <2> QED BY <2>11, <2>12, <2>13, <2>14, <2>15, <2>16, <2>17, <2>18
<1>8. CASE Create
  <2>1. lock # <<>> /\ Tail(lock) \in Seq(Threads) /\ <<>> \in Seq(Nat)
    BY <1>8 DEF Drop, Create, LockInv, Owns
  <2>11. pc' \in [Threads -> Places]
    BY <1>0, <1>8, <2>1 DEF Create
  <2>12. lock' \in Seq(Threads)
    BY <1>0, <1>8, <2>1 DEF Create
  <2>13. queue' \in Seq(Nat) /\ Len(queue') <= QueueLen /\ item' \in Nat
    BY <1>0, <1>8, <2>1 DEF Create
  <2>14. dbinit' \in BOOLEAN /\ strans' \in BOOLEAN /\ intx' \in BOOLEAN
    BY <1>0, <1>8, <2>1 DEF Create
  <2>15. insert' \in BOOLEAN /\ due' \in BOOLEAN
    BY <1>0, <1>8, <2>1 DEF Create
  <2>16. tbl' \in Seq(Nat) /\ disk' \in Seq(Nat) /\ open' \in Seq(Nat)
    BY <1>0, <1>8, <2>1 DEF Create
  <2>17. cfg' \in Nat /\ cfgdisk' \in Nat /\ rows' \in Nat /\ faults' \in Nat
    BY <1>0, <1>8, <2>1 DEF Create
  <2>18. gone' \in BOOLEAN /\ gonedisk' \in BOOLEAN /\ dropped' \in BOOLEAN /\ drops' \in Nat
    BY <1>0, <1>8, <2>1 DEF Create
  <2> QED BY <2>11, <2>12, <2>13, <2>14, <2>15, <2>16, <2>17, <2>18
<1>9. CASE UNCHANGED vars
  BY <1>9 DEF vars, TypeOK
<1> QED BY <1>1, <1>2, <1>3, <1>4, <1>5, <1>6, <1>7, <1>8, <1>9 DEF AdderStep

-------------------------------------------------------------------------------
(* The mutex, the bound and the table.                                      *)

\* The owner of the mutex, and who waits for it, when another thread asks for
\* it or gives it back.
LEMMA OthersMove ==
    ASSUME TypeOK, NEW t \in Threads, NEW u \in Threads, t # u,
           \/ lock' = lock
           \/ lock' = Append(lock, u)
           \/ lock' = Tail(lock) /\ Owns(u)
    PROVE  /\ Owns(t) => Owns(t)'
           /\ (\E i \in DOMAIN lock : lock[i] = t) => \E i \in DOMAIN lock' : lock'[i] = t
<1>1. lock \in Seq(Threads) /\ Len(lock) \in Nat /\ DOMAIN lock = 1 .. Len(lock)
  BY DEF TypeOK
<1>2. CASE lock' = lock
  BY <1>2 DEF Owns
<1>3. CASE lock' = Append(lock, u)
  <2>1. DOMAIN lock' = 1 .. Len(lock) + 1 /\ \A i \in 1 .. Len(lock) : lock'[i] = lock[i]
    BY <1>1, <1>3
  <2>2. lock # <<>> => lock' # <<>> /\ Head(lock') = Head(lock)
    BY <1>1, <1>3
  <2>3. \A i \in 1 .. Len(lock) : i \in 1 .. Len(lock) + 1
    BY <1>1
  <2> QED BY <1>1, <2>1, <2>2, <2>3 DEF Owns
<1>4. CASE lock' = Tail(lock) /\ Owns(u)
  <2>1. lock # <<>> /\ Head(lock) = u /\ lock[1] = u /\ Len(lock) # 0
    <3>1. lock # <<>> /\ Head(lock) = u
      BY <1>4 DEF Owns
    <3>2. Len(lock) # 0
      BY <1>1, <3>1, EmptySeq
    <3>3. lock[1] = Head(lock)
      BY <1>1, <3>1, <3>2
    <3> QED BY <3>1, <3>2, <3>3
  <2>2. ~Owns(t)
    BY <2>1 DEF Owns
  <2>3. Len(lock') = Len(lock) - 1 /\ \A i \in 1 .. Len(lock) - 1 : lock'[i] = lock[i + 1]
    <3>1. Tail(lock) \in Seq(Threads) /\ Len(Tail(lock)) = Len(lock) - 1
          /\ \A i \in 1 .. Len(Tail(lock)) : Tail(lock)[i] = lock[i + 1]
      BY <1>1, <2>1, HeadTailProperties
    <3> QED BY <1>4, <3>1
  <2>4. DOMAIN lock' = 1 .. Len(lock) - 1
    <3>1. Tail(lock) \in Seq(Threads)
      BY <1>1, <2>1
    <3> QED BY <1>4, <2>3, <3>1
  <2>5. ASSUME NEW i \in 1 .. Len(lock), lock[i] = t
        PROVE  \E j \in DOMAIN lock' : lock'[j] = t
    <3>1. i - 1 \in 1 .. Len(lock) - 1 /\ (i - 1) + 1 = i
      BY <1>1, <2>1, <2>5
    <3>2. lock'[i - 1] = t
      BY <2>3, <2>5, <3>1
    <3> QED BY <2>4, <3>1, <3>2
  <2> QED BY <1>1, <2>2, <2>5
<1> QED BY <1>2, <1>3, <1>4

LEMMA LockKept ==
    ASSUME IInv, Next
    PROVE  LockInv'
<1> SUFFICES ASSUME TypeOK, LockInv PROVE LockInv'
  BY DEF IInv
<1> USE Constants DEF Goto, Take, Release
<1>0. pc \in [Threads -> Places] /\ lock \in Seq(Threads)
      /\ Keeper \in Threads /\ Web \in Threads /\ Adders \subseteq Threads
  BY DEF TypeOK, Threads
\* the part of the thread that does not move
<1>1. ASSUME NEW u \in Threads, u # Keeper, pc'[Keeper] = pc[Keeper],
             \/ lock' = lock
             \/ lock' = Append(lock, u)
             \/ lock' = Tail(lock) /\ Owns(u)
      PROVE  pc'[Keeper] = "relimit" => Owns(Keeper)'
  BY <1>0, <1>1, OthersMove DEF LockInv
<1>2. ASSUME NEW u \in Threads, u # Web, pc'[Web] = pc[Web],
             \/ lock' = lock
             \/ lock' = Append(lock, u)
             \/ lock' = Tail(lock) /\ Owns(u)
      PROVE  /\ pc'[Web] \in {"create", "clear", "begin"} => Owns(Web)'
             /\ pc'[Web] = "end" => \E i \in DOMAIN lock' : lock'[i] = Web
  BY <1>0, <1>2, OthersMove DEF LockInv
<1>3. CASE KeeperStep
  <2>1. pc'[Web] = pc[Web]
    BY <1>0, <1>3 DEF KeeperStep, OpenDb, Receive, Insert, Relimit, Check,
                      CommitStep, EndTx, BeginTx, SetTx
  <2>2. lock' = lock \/ lock' = Append(lock, Keeper) \/ (lock' = Tail(lock) /\ Owns(Keeper))
    BY <1>3 DEF LockInv, KeeperStep, OpenDb, Receive, Insert, Relimit, Check,
                CommitStep, EndTx, BeginTx, SetTx
  <2>3. pc'[Keeper] = "relimit" => Insert /\ lock' = lock
    BY <1>0, <1>3 DEF KeeperStep, OpenDb, Receive, Insert, Relimit, Check,
                      CommitStep, EndTx, BeginTx, SetTx
  <2>4. pc'[Keeper] = "relimit" => Owns(Keeper)'
    BY <2>3 DEF Insert, Owns
  <2> QED BY <1>0, <1>2, <2>1, <2>2, <2>4 DEF LockInv
<1>4. CASE Crash
  BY <1>4 DEF LockInv, Crash, AtBoot, Threads
<1>5. ASSUME NEW a \in Adders, Add(a) \/ AdderStep(a) PROVE LockInv'
  <2>1. pc'[Keeper] = pc[Keeper] /\ pc'[Web] = pc[Web] /\ a \in Threads /\ a # Keeper /\ a # Web
    BY <1>0, <1>5 DEF Add, AdderStep, Waited, Send
  <2>2. lock' = lock \/ lock' = Append(lock, a) \/ (lock' = Tail(lock) /\ Owns(a))
    BY <1>5 DEF Add, AdderStep, Waited, Send
  <2> QED BY <1>1, <1>2, <2>1, <2>2 DEF LockInv
<1>6. CASE Edit \/ DelLogData \/ DoCommit \/ WebStep
  <2>1. pc'[Keeper] = pc[Keeper]
    BY <1>0, <1>6 DEF Edit, DelLogData, DoCommit, WebStep, Edited, Drop, Create,
                      CommitStep, EndTx, BeginTx, SetTx
  <2>2. lock' = lock \/ lock' = Append(lock, Web) \/ (lock' = Tail(lock) /\ Owns(Web))
    BY <1>6 DEF LockInv, Edit, DelLogData, DoCommit, WebStep, Edited, Drop, Create,
                CommitStep, EndTx, BeginTx, SetTx
  <2>3. pc'[Web] = "create" => Owns(Web) /\ lock' = lock
    BY <1>0, <1>6 DEF Edit, DelLogData, DoCommit, WebStep, Edited, Drop, Create,
                      CommitStep, EndTx, BeginTx, SetTx
  <2>4. pc'[Web] \in {"clear", "begin"} => pc[Web] = "end" /\ MayRun(Web) /\ lock' = lock
    BY <1>0, <1>6 DEF Edit, DelLogData, DoCommit, WebStep, Edited, Drop, Create,
                      CommitStep, EndTx, BeginTx, SetTx
  <2>5. pc'[Web] \in {"clear", "begin"} => Owns(Web) /\ lock' = lock
    BY <2>4 DEF LockInv, MayRun
  <2>6. pc'[Web] = "end" => lock' = Append(lock, Web)
    BY <1>0, <1>6 DEF Edit, DelLogData, DoCommit, WebStep, Edited, Drop, Create,
                      CommitStep, EndTx, BeginTx, SetTx
  <2>7. pc'[Web] = "end" => \E i \in DOMAIN lock' : lock'[i] = Web
    <3> SUFFICES ASSUME lock' = Append(lock, Web) PROVE \E i \in DOMAIN lock' : lock'[i] = Web
      BY <2>6
    <3>1. Len(lock) + 1 \in DOMAIN lock' /\ lock'[Len(lock) + 1] = Web
      BY <1>0
    <3> QED BY <3>1
  <2> QED BY <1>0, <1>1, <2>1, <2>2, <2>3, <2>5, <2>7 DEF LockInv, Owns
<1>7. CASE TenSeconds
  <2>1. lock' = lock /\ pc' = pc
    BY <1>7 DEF TenSeconds
  <2> QED BY <2>1 DEF LockInv, Owns
<1> QED BY <1>3, <1>4, <1>5, <1>6, <1>7 DEF Next

LEMMA BootKept ==
    ASSUME IInv, Next
    PROVE  BootInv'
<1> SUFFICES ASSUME TypeOK, BootInv, pc'[Keeper] = "open"
             PROVE  ~intx' /\ ~dbinit' /\ pc'[Web] = "idle"
  BY DEF IInv, BootInv
<1> USE Constants DEF Goto, dbVars
<1>0. pc \in [Threads -> Places]
      /\ Keeper \in Threads /\ Web \in Threads /\ Adders \subseteq Threads
  BY DEF TypeOK, Threads
<1>1. CASE KeeperStep
  <2>1. pc'[Keeper] # "open"
    BY <1>0, <1>1 DEF KeeperStep, OpenDb, Receive, Insert, Relimit, Check,
                      CommitStep, EndTx, BeginTx, SetTx
  <2> QED BY <2>1
<1>2. CASE Crash
  BY <1>0, <1>2 DEF Crash, AtBoot
<1>3. CASE Edit \/ DelLogData \/ DoCommit \/ WebStep
  <2>1. pc[Keeper] = "open"
    BY <1>0, <1>3 DEF Edit, DelLogData, DoCommit, WebStep, Edited, Drop, Create,
                      CommitStep, EndTx, BeginTx, SetTx
  <2> QED BY <1>3, <2>1 DEF BootInv, Edit, DelLogData, DoCommit, WebStep, Edited, Drop, Create,
                            CommitStep, EndTx, BeginTx, SetTx
<1>4. ASSUME NEW a \in Adders, Add(a) \/ AdderStep(a)
      PROVE  ~intx' /\ ~dbinit' /\ pc'[Web] = "idle"
  BY <1>0, <1>4 DEF BootInv, Add, AdderStep, Waited, Send
<1>5. CASE TenSeconds
  BY <1>5 DEF BootInv, TenSeconds
<1> QED BY <1>1, <1>2, <1>3, <1>4, <1>5 DEF Next

LEMMA DropKept ==
    ASSUME IInv, Next
    PROVE  DropInv'
<1>0. drops \in Nat /\ DropInv
  BY DEF IInv, TypeOK
<1>1. CASE UNCHANGED dropVars
  BY <1>0, <1>1 DEF DropInv, dropVars
<1>2. CASE drops' = drops + 1
  BY <1>0, <1>2 DEF DropInv
<1>3. CASE /\ drops' = drops /\ gone' \in {FALSE, gone, gonedisk}
           /\ gonedisk' => gonedisk \/ gone
  BY <1>0, <1>3 DEF DropInv
<1>4. CASE OpenDb \/ Crash \/ Create
  <2>1. drops' = drops /\ gone' \in {FALSE, gone, gonedisk}
    BY <1>4 DEF OpenDb, Crash, Create, dropVars
  <2>2. gonedisk' => gonedisk \/ gone
    BY <1>4 DEF OpenDb, Crash, Create
  <2> QED BY <1>3, <2>1, <2>2
<1>5. ASSUME NEW t \in Threads, CommitStep(t) PROVE DropInv'
  <2>1. \/ UNCHANGED dropVars
        \/ drops' = drops /\ gonedisk' = gone /\ gone' = gone
        \/ drops' = drops /\ gone' = gonedisk /\ gonedisk' = gonedisk
    BY <1>5 DEF CommitStep, EndTx, BeginTx, SetTx, dbVars
  <2> QED BY <1>1, <1>3, <2>1
<1>6. CASE Drop
  BY <1>1, <1>2, <1>6 DEF Drop
<1>7. CASE \/ Receive \/ Insert \/ Relimit \/ Check \/ TenSeconds
           \/ Edit \/ DelLogData \/ DoCommit \/ Edited
           \/ \E a \in Adders : Add(a) \/ AdderStep(a)
  BY <1>1, <1>7 DEF Receive, Insert, Relimit, Check, TenSeconds, Edit, DelLogData, DoCommit,
                    Edited, Add, AdderStep, Waited, Send, dbVars
<1> QED BY <1>4, <1>5, <1>6, <1>7 DEF Next, KeeperStep, WebStep, Threads

LEMMA BoundKept ==
    ASSUME IInv, Next
    PROVE  BoundInv'
<1> SUFFICES ASSUME TypeOK, BoundInv PROVE BoundInv'
  BY DEF IInv
<1> USE Constants DEF Goto
<1>0. pc \in [Threads -> Places] /\ rows \in Nat
      /\ Keeper \in Threads /\ Web \in Threads /\ Adders \subseteq Threads
  BY DEF TypeOK, Threads
<1>1. IsFiniteSet(Sending) /\ Cardinality(Sending) \in Nat
  <2>1. Sending \subseteq Adders
    BY DEF Sending
  <2> QED BY <2>1, FS_Subset, FS_CardinalityType
<1>2. ASSUME rows' = rows, \A a \in Adders : pc'[a] = pc[a] PROVE BoundInv'
  <2>1. Sending' = Sending
    BY <1>2 DEF Sending
  <2> QED BY <1>2, <2>1 DEF BoundInv
<1>3. ASSUME NEW a \in Adders, Add(a) PROVE BoundInv'
  <2>1. Sending' \subseteq Adders
    BY DEF Sending
  <2>2. IsFiniteSet(Sending') /\ Cardinality(Sending') <= Cardinality(Adders)
        /\ Cardinality(Sending') \in Nat
    BY <2>1, FS_Subset, FS_CardinalityType
  <2>3. rows' = rows /\ rows < MaxRow
    BY <1>3 DEF Add
  <2> QED BY <1>0, <2>2, <2>3 DEF BoundInv
<1>4. ASSUME NEW a \in Adders, Waited(a) PROVE BoundInv'
  <2>1. Sending' = Sending
    BY <1>0, <1>4 DEF Sending, Waited
  <2>2. rows' = rows
    BY <1>4 DEF Waited
  <2> QED BY <2>1, <2>2 DEF BoundInv
<1>5. ASSUME NEW a \in Adders, Send(a) PROVE BoundInv'
  <2>1. a \in Sending /\ Sending' = Sending \ {a}
    BY <1>0, <1>5 DEF Sending, Send
  <2>2. Cardinality(Sending') = Cardinality(Sending) - 1
    BY <1>1, <2>1, FS_RemoveElement
  <2>3. rows' = rows \/ rows' = rows + 1
    BY <1>5 DEF Send
  <2> QED BY <1>0, <1>1, <2>2, <2>3 DEF BoundInv
<1>6. CASE Crash
  <2>1. Sending' = {} /\ rows' = rows
    BY <1>0, <1>6 DEF Sending, Crash, AtBoot
  <2>2. Cardinality(Sending') = 0
    BY <2>1, FS_EmptySet
  <2> QED BY <1>0, <1>1, <2>1, <2>2 DEF BoundInv
<1>7. CASE KeeperStep \/ TenSeconds
  BY <1>0, <1>2, <1>7 DEF KeeperStep, OpenDb, Receive, Insert, Relimit, Check, TenSeconds,
                          CommitStep, EndTx, BeginTx, SetTx
<1>8. CASE Edit \/ DelLogData \/ DoCommit \/ WebStep
  BY <1>0, <1>2, <1>8 DEF Edit, DelLogData, DoCommit, WebStep, Edited, Drop, Create,
                          CommitStep, EndTx, BeginTx, SetTx
<1> QED BY <1>3, <1>4, <1>5, <1>6, <1>7, <1>8 DEF Next, AdderStep

LEMMA TableTypes ==
    ASSUME IInv
    PROVE  /\ tbl \in Seq(Nat) /\ disk \in Seq(Nat) /\ open \in Seq(Nat) /\ Kept \in Seq(Nat)
           /\ Len(tbl) \in Nat /\ Len(disk) \in Nat /\ faults \in Nat /\ Limit \in Nat
           /\ pc \in [Threads -> Places] /\ Keeper \in Threads /\ Web \in Threads
           /\ Kept \o open \in Seq(Nat)
<1>1. <<>> \in Seq(Nat)
  OBVIOUS
<1>2. /\ tbl \in Seq(Nat) /\ disk \in Seq(Nat) /\ open \in Seq(Nat) /\ Kept \in Seq(Nat)
      /\ faults \in Nat /\ pc \in [Threads -> Places] /\ Keeper \in Threads /\ Web \in Threads
  BY <1>1 DEF IInv, TypeOK, Threads, Kept
<1> QED BY <1>2, Constants, ConcatProperties

\* What the actions that leave the rows alone keep.
LEMMA TableAlone ==
    ASSUME IInv, tbl' = tbl, disk' = disk, open' = open, dropped' = dropped,
           ~intx' => ~intx,
           intx' \/ gone' = gonedisk' \/ UNCHANGED <<gone, gonedisk>>,
           faults' \in Nat, faults' >= faults,
           Bare' => Bare \/ faults' > faults,
           pc[Keeper] = "relimit" => pc'[Keeper] = "relimit"
    PROVE  TxInv' /\ DiskInv' /\ SizeInv'
<1>1. TxInv' /\ DiskInv'
  BY DEF IInv, TxInv, DiskInv, Kept
<1>2. Len(tbl) \in Nat /\ Len(disk) \in Nat /\ faults \in Nat /\ Limit \in Nat
      /\ Cutting \in Nat /\ Cutting' \in Nat /\ Cutting <= Cutting'
  BY TableTypes DEF Cutting
<1>3. /\ Len(disk) <= Limit + 1 + faults
      /\ Len(tbl) <= Limit + 1 + faults + Cutting
      /\ Bare => faults > 0 /\ Len(tbl) <= Limit + faults + Cutting
  BY DEF IInv, SizeInv
<1>4. Len(disk') <= Limit + 1 + faults' /\ Len(tbl') <= Limit + 1 + faults' + Cutting'
  BY <1>2, <1>3
<1>5. ASSUME Bare' PROVE faults' > 0 /\ Len(tbl') <= Limit + faults' + Cutting'
  <2>1. CASE Bare
    BY <1>2, <1>3, <2>1
  <2>2. CASE faults' > faults
    BY <1>2, <1>3, <2>2
  <2> QED BY <1>5, <2>1, <2>2
<1> QED BY <1>1, <1>4, <1>5 DEF SizeInv

LEMMA InsertKept ==
    ASSUME IInv, Insert
    PROVE  TxInv' /\ DiskInv' /\ SizeInv'
<1>1. /\ tbl \in Seq(Nat) /\ disk \in Seq(Nat) /\ open \in Seq(Nat) /\ item \in Nat
      /\ Kept \in Seq(Nat) /\ Kept \o open \in Seq(Nat)
      /\ Len(tbl) \in Nat /\ Len(disk) \in Nat /\ faults \in Nat /\ Limit \in Nat
      /\ pc \in [Threads -> Places] /\ Keeper \in Threads /\ Web \in Threads /\ Web # Keeper
  BY TableTypes, Constants DEF IInv, TypeOK
<1>2. pc[Keeper] = "insert" /\ intx' = intx /\ UNCHANGED dropVars /\ pc'[Web] = pc[Web]
  BY <1>1 DEF Insert, Goto
<1>3. Len(tbl) <= Limit + 1 + faults /\ Len(disk) <= Limit + 1 + faults
      /\ (Bare => faults > 0 /\ Len(tbl) <= Limit + faults)
  BY <1>1, <1>2 DEF IInv, SizeInv, Cutting
<1>4. pc[Web] \notin {"clear", "begin"}
  BY Constants DEF Insert, Owns, IInv, LockInv
<1>5. CASE tbl' = tbl /\ disk' = disk /\ open' = open /\ (Fault \/ UNCHANGED faults)
           /\ Goto(Keeper, "check")
  <2>1. Bare' => Bare
    BY <1>1, <1>2, <1>4, <1>5 DEF Bare, Goto
  <2>2. faults' \in Nat /\ faults' >= faults
    BY <1>1, <1>5 DEF Fault
  <2>3. dropped' = dropped /\ UNCHANGED <<gone, gonedisk>> /\ (~intx' => ~intx)
    BY <1>2 DEF dropVars
  <2>4. pc[Keeper] = "relimit" => pc'[Keeper] = "relimit"
    BY <1>2
  <2> QED BY <1>5, <2>1, <2>2, <2>3, <2>4, TableAlone
<1>6. CASE /\ Write(Append(tbl, item)) /\ faults' = faults /\ Goto(Keeper, "relimit")
           /\ open' = IF intx THEN Append(open, item) ELSE open
  <2>1. Append(tbl, item) \in Seq(Nat) /\ Len(Append(tbl, item)) = Len(tbl) + 1
    BY <1>1
  <2>2. pc'[Keeper] = "relimit" /\ Cutting' = 1
    BY <1>1, <1>6 DEF Goto, Cutting
  <2>3. tbl' = Append(tbl, item) /\ disk' = IF intx THEN disk ELSE tbl'
    BY <1>6 DEF Write
  <2>4. CASE intx
    <3>1. Kept \o Append(open, item) = Append(Kept \o open, item)
      BY <1>1
    <3>2. Cut(Append(tbl, item), Append(Kept \o open, item))
      BY <1>1, CutAppend DEF IInv, DiskInv
    <3>3. tbl' = Append(tbl, item) /\ disk' = disk /\ open' = Append(open, item) /\ Kept' = Kept
      BY <1>2, <1>6, <2>3, <2>4 DEF Kept, dropVars
    <3>4. ~Bare' /\ intx'
      BY <1>2, <2>4 DEF Bare
    <3>5. SizeInv'
      BY <1>1, <1>3, <1>6, <2>1, <2>2, <3>3, <3>4 DEF SizeInv
    <3>6. DiskInv'
      BY <3>1, <3>2, <3>3, Zenon DEF DiskInv
    <3> QED BY <3>4, <3>5, <3>6 DEF TxInv
  <2>5. CASE ~intx
    <3>1. open' = <<>> /\ disk' = tbl' /\ ~dropped' /\ gone' = gonedisk'
      BY <1>2, <1>6, <2>3, <2>5 DEF IInv, TxInv, dropVars
    <3>2. Kept' = tbl' /\ tbl' \o <<>> = tbl' /\ Cut(tbl', tbl')
      BY <2>1, <2>3, <3>1, ConcatEmptySeq, CutNothing DEF Kept
    <3>3. DiskInv'
      BY <3>1, <3>2 DEF DiskInv
    <3>4. Bare
      BY <1>2, <1>4, <2>5 DEF Bare
    <3>5. SizeInv'
      BY <1>1, <1>3, <1>6, <2>1, <2>2, <2>3, <3>1, <3>4 DEF SizeInv
    <3> QED BY <3>1, <3>3, <3>5 DEF TxInv
  <2> QED BY <2>4, <2>5
<1> QED BY <1>5, <1>6 DEF Insert

LEMMA RelimitKept ==
    ASSUME IInv, Relimit
    PROVE  TxInv' /\ DiskInv' /\ SizeInv'
<1>1. /\ tbl \in Seq(Nat) /\ disk \in Seq(Nat) /\ open \in Seq(Nat)
      /\ Kept \in Seq(Nat) /\ Kept \o open \in Seq(Nat)
      /\ Len(tbl) \in Nat /\ Len(disk) \in Nat /\ faults \in Nat /\ Limit \in Nat
      /\ pc \in [Threads -> Places] /\ Keeper \in Threads /\ Web \in Threads /\ Web # Keeper
  BY TableTypes, Constants
<1>2. /\ pc[Keeper] = "relimit" /\ pc'[Keeper] = "check" /\ pc'[Web] = pc[Web]
      /\ intx' = intx /\ open' = open /\ UNCHANGED dropVars
  BY <1>1 DEF Relimit, Goto
<1>3. Len(tbl) <= Limit + 2 + faults /\ Len(disk) <= Limit + 1 + faults
      /\ (Bare => faults > 0 /\ Len(tbl) <= Limit + 1 + faults)
  BY <1>1, <1>2 DEF IInv, SizeInv, Cutting
<1>4. (Bare' => Bare) /\ Cutting' = 0
  BY <1>1, <1>2 DEF Bare, Cutting
<1>5. CASE tbl' = tbl /\ disk' = disk /\ Fault
  <2>1. TxInv' /\ DiskInv'
    BY <1>2, <1>5 DEF IInv, TxInv, DiskInv, Kept, dropVars
  <2>2. SizeInv'
    BY <1>1, <1>3, <1>4, <1>5 DEF SizeInv, Fault
  <2> QED BY <2>1, <2>2
<1>6. CASE Write(Relimited(tbl)) /\ faults' = faults
  <2>1. tbl' = Relimited(tbl) /\ disk' = IF intx THEN disk ELSE tbl'
    BY <1>6 DEF Write
  <2>2. Cut(tbl', Kept \o open) /\ tbl' \in Seq(Nat) /\ Len(tbl') <= Limit + 1
    BY <1>1, <2>1, CutRelimited DEF IInv, DiskInv
  <2>3. SizeInv'
    <3>1. Len(tbl') \in Nat
      BY <2>2
    <3>2. Len(disk') <= Limit + 1 + faults'
      BY <1>1, <1>3, <1>6, <2>1, <2>2, <3>1
    <3> QED BY <1>1, <1>3, <1>4, <1>6, <2>2, <3>1, <3>2 DEF SizeInv
  <2>4. CASE intx
    <3>1. Kept' = Kept
      BY <1>2, <2>1, <2>4 DEF Kept, dropVars
    <3> QED BY <1>2, <2>2, <2>3, <2>4, <3>1 DEF TxInv, DiskInv
  <2>5. CASE ~intx
    <3>1. open' = <<>> /\ disk' = tbl' /\ ~dropped' /\ gone' = gonedisk'
      BY <1>2, <2>1, <2>5 DEF IInv, TxInv, dropVars
    <3>2. Kept' = tbl' /\ tbl' \o <<>> = tbl' /\ Cut(tbl', tbl')
      BY <2>2, <3>1, ConcatEmptySeq, CutNothing DEF Kept
    <3>3. DiskInv'
      BY <3>1, <3>2 DEF DiskInv
    <3> QED BY <2>3, <3>1, <3>3 DEF TxInv
  <2> QED BY <2>4, <2>5
<1> QED BY <1>5, <1>6 DEF Relimit

\* A commit, a rollback or a restart leaves nothing uncommitted.
LEMMA Settled ==
    ASSUME IInv, tbl' = disk', open' = <<>>, dropped' = FALSE, gone' = gonedisk', ~Bare',
           \/ disk' = tbl /\ faults' = faults /\ pc[Keeper] # "relimit"
           \/ disk' = disk /\ faults' = faults + 1
    PROVE  TxInv' /\ DiskInv' /\ SizeInv'
<1>1. /\ tbl \in Seq(Nat) /\ disk \in Seq(Nat)
      /\ Len(tbl) \in Nat /\ Len(disk) \in Nat /\ faults \in Nat /\ Limit \in Nat
      /\ Cutting' \in Nat
  BY TableTypes DEF Cutting
<1>2. disk' \in Seq(Nat)
  BY <1>1
<1>3. Kept' = tbl' /\ tbl' \o <<>> = tbl' /\ Cut(tbl', tbl')
  BY <1>2, ConcatEmptySeq, CutNothing DEF Kept
<1>4. Len(disk') <= Limit + 1 + faults'
  BY <1>1 DEF IInv, SizeInv, Cutting
<1>5. SizeInv'
  <2>1. faults' \in Nat /\ Len(disk') \in Nat
    BY <1>1
  <2> QED BY <1>1, <1>4, <2>1 DEF SizeInv
<1> QED BY <1>3, <1>5 DEF TxInv, DiskInv

LEMMA EndTxKept ==
    ASSUME IInv, NEW t \in {Keeper, Web}, EndTx(t)
    PROVE  TxInv' /\ DiskInv' /\ SizeInv'
<1>1. faults \in Nat /\ pc \in [Threads -> Places] /\ t \in Threads /\ Keeper \in Threads
      /\ Web \in Threads /\ Web # Keeper
  BY Constants, TableTypes
<1>2. pc[t] = "end" /\ pc'[t] \in {"begin", "clear"}
      /\ \A u \in Threads : u # t => pc'[u] = pc[u]
  BY <1>1 DEF EndTx, Goto
<1>3. ~Bare'
  BY <1>1, <1>2 DEF Bare
<1>4. pc[Keeper] # "relimit"
  <2>1. CASE t = Keeper
    BY <1>2, <2>1
  <2>2. CASE t = Web
    <3>1. Owns(Web)
      BY <1>2, <2>2 DEF EndTx, MayRun, IInv, LockInv
    <3> QED BY <1>1, <3>1 DEF Owns, IInv, LockInv
  <2> QED BY <2>1, <2>2
<1>5. CASE UNCHANGED dbVars /\ (UNCHANGED faults \/ Fault)
  <2>1. /\ tbl' = tbl /\ disk' = disk /\ open' = open /\ dropped' = dropped
        /\ UNCHANGED <<gone, gonedisk>> /\ intx' = intx
    BY <1>5 DEF dbVars, tblVars, dropVars
  <2>2. faults' \in Nat /\ faults' >= faults
    BY <1>1, <1>5 DEF Fault
  <2> QED BY <1>3, <1>4, <2>1, <2>2, TableAlone
<1>6. CASE /\ disk' = tbl /\ gonedisk' = gone /\ open' = <<>> /\ dropped' = FALSE
           /\ UNCHANGED <<tbl, gone, faults>>
  BY <1>1, <1>3, <1>4, <1>6, Settled
<1>7. CASE /\ Fault /\ tbl' = disk /\ gone' = gonedisk /\ open' = <<>> /\ dropped' = FALSE
           /\ UNCHANGED <<disk, gonedisk>>
  BY <1>1, <1>3, <1>7, Settled DEF Fault
<1> QED BY <1>5, <1>6, <1>7 DEF EndTx

LEMMA DropTableKept ==
    ASSUME IInv, Drop
    PROVE  TxInv' /\ DiskInv' /\ SizeInv'
<1>1. /\ Len(tbl) \in Nat /\ Len(disk) \in Nat /\ faults \in Nat /\ Limit \in Nat
      /\ pc \in [Threads -> Places] /\ Keeper \in Threads /\ Web \in Threads /\ Web # Keeper
      /\ Cutting \in Nat
  BY TableTypes, Constants DEF Cutting
<1>2. pc[Web] = "drop" /\ pc'[Web] \in {"create", "idle"} /\ pc'[Keeper] = pc[Keeper] /\ intx' = intx
  BY <1>1 DEF Drop, Goto
<1>3. (Bare' => Bare) /\ Cutting' = Cutting
  BY <1>2 DEF Bare, Cutting
<1>4. CASE Fault /\ UNCHANGED <<tblVars, dropVars>>
  <2>1. /\ tbl' = tbl /\ disk' = disk /\ open' = open /\ dropped' = dropped
        /\ UNCHANGED <<gone, gonedisk>>
    BY <1>4 DEF tblVars, dropVars
  <2>2. faults' \in Nat /\ faults' >= faults
    BY <1>1, <1>4 DEF Fault
  <2> QED BY <1>2, <1>3, <2>1, <2>2, TableAlone
<1>5. CASE /\ Write(<<>>) /\ open' = <<>> /\ gone' = TRUE /\ gonedisk' = (gonedisk \/ ~intx)
           /\ dropped' = intx /\ UNCHANGED faults
  <2>1. tbl' = <<>> /\ disk' = (IF intx THEN disk ELSE <<>>) /\ Len(tbl') = 0
    BY <1>5 DEF Write
  <2>2. Kept' = <<>>
    BY <1>5, <2>1 DEF Kept
  <2>3. <<>> \in Seq(Nat) /\ <<>> \o <<>> = <<>> /\ Len(<<>>) = 0
    OBVIOUS
  <2>4. DiskInv'
    <3>1. Cut(<<>>, <<>>)
      BY <2>3, CutNothing
    <3> QED BY <1>5, <2>1, <2>2, <2>3, <3>1 DEF DiskInv
  <2>5. TxInv'
    BY <1>2, <1>5, <2>1 DEF TxInv
  <2>6. Len(disk') <= Limit + 1 + faults'
    BY <1>1, <1>5, <2>1, <2>3 DEF IInv, SizeInv
  <2>7. Bare' => faults' > 0
    BY <1>3, <1>5 DEF IInv, SizeInv
  <2> QED BY <1>1, <1>3, <1>5, <2>1, <2>4, <2>5, <2>6, <2>7 DEF SizeInv
<1> QED BY <1>4, <1>5 DEF Drop

LEMMA TableKept ==
    ASSUME IInv, Next
    PROVE  TxInv' /\ DiskInv' /\ SizeInv'
<1>1. faults \in Nat /\ pc \in [Threads -> Places] /\ Web # Keeper
      /\ Keeper \in Threads /\ Web \in Threads /\ Adders \subseteq Threads
      /\ Web \notin Adders /\ Keeper \notin Adders
  BY Constants DEF IInv, TypeOK, Threads
<1> USE DEF Goto, dbVars, tblVars, dropVars, Fault
\* the actions that leave the rows alone
<1>2. ASSUME tbl' = tbl, disk' = disk, open' = open, UNCHANGED dropVars, intx' = intx,
             faults' = faults \/ faults' = faults + 1,
             Bare' => Bare \/ faults' > faults,
             pc[Keeper] = "relimit" => pc'[Keeper] = "relimit"
      PROVE  TxInv' /\ DiskInv' /\ SizeInv'
  BY <1>1, <1>2, TableAlone
<1>3. ASSUME NEW t \in {Keeper, Web}, BeginTx(t) \/ SetTx(t)
      PROVE  TxInv' /\ DiskInv' /\ SizeInv'
  <2>1. pc[Keeper] = "relimit" => pc'[Keeper] = "relimit"
    BY <1>1, <1>3 DEF BeginTx, SetTx
  <2>2. tbl' = tbl /\ disk' = disk /\ open' = open /\ UNCHANGED dropVars
    BY <1>3 DEF BeginTx, SetTx
  <2>3. faults' \in Nat /\ faults' >= faults
    BY <1>1, <1>3 DEF BeginTx, SetTx
  <2>4. ~intx' => ~intx
    BY <1>3 DEF BeginTx, SetTx
  <2>5. Bare' => Bare \/ faults' > faults
    BY <1>1, <1>3 DEF Bare, BeginTx, SetTx
  <2> QED BY <2>1, <2>2, <2>3, <2>4, <2>5, TableAlone
<1>4. CASE Crash
  <2>1. ~Bare'
    BY <1>1, <1>4 DEF Bare, Crash, AtBoot
  <2> QED BY <1>1, <1>4, <2>1, Settled DEF Crash
<1>5. CASE OpenDb
  <2>1. pc[Keeper] # "relimit" /\ tbl' = tbl /\ disk' = disk /\ open' = open /\ dropped' = dropped
    BY <1>5 DEF OpenDb
  <2>2. faults' \in Nat /\ faults' >= faults
    BY <1>1, <1>5 DEF OpenDb
  <2>3. ~intx
    BY <1>5 DEF OpenDb, IInv, BootInv
  <2>4. Bare' => faults' > faults
    BY <1>1, <1>5 DEF OpenDb, Bare
  <2>5. gone' = gonedisk' \/ UNCHANGED <<gone, gonedisk>>
    BY <1>5 DEF OpenDb
  <2> QED BY <2>1, <2>2, <2>3, <2>4, <2>5, TableAlone
<1>6. CASE Receive \/ Check \/ TenSeconds
  <2>1. /\ tbl' = tbl /\ disk' = disk /\ open' = open /\ UNCHANGED dropVars
        /\ faults' = faults /\ intx' = intx
    BY <1>6 DEF Receive, Check, TenSeconds
  <2>2. pc[Keeper] = "relimit" => pc'[Keeper] = "relimit"
    BY <1>1, <1>6 DEF Receive, Check, TenSeconds
  <2>3. Bare' => Bare
    BY <1>1, <1>6 DEF Bare, Receive, Check, TenSeconds
  <2> QED BY <1>2, <2>1, <2>2, <2>3
<1>7. ASSUME NEW a \in Adders, Add(a) \/ AdderStep(a)
      PROVE  TxInv' /\ DiskInv' /\ SizeInv'
  <2>1. /\ tbl' = tbl /\ disk' = disk /\ open' = open /\ UNCHANGED dropVars
        /\ faults' = faults /\ intx' = intx
    BY <1>7 DEF Add, AdderStep, Waited, Send
  <2>2. pc'[Keeper] = pc[Keeper] /\ pc'[Web] = pc[Web]
    BY <1>1, <1>7 DEF Add, AdderStep, Waited, Send
  <2>3. Bare' => Bare
    BY <2>1, <2>2 DEF Bare
  <2> QED BY <1>2, <2>1, <2>2, <2>3
<1>8. CASE Edit \/ DelLogData \/ DoCommit \/ Edited
  <2>1. tbl' = tbl /\ disk' = disk /\ open' = open /\ UNCHANGED dropVars /\ intx' = intx
    BY <1>8 DEF Edit, DelLogData, DoCommit, Edited
  <2>2. faults' = faults \/ faults' = faults + 1
    BY <1>8 DEF Edit, DelLogData, DoCommit, Edited
  <2>3. pc'[Keeper] = pc[Keeper] /\ pc[Web] \notin {"clear", "begin"}
    BY <1>1, <1>8 DEF Edit, DelLogData, DoCommit, Edited
  <2>4. Bare' => Bare
    BY <2>1, <2>3 DEF Bare
  <2> QED BY <1>2, <2>1, <2>2, <2>3, <2>4
<1>9. CASE Create
  <2>1. tbl' = tbl /\ disk' = disk /\ open' = open /\ dropped' = dropped /\ intx' = intx
    BY <1>9 DEF Create
  <2>2. faults' \in Nat /\ faults' >= faults
    BY <1>1, <1>9 DEF Create
  <2>3. pc'[Keeper] = pc[Keeper] /\ pc[Web] \notin {"clear", "begin"}
    BY <1>1, <1>9 DEF Create
  <2>4. Bare' => Bare
    BY <2>1, <2>3 DEF Bare
  <2>5. intx' \/ gone' = gonedisk' \/ UNCHANGED <<gone, gonedisk>>
    <3>1. CASE ~intx /\ gone' = FALSE /\ gonedisk' = (gonedisk /\ intx)
      <4>1. (gonedisk /\ intx) = FALSE
        BY <3>1, Zenon
      <4> QED BY <3>1, <4>1, Zenon
    <3>2. \/ intx
          \/ ~intx /\ gone' = FALSE /\ gonedisk' = (gonedisk /\ intx)
          \/ UNCHANGED <<gone, gonedisk>>
      BY <1>9 DEF Create
    <3> QED BY <2>1, <3>1, <3>2
  <2> QED BY <2>1, <2>2, <2>3, <2>4, <2>5, TableAlone
<1> QED BY <1>3, <1>4, <1>5, <1>6, <1>7, <1>8, <1>9, InsertKept, RelimitKept, EndTxKept, DropTableKept
        DEF Next, KeeperStep, WebStep, CommitStep

-------------------------------------------------------------------------------
(* The rows in the queue.                                                   *)

\* There are m - n rows from n + 1 to m.
LEMMA RowsCount ==
    ASSUME NEW m \in Nat, NEW n \in 0 .. m
    PROVE  Cardinality(n + 1 .. m) = m - n
<1>1. Cardinality(n + 1 .. m) = IF n + 1 > m THEN 0 ELSE m - (n + 1) + 1
  BY FS_Interval
<1> QED BY <1>1

LEMMA FunctionIsSeq ==
    ASSUME NEW c \in Nat, NEW q \in [1 .. c -> Nat]
    PROVE  q \in Seq(Nat) /\ Len(q) = c
<1>1. q \in UNION {[1 .. k -> Nat] : k \in Nat}
  OBVIOUS
<1>2. q \in Seq(Nat)
  BY <1>1, SeqDef, Zenon
<1>3. 1 .. c = 1 .. Len(q) /\ Len(q) \in Nat
  BY <1>2, LenProperties
<1> QED BY <1>2, <1>3

\* What InQueue is, before and after a step.
LEMMA InQueueIs ==
    ASSUME NEW m \in Nat, NEW n \in 0 .. m, rows = m, Queued = n + 1 .. m
    PROVE  /\ InQueue \in Seq(Nat) /\ Len(InQueue) = m - n
           /\ \A i \in 1 .. m - n : InQueue[i] = n + i
<1>1. Cardinality(Queued) = m - n
  BY RowsCount
<1>2. InQueue = [i \in 1 .. m - n |-> m - (m - n) + i]
  BY <1>1 DEF InQueue
<1>3. \A i \in 1 .. m - n : m - (m - n) + i = n + i /\ n + i \in Nat
  OBVIOUS
<1>4. InQueue \in [1 .. m - n -> Nat] /\ \A i \in 1 .. m - n : InQueue[i] = n + i
  BY <1>2, <1>3
<1>5. m - n \in Nat
  OBVIOUS
<1> HIDE DEF InQueue
<1> QED BY <1>4, <1>5, FunctionIsSeq

LEMMA InQueueNext ==
    ASSUME NEW m \in Nat, NEW n \in 0 .. m, rows' = m, Queued' = n + 1 .. m
    PROVE  /\ InQueue' \in Seq(Nat) /\ Len(InQueue') = m - n
           /\ \A i \in 1 .. m - n : InQueue'[i] = n + i
<1>1. Cardinality(Queued') = m - n
  BY RowsCount
<1>2. InQueue' = [i \in 1 .. m - n |-> m - (m - n) + i]
  BY <1>1 DEF InQueue
<1>3. \A i \in 1 .. m - n : m - (m - n) + i = n + i /\ n + i \in Nat
  OBVIOUS
<1>4. InQueue' \in [1 .. m - n -> Nat] /\ \A i \in 1 .. m - n : InQueue'[i] = n + i
  BY <1>2, <1>3
<1>5. m - n \in Nat
  OBVIOUS
<1> HIDE DEF InQueue
<1> QED BY <1>4, <1>5, FunctionIsSeq

\* The queue that is kept, or cleared.
LEMMA QueueSame ==
    ASSUME IInv, queue' = queue, rows' = rows
    PROVE  QueueInv' /\ InQueue' = InQueue
BY DEF IInv, QueueInv, InQueue, Queued

LEMMA QueueCleared ==
    ASSUME IInv, queue' = <<>>, rows' = rows
    PROVE  QueueInv' /\ InQueue' = <<>>
<1>1. Queued' = {} /\ DOMAIN queue' = {}
  BY DEF Queued
<1>2. rows \in Nat /\ rows + 1 .. rows = {} /\ rows \in 0 .. rows
  BY DEF IInv, TypeOK
<1>3. QueueInv'
  BY <1>1, <1>2 DEF QueueInv
<1>4. Cardinality(Queued') = 0
  BY <1>1, FS_EmptySet
<1>5. InQueue' = [i \in 1 .. 0 |-> rows - 0 + i]
  BY <1>4 DEF InQueue
<1> QED BY <1>3, <1>5

\* A row or an order to commit joins the queue.
LEMMA QueueGrows ==
    ASSUME IInv, NEW x \in Nat, queue' = Append(queue, x),
           \/ x = CommitItem /\ rows' = rows
           \/ x = rows + 1 /\ rows' = rows + 1
    PROVE  /\ QueueInv'
           /\ x = CommitItem => InQueue' = InQueue
           /\ x # CommitItem => InQueue' = Append(InQueue, x)
<1>1. rows \in Nat /\ queue \in Seq(Nat) /\ Len(queue) \in Nat
  BY DEF IInv, TypeOK
<1>2. PICK n \in 0 .. rows : Queued = n + 1 .. rows
  BY DEF IInv, QueueInv
<1>3. /\ DOMAIN queue = 1 .. Len(queue) /\ DOMAIN queue' = 1 .. Len(queue) + 1
      /\ \A i \in 1 .. Len(queue) : queue'[i] = queue[i]
      /\ queue'[Len(queue) + 1] = x
  BY <1>1
<1>4. Queued' = Queued \cup ({x} \ {CommitItem})
  <2>1. ASSUME NEW v
        PROVE  (\E i \in DOMAIN queue' : queue'[i] = v)
                 <=> (\E i \in DOMAIN queue : queue[i] = v) \/ v = x
    <3>1. CASE \E i \in DOMAIN queue' : queue'[i] = v
      <4>1. PICK i \in 1 .. Len(queue) + 1 : queue'[i] = v
        BY <1>3, <3>1
      <4>2. CASE i = Len(queue) + 1
        BY <1>3, <4>1, <4>2
      <4>3. CASE i # Len(queue) + 1
        <5>1. i \in 1 .. Len(queue)
          BY <1>1, <4>1, <4>3
        <5> QED BY <1>3, <4>1, <5>1
      <4> QED BY <4>2, <4>3
    <3>2. CASE \E i \in DOMAIN queue : queue[i] = v
      <4>1. PICK i \in 1 .. Len(queue) : queue[i] = v
        BY <1>3, <3>2
      <4>2. i \in 1 .. Len(queue) + 1
        BY <1>1, <4>1
      <4> QED BY <1>3, <4>1, <4>2
    <3>3. CASE v = x
      <4>1. Len(queue) + 1 \in 1 .. Len(queue) + 1
        BY <1>1
      <4> QED BY <1>3, <3>3, <4>1
    <3> QED BY <3>1, <3>2, <3>3
  <2> QED BY <2>1 DEF Queued
<1>5. \A i, j \in DOMAIN queue' :
        i < j /\ queue'[i] # CommitItem /\ queue'[j] # CommitItem => queue'[i] < queue'[j]
  <2> SUFFICES ASSUME NEW i \in DOMAIN queue', NEW j \in DOMAIN queue',
                      i < j, queue'[i] # CommitItem, queue'[j] # CommitItem
               PROVE  queue'[i] < queue'[j]
    OBVIOUS
  <2>1. i \in 1 .. Len(queue)
    BY <1>1, <1>3
  <2>2. CASE j \in 1 .. Len(queue)
    BY <1>3, <2>1, <2>2 DEF IInv, QueueInv
  <2>3. CASE j = Len(queue) + 1
    <3>1. queue'[j] = rows + 1
      BY <1>3, <2>3
    <3>2. queue[i] \in Queued
      BY <1>3, <2>1 DEF Queued
    <3> QED BY <1>1, <1>2, <1>3, <2>1, <3>1, <3>2
  <2> QED BY <1>1, <1>3, <2>2, <2>3
<1>6. CASE x = CommitItem /\ rows' = rows
  <2>1. Queued' = Queued
    BY <1>4, <1>6
  <2>2. InQueue' = InQueue
    BY <1>6, <2>1 DEF InQueue
  <2> QED BY <1>2, <1>5, <1>6, <2>1, <2>2 DEF QueueInv
<1>7. CASE x = rows + 1 /\ rows' = rows + 1
  <2>1. x # CommitItem
    BY <1>1, <1>7 DEF CommitItem
  <2>2. Queued' = n + 1 .. rows + 1 /\ n \in 0 .. rows + 1
    <3>1. Queued' = (n + 1 .. rows) \cup {rows + 1}
      BY <1>2, <1>4, <1>7, <2>1
    <3> QED BY <1>1, <1>2, <3>1
  <2>3. QueueInv'
    BY <1>5, <1>7, <2>2 DEF QueueInv
  <2>4. /\ InQueue \in Seq(Nat) /\ Len(InQueue) = rows - n
        /\ \A i \in 1 .. rows - n : InQueue[i] = n + i
    BY <1>1, <1>2, InQueueIs
  <2>5. /\ InQueue' \in Seq(Nat) /\ Len(InQueue') = rows + 1 - n
        /\ \A i \in 1 .. rows + 1 - n : InQueue'[i] = n + i
    BY <1>1, <1>7, <2>2, InQueueNext
  <2>6. InQueue' = Append(InQueue, x)
    <3>1. /\ Append(InQueue, x) \in Seq(Nat) /\ Len(Append(InQueue, x)) = rows + 1 - n
          /\ \A i \in 1 .. rows - n : Append(InQueue, x)[i] = n + i
          /\ Append(InQueue, x)[rows + 1 - n] = n + (rows + 1 - n)
      <4>1. Len(InQueue) + 1 = rows + 1 - n /\ n + (rows + 1 - n) = x
        BY <1>1, <1>2, <1>7, <2>4
      <4> QED BY <2>4, <4>1
    <3>2. \A i \in 1 .. rows + 1 - n : InQueue'[i] = Append(InQueue, x)[i]
      <4>1. \A i \in 1 .. rows + 1 - n : i \in 1 .. rows - n \/ i = rows + 1 - n
        BY <1>1, <1>2
      <4> QED BY <2>5, <3>1, <4>1
    <3> HIDE DEF InQueue
    <3> QED BY <2>5, <3>1, <3>2, SeqEqual
  <2> QED BY <2>1, <2>3, <2>6
<1> QED BY <1>6, <1>7

\* The storage thread takes the first item.
LEMMA QueueShrinks ==
    ASSUME IInv, queue # <<>>, queue' = Tail(queue), rows' = rows
    PROVE  /\ QueueInv'
           /\ Head(queue) = CommitItem => InQueue' = InQueue
           /\ Head(queue) # CommitItem => InQueue = <<Head(queue)>> \o InQueue'
<1> DEFINE x == Head(queue)
<1>1. rows \in Nat /\ queue \in Seq(Nat) /\ Len(queue) \in Nat \ {0} /\ x \in Nat
  BY DEF IInv, TypeOK
<1>2. PICK n \in 0 .. rows : Queued = n + 1 .. rows
  BY DEF IInv, QueueInv
<1>3. /\ DOMAIN queue = 1 .. Len(queue) /\ DOMAIN queue' = 1 .. Len(queue) - 1
      /\ \A i \in 1 .. Len(queue) - 1 : queue'[i] = queue[i + 1]
      /\ queue[1] = x
  <2>1. Tail(queue) \in Seq(Nat) /\ Len(Tail(queue)) = Len(queue) - 1
        /\ \A i \in 1 .. Len(Tail(queue)) : Tail(queue)[i] = queue[i + 1]
    BY <1>1, HeadTailProperties
  <2>2. queue[1] = Head(queue)
    BY <1>1
  <2> QED BY <1>1, <2>1, <2>2
<1>4. ASSUME NEW v
      PROVE  (\E i \in DOMAIN queue : queue[i] = v)
               <=> (\E i \in DOMAIN queue' : queue'[i] = v) \/ v = x
  <2>1. CASE \E i \in DOMAIN queue : queue[i] = v
    <3>1. PICK i \in 1 .. Len(queue) : queue[i] = v
      BY <1>3, <2>1
    <3>2. CASE i = 1
      BY <1>3, <3>1, <3>2
    <3>3. CASE i # 1
      <4>1. i - 1 \in 1 .. Len(queue) - 1 /\ (i - 1) + 1 = i
        BY <1>1, <3>1, <3>3
      <4>2. queue'[i - 1] = v
        BY <1>3, <3>1, <4>1
      <4> QED BY <1>3, <4>1, <4>2
    <3> QED BY <3>2, <3>3
  <2>2. CASE \E i \in DOMAIN queue' : queue'[i] = v
    <3>1. PICK i \in 1 .. Len(queue) - 1 : queue'[i] = v
      BY <1>3, <2>2
    <3>2. i + 1 \in 1 .. Len(queue)
      BY <1>1, <3>1
    <3> QED BY <1>3, <3>1, <3>2
  <2>3. CASE v = x
    <3>1. 1 \in 1 .. Len(queue)
      BY <1>1
    <3> QED BY <1>3, <2>3, <3>1
  <2> QED BY <2>1, <2>2, <2>3
<1>5. Queued = Queued' \cup ({x} \ {CommitItem})
  BY <1>4 DEF Queued
<1>6. \A i, j \in DOMAIN queue' :
        i < j /\ queue'[i] # CommitItem /\ queue'[j] # CommitItem => queue'[i] < queue'[j]
  <2> SUFFICES ASSUME NEW i \in DOMAIN queue', NEW j \in DOMAIN queue',
                      i < j, queue'[i] # CommitItem, queue'[j] # CommitItem
               PROVE  queue'[i] < queue'[j]
    OBVIOUS
  <2>1. i + 1 \in 1 .. Len(queue) /\ j + 1 \in 1 .. Len(queue) /\ i + 1 < j + 1
    BY <1>1, <1>3, SMTT(20)
  <2>2. queue'[i] = queue[i + 1] /\ queue'[j] = queue[j + 1]
    BY <1>3
  <2> QED BY <1>3, <2>1, <2>2 DEF IInv, QueueInv
<1>7. CASE x = CommitItem
  <2>1. Queued' = Queued
    BY <1>5, <1>7
  <2>2. InQueue' = InQueue
    BY <2>1 DEF InQueue
  <2> QED BY <1>2, <1>6, <1>7, <2>1, <2>2 DEF QueueInv
<1>8. CASE x # CommitItem
  <2>1. \A v \in Queued' : x < v
    <3> SUFFICES ASSUME NEW i \in DOMAIN queue', queue'[i] # CommitItem
                 PROVE  x < queue'[i]
      BY DEF Queued
    <3>1. 1 \in DOMAIN queue /\ i + 1 \in DOMAIN queue /\ 1 < i + 1
      BY <1>1, <1>3
    <3>2. queue'[i] = queue[i + 1]
      BY <1>3
    <3> QED BY <1>3, <1>8, <3>1, <3>2 DEF IInv, QueueInv
  <2>2. x \in n + 1 .. rows
    BY <1>2, <1>5, <1>8
  <2>3. x = n + 1
    <3>1. n + 1 \in Queued
      BY <1>1, <1>2, <2>2
    <3>2. n + 1 \in Queued' \/ n + 1 = x
      BY <1>5, <3>1
    <3> QED BY <1>1, <1>2, <2>1, <2>2, <3>2
  <2>4. Queued' = (n + 1) + 1 .. rows /\ n + 1 \in 0 .. rows
    <3>1. Queued' = Queued \ {x}
      BY <1>1, <1>5, <2>1
    <3>2. n \in Nat
      BY <1>2
    <3>3. (n + 1 .. rows) \ {n + 1} = (n + 1) + 1 .. rows
      BY <1>1, <3>2
    <3> QED BY <1>1, <1>2, <2>2, <2>3, <3>1, <3>2, <3>3
  <2>5. QueueInv'
    <3>1. \E k \in 0 .. rows' : Queued' = k + 1 .. rows'
      BY <2>4
    <3> QED BY <1>6, <3>1 DEF QueueInv
  <2>6. /\ InQueue \in Seq(Nat) /\ Len(InQueue) = rows - n
        /\ \A i \in 1 .. rows - n : InQueue[i] = n + i
    BY <1>1, <1>2, InQueueIs
  <2>7. /\ InQueue' \in Seq(Nat) /\ Len(InQueue') = rows - (n + 1)
        /\ \A i \in 1 .. rows - (n + 1) : InQueue'[i] = (n + 1) + i
    BY <1>1, <2>4, InQueueNext
  <2> DEFINE q == InQueue  r == InQueue'  w == <<x>> \o r
  <2> HIDE DEF x, q, r
  <2>8. /\ w \in Seq(Nat) /\ Len(w) = rows - n
        /\ \A i \in 1 .. rows - n : w[i] = IF i <= 1 THEN x ELSE r[i - 1]
    <3>1. <<x>> \in Seq(Nat) /\ Len(<<x>>) = 1 /\ <<x>>[1] = x
      BY <1>1
    <3>2. r \in Seq(Nat) /\ Len(r) = rows - (n + 1)
      BY <2>7 DEF r
    <3>3. w \in Seq(Nat) /\ Len(w) = 1 + Len(r)
          /\ \A i \in 1 .. 1 + Len(r) : w[i] = IF i <= 1 THEN <<x>>[i] ELSE r[i - 1]
      BY <3>1, <3>2, ConcatProperties
    <3>4. 1 + Len(r) = rows - n
      BY <1>1, <1>2, <3>2
    <3>5. \A i \in 1 .. rows - n : i <= 1 => i = 1
      OBVIOUS
    <3> QED BY <3>1, <3>3, <3>4, <3>5
  <2>9. \A i \in 1 .. rows - n : q[i] = w[i]
    <3> SUFFICES ASSUME NEW i \in 1 .. rows - n PROVE q[i] = w[i]
      OBVIOUS
    <3>1. q[i] = n + i
      BY <2>6 DEF q
    <3>2. CASE i = 1
      BY <2>3, <2>8, <3>1, <3>2
    <3>3. CASE i # 1
      <4>1. i - 1 \in 1 .. rows - (n + 1) /\ ~(i <= 1) /\ (n + 1) + (i - 1) = n + i
        BY <1>1, <1>2, <3>3
      <4>2. r[i - 1] = (n + 1) + (i - 1)
        BY <2>7, <4>1 DEF r
      <4> QED BY <2>8, <3>1, <4>1, <4>2
    <3> QED BY <3>2, <3>3
  <2>10. q \in Seq(Nat) /\ Len(q) = rows - n
    BY <2>6 DEF q
  <2>11. q = w
    <3> HIDE DEF w
    <3> QED BY <2>8, <2>9, <2>10, SeqEqual
  <2> QED BY <1>8, <2>5, <2>11 DEF q, r, x
<1> QED BY <1>7, <1>8

LEMMA QueueKept ==
    ASSUME IInv, Next
    PROVE  QueueInv'
<1>0. rows \in Nat /\ queue \in Seq(Nat)
  BY DEF IInv, TypeOK
<1>1. CASE queue' = queue /\ rows' = rows
  BY <1>1, QueueSame
<1>2. CASE Receive
  BY <1>1, <1>2, QueueShrinks DEF Receive
<1>3. ASSUME NEW a \in Adders, Send(a) PROVE QueueInv'
  <2>1. CASE queue' = Append(queue, rows + 1) /\ rows' = rows + 1
    <3>1. rows + 1 \in Nat
      BY <1>0
    <3> QED BY <2>1, <3>1, QueueGrows
  <2> QED BY <1>1, <1>3, <2>1 DEF Send
<1>4. CASE Edited
  <2>1. CASE queue' = Append(queue, CommitItem) /\ rows' = rows
    <3>1. CommitItem \in Nat
      BY DEF CommitItem
    <3> QED BY <2>1, <3>1, QueueGrows
  <2>2. rows' = rows /\ (queue' = queue \/ queue' = Append(queue, CommitItem))
    BY <1>4 DEF Edited
  <2> QED BY <1>1, <2>1, <2>2
<1>5. CASE Crash
  BY <1>5, QueueCleared DEF Crash
<1>6. CASE \/ OpenDb \/ Insert \/ Relimit \/ Check \/ TenSeconds
           \/ Edit \/ DelLogData \/ DoCommit \/ Drop \/ Create
           \/ \E t \in Threads : CommitStep(t)
           \/ \E a \in Adders : Add(a) \/ Waited(a)
  BY <1>1, <1>6 DEF OpenDb, Insert, Relimit, Check, TenSeconds, Edit, DelLogData, DoCommit,
                    Drop, Create, CommitStep, EndTx, BeginTx, SetTx, Add, Waited
<1> QED BY <1>2, <1>3, <1>4, <1>5, <1>6
        DEF Next, KeeperStep, WebStep, AdderStep, Threads

LEMMA NextIInv == IInv /\ [Next]_vars => IInv'
<1> SUFFICES ASSUME IInv, [Next]_vars PROVE IInv'
  OBVIOUS
<1>1. CASE UNCHANGED vars
  <2> USE <1>1 DEF vars, thrVars, dbVars, tblVars, dropVars, cfgVars, IInv
  <2>1. TypeOK'
    BY DEF TypeOK
  <2>2. LockInv' /\ BootInv' /\ TxInv' /\ DropInv'
    BY DEF LockInv, BootInv, TxInv, DropInv, Owns
  <2>3. Kept' = Kept /\ Cutting' = Cutting /\ Bare' = Bare
    BY DEF Kept, Cutting, Bare
  <2>4. DiskInv' /\ SizeInv'
    BY <2>3 DEF DiskInv, SizeInv
  <2>5. QueueInv' /\ BoundInv'
    BY DEF QueueInv, Queued, BoundInv, Sending
  <2> QED BY <2>1, <2>2, <2>4, <2>5
<1>2. CASE Next
  <2>1. TypeOK'
    BY <1>2, KeeperTypes, CommitTypes, UserTypes DEF Next, KeeperStep, WebStep, Threads
  <2> QED BY <1>2, <2>1, LockKept, BootKept, DropKept, BoundKept, TableKept, QueueKept DEF IInv
<1> QED BY <1>1, <1>2

LEMMA SpecIInv == Spec => []IInv
BY InitIInv, NextIInv, PTL DEF Spec

\* The queue never holds more than STORAGE_LINE_LIMIT items, and the row in the
\* storage thread's hand is a row.
THEOREM TypeCorrect == Spec => []TypeOK
BY SpecIInv, PTL DEF IInv

\* Whoever commits, whatever fails, and whether a row is inserted in a transaction
\* or outside, __relimit_table keeps one row more than the limit on the disk and
\* in the table, which has a second one only until it has run, and one for every
\* fault: the code's limit of N rows is one of N + 1.
THEOREM TableStaysBounded == Spec => []TableBounded
<1>1. IInv => TableBounded
  <2> SUFFICES ASSUME IInv PROVE TableBounded
    OBVIOUS
  <2> QED BY DEF IInv, SizeInv, Cutting, TableBounded
<1> QED BY <1>1, SpecIInv, PTL

\* The queue holds the last rows that were accepted, one each and in order,
\* however many were taken from it or dropped because it was full.
THEOREM QueueInOrder == Spec => []QueueInv
BY SpecIInv, PTL DEF IInv

-------------------------------------------------------------------------------
(* The refinement.                                                          *)

\* What is pending is a sequence of rows, before and after a step.
LEMMA PendingTypes ==
    ASSUME IInv
    PROVE  open \in Seq(Nat) /\ InHand \in Seq(Nat) /\ InQueue \in Seq(Nat)
           /\ Pending \in Seq(Nat) /\ Pending = open \o InHand \o InQueue
<1>1. open \in Seq(Nat) /\ InHand \in Seq(Nat)
  BY DEF IInv, TypeOK, InHand
<1>2. InQueue \in Seq(Nat)
  <2>1. PICK n \in 0 .. rows : Queued = n + 1 .. rows
    BY DEF IInv, QueueInv
  <2>2. rows \in Nat
    BY DEF IInv, TypeOK
  <2> QED BY <2>1, <2>2, InQueueIs
<1> QED BY <1>1, <1>2, ConcatProperties DEF Pending

\* A step that does not touch what is pending.
LEMMA PendingSame ==
    ASSUME IInv, UNCHANGED <<queue, rows, item, open>>,
           pc'[Keeper] = "insert" <=> pc[Keeper] = "insert"
    PROVE  Pending' = Pending
<1>1. InHand' = InHand
  BY DEF InHand
<1> QED BY <1>1, QueueSame DEF Pending

\* A step that stores the first rows, one that loses some to a fault, and one
\* whose fault loses none.
LEMMA StoreFirst ==
    ASSUME IInv, NEW a \in Seq(Nat), NEW b \in Seq(Nat),
           Pending = a \o b, Pending' = b, Cut(disk', Kept \o a),
           dropped' = FALSE, UNCHANGED <<gone, drops, faults>>
    PROVE  Abstract!Next
<1>1. SubSeq(Pending, 1, Len(a)) = a /\ SubSeq(Pending, Len(a) + 1, Len(Pending)) = b
  BY Parts
<1>2. Len(a) \in 0 .. Len(Pending)
  BY ConcatProperties
<1>4. disk' \in Abstract!Trimmed(Kept \o a)
  <2> DEFINE u == Kept \o a
  <2>1. PICK k \in 0 .. Len(u) : /\ k = 0 \/ Len(u) - k >= Limit + 1 - DelNum
                                 /\ disk' = SubSeq(u, k + 1, Len(u))
    BY DEF Cut
  <2> HIDE DEF u
  <2>2. disk' \in Abstract!Trimmed(u)
    BY <2>1 DEF Abstract!Trimmed
  <2> QED BY <2>2 DEF u
<1>5. Abstract!Store(Len(a))
  BY <1>1, <1>4 DEF Abstract!Store, Kept
<1> QED BY <1>2, <1>5 DEF Abstract!Next

\* Where the middle of what is pending begins and ends.
LEMMA Middle ==
    ASSUME NEW a \in Seq(Nat), NEW b \in Seq(Nat), NEW c \in Seq(Nat),
           Pending = (a \o b) \o c, Pending' = a \o c
    PROVE  /\ Abstract!LoseBetween(Len(a), Len(a) + Len(b))
           /\ Len(a) \in Nat /\ Len(b) \in Nat /\ Len(c) \in Nat
           /\ Len(Pending) = Len(a) + Len(b) + Len(c)
<1> DEFINE ab == a \o b
<1>1. ab \in Seq(Nat) /\ Len(ab) = Len(a) + Len(b) /\ Len(a) \in Nat /\ Len(b) \in Nat
      /\ Len(c) \in Nat
  BY ConcatProperties
<1>2. b \o c \in Seq(Nat) /\ Pending = a \o (b \o c)
  <2>1. (a \o b) \o c = a \o (b \o c)
    BY ConcatAssociative, SMTT(20)
  <2>2. b \o c \in Seq(Nat)
    BY ConcatProperties
  <2> QED BY <2>1, <2>2
<1>3. SubSeq(Pending, 1, Len(a)) = a
  BY <1>2, Parts
<1> HIDE DEF ab
<1>4. Pending = ab \o c
  BY DEF ab
<1>5. SubSeq(Pending, Len(ab) + 1, Len(Pending)) = c /\ Len(Pending) = Len(ab) + Len(c)
  <2>1. ab \in Seq(Nat) /\ c \in Seq(Nat)
    BY <1>1
  <2>2. SubSeq(ab \o c, Len(ab) + 1, Len(ab \o c)) = c
    BY ONLY <2>1, Parts
  <2>3. Len(ab \o c) = Len(ab) + Len(c)
    BY ONLY <2>1, ConcatProperties
  <2> QED BY <1>4, <2>2, <2>3
<1>6. Pending' = SubSeq(Pending, 1, Len(a)) \o SubSeq(Pending, Len(a) + Len(b) + 1, Len(Pending))
  BY <1>1, <1>3, <1>5
<1>7. Len(a) <= Len(a) + Len(b)
  BY <1>1
<1>8. Abstract!LoseBetween(Len(a), Len(a) + Len(b))
  BY <1>6, <1>7 DEF Abstract!LoseBetween
<1> QED BY <1>1, <1>5, <1>8

LEMMA LoseMiddle ==
    ASSUME IInv, NEW a \in Seq(Nat), NEW b \in Seq(Nat), NEW c \in Seq(Nat),
           Pending = (a \o b) \o c, Pending' = a \o c, disk' = disk, faults' > faults,
           DropInv', drops' = drops, dropped' => dropped
    PROVE  Abstract!Next
<1>1. /\ Abstract!LoseBetween(Len(a), Len(a) + Len(b))
      /\ Len(a) \in Nat /\ Len(b) \in Nat /\ Len(c) \in Nat
      /\ Len(Pending) = Len(a) + Len(b) + Len(c)
  BY Middle
<1>2. Len(a) \in 0 .. Len(Pending) /\ Len(a) + Len(b) \in 0 .. Len(Pending)
  BY <1>1
<1>3. \E i, j \in 0 .. Len(Pending) : Abstract!LoseBetween(i, j)
  BY <1>1, <1>2
<1>4. gone' => drops > 0
  BY DEF DropInv, IInv, TypeOK
<1>5. Abstract!Fail
  BY <1>3, <1>4 DEF Abstract!Fail
<1> QED BY <1>5 DEF Abstract!Next

LEMMA LoseNothing ==
    ASSUME IInv, Pending' = Pending, disk' = disk, faults' > faults,
           DropInv', drops' = drops, dropped' => dropped
    PROVE  Abstract!Next
<1>1. <<>> \in Seq(Nat) /\ Pending \in Seq(Nat)
  BY PendingTypes
<1>2. Pending = (<<>> \o <<>>) \o Pending /\ Pending' = <<>> \o Pending
  BY <1>1, ConcatEmptySeq
<1> QED BY <1>1, <1>2, LoseMiddle

LEMMA OpenDbImplements ==
    ASSUME IInv, DropInv', OpenDb
    PROVE  Abstract!Next \/ UNCHANGED Abstract!vars
<1>1. faults \in Nat /\ pc \in [Threads -> Places] /\ Keeper \in Threads
  BY DEF IInv, TypeOK, Threads
<1>2. UNCHANGED <<queue, rows, item, open, disk, dropped, drops>>
  BY DEF OpenDb, tblVars, thrVars
<1>3. pc'[Keeper] = "insert" <=> pc[Keeper] = "insert"
  BY <1>1 DEF OpenDb, Goto
<1>4. Pending' = Pending
  BY <1>2, <1>3, PendingSame
<1>5. CASE Fault
  <2>1. faults' > faults
    BY <1>1, <1>5 DEF Fault
  <2> QED BY <1>2, <1>4, <2>1, LoseNothing
<1>6. CASE gone' = FALSE /\ faults' = faults
  <2>1. CASE gone
    BY <1>2, <1>4, <1>6, <2>1 DEF Abstract!Mend, Abstract!Next
  <2>2. CASE ~gone
    <3>1. gone \in BOOLEAN
      BY DEF IInv, TypeOK
    <3>2. gone' = gone
      BY <1>6, <2>2, <3>1
    <3> QED BY <1>2, <1>4, <1>6, <3>2 DEF Abstract!vars
  <2> QED BY <2>1, <2>2
<1> QED BY <1>5, <1>6 DEF OpenDb

LEMMA ReceiveImplements ==
    ASSUME IInv, Receive
    PROVE  UNCHANGED Abstract!vars
<1>1. pc \in [Threads -> Places] /\ Keeper \in Threads /\ item \in Nat
  BY DEF IInv, TypeOK, Threads
<1>2. open' = open /\ disk' = disk /\ faults' = faults /\ rows' = rows /\ pc[Keeper] = "recv"
      /\ gone' = gone /\ dropped' = dropped /\ drops' = drops
  BY DEF Receive, dbVars, tblVars, dropVars
<1>3. InHand = <<>>
  BY <1>2 DEF InHand
<1>4. CASE queue = <<>>
  <2>1. queue' = queue /\ pc'[Keeper] = "check"
    BY <1>1, <1>4 DEF Receive, Goto
  <2>2. InQueue' = InQueue /\ InHand' = <<>>
    BY <1>2, <2>1, QueueSame DEF InHand
  <2> QED BY <1>2, <1>3, <2>2 DEF Pending, Abstract!vars
<1>5. CASE queue # <<>>
  <2>1. queue' = Tail(queue) /\ item' = Head(queue)
        /\ pc' = [pc EXCEPT ![Keeper] = IF item' = CommitItem THEN "end" ELSE "insert"]
    BY <1>5 DEF Receive, Goto
  <2>2. CASE Head(queue) = CommitItem
    <3>1. InQueue' = InQueue
      BY <1>2, <1>5, <2>1, <2>2, QueueShrinks
    <3>2. InHand' = <<>>
      BY <1>1, <2>1, <2>2 DEF InHand
    <3> QED BY <1>2, <1>3, <3>1, <3>2 DEF Pending, Abstract!vars
  <2>3. CASE Head(queue) # CommitItem
    <3>1. InQueue = <<item'>> \o InQueue'
      BY <1>2, <1>5, <2>1, <2>3, QueueShrinks
    <3>2. InHand' = <<item'>>
      BY <1>1, <2>1, <2>3 DEF InHand
    <3>3. item' \in Nat /\ InQueue' \in Seq(Nat) /\ open \in Seq(Nat)
      <4>1. QueueInv'
        BY <1>2, <1>5, <2>1, QueueShrinks
      <4>2. PICK n \in 0 .. rows' : Queued' = n + 1 .. rows'
        BY <4>1 DEF QueueInv
      <4>3. rows' \in Nat /\ open \in Seq(Nat) /\ item' \in Nat
        BY <1>2, <1>5, <2>1 DEF IInv, TypeOK
      <4> QED BY <4>2, <4>3, InQueueNext
    <3>4. <<item'>> \in Seq(Nat)
      BY <3>3
    <3>5. Pending' = (open \o <<item'>>) \o InQueue'
      BY <1>2, <3>2 DEF Pending
    <3>6. Pending = open \o (<<item'>> \o InQueue')
      <4>1. open \o <<>> = open
        BY <3>3, ConcatEmptySeq
      <4> QED BY <1>3, <3>1, <4>1 DEF Pending
    <3>7. Pending' = Pending
      BY <3>3, <3>4, <3>5, <3>6, ConcatAssociative
    <3> QED BY <1>2, <3>7 DEF Abstract!vars
  <2> QED BY <2>2, <2>3
<1> QED BY <1>4, <1>5

LEMMA InsertImplements ==
    ASSUME IInv, DropInv', Insert
    PROVE  Abstract!Next \/ UNCHANGED Abstract!vars
<1>1. /\ pc \in [Threads -> Places] /\ Keeper \in Threads /\ item \in Nat /\ faults \in Nat
      /\ tbl \in Seq(Nat) /\ disk \in Seq(Nat) /\ <<item>> \in Seq(Nat) /\ <<>> \in Seq(Nat)
  BY DEF IInv, TypeOK, Threads
<1>2. /\ pc[Keeper] = "insert" /\ pc'[Keeper] \in {"relimit", "check"}
      /\ queue' = queue /\ rows' = rows
      /\ gone' = gone /\ dropped' = dropped /\ drops' = drops
  BY <1>1 DEF Insert, Goto, dropVars
<1>3. InHand = <<item>> /\ InHand' = <<>> /\ InQueue' = InQueue
  BY <1>2, QueueSame DEF InHand
<1>4. open \in Seq(Nat) /\ InQueue \in Seq(Nat) /\ Pending = (open \o <<item>>) \o InQueue
  BY <1>3, PendingTypes
<1>5. Pending' = (open' \o <<>>) \o InQueue
  BY <1>3 DEF Pending
<1>6. CASE disk' = disk /\ open' = open /\ (Fault \/ (gone /\ UNCHANGED faults))
  <2>1. Pending' = open \o InQueue
    BY <1>4, <1>5, <1>6, ConcatEmptySeq
  <2>2. CASE Fault
    <3>1. faults' > faults
      BY <1>1, <2>2 DEF Fault
    <3> QED BY <1>1, <1>2, <1>4, <1>6, <2>1, <3>1, LoseMiddle
  <2>3. CASE gone /\ UNCHANGED faults
    <3>1. /\ Abstract!LoseBetween(Len(open), Len(open) + Len(<<item>>))
          /\ Len(open) \in Nat /\ Len(InQueue) \in Nat
          /\ Len(Pending) = Len(open) + Len(<<item>>) + Len(InQueue)
      BY <1>1, <1>4, <2>1, Middle, ZenonT(30)
    <3>2. Len(<<item>>) = 1
      OBVIOUS
    <3>3. Abstract!LoseBetween(Len(open), Len(open) + 1) /\ Len(open) \in 0 .. Len(Pending) - 1
      BY <3>1, <3>2
    <3>4. Abstract!Refuse(Len(open))
      BY <1>2, <1>6, <2>3, <3>3 DEF Abstract!Refuse
    <3> QED BY <3>3, <3>4 DEF Abstract!Next
  <2> QED BY <1>6, <2>2, <2>3
<1>7. CASE intx /\ disk' = disk /\ open' = Append(open, item) /\ faults' = faults
  <2>1. open' = open \o <<item>> /\ open' \in Seq(Nat)
    BY <1>1, <1>4, <1>7
  <2>2. Pending' = Pending
    BY <1>4, <1>5, <2>1, ConcatEmptySeq
  <2> QED BY <1>2, <1>7, <2>2 DEF Abstract!vars
<1>8. CASE ~intx /\ disk' = Append(tbl, item) /\ open' = open /\ faults' = faults
  <2>1. open = <<>> /\ disk = tbl /\ ~dropped /\ Kept = disk
    BY <1>8 DEF IInv, TxInv, Kept
  <2>2. Pending = <<item>> \o InQueue /\ Pending' = InQueue
    BY <1>1, <1>4, <1>5, <1>8, <2>1, ConcatEmptySeq
  <2>3. disk' = disk \o <<item>> /\ disk' \in Seq(Nat)
    BY <1>1, <1>8, <2>1
  <2>4. Cut(disk', Kept \o <<item>>)
    <3>1. Cut(disk', disk')
      BY <2>3, CutNothing
    <3> QED BY <2>1, <2>3, <3>1, Zenon
  <2>5. dropped' = FALSE
    <3>1. dropped \in BOOLEAN
      BY DEF IInv, TypeOK
    <3> QED BY <1>2, <2>1, <3>1
  <2> QED BY <1>1, <1>2, <1>4, <1>8, <2>2, <2>4, <2>5, StoreFirst
<1>9. \/ disk' = disk /\ open' = open /\ (Fault \/ (gone /\ UNCHANGED faults))
      \/ /\ Write(Append(tbl, item)) /\ faults' = faults
         /\ open' = (IF intx THEN Append(open, item) ELSE open)
  BY DEF Insert
<1>10. CASE /\ Write(Append(tbl, item)) /\ faults' = faults
            /\ open' = (IF intx THEN Append(open, item) ELSE open)
  BY <1>7, <1>8, <1>10 DEF Write
<1> QED BY <1>6, <1>9, <1>10

LEMMA RelimitImplements ==
    ASSUME IInv, DropInv', Relimit
    PROVE  Abstract!Next \/ UNCHANGED Abstract!vars
<1>1. pc \in [Threads -> Places] /\ Keeper \in Threads /\ faults \in Nat
      /\ tbl \in Seq(Nat) /\ disk \in Seq(Nat) /\ <<>> \in Seq(Nat) /\ dropped \in BOOLEAN
  BY DEF IInv, TypeOK, Threads
<1>2. pc[Keeper] = "relimit" /\ pc'[Keeper] = "check"
      /\ UNCHANGED <<queue, rows, item, open, gone, dropped, drops>>
  BY <1>1 DEF Relimit, Goto, thrVars, dropVars
<1>3. Pending' = Pending /\ Pending \in Seq(Nat)
  BY <1>2, PendingSame, PendingTypes
<1>4. CASE disk' = disk /\ Fault
  <2>1. faults' > faults
    BY <1>1, <1>4 DEF Fault
  <2> QED BY <1>2, <1>3, <1>4, <2>1, LoseNothing
<1>5. CASE disk' = disk /\ UNCHANGED faults
  BY <1>2, <1>3, <1>5 DEF Abstract!vars
<1>6. CASE ~intx /\ disk' = Relimited(tbl) /\ UNCHANGED faults
  <2>1. disk = tbl /\ dropped = FALSE /\ Kept = disk
    BY <1>1, <1>6 DEF IInv, TxInv, Kept
  <2>2. Cut(disk', disk)
    BY <1>1, <1>6, <2>1, CutNothing, CutRelimited
  <2>3. Kept \o <<>> = disk /\ Pending = <<>> \o Pending
    BY <1>1, <1>3, <2>1, ConcatEmptySeq
  <2>4. Cut(disk', Kept \o <<>>)
    BY <2>2, <2>3
  <2> QED BY <1>1, <1>2, <1>3, <1>6, <2>1, <2>3, <2>4, StoreFirst
<1> QED BY <1>4, <1>5, <1>6 DEF Relimit, Write

LEMMA CommitImplements ==
    ASSUME IInv, DropInv', NEW t \in {Keeper, Web}, CommitStep(t)
    PROVE  Abstract!Next \/ UNCHANGED Abstract!vars
<1>1. pc \in [Threads -> Places] /\ Keeper \in Threads /\ t \in Threads /\ faults \in Nat
      /\ disk \in Seq(Nat) /\ <<>> \in Seq(Nat)
  BY DEF IInv, TypeOK, Threads
<1>2. queue' = queue /\ rows' = rows /\ item' = item /\ drops' = drops
  BY DEF CommitStep, EndTx, BeginTx, SetTx, thrVars, dbVars, dropVars
<1>3. pc'[Keeper] = "insert" <=> pc[Keeper] = "insert"
  BY <1>1 DEF CommitStep, EndTx, BeginTx, SetTx, Goto
<1>4. InHand' = InHand /\ InQueue' = InQueue
  BY <1>2, <1>3, QueueSame DEF InHand
<1>5. /\ open \in Seq(Nat) /\ InHand \in Seq(Nat) /\ InQueue \in Seq(Nat)
      /\ Pending = open \o InHand \o InQueue /\ Pending' = open' \o InHand \o InQueue
  BY <1>4, PendingTypes DEF Pending
<1>6. CASE UNCHANGED <<open, disk, gone, dropped>> /\ (UNCHANGED faults \/ Fault)
  <2>1. Pending' = Pending
    BY <1>5, <1>6
  <2>2. CASE UNCHANGED faults
    BY <1>2, <1>6, <2>1, <2>2 DEF Abstract!vars
  <2>3. CASE Fault
    <3>1. faults' > faults
      BY <1>1, <2>3 DEF Fault
    <3> QED BY <1>2, <1>6, <2>1, <3>1, LoseNothing
  <2> QED BY <1>6, <2>2, <2>3
<1> DEFINE rest == InHand \o InQueue
<1>7. /\ rest \in Seq(Nat) /\ Pending = open \o rest
      /\ open' = <<>> => Pending' = rest
  <2>1. rest \in Seq(Nat)
    BY <1>5, ConcatProperties
  <2>2. (open \o InHand) \o InQueue = open \o rest
    BY <1>5, ConcatAssociative, SMTT(20)
  <2>3. <<>> \o InHand = InHand
    BY <1>5, ConcatEmptySeq
  <2> QED BY <1>5, <2>1, <2>2, <2>3
<1> HIDE DEF rest
<1>8. CASE disk' = tbl /\ open' = <<>> /\ dropped' = FALSE /\ UNCHANGED <<gone, faults>>
  <2>1. Cut(disk', Kept \o open)
    BY <1>8 DEF IInv, DiskInv
  <2> QED BY <1>2, <1>5, <1>7, <1>8, <2>1, StoreFirst
<1>9. CASE disk' = disk /\ open' = <<>> /\ dropped' = FALSE /\ Fault
  <2>1. Pending = (<<>> \o open) \o rest /\ Pending' = <<>> \o rest
    BY <1>5, <1>7, <1>9, ConcatEmptySeq
  <2>2. faults' > faults
    BY <1>1, <1>9 DEF Fault
  <2> QED BY <1>1, <1>2, <1>5, <1>7, <1>9, <2>1, <2>2, LoseMiddle
<1>10. CASE EndTx(t)
  BY <1>6, <1>8, <1>9, <1>10 DEF EndTx, dbVars, tblVars, dropVars
<1>11. CASE BeginTx(t) \/ SetTx(t)
  BY <1>6, <1>11 DEF BeginTx, SetTx, dbVars, tblVars, dropVars
<1> QED BY <1>10, <1>11 DEF CommitStep

LEMMA DropImplements ==
    ASSUME IInv, DropInv', Drop
    PROVE  Abstract!Next
<1>1. pc \in [Threads -> Places] /\ Web \in Threads /\ Keeper \in Threads /\ Web # Keeper
      /\ faults \in Nat /\ open \in Seq(Nat) /\ <<>> \in Seq(Nat)
  BY Constants DEF IInv, TypeOK, Threads
<1>2. queue' = queue /\ rows' = rows /\ item' = item /\ pc'[Keeper] = pc[Keeper]
  BY <1>1 DEF Drop, Goto, thrVars
<1>3. CASE Fault /\ UNCHANGED <<tblVars, dropVars>>
  <2>1. faults' > faults
    BY <1>1, <1>3 DEF Fault
  <2>2. UNCHANGED <<open, disk, dropped, drops>>
    BY <1>3 DEF tblVars, dropVars
  <2>3. Pending' = Pending
    BY <1>2, <2>2, PendingSame
  <2> QED BY <2>1, <2>2, <2>3, LoseNothing
<1>4. CASE /\ Write(<<>>) /\ open' = <<>> /\ gone' = TRUE /\ dropped' = intx
           /\ drops' = drops + 1 /\ UNCHANGED faults
  <2>1. InHand' = InHand /\ InQueue' = InQueue
    BY <1>2, QueueSame DEF InHand
  <2>2. /\ InHand \in Seq(Nat) /\ InQueue \in Seq(Nat) /\ InHand \o InQueue \in Seq(Nat)
        /\ Pending = (open \o InHand) \o InQueue
    BY PendingTypes, ConcatProperties
  <2>3. Pending = open \o (InHand \o InQueue)
    <3>1. open \in Seq(Nat) /\ InHand \in Seq(Nat) /\ InQueue \in Seq(Nat)
      BY PendingTypes
    <3>2. (open \o InHand) \o InQueue = open \o (InHand \o InQueue)
      BY <3>1, ConcatAssociative, SMTT(20)
    <3> QED BY <2>2, <3>2
  <2>4. Pending' = InHand \o InQueue
    <3>1. <<>> \o InHand = InHand
      BY <2>2, ConcatEmptySeq
    <3> QED BY <1>4, <2>1, <3>1 DEF Pending
  <2>5. SubSeq(Pending, Len(open) + 1, Len(Pending)) = InHand \o InQueue
    <3> DEFINE rest == InHand \o InQueue
    <3>1. rest \in Seq(Nat) /\ Pending = open \o rest
      BY <2>2, <2>3
    <3> HIDE DEF rest
    <3>2. SubSeq(Pending, Len(open) + 1, Len(Pending)) = rest
      BY <1>1, <3>1, Parts
    <3> QED BY <3>2 DEF rest
  <2>6. Len(open) \in 0 .. Len(Pending)
    <3>1. Len(Pending) = Len(open) + Len(InHand \o InQueue)
      BY <1>1, <2>2, <2>3, ConcatProperties
    <3>2. Len(open) \in Nat /\ Len(InHand \o InQueue) \in Nat
      BY <1>1, <2>2
    <3> QED BY <3>1, <3>2
  <2>7. (dropped' = TRUE /\ disk' = disk) \/ (dropped' = FALSE /\ disk' = <<>>)
    <3>1. intx \in BOOLEAN
      BY DEF IInv, TypeOK
    <3> QED BY <1>4, <3>1 DEF Write
  <2>8. Abstract!Delete(Len(open))
    BY <1>4, <2>4, <2>5, <2>7 DEF Abstract!Delete
  <2> QED BY <2>6, <2>8 DEF Abstract!Next
<1> QED BY <1>3, <1>4 DEF Drop

LEMMA CreateImplements ==
    ASSUME IInv, DropInv', Create
    PROVE  Abstract!Next \/ UNCHANGED Abstract!vars
<1>1. pc \in [Threads -> Places] /\ Web \in Threads /\ Keeper \in Threads /\ Web # Keeper
      /\ faults \in Nat
  BY Constants DEF IInv, TypeOK, Threads
<1>2. UNCHANGED <<queue, rows, item, open, disk, dropped, drops>> /\ pc'[Keeper] = pc[Keeper]
  BY <1>1 DEF Create, Goto, thrVars, tblVars
<1>3. Pending' = Pending
  BY <1>2, PendingSame
<1>4. CASE Fault
  <2>1. faults' > faults
    BY <1>1, <1>4 DEF Fault
  <2> QED BY <1>2, <1>3, <2>1, LoseNothing
<1>5. CASE ~Fault
  <2>1. gone' = FALSE /\ faults' = faults
    BY <1>5 DEF Create
  <2>2. CASE gone
    BY <1>2, <1>3, <2>1, <2>2 DEF Abstract!Mend, Abstract!Next
  <2>3. CASE ~gone
    <3>1. gone \in BOOLEAN
      BY DEF IInv, TypeOK
    <3>2. gone' = gone
      BY <2>1, <2>3, <3>1
    <3> QED BY <1>2, <1>3, <2>1, <3>2 DEF Abstract!vars
  <2> QED BY <2>2, <2>3
<1> QED BY <1>4, <1>5

LEMMA SendImplements ==
    ASSUME IInv, NEW a \in Adders, Send(a)
    PROVE  Abstract!Next \/ UNCHANGED Abstract!vars
<1>1. pc \in [Threads -> Places] /\ Keeper \in Threads /\ a \in Threads /\ a # Keeper
      /\ rows \in Nat
  BY Constants DEF IInv, TypeOK, Threads
<1>2. open' = open /\ disk' = disk /\ faults' = faults /\ item' = item
      /\ gone' = gone /\ dropped' = dropped /\ drops' = drops
      /\ pc'[Keeper] = pc[Keeper] /\ pc[a] = "send"
  BY <1>1 DEF Send, Goto, thrVars, dbVars, tblVars, dropVars
<1>3. InHand' = InHand
  BY <1>2 DEF InHand
<1>4. CASE UNCHANGED <<queue, rows>>
  BY <1>2, <1>3, <1>4, QueueSame DEF Pending, Abstract!vars
<1>5. CASE queue' = Append(queue, rows + 1) /\ rows' = rows + 1
  <2>1. rows + 1 \in Nat /\ rows + 1 # CommitItem
    BY <1>1 DEF CommitItem
  <2>2. InQueue' = Append(InQueue, rows + 1)
    BY <1>5, <2>1, QueueGrows
  <2>3. /\ open \in Seq(Nat) /\ InHand \in Seq(Nat) /\ InQueue \in Seq(Nat)
        /\ Pending = open \o InHand \o InQueue
    BY PendingTypes
  <2> DEFINE p == open \o InHand
  <2>4. p \in Seq(Nat) /\ Pending = p \o InQueue /\ Pending' = p \o Append(InQueue, rows + 1)
    BY <1>2, <1>3, <2>2, <2>3, ConcatProperties DEF Pending
  <2> HIDE DEF p
  <2>5. Pending' = Append(Pending, rows + 1)
    <3>1. \A q \in Seq(Nat) : p \o Append(q, rows + 1) = Append(p \o q, rows + 1)
      BY <2>1, <2>4
    <3> QED BY <2>3, <2>4, <3>1
  <2>6. rows + 1 \in 1 .. MaxRow + Cardinality(Adders)
    <3>1. a \in Sending /\ Sending \subseteq Adders
      BY <1>2 DEF Sending
    <3>2. IsFiniteSet(Sending) /\ Cardinality(Sending) \in Nat
      BY <3>1, Constants, FS_Subset, FS_CardinalityType
    <3>3. Cardinality(Sending) # 0
      BY <3>1, <3>2, FS_EmptySet
    <3> QED BY <1>1, <3>2, <3>3, Constants DEF IInv, BoundInv
  <2>7. Abstract!Accept(rows + 1)
    BY <1>2, <2>5 DEF Abstract!Accept
  <2> QED BY <2>6, <2>7 DEF Abstract!Next
<1> QED BY <1>4, <1>5 DEF Send

LEMMA EditedImplements ==
    ASSUME IInv, DropInv', Edited
    PROVE  Abstract!Next \/ UNCHANGED Abstract!vars
<1>1. pc \in [Threads -> Places] /\ Keeper \in Threads /\ Web # Keeper /\ faults \in Nat
  BY Constants DEF IInv, TypeOK, Threads
<1>2. open' = open /\ disk' = disk /\ rows' = rows /\ item' = item
      /\ gone' = gone /\ dropped' = dropped /\ drops' = drops /\ pc'[Keeper] = pc[Keeper]
  BY <1>1 DEF Edited, Goto, thrVars, tblVars, dropVars
<1>3. InHand' = InHand
  BY <1>2 DEF InHand
<1>4. InQueue' = InQueue
  <2>1. CASE queue' = queue
    BY <1>2, <2>1, QueueSame
  <2>2. CASE queue' = Append(queue, CommitItem)
    <3>1. CommitItem \in Nat
      BY DEF CommitItem
    <3> QED BY <1>2, <2>2, <3>1, QueueGrows
  <2> QED BY <2>1, <2>2 DEF Edited
<1>5. Pending' = Pending
  BY <1>2, <1>3, <1>4 DEF Pending
<1>6. CASE faults' = faults
  BY <1>2, <1>5, <1>6 DEF Abstract!vars
<1>7. CASE Fault
  <2>1. faults' > faults
    BY <1>1, <1>7 DEF Fault
  <2> QED BY <1>2, <1>5, <2>1, LoseNothing
<1> QED BY <1>6, <1>7 DEF Edited

LEMMA CrashImplements ==
    ASSUME IInv, DropInv', Crash
    PROVE  Abstract!Next
<1>1. disk' = disk /\ open' = <<>> /\ queue' = <<>> /\ rows' = rows /\ faults' > faults
      /\ <<>> \in Seq(Nat) /\ drops' = drops /\ dropped' = FALSE
  BY DEF Crash, Fault, IInv, TypeOK
<1>2. InHand' = <<>>
  BY DEF Crash, AtBoot, InHand, Threads
<1>3. InQueue' = <<>>
  BY <1>1, QueueCleared
<1>4. <<>> \o <<>> = <<>>
  BY <1>1, ConcatEmptySeq
<1>5. Pending' = <<>>
  BY <1>1, <1>2, <1>3, <1>4 DEF Pending
<1>6. Pending \in Seq(Nat)
  BY PendingTypes
<1>7. Pending = (<<>> \o Pending) \o <<>>
  BY <1>1, <1>6, ConcatEmptySeq
<1> QED BY <1>1, <1>4, <1>5, <1>6, <1>7, LoseMiddle

\* Whoever commits and whatever fails, the rows that were accepted get to the
\* disk in the order they were accepted and once: a step stores the oldest ones
\* that wait, or a fault takes a run of them away and leaves the others in order,
\* or the user deletes what is stored and the open transaction.
THEOREM Refinement == Spec => ImplementsStoreSpec
<1>1. Init => Abstract!Init
  <2> SUFFICES ASSUME Init PROVE Abstract!Init
    OBVIOUS
  <2>1. Queued = {}
    BY DEF Init, Queued
  <2>2. Cardinality(Queued) = 0
    BY <2>1, FS_EmptySet
  <2>3. InQueue = <<>>
    BY <2>2 DEF InQueue
  <2>4. open = <<>> /\ InHand = <<>>
    BY DEF Init, AtBoot, InHand, Threads
  <2>5. Pending = <<>>
    BY <2>3, <2>4 DEF Pending
  <2> QED BY <2>5 DEF Init, Abstract!Init
<1>2. IInv /\ [Next]_vars => [Abstract!Next]_Abstract!vars
  <2> SUFFICES ASSUME IInv, [Next]_vars
               PROVE  Abstract!Next \/ UNCHANGED Abstract!vars
    OBVIOUS
  <2>1. ASSUME UNCHANGED <<queue, rows, item, open, disk, gone, dropped, drops, faults>>,
               pc'[Keeper] = "insert" <=> pc[Keeper] = "insert"
        PROVE  UNCHANGED Abstract!vars
    BY <2>1, PendingSame DEF Abstract!vars
  <2>2. pc \in [Threads -> Places] /\ Keeper \in Threads /\ Web # Keeper /\ Keeper \notin Adders
    BY Constants DEF IInv, TypeOK, Threads
  <2>3. CASE Check \/ TenSeconds \/ Edit \/ DelLogData \/ DoCommit
    BY <2>1, <2>2, <2>3 DEF Check, TenSeconds, Edit, DelLogData, DoCommit, Goto,
                            thrVars, dbVars, tblVars, dropVars
  <2>4. ASSUME NEW a \in Adders, Add(a) \/ Waited(a)
        PROVE  UNCHANGED Abstract!vars
    BY <2>1, <2>2, <2>4 DEF Add, Waited, Goto, thrVars, dbVars, tblVars, dropVars
  <2>5. CASE UNCHANGED vars
    BY <2>1, <2>5 DEF vars, thrVars, dbVars, tblVars, dropVars
  <2>6. CASE Next
    <3>1. DropInv'
      BY <2>6, DropKept
    <3> QED BY <2>3, <2>4, <2>6, <3>1, OpenDbImplements, ReceiveImplements, InsertImplements,
               RelimitImplements, CommitImplements, SendImplements, EditedImplements,
               DropImplements, CreateImplements, CrashImplements
            DEF Next, KeeperStep, WebStep, AdderStep
  <2> QED BY <2>5, <2>6
<1> QED BY <1>1, <1>2, SpecIInv, PTL DEF Spec, Abstract!Spec, ImplementsStoreSpec
===============================================================================
