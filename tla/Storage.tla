-------------------------------- MODULE Storage --------------------------------
(***************************************************************************)
(* The data storage (board/storage.c).  Threads that have a row to store   *)
(* wait until the database is free and post the row to a queue of          *)
(* STORAGE_LINE_LIMIT items; the storage thread inserts the rows one by    *)
(* one into an SQLite transaction that it ends and begins again every 10   *)
(* seconds.  The web thread edits the configured variables in the same     *)
(* transaction, and asks for a commit through the queue, or commits itself *)
(* when it has restored a whole configuration; and it may drop the table   *)
(* of the log.  All use of the database is under one FIFO mutex, but for   *)
(* the commit the queue asks for and the first begin.  The gateway may     *)
(* lose power or be reset at any moment.                                   *)
(*                                                                         *)
(* SQLite is external: it runs one statement at a time (it is built with   *)
(* mutexes), which succeeds or fails as a whole, a commit is atomic, and   *)
(* what is not committed is gone after a restart.                          *)
(* One table stands for the tables of rows in the code, which share the    *)
(* transaction and nothing else; those whose limit is 0 take no rows, and  *)
(* only the table of the log can be dropped.                               *)
(*                                                                         *)
(* Bounds: rows are offered until MaxRow were accepted; MaxUse times a     *)
(* configured variable is edited or the table dropped; MaxFault faults,    *)
(* which are crashes, resets and statements that fail.                     *)
(***************************************************************************)
EXTENDS Naturals, Sequences, FiniteSets

CONSTANTS
    Adders,     \* the threads that call bStorageAdd*
    Web,        \* the thread of the web server
    Keeper,     \* the storage thread
    QueueLen,   \* STORAGE_LINE_LIMIT
    Limit,      \* s_limit_count of the table
    DelNum,     \* _DEL_NUM
    MaxRow, MaxUse, MaxFault  \* bounds, see above

Threads == Adders \cup {Web, Keeper}

ASSUME StorageAssumption ==
    /\ IsFiniteSet(Adders)
    /\ Web \notin Adders /\ Keeper \notin Adders \cup {Web}
    /\ QueueLen \in Nat \ {0}
    \* line 329: a table with a smaller limit would delete its newest row
    /\ DelNum \in Nat \ {0} /\ Limit \in Nat /\ Limit >= DelNum
    /\ {MaxRow, MaxUse, MaxFault} \subseteq Nat

VARIABLES
    pc,         \* pc[t]: where thread t is
    lock,       \* s_db_mutex: its owner, then the waiters
    queue,      \* s_stroage_mq
    item,       \* the item the storage thread has received
    dbinit,     \* s_dbinit
    strans,     \* s_transaction
    insert,     \* the flag of the thread: something to commit
    due,        \* 10 seconds have passed since start_tick
    intx,       \* SQLite is inside a transaction
    tbl,        \* the table as the connection sees it
    disk,       \* the table as it is after a power failure
    open,       \* the rows inserted by the open transaction (history)
    gone,       \* the connection sees no table
    gonedisk,   \* there is none after a power failure
    dropped,    \* the open transaction has dropped the table (history)
    drops,      \* how often the table was dropped (history)
    cfg,        \* the edits of the configured variables the connection sees
    cfgdisk,    \* those that outlast a power failure
    rows,       \* how many rows the queue has taken (history)
    faults      \* see the bounds

tblVars == <<tbl, disk, open>>
dropVars == <<gone, gonedisk, dropped, drops>>
cfgVars == <<cfg, cfgdisk>>
dbVars  == <<intx, tblVars, dropVars, cfgVars>>
thrVars == <<item, insert, due>>
vars == <<pc, lock, queue, thrVars, dbinit, strans, dbVars, rows, faults>>

CommitItem == 0     \* ST_T_COMMIT; the rows are numbered from 1

Places == {"open", "recv", "insert", "relimit", "check", "dead", "idle",
           "wait", "send", "edit", "drop", "create", "end", "clear", "begin", "fail", "ok"}

TypeOK ==
    /\ pc \in [Threads -> Places]
    /\ lock \in Seq(Threads)
    /\ queue \in Seq(Nat) /\ Len(queue) <= QueueLen
    /\ item \in Nat
    /\ dbinit \in BOOLEAN /\ strans \in BOOLEAN /\ intx \in BOOLEAN
    /\ insert \in BOOLEAN /\ due \in BOOLEAN
    /\ tbl \in Seq(Nat) /\ disk \in Seq(Nat) /\ open \in Seq(Nat)
    /\ gone \in BOOLEAN /\ gonedisk \in BOOLEAN /\ dropped \in BOOLEAN /\ drops \in Nat
    /\ cfg \in Nat /\ cfgdisk \in Nat /\ rows \in Nat /\ faults \in Nat

AtBoot == [t \in Threads |-> IF t = Keeper THEN "open" ELSE "idle"]

\* The gateway is switched on for the first time.
Init ==
    /\ pc = AtBoot
    /\ lock = <<>> /\ queue = <<>> /\ item = 0
    /\ dbinit = FALSE /\ strans = FALSE /\ insert = FALSE /\ due = FALSE
    /\ intx = FALSE /\ tbl = <<>> /\ disk = <<>> /\ open = <<>> /\ cfg = 0 /\ cfgdisk = 0
    /\ gone = FALSE /\ gonedisk = FALSE /\ dropped = FALSE /\ drops = 0
    /\ rows = 0 /\ faults = 0

-------------------------------------------------------------------------------
Goto(t, p) == pc' = [pc EXCEPT ![t] = p]
Owns(t)    == lock # <<>> /\ Head(lock) = t
Take(t)    == lock' = Append(lock, t)
Release    == lock' = Tail(lock)
Fault      == faults < MaxFault /\ faults' = faults + 1

\* A DELETE or INSERT outside a transaction is durable at once.
Write(t) == /\ tbl' = t
            /\ disk' = IF intx THEN disk ELSE t

\* Variant of Relimited: one row too few is deleted.
RelimitedLate(t) == IF Len(t) > Limit + 2
                      THEN SubSeq(t, Len(t) + DelNum - Limit, Len(t)) ELSE t

\* Variant of Relimited: the newest rows are deleted.
RelimitedNewest(t) == IF Len(t) - 1 > Limit
                        THEN SubSeq(t, 1, Limit + 1 - DelNum) ELSE t

\* __relimit_table: the ids of the table are consecutive, its last is maxid.
Relimited(t) == IF Len(t) - 1 > Limit
                  THEN SubSeq(t, Len(t) + DelNum - Limit, Len(t)) ELSE t

-------------------------------------------------------------------------------
(* The storage thread, rt_storage_thread.                                   *)

\* The database is opened and its tables are created where there are none.
\* s_dbinit lets the other threads in before the first transaction is begun.
OpenDb ==
    /\ pc[Keeper] = "open"
    /\ \/ /\ dbinit' = TRUE /\ gone' = FALSE /\ gonedisk' = FALSE
          /\ Goto(Keeper, "begin")
          /\ UNCHANGED faults
       \/ /\ Fault
          /\ Goto(Keeper, "dead")
          /\ UNCHANGED <<dbinit, gone, gonedisk>>
    /\ UNCHANGED <<lock, queue, thrVars, strans, intx, tblVars, dropped, drops, cfgVars, rows>>

\* Variant of Receive: an order to commit is passed over if no row was added.
ReceiveIfRows ==
    /\ pc[Keeper] = "recv"
    /\ \/ /\ queue # <<>>
          /\ item' = Head(queue) /\ queue' = Tail(queue)
          /\ IF item' = CommitItem
               THEN Goto(Keeper, IF insert THEN "end" ELSE "check") /\ UNCHANGED lock
               ELSE Take(Keeper) /\ Goto(Keeper, "insert")
       \/ /\ queue = <<>>
          /\ Goto(Keeper, "check")
          /\ UNCHANGED <<item, queue, lock>>
    /\ UNCHANGED <<insert, due, dbinit, strans, dbVars, rows, faults>>

\* rt_mq_recv returns a row or an order to commit, or nothing after 5 seconds.
Receive ==
    /\ pc[Keeper] = "recv"
    /\ \/ /\ queue # <<>>
          /\ item' = Head(queue) /\ queue' = Tail(queue)
          /\ IF item' = CommitItem
               THEN Goto(Keeper, "end") /\ UNCHANGED lock
               ELSE Take(Keeper) /\ Goto(Keeper, "insert")
       \/ /\ queue = <<>>
          /\ Goto(Keeper, "check")
          /\ UNCHANGED <<item, queue, lock>>
    /\ UNCHANGED <<insert, due, dbinit, strans, dbVars, rows, faults>>

\* INSERT INTO, under the mutex.
Insert ==
    /\ pc[Keeper] = "insert" /\ Owns(Keeper)
    /\ \/ /\ ~gone /\ Write(Append(tbl, item))
          /\ open' = IF intx THEN Append(open, item) ELSE open
          /\ insert' = TRUE
          /\ Goto(Keeper, "relimit")
          /\ UNCHANGED <<lock, faults>>
       \* it cannot be prepared, or its step fails
       \/ /\ \/ gone /\ UNCHANGED <<insert, faults>>
             \/ ~gone /\ Fault /\ insert' \in {insert, TRUE}
          /\ Release /\ Goto(Keeper, "check")
          /\ UNCHANGED <<tbl, disk, open>>
    /\ UNCHANGED <<queue, item, due, dbinit, strans, intx, dropVars, cfgVars, rows>>

\* __relimit_table, whose DELETE may fail; then the mutex is given back.
Relimit ==
    /\ pc[Keeper] = "relimit"
    /\ \/ Write(Relimited(tbl)) /\ UNCHANGED faults
       \/ Fault /\ UNCHANGED <<tbl, disk>>
    /\ Release /\ Goto(Keeper, "check")
    /\ UNCHANGED <<queue, thrVars, dbinit, strans, intx, open, dropVars, cfgVars, rows>>

\* Variant of Check: a round without a row never commits.
CheckAfterRow ==
    /\ pc[Keeper] = "check"
    /\ IF due /\ insert /\ queue # <<>> THEN Take(Keeper) /\ Goto(Keeper, "end")
                                        ELSE Goto(Keeper, "recv") /\ UNCHANGED lock
    /\ UNCHANGED <<queue, thrVars, dbinit, strans, dbVars, rows, faults>>

\* The end of the loop: is it time to commit?
Check ==
    /\ pc[Keeper] = "check"
    /\ IF due /\ insert THEN Take(Keeper) /\ Goto(Keeper, "end")
                        ELSE Goto(Keeper, "recv") /\ UNCHANGED lock
    /\ UNCHANGED <<queue, thrVars, dbinit, strans, dbVars, rows, faults>>

TenSeconds ==
    /\ ~due /\ pc[Keeper] \notin {"open", "dead"}
    /\ due' = TRUE
    /\ UNCHANGED <<pc, lock, queue, item, insert, dbinit, strans, dbVars, rows, faults>>

-------------------------------------------------------------------------------
(* __commit_transaction and __begin_transaction, in a row: every 10 seconds *)
(* and in bStorageDoCommit under the mutex, for the queue without it; the   *)
(* thread's first transaction is begun without it too.                      *)

Committing(t) == pc[t] \in {"end", "clear", "begin", "fail", "ok"}
\* Thread t has the mutex if it asked for it.
MayRun(t) == t \in {lock[i] : i \in DOMAIN lock} => Owns(t)

\* The test of s_transaction, "commit;" and, if that fails, "rollback;".
EndTx(t) ==
    /\ pc[t] = "end" /\ MayRun(t)
    /\ \/ /\ ~strans /\ Goto(t, "begin")
          /\ UNCHANGED <<dbVars, faults>>
       \/ /\ strans /\ Goto(t, "clear")
          /\ \/ /\ intx
                /\ disk' = tbl /\ gonedisk' = gone /\ cfgdisk' = cfg
                /\ intx' = FALSE /\ open' = <<>> /\ dropped' = FALSE
                /\ UNCHANGED <<tbl, gone, cfg, drops, faults>>
             \/ /\ intx /\ Fault
                /\ tbl' = disk /\ gone' = gonedisk /\ cfg' = cfgdisk
                /\ intx' = FALSE /\ open' = <<>> /\ dropped' = FALSE
                /\ UNCHANGED <<disk, gonedisk, cfgdisk, drops>>
             \* the rollback fails too, or there is no transaction any more
             \/ /\ IF intx THEN Fault ELSE UNCHANGED faults
                /\ UNCHANGED dbVars
    /\ UNCHANGED <<lock, queue, thrVars, dbinit, strans, rows>>

\* "begin;", which is an error inside a transaction.
BeginTx(t) ==
    /\ pc[t] \in {"clear", "begin"}
    /\ strans' = (strans /\ pc[t] = "begin")
    /\ \/ ~intx /\ intx' = TRUE /\ Goto(t, "ok") /\ UNCHANGED faults
       \/ ~intx /\ Fault /\ Goto(t, "fail") /\ UNCHANGED intx
       \/ intx /\ Goto(t, "fail") /\ UNCHANGED <<intx, faults>>
    /\ UNCHANGED <<lock, queue, thrVars, dbinit, tblVars, dropVars, cfgVars, rows>>

\* s_transaction is set, and the mutex given back.
SetTx(t) ==
    /\ pc[t] \in {"fail", "ok"}
    /\ strans' = (pc[t] = "ok")
    /\ IF Owns(t) THEN Release ELSE UNCHANGED lock
    /\ IF t = Keeper /\ Owns(t) THEN insert' = FALSE /\ due' = FALSE
                                ELSE UNCHANGED <<insert, due>>
    /\ Goto(t, IF t # Keeper THEN "idle" ELSE IF Owns(t) THEN "recv" ELSE "check")
    /\ UNCHANGED <<queue, item, dbinit, dbVars, rows, faults>>

-------------------------------------------------------------------------------
(* The threads that store rows, and the web thread.                         *)

\* bStorageAddData, bStorageAddLog, bStorageAdd_elog, bStorageAdd_CC_BJDC_Data.
Add(a) ==
    /\ pc[a] = "idle" /\ dbinit /\ rows < MaxRow
    /\ Take(a) /\ Goto(a, "wait")
    /\ UNCHANGED <<queue, thrVars, dbinit, strans, dbVars, rows, faults>>

\* "wait if transaction": the mutex is taken and given back at once.
Waited(a) ==
    /\ pc[a] = "wait" /\ Owns(a)
    /\ Release /\ Goto(a, "send")
    /\ UNCHANGED <<queue, thrVars, dbinit, strans, dbVars, rows, faults>>

\* Variant of Send: the queue takes one row too many.
SendOverfull(a) ==
    /\ pc[a] = "send"
    /\ IF Len(queue) <= QueueLen
         THEN queue' = Append(queue, rows + 1) /\ rows' = rows + 1
         ELSE UNCHANGED <<queue, rows>>
    /\ Goto(a, "idle")
    /\ UNCHANGED <<lock, thrVars, dbinit, strans, dbVars, faults>>

\* rt_mq_send: with the queue full the row is dropped, which nobody looks at.
Send(a) ==
    /\ pc[a] = "send"
    /\ IF Len(queue) < QueueLen
         THEN queue' = Append(queue, rows + 1) /\ rows' = rows + 1
         ELSE UNCHANGED <<queue, rows>>
    /\ Goto(a, "idle")
    /\ UNCHANGED <<lock, thrVars, dbinit, strans, dbVars, faults>>

\* storage_cfg_varext_add, _update and _del take the mutex.
Edit ==
    /\ pc[Web] = "idle" /\ dbinit /\ cfg + drops < MaxUse
    /\ Take(Web) /\ Goto(Web, "edit")
    /\ UNCHANGED <<queue, thrVars, dbinit, strans, dbVars, rows, faults>>

\* One statement, and bStorageCommit unless a configuration is being restored.
\* The deletion that storage_cfg_varext_add begins with keeps the mutex.
Edited ==
    /\ pc[Web] = "edit" /\ Owns(Web)
    /\ \/ /\ cfg' = cfg + 1
          /\ cfgdisk' = IF intx THEN cfgdisk ELSE cfg'
          /\ UNCHANGED faults
       \/ Fault /\ UNCHANGED cfgVars
    /\ \/ UNCHANGED queue
       \/ queue' = IF Len(queue) < QueueLen THEN Append(queue, CommitItem) ELSE queue
    /\ \/ Release /\ Goto(Web, "idle")
       \/ cfg' + drops < MaxUse /\ UNCHANGED <<pc, lock>>
    /\ UNCHANGED <<thrVars, dbinit, strans, intx, tblVars, dropVars, rows>>

\* delLogData takes the mutex, too.
DelLogData ==
    /\ pc[Web] = "idle" /\ dbinit /\ cfg + drops < MaxUse
    /\ Take(Web) /\ Goto(Web, "drop")
    /\ UNCHANGED <<queue, thrVars, dbinit, strans, dbVars, rows, faults>>

\* DROP TABLE; if it fails, nothing else is done.
Drop ==
    /\ pc[Web] = "drop" /\ Owns(Web)
    /\ \/ /\ Write(<<>>) /\ open' = <<>>
          /\ gone' = TRUE /\ gonedisk' = (gonedisk \/ ~intx)
          /\ dropped' = intx /\ drops' = drops + 1
          /\ Goto(Web, "create")
          /\ UNCHANGED <<lock, faults>>
       \/ /\ Fault
          /\ Release /\ Goto(Web, "idle")
          /\ UNCHANGED <<tblVars, dropVars>>
    /\ UNCHANGED <<queue, thrVars, dbinit, strans, intx, cfgVars, rows>>

\* CREATE TABLE and CREATE INDEX, of which the first or the second may fail.
Create ==
    /\ pc[Web] = "create"
    /\ UNCHANGED faults \/ Fault
    /\ \/ gone' = FALSE /\ gonedisk' = (gonedisk /\ intx)
       \/ Fault /\ UNCHANGED <<gone, gonedisk>>
    /\ Release /\ Goto(Web, "idle")
    /\ UNCHANGED <<queue, thrVars, dbinit, strans, intx, tblVars, dropped, drops, cfgVars, rows>>

\* bStorageDoCommit.
DoCommit ==
    /\ pc[Web] = "idle" /\ dbinit
    /\ Take(Web) /\ Goto(Web, "end")
    /\ UNCHANGED <<queue, thrVars, dbinit, strans, dbVars, rows, faults>>

-------------------------------------------------------------------------------
\* Power fails, or the watchdog resets the processor; or __doSystemReset, which
\* runs in the tick interrupt and so at any point of any thread, closes the
\* database (bStorageDoClose, no commit) and resets it.
Crash ==
    /\ Fault
    /\ pc' = AtBoot
    /\ lock' = <<>> /\ queue' = <<>> /\ item' = 0
    /\ dbinit' = FALSE /\ strans' = FALSE /\ insert' = FALSE /\ due' = FALSE
    /\ intx' = FALSE /\ tbl' = disk /\ open' = <<>> /\ cfg' = cfgdisk
    /\ gone' = gonedisk /\ dropped' = FALSE
    /\ UNCHANGED <<disk, gonedisk, drops, cfgdisk, rows>>

CommitStep(t) == EndTx(t) \/ BeginTx(t) \/ SetTx(t)
KeeperStep == OpenDb \/ Receive \/ Insert \/ Relimit \/ Check \/ CommitStep(Keeper)
AdderStep(a) == Waited(a) \/ Send(a)
WebStep == Edited \/ Drop \/ Create \/ CommitStep(Web)

Next == \/ KeeperStep \/ TenSeconds
        \/ \E a \in Adders : Add(a) \/ AdderStep(a)
        \/ Edit \/ DelLogData \/ DoCommit \/ WebStep
        \/ Crash

Spec == Init /\ [][Next]_vars

\* Every thread runs when it can, and time goes on.
Fairness == /\ WF_vars(KeeperStep) /\ WF_vars(TenSeconds)
            /\ \A a \in Adders : WF_vars(AdderStep(a))
            /\ WF_vars(WebStep)

FairSpec == Spec /\ Fairness

-------------------------------------------------------------------------------
\* The rows in the queue are the last that were accepted (theorem QueueInOrder).
Queued  == {queue[i] : i \in DOMAIN queue} \ {CommitItem}
InHand  == IF pc[Keeper] = "insert" THEN <<item>> ELSE <<>>
InQueue == [i \in 1 .. Cardinality(Queued) |-> rows - Cardinality(Queued) + i]
Pending == open \o InHand \o InQueue

\* SQLite is in a transaction and s_transaction says it is not, so none is ever
\* ended again: a rollback has failed, or the web thread has committed while the
\* storage thread committed for the queue or began its first transaction.
Stuck == intx /\ ~strans /\ \A t \in Threads : ~Committing(t)

\* The queue, the row in hand and the open transaction are what is accepted and
\* not stored: rows get to the disk in order, once, a commit at a time, a full
\* table keeps its newest rows, and only a fault loses one, unless the user has
\* dropped the table and it could not be created again.
Abstract == INSTANCE StoreSpec WITH Rows <- 1 .. MaxRow + Cardinality(Adders),
                                    Keep <- Limit + 1 - DelNum, pending <- Pending,
                                    erased <- dropped, broken <- gone, deletes <- drops
ImplementsStoreSpec == Abstract!Spec

\* __relimit_table, which cuts when maxid - minid is above the limit, keeps one row
\* more than the limit; there is a second one more between an INSERT and the cut
\* in the same transaction, and one for every fault that comes in its way.
TableBounded ==
    /\ Len(disk) <= Limit + 1 + faults
    /\ Len(tbl) <= Limit + 1 + faults + (IF pc[Keeper] = "relimit" THEN 1 ELSE 0)

\* A row that was accepted does not wait for ever: the transaction it is in is
\* ended, unless the code takes an open transaction for none.
RowsSettle == \A r \in 1 .. MaxRow :
    (\E i \in DOMAIN Pending : Pending[i] = r)
      ~> (Stuck \/ \A i \in DOMAIN Pending : Pending[i] # r)

\* An edit becomes durable, or is rolled back by a fault, once its commit is in
\* the queue, or once bStorageDoCommit has the mutex while the storage thread
\* does not commit for the queue.
EditsSettle ==
    (/\ cfg # cfgdisk
     /\ \/ \E i \in DOMAIN queue : queue[i] = CommitItem
        \/ pc[Web] = "end" /\ Owns(Web) /\ ~Committing(Keeper))
      ~> (cfg = cfgdisk \/ Stuck)
===============================================================================
