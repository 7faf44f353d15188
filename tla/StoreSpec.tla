------------------------------- MODULE StoreSpec -------------------------------
(***************************************************************************)
(* What the data storage of the gateway promises to the threads that give  *)
(* it rows (storage.h) and to the user who may delete them: a row it has   *)
(* accepted waits in memory until it is stored, rows reach the disk in the *)
(* order they were accepted and at most once, and a row is lost in memory  *)
(* only by a fault (a crash, a reset or a statement that fails), or        *)
(* because the table is gone after a deletion.  On the disk the oldest     *)
(* rows make place for new ones, but the newest Keep of them stay, unless  *)
(* the user deletes all.  No queue, transaction or mutex is visible here.  *)
(***************************************************************************)
EXTENDS Naturals, Sequences

CONSTANTS
    Rows,       \* the rows that may be given to the storage
    Keep        \* the newest rows that are never deleted

VARIABLES
    pending,    \* the rows accepted and neither stored nor lost
    disk,       \* the rows a power failure leaves
    erased,     \* those are deleted as soon as anything is stored
    broken,     \* there is no table for new rows
    deletes,    \* how often the user has deleted all rows
    faults      \* the faults so far

vars == <<pending, disk, erased, broken, deletes, faults>>

\* What is left of s when its oldest rows are deleted.
Trimmed(s) == {SubSeq(s, k + 1, Len(s)) : k \in {d \in 0 .. Len(s) : d = 0 \/ Len(s) - d >= Keep}}

\* The rows between the i-th and the j-th are lost, the others keep their order.
LoseBetween(i, j) ==
    /\ i <= j
    /\ pending' = SubSeq(pending, 1, i) \o SubSeq(pending, j + 1, Len(pending))

Init == /\ pending = <<>> /\ disk = <<>> /\ erased = FALSE /\ broken = FALSE
        /\ deletes = 0 /\ faults = 0

Accept(r) == /\ pending' = Append(pending, r)
             /\ UNCHANGED <<disk, erased, broken, deletes, faults>>

\* The n oldest pending rows get to the disk together.
Store(n) == /\ disk' \in Trimmed((IF erased THEN <<>> ELSE disk) \o SubSeq(pending, 1, n))
            /\ pending' = SubSeq(pending, n + 1, Len(pending))
            /\ erased' = FALSE
            /\ UNCHANGED <<broken, deletes, faults>>

\* The user deletes the rows on the disk and the n oldest pending ones.
Delete(n) == /\ deletes' = deletes + 1
             /\ pending' = SubSeq(pending, n + 1, Len(pending))
             /\ \/ erased' = TRUE /\ UNCHANGED disk
                \/ erased' = FALSE /\ disk' = <<>>
             /\ broken' = TRUE
             /\ UNCHANGED faults

\* There is a table again; until then rows are lost one at a time.
Mend == /\ broken /\ broken' = FALSE
        /\ UNCHANGED <<pending, disk, erased, deletes, faults>>

Refuse(i) == /\ broken /\ LoseBetween(i, i + 1)
             /\ UNCHANGED <<disk, erased, broken, deletes, faults>>

\* A fault, which may cost pending rows and undo a deletion.
Fail == /\ faults' > faults
        /\ \E i, j \in 0 .. Len(pending) : LoseBetween(i, j)
        /\ erased' => erased
        /\ broken' => deletes > 0
        /\ UNCHANGED <<disk, deletes>>

Next == \/ \E r \in Rows : Accept(r)
        \/ \E n \in 0 .. Len(pending) : Store(n) \/ Delete(n)
        \/ Mend
        \/ \E i \in 0 .. Len(pending) - 1 : Refuse(i)
        \/ Fail

Spec == Init /\ [][Next]_vars
===============================================================================
