--------------------------- MODULE SerialXfer_proofs ---------------------------
(***************************************************************************)
(* Proofs about SerialXfer for every set of lines, every buffer size and   *)
(* every number of bytes.                                                  *)
(***************************************************************************)
EXTENDS SerialXfer, SequenceTheorems, WellFoundedInduction, TLAPS

Cells == 1 .. BufSize

\* The bytes of a line that are forwarded already, and those that need not be.
Forwarded(n) == {sent[n][k] : k \in DOMAIN sent[n]}
Done(n) == {0} \cup excused[n] \cup Forwarded(n)

\* Only the radio thread is ever amid the stores of a byte, and it is in a frame;
\* the position can only be reset before it stores the next one.
HandInv(n) == /\ Amid(n) => n \in Radio /\ midframe[n] /\ came[n] > 0
              /\ n \in Wired => ~torn[n]
              /\ "pos" \in left[n] => pos[n] <= at[n]

\* Every byte is written to one place of the buffer; the place that the radio
\* thread is about to write holds nothing that is still wanted.
RowInv(n) ==
    /\ \A i \in Cells : mem[n][i] <= came[n]
    /\ \A i, j \in Cells : i # j /\ mem[n][i] = mem[n][j] => mem[n][i] = 0
    /\ "byte" \in left[n] => /\ \A i \in Cells : mem[n][i] < came[n]
                             /\ mem[n][at[n] + 1] \in Done(n)
    /\ "byte" \notin left[n] /\ Amid(n) => mem[n][at[n] + 1] = came[n]

\* A byte being stored either has an excuse, or no send has come between.
AmidInv(n) ==
    Amid(n) => \/ came[n] \in excused[n]
               \/ cur # n /\ pos[n] = IF "pos" \in left[n] THEN at[n] ELSE at[n] + 1

\* What is behind the end of what is being sent came late, or is old.
LateInv(n) == cur = n => \A i \in 1 .. pos[n] : i > len => mem[n][i] \in Done(n)

LossInv(n) == \A b \in 1 .. came[n] :
    b \in Buffered(n) \/ (Amid(n) /\ b = came[n]) \/ b \in Done(n)

\* The places of a buffer that may still be sent: the filled ones and, while
\* the line is being sent, the ones the send was called with.
Live(n) == {i \in Cells : \/ i <= pos[n] /\ ~("byte" \in left[n] /\ i = at[n] + 1)
                          \/ cur = n /\ i <= len}

\* What is sent next is newer than all that was sent; only the radio module,
\* which clears its buffer, mixes the order.
OrderInv(n) ==
    ~torn[n] =>
        /\ \A k \in DOMAIN sent[n] : sent[n][k] <= came[n]
        /\ \A i \in Live(n) : mem[n][i] > 0
        /\ \A k \in DOMAIN sent[n], i \in Live(n) : sent[n][k] < mem[n][i]
        /\ Amid(n) => /\ \A k \in DOMAIN sent[n] : sent[n][k] < came[n]
                      /\ pos[n] = IF "pos" \in left[n] THEN at[n] ELSE at[n] + 1
        /\ \A i, j \in DOMAIN sent[n] : i < j => sent[n][i] # sent[n][j]

WiredInv(n) ==
    n \in Wired =>
        /\ \A i, j \in 1 .. pos[n] : i < j => mem[n][i] < mem[n][j]
        /\ cur = n => len <= pos[n]
        /\ \A i, j \in DOMAIN sent[n] : i < j => sent[n][i] < sent[n][j]

LineInv(n) == /\ HandInv(n) /\ RowInv(n) /\ AmidInv(n) /\ LateInv(n)
              /\ LossInv(n) /\ OrderInv(n) /\ WiredInv(n)

IInv == TypeOK /\ \A n \in Lines : LineInv(n)

-------------------------------------------------------------------------------
\* What TypeOK says of one line.
LEMMA LineTypes ==
    ASSUME TypeOK, NEW n \in Lines
    PROVE  /\ BufSize \in Nat /\ BufSize > 0 /\ MaxByte \in Nat
           /\ came[n] \in Nat /\ came[n] <= MaxByte
           /\ pos[n] \in Nat /\ pos[n] <= BufSize
           /\ at[n] \in Nat /\ at[n] + 1 \in Cells
           /\ left[n] \subseteq Stores
           /\ len \in Nat /\ len <= BufSize
           /\ mem[n] \in [Cells -> Nat]
           /\ \A i \in Cells : mem[n][i] \in Nat
           /\ sent[n] \in Seq(Nat)
           /\ \A k \in DOMAIN sent[n] : sent[n][k] \in Nat
           /\ excused[n] \in SUBSET Nat
<1>1. BufSize \in Nat /\ BufSize > 0 /\ MaxByte \in Nat
  BY SerialAssumption
<1>2. /\ came[n] \in 0 .. MaxByte /\ pos[n] \in 0 .. BufSize /\ len \in 0 .. BufSize
      /\ at[n] \in 0 .. BufSize - 1 /\ left[n] \subseteq Stores
  BY DEF TypeOK
<1>3. mem[n] \in [Cells -> Nat]
  BY DEF TypeOK, Cells
<1>4. sent[n] \in Seq(Nat) /\ excused[n] \in SUBSET Nat
  BY DEF TypeOK
<1>5. \A k \in DOMAIN sent[n] : sent[n][k] \in Nat
  BY <1>4
<1>6. at[n] \in Nat /\ at[n] + 1 \in Cells
  BY <1>1, <1>2 DEF Cells
<1> QED BY <1>1, <1>2, <1>3, <1>4, <1>5, <1>6

\* Some line has the lowest number, so xfer_dst_serial_task finds one.
LEMMA LowestLine ==
    ASSUME NEW S, S \subseteq Lines, S # {}
    PROVE  (CHOOSE n \in S : \A m \in S : n <= m) \in S
<1> DEFINE R == {ss \in Nat \X Nat : ss[1] < ss[2]}
<1>1. IsWellFoundedOn(R, Nat)
  BY NatLessThanWellFounded DEF OpToRel
<1>2. S \subseteq Nat
  BY SerialAssumption
<1>3. PICK x \in S : \A y \in S : ~(<<y, x>> \in R)
  <2> HIDE DEF R
  <2> QED BY <1>1, <1>2, WFMin
<1>4. ASSUME NEW y \in S PROVE x <= y
  <2>1. x \in Nat /\ y \in Nat
    BY <1>2
  <2>2. y < x => <<y, x>> \in R
    BY <2>1
  <2> HIDE DEF R
  <2> QED BY <1>3, <2>1, <2>2
<1> QED BY <1>4

\* xfer_dst_serial_open leaves every buffer empty.
LEMMA InitIInv == Init => IInv
<1> SUFFICES ASSUME Init PROVE IInv
  OBVIOUS
<1>1. TypeOK
  BY SerialAssumption DEF Init, TypeOK
<1>2. ASSUME NEW n \in Lines PROVE LineInv(n)
  <2>1. /\ cur # n /\ left[n] = {} /\ ~torn[n] /\ came[n] = 0 /\ pos[n] = 0
        /\ sent[n] = <<>> /\ \A i \in Cells : mem[n][i] = 0
    BY SerialAssumption DEF Init, Cells
  <2>2. HandInv(n) /\ RowInv(n) /\ AmidInv(n) /\ LateInv(n) /\ LossInv(n)
    BY <2>1 DEF HandInv, RowInv, AmidInv, LateInv, LossInv, Amid
  <2>3. Live(n) = {}
    BY <2>1 DEF Live, Cells
  <2>4. OrderInv(n) /\ WiredInv(n)
    BY <2>1, <2>3 DEF OrderInv, WiredInv, Amid
  <2> QED BY <2>2, <2>4 DEF LineInv
<1> QED BY <1>1, <1>2 DEF IInv

\* A line that a step does not touch keeps its part of the invariant.
SameBuffer(m) == /\ mem'[m] = mem[m] /\ pos'[m] = pos[m] /\ midframe'[m] = midframe[m]
                 /\ at'[m] = at[m] /\ left'[m] = left[m]
SameHistory(m) == /\ came'[m] = came[m] /\ sent'[m] = sent[m] /\ torn'[m] = torn[m]
                  /\ excused'[m] = excused[m]
SameTask(m) == (cur' = m <=> cur = m) /\ (cur = m => len' = len)

LEMMA LineStays ==
    ASSUME IInv, NEW m \in Lines, SameBuffer(m), SameHistory(m), SameTask(m)
    PROVE  LineInv(m)'
<1>1. LineInv(m)
  BY DEF IInv
<1>2. Done(m)' = Done(m) /\ Buffered(m)' = Buffered(m) /\ Live(m)' = Live(m) /\ Amid(m)' = Amid(m)
  BY DEF SameBuffer, SameHistory, SameTask, Done, Forwarded, Buffered, Live, Amid
<1>3. (HandInv(m) /\ RowInv(m) /\ AmidInv(m))'
  BY <1>1, <1>2 DEF LineInv, HandInv, RowInv, AmidInv, SameBuffer, SameHistory, SameTask, Amid
<1>4. (LateInv(m) /\ LossInv(m))'
  BY <1>1, <1>2 DEF LineInv, LateInv, LossInv, SameBuffer, SameHistory, SameTask
<1>5. (OrderInv(m) /\ WiredInv(m))'
  BY <1>1, <1>2 DEF LineInv, OrderInv, WiredInv, SameBuffer, SameHistory, SameTask
<1> QED BY <1>3, <1>4, <1>5 DEF LineInv

\* A step that changes what is known of one line only.
LEMMA OneLine ==
    ASSUME IInv, NEW n \in Lines, TypeOK', LineInv(n)',
           \A m \in Lines : m # n => SameBuffer(m) /\ SameHistory(m) /\ SameTask(m)
    PROVE  IInv'
BY LineStays DEF IInv

\* A byte that is not wanted any more is excused, forwarded or none: a place
\* that is not filled holds nothing else.
LEMMA NotWanted ==
    ASSUME TypeOK, NEW n \in Lines, RowInv(n), LossInv(n),
           NEW i \in Cells, i > pos[n], mem[n][i] = came[n] => ~Amid(n)
    PROVE  mem[n][i] \in Done(n)
<1>1. mem[n][i] \in Nat /\ pos[n] \in Nat /\ pos[n] <= BufSize /\ BufSize \in Nat /\ came[n] \in Nat
  BY LineTypes
<1>2. CASE mem[n][i] = 0
  BY <1>2 DEF Done
<1>3. CASE mem[n][i] # 0
  <2>1. mem[n][i] \in 1 .. came[n]
    BY <1>1, <1>3 DEF RowInv
  <2>2. CASE mem[n][i] \in Buffered(n)
    <3>1. PICK j \in 1 .. pos[n] : mem[n][j] = mem[n][i]
      BY <2>2 DEF Buffered
    <3>2. j \in Cells /\ j # i
      BY <1>1, <3>1 DEF Cells
    <3> QED BY <1>3, <3>1, <3>2 DEF RowInv
  <2> QED BY <2>1, <2>2 DEF LossInv
<1> QED BY <1>2, <1>3

-------------------------------------------------------------------------------
(* A byte comes.                                                            *)

\* What a byte that finds no room changes: it is counted and excused.
LEMMA FullKeepsLine ==
    ASSUME IInv, NEW n \in Lines, ~Amid(n),
           mem'[n] = mem[n], pos'[n] = pos[n], at'[n] = at[n], left'[n] = left[n],
           came'[n] = came[n] + 1, sent'[n] = sent[n], torn'[n] = torn[n],
           excused'[n] = excused[n] \cup {came[n] + 1}, cur' = cur, len' = len
    PROVE  LineInv(n)'
<1>1. LineInv(n) /\ TypeOK
  BY DEF IInv
<1>2. /\ came[n] \in Nat
      /\ \A i \in Cells : mem[n][i] \in Nat
      /\ \A k \in DOMAIN sent[n] : sent[n][k] \in Nat
  BY <1>1, LineTypes
<1>3. ~Amid(n)' /\ left[n] = {} /\ left'[n] = {}
  BY DEF Amid
<1>4. /\ Done(n) \subseteq Done(n)' /\ came[n] + 1 \in Done(n)'
      /\ Buffered(n)' = Buffered(n) /\ Live(n)' = Live(n)
  BY DEF Done, Forwarded, Buffered, Live
<1>5. (HandInv(n) /\ RowInv(n) /\ AmidInv(n) /\ LateInv(n))'
  BY <1>1, <1>2, <1>3, <1>4 DEF LineInv, HandInv, RowInv, AmidInv, LateInv
<1>6. LossInv(n)'
  BY <1>1, <1>2, <1>4 DEF LineInv, LossInv, Amid
<1>7. \A i \in Live(n) : i \in Cells
  BY DEF Live
<1>8. (OrderInv(n) /\ WiredInv(n))'
  BY <1>1, <1>2, <1>3, <1>4, <1>7 DEF LineInv, OrderInv, WiredInv
<1> QED BY <1>5, <1>6, <1>8 DEF LineInv

\* What a byte put into place k with the position after it changes.
PutKeeps(n, k) ==
    /\ k \in Cells /\ k = pos[n] + 1
    /\ came'[n] = came[n] + 1 /\ sent'[n] = sent[n] /\ torn'[n] = torn[n]
    /\ pos'[n] = k /\ at'[n] = at[n] /\ left'[n] = left[n] /\ midframe'[n] = midframe[n]
    /\ \A i \in Cells : mem'[n][i] = IF i = k THEN came[n] + 1 ELSE mem[n][i]
    /\ excused'[n] = excused[n] \cup (IF cur = n THEN {came[n] + 1} ELSE {})
    /\ cur' = cur /\ len' = len

\* The interrupt: the new byte is newer than all others, and it is put behind
\* those that wait.
LEMMA PutKeepsLine ==
    ASSUME IInv, NEW n \in Lines, ~Amid(n), NEW k, PutKeeps(n, k)
    PROVE  LineInv(n)'
<1>1. LineInv(n) /\ TypeOK
  BY DEF IInv
<1>2. /\ came[n] \in Nat /\ pos[n] \in Nat /\ len \in Nat /\ BufSize \in Nat /\ pos[n] <= BufSize
      /\ \A i \in Cells : mem[n][i] \in Nat
      /\ \A i \in DOMAIN sent[n] : sent[n][i] \in Nat
  BY <1>1, LineTypes
<1>3. ~Amid(n)' /\ left[n] = {} /\ left'[n] = {}
  BY DEF Amid, PutKeeps
<1>4. /\ came'[n] = came[n] + 1 /\ sent'[n] = sent[n] /\ torn'[n] = torn[n]
      /\ cur' = cur /\ len' = len /\ pos'[n] = k /\ k = pos[n] + 1 /\ k \in Cells
      /\ \A i \in Cells : mem'[n][i] = IF i = k THEN came[n] + 1 ELSE mem[n][i]
  BY DEF PutKeeps
<1>5. Done(n) \subseteq Done(n)' /\ (cur = n => came[n] + 1 \in Done(n)')
  BY DEF Done, Forwarded, PutKeeps
<1>6. (HandInv(n) /\ AmidInv(n))'
  BY <1>1, <1>3, <1>4 DEF LineInv, HandInv, AmidInv
<1>7. RowInv(n)'
  <2>1. \A i \in Cells : mem'[n][i] <= came'[n]
    BY <1>1, <1>2, <1>4 DEF LineInv, RowInv
  <2>2. \A i, j \in Cells : i # j /\ mem'[n][i] = mem'[n][j] => mem'[n][i] = 0
    BY <1>1, <1>2, <1>4 DEF LineInv, RowInv
  <2> QED BY <1>3, <2>1, <2>2 DEF RowInv
<1>8. ASSUME NEW i \in 1 .. pos'[n]
      PROVE  /\ i \in Cells
             /\ \/ i \in 1 .. pos[n] /\ i # k /\ mem'[n][i] = mem[n][i]
                \/ i = k /\ mem'[n][i] = came[n] + 1
  BY <1>2, <1>4 DEF Cells
<1>9. LateInv(n)'
  BY <1>1, <1>4, <1>5, <1>8 DEF LineInv, LateInv
<1>10. LossInv(n)'
  <2> SUFFICES ASSUME NEW b \in 1 .. came[n] + 1, b \notin Done(n)'
               PROVE  b \in Buffered(n)'
    BY <1>4 DEF LossInv
  <2>1. CASE b = came[n] + 1
    BY <1>2, <1>4, <2>1 DEF Buffered
  <2>2. CASE b # came[n] + 1
    <3>1. b \in Buffered(n)
      BY <1>1, <1>2, <1>5, <2>2 DEF LineInv, LossInv, Amid
    <3>2. PICK i \in 1 .. pos[n] : mem[n][i] = b
      BY <3>1 DEF Buffered
    <3>3. i \in 1 .. pos'[n] /\ i \in Cells /\ i # k
      BY <1>2, <1>4 DEF Cells
    <3> QED BY <1>4, <3>2, <3>3 DEF Buffered
  <2> QED BY <2>1, <2>2
<1>11. ASSUME NEW i \in Live(n)'
       PROVE  /\ i \in Cells
              /\ \/ i \in Live(n) /\ mem'[n][i] = mem[n][i]
                 \/ i = k /\ mem'[n][i] = came[n] + 1
  BY <1>2, <1>3, <1>4 DEF Live, Cells
<1>12. \A i \in Live(n) : i \in Cells
  BY DEF Live
<1>13. OrderInv(n)'
  BY <1>1, <1>2, <1>3, <1>4, <1>11, <1>12 DEF LineInv, OrderInv
<1>14. WiredInv(n)'
  <2> SUFFICES ASSUME n \in Wired
               PROVE  /\ \A i, j \in 1 .. pos'[n] : i < j => mem'[n][i] < mem'[n][j]
                      /\ cur' = n => len' <= pos'[n]
                      /\ \A i, j \in DOMAIN sent'[n] : i < j => sent'[n][i] < sent'[n][j]
    BY DEF WiredInv
  <2>1. \A i, j \in 1 .. pos[n] : i < j => mem[n][i] < mem[n][j]
    BY <1>1 DEF LineInv, WiredInv
  <2>2. ASSUME NEW i \in 1 .. pos'[n], NEW j \in 1 .. pos'[n], i < j
        PROVE  mem'[n][i] < mem'[n][j]
    <3>1. i \in 1 .. pos[n] /\ i \in Cells /\ i # k
      BY <1>2, <1>4, <2>2 DEF Cells
    <3>2. mem'[n][i] = mem[n][i] /\ mem[n][i] <= came[n] /\ mem[n][i] \in Nat
      BY <1>1, <1>2, <1>4, <3>1 DEF LineInv, RowInv
    <3> QED BY <1>2, <1>8, <2>1, <2>2, <3>1, <3>2
  <2> QED BY <1>1, <1>2, <1>4, <2>2 DEF LineInv, WiredInv
<1> QED BY <1>6, <1>7, <1>9, <1>10, <1>13, <1>14 DEF LineInv

LEMMA WiredByteKeepsIInv ==
    ASSUME IInv, NEW n \in Lines, WiredByte(n)
    PROVE  IInv'
<1> DEFINE b == came[n] + 1
           room == pos[n] < BufSize
           k == pos[n] + 1
           row == [mem[n] EXCEPT ![k] = b]
<1>1. TypeOK /\ LineInv(n) /\ n \in Wired /\ ~Amid(n)
  BY SerialAssumption DEF IInv, WiredByte, LineInv, HandInv
<1>2. /\ came[n] \in Nat /\ MaxByte \in Nat /\ b \in 0 .. MaxByte /\ b \in Nat
      /\ BufSize \in Nat /\ pos[n] \in Nat /\ pos[n] <= BufSize
      /\ mem[n] \in [Cells -> Nat]
  BY <1>1, LineTypes DEF WiredByte
<1>3. /\ came' = [came EXCEPT ![n] = b]
      /\ midframe' = midframe /\ at' = at /\ left' = left
      /\ event' = event /\ todo' = todo /\ cur' = cur /\ len' = len
      /\ sent' = sent /\ torn' = torn
  BY DEF WiredByte, radVars, taskVars
<1>4. /\ room => mem' = [mem EXCEPT ![n] = row] /\ pos' = [pos EXCEPT ![n] = k]
      /\ ~room => mem' = mem /\ pos' = pos
  BY DEF WiredByte, bufVars
<1>5. excused' = [excused EXCEPT ![n] = excused[n] \cup (IF ~room \/ cur = n THEN {b} ELSE {})]
  BY DEF WiredByte, Excuse
<1>6. timer' \in [Lines -> BOOLEAN]
  BY <1>1 DEF WiredByte, TypeOK
<1>7. /\ came \in [Lines -> 0 .. MaxByte] /\ pos \in [Lines -> 0 .. BufSize]
      /\ mem \in [Lines -> [Cells -> Nat]] /\ excused \in [Lines -> SUBSET Nat]
  BY <1>1 DEF TypeOK, Cells
<1>8. came' \in [Lines -> 0 .. MaxByte] /\ came'[n] = b
  <2> HIDE DEF b
  <2> QED BY <1>2, <1>3, <1>7
<1>9. row \in [Cells -> Nat] /\ \A i \in Cells : row[i] = IF i = k THEN b ELSE mem[n][i]
  <2> HIDE DEF k, b
  <2> QED BY <1>2
<1>10. mem' \in [Lines -> [Cells -> Nat]] /\ (room => mem'[n] = row)
  <2> HIDE DEF row, room
  <2> QED BY <1>4, <1>7, <1>9
<1>11. room => k \in 0 .. BufSize /\ k \in Cells
  BY <1>2 DEF Cells
<1>12. pos' \in [Lines -> 0 .. BufSize] /\ (room => pos'[n] = k)
  <2> HIDE DEF k, room
  <2> QED BY <1>4, <1>7, <1>11
<1>13. /\ excused' \in [Lines -> SUBSET Nat]
       /\ excused'[n] = excused[n] \cup (IF ~room \/ cur = n THEN {b} ELSE {})
  <2> HIDE DEF b, room
  <2> QED BY <1>2, <1>5, <1>7
<1>14. TypeOK'
  BY <1>1, <1>3, <1>6, <1>8, <1>10, <1>12, <1>13 DEF TypeOK, Cells
<1>15. \A m \in Lines : m # n => SameBuffer(m) /\ SameHistory(m) /\ SameTask(m)
  <2> HIDE DEF b, k, row, room
  <2> QED BY <1>3, <1>4, <1>5, <1>7 DEF SameBuffer, SameHistory, SameTask
<1>16. CASE room
  <2>1. PutKeeps(n, k)
    BY <1>3, <1>8, <1>9, <1>10, <1>11, <1>12, <1>13, <1>16 DEF PutKeeps
  <2> HIDE DEF k
  <2>2. LineInv(n)'
    BY <1>1, <2>1, PutKeepsLine
  <2> QED BY <1>14, <1>15, <2>2, OneLine
<1>17. CASE ~room
  <2>1. LineInv(n)'
    BY <1>1, <1>3, <1>4, <1>8, <1>13, <1>17, FullKeepsLine
  <2> QED BY <1>14, <1>15, <2>1, OneLine
<1> QED BY <1>16, <1>17

\* There is no room for the radio's byte: it is counted and excused.
LEMMA RadioFullKeepsIInv ==
    ASSUME IInv, NEW n \in Lines, NEW last \in BOOLEAN, RadioFull(n, last)
    PROVE  IInv'
<1> DEFINE b == came[n] + 1
<1>1. TypeOK /\ ~Amid(n)
  BY DEF IInv, RadioFull, Amid
<1>2. came[n] \in Nat /\ MaxByte \in Nat /\ b \in 0 .. MaxByte /\ b \in Nat
  BY <1>1, LineTypes DEF RadioFull
<1>3. /\ came' = [came EXCEPT ![n] = b]
      /\ excused' = [excused EXCEPT ![n] = excused[n] \cup {b}]
      /\ midframe' = [midframe EXCEPT ![n] = ~last]
      /\ mem' = mem /\ pos' = pos /\ at' = at /\ left' = left
      /\ event' = event /\ todo' = todo /\ cur' = cur /\ len' = len
      /\ sent' = sent /\ torn' = torn
  BY DEF RadioFull, Handed, Excuse, bufVars, taskVars
<1>4. timer' \in [Lines -> BOOLEAN] /\ midframe' \in [Lines -> BOOLEAN]
  BY <1>1 DEF RadioFull, Handed, TypeOK
<1> HIDE DEF b
<1>5. came' \in [Lines -> 0 .. MaxByte] /\ came'[n] = b
  BY <1>1, <1>2, <1>3 DEF TypeOK
<1>6. excused' \in [Lines -> SUBSET Nat] /\ excused'[n] = excused[n] \cup {b}
  BY <1>1, <1>2, <1>3 DEF TypeOK
<1>7. TypeOK'
  BY <1>1, <1>3, <1>4, <1>5, <1>6 DEF TypeOK
<1>8. LineInv(n)'
  BY <1>1, <1>3, <1>5, <1>6, FullKeepsLine DEF b
<1>9. \A m \in Lines : m # n => SameBuffer(m) /\ SameHistory(m) /\ SameTask(m)
  BY <1>1, <1>3 DEF TypeOK, SameBuffer, SameHistory, SameTask
<1> QED BY <1>7, <1>8, <1>9, OneLine

\* The radio thread loads the position; the place behind it holds nothing wanted.
LEMMA RadioLoadKeepsIInv ==
    ASSUME IInv, NEW n \in Lines, RadioLoad(n)
    PROVE  IInv'
<1> DEFINE b == came[n] + 1
           p == pos[n]
<1>1. TypeOK /\ LineInv(n) /\ n \in Radio /\ n \notin Wired /\ left[n] = {} /\ ~Amid(n)
  BY SerialAssumption DEF IInv, RadioLoad, Amid
<1>2. /\ came[n] \in Nat /\ MaxByte \in Nat /\ b \in 0 .. MaxByte /\ b \in Nat
      /\ BufSize \in Nat /\ p \in 0 .. BufSize - 1 /\ p + 1 \in Cells /\ p + 1 > pos[n]
      /\ \A i \in Cells : mem[n][i] \in Nat
      /\ \A k \in DOMAIN sent[n] : sent[n][k] \in Nat
  <2>1. p \in Nat /\ BufSize \in Nat /\ p < BufSize
    BY <1>1, LineTypes DEF RadioLoad
  <2>2. p \in 0 .. BufSize - 1 /\ p + 1 \in Cells /\ p + 1 > pos[n]
    BY <2>1 DEF Cells
  <2> QED BY <1>1, <2>1, <2>2, LineTypes DEF RadioLoad
<1>3. /\ came' = [came EXCEPT ![n] = b]
      /\ at' = [at EXCEPT ![n] = p] /\ left' = [left EXCEPT ![n] = Stores]
      /\ midframe' = [midframe EXCEPT ![n] = TRUE]
      /\ excused' = [excused EXCEPT ![n] = excused[n] \cup (IF cur = n THEN {b} ELSE {})]
      /\ mem' = mem /\ pos' = pos /\ timer' = timer /\ event' = event
      /\ todo' = todo /\ cur' = cur /\ len' = len /\ sent' = sent /\ torn' = torn
  BY DEF RadioLoad, Excuse, bufVars, taskVars
<1>4. mem[n][p + 1] \in Done(n)
  BY <1>1, <1>2, NotWanted DEF LineInv
<1> HIDE DEF b, p
<1>5. came' \in [Lines -> 0 .. MaxByte] /\ came'[n] = b
  BY <1>1, <1>2, <1>3 DEF TypeOK
<1>6. /\ excused' \in [Lines -> SUBSET Nat]
      /\ excused[n] \subseteq excused'[n] /\ (cur = n => b \in excused'[n])
  BY <1>1, <1>2, <1>3 DEF TypeOK
<1>7. /\ at' \in [Lines -> 0 .. BufSize - 1] /\ at'[n] = p
      /\ left' \in [Lines -> SUBSET Stores] /\ left'[n] = Stores
      /\ midframe' \in [Lines -> BOOLEAN] /\ midframe'[n]
  BY <1>1, <1>2, <1>3 DEF TypeOK
<1>8. TypeOK'
  BY <1>1, <1>3, <1>5, <1>6, <1>7 DEF TypeOK
<1>9. /\ b = came[n] + 1 /\ p = pos[n] /\ Amid(n)'
      /\ Done(n) \subseteq Done(n)' /\ Buffered(n)' = Buffered(n)
  BY <1>3, <1>6, <1>7 DEF b, p, Amid, Stores, Done, Forwarded, Buffered
<1>10. Live(n)' = Live(n)
  BY <1>1, <1>2, <1>3, <1>7, <1>9 DEF Live, Cells
<1>11. (HandInv(n) /\ AmidInv(n) /\ WiredInv(n))'
  BY <1>1, <1>2, <1>3, <1>5, <1>6, <1>7, <1>9 DEF HandInv, AmidInv, WiredInv, Stores
<1>12. RowInv(n)'
  BY <1>1, <1>2, <1>3, <1>4, <1>5, <1>7, <1>9 DEF LineInv, RowInv, Stores
<1>13. (LateInv(n) /\ LossInv(n))'
  BY <1>1, <1>2, <1>3, <1>5, <1>9 DEF LineInv, LateInv, LossInv
<1>14. OrderInv(n)'
  BY <1>1, <1>2, <1>3, <1>5, <1>7, <1>9, <1>10 DEF LineInv, OrderInv, Stores
<1>15. LineInv(n)'
  BY <1>11, <1>12, <1>13, <1>14 DEF LineInv
<1>16. \A m \in Lines : m # n => SameBuffer(m) /\ SameHistory(m) /\ SameTask(m)
  BY <1>1, <1>3 DEF TypeOK, SameBuffer, SameHistory, SameTask
<1> QED BY <1>8, <1>15, <1>16, OneLine

\* It stores the byte: the byte overwrites nothing that is wanted, and when it
\* lands behind the end of what is sent it has an excuse.
LEMMA StoreByteKeepsLine ==
    ASSUME IInv, NEW n \in Lines, "byte" \in left[n],
           \A i \in Cells : mem'[n][i] = IF i = at[n] + 1 THEN came[n] ELSE mem[n][i],
           left'[n] = left[n] \ {"byte"}, left'[n] # {} => midframe'[n],
           pos'[n] = pos[n], at'[n] = at[n], SameHistory(n), cur' = cur, len' = len
    PROVE  LineInv(n)'
<1> DEFINE k == at[n] + 1
<1>1. LineInv(n) /\ TypeOK /\ Amid(n)
  BY DEF IInv, Amid
<1>2. /\ came[n] \in Nat /\ came[n] > 0 /\ BufSize \in Nat
      /\ pos[n] \in Nat /\ pos[n] <= BufSize /\ at[n] \in Nat /\ k \in Cells
      /\ left[n] \subseteq Stores
      /\ \A i \in Cells : mem[n][i] \in Nat
      /\ \A i \in DOMAIN sent[n] : sent[n][i] \in Nat
  BY <1>1, LineTypes DEF LineInv, HandInv
<1>3. /\ came'[n] = came[n] /\ sent'[n] = sent[n] /\ torn'[n] = torn[n]
      /\ Done(n)' = Done(n) /\ excused[n] \subseteq Done(n)
  BY DEF SameHistory, Done, Forwarded
<1>4. /\ \A i \in Cells : i # k => mem'[n][i] = mem[n][i]
      /\ mem'[n][k] = came[n]
      /\ \A i \in Cells : mem[n][i] < came[n]
      /\ mem[n][k] \in Done(n)
      /\ "byte" \notin left'[n] /\ ("pos" \in left'[n] <=> "pos" \in left[n])
  BY <1>1, <1>2 DEF LineInv, RowInv
<1>5. n \in Radio /\ n \notin Wired /\ midframe[n]
  BY <1>1, SerialAssumption DEF LineInv, HandInv
<1>6. Amid(n)' => midframe'[n] /\ "pos" \in left'[n] /\ left'[n] # {}
  BY <1>2 DEF Amid, Stores
<1>7. \/ came[n] \in excused[n]
      \/ cur # n /\ pos[n] = IF "pos" \in left[n] THEN at[n] ELSE k
  BY <1>1 DEF LineInv, AmidInv
<1>8. \A i \in 1 .. pos[n] : i \in Cells
  BY <1>2 DEF Cells
<1>9. (HandInv(n) /\ WiredInv(n))'
  BY <1>1, <1>2, <1>3, <1>4, <1>5, <1>6 DEF LineInv, HandInv, WiredInv
<1>10. AmidInv(n)'
  BY <1>3, <1>4, <1>6, <1>7 DEF AmidInv, SameHistory
<1>11. RowInv(n)'
  BY <1>1, <1>2, <1>3, <1>4 DEF LineInv, RowInv
<1>12. LateInv(n)'
  BY <1>1, <1>3, <1>4, <1>7, <1>8 DEF LineInv, LateInv
<1>13. LossInv(n)'
  <2> SUFFICES ASSUME NEW b \in 1 .. came[n], b \notin Done(n)
               PROVE  b \in Buffered(n)' \/ (Amid(n)' /\ b = came[n])
    BY <1>3 DEF LossInv
  <2>1. CASE b = came[n]
    <3>1. cur # n /\ pos[n] = IF "pos" \in left[n] THEN at[n] ELSE k
      BY <1>3, <1>7, <2>1
    <3>2. CASE "pos" \in left[n]
      BY <1>4, <2>1, <3>2 DEF Amid
    <3>3. CASE "pos" \notin left[n]
      BY <1>2, <1>4, <2>1, <3>1, <3>3 DEF Buffered
    <3> QED BY <3>2, <3>3
  <2>2. CASE b # came[n]
    <3>1. PICK i \in 1 .. pos[n] : mem[n][i] = b
      BY <1>1, <2>2 DEF LineInv, LossInv, Buffered
    <3>2. i # k
      BY <1>4, <3>1
    <3> QED BY <1>4, <1>8, <3>1, <3>2 DEF Buffered
  <2> QED BY <2>1, <2>2
<1>14. ASSUME NEW i \in Live(n)'
       PROVE  i \in Cells /\ (i = k \/ (i \in Live(n) /\ mem'[n][i] = mem[n][i]))
  BY <1>4 DEF Live
<1>15. OrderInv(n)'
  <2> SUFFICES ASSUME ~torn[n] PROVE OrderInv(n)'
    BY <1>3 DEF OrderInv
  <2> HIDE DEF k
  <2>1. /\ \A j \in DOMAIN sent[n] : sent[n][j] < came[n]
        /\ pos[n] = IF "pos" \in left[n] THEN at[n] ELSE at[n] + 1
        /\ \A i \in Live(n) : mem[n][i] > 0
        /\ \A j \in DOMAIN sent[n], i \in Live(n) : sent[n][j] < mem[n][i]
        /\ \A i, j \in DOMAIN sent[n] : i < j => sent[n][i] # sent[n][j]
    BY <1>1 DEF LineInv, OrderInv
  <2>2. \A i \in Live(n)' : mem'[n][i] > 0
    BY <1>2, <1>4, <1>14, <2>1
  <2>3. \A j \in DOMAIN sent[n], i \in Live(n)' : sent[n][j] < mem'[n][i]
    BY <1>4, <1>14, <2>1
  <2> QED BY <1>2, <1>3, <1>4, <2>1, <2>2, <2>3 DEF OrderInv
<1> QED BY <1>9, <1>10, <1>11, <1>12, <1>13, <1>15 DEF LineInv

\* It stores the position: a stale one, older than a reset, only brings back
\* what was sent before, and then torn says so.
LEMMA StorePosKeepsLine ==
    ASSUME IInv, NEW n \in Lines, "pos" \in left[n],
           pos'[n] = at[n] + 1,
           left'[n] = left[n] \ {"pos"}, left'[n] # {} => midframe'[n],
           mem'[n] = mem[n], at'[n] = at[n], SameHistory(n), cur' = cur, len' = len
    PROVE  LineInv(n)'
<1> DEFINE k == at[n] + 1
<1>1. LineInv(n) /\ TypeOK /\ Amid(n)
  BY DEF IInv, Amid
<1>2. /\ came[n] \in Nat /\ came[n] > 0 /\ BufSize \in Nat
      /\ pos[n] \in Nat /\ pos[n] <= at[n] /\ at[n] \in Nat /\ k \in Cells /\ k <= BufSize
      /\ left[n] \subseteq Stores
      /\ \A i \in Cells : mem[n][i] \in Nat
      /\ \A i \in DOMAIN sent[n] : sent[n][i] \in Nat
  BY <1>1, LineTypes DEF LineInv, HandInv, Cells
<1>3. /\ came'[n] = came[n] /\ sent'[n] = sent[n] /\ torn'[n] = torn[n]
      /\ Done(n)' = Done(n) /\ excused[n] \subseteq Done(n)
  BY DEF SameHistory, Done, Forwarded
<1>4. "pos" \notin left'[n] /\ ("byte" \in left'[n] <=> "byte" \in left[n])
  BY <1>2
<1>5. n \in Radio /\ n \notin Wired /\ midframe[n]
  BY <1>1, SerialAssumption DEF LineInv, HandInv
<1>6. Amid(n)' => midframe'[n] /\ "byte" \in left[n] /\ left'[n] # {}
  BY <1>2 DEF Amid, Stores
<1>7. came[n] \in excused[n] \/ (cur # n /\ pos[n] = at[n])
  BY <1>1 DEF LineInv, AmidInv
<1>8. \A i \in 1 .. k : i \in Cells /\ (i \in 1 .. pos[n] \/ i > pos[n])
  BY <1>2 DEF Cells
<1>9. (HandInv(n) /\ WiredInv(n))'
  BY <1>1, <1>2, <1>3, <1>4, <1>5, <1>6 DEF LineInv, HandInv, WiredInv
<1>10. AmidInv(n)'
  BY <1>3, <1>4, <1>6, <1>7 DEF AmidInv, SameHistory
<1>11. RowInv(n)'
  BY <1>1, <1>3, <1>4, <1>6 DEF LineInv, RowInv, Amid
<1>12. LateInv(n)'
  <2> SUFFICES ASSUME cur = n, NEW i \in 1 .. k, i > len PROVE mem[n][i] \in Done(n)
    BY <1>3 DEF LateInv
  <2>1. CASE i \in 1 .. pos[n]
    BY <1>1, <2>1 DEF LineInv, LateInv
  <2>2. CASE i > pos[n] /\ mem[n][i] = came[n]
    BY <1>3, <1>7, <2>2
  <2>3. CASE i > pos[n] /\ mem[n][i] # came[n]
    BY <1>1, <1>8, <2>3, NotWanted DEF LineInv
  <2> QED BY <1>8, <2>1, <2>2, <2>3
<1>13. LossInv(n)'
  <2> SUFFICES ASSUME NEW b \in 1 .. came[n], b \notin Done(n)
               PROVE  b \in Buffered(n)' \/ (Amid(n)' /\ b = came[n])
    BY <1>3 DEF LossInv
  <2>1. CASE b \in Buffered(n)
    <3>1. PICK i \in 1 .. pos[n] : mem[n][i] = b
      BY <2>1 DEF Buffered
    <3>2. i \in 1 .. k
      BY <1>2
    <3> QED BY <3>1, <3>2 DEF Buffered
  <2>2. CASE b = came[n]
    <3>1. CASE "byte" \in left[n]
      BY <1>4, <2>2, <3>1 DEF Amid
    <3>2. CASE "byte" \notin left[n]
      <4>1. mem[n][k] = came[n] /\ k \in 1 .. k
        BY <1>1, <1>2, <3>2 DEF LineInv, RowInv
      <4> QED BY <2>2, <4>1 DEF Buffered
    <3> QED BY <3>1, <3>2
  <2> QED BY <1>1, <2>1, <2>2 DEF LineInv, LossInv
<1>14. ASSUME ~torn[n] PROVE OrderInv(n)'
  <2>1. /\ \A j \in DOMAIN sent[n] : sent[n][j] < came[n]
        /\ pos[n] = at[n]
        /\ \A i \in Live(n) : mem[n][i] > 0
        /\ \A j \in DOMAIN sent[n], i \in Live(n) : sent[n][j] < mem[n][i]
        /\ \A i, j \in DOMAIN sent[n] : i < j => sent[n][i] # sent[n][j]
    BY <1>1, <1>14 DEF LineInv, OrderInv
  <2>2. ASSUME NEW i \in Live(n)'
        PROVE  i \in Live(n) \/ (i = k /\ mem[n][k] = came[n])
    <3>1. CASE i = k /\ "byte" \notin left[n]
      BY <1>1, <3>1 DEF LineInv, RowInv
    <3>2. CASE ~(i = k /\ "byte" \notin left[n])
      BY <1>2, <1>4, <2>1, <3>2 DEF Live, Cells
    <3> QED BY <3>1, <3>2
  <2> HIDE DEF k
  <2>3. \A i \in Live(n)' : mem'[n][i] > 0
    BY <1>2, <2>1, <2>2
  <2>4. \A j \in DOMAIN sent[n], i \in Live(n)' : sent[n][j] < mem'[n][i]
    BY <2>1, <2>2
  <2> QED BY <1>2, <1>3, <1>4, <2>1, <2>3, <2>4 DEF OrderInv
<1>15. OrderInv(n)'
  BY <1>3, <1>14 DEF OrderInv
<1> QED BY <1>9, <1>10, <1>11, <1>12, <1>13, <1>15 DEF LineInv

LEMMA RadioStoreKeepsIInv ==
    ASSUME IInv, NEW n \in Lines, NEW what \in Stores, NEW last \in BOOLEAN,
           RadioStore(n, what, last)
    PROVE  IInv'
<1> DEFINE k == at[n] + 1
           b == came[n]
           row == [mem[n] EXCEPT ![k] = b]
<1>1. TypeOK /\ what \in left[n]
  BY DEF IInv, RadioStore
<1>2. b \in Nat /\ k \in Cells /\ k \in 0 .. BufSize /\ mem[n] \in [Cells -> Nat]
  BY <1>1, LineTypes DEF Cells
<1>3. /\ left' = [left EXCEPT ![n] = left[n] \ {what}]
      /\ at' = at /\ event' = event /\ todo' = todo /\ cur' = cur /\ len' = len
      /\ came' = came /\ sent' = sent /\ torn' = torn /\ excused' = excused
      /\ what = "byte" => mem' = [mem EXCEPT ![n] = row] /\ pos' = pos
      /\ what # "byte" => mem' = mem /\ pos' = [pos EXCEPT ![n] = k]
  BY DEF RadioStore, taskVars, hisVars
<1>4. /\ timer' \in [Lines -> BOOLEAN] /\ midframe' \in [Lines -> BOOLEAN]
      /\ left[n] # {what} => midframe'[n] = midframe[n]
      /\ \A m \in Lines : m # n => midframe'[m] = midframe[m]
  BY <1>1 DEF RadioStore, Handed, TypeOK
<1>5. row \in [Cells -> Nat] /\ \A i \in Cells : row[i] = IF i = k THEN b ELSE mem[n][i]
  <2> HIDE DEF k, b
  <2> QED BY <1>2
<1> HIDE DEF k, b, row
<1>6. /\ mem' \in [Lines -> [Cells -> Nat]] /\ pos' \in [Lines -> 0 .. BufSize]
      /\ what = "byte" => mem'[n] = row
      /\ what # "byte" => pos'[n] = k
  BY <1>1, <1>2, <1>3, <1>5 DEF TypeOK, Cells
<1>7. left' \in [Lines -> SUBSET Stores] /\ left'[n] = left[n] \ {what}
  BY <1>1, <1>3 DEF TypeOK
<1>8. TypeOK'
  BY <1>1, <1>3, <1>4, <1>6, <1>7 DEF TypeOK, Cells
<1>9. left'[n] # {} => midframe'[n]
  BY <1>1, <1>4, <1>7 DEF IInv, LineInv, HandInv, Amid
<1>10. SameHistory(n)
  BY <1>3 DEF SameHistory
<1>11. LineInv(n)'
  <2>1. CASE what = "byte"
    <3>1. \A i \in Cells : mem'[n][i] = IF i = at[n] + 1 THEN came[n] ELSE mem[n][i]
      BY <1>5, <1>6, <2>1 DEF k, b
    <3> QED BY <1>1, <1>3, <1>7, <1>9, <1>10, <2>1, <3>1, StoreByteKeepsLine
  <2>2. CASE what # "byte"
    <3>1. what = "pos"
      BY <2>2 DEF Stores
    <3> QED BY <1>1, <1>3, <1>6, <1>7, <1>9, <1>10, <3>1, StorePosKeepsLine DEF k
  <2> QED BY <2>1, <2>2
<1>12. \A m \in Lines : m # n => SameBuffer(m) /\ SameHistory(m) /\ SameTask(m)
  BY <1>1, <1>3, <1>4 DEF TypeOK, SameBuffer, SameHistory, SameTask
<1> QED BY <1>8, <1>11, <1>12, OneLine

-------------------------------------------------------------------------------
(* The buffer is sent, or cleared.                                          *)

\* The module clears the buffer between two frames: what was in it is excused.
LEMMA RcvClearKeepsIInv ==
    ASSUME IInv, NEW n \in Lines, RcvClear(n)
    PROVE  IInv'
<1>1. TypeOK /\ LineInv(n) /\ n \notin Wired /\ ~Amid(n) /\ left[n] = {}
  <2>1. TypeOK /\ LineInv(n) /\ n \notin Wired /\ ~midframe[n]
    BY SerialAssumption DEF IInv, RcvClear
  <2> QED BY <2>1 DEF LineInv, HandInv, Amid
<1>2. /\ pos' = [pos EXCEPT ![n] = 0]
      /\ excused' = [excused EXCEPT ![n] = excused[n] \cup Buffered(n)]
      /\ mem' = mem /\ timer' = timer /\ midframe' = midframe /\ at' = at
      /\ left' = left /\ event' = event /\ todo' = todo /\ cur' = cur /\ len' = len
      /\ came' = came /\ sent' = sent /\ torn' = torn
  BY DEF RcvClear, Excuse, radVars, taskVars
<1>3. /\ came[n] \in Nat /\ pos[n] \in Nat /\ BufSize \in Nat /\ pos[n] <= BufSize
      /\ \A i \in Cells : mem[n][i] \in Nat
  BY <1>1, LineTypes
<1>4. Buffered(n) \in SUBSET Nat
  BY <1>3 DEF Buffered, Cells
<1>5. /\ pos' \in [Lines -> 0 .. BufSize] /\ pos'[n] = 0
      /\ excused' \in [Lines -> SUBSET Nat]
      /\ excused'[n] = excused[n] \cup Buffered(n)
  BY <1>1, <1>2, <1>3, <1>4 DEF TypeOK
<1>6. TypeOK'
  BY <1>1, <1>2, <1>5 DEF TypeOK
<1>7. Done(n) \cup Buffered(n) \subseteq Done(n)' /\ ~Amid(n)'
  BY <1>1, <1>2, <1>5 DEF Done, Forwarded, Amid
<1>8. (HandInv(n) /\ RowInv(n) /\ AmidInv(n) /\ LateInv(n) /\ WiredInv(n))'
  BY <1>1, <1>2, <1>5, <1>7 DEF LineInv, HandInv, RowInv, AmidInv, LateInv, WiredInv
<1>9. LossInv(n)'
  BY <1>1, <1>2, <1>7 DEF LineInv, LossInv
<1>10. Live(n)' \subseteq Live(n)
  BY <1>1, <1>2, <1>3, <1>5 DEF Live, Cells
<1>11. OrderInv(n)'
  BY <1>1, <1>2, <1>7, <1>10 DEF LineInv, OrderInv
<1>12. LineInv(n)'
  BY <1>8, <1>9, <1>11 DEF LineInv
<1>13. \A m \in Lines : m # n => SameBuffer(m) /\ SameHistory(m) /\ SameTask(m)
  BY <1>1, <1>2 DEF TypeOK, SameBuffer, SameHistory, SameTask
<1> QED BY <1>6, <1>12, <1>13, OneLine

\* The line with the lowest number is taken up with all its buffer holds; a byte
\* that the radio thread is storing may be lost.
LEMMA SendBufferKeepsIInv ==
    ASSUME IInv, NEW n \in todo, SendBuffer, cur' = n
    PROVE  IInv'
<1> DEFINE byte == IF Amid(n) THEN {came[n]} ELSE {}
<1>1. TypeOK /\ cur = NoLine /\ n \in Lines /\ n # NoLine
  BY SerialAssumption DEF IInv, TypeOK, SendBuffer
<1>2. /\ len' = pos[n]
      /\ torn' = [torn EXCEPT ![n] = torn[n] \/ Amid(n)]
      /\ excused' = [excused EXCEPT ![n] = excused[n] \cup byte]
      /\ mem' = mem /\ pos' = pos /\ timer' = timer /\ midframe' = midframe
      /\ at' = at /\ left' = left /\ event' = event /\ todo' = todo
      /\ came' = came /\ sent' = sent
  BY DEF SendBuffer, Tear, Excuse, bufVars, radVars
<1>3. /\ LineInv(n) /\ came[n] \in Nat /\ pos[n] \in Nat /\ pos[n] <= BufSize
      /\ BufSize \in Nat /\ pos[n] \in 0 .. BufSize /\ byte \in SUBSET Nat
      /\ Amid(n) \in BOOLEAN
  BY <1>1, LineTypes DEF IInv, Amid
<1>4. /\ excused' \in [Lines -> SUBSET Nat] /\ excused'[n] = excused[n] \cup byte
      /\ torn' \in [Lines -> BOOLEAN] /\ torn'[n] = (torn[n] \/ Amid(n))
  <2> HIDE DEF byte
  <2>1. excused' \in [Lines -> SUBSET Nat] /\ excused'[n] = excused[n] \cup byte
    BY <1>1, <1>2, <1>3 DEF TypeOK
  <2>2. (torn[n] \/ Amid(n)) \in BOOLEAN
    OBVIOUS
  <2>3. torn' \in [Lines -> BOOLEAN] /\ torn'[n] = (torn[n] \/ Amid(n))
    BY <1>1, <1>2, <2>2 DEF TypeOK
  <2> QED BY <2>1, <2>3
<1>5. cur' \in todo' \cup {NoLine} /\ len' \in 0 .. BufSize
  BY <1>2, <1>3
<1>6. TypeOK'
  BY <1>1, <1>2, <1>4, <1>5 DEF TypeOK
<1>7. /\ Done(n) \subseteq Done(n)' /\ (Amid(n)' <=> Amid(n))
      /\ Amid(n) => came[n] \in excused'[n]
  BY <1>2, <1>4 DEF Done, Forwarded, Amid
<1>8. (HandInv(n) /\ RowInv(n) /\ AmidInv(n))'
  <2>1. HandInv(n)'
    BY <1>2, <1>3, <1>4, <1>7, SerialAssumption DEF LineInv, HandInv
  <2> QED BY <1>2, <1>3, <1>7, <2>1 DEF LineInv, RowInv, AmidInv
<1>9. (LateInv(n) /\ LossInv(n) /\ WiredInv(n))'
  <2>1. LateInv(n)'
    BY <1>2, <1>3 DEF LateInv
  <2>2. LossInv(n)'
    BY <1>2, <1>3, <1>7 DEF LineInv, LossInv, Buffered
  <2> QED BY <1>2, <1>3, <2>1, <2>2 DEF LineInv, WiredInv
<1>10. ASSUME ~torn'[n] PROVE OrderInv(n)'
  <2>1. ~torn[n] /\ ~Amid(n)
    BY <1>4, <1>10
  <2>2. Live(n)' \subseteq Live(n)
    BY <1>2, <1>3, <2>1 DEF Live, Amid
  <2> QED BY <1>2, <1>3, <1>7, <2>1, <2>2 DEF LineInv, OrderInv
<1>11. LineInv(n)'
  BY <1>8, <1>9, <1>10 DEF LineInv, OrderInv
<1>12. \A m \in Lines : m # n => SameBuffer(m) /\ SameHistory(m) /\ SameTask(m)
  <2>1. \A m \in Lines : m # n => cur # m /\ cur' # m
    BY <1>1, SerialAssumption
  <2> QED BY <1>1, <1>2, <2>1 DEF TypeOK, SameBuffer, SameHistory, SameTask
<1> QED BY <1>1, <1>6, <1>11, <1>12, OneLine

\* What the link has taken when lwip_write returns.
new == SubSeq(mem[cur], 1, len)
all == sent[cur] \o new
old == Len(sent[cur])

\* The bytes sent so far keep their places, those of the buffer come after them.
LEMMA Taken ==
    ASSUME TypeOK, cur \in Lines
    PROVE  /\ all \in Seq(Nat)
           /\ old \in Nat /\ DOMAIN sent[cur] = 1 .. old
           /\ DOMAIN all = 1 .. old + len
           /\ \A i \in 1 .. old : all[i] = sent[cur][i]
           /\ \A i \in 1 .. len : old + i \in DOMAIN all /\ all[old + i] = mem[cur][i]
           /\ \A j \in DOMAIN all :
                 \/ j \in 1 .. old
                 \/ j - old \in 1 .. len /\ all[j] = mem[cur][j - old]
<1>1. len \in Nat /\ len <= BufSize /\ BufSize \in Nat
  BY LineTypes
<1>2. \A i \in Cells : mem[cur][i] \in Nat
  BY LineTypes
<1>3. \A i \in 1 .. len : mem[cur][i] \in Nat
  BY <1>1, <1>2 DEF Cells
<1>4. /\ new \in Seq(Nat) /\ Len(new) = len
      /\ \A i \in 1 .. len : new[i] = mem[cur][i]
  <2>1. /\ new \in Seq(Nat) /\ Len(new) = IF 1 <= len THEN len - 1 + 1 ELSE 0
        /\ \A i \in 1 .. len - 1 + 1 : new[i] = mem[cur][1 + i - 1]
    BY <1>1, <1>3, SubSeqProperties DEF new
  <2> QED BY <1>1, <2>1
<1>5. sent[cur] \in Seq(Nat) /\ old \in Nat /\ DOMAIN sent[cur] = 1 .. old
  BY LineTypes DEF old
<1>6. /\ all \in Seq(Nat) /\ Len(all) = old + len
      /\ \A i \in 1 .. old + len : all[i] = IF i <= old THEN sent[cur][i] ELSE new[i - old]
  BY <1>4, <1>5, ConcatProperties DEF all, old
<1>7. DOMAIN all = 1 .. old + len
  BY <1>6
<1>8. \A i \in 1 .. old : all[i] = sent[cur][i]
  BY <1>1, <1>5, <1>6
<1>9. \A i \in 1 .. len : old + i \in DOMAIN all /\ all[old + i] = mem[cur][i]
  BY <1>1, <1>4, <1>5, <1>6, <1>7
<1>10. \A j \in DOMAIN all : \/ j \in 1 .. old
                             \/ j - old \in 1 .. len /\ all[j] = mem[cur][j - old]
  <2>1. ASSUME NEW j \in 1 .. old + len, ~(j <= old)
        PROVE  j - old \in 1 .. len /\ all[j] = mem[cur][j - old]
    <3>1. j - old \in 1 .. len
      BY <1>1, <1>5, <2>1
    <3> QED BY <1>4, <1>6, <2>1, <3>1
  <2>2. \A j \in 1 .. old + len : j <= old => j \in 1 .. old
    BY <1>1, <1>5
  <2> QED BY <1>7, <2>1, <2>2
<1> QED BY <1>5, <1>6, <1>7, <1>8, <1>9, <1>10

\* The send has returned and the buffer is emptied: what was sent is newer than
\* all before, and what is behind it was not wanted.
LEMMA SentKeepsIInv ==
    ASSUME IInv, NEW n \in Lines, Sent, cur = n
    PROVE  IInv'
<1>1. TypeOK /\ n # NoLine /\ cur = n /\ LineInv(n)
  BY DEF IInv, Sent, TypeOK
<1>2. /\ pos' = [pos EXCEPT ![n] = 0]
      /\ torn' = [torn EXCEPT ![n] = torn[n] \/ Amid(n)]
      /\ mem' = mem /\ timer' = timer /\ midframe' = midframe /\ at' = at
      /\ left' = left /\ event' = event
      /\ todo' = todo \ {n} /\ cur' = NoLine /\ len' = 0 /\ came' = came
  BY DEF Sent, Tear, radVars
<1>3. \/ sent' = [sent EXCEPT ![n] = all] /\ excused' = excused
      \/ /\ excused' = [excused EXCEPT ![n] = excused[n] \cup Buffered(n)]
         /\ sent' = sent
  BY DEF Sent, Excuse, all, new
<1>4. /\ old \in Nat /\ DOMAIN sent[n] = 1 .. old
      /\ all \in Seq(Nat) /\ DOMAIN all = 1 .. old + len
      /\ \A i \in 1 .. old : all[i] = sent[n][i]
      /\ \A i \in 1 .. len : old + i \in DOMAIN all /\ all[old + i] = mem[n][i]
      /\ \A j \in DOMAIN all : \/ j \in 1 .. old
                               \/ j - old \in 1 .. len /\ all[j] = mem[n][j - old]
  BY <1>1, Taken
<1>5. /\ pos[n] \in Nat /\ pos[n] <= BufSize /\ BufSize \in Nat /\ came[n] \in Nat
      /\ \A i \in Cells : mem[n][i] \in Nat
      /\ \A i \in 1 .. old : sent[n][i] \in Nat
      /\ len \in Nat /\ len <= BufSize /\ at[n] \in Nat
  BY <1>1, <1>4, LineTypes
<1>6. Buffered(n) \in SUBSET Nat
  BY <1>5 DEF Buffered, Cells
<1>7. /\ sent' \in [Lines -> Seq(Nat)] /\ excused' \in [Lines -> SUBSET Nat]
      /\ \A m \in Lines : m # n => sent'[m] = sent[m] /\ excused'[m] = excused[m]
      /\ excused[n] \subseteq excused'[n]
      /\ \/ sent'[n] = all
         \/ sent'[n] = sent[n] /\ Buffered(n) \subseteq excused'[n]
  BY <1>1, <1>3, <1>4, <1>6, ZenonT(30) DEF TypeOK
<1>8. /\ pos' \in [Lines -> 0 .. BufSize] /\ pos'[n] = 0
      /\ torn' \in [Lines -> BOOLEAN] /\ torn'[n] = (torn[n] \/ Amid(n))
  <2>1. pos' \in [Lines -> 0 .. BufSize] /\ pos'[n] = 0
    BY <1>1, <1>2, <1>5 DEF TypeOK
  <2>2. (torn[n] \/ Amid(n)) \in BOOLEAN
    BY DEF Amid
  <2>3. torn' \in [Lines -> BOOLEAN] /\ torn'[n] = (torn[n] \/ Amid(n))
    BY <1>1, <1>2, <2>2 DEF TypeOK
  <2> QED BY <2>1, <2>3
<1>9. TypeOK'
  <2>1. /\ todo' \subseteq Lines /\ event' \subseteq Lines
        /\ cur' \in todo' \cup {NoLine} /\ len' \in 0 .. BufSize
    BY <1>1, <1>2, <1>5 DEF TypeOK
  <2> QED BY <1>1, <1>2, <1>7, <1>8, <2>1 DEF TypeOK
<1>10. Done(n) \subseteq Done(n)'
  <2>1. Forwarded(n) \subseteq Forwarded(n)'
    <3>1. CASE sent'[n] = all
      <4> SUFFICES ASSUME NEW k \in DOMAIN sent[n] PROVE sent[n][k] \in Forwarded(n)'
        BY DEF Forwarded
      <4>1. k \in 1 .. old /\ k \in DOMAIN all /\ all[k] = sent[n][k]
        BY <1>4, <1>5
      <4> QED BY <1>2, <3>1, <4>1 DEF Forwarded
    <3>2. CASE sent'[n] = sent[n]
      BY <3>2 DEF Forwarded
    <3> QED BY <1>7, <3>1, <3>2
  <2> QED BY <1>7, <2>1 DEF Done
<1>11. (Amid(n)' <=> Amid(n)) /\ (Amid(n) => came[n] \in excused'[n])
  BY <1>1, <1>2, <1>7 DEF LineInv, AmidInv, Amid
<1>12. (HandInv(n) /\ RowInv(n) /\ AmidInv(n) /\ LateInv(n))'
  <2>1. HandInv(n)'
    <3>1. HandInv(n) /\ (n \in Wired => ~Amid(n))
      BY <1>1, SerialAssumption DEF LineInv, HandInv
    <3>2. n \in Wired => ~torn'[n]
      BY <1>8, <3>1 DEF HandInv
    <3>3. "pos" \in left'[n] => pos'[n] <= at'[n]
      BY <1>2, <1>5, <1>8
    <3> QED BY <1>2, <1>11, <3>1, <3>2, <3>3 DEF HandInv
  <2>2. RowInv(n)' /\ AmidInv(n)'
    BY <1>1, <1>2, <1>10, <1>11 DEF LineInv, RowInv, AmidInv
  <2>3. LateInv(n)'
    BY <1>1, <1>2 DEF LateInv
  <2> QED BY <2>1, <2>2, <2>3
<1>13. LossInv(n)'
  <2> SUFFICES ASSUME NEW b \in 1 .. came[n], b \notin Done(n)', b # came[n] \/ ~Amid(n)
               PROVE  FALSE
    BY <1>2, <1>11 DEF LossInv
  <2>1. PICK i \in 1 .. pos[n] : mem[n][i] = b
    BY <1>1, <1>10 DEF LineInv, LossInv, Buffered
  <2>2. i <= len /\ i \in 1 .. len
    BY <1>1, <1>5, <1>10, <2>1 DEF LineInv, LateInv
  <2>3. sent'[n] = all
    BY <1>7, <2>1 DEF Done, Buffered
  <2>4. b \in Forwarded(n)'
    BY <1>2, <1>4, <2>1, <2>2, <2>3 DEF Forwarded
  <2> QED BY <2>4 DEF Done
\* the places of the buffer that were sent
<1>14. ASSUME ~torn[n], ~Amid(n)
       PROVE  /\ \A i \in 1 .. len : mem[n][i] <= came[n]
              /\ \A i, j \in 1 .. len : i # j => mem[n][i] # mem[n][j]
              /\ \A k \in 1 .. old, i \in 1 .. len : sent[n][k] < mem[n][i]
              /\ \A k \in 1 .. old : sent[n][k] <= came[n]
              /\ \A i, j \in 1 .. old : i < j => sent[n][i] # sent[n][j]
  <2>1. \A i \in 1 .. len : i \in Live(n) /\ i \in Cells
    BY <1>5 DEF Live, Cells
  <2>2. \A i \in 1 .. len : mem[n][i] > 0
    BY <1>1, <1>14, <2>1 DEF LineInv, OrderInv
  <2>3. /\ \A k \in 1 .. old, i \in 1 .. len : sent[n][k] < mem[n][i]
        /\ \A k \in 1 .. old : sent[n][k] <= came[n]
        /\ \A i, j \in 1 .. old : i < j => sent[n][i] # sent[n][j]
    BY <1>1, <1>4, <1>14, <2>1 DEF LineInv, OrderInv
  <2>4. /\ \A i \in 1 .. len : mem[n][i] <= came[n]
        /\ \A i, j \in 1 .. len : i # j => mem[n][i] # mem[n][j]
    BY <1>1, <1>5, <2>1, <2>2 DEF LineInv, RowInv
  <2> QED BY <2>3, <2>4
<1>15. ASSUME ~torn'[n] PROVE OrderInv(n)'
  <2>1. ~torn[n] /\ ~Amid(n)
    BY <1>8, <1>15
  <2>2. Live(n)' = {} /\ ~Amid(n)'
    BY <1>1, <1>2, <1>8, <1>11, <2>1 DEF Live, Cells
  <2>3. CASE sent'[n] = sent[n]
    BY <1>1, <1>2, <2>1, <2>2, <2>3 DEF LineInv, OrderInv
  <2>4. CASE sent'[n] = all
    <3>1. \A j \in DOMAIN all : all[j] <= came[n]
      BY <1>4, <1>14, <2>1
    <3>2. ASSUME NEW i \in DOMAIN all, NEW j \in DOMAIN all, i < j
          PROVE  all[i] # all[j]
      <4>1. CASE j \in 1 .. old
        <5>1. i \in 1 .. old
          BY <1>4, <1>5, <3>2, <4>1
        <5> QED BY <1>4, <1>14, <2>1, <3>2, <4>1, <5>1
      <4>2. CASE j - old \in 1 .. len /\ all[j] = mem[n][j - old]
        <5>1. CASE i \in 1 .. old
          BY <1>4, <1>5, <1>14, <2>1, <4>2, <5>1, SMTT(20)
        <5>2. CASE i - old \in 1 .. len /\ all[i] = mem[n][i - old]
          <6>1. i - old # j - old
            BY <1>4, <1>5, <3>2
          <6> QED BY <1>14, <2>1, <4>2, <5>2, <6>1
        <5> QED BY <1>4, <5>1, <5>2
      <4> QED BY <1>4, <4>1, <4>2
    <3> QED BY <1>2, <2>2, <2>4, <3>1, <3>2 DEF OrderInv
  <2> QED BY <1>7, <2>3, <2>4
<1>16. ASSUME n \in Wired PROVE WiredInv(n)'
  <2>1. /\ \A i, j \in 1 .. pos[n] : i < j => mem[n][i] < mem[n][j]
        /\ len <= pos[n]
        /\ \A i, j \in 1 .. old : i < j => sent[n][i] < sent[n][j]
    BY <1>1, <1>4, <1>16 DEF LineInv, WiredInv
  <2>2. ~torn[n] /\ ~Amid(n)
    BY <1>1, <1>16, SerialAssumption DEF LineInv, HandInv
  <2>3. \A i \in 1 .. len : i \in 1 .. pos[n]
    BY <1>5, <2>1
  <2>4. ASSUME sent'[n] = all, NEW i \in DOMAIN all, NEW j \in DOMAIN all, i < j
        PROVE  all[i] < all[j]
    <3>1. CASE j \in 1 .. old
      <4>1. i \in 1 .. old
        BY <1>4, <1>5, <2>4, <3>1
      <4> QED BY <1>4, <2>1, <2>4, <3>1, <4>1
    <3>2. CASE j - old \in 1 .. len /\ all[j] = mem[n][j - old]
      <4>1. CASE i \in 1 .. old
        BY <1>4, <1>5, <1>14, <2>2, <3>2, <4>1
      <4>2. CASE i - old \in 1 .. len /\ all[i] = mem[n][i - old]
        <5>1. i - old < j - old
          BY <1>4, <1>5, <2>4
        <5> QED BY <2>1, <2>3, <3>2, <4>2, <5>1
      <4> QED BY <1>4, <4>1, <4>2
    <3> QED BY <1>4, <3>1, <3>2
  <2>5. \A i, j \in DOMAIN sent'[n] : i < j => sent'[n][i] < sent'[n][j]
    BY <1>4, <1>7, <2>1, <2>4
  <2> QED BY <1>1, <1>2, <1>8, <2>5 DEF WiredInv
<1>17. LineInv(n)'
  BY <1>12, <1>13, <1>15, <1>16 DEF LineInv, OrderInv, WiredInv
<1>18. \A m \in Lines : m # n => SameBuffer(m) /\ SameHistory(m) /\ SameTask(m)
  <2>1. \A m \in Lines : m # n => cur' # m
    BY <1>2, SerialAssumption
  <2> QED BY <1>1, <1>2, <1>7, <2>1 DEF TypeOK, SameBuffer, SameHistory, SameTask
<1> QED BY <1>1, <1>9, <1>17, <1>18, OneLine

\* Steps that move no byte: the timer and rt_event_recv.
LEMMA QuietKeepsIInv ==
    ASSUME IInv, UNCHANGED <<bufVars, radVars, cur, len, hisVars>>,
           event' \subseteq Lines, todo' \subseteq Lines, cur \in todo' \cup {NoLine},
           timer' \in [Lines -> BOOLEAN]
    PROVE  IInv'
<1>1. TypeOK'
  BY DEF IInv, TypeOK, bufVars, radVars, hisVars
<1>2. \A m \in Lines : SameBuffer(m) /\ SameHistory(m) /\ SameTask(m)
  BY DEF bufVars, radVars, hisVars, SameBuffer, SameHistory, SameTask
<1> QED BY <1>1, <1>2, LineStays DEF IInv

-------------------------------------------------------------------------------
\* Every step of the interrupt, the radio thread, the timers and the task.
LEMMA NextIInv == IInv /\ [Next]_vars => IInv'
<1> SUFFICES ASSUME IInv, [Next]_vars PROVE IInv'
  OBVIOUS
<1>1. ASSUME NEW n \in Lines, WiredByte(n) PROVE IInv'
  BY <1>1, WiredByteKeepsIInv
<1>2. ASSUME NEW n \in Lines, RadioStep(n) PROVE IInv'
  BY <1>2, RadioLoadKeepsIInv, RadioFullKeepsIInv, RadioStoreKeepsIInv DEF RadioStep
<1>3. ASSUME NEW n \in Lines, RcvClear(n) PROVE IInv'
  BY <1>3, RcvClearKeepsIInv
<1>4. ASSUME NEW n \in Lines, Timeout(n) PROVE IInv'
  <2>1. event' \subseteq Lines /\ timer' \in [Lines -> BOOLEAN]
    BY <1>4 DEF Timeout, IInv, TypeOK
  <2> QED BY <1>4, <2>1, QuietKeepsIInv DEF Timeout, IInv, TypeOK, taskVars
<1>5. CASE Receive
  BY <1>5, QuietKeepsIInv DEF Receive, IInv, TypeOK
<1>6. CASE SendBuffer
  <2>1. todo \subseteq Lines
    BY DEF IInv, TypeOK
  <2>2. PICK n \in todo : cur' = n
    BY <1>6, <2>1, LowestLine DEF SendBuffer
  <2> QED BY <1>6, <2>2, SendBufferKeepsIInv
<1>7. CASE Sent
  <2>1. PICK n \in Lines : cur = n
    BY <1>7 DEF Sent, IInv, TypeOK
  <2> QED BY <1>7, <2>1, SentKeepsIInv
<1>8. CASE UNCHANGED vars
  BY <1>8, QuietKeepsIInv DEF vars, IInv, TypeOK, taskVars
<1> QED BY <1>1, <1>2, <1>3, <1>4, <1>5, <1>6, <1>7, <1>8 DEF Next, TaskStep

LEMMA SpecIInv == Spec => []IInv
BY InitIInv, NextIInv, PTL DEF Spec

\* The position never leaves the buffer (the bound in xfer_dst_serial_rcv_byte),
\* not even when the radio thread stores a stale one.
THEOREM TypeCorrect == Spec => []TypeOK
BY SpecIInv, PTL DEF IInv

\* The bytes of a wired line are forwarded in order and none twice; so are those
\* of a radio line unless a send began or ended while one was being stored.
THEOREM BytesInOrderOnce == Spec => []InOrderOnce
<1>1. IInv => InOrderOnce
  BY DEF IInv, LineInv, OrderInv, WiredInv, InOrderOnce
<1> QED BY SpecIInv, <1>1, PTL

\* A byte is lost for one of the four reasons only: the buffer was full, its
\* line was being sent when it came or was stored, the link was down, or the
\* radio cleared the buffer.
THEOREM BytesLostForAReason == Spec => []NothingElseLost
<1>1. ASSUME IInv, NEW n \in Lines, NEW b \in 1 .. came[n], b \in Done(n)
      PROVE  b \in excused[n] \/ \E i \in DOMAIN sent[n] : sent[n][i] = b
  <2>1. came[n] \in Nat
    BY <1>1, LineTypes DEF IInv
  <2> QED BY <1>1, <2>1 DEF Done, Forwarded
<1>2. IInv => NothingElseLost
  BY <1>1 DEF IInv, LineInv, LossInv, NothingElseLost
<1> QED BY SpecIInv, <1>2, PTL
===============================================================================
