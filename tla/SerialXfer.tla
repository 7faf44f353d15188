------------------------------ MODULE SerialXfer ------------------------------
(***************************************************************************)
(* The way from a serial line to the network (board/xfer_dst_serial.c).    *)
(* What a line receives is collected byte by byte, by the interrupt of a   *)
(* wired line or by the thread of the radio module, in one buffer per      *)
(* line; 50 ms after the last byte a timer posts an event, and one task    *)
(* forwards the buffers of all lines to their links (or to the radio) and  *)
(* empties them.  Nothing protects buffer and position: an interrupt puts  *)
(* a byte in one step, but the thread of the radio (zgb_time) has the      *)
(* priority of the task, and their time slices end anywhere.               *)
(*                                                                         *)
(* The bytes of a line are the numbers of their arrival.  The link is      *)
(* external: it takes what it is given, or it is down (see NetLink).       *)
(*                                                                         *)
(* Bounds: MaxByte bytes on every line.                                    *)
(***************************************************************************)
EXTENDS Naturals, Sequences, FiniteSets

CONSTANTS
    Wired,      \* the lines read by their interrupt, numbers of UARTs
    Radio,      \* the line of the radio module
    NoLine,     \* the task is between two lines
    BufSize,    \* XFER_BUF_SIZE
    MaxByte     \* bound, see above

Lines == Wired \cup Radio

ASSUME SerialAssumption ==
    /\ Lines \subseteq Nat /\ Wired \cap Radio = {} /\ NoLine \notin Lines
    /\ BufSize \in Nat \ {0} /\ MaxByte \in Nat

VARIABLES
    mem,        \* mem[n]: dst_rcvbuffer[n]
    pos,        \* pos[n]: dst_rcvbuffer_pos[n]
    timer,      \* timer[n]: the timer of the line runs
    midframe,   \* midframe[n]: the radio thread is handing over a frame
    at,         \* at[n]: the position it has loaded for its byte ...
    left,       \* left[n]: ... and what of the byte it has not yet stored
    event,      \* the lines whose bit in xfer_dst_serial_event is set
    todo,       \* recved_event: the lines the task has not done yet
    cur,        \* the line whose buffer is being sent
    len,        \* the length the send was called with
    came,       \* came[n]: how many bytes line n has received (history)
    sent,       \* sent[n]: the bytes its link was given (history)
    torn,       \* torn[n]: a send began or ended amid those stores (history)
    excused     \* excused[n]: the bytes there was a reason to lose (history)

bufVars  == <<mem, pos>>
radVars  == <<midframe, at, left>>
taskVars == <<todo, cur, len>>
hisVars  == <<came, sent, torn, excused>>
vars == <<bufVars, timer, radVars, event, taskVars, hisVars>>

Stores == {"byte", "pos"}

TypeOK ==
    /\ mem \in [Lines -> [1 .. BufSize -> Nat]]
    /\ pos \in [Lines -> 0 .. BufSize]
    /\ timer \in [Lines -> BOOLEAN]
    /\ midframe \in [Lines -> BOOLEAN]
    /\ at \in [Lines -> 0 .. BufSize - 1]
    /\ left \in [Lines -> SUBSET Stores]
    /\ event \subseteq Lines /\ todo \subseteq Lines
    /\ cur \in todo \cup {NoLine}
    /\ len \in 0 .. BufSize
    /\ came \in [Lines -> 0 .. MaxByte]
    /\ sent \in [Lines -> Seq(Nat)]
    /\ torn \in [Lines -> BOOLEAN]
    /\ excused \in [Lines -> SUBSET Nat]

\* xfer_dst_serial_open has run for every line.
Init ==
    /\ mem = [n \in Lines |-> [i \in 1 .. BufSize |-> 0]]
    /\ pos = [n \in Lines |-> 0]
    /\ timer = [n \in Lines |-> FALSE]
    /\ midframe = [n \in Lines |-> FALSE]
    /\ at = [n \in Lines |-> 0] /\ left = [n \in Lines |-> {}]
    /\ event = {} /\ todo = {} /\ cur = NoLine /\ len = 0
    /\ came = [n \in Lines |-> 0]
    /\ sent = [n \in Lines |-> <<>>]
    /\ torn = [n \in Lines |-> FALSE]
    /\ excused = [n \in Lines |-> {}]

-------------------------------------------------------------------------------
Buffered(n) == {mem[n][i] : i \in 1 .. pos[n]}
Excuse(n, bytes) == excused' = [excused EXCEPT ![n] = @ \cup bytes]

\* Variant of WiredByte: a byte there is no room for is counted.
WiredByteCounted(n) ==
    LET b == came[n] + 1
        room == pos[n] < BufSize
    IN  /\ n \in Wired /\ b <= MaxByte
        /\ came' = [came EXCEPT ![n] = b]
        /\ IF room THEN mem' = [mem EXCEPT ![n][pos[n] + 1] = b] ELSE UNCHANGED mem
        /\ pos' = [pos EXCEPT ![n] = @ + 1]
        /\ Excuse(n, IF ~room \/ cur = n THEN {b} ELSE {})
        /\ timer' = [timer EXCEPT ![n] = TRUE]
        /\ UNCHANGED <<radVars, event, taskVars, sent, torn>>

\* xfer_dst_serial_rx_handle and xfer_dst_serial_rcv_byte, in the receive
\* interrupt.  A byte may be lost when the buffer is full, and when it comes
\* while the buffer of its line is being sent.
WiredByte(n) ==
    LET b == came[n] + 1
        room == pos[n] < BufSize
    IN  /\ n \in Wired /\ b <= MaxByte
        /\ came' = [came EXCEPT ![n] = b]
        /\ IF room THEN /\ mem' = [mem EXCEPT ![n][pos[n] + 1] = b]
                        /\ pos' = [pos EXCEPT ![n] = @ + 1]
                   ELSE UNCHANGED bufVars
        /\ Excuse(n, IF ~room \/ cur = n THEN {b} ELSE {})
        /\ timer' = [timer EXCEPT ![n] = TRUE]
        /\ UNCHANGED <<radVars, event, taskVars, sent, torn>>

\* xfer_dst_serial_rcv_byte in the radio thread: it tests and loads the position,
\* and stores the next position and the byte, in the order the compiler likes.
\* Only the last byte of a frame starts the timer.
RadioLoad(n) ==
    LET b == came[n] + 1
    IN  /\ n \in Radio /\ left[n] = {} /\ b <= MaxByte /\ pos[n] < BufSize
        /\ came' = [came EXCEPT ![n] = b]
        /\ at' = [at EXCEPT ![n] = pos[n]]
        /\ left' = [left EXCEPT ![n] = Stores]
        /\ midframe' = [midframe EXCEPT ![n] = TRUE]
        /\ Excuse(n, IF cur = n THEN {b} ELSE {})
        /\ UNCHANGED <<bufVars, timer, event, taskVars, sent, torn>>

\* The byte was the last of its frame, or not.
Handed(n, last) ==
    /\ came'[n] = MaxByte => last
    /\ timer' = [timer EXCEPT ![n] = @ \/ last]
    /\ midframe' = [midframe EXCEPT ![n] = ~last]

RadioStore(n, what, last) ==
    /\ what \in left[n]
    /\ left' = [left EXCEPT ![n] = @ \ {what}]
    /\ UNCHANGED <<at, event, taskVars, hisVars>>
    /\ IF what = "byte" THEN mem' = [mem EXCEPT ![n][at[n] + 1] = came[n]] /\ UNCHANGED pos
                        ELSE pos' = [pos EXCEPT ![n] = at[n] + 1] /\ UNCHANGED mem
    /\ IF left[n] = {what} THEN Handed(n, last) ELSE UNCHANGED <<timer, midframe>>

\* There is no room for the byte.
RadioFull(n, last) ==
    LET b == came[n] + 1
    IN  /\ n \in Radio /\ left[n] = {} /\ b <= MaxByte /\ pos[n] >= BufSize
        /\ came' = [came EXCEPT ![n] = b]
        /\ Excuse(n, {b})
        /\ UNCHANGED <<bufVars, at, left, event, taskVars, sent, torn>>
        /\ Handed(n, last)

RadioStep(n) == \/ RadioLoad(n)
                \/ \E last \in BOOLEAN : \/ RadioFull(n, last)
                                        \/ \E what \in Stores : RadioStore(n, what, last)

\* xfer_dst_serial_rcv_clear: the radio got an answer or a frame of its own.
RcvClear(n) ==
    /\ n \in Radio /\ ~midframe[n]
    /\ pos' = [pos EXCEPT ![n] = 0]
    /\ Excuse(n, Buffered(n))
    /\ UNCHANGED <<mem, timer, radVars, event, taskVars, came, sent, torn>>

\* xfer_dst_serial_timeout_handle.
Timeout(n) ==
    /\ timer[n]
    /\ timer' = [timer EXCEPT ![n] = FALSE]
    /\ event' = event \cup {n}
    /\ UNCHANGED <<bufVars, radVars, taskVars, hisVars>>

-------------------------------------------------------------------------------
(* The task, xfer_dst_serial_task.                                          *)

\* Variant of Receive: the event is cleared, but only one line is looked at.
ReceiveOne ==
    /\ todo = {} /\ event # {}
    /\ \E n \in event : todo' = {n}
    /\ event' = {}
    /\ UNCHANGED <<bufVars, timer, radVars, cur, len, hisVars>>

\* rt_event_recv, with all bits cleared.
Receive ==
    /\ todo = {} /\ event # {}
    /\ todo' = event /\ event' = {}
    /\ UNCHANGED <<bufVars, timer, radVars, cur, len, hisVars>>

\* Amid the stores of the radio thread: the byte it stores may be lost.
Amid(n) == left[n] # {}
Tear(n) == torn' = [torn EXCEPT ![n] = @ \/ Amid(n)]

\* Variant of SendBuffer: the position is reset before the buffer is sent.
SendBufferEmptied ==
    /\ cur = NoLine /\ todo # {}
    /\ cur' = CHOOSE n \in todo : \A m \in todo : n <= m
    /\ len' = pos[cur']
    /\ pos' = [pos EXCEPT ![cur'] = 0]
    /\ Tear(cur') /\ Excuse(cur', IF Amid(cur') THEN {came[cur']} ELSE {})
    /\ UNCHANGED <<mem, timer, radVars, event, todo, came, sent>>

\* The send of the next line is called, with the buffer and its length.
SendBuffer ==
    /\ cur = NoLine /\ todo # {}
    /\ cur' = CHOOSE n \in todo : \A m \in todo : n <= m
    /\ len' = pos[cur']
    /\ Tear(cur') /\ Excuse(cur', IF Amid(cur') THEN {came[cur']} ELSE {})
    /\ UNCHANGED <<bufVars, timer, radVars, event, todo, came, sent>>

\* Variant of Sent: the position is left where it is.
SentKept ==
    /\ cur # NoLine
    /\ \/ sent' = [sent EXCEPT ![cur] = @ \o SubSeq(mem[cur], 1, len)]
          /\ UNCHANGED excused
       \/ Excuse(cur, Buffered(cur)) /\ UNCHANGED sent
    /\ todo' = todo \ {cur}
    /\ cur' = NoLine /\ len' = 0
    /\ Tear(cur)
    /\ UNCHANGED <<bufVars, timer, radVars, event, came>>

\* The send returns: the link has taken what the buffer holds by now, or it is
\* down.  Then the buffer is emptied.
Sent ==
    /\ cur # NoLine
    /\ \/ sent' = [sent EXCEPT ![cur] = @ \o SubSeq(mem[cur], 1, len)]
          /\ UNCHANGED excused
       \/ Excuse(cur, Buffered(cur)) /\ UNCHANGED sent
    /\ pos' = [pos EXCEPT ![cur] = 0]
    /\ todo' = todo \ {cur}
    /\ cur' = NoLine /\ len' = 0
    /\ Tear(cur)
    /\ UNCHANGED <<mem, timer, radVars, event, came>>

-------------------------------------------------------------------------------
TaskStep == Receive \/ SendBuffer \/ Sent

Next == \/ \E n \in Lines : WiredByte(n) \/ RadioStep(n) \/ RcvClear(n) \/ Timeout(n)
        \/ TaskStep

Spec == Init /\ [][Next]_vars

\* The task runs, timers run out, and a frame that is being handed over ends.
Fairness == /\ WF_vars(TaskStep)
            /\ \A n \in Lines : /\ WF_vars(Timeout(n))
                                /\ WF_vars(midframe[n] /\ RadioStep(n))

FairSpec == Spec /\ Fairness

-------------------------------------------------------------------------------
\* However bytes, events and sends interleave, a wired line's bytes are forwarded
\* in their order and no byte is forwarded twice, but of a radio line on which a
\* send began or ended while the radio thread was storing a byte: the position it
\* stores is then older than the reset, or its byte newer than the position.
InOrderOnce == \A n \in Lines : \A i, j \in DOMAIN sent[n] : i < j =>
                  /\ torn[n] \/ sent[n][i] # sent[n][j]
                  /\ n \in Wired => sent[n][i] < sent[n][j]

\* A byte gets lost only if the buffer was full or its line was being sent when
\* it came or was stored, if the link was down, or if the radio module cleared
\* the buffer: every other one is in the buffer or has been forwarded.
NothingElseLost == \A n \in Lines : \A b \in 1 .. came[n] :
    \/ b \in Buffered(n) \/ (Amid(n) /\ b = came[n])
    \/ b \in excused[n]
    \/ \E i \in DOMAIN sent[n] : sent[n][i] = b

\* What is in a buffer is forwarded, or dropped for a reason, some time: no byte
\* stays there for ever, and by NothingElseLost none leaves it in another way.
Settled(n) == \A b \in Buffered(n) \ {0} :
                  b \in excused[n] \/ \E i \in DOMAIN sent[n] : sent[n][i] = b
Drained == \A n \in Lines : []<>Settled(n)
===============================================================================
