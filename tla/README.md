# RTU gateway: TLA+ models and proofs

The code under verification is the firmware of a data gateway (RTU) on a K64
controller, `src/software/RTU_Terminal/` (written `R/` below). It reads meters
and sensors over serial lines, Zigbee, Ethernet and GPRS, mostly by Modbus, and
reports to servers over Ethernet or a GPRS modem. It runs on RT-Thread: threads
with fixed priorities (equal ones in time slices), mutexes, semaphores, event
sets, message queues and software timers. `R/RTU3` is the product that is
modelled; `R/RTU1` and `R/RTU2` are board variants of it.

The state that is hard to get right is shared between the threads: the
descriptors of the links, the one modem, the table of the watchdog, the one
request of a Modbus port, the queue between a receiver and its worker, the
buffer between an interrupt and its task, the transaction of the storage. These
parts are modelled.

## 1. Inventory

| Part | Source | State it keeps | Operations | What is hard | What makes it correct |
|---|---|---|---|---|---|
| ENET links | `board/net_helper.c`, `board/xfer_net.c` | `sock_fd`, `tcp_fd`, `disconnect`, a mutex and a frame buffer per link | link task as TCP server/client or UDP socket; `net_send`, `net_waitconnect`, `net_disconnect` | users read `tcp_fd` before they take the mutex; descriptors are few and reused by all links; a request to drop may come in any phase | no stale, crossed or lost descriptor; a write is never cut off or redirected; a request drops one connection and does so in the end; nobody waits for ever |
| GPRS links, modem | `board/net_helper.c`, `RTU3/drivers/gprs/gprs_helper.c` | the modem's socket list and state table, `tcp_fd`, flags of the parser | create, poll, close, send, power cycle; parser thread | socket numbers read before the mutex; table read while it is refilled; late answers; one link's power cycle hits all | a socket belongs to one link; none is lost; data goes to its owner; losses are noticed; the mutex always comes back |
| Thread watchdog | `threaddog/threaddog.c`, `applications/application.c` | a static table of 50 entries, the tick | register, feed, suspend, resume, exit, unregister; check every 50 ms | no lock; signed tick that wraps after 2^31 ms, and a signed difference that overflows | a reset only if a thread is stuck, and always then (but for a feed just after the wrap, whose age overflows) |
| Modbus master | `rt-thread/components/net/freemodbus` | permit, send buffer, event bits, respond timer, result bits per port | request functions, poll task, timer, receive | answers race the timer; two events at once; results that nobody waited for | one request at a time; the port never jams; a request gets its own result |
| CC BJDC session | `sdccp/cc_bjdc.c`, `sdccp/sdccp_net.c` | place in the handshake, queue of 3 messages, receive buffer | verify, report, heartbeat, restart | stale answers in the queue, reconnection without handshake, a receiver that loses the heads of frames | a verdict is of this handshake; reports follow a pass; the handshake comes to its end |
| HJ/T 212 session | `sdccp/hjt212.c` | receive buffer, cursor of the grouped reports, averages | login, heartbeat, three kinds of reports | a cursor that does not move; loss of synchronisation | each report loop ends and reports every due item |
| Serial transfer | `board/xfer_dst_serial.c` | buffer and position per line, one-shot timer, event bits | a byte (interrupt or radio thread), clear, timer, forwarding task | bytes that arrive while a frame is being sent; a radio thread that is preempted while it stores a byte | a wired line's bytes are forwarded once and in order, and one is lost only for a known reason |
| DL/T 645 meters | `sdccp/dlt645.c`, `sdccp/sdccp_serial.c` | one request at a time | read a meter | – (request and answer in one thread) | – |
| Modbus slave, RTU/ASCII lines | `freemodbus/modbus/mb.c`, `rtu/`, `port/` | receiver states, event bits | ISR and timer of the line, poll | the same event bits as the master | a frame is answered once |
| Zigbee | `drivers/zigbee/zigbee.c`, `board/zgb_std.c` | command mode and its hold count, two queues of one element, cached destination | commands under a recursive mutex, parser | a cached address used after the mutex is gone | data goes to the node it was addressed to |
| Variables | `drivers/varmanage/varmanage.c`, `drivers/in_out` | tables of variables, averages | refresh task, readers, averages | tables read under a disabled scheduler only in places | – |
| Storage | `board/storage.c` | queue of two items, SQLite database, open transaction and its flag `s_transaction`, a mutex | add a row, edit the configuration, drop the log table, commit by queue, by time and by `bStorageDoCommit` | a commit without the mutex, statements that fail, power failure inside a transaction, a queue that drops what does not fit | an accepted row is stored once and in order, or lost by a fault or the user's deletion only; a full table keeps its newest rows, one more than its limit |
| Boot, configuration | `RTU3/applications`, `board/cfg` | configuration tables | start-up, factory reset | – (sequential) | – |
| Update, registration, web, UDP, Lua, drivers, libraries | see `PROJECT.json` | – | – | – | – |

Interaction: the link tasks hand frames to the Modbus poll tasks by an event,
to the sessions by a call (`CC_BJDC_PutBytes`, `HJT212_PutBytes`) and to the
serial lines (`__xfer_rcv_frame`). The sessions and poll tasks send through
`net_send`. Every thread feeds the watchdog, and the wdog thread resets the
device. `PROJECT.json` lists all parts and all hazards, each at its line and
with the properties that guard it or the reason why none does yet.

## 2. Modules

| Module | Models | Kind |
|---|---|---|
| `LinkSpec` | what the users of a link are promised | abstract specification |
| `NetLink` | the ENET links and their users | detailed; implements `LinkSpec` |
| `GprsSocket` | the GPRS links over one modem | detailed |
| `ThreadDog` | the thread watchdog | detailed |
| `MbMaster` | one Modbus TCP master port | detailed |
| `SerialXfer` | serial lines, their buffers and the forwarding task | detailed |
| `StoreSpec` | what the storage promises to those who give it rows | abstract specification |
| `Storage` | the storage thread, its users, SQLite's transaction | detailed; implements `StoreSpec` |
| `SdccpLink` | link, receiver and queue under an upward protocol | shared by the next two |
| `BjdcSession`, `Hjt212` | the workers of the two protocols | over `SdccpLink` |
| `Sdccp` | a link with either worker, by its `proto_type` | composition of the three |
| `MC...` | instances of these for TLC | model checking |
| `NetLink_proofs`, `GprsSocket_proofs`, `ThreadDog_proofs`, `MbMaster_proofs`, `SerialXfer_proofs`, `Storage_proofs`, `Sdccp_proofs` | theorems about the module named | proofs |

In every module a step is what a thread does from one blocking call (or one
point of preemption that matters) to the next, and a `pc`-like variable says
where each thread is. Every action names the code it stands for; the operators
called "Variant of X" are slips one could make in X, and are used to test that
the properties can fail.

### NetLink
`task[l]` is the place of the link task, `user[u]` the place of a thread that
uses links. `Start`, `Socket`, `SetupFail`, `Listen`, `Connect` are the head of
the four `prvRunAsENet...` functions, `SelectTimeout`, `SelectError`,
`SelectRead`, `Accept`, `Read` their loop, `End`, `CloseConn`, `CloseSock`,
`Delay` the code after `__END`. `SendCheck`, `SendWrite`, `SendDone` are
`net_send`: the test before the mutex, the write with the descriptor read under
it, the release. lwIP appears as the table `kern` of descriptors. A peer may
send, hang up, knock or stop reading. UDP and TCP differ by what may fail.

Left out: `net_close` on a running link and the flag `shutdown`, which no code
path reaches after boot; the frame buffer; the state page; `ws_net_try_send`,
which writes as `net_send` does; links that are not enabled.

### GprsSocket
The task of a link (`prvRunAsGPRSClient`) is `Start` to `NetInit`: it asks for a
socket (`Create` to `ConnectTimeout` are `__nGPRS_SocketCreate`), polls its
state (`Query` to `Check`), closes it, and after long failure takes the modem
through a power cycle (`GiveUp` to `NetInit`). `Drop` is `net_disconnect`,
`Send` to `SendDone` is `net_send`. The parser thread takes what the modem has
sent in order (`out`), without the mutex; refilling the state table is two steps
(`StatClear`, `StatFill`), because the tasks read the table meanwhile.
The modem is external: it lists the connected sockets when it is queried, does
not open a socket that is open, and its commands may stay unanswered.

The ownership of a socket is not unconditional in this code, and the module says
exactly when it holds. `mishaps` records what has gone wrong: `late` (an answer
came after its command had been given up), `torn` (the table was read while it
was refilled), `nomem` (`calloc` of the buffer failed, the number is returned
all the same), `cycle` (a power cycle released all sockets), `drop`
(`net_disconnect` on another thread). Every safety property lists the mishaps
under which it does not hold. `NoSocketLost` needs none of them.
That each listed mishap is really needed was established by leaving it out and
looking for a violation, some with three faults on one socket.

### ThreadDog
`Scan`, `Fill`, `Publish` are `threaddog_register` (the entry is found, filled
and set in use in different steps), `Feed`, `Suspend`, `Resume`, `Exit`, `Stop`
the calls of the threads, `Check` one round of the wdog thread, `Tick` the
interrupt. The tick has the values `-Half .. Half-1` and wraps as the signed
32-bit `long` does, and so does the difference of two of them (`Minus`): in the
half in which the tick is not negative the age of a feed from just after it
became negative overflows and looks negative (`threaddog.c:107`).
`HangDetected` is therefore about threads whose age fits into a `long`, and
`HangResets` excepts those that fed last in the `Over + Period` ticks after the
wrap to negative (`FedAfterWrap`), which may never be found. `Hang` makes a
running thread stuck. `raced` records that two registrations have overlapped:
the function has no lock, and nothing is promised afterwards. In the code boot
registers one thread after the other; the sessions are the exception.

### MbMaster
A request takes the permit (`Take`), fills the send buffer and posts
`FRAME_SENT` (`Fill`, `PostSent`), waits for its result (`Recv`, `WaitTimeout`)
and returns. The poll task is `Get`, `Receive`, `Execute`, `Send`, `Arm`,
`ErrorProcess`, `Release`. Event sets are modelled with RT-Thread's semantics:
all pending bits are taken at once, and two bits match no case of the `switch`,
so the event stays uninitialised (`Garbage` is what it may then look like). The
link hands over what one read returned: the whole answer (`Arrive`), or two
parts of it (`ArrivePart`), each told as a frame of its own and written over
the start of the buffer. `clean` ends with the first thing that comes at a
wrong moment, a part of an answer, a late answer, a failed or blocked send
among them; `OnePermit` and `OwnAnswer` hold until then, `PermitKept` for ever.
One port; the receivers of the serial lines and the frame buffer of the link
are not in the module.

### SerialXfer
`WiredByte` is the receive interrupt, one step. The radio thread (`zgb_time`)
hands over a frame byte by byte, and has the priority of the task with time
slices, so it may be preempted between its loads and stores: `RadioLoad` tests
and loads the position, `RadioStore` stores the byte or the next position, in
either order, as the compiler may choose, `RadioFull` is a byte there is no
room for. `RcvClear` is the same thread when the frame was its own. All run
between any two steps of the task. `Timeout` is the one-shot timer of a line,
`Receive`, `SendBuffer` and `Sent` the task: it takes all event bits at once,
and for one line after the other calls the send with the length of that moment,
and afterwards sets the position to 0. What came in between is gone: `excused`
records every byte there was such a reason to lose, and the properties say that
there is no other. `torn` records that a send of a radio line began or ended
while a byte was being stored: the position that is stored then undoes the
reset, and the buffer is sent again. `InOrderOnce` excepts these lines, and
says of all others that no byte is sent twice, of wired ones that the order is
kept. `mem` keeps what the buffer holds after a clear, as the send goes on
reading it.
Left out: `xfer_dst_serial_send` (it writes to the line and keeps no state) and
`xfer_dst_serial_close`, which nobody calls.

### Storage
The storage thread is `OpenDb`, `Receive`, `Insert`, `Relimit` and `Check`; the
threads with rows are `Add` (wait for the mutex), `Waited` (give it back) and
`Send` (`rt_mq_send`, which drops the row if the queue is full); the web thread
edits the table of variables (`Edit`, `Edited`), commits a restored
configuration itself (`DoCommit`), and drops the table of the log
(`DelLogData`, `Drop`) and creates it again (`Create`). A commit is three
steps, `EndTx`, `BeginTx`, `SetTx`, because three callers run it: the storage
thread every ten seconds and the web thread under the mutex, and the storage
thread for an order in the queue without it (`storage.c:418`). The last two
steps are also the first begin, which has no mutex either, after `OpenDb` has
let the other threads in (`storage.c:384`). `tbl` is what the connection sees,
`disk` what a power failure leaves, `open` what was inserted since, `gone` and
`gonedisk` that there is no table. `Crash` is a power failure, a reset by the
watchdog or `__doSystemReset`, which runs in the tick interrupt and takes the
database away from whoever has the mutex.

`StoreSpec` knows accepted rows, the disk, deletions and faults only. Its steps
never duplicate or reorder rows: `Accept` appends one, `Store(n)` takes the oldest
`n` to the disk, `Delete` forgets the disk and the oldest pending ones, `Fail`
loses the rows between two places, and only while there is no table after a
deletion are rows lost one at a time without a fault (`Refuse`, until `Mend`). The
refinement takes the queue, the row in hand and the rows of the open transaction
together for its `pending`, `dropped`, `gone` and `drops` for its `erased`,
`broken` and `deletes`.

Four behaviours are worth knowing. Without any fault, a commit by the queue, or
the first begin, and `bStorageDoCommit` at the same time can leave SQLite in a
transaction that `s_transaction` does not know of (`Stuck`): nothing is
committed any more until the next boot. A deletion of the log whose `CREATE
TABLE` fails leaves no table, and every row of the log is refused until the
next boot or the next deletion. A full table steadily holds one row more than
its limit, since `__relimit_table` cuts only when `maxid - minid` is above it:
1001 rows of the log where `storage.c:387` says 1000. `TableBounded` is that
bound, one more row while a row is in but the cut is not yet, and one for each
fault. And an order to commit that finds the queue full is dropped, so an edit
waits for the next row: `EditsSettle` speaks of orders in the queue.
Left out: queries, which change nothing. One table stands for all tables of
rows, and `cfg` counts the edits of the variables instead of keeping them.

### SdccpLink, BjdcSession, Hjt212, Sdccp
`SdccpLink` is a client link as `NetLink` gives it (`Attempt`, `Connect`, `Fail`,
`Lose`, `Drop`), the messages on their way, the receiver (`Deliver`) and the
queue from it to the worker. The receiver is never reset: a frame that is cut by
the end of a connection swallows the next one (`cut`), and in the BJDC receiver
a mismatch in the head can leave it with a position that no head fits any more
(`deaf`). `Push` is a message nobody asked for.

`BjdcSession` is `cc_bjdc_work_task`: `VerifyReq`, `TakeSeq`/`NoSeq`,
`TakeResult`/`NoResult`, `Delay`, then `Report` for ever, with `TwentySeconds`
for the heartbeat and `Restart` for the order to restart. `Hjt212` is
`hjt212_work_task`: `Login`, with `verify_flag` a second one (`LoginAgain`), so
that two answers are under way for one wait, `Verified`/`NotVerified`,
`Delayed`, then the loop `UpdateAvg`, `Wait`, `Heartbeat`, `ReportCall`,
`ReportsDone`. `NextNode` is the cursor the report functions keep between two
calls: `NULL` at the end of the list, the last variable reported when a
variable of another device or a full telegram ends the call, and otherwise what
it was. `Sdccp` runs one of the two workers over the link, by its
configuration.

The worker's waits have time limits of 2 to 10 seconds, and the module has no
clock: an answer that is under way is in time unless a mishap says otherwise.
Three mishaps are not faults of the outside. A BJDC worker starts over 5 seconds
after it dropped the link, connected or not, while the link needs up to 4
seconds to drop and more to come up again (`cc_bjdc.c:398`); with a connection
slower than that it drops each new one in its turn. Every such round is counted
as a mishap, so `HandshakeSettles` does not promise an end to them. A report's
averages are reset although its telegram could not be sent (`hjt212.c:866`):
`DataReported` says that an average that is due does not stay so for ever without
getting into a telegram, not that it arrives.
And `Aligned` is not restored once it is lost: an answer too many stays in the
queue and is taken for the next one, in every attempt.
Left out: the bytes of a frame, XML and digests, the values of the averages, the
answers of the receivers to requests of the server.

## 3. Runs

| Run | Instance | Shows |
|---|---|---|
| `netlink` | TCP server and TCP client link, the client's worker and a user that sends on both, 2 descriptors | `TypeOK`, `LiveFds`, `NoLeak`, `WriterSafe`, `KillPerRequest`, `DisconnectHonoured`, `SendReturns`, and that `NetLink` implements `LinkSpec` |
| `gprs_safety` | two links, two sockets, a worker, a sender, one fault | `TypeOK`, `SocketIsOwn`, `NoSocketLost`, `NoLiveClose`, `DataToOwner` |
| `gprs_live` | two links, two sockets, timeouts but no faults | `LossNoticed`, `ModemShared` |
| `gprs_stale` | one socket, two links, a sender | violation of `ClosedReturnsZero` |
| `threaddog` | two threads, one entry, ten ticks | `TypeOK`, `EntriesExclusive`, `OnlyHangsReset`, `HangDetected`, `HangResets` |
| `threaddog_wrap` | two threads, two entries, 14 ticks | violation of `HangDetectedAcrossWrap` |
| `mbmaster` | two threads, two requests, one answer read in two parts | `TypeOK`, `PermitKept`, `OnePermit`, `OwnAnswer`, `RequestReturns` |
| `mbmaster_late` | one thread, three requests | violation of `ResultIsOwn` |
| `serial` | a wired line and the radio line with its thread preempted between stores, buffers of two bytes, three bytes a line | `TypeOK`, `InOrderOnce`, `NothingElseLost`, `Drained` |
| `storage` | a thread with three rows, the web thread with one edit or one deletion of the log, a table full after two rows, one fault | `TypeOK`, `TableBounded`, `RowsSettle`, `EditsSettle`, and that `Storage` implements `StoreSpec` |
| `session` | either protocol, two mishaps, two variables of one device in two kinds of report | `TypeOK`, `InStep`, `ReportsAfterPass`, `HandshakeSettles`, `HeartbeatGoesOut`, `DataReported` |
| `hjt212_heartbeat` | three variables of two devices, no mishap | violation of `HeartbeatGoesOut` |

### Bounds
- `netlink`: two links are enough for a descriptor to pass from one to the
  other. A server needs two descriptors and a client one, so of two descriptors
  one link is always short while the other is up, and each is reused at every
  reconnection. A second connection accepted while one is open, with the client
  up too, needs more of them: for the safety properties and the refinement the
  theorems of section 4 cover any number. `MaxReq`: one call of `net_disconnect`
  covers a request in every phase of a round and in the next.
- `gprs_*`: `MaxFault` and `MaxOut` bound what can go wrong and what the modem
  has said and the parser not read. The properties were also checked outside the
  runs on one socket with three and four faults, and with two reports waiting.
- `threaddog`: one entry makes two threads compete for it and one of them stay
  without. `Half` has to be larger than twice the time limit and the period of
  the wdog thread for the tick to behave as the real one does (assumed in the
  module).
- `mbmaster`: the result of the first request can reach the second, and one
  answer may come in two parts (`MaxPart`). `Garbage` is what an uninitialised
  event looks like: an execution or an error. With a `FRAME_SENT` among it a
  request may be sent again and again and the permits grow without bound; the
  theorems hold for every `Garbage` and every number of parts.
  `mbmaster_late` has one thread and three requests.
- `serial`: two bytes fill a buffer and a third is too many; `MaxByte` bytes
  are enough for one in each of: an earlier send, the buffer, the send that runs.
- `storage`: the queue length is the code's. With `Limit` and `DelNum` 1 the
  table is cut from the third row on, so of three rows the last needs a cut, and
  two can be in the queue while one is in the transaction. `MaxUse` is one edit or
  one deletion. The one fault is a statement that fails, a commit that does or a
  crash, at any step. The safety properties are proved for any number of rows,
  uses and faults; their inductive invariant was also checked with two of each of
  the latter, and the safety properties with a fourth row, outside the runs.
- `session`: the queue length is the code's. `MaxAir` lets a request's answer
  meet two messages that nobody waits for. `Room` of one variable makes a
  telegram end before the list does. With two mishaps a stale answer and a lost
  connection meet.

No symmetry is used, as most runs check liveness. Deadlock is checked but in
three modules whose systems stop: the threads of `mbmaster` after `MaxReq`
requests, the lines of `serial` after `MaxByte` bytes, and the storage thread for
good when its database cannot be opened.

### Fairness
`FairSpec` is weak fairness of the steps of ready threads, the timers, time and
the parsers: threads at priority 20 are time-sliced, and every wait that is fair
has a time limit in the code. Of peers, the modem and the callers nothing is
assumed: nobody has to send, connect, read or ask, and no average has to fall
due. Two exceptions are stated in
the module: in `Sdccp` a connection attempt that does not fail (a mishap) ends
with a connection, and what was sent arrives; in `SerialXfer` the radio thread
finishes a frame it has begun to hand over.

Where the code does wait for the outside, the property says so: a peer of a
server link that stops reading keeps `lwip_write`, and with it the mutex, for
ever (the accepted socket is blocking and has no send timeout), so both liveness
properties of `NetLink` end with an exception for it: the request takes effect,
or the send returns, unless that peer is found not reading.
`DisconnectHonoured` also excepts a peer from which data is waiting, as the flag
is looked at only when `select` times out. `RequestReturns` needs events that
collide no more in the end, `HangResets` registrations that did not overlap and a
last feed that was not just after the wrap, `RowsSettle` and `EditsSettle` a
storage that is not `Stuck`, `HandshakeSettles` a handshake that has not been put
out of step for good.

### What the code does against its own words
- `threaddog_wrap`: after 2^31 ms of uptime (24.8 days) the tick is negative and
  no stuck thread is found for as long again; the comment on the line before
  says that the wrap is handled.
- `mbmaster_late`: a late answer leaves its result bit pending, and the next
  request is told of a success that is not its own.
- `gprs_stale`: a send whose link was closed while it waited for the mutex goes
  out on the connection of the link that has the number now, where the comment
  promises 0.
- `hjt212_heartbeat`: with variables of two devices, one of which has nothing to
  report, the report function is called with the same cursor for ever, and the
  login of every 15 minutes is not sent any more.

One more has no run, as `TableBounded` says it: a full table of the log has 1001
rows where the comment at `storage.c:387` says 1000.

## 4. Proofs

The theorems hold for every value of the constants that satisfies the `ASSUME`
of the module (`NetAssumption`, `GprsAssumption`, `MbAssumption`, ...): any
number of threads, links, sockets, lines, rows, and any bound on faults. Every
proof module shows that an invariant `IInv` is inductive, with one step per
action (in `GprsSocket_proofs` one lemma per conjunct, with the actions below
it), and the theorems follow from it.

| Module | Theorem | Says |
|---|---|---|
| `NetLink_proofs` | `TypeCorrect` | `Spec => []TypeOK` |
| | `DescriptorsLive` | `Spec => []LiveFds` |
| | `DescriptorsNotLost` | `Spec => []NoLeak` |
| | `WritersSafe` | `Spec => []WriterSafe` |
| | `RequestsDropOnce` | `Spec => []KillPerRequest` |
| | `Refinement` | `Spec => ImplementsLinkSpec` |
| `GprsSocket_proofs` | `TypeCorrect` | `Spec => []TypeOK` |
| | `MutexKept` | `Spec => []LockInv` |
| | `SocketsKept` | `Spec => []NoSocketLost` |
| | `SocketsAreOwn` | `Spec => []SocketIsOwn` |
| | `DataGoesToOwner` | `Spec => []DataToOwner` |
| | `LiveNotClosed` | `Spec => []NoLiveClose` |
| `ThreadDog_proofs` | `TypeCorrect` | `Spec => []TypeOK` |
| | `EntriesKept` | `Spec => []EntriesExclusive` |
| | `ResetsAreForHangs` | `Spec => []OnlyHangsReset` |
| | `HangsFound` | `Spec => []HangDetected` |
| `MbMaster_proofs` | `TypeCorrect` | `Spec => []TypeOK` |
| | `NeverJams` | `Spec => []PermitKept` |
| | `OneRequestAtATime` | `Spec => []OnePermit` |
| | `AnswersAreOwn` | `Spec => []OwnAnswer` |
| `SerialXfer_proofs` | `TypeCorrect` | `Spec => []TypeOK` |
| | `BytesInOrderOnce` | `Spec => []InOrderOnce` |
| | `BytesLostForAReason` | `Spec => []NothingElseLost` |
| `Storage_proofs` | `TypeCorrect` | `Spec => []TypeOK` |
| | `TableStaysBounded` | `Spec => []TableBounded` |
| | `QueueInOrder` | `Spec => []QueueInv` |
| | `Refinement` | `Spec => ImplementsStoreSpec` |
| `Sdccp_proofs` | `TypeCorrect` | `Spec => []TypeOK` |
| | `ReportsFollowPass` | `Spec => []ReportsAfterPass` |
| | `HandshakeInStep` | `Spec => []InStep` |

Why the invariants are needed:

- **NetLink.** That a descriptor is not closed under a writer depends on who is
  at the head of the mutex queue. `OwnerInv` adds that a writer and a closing
  task own the mutex of their link (so not both at once), `FdInv` which
  descriptors a task has in each phase and that lwIP agrees, `KillInv` that a
  pending request has not been counted yet. `TakeKeepsOwner` and
  `ReleaseKeepsOthers` are the facts about FIFO queues they need. The refinement
  maps `conn[l]` to `tcp_fd[l]`, except between `lwip_close` and the assignment
  that follows it, and `using` to the descriptor of the write in progress.
- **GprsSocket.** The invariant has two layers. `AnyInv` holds whatever goes
  wrong. `LockInv` ties the place of every thread to the mutex queue: who is in
  a call is at its head, who waits is in it once. `CloseInv` is why no socket is
  lost: a thread that closes has the number its link has, or the link has none;
  and if the link looks for a new socket, it stands behind that thread in the
  queue, so that its new number is not the one that is cleared. `CreateInv` says
  that a link that looks for a socket has none and that the one it opens is
  still free, `HolderInv` is `NoSocketLost` without the links that are about to
  forget their number after a power cycle. `CleanInv` holds until the first
  answer that is too late, missing buffer, power cycle or drop by a worker. It
  follows what the modem has sent and the parser not taken: at most one answer
  is under way, and it is for the thread at the head of the queue (`AnswerInv`);
  a report of an earlier connection on a socket stands before the answer to its
  `AT+QIOPEN` (`OpenInv`), so it has been taken when the link gets the number;
  and a connected socket is in the table or in every table that will be parsed
  (`HeldInv`). `SocketIsOwn`, `DataToOwner` and `NoLiveClose` need all of it.
  Both layers were checked by TLC on the instance of `gprs_safety` first.
- **ThreadDog.** `OwnInv` says which entry belongs to a thread in each step of
  a registration, `StateInv` that the state in the entry is that of the thread,
  `TimeInv` how the time of the last feed relates to the tick and to the silence
  that has passed, before and after a wrap; `HangsFound` is arithmetic on it.
- **MbMaster.** `PermitInv` counts permits: the semaphore, the threads that hold
  one, and one more for each outcome nobody has received. The rest concerns
  behaviours in which nothing has come at the wrong moment: `CleanInv` says
  which single event, buffer or timer the one request is in, so that no second
  one can exist.
- **SerialXfer.** A conjunct per line. `OrderInv` relates every byte a send may
  still read, cleared ones included and the place of a byte that is not yet stored
  excluded, to those already sent, until a send is `torn`; `WiredInv` adds the
  order, which needs no exception. `HandInv` and `AmidInv` say what the radio
  thread has loaded and what its two stores will make of it, `LateInv` that what
  came after the call of a send is excused, `LossInv` is `NothingElseLost`.
- **Storage.** `TxInv` and `DiskInv` tie the two views of the table together:
  what the connection sees is the disk (or nothing, once the open transaction has
  dropped the table) and the open transaction with only oldest rows cut off
  (`Cut`), and outside a transaction the two are one. `LockInv` says who is in the
  mutex's queue, `BootInv` that nobody is at work before the database is open,
  `DropInv` that no table is missing without a deletion. `QueueInv` gives the rows
  in the queue their numbers, with `BoundInv` for the last; `SizeInv` bounds table
  and disk by the step of the storage thread (`Cutting`). `StoreFirst`, `LoseMiddle`
  and `LoseNothing` are the steps of `StoreSpec` that commits and faults map to,
  and there is a lemma per action (`InsertImplements`, `DropImplements`, ...).
- **Sdccp.** `PassInv` follows a pass from the server through the air and the
  queue to the worker; `StepInv` says that without a mishap the connection stays
  and exactly one answer is under way, the one the worker waits for. `MaxIn`
  (a non-empty set of places has a last one) keeps the cursor on its list.

Every safety property the runs check is thus proved, and both refinements.
Only model-checked: the liveness properties, as neither fairness nor `ENABLED`
is within the prover's reach. Nor is what the four runs show that expect a
violation: they are counterexamples.

## 5. Plan

1. Two Modbus ports that share the statics of `eMBMasterPoll`, and the hand-over
   of `net->buffer` from the link task to the poll task (`NetLink` with
   `MbMaster`), as an extension of the run `mbmaster`.
2. The Modbus RTU receiver (character and timer interrupts over the same event
   sets), the radio module's command mode, the DL/T 645 requests.

## 6. Not modelled

- **Zigbee** (`drivers/zigbee/zigbee.c`): the command mode with its recursive
  mutex, the one-element queues, the cached destination that is tested outside
  the mutex (`zigbee.c:305`), the broadcast mode while learning. Only what its
  parser does to the serial buffer is modelled (`RadioLoad`, `RadioStore`,
  `RadioFull`, `RcvClear`).
- **Modbus slave, RTU and ASCII lines**: character-level receivers driven by
  timers of a few bit times; they share the event sets that `MbMaster` models.
- **DL/T 645**: one request at a time, from the thread that waits for it.
- **Variables and external data**: tables and conversions of values; the other
  ends are modelled (a requester of `MbMaster`, the averages of `Hjt212`, the
  edits of `Storage`).
- **Boot and configuration, firmware update, registration**: sequential code over
  files and flash; the configuration is read once, before the modelled parts run.
- **Web, UDP and Lua front ends**: request handlers that format and parse.
- **Board drivers**: register-level I/O.
- **Kernel, network stack and libraries**: RT-Thread, lwIP, SQLite, FatFs, Lua,
  GoAhead, cJSON and the CMSIS libraries are third-party code and by far most of
  the lines in the repository. Their objects appear in the modules as the code
  uses them (mutexes, queues, event sets, timers, sockets, transactions).
- **RTU1, RTU2**: board files of two other products of the same components.

Hazards of the modelled code that no property covers are listed in
`PROJECT.json` with the reason.
