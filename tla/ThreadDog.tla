------------------------------- MODULE ThreadDog -------------------------------
(***************************************************************************)
(* The software watchdog (threaddog/threaddog.c).  Threads are registered  *)
(* in a static table without a lock, feed their entry while they run, and  *)
(* suspend it around calls that may block.  The wdog thread, which has the *)
(* highest priority, looks through the table every 50 ms and resets the    *)
(* device when a running thread has not fed for its time.                  *)
(*                                                                         *)
(* A thread is preempted between the stores of one call, so register and   *)
(* update are several steps.  The tick is a signed 32-bit long: here it    *)
(* has the values -Half .. Half-1 and wraps as the code's does.            *)
(*                                                                         *)
(* Bounds: silence stops counting at Over + Period + 1.                    *)
(***************************************************************************)
EXTENDS Integers, FiniteSets

CONSTANTS
    Threads,    \* the threads that may be registered
    Size,       \* THREAD_DOG_NUM, the entries of thddogs_list
    NoThread,   \* an entry that was never used has no data
    Half,       \* 2^31 scaled down
    Over,       \* threaddog_sec2tick(over_sec), one value for all threads
    Period      \* ticks between two rounds of the wdog thread

ASSUME DogAssumption ==
    /\ Size \in Nat \ {0}
    /\ Over \in Nat \ {0}
    /\ Period \in Nat \ {0}
    /\ Half \in Nat /\ Half > 2 * (Over + Period)
    /\ NoThread \notin Threads

Slots  == 1 .. Size
NoSlot == 0         \* threaddog_register returned NULL

VARIABLES
    tick,       \* rt_tick_get() as a long
    since,      \* ticks since the wdog thread last looked
    dog,        \* thddogs_list
    thr,        \* thr[t]: what thread t, or the thread creating it, is doing
    slot,       \* slot[t]: the entry in t's user_data
    silence,    \* silence[t]: ticks since t fed (history)
    raced,      \* two registrations have overlapped since the start (history)
    reset       \* vDoSystemReset was called

vars == <<tick, since, dog, thr, slot, silence, raced, reset>>

Ticks  == -Half .. Half - 1
MaxSilence == Over + Period + 1
Places == {"absent", "scanned", "filled", "run", "suspending", "suspended",
           "resuming", "exiting", "exit", "hung"}

TypeOK ==
    /\ tick \in Ticks
    /\ since \in 0 .. Period
    /\ dog \in [Slots -> [use: BOOLEAN, is_over: BOOLEAN, tick_feed: Ticks,
                          state: {"RUNNING", "SUSPEND", "DIE", "EXIT"},
                          data: Threads \cup {NoThread}]]
    /\ thr \in [Threads -> Places]
    /\ slot \in [Threads -> Slots \cup {NoSlot}]
    /\ silence \in [Threads -> 0 .. MaxSilence]
    /\ raced \in BOOLEAN
    /\ reset \in BOOLEAN

\* threaddog_init: memset of the table.
Init ==
    /\ tick = 0 /\ since = 0
    /\ dog = [i \in Slots |-> [use |-> FALSE, is_over |-> FALSE, tick_feed |-> 0,
                               state |-> "RUNNING", data |-> NoThread]]
    /\ thr = [t \in Threads |-> "absent"]
    /\ slot = [t \in Threads |-> NoSlot]
    /\ silence = [t \in Threads |-> 0]
    /\ raced = FALSE /\ reset = FALSE

Place(t, p) == thr' = [thr EXCEPT ![t] = p]
Heard(t)    == silence' = [silence EXCEPT ![t] = 0]

-------------------------------------------------------------------------------
(* threaddog_register, called by the creator of thread t.                   *)

Registering(t) == thr[t] \in {"scanned", "filled"}

\* Variant of Scan: the loop takes the first entry, used or not.
ScanIgnoresUse(t) ==
    /\ ~reset /\ thr[t] = "absent"
    /\ slot' = [slot EXCEPT ![t] = 1]
    /\ raced' = (raced \/ \E u \in Threads \ {t} : Registering(u))
    /\ Place(t, "scanned") /\ Heard(t)
    /\ UNCHANGED <<tick, since, dog, reset>>

\* The loop finds the first entry that is not in use.
Scan(t) ==
    /\ ~reset /\ thr[t] = "absent"
    /\ \E i \in Slots :
          /\ ~dog[i].use
          /\ \A j \in 1 .. i - 1 : dog[j].use
          /\ slot' = [slot EXCEPT ![t] = i]
    /\ raced' = (raced \/ \E u \in Threads \ {t} : Registering(u))
    /\ Place(t, "scanned") /\ Heard(t)
    /\ UNCHANGED <<tick, since, dog, reset>>

\* The table is full: the thread runs without an entry.
ScanFull(t) ==
    /\ ~reset /\ thr[t] = "absent"
    /\ \A i \in Slots : dog[i].use
    /\ slot' = [slot EXCEPT ![t] = NoSlot]
    /\ Place(t, "run") /\ Heard(t)
    /\ UNCHANGED <<tick, since, dog, raced, reset>>

\* Variant of Fill: "use" is set with the other fields, before they are.
FillInUse(t) ==
    /\ ~reset /\ thr[t] = "scanned"
    /\ dog' = [dog EXCEPT ![slot[t]] =
                 [use |-> TRUE, is_over |-> FALSE, tick_feed |-> 0,
                  state |-> "RUNNING", data |-> t]]
    /\ Place(t, "filled") /\ Heard(t)
    /\ UNCHANGED <<tick, since, slot, raced, reset>>

\* memset and the fields, all but "use".
Fill(t) ==
    /\ ~reset /\ thr[t] = "scanned"
    /\ dog' = [dog EXCEPT ![slot[t]] =
                 [use |-> FALSE, is_over |-> FALSE, tick_feed |-> tick,
                  state |-> "RUNNING", data |-> t]]
    /\ Place(t, "filled") /\ Heard(t)
    /\ UNCHANGED <<tick, since, slot, raced, reset>>

\* "use" last; then the creator starts the thread.
Publish(t) ==
    /\ ~reset /\ thr[t] = "filled"
    /\ dog' = [dog EXCEPT ![slot[t]].use = TRUE]
    /\ Place(t, "run")
    /\ UNCHANGED <<tick, since, slot, silence, raced, reset>>

\* threaddog_unregister and rt_thread_delete by the owner of a poll thread.
Stop(t) ==
    /\ ~reset /\ thr[t] \in {"run", "suspended", "hung", "exit"}
    /\ IF slot[t] # NoSlot /\ dog[slot[t]].use
         THEN dog' = [dog EXCEPT ![slot[t]].use = FALSE]
         ELSE UNCHANGED dog
    /\ slot' = [slot EXCEPT ![t] = NoSlot]
    /\ Place(t, "absent") /\ Heard(t)
    /\ UNCHANGED <<tick, since, raced, reset>>

-------------------------------------------------------------------------------
(* threaddog_update, called by the thread itself; a thread without an entry *)
(* passes NULL and nothing happens.                                         *)

Accepts(t) == slot[t] # NoSlot /\ dog[slot[t]].use /\ ~dog[slot[t]].is_over

\* rt_thddog_feed: the state stays RUNNING.
Feed(t) ==
    /\ ~reset /\ thr[t] = "run"
    /\ dog' = IF Accepts(t) THEN [dog EXCEPT ![slot[t]].tick_feed = tick,
                                             ![slot[t]].state = "RUNNING"]
                            ELSE dog
    /\ Heard(t)
    /\ UNCHANGED <<tick, since, thr, slot, raced, reset>>

\* The first store of a call that changes the state: the tick.  A call that is
\* not accepted stores nothing.
Update(t, from, to, final) ==
    /\ ~reset /\ thr[t] = from
    /\ IF Accepts(t)
         THEN dog' = [dog EXCEPT ![slot[t]].tick_feed = tick] /\ Place(t, to)
         ELSE UNCHANGED dog /\ Place(t, final)
    /\ Heard(t)
    /\ UNCHANGED <<tick, since, slot, raced, reset>>

\* Variant of SetState: RUNNING is not stored.
SetStateNoResume(t, from, final, state) ==
    /\ ~reset /\ thr[t] = from
    /\ dog' = IF state = "RUNNING" THEN dog ELSE [dog EXCEPT ![slot[t]].state = state]
    /\ Place(t, final)
    /\ UNCHANGED <<tick, since, slot, silence, raced, reset>>

\* The last store: the state.
SetState(t, from, final, state) ==
    /\ ~reset /\ thr[t] = from
    /\ dog' = [dog EXCEPT ![slot[t]].state = state]
    /\ Place(t, final)
    /\ silence' = [silence EXCEPT ![t] = IF state = "RUNNING" THEN @ ELSE 0]
    /\ UNCHANGED <<tick, since, slot, raced, reset>>

Suspend(t) == \/ Update(t, "run", "suspending", "suspended")
              \/ SetState(t, "suspending", "suspended", "SUSPEND")
Resume(t)  == \/ Update(t, "suspended", "resuming", "run")
              \/ SetState(t, "resuming", "run", "RUNNING")
Exit(t)    == \/ Update(t, "run", "exiting", "exit")
              \/ SetState(t, "exiting", "exit", "EXIT")

\* The thread is stuck in code that does not feed.
Hang(t) ==
    /\ ~reset /\ thr[t] = "run"
    /\ Place(t, "hung")
    /\ UNCHANGED <<tick, since, dog, slot, silence, raced, reset>>

-------------------------------------------------------------------------------
(* The wdog thread, and time.                                               *)

Watched(i) == dog[i].use /\ ~dog[i].is_over /\ dog[i].state \notin {"SUSPEND", "EXIT"}

\* A feed that lies in the future means that the tick has wrapped.
Wrapped(i) == Watched(i) /\ tick < dog[i].tick_feed
\* Variant of FeedSeen: the wrap is not handled.
FeedSeenNoWrap(i) == dog[i].tick_feed

FeedSeen(i) == IF Wrapped(i) THEN 0 ELSE dog[i].tick_feed

\* The difference of two longs is a long again: it wraps as the tick does.
Minus(a, b) == IF a - b >= Half THEN a - b - 2 * Half
               ELSE IF a - b < -Half THEN a - b + 2 * Half ELSE a - b

Expired(i) == Watched(i) /\ tick >= Over /\ Minus(tick, FeedSeen(i)) > Over

\* One round: threaddog_check until it returns NULL, then the reset.
Check ==
    /\ ~reset
    /\ dog' = [i \in Slots |->
                 [dog[i] EXCEPT !.tick_feed = FeedSeen(i),
                                !.is_over = @ \/ Expired(i),
                                !.state = IF Expired(i) THEN "DIE" ELSE @]]
    /\ reset' = \E i \in Slots : Expired(i)
    /\ since' = 0
    /\ UNCHANGED <<tick, thr, slot, silence, raced>>

\* A thread that is not stuck feeds in time, preempted or not; the wdog thread
\* runs every Period ticks.
InTime(t) == thr[t] \in {"absent", "suspended", "exit", "hung"} \/ silence[t] < Over

\* Variant of Tick: the counter does not wrap.
TickNoWrap ==
    /\ ~reset
    /\ since < Period
    /\ \A t \in Threads : InTime(t)
    /\ tick' = tick + 1
    /\ since' = since + 1
    /\ UNCHANGED <<dog, thr, slot, silence, raced, reset>>

Tick ==
    /\ ~reset
    /\ since < Period
    /\ \A t \in Threads : InTime(t)
    /\ tick' = IF tick = Half - 1 THEN -Half ELSE tick + 1
    /\ since' = since + 1
    /\ silence' = [t \in Threads |->
                     IF silence[t] = MaxSilence \/ thr[t] \in {"absent", "suspended", "exit"}
                       THEN silence[t] ELSE silence[t] + 1]
    /\ UNCHANGED <<dog, thr, slot, raced, reset>>

\* The device starts again.
Reboot ==
    /\ reset
    /\ tick' = 0 /\ since' = 0
    /\ dog' = [i \in Slots |-> [use |-> FALSE, is_over |-> FALSE, tick_feed |-> 0,
                                state |-> "RUNNING", data |-> NoThread]]
    /\ thr' = [t \in Threads |-> "absent"]
    /\ slot' = [t \in Threads |-> NoSlot]
    /\ silence' = [t \in Threads |-> 0]
    /\ raced' = FALSE /\ reset' = FALSE

ThreadStep(t) ==
    \/ Scan(t) \/ ScanFull(t) \/ Fill(t) \/ Publish(t) \/ Stop(t)
    \/ Feed(t) \/ Suspend(t) \/ Resume(t) \/ Exit(t) \/ Hang(t)

Next == \/ \E t \in Threads : ThreadStep(t)
        \/ Check \/ Tick \/ Reboot

Spec == Init /\ [][Next]_vars

\* Ready threads run (a stuck one excepted), the tick interrupt and the wdog
\* thread do too.  Nobody has to start, stop, suspend or end a thread.
Fairness ==
    /\ WF_vars(Tick) /\ WF_vars(Check)
    /\ \A t \in Threads :
          /\ WF_vars(Fill(t) \/ Publish(t))
          /\ WF_vars(Feed(t))
          /\ WF_vars(\/ SetState(t, "suspending", "suspended", "SUSPEND")
                     \/ SetState(t, "resuming", "run", "RUNNING")
                     \/ SetState(t, "exiting", "exit", "EXIT"))

FairSpec == Spec /\ Fairness

-------------------------------------------------------------------------------
(* Properties.                                                              *)

HasEntry(t) == thr[t] \notin {"absent", "scanned", "filled"} /\ slot[t] # NoSlot

\* Registrations that do not overlap give every thread an entry of its own,
\* also when entries of stopped threads are given out again.
EntriesExclusive ==
    ~raced => \A t \in Threads : HasEntry(t) =>
                 /\ dog[slot[t]].use /\ dog[slot[t]].data = t
                 /\ \A u \in Threads \ {t} : HasEntry(u) => slot[u] # slot[t]

\* The device is reset only when some thread is stuck: neither the wrap of the
\* tick nor a thread preempted inside register, suspend or resume looks like one.
OnlyHangsReset == reset /\ ~raced => \E t \in Threads : thr[t] = "hung"

\* A stuck thread with an entry is found within its time and one round of the
\* wdog thread, ...
InBound(t) == thr[t] = "hung" /\ HasEntry(t) /\ ~raced =>
                  silence[t] <= Over + Period \/ reset

\* ... when the tick is not negative and the last wrap is long enough ago, if the
\* age of its last feed fits into a long: that of a feed just after the tick has
\* become negative does not any more when the tick is not negative again.
AgeFits(t)   == HasEntry(t) => tick - dog[slot[t]].tick_feed < Half
HangDetected == tick > Over + Period => \A t \in Threads : AgeFits(t) => InBound(t)

\* ... always, if the wrap of the tick were handled as the comment says.
HangDetectedAcrossWrap == \A t \in Threads : InBound(t)

\* A stuck thread leads to a reset in the end, after the wrap at the latest,
\* unless its owner stops it, or it has fed last in the Over + Period ticks after
\* the tick became negative: then no round needs to see its age before that
\* overflows, and none may see the feed ahead of the tick at the next wrap.
FedAfterWrap(t) == dog[slot[t]].tick_feed \in -Half .. -Half + Over + Period
HangResets ==
    \A t \in Threads :
        thr[t] = "hung" /\ HasEntry(t) /\ ~raced /\ ~FedAfterWrap(t)
          ~> reset \/ thr[t] # "hung" \/ raced
===============================================================================
