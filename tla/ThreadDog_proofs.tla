--------------------------- MODULE ThreadDog_proofs ---------------------------
(***************************************************************************)
(* Proofs about ThreadDog for every set of threads, every size of the      *)
(* table and every supervision time: the entries are exclusive, a reset    *)
(* has a stuck thread for its reason, and a stuck thread is found in time. *)
(***************************************************************************)
EXTENDS ThreadDog, TLAPS

Busy  == {"scanned", "filled", "run", "suspending", "resuming", "exiting"}
Awake == {"run", "suspending", "exiting", "hung"}

\* Where a thread is, whether it has an entry, and how long it may be silent.
PlaceInv(t) ==
    /\ thr[t] \in {"scanned", "filled", "suspending", "resuming", "exiting"} =>
          slot[t] \in Slots
    /\ thr[t] = "absent" => slot[t] = NoSlot
    /\ thr[t] \in Busy => silence[t] <= Over

\* The entry of a thread is its own, from the scan on.
EntryInv(t) ==
    /\ Registering(t) => ~dog[slot[t]].use
    /\ thr[t] = "filled" => dog[slot[t]].data = t
    /\ HasEntry(t) => dog[slot[t]].use /\ dog[slot[t]].data = t

\* An entry in use has the thread for its owner that its data names.
OwnerInv(i) ==
    dog[i].use => /\ dog[i].data \in Threads
                  /\ HasEntry(dog[i].data)
                  /\ slot[dog[i].data] = i

OwnInv ==
    ~raced => /\ \A t \in Threads : EntryInv(t)
              /\ \A t, u \in Threads : Registering(t) /\ Registering(u) => t = u
              /\ \A i \in Slots : OwnerInv(i)

\* What the wdog thread reads in an entry is what its thread is doing.
StateInv(t) ==
    /\ HasEntry(t) /\ thr[t] \in Awake => dog[slot[t]].state = "RUNNING"
    /\ HasEntry(t) /\ thr[t] \in {"suspended", "resuming"} => dog[slot[t]].state = "SUSPEND"
    /\ HasEntry(t) /\ thr[t] = "exit" => dog[slot[t]].state = "EXIT"
    /\ thr[t] = "filled" => dog[slot[t]].state = "RUNNING"

\* How the tick, the last feed and the silence of a thread hang together.  A
\* feed that lies ahead of the tick is from before the wrap.
FreshF(f, t)  == \/ f <= tick /\ tick - f <= silence[t]
                 \/ f > tick /\ tick + Half <= silence[t]
NotOldF(f, t) == f > 0 /\ f <= tick => silence[t] <= tick - f
AheadF(f)     == f > 0 /\ f > tick => tick + Half <= Over + since
LookedF(f)    == tick - since >= Over => \/ tick - since - f <= Over
                                         \/ tick - since - f >= Half

\* The feed has been stored, the wdog thread does not look at it yet.
Timed(t) == thr[t] \in {"filled", "resuming"}

TimeInv(t) ==
    LET f == dog[slot[t]].tick_feed IN
    /\ Timed(t) \/ (HasEntry(t) /\ thr[t] \in {"run", "suspending", "exiting"}) => FreshF(f, t)
    /\ Timed(t) \/ (HasEntry(t) /\ thr[t] \in Awake) => NotOldF(f, t)
    /\ HasEntry(t) /\ thr[t] \in Awake => AheadF(f) /\ LookedF(f)

IInv ==
    /\ TypeOK
    /\ \A t \in Threads : PlaceInv(t)
    /\ OwnInv
    /\ ~reset => \A i \in Slots : ~dog[i].is_over
    /\ ~raced /\ ~reset => \A t \in Threads : StateInv(t) /\ TimeInv(t)
    /\ OnlyHangsReset

-------------------------------------------------------------------------------
(* The steps of one thread.                                                 *)

\* Without a race, the entry of a thread is not where another thread writes.
LEMMA Apart ==
    ASSUME IInv, ~raced, NEW t \in Threads, NEW u \in Threads, u # t,
           HasEntry(u) \/ Registering(u)
    PROVE  slot[u] \in Slots /\ slot[t] # slot[u]
<1>1. PlaceInv(t) /\ PlaceInv(u) /\ EntryInv(t) /\ EntryInv(u)
  BY DEF IInv, OwnInv
<1>2. ~(Registering(t) /\ Registering(u))
  BY DEF IInv, OwnInv
<1>3. slot[t] \in Slots \cup {NoSlot} /\ slot[u] \in Slots \cup {NoSlot} /\ NoSlot \notin Slots
  BY DEF IInv, TypeOK, Slots, NoSlot
<1>4. slot[u] \in Slots
  BY <1>1, <1>3 DEF PlaceInv, HasEntry, Registering
<1>5. CASE HasEntry(t) \/ Registering(t)
  BY <1>1, <1>2, <1>4, <1>5 DEF EntryInv, HasEntry, Registering
<1>6. CASE ~HasEntry(t) /\ ~Registering(t)
  BY <1>1, <1>3, <1>4, <1>6 DEF PlaceInv, HasEntry, Registering
<1> QED BY <1>4, <1>5, <1>6

\* A step of one thread, which stores in the entry of that thread only, keeps
\* the invariant of all if it keeps that thread's.
LEMMA OneThreadKeepsIInv ==
    ASSUME IInv, NEW t \in Threads, ~reset, reset' = reset, tick' = tick, since' = since,
           TypeOK', raced => raced',
           \A u \in Threads : u # t => /\ thr'[u] = thr[u]
                                       /\ slot'[u] = slot[u]
                                       /\ silence'[u] = silence[u],
           \A j \in Slots : j # slot[t] => dog'[j] = dog[j],
           slot[t] \in Slots => ~dog'[slot[t]].is_over,
           PlaceInv(t)',
           ~raced' => /\ EntryInv(t)' /\ StateInv(t)' /\ TimeInv(t)'
                      /\ \A i \in Slots : i = slot[t] => OwnerInv(i)'
                      /\ Registering(t)' => \A u \in Threads : u # t => ~Registering(u)
    PROVE  IInv'
<1>1. ASSUME NEW u \in Threads PROVE PlaceInv(u)'
  BY <1>1 DEF IInv, PlaceInv
<1>2. \A i \in Slots : ~dog'[i].is_over
  BY DEF IInv
<1>3. ASSUME NEW u \in Threads, ~raced' PROVE EntryInv(u)' /\ StateInv(u)' /\ TimeInv(u)'
  <2>1. CASE u = t
    BY <1>3, <2>1
  <2>2. CASE u # t
    <3>1. EntryInv(u) /\ StateInv(u) /\ TimeInv(u)
      BY <1>3 DEF IInv, OwnInv
    <3>2. (HasEntry(u)' <=> HasEntry(u)) /\ (Registering(u)' <=> Registering(u))
      BY <2>2 DEF HasEntry, Registering
    <3>3. CASE HasEntry(u) \/ Registering(u)
      <4>1. dog'[slot[u]] = dog[slot[u]]
        BY <1>3, <2>2, <3>3, Apart
      <4> QED BY <2>2, <3>1, <3>2, <4>1
              DEF EntryInv, StateInv, TimeInv, FreshF, NotOldF, AheadF, LookedF, Timed, Registering
    <3>4. CASE ~HasEntry(u) /\ ~Registering(u)
      <4>1. thr[u] # "resuming" /\ thr[u] # "filled"
        BY <3>4 DEF IInv, PlaceInv, HasEntry, Registering, Slots, NoSlot
      <4> QED BY <2>2, <3>2, <3>4, <4>1 DEF EntryInv, StateInv, TimeInv, Timed
    <3> QED BY <3>3, <3>4
  <2> QED BY <2>1, <2>2
<1>4. ASSUME NEW u \in Threads, NEW v \in Threads, ~raced', Registering(u)', Registering(v)'
      PROVE  u = v
  <2>1. \A w \in Threads : w # t => (Registering(w)' <=> Registering(w))
    BY DEF Registering
  <2>2. Registering(u) /\ Registering(v) => u = v
    BY <1>4 DEF IInv, OwnInv
  <2> QED BY <1>4, <2>1, <2>2
<1>5. ASSUME NEW i \in Slots, ~raced' PROVE OwnerInv(i)'
  <2>1. CASE i = slot[t]
    BY <1>5, <2>1
  <2>2. CASE i # slot[t]
    <3>1. OwnerInv(i) /\ dog'[i] = dog[i]
      BY <1>5, <2>2 DEF IInv, OwnInv
    <3>2. dog[i].use => dog[i].data # t
      BY <2>2, <3>1 DEF OwnerInv
    <3> QED BY <3>1, <3>2 DEF OwnerInv, HasEntry
  <2> QED BY <2>1, <2>2
<1>6. OwnInv'
  BY <1>3, <1>4, <1>5 DEF OwnInv
<1> QED BY <1>1, <1>2, <1>3, <1>6 DEF IInv, OnlyHangsReset

\* threaddog_init: no entry is in use.
LEMMA InitIInv == Init => IInv
<1> SUFFICES ASSUME Init PROVE IInv
  OBVIOUS
<1>1. TypeOK
  <2>1. 0 \in Ticks /\ 0 \in 0 .. Period /\ 0 \in 0 .. MaxSilence
    BY DogAssumption DEF Ticks, MaxSilence
  <2> QED BY <2>1 DEF Init, TypeOK, Places
<1> QED BY <1>1, DogAssumption
        DEF Init, IInv, PlaceInv, OwnInv, EntryInv, OwnerInv, StateInv, TimeInv, Timed,
            HasEntry, Registering, OnlyHangsReset, Awake, Busy

-------------------------------------------------------------------------------
(* Registration and its end.                                                *)

\* The loop of threaddog_register: the entry found is free, and it stays so
\* unless another registration overlaps.
LEMMA ScanKeepsIInv ==
    ASSUME IInv, NEW t \in Threads, Scan(t)
    PROVE  IInv'
<1>1. PICK i \in Slots : ~dog[i].use /\ slot' = [slot EXCEPT ![t] = i]
  BY DEF Scan
<1>2. /\ ~reset /\ thr[t] = "absent" /\ thr' = [thr EXCEPT ![t] = "scanned"]
      /\ silence' = [silence EXCEPT ![t] = 0]
      /\ raced' = (raced \/ \E u \in Threads \ {t} : Registering(u))
      /\ tick' = tick /\ since' = since /\ dog' = dog /\ reset' = reset
  BY DEF Scan, Place, Heard
<1>3. TypeOK /\ PlaceInv(t) /\ \A j \in Slots : ~dog[j].is_over
  BY <1>2 DEF IInv
<1>4. TypeOK'
  BY <1>1, <1>2, <1>3, DogAssumption DEF TypeOK, Places, MaxSilence
<1>5. thr'[t] = "scanned" /\ slot'[t] = i /\ silence'[t] = 0
  BY <1>1, <1>2, <1>3 DEF TypeOK
<1>6. PlaceInv(t)'
  BY <1>5, DogAssumption DEF PlaceInv
<1>7. slot[t] = NoSlot
  BY <1>2, <1>3 DEF PlaceInv
<1>8. EntryInv(t)' /\ StateInv(t)' /\ TimeInv(t)'
  BY <1>1, <1>2, <1>5
     DEF EntryInv, StateInv, TimeInv, Registering, HasEntry, Timed, Awake
<1>9. ~raced' => ~raced /\ \A u \in Threads : u # t => ~Registering(u)
  BY <1>2
<1>10. \A j \in Slots : j # slot[t]
  BY <1>7 DEF Slots, NoSlot
<1>11. \A u \in Threads : u # t => /\ thr'[u] = thr[u] /\ slot'[u] = slot[u]
                                   /\ silence'[u] = silence[u]
  BY <1>1, <1>2, <1>3 DEF TypeOK
<1> QED BY <1>2, <1>3, <1>4, <1>6, <1>8, <1>9, <1>10, <1>11, OneThreadKeepsIInv

\* The table is full: the thread has no entry and none changes.
LEMMA ScanFullKeepsIInv ==
    ASSUME IInv, NEW t \in Threads, ScanFull(t)
    PROVE  IInv'
<1>1. /\ ~reset /\ thr[t] = "absent" /\ thr' = [thr EXCEPT ![t] = "run"]
      /\ slot' = [slot EXCEPT ![t] = NoSlot]
      /\ silence' = [silence EXCEPT ![t] = 0] /\ raced' = raced
      /\ tick' = tick /\ since' = since /\ dog' = dog /\ reset' = reset
  BY DEF ScanFull, Place, Heard
<1>2. TypeOK /\ PlaceInv(t) /\ \A j \in Slots : ~dog[j].is_over
  BY <1>1 DEF IInv
<1>3. TypeOK'
  BY <1>1, <1>2, DogAssumption DEF TypeOK, Places, MaxSilence
<1>4. thr'[t] = "run" /\ slot'[t] = NoSlot /\ silence'[t] = 0
  BY <1>1, <1>2 DEF TypeOK
<1>5. PlaceInv(t)' /\ slot[t] = NoSlot
  BY <1>1, <1>2, <1>4, DogAssumption DEF PlaceInv
<1>6. EntryInv(t)' /\ StateInv(t)' /\ TimeInv(t)' /\ ~Registering(t)'
  BY <1>4 DEF EntryInv, StateInv, TimeInv, Registering, HasEntry, Timed
<1> QED BY <1>1, <1>2, <1>3, <1>5, <1>6, OneThreadKeepsIInv
        DEF TypeOK, Slots, NoSlot

\* The fields are stored while the entry is not in use.
LEMMA FillKeepsIInv ==
    ASSUME IInv, NEW t \in Threads, Fill(t)
    PROVE  IInv'
<1> DEFINE s == slot[t]
<1>1. /\ ~reset /\ thr[t] = "scanned" /\ thr' = [thr EXCEPT ![t] = "filled"]
      /\ dog' = [dog EXCEPT ![s] = [use |-> FALSE, is_over |-> FALSE, tick_feed |-> tick,
                                    state |-> "RUNNING", data |-> t]]
      /\ silence' = [silence EXCEPT ![t] = 0] /\ raced' = raced
      /\ tick' = tick /\ since' = since /\ slot' = slot /\ reset' = reset
  BY DEF Fill, Place, Heard
<1>2. TypeOK /\ PlaceInv(t) /\ s \in Slots
  BY <1>1 DEF IInv, PlaceInv
<1>3. TypeOK'
  BY <1>1, <1>2, DogAssumption DEF TypeOK, Places, MaxSilence
<1>4. /\ thr'[t] = "filled" /\ silence'[t] = 0
      /\ ~dog'[s].use /\ ~dog'[s].is_over /\ dog'[s].tick_feed = tick
      /\ dog'[s].state = "RUNNING" /\ dog'[s].data = t
  BY <1>1, <1>2 DEF TypeOK
<1>5. PlaceInv(t)'
  BY <1>1, <1>2, <1>4, DogAssumption DEF PlaceInv
<1>6. EntryInv(t)' /\ StateInv(t)'
  BY <1>1, <1>4 DEF EntryInv, StateInv, Registering, HasEntry
<1>7. TimeInv(t)'
  BY <1>1, <1>2, <1>4 DEF TimeInv, FreshF, NotOldF, HasEntry, Timed, TypeOK, Ticks
<1>8. OwnerInv(s)'
  BY <1>1, <1>4 DEF OwnerInv
<1>9. ~raced => \A u \in Threads : u # t => ~Registering(u)
  BY <1>1 DEF IInv, OwnInv, Registering
<1> QED BY <1>1, <1>2, <1>3, <1>4, <1>5, <1>6, <1>7, <1>8, <1>9, OneThreadKeepsIInv
        DEF TypeOK, OwnerInv

\* "use" is stored: the thread is started with an entry of its own, whose feed
\* is not older than its time.
LEMMA PublishKeepsIInv ==
    ASSUME IInv, NEW t \in Threads, Publish(t)
    PROVE  IInv'
<1> DEFINE s == slot[t]
           f == dog[s].tick_feed
<1>1. /\ ~reset /\ thr[t] = "filled" /\ thr' = [thr EXCEPT ![t] = "run"]
      /\ dog' = [dog EXCEPT ![s].use = TRUE]
      /\ silence' = silence /\ raced' = raced
      /\ tick' = tick /\ since' = since /\ slot' = slot /\ reset' = reset
  BY DEF Publish, Place
<1>2. TypeOK /\ PlaceInv(t) /\ s \in Slots /\ ~dog[s].is_over
  BY <1>1 DEF IInv, PlaceInv
<1>3. TypeOK'
  BY <1>1, <1>2 DEF TypeOK, Places
<1>4. /\ thr'[t] = "run"
      /\ dog'[s].use /\ ~dog'[s].is_over /\ dog'[s].tick_feed = f
      /\ dog'[s].state = dog[s].state /\ dog'[s].data = dog[s].data
  BY <1>1, <1>2 DEF TypeOK
<1>5. PlaceInv(t)' /\ silence[t] <= Over
  BY <1>1, <1>2, <1>4 DEF PlaceInv, Busy
<1>6. ASSUME ~raced
      PROVE  EntryInv(t)' /\ StateInv(t)' /\ OwnerInv(s)'
  <2>1. EntryInv(t) /\ StateInv(t)
    BY <1>1, <1>6 DEF IInv, OwnInv
  <2> QED BY <1>1, <1>2, <1>4, <2>1
          DEF EntryInv, StateInv, OwnerInv, Registering, HasEntry, Slots, NoSlot, Awake
<1>7. ASSUME ~raced
      PROVE  TimeInv(t)'
  <2>1. FreshF(f, t) /\ NotOldF(f, t)
    BY <1>1, <1>7 DEF IInv, TimeInv, Timed
  <2>2. /\ tick \in Int /\ since \in Nat /\ f \in Int /\ silence[t] \in Nat
        /\ Over \in Nat /\ Half \in Nat /\ Over < Half
    BY <1>2, DogAssumption DEF TypeOK, Ticks
  <2>3. AheadF(f) /\ LookedF(f)
    BY <1>5, <2>1, <2>2 DEF FreshF, AheadF, LookedF
  <2> QED BY <1>1, <1>4, <2>1, <2>3 DEF TimeInv, FreshF, NotOldF, AheadF, LookedF
<1>8. ~Registering(t)'
  BY <1>4 DEF Registering
<1> QED BY <1>1, <1>2, <1>3, <1>4, <1>5, <1>6, <1>7, <1>8, OneThreadKeepsIInv, ZenonT(30)
        DEF TypeOK, OwnerInv

\* threaddog_unregister: the entry of the thread is given back.
LEMMA StopKeepsIInv ==
    ASSUME IInv, NEW t \in Threads, Stop(t)
    PROVE  IInv'
<1> DEFINE s == slot[t]
<1>0. IF s # NoSlot /\ dog[s].use THEN dog' = [dog EXCEPT ![s].use = FALSE] ELSE dog' = dog
  BY DEF Stop
<1>1. /\ ~reset /\ thr' = [thr EXCEPT ![t] = "absent"]
      /\ silence' = [silence EXCEPT ![t] = 0] /\ raced' = raced
      /\ tick' = tick /\ since' = since /\ slot' = [slot EXCEPT ![t] = NoSlot]
      /\ reset' = reset
  BY DEF Stop, Place, Heard
<1>2. TypeOK /\ (\A i \in Slots : ~dog[i].is_over) /\ s \in Slots \cup {NoSlot}
  BY <1>1 DEF IInv, TypeOK
<1>3. TypeOK'
  <2>1. dog' \in [Slots -> [use: BOOLEAN, is_over: BOOLEAN, tick_feed: Ticks,
                            state: {"RUNNING", "SUSPEND", "DIE", "EXIT"},
                            data: Threads \cup {NoThread}]]
    <3>1. CASE s \in Slots /\ dog[s].use
      <4>1. dog' = [dog EXCEPT ![s].use = FALSE]
        BY <1>0, <3>1 DEF Slots, NoSlot
      <4>2. dog' = [dog EXCEPT ![s] = [dog[s] EXCEPT !.use = FALSE]]
        BY <4>1
      <4>3. dog[s] \in [use: BOOLEAN, is_over: BOOLEAN, tick_feed: Ticks,
                        state: {"RUNNING", "SUSPEND", "DIE", "EXIT"},
                        data: Threads \cup {NoThread}]
        BY <1>2, <3>1 DEF TypeOK
      <4>4. [dog[s] EXCEPT !.use = FALSE] \in
                [use: BOOLEAN, is_over: BOOLEAN, tick_feed: Ticks,
                 state: {"RUNNING", "SUSPEND", "DIE", "EXIT"},
                 data: Threads \cup {NoThread}]
        BY <4>3
      <4> QED BY <1>2, <3>1, <4>2, <4>4 DEF TypeOK
    <3>2. CASE ~(s \in Slots /\ dog[s].use)
      BY <1>0, <1>2, <3>2 DEF TypeOK
    <3> QED BY <3>1, <3>2
  <2> QED BY <1>1, <1>2, <2>1, DogAssumption DEF TypeOK, Places, MaxSilence
<1>4. thr'[t] = "absent" /\ slot'[t] = NoSlot
  BY <1>1, <1>2 DEF TypeOK
<1>5. \A i \in Slots : /\ i # s => dog'[i] = dog[i]
                       /\ ~dog'[i].is_over
                       /\ i = s => ~dog'[i].use
  <2>1. NoSlot \notin Slots
    BY DEF Slots, NoSlot
  <2>2. CASE s # NoSlot /\ dog[s].use
    BY <1>0, <1>2, <2>2 DEF TypeOK
  <2>3. CASE ~(s # NoSlot /\ dog[s].use)
    BY <1>0, <1>2, <2>1, <2>3
  <2> QED BY <2>2, <2>3
<1>6. ~HasEntry(t)' /\ ~Registering(t)'
  BY <1>4 DEF HasEntry, Registering
<1>8. PlaceInv(t)'
  BY <1>4 DEF PlaceInv, Busy
<1>9. EntryInv(t)'
  BY <1>4, <1>6 DEF EntryInv
<1>10. StateInv(t)' /\ TimeInv(t)'
  BY <1>4, <1>6 DEF StateInv, TimeInv, Timed
<1>11. ASSUME NEW i \in Slots, i = s PROVE OwnerInv(i)'
  <2>1. ~dog'[i].use
    BY <1>5, <1>11
  <2> QED BY <2>1 DEF OwnerInv
<1>7. \A u \in Threads : u # t => /\ thr'[u] = thr[u] /\ slot'[u] = slot[u]
                                  /\ silence'[u] = silence[u]
  BY <1>1, <1>2 DEF TypeOK
<1> QED BY <1>1, <1>3, <1>5, <1>6, <1>7, <1>8, <1>9, <1>10, <1>11, OneThreadKeepsIInv

-------------------------------------------------------------------------------
(* Feed, suspend, resume, exit.                                             *)

\* Without a reset, the entry of a thread accepts what the thread stores.
LEMMA Accepted ==
    ASSUME IInv, ~raced, ~reset, NEW t \in Threads, HasEntry(t)
    PROVE  Accepts(t)
BY DEF IInv, OwnInv, EntryInv, HasEntry, Accepts, TypeOK

\* The first store of an update, and the whole of a feed.
LEMMA StoreTickKeepsIInv ==
    ASSUME IInv, NEW t \in Threads, ~reset,
           thr[t] \in {"run", "suspended"},
           NEW to \in {"run", "suspending", "resuming", "exiting"},
           thr[t] = "suspended" <=> to = "resuming",
           thr' = [thr EXCEPT ![t] = to],
           Accepts(t),
           \/ dog' = [dog EXCEPT ![slot[t]].tick_feed = tick]
           \/ /\ dog' = [dog EXCEPT ![slot[t]].tick_feed = tick, ![slot[t]].state = "RUNNING"]
              /\ to = "run",
           Heard(t), UNCHANGED <<tick, since, slot, raced, reset>>
    PROVE  IInv'
<1> DEFINE s == slot[t]
<1>1. TypeOK /\ PlaceInv(t) /\ s \in Slots /\ ~dog[s].is_over /\ HasEntry(t)
  BY DEF IInv, TypeOK, Accepts, HasEntry
<1>2. TypeOK'
  BY <1>1, DogAssumption DEF TypeOK, Places, MaxSilence, Heard
<1>3. /\ thr'[t] = to /\ silence'[t] = 0
      /\ dog'[s].use = dog[s].use /\ ~dog'[s].is_over /\ dog'[s].tick_feed = tick
      /\ dog'[s].data = dog[s].data
      /\ dog'[s].state \in {"RUNNING", dog[s].state}
      /\ to # "run" => dog'[s].state = dog[s].state
  BY <1>1 DEF TypeOK, Heard
<1>4. \A i \in Slots : i # s => dog'[i] = dog[i]
  BY <1>1 DEF TypeOK
<1>5. PlaceInv(t)'
  BY <1>1, <1>3, DogAssumption DEF PlaceInv, Slots, NoSlot
<1>6. HasEntry(t)' /\ ~Registering(t)'
  BY <1>1, <1>3 DEF HasEntry, Registering
<1>7. ASSUME ~raced
      PROVE  EntryInv(t)' /\ StateInv(t)' /\ \A i \in Slots : i = s => OwnerInv(i)'
  <2>1. EntryInv(t) /\ StateInv(t)
    BY <1>7 DEF IInv, OwnInv
  <2>2. EntryInv(t)'
    BY <1>1, <1>3, <1>6, <2>1 DEF EntryInv
  <2>3. StateInv(t)'
    BY <1>1, <1>3, <1>6, <2>1 DEF StateInv, Awake
  <2>4. OwnerInv(s)'
    BY <1>1, <1>3, <1>6, <2>1 DEF EntryInv, OwnerInv
  <2> QED BY <2>2, <2>3, <2>4 DEF OwnerInv
<1>8. TimeInv(t)'
  BY <1>1, <1>3, DogAssumption
     DEF TimeInv, FreshF, NotOldF, AheadF, LookedF, TypeOK, Ticks
<1>9. \A u \in Threads : u # t => /\ thr'[u] = thr[u] /\ slot'[u] = slot[u]
                                  /\ silence'[u] = silence[u]
  BY <1>1 DEF TypeOK, Heard
<1> QED BY <1>2, <1>3, <1>4, <1>5, <1>6, <1>7, <1>8, <1>9, OneThreadKeepsIInv

\* The last store of an update: the state.
LEMMA StoreStateKeepsIInv ==
    ASSUME IInv, NEW t \in Threads, NEW from \in Places, NEW final \in Places,
           NEW state \in {"SUSPEND", "RUNNING", "EXIT"},
           <<from, final, state>> \in {<<"suspending", "suspended", "SUSPEND">>,
                                      <<"resuming", "run", "RUNNING">>,
                                      <<"exiting", "exit", "EXIT">>},
           SetState(t, from, final, state)
    PROVE  IInv'
<1> DEFINE s == slot[t]
           f == dog[s].tick_feed
<1>1. /\ ~reset /\ thr[t] = from /\ thr' = [thr EXCEPT ![t] = final]
      /\ dog' = [dog EXCEPT ![s].state = state]
      /\ silence' = [silence EXCEPT ![t] = IF state = "RUNNING" THEN silence[t] ELSE 0]
      /\ tick' = tick /\ since' = since /\ slot' = slot /\ raced' = raced /\ reset' = reset
  BY DEF SetState, Place
<1>2. /\ from \in {"suspending", "resuming", "exiting"}
      /\ final \in {"suspended", "run", "exit"}
      /\ state \in {"SUSPEND", "RUNNING", "EXIT"}
      /\ final = "run" <=> state = "RUNNING"
      /\ final = "run" <=> from = "resuming"
      /\ final = "suspended" <=> state = "SUSPEND"
      /\ final = "exit" <=> state = "EXIT"
  OBVIOUS
<1>3. TypeOK /\ PlaceInv(t) /\ s \in Slots /\ ~dog[s].is_over
  BY <1>1, <1>2 DEF IInv, PlaceInv
<1>4. silence[t] \in 0 .. MaxSilence /\ 0 \in 0 .. MaxSilence
  BY <1>3, DogAssumption DEF TypeOK, MaxSilence
<1>5. TypeOK'
  BY <1>1, <1>2, <1>3, <1>4 DEF TypeOK, Places
<1>6. /\ thr'[t] = final
      /\ dog'[s].use = dog[s].use /\ ~dog'[s].is_over /\ dog'[s].tick_feed = f
      /\ dog'[s].state = state /\ dog'[s].data = dog[s].data
      /\ state = "RUNNING" => silence'[t] = silence[t]
  BY <1>1, <1>3 DEF TypeOK
<1>7. PlaceInv(t)' /\ silence[t] <= Over
  BY <1>1, <1>2, <1>3, <1>6 DEF PlaceInv, Busy
<1>8. HasEntry(t) /\ HasEntry(t)' /\ ~Registering(t)'
  BY <1>1, <1>2, <1>3, <1>6 DEF HasEntry, Registering, Slots, NoSlot
<1>9. ASSUME ~raced
      PROVE  EntryInv(t)' /\ StateInv(t)' /\ \A i \in Slots : i = s => OwnerInv(i)'
  <2>1. EntryInv(t)
    BY <1>9 DEF IInv, OwnInv
  <2>2. EntryInv(t)'
    BY <1>1, <1>2, <1>6, <1>8, <2>1 DEF EntryInv
  <2>3. StateInv(t)'
    BY <1>1, <1>2, <1>6 DEF StateInv, Awake
  <2>4. ASSUME NEW i \in Slots, i = s PROVE OwnerInv(i)'
    <3>1. dog'[i].data = t
      BY <1>6, <1>8, <2>1, <2>4 DEF EntryInv
    <3> QED BY <1>1, <1>8, <2>4, <3>1 DEF OwnerInv
  <2> QED BY <2>2, <2>3, <2>4
<1>10. ASSUME ~raced
       PROVE  TimeInv(t)'
  <2>1. CASE final # "run"
    BY <1>2, <1>6, <2>1 DEF TimeInv, Timed, Awake
  <2>2. CASE final = "run"
    <3>1. FreshF(f, t) /\ NotOldF(f, t)
      BY <1>1, <1>2, <1>10, <2>2 DEF IInv, TimeInv, Timed
    <3>2. /\ tick \in Int /\ since \in Nat /\ f \in Int /\ silence[t] \in Nat
          /\ Over \in Nat /\ Half \in Nat /\ Over < Half
      BY <1>3, <1>4, DogAssumption DEF TypeOK, Ticks
    <3>3. AheadF(f) /\ LookedF(f)
      BY <1>7, <3>1, <3>2 DEF FreshF, AheadF, LookedF
    <3> QED BY <1>1, <1>2, <1>6, <2>2, <3>1, <3>3 DEF TimeInv, FreshF, NotOldF, AheadF, LookedF
  <2> QED BY <2>1, <2>2
<1>11. \A u \in Threads : u # t => thr'[u] = thr[u] /\ slot'[u] = slot[u] /\ silence'[u] = silence[u]
  BY <1>1, <1>3 DEF TypeOK
<1>12. \A i \in Slots : i # s => dog'[i] = dog[i]
  BY <1>1, <1>3 DEF TypeOK
<1> QED BY <1>1, <1>5, <1>6, <1>7, <1>8, <1>9, <1>10, <1>11, <1>12, OneThreadKeepsIInv

\* A call of a thread without an entry, or a thread that gets stuck: no entry
\* changes.
LEMMA MoveKeepsIInv ==
    ASSUME IInv, NEW t \in Threads, ~reset,
           NEW to \in {"run", "suspended", "exit", "hung"}, thr' = [thr EXCEPT ![t] = to],
           \/ thr[t] = "run" /\ to = "hung" /\ silence' = silence
           \/ thr[t] \in {"run", "suspended"} /\ ~Accepts(t) /\ Heard(t),
           UNCHANGED <<tick, since, dog, slot, raced, reset>>
    PROVE  IInv'
<1>1. TypeOK /\ PlaceInv(t) /\ \A i \in Slots : ~dog[i].is_over
  BY DEF IInv
<1>2. silence' \in [Threads -> 0 .. MaxSilence] /\ silence'[t] \in {silence[t], 0}
  BY <1>1, DogAssumption DEF TypeOK, MaxSilence, Heard
<1>3. TypeOK' /\ thr'[t] = to
  BY <1>1, <1>2 DEF TypeOK, Places
<1>4. PlaceInv(t)'
  <2>1. CASE to = "run"
    BY <1>1, <1>2, <1>3, <2>1, DogAssumption DEF PlaceInv, Busy, Heard, TypeOK
  <2>2. CASE to # "run"
    BY <1>3, <2>2 DEF PlaceInv, Busy
  <2> QED BY <2>1, <2>2
<1>5. ~Registering(t)' /\ (HasEntry(t)' <=> HasEntry(t))
  BY <1>3 DEF Registering, HasEntry
<1>6. ASSUME ~raced
      PROVE  EntryInv(t)' /\ StateInv(t)' /\ TimeInv(t)' /\ \A i \in Slots : OwnerInv(i)'
  <2>1. EntryInv(t) /\ StateInv(t) /\ TimeInv(t) /\ \A i \in Slots : OwnerInv(i)
    BY <1>6 DEF IInv, OwnInv
  <2>2. EntryInv(t)'
    BY <1>5, <2>1 DEF EntryInv, Registering
  <2>3. ASSUME NEW i \in Slots PROVE OwnerInv(i)'
    <3>1. OwnerInv(i)
      BY <2>1
    <3>2. \A u \in Threads : HasEntry(u) => HasEntry(u)'
      BY <1>1, <1>5 DEF HasEntry, TypeOK
    <3> QED BY <3>1, <3>2 DEF OwnerInv
  <2>4. CASE HasEntry(t)
    <3>1. thr[t] = "run" /\ to = "hung" /\ silence' = silence
      BY <1>6, <2>4, Accepted
    <3> QED BY <1>3, <1>5, <2>1, <2>2, <2>3, <2>4, <3>1
            DEF StateInv, TimeInv, Timed, Awake, NotOldF, AheadF, LookedF
  <2>5. CASE ~HasEntry(t)
    BY <1>3, <1>5, <2>2, <2>3, <2>5 DEF StateInv, TimeInv, Timed
  <2> QED BY <2>4, <2>5
<1>7. \A u \in Threads : u # t => thr'[u] = thr[u] /\ slot'[u] = slot[u] /\ silence'[u] = silence[u]
  BY <1>1 DEF TypeOK, Heard
<1> QED BY <1>1, <1>3, <1>4, <1>5, <1>6, <1>7, OneThreadKeepsIInv

\* Whatever step thread t or its creator takes.
LEMMA ThreadKeepsIInv ==
    ASSUME IInv, NEW t \in Threads, ThreadStep(t)
    PROVE  IInv'
<1>1. CASE Feed(t)
  <2>1. thr' = [thr EXCEPT ![t] = "run"]
    BY <1>1 DEF Feed, IInv, TypeOK
  <2>2. CASE Accepts(t)
    BY <1>1, <2>1, <2>2, StoreTickKeepsIInv DEF Feed
  <2>3. CASE ~Accepts(t)
    BY <1>1, <2>1, <2>3, MoveKeepsIInv DEF Feed
  <2> QED BY <2>2, <2>3
<1>2. ASSUME NEW from \in Places, NEW to \in Places, NEW final \in Places,
             Update(t, from, to, final),
             <<from, to, final>> \in {<<"run", "suspending", "suspended">>,
                                      <<"suspended", "resuming", "run">>,
                                      <<"run", "exiting", "exit">>}
      PROVE  IInv'
  <2>1. CASE Accepts(t)
    BY <1>2, <2>1, StoreTickKeepsIInv DEF Update, Place
  <2>2. CASE ~Accepts(t)
    BY <1>2, <2>2, MoveKeepsIInv DEF Update, Place
  <2> QED BY <2>1, <2>2
<1>3. CASE Suspend(t) \/ Resume(t) \/ Exit(t)
  BY <1>2, <1>3, StoreStateKeepsIInv DEF Suspend, Resume, Exit, Places
<1>4. CASE Hang(t)
  BY <1>4, MoveKeepsIInv DEF Hang, Place
<1> QED BY <1>1, <1>3, <1>4, ScanKeepsIInv, ScanFullKeepsIInv, FillKeepsIInv,
           PublishKeepsIInv, StopKeepsIInv DEF ThreadStep

-------------------------------------------------------------------------------
(* The wdog thread, and time.                                               *)

\* An entry that is reset for belongs to a stuck thread: the entries of the
\* others were fed within their time, before or after the wrap.
LEMMA ExpiredIsHung ==
    ASSUME IInv, ~raced, ~reset, NEW i \in Slots, Expired(i)
    PROVE  thr[dog[i].data] = "hung" /\ dog[i].data \in Threads
<1> DEFINE t == dog[i].data
           f == dog[i].tick_feed
<1>1. TypeOK /\ OwnerInv(i) /\ dog[i].use /\ dog[i].state \notin {"SUSPEND", "EXIT"}
  BY DEF IInv, OwnInv, Expired, Watched
<1>2. t \in Threads /\ HasEntry(t) /\ slot[t] = i
  BY <1>1 DEF OwnerInv
<1>3. StateInv(t) /\ TimeInv(t) /\ PlaceInv(t)
  BY <1>2 DEF IInv
<1>4. thr[t] \in Awake
  BY <1>1, <1>2, <1>3 DEF StateInv, HasEntry, TypeOK, Places, Awake
<1>5. ASSUME thr[t] # "hung" PROVE FALSE
  <2>1. FreshF(f, t) /\ silence[t] <= Over
    BY <1>2, <1>3, <1>4, <1>5 DEF TimeInv, PlaceInv, Awake, Busy
  <2>2. /\ tick \in Int /\ f \in Int /\ silence[t] \in Nat
        /\ Over \in Nat /\ Half \in Nat /\ Over < Half
    BY <1>1, <1>2, DogAssumption DEF TypeOK, Ticks
  <2>3. f <= tick
    BY <2>1, <2>2 DEF FreshF, Expired
  <2>4. FeedSeen(i) = f
    BY <2>2, <2>3 DEF FeedSeen, Wrapped
  <2>5. Minus(tick, f) <= tick - f
    BY <2>2, <2>3 DEF Minus
  <2>6. Minus(tick, f) \in Int
    BY <2>2 DEF Minus
  <2> QED BY <2>1, <2>2, <2>3, <2>4, <2>5, <2>6 DEF FreshF, Expired
<1> QED BY <1>2, <1>5

\* What one round of the wdog thread does to an entry.
LEMMA CheckEffect ==
    ASSUME TypeOK, Check
    PROVE  /\ TypeOK'
           /\ \A i \in Slots : /\ dog'[i].use = dog[i].use
                               /\ dog'[i].data = dog[i].data
                               /\ dog'[i].tick_feed = FeedSeen(i)
                               /\ dog'[i].is_over <=> dog[i].is_over \/ Expired(i)
                               /\ ~Expired(i) => dog'[i].state = dog[i].state
<1>1. \A i \in Slots : FeedSeen(i) \in Ticks /\ dog[i].state \in {"RUNNING", "SUSPEND", "DIE", "EXIT"}
  BY DogAssumption DEF TypeOK, FeedSeen, Ticks
<1>2. dog' = [i \in Slots |->
                 [dog[i] EXCEPT !.tick_feed = FeedSeen(i),
                                !.is_over = dog[i].is_over \/ Expired(i),
                                !.state = IF Expired(i) THEN "DIE" ELSE dog[i].state]]
  BY DEF Check
<1>3. ASSUME NEW i \in Slots
      PROVE  /\ dog'[i] \in [use: BOOLEAN, is_over: BOOLEAN, tick_feed: Ticks,
                             state: {"RUNNING", "SUSPEND", "DIE", "EXIT"},
                             data: Threads \cup {NoThread}]
             /\ dog'[i].use = dog[i].use
             /\ dog'[i].data = dog[i].data
             /\ dog'[i].tick_feed = FeedSeen(i)
             /\ dog'[i].is_over <=> dog[i].is_over \/ Expired(i)
             /\ ~Expired(i) => dog'[i].state = dog[i].state
  <2> DEFINE over == dog[i].is_over \/ Expired(i)
             st == IF Expired(i) THEN "DIE" ELSE dog[i].state
             fs == FeedSeen(i)
  <2>1. dog'[i] = [dog[i] EXCEPT !.tick_feed = fs, !.is_over = over, !.state = st]
    BY <1>2
  <2>2. over \in BOOLEAN /\ st \in {"RUNNING", "SUSPEND", "DIE", "EXIT"} /\ fs \in Ticks
    BY <1>1
  <2>3. dog[i] \in [use: BOOLEAN, is_over: BOOLEAN, tick_feed: Ticks,
                    state: {"RUNNING", "SUSPEND", "DIE", "EXIT"},
                    data: Threads \cup {NoThread}]
    BY DEF TypeOK
  <2>4. ~Expired(i) => st = dog[i].state
    OBVIOUS
  <2>5. over <=> dog[i].is_over \/ Expired(i)
    OBVIOUS
  <2> HIDE DEF over, st, fs
  <2>6. /\ dog'[i] \in [use: BOOLEAN, is_over: BOOLEAN, tick_feed: Ticks,
                        state: {"RUNNING", "SUSPEND", "DIE", "EXIT"},
                        data: Threads \cup {NoThread}]
        /\ dog'[i].use = dog[i].use /\ dog'[i].data = dog[i].data
        /\ dog'[i].tick_feed = fs /\ dog'[i].is_over = over /\ dog'[i].state = st
    BY <2>1, <2>2, <2>3
  <2> QED BY <2>4, <2>5, <2>6 DEF fs
<1>4. TypeOK'
  <2>1. dog' \in [Slots -> [use: BOOLEAN, is_over: BOOLEAN, tick_feed: Ticks,
                            state: {"RUNNING", "SUSPEND", "DIE", "EXIT"},
                            data: Threads \cup {NoThread}]]
    BY <1>2, <1>3
  <2>2. reset' \in BOOLEAN
    BY DEF Check
  <2>3. since' \in 0 .. Period
    <3>1. since' = 0
      BY DEF Check
    <3> QED BY <3>1, DogAssumption
  <2> QED BY <2>1, <2>2, <2>3 DEF Check, TypeOK
<1> QED BY <1>3, <1>4

\* A round of the wdog thread.
LEMMA CheckKeepsIInv ==
    ASSUME IInv, Check
    PROVE  IInv'
<1>1. /\ ~reset /\ TypeOK
      /\ tick' = tick /\ since' = 0 /\ thr' = thr /\ slot' = slot
      /\ silence' = silence /\ raced' = raced
      /\ reset' <=> \E i \in Slots : Expired(i)
  BY DEF IInv, Check
<1>2. /\ TypeOK'
      /\ \A i \in Slots : /\ dog'[i].use = dog[i].use
                          /\ dog'[i].data = dog[i].data
                          /\ dog'[i].tick_feed = FeedSeen(i)
                          /\ dog'[i].is_over <=> dog[i].is_over \/ Expired(i)
                          /\ ~Expired(i) => dog'[i].state = dog[i].state
  BY <1>1, CheckEffect
<1>3. \A t \in Threads : PlaceInv(t)'
  BY <1>1 DEF IInv, PlaceInv
<1>4. ~reset' => \A i \in Slots : ~dog'[i].is_over
  BY <1>1, <1>2 DEF IInv
<1>5. \A t \in Threads : (HasEntry(t)' <=> HasEntry(t)) /\ (Registering(t)' <=> Registering(t))
  BY <1>1 DEF HasEntry, Registering
<1>6. \A t \in Threads : HasEntry(t) \/ thr[t] \in {"scanned", "filled", "resuming"} => slot[t] \in Slots
  BY <1>1 DEF IInv, PlaceInv, HasEntry, TypeOK
<1>7. OwnInv'
  <2> SUFFICES ASSUME ~raced PROVE OwnInv'
    BY <1>1 DEF OwnInv
  <2>1. \A t \in Threads : EntryInv(t)'
    BY <1>1, <1>2, <1>5, <1>6 DEF IInv, OwnInv, EntryInv, Registering
  <2>2. \A t, u \in Threads : Registering(t)' /\ Registering(u)' => t = u
    BY <1>5 DEF IInv, OwnInv
  <2>3. \A i \in Slots : OwnerInv(i)'
    BY <1>1, <1>2, <1>5 DEF IInv, OwnInv, OwnerInv
  <2> QED BY <2>1, <2>2, <2>3 DEF OwnInv
<1>8. ASSUME NEW t \in Threads, ~raced, ~reset' PROVE StateInv(t)'
  BY <1>1, <1>2, <1>5, <1>6, <1>8 DEF IInv, StateInv
<1>9. ASSUME NEW t \in Threads, ~raced, ~reset' PROVE TimeInv(t)'
  <2> DEFINE s == slot[t]
             f == dog[s].tick_feed
  <2>1. StateInv(t) /\ TimeInv(t) /\ PlaceInv(t)
    BY <1>1, <1>9 DEF IInv
  <2>2. CASE thr[t] \in {"filled", "resuming"}
    <3>1. s \in Slots /\ ~Watched(s)
      <4>1. CASE thr[t] = "filled"
        BY <1>6, <1>9, <4>1 DEF IInv, OwnInv, EntryInv, Registering, Watched
      <4>2. CASE thr[t] = "resuming"
        BY <1>6, <2>1, <4>2 DEF PlaceInv, StateInv, HasEntry, Watched, Slots, NoSlot
      <4> QED BY <2>2, <4>1, <4>2
    <3>2. dog'[s].tick_feed = f
      BY <1>2, <3>1 DEF FeedSeen, Wrapped
    <3> QED BY <1>1, <2>1, <2>2, <3>2 DEF TimeInv, FreshF, NotOldF, Timed, Awake
  <2>3. CASE HasEntry(t) /\ thr[t] \in Awake
    <3>1. s \in Slots /\ ~Expired(s) /\ dog[s].use /\ dog[s].state = "RUNNING" /\ ~dog[s].is_over
      BY <1>1, <1>6, <1>9, <2>1, <2>3 DEF StateInv, IInv, OwnInv, EntryInv
    <3>2. Watched(s) /\ dog'[s].tick_feed = FeedSeen(s)
      BY <1>2, <3>1 DEF Watched
    <3>3. /\ tick \in Int /\ f \in Int /\ silence[t] \in Nat /\ since \in Nat
          /\ Over \in Nat /\ Half \in Nat /\ Over < Half
      BY <1>1, <3>1, DogAssumption DEF TypeOK, Ticks
    <3>4. FeedSeen(s) = IF tick < f THEN 0 ELSE f
      BY <3>2 DEF FeedSeen, Wrapped
    <3>5. ~(tick >= Over /\ Minus(tick, FeedSeen(s)) > Over)
      BY <3>1, <3>2 DEF Expired
    <3>6. /\ thr[t] # "hung" => FreshF(f, t) /\ silence[t] <= Over
          /\ NotOldF(f, t)
      BY <2>1, <2>3 DEF TimeInv, Awake, PlaceInv, Busy
    <3> DEFINE g == FeedSeen(s)
    <3>7. /\ thr[t] # "hung" => \/ g <= tick /\ tick - g <= silence[t]
                                \/ g > tick /\ tick + Half <= silence[t]
          /\ g > 0 /\ g <= tick => silence[t] <= tick - g
          /\ ~(g > 0 /\ g > tick)
          /\ tick >= Over => tick - g <= Over \/ tick - g >= Half
      <4>1. CASE tick < f
        BY <3>3, <3>4, <3>5, <3>6, <4>1 DEF FreshF, NotOldF, Minus
      <4>2. CASE ~(tick < f)
        BY <3>3, <3>4, <3>5, <3>6, <4>2 DEF FreshF, NotOldF, Minus
      <4> QED BY <4>1, <4>2
    <3>8. dog'[s].tick_feed = g /\ since' = 0 /\ tick' = tick /\ silence' = silence /\ thr' = thr
          /\ slot' = slot
      BY <1>1, <3>2
    <3>9. tick - 0 = tick
      BY <3>3
    <3>10. thr[t] \notin {"filled", "resuming"}
      BY <2>3 DEF Awake
    <3> HIDE DEF g
    <3> QED BY <2>3, <3>7, <3>8, <3>9, <3>10 DEF TimeInv, FreshF, NotOldF, AheadF, LookedF, Timed, Awake
  <2>4. CASE ~(thr[t] \in {"filled", "resuming"}) /\ ~(HasEntry(t) /\ thr[t] \in Awake)
    BY <1>1, <1>5, <2>4 DEF TimeInv, Timed, Awake
  <2> QED BY <2>2, <2>3, <2>4
<1>10. OnlyHangsReset'
  BY <1>1, ExpiredIsHung DEF OnlyHangsReset
<1> QED BY <1>1, <1>2, <1>3, <1>4, <1>7, <1>8, <1>9, <1>10 DEF IInv

\* A tick passes; at the end of its range it wraps.
LEMMA TickKeepsIInv ==
    ASSUME IInv, Tick
    PROVE  IInv'
<1>1. /\ ~reset /\ TypeOK /\ since < Period
      /\ since' = since + 1 /\ thr' = thr /\ slot' = slot
      /\ dog' = dog /\ raced' = raced /\ reset' = reset
      /\ tick' = IF tick = Half - 1 THEN -Half ELSE tick + 1
      /\ \A t \in Threads : InTime(t)
  BY DEF IInv, Tick
<1>2. /\ tick \in Int /\ -Half <= tick /\ tick <= Half - 1
      /\ since \in Nat
      /\ Over \in Nat /\ Period \in Nat /\ Half \in Nat /\ Half > 2 * (Over + Period)
  BY <1>1, DogAssumption DEF TypeOK, Ticks
<1>3. ASSUME NEW t \in Threads
      PROVE  /\ silence[t] \in Nat /\ silence[t] <= MaxSilence
             /\ silence'[t] \in 0 .. MaxSilence
             /\ silence'[t] <= silence[t] + 1
             /\ thr[t] \in Busy => silence'[t] = silence[t] + 1 /\ silence[t] < Over
  <2>1. silence[t] \in 0 .. MaxSilence /\ MaxSilence = Over + Period + 1
    BY <1>1 DEF TypeOK, MaxSilence
  <2>2. silence'[t] = IF silence[t] = MaxSilence \/ thr[t] \in {"absent", "suspended", "exit"}
                        THEN silence[t] ELSE silence[t] + 1
    BY DEF Tick
  <2>3. thr[t] \in Busy => silence[t] < Over
    BY <1>1 DEF InTime, Busy
  <2>4. thr[t] \in Busy => thr[t] \notin {"absent", "suspended", "exit"}
    BY DEF Busy
  <2> QED BY <1>2, <2>1, <2>2, <2>3, <2>4
<1>4. silence' \in [Threads -> 0 .. MaxSilence]
  BY <1>3 DEF Tick
<1>5. TypeOK'
  <2>1. tick' \in Ticks /\ since' \in 0 .. Period
    BY <1>1, <1>2 DEF Ticks
  <2> QED BY <1>1, <1>4, <2>1 DEF TypeOK
<1>6. \A t \in Threads : (HasEntry(t)' <=> HasEntry(t)) /\ (Registering(t)' <=> Registering(t))
  BY <1>1 DEF HasEntry, Registering
<1>7. ASSUME NEW t \in Threads PROVE PlaceInv(t)'
  BY <1>1, <1>2, <1>3 DEF IInv, PlaceInv
<1>8. OwnInv'
  BY <1>1, <1>6 DEF IInv, OwnInv, EntryInv, OwnerInv
<1>9. ASSUME NEW t \in Threads, ~raced PROVE StateInv(t)'
  BY <1>1, <1>6, <1>9 DEF IInv, StateInv
<1>10. ASSUME NEW t \in Threads, ~raced PROVE TimeInv(t)'
  <2> DEFINE f == dog[slot[t]].tick_feed
             fresh == Timed(t) \/ (HasEntry(t) /\ thr[t] \in {"run", "suspending", "exiting"})
             awake == HasEntry(t) /\ thr[t] \in Awake
  <2>1. TimeInv(t)
    BY <1>1, <1>10 DEF IInv
  <2>2. CASE ~fresh /\ ~awake
    BY <1>1, <1>6, <2>2 DEF TimeInv, Timed
  <2>3. CASE fresh \/ awake
    <3>1. slot[t] \in Slots
      BY <1>1, <2>3 DEF IInv, PlaceInv, Timed, HasEntry, TypeOK
    <3>2. f \in Int /\ -Half <= f /\ f <= Half - 1
      BY <1>1, <1>2, <3>1 DEF TypeOK, Ticks
    <3>3. silence[t] \in Nat /\ silence'[t] \in Nat /\ silence'[t] <= silence[t] + 1
      BY <1>2, <1>3 DEF MaxSilence
    <3>4. fresh => FreshF(f, t) /\ silence'[t] = silence[t] + 1 /\ silence[t] < Over
      BY <1>3, <2>1 DEF TimeInv, Timed, Busy
    <3>5. awake => AheadF(f) /\ LookedF(f)
      BY <2>1 DEF TimeInv
    <3>6. NotOldF(f, t)
      BY <2>1, <2>3 DEF TimeInv, Awake
    <3> HIDE DEF f, fresh, awake
    <3>7. CASE tick = Half - 1
      <4>1. tick' = -Half /\ since' = since + 1
        BY <1>1, <3>7
      <4>2. fresh => \/ f <= tick' /\ tick' - f <= silence'[t]
                     \/ f > tick' /\ tick' + Half <= silence'[t]
        BY <1>2, <3>2, <3>3, <3>4, <3>7, <4>1 DEF FreshF
      <4>3. /\ f > 0 /\ f <= tick' => silence'[t] <= tick' - f
            /\ f > 0 /\ f > tick' => tick' + Half <= Over + since'
            /\ tick' - since' >= Over => \/ tick' - since' - f <= Over
                                        \/ tick' - since' - f >= Half
        BY <1>2, <3>2, <3>3, <4>1
      <4> QED BY <1>1, <4>2, <4>3, <1>6
              DEF TimeInv, FreshF, NotOldF, AheadF, LookedF, Timed, f, fresh, awake
    <3>8. CASE tick # Half - 1
      <4>1. tick' = tick + 1 /\ since' = since + 1
        BY <1>1, <3>8
      <4>2. fresh => \/ f <= tick' /\ tick' - f <= silence'[t]
                     \/ f > tick' /\ tick' + Half <= silence'[t]
        BY <1>2, <3>2, <3>3, <3>4, <4>1 DEF FreshF
      <4>3. f > 0 /\ f <= tick' => silence'[t] <= tick' - f
        <5>1. CASE f <= tick
          BY <1>2, <3>2, <3>3, <3>6, <4>1, <5>1 DEF NotOldF
        <5>2. CASE f > tick /\ f > 0
          <6>1. tick + Half <= Over + Period
            BY <1>1, <1>2, <2>3, <3>2, <3>3, <3>4, <3>5, <5>2 DEF FreshF, AheadF
          <6> QED BY <1>2, <3>2, <4>1, <5>2, <6>1
        <5> QED BY <1>2, <3>2, <5>1, <5>2
      <4>4. awake => /\ f > 0 /\ f > tick' => tick' + Half <= Over + since'
                     /\ tick' - since' >= Over => \/ tick' - since' - f <= Over
                                        \/ tick' - since' - f >= Half
        <5>1. tick' - since' = tick - since
          BY <1>2, <4>1
        <5> QED BY <1>2, <3>2, <3>5, <4>1, <5>1 DEF AheadF, LookedF
      <4> QED BY <1>1, <4>2, <4>3, <4>4, <1>6
              DEF TimeInv, FreshF, NotOldF, AheadF, LookedF, Timed, f, fresh, awake
    <3> QED BY <3>7, <3>8
  <2> QED BY <2>2, <2>3
<1> QED BY <1>1, <1>5, <1>7, <1>8, <1>9, <1>10 DEF IInv, OnlyHangsReset

-------------------------------------------------------------------------------
LEMMA NextIInv == IInv /\ [Next]_vars => IInv'
<1> SUFFICES ASSUME IInv, [Next]_vars PROVE IInv'
  OBVIOUS
<1>1. CASE Reboot
  <2>1. Init'
    BY <1>1 DEF Reboot, Init
  <2> QED BY <2>1, InitIInv, PTL
<1>2. CASE UNCHANGED vars
  BY <1>2 DEF vars, IInv, TypeOK, PlaceInv, OwnInv, EntryInv, OwnerInv, StateInv, TimeInv,
              FreshF, NotOldF, AheadF, LookedF, Timed, HasEntry, Registering, OnlyHangsReset
<1> QED BY <1>1, <1>2, ThreadKeepsIInv, CheckKeepsIInv, TickKeepsIInv DEF Next

LEMMA SpecIInv == Spec => []IInv
BY InitIInv, NextIInv, PTL DEF Spec

\* Tick, table and places stay in their ranges, whatever registrations overlap.
THEOREM TypeCorrect == Spec => []TypeOK
BY SpecIInv, PTL DEF IInv

\* Registrations that do not overlap never share an entry (the loop over "use"
\* in threaddog_register and the order of its stores).
THEOREM EntriesKept == Spec => []EntriesExclusive
<1>1. IInv => EntriesExclusive
  BY DEF IInv, OwnInv, EntryInv, EntriesExclusive
<1> QED BY <1>1, SpecIInv, PTL

\* No preemption inside a call and no wrap of the tick resets the device: a
\* reset of threaddog_check has a stuck thread for its reason.
THEOREM ResetsAreForHangs == Spec => []OnlyHangsReset
BY SpecIInv, PTL DEF IInv

\* A stuck thread is found within its time and one round of the wdog thread
\* when the tick is past that time, if the age of its feed fits into a long.
THEOREM HangsFound == Spec => []HangDetected
<1>1. IInv => HangDetected
  <2> SUFFICES ASSUME IInv, tick > Over + Period, NEW t \in Threads, AgeFits(t),
                      thr[t] = "hung", HasEntry(t), ~raced, ~reset
               PROVE  silence[t] <= Over + Period
    BY DEF HangDetected, InBound
  <2> DEFINE f == dog[slot[t]].tick_feed
  <2>1. NotOldF(f, t) /\ AheadF(f) /\ LookedF(f)
    BY DEF IInv, TimeInv, Awake
  <2>2. /\ tick \in Int /\ f \in Int /\ silence[t] \in Nat /\ since \in Nat /\ since <= Period
        /\ Over \in Nat /\ Period \in Nat /\ Half \in Nat /\ Half > 2 * (Over + Period)
    <3>1. slot[t] \in Slots
      BY DEF IInv, TypeOK, HasEntry
    <3> QED BY <3>1, DogAssumption DEF IInv, TypeOK, Ticks, MaxSilence
  <2> HIDE DEF f
  <2>3. tick - since - f <= Over
    <3>1. tick - f < Half
      BY DEF AgeFits, f
    <3> QED BY <2>1, <2>2, <3>1 DEF LookedF
  <2>4. f > 0 /\ f <= tick
    BY <2>1, <2>2, <2>3 DEF AheadF
  <2> QED BY <2>1, <2>2, <2>3, <2>4 DEF NotOldF
<1> QED BY <1>1, SpecIInv, PTL
===============================================================================
