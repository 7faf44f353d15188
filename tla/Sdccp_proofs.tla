------------------------------ MODULE Sdccp_proofs ------------------------------
(***************************************************************************)
(* Proofs about Sdccp for every length of the queue, every list of         *)
(* variables and every configuration of reports, whatever goes wrong.      *)
(***************************************************************************)
EXTENDS Sdccp, SequenceTheorems, WellFoundedInduction, TLAPS

\* s has a verdict that says the digest is passed.
Passes(s) == \E i \in DOMAIN s : s[i].kind = "result" /\ s[i].good

\* A pass that is reported on, queued or on its way was given by the server.
PassInv == worker = "report" \/ Passes(queue) \/ Passes(air) => accepted

\* m is the only message that is queued or on its way.
Only(m) == \/ queue = <<m>> /\ air = <<>>
           \/ queue = <<>> /\ air = <<m>>

\* Without a mishap the connection stays, and one answer is under way.
StepInv ==
    /\ conn = "up" /\ ~req /\ rx = "clean"
    /\ worker # "delay"
    /\ worker = "verify" => queue = <<>> /\ air = <<>>
    /\ worker = "seq"    => Only([kind |-> "seq", good |-> TRUE])
    /\ worker = "result" => Only([kind |-> "result", good |-> TRUE])

IInv == /\ TypeOK
        /\ proto = "CC_BJDC" => PassInv /\ (mishaps = 0 => StepInv)

-------------------------------------------------------------------------------
(* Messages and sequences of them.                                          *)

LEMMA Constants ==
    /\ QueueLen \in Nat \ {0} /\ MaxMishap \in Nat /\ MaxAir \in Nat
    /\ Nid \in Seq(Nat) /\ Len(Nid) \in Nat /\ Items = 1 .. Len(Nid)
    /\ Len(Flags) \in 0 .. 3 /\ DOMAIN Flags = 1 .. Len(Flags)
    /\ VerifyFlag \in BOOLEAN /\ Room \in Nat \ {0}
<1>1. Len(Flags) \in 0 .. 3 /\ DOMAIN Flags = 1 .. Len(Flags)
  BY HjtAssumption
<1>2. Nid \in Seq(Nat) /\ Len(Nid) \in Nat /\ Items = 1 .. Len(Nid)
  BY HjtAssumption DEF Items
<1> QED BY <1>1, <1>2, SdccpAssumption, HjtAssumption

LEMMA MessagesAre ==
    /\ [kind |-> "seq", good |-> TRUE] \in Messages
    /\ \A g \in BOOLEAN : [kind |-> "result", good |-> g] \in Messages
    /\ Msg("other") \in Messages /\ Msg("time") \in Messages /\ Msg("restart") \in Messages
BY DEF Messages, Msg

LEMMA FunctionIsSeq ==
    ASSUME NEW S, NEW c \in Nat, NEW q \in [1 .. c -> S]
    PROVE  q \in Seq(S) /\ Len(q) = c
<1>1. q \in UNION {[1 .. k -> S] : k \in Nat}
  OBVIOUS
<1>2. q \in Seq(S)
  BY <1>1, SeqDef, Zenon
<1>3. 1 .. c = 1 .. Len(q) /\ Len(q) \in Nat
  BY <1>2, LenProperties
<1> QED BY <1>2, <1>3

\* A sequence the server has replaced stays a message of its kind.
LEMMA StaledIs ==
    ASSUME NEW s \in Seq(Messages)
    PROVE  /\ Staled(s) \in Seq(Messages) /\ Len(Staled(s)) = Len(s)
           /\ Passes(Staled(s)) => Passes(s)
<1> DEFINE f == Staled(s)
<1>1. DOMAIN s = 1 .. Len(s) /\ Len(s) \in Nat /\ \A i \in 1 .. Len(s) : s[i] \in Messages
  OBVIOUS
<1>2. f = [i \in 1 .. Len(s) |->
             IF s[i].kind = "seq" THEN [s[i] EXCEPT !.good = FALSE] ELSE s[i]]
  BY <1>1 DEF Staled
<1> HIDE DEF f
<1>3. ASSUME NEW m \in Messages
      PROVE  /\ [m EXCEPT !.good = FALSE] \in Messages
             /\ [m EXCEPT !.good = FALSE].good = FALSE
  BY DEF Messages
<1>4. f \in [1 .. Len(s) -> Messages]
  BY <1>1, <1>2, <1>3
<1>5. f \in Seq(Messages) /\ Len(f) = Len(s)
  BY <1>1, <1>4, FunctionIsSeq
<1>6. ASSUME NEW i \in 1 .. Len(s), f[i].kind = "result", f[i].good
      PROVE  s[i].kind = "result" /\ s[i].good
  <2>1. CASE s[i].kind = "seq"
    BY <1>1, <1>2, <1>3, <1>6, <2>1
  <2>2. CASE s[i].kind # "seq"
    BY <1>2, <1>6, <2>2
  <2> QED BY <2>1, <2>2
<1>7. Passes(f) => Passes(s)
  <2> SUFFICES ASSUME Passes(f) PROVE Passes(s)
    OBVIOUS
  <2>1. PICK i \in DOMAIN f : f[i].kind = "result" /\ f[i].good
    BY DEF Passes
  <2>2. i \in 1 .. Len(s)
    BY <1>5, <2>1
  <2> QED BY <1>1, <1>6, <2>1, <2>2 DEF Passes
<1> QED BY <1>5, <1>7 DEF f

LEMMA PassesTail ==
    ASSUME NEW s \in Seq(Messages), s # <<>>
    PROVE  /\ Passes(Tail(s)) => Passes(s)
           /\ Head(s).kind = "result" /\ Head(s).good => Passes(s)
<1>1. /\ Len(s) \in Nat \ {0} /\ DOMAIN s = 1 .. Len(s) /\ Head(s) = s[1]
      /\ DOMAIN Tail(s) = 1 .. Len(s) - 1
      /\ \A i \in 1 .. Len(s) - 1 : Tail(s)[i] = s[i + 1]
  <2>1. Tail(s) \in Seq(Messages) /\ Len(Tail(s)) = Len(s) - 1
        /\ \A i \in 1 .. Len(Tail(s)) : Tail(s)[i] = s[i + 1]
    BY HeadTailProperties
  <2>2. Len(s) \in Nat \ {0} /\ DOMAIN s = 1 .. Len(s) /\ Head(s) = s[1]
    OBVIOUS
  <2> QED BY <2>1, <2>2
<1>2. ASSUME Passes(Tail(s)) PROVE Passes(s)
  <2>1. PICK i \in 1 .. Len(s) - 1 : Tail(s)[i].kind = "result" /\ Tail(s)[i].good
    BY <1>1, <1>2 DEF Passes
  <2>2. i + 1 \in DOMAIN s
    BY <1>1, <2>1
  <2> QED BY <1>1, <2>1, <2>2 DEF Passes
<1>3. ASSUME Head(s).kind = "result", Head(s).good PROVE Passes(s)
  <2>1. 1 \in DOMAIN s
    BY <1>1
  <2> QED BY <1>1, <1>3, <2>1 DEF Passes
<1> QED BY <1>2, <1>3

LEMMA PassesAppend ==
    ASSUME NEW s \in Seq(Messages), NEW m \in Messages, Passes(Append(s, m))
    PROVE  Passes(s) \/ (m.kind = "result" /\ m.good)
<1>1. /\ Len(s) \in Nat /\ DOMAIN s = 1 .. Len(s) /\ DOMAIN Append(s, m) = 1 .. Len(s) + 1
      /\ \A i \in 1 .. Len(s) : Append(s, m)[i] = s[i]
      /\ Append(s, m)[Len(s) + 1] = m
  OBVIOUS
<1>2. PICK i \in 1 .. Len(s) + 1 : Append(s, m)[i].kind = "result" /\ Append(s, m)[i].good
  BY <1>1 DEF Passes
<1>3. CASE i = Len(s) + 1
  BY <1>1, <1>2, <1>3
<1>4. CASE i # Len(s) + 1
  <2>1. i \in 1 .. Len(s)
    BY <1>1, <1>2, <1>4
  <2> QED BY <1>1, <1>2, <2>1 DEF Passes
<1> QED BY <1>3, <1>4

LEMMA NoPass == ~Passes(<<>>)
BY DEF Passes

-------------------------------------------------------------------------------
(* The parts of the steps.                                                  *)

LEMMA MishapIs ==
    ASSUME LinkTypeOK, Mishap \/ mishaps' = mishaps
    PROVE  /\ mishaps' \in 0 .. MaxMishap
           /\ mishaps' = 0 => mishaps = 0 /\ ~Mishap
<1>1. mishaps \in 0 .. MaxMishap /\ MaxMishap \in Nat
  BY Constants DEF LinkTypeOK
<1> QED BY <1>1 DEF Mishap

LEMMA AskIs ==
    ASSUME LinkTypeOK, NEW m \in Messages, Ask(m)
    PROVE  /\ air' \in Seq(Messages) /\ Len(air') <= MaxAir
           /\ mishaps' \in 0 .. MaxMishap
           /\ air' = air \/ (air' = Append(air, m) /\ Len(air') > Len(air))
           /\ mishaps' = 0 => mishaps = 0 /\ (Up => air' = Append(air, m))
<1>1. air \in Seq(Messages) /\ Len(air) <= MaxAir /\ Len(air) \in Nat /\ MaxAir \in Nat
  BY Constants DEF LinkTypeOK
<1>2. Append(air, m) \in Seq(Messages) /\ Len(Append(air, m)) = Len(air) + 1
  BY <1>1
<1>3. CASE ~Up /\ UNCHANGED <<air, mishaps>>
  BY <1>1, <1>3, MishapIs
<1>4. CASE Len(air) < MaxAir /\ air' = Append(air, m) /\ mishaps' = mishaps
  <2>1. Len(air') = Len(air) + 1
    BY <1>2, <1>4
  <2>2. air' \in Seq(Messages)
    BY <1>2, <1>4
  <2>3. Len(air') <= MaxAir /\ Len(air') > Len(air)
    BY <1>1, <1>4, <2>1
  <2> QED BY <1>4, <2>2, <2>3, MishapIs
<1>5. CASE Mishap /\ air' = air
  BY <1>1, <1>5, MishapIs
<1> QED BY <1>3, <1>4, <1>5 DEF Ask

LEMMA GotIs ==
    ASSUME LinkTypeOK, NEW m, Got(m)
    PROVE  /\ m \in Messages
           /\ queue' \in Seq(Messages) /\ Len(queue') <= QueueLen
           /\ Passes(queue') => Passes(queue)
           /\ m.kind = "result" /\ m.good => Passes(queue)
           /\ \A x : queue = <<x>> => m = x /\ queue' = <<>>
<1>1. queue \in Seq(Messages) /\ Len(queue) <= QueueLen /\ Len(queue) \in Nat
      /\ QueueLen \in Nat /\ queue # <<>> /\ m = Head(queue) /\ queue' = Tail(queue)
  BY Constants DEF LinkTypeOK, Got
<1>2. m \in Messages /\ Tail(queue) \in Seq(Messages) /\ Len(Tail(queue)) = Len(queue) - 1
  BY <1>1, HeadTailProperties
<1>3. Len(queue') <= QueueLen
  BY <1>1, <1>2
<1>4. \A x : Head(<<x>>) = x /\ Tail(<<x>>) = <<>>
  OBVIOUS
<1> QED BY <1>1, <1>2, <1>3, <1>4, PassesTail

LEMMA TimeUpIs ==
    ASSUME LinkTypeOK, TimeUp
    PROVE  /\ mishaps' \in 0 .. MaxMishap
           /\ mishaps' = 0 => mishaps = 0 /\ air = <<>>
           /\ queue = <<>>
BY MishapIs DEF TimeUp

-------------------------------------------------------------------------------
(* The worker of CC BJDC.                                                   *)

Kept == LinkTypeOK' /\ BjdcTypeOK' /\ PassInv' /\ (mishaps' = 0 => StepInv')

LEMMA VerifyReqKeeps ==
    ASSUME LinkTypeOK, BjdcTypeOK, PassInv, mishaps = 0 => StepInv, VerifyReq
    PROVE  Kept
<1> DEFINE x == [kind |-> "seq", good |-> TRUE]
<1>1. air \in Seq(Messages) /\ queue \in Seq(Messages) /\ Len(air) \in Nat /\ MaxAir \in Nat
      /\ x \in Messages /\ x.kind # "result"
  BY Constants, MessagesAre DEF LinkTypeOK
<1>2. worker = "verify" /\ worker' = "seq" /\ UNCHANGED <<conn, req, rx, accepted, beat>>
  BY DEF VerifyReq, Go
<1> HIDE DEF x
<1>3. CASE /\ Up /\ Len(air) < MaxAir
           /\ air' = Append(Staled(air), x) /\ queue' = Staled(queue) /\ UNCHANGED mishaps
  <2>1. /\ Staled(air) \in Seq(Messages) /\ Len(Staled(air)) = Len(air)
        /\ Staled(queue) \in Seq(Messages) /\ Len(Staled(queue)) = Len(queue)
        /\ Passes(Staled(air)) => Passes(air)
        /\ Passes(Staled(queue)) => Passes(queue)
    BY <1>1, StaledIs
  <2>2. air' \in Seq(Messages) /\ Len(air') = Len(air) + 1
    BY <1>1, <1>3, <2>1
  <2>3. LinkTypeOK' /\ BjdcTypeOK'
    <3>1. Len(air') <= MaxAir
      BY <1>1, <1>3, <2>2
    <3> QED BY <1>2, <1>3, <2>1, <2>2, <3>1 DEF LinkTypeOK, BjdcTypeOK
  <2>4. Passes(air') => Passes(air)
    BY <1>1, <1>3, <2>1, PassesAppend
  <2>5. PassInv'
    BY <1>2, <1>3, <2>1, <2>4 DEF PassInv
  <2>6. ASSUME mishaps' = 0 PROVE StepInv'
    <3>1. StepInv /\ queue = <<>> /\ air = <<>>
      BY <1>2, <1>3, <2>6 DEF StepInv
    <3>2. Staled(<<>>) = <<>>
      <4>1. <<>> \in Seq(Messages) /\ Len(<<>>) = 0
        OBVIOUS
      <4>2. Staled(<<>>) \in Seq(Messages) /\ Len(Staled(<<>>)) = 0
        BY <4>1, StaledIs
      <4> QED BY <4>2, EmptySeq
    <3>3. Append(<<>>, x) = <<x>>
      OBVIOUS
    <3>4. queue' = <<>> /\ air' = <<x>>
      BY <1>3, <3>1, <3>2, <3>3
    <3> QED BY <1>2, <3>1, <3>4 DEF StepInv, Only, x
  <2> QED BY <2>3, <2>5, <2>6 DEF Kept
<1>4. CASE UNCHANGED <<air, queue>> /\ (Mishap \/ (~Up /\ UNCHANGED mishaps))
  <2>1. LinkTypeOK' /\ BjdcTypeOK'
    BY <1>2, <1>4, MishapIs DEF LinkTypeOK, BjdcTypeOK
  <2>2. PassInv'
    BY <1>2, <1>4 DEF PassInv
  <2>3. mishaps' # 0
    BY <1>4, MishapIs DEF StepInv, Up
  <2> QED BY <2>1, <2>2, <2>3 DEF Kept
<1> QED BY <1>3, <1>4 DEF VerifyReq, x

LEMMA TakeSeqKeeps ==
    ASSUME LinkTypeOK, BjdcTypeOK, PassInv, mishaps = 0 => StepInv, TakeSeq
    PROVE  Kept
<1>1. PICK m \in Messages : /\ worker = "seq" /\ Got(m) /\ UNCHANGED <<conn, req, rx, beat>>
         /\ IF m.kind = "seq"
              THEN /\ Go("result")
                   /\ Ask([kind |-> "result", good |-> m.good])
                   /\ accepted' = (accepted \/ (m.good /\ Len(air') > Len(air)))
              ELSE Go("verify") /\ UNCHANGED <<air, mishaps, accepted>>
  BY DEF TakeSeq
<1>2. /\ queue' \in Seq(Messages) /\ Len(queue') <= QueueLen /\ m.good \in BOOLEAN
      /\ Passes(queue') => Passes(queue)
      /\ \A y : queue = <<y>> => m = y /\ queue' = <<>>
  BY <1>1, GotIs DEF Messages
<1>3. air \in Seq(Messages)
  BY DEF LinkTypeOK
<1>4. mishaps = 0 => /\ conn = "up" /\ ~req /\ rx = "clean" /\ air = <<>>
                     /\ m = [kind |-> "seq", good |-> TRUE] /\ queue' = <<>>
  BY <1>1, <1>2 DEF StepInv, Only, Got
<1>5. CASE m.kind = "seq"
  <2> DEFINE x == [kind |-> "result", good |-> m.good]
  <2>1. x \in Messages /\ x.good = m.good
    BY <1>2, MessagesAre
  <2> HIDE DEF x
  <2>2. Ask(x) /\ worker' = "result"
        /\ accepted' = (accepted \/ (m.good /\ Len(air') > Len(air)))
    BY <1>1, <1>5 DEF Go, x
  <2>3. /\ air' \in Seq(Messages) /\ Len(air') <= MaxAir /\ mishaps' \in 0 .. MaxMishap
        /\ air' = air \/ (air' = Append(air, x) /\ Len(air') > Len(air))
        /\ mishaps' = 0 => mishaps = 0 /\ (Up => air' = Append(air, x))
    BY <2>1, <2>2, AskIs
  <2>4. LinkTypeOK'
    BY <1>1, <1>2, <2>3 DEF LinkTypeOK
  <2>5. accepted' \in BOOLEAN
    BY <2>2
  <2>6. BjdcTypeOK'
    BY <1>1, <2>2, <2>5 DEF BjdcTypeOK
  <2>7. Passes(air') => accepted'
    <3>1. CASE air' = air
      BY <2>2, <3>1 DEF PassInv
    <3>2. CASE air' = Append(air, x) /\ Len(air') > Len(air)
      BY <1>3, <2>1, <2>2, <3>2, PassesAppend DEF PassInv
    <3> QED BY <2>3, <3>1, <3>2
  <2>8. Passes(queue') => accepted'
    BY <1>2, <2>2 DEF PassInv
  <2>9. PassInv'
    BY <2>2, <2>7, <2>8 DEF PassInv
  <2>10. ASSUME mishaps' = 0 PROVE StepInv'
    <3>1. Append(<<>>, x) = <<x>>
      OBVIOUS
    <3>2. air' = <<x>> /\ queue' = <<>>
      BY <1>4, <2>3, <2>10, <3>1 DEF Up
    <3>3. x = [kind |-> "result", good |-> TRUE]
      <4>1. m = [kind |-> "seq", good |-> TRUE]
        BY <1>4, <2>3, <2>10
      <4>2. m.good = TRUE
        BY <4>1
      <4> QED BY <4>2 DEF x
    <3> QED BY <1>1, <1>4, <2>2, <2>3, <2>10, <3>2, <3>3 DEF StepInv, Only
  <2> QED BY <2>4, <2>6, <2>9, <2>10 DEF Kept
<1>6. CASE m.kind # "seq"
  <2>1. worker' = "verify" /\ UNCHANGED <<air, mishaps, accepted>>
    BY <1>1, <1>6 DEF Go
  <2>2. LinkTypeOK' /\ BjdcTypeOK'
    BY <1>1, <1>2, <2>1 DEF LinkTypeOK, BjdcTypeOK
  <2>3. PassInv'
    BY <1>2, <2>1 DEF PassInv
  <2>4. mishaps' # 0
    BY <1>4, <1>6, <2>1
  <2> QED BY <2>2, <2>3, <2>4 DEF Kept
<1> QED BY <1>5, <1>6

LEMMA TakeResultKeeps ==
    ASSUME LinkTypeOK, BjdcTypeOK, PassInv, mishaps = 0 => StepInv, TakeResult
    PROVE  Kept
<1>1. PICK m \in Messages :
         /\ worker = "result" /\ Got(m) /\ beat' = FALSE /\ UNCHANGED <<conn, rx, accepted>>
         /\ \/ /\ m.kind = "result" /\ m.good
               /\ Go("report") /\ Ask(Msg("other")) /\ UNCHANGED req
            \/ /\ m.kind = "result" /\ ~m.good
               /\ GiveUp /\ UNCHANGED <<air, mishaps>>
            \/ /\ m.kind # "result"
               /\ Go("verify") /\ UNCHANGED <<req, air, mishaps>>
  BY DEF TakeResult
<1>2. /\ queue' \in Seq(Messages) /\ Len(queue') <= QueueLen
      /\ Passes(queue') => Passes(queue)
      /\ m.kind = "result" /\ m.good => Passes(queue)
      /\ \A y : queue = <<y>> => m = y /\ queue' = <<>>
  BY <1>1, GotIs
<1>3. air \in Seq(Messages)
  BY DEF LinkTypeOK
<1>4. mishaps = 0 => /\ conn = "up" /\ ~req /\ rx = "clean"
                     /\ m.kind = "result" /\ m.good
  BY <1>1, <1>2 DEF StepInv, Only, Got
<1>5. CASE m.kind = "result" /\ m.good /\ Go("report") /\ Ask(Msg("other")) /\ UNCHANGED req
  <2>1. Msg("other") \in Messages /\ Msg("other").kind # "result"
    BY MessagesAre DEF Msg
  <2>2. /\ air' \in Seq(Messages) /\ Len(air') <= MaxAir /\ mishaps' \in 0 .. MaxMishap
        /\ air' = air \/ air' = Append(air, Msg("other"))
        /\ mishaps' = 0 => mishaps = 0
    BY <1>5, <2>1, AskIs
  <2>3. LinkTypeOK' /\ BjdcTypeOK'
    BY <1>1, <1>2, <1>5, <2>2 DEF LinkTypeOK, BjdcTypeOK, Go
  <2>4. accepted'
    BY <1>1, <1>2, <1>5 DEF PassInv
  <2>5. StepInv' \/ mishaps' # 0
    BY <1>1, <1>4, <1>5, <2>2 DEF StepInv, Go
  <2> QED BY <2>3, <2>4, <2>5 DEF Kept, PassInv
<1>6. CASE ~(m.kind = "result" /\ m.good) /\ UNCHANGED <<air, mishaps>>
           /\ worker' \in {"verify", "delay"} /\ req' \in BOOLEAN
  <2>1. LinkTypeOK' /\ BjdcTypeOK'
    BY <1>1, <1>2, <1>6 DEF LinkTypeOK, BjdcTypeOK
  <2>2. PassInv'
    BY <1>1, <1>2, <1>6 DEF PassInv
  <2>3. mishaps' # 0
    BY <1>4, <1>6
  <2> QED BY <2>1, <2>2, <2>3 DEF Kept
<1>7. req \in BOOLEAN
  BY DEF LinkTypeOK
<1> QED BY <1>1, <1>5, <1>6, <1>7 DEF Go, GiveUp

\* Running out of time, waiting and the rounds of the report loop.
LEMMA TimeKeeps ==
    ASSUME LinkTypeOK, BjdcTypeOK, PassInv, mishaps = 0 => StepInv,
           NoSeq \/ NoResult \/ Delay
    PROVE  Kept
<1>1. /\ air' = air /\ queue' = queue /\ UNCHANGED <<conn, rx, accepted, beat>>
      /\ worker' \in {"verify", "delay"} /\ req' \in BOOLEAN
      /\ worker \in {"seq", "result", "delay"}
  <2>1. req \in BOOLEAN
    BY DEF LinkTypeOK
  <2> QED BY <2>1 DEF NoSeq, NoResult, Delay, GiveUp, Go, TimeUp
<1>2. mishaps' \in 0 .. MaxMishap /\ mishaps' # 0
  <2>1. CASE worker \in {"seq", "result"}
    <3>1. TimeUp
      BY <2>1 DEF NoSeq, NoResult, Delay
    <3>2. mishaps' = 0 => mishaps = 0 /\ queue = <<>> /\ air = <<>>
      BY <3>1, TimeUpIs
    <3> QED BY <2>1, <3>1, <3>2, TimeUpIs DEF StepInv, Only
  <2>2. CASE worker = "delay"
    <3>1. mishaps # 0 /\ (Mishap \/ mishaps' = mishaps)
      BY <2>2 DEF StepInv, NoSeq, NoResult, Delay
    <3> QED BY <3>1, MishapIs
  <2> QED BY <1>1, <2>1, <2>2
<1>3. LinkTypeOK' /\ BjdcTypeOK'
  BY <1>1, <1>2 DEF LinkTypeOK, BjdcTypeOK
<1>4. PassInv'
  BY <1>1 DEF PassInv
<1> QED BY <1>2, <1>3, <1>4 DEF Kept

LEMMA ReportKeeps ==
    ASSUME LinkTypeOK, BjdcTypeOK, PassInv, mishaps = 0 => StepInv, Report
    PROVE  Kept
<1>1. worker = "report" /\ worker' = "report" /\ UNCHANGED <<conn, req, rx, accepted>>
  BY DEF Report
<1>2. accepted'
  BY <1>1 DEF PassInv
<1>3. queue' \in Seq(Messages) /\ Len(queue') <= QueueLen
  <2>1. CASE queue' = queue
    BY <2>1 DEF LinkTypeOK
  <2>2. CASE \E m \in Messages : Got(m)
    BY <2>2, GotIs
  <2> QED BY <2>1, <2>2 DEF Report
<1>4. /\ air' \in Seq(Messages) /\ Len(air') <= MaxAir /\ mishaps' \in 0 .. MaxMishap
      /\ mishaps' = 0 => mishaps = 0
  <2>1. CASE Ask(Msg("time"))
    BY <2>1, AskIs, MessagesAre
  <2>2. CASE UNCHANGED <<air, mishaps>>
    BY <2>2, MishapIs DEF LinkTypeOK
  <2> QED BY <2>1, <2>2 DEF Report
<1>5. beat' \in BOOLEAN
  <2>1. beat' = beat \/ beat' = FALSE
    BY DEF Report
  <2> QED BY <2>1 DEF BjdcTypeOK
<1>6. LinkTypeOK' /\ BjdcTypeOK'
  BY <1>1, <1>3, <1>4, <1>5 DEF LinkTypeOK, BjdcTypeOK
<1>7. PassInv'
  BY <1>2 DEF PassInv
<1>8. mishaps' = 0 => StepInv'
  BY <1>1, <1>4 DEF StepInv
<1> QED BY <1>6, <1>7, <1>8 DEF Kept

LEMMA RestartKeeps ==
    ASSUME LinkTypeOK, Restart
    PROVE  Kept
<1>1. <<>> \in Seq(Messages) /\ Len(<<>>) = 0 /\ MaxAir >= 0 /\ QueueLen >= 0
  BY Constants
<1>2. /\ conn' = "up" /\ req' = FALSE /\ air' = <<>> /\ rx' = "clean" /\ queue' = <<>>
      /\ worker' = "verify" /\ accepted' = FALSE /\ beat' = FALSE /\ mishaps' = mishaps
  BY DEF Restart
<1>3. Len(air') <= MaxAir /\ Len(queue') <= QueueLen
  BY <1>1, <1>2
<1>4. air' \in Seq(Messages) /\ queue' \in Seq(Messages)
  BY <1>1, <1>2
<1>5. LinkTypeOK' /\ BjdcTypeOK'
  BY <1>2, <1>3, <1>4 DEF LinkTypeOK, BjdcTypeOK
<1>6. PassInv'
  BY <1>2, NoPass DEF PassInv
<1>7. StepInv'
  BY <1>2 DEF StepInv
<1> QED BY <1>5, <1>6, <1>7 DEF Kept

-------------------------------------------------------------------------------
(* The link, under either protocol.                                         *)

LinkStep(kinds, cuts, rests) ==
    Attempt \/ Connect \/ Fail \/ Drop(rests) \/ Deliver \/ Lose(cuts) \/ Push(kinds)

LEMMA LinkStepTypes ==
    ASSUME LinkTypeOK, NEW kinds, kinds \subseteq {"other", "restart"},
           NEW cuts, cuts \subseteq {"cut", "deaf"}, NEW rests,
           LinkStep(kinds, cuts, rests)
    PROVE  /\ LinkTypeOK'
           /\ Passes(queue') \/ Passes(air') => Passes(queue) \/ Passes(air)
<1>1. /\ air \in Seq(Messages) /\ queue \in Seq(Messages) /\ Len(air) \in Nat
      /\ Len(air) <= MaxAir /\ Len(queue) <= QueueLen /\ Len(queue) \in Nat
      /\ QueueLen \in Nat /\ MaxAir \in Nat /\ <<>> \in Seq(Messages) /\ Len(<<>>) = 0
  BY Constants DEF LinkTypeOK
<1>2. CASE Attempt \/ Connect \/ Fail
  <2>1. air' = air /\ queue' = queue /\ (Mishap \/ mishaps' = mishaps)
    BY <1>2 DEF Attempt, Connect, Fail
  <2>2. mishaps' \in 0 .. MaxMishap
    BY <2>1, MishapIs
  <2> QED BY <1>2, <2>1, <2>2 DEF LinkTypeOK, Attempt, Connect, Fail
<1>3. CASE Drop(rests) \/ Lose(cuts)
  <2>1. Ended({}) \/ Ended(cuts)
    BY <1>3 DEF Drop, Lose
  <2>2. mishaps' \in 0 .. MaxMishap
    BY <1>3, MishapIs DEF Drop, Lose
  <2>3. conn' = "idle" /\ air' = <<>> /\ queue' = Staled(queue) /\ req' = req
        /\ rx' \in {rx} \cup {"cut", "deaf"}
    BY <2>1 DEF Ended
  <2>4. queue' \in Seq(Messages) /\ Len(queue') = Len(queue) /\ (Passes(queue') => Passes(queue))
    BY <1>1, <2>3, StaledIs
  <2>5. Len(air') <= MaxAir /\ air' \in Seq(Messages)
    BY <1>1, <2>3
  <2>6. LinkTypeOK'
    BY <1>1, <2>2, <2>3, <2>4, <2>5 DEF LinkTypeOK
  <2> QED BY <2>3, <2>4, <2>6, NoPass
<1>4. CASE Deliver
  <2>1. /\ air # <<>> /\ air' = Tail(air) /\ rx' \in {rx, "clean"}
        /\ UNCHANGED <<conn, req, mishaps>>
        /\ queue' = queue \/ (Len(queue) < QueueLen /\ queue' = Append(queue, Head(air)))
    BY <1>4 DEF Deliver
  <2>2. air' \in Seq(Messages) /\ Len(air') = Len(air) - 1 /\ Head(air) \in Messages
    BY <1>1, <2>1, HeadTailProperties
  <2>3. Append(queue, Head(air)) \in Seq(Messages)
        /\ Len(Append(queue, Head(air))) = Len(queue) + 1
    BY <1>1, <2>2
  <2>4. Len(air') <= MaxAir
    BY <1>1, <2>2
  <2>5. Len(queue') <= QueueLen /\ queue' \in Seq(Messages)
    <3>1. CASE queue' = queue
      BY <1>1, <3>1
    <3>2. CASE Len(queue) < QueueLen /\ queue' = Append(queue, Head(air))
      BY <1>1, <2>3, <3>2
    <3> QED BY <2>1, <3>1, <3>2
  <2>6. LinkTypeOK'
    BY <2>1, <2>2, <2>4, <2>5 DEF LinkTypeOK
  <2>7. Passes(air') => Passes(air)
    BY <1>1, <2>1, PassesTail
  <2>8. Passes(queue') => Passes(queue) \/ Passes(air)
    <3>1. CASE queue' = Append(queue, Head(air))
      BY <1>1, <2>1, <2>2, <3>1, PassesAppend, PassesTail
    <3> QED BY <2>1, <3>1
  <2> QED BY <2>6, <2>7, <2>8
<1>5. CASE Push(kinds)
  <2>1. /\ Len(air) < MaxAir /\ Mishap /\ UNCHANGED <<conn, req, rx, queue>>
        /\ \E k \in {"other", "restart"} : air' = Append(air, Msg(k))
    BY <1>5 DEF Push
  <2>2. PICK m \in Messages : air' = Append(air, m) /\ m.kind # "result"
    <3>1. PICK k \in {"other", "restart"} : air' = Append(air, Msg(k))
      BY <2>1
    <3>2. Msg(k) \in Messages /\ Msg(k).kind # "result"
      BY <3>1, MessagesAre DEF Msg
    <3> QED BY <3>1, <3>2
  <2>3. air' \in Seq(Messages) /\ Len(air') = Len(air) + 1
    BY <1>1, <2>2
  <2>4. Len(air') <= MaxAir
    BY <1>1, <2>1, <2>3
  <2>5. mishaps' \in 0 .. MaxMishap
    BY <2>1, MishapIs
  <2>6. LinkTypeOK'
    BY <2>1, <2>3, <2>4, <2>5 DEF LinkTypeOK
  <2>7. Passes(air') => Passes(air)
    BY <1>1, <2>2, PassesAppend
  <2> QED BY <2>1, <2>6, <2>7
<1> QED BY <1>2, <1>3, <1>4, <1>5 DEF LinkStep

LEMMA LinkStepKeeps ==
    ASSUME LinkTypeOK, BjdcTypeOK, PassInv, mishaps = 0 => StepInv,
           UNCHANGED bjdcVars, NEW rests, LinkStep({"other", "restart"}, {"cut", "deaf"}, rests)
    PROVE  Kept
<1>1. LinkTypeOK' /\ (Passes(queue') \/ Passes(air') => Passes(queue) \/ Passes(air))
  BY LinkStepTypes
<1>2. BjdcTypeOK' /\ PassInv'
  BY <1>1 DEF bjdcVars, BjdcTypeOK, PassInv
<1>3. ASSUME mishaps' = 0 PROVE StepInv'
  <2>1. mishaps = 0 /\ ~Mishap /\ StepInv
    <3>1. Mishap \/ mishaps' = mishaps
      BY DEF LinkStep, Attempt, Connect, Fail, Drop, Deliver, Lose, Push
    <3> QED BY <1>3, <3>1, MishapIs
  <2>2. Deliver
    BY <2>1 DEF LinkStep, Attempt, Connect, Fail, Drop, Lose, Push, StepInv
  <2>3. /\ air # <<>> /\ air' = Tail(air) /\ rx' = "clean" /\ conn' = "up" /\ ~req'
        /\ queue' = IF Len(queue) < QueueLen THEN Append(queue, Head(air)) ELSE queue
    BY <2>1, <2>2 DEF Deliver, StepInv
  <2>4. ASSUME NEW m, Only(m) PROVE Only(m)'
    <3>1. queue = <<>> /\ air = <<m>>
      BY <2>3, <2>4 DEF Only
    <3>2. Tail(<<m>>) = <<>> /\ Head(<<m>>) = m /\ Append(<<>>, m) = <<m>> /\ Len(<<>>) = 0
      OBVIOUS
    <3>3. 0 < QueueLen
      BY Constants
    <3>4. queue' = <<m>> /\ air' = <<>>
      BY <2>3, <3>1, <3>2, <3>3
    <3> QED BY <3>4 DEF Only
  <2>5. worker' = worker
    BY DEF bjdcVars
  <2> QED BY <2>1, <2>3, <2>4, <2>5 DEF StepInv
<1> QED BY <1>1, <1>2, <1>3 DEF Kept

LEMMA BjdcKeeps ==
    ASSUME LinkTypeOK, BjdcTypeOK, PassInv, mishaps = 0 => StepInv, BjdcNext
    PROVE  Kept
<1>1. CASE BjdcWorker
  BY <1>1, VerifyReqKeeps, TakeSeqKeeps, TakeResultKeeps, TimeKeeps, ReportKeeps, RestartKeeps
     DEF BjdcWorker
<1>2. CASE BjdcLink
  <2>1. UNCHANGED bjdcVars /\ LinkStep({"other", "restart"}, {"cut", "deaf"}, BjdcRests)
    BY <1>2 DEF BjdcLink, LinkStep
  <2> QED BY <2>1, LinkStepKeeps
<1>3. CASE TwentySeconds
  <2>1. UNCHANGED linkVars /\ worker' = worker /\ accepted' = accepted /\ beat' = TRUE
    BY <1>3 DEF TwentySeconds
  <2>2. LinkTypeOK' /\ BjdcTypeOK'
    BY <2>1 DEF linkVars, LinkTypeOK, BjdcTypeOK
  <2>3. PassInv' /\ (mishaps' = 0 => StepInv')
    BY <2>1 DEF linkVars, PassInv, StepInv, Only
  <2> QED BY <2>2, <2>3 DEF Kept
<1> QED BY <1>1, <1>2, <1>3 DEF BjdcNext

-------------------------------------------------------------------------------
(* The worker of HJ/T 212.                                                  *)

\* A telegram that is not empty has a last variable.
LEMMA MaxIn ==
    ASSUME NEW n \in Nat, NEW S, S \subseteq 1 .. n, S # {}
    PROVE  Max(S) \in S
<1> DEFINE R == {ss \in Nat \X Nat : ss[1] < ss[2]}
           T == {n - x : x \in S}
<1>1. IsWellFoundedOn(R, Nat)
  BY NatLessThanWellFounded DEF OpToRel
<1>2. T \subseteq Nat /\ T # {}
  <2>1. ASSUME NEW x \in S PROVE n - x \in Nat
    <3>1. x \in 1 .. n
      BY <2>1
    <3> QED BY <3>1
  <2>2. PICK x \in S : TRUE
    OBVIOUS
  <2>3. n - x \in T
    BY <2>2
  <2> QED BY <2>1, <2>3
<1>3. PICK z \in T : \A y \in T : ~(<<y, z>> \in R)
  <2> HIDE DEF R, T
  <2> QED BY <1>1, <1>2, WFMin
<1>4. PICK x \in S : z = n - x
  BY <1>3
<1>5. ASSUME NEW y \in S PROVE x >= y
  <2>1. x \in Nat /\ y \in Nat /\ x <= n /\ y <= n
    BY <1>4
  <2>2. n - y \in T
    OBVIOUS
  <2>3. ~(n - y < n - x)
    <3>1. n - y < n - x => <<n - y, z>> \in R
      BY <1>4, <2>1
    <3> QED BY <1>3, <2>2, <3>1
  <2> QED BY <2>1, <2>3
<1>6. \E m \in S : \A y \in S : m >= y
  BY <1>4, <1>5
<1> QED BY <1>6 DEF Max

LEMMA CursorStays ==
    ASSUME HjtTypeOK, NEW k \in Kinds
    PROVE  Reported(k) \subseteq Items /\ NextNode(k) \in 0 .. Len(Nid)
<1>1. Reported(k) \subseteq Items
  BY DEF Reported, Ready, Block
<1>2. Items = 1 .. Len(Nid) /\ Len(Nid) \in Nat /\ node \in 0 .. Len(Nid)
  BY Constants DEF HjtTypeOK
<1>3. Reported(k) # {} => Max(Reported(k)) \in 0 .. Len(Nid)
  BY <1>1, <1>2, MaxIn
<1> QED BY <1>1, <1>2, <1>3 DEF NextNode

LEMMA HjtWorkerTypes ==
    ASSUME LinkTypeOK, HjtTypeOK, HjtWorker
    PROVE  LinkTypeOK' /\ HjtTypeOK'
<1>0. Msg("other") \in Messages
  BY MessagesAre
<1>1. CASE Login
  <2>1. LinkTypeOK'
    BY <1>0, <1>1, AskIs DEF Login, LinkTypeOK
  <2> QED BY <1>1, <2>1 DEF Login, HjtTypeOK, To, Averages, Cursor
<1>10. CASE LoginAgain
  <2>1. LinkTypeOK'
    BY <1>0, <1>10, AskIs DEF LoginAgain, LinkTypeOK
  <2> QED BY <1>10, <2>1 DEF LoginAgain, HjtTypeOK, To, Averages, Cursor
<1>2. CASE Verified
  <2>1. LinkTypeOK'
    BY <1>2, GotIs DEF Verified, LinkTypeOK
  <2> QED BY <1>2, <2>1 DEF Verified, HjtTypeOK, To, Averages, Cursor
<1>3. CASE NotVerified
  <2>1. LinkTypeOK'
    BY <1>3, TimeUpIs DEF NotVerified, LinkTypeOK
  <2> QED BY <1>3, <2>1 DEF NotVerified, HjtTypeOK, To, Averages, Cursor
<1>4. CASE Delayed
  <2>1. mishaps' \in 0 .. MaxMishap
    BY <1>4, MishapIs DEF Delayed, Dropped
  <2>2. LinkTypeOK'
    BY <1>4, <2>1 DEF Delayed, LinkTypeOK
  <2> QED BY <1>4, <2>2 DEF Delayed, HjtTypeOK, To, Averages, Cursor
<1>5. CASE UpdateAvg
  <2>1. LinkTypeOK'
    BY <1>5 DEF UpdateAvg, linkVars, LinkTypeOK
  <2>2. have' \in [Kinds -> SUBSET Items]
    BY <1>5 DEF UpdateAvg, HjtTypeOK
  <2> QED BY <1>5, <2>1, <2>2 DEF UpdateAvg, HjtTypeOK, To, Cursor
<1>6. CASE Wait
  <2>1. queue' \in Seq(Messages) /\ Len(queue') <= QueueLen /\ mishaps' \in 0 .. MaxMishap
    BY <1>6, GotIs, TimeUpIs, MishapIs DEF Wait, LinkTypeOK
  <2>2. LinkTypeOK'
    BY <1>6, <2>1 DEF Wait, LinkTypeOK
  <2> QED BY <1>6, <2>2 DEF Wait, HjtTypeOK, To, Averages, Cursor
<1>7. CASE Heartbeat
  <2>1. air' \in Seq(Messages) /\ Len(air') <= MaxAir /\ mishaps' \in 0 .. MaxMishap
    BY <1>0, <1>7, AskIs, MishapIs DEF Heartbeat, LinkTypeOK
  <2>2. LinkTypeOK'
    BY <1>7, <2>1 DEF Heartbeat, LinkTypeOK
  <2>3. kind' = 1 /\ node' = 0 /\ 1 \in 1 .. Len(Flags) + 1 /\ 0 \in 0 .. Len(Nid)
    BY <1>7, Constants DEF Heartbeat
  <2>4. quarter' \in BOOLEAN /\ hjt' = "report" /\ UNCHANGED <<have, due>>
    BY <1>7 DEF Heartbeat, HjtTypeOK, To, Averages
  <2> QED BY <2>2, <2>3, <2>4 DEF HjtTypeOK
<1>8. CASE ReportCall
  <2>1. mishaps' \in 0 .. MaxMishap /\ UNCHANGED <<conn, req, air, rx, queue, hjt, quarter>>
    BY <1>8, MishapIs DEF ReportCall
  <2>2. LinkTypeOK'
    BY <2>1 DEF LinkTypeOK
  <2> DEFINE k == Flags[kind]
  <2>3. kind \in 1 .. Len(Flags) /\ k \in Kinds /\ Len(Flags) \in Nat
    BY <1>8, Constants DEF ReportCall, HjtTypeOK, Kinds
  <2>4. Reported(k) \subseteq Items /\ NextNode(k) \in 0 .. Len(Nid) /\ 0 \in 0 .. Len(Nid)
    BY <2>3, CursorStays, Constants
  <2>5. kind' \in 1 .. Len(Flags) + 1
    <3>1. kind' = kind \/ kind' = kind + 1
      BY <1>8 DEF ReportCall
    <3> QED BY <2>3, <3>1
  <2>6. node' \in 0 .. Len(Nid)
    <3>1. node' \in {0, node, NextNode(k)}
      BY <1>8 DEF ReportCall
    <3> QED BY <2>4, <3>1 DEF HjtTypeOK
  <2>7. have' \in [Kinds -> SUBSET Items] /\ due' \in [Kinds -> SUBSET Items]
    <3>1. \/ UNCHANGED <<have, due>>
          \/ /\ have' = [have EXCEPT ![k] = @ \ Reported(k)]
             /\ due' = [due EXCEPT ![k] = @ \ Reported(k)]
      BY <1>8 DEF ReportCall, Averages
    <3> HIDE DEF k
    <3> QED BY <2>3, <3>1 DEF HjtTypeOK
  <2> QED BY <2>1, <2>2, <2>5, <2>6, <2>7 DEF HjtTypeOK
<1>9. CASE ReportsDone
  BY <1>9 DEF ReportsDone, LinkTypeOK, HjtTypeOK, To, linkVars, Averages, Cursor
<1> QED BY <1>1, <1>2, <1>3, <1>4, <1>5, <1>6, <1>7, <1>8, <1>9, <1>10 DEF HjtWorker

LEMMA HjtTypes ==
    ASSUME LinkTypeOK, HjtTypeOK, HjtNext
    PROVE  LinkTypeOK' /\ HjtTypeOK'
<1>1. CASE HjtWorker
  BY <1>1, HjtWorkerTypes
<1>2. CASE HjtLink
  <2>1. UNCHANGED hjtVars /\ LinkStep({"other"}, {"cut"}, HjtRests)
    BY <1>2 DEF HjtLink, LinkStep
  <2>2. LinkTypeOK'
    BY <2>1, LinkStepTypes
  <2> QED BY <2>1, <2>2 DEF hjtVars, HjtTypeOK
<1>3. CASE FifteenMinutes
  BY <1>3 DEF FifteenMinutes, LinkTypeOK, HjtTypeOK, linkVars, Averages, Cursor
<1>4. ASSUME NEW k \in Kinds, NEW i \in Items, ItemDue(k, i)
      PROVE  LinkTypeOK' /\ HjtTypeOK'
  <2>1. due' \in [Kinds -> SUBSET Items]
    BY <1>4 DEF ItemDue, HjtTypeOK
  <2> QED BY <1>4, <2>1 DEF ItemDue, LinkTypeOK, HjtTypeOK, linkVars, Cursor
<1> QED BY <1>1, <1>2, <1>3, <1>4 DEF HjtNext, HjtTime

-------------------------------------------------------------------------------
LEMMA InitIInv == Init => IInv
<1> SUFFICES ASSUME Init PROVE IInv
  OBVIOUS
<1>1. LinkTypeOK
  <2>1. <<>> \in Seq(Messages) /\ Len(<<>>) = 0 /\ 0 <= MaxAir /\ 0 <= QueueLen
        /\ 0 \in 0 .. MaxMishap
    BY Constants
  <2>2. air = <<>> /\ queue = <<>> /\ conn = "up" /\ req = FALSE /\ rx = "clean" /\ mishaps = 0
    BY DEF Init, LinkInit
  <2>3. Len(air) <= MaxAir /\ Len(queue) <= QueueLen
    BY <2>1, <2>2
  <2>4. air \in Seq(Messages) /\ queue \in Seq(Messages)
    BY <2>1, <2>2
  <2> QED BY <2>1, <2>2, <2>3, <2>4 DEF LinkTypeOK
<1>2. BjdcTypeOK
  BY DEF Init, BjdcInit, BjdcTypeOK
<1>3. HjtTypeOK
  <2>1. 1 \in 1 .. Len(Flags) + 1 /\ 0 \in 0 .. Len(Nid)
    BY Constants
  <2> QED BY <2>1 DEF Init, HjtInit, HjtTypeOK
<1>4. PassInv /\ StepInv
  BY NoPass DEF Init, LinkInit, BjdcInit, PassInv, StepInv
<1> QED BY <1>1, <1>2, <1>3, <1>4 DEF Init, IInv, TypeOK

LEMMA NextIInv == IInv /\ [Next]_vars => IInv'
<1> SUFFICES ASSUME IInv, [Next]_vars PROVE IInv'
  OBVIOUS
<1>0. LinkTypeOK /\ BjdcTypeOK /\ HjtTypeOK
  BY DEF IInv, TypeOK
<1>1. CASE Bjdc(BjdcNext)
  <2>1. proto = "CC_BJDC" /\ BjdcNext /\ UNCHANGED <<hjtVars, proto>>
    BY <1>1 DEF Bjdc
  <2>2. Kept
    BY <1>0, <2>1, BjdcKeeps DEF IInv
  <2>3. HjtTypeOK'
    BY <1>0, <2>1 DEF hjtVars, HjtTypeOK
  <2> QED BY <2>1, <2>2, <2>3 DEF Kept, IInv, TypeOK
<1>2. CASE Hjt(HjtNext)
  <2>1. proto = "HJT212" /\ HjtNext /\ UNCHANGED <<bjdcVars, proto>>
    BY <1>2 DEF Hjt
  <2>2. LinkTypeOK' /\ HjtTypeOK'
    BY <1>0, <2>1, HjtTypes
  <2>3. BjdcTypeOK'
    BY <1>0, <2>1 DEF bjdcVars, BjdcTypeOK
  <2> QED BY <2>1, <2>2, <2>3 DEF IInv, TypeOK
<1>3. CASE UNCHANGED vars
  BY <1>3 DEF vars, linkVars, bjdcVars, hjtVars, IInv, TypeOK, LinkTypeOK, BjdcTypeOK,
              HjtTypeOK, PassInv, StepInv, Only
<1> QED BY <1>1, <1>2, <1>3 DEF Next

LEMMA SpecIInv == Spec => []IInv
BY InitIInv, NextIInv, PTL DEF Spec

\* The queue keeps its three messages at most, and the cursor of the report
\* functions stays on the list of variables or NULL.
THEOREM TypeCorrect == Spec => []TypeOK
BY SpecIInv, PTL DEF IInv

\* Whatever is lost, late, stale or cut off: cc_bjdc_work_task enters its report
\* loop only after the server has passed a digest since the last boot.
THEOREM ReportsFollowPass == Spec => []ReportsAfterPass
<1>1. IInv => ReportsAfterPass
  BY DEF IInv, PassInv, ReportsAfterPass
<1> QED BY <1>1, SpecIInv, PTL

\* While every request is answered in time on one connection, the one answer
\* that is under way is the one the worker of CC BJDC waits for.
THEOREM HandshakeInStep == Spec => []InStep
<1>1. IInv => InStep
  <2> SUFFICES ASSUME IInv, proto = "CC_BJDC", mishaps = 0 PROVE Aligned
    BY DEF InStep
  <2>1. StepInv
    BY DEF IInv
  <2>2. ASSUME NEW m \in Messages, Only(m) PROVE queue \o air = <<m>>
    <3>1. <<m>> \in Seq(Messages)
      OBVIOUS
    <3> QED BY <2>2, <3>1, ConcatEmptySeq DEF Only
  <2>3. worker = "verify" => Handshake(queue \o air) = {}
    <3> SUFFICES ASSUME worker = "verify" PROVE Handshake(queue \o air) = {}
      OBVIOUS
    <3>1. queue = <<>> /\ air = <<>>
      BY <2>1 DEF StepInv
    <3>2. queue \o air = <<>>
      BY <3>1
    <3>3. DOMAIN <<>> = {}
      OBVIOUS
    <3> QED BY <3>2, <3>3 DEF Handshake
  <2> QED BY <2>1, <2>2, <2>3, MessagesAre DEF StepInv, Aligned
<1> QED BY <1>1, SpecIInv, PTL
===============================================================================
