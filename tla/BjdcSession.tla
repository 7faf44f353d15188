------------------------------ MODULE BjdcSession ------------------------------
(***************************************************************************)
(* The worker of the CC BJDC protocol (cc_bjdc_work_task of cc_bjdc.c).    *)
(* It asks the server for a sequence, answers with a digest of it, waits   *)
(* for the verdict, and then reports for ever.  Answers are told apart by  *)
(* their kind alone, and nothing empties the queue between two attempts.   *)
(*                                                                         *)
(* A step is what the worker does from one wait to the next.  What it      *)
(* reports and how the messages are encoded is left out.                   *)
(***************************************************************************)
EXTENDS SdccpLink

VARIABLES
    worker,     \* where the worker is
    accepted,   \* the server has passed a digest since boot (history)
    beat        \* the last answer to a heartbeat is 20 seconds old

bjdcVars == <<worker, accepted, beat>>

BjdcTypeOK == /\ worker \in {"verify", "seq", "result", "delay", "report"}
              /\ accepted \in BOOLEAN /\ beat \in BOOLEAN

BjdcInit == worker = "verify" /\ accepted = FALSE /\ beat = FALSE

-------------------------------------------------------------------------------
Go(p) == worker' = p
\* cc_net_disconnect, and 5 seconds later from the start.
GiveUp == req' = TRUE /\ Go("delay")

\* cc_bjdc_verify_req.
VerifyReq ==
    /\ worker = "verify"
    /\ \/ /\ Up /\ Len(air) < MaxAir
          /\ air' = Append(Staled(air), [kind |-> "seq", good |-> TRUE])
          /\ queue' = Staled(queue)
          /\ UNCHANGED mishaps
       \/ ~Up
          /\ UNCHANGED <<air, queue, mishaps>>
       \/ Up /\ Mishap /\ UNCHANGED <<air, queue>>
    /\ Go("seq")
    /\ UNCHANGED <<conn, req, rx, accepted, beat>>

\* Variant of TakeSeq: the verdict is not waited for.
TakeSeqGoOn == \E m \in Messages :
    /\ worker = "seq" /\ Got(m)
    /\ Go("verify")
    /\ IF m.kind = "seq"
         THEN /\ Ask([kind |-> "result", good |-> m.good])
              /\ accepted' = (accepted \/ (m.good /\ Len(air') > Len(air)))
         ELSE UNCHANGED <<air, mishaps, accepted>>
    /\ UNCHANGED <<conn, req, rx, beat>>

\* 10 seconds for the sequence: cc_bjdc_checkmd5_req with the digest of it.
TakeSeq == \E m \in Messages :
    /\ worker = "seq" /\ Got(m)
    /\ IF m.kind = "seq"
         THEN /\ Go("result")
              /\ Ask([kind |-> "result", good |-> m.good])
              /\ accepted' = (accepted \/ (m.good /\ Len(air') > Len(air)))
         ELSE Go("verify") /\ UNCHANGED <<air, mishaps, accepted>>
    /\ UNCHANGED <<conn, req, rx, beat>>

NoSeq ==
    /\ worker = "seq" /\ TimeUp
    /\ GiveUp
    /\ UNCHANGED <<conn, air, rx, queue, accepted, beat>>

\* Variant of TakeResult: a verdict is taken for a pass.
TakeVerdict == \E m \in Messages :
    /\ worker = "result" /\ Got(m)
    /\ IF m.kind = "result"
         THEN Go("report") /\ Ask(Msg("other")) /\ UNCHANGED req
         ELSE Go("verify") /\ UNCHANGED <<req, air, mishaps>>
    /\ beat' = FALSE
    /\ UNCHANGED <<conn, rx, accepted>>

\* 5 seconds for the verdict: cc_bjdc_deviceinfo_req, if it is a pass.
TakeResult == \E m \in Messages :
    /\ worker = "result" /\ Got(m)
    /\ \/ /\ m.kind = "result" /\ m.good
          /\ Go("report") /\ Ask(Msg("other"))
          /\ UNCHANGED req
       \/ /\ m.kind = "result" /\ ~m.good
          /\ GiveUp
          /\ UNCHANGED <<air, mishaps>>
       \/ /\ m.kind # "result"
          /\ Go("verify")
          /\ UNCHANGED <<req, air, mishaps>>
    /\ beat' = FALSE
    /\ UNCHANGED <<conn, rx, accepted>>

\* Variant of NoResult: the worker waits on.
NoResultWaits ==
    /\ worker = "result" /\ TimeUp
    /\ UNCHANGED <<conn, req, air, rx, queue, bjdcVars>>

NoResult ==
    /\ worker = "result" /\ TimeUp
    /\ Go("verify")
    /\ UNCHANGED <<conn, req, air, rx, queue, accepted, beat>>

\* 5 seconds, in which the link comes up again; nothing waits for that.
Delay ==
    /\ worker = "delay" /\ Go("verify")
    /\ IF Up /\ ~req THEN UNCHANGED mishaps ELSE Mishap
    /\ UNCHANGED <<conn, req, air, rx, queue, accepted, beat>>

\* One round of the report loop: 2 seconds for a message, then the heartbeat,
\* which is sent in every round until the server answers.
Report ==
    /\ worker = "report"
    /\ \/ \E m \in Messages :
            /\ Got(m) /\ m.kind # "restart"
            /\ IF m.kind = "time" THEN beat' = FALSE /\ UNCHANGED <<air, mishaps>>
               ELSE /\ UNCHANGED beat
                    /\ IF beat THEN Ask(Msg("time")) ELSE UNCHANGED <<air, mishaps>>
       \/ /\ queue = <<>> /\ UNCHANGED queue
          /\ IF beat THEN Ask(Msg("time")) ELSE UNCHANGED <<air, mishaps>>
          /\ UNCHANGED beat
    /\ UNCHANGED <<conn, req, rx, worker, accepted>>

TwentySeconds ==
    /\ worker = "report" /\ ~beat
    /\ beat' = TRUE
    /\ UNCHANGED <<linkVars, worker, accepted>>

\* The order to restart: vDoSystemReset.
Restart ==
    /\ worker = "report" /\ queue # <<>> /\ Head(queue).kind = "restart"
    /\ conn' = "up" /\ req' = FALSE /\ air' = <<>> /\ rx' = "clean" /\ queue' = <<>>
    /\ worker' = "verify" /\ accepted' = FALSE /\ beat' = FALSE
    /\ UNCHANGED mishaps

BjdcWorker == \/ VerifyReq \/ TakeSeq \/ NoSeq \/ TakeResult \/ NoResult \/ Delay
              \/ Report \/ Restart

BjdcRests == worker = "delay" \/ (worker # "verify" /\ queue = <<>>)

BjdcLink == /\ \/ Attempt \/ Connect \/ Fail \/ Drop(BjdcRests) \/ Deliver
               \/ Lose({"cut", "deaf"}) \/ Push({"other", "restart"})
            /\ UNCHANGED bjdcVars

BjdcNext == BjdcWorker \/ BjdcLink \/ TwentySeconds

-------------------------------------------------------------------------------
Handshake(s) == {i \in DOMAIN s : s[i].kind \in {"seq", "result"}}

\* Every answer of the handshake that is on its way or queued is the one the
\* worker waits for.
Aligned ==
    LET coming == queue \o air IN
    /\ rx = "clean"
    /\ worker \in {"verify", "delay"} => Handshake(coming) = {}
    /\ worker = "seq"    => coming \in {<<>>, <<[kind |-> "seq", good |-> TRUE]>>}
    /\ worker = "result" => coming \in {<<>>, <<[kind |-> "result", good |-> TRUE]>>}
===============================================================================
