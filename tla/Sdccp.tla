--------------------------------- MODULE Sdccp ---------------------------------
(***************************************************************************)
(* A link with an upward protocol (cc_net_open of sdccp_net.c): the        *)
(* configuration says which of the two protocols it speaks, and the worker *)
(* of that one runs over the link, its receiver and its queue.             *)
(***************************************************************************)
EXTENDS BjdcSession, Hjt212

VARIABLE proto      \* proto_type of the link's configuration

vars == <<linkVars, bjdcVars, hjtVars, proto>>

TypeOK == LinkTypeOK /\ BjdcTypeOK /\ HjtTypeOK /\ proto \in {"CC_BJDC", "HJT212"}

\* cc_net_open and startwork of either protocol.
Init == /\ LinkInit /\ BjdcInit /\ HjtInit
        /\ proto \in {"CC_BJDC", "HJT212"}

Bjdc(A) == proto = "CC_BJDC" /\ A /\ UNCHANGED <<hjtVars, proto>>
Hjt(A)  == proto = "HJT212"  /\ A /\ UNCHANGED <<bjdcVars, proto>>

Next == Bjdc(BjdcNext) \/ Hjt(HjtNext)

Spec == Init /\ [][Next]_vars

\* The workers run, the link comes up again and is dropped when
\* that is asked for, and what was sent arrives.
Fairness ==
    /\ WF_vars(Bjdc(BjdcWorker)) /\ WF_vars(Hjt(HjtWorker))
    /\ WF_vars(Bjdc((Attempt \/ Connect \/ Drop(BjdcRests)) /\ UNCHANGED bjdcVars))
    /\ WF_vars(Hjt((Attempt \/ Connect \/ Drop(HjtRests)) /\ UNCHANGED hjtVars))
    /\ WF_vars(Bjdc(Deliver /\ UNCHANGED bjdcVars))
    /\ WF_vars(Hjt(Deliver /\ UNCHANGED hjtVars))

FairSpec == Spec /\ Fairness

-------------------------------------------------------------------------------
(* CC BJDC.                                                                 *)

\* Without a mishap each answer the worker has not taken yet is the one it is
\* waiting for, and its digest is of the server's last sequence.
InStep == proto = "CC_BJDC" /\ mishaps = 0 => Aligned

\* The worker reports only to a server that has passed one of its digests.
ReportsAfterPass == proto = "CC_BJDC" /\ worker = "report" => accepted

\* The handshake comes to its end, unless a mishap has put requests and answers
\* out of step for good: nothing in the code gets them back in step.
HandshakeSettles == proto = "CC_BJDC" => []<>(worker = "report") \/ <>[](~Aligned)

(* HJ/T 212.                                                                *)

\* hjt212.c:1375, "every 15 minutes, send a heartbeat once": the login that
\* falls due is sent, since every round of reports comes to its end.
HeartbeatGoesOut == []<>(~quarter)

\* An average whose time has come is put into a telegram, in this round of
\* reports or a later one: until then it is neither emptied nor put off.
DataReported == \A i \in Items, k \in Kinds :
    []<>(i \notin have[k] \cap due[k])
===============================================================================
