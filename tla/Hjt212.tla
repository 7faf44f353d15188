-------------------------------- MODULE Hjt212 --------------------------------
(***************************************************************************)
(* The worker of the HJ/T 212 protocol (hjt212_work_task of hjt212.c).  It *)
(* logs in, waits for any answer if it is configured to, and then goes     *)
(* round a loop: add the readable variables to their averages, wait up to  *)
(* 5 seconds for a message, log in again every 15 minutes, and report the  *)
(* averages whose time has come, in telegrams of one device (nid) each.    *)
(*                                                                         *)
(* A step is what the worker does from one wait to the next, or one call   *)
(* of a report function.  Values and encodings are left out; the second    *)
(* calloc of a report, which the code does not check, succeeds.            *)
(***************************************************************************)
EXTENDS SdccpLink, FiniteSets, FiniteSetsExt

CONSTANTS
    Nid,        \* Nid[i]: the device of the i-th variable that goes up this link
    Flags,      \* the kinds of report that are configured, in their order
    VerifyFlag, \* verify_flag
    Room        \* how many variables fit into the 960 bytes of a telegram

Items == DOMAIN Nid
Kinds == {Flags[i] : i \in DOMAIN Flags}

ASSUME HjtAssumption ==
    /\ Nid \in Seq(Nat)
    /\ Flags \in {<<>>, <<"real">>, <<"min">>, <<"hour">>, <<"real", "min">>,
                  <<"real", "hour">>, <<"min", "hour">>, <<"real", "min", "hour">>}
    /\ VerifyFlag \in BOOLEAN
    /\ Room \in Nat \ {0}

VARIABLES
    hjt,        \* where the worker is
    have,       \* have[k]: the variables whose average of kind k is not empty
    due,        \* due[k]: the variables whose time for a report of kind k has come
    kind,       \* the place in Flags of the report that is being made
    node,       \* the cursor of the report functions, 0 for NULL
    quarter     \* 15 minutes since ulHeartbeatTick

hjtVars == <<hjt, have, due, kind, node, quarter>>

HjtTypeOK ==
    /\ hjt \in {"login", "again", "verify", "delay", "update", "recv", "heart", "report"}
    /\ have \in [Kinds -> SUBSET Items]
    /\ due \in [Kinds -> SUBSET Items]
    /\ kind \in 1 .. Len(Flags) + 1
    /\ node \in 0 .. Len(Nid)
    /\ quarter \in BOOLEAN

HjtInit ==
    /\ hjt = "login"
    /\ have = [k \in Kinds |-> {}] /\ due = [k \in Kinds |-> {}]
    /\ kind = 1 /\ node = 0 /\ quarter = FALSE

At(p) == hjt = p
To(p) == hjt' = p
Averages == <<have, due>>
Cursor   == <<kind, node>>

-------------------------------------------------------------------------------
\* net_waitconnect, then hjt212_login_verify_req, whose answer is not waited for
\* without verify_flag.
Login ==
    /\ At("login") /\ Up
    /\ Ask(Msg("other"))
    /\ To(IF VerifyFlag THEN "again" ELSE "update")
    /\ quarter' = FALSE
    /\ UNCHANGED <<conn, req, rx, queue, Averages, Cursor>>

\* With it the login is sent a second time, and an answer to either is waited
\* for; the other one comes as a message of the loop.
LoginAgain ==
    /\ At("again")
    /\ Ask(Msg("other"))
    /\ To("verify")
    /\ UNCHANGED <<conn, req, rx, queue, Averages, Cursor, quarter>>

\* 15 seconds for a message of any kind.
Verified ==
    /\ At("verify")
    /\ \E m \in Messages : Got(m)
    /\ To("update") /\ quarter' = FALSE
    /\ UNCHANGED <<conn, req, air, rx, mishaps, Averages, Cursor>>

NotVerified ==
    /\ At("verify") /\ TimeUp
    /\ req' = TRUE /\ To("delay")
    /\ UNCHANGED <<conn, air, rx, queue, Averages, Cursor, quarter>>

Delayed ==
    /\ At("delay") /\ To("login")
    /\ Dropped
    /\ UNCHANGED <<conn, req, air, rx, queue, Averages, Cursor, quarter>>

\* net_waitconnect; the variables that can be read are added to their averages.
UpdateAvg ==
    /\ At("update") /\ Up
    /\ \E readable \in SUBSET Items :
          have' = [k \in Kinds |-> have[k] \cup readable]
    /\ To("recv")
    /\ UNCHANGED <<linkVars, due, Cursor, quarter>>

\* rt_mq_recv for 5 seconds; no message changes anything.
Wait ==
    /\ At("recv")
    /\ \/ (\E m \in Messages : Got(m)) /\ UNCHANGED mishaps
       \/ TimeUp /\ UNCHANGED queue
    /\ To("heart")
    /\ UNCHANGED <<conn, req, air, rx, Averages, Cursor, quarter>>

\* The login of every 15 minutes; its answer is not waited for.
Heartbeat ==
    /\ At("heart")
    /\ IF quarter THEN Ask(Msg("other")) /\ quarter' = FALSE
                  ELSE UNCHANGED <<air, mishaps, quarter>>
    /\ To("report") /\ kind' = 1 /\ node' = 0
    /\ UNCHANGED <<conn, req, rx, queue, Averages>>

-------------------------------------------------------------------------------
(* The report functions: they take up the list after the cursor.            *)

\* The variables after the cursor up to the first one of another device.
Block == {i \in Items : i > node /\ \A j \in node + 1 .. i : Nid[j] = Nid[node + 1]}
Ready(k) == Block \cap have[k] \cap due[k]
\* Those that fit into the telegram.
Reported(k) == {i \in Ready(k) : Cardinality({j \in Ready(k) : j <= i}) <= Room}

\* Variant of NextNode: the variable that does not fit is left behind as well.
NextNodeSkips(k) ==
    IF Reported(k) # Ready(k) THEN Min(Ready(k) \ Reported(k))
    ELSE IF Len(Nid) \in Block \cup {node} THEN 0
    ELSE IF Reported(k) = {} THEN node ELSE Max(Reported(k))

\* Variant of NextNode: the cursor is moved by what is reported, and by nothing
\* else.
NextNodeStays(k) == IF Reported(k) = {} THEN node ELSE Max(Reported(k))

\* The cursor the function leaves: NULL at the end of the list, the last
\* variable it reported when it stops before, or as it was.
NextNode(k) ==
    IF Reported(k) = Ready(k) /\ Len(Nid) \in Block \cup {node} THEN 0
    ELSE IF Reported(k) = {} THEN node ELSE Max(Reported(k))

\* One call: what is reported is reset, whatever becomes of the telegram; the
\* worker calls again until the cursor is NULL.
ReportCall ==
    /\ At("report") /\ kind <= Len(Flags)
    /\ LET k == Flags[kind] IN
       \/ /\ have' = [have EXCEPT ![k] = @ \ Reported(k)]
          /\ due' = [due EXCEPT ![k] = @ \ Reported(k)]
          /\ IF NextNode(k) = 0 THEN kind' = kind + 1 /\ node' = 0
                                ELSE node' = NextNode(k) /\ UNCHANGED kind
          /\ UNCHANGED mishaps
       \* no memory for the telegram
       \/ /\ Mishap
          /\ kind' = IF node = 0 THEN kind + 1 ELSE kind
          /\ UNCHANGED <<Averages, node>>
    /\ UNCHANGED <<conn, req, air, rx, queue, hjt, quarter>>

ReportsDone ==
    /\ At("report") /\ kind = Len(Flags) + 1
    /\ To("update")
    /\ UNCHANGED <<linkVars, Averages, Cursor, quarter>>

-------------------------------------------------------------------------------
\* Time goes on: a report, or the login, falls due.
ItemDue(k, i) ==
    /\ i \notin due[k]
    /\ due' = [due EXCEPT ![k] = @ \cup {i}]
    /\ UNCHANGED <<linkVars, hjt, have, Cursor, quarter>>

FifteenMinutes ==
    /\ ~quarter /\ hjt \in {"update", "recv", "heart", "report"}
    /\ quarter' = TRUE
    /\ UNCHANGED <<linkVars, hjt, Averages, Cursor>>

HjtWorker == \/ Login \/ LoginAgain \/ Verified \/ NotVerified \/ Delayed
             \/ UpdateAvg \/ Wait \/ Heartbeat \/ ReportCall \/ ReportsDone
HjtTime == FifteenMinutes \/ \E k \in Kinds, i \in Items : ItemDue(k, i)

HjtRests == hjt = "delay" \/ (hjt \notin {"login", "again"} /\ queue = <<>>)

HjtLink == /\ \/ Attempt \/ Connect \/ Fail \/ Drop(HjtRests) \/ Deliver
              \/ Lose({"cut"}) \/ Push({"other"})
           /\ UNCHANGED hjtVars

HjtNext == HjtWorker \/ HjtLink \/ HjtTime
===============================================================================
