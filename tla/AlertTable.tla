---------------------------- MODULE AlertTable ----------------------------
(***************************************************************************)
(* What alert storage promises to the client: a table holding at most one  *)
(* alert for each token.  A call takes effect exactly when it answers TRUE, *)
(* and a restart of the device empties the table, because the sample port  *)
(* keeps its blobs in RAM.  AiaStorage is the implementation.              *)
(***************************************************************************)

CONSTANTS Token, ScheduledTime, Duration, AlertType

VARIABLES
    alerts,     \* the alerts the table holds
    reply       \* the last call on the table and its answer

vars == <<alerts, reply>>

Alert == [token         : Token,
          scheduledTime : ScheduledTime,
          duration      : Duration,
          alertType     : AlertType]

NoReply == [call |-> "none"]

Reply ==
    {NoReply}
    \cup [call : {"store"}, alert : Alert, ok : BOOLEAN]
    \cup [call : {"delete"}, token : Token, ok : BOOLEAN]
    \cup [call : {"load"}, alerts : SUBSET Alert, ok : BOOLEAN]

\* The table without any alert of token t.
Without(t) == {a \in alerts : a.token # t}

Init == /\ alerts = {}
        /\ reply = NoReply

\* Insert a, or replace the alert that has its token.
Store(a, ok) ==
    /\ alerts' = IF ok THEN Without(a.token) \cup {a} ELSE alerts
    /\ reply' = [call |-> "store", alert |-> a, ok |-> ok]

\* Remove the alert of token t.  There need not be one.
Delete(t, ok) ==
    /\ alerts' = IF ok THEN Without(t) ELSE alerts
    /\ reply' = [call |-> "delete", token |-> t, ok |-> ok]

Load(ok) ==
    /\ reply' = [call |-> "load", alerts |-> IF ok THEN alerts ELSE {}, ok |-> ok]
    /\ UNCHANGED alerts

Lose == /\ alerts' = {}
        /\ reply' = NoReply

Next ==
    \/ \E ok \in BOOLEAN :
        \/ \E a \in Alert : Store(a, ok)
        \/ \E t \in Token : Delete(t, ok)
        \/ Load(ok)
    \/ Lose

Spec == Init /\ [][Next]_vars
===========================================================================
