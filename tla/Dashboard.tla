------------------------------ MODULE Dashboard ------------------------------
(***************************************************************************)
(* One worker process of the dashboard: its threads serve requests that    *)
(* log in (module Login), health probes that do not, and the streams of    *)
(* /api/stream-alerts, each of which keeps its thread. The engine inserts  *)
(* alerts and retention deletes old ones while the streams compare MAX(id) *)
(* with the highest id they have seen.                                     *)
(***************************************************************************)
EXTENDS Login

CONSTANT MaxAlerts      \* bound on the alerts inserted

VARIABLES
    alerts,         \* the ids in the alerts table
    alertSeq,       \* its row in sqlite_sequence
    stream,         \* of a thread that streams: last_seen_id, whether the browser has
                    \* left, and (history) whether an alert is still to be told
    probe           \* a health probe is waiting for a thread

streamVars == <<alerts, alertSeq, stream, probe>>
dashboardVars == <<vars, streamVars>>

NoStream == [seen |-> 0, gone |-> FALSE, owes |-> FALSE]

Streaming(t) == thread[t] = "streaming"

DashboardTypeOK ==
    /\ ThreadTypeOK(Steps \cup {"streaming"})
    /\ alertSeq \in Nat /\ alerts \subseteq 1 .. alertSeq
    /\ stream \in [Threads -> [seen : Nat, gone : BOOLEAN, owes : BOOLEAN]]
    /\ \A t \in Threads : ~Streaming(t) => stream[t] = NoStream
    /\ probe \in BOOLEAN

DashboardInit ==
    /\ Init
    /\ alerts = {} /\ alertSeq = 0
    /\ stream = [t \in Threads |-> NoStream]
    /\ probe = FALSE

\* SELECT MAX(id) FROM alerts, NULL read as 0.
MaxId == CHOOSE i \in alerts \cup {0} : \A j \in alerts : j <= i

-----------------------------------------------------------------------------
(* Requests *)

\* A request that logs in, and a page or an API call, which end with their answer.
Request ==
    /\ Next
    /\ UNCHANGED streamVars

\* event_stream begins; when its first SELECT raises, last_seen_id stays 0.
OpenStream(t) ==
    /\ thread[t] = "granted"
    /\ Goto(t, "streaming")
    /\ \E seen \in {0, MaxId} : stream' = [stream EXCEPT ![t] = [NoStream EXCEPT !.seen = seen]]
    /\ UNCHANGED <<failures, right, guesses, alerts, alertSeq, probe>>

\* A poll that finds a new maximum yields an update. When the browser has left, the
\* write fails and ends the generator, or is still accepted by the socket. A poll that
\* finds none, or raises, only sleeps.
Poll(t) ==
    /\ Streaming(t) /\ MaxId > stream[t].seen
    /\ \/ /\ stream' = [stream EXCEPT ![t].seen = MaxId, ![t].owes = FALSE]
          /\ UNCHANGED thread
       \/ /\ stream[t].gone
          /\ stream' = [stream EXCEPT ![t] = NoStream] /\ Goto(t, "free")
    /\ UNCHANGED <<failures, right, guesses, alerts, alertSeq, probe>>

\* The tab is closed. Nothing tells the thread.
Leave(t) ==
    /\ Streaming(t)
    /\ stream' = [stream EXCEPT ![t].gone = TRUE]
    /\ UNCHANGED <<vars, alerts, alertSeq, probe>>

\* Docker's health check asks for /readyz.
ProbeArrives ==
    /\ probe' = TRUE
    /\ UNCHANGED <<vars, alerts, alertSeq, stream>>

\* before_request and the views let /healthz and /readyz pass without a login: a free
\* thread answers.
AnswerProbe ==
    /\ probe /\ \E t \in Threads : thread[t] = "free"
    /\ probe' = FALSE
    /\ UNCHANGED <<vars, alerts, alertSeq, stream>>

-----------------------------------------------------------------------------
(* The engine and retention *)

\* The alert with this id is in the table, and every stream owes it to its browser.
Alert(id) ==
    /\ alertSeq < MaxAlerts
    /\ alerts' = alerts \cup {id} /\ alertSeq' = alertSeq + 1
    /\ stream' = [t \in Threads |->
                    IF Streaming(t) THEN [stream[t] EXCEPT !.owes = TRUE] ELSE stream[t]]
    /\ UNCHANGED <<vars, probe>>

LogAlertReusingId ==   \* mutant: the key without AUTOINCREMENT: the highest id plus one
    Alert(MaxId + 1)

\* log_alert: the key is AUTOINCREMENT, an id is never used again.
LogAlert == Alert(alertSeq + 1)

\* prune_table("alerts"): the oldest go, possibly all. They are days old, a stream polls
\* every 1.5 seconds: what is deleted has been told.
PruneAlerts ==
    /\ \A t \in Threads : ~stream[t].owes
    /\ \E cutoff \in alerts : alerts' = {i \in alerts : i > cutoff}
    /\ UNCHANGED <<vars, alertSeq, stream, probe>>

-----------------------------------------------------------------------------
DashboardNext ==
    \/ Request
    \/ \E t \in Threads : OpenStream(t) \/ Poll(t) \/ Leave(t)
    \/ ProbeArrives \/ AnswerProbe
    \/ LogAlert \/ PruneAlerts

\* Time passes, a thread goes on with its request and a stream with its polls, and the
\* accept queue is first in, first out, so that a probe has its turn.
DashboardSpec ==
    /\ DashboardInit /\ [][DashboardNext]_dashboardVars
    /\ WF_dashboardVars(Tick /\ UNCHANGED streamVars)
    /\ \A t \in Threads :
          /\ WF_dashboardVars(Proceed(t) /\ UNCHANGED streamVars)
          /\ WF_dashboardVars((Serve(t) /\ UNCHANGED streamVars) \/ OpenStream(t))
          /\ WF_dashboardVars(Poll(t))
    /\ SF_dashboardVars(AnswerProbe)

-----------------------------------------------------------------------------
(* Properties *)

\* Whoever is limited is let through again, although the browser goes on asking: a
\* refused attempt is not a failure of its own (unauthorized, app.py:78-85).
LockoutEnds == []<>~RateLimited

\* An alert that is inserted while a stream is open is told by it, also when retention
\* has emptied the table in the meantime and MAX(id) starts anew.
AlertsAreTold ==
    \A t \in Threads : stream[t].owes ~> (~stream[t].owes \/ stream[t].gone)

\* No request blocks a thread for good, on a lock or otherwise, except a stream: a health
\* probe is answered unless streams come to hold every thread.
ProbesAreAnswered == probe ~> (~probe \/ \A t \in Threads : Streaming(t))
=============================================================================
