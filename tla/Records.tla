------------------------------- MODULE Records -------------------------------
(***************************************************************************)
(* The tables traffic and alerts, and the four programs that share them    *)
(* without a common transaction: the engine, which appends (alerting.py,   *)
(* and handle() of both modes of main.py), retention.py, which archives    *)
(* and deletes, the analysts, who label alerts (feedback.py and the        *)
(* dashboard), and the training of ai_model.py, which reads both tables.   *)
(*                                                                         *)
(* Of a row only its id and its timestamp are kept: they are all that      *)
(* retention, labels and training look at.                                 *)
(***************************************************************************)
EXTENDS Integers, FiniteSets

CONSTANTS
    None,           \* no label
    Analysts,
    TrafficAge,     \* --traffic-days
    AlertAge,       \* --alert-days
    MaxLag,         \* how long after its timestamp a row is inserted at the latest
    MaxRows,        \* bound on the packets logged
    MaxTime         \* bound on the clock

ASSUME AgesAssumption == TrafficAge \in Nat /\ AlertAge \in Nat /\ MaxLag \in Nat

\* A row is in the table before it is old enough to be deleted.
ASSUME LagAssumption == MaxLag <= TrafficAge /\ MaxLag <= AlertAge

Labels == {"false_positive", "confirmed_threat", None}

VARIABLES
    now,
    traffic, alerts,        \* the tables
    trafficSeq, alertSeq,   \* their rows in sqlite_sequence
    engine,                 \* handle(): where it is and the timestamp it extracted
    retention,              \* a run of retention.py
    archives,               \* the files of --archive: [name, row], named by their second
    analyst,                \* what each analyst is labelling
    trainer,                \* a training and what it has read and not yet excluded
    journal,                \* history: every alert ever, with the label last meant for it
    discarded,              \* history: the traffic rows that runs with --archive deleted
    overwritten,            \* history: those whose archive was opened anew in its second
    known                   \* history: the threats confirmed when the training read the labels

tables == <<traffic, alerts, trafficSeq, alertSeq>>
files == <<archives, discarded, overwritten>>
training == <<trainer, known>>
vars == <<now, tables, engine, retention, files, analyst, training, journal>>

Rows == [id : Nat, ts : Nat]
Alerts == [id : Nat, ts : Nat, feedback : Labels]

RecordsTypeOK ==
    /\ now \in Nat
    /\ traffic \subseteq Rows /\ alerts \subseteq Alerts
    /\ trafficSeq \in Nat /\ alertSeq \in Nat
    /\ engine \in [pc : {"idle", "extracted", "logged"}, ts : Nat]
    /\ retention \in [pc : {"idle", "select", "write", "traffic", "alerts"},
                      started : Nat, archive : BOOLEAN, rows : SUBSET Rows]
    /\ archives \subseteq [name : Nat, row : Rows]
    /\ analyst \in [Analysts -> [pc : {"idle", "check", "update"}, alert : Rows, label : Labels]]
    /\ trainer \in [pc : {"idle", "read", "fit"}, rows : SUBSET Rows]
    /\ journal \subseteq Alerts
    /\ discarded \subseteq Rows /\ overwritten \subseteq Rows
    /\ known \subseteq Nat

NoRow == [id |-> 0, ts |-> 0]

\* A program that is not running: what it had read is forgotten.
EngineIdle == [pc |-> "idle", ts |-> 0]
RetentionIdle == [pc |-> "idle", started |-> 0, archive |-> FALSE, rows |-> {}]
AnalystIdle == [pc |-> "idle", alert |-> NoRow, label |-> None]
TrainerIdle == [pc |-> "idle", rows |-> {}]

Init ==
    /\ now = 0
    /\ traffic = {} /\ alerts = {} /\ trafficSeq = 0 /\ alertSeq = 0
    /\ engine = EngineIdle /\ retention = RetentionIdle
    /\ archives = {}
    /\ analyst = [a \in Analysts |-> AnalystIdle] /\ trainer = TrainerIdle
    /\ journal = {} /\ discarded = {} /\ overwritten = {} /\ known = {}

Unlabelled(id, ts) == [id |-> id, ts |-> ts, feedback |-> None]

-----------------------------------------------------------------------------
(* The engine *)

EngineLeaves == <<now, retention, files, analyst, training>>

\* extract_features, or extract_arp_features: the packet gets its timestamp.
Extract ==
    /\ engine.pc = "idle" /\ trafficSeq < MaxRows
    /\ engine' = [pc |-> "extracted", ts |-> now]
    /\ UNCHANGED <<tables, journal, EngineLeaves>>

LogTrafficQuietly ==   \* mutant: log_traffic swallows an error of the INSERT
    /\ engine.pc = "extracted"
    /\ traffic' \in {traffic, traffic \cup {[id |-> trafficSeq + 1, ts |-> engine.ts]}}
    /\ trafficSeq' = trafficSeq + 1
    /\ engine' = [engine EXCEPT !.pc = "logged"]
    /\ UNCHANGED <<alerts, alertSeq, journal, EngineLeaves>>

\* log_traffic. Learn mode ends here.
LogTraffic ==
    /\ engine.pc = "extracted"
    /\ traffic' = traffic \cup {[id |-> trafficSeq + 1, ts |-> engine.ts]}
    /\ trafficSeq' = trafficSeq + 1
    /\ engine' = [engine EXCEPT !.pc = "logged"]
    /\ UNCHANGED <<alerts, alertSeq, journal, EngineLeaves>>

LogAlertReusingId ==   \* mutant: the key without AUTOINCREMENT: the highest id plus one
    /\ engine.pc = "logged"
    /\ LET id == CHOOSE i \in 1 .. MaxRows :
                    /\ \A a \in alerts : a.id < i
                    /\ \A j \in 1 .. i - 1 : \E a \in alerts : a.id >= j
       IN  /\ alerts' = alerts \cup {Unlabelled(id, engine.ts)}
           /\ journal' = journal \cup {Unlabelled(id, engine.ts)}
    /\ alertSeq' = alertSeq + 1
    /\ engine' = EngineIdle
    /\ UNCHANGED <<traffic, trafficSeq, EngineLeaves>>

\* log_alert, for the packet that makes the source an alerted one.
LogAlert ==
    /\ engine.pc = "logged"
    /\ alerts' = alerts \cup {Unlabelled(alertSeq + 1, engine.ts)}
    /\ journal' = journal \cup {Unlabelled(alertSeq + 1, engine.ts)}
    /\ alertSeq' = alertSeq + 1
    /\ engine' = EngineIdle
    /\ UNCHANGED <<traffic, trafficSeq, EngineLeaves>>

\* No alert, or an exception: handle() catches it and the next packet comes.
HandlerEnds ==
    /\ engine.pc # "idle"
    /\ engine' = EngineIdle
    /\ UNCHANGED <<tables, journal, EngineLeaves>>

-----------------------------------------------------------------------------
(* retention.py *)

TrafficCutoff == retention.started - TrafficAge
AlertCutoff == retention.started - AlertAge

Older(table, cutoff) == {r \in table : r.ts < cutoff}

RetentionLeaves == <<now, trafficSeq, alertSeq, engine, analyst, training, journal>>

\* Both cutoffs are computed from one reading of the clock. One run follows another,
\* within the same second perhaps. One with --dry-run only counts and prints, and is left
\* out.
BeginRetention(archive) ==
    /\ retention.pc = "idle"
    /\ retention' = [pc |-> IF archive THEN "select" ELSE "traffic",
                     started |-> now, archive |-> archive, rows |-> {}]
    /\ UNCHANGED <<traffic, alerts, files, RetentionLeaves>>

\* archive_traffic: the SELECT; without rows there is no file.
SelectOld ==
    /\ retention.pc = "select"
    /\ LET old == Older(traffic, TrafficCutoff)
       IN  retention' = [retention EXCEPT !.pc = IF old = {} THEN "traffic" ELSE "write",
                                          !.rows = old]
    /\ UNCHANGED <<traffic, alerts, files, RetentionLeaves>>

\* open(filename, "w") and writer.writerows: the file is named by the second, and one of
\* that name is lost.
OpenArchive(rows) ==
    /\ archives' = {f \in archives : f.name # now} \cup [name : {now}, row : rows]
    /\ overwritten' = overwritten \cup
          {r \in discarded \ rows : [name |-> now, row |-> r] \in archives}

WriteArchive ==
    /\ retention.pc = "write"
    /\ OpenArchive(retention.rows)
    /\ retention' = [retention EXCEPT !.pc = "traffic", !.rows = {}]
    /\ UNCHANGED <<traffic, alerts, discarded, RetentionLeaves>>

PruneTrafficAnew ==   \* mutant: the deletion reads the clock again
    /\ retention.pc = "traffic"
    /\ LET old == Older(traffic, now - TrafficAge)
       IN  /\ traffic' = traffic \ old
           /\ discarded' = IF retention.archive THEN discarded \cup old ELSE discarded
    /\ retention' = [retention EXCEPT !.pc = "alerts"]
    /\ UNCHANGED <<alerts, archives, overwritten, RetentionLeaves>>

\* prune_table("traffic"): what the DELETE finds older than the cutoff.
PruneTraffic ==
    /\ retention.pc = "traffic"
    /\ LET old == Older(traffic, TrafficCutoff)
       IN  /\ traffic' = traffic \ old
           /\ discarded' = IF retention.archive THEN discarded \cup old ELSE discarded
    /\ retention' = [retention EXCEPT !.pc = "alerts"]
    /\ UNCHANGED <<alerts, archives, overwritten, RetentionLeaves>>

PruneAlertsAsTraffic ==   \* mutant: the cutoff of the traffic is used
    /\ retention.pc = "alerts"
    /\ alerts' = alerts \ Older(alerts, TrafficCutoff)
    /\ retention' = RetentionIdle
    /\ UNCHANGED <<traffic, files, RetentionLeaves>>

\* prune_table("alerts"), and VACUUM.
PruneAlerts ==
    /\ retention.pc = "alerts"
    /\ alerts' = alerts \ Older(alerts, AlertCutoff)
    /\ retention' = RetentionIdle
    /\ UNCHANGED <<traffic, files, RetentionLeaves>>

\* The database is locked, the disk is full, the process is killed: the run ends where
\* it is, in the middle of the file perhaps.
RetentionFails ==
    /\ retention.pc # "idle"
    /\ \/ UNCHANGED <<archives, overwritten>>
       \/ retention.pc = "write" /\ \E part \in SUBSET retention.rows : OpenArchive(part)
    /\ retention' = RetentionIdle
    /\ UNCHANGED <<traffic, alerts, discarded, RetentionLeaves>>

-----------------------------------------------------------------------------
(* Labels *)

AnalystLeaves == <<now, traffic, trafficSeq, alertSeq, engine, retention, files, training>>

Id(alert) == [id |-> alert.id, ts |-> alert.ts]

DecideUnchecked(a, alert, label) ==   \* mutant: any label is accepted
    /\ analyst[a].pc = "idle"
    /\ analyst' = [analyst EXCEPT ![a] = [pc |-> "check", alert |-> Id(alert), label |-> "unsure"]]
    /\ UNCHANGED <<alerts, journal, AnalystLeaves>>

\* An analyst sees an alert (--list, the dashboard) and decides.
Decide(a, alert, label) ==
    /\ analyst[a].pc = "idle"
    /\ analyst' = [analyst EXCEPT ![a] = [pc |-> "check", alert |-> Id(alert), label |-> label]]
    /\ UNCHANGED <<alerts, journal, AnalystLeaves>>

\* SELECT id FROM alerts WHERE id = ?: a missing alert is the end of it.
CheckExists(a) ==
    /\ analyst[a].pc = "check"
    /\ LET found == \E alert \in alerts : alert.id = analyst[a].alert.id
       IN  analyst' = [analyst EXCEPT ![a] = IF found THEN [@ EXCEPT !.pc = "update"]
                                                     ELSE AnalystIdle]
    /\ UNCHANGED <<alerts, journal, AnalystLeaves>>

\* The rows hit get the label.
Labelled(table, hit, label) ==
    {IF alert \in hit THEN [alert EXCEPT !.feedback = label] ELSE alert : alert \in table}

\* UPDATE alerts SET feedback = ? WHERE id = ?: the table knows the alert by its id, the
\* journal knows which alert was meant.
Update(a) ==
    /\ analyst[a].pc = "update"
    /\ LET seen == analyst[a].alert
           label == analyst[a].label
       IN  /\ alerts' = Labelled(alerts, {alert \in alerts : alert.id = seen.id}, label)
           /\ journal' = Labelled(journal, {alert \in journal : Id(alert) = seen}, label)
    /\ analyst' = [analyst EXCEPT ![a] = AnalystIdle]
    /\ UNCHANGED AnalystLeaves

-----------------------------------------------------------------------------
(* Training *)

TrainerLeaves == <<now, tables, engine, retention, files, analyst, journal>>

\* SELECT * FROM traffic
ReadTraffic ==
    /\ trainer.pc = "idle"
    /\ trainer' = [pc |-> "read", rows |-> traffic]
    /\ UNCHANGED <<known, TrainerLeaves>>

Confirmed == {alert \in alerts : alert.feedback = "confirmed_threat"}

KeptById ==   \* mutant: traffic and alerts are matched by their ids
    {r \in trainer.rows : \A c \in Confirmed : c.id # r.id}

\* df[~df["timestamp"].isin(confirmed["timestamp"])]
Kept == {r \in trainer.rows : \A c \in Confirmed : c.ts # r.ts}

\* The timestamps of the alerts that bear a label, old alerts apart: retention may have
\* deleted these, and their labels with them.
MeantAs(label) ==
    {a.ts : a \in {b \in journal : b.feedback = label /\ b.ts >= now - AlertAge}}

\* The second SELECT, on the tables of its own moment, and what is kept of the first.
ReadConfirmed ==
    /\ trainer.pc = "read"
    /\ trainer' = [pc |-> "fit", rows |-> Kept]
    /\ known' = MeantAs("confirmed_threat")
    /\ UNCHANGED TrainerLeaves

\* The forest has been fitted to the rows, and is saved. (Module Startup has the file.)
Save ==
    /\ trainer.pc = "fit" /\ trainer.rows # {}
    /\ trainer' = TrainerIdle /\ known' = {}
    /\ UNCHANGED TrainerLeaves

\* Nothing to train on (ValueError), or the program ends: the old model stays.
TrainingFails ==
    /\ trainer.pc # "idle"
    /\ trainer' = TrainerIdle /\ known' = {}
    /\ UNCHANGED TrainerLeaves

-----------------------------------------------------------------------------
\* A second passes; a row on its way into a table is no older than MaxLag.
Tick ==
    /\ now < MaxTime
    /\ engine.pc # "idle" => now < engine.ts + MaxLag
    /\ now' = now + 1
    /\ UNCHANGED <<tables, engine, retention, files, analyst, training, journal>>

Next ==
    \/ Extract \/ LogTraffic \/ LogAlert \/ HandlerEnds
    \/ \E archive \in BOOLEAN : BeginRetention(archive)
    \/ SelectOld \/ WriteArchive \/ PruneTraffic \/ PruneAlerts \/ RetentionFails
    \/ \E a \in Analysts, alert \in alerts, label \in Labels : Decide(a, alert, label)
    \/ \E a \in Analysts : CheckExists(a) \/ Update(a)
    \/ ReadTraffic \/ ReadConfirmed \/ Save \/ TrainingFails
    \/ Tick

Spec == Init /\ [][Next]_vars

-----------------------------------------------------------------------------
(* Properties *)

\* --archive deletes nothing that it has not written to a file before, although the rows
\* are selected by one statement and deleted by another while the engine inserts, and runs
\* end anywhere; and what it has deleted stays in its file unless that is opened anew by a
\* later run in the same second, by whose name it goes.
DiscardedIsArchived ==
    \A r \in discarded \ overwritten : \E f \in archives : f.row = r

\* A label stays with the alert it was meant for: whatever retention deleted between the
\* analyst's look and the UPDATE by id, the table says of no alert what was never said
\* of it.
FeedbackIsMeant == alerts \subseteq journal

\* The audit trail: an alert younger than its retention is in the table, with the label
\* last given to it.
AuditTrailIsKept == \A a \in journal : a.ts >= now - AlertAge => a \in alerts

\* The packet behind a young alert is in the traffic table, where the pages and the
\* training look for it by its timestamp.
AlertHasTraffic ==
    \A a \in alerts : a.ts >= now - TrafficAge => \E r \in traffic : r.ts = a.ts

\* A packet whose alert, not older than its retention, stood confirmed when the training
\* read the labels is not in the model that is saved at its end: although traffic and labels
\* are read at two moments, analysts go on labelling, and retention deletes from both tables
\* at any time. (A label set while the forest is fitted comes too late.)
ConfirmedNeverTrained ==
    [][Save => \A r \in trainer.rows : r.ts \notin known]_vars
=============================================================================
