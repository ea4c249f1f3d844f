---------------------------- MODULE RecordsProofs ----------------------------
(***************************************************************************)
(* Theorems about module Records: for any analysts, any retention ages and *)
(* any lag of the inserts that its assumptions allow, and for ever.        *)
(***************************************************************************)
EXTENDS Records, TLAPS

-----------------------------------------------------------------------------
(* The inductive invariant *)

\* A row is on its way for no longer than MaxLag, and no run of retention is from the future.
Times ==
    /\ engine.pc # "idle" => engine.ts <= now /\ now <= engine.ts + MaxLag
    /\ retention.pc # "idle" => retention.started <= now

\* An id stands for one alert, and every analyst has seen an alert there once was.
Identities ==
    /\ \A a \in journal : a.id \in 1 .. alertSeq
    /\ \A a, b \in journal : a.id = b.id => a = b
    /\ \A p \in Analysts : analyst[p].pc # "idle" =>
                               \E a \in journal : Id(a) = analyst[p].alert

\* The rows in the archives.
ArchivedRows == {f.row : f \in archives}

\* What a run that archives will delete it has selected, and then written to its file.
Archiving ==
    /\ retention.pc = "write" => Older(traffic, TrafficCutoff) \subseteq retention.rows
    /\ retention.pc = "traffic" /\ retention.archive =>
           Older(traffic, TrafficCutoff) \subseteq ArchivedRows

\* The packet is in the table before its alert.
TrafficFirst == engine.pc = "logged" => \E r \in traffic : r.ts = engine.ts

\* What is being fitted holds no threat that was known when the labels were read.
TrainingExcludes == trainer.pc = "fit" => \A r \in trainer.rows : r.ts \notin known

IInv ==
    /\ RecordsTypeOK /\ Times /\ Identities /\ Archiving /\ TrafficFirst /\ TrainingExcludes
    /\ DiscardedIsArchived /\ FeedbackIsMeant /\ AuditTrailIsKept /\ AlertHasTraffic

-----------------------------------------------------------------------------
(* Lemmas *)

LEMMA Ages == TrafficAge \in Nat /\ AlertAge \in Nat /\ MaxLag \in Nat
              /\ MaxLag <= TrafficAge /\ MaxLag <= AlertAge
  BY AgesAssumption, LagAssumption

LEMMA LabelledType ==
    ASSUME NEW table \in SUBSET Alerts, NEW hit, NEW label \in Labels
    PROVE  Labelled(table, hit, label) \in SUBSET Alerts
  BY DEF Labelled, Alerts

\* What a labelled alert was.
LEMMA LabelledFrom ==
    ASSUME NEW table \in SUBSET Alerts, NEW hit, NEW label, NEW a \in Labelled(table, hit, label)
    PROVE  \E b \in table : /\ a.id = b.id /\ a.ts = b.ts
                            /\ a = IF b \in hit THEN [b EXCEPT !.feedback = label] ELSE b
  BY DEF Labelled, Alerts

LEMMA LabelledIn ==
    ASSUME NEW table, NEW hit, NEW label, NEW b \in table
    PROVE  (IF b \in hit THEN [b EXCEPT !.feedback = label] ELSE b) \in Labelled(table, hit, label)
  BY DEF Labelled

\* What an UPDATE by id hits is what was meant.
LEMMA HitIsMeant ==
    ASSUME IInv, NEW p \in Analysts, analyst[p].pc # "idle", NEW a \in journal
    PROVE  a.id = analyst[p].alert.id <=> Id(a) = analyst[p].alert
<1>1. PICK b \in journal : Id(b) = analyst[p].alert
  BY DEF IInv, Identities
<1>2. b.id = analyst[p].alert.id
  BY <1>1 DEF Id
<1>3. a.id = b.id => a = b
  BY DEF IInv, Identities
<1>. QED  BY <1>1, <1>2, <1>3 DEF Id

-----------------------------------------------------------------------------
(* Type correctness *)

LEMMA TypeStep == RecordsTypeOK /\ [Next]_vars => RecordsTypeOK'
<1>. SUFFICES ASSUME RecordsTypeOK, [Next]_vars PROVE RecordsTypeOK'
  OBVIOUS
<1>. USE DEF RecordsTypeOK, tables, files, training, EngineIdle, RetentionIdle, AnalystIdle, TrainerIdle,
             NoRow
<1>1. CASE Extract
  BY <1>1 DEF Extract, EngineLeaves
<1>20. CASE HandlerEnds
  BY <1>20 DEF HandlerEnds, EngineLeaves
<1>2. CASE LogTraffic
  <2>1. [id |-> trafficSeq + 1, ts |-> engine.ts] \in Rows
    BY DEF Rows
  <2>2. traffic' \subseteq Rows /\ trafficSeq' \in Nat
    BY <1>2, <2>1 DEF LogTraffic
  <2>. QED  BY <1>2, <2>2 DEF LogTraffic, EngineLeaves
<1>3. CASE LogAlert
  <2>1. Unlabelled(alertSeq + 1, engine.ts) \in Alerts
    BY DEF Unlabelled, Alerts, Labels
  <2>2. alerts' \subseteq Alerts /\ journal' \subseteq Alerts /\ alertSeq' \in Nat
    BY <1>3, <2>1 DEF LogAlert
  <2>. QED  BY <1>3, <2>2 DEF LogAlert, EngineLeaves
<1>4. ASSUME NEW archive \in BOOLEAN, BeginRetention(archive) PROVE RecordsTypeOK'
  BY <1>4 DEF BeginRetention, RetentionLeaves
<1>5. CASE SelectOld
  <2>1. Older(traffic, TrafficCutoff) \in SUBSET Rows
    BY DEF Older
  <2>. QED  BY <1>5, <2>1 DEF SelectOld, RetentionLeaves
<1>6. ASSUME NEW rows \in SUBSET Rows, OpenArchive(rows)
      PROVE  archives' \subseteq [name : Nat, row : Rows] /\ overwritten' \subseteq Rows
  BY <1>6 DEF OpenArchive
<1>7. CASE WriteArchive
  BY <1>6, <1>7 DEF WriteArchive, RetentionLeaves
<1>8. CASE PruneTraffic
  <2>1. traffic' \subseteq Rows /\ discarded' \subseteq Rows
    BY <1>8 DEF PruneTraffic, Older
  <2>. QED  BY <1>8, <2>1 DEF PruneTraffic, RetentionLeaves
<1>9. CASE PruneAlerts
  BY <1>9 DEF PruneAlerts, RetentionLeaves
<1>10. CASE RetentionFails
  <2>1. archives' \subseteq [name : Nat, row : Rows] /\ overwritten' \subseteq Rows
    <3>1. CASE UNCHANGED <<archives, overwritten>>
      BY <3>1
    <3>2. ASSUME NEW part \in SUBSET retention.rows, OpenArchive(part)
          PROVE  archives' \subseteq [name : Nat, row : Rows] /\ overwritten' \subseteq Rows
      BY <1>6, <3>2
    <3>. QED  BY <1>10, <3>1, <3>2 DEF RetentionFails
  <2>. QED  BY <1>10, <2>1 DEF RetentionFails, RetentionLeaves
<1>11. ASSUME NEW a \in Analysts, NEW alert \in alerts, NEW label \in Labels,
              Decide(a, alert, label)
       PROVE  RecordsTypeOK'
  <2>1. Id(alert) \in Rows
    BY DEF Id, Rows, Alerts
  <2>. QED  BY <1>11, <2>1 DEF Decide, AnalystLeaves
<1>12. ASSUME NEW a \in Analysts, CheckExists(a) PROVE RecordsTypeOK'
  <2>1. AnalystIdle \in [pc : {"idle", "check", "update"}, alert : Rows, label : Labels]
    BY DEF Rows, Labels
  <2>. QED  BY <1>12, <2>1 DEF CheckExists, AnalystLeaves
<1>13. ASSUME NEW a \in Analysts, Update(a) PROVE RecordsTypeOK'
  <2>1. AnalystIdle \in [pc : {"idle", "check", "update"}, alert : Rows, label : Labels]
    BY DEF Rows, Labels
  <2>2. alerts' \subseteq Alerts /\ journal' \subseteq Alerts
    BY <1>13, LabelledType DEF Update
  <2>. QED  BY <1>13, <2>1, <2>2 DEF Update, AnalystLeaves
<1>14. CASE ReadTraffic
  BY <1>14 DEF ReadTraffic, TrainerLeaves
<1>15. CASE ReadConfirmed
  <2>1. Kept \in SUBSET Rows
    BY DEF Kept
  <2>2. MeantAs("confirmed_threat") \in SUBSET Nat
    BY DEF MeantAs, Alerts
  <2>. QED  BY <1>15, <2>1, <2>2 DEF ReadConfirmed, TrainerLeaves
<1>18. CASE Save \/ TrainingFails
  BY <1>18 DEF Save, TrainingFails, TrainerLeaves
<1>16. CASE Tick
  BY <1>16 DEF Tick
<1>17. CASE UNCHANGED vars
  BY <1>17 DEF vars
<1>. QED
  BY <1>1, <1>20, <1>2, <1>3, <1>4, <1>5, <1>7, <1>8, <1>9, <1>10, <1>11, <1>12, <1>13, <1>14, <1>15,
     <1>16, <1>17, <1>18 DEF Next

-----------------------------------------------------------------------------
(* Induction *)

LEMMA IInvInit == Init => IInv
<1>. SUFFICES ASSUME Init PROVE IInv
  OBVIOUS
<1>. USE DEF Init, EngineIdle, RetentionIdle, AnalystIdle, TrainerIdle, NoRow
<1>1. RecordsTypeOK
  <2>1. analyst \in [Analysts -> [pc : {"idle", "check", "update"}, alert : Rows, label : Labels]]
    BY DEF Rows, Labels
  <2>. QED  BY <2>1 DEF RecordsTypeOK
<1>2. Times /\ Identities /\ Archiving /\ TrafficFirst /\ TrainingExcludes
  BY DEF Times, Identities, Archiving, TrafficFirst, TrainingExcludes
<1>3. DiscardedIsArchived /\ FeedbackIsMeant /\ AuditTrailIsKept /\ AlertHasTraffic
  BY DEF DiscardedIsArchived, FeedbackIsMeant, AuditTrailIsKept, AlertHasTraffic
<1>. QED  BY <1>1, <1>2, <1>3 DEF IInv

LEMMA TimesStep == IInv /\ [Next]_vars => Times'
<1>. SUFFICES ASSUME RecordsTypeOK, Times, [Next]_vars PROVE Times'
  BY DEF IInv
<1>. USE Ages DEF RecordsTypeOK, Times, EngineIdle, RetentionIdle
<1>1. CASE Extract \/ LogTraffic \/ LogAlert \/ HandlerEnds
  BY <1>1 DEF Extract, LogTraffic, LogAlert, HandlerEnds, EngineLeaves
<1>2. ASSUME NEW archive \in BOOLEAN, BeginRetention(archive) PROVE Times'
  BY <1>2 DEF BeginRetention, RetentionLeaves
<1>3. CASE SelectOld \/ WriteArchive \/ PruneTraffic
  <2>1. retention.pc # "idle" /\ retention'.started = retention.started /\ UNCHANGED <<now, engine>>
    BY <1>3 DEF SelectOld, WriteArchive, PruneTraffic, RetentionLeaves
  <2>. QED  BY <2>1
<1>4. CASE PruneAlerts \/ RetentionFails
  BY <1>4 DEF PruneAlerts, RetentionFails, RetentionLeaves
<1>5. CASE Tick
  BY <1>5 DEF Tick
<1>6. CASE UNCHANGED <<now, engine, retention>>
  BY <1>6
<1>. QED
  BY <1>1, <1>2, <1>3, <1>4, <1>5, <1>6
     DEF Next, Decide, CheckExists, Update, ReadTraffic, ReadConfirmed, Save, TrainingFails, AnalystLeaves,
         TrainerLeaves, vars

LEMMA TrafficFirstStep == IInv /\ [Next]_vars => TrafficFirst'
<1>. SUFFICES ASSUME RecordsTypeOK, Times, TrafficFirst, [Next]_vars PROVE TrafficFirst'
  BY DEF IInv
<1>. USE DEF RecordsTypeOK, TrafficFirst, EngineIdle
<1>1. CASE LogTraffic
  <2>. DEFINE new == [id |-> trafficSeq + 1, ts |-> engine.ts]
  <2>1. traffic' = traffic \cup {new} /\ engine' = [engine EXCEPT !.pc = "logged"]
    BY <1>1 DEF LogTraffic
  <2>2. new \in traffic' /\ engine'.ts = engine.ts
    BY <2>1
  <2>. QED  BY <2>2
<1>2. CASE Extract \/ LogAlert \/ HandlerEnds
  BY <1>2 DEF Extract, LogAlert, HandlerEnds
<1>3. CASE PruneTraffic
  <2>1. ASSUME engine.pc = "logged", NEW r \in traffic, r.ts = engine.ts PROVE r \in traffic'
    <3>1. ~(r.ts < TrafficCutoff)
      BY <1>3, <2>1, Ages DEF PruneTraffic, Times, TrafficCutoff
    <3>. QED  BY <1>3, <3>1 DEF PruneTraffic, Older
  <2>. QED  BY <1>3, <2>1 DEF PruneTraffic, RetentionLeaves
<1>4. CASE UNCHANGED <<engine, traffic>>
  BY <1>4
<1>. QED
  BY <1>1, <1>2, <1>3, <1>4
     DEF Next, BeginRetention, SelectOld, WriteArchive, PruneAlerts, RetentionFails, Decide,
         CheckExists, Update, ReadTraffic, ReadConfirmed, Save, TrainingFails, Tick, RetentionLeaves,
         AnalystLeaves, TrainerLeaves, tables, vars

LEMMA IdentitiesStep == IInv /\ [Next]_vars => Identities'
<1>. SUFFICES ASSUME IInv, [Next]_vars PROVE Identities'
  OBVIOUS
<1>1. /\ alertSeq \in Nat /\ alerts \subseteq journal /\ journal \in SUBSET Alerts
      /\ analyst \in [Analysts -> [pc : {"idle", "check", "update"}, alert : Rows, label : Labels]]
      /\ Identities
  BY DEF IInv, RecordsTypeOK, FeedbackIsMeant
<1>2. CASE LogAlert
  <2>. DEFINE new == Unlabelled(alertSeq + 1, engine.ts)
  <2>1. /\ journal' = journal \cup {new} /\ alertSeq' = alertSeq + 1 /\ new.id = alertSeq + 1
        /\ UNCHANGED analyst
    BY <1>2 DEF LogAlert, Unlabelled, EngineLeaves
  <2>. HIDE DEF new
  <2>2. \A a \in journal : a.id # new.id
    BY <1>1, <2>1 DEF Identities
  <2>. QED  BY <1>1, <2>1, <2>2 DEF Identities
<1>3. ASSUME NEW p \in Analysts, NEW alert \in alerts, NEW label \in Labels,
             Decide(p, alert, label)
      PROVE  Identities'
  <2>1. /\ \A q \in Analysts : analyst'[q].alert \in {analyst[q].alert, Id(alert)}
        /\ \A q \in Analysts : analyst'[q].pc # "idle" =>
               \/ analyst'[q].alert = Id(alert)
               \/ analyst[q].pc # "idle" /\ analyst'[q].alert = analyst[q].alert
        /\ UNCHANGED <<journal, alertSeq>>
    <3>. DEFINE seen == [pc |-> "check", alert |-> Id(alert), label |-> label]
    <3>1. analyst' = [analyst EXCEPT ![p] = seen] /\ UNCHANGED <<journal, alertSeq>>
      BY <1>3 DEF Decide, AnalystLeaves
    <3>2. seen.alert = Id(alert)
      OBVIOUS
    <3>. HIDE DEF seen
    <3>. QED  BY <1>1, <3>1, <3>2
  <2>2. alert \in journal
    BY <1>1
  <2>. QED  BY <1>1, <2>1, <2>2 DEF Identities
<1>4. ASSUME NEW p \in Analysts, CheckExists(p) PROVE Identities'
  <2>1. /\ \A q \in Analysts : analyst'[q].pc # "idle" =>
               analyst[q].pc # "idle" /\ analyst'[q].alert = analyst[q].alert
        /\ UNCHANGED <<journal, alertSeq>>
    BY <1>1, <1>4 DEF CheckExists, AnalystIdle, AnalystLeaves
  <2>. QED  BY <1>1, <2>1 DEF Identities
<1>5. ASSUME NEW p \in Analysts, Update(p) PROVE Identities'
  <2>. DEFINE hit == {a \in journal : Id(a) = analyst[p].alert}
              label == analyst[p].label
  <2>1. /\ journal' = Labelled(journal, hit, label) /\ UNCHANGED alertSeq
        /\ \A q \in Analysts : analyst'[q].pc # "idle" =>
               analyst[q].pc # "idle" /\ analyst'[q].alert = analyst[q].alert
    BY <1>1, <1>5 DEF Update, AnalystIdle, AnalystLeaves
  <2>. HIDE DEF hit, label
  <2>2. \A a \in journal' : \E b \in journal :
            /\ a.id = b.id /\ a.ts = b.ts
            /\ a = IF b \in hit THEN [b EXCEPT !.feedback = label] ELSE b
    BY <1>1, <2>1, LabelledFrom
  <2>3. \A b \in journal : \E a \in journal' : Id(a) = Id(b)
    <3>. TAKE b \in journal
    <3>. DEFINE a == IF b \in hit THEN [b EXCEPT !.feedback = label] ELSE b
    <3>1. a \in journal'
      BY <2>1, LabelledIn
    <3>2. a.id = b.id /\ a.ts = b.ts
      BY <1>1 DEF Alerts
    <3>. HIDE DEF a
    <3>. QED  BY <3>1, <3>2 DEF Id
  <2>4. \A a, b \in journal' : a.id = b.id => a = b
    BY <1>1, <2>2 DEF Identities
  <2>. QED  BY <1>1, <2>1, <2>2, <2>3, <2>4 DEF Identities
<1>6. CASE UNCHANGED <<journal, alertSeq, analyst>>
  BY <1>1, <1>6 DEF Identities
<1>. QED
  BY <1>2, <1>3, <1>4, <1>5, <1>6
     DEF Next, Extract, LogTraffic, HandlerEnds, BeginRetention, SelectOld, WriteArchive,
         PruneTraffic, PruneAlerts, RetentionFails, ReadTraffic, ReadConfirmed, Save, TrainingFails, Tick,
         EngineLeaves, RetentionLeaves, TrainerLeaves, tables, vars

\* Opening a file loses no row that was deleted, but in the way "overwritten" records, and
\* what is written is in it.
LEMMA OpeningArchives ==
    ASSUME RecordsTypeOK, DiscardedIsArchived, NEW rows \in SUBSET Rows, OpenArchive(rows),
           UNCHANGED discarded
    PROVE  DiscardedIsArchived' /\ rows \subseteq ArchivedRows'
<1>1. /\ archives' = {f \in archives : f.name # now} \cup [name : {now}, row : rows]
      /\ overwritten' = overwritten \cup
             {r \in discarded \ rows : [name |-> now, row |-> r] \in archives}
  BY DEF OpenArchive
<1>2. \A r \in rows : \E f \in archives' : f.row = r
  <2>1. \A r \in rows : [name |-> now, row |-> r] \in archives'
    BY <1>1
  <2>. QED  BY <2>1
<1>3. ASSUME NEW r \in discarded, r \notin overwritten' PROVE \E f \in archives' : f.row = r
  <2>1. CASE r \in rows
    BY <1>2, <2>1
  <2>2. CASE r \notin rows
    <3>1. PICK f \in archives : f.row = r
      BY <1>1, <1>3 DEF DiscardedIsArchived
    <3>2. f = [name |-> f.name, row |-> r]
      BY <3>1 DEF RecordsTypeOK
    <3>3. f.name # now
      BY <1>1, <1>3, <2>2, <3>2
    <3>. QED  BY <1>1, <3>1, <3>3
  <2>. QED  BY <2>1, <2>2
<1>. QED  BY <1>2, <1>3 DEF DiscardedIsArchived, ArchivedRows

LEMMA ArchivingStep == IInv /\ [Next]_vars => Archiving' /\ DiscardedIsArchived'
<1>. SUFFICES ASSUME RecordsTypeOK, Times, Archiving, DiscardedIsArchived, [Next]_vars
             PROVE  Archiving' /\ DiscardedIsArchived'
  BY DEF IInv
<1>. USE DEF RecordsTypeOK, Archiving, DiscardedIsArchived, files
<1>1. CASE LogTraffic
  <2>. DEFINE new == [id |-> trafficSeq + 1, ts |-> engine.ts]
  <2>1. traffic' = traffic \cup {new} /\ UNCHANGED <<retention, files>>
    BY <1>1 DEF LogTraffic, EngineLeaves
  <2>2. retention.pc # "idle" => ~(new.ts < TrafficCutoff)
    BY <1>1, Ages DEF LogTraffic, Times, TrafficCutoff
  <2>. HIDE DEF new
  <2>3. /\ TrafficCutoff' = TrafficCutoff /\ ArchivedRows' = ArchivedRows
        /\ retention.pc # "idle" => Older(traffic, TrafficCutoff)' = Older(traffic, TrafficCutoff)
    BY <2>1, <2>2 DEF TrafficCutoff, ArchivedRows, Older
  <2>. QED  BY <2>1, <2>3
<1>2. ASSUME NEW archive \in BOOLEAN, BeginRetention(archive)
      PROVE  Archiving' /\ DiscardedIsArchived'
  BY <1>2 DEF BeginRetention, RetentionLeaves
<1>3. CASE SelectOld
  <2>1. /\ retention.pc = "select" /\ UNCHANGED <<traffic, files>>
        /\ retention' = [retention EXCEPT
               !.pc = IF Older(traffic, TrafficCutoff) = {} THEN "traffic" ELSE "write",
               !.rows = Older(traffic, TrafficCutoff)]
    BY <1>3 DEF SelectOld
  <2>2. /\ retention'.started = retention.started /\ retention'.archive = retention.archive
        /\ retention'.rows = Older(traffic, TrafficCutoff)
        /\ retention'.pc = IF Older(traffic, TrafficCutoff) = {} THEN "traffic" ELSE "write"
    BY <2>1
  <2>3. Older(traffic, TrafficCutoff)' = Older(traffic, TrafficCutoff)
    BY <2>1, <2>2 DEF Older, TrafficCutoff
  <2>. QED  BY <2>1, <2>2, <2>3
<1>5. CASE WriteArchive
  <2>1. /\ retention.pc = "write" /\ OpenArchive(retention.rows)
        /\ UNCHANGED <<now, traffic, discarded>>
        /\ retention'.pc = "traffic" /\ retention'.started = retention.started
        /\ retention'.archive = retention.archive
    BY <1>5 DEF WriteArchive, RetentionLeaves
  <2>2. retention.rows \subseteq ArchivedRows' /\ DiscardedIsArchived'
    BY <2>1, OpeningArchives
  <2>3. Older(traffic, TrafficCutoff)' = Older(traffic, TrafficCutoff)
    BY <2>1 DEF Older, TrafficCutoff
  <2>. QED  BY <2>1, <2>2, <2>3
<1>6. CASE PruneTraffic
  <2>1. discarded' \subseteq discarded \cup ArchivedRows
    BY <1>6 DEF PruneTraffic
  <2>2. UNCHANGED <<archives, overwritten>> /\ retention'.pc = "alerts"
    BY <1>6 DEF PruneTraffic
  <2>. QED  BY <2>1, <2>2 DEF ArchivedRows
<1>7. CASE PruneAlerts
  BY <1>7 DEF PruneAlerts, RetentionIdle
<1>8. CASE RetentionFails
  <2>1. retention'.pc = "idle" /\ UNCHANGED discarded
    BY <1>8 DEF RetentionFails, RetentionIdle
  <2>2. CASE UNCHANGED <<archives, overwritten>>
    BY <2>1, <2>2
  <2>3. ASSUME NEW part \in SUBSET retention.rows, OpenArchive(part) PROVE DiscardedIsArchived'
    BY <2>1, <2>3, OpeningArchives
  <2>. QED  BY <1>8, <2>1, <2>2, <2>3 DEF RetentionFails
<1>9. CASE UNCHANGED <<traffic, retention, files>>
  BY <1>9 DEF Older, TrafficCutoff, ArchivedRows
<1>. QED
  BY <1>1, <1>2, <1>3, <1>5, <1>6, <1>7, <1>8, <1>9
     DEF Next, Extract, LogAlert, HandlerEnds, Decide, CheckExists, Update, ReadTraffic,
         ReadConfirmed, Save, TrainingFails, Tick, EngineLeaves, AnalystLeaves, TrainerLeaves,
         tables, vars

LEMMA TrainingStep == IInv /\ [Next]_vars => TrainingExcludes'
<1>. SUFFICES ASSUME IInv, [Next]_vars PROVE TrainingExcludes'
  OBVIOUS
<1>. USE DEF TrainingExcludes, TrainerIdle
<1>1. CASE ReadConfirmed
  <2>1. trainer'.rows = Kept /\ known' = MeantAs("confirmed_threat")
    BY <1>1 DEF ReadConfirmed
  <2>2. ASSUME NEW a \in journal, a.feedback = "confirmed_threat", a.ts >= now - AlertAge
        PROVE  a \in Confirmed
    BY <2>2 DEF IInv, AuditTrailIsKept, Confirmed
  <2>3. \A r \in Kept : r.ts \notin MeantAs("confirmed_threat")
    BY <2>2 DEF Kept, MeantAs
  <2>. QED  BY <2>1, <2>3
<1>2. CASE ReadTraffic \/ Save \/ TrainingFails
  BY <1>2 DEF ReadTraffic, Save, TrainingFails
<1>3. CASE UNCHANGED <<trainer, known>>
  BY <1>3 DEF IInv
<1>. QED
  BY <1>1, <1>2, <1>3
     DEF Next, Extract, LogTraffic, LogAlert, HandlerEnds, BeginRetention, SelectOld, WriteArchive,
         PruneTraffic, PruneAlerts, RetentionFails, Decide, CheckExists, Update, Tick,
         EngineLeaves, RetentionLeaves, AnalystLeaves, training, vars

LEMMA AlertHasTrafficStep == IInv /\ [Next]_vars => AlertHasTraffic'
<1>. SUFFICES ASSUME RecordsTypeOK, Times, TrafficFirst, AlertHasTraffic, [Next]_vars
             PROVE  AlertHasTraffic'
  BY DEF IInv
<1>. USE DEF RecordsTypeOK, AlertHasTraffic
<1>1. CASE LogTraffic
  BY <1>1 DEF LogTraffic, EngineLeaves
<1>2. CASE LogAlert
  <2>1. /\ alerts' = alerts \cup {Unlabelled(alertSeq + 1, engine.ts)} /\ UNCHANGED <<now, traffic>>
        /\ engine.pc = "logged"
    BY <1>2 DEF LogAlert, EngineLeaves
  <2>2. Unlabelled(alertSeq + 1, engine.ts).ts = engine.ts
    BY DEF Unlabelled
  <2>. QED  BY <2>1, <2>2 DEF TrafficFirst
<1>3. CASE PruneTraffic
  <2>1. ASSUME NEW r \in traffic, r.ts >= now - TrafficAge PROVE r \in traffic'
    <3>1. ~(r.ts < TrafficCutoff)
      BY <1>3, <2>1, Ages DEF PruneTraffic, Times, TrafficCutoff, Rows
    <3>. QED  BY <1>3, <3>1 DEF PruneTraffic, Older
  <2>2. UNCHANGED <<alerts, now>>
    BY <1>3 DEF PruneTraffic, RetentionLeaves
  <2>3. ASSUME NEW a \in alerts, a.ts >= now - TrafficAge PROVE \E r \in traffic' : r.ts = a.ts
    <3>1. PICK r \in traffic : r.ts = a.ts
      BY <2>3
    <3>2. r \in traffic'
      BY <2>1, <2>3, <3>1
    <3>. QED  BY <3>1, <3>2
  <2>. QED  BY <2>2, <2>3
<1>4. CASE PruneAlerts
  BY <1>4 DEF PruneAlerts, RetentionLeaves, Older
<1>5. ASSUME NEW p \in Analysts, Update(p) PROVE AlertHasTraffic'
  <2>1. \A a \in alerts' : \E b \in alerts : a.ts = b.ts
    BY <1>5, LabelledFrom DEF Update
  <2>. QED  BY <1>5, <2>1 DEF Update, AnalystLeaves
<1>6. CASE Tick
  BY <1>6, Ages DEF Tick, tables, Alerts
<1>7. CASE UNCHANGED <<now, traffic, alerts>>
  BY <1>7
<1>. QED
  BY <1>1, <1>2, <1>3, <1>4, <1>5, <1>6, <1>7
     DEF Next, Extract, HandlerEnds, BeginRetention, SelectOld, WriteArchive, RetentionFails,
         Decide, CheckExists, ReadTraffic, ReadConfirmed, Save, TrainingFails, EngineLeaves, RetentionLeaves,
         AnalystLeaves, TrainerLeaves, tables, vars

\* The label by id reaches in both tables the alert that was meant.
LEMMA UpdateStep ==
    ASSUME IInv, NEW p \in Analysts, Update(p)
    PROVE  FeedbackIsMeant' /\ AuditTrailIsKept'
<1>. DEFINE hit == {a \in alerts : a.id = analyst[p].alert.id}
            meant == {a \in journal : Id(a) = analyst[p].alert}
            label == analyst[p].label
            New(a) == IF a \in meant THEN [a EXCEPT !.feedback = label] ELSE a
<1>1. /\ alerts' = Labelled(alerts, hit, label) /\ journal' = Labelled(journal, meant, label)
      /\ UNCHANGED now /\ analyst[p].pc # "idle"
  BY DEF Update, AnalystLeaves
<1>2. alerts \subseteq journal /\ journal \subseteq Alerts
      /\ \A a \in journal : a.ts >= now - AlertAge => a \in alerts
  BY DEF IInv, RecordsTypeOK, FeedbackIsMeant, AuditTrailIsKept
<1>3. \A a \in alerts : a \in hit <=> a \in meant
  BY <1>1, <1>2, HitIsMeant
<1>4. alerts' = {New(a) : a \in alerts} /\ journal' = {New(a) : a \in journal}
  BY <1>1, <1>3 DEF Labelled
<1>5. \A a \in journal : New(a).ts = a.ts
  BY <1>2 DEF Alerts
<1>. HIDE DEF hit, meant, label, New
<1>6. FeedbackIsMeant'
  BY <1>2, <1>4 DEF FeedbackIsMeant
<1>7. ASSUME NEW b \in journal', b.ts >= now - AlertAge PROVE b \in alerts'
  <2>1. PICK a \in journal : b = New(a)
    BY <1>4
  <2>2. a \in alerts
    BY <1>2, <1>5, <1>7, <2>1
  <2>. QED  BY <1>4, <2>1, <2>2
<1>8. AuditTrailIsKept'
  BY <1>1, <1>7 DEF AuditTrailIsKept
<1>. QED  BY <1>6, <1>8

LEMMA LabelsStep == IInv /\ [Next]_vars => FeedbackIsMeant' /\ AuditTrailIsKept'
<1>. SUFFICES ASSUME IInv, [Next]_vars PROVE FeedbackIsMeant' /\ AuditTrailIsKept'
  OBVIOUS
<1>1. /\ RecordsTypeOK /\ Times /\ FeedbackIsMeant /\ AuditTrailIsKept
  BY DEF IInv
<1>. USE DEF FeedbackIsMeant, AuditTrailIsKept
<1>2. CASE LogAlert
  BY <1>1, <1>2 DEF LogAlert, EngineLeaves
<1>3. CASE PruneAlerts
  <2>1. /\ alerts' = alerts \ Older(alerts, AlertCutoff) /\ UNCHANGED <<now, journal>>
        /\ retention.started <= now
    BY <1>1, <1>3 DEF PruneAlerts, RetentionLeaves, Times
  <2>2. ASSUME NEW a \in journal, a.ts >= now - AlertAge PROVE a \in alerts'
    <3>1. a \in alerts /\ a.ts \in Nat
      BY <1>1, <2>2 DEF RecordsTypeOK, Alerts
    <3>2. ~(a.ts < AlertCutoff)
      BY <1>1, <2>1, <2>2, <3>1, Ages DEF RecordsTypeOK, AlertCutoff
    <3>. QED  BY <2>1, <3>1, <3>2 DEF Older
  <2>. QED  BY <1>1, <2>1, <2>2
<1>4. ASSUME NEW p \in Analysts, Update(p) PROVE FeedbackIsMeant' /\ AuditTrailIsKept'
  BY <1>4, UpdateStep
<1>5. CASE Tick
  <2>1. now' = now + 1 /\ UNCHANGED <<alerts, journal>>
    BY <1>5 DEF Tick, tables
  <2>2. \A a \in journal : a.ts \in Nat
    BY <1>1 DEF RecordsTypeOK, Alerts
  <2>. QED  BY <1>1, <2>1, <2>2, Ages DEF RecordsTypeOK
<1>6. CASE UNCHANGED <<now, alerts, journal>>
  BY <1>1, <1>6
<1>. QED
  BY <1>2, <1>3, <1>4, <1>5, <1>6
     DEF Next, Extract, LogTraffic, HandlerEnds, BeginRetention, SelectOld, WriteArchive,
         PruneTraffic, RetentionFails, Decide, CheckExists, ReadTraffic, ReadConfirmed, Save, TrainingFails,
         EngineLeaves, RetentionLeaves, AnalystLeaves, TrainerLeaves, tables, vars

-----------------------------------------------------------------------------
(* Theorems *)

\* What the tables, the archives, the labels and the clock have to do with each other is
\* preserved by every step of the four programs.
THEOREM Inductive == Spec => []IInv
<1>1. IInv /\ [Next]_vars => IInv'
  BY TypeStep, TimesStep, IdentitiesStep, ArchivingStep, TrafficFirstStep, LabelsStep,
     AlertHasTrafficStep, TrainingStep
     DEF IInv
<1>. QED  BY IInvInit, <1>1, PTL DEF Spec

\* Every variable stays within its type; in particular no alert ever bears a label that
\* is not one of feedback.py's.
THEOREM TypeCorrect == Spec => []RecordsTypeOK
<1>1. IInv => RecordsTypeOK
  BY DEF IInv
<1>. QED  BY Inductive, <1>1, PTL

\* retention.py --archive deletes no row of the traffic that it has not written to a file,
\* though it selects and deletes with two statements, and only a later run in the same
\* second takes the row out of that file.
THEOREM DiscardedIsArchivedHolds == Spec => []DiscardedIsArchived
<1>1. IInv => DiscardedIsArchived
  BY DEF IInv
<1>. QED  BY Inductive, <1>1, PTL

\* The UPDATE by id gives a label to the alert it was meant for, or to none.
THEOREM FeedbackIsMeantHolds == Spec => []FeedbackIsMeant
<1>1. IInv => FeedbackIsMeant
  BY DEF IInv
<1>. QED  BY Inductive, <1>1, PTL

\* No alert younger than its retention, and no label of one, is ever lost.
THEOREM AuditTrailIsKeptHolds == Spec => []AuditTrailIsKept
<1>1. IInv => AuditTrailIsKept
  BY DEF IInv
<1>. QED  BY Inductive, <1>1, PTL

\* The packet of a young alert is in the traffic table.
THEOREM AlertHasTrafficHolds == Spec => []AlertHasTraffic
<1>1. IInv => AlertHasTraffic
  BY DEF IInv
<1>. QED  BY Inductive, <1>1, PTL

\* No training saves a model with a packet whose young alert stood confirmed when it read the
\* labels.
THEOREM ConfirmedNeverTrainedHolds == Spec => ConfirmedNeverTrained
<1>1. IInv /\ [Next]_vars => [Save => \A r \in trainer.rows : r.ts \notin known]_vars
  BY DEF Save, IInv, TrainingExcludes
<1>. QED  BY Inductive, <1>1, PTL DEF Spec, ConfirmedNeverTrained
=============================================================================
