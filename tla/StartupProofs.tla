---------------------------- MODULE StartupProofs ----------------------------
(***************************************************************************)
(* Theorems about module Startup: for any set of processes beside the      *)
(* engine, any old tables, and any number of trainings, edits and faults.  *)
(***************************************************************************)
EXTENDS Startup, TLAPS

LEMMA ColumnFacts ==
    /\ Len(Columns) = 4 /\ DOMAIN Columns = 1 .. 4
    /\ \A i \in 1 .. 4 : Columns[i] \in ColumnNames
    /\ \A c \in ColumnNames : \E i \in 1 .. 4 : Columns[i] = c
    /\ NewAlerts \subseteq ColumnNames
<1>1. Len(Columns) = 4 /\ DOMAIN Columns = 1 .. 4
  BY DEF Columns
<1>. QED  BY <1>1 DEF ColumnNames, NewAlerts

LEMMA NullFacts ==
    /\ \A t \in SUBSET ColumnNames : t # Null
    /\ NewBlocked # Null
  BY StartupAssumption

-----------------------------------------------------------------------------
(* The inductive invariant *)

\* What a process that has come so far in init_db has seen to: the tables exist, the
\* index has needed expires_at, and every column the loop has passed is there.
Progress(p) ==
    /\ pc[p] \notin {"down", "config", "tables"} => alerts # Null /\ blocked # Null
    /\ pc[p] \in {"columns", "alter"} \/ PastInit(p) => blocked = NewBlocked
    /\ pc[p] = "alter" => have[p] \subseteq alerts
                          /\ \A i \in 1 .. 4 : i < at[p] => Columns[i] \in alerts
    /\ pc[p] # "alter" => at[p] = 1
    /\ PastInit(p) => alerts = ColumnNames

\* What the engine has read so far is the pinned model.
Pinned ==
    /\ pc[Engine] = "load" /\ pin # Null /\ ~rewritten => file = pin
    /\ PinnedModel

IInv == StartupTypeOK /\ (\A p \in Procs : Progress(p)) /\ Pinned

-----------------------------------------------------------------------------
(* Type correctness *)

LEMMA TypeStep == IInv /\ [Next]_vars => StartupTypeOK'
<1>. SUFFICES ASSUME StartupTypeOK, \A p \in Procs : Progress(p), [Next]_vars
             PROVE  StartupTypeOK'
  BY DEF IInv
<1>. USE ColumnFacts DEF StartupTypeOK, Goto, EndProc, Unread, schema, world, Versions
<1>1. ASSUME NEW p \in Procs, Start(p) PROVE StartupTypeOK'
  BY <1>1 DEF Start
<1>2. CASE LoadConfig
  BY <1>2 DEF LoadConfig, Procs
<1>3. ASSUME NEW p \in Procs, CreateTables(p) PROVE StartupTypeOK'
  BY <1>3 DEF CreateTables
<1>4. ASSUME NEW p \in Procs, CreateIndexes(p) PROVE StartupTypeOK'
  BY <1>4 DEF CreateIndexes
<1>5. ASSUME NEW p \in Procs, ReadColumns(p) PROVE StartupTypeOK'
  <2>1. alerts \in SUBSET ColumnNames
    BY <1>5 DEF ReadColumns, Progress
  <2>. QED  BY <1>5, <2>1 DEF ReadColumns
<1>6. ASSUME NEW p \in Procs, AddColumn(p) PROVE StartupTypeOK'
  <2>. DEFINE column == Columns[at[p]]
  <2>1. column \in ColumnNames
    OBVIOUS
  <2>2. CASE NextColumn(p) /\ UNCHANGED have
    <3>1. /\ pc' \in [Procs -> {"down", "config", "tables", "index", "columns", "alter",
                              "hash", "load", "up"}]
          /\ at' \in [Procs -> DOMAIN Columns]
      BY <2>2 DEF NextColumn, AfterInit
    <3>2. \/ UNCHANGED <<alerts, have>>
          \/ alerts # Null /\ alerts' = alerts \cup {column} /\ UNCHANGED have
      BY <1>6, <2>2, NullFacts DEF AddColumn, Progress
    <3>. HIDE DEF column
    <3>3. alerts' = Null \/ alerts' \subseteq ColumnNames
      BY <2>1, <3>2
    <3>. QED  BY <1>6, <3>1, <3>2, <3>3 DEF AddColumn
  <2>3. CASE EndProc(p) /\ UNCHANGED alerts
    BY <1>6, <2>3 DEF AddColumn
  <2>. QED  BY <1>6, <2>2, <2>3 DEF AddColumn
<1>7. CASE VerifyHash \/ LoadModel
  <2>. Engine \in Procs
    BY DEF Procs
  <2>1. CASE VerifyHash
    <3>1. CASE EndProc(Engine) /\ UNCHANGED rewritten
      BY <2>1, <3>1 DEF VerifyHash
    <3>2. CASE Goto(Engine, "load") /\ Unread(Engine) /\ rewritten' = FALSE
      BY <2>1, <3>2 DEF VerifyHash
    <3>. QED  BY <2>1, <3>1, <3>2 DEF VerifyHash
  <2>2. CASE LoadModel
    BY <2>2 DEF LoadModel
  <2>. QED  BY <1>7, <2>1, <2>2
<1>8. ASSUME NEW p \in Procs, Finish(p) \/ Fault(p) PROVE StartupTypeOK'
  BY <1>8 DEF Finish, Fault
<1>9. CASE BeginSave \/ EndSave
  <2>. MaxTrainings \in Nat
    BY StartupAssumption
  <2>1. CASE BeginSave
    <3>1. trainings' \in 0 .. MaxTrainings /\ trainings' # 0
      BY <2>1 DEF BeginSave
    <3>. QED  BY <2>1, <3>1 DEF BeginSave, Rewrite
  <2>2. CASE EndSave
    <3>1. file' \in Versions
      BY <2>2 DEF EndSave
    <3>. QED  BY <2>2, <3>1 DEF EndSave, Rewrite
  <2>. QED  BY <1>9, <2>1, <2>2
<1>10. CASE EditConfig
  <2>1. config' \in [valid : BOOLEAN, pin : Versions \cup {Null}]
    BY <1>10 DEF EditConfig
  <2>2. edits' \in Nat
    BY <1>10 DEF EditConfig
  <2>. QED  BY <1>10, <2>1, <2>2 DEF EditConfig
<1>11. CASE UNCHANGED vars
  BY <1>11 DEF vars
<1>. QED
  BY <1>1, <1>2, <1>3, <1>4, <1>5, <1>6, <1>7, <1>8, <1>9, <1>10, <1>11 DEF Next, Proceed, InitDb

-----------------------------------------------------------------------------
(* Induction *)

LEMMA IInvInit == Init => IInv
<1>. SUFFICES ASSUME Init PROVE IInv
  OBVIOUS
<1>. USE DEF Init
<1>1. StartupTypeOK
  <2>1. (alerts = Null \/ alerts \subseteq ColumnNames) /\ (blocked = Null \/ blocked \subseteq NewBlocked)
    BY StartupAssumption
  <2>2. at \in [Procs -> DOMAIN Columns] /\ have \in [Procs -> SUBSET ColumnNames]
    BY ColumnFacts
  <2>3. config \in [valid : BOOLEAN, pin : Versions \cup {Null}]
    OBVIOUS
  <2>4. trainings \in 0 .. MaxTrainings
    BY StartupAssumption
  <2>. QED  BY <2>1, <2>2, <2>3, <2>4 DEF StartupTypeOK
<1>2. (\A p \in Procs : Progress(p)) /\ Pinned
  BY DEF Progress, PastInit, Pinned, PinnedModel, Procs
<1>. QED  BY <1>1, <1>2 DEF IInv

\* The schema only grows: a table that exists stays, with what it has.
LEMMA SchemaGrows ==
    ASSUME StartupTypeOK, [Next]_vars
    PROVE  /\ alerts # Null => alerts' # Null /\ alerts \subseteq alerts'
           /\ blocked # Null => blocked' = blocked
<1>. USE DEF StartupTypeOK, schema
<1>1. ASSUME NEW p \in Procs, CreateTables(p) PROVE alerts # Null => alerts' = alerts
  BY <1>1 DEF CreateTables
<1>2. ASSUME NEW p \in Procs, CreateTables(p) PROVE blocked # Null => blocked' = blocked
  BY <1>2 DEF CreateTables
<1>3. ASSUME NEW p \in Procs, AddColumn(p), alerts # Null
      PROVE  alerts' # Null /\ alerts \subseteq alerts' /\ blocked' = blocked
  <2>1. at[p] \in 1 .. 4
    BY ColumnFacts
  <2>2. \/ alerts' = alerts
        \/ alerts' = alerts \cup {Columns[at[p]]}
    BY <1>3 DEF AddColumn
  <2>3. alerts' \subseteq ColumnNames /\ alerts \subseteq alerts' /\ blocked' = blocked
    BY <1>3, <2>1, <2>2, ColumnFacts DEF AddColumn
  <2>. QED  BY <2>3, NullFacts
<1>4. ASSUME NEW p \in Procs, AddColumn(p) PROVE blocked' = blocked
  BY <1>4 DEF AddColumn
<1>5. CASE alerts' = alerts /\ blocked' = blocked
  BY <1>5
<1>6. \/ alerts' = alerts /\ blocked' = blocked
      \/ \E p \in Procs : CreateTables(p) \/ AddColumn(p)
  BY DEF Next, Proceed, InitDb, Start, LoadConfig, CreateIndexes, ReadColumns, VerifyHash,
         LoadModel, Finish, Fault, BeginSave, EndSave, EditConfig, vars
<1>. QED  BY <1>1, <1>2, <1>3, <1>4, <1>5, <1>6

\* A process keeps what it has seen to while others move.
LEMMA Unmoved ==
    ASSUME IInv, [Next]_vars, NEW p \in Procs,
           pc'[p] = pc[p], have'[p] = have[p], at'[p] = at[p]
    PROVE  Progress(p)'
<1>1. StartupTypeOK /\ Progress(p) /\ StartupTypeOK'
  BY TypeStep DEF IInv
<1>2. /\ alerts # Null => alerts' # Null /\ alerts \subseteq alerts'
      /\ blocked # Null => blocked' = blocked
  BY <1>1, SchemaGrows
<1>3. alerts # Null /\ alerts = ColumnNames => alerts' = ColumnNames
  BY <1>1, <1>2 DEF StartupTypeOK
<1>4. pc[p] \notin {"down", "config", "tables"} => alerts # Null /\ blocked # Null
  BY <1>1 DEF Progress
<1>5. PastInit(p)' <=> PastInit(p)
  BY DEF PastInit
<1>6. pc[p] = "alter" => alerts # Null /\ alerts \subseteq alerts'
  BY <1>2, <1>4
<1>7. PastInit(p) => pc[p] \notin {"down", "config", "tables"}
  BY DEF PastInit
<1>. QED  BY <1>1, <1>2, <1>3, <1>4, <1>5, <1>6, <1>7 DEF Progress

\* A process that ends has nothing to see to.
LEMMA Ended ==
    ASSUME StartupTypeOK, NEW p \in Procs, EndProc(p) PROVE Progress(p)'
  BY DEF StartupTypeOK, EndProc, Goto, Progress, PastInit

\* A step of one process leaves the others where they are.
LEMMA Apart ==
    ASSUME StartupTypeOK, NEW p \in Procs, NEW q \in Procs, q # p,
           \/ \E step : Goto(p, step)
           \/ UNCHANGED pc,
           \/ \E v : have' = [have EXCEPT ![p] = v]
           \/ UNCHANGED have,
           \/ \E v : at' = [at EXCEPT ![p] = v]
           \/ UNCHANGED at
    PROVE  pc'[q] = pc[q] /\ have'[q] = have[q] /\ at'[q] = at[q]
  BY DEF StartupTypeOK, Goto

\* The loop goes on, past a column that is there.
LEMMA LoopStep ==
    ASSUME IInv, NEW p \in Procs, pc[p] = "alter", NextColumn(p), UNCHANGED <<have, blocked>>,
           alerts \subseteq alerts', alerts' \subseteq ColumnNames, Columns[at[p]] \in alerts'
    PROVE  Progress(p)'
<1>. USE ColumnFacts DEF NextColumn
<1>1. /\ at[p] \in 1 .. 4 /\ have[p] \subseteq alerts /\ blocked = NewBlocked
      /\ \A i \in 1 .. 4 : i < at[p] => Columns[i] \in alerts
  BY DEF IInv, StartupTypeOK, Progress
<1>2. \A i \in 1 .. 4 : i <= at[p] => Columns[i] \in alerts'
  BY <1>1
<1>3. alerts' # Null /\ blocked' # Null
  BY <1>1, NullFacts
<1>4. CASE at[p] = 4
  <2>1. ColumnNames \subseteq alerts'
    BY <1>2, <1>4
  <2>2. /\ pc'[p] \in {"hash", "up"} /\ at'[p] = 1
    BY <1>4 DEF AfterInit, Goto, IInv, StartupTypeOK
  <2>. QED  BY <1>1, <1>3, <2>1, <2>2 DEF Progress, PastInit
<1>5. CASE at[p] # 4
  <2>1. pc'[p] = "alter" /\ at'[p] = at[p] + 1
    BY <1>1, <1>5 DEF IInv, StartupTypeOK
  <2>. QED  BY <1>1, <1>2, <1>3, <2>1 DEF Progress, PastInit
<1>. QED  BY <1>4, <1>5

LEMMA InitDbStep ==
    ASSUME IInv, [Next]_vars, NEW p \in Procs, Start(p) \/ InitDb(p)
    PROVE  \A q \in Procs : Progress(q)'
<1>. USE DEF IInv, Unread, schema
<1>1. StartupTypeOK /\ Progress(p) /\ StartupTypeOK'
  BY TypeStep
<1>2. CASE Start(p)
  <2>1. Progress(p)'
    BY <1>1, <1>2 DEF Start, Goto, StartupTypeOK, Progress, PastInit
  <2>. QED  BY <1>1, <1>2, <2>1, Apart, Unmoved DEF Start
<1>3. CASE CreateTables(p)
  <2>1. alerts' # Null /\ blocked' # Null
    BY <1>3, NullFacts, ColumnFacts DEF CreateTables
  <2>2. Progress(p)'
    BY <1>1, <1>3, <2>1 DEF CreateTables, Goto, StartupTypeOK, Progress, PastInit
  <2>. QED  BY <1>1, <1>3, <2>2, Apart, Unmoved DEF CreateTables
<1>4. CASE CreateIndexes(p)
  <2>1. CASE EndProc(p)
    BY <1>1, <1>4, <2>1, Ended, Apart, Unmoved DEF EndProc
  <2>2. CASE blocked = NewBlocked /\ Goto(p, "columns") /\ Unread(p)
    <3>1. Progress(p)'
      BY <1>1, <1>4, <2>2 DEF CreateIndexes, Goto, StartupTypeOK, Progress, PastInit
    <3>. QED  BY <1>1, <2>2, <3>1, Apart, Unmoved
  <2>. QED  BY <1>4, <2>1, <2>2 DEF CreateIndexes
<1>5. CASE ReadColumns(p)
  <2>1. Progress(p)'
    BY <1>1, <1>5 DEF ReadColumns, Goto, StartupTypeOK, Progress, PastInit
  <2>. QED  BY <1>1, <1>5, <2>1, Apart, Unmoved DEF ReadColumns
<1>6. CASE AddColumn(p)
  <2>1. CASE EndProc(p)
    BY <1>1, <1>6, <2>1, Ended, Apart, Unmoved DEF EndProc
  <2>2. CASE NextColumn(p) /\ UNCHANGED have
    <3>1. alerts # Null /\ alerts \subseteq alerts' /\ alerts' # Null /\ UNCHANGED blocked
      BY <1>1, <1>6, SchemaGrows DEF AddColumn, Progress
    <3>2. alerts' \subseteq ColumnNames
      BY <1>1, <3>1 DEF StartupTypeOK
    <3>3. Columns[at[p]] \in alerts' \/ EndProc(p)
      BY <1>1, <1>6 DEF AddColumn, Progress
    <3>4. Progress(p)'
      BY <1>1, <1>6, <2>1, <2>2, <3>1, <3>2, <3>3, LoopStep, Ended DEF AddColumn
    <3>. QED  BY <1>1, <2>2, <3>4, Apart, Unmoved DEF NextColumn
  <2>. QED  BY <1>6, <2>1, <2>2 DEF AddColumn
<1>. QED  BY <1>2, <1>3, <1>4, <1>5, <1>6 DEF InitDb

LEMMA ModelStep ==
    ASSUME IInv, [Next]_vars, LoadConfig \/ VerifyHash \/ LoadModel
    PROVE  \A q \in Procs : Progress(q)'
<1>. USE DEF IInv, Unread, schema
<1>1. Engine \in Procs
  BY DEF Procs
<1>2. StartupTypeOK /\ Progress(Engine)
  BY <1>1
<1>3. CASE EndProc(Engine)
  BY <1>1, <1>2, <1>3, Ended, Apart, Unmoved DEF EndProc
<1>4. CASE ~EndProc(Engine)
  <2>1. /\ \E step : Goto(Engine, step)
        /\ UNCHANGED <<have, at, alerts, blocked>>
    BY <1>4 DEF LoadConfig, VerifyHash, LoadModel
  <2>2. \/ pc[Engine] = "config" /\ Goto(Engine, "tables")
        \/ pc[Engine] \in {"hash", "load"} /\ \E step \in {"load", "up"} : Goto(Engine, step)
    BY <1>4 DEF LoadConfig, VerifyHash, LoadModel
  <2>3. Progress(Engine)'
    BY <1>1, <1>2, <2>1, <2>2 DEF Goto, StartupTypeOK, Progress, PastInit
  <2>. QED  BY <1>1, <1>2, <2>1, <2>3, Apart, Unmoved
<1>. QED  BY <1>3, <1>4

LEMMA ProgressStep == IInv /\ [Next]_vars => \A p \in Procs : Progress(p)'
<1>. SUFFICES ASSUME IInv, [Next]_vars PROVE \A p \in Procs : Progress(p)'
  OBVIOUS
<1>1. ASSUME NEW p \in Procs, Start(p) \/ InitDb(p) PROVE \A q \in Procs : Progress(q)'
  BY <1>1, InitDbStep
<1>2. CASE LoadConfig \/ VerifyHash \/ LoadModel
  BY <1>2, ModelStep
<1>3. ASSUME NEW p \in Procs, Finish(p) \/ Fault(p) PROVE \A q \in Procs : Progress(q)'
  <2>1. EndProc(p) /\ StartupTypeOK
    BY <1>3 DEF Finish, Fault, IInv
  <2>. QED  BY <2>1, Ended, Apart, Unmoved DEF EndProc
<1>4. CASE UNCHANGED <<pc, have, at>>
  BY <1>4, Unmoved
<1>5. BeginSave \/ EndSave \/ EditConfig \/ UNCHANGED vars => UNCHANGED <<pc, have, at>>
  BY DEF BeginSave, EndSave, EditConfig, vars
<1>. QED  BY <1>1, <1>2, <1>3, <1>4, <1>5 DEF Next, Proceed

LEMMA PinnedStep == IInv /\ [Next]_vars => Pinned'
<1>. SUFFICES ASSUME IInv, [Next]_vars PROVE Pinned'
  OBVIOUS
<1>. USE DEF Pinned, PinnedModel, Goto, EndProc, world
<1>1. /\ Engine \in Procs /\ Engine \notin Others
      /\ pc \in [Procs -> {"down", "config", "tables", "index", "columns", "alter",
                           "hash", "load", "up"}]
      /\ Pinned
  BY StartupAssumption DEF IInv, StartupTypeOK, Procs
<1>2. ASSUME NEW p \in Procs, Start(p) \/ InitDb(p) PROVE Pinned'
  <2>1. UNCHANGED <<file, pin, loaded, rewritten>>
    BY <1>2 DEF Start, InitDb, CreateTables, CreateIndexes, ReadColumns, AddColumn
  <2>2. pc'[Engine] \notin {"load", "up"} \/ pc'[Engine] = pc[Engine]
    BY <1>1, <1>2 DEF Start, InitDb, CreateTables, CreateIndexes, ReadColumns, AddColumn,
                      NextColumn, AfterInit
  <2>. QED  BY <1>1, <2>1, <2>2
<1>3. CASE LoadConfig
  BY <1>1, <1>3 DEF LoadConfig
<1>4. CASE VerifyHash
  BY <1>1, <1>4 DEF VerifyHash
<1>5. CASE LoadModel
  BY <1>1, <1>5 DEF LoadModel
<1>6. ASSUME NEW p \in Procs, Finish(p) \/ Fault(p) PROVE Pinned'
  BY <1>1, <1>6 DEF Finish, Fault
<1>7. CASE BeginSave \/ EndSave
  BY <1>1, <1>7 DEF BeginSave, EndSave, Rewrite
<1>8. CASE EditConfig
  BY <1>1, <1>8 DEF EditConfig
<1>9. CASE UNCHANGED vars
  BY <1>1, <1>9 DEF vars
<1>. QED  BY <1>2, <1>3, <1>4, <1>5, <1>6, <1>7, <1>8, <1>9 DEF Next, Proceed

-----------------------------------------------------------------------------
(* Theorems *)

\* However many processes bring the schema up to date together, what each has seen to
\* holds at every step (init_db, db.py:37-88).
THEOREM Inductive == Spec => []IInv
<1>1. IInv /\ [Next]_vars => IInv'
  BY TypeStep, ProgressStep, PinnedStep DEF IInv
<1>. QED  BY IInvInit, <1>1, PTL DEF Spec

\* The state of the schema, the processes and the model keeps its type.
THEOREM TypeCorrect == Spec => []StartupTypeOK
<1>1. IInv => StartupTypeOK
  BY DEF IInv
<1>. QED  BY Inductive, <1>1, PTL

\* Whoever has left init_db finds every column (db.py:80-88).
THEOREM ReadyFindsSchemaHolds == Spec => []ReadyFindsSchema
<1>1. IInv => ReadyFindsSchema
  BY DEF IInv, Progress, PastInit, ReadyFindsSchema
<1>. QED  BY Inductive, <1>1, PTL

\* An engine with a pin runs the pinned model, unless the file changed between its two
\* reads (load and _verify_model_hash, ai_model.py:85-109).
THEOREM PinnedModelHolds == Spec => []PinnedModel
<1>1. IInv => PinnedModel
  BY DEF IInv, Pinned
<1>. QED  BY Inductive, <1>1, PTL
=============================================================================
