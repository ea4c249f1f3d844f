------------------------------- MODULE Startup -------------------------------
(***************************************************************************)
(* How the programs come up: the configuration (utils.py), the schema that *)
(* every process and every request of the dashboard brings up to date by   *)
(* itself (db.py), and, for the engine, the trained model and its pin      *)
(* (ai_model.py). Meanwhile other processes do the same, the operator      *)
(* edits config.yml, and a training rewrites the model file.               *)
(*                                                                         *)
(* A statement of SQLite is a step: the connection is in autocommit mode.  *)
(* What raises ends the process; the service manager starts the engine     *)
(* again.                                                                  *)
(***************************************************************************)
EXTENDS Integers, Sequences

CONSTANTS
    Null,
    Partial,        \* a model file that is being written, or was left half written
    Engine,
    Others,         \* maintenance passes, requests of the dashboard, command-line tools
    OldAlerts,      \* the columns of the alerts tables the programs may find, or Null
    OldBlocked,     \* the same for blocked_ips
    MaxTrainings, MaxEdits, MaxFaults   \* bounds

\* The columns init_db adds to alerts, in the order of its loop.
Columns == <<"feedback", "severity", "mitre_technique", "mitre_tactic">>
ColumnNames == {Columns[i] : i \in DOMAIN Columns}

\* The columns of a table that CREATE TABLE makes (of those init_db also adds).
NewAlerts == ColumnNames \ {"feedback"}
NewBlocked == {"expires_at"}

Procs == Others \cup {Engine}

ASSUME StartupAssumption ==
    /\ Engine \notin Others
    /\ \A table \in SUBSET (ColumnNames \cup NewBlocked) : table # Null
    /\ Null \notin Nat /\ Partial \notin Nat /\ Null # Partial
    /\ \A old \in OldAlerts : old = Null \/ old \subseteq ColumnNames
    /\ \A old \in OldBlocked : old = Null \/ old \subseteq NewBlocked
    /\ MaxTrainings \in Nat /\ MaxEdits \in Nat /\ MaxFaults \in Nat

VARIABLES
    alerts, blocked,    \* columns of the tables (see Columns, NewBlocked), or Null
    pc,
    have,               \* the columns PRAGMA table_info has shown each process
    at,                 \* its place in the loop over Columns
    config,             \* config.yml: is it valid, and model_sha256
    file,               \* the model file: Null, Partial, or the training that wrote it
    training,           \* a training is saving
    trainings, edits, faults,   \* counters of the bounds
    pin, loaded,        \* model_sha256 as the engine read it, and the model it runs
    rewritten           \* history: the file changed between the engine's two reads of it

schema == <<alerts, blocked>>
world == <<config, file, training, trainings, edits, rewritten>>
vars == <<schema, pc, have, at, world, faults, pin, loaded>>

Versions == 1 .. MaxTrainings

StartupTypeOK ==
    /\ alerts = Null \/ alerts \subseteq ColumnNames
    /\ blocked = Null \/ blocked \subseteq NewBlocked
    /\ pc \in [Procs -> {"down", "config", "tables", "index", "columns", "alter",
                         "hash", "load", "up"}]
    /\ have \in [Procs -> SUBSET ColumnNames]
    /\ at \in [Procs -> DOMAIN Columns]
    /\ config \in [valid : BOOLEAN, pin : Versions \cup {Null}]
    /\ file \in Versions \cup {Null, Partial}
    /\ training \in BOOLEAN /\ rewritten \in BOOLEAN
    /\ trainings \in 0 .. MaxTrainings /\ (training => trainings # 0)
    /\ edits \in Nat /\ faults \in Nat
    /\ pin \in Versions \cup {Null} /\ loaded \in Versions \cup {Null}

Init ==
    /\ alerts \in OldAlerts /\ blocked \in OldBlocked
    /\ pc = [p \in Procs |-> "down"]
    /\ have = [p \in Procs |-> {}] /\ at = [p \in Procs |-> 1]
    /\ config = [valid |-> TRUE, pin |-> Null]
    /\ file = Null /\ training = FALSE /\ rewritten = FALSE
    /\ trainings = 0 /\ edits = 0 /\ faults = 0
    /\ pin = Null /\ loaded = Null

Goto(p, step) == pc' = [pc EXCEPT ![p] = step]

\* An exception nobody catches, or the end.
EndProc(p) ==
    /\ Goto(p, "down")
    /\ have' = [have EXCEPT ![p] = {}] /\ at' = [at EXCEPT ![p] = 1]

Unread(p) == UNCHANGED <<have, at>>

-----------------------------------------------------------------------------
(* Configuration and schema *)

\* The service manager starts the engine; a request or a tool begins.
Start(p) ==
    /\ pc[p] = "down"
    /\ Goto(p, IF p = Engine THEN "config" ELSE "tables")
    /\ UNCHANGED <<schema, have, at, world, faults, pin, loaded>>

\* load_config: what is missing, unreadable or invalid ends the process.
LoadConfig ==
    /\ pc[Engine] = "config"
    /\ IF config.valid
       THEN Goto(Engine, "tables") /\ Unread(Engine) /\ pin' = config.pin
       ELSE EndProc(Engine) /\ UNCHANGED pin
    /\ UNCHANGED <<schema, world, faults, loaded>>

\* CREATE TABLE IF NOT EXISTS: a table that exists stays as it is.
CreateTables(p) ==
    /\ pc[p] = "tables"
    /\ Goto(p, "index")
    /\ alerts' = IF alerts = Null THEN NewAlerts ELSE alerts
    /\ blocked' = IF blocked = Null THEN NewBlocked ELSE blocked
    /\ UNCHANGED <<have, at, world, faults, pin, loaded>>

\* CREATE INDEX IF NOT EXISTS: the one on blocked_ips(expires_at) needs the column that
\* is added further down only.
CreateIndexes(p) ==
    /\ pc[p] = "index"
    /\ IF blocked = NewBlocked THEN Goto(p, "columns") /\ Unread(p) ELSE EndProc(p)
    /\ UNCHANGED <<schema, world, faults, pin, loaded>>

\* PRAGMA table_info(alerts)
ReadColumns(p) ==
    /\ pc[p] = "columns"
    /\ have' = [have EXCEPT ![p] = alerts]
    /\ Goto(p, "alter") /\ UNCHANGED at
    /\ UNCHANGED <<schema, world, faults, pin, loaded>>

\* After init_db the engine loads its model, the others do their work.
AfterInit(p) == IF p = Engine THEN "hash" ELSE "up"

NextColumnPastEnd(p) ==   \* mutant: one step too many
    IF at[p] > Len(Columns)
    THEN Goto(p, AfterInit(p)) /\ at' = [at EXCEPT ![p] = 1]
    ELSE at' = [at EXCEPT ![p] = @ + 1] /\ UNCHANGED pc

\* The loop goes on with the next column, or is over. The code then looks for expires_at
\* in blocked_ips and would add it; but it is there: CREATE INDEX has needed it.
NextColumn(p) ==
    IF at[p] = Len(Columns)
    THEN Goto(p, AfterInit(p)) /\ at' = [at EXCEPT ![p] = 1]
    ELSE at' = [at EXCEPT ![p] = @ + 1] /\ UNCHANGED pc

AddColumnGivingUp(p) ==   \* mutant: a column that is there already ends the loop
    /\ pc[p] = "alter"
    /\ LET column == Columns[at[p]]
       IN  IF column \in have[p] THEN NextColumn(p) /\ UNCHANGED <<alerts, have>>
           ELSE IF column \in alerts
           THEN Goto(p, AfterInit(p)) /\ at' = [at EXCEPT ![p] = 1] /\ UNCHANGED <<alerts, have>>
           ELSE alerts' = alerts \cup {column} /\ NextColumn(p) /\ UNCHANGED have
    /\ UNCHANGED <<blocked, world, faults, pin, loaded>>

AddColumnBlindly(p) ==   \* mutant: the columns that exist are not looked up
    /\ pc[p] = "alter"
    /\ LET column == Columns[at[p]]
       IN  IF column \in alerts
           THEN EndProc(p) /\ UNCHANGED alerts
           ELSE alerts' = alerts \cup {column} /\ NextColumn(p) /\ UNCHANGED have
    /\ UNCHANGED <<blocked, world, faults, pin, loaded>>

\* ALTER TABLE alerts ADD COLUMN, for a column the PRAGMA did not show: it raises when
\* another process has added the column since.
AddColumn(p) ==
    /\ pc[p] = "alter"
    /\ LET column == Columns[at[p]]
       IN  \/ /\ column \in have[p]
              /\ NextColumn(p) /\ UNCHANGED <<alerts, have>>
           \/ /\ column \notin have[p] /\ column \notin alerts
              /\ alerts' = alerts \cup {column} /\ NextColumn(p) /\ UNCHANGED have
           \/ /\ column \notin have[p] /\ column \in alerts
              /\ EndProc(p) /\ UNCHANGED alerts
    /\ UNCHANGED <<blocked, world, faults, pin, loaded>>

-----------------------------------------------------------------------------
(* The model *)

VerifyHashLater ==   \* mutant: the digest is compared with config.yml as it is now
    /\ pc[Engine] = "hash"
    /\ IF file = Null \/ (config.pin # Null /\ file # config.pin)
       THEN EndProc(Engine) /\ UNCHANGED rewritten
       ELSE Goto(Engine, "load") /\ Unread(Engine) /\ rewritten' = FALSE
    /\ UNCHANGED <<schema, config, file, training, trainings, edits, faults, pin, loaded>>

\* load(): a missing file, or one whose digest is not the pinned one, ends the engine.
VerifyHash ==
    /\ pc[Engine] = "hash"
    /\ IF file = Null \/ (pin # Null /\ file # pin)
       THEN EndProc(Engine) /\ UNCHANGED rewritten
       ELSE Goto(Engine, "load") /\ Unread(Engine) /\ rewritten' = FALSE
    /\ UNCHANGED <<schema, config, file, training, trainings, edits, faults, pin, loaded>>

\* joblib.load opens the file a second time.
LoadModel ==
    /\ pc[Engine] = "load"
    /\ IF file \in Versions
       THEN Goto(Engine, "up") /\ Unread(Engine) /\ loaded' = file
       ELSE EndProc(Engine) /\ UNCHANGED loaded
    /\ UNCHANGED <<schema, world, faults, pin>>

-----------------------------------------------------------------------------
(* The rest of the world *)

\* The process ends: its work is done, it is stopped, or the database stays locked.
Finish(p) ==
    /\ p # Engine /\ pc[p] = "up"
    /\ EndProc(p)
    /\ UNCHANGED <<schema, world, faults, pin, loaded>>

Fault(p) ==
    /\ faults < MaxFaults /\ pc[p] # "down"
    /\ EndProc(p) /\ faults' = faults + 1
    /\ UNCHANGED <<schema, world, pin, loaded>>

Rewrite == rewritten' = (rewritten \/ pc[Engine] = "load")

\* save(): joblib.dump truncates the file and fills it.
BeginSave ==
    /\ ~training /\ trainings < MaxTrainings
    /\ training' = TRUE /\ trainings' = trainings + 1
    /\ file' = Partial /\ Rewrite
    /\ UNCHANGED <<schema, pc, have, at, config, edits, faults, pin, loaded>>

EndSave ==
    /\ training
    /\ training' = FALSE
    /\ file' = trainings /\ Rewrite
    /\ UNCHANGED <<schema, pc, have, at, config, trainings, edits, faults, pin, loaded>>

\* The operator edits config.yml, and pins the model he finds, or does not.
EditConfig ==
    /\ edits < MaxEdits
    /\ edits' = edits + 1
    /\ config' \in [valid : BOOLEAN, pin : ({file} \cap Versions) \cup {Null, config.pin}]
    /\ UNCHANGED <<schema, pc, have, at, file, training, trainings, rewritten, faults, pin, loaded>>

-----------------------------------------------------------------------------
InitDb(p) ==
    CreateTables(p) \/ CreateIndexes(p) \/ ReadColumns(p) \/ AddColumn(p)

Proceed(p) == Start(p) \/ InitDb(p) \/ (p = Engine /\ (LoadConfig \/ VerifyHash \/ LoadModel))

Next ==
    \/ \E p \in Procs : Proceed(p) \/ Finish(p) \/ Fault(p)
    \/ BeginSave \/ EndSave \/ EditConfig

\* The engine is started again whenever it has ended (Restart=on-failure, restart:
\* unless-stopped), and its statements get their turn.
Spec == Init /\ [][Next]_vars /\ WF_vars(Proceed(Engine))

-----------------------------------------------------------------------------
(* Properties *)

PastInit(p) == pc[p] \in {"hash", "load", "up"}

\* Whoever has left init_db finds every column of alerts and blocked_ips that init_db adds,
\* however many processes were altering the tables at the same time or ended in the middle.
\* (No statement adds columns to an older traffic table: README.md:291-299.)
ReadyFindsSchema ==
    \A p \in Procs : PastInit(p) => alerts = ColumnNames /\ blocked = NewBlocked

\* An engine with a pin runs the pinned model, whatever was trained or edited while it
\* came up or since; unless the file was rewritten between its two reads of it.
PinnedModel == pc[Engine] = "up" /\ pin # Null /\ ~rewritten => loaded = pin

\* config.yml is in order and the model file complete, and the pin, if any, is its own.
Settled == config.valid /\ file \in Versions /\ config.pin \in {Null, file}

\* Once everything is in order the engine comes up, from any schema of OldAlerts and
\* OldBlocked, although a start that loses the race for a column fails.
EngineComesUp == <>[]Settled => []<>(pc[Engine] = "up")

\* The comment on these statements: "Add columns if they do not exist yet" (db.py:80).
\* A blocked_ips table without expires_at gets it when the engine is started.
ExpiryIsAdded == <>(blocked = NewBlocked)
=============================================================================
