------------------------------ MODULE Heartbeat ------------------------------
(***************************************************************************)
(* Is the engine alive? The row of acf-engine in service_heartbeats, the   *)
(* two threads of main.py that write it (the main thread at start and at   *)
(* the end, the maintenance thread after each pass), and the dashboard's   *)
(* reading of it (engine_service_status of app.py).                        *)
(*                                                                         *)
(* Time is explicit: a tick is a second, and Tick lets no thread miss one  *)
(* of the code's deadlines, Period and JoinTimeout. A pass and a write may *)
(* take any time (SQLite waits for locks, iptables runs have no timeout):  *)
(* MaxPass and MaxWrite only say which of them count as late.              *)
(***************************************************************************)
EXTENDS Integers

CONSTANTS
    Null,
    Interval,       \* block_maintenance_interval_seconds as the engine read it
    ViewInterval,   \* the same setting as the dashboard read it
    MaxPass,        \* a maintenance pass that takes longer is late
    MaxWrite,       \* a write of a heartbeat that takes longer is late
    MaxTime         \* bound on the clock

\* interval = max(1, cfg.get("block_maintenance_interval_seconds", 30))
Period == IF Interval < 1 THEN 1 ELSE Interval

\* maintenance_thread.join(timeout=5)
JoinTimeout == 5

MaxAgeStrict ==   \* mutant: the margin over two intervals is forgotten
    ViewInterval * 2

\* max_age = cfg.get("block_maintenance_interval_seconds", 30) * 2 + 5
MaxAge == ViewInterval * 2 + 5

ASSUME TimesAssumption ==
    /\ Interval \in Nat /\ ViewInterval \in Nat
    /\ MaxPass \in Nat /\ MaxWrite \in Nat /\ MaxTime \in Nat

\* One pass that fails, a successful one and three writes, none of them late, fit into
\* the age the dashboard allows.
ASSUME AgeAssumption == 2 * Period + 2 * MaxPass + 3 * MaxWrite <= ViewInterval * 2 + 5

Beats == [last : Nat, active : BOOLEAN]

ASSUME NullAssumption == Null \notin Beats

VARIABLES
    now,
    beat,       \* the row of acf-engine: last_heartbeat and status, or Null
    main,       \* the engine's main thread
    thread,     \* its maintenance thread
    stopping,   \* the stop event is set
    stamp,      \* time.time() of the heartbeat the thread is writing
    until,      \* when its wait is over, or from when on its present step is late
    began,      \* when its last pass began
    joinUntil,  \* when join() gives up
    missed,     \* history: passes that failed since the last heartbeat
    late,       \* history: a pass or a write since then has been late
    endedAt     \* history: when the last process, or its thread, ended

threadVars == <<thread, stamp, until, began, missed, late>>
vars == <<now, beat, main, stopping, joinUntil, endedAt, threadVars>>

\* The thread is in a pass.
Busy == thread \in {"opening", "passing", "beating"}

TypeOK ==
    /\ now \in Nat
    /\ beat \in Beats \cup {Null}
    /\ main \in {"down", "starting", "running", "joining", "stopping", "exiting"}
    /\ thread \in {"none", "waiting", "opening", "passing", "beating", "ended"}
    /\ stopping \in BOOLEAN
    /\ stamp \in Nat /\ until \in Nat /\ began \in Nat /\ joinUntil \in Nat
    /\ missed \in Nat /\ late \in BOOLEAN
    /\ endedAt \in Nat

Init ==
    /\ now = 0 /\ beat = Null
    /\ main = "down" /\ stopping = FALSE /\ joinUntil = 0
    /\ thread = "none" /\ stamp = 0 /\ until = 0 /\ began = 0
    /\ missed = 0 /\ late = FALSE /\ endedAt = 0

-----------------------------------------------------------------------------
(* The main thread *)

\* run_detect_mode: load the model, clean up.
Start ==
    /\ main = "down"
    /\ main' = "starting"
    /\ UNCHANGED <<now, beat, threadVars, stopping, joinUntil, endedAt>>

FirstBeatSign ==   \* mutant: the sign of the interval is wrong
    /\ main = "starting"
    /\ main' = "running"
    /\ beat' = [last |-> now, active |-> TRUE]
    /\ thread' = "waiting" /\ until' = now - Period
    /\ stopping' = FALSE /\ missed' = 0 /\ late' = FALSE
    /\ UNCHANGED <<now, stamp, began, joinUntil, endedAt>>

\* The first heartbeat, and the maintenance thread starts to wait.
FirstBeat ==
    /\ main = "starting"
    /\ main' = "running"
    /\ beat' = [last |-> now, active |-> TRUE]
    /\ thread' = "waiting" /\ until' = now + Period
    /\ stopping' = FALSE /\ missed' = 0 /\ late' = FALSE
    /\ UNCHANGED <<now, stamp, began, joinUntil, endedAt>>

StopWithoutJoin ==   \* mutant: the main thread does not join the maintenance thread
    /\ main = "running"
    /\ main' = "stopping"
    /\ stopping' = TRUE /\ UNCHANGED joinUntil
    /\ UNCHANGED <<now, beat, threadVars, endedAt>>

\* The capture ends (Ctrl-C, an error): maintenance_stop.set(), join(timeout=5).
Stop ==
    /\ main = "running"
    /\ main' = "joining"
    /\ stopping' = TRUE /\ joinUntil' = now + JoinTimeout
    /\ UNCHANGED <<now, beat, threadVars, endedAt>>

\* join() returns: the thread has ended, or the five seconds are over.
Joined ==
    /\ main = "joining"
    /\ thread = "ended" \/ now >= joinUntil
    /\ main' = "stopping"
    /\ UNCHANGED <<now, beat, threadVars, stopping, joinUntil, endedAt>>

\* The last heartbeat; its write may fail.
WriteStopped ==
    /\ main = "stopping"
    /\ main' = "exiting"
    /\ beat' \in {beat, [last |-> now, active |-> FALSE]}
    /\ UNCHANGED <<now, threadVars, stopping, joinUntil, endedAt>>

\* The process ends (after WriteStopped, by an exception at its start, or killed, as
\* SIGTERM does: no handler is installed). The daemon thread ends with it, wherever it
\* stands; until then it goes on, also after WriteStopped.
End ==
    /\ main # "down"
    /\ main' = "down" /\ stopping' = FALSE /\ joinUntil' = 0
    /\ thread' = "none" /\ stamp' = 0 /\ until' = 0 /\ began' = 0
    /\ missed' = 0 /\ late' = FALSE /\ endedAt' = now
    /\ UNCHANGED <<now, beat>>

-----------------------------------------------------------------------------
(* The maintenance thread *)

\* The main thread's variables, and the time.
mainVars == <<now, main, stopping, joinUntil>>

\* stop_event.wait(interval) times out: a pass begins with get_connection.
Wake ==
    /\ thread = "waiting" /\ ~stopping /\ now = until
    /\ thread' = "opening" /\ until' = now + MaxPass /\ began' = now
    /\ UNCHANGED <<mainVars, beat, stamp, missed, late, endedAt>>

\* get_connection returns.
Open ==
    /\ thread = "opening"
    /\ thread' = "passing"
    /\ UNCHANGED <<mainVars, beat, stamp, until, began, missed, late, endedAt>>

\* get_connection raises, outside the try: the thread ends for the life of the process,
\* and the main thread goes on capturing.
OpenFails ==
    /\ thread = "opening"
    /\ thread' = "ended" /\ endedAt' = now
    /\ UNCHANGED <<mainVars, beat, stamp, until, began, missed, late>>

\* wait() returns True: the loop ends.
EndThread ==
    /\ thread = "waiting" /\ stopping
    /\ thread' = "ended" /\ endedAt' = now
    /\ UNCHANGED <<mainVars, beat, stamp, until, began, missed, late>>

\* init_db and cleanup_expired_blocks return and time.time() is read.
Stamp ==
    /\ thread = "passing"
    /\ thread' = "beating" /\ stamp' = now /\ until' = now + MaxWrite
    /\ UNCHANGED <<mainVars, beat, began, missed, late, endedAt>>

\* The loop goes back to wait(interval).
Wait == thread' = "waiting" /\ until' = now + Period

BeatAhead ==   \* mutant: the time of the next pass is written
    /\ thread = "beating"
    /\ beat' = [last |-> stamp + Period, active |-> TRUE]
    /\ missed' = 0 /\ late' = (now > until)
    /\ Wait
    /\ UNCHANGED <<mainVars, stamp, began, endedAt>>

\* update_service_heartbeat writes.
Beat ==
    /\ thread = "beating"
    /\ beat' = [last |-> stamp, active |-> TRUE]
    /\ missed' = 0 /\ late' = (now > until)
    /\ Wait
    /\ UNCHANGED <<mainVars, stamp, began, endedAt>>

\* init_db, the clean-up or the write raises; the loop prints it.
PassFails ==
    /\ thread \in {"passing", "beating"}
    /\ missed' = missed + 1
    /\ Wait
    /\ UNCHANGED <<mainVars, beat, stamp, began, late, endedAt>>

-----------------------------------------------------------------------------
\* A second passes.
Tick ==
    /\ now < MaxTime
    /\ thread = "waiting" /\ ~stopping => now < until
    /\ main = "joining" => now < joinUntil
    /\ now' = now + 1
    /\ late' = (late \/ (Busy /\ now >= until))
    /\ UNCHANGED <<beat, main, thread, stopping, stamp, until, began, joinUntil, missed, endedAt>>

Next ==
    \/ Start \/ FirstBeat \/ Stop \/ Joined \/ WriteStopped \/ End
    \/ Wake \/ Open \/ OpenFails \/ EndThread \/ Stamp \/ Beat \/ PassFails
    \/ Tick

Spec == Init /\ [][Next]_vars

-----------------------------------------------------------------------------
(* Properties *)

\* engine_service_status answers "active".
ShownActive == beat # Null /\ beat.active /\ now - beat.last <= MaxAge

\* No false alarm: an engine that captures is shown active as long as its maintenance
\* thread lives (get_connection, outside the try, may end it), also when one pass has
\* failed, unless a pass or a write is late.
RunningIsShownActive ==
    main = "running" /\ thread # "ended" /\ missed <= 1 /\ ~late => ShownActive

\* No false comfort: MaxAge after its end, however it came, an engine is not shown
\* active. Nor is one that captures without its maintenance thread, with which nothing
\* is left to remove expired blocks.
EndedIsShownInactive ==
    (main = "down" \/ thread = "ended") /\ now - endedAt > MaxAge => ~ShownActive

\* "stopped" is not final: join(timeout=5) may give up on a pass, whose heartbeat then
\* says "active". Only a pass can do this that was under way when the engine was told
\* to stop and has outlasted the whole join; never one that began after the stop.
OnlyALatePassRevives ==
    [][beat # Null /\ ~beat.active /\ beat'.active =>
         \/ main = "starting"
         \/ /\ main = "exiting" /\ thread = "beating"
            /\ began + JoinTimeout <= joinUntil /\ joinUntil <= now]_vars
=============================================================================
