--------------------------- MODULE HeartbeatProofs ---------------------------
(***************************************************************************)
(* Theorems about module Heartbeat, for all intervals and durations that   *)
(* its assumptions allow, and for ever (MaxTime is arbitrary).             *)
(***************************************************************************)
EXTENDS Heartbeat, TLAPS

-----------------------------------------------------------------------------
(* The inductive invariant *)

\* Which thread can be where.
Threads ==
    /\ main \in {"down", "starting"} => thread = "none"
    /\ main = "running" => ~stopping /\ thread # "none"
    /\ main \in {"joining", "stopping", "exiting"} => stopping /\ thread # "none"
    /\ main \in {"stopping", "exiting"} => thread = "ended" \/ joinUntil <= now

\* While the main thread has not written "stopped", the row says active.
Active ==
    main \in {"running", "joining", "stopping"} => beat # Null /\ beat.active

\* Nothing written is from the future, nothing of a dead process or of a dead thread is
\* from after its end.
Past ==
    /\ stamp <= now /\ endedAt <= now /\ began <= now
    /\ beat # Null => beat.last <= now
    /\ main = "down" /\ beat # Null => beat.last <= endedAt
    /\ thread = "ended" /\ beat # Null /\ beat.active => beat.last <= endedAt

\* The thread's deadlines lie ahead, unless it is late, and no further than its step may
\* take.
Deadlines ==
    /\ thread = "waiting" /\ ~stopping => now <= until
    /\ thread \in {"opening", "passing"} /\ ~late => now <= until /\ until <= now + MaxPass
    /\ thread = "beating" => until = stamp + MaxWrite
    /\ thread = "beating" /\ ~late => now <= until

\* How long after the last heartbeat the thread's present step may end.
Budget ==
    (IF missed = 0 THEN 0 ELSE Period + MaxPass + MaxWrite)
    + MaxWrite + Period
    + (IF thread \in {"opening", "passing"} THEN MaxPass ELSE 0)
    + (IF thread = "beating" THEN MaxPass + MaxWrite ELSE 0)

BeatIsRecent ==
    main = "running" /\ thread # "ended" /\ missed <= 1 /\ ~late
      => until <= beat.last + Budget

\* A pass that is under way after the stop began before it.
BegunBefore ==
    main \in {"joining", "stopping", "exiting"} /\ Busy => began + JoinTimeout <= joinUntil

IInv == TypeOK /\ Threads /\ Active /\ Past /\ Deadlines /\ BeatIsRecent /\ BegunBefore

LEMMA Constants ==
    /\ Interval \in Nat /\ ViewInterval \in Nat /\ MaxPass \in Nat /\ MaxWrite \in Nat
    /\ Period \in Nat /\ Period >= 1
    /\ JoinTimeout = 5
    /\ 2 * Period + 2 * MaxPass + 3 * MaxWrite <= MaxAge
    /\ MaxAge \in Nat
  BY TimesAssumption, AgeAssumption DEF Period, MaxAge, JoinTimeout

-----------------------------------------------------------------------------
(* Type correctness *)

LEMMA Written ==
    ASSUME NEW t \in Nat, NEW b \in BOOLEAN
    PROVE  /\ [last |-> t, active |-> b] \in Beats
           /\ [last |-> t, active |-> b] # Null
  BY NullAssumption DEF Beats

LEMMA TypeStep == TypeOK /\ [Next]_vars => TypeOK'
<1>. SUFFICES ASSUME TypeOK, [Next]_vars PROVE TypeOK'
  OBVIOUS
<1>. USE Constants DEF TypeOK, threadVars, mainVars, Wait
<1>1. CASE Start \/ Joined
  BY <1>1 DEF Start, Joined
<1>9. CASE End
  BY <1>9 DEF End
<1>2. CASE FirstBeat
  <2>1. beat' \in Beats
    BY <1>2 DEF FirstBeat, Beats
  <2>2. until' \in Nat
    BY <1>2 DEF FirstBeat
  <2>. HIDE Constants
  <2>. QED  BY <1>2, <2>1, <2>2 DEF FirstBeat
<1>3. CASE Stop
  BY <1>3 DEF Stop
<1>4. CASE WriteStopped
  <2>1. [last |-> now, active |-> FALSE] \in Beats
    BY DEF Beats
  <2>2. beat' \in Beats \cup {Null}
    BY <1>4, <2>1 DEF WriteStopped
  <2>. QED  BY <1>4, <2>2 DEF WriteStopped
<1>5. CASE Wake \/ Open \/ OpenFails \/ EndThread \/ Stamp \/ PassFails
  BY <1>5 DEF Wake, Open, OpenFails, EndThread, Stamp, PassFails
<1>6. CASE Beat
  <2>1. beat' \in Beats
    BY <1>6 DEF Beat, Beats
  <2>. QED  BY <1>6, <2>1 DEF Beat
<1>7. CASE Tick
  BY <1>7 DEF Tick
<1>8. CASE UNCHANGED vars
  BY <1>8 DEF vars
<1>. QED  BY <1>1, <1>2, <1>3, <1>4, <1>5, <1>6, <1>7, <1>8, <1>9 DEF Next

-----------------------------------------------------------------------------
(* Induction *)

LEMMA IInvInit == Init => IInv
<1>. SUFFICES ASSUME Init PROVE IInv
  OBVIOUS
<1>. USE DEF Init
<1>1. TypeOK
  BY DEF TypeOK
<1>2. Threads /\ Active /\ Past /\ Deadlines
  BY DEF Threads, Active, Past, Deadlines
<1>3. BeatIsRecent /\ BegunBefore
  BY DEF BeatIsRecent, BegunBefore
<1>. QED  BY <1>1, <1>2, <1>3 DEF IInv

LEMMA ThreadsStep == IInv /\ [Next]_vars => Threads'
<1>. SUFFICES ASSUME IInv, [Next]_vars PROVE Threads'
  OBVIOUS
<1>. USE DEF IInv, TypeOK, Threads, threadVars, mainVars, Wait
<1>1. CASE Start \/ FirstBeat \/ Stop \/ End
  BY <1>1 DEF Start, FirstBeat, Stop, End
<1>2. CASE Joined
  BY <1>2 DEF Joined
<1>3. CASE WriteStopped
  BY <1>3 DEF WriteStopped
<1>4. CASE Wake \/ Open \/ OpenFails \/ EndThread \/ Stamp \/ PassFails
  BY <1>4 DEF Wake, Open, OpenFails, EndThread, Stamp, PassFails
<1>5. CASE Beat
  BY <1>5 DEF Beat
<1>6. CASE Tick
  BY <1>6 DEF Tick
<1>7. CASE UNCHANGED vars
  BY <1>7 DEF vars
<1>. QED  BY <1>1, <1>2, <1>3, <1>4, <1>5, <1>6, <1>7 DEF Next

LEMMA ActiveStep == IInv /\ [Next]_vars => Active'
<1>. SUFFICES ASSUME IInv, [Next]_vars, main' \in {"running", "joining", "stopping"}
             PROVE beat' # Null /\ beat'.active
  BY DEF Active
<1>. USE DEF IInv, Active, mainVars, Wait
<1>1. CASE FirstBeat
  BY <1>1, Written DEF FirstBeat, TypeOK
<1>2. CASE Beat
  BY <1>2, Written DEF Beat, TypeOK
<1>3. CASE Stop
  BY <1>3 DEF Stop
<1>4. CASE Start \/ Joined \/ WriteStopped \/ End
  BY <1>4 DEF Start, Joined, WriteStopped, End
<1>5. CASE Wake \/ Open \/ OpenFails \/ EndThread \/ Stamp \/ PassFails \/ Tick
  BY <1>5 DEF Wake, Open, OpenFails, EndThread, Stamp, PassFails, Tick
<1>6. CASE UNCHANGED vars
  BY <1>6 DEF vars
<1>. QED  BY <1>1, <1>2, <1>3, <1>4, <1>5, <1>6 DEF Next

LEMMA PastStep == IInv /\ [Next]_vars => Past'
<1>. SUFFICES ASSUME IInv, [Next]_vars PROVE Past'
  OBVIOUS
<1>. USE DEF IInv, TypeOK, Past, Beats, threadVars, mainVars, Wait
<1>1. CASE Start \/ Stop \/ Joined \/ End
  BY <1>1 DEF Start, Stop, Joined, End
<1>2. CASE FirstBeat
  BY <1>2 DEF FirstBeat
<1>3. CASE WriteStopped
  BY <1>3 DEF WriteStopped
<1>4. CASE Wake \/ Open \/ OpenFails \/ EndThread \/ Stamp \/ PassFails
  BY <1>4 DEF Wake, Open, OpenFails, EndThread, Stamp, PassFails
<1>5. CASE Beat
  BY <1>5 DEF Beat, Threads, Active
<1>6. CASE Tick
  BY <1>6 DEF Tick
<1>7. CASE UNCHANGED vars
  BY <1>7 DEF vars
<1>. QED  BY <1>1, <1>2, <1>3, <1>4, <1>5, <1>6, <1>7 DEF Next

LEMMA DeadlinesStep == IInv /\ [Next]_vars => Deadlines'
<1>. SUFFICES ASSUME IInv, [Next]_vars PROVE Deadlines'
  OBVIOUS
<1>. USE Constants DEF IInv, TypeOK, Threads, Active, Deadlines, threadVars, mainVars, Wait
<1>1. CASE Start \/ Stop \/ Joined \/ WriteStopped \/ End
  BY <1>1 DEF Start, Stop, Joined, WriteStopped, End
<1>2. CASE FirstBeat
  BY <1>2 DEF FirstBeat
<1>3. CASE Wake \/ Open \/ OpenFails \/ EndThread
  BY <1>3 DEF Wake, Open, OpenFails, EndThread
<1>4. CASE Stamp
  BY <1>4 DEF Stamp
<1>5. CASE Beat \/ PassFails
  BY <1>5 DEF Beat, PassFails
<1>6. CASE Tick
  <2>1. ~late' => ~late /\ ~(Busy /\ now >= until)
    BY <1>6, Zenon DEF Tick
  <2>2. /\ now' = now + 1 /\ UNCHANGED <<thread, stopping, stamp, until>>
        /\ thread = "waiting" /\ ~stopping => now < until
    BY <1>6 DEF Tick
  <2>. QED  BY <2>1, <2>2 DEF Busy
<1>7. CASE UNCHANGED vars
  BY <1>7 DEF vars
<1>. QED  BY <1>1, <1>2, <1>3, <1>4, <1>5, <1>6, <1>7 DEF Next

LEMMA RecentStep == IInv /\ [Next]_vars => BeatIsRecent'
<1>. SUFFICES ASSUME IInv, [Next]_vars, main' = "running", thread' # "ended",
                    missed' <= 1, ~late'
             PROVE until' <= beat'.last + Budget'
  BY DEF BeatIsRecent
<1>. USE Constants DEF IInv, TypeOK, Threads, Active, Beats, Budget, threadVars, mainVars, Wait
<1>1. CASE Start \/ Stop \/ Joined \/ WriteStopped \/ End
  BY <1>1 DEF Start, Stop, Joined, WriteStopped, End
<1>2. CASE FirstBeat
  BY <1>2 DEF FirstBeat
<1>3. CASE Wake
  BY <1>3 DEF Wake, BeatIsRecent
<1>4. CASE Open \/ OpenFails \/ EndThread
  BY <1>4 DEF EndThread, Open, OpenFails, BeatIsRecent
<1>5. CASE Stamp
  BY <1>5 DEF Stamp, BeatIsRecent, Deadlines
<1>6. CASE Beat
  BY <1>6 DEF Beat, Deadlines
<1>7. CASE PassFails
  BY <1>7 DEF PassFails, BeatIsRecent, Deadlines
<1>8. CASE Tick
  BY <1>8 DEF Tick, BeatIsRecent
<1>9. CASE UNCHANGED vars
  BY <1>9 DEF vars, BeatIsRecent
<1>. QED  BY <1>1, <1>2, <1>3, <1>4, <1>5, <1>6, <1>7, <1>8, <1>9 DEF Next

LEMMA JoinStep == IInv /\ [Next]_vars => BegunBefore'
<1>. SUFFICES ASSUME IInv, [Next]_vars PROVE BegunBefore'
  OBVIOUS
<1>. USE Constants DEF IInv, TypeOK, Threads, Deadlines, BegunBefore, Busy, threadVars, mainVars, Wait
<1>1. CASE Start \/ FirstBeat \/ Joined \/ WriteStopped \/ End
  BY <1>1 DEF Start, FirstBeat, Joined, WriteStopped, End
<1>2. CASE Stop
  BY <1>2 DEF Stop, Past
<1>3. CASE Wake \/ Open \/ OpenFails \/ EndThread
  BY <1>3 DEF Wake, Open, OpenFails, EndThread
<1>4. CASE Stamp
  BY <1>4 DEF Stamp
<1>5. CASE Beat \/ PassFails
  BY <1>5 DEF Beat, PassFails
<1>6. CASE Tick
  BY <1>6 DEF Tick
<1>7. CASE UNCHANGED vars
  BY <1>7 DEF vars
<1>. QED  BY <1>1, <1>2, <1>3, <1>4, <1>5, <1>6, <1>7 DEF Next

\* The inductive invariant holds.
THEOREM Inductive == Spec => []IInv
<1>1. IInv /\ [Next]_vars => IInv'
  BY TypeStep, ThreadsStep, ActiveStep, PastStep, DeadlinesStep, RecentStep, JoinStep DEF IInv
<1>. QED  BY IInvInit, <1>1, PTL DEF Spec

-----------------------------------------------------------------------------
(* The properties *)

\* Clocks, deadlines, threads and the row keep their types for any intervals: no
\* deadline of the maintenance thread is ever computed below zero.
THEOREM TypeCorrect == Spec => []TypeOK
<1>1. IInv => TypeOK
  BY DEF IInv
<1>. QED  BY <1>1, Inductive, PTL

\* Whatever the intervals and durations that AgeAssumption admits, an engine that
\* captures is shown active while its maintenance thread lives, also after one failed
\* pass, unless a pass or a write is late.
THEOREM RunningIsShownActiveHolds == Spec => []RunningIsShownActive
<1>1. IInv => RunningIsShownActive
  <2>. SUFFICES ASSUME IInv, main = "running", thread # "ended", missed <= 1, ~late
               PROVE ShownActive
    BY DEF RunningIsShownActive
  <2>1. now <= until /\ until <= beat.last + Budget
    BY DEF IInv, TypeOK, Threads, Active, Deadlines, BeatIsRecent
  <2>2. Budget <= MaxAge
    BY Constants DEF IInv, TypeOK, Budget
  <2>3. beat # Null /\ beat.active /\ beat.last \in Nat
    BY DEF IInv, TypeOK, Active, Beats
  <2>4. Budget \in Nat
    BY Constants DEF Budget
  <2>. QED  BY <2>1, <2>2, <2>3, <2>4, Constants DEF ShownActive, IInv, TypeOK
<1>. QED  BY <1>1, Inductive, PTL

\* MaxAge after its end, however it came, no engine is shown active; nor is one whose
\* maintenance thread has died.
THEOREM EndedIsShownInactiveHolds == Spec => []EndedIsShownInactive
<1>1. IInv => EndedIsShownInactive
  BY Constants DEF IInv, TypeOK, Past, Beats, EndedIsShownInactive, ShownActive
<1>. QED  BY <1>1, Inductive, PTL

\* Whatever a pass and a write take, only a pass that was under way at the stop and has
\* outlasted the join replaces "stopped".
THEOREM OnlyALatePassRevivesHolds == Spec => OnlyALatePassRevives
<1>. DEFINE A == beat # Null /\ ~beat.active /\ beat'.active =>
                   \/ main = "starting"
                   \/ /\ main = "exiting" /\ thread = "beating"
                      /\ began + JoinTimeout <= joinUntil /\ joinUntil <= now
<1>1. IInv /\ [Next]_vars => [A]_vars
  <2>. SUFFICES ASSUME IInv, Next, beat # Null, ~beat.active, beat'.active
               PROVE  \/ main = "starting"
                      \/ /\ main = "exiting" /\ thread = "beating"
                         /\ began + JoinTimeout <= joinUntil /\ joinUntil <= now
    OBVIOUS
  <2>1. CASE FirstBeat
    BY <2>1 DEF FirstBeat
  <2>2. CASE Beat
    <3>1. thread = "beating"
      BY <2>2 DEF Beat
    <3>2. main \in {"stopping", "exiting"}
      BY <3>1 DEF IInv, TypeOK, Threads, Active
    <3>3. main # "stopping"
      BY <3>2 DEF IInv, Active
    <3>. QED  BY <3>1, <3>2, <3>3 DEF IInv, Threads, BegunBefore, Busy
  <2>3. CASE WriteStopped
    BY <2>3 DEF WriteStopped
  <2>4. CASE Start \/ Stop \/ Joined \/ End \/ Wake \/ Open \/ OpenFails \/ EndThread
             \/ Stamp \/ PassFails \/ Tick
    BY <2>4 DEF Start, Stop, Joined, End, Wake, Open, OpenFails, EndThread, Stamp,
                PassFails, Tick
  <2>. QED  BY <2>1, <2>2, <2>3, <2>4 DEF Next
<1>. QED  BY <1>1, Inductive, PTL DEF Spec, OnlyALatePassRevives
=============================================================================
