--------------------------- MODULE DashboardProofs ---------------------------
(***************************************************************************)
(* Theorems about modules Login and Dashboard, for any number of threads,  *)
(* any limit and any window of the limiter.                                *)
(***************************************************************************)
EXTENDS Dashboard, FiniteSetTheorems, WellFoundedInduction, TLAPS

AllSteps == Steps \cup {"streaming"}

-----------------------------------------------------------------------------
(* Lemmas *)

LEMMA FiniteAges ==
    ASSUME NEW S \in SUBSET Ages
    PROVE  IsFiniteSet(S) /\ Cardinality(S) \in Nat
<1>1. IsFiniteSet(Ages)
  BY FS_Interval, LoginAssumption DEF Ages
<1>. QED  BY <1>1, FS_Subset, FS_CardinalityType

\* What ages never grows in number.
LEMMA AgedIsNoMore ==
    ASSUME NEW S \in SUBSET Ages
    PROVE  /\ Aged(S) \subseteq Ages
           /\ Cardinality(Aged(S)) <= Cardinality(S)
<1>. DEFINE D == S \ {Window - 1}
            f == [a \in D |-> a + 1]
<1>1. Aged(S) \subseteq Ages
  BY LoginAssumption DEF Aged, Ages
<1>2. IsFiniteSet(S) /\ IsFiniteSet(D) /\ D \in SUBSET S
  BY FiniteAges
<1>3. f \in Surjection(D, Aged(S))
  BY DEF Surjection, Aged
<1>4. Cardinality(Aged(S)) <= Cardinality(D)
  BY <1>2, <1>3, FS_Surjection
<1>5. Cardinality(D) <= Cardinality(S)
  BY <1>2, FS_Subset
<1>6. /\ Cardinality(S) \in Nat /\ Cardinality(D) \in Nat
      /\ Cardinality(Aged(S)) \in Nat
  BY <1>1, FiniteAges, D \in SUBSET Ages
<1>. QED  BY <1>1, <1>4, <1>5, <1>6

LEMMA AgedAndOne ==
    ASSUME NEW S \in SUBSET Ages
    PROVE  /\ {0} \cup Aged(S) \subseteq Ages
           /\ Cardinality({0} \cup Aged(S)) <= Cardinality(S) + 1
<1>1. Aged(S) \in SUBSET Ages /\ Cardinality(Aged(S)) <= Cardinality(S)
  BY AgedIsNoMore
<1>2. 0 \in Ages
  BY LoginAssumption DEF Ages
<1>3. IsFiniteSet(Aged(S)) /\ Cardinality(Aged(S)) \in Nat /\ Cardinality(S) \in Nat
  BY <1>1, FiniteAges
<1>4. Cardinality(Aged(S) \cup {0}) <= Cardinality(Aged(S)) + 1
  BY <1>3, FS_AddElement
<1>5. Aged(S) \cup {0} = {0} \cup Aged(S)
  OBVIOUS
<1>6. Cardinality(Aged(S) \cup {0}) \in Nat
  BY <1>1, <1>2, FiniteAges
<1>. QED  BY <1>1, <1>2, <1>3, <1>4, <1>5, <1>6

LEMMA FiniteThreads ==
    ASSUME NEW S \in SUBSET Threads
    PROVE  /\ IsFiniteSet(S) /\ Cardinality(S) \in Nat
           /\ Cardinality(Threads) \in Nat /\ Cardinality(S) <= Cardinality(Threads)
  BY LoginAssumption, FS_Subset, FS_CardinalityType

\* SELECT MAX(id) finds a maximum.
LEMMA MaxIdFound ==
    ASSUME NEW seq \in Nat, alerts \subseteq 1 .. seq
    PROVE  MaxId \in alerts \cup {0} /\ \A j \in alerts : j <= MaxId
<1>. DEFINE S == alerts \cup {0}
            From(i) == {j \in S : j >= i}
            T == {From(i) : i \in S}
            Less == StrictSubsetOrdering(S)
<1>1. IsFiniteSet(0 .. seq) /\ S \in SUBSET (0 .. seq)
  BY FS_Interval
<1>2. IsFiniteSet(S)
  BY <1>1, FS_Subset
<1>3. IsWellFoundedOn(Less, SUBSET S)
  <2>. HIDE DEF S
  <2>1. FiniteSubsetsOf(S) = SUBSET S
    BY <1>2, FS_FiniteSubsetsOfFinite
  <2>. QED  BY <2>1, FS_StrictSubsetOrderingWellFounded
<1>4. T \subseteq SUBSET S /\ T # {}
  OBVIOUS
<1>5. PICK U \in T : \A V \in T : <<V, U>> \notin Less
  <2>. HIDE DEF T, Less, S
  <2>1. \E U \in T : \A V \in T : ~(<<V, U>> \in Less)
    BY <1>3, <1>4, WFMin
  <2>. QED  BY <2>1
<1>6. PICK m \in S : U = From(m)
  OBVIOUS
<1>7. ASSUME NEW j \in S, j > m PROVE FALSE
  <2>0. S \subseteq Nat
    OBVIOUS
  <2>1. m \in U /\ m \notin From(j) /\ From(j) \subseteq U
    <3>. HIDE DEF S
    <3>1. \A k \in S : k >= j => k >= m
      BY <1>6, <1>7, <2>0
    <3>2. m >= m /\ ~(m >= j)
      BY <1>6, <1>7, <2>0
    <3>. QED  BY <1>6, <3>1, <3>2
  <2>2. From(j) \in SUBSET S /\ U \in SUBSET S /\ From(j) \in T
    BY <1>6
  <2>. HIDE DEF S, From, T
  <2>3. <<From(j), U>> \in (SUBSET S) \X (SUBSET S)
    BY <2>2
  <2>4. <<From(j), U>> \in Less
    BY <2>1, <2>3 DEF StrictSubsetOrdering
  <2>. QED  BY <1>5, <2>2, <2>4
<1>8. m \in S /\ \A j \in alerts : j <= m
  BY <1>1, <1>7
<1>. HIDE DEF T, Less
<1>. QED  BY <1>8, Zenon DEF MaxId

-----------------------------------------------------------------------------
(* Type correctness *)

LEMMA LoginTypeStep ==
    ASSUME ThreadTypeOK(AllSteps), [Next]_vars
    PROVE  ThreadTypeOK(AllSteps)'
<1>. USE DEF ThreadTypeOK, AllSteps, Steps, Goto
<1>1. Aged(failures) \subseteq Ages /\ Aged(guesses) \subseteq Ages
  BY AgedIsNoMore
<1>2. {0} \cup Aged(failures) \subseteq Ages /\ {0} \cup Aged(guesses) \subseteq Ages
  BY AgedAndOne
<1>3. ASSUME NEW t \in Threads, NEW ok \in BOOLEAN, Arrive(t, ok) PROVE ThreadTypeOK(AllSteps)'
  BY <1>3 DEF Arrive
<1>4. ASSUME NEW t \in Threads, CheckLimit(t) \/ Unauthorized(t) \/ Serve(t)
      PROVE  ThreadTypeOK(AllSteps)'
  BY <1>4 DEF CheckLimit, Unauthorized, Serve
<1>5. ASSUME NEW t \in Threads, CheckPassword(t) \/ Record(t) PROVE ThreadTypeOK(AllSteps)'
  BY <1>1, <1>2, <1>5 DEF CheckPassword, Record
<1>6. CASE Tick
  BY <1>1, <1>6 DEF Tick
<1>7. CASE UNCHANGED vars
  BY <1>7 DEF vars
<1>. QED  BY <1>3, <1>4, <1>5, <1>6, <1>7 DEF Next, Proceed

\* What a thread streams is forgotten when it is free again.
LEMMA StreamStep ==
    ASSUME DashboardTypeOK, [DashboardNext]_dashboardVars
    PROVE  /\ stream' \in [Threads -> [seen : Nat, gone : BOOLEAN, owes : BOOLEAN]]
           /\ \A t \in Threads : ~Streaming(t)' => stream'[t] = NoStream
<1>. DEFINE Streams == [seen : Nat, gone : BOOLEAN, owes : BOOLEAN]
<1>. USE DEF DashboardTypeOK, ThreadTypeOK, Streaming, Goto
<1>1. MaxId \in Nat /\ NoStream \in Streams
  <2>1. MaxId \in alerts \cup {0} /\ alerts \subseteq Nat
    <3>1. alertSeq \in Nat /\ alerts \subseteq 1 .. alertSeq
      OBVIOUS
    <3>2. MaxId \in alerts \cup {0}
      BY <3>1, MaxIdFound
    <3>. QED  BY <3>1, <3>2
  <2>. QED  BY <2>1 DEF NoStream
<1>2. CASE Request \/ ProbeArrives \/ AnswerProbe \/ PruneAlerts \/ UNCHANGED dashboardVars
  <2>1. UNCHANGED stream
    BY <1>2 DEF Request, ProbeArrives, AnswerProbe, PruneAlerts, dashboardVars, streamVars
  <2>2. \A t \in Threads : Streaming(t) => Streaming(t)'
    BY <1>2 DEF Request, ProbeArrives, AnswerProbe, PruneAlerts, dashboardVars, vars, Next,
                Proceed, Arrive, CheckLimit, CheckPassword, Unauthorized, Record, Serve, Tick
  <2>. QED  BY <2>1, <2>2
<1>3. ASSUME NEW t \in Threads, OpenStream(t)
      PROVE  stream' \in [Threads -> Streams]
             /\ \A u \in Threads : ~Streaming(u)' => stream'[u] = NoStream
  <2>1. PICK seen \in Nat : stream' = [stream EXCEPT ![t] = [NoStream EXCEPT !.seen = seen]]
    BY <1>1, <1>3 DEF OpenStream
  <2>2. [NoStream EXCEPT !.seen = seen] \in Streams
    BY <2>1 DEF NoStream
  <2>. QED  BY <1>3, <2>1, <2>2 DEF OpenStream
<1>4. ASSUME NEW t \in Threads, Poll(t)
      PROVE  stream' \in [Threads -> Streams]
             /\ \A u \in Threads : ~Streaming(u)' => stream'[u] = NoStream
  <2>1. CASE stream' = [stream EXCEPT ![t].seen = MaxId, ![t].owes = FALSE] /\ UNCHANGED thread
    <3>1. stream' \in [Threads -> Streams]
      BY <1>1, <2>1
    <3>2. \A u \in Threads : u # t => stream'[u] = stream[u]
      BY <2>1
    <3>. QED  BY <1>4, <2>1, <3>1, <3>2 DEF Poll
  <2>2. CASE stream' = [stream EXCEPT ![t] = NoStream] /\ Goto(t, "free")
    BY <1>1, <2>2
  <2>. QED  BY <1>4, <2>1, <2>2 DEF Poll
<1>5. ASSUME NEW t \in Threads, Leave(t)
      PROVE  stream' \in [Threads -> Streams]
             /\ \A u \in Threads : ~Streaming(u)' => stream'[u] = NoStream
  BY <1>5 DEF Leave, vars
<1>6. CASE LogAlert
  <2>1. /\ stream' = [t \in Threads |->
                        IF Streaming(t) THEN [stream[t] EXCEPT !.owes = TRUE] ELSE stream[t]]
        /\ UNCHANGED thread
    BY <1>6 DEF LogAlert, Alert, vars
  <2>. QED  BY <2>1
<1>. QED  BY <1>2, <1>3, <1>4, <1>5, <1>6 DEF DashboardNext

LEMMA TypeStep == DashboardTypeOK /\ [DashboardNext]_dashboardVars => DashboardTypeOK'
<1>. SUFFICES ASSUME DashboardTypeOK, [DashboardNext]_dashboardVars PROVE DashboardTypeOK'
  OBVIOUS
<1>. USE DEF DashboardTypeOK
<1>1. ThreadTypeOK(AllSteps)'
  <2>1. CASE [Next]_vars
    BY <2>1, LoginTypeStep DEF AllSteps
  <2>2. ASSUME NEW t \in Threads, OpenStream(t) \/ Poll(t) PROVE ThreadTypeOK(AllSteps)'
    BY <2>2 DEF OpenStream, Poll, ThreadTypeOK, AllSteps, Steps, Goto
  <2>. QED  BY <2>1, <2>2 DEF DashboardNext, Request, Leave, ProbeArrives, AnswerProbe, LogAlert,
                            Alert, PruneAlerts, dashboardVars
<1>2. alertSeq' \in Nat /\ alerts' \subseteq 1 .. alertSeq' /\ probe' \in BOOLEAN
  <2>1. CASE LogAlert
    BY <2>1 DEF LogAlert, Alert
  <2>2. CASE PruneAlerts
    BY <2>2 DEF PruneAlerts
  <2>3. CASE UNCHANGED <<alerts, alertSeq>> /\ probe' \in BOOLEAN
    BY <2>3
  <2>. QED  BY <2>1, <2>2, <2>3 DEF DashboardNext, Request, OpenStream, Poll, Leave, ProbeArrives,
                                    AnswerProbe, dashboardVars, streamVars
<1>. QED  BY <1>1, <1>2, StreamStep DEF AllSteps, Streaming

-----------------------------------------------------------------------------
(* The list of failures *)

\* The bound is kept by every step: only who has seen fewer than AuthMax failures begins
\* to record one, and then every thread may be recording.
LEMMA FailuresStep ==
    ASSUME DashboardTypeOK, FailuresBounded, [DashboardNext]_dashboardVars
    PROVE  FailuresBounded'
<1>. DEFINE N == Cardinality(Threads)
<1>1. /\ failures \in SUBSET Ages /\ Recording \in SUBSET Threads /\ Recording' \in SUBSET Threads
      /\ thread \in [Threads -> AllSteps]
  BY DEF DashboardTypeOK, ThreadTypeOK, Recording, AllSteps
<1>2. /\ Cardinality(failures) \in Nat /\ Cardinality(Recording) \in Nat
      /\ Cardinality(Recording') \in Nat /\ Cardinality(Recording') <= N /\ N \in Nat
      /\ AuthMax \in Nat \ {0}
  BY <1>1, FiniteAges, FiniteThreads, LoginAssumption
<1>3. failures' \in SUBSET Ages /\ Cardinality(failures') \in Nat
  <2>1. failures' \in SUBSET Ages
    BY TypeStep DEF DashboardTypeOK, ThreadTypeOK
  <2>. QED  BY <2>1, FiniteAges
<1>4. CASE Cardinality(failures') <= Cardinality(failures) /\ Recording' \subseteq Recording
  <2>1. Cardinality(Recording') <= Cardinality(Recording)
    BY <1>1, <1>4, FiniteThreads, FS_Subset
  <2>. QED  BY <1>2, <1>3, <1>4, <2>1 DEF FailuresBounded
<1>5. ASSUME NEW t \in Threads, Unauthorized(t) PROVE FailuresBounded'
  <2>1. CASE RateLimited
    BY <1>1, <1>2, <1>4, <1>5, <2>1 DEF Unauthorized, Goto, Recording
  <2>2. CASE ~RateLimited
    BY <1>2, <1>3, <1>5, <2>2 DEF Unauthorized, RateLimited, FailuresBounded
  <2>. QED  BY <2>1, <2>2
<1>6. ASSUME NEW t \in Threads, CheckPassword(t) PROVE FailuresBounded'
  <2>1. Recording' \subseteq Recording
    BY <1>1, <1>6 DEF CheckPassword, Goto, Recording
  <2>2. CASE right[t]
    <3>1. Cardinality(failures') = 0
      BY <1>6, <2>2, FS_EmptySet DEF CheckPassword
    <3>. QED  BY <1>2, <1>4, <2>1, <3>1
  <2>3. CASE ~right[t]
    BY <1>1, <1>4, <1>6, <2>1, <2>3, AgedIsNoMore DEF CheckPassword
  <2>. QED  BY <2>2, <2>3
<1>7. ASSUME NEW t \in Threads, Record(t) PROVE FailuresBounded'
  <2>1. Cardinality(failures') <= Cardinality(failures) + 1
    BY <1>1, <1>7, AgedAndOne DEF Record
  <2>2. t \in Recording /\ Recording' = Recording \ {t}
    BY <1>1, <1>7 DEF Record, Goto, Recording
  <2>3. Cardinality(Recording') = Cardinality(Recording) - 1
    BY <1>1, <2>2, FiniteThreads, FS_RemoveElement
  <2>. QED  BY <1>2, <1>3, <2>1, <2>3 DEF FailuresBounded
<1>8. CASE Tick
  <2>1. Cardinality(failures') <= Cardinality(failures)
    BY <1>1, <1>8, AgedIsNoMore DEF Tick
  <2>. QED  BY <1>4, <1>8, <2>1 DEF Tick, Recording
<1>9. ASSUME UNCHANGED failures, Recording' \subseteq Recording PROVE FailuresBounded'
  BY <1>2, <1>4, <1>9
<1>10. ASSUME NEW t \in Threads, UNCHANGED failures, \E step \in AllSteps \ {"record"} : Goto(t, step)
       PROVE  FailuresBounded'
  BY <1>1, <1>9, <1>10 DEF Goto, Recording
<1>11. ASSUME UNCHANGED <<failures, thread>> PROVE FailuresBounded'
  BY <1>9, <1>11 DEF Recording
<1>12. ASSUME Next PROVE FailuresBounded'
  BY <1>5, <1>6, <1>7, <1>8, <1>10, <1>12
     DEF Next, Proceed, Arrive, CheckLimit, Serve, AllSteps, Steps
<1>. QED
  BY <1>10, <1>11, <1>12
     DEF DashboardNext, Request, OpenStream, Poll, Leave, ProbeArrives, AnswerProbe, LogAlert,
         Alert, PruneAlerts, dashboardVars, vars, AllSteps, Steps

-----------------------------------------------------------------------------
(* The wrong guesses *)

\* The threads that will check a wrong password, whatever the limiter says meanwhile.
Loaded == {t \in Threads : thread[t] = "password" /\ ~right[t]}

\* The threads that may have passed the limiter since the last failure was recorded.
Busy == {t \in Threads : thread[t] \in {"password", "unauthorized", "record"}}

\* What has happened since a moment that lies a back.
Young(S, a) == {x \in S : x < a}

Capped(k) == IF k < AuthMax THEN k ELSE AuthMax

\* What may have been guessed, or will be for certain, since then: a thread passes the
\* limiter at most once before and once after each recorded failure. A guess that is not
\* recorded was made while the address was limited, and to be let through again its
\* thread needs an older failure to go; that this can never happen to all the threads at
\* once is why one guess is taken off.
Quota(a) ==
    Cardinality(Threads) - 1
    + Cardinality(Threads) * Capped(Cardinality(Young(failures, a)))
    + IF RateLimited THEN 0 ELSE Cardinality(Busy)

Kept(a) == Cardinality(Young(guesses, a)) + Cardinality(Loaded) <= Quota(a)

WithinQuota == \A a \in 0 .. Window : Kept(a)

\* The last of the threads to be loaded has passed the limiter, and no failure is
\* recorded after that.
NotAllLoaded == RateLimited => Loaded # Threads

\* To age a set is to shift it.
LEMMA YoungAged ==
    ASSUME NEW S \in SUBSET Ages, NEW a \in Ages
    PROVE  /\ Cardinality(Young(Aged(S), a + 1)) = Cardinality(Young(S, a))
           /\ Cardinality(Young({0} \cup Aged(S), a + 1)) = Cardinality(Young(S, a)) + 1
<1>. DEFINE Y == Young(S, a)
            Shifted == {x + 1 : x \in Y}
            f == [x \in Y |-> x + 1]
<1>0. S \subseteq Nat /\ a \in Nat /\ Window - 1 \in Nat /\ a <= Window - 1
  BY LoginAssumption DEF Ages
<1>1. Young(Aged(S), a + 1) = Shifted
  BY <1>0 DEF Young, Aged
<1>2. Young({0} \cup Aged(S), a + 1) = Shifted \cup {0} /\ 0 \notin Shifted
  BY <1>0, <1>1 DEF Young
<1>3. IsFiniteSet(Y)
  BY FiniteAges DEF Young
<1>4. f \in Bijection(Y, Shifted)
  <2>1. Y \subseteq Nat
    BY <1>0 DEF Young
  <2>. HIDE DEF Y
  <2>2. f \in [Y -> Shifted] /\ \A t \in Shifted : \E x \in Y : f[x] = t
    OBVIOUS
  <2>3. \A x, y \in Y : f[x] = f[y] => x = y
    BY <2>1
  <2>. HIDE DEF f, Shifted
  <2>4. IsInjective(f)
    BY <2>2, <2>3 DEF IsInjective
  <2>. QED  BY <2>2, <2>4 DEF Bijection, Injection, Surjection
<1>. HIDE DEF Y, Shifted, f
<1>5. IsFiniteSet(Shifted) /\ Cardinality(Shifted) = Cardinality(Y)
  BY <1>3, <1>4, FS_Bijection DEF ExistsBijection
<1>6. Cardinality(Shifted \cup {0}) = Cardinality(Shifted) + 1
  BY <1>2, <1>5, FS_AddElement
<1>. QED  BY <1>1, <1>2, <1>5, <1>6 DEF Y

LEMMA YoungEnds ==
    ASSUME NEW S \in SUBSET Ages
    PROVE  Young(S, 0) = {} /\ Young(S, Window) = S
<1>1. \A x \in S : x \in Nat /\ ~(x < 0) /\ x < Window
  BY LoginAssumption DEF Ages
<1>. QED  BY <1>1 DEF Young

\* Each failure below the limit is worth one more guess of each thread.
LEMMA CappedGrows ==
    ASSUME NEW n \in Nat, NEW k \in Nat
    PROVE  /\ n * Capped(k) \in Nat
           /\ n * Capped(k) <= n * AuthMax
           /\ n * Capped(0) = 0
           /\ k < AuthMax => n * Capped(k + 1) = n * Capped(k) + n
           /\ k >= AuthMax => n * Capped(k + 1) = n * Capped(k)
<1>1. Capped(k) \in Nat /\ Capped(0) = 0 /\ Capped(k) <= AuthMax /\ AuthMax \in Nat
  BY LoginAssumption DEF Capped
<1>2. k < AuthMax => Capped(k + 1) = Capped(k) + 1
  BY <1>1 DEF Capped
<1>3. k >= AuthMax => Capped(k + 1) = Capped(k)
  BY <1>1 DEF Capped
<1>4. \A i, j \in Nat : i <= j => n * i <= n * j
  OBVIOUS
<1>5. \A i \in Nat : n * (i + 1) = n * i + n /\ n * i \in Nat /\ n * 0 = 0
  OBVIOUS
<1>. QED  BY <1>1, <1>2, <1>3, <1>4, <1>5

\* The numbers the quota is made of, and how they compare.
Numbers(a) ==
    /\ Cardinality(Young(guesses, a)) \in Nat
    /\ Cardinality(Young(failures, a)) \in Nat
    /\ Cardinality(failures) \in Nat
    /\ Cardinality(Young(failures, a)) <= Cardinality(failures)
    /\ Cardinality(Loaded) \in Nat /\ Cardinality(Busy) \in Nat
    /\ Cardinality(Loaded) <= Cardinality(Busy)
    /\ Cardinality(Busy) <= Cardinality(Threads)
    /\ Cardinality(Threads) \in Nat /\ Cardinality(Threads) >= 1
    /\ Loaded # Threads => Cardinality(Loaded) <= Cardinality(Threads) - 1

LEMMA QuotaTypes == ThreadTypeOK(AllSteps) => \A a \in 0 .. Window : Numbers(a)
<1>. SUFFICES ASSUME ThreadTypeOK(AllSteps), NEW a \in 0 .. Window PROVE Numbers(a)
  OBVIOUS
<1>1. Young(guesses, a) \in SUBSET Ages /\ failures \in SUBSET Ages
      /\ Young(failures, a) \in SUBSET failures
  BY DEF ThreadTypeOK, Young
<1>2. /\ IsFiniteSet(failures) /\ Cardinality(failures) \in Nat
      /\ Cardinality(Young(guesses, a)) \in Nat
      /\ Cardinality(Young(failures, a)) \in Nat
  BY <1>1, FiniteAges
<1>3. Cardinality(Young(failures, a)) <= Cardinality(failures)
  BY <1>1, <1>2, FS_Subset
<1>4. Loaded \in SUBSET Busy /\ Busy \in SUBSET Threads /\ Loaded \in SUBSET Threads
  BY DEF Loaded, Busy
<1>5. /\ IsFiniteSet(Busy) /\ Cardinality(Busy) \in Nat /\ Cardinality(Loaded) \in Nat
      /\ Cardinality(Threads) \in Nat /\ Cardinality(Busy) <= Cardinality(Threads)
      /\ Cardinality(Loaded) <= Cardinality(Threads)
  BY <1>4, FiniteThreads
<1>6. Cardinality(Loaded) <= Cardinality(Busy)
  BY <1>4, <1>5, FS_Subset
<1>7. Cardinality(Threads) >= 1
  BY <1>5, LoginAssumption, FS_EmptySet
<1>8. Loaded # Threads => Cardinality(Loaded) # Cardinality(Threads)
  BY <1>4, FS_Subset, LoginAssumption
<1>. QED  BY <1>2, <1>3, <1>5, <1>6, <1>7, <1>8 DEF Numbers

\* With nothing remembered since a moment, the loaded threads alone keep the quota.
LEMMA QuotaBase ==
    ThreadTypeOK(AllSteps) /\ NotAllLoaded => \A a \in 0 .. Window :
        Young(guesses, a) = {} /\ Young(failures, a) = {} => Kept(a)
<1>. SUFFICES ASSUME ThreadTypeOK(AllSteps), NotAllLoaded, NEW a \in 0 .. Window,
                     Young(guesses, a) = {}, Young(failures, a) = {}
              PROVE  Kept(a)
  OBVIOUS
<1>1. Cardinality(Young(guesses, a)) = 0 /\ Cardinality(Young(failures, a)) = 0
  BY FS_EmptySet
<1>2. Cardinality(Threads) * Capped(0) = 0
  BY CappedGrows, FiniteThreads
<1>3. Quota(a) = Cardinality(Threads) - 1 + IF RateLimited THEN 0 ELSE Cardinality(Busy)
  BY <1>1, <1>2, QuotaTypes DEF Quota, Numbers
<1>. QED  BY <1>1, <1>3, QuotaTypes DEF NotAllLoaded, Kept, Numbers

\* Both lemmas hold after a step, too.
LEMMA QuotaAfter ==
    ASSUME DashboardTypeOK, [DashboardNext]_dashboardVars
    PROVE  /\ \A a \in 0 .. Window : Numbers(a) /\ Numbers(a)'
           /\ NotAllLoaded' => \A a \in 0 .. Window :
                 Young(guesses', a) = {} /\ Young(failures', a) = {} => Kept(a)'
<1>1. ThreadTypeOK(AllSteps) /\ ThreadTypeOK(AllSteps)'
  BY TypeStep DEF DashboardTypeOK, AllSteps
<1>2. (ThreadTypeOK(AllSteps) => \A a \in 0 .. Window : Numbers(a))'
  BY QuotaTypes, PTL
<1>3. (ThreadTypeOK(AllSteps) /\ NotAllLoaded => \A a \in 0 .. Window :
           Young(guesses, a) = {} /\ Young(failures, a) = {} => Kept(a))'
  BY QuotaBase, PTL
<1>. QED  BY <1>1, <1>2, <1>3, QuotaTypes DEF Young

\* What the steps of the threads do to the two sets, by what is remembered.
AtOnce ==
    /\ UNCHANGED <<failures, guesses>>
    /\ \/ Loaded' \subseteq Loaded /\ (RateLimited \/ Busy \subseteq Busy')
       \/ /\ ~RateLimited
          /\ \E t \in Threads \ Busy : Loaded' \subseteq Loaded \cup {t} /\ Busy' = Busy \cup {t}

Cleared == failures' = {} /\ guesses' = {}

Guessed ==
    /\ failures' = Aged(failures) /\ guesses' = {0} \cup Aged(guesses)
    /\ \E t \in Loaded : Loaded' = Loaded \ {t} /\ Busy' = Busy

Recorded ==
    /\ failures' = {0} \cup Aged(failures) /\ guesses' = Aged(guesses)
    /\ Loaded' = Loaded /\ Loaded # Threads

Waited ==
    /\ failures' = Aged(failures) /\ guesses' = Aged(guesses)
    /\ Loaded' = Loaded /\ Busy' = Busy

LEMMA Moves ==
    ASSUME DashboardTypeOK, [DashboardNext]_dashboardVars
    PROVE  AtOnce \/ Cleared \/ Guessed \/ Recorded \/ Waited
<1>0. thread \in [Threads -> AllSteps] /\ right \in [Threads -> BOOLEAN]
  BY DEF DashboardTypeOK, ThreadTypeOK, AllSteps
<1>. USE <1>0 DEF Goto, Loaded, Busy
<1>1. ASSUME NEW t \in Threads, NEW ok \in BOOLEAN, Arrive(t, ok) PROVE AtOnce
  BY <1>1 DEF Arrive, AtOnce
<1>2. ASSUME NEW t \in Threads, CheckLimit(t) PROVE AtOnce
  <2>1. CASE RateLimited
    BY <1>2, <2>1 DEF CheckLimit, AtOnce
  <2>2. CASE ~RateLimited
    <3>1. t \in Threads \ Busy /\ Loaded' \subseteq Loaded \cup {t} /\ Busy' = Busy \cup {t}
      BY <1>2, <2>2 DEF CheckLimit
    <3>. QED  BY <1>2, <2>2, <3>1 DEF CheckLimit, AtOnce
  <2>. QED  BY <2>1, <2>2
<1>3. ASSUME NEW t \in Threads, CheckPassword(t) PROVE Cleared \/ Guessed
  <2>1. CASE right[t]
    BY <1>3, <2>1 DEF CheckPassword, Cleared
  <2>2. CASE ~right[t]
    <3>1. t \in Loaded /\ Loaded' = Loaded \ {t} /\ Busy' = Busy
      BY <1>3, <2>2 DEF CheckPassword
    <3>. QED  BY <1>3, <2>2, <3>1 DEF CheckPassword, Guessed
  <2>. QED  BY <2>1, <2>2
<1>4. ASSUME NEW t \in Threads, Unauthorized(t) PROVE AtOnce
  BY <1>4 DEF Unauthorized, AtOnce
<1>5. ASSUME NEW t \in Threads, Record(t) PROVE Recorded
  <2>1. t \notin Loaded /\ Loaded' = Loaded
    BY <1>5 DEF Record
  <2>. QED  BY <1>5, <2>1 DEF Record, Recorded
<1>6. ASSUME NEW t \in Threads, Serve(t) PROVE AtOnce
  BY <1>6 DEF Serve, AtOnce
<1>7. CASE Tick
  BY <1>7 DEF Tick, Waited
<1>8. ASSUME NEW t \in Threads, OpenStream(t) PROVE AtOnce
  BY <1>8 DEF OpenStream, AtOnce
<1>9. ASSUME NEW t \in Threads, Poll(t) PROVE AtOnce
  BY <1>9 DEF Poll, AtOnce, Streaming
<1>10. ASSUME UNCHANGED vars PROVE AtOnce
  BY <1>10 DEF vars, AtOnce
<1>. QED
  BY <1>1, <1>2, <1>3, <1>4, <1>5, <1>6, <1>7, <1>8, <1>9, <1>10
     DEF DashboardNext, Request, Next, Proceed, Leave, ProbeArrives, AnswerProbe, LogAlert,
         Alert, PruneAlerts, dashboardVars

LEMMA NotAllLoadedStep ==
    ASSUME DashboardTypeOK, NotAllLoaded, [DashboardNext]_dashboardVars
    PROVE  NotAllLoaded'
<1>1. failures \in SUBSET Ages /\ AuthMax \in Nat \ {0} /\ Cardinality(failures) \in Nat
  BY LoginAssumption, FiniteAges DEF DashboardTypeOK, ThreadTypeOK
<1>2. Cardinality(Aged(failures)) \in Nat /\ Cardinality(Aged(failures)) <= Cardinality(failures)
  BY <1>1, AgedIsNoMore, FiniteAges
<1>3. CASE AtOnce
  <2>1. RateLimited' = RateLimited
    BY <1>3 DEF AtOnce, RateLimited
  <2>2. RateLimited => Loaded' \subseteq Loaded
    BY <1>3 DEF AtOnce
  <2>3. Loaded \subseteq Threads
    BY DEF Loaded
  <2>. QED  BY <2>1, <2>2, <2>3 DEF NotAllLoaded
<1>4. CASE Cleared
  BY <1>1, <1>4, FS_EmptySet DEF Cleared, NotAllLoaded, RateLimited
<1>5. CASE Guessed
  BY <1>5 DEF Guessed, NotAllLoaded, Loaded
<1>6. CASE Recorded
  BY <1>6 DEF Recorded, NotAllLoaded
<1>7. CASE Waited
  BY <1>1, <1>2, <1>7 DEF Waited, NotAllLoaded, RateLimited
<1>. QED  BY <1>3, <1>4, <1>5, <1>6, <1>7, Moves

LEMMA QuotaAtOnce ==
    ASSUME DashboardTypeOK, WithinQuota, [DashboardNext]_dashboardVars, AtOnce
    PROVE  WithinQuota'
<1>. SUFFICES ASSUME NEW a \in 0 .. Window PROVE Kept(a)'
  BY DEF WithinQuota
<1>1. Numbers(a) /\ Numbers(a)' /\ Kept(a)
  BY QuotaAfter DEF WithinQuota
<1>2. /\ Young(failures, a)' = Young(failures, a) /\ Young(guesses, a)' = Young(guesses, a)
      /\ RateLimited' = RateLimited
  BY DEF AtOnce, Young, RateLimited
<1>3. Cardinality(Threads) * Capped(Cardinality(Young(failures, a))) \in Nat
  BY <1>1, CappedGrows DEF Numbers
<1>4. Loaded \in SUBSET Threads /\ Busy \in SUBSET Threads /\ Busy' \in SUBSET Threads
      /\ IsFiniteSet(Loaded) /\ IsFiniteSet(Busy) /\ IsFiniteSet(Busy')
  BY FiniteThreads DEF Loaded, Busy
<1>5. CASE Loaded' \subseteq Loaded /\ (RateLimited \/ Busy \subseteq Busy')
  <2>1. Cardinality(Loaded') <= Cardinality(Loaded)
    BY <1>4, <1>5, FS_Subset
  <2>2. RateLimited \/ Cardinality(Busy) <= Cardinality(Busy')
    BY <1>4, <1>5, FS_Subset
  <2>. QED  BY <1>1, <1>2, <1>3, <2>1, <2>2 DEF Kept, Quota, Numbers
<1>6. ASSUME ~RateLimited, NEW t \in Threads \ Busy,
             Loaded' \subseteq Loaded \cup {t}, Busy' = Busy \cup {t}
      PROVE  Kept(a)'
  <2>1. Cardinality(Busy') = Cardinality(Busy) + 1
    BY <1>4, <1>6, FS_AddElement
  <2>2. /\ IsFiniteSet(Loaded \cup {t})
        /\ Cardinality(Loaded \cup {t}) = Cardinality(Loaded) + 1
    <3>1. t \notin Loaded
      BY <1>6 DEF Loaded, Busy
    <3>. QED  BY <1>4, <3>1, FS_AddElement
  <2>3. Cardinality(Loaded') <= Cardinality(Loaded) + 1
    BY <1>6, <2>2, FS_Subset
  <2>. QED  BY <1>1, <1>2, <1>3, <1>6, <2>1, <2>3 DEF Kept, Quota, Numbers
<1>. QED  BY <1>5, <1>6 DEF AtOnce

\* When time passes, what happened since a moment is what had happened since it, and the
\* guess or the failure that takes the step.
LEMMA QuotaLater ==
    ASSUME DashboardTypeOK, WithinQuota, NotAllLoaded', [DashboardNext]_dashboardVars,
           Guessed \/ Recorded \/ Waited
    PROVE  WithinQuota'
<1>. SUFFICES ASSUME NEW b \in 0 .. Window PROVE Kept(b)'
  BY DEF WithinQuota
<1>0. /\ failures \in SUBSET Ages /\ guesses \in SUBSET Ages
      /\ failures' \in SUBSET Ages /\ guesses' \in SUBSET Ages
      /\ Window \in Nat \ {0} /\ AuthMax \in Nat \ {0}
  BY TypeStep, LoginAssumption DEF DashboardTypeOK, ThreadTypeOK
<1>1. CASE b = 0
  <2>1. Young(guesses', b) = {} /\ Young(failures', b) = {}
    BY <1>0, <1>1, YoungEnds
  <2>. QED  BY <2>1, QuotaAfter
<1>2. CASE b # 0
  <2>. DEFINE a == b - 1
              n == Cardinality(Threads)
              k == Cardinality(Young(failures, a))
  <2>1. a \in Ages /\ a \in 0 .. Window /\ b = a + 1
    BY <1>0, <1>2 DEF Ages
  <2>2. Numbers(a) /\ Numbers(b)' /\ Kept(a)
    BY <2>1, QuotaAfter DEF WithinQuota
  <2>3. /\ n * Capped(k) \in Nat
        /\ k < AuthMax => n * Capped(k + 1) = n * Capped(k) + n
        /\ k >= AuthMax => n * Capped(k + 1) = n * Capped(k)
    BY <2>2, CappedGrows DEF Numbers
  <2>4. /\ Cardinality(Young(Aged(failures), b)) = k
        /\ Cardinality(Young({0} \cup Aged(failures), b)) = k + 1
        /\ Cardinality(Young(Aged(guesses), b)) = Cardinality(Young(guesses, a))
        /\ Cardinality(Young({0} \cup Aged(guesses), b)) = Cardinality(Young(guesses, a)) + 1
    BY <1>0, <2>1, YoungAged
  <2>5. Cardinality(Aged(failures)) <= Cardinality(failures)
        /\ Cardinality(Aged(failures)) \in Nat
    BY <1>0, AgedIsNoMore, FiniteAges
  <2>6. /\ Young(failures, b)' = Young(failures', b)
        /\ Young(guesses, b)' = Young(guesses', b)
    BY DEF Young
  <2>7. Quota(a) = n - 1 + n * Capped(k) + IF RateLimited THEN 0 ELSE Cardinality(Busy)
    BY DEF Quota
  <2>8. Quota(b)' = n - 1 + n * Capped(Cardinality(Young(failures', b)))
                      + IF RateLimited' THEN 0 ELSE Cardinality(Busy')
    BY <2>6 DEF Quota
  <2>. HIDE DEF a, n, k
  <2>. USE DEF Numbers, Kept
  <2>9. n = Cardinality(Threads) /\ k = Cardinality(Young(failures, a))
    BY DEF n, k
  <2>10. CASE Guessed
    <3>1. PICK t \in Loaded : Loaded' = Loaded \ {t} /\ Busy' = Busy
      BY <2>10 DEF Guessed
    <3>2. Cardinality(Loaded') = Cardinality(Loaded) - 1
      BY <3>1, FiniteThreads, FS_RemoveElement DEF Loaded
    <3>3. Cardinality(Young(failures', b)) = k
          /\ Cardinality(Young(guesses', b)) = Cardinality(Young(guesses, a)) + 1
      BY <2>4, <2>10 DEF Guessed
    <3>4. RateLimited' => RateLimited
      BY <1>0, <2>2, <2>5, <2>10 DEF Guessed, RateLimited
    <3>. QED  BY <2>2, <2>3, <2>6, <2>7, <2>8, <2>9, <3>1, <3>2, <3>3, <3>4
  <2>11. CASE Recorded
    <3>1. Cardinality(Young(failures', b)) = k + 1
          /\ Cardinality(Young(guesses', b)) = Cardinality(Young(guesses, a))
      BY <2>4, <2>11 DEF Recorded
    <3>2. k >= AuthMax => RateLimited
      BY <1>0, <2>2, <2>9 DEF RateLimited
    <3>3. Loaded' = Loaded
      BY <2>11 DEF Recorded
    <3>. QED  BY <1>0, <2>2, <2>3, <2>6, <2>7, <2>8, <2>9, <3>1, <3>2, <3>3
  <2>12. CASE Waited
    <3>1. Cardinality(Young(failures', b)) = k
          /\ Cardinality(Young(guesses', b)) = Cardinality(Young(guesses, a))
      BY <2>4, <2>12 DEF Waited
    <3>2. RateLimited' => RateLimited
      BY <1>0, <2>2, <2>5, <2>12 DEF Waited, RateLimited
    <3>3. Loaded' = Loaded /\ Busy' = Busy
      BY <2>12 DEF Waited
    <3>. QED  BY <2>2, <2>3, <2>6, <2>7, <2>8, <2>9, <3>1, <3>2, <3>3
  <2>. QED  BY <2>10, <2>11, <2>12
<1>. QED  BY <1>1, <1>2

LEMMA QuotaStep ==
    ASSUME DashboardTypeOK, WithinQuota, NotAllLoaded, [DashboardNext]_dashboardVars
    PROVE  WithinQuota' /\ NotAllLoaded'
<1>1. NotAllLoaded'
  BY NotAllLoadedStep
<1>2. CASE Cleared
  <2>1. ASSUME NEW a \in 0 .. Window PROVE Kept(a)'
    BY <1>1, <1>2, QuotaAfter DEF Cleared, Young
  <2>. QED  BY <1>1, <2>1 DEF WithinQuota
<1>. QED  BY <1>1, <1>2, Moves, QuotaAtOnce, QuotaLater

-----------------------------------------------------------------------------
(* Theorems *)

\* The state of a worker process, of its threads and of their streams keeps its type.
THEOREM DashboardTypeCorrect == DashboardSpec => []DashboardTypeOK
<1>1. DashboardInit => DashboardTypeOK
  <2>. SUFFICES ASSUME DashboardInit PROVE DashboardTypeOK
    OBVIOUS
  <2>1. ThreadTypeOK(AllSteps)
    BY DEF DashboardInit, Init, ThreadTypeOK, AllSteps, Steps
  <2>. QED  BY <2>1 DEF DashboardInit, Init, DashboardTypeOK, AllSteps, NoStream, Streaming
<1>2. DashboardTypeOK /\ [DashboardNext]_dashboardVars => DashboardTypeOK'
  BY TypeStep
<1>. QED  BY <1>1, <1>2, PTL DEF DashboardSpec

\* With any number of threads, the failures that are remembered or about to be are fewer
\* than the limit and the threads together (unauthorized, app.py:78-85).
THEOREM FailuresBoundedHolds == DashboardSpec => []FailuresBounded
<1>1. DashboardInit => FailuresBounded
  <2>. SUFFICES ASSUME DashboardInit PROVE FailuresBounded
    OBVIOUS
  <2>1. Recording = {} /\ failures = {}
    BY DEF DashboardInit, Init, Recording
  <2>. QED  BY <2>1, FS_EmptySet, FiniteThreads, LoginAssumption DEF FailuresBounded
<1>2. DashboardTypeOK /\ FailuresBounded /\ [DashboardNext]_dashboardVars => FailuresBounded'
  BY FailuresStep
<1>. QED  BY <1>1, <1>2, DashboardTypeCorrect, PTL DEF DashboardSpec

\* For any number of threads, any limit and any window: an address has fewer than
\* AuthMax + 1 wrong passwords checked per thread and window, although the limit is read
\* before the password is looked at and again after it, and what a limited address
\* guesses is not recorded.
THEOREM GuessesBoundedHolds == DashboardSpec => []GuessesBounded
<1>1. DashboardInit => WithinQuota /\ NotAllLoaded
  <2>. SUFFICES ASSUME DashboardInit PROVE WithinQuota /\ NotAllLoaded
    OBVIOUS
  <2>1. ThreadTypeOK(AllSteps) /\ failures = {} /\ guesses = {}
    BY DEF DashboardInit, Init, ThreadTypeOK, AllSteps, Steps
  <2>2. NotAllLoaded
    BY <2>1, FS_EmptySet, LoginAssumption DEF NotAllLoaded, RateLimited
  <2>. QED  BY <2>1, <2>2, QuotaBase DEF WithinQuota, Young
<1>2. DashboardTypeOK /\ WithinQuota /\ NotAllLoaded /\ [DashboardNext]_dashboardVars
        => (WithinQuota /\ NotAllLoaded)'
  BY QuotaStep
<1>3. DashboardTypeOK /\ WithinQuota => GuessesBounded
  <2>. SUFFICES ASSUME DashboardTypeOK, WithinQuota PROVE GuessesBounded
    OBVIOUS
  <2>. DEFINE n == Cardinality(Threads)
              k == Cardinality(failures)
  <2>1. Window \in 0 .. Window /\ AuthMax \in Nat \ {0}
    BY LoginAssumption
  <2>2. Young(guesses, Window) = guesses /\ Young(failures, Window) = failures
    BY YoungEnds DEF DashboardTypeOK, ThreadTypeOK
  <2>3. Numbers(Window) /\ Kept(Window)
    BY <2>1, QuotaTypes DEF DashboardTypeOK, AllSteps, WithinQuota
  <2>4. Cardinality(guesses) <= n - 1 + n * Capped(k)
                                  + IF RateLimited THEN 0 ELSE Cardinality(Busy)
    <3>1. Quota(Window) = n - 1 + n * Capped(k) + IF RateLimited THEN 0 ELSE Cardinality(Busy)
      BY <2>2 DEF Quota
    <3>2. Cardinality(guesses) + Cardinality(Loaded) <= Quota(Window)
      BY <2>2, <2>3 DEF Kept
    <3>3. n \in Nat /\ Cardinality(guesses) \in Nat /\ Cardinality(Loaded) \in Nat
          /\ k \in Nat /\ Cardinality(Busy) \in Nat
      BY <2>2, <2>3 DEF Numbers
    <3>4. n * Capped(k) \in Nat
      BY <3>3, CappedGrows
    <3>. HIDE DEF n, k
    <3>. QED  BY <3>1, <3>2, <3>3, <3>4
  <2>5. /\ n * Capped(k) <= n * AuthMax
        /\ n * Capped(k) \in Nat
        /\ k < AuthMax => n * Capped(k) + n <= n * AuthMax
    <3>1. /\ n * Capped(k) <= n * AuthMax /\ n * Capped(k) \in Nat
          /\ k < AuthMax => n * Capped(k + 1) = n * Capped(k) + n
      BY <2>3, CappedGrows DEF Numbers
    <3>2. n * Capped(k + 1) <= n * AuthMax
      BY <2>3, CappedGrows DEF Numbers
    <3>. QED  BY <3>1, <3>2
  <2>6. n \in Nat /\ k \in Nat /\ Cardinality(Busy) \in Nat /\ Cardinality(Busy) <= n
        /\ Cardinality(guesses) \in Nat
    BY <2>2, <2>3 DEF Numbers
  <2>7. RateLimited <=> k >= AuthMax
    BY DEF RateLimited
  <2>8. n * AuthMax \in Nat /\ (AuthMax + 1) * n = n * AuthMax + n
    BY <2>1, <2>6
  <2>. HIDE DEF n, k
  <2>9. Cardinality(guesses) < (AuthMax + 1) * n
    BY <2>1, <2>4, <2>5, <2>6, <2>7, <2>8
  <2>. QED  BY <2>9 DEF n, GuessesBounded
<1>. QED  BY <1>1, <1>2, <1>3, DashboardTypeCorrect, PTL DEF DashboardSpec
=============================================================================
