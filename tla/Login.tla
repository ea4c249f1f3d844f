-------------------------------- MODULE Login --------------------------------
(***************************************************************************)
(* The login of the dashboard: what the threads of one worker process do   *)
(* with the requests of one address, and the list of failed logins they    *)
(* share (app.py, _auth_failures and _auth_lock). Other addresses have     *)
(* lists of their own and other workers dictionaries of their own.         *)
(*                                                                         *)
(* A request takes the lock two or three times and checks the password     *)
(* outside it; between these sections the other threads run.               *)
(*                                                                         *)
(* Time is kept as the age of what the limiter remembers, so it is not     *)
(* bounded: a failure leaves the list when it is Window old (the code      *)
(* drops it when it next looks). Two readings of time.monotonic() under    *)
(* the lock, or around a password hash, differ: ages are distinct.         *)
(***************************************************************************)
EXTENDS Integers, FiniteSets

CONSTANTS
    Threads,        \* gunicorn --threads
    AuthMax,        \* AUTH_MAX_ATTEMPTS
    Window          \* AUTH_WINDOW_SECONDS

ASSUME LoginAssumption ==
    /\ IsFiniteSet(Threads) /\ Threads # {}
    /\ AuthMax \in Nat \ {0} /\ Window \in Nat \ {0}

VARIABLES
    failures,       \* ages of the entries of _auth_failures[client_ip]
    thread,         \* where each thread is
    right,          \* the request of the thread bears the right password
    guesses         \* history: ages of the wrong passwords checked since the last right one

vars == <<failures, thread, right, guesses>>

Ages == 0 .. Window - 1

ThreadTypeOK(steps) ==
    /\ failures \subseteq Ages /\ guesses \subseteq Ages
    /\ thread \in [Threads -> steps]
    /\ right \in [Threads -> BOOLEAN]

Steps == {"free", "limit", "password", "unauthorized", "record", "granted"}

LoginTypeOK == ThreadTypeOK(Steps)

Init ==
    /\ failures = {} /\ guesses = {}
    /\ thread = [t \in Threads |-> "free"]
    /\ right = [t \in Threads |-> FALSE]

Goto(t, step) == thread' = [thread EXCEPT ![t] = step]

\* Some time passes.
Aged(ages) == {a + 1 : a \in ages \ {Window - 1}}

RateLimitedLate ==   \* mutant: > for >=
    Cardinality(failures) > AuthMax

\* _auth_rate_limited
RateLimited == Cardinality(failures) >= AuthMax

-----------------------------------------------------------------------------
\* A request is handed to a thread and reaches verify_password: before_request has let
\* it pass (credentials are configured, and a POST bears the CSRF token).
Arrive(t, ok) ==
    /\ thread[t] = "free"
    /\ Goto(t, "limit")
    /\ right' = [right EXCEPT ![t] = ok]
    /\ UNCHANGED <<failures, guesses>>

CheckLimitLast(t) ==   \* mutant: the limit is looked at in unauthorized() only
    /\ thread[t] = "limit"
    /\ Goto(t, "password")
    /\ UNCHANGED <<failures, right, guesses>>

\* verify_password: an address that is limited is refused before its password is looked
\* at.
CheckLimit(t) ==
    /\ thread[t] = "limit"
    /\ Goto(t, IF RateLimited THEN "unauthorized" ELSE "password")
    /\ UNCHANGED <<failures, right, guesses>>

\* check_password_hash, outside the lock; the right password clears the failures.
CheckPassword(t) ==
    /\ thread[t] = "password"
    /\ IF right[t]
       THEN Goto(t, "granted") /\ failures' = {} /\ guesses' = {}
       ELSE /\ Goto(t, "unauthorized")
            /\ failures' = Aged(failures) /\ guesses' = {0} \cup Aged(guesses)
    /\ UNCHANGED right

UnauthorizedCounts(t) ==   \* mutant: attempts of a limited address are recorded too
    /\ thread[t] = "unauthorized"
    /\ Goto(t, "record")
    /\ UNCHANGED <<failures, right, guesses>>

UnauthorizedLocksTwice(t) ==   \* mutant: the limit is read while the lock is held
    /\ thread[t] = "unauthorized"
    /\ UNCHANGED vars

\* unauthorized: the limit is read anew, whatever verify_password found. 429, or the
\* attempt will be recorded: also one with the right password that was limited before
\* and is no more.
Unauthorized(t) ==
    /\ thread[t] = "unauthorized"
    /\ Goto(t, IF RateLimited THEN "free" ELSE "record")
    /\ UNCHANGED <<failures, right, guesses>>

\* The failure is appended under the lock, without a third look at the limit: 401.
Record(t) ==
    /\ thread[t] = "record"
    /\ Goto(t, "free")
    /\ failures' = {0} \cup Aged(failures) /\ guesses' = Aged(guesses)
    /\ UNCHANGED right

\* The view function answers.
Serve(t) ==
    /\ thread[t] = "granted"
    /\ Goto(t, "free")
    /\ UNCHANGED <<failures, right, guesses>>

Tick ==
    /\ failures' = Aged(failures) /\ guesses' = Aged(guesses)
    /\ UNCHANGED <<thread, right>>

\* The steps a thread takes by itself once it has a request.
Proceed(t) == CheckLimit(t) \/ CheckPassword(t) \/ Unauthorized(t) \/ Record(t)

Next ==
    \/ \E t \in Threads : (\E ok \in BOOLEAN : Arrive(t, ok)) \/ Proceed(t) \/ Serve(t)
    \/ Tick

Spec == Init /\ [][Next]_vars

-----------------------------------------------------------------------------
(* Properties *)

Recording == {t \in Threads : thread[t] = "record"}

\* However the threads interleave, the list outgrows the limit by less than one entry per
\* thread: those that passed the second look together.
FailuresBounded == Cardinality(failures) + Cardinality(Recording) < AuthMax + Cardinality(Threads)

\* How many wrong passwords an address can try per window: more than AuthMax, since a
\* guess that ends in a 429 is not recorded and a thread may be slow.
GuessesBounded == Cardinality(guesses) < (AuthMax + 1) * Cardinality(Threads)
=============================================================================
