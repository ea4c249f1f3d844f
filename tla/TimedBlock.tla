------------------------------ MODULE TimedBlock ------------------------------
(***************************************************************************)
(* What the blocklist promises, without tables, chains or processes: an    *)
(* address is banned at once, stays banned for the whole duration, and the *)
(* ban is lifted after it; a ban without a duration is never lifted.       *)
(***************************************************************************)
EXTENDS Integers

CONSTANTS Ips, Null, Duration, MaxTime

VARIABLES banned, until, clock

vars == <<banned, until, clock>>

Init ==
    /\ banned = {}
    /\ until = [ip \in Ips |-> Null]
    /\ clock = 0

Ban(ip) ==
    /\ ip \notin banned
    /\ banned' = banned \cup {ip}
    /\ until' = [until EXCEPT ![ip] = IF Duration = Null THEN Null ELSE clock + Duration]
    /\ UNCHANGED clock

Due(ip) == ip \in banned /\ until[ip] # Null /\ until[ip] <= clock

Lift(ip) ==
    /\ Due(ip)
    /\ banned' = banned \ {ip}
    /\ until' = [until EXCEPT ![ip] = Null]
    /\ UNCHANGED clock

Tick ==
    /\ clock < MaxTime
    /\ clock' = clock + 1
    /\ UNCHANGED <<banned, until>>

Next == (\E ip \in Ips : Ban(ip) \/ Lift(ip)) \/ Tick

Spec ==
    /\ Init /\ [][Next]_vars
    /\ \A ip \in Ips : WF_vars(Lift(ip))
=============================================================================
