----------------------------- MODULE FlowTracker -----------------------------
(***************************************************************************)
(* FlowTracker of flow_tracker.py: the flow table and the sliding windows  *)
(* that update() keeps per source, per endpoint and per 5-tuple, and the   *)
(* signals it reads off them for a packet.                                 *)
(*                                                                         *)
(* A history variable, log, remembers every packet that was ever seen; the *)
(* properties define the table and the signals from it, with no deque and  *)
(* no expiry. The rates (pps, bps) only feed the model and are left out.   *)
(***************************************************************************)
EXTENDS Integers, Sequences, FiniteSets, FiniteSetsExt, Functions

CONSTANTS
    Null,
    Packets,            \* what extract_features may return, without its timestamp
    ScanWindow, SynWindow, PortRepeatWindow, IcmpWindow,
    FlowTimeout,
    SlowMinDuration, SlowMaxBps,
    Gaps,               \* the seconds that may pass between two packets
    MaxPackets          \* bound on the log

\* The clock never steps back: the windows rely on it.
ASSUME GapsAssumption == Gaps \subseteq Nat

ASSUME WindowsAssumption ==
    /\ ScanWindow \in Nat /\ SynWindow \in Nat /\ PortRepeatWindow \in Nat
    /\ IcmpWindow \in Nat /\ FlowTimeout \in Nat
    /\ SlowMinDuration \in Nat /\ SlowMaxBps \in Nat
    /\ MaxPackets \in Nat

ASSUME LengthsAssumption == \A p \in Packets : p.length \in Nat

Srcs == {p.src : p \in Packets}

Key(p) == <<p.src, p.sport, p.dst, p.dport, p.proto>>
Keys == {Key(p) : p \in Packets}

Endpoint(p) == <<p.src, p.dst, p.dport>>
Endpoints == {Endpoint(p) : p \in Packets}

IsBareSyn(p) == p.proto = "TCP" /\ "S" \in p.flags /\ "A" \notin p.flags

IsDns(p) == p.proto = "UDP" /\ p.dport = 53

Flow == [start : Nat, last : Nat, packets : Nat, bytes : Nat]

NoSignals == [packets |-> 0, duration |-> 0, bytes |-> 0, ports |-> 0, syns |-> 0,
              repeats |-> 0, icmps |-> 0, slow |-> 0]

VARIABLES
    flows,          \* _flows
    scanHistory, synHistory, portAttempts, icmpHistory,   \* the deques
    signals,        \* what update() returned last
    log             \* history: the packets with their timestamps

historyVars == <<scanHistory, synHistory, portAttempts, icmpHistory>>
vars == <<flows, historyVars, signals, log>>

TypeOK ==
    /\ DOMAIN flows \subseteq Keys /\ \A k \in DOMAIN flows : flows[k] \in Flow
    /\ DOMAIN scanHistory = Srcs
    /\ \A s \in Srcs : Len(scanHistory[s]) <= Len(log)
    /\ synHistory \in [Srcs -> Seq([ts : Nat])]
    /\ portAttempts \in [Endpoints -> Seq([ts : Nat])]
    /\ icmpHistory \in [Srcs -> Seq([ts : Nat])]
    /\ DOMAIN signals = DOMAIN NoSignals /\ \A s \in DOMAIN signals : signals[s] \in Nat
    /\ Len(log) <= MaxPackets

Init ==
    /\ flows = <<>>
    /\ scanHistory = [s \in Srcs |-> <<>>] /\ synHistory = [s \in Srcs |-> <<>>]
    /\ portAttempts = [e \in Endpoints |-> <<>>] /\ icmpHistory = [s \in Srcs |-> <<>>]
    /\ signals = NoSignals
    /\ log = <<>>

-----------------------------------------------------------------------------
(* update() *)

PrunedEarly(hist, cutoff) ==   \* mutant: what is as old as the window goes
    LET stale == {i \in DOMAIN hist : \A j \in 1..i : hist[j].ts <= cutoff}
    IN  SubSeq(hist, Cardinality(stale) + 1, Len(hist))

\* while hist and hist[0] < cutoff: hist.popleft()
Pruned(hist, cutoff) ==
    LET stale == {i \in DOMAIN hist : \A j \in 1..i : hist[j].ts < cutoff}
    IN  SubSeq(hist, Cardinality(stale) + 1, Len(hist))

AppendIf(condition, hist, entry) == IF condition THEN Append(hist, entry) ELSE hist

\* The flow of p after p, and the table with it.
Bumped(p, ts) ==
    LET old == IF Key(p) \in DOMAIN flows THEN flows[Key(p)]
               ELSE [start |-> ts, last |-> ts, packets |-> 0, bytes |-> 0]
    IN  [start |-> old.start, last |-> ts,
         packets |-> old.packets + 1, bytes |-> old.bytes + p.length]

WithFlow(p, ts) == [k \in DOMAIN flows \cup {Key(p)} |->
                        IF k = Key(p) THEN Bumped(p, ts) ELSE flows[k]]

ExpiredEarly(table, ts) ==   \* mutant: a flow goes when it has been idle for FlowTimeout
    Restrict(table, {k \in DOMAIN table : ts - table[k].last < FlowTimeout})

\* _expire_flows
Expired(table, ts) ==
    Restrict(table, {k \in DOMAIN table : ts - table[k].last <= FlowTimeout})

DurationSwapped(flow) == flow.start - flow.last   \* mutant: the wrong way round

Duration(flow) == flow.last - flow.start

\* The flows from p's source to its destination port that are long and thin.
SlowFlows(table, p) ==
    {k \in DOMAIN table :
        LET f == table[k] IN
        /\ k[1] = p.src /\ k[3] = p.dst /\ k[4] = p.dport
        /\ Duration(f) > 0 /\ Duration(f) >= SlowMinDuration
        /\ f.bytes <= SlowMaxBps * Duration(f)}

Update(p, ts) ==
    LET scans == Pruned(AppendIf(~IsDns(p), scanHistory[p.src],
                                 [ts |-> ts, port |-> p.dport]), ts - ScanWindow)
        syns == Pruned(AppendIf(IsBareSyn(p), synHistory[p.src], [ts |-> ts]), ts - SynWindow)
        repeats == Pruned(AppendIf(IsBareSyn(p), portAttempts[Endpoint(p)], [ts |-> ts]),
                          ts - PortRepeatWindow)
        icmps == Pruned(Append(icmpHistory[p.src], [ts |-> ts]), ts - IcmpWindow)
        flow == Bumped(p, ts)
    IN  /\ flows' = Expired(WithFlow(p, ts), ts)
        /\ scanHistory' = [scanHistory EXCEPT ![p.src] = scans]
        /\ synHistory' = [synHistory EXCEPT ![p.src] = syns]
        /\ portAttempts' = [portAttempts EXCEPT ![Endpoint(p)] = repeats]
        /\ icmpHistory' = IF p.proto = "ICMP" THEN [icmpHistory EXCEPT ![p.src] = icmps]
                          ELSE icmpHistory
        /\ signals' = [packets |-> flow.packets, duration |-> Duration(flow),
                       bytes |-> flow.bytes,
                       ports |-> Cardinality({scans[i].port : i \in DOMAIN scans} \ {Null}),
                       syns |-> Len(syns), repeats |-> Len(repeats),
                       icmps |-> IF p.proto = "ICMP" THEN Len(icmps) ELSE 0,
                       slow |-> Cardinality(SlowFlows(flows', p))]
        /\ log' = Append(log, [ts |-> ts, pkt |-> p])

\* The time of the last packet.
Now == IF log = <<>> THEN 0 ELSE log[Len(log)].ts

-----------------------------------------------------------------------------
(* Reference definitions, from the log alone *)

Last == log[Len(log)].pkt

\* The packets of the last w seconds from the source of the last one.
FromSource(w) == {i \in DOMAIN log : log[i].ts >= Now - w /\ log[i].pkt.src = Last.src}

SynsWithin(w) == {i \in FromSource(w) : IsBareSyn(log[i].pkt)}

AttemptsWithin(w) == {i \in SynsWithin(w) : Endpoint(log[i].pkt) = Endpoint(Last)}

IcmpsWithin(w) == {i \in FromSource(w) : log[i].pkt.proto = "ICMP"}

PortsWithin(w) == {log[i].pkt.dport : i \in {j \in FromSource(w) : ~IsDns(log[j].pkt)}} \ {Null}

Of(k) == {i \in DOMAIN log : Key(log[i].pkt) = k}

\* Packet i opens a flow: its connection has been idle for longer than FlowTimeout, as
\* far as the packet before i tells. (update() looks its own flow up before it expires
\* any: what came in since then is what counts. That is the code's rule, taken over.)
Opens(i) == \A j \in Of(Key(log[i].pkt)) : j < i => log[i - 1].ts - log[j].ts > FlowTimeout

\* The packets of the current flow of k.
Current(k) == LET first == Max({j \in Of(k) : Opens(j)}) IN {i \in Of(k) : i >= first}

Tracked == {k \in Keys : \E i \in Of(k) : Now - log[i].ts <= FlowTimeout}

Reference(k) ==
    LET current == Current(k) IN
    [start |-> log[Min(current)].ts, last |-> log[Max(current)].ts,
     packets |-> Cardinality(current),
     bytes |-> SumFunctionOnSet([i \in DOMAIN log |-> log[i].pkt.length], current)]

-----------------------------------------------------------------------------
(* Properties *)

\* The flow table is what the traffic says, whatever the order in which connections
\* were used and fell idle: no flow is lost while it lives, none is kept after it has
\* timed out, and each has the counts of exactly its own packets.
FlowTableIsExact == flows = [k \in Tracked |-> Reference(k)]

\* The signals of a packet are exact counts over their windows, both ends included,
\* although every deque is pruned only when a packet of its own comes by, and each by
\* the window of its own.
SignalsAreExact ==
    log # <<>> =>
        /\ signals.syns = Cardinality(SynsWithin(SynWindow))
        /\ signals.repeats = Cardinality(AttemptsWithin(PortRepeatWindow))
        /\ signals.ports = Cardinality(PortsWithin(ScanWindow))
        /\ signals.icmps = IF Last.proto = "ICMP" THEN Cardinality(IcmpsWithin(IcmpWindow))
                           ELSE 0
        /\ signals.slow = Cardinality(SlowFlows([k \in Tracked |-> Reference(k)], Last))
=============================================================================
