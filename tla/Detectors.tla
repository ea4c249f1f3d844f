------------------------------ MODULE Detectors ------------------------------
(***************************************************************************)
(* The rules of main.py: what handle() makes of an IP packet between the   *)
(* flow tracker and decide(). The hybrid rules (the first that fires is    *)
(* the only one that is reported), the DNS, TTL and DHCP trackers and the  *)
(* threat-intelligence list each may add a reason; log_alert takes the     *)
(* category, and with it the severity, of the whole text, that is of its   *)
(* first reason. A reason is modelled by its category.                     *)
(***************************************************************************)
EXTENDS FlowTracker

CONSTANTS
    Broadcasts,         \* destinations that are 255.255.255.255 or end in .255
    ScanDeviation,      \* the most distinct ports the model finds normal
    ScanMinPorts,
    SynThreshold, BruteForcePorts, BruteForceThreshold, PortRepeatThreshold,
    SlowMinConnections, IcmpThreshold, ExfilBytes, ExfilMinDuration,
    DnsWindow, DnsMinDistinct,
    EncodedLabels,      \* labels that are long and of high entropy
    TtlThreshold,
    Intel,              \* addresses in the threat-intelligence lists
    MaxFailures         \* bound on the packets whose handling an exception ends

ASSUME TrackersAssumption ==
    /\ DnsWindow \in Nat /\ Null \notin Nat /\ MaxFailures \in Nat
    /\ \A p \in Packets : p.ttl \in Nat

VARIABLES
    dnsHistory,         \* DnsTunnelTracker._history
    ttlBaseline,        \* TtlTracker._baseline
    dhcpServers,        \* DhcpServerTracker._known_servers
    reasons,            \* rule_reason of the last packet: its categories in their order
    judged              \* history: the packets that got as far as decide(), by their
                        \* places in the log

trackerVars == <<dnsHistory, ttlBaseline, dhcpServers>>
ruleVars == <<trackerVars, reasons, judged>>
detectorVars == <<vars, ruleVars>>

\* A DNS query is a packet with a query: its base domain and its leftmost label.
IsQuery(p) == p.query # Null

Zone(p) == <<p.src, p.query.base>>
Zones == {Zone(p) : p \in {q \in Packets : IsQuery(q)}}

Categories == {"stealth_scan", "invalid_flags", "smurf_attack", "port_scan", "syn_flood",
               "brute_force", "repeated_port_probe", "slowloris", "icmp_flood",
               "possible_exfiltration", "dns_tunneling", "ttl_anomaly", "rogue_dhcp",
               "threat_intel"}

DetectorsTypeOK ==
    /\ TypeOK
    /\ DOMAIN dnsHistory = Zones /\ \A z \in Zones : Len(dnsHistory[z]) <= Len(log)
    /\ ttlBaseline \in [Srcs -> Nat \cup {Null}]
    /\ dhcpServers \subseteq Srcs
    /\ Len(reasons) <= 5 /\ \A i \in DOMAIN reasons : reasons[i] \in Categories
    /\ judged \subseteq DOMAIN log

DetectorsInit ==
    /\ Init
    /\ dnsHistory = [z \in Zones |-> <<>>]
    /\ ttlBaseline = [s \in Srcs |-> Null]
    /\ dhcpServers = {}
    /\ reasons = <<>>
    /\ judged = {}

-----------------------------------------------------------------------------
(* The rules *)

\* check_hybrid_rules: the conditions in the order of their returns.
HybridRules(p, s) ==
    LET tcp == p.proto = "TCP"
        rule(category, condition) == [category |-> category, fires |-> condition]
    IN  << rule("stealth_scan", tcp /\ (p.flags \in {{}, {"F"}} \/ {"F", "P", "U"} \subseteq p.flags)),
           rule("invalid_flags", tcp /\ "S" \in p.flags /\ p.flags \cap {"F", "R"} # {}),
           rule("smurf_attack", p.proto = "ICMP" /\ p.dst \in Broadcasts),
           rule("port_scan", s.ports > ScanDeviation /\ s.ports >= ScanMinPorts),
           rule("syn_flood", s.syns >= SynThreshold),
           rule("brute_force", p.dport \in BruteForcePorts /\ s.repeats >= BruteForceThreshold),
           rule("repeated_port_probe", s.repeats >= PortRepeatThreshold),
           rule("slowloris", s.slow >= SlowMinConnections),
           rule("icmp_flood", s.icmps >= IcmpThreshold),
           rule("possible_exfiltration", s.bytes >= ExfilBytes /\ s.duration >= ExfilMinDuration) >>

HybridReason(p, s) ==
    LET rules == HybridRules(p, s)
        hits == {i \in DOMAIN rules : rules[i].fires}
    IN  IF hits = {} THEN <<>> ELSE <<rules[Min(hits)].category>>

AddReasonIfNone(found, condition, category) ==   \* mutant: only the first finding is kept
    IF condition /\ found = <<>> THEN <<category>> ELSE found

\* rule_reason = new if not rule_reason else f"{rule_reason}; {new}"
AddReason(found, condition, category) ==
    IF condition THEN Append(found, category) ELSE found

LabelsRepeated(history) == DOMAIN history   \* mutant: queries are counted, not labels

Labels(history) == {history[i].label : i \in DOMAIN history}

\* The window of p's zone once p is recorded.
Queries(p, ts) ==
    Pruned(Append(dnsHistory[Zone(p)], [ts |-> ts, label |-> p.query.label]), ts - DnsWindow)

\* check_dns_tunnel
Tunnels(p, ts) ==
    IsQuery(p) /\ \/ Cardinality(Labels(Queries(p, ts))) >= DnsMinDistinct
                  \/ p.query.label \in EncodedLabels

Distance(m, n) == IF m < n THEN n - m ELSE m - n

\* check_ttl_anomaly
Spoofed(p) == LET baseline == ttlBaseline[p.src]
              IN  baseline # Null /\ Distance(baseline, p.ttl) >= TtlThreshold

\* check_rogue_dhcp
Rogue(p) == p.offer /\ dhcpServers # {} /\ p.src \notin dhcpServers

\* ThreatIntel.check_flow
Listed(p) == p.src \in Intel

\* handle(), from tracker.update to the combined rule_reason, when nothing raises.
Receive(p, ts) ==
    /\ Update(p, ts)
    /\ dnsHistory' = IF IsQuery(p) THEN [dnsHistory EXCEPT ![Zone(p)] = Queries(p, ts)]
                     ELSE dnsHistory
    /\ ttlBaseline' = [ttlBaseline EXCEPT ![p.src] = IF @ = Null THEN p.ttl ELSE @]
    /\ dhcpServers' = IF p.offer THEN dhcpServers \cup {p.src} ELSE dhcpServers
    /\ LET hybrid == HybridReason(p, signals')
           withDns == AddReason(hybrid, Tunnels(p, ts), "dns_tunneling")
           withTtl == AddReason(withDns, Spoofed(p), "ttl_anomaly")
           withDhcp == AddReason(withTtl, Rogue(p), "rogue_dhcp")
       IN  reasons' = AddReason(withDhcp, Listed(p), "threat_intel")
    /\ judged' = judged \cup {Len(log) + 1}

\* log_traffic, predict or the model's part of check_hybrid_rules raises, and the
\* catch-all of handle() ends the packet: the flow tracker has learnt from it, the
\* trackers that would have been asked next have not, and it is given no reason.
ReceiveFails(p, ts) ==
    /\ Len(log) - Cardinality(judged) < MaxFailures
    /\ Update(p, ts)
    /\ reasons' = <<>>
    /\ UNCHANGED <<trackerVars, judged>>

DetectorsNext ==
    /\ Len(log) < MaxPackets
    /\ \E p \in Packets, gap \in Gaps :
          /\ log = <<>> => gap = 0      \* only differences of times matter
          /\ Receive(p, Now + gap) \/ ReceiveFails(p, Now + gap)

DetectorsSpec == DetectorsInit /\ [][DetectorsNext]_detectorVars

-----------------------------------------------------------------------------
(* Reference definitions, from the log alone *)

LastFlow == Reference(Key(Last))

\* The packets before the last one that no exception has ended: of its source, and DHCP
\* answers.
Earlier == {i \in 1..(Len(log) - 1) : i \in judged /\ log[i].pkt.src = Last.src}
EarlierOffers == {i \in 1..(Len(log) - 1) : i \in judged /\ log[i].pkt.offer}

QueriesWithin(w) ==
    {i \in FromSource(w) : /\ i \in judged
                           /\ IsQuery(log[i].pkt) /\ Zone(log[i].pkt) = Zone(Last)}

\* What the log gives evidence of when its last packet comes in: the volume rules, of
\* which the first is reported, and which count every packet, also one that an exception
\* has ended,
VolumeEvidence ==
    LET attempts == Cardinality(AttemptsWithin(PortRepeatWindow)) IN
    [port_scan |-> Cardinality(PortsWithin(ScanWindow)) >= ScanMinPorts
                   /\ Cardinality(PortsWithin(ScanWindow)) > ScanDeviation,
     syn_flood |-> Cardinality(SynsWithin(SynWindow)) >= SynThreshold,
     brute_force |-> Last.dport \in BruteForcePorts /\ attempts >= BruteForceThreshold,
     repeated_port_probe |-> attempts >= PortRepeatThreshold,
     slowloris |-> Cardinality(SlowFlows([k \in Tracked |-> Reference(k)], Last))
                       >= SlowMinConnections,
     icmp_flood |-> Last.proto = "ICMP" /\ Cardinality(IcmpsWithin(IcmpWindow)) >= IcmpThreshold,
     possible_exfiltration |-> /\ LastFlow.bytes >= ExfilBytes
                               /\ LastFlow.last - LastFlow.start >= ExfilMinDuration]

\* and the trackers beside them, of which each is, and which know of no such packet.
TrackerEvidence ==
    [dns_tunneling |-> IsQuery(Last) /\
        \/ Last.query.label \in EncodedLabels
        \/ Cardinality({log[i].pkt.query.label : i \in QueriesWithin(DnsWindow)}) >= DnsMinDistinct,
     ttl_anomaly |-> Earlier # {} /\ Distance(log[Min(Earlier)].pkt.ttl, Last.ttl) >= TtlThreshold,
     rogue_dhcp |-> Last.offer /\ EarlierOffers # {} /\ EarlierOffers \cap Earlier = {},
     threat_intel |-> Last.src \in Intel]

-----------------------------------------------------------------------------
(* Properties *)

Reported == {reasons[i] : i \in DOMAIN reasons}

\* No false alarm of a rule: each reason a packet is given is borne out by the packets
\* of its windows, its flow and its predecessors, through any order of packets, gaps and
\* expiry of flows.
ReasonsAreJustified ==
    LET volume == VolumeEvidence
        trackers == TrackerEvidence
    IN  log # <<>> => \A c \in Reported :
            /\ c \in DOMAIN volume => volume[c]
            /\ c \in DOMAIN trackers => trackers[c]

\* Of a packet that gets as far as decide(), nothing goes unreported: if a volume rule
\* has its evidence, be it packets that exceptions have ended, some hybrid rule is the
\* first reason, and no hybrid rule hides what a tracker or the threat list has found.
EvidenceIsReported ==
    LET volume == VolumeEvidence
        trackers == TrackerEvidence
    IN  Len(log) \in judged =>
            /\ (\E c \in DOMAIN volume : volume[c]) =>
                   reasons # <<>> /\ reasons[1] \notin DOMAIN trackers
            /\ \A c \in DOMAIN trackers : trackers[c] => c \in Reported
=============================================================================
