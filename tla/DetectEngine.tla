----------------------------- MODULE DetectEngine -----------------------------
(***************************************************************************)
(* run_detect_mode (src/main.py): the packet handler, its memory of what   *)
(* it has alerted on and of the network (ARP bindings, DHCP servers), and  *)
(* the alerts it writes, on top of the firewall of module Blocklist, whose *)
(* other processes keep removing blocks between any two of its steps.      *)
(*                                                                         *)
(* The flow statistics, the model and the hybrid rules are abstracted to   *)
(* their verdict on a packet: any label, any rule, any packet count.       *)
(***************************************************************************)
EXTENDS Blocklist

CONSTANTS
    Macs,           \* hardware addresses
    Whitelist       \* whitelist of config.yml

ASSUME WhitelistAssumption == Whitelist \subseteq Ips

ASSUME MacsAssumption == Null \notin Macs

VARIABLES
    stage,          \* where handle() stands
    pkt,            \* the packet it handles: its source, and whether it is ARP
    alerted,        \* already_alerted
    announced,      \* history: the sources log_alert has written an alert of since a run of
                    \* the engine last began without a live block of theirs
    macOf,          \* ArpBindingTracker._bindings
    servers         \* DhcpServerTracker._known_servers

trackerVars == <<macOf, servers>>
handlerVars == <<stage, pkt, alerted, announced, trackerVars>>
detectVars == <<vars, handlerVars>>

Packet == [src : Ips, arp : BOOLEAN]

Stages == {"down", "load", "ready", "traffic", "alert", "block", "blocking"}

DetectTypeOK ==
    /\ stage \in Stages
    /\ pkt \in Packet \cup {Null}
    /\ alerted \subseteq Ips
    /\ announced \subseteq Ips
    /\ macOf \in [Ips -> Macs \cup {Null}]
    /\ servers \subseteq Ips

DetectInit ==
    /\ Init
    /\ stage = "down" /\ pkt = Null
    /\ alerted = {} /\ announced = {}
    /\ macOf = [ip \in Ips |-> Null] /\ servers = {}

-----------------------------------------------------------------------------
(* Start *)

\* The process starts with the start-up clean-up of Blocklist; its memory is empty.
StartDetect ==
    /\ EngineStart
    /\ stage' = "load"
    /\ UNCHANGED <<pkt, alerted, announced, trackerVars>>

NoneLoaded == {}   \* mutant: the blocks of a prior run are forgotten

\* load_blocked_ips: expires_at IS NULL OR expires_at > now
Loaded == {ip \in Ips : Recorded(ip) /\ ~Expired(ip)}

\* already_alerted = load_blocked_ips(conn), when the start-up clean-up is over and
\* the maintenance thread runs.
LoadBlocked ==
    /\ stage = "load" /\ pc[Engine] = "idle"
    /\ alerted' = Loaded
    /\ announced' = announced \cap Loaded
    /\ stage' = "ready"
    /\ UNCHANGED <<vars, pkt, trackerVars>>

-----------------------------------------------------------------------------
(* A packet *)

\* handle() goes on with packet p at the given stage.
Handle(p, next) == pkt' = p /\ stage' = next

Done == Handle(Null, "ready")

ReceiveArpUnread(ip, mac) ==   \* mutant: handle() goes on when extract_arp_features fails
    /\ stage = "ready"
    /\ \/ macOf' = [macOf EXCEPT ![ip] = mac]
          /\ IF macOf[ip] \in {Null, mac} THEN Done
             ELSE Handle([src |-> ip, arp |-> TRUE], "traffic")
       \/ Handle([src |-> Null, arp |-> TRUE], "traffic") /\ UNCHANGED macOf
    /\ UNCHANGED <<vars, alerted, announced, servers>>

\* An ARP packet: check_arp_spoof. The binding is overwritten by what the packet
\* says, conflict or not. The whitelist is not asked.
ReceiveArp(ip, mac) ==
    /\ stage = "ready"
    /\ macOf' = [macOf EXCEPT ![ip] = mac]
    /\ IF macOf[ip] \in {Null, mac} THEN Done
       ELSE Handle([src |-> ip, arp |-> TRUE], "traffic")
    /\ UNCHANGED <<vars, alerted, announced, servers>>

DecideCountFirst(label, src, count) ==   \* mutant: the whitelist is asked last
    IF count # Null /\ count < 2 THEN "ALLOW"
    ELSE IF label = -1 THEN "BLOCK" ELSE "ALLOW"

\* decision.decide, with MIN_FLOW_PACKETS_FOR_DECISION = 2; count is Null when a rule
\* has triggered.
Decide(label, src, count) ==
    IF src \notin Whitelist /\ (count = Null \/ count >= 2) /\ label = -1
    THEN "BLOCK" ELSE "ALLOW"

\* An IP packet whose log_traffic went well. label and count are the model's and the
\* flow tracker's; rule says that a hybrid, DNS, TTL or threat-intelligence rule
\* triggered; offer says that it is a DHCP OFFER or ACK of its source.
ReceiveIp(ip, label, count, rule, offer) ==
    LET rogue == offer /\ ip \notin servers /\ servers # {}
        triggered == rule \/ rogue
        action == Decide(IF triggered THEN -1 ELSE label, ip,
                         IF triggered THEN Null ELSE count)
    IN  /\ stage = "ready"
        /\ servers' = IF offer THEN servers \cup {ip} ELSE servers
        /\ IF action = "BLOCK" THEN Handle([src |-> ip, arp |-> FALSE], "alert")
           ELSE Done
        /\ UNCHANGED <<vars, alerted, announced, macOf>>

\* log_traffic of a conflicting ARP packet.
LogTraffic ==
    /\ stage = "traffic"
    /\ Handle(pkt, "alert")
    /\ UNCHANGED <<vars, alerted, announced, trackerVars>>

MarkBeforeLog ==   \* mutant: already_alerted.add comes before a log_alert that raises
    /\ stage = "alert"
    /\ alerted' = alerted \cup {pkt.src}
    /\ \/ Handle(pkt, "block")
          /\ announced' = IF pkt.src \in alerted THEN announced ELSE announced \cup {pkt.src}
       \/ "abort" \in Faults /\ Done /\ UNCHANGED announced
    /\ UNCHANGED <<vars, trackerVars>>

\* log_alert and already_alerted.add, unless the source is in already_alerted.
LogAlert ==
    /\ stage = "alert"
    /\ announced' = IF pkt.src \in alerted THEN announced ELSE announced \cup {pkt.src}
    /\ alerted' = alerted \cup {pkt.src}
    /\ Handle(pkt, "block")
    /\ UNCHANGED <<vars, trackerVars>>

BlockOnlyNew ==   \* mutant: block_ip has moved under the test of already_alerted
    \/ /\ stage = "alert" /\ pkt.src \in alerted /\ Done
       /\ UNCHANGED <<vars, alerted, announced, trackerVars>>
    \/ /\ stage = "block"
       /\ \/ AlreadyBlocked(pkt.src) /\ Done /\ UNCHANGED vars
          \/ BlockSelect(pkt.src) /\ Handle(pkt, "blocking")
       /\ UNCHANGED <<alerted, announced, trackerVars>>

\* block_ip: its duplicate check, and then the steps of Blocklist until it returns.
CallBlock ==
    /\ stage = "block"
    /\ \/ AlreadyBlocked(pkt.src) /\ Done /\ UNCHANGED vars
       \/ BlockSelect(pkt.src) /\ Handle(pkt, "blocking")
    /\ UNCHANGED <<alerted, announced, trackerVars>>

InBlock ==
    /\ stage = "blocking"
    /\ \/ EnsureChain \/ EnsureJump \/ AppendRule \/ InsertRow
       \/ Abort(Engine)
    /\ IF pc'[Engine] = "idle" THEN Done ELSE UNCHANGED <<stage, pkt>>
    /\ UNCHANGED <<alerted, announced, trackerVars>>

\* An INSERT of log_traffic or log_alert, or anything else in between, raises: the
\* packet is dropped, the trackers keep what they have learnt from it.
AbortHandle ==
    /\ "abort" \in Faults
    /\ stage \in {"traffic", "alert", "block"}
    /\ Done
    /\ UNCHANGED <<vars, alerted, announced, trackerVars>>

-----------------------------------------------------------------------------
(* The rest of the system *)

\* Start-up clean-up, and its exception, which ends the process.
StartupCleanup ==
    /\ stage = "load"
    /\ RemovalStep(Engine) \/ Abort(Engine)
    /\ stage' = IF pc'[Engine] = "down" THEN "down" ELSE stage
    /\ UNCHANGED <<pkt, alerted, announced, trackerVars>>

\* The process ends, and its memory with it.
EndDetect ==
    /\ EngineCrash \/ Reboot
    /\ Handle(Null, "down")
    /\ alerted' = {}
    /\ macOf' = [ip \in Ips |-> Null] /\ servers' = {}
    /\ UNCHANGED announced

Elsewhere ==
    /\ \/ \E p \in Procs \ {Engine} : RequestStep(p) \/ RemovalStep(p) \/ Abort(p)
       \/ \E p \in Dashboard : RestartDashboard(p)
       \/ EditConfig \/ Tick
    /\ UNCHANGED handlerVars

Receive ==
    \E ip \in Ips :
        \/ \E mac \in Macs : ReceiveArp(ip, mac)
        \/ \E label \in {-1, 1}, count \in {1, 2}, rule, offer \in BOOLEAN :
              ReceiveIp(ip, label, count, rule, offer)

DetectNext ==
    \/ StartDetect \/ StartupCleanup \/ LoadBlocked
    \/ Receive \/ LogTraffic \/ LogAlert \/ CallBlock \/ InBlock
    \/ AbortHandle \/ EndDetect \/ Elsewhere

DetectSpec == DetectInit /\ [][DetectNext]_detectVars

\* The engine is started and handle() returns; no packet has to come.
FairDetectSpec ==
    /\ DetectSpec
    /\ WF_detectVars(StartDetect) /\ WF_detectVars(StartupCleanup)
    /\ WF_detectVars(LoadBlocked)
    /\ WF_detectVars(LogTraffic \/ LogAlert \/ CallBlock \/ InBlock)

-----------------------------------------------------------------------------
(* Properties *)

\* No silent block: of every address with a live row, log_alert has written an alert
\* in the run of the engine that inserted the row or in an earlier one from which every
\* later run has loaded the address as blocked; across exceptions, crashes, expiry,
\* removals by other processes and restarts. (How long retention keeps that alert is
\* another matter: it goes by the alert's age, not by the block.)
BlocksAreAlerted ==
    \A ip \in Ips : Recorded(ip) /\ ~Expired(ip) => ip \in announced

\* "no re-alerting on IPs already known to be blocked" (firewall.py:5-6), also right
\* after a restart, while other processes remove blocks.
NoAlertWhileBlocked ==
    [][stage = "alert" /\ stage' = "block" /\ pkt.src \notin alerted
          => ~(Recorded(pkt.src) /\ ~Expired(pkt.src))]_detectVars

\* handle() is, from some time on, neither left by an exception nor ended.
Undisturbed == <>[][~AbortHandle /\ ~Abort(Engine) /\ ~EndDetect]_detectVars

\* A source that stays hostile is blocked again and again, whether its blocks expire,
\* are removed, or are forgotten by a clean-up while its packet is handled, and
\* although it is alerted on only once.
VerdictsAreEnforced ==
    \A ip \in Ips :
        Undisturbed /\ []<>(stage = "alert" /\ pkt.src = ip) => []<>Recorded(ip)

\* A whitelisted address is only ever on its way to being blocked as the sender of a
\* conflicting ARP packet: every rule that overrides the model's label goes through
\* decide(), which asks the whitelist first.
WhitelistHolds ==
    pkt # Null /\ pkt.src \in Whitelist => pkt.arp
=============================================================================
