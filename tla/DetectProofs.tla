----------------------------- MODULE DetectProofs -----------------------------
(***************************************************************************)
(* Theorems about module DetectEngine: it uses the firewall as Blocklist   *)
(* describes it, so Blocklist's theorems hold of it; its memory, the       *)
(* alerts it writes and the table of blocks agree.                         *)
(***************************************************************************)
EXTENDS DetectEngine, BlocklistProofs

-----------------------------------------------------------------------------
(* The inductive invariant *)

\* Where handle() stands and where the engine stands in block_ip.
StagesAgree ==
    /\ stage = "down" <=> pc[Engine] = "down"
    /\ stage = "load" => pc[Engine] \in {"idle", "next", "delete"}
    /\ stage \in {"ready", "traffic", "alert", "block"} => pc[Engine] = "idle"
    /\ stage = "blocking" => EngineBlocks /\ cur[Engine] = pkt.src
    /\ op[Engine] = "cleanup" => pc[Engine] \in {"next", "delete"}
    /\ stage \in {"traffic", "alert", "block", "blocking"} => pkt \in Packet

\* An alert is written before its source is remembered, and both before block_ip; what
\* a run loads as blocked an earlier run has announced.
AlertsAgree ==
    /\ alerted \subseteq announced
    /\ stage \in {"block", "blocking"} => pkt.src \in alerted
    /\ BlocksAreAlerted
    /\ stage \notin {"down", "load"} =>
         \A ip \in Ips : Recorded(ip) /\ ~Expired(ip) => ip \in alerted

DInv == TypeOK /\ DetectTypeOK /\ StagesAgree /\ AlertsAgree /\ WhitelistHolds

LEMMA DInvInit == DetectInit => DInv
<1>. SUFFICES ASSUME DetectInit PROVE DInv
  OBVIOUS
<1>1. TypeOK
  BY TypeInit DEF DetectInit
<1>2. DetectTypeOK /\ WhitelistHolds
  BY DEF DetectInit, DetectTypeOK, Stages, WhitelistHolds
<1>3. StagesAgree /\ AlertsAgree
  BY DEF DetectInit, Init, Booted, StagesAgree, AlertsAgree, BlocksAreAlerted, Recorded,
         Procs
<1>. QED  BY <1>1, <1>2, <1>3 DEF DInv

-----------------------------------------------------------------------------
(* Refinement *)

\* Every step of the engine and its environment is a step of Blocklist or leaves the
\* firewall alone.
LEMMA StepRefines == DInv /\ [DetectNext]_detectVars => [Next]_vars
<1>. SUFFICES ASSUME DInv, [DetectNext]_detectVars PROVE Next \/ UNCHANGED vars
  OBVIOUS
<1>0. Engine \in Procs /\ Dashboard \subseteq Procs
  BY DEF Procs
<1>1. CASE StartDetect
  BY <1>1 DEF StartDetect, Next
<1>2. CASE StartupCleanup
  BY <1>0, <1>2 DEF StartupCleanup, Next, FaultStep
<1>3. CASE LoadBlocked \/ Receive \/ LogTraffic \/ LogAlert \/ AbortHandle
  BY <1>3 DEF LoadBlocked, Receive, ReceiveArp, ReceiveIp, LogTraffic, LogAlert, AbortHandle
<1>4. CASE CallBlock
  <2>1. pkt.src \in Ips
    BY <1>4 DEF CallBlock, DInv, StagesAgree, Packet
  <2>. QED  BY <1>4, <2>1 DEF CallBlock, Next, BlockStep
<1>5. CASE InBlock
  BY <1>0, <1>5 DEF InBlock, Next, BlockStep, FaultStep
<1>6. CASE EndDetect
  BY <1>6 DEF EndDetect, Next, FaultStep
<1>7. CASE Elsewhere
  BY <1>0, <1>7 DEF Elsewhere, Next, FaultStep
<1>8. CASE UNCHANGED detectVars
  BY <1>8 DEF detectVars
<1>. QED  BY <1>1, <1>2, <1>3, <1>4, <1>5, <1>6, <1>7, <1>8 DEF DetectNext

-----------------------------------------------------------------------------
(* What the steps of Blocklist leave alone *)

\* A process other than the engine does not move it, and inserts no row.
LEMMA OthersStep ==
    ASSUME TypeOK, NEW p \in Procs \ {Engine}, RequestStep(p) \/ RemovalStep(p) \/ Abort(p)
    PROVE  /\ pc'[Engine] = pc[Engine] /\ cur'[Engine] = cur[Engine]
           /\ op'[Engine] = op[Engine] /\ now' = now
           /\ \A ip \in Ips : row'[ip] \in {Null, row[ip]}
<1>. USE DEF TypeOK, Procs, Goto, BeginRemoval, Stop, fwVars, cfgVars, procVars
<1>1. CASE RequestStep(p)
  BY <1>1 DEF RequestStep, SelectExpired, RequestUnblock, RunCli
<1>2. CASE RemovalStep(p)
  BY <1>2 DEF RemovalStep, RemoveRule, ForgetRow, DeleteRow, FinishRemoval, Item
<1>3. CASE Abort(p)
  BY <1>3 DEF Abort
<1>. QED  BY <1>1, <1>2, <1>3

\* A packet is dropped or goes on to log_traffic or to log_alert; only an ARP packet
\* of a whitelisted address does.
LEMMA ReceiveStep ==
    ASSUME Receive
    PROVE  /\ stage = "ready" /\ vars' = vars /\ alerted' = alerted /\ announced' = announced
           /\ \/ stage' = "ready" /\ pkt' = Null
              \/ /\ stage' \in {"traffic", "alert"} /\ pkt' \in Packet
                 /\ pkt'.src \in Whitelist => pkt'.arp
<1>. DEFINE Goal ==
           /\ stage = "ready" /\ vars' = vars /\ alerted' = alerted /\ announced' = announced
           /\ \/ stage' = "ready" /\ pkt' = Null
              \/ /\ stage' \in {"traffic", "alert"} /\ pkt' \in Packet
                 /\ pkt'.src \in Whitelist => pkt'.arp
<1>1. ASSUME NEW ip \in Ips, NEW mac \in Macs, ReceiveArp(ip, mac) PROVE Goal
  <2>1. [src |-> ip, arp |-> TRUE] \in Packet
    BY DEF Packet
  <2>2. /\ stage = "ready" /\ UNCHANGED <<vars, alerted, announced>>
        /\ \/ stage' = "ready" /\ pkt' = Null
           \/ stage' = "traffic" /\ pkt' = [src |-> ip, arp |-> TRUE]
    BY <1>1 DEF ReceiveArp, Handle, Done
  <2>3. [src |-> ip, arp |-> TRUE].arp
    OBVIOUS
  <2>. QED  BY <2>1, <2>2, <2>3
<1>2. ASSUME NEW ip \in Ips, NEW label \in {-1, 1}, NEW count \in {1, 2},
             NEW rule \in BOOLEAN, NEW offer \in BOOLEAN,
             ReceiveIp(ip, label, count, rule, offer)
      PROVE  Goal
  <2>1. [src |-> ip, arp |-> FALSE] \in Packet
    BY DEF Packet
  <2>2. /\ stage = "ready" /\ UNCHANGED <<vars, alerted, announced>>
        /\ \/ stage' = "ready" /\ pkt' = Null
           \/ /\ stage' = "alert" /\ pkt' = [src |-> ip, arp |-> FALSE]
              /\ ip \notin Whitelist
    BY <1>2 DEF ReceiveIp, Handle, Done, Decide
  <2>3. [src |-> ip, arp |-> FALSE].src = ip
    OBVIOUS
  <2>. QED  BY <2>1, <2>2, <2>3
<1>. HIDE DEF Goal
<1>3. Goal
  BY <1>1, <1>2, Zenon DEF Receive
<1>. QED  BY <1>3 DEF Goal

\* The trackers' types, whatever packet comes.
LEMMA TrackersTyped ==
    ASSUME DetectTypeOK, Receive
    PROVE  macOf' \in [Ips -> Macs \cup {Null}] /\ servers' \subseteq Ips
<1>. DEFINE Goal == macOf' \in [Ips -> Macs \cup {Null}] /\ servers' \subseteq Ips
<1>1. ASSUME NEW ip \in Ips, NEW mac \in Macs, ReceiveArp(ip, mac) PROVE Goal
  BY <1>1 DEF ReceiveArp, DetectTypeOK
<1>2. ASSUME NEW ip \in Ips, NEW label \in {-1, 1}, NEW count \in {1, 2},
             NEW rule \in BOOLEAN, NEW offer \in BOOLEAN,
             ReceiveIp(ip, label, count, rule, offer)
      PROVE  Goal
  BY <1>2 DEF ReceiveIp, DetectTypeOK
<1>. HIDE DEF Goal
<1>3. Goal
  BY <1>1, <1>2, Zenon DEF Receive
<1>. QED  BY <1>3 DEF Goal

-----------------------------------------------------------------------------
(* The invariant is kept *)

LEMMA DetectTypeStep == DInv /\ [DetectNext]_detectVars => DetectTypeOK'
<1>. SUFFICES ASSUME DInv, [DetectNext]_detectVars PROVE DetectTypeOK'
  OBVIOUS
<1>. USE DEF DInv, DetectTypeOK, Stages, StagesAgree, Handle, Done, handlerVars, trackerVars
<1>1. CASE StartDetect \/ StartupCleanup \/ EndDetect \/ Elsewhere
  BY <1>1 DEF StartDetect, StartupCleanup, EndDetect, Elsewhere
<1>2. CASE LoadBlocked
  BY <1>2 DEF LoadBlocked, Loaded
<1>3. CASE Receive
  <2>1. stage' \in Stages /\ pkt' \in Packet \cup {Null}
    BY <1>3, ReceiveStep
  <2>2. alerted' = alerted /\ announced' = announced
    BY <1>3, ReceiveStep
  <2>. QED  BY <1>3, <2>1, <2>2, TrackersTyped
<1>4. CASE LogTraffic \/ LogAlert
  BY <1>4 DEF LogTraffic, LogAlert, Packet
<1>5. CASE CallBlock \/ AbortHandle
  <2>1. /\ (pkt' = Null /\ stage' = "ready") \/ (pkt' = pkt /\ stage' = "blocking")
        /\ UNCHANGED <<alerted, announced, trackerVars>>
    BY <1>5 DEF CallBlock, AbortHandle
  <2>. QED  BY <2>1
<1>7. CASE InBlock
  <2>1. /\ (pkt' = Null /\ stage' = "ready") \/ UNCHANGED <<stage, pkt>>
        /\ UNCHANGED <<alerted, announced, trackerVars>>
    BY <1>7 DEF InBlock
  <2>. QED  BY <2>1
<1>6. CASE UNCHANGED detectVars
  BY <1>6 DEF detectVars
<1>. QED  BY <1>1, <1>2, <1>3, <1>4, <1>5, <1>6, <1>7 DEF DetectNext

LEMMA StagesStep == DInv /\ [DetectNext]_detectVars => StagesAgree'
<1>. SUFFICES ASSUME DInv, [DetectNext]_detectVars PROVE StagesAgree'
  OBVIOUS
<1>. USE ProcsAssumption
     DEF DInv, TypeOK, DetectTypeOK, StagesAgree, EngineBlocks, Handle, Done, handlerVars,
         trackerVars, Goto, fwVars, cfgVars, procVars
<1>0. Engine \in Procs /\ Maintenance \in Procs /\ Dashboard \subseteq Procs \ {Engine}
  BY DEF Procs
<1>1. CASE StartDetect
  BY <1>0, <1>1 DEF StartDetect, EngineStart, BeginRemoval
<1>2. CASE StartupCleanup
  <2>1. CASE RemovalStep(Engine)
    BY <1>0, <1>2, <2>1 DEF StartupCleanup, RemovalStep, RemoveRule, ForgetRow, DeleteRow,
                            FinishRemoval
  <2>2. CASE Abort(Engine)
    BY <1>0, <1>2, <2>2 DEF StartupCleanup, Abort, Stop
  <2>. QED  BY <1>2, <2>1, <2>2 DEF StartupCleanup
<1>3. CASE LoadBlocked
  <2>1. stage = "load" /\ stage' = "ready" /\ pc[Engine] = "idle" /\ UNCHANGED vars
    BY <1>3 DEF LoadBlocked
  <2>. QED  BY <2>1 DEF vars
<1>4. CASE Receive
  <2>1. /\ stage = "ready" /\ UNCHANGED vars
        /\ stage' = "ready" \/ (stage' \in {"traffic", "alert"} /\ pkt' \in Packet)
    BY <1>4, ReceiveStep
  <2>. QED  BY <2>1 DEF vars
<1>5. CASE LogTraffic \/ LogAlert \/ AbortHandle
  <2>1. /\ stage \in {"traffic", "alert", "block"} /\ UNCHANGED vars
        /\ stage' = "ready" \/ (stage' \in {"alert", "block"} /\ pkt' = pkt)
    BY <1>5 DEF LogTraffic, LogAlert, AbortHandle
  <2>. QED  BY <2>1 DEF vars
<1>6. CASE CallBlock
  BY <1>0, <1>6 DEF CallBlock, BlockSelect, Packet, vars
<1>7. CASE InBlock
  <2>1. CASE Abort(Engine)
    BY <1>0, <1>7, <2>1 DEF InBlock, Abort, Stop
  <2>2. CASE EnsureChain \/ EnsureJump \/ AppendRule \/ InsertRow
    BY <1>0, <1>7, <2>2 DEF InBlock, EnsureChain, EnsureJump, AppendRule, InsertRow,
                            GiveUpBlock
  <2>. QED  BY <1>7, <2>1, <2>2 DEF InBlock
<1>8. CASE EndDetect
  BY <1>0, <1>8 DEF EndDetect, EngineCrash, Reboot, Stop, Booted
<1>9. CASE Elsewhere
  <2>1. ASSUME NEW p \in Procs \ {Engine}, RequestStep(p) \/ RemovalStep(p) \/ Abort(p)
        PROVE  StagesAgree'
    BY <1>9, <2>1, OthersStep DEF Elsewhere
  <2>2. ASSUME NEW p \in Dashboard, RestartDashboard(p) PROVE StagesAgree'
    BY <1>0, <1>9, <2>2 DEF Elsewhere, RestartDashboard, Stop
  <2>3. CASE EditConfig \/ Tick
    BY <1>9, <2>3 DEF Elsewhere, EditConfig, Tick
  <2>. QED  BY <1>9, <2>1, <2>2, <2>3 DEF Elsewhere
<1>10. CASE UNCHANGED detectVars
  BY <1>10 DEF detectVars, vars
<1>. QED  BY <1>1, <1>2, <1>3, <1>4, <1>5, <1>6, <1>7, <1>8, <1>9, <1>10 DEF DetectNext

\* What a step must respect to keep AlertsAgree when it does not touch the alerts:
\* rows only disappear, and time only passes.
LEMMA RowsOnlyGo ==
    ASSUME TypeOK, AlertsAgree, UNCHANGED <<alerted, announced>>,
           \A ip \in Ips : row'[ip] \in {Null, row[ip]},
           now' \in Nat, now' >= now,
           stage' \in {"block", "blocking"} =>
              stage \in {"block", "blocking"} /\ pkt' = pkt,
           stage' \notin {"down", "load"} => stage \notin {"down", "load"}
    PROVE  AlertsAgree'
<1>1. \A ip \in Ips : Recorded(ip)' => Recorded(ip) /\ row'[ip] = row[ip]
  BY DEF Recorded
<1>2. \A ip \in Ips : Expired(ip) /\ row'[ip] = row[ip] => Expired(ip)'
  BY NullAssumption DEF Expired, Recorded, TypeOK, Row
<1>. QED  BY <1>1, <1>2 DEF AlertsAgree, BlocksAreAlerted

LEMMA AlertsStep == DInv /\ [DetectNext]_detectVars => AlertsAgree'
<1>. SUFFICES ASSUME DInv, [DetectNext]_detectVars PROVE AlertsAgree'
  OBVIOUS
<1>0. /\ Engine \in Procs /\ Dashboard \subseteq Procs /\ now \in Nat /\ now >= now
      /\ \A ip \in Ips : row[ip] \in {Null, row[ip]}
  BY DEF Procs, DInv, TypeOK
<1>. USE DEF DInv
<1>1. CASE StartDetect
  BY <1>0, <1>1, RowsOnlyGo DEF StartDetect, EngineStart, fwVars
<1>2. CASE StartupCleanup
  <2>1. \A ip \in Ips : row'[ip] \in {Null, row[ip]}
    BY <1>0, <1>2 DEF StartupCleanup, RemovalStep, RemoveRule, ForgetRow, DeleteRow,
                      FinishRemoval, Abort, fwVars, TypeOK, Item
  <2>2. now' = now
    BY <1>2 DEF StartupCleanup, RemovalStep, RemoveRule, ForgetRow, DeleteRow,
                FinishRemoval, Abort
  <2>. QED  BY <1>0, <1>2, <2>1, <2>2, RowsOnlyGo DEF StartupCleanup
<1>3. CASE LoadBlocked
  <2>1. /\ vars' = vars /\ announced' = announced \cap Loaded /\ stage' = "ready"
        /\ alerted' = Loaded
    BY <1>3 DEF LoadBlocked
  <2>2. row' = row /\ now' = now
    BY <2>1 DEF vars, fwVars
  <2>. QED
    BY <2>1, <2>2 DEF AlertsAgree, BlocksAreAlerted, Loaded, Recorded, Expired
<1>4. CASE Receive
  <2>1. row' = row /\ now' = now
    BY <1>4, ReceiveStep DEF vars, fwVars
  <2>. QED  BY <1>0, <1>4, <2>1, ReceiveStep, RowsOnlyGo
<1>5. CASE LogTraffic \/ AbortHandle
  <2>1. row' = row /\ now' = now
    BY <1>5 DEF LogTraffic, AbortHandle, vars, fwVars
  <2>2. /\ UNCHANGED <<alerted, announced>> /\ stage \notin {"down", "load"}
        /\ stage' \in {"ready", "alert"}
    BY <1>5 DEF LogTraffic, AbortHandle, Handle, Done
  <2>. QED  BY <1>0, <2>1, <2>2, RowsOnlyGo
<1>6. CASE LogAlert
  <2>1. row' = row /\ now' = now
    BY <1>6 DEF LogAlert, vars, fwVars
  <2>2. /\ stage = "alert" /\ stage' = "block" /\ pkt' = pkt
        /\ alerted' = alerted \cup {pkt.src}
        /\ announced' = IF pkt.src \in alerted THEN announced ELSE announced \cup {pkt.src}
    BY <1>6 DEF LogAlert, Handle
  <2>. QED
    BY <2>1, <2>2 DEF AlertsAgree, BlocksAreAlerted, Recorded, Expired
<1>7. CASE CallBlock
  <2>1. row' = row /\ now' = now
    BY <1>7 DEF CallBlock, BlockSelect, vars, fwVars
  <2>2. /\ UNCHANGED <<alerted, announced>> /\ stage = "block"
        /\ stage' = "ready" \/ (stage' = "blocking" /\ pkt' = pkt)
    BY <1>7 DEF CallBlock, Handle, Done
  <2>. QED  BY <1>0, <2>1, <2>2, RowsOnlyGo
<1>8. CASE InBlock
  <2>1. /\ UNCHANGED <<alerted, announced>> /\ stage = "blocking"
        /\ stage' = "ready" \/ (stage' = "blocking" /\ pkt' = pkt)
    BY <1>8 DEF InBlock, Handle, Done
  <2>2. CASE EnsureChain \/ EnsureJump \/ AppendRule \/ Abort(Engine)
    <3>1. row' = row /\ now' = now
      BY <2>2 DEF EnsureChain, EnsureJump, AppendRule, Abort, fwVars
    <3>. QED  BY <1>0, <2>1, <3>1, RowsOnlyGo
  <2>3. CASE InsertRow
    <3>1. /\ now' = now
          /\ \A ip \in Ips : ip # pkt.src => row'[ip] = row[ip]
      BY <2>1, <2>3 DEF InsertRow, StagesAgree, TypeOK
    <3>2. pkt.src \in alerted /\ pkt.src \in announced
      BY <2>1 DEF AlertsAgree
    <3>. QED
      BY <2>1, <3>1, <3>2 DEF AlertsAgree, BlocksAreAlerted, Recorded, Expired
  <2>. QED  BY <1>8, <2>2, <2>3 DEF InBlock
<1>9. CASE EndDetect
  <2>1. /\ row' = row /\ now' = now /\ alerted' = {} /\ announced' = announced
        /\ stage' = "down"
    BY <1>9 DEF EndDetect, EngineCrash, Reboot, Handle, fwVars
  <2>. QED  BY <2>1 DEF AlertsAgree, BlocksAreAlerted, Recorded, Expired
<1>10. CASE Elsewhere
  <2>1. UNCHANGED <<alerted, announced, stage, pkt>>
    BY <1>10 DEF Elsewhere, handlerVars
  <2>2. ASSUME NEW p \in Procs \ {Engine}, RequestStep(p) \/ RemovalStep(p) \/ Abort(p)
        PROVE  AlertsAgree'
    BY <1>0, <2>1, <2>2, OthersStep, RowsOnlyGo
  <2>3. ASSUME NEW p \in Dashboard, RestartDashboard(p) PROVE AlertsAgree'
    BY <1>0, <2>1, <2>3, RowsOnlyGo DEF RestartDashboard, fwVars
  <2>4. CASE EditConfig \/ Tick
    <3>1. row' = row /\ now' \in {now, now + 1}
      BY <2>4 DEF EditConfig, Tick, fwVars
    <3>. QED  BY <1>0, <2>1, <3>1, RowsOnlyGo
  <2>. QED  BY <1>10, <2>2, <2>3, <2>4 DEF Elsewhere
<1>11. CASE UNCHANGED detectVars
  BY <1>0, <1>11, RowsOnlyGo DEF detectVars, vars, fwVars, handlerVars
<1>. QED
  BY <1>1, <1>2, <1>3, <1>4, <1>5, <1>6, <1>7, <1>8, <1>9, <1>10, <1>11 DEF DetectNext

LEMMA WhitelistStep == DInv /\ [DetectNext]_detectVars => WhitelistHolds'
<1>. SUFFICES ASSUME DInv, [DetectNext]_detectVars PROVE WhitelistHolds'
  OBVIOUS
<1>. USE DEF DInv, WhitelistHolds
<1>1. CASE Receive
  BY <1>1, ReceiveStep
<1>2. CASE ~Receive
  <2>1. pkt' \in {Null, pkt}
    BY <1>2 DEF DetectNext, StartDetect, StartupCleanup, LoadBlocked, LogTraffic, LogAlert,
                CallBlock, InBlock, AbortHandle, EndDetect, Elsewhere, Handle, Done,
                handlerVars, detectVars
  <2>. QED  BY <2>1
<1>. QED  BY <1>1, <1>2

-----------------------------------------------------------------------------
(* The theorems *)

THEOREM DetectInductive == DetectSpec => []DInv
<1>1. DInv /\ [DetectNext]_detectVars => DInv'
  BY StepRefines, TypeStep, DetectTypeStep, StagesStep, AlertsStep, WhitelistStep DEF DInv
<1>. QED  BY DInvInit, <1>1, PTL DEF DetectSpec

\* The handler's stage, its packet and the trackers keep their types, for any
\* addresses and MACs and through every crash and restart of the engine.
THEOREM DetectTypeCorrect == DetectSpec => []DetectTypeOK
<1>1. DInv => DetectTypeOK
  BY DEF DInv
<1>. QED  BY <1>1, DetectInductive, PTL

\* The detection engine never appends a second DROP rule for an address that is in
\* step, however its packets interleave with the clean-ups and unblocks: its steps are
\* Blocklist's, whose theorem says so of every such system.
THEOREM DetectNoDuplicateRule == DetectSpec => []NoDuplicateRule
<1>1. DetectInit => Init
  BY DEF DetectInit
<1>2. DetectSpec => Spec
  BY <1>1, StepRefines, DetectInductive, PTL DEF DetectSpec, Spec
<1>. QED  BY <1>2, NoDuplicateRuleHolds, PTL

\* No address ever has a live row that log_alert has not announced.
THEOREM BlocksAreAlertedHolds == DetectSpec => []BlocksAreAlerted
<1>1. DInv => BlocksAreAlerted
  BY DEF DInv, AlertsAgree
<1>. QED  BY <1>1, DetectInductive, PTL

\* An IP packet of a whitelisted address never gets as far as an alert or a block.
THEOREM WhitelistHoldsAlways == DetectSpec => []WhitelistHolds
<1>1. DInv => WhitelistHolds
  BY DEF DInv
<1>. QED  BY <1>1, DetectInductive, PTL

\* An alert is never repeated for an address with an unexpired row, in the same run
\* of the engine or after a restart.
THEOREM NoAlertWhileBlockedHolds == DetectSpec => NoAlertWhileBlocked
<1>. DEFINE A == stage = "alert" /\ stage' = "block" /\ pkt.src \notin alerted
                   => ~(Recorded(pkt.src) /\ ~Expired(pkt.src))
<1>1. DInv => A
  BY DEF DInv, AlertsAgree, StagesAgree, Packet
<1>. QED  BY <1>1, DetectInductive, PTL DEF NoAlertWhileBlocked
=============================================================================
