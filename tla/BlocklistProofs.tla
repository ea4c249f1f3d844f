---------------------------- MODULE BlocklistProofs ----------------------------
(***************************************************************************)
(* Theorems about module Blocklist, for any number of addresses, dashboard *)
(* threads and command lines, any duration and any set of faults; and      *)
(* about module BlocklistService: with the engine as the only remover,     *)
(* rows and rules agree and the blocklist implements the safety part of    *)
(* TimedBlock, for any number of addresses and any duration but 0.         *)
(***************************************************************************)
EXTENDS BlocklistService, TLAPS

-----------------------------------------------------------------------------
(* The inductive invariant *)

\* p has removed the rule of ip and is about to delete its row.
Deleting(p, ip) == pc[p] = "delete" /\ cur[p] = ip

\* The row or the engine, about to insert it, answers for the rule of ip.
Accounted(ip) == RecordedLive(ip) \/ Appended(ip)

EngineBlocks == pc[Engine] \in {"chain", "jump", "append", "insert"}

\* What holds of an address whose row and rule are in step. A process that removed
\* the rule is the only one that could: the rule is gone until the row is, because
\* the row keeps block_ip from appending another.
InStep(ip) ==
    /\ rules[ip] <= 1
    /\ rules[ip] > 0 => Accounted(ip)
    /\ \A p \in Procs : Deleting(p, ip) => rules[ip] = 0 /\ Accounted(ip)
    /\ \A p, q \in Procs : Deleting(p, ip) /\ Deleting(q, ip) => p = q

Control ==
    /\ \A p \in Procs \ {Engine} : pc[p] \notin {"chain", "jump", "append", "insert"}
    /\ \A p \in Procs : pc[p] \in {"chain", "jump", "append", "insert", "delete"}
                           => cur[p] \in Ips
    /\ EngineBlocks => ~Recorded(cur[Engine])
    /\ pc[Engine] \in {"chain", "jump", "append"} => ~dryRun[Engine]

IInv ==
    /\ TypeOK
    /\ Control
    /\ \A ip \in Ips \ leaked : InStep(ip)

-----------------------------------------------------------------------------
(* Type correctness *)

\* The clean-up's SELECT, and the values an INSERT writes, have the types of TypeOK.
LEMMA Selected ==
    ASSUME TypeOK
    PROVE  /\ ExpiredItems \subseteq Item
           /\ ExpiresAt \in Nat \cup {Null}
<1>1. ExpiredItems \subseteq Item
  BY NullAssumption DEF TypeOK, ExpiredItems, Expired, Recorded, Item, Row
<1>2. ExpiresAt \in Nat \cup {Null}
  BY DurationAssumption DEF TypeOK, ExpiresAt
<1>. QED  BY <1>1, <1>2

LEMMA TypeInit == Init => TypeOK
<1>. SUFFICES ASSUME Init PROVE TypeOK
  OBVIOUS
<1>1. cfgDry \in BOOLEAN /\ dryRun \in [Procs -> BOOLEAN]
  BY Zenon DEF Init
<1>2. chain \in BOOLEAN /\ jump \in BOOLEAN
  BY DEF Init
<1>. QED  BY <1>1, <1>2 DEF Init, Booted, TypeOK, Steps

LEMMA TypeStep == TypeOK /\ [Next]_vars => TypeOK'
<1>. SUFFICES ASSUME TypeOK, [Next]_vars PROVE TypeOK'
  OBVIOUS
<1>. USE DEF TypeOK, fwVars, cfgVars, procVars, Goto, BeginRemoval, Stop, Booted
<1>1. CASE EngineStart
  BY <1>1, Selected DEF EngineStart, Procs, Steps
<1>2. ASSUME NEW ip \in Ips, BlockSelect(ip) PROVE TypeOK'
  BY <1>2 DEF BlockSelect, Steps
<1>3. CASE EnsureChain \/ EnsureJump
  BY <1>3 DEF EnsureChain, EnsureJump, GiveUpBlock, Steps
<1>4. CASE AppendRule
  BY <1>4 DEF AppendRule, GiveUpBlock, Steps
<1>5. CASE InsertRow
  <2>1. [dry |-> dryRun[Engine], expires |-> ExpiresAt] \in Row
    BY Selected DEF Row, Procs
  <2>. QED  BY <1>5, <2>1 DEF InsertRow, GiveUpBlock, Steps
<1>6. ASSUME NEW p \in Procs, RequestStep(p) PROVE TypeOK'
  <2>1. CASE SelectExpired(p)
    BY <2>1, Selected DEF SelectExpired, Steps
  <2>2. ASSUME NEW ip \in Ips, RequestUnblock(p, ip) PROVE TypeOK'
    BY <2>2 DEF RequestUnblock, Steps, Item
  <2>3. ASSUME NEW ips \in SUBSET Ips, RunCli(p, ips) PROVE TypeOK'
    BY <2>3 DEF RunCli, Steps, Item
  <2>. QED  BY <1>6, <2>1, <2>2, <2>3 DEF RequestStep
<1>7. ASSUME NEW p \in Procs, RemovalStep(p) PROVE TypeOK'
  <2>1. ASSUME NEW item \in todo[p], RemoveRule(p, item) PROVE TypeOK'
    BY <2>1 DEF RemoveRule, Steps, Item
  <2>2. ASSUME NEW item \in todo[p], ForgetRow(p, item) PROVE TypeOK'
    BY <2>2 DEF ForgetRow, Steps, Item
  <2>3. CASE DeleteRow(p)
    BY <2>3 DEF DeleteRow, Steps
  <2>4. CASE FinishRemoval(p)
    BY <2>4 DEF FinishRemoval, Steps
  <2>. QED  BY <1>7, <2>1, <2>2, <2>3, <2>4 DEF RemovalStep
<1>8. CASE FaultStep
  <2>1. ASSUME NEW p \in Procs, Abort(p) PROVE TypeOK'
    BY <2>1 DEF Abort, Steps
  <2>2. ASSUME NEW p \in Procs, RestartDashboard(p) PROVE TypeOK'
    BY <2>2 DEF RestartDashboard, Steps
  <2>3. CASE EngineCrash
    BY <2>3 DEF EngineCrash, Steps
  <2>4. CASE Reboot
    BY <2>4 DEF Reboot, Steps
  <2>5. CASE EditConfig
    BY <2>5 DEF EditConfig
  <2>. QED  BY <1>8, <2>1, <2>2, <2>3, <2>4, <2>5 DEF FaultStep
<1>9. CASE Tick
  BY <1>9 DEF Tick
<1>10. CASE UNCHANGED vars
  BY <1>10 DEF vars
<1>. QED
  BY <1>1, <1>2, <1>3, <1>4, <1>5, <1>6, <1>7, <1>8, <1>9, <1>10 DEF Next, BlockStep

\* The table, the rules and the processes' local state always have their types.
THEOREM TypeCorrect == Spec => []TypeOK
BY TypeInit, TypeStep, PTL DEF Spec

-----------------------------------------------------------------------------
(* The inductive invariant holds *)

LEMMA IInvInit == Init => IInv
<1>. SUFFICES ASSUME Init PROVE IInv
  OBVIOUS
<1>1. TypeOK
  BY TypeInit
<1>2. Control
  BY DEF Init, Booted, Control, EngineBlocks, Procs
<1>3. ASSUME NEW ip \in Ips PROVE InStep(ip)
  BY DEF Init, Booted, InStep, Deleting, Procs
<1>. QED  BY <1>1, <1>2, <1>3 DEF IInv

\* Only the engine walks through block_ip, on an address without a row: no other
\* process inserts one.
LEMMA ControlStep == TypeOK /\ Control /\ [Next]_vars => Control'
<1>. SUFFICES ASSUME TypeOK, Control, [Next]_vars PROVE Control'
  OBVIOUS
<1>. USE NullAssumption, ProcsAssumption
     DEF TypeOK, Control, EngineBlocks, Recorded, fwVars, cfgVars, procVars, Goto, BeginRemoval, Stop, Booted
<1>0. Engine \in Procs /\ Maintenance \in Procs
  BY DEF Procs
<1>1. CASE EngineStart
  BY <1>0, <1>1 DEF EngineStart
<1>2. ASSUME NEW ip \in Ips, BlockSelect(ip) PROVE Control'
  BY <1>0, <1>2 DEF BlockSelect, AlreadyBlocked
<1>3. CASE EnsureChain \/ EnsureJump
  BY <1>0, <1>3 DEF EnsureChain, EnsureJump, GiveUpBlock
<1>4. CASE AppendRule
  BY <1>0, <1>4 DEF AppendRule, GiveUpBlock
<1>5. CASE InsertRow
  BY <1>0, <1>5 DEF InsertRow, GiveUpBlock
<1>6. ASSUME NEW p \in Procs, RequestStep(p) PROVE Control'
  <2>1. CASE SelectExpired(p)
    BY <1>0, <2>1 DEF SelectExpired
  <2>2. ASSUME NEW ip \in Ips, RequestUnblock(p, ip) PROVE Control'
    BY <1>0, <2>2 DEF RequestUnblock
  <2>3. ASSUME NEW ips \in SUBSET Ips, RunCli(p, ips) PROVE Control'
    BY <1>0, <2>3 DEF RunCli
  <2>. QED  BY <1>6, <2>1, <2>2, <2>3 DEF RequestStep
<1>7. ASSUME NEW p \in Procs, RemovalStep(p) PROVE Control'
  <2>1. ASSUME NEW item \in todo[p], RemoveRule(p, item) PROVE Control'
    BY <1>0, <2>1 DEF RemoveRule, Item
  <2>2. ASSUME NEW item \in todo[p], ForgetRow(p, item) PROVE Control'
    BY <1>0, <2>2 DEF ForgetRow, Item
  <2>3. CASE DeleteRow(p)
    BY <1>0, <2>3 DEF DeleteRow
  <2>4. CASE FinishRemoval(p)
    BY <1>0, <2>4 DEF FinishRemoval
  <2>. QED  BY <1>7, <2>1, <2>2, <2>3, <2>4 DEF RemovalStep
<1>8. CASE FaultStep
  <2>1. ASSUME NEW p \in Procs, Abort(p) PROVE Control'
    BY <1>0, <2>1 DEF Abort
  <2>2. ASSUME NEW p \in Procs, RestartDashboard(p) PROVE Control'
    BY <1>0, <2>2 DEF RestartDashboard
  <2>3. CASE EngineCrash
    BY <1>0, <2>3 DEF EngineCrash
  <2>4. CASE Reboot
    BY <1>0, <2>4 DEF Reboot
  <2>5. CASE EditConfig
    BY <1>0, <2>5 DEF EditConfig
  <2>. QED  BY <1>8, <2>1, <2>2, <2>3, <2>4, <2>5 DEF FaultStep
<1>9. CASE Tick
  BY <1>9 DEF Tick
<1>10. CASE UNCHANGED vars
  BY <1>10 DEF vars
<1>. QED
  BY <1>1, <1>2, <1>3, <1>4, <1>5, <1>6, <1>7, <1>8, <1>9, <1>10 DEF Next, BlockStep

\* The heart of the argument: each step keeps the row and the rule of every address
\* in step that "leaked" does not name afterwards.
LEMMA InStepStep ==
    ASSUME IInv, [Next]_vars, NEW ip \in Ips \ leaked'
    PROVE  InStep(ip)'
<1>. USE NullAssumption, ProcsAssumption
     DEF IInv, TypeOK, Control, EngineBlocks, InStep, Deleting, Accounted, Appended,
         RecordedLive, Recorded, fwVars, cfgVars, procVars, Goto, BeginRemoval, Stop, Booted
<1>0. Engine \in Procs /\ Maintenance \in Procs
  BY DEF Procs
<1>1. CASE EngineStart
  BY <1>0, <1>1 DEF EngineStart
<1>2. ASSUME NEW x \in Ips, BlockSelect(x) PROVE InStep(ip)'
  BY <1>0, <1>2 DEF BlockSelect, AlreadyBlocked
<1>3. CASE EnsureChain \/ EnsureJump
  BY <1>0, <1>3 DEF EnsureChain, EnsureJump, GiveUpBlock
<1>4. CASE AppendRule
  BY <1>0, <1>4 DEF AppendRule, GiveUpBlock
<1>5. CASE InsertRow
  <2>. DEFINE inserted == [dry |-> dryRun[Engine], expires |-> ExpiresAt]
  <2>1. inserted \in Row /\ inserted.dry = dryRun[Engine]
    BY <1>0, Selected DEF Row
  <2>2. row' = [row EXCEPT ![cur[Engine]] = inserted]
    BY <1>5 DEF InsertRow
  <2>. HIDE DEF inserted
  <2>3. row'[cur[Engine]] # Null /\ row'[cur[Engine]].dry = dryRun[Engine]
    BY <1>0, <1>5, <2>1, <2>2 DEF InsertRow
  <2>4. rules' = rules /\ pc' = [pc EXCEPT ![Engine] = "idle"]
        /\ cur' = [cur EXCEPT ![Engine] = Null] /\ dryRun' = dryRun /\ leaked' = leaked
    BY <1>5 DEF InsertRow, GiveUpBlock
  <2>5. Accounted(ip) => Accounted(ip)'
    <3>1. CASE ip = cur[Engine]
      BY <1>0, <1>5, <2>3, <2>4, <3>1 DEF InsertRow
    <3>2. CASE ip # cur[Engine]
      BY <1>0, <1>5, <2>2, <2>4, <3>2 DEF InsertRow
    <3>. QED  BY <3>1, <3>2
  <2>. QED  BY <1>0, <1>5, <2>4, <2>5 DEF InsertRow
<1>6. ASSUME NEW p \in Procs, RequestStep(p) PROVE InStep(ip)'
  <2>1. CASE SelectExpired(p)
    BY <1>0, <2>1 DEF SelectExpired
  <2>2. ASSUME NEW x \in Ips, RequestUnblock(p, x) PROVE InStep(ip)'
    BY <1>0, <2>2 DEF RequestUnblock
  <2>3. ASSUME NEW ips \in SUBSET Ips, RunCli(p, ips) PROVE InStep(ip)'
    BY <1>0, <2>3 DEF RunCli
  <2>. QED  BY <1>6, <2>1, <2>2, <2>3 DEF RequestStep
<1>7. ASSUME NEW p \in Procs, RemovalStep(p) PROVE InStep(ip)'
  <2>1. ASSUME NEW item \in todo[p], RemoveRule(p, item) PROVE InStep(ip)'
    BY <1>0, <2>1 DEF RemoveRule, Item, NeedsRule
  <2>2. ASSUME NEW item \in todo[p], ForgetRow(p, item) PROVE InStep(ip)'
    BY <1>0, <2>2 DEF ForgetRow, Item, NeedsRule
  <2>3. CASE DeleteRow(p)
    BY <1>0, <2>3 DEF DeleteRow
  <2>4. CASE FinishRemoval(p)
    BY <1>0, <2>4 DEF FinishRemoval
  <2>. QED  BY <1>7, <2>1, <2>2, <2>3, <2>4 DEF RemovalStep
<1>8. CASE FaultStep
  <2>1. ASSUME NEW p \in Procs, Abort(p) PROVE InStep(ip)'
    BY <1>0, <2>1 DEF Abort
  <2>2. ASSUME NEW p \in Procs, RestartDashboard(p) PROVE InStep(ip)'
    BY <1>0, <2>2 DEF RestartDashboard
  <2>3. CASE EngineCrash
    BY <1>0, <2>3 DEF EngineCrash
  <2>4. CASE Reboot
    BY <1>0, <2>4 DEF Reboot
  <2>5. CASE EditConfig
    BY <1>0, <2>5 DEF EditConfig
  <2>. QED  BY <1>8, <2>1, <2>2, <2>3, <2>4, <2>5 DEF FaultStep
<1>9. CASE Tick
  BY <1>9 DEF Tick
<1>10. CASE UNCHANGED vars
  BY <1>10 DEF vars
<1>. QED
  BY <1>1, <1>2, <1>3, <1>4, <1>5, <1>6, <1>7, <1>8, <1>9, <1>10 DEF Next, BlockStep

THEOREM Inductive == Spec => []IInv
<1>1. IInv /\ [Next]_vars => IInv'
  BY TypeStep, ControlStep, InStepStep DEF IInv
<1>. QED  BY IInvInit, <1>1, PTL DEF Spec

\* block_ip's duplicate check is enough, though nothing makes it atomic with -A and
\* INSERT: unless a row and its rule came apart (leaked), an address has at most one
\* DROP rule, whatever processes remove blocks meanwhile.
THEOREM NoDuplicateRuleHolds == Spec => []NoDuplicateRule
<1>1. IInv => NoDuplicateRule
  BY DEF IInv, InStep, NoDuplicateRule
<1>. QED  BY <1>1, Inductive, PTL

\* No interleaving of block_ip with clean-ups and unblocks leaves a DROP rule without
\* the row that would let it expire or be unblocked.
THEOREM NoOrphanRuleHolds == Spec => []NoOrphanRule
<1>1. IInv => NoOrphanRule
  BY DEF IInv, InStep, Accounted, NoOrphanRule
<1>. QED  BY <1>1, Inductive, PTL

-----------------------------------------------------------------------------
(* The chain and the jump into it *)

\* The engine appends a rule only after it has made the chain and the jump, and only
\* a reboot, which ends the engine too, removes them.
Prepared ==
    /\ RulesAreReachable
    /\ pc[Engine] = "jump" => chain
    /\ pc[Engine] = "append" => chain /\ jump

LEMMA PreparedStep == TypeOK /\ Control /\ Prepared /\ [Next]_vars => Prepared'
<1>. SUFFICES ASSUME TypeOK, Control, Prepared, [Next]_vars PROVE Prepared'
  OBVIOUS
<1>. USE ProcsAssumption
     DEF TypeOK, Control, Prepared, RulesAreReachable, fwVars, cfgVars, procVars, Goto, BeginRemoval, Stop, Booted
<1>0. Engine \in Procs /\ Maintenance \in Procs
  BY DEF Procs
<1>1. CASE EngineStart
  BY <1>0, <1>1 DEF EngineStart
<1>2. CASE BlockStep
  BY <1>0, <1>2 DEF BlockStep, BlockSelect, EnsureChain, EnsureJump, AppendRule,
                    InsertRow, GiveUpBlock
<1>3. ASSUME NEW p \in Procs, RequestStep(p) PROVE Prepared'
  BY <1>0, <1>3 DEF RequestStep, SelectExpired, RequestUnblock, RunCli
<1>4. ASSUME NEW p \in Procs, RemovalStep(p) PROVE Prepared'
  <2>1. ASSUME NEW item \in todo[p], RemoveRule(p, item) PROVE Prepared'
    <3>1. \A ip \in Ips : rules'[ip] > 0 => rules[ip] > 0
      BY <2>1 DEF RemoveRule, Item
    <3>. QED  BY <1>0, <2>1, <3>1 DEF RemoveRule
  <2>2. ASSUME NEW item \in todo[p], ForgetRow(p, item) PROVE Prepared'
    BY <1>0, <2>2 DEF ForgetRow
  <2>3. CASE DeleteRow(p) \/ FinishRemoval(p)
    BY <1>0, <2>3 DEF DeleteRow, FinishRemoval
  <2>. QED  BY <1>4, <2>1, <2>2, <2>3 DEF RemovalStep
<1>5. CASE FaultStep
  BY <1>0, <1>5 DEF FaultStep, Abort, RestartDashboard, EngineCrash, Reboot, EditConfig
<1>6. CASE Tick \/ UNCHANGED vars
  BY <1>6 DEF Tick, vars
<1>. QED  BY <1>1, <1>2, <1>3, <1>4, <1>5, <1>6 DEF Next

\* Every DROP rule sits in a chain that INPUT jumps to, also after a reboot has
\* removed both and the engine has made them again.
THEOREM RulesAreReachableHolds == Spec => []RulesAreReachable
<1>1. Init => Prepared
  BY DEF Init, Booted, Prepared, RulesAreReachable, Procs
<1>2. IInv /\ Prepared /\ [Next]_vars => Prepared'
  BY PreparedStep DEF IInv
<1>3. Prepared => RulesAreReachable
  BY DEF Prepared
<1>. QED  BY <1>1, <1>2, <1>3, Inductive, PTL DEF Spec

-----------------------------------------------------------------------------
(* The engine alone: its inductive invariant *)

\* The setting of the properties: nobody unblocks by hand, commands of iptables may fail,
\* and neither the engine nor the host ends. A crash between -D and DELETE, a reboot or a
\* dry run do leave live rows without a rule.
EngineAlone ==
    /\ Dashboard = {} /\ Cli = {}
    /\ Faults \subseteq {"iptables"}

\* No process runs dry, so no row is dry and no row and rule come apart.
NothingDry ==
    /\ ~cfgDry /\ leaked = {}
    /\ \A p \in Procs : ~dryRun[p]
    /\ \A ip \in Ips : Recorded(ip) => ~row[ip].dry

\* The maintenance thread does not exist until the start-up clean-up is over: there is
\* one remover at a time.
OneRemover ==
    /\ pc[Engine] = "down" \/ op[Engine] = "cleanup" => pc[Maintenance] = "down"
    /\ \A p \in Procs :
          /\ todo[p] # {} => pc[p] \in {"next", "delete"}
          /\ pc[p] \in {"next", "delete"} => op[p] = "cleanup"

\* So what its SELECT returned stays true until it comes to it: the rows of its blocks are
\* there and expired, and those of them that it deletes are not listed any more.
ItemsAreDue ==
    \A p \in Procs :
        /\ \A item \in todo[p] : ~item.dry /\ Expired(item.ip) /\ ~Deleting(p, item.ip)
        /\ pc[p] = "delete" => Expired(cur[p])

\* The rule the engine has appended waits for its row.
RuleWaits == \A ip \in Ips : Appended(ip) => rules[ip] > 0

ServiceInv == IInv /\ NothingDry /\ OneRemover /\ ItemsAreDue /\ RuleWaits /\ RowHasRule

\* What can happen in this setting.
LEMMA AloneSteps ==
    ASSUME EngineAlone, Next
    PROVE  \/ EngineStart \/ BlockStep \/ SelectExpired(Maintenance)
           \/ RemovalStep(Engine) \/ RemovalStep(Maintenance) \/ Tick
<1>1. Procs = {Engine, Maintenance}
  BY DEF EngineAlone, Procs
<1>2. ~FaultStep
  BY DEF EngineAlone, FaultStep, Abort, RestartDashboard, EngineCrash, Reboot, EditConfig
<1>3. \A p \in Procs : RequestStep(p) => SelectExpired(Maintenance)
  BY <1>1, ProcsAssumption
     DEF EngineAlone, RequestStep, SelectExpired, RequestUnblock, RunCli
<1>. QED  BY <1>1, <1>2, <1>3 DEF Next

LEMMA Alone ==
    ASSUME EngineAlone
    PROVE  /\ Procs = {Engine, Maintenance} /\ Engine # Maintenance
           /\ Engine \in Procs /\ Maintenance \in Procs
  BY ProcsAssumption DEF EngineAlone, Procs

LEMMA ServiceInit ==
    ASSUME EngineAlone, Init
    PROVE  ServiceInv
<1>1. IInv
  BY IInvInit
<1>2. cfgDry = FALSE /\ \A p \in Procs : ~dryRun[p]
  BY DEF EngineAlone, Init
<1>3. NothingDry
  BY <1>2 DEF Init, NothingDry, Recorded
<1>4. OneRemover /\ ItemsAreDue /\ RuleWaits
  BY Alone DEF Init, Booted, OneRemover, ItemsAreDue, RuleWaits, Appended, Deleting
<1>5. RowHasRule
  BY DEF Init, RowHasRule, RecordedLive, Recorded
<1>. QED  BY <1>1, <1>3, <1>4, <1>5 DEF ServiceInv

\* The row that block_ip inserts is live, and carries ExpiresAt.
LEMMA Inserted ==
    ASSUME ServiceInv, EngineAlone, InsertRow
    PROVE  /\ cur[Engine] \in Ips /\ row'[cur[Engine]] \in Row
           /\ ~row'[cur[Engine]].dry /\ row'[cur[Engine]].expires = ExpiresAt
           /\ row'[cur[Engine]] # Null
           /\ \A ip \in Ips \ {cur[Engine]} : row'[ip] = row[ip]
           /\ row[cur[Engine]] = Null /\ rules[cur[Engine]] = 1
<1>. DEFINE new == [dry |-> dryRun[Engine], expires |-> ExpiresAt]
<1>. USE Alone DEF ServiceInv, IInv
<1>1. new \in Row /\ new.dry = FALSE /\ new.expires = ExpiresAt
  BY Selected DEF Row, NothingDry, TypeOK
<1>2. cur[Engine] \in Ips /\ row[cur[Engine]] = Null /\ Appended(cur[Engine])
  BY DEF InsertRow, Control, EngineBlocks, Recorded, NothingDry, Appended
<1>3. row' = [row EXCEPT ![cur[Engine]] = new]
  BY DEF InsertRow
<1>4. rules[cur[Engine]] = 1
  BY <1>2 DEF NothingDry, InStep, RuleWaits, TypeOK
<1>. HIDE DEF new
<1>. QED  BY <1>1, <1>2, <1>3, <1>4, NullAssumption DEF TypeOK

LEMMA NothingDryStep ==
    ASSUME EngineAlone, ServiceInv, [Next]_vars
    PROVE  NothingDry'
<1>. USE Alone DEF NothingDry, ServiceInv, IInv, TypeOK, Recorded, fwVars, cfgVars, procVars
<1>1. CASE EngineStart
  BY <1>1 DEF EngineStart, BeginRemoval
<1>2. CASE BlockStep
  <2>1. CASE InsertRow
    BY <2>1, Inserted DEF InsertRow
  <2>. QED  BY <1>2, <2>1 DEF BlockStep, BlockSelect, EnsureChain, EnsureJump, AppendRule
<1>3. CASE SelectExpired(Maintenance)
  BY <1>3 DEF SelectExpired, BeginRemoval
<1>4. ASSUME NEW p \in Procs, RemovalStep(p) PROVE NothingDry'
  <2>1. \A item \in todo[p] : NeedsRule(p, item)
    BY DEF ItemsAreDue, NeedsRule
  <2>. QED  BY <1>4, <2>1 DEF RemovalStep, RemoveRule, ForgetRow, DeleteRow, FinishRemoval
<1>5. CASE Tick \/ UNCHANGED vars
  BY <1>5 DEF Tick, vars
<1>. QED  BY <1>1, <1>2, <1>3, <1>4, <1>5, AloneSteps

LEMMA OneRemoverStep ==
    ASSUME EngineAlone, ServiceInv, [Next]_vars
    PROVE  OneRemover'
<1>. USE Alone DEF OneRemover, ServiceInv, IInv, TypeOK, Goto, fwVars, cfgVars, procVars
<1>1. CASE EngineStart
  BY <1>1 DEF EngineStart, BeginRemoval
<1>2. CASE BlockStep
  BY <1>2 DEF BlockStep, BlockSelect, EnsureChain, EnsureJump, AppendRule, InsertRow, GiveUpBlock
<1>3. CASE SelectExpired(Maintenance)
  BY <1>3 DEF SelectExpired, BeginRemoval
<1>4. ASSUME NEW p \in Procs, RemovalStep(p) PROVE OneRemover'
  <2>1. ASSUME NEW item \in todo[p], RemoveRule(p, item) PROVE OneRemover'
    BY <2>1 DEF RemoveRule
  <2>2. ASSUME NEW item \in todo[p], ForgetRow(p, item) PROVE OneRemover'
    BY <2>2 DEF ForgetRow
  <2>3. CASE DeleteRow(p)
    BY <2>3 DEF DeleteRow
  <2>4. CASE FinishRemoval(p)
    BY <2>4 DEF FinishRemoval
  <2>. QED  BY <1>4, <2>1, <2>2, <2>3, <2>4 DEF RemovalStep
<1>5. CASE Tick \/ UNCHANGED vars
  BY <1>5 DEF Tick, vars
<1>. QED  BY <1>1, <1>2, <1>3, <1>4, <1>5, AloneSteps

\* Nothing but the remover touches a row that it has listed, and time only confirms that
\* it has expired.
LEMMA ItemsStep ==
    ASSUME EngineAlone, ServiceInv, [Next]_vars
    PROVE  ItemsAreDue'
<1>. USE Alone DEF ServiceInv, IInv, TypeOK, Goto, fwVars, cfgVars, procVars
<1>1. \A item \in ExpiredItems : item.ip \in Ips /\ ~item.dry /\ Expired(item.ip)
  BY DEF ExpiredItems, NothingDry, Expired
<1>2. ASSUME NEW p \in Procs, \A q \in Procs : pc[q] # "delete" /\ (q # p => todo[q] = {}),
             BeginRemoval(p, "cleanup", ExpiredItems), UNCHANGED <<row, now>>
      PROVE  ItemsAreDue'
  BY <1>1, <1>2 DEF BeginRemoval, ItemsAreDue, Expired, Recorded, Deleting
<1>3. CASE EngineStart
  BY <1>2, <1>3 DEF EngineStart, OneRemover
<1>4. CASE BlockStep
  <2>1. todo[Engine] = {} /\ pc'[Engine] # "delete" /\ UNCHANGED todo
        /\ pc'[Maintenance] = pc[Maintenance] /\ cur'[Maintenance] = cur[Maintenance] /\ now' = now
    BY <1>4 DEF BlockStep, BlockSelect, EnsureChain, EnsureJump, AppendRule, InsertRow,
                GiveUpBlock, OneRemover
  <2>2. \A ip \in Ips : Expired(ip) => Expired(ip)'
    <3>1. CASE InsertRow
      BY <2>1, <3>1, Inserted DEF Expired, Recorded
    <3>2. CASE UNCHANGED row
      BY <2>1, <3>2 DEF Expired, Recorded
    <3>. QED  BY <1>4, <3>1, <3>2
              DEF BlockStep, BlockSelect, EnsureChain, EnsureJump, AppendRule
  <2>3. \A item \in todo[Maintenance] : item.ip \in Ips
    BY DEF Item
  <2>4. pc[Maintenance] = "delete" => cur[Maintenance] \in Ips
    BY DEF Control
  <2>. QED  BY <2>1, <2>2, <2>3, <2>4 DEF ItemsAreDue, Deleting
<1>5. CASE SelectExpired(Maintenance)
  <2>1. pc[Engine] # "delete" /\ todo[Engine] = {}
    BY <1>5 DEF SelectExpired, OneRemover
  <2>. QED  BY <1>2, <1>5, <2>1 DEF SelectExpired
<1>6. ASSUME NEW p \in Procs, RemovalStep(p) PROVE ItemsAreDue'
  <2>0. PICK q \in Procs : q # p /\ Procs = {p, q}
    OBVIOUS
  <2>1. pc[p] \in {"next", "delete"}
    BY <1>6 DEF RemovalStep, RemoveRule, ForgetRow, DeleteRow, FinishRemoval
  <2>2. todo[q] = {} /\ pc[q] # "delete"
    BY <2>0, <2>1 DEF OneRemover
  <2>3. \A item \in todo[p] : NeedsRule(p, item) /\ item.ip \in Ips
    BY DEF ItemsAreDue, NeedsRule, NothingDry, Item
  <2>4. ASSUME NEW item \in todo[p], RemoveRule(p, item) PROVE ItemsAreDue'
    <3>1. /\ todo' = [todo EXCEPT ![p] = @ \ {item}] /\ UNCHANGED <<row, now>>
          /\ \/ cur' = [cur EXCEPT ![p] = item.ip] /\ pc' = [pc EXCEPT ![p] = "delete"]
             \/ UNCHANGED <<cur, pc>>
      BY <2>4 DEF RemoveRule
    <3>2. \A i \in todo[p] \ {item} : i.ip # item.ip
      BY DEF ItemsAreDue, Item
    <3>. QED  BY <2>0, <2>2, <2>3, <3>1, <3>2 DEF ItemsAreDue, Deleting, Expired, Recorded
  <2>5. ASSUME NEW item \in todo[p], ForgetRow(p, item) PROVE FALSE
    BY <2>3, <2>5 DEF ForgetRow
  <2>6. CASE DeleteRow(p)
    BY <2>0, <2>2, <2>3, <2>6
       DEF DeleteRow, ItemsAreDue, Deleting, Expired, Recorded, Control
  <2>7. CASE FinishRemoval(p)
    BY <2>0, <2>2, <2>7 DEF FinishRemoval, ItemsAreDue, Deleting, Expired, Recorded
  <2>. QED  BY <1>6, <2>4, <2>5, <2>6, <2>7 DEF RemovalStep
<1>7. CASE Tick
  <2>1. \A ip \in Ips : Expired(ip) => Expired(ip)'
    BY <1>7, NullAssumption DEF Tick, Expired, Recorded, Row
  <2>2. \A r \in Procs : /\ \A item \in todo[r] : item.ip \in Ips
                         /\ pc[r] = "delete" => cur[r] \in Ips
    BY DEF Item, Control
  <2>. QED  BY <1>7, <2>1, <2>2 DEF Tick, ItemsAreDue, Deleting
<1>8. CASE UNCHANGED vars
  BY <1>8 DEF vars, ItemsAreDue, Deleting, Expired, Recorded
<1>. QED  BY <1>3, <1>4, <1>5, <1>6, <1>7, <1>8, AloneSteps

\* A remover and the engine in block_ip never work on the same address: one needs its row
\* there, the other needs it away.
LEMMA RemoverLeavesEngine ==
    ASSUME EngineAlone, ServiceInv, NEW p \in Procs, NEW item \in todo[p]
    PROVE  /\ item.ip \in Ips /\ RecordedLive(item.ip) /\ Expired(item.ip)
           /\ EngineBlocks => item.ip # cur[Engine]
           /\ NeedsRule(p, item)
  BY DEF ServiceInv, IInv, TypeOK, Item, ItemsAreDue, NothingDry, Expired, RecordedLive,
         EngineBlocks, Control, NeedsRule

LEMMA RuleWaitsStep ==
    ASSUME EngineAlone, ServiceInv, [Next]_vars
    PROVE  RuleWaits'
<1>. USE Alone DEF ServiceInv, IInv, TypeOK, RuleWaits, Appended, Goto, fwVars, cfgVars, procVars
<1>1. CASE EngineStart
  BY <1>1 DEF EngineStart, BeginRemoval
<1>2. CASE BlockStep
  BY <1>2 DEF BlockStep, BlockSelect, EnsureChain, EnsureJump, AppendRule, InsertRow,
              GiveUpBlock, Control
<1>3. CASE SelectExpired(Maintenance)
  BY <1>3 DEF SelectExpired, BeginRemoval
<1>4. ASSUME NEW p \in Procs, RemovalStep(p) PROVE RuleWaits'
  <2>1. ASSUME NEW item \in todo[p], RemoveRule(p, item) PROVE RuleWaits'
    <3>1. EngineBlocks => item.ip # cur[Engine]
      BY RemoverLeavesEngine
    <3>. QED  BY <2>1, <3>1 DEF RemoveRule, EngineBlocks
  <2>2. ASSUME NEW item \in todo[p], ForgetRow(p, item) PROVE RuleWaits'
    BY <2>2 DEF ForgetRow
  <2>3. CASE DeleteRow(p) \/ FinishRemoval(p)
    BY <2>3 DEF DeleteRow, FinishRemoval
  <2>. QED  BY <1>4, <2>1, <2>2, <2>3 DEF RemovalStep
<1>5. CASE Tick \/ UNCHANGED vars
  BY <1>5 DEF Tick, vars
<1>. QED  BY <1>1, <1>2, <1>3, <1>4, <1>5, AloneSteps

LEMMA RowHasRuleStep ==
    ASSUME EngineAlone, ServiceInv, [Next]_vars
    PROVE  RowHasRule'
<1>. SUFFICES ASSUME NEW ip \in Ips, RecordedLive(ip)'
              PROVE  \/ rules'[ip] = 1
                     \/ \E p \in {Engine, Maintenance} : pc'[p] = "delete" /\ cur'[p] = ip
  BY DEF RowHasRule
<1>. USE Alone DEF ServiceInv, IInv, TypeOK, RowHasRule, RecordedLive, Recorded, Goto, fwVars,
                   cfgVars, procVars
<1>1. CASE EngineStart
  BY <1>1 DEF EngineStart, BeginRemoval, OneRemover
<1>2. CASE BlockStep
  <2>1. CASE InsertRow
    BY <2>1, Inserted DEF InsertRow, GiveUpBlock
  <2>2. CASE AppendRule
    BY <2>2 DEF AppendRule, GiveUpBlock, Control, EngineBlocks
  <2>. QED  BY <1>2, <2>1, <2>2 DEF BlockStep, BlockSelect, EnsureChain, EnsureJump, GiveUpBlock
<1>3. CASE SelectExpired(Maintenance)
  BY <1>3 DEF SelectExpired, BeginRemoval
<1>4. ASSUME NEW p \in Procs, RemovalStep(p) PROVE rules'[ip] = 1 \/ \E q \in {Engine, Maintenance} : pc'[q] = "delete" /\ cur'[q] = ip
  <2>1. ASSUME NEW item \in todo[p], RemoveRule(p, item)
        PROVE  rules'[ip] = 1 \/ \E q \in {Engine, Maintenance} : pc'[q] = "delete" /\ cur'[q] = ip
    BY <2>1 DEF RemoveRule
  <2>2. ASSUME NEW item \in todo[p], ForgetRow(p, item) PROVE FALSE
    BY <2>2, RemoverLeavesEngine DEF ForgetRow
  <2>3. CASE DeleteRow(p)
    BY <2>3 DEF DeleteRow, Control
  <2>4. CASE FinishRemoval(p)
    BY <2>4, ProcsAssumption DEF FinishRemoval, OneRemover
  <2>. QED  BY <1>4, <2>1, <2>2, <2>3, <2>4 DEF RemovalStep
<1>5. CASE Tick \/ UNCHANGED vars
  BY <1>5 DEF Tick, vars
<1>. QED  BY <1>1, <1>2, <1>3, <1>4, <1>5, AloneSteps

THEOREM ServiceInductive == ASSUME EngineAlone PROVE Spec => []ServiceInv
<1>1. Init => ServiceInv
  BY ServiceInit
<1>2. IInv /\ [Next]_vars => IInv'
  BY TypeStep, ControlStep, InStepStep DEF IInv
<1>3. ServiceInv /\ [Next]_vars => ServiceInv'
  BY <1>2, NothingDryStep, OneRemoverStep, ItemsStep, RuleWaitsStep, RowHasRuleStep DEF ServiceInv
<1>. QED  BY <1>1, <1>3, PTL DEF Spec

\* block_ip trusts the table and never looks at the chain again (firewall.py:78): as long
\* as the engine is alone and lives, it may. A live row has its DROP rule, exactly one,
\* unless the clean-up is between -D and DELETE, also when iptables commands fail.
THEOREM RowHasRuleHolds == ASSUME EngineAlone PROVE Spec => []RowHasRule
<1>1. ServiceInv => RowHasRule
  BY DEF ServiceInv
<1>. QED  BY <1>1, ServiceInductive, PTL

-----------------------------------------------------------------------------
(* Refinement *)

\* TimedBlock without its fairness.
PromiseIsSafe == Promise!Init /\ [][Promise!Next]_(Promise!vars)

UntilOf(ip) == IF ip \in Banned THEN row[ip].expires ELSE Null

\* A step that changes neither the rules nor the live rows is a stutter of TimedBlock.
LEMMA NothingBanned ==
    ASSUME UNCHANGED <<row, rules, now>>
    PROVE  UNCHANGED Promise!vars
  BY DEF Promise!vars, Banned, RecordedLive, Recorded

LEMMA InsertBans ==
    ASSUME EngineAlone, Duration # 0, ServiceInv, InsertRow
    PROVE  Promise!Next
<1>0. PICK ip \in Ips : ip = cur[Engine]
  BY Inserted
<1>1. /\ ip \in Ips /\ row'[ip] \in Row /\ ~row'[ip].dry /\ row'[ip].expires = ExpiresAt
      /\ row'[ip] # Null /\ \A x \in Ips \ {ip} : row'[x] = row[x]
      /\ row[ip] = Null /\ rules[ip] = 1 /\ rules' = rules /\ now' = now
  BY <1>0, Inserted DEF InsertRow
<1>2. ip \notin Banned /\ Banned' = Banned \cup {ip}
  BY <1>1 DEF Banned, RecordedLive, Recorded
<1>3. ExpiresAt = IF Duration = Null THEN Null ELSE now + Duration
  BY NullAssumption DEF ExpiresAt
<1>4. [x \in Ips |-> UntilOf(x)]' = [[x \in Ips |-> UntilOf(x)] EXCEPT ![ip] = ExpiresAt]
  BY <1>1, <1>2 DEF UntilOf
<1>5. Promise!Ban(ip)
  BY <1>1, <1>2, <1>3, <1>4 DEF Promise!Ban, UntilOf
<1>. QED  BY <1>5 DEF Promise!Next

LEMMA RemovalLifts ==
    ASSUME EngineAlone, ServiceInv, NEW p \in Procs, NEW item \in todo[p], RemoveRule(p, item)
    PROVE  Promise!Next \/ UNCHANGED Promise!vars
<1>. DEFINE ip == item.ip
<1>1. ip \in Ips /\ RecordedLive(ip) /\ Expired(ip) /\ row' = row /\ now' = now
  BY RemoverLeavesEngine DEF RemoveRule
<1>. HIDE DEF ip
<1>2. CASE UNCHANGED rules
  BY <1>1, <1>2, NothingBanned
<1>3. CASE rules[ip] > 0 /\ rules' = [rules EXCEPT ![ip] = @ - 1]
  <2>1. rules[ip] = 1 /\ rules \in [Ips -> Nat]
    BY <1>1, <1>3 DEF ServiceInv, IInv, InStep, NothingDry, TypeOK
  <2>2. ip \in Banned /\ Banned' = Banned \ {ip}
    BY <1>1, <1>3, <2>1 DEF Banned, RecordedLive, Recorded
  <2>3. [x \in Ips |-> UntilOf(x)]' = [[x \in Ips |-> UntilOf(x)] EXCEPT ![ip] = Null]
    BY <1>1, <2>2 DEF UntilOf
  <2>4. Promise!Lift(ip)
    BY <1>1, <2>2, <2>3 DEF Promise!Lift, Promise!Due, UntilOf, Expired
  <2>. QED  BY <1>1, <2>4 DEF Promise!Next
<1>. QED  BY <1>2, <1>3 DEF RemoveRule, ip

LEMMA StepKeepsPromise ==
    ASSUME EngineAlone, Duration # 0, ServiceInv, [Next]_vars
    PROVE  [Promise!Next]_(Promise!vars)
<1>. USE Alone DEF fwVars, cfgVars, procVars
<1>1. CASE EngineStart \/ SelectExpired(Maintenance) \/ UNCHANGED vars
  BY <1>1, NothingBanned DEF EngineStart, SelectExpired, vars
<1>2. CASE BlockStep
  <2>1. CASE AppendRule
    <3>1. /\ UNCHANGED <<row, now>> /\ cur[Engine] \in Ips /\ ~Recorded(cur[Engine])
          /\ \A x \in Ips \ {cur[Engine]} : rules'[x] = rules[x]
      BY <2>1 DEF AppendRule, ServiceInv, IInv, Control, EngineBlocks, TypeOK
    <3>. QED  BY <3>1 DEF Promise!vars, Banned, RecordedLive, Recorded
  <2>2. CASE InsertRow
    BY <2>2, InsertBans
  <2>. QED  BY <1>2, <2>1, <2>2, NothingBanned DEF BlockStep, BlockSelect, EnsureChain, EnsureJump
<1>3. ASSUME NEW p \in Procs, RemovalStep(p) PROVE [Promise!Next]_(Promise!vars)
  <2>1. ASSUME NEW item \in todo[p], RemoveRule(p, item) PROVE [Promise!Next]_(Promise!vars)
    BY <2>1, RemovalLifts
  <2>2. ASSUME NEW item \in todo[p], ForgetRow(p, item) PROVE FALSE
    BY <2>2, RemoverLeavesEngine DEF ForgetRow
  <2>3. CASE DeleteRow(p)
    <3>1. cur[p] \in Ips /\ rules[cur[p]] = 0
      BY <2>3 DEF DeleteRow, ServiceInv, IInv, Control, InStep, Deleting, NothingDry
    <3>2. UNCHANGED <<rules, now>> /\ \A x \in Ips \ {cur[p]} : row'[x] = row[x]
      BY <2>3, <3>1 DEF DeleteRow, ServiceInv, IInv, TypeOK
    <3>. QED  BY <3>1, <3>2 DEF Promise!vars, Banned, RecordedLive, Recorded
  <2>4. CASE FinishRemoval(p)
    BY <2>4, NothingBanned DEF FinishRemoval
  <2>. QED  BY <1>3, <2>1, <2>2, <2>3, <2>4 DEF RemovalStep
<1>4. CASE Tick
  <2>1. Promise!Tick
    BY <1>4 DEF Tick, Promise!Tick, Banned, RecordedLive, Recorded
  <2>. QED  BY <2>1 DEF Promise!Next
<1>. QED  BY <1>1, <1>2, <1>3, <1>4, AloneSteps

\* The life of a block, whatever the interleaving of packets, clean-ups and failing
\* commands: an address is banned in one step, by the INSERT that follows the rule, for
\* block_duration_seconds from then; no ban is lifted before its time or by anything but
\* a clean-up, and none without a duration ever is. A duration of 0 is left out: the code
\* takes it for None (firewall.py:94), TimedBlock for a ban that is over at once.
THEOREM PromiseKept == ASSUME EngineAlone, Duration # 0 PROVE Spec => PromiseIsSafe
<1>1. Init => Promise!Init
  BY DEF Init, Promise!Init, Banned, RecordedLive, Recorded
<1>2. ServiceInv /\ [Next]_vars => [Promise!Next]_(Promise!vars)
  BY StepKeepsPromise
<1>. QED  BY <1>1, <1>2, ServiceInductive, PTL DEF Spec, PromiseIsSafe
=============================================================================
