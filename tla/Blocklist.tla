------------------------------ MODULE Blocklist ------------------------------
(***************************************************************************)
(* The persisted blocklist and the iptables rules it stands for            *)
(* (src/firewall.py), driven by every process that shares them:            *)
(*                                                                         *)
(*   Engine       main.py --mode detect: the start-up clean-up and, for    *)
(*                each hostile packet, block_ip                            *)
(*   Maintenance  the engine's block-maintenance thread                    *)
(*   Dashboard    request threads of app.py: GET /api/blocklist cleans up, *)
(*                POST .../unblock unblocks                                *)
(*   Cli          runs of blocklist.py (--unblock, --clear-all)            *)
(*                                                                         *)
(* Nothing orders these processes: SQLite runs in autocommit mode, so one  *)
(* SQL statement, or one iptables command, is one atomic step here, and    *)
(* everything the code does between two of them is part of one of them.    *)
(***************************************************************************)
EXTENDS Integers

CONSTANTS
    Ips,            \* the source addresses packets come from
    Engine,         \* the engine's main thread
    Maintenance,    \* the engine's block-maintenance thread
    Dashboard,      \* request threads of the dashboard's workers
    Cli,            \* runs of blocklist.py
    Null,           \* SQL's NULL and Python's None
    Duration,       \* block_duration_seconds of config.yml: a number or Null
    MaxTime,        \* bound on the clock
    MaxRules,       \* bound on the duplicates of one rule
    Faults          \* which of the faults below may happen

Procs == {Engine, Maintenance} \cup Dashboard \cup Cli

\* iptables: a command fails   abort: a statement raises an exception
\* crash: the engine, or a dashboard worker, dies   reboot: the host restarts
\* config: the operator flips dry_run in config.yml
FaultKinds == {"iptables", "abort", "crash", "reboot", "config"}

ASSUME ProcsAssumption ==
    /\ Engine # Maintenance
    /\ {Engine, Maintenance} \cap (Dashboard \cup Cli) = {}
    /\ Dashboard \cap Cli = {}

ASSUME DurationAssumption == Duration \in Nat \cup {Null}

ASSUME BoundsAssumption == MaxTime \in Nat /\ MaxRules \in Nat \ {0, 1}

ASSUME FaultsAssumption == Faults \subseteq FaultKinds

Row == [dry : BOOLEAN, expires : Nat \cup {Null}]

ASSUME NullAssumption == Null \notin Ips \cup Nat \cup Row

VARIABLES
    row,        \* blocked_ips: the row of each address, or Null
    rules,      \* how many DROP rules for each address ACF_BLOCK holds
    chain,      \* the chain ACF_BLOCK exists
    jump,       \* INPUT jumps to it
    now,        \* time.time()
    cfgDry,     \* dry_run as config.yml has it
    dryRun,     \* dry_run as each process read it
    pc,         \* what each process does next
    op,         \* why a process is removing blocks
    todo,       \* the blocks it still has to remove
    cur,        \* the address it is working on
    leaked      \* history: addresses whose live row and rule went apart

fwVars == <<row, rules, chain, jump>>
cfgVars == <<cfgDry, dryRun>>
procVars == <<pc, op, todo, cur>>
vars == <<fwVars, now, cfgVars, procVars, leaked>>

\* A block to remove: dry is the dry_run column a clean-up read. unblock_ip never
\* reads it, so its items carry FALSE.
Item == [ip : Ips, dry : BOOLEAN]

Steps == {"down", "idle", "next", "delete", "chain", "jump", "append", "insert"}

TypeOK ==
    /\ row \in [Ips -> Row \cup {Null}]
    /\ rules \in [Ips -> Nat]
    /\ chain \in BOOLEAN /\ jump \in BOOLEAN
    /\ now \in Nat
    /\ cfgDry \in BOOLEAN /\ dryRun \in [Procs -> BOOLEAN]
    /\ pc \in [Procs -> Steps]
    /\ op \in [Procs -> {"none", "cleanup", "unblock"}]
    /\ todo \in [Procs -> SUBSET Item]
    /\ cur \in [Procs -> Ips \cup {Null}]
    /\ leaked \subseteq Ips

-----------------------------------------------------------------------------
(* What the table says *)

Recorded(ip) == row[ip] # Null

RecordedLive(ip) == Recorded(ip) /\ ~row[ip].dry

Expired(ip) == Recorded(ip) /\ row[ip].expires # Null /\ row[ip].expires <= now

AlreadyBlockedUnexpired(ip) ==   \* mutant: the check also asks expires_at > now
    Recorded(ip) /\ ~Expired(ip)

\* block_ip's SELECT 1: an expired row counts until it is deleted.
AlreadyBlocked(ip) == Recorded(ip)

ExpiredDryItems ==   \* mutant: the SELECT also asks for dry_run
    [ip : {ip \in Ips : Expired(ip) /\ row[ip].dry}, dry : {TRUE}]

TimedItems ==   \* mutant: the SELECT forgets expires_at <= now
    {[ip |-> i, dry |-> row[i].dry] :
       i \in {j \in Ips : Recorded(j) /\ row[j].expires # Null}}

\* The result of the clean-up's SELECT.
ExpiredItems == {[ip |-> i, dry |-> row[i].dry] : i \in {j \in Ips : Expired(j)}}

ExpiresAtNegated ==   \* mutant: the sign of the duration is wrong
    IF Duration \in {0, Null} THEN Null ELSE now - Duration

\* expires_at = blocked_at + duration_seconds if duration_seconds else None: 0 is
\* falsy in Python, so it means a permanent block as None does.
ExpiresAt == IF Duration \in {0, Null} THEN Null ELSE now + Duration

Goto(p, step) == pc' = [pc EXCEPT ![p] = step]

-----------------------------------------------------------------------------
(* Start, and the database work that removes blocks *)

Booted == [p \in Procs |-> IF p \in {Engine, Maintenance} THEN "down" ELSE "idle"]

\* The host has booted, nothing has run yet and the table is empty.
Init ==
    /\ row = [ip \in Ips |-> Null]
    /\ rules = [ip \in Ips |-> 0]
    /\ chain = FALSE /\ jump = FALSE
    /\ now = 0
    /\ cfgDry \in (IF "config" \in Faults THEN BOOLEAN ELSE {FALSE})
    /\ dryRun = [p \in Procs |-> cfgDry]
    /\ pc = Booted
    /\ op = [p \in Procs |-> "none"]
    /\ todo = [p \in Procs |-> {}]
    /\ cur = [p \in Procs |-> Null]
    /\ leaked = {}

BeginRemoval(p, why, items) ==
    /\ Goto(p, "next")
    /\ op' = [op EXCEPT ![p] = why]
    /\ todo' = [todo EXCEPT ![p] = items]
    /\ UNCHANGED cur

\* run_detect_mode: load the configuration and run the start-up clean-up's SELECT.
EngineStart ==
    /\ pc[Engine] = "down"
    /\ dryRun' = [dryRun EXCEPT ![Engine] = cfgDry, ![Maintenance] = cfgDry]
    /\ BeginRemoval(Engine, "cleanup", ExpiredItems)
    /\ UNCHANGED <<fwVars, now, cfgDry, leaked>>

\* A maintenance pass, or GET /api/blocklist: the SELECT of cleanup_expired_blocks.
\* A pass that finds nothing changes nothing.
SelectExpired(p) ==
    /\ p \in {Maintenance} \cup Dashboard
    /\ pc[p] = "idle" /\ ExpiredItems # {}
    /\ BeginRemoval(p, "cleanup", ExpiredItems)
    /\ UNCHANGED <<fwVars, now, cfgVars, leaked>>

\* POST /api/blocklist/<ip>/unblock: the address must have a row.
RequestUnblock(p, ip) ==
    /\ p \in Dashboard
    /\ pc[p] = "idle" /\ Recorded(ip)
    /\ BeginRemoval(p, "unblock", [ip : {ip}, dry : {FALSE}])
    /\ UNCHANGED <<fwVars, now, cfgVars, leaked>>

\* blocklist.py, which loads config.yml: --unblock takes any address, --clear-all
\* every row its SELECT returns.
RunCli(p, ips) ==
    /\ p \in Cli
    /\ pc[p] = "idle"
    /\ ips \in {{ip} : ip \in Ips} \cup {{ip \in Ips : Recorded(ip)}}
    /\ dryRun' = [dryRun EXCEPT ![p] = cfgDry]
    /\ BeginRemoval(p, "unblock", [ip : ips, dry : {FALSE}])
    /\ UNCHANGED <<fwVars, now, cfgDry, leaked>>

\* if not dry_run (and not row_dry_run, in a clean-up): is there a rule to remove?
NeedsRule(p, item) == ~dryRun[p] /\ ~item.dry

RemoveRuleUnchecked(p, item) ==  \* mutant: the return code of -D is not looked at
    /\ pc[p] = "next" /\ item \in todo[p] /\ NeedsRule(p, item)
    /\ todo' = [todo EXCEPT ![p] = @ \ {item}]
    /\ \/ rules[item.ip] > 0 /\ rules' = [rules EXCEPT ![item.ip] = @ - 1]
       \/ (rules[item.ip] = 0 \/ "iptables" \in Faults) /\ rules' = rules
    /\ cur' = [cur EXCEPT ![p] = item.ip]
    /\ Goto(p, "delete")
    /\ UNCHANGED <<row, chain, jump, now, cfgVars, op, leaked>>

\* iptables -D ACF_BLOCK -s ip -j DROP. It fails when there is no such rule; then the
\* row stays, and the loop goes on with the next block (clean-up: continue,
\* unblock_ip: return).
RemoveRule(p, item) ==
    /\ pc[p] = "next" /\ item \in todo[p] /\ NeedsRule(p, item)
    /\ todo' = [todo EXCEPT ![p] = @ \ {item}]
    /\ \/ /\ rules[item.ip] > 0
          /\ rules' = [rules EXCEPT ![item.ip] = @ - 1]
          /\ cur' = [cur EXCEPT ![p] = item.ip]
          /\ Goto(p, "delete")
       \/ /\ rules[item.ip] = 0 \/ "iptables" \in Faults
          /\ UNCHANGED <<rules, cur, pc>>
    /\ UNCHANGED <<row, chain, jump, now, cfgVars, op, leaked>>

\* DELETE FROM blocked_ips WHERE ip = ?, after a successful -D. It deletes whatever
\* row the address has by now, not the row that was selected.
DeleteRow(p) ==
    /\ pc[p] = "delete"
    /\ row' = [row EXCEPT ![cur[p]] = Null]
    /\ Goto(p, "next")
    /\ UNCHANGED <<rules, chain, jump, now, cfgVars, op, todo, cur, leaked>>

\* The same DELETE when no iptables command comes first. A live row deleted this way
\* leaves its rule behind: the process runs dry, or the row it selected was dry and
\* has been replaced since.
ForgetRow(p, item) ==
    /\ pc[p] = "next" /\ item \in todo[p] /\ ~NeedsRule(p, item)
    /\ todo' = [todo EXCEPT ![p] = @ \ {item}]
    /\ cur' = [cur EXCEPT ![p] = item.ip]
    /\ row' = [row EXCEPT ![item.ip] = Null]
    /\ leaked' = IF RecordedLive(item.ip) THEN leaked \cup {item.ip} ELSE leaked
    /\ UNCHANGED <<rules, chain, jump, now, cfgVars, op, pc>>

\* The loop is over. The engine then starts its maintenance thread and captures; a
\* dashboard request is answered, and an unblock is answered {"unblocked": true}.
FinishRemoval(p) ==
    /\ pc[p] = "next" /\ todo[p] = {}
    /\ pc' = [q \in Procs |-> IF q = p \/ (p = Engine /\ q = Maintenance)
                              THEN "idle" ELSE pc[q]]
    /\ op' = [op EXCEPT ![p] = "none"]
    /\ cur' = [cur EXCEPT ![p] = Null]
    /\ UNCHANGED <<fwVars, now, cfgVars, todo, leaked>>

-----------------------------------------------------------------------------
(* block_ip, in the engine's packet handler *)

\* The duplicate check; an address with a row is returned from at once.
BlockSelect(ip) ==
    /\ pc[Engine] = "idle"
    /\ ~AlreadyBlocked(ip)
    /\ cur' = [cur EXCEPT ![Engine] = ip]
    /\ Goto(Engine, IF dryRun[Engine] THEN "insert" ELSE "chain")
    /\ UNCHANGED <<fwVars, now, cfgVars, op, todo, leaked>>

\* block_ip returns, or its exception is caught by the packet handler.
GiveUpBlock ==
    /\ Goto(Engine, "idle")
    /\ cur' = [cur EXCEPT ![Engine] = Null]

EnsureChainOnly ==   \* mutant: no jump from INPUT into the chain
    /\ pc[Engine] = "chain"
    /\ chain' = TRUE /\ Goto(Engine, "append") /\ UNCHANGED cur
    /\ UNCHANGED <<row, rules, jump, now, cfgVars, op, todo, leaked>>

\* _ensure_firewall_chain: -nL, and -N when that fails.
EnsureChain ==
    /\ pc[Engine] = "chain"
    /\ \/ chain' = TRUE /\ Goto(Engine, "jump") /\ UNCHANGED cur
       \/ "iptables" \in Faults /\ GiveUpBlock /\ UNCHANGED chain
    /\ UNCHANGED <<row, rules, jump, now, cfgVars, op, todo, leaked>>

\* _ensure_firewall_chain: -C INPUT, and -I INPUT when that fails.
EnsureJump ==
    /\ pc[Engine] = "jump"
    /\ \/ jump' = TRUE /\ Goto(Engine, "append") /\ UNCHANGED cur
       \/ "iptables" \in Faults /\ GiveUpBlock /\ UNCHANGED jump
    /\ UNCHANGED <<row, rules, chain, now, cfgVars, op, todo, leaked>>

AppendRuleUnchecked ==   \* mutant: the return code of -A is not looked at
    /\ pc[Engine] = "append"
    /\ rules' \in {rules, [rules EXCEPT ![cur[Engine]] = @ + 1]}
    /\ Goto(Engine, "insert")
    /\ UNCHANGED <<row, chain, jump, now, cfgVars, op, todo, cur, leaked>>

\* iptables -A ACF_BLOCK -s ip -j DROP
AppendRule ==
    /\ pc[Engine] = "append"
    /\ rules[cur[Engine]] < MaxRules
    /\ \/ /\ rules' = [rules EXCEPT ![cur[Engine]] = @ + 1]
          /\ Goto(Engine, "insert") /\ UNCHANGED cur
       \/ "iptables" \in Faults /\ GiveUpBlock /\ UNCHANGED rules
    /\ UNCHANGED <<row, chain, jump, now, cfgVars, op, todo, leaked>>

\* INSERT OR REPLACE INTO blocked_ips; block_ip returns.
InsertRow ==
    /\ pc[Engine] = "insert"
    /\ row' = [row EXCEPT ![cur[Engine]] =
                 [dry |-> dryRun[Engine], expires |-> ExpiresAt]]
    /\ GiveUpBlock
    /\ UNCHANGED <<rules, chain, jump, now, cfgVars, op, todo, leaked>>

-----------------------------------------------------------------------------
(* Faults, the operator and the clock *)

\* The engine has appended a rule whose row is not there yet.
Appended(ip) == pc[Engine] = "insert" /\ cur[Engine] = ip /\ ~dryRun[Engine]

\* The processes ps stop what they are doing. A rule without its row is left behind
\* if the engine is one of them and stands between -A and INSERT.
Stop(ps, step) ==
    /\ pc' = [p \in Procs |-> IF p \in ps THEN step ELSE pc[p]]
    /\ op' = [p \in Procs |-> IF p \in ps THEN "none" ELSE op[p]]
    /\ todo' = [p \in Procs |-> IF p \in ps THEN {} ELSE todo[p]]
    /\ cur' = [p \in Procs |-> IF p \in ps THEN Null ELSE cur[p]]
    /\ leaked' = leaked \cup {ip \in Ips : Engine \in ps /\ Appended(ip)}

\* A statement raises (SQLite stays locked past busy_timeout, iptables is missing).
\* The packet handler and the maintenance loop catch it, a request answers 500,
\* blocklist.py and the engine's start-up end.
Abort(p) ==
    /\ "abort" \in Faults
    /\ pc[p] \notin {"down", "idle"}
    /\ Stop({p}, IF p = Engine /\ op[p] = "cleanup" THEN "down" ELSE "idle")
    /\ UNCHANGED <<fwVars, now, cfgVars>>

\* The engine process ends, by a crash or a stop; its maintenance thread dies with it.
EngineCrash ==
    /\ "crash" \in Faults
    /\ pc[Engine] # "down"
    /\ Stop({Engine, Maintenance}, "down")
    /\ UNCHANGED <<fwVars, now, cfgVars>>

\* A dashboard worker is killed and started again: it reads config.yml anew.
RestartDashboard(p) ==
    /\ "crash" \in Faults
    /\ p \in Dashboard
    /\ Stop({p}, "idle")
    /\ dryRun' = [dryRun EXCEPT ![p] = cfgDry]
    /\ UNCHANGED <<fwVars, now, cfgDry>>

\* The host restarts: the table survives, the kernel's rules do not.
Reboot ==
    /\ "reboot" \in Faults
    /\ rules' = [ip \in Ips |-> 0]
    /\ chain' = FALSE /\ jump' = FALSE
    /\ dryRun' = [p \in Procs |-> cfgDry]
    /\ pc' = Booted
    /\ op' = [p \in Procs |-> "none"]
    /\ todo' = [p \in Procs |-> {}]
    /\ cur' = [p \in Procs |-> Null]
    /\ leaked' = {}
    /\ UNCHANGED <<row, now, cfgDry>>

\* The operator edits dry_run in config.yml.
EditConfig ==
    /\ "config" \in Faults
    /\ cfgDry' = ~cfgDry
    /\ UNCHANGED <<fwVars, now, dryRun, procVars, leaked>>

Tick ==
    /\ now < MaxTime
    /\ now' = now + 1
    /\ UNCHANGED <<fwVars, cfgVars, procVars, leaked>>

-----------------------------------------------------------------------------
BlockStep ==
    \/ \E ip \in Ips : BlockSelect(ip)
    \/ EnsureChain \/ EnsureJump \/ AppendRule \/ InsertRow

RemovalStep(p) ==
    \/ \E item \in todo[p] : RemoveRule(p, item) \/ ForgetRow(p, item)
    \/ DeleteRow(p)
    \/ FinishRemoval(p)

RequestStep(p) ==
    \/ SelectExpired(p)
    \/ \E ip \in Ips : RequestUnblock(p, ip)
    \/ \E ips \in SUBSET Ips : RunCli(p, ips)

FaultStep ==
    \/ \E p \in Procs : Abort(p) \/ RestartDashboard(p)
    \/ EngineCrash \/ Reboot \/ EditConfig

Next ==
    \/ EngineStart
    \/ BlockStep
    \/ \E p \in Procs : RequestStep(p) \/ RemovalStep(p)
    \/ FaultStep
    \/ Tick

Spec == Init /\ [][Next]_vars

-----------------------------------------------------------------------------
(* Safety *)

\* "avoid duplicate rules" (firewall.py:78): ACF_BLOCK holds at most one DROP rule
\* for an address, whatever the processes and faults, unless a row and its rule came
\* apart in one of the two ways "leaked" records: the engine ended between -A and
\* INSERT, or a process that runs dry deleted a live row. (Of such an address there may
\* be two rules, after a restart: firewall.py:87.)
NoDuplicateRule == \A ip \in Ips \ leaked : rules[ip] <= 1

\* A DROP rule never outlives its row: block_ip, the clean-ups and the unblocks of
\* any number of processes interleave at every statement, and still each rule has a
\* live row (so that it can expire and be unblocked) or is about to get one.
NoOrphanRule ==
    \A ip \in Ips \ leaked : rules[ip] > 0 => RecordedLive(ip) \/ Appended(ip)

\* _ensure_firewall_chain before every -A: packets reach every DROP rule there is.
RulesAreReachable == (\E ip \in Ips : rules[ip] > 0) => chain /\ jump
=============================================================================
