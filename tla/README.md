# Verification of the Adaptive Cognitive Firewall (ACF)

TLA+ models of ACF (`src/`), the TLC configurations that check them and the theorems
TLAPS proves about them. Paths below are relative to the repository's `src/`.

## 1. The system

ACF sniffs packets, scores them (an isolation forest plus hand-written rules), logs
traffic and alerts to SQLite, and blocks sources with `iptables`. Several processes
share one SQLite file (WAL, autocommit) and one `iptables` chain; nothing else
synchronises them.

| Part | Code | State it keeps | Operations | Talks to |
|---|---|---|---|---|
| Blocklist | `firewall.py`, `blocklist.py` | table `blocked_ips`, chain `ACF_BLOCK`, its jump from `INPUT` | `block_ip`, `unblock_ip`, `cleanup_expired_blocks`, `load_blocked_ips`, `--unblock`, `--clear-all` | SQLite, `iptables` |
| Detection engine | `main.py`, `decision.py`, `alerting.py` | `already_alerted`, the trackers below | start-up clean-up, `handle(pkt)`, shutdown | blocklist, alerts, traffic, heartbeat |
| Block maintenance | `main.py:28-46` | a stop event | a clean-up and a heartbeat every interval | blocklist, heartbeat |
| ARP and DHCP trackers | `arp_monitor.py`, `dhcp_monitor.py` | last MAC of an address, known servers | `check` | the packet handler |
| Flow tracker | `flow_tracker.py` | flow table, four families of sliding windows | `update`, `_expire_flows` | the packet handler |
| DNS, TTL, threat intelligence | `dns_monitor.py`, `ttl_monitor.py`, `threat_intel.py` | windows, first TTL, indicator sets | `record`, `check`, `check_flow` | the packet handler |
| Rules and severity | `main.py:77-231`, `detection_metadata.py` | none | `check_hybrid_rules`, `categorize_reason`, `severity_for_alert` | the packet handler, dashboard |
| Model | `ai_model.py`, `features.py` | a pickle | `train`, `load`, `predict` | traffic and alerts |
| Dashboard | `app.py` (2 workers, 4 threads each) | login failures per worker, `cfg` read at start | pages, blocklist, unblock, feedback, alert stream, status, metrics | every table, `iptables` |
| Schema and heartbeat | `db.py` | schema, `service_heartbeats` | `init_db`, `update_service_heartbeat` | every process |
| Feedback, retention | `feedback.py`, `retention.py` | `alerts.feedback`, CSV archives | `mark_alert`, `archive_traffic`, `prune_table` | alerts, traffic |
| Windows forwarding | `packet_forwarding.py`, `windows_capture.py` | a TCP stream | handshake, framing | a listener |
| Configuration | `utils.py` | none | `load_config`, `validate_config` | every process, once, at its start |

What is hard, and for each part what makes it correct:

- *Rows and rules.* Every statement and every `iptables` command is a step of its own,
  and the engine, its thread, dashboard workers and command lines interleave between
  them. Correct means: at most one DROP rule an address, no rule without a row (it could
  never expire), no live row without a rule (the address would count as blocked and not
  be), a block that lasts its duration and then goes.
- *Memory and tables.* The engine caches in `already_alerted` what other processes change
  in `blocked_ips`; it restarts, its handler is left by exceptions at any statement.
  Correct means: no block without an alert, no second alert for a block, verdicts that
  end in blocks.
- *Time.* Expiry, windows, heartbeat ages. Correct means: what is due happens, and counts
  count what is in the window.
- *Tables that only grow, until they are pruned.* The alert stream, feedback and training
  read alerts that retention deletes, and no two of these programs share a transaction.
  Correct means: nothing is deleted unarchived, no label falls on another alert, no
  confirmed threat is trained on, every alert is told.
- *Coming up.* Every process and every request brings the schema up to date by itself, at
  the same time as others; the engine checks its model against a pin and reads the file a
  second time. Correct means: whoever is up finds its schema and its model.
- *Threads of the dashboard.* Checks and records of the login limiter are separate critical
  sections, and a stream keeps its thread. Correct means: bounded lists and guesses, a
  lock-out that ends, an answer for whoever asks.
- *A byte stream.* Frames are cut and end anywhere. Correct means: what is decoded was sent.

`PROJECT.json` lists every component and, line by line, the hazards.

## 2. Modules

| Module | Models | Built on |
|---|---|---|
| `Blocklist` | `firewall.py`, `blocklist.py`, the blocklist routes of `app.py`, the maintenance thread | - |
| `TimedBlock` | the abstract promise: banned at once, for the whole duration, then lifted | - |
| `BlocklistService` | fairness, liveness, refinement of `TimedBlock` | `Blocklist` |
| `BlocklistProofs` | theorems on `Blocklist` and `BlocklistService` | `BlocklistService`, TLAPS |
| `DetectEngine` | `run_detect_mode` and its packet handler, with every other process beside it | `Blocklist` |
| `DetectProofs` | theorems on `DetectEngine` | `DetectEngine`, `BlocklistProofs` |
| `Heartbeat` | the heartbeats of `main.py` and `db.py`, the status of `app.py` | - |
| `HeartbeatProofs` | theorems on `Heartbeat` | `Heartbeat`, TLAPS |
| `FlowTracker` | `flow_tracker.py` | - |
| `Records` | `alerting.py`, `retention.py`, `feedback.py`, `train` of `ai_model.py` on the tables `traffic` and `alerts` | - |
| `RecordsProofs` | theorems on `Records` | `Records`, TLAPS |
| `Login` | the limiter of `app.py`: the threads of one worker, the requests of one address | - |
| `Dashboard` | a worker with logins, health probes and alert streams, beside the engine and retention | `Login` |
| `DashboardProofs` | theorems on `Login` and `Dashboard` | `Dashboard`, TLAPS |
| `Startup`, `MCStartup` | `load_config`, `init_db`, `save` and `load` of `ai_model.py`; the databases of older versions for TLC | - |
| `StartupProofs` | theorems on `Startup` | `Startup`, TLAPS |
| `Forwarding`, `MCForwarding` | `packet_forwarding.py`, `windows_capture.py` and the listener; the packets for TLC | - |
| `ForwardingProofs` | theorems on `Forwarding` | `Forwarding`, TLAPS |
| `Detectors`, `MCDetectors` | `check_hybrid_rules`, the DNS, TTL and DHCP trackers, the threat list, combined reasons; a small network for TLC | `FlowTracker` |
| `DetectorsProofs` | theorems on `FlowTracker` and `Detectors` | `Detectors`, TLAPS |

### Blocklist

`row` is `blocked_ips` (an address's `dry_run` and `expires_at`, or `Null`), `rules` counts
the DROP rules of an address in the chain, `chain` and `jump` say that `ACF_BLOCK` exists
and `INPUT` jumps to it, `now` is `time.time()`. `cfgDry` is `dry_run` in `config.yml`,
`dryRun[p]` what process `p` read when it started. `pc`, `op`, `todo` and `cur` are the
local variables of each process: where it stands, whether it cleans up or unblocks, the
rows its SELECT returned and it has not handled, the address in hand.

| Action | Code |
|---|---|
| `EngineStart` | `run_detect_mode` up to the SELECT of the start-up clean-up |
| `SelectExpired(p)` | SELECT of `cleanup_expired_blocks`, from the thread or `GET /api/blocklist` |
| `RequestUnblock`, `RunCli` | `api_unblock`'s existence check; `blocklist.py` |
| `RemoveRule` | `iptables -D`; a failure keeps the row and goes on |
| `DeleteRow`, `ForgetRow` | the DELETE after a successful `-D`; the DELETE alone, in dry mode |
| `FinishRemoval` | end of the loop, answer of the request, start of the thread |
| `BlockSelect` | `block_ip` up to its duplicate check |
| `EnsureChain`, `EnsureJump`, `AppendRule`, `InsertRow` | `_ensure_firewall_chain`, `-A`, INSERT |
| `Abort`, `EngineCrash`, `RestartDashboard`, `Reboot`, `EditConfig`, `Tick` | exceptions, process ends, the host, the operator, the clock |

`leaked` is a history variable: the addresses whose row and rule went apart in one of two
ways the code allows, the engine ending between `-A` and INSERT, and a live row deleted by
a process that runs dry or that selected a dry row. A reboot, which empties the chain,
clears it. The safety properties speak of the other addresses; that these two are the only
ways is part of what is checked and proved.

### DetectEngine

`stage` and `pkt` say where `handle()` stands, `alerted` is `already_alerted`, `macOf` and
`servers` the ARP and DHCP trackers. `announced` is a history variable: the sources for which
`log_alert` has run since a start last found them not blocked; it says nothing of the table
`alerts`, from which retention deletes by age, whoever is still blocked. An ARP
packet goes `traffic`, `alert`, `block`; an IP packet is judged in `ReceiveIp` (tracker, model,
rules and `decide`, none of which other processes see) and goes `alert`, `block`. Within
`block`, `CallBlock` and `InBlock` take the steps of `Blocklist`. The model's label, the flow's
packet count and the verdict of the rules are arbitrary here; `Detectors` says what they are.

### Heartbeat

`beat` is the row of `acf-engine` in `service_heartbeats`, `main` and `thread` the two threads
that write it, `stopping` the stop event. A tick is a second. `Tick` does not pass the code's own
deadlines, the end of a wait (`Period`) and of the join (5 seconds). A pass and a write take any
time: SQLite may wait for 5 seconds for each lock and `iptables` has no timeout. `MaxPass` and
`MaxWrite` bound nothing, they say which of them the history `late` records. `Wake`, `Open`,
`Stamp`, `Beat` and `PassFails` are the loop of `maintain_blocks` (the time is read in `Stamp`,
before the write); `OpenFails` is `get_connection` raising outside the `try` (`main.py:34`), which
ends the thread while the engine captures on. `Stop`, `Joined`, `WriteStopped` and `End` are the
`finally` of `run_detect_mode`; `End` alone is a kill, and until it comes the thread goes on.
`ShownActive` is `engine_service_status`. `missed`, `late`, `began` and `endedAt` are history variables.

### FlowTracker and Detectors

`flows` and the four histories are the attributes of `FlowTracker`, `signals` what `update`
returns (without the rates, which only the model uses). `dnsHistory`, `ttlBaseline` and
`dhcpServers` are the other trackers', `reasons` the parts of `rule_reason` by category. One
action, `Receive`, is the whole path of an IP packet from `tracker.update` to the combined
reason: the handler is single-threaded and nothing else sees this state. `ReceiveFails` is the
packet that an exception (`log_traffic`, `predict`) ends after `tracker.update`: the flow tracker
has learnt from it, the other trackers have not, and it gets no reason. `judged` is a history
variable, the places in the log of the packets that got through; `MaxFailures` bounds the others.
`Pruned` is the loop
that pops the front of a deque, `HybridRules` the conditions of `check_hybrid_rules` in the order
of their returns. The scan rule's z-score grows with the number of ports, so "deviates" is a
constant bound on it. `log` is a history variable with every packet ever seen; the reference
definitions (`SynsWithin`, `Opens`, `Reference`, `VolumeEvidence`, ...) use nothing else.

### Records

`traffic` and `alerts` are the tables, rows reduced to id, timestamp and label; `trafficSeq` and
`alertSeq` are `sqlite_sequence` (AUTOINCREMENT). `engine`, `retention`, `analyst` and `trainer`
are the local variables of the four programs. `archives` holds the CSV files as pairs of a name
(the second) and a row. `journal` (every alert ever, with the label last meant for it),
`discarded` (what runs with `--archive` deleted), `overwritten` (the discarded rows whose file a
later run of the same second has opened anew) and `known` (the timestamps of the young alerts that
stood confirmed when the training read the labels) are history variables. Runs of retention come one
after another, as many within a second as one likes.

| Action | Code |
|---|---|
| `Extract`, `LogTraffic`, `LogAlert`, `HandlerEnds` | the timestamp of a packet, the two INSERTs, the end of `handle()`; the first two are learn mode |
| `BeginRetention`, `SelectOld`, `WriteArchive` | the cut-offs, the SELECT of `archive_traffic`, its file |
| `PruneTraffic`, `PruneAlerts`, `RetentionFails` | the two DELETEs; a run that ends where it is |
| `Decide`, `CheckExists`, `Update` | an analyst's look, the SELECT and the UPDATE by id of `mark_alert` and `api_mark_feedback` |
| `ReadTraffic`, `ReadConfirmed` | the two SELECTs of `train` and what is kept of the first |
| `Save`, `TrainingFails` | the forest is fitted and saved; nothing to train on, or the program ends |

`MaxLag` bounds the time between a packet's timestamp and its last INSERT, and `LagAssumption`
says that it is below the retention ages: seconds against days. Timestamps are whole seconds,
coarser than the code's floats, so more rows share a timestamp in the model than in the code and
the exclusion by timestamp is exercised harder.

### Login and Dashboard

`failures` is `_auth_failures[client_ip]`, as ages (a tick makes every entry older, so time is
not bounded), `thread` says between which critical sections each thread stands. `CheckLimit`,
`CheckPassword`, `Unauthorized` and `Record` are `verify_password` and `unauthorized`, cut where
the lock is released. `guesses` is a history variable: the wrong passwords whose hash was
compared. In `Dashboard` a thread may also stream (`OpenStream`, `Poll`: `event_stream`), and
`alerts`, `alertSeq` are the table as `MAX(id)` sees it. `owes` is a history variable: an alert
has been inserted since this stream's last update. The checks of `before_request` are part of
`Arrive`: they depend on constants of the process only.

### Startup

`alerts` and `blocked` are the columns of these two tables, of those that `init_db` adds. `pc` walks
through `load_config`, CREATE TABLE, CREATE INDEX, PRAGMA, the loop of ALTER TABLE (`at` is its
place, `have` what the PRAGMA showed) and, for the engine, `_verify_model_hash` and `joblib.load`.
`file` is the model file, whose digest is the number of the training that wrote it; `Partial` while
`joblib.dump` fills it, and for good if that is interrupted. `Others` stands for what else calls
`init_db`: each maintenance pass, each request of the dashboard, each tool.

### Forwarding

`toListener` and `toSender` are the bytes on their way, each known by its message and its place in
it; `chunks` are the bytes of `recv_exact` on either side. `Receive` takes any number of the bytes
that have come, up to what is wanted. The listener is not in the repository: `CheckResponse`,
`ReadHeader` and `Decode` call the functions `packet_forwarding.py` has for it in their only
possible order, and are external. `CheckResponse` accepts or rejects at will: the collector compares
the answer with `AUTH_ACCEPTED` and does not ask whether the listener knows the token
(`windows_capture.py:57-61`), so the tokens are not modelled and nothing is said of who receives the
packets. External is also `Cut`, a network that fails.

## 3. Runs

| Run | Instance | Shows |
|---|---|---|
| `fleet` | 1 address, engine, thread, 1 dashboard thread, 1 command line, every fault, clock 0..2, duration 1 | type; at most one rule; no rule without a row; rules are reachable |
| `solo` | 2 addresses, engine and thread only, `iptables` failing at will, clock 0..5 | a live row has its rule; expired blocks go; `TimedBlock` is implemented |
| `detect` | 2 addresses, one whitelisted, 2 MACs, exceptions, crashes | type; whitelist; no live block that was not announced; no alert while blocked |
| `detect_fleet` | 1 address, the thread and a dashboard thread that remove its blocks, crashes, reboots, edits of the configuration, clock 0..2 | a source that stays hostile is blocked again and again |
| `heartbeat` | intervals of 1 second, passes and writes of more than 1 are late, 14 seconds | an engine that captures is shown active while its thread lives and is in time, also after a failed pass; one that has ended, or whose thread has, is not; "stopped" is overwritten only by a pass that outlasts the join |
| `detectors` | every sequence of 4 packets of 8 kinds, 0, 1 or 3 seconds apart, one of which an exception may end, windows of 1 and 2 seconds, thresholds of 2 and 3 | flow table and signals are exact; each reason is borne out by the traffic; a packet that gets through to the rules is reported for whatever speaks against it |
| `training` | 2 rows, 1 analyst, ages of 1 and 2, lag 1, clock 0..3 | nothing is discarded that was not archived before; labels stay where they were meant; young alerts keep label and packet; no threat that stands confirmed when the labels are read is trained on |
| `dashboard` | 2 threads, limit 1, window 6, 3 alerts | failures and guesses are bounded; lock-outs end; alerts are told; probes are answered unless streams hold every thread |
| `startup` | the engine and one request, 8 databases, 2 trainings, 2 edits, 1 fault | the schema is complete after `init_db`; the pin holds; the engine comes up |
| `forwarding` | packets of 6 kinds, up to 3 sent, frames of 4 to 6 bytes, a listener that accepts or rejects | decoded is a prefix of sent; all arrives while the connection lasts |

Bounds. `MaxTime` bounds the clock: with duration 1, clock 2 lets a block expire, be replaced
and the replacement expire; `solo` has room for two addresses to do so at different times.
`MaxRules` = 2 bounds the duplicates of a rule: the first duplicate already violates
`NoDuplicateRule`, and leaked addresses gain nothing from a third. One address is enough for
`fleet` because processes meet only on the same address; `solo` and `detect` have two. One
dashboard thread and one command line, with the engine and its thread, put four removers
and one inserter on an address.

`heartbeat`: with intervals of 1 second the dashboard allows an age of 7, so 14 seconds hold a
start, several passes, a kill and the age limit after it, or a stop, a join that gives up and the
heartbeat of the late pass; `AgeAssumption` is tight for these values (7 = 2 + 2 + 3).

`detectors`: with gaps of 0, 1 and 3, windows of 1 and 2 and a time-out of 2, packets fall on both sides of and on every boundary (the first packet comes at 0: only
differences of times matter); a flow times out with and without
another packet in between; every volume rule and every tracker fires in some sequence. The
stateless flag rules and the broadcast rule never fire in this instance: they are one
condition each.

What some runs leave out: in `solo` nothing but `iptables` fails, so neither a reboot nor an exception
between `-D` and DELETE comes before `RowHasRule` and `ExpiredBlocksRemoved`, and only the engine's two
threads remove; `detect` has no other process. `fleet` and `detect_fleet` have them, for the properties
listed there.

`training`: with ages of 1 and 2 and a clock to 3, a row can be deleted from the traffic while its
alert is young, and both be deleted; a training can read before and after each; two rows suffice
for an id to be confused with another. `dashboard`: two threads are the least that can pass the
limiter together, and with a limit of 1 the bounds are reached: 2 failures, 3 guesses within the
window (they also hold in `Login` alone with limits of 2 and 3, windows up to 10, and three threads).
`startup`: one other process races the engine for columns;
two edits pin and break the configuration; a second training rewrites a pinned file.
`forwarding`: headers of 3 and payloads of up to 3 bytes are cut at every place; the packets
have one layer or two, none, no payload, the largest and one byte more.

Deadlock is checked in `fleet`, `detect`, `detect_fleet`, `heartbeat`, `training`, `dashboard` and
`startup`. `solo` may stop (the clock reaches its bound, no packet has to come), and so may
`detectors` (`MaxPackets`) and `forwarding` (both programs have ended).

Two runs are violations, each of a sentence of the repository (see `findings`):

| Run | Sentence | What the code does |
|---|---|---|
| `phantom_race` | temporary blocks are removed every interval (`README.md:49`) | a stale `-D` takes the rule of a newer block before its row is inserted; that row stays for ever |
| `old_blocklist` | columns are added if they do not exist (`db.py:80`) | the index on `expires_at` precedes its ALTER: with an older `blocked_ips`, `init_db` always raises |

Seen while modelling, without a run of their own.

Blocks and alerts:

- A clean-up's `DELETE ... WHERE ip = ?` (`firewall.py:63`) does not repeat its condition and takes a
  newer row than it selected; a temporary block then ends early (`config.yml:6`: "a number of
  seconds for temporary blocks").
- `-A` precedes INSERT (`firewall.py:87`) and only the table is consulted: an engine that ends in
  between appends a second rule after its restart (`firewall.py:4-6`: "no duplicate iptables rules
  after a restart"). This is one of the two ways into `leaked`.
- The ARP branch (`main.py:277`) calls `block_ip` without `decide`, so it blocks whitelisted addresses
  (`tests/test_decision.py:7` says `test_whitelisted_ip_always_allowed_even_if_anomalous`, of `decide`);
  `WhitelistHolds` makes exactly this exception.
- `already_alerted` outlives the block (`main.py:319`): after expiry an address is blocked again without
  an alert. `README.md:268-271` calls the suppression of repeats correct for an address already blocked.
- `dhcp_tracker.check` learns a server before its alert is written (`main.py:302`): an exception in
  between loses the only alert the server can cause (`README.md:365`: "any different server after that
  is flagged").
- After a reboot the rows have no rules, so `-D` fails for ever on each (the same end as `phantom_race`).
- `block_duration_seconds: 0` passes validation and means a permanent block (`firewall.py:94`).
- `api_unblock` answers `"unblocked": true` when `-D` failed (`app.py:495-497`).

Detection:

- A connection idle for longer than `flow_timeout_seconds` goes on as the same flow if no other packet
  came in meanwhile, and as a new one otherwise (`flow_tracker.py:69,132`).
- An alert with several reasons has the severity of the first, so that a `repeated_port_probe` makes a
  `threat_intel` match "low" (`detection_metadata.py:64`), and `smurf_attack` has no severity of its own.
- With `icmp_flood_threshold: 0`, which `utils.py:90` admits, every packet is reported as a flood
  of ICMP, also one of TCP: its count of 0 reaches the threshold (`main.py:153`).
- The ARP binding is overwritten, while `ttl_monitor.py:12-13` calls it fixed on first sighting.
- An exception between `tracker.update` and the rules (`main.py:285-290`, caught at 326) drops the packet
  with what it would have been reported for, and the DNS, TTL and DHCP trackers never learn of it
  (`ReceiveFails`).

The engine's heartbeat:

- With the default interval of 30 seconds the dashboard allows an age of 65, so that after one failed
  pass an engine is shown inactive as soon as two passes and three writes together take more than 5
  seconds (`app.py:233`).
- `get_connection` stands outside the `try` of the maintenance loop (`main.py:34`): one exception there
  ends the thread for good while the engine captures. Expired blocks stay, and the dashboard shows
  the engine inactive (`EndedIsShownInactive`).
- `join(timeout=5)` (`main.py:337`) can give up on a pass, whose heartbeat then overwrites "stopped" with
  "active" (`OnlyALatePassRevives` says that nothing else does).

Records and training:

- Alerts labelled `false_positive` are not excluded from training (`ai_model.py:42-48` asks for
  `confirmed_threat` only), although `feedback.py:4-5` says so.
- Only the packet that makes a source an alerted one has an alert, so its later hostile packets are in
  `traffic` unmarked and are trained on whatever the label (`main.py:319`); a label is of no use once
  retention has deleted its alert, and of none before (`ConfirmedNeverTrained` says what remains).
- `--archive` exports the rows older than `--traffic-days` only, so that it is no backup before a database
  is recreated, for which `README.md:298-299` recommends it.
- Two runs of `retention.py --archive` in one second write one file (`retention.py:34`), and the second
  overwrites the first: its rows are then in no table and no file (`overwritten`).
- Retention deletes alerts by their age and does not look at `blocked_ips`: a permanent block outlives
  the alert that explains it, and there is no second one while it stands (`retention.py:87-94`).
- A label set while the forest is fitted comes too late for the model that is then saved
  (`ai_model.py:42`, `66-83`); the next training takes it.

Start:

- Of two processes that add the same column, the slower one raises "duplicate column name" and ends
  (`db.py:83-84`), although `db.py:80` calls this safe to run repeatedly. The engine is restarted and
  then finds the column (`EngineComesUp`).
- The model is read a second time after its digest was checked (`ai_model.py:103-104`).

Dashboard:

- An alert stream keeps its thread until a write to a closed socket fails, which takes a new alert;
  eight streams hold all threads of both workers, and then not even `/readyz` is answered.
- A correct login that is limited at the first look and no longer at the second is answered 401 and
  recorded as a failure (`app.py:70,80`).
- An address may try `(AuthMax + 1) * threads - 1` passwords a window and worker, not `AuthMax`.
- Without `ACF_CSRF_TOKEN` each worker process draws its own token (`app.py:33`), and a page served by one
  worker is refused by the other.
- `/api/alerts` with a reason filters the newest `3 * limit` rows only (`app.py:395`).

The collector:

- `windows_capture.py:59` forwards to whoever answers `AUTH_ACCEPTED`; the token shows the listener who
  the collector is, and not the other way round.

## 4. Fairness

`FairSpec` (module `BlocklistService`): the engine is started again (`Restart=on-failure`,
`restart: unless-stopped`); a thread inside a clean-up, an unblock or `block_ip` goes on; the
maintenance thread lives as long as its process and wakes up (`stop_event.wait(interval)`; an exception
of `get_connection`, `main.py:34`, would end it, and with it what is promised here); `iptables -D`, tried for ever, works
in the end (strong fairness on the successful command: a failing one leaves the row for the next
pass). Requests, packets, ticks and faults are never forced. `FairDetectSpec`: the engine starts
and `handle()` goes on.

`DashboardSpec`: time passes; a thread goes on with its request and a stream with its polls (each is
a thread of the process; `time.sleep(1.5)` returns); a health probe that finds a free thread again and
again gets one (strong fairness: the accept queue is first in, first out). Nobody has to log in, open
or leave a stream, and nothing has to be alerted. `Startup!Spec`: the engine is started again whenever
it has ended (`Restart=on-failure`, `restart: unless-stopped`) and its statements get their turn; other
processes may stop anywhere. `Forwarding!Spec`: both programs read what has come and go on with the
handshake; nothing has to be captured and nothing has to end.

## 5. Proofs

Everything is proved for any set of addresses, of dashboard threads and command lines, any
duration (also none), any clock and any set of faults, from the named assumptions: processes are
distinct, `Null` is no address and no row.

`Blocklist`: `IInv` is the inductive invariant. `NoDuplicateRule` and `NoOrphanRule` are not
inductive: what keeps two removers and one inserter from undoing each other is that for an
address in step, a process that has removed the rule is alone in having done so, the rule is
gone until the row is, and the row keeps `block_ip` out meanwhile (`InStep`). `Control` adds
where each process can stand and that the engine inside `block_ip` saw no row. `IInv` was
checked by TLC before it was proved. From `Inductive` follow `TypeCorrect`,
`NoDuplicateRuleHolds`, `NoOrphanRuleHolds` and `RulesAreReachableHolds`.

`BlocklistService`: a row has its rule and the promise of `TimedBlock` is kept only while the engine
is the only remover (`EngineAlone`: no dashboard, no command line, no fault but a failing
`iptables`), as in the run `solo`. `ServiceInv` adds to `IInv` that then nothing is dry, only one of
the engine's two threads removes at a time (the maintenance thread starts after the start-up
clean-up), and what a SELECT returned stays due until it is handled (`ItemsAreDue`: nobody can
replace the row in between). `RowHasRuleHolds` and `PromiseKept` follow. `PromiseKept` is the safety
part of the refinement, step by step: the INSERT is the ban, the DELETE lifts it, all else stutters.
It asks for `Duration # 0`, which the code takes for "no duration" (`firewall.py:94`) and the
abstract specification for a ban that is over at once.

`DetectEngine`: `DInv` relates `stage` to the engine's place in `Blocklist` and states the
order alert, memory, block. Every step contains a step of `Blocklist` or leaves its variables alone,
by the way the module is written, so `Blocklist`'s theorems carry over (`DetectNoDuplicateRule`); `BlocksAreAlertedHolds`, `WhitelistHoldsAlways` and the action
property `NoAlertWhileBlockedHolds` follow from `DInv`; so do the types (`DetectTypeCorrect`).

`Heartbeat`: `IInv` bounds the deadline of the thread's present step by the age of the last
heartbeat (`BeatIsRecent`, as long as nothing is late; the budget depends on where the thread stands
and on whether a pass has failed), puts the beginning of a pass that is under way after the stop at
least the join's 5 seconds before the end of the join (`BegunBefore`), and lets no heartbeat that says
active be later than the end of the thread (`Past`). `RunningIsShownActiveHolds`,
`EndedIsShownInactiveHolds` and `OnlyALatePassRevivesHolds` follow for all intervals and times. Only the
first needs an assumption the code does not enforce, `AgeAssumption`
(`2 * Period + 2 * MaxPass + 3 * MaxWrite <= ViewInterval * 2 + 5`): it is about how much a pass and a write
may take before the property calls them late (the dashboard may have read another interval than the
engine), and the property fails in TLC as soon as it does. Nothing bounds a pass.

`Records`: none of the properties is inductive. `IInv` adds what they rest on: `Times` (a row is on
its way for no longer than `MaxLag`, a run of retention began in the past), `Identities` (an id stands
for one alert, and every analyst has seen an alert that was there), `TrafficFirst` (the packet is in
the table before its alert) and `Archiving` (what the DELETE of a run that archives will find it
has selected, and then written to a file) and `TrainingExcludes` (what a
training still has bears no timestamp of a threat it knew). `Archiving` needs `LagAssumption`: a row inserted between SELECT and
DELETE is too young for either. `DiscardedIsArchivedHolds`, `FeedbackIsMeantHolds`,
`AuditTrailIsKeptHolds` and `AlertHasTrafficHolds` follow for any number of analysts and any ages;
`ConfirmedNeverTrainedHolds`, an action property, follows from the audit trail: the second SELECT
of a training sees every young alert with its last label.

`Login`, `Dashboard`: `FailuresBoundedHolds` for any number of threads, any limit and any window. The
property is inductive (with the types, `DashboardTypeCorrect`) because it counts the threads in `record`,
which will append, with the entries: past the second look there is at most one a thread. The proof is
about cardinalities (`FiniteSetTheorems`).

`GuessesBoundedHolds` says that a window sees fewer than `(AuthMax + 1) * threads` guesses. The guesses
of the whole window say too little to be inductive, since entries leave failures and guesses at
different times. `WithinQuota` says it of *every* shorter window: the guesses of the last `a` seconds and
those that are certain to follow are covered by the failures of the last `a` seconds, one guess a
thread for each and one more a thread but the last. A tick moves the window of `a` seconds to one of
`a + 1` and takes nothing in. That not all threads at once can make an unrecorded guess is
`NotAllLoaded`.

`Startup`: `IInv` says that the columns before a process's place in the loop are in the table and
that the digest the engine has compared is the file's as long as `rewritten` is false. Columns are
never taken away, so others cannot disturb it. `TypeCorrect`, `ReadyFindsSchemaHolds` and
`PinnedModelHolds` follow for any number of processes, trainings and edits.

`Forwarding`: `ForwardingInv` has two parts. `Handshake` keeps the messages of the handshake apart from
the frames: until the listener has the whole response it has seen bytes of nothing else, and nothing is
sent before the answer. `Stream` says where the frames lie: the bytes in the listener's hands and on
their way are those of the frames from the next one on, each at an offset that is the sum of the
sizes before it, and the last may be missing from some byte on. The offsets are a function in the
invariant, so that cutting, receiving, losing and sending bytes each move them by a constant and no
sum over frames has to be computed. `DeliveredInOrderHolds` follows for all sizes of headers,
messages and packets and wherever the bytes are cut or lost.

`FlowTracker`, `Detectors`: the properties compare the deques, the table and the reasons with
definitions over the whole log of packets, so the invariant (`DetectorsInv`) says how each piece of
state mirrors the log. A deque that no packet of its own touches is stale, and so not equal to its
window: `Windows` says that it holds, in order, the packets it is for *since some moment that is not
after its cutoff*. A packet that is pushed brings its deque exactly to the cutoff, because timestamps are
in order (`KeptMoves`); the others only fall behind. From there the counts are those of the log
(`SignalsExact`). For the table, `Opens` (does this packet open a flow?) does not change as the log
grows, so the current flow of the packet's connection gains the packet or begins with it
(`ReferenceGrows`) and the others stay; expiry removes exactly what is no longer tracked
(`FlowTableExact`). Sums over the packets of a flow are folds, and facts about them (a summand more, two
functions that agree) are proved by looking at a smallest set for which they fail
(`SmallestSet`): this needs no induction over data. With exact signals and trackers
(`BaselineIsFirst`, `ServersHaveOffered`), `EvidenceReported` and `ReasonsJustified` are a case for
each rule. They hold for all packets, gaps, windows and thresholds; `ReasonsJustified` asks for an
ICMP threshold above 0. What the lemmas need of the constants is named: lengths and TTLs are naturals,
`Null` is not, and the clock does not step back (`GapsAssumption`).

Only model-checked: liveness (`ExpiredBlocksRemoved`, `VerdictsAreEnforced`, `LockoutEnds`, `AlertsAreTold`,
`ProbesAreAnswered`, `EngineComesUp`, `AllDelivered`) and with it the rest of `KeepsThePromise`, that
bans which are due are lifted: TLAPS has no rules for fairness and ENABLED here. Every invariant and
every action property that a run checks is the subject of a theorem.

## 6. Not modelled, and the plan

The plan from here, in this order:

1. The two handlers that are tied by the same packets: that the reasons of `Detectors` are a refinement
   of the arbitrary verdict of `DetectEngine`, as a theorem.
2. The safety half of liveness: what a step can do to the rank of a pending clean-up, frame or
   lock-out, so that only fairness is left to TLC.
3. Shorter proofs where one lemma can serve several deques or tables.

Out of scope: the isolation forest, feature scaling and explanations (numerical); Scapy's capture;
read-only pages and metrics, `--list`, `--summary` and `--dry-run`; templates and styles; deployment
files; what makes a configuration valid (one bit here, its values are constants); the lists of
threat intelligence (a set here); the tables of severities and MITRE techniques (one lookup each);
the entropy of a DNS label (a set of labels); the columns of `traffic` (an older table is not
altered: `README.md:291-299`).
