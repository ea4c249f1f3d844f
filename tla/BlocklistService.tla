--------------------------- MODULE BlocklistService ---------------------------
(***************************************************************************)
(* What the blocklist of module Blocklist delivers over time: the fairness *)
(* of its processes, the blocks' life from ban to expiry, the refinement   *)
(* of TimedBlock, and what the repository's documents say of blocks.       *)
(***************************************************************************)
EXTENDS Blocklist

\* iptables -D of ip by the maintenance thread, when it succeeds.
Removed(ip) ==
    \E item \in todo[Maintenance] :
        item.ip = ip /\ RemoveRule(Maintenance, item) /\ pc'[Maintenance] = "delete"

\* The engine is started (systemd's Restart=on-failure, docker's restart:
\* unless-stopped), threads that have something to do do it, the maintenance thread
\* wakes up every interval, and iptables does not fail for ever. Nobody has to
\* request, block or tick anything. That the maintenance thread lives as long as its
\* process is an assumption here: get_connection, outside its try (main.py:34), may end
\* it, and then nothing is removed (module Heartbeat has that step).
FairSpec ==
    /\ Spec
    /\ WF_vars(EngineStart)
    /\ WF_vars(EnsureChain \/ EnsureJump \/ AppendRule \/ InsertRow)
    /\ \A p \in Procs : WF_vars(RemovalStep(p))
    /\ WF_vars(SelectExpired(Maintenance))
    /\ \A ip \in Ips : SF_vars(Removed(ip))

-----------------------------------------------------------------------------
(* The blocks' life *)

\* A row that says "blocked" is true: as long as only the engine and its thread
\* remove blocks, a live row has its rule, unless its clean-up is between -D and
\* DELETE. (block_ip trusts the row and never looks at the chain again.)
RowHasRule ==
    \A ip \in Ips : RecordedLive(ip) =>
        \/ rules[ip] = 1
        \/ \E p \in {Engine, Maintenance} : pc[p] = "delete" /\ cur[p] = ip

\* "Temporary live blocks are removed by the detection engine every
\* block_maintenance_interval_seconds" (README.md:49): an expired block goes.
ExpiredBlocksRemoved ==
    \A ip \in Ips : (RecordedLive(ip) /\ Expired(ip)) ~> ~RecordedLive(ip)

-----------------------------------------------------------------------------
(* Refinement *)

\* An address is banned when the table says so and the kernel drops its packets.
Banned == {ip \in Ips : RecordedLive(ip) /\ rules[ip] > 0}

Promise == INSTANCE TimedBlock WITH
    banned <- Banned,
    until <- [ip \in Ips |-> IF ip \in Banned THEN row[ip].expires ELSE Null],
    clock <- now

\* With the engine as the only remover, the blocklist keeps TimedBlock's promise:
\* bans last their whole duration, and every one that is due is lifted.
KeepsThePromise == Promise!Spec
=============================================================================
