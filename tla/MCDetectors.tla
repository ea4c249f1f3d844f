----------------------------- MODULE MCDetectors -----------------------------
(***************************************************************************)
(* A small network for module Detectors: a source that opens connections   *)
(* to two ports, keeps one of them, sends pings and DNS queries; a second  *)
(* source; two DHCP servers.                                               *)
(***************************************************************************)
EXTENDS Detectors

CONSTANTS a, b, victim, none

Quiet == [src |-> a, sport |-> 1, dst |-> victim, dport |-> 80, proto |-> "TCP",
          flags |-> {"A"}, length |-> 1, ttl |-> 1, query |-> none, offer |-> FALSE]

Syn == [Quiet EXCEPT !.flags = {"S"}]

Query(label) == [Quiet EXCEPT !.proto = "UDP", !.dport = 53, !.flags = {},
                              !.query = [base |-> "zone", label |-> label]]

Offer(server) == [Quiet EXCEPT !.src = server, !.proto = "UDP", !.dport = 68, !.flags = {},
                               !.offer = TRUE]

MCPackets ==
    { [Quiet EXCEPT !.length = 3, !.ttl = 3],               \* data, from another host,
      [Syn EXCEPT !.sport = 2],                             \* another connection,
      [Syn EXCEPT !.dport = 22],                            \* another port
      [Quiet EXCEPT !.proto = "ICMP", !.sport = none, !.dport = none, !.flags = {}],
      Query("www"), Query("x1"),
      Offer(a), Offer(b) }
=============================================================================
