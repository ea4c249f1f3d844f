----------------------------- MODULE MCForwarding -----------------------------
(***************************************************************************)
(* What the collector of Forwarding captures: packets of the three layers, *)
(* one inside another, an empty one, one beyond the largest size, and a    *)
(* frame of some other protocol.                                           *)
(***************************************************************************)
EXTENDS Forwarding

MCPackets ==
    {[layers |-> {"IPv6"}, size |-> 3],
     [layers |-> {"ARP"}, size |-> 1],
     [layers |-> {"IP", "IPv6"}, size |-> 2],
     [layers |-> {"IPv6"}, size |-> 4],
     [layers |-> {"IP"}, size |-> 0],
     [layers |-> {}, size |-> 1]}
=============================================================================
