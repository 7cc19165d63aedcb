---------------------------- MODULE MCHostAgent ----------------------------
(* HostAgent with random hostnames, with a hostname of its own for every   *)
(* box, and with one hostname for all boxes.                               *)
EXTENDS HostAgent

RandomHostname == [b \in Boxes |-> Random]

OwnHostname == [b \in Boxes |-> b]

SameHostname == [b \in Boxes |-> CHOOSE box \in Boxes : TRUE]
=============================================================================
