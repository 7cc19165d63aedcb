------------------------- MODULE MCHostAssociation -------------------------
(* HostAssociation with every host matching every machine's selector.      *)
EXTENDS HostAssociation, TLC

AnyHost == [m \in Machines |-> Hosts]

\* Machines and hosts are interchangeable: names are only compared.
Symmetric == Permutations(Machines) \cup Permutations(Hosts)
=============================================================================
