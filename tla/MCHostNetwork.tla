----------------------------- MODULE MCHostNetwork -----------------------------
(* Small instances of HostNetwork.                                         *)
EXTENDS HostNetwork

CONSTANTS p1, p2, n1, n2

MCAdds == {p1, p2}
MCNets == {n1, n2}

\* The two other nodes have a network each, or the same one.
MCCidrs == {<<n1, n2>>, <<n1, n1>>}
===============================================================================
