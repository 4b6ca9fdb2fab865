-------------------------------- MODULE MCIpam --------------------------------
(* Small instances of Ipam.                                                *)
EXTENDS Ipam, TLC

CONSTANTS p1, p2, p3    \* the processes

\* Which host each process runs on.
OneHost == [p \in Procs |-> 1]
TwoHosts == [p \in Procs |-> IF p = p3 THEN 2 ELSE 1]
OwnHost == [p \in Procs |-> CASE p = p1 -> 1 [] p = p2 -> 2 [] p = p3 -> 3]

\* Which ADDs never overlap: any two, two of one host, none.
ClusterSerial == Procs \X Procs
HostSerial == {pq \in Procs \X Procs : HostOf[pq[1]] = HostOf[pq[2]]}
Overlapping == {}

\* With TwoHosts the processes of host 1 are interchangeable.
SameHostSymmetry == Permutations({p1, p2})

\* Of a process that has ended, what it had at hand is gone: no step and no
\* property of ipam_host_serial reads it, and states that differ in nothing else
\* count as one.
AtHand(p) == <<cont[p], runs[p], snap[p], net[p], seen[p], ip[p], node[p], created[p]>>
LiveView ==
    <<etcd, pc, drew, podIP, gw, bridge, result,
      [p \in {q \in Procs : pc[q] \notin Ended} |-> AtHand(p)]>>
===============================================================================
