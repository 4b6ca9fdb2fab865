--------------------------------- MODULE Ipam ---------------------------------
(***************************************************************************)
(* The etcd-backed address management of the vlhost CNI plugin             *)
(* (cnis/vlhostcni/pkg/ipam/ipam.go) as cmdAdd drives it                   *)
(* (cnis/vlhostcni/cmd/cni/main.go).                                       *)
(*                                                                         *)
(* Every CNI ADD is an operating-system process of its own, so the mutex   *)
(* _lock of ipam.go orders nothing between two ADDs: what they share is    *)
(* etcd, and each etcd Get or Put is one atomic step here.  A process may  *)
(* be killed between any two of them.                                      *)
(*                                                                         *)
(* The /24 networks are numbered by their place in the address space, and  *)
(* an address is network * NetSize + last octet (NetSize is 256 in the     *)
(* code).  The empty string, which an absent etcd key reads as, is NoNet;  *)
(* InetIP2Int("") is 0, as is Base(NoNet).                                 *)
(***************************************************************************)
EXTENDS Naturals, Sequences, FiniteSets

CONSTANTS
    Procs,          \* the ADD processes, each runs once
    NumHosts,       \* the cluster nodes are 1 .. NumHosts, in etcd key order
    HostOf,         \* the node a process runs on
    FirstNet,       \* the first network cut out of the subnet
    NumNets,        \* how many there are (256 in the code)
    NetSize,        \* addresses per network
    NeverOverlap,   \* pairs of ADDs their callers never run at the same time
    EtcdFailsFor    \* the processes whose etcd requests may return an error

ASSUME IpamAssumption ==
    /\ NumHosts \in Nat \ {0}
    /\ HostOf \in [Procs -> 1 .. NumHosts]
    /\ FirstNet \in Nat \ {0}
    /\ NumNets \in Nat \ {0}
    /\ NetSize \in Nat /\ NetSize > 2
    /\ NeverOverlap \subseteq Procs \X Procs
    /\ EtcdFailsFor \subseteq Procs

Hosts == 1 .. NumHosts
NoNet == 0
Nets == FirstNet .. (FirstNet + NumNets - 1)
AllNets == [i \in 1 .. NumNets |-> FirstNet + i - 1]

Base(n) == n * NetSize
NetOf(a) == a \div NetSize
IsGatewayIP(a) == a % NetSize = 1
IsRetainIP(a) == a % NetSize = 0

\* strings.Split(pool, ";")[0] and [1:], on the empty string too
FirstOf(s) == IF s = <<>> THEN NoNet ELSE Head(s)
\* Seeded fault: the network handed out stays in the pool.
RestOfKeeps(s) == s
RestOf(s) == IF s = <<>> THEN <<>> ELSE Tail(s)

\* An address as the strings of the record and of cmdAdd spell it: the record
\* holds it bare, cmdAdd appends "/24" before it calls anything else.
Bare(a) == [addr |-> a, suffix |-> ""]
WithMask(a) == [addr |-> a, suffix |-> "/24"]

VARIABLES
    \* etcd
    pool,       \* the networks still in the pool key, in order
    hostNet,    \* hostNet[h]: the network stored under host h's key
    record,     \* record[h][n]: the addresses stored under h's key for network n
    \* one ADD process
    pc, cont, runs,    \* next step; step after GetIpamService; its pending runs
    snap,       \* _NetworkInit's copy of the pool
    net, seen,  \* currentNetwork and allUsedIPs of the operation under way
    drew,       \* currentNetwork of the last nextUnusedIP
    ip,         \* what nextUnusedIP returned
    podIP,      \* the address UnusedIP returned, 0 before
    gw, bridge, \* gateWay and gateWayWithMaskSegment
    node,       \* the host AllHostNetwork asks for
    created,    \* whether the bridge and veth pair were created without error
    result      \* the address PrintResult reports, 0 before

etcd == <<pool, hostNet, record>>
control == <<pc, cont, runs>>
alloc == <<net, seen, drew, ip, podIP>>
rest == <<gw, bridge, node, created, result>>
vars == <<etcd, control, snap, alloc, rest>>

InitSteps == {"poolGet", "poolSet", "netGet", "netPool", "netSetHost", "netSetPool"}
Returns == {"gateway", "bridge", "netns", "useNet", "useRec", "setNet", "setGet",
            "setPut", "relNet", "relGet", "relPut", "cidr", "routes"}
Ended == {"done", "failed", "dead"}
Steps == InitSteps \cup Returns \cup {"idle", "create", "nodes"} \cup Ended

Running(p) == pc[p] \notin Ended \cup {"idle"}

Init ==
    /\ pool = <<>>
    /\ hostNet = [h \in Hosts |-> NoNet]
    /\ record = [h \in Hosts |-> [n \in Nets \cup {NoNet} |-> {}]]
    /\ pc = [p \in Procs |-> "idle"]
    /\ cont = [p \in Procs |-> "gateway"]
    /\ runs = [p \in Procs |-> 0]
    /\ snap = [p \in Procs |-> <<>>]
    /\ net = [p \in Procs |-> NoNet]
    /\ seen = [p \in Procs |-> {}]
    /\ drew = [p \in Procs |-> NoNet]
    /\ ip = [p \in Procs |-> 0]
    /\ podIP = [p \in Procs |-> 0]
    /\ gw = [p \in Procs |-> 0]
    /\ bridge = [p \in Procs |-> 0]
    /\ node = [p \in Procs |-> 1]
    /\ created = [p \in Procs |-> FALSE]
    /\ result = [p \in Procs |-> 0]

-------------------------------------------------------------------------------
(* Control.                                                                *)

Goto(p, step) ==
    /\ pc' = [pc EXCEPT ![p] = step]
    /\ UNCHANGED <<cont, runs>>

\* Run GetIpamService n times, then step.  getHostPath runs it twice, once in
\* getIpamSubnet and once in getIpamMaskSegment: _ipam is local to the closure,
\* so nothing is cached between the calls.
Call(p, n, step) ==
    /\ pc' = [pc EXCEPT ![p] = "poolGet"]
    /\ cont' = [cont EXCEPT ![p] = step]
    /\ runs' = [runs EXCEPT ![p] = n]

Return(p) ==
    /\ pc' = [pc EXCEPT ![p] = IF runs[p] > 1 THEN "poolGet" ELSE cont[p]]
    /\ runs' = [runs EXCEPT ![p] = runs[p] - 1]
    /\ UNCHANGED cont

\* The process ends without a result, and what it had in memory is gone.  drew,
\* podIP and created stay as the history of what it did, and so does the copy of
\* the pool of one that ends when only the pool is still to be stored.
End(p, how) ==
    /\ Goto(p, how)
    /\ net' = [net EXCEPT ![p] = NoNet]
    /\ seen' = [seen EXCEPT ![p] = {}]
    /\ ip' = [ip EXCEPT ![p] = 0]
    /\ gw' = [gw EXCEPT ![p] = 0]
    /\ bridge' = [bridge EXCEPT ![p] = 0]
    /\ node' = [node EXCEPT ![p] = 1]
    /\ snap' = IF pc[p] = "netSetPool" THEN snap ELSE [snap EXCEPT ![p] = <<>>]
    /\ UNCHANGED <<etcd, drew, podIP, created, result>>

\* The container runtime starts the ADD: GetIpamService, then Gateway's
\* getHostPath.
Begin(p) ==
    /\ pc[p] = "idle"
    /\ \A q \in Procs : <<p, q>> \in NeverOverlap => ~Running(q)
    /\ Call(p, 3, "gateway")
    /\ UNCHANGED <<etcd, snap, alloc, rest>>

-------------------------------------------------------------------------------
(* GetIpamService: _IPsPoolInit, then _NetworkInit.                        *)

PoolGet(p) ==
    /\ pc[p] = "poolGet"
    /\ Goto(p, IF pool = <<>> THEN "poolSet" ELSE "netGet")
    /\ UNCHANGED <<etcd, snap, alloc, rest>>

PoolSet(p) ==
    /\ pc[p] = "poolSet"
    /\ pool' = AllNets
    /\ Goto(p, "netGet")
    /\ UNCHANGED <<hostNet, record, snap, alloc, rest>>

NetGetFound(p) ==
    /\ pc[p] = "netGet"
    /\ hostNet[HostOf[p]] # NoNet
    /\ Return(p)
    /\ UNCHANGED <<etcd, snap, alloc, rest>>

\* Seeded fault: the network stored before is not looked at.
NetGetAlways(p) ==
    /\ pc[p] = "netGet"
    /\ Goto(p, "netPool")
    /\ UNCHANGED <<etcd, snap, alloc, rest>>

NetGetEmpty(p) ==
    /\ pc[p] = "netGet"
    /\ hostNet[HostOf[p]] = NoNet
    /\ Goto(p, "netPool")
    /\ UNCHANGED <<etcd, snap, alloc, rest>>

NetPool(p) ==
    /\ pc[p] = "netPool"
    /\ snap' = [snap EXCEPT ![p] = pool]
    /\ Goto(p, "netSetHost")
    /\ UNCHANGED <<etcd, alloc, rest>>

NetSetHost(p) ==
    /\ pc[p] = "netSetHost"
    /\ hostNet' = [hostNet EXCEPT ![HostOf[p]] = FirstOf(snap[p])]
    /\ Goto(p, "netSetPool")
    /\ UNCHANGED <<pool, record, snap, alloc, rest>>

NetSetPool(p) ==
    /\ pc[p] = "netSetPool"
    /\ pool' = RestOf(snap[p])
    /\ snap' = [snap EXCEPT ![p] = <<>>]
    /\ Return(p)
    /\ UNCHANGED <<hostNet, record, alloc, rest>>

-------------------------------------------------------------------------------
(* cmdAdd up to the allocation: Gateway, GatewayWithMaskSegment (which     *)
(* asks for the mask after it read the network), GetNS.                    *)

Gateway(p) ==
    /\ pc[p] = "gateway"
    /\ gw' = [gw EXCEPT ![p] = Base(hostNet[HostOf[p]]) + 1]
    /\ Call(p, 2, "bridge")
    /\ UNCHANGED <<etcd, snap, alloc, bridge, node, created, result>>

GatewayWithMaskSegment(p) ==
    /\ pc[p] = "bridge"
    /\ bridge' = [bridge EXCEPT ![p] = Base(hostNet[HostOf[p]]) + 1]
    /\ Call(p, 1, "netns")
    /\ UNCHANGED <<etcd, snap, alloc, gw, node, created, result>>

GetNS(p) ==
    /\ pc[p] = "netns"
    /\ Call(p, 2, "useNet")
    /\ UNCHANGED <<etcd, snap, alloc, rest>>

-------------------------------------------------------------------------------
(* UnusedIP: nextUnusedIP (reads host key and record), then Set.IPs, which *)
(* reads both again and writes the record.  A reserved address is recorded *)
(* and the loop goes round.                                                *)

IsMax(m, S) == m \in S /\ \A a \in S : a <= m

NextUnused(a, n, S) ==
    \/ S = {} /\ a = Base(n) + 2
    \/ \E m \in S : IsMax(m, S) /\ a = m + 1

UseNet(p) ==
    /\ pc[p] = "useNet"
    /\ net' = [net EXCEPT ![p] = hostNet[HostOf[p]]]
    /\ drew' = [drew EXCEPT ![p] = hostNet[HostOf[p]]]
    /\ Call(p, 2, "useRec")
    /\ UNCHANGED <<etcd, snap, seen, ip, podIP, rest>>

\* Seeded fault: one address is skipped each time.
UseRecSkips(p) ==
    /\ pc[p] = "useRec"
    /\ LET used == record[HostOf[p]][net[p]]
       IN \E a \in {Base(net[p]) + 2} \cup {m + 1 : m \in used} :
            /\ NextUnused(a, net[p], used)
            /\ ip' = [ip EXCEPT ![p] = a + 1]
    /\ Call(p, 2, "setNet")
    /\ UNCHANGED <<etcd, snap, net, seen, drew, podIP, rest>>

UseRec(p) ==
    /\ pc[p] = "useRec"
    /\ LET used == record[HostOf[p]][net[p]]
       IN \E a \in {Base(net[p]) + 2} \cup {m + 1 : m \in used} :
            /\ NextUnused(a, net[p], used)
            /\ ip' = [ip EXCEPT ![p] = a]
    /\ Call(p, 2, "setNet")
    /\ UNCHANGED <<etcd, snap, net, seen, drew, podIP, rest>>

SetNet(p) ==
    /\ pc[p] = "setNet"
    /\ net' = [net EXCEPT ![p] = hostNet[HostOf[p]]]
    /\ Call(p, 2, "setGet")
    /\ UNCHANGED <<etcd, snap, seen, drew, ip, podIP, rest>>

SetGet(p) ==
    /\ pc[p] = "setGet"
    /\ seen' = [seen EXCEPT ![p] = record[HostOf[p]][net[p]]]
    /\ Call(p, 2, "setPut")
    /\ UNCHANGED <<etcd, snap, net, drew, ip, podIP, rest>>

\* Set.IPs returned nil: UnusedIP tries again after a reserved address and
\* otherwise returns the address.
\* Seeded fault: only the network address is kept back.
ReservedNoGateway(a) == IsRetainIP(a)
Reserved(a) == IsGatewayIP(a) \/ IsRetainIP(a)

AfterSet(p) ==
    /\ seen' = [seen EXCEPT ![p] = {}]
    /\ \/ /\ Reserved(ip[p])
          /\ Call(p, 2, "useNet")
          /\ UNCHANGED podIP
       \/ /\ ~Reserved(ip[p])
          /\ podIP' = [podIP EXCEPT ![p] = ip[p]]
          /\ Goto(p, "create")
    /\ UNCHANGED <<pool, hostNet, snap, net, drew, ip, rest>>

\* Seeded fault: a reserved address is skipped without being recorded.
SetPutSkips(p) ==
    /\ pc[p] = "setPut"
    /\ record' = IF Reserved(ip[p]) THEN record
                 ELSE [record EXCEPT ![HostOf[p]][net[p]] = seen[p] \cup {ip[p]}]
    /\ AfterSet(p)

SetPut(p) ==
    /\ pc[p] = "setPut"
    /\ record' = [record EXCEPT ![HostOf[p]][net[p]] = seen[p] \cup {ip[p]}]
    /\ AfterSet(p)

\* The error of the etcd Put is dropped (ipam.go:211).
SetPutLost(p) ==
    /\ p \in EtcdFailsFor
    /\ pc[p] = "setPut"
    /\ AfterSet(p)
    /\ UNCHANGED record

-------------------------------------------------------------------------------
(* The rest of cmdAdd: the network devices (only whether they could be     *)
(* made), Release.IPs when they could not, AllHostNetwork, HostNetwork and *)
(* the routes, the result.                                                 *)

Create(p) ==
    /\ pc[p] = "create"
    /\ created' = [created EXCEPT ![p] = TRUE]
    /\ Goto(p, "nodes")
    /\ UNCHANGED <<etcd, snap, alloc, gw, bridge, node, result>>

CreateFailed(p) ==
    /\ pc[p] = "create"
    /\ Call(p, 2, "relNet")
    /\ UNCHANGED <<etcd, snap, alloc, rest>>

RelNet(p) ==
    /\ pc[p] = "relNet"
    /\ net' = [net EXCEPT ![p] = hostNet[HostOf[p]]]
    /\ Call(p, 2, "relGet")
    /\ UNCHANGED <<etcd, snap, seen, drew, ip, podIP, rest>>

RelGet(p) ==
    /\ pc[p] = "relGet"
    /\ seen' = [seen EXCEPT ![p] = record[HostOf[p]][net[p]]]
    /\ Call(p, 2, "relPut")
    /\ UNCHANGED <<etcd, snap, net, drew, ip, podIP, rest>>

\* What stays of the addresses read when Release.IPs gives back s.
\* Seeded fault: the mask is ignored, while cmdAdd still goes on to report success.
RemainingIgnoresMask(used, s) == {a \in used : a # s.addr}
Remaining(used, s) == {a \in used : Bare(a) # s}

RelPut(p) ==
    /\ pc[p] = "relPut"
    /\ record' = [record EXCEPT ![HostOf[p]][net[p]] =
                    Remaining(seen[p], WithMask(podIP[p]))]
    /\ seen' = [seen EXCEPT ![p] = {}]
    /\ Goto(p, "nodes")
    /\ UNCHANGED <<pool, hostNet, snap, net, drew, ip, podIP, rest>>

\* AllHostNetwork: the node names, then NodeIp and CIDR of each in turn.
Nodes(p) ==
    /\ pc[p] = "nodes"
    /\ node' = [node EXCEPT ![p] = 1]
    /\ Call(p, 2, "cidr")
    /\ UNCHANGED <<etcd, snap, alloc, gw, bridge, created, result>>

CidrFound(p) ==
    /\ pc[p] = "cidr"
    /\ hostNet[node[p]] # NoNet
    /\ \/ /\ node[p] < NumHosts
          /\ node' = [node EXCEPT ![p] = node[p] + 1]
          /\ Call(p, 2, "cidr")
       \/ /\ node[p] = NumHosts
          /\ UNCHANGED node
          /\ Call(p, 1, "routes")
    /\ UNCHANGED <<etcd, snap, alloc, gw, bridge, created, result>>

CidrNotFound(p) ==
    /\ pc[p] = "cidr"
    /\ hostNet[node[p]] = NoNet
    /\ End(p, "failed")

\* net.ParseCIDR's second result is the network of the CIDR, not its address.
Finish(p) ==
    /\ pc[p] = "routes"
    /\ result' = [result EXCEPT ![p] = Base(NetOf(podIP[p]))]
    /\ Goto(p, "done")
    /\ UNCHANGED <<etcd, snap, alloc, gw, bridge, node, created>>

-------------------------------------------------------------------------------
(* Failures.                                                               *)

\* GetNS finds no namespace; HostNetwork, the routes or iptables fail.
HostError(p) ==
    /\ pc[p] \in {"netns", "routes"}
    /\ End(p, "failed")

\* An etcd request fails.  The error ends the ADD: it is returned, or
\* getIpamSubnet drops it and dereferences the nil service.  Only a request
\* of Release.IPs itself is logged and passed over.
EtcdError(p) ==
    /\ p \in EtcdFailsFor
    /\ \/ /\ pc[p] \in (InitSteps \cup Returns \cup {"nodes"})
                       \ {"setPut", "relNet", "relGet", "relPut"}
          /\ End(p, "failed")
       \/ /\ pc[p] \in {"relNet", "relGet", "relPut"}
          /\ Goto(p, "nodes")
          /\ UNCHANGED <<etcd, snap, alloc, rest>>

\* The process is killed, by the runtime's timeout for instance.
Crash(p) ==
    /\ Running(p)
    /\ End(p, "dead")

-------------------------------------------------------------------------------
GetIpamService(p) ==
    \/ PoolGet(p) \/ PoolSet(p) \/ NetGetFound(p) \/ NetGetEmpty(p)
    \/ NetPool(p) \/ NetSetHost(p) \/ NetSetPool(p)

UnusedIP(p) ==
    UseNet(p) \/ UseRec(p) \/ SetNet(p) \/ SetGet(p) \/ SetPut(p)

ReleaseIPs(p) == RelNet(p) \/ RelGet(p) \/ RelPut(p)

AllHostNetwork(p) == Nodes(p) \/ CidrFound(p) \/ CidrNotFound(p)

\* What the program does when nothing outside it goes wrong.
Step(p) ==
    \/ GetIpamService(p)
    \/ Gateway(p) \/ GatewayWithMaskSegment(p) \/ GetNS(p)
    \/ UnusedIP(p)
    \/ Create(p) \/ CreateFailed(p) \/ ReleaseIPs(p)
    \/ AllHostNetwork(p) \/ Finish(p)

Next == \E p \in Procs :
    Begin(p) \/ Step(p) \/ SetPutLost(p) \/ HostError(p) \/ EtcdError(p) \/ Crash(p)

Spec == Init /\ [][Next]_vars

\* The operating system schedules a running process; nothing else is assumed.
Fairness == \A p \in Procs : WF_vars(Step(p))

FairSpec == Spec /\ Fairness

-------------------------------------------------------------------------------
(* Properties.                                                             *)

NetsOrNone == Nets \cup {NoNet}

TypeOK ==
    /\ pool \in Seq(NetsOrNone)
    /\ hostNet \in [Hosts -> NetsOrNone]
    /\ record \in [Hosts -> [NetsOrNone -> SUBSET Nat]]
    /\ pc \in [Procs -> Steps]
    /\ cont \in [Procs -> Returns]
    /\ runs \in [Procs -> Nat]
    /\ snap \in [Procs -> Seq(NetsOrNone)]
    /\ net \in [Procs -> NetsOrNone]
    /\ seen \in [Procs -> SUBSET Nat]
    /\ drew \in [Procs -> NetsOrNone]
    /\ ip \in [Procs -> Nat]
    /\ podIP \in [Procs -> Nat]
    /\ gw \in [Procs -> Nat]
    /\ bridge \in [Procs -> Nat]
    /\ node \in [Procs -> Hosts]
    /\ created \in [Procs -> BOOLEAN]
    /\ result \in [Procs -> Nat]

Given(p) == podIP[p] # 0
SameHost(p, q) == HostOf[p] = HostOf[q]

\* No pod gets an address that is some host's gateway or bridge address, not
\* even when the addresses of its own network are used up and nextUnusedIP runs
\* on into the network of the next host (isGatewayIP and isRetainIP in UnusedIP).
PodIPIsNoGateway ==
    \A p, q \in Procs : Given(p) => podIP[p] # gw[q] /\ podIP[p] # bridge[q]

\* Two ADDs of one host that drew from the same network hand out different
\* addresses, whichever of them were killed, failed or released theirs
\* (nextUnusedIP and Set.IPs; holds when the ADDs of a host do not overlap).
UniqueOnNetwork ==
    \A p, q \in Procs :
        p # q /\ SameHost(p, q) /\ Given(p) /\ Given(q) /\ drew[p] = drew[q]
            => podIP[p] # podIP[q]

\* A host that has a network keeps it: the record, the bridge address and the
\* routes of the other hosts all depend on it (_NetworkInit).
HostNetworkStable ==
    [][\A h \in Hosts : hostNet[h] # NoNet => hostNet'[h] = hostNet[h]]_vars

\* The hosts for which an ADD ended between its two writes in _NetworkInit: they
\* have a network that is still in the pool.
TornHosts == {HostOf[p] : p \in {q \in Procs : pc[q] \in Ended /\ snap[q] # <<>>}}

Owners(n) == {h \in Hosts : hostNet[h] = n}

\* With ADDs that do not overlap the networks are given out in turn: no network
\* gets one more host before all the others have as many, so that two hosts share
\* one only when there are more hosts than networks, and the emptied pool was
\* filled anew.  An ADD that ended after it stored its host's network and before
\* it stored the pool (ipam.go:236-249) makes its own host share a network, and
\* upsets the turn of no other.
EvenUpToTorn ==
    \A m, n \in Nets :
        Cardinality(Owners(m) \ TornHosts) <= Cardinality(Owners(n) \ TornHosts) + 1

\* Every address of host h was drawn when h had a network.  It has none when other
\* hosts empty the pool between all its calls of _IPsPoolInit and _NetworkInit; it
\* then draws address 2 of no network, which Set.IPs may record under the network
\* the host gets next, so that nextUnusedIP goes on from there.
DrawnOnNet(h) == \A q \in Procs : HostOf[q] = h /\ Given(q) => drew[q] # NoNet

Usable(n) == {a \in Base(n) .. (Base(n + 1) - 1) : ~Reserved(a)}

\* A host whose addresses were drawn from a network hands out addresses beyond it
\* only when it has used up all that the network has to give: nextUnusedIP leaves
\* no gap behind, whichever ADDs were killed, failed or gave their address back.
LeavesOnlyWhenFull ==
    \A p \in Procs : Given(p) /\ NetOf(podIP[p]) # drew[p] /\ DrawnOnNet(HostOf[p])
        => Usable(drew[p]) \subseteq record[HostOf[p]][drew[p]]

\* As a host and its ADDs see it when the ADDs of a host do not overlap.
Book == INSTANCE AddressBook WITH
    network <- hostNet,
    book <- record,
    given <- podIP,
    KeptBack <- {a \in Nat : Reserved(a)}

\* An ADD is given its address as if in one step, the next of its host's book,
\* and nothing is ever struck out of a book: the some twenty reads of the host's
\* network and of the record, the record written back whole and Release.IPs
\* come to that (ipam.go:179-250, 465-581; holds when the ADDs of a host do not
\* overlap and etcd answers).
BookSpec == Book!Spec

\* An ADD that has started comes to an end: the allocation loop of UnusedIP
\* cannot go round for ever, however the ADDs of a host overwrite each other's
\* record, as long as etcd answers.
AddEnds == \A p \in Procs : Running(p) ~> pc[p] \in Ended
===============================================================================
