------------------------------ MODULE IpamProofs ------------------------------
(* Proofs about Ipam, for any number of processes, hosts and networks.     *)
EXTENDS Ipam, Integers, TLAPS, FiniteSetTheorems

LEMMA BaseType == \A n \in Nat : Base(n) \in Nat
  BY IpamAssumption DEF Base

LEMMA NetOfType == \A a \in Nat : NetOf(a) \in Nat
  BY IpamAssumption DEF NetOf

LEMMA AllNetsType == AllNets \in Seq(NetsOrNone)
<1>1. \A i \in 1 .. NumNets : FirstNet + i - 1 \in NetsOrNone
  BY IpamAssumption DEF NetsOrNone, Nets
<1> QED
  BY <1>1, IpamAssumption DEF AllNets

LEMMA PoolType ==
    ASSUME NEW s \in Seq(NetsOrNone)
    PROVE  FirstOf(s) \in NetsOrNone /\ RestOf(s) \in Seq(NetsOrNone)
<1>1. CASE s = <<>>
  BY <1>1 DEF FirstOf, RestOf, NetsOrNone
<1>2. CASE s # <<>>
  BY <1>2 DEF FirstOf, RestOf
<1> QED
  BY <1>1, <1>2

LEMMA NetsNat == NetsOrNone \subseteq Nat
  BY IpamAssumption DEF NetsOrNone, Nets, NoNet

\* A process inside GetIpamService has a run of it to finish.
RunsLeft == \A p \in Procs : pc[p] \in InitSteps => runs[p] > 0

Typed == TypeOK /\ RunsLeft

LEMMA TypedInit == Init => Typed
  BY IpamAssumption DEF Init, Typed, TypeOK, RunsLeft, Hosts, NetsOrNone, NoNet,
     Steps, Returns, InitSteps

USE DEF etcd, control, alloc, rest, vars

LEMMA CallTyped ==
    ASSUME Typed, NEW p \in Procs, NEW n \in {1, 2, 3}, NEW step \in Returns, Call(p, n, step)
    PROVE  /\ pc' \in [Procs -> Steps] /\ cont' \in [Procs -> Returns]
           /\ runs' \in [Procs -> Nat] /\ RunsLeft'
<1>1. "poolGet" \in Steps /\ n \in Nat /\ n > 0
  BY DEF Steps, InitSteps
<1> QED
  BY <1>1 DEF Typed, TypeOK, RunsLeft, Call

LEMMA GotoTyped ==
    ASSUME Typed, NEW p \in Procs, NEW step \in Steps, Goto(p, step),
           step \in InitSteps => pc[p] \in InitSteps
    PROVE  /\ pc' \in [Procs -> Steps] /\ cont' \in [Procs -> Returns]
           /\ runs' \in [Procs -> Nat] /\ RunsLeft'
  BY DEF Typed, TypeOK, RunsLeft, Goto

LEMMA ReturnTyped ==
    ASSUME Typed, NEW p \in Procs, Return(p), pc[p] \in InitSteps
    PROVE  /\ pc' \in [Procs -> Steps] /\ cont' \in [Procs -> Returns]
           /\ runs' \in [Procs -> Nat] /\ RunsLeft'
<1>1. Returns \cap InitSteps = {} /\ "poolGet" \in Steps /\ Returns \subseteq Steps
  BY DEF Returns, InitSteps, Steps
<1>2. runs[p] \in Nat /\ runs[p] > 0 /\ cont[p] \in Returns
  BY DEF Typed, TypeOK, RunsLeft
<1>3. CASE runs[p] > 1
  <2>1. pc' = [pc EXCEPT ![p] = "poolGet"] /\ runs' = [runs EXCEPT ![p] = runs[p] - 1]
        /\ cont' = cont
    BY <1>3 DEF Return
  <2>2. runs[p] - 1 \in Nat /\ runs[p] - 1 > 0
    BY <1>2, <1>3
  <2> QED
    BY <1>1, <2>1, <2>2 DEF Typed, TypeOK, RunsLeft
<1>4. CASE ~(runs[p] > 1)
  <2>1. pc' = [pc EXCEPT ![p] = cont[p]] /\ runs' = [runs EXCEPT ![p] = runs[p] - 1]
        /\ cont' = cont
    BY <1>4 DEF Return
  <2>2. runs[p] - 1 \in Nat
    BY <1>2
  <2> QED
    BY <1>1, <1>2, <2>1, <2>2 DEF Typed, TypeOK, RunsLeft
<1> QED
  BY <1>3, <1>4

LEMMA EndTyped ==
    ASSUME Typed, NEW p \in Procs, NEW how \in Ended, End(p, how)
    PROVE  Typed'
<1>1. how \in Steps /\ how \notin InitSteps
  BY DEF Ended, Steps, InitSteps
<1>2. Goto(p, how)
  BY DEF End
<1>3. 1 \in Hosts /\ NoNet \in NetsOrNone
  BY IpamAssumption DEF Hosts, NetsOrNone
<1>4. snap' \in [Procs -> Seq(NetsOrNone)]
  <2>1. <<>> \in Seq(NetsOrNone)
    OBVIOUS
  <2>2. snap' = snap \/ snap' = [snap EXCEPT ![p] = <<>>]
    BY DEF End
  <2> QED
    BY <2>1, <2>2 DEF Typed, TypeOK
<1> QED
  BY <1>1, <1>2, <1>3, <1>4, GotoTyped DEF End, Typed, TypeOK

LEMMA TypedStep == Typed /\ [Next]_vars => Typed'
<1> SUFFICES ASSUME Typed, [Next]_vars PROVE Typed'
  OBVIOUS
<1> USE DEF Typed
<1>0. CASE UNCHANGED vars
  BY <1>0 DEF TypeOK, RunsLeft
<1>1. SUFFICES ASSUME NEW p \in Procs,
                      \/ Begin(p) \/ Step(p) \/ SetPutLost(p)
                      \/ HostError(p) \/ EtcdError(p) \/ Crash(p)
               PROVE  Typed'
  BY <1>0 DEF Next
<1>s. /\ HostOf[p] \in Hosts /\ hostNet[HostOf[p]] \in NetsOrNone
      /\ net[p] \in NetsOrNone
  BY IpamAssumption DEF TypeOK, Hosts
<1>t. /\ Base(hostNet[HostOf[p]]) \in Nat /\ Base(net[p]) \in Nat
      /\ record[HostOf[p]][net[p]] \in SUBSET Nat
  <2>1. hostNet[HostOf[p]] \in Nat /\ net[p] \in Nat
    BY <1>s, NetsNat
  <2>2. Base(hostNet[HostOf[p]]) \in Nat /\ Base(net[p]) \in Nat
    BY <2>1, BaseType
  <2>3. record[HostOf[p]][net[p]] \in SUBSET Nat
    BY <1>s DEF TypeOK
  <2> QED
    BY <2>2, <2>3
<1>c. {"gateway", "bridge", "netns", "useNet", "useRec", "setNet", "setGet", "setPut",
       "relNet", "relGet", "relPut", "cidr", "routes"} \subseteq Returns
  BY DEF Returns
<1>2. CASE Begin(p)
  BY <1>2, <1>s, <1>t, <1>c, CallTyped DEF Begin, TypeOK
<1>3. CASE PoolGet(p)
  <2>1. {"poolSet", "netGet"} \subseteq Steps /\ pc[p] \in InitSteps
    BY <1>3 DEF PoolGet, Steps, InitSteps
  <2> QED
    BY <2>1, <1>3, GotoTyped DEF PoolGet, TypeOK
<1>4. CASE PoolSet(p)
  <2>1. "netGet" \in Steps /\ pc[p] \in InitSteps
    BY <1>4 DEF PoolSet, Steps, InitSteps
  <2> QED
    BY <2>1, <1>4, GotoTyped, AllNetsType DEF PoolSet, TypeOK
<1>5. CASE NetGetFound(p)
  <2>1. pc[p] \in InitSteps
    BY <1>5 DEF NetGetFound, InitSteps
  <2> QED
    BY <2>1, <1>5, ReturnTyped DEF NetGetFound, TypeOK
<1>6. CASE NetGetEmpty(p)
  <2>1. "netPool" \in Steps /\ pc[p] \in InitSteps
    BY <1>6 DEF NetGetEmpty, Steps, InitSteps
  <2> QED
    BY <2>1, <1>6, GotoTyped DEF NetGetEmpty, TypeOK
<1>7. CASE NetPool(p)
  <2>1. "netSetHost" \in Steps /\ pc[p] \in InitSteps
    BY <1>7 DEF NetPool, Steps, InitSteps
  <2> QED
    BY <2>1, <1>7, GotoTyped DEF NetPool, TypeOK
<1>8. CASE NetSetHost(p)
  <2>1. "netSetPool" \in Steps /\ pc[p] \in InitSteps
    BY <1>8 DEF NetSetHost, Steps, InitSteps
  <2>2. FirstOf(snap[p]) \in NetsOrNone
    BY PoolType DEF TypeOK
  <2> QED
    BY <2>1, <2>2, <1>8, GotoTyped DEF NetSetHost, TypeOK
<1>9. CASE NetSetPool(p)
  <2>1. pc[p] \in InitSteps
    BY <1>9 DEF NetSetPool, InitSteps
  <2>2. RestOf(snap[p]) \in Seq(NetsOrNone)
    BY PoolType DEF TypeOK
  <2>3. pool' \in Seq(NetsOrNone) /\ snap' \in [Procs -> Seq(NetsOrNone)]
    BY <2>2, <1>9 DEF NetSetPool, TypeOK
  <2> QED
    BY <2>1, <2>3, <1>9, ReturnTyped DEF NetSetPool, TypeOK
<1>10. CASE Gateway(p)
  <2>1. gw' \in [Procs -> Nat]
    BY <1>10, <1>t DEF Gateway, TypeOK
  <2> QED
    BY <2>1, <1>10, <1>c, CallTyped DEF Gateway, TypeOK
<1>11. CASE GatewayWithMaskSegment(p)
  <2>1. bridge' \in [Procs -> Nat]
    BY <1>11, <1>t DEF GatewayWithMaskSegment, TypeOK
  <2> QED
    BY <2>1, <1>11, <1>c, CallTyped DEF GatewayWithMaskSegment, TypeOK
<1>12. CASE GetNS(p)
  BY <1>12, <1>s, <1>t, <1>c, CallTyped DEF GetNS, TypeOK
<1>13. CASE UseNet(p)
  BY <1>13, <1>s, <1>t, <1>c, CallTyped DEF UseNet, TypeOK
<1>14. CASE UseRec(p)
  <2>1. PICK a \in {Base(net[p]) + 2} \cup {m + 1 : m \in record[HostOf[p]][net[p]]} :
            ip' = [ip EXCEPT ![p] = a]
    BY <1>14 DEF UseRec
  <2>2. a \in Nat
    BY <1>t
  <2> QED
    BY <2>1, <2>2, <1>14, <1>c, CallTyped DEF UseRec, TypeOK
<1>15. CASE SetNet(p)
  BY <1>15, <1>s, <1>t, <1>c, CallTyped DEF SetNet, TypeOK
<1>16. CASE SetGet(p)
  BY <1>16, <1>s, <1>t, <1>c, CallTyped DEF SetGet, TypeOK
<1>a. ASSUME AfterSet(p)
      PROVE  /\ RunsLeft' /\ pc' \in [Procs -> Steps] /\ cont' \in [Procs -> Returns]
             /\ runs' \in [Procs -> Nat] /\ seen' \in [Procs -> SUBSET Nat]
             /\ podIP' \in [Procs -> Nat]
             /\ UNCHANGED <<pool, hostNet, snap, net, drew, ip, rest>>
  <2>1. /\ seen' \in [Procs -> SUBSET Nat] /\ podIP' \in [Procs -> Nat]
        /\ UNCHANGED <<pool, hostNet, snap, net, drew, ip, rest>>
    BY <1>a DEF AfterSet, TypeOK
  <2>2. Call(p, 2, "useNet") \/ Goto(p, "create")
    BY <1>a DEF AfterSet
  <2>3. "create" \in Steps /\ "create" \notin InitSteps /\ "useNet" \in Returns
    BY DEF Steps, InitSteps, Returns
  <2> QED
    BY <2>1, <2>2, <2>3, CallTyped, GotoTyped
<1>17. CASE SetPut(p)
  <2>1. record' \in [Hosts -> [NetsOrNone -> SUBSET Nat]]
    BY <1>17, <1>s, <1>t DEF SetPut, TypeOK
  <2> QED
    BY <2>1, <1>17, <1>a DEF SetPut, TypeOK
<1>18. CASE SetPutLost(p)
  BY <1>18, <1>a DEF SetPutLost, TypeOK
<1>19. CASE Create(p)
  <2>1. "nodes" \in Steps /\ "nodes" \notin InitSteps
    BY DEF Steps, InitSteps
  <2> QED
    BY <2>1, <1>19, GotoTyped DEF Create, TypeOK
<1>20. CASE CreateFailed(p)
  BY <1>20, <1>s, <1>t, <1>c, CallTyped DEF CreateFailed, TypeOK
<1>21. CASE RelNet(p)
  BY <1>21, <1>s, <1>t, <1>c, CallTyped DEF RelNet, TypeOK
<1>22. CASE RelGet(p)
  BY <1>22, <1>s, <1>t, <1>c, CallTyped DEF RelGet, TypeOK
<1>23. CASE RelPut(p)
  <2>1. "nodes" \in Steps /\ "nodes" \notin InitSteps
    BY DEF Steps, InitSteps
  <2>2. Remaining(seen[p], WithMask(podIP[p])) \in SUBSET Nat
    BY DEF Remaining, TypeOK
  <2>3. record' \in [Hosts -> [NetsOrNone -> SUBSET Nat]]
    BY <2>2, <1>23, <1>s, <1>t DEF RelPut, TypeOK
  <2> QED
    BY <2>1, <2>3, <1>23, GotoTyped DEF RelPut, TypeOK
<1>24. CASE Nodes(p)
  <2>1. 1 \in Hosts
    BY IpamAssumption DEF Hosts
  <2> QED
    BY <2>1, <1>24, <1>c, CallTyped DEF Nodes, TypeOK
<1>25. CASE CidrFound(p)
  <2>1. node[p] \in Hosts /\ (node[p] < NumHosts => node[p] + 1 \in Hosts)
    BY IpamAssumption DEF Hosts, TypeOK
  <2>2. node' \in [Procs -> Hosts]
    BY <2>1, <1>25 DEF CidrFound, TypeOK
  <2>3. Call(p, 2, "cidr") \/ Call(p, 1, "routes")
    BY <1>25 DEF CidrFound
  <2> QED
    BY <2>2, <2>3, <1>25, <1>c, CallTyped DEF CidrFound, TypeOK
<1>26. CASE CidrNotFound(p)
  BY <1>26, EndTyped DEF CidrNotFound, Ended
<1>27. CASE Finish(p)
  <2>1. "done" \in Steps /\ "done" \notin InitSteps
    BY DEF Steps, InitSteps, Ended
  <2>2. Base(NetOf(podIP[p])) \in Nat
    BY BaseType, NetOfType DEF TypeOK
  <2> QED
    BY <2>1, <2>2, <1>27, GotoTyped DEF Finish, TypeOK
<1>28. CASE HostError(p)
  BY <1>28, EndTyped DEF HostError, Ended
<1>29. CASE EtcdError(p)
  <2>1. CASE End(p, "failed")
    BY <2>1, EndTyped DEF Ended
  <2>2. CASE Goto(p, "nodes") /\ UNCHANGED <<etcd, snap, alloc, rest>>
    <3>1. "nodes" \in Steps /\ "nodes" \notin InitSteps
      BY DEF Steps, InitSteps
    <3> QED
      BY <2>2, <3>1, GotoTyped DEF TypeOK
  <2> QED
    BY <2>1, <2>2, <1>29 DEF EtcdError
<1>30. CASE Crash(p)
  BY <1>30, EndTyped DEF Crash, Ended
<1> QED
  BY <1>1, <1>2, <1>3, <1>4, <1>5, <1>6, <1>7, <1>8, <1>9, <1>10, <1>11, <1>12,
     <1>13, <1>14, <1>15, <1>16, <1>17, <1>18, <1>19, <1>20, <1>21, <1>22, <1>23,
     <1>24, <1>25, <1>26, <1>27, <1>28, <1>29, <1>30
     DEF Step, GetIpamService, UnusedIP, ReleaseIPs, AllHostNetwork

\* The state of ipam.go and of cmdAdd is well typed, and a process never
\* returns from a GetIpamService it did not call.
THEOREM TypeCorrect == Spec => [](TypeOK /\ RunsLeft)
<1> QED
  BY TypedInit, TypedStep, PTL DEF Spec, Typed

-------------------------------------------------------------------------------
(* No pod has the address of a gateway, whichever ADDs overlap.            *)

LEMMA DivMod ==
    ASSUME NEW a \in Int, NEW b \in Nat, b > 0
    PROVE  /\ a \div b \in Int /\ a % b \in 0 .. (b - 1)
           /\ a = (b * (a \div b)) + (a % b)
  OBVIOUS

\* n * NetSize + 1 is a gateway address.
LEMMA GatewayMod ==
    ASSUME NEW n \in Nat
    PROVE  IsGatewayIP(Base(n) + 1)
<1> DEFINE r == (n * NetSize + 1) % NetSize
           q == (n * NetSize + 1) \div NetSize
<1>1. NetSize \in Nat /\ NetSize > 2 /\ NetSize > 0 /\ n * NetSize + 1 \in Int
  BY IpamAssumption
<1>2. r \in 0 .. (NetSize - 1) /\ q \in Int /\ n * NetSize + 1 = (NetSize * q) + r
  BY <1>1, DivMod
<1> HIDE DEF r, q
<1>3. NetSize * (n - q) = r - 1
  BY <1>1, <1>2
<1>4. ~(n - q >= 1)
  BY <1>1, <1>2, <1>3
<1>5. ~(n - q <= -1)
  BY <1>1, <1>2, <1>3
<1>6. n = q
  BY <1>2, <1>4, <1>5
<1>7. r = 1
  BY <1>1, <1>2, <1>3, <1>6
<1> QED
  BY <1>7 DEF r, IsGatewayIP, Base

GatewayOrNone(a) == a = 0 \/ IsGatewayIP(a)

GateInv ==
    /\ Typed
    /\ \A p \in Procs : Given(p) => ~Reserved(podIP[p])
    /\ \A p \in Procs : GatewayOrNone(gw[p]) /\ GatewayOrNone(bridge[p])

LEMMA GateStep == GateInv /\ [Next]_vars => GateInv'
<1> SUFFICES ASSUME GateInv, [Next]_vars PROVE GateInv'
  OBVIOUS
<1> USE DEF GateInv
<1>0. Typed'
  BY TypedStep
<1>1. CASE UNCHANGED vars
  BY <1>0, <1>1 DEF Given
<1>2. SUFFICES ASSUME NEW p \in Procs,
                      \/ Begin(p) \/ Step(p) \/ SetPutLost(p)
                      \/ HostError(p) \/ EtcdError(p) \/ Crash(p)
               PROVE  GateInv'
  BY <1>1 DEF Next
<1>3. IsGatewayIP(Base(hostNet[HostOf[p]]) + 1)
  <2>1. hostNet[HostOf[p]] \in Nat
    BY NetsNat, IpamAssumption DEF Typed, TypeOK, Hosts
  <2> QED
    BY <2>1, GatewayMod
<1>4. \A q \in Procs : podIP'[q] = podIP[q] \/ ~Reserved(podIP'[q])
  <2>1. CASE SetPut(p) \/ SetPutLost(p)
    BY <2>1 DEF SetPut, SetPutLost, AfterSet, Typed, TypeOK
  <2>2. CASE Begin(p) \/ HostError(p) \/ EtcdError(p) \/ Crash(p)
    BY <2>2 DEF Begin, HostError, EtcdError, Crash, End
  <2>3. CASE GetIpamService(p) \/ Gateway(p) \/ GatewayWithMaskSegment(p) \/ GetNS(p)
    BY <2>3 DEF GetIpamService, PoolGet, PoolSet, NetGetFound, NetGetEmpty, NetPool,
       NetSetHost, NetSetPool, Gateway, GatewayWithMaskSegment, GetNS
  <2>4. CASE UseNet(p) \/ UseRec(p) \/ SetNet(p) \/ SetGet(p)
    BY <2>4 DEF UseNet, UseRec, SetNet, SetGet
  <2>5. CASE Create(p) \/ CreateFailed(p) \/ ReleaseIPs(p) \/ AllHostNetwork(p) \/ Finish(p)
    BY <2>5 DEF Create, CreateFailed, ReleaseIPs, RelNet, RelGet, RelPut, AllHostNetwork,
       Nodes, CidrFound, CidrNotFound, Finish, End
  <2> QED
    BY <1>2, <2>1, <2>2, <2>3, <2>4, <2>5 DEF Step, UnusedIP
<1>5. \A q \in Procs : /\ gw'[q] = gw[q] \/ GatewayOrNone(gw'[q])
                       /\ bridge'[q] = bridge[q] \/ GatewayOrNone(bridge'[q])
  <2>1. CASE Gateway(p) \/ GatewayWithMaskSegment(p)
    BY <1>3, <2>1 DEF Gateway, GatewayWithMaskSegment, GatewayOrNone, Typed, TypeOK
  <2>2. CASE Begin(p) \/ HostError(p) \/ EtcdError(p) \/ Crash(p)
    BY <2>2 DEF Begin, HostError, EtcdError, Crash, End, GatewayOrNone, Typed, TypeOK
  <2>3. CASE GetIpamService(p) \/ GetNS(p)
    BY <2>3 DEF GetIpamService, PoolGet, PoolSet, NetGetFound, NetGetEmpty, NetPool,
       NetSetHost, NetSetPool, GetNS
  <2>4. CASE UnusedIP(p) \/ SetPutLost(p)
    BY <2>4 DEF UnusedIP, UseNet, UseRec, SetNet, SetGet, SetPut, SetPutLost, AfterSet
  <2>5. CASE Create(p) \/ CreateFailed(p) \/ ReleaseIPs(p) \/ AllHostNetwork(p) \/ Finish(p)
    BY <2>5 DEF Create, CreateFailed, ReleaseIPs, RelNet, RelGet, RelPut, AllHostNetwork,
       Nodes, CidrFound, CidrNotFound, Finish, End, GatewayOrNone, Typed, TypeOK
  <2> QED
    BY <1>2, <2>1, <2>2, <2>3, <2>4, <2>5 DEF Step
<1> QED
  BY <1>0, <1>4, <1>5 DEF Given

\* No address that was handed out is a gateway's or a bridge's, on whichever host,
\* whichever ADDs overlap, fail or are killed, and also when nextUnusedIP runs on
\* beyond its network.
THEOREM NoPodIsGateway == Spec => []PodIPIsNoGateway
<1>1. Init => GateInv
  BY TypedInit DEF Init, GateInv, Given, GatewayOrNone
<1>2. GateInv => PodIPIsNoGateway
  BY DEF GateInv, PodIPIsNoGateway, Given, GatewayOrNone, Reserved
<1> QED
  BY <1>1, <1>2, GateStep, PTL DEF Spec

-------------------------------------------------------------------------------
(* The ADDs of one host do not overlap.                                    *)

HostSerialised ==
    \A p, q \in Procs : p # q /\ SameHost(p, q) => <<p, q>> \in NeverOverlap

Alone ==
    \A p, q \in Procs : p # q /\ SameHost(p, q) => ~(Running(p) /\ Running(q))

\* Between the read that found no network and the write of one, the host has none.
NoNetYet ==
    \A p \in Procs : pc[p] \in {"netPool", "netSetHost"} => hostNet[HostOf[p]] = NoNet

SerialInv == Typed /\ Alone /\ NoNetYet

\* Where a process is, its calls of GetIpamService aside.
At(p, k) == pc[p] = k \/ (pc[p] \in InitSteps /\ cont[p] = k)

LEMMA Disjoint ==
    /\ InitSteps \cap Returns = {}
    /\ (InitSteps \cup Returns) \cap (Ended \cup {"idle", "create", "nodes"}) = {}
  BY DEF InitSteps, Returns, Ended

\* A step of p leaves the other processes where they are, and starts p only if
\* nothing else runs on its host.
LEMMA StepControl ==
    ASSUME Typed, NEW p \in Procs,
           \/ Begin(p) \/ Step(p) \/ SetPutLost(p)
           \/ HostError(p) \/ EtcdError(p) \/ Crash(p)
    PROVE  /\ \A q \in Procs : q # p => pc'[q] = pc[q] /\ cont'[q] = cont[q]
           /\ pc[p] \notin Ended
           /\ pc[p] = "idle" => Begin(p)
<1> USE DEF Call, Goto, Return, End, Typed, TypeOK
<1>1. CASE Begin(p) \/ HostError(p) \/ EtcdError(p) \/ Crash(p)
  BY <1>1, Disjoint DEF Begin, HostError, EtcdError, Crash, Running, Ended
<1>2. CASE GetIpamService(p) \/ Gateway(p) \/ GatewayWithMaskSegment(p) \/ GetNS(p)
  BY <1>2 DEF GetIpamService, PoolGet, PoolSet, NetGetFound, NetGetEmpty, NetPool,
     NetSetHost, NetSetPool, Gateway, GatewayWithMaskSegment, GetNS, Ended
<1>3. CASE UnusedIP(p) \/ SetPutLost(p)
  BY <1>3 DEF UnusedIP, UseNet, UseRec, SetNet, SetGet, SetPut, SetPutLost, AfterSet, Ended
<1>4. CASE Create(p) \/ CreateFailed(p) \/ ReleaseIPs(p) \/ AllHostNetwork(p) \/ Finish(p)
  BY <1>4 DEF Create, CreateFailed, ReleaseIPs, RelNet, RelGet, RelPut, AllHostNetwork,
     Nodes, CidrFound, CidrNotFound, Finish, Ended
<1> QED
  BY <1>1, <1>2, <1>3, <1>4 DEF Step

\* A host's network is written in one place.
LEMMA OnlyNetSetHost ==
    ASSUME NEW p \in Procs,
           \/ Begin(p) \/ Step(p) \/ SetPutLost(p)
           \/ HostError(p) \/ EtcdError(p) \/ Crash(p)
    PROVE  NetSetHost(p) \/ hostNet' = hostNet
<1>1. CASE Begin(p) \/ HostError(p) \/ EtcdError(p) \/ Crash(p)
  BY <1>1 DEF Begin, HostError, EtcdError, Crash, End
<1>2. CASE GetIpamService(p) \/ Gateway(p) \/ GatewayWithMaskSegment(p) \/ GetNS(p)
  BY <1>2 DEF GetIpamService, PoolGet, PoolSet, NetGetFound, NetGetEmpty, NetPool,
     NetSetPool, Gateway, GatewayWithMaskSegment, GetNS
<1>3. CASE UnusedIP(p) \/ SetPutLost(p)
  BY <1>3 DEF UnusedIP, UseNet, UseRec, SetNet, SetGet, SetPut, SetPutLost, AfterSet
<1>4. CASE Create(p) \/ CreateFailed(p) \/ ReleaseIPs(p) \/ AllHostNetwork(p) \/ Finish(p)
  BY <1>4 DEF Create, CreateFailed, ReleaseIPs, RelNet, RelGet, RelPut, AllHostNetwork,
     Nodes, CidrFound, CidrNotFound, Finish, End
<1> QED
  BY <1>1, <1>2, <1>3, <1>4 DEF Step

\* p reaches the write of its host's network only through a read that found none.
LEMMA ReachNetPool ==
    ASSUME Typed, NEW p \in Procs,
           \/ Begin(p) \/ Step(p) \/ SetPutLost(p)
           \/ HostError(p) \/ EtcdError(p) \/ Crash(p),
           pc'[p] \in {"netPool", "netSetHost"}
    PROVE  NetGetEmpty(p) \/ (NetPool(p) /\ pc[p] = "netPool")
<1> USE DEF Call, Goto, Return, End, Typed, TypeOK
<1>1. CASE Begin(p) \/ HostError(p) \/ EtcdError(p) \/ Crash(p)
  BY <1>1 DEF Begin, HostError, EtcdError, Crash
<1>2. CASE GetIpamService(p) \/ Gateway(p) \/ GatewayWithMaskSegment(p) \/ GetNS(p)
  BY <1>2, Disjoint DEF GetIpamService, PoolGet, PoolSet, NetGetFound, NetPool,
     NetSetHost, NetSetPool, Gateway, GatewayWithMaskSegment, GetNS, InitSteps
<1>3. CASE UnusedIP(p) \/ SetPutLost(p)
  BY <1>3 DEF UnusedIP, UseNet, UseRec, SetNet, SetGet, SetPut, SetPutLost, AfterSet
<1>4. CASE Create(p) \/ CreateFailed(p) \/ ReleaseIPs(p) \/ AllHostNetwork(p) \/ Finish(p)
  BY <1>4 DEF Create, CreateFailed, ReleaseIPs, RelNet, RelGet, RelPut, AllHostNetwork,
     Nodes, CidrFound, CidrNotFound, Finish
<1> QED
  BY <1>1, <1>2, <1>3, <1>4 DEF Step

LEMMA SerialInit == Init => SerialInv
  BY TypedInit DEF Init, SerialInv, Alone, NoNetYet, Running

LEMMA SerialStep ==
    ASSUME HostSerialised, SerialInv, [Next]_vars
    PROVE  SerialInv'
<1> USE DEF SerialInv
<1>1. Typed'
  BY TypedStep
<1>2. CASE UNCHANGED vars
  BY <1>1, <1>2 DEF Alone, NoNetYet, Running
<1>3. SUFFICES ASSUME NEW p \in Procs,
                      \/ Begin(p) \/ Step(p) \/ SetPutLost(p)
                      \/ HostError(p) \/ EtcdError(p) \/ Crash(p)
               PROVE  Alone' /\ NoNetYet'
  BY <1>1, <1>2 DEF Next
<1>4. \A q \in Procs : q # p => pc'[q] = pc[q]
  BY <1>3, StepControl
<1>5. Alone'
  <2>1. CASE Running(p)
    BY <2>1, <1>4 DEF Alone, Running, SameHost
  <2>2. CASE ~Running(p)
    <3>1. \A q \in Procs : <<p, q>> \in NeverOverlap => ~Running(q)
      BY <2>2, <1>3, StepControl DEF Running, Begin
    <3> QED
      BY <3>1, <1>4 DEF Alone, Running, SameHost, HostSerialised
  <2> QED
    BY <2>1, <2>2
<1>6. NoNetYet'
  <2> SUFFICES ASSUME NEW q \in Procs, pc'[q] \in {"netPool", "netSetHost"}
               PROVE  hostNet'[HostOf[q]] = NoNet
    BY DEF NoNetYet
  <2>1. CASE q = p
    <3>1. NetGetEmpty(p) \/ (NetPool(p) /\ pc[p] = "netPool")
      BY <2>1, <1>3, ReachNetPool
    <3> QED
      BY <3>1, <2>1 DEF NetGetEmpty, NetPool, NoNetYet
  <2>2. CASE q # p
    <3>1. hostNet[HostOf[q]] = NoNet /\ Running(q)
      BY <2>2, <1>4, Disjoint DEF NoNetYet, Running, InitSteps
    <3>2. CASE NetSetHost(p)
      <4>1. Running(p)
        BY <3>2, Disjoint DEF NetSetHost, Running, InitSteps
      <4>2. HostOf[q] # HostOf[p]
        BY <4>1, <3>1, <2>2 DEF Alone, SameHost
      <4> QED
        BY <4>2, <3>1, <3>2, IpamAssumption DEF NetSetHost, Typed, TypeOK, Hosts
    <3> QED
      BY <3>1, <3>2, <1>3, OnlyNetSetHost
  <2> QED
    BY <2>1, <2>2
<1> QED
  BY <1>5, <1>6

\* When the ADDs of a host do not overlap, its network never changes, whatever
\* the other hosts do to the pool, whichever requests fail and whichever
\* processes are killed.
THEOREM NetworkStable ==
    ASSUME HostSerialised
    PROVE  Spec => HostNetworkStable
<1>1. SerialInv /\ [Next]_vars => SerialInv'
  BY SerialStep
<1>2. SerialInv /\ [Next]_vars
        => [\A h \in Hosts : hostNet[h] # NoNet => hostNet'[h] = hostNet[h]]_vars
  <2> SUFFICES ASSUME SerialInv, [Next]_vars, NEW h \in Hosts, hostNet[h] # NoNet
               PROVE  hostNet'[h] = hostNet[h]
    OBVIOUS
  <2>1. CASE UNCHANGED vars
    BY <2>1
  <2>2. ASSUME NEW p \in Procs, NetSetHost(p)
        PROVE  hostNet'[h] = hostNet[h]
    BY <2>2 DEF NetSetHost, SerialInv, NoNetYet, Typed, TypeOK
  <2> QED
    BY <2>1, <2>2, OnlyNetSetHost DEF Next
<1> QED
  BY <1>1, <1>2, SerialInit, PTL DEF Spec, HostNetworkStable

-------------------------------------------------------------------------------
(* Without overlapping ADDs on a host and without lost Puts, no address is  *)
(* handed out twice from one network.                                       *)

Before == {"gateway", "bridge", "netns", "useNet", "useRec", "setNet", "setGet", "setPut"}

\* An ADD has its address only after UnusedIP returned.
NotBefore ==
    \A p \in Procs : Given(p) => pc[p] # "idle" /\ \A k \in Before : ~At(p, k)

\* A network an ADD drew from, or still works with, is its host's network.
Drawn == \A p \in Procs : drew[p] # NoNet => drew[p] = hostNet[HostOf[p]]

NetHeld ==
    \A p \in Procs : \A k \in {"useRec", "setGet", "setPut", "relGet", "relPut"} :
        At(p, k) /\ net[p] # NoNet => net[p] = hostNet[HostOf[p]]

DrawnFromNet == \A p \in Procs : At(p, "useRec") => net[p] = drew[p]

RecordedAtNet ==
    \A p \in Procs : \A k \in {"setGet", "setPut"} :
        At(p, k) /\ drew[p] # NoNet => net[p] = drew[p]

\* The record a process is about to replace is still the one it read.
SeenIsRecord ==
    \A p \in Procs : \A k \in {"setPut", "relPut"} :
        At(p, k) => seen[p] = record[HostOf[p]][net[p]]

\* An address is in the record of its network.  One that was drawn before the
\* host had a network may be recorded under the network the host got since;
\* by then nobody draws from no network.
Kept ==
    \A q \in Procs : Given(q) /\ drew[q] = hostNet[HostOf[q]]
        => podIP[q] \in record[HostOf[q]][drew[q]]

KeptForReader ==
    \A p, q \in Procs :
        SameHost(p, q) /\ Given(q) /\ At(p, "useRec") /\ net[p] = drew[q]
            => podIP[q] \in record[HostOf[q]][drew[q]]

\* The address about to be recorded is nobody's.
Fresh ==
    \A p, q \in Procs : \A k \in {"setNet", "setGet", "setPut"} :
        SameHost(p, q) /\ Given(q) /\ At(p, k) /\ drew[p] = drew[q] => ip[p] # podIP[q]

UniqueInv ==
    /\ SerialInv
    /\ NotBefore
    /\ Drawn /\ NetHeld /\ DrawnFromNet /\ RecordedAtNet /\ SeenIsRecord
    /\ Kept /\ KeptForReader /\ Fresh
    /\ UniqueOnNetwork

LEMMA UniqueInit == Init => UniqueInv
  BY SerialInit, Disjoint DEF Init, UniqueInv, NotBefore, Drawn, NetHeld, DrawnFromNet,
     RecordedAtNet, SeenIsRecord, Kept, KeptForReader, Fresh, UniqueOnNetwork, Given, At,
     InitSteps

LEMMA CallAt ==
    ASSUME Typed, NEW p \in Procs, NEW n, NEW step, Call(p, n, step)
    PROVE  \A q \in Procs, k \in Returns :
               At(q, k)' <=> IF q = p THEN k = step ELSE At(q, k)
<1>1. "poolGet" \in InitSteps /\ "poolGet" \notin Returns
  BY DEF InitSteps, Returns
<1> QED
  BY <1>1 DEF Typed, TypeOK, Call, At

LEMMA GotoAt ==
    ASSUME Typed, NEW p \in Procs, NEW step \in Ended \cup {"create", "nodes"}, Goto(p, step)
    PROVE  \A q \in Procs, k \in Returns : At(q, k)' <=> q # p /\ At(q, k)
  BY Disjoint DEF Typed, TypeOK, Goto, At

LEMMA ServiceAt ==
    ASSUME Typed, NEW p \in Procs, GetIpamService(p)
    PROVE  /\ \A q \in Procs, k \in Returns : At(q, k)' <=> At(q, k)
           /\ pc'[p] # "idle"
           /\ pc[p] \in InitSteps
           /\ UNCHANGED <<record, alloc, rest>>
<1> USE Disjoint DEF Typed, TypeOK, At
<1>1. CASE PoolGet(p) \/ PoolSet(p)
  BY <1>1 DEF PoolGet, PoolSet, Goto, InitSteps
<1>2. CASE NetGetEmpty(p) \/ NetPool(p) \/ NetSetHost(p)
  BY <1>2 DEF NetGetEmpty, NetPool, NetSetHost, Goto, InitSteps
<1>3. CASE NetGetFound(p) \/ NetSetPool(p)
  <2>1. Return(p) /\ pc[p] \in {"netGet", "netSetPool"} /\ UNCHANGED <<record, alloc, rest>>
    BY <1>3 DEF NetGetFound, NetSetPool
  <2>2. pc[p] \in InitSteps /\ "poolGet" \in InitSteps /\ "idle" \notin Returns
    BY <2>1 DEF InitSteps, Returns
  <2> QED
    BY <2>1, <2>2 DEF Return
<1> QED
  BY <1>1, <1>2, <1>3 DEF GetIpamService

\* A step that hands nothing out and reads and writes no address.
LEMMA QuietStep ==
    ASSUME UniqueInv, SerialInv', NEW p \in Procs,
           UNCHANGED <<hostNet, record, drew, podIP>>,
           \A q \in Procs : q # p => net'[q] = net[q] /\ seen'[q] = seen[q] /\ ip'[q] = ip[q],
           \A q \in Procs : q # p => pc'[q] = pc[q],
           \A q \in Procs, k \in Returns : q # p => (At(q, k)' <=> At(q, k)),
           \A k \in Returns : At(p, k)' =>
               k \in {"gateway", "bridge", "netns", "useNet", "relNet", "cidr", "routes"},
           Given(p) => pc'[p] # "idle" /\ \A k \in Before : ~At(p, k)'
    PROVE  UniqueInv'
<1> USE DEF UniqueInv
<1>1. Before \subseteq Returns /\ {"relGet", "relPut"} \subseteq Returns
  BY DEF Before, Returns
<1>2. \A k \in {"useRec", "setNet", "setGet", "setPut", "relGet", "relPut"} :
          k \in Returns /\ ~At(p, k)'
  BY DEF Returns
<1>3. NotBefore'
  BY <1>1 DEF NotBefore, Given
<1>4. Drawn' /\ Kept' /\ UniqueOnNetwork'
  BY DEF Drawn, Kept, UniqueOnNetwork, Given
<1>5. NetHeld' /\ DrawnFromNet' /\ RecordedAtNet'
  BY <1>2 DEF NetHeld, DrawnFromNet, RecordedAtNet
<1>6. SeenIsRecord'
  BY <1>2 DEF SeenIsRecord
<1>7. KeptForReader' /\ Fresh'
  BY <1>2 DEF KeptForReader, Fresh, Given
<1> QED
  BY <1>3, <1>4, <1>5, <1>6, <1>7

\* The steps inside GetIpamService, the write of the host's network included:
\* it can only replace NoNet, and no drawn network is NoNet by Drawn.
LEMMA UniqueService ==
    ASSUME UniqueInv, SerialInv', NEW p \in Procs, GetIpamService(p)
    PROVE  UniqueInv'
<1> USE DEF UniqueInv
<1>1. /\ \A q \in Procs, k \in Returns : At(q, k)' <=> At(q, k)
      /\ pc'[p] # "idle" /\ pc[p] \in InitSteps
      /\ UNCHANGED <<record, alloc, rest>>
  BY ServiceAt DEF SerialInv
<1>2. \A q \in Procs : q # p => pc'[q] = pc[q]
  BY StepControl DEF SerialInv, Step
<1>3. /\ Before \subseteq Returns
      /\ {"useRec", "setGet", "setPut", "relGet", "relPut"} \subseteq Returns
      /\ {"setNet", "setGet", "setPut"} \subseteq Returns
  BY DEF Before, Returns
<1>4. \A q \in Procs : hostNet'[HostOf[q]] = hostNet[HostOf[q]]
                      \/ (hostNet[HostOf[q]] = NoNet /\ SameHost(p, q))
  <2>1. CASE hostNet' = hostNet
    BY <2>1
  <2>2. CASE NetSetHost(p)
    BY <2>2, IpamAssumption DEF NetSetHost, SerialInv, NoNetYet, Typed, TypeOK, SameHost, Hosts
  <2> QED
    BY <2>1, <2>2, OnlyNetSetHost DEF Step
<1>5. NotBefore'
  BY <1>1, <1>2, <1>3 DEF NotBefore, Given
<1>6. Drawn' /\ NetHeld'
  BY <1>1, <1>3, <1>4 DEF Drawn, NetHeld
<1>7. DrawnFromNet' /\ RecordedAtNet' /\ SeenIsRecord'
  <2>1. DrawnFromNet' /\ RecordedAtNet'
    BY <1>1, <1>3 DEF DrawnFromNet, RecordedAtNet
  <2>2. SeenIsRecord'
    BY <1>1, <1>3 DEF SeenIsRecord
  <2> QED
    BY <2>1, <2>2
<1>8. Kept'
  <2> SUFFICES ASSUME NEW q \in Procs, Given(q), drew[q] = hostNet'[HostOf[q]]
               PROVE  podIP[q] \in record[HostOf[q]][drew[q]]
    BY <1>1 DEF Kept, Given
  <2>1. CASE hostNet'[HostOf[q]] = hostNet[HostOf[q]]
    BY <2>1 DEF Kept
  <2>2. CASE hostNet[HostOf[q]] = NoNet
    BY <2>2 DEF Kept, Drawn
  <2> QED
    BY <1>4, <2>1, <2>2
<1>9. KeptForReader' /\ Fresh' /\ UniqueOnNetwork'
  BY <1>1, <1>3 DEF KeptForReader, Fresh, UniqueOnNetwork, Given
<1> QED
  BY <1>5, <1>6, <1>7, <1>8, <1>9

\* nextUnusedIP reads the host's network.
LEMMA UniqueUseNet ==
    ASSUME UniqueInv, SerialInv', NEW p \in Procs, UseNet(p)
    PROVE  UniqueInv'
<1> USE DEF UniqueInv
<1>1. \A q \in Procs, k \in Returns :
          At(q, k)' <=> IF q = p THEN k = "useRec" ELSE At(q, k)
  BY CallAt DEF UseNet, SerialInv
<1>2. /\ \A q \in Procs : q # p => pc'[q] = pc[q] /\ net'[q] = net[q] /\ drew'[q] = drew[q]
      /\ net'[p] = hostNet[HostOf[p]] /\ drew'[p] = hostNet[HostOf[p]]
      /\ UNCHANGED <<hostNet, record, seen, ip, podIP>>
  BY DEF UseNet, Call, SerialInv, Typed, TypeOK
<1>3. ~Given(p)
  BY DEF NotBefore, UseNet, At, Before
<1>4. /\ Before \subseteq Returns
      /\ {"useRec", "setGet", "setPut", "relGet", "relPut"} \subseteq Returns
      /\ {"setNet", "setGet", "setPut"} \subseteq Returns
  BY DEF Before, Returns
<1>5. NotBefore' /\ Drawn' /\ NetHeld'
  BY <1>1, <1>2, <1>3, <1>4 DEF NotBefore, Drawn, NetHeld, Given
<1>6. DrawnFromNet' /\ RecordedAtNet' /\ SeenIsRecord'
  BY <1>1, <1>2, <1>4 DEF DrawnFromNet, RecordedAtNet, SeenIsRecord
<1>7. Kept' /\ UniqueOnNetwork'
  BY <1>2, <1>3 DEF Kept, UniqueOnNetwork, Given
<1>8. KeptForReader'
  BY <1>1, <1>2, <1>3, <1>4 DEF KeptForReader, Kept, Given, SameHost
<1>9. Fresh'
  BY <1>1, <1>2, <1>3, <1>4 DEF Fresh, Given
<1> QED
  BY <1>5, <1>6, <1>7, <1>8, <1>9

\* nextUnusedIP goes one past everything it finds in the record.
LEMMA UniqueUseRec ==
    ASSUME UniqueInv, SerialInv', NEW p \in Procs, UseRec(p)
    PROVE  UniqueInv'
<1> USE DEF UniqueInv
<1>1. \A q \in Procs, k \in Returns :
          At(q, k)' <=> IF q = p THEN k = "setNet" ELSE At(q, k)
  BY CallAt DEF UseRec, SerialInv
<1>2. /\ \A q \in Procs : q # p => pc'[q] = pc[q] /\ ip'[q] = ip[q]
      /\ UNCHANGED <<hostNet, record, net, seen, drew, podIP>>
  BY DEF UseRec, Call, SerialInv, Typed, TypeOK
<1>3. ~Given(p) /\ At(p, "useRec") /\ net[p] = drew[p]
  BY DEF NotBefore, UseRec, At, Before, DrawnFromNet
<1>4. /\ Before \subseteq Returns /\ "useRec" \in Returns
      /\ {"useRec", "setGet", "setPut", "relGet", "relPut"} \subseteq Returns
      /\ {"setNet", "setGet", "setPut"} \subseteq Returns
  BY DEF Before, Returns
<1>5. \A a \in record[HostOf[p]][net[p]] : ip'[p] > a
  <2>1. record[HostOf[p]][net[p]] \subseteq Nat
    <3>1. HostOf[p] \in Hosts /\ net[p] \in NetsOrNone
      BY IpamAssumption DEF SerialInv, Typed, TypeOK, Hosts
    <3>2. record \in [Hosts -> [NetsOrNone -> SUBSET Nat]]
      BY DEF SerialInv, Typed, TypeOK
    <3> HIDE DEF UniqueInv
    <3> QED
      BY <3>1, <3>2
  <2>2. NextUnused(ip'[p], net[p], record[HostOf[p]][net[p]])
    BY DEF UseRec, SerialInv, Typed, TypeOK
  <2> QED
    BY <2>1, <2>2 DEF NextUnused, IsMax
<1>6. NotBefore' /\ Drawn' /\ NetHeld'
  BY <1>1, <1>2, <1>3, <1>4 DEF NotBefore, Drawn, NetHeld, Given
<1>7. DrawnFromNet' /\ RecordedAtNet' /\ SeenIsRecord'
  BY <1>1, <1>2, <1>4 DEF DrawnFromNet, RecordedAtNet, SeenIsRecord
<1>8. Kept' /\ UniqueOnNetwork' /\ KeptForReader'
  BY <1>1, <1>2, <1>4 DEF Kept, UniqueOnNetwork, KeptForReader, Given
<1>9. Fresh'
  <2> SUFFICES ASSUME NEW r \in Procs, NEW q \in Procs, NEW k \in {"setNet", "setGet", "setPut"},
                      SameHost(r, q), Given(q), At(r, k)', drew[r] = drew[q]
               PROVE  ip'[r] # podIP[q]
    BY <1>2 DEF Fresh, Given
  <2>1. CASE r = p
    <3>1. podIP[q] \in record[HostOf[p]][net[p]]
      BY <2>1, <1>3 DEF KeptForReader, SameHost
    <3>2. podIP[q] \in Nat
      BY DEF SerialInv, Typed, TypeOK
    <3>3. ip'[p] > podIP[q]
      BY <3>1, <1>5
    <3> QED
      BY <3>2, <3>3, <2>1
  <2>2. CASE r # p
    BY <2>2, <1>1, <1>2, <1>4 DEF Fresh
  <2> QED
    BY <2>1, <2>2
<1> QED
  BY <1>6, <1>7, <1>8, <1>9

\* Set.IPs reads the host's network again.
LEMMA UniqueSetNet ==
    ASSUME UniqueInv, SerialInv', NEW p \in Procs, SetNet(p)
    PROVE  UniqueInv'
<1> USE DEF UniqueInv
<1>1. \A q \in Procs, k \in Returns :
          At(q, k)' <=> IF q = p THEN k = "setGet" ELSE At(q, k)
  BY CallAt DEF SetNet, SerialInv
<1>2. /\ \A q \in Procs : q # p => pc'[q] = pc[q] /\ net'[q] = net[q]
      /\ net'[p] = hostNet[HostOf[p]]
      /\ UNCHANGED <<hostNet, record, seen, drew, ip, podIP>>
  BY DEF SetNet, Call, SerialInv, Typed, TypeOK
<1>3. ~Given(p) /\ At(p, "setNet")
  BY DEF NotBefore, SetNet, At, Before
<1>4. /\ Before \subseteq Returns /\ "useRec" \in Returns
      /\ {"useRec", "setGet", "setPut", "relGet", "relPut"} \subseteq Returns
      /\ {"setNet", "setGet", "setPut"} \subseteq Returns
  BY DEF Before, Returns
<1>5. NotBefore' /\ Drawn' /\ NetHeld'
  BY <1>1, <1>2, <1>3, <1>4 DEF NotBefore, Drawn, NetHeld, Given
<1>6. DrawnFromNet' /\ RecordedAtNet' /\ SeenIsRecord'
  BY <1>1, <1>2, <1>4 DEF DrawnFromNet, RecordedAtNet, SeenIsRecord, Drawn
<1>7. Kept' /\ UniqueOnNetwork' /\ KeptForReader'
  BY <1>1, <1>2, <1>4 DEF Kept, UniqueOnNetwork, KeptForReader, Given
<1>8. Fresh'
  BY <1>1, <1>2, <1>3, <1>4 DEF Fresh, Given
<1> QED
  BY <1>5, <1>6, <1>7, <1>8

LEMMA UniqueSetGet ==
    ASSUME UniqueInv, SerialInv', NEW p \in Procs, SetGet(p)
    PROVE  UniqueInv'
<1> USE DEF UniqueInv
<1>1. \A q \in Procs, k \in Returns :
          At(q, k)' <=> IF q = p THEN k = "setPut" ELSE At(q, k)
  BY CallAt DEF SetGet, SerialInv
<1>2. /\ \A q \in Procs : q # p => pc'[q] = pc[q] /\ seen'[q] = seen[q]
      /\ seen'[p] = record[HostOf[p]][net[p]]
      /\ UNCHANGED <<hostNet, record, net, drew, ip, podIP>>
  BY DEF SetGet, Call, SerialInv, Typed, TypeOK
<1>3. ~Given(p) /\ At(p, "setGet")
  BY DEF NotBefore, SetGet, At, Before
<1>4. /\ Before \subseteq Returns /\ "useRec" \in Returns
      /\ {"useRec", "setGet", "setPut", "relGet", "relPut"} \subseteq Returns
      /\ {"setNet", "setGet", "setPut"} \subseteq Returns
  BY DEF Before, Returns
<1>5. NotBefore' /\ Drawn' /\ NetHeld'
  BY <1>1, <1>2, <1>3, <1>4 DEF NotBefore, Drawn, NetHeld, Given
<1>6. DrawnFromNet' /\ RecordedAtNet' /\ SeenIsRecord'
  BY <1>1, <1>2, <1>3, <1>4 DEF DrawnFromNet, RecordedAtNet, SeenIsRecord
<1>7. Kept' /\ UniqueOnNetwork' /\ KeptForReader'
  BY <1>1, <1>2, <1>4 DEF Kept, UniqueOnNetwork, KeptForReader, Given
<1>8. Fresh'
  BY <1>1, <1>2, <1>3, <1>4 DEF Fresh, Given
<1> QED
  BY <1>5, <1>6, <1>7, <1>8

\* A write of the record by p disturbs no other process of the host: none is
\* between its read and its write.
LEMMA WriterAlone ==
    ASSUME UniqueInv, NEW p \in Procs, Running(p), NEW q \in Procs, q # p, SameHost(p, q)
    PROVE  \A k \in Returns : ~At(q, k)
  BY Disjoint DEF UniqueInv, SerialInv, Alone, Running, At, InitSteps, Returns, SameHost

\* The record grows by the address that is handed out.
LEMMA UniqueSetPut ==
    ASSUME UniqueInv, SerialInv', NEW p \in Procs, SetPut(p)
    PROVE  UniqueInv'
<1> USE DEF UniqueInv
<1> DEFINE h == HostOf[p]
<1>1. /\ Running(p) /\ At(p, "setPut") /\ ~Given(p)
      /\ seen[p] = record[h][net[p]]
  BY Disjoint DEF SetPut, Running, At, NotBefore, Before, SeenIsRecord, Returns, Ended
<1>2. /\ \A q \in Procs, k \in Returns : q # p => (At(q, k)' <=> At(q, k))
      /\ \A k \in Returns : At(p, k)' => k = "useNet" /\ Reserved(ip[p])
  <2>1. (Reserved(ip[p]) /\ Call(p, 2, "useNet")) \/ Goto(p, "create")
    BY DEF SetPut, AfterSet
  <2> QED
    BY <2>1, CallAt, GotoAt DEF SerialInv
<1>3. /\ \A q \in Procs : q # p => pc'[q] = pc[q] /\ seen'[q] = seen[q]
                                  /\ podIP'[q] = podIP[q]
      /\ pc'[p] # "idle"
      /\ podIP'[p] = podIP[p] \/ (podIP'[p] = ip[p] /\ pc'[p] = "create")
      /\ Reserved(ip[p]) => podIP'[p] = podIP[p]
      /\ UNCHANGED <<hostNet, net, drew, ip>>
  BY DEF SetPut, AfterSet, Call, Goto, SerialInv, Typed, TypeOK
<1>4. \A g \in Hosts, n \in NetsOrNone :
          record'[g][n] = IF g = h /\ n = net[p] THEN record[g][n] \cup {ip[p]} ELSE record[g][n]
  BY <1>1, IpamAssumption DEF SetPut, SerialInv, Typed, TypeOK, Hosts
<1>5. \A q \in Procs : HostOf[q] \in Hosts /\ net[q] \in NetsOrNone /\ drew[q] \in NetsOrNone
  BY IpamAssumption DEF SerialInv, Typed, TypeOK, Hosts
<1>6. /\ Before \subseteq Returns /\ "useRec" \in Returns
      /\ {"useRec", "setGet", "setPut", "relGet", "relPut"} \subseteq Returns
      /\ {"setNet", "setGet", "setPut"} \subseteq Returns
      /\ "useNet" \notin {"useRec", "setNet", "setGet", "setPut", "relGet", "relPut"}
  BY DEF Before, Returns
<1>7. \A q \in Procs, k \in Returns : q # p /\ SameHost(p, q) => ~At(q, k)
  BY <1>1, WriterAlone
<1>8. NotBefore'
  <2>1. Given(p)' => \A k \in Returns : ~At(p, k)'
    BY <1>1, <1>2, <1>3 DEF Given
  <2> QED
    BY <2>1, <1>2, <1>3, <1>6 DEF NotBefore, Given
<1>9. Drawn' /\ NetHeld' /\ DrawnFromNet' /\ RecordedAtNet'
  BY <1>2, <1>3, <1>6 DEF Drawn, NetHeld, DrawnFromNet, RecordedAtNet
<1>10. SeenIsRecord'
  <2> SUFFICES ASSUME NEW q \in Procs, NEW k \in {"setPut", "relPut"}, At(q, k)'
               PROVE  seen'[q] = record'[HostOf[q]][net[q]]
    BY <1>3 DEF SeenIsRecord
  <2>1. q # p /\ At(q, k) /\ HostOf[q] # h
    BY <1>2, <1>6, <1>7 DEF SameHost
  <2>2. seen[q] = record[HostOf[q]][net[q]]
    BY <2>1 DEF SeenIsRecord
  <2> QED
    BY <2>1, <2>2, <1>3, <1>4, <1>5
<1>11. Kept'
  <2> SUFFICES ASSUME NEW q \in Procs, Given(q)', drew[q] = hostNet[HostOf[q]]
               PROVE  podIP'[q] \in record'[HostOf[q]][drew[q]]
    BY <1>3 DEF Kept
  <2>1. CASE q # p
    BY <2>1, <1>3, <1>4, <1>5 DEF Kept, Given
  <2>2. CASE q = p
    <3>1. podIP'[p] = ip[p]
      BY <2>2, <1>1, <1>3 DEF Given
    <3>2. net[p] = drew[p]
      <4>1. CASE drew[p] # NoNet
        BY <4>1, <1>1 DEF RecordedAtNet
      <4>2. CASE drew[p] = NoNet
        BY <4>2, <2>2, <1>1 DEF NetHeld
      <4> QED
        BY <4>1, <4>2
    <3> QED
      BY <3>1, <3>2, <2>2, <1>4, <1>5
  <2> QED
    BY <2>1, <2>2
<1>12. KeptForReader' /\ Fresh'
  <2>1. \A r, q \in Procs : SameHost(r, q) /\ Given(q)' /\ r # p
            /\ (\E k \in Returns : At(r, k)') => q # p /\ HostOf[q] # h
    BY <1>2, <1>7 DEF SameHost
  <2>2. \A k \in Returns : At(p, k)' => k \notin {"useRec", "setNet", "setGet", "setPut"}
    BY <1>2
  <2>3. KeptForReader'
    <3> SUFFICES ASSUME NEW r \in Procs, NEW q \in Procs, SameHost(r, q), Given(q)',
                        At(r, "useRec")', net[r] = drew[q]
                 PROVE  podIP'[q] \in record'[HostOf[q]][drew[q]]
      BY <1>3 DEF KeptForReader
    <3>1. r # p /\ q # p /\ HostOf[q] # h /\ At(r, "useRec")
      BY <2>1, <2>2, <1>2, <1>6
    <3>2. podIP[q] \in record[HostOf[q]][drew[q]]
      BY <3>1, <1>3 DEF KeptForReader, Given
    <3> QED
      BY <3>1, <3>2, <1>3, <1>4, <1>5
  <2>4. Fresh'
    BY <2>1, <2>2, <1>2, <1>3, <1>6 DEF Fresh, Given
  <2> QED
    BY <2>3, <2>4
<1>13. UniqueOnNetwork'
  <2>1. \A q \in Procs : q # p /\ SameHost(p, q) /\ Given(q) /\ drew[p] = drew[q]
            => ip[p] # podIP[q]
    BY <1>1 DEF Fresh
  <2> QED
    BY <2>1, <1>1, <1>3 DEF UniqueOnNetwork, Given, SameHost
<1> QED
  BY <1>8, <1>9, <1>10, <1>11, <1>12, <1>13

\* Release.IPs reads the host's network again.
LEMMA UniqueRelNet ==
    ASSUME UniqueInv, SerialInv', NEW p \in Procs, RelNet(p)
    PROVE  UniqueInv'
<1> USE DEF UniqueInv
<1>1. \A q \in Procs, k \in Returns :
          At(q, k)' <=> IF q = p THEN k = "relGet" ELSE At(q, k)
  BY CallAt DEF RelNet, SerialInv
<1>2. /\ \A q \in Procs : q # p => pc'[q] = pc[q] /\ net'[q] = net[q]
      /\ net'[p] = hostNet[HostOf[p]] /\ pc'[p] # "idle"
      /\ UNCHANGED <<hostNet, record, seen, drew, ip, podIP>>
  BY DEF RelNet, Call, SerialInv, Typed, TypeOK
<1>3. /\ Before \subseteq Returns /\ "useRec" \in Returns /\ "relGet" \notin Before
      /\ {"useRec", "setGet", "setPut", "relGet", "relPut"} \subseteq Returns
      /\ {"setNet", "setGet", "setPut"} \subseteq Returns
  BY DEF Before, Returns
<1>4. NotBefore' /\ Drawn' /\ NetHeld'
  BY <1>1, <1>2, <1>3 DEF NotBefore, Drawn, NetHeld, Given
<1>5. DrawnFromNet' /\ RecordedAtNet' /\ SeenIsRecord'
  BY <1>1, <1>2, <1>3 DEF DrawnFromNet, RecordedAtNet, SeenIsRecord
<1>6. Kept' /\ UniqueOnNetwork' /\ KeptForReader' /\ Fresh'
  BY <1>1, <1>2, <1>3 DEF Kept, UniqueOnNetwork, KeptForReader, Fresh, Given
<1> QED
  BY <1>4, <1>5, <1>6

LEMMA UniqueRelGet ==
    ASSUME UniqueInv, SerialInv', NEW p \in Procs, RelGet(p)
    PROVE  UniqueInv'
<1> USE DEF UniqueInv
<1>1. \A q \in Procs, k \in Returns :
          At(q, k)' <=> IF q = p THEN k = "relPut" ELSE At(q, k)
  BY CallAt DEF RelGet, SerialInv
<1>2. /\ \A q \in Procs : q # p => pc'[q] = pc[q] /\ seen'[q] = seen[q]
      /\ seen'[p] = record[HostOf[p]][net[p]] /\ pc'[p] # "idle" /\ At(p, "relGet")
      /\ UNCHANGED <<hostNet, record, net, drew, ip, podIP>>
  BY DEF RelGet, Call, SerialInv, Typed, TypeOK, At
<1>3. /\ Before \subseteq Returns /\ "useRec" \in Returns /\ "relPut" \notin Before
      /\ {"useRec", "setGet", "setPut", "relGet", "relPut"} \subseteq Returns
      /\ {"setNet", "setGet", "setPut"} \subseteq Returns
  BY DEF Before, Returns
<1>4. NotBefore' /\ Drawn' /\ NetHeld'
  BY <1>1, <1>2, <1>3 DEF NotBefore, Drawn, NetHeld, Given
<1>5. DrawnFromNet' /\ RecordedAtNet' /\ SeenIsRecord'
  BY <1>1, <1>2, <1>3 DEF DrawnFromNet, RecordedAtNet, SeenIsRecord
<1>6. Kept' /\ UniqueOnNetwork' /\ KeptForReader' /\ Fresh'
  BY <1>1, <1>2, <1>3 DEF Kept, UniqueOnNetwork, KeptForReader, Fresh, Given
<1> QED
  BY <1>4, <1>5, <1>6

\* Release.IPs looks for the address with its mask and finds nothing.
LEMMA NothingReleased == \A used, a : Remaining(used, WithMask(a)) = used
  BY DEF Remaining, WithMask, Bare

LEMMA RelPutKeeps ==
    ASSUME UniqueInv, NEW p \in Procs, RelPut(p)
    PROVE  record' = record
<1>1. seen[p] = record[HostOf[p]][net[p]]
  BY DEF RelPut, UniqueInv, SeenIsRecord, At
<1>2. HostOf[p] \in Hosts /\ net[p] \in NetsOrNone
  BY IpamAssumption DEF UniqueInv, SerialInv, Typed, TypeOK, Hosts
<1>3. record' = [record EXCEPT ![HostOf[p]][net[p]] = record[HostOf[p]][net[p]]]
  BY <1>1, NothingReleased DEF RelPut
<1>4. /\ record \in [Hosts -> [NetsOrNone -> SUBSET Nat]]
      /\ record[HostOf[p]] \in [NetsOrNone -> SUBSET Nat]
  BY <1>2 DEF UniqueInv, SerialInv, Typed, TypeOK
<1>5. [record[HostOf[p]] EXCEPT ![net[p]] = record[HostOf[p]][net[p]]] = record[HostOf[p]]
  BY <1>2, <1>4
<1>6. record' = [record EXCEPT ![HostOf[p]] = record[HostOf[p]]]
  BY <1>3, <1>5
<1> QED
  BY <1>2, <1>4, <1>6

LEMMA UniqueRelPut ==
    ASSUME UniqueInv, SerialInv', NEW p \in Procs, RelPut(p)
    PROVE  UniqueInv'
<1>2. record' = record
  BY RelPutKeeps
<1>3. \A q \in Procs, k \in Returns : At(q, k)' <=> q # p /\ At(q, k)
  BY GotoAt DEF RelPut, UniqueInv, SerialInv
<1>4. /\ UNCHANGED <<hostNet, drew, podIP, net, ip>>
      /\ \A q \in Procs : q # p => seen'[q] = seen[q] /\ pc'[q] = pc[q]
      /\ pc'[p] = "nodes"
  BY DEF RelPut, Goto, UniqueInv, SerialInv, Typed, TypeOK
<1>5. Before \subseteq Returns
  BY DEF Before, Returns
<1> QED
  BY <1>2, <1>3, <1>4, <1>5, QuietStep

\* The steps of cmdAdd that neither draw nor record nor release an address.
QuietCall(p) ==
    Begin(p) \/ Gateway(p) \/ GatewayWithMaskSegment(p) \/ GetNS(p)
    \/ CreateFailed(p) \/ Nodes(p) \/ CidrFound(p)

LEMMA UniqueQuietCall ==
    ASSUME UniqueInv, SerialInv', NEW p \in Procs, QuietCall(p)
    PROVE  UniqueInv'
<1> USE DEF UniqueInv, SerialInv
<1>1. PICK n \in {1, 2, 3},
           k \in {"gateway", "bridge", "netns", "useNet", "relNet", "cidr", "routes"} :
               Call(p, n, k) /\ (k \in Before => (pc[p] = "idle" \/ \E b \in Before : At(p, b)))
  <2>1. CASE Begin(p) \/ Gateway(p) \/ GatewayWithMaskSegment(p) \/ GetNS(p)
    BY <2>1 DEF Begin, Gateway, GatewayWithMaskSegment, GetNS, At, Before
  <2>2. CASE CreateFailed(p) \/ Nodes(p) \/ CidrFound(p)
    BY <2>2 DEF CreateFailed, Nodes, CidrFound, Before
  <2> QED
    BY <2>1, <2>2 DEF QuietCall
<1>2. UNCHANGED <<hostNet, record, net, seen, drew, ip, podIP>>
  BY DEF QuietCall, Begin, Gateway, GatewayWithMaskSegment, GetNS, CreateFailed, Nodes, CidrFound
<1>3. \A q \in Procs, b \in Returns : At(q, b)' <=> IF q = p THEN b = k ELSE At(q, b)
  BY <1>1, CallAt
<1>4. /\ \A q \in Procs : q # p => pc'[q] = pc[q]
      /\ pc'[p] = "poolGet"
  BY <1>1 DEF Call, Typed, TypeOK
<1>5. Before \subseteq Returns
  BY DEF Before, Returns
<1>6. Given(p) => \A b \in Before : ~At(p, b)'
  BY <1>1, <1>3, <1>5 DEF NotBefore
<1> QED
  BY <1>2, <1>3, <1>4, <1>6, QuietStep

\* The steps that end the ADD, and the devices made without error.
QuietGoto(p) ==
    Create(p) \/ Finish(p) \/ CidrNotFound(p) \/ HostError(p) \/ Crash(p)

LEMMA UniqueQuietGoto ==
    ASSUME UniqueInv, SerialInv', NEW p \in Procs, QuietGoto(p)
    PROVE  UniqueInv'
<1> USE DEF UniqueInv, SerialInv
<1>1. PICK step \in Ended \cup {"nodes"} : Goto(p, step)
  BY DEF QuietGoto, Create, Finish, CidrNotFound, HostError, Crash, End, Ended
<1>2. /\ UNCHANGED <<hostNet, record, drew, podIP>>
      /\ \A q \in Procs : q # p => net'[q] = net[q] /\ seen'[q] = seen[q] /\ ip'[q] = ip[q]
  <2>1. CASE Create(p) \/ Finish(p)
    BY <2>1 DEF Create, Finish
  <2>2. CASE CidrNotFound(p) \/ HostError(p) \/ Crash(p)
    <3>1. PICK how \in Ended : End(p, how)
      BY <2>2 DEF CidrNotFound, HostError, Crash, Ended
    <3>2. /\ net \in [Procs -> NetsOrNone] /\ seen \in [Procs -> SUBSET Nat]
          /\ ip \in [Procs -> Nat]
      BY DEF Typed, TypeOK
    <3> HIDE DEF UniqueInv, SerialInv
    <3> QED
      BY <3>1, <3>2 DEF End
  <2> QED
    BY <2>1, <2>2 DEF QuietGoto
<1>3. \A q \in Procs, b \in Returns : At(q, b)' <=> q # p /\ At(q, b)
  BY <1>1, GotoAt
<1>4. /\ \A q \in Procs : q # p => pc'[q] = pc[q]
      /\ pc'[p] # "idle"
  BY <1>1, Disjoint DEF Goto, Typed, TypeOK, Ended
<1>5. Before \subseteq Returns
  BY DEF Before, Returns
<1> QED
  BY <1>2, <1>3, <1>4, <1>5, QuietStep

LEMMA UniqueStep ==
    ASSUME HostSerialised, EtcdFailsFor = {}, UniqueInv, [Next]_vars
    PROVE  UniqueInv'
<1>1. SerialInv'
  BY SerialStep DEF UniqueInv
<1>2. CASE UNCHANGED vars
  BY <1>1, <1>2 DEF UniqueInv, NotBefore, Drawn, NetHeld, DrawnFromNet, RecordedAtNet,
     SeenIsRecord, Kept, KeptForReader, Fresh, UniqueOnNetwork, Given, At
<1>3. ASSUME NEW p \in Procs,
             \/ Begin(p) \/ Step(p) \/ SetPutLost(p)
             \/ HostError(p) \/ EtcdError(p) \/ Crash(p)
      PROVE  UniqueInv'
  <2>1. CASE GetIpamService(p)
    BY <2>1, <1>1, UniqueService
  <2>2. CASE UnusedIP(p)
    BY <2>2, <1>1, UniqueUseNet, UniqueUseRec, UniqueSetNet, UniqueSetGet, UniqueSetPut
       DEF UnusedIP
  <2>3. CASE ReleaseIPs(p)
    BY <2>3, <1>1, UniqueRelNet, UniqueRelGet, UniqueRelPut DEF ReleaseIPs
  <2>4. CASE QuietCall(p)
    BY <2>4, <1>1, UniqueQuietCall
  <2>5. CASE QuietGoto(p)
    BY <2>5, <1>1, UniqueQuietGoto
  <2>6. ~SetPutLost(p) /\ ~EtcdError(p)
    BY DEF SetPutLost, EtcdError
  <2> QED
    BY <1>3, <2>1, <2>2, <2>3, <2>4, <2>5, <2>6
       DEF Step, AllHostNetwork, QuietCall, QuietGoto
<1> QED
  BY <1>2, <1>3 DEF Next

\* When the ADDs of a host do not overlap and etcd answers every request, two
\* of its ADDs that drew from the same network were given different addresses,
\* though any of them may have been killed between two etcd requests, failed
\* after it had its address, or gone through Release.IPs.
THEOREM AddressesUnique ==
    ASSUME HostSerialised, EtcdFailsFor = {}
    PROVE  Spec => []UniqueOnNetwork
<1>1. UniqueInv /\ [Next]_vars => UniqueInv'
  BY UniqueStep
<1>2. UniqueInv => UniqueOnNetwork
  BY DEF UniqueInv
<1> QED
  BY <1>1, <1>2, UniqueInit, PTL DEF Spec

-------------------------------------------------------------------------------
(* A host leaves its network only when the network is full.                *)

\* All that network n has below a, from its first address for a pod, is recorded.
FilledTo(h, n, a) ==
    /\ a >= Base(n) + 2
    /\ \A x \in (Base(n) + 2) .. (a - 1) : x \in record[h][n]

Drawing == {"setNet", "setGet", "setPut"}

\* The records of a host have no gaps, and the address drawn closes up to them.
NoGaps ==
    \A h \in Hosts : DrawnOnNet(h) =>
        /\ record[h][NoNet] = {}
        /\ \A n \in NetsOrNone : \A a \in record[h][n] : FilledTo(h, n, a)

NextInLine ==
    \A p \in Procs : DrawnOnNet(HostOf[p]) =>
        /\ \A k \in Drawing : At(p, k) => FilledTo(HostOf[p], drew[p], ip[p])
        /\ Given(p) => FilledTo(HostOf[p], drew[p], podIP[p])

FullInv == UniqueInv /\ NoGaps /\ NextInLine

LEMMA BaseNext ==
    ASSUME NEW n \in Nat
    PROVE  Base(n) \in Nat /\ Base(n + 1) = Base(n) + NetSize
  BY IpamAssumption DEF Base

\* NetOf and Reserved, for the addresses of network n.
LEMMA InsideNet ==
    ASSUME NEW n \in Nat, NEW a \in Nat, a >= Base(n), a < Base(n + 1)
    PROVE  NetOf(a) = n /\ (Reserved(a) <=> a < Base(n) + 2)
<1> DEFINE r == a % NetSize
           q == a \div NetSize
<1>1. NetSize \in Nat /\ NetSize > 2 /\ NetSize > 0
  BY IpamAssumption
<1>2. r \in 0 .. (NetSize - 1) /\ q \in Int /\ a = (NetSize * q) + r
  BY <1>1, DivMod
<1>3. q = NetOf(a) /\ (Reserved(a) <=> (r = 0 \/ r = 1))
  BY DEF NetOf, Reserved, IsGatewayIP, IsRetainIP
<1>4. a >= NetSize * n /\ a < (NetSize * n) + NetSize /\ Base(n) = NetSize * n
  BY <1>1 DEF Base
<1> HIDE DEF r, q
<1>5. ~(q - n >= 1)
  <2>1. NetSize * (q - n) = (NetSize * q) - (NetSize * n)
    BY <1>1, <1>2
  <2>2. q - n >= 1 => NetSize * (q - n) >= NetSize
    BY <1>1, <1>2
  <2> QED
    BY <1>1, <1>2, <1>4, <2>1, <2>2
<1>6. ~(n - q >= 1)
  <2>1. NetSize * (n - q) = (NetSize * n) - (NetSize * q)
    BY <1>1, <1>2
  <2>2. n - q >= 1 => NetSize * (n - q) >= NetSize
    BY <1>1, <1>2
  <2> QED
    BY <1>1, <1>2, <1>4, <2>1, <2>2
<1>7. q = n
  BY <1>2, <1>5, <1>6
<1> QED
  BY <1>1, <1>2, <1>3, <1>4, <1>7

LEMMA FullEnough == FullInv => LeavesOnlyWhenFull
<1> SUFFICES ASSUME FullInv, NEW p \in Procs, Given(p), NetOf(podIP[p]) # drew[p],
                    DrawnOnNet(HostOf[p]), NEW a \in Usable(drew[p])
             PROVE  a \in record[HostOf[p]][drew[p]]
  BY DEF LeavesOnlyWhenFull
<1>1. drew[p] \in Nat /\ podIP[p] \in Nat
  BY NetsNat DEF FullInv, UniqueInv, SerialInv, Typed, TypeOK
<1>2. /\ podIP[p] >= Base(drew[p]) + 2
      /\ \A x \in (Base(drew[p]) + 2) .. (podIP[p] - 1) : x \in record[HostOf[p]][drew[p]]
  BY DEF FullInv, NextInLine, FilledTo
<1>3. Base(drew[p]) \in Nat /\ Base(drew[p] + 1) \in Nat
  BY <1>1, BaseNext, IpamAssumption
<1>4. podIP[p] >= Base(drew[p] + 1)
  <2>1. podIP[p] >= Base(drew[p])
    BY <1>1, <1>2, <1>3
  <2>2. ~(podIP[p] < Base(drew[p] + 1))
    BY <1>1, <2>1, InsideNet
  <2> QED
    BY <1>1, <1>3, <2>2
<1>5. /\ a \in Nat /\ a >= Base(drew[p]) /\ a < Base(drew[p] + 1) /\ ~Reserved(a)
  BY <1>3 DEF Usable
<1>6. a >= Base(drew[p]) + 2
  BY <1>1, <1>3, <1>5, InsideNet
<1>7. a \in (Base(drew[p]) + 2) .. (podIP[p] - 1)
  BY <1>1, <1>3, <1>4, <1>5, <1>6
<1> QED
  BY <1>2, <1>7

LEMMA FullInit == Init => FullInv
<1> SUFFICES ASSUME Init PROVE FullInv
  OBVIOUS
<1>1. UniqueInv
  BY UniqueInit
<1>2. NoGaps
  <2>1. \A h \in Hosts, n \in NetsOrNone : record[h][n] = {}
    BY DEF Init, NetsOrNone
  <2>2. NoNet \in NetsOrNone
    BY DEF NetsOrNone
  <2> QED
    BY <2>1, <2>2 DEF NoGaps
<1>3. NextInLine
  <2>1. \A p \in Procs : ~Given(p) /\ pc[p] = "idle"
    BY DEF Init, Given
  <2>2. \A p \in Procs, k \in Drawing : ~At(p, k)
    BY <2>1 DEF At, Drawing, InitSteps
  <2> QED
    BY <2>1, <2>2 DEF NextInLine
<1> QED
  BY <1>1, <1>2, <1>3 DEF FullInv

\* A step that draws nothing and writes no record.
LEMMA FullQuiet ==
    ASSUME FullInv, UNCHANGED <<record, drew, podIP>>,
           \A q \in Procs, k \in Drawing : At(q, k)' =>
               ip'[q] = ip[q] /\ \E j \in Drawing : At(q, j)
    PROVE  NoGaps' /\ NextInLine'
<1>1. \A h : DrawnOnNet(h)' <=> DrawnOnNet(h)
  BY DEF DrawnOnNet, Given
<1>2. \A h, n, a : FilledTo(h, n, a)' <=> FilledTo(h, n, a)
  BY DEF FilledTo
<1>3. NoGaps'
  BY <1>1, <1>2 DEF FullInv, NoGaps
<1>4. NextInLine'
  BY <1>1, <1>2 DEF FullInv, NextInLine, Given
<1> QED
  BY <1>3, <1>4

\* The steps that neither draw an address nor record one.
LEMMA FullOther ==
    ASSUME FullInv, UniqueInv', NEW p \in Procs,
           \/ GetIpamService(p) \/ SetNet(p) \/ SetGet(p)
           \/ ReleaseIPs(p) \/ QuietCall(p) \/ QuietGoto(p)
    PROVE  NoGaps' /\ NextInLine'
<1> USE DEF FullInv
<1>t. Typed /\ Drawing \subseteq Returns
  BY DEF UniqueInv, SerialInv, Drawing, Returns
<1>1. CASE GetIpamService(p)
  BY <1>1, <1>t, ServiceAt, FullQuiet
<1>2. CASE SetNet(p)
  <2>1. \A q \in Procs, k \in Returns : At(q, k)' <=> IF q = p THEN k = "setGet" ELSE At(q, k)
    BY <1>2, <1>t, CallAt DEF SetNet
  <2>2. At(p, "setNet") /\ "setNet" \in Drawing /\ UNCHANGED <<record, drew, podIP, ip>>
    BY <1>2 DEF SetNet, At, Drawing
  <2> QED
    BY <1>t, <2>1, <2>2, FullQuiet
<1>3. CASE SetGet(p)
  <2>1. \A q \in Procs, k \in Returns : At(q, k)' <=> IF q = p THEN k = "setPut" ELSE At(q, k)
    BY <1>3, <1>t, CallAt DEF SetGet
  <2>2. At(p, "setGet") /\ "setGet" \in Drawing /\ UNCHANGED <<record, drew, podIP, ip>>
    BY <1>3 DEF SetGet, At, Drawing
  <2> QED
    BY <1>t, <2>1, <2>2, FullQuiet
<1>4. CASE RelNet(p) \/ RelGet(p)
  <2>1. PICK j \in {"relGet", "relPut"} : Call(p, 2, j) /\ UNCHANGED <<record, drew, podIP, ip>>
    BY <1>4 DEF RelNet, RelGet
  <2>2. \A q \in Procs, k \in Returns : At(q, k)' <=> IF q = p THEN k = j ELSE At(q, k)
    BY <1>t, <2>1, CallAt
  <2>3. j \notin Drawing
    BY DEF Drawing
  <2> QED
    BY <1>t, <2>1, <2>2, <2>3, FullQuiet
<1>5. CASE RelPut(p)
  <2>1. \A q \in Procs, k \in Returns : At(q, k)' <=> q # p /\ At(q, k)
    BY <1>5, <1>t, GotoAt DEF RelPut
  <2>2. record' = record
    BY <1>5, RelPutKeeps
  <2>3. UNCHANGED <<drew, podIP, ip>>
    BY <1>5 DEF RelPut
  <2> QED
    BY <1>t, <2>1, <2>2, <2>3, FullQuiet
<1>6. CASE QuietCall(p)
  <2>1. PICK n \in {1, 2, 3},
             j \in {"gateway", "bridge", "netns", "useNet", "relNet", "cidr", "routes"} :
                 Call(p, n, j)
    BY <1>6 DEF QuietCall, Begin, Gateway, GatewayWithMaskSegment, GetNS, CreateFailed,
       Nodes, CidrFound
  <2>2. UNCHANGED <<record, drew, podIP, ip>>
    BY <1>6 DEF QuietCall, Begin, Gateway, GatewayWithMaskSegment, GetNS, CreateFailed,
       Nodes, CidrFound
  <2>3. \A q \in Procs, k \in Returns : At(q, k)' <=> IF q = p THEN k = j ELSE At(q, k)
    BY <1>t, <2>1, CallAt
  <2>4. j \notin Drawing
    BY DEF Drawing
  <2> QED
    BY <1>t, <2>2, <2>3, <2>4, FullQuiet
<1>7. CASE QuietGoto(p)
  <2>1. PICK step \in Ended \cup {"nodes"} : Goto(p, step)
    BY <1>7 DEF QuietGoto, Create, Finish, CidrNotFound, HostError, Crash, End, Ended
  <2>2. UNCHANGED <<record, drew, podIP>> /\ \A q \in Procs : q # p => ip'[q] = ip[q]
    BY <1>7, <1>t DEF QuietGoto, Create, Finish, CidrNotFound, HostError, Crash, End,
       Typed, TypeOK
  <2>3. \A q \in Procs, k \in Returns : At(q, k)' <=> q # p /\ At(q, k)
    BY <1>t, <2>1, GotoAt
  <2> QED
    BY <1>t, <2>2, <2>3, FullQuiet
<1> QED
  BY <1>1, <1>2, <1>3, <1>4, <1>5, <1>6, <1>7 DEF ReleaseIPs

\* The ADD that reads the host's network has no address yet.
LEMMA FullUseNet ==
    ASSUME FullInv, UniqueInv', NEW p \in Procs, UseNet(p)
    PROVE  NoGaps' /\ NextInLine'
<1> USE DEF FullInv
<1>t. Typed /\ Drawing \subseteq Returns /\ "useRec" \notin Drawing
  BY DEF UniqueInv, SerialInv, Drawing, Returns
<1>1. \A q \in Procs, k \in Returns : At(q, k)' <=> IF q = p THEN k = "useRec" ELSE At(q, k)
  BY <1>t, CallAt DEF UseNet
<1>2. ~Given(p)
  BY DEF UniqueInv, NotBefore, UseNet, At, Before
<1>3. /\ UNCHANGED <<record, podIP, ip>>
      /\ \A q \in Procs : q # p => drew'[q] = drew[q]
  BY <1>t DEF UseNet, Typed, TypeOK
<1>4. \A h : DrawnOnNet(h)' <=> DrawnOnNet(h)
  BY <1>2, <1>3 DEF DrawnOnNet, Given
<1>5. \A h, n, a : FilledTo(h, n, a)' <=> FilledTo(h, n, a)
  BY <1>3 DEF FilledTo
<1>6. NoGaps'
  BY <1>3, <1>4, <1>5 DEF NoGaps
<1>7. NextInLine'
  BY <1>t, <1>1, <1>2, <1>3, <1>4, <1>5 DEF NextInLine, Given
<1> QED
  BY <1>6, <1>7

\* One past the last of a record without gaps.
LEMMA FullUseRec ==
    ASSUME FullInv, UniqueInv', NEW p \in Procs, UseRec(p)
    PROVE  NoGaps' /\ NextInLine'
<1> USE DEF FullInv
<1>t. Typed /\ Drawing \subseteq Returns
  BY DEF UniqueInv, SerialInv, Drawing, Returns
<1>1. \A q \in Procs, k \in Returns : At(q, k)' <=> IF q = p THEN k = "setNet" ELSE At(q, k)
  BY <1>t, CallAt DEF UseRec
<1>2. /\ UNCHANGED <<record, drew, podIP>>
      /\ \A q \in Procs : q # p => ip'[q] = ip[q]
  BY <1>t DEF UseRec, Typed, TypeOK
<1>3. net[p] = drew[p] /\ HostOf[p] \in Hosts /\ net[p] \in NetsOrNone
  BY IpamAssumption DEF UniqueInv, UseRec, At, DrawnFromNet, SerialInv, Typed, TypeOK, Hosts
<1>4. \A h : DrawnOnNet(h)' <=> DrawnOnNet(h)
  BY <1>2 DEF DrawnOnNet, Given
<1>5. \A h, n, a : FilledTo(h, n, a)' <=> FilledTo(h, n, a)
  BY <1>2 DEF FilledTo
<1>6. ASSUME DrawnOnNet(HostOf[p])
      PROVE  FilledTo(HostOf[p], drew[p], ip'[p])
  <2> DEFINE R == record[HostOf[p]][net[p]]
  <2>1. NextUnused(ip'[p], net[p], R) /\ R \in SUBSET Nat /\ Base(net[p]) \in Nat
    <3>1. record \in [Hosts -> [NetsOrNone -> SUBSET Nat]]
      BY <1>t DEF Typed, TypeOK
    <3>2. NextUnused(ip'[p], net[p], R)
      BY <1>t DEF UseRec, Typed, TypeOK
    <3> QED
      BY <1>3, <3>1, <3>2, NetsNat, BaseType
  <2>2. CASE R = {} /\ ip'[p] = Base(net[p]) + 2
    BY <1>3, <2>1, <2>2 DEF FilledTo
  <2>3. CASE \E m \in R : IsMax(m, R) /\ ip'[p] = m + 1
    <3>1. PICK m \in R : ip'[p] = m + 1
      BY <2>3
    <3>2. FilledTo(HostOf[p], net[p], m)
      BY <1>3, <1>6 DEF NoGaps
    <3>3. m \in Nat
      BY <2>1
    <3>4. m + 1 >= Base(net[p]) + 2
      BY <2>1, <3>2, <3>3 DEF FilledTo
    <3>5. ASSUME NEW x \in (Base(net[p]) + 2) .. ((m + 1) - 1)
          PROVE  x \in R
      <4>1. x = m \/ x \in (Base(net[p]) + 2) .. (m - 1)
        BY <2>1, <3>3, <3>5
      <4> QED
        BY <4>1, <3>2 DEF FilledTo
    <3> QED
      BY <1>3, <3>1, <3>4, <3>5 DEF FilledTo
  <2> QED
    BY <2>1, <2>2, <2>3 DEF NextUnused
<1>7. NoGaps'
  BY <1>2, <1>4, <1>5 DEF NoGaps
<1>8. NextInLine'
  <2> SUFFICES ASSUME NEW q \in Procs, DrawnOnNet(HostOf[q])
               PROVE  /\ \A k \in Drawing : At(q, k)' => FilledTo(HostOf[q], drew[q], ip'[q])
                      /\ Given(q) => FilledTo(HostOf[q], drew[q], podIP[q])
    BY <1>2, <1>4, <1>5 DEF NextInLine, Given
  <2>1. CASE q = p
    BY <2>1, <1>6 DEF NextInLine
  <2>2. CASE q # p
    BY <2>2, <1>t, <1>1, <1>2 DEF NextInLine
  <2> QED
    BY <2>1, <2>2
<1> QED
  BY <1>7, <1>8

\* The address recorded is the next of its network: were it drawn from none, this
\* ADD would be given an address drawn from no network.
LEMMA FullSetPut ==
    ASSUME FullInv, UniqueInv', NEW p \in Procs, SetPut(p)
    PROVE  NoGaps' /\ NextInLine'
<1> USE DEF FullInv
<1> DEFINE h == HostOf[p]
           n == net[p]
<1>t. Typed /\ Drawing \subseteq Returns /\ "setPut" \in Drawing /\ "useNet" \notin Drawing
  BY DEF UniqueInv, SerialInv, Drawing, Returns
<1>1. /\ At(p, "setPut") /\ ~Given(p) /\ seen[p] = record[h][n] /\ h \in Hosts
      /\ n \in NetsOrNone /\ drew[p] \in NetsOrNone /\ ip[p] \in Nat
  BY IpamAssumption DEF UniqueInv, SetPut, NotBefore, Before, SeenIsRecord, At, SerialInv,
     Typed, TypeOK, Hosts
<1>2. /\ \A q \in Procs : q # p => podIP'[q] = podIP[q]
      /\ UNCHANGED <<drew, ip>>
      /\ \/ Reserved(ip[p]) /\ podIP' = podIP
         \/ ~Reserved(ip[p]) /\ podIP'[p] = ip[p]
  BY <1>t DEF SetPut, AfterSet, Typed, TypeOK
<1>3. \A q \in Procs, k \in Drawing : At(q, k)' => q # p /\ At(q, k)
  <2>1. Call(p, 2, "useNet") \/ Goto(p, "create")
    BY DEF SetPut, AfterSet
  <2> QED
    BY <2>1, <1>t, CallAt, GotoAt
<1>4. \A g \in Hosts, m \in NetsOrNone :
          record'[g][m] = IF g = h /\ m = n THEN record[g][m] \cup {ip[p]} ELSE record[g][m]
  BY <1>1, <1>t DEF SetPut, Typed, TypeOK
<1>5. \A g : DrawnOnNet(g)' => DrawnOnNet(g)
  BY <1>1, <1>2 DEF DrawnOnNet, Given
<1>6. \A g \in Hosts, m \in NetsOrNone : \A a : FilledTo(g, m, a) => FilledTo(g, m, a)'
  BY <1>4 DEF FilledTo
<1>7. ASSUME DrawnOnNet(h)'
      PROVE  drew[p] # NoNet
  <2> SUFFICES ASSUME drew[p] = NoNet PROVE FALSE
    OBVIOUS
  <2>1. FilledTo(h, NoNet, ip[p]) /\ record[h][NoNet] = {}
    BY <1>1, <1>5, <1>7, <1>t DEF NextInLine, NoGaps
  <2>2. Base(NoNet) = 0 /\ NetSize \in Nat /\ NetSize > 2
    BY IpamAssumption DEF Base, NoNet
  <2>3. ip[p] = 2
    <3>1. ip[p] >= 2
      BY <2>1, <2>2 DEF FilledTo
    <3>2. \A x \in 2 .. (ip[p] - 1) : FALSE
      BY <2>1, <2>2 DEF FilledTo
    <3>3. ~(ip[p] > 2)
      BY <1>1, <3>2
    <3> QED
      BY <1>1, <3>1, <3>3
  <2>4. ~Reserved(ip[p])
    BY <2>2, <2>3 DEF Reserved, IsGatewayIP, IsRetainIP
  <2>5. Given(p)'
    BY <1>2, <2>3, <2>4 DEF Given
  <2> QED
    BY <1>2, <1>7, <2>5 DEF DrawnOnNet
<1>8. drew[p] # NoNet => n = drew[p]
  BY <1>1 DEF UniqueInv, RecordedAtNet
<1>9. NoGaps'
  <2> SUFFICES ASSUME NEW g \in Hosts, DrawnOnNet(g)'
               PROVE  /\ record'[g][NoNet] = {}
                      /\ \A m \in NetsOrNone : \A a \in record'[g][m] : FilledTo(g, m, a)'
    BY DEF NoGaps
  <2>1. /\ record[g][NoNet] = {}
        /\ \A m \in NetsOrNone : \A a \in record[g][m] : FilledTo(g, m, a)
    BY <1>5 DEF NoGaps
  <2>2. record'[g][NoNet] = {}
    <3>1. NoNet \in NetsOrNone
      BY DEF NetsOrNone
    <3> QED
      BY <1>4, <1>7, <1>8, <2>1, <3>1
  <2>3. ASSUME NEW m \in NetsOrNone, NEW a \in record'[g][m]
        PROVE  FilledTo(g, m, a)'
    <3>1. CASE a \in record[g][m]
      BY <3>1, <2>1, <1>6
    <3>2. CASE a \notin record[g][m]
      <4>1. g = h /\ m = n /\ a = ip[p]
        <5>1. record'[g][m] = IF g = h /\ m = n THEN record[g][m] \cup {ip[p]}
                              ELSE record[g][m]
          BY <1>4
        <5> HIDE DEF h, n
        <5> QED
          BY <3>2, <5>1
      <4>2. FilledTo(h, drew[p], ip[p])
        BY <4>1, <1>1, <1>5, <1>t DEF NextInLine
      <4> QED
        BY <4>1, <4>2, <1>1, <1>6, <1>7, <1>8
    <3> QED
      BY <3>1, <3>2
  <2> QED
    BY <2>2, <2>3
<1>10. NextInLine'
  <2> SUFFICES ASSUME NEW q \in Procs, DrawnOnNet(HostOf[q])'
               PROVE  /\ \A k \in Drawing : At(q, k)' => FilledTo(HostOf[q], drew[q], ip[q])'
                      /\ Given(q)' => FilledTo(HostOf[q], drew[q], podIP[q])'
    BY DEF NextInLine
  <2>1. HostOf[q] \in Hosts /\ drew[q] \in NetsOrNone
    BY <1>t, IpamAssumption DEF Typed, TypeOK, Hosts
  <2>2. /\ \A k \in Drawing : At(q, k) => FilledTo(HostOf[q], drew[q], ip[q])
        /\ Given(q) => FilledTo(HostOf[q], drew[q], podIP[q])
    BY <1>5 DEF NextInLine
  <2>3. \A k \in Drawing : At(q, k)' => FilledTo(HostOf[q], drew[q], ip[q])'
    BY <1>2, <1>3, <1>6, <2>1, <2>2
  <2>4. Given(q)' => FilledTo(HostOf[q], drew[q], podIP[q])'
    <3>1. CASE podIP'[q] = podIP[q]
      BY <3>1, <1>2, <1>6, <2>1, <2>2 DEF Given
    <3>2. CASE q = p /\ podIP'[p] = ip[p]
      BY <3>2, <1>1, <1>2, <1>6, <1>t, <2>1, <2>2
    <3> QED
      BY <3>1, <3>2, <1>2
  <2> QED
    BY <2>3, <2>4
<1> QED
  BY <1>9, <1>10

LEMMA FullStep ==
    ASSUME HostSerialised, EtcdFailsFor = {}, FullInv, [Next]_vars
    PROVE  FullInv'
<1>1. UniqueInv'
  BY UniqueStep DEF FullInv
<1>2. CASE UNCHANGED vars
  BY <1>1, <1>2, FullQuiet DEF FullInv, At
<1>3. ASSUME NEW p \in Procs,
             \/ Begin(p) \/ Step(p) \/ SetPutLost(p)
             \/ HostError(p) \/ EtcdError(p) \/ Crash(p)
      PROVE  FullInv'
  <2>1. ~SetPutLost(p) /\ ~EtcdError(p)
    BY DEF SetPutLost, EtcdError
  <2>2. CASE UseNet(p) \/ UseRec(p) \/ SetPut(p)
    BY <2>2, <1>1, FullUseNet, FullUseRec, FullSetPut DEF FullInv
  <2>3. CASE \/ GetIpamService(p) \/ SetNet(p) \/ SetGet(p)
             \/ ReleaseIPs(p) \/ QuietCall(p) \/ QuietGoto(p)
    BY <2>3, <1>1, FullOther DEF FullInv
  <2> QED
    BY <1>3, <2>1, <2>2, <2>3
       DEF Step, UnusedIP, AllHostNetwork, QuietCall, QuietGoto
<1> QED
  BY <1>2, <1>3 DEF Next

\* When the ADDs of a host do not overlap and etcd answers every request, a host
\* draws an address beyond its network only when all of the network is recorded,
\* for networks of any size and however many ADDs failed or were killed; but for
\* a host with an address that was drawn before it had a network.
THEOREM FullBeforeLeaving ==
    ASSUME HostSerialised, EtcdFailsFor = {}
    PROVE  Spec => []LeavesOnlyWhenFull
<1>1. FullInv /\ [Next]_vars => FullInv'
  BY FullStep
<1> QED
  BY <1>1, FullInit, FullEnough, PTL DEF Spec

-------------------------------------------------------------------------------
(* The ADDs of a host work on its book as if each took one step.           *)

\* What a process between its read of the host's network and its write of the
\* record relies on.
Looking == {"useRec"} \cup Drawing

\* A host has entries under its network, and under no network.
NetlessEmpty ==
    \A h \in Hosts, n \in NetsOrNone : n \notin {NoNet, hostNet[h]} => record[h][n] = {}

\* A host that got its network while an address was being drawn has no entry
\* under it yet.
NetIsNew ==
    \A p \in Procs : \A k \in Looking :
        At(p, k) /\ drew[p] # hostNet[HostOf[p]] => record[HostOf[p]][hostNet[HostOf[p]]] = {}

\* The address drawn is still one past the entries it was drawn from.
NextFree ==
    \A p \in Procs : \A k \in Drawing :
        At(p, k) => Book!IsNext(ip[p], record[HostOf[p]][drew[p]])

BookInv == UniqueInv /\ NetlessEmpty /\ NetIsNew /\ NextFree

LEMMA BookInit == Init => BookInv /\ Book!Init
<1> SUFFICES ASSUME Init PROVE BookInv /\ Book!Init
  OBVIOUS
<1>1. UniqueInv
  BY UniqueInit
<1>2. \A p \in Procs : \A k \in Looking : ~At(p, k)
  BY DEF Init, At, Looking, Drawing, InitSteps
<1>3. NetlessEmpty
  BY DEF Init, NetlessEmpty, NetsOrNone
<1>4. NetIsNew /\ NextFree
  BY <1>2 DEF NetIsNew, NextFree, Looking
<1>5. Book!Init
  BY DEF Init, Book!Init
<1> QED
  BY <1>1, <1>3, <1>4, <1>5 DEF BookInv

\* A step that draws nothing and writes no record.
LEMMA BookQuiet ==
    ASSUME BookInv, UNCHANGED <<hostNet, record, drew>>,
           \A q \in Procs, k \in Looking : At(q, k)' => \E j \in Looking : At(q, j),
           \A q \in Procs, k \in Drawing : At(q, k)' =>
               ip'[q] = ip[q] /\ \E j \in Drawing : At(q, j)
    PROVE  NetlessEmpty' /\ NetIsNew' /\ NextFree'
<1> USE DEF BookInv
<1>1. NetlessEmpty'
  BY DEF NetlessEmpty
<1>2. NetIsNew'
  BY DEF NetIsNew
<1>3. NextFree'
  BY DEF NextFree, Book!IsNext
<1> QED
  BY <1>1, <1>2, <1>3

\* GetIpamService writes the host's network at most once, and draws nothing.
LEMMA BookService ==
    ASSUME BookInv, NEW p \in Procs, GetIpamService(p)
    PROVE  /\ NetlessEmpty' /\ NetIsNew' /\ NextFree'
           /\ [Book!Next]_(Book!vars)
<1> USE DEF BookInv
<1>1. /\ \A q \in Procs, k \in Returns : At(q, k)' <=> At(q, k)
      /\ UNCHANGED <<record, alloc, rest>>
  BY ServiceAt DEF UniqueInv, SerialInv
<1>t. Looking \subseteq Returns /\ Drawing \subseteq Returns
  BY DEF Looking, Drawing, Returns
<1>2. CASE hostNet' = hostNet
  <2>1. NetlessEmpty' /\ NetIsNew' /\ NextFree'
    BY <1>1, <1>2, <1>t, BookQuiet
  <2> QED
    BY <1>1, <1>2, <2>1 DEF Book!vars
<1>3. CASE NetSetHost(p) /\ hostNet' # hostNet
  <2> DEFINE h == HostOf[p]
             n == FirstOf(snap[p])
  <2>1. /\ h \in Hosts /\ hostNet[h] = NoNet
        /\ hostNet' = [hostNet EXCEPT ![h] = n]
        /\ hostNet \in [Hosts -> NetsOrNone]
    BY <1>3, IpamAssumption
       DEF NetSetHost, UniqueInv, SerialInv, NoNetYet, Typed, TypeOK, Hosts
  <2>2. n \in Nets /\ n # NoNet
    <3>1. n \in NetsOrNone
      BY PoolType DEF UniqueInv, SerialInv, Typed, TypeOK
    <3>2. n # NoNet
      BY <1>3, <2>1
    <3> QED
      BY <3>1, <3>2 DEF NetsOrNone
  <2> HIDE DEF n
  <2>3. \A m \in NetsOrNone : m # NoNet => record[h][m] = {}
    BY <2>1 DEF NetlessEmpty
  <2>4. \A g \in Hosts : hostNet'[g] = IF g = h THEN n ELSE hostNet[g]
    BY <2>1
  <2>5. NetlessEmpty'
    BY <1>1, <2>3, <2>4 DEF NetlessEmpty
  <2>6. NetIsNew'
    <3> SUFFICES ASSUME NEW q \in Procs, NEW k \in Looking, At(q, k)',
                        drew'[q] # hostNet'[HostOf[q]]
                 PROVE  record'[HostOf[q]][hostNet'[HostOf[q]]] = {}
      BY DEF NetIsNew
    <3>1. HostOf[q] \in Hosts /\ At(q, k) /\ drew'[q] = drew[q]
      BY <1>1, <1>t, IpamAssumption DEF Hosts
    <3>2. CASE HostOf[q] = h
      BY <3>2, <2>2, <2>3, <2>4, <3>1, <1>1 DEF NetsOrNone
    <3>3. CASE HostOf[q] # h
      BY <3>1, <3>3, <2>4, <1>1 DEF NetIsNew
    <3> QED
      BY <3>2, <3>3
  <2>7. NextFree'
    BY <1>1, <1>t DEF NextFree, Book!IsNext
  <2>8. Book!Join(h)
    BY <1>1, <2>1, <2>2 DEF Book!Join
  <2> QED
    BY <2>1, <2>5, <2>6, <2>7, <2>8 DEF Book!Next
<1> QED
  BY <1>2, <1>3, OnlyNetSetHost DEF Step

\* The other steps that neither draw an address nor record one.
LEMMA BookOther ==
    ASSUME BookInv, NEW p \in Procs,
           SetNet(p) \/ SetGet(p) \/ ReleaseIPs(p) \/ QuietCall(p) \/ QuietGoto(p)
    PROVE  /\ NetlessEmpty' /\ NetIsNew' /\ NextFree'
           /\ [Book!Next]_(Book!vars)
<1> USE DEF BookInv
<1>t. Typed /\ Looking \subseteq Returns /\ Drawing \subseteq Looking
  BY DEF UniqueInv, SerialInv, Looking, Drawing, Returns
<1> SUFFICES /\ UNCHANGED <<hostNet, record, podIP, drew>>
             /\ \A q \in Procs, k \in Looking : At(q, k)' => \E j \in Looking : At(q, j)
             /\ \A q \in Procs, k \in Drawing : At(q, k)' =>
                    ip'[q] = ip[q] /\ \E j \in Drawing : At(q, j)
  BY BookQuiet DEF Book!vars
<1>2. CASE SetNet(p)
  <2>1. \A q \in Procs, k \in Returns : At(q, k)' <=> IF q = p THEN k = "setGet" ELSE At(q, k)
    BY <1>2, <1>t, CallAt DEF SetNet
  <2>2. /\ At(p, "setNet") /\ "setNet" \in Drawing
        /\ UNCHANGED <<hostNet, record, drew, podIP, ip>>
    BY <1>2 DEF SetNet, At, Drawing
  <2> QED
    BY <1>t, <2>1, <2>2
<1>3. CASE SetGet(p)
  <2>1. \A q \in Procs, k \in Returns : At(q, k)' <=> IF q = p THEN k = "setPut" ELSE At(q, k)
    BY <1>3, <1>t, CallAt DEF SetGet
  <2>2. /\ At(p, "setGet") /\ "setGet" \in Drawing
        /\ UNCHANGED <<hostNet, record, drew, podIP, ip>>
    BY <1>3 DEF SetGet, At, Drawing
  <2> QED
    BY <1>t, <2>1, <2>2
<1>4. CASE RelNet(p) \/ RelGet(p)
  <2>1. PICK j \in {"relGet", "relPut"} :
            Call(p, 2, j) /\ UNCHANGED <<hostNet, record, drew, podIP, ip>>
    BY <1>4 DEF RelNet, RelGet
  <2>2. \A q \in Procs, k \in Returns : At(q, k)' <=> IF q = p THEN k = j ELSE At(q, k)
    BY <1>t, <2>1, CallAt
  <2>3. j \notin Looking
    BY DEF Looking, Drawing
  <2> QED
    BY <1>t, <2>1, <2>2, <2>3
<1>5. CASE RelPut(p)
  <2>1. \A q \in Procs, k \in Returns : At(q, k)' <=> q # p /\ At(q, k)
    BY <1>5, <1>t, GotoAt DEF RelPut
  <2>2. record' = record
    BY <1>5, RelPutKeeps
  <2>3. UNCHANGED <<hostNet, drew, podIP, ip>>
    BY <1>5 DEF RelPut
  <2> QED
    BY <1>t, <2>1, <2>2, <2>3
<1>6. CASE QuietCall(p)
  <2>1. PICK n \in {1, 2, 3},
             j \in {"gateway", "bridge", "netns", "useNet", "relNet", "cidr", "routes"} :
                 Call(p, n, j)
    BY <1>6 DEF QuietCall, Begin, Gateway, GatewayWithMaskSegment, GetNS, CreateFailed,
       Nodes, CidrFound
  <2>2. UNCHANGED <<hostNet, record, drew, podIP, ip>>
    BY <1>6 DEF QuietCall, Begin, Gateway, GatewayWithMaskSegment, GetNS, CreateFailed,
       Nodes, CidrFound
  <2>3. \A q \in Procs, k \in Returns : At(q, k)' <=> IF q = p THEN k = j ELSE At(q, k)
    BY <1>t, <2>1, CallAt
  <2>4. j \notin Looking
    BY DEF Looking, Drawing
  <2> QED
    BY <1>t, <2>2, <2>3, <2>4
<1>7. CASE QuietGoto(p)
  <2>1. PICK step \in Ended \cup {"nodes"} : Goto(p, step)
    BY <1>7 DEF QuietGoto, Create, Finish, CidrNotFound, HostError, Crash, End, Ended
  <2>2. /\ UNCHANGED <<hostNet, record, drew, podIP>>
        /\ \A q \in Procs : q # p => ip'[q] = ip[q]
    BY <1>7, <1>t DEF QuietGoto, Create, Finish, CidrNotFound, HostError, Crash, End,
       Typed, TypeOK
  <2>3. \A q \in Procs, k \in Returns : At(q, k)' <=> q # p /\ At(q, k)
    BY <1>t, <2>1, GotoAt
  <2> QED
    BY <1>t, <2>2, <2>3
<1> QED
  BY <1>2, <1>3, <1>4, <1>5, <1>6, <1>7 DEF ReleaseIPs

LEMMA BookUseNet ==
    ASSUME BookInv, NEW p \in Procs, UseNet(p)
    PROVE  /\ NetlessEmpty' /\ NetIsNew' /\ NextFree'
           /\ [Book!Next]_(Book!vars)
<1> USE DEF BookInv
<1>t. Typed /\ Looking \subseteq Returns /\ Drawing \subseteq Looking /\ "useRec" \notin Drawing
  BY DEF UniqueInv, SerialInv, Looking, Drawing, Returns
<1>1. \A q \in Procs, k \in Returns : At(q, k)' <=> IF q = p THEN k = "useRec" ELSE At(q, k)
  BY <1>t, CallAt DEF UseNet
<1>2. /\ UNCHANGED <<hostNet, record, podIP, ip>>
      /\ drew'[p] = hostNet[HostOf[p]]
      /\ \A q \in Procs : q # p => drew'[q] = drew[q]
  BY <1>t DEF UseNet, Typed, TypeOK
<1>3. NetlessEmpty'
  BY <1>2 DEF NetlessEmpty
<1>4. NetIsNew'
  BY <1>t, <1>1, <1>2 DEF NetIsNew
<1>5. NextFree'
  BY <1>t, <1>1, <1>2 DEF NextFree, Book!IsNext
<1> QED
  BY <1>2, <1>3, <1>4, <1>5 DEF Book!vars

LEMMA BookUseRec ==
    ASSUME BookInv, NEW p \in Procs, UseRec(p)
    PROVE  /\ NetlessEmpty' /\ NetIsNew' /\ NextFree'
           /\ [Book!Next]_(Book!vars)
<1> USE DEF BookInv
<1>t. Typed /\ Looking \subseteq Returns /\ Drawing \subseteq Looking
      /\ "useRec" \in Looking /\ "setNet" \in Looking
  BY DEF UniqueInv, SerialInv, Looking, Drawing, Returns
<1>1. \A q \in Procs, k \in Returns : At(q, k)' <=> IF q = p THEN k = "setNet" ELSE At(q, k)
  BY <1>t, CallAt DEF UseRec
<1>2. /\ UNCHANGED <<hostNet, record, podIP, drew>>
      /\ \A q \in Procs : q # p => ip'[q] = ip[q]
  BY <1>t DEF UseRec, Typed, TypeOK
<1>3. At(p, "useRec") /\ net[p] = drew[p]
  BY DEF UseRec, At, UniqueInv, DrawnFromNet
<1>4. Book!IsNext(ip'[p], record[HostOf[p]][drew[p]])
  <2>1. NextUnused(ip'[p], net[p], record[HostOf[p]][net[p]])
    BY <1>t DEF UseRec, Typed, TypeOK
  <2> QED
    BY <2>1, <1>3 DEF NextUnused, IsMax, Book!IsNext
<1>5. NetlessEmpty'
  BY <1>2 DEF NetlessEmpty
<1>6. NetIsNew'
  BY <1>t, <1>1, <1>2, <1>3 DEF NetIsNew
<1>7. NextFree'
  <2> SUFFICES ASSUME NEW q \in Procs, NEW k \in Drawing, At(q, k)'
               PROVE  Book!IsNext(ip'[q], record[HostOf[q]][drew[q]])
    BY <1>2 DEF NextFree, Book!IsNext
  <2>1. CASE q = p
    BY <2>1, <1>4
  <2>2. CASE q # p
    BY <2>2, <1>t, <1>1, <1>2 DEF NextFree
  <2> QED
    BY <2>1, <2>2
<1> QED
  BY <1>2, <1>5, <1>6, <1>7 DEF Book!vars

\* What is about to be recorded follows on what is, also under a network the
\* host got after the address was drawn.
LEMMA NextAtPut ==
    ASSUME BookInv, NEW p \in Procs, At(p, "setPut")
    PROVE  Book!IsNext(ip[p], record[HostOf[p]][net[p]])
<1> USE DEF BookInv
<1>1. net[p] \in {hostNet[HostOf[p]], NoNet}
  BY DEF UniqueInv, NetHeld
<1>2. CASE net[p] = drew[p]
  BY <1>2 DEF NextFree, Drawing
<1>3. CASE net[p] # drew[p]
  <2>1. drew[p] = NoNet
    BY <1>3 DEF UniqueInv, RecordedAtNet
  <2>2. net[p] = hostNet[HostOf[p]] /\ drew[p] # hostNet[HostOf[p]]
    BY <2>1, <1>1, <1>3
  <2>3. record[HostOf[p]][net[p]] = {}
    BY <2>2 DEF NetIsNew, Looking, Drawing
  <2> QED
    BY <2>3 DEF Book!IsNext
<1> QED
  BY <1>2, <1>3

\* The one write that counts: the address it enters is the next one, whatever
\* the process saw of the host's network on its way.
LEMMA BookSetPut ==
    ASSUME BookInv, NEW p \in Procs, SetPut(p)
    PROVE  /\ NetlessEmpty' /\ NetIsNew' /\ NextFree'
           /\ [Book!Next]_(Book!vars)
<1> USE DEF BookInv
<1> DEFINE h == HostOf[p]
<1>t. Typed /\ Looking \subseteq Returns /\ Drawing \subseteq Looking
      /\ "setPut" \in Drawing /\ "useNet" \notin Looking
  BY DEF UniqueInv, SerialInv, Looking, Drawing, Returns
<1>1. /\ Running(p) /\ At(p, "setPut") /\ ~Given(p)
      /\ seen[p] = record[h][net[p]]
  BY Disjoint DEF SetPut, Running, At, UniqueInv, NotBefore, Before, SeenIsRecord, Returns, Ended
<1>2. /\ h \in Hosts /\ net[p] \in NetsOrNone /\ ip[p] \in Nat
      /\ record \in [Hosts -> [NetsOrNone -> SUBSET Nat]]
      /\ podIP \in [Procs -> Nat] /\ record[h] \in [NetsOrNone -> SUBSET Nat]
      /\ record[h][net[p]] \in SUBSET Nat
  <2>1. h \in Hosts /\ net[p] \in NetsOrNone /\ ip[p] \in Nat
        /\ record \in [Hosts -> [NetsOrNone -> SUBSET Nat]] /\ podIP \in [Procs -> Nat]
    BY <1>t, IpamAssumption DEF Typed, TypeOK, Hosts
  <2> QED
    BY <2>1
<1>3. /\ UNCHANGED <<hostNet, drew, ip>>
      /\ record' = [record EXCEPT ![h][net[p]] = @ \cup {ip[p]}]
  BY <1>1 DEF SetPut, AfterSet
<1>4. \A g \in Hosts, n \in NetsOrNone :
          record'[g][n] = IF g = h /\ n = net[p] THEN record[g][n] \cup {ip[p]} ELSE record[g][n]
  BY <1>2, <1>3
<1>5. net[p] \in {hostNet[h], NoNet}
  BY <1>1 DEF UniqueInv, NetHeld
<1>6. Book!IsNext(ip[p], record[h][net[p]])
  BY <1>1, NextAtPut
<1>7. ip[p] \notin record[h][net[p]]
  BY <1>2, <1>6 DEF Book!IsNext
<1>8. \A q \in Procs, k \in Looking : At(q, k)' => At(q, k) /\ HostOf[q] # h
  <2>1. /\ \A q \in Procs, k \in Returns : q # p => (At(q, k)' <=> At(q, k))
        /\ \A k \in Returns : At(p, k)' => k = "useNet"
    <3>1. Call(p, 2, "useNet") \/ Goto(p, "create")
      BY DEF SetPut, AfterSet
    <3> QED
      BY <1>t, <3>1, CallAt, GotoAt
  <2>2. \A q \in Procs, k \in Returns : q # p /\ SameHost(p, q) => ~At(q, k)
    BY <1>1, WriterAlone
  <2> QED
    BY <1>t, <2>1, <2>2 DEF SameHost
<1>9. \A q \in Procs : HostOf[q] \in Hosts /\ drew[q] \in NetsOrNone
                       /\ hostNet[HostOf[q]] \in NetsOrNone
  BY <1>t, IpamAssumption DEF Typed, TypeOK, Hosts
<1>10. NetlessEmpty'
  BY <1>3, <1>4, <1>5 DEF NetlessEmpty
<1>11. NetIsNew'
  BY <1>3, <1>4, <1>8, <1>9 DEF NetIsNew
<1>12. NextFree'
  <2> SUFFICES ASSUME NEW q \in Procs, NEW k \in Drawing, At(q, k)'
               PROVE  Book!IsNext(ip[q], record'[HostOf[q]][drew[q]])
    BY <1>3 DEF NextFree, Book!IsNext
  <2>1. record'[HostOf[q]][drew[q]] = record[HostOf[q]][drew[q]]
    BY <1>t, <1>4, <1>8, <1>9
  <2> QED
    BY <2>1, <1>t, <1>8 DEF NextFree
<1>13. Book!Enter(h, net[p], ip[p])
  BY <1>3, <1>6 DEF Book!Enter
<1>14. Book!KeepBack(p, net[p], ip[p]) \/ Book!Give(p, net[p], ip[p])
  <2>1. CASE Reserved(ip[p]) /\ podIP' = podIP
    BY <2>1, <1>2, <1>13 DEF Book!KeepBack
  <2>2. CASE ~Reserved(ip[p]) /\ podIP' = [podIP EXCEPT ![p] = ip[p]]
    BY <2>2, <1>1, <1>13 DEF Book!Give, Given
  <2> QED
    BY <2>1, <2>2 DEF SetPut, AfterSet
<1>15. Book!Next
  <2>1. ip[p] \in record'[h][net[p]] \ record[h][net[p]]
    BY <1>2, <1>4, <1>7
  <2> QED
    BY <2>1, <1>5, <1>14 DEF Book!Next
<1> QED
  BY <1>10, <1>11, <1>12, <1>15

LEMMA BookStep ==
    ASSUME HostSerialised, EtcdFailsFor = {}, BookInv, [Next]_vars
    PROVE  BookInv' /\ [Book!Next]_(Book!vars)
<1>1. UniqueInv'
  BY UniqueStep DEF BookInv
<1>2. CASE UNCHANGED vars
  <2>1. \A q \in Procs, k \in Looking : At(q, k)' <=> At(q, k)
    BY <1>2 DEF At
  <2>2. NetlessEmpty' /\ NetIsNew' /\ NextFree'
    BY <1>2, <2>1, BookQuiet DEF Looking
  <2> QED
    BY <1>1, <1>2, <2>2 DEF BookInv, Book!vars
<1>3. ASSUME NEW p \in Procs,
             \/ Begin(p) \/ Step(p) \/ SetPutLost(p)
             \/ HostError(p) \/ EtcdError(p) \/ Crash(p)
      PROVE  NetlessEmpty' /\ NetIsNew' /\ NextFree' /\ [Book!Next]_(Book!vars)
  <2>1. CASE GetIpamService(p)
    BY <2>1, BookService
  <2>2. CASE UseNet(p) \/ UseRec(p) \/ SetPut(p)
    BY <2>2, BookUseNet, BookUseRec, BookSetPut
  <2>3. CASE SetNet(p) \/ SetGet(p) \/ ReleaseIPs(p) \/ QuietCall(p) \/ QuietGoto(p)
    BY <2>3, BookOther
  <2>4. ~SetPutLost(p) /\ ~EtcdError(p)
    BY DEF SetPutLost, EtcdError
  <2> QED
    BY <1>3, <2>1, <2>2, <2>3, <2>4
       DEF Step, UnusedIP, AllHostNetwork, QuietCall, QuietGoto
<1> QED
  BY <1>1, <1>2, <1>3 DEF Next, BookInv

\* When the ADDs of a host do not overlap and etcd answers every request, the
\* requests of all the ADDs of the cluster, in any order and cut short anywhere,
\* implement the address book: hosts join it once, and an address is entered for
\* its ADD in one step, the next one, and never struck out.
THEOREM ImplementsBook ==
    ASSUME HostSerialised, EtcdFailsFor = {}
    PROVE  Spec => BookSpec
<1>1. BookInv /\ [Next]_vars => BookInv' /\ [Book!Next]_(Book!vars)
  BY BookStep
<1> QED
  BY <1>1, BookInit, PTL DEF Spec, BookSpec, Book!Spec

-------------------------------------------------------------------------------
(* No ADD goes on for ever.                                                *)

\* The requests that are left of the run of GetIpamService under way, at most.
Stage == [poolGet |-> 6, poolSet |-> 5, netGet |-> 4, netPool |-> 3,
          netSetHost |-> 2, netSetPool |-> 1]

Inside(p) == IF pc[p] \in InitSteps THEN Stage[pc[p]] + 6 * (runs[p] - 1) ELSE 0

\* Where cmdAdd is, the calls of GetIpamService aside, and how far that is from
\* its end without a further round of UnusedIP or a further node.
Place(p) == IF pc[p] \in InitSteps THEN cont[p] ELSE pc[p]

Far == [gateway |-> 15, bridge |-> 14, netns |-> 13, useNet |-> 12, useRec |-> 11,
        setNet |-> 10, setGet |-> 9, setPut |-> 8, create |-> 7, relNet |-> 6,
        relGet |-> 5, relPut |-> 4, nodes |-> 3, cidr |-> 2, routes |-> 1]

\* How many reserved addresses come from a on, without one for a pod between them.
Again(a) == IF IsRetainIP(a) THEN 2 ELSE IF IsGatewayIP(a) THEN 1 ELSE 0

\* The same of the address behind the record S.
AgainAfter(S) ==
    IF \E m \in S : IsMax(m, S) /\ IsRetainIP(m + 1) THEN 2
    ELSE IF \E m \in S : IsMax(m, S) /\ IsGatewayIP(m + 1) THEN 1
    ELSE 0

\* The rounds of UnusedIP that p has before it after the one it is in.
Rounds(p) ==
    IF Place(p) \in {"gateway", "bridge", "netns"} THEN 2
    ELSE IF Place(p) = "useNet" THEN AgainAfter(record[HostOf[p]][hostNet[HostOf[p]]])
    ELSE IF Place(p) = "useRec" THEN AgainAfter(record[HostOf[p]][net[p]])
    ELSE IF Place(p) \in Drawing THEN Again(ip[p])
    ELSE 0

\* The nodes AllHostNetwork has before it.
NodesLeft(p) ==
    IF Place(p) = "cidr" THEN NumHosts - node[p]
    ELSE IF Place(p) = "routes" THEN 0
    ELSE NumHosts

Visits(p) == Far[Place(p)] + 5 * Rounds(p) + NodesLeft(p)

Left(p) == IF Running(p) THEN 19 * Visits(p) + Inside(p) ELSE 0

\* What an ADD has before it when it begins, at most.
MaxSteps == 19 * NumHosts + 493

UsesUp(p) ==
    /\ Begin(p) => Left(p)' <= MaxSteps
    /\ Running(p) => Left(p)' <= Left(p) /\ (Step(p) => Left(p)' < Left(p))

LEMMA StageValues ==
    /\ \A k \in InitSteps : Stage[k] \in 1 .. 6
    /\ Stage["poolGet"] = 6 /\ Stage["poolSet"] = 5 /\ Stage["netGet"] = 4
    /\ Stage["netPool"] = 3 /\ Stage["netSetHost"] = 2 /\ Stage["netSetPool"] = 1
  BY DEF Stage, InitSteps

Places == Returns \cup {"create", "nodes"}

LEMMA FarValues ==
    /\ \A k \in Places : Far[k] \in 1 .. 15
    /\ Far["gateway"] = 15 /\ Far["bridge"] = 14 /\ Far["netns"] = 13
    /\ Far["useNet"] = 12 /\ Far["useRec"] = 11 /\ Far["setNet"] = 10
    /\ Far["setGet"] = 9 /\ Far["setPut"] = 8 /\ Far["create"] = 7
    /\ Far["relNet"] = 6 /\ Far["relGet"] = 5 /\ Far["relPut"] = 4
    /\ Far["nodes"] = 3 /\ Far["cidr"] = 2 /\ Far["routes"] = 1
  BY DEF Far, Places, Returns

LEMMA ModNext ==
    ASSUME NEW a \in Nat, a % NetSize = 0 \/ a % NetSize = 1
    PROVE  (a + 1) % NetSize = (a % NetSize) + 1
<1> DEFINE n == a \div NetSize
           r == a % NetSize
           m == (a + 1) \div NetSize
           s == (a + 1) % NetSize
<1>1. NetSize \in Nat /\ NetSize > 2 /\ NetSize > 0 /\ a \in Int /\ a + 1 \in Int
  BY IpamAssumption
<1>2. r \in 0 .. (NetSize - 1) /\ n \in Int /\ a = (NetSize * n) + r
  BY <1>1, DivMod
<1>3. s \in 0 .. (NetSize - 1) /\ m \in Int /\ a + 1 = (NetSize * m) + s
  BY <1>1, DivMod
<1>4. r = 0 \/ r = 1
  OBVIOUS
<1> HIDE DEF m, s, n, r
<1>5. NetSize * (m - n) = r + 1 - s
  BY <1>1, <1>2, <1>3
<1>6. ~(m - n >= 1)
  <2>1. m - n >= 1 => NetSize * (m - n) >= NetSize
    BY <1>1, <1>2, <1>3
  <2> QED
    BY <2>1, <1>1, <1>3, <1>4, <1>5
<1>7. ~(m - n <= -1)
  <2>1. m - n <= -1 => NetSize * (m - n) <= -NetSize
    BY <1>1, <1>2, <1>3
  <2> QED
    BY <2>1, <1>1, <1>3, <1>4, <1>5
<1>8. m = n
  BY <1>2, <1>3, <1>6, <1>7
<1>9. s = r + 1
  BY <1>1, <1>2, <1>3, <1>5, <1>8
<1> QED
  BY <1>9 DEF r, s

\* A reserved address is followed by fewer reserved ones than it begins.
LEMMA AgainStep ==
    \A a \in Nat : /\ Again(a) \in 0 .. 2
                   /\ ~Reserved(a) => Again(a) = 0
                   /\ Reserved(a) => Again(a + 1) + 1 <= Again(a)
<1> SUFFICES ASSUME NEW a \in Nat
             PROVE  /\ Again(a) \in 0 .. 2
                    /\ ~Reserved(a) => Again(a) = 0
                    /\ Reserved(a) => Again(a + 1) + 1 <= Again(a)
  OBVIOUS
<1>1. /\ Again(a) \in 0 .. 2
      /\ ~Reserved(a) => Again(a) = 0
  BY DEF Again, Reserved
<1>2. Reserved(a) => Again(a + 1) + 1 <= Again(a)
  <2> DEFINE r == a % NetSize
  <2>1. NetSize \in Nat /\ NetSize > 2
    BY IpamAssumption
  <2>4. SUFFICES ASSUME r = 0 \/ r = 1 PROVE Again(a + 1) + 1 <= Again(a)
    BY DEF Reserved, IsGatewayIP, IsRetainIP
  <2>5. (a + 1) % NetSize = r + 1
    BY <2>4, ModNext
  <2>6. CASE r = 0
    BY <2>1, <2>5, <2>6 DEF Again, IsGatewayIP, IsRetainIP
  <2>7. CASE r = 1
    BY <2>1, <2>5, <2>7 DEF Again, IsGatewayIP, IsRetainIP
  <2> QED
    BY <2>4, <2>6, <2>7
<1> QED
  BY <1>1, <1>2

LEMMA AgainFirst == \A n \in Nat : Base(n) + 2 \in Nat /\ Again(Base(n) + 2) = 0
<1> SUFFICES ASSUME NEW n \in Nat
             PROVE  Base(n) + 2 \in Nat /\ Again(Base(n) + 2) = 0
  OBVIOUS
<1>1. Base(n) \in Nat /\ Base(n + 1) = Base(n) + NetSize
  BY BaseNext
<1>2. ~Reserved(Base(n) + 2)
  BY <1>1, InsideNet, IpamAssumption
<1> QED
  BY <1>1, <1>2, AgainStep

LEMMA AgainEmpty == AgainAfter({}) = 0
  BY DEF AgainAfter

LEMMA AgainType == \A S : AgainAfter(S) \in 0 .. 2
  BY DEF AgainAfter

LEMMA AgainMax ==
    ASSUME NEW S \in SUBSET Nat, NEW a \in S, \A b \in S : b <= a
    PROVE  AgainAfter(S) = Again(a + 1)
<1>1. IsMax(a, S)
  BY DEF IsMax
<1>2. \A m \in S : IsMax(m, S) => m = a
  BY DEF IsMax
<1> QED
  BY <1>1, <1>2 DEF AgainAfter, Again

LEMMA PlaceType ==
    ASSUME Typed, NEW p \in Procs, Running(p)
    PROVE  Place(p) \in Places
  BY DEF Typed, TypeOK, Running, Place, Places, Steps, Returns, Ended

LeftOK ==
    \A p \in Procs : /\ Inside(p) \in Nat
                     /\ Rounds(p) \in 0 .. 2
                     /\ NodesLeft(p) \in 0 .. NumHosts
                     /\ Running(p) => /\ Far[Place(p)] \in 1 .. 15
                                      /\ Visits(p) \in 1 .. (25 + NumHosts)
                     /\ Left(p) \in Nat

LEMMA LeftType == Typed => LeftOK
<1> SUFFICES ASSUME Typed, NEW p \in Procs
             PROVE  /\ Inside(p) \in Nat
                    /\ Rounds(p) \in 0 .. 2
                    /\ NodesLeft(p) \in 0 .. NumHosts
                    /\ Running(p) => /\ Far[Place(p)] \in 1 .. 15
                                     /\ Visits(p) \in 1 .. (25 + NumHosts)
                    /\ Left(p) \in Nat
  BY DEF LeftOK
<1>1. Inside(p) \in Nat
  <2>1. pc[p] \in InitSteps => runs[p] \in Nat /\ runs[p] > 0
    BY DEF Typed, TypeOK, RunsLeft
  <2>2. pc[p] \in InitSteps => Stage[pc[p]] \in Nat
    BY StageValues
  <2> QED
    BY <2>1, <2>2 DEF Inside
<1>2. Rounds(p) \in 0 .. 2
  <2>1. ip[p] \in Nat
    BY DEF Typed, TypeOK
  <2> QED
    BY <2>1, AgainStep, AgainType DEF Rounds
<1>3. NodesLeft(p) \in 0 .. NumHosts
  BY IpamAssumption DEF NodesLeft, Typed, TypeOK, Hosts
<1>4. Running(p) => Far[Place(p)] \in 1 .. 15
  BY PlaceType, FarValues
<1>5. Running(p) => Visits(p) \in 1 .. (25 + NumHosts)
  BY <1>2, <1>3, <1>4, IpamAssumption DEF Visits
<1>6. Left(p) \in Nat
  BY <1>1, <1>5, IpamAssumption DEF Left
<1> QED
  BY <1>1, <1>2, <1>3, <1>4, <1>5, <1>6

\* One place further is worth every call of GetIpamService on the way.
LEMMA PlaceUses ==
    ASSUME Typed, Typed', NEW p \in Procs, Running(p), Running(p)',
           Visits(p)' < Visits(p), Inside(p)' <= 18
    PROVE  Left(p)' < Left(p)
<1>1. /\ Visits(p) \in Nat /\ Inside(p) \in Nat
      /\ Visits(p)' \in Nat /\ Inside(p)' \in Nat
  <2>1. LeftOK /\ LeftOK'
    BY LeftType, PTL
  <2> QED
    BY <2>1, IpamAssumption DEF LeftOK
<1>2. \A v, w, i, j \in Nat : w < v /\ j <= 18 => 19 * w + j < 19 * v + i
  OBVIOUS
<1>3. Left(p) = 19 * Visits(p) + Inside(p) /\ Left(p)' = 19 * Visits(p)' + Inside(p)'
  BY DEF Left
<1> QED
  BY <1>1, <1>2, <1>3

LEMMA CallUses ==
    ASSUME Typed, NEW p \in Procs, NEW n \in {1, 2, 3}, NEW step \in Returns, Call(p, n, step)
    PROVE  Running(p)' /\ Place(p)' = step /\ Inside(p)' <= 18
<1>1. pc'[p] = "poolGet" /\ cont'[p] = step /\ runs'[p] = n
  BY DEF Call, Typed, TypeOK
<1>2. "poolGet" \in InitSteps
  BY DEF InitSteps
<1> QED
  BY <1>1, <1>2, StageValues DEF Running, Place, Inside, Ended

LEMMA GotoUses ==
    ASSUME Typed, NEW p \in Procs, NEW step \in {"create", "nodes"}, Goto(p, step)
    PROVE  Running(p)' /\ Place(p)' = step /\ Inside(p)' <= 18
<1>1. pc'[p] = step /\ step \notin InitSteps
  BY DEF Goto, Typed, TypeOK, InitSteps
<1> QED
  BY <1>1 DEF Running, Place, Inside, Ended

\* An ADD that ends has nothing left.
LEMMA EndUses ==
    ASSUME Typed, NEW p \in Procs, Running(p), NEW step \in Ended, Goto(p, step)
    PROVE  Left(p)' = 0 /\ Left(p)' < Left(p)
<1>1. pc'[p] = step
  BY DEF Goto, Typed, TypeOK
<1>2. Left(p)' = 0
  BY <1>1 DEF Left, Running
<1>3. Left(p) > 0
  <2>1. Visits(p) \in 1 .. (25 + NumHosts) /\ Inside(p) \in Nat
    BY LeftType DEF LeftOK
  <2> QED
    BY <2>1, IpamAssumption DEF Left
<1> QED
  BY <1>2, <1>3

\* GetIpamService comes closer to its return, and what it may learn of the host's
\* network shortens the rounds to go.
LEMMA ServiceUses ==
    ASSUME BookInv, Typed', NEW p \in Procs, GetIpamService(p)
    PROVE  Left(p)' < Left(p)
<1>t. Typed /\ HostOf[p] \in Hosts
  BY IpamAssumption DEF BookInv, UniqueInv, SerialInv, Hosts
<1>1. pc[p] \in InitSteps /\ UNCHANGED <<record, alloc, rest>>
  BY <1>t, ServiceAt
<1>2. Running(p) /\ Place(p) = cont[p] /\ cont[p] \in Returns
  BY <1>1, <1>t, Disjoint DEF Running, Place, Typed, TypeOK
<1>3. LeftOK /\ LeftOK'
  BY <1>t, LeftType, PTL
<1>4. /\ runs[p] \in Nat /\ runs[p] > 0 /\ Stage[pc[p]] \in 1 .. 6
      /\ Inside(p) = Stage[pc[p]] + 6 * (runs[p] - 1)
  BY <1>1, <1>t, StageValues DEF Inside, Typed, TypeOK, RunsLeft
<1>5. /\ Running(p)' /\ Place(p)' = Place(p) /\ Inside(p)' < Inside(p)
  <2>1. ASSUME NEW k \in InitSteps, Goto(p, k), Stage[k] < Stage[pc[p]]
        PROVE  Running(p)' /\ Place(p)' = Place(p) /\ Inside(p)' < Inside(p)
    <3>1. pc'[p] = k /\ cont' = cont /\ runs' = runs
      BY <2>1, <1>t DEF Goto, Typed, TypeOK
    <3>2. Inside(p)' = Stage[k] + 6 * (runs[p] - 1) /\ Stage[k] \in 1 .. 6
      BY <3>1, StageValues DEF Inside
    <3>3. Running(p)' /\ Place(p)' = Place(p)
      BY <3>1, <1>2, Disjoint DEF Running, Place
    <3> QED
      BY <3>2, <3>3, <1>4, <2>1
  <2>2. ASSUME Return(p)
        PROVE  Running(p)' /\ Place(p)' = Place(p) /\ Inside(p)' < Inside(p)
    <3>1. /\ pc'[p] = IF runs[p] > 1 THEN "poolGet" ELSE cont[p]
          /\ runs'[p] = runs[p] - 1 /\ cont' = cont
      BY <2>2, <1>t DEF Return, Typed, TypeOK
    <3>2. "poolGet" \in InitSteps
      BY DEF InitSteps
    <3>3. Running(p)' /\ Place(p)' = Place(p)
      BY <3>1, <3>2, <1>2, Disjoint DEF Running, Place
    <3>4. CASE runs[p] > 1
      <4>1. Inside(p)' = 6 + 6 * ((runs[p] - 1) - 1)
        BY <3>1, <3>2, <3>4, StageValues DEF Inside
      <4> QED
        BY <4>1, <3>3, <1>4
    <3>5. CASE ~(runs[p] > 1)
      <4>1. Inside(p)' = 0
        BY <3>1, <3>5, <1>2, Disjoint DEF Inside
      <4>2. Inside(p) > 0
        BY <1>4
      <4> QED
        BY <4>1, <4>2, <3>3
    <3> QED
      BY <3>4, <3>5
  <2>3. {"poolSet", "netGet", "netPool", "netSetHost", "netSetPool"} \subseteq InitSteps
    BY DEF InitSteps
  <2>4. CASE PoolGet(p) \/ PoolSet(p)
    BY <2>1, <2>3, <2>4, StageValues DEF PoolGet, PoolSet
  <2>5. CASE NetGetEmpty(p) \/ NetPool(p) \/ NetSetHost(p)
    BY <2>1, <2>3, <2>5, StageValues DEF NetGetEmpty, NetPool, NetSetHost
  <2>6. CASE NetGetFound(p) \/ NetSetPool(p)
    BY <2>2, <2>6 DEF NetGetFound, NetSetPool
  <2> QED
    BY <2>4, <2>5, <2>6 DEF GetIpamService
<1>6. NodesLeft(p)' = NodesLeft(p)
  BY <1>1, <1>5 DEF NodesLeft
<1>7. Rounds(p)' <= Rounds(p)
  <2> DEFINE h == HostOf[p]
  <2>1. hostNet' = hostNet \/ (hostNet[h] = NoNet /\ record[h][hostNet'[h]] = {})
    <3>1. CASE NetSetHost(p) /\ hostNet'[h] # hostNet[h]
      <4>1. hostNet[h] = NoNet
        BY <3>1 DEF NetSetHost, BookInv, UniqueInv, SerialInv, NoNetYet
      <4>2. hostNet'[h] \in NetsOrNone
        BY <1>t DEF Typed, TypeOK
      <4> QED
        BY <4>1, <4>2, <3>1, <1>t DEF BookInv, NetlessEmpty
    <3>2. CASE NetSetHost(p) /\ hostNet'[h] = hostNet[h]
      BY <3>2, <1>t DEF NetSetHost, Typed, TypeOK
    <3> QED
      BY <3>1, <3>2, OnlyNetSetHost DEF Step
  <2>2. CASE hostNet' = hostNet
    <3>1. Rounds(p)' = Rounds(p)
      BY <2>2, <1>1, <1>5 DEF Rounds
    <3> QED
      BY <3>1, <1>3 DEF LeftOK
  <2>3. CASE hostNet[h] = NoNet /\ record[h][hostNet'[h]] = {} /\ Place(p) = "useNet"
    <3>1. Rounds(p)' = AgainAfter(record'[h][hostNet'[h]])
      BY <2>3, <1>5 DEF Rounds
    <3>2. Rounds(p)' = 0
      BY <3>1, <2>3, <1>1, AgainEmpty
    <3> QED
      BY <3>2, <1>3 DEF LeftOK
  <2>4. CASE Place(p) # "useNet"
    <3>1. Rounds(p)' = Rounds(p)
      BY <2>4, <1>1, <1>5 DEF Rounds
    <3> QED
      BY <3>1, <1>3 DEF LeftOK
  <2> QED
    BY <2>1, <2>2, <2>3, <2>4
<1>8. /\ Visits(p) = Far[Place(p)] + 5 * Rounds(p) + NodesLeft(p)
      /\ Visits(p)' = Far[Place(p)] + 5 * Rounds(p)' + NodesLeft(p)
  BY <1>5, <1>6 DEF Visits
<1>9. /\ Far[Place(p)] \in Nat /\ NodesLeft(p) \in Nat
      /\ Rounds(p) \in Nat /\ Rounds(p)' \in Nat
      /\ Inside(p) \in Nat /\ Inside(p)' \in Nat
  BY <1>2, <1>3, IpamAssumption DEF LeftOK
<1>10. \A f, n, r, s, i, j \in Nat : s <= r /\ j < i
           => 19 * (f + 5 * s + n) + j < 19 * (f + 5 * r + n) + i
  OBVIOUS
<1>11. /\ Left(p) = 19 * (Far[Place(p)] + 5 * Rounds(p) + NodesLeft(p)) + Inside(p)
       /\ Left(p)' = 19 * (Far[Place(p)] + 5 * Rounds(p)' + NodesLeft(p)) + Inside(p)'
  BY <1>2, <1>5, <1>8 DEF Left
<1> QED
  BY <1>5, <1>7, <1>9, <1>10, <1>11

\* The steps of cmdAdd outside the loop of UnusedIP.
LEMMA StraightUses ==
    ASSUME BookInv, Typed', NEW p \in Procs,
           \/ Gateway(p) \/ GatewayWithMaskSegment(p) \/ GetNS(p)
           \/ Create(p) \/ CreateFailed(p) \/ ReleaseIPs(p) \/ AllHostNetwork(p) \/ Finish(p)
    PROVE  Left(p)' < Left(p)
<1>t. Typed
  BY DEF BookInv, UniqueInv, SerialInv
<1>n. NumHosts \in Nat /\ NumHosts > 0
  BY IpamAssumption
<1>3. LeftOK /\ LeftOK'
  BY <1>t, LeftType, PTL
<1>r. Rounds(p) \in 0 .. 2 /\ Rounds(p)' \in 0 .. 2
  BY <1>3 DEF LeftOK
<1>v. /\ Visits(p) = Far[Place(p)] + 5 * Rounds(p) + NodesLeft(p)
      /\ Visits(p)' = Far[Place(p)'] + 5 * Rounds(p)' + NodesLeft(p)'
  BY DEF Visits
<1>1. CASE Gateway(p) \/ GatewayWithMaskSegment(p) \/ GetNS(p)
  <2>1. ASSUME NEW a \in {"gateway", "bridge", "netns"}, NEW b \in {"bridge", "netns", "useNet"},
               NEW n \in {1, 2}, pc[p] = a, Call(p, n, b), Far[a] = Far[b] + 1
        PROVE  Left(p)' < Left(p)
    <3>1. a \in Returns /\ b \in Returns /\ b \in Places
      BY DEF Returns, Places
    <3>2. Place(p) = a /\ Running(p)
      BY <2>1, <3>1, Disjoint DEF Place, Running
    <3>3. Running(p)' /\ Place(p)' = b /\ Inside(p)' <= 18
      BY <1>t, <2>1, <3>1, CallUses
    <3>4. NodesLeft(p) = NumHosts /\ NodesLeft(p)' = NumHosts
      BY <3>2, <3>3 DEF NodesLeft
    <3>5. Rounds(p) = 2
      BY <3>2 DEF Rounds
    <3>6. Far[b] \in Nat
      BY <3>1, FarValues
    <3>7. Visits(p)' < Visits(p)
      BY <1>n, <1>r, <1>v, <2>1, <3>2, <3>3, <3>4, <3>5, <3>6
    <3> QED
      BY <1>t, <3>2, <3>3, <3>7, PlaceUses
  <2>2. CASE Gateway(p)
    BY <2>2, <2>1, FarValues DEF Gateway
  <2>3. CASE GatewayWithMaskSegment(p)
    <3>1. pc[p] = "bridge" /\ Call(p, 1, "netns")
      BY <2>3 DEF GatewayWithMaskSegment
    <3> QED
      BY <3>1, <2>1, FarValues
  <2>4. CASE GetNS(p)
    BY <2>4, <2>1, FarValues DEF GetNS
  <2> QED
    BY <1>1, <2>2, <2>3, <2>4
<1>2. CASE Create(p) \/ CreateFailed(p) \/ ReleaseIPs(p)
  <2>1. ASSUME NEW a \in {"create", "relNet", "relGet", "relPut"},
               NEW b \in {"nodes", "relNet", "relGet", "relPut"},
               pc[p] = a, IF b = "nodes" THEN Goto(p, b) ELSE Call(p, 2, b), Far[a] > Far[b]
        PROVE  Left(p)' < Left(p)
    <3>1. a \in Places /\ b \in Places /\ (b # "nodes" => b \in Returns)
      BY DEF Returns, Places
    <3>2. Place(p) = a /\ Running(p)
      <4>1. a \notin InitSteps /\ a \notin Ended \cup {"idle"}
        BY DEF InitSteps, Ended
      <4> QED
        BY <2>1, <4>1 DEF Place, Running
    <3>3. Running(p)' /\ Place(p)' = b /\ Inside(p)' <= 18
      BY <1>t, <2>1, <3>1, CallUses, GotoUses
    <3>4. NodesLeft(p) = NumHosts /\ NodesLeft(p)' = NumHosts
      BY <3>2, <3>3 DEF NodesLeft
    <3>5. Rounds(p) = 0 /\ Rounds(p)' = 0
      BY <3>2, <3>3 DEF Rounds, Drawing
    <3>6. Far[a] \in Nat /\ Far[b] \in Nat
      BY <3>1, FarValues
    <3>7. Visits(p)' < Visits(p)
      BY <1>n, <1>v, <2>1, <3>2, <3>3, <3>4, <3>5, <3>6
    <3> QED
      BY <1>t, <3>2, <3>3, <3>7, PlaceUses
  <2>2. CASE Create(p)
    BY <2>2, <2>1, FarValues DEF Create
  <2>3. CASE CreateFailed(p)
    BY <2>3, <2>1, FarValues DEF CreateFailed
  <2>4. CASE RelNet(p)
    BY <2>4, <2>1, FarValues DEF RelNet
  <2>5. CASE RelGet(p)
    BY <2>5, <2>1, FarValues DEF RelGet
  <2>6. CASE RelPut(p)
    BY <2>6, <2>1, FarValues DEF RelPut
  <2> QED
    BY <1>2, <2>2, <2>3, <2>4, <2>5, <2>6 DEF ReleaseIPs
<1>4. CASE Nodes(p)
  <2>1. pc[p] = "nodes" /\ Call(p, 2, "cidr") /\ node'[p] = 1 /\ "cidr" \in Returns
    BY <1>4, <1>t DEF Nodes, Typed, TypeOK, Returns
  <2>2. Place(p) = "nodes" /\ Running(p)
    BY <2>1, Disjoint DEF Place, Running, Ended
  <2>3. Running(p)' /\ Place(p)' = "cidr" /\ Inside(p)' <= 18
    BY <1>t, <2>1, CallUses
  <2>4. NodesLeft(p) = NumHosts /\ NodesLeft(p)' = NumHosts - 1
    BY <2>1, <2>2, <2>3 DEF NodesLeft
  <2>5. Rounds(p) = 0 /\ Rounds(p)' = 0
    BY <2>2, <2>3 DEF Rounds, Drawing
  <2>6. Visits(p)' < Visits(p)
    BY <1>n, <1>v, <2>2, <2>3, <2>4, <2>5, FarValues
  <2> QED
    BY <1>t, <2>2, <2>3, <2>6, PlaceUses
<1>5. CASE CidrFound(p)
  <2>1. pc[p] = "cidr" /\ node[p] \in 1 .. NumHosts /\ {"cidr", "routes"} \subseteq Returns
    BY <1>5, <1>t DEF CidrFound, Typed, TypeOK, Returns, Hosts
  <2>2. Place(p) = "cidr" /\ Running(p) /\ NodesLeft(p) = NumHosts - node[p] /\ Rounds(p) = 0
    BY <2>1, Disjoint DEF Place, Running, NodesLeft, Rounds, Drawing
  <2>3. CASE node'[p] = node[p] + 1 /\ Call(p, 2, "cidr")
    <3>1. Running(p)' /\ Place(p)' = "cidr" /\ Inside(p)' <= 18
      BY <1>t, <2>1, <2>3, CallUses
    <3>2. NodesLeft(p)' = NumHosts - (node[p] + 1) /\ Rounds(p)' = 0
      BY <2>3, <3>1 DEF NodesLeft, Rounds, Drawing
    <3>3. Visits(p)' < Visits(p)
      BY <1>n, <1>v, <2>1, <2>2, <3>1, <3>2, FarValues
    <3> QED
      BY <1>t, <2>2, <3>1, <3>3, PlaceUses
  <2>4. CASE Call(p, 1, "routes")
    <3>1. Running(p)' /\ Place(p)' = "routes" /\ Inside(p)' <= 18
      BY <1>t, <2>1, <2>4, CallUses
    <3>2. NodesLeft(p)' = 0 /\ Rounds(p)' = 0
      BY <3>1 DEF NodesLeft, Rounds, Drawing
    <3>3. Visits(p)' < Visits(p)
      BY <1>n, <1>v, <2>1, <2>2, <3>1, <3>2, FarValues
    <3> QED
      BY <1>t, <2>2, <3>1, <3>3, PlaceUses
  <2> QED
    BY <1>5, <1>t, <2>3, <2>4 DEF CidrFound, Typed, TypeOK
<1>6. CASE CidrNotFound(p) \/ Finish(p)
  <2>1. PICK k \in Ended : pc[p] \in {"cidr", "routes"} /\ Goto(p, k)
    BY <1>6 DEF CidrNotFound, Finish, End, Ended
  <2>2. Running(p)
    BY <2>1 DEF Running, Ended
  <2> QED
    BY <1>t, <2>1, <2>2, EndUses
<1> QED
  BY <1>1, <1>2, <1>4, <1>5, <1>6 DEF AllHostNetwork

\* One round of the loop of UnusedIP.  The address drawn is the next of the
\* record; once it is recorded the next round begins one address further.
LEMMA RoundUses ==
    ASSUME BookInv, Typed', NEW p \in Procs, UnusedIP(p)
    PROVE  Left(p)' < Left(p)
<1> DEFINE h == HostOf[p]
<1>t. Typed
  BY DEF BookInv, UniqueInv, SerialInv
<1>n. NumHosts \in Nat /\ NumHosts > 0
  BY IpamAssumption
<1>3. LeftOK /\ LeftOK'
  BY <1>t, LeftType, PTL
<1>r. Rounds(p) \in 0 .. 2 /\ Rounds(p)' \in 0 .. 2
  BY <1>3 DEF LeftOK
<1>v. /\ Visits(p) = Far[Place(p)] + 5 * Rounds(p) + NodesLeft(p)
      /\ Visits(p)' = Far[Place(p)'] + 5 * Rounds(p)' + NodesLeft(p)'
  BY DEF Visits
<1>4. /\ h \in Hosts /\ net[p] \in NetsOrNone /\ hostNet[h] \in NetsOrNone /\ ip[p] \in Nat
      /\ record \in [Hosts -> [NetsOrNone -> SUBSET Nat]]
  BY <1>t, IpamAssumption DEF Typed, TypeOK, Hosts
\* Every step but the last of a round goes one place on.
<1>5. ASSUME NEW a \in {"useNet", "useRec", "setNet", "setGet"},
             NEW b \in {"useRec", "setNet", "setGet", "setPut"},
             pc[p] = a, Call(p, 2, b), Far[a] = Far[b] + 1, Rounds(p)' <= Rounds(p)
      PROVE  Left(p)' < Left(p)
  <2>1. a \in Returns /\ b \in Returns /\ b \in Places /\ a \notin Ended \cup {"idle"}
    BY DEF Returns, Places, Ended
  <2>2. Place(p) = a /\ Running(p)
    BY <1>5, <2>1, Disjoint DEF Place, Running
  <2>3. Running(p)' /\ Place(p)' = b /\ Inside(p)' <= 18
    BY <1>t, <1>5, <2>1, CallUses
  <2>4. NodesLeft(p) = NumHosts /\ NodesLeft(p)' = NumHosts
    BY <2>2, <2>3 DEF NodesLeft
  <2>5. Far[b] \in Nat
    BY <2>1, FarValues
  <2>6. Visits(p)' < Visits(p)
    BY <1>n, <1>r, <1>v, <1>5, <2>2, <2>3, <2>4, <2>5
  <2> QED
    BY <1>t, <2>2, <2>3, <2>6, PlaceUses
<1>6. {"useNet", "useRec", "setNet", "setGet", "setPut"} \subseteq Returns
  BY DEF Returns
<1>7. CASE UseNet(p)
  <2>1. pc[p] = "useNet" /\ Call(p, 2, "useRec")
    BY <1>7 DEF UseNet
  <2>2. net'[p] = hostNet[h] /\ record' = record
    BY <1>7, <1>t DEF UseNet, Typed, TypeOK
  <2>3. Place(p) = "useNet" /\ Place(p)' = "useRec"
    BY <1>t, <1>6, <2>1, Disjoint, CallUses DEF Place
  <2>4. Rounds(p)' = Rounds(p)
    BY <2>2, <2>3 DEF Rounds
  <2>5. Rounds(p)' <= Rounds(p)
    BY <1>r, <2>4
  <2> QED
    BY <1>5, <2>1, <2>5, FarValues
<1>8. CASE UseRec(p)
  <2> DEFINE used == record[h][net[p]]
  <2>1. pc[p] = "useRec" /\ Call(p, 2, "setNet")
    BY <1>8 DEF UseRec
  <2>2. NextUnused(ip'[p], net[p], used)
    BY <1>8, <1>t DEF UseRec, Typed, TypeOK
  <2>3. Place(p) = "useRec" /\ Place(p)' = "setNet"
    BY <1>t, <1>6, <2>1, Disjoint, CallUses DEF Place
  <2>4. Rounds(p) = AgainAfter(used) /\ Rounds(p)' = Again(ip'[p])
    BY <2>3 DEF Rounds, Drawing
  <2>5. used \in SUBSET Nat /\ net[p] \in Nat
    BY <1>4, NetsNat
  <2> HIDE DEF used
  <2>6. Again(ip'[p]) <= AgainAfter(used)
    <3>1. CASE used = {} /\ ip'[p] = Base(net[p]) + 2
      BY <3>1, <2>5, AgainFirst, AgainEmpty
    <3>2. ASSUME NEW m \in used, IsMax(m, used), ip'[p] = m + 1
          PROVE  Again(ip'[p]) <= AgainAfter(used)
      <4>1. AgainAfter(used) = Again(m + 1)
        BY <2>5, <3>2, AgainMax DEF IsMax
      <4>2. AgainAfter(used) \in 0 .. 2
        BY AgainType
      <4> QED
        BY <4>1, <4>2, <3>2
    <3> QED
      BY <2>2, <3>1, <3>2 DEF NextUnused
  <2>7. Rounds(p)' <= Rounds(p)
    BY <2>4, <2>6
  <2> QED
    BY <1>5, <2>1, <2>7, FarValues
<1>9. CASE SetNet(p) \/ SetGet(p)
  <2>1. ASSUME NEW a \in {"setNet", "setGet"}, NEW b \in {"setGet", "setPut"},
               pc[p] = a, Call(p, 2, b), ip' = ip
        PROVE  Rounds(p)' <= Rounds(p)
    <3>1. Place(p) = a /\ Place(p)' = b
      BY <1>t, <1>6, <2>1, Disjoint, CallUses DEF Place
    <3>2. Rounds(p)' = Rounds(p)
      BY <2>1, <3>1 DEF Rounds, Drawing
    <3> QED
      BY <1>r, <3>2
  <2>2. CASE SetNet(p)
    <3>1. pc[p] = "setNet" /\ Call(p, 2, "setGet") /\ ip' = ip
      BY <2>2 DEF SetNet
    <3> QED
      BY <1>5, <2>1, <3>1, FarValues
  <2>3. CASE SetGet(p)
    <3>1. pc[p] = "setGet" /\ Call(p, 2, "setPut") /\ ip' = ip
      BY <2>3 DEF SetGet
    <3> QED
      BY <1>5, <2>1, <3>1, FarValues
  <2> QED
    BY <1>9, <2>2, <2>3
<1>10. CASE SetPut(p)
  <2>1. pc[p] = "setPut" /\ At(p, "setPut") /\ hostNet' = hostNet /\ ip' = ip
    BY <1>10 DEF SetPut, AfterSet, At
  <2>2. /\ Place(p) = "setPut" /\ Running(p) /\ Rounds(p) = Again(ip[p])
        /\ NodesLeft(p) = NumHosts
    <3>1. Place(p) = "setPut" /\ Running(p)
      BY <2>1, <1>6, Disjoint DEF Place, Running
    <3> QED
      BY <3>1 DEF Rounds, NodesLeft, Drawing
  <2>3. CASE Reserved(ip[p]) /\ Call(p, 2, "useNet")
    <3> DEFINE S == record'[h][hostNet[h]]
    <3>1. Running(p)' /\ Place(p)' = "useNet" /\ Inside(p)' <= 18
      BY <1>t, <1>6, <2>3, CallUses
    <3>2. Rounds(p)' = AgainAfter(S) /\ NodesLeft(p)' = NumHosts
      BY <2>1, <3>1 DEF Rounds, NodesLeft
    <3>3. AgainAfter(S) <= Again(ip[p] + 1)
      <4>1. seen[p] = record[h][net[p]]
        BY <2>1 DEF BookInv, UniqueInv, SeenIsRecord
      <4>2. record' = [record EXCEPT ![h][net[p]] = record[h][net[p]] \cup {ip[p]}]
        BY <1>10, <4>1 DEF SetPut
      <4>3. Again(ip[p] + 1) \in 0 .. 2
        BY <1>4, AgainStep
      <4>4. CASE net[p] = hostNet[h]
        <5>1. S = record[h][net[p]] \cup {ip[p]} /\ record[h][net[p]] \in SUBSET Nat
          BY <1>4, <4>2, <4>4
        <5>2. Book!IsNext(ip[p], record[h][net[p]])
          BY <2>1, NextAtPut
        <5>3. \A b \in S : b <= ip[p]
          BY <1>4, <5>1, <5>2 DEF Book!IsNext
        <5> HIDE DEF S
        <5>4. S \in SUBSET Nat /\ ip[p] \in S
          BY <1>4, <5>1
        <5>5. AgainAfter(S) = Again(ip[p] + 1)
          BY <5>3, <5>4, AgainMax
        <5> QED
          BY <4>3, <5>5
      <4>5. CASE net[p] # hostNet[h]
        <5>1. net[p] = NoNet
          BY <2>1, <4>5 DEF BookInv, UniqueInv, NetHeld
        <5>2. drew[p] = NoNet
          BY <2>1, <5>1 DEF BookInv, UniqueInv, RecordedAtNet
        <5>3. record[h][hostNet[h]] = {}
          BY <2>1, <4>5, <5>1, <5>2 DEF BookInv, NetIsNew, Looking, Drawing
        <5>4. S = {}
          BY <1>4, <4>2, <4>5, <5>3
        <5> QED
          BY <4>3, <5>4, AgainEmpty
      <4> QED
        BY <4>4, <4>5
    <3>4. Again(ip[p] + 1) + 1 <= Again(ip[p]) /\ Again(ip[p] + 1) \in 0 .. 2
      BY <1>4, <2>3, AgainStep
    <3>5. Rounds(p)' + 1 <= Rounds(p)
      BY <1>r, <2>2, <3>2, <3>3, <3>4
    <3>6. Visits(p)' < Visits(p)
      BY <1>n, <1>r, <1>v, <2>2, <3>1, <3>2, <3>5, FarValues
    <3> QED
      BY <1>t, <2>2, <3>1, <3>6, PlaceUses
  <2>4. CASE Goto(p, "create")
    <3>1. Running(p)' /\ Place(p)' = "create" /\ Inside(p)' <= 18
      BY <1>t, <2>4, GotoUses
    <3>2. Rounds(p)' = 0 /\ NodesLeft(p)' = NumHosts
      BY <3>1 DEF Rounds, NodesLeft, Drawing
    <3>3. Visits(p)' < Visits(p)
      BY <1>n, <1>r, <1>v, <2>2, <3>1, <3>2, FarValues
    <3> QED
      BY <1>t, <2>2, <3>1, <3>3, PlaceUses
  <2> QED
    BY <1>10, <2>3, <2>4 DEF SetPut, AfterSet
<1> QED
  BY <1>7, <1>8, <1>9, <1>10 DEF UnusedIP

\* What a step of q touches of another process, and of another host's book.
LEMMA OthersOwn ==
    ASSUME Typed, NEW p \in Procs, NEW q \in Procs, p # q,
           \/ Begin(q) \/ Step(q) \/ SetPutLost(q)
           \/ HostError(q) \/ EtcdError(q) \/ Crash(q)
    PROVE  UNCHANGED <<pc[p], cont[p], runs[p], net[p], ip[p], node[p]>>
<1> USE DEF Call, Goto, Return, End, Typed, TypeOK
<1>1. CASE Begin(q) \/ HostError(q)
  BY <1>1 DEF Begin, HostError
<1>5. CASE EtcdError(q) \/ Crash(q)
  BY <1>5 DEF EtcdError, Crash
<1>2. CASE GetIpamService(q) \/ Gateway(q) \/ GatewayWithMaskSegment(q) \/ GetNS(q)
  BY <1>2 DEF GetIpamService, PoolGet, PoolSet, NetGetFound, NetGetEmpty, NetPool,
     NetSetHost, NetSetPool, Gateway, GatewayWithMaskSegment, GetNS
<1>3. CASE UnusedIP(q) \/ SetPutLost(q)
  BY <1>3 DEF UnusedIP, UseNet, UseRec, SetNet, SetGet, SetPut, SetPutLost, AfterSet
<1>4. CASE Create(q) \/ CreateFailed(q) \/ ReleaseIPs(q)
  BY <1>4 DEF Create, CreateFailed, ReleaseIPs, RelNet, RelGet, RelPut
<1>6. CASE AllHostNetwork(q) \/ Finish(q)
  BY <1>6 DEF AllHostNetwork, Nodes, CidrFound, CidrNotFound, Finish
<1> QED
  BY <1>1, <1>2, <1>3, <1>4, <1>5, <1>6 DEF Step

LEMMA OnlySetPut ==
    ASSUME BookInv, NEW q \in Procs,
           \/ Begin(q) \/ Step(q) \/ SetPutLost(q)
           \/ HostError(q) \/ EtcdError(q) \/ Crash(q)
    PROVE  SetPut(q) \/ record' = record
<1>1. CASE Begin(q) \/ HostError(q) \/ EtcdError(q) \/ Crash(q)
  BY <1>1 DEF Begin, HostError, EtcdError, Crash, End
<1>2. CASE GetIpamService(q) \/ Gateway(q) \/ GatewayWithMaskSegment(q) \/ GetNS(q)
  BY <1>2 DEF GetIpamService, PoolGet, PoolSet, NetGetFound, NetGetEmpty, NetPool,
     NetSetHost, NetSetPool, Gateway, GatewayWithMaskSegment, GetNS
<1>3. CASE UnusedIP(q) \/ SetPutLost(q)
  BY <1>3 DEF UnusedIP, UseNet, UseRec, SetNet, SetGet, SetPutLost
<1>4. CASE Create(q) \/ CreateFailed(q) \/ ReleaseIPs(q) \/ AllHostNetwork(q) \/ Finish(q)
  BY <1>4, RelPutKeeps DEF BookInv, Create, CreateFailed, ReleaseIPs, RelNet, RelGet,
     AllHostNetwork, Nodes, CidrFound, CidrNotFound, Finish, End
<1> QED
  BY <1>1, <1>2, <1>3, <1>4 DEF Step

\* The other ADDs take nothing from p and give it nothing to do: those of its
\* host do not run, those of other hosts work on other keys.
LEMMA OthersUse ==
    ASSUME BookInv, NEW p \in Procs, NEW q \in Procs, p # q, Running(p),
           \/ Begin(q) \/ Step(q) \/ SetPutLost(q)
           \/ HostError(q) \/ EtcdError(q) \/ Crash(q)
    PROVE  Left(p)' = Left(p)
<1> DEFINE h == HostOf[p]
<1>t. Typed /\ h \in Hosts /\ HostOf[q] \in Hosts
  BY IpamAssumption DEF BookInv, UniqueInv, SerialInv, Hosts
<1>1. /\ pc'[p] = pc[p] /\ cont'[p] = cont[p] /\ runs'[p] = runs[p]
      /\ net'[p] = net[p] /\ ip'[p] = ip[p] /\ node'[p] = node[p]
  BY <1>t, OthersOwn
<1>2. Running(q) => HostOf[q] # h
  BY DEF BookInv, UniqueInv, SerialInv, Alone, SameHost
<1>3. record'[h] = record[h]
  <2>1. CASE SetPut(q)
    <3>1. Running(q)
      BY <2>1 DEF SetPut, Running, Ended
    <3> QED
      BY <2>1, <3>1, <1>2, <1>t DEF SetPut, Typed, TypeOK
  <2> QED
    BY <2>1, OnlySetPut
<1>4. hostNet'[h] = hostNet[h]
  <2>1. CASE NetSetHost(q)
    <3>1. Running(q)
      BY <2>1 DEF NetSetHost, Running, Ended
    <3> QED
      BY <2>1, <3>1, <1>2, <1>t DEF NetSetHost, Typed, TypeOK
  <2> QED
    BY <2>1, OnlyNetSetHost
<1>5. Running(p)' /\ Place(p)' = Place(p) /\ Inside(p)' = Inside(p)
  BY <1>1 DEF Running, Place, Inside
<1>6. NodesLeft(p)' = NodesLeft(p)
  BY <1>1, <1>5 DEF NodesLeft
<1>7. Rounds(p)' = Rounds(p)
  BY <1>1, <1>3, <1>4, <1>5 DEF Rounds
<1>8. Visits(p)' = Visits(p)
  BY <1>5, <1>6, <1>7 DEF Visits
<1> QED
  BY <1>5, <1>8 DEF Left

LEMMA BeginLeft ==
    ASSUME Typed, NEW p \in Procs, Begin(p)
    PROVE  Left(p)' <= MaxSteps
<1>1. "gateway" \in Returns
  BY DEF Returns
<1>2. Running(p)' /\ Place(p)' = "gateway" /\ Inside(p)' <= 18
  BY <1>1, CallUses DEF Begin
<1>3. Rounds(p)' = 2 /\ NodesLeft(p)' = NumHosts
  BY <1>2 DEF Rounds, NodesLeft
<1>4. Visits(p)' = 25 + NumHosts
  BY <1>2, <1>3, FarValues, IpamAssumption DEF Visits
<1>5. Typed'
  BY TypedStep DEF Next
<1>6. LeftOK'
  BY <1>5, LeftType, PTL
<1>7. Inside(p)' \in Nat
  BY <1>6 DEF LeftOK
<1> QED
  BY <1>2, <1>4, <1>7, IpamAssumption DEF Left, MaxSteps

LEMMA UsesUpStep ==
    ASSUME HostSerialised, EtcdFailsFor = {}, BookInv, [Next]_vars
    PROVE  [\A p \in Procs : UsesUp(p)]_vars
<1> SUFFICES ASSUME ~UNCHANGED vars, NEW p \in Procs, Running(p)
             PROVE  Left(p)' <= Left(p) /\ (Step(p) => Left(p)' < Left(p))
  <2>1. \A p \in Procs : Begin(p) => Left(p)' <= MaxSteps
    BY BeginLeft DEF BookInv, UniqueInv, SerialInv
  <2> QED
    BY <2>1 DEF UsesUp
<1>1. Typed /\ Typed'
  <2>1. BookInv'
    BY BookStep
  <2> QED
    BY <2>1 DEF BookInv, UniqueInv, SerialInv
<1>2. LeftOK /\ LeftOK'
  BY <1>1, LeftType, PTL
<1>3. Left(p) \in Nat /\ Left(p)' \in Nat
  BY <1>2 DEF LeftOK
<1>4. Step(p) => Left(p)' < Left(p)
  BY <1>1, ServiceUses, StraightUses, RoundUses DEF Step
<1>5. PICK q \in Procs : \/ Begin(q) \/ Step(q) \/ SetPutLost(q)
                         \/ HostError(q) \/ EtcdError(q) \/ Crash(q)
  BY DEF Next
<1>6. CASE q # p
  <2>1. Left(p)' = Left(p)
    BY <1>5, <1>6, OthersUse
  <2> QED
    BY <1>3, <1>4, <2>1
<1>7. CASE q = p
  <2>1. ~Begin(p) /\ ~SetPutLost(p) /\ ~EtcdError(p)
    BY DEF Begin, SetPutLost, EtcdError, Running
  <2>2. CASE Step(p)
    BY <2>2, <1>3, <1>4
  <2>3. CASE HostError(p) \/ Crash(p)
    <3>1. PICK how \in Ended : Goto(p, how)
      BY <2>3 DEF HostError, Crash, End, Ended
    <3>2. Left(p)' < Left(p)
      BY <1>1, <3>1, EndUses
    <3> QED
      BY <3>2, <1>3
  <2> QED
    BY <1>5, <1>7, <2>1, <2>2, <2>3
<1> QED
  BY <1>6, <1>7

\* When the ADDs of a host do not overlap and etcd answers every request, an ADD
\* makes at most MaxSteps steps: Left is at most that when it begins, each of its
\* steps makes it smaller, and none of another ADD, whatever it does to the pool,
\* makes it larger. The loop of UnusedIP goes round no more than three times,
\* because a reserved address that is drawn is recorded and the next one follows.
THEOREM AddsUseUp ==
    ASSUME HostSerialised, EtcdFailsFor = {}
    PROVE  Spec => /\ [](\A p \in Procs : Left(p) \in Nat)
                   /\ [][\A p \in Procs : UsesUp(p)]_vars
<1>1. BookInv /\ [Next]_vars => BookInv' /\ [Book!Next]_(Book!vars)
  BY BookStep
<1>2. BookInv /\ [Next]_vars => [\A p \in Procs : UsesUp(p)]_vars
  BY UsesUpStep
<1>3. BookInv => \A p \in Procs : Left(p) \in Nat
  BY LeftType DEF LeftOK, BookInv, UniqueInv, SerialInv
<1> QED
  BY <1>1, <1>2, <1>3, BookInit, PTL DEF Spec

-------------------------------------------------------------------------------
(* When no ADDs of the cluster overlap the networks are given out in turn. *)

ClusterSerialised == \A p, q \in Procs : p # q => <<p, q>> \in NeverOverlap

OneAtATime == \A p, q \in Procs : p # q => ~(Running(p) /\ Running(q))

\* What a process in GetIpamService knows of the pool.
PoolKnown ==
    /\ \A p \in Procs : pc[p] = "poolSet" => pool = <<>>
    /\ \A p \in Procs : pc[p] \in {"netGet", "netPool", "netSetHost", "netSetPool"} => pool # <<>>
    /\ \A p \in Procs : pc[p] \in {"netSetHost", "netSetPool"} => snap[p] = pool
    /\ \A p \in Procs : Running(p) /\ pc[p] \notin {"netSetHost", "netSetPool"} => snap[p] = <<>>
    /\ \A p \in Procs : pc[p] = "idle" => snap[p] = <<>>

\* The first j networks are out of the pool; none is when it was used up.
Placed(j) ==
    IF pool = <<>> THEN j = 0
    ELSE Len(pool) = NumNets - j /\ \A i \in 1 .. Len(pool) : pool[i] = FirstNet + j + i - 1

\* The hosts of network n that took it out of the pool as well, or will.
Served(n) == Owners(n) \ TornHosts

\* Each network has k of them, and each of the first j one more.
Level(k, j) ==
    \A n \in Nets : Cardinality(Served(n)) = IF n < FirstNet + j THEN k + 1 ELSE k

\* A host has its network stored before the network is taken out of the pool.
Handing == \E p \in Procs : pc[p] = "netSetPool"

InTurn ==
    \E k \in Nat, j \in 0 .. (NumNets - 1) :
        Placed(j) /\ Level(k, IF Handing THEN j + 1 ELSE j)

\* A torn host has a network and gets no other, and the one that is being handed
\* the first network of the pool is not torn.
TornKnown ==
    /\ \A h \in TornHosts : hostNet[h] # NoNet
    /\ \A p \in Procs : pc[p] = "netSetPool" =>
            HostOf[p] \notin TornHosts /\ hostNet[HostOf[p]] = Head(pool)

EvenInv == SerialInv /\ OneAtATime /\ PoolKnown /\ TornKnown /\ InTurn

LEMMA ServedFinite == \A n : IsFiniteSet(Served(n))
<1>1. IsFiniteSet(Hosts)
  BY FS_Interval, IpamAssumption DEF Hosts
<1> QED
  BY <1>1, FS_Subset DEF Served, Owners

LEMMA PoolHead ==
    ASSUME pool \in Seq(NetsOrNone), pool # <<>>, NEW j \in Nat, Placed(j)
    PROVE  Head(pool) = FirstNet + j
<1>1. Len(pool) \in Nat /\ Len(pool) > 0 /\ Head(pool) = pool[1]
  OBVIOUS
<1>2. pool[1] = FirstNet + j + 1 - 1
  BY <1>1 DEF Placed
<1> QED
  BY <1>1, <1>2, IpamAssumption

LEMMA EvenInit == Init => EvenInv
<1> SUFFICES ASSUME Init PROVE EvenInv
  OBVIOUS
<1>1. SerialInv
  BY SerialInit
<1>2. \A p \in Procs : pc[p] = "idle" /\ snap[p] = <<>> /\ ~Running(p)
  BY DEF Init, Running
<1>3. OneAtATime /\ PoolKnown /\ TornKnown
  BY <1>2, Disjoint DEF OneAtATime, PoolKnown, TornKnown, TornHosts
<1>4. InTurn
  <2>1. \A n \in Nets : Served(n) = {}
    BY IpamAssumption DEF Init, Served, Owners, Nets, NoNet
  <2>2. Level(0, 0)
    BY <2>1, FS_EmptySet, IpamAssumption DEF Level, Nets
  <2>3. Placed(0) /\ ~Handing
    BY <1>2 DEF Init, Placed, Handing
  <2>4. 0 \in Nat /\ 0 \in 0 .. (NumNets - 1)
    BY IpamAssumption
  <2> QED
    BY <2>2, <2>3, <2>4 DEF InTurn
<1> QED
  BY <1>1, <1>3, <1>4 DEF EvenInv

LEMMA EvenEnough == EvenInv => EvenUpToTorn
<1> SUFFICES ASSUME EvenInv, NEW m \in Nets, NEW n \in Nets
             PROVE  Cardinality(Served(m)) <= Cardinality(Served(n)) + 1
  BY DEF EvenUpToTorn, Served
<1>1. PICK k \in Nat, j \in Int : Level(k, j)
  BY IpamAssumption DEF EvenInv, InTurn
<1> QED
  BY <1>1 DEF Level

\* The steps that touch neither pool nor networks.
LEMMA NotServing ==
    ASSUME Typed, NEW p \in Procs,
           \/ Begin(p) \/ Step(p) \/ SetPutLost(p)
           \/ HostError(p) \/ EtcdError(p) \/ Crash(p),
           ~GetIpamService(p)
    PROVE  /\ UNCHANGED <<pool, hostNet>>
           /\ \A q \in Procs : q # p => snap'[q] = snap[q]
           /\ \/ /\ pc[p] \notin InitSteps /\ pc'[p] \in {"poolGet", "create", "nodes"} \cup Ended
                 /\ snap'[p] = snap[p]
              \/ /\ pc'[p] \in Ended
                 /\ snap'[p] = IF pc[p] = "netSetPool" THEN snap[p] ELSE <<>>
<1> USE Disjoint DEF Call, Goto, Typed, TypeOK
<1>0. ASSUME NEW how \in Ended, End(p, how)
      PROVE  /\ UNCHANGED <<pool, hostNet>> /\ pc'[p] \in Ended
             /\ \A q \in Procs : q # p => snap'[q] = snap[q]
             /\ snap'[p] = IF pc[p] = "netSetPool" THEN snap[p] ELSE <<>>
  <2>1. UNCHANGED <<pool, hostNet>> /\ pc'[p] = how
    BY <1>0 DEF End, etcd
  <2>2. CASE pc[p] = "netSetPool"
    BY <1>0, <2>1, <2>2 DEF End
  <2>3. CASE pc[p] # "netSetPool"
    BY <1>0, <2>1, <2>3 DEF End
  <2> QED
    BY <2>2, <2>3
<1>1. CASE Begin(p)
  BY <1>1 DEF Begin, InitSteps
<1>2. CASE HostError(p) \/ Crash(p)
  BY <1>2, <1>0 DEF HostError, Crash, Ended
<1>3. CASE EtcdError(p)
  <2>1. CASE End(p, "failed")
    BY <2>1, <1>0 DEF Ended
  <2>2. CASE pc[p] \in {"relNet", "relGet", "relPut"} /\ Goto(p, "nodes")
             /\ UNCHANGED <<etcd, snap, alloc, rest>>
    BY <2>2 DEF InitSteps
  <2> QED
    BY <1>3, <2>1, <2>2 DEF EtcdError
<1>4. CASE Gateway(p) \/ GatewayWithMaskSegment(p) \/ GetNS(p)
  BY <1>4 DEF Gateway, GatewayWithMaskSegment, GetNS, InitSteps
<1>5. CASE UnusedIP(p) \/ SetPutLost(p)
  BY <1>5 DEF UnusedIP, UseNet, UseRec, SetNet, SetGet, SetPut, SetPutLost, AfterSet, InitSteps
<1>6. CASE Create(p) \/ CreateFailed(p) \/ ReleaseIPs(p)
  BY <1>6 DEF Create, CreateFailed, ReleaseIPs, RelNet, RelGet, RelPut, InitSteps
<1>7. CASE Nodes(p) \/ CidrFound(p) \/ Finish(p)
  BY <1>7 DEF Nodes, CidrFound, Finish, InitSteps, Ended
<1>8. CASE CidrNotFound(p)
  BY <1>8, <1>0 DEF CidrNotFound, Ended
<1> QED
  BY <1>1, <1>2, <1>3, <1>4, <1>5, <1>6, <1>7, <1>8 DEF Step, AllHostNetwork

\* While p runs no other process is anywhere in GetIpamService.
LEMMA OnlyOne ==
    ASSUME OneAtATime, NEW p \in Procs, Running(p), NEW q \in Procs, q # p
    PROVE  pc[q] \notin InitSteps /\ ~Running(q)
  BY Disjoint DEF OneAtATime, Running

\* An ADD that ends otherwise than between its two writes leaves no one torn.
LEMMA EvenOther ==
    ASSUME EvenInv, NEW p \in Procs, SerialInv', OneAtATime',
           \/ Begin(p) \/ Step(p) \/ SetPutLost(p)
           \/ HostError(p) \/ EtcdError(p) \/ Crash(p),
           ~GetIpamService(p), pc[p] # "netSetPool"
    PROVE  EvenInv'
<1>1. /\ UNCHANGED <<pool, hostNet>>
      /\ \A q \in Procs : q # p => snap'[q] = snap[q] /\ pc'[q] = pc[q]
      /\ \/ /\ pc[p] \notin InitSteps /\ pc'[p] \in {"poolGet", "create", "nodes"} \cup Ended
            /\ snap'[p] = snap[p]
         \/ pc'[p] \in Ended /\ snap'[p] = <<>>
      /\ pc[p] \notin Ended
  BY NotServing, StepControl DEF EvenInv, SerialInv
<1>2. pc'[p] \notin {"poolSet", "netGet", "netPool", "netSetHost", "netSetPool", "idle"}
  BY <1>1 DEF Ended
<1>3. snap'[p] = <<>>
  BY <1>1, Disjoint DEF EvenInv, PoolKnown, Running, InitSteps
<1>4. PoolKnown'
  BY <1>1, <1>2, <1>3 DEF EvenInv, PoolKnown, Running
<1>5. TornHosts' = TornHosts
  BY <1>1, <1>3 DEF TornHosts
<1>6. TornKnown'
  BY <1>1, <1>2, <1>5 DEF EvenInv, TornKnown
<1>7. Handing' <=> Handing
  BY <1>1, <1>2 DEF Handing
<1>8. \A k, j : (Placed(j)' <=> Placed(j)) /\ (Level(k, j)' <=> Level(k, j))
  BY <1>1, <1>5 DEF Placed, Level, Served, Owners
<1>9. InTurn'
  BY <1>7, <1>8 DEF EvenInv, InTurn
<1> QED
  BY <1>4, <1>6, <1>9 DEF EvenInv

\* One that does makes its host a torn one, and the network that the host has is
\* the next to be handed out still.
LEMMA EvenTorn ==
    ASSUME EvenInv, NEW p \in Procs, SerialInv', OneAtATime',
           \/ Begin(p) \/ Step(p) \/ SetPutLost(p)
           \/ HostError(p) \/ EtcdError(p) \/ Crash(p),
           ~GetIpamService(p), pc[p] = "netSetPool"
    PROVE  EvenInv'
<1> DEFINE h == HostOf[p]
<1>1. /\ UNCHANGED <<pool, hostNet>>
      /\ \A q \in Procs : q # p => snap'[q] = snap[q] /\ pc'[q] = pc[q]
      /\ pc'[p] \in Ended /\ snap'[p] = snap[p] /\ pc[p] \notin Ended
  BY NotServing, StepControl DEF EvenInv, SerialInv, InitSteps
<1>2. /\ snap[p] = pool /\ pool # <<>> /\ h \notin TornHosts /\ hostNet[h] = Head(pool)
      /\ Typed /\ pool \in Seq(NetsOrNone) /\ h \in Hosts
  BY IpamAssumption DEF EvenInv, PoolKnown, TornKnown, SerialInv, Typed, TypeOK, Hosts
<1>3. \A q \in Procs : q # p => pc[q] \notin InitSteps
  <2>1. Running(p)
    BY DEF Running, Ended
  <2> QED
    BY <2>1, OnlyOne DEF EvenInv
<1>4. /\ pc'[p] \notin InitSteps \cup {"idle"}
      /\ \A q \in Procs : pc'[q] \notin InitSteps
  BY <1>1, <1>3, Disjoint DEF Ended
<1>5. PoolKnown'
  BY <1>1, <1>4 DEF EvenInv, PoolKnown, Running, InitSteps
<1>6. TornHosts' = TornHosts \cup {h}
  BY <1>1, <1>2 DEF TornHosts
<1>7. PICK k \in Nat, j \in 0 .. (NumNets - 1) : Placed(j) /\ Level(k, j + 1)
  BY DEF EvenInv, InTurn, Handing
<1>8. /\ Head(pool) = FirstNet + j /\ FirstNet + j \in Nets
      /\ FirstNet \in Nat /\ j \in Nat /\ NoNet \notin Nets
  <2>1. /\ FirstNet \in Nat /\ FirstNet > 0 /\ NumNets \in Nat /\ j \in Nat
        /\ j <= NumNets - 1
    BY IpamAssumption
  <2> QED
    BY <1>2, <1>7, <2>1, PoolHead DEF Nets, NoNet
<1>9. TornKnown'
  BY <1>1, <1>2, <1>4, <1>6, <1>8 DEF EvenInv, TornKnown, InitSteps
<1>10. ASSUME NEW n \in Nets
       PROVE  Cardinality(Served(n)') = IF n < FirstNet + j THEN k + 1 ELSE k
  <2>1. Cardinality(Served(n)) = IF n < FirstNet + (j + 1) THEN k + 1 ELSE k
    BY <1>7 DEF Level
  <2>2. n \in Nat
    BY <1>8 DEF Nets
  <2>3. CASE n = FirstNet + j
    <3>1. Served(n)' = Served(n) \ {h} /\ h \in Served(n)
      BY <1>1, <1>2, <1>6, <1>8, <2>3 DEF Served, Owners
    <3>2. Cardinality(Served(n)') = Cardinality(Served(n)) - 1
      BY <3>1, ServedFinite, FS_RemoveElement
    <3> QED
      BY <1>8, <2>1, <2>2, <2>3, <3>2
  <2>4. CASE n # FirstNet + j
    <3>1. Served(n)' = Served(n)
      BY <1>1, <1>2, <1>6, <1>8, <2>4 DEF Served, Owners
    <3> QED
      BY <1>8, <2>1, <2>2, <2>4, <3>1
  <2> QED
    BY <2>3, <2>4
<1>11. Level(k, j)' /\ Placed(j)' /\ ~Handing'
  BY <1>1, <1>4, <1>7, <1>10 DEF Level, Placed, Handing, InitSteps
<1>12. InTurn'
  BY <1>11 DEF InTurn
<1> QED
  BY <1>5, <1>9, <1>12 DEF EvenInv

\* Inside GetIpamService only p matters.
LEMMA ServiceAlone ==
    ASSUME EvenInv, NEW p \in Procs, GetIpamService(p)
    PROVE  /\ Typed /\ pc[p] \in InitSteps /\ Running(p)
           /\ \A q \in Procs : q # p => pc'[q] = pc[q] /\ pc[q] \notin InitSteps /\ ~Running(q)
           /\ TornHosts' = TornHosts
           /\ Handing <=> pc[p] = "netSetPool"
           /\ Handing' <=> pc'[p] = "netSetPool"
           /\ \A q \in Procs : q # p => snap'[q] = snap[q]
<1>1. Typed /\ pc[p] \in InitSteps /\ Running(p)
  BY ServiceAt, Disjoint DEF EvenInv, SerialInv, Running
<1>2. \A q \in Procs : q # p => pc'[q] = pc[q] /\ pc[q] \notin InitSteps /\ ~Running(q)
  BY <1>1, StepControl, OnlyOne DEF EvenInv, Step
<1>3. \A q \in Procs : q # p => snap'[q] = snap[q]
  <2>1. snap' = snap \/ \E s : snap' = [snap EXCEPT ![p] = s]
    BY DEF GetIpamService, PoolGet, PoolSet, NetGetFound, NetGetEmpty, NetPool, NetSetHost,
       NetSetPool
  <2> QED
    BY <1>1, <2>1 DEF Typed, TypeOK
<1>4. pc[p] \notin Ended /\ "netSetPool" \in InitSteps
  BY <1>1, Disjoint DEF InitSteps
<1>5. pc'[p] \notin Ended
  BY <1>1, Disjoint
     DEF GetIpamService, PoolGet, PoolSet, NetGetFound, NetGetEmpty, NetPool, NetSetHost,
         NetSetPool, Goto, Return, Typed, TypeOK, Ended, Returns
<1>6. TornHosts' = TornHosts
  BY <1>2, <1>3, <1>4, <1>5 DEF TornHosts
<1> QED
  BY <1>1, <1>2, <1>3, <1>4, <1>6 DEF Handing

\* The steps that store neither a network nor what is left of the pool.
LEMMA EvenLook ==
    ASSUME EvenInv, NEW p \in Procs, SerialInv', OneAtATime',
           PoolGet(p) \/ PoolSet(p) \/ NetGetFound(p) \/ NetGetEmpty(p) \/ NetPool(p)
    PROVE  EvenInv'
<1>1. /\ Typed /\ Running(p)
      /\ \A q \in Procs : q # p => pc'[q] = pc[q] /\ pc[q] \notin InitSteps /\ ~Running(q)
      /\ TornHosts' = TornHosts
      /\ Handing <=> pc[p] = "netSetPool"
      /\ Handing' <=> pc'[p] = "netSetPool"
      /\ \A q \in Procs : q # p => snap'[q] = snap[q]
  BY ServiceAlone DEF GetIpamService
<1>2. pc[p] # "netSetPool" /\ pc'[p] # "netSetPool" /\ hostNet' = hostNet
  BY <1>1, Disjoint
     DEF PoolGet, PoolSet, NetGetFound, NetGetEmpty, NetPool, Goto, Return, Typed, TypeOK, InitSteps
<1>3. AllNets # <<>> /\ Len(AllNets) = NumNets
      /\ \A i \in 1 .. NumNets : AllNets[i] = FirstNet + i - 1
  BY IpamAssumption DEF AllNets
<1>4. \A q \in Procs : q # p => pc[q] \notin {"poolSet", "netGet", "netPool", "netSetHost", "netSetPool"}
  BY <1>1 DEF InitSteps
<1>5. PoolKnown'
  <2>1. ASSUME NEW q \in Procs, q # p
        PROVE  /\ pc'[q] \notin {"poolSet", "netGet", "netPool", "netSetHost", "netSetPool"}
               /\ ~Running(q)' /\ (pc'[q] = "idle" => snap'[q] = <<>>)
    BY <1>1, <1>4, <2>1 DEF EvenInv, PoolKnown, Running
  <2>2. CASE PoolGet(p)
    <3>1. pc'[p] = (IF pool = <<>> THEN "poolSet" ELSE "netGet") /\ UNCHANGED <<pool, snap>>
      BY <2>2, <1>1 DEF PoolGet, Goto, Typed, TypeOK
    <3>2. snap[p] = <<>>
      BY <2>2, <1>1 DEF PoolGet, EvenInv, PoolKnown
    <3> QED
      BY <2>1, <3>1, <3>2 DEF PoolKnown, Running
  <2>3. CASE PoolSet(p)
    <3>1. pc'[p] = "netGet" /\ pool' = AllNets /\ snap' = snap
      BY <2>3, <1>1 DEF PoolSet, Goto, Typed, TypeOK
    <3>2. snap[p] = <<>>
      BY <2>3, <1>1 DEF PoolSet, EvenInv, PoolKnown
    <3> QED
      BY <1>3, <2>1, <3>1, <3>2 DEF PoolKnown, Running
  <2>4. CASE NetGetFound(p)
    <3>1. pc'[p] \in Returns \cup {"poolGet"} /\ UNCHANGED <<pool, snap>>
      BY <2>4, <1>1 DEF NetGetFound, Return, Typed, TypeOK
    <3>2. pc'[p] \notin {"poolSet", "netGet", "netPool", "netSetHost", "netSetPool", "idle"}
      BY <3>1 DEF Returns
    <3>3. snap[p] = <<>>
      BY <2>4, <1>1 DEF NetGetFound, EvenInv, PoolKnown
    <3> QED
      BY <2>1, <3>1, <3>2, <3>3 DEF PoolKnown, Running
  <2>5. CASE NetGetEmpty(p)
    <3>1. pc'[p] = "netPool" /\ UNCHANGED <<pool, snap>>
      BY <2>5, <1>1 DEF NetGetEmpty, Goto, Typed, TypeOK
    <3>2. snap[p] = <<>> /\ pool # <<>>
      BY <2>5, <1>1 DEF NetGetEmpty, EvenInv, PoolKnown
    <3> QED
      BY <2>1, <3>1, <3>2 DEF PoolKnown, Running
  <2>6. CASE NetPool(p)
    <3>1. pc'[p] = "netSetHost" /\ pool' = pool /\ snap'[p] = pool
      BY <2>6, <1>1 DEF NetPool, Goto, Typed, TypeOK
    <3>2. pool # <<>>
      BY <2>6 DEF NetPool, EvenInv, PoolKnown
    <3> QED
      BY <2>1, <3>1, <3>2 DEF PoolKnown, Running
  <2> QED
    BY <2>2, <2>3, <2>4, <2>5, <2>6
<1>6. InTurn'
  <2>1. PICK k \in Nat, j \in 0 .. (NumNets - 1) : Placed(j) /\ Level(k, j)
    BY <1>1, <1>2 DEF EvenInv, InTurn
  <2>2. Level(k, j)'
    BY <1>1, <1>2, <2>1 DEF Level, Served, Owners
  <2>3. Placed(j)'
    <3>1. CASE pool' = pool
      BY <3>1, <2>1 DEF Placed
    <3>2. CASE PoolSet(p)
      <4>1. pool = <<>> /\ pool' = AllNets
        BY <3>2 DEF PoolSet, EvenInv, PoolKnown
      <4>2. j = 0
        BY <4>1, <2>1 DEF Placed
      <4> QED
        BY <1>3, <4>1, <4>2, IpamAssumption DEF Placed
    <3> QED
      BY <3>1, <3>2 DEF PoolGet, NetGetFound, NetGetEmpty, NetPool
  <2> QED
    BY <1>1, <1>2, <2>2, <2>3 DEF InTurn
<1>7. TornKnown'
  BY <1>1, <1>2, <1>4 DEF EvenInv, TornKnown
<1> QED
  BY <1>5, <1>6, <1>7 DEF EvenInv

\* The first network of the pool gets one more host.
LEMMA EvenSetHost ==
    ASSUME EvenInv, NEW p \in Procs, SerialInv', OneAtATime', NetSetHost(p)
    PROVE  EvenInv'
<1> DEFINE h == HostOf[p]
<1>1. /\ Typed /\ Running(p)
      /\ \A q \in Procs : q # p => pc'[q] = pc[q] /\ pc[q] \notin InitSteps /\ ~Running(q)
      /\ TornHosts' = TornHosts
      /\ Handing <=> pc[p] = "netSetPool"
      /\ Handing' <=> pc'[p] = "netSetPool"
  BY ServiceAlone DEF GetIpamService
<1>2. /\ pc[p] = "netSetHost" /\ pc'[p] = "netSetPool" /\ UNCHANGED <<pool, snap>>
      /\ snap[p] = pool /\ pool # <<>>
  BY <1>1 DEF NetSetHost, Goto, Typed, TypeOK, EvenInv, PoolKnown
<1>3. \A q \in Procs : q # p => pc[q] \notin {"poolSet", "netGet", "netPool", "netSetHost", "netSetPool"}
  BY <1>1 DEF InitSteps
<1>4. PoolKnown'
  <2>1. ASSUME NEW q \in Procs, q # p
        PROVE  /\ pc'[q] \notin {"poolSet", "netGet", "netPool", "netSetHost", "netSetPool"}
               /\ ~Running(q)' /\ (pc'[q] = "idle" => snap'[q] = <<>>)
    BY <1>1, <1>2, <1>3, <2>1 DEF EvenInv, PoolKnown, Running
  <2> QED
    BY <1>2, <2>1 DEF PoolKnown, Running
<1>5. PICK k \in Nat, j \in 0 .. (NumNets - 1) : Placed(j) /\ Level(k, j)
  BY <1>1, <1>2 DEF EvenInv, InTurn
<1>6. pool \in Seq(NetsOrNone) /\ h \in Hosts /\ hostNet \in [Hosts -> NetsOrNone]
  BY <1>1, IpamAssumption DEF Typed, TypeOK, Hosts
<1>7. Head(pool) = FirstNet + j /\ j \in Nat
  BY <1>2, <1>5, <1>6, PoolHead
<1>8. /\ hostNet' = [hostNet EXCEPT ![h] = FirstNet + j]
      /\ hostNet[h] = NoNet /\ h \notin TornHosts
  BY <1>2, <1>7 DEF NetSetHost, FirstOf, EvenInv, SerialInv, NoNetYet, TornKnown
<1>9. NoNet \notin Nets
  BY IpamAssumption DEF Nets, NoNet
<1>10. TornKnown'
  <2>1. \A t \in TornHosts : t # h /\ t \in Hosts /\ hostNet'[t] = hostNet[t]
    BY <1>6, <1>8, IpamAssumption DEF TornHosts, Hosts
  <2>2. hostNet'[h] = Head(pool)
    BY <1>6, <1>7, <1>8
  <2> QED
    BY <1>1, <1>2, <1>3, <1>8, <2>1, <2>2 DEF EvenInv, TornKnown
<1>11. InTurn'
  <2>1. ASSUME NEW n \in Nets
        PROVE  Cardinality(Served(n)') = IF n < FirstNet + (j + 1) THEN k + 1 ELSE k
    <3>1. Cardinality(Served(n)) = IF n < FirstNet + j THEN k + 1 ELSE k
      BY <1>5 DEF Level
    <3>2. n \in Nat /\ FirstNet \in Nat /\ j \in Nat
      BY IpamAssumption DEF Nets
    <3>3. CASE n = FirstNet + j
      <4>1. Served(n)' = Served(n) \cup {h} /\ h \notin Served(n)
        BY <1>1, <1>6, <1>8, <1>9, <2>1, <3>3 DEF Served, Owners
      <4>2. Cardinality(Served(n)') = Cardinality(Served(n)) + 1
        BY <4>1, ServedFinite, FS_AddElement
      <4> QED
        BY <3>1, <3>2, <3>3, <4>2
    <3>4. CASE n # FirstNet + j
      <4>1. Served(n)' = Served(n)
        BY <1>1, <1>6, <1>8, <1>9, <2>1, <3>4 DEF Served, Owners
      <4> QED
        BY <3>1, <3>2, <3>4, <4>1
    <3> QED
      BY <3>3, <3>4
  <2>2. Level(k, j + 1)' /\ Placed(j)'
    BY <1>2, <1>5, <2>1 DEF Level, Placed
  <2> QED
    BY <1>1, <1>2, <2>2 DEF InTurn
<1> QED
  BY <1>4, <1>10, <1>11 DEF EvenInv

\* That network leaves the pool; with the last one a round is complete.
LEMMA EvenSetPool ==
    ASSUME EvenInv, NEW p \in Procs, SerialInv', OneAtATime', NetSetPool(p)
    PROVE  EvenInv'
<1>1. /\ Typed /\ Running(p)
      /\ \A q \in Procs : q # p => pc'[q] = pc[q] /\ pc[q] \notin InitSteps /\ ~Running(q)
      /\ TornHosts' = TornHosts
      /\ Handing <=> pc[p] = "netSetPool"
      /\ Handing' <=> pc'[p] = "netSetPool"
      /\ \A q \in Procs : q # p => snap'[q] = snap[q]
  BY ServiceAlone DEF GetIpamService
<1>2. /\ pc[p] = "netSetPool" /\ snap[p] = pool /\ pool # <<>>
      /\ pool' = Tail(pool) /\ snap'[p] = <<>> /\ hostNet' = hostNet
      /\ pc'[p] \in Returns \cup {"poolGet"}
  BY <1>1 DEF NetSetPool, Return, RestOf, Typed, TypeOK, EvenInv, PoolKnown
<1>3. pc'[p] \notin {"poolSet", "netGet", "netPool", "netSetHost", "netSetPool", "idle"}
  BY <1>2 DEF Returns
<1>4. \A q \in Procs : q # p => pc[q] \notin {"poolSet", "netGet", "netPool", "netSetHost", "netSetPool"}
  BY <1>1 DEF InitSteps
<1>5. PoolKnown'
  <2>1. ASSUME NEW q \in Procs, q # p
        PROVE  /\ pc'[q] \notin {"poolSet", "netGet", "netPool", "netSetHost", "netSetPool"}
               /\ ~Running(q)' /\ (pc'[q] = "idle" => snap'[q] = <<>>)
    BY <1>1, <1>4, <2>1 DEF EvenInv, PoolKnown, Running
  <2> QED
    BY <1>2, <1>3, <2>1 DEF PoolKnown, Running
<1>6. InTurn'
  <2>1. PICK k \in Nat, j \in 0 .. (NumNets - 1) : Placed(j) /\ Level(k, j + 1)
    BY <1>1, <1>2 DEF EvenInv, InTurn
  <2>2. /\ pool \in Seq(NetsOrNone) /\ Len(pool) = NumNets - j
        /\ \A i \in 1 .. Len(pool) : pool[i] = FirstNet + j + i - 1
    BY <1>1, <1>2, <2>1 DEF Typed, TypeOK, Placed
  <2>3. /\ Tail(pool) \in Seq(NetsOrNone) /\ Len(Tail(pool)) = Len(pool) - 1
        /\ \A i \in 1 .. (Len(pool) - 1) : Tail(pool)[i] = pool[i + 1]
    BY <1>2, <2>2
  <2>4. /\ FirstNet \in Nat /\ NumNets \in Nat /\ NumNets > 0 /\ j \in Nat
    BY IpamAssumption
  <2>5. Level(k, j + 1)'
    BY <1>1, <1>2, <2>1 DEF Level, Served, Owners
  <2>6. CASE j + 1 < NumNets
    <3>1. Tail(pool) # <<>>
      <4> DEFINE left == Tail(pool)
      <4>1. left \in Seq(NetsOrNone) /\ Len(left) = NumNets - j - 1
        BY <2>2, <2>3, <2>4
      <4> HIDE DEF left
      <4>2. Len(left) # 0
        BY <2>4, <2>6, <4>1
      <4>3. left # <<>>
        BY <4>2
      <4> QED
        BY <4>3 DEF left
    <3>2. ASSUME NEW i \in 1 .. Len(Tail(pool))
          PROVE  Tail(pool)[i] = FirstNet + (j + 1) + i - 1
      <4>1. i \in 1 .. (Len(pool) - 1) /\ i + 1 \in 1 .. Len(pool) /\ i \in Nat
        BY <2>2, <2>3, <2>4
      <4>2. Tail(pool)[i] = FirstNet + j + (i + 1) - 1
        BY <2>2, <2>3, <4>1
      <4> QED
        BY <2>4, <4>1, <4>2
    <3>3. Len(Tail(pool)) = NumNets - (j + 1)
      BY <2>2, <2>3, <2>4
    <3>4. Placed(j + 1)'
      BY <1>2, <3>1, <3>2, <3>3 DEF Placed
    <3>5. j + 1 \in 0 .. (NumNets - 1)
      BY <2>4, <2>6
    <3> QED
      BY <1>1, <1>3, <2>5, <3>4, <3>5 DEF InTurn
  <2>7. CASE j + 1 = NumNets
    <3>1. Tail(pool) = <<>>
      BY <2>2, <2>3, <2>4, <2>7
    <3>2. Level(k + 1, 0)'
      <4>1. \A n \in Nets : n < FirstNet + (j + 1) /\ ~(n < FirstNet + 0)
        BY <2>4, <2>7 DEF Nets
      <4> QED
        BY <2>5, <4>1 DEF Level
    <3>3. Placed(0)' /\ k + 1 \in Nat /\ 0 \in 0 .. (NumNets - 1)
      BY <1>2, <2>4, <3>1 DEF Placed
    <3> QED
      BY <1>1, <1>3, <3>2, <3>3 DEF InTurn
  <2> QED
    BY <2>4, <2>6, <2>7
<1>7. TornKnown'
  BY <1>1, <1>2, <1>3, <1>4 DEF EvenInv, TornKnown
<1> QED
  BY <1>5, <1>6, <1>7 DEF EvenInv

LEMMA EvenStep ==
    ASSUME ClusterSerialised, EvenInv, [Next]_vars
    PROVE  EvenInv'
<1>1. SerialInv'
  BY SerialStep DEF EvenInv, ClusterSerialised, HostSerialised
<1>2. CASE UNCHANGED vars
  <2>1. OneAtATime' /\ PoolKnown'
    BY <1>2 DEF EvenInv, OneAtATime, PoolKnown, Running
  <2>2. TornHosts' = TornHosts /\ TornKnown'
    BY <1>2 DEF TornHosts, EvenInv, TornKnown
  <2>3. /\ Handing' <=> Handing
        /\ \A k, j : (Placed(j)' <=> Placed(j)) /\ (Level(k, j)' <=> Level(k, j))
    BY <1>2, <2>2 DEF Handing, Placed, Level, Served, Owners
  <2>4. InTurn => InTurn'
    BY <2>3 DEF InTurn
  <2> QED
    BY <1>1, <2>1, <2>2, <2>4 DEF EvenInv
<1>3. ASSUME NEW p \in Procs,
             \/ Begin(p) \/ Step(p) \/ SetPutLost(p)
             \/ HostError(p) \/ EtcdError(p) \/ Crash(p)
      PROVE  EvenInv'
  <2>1. \A q \in Procs : q # p => pc'[q] = pc[q]
    BY <1>3, StepControl DEF EvenInv, SerialInv
  <2>2. OneAtATime'
    <3>1. CASE Running(p)
      BY <3>1, <2>1 DEF EvenInv, OneAtATime, Running
    <3>2. CASE ~Running(p)
      <4>1. \A q \in Procs : <<p, q>> \in NeverOverlap => ~Running(q)
        BY <3>2, <1>3, StepControl DEF Running, Begin, EvenInv, SerialInv
      <4> QED
        BY <4>1, <2>1 DEF OneAtATime, Running, ClusterSerialised
    <3> QED
      BY <3>1, <3>2
  <2>3. CASE GetIpamService(p)
    BY <2>3, <1>1, <2>2, EvenLook, EvenSetHost, EvenSetPool DEF GetIpamService
  <2>4. CASE ~GetIpamService(p)
    BY <2>4, <1>1, <1>3, <2>2, EvenOther, EvenTorn
  <2> QED
    BY <2>3, <2>4
<1> QED
  BY <1>2, <1>3 DEF Next

\* When no ADDs of the cluster overlap, no network has two hosts more than another,
\* whatever the number of hosts and networks, also when the pool was used up and
\* filled again and whichever requests fail, not counting the hosts for which an
\* ADD ended between its two writes of _NetworkInit.
THEOREM NetworksEven ==
    ASSUME ClusterSerialised
    PROVE  Spec => []EvenUpToTorn
<1>1. EvenInv /\ [Next]_vars => EvenInv'
  BY EvenStep
<1> QED
  BY <1>1, EvenInit, EvenEnough, PTL DEF Spec
===============================================================================
