------------------------------ MODULE HostNetwork ------------------------------
(***************************************************************************)
(* What the ADDs of one node do to its kernel                              *)
(* (cnis/vlhostcni/pkg/nettools/vlhost.go, called by cmdAdd): the bridge   *)
(* they share, a veth pair for each pod, the routes to the other nodes and *)
(* the FORWARD rules.  Every netlink or iptables request is one step, and  *)
(* the kernel refuses to make a link or a route a second time.             *)
(*                                                                         *)
(* The addresses of pods and bridge are the matter of Ipam; here a bridge  *)
(* has its address or not.  A device, an address or a rule never goes away *)
(* again: cmdDel removes nothing.                                          *)
(***************************************************************************)
EXTENDS Naturals

CONSTANTS
    Adds,       \* the ADD processes of the node
    NumOthers,  \* the other nodes are 1 .. NumOthers, in etcd key order
    Nets,       \* the networks of the cluster
    Cidrs,      \* how the other nodes may have got them: two may have the same
    MaxIP,      \* a node has address 1 .. MaxIP, a new one each time it moves
    MayFail     \* whether a request to the kernel may fail

ASSUME HostAssumption ==
    /\ NumOthers \in Nat \ {0}
    /\ Cidrs \subseteq [1 .. NumOthers -> Nets]
    /\ MaxIP \in Nat \ {0}
    /\ MayFail \in BOOLEAN

Others == 1 .. NumOthers
NoIP == 0

VARIABLES
    bridge,     \* how far the bridge has come
    hostEnd,    \* hostEnd[p]: how far the host's end of p's veth pair has come
    podEnd,     \* podEnd[p]: how far the pod's end has come
    rules,      \* number of FORWARD rules for the bridge and for the device
    routes,     \* routes[n]: the gateway of the route to network n, or NoIP
    cidr,       \* cidr[o]: the network node o has in etcd, for good
    nodeIP,     \* nodeIP[o]: the address node o has in etcd
    pc,
    created,    \* created[p]: the bridge and the veth pair were reported made
    stops,      \* stops[p]: the steps of making the devices that went wrong for p
    want,       \* want[p][o]: the address of o that p read
    listed,     \* listed[p]: the networks p saw a route to
    at          \* the node p's loop is at

devices == <<bridge, hostEnd, podEnd>>
loop == <<want, listed, at>>
registry == <<cidr, nodeIP>>
vars == <<devices, rules, routes, registry, pc, created, stops, loop>>

BridgeSteps == {"linkAdd", "addrAdd", "linkUp"}
PodSteps == {"veth", "toHost", "podAddr", "podUp", "podRoute"}
HostSteps == {"hostUp", "plug", "bridgeRule"}
RouteSteps == {"nodes", "list", "route", "devRule"}
Ended == {"done", "failed", "dead"}
Steps == {"idle", "lookup"} \cup BridgeSteps \cup PodSteps \cup HostSteps
         \cup RouteSteps \cup Ended

Running(p) == pc[p] \notin Ended \cup {"idle"}

Init ==
    /\ bridge = "absent"
    /\ hostEnd = [p \in Adds |-> "none"]
    /\ podEnd = [p \in Adds |-> "none"]
    /\ rules = [bridge |-> 0, device |-> 0]
    /\ routes = [n \in Nets |-> NoIP]
    /\ cidr \in Cidrs
    /\ nodeIP = [o \in Others |-> 1]
    /\ pc = [p \in Adds |-> "idle"]
    /\ created = [p \in Adds |-> FALSE]
    /\ stops = [p \in Adds |-> {}]
    /\ want = [p \in Adds |-> [o \in Others |-> NoIP]]
    /\ listed = [p \in Adds |-> {}]
    /\ at = [p \in Adds |-> 1]

Goto(p, step) == pc' = [pc EXCEPT ![p] = step]

Begin(p) ==
    /\ pc[p] = "idle"
    /\ Goto(p, "lookup")
    /\ UNCHANGED <<devices, rules, routes, registry, created, stops, loop>>

-------------------------------------------------------------------------------
(* CreateBridge.                                                           *)

\* LinkByName's error is dropped: a bridge that was not found, for whatever
\* reason, is made.
Lookup(p) ==
    /\ pc[p] = "lookup"
    /\ \/ bridge # "absent" /\ Goto(p, "veth")
       \/ (bridge = "absent" \/ MayFail) /\ Goto(p, "linkAdd")
    /\ UNCHANGED <<devices, rules, routes, registry, created, stops, loop>>

LinkAdd(p) ==
    /\ pc[p] = "linkAdd"
    /\ bridge = "absent"
    /\ bridge' = "bare"
    /\ Goto(p, "addrAdd")
    /\ UNCHANGED <<hostEnd, podEnd, rules, routes, registry, created, stops, loop>>

\* Seeded fault: the bridge just made is returned like one that was found.
AddrAddSkipped(p) ==
    /\ pc[p] = "addrAdd"
    /\ Goto(p, "veth")
    /\ UNCHANGED <<devices, rules, routes, registry, created, stops, loop>>

AddrAdd(p) ==
    /\ pc[p] = "addrAdd"
    /\ bridge' = "addressed"
    /\ Goto(p, "linkUp")
    /\ UNCHANGED <<hostEnd, podEnd, rules, routes, registry, created, stops, loop>>

\* Seeded fault: the bridge is never set up.
LinkUpForgotten(p) ==
    /\ pc[p] = "linkUp"
    /\ Goto(p, "veth")
    /\ UNCHANGED <<devices, rules, routes, registry, created, stops, loop>>

LinkUp(p) ==
    /\ pc[p] = "linkUp"
    /\ bridge' = "up"
    /\ Goto(p, "veth")
    /\ UNCHANGED <<hostEnd, podEnd, rules, routes, registry, created, stops, loop>>

-------------------------------------------------------------------------------
(* In the network namespace of the pod: CreateVethPair, SetVethNsFd,       *)
(* SetIpForVeth, SetUpVeth, SetDefaultRouteToVeth.                         *)

CreateVethPair(p) ==
    /\ pc[p] = "veth"
    /\ hostEnd' = [hostEnd EXCEPT ![p] = "inPod"]
    /\ podEnd' = [podEnd EXCEPT ![p] = "bare"]
    /\ Goto(p, "toHost")
    /\ UNCHANGED <<bridge, rules, routes, registry, created, stops, loop>>

SetVethNsFd(p) ==
    /\ pc[p] = "toHost"
    /\ hostEnd' = [hostEnd EXCEPT ![p] = "onHost"]
    /\ Goto(p, "podAddr")
    /\ UNCHANGED <<bridge, podEnd, rules, routes, registry, created, stops, loop>>

\* The pod's end gets its address, is set up, and gets the default route.
PodEndStep(p, step, state, next) ==
    /\ pc[p] = step
    /\ podEnd' = [podEnd EXCEPT ![p] = state]
    /\ Goto(p, next)
    /\ UNCHANGED <<bridge, hostEnd, rules, routes, registry, created, stops, loop>>

SetIpForVeth(p) == PodEndStep(p, "podAddr", "addressed", "podUp")
SetUpVeth(p) == PodEndStep(p, "podUp", "up", "podRoute")
SetDefaultRoute(p) == PodEndStep(p, "podRoute", "routed", "hostUp")

-------------------------------------------------------------------------------
(* Back in the namespace of the host: the other end is set up and plugged  *)
(* into the bridge.                                                        *)

HostVethUp(p) ==
    /\ pc[p] = "hostUp"
    /\ hostEnd' = [hostEnd EXCEPT ![p] = "up"]
    /\ Goto(p, "plug")
    /\ UNCHANGED <<bridge, podEnd, rules, routes, registry, created, stops, loop>>

SetVethToBridge(p) ==
    /\ pc[p] = "plug"
    /\ hostEnd' = [hostEnd EXCEPT ![p] = "plugged"]
    /\ Goto(p, "bridgeRule")
    /\ UNCHANGED <<bridge, podEnd, rules, routes, registry, created, stops, loop>>

\* The rule is appended each time, whether it is there or not.
ForwardBridge(p) ==
    /\ pc[p] = "bridgeRule"
    /\ rules' = [rules EXCEPT !.bridge = @ + 1]
    /\ created' = [created EXCEPT ![p] = TRUE]
    /\ Goto(p, "nodes")
    /\ UNCHANGED <<devices, routes, registry, stops, loop>>

-------------------------------------------------------------------------------
(* AllHostNetwork as far as it reads the addresses of the nodes, then      *)
(* SetOtherHostRouteToCurrentHost and SetIptablesForDevice.                *)

\* The network of the node that p's loop is at.
Net(p) == cidr[at[p]]

\* The loop goes to the next node, or after the last one to step.
NextNode(p, step) ==
    \/ /\ at[p] < NumOthers
       /\ at' = [at EXCEPT ![p] = @ + 1]
       /\ UNCHANGED pc
    \/ /\ at[p] = NumOthers
       /\ at' = [at EXCEPT ![p] = 1]
       /\ Goto(p, step)

NodeIp(p) ==
    /\ pc[p] = "nodes"
    /\ want' = [want EXCEPT ![p][at[p]] = nodeIP[at[p]]]
    /\ NextNode(p, "list")
    /\ UNCHANGED <<devices, rules, routes, registry, created, stops, listed>>

\* RouteList's error is dropped: the list is empty then.
ListRoutes(p) ==
    /\ pc[p] = "list"
    /\ \/ listed' = [listed EXCEPT ![p] = {n \in Nets : routes[n] # NoIP}]
       \/ MayFail /\ listed' = [listed EXCEPT ![p] = {}]
    /\ Goto(p, "route")
    /\ UNCHANGED <<devices, rules, routes, registry, created, stops, want, at>>

\* Seeded fault: a route that is there ends the loop.
SkipRouteReturns(p) ==
    /\ pc[p] = "route"
    /\ Net(p) \in listed[p]
    /\ at' = [at EXCEPT ![p] = 1]
    /\ Goto(p, "devRule")
    /\ UNCHANGED <<devices, rules, routes, registry, created, stops, want, listed>>

SkipRoute(p) ==
    /\ pc[p] = "route"
    /\ Net(p) \in listed[p]
    /\ NextNode(p, "devRule")
    /\ UNCHANGED <<devices, rules, routes, registry, created, stops, want, listed>>

\* The kernel has one route for a network: of two nodes with the same network the
\* second can not be added.
AddHostRoute(p) ==
    /\ pc[p] = "route"
    /\ Net(p) \notin listed[p]
    /\ routes[Net(p)] = NoIP
    /\ routes' = [routes EXCEPT ![Net(p)] = want[p][at[p]]]
    /\ NextNode(p, "devRule")
    /\ UNCHANGED <<devices, rules, registry, created, stops, want, listed>>

ForwardDevice(p) ==
    /\ pc[p] = "devRule"
    /\ rules' = [rules EXCEPT !.device = @ + 1]
    /\ Goto(p, "done")
    /\ UNCHANGED <<devices, routes, registry, created, stops, loop>>

-------------------------------------------------------------------------------
(* Failures.                                                               *)

\* The process ends without a result; what it had in memory is gone.
End(p, how) ==
    /\ Goto(p, how)
    /\ want' = [want EXCEPT ![p] = [o \in Others |-> NoIP]]
    /\ listed' = [listed EXCEPT ![p] = {}]
    /\ at' = [at EXCEPT ![p] = 1]
    /\ UNCHANGED <<devices, rules, routes, registry, created>>

\* cmdAdd goes on after CreateBridge... has failed, without the devices.
CreateFails(p) ==
    /\ pc[p] \in BridgeSteps \cup PodSteps
    /\ MayFail \/ (pc[p] = "linkAdd" /\ bridge # "absent")
    /\ stops' = [stops EXCEPT ![p] = @ \cup {pc[p]}]
    /\ Goto(p, "nodes")
    /\ UNCHANGED <<devices, rules, routes, registry, created, loop>>

\* What the function passed to hostNs.Do returns is dropped.
HostStepFails(p) ==
    /\ MayFail
    /\ pc[p] \in HostSteps
    /\ created' = [created EXCEPT ![p] = TRUE]
    /\ stops' = [stops EXCEPT ![p] = @ \cup {pc[p]}]
    /\ Goto(p, "nodes")
    /\ UNCHANGED <<devices, rules, routes, registry, loop>>

\* Seeded fault: that the route is there by now counts as success.
AddFailsUnlessThere(p) ==
    /\ pc[p] = "route" /\ Net(p) \notin listed[p] /\ routes[Net(p)] # NoIP
    /\ NextNode(p, "devRule")
    /\ UNCHANGED <<devices, rules, routes, registry, created, stops, want, listed>>

AddFails(p) ==
    /\ \/ pc[p] = "route" /\ Net(p) \notin listed[p] /\ routes[Net(p)] # NoIP
       \/ pc[p] \in RouteSteps /\ MayFail
    /\ End(p, "failed")
    /\ UNCHANGED stops

Crash(p) ==
    /\ Running(p)
    /\ stops' = [stops EXCEPT ![p] = @ \cup ({pc[p]} \cap BridgeSteps)]
    /\ End(p, "dead")

\* A node registers again with another address.
NodeMoves(o) ==
    /\ nodeIP[o] < MaxIP
    /\ nodeIP' = [nodeIP EXCEPT ![o] = @ + 1]
    /\ UNCHANGED <<devices, rules, routes, cidr, pc, created, stops, loop>>

-------------------------------------------------------------------------------
CreateBridge(p) == Lookup(p) \/ LinkAdd(p) \/ AddrAdd(p) \/ LinkUp(p)

InPod(p) ==
    \/ CreateVethPair(p) \/ SetVethNsFd(p)
    \/ SetIpForVeth(p) \/ SetUpVeth(p) \/ SetDefaultRoute(p)

OnHost(p) == HostVethUp(p) \/ SetVethToBridge(p) \/ ForwardBridge(p)

SetRoutes(p) ==
    NodeIp(p) \/ ListRoutes(p) \/ SkipRoute(p) \/ AddHostRoute(p) \/ ForwardDevice(p)

Step(p) ==
    \/ CreateBridge(p) \/ InPod(p) \/ OnHost(p) \/ SetRoutes(p)
    \/ CreateFails(p) \/ HostStepFails(p) \/ AddFails(p)

Next ==
    \/ \E p \in Adds : Begin(p) \/ Step(p) \/ Crash(p)
    \/ \E o \in Others : NodeMoves(o)

Spec == Init /\ [][Next]_vars

\* The operating system schedules a running process.
FairSpec == Spec /\ \A p \in Adds : WF_vars(Step(p))

-------------------------------------------------------------------------------
(* Properties.                                                             *)

TypeOK ==
    /\ bridge \in {"absent", "bare", "addressed", "up"}
    /\ hostEnd \in [Adds -> {"none", "inPod", "onHost", "up", "plugged"}]
    /\ podEnd \in [Adds -> {"none", "bare", "addressed", "up", "routed"}]
    /\ rules \in [bridge : Nat, device : Nat]
    /\ routes \in [Nets -> 0 .. MaxIP] /\ cidr \in [Others -> Nets]
    /\ nodeIP \in [Others -> 1 .. MaxIP]
    /\ pc \in [Adds -> Steps]
    /\ created \in [Adds -> BOOLEAN]
    /\ stops \in [Adds -> SUBSET Steps]
    /\ want \in [Adds -> [Others -> 0 .. MaxIP]]
    /\ listed \in [Adds -> SUBSET Nets]
    /\ at \in [Adds -> Others]

Making(p) == pc[p] \in {"addrAdd", "linkUp"}
StoppedMaking(p) == stops[p] \cap {"addrAdd", "linkUp"} # {}

\* A bridge that is there but not up with its address is still being made by
\* one ADD, or the ADD that made it has failed or was killed over it; never are
\* two ADDs at it (vlhost.go:19-24: the others take it as it is).
BridgeMadeByOne ==
    /\ bridge \in {"bare", "addressed"} => \E p \in Adds : Making(p) \/ StoppedMaking(p)
    /\ \A p, q \in Adds :
        (Making(p) \/ StoppedMaking(p)) /\ (Making(q) \/ StoppedMaking(q)) => p = q

\* An ADD that succeeded leaves a route to every other node, whether it added
\* it or found it, and whichever other ADDs were adding routes meanwhile.
RoutesComplete == \A p \in Adds : pc[p] = "done" => \A o \in Others : routes[cidr[o]] # NoIP

\* After an ADD that succeeded a route leads to the address this ADD read for
\* its node, unless it had seen the route before it came to add any.
RouteAsRead ==
    \A p \in Adds : pc[p] = "done" =>
        \A o \in Others : cidr[o] \in listed[p] \/ routes[cidr[o]] = want[p][o]

\* A pod whose ADD went through all steps is connected in the end: its own
\* devices are all there, and the bridge is, or gets, up and addressed, unless
\* the ADD that was making it stopped over it.  An ADD that is done stays so:
\* that there always comes a moment when all pods are connected says it of each.
PodsGetGateway == []<>
    \A p \in Adds : pc[p] = "done" /\ stops[p] = {} =>
        /\ hostEnd[p] = "plugged" /\ podEnd[p] = "routed" /\ rules.bridge > 0
        /\ bridge = "up" \/ \E q \in Adds : StoppedMaking(q)
===============================================================================
