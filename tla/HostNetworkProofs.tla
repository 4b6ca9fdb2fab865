--------------------------- MODULE HostNetworkProofs ---------------------------
(* Proofs about HostNetwork, for any number of ADDs and of nodes, with     *)
(* requests that fail, kills, and nodes that move.                         *)
EXTENDS HostNetwork, TLAPS

USE DEF vars, devices, loop, registry

LEMMA StepSets ==
    /\ BridgeSteps \cup PodSteps \cup HostSteps \cup RouteSteps \cup Ended \subseteq Steps
    /\ {"idle", "lookup"} \subseteq Steps
  BY DEF Steps

LEMMA NextNodeTyped ==
    ASSUME TypeOK, NEW p \in Adds, NEW step \in Steps, NextNode(p, step)
    PROVE  pc' \in [Adds -> Steps] /\ at' \in [Adds -> Others]
<1>0. at[p] \in Others
  BY DEF TypeOK
<1>1. 1 \in Others /\ (at[p] < NumOthers => at[p] + 1 \in Others)
  BY <1>0, HostAssumption DEF Others
<1>2. CASE at[p] < NumOthers /\ at' = [at EXCEPT ![p] = @ + 1] /\ UNCHANGED pc
  BY <1>1, <1>2 DEF TypeOK
<1>3. CASE at' = [at EXCEPT ![p] = 1] /\ Goto(p, step)
  BY <1>1, <1>3 DEF TypeOK, Goto
<1> QED
  BY <1>2, <1>3 DEF NextNode

LEMMA RulesTyped ==
    ASSUME TypeOK
    PROVE  /\ [rules EXCEPT !.bridge = @ + 1] \in [bridge : Nat, device : Nat]
           /\ [rules EXCEPT !.device = @ + 1] \in [bridge : Nat, device : Nat]
<1>1. rules.bridge + 1 \in Nat /\ rules.device + 1 \in Nat
  BY DEF TypeOK
<1> QED
  BY <1>1 DEF TypeOK

LEMMA TypedInit == Init => TypeOK
  BY HostAssumption, StepSets DEF Init, TypeOK, Others, NoIP

LEMMA TypedStep ==
    ASSUME TypeOK, [Next]_vars
    PROVE  TypeOK'
<1> USE DEF TypeOK
<1>1. CASE UNCHANGED vars
  BY <1>1
<1>2. ASSUME NEW p \in Adds, Begin(p) \/ CreateBridge(p)
      PROVE  TypeOK'
  <2>1. CASE Begin(p) \/ Lookup(p)
    BY <2>1, StepSets DEF Begin, Lookup, Goto, BridgeSteps, PodSteps
  <2>2. CASE LinkAdd(p) \/ AddrAdd(p) \/ LinkUp(p)
    BY <2>2, StepSets DEF LinkAdd, AddrAdd, LinkUp, Goto, BridgeSteps, PodSteps
  <2> QED
    BY <1>2, <2>1, <2>2 DEF CreateBridge
<1>3. ASSUME NEW p \in Adds, InPod(p)
      PROVE  TypeOK'
  BY <1>3, StepSets DEF InPod, CreateVethPair, SetVethNsFd, SetIpForVeth, SetUpVeth,
     SetDefaultRoute, PodEndStep, Goto, PodSteps, HostSteps
<1>4. ASSUME NEW p \in Adds, OnHost(p)
      PROVE  TypeOK'
  <2>1. CASE HostVethUp(p) \/ SetVethToBridge(p)
    BY <2>1, StepSets DEF HostVethUp, SetVethToBridge, Goto, HostSteps
  <2>2. CASE ForwardBridge(p)
    <3>1. rules' \in [bridge : Nat, device : Nat]
      BY <2>2, RulesTyped DEF ForwardBridge
    <3>2. pc' \in [Adds -> Steps] /\ created' \in [Adds -> BOOLEAN]
      BY <2>2, StepSets DEF ForwardBridge, Goto, RouteSteps
    <3> QED
      BY <2>2, <3>1, <3>2 DEF ForwardBridge
  <2> QED
    BY <1>4, <2>1, <2>2 DEF OnHost
<1>5. ASSUME NEW p \in Adds, NodeIp(p)
      PROVE  TypeOK'
  <2>1. want' \in [Adds -> [Others -> 0 .. MaxIP]]
    BY <1>5, HostAssumption DEF NodeIp
  <2>2. "list" \in Steps
    BY StepSets DEF RouteSteps
  <2> QED
    BY <1>5, <2>1, <2>2, NextNodeTyped DEF NodeIp
<1>6. ASSUME NEW p \in Adds, ListRoutes(p) \/ ForwardDevice(p)
      PROVE  TypeOK'
  <2>1. CASE ListRoutes(p)
    <3>1. listed' \in [Adds -> SUBSET Nets]
      <4>1. PICK seen \in SUBSET Nets : listed' = [listed EXCEPT ![p] = seen]
        <5>1. {n \in Nets : routes[n] # NoIP} \in SUBSET Nets /\ {} \in SUBSET Nets
          OBVIOUS
        <5> HIDE DEF TypeOK
        <5> QED
          BY <2>1, <5>1 DEF ListRoutes
      <4> QED
        BY <4>1
    <3> QED
      BY <2>1, <3>1, StepSets DEF ListRoutes, Goto, RouteSteps
  <2>2. CASE ForwardDevice(p)
    <3>1. rules' \in [bridge : Nat, device : Nat]
      BY <2>2, RulesTyped DEF ForwardDevice
    <3> QED
      BY <2>2, <3>1, StepSets DEF ForwardDevice, Goto, Ended
  <2> QED
    BY <1>6, <2>1, <2>2
<1>7. ASSUME NEW p \in Adds, SkipRoute(p) \/ AddHostRoute(p)
      PROVE  TypeOK'
  <2>1. "devRule" \in Steps
    BY StepSets DEF RouteSteps
  <2>2. NextNode(p, "devRule")
    <3> HIDE DEF TypeOK
    <3>1. CASE SkipRoute(p)
      BY <3>1 DEF SkipRoute
    <3>2. CASE AddHostRoute(p)
      BY <3>2 DEF AddHostRoute
    <3> QED
      BY <1>7, <3>1, <3>2
  <2>3. pc' \in [Adds -> Steps] /\ at' \in [Adds -> Others]
    BY <2>1, <2>2, NextNodeTyped
  <2>4. routes' \in [Nets -> 0 .. MaxIP]
    <3>1. at[p] \in Others /\ want[p][at[p]] \in 0 .. MaxIP /\ Net(p) \in Nets
      BY DEF Net
    <3>2. routes' = routes \/ routes' = [routes EXCEPT ![Net(p)] = want[p][at[p]]]
      BY <1>7 DEF SkipRoute, AddHostRoute
    <3> QED
      BY <3>1, <3>2
  <2> QED
    BY <1>7, <2>3, <2>4 DEF SkipRoute, AddHostRoute
<1>8. ASSUME NEW p \in Adds, CreateFails(p) \/ HostStepFails(p)
      PROVE  TypeOK'
  <2>1. "nodes" \in Steps /\ pc[p] \in Steps
    BY StepSets DEF RouteSteps
  <2>2. pc' \in [Adds -> Steps] /\ stops' \in [Adds -> SUBSET Steps]
    <3>1. pc' = [pc EXCEPT ![p] = "nodes"] /\ stops' = [stops EXCEPT ![p] = @ \cup {pc[p]}]
      BY <1>8 DEF CreateFails, HostStepFails, Goto
    <3>2. stops[p] \cup {pc[p]} \in SUBSET Steps
      BY <2>1
    <3> QED
      BY <2>1, <3>1, <3>2
  <2>3. created' \in [Adds -> BOOLEAN]
    BY <1>8 DEF CreateFails, HostStepFails
  <2> QED
    BY <1>8, <2>2, <2>3 DEF CreateFails, HostStepFails
<1>9. ASSUME NEW p \in Adds, AddFails(p) \/ Crash(p)
      PROVE  TypeOK'
  <2>1. 1 \in Others /\ NoIP \in 0 .. MaxIP
    BY HostAssumption DEF Others, NoIP
  <2>2. "failed" \in Steps /\ "dead" \in Steps /\ pc[p] \in Steps
    BY StepSets DEF Ended
  <2>3. stops' \in [Adds -> SUBSET Steps]
    <3>1. CASE AddFails(p)
      BY <3>1 DEF AddFails
    <3>2. CASE Crash(p)
      <4>1. stops[p] \cup ({pc[p]} \cap BridgeSteps) \in SUBSET Steps
        BY <2>2
      <4>2. stops' = [stops EXCEPT ![p] = @ \cup ({pc[p]} \cap BridgeSteps)]
        BY <3>2 DEF Crash
      <4> QED
        BY <4>1, <4>2
    <3> QED
      BY <1>9, <3>1, <3>2
  <2>4. End(p, "failed") \/ End(p, "dead")
    BY <1>9 DEF AddFails, Crash
  <2>5. /\ pc' \in [Adds -> Steps] /\ want' \in [Adds -> [Others -> 0 .. MaxIP]]
        /\ listed' \in [Adds -> SUBSET Nets] /\ at' \in [Adds -> Others]
    <3>1. PICK how \in {"failed", "dead"} : End(p, how)
      BY <2>4
    <3>2. [o \in Others |-> NoIP] \in [Others -> 0 .. MaxIP]
      BY <2>1
    <3>3. want' \in [Adds -> [Others -> 0 .. MaxIP]]
      BY <3>1, <3>2 DEF End
    <3>4. pc' \in [Adds -> Steps]
      BY <2>2, <3>1 DEF End, Goto
    <3>5. listed' \in [Adds -> SUBSET Nets] /\ at' \in [Adds -> Others]
      BY <2>1, <3>1 DEF End
    <3> QED
      BY <3>3, <3>4, <3>5
  <2> QED
    BY <2>3, <2>4, <2>5 DEF End
<1>10. ASSUME NEW o \in Others, NodeMoves(o)
       PROVE  TypeOK'
  BY <1>10, HostAssumption DEF NodeMoves
<1> QED
  BY <1>1, <1>2, <1>3, <1>4, <1>5, <1>6, <1>7, <1>8, <1>9, <1>10
     DEF Next, Step, SetRoutes

\* The state of vlhost.go and of the kernel is well typed.
THEOREM HostTyped == Spec => []TypeOK
  BY TypedInit, TypedStep, PTL DEF Spec

-------------------------------------------------------------------------------
(* The bridge.                                                             *)

AtBridge(p) == Making(p) \/ StoppedMaking(p)

\* What BridgeMadeByOne needs to be inductive: as long as there is no bridge,
\* nobody is at it.
BridgeInv ==
    /\ TypeOK
    /\ BridgeMadeByOne
    /\ bridge = "absent" => \A p \in Adds : ~AtBridge(p)

\* A step that leaves the bridge alone, and nobody new at it, and nobody gone.
LEMMA BridgeQuiet ==
    ASSUME BridgeInv, TypeOK', UNCHANGED bridge,
           \A p \in Adds : AtBridge(p)' <=> AtBridge(p)
    PROVE  BridgeInv'
  BY DEF BridgeInv, BridgeMadeByOne, AtBridge

LEMMA BridgeStep ==
    ASSUME BridgeInv, [Next]_vars
    PROVE  BridgeInv'
<1> USE DEF BridgeInv
<1>1. TypeOK'
  BY TypedStep
<1>2. CASE UNCHANGED vars
  BY <1>1, <1>2, BridgeQuiet DEF AtBridge, Making, StoppedMaking
<1>3. ASSUME NEW p \in Adds, LinkAdd(p)
      PROVE  BridgeInv'
  <2>1. /\ AtBridge(p)' /\ bridge' = "bare"
        /\ \A q \in Adds : q # p => ~AtBridge(q)'
    BY <1>3 DEF LinkAdd, AtBridge, Making, StoppedMaking, Goto, TypeOK
  <2> QED
    BY <1>1, <2>1 DEF BridgeMadeByOne, AtBridge
<1>4. ASSUME NEW p \in Adds, AddrAdd(p)
      PROVE  BridgeInv'
  <2>1. /\ AtBridge(p)' /\ AtBridge(p) /\ bridge' = "addressed"
        /\ \A q \in Adds : q # p => (AtBridge(q)' <=> AtBridge(q))
    BY <1>4 DEF AddrAdd, AtBridge, Making, StoppedMaking, Goto, TypeOK
  <2> QED
    BY <1>1, <2>1 DEF BridgeMadeByOne, AtBridge
<1>5. ASSUME NEW p \in Adds, LinkUp(p)
      PROVE  BridgeInv'
  <2>1. /\ bridge' = "up"
        /\ \A q \in Adds : AtBridge(q)' => AtBridge(q)
    BY <1>5 DEF LinkUp, AtBridge, Making, StoppedMaking, Goto, TypeOK
  <2> QED
    BY <1>1, <2>1 DEF BridgeMadeByOne, AtBridge
<1>6. ASSUME NEW p \in Adds, CreateFails(p) \/ Crash(p)
      PROVE  BridgeInv'
  <2>1. \A q \in Adds : AtBridge(q)' <=> AtBridge(q)
    <3>1. AtBridge(p)' <=> AtBridge(p)
      <4>1. /\ ~Making(p)'
            /\ Making(p) => pc[p] \in BridgeSteps
        BY <1>6 DEF CreateFails, Crash, End, Making, Goto, TypeOK, BridgeSteps
      <4>2. StoppedMaking(p)' <=> StoppedMaking(p) \/ Making(p)
        <5>1. \/ stops'[p] = stops[p] \cup {pc[p]}
              \/ stops'[p] = stops[p] \cup ({pc[p]} \cap BridgeSteps)
          BY <1>6 DEF CreateFails, Crash, TypeOK
        <5> QED
          BY <5>1 DEF Making, StoppedMaking, BridgeSteps
      <4> QED
        BY <4>1, <4>2 DEF AtBridge
    <3>2. \A q \in Adds : q # p => (AtBridge(q)' <=> AtBridge(q))
      BY <1>6 DEF CreateFails, Crash, End, AtBridge, Making, StoppedMaking, Goto, TypeOK
    <3> QED
      BY <3>1, <3>2
  <2>2. UNCHANGED bridge
    BY <1>6 DEF CreateFails, Crash, End
  <2> QED
    BY <1>1, <2>1, <2>2, BridgeQuiet
<1>7. ASSUME NEW p \in Adds, Begin(p) \/ Lookup(p) \/ InPod(p) \/ OnHost(p)
      PROVE  BridgeInv'
  <2>1. UNCHANGED <<bridge, stops>> /\ \A q \in Adds : Making(q)' <=> Making(q)
    BY <1>7 DEF Begin, Lookup, InPod, OnHost, CreateVethPair, SetVethNsFd, SetIpForVeth,
       SetUpVeth, SetDefaultRoute, PodEndStep, HostVethUp, SetVethToBridge, ForwardBridge,
       Goto, Making, TypeOK
  <2> QED
    BY <1>1, <2>1, BridgeQuiet DEF AtBridge, StoppedMaking
<1>8. ASSUME NEW p \in Adds, SetRoutes(p) \/ AddFails(p)
      PROVE  BridgeInv'
  <2>1. UNCHANGED <<bridge, stops>> /\ \A q \in Adds : Making(q)' <=> Making(q)
    BY <1>8 DEF SetRoutes, NodeIp, ListRoutes, SkipRoute, AddHostRoute, ForwardDevice,
       NextNode, AddFails, End, RouteSteps, Goto, Making, TypeOK
  <2> QED
    BY <1>1, <2>1, BridgeQuiet DEF AtBridge, StoppedMaking
<1>9. ASSUME NEW p \in Adds, HostStepFails(p)
      PROVE  BridgeInv'
  <2>1. UNCHANGED bridge /\ \A q \in Adds : Making(q)' <=> Making(q)
    BY <1>9 DEF HostStepFails, HostSteps, Goto, Making, TypeOK
  <2>2. \A q \in Adds : StoppedMaking(q)' <=> StoppedMaking(q)
    BY <1>9 DEF HostStepFails, HostSteps, StoppedMaking, TypeOK
  <2> QED
    BY <1>1, <2>1, <2>2, BridgeQuiet DEF AtBridge
<1>10. ASSUME NEW o \in Others, NodeMoves(o)
       PROVE  BridgeInv'
  BY <1>1, <1>10, BridgeQuiet DEF NodeMoves, AtBridge, Making, StoppedMaking
<1> QED
  BY <1>2, <1>3, <1>4, <1>5, <1>6, <1>7, <1>8, <1>9, <1>10 DEF Next, Step, CreateBridge

\* Whatever the interleaving, the failures and the kills, only one ADD ever
\* works on the bridge, and a bridge that stays unfinished is one whose ADD
\* stopped over it.
THEOREM OneBridgeMaker == Spec => []BridgeMadeByOne
<1>1. Init => BridgeInv
  BY TypedInit DEF Init, BridgeInv, BridgeMadeByOne, AtBridge, Making, StoppedMaking
<1>2. BridgeInv => BridgeMadeByOne
  BY DEF BridgeInv
<1> QED
  BY <1>1, <1>2, BridgeStep, PTL DEF Spec

-------------------------------------------------------------------------------
(* The routes.                                                             *)

\* The nodes whose address p has read, and those its loop has dealt with.
Read(p) ==
    {o \in Others : \/ pc[p] = "nodes" /\ o < at[p]
                    \/ pc[p] \in {"list", "route", "devRule", "done"}}

Dealt(p) ==
    {o \in Others : \/ pc[p] = "route" /\ o < at[p]
                    \/ pc[p] \in {"devRule", "done"}}

\* What one ADD knows of the routes: the loops start at the first node, what
\* was read is an address, what was seen is there, and what was dealt with is
\* there and, unless it was seen before, as it was read.
KnowsRoutes(p) ==
    /\ pc[p] \notin {"nodes", "route"} => at[p] = 1
    /\ \A o \in Read(p) : want[p][o] # NoIP
    /\ \A n \in listed[p] : routes[n] # NoIP
    /\ \A o \in Dealt(p) :
        /\ routes[cidr[o]] # NoIP
        /\ cidr[o] \in listed[p] \/ routes[cidr[o]] = want[p][o]

RoutesInv ==
    /\ TypeOK
    /\ \A p \in Adds : KnowsRoutes(p)

\* An ADD that does nothing keeps what it knows: routes are only added.
LEMMA OthersKnow ==
    ASSUME RoutesInv, NEW q \in Adds,
           pc'[q] = pc[q], want'[q] = want[q], listed'[q] = listed[q], at'[q] = at[q],
           UNCHANGED cidr,
           \A n \in Nets : routes[n] # NoIP => routes'[n] = routes[n]
    PROVE  KnowsRoutes(q)'
<1>1. Read(q)' = Read(q) /\ Dealt(q)' = Dealt(q)
  BY DEF Read, Dealt
<1>2. Dealt(q) \subseteq Others /\ listed[q] \subseteq Nets /\ KnowsRoutes(q) /\ cidr \in [Others -> Nets]
  BY DEF Dealt, RoutesInv, TypeOK
<1> QED
  BY <1>1, <1>2 DEF KnowsRoutes

\* An ADD that is not in its loops knows nothing yet, or not any more.
LEMMA OutsideKnows ==
    ASSUME RoutesInv, NEW p \in Adds,
           pc'[p] \notin {"list", "route", "devRule", "done"}, at'[p] = 1,
           listed'[p] = {} \/ UNCHANGED <<routes, listed>>
    PROVE  KnowsRoutes(p)'
<1>1. Read(p)' = {} /\ Dealt(p)' = {}
  BY DEF Read, Dealt, Others
<1>2. \A n \in listed'[p] : routes'[n] # NoIP
  BY DEF RoutesInv, KnowsRoutes
<1> QED
  BY <1>1, <1>2 DEF KnowsRoutes

LEMMA RoutesStep ==
    ASSUME RoutesInv, [Next]_vars
    PROVE  RoutesInv'
<1>1. TypeOK'
  BY TypedStep DEF RoutesInv
<1>2. CASE UNCHANGED vars
  <2>1. \A q \in Adds : KnowsRoutes(q)'
    BY <1>2, OthersKnow
  <2> QED
    BY <1>1, <2>1 DEF RoutesInv
<1>3. ASSUME NEW o \in Others, NodeMoves(o)
      PROVE  RoutesInv'
  <2>1. \A q \in Adds : KnowsRoutes(q)'
    BY <1>3, OthersKnow DEF NodeMoves
  <2> QED
    BY <1>1, <2>1 DEF RoutesInv
<1>4. ASSUME NEW p \in Adds,
             Begin(p) \/ CreateBridge(p) \/ InPod(p) \/ OnHost(p) \/ CreateFails(p) \/ HostStepFails(p)
      PROVE  RoutesInv'
  <2>1. /\ UNCHANGED <<routes, cidr, want, listed, at>>
        /\ pc[p] \notin {"nodes", "route"}
        /\ pc'[p] \notin {"list", "route", "devRule", "done"}
        /\ \A q \in Adds : q # p => pc'[q] = pc[q]
    BY <1>4 DEF RoutesInv, TypeOK, Begin, CreateBridge, Lookup, LinkAdd, AddrAdd, LinkUp, InPod,
       CreateVethPair, SetVethNsFd, SetIpForVeth, SetUpVeth, SetDefaultRoute, PodEndStep,
       OnHost, HostVethUp, SetVethToBridge, ForwardBridge, CreateFails, HostStepFails, Goto,
       BridgeSteps, PodSteps, HostSteps
  <2>2. at'[p] = 1
    BY <2>1 DEF RoutesInv, KnowsRoutes
  <2>3. KnowsRoutes(p)'
    BY <2>1, <2>2, OutsideKnows
  <2>4. \A q \in Adds : q # p => KnowsRoutes(q)'
    BY <2>1, OthersKnow
  <2> QED
    BY <1>1, <2>3, <2>4 DEF RoutesInv
<1>5. ASSUME NEW p \in Adds, AddFails(p) \/ Crash(p)
      PROVE  RoutesInv'
  <2>1. /\ UNCHANGED <<routes, cidr>>
        /\ at'[p] = 1 /\ listed'[p] = {} /\ pc'[p] \in {"failed", "dead"}
        /\ \A q \in Adds : q # p => /\ pc'[q] = pc[q] /\ want'[q] = want[q]
                                    /\ listed'[q] = listed[q] /\ at'[q] = at[q]
    BY <1>5 DEF RoutesInv, TypeOK, AddFails, Crash, End, Goto
  <2>2. KnowsRoutes(p)'
    BY <2>1, OutsideKnows
  <2>3. \A q \in Adds : q # p => KnowsRoutes(q)'
    BY <2>1, OthersKnow
  <2> QED
    BY <1>1, <2>2, <2>3 DEF RoutesInv
<1>6. ASSUME NEW p \in Adds, NodeIp(p)
      PROVE  RoutesInv'
  <2>1. /\ UNCHANGED <<routes, cidr, listed>> /\ pc[p] = "nodes" /\ at[p] \in Others
        /\ \A o \in Others : want'[p][o] = IF o = at[p] THEN nodeIP[o] ELSE want[p][o]
        /\ nodeIP[at[p]] # NoIP
    BY <1>6, HostAssumption DEF RoutesInv, TypeOK, NodeIp, NoIP
  <2>2. \A q \in Adds : q # p => /\ pc'[q] = pc[q] /\ want'[q] = want[q]
                                 /\ listed'[q] = listed[q] /\ at'[q] = at[q]
    BY <1>6 DEF RoutesInv, TypeOK, NodeIp, NextNode, Goto
  <2>3. \/ pc'[p] = "nodes" /\ at'[p] = at[p] + 1
        \/ pc'[p] = "list" /\ at'[p] = 1 /\ at[p] = NumOthers
    BY <1>6 DEF RoutesInv, TypeOK, NodeIp, NextNode, Goto
  <2>4. \A o \in Read(p)' : o = at[p] \/ o \in Read(p)
    BY <2>1, <2>3, HostAssumption DEF Read, Others
  <2>5. Read(p)' \subseteq Others /\ Dealt(p)' = {}
    BY <2>3 DEF Read, Dealt
  <2>6. KnowsRoutes(p)'
    BY <2>1, <2>3, <2>4, <2>5 DEF RoutesInv, KnowsRoutes
  <2>7. \A q \in Adds : q # p => KnowsRoutes(q)'
    BY <2>1, <2>2, OthersKnow
  <2> QED
    BY <1>1, <2>6, <2>7 DEF RoutesInv
<1>7. ASSUME NEW p \in Adds, ListRoutes(p)
      PROVE  RoutesInv'
  <2>1. /\ UNCHANGED <<routes, cidr, want, at>> /\ pc[p] = "list" /\ pc'[p] = "route"
        /\ listed'[p] \subseteq {n \in Nets : routes[n] # NoIP}
        /\ \A q \in Adds : q # p => pc'[q] = pc[q] /\ listed'[q] = listed[q]
    BY <1>7 DEF RoutesInv, TypeOK, ListRoutes, Goto
  <2>2. Read(p)' = Read(p) /\ at[p] = 1 /\ Dealt(p)' = {}
    BY <2>1 DEF Read, Dealt, RoutesInv, KnowsRoutes, Others
  <2>3. KnowsRoutes(p)'
    BY <2>1, <2>2 DEF RoutesInv, KnowsRoutes
  <2>4. \A q \in Adds : q # p => KnowsRoutes(q)'
    BY <2>1, OthersKnow
  <2> QED
    BY <1>1, <2>3, <2>4 DEF RoutesInv
<1>8. ASSUME NEW p \in Adds, SkipRoute(p) \/ AddHostRoute(p)
      PROVE  RoutesInv'
  <2>1. /\ UNCHANGED <<cidr, want, listed>> /\ pc[p] = "route" /\ at[p] \in Others /\ Net(p) = cidr[at[p]] /\ Net(p) \in Nets
        /\ \A q \in Adds : q # p => pc'[q] = pc[q] /\ at'[q] = at[q]
    BY <1>8 DEF RoutesInv, TypeOK, SkipRoute, AddHostRoute, NextNode, Goto, Net
  <2>2. \/ pc'[p] = "route" /\ at'[p] = at[p] + 1
        \/ pc'[p] = "devRule" /\ at'[p] = 1 /\ at[p] = NumOthers
    BY <1>8 DEF RoutesInv, TypeOK, SkipRoute, AddHostRoute, NextNode, Goto
  <2>3. /\ \A n \in Nets : routes[n] # NoIP => routes'[n] = routes[n]
        /\ Net(p) \in listed[p] \/ routes'[Net(p)] = want[p][at[p]]
    BY <1>8, <2>1 DEF RoutesInv, TypeOK, SkipRoute, AddHostRoute
  <2>4. at[p] \in Read(p) /\ Read(p)' = Read(p)
    BY <2>1, <2>2 DEF Read
  <2>5. \A o \in Dealt(p)' : o \in Others /\ (o = at[p] \/ o \in Dealt(p))
    BY <2>1, <2>2, HostAssumption DEF Dealt, Others
  <2>6. KnowsRoutes(p) /\ listed[p] \subseteq Nets /\ cidr \in [Others -> Nets]
    BY DEF RoutesInv, TypeOK
  <2>7. \A n \in listed[p] : routes'[n] # NoIP
    BY <2>3, <2>6 DEF KnowsRoutes
  <2>8. \A o \in Dealt(p)' :
            /\ routes'[cidr'[o]] # NoIP
            /\ cidr'[o] \in listed'[p] \/ routes'[cidr'[o]] = want'[p][o]
    BY <2>1, <2>3, <2>4, <2>5, <2>6, <2>7 DEF KnowsRoutes
  <2>9. KnowsRoutes(p)'
    BY <2>1, <2>2, <2>4, <2>6, <2>7, <2>8 DEF KnowsRoutes
  <2>10. \A q \in Adds : q # p => KnowsRoutes(q)'
    BY <2>1, <2>3, OthersKnow
  <2> QED
    BY <1>1, <2>9, <2>10 DEF RoutesInv
<1>9. ASSUME NEW p \in Adds, ForwardDevice(p)
      PROVE  RoutesInv'
  <2>1. /\ UNCHANGED <<routes, cidr, want, listed, at>> /\ pc[p] = "devRule" /\ pc'[p] = "done"
        /\ \A q \in Adds : q # p => pc'[q] = pc[q]
    BY <1>9 DEF RoutesInv, TypeOK, ForwardDevice, Goto
  <2>2. Read(p)' = Read(p) /\ Dealt(p)' = Dealt(p)
    BY <2>1 DEF Read, Dealt
  <2>3. KnowsRoutes(p)'
    BY <2>1, <2>2 DEF RoutesInv, KnowsRoutes
  <2>4. \A q \in Adds : q # p => KnowsRoutes(q)'
    BY <2>1, OthersKnow
  <2> QED
    BY <1>1, <2>3, <2>4 DEF RoutesInv
<1> QED
  BY <1>2, <1>3, <1>4, <1>5, <1>6, <1>7, <1>8, <1>9 DEF Next, Step, SetRoutes

\* After an ADD that succeeded there is a route to every other node, and it
\* leads where this ADD read its node to be unless the route was there before:
\* concurrent ADDs, failures, kills and nodes that move included.
THEOREM RoutesCorrect == Spec => [](RoutesComplete /\ RouteAsRead)
<1>1. Init => RoutesInv
  <2> SUFFICES ASSUME Init PROVE RoutesInv
    OBVIOUS
  <2>1. \A p \in Adds : Read(p) = {} /\ Dealt(p) = {}
    BY DEF Init, Read, Dealt
  <2> QED
    BY <2>1, TypedInit DEF Init, RoutesInv, KnowsRoutes
<1>2. RoutesInv => RoutesComplete /\ RouteAsRead
  BY DEF RoutesInv, KnowsRoutes, Dealt, RoutesComplete, RouteAsRead
<1> QED
  BY <1>1, <1>2, RoutesStep, PTL DEF Spec

\* A route made by an ADD that succeeded leads where it read the node to be.
THEOREM RouteWhereRead == Spec => []RouteAsRead
  BY RoutesCorrect, PTL

-------------------------------------------------------------------------------
(* The pods.                                                               *)

\* How far the two ends of the veth pair are when the ADD is at a step, if
\* nothing went wrong for it: host's end and pod's end.
PairAt == [toHost |-> <<"inPod", "bare">>, podAddr |-> <<"onHost", "bare">>,
           podUp |-> <<"onHost", "addressed">>, podRoute |-> <<"onHost", "up">>,
           hostUp |-> <<"onHost", "routed">>, plug |-> <<"up", "routed">>,
           bridgeRule |-> <<"plugged", "routed">>]

Whole(p) == hostEnd[p] = "plugged" /\ podEnd[p] = "routed" /\ rules.bridge > 0

PastDevices == RouteSteps \cup {"done", "failed"}

\* What an ADD has made: what it got to, with a bridge in place, or all of it.
PodMade(p) ==
    /\ pc[p] \in DOMAIN PairAt => <<hostEnd[p], podEnd[p]>> = PairAt[pc[p]]
    /\ pc[p] \in {"veth"} \cup DOMAIN PairAt => bridge # "absent"
    /\ pc[p] \in PastDevices /\ stops[p] = {} => Whole(p) /\ bridge # "absent"

PodInv == BridgeInv /\ \A p \in Adds : PodMade(p)

\* A pod whose ADD went through all steps has its devices, and the bridge is
\* ready, or the one ADD that makes it is at it or stopped over it.
PodsWhole ==
    \A p \in Adds : pc[p] = "done" /\ stops[p] = {} =>
        Whole(p) /\ (bridge = "up" \/ \E q \in Adds : AtBridge(q))

\* The ADD that makes the bridge goes on from one step to the next until the
\* bridge is up, or stops over it; nothing else touches the bridge meanwhile.
BridgeGoesOn ==
    \A q \in Adds : Making(q) =>
        \/ pc'[q] = pc[q] /\ UNCHANGED bridge /\ ~Step(q)
        \/ pc[q] = "addrAdd" /\ pc'[q] = "linkUp" /\ bridge' = "addressed"
        \/ bridge' = "up"
        \/ StoppedMaking(q)'

LEMMA PairValues ==
    /\ DOMAIN PairAt = {"toHost", "podAddr", "podUp", "podRoute", "hostUp", "plug", "bridgeRule"}
    /\ PairAt["toHost"] = <<"inPod", "bare">> /\ PairAt["podAddr"] = <<"onHost", "bare">>
    /\ PairAt["podUp"] = <<"onHost", "addressed">> /\ PairAt["podRoute"] = <<"onHost", "up">>
    /\ PairAt["hostUp"] = <<"onHost", "routed">> /\ PairAt["plug"] = <<"up", "routed">>
    /\ PairAt["bridgeRule"] = <<"plugged", "routed">>
  BY DEF PairAt

LEMMA OthersPods ==
    ASSUME NEW q \in Adds, PodMade(q),
           pc'[q] = pc[q], hostEnd'[q] = hostEnd[q], podEnd'[q] = podEnd[q],
           stops'[q] = stops[q],
           rules.bridge > 0 => rules'.bridge > 0,
           bridge # "absent" => bridge' # "absent"
    PROVE  PodMade(q)'
  BY DEF PodMade, Whole

\* The bridge is never taken away, nor is a rule for it.
LEMMA BridgeStays ==
    ASSUME TypeOK, [Next]_vars
    PROVE  /\ bridge # "absent" => bridge' # "absent"
           /\ rules.bridge > 0 => rules'.bridge > 0
<1> USE DEF TypeOK
<1>1. CASE UNCHANGED vars
  BY <1>1
<1>2. ASSUME NEW p \in Adds, Begin(p) \/ CreateBridge(p) \/ InPod(p)
      PROVE  UNCHANGED rules /\ (bridge # "absent" => bridge' # "absent")
  BY <1>2 DEF Begin, CreateBridge, Lookup, LinkAdd, AddrAdd, LinkUp, InPod, CreateVethPair,
     SetVethNsFd, SetIpForVeth, SetUpVeth, SetDefaultRoute, PodEndStep
<1>3. ASSUME NEW p \in Adds, OnHost(p)
      PROVE  UNCHANGED bridge /\ (rules.bridge > 0 => rules'.bridge > 0)
  BY <1>3 DEF OnHost, HostVethUp, SetVethToBridge, ForwardBridge
<1>4. ASSUME NEW p \in Adds, SetRoutes(p)
      PROVE  UNCHANGED <<bridge, rules.bridge>>
  BY <1>4 DEF SetRoutes, NodeIp, ListRoutes, SkipRoute, AddHostRoute, ForwardDevice
<1>5. ASSUME NEW p \in Adds, CreateFails(p) \/ HostStepFails(p) \/ AddFails(p) \/ Crash(p)
      PROVE  UNCHANGED <<bridge, rules>>
  BY <1>5 DEF CreateFails, HostStepFails, AddFails, Crash, End
<1>6. ASSUME NEW o \in Others, NodeMoves(o)
      PROVE  UNCHANGED <<bridge, rules>>
  BY <1>6 DEF NodeMoves
<1> QED
  BY <1>1, <1>2, <1>3, <1>4, <1>5, <1>6 DEF Next, Step

\* The step of an ADD touches no other ADD's devices.
LEMMA OwnPod ==
    ASSUME TypeOK, NEW p \in Adds, NEW q \in Adds, p # q,
           Begin(p) \/ Step(p) \/ Crash(p)
    PROVE  UNCHANGED <<pc[q], hostEnd[q], podEnd[q], stops[q]>>
<1> USE DEF TypeOK, Goto
<1>1. CASE Begin(p) \/ CreateBridge(p)
  BY <1>1 DEF Begin, CreateBridge, Lookup, LinkAdd, AddrAdd, LinkUp
<1>2. CASE InPod(p) \/ OnHost(p)
  BY <1>2 DEF InPod, CreateVethPair, SetVethNsFd, SetIpForVeth, SetUpVeth, SetDefaultRoute,
     PodEndStep, OnHost, HostVethUp, SetVethToBridge, ForwardBridge
<1>3. CASE SetRoutes(p)
  BY <1>3 DEF SetRoutes, NodeIp, ListRoutes, SkipRoute, AddHostRoute, ForwardDevice, NextNode
<1>4. CASE CreateFails(p) \/ HostStepFails(p) \/ AddFails(p) \/ Crash(p)
  BY <1>4 DEF CreateFails, HostStepFails, AddFails, Crash, End
<1> QED
  BY <1>1, <1>2, <1>3, <1>4 DEF Step

LEMMA OwnPodMade ==
    ASSUME TypeOK, NEW p \in Adds, PodMade(p),
           Begin(p) \/ Step(p) \/ Crash(p),
           bridge # "absent" => bridge' # "absent",
           rules.bridge > 0 => rules'.bridge > 0
    PROVE  PodMade(p)'
<1> USE DEF TypeOK, Goto
<1>1. CASE Begin(p) \/ CreateBridge(p)
  <2>1. /\ pc'[p] \in {"lookup", "linkAdd", "addrAdd", "linkUp", "veth"}
        /\ pc'[p] = "veth" => bridge' # "absent"
    BY <1>1 DEF Begin, CreateBridge, Lookup, LinkAdd, AddrAdd, LinkUp
  <2> QED
    BY <2>1, PairValues DEF PodMade, PastDevices, RouteSteps
<1>2. CASE InPod(p)
  <2>1. /\ pc[p] \in {"veth"} \cup DOMAIN PairAt /\ pc'[p] \in DOMAIN PairAt
        /\ <<hostEnd'[p], podEnd'[p]>> = PairAt[pc'[p]]
    BY <1>2, PairValues DEF InPod, CreateVethPair, SetVethNsFd, SetIpForVeth, SetUpVeth,
       SetDefaultRoute, PodEndStep, PodMade
  <2> QED
    BY <2>1, PairValues DEF PodMade, PastDevices, RouteSteps
<1>3. CASE HostVethUp(p) \/ SetVethToBridge(p)
  <2>1. /\ pc[p] \in DOMAIN PairAt /\ pc'[p] \in DOMAIN PairAt
        /\ <<hostEnd'[p], podEnd'[p]>> = PairAt[pc'[p]]
    BY <1>3, PairValues DEF HostVethUp, SetVethToBridge, PodMade
  <2> QED
    BY <2>1, PairValues DEF PodMade, PastDevices, RouteSteps
<1>4. CASE ForwardBridge(p)
  <2>1. /\ pc'[p] = "nodes" /\ rules'.bridge > 0 /\ UNCHANGED <<hostEnd, podEnd, bridge>>
        /\ pc[p] = "bridgeRule"
    BY <1>4 DEF ForwardBridge
  <2> QED
    BY <2>1, PairValues DEF PodMade, Whole
<1>5. CASE SetRoutes(p) \/ AddFails(p)
  <2>1. /\ pc[p] \in PastDevices /\ pc'[p] \in PastDevices
        /\ UNCHANGED <<hostEnd, podEnd, stops>>
    BY <1>5 DEF SetRoutes, NodeIp, ListRoutes, SkipRoute, AddHostRoute, ForwardDevice, NextNode,
       AddFails, End, PastDevices, RouteSteps
  <2> QED
    BY <2>1, PairValues DEF PodMade, Whole, PastDevices, RouteSteps
<1>6. CASE CreateFails(p) \/ HostStepFails(p)
  <2>1. pc'[p] = "nodes" /\ stops'[p] = stops[p] \cup {pc[p]}
    BY <1>6 DEF CreateFails, HostStepFails
  <2>2. stops'[p] # {}
    BY <2>1
  <2> QED
    BY <2>1, <2>2, PairValues DEF PodMade
<1>7. CASE Crash(p)
  <2>1. pc'[p] = "dead"
    BY <1>7 DEF Crash, End
  <2> QED
    BY <2>1, PairValues DEF PodMade, PastDevices, RouteSteps
<1> QED
  BY <1>1, <1>2, <1>3, <1>4, <1>5, <1>6, <1>7 DEF Step, OnHost

LEMMA PodStep ==
    ASSUME PodInv, [Next]_vars
    PROVE  PodInv'
<1> USE DEF PodInv
<1>1. BridgeInv' /\ TypeOK
  BY BridgeStep DEF BridgeInv
<1>2. CASE (\E o \in Others : NodeMoves(o)) \/ UNCHANGED vars
  <2>1. UNCHANGED <<pc, hostEnd, podEnd, stops, rules, bridge>>
    BY <1>2 DEF NodeMoves
  <2> QED
    BY <1>1, <2>1, OthersPods
<1>3. ASSUME NEW p \in Adds, Begin(p) \/ Step(p) \/ Crash(p)
      PROVE  PodInv'
  <2>1. PodMade(p)'
    BY <1>1, <1>3, BridgeStays, OwnPodMade
  <2>2. ASSUME NEW q \in Adds, q # p
        PROVE  PodMade(q)'
    BY <1>1, <1>3, <2>2, BridgeStays, OwnPod, OthersPods
  <2> QED
    BY <1>1, <2>1, <2>2
<1> QED
  BY <1>2, <1>3 DEF Next

LEMMA BridgeGoesOnStep ==
    ASSUME BridgeInv, [Next]_vars
    PROVE  BridgeGoesOn
<1> SUFFICES ASSUME NEW q \in Adds, Making(q)
             PROVE  \/ pc'[q] = pc[q] /\ UNCHANGED bridge /\ ~Step(q)
                    \/ pc[q] = "addrAdd" /\ pc'[q] = "linkUp" /\ bridge' = "addressed"
                    \/ bridge' = "up"
                    \/ StoppedMaking(q)'
  BY DEF BridgeGoesOn
<1> USE DEF BridgeInv, TypeOK, Goto
<1>1. CASE Step(q) \/ Crash(q) \/ Begin(q)
  <2>1. AddrAdd(q) \/ LinkUp(q) \/ CreateFails(q) \/ Crash(q)
    BY <1>1 DEF Making, Step, Begin, CreateBridge, Lookup, LinkAdd, InPod, CreateVethPair,
       SetVethNsFd, SetIpForVeth, SetUpVeth, SetDefaultRoute, PodEndStep, OnHost, HostVethUp,
       SetVethToBridge, ForwardBridge, SetRoutes, NodeIp, ListRoutes, SkipRoute, AddHostRoute,
       ForwardDevice, HostStepFails, HostSteps, AddFails, RouteSteps
  <2>2. CASE AddrAdd(q) \/ LinkUp(q)
    BY <2>2 DEF AddrAdd, LinkUp
  <2>3. CASE CreateFails(q) \/ Crash(q)
    <3>1. \/ stops'[q] = stops[q] \cup {pc[q]}
          \/ stops'[q] = stops[q] \cup ({pc[q]} \cap BridgeSteps)
      BY <2>3 DEF CreateFails, Crash
    <3>2. pc[q] \in {"addrAdd", "linkUp"} /\ pc[q] \in BridgeSteps
      BY DEF Making, BridgeSteps
    <3>3. pc[q] \in stops'[q]
      BY <3>1, <3>2
    <3> QED
      BY <3>2, <3>3 DEF StoppedMaking
  <2> QED
    BY <2>1, <2>2, <2>3
<1>2. CASE ~(Step(q) \/ Crash(q) \/ Begin(q))
  <2>1. CASE (\E o \in Others : NodeMoves(o)) \/ UNCHANGED vars
    BY <1>2, <2>1 DEF NodeMoves
  <2>2. ASSUME NEW p \in Adds, Begin(p) \/ Step(p) \/ Crash(p)
        PROVE  pc'[q] = pc[q] /\ UNCHANGED bridge
    <3>1. p # q
      BY <1>2, <2>2
    <3>2. ~LinkAdd(p) /\ ~AddrAdd(p) /\ ~LinkUp(p)
      BY <3>1 DEF LinkAdd, AddrAdd, LinkUp, BridgeMadeByOne, AtBridge, Making
    <3>3. UNCHANGED bridge
      BY <2>2, <3>2 DEF Begin, Step, CreateBridge, Lookup, InPod, CreateVethPair, SetVethNsFd,
         SetIpForVeth, SetUpVeth, SetDefaultRoute, PodEndStep, OnHost, HostVethUp,
         SetVethToBridge, ForwardBridge, SetRoutes, NodeIp, ListRoutes, SkipRoute, AddHostRoute,
         ForwardDevice, CreateFails, HostStepFails, AddFails, Crash, End
    <3> QED
      BY <2>2, <3>1, <3>3, OwnPod
  <2> QED
    BY <1>2, <2>1, <2>2 DEF Next
<1> QED
  BY <1>1, <1>2

\* A pod whose ADD went through all steps has both ends of its pair, plugged and
\* routed, and a rule to forward its packets; the bridge it is plugged into is up,
\* or the one ADD that makes it is one or two steps of its own from there, which
\* nobody delays, or has stopped over it. This is what PodsGetGateway leaves when
\* the scheduling of that ADD is taken away.
THEOREM PodsComeUp == Spec => []PodsWhole /\ [][BridgeGoesOn]_vars
<1>1. Init => PodInv
  BY TypedInit, PairValues DEF Init, PodInv, PodMade, PastDevices, RouteSteps, BridgeInv,
     BridgeMadeByOne, AtBridge, Making, StoppedMaking
<1>2. PodInv => PodsWhole
  BY DEF PodInv, PodMade, PodsWhole, PastDevices, BridgeInv, BridgeMadeByOne, AtBridge, TypeOK
<1>3. PodInv /\ [Next]_vars => [BridgeGoesOn]_vars
  BY BridgeGoesOnStep DEF PodInv
<1>4. PodInv /\ [Next]_vars => PodInv'
  BY PodStep
<1> QED
  BY <1>1, <1>2, <1>3, <1>4, PTL DEF Spec
===============================================================================
