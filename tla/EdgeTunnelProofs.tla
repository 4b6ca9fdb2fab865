--------------------------- MODULE EdgeTunnelProofs ---------------------------
(* Proofs about EdgeTunnel and the Discovery in it, for any nodes, names    *)
(* and versions of the configuration, and any bounds.                       *)
EXTENDS EdgeTunnel, TLAPS

LEMMA VersionsAre == Versions = 1 .. Len(Configs) /\ Len(Configs) \in Nat /\ 1 \in Versions
  BY EdgeTunnelAssumption DEF Versions

LEMMA RelaysConfigured == \A v \in Versions : Configs[v] \subseteq {Me} \cup Peers
  BY EdgeTunnelAssumption DEF Versions
-------------------------------------------------------------------------------
(* Discovery.                                                              *)

TaskSteps == {"idle", "connect", "await", "reply", "map", "store"}

DTyped ==
    /\ DOMAIN nodePeerMap \subseteq Names
    /\ \A n \in DOMAIN nodePeerMap : nodePeerMap[n] \in Names
    /\ step \in [Tasks -> TaskSteps]
    /\ remote \in [Tasks -> Names] /\ msg \in [Tasks -> Names] /\ nodeName \in [Tasks -> Names]
    /\ tasks \in 0 .. MaxTasks

\* What is about to be stored, or answered, names the peer that it is about.
TasksMatch ==
    /\ \A t \in Tasks : step[t] = "map" => nodeName[t] = remote[t]
    /\ \A h \in Handlers : step[h] = "reply" => msg[h] = remote[h]

DInv == DTyped /\ TasksMatch /\ NamesMatchIds

LEMMA TasksKnown ==
    /\ Me \in Names /\ Peers \subseteq Names
    /\ Loops \subseteq Tasks /\ Handlers \subseteq Tasks /\ Proxies \subseteq Tasks
    /\ \A h \in Handlers : h \notin Loops
  BY DiscoveryAssumption DEF Names, Tasks

LEMMA DStart == DInit => DInv
<1> SUFFICES ASSUME DInit PROVE DInv
  OBVIOUS
<1>1. DTyped
  BY TasksKnown, DiscoveryAssumption DEF DInit, DTyped, TaskSteps
<1>2. TasksMatch /\ NamesMatchIds
  BY TasksKnown DEF DInit, TasksMatch, NamesMatchIds
<1> QED
  BY <1>1, <1>2 DEF DInv

LEMMA DSame == DInv /\ UNCHANGED discovery => DInv'
  BY DEF DInv, DTyped, TasksMatch, NamesMatchIds, discovery

LEMMA MappingKeeps ==
    ASSUME DInv, NEW n \in Names, Mapping(n, n)
    PROVE  /\ DOMAIN nodePeerMap' \subseteq Names
           /\ \A m \in DOMAIN nodePeerMap' : nodePeerMap'[m] \in Names
           /\ NamesMatchIds'
  BY DEF DInv, DTyped, NamesMatchIds, Mapping

LEMMA ReturnKeeps ==
    ASSUME DInv, NEW t \in Tasks, Return(t), tasks' = tasks
    PROVE  /\ step' \in [Tasks -> TaskSteps] /\ remote' \in [Tasks -> Names]
           /\ msg' \in [Tasks -> Names] /\ nodeName' \in [Tasks -> Names]
           /\ tasks' \in 0 .. MaxTasks
           /\ TasksMatch'
<1>1. step \in [Tasks -> TaskSteps] /\ "idle" \in TaskSteps /\ Me \in Names
  BY TasksKnown DEF DInv, DTyped, TaskSteps
<1>2. step'[t] = "idle" /\ \A u \in Tasks \ {t} : step'[u] = step[u]
  BY <1>1 DEF Return
<1>3. \A u \in Tasks \ {t} : /\ remote'[u] = remote[u] /\ msg'[u] = msg[u]
                             /\ nodeName'[u] = nodeName[u]
  BY DEF DInv, DTyped, Return
<1>4. TasksMatch'
  BY <1>2, <1>3, TasksKnown DEF DInv, TasksMatch
<1> QED
  BY <1>1, <1>4 DEF DInv, DTyped, Return

LEMMA StartKeeps ==
    ASSUME DInv, NEW t \in Tasks, NEW p \in Names, NEW s \in TaskSteps, Start(t, p, s)
    PROVE  /\ step' \in [Tasks -> TaskSteps] /\ remote' \in [Tasks -> Names]
           /\ tasks' \in 0 .. MaxTasks
           /\ step'[t] = s /\ remote'[t] = p
           /\ \A u \in Tasks \ {t} : step'[u] = step[u] /\ remote'[u] = remote[u]
  BY DiscoveryAssumption DEF DInv, DTyped, Start

LEMMA StartsKeep == DInv /\ DiscoveryStarts => DInv'
<1> SUFFICES ASSUME DInv, DiscoveryStarts PROVE DInv'
  OBVIOUS
<1>0. {"connect", "reply", "idle", "store"} \subseteq TaskSteps
  BY DEF TaskSteps
<1>1. ASSUME NEW t \in Loops, NEW p \in Peers, Discover(t, p) PROVE DInv'
  <2>1. Start(t, p, "connect") /\ UNCHANGED <<nodePeerMap, msg, nodeName>>
    BY <1>1 DEF Discover
  <2>2. TasksMatch'
    BY <2>1, <1>0, StartKeeps, TasksKnown DEF DInv, TasksMatch
  <2> QED
    BY <2>1, <2>2, <1>0, StartKeeps, TasksKnown DEF DInv, DTyped, NamesMatchIds
<1>2. ASSUME NEW h \in Handlers, NEW p \in Peers, Incoming(h, p) PROVE DInv'
  <2>1. Start(h, p, "reply") /\ UNCHANGED <<nodePeerMap, nodeName>>
    BY <1>2 DEF Incoming
  <2>2. msg' \in [Tasks -> Names] /\ msg'[h] = p /\ \A u \in Tasks \ {h} : msg'[u] = msg[u]
    BY <1>2, TasksKnown DEF Incoming, DInv, DTyped
  <2>3. TasksMatch'
    BY <2>1, <2>2, <1>0, StartKeeps, TasksKnown DEF DInv, TasksMatch
  <2> QED
    BY <2>1, <2>2, <2>3, <1>0, StartKeeps, TasksKnown DEF DInv, DTyped, NamesMatchIds
<1>3. ASSUME NEW x \in Proxies, NEW n \in Names, Lookup(x, n) PROVE DInv'
  <2> DEFINE s == IF n \in DOMAIN nodePeerMap THEN "idle" ELSE "store"
  <2>1. Start(x, n, s) /\ UNCHANGED <<nodePeerMap, msg, nodeName>> /\ s \in TaskSteps
    BY <1>0, <1>3 DEF Lookup
  <2>2. s # "map" /\ s # "reply"
    OBVIOUS
  <2> HIDE DEF s
  <2>3. TasksMatch'
    BY <2>1, <2>2, StartKeeps, TasksKnown DEF DInv, TasksMatch
  <2> QED
    BY <2>1, <2>3, StartKeeps, TasksKnown DEF DInv, DTyped, NamesMatchIds
<1>4. ASSUME NEW t \in Tasks, Fails(t) PROVE DInv'
  BY <1>4, ReturnKeeps DEF Fails, DInv, DTyped, NamesMatchIds
<1> QED
  BY <1>1, <1>2, <1>3, <1>4 DEF DiscoveryStarts

LEMMA StepsKeep == DInv /\ DiscoverySteps => DInv'
<1> SUFFICES ASSUME DInv, DiscoverySteps PROVE DInv'
  OBVIOUS
<1>1. ASSUME NEW t \in Loops, Ask(t) PROVE DInv'
  <2>1. step' \in [Tasks -> TaskSteps] /\ step'[t] = "await"
    BY <1>1, TasksKnown DEF Ask, DInv, DTyped, TaskSteps
  <2>2. \A u \in Tasks \ {t} : step'[u] = step[u]
    BY <1>1 DEF Ask, DInv, DTyped
  <2>3. UNCHANGED <<nodePeerMap, remote, msg, nodeName, tasks>>
    BY <1>1 DEF Ask
  <2> QED
    BY <2>1, <2>2, <2>3, TasksKnown DEF DInv, DTyped, TasksMatch, NamesMatchIds
<1>2. ASSUME NEW t \in Loops, Answered(t) PROVE DInv'
  <2>1. step' \in [Tasks -> TaskSteps] /\ step'[t] = "map"
    BY <1>2, TasksKnown DEF Answered, DInv, DTyped, TaskSteps
  <2>2. /\ nodeName' \in [Tasks -> Names] /\ msg' \in [Tasks -> Names]
        /\ nodeName'[t] = remote[t]
    BY <1>2, TasksKnown DEF Answered, DInv, DTyped
  <2>3. \A u \in Tasks \ {t} : step'[u] = step[u] /\ nodeName'[u] = nodeName[u] /\ msg'[u] = msg[u]
    BY <1>2 DEF Answered, DInv, DTyped
  <2>4. UNCHANGED <<nodePeerMap, remote, tasks>>
    BY <1>2 DEF Answered
  <2>5. TasksMatch'
    BY <2>1, <2>2, <2>3, <2>4, TasksKnown DEF DInv, TasksMatch
  <2> QED
    BY <2>1, <2>2, <2>4, <2>5 DEF DInv, DTyped, NamesMatchIds
<1>3. ASSUME NEW t \in Tasks, Remap(t) PROVE DInv'
  <2>1. nodeName[t] = remote[t] /\ remote[t] \in Names
    BY <1>3 DEF Remap, DInv, DTyped, TasksMatch
  <2>2. Mapping(remote[t], remote[t]) /\ Return(t) /\ tasks' = tasks
    BY <1>3, <2>1 DEF Remap
  <2> QED
    BY <2>1, <2>2, MappingKeeps, ReturnKeeps DEF DInv, DTyped
<1>4. ASSUME NEW h \in Handlers, WriteResponse(h) PROVE DInv'
  <2>1. step' \in [Tasks -> TaskSteps] /\ step'[h] = "map"
    BY <1>4, TasksKnown DEF WriteResponse, DInv, DTyped, TaskSteps
  <2>2. /\ nodeName' \in [Tasks -> Names] /\ msg' \in [Tasks -> Names]
        /\ nodeName'[h] = remote[h]
    BY <1>4, TasksKnown DEF WriteResponse, DInv, DTyped, TasksMatch
  <2>3. \A u \in Tasks \ {h} : step'[u] = step[u] /\ nodeName'[u] = nodeName[u] /\ msg'[u] = msg[u]
    BY <1>4 DEF WriteResponse, DInv, DTyped
  <2>4. UNCHANGED <<nodePeerMap, remote, tasks>>
    BY <1>4 DEF WriteResponse
  <2>5. TasksMatch'
    BY <2>1, <2>2, <2>3, <2>4, TasksKnown DEF DInv, TasksMatch
  <2> QED
    BY <2>1, <2>2, <2>4, <2>5 DEF DInv, DTyped, NamesMatchIds
<1>5. ASSUME NEW x \in Proxies, StoreGenerated(x) PROVE DInv'
  <2>1. x \in Tasks /\ remote[x] \in Names
    BY TasksKnown DEF DInv, DTyped
  <2>2. Mapping(remote[x], remote[x]) /\ Return(x) /\ tasks' = tasks
    BY <1>5 DEF StoreGenerated, PeerIDFromString
  <2> QED
    BY <2>1, <2>2, MappingKeeps, ReturnKeeps DEF DInv, DTyped
<1> QED
  BY <1>1, <1>2, <1>3, <1>4, <1>5 DEF DiscoverySteps

\* Nothing but discovery's own steps touches its variables.
LEMMA OnlyDiscovery == [Next]_vars => UNCHANGED discovery \/ Known
  BY DEF Next, vars, Watcher, Finder, Heartbeat, Call, Break, ComeBack, FileChanges, Shutdown,
     MapFault

LEMMA DiscoveryKept == DInv /\ [Next]_vars => DInv'
<1>1. Known => DiscoverySteps \/ DiscoveryStarts
  BY DEF Known
<1> QED
  BY <1>1, OnlyDiscovery, DSame, StartsKeep, StepsKeep

\* An entry of nodePeerMap leads to the node of that name, for any nodes, any
\* names asked for and any number of handshakes and lookups that overlap.
THEOREM EntriesMatch == Spec => []NamesMatchIds
<1>1. Init => DInv
  BY DStart DEF Init
<1>2. DInv => NamesMatchIds
  BY DEF DInv
<1> QED
  BY <1>1, <1>2, DiscoveryKept, PTL DEF Spec
-------------------------------------------------------------------------------
(* The relays.                                                             *)

\* The finder stores only what it found out about a peer, under that peer's name;
\* and unless the map was replaced meanwhile, what it saw in the map is still so.
FindInv ==
    /\ finder \in {"sleep", "relays", "closest", "store", "ended"}
    /\ todo \subseteq Peers /\ cur \in {Me} \cup Peers /\ sawEntry \in BOOLEAN
    /\ finder = "store" => cur \in Peers
    /\ finder = "store" /\ ~stale => (sawEntry <=> cur \in Relays)

MapInv ==
    /\ loaded \in Versions /\ stale \in BOOLEAN
    /\ file \in {Absent, Empty, Bad} \cup Versions /\ version \in Versions
    /\ Relays \subseteq {Me} \cup Peers
    /\ \A r \in Relays : relayMap[r] \subseteq {Seen} \cup Versions
    /\ torn \subseteq Peers
    /\ Me \in Relays <=> Me \in Configs[loaded]
    /\ ConfiguredAddrsKept

\* A server's isRelay is true to the service all the time; the service is as the
\* map wants it from the end of a reload to the reading of the next.
ServiceInv ==
    /\ mode \in BOOLEAN /\ isRelay \in BOOLEAN /\ relayService \in BOOLEAN /\ refused \in BOOLEAN
    /\ watcher \in {"wait", "read", "service", "connect", "ended"}
    /\ mode => isRelay = relayService
    /\ mode /\ watcher # "service" /\ ~refused => relayService = (Me \in Configs[loaded])
    /\ ~mode => ~relayService

RInv == DInv /\ FindInv /\ MapInv /\ ServiceInv

LEMMA RStart == Init => RInv
<1> SUFFICES ASSUME Init PROVE RInv
  OBVIOUS
<1>1. 1 \in Versions /\ Configs[1] \subseteq {Me} \cup Peers
  BY VersionsAre, RelaysConfigured
<1>2. Relays = Configs[1] /\ \A r \in Configs[1] : relayMap[r] = {1}
  BY DEF Init, Relays, GenerateRelayMap
<1>3. FindInv
  BY DEF Init, FindInv
<1>4. ConfiguredAddrsKept
  BY <1>1, <1>2 DEF Init, ConfiguredAddrsKept
<1>5. MapInv
  BY <1>1, <1>2, <1>4 DEF Init, MapInv
<1>6. ServiceInv
  <2>1. isRelay = (Me \in Configs[1]) /\ relayService = (isRelay /\ mode) /\ mode \in BOOLEAN
    BY EdgeTunnelAssumption DEF Init
  <2>2. watcher = "wait" /\ refused = FALSE /\ loaded = 1
    BY DEF Init
  <2>3. isRelay \in BOOLEAN /\ relayService \in BOOLEAN
    BY <2>1
  <2> QED
    BY <2>1, <2>2, <2>3 DEF ServiceInv
<1> QED
  BY <1>3, <1>5, <1>6, DStart DEF Init, RInv

\* The finder's own names are the peers' names, because nodePeerMap's are.
LEMMA NameIsId ==
    ASSUME DInv, NEW p \in Peers, NEW n \in NamesOf(p)
    PROVE  n = p
  BY DEF DInv, NamesMatchIds, NamesOf

-------------------------------------------------------------------------------
(* The finder's step.                                                      *)

LEMMA FinderFinds ==
    ASSUME RInv, Finder, ~StoreRelay
    PROVE  /\ UNCHANGED <<relays, torn>>
           /\ FindInv'
<1> USE DEF relays, Send
<1>1. CASE Round
  BY <1>1 DEF Round, RInv, FindInv, MapInv, Relays
<1>2. CASE Query
  BY <1>2 DEF Query, RInv, FindInv, MapInv, Relays
<1>3. ASSUME NEW p \in Peers, OfferRelay(p) PROVE UNCHANGED <<relays, torn>> /\ FindInv'
  BY <1>3 DEF OfferRelay, RInv, FindInv, Relays
<1>4. ASSUME NEW p \in Peers, OfferPeer(p) PROVE UNCHANGED <<relays, torn>> /\ FindInv'
  <2>1. UNCHANGED <<relays, torn>> /\ todo' \subseteq Peers /\ Relays' = Relays
    BY <1>4 DEF OfferPeer, RInv, FindInv, Relays
  <2>2. CASE NamesOf(p) = {}
    BY <1>4, <2>1, <2>2 DEF OfferPeer, RInv, FindInv
  <2>3. CASE NamesOf(p) # {}
    <3>1. cur' = p /\ finder' = "store"
      BY <1>4, <2>3, NameIsId DEF OfferPeer, RInv
    <3>2. sawEntry' = (p \in Relays)
      BY <1>4, <2>3, <3>1 DEF OfferPeer
    <3>3. sawEntry' \in BOOLEAN /\ (sawEntry' <=> p \in Relays)
      <4>1. sawEntry' \in BOOLEAN
        BY <3>2, SMT
      <4>2. p \in Relays => sawEntry'
        BY <3>2, Zenon
      <4>3. sawEntry' => p \in Relays
        BY <3>2, Zenon
      <4> QED
        BY <4>1, <4>2, <4>3
    <3>4. sawEntry' <=> cur' \in Relays'
      BY <2>1, <3>1, <3>3
    <3> QED
      BY <2>1, <3>1, <3>3, <3>4 DEF FindInv
  <2> QED
    BY <2>2, <2>3
<1> QED
  BY <1>1, <1>2, <1>3, <1>4 DEF Finder

LEMMA FinderStores ==
    ASSUME RInv, StoreRelay, UNCHANGED <<loaded, file, version>>
    PROVE  FindInv' /\ MapInv'
<1>1. PICK seen \in SUBSET {Seen} : Refresh(seen)
  BY DEF StoreRelay
<1>2. cur \in Peers /\ cur # Me /\ sawEntry \in BOOLEAN /\ stale \in BOOLEAN
  BY DiscoveryAssumption DEF StoreRelay, RInv, FindInv, MapInv
<1>3. FindInv'
  BY DEF StoreRelay, RInv, FindInv
<1>4. seen \subseteq {Seen} \cup Versions
  OBVIOUS
<1>5. CASE ~sawEntry
  <2>1. relayMap' = [n \in Relays \cup {cur} |-> IF n = cur THEN seen ELSE relayMap[n]]
    BY <1>1, <1>5 DEF Refresh
  <2>2. Relays' = Relays \cup {cur} /\ \A r \in Relays \ {cur} : relayMap'[r] = relayMap[r]
    BY <2>1 DEF Relays
  <2>3. torn' = IF stale THEN torn \cup {cur} ELSE torn
    BY <1>1, <1>5 DEF Refresh
  <2>4. cur \notin Configs[loaded] \ torn'
    <3>1. CASE stale
      BY <2>3, <3>1
    <3>2. CASE ~stale
      <4>1. cur \notin Relays
        BY <1>5, <3>2 DEF StoreRelay, RInv, FindInv
      <4> QED
        BY <2>3, <3>2, <4>1 DEF RInv, MapInv, ConfiguredAddrsKept
    <3> QED
      BY <1>2, <3>1, <3>2
  <2>5. ConfiguredAddrsKept'
    BY <2>2, <2>3, <2>4 DEF RInv, MapInv, ConfiguredAddrsKept
  <2>6. \A r \in Relays' : relayMap'[r] \subseteq {Seen} \cup Versions
    BY <1>4, <2>1, <2>2 DEF RInv, MapInv
  <2>7. torn' \subseteq Peers /\ stale' \in BOOLEAN
    BY <1>2, <2>3 DEF RInv, MapInv, StoreRelay
  <2> QED
    BY <1>2, <1>3, <2>2, <2>5, <2>6, <2>7 DEF RInv, MapInv
<1>6. CASE sawEntry /\ ~stale
  <2>1. relayMap' = [relayMap EXCEPT ![cur] = @ \cup seen] /\ torn' = torn
    BY <1>1, <1>6 DEF Refresh
  <2>2. Relays' = Relays /\ \A r \in Relays : relayMap'[r] \in {relayMap[r], relayMap[r] \cup seen}
    <3>1. cur \in DOMAIN relayMap
      BY <1>6 DEF StoreRelay, RInv, FindInv, Relays
    <3> QED
      BY <2>1, <3>1 DEF Relays
  <2>3. ConfiguredAddrsKept'
    BY <2>1, <2>2 DEF RInv, MapInv, ConfiguredAddrsKept
  <2>4. \A r \in Relays' : relayMap'[r] \subseteq {Seen} \cup Versions
    BY <1>4, <2>2 DEF RInv, MapInv
  <2> QED
    BY <1>3, <2>1, <2>2, <2>3, <2>4 DEF RInv, MapInv, StoreRelay
<1>7. CASE sawEntry /\ stale
  <2>1. relayMap' = relayMap /\ torn' = torn
    BY <1>1, <1>7 DEF Refresh
  <2> QED
    BY <1>3, <2>1 DEF RInv, MapInv, StoreRelay, ConfiguredAddrsKept, Relays
<1> QED
  BY <1>2, <1>5, <1>6, <1>7

LEMMA FinderKeeps == RInv /\ Finder => FindInv' /\ MapInv' /\ ServiceInv'
<1> SUFFICES ASSUME RInv, Finder PROVE FindInv' /\ MapInv' /\ ServiceInv'
  OBVIOUS
<1>1. UNCHANGED <<loaded, file, version, mode, isRelay, relayService, refused, watcher>>
  BY DEF Finder, config, watch, process
<1>2. ServiceInv'
  BY <1>1 DEF RInv, ServiceInv
<1>3. CASE StoreRelay
  BY <1>1, <1>2, <1>3, FinderStores
<1>4. CASE ~StoreRelay
  BY <1>1, <1>2, <1>4, FinderFinds DEF RInv, MapInv, ConfiguredAddrsKept, Relays, relays
<1> QED
  BY <1>3, <1>4
-------------------------------------------------------------------------------
(* The watcher's step.                                                     *)

LEMMA WatcherKeeps == RInv /\ Watcher => FindInv' /\ MapInv' /\ ServiceInv'
<1> SUFFICES ASSUME RInv, Watcher PROVE FindInv' /\ MapInv' /\ ServiceInv'
  OBVIOUS
<1>1. UNCHANGED <<finder, todo, cur, sawEntry, torn, mode>>
  BY DEF Watcher, find
<1>2. CASE TakeEvent /\ UNCHANGED relays
  <2>1. UNCHANGED <<relayMap, stale, loaded, file, version, isRelay, relayService, refused>>
    BY <1>2 DEF TakeEvent, relays
  <2>2. FindInv' /\ MapInv'
    BY <1>1, <2>1 DEF RInv, FindInv, MapInv, ConfiguredAddrsKept, Relays
  <2>3. watcher = "wait" /\ watcher' \in {"ended", "read"}
    BY <1>2 DEF TakeEvent
  <2> QED
    BY <1>1, <2>1, <2>2, <2>3 DEF RInv, ServiceInv
<1>3. CASE Regenerate
  <2>0. UNCHANGED <<file, version, refused, isRelay, relayService>> /\ watcher = "read"
    BY <1>3 DEF Regenerate, config
  <2>1. CASE file \in {Absent, Empty, Bad}
    <3>1. UNCHANGED <<relayMap, stale, loaded>> /\ watcher' \in {"wait", "read"}
      BY <1>3, <2>0, <2>1 DEF Regenerate, relays
    <3>2. FindInv' /\ MapInv'
      BY <1>1, <2>0, <3>1 DEF RInv, FindInv, MapInv, ConfiguredAddrsKept, Relays
    <3> QED
      BY <1>1, <2>0, <3>1, <3>2 DEF RInv, ServiceInv
  <2>2. CASE file \notin {Absent, Empty, Bad}
    <3>1. /\ relayMap' = GenerateRelayMap(file) /\ loaded' = file
          /\ stale' = (finder = "store") /\ watcher' = "service"
      BY <1>3, <2>2 DEF Regenerate
    <3>2. file \in Versions /\ Configs[file] \subseteq {Me} \cup Peers
      BY <2>2, RelaysConfigured DEF RInv, MapInv
    <3>3. Relays' = Configs[file] /\ \A r \in Configs[file] : relayMap'[r] = {file}
      BY <3>1 DEF Relays, GenerateRelayMap
    <3>4. FindInv'
      BY <1>1, <3>1 DEF RInv, FindInv
    <3>5. ConfiguredAddrsKept'
      BY <3>1, <3>3 DEF ConfiguredAddrsKept
    <3>6. MapInv'
      BY <1>1, <2>0, <3>1, <3>2, <3>3, <3>5 DEF RInv, MapInv
    <3> QED
      BY <1>1, <2>0, <3>1, <3>4, <3>6 DEF RInv, ServiceInv
  <2> QED
    BY <2>1, <2>2
<1>4. CASE Service /\ UNCHANGED relays
  <2>1. UNCHANGED <<relayMap, stale, loaded, file, version>> /\ watcher' = "connect"
    BY <1>4 DEF Service, config, relays
  <2>2. FindInv' /\ MapInv'
    BY <1>1, <2>1 DEF RInv, FindInv, MapInv, ConfiguredAddrsKept, Relays
  <2>3. Wanted = (Me \in Configs[loaded]) /\ Wanted \in BOOLEAN
    BY DEF Wanted, RInv, MapInv
  <2>4. CASE mode /\ Wanted # relayService
    <3>1. PICK ok \in BOOLEAN : Switch(ok)
      BY <1>4, <2>4 DEF Service
    <3> QED
      BY <1>1, <2>1, <2>2, <2>3, <2>4, <3>1 DEF Switch, RInv, ServiceInv
  <2>5. CASE ~(mode /\ Wanted # relayService)
    <3>1. UNCHANGED <<relayService, isRelay>> /\ refused' = FALSE
      BY <1>4, <2>5 DEF Service
    <3> QED
      BY <1>1, <2>1, <2>2, <2>3, <2>5, <3>1 DEF RInv, ServiceInv
  <2> QED
    BY <2>4, <2>5
<1>5. CASE Connected /\ UNCHANGED relays
  <2>1. /\ UNCHANGED <<relayMap, stale, loaded, file, version, isRelay, relayService, refused>>
        /\ watcher = "connect" /\ watcher' = "wait"
    BY <1>5 DEF Connected, config, relays
  <2> QED
    BY <1>1, <2>1 DEF RInv, FindInv, MapInv, ServiceInv, ConfiguredAddrsKept, Relays
<1> QED
  BY <1>2, <1>3, <1>4, <1>5 DEF Watcher

\* The other steps leave the finder, the map and the service alone.
LEMMA FilesKeep == RInv /\ FileChanges => FindInv' /\ MapInv' /\ ServiceInv'
<1> SUFFICES ASSUME RInv, FileChanges PROVE FindInv' /\ MapInv' /\ ServiceInv'
  OBVIOUS
<1>1. UNCHANGED <<watch, find, relays, mode>>
  BY DEF FileChanges, process
<1>2. version + 1 \in Versions
  BY VersionsAre DEF FileChanges, RInv, MapInv
<1>3. file' \in {Absent, Empty, Bad} \cup Versions /\ version' \in Versions
  BY <1>2 DEF FileChanges, Replace, RemoveFile, Truncate, WriteFile, RInv, MapInv
<1> QED
  BY <1>1, <1>3 DEF RInv, FindInv, MapInv, ServiceInv, ConfiguredAddrsKept, Relays,
     watch, find, relays

LEMMA RKept == RInv /\ [Next]_vars => RInv'
<1> SUFFICES ASSUME RInv, [Next]_vars PROVE FindInv' /\ MapInv' /\ ServiceInv'
  BY DiscoveryKept DEF RInv
<1>1. CASE Watcher
  BY <1>1, WatcherKeeps
<1>2. CASE Finder
  BY <1>2, FinderKeeps
<1>3. CASE FileChanges
  BY <1>3, FilesKeep
<1>4. CASE ~Watcher /\ ~Finder /\ ~FileChanges
  <2>1. UNCHANGED <<config, watch, find, relays, mode>>
    BY <1>4 DEF Next, vars, process, Heartbeat, Known, Call, Break, ComeBack, Shutdown, MapFault
  <2> QED
    BY <2>1 DEF RInv, FindInv, MapInv, ServiceInv, ConfiguredAddrsKept, Relays,
       config, watch, find, relays
<1> QED
  BY <1>1, <1>2, <1>3, <1>4

LEMMA RInvariant == Spec => []RInv
  BY RStart, RKept, PTL DEF Spec

\* What the configuration says of a relay is never lost to what the finder stores,
\* but for an entry that it looked up in the map before.
THEOREM AddrsKept == Spec => []ConfiguredAddrsKept
<1>1. RInv => ConfiguredAddrsKept
  BY DEF RInv, MapInv
<1> QED
  BY <1>1, RInvariant, PTL

\* The relay service, isRelay and the configuration agree between two reloads.
THEOREM ServiceFollows == Spec => []ServiceFollowsConfig
<1>1. RInv => ServiceFollowsConfig
  BY DEF RInv, ServiceInv, ServiceFollowsConfig
<1> QED
  BY <1>1, RInvariant, PTL
-------------------------------------------------------------------------------
(* The types of what is left.                                              *)

FileTyped ==
    /\ watched \in BOOLEAN /\ events \in Seq({"remove", "write"})
    /\ how \subseteq {"removed", "truncated"}

BeatTyped ==
    /\ beating \in BOOLEAN /\ calling \in [Callers -> SUBSET Peers]
    /\ linked \subseteq Peers /\ up \subseteq Peers /\ breaks \in 0 .. MaxBreaks

RestTyped ==
    /\ FileTyped /\ BeatTyped
    /\ rounds \in 0 .. MaxRounds /\ queued \in 0 .. Capacity
    /\ stopped \in BOOLEAN /\ dead \in {"no", "maps", "config"}

TInv == RInv /\ RestTyped

LEMMA TStart == Init => RestTyped
<1> SUFFICES ASSUME Init PROVE RestTyped
  OBVIOUS
<1>1. FileTyped
  BY DEF Init, FileTyped
<1>2. BeatTyped
  BY EdgeTunnelAssumption DEF Init, BeatTyped
<1>3. /\ rounds = 0 /\ queued = 0 /\ stopped \in BOOLEAN
      /\ dead \in {"no", "maps", "config"}
  BY DEF Init
<1> QED
  BY <1>1, <1>2, <1>3, EdgeTunnelAssumption DEF RestTyped

LEMMA UnlinkedArePeers == RInv => Unlinked \subseteq Peers
  BY DEF RInv, MapInv, Unlinked

LEMMA FileStep ==
    ASSUME TInv, [Next]_vars
    PROVE  FileTyped'
<1> USE DEF TInv, RestTyped, FileTyped
<1>1. CASE FileChanges
  <2>1. Append(events, "remove") \in Seq({"remove", "write"})
        /\ Append(events, "write") \in Seq({"remove", "write"})
    OBVIOUS
  <2>2. events' \in {events, Append(events, "remove"), Append(events, "write")}
    BY <1>1 DEF FileChanges, Replace, RemoveFile, Truncate, WriteFile, Report
  <2>3. watched' \in BOOLEAN /\ how' \subseteq {"removed", "truncated"}
    BY <1>1 DEF FileChanges, Replace, RemoveFile, Truncate, WriteFile
  <2> QED
    BY <2>1, <2>2, <2>3
<1>2. CASE Watcher
  <2>1. CASE TakeEvent
    <3>1. events # <<>> => Tail(events) \in Seq({"remove", "write"})
      OBVIOUS
    <3> QED
      BY <2>1, <3>1 DEF TakeEvent
  <2>2. CASE Regenerate
    BY <2>2 DEF Regenerate, config
  <2>3. CASE Service \/ Connected
    BY <2>3 DEF Service, Connected, config
  <2> QED
    BY <1>2, <2>1, <2>2, <2>3 DEF Watcher
<1>3. CASE ~FileChanges /\ ~Watcher
  <2>1. UNCHANGED config
    BY <1>3 DEF Next, vars, Finder, Heartbeat, Known, Call, Break, ComeBack, Shutdown, MapFault
  <2> QED
    BY <2>1 DEF config
<1> QED
  BY <1>1, <1>2, <1>3

LEMMA BeatStep ==
    ASSUME TInv, [Next]_vars
    PROVE  BeatTyped'
<1> USE DEF TInv, RestTyped, BeatTyped
<1>1. Unlinked \subseteq Peers
  BY UnlinkedArePeers
<1>2. CASE Watcher
  <2>1. UNCHANGED <<beating, linked, up, breaks>>
    BY <1>2 DEF Watcher
  <2>2. calling' = calling \/ calling' = [calling EXCEPT !["watcher"] = Unlinked]
    BY <1>2 DEF Watcher, Service
  <2> QED
    BY <1>1, <2>1, <2>2
<1>3. CASE Heartbeat
  BY <1>1, <1>3 DEF Heartbeat, Beat, process
<1>4. ASSUME NEW c \in Callers, NEW r \in Peers, Call(c, r) PROVE BeatTyped'
  BY <1>4 DEF Call
<1>5. ASSUME NEW r \in Peers, Break(r) \/ ComeBack(r) PROVE BeatTyped'
  BY <1>5, EdgeTunnelAssumption DEF Break, ComeBack
<1>6. CASE UNCHANGED beat
  BY <1>6 DEF beat
<1>7. CASE Finder \/ Known \/ FileChanges \/ Shutdown \/ MapFault \/ UNCHANGED vars
  BY <1>6, <1>7 DEF Finder, Known, FileChanges, Shutdown, MapFault, vars
<1> QED
  BY <1>2, <1>3, <1>4, <1>5, <1>7 DEF Next

LEMMA CountersStep ==
    ASSUME TInv, [Next]_vars
    PROVE  rounds' \in 0 .. MaxRounds /\ queued' \in 0 .. Capacity
<1> USE DEF TInv, RestTyped
<1>1. CASE Finder
  BY <1>1, EdgeTunnelAssumption
     DEF Finder, Round, Query, StoreRelay, OfferRelay, OfferPeer, Send
<1>2. CASE ~Finder
  <2>1. UNCHANGED find
    BY <1>2 DEF Next, vars, Watcher, Heartbeat, Known, Call, Break, ComeBack, FileChanges,
       Shutdown, MapFault
  <2> QED
    BY <2>1 DEF find
<1> QED
  BY <1>1, <1>2

LEMMA ProcessStep ==
    ASSUME TInv, [Next]_vars
    PROVE  stopped' \in BOOLEAN /\ dead' \in {"no", "maps", "config"}
<1> USE DEF TInv, RestTyped
<1>1. CASE Watcher
  BY <1>1 DEF Watcher, TakeEvent, Regenerate, Service, Connected
<1>2. CASE ~Watcher
  BY <1>2 DEF Next, vars, process, Finder, Heartbeat, Known, Call, Break, ComeBack, FileChanges,
     Shutdown, MapFault
<1> QED
  BY <1>1, <1>2

LEMMA TInit == Init => TInv
  BY RStart, TStart DEF TInv

LEMMA TStep == TInv /\ [Next]_vars => TInv'
<1> SUFFICES ASSUME TInv, [Next]_vars PROVE TInv'
  OBVIOUS
<1>1. RInv'
  BY RKept DEF TInv
<1> QED
  BY <1>1, FileStep, BeatStep, CountersStep, ProcessStep DEF TInv, RestTyped

\* Every step keeps every variable in its type: the finder's and the heartbeat's
\* peers are peers because of what is known of the two maps.
THEOREM EdgeTyped == Spec => []TypeOK
<1>1. TInv => TypeOK
  BY DEF TInv, RInv, DInv, DTyped, TaskSteps, FindInv, MapInv, ServiceInv, RestTyped, FileTyped,
     BeatTyped, TypeOK
<1> QED
  BY <1>1, TInit, TStep, PTL DEF Spec
-------------------------------------------------------------------------------
(* No change of the configuration is lost.                                 *)

\* The watcher has still to read the file.
Noticed == watcher = "read" \/ events # <<>>

\* When the loaded configuration is not the one in the file, the watcher knows,
\* or it ended because the file had been removed, or the process did because of
\* a truncated file or a map.
NoChangeLost ==
    \/ loaded = file \/ file \notin Versions
    \/ Noticed
    \/ "removed" \in how /\ watcher = "ended"
    \/ "truncated" \in how /\ dead = "config"
    \/ dead = "maps"

\* A file that nobody watches any more has left its removal in the channel.
RemovalPending == events # <<>> /\ events[Len(events)] = "remove"

WatchInv ==
    /\ ~watched => RemovalPending \/ watcher = "ended"
    /\ loaded = file \/ file \notin Versions \/ Noticed \/ watcher = "ended"
    /\ file = Absent \/ watcher = "ended" => "removed" \in how
    /\ file = Empty => "truncated" \in how

\* The steps of the watcher up to its next wait with nothing to do.
WatcherLeft ==
    4 * Len(events) + [wait |-> 0, read |-> 3, service |-> 2, connect |-> 1, ended |-> 0][watcher]

WatcherGoesOn ==
    /\ ~FileChanges => WatcherLeft' <= WatcherLeft
    /\ Watcher => WatcherLeft' < WatcherLeft \/ dead' = "config"
    /\ watcher = "connect" =>
        /\ calling'["watcher"] \subseteq calling["watcher"]
        /\ \A r \in Peers : Call("watcher", r) => calling'["watcher"] # calling["watcher"]

LEMMA Tails ==
    ASSUME NEW S, NEW s \in Seq(S), s # <<>>
    PROVE  /\ Len(s) \in Nat /\ Len(Tail(s)) = Len(s) - 1 /\ Tail(s) \in Seq(S)
           /\ Tail(s) # <<>> => Tail(s)[Len(Tail(s))] = s[Len(s)]
           /\ Tail(s) = <<>> => Head(s) = s[Len(s)]
<1> DEFINE t == Tail(s)
<1>1. /\ Len(s) \in Nat /\ Len(s) > 0 /\ Len(t) = Len(s) - 1 /\ t \in Seq(S)
      /\ \A n \in 1 .. Len(t) : t[n] = s[n + 1]
      /\ Head(s) = s[1]
  OBVIOUS
<1> HIDE DEF t
<1>2. t # <<>> => Len(t) > 0 /\ Len(t) \in Nat
  BY <1>1
<1>3. t = <<>> => Len(t) = 0
  OBVIOUS
<1>4. t # <<>> => t[Len(t)] = s[Len(s)]
  <2> SUFFICES ASSUME t # <<>> PROVE t[Len(t)] = s[Len(s)]
    OBVIOUS
  <2>1. Len(t) \in 1 .. Len(t) /\ Len(t) + 1 = Len(s)
    BY <1>1, <1>2
  <2> QED
    BY <1>1, <2>1
<1>5. t = <<>> => Head(s) = s[Len(s)]
  BY <1>1, <1>3
<1> QED
  BY <1>1, <1>4, <1>5 DEF t

LEMMA Appends ==
    ASSUME NEW S, NEW s \in Seq(S), NEW e \in S
    PROVE  /\ Len(Append(s, e)) = Len(s) + 1 /\ Append(s, e) # <<>>
           /\ Append(s, e)[Len(Append(s, e))] = e
<1>1. Len(Append(s, e)) = Len(s) + 1 /\ Append(s, e)[Len(s) + 1] = e /\ Len(s) \in Nat
  OBVIOUS
<1>2. Append(s, e) # <<>>
  BY <1>1
<1> QED
  BY <1>1, <1>2

LEMMA CallsTyped ==
    ASSUME TInv
    PROVE  /\ calling \in [Callers -> SUBSET Peers]
           /\ "watcher" \in Callers /\ "heartbeat" \in Callers
  BY DEF TInv, RestTyped, BeatTyped, Callers

LEMMA VersionsApart == Absent \notin Versions /\ Empty \notin Versions /\ Bad \notin Versions
  BY VersionsAre DEF Absent, Empty, Bad

LEMMA FilesWatched ==
    ASSUME TInv, WatchInv, FileChanges
    PROVE  WatchInv'
<1> USE DEF TInv, RestTyped, FileTyped, WatchInv, RemovalPending
<1>1. UNCHANGED <<watcher, loaded>>
  BY DEF FileChanges, watch
<1>2. version + 1 \in Versions
  BY VersionsAre DEF FileChanges, RInv, MapInv
<1>3. /\ ~watched => RemovalPending \/ watcher = "ended"
      /\ watched => events' \in {Append(events, "remove"), Append(events, "write")}
      /\ ~watched => events' = events
  BY DEF FileChanges, Replace, RemoveFile, Truncate, WriteFile, Report
<1>4. events' # <<>> \/ watcher = "ended"
  BY <1>3, Appends
<1>5. ~watched' => RemovalPending' \/ watcher' = "ended"
  <2>1. CASE Replace \/ RemoveFile
    <3>1. watched => events' = Append(events, "remove")
      BY <2>1 DEF Replace, RemoveFile, Report
    <3> QED
      BY <1>1, <1>3, <3>1, Appends
  <2>2. CASE Truncate \/ WriteFile
    <3>1. watched' = watched
      BY <2>2 DEF Truncate, WriteFile
    <3> QED
      BY <1>1, <1>3, <3>1
  <2> QED
    BY <2>1, <2>2 DEF FileChanges
<1>6. /\ file' = Absent => file = Absent \/ "removed" \in how'
      /\ file' = Empty => file = Empty \/ "truncated" \in how'
      /\ how \subseteq how'
  BY <1>2, VersionsApart DEF FileChanges, Replace, RemoveFile, Truncate, WriteFile, Absent, Empty,
     Bad
<1> QED
  BY <1>1, <1>4, <1>5, <1>6 DEF Noticed

LEMMA WatcherWatches ==
    ASSUME TInv, WatchInv, Watcher
    PROVE  /\ WatchInv'
           /\ dead' = "config" => dead = "config" \/ "truncated" \in how
<1> USE DEF TInv, RestTyped, FileTyped, WatchInv, RemovalPending, Noticed
<1>1. UNCHANGED <<file, how>>
  BY DEF Watcher, TakeEvent, Regenerate, Service, Connected, config
<1>2. CASE TakeEvent
  <2>1. /\ events # <<>> /\ events' = Tail(events) /\ UNCHANGED <<loaded, file, how>>
        /\ watcher = "wait" /\ watcher' \in {"read", "ended"}
        /\ watcher' = "ended" => file = Absent
        /\ ~watched' => watcher' = "ended" \/ (~watched /\ Head(events) # "remove")
    BY <1>2 DEF TakeEvent
  <2>2. ~watched' => RemovalPending' \/ watcher' = "ended"
    BY <2>1, Tails
  <2>3. dead' = dead
    BY <1>2 DEF TakeEvent, Watcher, Regenerate, Service, Connected
  <2> QED
    BY <2>1, <2>2, <2>3
<1>3. CASE Regenerate
  <2>1. /\ UNCHANGED <<watched, events>> /\ watcher = "read"
        /\ watcher' \in {"wait", "read", "service"}
        /\ file \in {Absent, Empty, Bad} \/ loaded' = file
        /\ dead' = dead \/ file = Empty
    BY <1>3 DEF Regenerate, config
  <2> QED
    BY <1>1, <2>1, VersionsApart
<1>4. CASE Service \/ Connected
  <2>1. /\ UNCHANGED <<watched, events, loaded>> /\ watcher \in {"service", "connect"}
        /\ watcher' \in {"connect", "wait"}
    BY <1>4 DEF Service, Connected, config
  <2>2. dead' = dead
    BY <1>4 DEF Watcher, TakeEvent, Regenerate, Service, Connected
  <2> QED
    BY <1>1, <2>1, <2>2
<1> QED
  BY <1>2, <1>3, <1>4 DEF Watcher

\* What the process died of.
DeathTold == dead = "config" => "truncated" \in how

LEMMA WatchStep ==
    ASSUME TInv, WatchInv, DeathTold, [Next]_vars
    PROVE  WatchInv' /\ DeathTold'
<1>1. CASE FileChanges
  <2>1. dead' = dead /\ how \subseteq how'
    BY <1>1 DEF FileChanges, process, Replace, RemoveFile, Truncate, WriteFile
  <2> QED
    BY <1>1, <2>1, FilesWatched DEF DeathTold
<1>2. CASE Watcher
  <2>1. how' = how
    BY <1>2 DEF Watcher, TakeEvent, Regenerate, Service, Connected, config
  <2> QED
    BY <1>2, <2>1, WatcherWatches DEF DeathTold
<1>3. CASE ~FileChanges /\ ~Watcher
  <2>1. UNCHANGED <<config, watch>> /\ (dead' = dead \/ dead' = "maps")
    BY <1>3 DEF Next, vars, process, Finder, Heartbeat, Known, Call, Break, ComeBack, Shutdown,
       MapFault
  <2> QED
    BY <2>1 DEF config, watch, WatchInv, DeathTold, RemovalPending, Noticed
<1> QED
  BY <1>1, <1>2, <1>3

LEMMA WatcherGoesOnStep ==
    ASSUME TInv, Next
    PROVE  WatcherGoesOn
<1> USE DEF TInv, RestTyped, FileTyped
<1>0. /\ Len(events) \in Nat
      /\ watcher \in {"wait", "read", "service", "connect", "ended"}
      /\ dead = "no"
  BY DEF RInv, ServiceInv, Next
<1>1. Watcher => \/ WatcherLeft' < WatcherLeft
                 \/ dead' = "config" /\ WatcherLeft' = WatcherLeft
  <2>1. CASE TakeEvent
    <3>1. /\ Len(events') = Len(events) - 1
          /\ watcher = "wait" /\ watcher' \in {"read", "ended"}
      BY <2>1, Tails DEF TakeEvent
    <3> QED
      BY <1>0, <3>1 DEF WatcherLeft
  <2>2. CASE Regenerate
    <3>1. /\ events' = events /\ watcher = "read"
          /\ watcher' \in {"wait", "service"} \/ (dead' = "config" /\ watcher' = watcher)
      BY <2>2 DEF Regenerate, config
    <3> QED
      BY <1>0, <3>1 DEF WatcherLeft
  <2>3. CASE Service
    BY <1>0, <2>3 DEF Service, config, WatcherLeft
  <2>4. CASE Connected
    BY <1>0, <2>4 DEF Connected, config, WatcherLeft
  <2> QED
    BY <2>1, <2>2, <2>3, <2>4 DEF Watcher
<1>2. ~FileChanges => WatcherLeft' <= WatcherLeft
  <2>1. WatcherLeft \in Int /\ WatcherLeft' \in Int
    <3>1. Len(events') \in Nat /\ watcher' \in {"wait", "read", "service", "connect", "ended"}
      BY TStep DEF RInv, ServiceInv
    <3> QED
      BY <1>0, <3>1 DEF WatcherLeft
  <2>2. CASE Watcher
    BY <1>1, <2>1, <2>2
  <2>3. CASE ~Watcher /\ ~FileChanges
    <3>1. UNCHANGED <<config, watch>>
      BY <2>3 DEF Next, Finder, Heartbeat, Known, Call, Break, ComeBack, Shutdown, MapFault
    <3> QED
      BY <2>1, <3>1 DEF WatcherLeft, config, watch
  <2> QED
    BY <2>2, <2>3
<1>3. ASSUME watcher = "connect"
      PROVE  calling'["watcher"] \subseteq calling["watcher"]
  <2>1. CASE Watcher
    BY <1>3, <2>1 DEF Watcher, TakeEvent, Regenerate, Service, Connected
  <2>2. CASE Heartbeat
    BY <2>2, CallsTyped DEF Heartbeat, Beat
  <2>3. ASSUME NEW c \in Callers, NEW r \in Peers, Call(c, r)
        PROVE  calling'["watcher"] \subseteq calling["watcher"]
    BY <2>3, CallsTyped DEF Call
  <2>4. CASE Finder \/ Known \/ FileChanges \/ Shutdown \/ MapFault
             \/ \E r \in Peers : Break(r) \/ ComeBack(r)
    BY <2>4 DEF Finder, Known, FileChanges, Shutdown, MapFault, Break, ComeBack, beat
  <2> QED
    BY <2>1, <2>2, <2>3, <2>4 DEF Next
<1>4. \A r \in Peers : Call("watcher", r) => calling'["watcher"] # calling["watcher"]
  BY CallsTyped DEF Call
<1> QED
  BY <1>1, <1>2, <1>3, <1>4 DEF WatcherGoesOn

\* No change of the configuration file is lost, also one that comes in the middle
\* of a reload or of the connecting after it: the watcher has still to read the
\* file whenever the file is not what it loaded last. It comes to that in at most
\* four steps for each event, which nothing but a new change adds to, and waits
\* for nothing but calls to relays, of which none is added while it waits.
THEOREM ChangesNoticed == Spec => []NoChangeLost /\ [][WatcherGoesOn]_vars
<1>1. Init => WatchInv /\ DeathTold
  BY VersionsApart, VersionsAre DEF Init, WatchInv, DeathTold
<1>2. WatchInv /\ DeathTold => NoChangeLost
  BY DEF WatchInv, NoChangeLost, Noticed
<1>3. TInv /\ WatchInv /\ DeathTold /\ [Next]_vars => WatchInv' /\ DeathTold'
  BY WatchStep
<1>4. TInv /\ [Next]_vars => [WatcherGoesOn]_vars
  BY WatcherGoesOnStep
<1> QED
  BY <1>1, <1>2, <1>3, <1>4, TInit, TStep, PTL DEF Spec
-------------------------------------------------------------------------------
(* Shutdown ends the loops.                                                *)

FinderLeft ==
    4 * (Capacity - queued)
        + [sleep |-> 1, relays |-> 3, closest |-> 2, store |-> 3, ended |-> 0][finder]

\* The finder goes on from where it is, once Shutdown was called.
FinderReady ==
    \/ finder \in {"sleep", "store"}
    \/ finder = "relays" /\ (todo = {} \/ queued < Capacity)
    \/ finder = "closest" /\ todo # {} /\ queued < Capacity

StopsOrBlocked == finder = "ended" \/ Blocked \/ FinderReady

StopGoesOn ==
    stopped =>
        /\ stopped'
        /\ FinderLeft' <= FinderLeft /\ (Finder => FinderLeft' < FinderLeft)
        /\ beating' => beating
        /\ Heartbeat => ~beating'
        /\ calling'["heartbeat"] \subseteq calling["heartbeat"]
        /\ \A r \in Peers : Call("heartbeat", r) => calling'["heartbeat"] # calling["heartbeat"]

LEMMA FinderLeftOn ==
    ASSUME TInv, Next, stopped
    PROVE  FinderLeft' <= FinderLeft /\ (Finder => FinderLeft' < FinderLeft)
<1> USE DEF TInv, RestTyped
<1>0. /\ queued \in Nat /\ Capacity \in Nat /\ queued <= Capacity
      /\ finder \in {"sleep", "relays", "closest", "store", "ended"}
  BY EdgeTunnelAssumption DEF RInv, FindInv
<1>1. CASE Finder
  <2>1. CASE Round
    BY <1>0, <2>1 DEF Round, FinderLeft
  <2>2. CASE Query
    BY <1>0, <2>2 DEF Query, FinderLeft
  <2>3. CASE StoreRelay
    BY <1>0, <2>3 DEF StoreRelay, FinderLeft
  <2>4. ASSUME NEW p \in Peers, OfferRelay(p) \/ OfferPeer(p)
        PROVE  FinderLeft' < FinderLeft
    <3>1. queued' = queued + 1
      BY <2>4 DEF OfferRelay, OfferPeer, Send
    <3>2. \/ finder = "relays" /\ finder' = "relays"
          \/ finder = "closest" /\ finder' \in {"sleep", "closest", "store"}
      BY <2>4 DEF OfferRelay, OfferPeer
    <3> QED
      BY <1>0, <3>1, <3>2 DEF FinderLeft
  <2>5. FinderLeft' < FinderLeft
    BY <1>1, <2>1, <2>2, <2>3, <2>4 DEF Finder
  <2>6. FinderLeft \in Int /\ FinderLeft' \in Int
    <3>1. /\ queued' \in Nat
          /\ finder' \in {"sleep", "relays", "closest", "store", "ended"}
      BY TStep, EdgeTunnelAssumption DEF RInv, FindInv
    <3> QED
      BY <1>0, <3>1 DEF FinderLeft
  <2> QED
    BY <2>5, <2>6
<1>2. CASE ~Finder
  <2>1. UNCHANGED find
    BY <1>2 DEF Next, Watcher, Heartbeat, Known, Call, Break, ComeBack, FileChanges, Shutdown,
       MapFault
  <2>2. FinderLeft' = FinderLeft
    BY <2>1 DEF find, FinderLeft
  <2>3. FinderLeft \in Int
    BY <1>0 DEF FinderLeft
  <2> QED
    BY <1>2, <2>2, <2>3
<1> QED
  BY <1>1, <1>2

LEMMA BeatLeftOn ==
    ASSUME TInv, Next, stopped
    PROVE  /\ stopped'
           /\ beating' => beating
           /\ Heartbeat => ~beating'
           /\ calling'["heartbeat"] \subseteq calling["heartbeat"]
<1>1. CASE Watcher
  <2>1. calling' = calling \/ calling' = [calling EXCEPT !["watcher"] = Unlinked]
    BY <1>1 DEF Watcher, Service
  <2>2. stopped' = stopped /\ beating' = beating
    BY <1>1 DEF Watcher
  <2>3. Heartbeat => ~beating'
    BY DEF Heartbeat, Beat
  <2> QED
    BY <2>1, <2>2, <2>3, CallsTyped
<1>2. CASE Heartbeat
  BY <1>2, CallsTyped DEF Heartbeat, Beat, process
<1>3. ASSUME NEW c \in Callers, NEW r \in Peers, Call(c, r)
      PROVE  /\ UNCHANGED <<stopped, beating>>
             /\ calling'["heartbeat"] \subseteq calling["heartbeat"]
  BY <1>3, CallsTyped DEF Call, process
<1>4. CASE Finder \/ Known \/ FileChanges \/ Shutdown \/ MapFault
           \/ \E r \in Peers : Break(r) \/ ComeBack(r)
  <2>1. UNCHANGED <<beating, calling>> /\ stopped'
    BY <1>4 DEF Finder, Known, FileChanges, Shutdown, MapFault, Break, ComeBack, beat, process
  <2>2. Heartbeat => ~beating'
    BY DEF Heartbeat, Beat
  <2> QED
    BY <2>1, <2>2
<1>5. Heartbeat => ~beating'
  BY DEF Heartbeat, Beat
<1> QED
  BY <1>1, <1>2, <1>3, <1>4, <1>5 DEF Next

\* The finder asks the channel for room only with a peer to send.
PeersToOffer == finder = "closest" => todo # {}

LEMMA PeersToOfferStep ==
    ASSUME PeersToOffer, [Next]_vars
    PROVE  PeersToOffer'
<1> USE DEF PeersToOffer
<1>1. CASE Finder
  BY <1>1 DEF Finder, Round, Query, StoreRelay, OfferRelay, OfferPeer
<1>2. CASE ~Finder
  <2>1. UNCHANGED find
    BY <1>2 DEF Next, vars, Watcher, Heartbeat, Known, Call, Break, ComeBack, FileChanges,
       Shutdown, MapFault
  <2> QED
    BY <2>1 DEF find
<1> QED
  BY <1>1, <1>2

\* After Shutdown the finder ends, or blocks on the channel that nobody reads, in
\* at most 4 * Capacity + 3 steps of its own, of which only that channel can refuse
\* one, and the heartbeat ends with its next step, for which it waits for no other
\* calls than those under way. What the other loops do sets neither back.
THEOREM StopsUseUp == Spec => []StopsOrBlocked /\ [][StopGoesOn]_vars
<1>1. Init => PeersToOffer
  BY DEF Init, PeersToOffer
<1>2. TInv /\ PeersToOffer => StopsOrBlocked
  <2> SUFFICES ASSUME TInv, PeersToOffer PROVE StopsOrBlocked
    OBVIOUS
  <2>1. queued = Capacity \/ queued < Capacity
    BY EdgeTunnelAssumption DEF TInv, RestTyped
  <2>2. finder \in {"sleep", "relays", "closest", "store", "ended"}
    BY DEF TInv, RInv, FindInv
  <2> QED
    BY <2>1, <2>2 DEF StopsOrBlocked, Blocked, FinderReady, PeersToOffer
<1>3. PeersToOffer /\ [Next]_vars => PeersToOffer'
  BY PeersToOfferStep
<1>4. TInv /\ [Next]_vars => [StopGoesOn]_vars
  <2> SUFFICES ASSUME TInv, Next, stopped PROVE StopGoesOn
    BY DEF StopGoesOn
  <2>1. \A r \in Peers : Call("heartbeat", r) => calling'["heartbeat"] # calling["heartbeat"]
    BY CallsTyped DEF Call
  <2> QED
    BY <2>1, FinderLeftOn, BeatLeftOn DEF StopGoesOn
<1> QED
  BY <1>1, <1>2, <1>3, <1>4, TInit, TStep, PTL DEF Spec
===============================================================================
