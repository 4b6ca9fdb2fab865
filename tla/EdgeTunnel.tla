------------------------------- MODULE EdgeTunnel -------------------------------
(***************************************************************************)
(* The goroutines of one edge tunnel around its map of relays, relayMap    *)
(* (libp2p/test/udp/tunnel/tunnel.go, module.go): the watcher reloads it   *)
(* from the configuration file and turns the relay service on and off; the *)
(* relay finder adds what the DHT knows and offers all of it to a channel; *)
(* the heartbeat keeps the node connected to the relays.  Discovery has    *)
(* the map of names.  No lock guards either map.                           *)
(***************************************************************************)
EXTENDS Discovery, Integers, Sequences, FiniteSets

CONSTANTS
    Modes,          \* what Config.Mode is ServerClientMode may be
    Configs,        \* Configs[v]: the relays of version v of the configuration
    Capacity,       \* room of peerSource: MaxCandidates as configured
    MaxRounds,      \* how many rounds the finder goes
    MaxBreaks       \* how many connections break, or relays go away

ASSUME EdgeTunnelAssumption ==
    /\ Modes \subseteq BOOLEAN
    /\ Configs \in Seq(SUBSET ({Me} \cup Peers)) /\ Configs # <<>>
    /\ Capacity \in Nat /\ MaxRounds \in Nat /\ MaxBreaks \in Nat

Versions == DOMAIN Configs
Absent == -1    \* the file is not there
Empty == 0      \* it is there and was truncated
Bad == -2       \* it is there, in the middle of a write, and is no yaml
Seen == 0       \* an address the DHT has of a peer; version v has address v

VARIABLES
    mode,           \* Config.Mode is ServerClientMode
    relayMap,       \* what the entries of the map know, by node name
    stale,          \* it is another map than the one refreshRelayMap looked into
    isRelay, relayService,  \* relayService: is not nil
    file, watched, events, version, \* the file, its inotify watch, the watcher's
                    \* channel and the number of versions written so far
    how,            \* what was done to the file besides turning the link
    watcher,        \* where runConfigWatcher is
    loaded,         \* the version the map was made from
    refused,        \* the last New or Close of the relay service failed
    finder, todo, cur, sawEntry,    \* the finder: where it is, the peers left,
                    \* the one at hand, and whether refreshRelayMap found it
    rounds, queued, \* rounds gone, peers in peerSource
    torn,           \* names stored into another map than they were looked up in
    beating,        \* runHeartbeat has not ended
    calling,        \* calling[c]: the relays caller c of connectToRelays waits for
    linked, up, breaks, \* peers connected, peers reachable, how many broke
    stopped, dead   \* Shutdown was called; what the process died of

config == <<file, watched, events, version, how>>
watch == <<watcher, loaded, refused, isRelay, relayService>>
find == <<finder, todo, cur, sawEntry, rounds, queued, torn>>
relays == <<relayMap, stale>>
beat == <<beating, calling, linked, up, breaks>>
process == <<mode, stopped, dead>>
vars == <<discovery, config, watch, find, relays, beat, process>>

Callers == {"watcher", "heartbeat"}
Relays == DOMAIN relayMap

\* GenerateRelayMap, with the addresses of version v.
GenerateRelayMap(v) == [n \in Configs[v] |-> {v}]

Init ==
    /\ DInit
    /\ mode \in Modes
    /\ relayMap = GenerateRelayMap(1) /\ stale = FALSE
    /\ isRelay = (Me \in Configs[1]) /\ relayService = (isRelay /\ mode)
    /\ file = 1 /\ watched = TRUE /\ events = <<>> /\ version = 1 /\ how = {}
    /\ watcher = "wait" /\ loaded = 1 /\ refused = FALSE
    /\ finder = "sleep" /\ todo = {} /\ cur = Me /\ sawEntry = FALSE
    /\ rounds = 0 /\ queued = 0 /\ torn = {}
    /\ beating = TRUE /\ calling = [c \in Callers |-> {}]
    /\ linked = {} /\ up = Peers /\ breaks = 0
    /\ stopped = FALSE /\ dead = "no"
-------------------------------------------------------------------------------
(* The configuration file.  A configmap is a link that is turned to the    *)
(* next file, whose old file goes away; an editor writes the file anew or  *)
(* in place.  A watch reports a write, and the end of its file, with which *)
(* it ends.                                                                *)

Report(e) == events' = IF watched THEN Append(events, e) ELSE events

Replace ==
    /\ version' = version + 1 /\ file' = version + 1
    /\ Report("remove") /\ watched' = FALSE
    /\ UNCHANGED how

RemoveFile ==
    /\ file # Absent
    /\ file' = Absent /\ how' = how \cup {"removed"}
    /\ Report("remove") /\ watched' = FALSE
    /\ UNCHANGED version

\* The file written in place, of which there is nothing yet or a part.
Truncate ==
    /\ file \in Versions
    /\ \/ file' = Empty /\ how' = how \cup {"truncated"}
       \/ file' = Bad /\ UNCHANGED how
    /\ Report("write")
    /\ UNCHANGED <<version, watched>>

WriteFile ==
    /\ file \in {Absent, Empty, Bad}
    /\ file' = version + 1 /\ version' = version + 1
    /\ Report("write")
    /\ UNCHANGED <<watched, how>>

FileChanges ==
    /\ version < Len(Configs)
    /\ Replace \/ RemoveFile \/ Truncate \/ WriteFile
    /\ UNCHANGED <<discovery, watch, find, relays, beat, process>>
-------------------------------------------------------------------------------
(* runConfigWatcher and doReload.                                          *)

\* Seeded fault: the watch is not set anew when its file went away.
TakeEventUnwatched ==
    /\ watcher = "wait" /\ events # <<>>
    /\ events' = Tail(events)
    /\ watcher' = "read"
    /\ watched' = watched
    /\ UNCHANGED <<file, version, how, loaded, refused, isRelay, relayService>>

\* An event.  The end of the file means that the watch is to be set anew, which
\* fails when there is no file, and then nobody watches any more.
TakeEvent ==
    /\ watcher = "wait" /\ events # <<>>
    /\ events' = Tail(events)
    /\ IF Head(events) = "remove"
       THEN /\ watcher' = IF file = Absent THEN "ended" ELSE "read"
            /\ watched' = (file # Absent)
       ELSE watcher' = "read" /\ UNCHANGED watched
    /\ UNCHANGED <<file, version, how, loaded, refused, isRelay, relayService>>

\* ReadFile and Unmarshal, an error of either of which ends the reload, and the new
\* map.  An empty file is yaml too, but Modules is nil then.
Regenerate ==
    /\ watcher = "read"
    /\ CASE file \in {Absent, Bad} -> watcher' = "wait" /\ UNCHANGED <<relays, loaded, dead>>
         [] file = Empty -> dead' = "config" /\ UNCHANGED <<relays, loaded, watcher>>
         [] OTHER -> /\ relayMap' = GenerateRelayMap(file) /\ loaded' = file
                     /\ stale' = (finder = "store")
                     /\ watcher' = "service"
                     /\ UNCHANGED dead
    /\ UNCHANGED <<config, refused, isRelay, relayService>>

\* The relay service is made or closed if the map asks for it.
Wanted == Me \in Relays

\* Seeded fault: isRelay is set although the service could not be made.
SwitchFlagFirst(ok) ==
    /\ relayService' = IF ok THEN Wanted ELSE relayService
    /\ isRelay' = Wanted
    /\ refused' = ~ok

\* relayv2.New or Close, which may fail and then changes nothing.
Switch(ok) ==
    /\ relayService' = IF ok THEN Wanted ELSE relayService
    /\ isRelay' = IF ok THEN Wanted ELSE isRelay
    /\ refused' = ~ok

\* Those of the relays that are not this node and not connected.
Unlinked == {r \in Relays : r # Me /\ r \notin linked}

Service ==
    /\ watcher = "service"
    /\ IF mode /\ Wanted # relayService
       THEN \E ok \in BOOLEAN : Switch(ok)
       ELSE UNCHANGED <<relayService, isRelay>> /\ refused' = FALSE
    /\ calling' = [calling EXCEPT !["watcher"] = Unlinked]
    /\ watcher' = "connect"
    /\ UNCHANGED <<config, loaded>>

Connected ==
    /\ watcher = "connect" /\ calling["watcher"] = {}
    /\ watcher' = "wait"
    /\ UNCHANGED <<config, loaded, refused, isRelay, relayService>>

Watcher ==
    /\ \/ TakeEvent /\ UNCHANGED <<relays, calling, dead>>
       \/ Regenerate /\ UNCHANGED calling
       \/ Service /\ UNCHANGED <<relays, dead>>
       \/ Connected /\ UNCHANGED <<relays, calling, dead>>
    /\ UNCHANGED <<discovery, find, beating, linked, up, breaks, mode, stopped>>
-------------------------------------------------------------------------------
(* runRelayFinder and refreshRelayMap.  Nothing receives from peerSource,  *)
(* and the context that would end the wait for room is never cancelled.    *)

\* Seeded fault: the stop channel is not looked at.
RoundUnstopped ==
    /\ finder = "sleep" /\ rounds < MaxRounds
    /\ finder' = "relays" /\ todo' = Relays \ {Me} /\ rounds' = rounds + 1
    /\ UNCHANGED <<relays, cur, sawEntry, queued, torn>>

\* The next round, unless the tunnel was stopped.
Round ==
    /\ finder = "sleep"
    /\ IF stopped
       THEN finder' = "ended" /\ UNCHANGED <<todo, rounds>>
       ELSE /\ rounds < MaxRounds
            /\ finder' = "relays" /\ todo' = Relays \ {Me} /\ rounds' = rounds + 1
    /\ UNCHANGED <<relays, cur, sawEntry, queued, torn>>

Send(r) ==
    /\ r \in todo /\ todo' = todo \ {r}
    /\ queued < Capacity /\ queued' = queued + 1

OfferRelay(r) ==
    /\ finder = "relays" /\ Send(r)
    /\ UNCHANGED <<relays, finder, cur, sawEntry, rounds, torn>>

\* GetClosestPeers: any peers that addresses are known of, or none.
Query ==
    /\ finder = "relays" /\ todo = {}
    /\ todo' \in SUBSET Peers
    /\ finder' = IF todo' = {} THEN "sleep" ELSE "closest"
    /\ UNCHANGED <<relays, cur, sawEntry, rounds, queued, torn>>

NamesOf(id) == {n \in DOMAIN nodePeerMap : nodePeerMap[n] = id}

OfferPeer(p) ==
    /\ finder = "closest" /\ Send(p)
    /\ IF NamesOf(p) = {}
       THEN /\ finder' = IF todo' = {} THEN "sleep" ELSE "closest"
            /\ UNCHANGED <<cur, sawEntry>>
       ELSE /\ cur' \in NamesOf(p) /\ sawEntry' = (cur' \in Relays)
            /\ finder' = "store"
    /\ UNCHANGED <<relays, rounds, torn>>

\* Seeded fault: the addresses seen take the place of those there are.
RefreshReplaces(seen) ==
    /\ IF sawEntry /\ stale
       THEN UNCHANGED relayMap
       ELSE relayMap' = [n \in Relays \cup {cur} |-> IF n = cur THEN seen ELSE relayMap[n]]
    /\ torn' = IF ~sawEntry /\ stale THEN torn \cup {cur} ELSE torn

\* An entry that was found gets the addresses, even if its map is no longer the
\* one in use; else the map in use now gets a new entry.
Refresh(seen) ==
    /\ CASE ~sawEntry ->
                relayMap' = [n \in Relays \cup {cur} |-> IF n = cur THEN seen ELSE relayMap[n]]
         [] sawEntry /\ ~stale ->
                relayMap' = [relayMap EXCEPT ![cur] = @ \cup seen]
         [] OTHER -> UNCHANGED relayMap
    /\ torn' = IF ~sawEntry /\ stale THEN torn \cup {cur} ELSE torn

StoreRelay ==
    /\ finder = "store"
    /\ \E seen \in SUBSET {Seen} : Refresh(seen)
    /\ finder' = IF todo = {} THEN "sleep" ELSE "closest"
    /\ cur' = Me /\ sawEntry' = FALSE /\ stale' = FALSE
    /\ UNCHANGED <<todo, rounds, queued>>

Finder ==
    /\ \/ Round \/ Query \/ StoreRelay
       \/ \E p \in Peers : OfferRelay(p) \/ OfferPeer(p)
    /\ UNCHANGED <<discovery, config, watch, beat, process>>
-------------------------------------------------------------------------------
(* runHeartbeat and connectToRelays, which waits for a call to each relay. *)

\* Seeded fault: the loop ends with its first round.
BeatOnce ==
    /\ beating /\ calling["heartbeat"] = {}
    /\ beating' = FALSE
    /\ calling' = [calling EXCEPT !["heartbeat"] = IF stopped THEN {} ELSE Unlinked]

\* The timer; a round with nothing to do leaves everything as it is.
Beat ==
    /\ beating /\ calling["heartbeat"] = {}
    /\ beating' = ~stopped
    /\ calling' = [calling EXCEPT !["heartbeat"] = IF stopped THEN {} ELSE Unlinked]

Heartbeat ==
    /\ Beat
    /\ UNCHANGED <<discovery, config, watch, find, relays, linked, up, breaks, process>>

\* connectToRelay: a peer within reach is connected by one of the tries, another
\* fails all of them.
Call(c, r) ==
    /\ r \in calling[c]
    /\ linked' = linked \cup ({r} \cap up)
    /\ calling' = [calling EXCEPT ![c] = @ \ {r}]
    /\ UNCHANGED <<discovery, config, watch, find, relays, beating, up, breaks, process>>
-------------------------------------------------------------------------------
Break(r) ==
    /\ breaks < MaxBreaks /\ breaks' = breaks + 1
    /\ \/ r \in linked /\ linked' = linked \ {r} /\ UNCHANGED up
       \/ r \in up /\ up' = up \ {r} /\ linked' = linked \ {r}
    /\ UNCHANGED <<discovery, config, watch, find, relays, beating, calling, process>>

ComeBack(r) ==
    /\ r \notin up /\ up' = up \cup {r}
    /\ UNCHANGED <<discovery, config, watch, find, relays, beating, calling, linked, breaks,
                   process>>

Shutdown ==
    /\ ~stopped /\ stopped' = TRUE
    /\ UNCHANGED <<discovery, config, watch, find, relays, beat, mode, dead>>

\* The runtime ends a process in which a map is written while it is used.
MapFault ==
    /\ Writers # {} \/ finder = "store"
    /\ dead' = "maps"
    /\ UNCHANGED <<discovery, config, watch, find, relays, beat, mode, stopped>>

Known ==
    /\ DiscoverySteps \/ DiscoveryStarts
    /\ UNCHANGED <<config, watch, find, relays, beat, process>>

Next ==
    /\ dead = "no"
    /\ \/ Watcher \/ Finder \/ Heartbeat \/ Known
       \/ \E c \in Callers, r \in Peers : Call(c, r)
       \/ \E r \in Peers : Break(r) \/ ComeBack(r)
       \/ FileChanges \/ Shutdown \/ MapFault

Spec == Init /\ [][Next]_vars

Alive(A) == dead = "no" /\ A

\* Goroutines run, timers fire, and a call to a relay returns in the end.
Fairness ==
    /\ WF_vars(Alive(Watcher)) /\ WF_vars(Alive(Finder)) /\ WF_vars(Alive(Heartbeat))
    /\ \A c \in Callers, r \in Peers : WF_vars(Alive(Call(c, r)))

FairSpec == Spec /\ Fairness
-------------------------------------------------------------------------------
(* Properties.                                                             *)

TypeOK ==
    /\ DOMAIN nodePeerMap \subseteq Names /\ \A n \in DOMAIN nodePeerMap : nodePeerMap[n] \in Names
    /\ step \in [Tasks -> {"idle", "connect", "await", "reply", "map", "store"}]
    /\ remote \in [Tasks -> Names] /\ msg \in [Tasks -> Names] /\ nodeName \in [Tasks -> Names]
    /\ tasks \in 0 .. MaxTasks
    /\ mode \in BOOLEAN /\ stopped \in BOOLEAN /\ dead \in {"no", "maps", "config"}
    /\ Relays \subseteq {Me} \cup Peers
    /\ \A r \in Relays : relayMap[r] \subseteq {Seen} \cup Versions
    /\ stale \in BOOLEAN /\ isRelay \in BOOLEAN /\ relayService \in BOOLEAN
    /\ file \in {Absent, Empty, Bad} \cup Versions /\ watched \in BOOLEAN
    /\ events \in Seq({"remove", "write"}) /\ version \in Versions
    /\ how \subseteq {"removed", "truncated"}
    /\ watcher \in {"wait", "read", "service", "connect", "ended"}
    /\ loaded \in Versions /\ refused \in BOOLEAN
    /\ finder \in {"sleep", "relays", "closest", "store", "ended"}
    /\ todo \subseteq Peers /\ cur \in {Me} \cup Peers /\ sawEntry \in BOOLEAN
    /\ rounds \in 0 .. MaxRounds /\ queued \in 0 .. Capacity /\ torn \subseteq Peers
    /\ beating \in BOOLEAN
    /\ calling \in [Callers -> SUBSET Peers]
    /\ linked \subseteq Peers /\ up \subseteq Peers /\ breaks \in 0 .. MaxBreaks

\* Whoever wrote it, an entry of nodePeerMap leads to the peer of that name: what
\* is made up for an unknown name is what a handshake would have found, and the
\* handler, which answers with the message it was asked with, keeps the name that
\* came (tunnel.go:193, 236, 265).
NamesMatchIds == \A n \in DOMAIN nodePeerMap : nodePeerMap[n] = n

\* A relay of the loaded configuration is in the map with the address that this
\* configuration gives it, whatever the finder stores meanwhile; but for a peer
\* that the finder has looked up in the map before (tunnel.go:543-551, 667).
ConfiguredAddrsKept ==
    \A r \in Configs[loaded] \ torn : r \in Relays /\ loaded \in relayMap[r]

\* Between two reloads a server runs the relay service if and only if the loaded
\* configuration names it, unless the last try to make or close the service
\* failed; isRelay says what is, even then; a client never runs it
\* (tunnel.go:669-692, module.go:184).
ServiceFollowsConfig ==
    /\ mode /\ watcher # "service" => isRelay = relayService
    /\ mode /\ watcher = "wait" /\ ~refused => relayService = (Me \in Configs[loaded])
    /\ ~mode => ~relayService

-------------------------------------------------------------------------------
\* After its last change the configuration is in force some time, also when the
\* change came in the middle of a reload; and turning a link, as configmaps do,
\* neither ends the watcher nor the process, nor does a file that was read half
\* written.  A file that was removed before it is there again may end the
\* watcher, one that is truncated the process
\* (tunnel.go:613-631, 647-667).
ConfigTakesEffect ==
    <>[](\/ dead = "maps" \/ file \notin Versions \/ loaded = file
         \/ ("removed" \in how /\ watcher = "ended")
         \/ ("truncated" \in how /\ dead = "config"))

\* The finder waits for room in peerSource.
Blocked == finder \in {"relays", "closest"} /\ todo # {} /\ queued = Capacity

\* After Shutdown the heartbeat ends, and the finder does, unless it waits for
\* room in the channel that nobody reads, with no stop channel in its select
\* (tunnel.go:498-526, 553-561, module.go:67).
StopEnds ==
    stopped ~> (dead # "no" \/ (~beating /\ (finder = "ended" \/ Blocked)))

\* While the tunnel runs, a relay that is in the map and within reach for good
\* gets connected, and again after its connection broke, its tries had all failed
\* or a reload brought it into the map (tunnel.go:553-601, 694).
RelaysReconnect ==
    \A r \in Peers :
        <>[](dead = "no" /\ ~stopped /\ r \in Relays /\ r \in up) => <>[](r \in linked)
================================================================================
