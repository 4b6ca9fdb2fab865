# Verification of knetwork

TLA+ models of the parts of this repository whose correctness depends on the
order in which processes, goroutines and requests happen to run, the TLC
configurations that check them on small instances, and proofs, checked by
TLAPS, that the invariants hold for every size. Paths are relative to `src/`.

    tlc -workers 2 -config MCIpamOverlap.cfg MCIpam      # one of the runs below
    tlapm IpamProofs.tla                                 # the proofs of a component

## 1. The system

knetwork is a collection of programs about cluster networks that share ideas
rather than code:

| part | where | what it does |
|---|---|---|
| vlhost CNI plugin | `cnis/vlhostcni` | gives every pod of a Kubernetes node an address, a veth pair on the node's bridge, and routes to the pods of the other nodes; its records are in etcd |
| edge tunnel | `libp2p/test/udp` | carries TCP and UDP between edge nodes over libp2p streams, with relays, discovery and reload of its configuration |
| TUN VPN | `tunvpn` | reads IP packets off a TUN device and carries them through one TCP connection |
| pipe listener | `netconn` | a `net.Listener` whose connections are in-memory pipes |
| port allocators | `libp2p/test/port` | hand out ports of a range |
| iptables adapter | `adapter` | idempotent wrappers around iptables |
| experiments | `vxlan`, `testCni`, `libp2p/test/udp/p2pudp.go` | stand-alone programs nothing else uses |

### Inventory

For every component: its state, its operations, whom it interacts with, what is
hard about it, and what makes it correct.

**vlhost CNI: address management** (`pkg/ipam/ipam.go`, `cmd/cni/main.go`,
`pkg/etcd/client.go`, `pkg/utils/ip_trans.go`).
*State*, in etcd: the pool of /24 networks not given to a node yet, the network
of each node, and for each node and network the list of addresses handed out.
*Operations*: `GetIpamService` (fills the pool, takes a network for the node),
`Gateway`, `GatewayWithMaskSegment`, `UnusedIP`, `Release.IPs`,
`AllHostNetwork`, all called by `cmdAdd`. *Interaction*: every CNI ADD is an
operating-system process of its own; the lock in `ipam.go:65-80` orders
nothing between two of them, so all they share goes through etcd, without a
transaction. *Hard*: interleaved reads and writes of etcd by ADDs of one node
and of several, a process killed between two writes, an error that is dropped,
the end of a network and of the pool. *Correct when* no two nodes own the same
network, a node keeps its network, no two pods of a node get the same address,
no pod gets a gateway's, an address is given back when the pod could not be
made, and every ADD ends.

**vlhost CNI: network of a node** (`pkg/nettools/vlhost.go`). *State*, in the
kernel: the bridge, the ends of the veth pairs, the routes to the other nodes'
networks, the FORWARD rules. *Operations*: one function that makes all the
devices, `SetOtherHostRouteToCurrentHost`, and the two iptables functions.
*Interaction*: the ADDs of a node share the bridge and the routes, and check
for each before they add it; the addresses routed to are read from the API
server's records in etcd. *Hard*: overlapping ADDs on check-then-add, an ADD
that fails or is killed half way, errors dropped by `hostNs.Do`. *Correct when*
a pod whose ADD succeeded is plugged into a bridge that is up and has its
address, and every ADD that succeeded leaves a right route to every other node.

**vlhost CNI: dispatcher** (`pkg/skel/skel.go`). *State*: how far one call has
got and the error it returns. *Operations*: reads the environment and stdin,
checks version and configuration, calls `cmdAdd`, `cmdDel` or `cmdCheck`, prints
the error and exits. *Hard*: what may be missing or bad in many combinations,
in an order that decides which error is told. *Correct when* nothing is called
with invalid input, and the error code names something that was wrong.

**Port range allocator** (`libp2p/test/port/port_allocator.go`). *State*: a
bitmap of used ports under a lock, a channel of ports ready to hand out.
*Operations*: the filler goroutine marks a free port under the lock and sends
it outside the lock, sleeping half a second when no port is free; `AllocateNext`
receives with a timeout; `Release` clears the bit. *Hard*: the window between
mark and send, timeouts against a filler that wakes up, `Release(0)` after a
timeout. *Correct when* no port has two owners, none is lost, and released
ports come back. `GetPort` (`portallocator.go`) makes a new allocator for each
call and returns its first port.

**Pipe listener** (`netconn/pkg/common.go`). *State*: a channel of ten
connections, a `done` flag, a mutex for `Close`. *Operations*: `Accept`,
`DialContext`, `Close`; `netconn/main.go` is a demonstration. *Hard*: the
check of `done` is not atomic with the select, `Close` closes the channel
before it stores `done`, several `Close`s at once, ready cases are selected at
random. *Correct when* the channel is closed once, nobody is left parked after
a close, a dial after a close fails, every `Accept` gets a connection of its
own.

**TUN VPN** (`tunvpn/main.go`, `tun/tun.go`, `util/`). *State*: two pipes of
five packets between the device's read and write loops and the TCP loops, a
byte buffer from which frames are parsed. *Operations*: `TunReceiveLoop`,
`TunWriteLoop`, `tcpSendLoop` (redials once a second), `tcpListenerLoop`,
`ParseIPFrame` and checksums. *Hard*: the slice the TCP reader fills is sent on
and filled again, the length read is dropped, frames cut in arbitrary pieces, a
sender that ends while the reader blocks on the full pipe. *Correct when* every
packet arrives at most once, whole and in order, and the loops keep running.

**Edge tunnel** (`libp2p/test/udp/tunnel/tunnel.go`, `module.go`, `util.go`,
`util/net/conn.go`). *State*: `nodePeerMap`, `relayMap`, `isRelay`, the relay
service, streams. *Operations*: mDNS/DHT discovery with its handshake,
`GetProxyStream` and its handler with a handshake and dial retries,
`runRelayFinder`, `runHeartbeat`, `runConfigWatcher` / `doReload`, the copiers
`ProxyConn` and `ProxyConnUDP`. *Interaction*: discovery and `GetProxyStream`
share `nodePeerMap`; watcher, finder, heartbeat and discovery share `relayMap`;
a proxied call is two nodes, each with two copiers over three connections in a
row. *Hard*: maps read and replaced without a lock, a relay finder that blocks
on its channel, two copiers that close both ends, one more reader of the socket
per datagram, a handshake against retries. *Correct when* a name leads to the
node of that name, the last configuration gets into force and its addresses are
not lost, map and relay service agree, a call settles, and what was sent before
one direction ends still arrives.

**iptables adapter** (`adapter/iptables/iptables.go`). *State*: the kernel's
chains. *Operations*: `New` with its chain, `InsertUnique`, `Append`, `Delete`,
`ClearChain`, each a check and then an action. *Hard*: two callers, and one that
ends half way. *Correct when* a start that succeeded has its rules in place and
a rule that should be unique is there once.

## 2. What is modelled

| module | models | proofs |
|---|---|---|
| `AddressBook` | what address management promises an ADD (abstract) | |
| `Ipam` | address management and `cmdAdd`, all ADD processes of a cluster over one etcd; implements `AddressBook` | `IpamProofs` |
| `HostNetwork` | the ADDs of one node over its kernel | `HostNetworkProofs` |
| `PortPool` | what a port allocator promises (abstract) | |
| `PortAllocator` | the range allocator; implements `PortPool` | `InProcessProofs` |
| `PipeListener` | the pipe listener | `InProcessProofs` |
| `TunPipeline` | one direction of the TUN VPN | `TunPipelineProofs` |
| `Iptutil` | the iptables wrappers, starts of the adapter and programs that undo them, over one table | `IptutilProofs` |
| `Skel` | one call of the CNI plugin, from environment to exit code | `SkelProofs` |
| `TwoWayStream` | what a proxied call promises the two applications (abstract) | |
| `ProxyConn` | three connections in a row, the four copiers of a TCP call, the applications at its ends | `ProxyCallProofs` |
| `ProxyUdp` | extends it by the UDP loop and its readers | `ProxyCallProofs` |
| `ProxyCall` | extends both by the handshake and the dialling: a whole call; implements `TwoWayStream` | `ProxyCallProofs` |
| `Discovery` | `nodePeerMap`: handshakes and lookups of one node | `EdgeTunnelProofs` |
| `EdgeTunnel` | extends it by watcher, finder and heartbeat over one `relayMap` | `EdgeTunnelProofs` |

Each has an `MC...` module with the constants of its runs.

### Ipam and AddressBook

`pool`, `hostNet` and `record` are the etcd keys. An ADD process is at `pc`;
its other variables are the locals of `cmdAdd` and of the `ipam` operations.
Each etcd request is one step, named for the operation it is part of:
`SetNet`, `SetGet`, `SetPut` are the three accesses of `Set.IPs`. Every
operation first runs `GetIpamService`, which itself looks at pool and network
and may write both, once or twice because `getHostPath` calls it two times
(`_ipam` is assigned in a closure that nobody else sees). `Call(p, n, step)`
says this: run `GetIpamService` n times and go on with `step`.

The requests of the processes in `EtcdFailsFor` may fail. A failed request ends
the ADD (`EtcdError`), except in `Release.IPs`, whose errors are logged, and in
the `Put` of `Set.IPs`, whose error is dropped (`SetPutLost`). `Crash` may end a
process between any two requests.

Abstractions: a /24 is the number of its place in the address space, an
address is `net * NetSize + last octet`; strings are split and joined as the
code does where it matters, so an empty pool is an empty sequence whose first
element is the empty network, and the address `cmdAdd` passes to `Release.IPs`
carries a mask that those in the record do not have. The network devices are
one step that succeeds or not; `HostNetwork` opens it up.

`NeverOverlap` names pairs of ADDs that the callers never run at the same
time. Nothing in the plugin forbids overlap; the runs say what holds with and
without it.

`AddressBook` is what the hosts and their ADDs are meant to see of this: a host
joins with one network for good (`Join`), and an address is entered in its book
in one step, always the one after the largest there and never struck out, for an
ADD that had none (`Give`) or for nobody when it ends like a gateway or a
network address (`KeepBack`). `Ipam` implements it with `network <- hostNet`,
`book <- record` and `given <- podIP`: of the five or six etcd requests and the
runs of `GetIpamService` for each address only the `Put` of `Set.IPs` is a step
of the book, and `Release.IPs`, which writes back what it read, is none. `Next`
lets an ADD write in the book of the network that its host has, or in the book
that the host kept before it had one: an ADD may read an empty host key when
another node empties the pool in between, and what it draws then is recorded
under the empty network (section 5).

### HostNetwork

`bridge`, `hostEnd`, `podEnd`, `routes` and `rules` are what the kernel holds;
`pc`, `want` (addresses `AllHostNetwork` read), `listed` (networks the loop saw
routes to) and `at` (place in the loop) are a process's. `cidr` is the network
each other node has: two may have the same (section 5), and then there is one
route for both. Each netlink or iptables request
is one step. The kernel refuses a second link or route of the same name: then
`LinkAdd` fails and `cmdAdd` goes on without devices (`CreateFails`,
`main.go:127-135`), `RouteAdd` fails and the ADD fails with it (`AddFails`). A
failure after the pod's end is finished is dropped by `hostNs.Do`
(`HostStepFails`). `stops` records at which step a process went wrong, for the
properties only. `NodeMoves` is a node that registers with a new address. That
another node has the network of this one is left out: what the kernel does with
a route to the network of its own bridge is not in the code.

### PortAllocator and PortPool

`used` is the bitmap, `ports` the channel, `filler` says whether the filler is
searching, about to send `found`, or asleep; `waiting` are the clients inside
`AllocateNext`. The rotating start of the search is random in the code and
arbitrary here. `Timeout` may happen whenever a client waits, also with a port
in the buffer: the select chooses at random among ready cases. `PortPool` says
only which ports are out; `Pool` in `PortAllocator` maps a client's holdings to
it, and everything the filler and the channel do is a stutter.

### PipeListener

`ch` is the channel of connections, `closed` whether the second channel, on
which both selects wait, is closed, `done` the flag, `mutex` the holder of the
lock. A select is two steps: take a case that is ready, or park; a send hands
its connection to a parked acceptor, a receive lets a parked dialer in, and a
close wakes everybody. `Close` is five steps: load, lock, check and close,
store, unlock. `late` and `panicked` are there for the properties only.

### TunPipeline

`given`, `held`, `receivePipe`, `sender`, `outgoing` belong to the host that
sends, `stream` and `broken` to the connection, the rest to the host that
receives. A frame is a sequence of cells: two for its header, the second with
the length, then its payload. TCP may cut the stream before any cell.
`tcpListenerLoop` reads into one slice for ever and sends that slice, whole,
through `WritePipe`: the pipe is the counter `refs`. The copy that
`TunWriteLoop` makes of the slice is not protected from the next read; a `Read`
that comes while it is made (`writer = "copy"`) leaves any mixture of old and
new cells in it. The parser takes what is in the buffer for what it is: zeros
never are an IPv4 header, a payload cell may pass for one and then announce any
length, a header cut off its end takes its length from what follows. A panic
ends the receiving process (`dead`): one of the parser's, or the first `Read`
after a `ListenTCP` or `AcceptTCP` that failed, which is only logged
(`AcceptFails`). `clean`, `high`, `intact` and `out` are history: which reads
there were and what was given to the raw socket, whose errors are only logged.

### Iptutil

`chains` and `rules` are the nat table; `todo[p]` is the list of operations that
process `p` has before it, `pc[p]` where it is in the first. A start runs
`adapter/main.go` (new chain, the jump to it, the rule in it); the others undo
it. Each iptables command is one step: the kernel's lock orders commands, but
not the two halves of a wrapper. The kernel refuses a chain that is there, a
rule whose chain or target is not, and to delete a chain that is referred to; a
command may fail and a process be killed at any point. `met`, `touched` and
`refused` are history: who ran at the same time as whom, who had something
removed since it began, whom the kernel refused.

### Skel

The input of a call is chosen at the start (`cmd`, `unset`, `invalid`, `stdin`,
`confVersion`, `stdoutFails`) and never changes; `step` walks through
`getCmdArgsFromEnv`, `pluginMain`, `validateConfig`, the checks of names, the
version check, the callback and `PluginMain`. Names are good, bad or missing,
and versions are numbers (0.4.0 is 40) or one of two things that are none.

### TwoWayStream, ProxyConn, ProxyUdp, ProxyCall

    client app -- client -- caller -- stream -- handler -- endpoint -- app

`line[<<c, d>>]` are the items (what one `Read` returns) under way on connection
`c` in direction `d`, at most `Room` of them before a `Write` blocks. `ended`
lines have been closed by their writer, `deaf` ones by their reader, `broken`
connections were reset. A copier reads, writes, closes its destination, closes its source,
each a step; the applications send, receive, half-close and close as they like.
`ProxyUdp` replaces the handler's copiers by the loop and one more reader per
datagram on the same socket, with its deadline. `ProxyCall` has the handshake:
`caller` is where `handleConn` with `GetProxyStream` is, `handler` where
`proxyStreamHandler` with `tryDialEndpoint` is, `answer` what was written.
`swallowed` are bytes the endpoint sent that the reader of the answer may have
taken into its buffer and dropped with it. `protocol` is "tcp", "udp" or any
other, for which the handler has no case. The stream is lost at most
`MaxBreaks` times. `quiet` is history: a direction whose other
side neither sends nor closes first.

`TwoWayStream` knows of none of this: each direction is a sequence that goes in,
a beginning of it that has come out, and whether it is shut at its start.
`Stream` in `ProxyCall` maps a call to it. What has come out of the direction
down is what the client received behind `swallowed`, so that the bytes dropped
with the reader of the answer (section 5) can be told from bytes lost later.
Over UDP, which promises no order, nothing is said of what comes out.

### Discovery, EdgeTunnel

A node's key is generated from its name alone, so a peer id is written as that
name. There is a task for each of the two discovery loops, for each stream that
`discoveryStreamHandler` has (`Handlers`) and for each call of `GetProxyStream`
(`Proxies`); `step`, `remote`, `msg` and `nodeName` are the locals of each, and
a task's write to the map is a step of its own. An entry of `relayMap` is what
it knows: `v` for the address that version `v` of the configuration gives,
`Seen` for one that the DHT has. `refreshRelayMap` looks a peer up and stores it
in two steps; a reload between them replaces the map (`stale`). The file changes
by turning a link, as a configmap does, by writing it anew (removed and made
again) or in place (`Truncate`, `WriteFile`), with the inotify watch and its
events as they follow. Written in place it may be read empty (`Empty`), which is
yaml with no modules, or half written (`Bad`), which is none; the unmarshal
error then ends the reload like a `ReadFile` that failed. `MapFault` is the
runtime's fatal error when it notices a write to a map beside another access; it
may happen whenever a goroutine is at a write to one.

## 3. What is checked

| run | instance | what it shows |
|---|---|---|
| `ipam_overlap` | 2 overlapping ADDs of one node, 2 networks of 3 addresses | `AddEnds`: the loop of `UnusedIP` ends although each ADD overwrites what the other has recorded |
| `ipam_host_serial` | 3 ADDs, two on one node, 3 networks of 3 addresses; ADDs of one node do not overlap | `UniqueOnNetwork`, `PodIPIsNoGateway`, `LeavesOnlyWhenFull`, `BookSpec` (refinement), with the two nodes racing for networks, failed device creations and kills |
| `ipam_serial` | 3 ADDs on 3 nodes, 2 networks, the requests of one of them may fail; no ADDs overlap | `EvenUpToTorn`: networks are given out in turn, the refill of the emptied pool included; an ADD that ended between the two writes of `_NetworkInit` disturbs its own host only |
| `host_network` | 2 ADDs of one node, 2 other nodes, with a network each or the same, that may move once, failing requests, kills | `BridgeMadeByOne`, `RoutesComplete`, `RouteAsRead`, `PodsGetGateway` |
| `ports` | 4 ports, channel of 2, 2 clients | `UsedIsOut`, `OnePlace`, `PoolSpec` (refinement), `BufferRefills` |
| `pipe` | channel of 1, 2 acceptors that call again and again, 3 dialers, 2 closers | `ClosedOnce`, `NobodyParkedAfterClose`, `LateDialFails`, `CloseReturns`, `CallsEndAfterClose` |
| `tun_pipeline` | 2 frames of 2 to 4 cells, a slice of 4, pipes of 1 | `SentInOrder`, `CleanDelivery`, `EveryFrameOut` |
| `iptables` | 2 starts, 1 program that removes, 1 foreign rule | `AppliedOrRemoved`, `TwiceOnlyIfMet`, with failing commands and kills |
| `skel` | every combination of environment, stdin, outcome of the callback; 3 supported versions and 2 others | `CalledOnlyIfValid`, `ErrorIsReason` |
| `proxy_call` | one call over each protocol, 2 items in all (3 over UDP, at most 2 in a direction), room for 1, 3 dials, 1 lost stream, fairness | `StreamSpec` (refinement), `WholeIfQuiet`, `OkMeansServed`, `CallSettles`, `EndsTogether`, `SocketReleased`, `CallEnds` |
| `edge_tunnel` | 1 peer, 2 handshakes or lookups out of 2 handlers, 2 calls of `GetProxyStream` and the 2 loops, 2 configurations, either mode, channel of 1, 1 round of the finder | `NamesMatchIds`, `ConfiguredAddrsKept`, `ServiceFollowsConfig` |
| `edge_fair` | 1 peer, 3 configurations, in the mode in which a node may be a relay, 2 rounds, 1 broken connection, fairness | `ConfigTakesEffect`, `StopEnds`, `RelaysReconnect` |

Every component is proved type correct (section 4), so no run checks a `TypeOK`
again. `InOrder` of `ProxyCall`, a consequence of `StreamSpec`, and
`HostNetworkStable` of `Ipam`, which `BookSpec` implies when etcd answers, are
proved and not run either; nor is `ConnectedOnce` of `PipeListener`, which says
that no connection is lost or doubled and rests mostly on what Go's channels do.

**Bounds.** A network of three addresses has its network address, its gateway
and one address for a pod, so the second pod of a node already runs over the
end of its network and into the next one; with 256 the same steps come later.
Two or three networks reach the emptied pool; in `ipam_serial` there are more
nodes than networks, so it is refilled. Two ADDs of one node are enough for
every lost update, since each of them writes a whole list; a third on another
node adds the race for networks. In `ipam_overlap` and `ipam_host_serial` etcd
answers: with a record whose `Put` got lost, `UniqueOnNetwork` is plainly false
and `UnusedIP` can go round for ever (section 5). `ipam_host_serial` takes states
for one that differ only in what an ended process had at hand (`LiveView`): no
step and no property of that run reads it. Four ports and a channel of
two leave the filler with ports searched, marked, buffered and held at once and
with none free. The listener's channel holds ten in the code and one here, with
dialers enough to fill it and to park. A node moves once (`MaxIP` is 2), so that
a route and an etcd record can disagree. Two frames and a slice of four cells
give every case of a read: part of a frame, one, two at once, a frame cut at the
end of the slice, a short one over the remains of a long one, and a frame that
ends within a header's length of the end of the slice (65533 to 65535 bytes in
the code); two frames also fill a pipe of one with another frame waiting at it.

Two starts are enough for a check and an act of two processes to cross, and the
third process removes what either has made. In `proxy_call` a room of one with
two items one behind the other makes a copier block in each place where it can;
`Together` bounds what both directions carry, so that they are taken in every
mixture but not both to their end. Two datagrams start two readers on one socket,
and with two answers one of them finds the stream full; three dials are the code's;
a second lost stream changes nothing on a call that has one. In the runs of the edge
tunnel one peer is relay, discovered node and caller at once; two tasks are two
writers of `nodePeerMap`, also two handlers or two lookups; two configurations give
a reload in the middle of a round of the finder, three one that comes in the
middle of a reload; a channel of one fills in the first round and blocks the
finder in the second. `edge_fair` leaves the handshakes out (`MaxTasks` is 0):
they share the map of relays with the rest only by reading it; and it has the one
mode (`Modes`) in which a reload switches the relay service. The proofs of
section 4 hold for any number of peers, tasks and configurations.

**Fairness.** Only steps that a goroutine or process does by itself are fair
(`Step` of a process, the filler, the parts of `Accept`, `DialContext` and
`Close` that are not waiting for somebody else, the loops of watcher, finder
and heartbeat, and the return of a call to a relay, which has a timeout, all
while the process is alive): the scheduler runs what can run. That an ADD begins,
a client calls, a request fails, a process is killed, a context is cancelled, a
packet comes, the VPN's peer can be reached, the file is changed, a connection
breaks, the tunnel is shut down or the runtime notices two accesses to a map is
never assumed. `AddEnds` assumes that etcd answers: the client has no deadline
of its own for it.

Of a proxied call only this is assumed: while some goroutine of the two nodes,
or the clock, can go on, one of them does in the end (`WF_vars(System)`), and
which one is left open. Nothing keeps the scheduler from passing over a
goroutine as long as others can go on, and `CallEnds` holds still, because every
step of `System` uses something up, an item, a try, a connection that can be
closed (`UsesUp`, proved): the nodes come to rest, and to rest means that
everybody has got as far as they can. `CallSettles`, `EndsTogether` and
`SocketReleased` are invariants and say the same of each state, "or `Moving`":
`Moving` lists what each goroutine waits for in the calls that block, and that
it has come. `CallEnds` does not speak of `Moving`, so no mistake in that list
could hide a call that hangs.

**Deadlock** is checked for the port allocator. The other systems stop: an ADD
process runs once, a call of the listener or of the proxy too, a tunnel may be
shut down.

**Mutants.** The operators marked "Seeded fault" are plausible mistakes in the
code (a dropped check, an off-by-one, an update left out). Each replaces one
definition and makes one property fail under the run's own configuration; no
specification uses them.

## 4. What is proved

For all values of the constants that the named assumption of the module
admits (`IpamAssumption`, `HostAssumption`, `PortAssumption`, ...: numbers are
positive, every process has a host, starts are not removers, configurations name
this node and its peers).

* **IpamProofs.** `TypeCorrect`. `NetworkStable`: if the ADDs of a node do not
  overlap, no node's network ever changes, even with failing requests. The
  invariant is `SerialInv`: at most one running process per node, and between
  the read of an empty host key and the write of a network the key stays empty.
  `AddressesUnique`: with the same assumption and an etcd that answers, pods
  that drew from the same network differ. `UniqueOnNetwork` is not inductive:
  `UniqueInv` adds that the network a process draws from and records under is
  its node's, that the list it is about to replace is still the one it read
  (`SeenIsRecord`), that every address handed out is still recorded (`Kept`),
  and that the one about to be recorded is nobody's (`Fresh`). `Kept` holds
  because `Release.IPs` never removes anything (`NothingReleased`).
  `NoPodIsGateway` assumes nothing about overlap or failures: the allocation
  loop skips whatever ends like a gateway or a network address, also beyond its
  own network (`GatewayMod`, arithmetic of `%` for networks of any size), and
  `GateInv` carries this from the loop to the pod. `FullBeforeLeaving`, with the
  assumptions of `AddressesUnique`: `NoGaps` says that a record holds everything
  from the first address for a pod up to its largest, `NextInLine` that the
  address drawn follows on. The premise `DrawnOnNet` of `LeavesOnlyWhenFull`
  came out of this proof: without it there is a counterexample (section 5), but
  it takes four ADDs on three nodes and one network, more than the run has.
  `ImplementsBook`, with the same assumptions: every step is a step of
  `AddressBook` or a stutter. On top of `UniqueInv`, `BookInv` says that a host
  without a network has nothing recorded under any (`NetlessEmpty`), that the
  network about to be written is one of the subnet's or none (`NetIsNew`), and
  that the address an ADD is about to record is the one after the largest in the
  list it has read (`NextFree`); `SeenIsRecord` makes that list the record.
  `AddsUseUp`, again with these assumptions: no ADD goes on for ever. `Left(p)`
  counts the requests an ADD may still make, at most `19 * NumHosts + 493`, and
  each of its steps leaves fewer while those of other ADDs leave no more. The
  loop of `UnusedIP` is what makes this hard: it goes round at most three times,
  because the addresses after a record are drawn one after the other and of any
  three in a row one is neither a gateway nor a network address (`Again`,
  `AgainStep`). What the theorem leaves to TLC is that an ADD that has not ended
  can take a step (`AddEnds`), and ADDs of one node that overlap, whose loops
  disturb each other's records. `NetworksEven`: if no ADDs of the cluster
  overlap, also with failing requests. Hosts of torn ADDs are not counted
  (`TornHosts`, and `TornKnown` says that these have their network for good); a
  torn ADD leaves the pool as it was, so the next host takes the network that it
  took. `EvenInv` says that the pool is what is left of one round: the first j
  networks are out of it (`Placed`) and have one node more than the others
  (`Level`), and a network that is being handed out has its node before it
  leaves the pool (`Handing`); `PoolKnown` is what a process in `GetIpamService`
  still knows of the pool it read.
* **HostNetworkProofs.** `OneBridgeMaker` (from `BridgeInv`, which adds that as
  long as there is no bridge nobody is past `LinkAdd` or has stopped there),
  `RoutesCorrect` and `RouteWhereRead` (from `RoutesInv`: the nodes the loop has
  passed have routes, those it added itself lead where it read, and a route
  never goes away), with failures, kills and moving nodes. `HostTyped`.
  `PodsComeUp`: a pod whose ADD went through all steps has everything that is
  its own, and the bridge is up or is being made by an ADD that goes on to that
  undisturbed, or stopped over it. `PodInv`, on top of `BridgeInv`, says what the
  two ends of the pair are at each step (`PairAt`), as long as nothing went
  wrong for the ADD.
* **InProcessProofs**, the port allocator. `PortsAccounted` and `PortsOnePlace`:
  a port is marked used exactly while it is in the filler's hands, in the channel
  or with a client, and in one place only (`PortInv` adds that the filler has a
  port in hand exactly when it is about to send it); `ImplementsPool`: under the
  mapping every step is a step of `PortPool` or a stutter. `PortsTyped`.
  `SearchFinds`: the cyclic search finds a port whenever one is free, from every
  offset (the least free one at or behind the offset, or else the least of all:
  `LeastOffset`). `RefillsUseUp`, which needs it: while the buffer is empty and a
  port can be had, the filler has at most three steps before it to the send
  (`ToRefill`), none of which can be refused, and what clients allocate, release
  or give up meanwhile sets it back nowhere.
* **InProcessProofs**, the pipe listener. `CloseCorrect`, `OneClose` and
  `LateFails`: one close of the channel, nobody parked after it, no successful
  dial after a `Close` that returned. The invariant `CloseInv` says who holds the
  mutex, that one `Close` at most has got past the check, and that `done` follows
  `closed` and lags behind it only while that `Close` is about to store it.
  `ConnectionsPlaced`: a dial has succeeded exactly when its connection is in
  the buffer or in one `Accept`'s result, once (`PlaceInv`; it rests on
  `CloseInv` because a close must not leave a parked dialer whose connection a
  later receive would let in). `ListenerTyped`. `ClosesUseUp`, from `CloseInv`:
  while a `Close` waits for the mutex some `Close` can go on, and each takes five
  steps at most. `CallsEnd`: after the close an `Accept` or `DialContext` under
  way has a ready case at its select, whatever others take from the buffer, and
  its next step is its last.
* **TunPipelineProofs**, for any sizes of frames, slice and pipes and any number
  of frames. `TunTyped`: `Typed` is stronger than `TypeOK`, since what waits in
  stream, slice and buffer are cells of frames that were given (`FrameCell`).
  `TunSentInOrder`: `SentInOrder` speaks of the concatenation of what the sender,
  the pipe and the device loop hold; `PipeInOrder` takes it apart, and
  `StreamInOrder` says that each cell of the stream follows the one before and
  the last one ends the last frame written. Together they are inductive
  (`Ordered`), and `SplitOrder` shows them equivalent to the property.
  `TunCleanDelivery`: as long as all reads were clean, the frames arrive whole,
  in order and once, and the parser does not panic. `CleanInv` follows the one
  frame that the receiving host can have between its stream and its buffer:
  where it is (`TakenOK`: in one place only, counted by `Taken`), that the slice
  and its copy are that frame with zeros behind it (`InSlice`), that the buffer
  is that frame or only zeros (`InBuffer`), and that the stream is whole frames
  from the next one on, with at most the beginning of one more where the
  connection was cut (`InStream`). The parser is followed through that frame
  and the zeros after it; what it does with anything else does not
  matter here and is not assumed. `TunFramesGoOut`: `Work` is what the
  goroutines still have to do, a sum over the frames held, queued and being
  written, the cells of the stream, the slices in the pipe and where the two
  loops of the receiving host are, weighted so that each step pays for what it
  brings about (a frame written is at most `SliceSize` cells, each of which a
  read may take alone). Every step of a goroutine lowers it, a panic included,
  and only a frame from the device raises it. While reads are clean and the
  connection stays, every frame given is out or some goroutine can go on
  (`FramesGoOut`): where none can, stream, slice and buffer are empty, and by
  `CleanInv` and `Ordered` all frames are out; no loop has ended, since only a
  broken connection or a panic ends one (`EndedBroken`).
* **IptutilProofs.** `StartsApply`, `RulesUnique`, `StartsAccepted`,
  `IptTyped`, from one invariant: `AppliedInv` says what a start that nobody
  undid has in place at each point, `MetInv` that two running processes have
  met, and `TwiceInv` and `RefusedInv` that what a process saw in its check is
  still so when it acts, if no other start met it.
* **SkelProofs.** `OnlyValidCalls`, `ErrorsAreReasons`, `OutcomeTold`,
  `SkelTyped`. `InputKept` and `Validated` say which tests each step is past,
  `Outcome` what `called`, `stdout` and the exit code say of the error.
* **ProxyCallProofs.** `SuccessServed`: when a stream is returned the handler
  has dialled and serves (`HandshakeInv`; no other answer than a success is
  taken for one, although the code only excludes a failure). `ArrivesInOrder`:
  for either direction `InOrder` follows from `Run` in `OrderInv`: what the
  receiver has, the last connection, the far copier's item, the stream, the near
  copier's item and the first connection are, read in this order, one run of
  consecutive numbers, as far as the connections between are still open; one
  that is closed stays closed (`Shuts`), and before the stream is handed over
  nothing has come through (`NotYet`). `NothingCutOff`: `WholeIfQuiet` follows
  from `WholeInv` on top of it. While nobody has ended, nothing is closed
  (`Calm`). After a quiet end the other direction is empty (`Silent`; by the
  counts of `Run`, as its receiver has all that was sent), so none of its
  copiers stops of itself, and the end comes down from copier to copier: on the
  ender's node nothing is closed before the near copier has stopped
  (`NearFirst`), on the other node nothing before the far one has (`FarNext`),
  and either stops only with nothing left to read. `CallTyped`, for any lengths
  of data, room and number of dials: no connection ever holds more than its
  room, and no endpoint is dialled too often. `ImplementsStream`: every step of
  a call is a step of `TwoWayStream` or a stutter. An application that receives
  and a reader of the answer that takes items along hand on the next items
  (`SeenReceive`, `SeenAnswer`, both by `HandsOn` from `Run` before and after
  the step), an application that sends puts one in, and everything else, all
  that the four copiers do included, is not seen but for the ends it shuts
  (`Unseen`, `SeenShut`). `CallsSettle`, from `SettleInv`: a handler that gave
  up has answered, or the stream broke, and a caller that failed has reset what
  it made. `CopiersEndTogether`, from `TwinInv`: what a copier has closed is
  what the other one of its node reads from and writes to, so neither of its
  waits can last. `SocketsReleased`, from `SocketInv`: once a datagram was
  written there is a reader, which the deadline wakes, and the two directions of
  the stream are closed together, so a reader that waits for room ends too.
  `UsesUp` is what `CallEnds` rests on: every step of `System` lowers `Work`, a
  natural number (section 3), so only finitely many follow on what the
  applications do, and the three invariants say what is true after the last.
  `Work` is a weighted sum over what each goroutine, item and timer can still
  do, with weights such that a reader that sets the deadline anew, a retry that
  counts up and an item that moves on a line all leave less than before.
* **EdgeTunnelProofs.** `EntriesMatch`: an entry leads to the peer of its name
  (`DInv` adds `TasksMatch`: what a task is about to store or answer is about
  its peer). `AddrsKept`: a relay of the loaded configuration keeps its
  address, but for a lookup that a reload tore (`MapInv`, with `FindInv`: what
  `refreshRelayMap` saw of an entry is still so unless the map was replaced).
  `ServiceFollows` (`ServiceInv`: `isRelay` is true to the service throughout,
  the service to the map except while a reload is at it). `EdgeTyped`.
  `ChangesNoticed`: when the loaded configuration is not the one in the file, the
  watcher has still to read the file, also when the change came in the middle of
  a reload or of the connecting behind it, or it ended over a removed file, or
  the process over a truncated one. `WatchInv` adds what makes this inductive: a
  file that nobody watches any more has left its removal as the last event. Each
  event costs the watcher at most four steps (`WatcherLeft`), which only a new
  change adds to, and calls to relays are all it waits for. `StopsUseUp`: after
  `Shutdown` the finder is at its end, blocked on `peerSource`, or can go on, for
  at most `4 * Capacity + 3` steps (`FinderLeft`; it asks for room only with a
  peer to send, `PeersToOffer`), and the heartbeat ends with its next step, for
  which it waits for the calls under way and no new ones.

**Only model-checked.** Liveness under fairness, `AddEnds`, `PodsGetGateway`,
`BufferRefills`, `CloseReturns`, `CallsEndAfterClose`, `EveryFrameOut`, `CallEnds`,
`ConfigTakesEffect`, `StopEnds` and `RelaysReconnect`: the prover has no rules for
fairness and `ENABLED`. Every other
property of the runs, the three refinements included, is a theorem.

For all but one of the liveness properties the theorems come as far as they can
without fairness: `AddsUseUp` for `AddEnds` (of ADDs of a node that do not
overlap), `PodsComeUp` for `PodsGetGateway`, `RefillsUseUp` for `BufferRefills`,
`ClosesUseUp` for `CloseReturns`, `CallsEnd` for `CallsEndAfterClose`,
`TunFramesGoOut` for `EveryFrameOut`, `UsesUp` with `CallsSettle`,
`CopiersEndTogether` and `SocketsReleased` for `CallEnds`, `ChangesNoticed` for
`ConfigTakesEffect` and `StopsUseUp` for `StopEnds`. Each says how far the goal
is, that every step of those who work towards it leaves less, and that nobody
else adds to it (`TunFramesGoOut`: only a new frame does, of which there are at
most `MaxFrames`; `UsesUp`: only the applications do, which send a bounded
number of items); `RefillsUseUp`, `ClosesUseUp`, `CallsEnd`, `TunFramesGoOut`
and `StopsUseUp` also that what such a step waits for has come. What is left is
that the scheduler takes it, which the code does not decide. `RelaysReconnect`
has no such theorem.

## 5. Where code and comments disagree

No run expects a violation: the models below do what the code does, and the
properties say what is left of the promise. Each of these can be seen by adding
the formula given to a run.

vlhost CNI:

* Two nodes that start together take the same network: the pool is read at
  `ipam.go:231` and written at 245 (two processes on two nodes, `NeverOverlap`
  empty: `hostNet` of the two is equal). On every third node the second of the two
  routes is refused as one that is there, and the ADD fails with it (`vlhost.go:266`)
  until it finds the route listed, as it does from the next ADD on; the pods of one
  of the two nodes are never reached from there.
* An emptied pool is filled again with networks that are in use (`ipam.go:259`;
  `ipam_serial` with hosts distinct instead of even).
* Two ADDs of one node hand out the same address (read at `ipam.go:528`,
  written at 542; `UniqueOnNetwork` in `ipam_overlap`).
* After a failed creation nothing is given back, because the address is passed
  with its mask (`main.go:131` against 130). `NothingReleased` is proved.
* `cmdAdd` goes on to success after the devices could not be made
  (`main.go:131-135`, against `main.go:137`), and a pod is plugged into a bridge
  that another ADD has not finished (`vlhost.go:22` against 428).
* A full network is left for the next one, which may be another node's
  (`ipam.go:485`, against `main.go:68`).
* The address of the bridge may be of no network at all when another node
  empties the pool between `_IPsPoolInit` and `_NetworkInit`. When this happens
  to the draw of an address, that address is 0.0.0.2; it may be recorded under
  the network the node gets since, and the node's next addresses follow it
  instead of the network's (`LeavesOnlyWhenFull` without `DrawnOnNet`).
* The `Put` of `Set.IPs` drops its error; when it is lost, `UnusedIP` looks for
  an address that is not recorded for ever (`AddEnds` with `EtcdFailsFor`).
* The result carries the network's address, not the pod's (`main.go:192`,
  against `main.go:194`); the error of printing it is ignored, so the exit code
  is 0 with nothing printed.
* The dispatcher tells an unknown command only after everything else was
  validated, and an unknown container only for unknown commands; without
  `CNI_COMMAND` it prints its about text and exits with 0.

Pipe listener and VPN:

* `DialContext` returns before its connection is accepted (`common.go:73`,
  against `common.go:69`).
* The receiving half of the VPN drops, repeats or mixes frames, or panics, as
  soon as one of the conditions of `clean` fails (`tunvpn/main.go:214-220`), for
  instance when two frames arrive in one read and a single one in the next.

Edge tunnel:

* The delimited reader of `GetProxyStream` is buffered (`tunnel.go:282`) and is
  dropped with what it has read beyond the answer, so first bytes of the
  endpoint may be missing (`swallowed`; `conn.go:28` has them read from the
  stream).
* When `ProxyConnUDP` ends its loop it closes neither stream nor socket, where
  `tunnel.go:279` says that the stream is closed elsewhere. A second without
  datagrams closes the socket, and later ones are dropped while the stream stays
  open. Socket and reader stay for good if no datagram could be written. Stream
  reads do not keep the boundaries of datagrams.
* An endpoint that was dialled is never closed when the answer cannot be written.
* The default of the message type is CONNECT, and every answer that is not
  FAILED is taken for success (`tunnel.go:309`).
* `doReload` dereferences the configuration of a file that was truncated and
  not yet written (`tunnel.go:663`, against the comment at 627). When the
  file is not there at the moment the watch is renewed, the watcher ends
  for good (`tunnel.go:621`).
* Nobody reads `peerSource`: the finder blocks for good after `MaxCandidates`
  sends (`module.go:92`), a capacity that is taken before it is adjusted
  (`module.go:130`).
* `refreshRelayMap` may store what it read before a reload over what the reload
  configured (`torn`), and the maps have no lock, so that the runtime may end
  the process (`MapFault`).
* `p2pudp.go:54` listens on "udp" with `net.Listen`, which always fails, and
  goes on with a nil listener.

## 6. What is not modelled

* `Get.AllUsedIPs`, `Release.Pool`, `SetDeviceMaster`, `SetVethMaster` and
  `AddHostRouteWithVia` have no callers. `cmdDel` and `cmdCheck` change nothing.
* The networks are assumed to be /24s cut out of a subnet whose third octet is
  the first to vary, as in the 10.244.x.0/24 of `main.go:149`.
* `GetPort` makes an allocator for each call and `randomAllocator` keeps no
  state: there is nothing between two calls to relate.
* Of the VPN, making and removing the device and its routes, which happens before
  the loops start or not at all; checksums and the fields of a frame besides its
  length, which the loops never look at; and what nobody calls (`Dial`,
  `TunIf.Write`, `util/conn.go`).
* Of the edge tunnel, how the libp2p host is made and bootstrapped, the peerstore
  and the circuit addresses in it (libp2p keeps them), and the experiment in
  `p2pudp.go` besides `handleConn`.
* `List` of the iptables adapter changes nothing; its `Adapter` is empty.
* `netconn/main.go`, `vxlan`, `testCni` are demonstrations and experiments that
  no other part uses. Vendored libraries are modelled only through what their
  callers see of them.

## 7. Plan

The order followed the weight of the behaviour: `Ipam`, `PortAllocator`,
`PipeListener`, `HostNetwork`, `TunPipeline`, then `Iptutil`, the proxied call,
the edge tunnel and the dispatcher. What could come next, most useful first:

1. What is left to do as a number that every step lowers for `RelaysReconnect`,
   and for ADDs of one node that overlap.
2. `Cluster`: `Ipam` composed with `HostNetwork`, for the routes of one node to
   the networks another took.
3. `IpFrames`: checksum and conversions as functions against reference
   definitions.
