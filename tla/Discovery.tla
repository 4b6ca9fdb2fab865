------------------------------- MODULE Discovery -------------------------------
(***************************************************************************)
(* Who is who in the edge tunnel (libp2p/test/udp/tunnel/tunnel.go): the   *)
(* map from node names to peer ids, nodePeerMap, of one node.  The mDNS    *)
(* and the DHT loop and the handler of incoming streams learn entries from *)
(* a handshake; GetProxyStream makes one up for a name it does not know.   *)
(* All of them use the map without a lock.                                 *)
(*                                                                         *)
(* A node's key is generated from its name and nothing else, so a peer id  *)
(* stands for a name, and is written as that name.                         *)
(* There is a goroutine for each incoming stream and for each call of      *)
(* GetProxyStream, and one for each of the two loops.                      *)
(***************************************************************************)
EXTENDS Naturals

CONSTANTS
    Me,         \* the name of this node
    Peers,      \* the other nodes
    Ghosts,     \* names that are asked for and that no node has
    Handlers,   \* incoming streams that are handled at a time
    Proxies,    \* calls of GetProxyStream at a time
    MaxTasks    \* how many handshakes and lookups there are

Loops == {"mdns", "dht"}

ASSUME DiscoveryAssumption ==
    /\ Me \notin Peers \cup Ghosts /\ Peers \cap Ghosts = {} /\ MaxTasks \in Nat
    /\ Handlers \cap Loops = {} /\ Proxies \cap (Loops \cup Handlers) = {}

Names == {Me} \cup Peers \cup Ghosts
PeerIDFromString(name) == name

Tasks == Loops \cup Handlers \cup Proxies

VARIABLES
    nodePeerMap,    \* peer ids by node name
    step,           \* step[t]: where task t is
    remote,         \* remote[t]: the peer it talks to, or the name it looks up
    msg,            \* msg[t]: the node name in its message
    nodeName,       \* nodeName[t]: its local variable nodeName
    tasks           \* how many were started

discovery == <<nodePeerMap, step, remote, msg, nodeName, tasks>>

DInit ==
    /\ nodePeerMap = [n \in {} |-> Me]
    /\ step = [t \in Tasks |-> "idle"]
    /\ remote = [t \in Tasks |-> Me]
    /\ msg = [t \in Tasks |-> Me]
    /\ nodeName = [t \in Tasks |-> Me]
    /\ tasks = 0

Start(t, p, s) ==
    /\ step[t] = "idle" /\ tasks < MaxTasks
    /\ tasks' = tasks + 1
    /\ step' = [step EXCEPT ![t] = s]
    /\ remote' = [remote EXCEPT ![t] = p]

\* The task returns; what its variables held is gone.
Return(t) ==
    /\ step' = [step EXCEPT ![t] = "idle"]
    /\ remote' = [remote EXCEPT ![t] = Me]
    /\ msg' = [msg EXCEPT ![t] = Me]
    /\ nodeName' = [nodeName EXCEPT ![t] = Me]

Mapping(name, id) ==
    nodePeerMap' = [n \in DOMAIN nodePeerMap \cup {name} |->
                        IF n = name THEN id ELSE nodePeerMap[n]]

\* An error, also of making up a peer id, ends the task before it writes the map.
Fails(t) ==
    /\ step[t] \in {"connect", "await", "reply", "store"}
    /\ Return(t)
    /\ UNCHANGED <<nodePeerMap, tasks>>
-------------------------------------------------------------------------------
(* discovery: an own id is skipped; connect, CONNECT with the own name, and *)
(* the answer has the name of the peer.                                    *)

Discover(t, p) ==
    /\ Start(t, p, "connect")
    /\ UNCHANGED <<nodePeerMap, msg, nodeName>>

Ask(t) ==
    /\ step[t] = "connect"
    /\ step' = [step EXCEPT ![t] = "await"]
    /\ UNCHANGED <<nodePeerMap, remote, msg, nodeName, tasks>>

Answered(t) ==
    /\ step[t] = "await"
    /\ msg' = [msg EXCEPT ![t] = remote[t]]
    /\ step' = [step EXCEPT ![t] = "map"]
    /\ nodeName' = [nodeName EXCEPT ![t] = remote[t]]
    /\ UNCHANGED <<nodePeerMap, remote, tasks>>

Remap(t) ==
    /\ step[t] = "map"
    /\ Mapping(nodeName[t], remote[t])
    /\ Return(t)
    /\ UNCHANGED tasks
-------------------------------------------------------------------------------
(* discoveryStreamHandler: one message is used for what came and for the   *)
(* answer.                                                                 *)

Incoming(h, p) ==
    /\ Start(h, p, "reply")
    /\ msg' = [msg EXCEPT ![h] = p]
    /\ UNCHANGED <<nodePeerMap, nodeName>>

\* Seeded fault: the name is taken from the message after it was made the answer.
WriteResponseFirst(h) ==
    /\ step[h] = "reply"
    /\ nodeName' = [nodeName EXCEPT ![h] = Me]
    /\ msg' = [msg EXCEPT ![h] = Me]
    /\ step' = [step EXCEPT ![h] = "map"]
    /\ UNCHANGED <<nodePeerMap, remote, tasks>>

WriteResponse(h) ==
    /\ step[h] = "reply"
    /\ nodeName' = [nodeName EXCEPT ![h] = msg[h]]
    /\ msg' = [msg EXCEPT ![h] = Me]
    /\ step' = [step EXCEPT ![h] = "map"]
    /\ UNCHANGED <<nodePeerMap, remote, tasks>>
-------------------------------------------------------------------------------
(* GetProxyStream looks the name up, and stores an id of its own making.   *)

Lookup(x, name) ==
    /\ Start(x, name, IF name \in DOMAIN nodePeerMap THEN "idle" ELSE "store")
    /\ UNCHANGED <<nodePeerMap, msg, nodeName>>

StoreGenerated(x) ==
    /\ step[x] = "store"
    /\ Mapping(remote[x], PeerIDFromString(remote[x]))
    /\ Return(x)
    /\ UNCHANGED tasks

DiscoveryStarts ==
    \/ \E t \in Loops, p \in Peers : Discover(t, p)
    \/ \E h \in Handlers, p \in Peers : Incoming(h, p)
    \/ \E x \in Proxies, n \in Names : Lookup(x, n)
    \/ \E t \in Tasks : Fails(t)

DiscoverySteps ==
    \/ \E t \in Loops : Ask(t) \/ Answered(t)
    \/ \E t \in Tasks : Remap(t)
    \/ \E h \in Handlers : WriteResponse(h)
    \/ \E x \in Proxies : StoreGenerated(x)

\* Goroutines that are about to write the map.
Writers == {t \in Tasks : step[t] \in {"map", "store"}}
================================================================================
