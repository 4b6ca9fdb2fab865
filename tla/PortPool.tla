------------------------------- MODULE PortPool -------------------------------
(* What PortAllocator (libp2p/test/port/port_allocator.go:34-37) promises  *)
(* its callers: a port belongs to at most one of them until it is given    *)
(* back.                                                                   *)
CONSTANTS Ports, Clients

VARIABLE held   \* held[c]: the ports client c was given and has not given back

Init == held = [c \in Clients |-> {}]

Allocate(c, p) ==
    /\ \A d \in Clients : p \notin held[d]
    /\ held' = [held EXCEPT ![c] = @ \cup {p}]

Release(c, p) ==
    /\ p \in held[c]
    /\ held' = [held EXCEPT ![c] = @ \ {p}]

Next == \E c \in Clients, p \in Ports : Allocate(c, p) \/ Release(c, p)

Spec == Init /\ [][Next]_held
===============================================================================
