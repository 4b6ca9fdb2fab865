------------------------------ MODULE MCProxyCall ------------------------------
(* A small instance of ProxyCall.  Over UDP there may be two answers, so    *)
(* that a reader can find the stream full, or two datagrams and so two     *)
(* readers; over TCP two items one behind the other in either direction.   *)
EXTENDS ProxyCall

MCItems == [p \in Protocols |-> [d \in Dirs |-> 2]]
MCTogether == [p \in Protocols |-> IF p = "udp" THEN 3 ELSE 2]
================================================================================
