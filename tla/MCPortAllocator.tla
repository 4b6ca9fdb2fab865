---------------------------- MODULE MCPortAllocator ----------------------------
(* A small instance of PortAllocator: twice as many ports as the channel   *)
(* holds, two clients that race for them.                                  *)
EXTENDS PortAllocator

CONSTANTS c1, c2

MCBase == 5
MCBufSize == 2
MCSize == 2 * MCBufSize
MCClients == {c1, c2}
===============================================================================
