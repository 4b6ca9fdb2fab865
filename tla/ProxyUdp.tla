-------------------------------- MODULE ProxyUdp --------------------------------
(***************************************************************************)
(* ProxyConnUDP and copyDatagram of libp2p/test/udp/util/net/conn.go on    *)
(* the handler's node.  Its connection to the endpoint is a UDP socket.    *)
(* The loop reads the stream; for every item it starts one more reader on  *)
(* the same socket, and every reader closes that socket when it ends.      *)
(***************************************************************************)
EXTENDS ProxyConn

\* One reader for every item that can come up the stream.
Readers == 1 .. Items["udp"]["up"]

VARIABLES
    loop,       \* where ProxyConnUDP is
    datagram,   \* what it has read and not written, or 0
    reader,     \* reader[r]: where the r-th copyDatagram is
    reply,      \* reply[r]: what it has read and not written, or 0
    socket,     \* "none", "open" or "closed"
    deadline    \* of the socket: "never" set, "ahead" or "passed"

udp == <<loop, datagram, reader, reply, socket, deadline>>

UInit ==
    /\ loop = "off" /\ datagram = 0
    /\ reader = [r \in Readers |-> "off"]
    /\ reply = [r \in Readers |-> 0]
    /\ socket = "none" /\ deadline = "never"

\* SetDeadline fails on a closed socket.
SetDeadline == deadline' = IF socket = "open" THEN "ahead" ELSE deadline

\* A second after it was set last.
DeadlinePasses ==
    /\ deadline = "ahead"
    /\ deadline' = "passed"
    /\ UNCHANGED <<pvars, loop, datagram, reader, reply, socket>>
-------------------------------------------------------------------------------
UpLine == <<"stream", "up">>
DownLine == <<"stream", "down">>
SocketOut == <<"endpoint", "up">>
SocketIn == <<"endpoint", "down">>

\* The loop reads; it ends at the end of the stream or with an error, and closes
\* nothing.  An error that is temporary is a turn of the loop that changes nothing.
LoopRead ==
    /\ loop = "read"
    /\ \/ /\ line[UpLine] # <<>>
          /\ datagram' = Head(line[UpLine])
          /\ Take(UpLine)
          /\ loop' = "spawn"
       \/ /\ \/ UpLine \in ended /\ line[UpLine] = <<>>
             \/ "stream" \in broken
          /\ loop' = "ended"
          /\ UNCHANGED <<line, datagram>>
    /\ UNCHANGED <<protocol, made, ended, deaf, broken, copier, item, apps, reader, reply, socket,
                   deadline>>

\* go copyDatagram
Spawn ==
    /\ loop = "spawn"
    /\ \E r \in Readers :
        /\ reader[r] = "off" /\ \A q \in 1 .. (r - 1) : reader[q] # "off"
        /\ reader' = [reader EXCEPT ![r] = "read"]
    /\ loop' = "write"
    /\ UNCHANGED <<pvars, datagram, reply, socket, deadline>>

\* A datagram is written, and may be lost on its way; or it cannot be written:
\* the socket is closed, its deadline has passed, the endpoint refused the one
\* before, or there is no route.
LoopWrite ==
    /\ loop = "write"
    /\ datagram' = 0
    /\ \/ /\ socket = "open" /\ deadline # "passed"
          /\ \/ Len(line[SocketOut]) < Room /\ Put(SocketOut, datagram)
             \/ UNCHANGED line
          /\ loop' = "arm"
       \/ loop' = "read" /\ UNCHANGED line
    /\ UNCHANGED <<protocol, made, ended, deaf, broken, copier, item, apps, reader, reply, socket,
                   deadline>>

LoopArm ==
    /\ loop = "arm"
    /\ SetDeadline
    /\ loop' = "read"
    /\ UNCHANGED <<pvars, datagram, reader, reply, socket>>
-------------------------------------------------------------------------------
(* copyDatagram.                                                           *)

Goes(r, s) == reader' = [reader EXCEPT ![r] = s]

\* A read that waits is woken when the deadline passes, and goes on waiting if it
\* has been set anew by the time the reader runs.
UdpRead(r) ==
    /\ reader[r] = "read"
    /\ \/ /\ socket = "open" /\ deadline # "passed" /\ line[SocketIn] # <<>>
          /\ reply' = [reply EXCEPT ![r] = Head(line[SocketIn])]
          /\ Take(SocketIn)
          /\ Goes(r, "arm")
       \/ /\ socket = "closed" \/ deadline = "passed"
          /\ Goes(r, "close")
          /\ UNCHANGED <<line, reply>>
    /\ UNCHANGED <<protocol, made, ended, deaf, broken, copier, item, apps, loop, datagram, socket,
                   deadline>>

\* The endpoint refused a datagram; one call on the socket gets to know.
UdpRefused(r) ==
    /\ reader[r] = "read"
    /\ socket = "open" /\ (deadline # "never" \/ loop = "arm")
    /\ Goes(r, "close")
    /\ UNCHANGED <<pvars, loop, datagram, reply, socket, deadline>>

UdpArm(r) ==
    /\ reader[r] = "arm"
    /\ SetDeadline
    /\ Goes(r, IF socket = "open" THEN "write" ELSE "close")
    /\ UNCHANGED <<pvars, loop, datagram, reply, socket>>

UdpWrite(r) ==
    /\ reader[r] = "write"
    /\ reply' = [reply EXCEPT ![r] = 0]
    /\ \/ /\ DownLine \notin deaf /\ "stream" \notin broken
          /\ Len(line[DownLine]) < Room
          /\ Put(DownLine, reply[r])
          /\ Goes(r, "read")
       \/ /\ DownLine \in deaf \/ "stream" \in broken
          /\ \/ Goes(r, "read")
             \/ Goes(r, "close")
          /\ UNCHANGED line
    /\ UNCHANGED <<protocol, made, ended, deaf, broken, copier, item, apps, loop, datagram, socket,
                   deadline>>

\* Seeded fault: copyDatagram does not close the socket.
UdpKeepsOpen(r) ==
    /\ reader[r] = "close"
    /\ Goes(r, "done")
    /\ UNCHANGED <<pvars, loop, datagram, reply, socket, deadline>>

UdpClose(r) ==
    /\ reader[r] = "close"
    /\ socket' = "closed"
    /\ Goes(r, "done")
    /\ UNCHANGED <<pvars, loop, datagram, reply, deadline>>

ProxyConnUDP == LoopRead \/ Spawn \/ LoopWrite \/ LoopArm
CopyDatagram(r) == UdpRead(r) \/ UdpArm(r) \/ UdpWrite(r) \/ UdpClose(r)
================================================================================
