------------------------------- MODULE ProxyCall -------------------------------
(***************************************************************************)
(* One proxied call: GetProxyStream, proxyStreamHandler and tryDialEndpoint *)
(* of libp2p/test/udp/tunnel/tunnel.go, started by handleConn of           *)
(* libp2p/test/udp/p2pudp.go, with the copiers they start on both nodes.   *)
(***************************************************************************)
EXTENDS ProxyUdp, SequencesExt

CONSTANT DailRetryTime   \* how often an endpoint is dialled

ASSUME CallAssumption == DailRetryTime \in Nat

VARIABLES
    caller,     \* where handleConn with GetProxyStream is
    handler,    \* where proxyStreamHandler with tryDialEndpoint is
    tries,      \* how often it has dialled in vain, while it dials
    request,    \* CONNECT has been written
    answer,     \* the answer that has been written, or "none"
    swallowed   \* items of the endpoint that the reader of the answer took along

call == <<caller, handler, tries, request, answer, swallowed>>
vars == <<pvars, udp, call>>

Init ==
    /\ PInit /\ UInit
    /\ caller = "open" /\ handler = "off" /\ tries = 0
    /\ request = FALSE /\ answer = "none" /\ swallowed = <<>>
-------------------------------------------------------------------------------
(* GetProxyStream and handleConn.  Every error returns to handleConn, which *)
(* closes the client's connection.                                         *)

Fail ==
    /\ caller' = "failed"
    /\ CloseEnd("client", "up")
    /\ UNCHANGED <<copier, line>>

\* stream.Reset, and the error is returned.
Reset == broken' = broken \cup {"stream"} /\ Fail

NewStream ==
    /\ caller = "open"
    /\ \/ /\ made' = made \cup {"stream"}
          /\ caller' = "ask"
          /\ UNCHANGED <<ended, deaf, broken, copier, line>>
       \/ Fail /\ UNCHANGED <<made, broken>>
    /\ UNCHANGED <<protocol, item, apps, udp, handler, tries, request, answer, swallowed>>

WriteConnect ==
    /\ caller = "ask"
    /\ \/ /\ request' = ("stream" \notin broken)
          /\ caller' = "await"
          /\ UNCHANGED <<ended, deaf, broken, copier, line>>
       \/ "stream" \in broken /\ Reset /\ UNCHANGED request
    /\ UNCHANGED <<protocol, made, item, apps, udp, handler, tries, answer, swallowed>>

\* Seeded fault: the type of the answer is not looked at.
ReadAnswerAny ==
    /\ caller = "await" /\ answer # "none"
    /\ caller' = "ok"
    /\ copier' = Started("caller")
    /\ UNCHANGED <<conns, item, apps, udp, handler, tries, request, answer, swallowed>>

\* Seeded fault: a failed call leaves the stream as it is.
ReadAnswerNoReset ==
    /\ caller = "await" /\ answer # "none"
    /\ \/ /\ answer = "SUCCESS"
          /\ caller' = "ok"
          /\ copier' = Started("caller")
          /\ UNCHANGED conns
       \/ answer = "FAILED" /\ Fail /\ UNCHANGED <<made, broken>>
    /\ UNCHANGED <<protocol, item, apps, udp, handler, tries, request, answer, swallowed>>

\* The delimited reader reads through a bufio.Reader that is thrown away with
\* it: items that have arrived behind the answer may be in it.
ReadAnswer ==
    /\ caller = "await" /\ answer # "none"
    /\ \/ /\ answer # "FAILED"
          /\ \E n \in 0 .. Len(line[DownLine]) :
                /\ swallowed' = SubSeq(line[DownLine], 1, n)
                /\ line' = [line EXCEPT ![DownLine] = SubSeq(@, n + 1, Len(@))]
          /\ caller' = "ok"
          /\ copier' = Started("caller")
          /\ UNCHANGED <<ended, deaf, broken>>
       \/ answer = "FAILED" /\ Reset /\ UNCHANGED swallowed
    /\ UNCHANGED <<protocol, made, item, apps, udp, handler, tries, request, answer>>

ReadAnswerFails ==
    /\ caller = "await" /\ "stream" \in broken
    /\ Reset
    /\ UNCHANGED <<protocol, made, item, apps, udp, handler, tries, request, answer, swallowed>>
-------------------------------------------------------------------------------
(* proxyStreamHandler.                                                     *)

Handle ==
    /\ handler = "off" /\ "stream" \in made
    /\ handler' = "read"
    /\ UNCHANGED <<pvars, udp, caller, tries, request, answer, swallowed>>

\* The only one who writes a request is GetProxyStream, and it writes a CONNECT:
\* the reset for a message of another type is never taken.
ReadConnect ==
    /\ handler = "read"
    /\ \/ request /\ handler' = "dial"
       \/ "stream" \in broken /\ handler' = "returned"
    /\ UNCHANGED <<pvars, udp, caller, tries, request, answer, swallowed>>

Dialled ==
    /\ made' = made \cup {"endpoint"}
    /\ socket' = IF protocol = "udp" THEN "open" ELSE socket
    /\ handler' = "answer"

\* Seeded fault: when the tries are used up, the dialling starts over.
DialForever ==
    /\ handler = "dial"
    /\ \/ protocol # "other" /\ tries < DailRetryTime /\ Dialled /\ tries' = 0
       \/ /\ protocol # "other"
          /\ tries' = IF tries < DailRetryTime THEN tries + 1 ELSE 0
          /\ UNCHANGED <<made, socket, handler>>
       \/ /\ protocol = "other"
          /\ handler' = "refuse" /\ tries' = 0
          /\ UNCHANGED <<made, socket>>
    /\ UNCHANGED <<protocol, line, ended, deaf, broken, copier, item, apps, loop, datagram, reader, reply,
                   deadline, caller, request, answer, swallowed>>

\* tryDialEndpoint
Dial ==
    /\ handler = "dial"
    /\ \/ protocol # "other" /\ tries < DailRetryTime /\ Dialled /\ tries' = 0
       \/ /\ protocol # "other" /\ tries < DailRetryTime
          /\ tries' = tries + 1
          /\ UNCHANGED <<made, socket, handler>>
       \/ /\ protocol = "other" \/ tries = DailRetryTime
          /\ handler' = "refuse" /\ tries' = 0
          /\ UNCHANGED <<made, socket>>
    /\ UNCHANGED <<protocol, line, ended, deaf, broken, copier, item, apps, loop, datagram, reader, reply,
                   deadline, caller, request, answer, swallowed>>

\* A write to a stream that broke may be accepted.
WriteFailed ==
    /\ handler = "refuse"
    /\ \/ "stream" \notin broken /\ answer' = "FAILED"
       \/ "stream" \in broken /\ UNCHANGED answer
    /\ handler' = "returned"
    /\ UNCHANGED <<pvars, udp, caller, tries, request, swallowed>>

WriteSuccess ==
    /\ handler = "answer"
    /\ \/ /\ answer' = IF "stream" \in broken THEN answer ELSE "SUCCESS"
          /\ handler' = "serve"
          /\ IF protocol = "tcp"
             THEN copier' = Started("handler") /\ UNCHANGED loop
             ELSE loop' = "read" /\ UNCHANGED copier
       \/ /\ "stream" \in broken
          /\ handler' = "returned"
          /\ UNCHANGED <<answer, copier, loop>>
    /\ UNCHANGED <<conns, item, apps, datagram, reader, reply, socket, deadline, caller,
                   tries, request, swallowed>>
-------------------------------------------------------------------------------
(* The applications.  A UDP endpoint answers what it has received, nobody   *)
(* notices when it is gone, and nothing reaches a socket that is closed.   *)

Endpoint(d) == protocol = "udp" => Origin(d) = "client"

Apps(d) ==
    \/ Endpoint(d) /\ AppSends(d) /\ UNCHANGED <<udp, call>>
    \/ ~Endpoint(d) /\ got["up"] # <<>> /\ socket = "open" /\ AppSends(d) /\ UNCHANGED <<udp, call>>
    \/ AppReceives(d) /\ UNCHANGED <<udp, call>>
    \/ Endpoint(d) /\ AppEnds(d) /\ UNCHANGED <<udp, call>>

\* The connection between the nodes is lost.
LoseStream == Break("stream") /\ UNCHANGED <<udp, call>>

GetProxyStream == NewStream \/ WriteConnect \/ ReadAnswer \/ ReadAnswerFails
ProxyStreamHandler == Handle \/ ReadConnect \/ Dial \/ WriteFailed \/ WriteSuccess
Copy(k) == CopyBytes(k) /\ UNCHANGED <<udp, call>>
UdpLoop == ProxyConnUDP /\ UNCHANGED call
UdpReader(r) == CopyDatagram(r) /\ UNCHANGED call

\* What the two processes and the clock do.
System ==
    \/ GetProxyStream \/ ProxyStreamHandler
    \/ \E k \in Copiers : Copy(k)
    \/ UdpLoop
    \/ \E r \in Readers : UdpReader(r)
    \/ DeadlinePasses /\ UNCHANGED call

Next ==
    \/ System
    \/ \E r \in Readers : UdpRefused(r) /\ UNCHANGED call
    \/ \E d \in Dirs : Apps(d)
    \/ LoseStream

Spec == Init /\ [][Next]_vars

\* Some goroutine that can go on does, or the clock; which one is left open.
FairSpec == Spec /\ WF_vars(System)

-------------------------------------------------------------------------------
(* Properties.                                                             *)

TypeOK ==
    /\ made \subseteq Conns /\ broken \subseteq Conns
    /\ line \in [Lines -> Seq(Nat)] /\ \A l \in Lines : Len(line[l]) <= Room
    /\ ended \subseteq Lines /\ deaf \subseteq Lines
    /\ copier \in [Copiers -> {"off", "read", "write", "closeDest", "closeSrc", "done"}]
    /\ item \in [Copiers -> Nat]
    /\ sent \in [Dirs -> Seq(Nat)] /\ got \in [Dirs -> Seq(Nat)]
    /\ quiet \in [Dirs -> BOOLEAN]
    /\ loop \in {"off", "read", "spawn", "write", "arm", "ended"} /\ datagram \in Nat
    /\ reader \in [Readers -> {"off", "read", "arm", "write", "close", "done"}]
    /\ reply \in [Readers -> Nat]
    /\ socket \in {"none", "open", "closed"} /\ deadline \in {"never", "ahead", "passed"}
    /\ protocol \in Protocols
    /\ caller \in {"open", "ask", "await", "ok", "failed"}
    /\ handler \in {"off", "read", "dial", "refuse", "answer", "serve", "returned"}
    /\ tries \in 0 .. DailRetryTime
    /\ request \in BOOLEAN /\ answer \in {"none", "SUCCESS", "FAILED"}
    /\ swallowed \in Seq(Nat)

\* What has come out of direction d; the reader of the answer takes the first of
\* it along.
Received(d) == IF d = "down" THEN swallowed \o got[d] ELSE got[d]

\* Over TCP, whatever breaks, blocks or closes: what the endpoint has received is
\* the beginning of what the client sent; what the client has received, behind
\* what the reader of the answer took with it, is the beginning of what the
\* endpoint sent (copyBytes on both nodes, tunnel.go:282).
InOrder == protocol = "tcp" => \A d \in Dirs : IsPrefix(Received(d), sent[d])

ItemNumbers == UNION {1 .. Items[p][d] : p \in Protocols, d \in Dirs}

\* A call as one stream between the applications.  What comes out of it over UDP
\* is not told.
Stream == INSTANCE TwoWayStream WITH
    Item <- ItemNumbers,
    received <- [d \in Dirs |-> IF protocol = "tcp" THEN Received(d) ELSE <<>>],
    shut <- {d \in Dirs : <<Origin(d), d>> \in ended \cup deaf}

\* The three connections in a row with their four copiers behave like one stream
\* for the applications at both ends: every step of the call hands on the next
\* items of one direction, takes one more in, shuts a direction, or is not seen
\* (conn.go:29-55, tunnel.go:282).
StreamSpec == Stream!Spec

\* Each copier closes both connections when its direction ends (conn.go:49-54).
\* That cuts nothing off when one application ends first, has received all that
\* the other sent, and the other neither sends nor ends any more: all that the
\* first has sent is received before the end is.
WholeIfQuiet ==
    protocol = "tcp" /\ AllDone => \A d \in Dirs :
        quiet[d] /\ <<Origin(d), d>> \in ended /\ line[<<Target(d), d>>] = <<>>
            => Received(d) = sent[d]

\* GetProxyStream returns a stream only for an endpoint that the handler has
\* dialled and serves, although it takes every answer but FAILED for success
\* (tunnel.go:309).
OkMeansServed == caller = "ok" => "endpoint" \in made /\ handler = "serve"

-------------------------------------------------------------------------------
(* Progress.  Every step of the system uses something up: an item, a try,  *)
(* a connection that can be closed.  So when goroutines are scheduled and  *)
(* the clock runs it comes to rest whatever the applications do, and what  *)
(* must happen in the end has to have happened unless it is still moving.  *)

\* What each goroutine waits for in the calls that block, and when it has it.
CallerMoves ==
    \/ caller \in {"open", "ask"}
    \/ caller = "await" /\ (answer # "none" \/ "stream" \in broken)

HandlerMoves ==
    \/ handler = "off" /\ "stream" \in made
    \/ handler = "read" /\ (request \/ "stream" \in broken)
    \/ handler \in {"dial", "refuse", "answer"}

CopierMoves(k) ==
    \/ /\ copier[k] = "read"
       /\ line[Src(k)] # <<>> \/ Src(k) \in ended \cup deaf \/ Src(k)[1] \in broken
    \/ /\ copier[k] = "write"
       /\ Len(line[Dest(k)]) < Room \/ Dest(k) \in ended \cup deaf \/ Dest(k)[1] \in broken
    \/ copier[k] \in {"closeDest", "closeSrc"}

LoopMoves ==
    \/ loop = "read" /\ (line[UpLine] # <<>> \/ UpLine \in ended \/ "stream" \in broken)
    \/ loop = "spawn" /\ \E r \in Readers : reader[r] = "off"
    \/ loop \in {"write", "arm"}

ReaderMoves(r) ==
    \/ /\ reader[r] = "read"
       /\ (socket = "open" /\ line[SocketIn] # <<>>) \/ socket = "closed" \/ deadline = "passed"
    \/ reader[r] = "write" /\ (Len(line[DownLine]) < Room \/ DownLine \in deaf \/ "stream" \in broken)
    \/ reader[r] \in {"arm", "close"}

Moving ==
    \/ CallerMoves \/ HandlerMoves
    \/ \E k \in Copiers : CopierMoves(k)
    \/ LoopMoves \/ (\E r \in Readers : ReaderMoves(r)) \/ deadline = "ahead"

\* A call does not hang, with no deadline on either side: it comes back with a
\* stream that the handler serves (or that broke), or with an error; and a
\* handler that gives up closes nothing, but the Reset of its caller ends the
\* stream (tunnel.go:290-314, 323-360, 385-414).
CallSettles ==
    \/ /\ caller \in {"ok", "failed"}
       /\ "stream" \in made => handler \in {"serve", "returned"}
       /\ handler = "returned" => "stream" \in broken
    \/ Moving

\* As soon as one copier of a node ends, both do, so that ProxyConn returns, and
\* the deferred Close after it is reached; even when the other one is blocked in
\* a Write to a peer that does not read (conn.go:36, 49-54).
EndsTogether ==
    \/ \A n \in Nodes :
          (\E d \in Dirs : Past(<<n, d>>)) => \A d \in Dirs : copier[<<n, d>>] = "done"
    \/ Moving

\* A UDP socket that a datagram was written to does not outlive its stream,
\* though the loop closes nothing: the deadline wakes the readers, the first of
\* them closes it, and none is left, not even one that waited for room in the
\* stream, since the caller closes both directions at once (conn.go:57-113).
SocketReleased ==
    \/ loop = "ended" /\ deadline # "never" =>
          socket = "closed" /\ \A r \in Readers : reader[r] \in {"off", "done"}
    \/ Moving

\* Whatever goroutines, clock and applications do, and whenever the connection
\* between the nodes is lost, there is a moment again when everything that has to
\* come to an end has: the call has come back, the handler serves or has given up
\* and the stream is gone, a node of which one copier ended has none left, and the
\* socket of a stream that ended is closed and its readers are gone.  No round of
\* retries, deadlines set anew or copiers that pass each other items goes on for
\* ever (conn.go:36-55, 80-113, tunnel.go:290-314, 385-414).
CallEnds == []<>
    /\ caller \in {"ok", "failed"}
    /\ "stream" \in made => handler \in {"serve", "returned"}
    /\ handler = "returned" => "stream" \in broken
    /\ \A n \in Nodes : (\E d \in Dirs : Past(<<n, d>>)) => \A d \in Dirs : copier[<<n, d>>] = "done"
    /\ loop = "ended" /\ deadline # "never" =>
          socket = "closed" /\ \A r \in Readers : reader[r] \in {"off", "done"}
================================================================================
