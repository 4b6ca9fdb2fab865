--------------------------- MODULE ProxyCallProofs ---------------------------
(* Proofs about ProxyCall, with ProxyConn and ProxyUdp in it, for any number *)
(* of items, any room in the connections and any number of tries.            *)
EXTENDS ProxyCall, FiniteSetTheorems, TLAPS

-------------------------------------------------------------------------------
(* The handshake.                                                          *)

\* A success is written by a handler that has made its connection and goes on to
\* serve the stream, and no other answer makes the caller return a stream.
HandshakeInv ==
    /\ answer \in {"none", "SUCCESS", "FAILED"}
    /\ answer = "SUCCESS" => handler = "serve"
    /\ handler \in {"answer", "serve"} => "endpoint" \in made
    /\ caller = "ok" => answer = "SUCCESS"

LEMMA CallerKeeps == HandshakeInv /\ GetProxyStream => HandshakeInv'
<1> SUFFICES ASSUME HandshakeInv, GetProxyStream PROVE HandshakeInv'
  OBVIOUS
<1>1. UNCHANGED <<handler, answer>> /\ made \subseteq made'
  BY DEF GetProxyStream, NewStream, WriteConnect, ReadAnswer, ReadAnswerFails, Reset, Fail
<1>2. caller' = "ok" => caller = "ok" \/ answer \notin {"none", "FAILED"}
  BY DEF GetProxyStream, NewStream, WriteConnect, ReadAnswer, ReadAnswerFails, Reset, Fail
<1> QED
  BY <1>1, <1>2 DEF HandshakeInv

LEMMA HandlerKeeps == HandshakeInv /\ ProxyStreamHandler => HandshakeInv'
<1> SUFFICES ASSUME HandshakeInv, ProxyStreamHandler PROVE HandshakeInv'
  OBVIOUS
<1>1. CASE Handle \/ ReadConnect \/ WriteFailed
  BY <1>1 DEF Handle, ReadConnect, WriteFailed, pvars, conns, HandshakeInv
<1>2. CASE Dial
  BY <1>2 DEF Dial, Dialled, HandshakeInv
<1>3. CASE WriteSuccess
  BY <1>3 DEF WriteSuccess, conns, HandshakeInv
<1> QED
  BY <1>1, <1>2, <1>3 DEF ProxyStreamHandler

\* Nothing else changes an answer, a place in the handshake or a connection made.
LEMMA OthersLeaveCall ==
    ASSUME [Next]_vars, ~GetProxyStream, ~ProxyStreamHandler
    PROVE  UNCHANGED call /\ made' = made
<1>1. ASSUME NEW k \in Copiers, Copy(k) PROVE UNCHANGED call /\ made' = made
  BY <1>1 DEF Copy, CopyBytes, Read, Write, CloseDest, CloseSrc
<1>2. CASE UdpLoop
  BY <1>2 DEF UdpLoop, ProxyConnUDP, LoopRead, Spawn, LoopWrite, LoopArm, pvars, conns
<1>3. ASSUME NEW r \in Readers, UdpReader(r) \/ (UdpRefused(r) /\ UNCHANGED call)
      PROVE  UNCHANGED call /\ made' = made
  BY <1>3 DEF UdpReader, CopyDatagram, UdpRead, UdpArm, UdpWrite, UdpClose, UdpRefused, pvars, conns
<1>4. CASE DeadlinePasses /\ UNCHANGED call
  BY <1>4 DEF DeadlinePasses, pvars, conns
<1>5. ASSUME NEW d \in Dirs, Apps(d) PROVE UNCHANGED call /\ made' = made
  BY <1>5 DEF Apps, AppSends, AppReceives, AppEnds
<1>6. CASE LoseStream
  BY <1>6 DEF LoseStream, Break
<1>7. CASE UNCHANGED vars
  BY <1>7 DEF vars, pvars, conns
<1> QED
  BY <1>1, <1>2, <1>3, <1>4, <1>5, <1>6, <1>7 DEF Next, System

LEMMA HandshakeKept == HandshakeInv /\ [Next]_vars => HandshakeInv'
<1> SUFFICES ASSUME HandshakeInv, [Next]_vars, ~GetProxyStream, ~ProxyStreamHandler
             PROVE  HandshakeInv'
  BY CallerKeeps, HandlerKeeps
<1>1. UNCHANGED <<answer, handler, caller, made>>
  BY OthersLeaveCall DEF call
<1> QED
  BY <1>1 DEF HandshakeInv

\* GetProxyStream never returns a stream that nobody serves, however often the
\* endpoint is dialled, whatever breaks, and whatever the copiers do meanwhile.
THEOREM SuccessServed == Spec => []OkMeansServed
<1>1. Init => HandshakeInv
  BY DEF Init, HandshakeInv
<1>2. HandshakeInv => OkMeansServed
  BY DEF HandshakeInv, OkMeansServed
<1> QED
  BY <1>1, <1>2, HandshakeKept, PTL DEF Spec

-------------------------------------------------------------------------------
(* Types.  A line never holds more than it has room for.                   *)

LineOK == line \in [Lines -> Seq(Nat)] /\ \A l \in Lines : Len(line[l]) <= Room

LEMMA PutTyped ==
    ASSUME LineOK, NEW l \in Lines, NEW x \in Nat, Len(line[l]) < Room, Put(l, x)
    PROVE  LineOK'
<1>1. Append(line[l], x) \in Seq(Nat) /\ Len(Append(line[l], x)) = Len(line[l]) + 1
      /\ Len(line[l]) \in Nat
  BY DEF LineOK
<1>2. Len(Append(line[l], x)) <= Room
  BY <1>1, ProxyAssumption
<1> QED
  BY <1>1, <1>2 DEF LineOK, Put

LEMMA TakeTyped ==
    ASSUME LineOK, NEW l \in Lines, line[l] # <<>>, Take(l)
    PROVE  LineOK' /\ Head(line[l]) \in Nat
<1>1. Tail(line[l]) \in Seq(Nat) /\ Len(Tail(line[l])) = Len(line[l]) - 1
      /\ Len(line[l]) \in Nat /\ Len(line[l]) <= Room /\ Head(line[l]) \in Nat
  BY DEF LineOK
<1>2. Len(Tail(line[l])) <= Room
  BY <1>1, ProxyAssumption
<1> QED
  BY <1>1, <1>2 DEF LineOK, Take

LEMMA SplitTyped ==
    ASSUME LineOK, NEW l \in Lines, NEW n \in 0 .. Len(line[l]),
           line' = [line EXCEPT ![l] = SubSeq(@, n + 1, Len(@))]
    PROVE  LineOK' /\ SubSeq(line[l], 1, n) \in Seq(Nat)
<1> DEFINE s == line[l]
           front == SubSeq(s, 1, n)
           back == SubSeq(s, n + 1, Len(s))
<1>1. s \in Seq(Nat) /\ Len(s) \in Nat /\ Len(s) <= Room /\ n \in Nat /\ n <= Len(s)
  BY DEF LineOK
<1> HIDE DEF s
<1>2. front \in Seq(Nat) /\ back \in Seq(Nat) /\ Len(back) = Len(s) - n
  BY <1>1
<1> HIDE DEF back
<1>3. Len(back) <= Room
  BY <1>1, <1>2, ProxyAssumption
<1>4. line' = [line EXCEPT ![l] = back]
  BY DEF back, s
<1> QED
  BY <1>2, <1>3, <1>4 DEF LineOK, s

\* The lines that the steps name.
LEMMA LinesAre ==
    /\ \A k \in Copiers : Src(k) \in Lines /\ Dest(k) \in Lines /\ Dest(k)[1] \in Conns
           /\ Src(k)[1] \in Conns /\ k[2] \in Dirs
    /\ \A d \in Dirs : <<Origin(d), d>> \in Lines /\ <<Target(d), d>> \in Lines
    /\ \A d \in Dirs : Other(d) \in Dirs /\ Origin(d) \in Conns
    /\ {UpLine, DownLine, SocketOut, SocketIn} \subseteq Lines
    /\ \A c \in Conns, d \in Dirs : <<c, d>> \in Lines
  BY DEF Copiers, Nodes, Dirs, Lines, Conns, Src, Dest, In, Out, Other, Origin, Target,
     UpLine, DownLine, SocketOut, SocketIn

ConnsOK == made \subseteq Conns /\ broken \subseteq Conns /\ protocol \in Protocols
LinesOK == ended \subseteq Lines /\ deaf \subseteq Lines
CopiersOK ==
    /\ copier \in [Copiers -> {"off", "read", "write", "closeDest", "closeSrc", "done"}]
    /\ item \in [Copiers -> Nat]
AppsOK ==
    /\ sent \in [Dirs -> Seq(Nat)] /\ got \in [Dirs -> Seq(Nat)]
    /\ quiet \in [Dirs -> BOOLEAN]
UdpOK ==
    /\ loop \in {"off", "read", "spawn", "write", "arm", "ended"} /\ datagram \in Nat
    /\ reader \in [Readers -> {"off", "read", "arm", "write", "close", "done"}]
    /\ reply \in [Readers -> Nat]
    /\ socket \in {"none", "open", "closed"} /\ deadline \in {"never", "ahead", "passed"}
CallOK ==
    /\ caller \in {"open", "ask", "await", "ok", "failed"}
    /\ handler \in {"off", "read", "dial", "refuse", "answer", "serve", "returned"}
    /\ tries \in 0 .. DailRetryTime
    /\ request \in BOOLEAN /\ answer \in {"none", "SUCCESS", "FAILED"}
    /\ swallowed \in Seq(Nat)

Typed == LineOK /\ ConnsOK /\ LinesOK /\ CopiersOK /\ AppsOK /\ UdpOK /\ CallOK

LEMMA CloseEndTyped ==
    ASSUME LinesOK, NEW c \in Conns, NEW d \in Dirs, CloseEnd(c, d)
    PROVE  LinesOK'
<1>1. <<c, d>> \in Lines /\ <<c, Other(d)>> \in Lines
  BY DEF Lines, Dirs, Other
<1> QED
  BY <1>1 DEF LinesOK, CloseEnd

LEMMA CallerTyped == Typed /\ GetProxyStream => Typed'
<1> SUFFICES ASSUME Typed, GetProxyStream PROVE Typed'
  OBVIOUS
<1> USE DEF Typed
<1>0. "client" \in Conns /\ "stream" \in Conns /\ "up" \in Dirs /\ DownLine \in Lines
  BY LinesAre DEF Conns, Dirs
<1>1. ASSUME Fail PROVE LineOK' /\ LinesOK' /\ copier' = copier /\ caller' = "failed"
  BY <1>0, <1>1, CloseEndTyped DEF Fail, LineOK
<1>2. \A n \in Nodes : Started(n) \in
          [Copiers -> {"off", "read", "write", "closeDest", "closeSrc", "done"}]
  BY DEF Started, CopiersOK
<1>3. CASE NewStream
  BY <1>0, <1>1, <1>3 DEF NewStream, LineOK, ConnsOK, LinesOK, CopiersOK, AppsOK, UdpOK,
     CallOK, apps, udp
<1>4. CASE WriteConnect
  <2>1. UNCHANGED <<protocol, made, item, apps, udp, handler, tries, answer, swallowed>>
    BY <1>4 DEF WriteConnect
  <2>2. ASSUME Reset, UNCHANGED request PROVE Typed'
    BY <1>0, <1>1, <2>1, <2>2 DEF Reset, ConnsOK, LinesOK, CopiersOK, AppsOK, UdpOK, CallOK,
       apps, udp
  <2>3. ASSUME request' = ("stream" \notin broken), caller' = "await",
               UNCHANGED <<ended, deaf, broken, copier, line>>
        PROVE  Typed'
    <3>1. request' \in BOOLEAN
      BY <2>3
    <3> QED
      BY <2>1, <2>3, <3>1 DEF LineOK, ConnsOK, LinesOK, CopiersOK, AppsOK, UdpOK, CallOK, apps,
         udp
  <2> QED
    BY <1>4, <2>2, <2>3 DEF WriteConnect
<1>5. CASE ReadAnswerFails
  BY <1>0, <1>1, <1>5 DEF ReadAnswerFails, Reset, LineOK, ConnsOK, LinesOK, CopiersOK, AppsOK,
     UdpOK, CallOK, apps, udp
<1>6. CASE ReadAnswer
  <2>1. UNCHANGED <<protocol, made, item, apps, udp, handler, tries, request, answer>>
    BY <1>6 DEF ReadAnswer
  <2>2. ASSUME answer = "FAILED", Reset, UNCHANGED swallowed PROVE Typed'
    BY <1>0, <1>1, <2>1, <2>2 DEF Reset, ConnsOK, LinesOK, CopiersOK, AppsOK, UdpOK, CallOK,
       apps, udp
  <2>3. ASSUME NEW n \in 0 .. Len(line[DownLine]),
               swallowed' = SubSeq(line[DownLine], 1, n),
               line' = [line EXCEPT ![DownLine] = SubSeq(@, n + 1, Len(@))],
               caller' = "ok", copier' = Started("caller"), UNCHANGED <<ended, deaf, broken>>
        PROVE  Typed'
    <3>1. LineOK' /\ swallowed' \in Seq(Nat)
      BY <1>0, <2>3, SplitTyped
    <3>2. CopiersOK'
      BY <1>2, <2>1, <2>3 DEF CopiersOK, Nodes
    <3> QED
      BY <2>1, <2>3, <3>1, <3>2 DEF ConnsOK, LinesOK, AppsOK, UdpOK, CallOK, apps, udp
  <2> QED
    BY <1>6, <2>2, <2>3 DEF ReadAnswer
<1> QED
  BY <1>3, <1>4, <1>5, <1>6 DEF GetProxyStream

LEMMA HandlerTyped == Typed /\ ProxyStreamHandler => Typed'
<1> SUFFICES ASSUME Typed, ProxyStreamHandler PROVE Typed'
  OBVIOUS
<1> USE DEF Typed, LineOK, ConnsOK, LinesOK, AppsOK, apps
<1>1. CASE Handle \/ ReadConnect \/ WriteFailed
  BY <1>1 DEF Handle, ReadConnect, WriteFailed, CopiersOK, UdpOK, CallOK, pvars, conns, udp
<1>2. CASE Dial
  <2>1. made' \subseteq Conns
    BY <1>2 DEF Dial, Dialled, Conns
  <2>2. tries' \in 0 .. DailRetryTime
    BY <1>2, CallAssumption DEF Dial, CallOK
  <2> QED
    BY <1>2, <2>1, <2>2 DEF Dial, Dialled, CopiersOK, UdpOK, CallOK
<1>3. CASE WriteSuccess
  <2>1. CopiersOK'
    BY <1>3 DEF WriteSuccess, Started, CopiersOK
  <2> QED
    BY <1>3, <2>1 DEF WriteSuccess, UdpOK, CallOK, conns
<1> QED
  BY <1>1, <1>2, <1>3 DEF ProxyStreamHandler

LEMMA CopyTyped ==
    ASSUME Typed, NEW k \in Copiers, Copy(k)
    PROVE  Typed'
<1> USE DEF Typed
<1>0. UNCHANGED <<udp, call, protocol, made, broken, apps>>
  BY DEF Copy, CopyBytes, Read, Write, CloseDest, CloseSrc
<1>1. ConnsOK' /\ AppsOK' /\ UdpOK' /\ CallOK'
  BY <1>0 DEF ConnsOK, AppsOK, UdpOK, CallOK, apps, udp, call
<1>2. CopiersOK'
  <2>1. item[k] \in Nat /\ (line[Src(k)] # <<>> => Head(line[Src(k)]) \in Nat)
    BY LinesAre DEF CopiersOK, LineOK
  <2> QED
    BY <2>1 DEF Copy, CopyBytes, Read, Write, CloseDest, CloseSrc, Step, CopiersOK
<1>3. LineOK'
  <2>1. Src(k) \in Lines /\ Dest(k) \in Lines /\ item[k] \in Nat
    BY LinesAre DEF CopiersOK
  <2>2. \/ line' = line
        \/ line[Src(k)] # <<>> /\ Take(Src(k))
        \/ Len(line[Dest(k)]) < Room /\ Put(Dest(k), item[k])
    BY DEF Copy, CopyBytes, Read, Write, CloseDest, CloseSrc
  <2>3. CASE line' = line
    BY <2>3 DEF LineOK
  <2>4. CASE line[Src(k)] # <<>> /\ Take(Src(k))
    BY <2>1, <2>4, TakeTyped
  <2>5. CASE Len(line[Dest(k)]) < Room /\ Put(Dest(k), item[k])
    BY <2>1, <2>5, PutTyped
  <2> QED
    BY <2>2, <2>3, <2>4, <2>5
<1>4. LinesOK'
  <2>1. Dest(k)[1] \in Conns /\ Src(k)[1] \in Conns /\ k[2] \in Dirs /\ Other(k[2]) \in Dirs
    BY LinesAre
  <2>2. \/ UNCHANGED <<ended, deaf>>
        \/ CloseEnd(Dest(k)[1], Other(k[2]))
        \/ CloseEnd(Src(k)[1], k[2])
    BY DEF Copy, CopyBytes, Read, Write, CloseDest, CloseSrc
  <2>3. CASE UNCHANGED <<ended, deaf>>
    BY <2>3 DEF LinesOK
  <2>4. CASE CloseEnd(Dest(k)[1], Other(k[2]))
    BY <2>1, <2>4, CloseEndTyped
  <2>5. CASE CloseEnd(Src(k)[1], k[2])
    BY <2>1, <2>5, CloseEndTyped
  <2> QED
    BY <2>2, <2>3, <2>4, <2>5
<1> QED
  BY <1>1, <1>2, <1>3, <1>4

LEMMA UdpTyped ==
    ASSUME Typed,
           \/ UdpLoop
           \/ \E r \in Readers : UdpReader(r) \/ (UdpRefused(r) /\ UNCHANGED call)
           \/ DeadlinePasses /\ UNCHANGED call
    PROVE  Typed'
<1> USE DEF Typed
<1>0. /\ UpLine \in Lines /\ DownLine \in Lines /\ SocketOut \in Lines /\ SocketIn \in Lines
      /\ datagram \in Nat
  BY LinesAre DEF UdpOK
<1>1. ASSUME NEW r \in Readers, UdpReader(r) \/ UdpRefused(r), UNCHANGED call
      PROVE  Typed'
  <2>1. UNCHANGED <<protocol, made, ended, deaf, broken, copier, item, apps, call>>
    BY <1>1 DEF UdpReader, CopyDatagram, UdpRead, UdpArm, UdpWrite, UdpClose, UdpRefused, pvars,
       conns
  <2>2. line[SocketIn] # <<>> => Head(line[SocketIn]) \in Nat
    BY <1>0 DEF LineOK
  <2>3. UdpOK'
    BY <1>1, <2>2 DEF UdpReader, CopyDatagram, UdpRead, UdpArm, UdpWrite, UdpClose, UdpRefused,
       Goes, SetDeadline, UdpOK
  <2>4. \/ line' = line
        \/ line[SocketIn] # <<>> /\ Take(SocketIn)
        \/ Len(line[DownLine]) < Room /\ Put(DownLine, reply[r])
    BY <1>1 DEF UdpReader, CopyDatagram, UdpRead, UdpArm, UdpWrite, UdpClose, UdpRefused, pvars,
       conns
  <2>5. CASE line' = line
    BY <2>1, <2>3, <2>5 DEF LineOK, ConnsOK, LinesOK, CopiersOK, AppsOK, CallOK, apps, call
  <2>6. CASE line[SocketIn] # <<>> /\ Take(SocketIn)
    <3>1. LineOK'
      BY <1>0, <2>6, TakeTyped
    <3> QED
      BY <2>1, <2>3, <3>1 DEF ConnsOK, LinesOK, CopiersOK, AppsOK, CallOK, apps, call
  <2>7. CASE Len(line[DownLine]) < Room /\ Put(DownLine, reply[r])
    <3>1. reply[r] \in Nat
      BY DEF UdpOK
    <3>2. LineOK'
      BY <1>0, <2>7, <3>1, PutTyped
    <3> QED
      BY <2>1, <2>3, <3>2 DEF ConnsOK, LinesOK, CopiersOK, AppsOK, CallOK, apps, call
  <2> QED
    BY <2>4, <2>5, <2>6, <2>7
<1>2. ASSUME ProxyConnUDP \/ DeadlinePasses, UNCHANGED call
      PROVE  Typed'
  <2>1. UNCHANGED <<protocol, made, ended, deaf, broken, copier, item, apps, call>>
    BY <1>2 DEF ProxyConnUDP, LoopRead, Spawn, LoopWrite, LoopArm, DeadlinePasses, pvars, conns
  <2>2. line[UpLine] # <<>> => Head(line[UpLine]) \in Nat
    BY <1>0 DEF LineOK
  <2>3. UdpOK'
    BY <1>2, <2>2 DEF ProxyConnUDP, LoopRead, Spawn, LoopWrite, LoopArm, DeadlinePasses,
       SetDeadline, UdpOK
  <2>4. \/ line' = line
        \/ line[UpLine] # <<>> /\ Take(UpLine)
        \/ Len(line[SocketOut]) < Room /\ Put(SocketOut, datagram)
    BY <1>2 DEF ProxyConnUDP, LoopRead, Spawn, LoopWrite, LoopArm, DeadlinePasses, pvars, conns
  <2>5. LineOK'
    <3>1. CASE line' = line
      BY <3>1 DEF LineOK
    <3>2. CASE line[UpLine] # <<>> /\ Take(UpLine)
      BY <1>0, <3>2, TakeTyped
    <3>3. CASE Len(line[SocketOut]) < Room /\ Put(SocketOut, datagram)
      BY <1>0, <3>3, PutTyped
    <3> QED
      BY <2>4, <3>1, <3>2, <3>3
  <2> QED
    BY <2>1, <2>3, <2>5 DEF ConnsOK, LinesOK, CopiersOK, AppsOK, CallOK, apps, call
<1> QED
  BY <1>1, <1>2 DEF UdpLoop, UdpReader

LEMMA AppsTyped ==
    ASSUME Typed, (\E d \in Dirs : Apps(d)) \/ LoseStream
    PROVE  Typed'
<1> USE DEF Typed
<1>0. \A ds : Disturb(ds) => quiet' \in [Dirs -> BOOLEAN]
  BY DEF Disturb, AppsOK
<1>1. CASE LoseStream
  BY <1>0, <1>1 DEF LoseStream, Break, LineOK, ConnsOK, LinesOK, CopiersOK, AppsOK, UdpOK,
     CallOK, udp, call
<1>2. ASSUME NEW d \in Dirs, AppSends(d), UNCHANGED <<udp, call>> PROVE Typed'
  <2>1. Len(sent[d]) \in Nat /\ Append(sent[d], Len(sent[d]) + 1) \in Seq(Nat)
        /\ <<Origin(d), d>> \in Lines
    BY LinesAre DEF AppsOK
  <2>2. LineOK'
    BY <1>2, <2>1, PutTyped DEF AppSends
  <2>3. AppsOK'
    BY <1>0, <1>2, <2>1 DEF AppSends, AppsOK
  <2> QED
    BY <1>2, <2>2, <2>3 DEF AppSends, ConnsOK, LinesOK, CopiersOK, UdpOK, CallOK, udp, call
<1>3. ASSUME NEW d \in Dirs, AppReceives(d), UNCHANGED <<udp, call>> PROVE Typed'
  <2>1. <<Target(d), d>> \in Lines
    BY LinesAre
  <2>2. LineOK' /\ Head(line[<<Target(d), d>>]) \in Nat
    BY <1>3, <2>1, TakeTyped DEF AppReceives
  <2>3. AppsOK'
    BY <1>3, <2>2 DEF AppReceives, AppsOK
  <2> QED
    BY <1>3, <2>2, <2>3 DEF AppReceives, ConnsOK, LinesOK, CopiersOK, UdpOK, CallOK, udp, call
<1>4. ASSUME NEW d \in Dirs, AppEnds(d), UNCHANGED <<udp, call>> PROVE Typed'
  <2>1. Origin(d) \in Conns /\ Other(d) \in Dirs /\ <<Origin(d), d>> \in Lines
    BY LinesAre
  <2>2. LinesOK'
    <3>1. CASE ended' = ended \cup {<<Origin(d), d>>} /\ UNCHANGED deaf
      BY <2>1, <3>1 DEF LinesOK
    <3>2. CASE CloseEnd(Origin(d), Other(d))
      BY <2>1, <3>2, CloseEndTyped
    <3> QED
      BY <1>4, <3>1, <3>2 DEF AppEnds
  <2>3. AppsOK'
    BY <1>0, <1>4 DEF AppEnds, AppsOK
  <2>4. ConnsOK'
    BY <1>4, <2>1 DEF AppEnds, ConnsOK
  <2> QED
    BY <1>4, <2>2, <2>3, <2>4 DEF AppEnds, LineOK, CopiersOK, UdpOK, CallOK, udp, call
<1> QED
  BY <1>1, <1>2, <1>3, <1>4 DEF Apps

LEMMA TypedKept == Typed /\ [Next]_vars => Typed'
<1> SUFFICES ASSUME Typed, [Next]_vars PROVE Typed'
  OBVIOUS
<1>1. CASE UNCHANGED vars
  BY <1>1 DEF vars, pvars, conns, apps, udp, call, Typed, LineOK, ConnsOK, LinesOK, CopiersOK,
     AppsOK, UdpOK, CallOK
<1> QED
  BY <1>1, CallerTyped, HandlerTyped, CopyTyped, UdpTyped, AppsTyped DEF Next, System

LEMMA InitTyped == Init => Typed
<1> SUFFICES ASSUME Init PROVE Typed
  OBVIOUS
<1>1. LineOK
  BY ProxyAssumption DEF Init, PInit, LineOK
<1>2. ConnsOK /\ LinesOK /\ CopiersOK
  BY DEF Init, PInit, ConnsOK, LinesOK, CopiersOK, Conns
<1>3. AppsOK
  BY DEF Init, PInit, AppsOK
<1>4. UdpOK
  BY DEF Init, UInit, UdpOK
<1>5. CallOK
  <2>1. tries \in 0 .. DailRetryTime
    BY CallAssumption DEF Init
  <2>2. swallowed \in Seq(Nat)
    BY DEF Init
  <2> QED
    BY <2>1, <2>2 DEF Init, CallOK
<1> QED
  BY <1>1, <1>2, <1>3, <1>4, <1>5 DEF Typed

\* Every step keeps every variable in its type, every line within its room and
\* every dial within the tries there are.
THEOREM CallTyped == Spec => []TypeOK
<1>1. Typed => TypeOK
  BY DEF Typed, LineOK, ConnsOK, LinesOK, CopiersOK, AppsOK, UdpOK, CallOK, TypeOK
<1> QED
  BY <1>1, InitTyped, TypedKept, PTL DEF Spec
-------------------------------------------------------------------------------
(* What arrives over TCP.  The items of a direction are numbered from 1.    *)
(* What its receiver has, the items on its way on the last line, the item in *)
(* the far copier, those on the middle line, the one in the near copier and *)
(* those on the first line are one run of numbers, as far as the lines      *)
(* between can still be written to.                                         *)

First(d) == <<Origin(d), d>>
Middle(d) == <<"stream", d>>
Final(d) == <<Target(d), d>>
Near(d) == <<IF d = "up" THEN "caller" ELSE "handler", d>>
Far(d) == <<IF d = "up" THEN "handler" ELSE "caller", d>>

\* s goes on counting from n.
Counts(s, n) == \A i \in DOMAIN s : s[i] = n + i

Holds(k) == IF copier[k] = "write" THEN 1 ELSE 0

\* What is written to l may still arrive.
Alive(l) == l \notin ended \cup deaf /\ l[1] \notin broken

\* The last line is still of use: before its copier starts, the reader of the
\* answer may take items off the middle line for it.
Open(d) == Alive(Final(d)) \/ (d = "down" /\ caller # "ok")

\* Items that have got past the far copier, past the near one, and that were sent.
Arrived(d) == Len(Received(d)) + Len(line[Final(d)])
Crossed(d) == Arrived(d) + Holds(Far(d)) + Len(line[Middle(d)])
Left(d) == Crossed(d) + Holds(Near(d)) + Len(line[First(d)])

FinalInv(d) ==
    /\ Counts(sent[d], 0) /\ Counts(Received(d), 0)
    /\ Counts(line[Final(d)], Len(Received(d)))
    /\ Arrived(d) <= Len(sent[d])

MiddleInv(d) == Open(d) =>
    /\ copier[Far(d)] = "write" => item[Far(d)] = Arrived(d) + 1
    /\ Counts(line[Middle(d)], Arrived(d) + Holds(Far(d)))
    /\ Crossed(d) <= Len(sent[d])

FirstInv(d) == Open(d) /\ Alive(Middle(d)) =>
    /\ copier[Near(d)] = "write" => item[Near(d)] = Crossed(d) + 1
    /\ Counts(line[First(d)], Crossed(d) + Holds(Near(d)))
    /\ Left(d) = Len(sent[d])

Run(d) == FinalInv(d) /\ MiddleInv(d) /\ FirstInv(d)

LEMMA CountsAppend ==
    ASSUME NEW s \in Seq(Nat), NEW n \in Nat, Counts(s, n), NEW x, x = n + Len(s) + 1
    PROVE  Counts(Append(s, x), n)
  BY DEF Counts

LEMMA CountsTail ==
    ASSUME NEW s \in Seq(Nat), NEW n \in Nat, Counts(s, n), s # <<>>
    PROVE  Head(s) = n + 1 /\ Counts(Tail(s), n + 1) /\ Len(Tail(s)) = Len(s) - 1
  BY DEF Counts

LEMMA CountsSplit ==
    ASSUME NEW s \in Seq(Nat), NEW n \in Nat, Counts(s, n), NEW k \in 0 .. Len(s)
    PROVE  /\ Counts(SubSeq(s, 1, k), n) /\ Len(SubSeq(s, 1, k)) = k
           /\ Counts(SubSeq(s, k + 1, Len(s)), n + k) /\ Len(SubSeq(s, k + 1, Len(s))) = Len(s) - k
<1>1. /\ SubSeq(s, 1, k) \in Seq(Nat) /\ Len(SubSeq(s, 1, k)) = k
      /\ \A i \in 1 .. k : SubSeq(s, 1, k)[i] = s[i]
  OBVIOUS
<1>2. /\ SubSeq(s, k + 1, Len(s)) \in Seq(Nat) /\ Len(SubSeq(s, k + 1, Len(s))) = Len(s) - k
      /\ \A i \in 1 .. (Len(s) - k) : SubSeq(s, k + 1, Len(s))[i] = s[k + i]
  OBVIOUS
<1>3. Len(s) \in Nat /\ k \in Nat /\ k <= Len(s) /\ \A i \in 1 .. Len(s) : s[i] = n + i
  BY DEF Counts
<1>4. Counts(SubSeq(s, 1, k), n)
  BY <1>1, <1>3 DEF Counts
<1>5. Counts(SubSeq(s, k + 1, Len(s)), n + k)
  <2> DEFINE t == SubSeq(s, k + 1, Len(s))
  <2>1. \A i \in 1 .. (Len(s) - k) : t[i] = (n + k) + i
    BY <1>2, <1>3
  <2>2. DOMAIN t = 1 .. (Len(s) - k)
    BY <1>2
  <2> QED
    BY <2>1, <2>2 DEF Counts
<1> QED
  BY <1>1, <1>2, <1>4, <1>5

LEMMA CountsPrefix ==
    ASSUME NEW s \in Seq(Nat), NEW t \in Seq(Nat), Counts(s, 0), Counts(t, 0), Len(s) <= Len(t)
    PROVE  IsPrefix(s, t)
  BY DEF Counts, IsPrefix

LEMMA Places ==
    ASSUME NEW d \in Dirs
    PROVE  /\ First(d) \in Lines /\ Middle(d) \in Lines /\ Final(d) \in Lines
           /\ First(d) # Middle(d) /\ Middle(d) # Final(d) /\ First(d) # Final(d)
           /\ Near(d) \in Copiers /\ Far(d) \in Copiers /\ Near(d) # Far(d)
           /\ Src(Near(d)) = First(d) /\ Dest(Near(d)) = Middle(d)
           /\ Src(Far(d)) = Middle(d) /\ Dest(Far(d)) = Final(d)
  BY DEF First, Middle, Final, Near, Far, Dirs, Lines, Conns, Copiers, Nodes, Src, Dest,
     In, Out, Other, Origin, Target

LEMMA Apart ==
    ASSUME NEW d \in Dirs, NEW e \in Dirs, d # e
    PROVE  {First(d), Middle(d), Final(d)} \cap {First(e), Middle(e), Final(e)} = {}
           /\ {Near(d), Far(d)} \cap {Near(e), Far(e)} = {}
  BY DEF First, Middle, Final, Near, Far

LEMMA EveryCopier ==
    ASSUME NEW k \in Copiers
    PROVE  k[2] \in Dirs /\ k \in {Near(k[2]), Far(k[2])}
  BY DEF Near, Far, Copiers, Nodes, Dirs

\* The numbers that the invariant is about.
LEMMA Numbers ==
    ASSUME Typed, NEW d \in Dirs
    PROVE  /\ \A l \in Lines : line[l] \in Seq(Nat) /\ Len(line[l]) \in Nat
           /\ sent[d] \in Seq(Nat) /\ Received(d) \in Seq(Nat) /\ Len(Received(d)) \in Nat
           /\ \A k \in Copiers : Holds(k) \in {0, 1}
           /\ Arrived(d) \in Nat /\ Crossed(d) \in Nat /\ Left(d) \in Nat /\ Len(sent[d]) \in Nat
<1>1. /\ \A l \in Lines : line[l] \in Seq(Nat) /\ Len(line[l]) \in Nat
      /\ sent[d] \in Seq(Nat) /\ got[d] \in Seq(Nat) /\ swallowed \in Seq(Nat)
  BY DEF Typed, LineOK, AppsOK, CallOK
<1>2. Received(d) \in Seq(Nat)
  BY <1>1 DEF Received
<1>3. \A k : Holds(k) \in {0, 1} /\ Holds(k) \in Nat
  BY DEF Holds
<1>4. Arrived(d) \in Nat
  BY <1>1, <1>2, Places DEF Arrived
<1>5. Crossed(d) \in Nat
  <2>1. Holds(Far(d)) \in Nat /\ Len(line[Middle(d)]) \in Nat
    BY <1>1, <1>3, Places
  <2> QED
    BY <1>4, <2>1 DEF Crossed
<1>6. Left(d) \in Nat
  <2>1. Holds(Near(d)) \in Nat /\ Len(line[First(d)]) \in Nat
    BY <1>1, <1>3, Places
  <2> QED
    BY <1>5, <2>1 DEF Left
<1> QED
  BY <1>1, <1>2, <1>3, <1>4, <1>5, <1>6

\* Nothing happens to d but that it may be closed.
LEMMA NothingMoves ==
    ASSUME NEW d \in Dirs, Run(d),
           sent'[d] = sent[d], Received(d)' = Received(d),
           \A l \in {First(d), Middle(d), Final(d)} : line'[l] = line[l],
           \A k \in {Near(d), Far(d)} : Holds(k)' = Holds(k) /\ item'[k] = item[k],
           Open(d)' => Open(d), Alive(Middle(d))' => Alive(Middle(d))
    PROVE  Run(d)' /\ Left(d)' = Left(d)
<1>1. Arrived(d)' = Arrived(d) /\ Crossed(d)' = Crossed(d) /\ Left(d)' = Left(d)
  BY DEF Arrived, Crossed, Left
<1>2. FinalInv(d)'
  BY <1>1 DEF Run, FinalInv
<1>3. MiddleInv(d)'
  BY <1>1 DEF Run, MiddleInv, Holds
<1>4. FirstInv(d)'
  BY <1>1 DEF Run, FirstInv, Holds
<1> QED
  BY <1>1, <1>2, <1>3, <1>4 DEF Run

LEMMA FarReads ==
    ASSUME Typed, NEW d \in Dirs, Run(d),
           copier[Far(d)] = "read", line[Middle(d)] # <<>>,
           Take(Middle(d)),
           item' = [item EXCEPT ![Far(d)] = Head(line[Middle(d)])],
           copier' = [copier EXCEPT ![Far(d)] = "write"],
           UNCHANGED <<sent, got, swallowed, ended, deaf, broken, caller>>
    PROVE  Run(d)' /\ Left(d)' = Left(d)
<1> DEFINE m == line[Middle(d)]
<1>1. /\ line'[Middle(d)] = Tail(m) /\ line'[First(d)] = line[First(d)]
      /\ line'[Final(d)] = line[Final(d)]
      /\ copier'[Far(d)] = "write" /\ copier'[Near(d)] = copier[Near(d)]
      /\ item'[Far(d)] = Head(m) /\ item'[Near(d)] = item[Near(d)]
  BY Places DEF Typed, LineOK, CopiersOK, Take
<1>2. Received(d)' = Received(d) /\ Open(d)' = Open(d) /\ Alive(Middle(d))' = Alive(Middle(d))
  BY DEF Received, Open, Alive
<1>3. Holds(Far(d)) = 0 /\ Holds(Far(d))' = 1 /\ Holds(Near(d))' = Holds(Near(d))
  BY <1>1 DEF Holds
<1>4. m \in Seq(Nat) /\ m # <<>> /\ Len(m) \in Nat /\ Len(Tail(m)) = Len(m) - 1
  BY Places DEF Typed, LineOK
<1> HIDE DEF m
<1>5. Arrived(d)' = Arrived(d) /\ Crossed(d)' = Crossed(d) /\ Left(d)' = Left(d)
  <2>1. Arrived(d)' = Arrived(d)
    BY <1>1, <1>2 DEF Arrived
  <2>2. Crossed(d)' = Crossed(d)
    <3>1. Crossed(d) = Arrived(d) + 0 + Len(m) /\ Crossed(d)' = Arrived(d) + 1 + Len(Tail(m))
      BY <2>1, <1>1, <1>3 DEF Crossed, m
    <3>2. Arrived(d) \in Nat
      BY Numbers
    <3> QED
      BY <3>1, <3>2, <1>4
  <2> QED
    BY <2>1, <2>2, <1>1, <1>3 DEF Left
<1>6. FinalInv(d)'
  BY <1>1, <1>2, <1>5 DEF Run, FinalInv
<1>7. MiddleInv(d)'
  <2> SUFFICES ASSUME Open(d) PROVE MiddleInv(d)'
    BY <1>2 DEF MiddleInv
  <2>1. Counts(m, Arrived(d)) /\ Arrived(d) \in Nat /\ Crossed(d) <= Len(sent[d])
    BY <1>3, Numbers DEF Run, MiddleInv, m
  <2>2. Head(m) = Arrived(d) + 1 /\ Counts(Tail(m), Arrived(d) + 1)
    BY <2>1, <1>4, CountsTail DEF m
  <2> QED
    BY <2>1, <2>2, <1>1, <1>3, <1>5 DEF MiddleInv
<1>8. FirstInv(d)'
  BY <1>1, <1>2, <1>3, <1>5 DEF Run, FirstInv, Holds
<1> QED
  BY <1>5, <1>6, <1>7, <1>8 DEF Run

LEMMA FarWrites ==
    ASSUME Typed, NEW d \in Dirs, Run(d), copier[Far(d)] = "write", Alive(Final(d)),
           Put(Final(d), item[Far(d)]),
           item' = [item EXCEPT ![Far(d)] = 0],
           copier' = [copier EXCEPT ![Far(d)] = "read"],
           UNCHANGED <<sent, got, swallowed, ended, deaf, broken, caller>>
    PROVE  Run(d)' /\ Left(d)' = Left(d)
<1> DEFINE z == line[Final(d)]
           x == item[Far(d)]
<1>1. /\ line'[Final(d)] = Append(z, x) /\ line'[First(d)] = line[First(d)]
      /\ line'[Middle(d)] = line[Middle(d)]
      /\ copier'[Far(d)] = "read" /\ copier'[Near(d)] = copier[Near(d)]
      /\ item'[Near(d)] = item[Near(d)]
  BY Places DEF Typed, LineOK, CopiersOK, Put
<1>2. /\ Received(d)' = Received(d) /\ Open(d)' = Open(d) /\ Alive(Middle(d))' = Alive(Middle(d))
      /\ Open(d)
  BY DEF Received, Open, Alive
<1>3. Holds(Far(d)) = 1 /\ Holds(Far(d))' = 0 /\ Holds(Near(d))' = Holds(Near(d))
  BY <1>1 DEF Holds
<1>4. /\ z \in Seq(Nat) /\ Len(z) \in Nat /\ x \in Nat /\ Len(Append(z, x)) = Len(z) + 1
      /\ Len(Received(d)) \in Nat /\ Arrived(d) \in Nat /\ Len(line[Middle(d)]) \in Nat
      /\ Crossed(d) \in Nat /\ Len(sent[d]) \in Nat
  BY Places, Numbers DEF Typed, LineOK, CopiersOK
<1>5. Arrived(d) = Len(Received(d)) + Len(z) /\ x = Arrived(d) + 1
  BY <1>2 DEF Run, MiddleInv, Arrived
<1>6. Crossed(d) = Arrived(d) + 1 + Len(line[Middle(d)]) /\ Crossed(d) <= Len(sent[d])
  BY <1>2, <1>3 DEF Run, MiddleInv, Crossed
<1>7. /\ Arrived(d)' = Len(Received(d)) + Len(Append(z, x))
      /\ Crossed(d)' = Arrived(d)' + 0 + Len(line[Middle(d)])
  BY <1>1, <1>2, <1>3 DEF Arrived, Crossed
<1> HIDE DEF z, x
<1>8. Arrived(d)' = Arrived(d) + 1 /\ Crossed(d)' = Crossed(d) /\ Arrived(d)' <= Len(sent[d])
  <2>1. Arrived(d)' = Arrived(d) + 1
    BY <1>4, <1>5, <1>7
  <2>2. Crossed(d)' = Crossed(d)
    <3>1. Crossed(d)' = Arrived(d) + 1 + 0 + Len(line[Middle(d)])
      BY <2>1, <1>7
    <3>2. Arrived(d) \in Nat /\ Len(line[Middle(d)]) \in Nat
      BY <1>4
    <3> QED
      BY <3>1, <3>2, <1>6
  <2>3. Arrived(d) + 1 <= Len(sent[d])
    BY <1>4, <1>6
  <2> QED
    BY <2>1, <2>2, <2>3
<1>9. Left(d)' = Left(d)
  BY <1>1, <1>3, <1>8 DEF Left
<1>10. FinalInv(d)'
  <2>1. Counts(z, Len(Received(d))) /\ Counts(sent[d], 0) /\ Counts(Received(d), 0)
    BY DEF Run, FinalInv, z
  <2>2. Counts(Append(z, x), Len(Received(d)))
    BY <2>1, <1>4, <1>5, CountsAppend
  <2> QED
    BY <2>1, <2>2, <1>1, <1>2, <1>8 DEF FinalInv
<1>11. MiddleInv(d)'
  <2>1. Counts(line[Middle(d)], Arrived(d) + 1) /\ Arrived(d)' + 0 = Arrived(d) + 1
    BY <1>2, <1>3, <1>4, <1>8 DEF Run, MiddleInv
  <2> QED
    BY <2>1, <1>1, <1>3, <1>6, <1>8 DEF MiddleInv
<1>12. FirstInv(d)'
  BY <1>1, <1>2, <1>3, <1>8, <1>9 DEF Run, FirstInv
<1> QED
  BY <1>9, <1>10, <1>11, <1>12 DEF Run

LEMMA NearReads ==
    ASSUME Typed, NEW d \in Dirs, Run(d),
           copier[Near(d)] = "read", line[First(d)] # <<>>,
           Take(First(d)),
           item' = [item EXCEPT ![Near(d)] = Head(line[First(d)])],
           copier' = [copier EXCEPT ![Near(d)] = "write"],
           UNCHANGED <<sent, got, swallowed, ended, deaf, broken, caller>>
    PROVE  Run(d)'
<1> DEFINE f == line[First(d)]
<1>1. /\ line'[First(d)] = Tail(f) /\ line'[Middle(d)] = line[Middle(d)]
      /\ line'[Final(d)] = line[Final(d)]
      /\ copier'[Near(d)] = "write" /\ copier'[Far(d)] = copier[Far(d)]
      /\ item'[Near(d)] = Head(f) /\ item'[Far(d)] = item[Far(d)]
  BY Places DEF Typed, LineOK, CopiersOK, Take
<1>2. Received(d)' = Received(d) /\ Open(d)' = Open(d) /\ Alive(Middle(d))' = Alive(Middle(d))
  BY DEF Received, Open, Alive
<1>3. Holds(Near(d)) = 0 /\ Holds(Near(d))' = 1 /\ Holds(Far(d))' = Holds(Far(d))
  BY <1>1 DEF Holds
<1>4. /\ f \in Seq(Nat) /\ f # <<>> /\ Len(f) \in Nat /\ Len(Tail(f)) = Len(f) - 1
      /\ Crossed(d) \in Nat
  BY Places, Numbers DEF Typed, LineOK
<1>5. Arrived(d)' = Arrived(d) /\ Crossed(d)' = Crossed(d)
  BY <1>1, <1>2, <1>3 DEF Arrived, Crossed
<1>6. Left(d) = Crossed(d) + 0 + Len(f) /\ Left(d)' = Crossed(d) + 1 + Len(Tail(f))
  BY <1>1, <1>3, <1>5 DEF Left
<1> HIDE DEF f
<1>7. Left(d)' = Left(d)
  BY <1>4, <1>6
<1>8. FinalInv(d)'
  BY <1>1, <1>2, <1>5 DEF Run, FinalInv
<1>9. MiddleInv(d)'
  BY <1>1, <1>2, <1>3, <1>5 DEF Run, MiddleInv
<1>10. FirstInv(d)'
  <2> SUFFICES ASSUME Open(d) /\ Alive(Middle(d)) PROVE FirstInv(d)'
    BY <1>2 DEF FirstInv
  <2>1. Counts(f, Crossed(d)) /\ Left(d) = Len(sent[d])
    BY <1>3, <1>4 DEF Run, FirstInv, f
  <2>2. Head(f) = Crossed(d) + 1 /\ Counts(Tail(f), Crossed(d) + 1)
    BY <2>1, <1>4, CountsTail
  <2> QED
    BY <2>1, <2>2, <1>1, <1>3, <1>5, <1>7 DEF FirstInv
<1> QED
  BY <1>8, <1>9, <1>10 DEF Run

LEMMA NearWrites ==
    ASSUME Typed, NEW d \in Dirs, Run(d), copier[Near(d)] = "write", Alive(Middle(d)),
           Put(Middle(d), item[Near(d)]),
           item' = [item EXCEPT ![Near(d)] = 0],
           copier' = [copier EXCEPT ![Near(d)] = "read"],
           UNCHANGED <<sent, got, swallowed, ended, deaf, broken, caller>>
    PROVE  Run(d)'
<1> DEFINE m == line[Middle(d)]
           x == item[Near(d)]
<1>1. /\ line'[Middle(d)] = Append(m, x) /\ line'[First(d)] = line[First(d)]
      /\ line'[Final(d)] = line[Final(d)]
      /\ copier'[Near(d)] = "read" /\ copier'[Far(d)] = copier[Far(d)]
      /\ item'[Far(d)] = item[Far(d)]
  BY Places DEF Typed, LineOK, CopiersOK, Put
<1>2. Received(d)' = Received(d) /\ Open(d)' = Open(d) /\ Alive(Middle(d))' = Alive(Middle(d))
  BY DEF Received, Open, Alive
<1>3. Holds(Near(d)) = 1 /\ Holds(Near(d))' = 0 /\ Holds(Far(d))' = Holds(Far(d))
  BY <1>1 DEF Holds
<1>4. Arrived(d)' = Arrived(d)
  BY <1>1, <1>2 DEF Arrived
<1>5. FinalInv(d)'
  BY <1>1, <1>2, <1>4 DEF Run, FinalInv
<1> SUFFICES ASSUME Open(d) PROVE MiddleInv(d)' /\ FirstInv(d)'
  BY <1>2, <1>5 DEF Run, MiddleInv, FirstInv
<1>6. /\ m \in Seq(Nat) /\ Len(m) \in Nat /\ x \in Nat /\ Len(Append(m, x)) = Len(m) + 1
      /\ Crossed(d) \in Nat /\ Len(sent[d]) \in Nat /\ Len(line[First(d)]) \in Nat
  BY Places, Numbers DEF Typed, LineOK, CopiersOK
<1>7. Arrived(d) \in Nat /\ Holds(Far(d)) \in Nat
  BY Numbers DEF Holds
<1>8. /\ Crossed(d) = Arrived(d) + Holds(Far(d)) + Len(m) /\ x = Crossed(d) + 1
      /\ Left(d) = Crossed(d) + 1 + Len(line[First(d)]) /\ Left(d) = Len(sent[d])
      /\ Counts(m, Arrived(d) + Holds(Far(d)))
      /\ Counts(line[First(d)], Crossed(d) + 1)
      /\ copier[Far(d)] = "write" => item[Far(d)] = Arrived(d) + 1
  BY <1>3 DEF Run, FirstInv, MiddleInv, Crossed, Left
<1>9. /\ Crossed(d)' = Arrived(d) + Holds(Far(d)) + Len(Append(m, x))
      /\ Left(d)' = Crossed(d)' + 0 + Len(line[First(d)])
  BY <1>1, <1>3, <1>4 DEF Crossed, Left
<1> HIDE DEF m, x
<1>10. Crossed(d)' = Crossed(d) + 1
  BY <1>6, <1>7, <1>8, <1>9
<1>11. Left(d)' = Left(d) /\ Crossed(d)' <= Len(sent[d]) /\ Crossed(d)' + 0 = Crossed(d) + 1
  BY <1>6, <1>8, <1>9, <1>10
<1>12. Counts(Append(m, x), Arrived(d) + Holds(Far(d)))
  <2> DEFINE n == Arrived(d) + Holds(Far(d))
  <2>1. n \in Nat /\ x = n + Len(m) + 1 /\ Counts(m, n)
    BY <1>7, <1>8
  <2> HIDE DEF n
  <2>2. Counts(Append(m, x), n)
    BY <2>1, <1>6, CountsAppend
  <2> QED
    BY <2>2 DEF n
<1>13. MiddleInv(d)'
  BY <1>1, <1>3, <1>4, <1>8, <1>11, <1>12 DEF MiddleInv
<1>14. FirstInv(d)'
  BY <1>1, <1>3, <1>8, <1>11 DEF FirstInv
<1> QED
  BY <1>13, <1>14

\* What was written to a last line that is closed is lost, and nothing follows it.
LEMMA FarLoses ==
    ASSUME NEW d \in Dirs, Run(d), ~Open(d)', sent'[d] = sent[d], Received(d)' = Received(d),
           line'[Final(d)] = line[Final(d)]
    PROVE  Run(d)'
  BY DEF Run, FinalInv, MiddleInv, FirstInv, Arrived

LEMMA NearLoses ==
    ASSUME NEW d \in Dirs, Run(d), ~Alive(Middle(d))', Open(d)' => Open(d),
           sent'[d] = sent[d], Received(d)' = Received(d),
           line'[Final(d)] = line[Final(d)], line'[Middle(d)] = line[Middle(d)],
           copier'[Far(d)] = copier[Far(d)], item'[Far(d)] = item[Far(d)]
    PROVE  Run(d)'
<1>1. Arrived(d)' = Arrived(d) /\ Holds(Far(d))' = Holds(Far(d))
  BY DEF Arrived, Holds
<1>2. Crossed(d)' = Crossed(d)
  BY <1>1 DEF Crossed
<1> QED
  BY <1>1, <1>2 DEF Run, FinalInv, MiddleInv, FirstInv

LEMMA Sends ==
    ASSUME Typed, NEW d \in Dirs, Run(d),
           sent' = [sent EXCEPT ![d] = Append(@, Len(@) + 1)],
           Put(First(d), Len(sent[d]) + 1),
           UNCHANGED <<item, copier, got, swallowed, ended, deaf, broken, caller>>
    PROVE  Run(d)'
<1> DEFINE s == sent[d]
           f == line[First(d)]
           x == Len(s) + 1
<1>1. /\ line'[First(d)] = Append(f, x) /\ line'[Middle(d)] = line[Middle(d)]
      /\ line'[Final(d)] = line[Final(d)] /\ sent'[d] = Append(s, x)
  BY Places DEF Typed, LineOK, AppsOK, Put
<1>2. Received(d)' = Received(d) /\ Open(d)' = Open(d) /\ Alive(Middle(d))' = Alive(Middle(d))
  BY DEF Received, Open, Alive
<1>3. /\ Arrived(d)' = Arrived(d) /\ Crossed(d)' = Crossed(d)
      /\ Holds(Far(d))' = Holds(Far(d)) /\ Holds(Near(d))' = Holds(Near(d))
  BY <1>1, <1>2 DEF Arrived, Crossed, Holds
<1>4. /\ s \in Seq(Nat) /\ f \in Seq(Nat) /\ Len(s) \in Nat /\ Len(f) \in Nat
      /\ Len(Append(f, x)) = Len(f) + 1 /\ Len(Append(s, x)) = Len(s) + 1
      /\ Arrived(d) \in Nat /\ Crossed(d) \in Nat
  BY Places, Numbers DEF Typed, LineOK, AppsOK
<1>5. Holds(Near(d)) \in Nat
  BY DEF Holds
<1>6. Counts(Append(s, x), 0)
  BY <1>4, CountsAppend DEF Run, FinalInv
<1>7. FinalInv(d)'
  BY <1>1, <1>2, <1>3, <1>4, <1>6 DEF Run, FinalInv
<1>8. MiddleInv(d)'
  BY <1>1, <1>2, <1>3, <1>4 DEF Run, MiddleInv
<1>9. FirstInv(d)'
  <2> SUFFICES ASSUME Open(d) /\ Alive(Middle(d)) PROVE FirstInv(d)'
    BY <1>2 DEF FirstInv
  <2>1. /\ Left(d) = Crossed(d) + Holds(Near(d)) + Len(f) /\ Left(d) = Len(s)
        /\ Counts(f, Crossed(d) + Holds(Near(d)))
        /\ copier[Near(d)] = "write" => item[Near(d)] = Crossed(d) + 1
    BY DEF Run, FirstInv, Left
  <2>2. Left(d)' = Crossed(d) + Holds(Near(d)) + Len(Append(f, x))
    BY <1>1, <1>3 DEF Left
  <2> DEFINE n == Crossed(d) + Holds(Near(d))
  <2>3. n \in Nat /\ Counts(f, n) /\ Len(s) = n + Len(f)
    BY <2>1, <1>4, <1>5
  <2>4. x = n + Len(f) + 1 /\ Len(Append(f, x)) = Len(f) + 1 /\ Left(d)' = n + Len(Append(f, x))
    BY <2>2, <2>3, <1>4
  <2> HIDE DEF n, f, x
  <2>5. Left(d)' = Len(s) + 1
    BY <2>3, <2>4, <1>4
  <2>6. Counts(Append(f, x), n)
    BY <2>3, <2>4, <1>4, CountsAppend
  <2> QED
    BY <2>1, <2>5, <2>6, <1>1, <1>3, <1>4 DEF FirstInv, n
<1> QED
  BY <1>7, <1>8, <1>9 DEF Run

LEMMA ReceivedGrows ==
    ASSUME Typed, NEW d \in Dirs, NEW x \in Nat, got' = [got EXCEPT ![d] = Append(@, x)],
           swallowed' = swallowed
    PROVE  Received(d)' = Append(Received(d), x)
<1>1. got'[d] = Append(got[d], x) /\ got[d] \in Seq(Nat) /\ swallowed \in Seq(Nat)
  BY DEF Typed, AppsOK, CallOK
<1>2. \A s, t \in Seq(Nat) : s \o Append(t, x) = Append(s \o t, x)
  OBVIOUS
<1> QED
  BY <1>1, <1>2 DEF Received

LEMMA Receives ==
    ASSUME Typed, NEW d \in Dirs, Run(d), line[Final(d)] # <<>>,
           got' = [got EXCEPT ![d] = Append(@, Head(line[Final(d)]))],
           Take(Final(d)),
           UNCHANGED <<item, copier, sent, swallowed, ended, deaf, broken, caller>>
    PROVE  Run(d)' /\ Left(d)' = Left(d)
<1> DEFINE z == line[Final(d)]
           r == Received(d)
<1>1. /\ line'[Final(d)] = Tail(z) /\ line'[Middle(d)] = line[Middle(d)]
      /\ line'[First(d)] = line[First(d)]
  BY Places DEF Typed, LineOK, Take
<1>2. Open(d)' = Open(d) /\ Alive(Middle(d))' = Alive(Middle(d))
  BY DEF Open, Alive
<1>3. Holds(Far(d))' = Holds(Far(d)) /\ Holds(Near(d))' = Holds(Near(d))
  BY DEF Holds
<1>4. /\ z \in Seq(Nat) /\ z # <<>> /\ Len(z) \in Nat /\ Len(Tail(z)) = Len(z) - 1 /\ Head(z) \in Nat
      /\ r \in Seq(Nat) /\ Len(r) \in Nat /\ Len(Append(r, Head(z))) = Len(r) + 1
  BY Places, Numbers DEF Typed, LineOK
<1>5. Received(d)' = Append(r, Head(z))
  BY <1>4, ReceivedGrows
<1>6. Counts(r, 0) /\ Counts(z, Len(r)) /\ Arrived(d) = Len(r) + Len(z)
  BY DEF Run, FinalInv, Arrived
<1>7. Arrived(d)' = Len(Append(r, Head(z))) + Len(Tail(z))
  BY <1>1, <1>5 DEF Arrived
<1> HIDE DEF z, r
<1>8. Arrived(d)' = Arrived(d)
  BY <1>4, <1>6, <1>7
<1>9. Crossed(d)' = Crossed(d)
  BY <1>1, <1>3, <1>8 DEF Crossed
<1>10. Left(d)' = Left(d)
  BY <1>1, <1>3, <1>9 DEF Left
<1>11. Head(z) = Len(r) + 1 /\ Counts(Tail(z), Len(r) + 1)
  BY <1>4, <1>6, CountsTail
<1>12. Counts(Append(r, Head(z)), 0)
  BY <1>4, <1>6, <1>11, CountsAppend
<1>13. FinalInv(d)'
  BY <1>1, <1>4, <1>5, <1>8, <1>11, <1>12 DEF Run, FinalInv
<1>14. MiddleInv(d)' /\ FirstInv(d)'
  BY <1>1, <1>2, <1>3, <1>8, <1>9, <1>10 DEF Run, MiddleInv, FirstInv
<1> QED
  BY <1>10, <1>13, <1>14 DEF Run

\* Connections are only ever closed or broken, and a call that has a stream keeps it.
Shuts ==
    /\ ended \subseteq ended' /\ deaf \subseteq deaf' /\ broken \subseteq broken'
    /\ caller' # "ok" => caller # "ok"

LEMMA ShutsDown ==
    ASSUME Shuts
    PROVE  (\A l : Alive(l)' => Alive(l)) /\ (\A d : Open(d)' => Open(d))
  BY DEF Shuts, Alive, Open

\* Before a node serves the stream its copiers do not run, and the caller's
\* client has not received anything.  Over TCP nothing of ProxyConnUDP does run.
NotYet ==
    /\ loop = "off" /\ \A r \in Readers : reader[r] = "off"
    /\ handler # "serve" => \A d \in Dirs : copier[<<"handler", d>>] = "off"
    /\ caller # "ok" =>
          /\ \A d \in Dirs : copier[<<"caller", d>>] = "off"
          /\ swallowed = <<>> /\ got["down"] = <<>> /\ line[Final("down")] = <<>>

OrderInv == protocol = "tcp" => NotYet /\ \A d \in Dirs : Run(d)

Tcp == Typed /\ protocol = "tcp" /\ NotYet /\ \A d \in Dirs : Run(d)

\* A step that moves no item and starts no copier.
LEMMA Idle ==
    ASSUME Tcp, Shuts, UNCHANGED <<line, copier, item, sent, got, swallowed, loop, reader>>,
           handler' # "serve" => handler # "serve"
    PROVE  NotYet' /\ \A d \in Dirs : Run(d)' /\ Left(d)' = Left(d)
<1>1. NotYet'
  BY DEF Tcp, NotYet, Shuts
<1>2. ASSUME NEW d \in Dirs PROVE Run(d)' /\ Left(d)' = Left(d)
  <2>1. Received(d)' = Received(d) /\ \A k : Holds(k)' = Holds(k)
    BY DEF Received, Holds
  <2>2. Run(d)
    BY DEF Tcp
  <2> QED
    BY <2>1, <2>2, ShutsDown, NothingMoves
<1> QED
  BY <1>1, <1>2

LEMMA HandlerRuns ==
    ASSUME Tcp, ProxyStreamHandler
    PROVE  NotYet' /\ \A d \in Dirs : Run(d)' /\ Left(d)' = Left(d)
<1>1. CASE Handle \/ ReadConnect \/ Dial \/ WriteFailed
  <2>1. /\ UNCHANGED <<line, copier, item, sent, got, swallowed, loop, reader, ended, deaf, broken, caller>>
        /\ handler # "serve"
    BY <1>1 DEF Handle, ReadConnect, Dial, Dialled, WriteFailed, pvars, conns, apps, udp
  <2> QED
    BY <2>1, Idle DEF Shuts
<1>2. CASE WriteSuccess
  <2>1. /\ UNCHANGED <<line, item, sent, got, swallowed, loop, reader, ended, deaf, broken, caller>>
        /\ handler = "answer"
        /\ \/ handler' = "serve" /\ copier' = Started("handler")
           \/ UNCHANGED copier
    BY <1>2 DEF Tcp, WriteSuccess, conns, apps
  <2>2. CASE UNCHANGED copier
    BY <2>1, <2>2, Idle DEF Shuts
  <2>3. CASE handler' = "serve" /\ copier' = Started("handler")
    <3>1. \A k \in Copiers : copier'[k] = IF k[1] = "handler" THEN "read" ELSE copier[k]
      BY <2>3 DEF Started
    <3>2. \A k \in Copiers : k[1] = "handler" => copier[k] = "off"
      BY <2>1 DEF Tcp, NotYet, Copiers
    <3>3. NotYet'
      <4>1. \A d \in Dirs : <<"caller", d>> \in Copiers /\ copier'[<<"caller", d>>] = copier[<<"caller", d>>]
        BY <3>1 DEF Copiers, Nodes
      <4> QED
        BY <4>1, <2>1, <2>3 DEF Tcp, NotYet
    <3>4. ASSUME NEW d \in Dirs PROVE Run(d)' /\ Left(d)' = Left(d)
      <4>1. \A k \in {Near(d), Far(d)} : Holds(k)' = Holds(k)
        BY <3>1, <3>2, Places DEF Holds
      <4>2. Received(d)' = Received(d) /\ Open(d)' = Open(d) /\ Alive(Middle(d))' = Alive(Middle(d))
        BY <2>1 DEF Received, Open, Alive
      <4>3. Run(d)
        BY DEF Tcp
      <4> QED
        BY <4>1, <4>2, <4>3, <2>1, NothingMoves
    <3> QED
      BY <3>3, <3>4
  <2> QED
    BY <2>1, <2>2, <2>3
<1> QED
  BY <1>1, <1>2 DEF ProxyStreamHandler

\* The reader of the answer takes n items off the stream.
LEMMA Swallows ==
    ASSUME Tcp, caller = "await", caller' = "ok",
           NEW n \in 0 .. Len(line[DownLine]),
           swallowed' = SubSeq(line[DownLine], 1, n),
           line' = [line EXCEPT ![DownLine] = SubSeq(@, n + 1, Len(@))],
           copier' = Started("caller"),
           UNCHANGED <<item, sent, got, ended, deaf, broken, loop, reader, handler>>
    PROVE  NotYet' /\ \A d \in Dirs : Run(d)' /\ Left(d)' = Left(d)
<1>1. \A k \in Copiers : copier'[k] = IF k[1] = "caller" THEN "read" ELSE copier[k]
  BY DEF Started
<1>2. \A k \in Copiers : k[1] = "caller" => copier[k] = "off"
  BY DEF Tcp, NotYet, Copiers
<1>3. \A d \in Dirs : <<"handler", d>> \in Copiers
  BY DEF Copiers, Nodes
<1>4. NotYet'
  BY <1>1, <1>3 DEF Tcp, NotYet
<1>5. \A d \in Dirs, k \in Copiers : Holds(k)' = Holds(k)
  BY <1>1, <1>2 DEF Holds
<1>6. "up" \in Dirs /\ "down" \in Dirs /\ DownLine = Middle("down")
  BY DEF Dirs, DownLine, Middle
<1>7. Run("up")' /\ Left("up")' = Left("up")
  <2>1. \A l \in {First("up"), Middle("up"), Final("up")} : line'[l] = line[l]
    <3>1. DownLine \notin {First("up"), Middle("up"), Final("up")}
      BY <1>6, Apart
    <3> QED
      BY <3>1, Places, <1>6 DEF Tcp, Typed, LineOK
  <2>2. Received("up")' = Received("up")
    BY DEF Received
  <2>3. Open("up")' => Open("up")
    BY DEF Open, Alive
  <2>4. Alive(Middle("up"))' => Alive(Middle("up"))
    BY DEF Alive
  <2>5. \A k \in {Near("up"), Far("up")} : Holds(k)' = Holds(k) /\ item'[k] = item[k]
    BY <1>5, <1>6, Places
  <2>6. Run("up") /\ sent'["up"] = sent["up"]
    BY <1>6 DEF Tcp
  <2> QED
    BY <2>1, <2>2, <2>3, <2>4, <2>5, <2>6, <1>6, NothingMoves
<1>8. Run("down")' /\ Left("down")' = Left("down")
  <2> DEFINE m == line[Middle("down")]
             front == SubSeq(m, 1, n)
             back == SubSeq(m, n + 1, Len(m))
             f == line[First("down")]
             s == sent["down"]
  <2>1. /\ m \in Seq(Nat) /\ Len(m) \in Nat /\ n \in 0 .. Len(m) /\ n \in Nat
        /\ f \in Seq(Nat) /\ Len(f) \in Nat /\ s \in Seq(Nat) /\ Len(s) \in Nat
    BY <1>6, Places DEF Tcp, Typed, LineOK, AppsOK
  <2>2. front \in Seq(Nat) /\ back \in Seq(Nat)
    <3> HIDE DEF m
    <3>1. m \in Seq(Nat) /\ n \in 0 .. Len(m)
      BY <2>1
    <3> QED
      BY <3>1
  <2>3. /\ line'[Middle("down")] = back /\ line'[First("down")] = f
        /\ line'[Final("down")] = line[Final("down")] /\ line[Final("down")] = <<>>
    BY <1>6, Places DEF Tcp, Typed, LineOK, NotYet
  <2>4. got["down"] = <<>> /\ swallowed = <<>> /\ swallowed' = front /\ got' = got
    BY <1>6 DEF Tcp, NotYet
  <2>5. Received("down") = <<>> /\ Received("down")' = front
    <3>1. Received("down") = <<>> \o <<>> /\ Received("down")' = front \o <<>>
      BY <2>4 DEF Received
    <3> HIDE DEF front
    <3> QED
      BY <3>1, <2>2
  <2>6. Run("down") /\ Open("down")
    BY <1>6 DEF Tcp, Open
  <2>7. /\ Holds(Far("down")) = 0 /\ Holds(Far("down"))' = 0
        /\ Holds(Near("down"))' = Holds(Near("down"))
        /\ copier'[Far("down")] = "read" /\ copier'[Near("down")] = copier[Near("down")]
    BY <1>1, <1>2, <1>6, Places DEF Holds, Far, Near
  <2>8. Holds(Near("down")) \in Nat
    BY DEF Holds
  <2>9. Arrived("down") = 0 /\ Crossed("down") = Len(m)
    <3>1. Arrived("down") = 0
      BY <2>3, <2>5 DEF Arrived
    <3> QED
      BY <3>1, <2>1, <2>7 DEF Crossed
  <2>10. Counts(m, 0) /\ Len(m) <= Len(s) /\ Counts(s, 0)
    <3>1. Counts(m, Arrived("down") + Holds(Far("down"))) /\ Crossed("down") <= Len(s) /\ Counts(s, 0)
      BY <2>6 DEF Run, MiddleInv, FinalInv
    <3>2. Arrived("down") + Holds(Far("down")) = 0
      BY <2>7, <2>9
    <3> QED
      BY <3>1, <3>2, <2>9
  <2> HIDE DEF m
  <2>11. /\ Counts(front, 0) /\ Len(front) = n
         /\ Counts(back, n) /\ Len(back) = Len(m) - n
    <3>1. 0 \in Nat /\ Counts(back, 0 + n) /\ 0 + n = n
      BY <2>1, <2>10, CountsSplit
    <3> QED
      BY <3>1, <2>1, <2>10, CountsSplit
  <2> HIDE DEF front, back, f, s
  <2>12. Arrived("down")' = n
    <3>1. Arrived("down")' = Len(front) + Len(<<>>)
      BY <2>3, <2>5 DEF Arrived
    <3> QED
      BY <3>1, <2>11, <2>1
  <2>13. Crossed("down")' = Crossed("down")
    <3>1. Crossed("down")' = n + 0 + Len(back)
      BY <2>3, <2>7, <2>12 DEF Crossed
    <3> QED
      BY <3>1, <2>1, <2>9, <2>11
  <2>14. Left("down")' = Left("down")
    BY <2>3, <2>7, <2>13 DEF Left, f
  <2>15. sent'["down"] = s /\ n <= Len(s)
    BY <2>1, <2>10 DEF s
  <2>16. FinalInv("down")'
    <3>1. Counts(<<>>, Len(front))
      BY DEF Counts
    <3> QED
      BY <3>1, <2>3, <2>5, <2>10, <2>11, <2>12, <2>15 DEF FinalInv
  <2>17. MiddleInv("down")'
    <3>1. n + 0 = n
      <4>1. n \in Nat
        BY <2>1
      <4> QED
        BY <4>1
    <3> QED
      BY <3>1, <2>3, <2>7, <2>9, <2>10, <2>11, <2>12, <2>13, <2>15 DEF MiddleInv
  <2>18. FirstInv("down")'
    <3>1. Alive(Middle("down"))' => Alive(Middle("down"))
      BY DEF Alive
    <3> QED
      BY <3>1, <2>3, <2>6, <2>7, <2>13, <2>14, <2>15 DEF Run, FirstInv, f, s
  <2> QED
    BY <2>14, <2>16, <2>17, <2>18 DEF Run
<1> QED
  BY <1>4, <1>7, <1>8 DEF Dirs

LEMMA CallerRuns ==
    ASSUME Tcp, GetProxyStream
    PROVE  NotYet' /\ \A d \in Dirs : Run(d)'
<1>1. CASE NewStream \/ WriteConnect \/ ReadAnswerFails
  <2>1. /\ UNCHANGED <<line, copier, item, sent, got, swallowed, loop, reader, handler>>
        /\ ended \subseteq ended' /\ deaf \subseteq deaf' /\ broken \subseteq broken'
        /\ caller # "ok"
    BY <1>1 DEF NewStream, WriteConnect, ReadAnswerFails, Reset, Fail, CloseEnd, apps, udp
  <2> QED
    BY <2>1, Idle DEF Shuts
<1>2. CASE ReadAnswer
  <2>1. caller = "await" /\ UNCHANGED <<item, sent, got, loop, reader, handler>>
    BY <1>2 DEF ReadAnswer, apps, udp
  <2>2. ASSUME Reset, UNCHANGED swallowed PROVE NotYet' /\ \A d \in Dirs : Run(d)'
    <3>1. /\ UNCHANGED <<line, copier, item, sent, got, swallowed, loop, reader, handler>>
          /\ ended \subseteq ended' /\ deaf \subseteq deaf' /\ broken \subseteq broken'
          /\ caller # "ok"
      BY <2>1, <2>2 DEF Reset, Fail, CloseEnd
    <3> QED
      BY <3>1, Idle DEF Shuts
  <2>3. ASSUME ~(Reset /\ UNCHANGED swallowed) PROVE NotYet' /\ \A d \in Dirs : Run(d)'
    <3>1. PICK n \in 0 .. Len(line[DownLine]) :
              /\ swallowed' = SubSeq(line[DownLine], 1, n)
              /\ line' = [line EXCEPT ![DownLine] = SubSeq(@, n + 1, Len(@))]
      BY <1>2, <2>3 DEF ReadAnswer
    <3>2. caller' = "ok" /\ copier' = Started("caller") /\ UNCHANGED <<ended, deaf, broken>>
      BY <1>2, <2>3 DEF ReadAnswer
    <3> QED
      BY <2>1, <3>1, <3>2, Swallows
  <2> QED
    BY <2>2, <2>3
<1> QED
  BY <1>1, <1>2 DEF GetProxyStream

\* A copier that runs belongs to a node that serves the stream, and leaves alone
\* what NotYet says of the other.
LEMMA CopyNotYet ==
    ASSUME Tcp, NEW k \in Copiers, Copy(k)
    PROVE  NotYet' /\ (caller # "ok" => k[1] = "handler")
<1>1. UNCHANGED <<loop, reader, handler, caller, swallowed, got>> /\ copier[k] # "off"
  BY DEF Copy, CopyBytes, Read, Write, CloseDest, CloseSrc, udp, call, apps
<1>2. \A j \in Copiers : j # k => copier'[j] = copier[j]
  BY DEF Copy, CopyBytes, Read, Write, CloseDest, CloseSrc, Step, Tcp, Typed, CopiersOK
<1>3. \A d \in Dirs : <<"caller", d>> \in Copiers /\ <<"handler", d>> \in Copiers
  BY DEF Copiers, Nodes
<1>4. ASSUME handler # "serve" PROVE \A d \in Dirs : copier'[<<"handler", d>>] = "off"
  <2>1. \A d \in Dirs : copier[<<"handler", d>>] = "off"
    BY <1>4 DEF Tcp, NotYet
  <2>2. \A d \in Dirs : <<"handler", d>> # k
    BY <1>1, <2>1
  <2> QED
    BY <1>2, <1>3, <2>1, <2>2
<1>5. ASSUME caller # "ok"
      PROVE  k[1] = "handler" /\ \A d \in Dirs : copier'[<<"caller", d>>] = "off"
  <2>1. \A d \in Dirs : copier[<<"caller", d>>] = "off"
    BY <1>5 DEF Tcp, NotYet
  <2>2. \A d \in Dirs : <<"caller", d>> # k
    BY <1>1, <2>1
  <2>3. k[1] = "handler"
    BY <2>2 DEF Copiers, Nodes
  <2> QED
    BY <1>2, <1>3, <2>1, <2>2, <2>3
<1>6. ASSUME caller # "ok" PROVE line'[Final("down")] = line[Final("down")]
  <2>1. Final("down") \in Lines
    BY Places DEF Dirs
  <2>2. Final("down") # Src(k) /\ Final("down") # Dest(k)
    BY <1>5, <1>6 DEF Final, Target, Src, Dest, In, Out, Other, Copiers, Dirs
  <2> QED
    BY <2>1, <2>2 DEF Copy, CopyBytes, Read, Write, CloseDest, CloseSrc, Take, Put, Tcp, Typed, LineOK
<1> QED
  BY <1>1, <1>4, <1>5, <1>6 DEF Tcp, NotYet

\* The other direction does not notice.
LEMMA CopyElsewhere ==
    ASSUME Tcp, NEW k \in Copiers, Copy(k), NEW d \in Dirs, d # k[2]
    PROVE  Run(d)' /\ Left(d)' = Left(d)
<1>1. k[2] \in Dirs /\ k \in {Near(k[2]), Far(k[2])}
  BY EveryCopier
<1>2. {Src(k), Dest(k)} \subseteq {First(k[2]), Middle(k[2]), Final(k[2])}
  BY <1>1, Places
<1>3. \A l \in {First(d), Middle(d), Final(d)} : line'[l] = line[l]
  <2>1. \A l \in {First(d), Middle(d), Final(d)} : l \in Lines /\ l # Src(k) /\ l # Dest(k)
    BY <1>1, <1>2, Apart, Places
  <2> QED
    BY <2>1 DEF Copy, CopyBytes, Read, Write, CloseDest, CloseSrc, Take, Put, Tcp, Typed, LineOK
<1>4. \A j \in {Near(d), Far(d)} : copier'[j] = copier[j] /\ item'[j] = item[j]
  <2>1. \A j \in {Near(d), Far(d)} : j \in Copiers /\ j # k
    BY <1>1, Apart, Places
  <2> QED
    BY <2>1 DEF Copy, CopyBytes, Read, Write, CloseDest, CloseSrc, Step, Tcp, Typed, CopiersOK
<1>5. /\ UNCHANGED <<sent, got, swallowed, caller>>
      /\ ended \subseteq ended' /\ deaf \subseteq deaf' /\ broken \subseteq broken'
  BY DEF Copy, CopyBytes, Read, Write, CloseDest, CloseSrc, CloseEnd, apps, call
<1>6. Received(d)' = Received(d) /\ (Open(d)' => Open(d)) /\ (Alive(Middle(d))' => Alive(Middle(d)))
  BY <1>5, ShutsDown DEF Received, Shuts
<1>7. Run(d) /\ sent'[d] = sent[d] /\ \A j \in {Near(d), Far(d)} : Holds(j)' = Holds(j)
  BY <1>4, <1>5 DEF Tcp, Holds
<1> QED
  BY <1>3, <1>4, <1>6, <1>7, NothingMoves

LEMMA CopyRuns ==
    ASSUME Tcp, NEW k \in Copiers, Copy(k)
    PROVE  NotYet' /\ \A d \in Dirs : Run(d)'
<1>1. NotYet'
  BY CopyNotYet
<1> SUFFICES ASSUME NEW d \in Dirs, d = k[2] PROVE Run(d)'
  BY <1>1, CopyElsewhere
<1>2. k \in {Near(d), Far(d)}
  BY EveryCopier
<1>3. Typed /\ Run(d) /\ UNCHANGED <<sent, got, swallowed, caller>>
  BY DEF Tcp, Copy, CopyBytes, Read, Write, CloseDest, CloseSrc, apps, call
<1>4. Received(d)' = Received(d) /\ sent'[d] = sent[d]
  BY <1>3 DEF Received
\* The copier closes, or finds the end of what it reads.
<1>5. CASE CloseDest(k) \/ CloseSrc(k) \/ (Read(k) /\ Step(k, "closeDest"))
  <2>1. /\ UNCHANGED <<line, item>>
        /\ ended \subseteq ended' /\ deaf \subseteq deaf' /\ broken \subseteq broken'
        /\ copier[k] # "write" /\ copier' \in {[copier EXCEPT ![k] = c] : c \in {"closeDest", "closeSrc", "done"}}
    BY <1>5 DEF CloseDest, CloseSrc, CloseEnd, Read, Step, Tcp, Typed, CopiersOK
  <2>2. \A j \in Copiers : Holds(j)' = Holds(j)
    BY <2>1 DEF Holds, Tcp, Typed, CopiersOK
  <2> QED
    BY <2>1, <2>2, <1>3, <1>4, Places, ShutsDown, NothingMoves DEF Shuts
<1>6. CASE Read(k) /\ ~Step(k, "closeDest")
  <2>1. /\ copier[k] = "read" /\ line[Src(k)] # <<>> /\ Take(Src(k)) /\ Step(k, "write")
        /\ item' = [item EXCEPT ![k] = Head(line[Src(k)])]
        /\ UNCHANGED <<ended, deaf, broken>>
    BY <1>6 DEF Read
  <2>2. CASE k = Near(d)
    BY <2>1, <2>2, <1>3, Places, NearReads DEF Step
  <2>3. CASE k = Far(d)
    BY <2>1, <2>3, <1>3, Places, FarReads DEF Step
  <2> QED
    BY <1>2, <2>2, <2>3
<1>7. CASE Write(k)
  <2>1. /\ copier[k] = "write" /\ item' = [item EXCEPT ![k] = 0]
        /\ UNCHANGED <<ended, deaf, broken>>
    BY <1>7 DEF Write
  <2>2. ASSUME Alive(Dest(k)), Put(Dest(k), item[k]), Step(k, "read") PROVE Run(d)'
    <3>1. CASE k = Near(d)
      BY <2>1, <2>2, <3>1, <1>3, Places, NearWrites DEF Step
    <3>2. CASE k = Far(d)
      BY <2>1, <2>2, <3>2, <1>3, Places, FarWrites DEF Step
    <3> QED
      BY <1>2, <3>1, <3>2
  <2>3. ASSUME ~Alive(Dest(k)), UNCHANGED line PROVE Run(d)'
    <3>1. ~Alive(Dest(k))'
      BY <2>1, <2>3 DEF Alive
    <3>2. CASE k = Near(d)
      <4>1. copier'[Far(d)] = copier[Far(d)] /\ item'[Far(d)] = item[Far(d)]
        <5>1. Far(d) # k /\ Far(d) \in Copiers
          BY <3>2, Places
        <5> QED
          BY <5>1, <2>1, <1>7 DEF Write, Step, Tcp, Typed, CopiersOK
      <4>2. Open(d)' => Open(d)
        BY <2>1, <1>3, ShutsDown DEF Shuts
      <4>3. ~Alive(Middle(d))'
        BY <3>1, <3>2, Places
      <4> QED
        BY <4>1, <4>2, <4>3, <2>3, <1>3, <1>4, NearLoses
    <3>3. CASE k = Far(d)
      <4>1. d = "down" => caller = "ok"
        BY <3>3, CopyNotYet DEF Far
      <4>2. ~Open(d)'
        BY <4>1, <3>1, <3>3, <1>3, Places DEF Open
      <4> QED
        BY <4>2, <2>3, <1>3, <1>4, FarLoses
    <3> QED
      BY <1>2, <3>2, <3>3
  <2> QED
    BY <1>7, <2>2, <2>3 DEF Write, Alive
<1> QED
  BY <1>5, <1>6, <1>7 DEF Copy, CopyBytes

\* The applications touch the two ends of a direction only.
LEMMA AppsRun ==
    ASSUME Tcp, (\E d \in Dirs : Apps(d)) \/ LoseStream
    PROVE  NotYet' /\ \A d \in Dirs : Run(d)'
<1>1. CASE LoseStream
  <2>1. /\ UNCHANGED <<line, copier, item, sent, got, swallowed, loop, reader, handler, caller>>
        /\ ended \subseteq ended' /\ deaf \subseteq deaf' /\ broken \subseteq broken'
    BY <1>1 DEF LoseStream, Break, udp, call
  <2> QED
    BY <2>1, Idle DEF Shuts
<1>2. ASSUME NEW e \in Dirs, AppEnds(e), UNCHANGED <<udp, call>>
      PROVE  NotYet' /\ \A d \in Dirs : Run(d)'
  <2>1. /\ UNCHANGED <<line, copier, item, sent, got, swallowed, loop, reader, handler, caller>>
        /\ ended \subseteq ended' /\ deaf \subseteq deaf' /\ broken \subseteq broken'
    BY <1>2 DEF AppEnds, CloseEnd, udp, call
  <2> QED
    BY <2>1, Idle DEF Shuts
<1>3. ASSUME NEW e \in Dirs, AppSends(e) \/ AppReceives(e), UNCHANGED <<udp, call>>
      PROVE  NotYet' /\ \A d \in Dirs : Run(d)'
  <2>1. UNCHANGED <<copier, item, swallowed, loop, reader, handler, caller, ended, deaf, broken>>
    BY <1>3 DEF AppSends, AppReceives, udp, call
  <2>2. Final("down") \in Lines /\ \A d \in Dirs : First(d) # Final("down")
    BY Places DEF First, Final, Origin, Target, Dirs
  <2>3. NotYet'
    <3>1. ASSUME caller # "ok" PROVE got'["down"] = <<>> /\ line'[Final("down")] = <<>>
      <4>1. got["down"] = <<>> /\ line[Final("down")] = <<>>
        BY <3>1 DEF Tcp, NotYet
      <4>2. CASE AppSends(e)
        BY <4>1, <4>2, <2>2 DEF AppSends, Put, First, Tcp, Typed, LineOK
      <4>3. CASE AppReceives(e)
        <5>1. e # "down"
          BY <4>1, <4>3 DEF AppReceives, Final
        <5>2. Final(e) # Final("down")
          BY <5>1, Apart DEF Dirs
        <5> QED
          BY <4>1, <4>3, <5>1, <5>2, <2>2 DEF AppReceives, Take, Final, Tcp, Typed, LineOK, AppsOK
      <4> QED
        BY <1>3, <4>2, <4>3
    <3> QED
      BY <3>1, <2>1 DEF Tcp, NotYet
  <2>4. ASSUME NEW d \in Dirs, d # e PROVE Run(d)'
    <3>1. \A l \in {First(d), Middle(d), Final(d)} : line'[l] = line[l]
      <4>1. \A l \in {First(d), Middle(d), Final(d)} : l \in Lines /\ l # First(e) /\ l # Final(e)
        BY <2>4, Apart, Places
      <4> QED
        BY <4>1, <1>3 DEF AppSends, AppReceives, Take, Put, First, Final, Tcp, Typed, LineOK
    <3>2. sent'[d] = sent[d] /\ got'[d] = got[d]
      BY <2>4, <1>3 DEF AppSends, AppReceives, Tcp, Typed, AppsOK
    <3>3. Received(d)' = Received(d) /\ Open(d)' = Open(d) /\ Alive(Middle(d))' = Alive(Middle(d))
      BY <2>1, <3>2 DEF Received, Open, Alive
    <3>4. Run(d) /\ \A j : Holds(j)' = Holds(j) /\ item'[j] = item[j]
      BY <2>1 DEF Tcp, Holds
    <3> QED
      BY <3>1, <3>2, <3>3, <3>4, NothingMoves
  <2>5. Run(e)'
    <3>1. Typed /\ Run(e)
      BY DEF Tcp
    <3>2. CASE AppSends(e)
      BY <3>1, <3>2, <2>1, Sends DEF AppSends, First
    <3>3. CASE AppReceives(e)
      BY <3>1, <3>3, <2>1, Receives DEF AppReceives, Final
    <3> QED
      BY <1>3, <3>2, <3>3
  <2> QED
    BY <2>3, <2>4, <2>5
<1> QED
  BY <1>1, <1>2, <1>3 DEF Apps

LEMMA ProtocolKept == [Next]_vars => protocol' = protocol
<1> SUFFICES ASSUME [Next]_vars PROVE protocol' = protocol
  OBVIOUS
<1>1. CASE GetProxyStream \/ ProxyStreamHandler \/ UNCHANGED vars
  BY <1>1 DEF GetProxyStream, NewStream, WriteConnect, ReadAnswer, ReadAnswerFails, Reset, Fail,
     CloseEnd, ProxyStreamHandler, Handle, ReadConnect, Dial, WriteFailed, WriteSuccess, vars, pvars, conns
<1>2. ASSUME NEW k \in Copiers, Copy(k) PROVE protocol' = protocol
  BY <1>2 DEF Copy, CopyBytes, Read, Write, CloseDest, CloseSrc
<1>3. CASE UdpLoop \/ DeadlinePasses
  BY <1>3 DEF UdpLoop, ProxyConnUDP, LoopRead, Spawn, LoopWrite, LoopArm, DeadlinePasses, pvars, conns
<1>4. ASSUME NEW r \in Readers, UdpReader(r) \/ UdpRefused(r) PROVE protocol' = protocol
  BY <1>4 DEF UdpReader, CopyDatagram, UdpRead, UdpArm, UdpWrite, UdpClose, UdpRefused, pvars, conns
<1>5. ASSUME NEW d \in Dirs, Apps(d) PROVE protocol' = protocol
  BY <1>5 DEF Apps, AppSends, AppReceives, AppEnds
<1>6. CASE LoseStream
  BY <1>6 DEF LoseStream, Break
<1> QED
  BY <1>1, <1>2, <1>3, <1>4, <1>5, <1>6 DEF Next, System

LEMMA OrderKept == Typed /\ OrderInv /\ [Next]_vars => OrderInv'
<1> SUFFICES ASSUME Typed, OrderInv, [Next]_vars, protocol' = "tcp"
             PROVE  NotYet' /\ \A d \in Dirs : Run(d)'
  BY DEF OrderInv
<1>1. protocol' = protocol
  BY ProtocolKept
<1>2. Tcp
  BY <1>1 DEF OrderInv, Tcp
<1>3. loop = "off" /\ \A r \in Readers : reader[r] = "off"
  BY <1>2 DEF Tcp, NotYet
<1>4. ~UdpLoop
  BY <1>3 DEF UdpLoop, ProxyConnUDP, LoopRead, Spawn, LoopWrite, LoopArm
<1>5. \A r \in Readers : ~UdpReader(r) /\ ~UdpRefused(r)
  BY <1>3 DEF UdpReader, CopyDatagram, UdpRead, UdpArm, UdpWrite, UdpClose, UdpRefused
<1>6. CASE (DeadlinePasses /\ UNCHANGED call) \/ UNCHANGED vars
  <2>1. /\ UNCHANGED <<line, copier, item, sent, got, swallowed, loop, reader, handler, caller>>
        /\ UNCHANGED <<ended, deaf, broken>>
    BY <1>6 DEF DeadlinePasses, vars, pvars, conns, apps, udp, call
  <2> QED
    BY <2>1, <1>2, Idle DEF Shuts
<1> QED
  BY <1>2, <1>4, <1>5, <1>6, CallerRuns, HandlerRuns, CopyRuns, AppsRun DEF Next, System

LEMMA InitOrder == Init => OrderInv
<1> SUFFICES ASSUME Init PROVE NotYet /\ \A d \in Dirs : Run(d)
  BY DEF OrderInv
<1>1. "down" \in Dirs /\ \A d \in Dirs, n \in Nodes : <<n, d>> \in Copiers
  BY DEF Dirs, Copiers
<1>2. NotYet
  BY <1>1, Places DEF Init, PInit, UInit, NotYet, Nodes
<1>3. ASSUME NEW d \in Dirs PROVE Run(d)
  <2>1. /\ line[First(d)] = <<>> /\ line[Middle(d)] = <<>> /\ line[Final(d)] = <<>>
        /\ sent[d] = <<>> /\ got[d] = <<>> /\ swallowed = <<>>
        /\ copier[Near(d)] = "off" /\ copier[Far(d)] = "off"
    BY Places DEF Init, PInit
  <2>2. Received(d) = <<>>
    BY <2>1 DEF Received
  <2>3. Holds(Near(d)) = 0 /\ Holds(Far(d)) = 0
    BY <2>1 DEF Holds
  <2>4. Arrived(d) = 0
    BY <2>1, <2>2 DEF Arrived
  <2>5. Crossed(d) = 0
    BY <2>1, <2>3, <2>4 DEF Crossed
  <2>6. Left(d) = 0
    BY <2>1, <2>3, <2>5 DEF Left
  <2>7. Len(sent[d]) = 0 /\ \A n : Counts(<<>>, n)
    BY <2>1 DEF Counts
  <2> QED
    BY <2>1, <2>2, <2>3, <2>4, <2>5, <2>6, <2>7 DEF Run, FinalInv, MiddleInv, FirstInv
<1> QED
  BY <1>2, <1>3

\* Whatever breaks, blocks or closes: over TCP each application has received the
\* beginning of what the other sent, in order and once, but for what the reader of
\* the answer took with it; for any amount of data and any room on the way.
THEOREM ArrivesInOrder == Spec => []InOrder
<1>1. Init => OrderInv
  BY InitOrder
<1>2. Typed /\ OrderInv => InOrder
  <2> SUFFICES ASSUME Typed, OrderInv, protocol = "tcp", NEW d \in Dirs
               PROVE  IsPrefix(Received(d), sent[d])
    BY DEF InOrder
  <2>1. /\ Counts(sent[d], 0) /\ Counts(Received(d), 0)
        /\ Len(Received(d)) + Len(line[Final(d)]) <= Len(sent[d])
    BY DEF OrderInv, Run, FinalInv, Arrived
  <2>2. /\ Received(d) \in Seq(Nat) /\ sent[d] \in Seq(Nat)
        /\ Len(Received(d)) \in Nat /\ Len(line[Final(d)]) \in Nat /\ Len(sent[d]) \in Nat
    BY Numbers, Places
  <2>3. Len(Received(d)) <= Len(sent[d])
    BY <2>1, <2>2
  <2> QED
    BY <2>1, <2>2, <2>3, CountsPrefix
<1> QED
  BY <1>1, <1>2, InitTyped, TypedKept, OrderKept, PTL DEF Spec

-------------------------------------------------------------------------------
(* What is received when nobody is in the way.  e is the other direction.  *)

\* Nobody has ended anything yet.
Calm == ended = {} /\ deaf = {} /\ broken = {} /\ \A k \in Copiers : ~Past(k)

\* Nothing is under way in direction e, and its application may still end it.
Silent(e) ==
    /\ First(e) \notin ended
    /\ line[First(e)] = <<>> /\ line[Middle(e)] = <<>> /\ line[Final(e)] = <<>>
    /\ copier[Near(e)] # "write" /\ copier[Far(e)] # "write"

\* The end comes down the direction from copier to copier: on each node the copier
\* of d is the first to stop, and closes what the others trip over.
NearFirst(d) == LET e == Other(d) IN
    Past(Far(d)) \/ Past(Far(e)) \/ Middle(d) \in ended \/ First(d) \in deaf \/ Middle(e) \in deaf
        => Past(Near(d))
FarNext(d) == LET e == Other(d) IN
    Past(Near(e)) \/ Final(d) \in ended \/ Middle(e) \in ended \/ First(e) \in deaf \/ Middle(d) \in deaf
        => Past(Far(d))

\* Direction d was ended quietly.  Nothing of it is lost, and a copier stops when
\* it has copied all.
Ebbs(d) ==
    /\ broken = {} /\ First(d) \in ended /\ Final(d) \notin deaf
    /\ Silent(Other(d))
    /\ NearFirst(d) /\ FarNext(d)
    /\ Past(Near(d)) => line[First(d)] = <<>>
    /\ Past(Far(d)) => line[Middle(d)] = <<>>
    /\ Left(d) = Len(sent[d])

Whole(d) == quiet[d] => (First(d) \notin ended /\ Calm) \/ Ebbs(d)

WholeInv == protocol = "tcp" /\ caller # "failed" => \A d \in Dirs : Whole(d)

\* The copiers of the two directions, and the lines.
LEMMA Sides ==
    ASSUME NEW d \in Dirs, NEW e, e = Other(d)
    PROVE  /\ e \in Dirs /\ e # d /\ Other(e) = d /\ Dirs = {d, e}
           /\ Copiers = {Near(d), Far(d), Near(e), Far(e)}
           /\ First(e) = <<Target(d), e>> /\ Final(e) = <<Origin(d), e>>
           /\ First(d) = <<Origin(d), d>> /\ Final(d) = <<Target(d), d>>
  BY DEF Other, Dirs, Copiers, Nodes, Near, Far, First, Final, Origin, Target

\* What a copier closes.
LEMMA Closings ==
    ASSUME NEW d \in Dirs, NEW e, e = Other(d)
    PROVE  /\ CloseDest(Near(d)) \/ CloseSrc(Far(e)) =>
                 ended' = ended \cup {Middle(d)} /\ deaf' = deaf \cup {Middle(e)}
           /\ CloseSrc(Near(d)) \/ CloseDest(Far(e)) =>
                 ended' = ended \cup {Final(e)} /\ deaf' = deaf \cup {First(d)}
           /\ CloseDest(Far(d)) \/ CloseSrc(Near(e)) =>
                 ended' = ended \cup {Final(d)} /\ deaf' = deaf \cup {First(e)}
           /\ CloseSrc(Far(d)) \/ CloseDest(Near(e)) =>
                 ended' = ended \cup {Middle(e)} /\ deaf' = deaf \cup {Middle(d)}
<1>1. CASE d = "up"
  <2>1. e = "down"
    BY <1>1 DEF Other
  <2> QED
    BY <1>1, <2>1 DEF CloseDest, CloseSrc, CloseEnd, Src, Dest, In, Out, Other, First, Middle, Final,
       Near, Far, Origin, Target
<1>2. CASE d = "down"
  <2>1. e = "up"
    BY <1>2 DEF Other
  <2> QED
    BY <1>2, <2>1 DEF CloseDest, CloseSrc, CloseEnd, Src, Dest, In, Out, Other, First, Middle, Final,
       Near, Far, Origin, Target
<1> QED
  BY <1>1, <1>2 DEF Dirs

\* Until the near copier has copied all, nothing that was sent is lost.
LEMMA NothingLost ==
    ASSUME NEW d \in Dirs, Run(d)', broken' = {}, Final(d) \notin deaf', NearFirst(d)', FarNext(d)',
           ~Past(Near(d))'
    PROVE  Left(d)' = Len(sent[d])'
<1>1. Alive(Middle(d))' /\ Alive(Final(d))'
  BY DEF NearFirst, FarNext, Alive
<1> QED
  BY <1>1 DEF Run, FirstInv, Open

\* A step that stops no copier and closes nothing.
LEMMA StillWhole ==
    ASSUME NEW d \in Dirs, NEW e, e = Other(d), Whole(d), quiet'[d] => quiet[d],
           UNCHANGED <<ended, deaf, broken>>, \A k \in Copiers : Past(k)' <=> Past(k),
           First(d) \in ended /\ quiet[d] /\ Ebbs(d) =>
               /\ sent'[d] = sent[d] /\ Left(d)' = Left(d)
               /\ line[First(d)] = <<>> => line'[First(d)] = <<>>
               /\ line[Middle(d)] = <<>> => line'[Middle(d)] = <<>>
               /\ \A l \in {First(e), Middle(e), Final(e)} : line'[l] = <<>>
               /\ copier'[Near(e)] # "write" /\ copier'[Far(e)] # "write"
    PROVE  Whole(d)'
<1> SUFFICES ASSUME quiet'[d] PROVE ((First(d) \notin ended /\ Calm) \/ Ebbs(d))'
  BY DEF Whole
<1>1. CASE First(d) \notin ended /\ Calm
  BY <1>1 DEF Calm
<1>2. CASE Ebbs(d)
  <2>1. /\ \A k \in {Near(d), Far(d), Near(e), Far(e)} : Past(k)' <=> Past(k)
        /\ First(d) \in ended /\ quiet[d]
    BY <1>2, Sides DEF Ebbs
  <2>2. Silent(e)'
    BY <1>2, <2>1 DEF Ebbs, Silent
  <2>3. NearFirst(d)' /\ FarNext(d)'
    BY <1>2, <2>1 DEF Ebbs, NearFirst, FarNext
  <2>4. Left(d)' = Len(sent[d])'
    BY <1>2, <2>1 DEF Ebbs
  <2> QED
    BY <1>2, <2>1, <2>2, <2>3, <2>4 DEF Ebbs
<1> QED
  BY <1>1, <1>2 DEF Whole

LEMMA WholeIdle ==
    ASSUME NEW d \in Dirs, Whole(d), quiet' = quiet, UNCHANGED <<ended, deaf, broken, line, sent>>,
           \A k \in Copiers : (Past(k)' <=> Past(k)) /\ Holds(k)' = Holds(k), Left(d)' = Left(d)
    PROVE  Whole(d)'
<1> DEFINE e == Other(d)
<1>1. e \in Dirs /\ Near(e) \in Copiers /\ Far(e) \in Copiers
  BY Sides, Places
<1>2. Ebbs(d) => copier'[Near(e)] # "write" /\ copier'[Far(e)] # "write"
  <2>1. Ebbs(d) => Holds(Near(e)) = 0 /\ Holds(Far(e)) = 0
    BY DEF Ebbs, Silent, Holds
  <2> QED
    BY <1>1, <2>1 DEF Holds
<1>3. Ebbs(d) => \A l \in {First(e), Middle(e), Final(e)} : line'[l] = <<>>
  BY DEF Ebbs, Silent
<1> QED
  BY <1>2, <1>3, StillWhole

LEMMA HandshakeWhole ==
    ASSUME Tcp, GetProxyStream \/ ProxyStreamHandler, caller' # "failed", NEW d \in Dirs, Whole(d)
    PROVE  Whole(d)'
<1>1. UNCHANGED <<ended, deaf, broken, sent, got, quiet, item, loop, reader>>
  BY DEF Tcp, GetProxyStream, NewStream, WriteConnect, ReadAnswer, ReadAnswerFails, Reset, Fail,
     ProxyStreamHandler, Handle, ReadConnect, Dial, Dialled, WriteFailed, WriteSuccess, pvars, conns,
     apps, udp
<1>2. CASE ProxyStreamHandler
  <2>1. UNCHANGED line /\ Left(d)' = Left(d)
    BY <1>2, HandlerRuns DEF ProxyStreamHandler, Handle, ReadConnect, Dial, Dialled, WriteFailed,
       WriteSuccess, pvars, conns
  <2>2. UNCHANGED copier \/ (handler = "answer" /\ copier' = Started("handler"))
    BY <1>2 DEF ProxyStreamHandler, Handle, ReadConnect, Dial, Dialled, WriteFailed, WriteSuccess, pvars
  <2>3. \A k \in Copiers : (Past(k)' <=> Past(k)) /\ Holds(k)' = Holds(k)
    <3>1. CASE UNCHANGED copier
      BY <3>1 DEF Past, Holds
    <3>2. CASE handler = "answer" /\ copier' = Started("handler")
      <4>1. \A k \in Copiers : k[1] = "handler" => copier[k] = "off"
        BY <3>2 DEF Tcp, NotYet, Copiers
      <4> QED
        BY <3>2, <4>1 DEF Started, Past, Holds
    <3> QED
      BY <2>2, <3>1, <3>2
  <2> QED
    BY <1>1, <2>1, <2>3, WholeIdle
<1>3. CASE NewStream \/ WriteConnect \/ ReadAnswerFails
  <2>1. UNCHANGED <<line, copier, swallowed>> /\ caller # "ok" /\ UNCHANGED handler
    BY <1>3 DEF NewStream, WriteConnect, ReadAnswerFails, Reset, Fail
  <2>2. Left(d)' = Left(d)
    BY <1>1, <2>1, Idle DEF Shuts
  <2>3. \A k \in Copiers : (Past(k)' <=> Past(k)) /\ Holds(k)' = Holds(k)
    BY <2>1 DEF Past, Holds
  <2> QED
    BY <1>1, <2>1, <2>2, <2>3, WholeIdle
<1>4. CASE ReadAnswer
  <2> DEFINE e == Other(d)
             m == line[DownLine]
  <2>1. PICK n \in 0 .. Len(line[DownLine]) :
              /\ swallowed' = SubSeq(line[DownLine], 1, n)
              /\ line' = [line EXCEPT ![DownLine] = SubSeq(@, n + 1, Len(@))]
    BY <1>4 DEF ReadAnswer, Reset, Fail
  <2>2. caller = "await" /\ caller' = "ok" /\ copier' = Started("caller") /\ UNCHANGED handler
    BY <1>4 DEF ReadAnswer, Reset, Fail
  <2>3. Left(d)' = Left(d)
    BY <1>1, <2>1, <2>2, Swallows
  <2>4. \A k \in Copiers : (Past(k)' <=> Past(k)) /\ (copier[k] # "write" => copier'[k] # "write")
    <3>1. \A k \in Copiers : k[1] = "caller" => copier[k] = "off"
      BY <2>2 DEF Tcp, NotYet, Copiers
    <3> QED
      BY <2>2, <3>1 DEF Started, Past
  <2>5. \A l \in Lines : line[l] = <<>> => line'[l] = <<>>
    <3>1. DownLine \in Lines /\ m \in Seq(Nat)
      BY LinesAre DEF Tcp, Typed, LineOK
    <3>2. m = <<>> => SubSeq(m, n + 1, Len(m)) = <<>>
      <4> SUFFICES ASSUME m = <<>> PROVE SubSeq(<<>>, n + 1, 0) = <<>>
        OBVIOUS
      <4>1. n = 0
        BY <2>1
      <4> QED
        BY <4>1
    <3> QED
      BY <2>1, <3>1, <3>2 DEF Tcp, Typed, LineOK
  <2>6. /\ e \in Dirs /\ First(d) \in Lines /\ Middle(d) \in Lines
        /\ \A l \in {First(e), Middle(e), Final(e)} : l \in Lines
        /\ Near(e) \in Copiers /\ Far(e) \in Copiers
    BY Sides, Places
  <2>7. Ebbs(d) =>
            /\ \A l \in {First(e), Middle(e), Final(e)} : line'[l] = <<>>
            /\ copier'[Near(e)] # "write" /\ copier'[Far(e)] # "write"
    BY <2>4, <2>5, <2>6 DEF Ebbs, Silent
  <2> QED
    BY <1>1, <2>3, <2>4, <2>5, <2>6, <2>7, StillWhole
<1> QED
  BY <1>2, <1>3, <1>4 DEF GetProxyStream

\* An application that has received all that was sent ends first.
LEMMA EndsFirst ==
    ASSUME Tcp, NEW d \in Dirs, Calm, First(d) \notin ended, AppEnds(d), swallowed' = swallowed, quiet'[d]
    PROVE  Ebbs(d)'
<1> DEFINE e == Other(d)
<1>1. e \in Dirs /\ e # d /\ Other(e) = d /\ Final(e) = <<Origin(d), e>> /\ First(d) = <<Origin(d), d>>
  BY Sides
<1>3. got[e] = sent[e]
  BY <1>1 DEF AppEnds, Disturb
<1>4. Alive(Final(e)) /\ Alive(Middle(e)) /\ Alive(Final(d)) /\ Alive(Middle(d))
  BY DEF Calm, Alive
<1>5. Left(d) = Len(sent[d]) /\ Left(e) = Len(sent[e])
  BY <1>1, <1>4 DEF Tcp, Run, FirstInv, Open
<1>6. /\ line[First(e)] = <<>> /\ line[Middle(e)] = <<>> /\ line[Final(e)] = <<>>
      /\ copier[Near(e)] # "write" /\ copier[Far(e)] # "write"
  <2> DEFINE a == Len(line[First(e)])
             b == Len(line[Middle(e)])
             c == Len(line[Final(e)])
             x == Holds(Near(e))
             y == Holds(Far(e))
             r == Len(Received(e))
             s == Len(sent[e])
  <2>1. a \in Nat /\ b \in Nat /\ c \in Nat /\ r \in Nat /\ s \in Nat
    BY <1>1, Places, Numbers DEF Tcp
  <2>2. x \in Nat /\ y \in Nat
    BY DEF Holds
  <2>3. r >= s
    <3>1. \A u, v \in Seq(Nat) : Len(u \o v) >= Len(v)
      OBVIOUS
    <3>2. got[e] \in Seq(Nat) /\ swallowed \in Seq(Nat)
      BY <1>1 DEF Tcp, Typed, AppsOK, CallOK
    <3> QED
      BY <3>1, <3>2, <1>3 DEF Received
  <2>4. r + c + y + b + x + a = s
    BY <1>5 DEF Left, Crossed, Arrived
  <2> HIDE DEF a, b, c, x, y, r, s
  <2>5. a = 0 /\ b = 0 /\ c = 0 /\ x = 0 /\ y = 0
    BY <2>1, <2>2, <2>3, <2>4
  <2>6. line[First(e)] \in Seq(Nat) /\ line[Middle(e)] \in Seq(Nat) /\ line[Final(e)] \in Seq(Nat)
    BY <1>1, Places DEF Tcp, Typed, LineOK
  <2>7. line[First(e)] = <<>> /\ line[Middle(e)] = <<>> /\ line[Final(e)] = <<>>
    BY <2>5, <2>6 DEF a, b, c
  <2> QED
    BY <2>5, <2>7 DEF x, y, Holds
<1>7. /\ ended' = {First(d)} /\ deaf' \subseteq {Final(e)} /\ broken' = {}
      /\ UNCHANGED <<line, copier, sent>>
  BY <1>1, <1>6 DEF Calm, AppEnds, CloseEnd
<1>8. /\ Final(e) \notin {First(d), Middle(d), Final(d), First(e), Middle(e)}
      /\ First(d) \notin {Middle(d), Final(d), First(e), Middle(e), Final(e)}
  BY <1>1, Places, Apart
<1>9. \A k \in Copiers : ~Past(k)'
  BY <1>7 DEF Calm, Past
<1>10. NearFirst(d)' /\ FarNext(d)'
  BY <1>1, <1>7, <1>8, <1>9, Places DEF NearFirst, FarNext
<1>11. Silent(e)'
  BY <1>6, <1>7, <1>8 DEF Silent
<1>12. Left(d)' = Len(sent[d])'
  <2>1. Received(d)' = Received(d)
    BY DEF AppEnds, Received
  <2> QED
    BY <2>1, <1>5, <1>7 DEF Left, Crossed, Arrived, Holds
<1> QED
  BY <1>1, <1>7, <1>8, <1>9, <1>10, <1>11, <1>12, Places DEF Ebbs

LEMMA AppsWhole ==
    ASSUME Tcp, NEW x \in Dirs, Apps(x), NEW d \in Dirs, Whole(d)
    PROVE  Whole(d)'
<1> DEFINE e == Other(d)
<1>1. /\ e \in Dirs /\ e # d /\ Other(e) = d /\ (x = d \/ x = e)
      /\ First(e) = <<Origin(e), e>> /\ Final(e) = <<Origin(d), e>>
      /\ First(d) = <<Origin(d), d>> /\ Final(d) = <<Target(d), d>>
  BY Sides DEF First
<1>2. UNCHANGED <<copier, item, swallowed, caller>> /\ \A k \in Copiers : (Past(k)' <=> Past(k)) /\ Holds(k)' = Holds(k)
  BY DEF Apps, AppSends, AppReceives, AppEnds, call, Past, Holds
<1>3. quiet \in [Dirs -> BOOLEAN] /\ Typed /\ Run(d)
  BY DEF Tcp, Typed, AppsOK
<1> SUFFICES ASSUME quiet'[d] PROVE Whole(d)'
  BY DEF Whole
<1>4. CASE AppSends(x)
  <2>1. quiet[d] /\ UNCHANGED <<ended, deaf, broken>>
    BY <1>3, <1>4 DEF AppSends, Disturb
  <2>2. First(d) \notin ended
    <3>1. CASE x = d
      BY <1>1, <1>4, <3>1 DEF AppSends
    <3>2. CASE x = e
      BY <1>1, <1>4, <3>2 DEF AppSends, Disturb
    <3> QED
      BY <1>1, <3>1, <3>2
  <2> QED
    BY <2>1, <2>2, <1>2, StillWhole
<1>5. CASE AppReceives(x)
  <2>1. UNCHANGED <<ended, deaf, broken, sent, quiet>> /\ line[Final(x)] # <<>> /\ Take(Final(x))
    BY <1>5 DEF AppReceives, Final
  <2>2. CASE x = e
    <3>1. ~Ebbs(d)
      BY <2>1, <2>2 DEF Ebbs, Silent
    <3> QED
      BY <3>1, <2>1, <1>2, StillWhole
  <2>3. CASE x = d
    <3>1. Left(d)' = Left(d)
      BY <1>2, <1>3, <1>5, <2>1, <2>3, Receives DEF AppReceives, Final
    <3>2. \A l \in {First(d), Middle(d), First(e), Middle(e), Final(e)} : line'[l] = line[l]
      <4>1. /\ First(d) \in Lines /\ Middle(d) \in Lines /\ First(e) \in Lines /\ Middle(e) \in Lines
            /\ Final(e) \in Lines
        BY <1>1, Places
      <4>2. First(d) # Final(d) /\ Middle(d) # Final(d)
        BY <1>1, Places, Apart
      <4>3. First(e) # Final(d) /\ Middle(e) # Final(d) /\ Final(e) # Final(d)
        BY <1>1, Places, Apart
      <4> QED
        BY <4>1, <4>2, <4>3, <2>1, <2>3, <1>3 DEF Take, Typed, LineOK
    <3>3. Ebbs(d) => \A l \in {First(e), Middle(e), Final(e)} : line'[l] = <<>>
      BY <3>2 DEF Ebbs, Silent
    <3>4. Ebbs(d) => copier'[Near(e)] # "write" /\ copier'[Far(e)] # "write"
      BY <1>2 DEF Ebbs, Silent
    <3> QED
      BY <3>1, <3>2, <3>3, <3>4, <2>1, <1>2, StillWhole
  <2> QED
    BY <1>1, <2>2, <2>3
<1>6. CASE AppEnds(x)
  <2>1. x = d /\ quiet[d]
    BY <1>1, <1>3, <1>6 DEF AppEnds, Disturb
  <2>2. CASE First(d) \notin ended /\ Calm
    BY <2>1, <2>2, <1>2, <1>6, EndsFirst DEF Whole
  <2>3. CASE Ebbs(d)
    <3>1. /\ ended' = ended /\ deaf' \subseteq deaf \cup {Final(e)} /\ broken' = {}
          /\ UNCHANGED <<line, copier, sent, got>>
      <4>1. First(d) \in ended /\ line[Final(e)] = <<>> /\ broken = {}
        BY <2>3 DEF Ebbs, Silent
      <4>2. CloseEnd(Origin(d), e) /\ broken' = broken /\ UNCHANGED <<line, copier, sent, got>>
        BY <1>1, <1>6, <2>1, <4>1 DEF AppEnds
      <4> QED
        BY <1>1, <4>1, <4>2 DEF CloseEnd
    <3>2. Final(e) \notin {First(d), Middle(d), Final(d), First(e), Middle(e)}
      BY <1>1, Places, Apart
    <3>3. NearFirst(d)' /\ FarNext(d)'
      <4>1. deaf' \cap {First(d), Middle(d), First(e), Middle(e)} \subseteq deaf
        BY <3>1, <3>2
      <4>2. \A k : Past(k)' <=> Past(k)
        BY <3>1 DEF Past
      <4> QED
        BY <4>1, <4>2, <3>1, <2>3 DEF Ebbs, NearFirst, FarNext
    <3>4. Left(d)' = Len(sent[d])' /\ Silent(e)'
      <4>1. Received(d)' = Received(d)
        BY <3>1, <1>2 DEF Received
      <4> QED
        BY <4>1, <3>1, <2>3 DEF Left, Crossed, Arrived, Holds, Silent, Ebbs
    <3> QED
      BY <3>1, <3>2, <3>3, <3>4, <2>3 DEF Whole, Ebbs, Past
  <2> QED
    BY <2>1, <2>2, <2>3 DEF Whole
<1> QED
  BY <1>4, <1>5, <1>6 DEF Apps

\* A copier closes what another one may still want to use only when the copiers
\* before it have stopped.
LEMMA ClosesWhole ==
    ASSUME Tcp, NEW k \in Copiers, CloseDest(k) \/ CloseSrc(k), UNCHANGED call,
           NEW d \in Dirs, Ebbs(d)
    PROVE  Ebbs(d)'
<1> DEFINE e == Other(d)
<1>1. /\ e \in Dirs /\ e # d /\ Other(e) = d /\ k \in {Near(d), Far(d), Near(e), Far(e)}
      /\ Near(d) \in Copiers /\ Far(d) \in Copiers /\ Near(e) \in Copiers /\ Far(e) \in Copiers
  BY Sides, Places
<1>2. /\ Past(k) /\ UNCHANGED <<line, item, sent, got, broken, swallowed, caller>>
      /\ copier' \in {[copier EXCEPT ![k] = c] : c \in {"closeSrc", "done"}}
  BY DEF CloseDest, CloseSrc, Step, Past, apps, call
<1>3. \A j \in Copiers : (Past(j)' <=> Past(j)) /\ Holds(j)' = Holds(j)
                         /\ (copier[j] # "write" => copier'[j] # "write")
  BY <1>2 DEF Past, Holds, Tcp, Typed, CopiersOK
<1>4. Left(d)' = Left(d)
  <2>1. Received(d)' = Received(d)
    BY <1>2 DEF Received
  <2> QED
    BY <1>1, <1>2, <1>3, <2>1 DEF Left, Crossed, Arrived
<1>5. /\ k \in {Near(d), Far(e)} => Past(Near(d))
      /\ k \in {Far(d), Near(e)} => Past(Far(d)) /\ Past(Near(d))
  BY <1>1, <1>2 DEF Ebbs, NearFirst, FarNext
<1>6. /\ k \in {Near(d), Far(e)} =>
            /\ ended' \subseteq ended \cup {Middle(d), Final(e)}
            /\ deaf' \subseteq deaf \cup {Middle(e), First(d)}
      /\ k \in {Far(d), Near(e)} =>
            /\ ended' \subseteq ended \cup {Middle(e), Final(d)}
            /\ deaf' \subseteq deaf \cup {Middle(d), First(e)}
      /\ ended \subseteq ended'
  <2>1. ended \subseteq ended'
    BY DEF CloseDest, CloseSrc, CloseEnd
  <2> QED
    BY <1>1, <2>1, Closings
<1>7. /\ First(e) \notin {Middle(d), Final(d), Middle(e), Final(e)}
      /\ Final(d) \notin {First(d), Middle(d), First(e), Middle(e)}
      /\ Middle(d) \notin {Final(d), First(e), Middle(e), Final(e), First(d)}
      /\ First(d) \notin {Middle(d), First(e), Middle(e)}
      /\ Middle(e) \notin {First(d), Middle(d), First(e), Final(e), Final(d)}
      /\ Final(d) # Final(e) /\ First(e) # First(d)
  BY <1>1, Places, Apart
<1>8. NearFirst(d)' /\ FarNext(d)'
  <2>1. \A j \in {Near(d), Far(d), Near(e), Far(e)} : Past(j)' <=> Past(j)
    BY <1>1, <1>3
  <2>2. NearFirst(d) /\ FarNext(d)
    BY DEF Ebbs
  <2>3. CASE k \in {Near(d), Far(e)}
    BY <1>5, <1>6, <1>7, <2>1, <2>2, <2>3 DEF NearFirst, FarNext
  <2>4. CASE k \in {Far(d), Near(e)}
    BY <1>5, <1>6, <1>7, <2>1, <2>2, <2>4 DEF NearFirst, FarNext
  <2> QED
    BY <1>1, <2>3, <2>4
<1>9. First(e) \notin ended' /\ Final(d) \notin deaf' /\ First(d) \in ended'
  BY <1>1, <1>6, <1>7 DEF Ebbs, Silent
<1>10. Silent(e)'
  BY <1>1, <1>2, <1>3, <1>9 DEF Ebbs, Silent
<1> QED
  BY <1>1, <1>2, <1>3, <1>4, <1>8, <1>9, <1>10 DEF Ebbs

\* A copier that finds the end, or an error, in what it reads.
LEMMA StopsWhole ==
    ASSUME Tcp, NEW k \in Copiers, Read(k), Step(k, "closeDest"), UNCHANGED call,
           NEW d \in Dirs, Ebbs(d)
    PROVE  Ebbs(d)'
<1> DEFINE e == Other(d)
<1>1. /\ e \in Dirs /\ e # d /\ Other(e) = d /\ k \in {Near(d), Far(d), Near(e), Far(e)}
      /\ Near(d) \in Copiers /\ Far(d) \in Copiers /\ Near(e) \in Copiers /\ Far(e) \in Copiers
      /\ Src(Near(d)) = First(d) /\ Src(Far(d)) = Middle(d)
      /\ Src(Near(e)) = First(e) /\ Src(Far(e)) = Middle(e)
  BY Sides, Places
<1>2. /\ copier[k] = "read" /\ copier' = [copier EXCEPT ![k] = "closeDest"]
      /\ UNCHANGED <<line, sent, got, ended, deaf, broken, swallowed, caller>>
      /\ Src(k) \in deaf \/ (Src(k) \in ended /\ line[Src(k)] = <<>>) \/ Src(k)[1] \in broken
  BY DEF Read, Step, apps, call, Tcp, Typed, CopiersOK
<1>3. /\ \A j \in Copiers : (Past(j)' <=> Past(j) \/ j = k) /\ Holds(j)' = Holds(j)
                         /\ (copier[j] # "write" => copier'[j] # "write")
      /\ ~Past(k)
  BY <1>2 DEF Past, Holds, Tcp, Typed, CopiersOK
<1>4. Left(d)' = Left(d)
  <2>1. Received(d)' = Received(d)
    BY <1>2 DEF Received
  <2> QED
    BY <1>1, <1>2, <1>3, <2>1 DEF Left, Crossed, Arrived
<1>5. NearFirst(d) /\ FarNext(d) /\ broken = {} /\ First(e) \notin ended
  BY DEF Ebbs, Silent
<1>6. Silent(e)'
  BY <1>1, <1>2, <1>3 DEF Ebbs, Silent
<1>7. k = Near(d) => line[First(d)] = <<>>
  BY <1>1, <1>2, <1>3, <1>5 DEF NearFirst
<1>8. k = Far(d) => Past(Near(d)) /\ line[Middle(d)] = <<>>
  BY <1>1, <1>2, <1>3, <1>5 DEF NearFirst, FarNext
<1>9. k = Near(e) => Past(Far(d))
  BY <1>1, <1>2, <1>3, <1>5 DEF FarNext
<1>10. k = Far(e) => Past(Near(d))
  BY <1>1, <1>2, <1>3, <1>5 DEF NearFirst, FarNext
<1>11. NearFirst(d)' /\ FarNext(d)'
  BY <1>1, <1>2, <1>3, <1>5, <1>8, <1>9, <1>10 DEF NearFirst, FarNext
<1> QED
  BY <1>1, <1>2, <1>3, <1>4, <1>6, <1>7, <1>8, <1>11 DEF Ebbs

\* A copier that moves an item moves it to where it can still go.
LEMMA MovesWhole ==
    ASSUME Tcp, NEW k \in Copiers, (Read(k) /\ ~Step(k, "closeDest")) \/ Write(k), Copy(k),
           NEW d \in Dirs, Ebbs(d)
    PROVE  Ebbs(d)'
<1> DEFINE e == Other(d)
<1>1. /\ e \in Dirs /\ e # d /\ Other(e) = d /\ k \in {Near(d), Far(d), Near(e), Far(e)}
      /\ Near(d) \in Copiers /\ Far(d) \in Copiers /\ Near(e) \in Copiers /\ Far(e) \in Copiers
      /\ Src(Near(d)) = First(d) /\ Src(Far(d)) = Middle(d)
      /\ Src(Near(e)) = First(e) /\ Src(Far(e)) = Middle(e)
      /\ Dest(Near(d)) = Middle(d) /\ Dest(Far(d)) = Final(d)
  BY Sides, Places
<1>2. Typed /\ Run(d) /\ Run(d)' /\ UNCHANGED <<ended, deaf, broken, sent, got, swallowed, caller>>
  BY CopyRuns DEF Tcp, Read, Write, Copy, apps, call
<1>3. k \in {Near(d), Far(d)}
  <2>1. CASE Read(k) /\ ~Step(k, "closeDest")
    BY <2>1, <1>1 DEF Read, Ebbs, Silent
  <2>2. CASE Write(k)
    BY <2>2, <1>1 DEF Write, Ebbs, Silent
  <2> QED
    BY <2>1, <2>2
<1>4. NearFirst(d) /\ FarNext(d) /\ broken = {} /\ Final(d) \notin deaf
  BY DEF Ebbs
<1>5. ~Past(k) /\ Dest(k) \notin ended \cup deaf /\ Dest(k)[1] \notin broken
  <2>1. ~Past(k)
    BY DEF Read, Write, Past
  <2> QED
    BY <2>1, <1>1, <1>3, <1>4 DEF NearFirst, FarNext
<1>6. \/ /\ copier[k] = "read" /\ line[Src(k)] # <<>> /\ Take(Src(k))
         /\ item' = [item EXCEPT ![k] = Head(line[Src(k)])]
         /\ copier' = [copier EXCEPT ![k] = "write"]
      \/ /\ copier[k] = "write" /\ Put(Dest(k), item[k])
         /\ item' = [item EXCEPT ![k] = 0]
         /\ copier' = [copier EXCEPT ![k] = "read"]
  BY <1>5 DEF Read, Write, Step
<1>7. \A j \in Copiers : (Past(j)' <=> Past(j)) /\ (j # k => copier'[j] = copier[j])
  BY <1>6 DEF Past, Tcp, Typed, CopiersOK
<1>8. NearFirst(d)' /\ FarNext(d)'
  BY <1>1, <1>2, <1>4, <1>7 DEF NearFirst, FarNext
<1>9. \A l \in Lines : l \notin {Src(k), Dest(k)} => line'[l] = line[l]
  BY <1>6 DEF Take, Put, Tcp, Typed, LineOK
<1>10. Silent(e)'
  <2>1. \A l \in {First(e), Middle(e), Final(e)} : line'[l] = line[l]
    <3>1. \A l \in {First(e), Middle(e), Final(e)} :
              l \in Lines /\ l \notin {First(d), Middle(d), Final(d)}
      BY <1>1, Places, Apart
    <3> QED
      BY <3>1, <1>1, <1>3, <1>9
  <2>2. \A j \in {Near(e), Far(e)} : copier'[j] = copier[j]
    BY <1>1, <1>3, <1>7, Apart
  <2> QED
    BY <2>1, <2>2, <1>2 DEF Ebbs, Silent
<1>11. CASE k = Near(d)
  <2>1. ~Past(Near(d)) /\ ~Past(Far(d)) /\ ~Past(Near(d))' /\ ~Past(Far(d))'
    BY <1>1, <1>4, <1>5, <1>7, <1>11 DEF NearFirst
  <2>2. Left(d)' = Len(sent[d])'
    BY <2>1, <1>2, <1>4, <1>8, NothingLost
  <2> QED
    BY <2>1, <2>2, <1>1, <1>2, <1>8, <1>10 DEF Ebbs
<1>12. CASE k = Far(d)
  <2>1. Left(d)' = Left(d)
    <3>1. Alive(Final(d))
      BY <1>1, <1>5, <1>12 DEF Alive
    <3> QED
      BY <3>1, <1>1, <1>2, <1>6, <1>12, FarReads, FarWrites
  <2>2. line'[First(d)] = line[First(d)]
    BY <1>1, <1>9, <1>12, Places
  <2>3. ~Past(Far(d))' /\ (Past(Near(d))' <=> Past(Near(d)))
    BY <1>1, <1>5, <1>7, <1>12
  <2> QED
    BY <2>1, <2>2, <2>3, <1>1, <1>2, <1>8, <1>10 DEF Ebbs
<1> QED
  BY <1>3, <1>11, <1>12

LEMMA CopyWhole ==
    ASSUME Tcp, NEW k \in Copiers, Copy(k), NEW d \in Dirs, Whole(d)
    PROVE  Whole(d)'
<1>1. quiet' = quiet /\ UNCHANGED call
  BY DEF Copy, CopyBytes, Read, Write, CloseDest, CloseSrc, apps
<1>2. ASSUME Calm PROVE Calm' /\ ended' = ended
  <2>1. UNCHANGED <<ended, deaf, broken>> /\ (Step(k, "read") \/ Step(k, "write"))
    BY <1>2, LinesAre DEF Calm, Copy, CopyBytes, Read, Write, CloseDest, CloseSrc, Past
  <2>2. \A j \in Copiers : ~Past(j)'
    BY <1>2, <2>1 DEF Calm, Step, Past, Tcp, Typed, CopiersOK
  <2> QED
    BY <1>2, <2>1, <2>2 DEF Calm
<1>3. ASSUME Ebbs(d) PROVE Ebbs(d)'
  BY <1>1, <1>3, ClosesWhole, StopsWhole, MovesWhole DEF Copy, CopyBytes
<1> QED
  BY <1>1, <1>2, <1>3 DEF Whole

LEMMA WholeKept ==
    Typed /\ OrderInv /\ WholeInv /\ [Next]_vars => WholeInv'
<1> SUFFICES ASSUME Typed, OrderInv, WholeInv, [Next]_vars, protocol' = "tcp", caller' # "failed",
                    NEW d \in Dirs
             PROVE  Whole(d)'
  BY DEF WholeInv
<1>1. protocol' = protocol
  BY ProtocolKept
<1>2. Tcp
  BY <1>1 DEF OrderInv, Tcp
<1>3. loop = "off" /\ \A r \in Readers : reader[r] = "off"
  BY <1>2 DEF Tcp, NotYet
<1>4. ~UdpLoop /\ \A r \in Readers : ~UdpReader(r) /\ ~UdpRefused(r)
  BY <1>3 DEF UdpLoop, ProxyConnUDP, LoopRead, Spawn, LoopWrite, LoopArm,
     UdpReader, CopyDatagram, UdpRead, UdpArm, UdpWrite, UdpClose, UdpRefused
<1>5. Whole(d)
  <2>1. caller # "failed"
    <3>1. GetProxyStream => caller # "failed"
      BY DEF GetProxyStream, NewStream, WriteConnect, ReadAnswer, ReadAnswerFails
    <3>2. ProxyStreamHandler => caller' = caller
      BY DEF ProxyStreamHandler, Handle, ReadConnect, Dial, WriteFailed, WriteSuccess
    <3>3. ~GetProxyStream /\ ~ProxyStreamHandler => caller' = caller
      BY OthersLeaveCall DEF call
    <3> QED
      BY <3>1, <3>2, <3>3
  <2> QED
    BY <1>1, <2>1 DEF WholeInv
<1>6. CASE (DeadlinePasses /\ UNCHANGED call) \/ UNCHANGED vars
  <2>1. UNCHANGED <<line, copier, item, sent, got, swallowed, loop, reader, handler, caller, ended, deaf, broken, quiet>>
    BY <1>6 DEF DeadlinePasses, vars, pvars, conns, apps, udp, call
  <2>2. Left(d)' = Left(d) /\ \A k \in Copiers : (Past(k)' <=> Past(k)) /\ Holds(k)' = Holds(k)
    BY <1>2, <2>1, Idle DEF Shuts, Past, Holds
  <2> QED
    BY <1>5, <2>1, <2>2, WholeIdle
<1>7. CASE LoseStream
  <2>1. quiet'[d] = FALSE
    BY <1>7 DEF LoseStream, Break, Disturb
  <2> QED
    BY <2>1 DEF Whole
<1> QED
  BY <1>2, <1>4, <1>5, <1>6, <1>7, HandshakeWhole, CopyWhole, AppsWhole DEF Next, System

\* Closing both connections when one direction ends cuts nothing off, for any amount
\* of data and any room on the way: what an application has sent before it ended is
\* all received, if it had received all that was sent to it, the other sends and
\* ends nothing more, and nothing breaks.
THEOREM NothingCutOff == Spec => []WholeIfQuiet
<1>1. Init => WholeInv
  <2> SUFFICES ASSUME Init, NEW d \in Dirs PROVE Whole(d)
    BY DEF WholeInv
  <2> QED
    BY DEF Init, PInit, Whole, Calm, Past
<1>2. Typed /\ OrderInv /\ WholeInv => WholeIfQuiet
  <2> SUFFICES ASSUME Typed, OrderInv, WholeInv PROVE WholeIfQuiet
    OBVIOUS
  <2> SUFFICES ASSUME protocol = "tcp", AllDone, NEW d \in Dirs, quiet[d], First(d) \in ended,
                      line[Final(d)] = <<>>
               PROVE  Received(d) = sent[d]
    BY DEF WholeIfQuiet, First, Final
  <2>1. NotYet /\ Run(d)
    BY DEF OrderInv
  <2>2. caller # "failed"
    <3>1. <<"caller", d>> \in Copiers
      BY DEF Copiers, Nodes
    <3> QED
      BY <2>1, <3>1 DEF NotYet, AllDone
  <2>3. Ebbs(d)
    BY <2>2 DEF WholeInv, Whole
  <2>4. /\ line[First(d)] = <<>> /\ line[Middle(d)] = <<>>
        /\ Holds(Near(d)) = 0 /\ Holds(Far(d)) = 0 /\ Left(d) = Len(sent[d])
    BY <2>3, Places DEF Ebbs, AllDone, Past, Holds
  <2>5. /\ Received(d) \in Seq(Nat) /\ sent[d] \in Seq(Nat) /\ Len(Received(d)) \in Nat
        /\ Counts(Received(d), 0) /\ Counts(sent[d], 0)
    BY <2>1, Numbers DEF Run, FinalInv
  <2>6. Len(Received(d)) = Len(sent[d])
    BY <2>4, <2>5 DEF Left, Crossed, Arrived
  <2> QED
    BY <2>5, <2>6 DEF Counts
<1>3. Init => OrderInv
  BY InitOrder
<1> QED
  BY <1>1, <1>2, <1>3, InitTyped, TypedKept, OrderKept, WholeKept, PTL DEF Spec
-------------------------------------------------------------------------------
(* Rest.  What must be true of a state in which every wait goes on.        *)

\* Connections are made, broken and closed, never anything else.
LEMMA OnlyGrow ==
    ASSUME Typed, [Next]_vars
    PROVE  made \subseteq made' /\ broken \subseteq broken' /\ ended \subseteq ended' /\ deaf \subseteq deaf'
<1>1. CASE GetProxyStream
  BY <1>1 DEF GetProxyStream, NewStream, WriteConnect, ReadAnswer, ReadAnswerFails, Reset, Fail, CloseEnd
<1>2. CASE ProxyStreamHandler
  BY <1>2 DEF ProxyStreamHandler, Handle, ReadConnect, Dial, Dialled, WriteFailed, WriteSuccess, pvars, conns
<1>3. ASSUME NEW k \in Copiers, Copy(k)
      PROVE  made \subseteq made' /\ broken \subseteq broken' /\ ended \subseteq ended' /\ deaf \subseteq deaf'
  BY <1>3 DEF Copy, CopyBytes, Read, Write, CloseDest, CloseSrc, CloseEnd
<1>4. CASE UdpLoop
  BY <1>4 DEF UdpLoop, ProxyConnUDP, LoopRead, Spawn, LoopWrite, LoopArm, pvars, conns
<1>5. ASSUME NEW r \in Readers, UdpReader(r) \/ UdpRefused(r)
      PROVE  made \subseteq made' /\ broken \subseteq broken' /\ ended \subseteq ended' /\ deaf \subseteq deaf'
  BY <1>5 DEF UdpReader, CopyDatagram, UdpRead, UdpArm, UdpWrite, UdpClose, UdpRefused, pvars, conns
<1>6. CASE DeadlinePasses
  BY <1>6 DEF DeadlinePasses, pvars, conns
<1>7. ASSUME NEW d \in Dirs, Apps(d)
      PROVE  made \subseteq made' /\ broken \subseteq broken' /\ ended \subseteq ended' /\ deaf \subseteq deaf'
  BY <1>7 DEF Apps, AppSends, AppReceives, AppEnds, CloseEnd
<1>8. CASE LoseStream
  BY <1>8 DEF LoseStream, Break
<1>9. CASE UNCHANGED vars
  BY <1>9 DEF vars, pvars, conns
<1> QED
  BY <1>1, <1>2, <1>3, <1>4, <1>5, <1>6, <1>7, <1>8, <1>9 DEF Next, System

\* How far the two sides of the handshake can be apart.
SettleInv ==
    /\ caller = "open" => "stream" \notin made
    /\ caller \in {"ask", "await", "ok"} => "stream" \in made
    /\ caller = "await" => request \/ "stream" \in broken
    /\ caller = "failed" => "stream" \notin made \/ "stream" \in broken
    /\ handler \in {"serve", "returned"} => answer # "none" \/ "stream" \in broken
    /\ handler = "returned" => answer = "FAILED" \/ "stream" \in broken
    /\ handler # "off" => "stream" \in made

LEMMA SettleKept == Typed /\ SettleInv /\ [Next]_vars => SettleInv'
<1> SUFFICES ASSUME Typed, SettleInv, [Next]_vars PROVE SettleInv'
  OBVIOUS
<1>1. broken \subseteq broken'
  BY OnlyGrow
<1>2. CASE GetProxyStream
  <2>1. UNCHANGED <<handler, answer>>
    BY <1>2 DEF GetProxyStream, NewStream, WriteConnect, ReadAnswer, ReadAnswerFails
  <2>2. CASE NewStream
    BY <1>1, <2>1, <2>2 DEF NewStream, Fail, SettleInv
  <2>3. CASE WriteConnect
    BY <1>1, <2>1, <2>3 DEF WriteConnect, Reset, Fail, SettleInv
  <2>4. CASE ReadAnswer \/ ReadAnswerFails
    BY <1>1, <2>1, <2>4 DEF ReadAnswer, ReadAnswerFails, Reset, Fail, SettleInv
  <2> QED
    BY <1>2, <2>2, <2>3, <2>4 DEF GetProxyStream
<1>3. CASE ProxyStreamHandler
  <2>1. UNCHANGED <<caller, request, broken>> /\ ("stream" \in made' <=> "stream" \in made)
    BY <1>3 DEF ProxyStreamHandler, Handle, ReadConnect, Dial, Dialled, WriteFailed, WriteSuccess, pvars, conns
  <2>2. CASE Handle \/ ReadConnect
    BY <2>1, <2>2 DEF Handle, ReadConnect, SettleInv
  <2>3. CASE Dial
    BY <2>1, <2>3 DEF Dial, Dialled, SettleInv
  <2>4. CASE WriteFailed \/ WriteSuccess
    BY <2>1, <2>4 DEF WriteFailed, WriteSuccess, SettleInv
  <2> QED
    BY <1>3, <2>2, <2>3, <2>4 DEF ProxyStreamHandler
<1>4. CASE ~GetProxyStream /\ ~ProxyStreamHandler
  <2>1. UNCHANGED <<caller, handler, request, answer, made>>
    BY <1>4, OthersLeaveCall DEF call
  <2> QED
    BY <1>1, <2>1 DEF SettleInv
<1> QED
  BY <1>2, <1>3, <1>4

\* A call comes back, with a stream that is served or was broken, or with an error
\* and no stream left open, unless something can still move: nobody waits for
\* ever, however often the endpoint is dialled and whatever breaks when.
THEOREM CallsSettle == Spec => []CallSettles
<1>1. Init => SettleInv
  BY DEF Init, PInit, SettleInv
<1>2. Typed /\ HandshakeInv /\ SettleInv => CallSettles
  <2> SUFFICES ASSUME Typed, HandshakeInv, SettleInv, ~CallerMoves, ~HandlerMoves
               PROVE  /\ caller \in {"ok", "failed"}
                      /\ "stream" \in made => handler \in {"serve", "returned"}
                      /\ handler = "returned" => "stream" \in broken
    BY DEF CallSettles, Moving
  <2>1. caller \in {"await", "ok", "failed"} /\ (caller = "await" => answer = "none" /\ "stream" \notin broken)
    BY DEF CallerMoves, Typed, CallOK
  <2>2. /\ handler \in {"off", "read", "serve", "returned"}
        /\ "stream" \in made => handler # "off"
        /\ handler = "read" => ~request /\ "stream" \notin broken
    BY DEF HandlerMoves, Typed, CallOK
  <2>3. caller # "await"
    BY <2>1, <2>2 DEF SettleInv
  <2>4. caller = "ok" => handler = "serve"
    BY DEF HandshakeInv
  <2>5. "stream" \in made => handler \in {"serve", "returned"}
    BY <2>1, <2>2, <2>3, <2>4 DEF SettleInv
  <2>6. handler = "returned" => "stream" \in broken
    <3> SUFFICES ASSUME handler = "returned", answer = "FAILED" PROVE "stream" \in broken
      BY DEF SettleInv
    <3>1. caller = "failed"
      BY <2>1, <2>3, <2>4
    <3>2. "stream" \in made
      BY DEF SettleInv
    <3> QED
      BY <3>1, <3>2 DEF SettleInv
  <2> QED
    BY <2>1, <2>3, <2>5, <2>6
<1>3. Init => HandshakeInv
  BY DEF Init, HandshakeInv
<1> QED
  BY <1>1, <1>2, <1>3, InitTyped, TypedKept, HandshakeKept, SettleKept, PTL DEF Spec
-------------------------------------------------------------------------------
(* The two copiers of a node.                                              *)

Twin(k) == <<k[1], Other(k[2])>>

LEMMA TwinIs ==
    ASSUME NEW k \in Copiers
    PROVE  /\ Twin(k) \in Copiers /\ Twin(Twin(k)) = k /\ Twin(k) # k
           /\ Src(Twin(k)) = <<Dest(k)[1], Other(k[2])>>
           /\ Dest(Twin(k)) = <<Src(k)[1], Other(k[2])>>
  BY DEF Twin, Copiers, Nodes, Dirs, Other, Src, Dest, In, Out

\* They start together.  What one of them closes is what the other reads and writes.
TwinInv ==
    \A k \in Copiers :
        /\ copier[k] = "off" => copier[Twin(k)] = "off"
        /\ copier[k] \in {"closeSrc", "done"} => Src(Twin(k)) \in deaf
        /\ copier[k] = "done" => Dest(Twin(k)) \in ended

\* A step that starts copiers, or leaves them alone.
LEMMA StartsTwins ==
    ASSUME Typed, TwinInv, ended \subseteq ended', deaf \subseteq deaf',
           copier' = copier \/ \E n \in Nodes : copier' = Started(n)
    PROVE  TwinInv'
<1> SUFFICES ASSUME NEW k \in Copiers
             PROVE  /\ copier'[k] = "off" => copier'[Twin(k)] = "off"
                    /\ copier'[k] \in {"closeSrc", "done"} => Src(Twin(k)) \in deaf'
                    /\ copier'[k] = "done" => Dest(Twin(k)) \in ended'
  BY DEF TwinInv
<1>1. Twin(k) \in Copiers /\ Twin(k)[1] = k[1]
  BY TwinIs DEF Twin
<1>2. CASE copier' = copier
  BY <1>2 DEF TwinInv
<1>3. ASSUME NEW n \in Nodes, copier' = Started(n)
      PROVE  /\ copier'[k] = "off" => copier'[Twin(k)] = "off"
             /\ copier'[k] \in {"closeSrc", "done"} => Src(Twin(k)) \in deaf'
             /\ copier'[k] = "done" => Dest(Twin(k)) \in ended'
  <2>1. CASE k[1] = n
    BY <1>1, <1>3, <2>1 DEF Started
  <2>2. CASE k[1] # n
    <3>1. copier'[k] = copier[k] /\ copier'[Twin(k)] = copier[Twin(k)]
      BY <1>1, <1>3, <2>2 DEF Started
    <3> QED
      BY <3>1 DEF TwinInv
  <2> QED
    BY <2>1, <2>2
<1> QED
  BY <1>2, <1>3

LEMMA CopyTwins ==
    ASSUME Typed, TwinInv, NEW k \in Copiers, Copy(k), ended \subseteq ended', deaf \subseteq deaf'
    PROVE  TwinInv'
<1>1. /\ \A j \in Copiers : j # k => copier'[j] = copier[j]
      /\ copier[k] # "off" /\ copier'[k] # "off"
      /\ copier'[k] = "done" => copier[k] = "closeSrc"
      /\ copier'[k] = "closeSrc" => copier[k] = "closeDest"
  BY DEF Copy, CopyBytes, Read, Write, CloseDest, CloseSrc, Step, Typed, CopiersOK
<1>2. ASSUME copier'[k] = "closeSrc" PROVE Src(Twin(k)) \in deaf'
  BY <1>1, <1>2, TwinIs DEF Copy, CopyBytes, Read, Write, CloseDest, CloseSrc, CloseEnd
<1>3. ASSUME copier'[k] = "done" PROVE Dest(Twin(k)) \in ended'
  BY <1>1, <1>3, TwinIs DEF Copy, CopyBytes, Read, Write, CloseDest, CloseSrc, CloseEnd
<1>4. copier[Twin(k)] # "off"
  BY <1>1, TwinIs DEF TwinInv
<1> SUFFICES ASSUME NEW j \in Copiers
             PROVE  /\ copier'[j] = "off" => copier'[Twin(j)] = "off"
                    /\ copier'[j] \in {"closeSrc", "done"} => Src(Twin(j)) \in deaf'
                    /\ copier'[j] = "done" => Dest(Twin(j)) \in ended'
  BY DEF TwinInv
<1>5. CASE j = k
  BY <1>1, <1>2, <1>3, <1>5 DEF TwinInv
<1>6. CASE j # k
  <2>1. copier'[j] = copier[j]
    BY <1>1, <1>6
  <2>2. copier'[j] = "off" => Twin(j) # k
    BY <1>4, <2>1, TwinIs
  <2>3. copier'[j] = "off" => copier'[Twin(j)] = "off"
    BY <1>1, <2>1, <2>2, TwinIs DEF TwinInv
  <2> QED
    BY <2>1, <2>3 DEF TwinInv
<1> QED
  BY <1>5, <1>6

LEMMA TwinsKept == Typed /\ TwinInv /\ [Next]_vars => TwinInv'
<1> SUFFICES ASSUME Typed, TwinInv, [Next]_vars PROVE TwinInv'
  OBVIOUS
<1>1. ended \subseteq ended' /\ deaf \subseteq deaf'
  BY OnlyGrow
<1>2. CASE GetProxyStream
  <2>1. copier' = copier \/ copier' = Started("caller")
    BY <1>2 DEF GetProxyStream, NewStream, WriteConnect, ReadAnswer, ReadAnswerFails, Reset, Fail
  <2> QED
    BY <1>1, <2>1, StartsTwins DEF Nodes
<1>3. CASE ProxyStreamHandler
  <2>1. copier' = copier \/ copier' = Started("handler")
    BY <1>3 DEF ProxyStreamHandler, Handle, ReadConnect, Dial, WriteFailed, WriteSuccess, pvars
  <2> QED
    BY <1>1, <2>1, StartsTwins DEF Nodes
<1>4. ASSUME NEW k \in Copiers, Copy(k) PROVE TwinInv'
  BY <1>1, <1>4, CopyTwins
<1>5. CASE UdpLoop \/ DeadlinePasses \/ (\E r \in Readers : UdpReader(r) \/ UdpRefused(r))
  <2>1. copier' = copier
    BY <1>5 DEF UdpLoop, ProxyConnUDP, LoopRead, Spawn, LoopWrite, LoopArm, DeadlinePasses,
       UdpReader, CopyDatagram, UdpRead, UdpArm, UdpWrite, UdpClose, UdpRefused, pvars
  <2> QED
    BY <1>1, <2>1, StartsTwins
<1>6. CASE (\E d \in Dirs : Apps(d)) \/ LoseStream \/ UNCHANGED vars
  <2>1. copier' = copier
    BY <1>6 DEF Apps, AppSends, AppReceives, AppEnds, LoseStream, Break, vars, pvars
  <2> QED
    BY <1>1, <2>1, StartsTwins
<1> QED
  BY <1>2, <1>3, <1>4, <1>5, <1>6 DEF Next, System

\* When a copier has ended, the other one of its node has ended or can go on: it
\* is never left in a Read or a Write that nothing will end, whatever the
\* applications do or stop doing.
THEOREM CopiersEndTogether == Spec => []EndsTogether
<1>1. Init => TwinInv
  BY DEF Init, PInit, TwinInv, Twin, Copiers, Nodes, Dirs, Other
<1>2. Typed /\ TwinInv => EndsTogether
  <2> SUFFICES ASSUME Typed, TwinInv, \A k \in Copiers : ~CopierMoves(k),
                      NEW n \in Nodes, NEW e \in Dirs, Past(<<n, e>>), NEW d \in Dirs
               PROVE  copier[<<n, d>>] = "done"
    BY DEF EndsTogether, Moving
  <2> DEFINE k == <<n, e>>
  <2>1. k \in Copiers /\ (<<n, d>> = k \/ <<n, d>> = Twin(k)) /\ Twin(k) \in Copiers /\ Twin(Twin(k)) = k
    BY TwinIs DEF Copiers, Dirs, Twin, Other
  <2> HIDE DEF k
  <2>2. copier[k] = "done"
    BY <2>1 DEF Past, CopierMoves, k
  <2>3. Src(Twin(k)) \in deaf /\ Dest(Twin(k)) \in ended /\ copier[Twin(k)] # "off"
    BY <2>1, <2>2 DEF TwinInv
  <2>4. copier[Twin(k)] = "done"
    BY <2>1, <2>3 DEF CopierMoves, Typed, CopiersOK
  <2> QED
    BY <2>1, <2>2, <2>4
<1> QED
  BY <1>1, <1>2, InitTyped, TypedKept, TwinsKept, PTL DEF Spec
-------------------------------------------------------------------------------
(* The UDP socket.                                                         *)

SomeReader == \E r \in Readers : reader[r] # "off"

\* Whatever ends the loop also wakes a reader that waits for room in the stream; a
\* deadline is set only for readers that were started; the socket is opened before
\* the first of them, and closed by each that ends.
SocketInv ==
    /\ UpLine \in ended => DownLine \in deaf
    /\ loop = "ended" => UpLine \in ended \/ "stream" \in broken
    /\ loop # "off" => handler = "serve"
    /\ SomeReader => loop # "off"
    /\ \A r \in Readers : reader[r] = "done" => socket = "closed"
    /\ loop \in {"write", "arm"} \/ deadline # "never" => SomeReader

\* Only closing both directions at once ends the stream.
LEMMA StreamCloses ==
    ASSUME Typed, SocketInv, [Next]_vars
    PROVE  UpLine \in ended' => DownLine \in deaf'
<1>1. deaf \subseteq deaf' /\ (UpLine \in ended => DownLine \in deaf)
  BY OnlyGrow DEF SocketInv
<1>2. \A c \in Conns, d \in Dirs : CloseEnd(c, d) => (UpLine \in ended' => DownLine \in deaf')
  BY <1>1 DEF CloseEnd, UpLine, DownLine, Conns, Dirs, Other
<1>3. ASSUME ended' = ended PROVE UpLine \in ended' => DownLine \in deaf'
  BY <1>1, <1>3
<1>4. CASE GetProxyStream
  <2>1. ended' = ended \/ CloseEnd("client", "up")
    BY <1>4 DEF GetProxyStream, NewStream, WriteConnect, ReadAnswer, ReadAnswerFails, Reset, Fail
  <2> QED
    BY <1>2, <1>3, <2>1 DEF Conns, Dirs
<1>5. CASE ProxyStreamHandler
  BY <1>3, <1>5 DEF ProxyStreamHandler, Handle, ReadConnect, Dial, WriteFailed, WriteSuccess, pvars, conns
<1>6. ASSUME NEW k \in Copiers, Copy(k) PROVE UpLine \in ended' => DownLine \in deaf'
  <2>1. ended' = ended \/ CloseEnd(Dest(k)[1], Other(k[2])) \/ CloseEnd(Src(k)[1], k[2])
    BY <1>6 DEF Copy, CopyBytes, Read, Write, CloseDest, CloseSrc
  <2>2. Dest(k)[1] \in Conns /\ Src(k)[1] \in Conns /\ k[2] \in Dirs /\ Other(k[2]) \in Dirs
    BY LinesAre
  <2> QED
    BY <1>2, <1>3, <2>1, <2>2
<1>7. CASE UdpLoop \/ DeadlinePasses \/ (\E r \in Readers : UdpReader(r) \/ UdpRefused(r))
  BY <1>3, <1>7 DEF UdpLoop, ProxyConnUDP, LoopRead, Spawn, LoopWrite, LoopArm, DeadlinePasses,
     UdpReader, CopyDatagram, UdpRead, UdpArm, UdpWrite, UdpClose, UdpRefused, pvars, conns
<1>8. ASSUME NEW d \in Dirs, Apps(d) PROVE UpLine \in ended' => DownLine \in deaf'
  <2>1. Origin(d) \in Conns /\ Other(d) \in Dirs /\ <<Origin(d), d>> # UpLine
    BY LinesAre DEF Origin, UpLine
  <2>2. ended' = ended \/ ended' = ended \cup {<<Origin(d), d>>} \/ CloseEnd(Origin(d), Other(d))
    BY <1>8 DEF Apps, AppSends, AppReceives, AppEnds
  <2>3. CASE ended' = ended \cup {<<Origin(d), d>>}
    BY <1>1, <2>1, <2>3
  <2> QED
    BY <1>2, <1>3, <2>1, <2>2, <2>3
<1>9. CASE LoseStream \/ UNCHANGED vars
  BY <1>3, <1>9 DEF LoseStream, Break, vars, pvars, conns
<1> QED
  BY <1>4, <1>5, <1>6, <1>7, <1>8, <1>9 DEF Next, System

LEMMA SocketKept == Typed /\ SocketInv /\ [Next]_vars => SocketInv'
<1> SUFFICES ASSUME Typed, SocketInv, [Next]_vars PROVE SocketInv'
  OBVIOUS
<1>1. broken \subseteq broken' /\ ended \subseteq ended' /\ (UpLine \in ended' => DownLine \in deaf')
  BY OnlyGrow, StreamCloses
<1>2. ASSUME UNCHANGED udp, handler' = handler PROVE SocketInv'
  BY <1>1, <1>2 DEF SocketInv, SomeReader, udp
<1>3. CASE GetProxyStream
  BY <1>2, <1>3 DEF GetProxyStream, NewStream, WriteConnect, ReadAnswer, ReadAnswerFails
<1>4. CASE ProxyStreamHandler
  <2>1. CASE Handle \/ ReadConnect \/ WriteFailed
    BY <1>1, <2>1 DEF Handle, ReadConnect, WriteFailed, SocketInv, SomeReader, udp
  <2>2. CASE Dial
    BY <1>1, <2>2 DEF Dial, Dialled, SocketInv, SomeReader
  <2>3. CASE WriteSuccess
    BY <1>1, <2>3 DEF WriteSuccess, SocketInv, SomeReader
  <2> QED
    BY <1>4, <2>1, <2>2, <2>3 DEF ProxyStreamHandler
<1>5. ASSUME NEW k \in Copiers, Copy(k) PROVE SocketInv'
  BY <1>2, <1>5 DEF Copy, call
<1>6. CASE UdpLoop
  <2>1. UNCHANGED handler
    BY <1>6 DEF UdpLoop, call
  <2>2. CASE LoopRead
    BY <1>1, <2>1, <2>2 DEF LoopRead, SocketInv, SomeReader
  <2>3. CASE Spawn
    <3>1. SomeReader' /\ \A r \in Readers : reader'[r] = "done" => reader[r] = "done"
      BY <2>3 DEF Spawn, SomeReader, Typed, UdpOK
    <3> QED
      BY <1>1, <2>1, <2>3, <3>1 DEF Spawn, SocketInv
  <2>4. CASE LoopWrite
    BY <1>1, <2>1, <2>4 DEF LoopWrite, SocketInv, SomeReader
  <2>5. CASE LoopArm
    BY <1>1, <2>1, <2>5 DEF LoopArm, SocketInv, SomeReader
  <2> QED
    BY <1>6, <2>2, <2>3, <2>4, <2>5 DEF UdpLoop, ProxyConnUDP
<1>7. ASSUME NEW r \in Readers, UdpReader(r) \/ (UdpRefused(r) /\ UNCHANGED call) PROVE SocketInv'
  <2>1. UNCHANGED <<handler, loop>> /\ reader[r] # "off" /\ SomeReader
    BY <1>7 DEF UdpReader, CopyDatagram, UdpRead, UdpArm, UdpWrite, UdpClose, UdpRefused, call, SomeReader
  <2>2. \E s \in {"read", "arm", "write", "close", "done"} :
            reader' = [reader EXCEPT ![r] = s] /\ (s = "done" => socket' = "closed")
    BY <1>7 DEF UdpReader, CopyDatagram, UdpRead, UdpArm, UdpWrite, UdpClose, UdpRefused, Goes
  <2>3. SomeReader' /\ \A q \in Readers : reader'[q] = "done" => reader[q] = "done" \/ socket' = "closed"
    BY <2>2 DEF SomeReader, Typed, UdpOK
  <2>4. socket = "closed" => socket' = "closed"
    BY <1>7 DEF UdpReader, CopyDatagram, UdpRead, UdpArm, UdpWrite, UdpClose, UdpRefused
  <2> QED
    BY <1>1, <2>1, <2>3, <2>4 DEF SocketInv
<1>8. CASE DeadlinePasses /\ UNCHANGED call
  BY <1>1, <1>8 DEF DeadlinePasses, SocketInv, SomeReader, call
<1>9. CASE (\E d \in Dirs : Apps(d)) \/ LoseStream \/ UNCHANGED vars
  BY <1>2, <1>9 DEF Apps, LoseStream, vars, call
<1> QED
  BY <1>3, <1>4, <1>5, <1>6, <1>7, <1>8, <1>9 DEF Next, System

\* When the stream of a UDP call has ended, its readers end and the socket is
\* closed, for any number of datagrams and readers: none of them waits for a
\* datagram that will not come, or for room in a stream that nobody reads.
THEOREM SocketsReleased == Spec => []SocketReleased
<1>1. Init => SocketInv
  BY DEF Init, UInit, PInit, SocketInv, SomeReader
<1>2. Typed /\ SocketInv => SocketReleased
  <2> SUFFICES ASSUME Typed, SocketInv, \A r \in Readers : ~ReaderMoves(r), deadline # "ahead",
                      loop = "ended", deadline # "never"
               PROVE  socket = "closed" /\ \A r \in Readers : reader[r] \in {"off", "done"}
    BY DEF SocketReleased, Moving
  <2>1. deadline = "passed" /\ (DownLine \in deaf \/ "stream" \in broken)
    BY DEF Typed, UdpOK, SocketInv
  <2>2. \A r \in Readers : reader[r] \in {"off", "done"}
    BY <2>1 DEF ReaderMoves, Typed, UdpOK
  <2> QED
    BY <2>2 DEF SocketInv, SomeReader
<1> QED
  BY <1>1, <1>2, InitTyped, TypedKept, SocketKept, PTL DEF Spec

-------------------------------------------------------------------------------
(* Coming to rest.                                                         *)

\* What is left to do at each place of the call.  Every place counts for more than
\* what one step can make of it: an item for more than the places it still has to
\* go through, a copier for more than its two closes, a caller or handler for
\* more than the copiers or the loop it starts.
CallerLeft ==
    CASE caller = "open" -> 9 [] caller = "ask" -> 8 [] caller = "await" -> 7 [] OTHER -> 0

HandlerLeft ==
    CASE handler = "off" -> 10 + DailRetryTime [] handler = "read" -> 9 + DailRetryTime
      [] handler = "dial" -> 8 + (DailRetryTime - tries)
      [] handler = "answer" -> 7 [] handler = "refuse" -> 1 [] OTHER -> 0

LineWeight(l) ==
    CASE l = <<"client", "up">> -> 10 [] l = UpLine -> 8 [] l = SocketOut -> 1
      [] l = SocketIn -> 7 [] l = DownLine -> 3 [] l = <<"client", "down">> -> 1

ItemWeight(k) ==
    CASE k = <<"caller", "up">> -> 9 [] k = <<"handler", "up">> -> 5
      [] k = <<"handler", "down">> -> 4 [] k = <<"caller", "down">> -> 2

CopierWeight(k, s) ==
    CASE s = "read" -> 3 [] s = "write" -> 3 + ItemWeight(k) [] s = "closeDest" -> 2
      [] s = "closeSrc" -> 1 [] OTHER -> 0

LoopLeft ==
    CASE loop = "read" -> 1 [] loop = "spawn" -> 8 [] loop = "write" -> 5 [] loop = "arm" -> 3
      [] OTHER -> 0

ReaderWeight(s) ==
    CASE s = "arm" -> 8 [] s = "write" -> 6 [] s = "read" -> 2 [] s = "close" -> 1 [] OTHER -> 0

\* How many readers are at s.
ReadersAt(s) == Cardinality({r \in Readers : reader[r] = s})

ReadersLeft ==
    8 * ReadersAt("arm") + 6 * ReadersAt("write") + 2 * ReadersAt("read") + ReadersAt("close")

LinesLeft ==
    10 * Len(line[<<"client", "up">>]) + 8 * Len(line[UpLine]) + Len(line[SocketOut])
    + 7 * Len(line[SocketIn]) + 3 * Len(line[DownLine]) + Len(line[<<"client", "down">>])

CopiersLeft ==
    LET left(n, d) == CopierWeight(<<n, d>>, copier[<<n, d>>])
    IN  left("caller", "up") + left("caller", "down") + left("handler", "up") + left("handler", "down")

DeadlineLeft == IF deadline = "ahead" THEN 1 ELSE 0

Work ==
    CallerLeft + HandlerLeft + LinesLeft + CopiersLeft + LoopLeft + ReadersLeft + DeadlineLeft

LEMMA ItemsGoDown ==
    ASSUME NEW k \in Copiers
    PROVE  /\ ItemWeight(k) \in Nat /\ LineWeight(Src(k)) \in Nat /\ LineWeight(Dest(k)) \in Nat
           /\ LineWeight(Src(k)) > ItemWeight(k) /\ ItemWeight(k) > LineWeight(Dest(k))
<1>1. k \in {<<"caller", "up">>, <<"caller", "down">>, <<"handler", "up">>, <<"handler", "down">>}
  BY DEF Copiers, Nodes, Dirs
<1> QED
  BY <1>1 DEF ItemWeight, LineWeight, Src, Dest, In, Out, Other, UpLine, DownLine, SocketOut, SocketIn

\* A line counts by its length, and one item on it for the weight of the line.
LEMMA LineWeighs ==
    ASSUME LineOK, LineOK', NEW l \in Lines, NEW n \in Int,
           \A m \in Lines : Len(line'[m]) = Len(line[m]) + (IF m = l THEN n ELSE 0)
    PROVE  LinesLeft' = LinesLeft + n * LineWeight(l)
<1> DEFINE cu == Len(line[<<"client", "up">>])
           cu2 == Len(line'[<<"client", "up">>])
           su == Len(line[<<"stream", "up">>])
           su2 == Len(line'[<<"stream", "up">>])
           eu == Len(line[<<"endpoint", "up">>])
           eu2 == Len(line'[<<"endpoint", "up">>])
           ed == Len(line[<<"endpoint", "down">>])
           ed2 == Len(line'[<<"endpoint", "down">>])
           sd == Len(line[<<"stream", "down">>])
           sd2 == Len(line'[<<"stream", "down">>])
           cd == Len(line[<<"client", "down">>])
           cd2 == Len(line'[<<"client", "down">>])
<1> USE DEF UpLine, DownLine, SocketOut, SocketIn
<1>1. {<<"client", "up">>, <<"stream", "up">>, <<"endpoint", "up">>,
       <<"endpoint", "down">>, <<"stream", "down">>, <<"client", "down">>} \subseteq Lines
  BY DEF Lines, Conns, Dirs
<1>2. l \in {<<"client", "up">>, <<"stream", "up">>, <<"endpoint", "up">>,
            <<"endpoint", "down">>, <<"stream", "down">>, <<"client", "down">>}
  BY DEF Lines, Conns, Dirs
<1>3. \A m \in Lines : Len(line[m]) \in Nat /\ Len(line'[m]) \in Nat
  BY DEF LineOK
<1>4. /\ cu \in Nat /\ su \in Nat /\ eu \in Nat /\ ed \in Nat /\ sd \in Nat /\ cd \in Nat
      /\ cu2 \in Nat /\ su2 \in Nat /\ eu2 \in Nat /\ ed2 \in Nat /\ sd2 \in Nat /\ cd2 \in Nat
      /\ cu2 = cu + (IF <<"client", "up">> = l THEN n ELSE 0)
      /\ su2 = su + (IF <<"stream", "up">> = l THEN n ELSE 0)
      /\ eu2 = eu + (IF <<"endpoint", "up">> = l THEN n ELSE 0)
      /\ ed2 = ed + (IF <<"endpoint", "down">> = l THEN n ELSE 0)
      /\ sd2 = sd + (IF <<"stream", "down">> = l THEN n ELSE 0)
      /\ cd2 = cd + (IF <<"client", "down">> = l THEN n ELSE 0)
  BY <1>1, <1>3
<1>5. /\ LinesLeft = 10 * cu + 8 * su + eu + 7 * ed + 3 * sd + cd
      /\ LinesLeft' = 10 * cu2 + 8 * su2 + eu2 + 7 * ed2 + 3 * sd2 + cd2
  BY DEF LinesLeft
<1> HIDE DEF cu, su, eu, ed, sd, cd, cu2, su2, eu2, ed2, sd2, cd2
<1>6. CASE l = <<"client", "up">>
  <2>1. LineWeight(l) = 10
    BY <1>6 DEF LineWeight
  <2>2. cu2 = cu + n /\ su2 = su /\ eu2 = eu /\ ed2 = ed /\ sd2 = sd /\ cd2 = cd
    BY <1>4, <1>6
  <2>3. LinesLeft' = LinesLeft + n * 10
    BY <1>4, <1>5, <2>2
  <2> QED
    BY <2>1, <2>3
<1>7. CASE l = <<"stream", "up">>
  <2>1. LineWeight(l) = 8
    BY <1>7 DEF LineWeight
  <2>2. cu2 = cu /\ su2 = su + n /\ eu2 = eu /\ ed2 = ed /\ sd2 = sd /\ cd2 = cd
    BY <1>4, <1>7
  <2>3. LinesLeft' = LinesLeft + n * 8
    BY <1>4, <1>5, <2>2
  <2> QED
    BY <2>1, <2>3
<1>8. CASE l = <<"endpoint", "up">>
  <2>1. LineWeight(l) = 1
    BY <1>8 DEF LineWeight
  <2>2. cu2 = cu /\ su2 = su /\ eu2 = eu + n /\ ed2 = ed /\ sd2 = sd /\ cd2 = cd
    BY <1>4, <1>8
  <2>3. LinesLeft' = LinesLeft + n * 1
    BY <1>4, <1>5, <2>2
  <2> QED
    BY <2>1, <2>3
<1>9. CASE l = <<"endpoint", "down">>
  <2>1. LineWeight(l) = 7
    BY <1>9 DEF LineWeight
  <2>2. cu2 = cu /\ su2 = su /\ eu2 = eu /\ ed2 = ed + n /\ sd2 = sd /\ cd2 = cd
    BY <1>4, <1>9
  <2>3. LinesLeft' = LinesLeft + n * 7
    BY <1>4, <1>5, <2>2
  <2> QED
    BY <2>1, <2>3
<1>10. CASE l = <<"stream", "down">>
  <2>1. LineWeight(l) = 3
    BY <1>10 DEF LineWeight
  <2>2. cu2 = cu /\ su2 = su /\ eu2 = eu /\ ed2 = ed /\ sd2 = sd + n /\ cd2 = cd
    BY <1>4, <1>10
  <2>3. LinesLeft' = LinesLeft + n * 3
    BY <1>4, <1>5, <2>2
  <2> QED
    BY <2>1, <2>3
<1>11. CASE l = <<"client", "down">>
  <2>1. LineWeight(l) = 1
    BY <1>11 DEF LineWeight
  <2>2. cu2 = cu /\ su2 = su /\ eu2 = eu /\ ed2 = ed /\ sd2 = sd /\ cd2 = cd + n
    BY <1>4, <1>11
  <2>3. LinesLeft' = LinesLeft + n * 1
    BY <1>4, <1>5, <2>2
  <2> QED
    BY <2>1, <2>3
<1> QED
  BY <1>2, <1>6, <1>7, <1>8, <1>9, <1>10, <1>11

LEMMA PutWeighs ==
    ASSUME LineOK, NEW l \in Lines, NEW x \in Nat, Len(line[l]) < Room, Put(l, x)
    PROVE  LinesLeft' = LinesLeft + LineWeight(l)
<1>1. LineOK'
  BY PutTyped
<1>2. \A m \in Lines : Len(line'[m]) = Len(line[m]) + (IF m = l THEN 1 ELSE 0)
  <2> SUFFICES ASSUME NEW m \in Lines PROVE Len(line'[m]) = Len(line[m]) + (IF m = l THEN 1 ELSE 0)
    OBVIOUS
  <2>1. line[m] \in Seq(Nat) /\ Len(line[m]) \in Nat
    BY DEF LineOK
  <2> QED
    BY <2>1 DEF Put, LineOK
<1>3. LineWeight(l) \in Nat
  BY DEF LineWeight, Lines, Conns, Dirs, UpLine, DownLine, SocketOut, SocketIn
<1>4. LinesLeft' = LinesLeft + 1 * LineWeight(l)
  <2>1. 1 \in Int
    OBVIOUS
  <2> QED
    BY <1>1, <1>2, <2>1, LineWeighs, Zenon
<1> QED
  BY <1>3, <1>4

LEMMA TakeWeighs ==
    ASSUME LineOK, NEW l \in Lines, line[l] # <<>>, Take(l)
    PROVE  LinesLeft' = LinesLeft - LineWeight(l)
<1>1. LineOK'
  BY TakeTyped
<1>2. \A m \in Lines : Len(line'[m]) = Len(line[m]) + (IF m = l THEN -1 ELSE 0)
  <2> SUFFICES ASSUME NEW m \in Lines PROVE Len(line'[m]) = Len(line[m]) + (IF m = l THEN -1 ELSE 0)
    OBVIOUS
  <2>1. line[m] \in Seq(Nat) /\ Len(line[m]) \in Nat
    BY DEF LineOK
  <2> QED
    BY <2>1 DEF Take, LineOK
<1>3. LineWeight(l) \in Nat /\ LinesLeft \in Nat
  BY DEF LineWeight, LinesLeft, LineOK, Lines, Conns, Dirs, UpLine, DownLine, SocketOut, SocketIn
<1>4. LinesLeft' = LinesLeft + (-1) * LineWeight(l)
  <2>1. -1 \in Int
    OBVIOUS
  <2> QED
    BY <1>1, <1>2, <2>1, LineWeighs, Zenon
<1> QED
  BY <1>3, <1>4

LEMMA SplitWeighs ==
    ASSUME LineOK, NEW n \in 0 .. Len(line[DownLine]),
           line' = [line EXCEPT ![DownLine] = SubSeq(@, n + 1, Len(@))]
    PROVE  LinesLeft' \in Int /\ LinesLeft' <= LinesLeft
<1>1. LineOK'
  BY SplitTyped, LinesAre
<1>2. \A m \in Lines : Len(line'[m]) = Len(line[m]) + (IF m = DownLine THEN -n ELSE 0)
  <2> SUFFICES ASSUME NEW m \in Lines
               PROVE  Len(line'[m]) = Len(line[m]) + (IF m = DownLine THEN -n ELSE 0)
    OBVIOUS
  <2>1. line[m] \in Seq(Nat) /\ Len(line[m]) \in Nat /\ n \in Nat /\ (m = DownLine => n <= Len(line[m]))
    BY LinesAre DEF LineOK
  <2>2. line'[m] = IF m = DownLine THEN SubSeq(line[m], n + 1, Len(line[m])) ELSE line[m]
    BY DEF LineOK
  <2>3. CASE m = DownLine
    <3> DEFINE s == line[m]
    <3>1. s \in Seq(Nat) /\ Len(s) \in Nat /\ n \in Nat /\ n <= Len(s)
      BY <2>1, <2>3
    <3>2. line'[m] = SubSeq(s, n + 1, Len(s))
      BY <2>2, <2>3
    <3> HIDE DEF s
    <3>3. Len(SubSeq(s, n + 1, Len(s))) = Len(s) - n
      BY <3>1
    <3>4. Len(line'[m]) = Len(s) + (-n)
      BY <3>1, <3>2, <3>3
    <3> QED
      BY <2>3, <3>4 DEF s
  <2>4. CASE m # DownLine
    BY <2>1, <2>2, <2>4
  <2> QED
    BY <2>3, <2>4
<1>3. n \in Nat /\ -n \in Int /\ DownLine \in Lines
  BY LinesAre DEF LineOK
<1>4. LinesLeft' = LinesLeft + (-n) * LineWeight(DownLine)
  BY <1>1, <1>2, <1>3, LineWeighs
<1>5. LineWeight(DownLine) = 3
  BY DEF LineWeight, UpLine, DownLine, SocketOut, SocketIn
<1>6. LinesLeft \in Nat
  BY DEF LinesLeft, LineOK, Lines, Conns, Dirs, UpLine, DownLine, SocketOut, SocketIn
<1> QED
  BY <1>3, <1>4, <1>5, <1>6

\* A copier counts by where it is.
LEMMA CopierWeights ==
    \A k \in Copiers, s \in {"off", "read", "write", "closeDest", "closeSrc", "done"} :
        CopierWeight(k, s) \in Nat
  BY ItemsGoDown DEF CopierWeight

LEMMA StepWeighs ==
    ASSUME CopiersOK, NEW k \in Copiers,
           NEW s \in {"off", "read", "write", "closeDest", "closeSrc", "done"}, Step(k, s)
    PROVE  CopiersLeft' = CopiersLeft - CopierWeight(k, copier[k]) + CopierWeight(k, s)
<1>1. k \in {<<"caller", "up">>, <<"caller", "down">>, <<"handler", "up">>, <<"handler", "down">>}
      /\ {<<"caller", "up">>, <<"caller", "down">>, <<"handler", "up">>, <<"handler", "down">>} \subseteq Copiers
  BY DEF Copiers, Nodes, Dirs
<1>2. \A j \in Copiers : /\ CopierWeight(j, copier[j]) \in Nat /\ CopierWeight(j, s) \in Nat
                         /\ copier'[j] = IF j = k THEN s ELSE copier[j]
  BY CopierWeights DEF CopiersOK, Step
<1> HIDE DEF CopierWeight
<1>3. /\ CopiersLeft' = CopierWeight(<<"caller", "up">>, copier'[<<"caller", "up">>])
                        + CopierWeight(<<"caller", "down">>, copier'[<<"caller", "down">>])
                        + CopierWeight(<<"handler", "up">>, copier'[<<"handler", "up">>])
                        + CopierWeight(<<"handler", "down">>, copier'[<<"handler", "down">>])
      /\ CopiersLeft = CopierWeight(<<"caller", "up">>, copier[<<"caller", "up">>])
                        + CopierWeight(<<"caller", "down">>, copier[<<"caller", "down">>])
                        + CopierWeight(<<"handler", "up">>, copier[<<"handler", "up">>])
                        + CopierWeight(<<"handler", "down">>, copier[<<"handler", "down">>])
  BY DEF CopiersLeft, CopierWeight, ItemWeight
<1> QED
  BY <1>1, <1>2, <1>3

LEMMA StartWeighs ==
    ASSUME CopiersOK, NEW n \in Nodes, copier' = Started(n)
    PROVE  CopiersLeft \in Nat /\ CopiersLeft' \in Nat /\ CopiersLeft' <= CopiersLeft + 6
<1>1. \A j \in Copiers : /\ CopierWeight(j, copier[j]) \in Nat
                         /\ copier'[j] = IF j[1] = n THEN "read" ELSE copier[j]
                         /\ CopierWeight(j, "read") = 3
  BY CopierWeights DEF CopiersOK, Started, CopierWeight
<1>2. {<<"caller", "up">>, <<"caller", "down">>, <<"handler", "up">>, <<"handler", "down">>} \subseteq Copiers
      /\ n \in {"caller", "handler"}
  BY DEF Copiers, Nodes, Dirs
<1>3. /\ CopiersLeft' = CopierWeight(<<"caller", "up">>, copier'[<<"caller", "up">>])
                        + CopierWeight(<<"caller", "down">>, copier'[<<"caller", "down">>])
                        + CopierWeight(<<"handler", "up">>, copier'[<<"handler", "up">>])
                        + CopierWeight(<<"handler", "down">>, copier'[<<"handler", "down">>])
      /\ CopiersLeft = CopierWeight(<<"caller", "up">>, copier[<<"caller", "up">>])
                        + CopierWeight(<<"caller", "down">>, copier[<<"caller", "down">>])
                        + CopierWeight(<<"handler", "up">>, copier[<<"handler", "up">>])
                        + CopierWeight(<<"handler", "down">>, copier[<<"handler", "down">>])
  BY DEF CopiersLeft, CopierWeight, ItemWeight
<1> QED
  BY <1>1, <1>2, <1>3

\* So do the readers, however many there are.
LEMMA ReadersFinite == \A s : IsFiniteSet({r \in Readers : reader[r] = s}) /\ ReadersAt(s) \in Nat
<1>1. IsFiniteSet(Readers)
  BY FS_Interval, ProxyAssumption DEF Readers, Protocols, Dirs
<1>2. \A s : {r \in Readers : reader[r] = s} \in SUBSET Readers
  OBVIOUS
<1> QED
  BY <1>1, <1>2, FS_Subset, FS_CardinalityType DEF ReadersAt

LEMMA CountsGo ==
    ASSUME UdpOK, NEW r \in Readers, NEW t, Goes(r, t), NEW s
    PROVE  ReadersAt(s)' = ReadersAt(s) - (IF reader[r] = s THEN 1 ELSE 0) + (IF t = s THEN 1 ELSE 0)
<1> DEFINE S == {q \in Readers : reader[q] = s}
           T == {q \in Readers : reader'[q] = s}
<1>1. IsFiniteSet(S) /\ Cardinality(S) = ReadersAt(s) /\ Cardinality(T) = ReadersAt(s)' /\ Cardinality(S) \in Nat
  BY ReadersFinite DEF ReadersAt
<1>2. \A q \in Readers : reader'[q] = IF q = r THEN t ELSE reader[q]
  BY DEF Goes, UdpOK
<1> HIDE DEF S, T
<1>3. CASE reader[r] = s /\ t # s
  <2>1. T = S \ {r} /\ r \in S
    BY <1>2, <1>3 DEF S, T
  <2>2. Cardinality(S \ {r}) = Cardinality(S) - 1
    BY <1>1, <2>1, FS_RemoveElement
  <2> QED
    BY <1>1, <1>3, <2>1, <2>2
<1>4. CASE reader[r] # s /\ t = s
  <2>1. T = S \cup {r} /\ r \notin S
    BY <1>2, <1>4 DEF S, T
  <2>2. Cardinality(S \cup {r}) = Cardinality(S) + 1
    BY <1>1, <2>1, FS_AddElement
  <2> QED
    BY <1>1, <1>4, <2>1, <2>2
<1>5. CASE (reader[r] = s) <=> (t = s)
  <2>1. T = S
    BY <1>2, <1>5 DEF S, T
  <2> QED
    BY <1>1, <1>5, <2>1
<1> QED
  BY <1>3, <1>4, <1>5

LEMMA GoesWeighs ==
    ASSUME UdpOK, NEW r \in Readers, NEW t \in {"off", "read", "arm", "write", "close", "done"}, Goes(r, t)
    PROVE  ReadersLeft' = ReadersLeft - ReaderWeight(reader[r]) + ReaderWeight(t)
<1>1. \A s : ReadersAt(s) \in Nat
  BY ReadersFinite
<1>2. \A s : ReadersAt(s)' = ReadersAt(s) - (IF reader[r] = s THEN 1 ELSE 0) + (IF t = s THEN 1 ELSE 0)
  BY CountsGo
<1>3. ReadersLeft' = 8 * ReadersAt("arm")' + 6 * ReadersAt("write")' + 2 * ReadersAt("read")' + ReadersAt("close")'
  BY DEF ReadersLeft
<1>4. reader[r] \in {"off", "read", "arm", "write", "close", "done"}
  BY DEF UdpOK
<1> QED
  BY <1>1, <1>2, <1>3, <1>4 DEF ReadersLeft, ReaderWeight

LEMMA WorkTyped ==
    ASSUME Typed
    PROVE  /\ CallerLeft \in Nat /\ HandlerLeft \in Nat /\ LinesLeft \in Nat /\ CopiersLeft \in Nat
           /\ LoopLeft \in Nat /\ ReadersLeft \in Nat /\ DeadlineLeft \in Nat
<1>1. LinesLeft \in Nat
  BY DEF Typed, LineOK, LinesLeft, Lines, Conns, Dirs, UpLine, DownLine, SocketOut, SocketIn
<1>2. CopiersLeft \in Nat
  BY CopierWeights DEF Typed, CopiersOK, CopiersLeft, Copiers, Nodes, Dirs
<1>3. ReadersLeft \in Nat
  <2>1. ReadersAt("arm") \in Nat /\ ReadersAt("write") \in Nat /\ ReadersAt("read") \in Nat /\ ReadersAt("close") \in Nat
    BY ReadersFinite
  <2> QED
    BY <2>1 DEF ReadersLeft
<1>4. DailRetryTime \in Nat /\ DailRetryTime - tries \in Nat
  BY CallAssumption DEF Typed, CallOK
<1> QED
  BY <1>1, <1>2, <1>3, <1>4 DEF CallerLeft, HandlerLeft, LoopLeft, DeadlineLeft

\* What a step leaves alone has as much left to do as before.
LEMMA WorkUnchanged ==
    /\ UNCHANGED caller => CallerLeft' = CallerLeft
    /\ UNCHANGED <<handler, tries>> => HandlerLeft' = HandlerLeft
    /\ UNCHANGED line => LinesLeft' = LinesLeft
    /\ UNCHANGED copier => CopiersLeft' = CopiersLeft
    /\ UNCHANGED loop => LoopLeft' = LoopLeft
    /\ UNCHANGED reader => ReadersLeft' = ReadersLeft
    /\ UNCHANGED deadline => DeadlineLeft' = DeadlineLeft
  BY DEF CallerLeft, HandlerLeft, LinesLeft, CopiersLeft, CopierWeight, ItemWeight, LoopLeft,
     ReadersLeft, ReadersAt, DeadlineLeft, UpLine, DownLine, SocketOut, SocketIn

LEMMA SumsShrink ==
    \A h, l, c, o, r, d \in Nat, m, e \in Int :
        m <= l /\ e <= c + 6 => 0 + h + m + e + o + r + d < 7 + h + l + c + o + r + d
  OBVIOUS

LEMMA CallerWorks == Typed /\ GetProxyStream => Work' < Work
<1> SUFFICES ASSUME Typed, GetProxyStream PROVE Work' < Work
  OBVIOUS
<1>1. UNCHANGED <<handler, tries, loop, reader, deadline>>
  BY DEF GetProxyStream, NewStream, WriteConnect, ReadAnswer, ReadAnswerFails, udp
<1>2. CallerLeft \in Nat /\ CallerLeft' \in Nat
  BY DEF CallerLeft
<1>3. CASE UNCHANGED <<line, copier>>
  <2>1. CallerLeft' < CallerLeft
    BY DEF GetProxyStream, NewStream, WriteConnect, ReadAnswer, ReadAnswerFails, Reset, Fail, CallerLeft
  <2> QED
    BY <1>1, <1>2, <1>3, <2>1, WorkTyped, WorkUnchanged DEF Work
<1>4. ASSUME NEW n \in 0 .. Len(line[DownLine]), caller = "await", caller' = "ok",
             line' = [line EXCEPT ![DownLine] = SubSeq(@, n + 1, Len(@))], copier' = Started("caller")
      PROVE  Work' < Work
  <2>1. CallerLeft = 7 /\ CallerLeft' = 0
    BY <1>4 DEF CallerLeft
  <2>2. LinesLeft' \in Int /\ LinesLeft' <= LinesLeft
    BY <1>4, SplitWeighs DEF Typed
  <2>3. CopiersLeft' \in Nat /\ CopiersLeft' <= CopiersLeft + 6
    BY <1>4, StartWeighs DEF Typed, Nodes
  <2>4. /\ HandlerLeft' = HandlerLeft /\ LoopLeft' = LoopLeft /\ ReadersLeft' = ReadersLeft
        /\ DeadlineLeft' = DeadlineLeft
    BY <1>1, WorkUnchanged
  <2>5. /\ HandlerLeft \in Nat /\ LinesLeft \in Nat /\ CopiersLeft \in Nat /\ LoopLeft \in Nat
        /\ ReadersLeft \in Nat /\ DeadlineLeft \in Nat
    BY WorkTyped
  <2>6. LinesLeft' \in Int /\ CopiersLeft' \in Int
    BY <2>2, <2>3
  <2>7. 0 + HandlerLeft + LinesLeft' + CopiersLeft' + LoopLeft + ReadersLeft + DeadlineLeft
        < 7 + HandlerLeft + LinesLeft + CopiersLeft + LoopLeft + ReadersLeft + DeadlineLeft
    BY <2>2, <2>3, <2>5, <2>6, SumsShrink, Zenon
  <2>8. Work' = CallerLeft' + HandlerLeft' + LinesLeft' + CopiersLeft' + LoopLeft' + ReadersLeft' + DeadlineLeft'
    BY DEF Work
  <2> QED
    BY <2>1, <2>4, <2>7, <2>8, Zenon DEF Work
<1> QED
  BY <1>3, <1>4 DEF GetProxyStream, NewStream, WriteConnect, ReadAnswer, ReadAnswerFails, Reset, Fail

LEMMA HandlerWorks == Typed /\ ProxyStreamHandler => Work' < Work
<1> SUFFICES ASSUME Typed, ProxyStreamHandler PROVE Work' < Work
  OBVIOUS
<1>1. UNCHANGED <<caller, line, reader, deadline>>
  BY DEF ProxyStreamHandler, Handle, ReadConnect, Dial, WriteFailed, WriteSuccess, pvars, conns, udp
<1>2. HandlerLeft \in Nat /\ DailRetryTime \in Nat /\ tries \in Nat /\ tries <= DailRetryTime
  BY WorkTyped, CallAssumption DEF Typed, CallOK
<1>3. CASE Handle \/ ReadConnect \/ WriteFailed
  <2>1. HandlerLeft' \in Nat /\ HandlerLeft' < HandlerLeft
    BY <1>2, <1>3 DEF Handle, ReadConnect, WriteFailed, HandlerLeft
  <2>2. UNCHANGED <<copier, loop>>
    BY <1>3 DEF Handle, ReadConnect, WriteFailed, pvars, udp
  <2> QED
    BY <1>1, <1>2, <2>1, <2>2, WorkTyped, WorkUnchanged DEF Work
<1>4. CASE Dial
  <2>1. HandlerLeft' \in Nat /\ HandlerLeft' < HandlerLeft
    BY <1>2, <1>4 DEF Dial, Dialled, HandlerLeft
  <2>2. UNCHANGED <<copier, loop>>
    BY <1>4 DEF Dial
  <2> QED
    BY <1>1, <1>2, <2>1, <2>2, WorkTyped, WorkUnchanged DEF Work
<1>5. CASE WriteSuccess
  <2>1. HandlerLeft' = 0 /\ HandlerLeft = 7
    BY <1>5 DEF WriteSuccess, HandlerLeft
  <2>2. CASE UNCHANGED <<copier, loop>>
    BY <1>1, <2>1, <2>2, WorkTyped, WorkUnchanged DEF Work
  <2>3. CASE copier' = Started("handler") /\ UNCHANGED loop
    <3>1. CopiersLeft' \in Nat /\ CopiersLeft' <= CopiersLeft + 6
      BY <2>3, StartWeighs DEF Typed, Nodes
    <3> QED
      BY <1>1, <2>1, <2>3, <3>1, WorkTyped, WorkUnchanged DEF Work
  <2>4. CASE loop' = "read" /\ UNCHANGED copier
    <3>1. LoopLeft' = 1
      BY <2>4 DEF LoopLeft
    <3> QED
      BY <1>1, <2>1, <2>4, <3>1, WorkTyped, WorkUnchanged DEF Work
  <2> QED
    BY <1>5, <2>2, <2>3, <2>4 DEF WriteSuccess
<1> QED
  BY <1>3, <1>4, <1>5 DEF ProxyStreamHandler

LEMMA CopierWorks ==
    ASSUME Typed, NEW k \in Copiers, Copy(k)
    PROVE  Work' < Work
<1>1. UNCHANGED <<caller, handler, tries, loop, reader, deadline>>
  BY DEF Copy, udp, call
<1>2. Src(k) \in Lines /\ Dest(k) \in Lines /\ item[k] \in Nat /\ LineOK /\ CopiersOK
  BY LinesAre DEF Typed, CopiersOK
<1>3. /\ ItemWeight(k) \in Nat /\ LineWeight(Src(k)) \in Nat /\ LineWeight(Dest(k)) \in Nat
      /\ LineWeight(Src(k)) > ItemWeight(k) /\ ItemWeight(k) > LineWeight(Dest(k))
  BY ItemsGoDown
<1>4. /\ CopierWeight(k, "read") = 3 /\ CopierWeight(k, "write") = 3 + ItemWeight(k)
      /\ CopierWeight(k, "closeDest") = 2 /\ CopierWeight(k, "closeSrc") = 1 /\ CopierWeight(k, "done") = 0
  BY DEF CopierWeight
<1> HIDE DEF CopierWeight
<1>5. CASE copier[k] = "read" /\ line[Src(k)] # <<>> /\ Take(Src(k)) /\ Step(k, "write")
  <2>1. LinesLeft' = LinesLeft - LineWeight(Src(k))
    BY <1>2, <1>5, TakeWeighs
  <2>2. CopiersLeft' = CopiersLeft - CopierWeight(k, "read") + CopierWeight(k, "write")
    BY <1>2, <1>5, StepWeighs
  <2> QED
    BY <1>1, <1>3, <1>4, <2>1, <2>2, WorkTyped, WorkUnchanged DEF Work
<1>6. CASE copier[k] = "write" /\ Len(line[Dest(k)]) < Room /\ Put(Dest(k), item[k]) /\ Step(k, "read")
  <2>1. LinesLeft' = LinesLeft + LineWeight(Dest(k))
    BY <1>2, <1>6, PutWeighs
  <2>2. CopiersLeft' = CopiersLeft - CopierWeight(k, "write") + CopierWeight(k, "read")
    BY <1>2, <1>6, StepWeighs
  <2> QED
    BY <1>1, <1>3, <1>4, <2>1, <2>2, WorkTyped, WorkUnchanged DEF Work
<1>7. ASSUME UNCHANGED line, NEW s \in {"read", "closeDest", "closeSrc", "done"}, Step(k, s),
             CopierWeight(k, s) < CopierWeight(k, copier[k])
      PROVE  Work' < Work
  <2>1. CopiersLeft' = CopiersLeft - CopierWeight(k, copier[k]) + CopierWeight(k, s)
    BY <1>2, <1>7, StepWeighs
  <2>2. CopierWeight(k, s) \in Nat /\ CopierWeight(k, copier[k]) \in Nat
    BY <1>2, CopierWeights DEF CopiersOK
  <2> QED
    BY <1>1, <1>7, <2>1, <2>2, WorkTyped, WorkUnchanged DEF Work
<1>8. CASE Read(k)
  <2>1. CASE copier[k] = "read" /\ Step(k, "closeDest") /\ UNCHANGED line
    BY <1>4, <1>7, <2>1
  <2> QED
    BY <1>5, <1>8, <2>1 DEF Read
<1>9. CASE Write(k)
  <2>1. CASE copier[k] = "write" /\ UNCHANGED line /\ (Step(k, "read") \/ Step(k, "closeDest"))
    <3>1. CopierWeight(k, "read") < CopierWeight(k, "write") /\ CopierWeight(k, "closeDest") < CopierWeight(k, "write")
      BY <1>3, <1>4
    <3> QED
      BY <1>7, <2>1, <3>1
  <2> QED
    BY <1>6, <1>9, <2>1 DEF Write
<1>10. CASE CloseDest(k) \/ CloseSrc(k)
  <2>1. \/ copier[k] = "closeDest" /\ Step(k, "closeSrc") /\ UNCHANGED line
        \/ copier[k] = "closeSrc" /\ Step(k, "done") /\ UNCHANGED line
    BY <1>10 DEF CloseDest, CloseSrc
  <2> QED
    BY <1>4, <1>7, <2>1
<1> QED
  BY <1>8, <1>9, <1>10 DEF Copy, CopyBytes

LEMMA UdpWeights ==
    /\ LineWeight(UpLine) = 8 /\ LineWeight(SocketOut) = 1 /\ LineWeight(SocketIn) = 7 /\ LineWeight(DownLine) = 3
    /\ {UpLine, SocketOut, SocketIn, DownLine} \subseteq Lines
  BY LinesAre DEF LineWeight, UpLine, DownLine, SocketOut, SocketIn

LEMMA LoopWorks == Typed /\ UdpLoop => Work' < Work
<1> SUFFICES ASSUME Typed, UdpLoop PROVE Work' < Work
  OBVIOUS
<1>1. UNCHANGED <<caller, handler, tries, copier>>
  BY DEF UdpLoop, ProxyConnUDP, LoopRead, Spawn, LoopWrite, LoopArm, pvars, call
<1>2. LineOK /\ UdpOK /\ datagram \in Nat
  BY DEF Typed, UdpOK
<1>3. CASE LoopRead
  <2>1. UNCHANGED <<reader, deadline>>
    BY <1>3 DEF LoopRead
  <2>2. CASE line[UpLine] # <<>> /\ Take(UpLine) /\ loop' = "spawn"
    <3>1. LinesLeft' = LinesLeft - 8
      BY <1>2, <2>2, TakeWeighs, UdpWeights
    <3>2. LoopLeft = 1 /\ LoopLeft' = 8
      BY <1>3, <2>2 DEF LoopRead, LoopLeft
    <3> QED
      BY <1>1, <2>1, <3>1, <3>2, WorkTyped, WorkUnchanged DEF Work
  <2>3. CASE loop' = "ended" /\ UNCHANGED line
    <3>1. LoopLeft = 1 /\ LoopLeft' = 0
      BY <1>3, <2>3 DEF LoopRead, LoopLeft
    <3> QED
      BY <1>1, <2>1, <2>3, <3>1, WorkTyped, WorkUnchanged DEF Work
  <2> QED
    BY <1>3, <2>2, <2>3 DEF LoopRead
<1>4. CASE Spawn
  <2>1. UNCHANGED <<line, deadline>> /\ LoopLeft = 8 /\ LoopLeft' = 5
    BY <1>4 DEF Spawn, pvars, conns, LoopLeft
  <2>2. PICK r \in Readers : reader[r] = "off" /\ Goes(r, "read")
    BY <1>4 DEF Spawn, Goes
  <2>3. ReadersLeft' = ReadersLeft + 2
    <3>1. ReadersLeft' = ReadersLeft - ReaderWeight("off") + ReaderWeight("read") /\ ReadersLeft \in Nat
      BY <1>2, <2>2, GoesWeighs, WorkTyped
    <3> QED
      BY <3>1 DEF ReaderWeight
  <2> QED
    BY <1>1, <2>1, <2>3, WorkTyped, WorkUnchanged DEF Work
<1>5. CASE LoopWrite
  <2>1. UNCHANGED <<reader, deadline>> /\ LoopLeft = 5 /\ LoopLeft' \in {1, 3}
    BY <1>5 DEF LoopWrite, LoopLeft
  <2>2. CASE Len(line[SocketOut]) < Room /\ Put(SocketOut, datagram)
    <3>1. LinesLeft' = LinesLeft + 1
      BY <1>2, <2>2, PutWeighs, UdpWeights
    <3> QED
      BY <1>1, <2>1, <3>1, WorkTyped, WorkUnchanged DEF Work
  <2>3. CASE UNCHANGED line
    BY <1>1, <2>1, <2>3, WorkTyped, WorkUnchanged DEF Work
  <2> QED
    BY <1>5, <2>2, <2>3 DEF LoopWrite
<1>6. CASE LoopArm
  <2>1. UNCHANGED <<line, reader>> /\ LoopLeft = 3 /\ LoopLeft' = 1 /\ DeadlineLeft' \in {0, 1}
    BY <1>6 DEF LoopArm, LoopLeft, DeadlineLeft, pvars, conns
  <2> QED
    BY <1>1, <2>1, WorkTyped, WorkUnchanged DEF Work
<1> QED
  BY <1>3, <1>4, <1>5, <1>6 DEF UdpLoop, ProxyConnUDP

LEMMA ReaderWorks ==
    ASSUME Typed, NEW r \in Readers, UdpReader(r)
    PROVE  Work' < Work
<1>1. UNCHANGED <<caller, handler, tries, copier, loop>>
  BY DEF UdpReader, CopyDatagram, UdpRead, UdpArm, UdpWrite, UdpClose, pvars, call
<1>2. LineOK /\ UdpOK /\ reply[r] \in Nat
  BY DEF Typed, UdpOK
<1>3. \A t \in {"off", "read", "arm", "write", "close", "done"} :
          Goes(r, t) => ReadersLeft' = ReadersLeft - ReaderWeight(reader[r]) + ReaderWeight(t)
  BY <1>2, GoesWeighs
<1>4. /\ ReaderWeight("arm") = 8 /\ ReaderWeight("write") = 6 /\ ReaderWeight("read") = 2
      /\ ReaderWeight("close") = 1 /\ ReaderWeight("done") = 0
  BY DEF ReaderWeight
<1> HIDE DEF ReaderWeight
<1>5. CASE UdpRead(r)
  <2>1. UNCHANGED deadline /\ reader[r] = "read"
    BY <1>5 DEF UdpRead
  <2>2. CASE line[SocketIn] # <<>> /\ Take(SocketIn) /\ Goes(r, "arm")
    <3>1. LinesLeft' = LinesLeft - 7
      BY <1>2, <2>2, TakeWeighs, UdpWeights
    <3>2. ReadersLeft' = ReadersLeft + 6
      BY <1>3, <1>4, <2>1, <2>2, WorkTyped
    <3> QED
      BY <1>1, <2>1, <3>1, <3>2, WorkTyped, WorkUnchanged DEF Work
  <2>3. CASE Goes(r, "close") /\ UNCHANGED line
    <3>1. ReadersLeft' = ReadersLeft - 1
      BY <1>3, <1>4, <2>1, <2>3, WorkTyped
    <3> QED
      BY <1>1, <2>1, <2>3, <3>1, WorkTyped, WorkUnchanged DEF Work
  <2> QED
    BY <1>5, <2>2, <2>3 DEF UdpRead
<1>6. CASE UdpArm(r)
  <2>1. UNCHANGED line /\ reader[r] = "arm" /\ DeadlineLeft' \in {0, 1} /\ (Goes(r, "write") \/ Goes(r, "close"))
    BY <1>6 DEF UdpArm, DeadlineLeft, pvars, conns
  <2>2. ReadersLeft' = ReadersLeft - 2 \/ ReadersLeft' = ReadersLeft - 7
    BY <1>3, <1>4, <2>1, WorkTyped
  <2> QED
    BY <1>1, <2>1, <2>2, WorkTyped, WorkUnchanged DEF Work
<1>7. CASE UdpWrite(r)
  <2>1. UNCHANGED deadline /\ reader[r] = "write"
    BY <1>7 DEF UdpWrite
  <2>2. CASE Len(line[DownLine]) < Room /\ Put(DownLine, reply[r]) /\ Goes(r, "read")
    <3>1. LinesLeft' = LinesLeft + 3
      BY <1>2, <2>2, PutWeighs, UdpWeights
    <3>2. ReadersLeft' = ReadersLeft - 4
      <4>1. ReadersLeft' = ReadersLeft - ReaderWeight("write") + ReaderWeight("read")
        BY <1>3, <2>1, <2>2
      <4> QED
        BY <1>4, <4>1, WorkTyped
    <3> QED
      BY <1>1, <2>1, <3>1, <3>2, WorkTyped, WorkUnchanged DEF Work
  <2>3. CASE (Goes(r, "read") \/ Goes(r, "close")) /\ UNCHANGED line
    <3>1. ReadersLeft' = ReadersLeft - 4 \/ ReadersLeft' = ReadersLeft - 5
      BY <1>3, <1>4, <2>1, <2>3, WorkTyped
    <3> QED
      BY <1>1, <2>1, <2>3, <3>1, WorkTyped, WorkUnchanged DEF Work
  <2> QED
    BY <1>7, <2>2, <2>3 DEF UdpWrite
<1>8. CASE UdpClose(r)
  <2>1. UNCHANGED <<line, deadline>> /\ reader[r] = "close" /\ Goes(r, "done")
    BY <1>8 DEF UdpClose, pvars, conns
  <2>2. ReadersLeft' = ReadersLeft - 1
    BY <1>3, <1>4, <2>1, WorkTyped
  <2> QED
    BY <1>1, <2>1, <2>2, WorkTyped, WorkUnchanged DEF Work
<1> QED
  BY <1>5, <1>6, <1>7, <1>8 DEF UdpReader, CopyDatagram

\* Every step of the two processes and the clock leaves less to do, for any number
\* of items, readers and dials: left alone by the applications they come to rest,
\* after Work steps at the latest, and neither retries, nor deadlines that are set
\* anew, nor a reader per datagram keep them going.
THEOREM UsesUp == Spec => [][System => Work \in Nat /\ Work' < Work]_vars
<1>1. Typed /\ [Next]_vars => [System => Work \in Nat /\ Work' < Work]_vars
  <2> SUFFICES ASSUME Typed, System PROVE Work \in Nat /\ Work' < Work
    OBVIOUS
  <2>1. Work \in Nat
    BY WorkTyped DEF Work
  <2>2. CASE DeadlinePasses /\ UNCHANGED call
    <3>1. DeadlineLeft = 1 /\ DeadlineLeft' = 0
      BY <2>2 DEF DeadlinePasses, DeadlineLeft
    <3>2. UNCHANGED <<caller, handler, tries, line, copier, loop, reader>>
      BY <2>2 DEF DeadlinePasses, pvars, conns, call
    <3> QED
      BY <2>1, <3>1, <3>2, WorkTyped, WorkUnchanged DEF Work
  <2> QED
    BY <2>1, <2>2, CallerWorks, HandlerWorks, CopierWorks, LoopWorks, ReaderWorks DEF System
<1> QED
  BY <1>1, InitTyped, TypedKept, PTL DEF Spec
-------------------------------------------------------------------------------
(* The call as one stream between the applications.                        *)

\* What TwoWayStream sees of a call.
Output == [d \in Dirs |-> IF protocol = "tcp" THEN Received(d) ELSE <<>>]
ShutDirs == {d \in Dirs : First(d) \in ended \cup deaf}

\* The part of Run that the outside sees, and that it is about sequences.
Prefix(d) ==
    /\ Received(d) \in Seq(Nat) /\ sent[d] \in Seq(Nat)
    /\ Counts(sent[d], 0) /\ Counts(Received(d), 0)
    /\ Len(Received(d)) <= Len(sent[d])

PrefixInv == protocol = "tcp" => \A d \in Dirs : Prefix(d)

LEMMA PrefixIs == Typed /\ OrderInv => PrefixInv
<1> SUFFICES ASSUME Typed, OrderInv, protocol = "tcp", NEW d \in Dirs PROVE Prefix(d)
  BY DEF PrefixInv
<1>1. /\ Counts(sent[d], 0) /\ Counts(Received(d), 0)
      /\ Len(Received(d)) + Len(line[Final(d)]) <= Len(sent[d])
  BY DEF OrderInv, Run, FinalInv, Arrived
<1>2. /\ Received(d) \in Seq(Nat) /\ sent[d] \in Seq(Nat)
      /\ Len(Received(d)) \in Nat /\ Len(line[Final(d)]) \in Nat /\ Len(sent[d]) \in Nat
  BY Numbers, Places
<1> QED
  BY <1>1, <1>2 DEF Prefix

\* A step of nothing but one direction's receiver hands on the next items.
LEMMA HandsOn ==
    ASSUME NEW d \in Dirs, protocol = "tcp", protocol' = "tcp",
           Prefix(d), Prefix(d)', Len(Received(d)) < Len(Received(d)'),
           \A e \in Dirs : e # d => Received(e)' = Received(e),
           UNCHANGED <<sent, ended, deaf>>
    PROVE  Stream!Deliver(d)
<1> DEFINE r == Received(d)
           q == Received(d)'
           s == sent[d]
<1>1. /\ r \in Seq(Nat) /\ q \in Seq(Nat) /\ s \in Seq(Nat)
      /\ Counts(s, 0) /\ Counts(q, 0) /\ Len(q) <= Len(s) /\ Len(r) < Len(q)
  BY DEF Prefix, Counts
<1>2. Output' = [Output EXCEPT ![d] = q]
  BY DEF Output
<1>3. Output[d] = r
  BY DEF Output
<1> HIDE DEF r, q, s
<1>4. Len(q) \in Len(r) + 1 .. Len(s) /\ q = SubSeq(s, 1, Len(q))
  BY <1>1 DEF Counts
<1>5. ShutDirs' = ShutDirs
  BY DEF ShutDirs
<1>6. \E n \in Len(Output[d]) + 1 .. Len(s) : Output' = [Output EXCEPT ![d] = SubSeq(s, 1, n)]
  BY <1>2, <1>3, <1>4
<1> QED
  BY <1>5, <1>6 DEF Stream!Deliver, Output, ShutDirs, First, s

LEMMA SeenShut ==
    ASSUME ended \subseteq ended', deaf \subseteq deaf', UNCHANGED <<protocol, sent, got, swallowed>>
    PROVE  Stream!Shut
<1>1. ShutDirs \subseteq ShutDirs' /\ Output' = Output
  BY DEF ShutDirs, Output, Received
<1> QED
  BY <1>1 DEF Stream!Shut, ShutDirs, Output, First

LEMMA SeenSend ==
    ASSUME Typed, NEW d \in Dirs, AppSends(d), UNCHANGED call
    PROVE  Stream!Send(d)
<1>1. /\ First(d) \notin ended \cup deaf /\ Len(sent[d]) < Items[protocol][d]
      /\ sent' = [sent EXCEPT ![d] = Append(@, Len(@) + 1)]
      /\ UNCHANGED <<protocol, ended, deaf, got, swallowed>>
  BY DEF AppSends, call, First
<1>2. protocol \in Protocols /\ Len(sent[d]) \in Nat /\ Items[protocol][d] \in Nat
  BY ProxyAssumption DEF Typed, ConnsOK, AppsOK
<1>3. Len(sent[d]) + 1 \in 1 .. Items[protocol][d]
  BY <1>1, <1>2
<1>4. Len(sent[d]) + 1 \in ItemNumbers
  <2> DEFINE S == {1 .. Items[p][e] : p \in Protocols, e \in Dirs}
  <2>1. 1 .. Items[protocol][d] \in S
    BY <1>2
  <2>2. ItemNumbers = UNION S
    BY DEF ItemNumbers
  <2> HIDE DEF S
  <2> QED
    BY <1>3, <2>1, <2>2
<1>5. \E x \in ItemNumbers : sent' = [sent EXCEPT ![d] = Append(@, x)]
  BY <1>1, <1>4
<1>6. Output' = Output /\ ShutDirs' = ShutDirs /\ d \notin ShutDirs
  BY <1>1 DEF Output, Received, ShutDirs
<1> QED
  BY <1>5, <1>6 DEF Stream!Send, Output, ShutDirs, First

LEMMA SeenReceive ==
    ASSUME Typed, PrefixInv, PrefixInv', NEW d \in Dirs, AppReceives(d), UNCHANGED call
    PROVE  Stream!Deliver(d) \/ Stream!Shut
<1>1. /\ got' = [got EXCEPT ![d] = Append(@, Head(line[Final(d)]))] /\ line[Final(d)] # <<>>
      /\ UNCHANGED <<protocol, sent, ended, deaf, swallowed>>
  BY DEF AppReceives, call, Final
<1>2. CASE protocol = "tcp"
  <2>1. Head(line[Final(d)]) \in Nat
    BY <1>1, Places DEF Typed, LineOK
  <2>2. Received(d)' = Append(Received(d), Head(line[Final(d)]))
    BY <1>1, <2>1, ReceivedGrows
  <2>3. Prefix(d) /\ Prefix(d)'
    BY <1>1, <1>2 DEF PrefixInv
  <2>4. Len(Received(d)) < Len(Received(d)')
    <3>1. \A z \in Seq(Nat), x \in Nat : Len(z) < Len(Append(z, x))
      OBVIOUS
    <3> QED
      BY <2>1, <2>2, <2>3, <3>1 DEF Prefix
  <2>5. \A e \in Dirs : e # d => Received(e)' = Received(e)
    BY <1>1 DEF Received, Typed, AppsOK
  <2> QED
    BY <1>1, <1>2, <2>3, <2>4, <2>5, HandsOn
<1>3. CASE protocol # "tcp"
  <2>1. Output' = Output /\ ShutDirs' = ShutDirs
    BY <1>1, <1>3 DEF Output, ShutDirs
  <2> QED
    BY <1>1, <2>1 DEF Stream!Shut, Output, ShutDirs, First
<1> QED
  BY <1>2, <1>3

\* Items that came with the answer are out, although no application has them.
LEMMA SeenAnswer ==
    ASSUME Typed, OrderInv, PrefixInv, PrefixInv', ReadAnswer, answer # "FAILED"
    PROVE  Stream!Deliver("down") \/ Stream!Shut
<1>1. PICK n \in 0 .. Len(line[DownLine]) : swallowed' = SubSeq(line[DownLine], 1, n)
  BY DEF ReadAnswer
<1>2. caller = "await" /\ UNCHANGED <<protocol, sent, got, ended, deaf>>
  BY DEF ReadAnswer, apps
<1>3. CASE protocol = "tcp"
  <2>1. swallowed = <<>> /\ got["down"] = <<>> /\ "down" \in Dirs
    BY <1>2, <1>3 DEF OrderInv, NotYet, Dirs
  <2>2. Prefix("down") /\ Prefix("down")'
    BY <1>2, <1>3, <2>1 DEF PrefixInv
  <2>3. \A e \in Dirs : e # "down" => Received(e)' = Received(e)
    BY <1>2 DEF Received
  <2>4. Received("down") = <<>>
    BY <2>1 DEF Received
  <2>5. CASE Received("down")' = <<>>
    <3>1. \A d \in Dirs : Received(d)' = Received(d)
      BY <2>3, <2>4, <2>5
    <3>2. Output' = Output /\ ShutDirs' = ShutDirs
      BY <1>2, <3>1 DEF Output, ShutDirs
    <3> QED
      BY <1>2, <3>2 DEF Stream!Shut, Output, ShutDirs, First
  <2>6. CASE Received("down")' # <<>>
    <3>1. Len(Received("down")) < Len(Received("down")')
      BY <2>2, <2>4, <2>6 DEF Prefix
    <3> QED
      BY <1>2, <1>3, <2>1, <2>2, <2>3, <3>1, HandsOn
  <2> QED
    BY <2>5, <2>6
<1>4. CASE protocol # "tcp"
  <2>1. Output' = Output /\ ShutDirs' = ShutDirs
    BY <1>2, <1>4 DEF Output, ShutDirs
  <2> QED
    BY <1>2, <2>1 DEF Stream!Shut, Output, ShutDirs, First
<1> QED
  BY <1>3, <1>4

\* No other step takes items in or hands any out.
LEMMA Unseen ==
    ASSUME [Next]_vars, ReadAnswer => answer = "FAILED",
           \A d \in Dirs : ~((AppSends(d) \/ AppReceives(d)) /\ UNCHANGED call)
    PROVE  UNCHANGED <<sent, got, swallowed>>
<1>1. CASE GetProxyStream
  BY <1>1 DEF GetProxyStream, NewStream, WriteConnect, ReadAnswer, ReadAnswerFails, apps
<1>2. CASE ProxyStreamHandler
  BY <1>2 DEF ProxyStreamHandler, Handle, ReadConnect, Dial, WriteFailed, WriteSuccess, pvars, apps
<1>3. ASSUME NEW k \in Copiers, Copy(k) PROVE UNCHANGED <<sent, got, swallowed>>
  BY <1>3 DEF Copy, CopyBytes, Read, Write, CloseDest, CloseSrc, apps, call
<1>4. CASE UdpLoop
  BY <1>4 DEF UdpLoop, ProxyConnUDP, LoopRead, Spawn, LoopWrite, LoopArm, pvars, apps, call
<1>5. ASSUME NEW r \in Readers, UdpReader(r) \/ (UdpRefused(r) /\ UNCHANGED call)
      PROVE  UNCHANGED <<sent, got, swallowed>>
  BY <1>5 DEF UdpReader, CopyDatagram, UdpRead, UdpArm, UdpWrite, UdpClose, UdpRefused, pvars, apps, call
<1>6. CASE DeadlinePasses /\ UNCHANGED call
  BY <1>6 DEF DeadlinePasses, pvars, apps, call
<1>7. ASSUME NEW d \in Dirs, Apps(d) PROVE UNCHANGED <<sent, got, swallowed>>
  BY <1>7 DEF Apps, AppEnds, call
<1>8. CASE LoseStream
  BY <1>8 DEF LoseStream, Break, call
<1>9. CASE UNCHANGED vars
  BY <1>9 DEF vars, pvars, apps, call
<1> QED
  BY <1>1, <1>2, <1>3, <1>4, <1>5, <1>6, <1>7, <1>8, <1>9 DEF Next, System

LEMMA StreamStep ==
    Typed /\ OrderInv /\ PrefixInv /\ PrefixInv' /\ [Next]_vars => Stream!Next
<1> SUFFICES ASSUME Typed, OrderInv, PrefixInv, PrefixInv', [Next]_vars PROVE Stream!Next
  OBVIOUS
<1>1. CASE ReadAnswer /\ answer # "FAILED"
  BY <1>1, SeenAnswer DEF Stream!Next, Dirs
<1>2. ASSUME NEW d \in Dirs, (AppSends(d) \/ AppReceives(d)) /\ UNCHANGED call PROVE Stream!Next
  BY <1>2, SeenSend, SeenReceive DEF Stream!Next
<1>3. CASE /\ ReadAnswer => answer = "FAILED"
           /\ \A d \in Dirs : ~((AppSends(d) \/ AppReceives(d)) /\ UNCHANGED call)
  <2>1. UNCHANGED <<sent, got, swallowed>>
    BY <1>3, Unseen
  <2> QED
    BY <2>1, OnlyGrow, ProtocolKept, SeenShut DEF Stream!Next
<1> QED
  BY <1>1, <1>2, <1>3

LEMMA StreamInit == Init => Stream!Init
<1> SUFFICES ASSUME Init PROVE Stream!Init
  OBVIOUS
<1>1. sent = [d \in Dirs |-> <<>>] /\ ShutDirs = {}
  BY DEF Init, PInit, ShutDirs
<1>2. \A d \in Dirs : Received(d) = <<>>
  BY DEF Init, PInit, Received
<1>3. Output = [d \in Dirs |-> <<>>]
  BY <1>2 DEF Output
<1> QED
  BY <1>1, <1>3 DEF Stream!Init, Output, ShutDirs, First

\* Three connections and four copiers in a row are one stream to the applications
\* at their ends: what comes out is always the next of what went in, over TCP, and
\* an end that was shut takes nothing more in; for any amount of data, any room and
\* however connections break or close (conn.go:29-55, tunnel.go:282).
THEOREM ImplementsStream == Spec => StreamSpec
<1>1. Typed /\ OrderInv => PrefixInv
  BY PrefixIs
<1>2. Typed /\ OrderInv /\ PrefixInv /\ PrefixInv' /\ [Next]_vars => Stream!Next
  BY StreamStep
<1> QED
  BY <1>1, <1>2, StreamInit, InitOrder, InitTyped, TypedKept, OrderKept, PTL DEF Spec, StreamSpec, Stream!Spec

===============================================================================
