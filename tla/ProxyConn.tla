------------------------------- MODULE ProxyConn -------------------------------
(***************************************************************************)
(* ProxyConn and copyBytes of libp2p/test/udp/util/net/conn.go, on both    *)
(* nodes of a proxied call:                                                *)
(*                                                                         *)
(*   client app -- client -- caller -- stream -- handler -- endpoint -- app *)
(*                                                                         *)
(* Three connections in a row, each with a direction up (to the endpoint)  *)
(* and a direction down; two nodes, each with a copier per direction.  An  *)
(* item is what one Read returns.  The applications at the two ends send,  *)
(* receive, stop receiving, half-close and close as they like.             *)
(***************************************************************************)
EXTENDS Naturals, FiniteSets, Sequences

CONSTANTS
    Items,      \* Items[p][d]: how many items are sent in direction d over protocol p
    Together,   \* Together[p]: how many in both directions
    Room,       \* items a direction of a connection holds before Write blocks
    MaxBreaks   \* how often a connection is lost

Protocols == {"tcp", "udp", "other"}
Dirs == {"up", "down"}
Nodes == {"caller", "handler"}
Conns == {"client", "stream", "endpoint"}
Copiers == Nodes \X Dirs
Lines == Conns \X Dirs

ASSUME ProxyAssumption ==
    /\ Items \in [Protocols -> [Dirs -> Nat]] /\ Together \in [Protocols -> Nat]
    /\ Room \in Nat \ {0} /\ MaxBreaks \in Nat

VARIABLES
    protocol,   \* the protocol the caller asks for
    made,       \* connections that were made
    line,       \* line[<<c, d>>]: items under way on connection c in direction d
    ended,      \* lines whose writer has closed: EOF follows the last item
    deaf,       \* lines whose reader has closed
    broken,     \* connections that were reset or lost
    copier,     \* copier[<<n, d>>]: where the copier of node n for direction d is
    item,       \* the item it has read and not written, or 0
    sent, got,  \* sent[d], got[d]: items the applications sent and received
    quiet       \* history, see Disturb

conns == <<protocol, made, line, ended, deaf, broken>>
apps == <<sent, got, quiet>>
pvars == <<conns, copier, item, apps>>

PInit ==
    /\ protocol \in Protocols
    /\ made = {"client"}
    /\ line = [l \in Lines |-> <<>>]
    /\ ended = {} /\ deaf = {} /\ broken = {}
    /\ copier = [k \in Copiers |-> "off"]
    /\ item = [k \in Copiers |-> 0]
    /\ sent = [d \in Dirs |-> <<>>]
    /\ got = [d \in Dirs |-> <<>>]
    /\ quiet = [d \in Dirs |-> TRUE]

Other(d) == IF d = "up" THEN "down" ELSE "up"

\* The connections of a node: items that go up come in on one and leave on the
\* other, items that go down the other way round.
In(n, d) == IF n = "caller" THEN (IF d = "up" THEN "client" ELSE "stream")
                            ELSE (IF d = "up" THEN "stream" ELSE "endpoint")
Out(n, d) == In(n, Other(d))

Src(k) == <<In(k[1], k[2]), k[2]>>
Dest(k) == <<Out(k[1], k[2]), k[2]>>

Past(k) == copier[k] \in {"closeDest", "closeSrc", "done"}
AllDone == \A k \in Copiers : copier[k] = "done"

\* d goes quietly: its application ended first, having received all that was
\* sent to it, and nothing broke and nobody else sent or closed since.
Disturb(ds) == quiet' = [d \in Dirs |-> quiet[d] /\ d \notin ds]
-------------------------------------------------------------------------------
(* Connections.                                                            *)

\* The end of connection c that is read in direction d is closed.
CloseEnd(c, d) ==
    /\ ended' = ended \cup {<<c, Other(d)>>}
    /\ deaf' = deaf \cup {<<c, d>>}

Break(c) ==
    /\ c \in made \ broken
    /\ Cardinality(broken) < MaxBreaks
    /\ broken' = broken \cup {c}
    /\ Disturb(Dirs)
    /\ UNCHANGED <<protocol, made, line, ended, deaf, copier, item, sent, got>>

Put(l, x) == line' = [line EXCEPT ![l] = Append(@, x)]
Take(l) == line' = [line EXCEPT ![l] = Tail(@)]
-------------------------------------------------------------------------------
(* The applications: sender and receiver of direction d.                   *)

Origin(d) == IF d = "up" THEN "client" ELSE "endpoint"
Target(d) == IF d = "up" THEN "endpoint" ELSE "client"

AppSends(d) ==
    LET l == <<Origin(d), d>> IN
    /\ Origin(d) \in made /\ l \notin ended \cup deaf
    /\ Len(sent[d]) < Items[protocol][d] /\ Len(line[l]) < Room
    /\ Len(sent["up"]) + Len(sent["down"]) < Together[protocol]
    /\ sent' = [sent EXCEPT ![d] = Append(@, Len(@) + 1)]
    /\ Put(l, Len(sent[d]) + 1)
    /\ Disturb(IF <<Origin(Other(d)), Other(d)>> \in ended THEN {Other(d)} ELSE {})
    /\ UNCHANGED <<protocol, made, ended, deaf, broken, copier, item, got>>

AppReceives(d) ==
    LET l == <<Target(d), d>> IN
    /\ line[l] # <<>> /\ l \notin deaf
    /\ got' = [got EXCEPT ![d] = Append(@, Head(line[l]))]
    /\ Take(l)
    /\ UNCHANGED <<protocol, made, ended, deaf, broken, copier, item, sent, quiet>>

\* It closes its sending direction, or the whole connection; TCP resets a
\* connection that is closed with input nobody has read.
AppEnds(d) ==
    LET l == <<Origin(d), d>>  back == <<Origin(d), Other(d)>> IN
    /\ Origin(d) \in made
    /\ \/ l \notin ended /\ ended' = ended \cup {l} /\ UNCHANGED <<deaf, broken>>
       \/ /\ back \notin deaf
          /\ CloseEnd(Origin(d), Other(d))
          /\ broken' = IF line[back] = <<>> THEN broken ELSE broken \cup {Origin(d)}
    /\ Disturb({Other(d)} \cup (IF got[Other(d)] = sent[Other(d)] THEN {} ELSE {d}))
    /\ UNCHANGED <<protocol, made, line, copier, item, sent, got>>
-------------------------------------------------------------------------------
(* copyBytes.                                                              *)

Step(k, s) == copier' = [copier EXCEPT ![k] = s]

\* Seeded fault: the copier takes the end of the stream to have come although
\* it has not read all that was sent before.
ReadForgets(k) ==
    /\ copier[k] = "read"
    /\ \/ /\ Src(k) \notin deaf \cup ended /\ line[Src(k)] # <<>>
          /\ item' = [item EXCEPT ![k] = Head(line[Src(k)])]
          /\ Take(Src(k))
          /\ Step(k, "write")
       \/ /\ Src(k) \in deaf \cup ended \/ Src(k)[1] \in broken
          /\ Step(k, "closeDest")
          /\ UNCHANGED <<line, item>>
    /\ UNCHANGED <<protocol, made, ended, deaf, broken, apps>>

\* io.Copy reads: an item, the end of the stream, or an error because the
\* connection broke or this node has closed its end.
Read(k) ==
    /\ copier[k] = "read"
    /\ \/ /\ Src(k) \notin deaf /\ line[Src(k)] # <<>>
          /\ item' = [item EXCEPT ![k] = Head(line[Src(k)])]
          /\ Take(Src(k))
          /\ Step(k, "write")
       \/ /\ \/ Src(k) \in deaf
             \/ Src(k) \in ended /\ line[Src(k)] = <<>>
             \/ Src(k)[1] \in broken
          /\ Step(k, "closeDest")
          /\ UNCHANGED <<line, item>>
    /\ UNCHANGED <<protocol, made, ended, deaf, broken, apps>>

\* Seeded fault: a write that went through is done again.
WriteAgain(k) ==
    /\ copier[k] = "write"
    /\ item' = [item EXCEPT ![k] = 0]
    /\ \/ /\ Dest(k) \notin ended \cup deaf /\ Dest(k)[1] \notin broken
          /\ Len(line[Dest(k)]) < Room
          /\ line' = [line EXCEPT ![Dest(k)] = @ \o <<item[k], item[k]>>]
          /\ Step(k, "read")
       \/ /\ Dest(k) \in ended \cup deaf \/ Dest(k)[1] \in broken
          /\ Step(k, "closeDest")
          /\ UNCHANGED line
    /\ UNCHANGED <<protocol, made, ended, deaf, broken, apps>>

\* io.Copy writes.  What goes to a peer that does not read any more, or into a
\* connection that broke, may be accepted all the same.
Write(k) ==
    /\ copier[k] = "write"
    /\ item' = [item EXCEPT ![k] = 0]
    /\ \/ /\ Dest(k) \notin ended \cup deaf /\ Dest(k)[1] \notin broken
          /\ Len(line[Dest(k)]) < Room
          /\ Put(Dest(k), item[k])
          /\ Step(k, "read")
       \/ /\ Dest(k) \notin ended /\ (Dest(k) \in deaf \/ Dest(k)[1] \in broken)
          /\ Step(k, "read")
          /\ UNCHANGED line
       \/ /\ Dest(k) \in ended \cup deaf \/ Dest(k)[1] \in broken
          /\ Step(k, "closeDest")
          /\ UNCHANGED line
    /\ UNCHANGED <<protocol, made, ended, deaf, broken, apps>>

\* Seeded fault: only the sending half of the destination is closed.
CloseDestHalf(k) ==
    /\ copier[k] = "closeDest"
    /\ ended' = ended \cup {Dest(k)}
    /\ Step(k, "closeSrc")
    /\ UNCHANGED <<protocol, made, line, deaf, broken, item, apps>>

CloseDest(k) ==
    /\ copier[k] = "closeDest"
    /\ CloseEnd(Dest(k)[1], Other(k[2]))
    /\ Step(k, "closeSrc")
    /\ UNCHANGED <<protocol, made, line, broken, item, apps>>

CloseSrc(k) ==
    /\ copier[k] = "closeSrc"
    /\ CloseEnd(Src(k)[1], k[2])
    /\ Step(k, "done")
    /\ UNCHANGED <<protocol, made, line, broken, item, apps>>

CopyBytes(k) == Read(k) \/ Write(k) \/ CloseDest(k) \/ CloseSrc(k)

\* ProxyConn starts the two copiers of a node.
Started(n) == [k \in Copiers |-> IF k[1] = n THEN "read" ELSE copier[k]]
================================================================================
