----------------------------- MODULE TwoWayStream -----------------------------
(* What ProxyConn (libp2p/test/udp/util/net/conn.go:29-55) promises the two *)
(* applications it stands between: in each direction the receiver gets what *)
(* was sent, in order and once, as far as it gets anything; and a direction *)
(* that is shut stays shut.                                                *)
EXTENDS Naturals, Sequences

CONSTANTS Dirs, Item

VARIABLES
    sent, received,   \* sent[d], received[d]: items that went in and came out
    shut              \* directions that can not be sent on any more

Init == sent = [d \in Dirs |-> <<>>] /\ received = [d \in Dirs |-> <<>>] /\ shut = {}

Send(d) ==
    /\ d \notin shut
    /\ \E x \in Item : sent' = [sent EXCEPT ![d] = Append(@, x)]
    /\ UNCHANGED <<received, shut>>

Deliver(d) ==
    /\ \E n \in Len(received[d]) + 1 .. Len(sent[d]) :
          received' = [received EXCEPT ![d] = SubSeq(sent[d], 1, n)]
    /\ UNCHANGED <<sent, shut>>

\* An application ends, or the stream tells it that the other one did or that
\* the connection is gone.
Shut == shut \subseteq shut' /\ UNCHANGED <<sent, received>>

Next == Shut \/ \E d \in Dirs : Send(d) \/ Deliver(d)

Spec == Init /\ [][Next]_<<sent, received, shut>>
===============================================================================
