----------------------------- MODULE AddressBook ------------------------------
(* What the address management of the vlhost CNI plugin promises           *)
(* (cnis/vlhostcni/pkg/ipam/ipam.go:179-250 and nextUnusedIP, UnusedIP):   *)
(* a host joins with one network for good, and an ADD is given its address *)
(* in one step, the next of a book that only grows.  That an ADD takes     *)
(* dozens of etcd requests, each of them between those of other hosts, and *)
(* may be killed in the midst of them, is not seen.                        *)
EXTENDS Naturals

CONSTANTS
    Procs,      \* the ADDs
    Hosts,
    HostOf,     \* the host an ADD runs on
    Nets,       \* the networks a host may join with
    NoNet,      \* what a host has before; it has a book all the same
    KeptBack    \* the addresses entered in a book and given to nobody

VARIABLES
    network,    \* network[h]: the network of host h
    book,       \* book[h][n]: the addresses h has entered for network n
    given       \* given[p]: the address of ADD p, 0 before

vars == <<network, book, given>>

Init ==
    /\ network = [h \in Hosts |-> NoNet]
    /\ book = [h \in Hosts |-> [n \in Nets \cup {NoNet} |-> {}]]
    /\ given = [p \in Procs |-> 0]

Join(h) ==
    /\ network[h] = NoNet
    /\ \E n \in Nets : network' = [network EXCEPT ![h] = n]
    /\ UNCHANGED <<book, given>>

\* a is one past all that S holds.
IsNext(a, S) == S # {} => \E m \in S : a = m + 1 /\ \A b \in S : b <= m

Enter(h, n, a) ==
    /\ IsNext(a, book[h][n])
    /\ book' = [book EXCEPT ![h][n] = @ \cup {a}]
    /\ UNCHANGED network

KeepBack(p, n, a) ==
    /\ a \in KeptBack
    /\ Enter(HostOf[p], n, a)
    /\ UNCHANGED given

Give(p, n, a) ==
    /\ a \notin KeptBack
    /\ given[p] = 0
    /\ Enter(HostOf[p], n, a)
    /\ given' = [given EXCEPT ![p] = a]

\* a is the address the step enters.
Next ==
    \/ \E h \in Hosts : Join(h)
    \/ \E p \in Procs : \E n \in {network[HostOf[p]], NoNet} :
           \E a \in book'[HostOf[p]][n] \ book[HostOf[p]][n] :
               KeepBack(p, n, a) \/ Give(p, n, a)

Spec == Init /\ [][Next]_vars
===============================================================================
