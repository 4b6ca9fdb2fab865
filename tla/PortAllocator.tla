----------------------------- MODULE PortAllocator -----------------------------
(***************************************************************************)
(* The range allocator of libp2p/test/port/port_allocator.go.  A filler    *)
(* goroutine marks free ports used under the lock and then, outside the    *)
(* lock, sends them into a bounded channel; AllocateNext receives from the *)
(* channel with a timeout; Release clears the mark under the lock.         *)
(***************************************************************************)
EXTENDS Integers, Sequences

CONSTANTS
    Base, Size,     \* net.PortRange: the ports Base .. Base + Size - 1
    BufSize,            \* portsBufSize
    Clients         \* goroutines that call AllocateNext and Release

ASSUME PortAssumption ==
    /\ Base \in Nat \ {0}
    /\ Size \in Nat \ {0}
    /\ BufSize \in Nat \ {0}

Offsets == 0 .. (Size - 1)
Ports == Base .. (Base + Size - 1)
NoPort == 0     \* the port AllocateNext returns beside its error

VARIABLES
    used,       \* offsets whose bit is set, guarded by the lock
    ports,      \* the channel's buffer
    filler,     \* where the filler goroutine is
    found,      \* the port nextFreePort returned to fillPortsOnce
    waiting,    \* clients inside AllocateNext
    got         \* got[c]: what AllocateNext returned to c and c has not released

portVars == <<used, ports, filler, found, waiting, got>>

PortInit ==
    /\ used = {}
    /\ ports = <<>>
    /\ filler = "search"
    /\ found = NoPort
    /\ waiting = {}
    /\ got = [c \in Clients |-> {}]

\* The scan of nextFreePort that starts at offset j reaches i first among the
\* free offsets: j .. Size-1, then 0 .. j-1.
ScanBefore(j, k, i) ==
    IF i >= j THEN j <= k /\ k < i ELSE j <= k \/ k < i

\* Seeded fault: the second loop scans from 0 without looking at the bits.
FirstFreeNoWrap(U, j, i) ==
    /\ i < j \/ i \notin U
    /\ \A k \in Offsets : ScanBefore(j, k, i) => k \in U

FirstFree(U, j, i) ==
    /\ i \notin U
    /\ \A k \in Offsets : ScanBefore(j, k, i) => k \in U

\* nextFreePort with j the random offset it starts from.
NextFreePort(j) ==
    /\ filler = "search"
    /\ \E i \in Offsets :
        /\ FirstFree(used, j, i)
        /\ used' = used \cup {i}
        /\ found' = Base + i
    /\ filler' = "send"
    /\ UNCHANGED <<ports, waiting, got>>

\* It returns -1: fillPorts returns, wait.Forever sleeps for the cooldown.
NoneFree ==
    /\ filler = "search"
    /\ used = Offsets
    /\ filler' = "cooldown"
    /\ UNCHANGED <<used, ports, found, waiting, got>>

\* Seeded fault: the filler does not come back after it found no free port.
NeverWakes ==
    /\ filler = "none"
    /\ filler' = "search"
    /\ UNCHANGED <<used, ports, found, waiting, got>>

CooldownOver ==
    /\ filler = "cooldown"
    /\ filler' = "search"
    /\ UNCHANGED <<used, ports, found, waiting, got>>

Send ==
    /\ filler = "send"
    /\ Len(ports) < BufSize
    /\ ports' = Append(ports, found)
    /\ found' = NoPort
    /\ filler' = "search"
    /\ UNCHANGED <<used, waiting, got>>

AllocateNext(c) ==
    /\ c \notin waiting
    /\ waiting' = waiting \cup {c}
    /\ UNCHANGED <<used, ports, filler, found, got>>

Receive(c) ==
    /\ c \in waiting
    /\ ports # <<>>
    /\ got' = [got EXCEPT ![c] = @ \cup {Head(ports)}]
    /\ ports' = Tail(ports)
    /\ waiting' = waiting \ {c}
    /\ UNCHANGED <<used, filler, found>>

\* Seeded fault: a receive that gives up has taken a port from the buffer.
TimeoutDrops(c) ==
    /\ c \in waiting
    /\ got' = [got EXCEPT ![c] = @ \cup {NoPort}]
    /\ ports' = IF ports = <<>> THEN <<>> ELSE Tail(ports)
    /\ waiting' = waiting \ {c}
    /\ UNCHANGED <<used, filler, found>>

\* The timer may fire first even when a port is there: select picks at random.
Timeout(c) ==
    /\ c \in waiting
    /\ got' = [got EXCEPT ![c] = @ \cup {NoPort}]
    /\ waiting' = waiting \ {c}
    /\ UNCHANGED <<used, ports, filler, found>>

InRange(x) == x - Base >= 0 /\ x - Base < Size

\* Seeded fault: a port below the range clears the first bit.
ClearBelow(c, x) ==
    /\ c \notin waiting
    /\ x \in got[c]
    /\ got' = [got EXCEPT ![c] = @ \ {x}]
    /\ used' = used \ {IF InRange(x) THEN x - Base ELSE 0}
    /\ UNCHANGED <<ports, filler, found, waiting>>

\* A client gives back what it got, the 0 of a failed AllocateNext included,
\* which the range check ignores.
Release(c, x) ==
    /\ c \notin waiting
    /\ x \in got[c]
    /\ got' = [got EXCEPT ![c] = @ \ {x}]
    /\ used' = IF InRange(x) THEN used \ {x - Base} ELSE used
    /\ UNCHANGED <<ports, filler, found, waiting>>

FillPorts == (\E j \in Offsets : NextFreePort(j)) \/ NoneFree \/ Send \/ CooldownOver

PortNext ==
    \/ FillPorts
    \/ \E c \in Clients :
        \/ AllocateNext(c) \/ Receive(c) \/ Timeout(c)
        \/ \E x \in got[c] : Release(c, x)

PortSpec == PortInit /\ [][PortNext]_portVars

\* The runtime schedules the filler, and the timer of a waiting AllocateNext fires.
PortFairSpec ==
    /\ PortSpec
    /\ WF_portVars(FillPorts)
    /\ \A c \in Clients : WF_portVars(Receive(c) \/ Timeout(c))

-------------------------------------------------------------------------------
(* Properties.                                                             *)

PortTypeOK ==
    /\ used \subseteq Offsets
    /\ ports \in Seq(Ports)
    /\ filler \in {"search", "send", "cooldown"}
    /\ found \in Ports \cup {NoPort}
    /\ waiting \subseteq Clients
    /\ got \in [Clients -> SUBSET (Ports \cup {NoPort})]

Elems(s) == {s[n] : n \in 1 .. Len(s)}
NoRepeat(s) == \A m, n \in 1 .. Len(s) : m # n => s[m] # s[n]

Buffered == Elems(ports)
InFlight == {found} \ {NoPort}
Held == {x \in Ports : \E c \in Clients : x \in got[c]}

\* A port is marked used exactly as long as it is in the filler's hands, in the
\* buffer or with a client: none is lost between the lock and the channel, or
\* by an AllocateNext that times out, and none can be found while it is out.
UsedIsOut == {Base + i : i \in used} = InFlight \cup Buffered \cup Held

\* Each port is in one place only: once in the buffer, with one client.
OnePlace ==
    /\ NoRepeat(ports)
    /\ InFlight \cap Buffered = {}
    /\ (InFlight \cup Buffered) \cap Held = {}
    /\ \A c, d \in Clients : c # d => got[c] \cap got[d] \subseteq {NoPort}

\* The allocator implements the pool its interface promises.
Pool == INSTANCE PortPool WITH held <- [c \in Clients |-> got[c] \ {NoPort}]
PoolSpec == Pool!Spec

\* When ports run out and some are released again, the buffer fills again,
\* though the filler may have found none free just before the release.
BufferRefills == (ports = <<>> /\ used # Offsets) ~> (ports # <<>>)
===============================================================================
