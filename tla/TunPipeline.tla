------------------------------ MODULE TunPipeline ------------------------------
(***************************************************************************)
(* One direction of the TUN VPN (tunvpn/main.go, tun/tun.go): on one host  *)
(* TunReceiveLoop and HandleReceiveFromTun carry frames from the device to *)
(* a TCP connection, on the other tcpListenerLoop and TunWriteLoop carry   *)
(* them from there to a raw socket.                                        *)
(*                                                                         *)
(* Frame number f has given[f] cells: 1 and 2 are its header (2 holds the  *)
(* total length), the others its payload.  A cell is never cut; everything *)
(* else may be.  The slice that tcpListenerLoop reads into is made once;   *)
(* what it sends through WritePipe is each time the whole of this slice,   *)
(* not the bytes just read, so the pipe is a number of references to it.   *)
(***************************************************************************)
EXTENDS Naturals, Sequences

CONSTANTS
    Sizes,      \* how many cells a frame may have
    SliceSize,  \* length of the slice and capacity of the parse buffer (65536)
    PipeSize,   \* ReceiveSize and SendSize (5)
    MaxFrames   \* how many frames the device gives

ASSUME TunAssumption ==
    /\ Sizes \subseteq 2 .. SliceSize
    /\ SliceSize \in Nat /\ PipeSize \in Nat \ {0} /\ MaxFrames \in Nat

Zero == [frame |-> 0, part |-> 0]

VARIABLES
    \* the host that sends
    given,      \* sizes of the frames the device has given, in order
    held,       \* frame TunReceiveLoop is about to put into ReceivePipe, or 0
    receivePipe,
    sender,     \* where HandleReceiveFromTun is
    outgoing,   \* frame it is writing, or 0
    \* the connection
    stream,     \* cells under way
    broken,
    \* the host that receives
    listener,   \* where tcpListenerLoop is
    slice,      \* the contents of its slice
    refs,       \* references to the slice in WritePipe
    writer,     \* where TunWriteLoop is
    copied,     \* the cells its copy of the slice will have
    buffer,     \* the bytes it has not parsed
    out,        \* how many frames went to the raw socket, whole and in order
    intact,     \* nothing else did
    dead,       \* the process has panicked
    \* history
    high,       \* most cells ever read at once
    clean       \* see AcceptFails and Read

source == <<given, held, receivePipe, sender, outgoing>>
parse == <<buffer, out, intact, dead>>
sink == <<listener, slice, refs, writer, copied, parse, high, clean>>
vars == <<source, stream, broken, sink>>

Cells(f) == [i \in 1 .. given[f] |-> [frame |-> f, part |-> i]]

Init ==
    /\ given = <<>> /\ held = 0 /\ receivePipe = <<>>
    /\ sender = "dial" /\ outgoing = 0
    /\ stream = <<>> /\ broken = FALSE
    /\ listener = "accept" /\ refs = 0
    /\ slice = [i \in 1 .. SliceSize |-> Zero]
    /\ writer = "idle" /\ copied = <<>> /\ buffer = <<>>
    /\ out = 0 /\ intact = TRUE /\ dead = FALSE /\ high = 0 /\ clean = TRUE

-------------------------------------------------------------------------------
(* TunReceiveLoop.  The device gives one packet at a time, so nothing is   *)
(* left in its buffer after a frame; a packet that is not IPv4 is dropped. *)

DeviceRead ==
    /\ held = 0
    /\ Len(given) < MaxFrames
    /\ \E z \in Sizes : given' = Append(given, z)
    /\ held' = Len(given) + 1
    /\ UNCHANGED <<receivePipe, sender, outgoing, stream, broken, sink>>

\* Seeded fault: a frame is dropped when the pipe is full.
PushOrDrop ==
    /\ held # 0
    /\ receivePipe' = IF Len(receivePipe) < PipeSize THEN Append(receivePipe, held)
                      ELSE receivePipe
    /\ held' = 0
    /\ UNCHANGED <<given, sender, outgoing, stream, broken, sink>>

Push ==
    /\ held # 0
    /\ Len(receivePipe) < PipeSize
    /\ receivePipe' = Append(receivePipe, held)
    /\ held' = 0
    /\ UNCHANGED <<given, sender, outgoing, stream, broken, sink>>

-------------------------------------------------------------------------------
(* HandleReceiveFromTun: tcpSendLoop dials until it succeeds; then frames  *)
(* are written until a write fails.                                        *)

Connect ==
    /\ sender = "dial" /\ ~dead
    /\ sender' = "receive"
    /\ UNCHANGED <<given, held, receivePipe, outgoing, stream, broken, sink>>

Pull ==
    /\ sender = "receive"
    /\ receivePipe # <<>>
    /\ outgoing' = Head(receivePipe)
    /\ receivePipe' = Tail(receivePipe)
    /\ sender' = "write"
    /\ UNCHANGED <<given, held, stream, broken, sink>>

WriteStream ==
    /\ sender = "write"
    /\ ~broken /\ ~dead
    /\ stream' = stream \o Cells(outgoing)
    /\ outgoing' = 0
    /\ sender' = "receive"
    /\ UNCHANGED <<given, held, receivePipe, broken, sink>>

\* With the connection or the peer gone, a write may still be taken by the
\* local socket.
WriteLost ==
    /\ sender = "write"
    /\ broken \/ dead
    /\ outgoing' = 0
    /\ sender' = "receive"
    /\ UNCHANGED <<given, held, receivePipe, stream, broken, sink>>

\* Part of the frame may have got through.
WriteFails ==
    /\ sender = "write"
    /\ broken \/ dead
    /\ \E k \in 0 .. given[outgoing] - 1 :
        stream' = stream \o SubSeq(Cells(outgoing), 1, k)
    /\ outgoing' = 0
    /\ sender' = "ended"
    /\ UNCHANGED <<given, held, receivePipe, broken, sink>>

Break ==
    /\ sender # "dial" /\ ~broken
    /\ broken' = TRUE
    /\ UNCHANGED <<source, stream, sink>>

-------------------------------------------------------------------------------
(* tcpListenerLoop.                                                        *)

Accept ==
    /\ ~dead
    /\ listener = "accept" /\ sender # "dial"
    /\ listener' = "read"
    /\ UNCHANGED <<source, stream, broken, slice, refs, writer, copied, parse, high, clean>>

\* Listening or accepting fails, which is only logged: the first Read is of a
\* connection that is not there, and panics.
AcceptFails ==
    /\ ~dead
    /\ listener = "accept"
    /\ dead' = TRUE /\ clean' = FALSE
    /\ UNCHANGED <<source, stream, broken, listener, slice, refs, writer, copied, buffer, out,
                   intact, high>>

\* Read takes what has arrived, cut anywhere.  A copy of the slice that
\* TunWriteLoop is making just then gets any mixture of old and new cells.
\* So far clean: each read got one whole frame, no shorter than those before,
\* the copy of the one before was finished, and the slice does not end within a
\* header's length after it (with frames of 65533 bytes and more it does).
Read ==
    /\ ~dead
    /\ listener = "read"
    /\ stream # <<>>
    /\ \E n \in 1 .. SliceSize :
        /\ n <= Len(stream)
        /\ stream' = SubSeq(stream, n + 1, Len(stream))
        /\ slice' = [i \in 1 .. SliceSize |-> IF i <= n THEN stream[i] ELSE slice[i]]
        /\ IF writer = "copy"
           THEN \E late \in SUBSET (1 .. n) :
                    copied' = [i \in 1 .. SliceSize |->
                                IF i \in late THEN stream[i] ELSE copied[i]]
           ELSE UNCHANGED copied
        /\ high' = IF n > high THEN n ELSE high
        /\ clean' = (/\ clean
                     /\ SubSeq(stream, 1, n) = Cells(stream[1].frame)
                     /\ n >= high /\ n # SliceSize - 1
                     /\ refs = 0 /\ writer # "copy")
    /\ listener' = "send"
    /\ UNCHANGED <<source, broken, refs, writer, parse>>

ReadFails ==
    /\ ~dead
    /\ listener = "read" /\ broken
    /\ listener' = "ended"
    /\ UNCHANGED <<source, stream, broken, slice, refs, writer, copied, parse, high, clean>>

SendSlice ==
    /\ ~dead
    /\ listener = "send" /\ refs < PipeSize
    /\ refs' = refs + 1
    /\ listener' = "read"
    /\ UNCHANGED <<source, stream, broken, slice, writer, copied, parse, high, clean>>

-------------------------------------------------------------------------------
(* TunWriteLoop with ParseIPFrame.                                         *)

\* The copy begins; it is made cell by cell.
TakeSlice ==
    /\ ~dead
    /\ writer = "idle" /\ refs > 0
    /\ refs' = refs - 1
    /\ copied' = slice
    /\ writer' = "copy"
    /\ UNCHANGED <<source, stream, broken, listener, slice, parse, high, clean>>

\* The buffer has room for one slice: with anything left in it Write panics.
BufferWrite ==
    /\ ~dead
    /\ writer = "copy"
    /\ \/ /\ buffer = <<>>
          /\ buffer' = copied
          /\ writer' = "parse"
          /\ UNCHANGED dead
       \/ /\ buffer # <<>>
          /\ dead' = TRUE
          /\ UNCHANGED <<buffer, writer>>
    /\ copied' = <<>>
    /\ UNCHANGED <<source, stream, broken, listener, slice, refs, out, intact, high,
                   clean>>

\* Bytes that start a header pass for one; a zero never does; others may.
MayBeHeader == Len(buffer) >= 2 /\ buffer[1] # Zero
MayBeOther == Len(buffer) >= 2 /\ buffer[1].part # 1

\* The lengths the next cells may announce: those of a header cut off its end
\* are whatever follows it.
TotalLen ==
    LET h == buffer[1]
    IN  {n \in 0 .. SliceSize + 1 :
            /\ h.part = 1 /\ buffer[2] = [h EXCEPT !.part = 2] => n = given[h.frame]
            /\ h.part = 1 /\ buffer[2] = Zero => n = 0}

Parsing == ~dead /\ writer = "parse"

NeedMore ==
    /\ Parsing
    /\ \/ Len(buffer) < 2
       \/ MayBeHeader /\ \E n \in TotalLen : n > Len(buffer)
    /\ writer' = "idle"
    /\ UNCHANGED <<source, stream, broken, listener, slice, refs, copied, parse, high, clean>>

\* out counts what is given to Sendto, whose error is only logged.
SendFrame ==
    /\ Parsing
    /\ MayBeHeader
    /\ \E n \in TotalLen :
        /\ n >= 2 /\ n <= Len(buffer)
        /\ intact' = (/\ intact /\ out < Len(given)
                      /\ SubSeq(buffer, 1, n) = Cells(out + 1))
        /\ out' = IF intact' THEN out + 1 ELSE out
        /\ buffer' = SubSeq(buffer, n + 1, Len(buffer))
    /\ UNCHANGED <<source, stream, broken, listener, slice, refs, writer, copied, dead,
                   high, clean>>

\* Fields are taken from bytes the frame does not have.
ParsePanics ==
    /\ Parsing
    /\ MayBeHeader
    /\ buffer[1].part # 1 \/ \E n \in TotalLen : n < 2
    /\ dead' = TRUE
    /\ UNCHANGED <<source, stream, broken, listener, slice, refs, writer, copied, buffer,
                   out, intact, high, clean>>

\* Seeded fault: the buffer is not emptied.
ParseFailsKeeps ==
    /\ Parsing
    /\ MayBeOther
    /\ writer' = "idle"
    /\ UNCHANGED <<source, stream, broken, listener, slice, refs, copied, parse, high, clean>>

\* Seeded fault: the loop ends, as that of TunIf.Write does.
ParseFailsReturns ==
    /\ Parsing
    /\ MayBeOther
    /\ writer' = "ended"
    /\ buffer' = <<>>
    /\ UNCHANGED <<source, stream, broken, listener, slice, refs, copied, out, intact, dead,
                   high, clean>>

ParseFails ==
    /\ Parsing
    /\ MayBeOther
    /\ writer' = "idle"
    /\ buffer' = <<>>
    /\ UNCHANGED <<source, stream, broken, listener, slice, refs, copied, out, intact, dead,
                   high, clean>>

-------------------------------------------------------------------------------
HandleReceiveFromTun == Pull \/ WriteStream \/ WriteLost \/ WriteFails
TcpListenerLoop == Accept \/ Read \/ ReadFails \/ SendSlice
TunWriteLoop ==
    TakeSlice \/ BufferWrite \/ NeedMore \/ SendFrame \/ ParsePanics \/ ParseFails

Next ==
    \/ DeviceRead \/ Push
    \/ Connect \/ HandleReceiveFromTun \/ Break
    \/ TcpListenerLoop \/ AcceptFails
    \/ TunWriteLoop

Spec == Init /\ [][Next]_vars

\* The goroutines are scheduled and TCP delivers.  That packets come, or that
\* the peer can ever be reached, is not assumed.
FairSpec ==
    /\ Spec
    /\ WF_vars(Push) /\ WF_vars(HandleReceiveFromTun)
    /\ WF_vars(TcpListenerLoop) /\ WF_vars(TunWriteLoop)

-------------------------------------------------------------------------------
(* Properties.                                                             *)

Cell == [frame : 0 .. MaxFrames, part : 0 .. SliceSize]

TypeOK ==
    /\ given \in Seq(Sizes) /\ Len(given) <= MaxFrames
    /\ held \in 0 .. Len(given) /\ outgoing \in 0 .. Len(given)
    /\ receivePipe \in Seq(1 .. Len(given)) /\ Len(receivePipe) <= PipeSize
    /\ sender \in {"dial", "receive", "write", "ended"}
    /\ stream \in Seq(Cell) /\ broken \in BOOLEAN
    /\ listener \in {"accept", "read", "send", "ended"}
    /\ slice \in [1 .. SliceSize -> Cell]
    /\ refs \in 0 .. PipeSize
    /\ writer \in {"idle", "copy", "parse"}
    /\ copied \in Seq(Cell) /\ buffer \in Seq(Cell) /\ Len(buffer) <= SliceSize
    /\ out \in 0 .. Len(given) /\ intact \in BOOLEAN /\ dead \in BOOLEAN
    /\ high \in 0 .. SliceSize /\ clean \in BOOLEAN

\* The frames between device and connection, and how many have gone before them.
InHand ==
    (IF outgoing = 0 THEN <<>> ELSE <<outgoing>>) \o receivePipe
        \o (IF held = 0 THEN <<>> ELSE <<held>>)
Written == Len(given) - Len(InHand)

\* The cell that comes after c when every frame is sent whole and in order.
Following(c) ==
    IF c.part < given[c.frame] THEN [c EXCEPT !.part = @ + 1]
    ELSE [frame |-> c.frame + 1, part |-> 1]

\* As long as connection and peer are there, what is on its way from the device
\* to the peer is, cell by cell, the end of what the device has given: the two
\* goroutines and the full pipe between them lose, repeat and reorder nothing
\* (tun.go:208-242, main.go:82-90).
SentInOrder ==
    ~broken /\ ~dead =>
        /\ \A i \in 1 .. Len(InHand) : InHand[i] = Written + i
        /\ \A i \in 1 .. Len(stream) - 1 : stream[i + 1] = Following(stream[i])
        /\ stream # <<>> =>
              stream[Len(stream)] = [frame |-> Written, part |-> given[Written]]

\* When every read got one whole frame that covers what the slice held before,
\* and came after the copy of the last one, the frames arrive whole, once and
\* in order, and no cell that was left in slice or buffer does any harm
\* (main.go:214-220, tun.go:249-284).
CleanDelivery == clean => intact /\ ~dead

\* Under the same condition every frame is delivered in the end, as long as the
\* connection, once made, stays (tun.go:249, main.go:86, main.go:212).
EveryFrameOut ==
    \A f \in 1 .. MaxFrames :
        (Len(given) >= f /\ sender # "dial") ~> (out >= f \/ ~clean \/ broken)
===============================================================================
