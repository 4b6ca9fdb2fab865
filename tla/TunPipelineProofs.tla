--------------------------- MODULE TunPipelineProofs ---------------------------
(* Proofs about TunPipeline, for any sizes of frames, slice and pipes and any *)
(* number of frames.                                                       *)
EXTENDS TunPipeline, Integers, TLAPS

LEMMA Splits ==
    ASSUME NEW S, NEW s \in Seq(S), NEW n \in Nat, n <= Len(s)
    PROVE  /\ SubSeq(s, 1, n) \in Seq(S) /\ Len(SubSeq(s, 1, n)) = n
           /\ \A i \in 1 .. n : SubSeq(s, 1, n)[i] = s[i]
           /\ SubSeq(s, n + 1, Len(s)) \in Seq(S)
           /\ Len(SubSeq(s, n + 1, Len(s))) = Len(s) - n
           /\ \A i \in 1 .. Len(s) - n : SubSeq(s, n + 1, Len(s))[i] = s[n + i]
  OBVIOUS

LEMMA Joins ==
    ASSUME NEW S, NEW s \in Seq(S), NEW t \in Seq(S)
    PROVE  /\ s \o t \in Seq(S) /\ Len(s \o t) = Len(s) + Len(t)
           /\ \A i \in 1 .. Len(s) : (s \o t)[i] = s[i]
           /\ \A i \in 1 .. Len(t) : (s \o t)[Len(s) + i] = t[i]
  OBVIOUS

-------------------------------------------------------------------------------
(* Types.                                                                  *)

\* The cells frames have, and those that may be in slice and buffer.
FrameCell == {c \in [frame : 1 .. Len(given), part : 1 .. SliceSize] : c.part <= given[c.frame]}
SliceCell == FrameCell \cup {Zero}

SourceOK ==
    /\ given \in Seq(Sizes) /\ Len(given) <= MaxFrames
    /\ held \in 0 .. Len(given) /\ outgoing \in 0 .. Len(given)
    /\ receivePipe \in Seq(1 .. Len(given)) /\ Len(receivePipe) <= PipeSize
    /\ sender \in {"dial", "receive", "write", "ended"}
    /\ sender = "write" <=> outgoing # 0

StreamOK == stream \in Seq(FrameCell) /\ broken \in BOOLEAN

SinkOK ==
    /\ listener \in {"accept", "read", "send", "ended"}
    /\ slice \in [1 .. SliceSize -> SliceCell] /\ refs \in 0 .. PipeSize
    /\ writer \in {"idle", "copy", "parse"}
    /\ copied \in Seq(SliceCell)
    /\ writer = "copy" /\ ~dead => copied \in [1 .. SliceSize -> SliceCell]
    /\ high \in 0 .. SliceSize /\ clean \in BOOLEAN

ParseOK ==
    /\ buffer \in Seq(SliceCell) /\ Len(buffer) <= SliceSize
    /\ out \in 0 .. Len(given) /\ intact \in BOOLEAN /\ dead \in BOOLEAN

Typed == SourceOK /\ StreamOK /\ SinkOK /\ ParseOK

LEMMA Widen ==
    ASSUME NEW S, NEW T, S \subseteq T, NEW s \in Seq(S)
    PROVE  s \in Seq(T)
<1>1. Len(s) \in Nat /\ s = [i \in 1 .. Len(s) |-> s[i]] /\ \A i \in 1 .. Len(s) : s[i] \in T
  OBVIOUS
<1> QED
  BY <1>1

LEMMA CellsTyped ==
    ASSUME SourceOK, NEW f \in 1 .. Len(given)
    PROVE  /\ given[f] \in 2 .. SliceSize /\ Cells(f) \in Seq(FrameCell) /\ Len(Cells(f)) = given[f]
           /\ DOMAIN Cells(f) = 1 .. given[f]
           /\ \A i \in 1 .. given[f] : Cells(f)[i] = [frame |-> f, part |-> i]
<1>1. given[f] \in Sizes
  BY DEF SourceOK
<1>2. given[f] \in 2 .. SliceSize /\ given[f] \in Nat /\ SliceSize \in Nat
  <2>1. given[f] \in 2 .. SliceSize
    BY <1>1, TunAssumption
  <2> QED
    BY <2>1, TunAssumption
<1>3. \A i \in 1 .. given[f] : [frame |-> f, part |-> i] \in FrameCell
  BY <1>2 DEF FrameCell
<1>4. Cells(f) \in [1 .. given[f] -> FrameCell]
  BY <1>3 DEF Cells
<1>5. Cells(f) \in Seq(FrameCell) /\ Len(Cells(f)) = given[f]
  BY <1>2, <1>4
<1> QED
  BY <1>2, <1>5 DEF Cells

LEMMA DeviceTyped == Typed /\ (DeviceRead \/ Push) => Typed'
<1> SUFFICES ASSUME Typed, DeviceRead \/ Push PROVE Typed'
  OBVIOUS
<1>1. CASE DeviceRead
  <2>1. PICK z \in Sizes : given' = Append(given, z)
    BY <1>1 DEF DeviceRead
  <2>2. given' \in Seq(Sizes) /\ Len(given') = Len(given) + 1 /\ Len(given) \in Nat
    BY <2>1 DEF Typed, SourceOK
  <2>3. receivePipe \in Seq(1 .. Len(given'))
    <3>1. \A i \in 1 .. Len(receivePipe) : receivePipe[i] \in 1 .. Len(given')
      BY <2>2 DEF Typed, SourceOK
    <3>2. receivePipe \in [1 .. Len(receivePipe) -> 1 .. Len(given')] /\ Len(receivePipe) \in Nat
      BY <3>1 DEF Typed, SourceOK
    <3> QED
      BY <3>2
  <2>4. SourceOK'
    BY <1>1, <2>2, <2>3, TunAssumption DEF DeviceRead, Typed, SourceOK
  <2>5. FrameCell \subseteq FrameCell'
    <3>1. \A f \in 1 .. Len(given) : f \in 1 .. Len(given') /\ given'[f] = given[f]
      BY <2>1, <2>2 DEF Typed, SourceOK
    <3> QED
      BY <3>1 DEF FrameCell
  <2>6. SliceCell \subseteq SliceCell'
    BY <2>5 DEF SliceCell
  <2>7. StreamOK'
    BY <1>1, <2>5, Widen DEF DeviceRead, Typed, StreamOK
  <2>8. SinkOK'
    <3>1. copied \in Seq(SliceCell') /\ slice \in [1 .. SliceSize -> SliceCell']
          /\ (writer = "copy" /\ ~dead => copied \in [1 .. SliceSize -> SliceCell'])
      BY <2>6, Widen DEF Typed, SinkOK
    <3> QED
      BY <1>1, <3>1 DEF DeviceRead, Typed, SinkOK, sink, parse
  <2>9. ParseOK'
    BY <1>1, <2>2, <2>6, Widen DEF DeviceRead, Typed, ParseOK, sink, parse
  <2> QED
    BY <2>4, <2>7, <2>8, <2>9 DEF Typed
<1>2. CASE Push
  <2>1. SourceOK'
    <3>1. held \in 1 .. Len(given)
      BY <1>2 DEF Push, Typed, SourceOK
    <3>2. receivePipe' \in Seq(1 .. Len(given)) /\ Len(receivePipe') = Len(receivePipe) + 1
      BY <1>2, <3>1 DEF Push, Typed, SourceOK
    <3>3. Len(receivePipe') <= PipeSize
      BY <1>2, <3>2, TunAssumption DEF Push, Typed, SourceOK
    <3> QED
      BY <1>2, <3>2, <3>3 DEF Push, Typed, SourceOK
  <2> QED
    BY <1>2, <2>1 DEF Push, Typed, StreamOK, SinkOK, ParseOK, sink, parse, SliceCell, FrameCell
<1> QED
  BY <1>1, <1>2

LEMMA SenderTyped == Typed /\ (Connect \/ HandleReceiveFromTun \/ Break) => Typed'
<1> SUFFICES ASSUME Typed, Connect \/ HandleReceiveFromTun \/ Break PROVE Typed'
  OBVIOUS
<1>1. UNCHANGED <<given, sink>>
  BY DEF Connect, HandleReceiveFromTun, Pull, WriteStream, WriteLost, WriteFails, Break, source
<1>2. SourceOK'
  <2>1. CASE Pull
    <3>1. /\ Head(receivePipe) \in 1 .. Len(given) /\ Tail(receivePipe) \in Seq(1 .. Len(given))
          /\ Len(Tail(receivePipe)) = Len(receivePipe) - 1
      BY <2>1 DEF Pull, Typed, SourceOK
    <3>2. Len(Tail(receivePipe)) <= PipeSize
      BY <3>1, TunAssumption DEF Typed, SourceOK
    <3> QED
      BY <1>1, <2>1, <3>1, <3>2 DEF Pull, Typed, SourceOK
  <2>2. CASE ~Pull
    BY <1>1, <2>2 DEF Connect, HandleReceiveFromTun, WriteStream, WriteLost, WriteFails, Break, source,
       Typed, SourceOK
  <2> QED
    BY <2>1, <2>2
<1>3. StreamOK'
  <2>1. sender = "write" => outgoing \in 1 .. Len(given)
    BY DEF Typed, SourceOK
  <2>2. CASE WriteStream
    <3>1. Cells(outgoing) \in Seq(FrameCell)
      BY <2>1, <2>2, CellsTyped DEF WriteStream, Typed
    <3> QED
      BY <1>1, <2>2, <3>1 DEF WriteStream, Typed, StreamOK, FrameCell
  <2>3. CASE WriteFails
    <3>1. /\ Cells(outgoing) \in Seq(FrameCell) /\ Len(Cells(outgoing)) = given[outgoing]
          /\ given[outgoing] \in Nat
      BY <2>1, <2>3, CellsTyped, TunAssumption DEF WriteFails, Typed
    <3>2. \A k \in 0 .. given[outgoing] - 1 : SubSeq(Cells(outgoing), 1, k) \in Seq(FrameCell)
      BY <3>1, Splits
    <3> QED
      BY <1>1, <2>3, <3>2 DEF WriteFails, Typed, StreamOK, FrameCell
  <2>4. CASE ~WriteStream /\ ~WriteFails
    BY <1>1, <2>4 DEF Connect, HandleReceiveFromTun, Pull, WriteLost, Break, Typed, StreamOK, FrameCell
  <2> QED
    BY <2>2, <2>3, <2>4
<1> QED
  BY <1>1, <1>2, <1>3 DEF Typed, SinkOK, ParseOK, sink, parse, SliceCell, FrameCell

LEMMA ListenerTyped == Typed /\ TcpListenerLoop => Typed'
<1> SUFFICES ASSUME Typed, TcpListenerLoop PROVE Typed'
  OBVIOUS
<1>1. UNCHANGED <<source, parse>>
  BY DEF TcpListenerLoop, Accept, Read, ReadFails, SendSlice
<1>2. SourceOK' /\ ParseOK' /\ FrameCell' = FrameCell /\ SliceCell' = SliceCell
  BY <1>1 DEF Typed, SourceOK, ParseOK, source, parse, FrameCell, SliceCell
<1>4. CASE Accept \/ ReadFails
  <2>1. StreamOK' /\ SinkOK'
    BY <1>2, <1>4 DEF Accept, ReadFails, Typed, StreamOK, SinkOK
  <2> QED
    BY <1>2, <2>1 DEF Typed
<1>5. CASE SendSlice
  <2>1. refs' \in 0 .. PipeSize
    BY <1>5, TunAssumption DEF SendSlice, Typed, SinkOK
  <2>2. StreamOK' /\ SinkOK'
    BY <1>2, <1>5, <2>1 DEF SendSlice, Typed, StreamOK, SinkOK
  <2> QED
    BY <1>2, <2>2 DEF Typed
<1>3. CASE Read
  <2>1. PICK n \in 1 .. SliceSize :
          /\ n <= Len(stream)
          /\ stream' = SubSeq(stream, n + 1, Len(stream))
          /\ slice' = [i \in 1 .. SliceSize |-> IF i <= n THEN stream[i] ELSE slice[i]]
          /\ IF writer = "copy"
             THEN \E late \in SUBSET (1 .. n) :
                      copied' = [i \in 1 .. SliceSize |->
                                  IF i \in late THEN stream[i] ELSE copied[i]]
             ELSE UNCHANGED copied
          /\ high' = IF n > high THEN n ELSE high
          /\ clean' \in BOOLEAN
    BY <1>3 DEF Read
  <2>2. n \in Nat /\ SliceSize \in Nat /\ stream \in Seq(FrameCell) /\ Len(stream) \in Nat
    BY TunAssumption DEF Typed, StreamOK
  <2>3. stream' \in Seq(FrameCell)
    BY <2>1, <2>2, Splits
  <2>4. \A i \in 1 .. n : stream[i] \in SliceCell
    BY <2>1, <2>2 DEF SliceCell
  <2>5. slice' \in [1 .. SliceSize -> SliceCell]
    BY <2>1, <2>2, <2>4 DEF Typed, SinkOK
  <2>6. copied' \in Seq(SliceCell) /\ (writer = "copy" => copied' \in [1 .. SliceSize -> SliceCell])
    <3>1. CASE writer = "copy"
      <4>1. PICK late \in SUBSET (1 .. n) :
                copied' = [i \in 1 .. SliceSize |-> IF i \in late THEN stream[i] ELSE copied[i]]
        BY <2>1, <3>1
      <4>2. copied' \in [1 .. SliceSize -> SliceCell]
        BY <1>3, <2>4, <3>1, <4>1 DEF Read, Typed, SinkOK
      <4> QED
        BY <2>2, <4>2
    <3>2. CASE writer # "copy"
      BY <2>1, <3>2 DEF Typed, SinkOK
    <3> QED
      BY <3>1, <3>2
  <2>7. high' \in 0 .. SliceSize
    BY <2>1, <2>2 DEF Typed, SinkOK
  <2>8. UNCHANGED <<refs, writer, broken>> /\ listener' = "send"
    BY <1>3 DEF Read
  <2> QED
    BY <1>2, <2>1, <2>3, <2>5, <2>6, <2>7, <2>8 DEF Typed, StreamOK, SinkOK
<1> QED
  BY <1>3, <1>4, <1>5 DEF TcpListenerLoop

LEMMA WriterTyped == Typed /\ TunWriteLoop => Typed'
<1> SUFFICES ASSUME Typed, TunWriteLoop PROVE Typed'
  OBVIOUS
<1>1. UNCHANGED <<source, stream, broken, listener, slice, high, clean>>
  BY DEF TunWriteLoop, TakeSlice, BufferWrite, NeedMore, SendFrame, ParsePanics, ParseFails
<1>2. SourceOK' /\ StreamOK' /\ given' = given /\ FrameCell' = FrameCell /\ SliceCell' = SliceCell
  BY <1>1 DEF Typed, SourceOK, StreamOK, source, FrameCell, SliceCell
<1>3. <<>> \in Seq(SliceCell) /\ Len(<<>>) = 0 /\ SliceSize \in Nat
  BY TunAssumption
<1>4. \A s \in [1 .. SliceSize -> SliceCell] : s \in Seq(SliceCell) /\ Len(s) = SliceSize
  BY <1>3
<1>5. CASE TakeSlice
  <2>1. slice \in Seq(SliceCell) /\ slice \in [1 .. SliceSize -> SliceCell]
    BY <1>4 DEF Typed, SinkOK
  <2>2. refs' \in 0 .. PipeSize
    BY <1>5, TunAssumption DEF TakeSlice, Typed, SinkOK
  <2>3. SinkOK'
    BY <1>2, <1>5, <2>1, <2>2 DEF TakeSlice, Typed, SinkOK
  <2>4. ParseOK'
    BY <1>2, <1>5 DEF TakeSlice, Typed, ParseOK, parse
  <2> QED
    BY <1>2, <2>3, <2>4 DEF Typed
<1>6. CASE BufferWrite
  <2>1. copied \in Seq(SliceCell) /\ Len(copied) = SliceSize
    BY <1>4, <1>6 DEF BufferWrite, Typed, SinkOK
  <2>2. SinkOK'
    BY <1>2, <1>3, <1>6 DEF BufferWrite, Typed, SinkOK, ParseOK
  <2>3. buffer' \in Seq(SliceCell) /\ Len(buffer') <= SliceSize
    BY <1>3, <1>6, <2>1 DEF BufferWrite, Typed, ParseOK
  <2>4. ParseOK'
    BY <1>2, <1>6, <2>3 DEF BufferWrite, Typed, ParseOK
  <2> QED
    BY <1>2, <2>2, <2>4 DEF Typed
<1>7. CASE SendFrame
  <2>1. PICK n \in TotalLen : 
          /\ n >= 2 /\ n <= Len(buffer)
          /\ intact' \in BOOLEAN /\ (intact' => out < Len(given))
          /\ out' = IF intact' THEN out + 1 ELSE out
          /\ buffer' = SubSeq(buffer, n + 1, Len(buffer))
    BY <1>7 DEF SendFrame
  <2>2. n \in Nat
    BY <1>7, TunAssumption DEF SendFrame, TotalLen
  <2>3. buffer' \in Seq(SliceCell) /\ Len(buffer') = Len(buffer) - n
    BY <2>1, <2>2, Splits DEF Typed, ParseOK
  <2>4. Len(buffer') <= SliceSize
    BY <1>3, <2>2, <2>3 DEF Typed, ParseOK
  <2>5. intact' \in BOOLEAN /\ out' \in 0 .. Len(given)
    <3>1. Len(given) \in Nat /\ out \in 0 .. Len(given)
      BY DEF Typed, SourceOK, ParseOK
    <3>2. intact' \in BOOLEAN
      BY <2>1
    <3>3. intact' => out + 1 \in 0 .. Len(given)
      BY <2>1, <3>1
    <3> QED
      BY <2>1, <3>1, <3>2, <3>3
  <2>6. UNCHANGED <<refs, writer, copied, dead>>
    BY <1>7 DEF SendFrame
  <2>7. SinkOK' /\ ParseOK'
    BY <1>1, <1>2, <2>3, <2>4, <2>5, <2>6 DEF Typed, SinkOK, ParseOK
  <2> QED
    BY <1>2, <2>7 DEF Typed
<1>8. CASE NeedMore \/ ParsePanics \/ ParseFails
  <2>1. SinkOK'
    BY <1>2, <1>8 DEF NeedMore, ParsePanics, ParseFails, Typed, SinkOK
  <2>2. UNCHANGED <<out, intact>> /\ (UNCHANGED dead \/ dead' = TRUE)
        /\ (UNCHANGED buffer \/ buffer' = <<>>)
    BY <1>8 DEF NeedMore, ParsePanics, ParseFails, parse
  <2>3. buffer' \in Seq(SliceCell) /\ Len(buffer') <= SliceSize
    <3>1. CASE UNCHANGED buffer
      BY <3>1 DEF Typed, ParseOK
    <3>2. CASE buffer' = <<>>
      BY <1>3, <3>2
    <3> QED
      BY <2>2, <3>1, <3>2
  <2>4. ParseOK'
    BY <1>2, <2>2, <2>3 DEF Typed, ParseOK
  <2> QED
    BY <1>2, <2>1, <2>4 DEF Typed
<1> QED
  BY <1>5, <1>6, <1>7, <1>8 DEF TunWriteLoop

LEMMA InitTyped == Init => Typed
<1> SUFFICES ASSUME Init PROVE Typed
  OBVIOUS
<1>1. \A T : <<>> \in Seq(T) /\ Len(<<>>) = 0
  OBVIOUS
<1>2. SliceSize \in Nat /\ PipeSize \in Nat /\ MaxFrames \in Nat
  BY TunAssumption
<1>3. slice \in [1 .. SliceSize -> SliceCell]
  BY DEF Init, SliceCell
<1>4. SourceOK
  BY <1>1, <1>2 DEF Init, SourceOK
<1>5. StreamOK /\ ParseOK
  <2>1. Len(buffer) <= SliceSize /\ buffer \in Seq(SliceCell) /\ out \in 0 .. Len(given)
    BY <1>1, <1>2 DEF Init
  <2> QED
    BY <1>1, <2>1 DEF Init, StreamOK, ParseOK
<1>6. SinkOK
  BY <1>1, <1>2, <1>3 DEF Init, SinkOK
<1> QED
  BY <1>4, <1>5, <1>6 DEF Typed

LEMMA NextTyped == Typed /\ [Next]_vars => Typed'
<1>1. Typed /\ UNCHANGED vars => Typed'
  BY DEF vars, source, sink, parse, Typed, SourceOK, StreamOK, SinkOK, ParseOK, SliceCell, FrameCell
<1>2. Typed /\ AcceptFails => Typed'
  BY DEF AcceptFails, source, Typed, SourceOK, StreamOK, SinkOK, ParseOK, SliceCell, FrameCell
<1> QED
  BY <1>1, <1>2, DeviceTyped, SenderTyped, ListenerTyped, WriterTyped DEF Next

LEMMA SpecTyped == Spec => []Typed
  BY InitTyped, NextTyped, PTL DEF Spec

LEMMA TypedTypeOK == Typed => TypeOK
<1> SUFFICES ASSUME Typed PROVE TypeOK
  OBVIOUS
<1>1. SliceSize \in Nat /\ Len(given) \in Nat /\ Len(given) <= MaxFrames /\ MaxFrames \in Nat
  BY TunAssumption DEF Typed, SourceOK
<1>2. FrameCell \subseteq Cell /\ SliceCell \subseteq Cell
  BY <1>1 DEF FrameCell, SliceCell, Zero, Cell
<1>3. stream \in Seq(Cell) /\ copied \in Seq(Cell) /\ buffer \in Seq(Cell)
  BY <1>2, Widen DEF Typed, StreamOK, SinkOK, ParseOK
<1>4. slice \in [1 .. SliceSize -> Cell]
  BY <1>2 DEF Typed, SinkOK
<1> QED
  BY <1>3, <1>4 DEF Typed, SourceOK, StreamOK, SinkOK, ParseOK, TypeOK

\* Every variable keeps to its type, whatever the sizes (main.go, tun.go).
THEOREM TunTyped == Spec => []TypeOK
  BY SpecTyped, TypedTypeOK, PTL

-------------------------------------------------------------------------------
(* Nothing is lost, repeated or reordered on the way to the connection.    *)

Outgoing == IF outgoing = 0 THEN 0 ELSE 1
Held == IF held = 0 THEN 0 ELSE 1

\* What InHand consists of.
InHandIs ==
    /\ Len(InHand) = Outgoing + Len(receivePipe) + Held
    /\ outgoing # 0 => InHand[1] = outgoing
    /\ \A i \in 1 .. Len(receivePipe) : InHand[Outgoing + i] = receivePipe[i]
    /\ held # 0 => InHand[Outgoing + Len(receivePipe) + 1] = held

LEMMA InHandParts == SourceOK => InHandIs
<1> SUFFICES ASSUME SourceOK PROVE InHandIs
  OBVIOUS
<1> DEFINE a == IF outgoing = 0 THEN <<>> ELSE <<outgoing>>
           b == a \o receivePipe
           c == IF held = 0 THEN <<>> ELSE <<held>>
<1>1. a \in Seq(Nat) /\ Len(a) = Outgoing /\ (outgoing # 0 => a[1] = outgoing)
  BY DEF Outgoing, SourceOK
<1>2. c \in Seq(Nat) /\ Len(c) = Held /\ (held # 0 => c[1] = held)
  BY DEF Held, SourceOK
<1>3. receivePipe \in Seq(Nat)
  <2>1. 1 .. Len(given) \subseteq Nat
    OBVIOUS
  <2> QED
    BY <2>1, Widen DEF SourceOK
<1>4. Outgoing \in {0, 1} /\ Held \in {0, 1}
  BY DEF Outgoing, Held
<1>5. (outgoing # 0 => Outgoing = 1) /\ (held # 0 => Held = 1)
  BY DEF Outgoing, Held
<1>6. InHand = b \o c
  BY DEF InHand
<1> HIDE DEF a, c
<1>7. /\ b \in Seq(Nat) /\ Len(b) = Outgoing + Len(receivePipe)
      /\ \A i \in 1 .. Len(a) : b[i] = a[i]
      /\ \A i \in 1 .. Len(receivePipe) : b[Outgoing + i] = receivePipe[i]
  <2>1. /\ a \o receivePipe \in Seq(Nat) /\ Len(a \o receivePipe) = Len(a) + Len(receivePipe)
        /\ \A i \in 1 .. Len(a) : (a \o receivePipe)[i] = a[i]
        /\ \A i \in 1 .. Len(receivePipe) : (a \o receivePipe)[Len(a) + i] = receivePipe[i]
    <3>1. a \in Seq(Nat) /\ receivePipe \in Seq(Nat)
      BY <1>1, <1>3
    <3> QED
      BY <3>1
  <2> QED
    BY <1>1, <2>1
<1> HIDE DEF b
<1>8. /\ Len(InHand) = Len(b) + Held
      /\ \A i \in 1 .. Len(b) : InHand[i] = b[i]
      /\ \A i \in 1 .. Held : InHand[Len(b) + i] = c[i]
  <2>1. /\ Len(b \o c) = Len(b) + Len(c)
        /\ \A i \in 1 .. Len(b) : (b \o c)[i] = b[i]
        /\ \A i \in 1 .. Len(c) : (b \o c)[Len(b) + i] = c[i]
    <3>1. b \in Seq(Nat) /\ c \in Seq(Nat)
      BY <1>2, <1>7
    <3> QED
      BY <3>1
  <2> QED
    BY <1>2, <1>6, <2>1
<1>9. Len(receivePipe) \in Nat
  BY <1>3
<1>10. outgoing # 0 => InHand[1] = outgoing
  BY <1>1, <1>5, <1>7, <1>8, <1>9
<1>11. \A i \in 1 .. Len(receivePipe) : InHand[Outgoing + i] = receivePipe[i]
  <2>1. \A i \in 1 .. Len(receivePipe) : Outgoing + i \in 1 .. Len(b)
    BY <1>4, <1>7, <1>9
  <2> QED
    BY <1>7, <1>8, <2>1
<1>12. held # 0 => InHand[Outgoing + Len(receivePipe) + 1] = held
  BY <1>2, <1>5, <1>7, <1>8
<1> QED
  BY <1>7, <1>8, <1>10, <1>11, <1>12 DEF InHandIs

\* SentInOrder, with what is in hand taken apart and without its condition.
PipeInOrder ==
    /\ Written = Len(given) - Outgoing - Len(receivePipe) - Held /\ Written \in Nat
    /\ outgoing # 0 => outgoing = Written + 1
    /\ \A i \in 1 .. Len(receivePipe) : receivePipe[i] = Written + Outgoing + i
    /\ held # 0 => held = Len(given)

Chained(s) == \A i \in 1 .. Len(s) - 1 : s[i + 1] = Following(s[i])

StreamInOrder ==
    /\ Chained(stream)
    /\ stream # <<>> => stream[Len(stream)] = [frame |-> Written, part |-> given[Written]]

LEMMA SplitOrder == Typed => (SentInOrder <=> (~broken /\ ~dead => PipeInOrder /\ StreamInOrder))
<1> SUFFICES ASSUME Typed
             PROVE  (\A i \in 1 .. Len(InHand) : InHand[i] = Written + i) <=> PipeInOrder
  BY DEF SentInOrder, StreamInOrder, Chained
<1>1. InHandIs
  BY InHandParts DEF Typed
<1>2. /\ Len(receivePipe) \in Nat /\ Len(given) \in Nat
      /\ \A i \in 1 .. Len(receivePipe) : receivePipe[i] \in 1 .. Len(given)
      /\ held \in Nat /\ outgoing \in Nat
  BY DEF Typed, SourceOK
<1>3. /\ Outgoing \in {0, 1} /\ Held \in {0, 1}
      /\ (outgoing # 0 <=> Outgoing = 1) /\ (held # 0 <=> Held = 1)
  BY DEF Outgoing, Held
<1>4. /\ Written = Len(given) - Outgoing - Len(receivePipe) - Held /\ Written \in Int
      /\ Len(InHand) = Outgoing + Len(receivePipe) + Held
  BY <1>1, <1>2, <1>3 DEF Written, InHandIs
<1> HIDE DEF InHand, Written, Outgoing, Held
<1>5. ASSUME \A i \in 1 .. Len(InHand) : InHand[i] = Written + i
      PROVE  PipeInOrder
  <2>1. outgoing # 0 => outgoing = Written + 1
    <3> SUFFICES ASSUME outgoing # 0 PROVE outgoing = Written + 1
      OBVIOUS
    <3>1. InHand[1] = outgoing
      BY <1>1 DEF InHandIs
    <3>2. 1 \in 1 .. Len(InHand)
      BY <1>2, <1>3, <1>4
    <3> QED
      BY <1>5, <3>1, <3>2
  <2>2. \A i \in 1 .. Len(receivePipe) : receivePipe[i] = Written + Outgoing + i
    <3> SUFFICES ASSUME NEW i \in 1 .. Len(receivePipe)
                 PROVE  receivePipe[i] = Written + Outgoing + i
      OBVIOUS
    <3>1. InHand[Outgoing + i] = receivePipe[i]
      BY <1>1 DEF InHandIs
    <3>2. Outgoing + i \in 1 .. Len(InHand)
      BY <1>2, <1>3, <1>4
    <3> QED
      BY <1>2, <1>3, <1>4, <1>5, <3>1, <3>2
  <2>3. held # 0 => held = Len(given)
    BY <1>1, <1>2, <1>3, <1>4, <1>5 DEF InHandIs
  <2>4. Written \in Nat
    <3>1. CASE outgoing # 0
      BY <1>2, <1>4, <2>1, <3>1
    <3>2. CASE outgoing = 0 /\ Len(receivePipe) # 0
      <4>1. receivePipe[1] \in 1 .. Len(given) /\ receivePipe[1] = Written + Outgoing + 1 /\ Outgoing = 0
        BY <1>2, <1>3, <2>2, <3>2
      <4> QED
        BY <1>2, <1>4, <4>1
    <3>3. CASE outgoing = 0 /\ Len(receivePipe) = 0 /\ held # 0
      BY <1>2, <1>3, <1>4, <2>3, <3>3
    <3>4. CASE outgoing = 0 /\ Len(receivePipe) = 0 /\ held = 0
      BY <1>2, <1>3, <1>4, <3>4
    <3> QED
      BY <3>1, <3>2, <3>3, <3>4
  <2> QED
    BY <1>4, <2>1, <2>2, <2>3, <2>4 DEF PipeInOrder
<1>6. ASSUME PipeInOrder, NEW i \in 1 .. Len(InHand)
      PROVE  InHand[i] = Written + i
  <2>1. CASE i <= Outgoing
    BY <1>1, <1>2, <1>3, <1>4, <1>6, <2>1 DEF PipeInOrder, InHandIs
  <2>2. CASE i > Outgoing /\ i <= Outgoing + Len(receivePipe)
    <3>1. i - Outgoing \in 1 .. Len(receivePipe) /\ i = Outgoing + (i - Outgoing)
      BY <1>2, <1>3, <2>2
    <3>2. InHand[Outgoing + (i - Outgoing)] = receivePipe[i - Outgoing]
      BY <1>1, <3>1 DEF InHandIs
    <3>3. receivePipe[i - Outgoing] = Written + Outgoing + (i - Outgoing)
      BY <1>6, <3>1 DEF PipeInOrder
    <3> QED
      BY <1>2, <1>3, <1>4, <3>1, <3>2, <3>3
  <2>3. CASE i > Outgoing + Len(receivePipe)
    <3>1. Held = 1 /\ i = Outgoing + Len(receivePipe) + 1
      BY <1>2, <1>3, <1>4, <2>3
    <3> QED
      BY <1>1, <1>2, <1>3, <1>4, <1>6, <3>1 DEF PipeInOrder, InHandIs
  <2> QED
    BY <1>2, <1>3, <1>4, <2>1, <2>2, <2>3
<1> QED
  BY <1>5, <1>6

WrittenIs == Written = Len(given) - Outgoing - Len(receivePipe) - Held /\ Written \in Int

LEMMA WrittenNow == SourceOK => WrittenIs
<1> SUFFICES ASSUME SourceOK PROVE WrittenIs
  OBVIOUS
<1>1. Len(receivePipe) \in Nat /\ Len(given) \in Nat
  BY DEF SourceOK
<1>2. Outgoing \in {0, 1} /\ Held \in {0, 1}
  BY DEF Outgoing, Held
<1>3. Len(InHand) = Outgoing + Len(receivePipe) + Held
  BY InHandParts DEF InHandIs
<1> HIDE DEF InHand, Outgoing, Held
<1> QED
  BY <1>1, <1>2, <1>3 DEF Written, WrittenIs

LEMMA WrittenNext == SourceOK' => WrittenIs'
  BY WrittenNow, PTL

\* A stream that ends with a whole frame goes on with the next one.
LEMMA ChainGrows ==
    ASSUME Typed, NEW f \in 1 .. Len(given), Chained(stream), NEW w \in Nat, f = w + 1,
           stream # <<>> => stream[Len(stream)] = [frame |-> w, part |-> given[w]]
    PROVE  /\ Chained(stream \o Cells(f))
           /\ LET s == stream \o Cells(f) IN s[Len(s)] = [frame |-> f, part |-> given[f]]
<1> DEFINE c == Cells(f)
           s == stream \o c
<1>1. /\ given[f] \in 2 .. SliceSize /\ c \in Seq(FrameCell) /\ Len(c) = given[f]
      /\ \A i \in 1 .. given[f] : c[i] = [frame |-> f, part |-> i]
  BY CellsTyped DEF Typed
<1>2. stream \in Seq(FrameCell) /\ Len(stream) \in Nat
  BY DEF Typed, StreamOK
<1> HIDE DEF c
<1>3. /\ s \in Seq(FrameCell) /\ Len(s) = Len(stream) + Len(c)
      /\ \A i \in 1 .. Len(stream) : s[i] = stream[i]
      /\ \A i \in 1 .. Len(c) : s[Len(stream) + i] = c[i]
  <2>1. c \in Seq(FrameCell)
    BY <1>1
  <2> QED
    BY <1>2, <2>1
<1> HIDE DEF s
<1>4. given[f] \in Nat /\ given[f] >= 2
  BY <1>1, TunAssumption
<1>5. ASSUME NEW i \in 1 .. Len(s) - 1 PROVE s[i + 1] = Following(s[i])
  <2>1. CASE i < Len(stream)
    <3>1. i \in 1 .. Len(stream) - 1 /\ i + 1 \in 1 .. Len(stream) /\ i \in 1 .. Len(stream)
      BY <1>2, <2>1
    <3> QED
      BY <1>3, <3>1 DEF Chained
  <2>2. CASE i = Len(stream)
    <3>1. s[i] = [frame |-> w, part |-> given[w]]
      BY <1>2, <1>3, <2>2
    <3>2. s[i + 1] = [frame |-> f, part |-> 1]
      <4>1. 1 \in 1 .. Len(c) /\ 1 \in 1 .. given[f]
        BY <1>1, <1>4
      <4> QED
        BY <1>1, <1>3, <2>2, <4>1
    <3>3. s[i].frame = w /\ s[i].part = given[w]
      BY <3>1
    <3>4. w \in 1 .. Len(given)
      <4>1. s[i] \in FrameCell
        BY <1>2, <1>3, <2>2
      <4> QED
        BY <3>3, <4>1 DEF FrameCell
    <3>5. given[w] \in Nat
      BY <3>4, CellsTyped, TunAssumption DEF Typed
    <3> QED
      BY <3>2, <3>3, <3>5 DEF Following
  <2>3. CASE i > Len(stream)
    <3> DEFINE j == i - Len(stream)
    <3>1. j \in 1 .. given[f] - 1 /\ i = Len(stream) + j /\ i + 1 = Len(stream) + (j + 1)
      <4>1. Len(stream) \in Nat /\ given[f] \in Nat /\ i \in Nat /\ i < Len(stream) + given[f]
        BY <1>1, <1>2, <1>3, <1>4
      <4> QED
        BY <2>3, <4>1
    <3> HIDE DEF j
    <3>2. j \in 1 .. Len(c) /\ j + 1 \in 1 .. Len(c) /\ j < given[f]
      <4>1. Len(c) = given[f]
        BY <1>1
      <4> QED
        BY <1>4, <3>1, <4>1
    <3>3. s[i] = [frame |-> f, part |-> j] /\ s[i + 1] = [frame |-> f, part |-> j + 1]
      BY <1>1, <1>3, <3>1, <3>2
    <3> QED
      BY <3>2, <3>3 DEF Following
  <2> QED
    BY <1>2, <1>3, <2>1, <2>2, <2>3
<1>6. s[Len(s)] = [frame |-> f, part |-> given[f]]
  BY <1>1, <1>2, <1>3, <1>4
<1> QED
  BY <1>5, <1>6 DEF Chained, s, c

LEMMA DeviceInOrder ==
    ASSUME Typed, Typed', PipeInOrder, StreamInOrder, DeviceRead \/ Push
    PROVE  PipeInOrder' /\ StreamInOrder' /\ Written' = Written
<1>1. /\ Len(receivePipe) \in Nat /\ Len(given) \in Nat /\ Written \in Nat
      /\ Outgoing \in {0, 1}
  BY DEF PipeInOrder, Typed, SourceOK, Outgoing
<1>2. Written' = Len(given') - Outgoing' - Len(receivePipe') - Held' /\ Outgoing' = Outgoing
  BY WrittenNext DEF WrittenIs, Typed, DeviceRead, Push, Outgoing
<1>3. CASE DeviceRead
  <2>1. PICK z \in Sizes : given' = Append(given, z)
    BY <1>3 DEF DeviceRead
  <2>2. Len(given') = Len(given) + 1 /\ \A f \in 1 .. Len(given) : given'[f] = given[f]
    BY <2>1 DEF Typed, SourceOK
  <2>3. UNCHANGED <<receivePipe, outgoing, stream>> /\ held' = Len(given) + 1 /\ Held = 0 /\ Held' = 1
    BY <1>1, <1>3 DEF DeviceRead, Held
  <2>4. Written' = Written
    BY <1>1, <1>2, <2>2, <2>3 DEF PipeInOrder
  <2>5. PipeInOrder'
    BY <1>1, <1>2, <2>2, <2>3, <2>4 DEF PipeInOrder
  <2>6. \A i \in 1 .. Len(stream) : stream[i].frame \in 1 .. Len(given)
    BY DEF Typed, StreamOK, FrameCell
  <2>7. \A i \in 1 .. Len(stream) : Following(stream[i])' = Following(stream[i])
    BY <2>2, <2>3, <2>6 DEF Following
  <2>8. Chained(stream)'
    <3>1. \A i \in 1 .. Len(stream) - 1 : i \in 1 .. Len(stream)
      BY DEF Typed, StreamOK
    <3> QED
      BY <2>3, <2>7, <3>1 DEF Chained, StreamInOrder
  <2>9. stream # <<>> => given'[Written] = given[Written]
    <3>1. stream # <<>> => Len(stream) \in 1 .. Len(stream)
      BY DEF Typed, StreamOK
    <3>2. stream # <<>> => Written \in 1 .. Len(given)
      BY <2>6, <3>1 DEF StreamInOrder
    <3> QED
      BY <2>2, <3>2
  <2> QED
    BY <2>3, <2>4, <2>5, <2>8, <2>9 DEF StreamInOrder
<1>4. CASE Push
  <2>1. UNCHANGED <<given, outgoing, stream>> /\ held # 0 /\ held' = 0 /\ Held = 1 /\ Held' = 0
    BY <1>4 DEF Push, Held
  <2>2. /\ Len(receivePipe') = Len(receivePipe) + 1
        /\ \A i \in 1 .. Len(receivePipe) : receivePipe'[i] = receivePipe[i]
        /\ receivePipe'[Len(receivePipe) + 1] = held
    BY <1>4 DEF Push, Typed, SourceOK
  <2>3. Written' = Written
    BY <1>1, <1>2, <2>1, <2>2 DEF PipeInOrder
  <2>4. \A i \in 1 .. Len(receivePipe') : receivePipe'[i] = Written + Outgoing + i
    <3> SUFFICES ASSUME NEW i \in 1 .. Len(receivePipe) + 1
                 PROVE  receivePipe'[i] = Written + Outgoing + i
      BY <2>2
    <3>1. CASE i = Len(receivePipe) + 1
      BY <1>1, <2>1, <2>2, <3>1 DEF PipeInOrder
    <3>2. CASE i # Len(receivePipe) + 1
      BY <1>1, <2>2, <3>2 DEF PipeInOrder
    <3> QED
      BY <3>1, <3>2
  <2>5. PipeInOrder'
    BY <1>1, <1>2, <2>1, <2>3, <2>4 DEF PipeInOrder
  <2>6. StreamInOrder'
    BY <2>1, <2>3 DEF StreamInOrder, Chained, Following
  <2> QED
    BY <2>3, <2>5, <2>6
<1> QED
  BY <1>3, <1>4

LEMMA SenderInOrder ==
    ASSUME Typed, Typed', PipeInOrder, StreamInOrder, Pull \/ WriteStream
    PROVE  PipeInOrder' /\ StreamInOrder' /\ (Pull => Written' = Written)
<1>1. /\ Len(receivePipe) \in Nat /\ Len(given) \in Nat /\ Written \in Nat
      /\ Outgoing \in {0, 1} /\ Held \in {0, 1}
  BY DEF PipeInOrder, Typed, SourceOK, Outgoing, Held
<1>2. /\ Written' = Len(given') - Outgoing' - Len(receivePipe') - Held'
      /\ Held' = Held /\ given' = given /\ held' = held
  BY WrittenNext DEF WrittenIs, Typed, Pull, WriteStream, Held
<1>3. CASE Pull
  <2>1. /\ Len(receivePipe) > 0 /\ Len(receivePipe') = Len(receivePipe) - 1
        /\ \A i \in 1 .. Len(receivePipe') : receivePipe'[i] = receivePipe[i + 1]
        /\ outgoing' = receivePipe[1]
    BY <1>3 DEF Pull, Typed, SourceOK
  <2>2. Outgoing = 0 /\ Outgoing' = 1 /\ stream' = stream
    BY <1>3, <2>1 DEF Pull, Typed, SourceOK, Outgoing
  <2>3. Written' = Written
    BY <1>1, <1>2, <2>1, <2>2 DEF PipeInOrder
  <2>4. outgoing' = Written + 1
    BY <1>1, <2>1, <2>2 DEF PipeInOrder
  <2>5. \A i \in 1 .. Len(receivePipe') : receivePipe'[i] = Written + Outgoing' + i
    BY <1>1, <2>1, <2>2 DEF PipeInOrder
  <2>6. PipeInOrder'
    BY <1>1, <1>2, <2>3, <2>4, <2>5 DEF PipeInOrder
  <2>7. StreamInOrder'
    BY <1>2, <2>2, <2>3 DEF StreamInOrder, Chained, Following
  <2> QED
    BY <2>3, <2>6, <2>7
<1>4. CASE WriteStream
  <2>1. outgoing # 0 /\ outgoing' = 0 /\ Outgoing = 1 /\ Outgoing' = 0 /\ receivePipe' = receivePipe
    BY <1>4 DEF WriteStream, Typed, SourceOK, Outgoing
  <2>2. Written' = Written + 1 /\ outgoing = Written + 1 /\ outgoing \in 1 .. Len(given)
    BY <1>1, <1>2, <2>1 DEF PipeInOrder, Typed, SourceOK
  <2>3. PipeInOrder'
    BY <1>1, <1>2, <2>1, <2>2 DEF PipeInOrder
  <2>4. stream' = stream \o Cells(outgoing)
    BY <1>4 DEF WriteStream
  <2>5. /\ Chained(stream \o Cells(outgoing))
        /\ LET s == stream \o Cells(outgoing)
           IN  s[Len(s)] = [frame |-> outgoing, part |-> given[outgoing]]
    BY <1>1, <2>2, ChainGrows DEF StreamInOrder
  <2>6. StreamInOrder'
    BY <1>2, <2>2, <2>4, <2>5 DEF StreamInOrder, Chained, Following
  <2> QED
    BY <1>4, <2>3, <2>6 DEF Pull, WriteStream
<1> QED
  BY <1>3, <1>4

LEMMA ReadInOrder ==
    ASSUME Typed, Typed', StreamInOrder, Read
    PROVE  StreamInOrder'
<1>1. PICK n \in 1 .. SliceSize : n <= Len(stream) /\ stream' = SubSeq(stream, n + 1, Len(stream))
  BY DEF Read
<1>2. given' = given /\ Written' = Written
  BY DEF Read, source, Written, InHand
<1>3. stream \in Seq(FrameCell) /\ n \in Nat /\ Len(stream) \in Nat /\ n >= 1
  BY TunAssumption DEF Typed, StreamOK
<1>4. Len(stream') = Len(stream) - n /\ \A i \in 1 .. Len(stream) - n : stream'[i] = stream[n + i]
  BY <1>1, <1>3, Splits
<1>5. ASSUME NEW i \in 1 .. Len(stream') - 1 PROVE stream'[i + 1] = Following(stream'[i])
  <2>1. n + i \in 1 .. Len(stream) - 1 /\ (n + i) + 1 = n + (i + 1)
    BY <1>3, <1>4
  <2>2. stream[(n + i) + 1] = Following(stream[n + i])
    BY <2>1 DEF StreamInOrder, Chained
  <2>3. stream'[i] = stream[n + i] /\ stream'[i + 1] = stream[n + (i + 1)]
    BY <1>3, <1>4
  <2> QED
    BY <2>1, <2>2, <2>3
<1>6. stream' # <<>> => stream'[Len(stream')] = stream[Len(stream)] /\ stream # <<>>
  <2>1. stream' # <<>> => Len(stream') \in 1 .. Len(stream) - n
    BY <1>4 DEF Typed, StreamOK
  <2> QED
    BY <1>3, <1>4, <2>1
<1> QED
  BY <1>2, <1>5, <1>6 DEF StreamInOrder, Chained, Following

Ordered == ~broken /\ ~dead => PipeInOrder /\ StreamInOrder

LEMMA NextOrdered == Typed /\ Typed' /\ Ordered /\ [Next]_vars => Ordered'
<1> SUFFICES ASSUME Typed, Typed', Ordered, [Next]_vars, ~broken', ~dead'
             PROVE  PipeInOrder' /\ StreamInOrder'
  BY DEF Ordered
<1>1. ~broken /\ ~dead
  BY DEF Next, DeviceRead, Push, Connect, HandleReceiveFromTun, Pull, WriteStream, WriteLost, WriteFails,
         Break, TcpListenerLoop, AcceptFails, Accept, Read, ReadFails, SendSlice, TunWriteLoop, TakeSlice, BufferWrite,
         NeedMore, SendFrame, ParsePanics, ParseFails, vars, source, sink, parse, Typed, StreamOK, ParseOK
<1>2. PipeInOrder /\ StreamInOrder
  BY <1>1 DEF Ordered
<1>3. CASE DeviceRead \/ Push
  BY <1>2, <1>3, DeviceInOrder
<1>4. CASE Pull \/ WriteStream
  BY <1>2, <1>4, SenderInOrder
<1>5. CASE Read
  <2>1. PipeInOrder'
    BY <1>2, <1>5 DEF Read, source, PipeInOrder, Written, InHand, Outgoing, Held
  <2> QED
    BY <1>2, <1>5, <2>1, ReadInOrder
<1>6. CASE UNCHANGED <<given, held, receivePipe, outgoing, stream>>
  BY <1>2, <1>6 DEF PipeInOrder, StreamInOrder, Written, InHand, Outgoing, Held, Chained, Following
<1>7. CASE WriteLost \/ WriteFails \/ AcceptFails
  BY <1>1, <1>7 DEF WriteLost, WriteFails, AcceptFails
<1> QED
  <2>1. CASE Connect \/ Break \/ Accept \/ ReadFails \/ SendSlice \/ TunWriteLoop \/ UNCHANGED vars
    <3>1. UNCHANGED <<given, held, receivePipe, outgoing, stream>>
      BY <2>1 DEF Connect, Break, Accept, ReadFails, SendSlice, TunWriteLoop, TakeSlice, BufferWrite,
         NeedMore, SendFrame, ParsePanics, ParseFails, vars, source
    <3> QED
      BY <1>6, <3>1
  <2> QED
    BY <1>3, <1>4, <1>5, <1>7, <2>1 DEF Next, HandleReceiveFromTun, TcpListenerLoop

LEMMA InitOrdered == Init => Ordered
<1> SUFFICES ASSUME Init PROVE PipeInOrder /\ StreamInOrder
  BY DEF Ordered
<1>1. SourceOK /\ Len(given) = 0 /\ Len(receivePipe) = 0 /\ Outgoing = 0 /\ Held = 0 /\ stream = <<>>
  BY InitTyped DEF Typed, Init, Outgoing, Held
<1>2. Written = 0
  BY <1>1, WrittenNow DEF WrittenIs
<1>3. Len(stream) = 0
  BY <1>1
<1>4. PipeInOrder
  BY <1>1, <1>2 DEF Init, PipeInOrder
<1>5. Chained(stream)
  BY <1>3 DEF Chained
<1> QED
  BY <1>1, <1>4, <1>5 DEF StreamInOrder

LEMMA SpecOrdered == Spec => []Ordered
<1>1. Typed /\ Typed' /\ Ordered /\ [Next]_vars => Ordered'
  BY NextOrdered
<1> QED
  BY <1>1, InitOrdered, SpecTyped, PTL DEF Spec

\* With connection and peer there, the two goroutines of the sending host and
\* the full pipe between them lose, repeat and reorder no frame, for any sizes
\* of frames, slice and pipes (tun.go:208-242, main.go:82-90).
THEOREM TunSentInOrder == Spec => []SentInOrder
<1>1. Typed /\ Ordered => SentInOrder
  BY SplitOrder DEF Ordered
<1> QED
  BY <1>1, SpecTyped, SpecOrdered, PTL

-------------------------------------------------------------------------------
(* Clean reads: what waits in slice, copy and buffer is whole frames.      *)

Sent == IF listener = "send" THEN 1 ELSE 0
Copying == IF writer = "copy" THEN 1 ELSE 0
Loaded == IF buffer # <<>> /\ buffer[1] # Zero THEN 1 ELSE 0

\* How many frames have been read.
Taken == out + Sent + refs + Copying + Loaded

\* The slice with frame f at its start and nothing after it.
Padded(f) == [i \in 1 .. SliceSize |-> IF i <= given[f] THEN [frame |-> f, part |-> i] ELSE Zero]

SliceRest == \A i \in 1 .. SliceSize : i > high => slice[i] = Zero

TakenOK ==
    /\ Sent + refs + Copying <= 1
    /\ Taken <= Len(given)
    /\ \A f \in 1 .. Taken : given[f] # SliceSize - 1

InSlice ==
    /\ Sent + refs = 1 => slice = Padded(Taken)
    /\ writer = "copy" => copied = Padded(Taken)

InBuffer ==
    /\ writer # "parse" => buffer = <<>>
    /\ Loaded = 1 => buffer = Padded(out + 1)
    /\ Loaded = 0 => Len(buffer) # 1 /\ \A i \in 1 .. Len(buffer) : buffer[i] = Zero

\* The first w cells of the stream are whole frames, from the next one to take on;
\* after them comes a cut off one at most, the last that is written.
WholeTo(w) ==
    /\ w > 0 => stream[1] = [frame |-> Taken + 1, part |-> 1]
    /\ \A i \in 1 .. w - 1 : stream[i + 1] = Following(stream[i])
    /\ w > 0 => stream[w].part = given[stream[w].frame]
    /\ w < Len(stream) =>
          /\ broken /\ sender = "ended"
          /\ \E g \in 1 .. Len(given) :
                /\ Len(stream) - w < given[g]
                /\ \A j \in 1 .. Len(stream) - w : stream[w + j] = [frame |-> g, part |-> j]

InStream ==
    /\ \E w \in 0 .. Len(stream) : WholeTo(w)
    /\ ~broken /\ stream = <<>> => Written = Taken

Delivering == intact /\ ~dead /\ TakenOK /\ InSlice /\ InBuffer /\ InStream

CleanInv == clean => Delivering

LEMMA Counts ==
    ASSUME Typed
    PROVE  /\ Sent \in {0, 1} /\ Copying \in {0, 1} /\ Loaded \in {0, 1}
           /\ refs \in Nat /\ out \in Nat /\ Taken \in Nat
           /\ Len(given) \in Nat /\ SliceSize \in Nat /\ Len(stream) \in Nat
<1>1. Sent \in {0, 1} /\ Copying \in {0, 1} /\ Loaded \in {0, 1}
  BY DEF Sent, Copying, Loaded
<1>2. refs \in Nat /\ out \in Nat /\ Len(given) \in Nat /\ SliceSize \in Nat /\ Len(stream) \in Nat
  BY TunAssumption DEF Typed, SourceOK, StreamOK, SinkOK, ParseOK
<1> QED
  BY <1>1, <1>2 DEF Taken

LEMMA PaddedIs ==
    ASSUME Typed, NEW f \in 1 .. Len(given)
    PROVE  /\ Padded(f) \in Seq(SliceCell) /\ Len(Padded(f)) = SliceSize /\ Padded(f) # <<>>
           /\ given[f] \in 2 .. SliceSize /\ given[f] \in Nat
           /\ Padded(f)[1] = [frame |-> f, part |-> 1] /\ Padded(f)[2] = [frame |-> f, part |-> 2]
           /\ SubSeq(Padded(f), 1, given[f]) = Cells(f)
           /\ \A i \in 1 .. SliceSize : i > given[f] => Padded(f)[i] = Zero
<1> DEFINE p == Padded(f)
<1>1. /\ given[f] \in 2 .. SliceSize /\ Cells(f) \in Seq(FrameCell) /\ Len(Cells(f)) = given[f]
      /\ \A i \in 1 .. given[f] : Cells(f)[i] = [frame |-> f, part |-> i]
  BY CellsTyped DEF Typed
<1>2. SliceSize \in Nat /\ given[f] \in Nat /\ given[f] >= 2 /\ given[f] <= SliceSize
  BY <1>1, TunAssumption
<1>3. \A i \in 1 .. given[f] : [frame |-> f, part |-> i] \in FrameCell
  <2>1. \A i \in 1 .. given[f] : Cells(f)[i] \in FrameCell
    BY <1>1, <1>2
  <2> QED
    BY <1>1, <2>1
<1>4. p \in [1 .. SliceSize -> SliceCell]
  BY <1>2, <1>3 DEF Padded, SliceCell
<1>5. /\ \A i \in 1 .. given[f] : p[i] = [frame |-> f, part |-> i]
      /\ \A i \in 1 .. SliceSize : i > given[f] => p[i] = Zero
  BY <1>2 DEF Padded
<1> HIDE DEF p
<1>6. p \in Seq(SliceCell) /\ Len(p) = SliceSize
  BY <1>2, <1>4
<1>7. p # <<>>
  BY <1>2, <1>6
<1>8. SubSeq(p, 1, given[f]) = Cells(f)
  <2>1. /\ SubSeq(p, 1, given[f]) \in Seq(SliceCell) /\ Len(SubSeq(p, 1, given[f])) = given[f]
        /\ \A i \in 1 .. given[f] : SubSeq(p, 1, given[f])[i] = p[i]
    BY <1>2, <1>6, Splits
  <2>2. SubSeq(p, 1, given[f]) = [i \in 1 .. given[f] |-> [frame |-> f, part |-> i]]
    BY <1>2, <1>5, <2>1
  <2> QED
    BY <2>2 DEF Cells
<1>9. p[1] = [frame |-> f, part |-> 1] /\ p[2] = [frame |-> f, part |-> 2]
  BY <1>2, <1>5
<1> QED
  BY <1>1, <1>2, <1>5, <1>6, <1>7, <1>8, <1>9 DEF p

\* The device goes on giving frames: none of those it has given changes.
Grows == Len(given) <= Len(given') /\ \A f \in 1 .. Len(given) : given'[f] = given[f]

LEMMA SinkKept ==
    ASSUME Typed, Typed', TakenOK, InSlice, InBuffer, UNCHANGED sink, Grows
    PROVE  Taken' = Taken /\ TakenOK' /\ InSlice' /\ InBuffer'
<1>1. /\ Sent' = Sent /\ Copying' = Copying /\ Loaded' = Loaded /\ Taken' = Taken
      /\ UNCHANGED <<listener, slice, refs, writer, copied, buffer, out>>
  BY DEF sink, parse, Sent, Copying, Loaded, Taken
<1>2. ASSUME NEW f \in 1 .. Len(given) PROVE Padded(f)' = Padded(f)
  BY DEF Padded, Grows
<1> USE Counts
<1>3. TakenOK'
  <2>1. Len(given') \in Nat /\ Taken <= Len(given')
    BY DEF TakenOK, Typed, SourceOK, Grows
  <2>2. \A f \in 1 .. Taken : f \in 1 .. Len(given)
    BY DEF TakenOK
  <2> QED
    BY <1>1, <2>1, <2>2 DEF TakenOK, Grows
<1>4. InSlice'
  <2>1. Sent + refs = 1 \/ writer = "copy" => Taken \in 1 .. Len(given)
    BY DEF TakenOK, Taken, Copying
  <2>2. Sent + refs = 1 \/ writer = "copy" => Padded(Taken)' = Padded(Taken)
    BY <1>1, <2>1, <1>2
  <2> QED
    BY <1>1, <2>2 DEF InSlice
<1>5. InBuffer'
  <2>1. Loaded = 1 => out + 1 \in 1 .. Len(given)
    <3>1. /\ Taken = out + Sent + refs + Copying + Loaded /\ Taken <= Len(given)
          /\ Sent \in Nat /\ refs \in Nat /\ Copying \in Nat /\ out \in Nat /\ Len(given) \in Nat
      BY Counts DEF TakenOK, Taken
    <3> QED
      BY <3>1
  <2> QED
    BY <1>1, <1>2, <2>1 DEF InBuffer
<1> QED
  BY <1>1, <1>3, <1>4, <1>5

LEMMA StreamKept ==
    ASSUME Typed, Typed', InStream, Taken' = Taken, UNCHANGED stream, Grows,
           broken => broken', sender = "ended" => sender' = "ended", Written' = Written \/ broken'
    PROVE  InStream'
<1>1. PICK w \in 0 .. Len(stream) : WholeTo(w)
  BY DEF InStream
<1>2. \A i \in 1 .. Len(stream) : stream[i].frame \in 1 .. Len(given)
  BY DEF Typed, StreamOK, FrameCell
<1>3. w \in Nat /\ Len(stream) \in Nat /\ w <= Len(stream) /\ Len(given) \in Nat /\ Len(given') \in Nat
  BY DEF Typed, SourceOK, StreamOK
<1>4. WholeTo(w)'
  <2>1. \A i \in 1 .. w - 1 : stream[i + 1] = Following(stream[i]) /\ stream[i].frame \in 1 .. Len(given)
    <3>1. \A i \in 1 .. w - 1 : i \in 1 .. Len(stream)
      BY <1>3
    <3>2. \A i \in 1 .. w - 1 : stream[i + 1] = Following(stream[i])
      BY <1>1 DEF WholeTo
    <3> QED
      BY <1>2, <3>1, <3>2
  <2>2. \A i \in 1 .. w - 1 : stream'[i + 1] = Following(stream[i])'
    BY <2>1 DEF Following, Grows
  <2>3. w > 0 => stream'[w].part = given'[stream'[w].frame]
    BY <1>1, <1>2, <1>3 DEF WholeTo, Grows
  <2>4. w < Len(stream') =>
          \E g \in 1 .. Len(given') :
              /\ Len(stream') - w < given'[g]
              /\ \A j \in 1 .. Len(stream') - w : stream'[w + j] = [frame |-> g, part |-> j]
    <3> SUFFICES ASSUME w < Len(stream)
                 PROVE  \E g \in 1 .. Len(given') :
                            /\ Len(stream) - w < given'[g]
                            /\ \A j \in 1 .. Len(stream) - w : stream[w + j] = [frame |-> g, part |-> j]
      OBVIOUS
    <3>1. PICK g \in 1 .. Len(given) :
              /\ Len(stream) - w < given[g]
              /\ \A j \in 1 .. Len(stream) - w : stream[w + j] = [frame |-> g, part |-> j]
      BY <1>1 DEF WholeTo
    <3>2. g \in 1 .. Len(given') /\ given'[g] = given[g]
      BY <1>3 DEF Grows
    <3> QED
      BY <3>1, <3>2
  <2> QED
    BY <1>1, <2>2, <2>3, <2>4 DEF WholeTo
<1> QED
  BY <1>3, <1>4 DEF InStream

\* The steps of the sending host, but for the writes.
LEMMA SourceDelivers ==
    ASSUME Typed, Typed', Ordered, Delivering, DeviceRead \/ Push \/ Connect \/ Pull \/ WriteLost \/ Break
    PROVE  Delivering'
<1>1. UNCHANGED <<stream, sink>> /\ (broken => broken')
  BY DEF DeviceRead, Push, Connect, Pull, WriteLost, Break
<1>2. Grows
  <2>1. CASE DeviceRead
    BY <2>1 DEF DeviceRead, Typed, SourceOK, Grows
  <2>2. CASE ~DeviceRead
    BY <2>2 DEF Push, Connect, Pull, WriteLost, Break, source, Grows, Typed, SourceOK
  <2> QED
    BY <2>1, <2>2
<1>3. sender = "ended" => sender' = "ended"
  BY DEF DeviceRead, Push, Connect, Pull, WriteLost, Break, source
<1>4. Written' = Written \/ broken'
  <2>1. CASE Connect \/ Break
    BY <2>1 DEF Connect, Break, source, Written, InHand
  <2>2. CASE broken
    BY <1>1, <2>2
  <2>3. CASE ~broken /\ ~(Connect \/ Break)
    <3>1. ~dead
      BY DEF Delivering
    <3>2. PipeInOrder /\ StreamInOrder
      BY <2>3, <3>1 DEF Ordered
    <3>3. DeviceRead \/ Push \/ Pull
      BY <2>3, <3>1 DEF WriteLost
    <3> QED
      BY <3>2, <3>3, DeviceInOrder, SenderInOrder
  <2> QED
    BY <2>1, <2>2, <2>3
<1>5. Taken' = Taken /\ TakenOK' /\ InSlice' /\ InBuffer'
  BY <1>1, <1>2, SinkKept DEF Delivering
<1>6. InStream'
  BY <1>1, <1>2, <1>3, <1>4, <1>5, StreamKept DEF Delivering
<1> QED
  BY <1>1, <1>5, <1>6 DEF Delivering, sink, parse

LEMMA WriteDelivers ==
    ASSUME Typed, Typed', Ordered, Delivering, WriteStream
    PROVE  Delivering'
<1>1. UNCHANGED <<given, sink, broken>> /\ ~broken /\ ~dead
  BY DEF WriteStream
<1>2. Grows
  BY <1>1 DEF Grows, Typed, SourceOK
<1>3. Taken' = Taken /\ TakenOK' /\ InSlice' /\ InBuffer'
  BY <1>1, <1>2, SinkKept DEF Delivering
<1>4. PipeInOrder /\ StreamInOrder
  BY <1>1 DEF Ordered
<1> DEFINE f == outgoing
           t == stream \o Cells(f)
<1>5. f \in 1 .. Len(given) /\ f = Written + 1 /\ Written \in Nat /\ stream' = t
  BY <1>4 DEF PipeInOrder, WriteStream, Typed, SourceOK
<1>6. Chained(t) /\ t[Len(t)] = [frame |-> f, part |-> given[f]]
  BY <1>4, <1>5, ChainGrows DEF StreamInOrder
<1>7. /\ Cells(f) \in Seq(FrameCell) /\ Len(Cells(f)) >= 2 /\ Len(Cells(f)) \in Nat
      /\ Cells(f)[1] = [frame |-> f, part |-> 1]
  BY <1>5, CellsTyped, TunAssumption DEF Typed
<1>8. stream \in Seq(FrameCell) /\ Len(stream) \in Nat
  BY DEF Typed, StreamOK
<1>9. /\ t \in Seq(FrameCell) /\ Len(t) = Len(stream) + Len(Cells(f))
      /\ \A i \in 1 .. Len(stream) : t[i] = stream[i]
      /\ \A i \in 1 .. Len(Cells(f)) : t[Len(stream) + i] = Cells(f)[i]
  <2> DEFINE c == Cells(f)
  <2>1. c \in Seq(FrameCell) /\ stream \in Seq(FrameCell)
    BY <1>7, <1>8
  <2> HIDE DEF c, f
  <2>2. /\ stream \o c \in Seq(FrameCell) /\ Len(stream \o c) = Len(stream) + Len(c)
        /\ \A i \in 1 .. Len(stream) : (stream \o c)[i] = stream[i]
        /\ \A i \in 1 .. Len(c) : (stream \o c)[Len(stream) + i] = c[i]
    BY <2>1
  <2> QED
    BY <2>2 DEF c
<1> HIDE DEF t, f
<1>10. Len(t) > 0 /\ Len(t) \in Nat /\ t # <<>>
  BY <1>7, <1>8, <1>9
<1>11. t[1] = [frame |-> Taken + 1, part |-> 1]
  <2>1. CASE stream = <<>>
    <3>1. Taken = Written
      BY <1>1, <2>1 DEF Delivering, InStream
    <3> QED
      BY <1>5, <1>7, <1>9, <2>1, <3>1
  <2>2. CASE stream # <<>>
    <3>1. PICK w \in 0 .. Len(stream) : WholeTo(w)
      BY DEF Delivering, InStream
    <3>2. w = Len(stream) /\ w > 0
      BY <1>1, <1>8, <2>2, <3>1 DEF WholeTo
    <3> QED
      BY <1>8, <1>9, <3>1, <3>2 DEF WholeTo
  <2> QED
    BY <2>1, <2>2
<1>14. PICK m \in Nat : m = Len(t)
  BY <1>10
<1>12. WholeTo(m)'
  <2>1. stream'[1] = [frame |-> Taken' + 1, part |-> 1]
    BY <1>3, <1>5, <1>11
  <2>2. \A i \in 1 .. m - 1 : stream'[i + 1] = Following(stream'[i])
    BY <1>5, <1>6, <1>14 DEF Chained
  <2>3. stream'[m].part = given[stream'[m].frame]
    BY <1>5, <1>6, <1>14
  <2>4. Len(stream') = m /\ ~(m < m)
    BY <1>5, <1>14
  <2> QED
    BY <1>1, <2>1, <2>2, <2>3, <2>4 DEF WholeTo, Following
<1>13. InStream'
  BY <1>5, <1>10, <1>12, <1>14 DEF InStream
<1> QED
  BY <1>1, <1>3, <1>13 DEF Delivering, sink, parse

LEMMA CutDelivers ==
    ASSUME Typed, Typed', Delivering, WriteFails
    PROVE  Delivering'
<1>1. UNCHANGED <<given, sink>> /\ broken /\ broken' /\ sender = "write" /\ sender' = "ended"
  BY DEF WriteFails, Delivering
<1>2. Grows
  BY <1>1 DEF Grows, Typed, SourceOK
<1>3. Taken' = Taken /\ TakenOK' /\ InSlice' /\ InBuffer'
  BY <1>1, <1>2, SinkKept DEF Delivering
<1>4. outgoing \in 1 .. Len(given)
  BY <1>1 DEF Typed, SourceOK
<1>5. PICK k \in 0 .. given[outgoing] - 1 : stream' = stream \o SubSeq(Cells(outgoing), 1, k)
  BY DEF WriteFails
<1>0. PICK w \in Nat : w = Len(stream)
  BY DEF Typed, StreamOK
<1> DEFINE c == SubSeq(Cells(outgoing), 1, k)
<1>6. /\ given[outgoing] \in Nat /\ Cells(outgoing) \in Seq(FrameCell)
      /\ Len(Cells(outgoing)) = given[outgoing]
      /\ \A i \in 1 .. given[outgoing] : Cells(outgoing)[i] = [frame |-> outgoing, part |-> i]
  BY <1>4, CellsTyped, TunAssumption DEF Typed
<1>7. /\ c \in Seq(FrameCell) /\ Len(c) = k /\ k \in Nat /\ k < given[outgoing]
      /\ \A i \in 1 .. k : c[i] = [frame |-> outgoing, part |-> i]
  BY <1>5, <1>6, Splits
<1>8. stream \in Seq(FrameCell)
  BY DEF Typed, StreamOK
<1> HIDE DEF c
<1>9. /\ Len(stream \o c) = w + Len(c)
      /\ \A i \in 1 .. w : (stream \o c)[i] = stream[i]
      /\ \A i \in 1 .. Len(c) : (stream \o c)[w + i] = c[i]
  <2>1. c \in Seq(FrameCell) /\ stream \in Seq(FrameCell)
    BY <1>7, <1>8
  <2> QED
    BY <1>0, <2>1
<1>10. stream' = stream \o c
  BY <1>5 DEF c
<1>11. /\ Len(stream') = w + k
       /\ \A i \in 1 .. w : stream'[i] = stream[i]
       /\ \A i \in 1 .. k : stream'[w + i] = [frame |-> outgoing, part |-> i]
  BY <1>7, <1>9, <1>10
<1>12. WholeTo(w)
  <2>1. PICK v \in 0 .. w : WholeTo(v)
    BY <1>0 DEF Delivering, InStream
  <2>2. v = w
    BY <1>0, <1>1, <2>1 DEF WholeTo
  <2> QED
    BY <2>1, <2>2
<1>13. WholeTo(w)'
  <2>1. w > 0 => stream'[1] = [frame |-> Taken' + 1, part |-> 1]
    BY <1>3, <1>8, <1>11, <1>12 DEF WholeTo
  <2>2. \A i \in 1 .. w - 1 : stream'[i + 1] = Following(stream'[i])
    <3>1. \A i \in 1 .. w - 1 : i \in 1 .. w /\ i + 1 \in 1 .. w
      BY <1>8
    <3>2. \A i \in 1 .. w - 1 : stream[i + 1] = Following(stream[i])
      BY <1>12 DEF WholeTo
    <3> QED
      BY <1>11, <3>1, <3>2
  <2>3. w > 0 => stream'[w].part = given[stream'[w].frame]
    <3>1. w > 0 => w \in 1 .. w
      BY <1>8
    <3>2. w > 0 => stream[w].part = given[stream[w].frame]
      BY <1>12 DEF WholeTo
    <3> QED
      BY <1>11, <3>1, <3>2
  <2>4. Len(stream') - w = k
    BY <1>7, <1>8, <1>11
  <2> QED
    BY <1>1, <1>4, <1>7, <1>11, <2>1, <2>2, <2>3, <2>4 DEF WholeTo, Following
<1>14. InStream'
  <2>1. w \in 0 .. Len(stream')
    BY <1>7, <1>8, <1>11
  <2> QED
    BY <1>1, <1>13, <2>1 DEF InStream
<1> QED
  BY <1>1, <1>3, <1>14 DEF Delivering, sink, parse

LEMMA NextRest == Typed /\ SliceRest /\ [Next]_vars => SliceRest'
<1> SUFFICES ASSUME Typed, SliceRest, [Next]_vars PROVE SliceRest'
  OBVIOUS
<1>1. CASE Read
  <2>1. PICK n \in 1 .. SliceSize :
          /\ slice' = [i \in 1 .. SliceSize |-> IF i <= n THEN stream[i] ELSE slice[i]]
          /\ high' = IF n > high THEN n ELSE high
    BY <1>1 DEF Read
  <2>2. n \in Nat /\ high \in Nat /\ SliceSize \in Nat
    BY TunAssumption DEF Typed, SinkOK
  <2> QED
    BY <2>1, <2>2 DEF SliceRest
<1>2. CASE ~Read
  <2>1. UNCHANGED <<slice, high>>
    BY <1>2 DEF Next, DeviceRead, Push, Connect, HandleReceiveFromTun, Pull, WriteStream, WriteLost, WriteFails,
         Break, TcpListenerLoop, AcceptFails, Accept, ReadFails, SendSlice, TunWriteLoop, TakeSlice, BufferWrite,
         NeedMore, SendFrame, ParsePanics, ParseFails, vars, sink
  <2> QED
    BY <2>1 DEF SliceRest
<1> QED
  BY <1>1, <1>2

\* A clean read takes the next frame, whole.
LEMMA ReadDelivers ==
    ASSUME Typed, Typed', Ordered, SliceRest, Delivering, Read, clean'
    PROVE  Delivering'
<1>1. PICK n \in 1 .. SliceSize :
          /\ n <= Len(stream)
          /\ stream' = SubSeq(stream, n + 1, Len(stream))
          /\ slice' = [i \in 1 .. SliceSize |-> IF i <= n THEN stream[i] ELSE slice[i]]
          /\ SubSeq(stream, 1, n) = Cells(stream[1].frame)
          /\ n >= high /\ n # SliceSize - 1
          /\ refs = 0 /\ writer # "copy"
  BY DEF Read
<1>2. /\ listener = "read" /\ listener' = "send"
      /\ UNCHANGED <<given, outgoing, held, receivePipe, sender, broken, refs, writer, buffer, out, intact, dead>>
  BY DEF Read, source, parse
<1>3. /\ stream \in Seq(FrameCell) /\ Len(stream) \in Nat /\ n \in Nat /\ n >= 1 /\ high \in Nat
      /\ SliceSize \in Nat /\ Len(given) \in Nat
  <2>1. SliceSize \in Nat /\ stream \in Seq(FrameCell) /\ Len(stream) \in Nat
    BY Counts DEF Typed, StreamOK
  <2>2. high \in Nat /\ Len(given) \in Nat
    BY <2>1 DEF Typed, SinkOK, SourceOK
  <2>3. n \in Nat /\ n >= 1
    BY <2>1
  <2> QED
    BY <2>1, <2>2, <2>3
<1>15. Len(stream') = Len(stream) - n /\ \A i \in 1 .. Len(stream) - n : stream'[i] = stream[n + i]
  <2>1. n <= Len(stream) /\ stream' = SubSeq(stream, n + 1, Len(stream))
    BY <1>1
  <2> QED
    BY <1>3, <2>1, Splits
<1>4. PICK f \in 1 .. Len(given) : f = stream[1].frame
  BY <1>1, <1>3 DEF FrameCell
<1>5. /\ given[f] = n
      /\ \A i \in 1 .. n : stream[i] = [frame |-> f, part |-> i]
  <2>1. /\ Len(SubSeq(stream, 1, n)) = n
        /\ \A i \in 1 .. n : SubSeq(stream, 1, n)[i] = stream[i]
    BY <1>1, <1>3, Splits
  <2>2. /\ Len(Cells(f)) = given[f]
        /\ \A i \in 1 .. given[f] : Cells(f)[i] = [frame |-> f, part |-> i]
    BY CellsTyped DEF Typed
  <2>3. given[f] = n
    BY <1>1, <1>4, <2>1, <2>2
  <2> QED
    BY <1>1, <1>4, <2>1, <2>2, <2>3
<1>6. PICK w \in 0 .. Len(stream) : WholeTo(w)
  BY DEF Delivering, InStream
<1>7. n <= w
  <2> SUFFICES ASSUME w < n PROVE FALSE
    BY <1>3
  <2>1. CASE w = 0
    <3>1. PICK g \in 1 .. Len(given) :
              /\ Len(stream) - w < given[g]
              /\ \A j \in 1 .. Len(stream) - w : stream[w + j] = [frame |-> g, part |-> j]
      <4>1. w < Len(stream)
        BY <1>1, <1>3, <2>1
      <4> QED
        BY <1>6, <4>1 DEF WholeTo
    <3>2. stream[1] = [frame |-> g, part |-> 1]
      BY <1>1, <1>3, <2>1, <3>1
    <3>3. g = f
      BY <1>4, <3>2
    <3> QED
      BY <1>1, <1>3, <1>5, <2>1, <3>1, <3>3
  <2>2. CASE w > 0
    <3>1. stream[w] = [frame |-> f, part |-> w]
      BY <1>3, <1>5, <2>2
    <3> QED
      BY <1>3, <1>5, <1>6, <2>2, <3>1 DEF WholeTo
  <2> QED
    BY <2>1, <2>2
<1>8. f = Taken + 1
  BY <1>3, <1>4, <1>6, <1>7 DEF WholeTo
<1>9. /\ Sent = 0 /\ Sent' = 1 /\ Copying = 0 /\ Copying' = 0 /\ Loaded' = Loaded
      /\ refs = 0 /\ refs' = 0
  BY <1>1, <1>2 DEF Sent, Copying, Loaded
<1>10. Taken' = f
  BY <1>2, <1>8, <1>9, Counts DEF Taken
<1>11. TakenOK'
  <2>1. \A i \in 1 .. f : given[i] # SliceSize - 1
    BY <1>1, <1>5, <1>8, Counts DEF Delivering, TakenOK
  <2> QED
    BY <1>2, <1>3, <1>9, <1>10, <2>1 DEF TakenOK
<1>12. InSlice'
  <2>1. \A i \in 1 .. SliceSize : i > n => slice[i] = Zero
    <3>1. n \in Nat /\ high \in Nat /\ high <= n
      BY <1>1, <1>3
    <3> QED
      BY <3>1 DEF SliceRest
  <2>2. \A i \in 1 .. SliceSize : (IF i <= n THEN stream[i] ELSE slice[i])
                                  = IF i <= given[f] THEN [frame |-> f, part |-> i] ELSE Zero
    BY <1>3, <1>5, <2>1
  <2>3. slice' = Padded(f)
    BY <1>1, <2>2 DEF Padded
  <2> QED
    BY <1>1, <1>2, <1>10, <2>3 DEF InSlice, Padded
<1>13. InBuffer'
  BY <1>2, <1>9 DEF Delivering, InBuffer, Padded
<1>14. InStream'
  <2>1. PICK v \in 0 .. Len(stream) - n : v = w - n
    BY <1>1, <1>3, <1>7
  <2>2. v \in Nat /\ w = n + v
    BY <1>3, <2>1
  <2>3. Len(stream') = Len(stream) - n /\ \A i \in 1 .. Len(stream) - n : stream'[i] = stream[n + i]
    BY <1>15
  <2>4. WholeTo(v)'
    <3>1. v > 0 => stream'[1] = [frame |-> Taken' + 1, part |-> 1]
      <4> SUFFICES ASSUME v > 0 PROVE stream'[1] = [frame |-> Taken' + 1, part |-> 1]
        OBVIOUS
      <4>1. stream'[1] = stream[n + 1] /\ n \in 1 .. w - 1
        <5>1. 1 \in 1 .. Len(stream) - n /\ n \in 1 .. w - 1
          BY <1>3, <2>1, <2>2
        <5> QED
          BY <2>3, <5>1
      <4>2. stream[n + 1] = Following(stream[n])
        BY <1>6, <4>1 DEF WholeTo
      <4>3. stream[n] = [frame |-> f, part |-> n]
        BY <1>3, <1>5
      <4>4. stream[n + 1] = [frame |-> f + 1, part |-> 1]
        BY <1>3, <1>5, <4>2, <4>3 DEF Following
      <4> QED
        BY <1>10, <4>1, <4>4
    <3>2. \A i \in 1 .. v - 1 : stream'[i + 1] = Following(stream'[i])
      <4> SUFFICES ASSUME NEW i \in 1 .. v - 1 PROVE stream'[i + 1] = Following(stream'[i])
        OBVIOUS
      <4>1. n + i \in 1 .. w - 1 /\ (n + i) + 1 = n + (i + 1)
        BY <1>3, <2>2
      <4>2. stream[(n + i) + 1] = Following(stream[n + i])
        BY <1>6, <4>1 DEF WholeTo
      <4>3. stream'[i] = stream[n + i] /\ stream'[i + 1] = stream[n + (i + 1)]
        <5>1. i \in 1 .. Len(stream) - n /\ i + 1 \in 1 .. Len(stream) - n
          BY <1>3, <2>1, <2>2
        <5> QED
          BY <2>3, <5>1
      <4> QED
        BY <4>1, <4>2, <4>3
    <3>3. v > 0 => stream'[v].part = given[stream'[v].frame]
      <4> SUFFICES ASSUME v > 0 PROVE stream'[v].part = given[stream'[v].frame]
        OBVIOUS
      <4>1. stream'[v] = stream[w] /\ w > 0
        BY <1>3, <2>1, <2>2, <2>3
      <4> QED
        BY <1>6, <4>1 DEF WholeTo
    <3>4. v < Len(stream') => w < Len(stream)
      BY <1>3, <2>1, <2>2, <2>3
    <3>5. ASSUME v < Len(stream')
          PROVE  \E g \in 1 .. Len(given) :
                    /\ Len(stream') - v < given[g]
                    /\ \A j \in 1 .. Len(stream') - v : stream'[v + j] = [frame |-> g, part |-> j]
      <4>1. PICK g \in 1 .. Len(given) :
                /\ Len(stream) - w < given[g]
                /\ \A j \in 1 .. Len(stream) - w : stream[w + j] = [frame |-> g, part |-> j]
        BY <1>6, <3>4, <3>5 DEF WholeTo
      <4>2. Len(stream') - v = Len(stream) - w
        BY <1>3, <2>2, <2>3
      <4>3. \A j \in 1 .. Len(stream) - w : stream'[v + j] = stream[w + j]
        <5> SUFFICES ASSUME NEW j \in 1 .. Len(stream) - w PROVE stream'[v + j] = stream[w + j]
          OBVIOUS
        <5>1. v + j \in 1 .. Len(stream) - n /\ n + (v + j) = w + j
          BY <1>3, <2>1, <2>2
        <5>2. stream'[v + j] = stream[n + (v + j)]
          BY <2>3, <5>1
        <5> QED
          BY <5>1, <5>2
      <4> QED
        BY <4>1, <4>2, <4>3
    <3>6. v < Len(stream') => broken /\ sender = "ended"
      BY <1>6, <3>4 DEF WholeTo
    <3> QED
      BY <1>2, <3>1, <3>2, <3>3, <3>5, <3>6 DEF WholeTo, Following
  <2>5. ~broken' /\ stream' = <<>> => Written' = Taken'
    <3> SUFFICES ASSUME ~broken, stream' = <<>> PROVE Written = f
      BY <1>2, <1>10 DEF Written, InHand
    <3>1. Len(stream) = n
      BY <1>1, <1>3, <2>3
    <3>2. stream[n] = [frame |-> Written, part |-> given[Written]]
      <4>1. StreamInOrder /\ stream # <<>>
        BY <1>1, <1>3, <3>1 DEF Ordered, Delivering
      <4> QED
        BY <3>1, <4>1 DEF StreamInOrder
    <3>3. stream[n] = [frame |-> f, part |-> n]
      BY <1>3, <1>5
    <3>4. stream[n].frame = Written /\ stream[n].frame = f
      BY <3>2, <3>3
    <3> QED
      BY <3>4
  <2> QED
    BY <2>1, <2>3, <2>4, <2>5 DEF InStream
<1> QED
  BY <1>2, <1>11, <1>12, <1>13, <1>14 DEF Delivering

LEMMA ListenerDelivers ==
    ASSUME Typed, Typed', Delivering, Accept \/ ReadFails \/ SendSlice
    PROVE  Delivering'
<1>1. /\ UNCHANGED <<given, held, receivePipe, outgoing, sender, stream, broken, slice, writer, copied>>
      /\ UNCHANGED <<buffer, out, intact, dead>>
  BY DEF Accept, ReadFails, SendSlice, source, parse
<1>2. Sent' + refs' = Sent + refs /\ Copying' = Copying /\ Loaded' = Loaded
  <2>1. CASE Accept \/ ReadFails
    BY <2>1 DEF Accept, ReadFails, Sent, Copying, Loaded, parse
  <2>2. CASE SendSlice
    BY <2>2, Counts DEF SendSlice, Sent, Copying, Loaded, parse
  <2> QED
    BY <2>1, <2>2
<1>3. refs' \in Nat /\ Sent' \in Nat
  BY DEF Typed, SinkOK, Sent
<1>4. Taken' = Taken
  <2>1. refs \in Nat /\ Sent \in Nat /\ Copying \in Nat /\ Loaded \in Nat /\ out \in Nat /\ out' = out
    BY <1>1, Counts
  <2>2. Taken = out + (Sent + refs) + Copying + Loaded
    BY <2>1 DEF Taken
  <2>3. Taken' = out' + (Sent' + refs') + Copying' + Loaded'
    BY <1>2, <1>3, <2>1 DEF Taken
  <2> QED
    BY <1>2, <2>1, <2>2, <2>3
<1>5. TakenOK' /\ InSlice' /\ InBuffer'
  BY <1>1, <1>2, <1>4 DEF Delivering, TakenOK, InSlice, InBuffer, Padded
<1>6. InStream'
  <2>1. Grows /\ Written' = Written
    BY <1>1 DEF Grows, Typed, SourceOK, Written, InHand
  <2> QED
    BY <1>1, <1>4, <2>1, StreamKept DEF Delivering
<1> QED
  BY <1>1, <1>5, <1>6 DEF Delivering

\* What every step of TunWriteLoop leaves alone, when it keeps Taken.
LEMMA StreamKeptByWriter ==
    ASSUME Typed, Typed', InStream, TunWriteLoop, Taken' = Taken
    PROVE  InStream'
<1>1. UNCHANGED <<given, held, receivePipe, outgoing, sender, stream, broken>>
  BY DEF TunWriteLoop, TakeSlice, BufferWrite, NeedMore, SendFrame, ParsePanics, ParseFails, source
<1>2. Grows /\ Written' = Written
  BY <1>1 DEF Grows, Typed, SourceOK, Written, InHand
<1> QED
  BY <1>1, <1>2, StreamKept

LEMMA CopyDelivers ==
    ASSUME Typed, Typed', Delivering, TakeSlice \/ BufferWrite
    PROVE  Delivering'
<1>1. UNCHANGED <<given, listener, slice, out, intact>>
  BY DEF TakeSlice, BufferWrite, source, parse
<1>2. Sent' = Sent
  BY <1>1 DEF Sent
<1>3. CASE TakeSlice
  <2>1. /\ UNCHANGED <<buffer, dead>> /\ copied' = slice /\ writer # "parse" /\ writer' = "copy"
        /\ refs' = refs - 1 /\ refs > 0
    BY <1>3 DEF TakeSlice, parse
  <2>2. Copying = 0 /\ Copying' = 1 /\ Loaded' = Loaded
    BY <1>3, <2>1 DEF TakeSlice, Copying, Loaded
  <2>3. Sent = 0 /\ refs = 1 /\ refs' = 0
    BY <2>1, <2>2, Counts DEF Delivering, TakenOK
  <2>4. Taken' = Taken
    BY <1>1, <1>2, <2>2, <2>3, Counts DEF Taken
  <2>5. TakenOK'
    BY <1>1, <1>2, <2>2, <2>3, <2>4, Counts DEF Delivering, TakenOK
  <2>6. InSlice'
    BY <1>1, <1>2, <2>1, <2>3, <2>4 DEF Delivering, InSlice, Padded
  <2>7. InBuffer'
    BY <1>1, <2>1, <2>2 DEF Delivering, InBuffer, Padded
  <2>8. InStream'
    BY <1>3, <2>4, StreamKeptByWriter DEF TunWriteLoop, Delivering
  <2> QED
    BY <1>1, <2>1, <2>5, <2>6, <2>7, <2>8 DEF Delivering
<1>4. CASE BufferWrite
  <2>1. /\ buffer = <<>> /\ buffer' = copied /\ writer = "copy" /\ writer' = "parse"
        /\ UNCHANGED <<dead, refs>>
    BY <1>4 DEF BufferWrite, Delivering, InBuffer
  <2>2. Copying = 1 /\ Copying' = 0 /\ Loaded = 0
    BY <2>1 DEF Copying, Loaded
  <2>3. Sent + refs = 0 /\ Taken = out + 1 /\ out + 1 \in 1 .. Len(given)
    BY <2>2, Counts DEF Delivering, TakenOK, Taken
  <2>4. buffer' = Padded(out + 1)
    BY <2>1, <2>3 DEF Delivering, InSlice
  <2>5. buffer' # <<>> /\ buffer'[1] # Zero
    <3>1. Padded(out + 1) # <<>> /\ Padded(out + 1)[1] = [frame |-> out + 1, part |-> 1]
      BY <2>3, PaddedIs
    <3> QED
      BY <2>4, <3>1 DEF Zero
  <2>6. Loaded' = 1
    BY <2>5 DEF Loaded
  <2>7. Taken' = Taken
    BY <1>1, <1>2, <2>1, <2>2, <2>3, <2>6, Counts DEF Taken
  <2>8. TakenOK'
    BY <1>1, <1>2, <2>1, <2>2, <2>3, <2>7, Counts DEF Delivering, TakenOK
  <2>9. InSlice'
    BY <1>1, <1>2, <2>1, <2>3, Counts DEF InSlice
  <2>10. InBuffer'
    BY <1>1, <2>1, <2>4, <2>6 DEF InBuffer, Padded
  <2>11. InStream'
    BY <1>4, <2>7, StreamKeptByWriter DEF TunWriteLoop, Delivering
  <2> QED
    BY <1>1, <2>1, <2>8, <2>9, <2>10, <2>11 DEF Delivering
<1> QED
  BY <1>3, <1>4

\* A buffer with a frame at its start announces the frame's own length.
LEMMA LoadedIs ==
    ASSUME Typed, Delivering, MayBeHeader
    PROVE  /\ Loaded = 1 /\ out + 1 \in 1 .. Len(given) /\ buffer = Padded(out + 1)
           /\ buffer[1].part = 1 /\ TotalLen = {given[out + 1]}
           /\ given[out + 1] \in Nat /\ given[out + 1] >= 2
           /\ given[out + 1] <= Len(buffer) /\ Len(buffer) = SliceSize /\ given[out + 1] # SliceSize - 1
<1>1. buffer # <<>> /\ buffer[1] # Zero
  BY DEF MayBeHeader
<1>2. Loaded = 1
  BY <1>1 DEF Loaded
<1>3. buffer = Padded(out + 1)
  BY <1>2 DEF Delivering, InBuffer
<1>4. out + 1 \in 1 .. Taken /\ out + 1 \in 1 .. Len(given)
  BY <1>2, Counts DEF Delivering, TakenOK, Taken
<1>5. /\ Len(buffer) = SliceSize /\ given[out + 1] \in 2 .. SliceSize /\ given[out + 1] \in Nat
      /\ buffer[1] = [frame |-> out + 1, part |-> 1] /\ buffer[2] = [frame |-> out + 1, part |-> 2]
  BY <1>3, <1>4, PaddedIs
<1>6. buffer[1].part = 1 /\ buffer[1].frame = out + 1 /\ buffer[2] = [buffer[1] EXCEPT !.part = 2]
  BY <1>5
<1>7. TotalLen = {given[out + 1]}
  <2>1. ~(buffer[2] = Zero) /\ given[out + 1] \in 0 .. SliceSize + 1
    BY <1>5, Counts DEF Zero
  <2>2. TotalLen = {n \in 0 .. SliceSize + 1 : n = given[out + 1]}
    BY <1>6, <2>1 DEF TotalLen
  <2> QED
    BY <2>1, <2>2
<1>8. given[out + 1] # SliceSize - 1
  BY <1>4 DEF Delivering, TakenOK
<1> QED
  BY <1>2, <1>3, <1>4, <1>5, <1>6, <1>7, <1>8, Counts

LEMMA ParseDelivers ==
    ASSUME Typed, Typed', Delivering, NeedMore \/ SendFrame \/ ParsePanics \/ ParseFails
    PROVE  Delivering'
<1>1. /\ UNCHANGED <<given, listener, slice, refs, copied>>
      /\ writer = "parse" /\ writer' # "copy"
  BY DEF NeedMore, SendFrame, ParsePanics, ParseFails, Parsing, source
<1>2. Sent' = Sent /\ Copying = 0 /\ Copying' = 0
  BY <1>1 DEF Sent, Copying
<1>3. TunWriteLoop
  BY DEF TunWriteLoop
<1>4. CASE NeedMore
  <2>1. UNCHANGED <<buffer, out, intact, dead>>
    BY <1>4 DEF NeedMore, parse
  <2>2. Len(buffer) \in Nat /\ buffer \in Seq(SliceCell)
    BY DEF Typed, ParseOK
  <2>3. ~MayBeHeader
    <3> SUFFICES ASSUME MayBeHeader PROVE FALSE
      OBVIOUS
    <3>1. Len(buffer) >= 2
      BY DEF MayBeHeader
    <3>2. \E n \in TotalLen : n > Len(buffer)
      BY <1>4, <2>2, <3>1 DEF NeedMore
    <3> QED
      BY <2>2, <3>2, LoadedIs
  <2>4. Len(buffer) < 2
    BY <1>4, <2>3 DEF NeedMore
  <2>5. Loaded = 0
    <3> SUFFICES ASSUME Loaded = 1 PROVE FALSE
      BY Counts
    <3>1. out + 1 \in 1 .. Len(given) /\ buffer = Padded(out + 1)
      BY Counts DEF Delivering, TakenOK, Taken, InBuffer
    <3>2. Len(buffer) = SliceSize /\ given[out + 1] \in 2 .. SliceSize
      BY <3>1, PaddedIs
    <3> QED
      BY <2>4, <3>2, TunAssumption
  <2>6. buffer = <<>>
    <3>1. Len(buffer) = 0
      <4>1. Len(buffer) # 1
        BY <2>5 DEF Delivering, InBuffer
      <4>2. \A k \in Nat : k < 2 /\ k # 1 => k = 0
        OBVIOUS
      <4>3. Len(buffer) \in Nat
        BY <2>2
      <4> QED
        BY <2>4, <4>1, <4>2, <4>3
    <3> QED
      BY <2>2, <3>1
  <2>7. Loaded' = 0
    BY <2>1, <2>6 DEF Loaded
  <2>8. Taken' = Taken
    BY <1>1, <1>2, <2>1, <2>5, <2>7 DEF Taken
  <2>9. TakenOK' /\ InSlice'
    BY <1>1, <1>2, <2>8 DEF Delivering, TakenOK, InSlice, Padded
  <2>10. InBuffer'
    BY <2>1, <2>6, <2>7 DEF InBuffer
  <2>11. InStream'
    BY <1>3, <2>8, StreamKeptByWriter DEF Delivering
  <2> QED
    BY <2>1, <2>9, <2>10, <2>11 DEF Delivering
<1>5. CASE SendFrame
  <2> DEFINE n == given[out + 1]
  <2>1. /\ intact /\ out < Len(given) /\ SubSeq(buffer, 1, n) = Cells(out + 1) => intact'
        /\ intact' => out' = out + 1
        /\ buffer' = SubSeq(buffer, n + 1, Len(buffer))
        /\ UNCHANGED <<writer, dead>>
    <3>1. PICK m \in TotalLen :
              /\ intact' = (intact /\ out < Len(given) /\ SubSeq(buffer, 1, m) = Cells(out + 1))
              /\ out' = IF intact' THEN out + 1 ELSE out
              /\ buffer' = SubSeq(buffer, m + 1, Len(buffer))
      BY <1>5 DEF SendFrame
    <3>2. m = n
      BY <1>5, LoadedIs DEF SendFrame
    <3>3. intact' <=> (intact /\ out < Len(given) /\ SubSeq(buffer, 1, n) = Cells(out + 1))
      BY <3>1, <3>2
    <3>4. intact' => out' = out + 1
      BY <3>1
    <3>5. buffer' = SubSeq(buffer, n + 1, Len(buffer)) /\ UNCHANGED <<writer, dead>>
      BY <1>5, <3>1, <3>2 DEF SendFrame
    <3> QED
      BY <3>3, <3>4, <3>5
  <2>2. /\ Loaded = 1 /\ out + 1 \in 1 .. Len(given) /\ buffer = Padded(out + 1)
        /\ n \in Nat /\ n >= 2 /\ n <= SliceSize /\ Len(buffer) = SliceSize /\ n # SliceSize - 1
    BY <1>5, LoadedIs DEF SendFrame
  <2>3. SubSeq(buffer, 1, n) = Cells(out + 1)
    BY <2>2, PaddedIs
  <2>4. intact' /\ out' = out + 1
    <3>1. intact
      BY DEF Delivering
    <3>2. out < Len(given)
      BY <2>2, Counts
    <3> QED
      BY <2>1, <2>3, <3>1, <3>2
  <2>5. /\ buffer' \in Seq(SliceCell) /\ Len(buffer') = SliceSize - n
        /\ \A i \in 1 .. SliceSize - n : buffer'[i] = buffer[n + i]
    <3>1. buffer \in Seq(SliceCell) /\ n \in Nat /\ n <= Len(buffer)
      BY <2>2 DEF Typed, ParseOK
    <3>2. buffer' = SubSeq(buffer, n + 1, Len(buffer)) /\ Len(buffer) = SliceSize
      BY <2>1, <2>2
    <3> HIDE DEF n
    <3> QED
      BY <3>1, <3>2, Splits
  <2>6. \A i \in 1 .. Len(buffer') : buffer'[i] = Zero
    <3>1. \A i \in 1 .. SliceSize : i > n => buffer[i] = Zero
      BY <2>2, PaddedIs
    <3>2. n \in Nat /\ SliceSize \in Nat
      BY <2>2, Counts
    <3> HIDE DEF n
    <3>3. \A i \in 1 .. SliceSize - n : n + i \in 1 .. SliceSize /\ n + i > n
      BY <3>2
    <3> QED
      BY <2>5, <3>1, <3>3
  <2>7. Loaded' = 0 /\ Len(buffer') # 1
    <3>1. buffer' # <<>> => buffer'[1] = Zero
      BY <2>5, <2>6
    <3>2. Len(buffer') # 1
      BY <2>2, <2>5, Counts
    <3> QED
      BY <3>1, <3>2 DEF Loaded
  <2>8. Taken' = Taken
    BY <1>1, <1>2, <2>2, <2>4, <2>7, Counts DEF Taken
  <2>9. TakenOK' /\ InSlice'
    BY <1>1, <1>2, <2>8 DEF Delivering, TakenOK, InSlice, Padded
  <2>10. InBuffer'
    <3>1. writer' = "parse"
      BY <1>1, <2>1
    <3> QED
      BY <2>6, <2>7, <3>1 DEF InBuffer
  <2>11. InStream'
    BY <1>3, <2>8, StreamKeptByWriter DEF Delivering
  <2> QED
    BY <2>1, <2>4, <2>9, <2>10, <2>11 DEF Delivering
<1>6. CASE ParsePanics
  <2>1. MayBeHeader /\ (buffer[1].part # 1 \/ \E n \in TotalLen : n < 2)
    BY <1>6 DEF ParsePanics
  <2> QED
    BY <2>1, LoadedIs
<1>7. CASE ParseFails
  <2>1. UNCHANGED <<out, intact, dead>> /\ buffer' = <<>> /\ buffer # <<>> /\ buffer[1].part # 1
    BY <1>7 DEF ParseFails, MayBeOther
  <2>2. Loaded = 0
    <3> SUFFICES ASSUME Loaded = 1 PROVE FALSE
      BY Counts
    <3>1. out + 1 \in 1 .. Len(given) /\ buffer = Padded(out + 1)
      BY Counts DEF Delivering, TakenOK, Taken, InBuffer
    <3>2. buffer[1] = [frame |-> out + 1, part |-> 1]
      BY <3>1, PaddedIs
    <3> QED
      BY <2>1, <3>2
  <2>3. Loaded' = 0
    BY <2>1 DEF Loaded
  <2>4. Taken' = Taken
    BY <1>1, <1>2, <2>1, <2>2, <2>3 DEF Taken
  <2>5. TakenOK' /\ InSlice'
    BY <1>1, <1>2, <2>4 DEF Delivering, TakenOK, InSlice, Padded
  <2>6. InBuffer'
    BY <2>1, <2>3 DEF InBuffer
  <2>7. InStream'
    BY <1>3, <2>4, StreamKeptByWriter DEF Delivering
  <2> QED
    BY <2>1, <2>5, <2>6, <2>7 DEF Delivering
<1> QED
  BY <1>4, <1>5, <1>6, <1>7

LEMMA NextClean ==
    Typed /\ Typed' /\ Ordered /\ SliceRest /\ CleanInv /\ [Next]_vars => CleanInv'
<1> SUFFICES ASSUME Typed, Typed', Ordered, SliceRest, CleanInv, [Next]_vars, clean'
             PROVE  Delivering'
  BY DEF CleanInv
<1>1. CASE Read
  BY <1>1, ReadDelivers DEF Read, CleanInv
<1>2. CASE ~Read
  <2>0. ~AcceptFails
    BY DEF AcceptFails
  <2>1. clean
    BY <1>2 DEF Next, DeviceRead, Push, Connect, HandleReceiveFromTun, Pull, WriteStream, WriteLost, WriteFails,
         Break, TcpListenerLoop, AcceptFails, Accept, ReadFails, SendSlice, TunWriteLoop, TakeSlice, BufferWrite,
         NeedMore, SendFrame, ParsePanics, ParseFails, vars, sink
  <2>2. Delivering
    BY <2>1 DEF CleanInv
  <2>3. CASE UNCHANGED vars
    <3>1. UNCHANGED <<given, held, receivePipe, outgoing, sender, stream, broken, sink, intact, dead>>
      BY <2>3 DEF vars, source, sink, parse
    <3>2. Grows /\ Written' = Written
      BY <3>1 DEF Grows, Typed, SourceOK, Written, InHand
    <3>3. Taken' = Taken /\ TakenOK' /\ InSlice' /\ InBuffer'
      BY <2>2, <3>1, <3>2, SinkKept DEF Delivering
    <3>4. InStream'
      BY <2>2, <3>1, <3>2, <3>3, StreamKept DEF Delivering
    <3> QED
      BY <2>2, <3>1, <3>3, <3>4 DEF Delivering
  <2> QED
    BY <1>2, <2>0, <2>2, <2>3, SourceDelivers, WriteDelivers, CutDelivers, ListenerDelivers, CopyDelivers,
       ParseDelivers DEF Next, HandleReceiveFromTun, TcpListenerLoop, TunWriteLoop
<1> QED
  BY <1>1, <1>2

LEMMA InitClean == Init => SliceRest /\ CleanInv
<1> SUFFICES ASSUME Init PROVE SliceRest /\ Delivering
  BY DEF CleanInv
<1>1. Typed /\ Ordered
  BY InitTyped, InitOrdered
<1>2. Sent = 0 /\ Copying = 0 /\ Loaded = 0 /\ refs = 0 /\ out = 0
  BY DEF Init, Sent, Copying, Loaded
<1>3. Taken = 0
  BY <1>2 DEF Taken
<1>4. Len(given) = 0 /\ Len(stream) = 0 /\ Len(buffer) = 0
  BY DEF Init
<1>5. TakenOK
  BY <1>2, <1>3, <1>4 DEF TakenOK
<1>6. InSlice /\ InBuffer
  BY <1>2, <1>4 DEF Init, InSlice, InBuffer
<1>7. InStream
  <2>1. WholeTo(0)
    BY <1>4 DEF WholeTo
  <2>2. PipeInOrder
    BY <1>1 DEF Ordered, Init
  <2>3. Written = 0
    <3>1. Len(receivePipe) = 0 /\ Outgoing = 0 /\ Held = 0
      BY DEF Init, Outgoing, Held
    <3> QED
      BY <1>4, <2>2, <3>1 DEF PipeInOrder
  <2> QED
    BY <1>3, <1>4, <2>1, <2>3 DEF InStream
<1>8. SliceRest
  BY DEF Init, SliceRest
<1> QED
  BY <1>5, <1>6, <1>7, <1>8 DEF Init, Delivering

LEMMA SpecClean == Spec => [](SliceRest /\ CleanInv)
<1>1. Typed /\ Typed' /\ Ordered /\ SliceRest /\ CleanInv /\ [Next]_vars => SliceRest' /\ CleanInv'
  BY NextRest, NextClean
<1> QED
  BY <1>1, InitClean, SpecTyped, SpecOrdered, PTL DEF Spec

\* As long as every read took one whole frame, no shorter than those before, and
\* came after the copy of the last one, the raw socket gets the frames whole, once
\* and in order, and TunWriteLoop does not panic, for any sizes of frames, slice
\* and pipes (main.go:214-220, tun.go:249-284).
THEOREM TunCleanDelivery == Spec => []CleanDelivery
<1>1. CleanInv => CleanDelivery
  BY DEF CleanInv, Delivering, CleanDelivery
<1> QED
  BY <1>1, SpecClean, PTL
-------------------------------------------------------------------------------
(* Every frame goes on until it is out.                                    *)

Times(a, k) == a * k

\* What the goroutines have to do for each slice in the pipe, until it is parsed;
\* for each cell of the stream, which a read may take alone; and for each frame
\* that is being written or is in the full pipe.
SliceWork == SliceSize + 3
CellWork == SliceSize + 5
FrameWork == Times(SliceSize, CellWork) + 1
QueuedWork == FrameWork + 1

\* All they still have to do: for the frames in hand, the cells under way, the
\* slices in the pipe, where the two loops of the receiving host are, and a panic.
HeldWork == IF held = 0 THEN 0 ELSE FrameWork + 2
QueueWork == Times(Len(receivePipe), QueuedWork)
OutgoingWork == IF outgoing = 0 THEN 0 ELSE FrameWork
StreamWork == Times(Len(stream), CellWork)
ListenerWork == [accept |-> 2, read |-> 1, send |-> SliceSize + 5, ended |-> 0][listener]
PipeWork == Times(refs, SliceWork)
WriterWork == [idle |-> 0, copy |-> SliceSize + 2, parse |-> Len(buffer) + 1][writer]
PanicWork == IF dead THEN 0 ELSE 1
SourceWork == HeldWork + QueueWork + OutgoingWork
SinkWork == ListenerWork + PipeWork + WriterWork + PanicWork
Work == SourceWork + StreamWork + SinkWork

Goroutine == Push \/ HandleReceiveFromTun \/ TcpListenerLoop \/ TunWriteLoop

WorkFalls == /\ Goroutine => Work' < Work
             /\ ~DeviceRead => Work' <= Work

\* What some goroutine waits for has come.
Going ==
    \/ held # 0 /\ Len(receivePipe) < PipeSize
    \/ sender = "receive" /\ receivePipe # <<>>
    \/ sender = "write"
    \/ /\ ~dead
       /\ \/ listener = "accept" /\ sender # "dial"
          \/ listener = "read" /\ (stream # <<>> \/ broken)
          \/ listener = "send" /\ refs < PipeSize
          \/ writer = "idle" /\ refs > 0
          \/ writer \in {"copy", "parse"}

\* Nothing stands still with a frame inside.
FramesGoOut == clean /\ ~broken /\ sender # "dial" => out = Len(given) \/ Going

\* Only a connection or a peer that is gone ends a loop.
EndedBroken ==
    /\ sender = "ended" => broken \/ dead
    /\ listener = "ended" => broken

LEMMA TimesNat == \A a \in Nat, k \in Nat : Times(a, k) \in Nat
  BY DEF Times

LEMMA TimesAdds ==
    \A a \in Nat, b \in Nat, k \in Nat : Times(a + b, k) = Times(a, k) + Times(b, k)
  BY DEF Times

LEMMA TimesNext == \A a \in Nat, k \in Nat : Times(a + 1, k) = Times(a, k) + k
  BY DEF Times

LEMMA TimesOrder ==
    ASSUME NEW a \in Nat, NEW b \in Nat, a <= b, NEW k \in Nat
    PROVE  Times(a, k) <= Times(b, k)
<1>1. b - a \in Nat /\ b = a + (b - a)
  OBVIOUS
<1>2. Times(b, k) = Times(a, k) + Times(b - a, k)
  BY <1>1, TimesAdds
<1> QED
  BY <1>1, <1>2, TimesNat

Lengths ==
    /\ SliceSize \in Nat
    /\ SliceWork = SliceSize + 3 /\ SliceWork \in Nat
    /\ CellWork = SliceSize + 5 /\ CellWork \in Nat
    /\ Times(SliceSize, CellWork) \in Nat /\ FrameWork = Times(SliceSize, CellWork) + 1
    /\ FrameWork \in Nat /\ QueuedWork = FrameWork + 1 /\ QueuedWork \in Nat
    /\ Len(receivePipe) \in Nat /\ Len(stream) \in Nat /\ Len(buffer) \in Nat /\ refs \in Nat

WorkParts ==
    /\ HeldWork \in Nat /\ QueueWork \in Nat /\ OutgoingWork \in Nat /\ StreamWork \in Nat
    /\ ListenerWork \in Nat /\ PipeWork \in Nat /\ WriterWork \in Nat /\ PanicWork \in Nat
    /\ SourceWork \in Nat /\ SinkWork \in Nat

LEMMA LengthsTyped == Typed => Lengths
<1> SUFFICES ASSUME Typed PROVE Lengths
  OBVIOUS
<1>1. SliceSize \in Nat /\ PipeSize \in Nat
  BY TunAssumption
<1>2. CellWork \in Nat /\ CellWork = SliceSize + 5
  BY <1>1 DEF CellWork
<1>3. Times(SliceSize, CellWork) \in Nat
  BY <1>1, <1>2, TimesNat
<1>4. FrameWork \in Nat /\ FrameWork = Times(SliceSize, CellWork) + 1
  BY <1>3 DEF FrameWork
<1>5. /\ SliceWork = SliceSize + 3 /\ SliceWork \in Nat
      /\ QueuedWork = FrameWork + 1 /\ QueuedWork \in Nat
  BY <1>1, <1>4 DEF SliceWork, QueuedWork
<1>6. Len(receivePipe) \in Nat /\ Len(stream) \in Nat /\ Len(buffer) \in Nat /\ refs \in Nat
  BY <1>1 DEF Typed, SourceOK, StreamOK, SinkOK, ParseOK
<1> QED
  BY <1>1, <1>2, <1>3, <1>4, <1>5, <1>6 DEF Lengths

LEMMA WorkTyped == Typed => WorkParts
<1> SUFFICES ASSUME Typed PROVE WorkParts
  OBVIOUS
<1>1. Lengths
  BY LengthsTyped
<1>2. HeldWork \in Nat /\ OutgoingWork \in Nat /\ PanicWork \in Nat
  BY <1>1 DEF Lengths, HeldWork, OutgoingWork, PanicWork
<1>3. QueueWork \in Nat
  BY <1>1, TimesNat DEF Lengths, QueueWork
<1>4. StreamWork \in Nat /\ PipeWork \in Nat
  BY <1>1, TimesNat DEF Lengths, StreamWork, PipeWork
<1>5. ListenerWork \in Nat
  <2>1. listener \in {"accept", "read", "send", "ended"}
    BY DEF Typed, SinkOK
  <2>2. SliceSize + 5 \in Nat
    BY <1>1 DEF Lengths
  <2> QED
    BY <2>1, <2>2 DEF ListenerWork
<1>6. WriterWork \in Nat
  <2>1. writer \in {"idle", "copy", "parse"}
    BY DEF Typed, SinkOK
  <2>2. SliceSize + 2 \in Nat /\ Len(buffer) + 1 \in Nat
    BY <1>1 DEF Lengths
  <2> QED
    BY <2>1, <2>2 DEF WriterWork
<1>7. SourceWork \in Nat
  BY <1>2, <1>3 DEF SourceWork
<1>8. SinkWork \in Nat
  BY <1>2, <1>4, <1>5, <1>6 DEF SinkWork
<1> QED
  BY <1>2, <1>3, <1>4, <1>5, <1>6, <1>7, <1>8 DEF WorkParts

LEMMA LengthsNext == Typed' => Lengths'
  BY LengthsTyped, PTL

LEMMA WorkTypedNext == Typed' => WorkParts'
  BY WorkTyped, PTL

\* How one or two terms take a sum down.
LEMMA SumsFall ==
    /\ \A a, b, c, x \in Nat : x < a => x + b + c < a + b + c /\ b + c + x < b + c + a
    /\ \A a, b, c, d, x \in Nat :
           x < a => /\ x + b + c + d < a + b + c + d /\ b + c + x + d < b + c + a + d
                    /\ b + c + d + x < b + c + d + a
    /\ \A a, b, c, n, x, y \in Nat :
           x + (n + 1) = a /\ y <= b + n => x + y + c < a + b + c
    /\ \A a, b, c, n, x, y \in Nat :
           x + (n + 5) <= b /\ y = c + n + 4 => a + x + y < a + b + c
  OBVIOUS

\* The sending host: a frame goes one place on.
LEMMA SourceWorkFalls ==
    ASSUME Typed, Typed', Push \/ HandleReceiveFromTun
    PROVE  Work' < Work
<1>1. Lengths /\ Lengths' /\ WorkParts /\ WorkParts'
  BY LengthsTyped, LengthsNext, WorkTyped, WorkTypedNext
<1>2. SourceWork \in Nat /\ StreamWork \in Nat /\ SinkWork \in Nat
      /\ SourceWork' \in Nat /\ StreamWork' \in Nat /\ SinkWork' \in Nat
  BY <1>1 DEF WorkParts
<1>3. HeldWork \in Nat /\ QueueWork \in Nat /\ OutgoingWork \in Nat /\ QueueWork' \in Nat
  BY <1>1 DEF WorkParts
<1>4. /\ FrameWork \in Nat /\ QueuedWork = FrameWork + 1
       /\ Times(SliceSize, CellWork) \in Nat /\ FrameWork = Times(SliceSize, CellWork) + 1
  BY <1>1 DEF Lengths
<1>5. UNCHANGED sink
  BY DEF Push, HandleReceiveFromTun, Pull, WriteStream, WriteLost, WriteFails
<1>6. SinkWork' = SinkWork
  BY <1>5 DEF sink, parse, SinkWork, ListenerWork, PipeWork, WriterWork, PanicWork, SliceWork
<1>7. /\ QueueWork' = Times(Len(receivePipe'), QueuedWork)
      /\ StreamWork' = Times(Len(stream'), CellWork)
  BY DEF QueueWork, StreamWork, QueuedWork, FrameWork, CellWork
<1>8. CASE Push
  <2>1. /\ Len(receivePipe') = Len(receivePipe) + 1
        /\ held # 0 /\ held' = 0 /\ UNCHANGED <<outgoing, stream>>
    BY <1>8 DEF Push, Typed, SourceOK
  <2>2. QueueWork' = QueueWork + QueuedWork
    BY <1>1, <1>7, <2>1, TimesNext DEF Lengths, QueueWork
  <2>3. HeldWork = FrameWork + 2 /\ HeldWork' = 0
    BY <2>1 DEF HeldWork
  <2>4. OutgoingWork' = OutgoingWork /\ StreamWork' = StreamWork
    BY <2>1 DEF OutgoingWork, StreamWork, FrameWork, CellWork
  <2>5. SourceWork' = SourceWork - 1
    BY <1>2, <1>3, <1>4, <2>2, <2>3, <2>4 DEF SourceWork
  <2> QED
    BY <1>2, <1>6, <2>4, <2>5, SumsFall DEF Work
<1>9. CASE Pull
  <2>1. /\ outgoing = 0 /\ outgoing' # 0 /\ UNCHANGED <<held, stream>>
        /\ Len(receivePipe) = Len(receivePipe') + 1
    BY <1>9 DEF Pull, Typed, SourceOK
  <2>2. QueueWork = QueueWork' + QueuedWork
    BY <1>1, <1>7, <2>1, TimesNext DEF Lengths, QueueWork
  <2>3. OutgoingWork = 0 /\ OutgoingWork' = FrameWork
    BY <2>1 DEF OutgoingWork, FrameWork, CellWork
  <2>4. HeldWork' = HeldWork /\ StreamWork' = StreamWork
    BY <2>1 DEF HeldWork, StreamWork, FrameWork, CellWork
  <2>5. SourceWork' = SourceWork - 1
    BY <1>2, <1>3, <1>4, <2>2, <2>3, <2>4 DEF SourceWork
  <2> QED
    BY <1>2, <1>6, <2>4, <2>5, SumsFall DEF Work
<1>10. CASE WriteStream \/ WriteLost \/ WriteFails
  <2>1. UNCHANGED <<given, held, receivePipe>> /\ outgoing \in 1 .. Len(given) /\ outgoing' = 0
    BY <1>10 DEF WriteStream, WriteLost, WriteFails, Typed, SourceOK
  <2>2. OutgoingWork = FrameWork /\ OutgoingWork' = 0
    BY <2>1 DEF OutgoingWork
  <2>3. Len(stream') <= Len(stream) + SliceSize
    <3>1. /\ Cells(outgoing) \in Seq(FrameCell) /\ Len(Cells(outgoing)) = given[outgoing]
          /\ given[outgoing] \in Nat /\ given[outgoing] <= SliceSize
      BY <2>1, CellsTyped, TunAssumption DEF Typed
    <3>2. Len(stream) \in Nat /\ SliceSize \in Nat
      BY <1>1 DEF Lengths
    <3>3. CASE WriteStream
      <4>1. stream' = stream \o Cells(outgoing)
        BY <3>3 DEF WriteStream
      <4>2. Len(stream') = Len(stream) + given[outgoing]
        <5>1. stream \in Seq(FrameCell)
          BY DEF Typed, StreamOK
        <5> QED
          BY <3>1, <4>1, <5>1, Joins
      <4> QED
        BY <3>1, <3>2, <4>2
    <3>4. CASE WriteLost
      <4>1. stream' = stream
        BY <3>4 DEF WriteLost
      <4> QED
        BY <3>2, <4>1
    <3>5. CASE WriteFails
      <4>1. PICK k \in 0 .. given[outgoing] - 1 :
                stream' = stream \o SubSeq(Cells(outgoing), 1, k)
        BY <3>5 DEF WriteFails
      <4>2. /\ k \in Nat /\ k <= given[outgoing]
            /\ Len(SubSeq(Cells(outgoing), 1, k)) = k
            /\ SubSeq(Cells(outgoing), 1, k) \in Seq(FrameCell)
        BY <3>1, Splits
      <4>3. Len(stream') = Len(stream) + k
        <5>1. stream \in Seq(FrameCell)
          BY DEF Typed, StreamOK
        <5> QED
          BY <4>1, <4>2, <5>1, Joins
      <4>4. k <= SliceSize
        BY <3>1, <3>2, <4>2
      <4> QED
        BY <3>2, <4>2, <4>3, <4>4
    <3> QED
      BY <1>10, <3>3, <3>4, <3>5
  <2>4. StreamWork' <= StreamWork + Times(SliceSize, CellWork)
    <3>1. /\ Len(stream') \in Nat /\ Len(stream) \in Nat /\ SliceSize \in Nat
          /\ CellWork \in Nat /\ Len(stream) + SliceSize \in Nat
      BY <1>1 DEF Lengths
    <3>2. Times(Len(stream'), CellWork) <= Times(Len(stream) + SliceSize, CellWork)
      BY <2>3, <3>1, TimesOrder
    <3>3. Times(Len(stream) + SliceSize, CellWork) =
              Times(Len(stream), CellWork) + Times(SliceSize, CellWork)
      BY <3>1, TimesAdds
    <3> QED
      BY <1>7, <3>2, <3>3 DEF StreamWork
  <2>5. HeldWork' = HeldWork /\ QueueWork' = QueueWork
    BY <2>1 DEF HeldWork, QueueWork, QueuedWork, FrameWork, CellWork
  <2>6. SourceWork' + (Times(SliceSize, CellWork) + 1) = SourceWork
    BY <1>3, <1>4, <2>2, <2>5 DEF SourceWork
  <2> QED
    BY <1>2, <1>4, <1>6, <2>4, <2>6, SumsFall DEF Work
<1> QED
  BY <1>8, <1>9, <1>10 DEF HandleReceiveFromTun

\* The receiving host: a read takes cells and makes a slice of them, which goes on
\* through the pipe to the parser.
LEMMA SinkWorkFalls ==
    ASSUME Typed, Typed', TcpListenerLoop \/ TunWriteLoop
    PROVE  Work' < Work
<1>1. Lengths /\ Lengths' /\ WorkParts /\ WorkParts'
  BY LengthsTyped, LengthsNext, WorkTyped, WorkTypedNext
<1>2. SourceWork \in Nat /\ StreamWork \in Nat /\ SinkWork \in Nat
      /\ SourceWork' \in Nat /\ StreamWork' \in Nat /\ SinkWork' \in Nat
  BY <1>1 DEF WorkParts
<1>3. /\ ListenerWork \in Nat /\ PipeWork \in Nat /\ WriterWork \in Nat /\ PanicWork \in Nat
      /\ ListenerWork' \in Nat /\ PipeWork' \in Nat /\ WriterWork' \in Nat
  BY <1>1 DEF WorkParts
<1>4. SliceSize \in Nat /\ SliceWork = SliceSize + 3 /\ CellWork = SliceSize + 5
  BY <1>1 DEF Lengths
<1>5. UNCHANGED source
  BY DEF TcpListenerLoop, Accept, Read, ReadFails, SendSlice, TunWriteLoop, TakeSlice, BufferWrite,
     NeedMore, SendFrame, ParsePanics, ParseFails
<1>6. SourceWork' = SourceWork
  BY <1>5 DEF source, SourceWork, HeldWork, QueueWork, OutgoingWork, QueuedWork, FrameWork, CellWork
<1>7. /\ StreamWork' = Times(Len(stream'), CellWork) /\ PipeWork' = Times(refs', SliceWork)
      /\ stream' = stream => StreamWork' = StreamWork
      /\ refs' = refs => PipeWork' = PipeWork
      /\ listener' = listener => ListenerWork' = ListenerWork
      /\ UNCHANGED <<writer, buffer>> => WriterWork' = WriterWork
      /\ dead' = dead => PanicWork' = PanicWork
  BY DEF StreamWork, PipeWork, ListenerWork, WriterWork, PanicWork, CellWork, SliceWork
<1>8. CASE Accept \/ ReadFails
  <2>1. UNCHANGED <<stream, refs, writer, buffer, dead>>
    BY <1>8 DEF Accept, ReadFails, parse
  <2>2. ListenerWork' < ListenerWork
    <3>1. \/ listener = "accept" /\ listener' = "read"
          \/ listener = "read" /\ listener' = "ended"
      BY <1>8 DEF Accept, ReadFails
    <3>2. \/ ListenerWork = 2 /\ ListenerWork' = 1
          \/ ListenerWork = 1 /\ ListenerWork' = 0
      BY <3>1 DEF ListenerWork
    <3> QED
      BY <3>2
  <2>3. UNCHANGED <<StreamWork, PipeWork, WriterWork, PanicWork>>
    BY <1>7, <2>1
  <2>4. SinkWork' < SinkWork
    BY <1>3, <2>2, <2>3, SumsFall DEF SinkWork
  <2> QED
    BY <1>2, <1>6, <2>3, <2>4, SumsFall DEF Work
<1>9. CASE Read
  <2>1. UNCHANGED <<refs, writer, buffer, dead>>
    BY <1>9 DEF Read, parse
  <2>2. ListenerWork = 1 /\ ListenerWork' = SliceSize + 5
    BY <1>9 DEF Read, ListenerWork
  <2>3. Len(stream') + 1 <= Len(stream)
    <3>1. PICK n \in 1 .. SliceSize :
              n <= Len(stream) /\ stream' = SubSeq(stream, n + 1, Len(stream))
      BY <1>9 DEF Read
    <3>2. n \in Nat /\ n >= 1
      BY <1>1, <3>1 DEF Lengths
    <3>3. Len(stream') = Len(stream) - n
      BY <3>1, <3>2, Splits DEF Typed, StreamOK
    <3> QED
      BY <1>1, <3>2, <3>3 DEF Lengths
  <2>4. StreamWork' + (SliceSize + 5) <= StreamWork
    <3>1. Len(stream') \in Nat /\ Len(stream') + 1 \in Nat
      BY <1>1 DEF Lengths
    <3>2. Times(Len(stream') + 1, CellWork) <= Times(Len(stream), CellWork)
      BY <1>1, <2>3, <3>1, TimesOrder DEF Lengths
    <3>3. Times(Len(stream') + 1, CellWork) = Times(Len(stream'), CellWork) + CellWork
      BY <1>1, <3>1, TimesNext DEF Lengths
    <3> QED
      BY <1>7, <1>4, <3>2, <3>3 DEF StreamWork
  <2>5. UNCHANGED <<PipeWork, WriterWork, PanicWork>>
    BY <1>7, <2>1
  <2>6. SinkWork' = SinkWork + SliceSize + 4
    BY <1>3, <1>4, <2>2, <2>5 DEF SinkWork
  <2> QED
    BY <1>2, <1>4, <1>6, <2>4, <2>6, SumsFall DEF Work
<1>10. CASE SendSlice
  <2>1. UNCHANGED <<stream, writer, buffer, dead>> /\ refs' = refs + 1
    BY <1>10 DEF SendSlice, parse
  <2>2. ListenerWork = SliceSize + 5 /\ ListenerWork' = 1
    BY <1>10 DEF SendSlice, ListenerWork
  <2>3. PipeWork' = PipeWork + SliceWork
    BY <1>1, <1>7, <2>1, TimesNext DEF Lengths, PipeWork
  <2>4. UNCHANGED <<StreamWork, WriterWork, PanicWork>>
    BY <1>7, <2>1
  <2>5. SinkWork' < SinkWork
    BY <1>3, <1>4, <2>2, <2>3, <2>4 DEF SinkWork
  <2> QED
    BY <1>2, <1>6, <2>4, <2>5, SumsFall DEF Work
<1>11. CASE TakeSlice
  <2>1. UNCHANGED <<stream, listener, dead>> /\ refs' = refs - 1
    BY <1>11 DEF TakeSlice, parse
  <2>2. WriterWork = 0 /\ WriterWork' = SliceSize + 2
    BY <1>11 DEF TakeSlice, WriterWork
  <2>3. PipeWork = PipeWork' + SliceWork
    <3>1. refs = refs' + 1 /\ refs' \in Nat
      BY <1>1, <2>1 DEF Lengths
    <3> QED
      BY <1>1, <1>7, <3>1, TimesNext DEF Lengths, PipeWork
  <2>4. UNCHANGED <<StreamWork, ListenerWork, PanicWork>>
    BY <1>7, <2>1
  <2>5. SinkWork' = SinkWork - 1
    BY <1>2, <1>3, <1>4, <2>2, <2>3, <2>4 DEF SinkWork
  <2> QED
    BY <1>2, <1>6, <2>4, <2>5, SumsFall DEF Work
<1>12. CASE BufferWrite
  <2>1. UNCHANGED <<stream, listener, refs>> /\ ~dead
    BY <1>12 DEF BufferWrite
  <2>2. UNCHANGED <<StreamWork, ListenerWork, PipeWork>>
    BY <1>7, <2>1
  <2>3. CASE dead' = TRUE /\ UNCHANGED <<buffer, writer>>
    <3>1. PanicWork = 1 /\ PanicWork' = 0
      BY <2>1, <2>3 DEF PanicWork
    <3>2. WriterWork' = WriterWork
      BY <1>7, <2>3
    <3>3. SinkWork' < SinkWork
      BY <1>3, <2>2, <3>1, <3>2, SumsFall DEF SinkWork
    <3> QED
      BY <1>2, <1>6, <2>2, <3>3, SumsFall DEF Work
  <2>4. CASE writer' = "parse" /\ dead' = dead
    <3>1. Len(buffer') \in Nat /\ Len(buffer') <= SliceSize
      <4>1. Len(buffer') \in Nat
        BY <1>1 DEF Lengths
      <4>2. Len(buffer') <= SliceSize
        BY <1>1 DEF Typed, ParseOK
      <4> QED
        BY <4>1, <4>2
    <3>2. WriterWork = SliceSize + 2 /\ WriterWork' = Len(buffer') + 1
      <4>1. writer = "copy"
        BY <1>12 DEF BufferWrite
      <4> QED
        BY <2>4, <4>1 DEF WriterWork
    <3>3. PanicWork' = PanicWork
      BY <1>7, <2>4
    <3>4. WriterWork' < WriterWork
      BY <1>4, <3>1, <3>2
    <3>5. SinkWork' < SinkWork
      BY <1>3, <2>2, <3>3, <3>4, SumsFall DEF SinkWork
    <3> QED
      BY <1>2, <1>6, <2>2, <3>5, SumsFall DEF Work
  <2> QED
    BY <1>12, <2>3, <2>4 DEF BufferWrite
<1>13. CASE NeedMore \/ SendFrame \/ ParseFails
  <2>1. UNCHANGED <<stream, listener, refs, dead>>
    BY <1>13 DEF NeedMore, SendFrame, ParseFails, parse
  <2>2. WriterWork = Len(buffer) + 1
    <3>1. writer = "parse"
      BY <1>13 DEF NeedMore, SendFrame, ParseFails, Parsing
    <3> QED
      BY <3>1 DEF WriterWork
  <2>3. WriterWork' < WriterWork
    <3>1. CASE NeedMore \/ ParseFails
      <4>1. WriterWork' = 0
        BY <3>1 DEF NeedMore, ParseFails, WriterWork
      <4> QED
        BY <1>1, <2>2, <4>1 DEF Lengths
    <3>2. CASE SendFrame
      <4>1. PICK n \in TotalLen :
                n >= 2 /\ n <= Len(buffer) /\ buffer' = SubSeq(buffer, n + 1, Len(buffer))
        BY <3>2 DEF SendFrame
      <4>2. n \in Nat
        BY <4>1, TunAssumption DEF TotalLen
      <4>3. Len(buffer') = Len(buffer) - n
        BY <4>1, <4>2, Splits DEF Typed, ParseOK
      <4>4. WriterWork' = Len(buffer') + 1
        BY <3>2 DEF SendFrame, Parsing, WriterWork
      <4> QED
        BY <1>1, <2>2, <4>1, <4>2, <4>3, <4>4 DEF Lengths
    <3> QED
      BY <1>13, <3>1, <3>2
  <2>4. UNCHANGED <<StreamWork, ListenerWork, PipeWork, PanicWork>>
    BY <1>7, <2>1
  <2>5. SinkWork' < SinkWork
    BY <1>3, <2>3, <2>4, SumsFall DEF SinkWork
  <2> QED
    BY <1>2, <1>6, <2>4, <2>5, SumsFall DEF Work
<1>14. CASE ParsePanics
  <2>1. UNCHANGED <<stream, listener, refs, writer, buffer>> /\ ~dead /\ dead'
    BY <1>14 DEF ParsePanics, Parsing
  <2>2. UNCHANGED <<StreamWork, ListenerWork, PipeWork, WriterWork>>
    BY <1>7, <2>1
  <2>3. PanicWork = 1 /\ PanicWork' = 0
    BY <2>1 DEF PanicWork
  <2>4. SinkWork' < SinkWork
    BY <1>3, <2>2, <2>3, SumsFall DEF SinkWork
  <2> QED
    BY <1>2, <1>6, <2>2, <2>4, SumsFall DEF Work
<1> QED
  BY <1>8, <1>9, <1>10, <1>11, <1>12, <1>13, <1>14 DEF TcpListenerLoop, TunWriteLoop

LEMMA WorkStep ==
    ASSUME Typed, Typed', [Next]_vars
    PROVE  WorkFalls
<1>1. Goroutine => Work' < Work
  BY SourceWorkFalls, SinkWorkFalls DEF Goroutine
<1>2. Work \in Int /\ Work' \in Int
  <2>1. WorkParts /\ WorkParts'
    BY WorkTyped, WorkTypedNext
  <2> QED
    BY <2>1 DEF Work, WorkParts
<1>3. CASE Connect \/ Break \/ UNCHANGED vars
  <2>1. UNCHANGED <<held, receivePipe, outgoing, stream, listener, refs, writer, buffer, dead>>
    BY <1>3 DEF Connect, Break, vars, source, sink, parse
  <2>2. Work' = Work
    BY <2>1 DEF Work, SourceWork, SinkWork, HeldWork, QueueWork, OutgoingWork, StreamWork, ListenerWork, PipeWork,
       WriterWork, PanicWork, QueuedWork, FrameWork, CellWork, SliceWork
  <2> QED
    BY <1>1, <1>2, <2>2 DEF WorkFalls
<1>4. CASE AcceptFails
  <2>1. /\ UNCHANGED <<SourceWork, StreamWork, ListenerWork, PipeWork, WriterWork>>
        /\ PanicWork' = 0 /\ PanicWork = 1
    <3>1. UNCHANGED <<held, receivePipe, outgoing, stream, listener, refs, writer, buffer>> /\ ~dead /\ dead'
      BY <1>4 DEF AcceptFails, source
    <3> QED
      BY <3>1 DEF SourceWork, HeldWork, QueueWork, OutgoingWork, StreamWork, ListenerWork, PipeWork, WriterWork,
         PanicWork, QueuedWork, FrameWork, CellWork, SliceWork
  <2>2. Work' <= Work
    <3>1. WorkParts /\ WorkParts'
      BY WorkTyped, WorkTypedNext
    <3> QED
      BY <2>1, <3>1 DEF Work, SinkWork, WorkParts
  <2> QED
    BY <1>1, <2>2 DEF WorkFalls
<1> QED
  BY <1>1, <1>2, <1>3, <1>4 DEF WorkFalls, Next, Goroutine

LEMMA EndedStep == EndedBroken /\ [Next]_vars => EndedBroken'
<1> SUFFICES ASSUME EndedBroken, [Next]_vars PROVE EndedBroken'
  OBVIOUS
<1>1. (broken => broken') /\ (dead => dead')
  <2>1. CASE Break
    BY <2>1 DEF Break, sink, parse
  <2>2. CASE BufferWrite \/ ParsePanics \/ AcceptFails
    BY <2>2 DEF BufferWrite, ParsePanics, Parsing, AcceptFails
  <2>3. CASE DeviceRead \/ Push \/ Connect \/ HandleReceiveFromTun
    BY <2>3 DEF DeviceRead, Push, Connect, HandleReceiveFromTun, Pull, WriteStream, WriteLost,
       WriteFails, sink, parse
  <2>4. CASE TcpListenerLoop
    <3>1. broken' = broken /\ parse' = parse
      BY <2>4 DEF TcpListenerLoop, Accept, Read, ReadFails, SendSlice
    <3> QED
      BY <3>1 DEF parse
  <2>5. CASE TakeSlice \/ NeedMore \/ SendFrame \/ ParseFails
    <3>1. broken' = broken /\ (dead' = dead \/ parse' = parse)
      BY <2>5 DEF TakeSlice, NeedMore, SendFrame, ParseFails
    <3> QED
      BY <3>1 DEF parse
  <2>6. CASE UNCHANGED vars
    BY <2>6 DEF vars, sink, parse
  <2> QED
    BY <2>1, <2>2, <2>3, <2>4, <2>5, <2>6 DEF Next, TunWriteLoop
<1>2. sender' = "ended" => sender = "ended" \/ broken \/ dead
  BY DEF Next, DeviceRead, Push, Connect, HandleReceiveFromTun, Pull, WriteStream, WriteLost,
     WriteFails, Break, TcpListenerLoop, AcceptFails, Accept, Read, ReadFails, SendSlice, TunWriteLoop, TakeSlice,
     BufferWrite, NeedMore, SendFrame, ParsePanics, ParseFails, vars, source
<1>3. listener' = "ended" => listener = "ended" \/ broken
  BY DEF Next, DeviceRead, Push, Connect, HandleReceiveFromTun, Pull, WriteStream, WriteLost,
     WriteFails, Break, TcpListenerLoop, AcceptFails, Accept, Read, ReadFails, SendSlice, TunWriteLoop, TakeSlice,
     BufferWrite, NeedMore, SendFrame, ParsePanics, ParseFails, vars, sink
<1> QED
  BY <1>1, <1>2, <1>3 DEF EndedBroken

\* When no goroutine can go on, nothing is left in either host or on the way.
LEMMA AtRestAllOut ==
    ASSUME Typed, Ordered, CleanInv, EndedBroken
    PROVE  FramesGoOut
<1> SUFFICES ASSUME clean, ~broken, sender # "dial", ~Going
             PROVE  out = Len(given)
  BY DEF FramesGoOut
<1>1. Delivering
  BY DEF CleanInv
<1>2. ~dead /\ PipeInOrder
  BY <1>1 DEF Delivering, Ordered
<1>3. sender = "receive" /\ outgoing = 0 /\ receivePipe = <<>>
  BY <1>2 DEF Typed, SourceOK, Going, EndedBroken
<1>4. held = 0
  <2>1. Len(receivePipe) = 0 /\ PipeSize \in Nat /\ PipeSize > 0
    BY <1>3, TunAssumption
  <2> QED
    BY <2>1 DEF Going
<1>5. Written = Len(given)
  <2>1. Len(receivePipe) = 0 /\ Outgoing = 0 /\ Held = 0 /\ Len(given) \in Nat
    BY <1>3, <1>4 DEF Outgoing, Held, Typed, SourceOK
  <2> QED
    BY <1>2, <2>1 DEF PipeInOrder
<1>6. writer = "idle" /\ refs = 0
  <2>1. writer = "idle" /\ ~(refs > 0)
    BY <1>2 DEF Typed, SinkOK, Going
  <2> QED
    BY <2>1, LengthsTyped DEF Lengths
<1>7. listener = "read" /\ stream = <<>>
  <2>1. refs < PipeSize
    BY <1>6, TunAssumption
  <2> QED
    BY <1>2, <2>1 DEF Typed, SinkOK, Going, EndedBroken
<1>8. Taken = out
  <2>1. buffer = <<>>
    BY <1>1, <1>6 DEF Delivering, InBuffer
  <2>2. Sent = 0 /\ Copying = 0 /\ Loaded = 0
    BY <1>6, <1>7, <2>1 DEF Sent, Copying, Loaded
  <2> QED
    BY <1>6, <2>2, Counts DEF Taken
<1> QED
  BY <1>1, <1>5, <1>7, <1>8 DEF Delivering, InStream

\* As long as reads are clean and the connection stays, a frame that the device
\* gave is out, or some goroutine can go on; and whatever frames, reads and breaks
\* there were, each step of a goroutine leaves strictly less to do while only a new
\* frame adds to it: the loops come to rest, with every frame of a clean pipeline
\* out, for any sizes of frames, slice and pipes (main.go:82-90, 200-220,
\* tun.go:208-284).
THEOREM TunFramesGoOut == Spec => []FramesGoOut /\ [][WorkFalls]_vars
<1>1. Init => EndedBroken
  BY DEF Init, EndedBroken
<1>2. Typed /\ Ordered /\ CleanInv /\ EndedBroken => FramesGoOut
  BY AtRestAllOut
<1>3. Typed /\ Typed' /\ [Next]_vars => [WorkFalls]_vars
  BY WorkStep
<1> QED
  BY <1>1, <1>2, <1>3, EndedStep, SpecTyped, SpecOrdered, SpecClean, PTL DEF Spec
===============================================================================
