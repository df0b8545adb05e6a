----------------------------- MODULE UartProofs -----------------------------
(***************************************************************************)
(* The lengths and heads of the two ring buffers stay in bounds, and the   *)
(* bytes in order unless the handler strikes inside one of the windows of  *)
(* the program's loads and stores, for every size of the buffers and of    *)
(* the receiver's FIFO.                                                    *)
(***************************************************************************)
EXTENDS Uart, TLAPS

Ring == [buffer : [Index -> Nat], head : 0 .. Size, len : 0 .. Size]

Typed == /\ recv \in Ring /\ tran \in Ring
         /\ fifo \in Seq(Nat) /\ arrived \in Nat /\ queued \in Nat

\* What the program knows of async_recv between its accesses.  The handler only
\* adds to len, so a len that was not 0 stays so; a copy of it is in bounds.
ReaderKnows ==
    /\ recv.head \in (IF pc \in {"readTake", "readWrap"} THEN 1 .. Size ELSE Index)
    /\ pc = "readLoad" => recv.len > 0
    /\ pc = "readStore" => reg \in 1 .. Size
    /\ pc \in {"readNext", "readTake"} => reg \in Index

\* And of async_tran.  The handler only takes from len, so the room that
\* async_send_data waited for stays until it is used.
WriterKnows ==
    /\ tran.head \in Index
    /\ pc \in {"sendHead", "sendIndex", "sendWrite", "sendLoad"} => tran.len < Size
    /\ pc \in {"sendIndex", "sendWrite", "sendStore"} => reg \in Index

UInv == Typed /\ ReaderKnows /\ WriterKnows
-----------------------------------------------------------------------------
\* The place of a byte is inside the buffer.
LEMMA IdxInBuffer ==
  ASSUME NEW h \in Nat, NEW n \in Nat
  PROVE  Idx(h, n) \in Index
BY UartAssumption DEF Idx, Index

\* A head within the buffer leaves a ring.
LEMMA RingHead ==
  ASSUME NEW b \in Ring, NEW h \in 0 .. Size
  PROVE  /\ [b EXCEPT !.head = h] \in Ring
         /\ [b EXCEPT !.head = h].head = h
BY DEF Ring

\* A byte put into the buffer, and counted, leaves a ring.
LEMMA RingByte ==
  ASSUME NEW b \in Ring, NEW n \in 0 .. Size, NEW i \in Index, NEW x \in Nat
  PROVE  /\ [b EXCEPT !.buffer[i] = x] \in Ring
         /\ [b EXCEPT !.buffer[i] = x, !.len = n] \in Ring
<1>1. [b.buffer EXCEPT ![i] = x] \in [Index -> Nat]
  BY DEF Ring
<1> QED BY <1>1 DEF Ring

\* The invariant holds when init_uart returns.
LEMMA InitUInv == UInit => UInv
<1> SUFFICES ASSUME UInit PROVE UInv
  OBVIOUS
<1>1. EmptyBuffer \in Ring /\ EmptyBuffer.head = 0
  BY UartAssumption DEF EmptyBuffer, Ring
<1>2. Typed
  BY <1>1 DEF UInit, Typed
<1>3. ReaderKnows /\ WriterKnows
  BY <1>1, UartAssumption DEF UInit, ReaderKnows, WriterKnows, Index
<1> QED BY <1>2, <1>3 DEF UInv

\* The steps of a call to async_read_data.
LEMMA ReadSteps ==
  ASSUME UInv, \/ ReadWait \/ ReadLoad \/ ReadStore \/ ReadHead \/ ReadNext \/ ReadTake
               \/ ReadWrap \/ ReadTest
  PROVE  UInv'
<1> USE DEF UInv, Typed, ReaderKnows, WriterKnows, Goto, hardware
<1>1. CASE ReadWait
  BY <1>1 DEF ReadWait, Ring
<1>2. CASE ReadLoad
  BY <1>2 DEF ReadLoad, Ring
<1>3. CASE ReadStore
  <2>1. reg - 1 \in 0 .. Size
    BY <1>3, UartAssumption DEF ReadStore
  <2>2. recv' \in Ring /\ recv'.head = recv.head
    BY <1>3, <2>1 DEF ReadStore, Ring
  <2> QED BY <1>3, <2>2 DEF ReadStore
<1>4. CASE ReadNext
  <2>1. reg + 1 \in 1 .. Size
    BY <1>4, UartAssumption, SMTT(30) DEF ReadNext, Index
  <2>2. recv' \in Ring /\ recv'.head = reg + 1
    <3>1. recv' = [recv EXCEPT !.head = reg + 1]
      BY <1>4 DEF ReadNext
    <3>2. reg + 1 \in 0 .. Size
      BY <2>1, UartAssumption
    <3> HIDE DEF ReaderKnows, WriterKnows
    <3> QED BY <3>1, <3>2, RingHead
  <2> QED BY <1>4, <2>1, <2>2 DEF ReadNext
<1>5. CASE ReadWrap
  <2>1. recv.head % Size \in Index
    BY UartAssumption, SMTT(30) DEF Ring, Index
  <2>2. recv' \in Ring /\ recv'.head = recv.head % Size
    <3>1. recv' = [recv EXCEPT !.head = recv.head % Size]
      BY <1>5 DEF ReadWrap
    <3>2. recv.head % Size \in 0 .. Size
      BY <2>1, UartAssumption DEF Index
    <3> HIDE DEF ReaderKnows, WriterKnows
    <3> QED BY <3>1, <3>2, RingHead
  <2> QED BY <1>5, <2>1, <2>2 DEF ReadWrap
<1>6. CASE ReadTest
  BY <1>6 DEF ReadTest
<1>7. CASE ReadHead
  BY <1>7 DEF ReadHead
<1>8. CASE ReadTake
  BY <1>8 DEF ReadTake
<1> QED BY <1>1, <1>2, <1>3, <1>4, <1>5, <1>6, <1>7, <1>8

\* The steps of a call to async_send_data.
LEMMA SendSteps ==
  ASSUME UInv, SendWait \/ SendHead \/ SendIndex \/ SendWrite \/ SendLoad \/ SendStore
               \/ SendTest
  PROVE  UInv'
<1> USE DEF UInv, Typed, ReaderKnows, WriterKnows, Goto, hardware
<1>1. CASE SendWait
  BY <1>1 DEF SendWait
<1>2. CASE SendHead
  BY <1>2 DEF SendHead
<1>3. CASE SendIndex
  <2>1. Idx(reg, tran.len) \in Index
    BY <1>3, IdxInBuffer, SMTT(30) DEF SendIndex, Ring, Index
  <2> QED BY <1>3, <2>1 DEF SendIndex
<1>4. CASE SendWrite
  <2>1. queued + 1 \in Nat /\ 0 \in 0 .. Size
    BY UartAssumption
  <2>2. tran' \in Ring /\ tran'.head = tran.head /\ tran'.len = tran.len
    BY <1>4, <2>1, RingByte DEF SendWrite, Ring
  <2> QED BY <1>4, <2>1, <2>2 DEF SendWrite
<1>5. CASE SendLoad
  <2>1. pc = "sendLoad" /\ pc' = "sendStore" /\ reg' = tran.len
    BY <1>5 DEF SendLoad
  <2>2. tran.len \in Index
    BY <2>1, UartAssumption DEF Ring, Index
  <2> QED BY <1>5, <2>1, <2>2 DEF SendLoad
<1>6. CASE SendStore
  <2>1. reg + 1 \in 0 .. Size
    BY <1>6, UartAssumption DEF SendStore, Index
  <2>2. tran' \in Ring /\ tran'.head = tran.head
    BY <1>6, <2>1 DEF SendStore, Ring
  <2> QED BY <1>6, <2>2 DEF SendStore
<1>7. CASE SendTest
  BY <1>7 DEF SendTest
<1> QED BY <1>1, <1>2, <1>3, <1>4, <1>5, <1>6, <1>7

\* Calls, returns and the updates of AUX_MU_IER_REG.
LEMMA CallSteps ==
  ASSUME UInv,
         \/ Calls \/ ReadDone \/ SendDone
         \/ IerLoad("readIer", "readIerStore") \/ IerStore("readIerStore", "readDone", "rx")
         \/ IerLoad("sendIer", "sendIerStore") \/ IerStore("sendIerStore", "sendDone", "tx")
  PROVE  UInv'
<1> USE DEF UInv, Typed, ReaderKnows, WriterKnows, Goto, hardware
<1>1. CASE Calls
  BY <1>1 DEF Calls
<1>2. CASE ReadDone
  BY <1>2 DEF ReadDone
<1>3. CASE SendDone
  BY <1>3 DEF SendDone
<1>4. CASE IerLoad("readIer", "readIerStore")
  BY <1>4 DEF IerLoad
<1>5. CASE IerStore("readIerStore", "readDone", "rx")
  BY <1>5 DEF IerStore
<1>6. CASE IerLoad("sendIer", "sendIerStore")
  BY <1>6 DEF IerLoad
<1>7. CASE IerStore("sendIerStore", "sendDone", "tx")
  BY <1>7 DEF IerStore
<1> QED BY <1>1, <1>2, <1>3, <1>4, <1>5, <1>6, <1>7

\* The handler and the hardware; the program stands still.
LEMMA HandlerSteps ==
  ASSUME UInv, Irq("rx") \/ Irq("tx") \/ Handler \/ Arrive \/ Drain
  PROVE  UInv'
<1> USE DEF UInv, Typed, ReaderKnows, WriterKnows, hardware, program
<1>1. CASE Irq("rx") \/ Irq("tx")
  BY <1>1 DEF Irq
<1>2. CASE ReceiveFull
  BY <1>2 DEF ReceiveFull
<1>3. CASE Receive
  <2>1. Head(fifo) \in Nat /\ Tail(fifo) \in Seq(Nat)
    BY <1>3 DEF Receive
  <2>2. recv.len + 1 \in 0 .. Size
    BY <1>3, UartAssumption, SMTT(30) DEF Receive, Ring
  <2>3. Idx(recv.head, recv.len) \in Index
    BY IdxInBuffer DEF Ring
  <2>4. /\ recv' \in Ring /\ recv'.head = recv.head
        /\ recv'.len = recv.len + 1
    <3> DEFINE i == Idx(recv.head, recv.len)
               x == Head(fifo)
    <3>1. recv' = [recv EXCEPT !.buffer[i] = x, !.len = recv.len + 1]
      BY <1>3 DEF Receive, Ring
    <3> HIDE DEF i, x
    <3> QED BY <2>1, <2>2, <2>3, <3>1, RingByte DEF Ring, i, x
  <2>5. recv.len \in Nat
    BY DEF Ring
  <2> QED BY <1>3, <2>1, <2>4, <2>5 DEF Receive
<1>4. CASE TransmitEmpty
  BY <1>4 DEF TransmitEmpty
<1>5. CASE Transmit
  <2>1. (tran.head + 1) % Size \in Index
    BY UartAssumption DEF Index
  <2>2. tran.len \in 0 .. Size /\ tran.len - 1 \in 0 .. Size
    BY <1>5, UartAssumption DEF Transmit, Ring
  <2>3. /\ tran' \in Ring /\ tran'.head = (tran.head + 1) % Size
        /\ tran'.len = tran.len - 1
    <3> DEFINE h == (tran.head + 1) % Size
               n == tran.len - 1
    <3>1. tran' = [tran EXCEPT !.head = h, !.len = n]
      BY <1>5 DEF Transmit
    <3>2. h \in 0 .. Size
      BY <2>1, UartAssumption DEF Index
    <3>3. tran \in Ring /\ n \in 0 .. Size
      BY <2>2
    <3> HIDE DEF h, n, ReaderKnows, WriterKnows
    <3>4. tran' \in Ring /\ tran'.head = h /\ tran'.len = n
      BY <3>1, <3>2, <3>3 DEF Ring
    <3> QED BY <3>4 DEF h, n
  <2> QED BY <1>5, <2>1, <2>2, <2>3, UartAssumption DEF Transmit
<1>6. CASE HandlerEnd
  BY <1>6 DEF HandlerEnd
<1>7. CASE Arrive
  BY <1>7 DEF Arrive
<1>8. CASE Drain
  BY <1>8 DEF Drain
<1> QED BY <1>1, <1>2, <1>3, <1>4, <1>5, <1>6, <1>7, <1>8 DEF Handler

\* One step of any kind.
LEMMA NextUInv == UInv /\ [UNext]_uvars => UInv'
<1> SUFFICES ASSUME UInv, [UNext]_uvars PROVE UInv'
  OBVIOUS
<1>1. CASE UNext
  BY <1>1, ReadSteps, SendSteps, CallSteps, HandlerSteps DEF UNext, Program
<1>2. CASE UNCHANGED uvars
  BY <1>2 DEF uvars, UInv, Typed, ReaderKnows, WriterKnows
<1> QED BY <1>1, <1>2

\* "it won't since len can't >= ASYNC_BUFFER_SIZE": with one program neither len
\* ever leaves 0 to Size, and neither head leaves the buffer.
THEOREM LengthsStayInBounds == USpec => []LenInBounds
<1>1. UInv => LenInBounds
  BY DEF UInv, Typed, ReaderKnows, WriterKnows, Ring, LenInBounds
<1> QED BY <1>1, InitUInv, NextUInv, PTL DEF USpec
-----------------------------------------------------------------------------
(* The bytes a program sends leave in their order, each once, as long as   *)
(* the handler takes none while the program holds a copy of head or len.   *)

\* The bytes async_send_data has written, whether it has counted them or not.
Written == IF pc \in {"sendLoad", "sendStore"} THEN tran.len + 1 ELSE tran.len

\* The program's copies are still what they are copies of.  The place of the new
\* byte stays the right one while the handler sends: head and len change together.
CopiesFresh ==
    /\ pc = "sendIndex" => reg = tran.head
    /\ pc = "sendWrite" => reg = Idx(tran.head, tran.len)
    /\ pc = "sendStore" => reg = tran.len

\* What is on the wire and what is in the buffer, byte by byte.
WireThenBuffer ==
    /\ wire \in Seq(Nat)
    /\ Len(wire) + Written = queued
    /\ \A i \in 1 .. Len(wire) : wire[i] = i
    /\ \A k \in 0 .. Written - 1 :
          tran.buffer[Idx(tran.head, k)] = Len(wire) + k + 1

OInv == UInv /\ ("tx" \notin struck => CopiesFresh /\ WireThenBuffer)
-----------------------------------------------------------------------------
\* What UInv says of async_tran, in the form the steps use.
LEMMA RingTypes ==
  ASSUME UInv
  PROVE  /\ tran \in Ring /\ tran.head \in Index /\ tran.len \in 0 .. Size
         /\ tran.buffer \in [Index -> Nat]
         /\ pc \in {"sendHead", "sendIndex", "sendWrite", "sendLoad"} =>
                tran.len \in 0 .. Size - 1
         /\ pc = "sendStore" => reg \in 0 .. Size - 1
         /\ queued \in Nat
<1>1. tran \in Ring /\ tran.head \in Index /\ queued \in Nat
  BY DEF UInv, Typed, WriterKnows
<1>2. tran.len \in 0 .. Size /\ tran.buffer \in [Index -> Nat]
  BY <1>1 DEF Ring
<1>3. pc \in {"sendHead", "sendIndex", "sendWrite", "sendLoad"} => tran.len \in 0 .. Size - 1
  BY <1>2, UartAssumption DEF UInv, WriterKnows
<1>4. pc = "sendStore" => reg \in 0 .. Size - 1
  BY DEF UInv, WriterKnows, Index
<1> QED BY <1>1, <1>2, <1>3, <1>4

\* The place of a byte is inside the buffer.
LEMMA IdxIn ==
  ASSUME NEW h \in Index, NEW k \in 0 .. Size
  PROVE  Idx(h, k) \in Index
<1>1. h \in Nat /\ k \in Nat
  BY UartAssumption DEF Index
<1> QED BY <1>1, IdxInBuffer

\* A head plus a length wraps around at most once.
LEMMA IdxWraps ==
  ASSUME NEW h \in Index, NEW k \in 0 .. Size
  PROVE  Idx(h, k) = IF h + k < Size THEN h + k ELSE h + k - Size
<1>1. Size \in Nat /\ Size > 0 /\ h \in Nat /\ k \in Nat /\ h < Size /\ k <= Size
  BY UartAssumption DEF Index
<1>2. CASE h + k < Size
  <2>1. (h + k) % Size = h + k
    BY <1>1, <1>2
  <2> QED BY <1>2, <2>1 DEF Idx
<1>3. CASE h + k >= Size
  <2>1. (h + k) % Size = h + k - Size
    BY <1>1, <1>3
  <2> QED BY <1>1, <1>3, <2>1 DEF Idx
<1> QED BY <1>1, <1>2, <1>3

\* Moving the head one on and shortening the length by one is the same place.
LEMMA IdxOfNext ==
  ASSUME NEW h \in Index, NEW k \in 0 .. Size - 1
  PROVE  /\ Idx(h, 1) \in Index
         /\ Idx(Idx(h, 1), k) = Idx(h, k + 1)
<1>1. Size \in Nat /\ Size > 0 /\ h \in Nat /\ k \in Nat /\ h < Size /\ k < Size
  BY UartAssumption DEF Index
<1>2. Idx(h, 1) \in Index
  BY <1>1, IdxInBuffer
<1>3. Idx(h, 1) = IF h + 1 < Size THEN h + 1 ELSE h + 1 - Size
  BY <1>1, IdxWraps
<1>4. Idx(h, k + 1) = IF h + k + 1 < Size THEN h + k + 1 ELSE h + k + 1 - Size
  BY <1>1, IdxWraps
<1>5. Idx(Idx(h, 1), k) = IF Idx(h, 1) + k < Size THEN Idx(h, 1) + k
                          ELSE Idx(h, 1) + k - Size
  BY <1>1, <1>2, IdxWraps
<1> QED BY <1>1, <1>2, <1>3, <1>4, <1>5 DEF Index

\* The places of a buffer that is not full, and the next one, are different.
LEMMA IdxDiffers ==
  ASSUME NEW h \in Index, NEW j \in 0 .. Size - 1, NEW k \in 0 .. Size - 1, j # k
  PROVE  Idx(h, j) # Idx(h, k)
BY IdxWraps, UartAssumption DEF Index

\* The index head = 0, length 0 is the head itself.
LEMMA IdxOfHead == \A h \in Index : Idx(h, 0) = h
BY IdxWraps, UartAssumption DEF Index
-----------------------------------------------------------------------------
\* Nothing was sent when init_uart returns.
LEMMA InitOInv == UInit => OInv
<1> SUFFICES ASSUME UInit PROVE OInv
  OBVIOUS
<1>1. pc = "idle" /\ queued = 0 /\ wire = <<>> /\ tran.len = 0
  BY DEF UInit, EmptyBuffer
<1>2. CopiesFresh /\ WireThenBuffer
  BY <1>1 DEF CopiesFresh, WireThenBuffer, Written
<1> QED BY <1>2, InitUInv DEF OInv

\* A step that neither moves a byte nor enters or leaves async_send_data's code.
LEMMA Elsewhere ==
  ASSUME OInv, UInv', UNCHANGED <<tran, queued, wire, struck>>,
         pc \notin {"sendIndex", "sendWrite", "sendLoad", "sendStore"},
         pc' \notin {"sendIndex", "sendWrite", "sendLoad", "sendStore"}
  PROVE  OInv'
BY DEF OInv, CopiesFresh, WireThenBuffer, Written

\* The rest of what a program does.
LEMMA ProgramElsewhere ==
  ASSUME OInv, UInv',
         \/ Calls \/ ReadDone \/ SendDone \/ SendWait \/ SendTest
         \/ ReadWait \/ ReadLoad \/ ReadStore \/ ReadHead \/ ReadNext \/ ReadTake
         \/ ReadWrap \/ ReadTest
         \/ IerLoad("readIer", "readIerStore") \/ IerStore("readIerStore", "readDone", "rx")
         \/ IerLoad("sendIer", "sendIerStore") \/ IerStore("sendIerStore", "sendDone", "tx")
  PROVE  OInv'
<1>1. UNCHANGED <<tran, queued, wire, struck>>
  BY DEF Calls, ReadDone, SendDone, SendWait, SendTest, ReadWait, ReadLoad, ReadStore,
         ReadHead, ReadNext, ReadTake, ReadWrap, ReadTest, IerLoad, IerStore, hardware
<1>2. /\ pc \notin {"sendIndex", "sendWrite", "sendLoad", "sendStore"}
      /\ pc' \notin {"sendIndex", "sendWrite", "sendLoad", "sendStore"}
  BY DEF Calls, ReadDone, SendDone, SendWait, SendTest, ReadWait, ReadLoad, ReadStore,
         ReadHead, ReadNext, ReadTake, ReadWrap, ReadTest, IerLoad, IerStore, Goto
<1> QED BY <1>1, <1>2, Elsewhere

\* async_send_data, from the load of head to the store of len.
LEMMA SendOrder ==
  ASSUME OInv, UInv', SendHead \/ SendIndex \/ SendWrite \/ SendLoad \/ SendStore
  PROVE  OInv'
<1>1. UNCHANGED <<wire, struck>>
  BY DEF SendHead, SendIndex, SendWrite, SendLoad, SendStore, hardware
<1> SUFFICES ASSUME "tx" \notin struck PROVE CopiesFresh' /\ WireThenBuffer'
  BY <1>1 DEF OInv
<1>2. CopiesFresh /\ WireThenBuffer
  BY DEF OInv
<1>3. CASE SendHead
  BY <1>1, <1>2, <1>3 DEF SendHead, Goto, CopiesFresh, WireThenBuffer, Written
<1>4. CASE SendIndex
  BY <1>1, <1>2, <1>4 DEF SendIndex, Goto, CopiesFresh, WireThenBuffer, Written
<1>5. CASE SendWrite
  <2>1. pc = "sendWrite" /\ pc' = "sendLoad" /\ queued' = queued + 1
    BY <1>5 DEF SendWrite, Goto
  <2>2. /\ tran \in Ring /\ tran.head \in Index /\ tran.len \in 0 .. Size - 1
        /\ tran.buffer \in [Index -> Nat] /\ queued \in Nat
    BY <2>1, RingTypes DEF OInv
  <2>3. reg = Idx(tran.head, tran.len) /\ reg \in Index
    <3>1. tran.len \in 0 .. Size
      BY <2>2, UartAssumption
    <3> QED BY <1>2, <2>1, <2>2, <3>1, IdxIn DEF CopiesFresh
  <2>4. /\ tran'.head = tran.head /\ tran'.len = tran.len
        /\ tran'.buffer = [tran.buffer EXCEPT ![reg] = queued + 1]
    BY <1>5, <2>2 DEF SendWrite, Ring
  <2>5. Written = tran.len /\ Written' = tran.len + 1
    BY <2>1, <2>4 DEF Written
  <2>6. CopiesFresh'
    BY <2>1 DEF CopiesFresh
  <2>7. ASSUME NEW k \in 0 .. Written' - 1
        PROVE  tran'.buffer[Idx(tran'.head, k)] = Len(wire) + k + 1
    <3>1. k \in 0 .. Size - 1 /\ k \in 0 .. Size
      BY <2>2, <2>5, UartAssumption
    <3>2. Idx(tran.head, k) \in Index
      BY <2>2, <3>1, IdxIn
    <3>3. CASE k = tran.len
      BY <1>2, <2>2, <2>3, <2>4, <2>5, <3>3 DEF WireThenBuffer
    <3>4. CASE k # tran.len
      <4>1. k \in 0 .. Written - 1
        BY <2>2, <2>5, <3>4
      <4>2. Idx(tran.head, k) # reg
        BY <2>2, <2>3, <3>1, <3>4, IdxDiffers
      <4>3. tran'.buffer[Idx(tran'.head, k)] = tran.buffer[Idx(tran.head, k)]
        BY <2>2, <2>4, <3>2, <4>2
      <4> QED BY <1>2, <4>1, <4>3 DEF WireThenBuffer
    <3> QED BY <3>3, <3>4
  <2>8. Len(wire) + Written' = queued'
    <3>1. Len(wire) \in Nat /\ Len(wire) + tran.len = queued
      BY <1>2, <2>5 DEF WireThenBuffer
    <3> QED BY <2>1, <2>2, <2>5, <3>1
  <2> QED BY <1>1, <1>2, <2>6, <2>7, <2>8 DEF WireThenBuffer
<1>6. CASE SendLoad
  BY <1>1, <1>2, <1>6 DEF SendLoad, Goto, CopiesFresh, WireThenBuffer, Written
<1>7. CASE SendStore
  <2>1. pc = "sendStore" /\ pc' = "sendTest" /\ queued' = queued
    BY <1>7 DEF SendStore, Goto
  <2>2. tran' = [tran EXCEPT !.len = reg + 1] /\ reg = tran.len
    BY <1>2, <1>7, <2>1 DEF SendStore, CopiesFresh
  <2>3. /\ tran'.head = tran.head /\ tran'.buffer = tran.buffer
        /\ tran'.len = tran.len + 1
    BY <2>2 DEF OInv, UInv, Typed, Ring
  <2>4. Written' = Written
    BY <2>1, <2>3 DEF Written
  <2> QED BY <1>1, <1>2, <2>1, <2>3, <2>4 DEF CopiesFresh, WireThenBuffer
<1> QED BY <1>3, <1>4, <1>5, <1>6, <1>7

\* The handler sends the byte at the head.  In a window it is recorded; outside
\* one the copies stay fresh.
LEMMA TransmitOrder ==
  ASSUME OInv, UInv', Transmit
  PROVE  OInv'
<1>1. struck' = IF InSendWindow THEN struck \cup {"tx"} ELSE struck
  BY DEF Transmit
<1> SUFFICES ASSUME "tx" \notin struck, ~ InSendWindow
             PROVE  CopiesFresh' /\ WireThenBuffer'
  BY <1>1 DEF OInv
<1>2. CopiesFresh /\ WireThenBuffer
  BY DEF OInv
<1>3. /\ tran \in Ring /\ tran.head \in Index /\ tran.len \in 1 .. Size
      /\ pc = "sendLoad" => tran.len < Size
      /\ tran.buffer \in [Index -> Nat]
  <2>1. tran.len > 0
    BY DEF Transmit
  <2> QED BY <2>1, RingTypes, UartAssumption DEF OInv
<1>4. UNCHANGED <<pc, reg, queued>>
  BY DEF Transmit, program
<1>5. /\ tran'.head = Idx(tran.head, 1) /\ tran'.len = tran.len - 1
      /\ tran'.buffer = tran.buffer
  BY <1>3 DEF Transmit, Ring, Idx
<1>6. wire' = Append(wire, tran.buffer[tran.head])
  BY DEF Transmit
<1>7. Written' = Written - 1 /\ Written \in 1 .. Size
  BY <1>3, <1>4, <1>5, UartAssumption DEF Written, InSendWindow
<1>8. CopiesFresh'
  <2>1. ASSUME pc = "sendWrite" PROVE reg = Idx(tran'.head, tran'.len)
    <3>1. tran.len - 1 \in 0 .. Size - 1
      BY <1>3, UartAssumption
    <3>2. Idx(tran'.head, tran'.len) = Idx(tran.head, tran.len - 1 + 1)
      BY <1>3, <1>5, <3>1, IdxOfNext
    <3> QED BY <1>2, <1>3, <2>1, <3>2 DEF CopiesFresh
  <2> QED BY <1>4, <2>1 DEF CopiesFresh, InSendWindow
<1>9. tran.buffer[tran.head] = Len(wire) + 1 /\ Len(wire) \in Nat
  <2>1. tran.buffer[Idx(tran.head, 0)] = Len(wire) + 0 + 1
    BY <1>2, <1>7 DEF WireThenBuffer
  <2>2. Len(wire) \in Nat
    BY <1>2 DEF WireThenBuffer
  <2> QED BY <1>3, <2>1, <2>2, IdxOfHead
<1>10. /\ wire' \in Seq(Nat) /\ Len(wire') = Len(wire) + 1
       /\ \A i \in 1 .. Len(wire') : wire'[i] = i
  BY <1>2, <1>6, <1>9 DEF WireThenBuffer
<1>11. ASSUME NEW k \in 0 .. Written' - 1
       PROVE  tran'.buffer[Idx(tran'.head, k)] = Len(wire') + k + 1
  <2>1. k \in 0 .. Size - 1 /\ k + 1 \in 0 .. Written - 1
    BY <1>7, UartAssumption
  <2>2. Idx(tran'.head, k) = Idx(tran.head, k + 1)
    BY <1>3, <1>5, <2>1, IdxOfNext
  <2>3. tran.buffer[Idx(tran.head, k + 1)] = Len(wire) + (k + 1) + 1
    BY <1>2, <2>1 DEF WireThenBuffer
  <2> QED BY <1>5, <1>9, <1>10, <2>1, <2>2, <2>3
<1>12. Len(wire') + Written' = queued'
  BY <1>2, <1>4, <1>7, <1>9, <1>10 DEF WireThenBuffer
<1> QED BY <1>8, <1>10, <1>11, <1>12 DEF WireThenBuffer

\* The rest of the handler and the hardware touch neither.
LEMMA OthersOrder ==
  ASSUME OInv, UInv',
         \/ Irq("rx") \/ Irq("tx") \/ ReceiveFull \/ Receive \/ TransmitEmpty
         \/ HandlerEnd \/ Arrive \/ Drain
  PROVE  OInv'
<1>1. UNCHANGED <<tran, queued, wire, pc, reg>>
  BY DEF Irq, ReceiveFull, Receive, TransmitEmpty, HandlerEnd, Arrive, Drain, hardware,
         program
<1>2. "tx" \in struck' <=> "tx" \in struck
  BY DEF Irq, ReceiveFull, Receive, TransmitEmpty, HandlerEnd, Arrive, Drain
<1> QED BY <1>1, <1>2 DEF OInv, CopiesFresh, WireThenBuffer, Written

\* One step of any kind.
LEMMA NextOInv == OInv /\ [UNext]_uvars => OInv'
<1> SUFFICES ASSUME OInv, [UNext]_uvars PROVE OInv'
  OBVIOUS
<1>1. UInv'
  BY NextUInv DEF OInv
<1>2. CASE UNext
  BY <1>1, <1>2, ProgramElsewhere, SendOrder, TransmitOrder, OthersOrder
     DEF UNext, Program, Handler
<1>3. CASE UNCHANGED uvars
  BY <1>1, <1>3 DEF uvars, OInv, CopiesFresh, WireThenBuffer, Written
<1> QED BY <1>2, <1>3

\* From bytes to sequences.
LEMMA OInvGivesOrder == OInv => SentInOrder
<1> SUFFICES ASSUME OInv, "tx" \notin struck
             PROVE  wire \o Items(tran, Written) = [i \in 1 .. queued |-> i]
  BY DEF SentInOrder, Written
<1>1. /\ wire \in Seq(Nat) /\ Len(wire) + Written = queued
      /\ \A i \in 1 .. Len(wire) : wire[i] = i
      /\ \A k \in 0 .. Written - 1 :
            tran.buffer[Idx(tran.head, k)] = Len(wire) + k + 1
  BY DEF OInv, WireThenBuffer
<1>2. tran.head \in Index /\ tran.len \in 0 .. Size /\ Written \in Nat
  BY DEF OInv, UInv, Typed, WriterKnows, Ring, Written
<1>3. \A i \in 1 .. Written : Items(tran, Written)[i] = Len(wire) + i
  <2> SUFFICES ASSUME NEW i \in 1 .. Written
               PROVE  Items(tran, Written)[i] = Len(wire) + i
    OBVIOUS
  <2>1. i - 1 \in 0 .. Written - 1 /\ tran.head + i - 1 = tran.head + (i - 1)
    BY <1>2 DEF Index
  <2>2. Items(tran, Written)[i] = tran.buffer[Idx(tran.head, i - 1)]
    BY <2>1 DEF Items, Idx
  <2> QED BY <1>1, <1>2, <2>1, <2>2
<1>4. Items(tran, Written) \in Seq(Nat) /\ Len(Items(tran, Written)) = Written
  BY <1>1, <1>2, <1>3 DEF Items
<1>5. ASSUME NEW s \in Seq(Nat), Len(s) = queued, \A i \in 1 .. queued : s[i] = i
      PROVE  s = [i \in 1 .. queued |-> i]
  BY <1>5
<1> DEFINE items == Items(tran, Written)
<1> HIDE DEF items
<1>6. /\ items \in Seq(Nat) /\ Len(items) = Written
      /\ \A i \in 1 .. Written : items[i] = Len(wire) + i
  BY <1>3, <1>4 DEF items
<1>7. wire \o items \in Seq(Nat) /\ Len(wire \o items) = queued
  BY <1>1, <1>6
<1>8. \A i \in 1 .. queued : (wire \o items)[i] = i
  BY <1>1, <1>2, <1>6
<1> QED BY <1>5, <1>7, <1>8 DEF items

\* "idx = (head + len) % ASYNC_BUFFER_SIZE", then "len++": what the program sends
\* is sent in its order, nothing twice and nothing left out, for every size of
\* the buffer and every interleaving with the handler in which it takes no byte
\* in a window of async_send_data.
THEOREM BytesSentInOrder == USpec => []SentInOrder
<1> QED BY InitOInv, NextOInv, OInvGivesOrder, PTL DEF USpec
-----------------------------------------------------------------------------
(* The bytes that arrive are read in their order, each once, as long as    *)
(* the handler adds none in a window of async_read_data.                   *)

\* The bytes that have left the buffer: the one async_read_data has moved head
\* past and not yet loaded is in the program's hand.
Taken == IF pc = "readTake" THEN Len(got) + 1 ELSE Len(got)

\* The bytes of the buffer that the program has still to take.
Unread == IF pc \in {"readHead", "readNext"} THEN recv.len + 1 ELSE recv.len

\* The program's copies are still what they are copies of, and the byte in its
\* hand is still at its place.
LenFresh == /\ pc = "readStore" => reg = recv.len
            /\ pc \in {"readHead", "readNext", "readTake"} => recv.len < Size
            /\ pc = "readNext" => reg = recv.head
            /\ pc = "readTake" => reg + 1 = recv.head /\ recv.buffer[reg] = Taken

\* What was read, what the buffer holds, what waits in the receiver.
GotBufferFifo ==
    /\ got \in Seq(Nat)
    /\ Taken + Unread + Len(fifo) = arrived
    /\ \A i \in 1 .. Len(got) : got[i] = i
    /\ \A k \in 0 .. Unread - 1 : recv.buffer[Idx(recv.head, k)] = Taken + k + 1
    /\ \A i \in 1 .. Len(fifo) : fifo[i] = Taken + Unread + i

RInv == UInv /\ ("rx" \notin struck => LenFresh /\ GotBufferFifo)
-----------------------------------------------------------------------------
\* What UInv says of async_recv and the receiver.
LEMMA ReadTypes ==
  ASSUME UInv
  PROVE  /\ recv \in Ring /\ recv.head \in 0 .. Size /\ recv.len \in 0 .. Size
         /\ recv.buffer \in [Index -> Nat]
         /\ pc \notin {"readTake", "readWrap"} => recv.head \in Index
         /\ pc = "readStore" => reg \in 1 .. Size
         /\ pc \in {"readNext", "readTake"} => reg \in Index
         /\ fifo \in Seq(Nat) /\ arrived \in Nat
<1>1. recv \in Ring /\ fifo \in Seq(Nat) /\ arrived \in Nat
  BY DEF UInv, Typed
<1>2. recv.head \in 0 .. Size /\ recv.len \in 0 .. Size /\ recv.buffer \in [Index -> Nat]
  BY <1>1 DEF Ring
<1>3. /\ pc \notin {"readTake", "readWrap"} => recv.head \in Index
      /\ pc = "readStore" => reg \in 1 .. Size
      /\ pc \in {"readNext", "readTake"} => reg \in Index
  BY DEF UInv, ReaderKnows
<1> QED BY <1>1, <1>2, <1>3

\* A head, which may be one behind the end, plus a length wraps at most once.
LEMMA EndWraps ==
  ASSUME NEW h \in 0 .. Size, NEW k \in 0 .. Size, h + k < 2 * Size
  PROVE  Idx(h, k) = IF h + k < Size THEN h + k ELSE h + k - Size
<1>1. Size \in Nat /\ Size > 0 /\ h \in Nat /\ k \in Nat
  BY UartAssumption
<1>2. CASE h + k < Size
  <2>1. (h + k) % Size = h + k
    BY <1>1, <1>2
  <2> QED BY <1>2, <2>1 DEF Idx
<1>3. CASE h + k >= Size
  <2>1. (h + k) % Size = h + k - Size
    BY <1>1, <1>3
  <2> QED BY <1>1, <1>3, <2>1 DEF Idx
<1> QED BY <1>1, <1>2, <1>3

\* The place of a byte is inside the buffer, also from the end.
LEMMA EndIn ==
  ASSUME NEW h \in 0 .. Size, NEW k \in 0 .. Size
  PROVE  Idx(h, k) \in Index
<1>1. h \in Nat /\ k \in Nat
  BY UartAssumption
<1> QED BY <1>1, IdxInBuffer

\* The places of a buffer that is not full, and the next one, are different.
LEMMA EndDiffers ==
  ASSUME NEW h \in 0 .. Size, NEW j \in 0 .. Size - 1, NEW k \in 0 .. Size - 1, j # k
  PROVE  Idx(h, j) # Idx(h, k)
BY EndWraps, UartAssumption

\* head++, and the test that brings it back to 0.
LEMMA HeadMoves ==
  ASSUME NEW h \in Index, NEW k \in 0 .. Size - 1
  PROVE  Idx(h, 0) = h /\ Idx(h + 1, k) = Idx(h, k + 1)
BY EndWraps, UartAssumption DEF Index

\* A head behind the end is the head at 0.
LEMMA HeadWraps ==
  ASSUME NEW h \in 0 .. Size, NEW k \in 0 .. Size - 1
  PROVE  Idx(h % Size, k) = Idx(h, k)
<1>1. Size \in Nat /\ Size > 0 /\ h \in Nat /\ k \in Nat /\ k < Size
  BY UartAssumption
<1>2. CASE h < Size
  <2>1. h % Size = h
    BY <1>1, <1>2
  <2> QED BY <2>1
<1>3. CASE h = Size
  <2>1. h % Size = 0
    BY <1>1, <1>3
  <2>2. Idx(0, k) = k /\ Idx(h, k) = k
    BY <1>1, <1>3, EndWraps
  <2> QED BY <2>1, <2>2
<1> QED BY <1>1, <1>2, <1>3
-----------------------------------------------------------------------------
\* Nothing has arrived when init_uart returns.
LEMMA InitRInv == UInit => RInv
<1> SUFFICES ASSUME UInit PROVE RInv
  OBVIOUS
<1>1. /\ pc = "idle" /\ arrived = 0 /\ got = <<>> /\ fifo = <<>>
      /\ recv.len = 0
  BY DEF UInit, EmptyBuffer
<1>2. LenFresh /\ GotBufferFifo
  BY <1>1 DEF LenFresh, GotBufferFifo, Unread, Taken
<1> QED BY <1>2, InitUInv DEF RInv

\* Steps of the program outside the code that changes async_recv.
LEMMA ProgramNotReading ==
  ASSUME RInv, UInv',
         \/ Calls \/ ReadDone \/ SendDone \/ ReadWait \/ ReadTest
         \/ SendWait \/ SendHead \/ SendIndex \/ SendWrite \/ SendLoad \/ SendStore
         \/ SendTest
         \/ IerLoad("readIer", "readIerStore") \/ IerStore("readIerStore", "readDone", "rx")
         \/ IerLoad("sendIer", "sendIerStore") \/ IerStore("sendIerStore", "sendDone", "tx")
  PROVE  RInv'
<1>1. UNCHANGED <<recv, got, fifo, arrived, struck>>
  BY DEF Calls, ReadDone, SendDone, ReadWait, ReadTest, SendWait, SendHead, SendIndex,
         SendWrite, SendLoad, SendStore, SendTest, IerLoad, IerStore, hardware
<1>2. /\ pc \notin {"readStore", "readHead", "readNext", "readTake"}
      /\ pc' \notin {"readStore", "readHead", "readNext", "readTake"}
  BY DEF Calls, ReadDone, SendDone, ReadWait, ReadTest, SendWait, SendHead, SendIndex,
         SendWrite, SendLoad, SendStore, SendTest, IerLoad, IerStore, Goto
<1> QED BY <1>1, <1>2 DEF RInv, LenFresh, GotBufferFifo, Unread, Taken

\* async_read_data, from the load of len to the wrap of head.
LEMMA ReadOrder ==
  ASSUME RInv, UInv',
         ReadLoad \/ ReadStore \/ ReadHead \/ ReadNext \/ ReadTake \/ ReadWrap
  PROVE  RInv'
<1>1. UNCHANGED <<fifo, arrived, struck>>
  BY DEF ReadLoad, ReadStore, ReadHead, ReadNext, ReadTake, ReadWrap, hardware
<1> SUFFICES ASSUME "rx" \notin struck PROVE LenFresh' /\ GotBufferFifo'
  BY <1>1 DEF RInv
<1>2. LenFresh /\ GotBufferFifo
  BY DEF RInv
<1>3. /\ recv \in Ring /\ recv.head \in 0 .. Size /\ recv.len \in 0 .. Size
      /\ pc \notin {"readTake", "readWrap"} => recv.head \in Index
      /\ pc = "readStore" => reg \in 1 .. Size
      /\ pc \in {"readNext", "readTake"} => reg \in Index
      /\ fifo \in Seq(Nat) /\ arrived \in Nat
  BY ReadTypes DEF RInv
<1>4. CASE ReadLoad
  BY <1>1, <1>2, <1>4 DEF ReadLoad, Goto, LenFresh, GotBufferFifo, Unread, Taken
<1>5. CASE ReadStore
  <2>1. pc = "readStore" /\ pc' = "readHead" /\ got' = got
    BY <1>5 DEF ReadStore, Goto
  <2>2. /\ recv'.head = recv.head /\ recv'.buffer = recv.buffer
        /\ recv'.len = recv.len - 1 /\ recv.len \in 1 .. Size
    BY <1>2, <1>3, <1>5, <2>1 DEF ReadStore, Ring, LenFresh
  <2>3. Unread' = Unread /\ Taken' = Taken
    BY <2>1, <2>2 DEF Unread, Taken
  <2>4. LenFresh'
    BY <2>1, <2>2, UartAssumption DEF LenFresh
  <2> QED BY <1>1, <1>2, <2>1, <2>2, <2>3, <2>4 DEF GotBufferFifo
<1>6. CASE ReadNext
  <2>1. pc = "readNext" /\ pc' = "readTake" /\ UNCHANGED <<got, reg>>
    BY <1>6 DEF ReadNext, Goto
  <2>2. /\ recv'.head = recv.head + 1 /\ recv'.buffer = recv.buffer
        /\ recv'.len = recv.len /\ recv.len \in 0 .. Size - 1
        /\ recv.head \in Index /\ reg = recv.head
    BY <1>2, <1>3, <1>6, <2>1, UartAssumption DEF ReadNext, Ring, LenFresh
  <2>3. Unread = recv.len + 1 /\ Unread' = recv.len
    BY <2>1, <2>2 DEF Unread
  <2>4. Taken = Len(got) /\ Taken' = Len(got) + 1 /\ Len(got) \in Nat
    BY <1>2, <2>1 DEF Taken, GotBufferFifo
  <2>5. recv.buffer[recv.head] = Taken'
    <3>1. recv.buffer[Idx(recv.head, 0)] = Taken + 0 + 1
      BY <1>2, <2>2, <2>3 DEF GotBufferFifo
    <3>2. Idx(recv.head, 0) = recv.head
      BY <2>2, UartAssumption, HeadMoves
    <3> QED BY <2>4, <3>1, <3>2
  <2>6. ASSUME NEW k \in 0 .. Unread' - 1
        PROVE  recv'.buffer[Idx(recv'.head, k)] = Taken' + k + 1
    <3>1. k \in 0 .. Size - 1 /\ k + 1 \in 0 .. Unread - 1
      BY <2>2, <2>3, UartAssumption
    <3>2. recv.buffer[Idx(recv.head, k + 1)] = Taken + (k + 1) + 1
      BY <1>2, <3>1 DEF GotBufferFifo
    <3>3. Idx(recv'.head, k) = Idx(recv.head, k + 1)
      BY <2>2, <3>1, HeadMoves
    <3> QED BY <2>2, <2>4, <3>1, <3>2, <3>3
  <2>7. Taken' + Unread' = Taken + Unread /\ Taken + Unread \in Nat
    BY <2>2, <2>3, <2>4, UartAssumption
  <2>8. Taken' + Unread' + Len(fifo') = arrived'
    BY <1>1, <1>2, <2>7 DEF GotBufferFifo
  <2>9. \A i \in 1 .. Len(fifo') : fifo'[i] = Taken' + Unread' + i
    <3>1. \A i \in 1 .. Len(fifo) : fifo[i] = Taken + Unread + i
      BY <1>2 DEF GotBufferFifo
    <3> QED BY <1>1, <2>7, <3>1
  <2>10. LenFresh'
    BY <2>1, <2>2, <2>5, UartAssumption DEF LenFresh
  <2> QED BY <1>2, <2>1, <2>6, <2>8, <2>9, <2>10 DEF GotBufferFifo
<1>8. CASE ReadHead
  <2>1. pc = "readHead" /\ pc' = "readNext" /\ reg' = recv.head /\ UNCHANGED <<recv, got>>
    BY <1>8 DEF ReadHead, Goto
  <2>2. Unread' = Unread /\ Taken' = Taken
    BY <2>1 DEF Unread, Taken
  <2>3. LenFresh'
    BY <1>2, <2>1 DEF LenFresh
  <2> QED BY <1>1, <1>2, <2>1, <2>2, <2>3 DEF GotBufferFifo
<1>9. CASE ReadTake
  <2>1. pc = "readTake" /\ pc' = "readWrap" /\ UNCHANGED recv
    BY <1>9 DEF ReadTake, Goto
  <2>2. Len(got) \in Nat /\ recv.buffer[reg] = Len(got) + 1
    BY <1>2, <2>1 DEF LenFresh, GotBufferFifo, Taken
  <2>3. got' = Append(got, Len(got) + 1)
    BY <1>9, <2>2 DEF ReadTake
  <2>4. /\ got' \in Seq(Nat) /\ Len(got') = Len(got) + 1
        /\ \A i \in 1 .. Len(got') : got'[i] = i
    BY <1>2, <2>2, <2>3 DEF GotBufferFifo
  <2>5. Unread' = Unread /\ Taken' = Taken
    BY <2>1, <2>4 DEF Unread, Taken
  <2>6. LenFresh'
    BY <2>1 DEF LenFresh
  <2> QED BY <1>1, <1>2, <2>1, <2>4, <2>5, <2>6 DEF GotBufferFifo
<1>7. CASE ReadWrap
  <2>1. pc = "readWrap" /\ pc' = "readTest" /\ got' = got
    BY <1>7 DEF ReadWrap, Goto
  <2>2. /\ recv'.head = recv.head % Size /\ recv'.buffer = recv.buffer
        /\ recv'.len = recv.len
    BY <1>3, <1>7 DEF ReadWrap, Ring
  <2>3. Unread' = recv.len /\ Unread = recv.len /\ Taken' = Taken
    BY <2>1, <2>2 DEF Unread, Taken
  <2>4. ASSUME NEW k \in 0 .. recv.len - 1
        PROVE  recv'.buffer[Idx(recv'.head, k)] = Taken' + k + 1
    <3>1. k \in 0 .. Size - 1 /\ k \in 0 .. Unread - 1
      BY <1>3, <2>3, UartAssumption
    <3>2. recv.buffer[Idx(recv.head, k)] = Taken + k + 1
      BY <1>2, <3>1 DEF GotBufferFifo
    <3>3. Idx(recv'.head, k) = Idx(recv.head, k)
      BY <1>3, <2>2, <3>1, HeadWraps
    <3> QED BY <2>2, <2>3, <3>2, <3>3
  <2>5. LenFresh'
    BY <2>1 DEF LenFresh
  <2> QED BY <1>1, <1>2, <2>1, <2>3, <2>4, <2>5 DEF GotBufferFifo
<1> QED BY <1>4, <1>5, <1>6, <1>7, <1>8, <1>9

\* The handler adds the receiver's first byte behind the last of the buffer.
LEMMA ReceiveOrder ==
  ASSUME RInv, UInv', Receive
  PROVE  RInv'
<1>1. struck' = IF InReadWindow THEN struck \cup {"rx"} ELSE struck
  BY DEF Receive
<1> SUFFICES ASSUME "rx" \notin struck, ~ InReadWindow
             PROVE  LenFresh' /\ GotBufferFifo'
  BY <1>1 DEF RInv
<1>2. LenFresh /\ GotBufferFifo
  BY DEF RInv
<1>3. /\ UNCHANGED <<pc, reg, arrived, got>>
      /\ fifo # <<>> /\ fifo' = Tail(fifo) /\ recv.len < Size
  BY DEF Receive, program
<1>4. /\ recv \in Ring /\ recv.head \in 0 .. Size /\ recv.len \in 0 .. Size - 1
      /\ recv.buffer \in [Index -> Nat] /\ fifo \in Seq(Nat) /\ arrived \in Nat
  BY <1>3, ReadTypes, UartAssumption DEF RInv
<1>5. Idx(recv.head, recv.len) \in Index
  <2>1. recv.len \in 0 .. Size
    BY <1>4, UartAssumption
  <2> QED BY <1>4, <2>1, EndIn
<1>6. /\ recv'.head = recv.head /\ recv'.len = recv.len + 1
      /\ recv'.buffer = [recv.buffer EXCEPT ![Idx(recv.head, recv.len)] = Head(fifo)]
  BY <1>4 DEF Receive, Ring
<1>7. Unread = recv.len /\ Unread' = recv.len + 1 /\ Taken' = Taken
  BY <1>3, <1>6 DEF Unread, Taken, InReadWindow
<1>8. LenFresh'
  <2>1. CASE pc = "readTake"
    <3>1. /\ recv.len < Size - 1 /\ reg + 1 = recv.head /\ reg \in Index
          /\ recv.buffer[reg] = Taken
      BY <1>2, <1>4, <2>1, ReadTypes, UartAssumption DEF InReadWindow, LenFresh, RInv
    <3>2. /\ Idx(recv.head, recv.len) = Idx(reg, recv.len + 1)
          /\ Idx(reg, 0) = reg
      BY <1>4, <3>1, UartAssumption, HeadMoves
    <3>3. recv.len + 1 \in 0 .. Size - 1 /\ 0 \in 0 .. Size - 1 /\ recv.len + 1 # 0
      BY <1>4, <3>1, UartAssumption
    <3>4. Idx(recv.head, recv.len) # reg
      BY <3>1, <3>2, <3>3, IdxDiffers
    <3>5. recv'.buffer[reg] = Taken'
      <4>1. recv'.buffer[reg] = recv.buffer[reg]
        BY <1>4, <1>6, <3>1, <3>4
      <4> QED BY <1>7, <3>1, <4>1
    <3> QED BY <1>3, <1>4, <1>6, <2>1, <3>1, <3>5, UartAssumption DEF LenFresh
  <2>2. CASE pc # "readTake"
    BY <1>3, <2>2 DEF LenFresh, InReadWindow
  <2> QED BY <2>1, <2>2
<1>9. /\ Taken \in Nat /\ Len(fifo) \in Nat \ {0} /\ Len(fifo') = Len(fifo) - 1
      /\ Head(fifo) = fifo[1] /\ \A i \in 1 .. Len(fifo') : fifo'[i] = fifo[i + 1]
  BY <1>2, <1>3, <1>4 DEF GotBufferFifo, Taken
<1>10. Head(fifo) = Taken + recv.len + 1
  BY <1>2, <1>7, <1>9 DEF GotBufferFifo
<1>11. ASSUME NEW k \in 0 .. Unread' - 1
       PROVE  recv'.buffer[Idx(recv'.head, k)] = Taken' + k + 1
  <2>1. k \in 0 .. Size - 1 /\ k \in 0 .. Size
    BY <1>4, <1>7, UartAssumption
  <2>2. Idx(recv.head, k) \in Index
    BY <1>4, <2>1, EndIn
  <2>3. CASE k = recv.len
    BY <1>4, <1>5, <1>6, <1>7, <1>10, <2>3
  <2>4. CASE k # recv.len
    <3>1. k \in 0 .. Unread - 1
      BY <1>4, <1>7, <2>4
    <3>2. Idx(recv.head, k) # Idx(recv.head, recv.len)
      BY <1>4, <2>1, <2>4, EndDiffers
    <3>3. recv'.buffer[Idx(recv'.head, k)] = recv.buffer[Idx(recv.head, k)]
      BY <1>4, <1>6, <2>2, <3>2
    <3> QED BY <1>2, <1>7, <3>1, <3>3 DEF GotBufferFifo
  <2> QED BY <2>3, <2>4
<1>12. Taken' + Unread' + Len(fifo') = arrived
  <2>1. Taken + Unread + Len(fifo) = arrived
    BY <1>2 DEF GotBufferFifo
  <2>2. recv.len \in Nat /\ Taken \in Nat /\ Len(fifo) \in Nat
    BY <1>4, <1>9, UartAssumption
  <2> HIDE DEF Taken, Unread
  <2> QED BY <2>1, <2>2, <1>7, <1>9
<1>13. ASSUME NEW i \in 1 .. Len(fifo')
       PROVE  fifo'[i] = Taken' + Unread' + i
  <2>1. i + 1 \in 1 .. Len(fifo) /\ fifo'[i] = fifo[i + 1]
    BY <1>9
  <2>2. fifo[i + 1] = Taken + Unread + (i + 1)
    BY <1>2, <2>1 DEF GotBufferFifo
  <2> DEFINE g == Taken
             u == Unread
             v == Unread'
  <2>3. i \in Nat /\ u \in Nat /\ v = u + 1 /\ g \in Nat
    BY <1>4, <1>7, <1>9, UartAssumption
  <2> HIDE DEF g, u, v
  <2>4. g + u + (i + 1) = g + v + i
    BY <2>3
  <2> QED BY <1>7, <2>1, <2>2, <2>4 DEF g, u, v
<1> QED BY <1>2, <1>3, <1>8, <1>11, <1>12, <1>13 DEF GotBufferFifo

\* A byte comes in.
LEMMA ArriveOrder ==
  ASSUME RInv, UInv', Arrive
  PROVE  RInv'
<1>1. /\ UNCHANGED <<pc, reg, recv, got, struck>> /\ arrived' = arrived + 1
      /\ fifo' = Append(fifo, arrived + 1)
  BY DEF Arrive, program
<1> SUFFICES ASSUME "rx" \notin struck PROVE LenFresh' /\ GotBufferFifo'
  BY <1>1 DEF RInv
<1>2. LenFresh /\ GotBufferFifo
  BY DEF RInv
<1>3. recv.len \in 0 .. Size /\ fifo \in Seq(Nat) /\ arrived \in Nat
  BY ReadTypes DEF RInv
<1>4. Unread \in Nat /\ Unread' = Unread /\ Taken' = Taken
  BY <1>1, <1>3 DEF Unread, Taken
<1>5. Taken \in Nat /\ Taken + Unread + Len(fifo) = arrived
  BY <1>2 DEF GotBufferFifo, Taken
<1>6. /\ Len(fifo) \in Nat /\ Len(fifo') = Len(fifo) + 1
      /\ \A i \in 1 .. Len(fifo') : fifo'[i] = IF i <= Len(fifo) THEN fifo[i] ELSE arrived + 1
  BY <1>1, <1>3
<1>7. \A i \in 1 .. Len(fifo') : fifo'[i] = Taken + Unread + i
  <2>1. \A i \in 1 .. Len(fifo) : fifo[i] = Taken + Unread + i
    BY <1>2 DEF GotBufferFifo
  <2>2. \A i \in 1 .. Len(fifo') : i <= Len(fifo) => i \in 1 .. Len(fifo)
    BY <1>6
  <2>3. \A i \in 1 .. Len(fifo') : ~ i <= Len(fifo) => arrived + 1 = Taken + Unread + i
    BY <1>4, <1>5, <1>6
  <2> QED BY <1>6, <2>1, <2>2, <2>3
<1>8. Taken + Unread + Len(fifo') = arrived'
  <2> DEFINE g == Taken
             u == Unread
             n == Len(fifo)
  <2>1. g \in Nat /\ u \in Nat /\ n \in Nat /\ g + u + n = arrived
    BY <1>4, <1>5, <1>6
  <2> HIDE DEF g, u, n
  <2>2. g + u + (n + 1) = arrived + 1
    BY <2>1
  <2> QED BY <1>1, <1>6, <2>2 DEF g, u, n
<1> QED BY <1>1, <1>2, <1>4, <1>7, <1>8 DEF LenFresh, GotBufferFifo

\* The rest of the handler and the hardware touch none of it.
LEMMA OthersLeaveReading ==
  ASSUME RInv, UInv',
         Irq("rx") \/ Irq("tx") \/ ReceiveFull \/ TransmitEmpty \/ Transmit \/ HandlerEnd \/ Drain
  PROVE  RInv'
<1>1. UNCHANGED <<recv, got, fifo, arrived, pc, reg>>
  BY DEF Irq, ReceiveFull, TransmitEmpty, Transmit, HandlerEnd, Drain, hardware, program
<1>2. "rx" \in struck' <=> "rx" \in struck
  BY DEF Irq, ReceiveFull, TransmitEmpty, Transmit, HandlerEnd, Drain
<1> QED BY <1>1, <1>2 DEF RInv, LenFresh, GotBufferFifo, Unread, Taken

\* One step of any kind.
LEMMA NextRInv == RInv /\ [UNext]_uvars => RInv'
<1> SUFFICES ASSUME RInv, [UNext]_uvars PROVE RInv'
  OBVIOUS
<1>1. UInv'
  BY NextUInv DEF RInv
<1>2. CASE UNext
  BY <1>1, <1>2, ProgramNotReading, ReadOrder, ReceiveOrder, ArriveOrder, OthersLeaveReading
     DEF UNext, Program, Handler
<1>3. CASE UNCHANGED uvars
  BY <1>1, <1>3 DEF uvars, RInv, LenFresh, GotBufferFifo, Unread, Taken
<1> QED BY <1>2, <1>3

\* Numbers that go on where the first sequence ends.
LEMMA JoinedNumbers ==
  ASSUME NEW s \in Seq(Nat), NEW t \in Seq(Nat),
         \A i \in 1 .. Len(s) : s[i] = i,
         \A i \in 1 .. Len(t) : t[i] = Len(s) + i
  PROVE  /\ s \o t \in Seq(Nat) /\ Len(s \o t) = Len(s) + Len(t)
         /\ \A i \in 1 .. Len(s) + Len(t) : (s \o t)[i] = i
OBVIOUS

\* From bytes to sequences.
LEMMA RInvGivesOrder == RInv => ReadInOrder
<1> DEFINE hand == IF pc = "readTake" THEN <<recv.buffer[reg]>> ELSE <<>>
           items == Items(recv, Unread)
<1> SUFFICES ASSUME RInv, "rx" \notin struck
             PROVE  got \o hand \o items \o fifo = [i \in 1 .. arrived |-> i]
  BY DEF ReadInOrder, Unread
<1>1. /\ got \in Seq(Nat) /\ Taken + Unread + Len(fifo) = arrived
      /\ \A i \in 1 .. Len(got) : got[i] = i
      /\ \A k \in 0 .. Unread - 1 : recv.buffer[Idx(recv.head, k)] = Taken + k + 1
      /\ \A i \in 1 .. Len(fifo) : fifo[i] = Taken + Unread + i
  BY DEF RInv, GotBufferFifo
<1>2. /\ recv.head \in 0 .. Size /\ fifo \in Seq(Nat) /\ Unread \in Nat
      /\ Taken \in Nat
  BY <1>1, ReadTypes DEF RInv, Unread, Taken
<1>3. /\ hand \in Seq(Nat) /\ Len(got) + Len(hand) = Taken
      /\ \A i \in 1 .. Len(hand) : hand[i] = Len(got) + i
  <2>1. pc = "readTake" => recv.buffer[reg] = Len(got) + 1
    BY DEF RInv, LenFresh, Taken
  <2> QED BY <1>1, <2>1 DEF Taken
<1>4. /\ items \in Seq(Nat) /\ Len(items) = Unread
      /\ \A i \in 1 .. Unread : items[i] = Taken + i
  <2>1. \A i \in 1 .. Unread : items[i] = Taken + i
    <3> SUFFICES ASSUME NEW i \in 1 .. Unread
                 PROVE  items[i] = Taken + i
      OBVIOUS
    <3>1. i - 1 \in 0 .. Unread - 1 /\ recv.head + i - 1 = recv.head + (i - 1)
      BY <1>2
    <3>2. items[i] = recv.buffer[Idx(recv.head, i - 1)]
      BY <3>1 DEF Items, Idx
    <3> QED BY <1>1, <1>2, <3>1, <3>2
  <2>2. items \in Seq(Nat) /\ Len(items) = Unread
    BY <1>1, <1>2, <2>1 DEF Items
  <2> QED BY <2>1, <2>2
<1>5. ASSUME NEW s \in Seq(Nat), Len(s) = arrived, \A i \in 1 .. arrived : s[i] = i
      PROVE  s = [i \in 1 .. arrived |-> i]
  BY <1>5
<1> HIDE DEF hand, items
<1> DEFINE taken == got \o hand
<1>6. /\ taken \in Seq(Nat) /\ Len(taken) = Taken
      /\ \A i \in 1 .. Len(taken) : taken[i] = i
  BY <1>1, <1>3, JoinedNumbers
<1> HIDE DEF taken
<1>7. /\ taken \o items \in Seq(Nat) /\ Len(taken \o items) = Taken + Unread
      /\ \A i \in 1 .. Taken + Unread : (taken \o items)[i] = i
  BY <1>4, <1>6, JoinedNumbers
<1> DEFINE kept == taken \o items
<1>8. /\ kept \in Seq(Nat) /\ Len(kept) = Taken + Unread
      /\ \A i \in 1 .. Len(kept) : kept[i] = i
      /\ \A i \in 1 .. Len(fifo) : fifo[i] = Len(kept) + i
  BY <1>1, <1>7
<1> HIDE DEF kept
<1>9. /\ kept \o fifo \in Seq(Nat) /\ Len(kept \o fifo) = Len(kept) + Len(fifo)
      /\ \A i \in 1 .. Len(kept) + Len(fifo) : (kept \o fifo)[i] = i
  BY <1>2, <1>8, JoinedNumbers
<1>10. Len(kept) + Len(fifo) = arrived
  BY <1>1, <1>8
<1> QED BY <1>5, <1>9, <1>10 DEF kept, taken

\* "len might be modify by rx interrupt if not atomic": for every size of the
\* buffer and of the receiver, what arrives is read in its order, nothing twice
\* and nothing left out, as long as the handler adds no byte in a window of
\* async_read_data.
THEOREM BytesReadInOrder == USpec => []ReadInOrder
<1> QED BY InitRInv, NextRInv, RInvGivesOrder, PTL DEF USpec
=============================================================================
