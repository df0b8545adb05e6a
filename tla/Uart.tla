-------------------------------- MODULE Uart --------------------------------
(***************************************************************************)
(* The two ring buffers of lib/mini_uart.c between a program, which calls  *)
(* read_to_buf, send_from_buf and echo_read_line, and the handler of the   *)
(* UART's interrupt.                                                       *)
(*                                                                         *)
(* There is one processor.  The program is interrupted between any two     *)
(* accesses of memory; len--, len++ and the updates of AUX_MU_IER_REG are  *)
(* a load and a store each (the code is compiled without optimisation).    *)
(* The handler runs to its end before the program goes on.                 *)
(*                                                                         *)
(* Bytes are numbered, those received and those to be sent each from 1.    *)
(***************************************************************************)
EXTENDS Integers, Sequences

CONSTANTS Size,      \* ASYNC_BUFFER_SIZE, 2048 in the code
          FifoSize,  \* bytes the receiver holds before the sender must wait
          MaxIn,     \* bound: bytes that arrive
          MaxOut     \* bound: bytes the program sends

ASSUME UartAssumption ==
    /\ Size \in Nat \ {0} /\ FifoSize \in Nat \ {0}
    /\ MaxIn \in Nat /\ MaxOut \in Nat

Index == 0 .. Size - 1

VARIABLES recv,     \* async_recv
          tran,     \* async_tran
          ier,      \* the interrupts AUX_MU_IER_REG enables
          handler,  \* the interrupt uart_except_handler works on, or "none"
          fifo,     \* the receiver
          ready,    \* the transmitter can take a byte (LSR bit 5)
          arrived,  \* how many bytes have reached the receiver
          pc,       \* where the program is
          call,     \* what it has called
          left,     \* bytes that the call has still to read or send
          reg,      \* what the last load returned
          queued,   \* how many calls of async_send_data there have been
          got,      \* history: the bytes async_read_data has returned
          wire,     \* history: the bytes the transmitter was given
          struck    \* history: buffers changed by the handler in a window

uvars == <<recv, tran, ier, handler, fifo, ready, arrived, pc, call, left, reg,
           queued, got, wire, struck>>

\* The program's side of a call, and the hardware's side of everything.
program == <<pc, call, left, reg, queued, got>>
hardware == <<fifo, ready, arrived, wire>>

Buffer == [buffer : [Index -> 0 .. MaxIn + MaxOut], head : 0 .. Size, len : 0 .. Size]
EmptyBuffer == [buffer |-> [i \in Index |-> 0], head |-> 0, len |-> 0]

\* The first n bytes of a buffer, and where the handler or the program puts one.
Items(b, n) == [i \in 1 .. n |-> b.buffer[(b.head + i - 1) % Size]]
Idx(head, len) == (head + len) % Size

\* Where a byte that the handler moves does harm: the program holds a copy of len
\* or head that it is going to use; or it has counted a byte out and not yet moved
\* head (head + len is then the place of the last byte, not behind it); or it has
\* moved head and not yet taken the byte, and that place is the only free one.
InReadWindow == \/ pc \in {"readStore", "readHead", "readNext"}
                \/ pc = "readTake" /\ recv.len = Size - 1
InSendWindow == pc \in {"sendIndex", "sendStore"}

\* A step of the program.
Goto(from, to) == handler = "none" /\ pc = from /\ pc' = to
-----------------------------------------------------------------------------
\* read_to_buf, send_from_buf and echo_read_line are called.
Calls ==
    /\ \/ /\ Goto("idle", "readWait")
          /\ \/ call' = "read" /\ left' \in 1 .. 2
             \/ call' = "echo" /\ left' = 0
       \/ /\ Goto("idle", "sendWait")
          /\ call' = "write"
          /\ left' \in 1 .. MaxOut - queued
    /\ UNCHANGED <<recv, tran, ier, reg, queued, got, wire, struck, handler, hardware>>

\* async_read_data: while(len == 0)
ReadWait ==
    /\ Goto("readWait", "readLoad")
    /\ recv.len # 0
    /\ UNCHANGED <<recv, tran, ier, handler, hardware, call, left, reg, queued, got, struck>>

\* len--
ReadLoad ==
    /\ Goto("readLoad", "readStore")
    /\ reg' = recv.len
    /\ UNCHANGED <<recv, tran, ier, handler, hardware, call, left, queued, got, struck>>

ReadStore ==
    /\ Goto("readStore", "readHead")
    /\ recv' = [recv EXCEPT !.len = reg - 1]
    /\ reg' = 0
    /\ UNCHANGED <<tran, ier, handler, hardware, call, left, queued, got, struck>>

\* data = buffer[head++]: head is loaded, the next head stored, and only then the
\* byte loaded.
ReadHead ==
    /\ Goto("readHead", "readNext")
    /\ reg' = recv.head
    /\ UNCHANGED <<recv, tran, ier, handler, hardware, call, left, queued, got, struck>>

ReadNext ==
    /\ Goto("readNext", "readTake")
    /\ recv' = [recv EXCEPT !.head = reg + 1]
    /\ UNCHANGED <<tran, ier, handler, hardware, call, left, reg, queued, got, struck>>

ReadTake ==
    /\ Goto("readTake", "readWrap")
    /\ got' = IF "rx" \in struck THEN got ELSE Append(got, recv.buffer[reg])
    /\ reg' = 0
    /\ UNCHANGED <<recv, tran, ier, handler, hardware, call, left, queued, struck>>

ReadWrap ==
    /\ Goto("readWrap", "readTest")
    /\ recv' = [recv EXCEPT !.head = @ % Size]
    /\ UNCHANGED <<tran, ier, handler, hardware, call, left, reg, queued, got, struck>>

\* Mutation: the receive interrupt is not enabled again.
ReadTestKeepsMask ==
    /\ Goto("readTest", "readDone")
    /\ UNCHANGED <<recv, tran, ier, handler, hardware, call, left, reg, queued, got, struck>>

\* if(!(IER & 1)) IER |= 1, a load and a store after the test
ReadTest ==
    /\ Goto("readTest", IF "rx" \in ier THEN "readDone" ELSE "readIer")
    /\ UNCHANGED <<recv, tran, ier, handler, hardware, call, left, reg, queued, got, struck>>

IerLoad(from, to) ==
    /\ Goto(from, to)
    /\ reg' = ier
    /\ UNCHANGED <<recv, tran, ier, handler, hardware, call, left, queued, got, struck>>

IerStore(from, to, bit) ==
    /\ Goto(from, to)
    /\ ier' = reg \cup {bit}
    /\ reg' = 0
    /\ UNCHANGED <<recv, tran, handler, hardware, call, left, queued, got, struck>>

\* read_to_buf ends when it has enough or the buffer is empty; echo_read_line
\* sends two bytes for the end of the line, one for a character, three for a
\* deletion and none for a deletion in front of the line.
ReadDone ==
    /\ \/ /\ call = "read"
          /\ Goto("readDone", IF left = 1 \/ recv.len = 0 THEN "idle" ELSE "readWait")
          /\ left' = left - 1
          /\ UNCHANGED call
       \/ /\ call = "echo"
          /\ left' \in 0 .. 3 /\ queued + left' <= MaxOut
          /\ Goto("readDone", IF left' = 0 THEN "readWait" ELSE "sendWait")
          /\ call' = IF left' = 2 THEN "echoEnd" ELSE "echo"
    /\ UNCHANGED <<recv, tran, ier, handler, hardware, reg, queued, got, struck>>
-----------------------------------------------------------------------------
\* Mutation: <= for <.
SendWaitTooShort ==
    /\ Goto("sendWait", "sendHead")
    /\ tran.len <= Size
    /\ UNCHANGED <<recv, tran, ier, handler, hardware, call, left, reg, queued, got, struck>>

\* async_send_data: while(len >= ASYNC_BUFFER_SIZE)
SendWait ==
    /\ Goto("sendWait", "sendHead")
    /\ tran.len < Size
    /\ UNCHANGED <<recv, tran, ier, handler, hardware, call, left, reg, queued, got, struck>>

\* idx = (head + len) % ASYNC_BUFFER_SIZE, head read first
SendHead ==
    /\ Goto("sendHead", "sendIndex")
    /\ reg' = tran.head
    /\ UNCHANGED <<recv, tran, ier, handler, hardware, call, left, queued, got, struck>>

SendIndex ==
    /\ Goto("sendIndex", "sendWrite")
    /\ reg' = Idx(reg, tran.len)
    /\ UNCHANGED <<recv, tran, ier, handler, hardware, call, left, queued, got, struck>>

SendWrite ==
    /\ Goto("sendWrite", "sendLoad")
    /\ queued' = queued + 1
    /\ tran' = [tran EXCEPT !.buffer[reg] = queued + 1]
    /\ reg' = 0
    /\ UNCHANGED <<recv, ier, handler, hardware, call, left, got, struck>>

\* len++
SendLoad ==
    /\ Goto("sendLoad", "sendStore")
    /\ reg' = tran.len
    /\ UNCHANGED <<recv, tran, ier, handler, hardware, call, left, queued, got, struck>>

SendStore ==
    /\ Goto("sendStore", "sendTest")
    /\ tran' = [tran EXCEPT !.len = reg + 1]
    /\ reg' = 0
    /\ UNCHANGED <<recv, ier, handler, hardware, call, left, queued, got, struck>>

SendTest ==
    /\ Goto("sendTest", IF "tx" \in ier THEN "sendDone" ELSE "sendIer")
    /\ UNCHANGED <<recv, tran, ier, handler, hardware, call, left, reg, queued, got, struck>>

\* send_from_buf ends when all is sent or the buffer is full.
SendDone ==
    /\ left' = left - 1
    /\ Goto("sendDone",
            IF call = "write" /\ tran.len = Size THEN "idle"
            ELSE IF left > 1 THEN "sendWait"
            ELSE IF call = "echo" THEN "readWait" ELSE "idle")
    /\ UNCHANGED <<recv, tran, ier, handler, hardware, call, reg, queued, got, struck>>

Program ==
    \/ ReadWait \/ ReadLoad \/ ReadStore
    \/ ReadHead \/ ReadNext \/ ReadTake \/ ReadWrap \/ ReadTest
    \/ IerLoad("readIer", "readIerStore") \/ IerStore("readIerStore", "readDone", "rx")
    \/ ReadDone
    \/ SendWait \/ SendHead \/ SendIndex \/ SendWrite \/ SendLoad \/ SendStore \/ SendTest
    \/ IerLoad("sendIer", "sendIerStore") \/ IerStore("sendIerStore", "sendDone", "tx")
    \/ SendDone
-----------------------------------------------------------------------------
\* The interrupt is taken, and AUX_MU_IIR_REG tells which one it is.
Irq(s) ==
    /\ handler = "none"
    /\ s \in ier
    /\ IF s = "rx" THEN fifo # <<>> ELSE ready
    /\ handler' = s
    /\ UNCHANGED <<recv, tran, ier, hardware, program, struck>>

\* Mutation: the byte is taken from the receiver before the test for room.
ReceiveDrops ==
    /\ handler = "rx" /\ fifo # <<>> /\ recv.len >= Size
    /\ ier' = ier \ {"rx"}
    /\ fifo' = Tail(fifo)
    /\ handler' = "none"
    /\ UNCHANGED <<recv, tran, ready, arrived, wire, program, struck>>

\* uart_except_handler, interrupt_id 2: no room, and the interrupt is disabled.
ReceiveFull ==
    /\ handler = "rx" /\ fifo # <<>> /\ recv.len >= Size
    /\ ier' = ier \ {"rx"}
    /\ handler' = "none"
    /\ UNCHANGED <<recv, tran, hardware, program, struck>>

\* Mutation: > for >=.
ReceiveUnchecked ==
    /\ handler = "rx" /\ fifo # <<>> /\ recv.len <= Size
    /\ recv' = [recv EXCEPT !.buffer[Idx(recv.head, recv.len)] = Head(fifo),
                            !.len = @ + 1]
    /\ fifo' = Tail(fifo)
    /\ struck' = IF InReadWindow THEN struck \cup {"rx"} ELSE struck
    /\ UNCHANGED <<tran, ier, handler, ready, arrived, wire, program>>

Receive ==
    /\ handler = "rx" /\ fifo # <<>> /\ recv.len < Size
    /\ recv' = [recv EXCEPT !.buffer[Idx(recv.head, recv.len)] = Head(fifo),
                            !.len = @ + 1]
    /\ fifo' = Tail(fifo)
    /\ struck' = IF InReadWindow THEN struck \cup {"rx"} ELSE struck
    /\ UNCHANGED <<tran, ier, handler, ready, arrived, wire, program>>

\* interrupt_id 1: nothing to send, and the interrupt is disabled.
TransmitEmpty ==
    /\ handler = "tx" /\ ready /\ tran.len = 0
    /\ ier' = ier \ {"tx"}
    /\ handler' = "none"
    /\ UNCHANGED <<recv, tran, hardware, program, struck>>

Transmit ==
    /\ handler = "tx" /\ ready /\ tran.len > 0
    /\ wire' = IF "tx" \in struck THEN wire ELSE Append(wire, tran.buffer[tran.head])
    /\ tran' = [tran EXCEPT !.head = (@ + 1) % Size, !.len = @ - 1]
    /\ ready' \in BOOLEAN
    /\ struck' = IF InSendWindow THEN struck \cup {"tx"} ELSE struck
    /\ UNCHANGED <<recv, ier, handler, fifo, arrived, program>>

\* The receiver is empty, or the transmitter full.
HandlerEnd ==
    /\ \/ handler = "rx" /\ fifo = <<>>
       \/ handler = "tx" /\ ~ ready
    /\ handler' = "none"
    /\ UNCHANGED <<recv, tran, ier, hardware, program, struck>>

Handler == ReceiveFull \/ Receive \/ TransmitEmpty \/ Transmit \/ HandlerEnd

\* A byte comes in; the transmitter has sent one.
Arrive ==
    /\ arrived < MaxIn /\ Len(fifo) < FifoSize
    /\ arrived' = arrived + 1
    /\ fifo' = Append(fifo, arrived + 1)
    /\ UNCHANGED <<recv, tran, ier, handler, ready, wire, program, struck>>

Drain ==
    /\ ~ ready /\ ready' = TRUE
    /\ UNCHANGED <<recv, tran, ier, handler, fifo, arrived, wire, program, struck>>
-----------------------------------------------------------------------------
\* init_uart
UInit ==
    /\ recv = EmptyBuffer /\ tran = EmptyBuffer
    /\ ier = {"rx", "tx"}
    /\ handler = "none"
    /\ fifo = <<>> /\ ready = TRUE /\ arrived = 0
    /\ pc = "idle" /\ call = "read" /\ left = 0 /\ reg = 0
    /\ queued = 0 /\ got = <<>> /\ wire = <<>>
    /\ struck = {}

UNext == \/ Calls \/ Program
         \/ Irq("rx") \/ Irq("tx") \/ Handler
         \/ Arrive \/ Drain

\* The program goes on inside its calls, interrupts are taken, the handler's
\* loop turns and the transmitter sends.
UFairness ==
    /\ WF_uvars(Program) /\ WF_uvars(Handler) /\ WF_uvars(Drain)
    /\ WF_uvars(Irq("rx")) /\ WF_uvars(Irq("tx"))

USpec == UInit /\ [][UNext]_uvars /\ UFairness
-----------------------------------------------------------------------------
\* "what if len overflow?  it won't since len can't >= ASYNC_BUFFER_SIZE": under
\* every interleaving of a program's stale loads and stores with the handler's
\* loop, both lengths stay between 0 and the size, both heads inside.
LenInBounds ==
    /\ {recv.len, tran.len} \subseteq 0 .. Size
    /\ recv.head \in (IF pc \in {"readTake", "readWrap"} THEN 1 .. Size ELSE Index) /\ tran.head \in Index

\* "len might be modify by rx interrupt if not atomic".  As long as the handler
\* received no byte in a window of async_read_data: what was read, what the buffer
\* holds (with a byte that is counted out and not taken) and what waits in the
\* receiver are the bytes that arrived, in their order.
ReadInOrder ==
    "rx" \notin struck =>
        got \o (IF pc = "readTake" THEN <<recv.buffer[reg]>> ELSE <<>>)
            \o Items(recv, IF pc \in {"readHead", "readNext"} THEN recv.len + 1 ELSE recv.len)
            \o fifo
            = [i \in 1 .. arrived |-> i]

\* As long as none was sent while the program had head or len in a register, the
\* bytes sent and those in the buffer are the bytes of the program, in order,
\* each once.
SentInOrder ==
    "tx" \notin struck =>
        wire \o Items(tran, IF pc \in {"sendLoad", "sendStore"} THEN tran.len + 1
                            ELSE tran.len)
            = [i \in 1 .. queued |-> i]

\* Whatever interrupts strike: a program that waits for input goes on when there
\* is some, one that waits for room goes on, and all that is queued is sent.
\* Each interrupt is disabled by the handler and enabled by the program, which
\* tests and changes the register in three steps.
BytesMove ==
    /\ (pc = "readWait" /\ fifo # <<>>) ~> (pc # "readWait")
    /\ (pc = "sendWait") ~> (pc # "sendWait")
    /\ (tran.len > 0) ~> (tran.len = 0)
=============================================================================
