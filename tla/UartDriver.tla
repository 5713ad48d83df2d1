----------------------------- MODULE UartDriver -----------------------------
(***************************************************************************)
(* The UART of the FreeRTOS port: the interrupt handler, the driver task   *)
(* and a Dart client that reads and writes through uart_driver.cc, the     *)
(* circular buffers between them, the flags of the device, and the event   *)
(* handler thread that passes events on (event_handler_cmsis.cc).          *)
(*                                                                         *)
(* There is one core: the interrupt handler runs between any two steps of  *)
(* the threads, and is itself a step.                                      *)
(***************************************************************************)
EXTENDS DeviceFlags, SequencesExt, FiniteSetsExt

CONSTANTS
  Capacity,       \* of the read and of the write buffer
  kTxBlockSize,   \* bytes transmitted without the task
  ReadSize,       \* bytes the client asks for
  MaxIn,          \* bound: bytes that arrive
  MaxOut,         \* bound: bytes the client writes
  MaxErrors       \* bound: errors on the line

VARIABLES
  readBuffer, writeBuffer,  \* read_buffer_, write_buffer_
  tx,          \* tx_data_, tx_length_ - tx_progress_, tx_pending_, TXE enabled
  device,      \* the flags and the listener
  queue,       \* mail_queue_
  signals,     \* signals of the task's thread
  mutex,       \* holder of tx_mutex_
  task,        \* the driver task
  client,      \* the Dart client
  line         \* what the outside has sent and seen

uartVars == <<readBuffer, writeBuffer, tx, device, queue, signals, mutex, task,
              client, line>>

kReceivedBit == "received"
kTransmittedBit == "transmitted"
kErrorBit == "error"

---------------------------------------------------------------------------
(* Circular buffers.  One more byte tells full from empty. *)

Size == Capacity + 1
NewBuffer == [byte |-> [i \in 0..Capacity |-> 0], head |-> 0, tail |-> 0]

IsEmpty(b) == b.head = b.tail
IsFull(b) == (b.head + 1) % Size = b.tail

\* Bytes that each half of Read takes: up to the end of the array, then from
\* its start.
UpToEnd(b, count) == IF b.tail > b.head THEN Min({Size - b.tail, count}) ELSE 0
UpToHead(b, count) == IF b.tail < b.head THEN Min({b.head - b.tail, count}) ELSE 0

Bytes(b, n) == [i \in 1..n |-> b.byte[(b.tail + i - 1) % Size]]
Consume(b, n) == [b EXCEPT !.tail = (@ + n) % Size]

\* A Read that nothing interrupts: <<buffer, data>>.
Read(b, count) ==
  LET n == UpToEnd(b, count)
      m == UpToHead(Consume(b, n), count - n)
  IN <<Consume(b, n + m), Bytes(b, n + m)>>

Put(b, data) ==
  [b EXCEPT !.byte = [i \in 0..Capacity |->
                        LET k == (i - b.head) % Size
                        IN IF k < Len(data) THEN data[k + 1] ELSE b.byte[i]],
            !.head = (@ + Len(data)) % Size]

\* Write: <<buffer, bytes written>>.
Write(b, data) ==
  LET n == IF b.head >= b.tail
           THEN Min({Size - b.head - (IF b.tail = 0 THEN 1 ELSE 0), Len(data)})
           ELSE 0
      c == Put(b, SubSeq(data, 1, n))
      m == IF c.head < c.tail THEN Min({c.tail - c.head - 1, Len(data) - n}) ELSE 0
  IN <<Put(c, SubSeq(data, n + 1, n + m)), n + m>>

---------------------------------------------------------------------------

UartInit ==
  /\ readBuffer = NewBuffer /\ writeBuffer = NewBuffer
  /\ tx = [data |-> <<>>, pending |-> FALSE, txe |-> FALSE]
  /\ device = NewDevice
  /\ queue = <<>> /\ signals = {} /\ mutex = "none"
  /\ task = [pc |-> "wait", flags |-> {}]
  /\ client = [pc |-> "idle", event |-> {}, copied |-> 0, left |-> 0, got |-> <<>>]
  /\ line = [in |-> 0, errors |-> 0, out |-> <<>>, accepted |-> <<>>,
             written |-> 0]

Send(events) == queue' = queue \o events

\* A slip: a block is taken while another is being sent.
EnsureTransmissionAnyway(t, b, d) ==
  LET block == Read(b, kTxBlockSize)
  IN IF block[2] = <<>> THEN <<t, block[1], d>>
     ELSE <<[data |-> block[2], pending |-> TRUE, txe |-> TRUE], block[1], d>>

\* <<tx, write buffer, device>> after EnsureTransmission.
EnsureTransmission(t, b, d) ==
  IF ~t.pending
  THEN LET block == Read(b, kTxBlockSize)
       IN IF block[2] = <<>> THEN <<t, block[1], d>>
          ELSE <<[data |-> block[2], pending |-> TRUE, txe |-> TRUE], block[1], d>>
  ELSE <<t, b, IF IsFull(b) THEN ClearFlags(d, {kTransmittedBit}) ELSE d>>

---------------------------------------------------------------------------
(* The interrupt handler: any of its causes may be there at once. *)

InterruptHandler(error, receive, transmit) ==
  /\ error \/ receive \/ transmit
  /\ error => line.errors < MaxErrors
  /\ receive => line.in < MaxIn
  /\ transmit => tx.txe
  /\ LET byte == line.in + 1
         stored == Write(readBuffer, <<byte>>)
         last == tx.data = <<>>
         flags == (IF error THEN {kErrorBit} ELSE {})
                  \cup (IF receive THEN {kReceivedBit} ELSE {})
                  \cup (IF transmit /\ last THEN {kTransmittedBit} ELSE {})
     IN /\ readBuffer' = IF receive THEN stored[1] ELSE readBuffer
        /\ tx' = IF ~transmit THEN tx
                 ELSE IF last THEN [tx EXCEPT !.pending = FALSE, !.txe = FALSE]
                 ELSE [tx EXCEPT !.data = Tail(@)]
        /\ line' = [line EXCEPT
             !.errors = @ + (IF error THEN 1 ELSE 0),
             !.in = @ + (IF receive THEN 1 ELSE 0),
             !.accepted = IF receive /\ stored[2] = 1 THEN Append(@, byte) ELSE @,
             !.out = IF transmit /\ ~last THEN Append(@, Head(tx.data)) ELSE @]
        /\ signals' = signals \cup flags
  /\ UNCHANGED <<writeBuffer, device, queue, mutex, task, client>>

---------------------------------------------------------------------------
(* The driver task. *)

\* osSignalWait returns, and clears, all the signals there are.
TaskWakes ==
  /\ task.pc = "wait" /\ signals # {}
  /\ task' = [pc |-> "lock", flags |-> signals]
  /\ signals' = {}
  /\ UNCHANGED <<readBuffer, writeBuffer, tx, device, queue, mutex, client, line>>

TaskTransmits ==
  /\ task.pc = "lock" /\ mutex = "none"
  /\ mutex' = "task"
  /\ task' = [task EXCEPT !.pc = "set flags"]
  /\ IF kTransmittedBit \in task.flags
     THEN LET done == EnsureTransmission(tx, writeBuffer, device)
          IN tx' = done[1] /\ writeBuffer' = done[2] /\ device' = done[3]
     ELSE UNCHANGED <<tx, writeBuffer, device>>
  /\ UNCHANGED <<readBuffer, queue, signals, client, line>>

TaskSetsFlags ==
  /\ task.pc = "set flags"
  /\ LET set == SetFlags(device, task.flags) IN device' = set[1] /\ Send(set[2])
  /\ task' = [pc |-> "wait", flags |-> {}]
  /\ mutex' = "none"
  /\ UNCHANGED <<readBuffer, writeBuffer, tx, signals, client, line>>

---------------------------------------------------------------------------
(* The event handler thread. *)

RunEventHandler ==
  /\ queue # <<>>
  /\ client' = [client EXCEPT !.pc = "received", !.event = Head(queue).flags]
  /\ queue' = Tail(queue)
  /\ UNCHANGED <<readBuffer, writeBuffer, tx, device, signals, mutex, task, line>>

---------------------------------------------------------------------------
(* The client: Uart.readNext and Uart.write of package stm32. *)

Goes(pc) == client' = [client EXCEPT !.pc = pc]

Listens(mask, pc) ==
  /\ LET set == SetEventListener(device, mask, "client")
     IN device' = set[1] /\ Send(set[2])
  /\ Goes(pc)
  /\ UNCHANGED <<readBuffer, writeBuffer, tx, signals, mutex, task, line>>

ReadNext ==
  /\ client.pc = "idle"
  /\ Listens({kReceivedBit, kErrorBit}, "wait to read")

UartGetError ==
  /\ client.pc = "received" /\ kErrorBit \in client.event
  /\ device' = ClearFlags(device, {kErrorBit})
  /\ client' = [client EXCEPT !.event = @ \ {kErrorBit},
                              !.pc = IF kReceivedBit \in client.event
                                     THEN "received" ELSE "idle"]
  /\ UNCHANGED <<readBuffer, writeBuffer, tx, queue, signals, mutex, task, line>>

\* The first half of CircularBuffer::Read copies ...
ReadUpToEnd ==
  /\ client.pc = "received" /\ client.event = {kReceivedBit} /\ mutex = "none"
  /\ mutex' = "client"
  /\ LET n == UpToEnd(readBuffer, ReadSize)
     IN client' = [client EXCEPT !.pc = "end copied", !.copied = n,
                                 !.left = ReadSize - n,
                                 !.got = @ \o Bytes(readBuffer, n)]
  /\ UNCHANGED <<readBuffer, writeBuffer, tx, device, queue, signals, task, line>>

\* ... then moves tail_,
ConsumeEnd ==
  /\ client.pc = "end copied"
  /\ readBuffer' = Consume(readBuffer, client.copied)
  /\ client' = [client EXCEPT !.pc = "read to head", !.copied = 0]
  /\ UNCHANGED <<writeBuffer, tx, device, queue, signals, mutex, task, line>>

\* and so does the second.
ReadUpToHead ==
  /\ client.pc = "read to head"
  /\ LET n == UpToHead(readBuffer, client.left)
     IN client' = [client EXCEPT !.pc = "head copied", !.copied = n,
                                 !.got = @ \o Bytes(readBuffer, n)]
  /\ UNCHANGED <<readBuffer, writeBuffer, tx, device, queue, signals, mutex,
                 task, line>>

ConsumeHead ==
  /\ client.pc = "head copied"
  /\ readBuffer' = Consume(readBuffer, client.copied)
  /\ client' = [client EXCEPT !.pc = "check empty", !.copied = 0, !.left = 0]
  /\ UNCHANGED <<writeBuffer, tx, device, queue, signals, mutex, task, line>>

CheckEmpty ==
  /\ client.pc = "check empty"
  /\ Goes(IF IsEmpty(readBuffer) THEN "clear received" ELSE "unlock")
  /\ UNCHANGED <<readBuffer, writeBuffer, tx, device, queue, signals, mutex,
                 task, line>>

ClearReceived ==
  /\ client.pc = "clear received"
  /\ device' = ClearFlags(device, {kReceivedBit})
  /\ Goes("unlock")
  /\ UNCHANGED <<readBuffer, writeBuffer, tx, queue, signals, mutex, task, line>>

ReadReturns ==
  /\ client.pc = "unlock"
  /\ mutex' = "none"
  /\ client' = [client EXCEPT !.pc = "idle", !.event = {}]
  /\ UNCHANGED <<readBuffer, writeBuffer, tx, device, queue, signals, task, line>>

\* UartDriverImpl::Write, of all the client has left to write; what does not
\* fit waits for the next event.
UartWrite(count) ==
  /\ client.pc \in {"idle", "write"} /\ mutex = "none"
  /\ count \in 1..(MaxOut - line.written)
  /\ client.pc = "write" => count = client.left
  /\ LET data == [i \in 1..count |-> line.written + i]
         put == Write(writeBuffer, data)
         done == EnsureTransmission(tx, put[1], device)
     IN /\ IF put[2] > 0
           THEN tx' = done[1] /\ writeBuffer' = done[2] /\ device' = done[3]
           ELSE UNCHANGED <<tx, writeBuffer, device>>
        /\ line' = [line EXCEPT !.written = @ + put[2]]
        /\ client' = [client EXCEPT !.left = count - put[2],
                                    !.pc = IF put[2] = count THEN "idle"
                                           ELSE "listen to write"]
  /\ UNCHANGED <<readBuffer, queue, signals, mutex, task>>

ListenToWrite ==
  /\ client.pc = "listen to write"
  /\ Listens({kTransmittedBit}, "wait to write")

WriteAgain ==
  /\ client.pc = "received" /\ client.event = {kTransmittedBit}
  /\ client' = [client EXCEPT !.pc = "write", !.event = {}]
  /\ UNCHANGED <<readBuffer, writeBuffer, tx, device, queue, signals, mutex,
                 task, line>>

UartNext ==
  \/ \E error, receive, transmit \in BOOLEAN :
       InterruptHandler(error, receive, transmit)
  \/ TaskWakes \/ TaskTransmits \/ TaskSetsFlags
  \/ RunEventHandler
  \/ ReadNext \/ UartGetError \/ ReadUpToEnd \/ ConsumeEnd \/ ReadUpToHead
  \/ ConsumeHead \/ CheckEmpty \/ ClearReceived \/ ReadReturns
  \/ \E count \in 1..MaxOut : UartWrite(count)
  \/ ListenToWrite \/ WriteAgain

---------------------------------------------------------------------------
(* Properties. *)

Content(b) == Bytes(b, (b.head - b.tail) % Size)

\* The client reads the bytes the read buffer accepted, and the line shows the
\* bytes the write buffer accepted: each once, in order, whenever the handler
\* interrupts the halves of CircularBuffer::Read.
BytesKept ==
  /\ LET inside == Content(readBuffer)
     IN client.got \o SubSeq(inside, client.copied + 1, Len(inside))
          = line.accepted
  /\ line.out \o (IF tx.pending THEN tx.data ELSE <<>>) \o Content(writeBuffer)
       = [i \in 1..line.written |-> i]

\* Nothing is under way in the driver: all signals have become flags.
Quiet == signals = {} /\ task.pc = "wait" /\ ~tx.txe /\ queue = <<>>

\* A client that waits for a flag that was set with no other one is woken: it
\* is never left waiting to read what is there, nor to write when all is sent.
Woken ==
  Quiet /\ device.lost = {} =>
    /\ client.pc # "wait to write"
    /\ client.pc = "wait to read" => IsEmpty(readBuffer)

\* The bytes and the wake-ups of the UART, and its place in the event queue.
UartDelivers == BytesKept /\ Woken /\ Len(queue) <= kMailQSize

\* Device::SetFlags "Sets the [flag] in [flags]", all of them.
FlagsAreSet == device.lost = {}

\* A client that waits to read is woken when there is something to read.
ReaderWoken == Quiet /\ client.pc = "wait to read" => IsEmpty(readBuffer)
=============================================================================
