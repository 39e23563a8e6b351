------------------------------- MODULE Serial -------------------------------
(***************************************************************************)
(* SerialPort.cpp between a task that reads, a task that writes, the       *)
(* service and the interrupt of the UART: input in a RingBuffer whose      *)
(* positions only grow, output in the chunks of a StreamBuffer. Bytes are  *)
(* numbered in the order in which they are accepted; the chunks kept for   *)
(* reuse are left out, whose contents nobody looks at.                     *)
(***************************************************************************)
EXTENDS Integers, Sequences, SequencesExt

CONSTANTS RingSize,      \* m_Size of the RingBuffer
          Word,          \* its positions are counted modulo Word, 2^32 in the code
          FifoSize,      \* entries of the receiver of the UART
          ChunkSize,     \* bytes in a chunk of the StreamBuffer
          Lengths,       \* the sizes of Read and Write
          MaxInput,      \* bound on the bytes received
          MaxOutput,     \* bound on the bytes written
          WritesOverlap  \* TRUE: Write while the service is in Read of the StreamBuffer

ASSUME SerialAssumption == /\ {RingSize, Word, FifoSize, ChunkSize} \subseteq Nat \ {0}
                           /\ Lengths \subseteq Nat \ {0} /\ {MaxInput, MaxOutput} \subseteq Nat
                           /\ WritesOverlap \in BOOLEAN

VARIABLES input, output, service
serialVars == <<input, output, service>>

NewChunk == [size |-> 0, data |-> [i \in 1..ChunkSize |-> 0]]

SerialInit ==
  /\ input = [buf  |-> [i \in 0..RingSize-1 |-> 0],   \* RingBuffer::m_Buffer
              head |-> 0, tail |-> 0,                 \* m_Head, m_Tail
              fifo |-> 0,                             \* the bytes in the UART's receiver
              came |-> 0,                             \* the bytes that have arrived
              accepted |-> 0, got |-> <<>>,           \* the bytes taken into the ring, and read
              reader |-> "idle", want |-> 0, copy |-> 0]
  /\ output = [chunks |-> <<NewChunk>>,               \* from m_First to m_Last
               read |-> 0, size |-> 0, written |-> 0, \* m_Read, m_Size, m_Written
               made |-> 0, flushed |-> 0, sent |-> <<>>,
               writer |-> "idle", left |-> 0, at |-> 0]
  /\ service = [lock |-> "nobody",   \* the holder of SerialPort::m_CriticalSection
                pc |-> "loop", byte |-> 0]

(***************************************************************************)
(* The input                                                               *)
(***************************************************************************)
Used(r) == (r.head - r.tail) % Word

(* Mutant: an overrun overwrites what was not read yet. *)
RingOverwrite(r) ==
  [r EXCEPT !.buf[r.head % RingSize] = r.accepted + 1, !.head = (@ + 1) % Word, !.accepted = @ + 1]

(* RingBuffer::Write of one byte, and what it does without room. *)
RingWrite(r) ==
  IF Used(r) = RingSize THEN r
  ELSE [r EXCEPT !.buf[r.head % RingSize] = r.accepted + 1, !.head = (@ + 1) % Word, !.accepted = @ + 1]

(* RingBuffer::Read, of no more than there is: in two parts where it wraps. *)
RingRead(r, n) ==
  [r EXCEPT !.tail = (@ + n) % Word,
            !.got = @ \o [i \in 1..n |-> r.buf[((r.tail + i - 1) % Word) % RingSize]]]

Arrive == /\ input.came < MaxInput /\ input.fifo < FifoSize
          /\ input' = [input EXCEPT !.fifo = @ + 1, !.came = @ + 1]
          /\ UNCHANGED <<output, service>>

InterruptStarts ==
  /\ input.fifo > 0 /\ service.lock = "nobody"
  /\ service' = [service EXCEPT !.lock = "interrupt"]
  /\ UNCHANGED <<input, output>>

ReceiveByte ==
  /\ service.lock = "interrupt" /\ input.fifo > 0
  /\ input' = RingWrite([input EXCEPT !.fifo = @ - 1])
  /\ UNCHANGED <<output, service>>

(* ServiceTask wakes from its signal, in which it waits without the lock. *)
Woken(s) == IF s.pc = "asleep" THEN [s EXCEPT !.pc = "loop"] ELSE s

InterruptEnds ==
  /\ service.lock = "interrupt" /\ input.fifo = 0
  /\ service' = [Woken(service) EXCEPT !.lock = "nobody"]
  /\ UNCHANGED <<input, output>>

(* SerialPort::Read: how much there is, or that there is nothing, ... *)
ReadCall(n) == /\ input.reader = "idle"
               /\ input' = [input EXCEPT !.reader = "look", !.want = n]
               /\ UNCHANGED <<output, service>>

LookForInput ==
  /\ input.reader = "look"
  /\ input' = [input EXCEPT !.copy = IF Used(input) < input.want THEN Used(input) ELSE input.want,
                            !.reader = IF Used(input) = 0 THEN "wait" ELSE "take"]
  /\ UNCHANGED <<output, service>>

(* ... then to read it, or to wait for the signal. *)
TakeInput ==
  /\ input.reader = "take"
  /\ input' = [RingRead(input, input.copy) EXCEPT
                 !.want = @ - input.copy, !.reader = IF input.copy = input.want THEN "idle" ELSE "look"]
  /\ UNCHANGED <<output, service>>

WaitForInput ==
  /\ input.reader = "wait"
  /\ input' = [input EXCEPT !.reader = "asleep"]
  /\ UNCHANGED <<output, service>>

(***************************************************************************)
(* The output                                                              *)
(***************************************************************************)
(* StreamBuffer::Write, where it takes the lock: to the end of the last     *)
(* chunk, or to a new one, which is created without the lock.              *)
Proceed(o) ==
  [o EXCEPT !.at = Last(o.chunks).size,
            !.writer = IF o.left = 0 THEN "idle" ELSE IF Last(o.chunks).size = ChunkSize THEN "create" ELSE "copy"]

WriteCall(n) ==
  /\ output.writer = "idle" /\ output.made + n <= MaxOutput
  /\ WritesOverlap \/ service.pc # "sending"
  /\ output' = Proceed([output EXCEPT !.left = n])
  /\ UNCHANGED <<input, service>>

CreateChunk ==
  /\ output.writer = "create"
  /\ output' = [output EXCEPT !.chunks = Append(@, NewChunk), !.at = 0, !.writer = "copy"]
  /\ UNCHANGED <<input, service>>

CopyIn ==
  /\ output.writer = "copy"
  /\ LET room == ChunkSize - output.at
         copy == IF room < output.left THEN room ELSE output.left
         last == [size |-> Last(output.chunks).size + copy,
                  data |-> [i \in 1..ChunkSize |->
                              IF i \in output.at+1 .. output.at+copy THEN output.made + i - output.at
                              ELSE Last(output.chunks).data[i]]]
     IN output' = Proceed([output EXCEPT !.chunks = Append(Front(@), last), !.size = @ + copy,
                                         !.made = @ + copy, !.left = @ - copy])
  /\ UNCHANGED <<input, service>>

FlushOutput ==
  /\ output.writer = "idle" /\ output.written # output.size
  /\ output' = [output EXCEPT !.written = output.size, !.flushed = output.made, !.writer = "flush"]
  /\ UNCHANGED <<input, service>>

(* The Trigger of SerialPort::Flush, which does not take the lock of the service. *)
TriggerService ==
  /\ output.writer = "flush"
  /\ output' = [output EXCEPT !.writer = "idle"]
  /\ service' = Woken(service)
  /\ UNCHANGED input

(* Mutant: what was not flushed yet is given up with what was read. *)
ConsumedFlushed(o) ==
  IF o.read + 1 = o.written
  THEN [o EXCEPT !.chunks[1].size = 0, !.read = 0, !.size = 0, !.written = 0]
  ELSE IF o.read + 1 = ChunkSize
  THEN [o EXCEPT !.chunks = Tail(@), !.read = 0, !.size = @ - ChunkSize, !.written = @ - ChunkSize]
  ELSE [o EXCEPT !.read = @ + 1]

(* StreamBuffer::Read after a byte was copied: all is read, or the first chunk is. *)
Consumed(o) ==
  IF o.read + 1 = o.size
  THEN [o EXCEPT !.chunks[1].size = 0, !.read = 0, !.size = 0, !.written = 0]
  ELSE IF o.read + 1 = ChunkSize
  THEN [o EXCEPT !.chunks = Tail(@), !.read = 0, !.size = @ - ChunkSize, !.written = @ - ChunkSize]
  ELSE [o EXCEPT !.read = @ + 1]

(***************************************************************************)
(* The service                                                             *)
(***************************************************************************)
ServiceTurn ==
  /\ service.pc = "loop" /\ service.lock = "nobody"
  /\ service' = [service EXCEPT !.lock = "service", !.pc = "send"]
  /\ input' = [input EXCEPT !.reader = IF @ = "asleep" /\ Used(input) > 0 THEN "look" ELSE @]
  /\ UNCHANGED output

(* StreamBuffer::Read gives up its lock while it copies. *)
ReadByte ==
  /\ service.pc = "send" /\ output.written # output.read
  /\ WritesOverlap \/ output.writer \notin {"create", "copy"}
  /\ service' = IF output.read < output.chunks[1].size
                THEN [service EXCEPT !.byte = output.chunks[1].data[output.read + 1], !.pc = "sending"]
                ELSE service
  /\ UNCHANGED <<input, output>>

SendByte ==
  /\ service.pc = "sending"
  /\ output' = [Consumed(output) EXCEPT !.sent = Append(@, service.byte)]
  /\ service' = [service EXCEPT !.pc = "send"]
  /\ UNCHANGED input

(* Nothing to send, or no room in the transmitter of the UART. *)
ServiceWaits ==
  /\ service.pc = "send"
  /\ service' = [service EXCEPT !.lock = "nobody", !.pc = "asleep"]
  /\ UNCHANGED <<input, output>>

SerialNext ==
  \/ Arrive \/ InterruptStarts \/ ReceiveByte \/ InterruptEnds
  \/ LookForInput \/ TakeInput \/ WaitForInput
  \/ CreateChunk \/ CopyIn \/ FlushOutput \/ TriggerService
  \/ ServiceTurn \/ ReadByte \/ SendByte \/ ServiceWaits
  \/ \E n \in Lengths : ReadCall(n) \/ WriteCall(n)

SerialSpec == SerialInit /\ [][SerialNext]_serialVars

(***************************************************************************)
(* Properties                                                              *)
(***************************************************************************)
(* The byte at a position, counted from the begin of the first chunk.      *)
WrittenByte(o, p) == o.chunks[(p \div ChunkSize) + 1].data[(p % ChunkSize) + 1]

Unread == [i \in 1 .. output.size - output.read |-> WrittenByte(output, output.read + i - 1)]

(* All chunks but the last are full, and m_Size is what they hold.         *)
ChunksFilled ==
  /\ \A k \in 1 .. Len(output.chunks) - 1 : output.chunks[k].size = ChunkSize
  /\ output.size = ChunkSize * (Len(output.chunks) - 1) + Last(output.chunks).size

(* What was read and what is in the ring are the bytes accepted, in order, *)
(* wherever the ring wraps and while the interrupt adds to it: a byte is   *)
(* lost only when it arrives at a full ring.                               *)
ReceivedInOrder ==
  input.got \o [i \in 1..Used(input) |-> input.buf[((input.tail + i - 1) % Word) % RingSize]]
    = [i \in 1..input.accepted |-> i]

(* What was sent and what is left in the chunks is what was written, in    *)
(* order, and only what was flushed is sent; however writes, flushes and   *)
(* reads alternate, chunks end, and the buffer runs empty.                 *)
SentInOrder ==
  /\ ChunksFilled
  /\ output.sent \o Unread = [i \in 1..output.made |-> i]
  /\ output.written - output.read = output.flushed - Len(output.sent)
=============================================================================
