------------------------------- MODULE StreamIO --------------------------------
(***************************************************************************)
(* The loops of writeAll and readAll over a byte stream (IOHandler and     *)
(* TcpIOHandler on the client, TcpSocket on the server): send() may take a *)
(* part of what is left of a packet, recv() may return a part of what is   *)
(* asked for, and the connection may be reset between any two of them.     *)
(*                                                                         *)
(* A packet is what one writeAll sends; the other side reads it with       *)
(* several readAlls, whose sizes after the first are in what it has read:  *)
(* a request is read as identifier, header length and header, an argument  *)
(* or a result as length and body, the shutdown packet as one byte and     *)
(* three.  The shape of a packet is the sequence of these sizes.  That     *)
(* packets nevertheless travel whole is the refinement of PacketPipe.      *)
(*                                                                         *)
(* The handler of a thread is used by that thread only, so that writer and *)
(* reader are one thread each; the server's socket has no mutexes.         *)
(***************************************************************************)
EXTENDS Naturals, Sequences

CONSTANTS
    Shapes,      \* packet shapes
    First,       \* size of the first readAll of a packet
    Capacity,    \* bytes the kernel buffers
    MaxPackets   \* bound: packets written

ASSUME ShapesAssumption ==
    /\ First \in Nat \ {0}
    /\ Shapes \subseteq Seq(Nat \ {0}) \ {<<>>}
    /\ \A s \in Shapes : s[1] = First

ASSUME CapacityAssumption == Capacity \in Nat \ {0} /\ MaxPackets \in Nat

VARIABLES
    link,               \* "up", "closed" by the writer, or "down": reset
    stream,             \* bytes under way
    wpc,                \* "idle", "loop" in writeAll, or "failed"
    packet,             \* the bytes writeAll is to send
    totalBytesWritten,
    writeMutex,
    written,            \* packets whose writeAll has returned true
    rpc,                \* "idle", "loop" in readAll, or "failed"
    buffer,             \* what readAll has read so far
    readMutex,
    piece,              \* which readAll of the packet it is
    assembled,          \* what the packet's earlier readAlls returned
    read                \* packets read

writerVars == <<wpc, packet, totalBytesWritten, writeMutex, written>>
readerVars == <<rpc, buffer, readMutex, piece, assembled, read>>
vars == <<link, stream, writerVars, readerVars>>

\* The bytes of the first i reads of a packet.
UpTo(shape) ==
    LET sum[i \in 0..Len(shape)] == IF i = 0 THEN 0 ELSE sum[i - 1] + shape[i]
    IN  sum

Total(shape) == UpTo(shape)[Len(shape)]

\* The bytes of the n-th packet written, each with the packet it belongs to.
PacketBytes(n, shape) ==
    [i \in 1..Total(shape) |-> [packet |-> n, index |-> i, shape |-> shape]]

-----------------------------------------------------------------------------
(***************************************************************************)
(* writeAll.                                                               *)
(***************************************************************************)
WriteAll ==
    /\ wpc = "idle" /\ ~writeMutex
    /\ link # "closed"
    /\ Len(written) < MaxPackets
    /\ \E shape \in Shapes : packet' = PacketBytes(Len(written) + 1, shape)
    /\ writeMutex' = TRUE
    /\ totalBytesWritten' = 0
    /\ wpc' = "loop"
    /\ UNCHANGED <<link, stream, written, readerVars>>

\* Mutant: one send(), without a loop.
AnyBytesWritten == totalBytesWritten > 0

AllBytesWritten == totalBytesWritten >= Len(packet)

\* send() takes one byte or more of what is left; what it takes for a
\* connection that was reset is lost.
Write ==
    /\ wpc = "loop" /\ ~AllBytesWritten
    /\ \E n \in 1..(Len(packet) - totalBytesWritten) :
          /\ \/ /\ link = "up"
                /\ Len(stream) + n <= Capacity
                /\ stream' = stream \o SubSeq(packet, totalBytesWritten + 1,
                                              totalBytesWritten + n)
             \/ /\ link = "down"
                /\ UNCHANGED stream
          /\ totalBytesWritten' = totalBytesWritten + n
    /\ UNCHANGED <<link, wpc, packet, writeMutex, written, readerVars>>

\* The mutex stays locked.
WriteFails ==
    /\ wpc = "loop" /\ ~AllBytesWritten
    /\ link = "down"
    /\ wpc' = "failed"
    /\ UNCHANGED <<link, stream, packet, totalBytesWritten, writeMutex,
                   written, readerVars>>

WriteReturns ==
    /\ wpc = "loop" /\ AllBytesWritten
    /\ writeMutex' = FALSE
    /\ written' = Append(written, packet)
    /\ wpc' = "idle"
    /\ UNCHANGED <<link, stream, packet, totalBytesWritten, readerVars>>

-----------------------------------------------------------------------------
(***************************************************************************)
(* readAll.                                                                *)
(***************************************************************************)
\* Later sizes are taken from the bytes read before.
Wanted == IF piece = 1 THEN First ELSE assembled[1].shape[piece]

ReadAll ==
    /\ rpc = "idle" /\ ~readMutex
    /\ readMutex' = TRUE
    /\ buffer' = <<>>
    /\ rpc' = "loop"
    /\ UNCHANGED <<link, stream, writerVars, piece, assembled, read>>

\* Mutant: recv() is asked for the whole size again after a partial one.
WholeSize == Wanted

Remaining == Wanted - Len(buffer)

Read ==
    /\ rpc = "loop" /\ Len(buffer) < Wanted
    /\ \E n \in 1..Len(stream) :
          /\ n <= Remaining
          /\ buffer' = buffer \o SubSeq(stream, 1, n)
          /\ stream' = SubSeq(stream, n + 1, Len(stream))
    /\ UNCHANGED <<link, writerVars, rpc, readMutex, piece, assembled, read>>

\* recv() reports a reset, or returns 0 at the end of the stream.  The mutex
\* stays locked.
ReadFails ==
    /\ rpc = "loop" /\ Len(buffer) < Wanted
    /\ \/ link = "down"
       \/ link = "closed" /\ stream = <<>>
    /\ rpc' = "failed"
    /\ UNCHANGED <<link, stream, writerVars, buffer, readMutex, piece,
                   assembled, read>>

\* Mutant: the mutex is unlocked on the error return instead.
KeepsReadMutex == readMutex' = readMutex

UnlocksReadMutex == readMutex' = FALSE

\* The last readAll of a packet completes it.
ReadReturns ==
    /\ rpc = "loop" /\ Len(buffer) >= Wanted
    /\ UnlocksReadMutex
    /\ LET bytes == assembled \o buffer
       IN  \/ /\ piece < Len(bytes[1].shape)
              /\ piece' = piece + 1
              /\ assembled' = bytes
              /\ UNCHANGED read
           \/ /\ piece = Len(bytes[1].shape)
              /\ piece' = 1
              /\ assembled' = <<>>
              /\ read' = Append(read, bytes)
    /\ rpc' = "idle"
    /\ UNCHANGED <<link, stream, writerVars, buffer>>

-----------------------------------------------------------------------------
\* The writer closes its descriptor between two packets.
Close ==
    /\ link = "up" /\ wpc = "idle"
    /\ link' = "closed"
    /\ UNCHANGED <<stream, writerVars, readerVars>>

Reset ==
    /\ link = "up"
    /\ link' = "down"
    /\ UNCHANGED <<stream, writerVars, readerVars>>

Init ==
    /\ link = "up" /\ stream = <<>>
    /\ wpc = "idle" /\ packet = <<>> /\ totalBytesWritten = 0
    /\ writeMutex = FALSE /\ written = <<>>
    /\ rpc = "idle" /\ buffer = <<>> /\ readMutex = FALSE
    /\ piece = 1 /\ assembled = <<>> /\ read = <<>>

WriterStep == Write \/ WriteFails \/ WriteReturns
ReaderStep == ReadAll \/ Read \/ ReadFails \/ ReadReturns

Next == WriteAll \/ WriterStep \/ ReaderStep \/ Close \/ Reset

Spec == Init /\ [][Next]_vars

\* A thread inside writeAll goes on when send() can, the reader goes on reading.
FairSpec == Spec /\ WF_vars(WriterStep) /\ WF_vars(ReaderStep)

-----------------------------------------------------------------------------
\* Packets travel whole, although none of the calls that move them does: a
\* packet is sent with its last byte, before writeAll has returned, and
\* received with the return of its last readAll.  What a failed writeAll leaves
\* on the stream is never taken for a packet, and the end of the stream is
\* reported only between two packets.
Sent ==
    IF wpc = "loop" /\ totalBytesWritten = Len(packet)
    THEN Append(written, packet) ELSE written

Pipe ==
    INSTANCE PacketPipe WITH
        Packets <- {PacketBytes(n, s) : n \in 1..MaxPackets, s \in Shapes},
        sent <- Sent,
        received <- read,
        link <- link,
        writer <- IF wpc = "failed" THEN "failed" ELSE "up",
        reader <- IF rpc = "failed" THEN "failed" ELSE "up"

ImplementsPacketPipe == Pipe!Spec

\* A packet that is larger than the kernel's buffer gets through: writeAll
\* returns, for the reader makes room.
WriteAllReturns == wpc = "loop" ~> wpc # "loop"

\* What was written is read, unless the connection is reset; closing it loses
\* nothing.
WrittenIsRead ==
    \A n \in 1..MaxPackets :
        Len(written) >= n ~> Len(read) >= n \/ link = "down"

-----------------------------------------------------------------------------
(***************************************************************************)
(* The inductive invariant of StreamProofs.                                *)
(***************************************************************************)
Bytes == [packet : Nat, index : Nat, shape : Shapes]

StreamTypeOK ==
    /\ link \in {"up", "closed", "down"}
    /\ stream \in Seq(Bytes)
    /\ wpc \in {"idle", "loop", "failed"}
    /\ packet \in Seq(Bytes)
    /\ totalBytesWritten \in Nat
    /\ writeMutex \in BOOLEAN
    /\ written \in Seq(Seq(Bytes))
    /\ rpc \in {"idle", "loop", "failed"}
    /\ buffer \in Seq(Bytes)
    /\ readMutex \in BOOLEAN
    /\ piece \in Nat \ {0}
    /\ assembled \in Seq(Bytes)
    /\ read \in Seq(Seq(Bytes))

\* writeAll works on the next packet, and fails with bytes of it left, after a
\* reset.  The connection is not closed meanwhile.
Writing ==
    wpc # "idle" =>
        /\ Len(written) < MaxPackets
        /\ \E s \in Shapes : packet = PacketBytes(Len(written) + 1, s)
        /\ totalBytesWritten <= Len(packet)
        /\ wpc = "loop" => link # "closed"
        /\ wpc = "failed" => link = "down" /\ totalBytesWritten < Len(packet)

\* The reader has read as many bytes as the reads before this one are for, and of
\* this one not more than it wants.
Reading ==
    /\ piece = 1 <=> assembled = <<>>
    /\ assembled # <<>> =>
          LET s == assembled[1].shape
          IN  piece <= Len(s) /\ Len(assembled) = UpTo(s)[piece - 1]
    /\ rpc # "idle" => Len(buffer) <= Wanted

\* The bytes that were handed over, of packets that are not read whole.
InBuffer == IF rpc = "idle" THEN <<>> ELSE buffer
Flight == assembled \o InBuffer \o stream

\* send() has taken the byte, of a packet that was sent or of the one writeAll
\* has still bytes left of.
HandedOver(b) ==
    \/ b.packet \in DOMAIN Sent /\ Sent[b.packet] = PacketBytes(b.packet, b.shape)
    \/ /\ wpc # "idle" /\ totalBytesWritten < Len(packet)
       /\ b.packet = Len(Sent) + 1 /\ packet = PacketBytes(b.packet, b.shape)
       /\ b.index <= totalBytesWritten

\* A byte of a packet is followed by the next one, and the last one by the first
\* byte of the next packet.
Runs(q) ==
    \A i \in DOMAIN q :
        /\ q[i].index \in 1..Total(q[i].shape)
        /\ i + 1 \in DOMAIN q =>
              IF q[i].index < Total(q[i].shape)
              THEN q[i + 1] = [packet |-> q[i].packet, index |-> q[i].index + 1,
                               shape |-> q[i].shape]
              ELSE q[i + 1].packet = q[i].packet + 1 /\ q[i + 1].index = 1

\* writeAll has handed over a part of its packet.
Partial ==
    wpc # "idle" /\ 0 < totalBytesWritten /\ totalBytesWritten < Len(packet)

\* Unless the connection was reset nothing that was handed over is missing at the
\* end.
Complete ==
    LET q == Flight IN
    link # "down" =>
        /\ q = <<>> => Len(read) = Len(Sent) /\ ~Partial
        /\ q # <<>> =>
              IF Partial
              THEN /\ q[Len(q)].packet = Len(Sent) + 1
                   /\ q[Len(q)].index = totalBytesWritten
              ELSE /\ q[Len(q)].packet = Len(Sent)
                   /\ q[Len(q)].index = Total(q[Len(q)].shape)

InOrder ==
    /\ Len(read) <= Len(Sent)
    /\ \A i \in DOMAIN read : read[i] = Sent[i]
    /\ Flight # <<>> => Flight[1].packet = Len(read) + 1 /\ Flight[1].index = 1
    /\ Runs(Flight)
    /\ \A i \in DOMAIN Flight : HandedOver(Flight[i])

\* What StreamProofs shows to be inductive.
StreamInv == StreamTypeOK /\ Writing /\ Reading /\ InOrder /\ Complete

=============================================================================
