------------------------------ MODULE PacketPipe -------------------------------
(***************************************************************************)
(* One direction of a connection, as module Connection sees it: a writeAll *)
(* that returns true hands over a whole packet, one that returns false     *)
(* nothing, and the packets are read whole and in order.  A reader fails   *)
(* only when the connection is reset, or closed with everything read.      *)
(***************************************************************************)
EXTENDS Naturals, Sequences

CONSTANT Packets

VARIABLES
    sent,      \* packets written, in order
    received,  \* packets read, in order
    link,      \* "up", "closed" by the writer, or "down": reset
    writer,    \* "up", or "failed": a writeAll has returned false
    reader     \* "up", or "failed": a readAll has returned false

vars == <<sent, received, link, writer, reader>>

Init ==
    /\ sent = <<>> /\ received = <<>>
    /\ link = "up" /\ writer = "up" /\ reader = "up"

Write ==
    /\ writer = "up" /\ link # "closed"
    /\ \E p \in Packets : sent' = Append(sent, p)
    /\ UNCHANGED <<received, link, writer, reader>>

WriteFails ==
    /\ writer = "up" /\ link = "down"
    /\ writer' = "failed"
    /\ UNCHANGED <<sent, received, link, reader>>

Read ==
    /\ reader = "up"
    /\ Len(received) < Len(sent)
    /\ received' = Append(received, sent[Len(received) + 1])
    /\ UNCHANGED <<sent, link, writer, reader>>

ReadFails ==
    /\ reader = "up"
    /\ \/ link = "down"
       \/ link = "closed" /\ received = sent
    /\ reader' = "failed"
    /\ UNCHANGED <<sent, received, link, writer>>

LinkEnds ==
    /\ link = "up"
    /\ link' \in {"closed", "down"}
    /\ UNCHANGED <<sent, received, writer, reader>>

Next == Write \/ WriteFails \/ Read \/ ReadFails \/ LinkEnds

Spec == Init /\ [][Next]_vars

=============================================================================
