------------------------------ MODULE Connection ------------------------------
(***************************************************************************)
(* The TCP connections between the client threads of a GLoIP program and   *)
(* its server, as the two sides see them: one packet queue per direction,  *)
(* a file descriptor per side, and the accept queue of the listening       *)
(* socket.  A packet is what one writeAll sends: a handshake or shutdown   *)
(* word, a request header, one argument, a response header, one result.    *)
(*                                                                         *)
(* A connection is opened by at most one call (gloip_getConnection creates *)
(* at most one per call), so it is named by that call.  The name of a call *)
(* and the number of arguments left to send after one are ghosts: packets  *)
(* carry them so that properties can say whose packets they are.           *)
(***************************************************************************)
EXTENDS Naturals, Sequences

CONSTANTS
    Threads,       \* client threads that use the library
    MaxCalls,      \* bound: calls a thread makes before it may only exit
    Functions,     \* the forwarded functions, see FunctionsAssumption
    Stranger,      \* the connection of a program that is not a GLoIP client
    None,          \* no handler, no request, no call
    SocketBuffer,  \* packets a direction holds before send() blocks
    Backlog,       \* connections the listening socket queues (listen(fd, 3))
    Faults,        \* the faults the environment may inject
    MaxFaults      \* bound: how many of them

VARIABLES
    c2s,      \* packets on their way to the server, per connection
    s2c,      \* packets on their way to the client, per connection
    cliOpen,  \* the client's descriptor of the connection is open
    srvOpen,  \* the server's descriptor is open (from the accept queue on)
    broken,   \* the connection was reset
    backlog,  \* connections not accepted yet
    listening,  \* the server's socket listens
    faults    \* number of faults injected so far

netVars == <<c2s, s2c, cliOpen, srvOpen, broken, backlog, listening>>

Calls == Threads \X (1..MaxCalls)
Conns == Calls \cup {Stranger}

FaultKinds == {"late", "connect", "accept", "close", "reset", "stranger",
               "silent", "servercrash", "clientcrash"}

\* A function is described by what the generated code passes to gloip_execute:
\* wait (waitForReturn, sent as sendResponse) and args (numArgs), and by outs,
\* the numReturnArgs the server counts after having run it.  Both numbers travel
\* as one byte.
Bytes == 0..255

FunctionShapes == [wait : BOOLEAN, args : Bytes, outs : Bytes]

ASSUME FunctionsAssumption == Functions \subseteq FunctionShapes

ASSUME BoundsAssumption ==
    /\ MaxCalls \in Nat
    /\ MaxFaults \in Nat
    /\ SocketBuffer \in Nat \ {0}
    /\ Backlog \in Nat \ {0}
    /\ Faults \subseteq FaultKinds

ASSUME StrangerAssumption == Stranger \notin Calls

(***************************************************************************)
(* Packets.                                                                *)
(***************************************************************************)
Hello == [type |-> "hello"]      \* 1, 8, 6, 7
Welcome == [type |-> "welcome"]  \* 5, 3, 0, 9
Stop == [type |-> "stop"]        \* 83, 84, 79, 80
Bye == [type |-> "bye"]          \* 79, 75, 33, 33
Junk == [type |-> "junk"]        \* whatever a program of another protocol sends

RequestPackets == [type : {"request"}, call : Calls, fn : Functions]
ArgumentPackets == [type : {"argument"}, call : Calls, left : Nat]
ResponsePackets == [type : {"response"}, call : Calls, outs : Bytes]
ResultPackets == [type : {"result"}, call : Calls]

ClientPackets == {Hello, Stop, Junk} \cup RequestPackets \cup ArgumentPackets
ServerPackets == {Welcome, Bye} \cup ResponsePackets \cup ResultPackets

-----------------------------------------------------------------------------
(***************************************************************************)
(* Socket calls of the client (recv and send on its descriptor).           *)
(***************************************************************************)
Alive(c) == cliOpen[c] /\ srvOpen[c] /\ ~broken[c]

\* send() blocks while the buffer is full; what is sent to a peer that is gone
\* is accepted by the kernel and lost.
CliSend(c, m) ==
    /\ cliOpen[c]
    /\ \/ /\ Alive(c)
          /\ Len(c2s[c]) < SocketBuffer
          /\ c2s' = [c2s EXCEPT ![c] = Append(@, m)]
       \/ /\ ~Alive(c)
          /\ UNCHANGED c2s

CliSendFails(c) == ~Alive(c)

CliRecv(c) ==
    /\ cliOpen[c]
    /\ s2c[c] # <<>>
    /\ s2c' = [s2c EXCEPT ![c] = Tail(@)]

\* A reset, a closed descriptor, or the end of the stream.  A peer that closes
\* with unread data resets the connection, which may overtake what it sent.
CliRecvFails(c) ==
    \/ broken[c]
    \/ ~cliOpen[c]
    \/ ~srvOpen[c] /\ (s2c[c] = <<>> \/ c2s[c] # <<>>)

(***************************************************************************)
(* Socket calls of the server.  Its threads never use a descriptor they    *)
(* have closed.                                                            *)
(***************************************************************************)
SrvSend(c, m) ==
    \/ /\ Alive(c)
       /\ Len(s2c[c]) < SocketBuffer
       /\ s2c' = [s2c EXCEPT ![c] = Append(@, m)]
    \/ /\ ~Alive(c)
       /\ UNCHANGED s2c

SrvSendFails(c) == ~Alive(c)

SrvRecv(c) ==
    /\ c2s[c] # <<>>
    /\ c2s' = [c2s EXCEPT ![c] = Tail(@)]

\* Mutant: recv() returns 0 at the end of the stream, which is taken for data.
SrvRecvFailsOnReset(c) == broken[c]

SrvRecvFails(c) ==
    \/ broken[c]
    \/ ~cliOpen[c] /\ (c2s[c] = <<>> \/ s2c[c] # <<>>)

\* TcpSocket::close: shutdown(), then close() only if shutdown() succeeded.  On
\* a connection that the network or a peer that closed with data unread has
\* reset, shutdown() fails with ENOTCONN and the descriptor stays.  (What SrvSend
\* sends to a peer already gone leaves no trace in s2c: that it resets the
\* connection too is left out.)
SrvClose(c) ==
    \/ srvOpen' = [srvOpen EXCEPT ![c] = FALSE]
    \/ /\ broken[c] \/ (~cliOpen[c] /\ s2c[c] # <<>>)
       /\ UNCHANGED srvOpen

-----------------------------------------------------------------------------
(***************************************************************************)
(* The environment.                                                        *)
(***************************************************************************)
Fault(kind) ==
    /\ kind \in Faults
    /\ faults < MaxFaults
    /\ faults' = faults + 1

\* The network resets a connection: packets queued before stay readable.
Reset(c) ==
    /\ Alive(c)
    /\ Fault("reset")
    /\ broken' = [broken EXCEPT ![c] = TRUE]
    /\ UNCHANGED <<c2s, s2c, cliOpen, srvOpen, backlog, listening>>

\* Another program connects to the port.  It sends something or nothing and
\* closes, or sends nothing and stays.
StrangerConnects ==
    /\ listening
    /\ ~srvOpen[Stranger] /\ ~cliOpen[Stranger]
    /\ c2s[Stranger] = <<>>
    /\ Len(backlog) < Backlog
    /\ \/ /\ Fault("stranger")
          /\ \E sent \in {<<>>, <<Junk>>} :
                c2s' = [c2s EXCEPT ![Stranger] = sent]
          /\ UNCHANGED cliOpen
       \/ /\ Fault("silent")
          /\ cliOpen' = [cliOpen EXCEPT ![Stranger] = TRUE]
          /\ UNCHANGED c2s
    /\ srvOpen' = [srvOpen EXCEPT ![Stranger] = TRUE]
    /\ backlog' = Append(backlog, Stranger)
    /\ UNCHANGED <<s2c, broken, listening>>

\* It may close after all, or never.
StrangerLeaves ==
    /\ cliOpen[Stranger]
    /\ cliOpen' = [cliOpen EXCEPT ![Stranger] = FALSE]
    /\ UNCHANGED <<c2s, s2c, srvOpen, broken, backlog, listening, faults>>

ConnectionInit ==
    /\ c2s = [c \in Conns |-> <<>>]
    /\ s2c = [c \in Conns |-> <<>>]
    /\ cliOpen = [c \in Conns |-> FALSE]
    /\ srvOpen = [c \in Conns |-> FALSE]
    /\ broken = [c \in Conns |-> FALSE]
    /\ backlog = <<>>
    /\ listening = ("late" \notin Faults)
    /\ faults = 0

ConnectionTypeOK ==
    /\ c2s \in [Conns -> Seq(ClientPackets)]
    /\ s2c \in [Conns -> Seq(ServerPackets)]
    /\ cliOpen \in [Conns -> BOOLEAN]
    /\ srvOpen \in [Conns -> BOOLEAN]
    /\ broken \in [Conns -> BOOLEAN]
    /\ backlog \in Seq(Conns)
    /\ listening \in BOOLEAN
    /\ faults \in 0..MaxFaults

=============================================================================
