-------------------------------- MODULE Client --------------------------------
(***************************************************************************)
(* The client library (client/gloip_client.cpp, IOHandler, TcpIOHandler):  *)
(* every thread makes forwarded calls, one at a time, over its own         *)
(* connection, and says goodbye to the server when it exits.               *)
(*                                                                         *)
(* A step is one writeAll, one readAll, or the code between two of them.   *)
(* The handler is the IOHandler in the thread's slot of connectionKey, or  *)
(* the one gloip_createConnection is about to put there.                   *)
(***************************************************************************)
EXTENDS Connection

VARIABLES
    pc,       \* where the thread is
    calls,    \* number of calls it has made
    fn,       \* the function it is calling
    cursor,   \* packets of the request written, then results still to read
    handler,  \* its IOHandler
    outcome   \* what its finished calls returned, in order

clientVars == <<pc, calls, fn, cursor, handler, outcome>>

PCs == {"idle", "connect", "hello", "welcome", "send", "response", "results",
        "stop", "bye", "exited"}

\* "ok" and "sent" are the two normal returns of gloip_execute, after a response
\* and without waiting for one; "failed" is a return with zeroed return value.
Outcomes == {"ok", "sent", "failed"}

Handlers == [conn : Calls, connected : BOOLEAN,
             readMutex : BOOLEAN, writeMutex : BOOLEAN]

ASSUME NoneAssumption == None \notin Handlers \cup FunctionShapes

Call(t) == <<t, calls[t]>>
Conn(t) == handler[t].conn

NewHandler(c) == [conn |-> c, connected |-> TRUE,
                  readMutex |-> FALSE, writeMutex |-> FALSE]

-----------------------------------------------------------------------------
(***************************************************************************)
(* IOHandler::writeAll and readAll lock a mutex of the handler and return  *)
(* without unlocking it when the socket call fails.                        *)
(***************************************************************************)
WriteAll(t, m) ==
    /\ ~handler[t].writeMutex
    /\ handler[t].connected
    /\ CliSend(Conn(t), m)

WriteAllFails(t) ==
    /\ ~handler[t].writeMutex
    /\ ~handler[t].connected \/ CliSendFails(Conn(t))

ReadAll(t) ==
    /\ ~handler[t].readMutex
    /\ handler[t].connected
    /\ CliRecv(Conn(t))

ReadAllFails(t) ==
    /\ ~handler[t].readMutex
    /\ ~handler[t].connected \/ CliRecvFails(Conn(t))

WriteLockLeft(h) == [h EXCEPT !.writeMutex = TRUE]
ReadLockLeft(h) == [h EXCEPT !.readMutex = TRUE]

Received(t) == Head(s2c[Conn(t)])

\* TcpIOHandler::disconnect leaves connected set when close() fails, which it
\* does for ever on a descriptor that is already released.
Disconnected(h) == [h EXCEPT !.connected = FALSE]

Disconnect(t, h) ==
    /\ cliOpen' = [cliOpen EXCEPT ![h.conn] = FALSE]
    /\ \/ /\ cliOpen[h.conn]
          /\ handler' = [handler EXCEPT ![t] = Disconnected(h)]
          /\ UNCHANGED faults
       \/ /\ IF cliOpen[h.conn] THEN Fault("close") ELSE UNCHANGED faults
          /\ handler' = [handler EXCEPT ![t] = h]

\* The end of a call: the locals of gloip_execute go out of scope.
Return(t, result) ==
    /\ pc' = [pc EXCEPT ![t] = "idle"]
    /\ fn' = [fn EXCEPT ![t] = None]
    /\ cursor' = [cursor EXCEPT ![t] = 0]
    /\ outcome' = [outcome EXCEPT ![t] = Append(@, result)]
    /\ UNCHANGED calls

Goto(t, label, k) ==
    /\ pc' = [pc EXCEPT ![t] = label]
    /\ cursor' = [cursor EXCEPT ![t] = k]
    /\ UNCHANGED <<calls, fn, outcome>>

-----------------------------------------------------------------------------
(***************************************************************************)
(* gloip_getConnection and gloip_createConnection.                         *)
(***************************************************************************)
\* Mutant: a handler is used again whether or not it is connected.
UsableIfPresent(h) == h # None

Usable(h) == h # None /\ h.connected

\* A generated function is called: gloip_execute takes the thread's connection,
\* or deletes a handler that is not connected and creates another.
Execute(t, f) ==
    /\ pc[t] = "idle"
    /\ calls[t] < MaxCalls
    /\ calls' = [calls EXCEPT ![t] = @ + 1]
    /\ fn' = [fn EXCEPT ![t] = f]
    /\ \/ /\ Usable(handler[t])
          /\ pc' = [pc EXCEPT ![t] = "send"]
          /\ UNCHANGED handler
       \/ /\ ~Usable(handler[t])
          /\ pc' = [pc EXCEPT ![t] = "connect"]
          /\ handler' = [handler EXCEPT ![t] = None]
    /\ UNCHANGED <<cursor, outcome, netVars, faults>>

\* The kernel of the server's host completes the connection and queues it.
Connect(t) ==
    /\ pc[t] = "connect"
    /\ listening
    /\ Len(backlog) < Backlog
    /\ backlog' = Append(backlog, Call(t))
    /\ cliOpen' = [cliOpen EXCEPT ![Call(t)] = TRUE]
    /\ srvOpen' = [srvOpen EXCEPT ![Call(t)] = TRUE]
    /\ handler' = [handler EXCEPT ![t] = NewHandler(Call(t))]
    /\ Goto(t, "hello", 0)
    /\ UNCHANGED <<c2s, s2c, broken, listening, faults>>

\* connect() fails: nothing listens, or the accept queue stays full, or a fault.
ConnectFails(t) ==
    /\ pc[t] = "connect"
    /\ IF listening /\ Len(backlog) < Backlog
         THEN Fault("connect") ELSE UNCHANGED faults
    /\ Return(t, "failed")
    /\ UNCHANGED <<handler, netVars>>

SendHello(t) ==
    /\ pc[t] = "hello"
    /\ WriteAll(t, Hello)
    /\ Goto(t, "welcome", 0)
    /\ UNCHANGED <<handler, s2c, cliOpen, srvOpen, broken, backlog,
                   listening, faults>>

RecvWelcome(t) ==
    /\ pc[t] = "welcome"
    /\ ReadAll(t)
    /\ Received(t) = Welcome
    /\ Goto(t, "send", 0)
    /\ UNCHANGED <<handler, c2s, cliOpen, srvOpen, broken, backlog,
                   listening, faults>>

\* Neither the handler nor, when close() fails, its descriptor is kept; the call
\* returns without a connection.
HandshakeFails(t) ==
    /\ \/ pc[t] = "hello" /\ WriteAllFails(t)
       \/ pc[t] = "welcome" /\ ReadAllFails(t)
    /\ cliOpen' = [cliOpen EXCEPT ![Conn(t)] = FALSE]
    /\ handler' = [handler EXCEPT ![t] = None]
    /\ Return(t, "failed")
    /\ UNCHANGED <<c2s, s2c, srvOpen, broken, backlog,
                   listening, faults>>

-----------------------------------------------------------------------------
(***************************************************************************)
(* gloip_sendRequest and gloip_waitForResponse.                            *)
(***************************************************************************)
RequestPacket(t) ==
    IF cursor[t] = 0
    THEN [type |-> "request", call |-> Call(t), fn |-> fn[t]]
    ELSE [type |-> "argument", call |-> Call(t), left |-> fn[t].args - cursor[t]]

\* Mutant: waits for the response of every function.
RequestSentAlwaysWaits(t) == Goto(t, "response", 0)

\* gloip_execute returns at once unless it waits for a response.
RequestSent(t) ==
    \/ fn[t].wait /\ Goto(t, "response", 0)
    \/ ~fn[t].wait /\ Return(t, "sent")

\* Writes the header, then the arguments in order.
SendPacket(t) ==
    /\ pc[t] = "send"
    /\ WriteAll(t, RequestPacket(t))
    /\ \/ cursor[t] < fn[t].args /\ Goto(t, "send", cursor[t] + 1)
       \/ cursor[t] = fn[t].args /\ RequestSent(t)
    /\ UNCHANGED <<handler, s2c, cliOpen, srvOpen, broken, backlog,
                   listening, faults>>

\* Of the header only the byte of numReturnArgs is looked at, whatever it is.
NumReturnArgs(p) == IF p.type = "response" THEN {p.outs} ELSE Bytes

RecvResponse(t) ==
    /\ pc[t] = "response"
    /\ ReadAll(t)
    /\ \E n \in NumReturnArgs(Received(t)) :
          \/ n = 0 /\ Return(t, "ok")
          \/ n > 0 /\ Goto(t, "results", n)
    /\ UNCHANGED <<handler, c2s, cliOpen, srvOpen, broken, backlog,
                   listening, faults>>

RecvResult(t) ==
    /\ pc[t] = "results"
    /\ ReadAll(t)
    /\ \/ cursor[t] = 1 /\ Return(t, "ok")
       \/ cursor[t] > 1 /\ Goto(t, "results", cursor[t] - 1)
    /\ UNCHANGED <<handler, c2s, cliOpen, srvOpen, broken, backlog,
                   listening, faults>>

SendRequestFails(t) ==
    /\ pc[t] = "send"
    /\ WriteAllFails(t)
    /\ Disconnect(t, WriteLockLeft(handler[t]))
    /\ Return(t, "failed")
    /\ UNCHANGED <<c2s, s2c, srvOpen, broken, backlog, listening>>

\* Mutant: a call whose response is lost is made again on a new connection.
WaitForResponseRetries(t) ==
    /\ pc[t] \in {"response", "results"}
    /\ ReadAllFails(t)
    /\ cliOpen' = [cliOpen EXCEPT ![Conn(t)] = FALSE]
    /\ handler' = [handler EXCEPT ![t] = None]
    /\ Goto(t, "connect", 0)
    /\ UNCHANGED <<c2s, s2c, srvOpen, broken, backlog,
                   listening, faults>>

WaitForResponseFails(t) ==
    /\ pc[t] \in {"response", "results"}
    /\ ReadAllFails(t)
    /\ Disconnect(t, ReadLockLeft(handler[t]))
    /\ Return(t, "failed")
    /\ UNCHANGED <<c2s, s2c, srvOpen, broken, backlog, listening>>

-----------------------------------------------------------------------------
(***************************************************************************)
(* gloip_cleanupHandler, run when the thread exits.                        *)
(***************************************************************************)
\* Mutant: no cleanup handler runs (the key was deleted).
ExitWithoutCleanup(t) ==
    /\ pc[t] = "idle"
    /\ Goto(t, "exited", 0)
    /\ UNCHANGED <<handler, netVars, faults>>

Exit(t) ==
    /\ pc[t] = "idle"
    /\ Goto(t, IF handler[t] = None THEN "exited" ELSE "stop", 0)
    /\ UNCHANGED <<handler, netVars, faults>>

SendStop(t) ==
    /\ pc[t] = "stop"
    /\ WriteAll(t, Stop)
    /\ Goto(t, "bye", 0)
    /\ UNCHANGED <<handler, s2c, cliOpen, srvOpen, broken, backlog,
                   listening, faults>>

\* The error returns of the cleanup handler do not disconnect.
CleanupFails(t) ==
    /\ \/ /\ pc[t] = "stop"
          /\ WriteAllFails(t)
          /\ handler' = [handler EXCEPT ![t] = WriteLockLeft(@)]
       \/ /\ pc[t] = "bye"
          /\ ReadAllFails(t)
          /\ handler' = [handler EXCEPT ![t] = ReadLockLeft(@)]
    /\ Goto(t, "exited", 0)
    /\ UNCHANGED <<netVars, faults>>

\* Whatever the answer is, the cleanup handler disconnects after it.
RecvBye(t) ==
    /\ pc[t] = "bye"
    /\ ReadAll(t)
    /\ Disconnect(t, handler[t])
    /\ Goto(t, "exited", 0)
    /\ UNCHANGED <<c2s, srvOpen, broken, backlog, listening>>

\* The program dies, of SIGPIPE for instance, which the library does not ignore.
\* Its threads are gone wherever they were; the kernel closes their descriptors.
ClientCrashes ==
    /\ Fault("clientcrash")
    /\ pc' = [t \in Threads |-> "exited"]
    /\ fn' = [t \in Threads |-> None]
    /\ cursor' = [t \in Threads |-> 0]
    /\ handler' = [t \in Threads |-> None]
    /\ cliOpen' = [c \in Conns |-> c = Stranger /\ cliOpen[c]]
    /\ UNCHANGED <<calls, outcome, c2s, s2c, srvOpen, broken, backlog, listening>>

\* The steps of the library; Execute and Exit are the program's choice.
ClientStep(t) ==
    \/ Connect(t)
    \/ ConnectFails(t)
    \/ SendHello(t)
    \/ RecvWelcome(t)
    \/ HandshakeFails(t)
    \/ SendPacket(t)
    \/ SendRequestFails(t)
    \/ RecvResponse(t)
    \/ RecvResult(t)
    \/ WaitForResponseFails(t)
    \/ SendStop(t)
    \/ RecvBye(t)
    \/ CleanupFails(t)

ClientInit ==
    /\ pc = [t \in Threads |-> "idle"]
    /\ calls = [t \in Threads |-> 0]
    /\ fn = [t \in Threads |-> None]
    /\ cursor = [t \in Threads |-> 0]
    /\ handler = [t \in Threads |-> None]
    /\ outcome = [t \in Threads |-> <<>>]

ClientTypeOK ==
    /\ pc \in [Threads -> PCs]
    /\ calls \in [Threads -> 0..MaxCalls]
    /\ fn \in [Threads -> Functions \cup {None}]
    /\ cursor \in [Threads -> Nat]
    /\ handler \in [Threads -> Handlers \cup {None}]
    /\ outcome \in [Threads -> Seq(Outcomes)]

=============================================================================
