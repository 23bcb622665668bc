-------------------------------- MODULE Server --------------------------------
(***************************************************************************)
(* The server library (server/gloip_server.cpp, TcpServer, TcpSocket): an  *)
(* accept loop that shakes hands with one connection at a time and a       *)
(* detached thread per connection that executes its requests.              *)
(***************************************************************************)
EXTENDS Connection

VARIABLES
    listener,  \* where gloip_startServer is
    peer,      \* the connection it shakes hands with
    session,   \* where the thread of a connection is in gloip_mainLoop
    request,   \* the request it is handling
    done,      \* arguments of it read, then packets of the response written
    live,      \* Argument objects allocated for a connection and not deleted
    log        \* the calls executed, in order

serverVars == <<listener, peer, session, request, done, live, log>>

ListenerPCs == {"start", "accept", "hello", "welcome", "returned"}
SessionPCs == {"none", "command", "arguments", "respond", "bye", "close",
               "closed"}
Requests == [call : Calls, fn : Functions]

ASSUME PeerAssumption == None \notin Conns \cup Requests

-----------------------------------------------------------------------------
(***************************************************************************)
(* gloip_startServer.                                                      *)
(***************************************************************************)
\* TcpServer::startServer.  In the runs with the fault "late" the program of the
\* server starts it some time after the first calls.
StartServer ==
    /\ listener = "start"
    /\ listening' = TRUE
    /\ listener' = "accept"
    /\ UNCHANGED <<peer, session, request, done, live, log,
                   c2s, s2c, cliOpen, srvOpen, broken, backlog, faults>>

\* socket(), bind() or listen() fails.
StartServerFails ==
    /\ listener = "start"
    /\ Fault("late")
    /\ listener' = "returned"
    /\ UNCHANGED <<peer, session, request, done, live, log, netVars>>

Accept ==
    /\ listener = "accept"
    /\ backlog # <<>>
    /\ peer' = Head(backlog)
    /\ backlog' = Tail(backlog)
    /\ listener' = "hello"
    /\ UNCHANGED <<session, request, done, live, log,
                   c2s, s2c, cliOpen, srvOpen, broken, listening, faults>>

AcceptFails ==
    /\ listener = "accept"
    /\ Fault("accept")
    /\ listener' = "returned"
    /\ UNCHANGED <<peer, session, request, done, live, log, netVars>>

RecvHello ==
    /\ listener = "hello"
    /\ SrvRecv(peer)
    /\ Head(c2s[peer]) = Hello
    /\ listener' = "welcome"
    /\ UNCHANGED <<peer, session, request, done, live, log,
                   s2c, cliOpen, srvOpen, broken, backlog, listening, faults>>

\* Another protocol: close the connection and go on accepting.
RejectHello ==
    /\ listener = "hello"
    /\ SrvRecv(peer)
    /\ Head(c2s[peer]) # Hello
    /\ SrvClose(peer)
    /\ listener' = "accept"
    /\ peer' = None
    /\ UNCHANGED <<session, request, done, live, log,
                   s2c, cliOpen, broken, backlog, listening, faults>>

SendWelcome ==
    /\ listener = "welcome"
    /\ SrvSend(peer, Welcome)
    /\ session' = [session EXCEPT ![peer] = "command"]
    /\ listener' = "accept"
    /\ peer' = None
    /\ UNCHANGED <<request, done, live, log,
                   c2s, cliOpen, srvOpen, broken, backlog, listening, faults>>

\* A failure of one connection's handshake: close it and return false.
ListenerReturns ==
    /\ \/ listener = "hello" /\ SrvRecvFails(peer)
       \/ listener = "welcome" /\ SrvSendFails(peer)
    /\ SrvClose(peer)
    /\ listener' = "returned"
    /\ peer' = None
    /\ UNCHANGED <<session, request, done, live, log,
                   c2s, s2c, cliOpen, broken, backlog, listening, faults>>

ListenerStep ==
    \/ StartServer
    \/ StartServerFails
    \/ Accept
    \/ AcceptFails
    \/ RecvHello
    \/ RejectHello
    \/ SendWelcome
    \/ ListenerReturns

-----------------------------------------------------------------------------
(***************************************************************************)
(* gloip_handleNextCommand and gloip_mainLoop, on the thread of c.         *)
(***************************************************************************)
RecvRequest(c) ==
    /\ session[c] = "command"
    /\ SrvRecv(c)
    /\ Head(c2s[c]).type = "request"
    /\ session' = [session EXCEPT ![c] = "arguments"]
    /\ request' = [request EXCEPT ![c] = [call |-> Head(c2s[c]).call,
                                          fn |-> Head(c2s[c]).fn]]
    /\ done' = [done EXCEPT ![c] = 0]
    /\ UNCHANGED <<listener, peer, live, log,
                   s2c, cliOpen, srvOpen, broken, backlog, listening, faults>>

RecvStop(c) ==
    /\ session[c] = "command"
    /\ SrvRecv(c)
    /\ Head(c2s[c]) = Stop
    /\ session' = [session EXCEPT ![c] = "bye"]
    /\ UNCHANGED <<listener, peer, request, done, live, log,
                   s2c, cliOpen, srvOpen, broken, backlog, listening, faults>>

\* gloip_readArgument allocates the Argument.
ReadArgument(c) ==
    /\ session[c] = "arguments"
    /\ done[c] < request[c].fn.args
    /\ SrvRecv(c)
    /\ Head(c2s[c]).type = "argument"
    /\ done' = [done EXCEPT ![c] = @ + 1]
    /\ live' = [live EXCEPT ![c] = @ + 1]
    /\ UNCHANGED <<listener, peer, session, request, log,
                   s2c, cliOpen, srvOpen, broken, backlog, listening, faults>>

\* Mutant: the argument loop stops one argument short.
AllButOneArgumentRead(c) == done[c] + 1 >= request[c].fn.args

AllArgumentsRead(c) == done[c] = request[c].fn.args

\* Mutant: gloip_handleNextCommand returns false after a request.
EndRequestEndsSession(c) ==
    /\ session' = [session EXCEPT ![c] = "close"]
    /\ request' = [request EXCEPT ![c] = None]
    /\ done' = [done EXCEPT ![c] = 0]

EndRequest(c) ==
    /\ session' = [session EXCEPT ![c] = "command"]
    /\ request' = [request EXCEPT ![c] = None]
    /\ done' = [done EXCEPT ![c] = 0]

\* Mutant: answers a request that asked for no response.
RunFunctionAlwaysResponds(c) ==
    /\ session[c] = "arguments"
    /\ AllArgumentsRead(c)
    /\ log' = Append(log, request[c].call)
    /\ session' = [session EXCEPT ![c] = "respond"]
    /\ done' = [done EXCEPT ![c] = 0]
    /\ UNCHANGED <<listener, peer, request, live, netVars, faults>>

\* Mutant: the generated function returns from its argument check, off by one,
\* before it has called the GL function.
RunFunctionSkipped(c) ==
    /\ session[c] = "arguments"
    /\ AllArgumentsRead(c)
    /\ UNCHANGED log
    /\ \/ /\ request[c].fn.wait
          /\ session' = [session EXCEPT ![c] = "respond"]
          /\ done' = [done EXCEPT ![c] = 0]
          /\ UNCHANGED request
       \/ /\ ~request[c].fn.wait
          /\ EndRequest(c)
    /\ UNCHANGED <<listener, peer, live, netVars, faults>>

\* The GL function runs.  Without a response to send the handler returns at
\* once, and the Argument objects stay allocated.
RunFunction(c) ==
    /\ session[c] = "arguments"
    /\ AllArgumentsRead(c)
    /\ log' = Append(log, request[c].call)
    /\ \/ /\ request[c].fn.wait
          /\ session' = [session EXCEPT ![c] = "respond"]
          /\ done' = [done EXCEPT ![c] = 0]
          /\ UNCHANGED request
       \/ /\ ~request[c].fn.wait
          /\ EndRequest(c)
    /\ UNCHANGED <<listener, peer, live, netVars, faults>>

ResponsePacket(c) ==
    IF done[c] = 0
    THEN [type |-> "response", call |-> request[c].call,
          outs |-> request[c].fn.outs]
    ELSE [type |-> "result", call |-> request[c].call]

\* Mutant: the cleanup of SendResponse deletes an array of arguments twice.
DeleteArgumentsTwice(c) == live' = [live EXCEPT ![c] = @ - 2 * request[c].fn.args]

DeleteArguments(c) == live' = [live EXCEPT ![c] = @ - request[c].fn.args]

\* Writes the response header, then the results; after the last one the
\* arguments are deleted.
SendResponse(c) ==
    /\ session[c] = "respond"
    /\ SrvSend(c, ResponsePacket(c))
    /\ \/ /\ done[c] < request[c].fn.outs
          /\ done' = [done EXCEPT ![c] = @ + 1]
          /\ UNCHANGED <<session, request, live>>
       \/ /\ done[c] = request[c].fn.outs
          /\ EndRequest(c)
          /\ DeleteArguments(c)
    /\ UNCHANGED <<listener, peer, log,
                   c2s, cliOpen, srvOpen, broken, backlog, listening, faults>>

SendBye(c) ==
    /\ session[c] = "bye"
    /\ SrvSend(c, Bye)
    /\ session' = [session EXCEPT ![c] = "close"]
    /\ UNCHANGED <<listener, peer, request, done, live, log,
                   c2s, cliOpen, srvOpen, broken, backlog, listening, faults>>

\* gloip_handleNextCommand returns false on an IO error.
CommandFails(c) ==
    /\ \/ session[c] = "command" /\ SrvRecvFails(c)
       \/ /\ session[c] = "arguments"
          /\ ~AllArgumentsRead(c)
          /\ SrvRecvFails(c)
       \/ session[c] \in {"respond", "bye"} /\ SrvSendFails(c)
    /\ session' = [session EXCEPT ![c] = "close"]
    /\ request' = [request EXCEPT ![c] = None]
    /\ done' = [done EXCEPT ![c] = 0]
    /\ UNCHANGED <<listener, peer, live, log, netVars, faults>>

CloseSession(c) ==
    /\ session[c] = "close"
    /\ SrvClose(c)
    /\ session' = [session EXCEPT ![c] = "closed"]
    /\ UNCHANGED <<listener, peer, request, done, live, log,
                   c2s, s2c, cliOpen, broken, backlog, listening, faults>>

\* The server's process dies, and all its threads with it; a write of one thread
\* to a connection its client has reset is enough, for SIGPIPE is not ignored.
\* Whoever runs the server starts it again.
ServerCrashes ==
    /\ listening
    /\ Fault("servercrash")
    /\ listening' = FALSE
    /\ backlog' = <<>>
    /\ srvOpen' = [c \in Conns |-> FALSE]
    /\ listener' = "start"
    /\ peer' = None
    /\ session' = [c \in Conns |-> IF session[c] = "none" THEN "none" ELSE "closed"]
    /\ request' = [c \in Conns |-> None]
    /\ done' = [c \in Conns |-> 0]
    /\ live' = [c \in Conns |-> 0]
    /\ UNCHANGED <<log, c2s, s2c, cliOpen, broken>>

SessionStep(c) ==
    \/ RecvRequest(c)
    \/ RecvStop(c)
    \/ ReadArgument(c)
    \/ RunFunction(c)
    \/ SendResponse(c)
    \/ SendBye(c)
    \/ CommandFails(c)
    \/ CloseSession(c)

ServerInit ==
    /\ listener = IF listening THEN "accept" ELSE "start"
    /\ peer = None
    /\ session = [c \in Conns |-> "none"]
    /\ request = [c \in Conns |-> None]
    /\ done = [c \in Conns |-> 0]
    /\ live = [c \in Conns |-> 0]
    /\ log = <<>>

ServerTypeOK ==
    /\ listener \in ListenerPCs
    /\ peer \in Conns \cup {None}
    /\ session \in [Conns -> SessionPCs]
    /\ request \in [Conns -> Requests \cup {None}]
    /\ done \in [Conns -> Nat]
    /\ live \in [Conns -> Nat]
    /\ log \in Seq(Calls)

=============================================================================
