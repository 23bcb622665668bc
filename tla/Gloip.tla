-------------------------------- MODULE Gloip ---------------------------------
(***************************************************************************)
(* GLoIP: client threads and the server, over TCP.                         *)
(***************************************************************************)
EXTENDS Client, Server

vars == <<clientVars, serverVars, netVars, faults>>

Init == ConnectionInit /\ ClientInit /\ ServerInit

ClientNext ==
    /\ \/ \E t \in Threads :
             \/ ClientStep(t)
             \/ \E f \in Functions : Execute(t, f)
             \/ Exit(t)
       \/ ClientCrashes
    /\ UNCHANGED serverVars

ServerNext ==
    /\ ListenerStep \/ ServerCrashes \/ \E c \in Conns : SessionStep(c)
    /\ UNCHANGED clientVars

Environment ==
    /\ StrangerConnects \/ StrangerLeaves \/ \E c \in Calls : Reset(c)
    /\ UNCHANGED <<clientVars, serverVars>>

\* Every thread has exited and the server waits for connections: the system may
\* stay so.  (Without faults no other state of it is final.)
Quiescent ==
    /\ \A t \in Threads : pc[t] = "exited"
    /\ listener = "accept" /\ backlog = <<>>
    /\ \A c \in Conns : session[c] \in {"none", "closed"}

Terminated == Quiescent /\ UNCHANGED vars

Next == ClientNext \/ ServerNext \/ Environment \/ Terminated

Spec == Init /\ [][Next]_vars

\* The operating system runs every thread that can run, a reset is reported to
\* both sides in the end, and a GL function returns.
Fairness ==
    /\ \A t \in Threads : WF_vars(ClientStep(t) /\ UNCHANGED serverVars)
    /\ WF_vars(ListenerStep /\ UNCHANGED clientVars)
    /\ \A c \in Conns : WF_vars(SessionStep(c) /\ UNCHANGED clientVars)

FairSpec == Spec /\ Fairness

\* Every variable has its type.
TypeOK == ConnectionTypeOK /\ ClientTypeOK /\ ServerTypeOK

-----------------------------------------------------------------------------
(***************************************************************************)
(* Safety.                                                                 *)
(***************************************************************************)
Executed == {log[i] : i \in DOMAIN log}

\* The client never looks at which call a response answers (the TODO of
\* gloip_waitForResponse), so all that keeps a call from returning the results
\* of another is that the packets on its connection while it waits are its own.
ResponseIsOurs ==
    \A t \in Threads :
        pc[t] \in {"response", "results"} /\ cliOpen[Conn(t)] =>
            \A i \in DOMAIN s2c[Conn(t)] : s2c[Conn(t)][i].call = Call(t)

\* "The server should never send a response if the client did not request one
\* to preserve the state of the protocol": a connection that will be used again
\* has nothing left to read between two calls, while a request is written and
\* when the thread exits, whatever the server thread is still doing.
InStep ==
    \A t \in Threads :
        /\ pc[t] \in {"idle", "send", "stop"}
        /\ handler[t] # None
        /\ cliOpen[Conn(t)]
        => s2c[Conn(t)] = <<>>

\* The server runs a function only when the client has written the whole of the
\* request: no GL call sees arguments that are still being sent.
NoEarlyExecution ==
    \A t \in Threads : pc[t] = "send" => Call(t) \notin Executed

\* A failed writeAll or readAll leaves its mutex locked for ever.  As long as
\* close() does not fail, no thread that makes a call waits for such a mutex:
\* the handler was disconnected, and the next call makes another.
CallsNeverSelfDeadlock ==
    "close" \notin Faults =>
        \A t \in Threads :
            pc[t] \in {"hello", "welcome", "send", "response", "results"} =>
                ~handler[t].writeMutex /\ ~handler[t].readMutex

\* A failing connection hurts one call, of the thread it belongs to: without
\* other faults, and with room in the accept queue, while the server accepts
\* connections a call fails only on a connection that was reset, and that no call
\* before it has failed on.
FailureIsContained ==
    Faults \subseteq {"reset", "stranger"} =>
        \/ listener = "returned"
        \/ \A t \in Threads : \A k \in DOMAIN outcome[t] :
              outcome[t][k] = "failed" =>
                  \E n \in 1..k :
                      /\ broken[<<t, n>>]
                      /\ \A j \in n..(k - 1) : outcome[t][j] # "failed"

\* The goodbye is answered only after everything was executed that the thread
\* sent over the connection, the calls it did not wait for included: the exit
\* of a thread is the one point where it knows that they were.
GoodbyeAfterAllCalls ==
    \A t \in Threads :
        pc[t] = "bye" /\ s2c[Conn(t)] # <<>> =>
            \A n \in Conn(t)[2]..calls[t] : <<t, n>> \in Executed

\* Client, connections and server together implement remote calls as the
\* module RemoteCall specifies them, whatever fails.
RC == INSTANCE RemoteCall WITH
          Threads <- Threads, MaxCalls <- MaxCalls,
          calls <- calls, outcome <- outcome, log <- log

ImplementsRemoteCall == RC!Spec

-----------------------------------------------------------------------------
(***************************************************************************)
(* Liveness, under FairSpec.                                               *)
(***************************************************************************)
Established == {"send", "response", "results"}

\* The thread is about to lock a mutex that a failed call of its own left locked,
\* which happens when the handler could not be disconnected.
SelfLocked(t) ==
    \/ pc[t] = "send" /\ handler[t].writeMutex
    \/ pc[t] \in {"response", "results"} /\ handler[t].readMutex

\* The accept loop waits for the handshake of a program that sends nothing.
SilentPeer == listener = "hello" /\ peer = Stranger /\ cliOpen[Stranger]

\* A call returns, unless its handshake waits for a server that has stopped
\* accepting connections, or that waits for ever for another peer: there is no
\* timeout on either side.  A call that is past the handshake depends on neither.
CallReturns ==
    /\ \A t \in Threads :
          pc[t] \in Established ~> pc[t] \in {"idle", "exited"} \/ SelfLocked(t)
    /\ \/ <>[]SilentPeer
       \/ \A t \in Threads :
             pc[t] # "idle" ~> \/ pc[t] \in {"idle", "stop", "bye", "exited"}
                               \/ SelfLocked(t)
                               \/ listener = "returned"

\* What a call that did not wait has sent is executed.
SentIsExecuted ==
    \A c \in Calls :
        (c[2] \in DOMAIN outcome[c[1]] /\ outcome[c[1]][c[2]] # "failed")
            ~> c \in Executed

\* A server thread does not outlive its connection: when the client has closed its
\* side, after an error, at its exit, or because it died in the middle of a
\* request, the thread notices and ends.
AbandonedSessionEnds ==
    \A c \in Calls :
        session[c] # "none" /\ ~cliOpen[c] ~> session[c] = "closed"

\* The goodbye of an exiting thread ends its server thread, which closes its
\* descriptor, and the client's.
ExitEndsSession ==
    \A c \in Calls :
        (pc[c[1]] = "exited" /\ session[c] # "none")
            ~> session[c] = "closed" /\ ~srvOpen[c] /\ ~cliOpen[c]

-----------------------------------------------------------------------------
(***************************************************************************)
(* What the documentation or a comment says and the code does not do.      *)
(***************************************************************************)
\* README.md: the server "continually accepts connections and requests from
\* the client".
ServerKeepsAccepting == listener # "returned"

\* gloip_handleNextCommand: "delete all the Argument objects because they're
\* dynamically allocated".
ArgumentsDeleted == \A c \in Conns : session[c] = "closed" => live[c] = 0

\* gloip_cleanupHandler: "IO Error sending thread shutdown request!", then the
\* thread goes on exiting.
ExitCompletes == \A t \in Threads : pc[t] = "stop" ~> pc[t] = "exited"

-----------------------------------------------------------------------------
(***************************************************************************)
(* The inductive invariant of GloipProofs.                                 *)
(***************************************************************************)
InCall == {"connect", "hello", "welcome", "send", "response", "results"}
Connected == InCall \ {"connect"}
Exiting == {"stop", "bye"}

\* A call knows its function, its number and how much of the request it has
\* written.
CallShape ==
    \A t \in Threads :
        /\ pc[t] \in InCall => fn[t] \in Functions /\ calls[t] \in 1..MaxCalls
        /\ pc[t] = "idle" => cursor[t] = 0
        /\ pc[t] = "send" => cursor[t] <= fn[t].args

\* IO is done on a handler, and a handler belongs to one thread.
HandlerShape ==
    \A t \in Threads :
        /\ pc[t] \in Connected \cup Exiting => handler[t] # None
        /\ handler[t] # None => handler[t].conn[1] = t

\* A request that is handled is known, and the arguments that were read for it
\* have not been deleted.
RequestShape ==
    \A c \in Conns :
        /\ session[c] \in {"arguments", "respond"} => request[c] # None
        /\ session[c] = "arguments" => done[c] <= live[c]
        /\ session[c] = "respond" => request[c].fn.args <= live[c]

\* Unless close() may fail: a handler that is connected has both mutexes free
\* and its descriptor open, and a call does IO on a connected handler only.
LockDiscipline ==
    "close" \notin Faults =>
        \A t \in Threads :
            /\ /\ handler[t] # None
               /\ handler[t].connected
               /\ pc[t] # "exited"
               => /\ ~handler[t].writeMutex
                  /\ ~handler[t].readMutex
                  /\ cliOpen[Conn(t)]
            /\ pc[t] \in Connected => handler[t].connected

\* What GloipProofs shows to be inductive.
IInv == TypeOK /\ CallShape /\ HandlerShape /\ RequestShape /\ LockDiscipline

=============================================================================
