---------------------------- MODULE ProtocolProofs -----------------------------
(***************************************************************************)
(* PInv of module Protocol is an invariant of the system, for any threads, *)
(* calls, functions and faults.  What the client may rely on follows: its  *)
(* connection is in step, the answer is that of its own call, nothing runs *)
(* before it was sent whole, a goodbye comes last; the system implements   *)
(* the remote calls of module RemoteCall; and a reset hurts one call.      *)
(***************************************************************************)
EXTENDS ProtocolServer, FiniteSetTheorems

\* The initial states satisfy the invariant: nobody has said anything.
THEOREM InitPInv == Init => PInv
<1> SUFFICES ASSUME Init PROVE PInv
  OBVIOUS
<1>1. /\ \A t \in Threads : /\ pc[t] = "idle" /\ calls[t] = 0 /\ cursor[t] = 0
                            /\ handler[t] = None /\ outcome[t] = <<>>
      /\ \A c \in Conns : /\ c2s[c] = <<>> /\ s2c[c] = <<>>
                          /\ ~cliOpen[c] /\ ~srvOpen[c] /\ session[c] = "none"
      /\ backlog = <<>> /\ peer = None /\ listener \in {"accept", "start"}
      /\ Executed = {}
  BY DEF Init, ConnectionInit, ClientInit, ServerInit, Executed
<1>2. Queued /\ NoStrangers
  BY <1>1, CallPairs DEF Queued, NoStrangers, Conns
<1>3. ASSUME NEW t \in Threads PROVE ThreadInv(t)
  <2>1. Slot(t) /\ Returned(t) /\ Handshake(t) /\ WrittenWhole(t) /\ ~InSession(t)
    BY <1>1, CallPairs
       DEF Slot, Returned, Handshake, WrittenWhole, InSession, InCall, Usable
  <2> QED BY <2>1 DEF ThreadInv, NothingLost, OneAwaited, Answer
<1>4. ASSUME NEW c \in Calls PROVE ConnectionInv(c)
  BY <1>1, CallPairs
     DEF ConnectionInv, Opened, Unopened, Stream, Goodbye, Used, Serving
<1> QED BY <1>2, <1>3, <1>4 DEF PInv

\* Every step preserves it.
THEOREM NextPInv == IInv /\ PInv /\ [Next]_vars => PInv'
<1> SUFFICES ASSUME IInv, PInv, [Next]_vars PROVE PInv'
  OBVIOUS
<1>1. CASE ClientNext
  BY <1>1, ClientStepKept, ClientCrashKept DEF ClientNext, Step
<1>2. CASE ServerNext
  <2>1. CASE ListenerStep
    BY <1>2, <2>1, BystanderKept, ShakingKept DEF ServerNext, ListenerStep,
       Bystander
  <2>2. CASE ServerCrashes
    BY <1>2, <2>2, BystanderKept DEF ServerNext, Bystander
  <2>3. CASE \E c \in Conns : SessionStep(c)
    BY <1>2, <2>3, SessionKept DEF ServerNext
  <2> QED BY <1>2, <2>1, <2>2, <2>3 DEF ServerNext
<1>3. CASE Environment
  BY <1>3, BystanderKept DEF Environment, Bystander
<1>4. CASE UNCHANGED vars
  <2>1. /\ UNCHANGED <<clientVars, serverVars, netVars>> /\ Executed' = Executed
    BY <1>4 DEF vars, Executed, serverVars
  <2>2. Queued' /\ NoStrangers'
    BY <2>1 DEF PInv, Queued, NoStrangers, serverVars, netVars
  <2>3. ASSUME NEW u \in Threads PROVE Own(u)'
    <3>1. Quiet(u)
      BY <2>1 DEF Quiet, SameThread, SameConnection, SameSession, SameExecuted,
                  Alive, clientVars, serverVars, netVars
    <3> QED BY <3>1, QuietThread DEF PInv, Own
  <2> QED BY <2>2, <2>3, CallPairs DEF PInv, Own
<1> QED BY <1>1, <1>2, <1>3, <1>4 DEF Next, Terminated

\* PInv is an invariant of the system.
THEOREM ProtocolInvariance == Spec => []PInv
  BY InitPInv, NextPInv, InitIInv, NextIInv, PTL DEF Spec

-----------------------------------------------------------------------------
(***************************************************************************)
(* What follows from the invariant.                                        *)
(***************************************************************************)
\* A thread that uses its connection past the handshake is in session.
LEMMA Engaged ==
    ASSUME IInv, NEW t \in Threads,
           pc[t] \in {"idle", "send", "response", "results", "stop", "bye"},
           handler[t] # None \/ pc[t] \in {"send", "response", "results", "bye"},
           cliOpen[Conn(t)]
    PROVE  InSession(t)
  BY Types DEF InSession, Connected, InCall, Exiting

\* A connection that is used again has nothing left to read: whatever the server's
\* thread is doing, it never answers a request that asked for no response.
THEOREM AlwaysInStep == Spec => []InStep
<1>1. IInv /\ PInv => InStep
  BY Engaged DEF PInv, ThreadInv, Answer, InStep
<1> QED BY <1>1, Invariance, ProtocolInvariance, PTL

\* What a thread reads while it waits is the answer to the call it waits for,
\* though gloip_waitForResponse does not look.
THEOREM AnswersAreOurs == Spec => []ResponseIsOurs
<1>1. ASSUME IInv, PInv, NEW t \in Threads, pc[t] \in {"response", "results"},
             cliOpen[Conn(t)], NEW i \in DOMAIN s2c[Conn(t)]
      PROVE  s2c[Conn(t)][i].call = Call(t)
  <2>1. InSession(t) /\ Answer(t)
    BY <1>1, Engaged DEF PInv, ThreadInv
  <2>2. s2c[Conn(t)] \in Seq(ServerPackets)
    BY <1>1, Types, CallPairs DEF ConnectionTyped, Connected, InCall
  <2>3. i \in Nat /\ i >= 1 /\ s2c[Conn(t)] # <<>>
    BY <1>1, <2>2
  <2>4. s2c[Conn(t)][i] = ResponseOf(t) \/ s2c[Conn(t)][i] = ResultOf(t)
    BY <1>1, <2>1, <2>3 DEF Answer
  <2> QED BY <2>4 DEF ResponseOf, ResultOf
<1>2. IInv /\ PInv => ResponseIsOurs
  BY <1>1 DEF ResponseIsOurs
<1> QED BY <1>2, Invariance, ProtocolInvariance, PTL

\* No function runs while its request is still being written.
THEOREM RunsAfterSending == Spec => []NoEarlyExecution
<1>1. ASSUME IInv, PInv, NEW t \in Threads, pc[t] = "send"
      PROVE  Call(t) \notin Executed
  <2>1. Call(t)[1] = t /\ Call(t)[2] = calls[t] /\ calls[t] \in Nat
    BY <1>1, Types DEF Call, ClientTyped
  <2>2. \A x \in Executed : x[1] = t => x[2] < calls[t]
    BY <1>1 DEF PInv, ThreadInv, WrittenWhole
  <2> QED BY <2>1, <2>2
<1>2. IInv /\ PInv => NoEarlyExecution
  BY <1>1 DEF NoEarlyExecution
<1> QED BY <1>2, Invariance, ProtocolInvariance, PTL

\* When the goodbye of a thread is answered, everything it sent over the
\* connection was executed.
THEOREM GoodbyeIsLast == Spec => []GoodbyeAfterAllCalls
<1>1. ASSUME IInv, PInv, NEW t \in Threads, pc[t] = "bye", s2c[Conn(t)] # <<>>,
             NEW n \in Conn(t)[2]..calls[t]
      PROVE  <<t, n>> \in Executed
  <2>1. InSession(t) /\ Answer(t)
    BY <1>1, Engaged DEF PInv, ThreadInv, Slot
  <2>2. ExecutedUpTo(Conn(t), calls[t]) /\ Conn(t)[1] = t
    BY <1>1, <2>1, Types DEF Answer, Exiting
  <2> QED BY <2>2 DEF ExecutedUpTo
<1>2. IInv /\ PInv => GoodbyeAfterAllCalls
  BY <1>1 DEF GoodbyeAfterAllCalls
<1> QED BY <1>2, Invariance, ProtocolInvariance, PTL

-----------------------------------------------------------------------------
(***************************************************************************)
(* Client, connections and server together implement the remote calls of   *)
(* module RemoteCall, for any threads, calls, functions and faults: every  *)
(* step is one of RemoteCall, or changes nothing that it is about.         *)
(***************************************************************************)

\* A step that makes no call, ends none and executes none.
Stutter == calls' = calls /\ outcome' = outcome /\ log' = log

\* A new call is made only when the last one has returned.
LEMMA ExecuteIssues ==
    ASSUME IInv, PInv, NEW t \in Threads, NEW f \in Functions, Execute(t, f),
           log' = log
    PROVE  RC!Issue(t)
<1>1. /\ pc[t] = "idle" /\ calls[t] < MaxCalls /\ outcome' = outcome
      /\ calls' = [calls EXCEPT ![t] = @ + 1]
  BY DEF Execute
<1>2. Len(outcome[t]) = calls[t] /\ calls[t] \in Nat
  BY <1>1, Types DEF PInv, ThreadInv, Returned, ClientTyped
<1> QED BY <1>1, <1>2 DEF RC!Issue, RC!Pending

\* The end of a call is a return of the one call that is pending; one that returns
\* a result was executed.
LEMMA ReturnReturns ==
    ASSUME IInv, PInv, NEW t \in Threads, NEW r \in Outcomes, Return(t, r),
           pc[t] \in InCall, log' = log, r = "ok" => Call(t) \in Executed
    PROVE  RC!Return(t, r)
<1>1. Len(outcome[t]) < calls[t]
  <2>1. Len(outcome[t]) = calls[t] - 1 /\ calls[t] \in Nat
    BY Types DEF PInv, ThreadInv, Returned, ClientTyped
  <2> QED BY <2>1
<1>2. RC!Executed = Executed
  BY DEF RC!Executed, Executed
<1> QED BY <1>1, <1>2 DEF RC!Return, RC!Pending, Return, Call

\* A response is read only after the call was executed.
LEMMA AnsweredExecuted ==
    ASSUME IInv, PInv, NEW t \in Threads, RecvResponse(t) \/ RecvResult(t)
    PROVE  Call(t) \in Executed
<1>1. /\ InSession(t) /\ s2c[Conn(t)] # <<>>
      /\ pc[t] \in {"response", "results"}
  BY ResponseMoves DEF PInv, Own, RecvResponse, RecvResult
<1> QED BY <1>1 DEF PInv, ThreadInv, Answer

\* The function a server thread runs is the next of its thread: every earlier
\* call was executed, or one of them and the ones after it failed.
LEMMA RunPerforms ==
    ASSUME IInv, PInv, NEW c \in Conns, RunFunction(c), UNCHANGED clientVars
    PROVE  \E t \in Threads : \E n \in 1..calls[t] : RC!Perform(t, n)
<1>1. Serves(c) /\ session[c] = "arguments" /\ AllArgumentsRead(c)
  BY DEF Serves, RunFunction
<1>2. c \in Calls /\ c[1] \in Threads /\ c[2] \in Nat /\ c[2] >= 1
  BY <1>1, ServeFrame, CallPairs
<1> PICK t, x, n : t = c[1] /\ x = request[c].call /\ n = x[2]
  OBVIOUS
<1>3. /\ x = <<t, n>> /\ n \in Nat /\ x \notin Executed /\ c[2] <= n
        /\ n <= calls[t]
      /\ ExecutedUpTo(c, n - 1)
  BY <1>1, <1>2, Ran
<1>4. calls[t] \in Nat /\ n \in 1..calls[t] /\ t \in Threads
  BY <1>2, <1>3, Types DEF ClientTyped
<1>5. ASSUME NEW k \in 1..(n - 1), <<t, k>> \notin Executed
      PROVE  RC!FailureBetween(t, k, n)
  <2>1. k < c[2]
    BY <1>2, <1>3, <1>5 DEF ExecutedUpTo
  <2>2. /\ c[2] - 1 \in k..(n - 1) /\ c[2] > 1
    BY <1>2, <1>3, <2>1
  <2>3. /\ c[2] - 1 <= Len(outcome[t]) /\ outcome[t][c[2] - 1] = "failed"
    BY <1>1, <1>2, <2>2 DEF PInv, ConnectionInv, Opened, Used
  <2>4. c[2] - 1 \in DOMAIN outcome[t]
    <3>1. outcome[t] \in Seq(Outcomes)
      BY <1>4, Types DEF ClientTyped
    <3> QED BY <1>2, <2>2, <2>3, <3>1
  <2> QED BY <2>2, <2>3, <2>4 DEF RC!FailureBetween
<1>6. log' = Append(log, x) /\ calls' = calls /\ outcome' = outcome
  BY DEF RunFunction, clientVars
<1>7. RC!Executed = Executed
  BY DEF RC!Executed, Executed
<1>8. RC!Perform(t, n)
  BY <1>3, <1>5, <1>6, <1>7 DEF RC!Perform
<1> QED BY <1>4, <1>8

\* A step of a client thread makes a call, ends one, or only moves packets.
LEMMA ClientStepRefines ==
    ASSUME IInv, PInv, NEW t \in Threads, Step(t)
    PROVE  \/ Stutter
           \/ RC!Issue(t)
           \/ \E r \in {"ok", "sent", "failed"} : RC!Return(t, r)
<1>1. log' = log
  BY DEF Step, serverVars
<1>2. ASSUME NEW r \in Outcomes, Return(t, r), pc[t] \in InCall,
             r = "ok" => Call(t) \in Executed
      PROVE  \E q \in {"ok", "sent", "failed"} : RC!Return(t, q)
  BY <1>1, <1>2, ReturnReturns DEF Outcomes
<1>3. ASSUME NEW l, NEW k, Goto(t, l, k) PROVE Stutter
  BY <1>1, <1>3 DEF Goto, Stutter
<1>4. ASSUME NEW f \in Functions, Execute(t, f) PROVE RC!Issue(t)
  BY <1>1, <1>4, ExecuteIssues
<1>5. CASE \/ Connect(t) \/ SendHello(t) \/ RecvWelcome(t) \/ SendStop(t)
           \/ RecvBye(t) \/ CleanupFails(t) \/ Exit(t)
  BY <1>3, <1>5
     DEF Connect, SendHello, RecvWelcome, SendStop, RecvBye, CleanupFails, Exit
<1>6. CASE \/ ConnectFails(t) \/ HandshakeFails(t) \/ SendRequestFails(t)
           \/ WaitForResponseFails(t)
  <2>1. Return(t, "failed") /\ pc[t] \in InCall
    BY <1>6 DEF ConnectFails, HandshakeFails, SendRequestFails,
                WaitForResponseFails, InCall
  <2> QED BY <1>2, <2>1 DEF Outcomes
<1>7. CASE SendPacket(t)
  <2>1. pc[t] \in InCall
    BY <1>7 DEF SendPacket, InCall
  <2>2. \/ Return(t, "sent")
        \/ \E l, k : Goto(t, l, k)
    BY <1>7 DEF SendPacket, RequestSent
  <2> QED BY <1>2, <1>3, <2>1, <2>2 DEF Outcomes
<1>8. CASE RecvResponse(t) \/ RecvResult(t)
  <2>1. pc[t] \in InCall /\ Call(t) \in Executed
    BY <1>8, AnsweredExecuted DEF RecvResponse, RecvResult, InCall
  <2>2. \/ Return(t, "ok")
        \/ \E l, k : Goto(t, l, k)
    BY <1>8 DEF RecvResponse, RecvResult
  <2> QED BY <1>2, <1>3, <2>1, <2>2 DEF Outcomes
<1> QED BY <1>4, <1>5, <1>6, <1>7, <1>8 DEF Step, ClientStep

\* A step of the server executes a call or only moves packets.
LEMMA ServerStepRefines ==
    ASSUME IInv, PInv, ServerNext
    PROVE  \/ Stutter
           \/ \E t \in Threads : \E n \in 1..calls[t] : RC!Perform(t, n)
<1>1. calls' = calls /\ outcome' = outcome /\ UNCHANGED clientVars
  BY DEF ServerNext, clientVars
<1>2. CASE ListenerStep \/ ServerCrashes
  BY <1>1, <1>2
     DEF ListenerStep, StartServer, StartServerFails, Accept, AcceptFails, RecvHello,
         RejectHello, SendWelcome, ListenerReturns, ServerCrashes, Stutter
<1>3. ASSUME NEW c \in Conns, SessionStep(c)
      PROVE  \/ Stutter
             \/ \E t \in Threads : \E n \in 1..calls[t] : RC!Perform(t, n)
  <2>1. CASE RunFunction(c)
    BY <1>1, <2>1, RunPerforms
  <2>2. CASE ~RunFunction(c)
    BY <1>1, <1>3, <2>2
       DEF SessionStep, RecvRequest, RecvStop, ReadArgument, SendResponse, SendBye,
           CommandFails, CloseSession, Stutter
  <2> QED BY <2>1, <2>2
<1> QED BY <1>2, <1>3 DEF ServerNext

\* GLoIP implements remote calls: a call is executed at most once and only after it
\* was made, in the order of its thread and leaving none out but across a failure,
\* and one that returns a result was executed.
THEOREM Refinement == Spec => ImplementsRemoteCall
<1>1. Init => RC!Init
  BY DEF Init, ClientInit, ServerInit, RC!Init
<1>2. IInv /\ PInv /\ [Next]_vars => [RC!Next]_RC!vars
  <2> SUFFICES ASSUME IInv, PInv, [Next]_vars PROVE RC!Next \/ UNCHANGED RC!vars
    OBVIOUS
  <2>1. Stutter => UNCHANGED RC!vars
    BY DEF Stutter, RC!vars
  <2>2. CASE ClientNext
    <3>1. CASE ClientCrashes
      BY <2>1, <2>2, <3>1 DEF ClientNext, ClientCrashes, Stutter, serverVars
    <3>2. CASE \E t \in Threads : Step(t)
      BY <2>1, <3>2, ClientStepRefines DEF RC!Next
    <3> QED BY <2>2, <3>1, <3>2 DEF ClientNext, Step
  <2>3. CASE ServerNext
    BY <2>1, <2>3, ServerStepRefines DEF RC!Next
  <2>4. CASE Environment \/ UNCHANGED vars
    BY <2>1, <2>4 DEF Environment, vars, clientVars, serverVars, Stutter
  <2> QED BY <2>2, <2>3, <2>4 DEF Next, Terminated
<1> QED BY <1>1, <1>2, Invariance, ProtocolInvariance, PTL
        DEF Spec, ImplementsRemoteCall, RC!Spec

-----------------------------------------------------------------------------
(***************************************************************************)
(* A failing connection hurts one call, of the thread it belongs to.       *)
(***************************************************************************)
\* No other fault happens.
LEMMA OtherFaults ==
    ASSUME Contained
    PROVE  \A k : Fault(k) => k \in {"reset", "stranger"} /\ faults' = faults + 1
BY DEF Contained, Fault

\* A call does IO on a connected handler with an open descriptor.
LEMMA Engages ==
    ASSUME IInv, Contained, NEW t \in Threads, pc[t] \in Connected
    PROVE  /\ Usable(handler[t]) /\ Conn(t) \in Calls /\ Conn(t)[1] = t
           /\ handler[t] \in Handlers /\ cliOpen[Conn(t)]
<1>1. handler[t] # None /\ pc[t] # "exited" /\ "close" \notin Faults
  BY Types DEF Connected, InCall, Contained
<1>2. handler[t].connected
  BY <1>1 DEF IInv, LockDiscipline
<1>3. cliOpen[Conn(t)]
  BY <1>1, <1>2 DEF IInv, LockDiscipline
<1> QED BY <1>1, <1>2, <1>3, Types DEF Usable

\* So its IO fails only after a reset: the server stays on the connection.
LEMMA FailsOnReset ==
    ASSUME IInv, Contained, Intact, NEW t \in Threads, pc[t] \in Connected,
           WriteAllFails(t) \/ ReadAllFails(t)
    PROVE  broken[Conn(t)]
<1>1. /\ handler[t].connected /\ Conn(t) \in Calls /\ Conn(t)[1] = t
      /\ cliOpen[Conn(t)]
  BY Engages DEF Usable
<1>2. srvOpen[Conn(t)] \/ broken[Conn(t)]
  BY <1>1 DEF Intact, ServerStays, Connected, InCall
<1> QED BY <1>1, <1>2
        DEF WriteAllFails, ReadAllFails, CliSendFails, CliRecvFails, Alive

\* What a disconnect leaves is not used again.
LEMMA GivenUp ==
    ASSUME IInv, Contained, NEW t \in Threads, NEW h \in Handlers,
           h.conn = Conn(t), cliOpen[Conn(t)], Disconnect(t, h)
    PROVE  ~Usable(handler'[t])
<1>1. handler' = [handler EXCEPT ![t] = Disconnected(h)]
  BY OtherFaults DEF Disconnect
<1>2. handler'[t] = Disconnected(h)
  BY <1>1, Types DEF ClientTyped
<1> QED BY <1>2 DEF Usable, Disconnected, Handlers

\* What the steps of a client thread do to connections.
LEMMA ClientEffects ==
    ASSUME IInv, NEW t \in Threads, Step(t)
    PROVE  /\ broken' = broken /\ listening' = listening /\ peer' = peer
           /\ listener' = listener /\ session' = session
           /\ ~Connect(t) => backlog' = backlog /\ srvOpen' = srvOpen
           /\ ~Connect(t) => \A c \in Conns : cliOpen'[c] => cliOpen[c]
           /\ \A u \in Threads \ {t} : /\ pc'[u] = pc[u] /\ handler'[u] = handler[u]
                                       /\ outcome'[u] = outcome[u]
           /\ pc[t] = "bye" => pc'[t] = "exited"
           /\ pc[t] # "exited"
<1>1. /\ pc \in [Threads -> PCs] /\ handler \in [Threads -> Handlers \cup {None}]
      /\ outcome \in [Threads -> Seq(Outcomes)] /\ cliOpen \in [Conns -> BOOLEAN]
  BY Types DEF ClientTyped, ConnectionTyped
<1>2. ASSUME NEW l, NEW k, Goto(t, l, k)
      PROVE  /\ pc' = [pc EXCEPT ![t] = l] /\ outcome' = outcome
             /\ pc'[t] = l /\ \A u \in Threads \ {t} : pc'[u] = pc[u]
  BY <1>1, <1>2 DEF Goto
<1>3. ASSUME NEW r, Return(t, r)
      PROVE  \A u \in Threads \ {t} : pc'[u] = pc[u] /\ outcome'[u] = outcome[u]
  BY <1>1, <1>3 DEF Return
<1>4. ASSUME NEW h, Disconnect(t, h)
      PROVE  /\ \A c \in Conns : cliOpen'[c] => cliOpen[c]
             /\ \A u \in Threads \ {t} : handler'[u] = handler[u]
  BY <1>1, <1>4 DEF Disconnect
<1>5. CASE Connect(t)
  BY <1>1, <1>2, <1>5 DEF Connect, Step, serverVars
<1>6. CASE ConnectFails(t) \/ HandshakeFails(t)
  BY <1>1, <1>3, <1>6 DEF ConnectFails, HandshakeFails, Step, serverVars, netVars
<1>7. CASE SendHello(t) \/ RecvWelcome(t) \/ SendStop(t) \/ Exit(t)
  BY <1>1, <1>2, <1>7
     DEF SendHello, RecvWelcome, SendStop, Exit, Step, serverVars, netVars
<1>8. CASE SendPacket(t)
  BY <1>1, <1>2, <1>3, <1>8 DEF SendPacket, RequestSent, Step, serverVars
<1>9. CASE RecvResponse(t) \/ RecvResult(t)
  BY <1>1, <1>2, <1>3, <1>9 DEF RecvResponse, RecvResult, Step, serverVars
<1>10. CASE SendRequestFails(t) \/ WaitForResponseFails(t)
  BY <1>1, <1>3, <1>4, <1>10
     DEF SendRequestFails, WaitForResponseFails, Step, serverVars
<1>11. CASE RecvBye(t)
  BY <1>1, <1>2, <1>4, <1>11 DEF RecvBye, Step, serverVars
<1>12. CASE CleanupFails(t)
  BY <1>1, <1>2, <1>12 DEF CleanupFails, Step, serverVars, netVars
<1>13. CASE \E f \in Functions : Execute(t, f)
  BY <1>1, <1>13 DEF Execute, Step, serverVars, netVars
<1> QED BY <1>5, <1>6, <1>7, <1>8, <1>9, <1>10, <1>11, <1>12, <1>13
        DEF Step, ClientStep

\* A call ends well on the connection it has, fails and gives it up, or goes on.
LEMMA Ending ==
    ASSUME IInv, PInv, Contained, Intact, NEW t \in Threads, Step(t)
    PROVE  \/ outcome'[t] = outcome[t]
              /\ \/ ~Usable(handler'[t])
                 \/ /\ Usable(handler[t]) /\ handler'[t].conn = Conn(t)
                 \/ Connect(t) /\ handler'[t].conn = Call(t)
           \/ /\ \E r \in Outcomes \ {"failed"} :
                    outcome'[t] = Append(outcome[t], r)
              /\ handler'[t] = handler[t]
           \/ /\ pc[t] \in Connected
              /\ outcome'[t] = Append(outcome[t], "failed")
              /\ broken[Conn(t)] /\ ~Usable(handler'[t])
           \/ ConnectFails(t)
<1>1. /\ pc \in [Threads -> PCs] /\ handler \in [Threads -> Handlers \cup {None}]
      /\ outcome \in [Threads -> Seq(Outcomes)] /\ calls \in [Threads -> Nat]
  BY Types DEF ClientTyped
<1>2. ASSUME NEW l, NEW k, Goto(t, l, k) PROVE outcome'[t] = outcome[t]
  BY <1>2 DEF Goto
<1>3. ASSUME NEW r \in Outcomes, Return(t, r)
      PROVE  outcome'[t] = Append(outcome[t], r)
  BY <1>1, <1>3 DEF Return
<1>4. CASE Connect(t)
  BY <1>1, <1>2, <1>4 DEF Connect, NewHandler
<1>5. CASE ConnectFails(t)
  BY <1>5
<1>6. CASE HandshakeFails(t)
  <2>1. pc[t] \in Connected /\ (WriteAllFails(t) \/ ReadAllFails(t))
    BY <1>6 DEF HandshakeFails, Connected, InCall
  <2>2. handler'[t] = None /\ Return(t, "failed")
    BY <1>1, <1>6 DEF HandshakeFails
  <2> QED BY <1>3, <2>1, <2>2, FailsOnReset DEF Usable, Outcomes
<1>7. CASE SendHello(t) \/ RecvWelcome(t) \/ SendStop(t) \/ Exit(t)
  <2>1. handler' = handler /\ outcome'[t] = outcome[t]
    BY <1>2, <1>7 DEF SendHello, RecvWelcome, SendStop, Exit
  <2> QED BY <2>1 DEF Conn
<1>8. CASE SendPacket(t)
  <2>1. handler' = handler
    BY <1>8 DEF SendPacket
  <2>2. outcome'[t] = outcome[t] \/ outcome'[t] = Append(outcome[t], "sent")
    BY <1>2, <1>3, <1>8 DEF SendPacket, RequestSent, Outcomes
  <2> QED BY <2>1, <2>2 DEF Outcomes, Conn
<1>9. CASE RecvResponse(t) \/ RecvResult(t)
  <2>1. handler' = handler
    BY <1>9 DEF RecvResponse, RecvResult
  <2>2. outcome'[t] = outcome[t] \/ outcome'[t] = Append(outcome[t], "ok")
    BY <1>2, <1>3, <1>9 DEF RecvResponse, RecvResult, Outcomes
  <2> QED BY <2>1, <2>2 DEF Outcomes, Conn
<1>10. CASE SendRequestFails(t) \/ WaitForResponseFails(t)
  <2>1. /\ pc[t] \in Connected /\ (WriteAllFails(t) \/ ReadAllFails(t))
        /\ Return(t, "failed")
        /\ \E h \in {WriteLockLeft(handler[t]), ReadLockLeft(handler[t])} :
              Disconnect(t, h)
    BY <1>10 DEF SendRequestFails, WaitForResponseFails, Connected, InCall
  <2>2. handler[t] \in Handlers /\ cliOpen[Conn(t)]
    BY <2>1, Engages
  <2>3. ~Usable(handler'[t])
    BY <2>1, <2>2, LocksLeft, GivenUp DEF Conn
  <2> QED BY <1>3, <2>1, <2>3, FailsOnReset DEF Outcomes
<1>11. CASE RecvBye(t)
  <2>1. handler'[t] = handler[t] \/ handler'[t] = Disconnected(handler[t])
    BY <1>1, <1>11 DEF RecvBye, Disconnect
  <2>2. handler[t] \in Handlers
    BY <1>11, Types DEF RecvBye, Exiting
  <2> QED BY <1>2, <1>11, <2>1, <2>2 DEF RecvBye, Usable, Disconnected, Handlers, Conn
<1>12. CASE CleanupFails(t)
  <2>1. handler[t] \in Handlers
    BY <1>12, Types DEF CleanupFails, Exiting
  <2>2. handler'[t] \in {WriteLockLeft(handler[t]), ReadLockLeft(handler[t])}
    BY <1>1, <1>12 DEF CleanupFails
  <2>3. /\ handler'[t].conn = handler[t].conn /\ handler'[t] # None
        /\ handler'[t].connected = handler[t].connected
    BY <2>1, <2>2, NoneAssumption, ZenonT(30) DEF WriteLockLeft, ReadLockLeft, Handlers
  <2> QED BY <1>2, <1>12, <2>1, <2>3, NoneAssumption DEF CleanupFails, Usable, Conn
<1>13. CASE \E f \in Functions : Execute(t, f)
  BY <1>1, <1>13 DEF Execute, Usable, Conn
<1> QED BY <1>4, <1>5, <1>6, <1>7, <1>8, <1>9, <1>10, <1>11, <1>12, <1>13
        DEF Step, ClientStep

\* There is room in the queue for a thread that connects: the others in it are
\* other threads, or took a fault.
LEMMA RoomLeft ==
    ASSUME IInv, PInv, Contained, Intact, NEW t \in Threads, pc[t] = "connect"
    PROVE  Len(backlog) < Backlog
<1> DEFINE Q == 1..Len(backlog)
           Live == {i \in Q : backlog[i] \in Calls /\ ~broken[backlog[i]]}
           Lost == {i \in Q : backlog[i] \in Calls /\ broken[backlog[i]]}
           Foreign == {i \in Q : backlog[i] = Stranger}
           Others == Threads \ {t}
<1>1. /\ Len(backlog) \in Nat /\ DOMAIN backlog = Q /\ faults \in 0..MaxFaults
      /\ \A i \in Q : backlog[i] \in Conns
  BY Types DEF ConnectionTyped, IInv, TypeOK, ConnectionTypeOK
<1>2. /\ \A i, j \in Q : backlog[i] \in Calls /\ backlog[i] = backlog[j] => i = j
      /\ \A i, j \in Foreign : i = j
  BY <1>1 DEF PInv, Queued, Intact, InQueue
<1>3. IsFiniteSet(Others) /\ Cardinality(Others) = Cardinality(Threads) - 1
        /\ Cardinality(Threads) \in Nat
  BY FS_RemoveElement, FS_CardinalityType DEF Contained, Room
<1>4. IsFiniteSet(Live) /\ Cardinality(Live) <= Cardinality(Others)
  <2>1. \A i \in Live : backlog[i][1] \in Others /\ Conn(backlog[i][1]) = backlog[i]
    BY <1>1, CallPairs DEF Intact, InQueue
  <2>2. [i \in Live |-> backlog[i][1]] \in Injection(Live, Others)
    BY <1>2, <2>1 DEF Injection, IsInjective
  <2> QED BY <1>3, <2>2, FS_Injection
<1>5. IsFiniteSet(Lost) /\ Cardinality(Lost) <= Cardinality(Broken)
  <2>1. [i \in Lost |-> backlog[i]] \in Injection(Lost, Broken)
    BY <1>2 DEF Injection, IsInjective, Broken
  <2> QED BY <2>1, FS_Injection DEF Intact, FaultsCounted
<1>6. Foreign = {} \/ (srvOpen[Stranger] /\ \E i : Foreign = {i})
  <2>1. \A i \in Foreign : srvOpen[Stranger] /\ Foreign = {i}
    BY <1>1, <1>2 DEF Intact, InQueue
  <2> HIDE DEF Foreign
  <2> QED BY <2>1
<1>7. Q = (Live \cup Lost) \cup Foreign
  BY <1>1 DEF Conns
<1>8. Cardinality(Q) = Len(backlog)
  <2>1. 1 \in Int /\ Len(backlog) \in Int
    BY <1>1
  <2>2. Cardinality(1..Len(backlog)) =
           IF 1 > Len(backlog) THEN 0 ELSE Len(backlog) - 1 + 1
    BY <2>1, FS_Interval
  <2> QED BY <1>1, <2>2
<1> HIDE DEF Q, Live, Lost, Foreign, Others
<1>9. IsFiniteSet(Foreign)
        /\ Cardinality(Foreign) <= IF srvOpen[Stranger] THEN 1 ELSE 0
  <2>1. CASE Foreign = {}
    BY <2>1, FS_EmptySet
  <2>2. CASE Foreign # {}
    <3>1. PICK i : Foreign = {i}
      BY <1>6, <2>2
    <3>2. IsFiniteSet({i}) /\ Cardinality({i}) = 1
      BY FS_Singleton
    <3> QED BY <1>6, <2>2, <3>1, <3>2
  <2> QED BY <2>1, <2>2
<1>10. \A S, T : IsFiniteSet(S) /\ IsFiniteSet(T) =>
          /\ IsFiniteSet(S \cup T)
          /\ Cardinality(S \cup T) <= Cardinality(S) + Cardinality(T)
  <2> SUFFICES ASSUME NEW S, NEW T, IsFiniteSet(S), IsFiniteSet(T)
               PROVE  /\ IsFiniteSet(S \cup T)
                      /\ Cardinality(S \cup T) <= Cardinality(S) + Cardinality(T)
    OBVIOUS
  <2>1. IsFiniteSet(S \cap T)
    BY FS_Subset
  <2>2. /\ Cardinality(S \cap T) \in Nat /\ Cardinality(S) \in Nat
        /\ Cardinality(T) \in Nat
    BY <2>1, FS_CardinalityType
  <2>3. /\ IsFiniteSet(S \cup T)
        /\ Cardinality(S \cup T) =
              Cardinality(S) + Cardinality(T) - Cardinality(S \cap T)
    BY FS_Union
  <2> QED BY <2>2, <2>3
<1>11. /\ IsFiniteSet(Live \cup Lost) /\ IsFiniteSet(Broken)
       /\ Cardinality(Live \cup Lost) <= Cardinality(Live) + Cardinality(Lost)
       /\ Cardinality(Q) <= Cardinality(Live \cup Lost) + Cardinality(Foreign)
  BY <1>4, <1>5, <1>7, <1>9, <1>10 DEF Intact, FaultsCounted
<1>12. /\ Cardinality(Live) \in Nat /\ Cardinality(Lost) \in Nat
       /\ Cardinality(Foreign) \in Nat /\ Cardinality(Live \cup Lost) \in Nat
       /\ Cardinality(Broken) \in Nat
  BY <1>4, <1>5, <1>9, <1>11, FS_CardinalityType
<1>13. /\ Cardinality(Broken) + (IF srvOpen[Stranger] THEN 1 ELSE 0) <= MaxFaults
       /\ Cardinality(Threads) + MaxFaults <= Backlog
  BY <1>1, <1>12, BoundsAssumption DEF Intact, FaultsCounted, Contained, Room
<1> QED BY <1>1, <1>3, <1>4, <1>5, <1>8, <1>9, <1>11, <1>12, <1>13,
           BoundsAssumption, SMTT(30)

\* A thread leaves its handshake only with an answer or after a reset, and so not
\* while its connection is in the queue.
LEMMA StaysInHandshake ==
    ASSUME IInv, PInv, Contained, Intact, NEW t \in Threads, Step(t),
           NEW i \in DOMAIN backlog, backlog[i] \in Calls, ~broken[backlog[i]],
           backlog[i][1] = t
    PROVE  pc'[t] \in {"hello", "welcome"} /\ handler'[t].conn = backlog[i]
<1>1. /\ pc[t] \in {"hello", "welcome"} /\ Conn(t) = backlog[i]
      /\ pc[t] \in Connected
  BY DEF Intact, InQueue, Connected, InCall
<1>2. session[backlog[i]] = "none" /\ s2c[backlog[i]] = <<>>
  BY DEF PInv, Queued, ConnectionInv, Unopened
<1>3. ~HandshakeFails(t)
  BY <1>1, FailsOnReset DEF HandshakeFails
<1>4. ~RecvWelcome(t)
  BY <1>1, <1>2 DEF RecvWelcome, ReadAll, CliRecv
<1>5. SendHello(t)
  BY <1>1, <1>3, <1>4
     DEF Step, ClientStep, Execute, Exit, Connect, ConnectFails, SendPacket,
         SendRequestFails, RecvResponse, RecvResult, WaitForResponseFails, SendStop,
         RecvBye, CleanupFails
<1> QED BY <1>1, <1>5, Types DEF SendHello, Goto, Conn, ClientTyped

\* The client's steps keep what containment rests on.
LEMMA ClientIntact ==
    ASSUME IInv, PInv, Contained, Intact, listener # "returned", PInv',
           NEW t \in Threads, Step(t)
    PROVE  Intact'
<1>1. /\ cliOpen \in [Conns -> BOOLEAN] /\ srvOpen \in [Conns -> BOOLEAN]
      /\ backlog \in Seq(Conns) /\ handler \in [Threads -> Handlers \cup {None}]
      /\ pc \in [Threads -> PCs]
  BY Types DEF ConnectionTyped, ClientTyped
<1>2. ASSUME Connect(t)
      PROVE  /\ Call(t) \in Calls /\ Call(t)[1] = t /\ pc[t] = "connect"
             /\ backlog' = Append(backlog, Call(t))
             /\ cliOpen' = [cliOpen EXCEPT ![Call(t)] = TRUE]
             /\ srvOpen' = [srvOpen EXCEPT ![Call(t)] = TRUE]
             /\ pc'[t] = "hello" /\ handler'[t].conn = Call(t)
             /\ outcome' = outcome
  BY <1>1, <1>2, Types DEF Connect, Goto, NewHandler, InCall, Call
<1>3. listening'
  BY ClientEffects DEF Intact
<1>4. ASSUME NEW c \in Calls PROVE ServerStays(c)'
  <2>1. ServerStays(c) /\ c \in Conns /\ c[1] \in Threads
    BY CallPairs DEF Intact
  <2>2. pc[c[1]] \in {"bye", "exited"} => pc'[c[1]] \in {"bye", "exited"}
    BY <2>1, ClientEffects
  <2>3. CASE Connect(t)
    BY <1>1, <1>2, <2>1, <2>2, <2>3, ClientEffects DEF ServerStays
  <2>4. CASE ~Connect(t)
    BY <2>1, <2>2, <2>4, ClientEffects DEF ServerStays
  <2> QED BY <2>3, <2>4
<1>5. ASSUME NEW u \in Threads PROVE NoneFailed(u)'
  <2>1. NoneFailed(u)
    BY DEF Intact
  <2>2. CASE u # t
    BY <2>1, <2>2, ClientEffects DEF NoneFailed, Conn
  <2>3. CASE u = t
    <3> SUFFICES ASSUME Usable(handler'[t]),
                        NEW j \in (handler'[t].conn)[2]..Len(outcome'[t])
                 PROVE  outcome'[t][j] # "failed"
      BY <2>3 DEF NoneFailed, Conn
    <3>1. ~ConnectFails(t)
      <4>1. ASSUME ConnectFails(t) PROVE FALSE
        BY <4>1, RoomLeft, OtherFaults DEF ConnectFails, Intact
      <4> QED BY <4>1
    <3>2. CASE Connect(t)
      <4>1. Len(outcome[t]) = calls[t] - 1
        BY <1>2, <3>2 DEF PInv, ThreadInv, Returned, InCall
      <4> QED BY <1>2, <3>2, <4>1, Types DEF Call, ClientTyped
    <3>3. CASE ~Connect(t)
      <4>1. Usable(handler[t]) /\ handler'[t].conn = Conn(t)
        BY <3>1, <3>3, Ending DEF Conn
      <4>2. /\ \/ outcome'[t] = outcome[t]
               \/ \E r \in Outcomes \ {"failed"} : outcome'[t] = Append(outcome[t], r)
            /\ outcome[t] \in Seq(Outcomes)
        BY <3>1, Ending, Types DEF ClientTyped
      <4>3. Conn(t)[2] \in Nat \ {0}
        BY <4>1, Types, CallPairs DEF Usable
      <4> QED BY <2>1, <2>3, <4>1, <4>2, <4>3, SMTT(30) DEF NoneFailed
    <3> QED BY <3>2, <3>3
  <2> QED BY <2>2, <2>3
<1>6. InQueue'
  <2>1. ASSUME NEW i \in DOMAIN backlog, backlog[i] \in Calls, ~broken[backlog[i]]
        PROVE  /\ pc'[backlog[i][1]] \in {"hello", "welcome"}
               /\ handler'[backlog[i][1]].conn = backlog[i]
    <3>1. backlog[i][1] \in Threads
      BY <2>1, CallPairs
    <3>2. CASE backlog[i][1] = t
      BY <2>1, <3>2, StaysInHandshake
    <3>3. CASE backlog[i][1] # t
      <4>1. /\ pc[backlog[i][1]] \in {"hello", "welcome"}
            /\ handler[backlog[i][1]].conn = backlog[i]
        BY <2>1 DEF Intact, InQueue, Conn
      <4> QED BY <3>1, <3>3, <4>1, ClientEffects
    <3> QED BY <3>2, <3>3
  <2>2. /\ \A i \in DOMAIN backlog' :
              \/ i \in DOMAIN backlog /\ backlog'[i] = backlog[i]
              \/ /\ pc'[backlog'[i][1]] = "hello" /\ backlog'[i] # Stranger
                 /\ handler'[backlog'[i][1]].conn = backlog'[i]
        /\ srvOpen'[Stranger] = srvOpen[Stranger]
    <3>1. CASE ~Connect(t)
      BY <3>1, ClientEffects
    <3>2. CASE Connect(t)
      <4>1. Call(t) \in Conns /\ Call(t) # Stranger
        BY <1>2, <3>2, CallPairs
      <4> QED BY <1>1, <1>2, <3>2, <4>1 DEF Conns
    <3> QED BY <3>1, <3>2
  <2>3. broken' = broken /\ peer' = peer
    BY ClientEffects
  <2>4. ASSUME NEW i \in DOMAIN backlog', backlog'[i] \in Calls, ~broken'[backlog'[i]]
        PROVE  /\ pc'[backlog'[i][1]] \in {"hello", "welcome"}
               /\ handler'[backlog'[i][1]].conn = backlog'[i]
    BY <2>1, <2>2, <2>3, <2>4
  <2>5. ASSUME NEW i \in DOMAIN backlog', backlog'[i] = Stranger
        PROVE  /\ srvOpen'[Stranger] /\ peer' # Stranger
               /\ \A j \in DOMAIN backlog' : backlog'[j] = Stranger => i = j
    BY <2>2, <2>3, <2>5 DEF Intact, InQueue
  <2>6. peer' = Stranger => srvOpen'[Stranger]
    BY <2>2, <2>3 DEF Intact, InQueue
  <2> QED BY <2>4, <2>5, <2>6 DEF InQueue, Conn
<1>7. FaultsCounted'
  <2>1. srvOpen'[Stranger] = srvOpen[Stranger] /\ Broken' = Broken
    <3>1. ASSUME Connect(t) PROVE srvOpen'[Stranger] = srvOpen[Stranger]
      <4>1. Call(t) # Stranger /\ Stranger \in Conns
        BY <1>2, <3>1, CallPairs DEF Conns
      <4> QED BY <1>1, <1>2, <3>1, <4>1
    <3> QED BY <3>1, ClientEffects DEF Broken
  <2>2. faults' = faults
    BY OtherFaults
       DEF Step, ClientStep, Connect, ConnectFails, SendHello, RecvWelcome,
           HandshakeFails, SendPacket, SendRequestFails, RecvResponse, RecvResult,
           WaitForResponseFails, SendStop, RecvBye, CleanupFails, Disconnect,
           Execute, Exit, Fault, Contained
  <2> QED BY <2>1, <2>2 DEF Intact, FaultsCounted
<1>8. FailureIsContained'
  <2> SUFFICES ASSUME NEW u \in Threads, NEW k \in DOMAIN outcome'[u],
                      outcome'[u][k] = "failed"
               PROVE  \E n \in 1..k :
                         /\ broken'[<<u, n>>]
                         /\ \A j \in n..(k - 1) : outcome'[u][j] # "failed"
    BY DEF FailureIsContained
  <2>1. broken' = broken /\ outcome[u] \in Seq(Outcomes)
    BY ClientEffects, Types DEF ClientTyped
  <2> DEFINE OnReset == \E n \in 1..k :
                           /\ broken'[<<u, n>>]
                           /\ \A j \in n..(k - 1) : outcome'[u][j] # "failed"
  <2>2. ASSUME k \in 1..Len(outcome[u]),
               \A j \in 1..Len(outcome[u]) : outcome'[u][j] = outcome[u][j]
        PROVE  OnReset
    <3>1. k \in DOMAIN outcome[u] /\ outcome[u][k] = "failed"
      BY <2>1, <2>2
    <3>2. PICK n \in 1..k : /\ broken[<<u, n>>]
                            /\ \A j \in n..(k - 1) : outcome[u][j] # "failed"
      BY <3>1, <2>1 DEF Intact, FailureIsContained, Contained
    <3>3. k \in Nat /\ \A j \in n..(k - 1) : j \in 1..Len(outcome[u])
      BY <2>1, <2>2
    <3>4. \A j \in n..(k - 1) : outcome'[u][j] # "failed"
      BY <2>2, <3>2, <3>3
    <3> QED BY <2>1, <3>2, <3>4
  <2>3. CASE u # t
    <3>1. outcome'[u] = outcome[u]
      BY <2>3, ClientEffects
    <3>2. k \in 1..Len(outcome[u])
      BY <2>1, <3>1
    <3> QED BY <2>2, <3>1, <3>2
  <2>4. CASE u = t
    <3>1. ASSUME k \in 1..Len(outcome[t]) PROVE OnReset
      <4>1. \A j \in 1..Len(outcome[t]) : outcome'[t][j] = outcome[t][j]
        BY Outcome
      <4> HIDE DEF OnReset
      <4> QED BY <2>2, <2>4, <3>1, <4>1
    <3>2. ASSUME NEW r \in Outcomes, outcome'[t] = Append(outcome[t], r)
          PROVE  /\ Len(outcome[t]) \in Nat /\ outcome'[t][Len(outcome[t]) + 1] = r
                 /\ k \in 1..Len(outcome[t]) \/ k = Len(outcome[t]) + 1
      BY <2>1, <2>4, <3>2
    <3>3. ~ConnectFails(t)
      <4>1. ASSUME ConnectFails(t) PROVE FALSE
        BY <4>1, RoomLeft, OtherFaults DEF ConnectFails, Intact
      <4> QED BY <4>1
    <3>4. CASE outcome'[t] = outcome[t]
      <4>1. k \in 1..Len(outcome[t])
        BY <2>1, <2>4, <3>4
      <4> QED BY <3>1, <4>1
    <3>5. CASE \E r \in Outcomes \ {"failed"} : outcome'[t] = Append(outcome[t], r)
      <4>1. k \in 1..Len(outcome[t])
        BY <2>4, <3>5, <3>2
      <4> QED BY <3>1, <4>1
    <3>6. CASE /\ pc[t] \in Connected
               /\ outcome'[t] = Append(outcome[t], "failed") /\ broken[Conn(t)]
      <4>1. CASE k \in 1..Len(outcome[t])
        BY <3>1, <4>1
      <4>2. CASE k \notin 1..Len(outcome[t])
        <5>1. /\ k = Len(outcome[t]) + 1 /\ Len(outcome[t]) \in Nat
              /\ \A j \in 1..(k - 1) : outcome'[t][j] = outcome[t][j]
          <6>1. k = Len(outcome[t]) + 1 /\ Len(outcome[t]) \in Nat
            BY <3>6, <3>2, <4>2 DEF Outcomes
          <6> QED BY <6>1, Outcome
        <5>2. /\ Usable(handler[t]) /\ Conn(t) \in Calls /\ Conn(t)[1] = t
              /\ Conn(t) = <<t, Conn(t)[2]>> /\ Conn(t)[2] \in Nat \ {0}
          BY <3>6, Engages, CallPairs DEF Calls
        <5>3. Conn(t)[2] <= k
          <6>1. Len(outcome[t]) = calls[t] - 1 /\ Conn(t)[2] <= calls[t]
            BY <3>6, Types DEF PInv, ThreadInv, Returned, Slot, Connected
          <6> QED BY <5>1, <6>1, Types DEF ClientTyped
        <5>4. \A j \in Conn(t)[2]..(k - 1) : outcome[t][j] # "failed"
          BY <5>1, <5>2 DEF Intact, NoneFailed
        <5>5. \A j \in Conn(t)[2]..(k - 1) : outcome'[t][j] # "failed"
          BY <5>1, <5>2, <5>4
        <5>6. Conn(t)[2] \in 1..k /\ broken'[<<t, Conn(t)[2]>>]
          <6>1. Conn(t)[2] \in 1..k
            BY <5>1, <5>2, <5>3
          <6>2. <<t, Conn(t)[2]>> = Conn(t)
            BY <5>2
          <6> QED BY <2>1, <3>6, <6>1, <6>2
        <5> QED BY <2>4, <5>5, <5>6
      <4> QED BY <4>1, <4>2
    <3> QED BY <3>3, <3>4, <3>5, <3>6, Ending
  <2> QED BY <2>3, <2>4
<1> QED BY <1>3, <1>4, <1>5, <1>6, <1>7, <1>8 DEF Intact

\* What the server's steps do, as long as it accepts connections.
LEMMA ServerEffects ==
    ASSUME IInv, PInv, Contained, Intact, ServerNext, listener' # "returned"
    PROVE  /\ UNCHANGED <<pc, handler, outcome, cliOpen, broken>>
           /\ listening' /\ faults' = faults
           /\ \/ srvOpen' = srvOpen
              \/ \E c \in Conns :
                    /\ srvOpen' = [srvOpen EXCEPT ![c] = FALSE]
                    /\ c # Stranger => session[c] = "close"
                    /\ c = Stranger => /\ peer = Stranger /\ peer' # Stranger
                                       /\ backlog' = backlog
           /\ \/ backlog' = backlog /\ peer' \in {peer, None}
              \/ /\ backlog # <<>> /\ backlog' = Tail(backlog)
                 /\ peer' = Head(backlog) /\ srvOpen' = srvOpen
<1>1. UNCHANGED <<pc, handler, outcome>>
  BY DEF ServerNext, clientVars
<1>2. /\ ~ServerCrashes /\ ~StartServerFails /\ ~AcceptFails
      /\ ~ListenerReturns
  BY OtherFaults DEF ServerCrashes, StartServerFails, AcceptFails, ListenerReturns
<1>3. CASE StartServer \/ RecvHello \/ SendWelcome
  BY <1>1, <1>3 DEF StartServer, RecvHello, SendWelcome, Intact
<1>4. CASE Accept
  BY <1>1, <1>4 DEF Accept, Intact
<1>5. CASE RejectHello
  <2>1. peer \in Conns => peer = Stranger
    BY <1>5, Greetings DEF RejectHello, SrvRecv, Conns
  <2>2. CASE peer = Stranger
    BY <1>1, <1>5, <2>2, CallPairs DEF RejectHello, SrvClose, Intact, Conns
  <2>3. CASE peer \notin Conns
    <3>1. srvOpen' = srvOpen
      BY <1>5, <2>3, Types DEF RejectHello, SrvClose, ConnectionTyped
    <3> QED BY <1>1, <1>5, <3>1 DEF RejectHello, Intact
  <2> QED BY <2>1, <2>2, <2>3
<1>6. ASSUME NEW c \in Conns, SessionStep(c) PROVE
           /\ UNCHANGED <<cliOpen, broken, listening, faults, backlog, peer>>
           /\ \/ srvOpen' = srvOpen
              \/ srvOpen' = [srvOpen EXCEPT ![c] = FALSE] /\ session[c] = "close"
  BY <1>6
     DEF SessionStep, RecvRequest, RecvStop, ReadArgument, RunFunction, SendResponse,
         SendBye, CommandFails, CloseSession, SrvClose, netVars
<1>7. session[Stranger] # "close"
  BY DEF PInv, NoStrangers
<1> QED BY <1>1, <1>2, <1>3, <1>4, <1>5, <1>6, <1>7
        DEF ServerNext, ListenerStep, Intact

\* The server's steps keep what containment rests on.
LEMMA ServerIntact ==
    ASSUME IInv, PInv, Contained, Intact, ServerNext, listener' # "returned"
    PROVE  Intact'
<1>1. /\ srvOpen \in [Conns -> BOOLEAN] /\ backlog \in Seq(Conns)
      /\ UNCHANGED <<pc, handler, outcome, cliOpen, broken, faults>> /\ listening'
  BY Types, ServerEffects DEF ConnectionTyped
<1>2. ASSUME NEW c \in Calls PROVE ServerStays(c)'
  <2>1. ServerStays(c) /\ c \in Conns /\ c # Stranger
    BY CallPairs DEF Intact
  <2>2. srvOpen'[c] = srvOpen[c] \/ session[c] = "close"
    BY <1>1, <2>1, ServerEffects
  <2>3. session[c] = "close" /\ cliOpen[c] /\ srvOpen[c] /\ ~broken[c] =>
           pc[c[1]] \in {"bye", "exited"}
    BY DEF PInv, ConnectionInv, Goodbye, Alive
  <2> QED BY <1>1, <2>1, <2>2, <2>3 DEF ServerStays
<1>3. \A t \in Threads : NoneFailed(t)'
  BY <1>1 DEF Intact, NoneFailed, Conn
<1>4. InQueue'
  <2>1. Stranger \in Conns /\ None # Stranger
    BY CallPairs DEF Conns
  <2>2. CASE backlog' = backlog /\ peer' \in {peer, None}
    <3>1. srvOpen'[Stranger] = srvOpen[Stranger]
             \/ (peer = Stranger /\ peer' # Stranger)
      BY <1>1, <2>1, ServerEffects
    <3> QED BY <1>1, <2>1, <2>2, <3>1 DEF Intact, InQueue, Conn
  <2>3. CASE /\ backlog # <<>> /\ backlog' = Tail(backlog)
             /\ peer' = Head(backlog) /\ srvOpen' = srvOpen
    <3>1. /\ 1 \in DOMAIN backlog /\ peer' = backlog[1]
          /\ \A i \in DOMAIN backlog' :
                i + 1 \in DOMAIN backlog /\ backlog'[i] = backlog[i + 1]
                /\ i \in Nat /\ i + 1 # 1
      BY <1>1, <2>3
    <3>2. ASSUME NEW i \in DOMAIN backlog', backlog'[i] \in Calls,
                 ~broken'[backlog'[i]]
          PROVE  /\ pc'[backlog'[i][1]] \in {"hello", "welcome"}
                 /\ handler'[backlog'[i][1]].conn = backlog'[i]
      BY <1>1, <3>1, <3>2 DEF Intact, InQueue, Conn
    <3>3. ASSUME NEW i \in DOMAIN backlog', backlog'[i] = Stranger
          PROVE  /\ srvOpen'[Stranger] /\ peer' # Stranger
                 /\ \A j \in DOMAIN backlog' : backlog'[j] = Stranger => i = j
      BY <2>3, <3>1, <3>3 DEF Intact, InQueue
    <3>4. peer' = Stranger => srvOpen'[Stranger]
      BY <2>3, <3>1 DEF Intact, InQueue
    <3> QED BY <3>2, <3>3, <3>4 DEF InQueue, Conn
  <2> QED BY <2>2, <2>3, ServerEffects
<1>5. FaultsCounted'
  <2>1. Broken' = Broken /\ (srvOpen'[Stranger] => srvOpen[Stranger])
    BY <1>1, ServerEffects DEF Broken, Conns
  <2>2. Cardinality(Broken) \in Nat /\ faults \in Nat
    BY FS_CardinalityType, BoundsAssumption
       DEF Intact, FaultsCounted, IInv, TypeOK, ConnectionTypeOK
  <2> QED BY <1>1, <2>1, <2>2 DEF Intact, FaultsCounted
<1>6. FailureIsContained'
  <2>1. ASSUME listener = "returned" PROVE listener' = "returned"
    BY <2>1, OtherFaults
       DEF ServerNext, ListenerStep, StartServer, StartServerFails, Accept,
           AcceptFails, RecvHello, RejectHello, SendWelcome, ListenerReturns,
           ServerCrashes, SessionStep, RecvRequest, RecvStop, ReadArgument,
           RunFunction, SendResponse, SendBye, CommandFails, CloseSession
  <2> QED BY <1>1, <2>1 DEF Intact, FailureIsContained
<1> QED BY <1>1, <1>2, <1>3, <1>4, <1>5, <1>6 DEF Intact

\* A reset and a foreign program each take a fault.
LEMMA EnvironmentIntact ==
    ASSUME IInv, PInv, Contained, Intact, Environment
    PROVE  Intact'
<1>1. /\ UNCHANGED <<pc, handler, outcome, listener, peer, listening>>
      /\ broken \in [Conns -> BOOLEAN] /\ srvOpen \in [Conns -> BOOLEAN]
      /\ cliOpen \in [Conns -> BOOLEAN] /\ backlog \in Seq(Conns)
      /\ faults \in Nat /\ Cardinality(Broken) \in Nat /\ IsFiniteSet(Broken)
  <2>1. UNCHANGED <<pc, handler, outcome, listener, peer, listening>>
    BY DEF Environment, clientVars, serverVars, StrangerConnects, StrangerLeaves,
           Reset
  <2>2. faults \in Nat
    BY BoundsAssumption DEF IInv, TypeOK, ConnectionTypeOK
  <2>3. Cardinality(Broken) \in Nat /\ IsFiniteSet(Broken)
    BY FS_CardinalityType DEF Intact, FaultsCounted
  <2> QED BY <2>1, <2>2, <2>3, Types DEF ConnectionTyped
<1>2. Stranger \in Conns /\ Calls \subseteq Conns /\ Stranger \notin Calls
  BY CallPairs DEF Conns
<1>3. ASSUME broken' = broken, \A c \in Calls : cliOpen'[c] = cliOpen[c],
             \A c \in Calls : srvOpen'[c] = srvOpen[c]
      PROVE  /\ \A c \in Calls : ServerStays(c)'
             /\ Broken' = Broken
  BY <1>1, <1>3 DEF Intact, ServerStays, Broken
<1>4. \A t \in Threads : NoneFailed(t)'
  BY <1>1 DEF Intact, NoneFailed, Conn
<1>5. ASSUME \A c \in Conns : broken[c] => broken'[c]
      PROVE  FailureIsContained'
  <2> SUFFICES ASSUME listener' # "returned", NEW t \in Threads,
                      NEW k \in DOMAIN outcome[t], outcome[t][k] = "failed"
               PROVE  \E n \in 1..k :
                         /\ broken'[<<t, n>>]
                         /\ \A j \in n..(k - 1) : outcome[t][j] # "failed"
    BY <1>1 DEF FailureIsContained
  <2>1. PICK n \in 1..k : /\ broken[<<t, n>>]
                          /\ \A j \in n..(k - 1) : outcome[t][j] # "failed"
    BY <1>1 DEF Intact, FailureIsContained, Contained
  <2>2. <<t, n>> \in Conns
    <3>1. Len(outcome[t]) \in Nat /\ k \in 1..Len(outcome[t])
      BY Types DEF ClientTyped
    <3>2. Len(outcome[t]) <= calls[t] /\ calls[t] \in Nat /\ calls[t] <= MaxCalls
      <4>1. pc[t] \in InCall \cup {"idle", "stop", "bye", "exited"}
        BY Types DEF ClientTyped, PCs, InCall
      <4>2. calls[t] \in 0..MaxCalls
        BY DEF IInv, TypeOK, ClientTypeOK
      <4> QED BY <3>1, <4>1, <4>2, BoundsAssumption DEF PInv, ThreadInv, Returned
    <3>3. n \in 1..MaxCalls
      BY <3>1, <3>2, BoundsAssumption
    <3> QED BY <3>3, CallPairs DEF Calls, Conns
  <2> QED BY <1>5, <2>1, <2>2
<1>6. CASE StrangerLeaves
  <2>1. /\ UNCHANGED <<broken, srvOpen, backlog, faults>>
        /\ \A c \in Calls : cliOpen'[c] = cliOpen[c]
    BY <1>1, <1>2, <1>6 DEF StrangerLeaves
  <2>2. InQueue' /\ FaultsCounted'
    BY <1>1, <1>3, <2>1 DEF Intact, InQueue, FaultsCounted, Conn
  <2> QED BY <1>1, <1>3, <1>4, <1>5, <2>1, <2>2 DEF Intact
<1>7. CASE StrangerConnects
  <2>1. /\ ~srvOpen[Stranger] /\ broken' = broken /\ faults' = faults + 1
        /\ srvOpen' = [srvOpen EXCEPT ![Stranger] = TRUE]
        /\ backlog' = Append(backlog, Stranger)
        /\ cliOpen' \in {cliOpen, [cliOpen EXCEPT ![Stranger] = TRUE]}
    BY <1>7, OtherFaults DEF StrangerConnects
  <2>2. /\ \A c \in Calls : cliOpen'[c] = cliOpen[c] /\ srvOpen'[c] = srvOpen[c]
        /\ srvOpen'[Stranger]
    BY <1>1, <1>2, <2>1
  <2>3. FaultsCounted'
    <3>1. Broken' = Broken
      BY <2>1 DEF Broken
    <3>2. Cardinality(Broken) <= faults
      BY <1>1, <2>1 DEF Intact, FaultsCounted
    <3> QED BY <1>1, <2>1, <2>2, <3>1, <3>2 DEF FaultsCounted
  <2>4. /\ peer # Stranger /\ \A i \in DOMAIN backlog : backlog[i] # Stranger
        /\ \A i \in DOMAIN backlog' :
              \/ i \in DOMAIN backlog /\ backlog'[i] = backlog[i]
              \/ i = Len(backlog) + 1 /\ backlog'[i] = Stranger
    BY <1>1, <1>2, <2>1 DEF Intact, InQueue
  <2>5. InQueue'
    BY <1>1, <1>2, <2>1, <2>2, <2>4 DEF Intact, InQueue, Conn
  <2> QED BY <1>1, <1>3, <1>4, <1>5, <2>1, <2>2, <2>3, <2>5 DEF Intact
<1>8. ASSUME NEW c \in Calls, Reset(c) PROVE Intact'
  <2>1. /\ UNCHANGED <<srvOpen, cliOpen, backlog>> /\ faults' = faults + 1
        /\ broken' = [broken EXCEPT ![c] = TRUE]
    BY <1>8, OtherFaults DEF Reset
  <2>2. /\ \A d \in Conns : broken[d] => broken'[d]
        /\ Broken' = Broken \cup {c}
    BY <1>1, <1>2, <2>1 DEF Broken
  <2>3. /\ IsFiniteSet(Broken \cup {c}) /\ Cardinality(Broken \cup {c}) \in Nat
        /\ Cardinality(Broken \cup {c}) <= Cardinality(Broken) + 1
    <3>1. /\ IsFiniteSet(Broken \cup {c})
          /\ Cardinality(Broken \cup {c}) =
                IF c \in Broken THEN Cardinality(Broken) ELSE Cardinality(Broken) + 1
      BY <1>1, FS_AddElement
    <3> QED BY <1>1, <3>1
  <2>4. FaultsCounted'
    BY <1>1, <2>1, <2>2, <2>3 DEF Intact, FaultsCounted
  <2>5. InQueue'
    BY <1>1, <1>2, <2>1, <2>2 DEF Intact, InQueue, Conn
  <2>6. \A d \in Calls : ServerStays(d)'
    BY <1>1, <1>2, <2>1, <2>2 DEF Intact, ServerStays
  <2> QED BY <1>1, <1>4, <1>5, <2>2, <2>4, <2>5, <2>6 DEF Intact
<1> QED BY <1>6, <1>7, <1>8 DEF Environment

\* While nothing else goes wrong than resets and foreign programs, and the queue
\* holds every thread and every failure at once, a failing connection hurts one
\* call of the thread it belongs to: every call that fails is on a connection that
\* was reset, and the first to do so.
THEOREM ContainmentInvariance == Spec => []ContainmentInv
<1>1. ASSUME Init, Contained PROVE Intact
  <2>1. /\ listening /\ backlog = <<>> /\ faults = 0 /\ peer = None
        /\ \A c \in Conns : ~cliOpen[c] /\ ~srvOpen[c] /\ ~broken[c]
        /\ \A t \in Threads : handler[t] = None /\ outcome[t] = <<>>
    BY <1>1 DEF Init, ConnectionInit, ClientInit, ServerInit, Contained
  <2>2. Broken = {} /\ FaultsCounted
    <3>1. Broken = {}
      BY <2>1, CallPairs DEF Broken
    <3>2. ~srvOpen[Stranger]
      BY <2>1 DEF Conns
    <3> QED BY <2>1, <3>1, <3>2, FS_EmptySet DEF FaultsCounted
  <2>3. InQueue
    BY <2>1, CallPairs DEF InQueue, Conns
  <2> QED BY <2>1, <2>2, <2>3, CallPairs
          DEF Intact, ServerStays, NoneFailed, Usable, FailureIsContained
<1>2. ASSUME IInv, PInv, PInv', ContainmentInv, [Next]_vars
      PROVE  ContainmentInv'
  <2> SUFFICES ASSUME Contained, listener' # "returned"
               PROVE  Intact'
    BY DEF ContainmentInv, Contained, Room
  <2>1. listener # "returned"
    <3> SUFFICES ASSUME listener = "returned" PROVE listener' = "returned"
      OBVIOUS
    <3>1. CASE ClientNext \/ Environment \/ UNCHANGED vars
      BY <3>1 DEF ClientNext, Environment, vars, serverVars
    <3>2. CASE ServerNext
      BY <3>2, OtherFaults
         DEF ServerNext, ListenerStep, StartServer, StartServerFails, Accept,
             AcceptFails, RecvHello, RejectHello, SendWelcome, ListenerReturns,
             ServerCrashes, SessionStep, RecvRequest, RecvStop, ReadArgument,
             RunFunction, SendResponse, SendBye, CommandFails, CloseSession
    <3> QED BY <1>2, <3>1, <3>2 DEF Next, Terminated
  <2>2. Intact
    BY <1>2, <2>1 DEF ContainmentInv
  <2>3. CASE ClientNext
    <3>1. ~ClientCrashes
      BY OtherFaults DEF ClientCrashes
    <3>2. PICK t \in Threads : Step(t)
      BY <2>3, <3>1 DEF ClientNext, Step
    <3> QED BY <1>2, <2>1, <2>2, <3>2, ClientIntact
  <2>4. CASE ServerNext
    BY <1>2, <2>2, <2>4, ServerIntact
  <2>5. CASE Environment
    BY <1>2, <2>2, <2>5, EnvironmentIntact
  <2>6. CASE UNCHANGED vars
    BY <2>2, <2>6
       DEF vars, clientVars, serverVars, netVars, Intact, ServerStays, NoneFailed,
           InQueue, FaultsCounted, Broken, FailureIsContained, Conn, Usable
  <2> QED BY <1>2, <2>3, <2>4, <2>5, <2>6 DEF Next, Terminated
<1>3. Init => ContainmentInv
  BY <1>1 DEF ContainmentInv
<1>4. IInv /\ PInv /\ PInv' /\ ContainmentInv /\ [Next]_vars => ContainmentInv'
  BY <1>2
<1> QED BY <1>3, <1>4, Invariance, ProtocolInvariance, PTL DEF Spec

\* With the queue of the code, of three, so it is for two threads and one failure;
\* in a shorter queue the connections that were reset take the place of a thread
\* that has nothing to do with them.
THEOREM FailuresAreContained == Spec => [](Room => FailureIsContained)
<1>1. ContainmentInv => (Room => FailureIsContained)
  BY DEF ContainmentInv, Intact, Contained, FailureIsContained
<1> QED BY <1>1, ContainmentInvariance, PTL

=============================================================================
