----------------------------- MODULE GloipProofs ------------------------------
(***************************************************************************)
(* IInv of module Gloip is an inductive invariant, for any threads, calls, *)
(* functions and faults; type correctness and the absence of               *)
(* self-deadlocks follow.                                                  *)
(***************************************************************************)
EXTENDS Gloip, TLAPS

(***************************************************************************)
(* Packets and queues.                                                     *)
(***************************************************************************)
\* Taking from or adding to one queue of a family of queues keeps their type.
LEMMA QueueType ==
    ASSUME NEW I, NEW P, NEW q \in [I -> Seq(P)], NEW i \in I
    PROVE  /\ \A m \in P : [q EXCEPT ![i] = Append(@, m)] \in [I -> Seq(P)]
           /\ q[i] # <<>> => /\ Head(q[i]) \in P
                             /\ [q EXCEPT ![i] = Tail(@)] \in [I -> Seq(P)]
  OBVIOUS

\* A packet with a type is a packet of that type.
LEMMA PacketKinds ==
    /\ \A p \in ClientPackets : p.type = "request" => p \in RequestPackets
    /\ \A p \in ServerPackets : p.type = "response" => p \in ResponsePackets
  BY DEF ClientPackets, ServerPackets, RequestPackets, ResponsePackets,
         ArgumentPackets, ResultPackets, Hello, Stop, Junk, Welcome, Bye

\* The numbers of arguments and of results of a function.
LEMMA FunctionNumbers ==
    \A f \in Functions : /\ f.args \in Bytes /\ f.args \in Nat
                         /\ f.outs \in Bytes /\ f.outs \in Nat
  BY FunctionsAssumption DEF FunctionShapes, Bytes

\* What the client writes is a client packet.
LEMMA ClientSends ==
    /\ Hello \in ClientPackets
    /\ Stop \in ClientPackets
    /\ \A t \in Threads :
          /\ calls[t] \in 1..MaxCalls
          /\ fn[t] \in Functions
          /\ cursor[t] \in Nat /\ cursor[t] <= fn[t].args
          => RequestPacket(t) \in ClientPackets
  BY FunctionNumbers
     DEF ClientPackets, RequestPacket, RequestPackets, ArgumentPackets, Call, Calls

\* What the server writes is a server packet.
LEMMA ServerSends ==
    /\ Welcome \in ServerPackets
    /\ Bye \in ServerPackets
    /\ \A c \in Conns :
          request[c] \in Requests => ResponsePacket(c) \in ServerPackets
  BY FunctionsAssumption
     DEF ServerPackets, ResponsePacket, ResponsePackets, ResultPackets,
         Requests, FunctionShapes

\* The socket calls keep the type of the queues.
LEMMA SocketCalls ==
    ASSUME ConnectionTypeOK, NEW c \in Conns
    PROVE  /\ \A m \in ClientPackets :
                  CliSend(c, m) => c2s' \in [Conns -> Seq(ClientPackets)]
           /\ \A m \in ServerPackets :
                  SrvSend(c, m) => s2c' \in [Conns -> Seq(ServerPackets)]
           /\ CliRecv(c) => /\ Head(s2c[c]) \in ServerPackets
                            /\ s2c' \in [Conns -> Seq(ServerPackets)]
           /\ SrvRecv(c) => /\ Head(c2s[c]) \in ClientPackets
                            /\ c2s' \in [Conns -> Seq(ClientPackets)]
<1>1. c2s \in [Conns -> Seq(ClientPackets)] /\ s2c \in [Conns -> Seq(ServerPackets)]
  BY DEF ConnectionTypeOK
<1>2. ASSUME NEW m \in ClientPackets, CliSend(c, m)
      PROVE  c2s' \in [Conns -> Seq(ClientPackets)]
  <2>1. CASE UNCHANGED c2s
    BY <1>1, <2>1
  <2>2. CASE c2s' = [c2s EXCEPT ![c] = Append(@, m)]
    BY <1>1, <2>2, QueueType
  <2> QED BY <1>2, <2>1, <2>2 DEF CliSend
<1>3. ASSUME NEW m \in ServerPackets, SrvSend(c, m)
      PROVE  s2c' \in [Conns -> Seq(ServerPackets)]
  <2>1. CASE UNCHANGED s2c
    BY <1>1, <2>1
  <2>2. CASE s2c' = [s2c EXCEPT ![c] = Append(@, m)]
    BY <1>1, <2>2, QueueType
  <2> QED BY <1>3, <2>1, <2>2 DEF SrvSend
<1>4. ASSUME CliRecv(c)
      PROVE  /\ Head(s2c[c]) \in ServerPackets
             /\ s2c' \in [Conns -> Seq(ServerPackets)]
  BY <1>1, <1>4, QueueType DEF CliRecv
<1>5. ASSUME SrvRecv(c)
      PROVE  /\ Head(c2s[c]) \in ClientPackets
             /\ c2s' \in [Conns -> Seq(ClientPackets)]
  BY <1>1, <1>5, QueueType DEF SrvRecv
<1> QED BY <1>2, <1>3, <1>4, <1>5

-----------------------------------------------------------------------------
(***************************************************************************)
(* The client.                                                             *)
(***************************************************************************)
\* Client-side part of the invariant.
CInv ==
    ConnectionTypeOK /\ ClientTypeOK /\ CallShape /\ HandlerShape /\ LockDiscipline

\* The two ways a thread goes on keep the type of the client's variables.
LEMMA ReturnType ==
    ASSUME ClientTypeOK, NEW t \in Threads, NEW r \in Outcomes, Return(t, r),
           handler' \in [Threads -> Handlers \cup {None}]
    PROVE  ClientTypeOK'
<1>1. outcome' \in [Threads -> Seq(Outcomes)]
  BY QueueType DEF ClientTypeOK, Return
<1>2. pc' \in [Threads -> PCs] /\ fn' \in [Threads -> Functions \cup {None}]
  BY DEF ClientTypeOK, PCs, Return
<1>3. calls' \in [Threads -> 0..MaxCalls] /\ cursor' \in [Threads -> Nat]
  BY DEF ClientTypeOK, Return
<1> QED BY <1>1, <1>2, <1>3 DEF ClientTypeOK

\* Going on to another control state keeps the type of the client's variables.
LEMMA GotoType ==
    ASSUME ClientTypeOK, NEW t \in Threads, NEW l \in PCs, NEW k \in Nat,
           Goto(t, l, k),
           handler' \in [Threads -> Handlers \cup {None}]
    PROVE  ClientTypeOK'
  BY DEF ClientTypeOK, Goto

\* What disconnecting does: nothing to other handlers and descriptors, and a
\* handler that stays connected was closed before or could not be closed.
LEMMA DisconnectEffect ==
    ASSUME ConnectionTypeOK, ClientTypeOK, NEW t \in Threads,
           NEW h \in Handlers, Disconnect(t, h)
    PROVE  /\ cliOpen' \in [Conns -> BOOLEAN]
           /\ \A c \in Conns \ {h.conn} : cliOpen'[c] = cliOpen[c]
           /\ faults' \in 0..MaxFaults
           /\ handler' \in [Threads -> Handlers \cup {None}]
           /\ \A u \in Threads \ {t} : handler'[u] = handler[u]
           /\ handler'[t] \in Handlers
           /\ handler'[t].conn = h.conn
           /\ handler'[t].connected => "close" \in Faults \/ ~cliOpen[h.conn]
<1> USE DEF ConnectionTypeOK, ClientTypeOK, Disconnect
<1>1. /\ cliOpen' \in [Conns -> BOOLEAN]
      /\ \A c \in Conns \ {h.conn} : cliOpen'[c] = cliOpen[c]
  BY DEF Handlers, Conns
<1>2. faults' \in 0..MaxFaults
  BY BoundsAssumption DEF Fault
<1>3. /\ Disconnected(h) \in Handlers
      /\ Disconnected(h).conn = h.conn
      /\ ~Disconnected(h).connected
  BY DEF Disconnected, Handlers
<1>4. CASE handler' = [handler EXCEPT ![t] = Disconnected(h)]
  BY <1>1, <1>2, <1>3, <1>4
<1>5. CASE /\ IF cliOpen[h.conn] THEN Fault("close") ELSE UNCHANGED faults
           /\ handler' = [handler EXCEPT ![t] = h]
  BY <1>1, <1>2, <1>5 DEF Fault
<1> QED BY <1>4, <1>5

\* gloip_execute, up to its use of an existing connection or the making of another,
\* preserves what the invariant says of the clients.
LEMMA ExecuteInv ==
    ASSUME CInv, NEW t \in Threads, NEW f \in Functions, Execute(t, f)
    PROVE  CInv'
<1> USE DEF CInv, Execute
<1>1. ConnectionTypeOK'
  BY DEF ConnectionTypeOK, netVars
<1>2. ClientTypeOK'
  <2>1. calls' \in [Threads -> 0..MaxCalls]
    BY BoundsAssumption DEF ClientTypeOK
  <2>2. handler' \in [Threads -> Handlers \cup {None}]
    BY DEF ClientTypeOK
  <2>3. pc' \in [Threads -> PCs] /\ fn' \in [Threads -> Functions \cup {None}]
    BY DEF ClientTypeOK, PCs
  <2> QED BY <2>1, <2>2, <2>3 DEF ClientTypeOK
<1>3. CallShape'
  BY BoundsAssumption, FunctionNumbers DEF CallShape, ClientTypeOK, InCall
<1>4. HandlerShape'
  BY ZenonT(30) DEF HandlerShape, ClientTypeOK, Connected, Exiting, InCall, Usable
<1>5. LockDiscipline'
  BY DEF LockDiscipline, ClientTypeOK, Connected, InCall, Usable, netVars, Conn
<1> QED BY <1>1, <1>2, <1>3, <1>4, <1>5

\* So does a connect() that succeeds, which makes a handler with free mutexes.
LEMMA ConnectInv ==
    ASSUME CInv, NEW t \in Threads, Connect(t)
    PROVE  CInv'
<1> USE DEF CInv, Connect
<1>0. Call(t) \in Calls /\ NewHandler(Call(t)) \in Handlers
  BY DEF CallShape, InCall, Call, Calls, NewHandler, Handlers
<1>1. ConnectionTypeOK'
  BY <1>0 DEF ConnectionTypeOK, Conns
<1>2. ClientTypeOK'
  BY <1>0 DEF ClientTypeOK, PCs, Goto
<1>3. CallShape'
  BY DEF CallShape, ClientTypeOK, InCall, Goto
<1>4. HandlerShape'
  BY <1>0, NoneAssumption DEF HandlerShape, ClientTypeOK, Connected, Exiting,
                              InCall, Goto, NewHandler, Call
<1>5. LockDiscipline'
  BY <1>0 DEF LockDiscipline, HandlerShape, ClientTypeOK, ConnectionTypeOK,
              Connected, InCall, Conn, Goto, NewHandler, Call, Conns
<1> QED BY <1>1, <1>2, <1>3, <1>4, <1>5

\* So does a connect() that fails, which leaves the handler as it was.
LEMMA ConnectFailsInv ==
    ASSUME CInv, NEW t \in Threads, ConnectFails(t)
    PROVE  CInv'
<1> USE DEF CInv, ConnectFails
<1>1. ConnectionTypeOK'
  BY BoundsAssumption DEF ConnectionTypeOK, netVars, Fault
<1>2. ClientTypeOK'
  BY DEF ClientTypeOK, PCs, Return, Outcomes
<1>3. CallShape'
  BY DEF CallShape, ClientTypeOK, InCall, Return
<1>4. HandlerShape'
  BY DEF HandlerShape, ClientTypeOK, Connected, Exiting, InCall, Return
<1>5. LockDiscipline'
  BY DEF LockDiscipline, ClientTypeOK, Connected, InCall, Conn, Return, netVars
<1> QED BY <1>1, <1>2, <1>3, <1>4, <1>5

\* A thread that does IO does it on its own connection.
LEMMA OwnHandler ==
    ASSUME CInv, NEW t \in Threads, pc[t] \in Connected \cup Exiting
    PROVE  /\ handler[t] \in Handlers
           /\ Conn(t) \in Conns
           /\ Conn(t)[1] = t
  BY DEF CInv, ClientTypeOK, HandlerShape, Handlers, Conn, Conns

\* So does sending the handshake.
LEMMA SendHelloInv ==
    ASSUME CInv, NEW t \in Threads, SendHello(t)
    PROVE  CInv'
<1> USE DEF CInv, SendHello
<1>0. c2s' \in [Conns -> Seq(ClientPackets)]
  BY OwnHandler, SocketCalls, ClientSends DEF Connected, InCall, WriteAll
<1>1. ConnectionTypeOK'
  BY <1>0 DEF ConnectionTypeOK
<1>2. ClientTypeOK'
  BY <1>0 DEF ClientTypeOK, PCs, Goto
<1>3. CallShape'
  BY DEF CallShape, ClientTypeOK, InCall, Goto
<1>4. HandlerShape'
  BY DEF HandlerShape, ClientTypeOK, Connected, Exiting, InCall, Goto
<1>5. LockDiscipline'
  BY DEF LockDiscipline, ClientTypeOK, Connected, InCall, Conn, Goto
<1> QED BY <1>1, <1>2, <1>3, <1>4, <1>5

\* So does the server's answer to the handshake.
LEMMA RecvWelcomeInv ==
    ASSUME CInv, NEW t \in Threads, RecvWelcome(t)
    PROVE  CInv'
<1> USE DEF CInv, RecvWelcome
<1>0. s2c' \in [Conns -> Seq(ServerPackets)]
  BY OwnHandler, SocketCalls DEF Connected, InCall, ReadAll
<1>1. ConnectionTypeOK'
  BY <1>0 DEF ConnectionTypeOK
<1>2. ClientTypeOK'
  BY <1>0 DEF ClientTypeOK, PCs, Goto
<1>3. CallShape'
  BY FunctionNumbers DEF CallShape, ClientTypeOK, InCall, Goto
<1>4. HandlerShape'
  BY DEF HandlerShape, ClientTypeOK, Connected, Exiting, InCall, Goto
<1>5. LockDiscipline'
  BY DEF LockDiscipline, ClientTypeOK, Connected, InCall, Conn, Goto
<1> QED BY <1>1, <1>2, <1>3, <1>4, <1>5

\* So does a handshake that fails, and leaves no handler in the thread's slot.
LEMMA HandshakeFailsInv ==
    ASSUME CInv, NEW t \in Threads, HandshakeFails(t)
    PROVE  CInv'
<1> USE DEF CInv, HandshakeFails
<1>0. Conn(t) \in Conns /\ Conn(t)[1] = t
  BY OwnHandler DEF Connected, InCall
<1>1. ConnectionTypeOK'
  BY <1>0 DEF ConnectionTypeOK
<1>2. ClientTypeOK'
  BY DEF ClientTypeOK, PCs, Return, Outcomes
<1>3. CallShape'
  BY DEF CallShape, ClientTypeOK, InCall, Return
<1>4. HandlerShape'
  BY DEF HandlerShape, ClientTypeOK, Connected, Exiting, InCall, Return
<1>5. LockDiscipline'
  BY <1>0 DEF LockDiscipline, HandlerShape, ClientTypeOK, ConnectionTypeOK,
              Connected, InCall, Conn, Return, Handlers
<1> QED BY <1>1, <1>2, <1>3, <1>4, <1>5

\* So does sending the next packet of a request.
LEMMA SendPacketInv ==
    ASSUME CInv, NEW t \in Threads, SendPacket(t)
    PROVE  CInv'
<1> USE DEF CInv, SendPacket
<1>0. c2s' \in [Conns -> Seq(ClientPackets)]
  BY OwnHandler, SocketCalls, ClientSends
     DEF Connected, InCall, WriteAll, CallShape, ClientTypeOK
<1>1. ConnectionTypeOK'
  BY <1>0 DEF ConnectionTypeOK
<1>2. ClientTypeOK'
  <2>1. ASSUME Goto(t, "send", cursor[t] + 1)
        PROVE  ClientTypeOK'
    BY <2>1 DEF ClientTypeOK, PCs, Goto
  <2>2. ASSUME RequestSent(t)
        PROVE  ClientTypeOK'
    <3>1. CASE Goto(t, "response", 0)
      BY <3>1 DEF ClientTypeOK, PCs, Goto
    <3>2. CASE Return(t, "sent")
      BY <3>2 DEF ClientTypeOK, PCs, Return, Outcomes
    <3> QED BY <2>2, <3>1, <3>2 DEF RequestSent
  <2> QED BY <2>1, <2>2
<1>3. CallShape'
  <2>1. CASE cursor[t] < fn[t].args /\ Goto(t, "send", cursor[t] + 1)
    <3>1. cursor[t] + 1 <= fn[t].args
      BY <2>1, FunctionNumbers DEF CallShape, InCall, ClientTypeOK
    <3> QED BY <2>1, <3>1 DEF CallShape, ClientTypeOK, InCall, Goto
  <2>2. CASE RequestSent(t)
    BY <2>2 DEF CallShape, ClientTypeOK, InCall, RequestSent, Goto, Return
  <2> QED BY <2>1, <2>2
<1>4. HandlerShape'
  <2>1. \A u \in Threads \ {t} : pc'[u] = pc[u]
    <3>1. CASE Goto(t, "send", cursor[t] + 1)
      BY <3>1 DEF Goto, ClientTypeOK
    <3>2. CASE Goto(t, "response", 0)
      BY <3>2 DEF Goto, ClientTypeOK
    <3>3. CASE Return(t, "sent")
      BY <3>3 DEF Return, ClientTypeOK
    <3> QED BY <3>1, <3>2, <3>3 DEF RequestSent
  <2>2. handler' = handler /\ handler[t] # None
    BY DEF HandlerShape, Connected, InCall
  <2>3. ASSUME NEW u \in Threads, pc'[u] \in Connected \cup Exiting
        PROVE  handler[u] # None
    <3>1. CASE u = t
      BY <2>2, <3>1
    <3>2. CASE u # t
      BY <2>1, <2>3, <3>2 DEF HandlerShape
    <3> QED BY <3>1, <3>2
  <2> QED BY <2>2, <2>3 DEF HandlerShape
<1>5. LockDiscipline'
  BY DEF LockDiscipline, ClientTypeOK, Connected, InCall, Conn, RequestSent,
         Goto, Return
<1> QED BY <1>1, <1>2, <1>3, <1>4, <1>5

\* So does reading the header of a response.
LEMMA RecvResponseInv ==
    ASSUME CInv, NEW t \in Threads, RecvResponse(t)
    PROVE  CInv'
<1> USE DEF CInv, RecvResponse
<1>0. Received(t) \in ServerPackets /\ NumReturnArgs(Received(t)) \subseteq Nat
  <2>1. Received(t) \in ServerPackets
    BY OwnHandler, SocketCalls DEF Connected, InCall, ReadAll, Received
  <2> QED BY <2>1, PacketKinds DEF NumReturnArgs, ResponsePackets, Bytes
<1>1. s2c' \in [Conns -> Seq(ServerPackets)]
  BY OwnHandler, SocketCalls DEF Connected, InCall, ReadAll
<1>2. UNCHANGED <<handler, c2s, cliOpen, srvOpen, broken, backlog, listening,
                  faults>>
  OBVIOUS
<1>3. ConnectionTypeOK'
  BY <1>1, <1>2 DEF ConnectionTypeOK
<1>4. handler' \in [Threads -> Handlers \cup {None}]
  BY <1>2 DEF ClientTypeOK
<1>5. CASE Return(t, "ok")
  <2>1. ClientTypeOK'
    BY <1>4, <1>5, ReturnType DEF Outcomes
  <2>2. CallShape' /\ HandlerShape' /\ LockDiscipline'
    BY <1>2, <1>5
       DEF Return, ClientTypeOK, CallShape, HandlerShape, LockDiscipline,
           InCall, Connected, Exiting, Conn
  <2> QED BY <1>3, <2>1, <2>2
<1>6. ASSUME NEW n \in Nat, Goto(t, "results", n)
      PROVE  CInv'
  <2>1. ClientTypeOK'
    BY <1>4, <1>6, GotoType DEF PCs
  <2>2. CallShape' /\ HandlerShape' /\ LockDiscipline'
    BY <1>2, <1>6
       DEF Goto, ClientTypeOK, CallShape, HandlerShape, LockDiscipline,
           InCall, Connected, Exiting, Conn
  <2> QED BY <1>3, <2>1, <2>2
<1> QED BY <1>0, <1>5, <1>6

\* So does reading one result of a response.
LEMMA RecvResultInv ==
    ASSUME CInv, NEW t \in Threads, RecvResult(t)
    PROVE  CInv'
<1> USE DEF CInv, RecvResult
<1>1. s2c' \in [Conns -> Seq(ServerPackets)]
  BY OwnHandler, SocketCalls DEF Connected, InCall, ReadAll
<1>2. UNCHANGED <<handler, c2s, cliOpen, srvOpen, broken, backlog, listening,
                  faults>>
  OBVIOUS
<1>3. ConnectionTypeOK'
  BY <1>1, <1>2 DEF ConnectionTypeOK
<1>4. handler' \in [Threads -> Handlers \cup {None}]
  BY <1>2 DEF ClientTypeOK
<1>5. CASE Return(t, "ok")
  <2>1. ClientTypeOK'
    BY <1>4, <1>5, ReturnType DEF Outcomes
  <2>2. CallShape' /\ HandlerShape' /\ LockDiscipline'
    BY <1>2, <1>5
       DEF Return, ClientTypeOK, CallShape, HandlerShape, LockDiscipline,
           InCall, Connected, Exiting, Conn
  <2> QED BY <1>3, <2>1, <2>2
<1>6. ASSUME NEW n \in Nat, Goto(t, "results", n)
      PROVE  CInv'
  <2>1. ClientTypeOK'
    BY <1>4, <1>6, GotoType DEF PCs
  <2>2. CallShape' /\ HandlerShape' /\ LockDiscipline'
    BY <1>2, <1>6
       DEF Goto, ClientTypeOK, CallShape, HandlerShape, LockDiscipline,
           InCall, Connected, Exiting, Conn
  <2> QED BY <1>3, <2>1, <2>2
<1>7. cursor[t] > 1 => cursor[t] - 1 \in Nat
  BY DEF ClientTypeOK
<1> QED BY <1>5, <1>6, <1>7

\* So does a failing write of a request: its mutex stays locked, and the handler is
\* disconnected unless close() fails.
LEMMA SendRequestFailsInv ==
    ASSUME CInv, NEW t \in Threads, SendRequestFails(t)
    PROVE  CInv'
<1> USE DEF CInv, SendRequestFails
<1> DEFINE h == WriteLockLeft(handler[t])
<1>0. handler[t] \in Handlers /\ Conn(t) \in Conns /\ Conn(t)[1] = t
  BY OwnHandler DEF Connected, InCall
<1>1. h \in Handlers /\ h.conn = Conn(t)
  BY <1>0 DEF WriteLockLeft, Handlers, Conn
<1>2. /\ UNCHANGED <<c2s, s2c, srvOpen, broken, backlog, listening>>
      /\ Disconnect(t, h)
      /\ Return(t, "failed")
  OBVIOUS
<1> HIDE DEF h
<1>3. /\ cliOpen' \in [Conns -> BOOLEAN]
      /\ \A c \in Conns \ {h.conn} : cliOpen'[c] = cliOpen[c]
      /\ faults' \in 0..MaxFaults
      /\ handler' \in [Threads -> Handlers \cup {None}]
      /\ \A u \in Threads \ {t} : handler'[u] = handler[u]
      /\ handler'[t] \in Handlers
      /\ handler'[t].conn = h.conn
      /\ handler'[t].connected => "close" \in Faults \/ ~cliOpen[h.conn]
  BY <1>1, <1>2, DisconnectEffect
<1>4. ConnectionTypeOK'
  BY <1>2, <1>3 DEF ConnectionTypeOK
<1>5. ClientTypeOK'
  BY <1>2, <1>3, ReturnType DEF Outcomes
<1>6. /\ pc' = [pc EXCEPT ![t] = "idle"]
      /\ fn' = [fn EXCEPT ![t] = None]
      /\ calls' = calls
  BY <1>2 DEF Return
<1>7. CallShape'
  BY <1>2, <1>6 DEF CallShape, ClientTypeOK, InCall, Return
<1>8. HandlerShape'
  BY <1>0, <1>1, <1>3, <1>6
     DEF HandlerShape, ClientTypeOK, Connected, Exiting, InCall
<1>9. LockDiscipline'
  <2> SUFFICES ASSUME "close" \notin Faults, NEW u \in Threads
               PROVE  /\ /\ handler'[u] # None
                         /\ handler'[u].connected
                         /\ pc'[u] # "exited"
                         => /\ ~handler'[u].writeMutex
                            /\ ~handler'[u].readMutex
                            /\ cliOpen'[handler'[u].conn]
                      /\ pc'[u] \in Connected => handler'[u].connected
    BY DEF LockDiscipline, Conn
  <2>1. CASE u = t
    <3>1. cliOpen[h.conn] /\ pc'[t] = "idle"
      BY <1>0, <1>1, <1>6, NoneAssumption
         DEF LockDiscipline, ClientTypeOK, Connected, InCall, Conn
    <3> QED BY <1>3, <2>1, <3>1 DEF Connected, InCall
  <2>2. CASE u # t
    <3>1. handler'[u] = handler[u] /\ pc'[u] = pc[u]
      BY <1>3, <1>6, <2>2
    <3>2. handler[u] # None => /\ handler[u].conn \in Conns \ {h.conn}
                               /\ cliOpen'[handler[u].conn] = cliOpen[handler[u].conn]
      BY <1>0, <1>1, <1>3, <2>2 DEF HandlerShape, ClientTypeOK, Handlers, Conns
    <3> QED BY <3>1, <3>2 DEF LockDiscipline, Conn
  <2> QED BY <2>1, <2>2
<1> QED BY <1>4, <1>5, <1>7, <1>8, <1>9

\* So does a failing read of a response, in the same way.
LEMMA WaitForResponseFailsInv ==
    ASSUME CInv, NEW t \in Threads, WaitForResponseFails(t)
    PROVE  CInv'
<1> USE DEF CInv, WaitForResponseFails
<1> DEFINE h == ReadLockLeft(handler[t])
<1>0. handler[t] \in Handlers /\ Conn(t) \in Conns /\ Conn(t)[1] = t
  BY OwnHandler DEF Connected, InCall
<1>1. h \in Handlers /\ h.conn = Conn(t)
  BY <1>0 DEF ReadLockLeft, Handlers, Conn
<1>2. /\ UNCHANGED <<c2s, s2c, srvOpen, broken, backlog, listening>>
      /\ Disconnect(t, h)
      /\ Return(t, "failed")
  OBVIOUS
<1> HIDE DEF h
<1>3. /\ cliOpen' \in [Conns -> BOOLEAN]
      /\ \A c \in Conns \ {h.conn} : cliOpen'[c] = cliOpen[c]
      /\ faults' \in 0..MaxFaults
      /\ handler' \in [Threads -> Handlers \cup {None}]
      /\ \A u \in Threads \ {t} : handler'[u] = handler[u]
      /\ handler'[t] \in Handlers
      /\ handler'[t].conn = h.conn
      /\ handler'[t].connected => "close" \in Faults \/ ~cliOpen[h.conn]
  BY <1>1, <1>2, DisconnectEffect
<1>4. ConnectionTypeOK'
  BY <1>2, <1>3 DEF ConnectionTypeOK
<1>5. ClientTypeOK'
  BY <1>2, <1>3, ReturnType DEF Outcomes
<1>6. /\ pc' = [pc EXCEPT ![t] = "idle"]
      /\ fn' = [fn EXCEPT ![t] = None]
      /\ calls' = calls
  BY <1>2 DEF Return
<1>7. CallShape'
  BY <1>2, <1>6 DEF CallShape, ClientTypeOK, InCall, Return
<1>8. HandlerShape'
  BY <1>0, <1>1, <1>3, <1>6
     DEF HandlerShape, ClientTypeOK, Connected, Exiting, InCall
<1>9. LockDiscipline'
  <2> SUFFICES ASSUME "close" \notin Faults, NEW u \in Threads
               PROVE  /\ /\ handler'[u] # None
                         /\ handler'[u].connected
                         /\ pc'[u] # "exited"
                         => /\ ~handler'[u].writeMutex
                            /\ ~handler'[u].readMutex
                            /\ cliOpen'[handler'[u].conn]
                      /\ pc'[u] \in Connected => handler'[u].connected
    BY DEF LockDiscipline, Conn
  <2>1. CASE u = t
    <3>1. cliOpen[h.conn] /\ pc'[t] = "idle"
      BY <1>0, <1>1, <1>6, NoneAssumption
         DEF LockDiscipline, ClientTypeOK, Connected, InCall, Conn
    <3> QED BY <1>3, <2>1, <3>1 DEF Connected, InCall
  <2>2. CASE u # t
    <3>1. handler'[u] = handler[u] /\ pc'[u] = pc[u]
      BY <1>3, <1>6, <2>2
    <3>2. handler[u] # None => /\ handler[u].conn \in Conns \ {h.conn}
                               /\ cliOpen'[handler[u].conn] = cliOpen[handler[u].conn]
      BY <1>0, <1>1, <1>3, <2>2 DEF HandlerShape, ClientTypeOK, Handlers, Conns
    <3> QED BY <3>1, <3>2 DEF LockDiscipline, Conn
  <2> QED BY <2>1, <2>2
<1> QED BY <1>4, <1>5, <1>7, <1>8, <1>9

\* So does the exit of a thread, with or without a connection.
LEMMA ExitInv ==
    ASSUME CInv, NEW t \in Threads, Exit(t)
    PROVE  CInv'
<1> USE DEF CInv, Exit
<1>1. ConnectionTypeOK'
  BY DEF ConnectionTypeOK, netVars
<1>2. ClientTypeOK'
  BY DEF ClientTypeOK, PCs, Goto
<1>3. CallShape'
  BY DEF CallShape, ClientTypeOK, InCall, Goto
<1>4. HandlerShape'
  BY DEF HandlerShape, ClientTypeOK, Connected, Exiting, InCall, Goto
<1>5. LockDiscipline'
  BY DEF LockDiscipline, ClientTypeOK, Connected, InCall, Conn, Goto, netVars
<1> QED BY <1>1, <1>2, <1>3, <1>4, <1>5

\* So does sending the shutdown packet.
LEMMA SendStopInv ==
    ASSUME CInv, NEW t \in Threads, SendStop(t)
    PROVE  CInv'
<1> USE DEF CInv, SendStop
<1>0. c2s' \in [Conns -> Seq(ClientPackets)]
  BY OwnHandler, SocketCalls, ClientSends DEF Exiting, WriteAll
<1>1. ConnectionTypeOK'
  BY <1>0 DEF ConnectionTypeOK
<1>2. ClientTypeOK'
  BY <1>0 DEF ClientTypeOK, PCs, Goto
<1>3. CallShape'
  BY DEF CallShape, ClientTypeOK, InCall, Goto
<1>4. HandlerShape'
  BY DEF HandlerShape, ClientTypeOK, Connected, Exiting, InCall, Goto
<1>5. LockDiscipline'
  BY DEF LockDiscipline, ClientTypeOK, Connected, InCall, Conn, Goto
<1> QED BY <1>1, <1>2, <1>3, <1>4, <1>5

\* So does a shutdown that fails.
LEMMA CleanupFailsInv ==
    ASSUME CInv, NEW t \in Threads, CleanupFails(t)
    PROVE  CInv'
<1> USE DEF CInv, CleanupFails
<1>0. PICK h \in Handlers : /\ h.conn = handler[t].conn
                            /\ handler' = [handler EXCEPT ![t] = h]
  BY OwnHandler DEF Exiting, WriteLockLeft, ReadLockLeft, Handlers
<1>1. ConnectionTypeOK'
  BY DEF ConnectionTypeOK, netVars
<1>2. ClientTypeOK'
  BY <1>0, GotoType DEF ClientTypeOK, PCs
<1>3. CallShape'
  BY DEF CallShape, ClientTypeOK, InCall, Goto
<1>4. HandlerShape'
  BY <1>0, OwnHandler
     DEF HandlerShape, ClientTypeOK, Connected, Exiting, InCall, Goto, Conn
<1>5. LockDiscipline'
  BY DEF LockDiscipline, ClientTypeOK, Connected, InCall, Conn, Goto, netVars
<1> QED BY <1>1, <1>2, <1>3, <1>4, <1>5

\* So does reading the answer to the shutdown packet, and disconnecting.
LEMMA RecvByeInv ==
    ASSUME CInv, NEW t \in Threads, RecvBye(t)
    PROVE  CInv'
<1> USE DEF CInv, RecvBye
<1> DEFINE h == handler[t]
<1>0. handler[t] \in Handlers /\ Conn(t) \in Conns /\ Conn(t)[1] = t
  BY OwnHandler DEF Exiting
<1>1. h \in Handlers /\ h.conn = Conn(t)
  BY <1>0 DEF Conn
<1>2. UNCHANGED <<c2s, srvOpen, broken, backlog, listening>> /\ Disconnect(t,
                  h) /\ Goto(t, "exited", 0)
  OBVIOUS
<1> HIDE DEF h
<1>3. /\ cliOpen' \in [Conns -> BOOLEAN]
      /\ \A c \in Conns \ {h.conn} : cliOpen'[c] = cliOpen[c]
      /\ faults' \in 0..MaxFaults
      /\ handler' \in [Threads -> Handlers \cup {None}]
      /\ \A u \in Threads \ {t} : handler'[u] = handler[u]
      /\ handler'[t] \in Handlers
      /\ handler'[t].conn = h.conn
      /\ handler'[t].connected => "close" \in Faults \/ ~cliOpen[h.conn]
  BY <1>1, <1>2, DisconnectEffect
<1>a. s2c' \in [Conns -> Seq(ServerPackets)]
  BY OwnHandler, SocketCalls DEF Exiting, ReadAll
<1>4. ConnectionTypeOK'
  BY <1>2, <1>3, <1>a DEF ConnectionTypeOK
<1>5. ClientTypeOK'
  BY <1>2, <1>3, GotoType DEF PCs
<1>6. pc' = [pc EXCEPT ![t] = "exited"] /\ fn' = fn /\ calls' = calls
  BY <1>2 DEF Goto
<1>7. CallShape'
  BY <1>2, <1>6 DEF CallShape, ClientTypeOK, InCall, Goto
<1>8. HandlerShape'
  BY <1>0, <1>1, <1>3, <1>6
     DEF HandlerShape, ClientTypeOK, Connected, Exiting, InCall
<1>9. LockDiscipline'
  <2> SUFFICES ASSUME "close" \notin Faults, NEW u \in Threads
               PROVE  /\ /\ handler'[u] # None
                         /\ handler'[u].connected
                         /\ pc'[u] # "exited"
                         => /\ ~handler'[u].writeMutex
                            /\ ~handler'[u].readMutex
                            /\ cliOpen'[handler'[u].conn]
                      /\ pc'[u] \in Connected => handler'[u].connected
    BY DEF LockDiscipline, Conn
  <2>1. CASE u = t
    BY <1>6, <2>1 DEF ClientTypeOK, Connected, InCall
  <2>2. CASE u # t
    <3>1. handler'[u] = handler[u] /\ pc'[u] = pc[u]
      BY <1>3, <1>6, <2>2
    <3>2. handler[u] # None => /\ handler[u].conn \in Conns \ {h.conn}
                               /\ cliOpen'[handler[u].conn] = cliOpen[handler[u].conn]
      BY <1>0, <1>1, <1>3, <2>2 DEF HandlerShape, ClientTypeOK, Handlers, Conns
    <3> QED BY <3>1, <3>2 DEF LockDiscipline, Conn
  <2> QED BY <2>1, <2>2
<1> QED BY <1>4, <1>5, <1>7, <1>8, <1>9

-----------------------------------------------------------------------------
(***************************************************************************)
(* The server.                                                             *)
(***************************************************************************)
\* Server-side part of the invariant.
SInv == ConnectionTypeOK /\ ServerTypeOK /\ RequestShape

\* The accept loop.
LEMMA ListenerInv ==
    ASSUME SInv, ListenerStep
    PROVE  SInv' /\ UNCHANGED cliOpen
<1> USE DEF SInv
<1>s. CASE StartServer
  BY <1>s
     DEF StartServer, ConnectionTypeOK, ServerTypeOK, ListenerPCs, RequestShape
<1>f. CASE StartServerFails
  BY <1>f, BoundsAssumption
     DEF StartServerFails, Fault, ConnectionTypeOK, ServerTypeOK, ListenerPCs,
         RequestShape, netVars
<1>1. CASE Accept
  <2>1. Head(backlog) \in Conns /\ Tail(backlog) \in Seq(Conns)
    BY <1>1 DEF Accept, ConnectionTypeOK
  <2> QED BY <1>1, <2>1
          DEF Accept, ConnectionTypeOK, ServerTypeOK, ListenerPCs, RequestShape
<1>2. CASE AcceptFails
  BY <1>2, BoundsAssumption
     DEF AcceptFails, Fault, ConnectionTypeOK, ServerTypeOK, ListenerPCs,
         RequestShape, netVars
<1>3. CASE RecvHello
  <2>1. CASE peer \in Conns
    BY <1>3, <2>1, SocketCalls
       DEF RecvHello, ConnectionTypeOK, ServerTypeOK, ListenerPCs, RequestShape
  <2>2. CASE peer \notin Conns
    <3>1. UNCHANGED c2s
      BY <1>3, <2>2 DEF RecvHello, SrvRecv, ConnectionTypeOK
    <3> QED BY <1>3, <3>1
            DEF RecvHello, ConnectionTypeOK, ServerTypeOK, ListenerPCs, RequestShape
  <2> QED BY <2>1, <2>2
<1>4. CASE RejectHello
  <2>1. c2s' \in [Conns -> Seq(ClientPackets)]
    <3>1. CASE peer \in Conns
      BY <1>4, <3>1, SocketCalls DEF RejectHello
    <3>2. CASE peer \notin Conns
      BY <1>4, <3>2 DEF RejectHello, SrvRecv, ConnectionTypeOK
    <3> QED BY <3>1, <3>2
  <2>2. srvOpen' \in [Conns -> BOOLEAN]
    BY <1>4 DEF RejectHello, SrvClose, ConnectionTypeOK
  <2> QED BY <1>4, <2>1, <2>2
          DEF RejectHello, ConnectionTypeOK, ServerTypeOK, ListenerPCs, RequestShape
<1>5. CASE SendWelcome
  <2>1. s2c' \in [Conns -> Seq(ServerPackets)]
    <3>1. CASE peer \in Conns
      BY <1>5, <3>1, SocketCalls, ServerSends DEF SendWelcome
    <3>2. CASE peer \notin Conns
      BY <1>5, <3>2 DEF SendWelcome, SrvSend, ConnectionTypeOK
    <3> QED BY <3>1, <3>2
  <2> QED BY <1>5, <2>1
          DEF SendWelcome, ConnectionTypeOK, ServerTypeOK, ListenerPCs,
              SessionPCs, RequestShape
<1>6. CASE ListenerReturns
  <2>1. srvOpen' \in [Conns -> BOOLEAN]
    BY <1>6 DEF ListenerReturns, SrvClose, ConnectionTypeOK
  <2> QED BY <1>6, <2>1
          DEF ListenerReturns, ConnectionTypeOK, ServerTypeOK, ListenerPCs,
               RequestShape
<1> QED BY <1>s, <1>f, <1>1, <1>2, <1>3, <1>4, <1>5, <1>6 DEF ListenerStep

\* The thread of a connection.
LEMMA SessionInv ==
    ASSUME SInv, NEW c \in Conns, SessionStep(c)
    PROVE  SInv' /\ UNCHANGED cliOpen
<1> USE DEF SInv
<1>0. request[c] # None => request[c] \in Requests /\ request[c].fn.args \in Nat
  <2>1. \A r \in Requests : r.fn \in FunctionShapes
    BY FunctionsAssumption DEF Requests
  <2>2. \A f \in FunctionShapes : f.args \in Nat
    BY DEF FunctionShapes, Bytes
  <2>3. request[c] \in Requests \cup {None}
    BY DEF ServerTypeOK
  <2> QED BY <2>1, <2>2, <2>3
<1>1. CASE RecvRequest(c)
  <2>1. /\ Head(c2s[c]) \in RequestPackets
        /\ c2s' \in [Conns -> Seq(ClientPackets)]
    BY <1>1, SocketCalls, PacketKinds DEF RecvRequest
  <2>2. [call |-> Head(c2s[c]).call, fn |-> Head(c2s[c]).fn] \in Requests
    BY <2>1 DEF RequestPackets, Requests
  <2>3. ConnectionTypeOK'
    BY <1>1, <2>1 DEF RecvRequest, ConnectionTypeOK
  <2>4. ServerTypeOK'
    BY <1>1, <2>2 DEF RecvRequest, ServerTypeOK, SessionPCs
  <2>5. RequestShape'
    BY <1>1, <2>2, PeerAssumption DEF RecvRequest, ServerTypeOK, RequestShape
  <2> QED BY <1>1, <2>3, <2>4, <2>5 DEF RecvRequest
<1>2. CASE RecvStop(c)
  <2>1. c2s' \in [Conns -> Seq(ClientPackets)]
    BY <1>2, SocketCalls DEF RecvStop
  <2> QED BY <1>2, <2>1
          DEF RecvStop, ConnectionTypeOK, ServerTypeOK, SessionPCs, RequestShape
<1>3. CASE ReadArgument(c)
  <2>1. c2s' \in [Conns -> Seq(ClientPackets)]
    BY <1>3, SocketCalls DEF ReadArgument
  <2>2. ConnectionTypeOK'
    BY <1>3, <2>1 DEF ReadArgument, ConnectionTypeOK
  <2>3. ServerTypeOK'
    BY <1>3 DEF ReadArgument, ServerTypeOK
  <2>4. RequestShape'
    BY <1>3 DEF ReadArgument, ServerTypeOK, RequestShape
  <2> QED BY <1>3, <2>2, <2>3, <2>4 DEF ReadArgument
<1>4. CASE RunFunction(c)
  <2>1. request[c] \in Requests /\ request[c].call \in Calls
    BY <1>0, <1>4 DEF RunFunction, RequestShape, Requests
  <2>2. log' \in Seq(Calls)
    BY <1>4, <2>1 DEF RunFunction, ServerTypeOK
  <2>3. ConnectionTypeOK'
    BY <1>4 DEF RunFunction, ConnectionTypeOK, netVars
  <2>4. ServerTypeOK'
    <3>0. UNCHANGED <<listener, peer, live>>
      BY <1>4 DEF RunFunction
    <3>1. CASE /\ session' = [session EXCEPT ![c] = "respond"]
               /\ done' = [done EXCEPT ![c] = 0]
               /\ UNCHANGED request
      BY <2>2, <3>0, <3>1 DEF ServerTypeOK, SessionPCs
    <3>2. CASE EndRequest(c)
      BY <2>2, <3>0, <3>2 DEF EndRequest, ServerTypeOK, SessionPCs
    <3> QED BY <1>4, <3>1, <3>2 DEF RunFunction
  <2>5. RequestShape'
    BY <1>4 DEF RunFunction, AllArgumentsRead, EndRequest, ServerTypeOK,
                RequestShape
  <2> QED BY <1>4, <2>3, <2>4, <2>5 DEF RunFunction, netVars
<1>5. CASE SendResponse(c)
  <2>1. request[c] \in Requests /\ request[c].fn.args <= live[c]
    BY <1>0, <1>5 DEF SendResponse, RequestShape
  <2>2. s2c' \in [Conns -> Seq(ServerPackets)]
    BY <1>5, <2>1, SocketCalls, ServerSends DEF SendResponse
  <2>3. ConnectionTypeOK'
    BY <1>5, <2>2 DEF SendResponse, ConnectionTypeOK
  <2>4. ServerTypeOK'
    <3>1. live[c] - request[c].fn.args \in Nat
      BY <1>0, <2>1, PeerAssumption DEF ServerTypeOK
    <3>2. CASE EndRequest(c) /\ DeleteArguments(c)
      BY <1>5, <3>1, <3>2
         DEF SendResponse, EndRequest, DeleteArguments, ServerTypeOK, SessionPCs
    <3>3. CASE /\ done' = [done EXCEPT ![c] = @ + 1]
               /\ UNCHANGED <<session, request, live>>
      BY <1>5, <3>3 DEF SendResponse, ServerTypeOK
    <3> QED BY <1>5, <3>2, <3>3 DEF SendResponse
  <2>5. RequestShape'
    BY <1>5 DEF SendResponse, EndRequest, DeleteArguments, ServerTypeOK,
                RequestShape
  <2> QED BY <1>5, <2>3, <2>4, <2>5 DEF SendResponse
<1>6. CASE SendBye(c)
  <2>1. s2c' \in [Conns -> Seq(ServerPackets)]
    BY <1>6, SocketCalls, ServerSends DEF SendBye
  <2> QED BY <1>6, <2>1
          DEF SendBye, ConnectionTypeOK, ServerTypeOK, SessionPCs, RequestShape
<1>7. CASE CommandFails(c)
  BY <1>7
     DEF CommandFails, ConnectionTypeOK, ServerTypeOK, SessionPCs, RequestShape,
         netVars
<1>8. CASE CloseSession(c)
  <2>1. srvOpen' \in [Conns -> BOOLEAN]
    BY <1>8 DEF CloseSession, SrvClose, ConnectionTypeOK
  <2> QED BY <1>8, <2>1
          DEF CloseSession, ConnectionTypeOK, ServerTypeOK, SessionPCs, RequestShape
<1> QED BY <1>1, <1>2, <1>3, <1>4, <1>5, <1>6, <1>7, <1>8 DEF SessionStep

-----------------------------------------------------------------------------
(***************************************************************************)
(* The whole system.                                                       *)
(***************************************************************************)
\* A step of a client thread inside the library preserves it: one of the above.
LEMMA ClientInv ==
    ASSUME CInv, NEW t \in Threads,
           \/ ClientStep(t)
           \/ \E f \in Functions : Execute(t, f)
           \/ Exit(t)
    PROVE  CInv'
  BY ExecuteInv, ConnectInv, ConnectFailsInv, SendHelloInv, RecvWelcomeInv,
     HandshakeFailsInv, SendPacketInv, RecvResponseInv, RecvResultInv,
     SendRequestFailsInv, WaitForResponseFailsInv, ExitInv, SendStopInv,
     CleanupFailsInv, RecvByeInv
     DEF ClientStep

\* So does the death of the program, which leaves no thread and no handler.
LEMMA ClientCrashesInv ==
    ASSUME CInv, ClientCrashes
    PROVE  CInv'
<1> USE DEF CInv, ClientCrashes
<1>1. ConnectionTypeOK'
  <2>1. cliOpen' \in [Conns -> BOOLEAN] /\ faults' \in 0..MaxFaults
    BY BoundsAssumption DEF ConnectionTypeOK, Fault
  <2> QED BY <2>1 DEF ConnectionTypeOK
<1>2. ClientTypeOK'
  BY DEF ClientTypeOK, PCs
<1>3. CallShape' /\ HandlerShape' /\ LockDiscipline'
  BY DEF CallShape, HandlerShape, LockDiscipline, InCall, Connected, Exiting
<1> QED BY <1>1, <1>2, <1>3

\* The death of the server preserves what the invariant says of the server, and
\* leaves the clients' descriptors alone.
LEMMA ServerCrashesInv ==
    ASSUME SInv, ServerCrashes
    PROVE  SInv' /\ UNCHANGED cliOpen
<1> USE DEF SInv, ServerCrashes
<1>1. ConnectionTypeOK'
  <2>1. srvOpen' \in [Conns -> BOOLEAN] /\ listening' \in BOOLEAN
    OBVIOUS
  <2>3. backlog' \in Seq(Conns)
    OBVIOUS
  <2>2. faults' \in 0..MaxFaults
    BY BoundsAssumption DEF ConnectionTypeOK, Fault
  <2> QED BY <2>1, <2>2, <2>3 DEF ConnectionTypeOK
<1>2. ServerTypeOK'
  <2>1. session' \in [Conns -> SessionPCs]
    BY DEF SessionPCs
  <2>2. /\ listener' \in ListenerPCs
        /\ peer' \in Conns \cup {None}
        /\ request' \in [Conns -> Requests \cup {None}]
        /\ done' \in [Conns -> Nat]
        /\ live' \in [Conns -> Nat]
    BY DEF ListenerPCs
  <2> QED BY <2>1, <2>2 DEF ServerTypeOK
<1>3. RequestShape'
  BY DEF RequestShape
<1> QED BY <1>1, <1>2, <1>3

\* What the environment does, a reset or a foreign program, preserves the type of
\* the connections, and leaves the clients' descriptors alone.
LEMMA EnvironmentInv ==
    ASSUME ConnectionTypeOK, Environment
    PROVE  ConnectionTypeOK' /\ \A c \in Calls : cliOpen'[c] = cliOpen[c]
<1>1. CASE StrangerConnects
  <2>1. <<>> \in Seq(ClientPackets) /\ <<Junk>> \in Seq(ClientPackets)
    BY DEF ClientPackets
  <2>2. c2s' \in [Conns -> Seq(ClientPackets)]
    BY <1>1, <2>1 DEF StrangerConnects, ConnectionTypeOK
  <2>3. /\ srvOpen' \in [Conns -> BOOLEAN]
        /\ backlog' \in Seq(Conns)
        /\ UNCHANGED <<s2c, broken, listening>>
    BY <1>1 DEF StrangerConnects, ConnectionTypeOK, Conns
  <2>4. faults' \in 0..MaxFaults
    BY <1>1, BoundsAssumption DEF StrangerConnects, Fault, ConnectionTypeOK
  <2>5. /\ cliOpen' \in [Conns -> BOOLEAN]
        /\ \A c \in Calls : cliOpen'[c] = cliOpen[c]
    BY <1>1, StrangerAssumption DEF StrangerConnects, ConnectionTypeOK, Conns
  <2> QED BY <2>2, <2>3, <2>4, <2>5 DEF ConnectionTypeOK
<1>3. CASE StrangerLeaves
  <2>1. /\ cliOpen' \in [Conns -> BOOLEAN]
        /\ \A c \in Calls : cliOpen'[c] = cliOpen[c]
    BY <1>3, StrangerAssumption DEF StrangerLeaves, ConnectionTypeOK, Conns
  <2> QED BY <1>3, <2>1 DEF StrangerLeaves, ConnectionTypeOK
<1>2. ASSUME NEW c \in Calls, Reset(c)
      PROVE  ConnectionTypeOK' /\ UNCHANGED cliOpen
  <2>1. faults' \in 0..MaxFaults
    BY <1>2, BoundsAssumption DEF Reset, Fault, ConnectionTypeOK
  <2>2. /\ broken' \in [Conns -> BOOLEAN]
        /\ UNCHANGED <<c2s, s2c, cliOpen, srvOpen, backlog, listening>>
    BY <1>2 DEF Reset, ConnectionTypeOK
  <2> QED BY <2>1, <2>2 DEF ConnectionTypeOK
<1> QED BY <1>1, <1>2, <1>3 DEF Environment

\* The initial states satisfy the invariant.
THEOREM InitIInv == Init => IInv
<1> SUFFICES ASSUME Init PROVE IInv
  OBVIOUS
<1> USE DEF Init, ConnectionInit, ClientInit, ServerInit
<1>1. ConnectionTypeOK
  BY BoundsAssumption DEF ConnectionTypeOK
<1>2. ClientTypeOK
  BY BoundsAssumption DEF ClientTypeOK, PCs
<1>3. ServerTypeOK
  BY DEF ServerTypeOK, ListenerPCs, SessionPCs
<1>4. CallShape /\ HandlerShape /\ RequestShape /\ LockDiscipline
  BY DEF CallShape, HandlerShape, RequestShape, LockDiscipline, InCall,
         Connected, Exiting
<1> QED BY <1>1, <1>2, <1>3, <1>4 DEF IInv, TypeOK

\* Every step preserves it.
THEOREM NextIInv == IInv /\ [Next]_vars => IInv'
<1> SUFFICES ASSUME IInv, [Next]_vars PROVE IInv'
  OBVIOUS
<1>0. CInv /\ SInv
  BY DEF IInv, TypeOK, CInv, SInv
<1>1. CInv' /\ SInv' => IInv'
  BY DEF IInv, TypeOK, CInv, SInv
<1>2. ASSUME UNCHANGED serverVars PROVE ServerTypeOK' /\ RequestShape'
  BY <1>0, <1>2 DEF SInv, serverVars, ServerTypeOK, RequestShape
<1>3. ASSUME UNCHANGED clientVars, \A c \in Calls : cliOpen'[c] = cliOpen[c]
      PROVE  ClientTypeOK' /\ CallShape' /\ HandlerShape' /\ LockDiscipline'
  <2>1. ClientTypeOK' /\ CallShape' /\ HandlerShape'
    BY <1>0, <1>3
       DEF CInv, clientVars, ClientTypeOK, CallShape, HandlerShape
  <2>2. \A t \in Threads : handler[t] # None => Conn(t) \in Calls
    BY <1>0 DEF CInv, ClientTypeOK, Handlers, Conn
  <2>3. LockDiscipline'
    BY <1>0, <1>3, <2>2 DEF CInv, clientVars, LockDiscipline, Conn
  <2> QED BY <2>1, <2>3
<1>4. CASE ClientNext
  BY <1>0, <1>1, <1>2, <1>4, ClientInv, ClientCrashesInv
     DEF ClientNext, CInv, SInv
<1>5. CASE ServerNext
  <2>1. SInv' /\ UNCHANGED cliOpen
    BY <1>0, <1>5, ListenerInv, SessionInv, ServerCrashesInv DEF ServerNext
  <2> QED BY <1>1, <1>3, <1>5, <2>1 DEF ServerNext, CInv, SInv
<1>6. CASE Environment
  <2>1. ConnectionTypeOK' /\ \A c \in Calls : cliOpen'[c] = cliOpen[c]
    BY <1>0, <1>6, EnvironmentInv DEF CInv
  <2> QED BY <1>1, <1>2, <1>3, <1>6, <2>1 DEF Environment, CInv, SInv
<1>7. CASE UNCHANGED vars
  <2>1. ConnectionTypeOK' /\ UNCHANGED cliOpen
    BY <1>0, <1>7 DEF vars, netVars, CInv, ConnectionTypeOK
  <2> QED BY <1>1, <1>2, <1>3, <1>7, <2>1 DEF vars, CInv, SInv
<1> QED BY <1>4, <1>5, <1>6, <1>7 DEF Next, Terminated

\* IInv is an invariant of the system.
THEOREM Invariance == Spec => []IInv
  BY InitIInv, NextIInv, PTL DEF Spec

\* Every variable keeps its type, for any number of threads, calls and faults.
THEOREM TypeCorrect == Spec => []TypeOK
<1>1. IInv => TypeOK
  BY DEF IInv
<1> QED BY <1>1, Invariance, PTL

\* No call waits for a mutex that an earlier failure on the thread left locked.
THEOREM NoSelfDeadlock == Spec => []CallsNeverSelfDeadlock
<1>1. IInv => CallsNeverSelfDeadlock
  BY DEF IInv, LockDiscipline, HandlerShape, CallsNeverSelfDeadlock,
         Connected, InCall
<1> QED BY <1>1, Invariance, PTL

=============================================================================
