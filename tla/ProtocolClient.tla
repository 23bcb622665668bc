---------------------------- MODULE ProtocolClient -----------------------------
(***************************************************************************)
(* The steps of the client threads preserve PInv of module Protocol.       *)
(* First, what its whole proof keeps needing: the types of the variables,  *)
(* facts about queues, and that a thread to which nothing happens keeps    *)
(* its part of the invariant.                                              *)
(***************************************************************************)
EXTENDS Protocol, GloipProofs, Integers

\* Calls are pairs.
LEMMA CallPairs ==
    /\ \A c \in Calls : c[1] \in Threads /\ c[2] \in 1..MaxCalls /\ c[2] \in Nat
    /\ \A c, d \in Calls : c[1] = d[1] /\ c[2] = d[2] => c = d
    /\ Calls \subseteq Conns
    /\ \A t \in Threads, n \in 1..MaxCalls : <<t, n>> \in Calls
    /\ Stranger \notin Calls
    /\ None \notin Conns
  BY BoundsAssumption, StrangerAssumption, PeerAssumption DEF Calls, Conns

(***************************************************************************)
(* Types.                                                                  *)
(***************************************************************************)
ClientTyped ==
    /\ pc \in [Threads -> PCs]
    /\ calls \in [Threads -> Nat]
    /\ \A t \in Threads : calls[t] <= MaxCalls
    /\ fn \in [Threads -> Functions \cup {None}]
    /\ cursor \in [Threads -> Nat]
    /\ outcome \in [Threads -> Seq(Outcomes)]
    /\ handler \in [Threads -> Handlers \cup {None}]

ConnectionTyped ==
    /\ cliOpen \in [Conns -> BOOLEAN]
    /\ srvOpen \in [Conns -> BOOLEAN]
    /\ broken \in [Conns -> BOOLEAN]
    /\ c2s \in [Conns -> Seq(ClientPackets)]
    /\ s2c \in [Conns -> Seq(ServerPackets)]
    /\ backlog \in Seq(Conns)

ServerTyped ==
    /\ peer \in Conns \cup {None}
    /\ session \in [Conns -> SessionPCs]
    /\ request \in [Conns -> Requests \cup {None}]
    /\ done \in [Conns -> Nat]
    /\ log \in Seq(Calls)
    /\ Executed \subseteq Calls

\* The types of the variables, of a thread's connection and function, and of the
\* request under way.
LEMMA Types ==
    ASSUME IInv
    PROVE  /\ ClientTyped /\ ConnectionTyped /\ ServerTyped
           /\ \A t \in Threads : handler[t] # None =>
                 handler[t] \in Handlers /\ Conn(t) \in Calls /\ Conn(t)[1] = t
           /\ \A t \in Threads : pc[t] \in InCall =>
                 /\ fn[t] \in Functions /\ calls[t] \in 1..MaxCalls
                 /\ Call(t) \in Calls
           /\ \A t \in Threads : pc[t] \in Connected \cup Exiting => handler[t] # None
           /\ \A c \in Conns : HasRequest(c) =>
                 /\ request[c].call \in Calls /\ request[c].fn \in Functions
                 /\ request[c].fn.args \in Nat /\ request[c].fn.outs \in Nat
<1>1. ClientTyped
  BY BoundsAssumption DEF ClientTyped, IInv, TypeOK, ClientTypeOK
<1>2. ConnectionTyped
  BY DEF ConnectionTyped, IInv, TypeOK, ConnectionTypeOK
<1>3. ServerTyped
  BY DEF ServerTyped, IInv, TypeOK, ServerTypeOK, Executed
<1>4. \A t \in Threads : handler[t] # None =>
         handler[t] \in Handlers /\ Conn(t) \in Calls /\ Conn(t)[1] = t
  BY <1>1 DEF ClientTyped, IInv, HandlerShape, Handlers, Conn
<1>5. \A t \in Threads : pc[t] \in InCall =>
         /\ fn[t] \in Functions /\ calls[t] \in 1..MaxCalls
         /\ Call(t) \in Calls
  BY CallPairs DEF IInv, CallShape, Call
<1>6. \A t \in Threads : pc[t] \in Connected \cup Exiting => handler[t] # None
  BY DEF IInv, HandlerShape
<1>7. \A c \in Conns : HasRequest(c) =>
         /\ request[c].call \in Calls /\ request[c].fn \in Functions
         /\ request[c].fn.args \in Nat /\ request[c].fn.outs \in Nat
  BY <1>3, FunctionNumbers DEF ServerTyped, IInv, RequestShape, HasRequest, Requests
<1> QED BY <1>1, <1>2, <1>3, <1>4, <1>5, <1>6, <1>7

\* Packets of calls carry a call, a request a function and an argument a number;
\* the other packets are of no call.
LEMMA Packets ==
    /\ \A p \in ClientPackets :
          /\ p.type = "request" => p.call \in Calls /\ p.fn \in Functions
          /\ p.type = "argument" => p.call \in Calls /\ p.left \in Nat
          /\ OfCall(p) => p # Stop /\ p # Hello /\ Need(p) \in Nat
    /\ Stop.type = "stop" /\ ~OfCall(Stop) /\ ~OfCall(Hello)
    /\ \A x \in Calls, f \in Functions :
          LET p == [type |-> "request", call |-> x, fn |-> f]
          IN  p \in ClientPackets /\ OfCall(p) /\ Need(p) = f.args
    /\ \A x \in Calls, n \in Nat :
          LET p == [type |-> "argument", call |-> x, left |-> n]
          IN  p \in ClientPackets /\ OfCall(p) /\ Need(p) = n
  BY FunctionNumbers
     DEF ClientPackets, RequestPackets, ArgumentPackets, Hello, Stop, Junk, OfCall,
         Need

(***************************************************************************)
(* Queues.                                                                 *)
(***************************************************************************)
\* The tail of a queue is the queue without its head.
LEMMA Tails ==
    ASSUME NEW P, NEW q \in Seq(P), q # <<>>
    PROVE  /\ Head(q) = q[1] /\ q[1] \in P
           /\ Tail(q) \in Seq(P)
           /\ Len(q) \in Nat /\ Len(q) > 0 /\ Len(Tail(q)) = Len(q) - 1
           /\ DOMAIN q = 1..Len(q) /\ DOMAIN Tail(q) = 1..(Len(q) - 1)
           /\ \A i \in 1..(Len(q) - 1) : Tail(q)[i] = q[i + 1]
           /\ Tail(q) = <<>> <=> Len(q) = 1
           /\ 1 \in DOMAIN q
           /\ \A i \in DOMAIN Tail(q) :
                 /\ i \in Nat /\ i + 1 \in DOMAIN q /\ i + 1 > 1
                 /\ Tail(q)[i] = q[i + 1]
<1>1. Len(q) \in Nat /\ Len(q) > 0 /\ DOMAIN q = 1..Len(q) /\ q[1] \in P
  OBVIOUS
<1>2. Head(q) = q[1] /\ Tail(q) \in Seq(P) /\ Len(Tail(q)) = Len(q) - 1
  OBVIOUS
<1>3. DOMAIN Tail(q) = 1..(Len(q) - 1)
  BY <1>1, <1>2
<1>4. \A i \in 1..(Len(q) - 1) : Tail(q)[i] = q[i + 1]
  BY <1>1
<1>5. Tail(q) = <<>> <=> Len(q) = 1
  BY <1>1, <1>2, SMTT(30)
<1>6. 1 \in DOMAIN q
  BY <1>1
<1>7. ASSUME NEW i \in DOMAIN Tail(q)
      PROVE  /\ i \in Nat /\ i + 1 \in DOMAIN q /\ i + 1 > 1
             /\ Tail(q)[i] = q[i + 1]
  BY <1>1, <1>3, <1>4
<1> QED BY <1>1, <1>2, <1>3, <1>4, <1>5, <1>6, <1>7

\* Appending to a queue adds a last element and changes no other.
LEMMA Appends ==
    ASSUME NEW P, NEW q \in Seq(P), NEW m \in P
    PROVE  /\ Append(q, m) \in Seq(P) /\ Append(q, m) # <<>>
           /\ Len(q) \in Nat /\ Len(Append(q, m)) = Len(q) + 1
           /\ DOMAIN q = 1..Len(q) /\ DOMAIN Append(q, m) = 1..(Len(q) + 1)
           /\ \A i \in 1..Len(q) : Append(q, m)[i] = q[i] /\ q[i] \in P
           /\ Append(q, m)[Len(q) + 1] = m
           /\ q = <<>> <=> Len(q) = 0
           /\ \A i \in DOMAIN Append(q, m) :
                 \/ i \in DOMAIN q /\ Append(q, m)[i] = q[i]
                 \/ i = Len(q) + 1 /\ Append(q, m)[i] = m
  OBVIOUS

-----------------------------------------------------------------------------
(***************************************************************************)
(* Threads to which nothing happens.                                       *)
(***************************************************************************)
SameThread(u) ==
    /\ pc'[u] = pc[u] /\ calls'[u] = calls[u] /\ fn'[u] = fn[u]
    /\ cursor'[u] = cursor[u] /\ handler'[u] = handler[u]
    /\ outcome'[u] = outcome[u]

\* The server's thread of c stays where it is, or ends because it has nothing more
\* to do or its connection is gone.
SameSession(c) ==
    \/ /\ session'[c] = session[c]
       /\ HasRequest(c) => request'[c] = request[c] /\ done'[c] = done[c]
    \/ /\ session[c] # "none"
       /\ session'[c] \in {"close", "closed"}
       /\ session[c] = "close" \/ ~Alive(c)'

\* A connection may be reset and its server may close it, and the listener does
\* not take the handshake further.
SameConnection(c) ==
    /\ c2s'[c] = c2s[c] /\ s2c'[c] = s2c[c]
    /\ cliOpen'[c] = cliOpen[c]
    /\ srvOpen'[c] => srvOpen[c]
    /\ Alive(c)' => Alive(c)
    /\ (listener = "welcome" /\ peer = c)' => listener = "welcome" /\ peer = c

\* Other calls may be executed.
SameExecuted(u) ==
    /\ Executed \subseteq Executed'
    /\ \A x \in Executed' : x[1] = u => x \in Executed

Quiet(u) ==
    /\ SameThread(u)
    /\ \A c \in Calls : c[1] = u => SameConnection(c) /\ SameSession(c)
    /\ SameExecuted(u)

\* A thread and its connections, as far as the invariant is about them.
Own(t) ==
    /\ ThreadInv(t)
    /\ \A c \in Calls : c[1] = t => ConnectionInv(c)

\* What is written of a quiet thread's calls, and where it stands, is the same.
LEMMA QuietNumbers ==
    ASSUME IInv, NEW u \in Threads, Quiet(u)
    PROVE  /\ LastNumber(u)' = LastNumber(u)
           /\ ClientNeed(u)' = ClientNeed(u)
           /\ Call(u)' = Call(u)
           /\ Conn(u)' = Conn(u)
           /\ InSession(u)' = InSession(u)
           /\ InSession(u) => Conn(u) \in Calls /\ Conn(u)[1] = u
           /\ \A c \in Calls : c[1] = u =>
                 /\ Used(c)' => Used(c)
                 /\ \A n : ExecutedUpTo(c, n) => ExecutedUpTo(c, n)'
<1> USE DEF Quiet
<1>1. handler[u] # None => Conn(u) \in Calls /\ Conn(u)[1] = u
  BY Types
<1>2. LastNumber(u)' = LastNumber(u) /\ ClientNeed(u)' = ClientNeed(u)
  BY DEF LastNumber, ClientNeed, Unsent, SameThread
<1>3. Call(u)' = Call(u) /\ Conn(u)' = Conn(u)
  BY DEF Call, Conn, SameThread
<1>4. InSession(u)' = InSession(u)
  BY <1>1, <1>3 DEF InSession, SameThread, SameConnection
<1>5. ASSUME NEW c \in Calls, c[1] = u
      PROVE  /\ Used(c)' => Used(c)
             /\ \A n : ExecutedUpTo(c, n) => ExecutedUpTo(c, n)'
  BY <1>5 DEF Used, SameConnection, SameSession, ExecutedUpTo, SameExecuted
<1> QED BY <1>1, <1>2, <1>3, <1>4, <1>5 DEF InSession

\* The streams of a quiet thread.
LEMMA QuietStream ==
    ASSUME IInv, NEW u \in Threads, Quiet(u), NEW c \in Calls, c[1] = u, Stream(c)
    PROVE  Stream(c)'
<1> SUFFICES ASSUME session'[c] \in Serving
             PROVE  QueueOrder(c)' /\ RequestOrder(c)' /\ BeforeNext(c)'
  BY DEF Stream
<1>1. /\ session'[c] = session[c]
      /\ HasRequest(c) => request'[c] = request[c] /\ done'[c] = done[c]
      /\ c2s'[c] = c2s[c]
      /\ HasRequest(c)' = HasRequest(c)
      /\ calls'[u] = calls[u]
  BY DEF Quiet, SameConnection, SameSession, SameThread, Serving, HasRequest
<1>2. QueueOrder(c) /\ RequestOrder(c) /\ BeforeNext(c)
  BY <1>1 DEF Stream
<1>3. \A x, n : Numbered(c, x, n) => Numbered(c, x, n)'
  BY <1>1, QuietNumbers DEF Numbered
<1>4. \A x : x[1] = u /\ x \notin Executed => x \notin Executed'
  BY DEF Quiet, SameExecuted
<1>5. \A x, n, p : x[1] = u /\ Continues(x, n, p) => Continues(x, n, p)'
  BY <1>1 DEF Continues
<1>6. ServerNeed(c)' = ServerNeed(c)
  BY <1>1 DEF ServerNeed, HasRequest
<1>7. RequestOrder(c)'
  BY <1>1, <1>2, <1>3, <1>4, <1>6, QuietNumbers
     DEF RequestOrder, HasRequest, Numbered, Quiet, SameExecuted
<1>8. BeforeNext(c)'
  BY <1>1, <1>2, QuietNumbers DEF BeforeNext, HasRequest, OfCall
<1>9. QueueOrder(c)'
  <2>1. c2s[c] # <<>> => Expected(c, c2s[c][1])'
    BY <1>1, <1>2, <1>5, <1>6, QuietNumbers
       DEF QueueOrder, Expected, Serving, HasRequest, RequestOrder, Numbered
  <2>2. ASSUME NEW i \in DOMAIN c2s[c], OfCall(c2s[c][i])
        PROVE  /\ Numbered(c, c2s[c][i].call, Need(c2s[c][i]))'
               /\ c2s[c][i].call \notin Executed'
               /\ i < Len(c2s[c]) =>
                     Continues(c2s[c][i].call, Need(c2s[c][i]), c2s[c][i + 1])'
    BY <1>1, <1>2, <1>3, <1>4, <1>5, <2>2 DEF QueueOrder, Numbered, Need
  <2> QED BY <1>1, <1>2, <2>1, <2>2 DEF QueueOrder, OfCall, Need
<1> QED BY <1>7, <1>8, <1>9

\* A thread to which nothing happens keeps its part of the invariant.
LEMMA QuietThread ==
    ASSUME IInv, NEW u \in Threads, Quiet(u), Own(u)
    PROVE  Own(u)'
<1> USE DEF Own, ThreadInv, ConnectionInv, Quiet
<1>1. Slot(u)'
  <2>1. handler[u] # None => Conn(u) \in Calls /\ Conn(u)[1] = u
    BY Types
  <2>2. pc[u] = "bye" => handler[u] # None
    BY Types DEF Exiting
  <2> QED BY <2>1, <2>2, QuietNumbers DEF Slot, SameThread, SameConnection
<1>2. Returned(u)'
  BY DEF Returned, SameThread, Usable
<1>3. /\ InSession(u)' => Conn(u) \in Calls /\ Conn(u)[1] = u /\ InSession(u)
      /\ Call(u)' = Call(u) /\ Conn(u)' = Conn(u)
      /\ pc'[u] = pc[u] /\ fn'[u] = fn[u] /\ cursor'[u] = cursor[u]
      /\ calls'[u] = calls[u]
  BY QuietNumbers DEF SameThread
<1>4. Handshake(u)'
  <2>1. pc[u] \in {"hello", "welcome"} => Conn(u) \in Calls /\ Conn(u)[1] = u
    BY Types DEF Connected, InCall
  <2> QED BY <1>3, <2>1 DEF Handshake, SameConnection, SameSession
<1>5. ASSUME InSession(u)', session'[Conn(u)] \in Serving
      PROVE  /\ session'[Conn(u)] = session[Conn(u)]
             /\ HasRequest(Conn(u))' = HasRequest(Conn(u))
             /\ HasRequest(Conn(u)) => /\ request'[Conn(u)] = request[Conn(u)]
                                       /\ done'[Conn(u)] = done[Conn(u)]
             /\ ServerNeed(Conn(u))' = ServerNeed(Conn(u))
             /\ Owed(Conn(u))' = Owed(Conn(u))
             /\ c2s'[Conn(u)] = c2s[Conn(u)] /\ s2c'[Conn(u)] = s2c[Conn(u)]
  BY <1>3, <1>5 DEF SameConnection, SameSession, Serving, HasRequest, ServerNeed,
     Owed
<1>6. NothingLost(u)'
  <2> SUFFICES ASSUME InSession(u)', Alive(Conn(u))', session'[Conn(u)] \in Serving
               PROVE  NothingLost(u)'
    BY <1>3 DEF NothingLost
  <2>1. Alive(Conn(u)) /\ InSession(u)
    BY <1>3 DEF SameConnection
  <2> QED BY <1>3, <1>5, <2>1, QuietNumbers
          DEF NothingLost, LastSent, Need, HasRequest, Serving
<1>7. OneAwaited(u)'
  BY <1>3, <1>5 DEF OneAwaited, Awaits, HasRequest
<1>8. Answer(u)'
  <2> SUFFICES ASSUME InSession(u)' PROVE Answer(u)'
    BY DEF Answer
  <2>1. InSession(u) /\ s2c'[Conn(u)] = s2c[Conn(u)]
    BY <1>3 DEF SameConnection
  <2>2. Owed(Conn(u))' = Owed(Conn(u)) \/ Owed(Conn(u))' = 0
    BY <1>3, <1>5 DEF Owed, Serving
  <2>3. Owed(Conn(u)) \in Nat /\ Len(s2c[Conn(u)]) \in Nat
    <3>1. s2c[Conn(u)] \in Seq(ServerPackets) /\ done[Conn(u)] \in Nat
      BY <1>3, CallPairs, Types DEF ConnectionTyped, ServerTyped
    <3>2. session[Conn(u)] = "respond" =>
             /\ request[Conn(u)].fn.outs \in Nat
             /\ done[Conn(u)] <= request[Conn(u)].fn.outs
      BY <1>3, Types, CallPairs DEF OneAwaited, HasRequest, Serving
    <3> QED BY <3>1, <3>2 DEF Owed
  <2>4. session'[Conn(u)] = "respond" /\ Alive(Conn(u))' =>
           session[Conn(u)] = "respond" /\ Alive(Conn(u))
             /\ done'[Conn(u)] = done[Conn(u)]
    BY <1>3, <1>5 DEF SameConnection, SameSession, Serving, HasRequest
  <2>5. pc[u] \in {"response", "results"} =>
           /\ fn[u].outs \in Nat /\ cursor[u] \in Nat
           /\ ResponseOf(u)' = ResponseOf(u) /\ ResultOf(u)' = ResultOf(u)
    BY <1>3, Types, FunctionNumbers DEF InCall, ResponseOf, ResultOf, ClientTyped
  <2>6. pc[u] \in {"idle", "send", "stop"} => s2c'[Conn(u)] = <<>>
    BY <2>1 DEF Answer
  <2>7. CASE pc[u] = "response"
    BY <1>3, <2>1, <2>2, <2>3, <2>4, <2>5, <2>7, QuietNumbers
       DEF Answer, SameExecuted
  <2>8. CASE pc[u] = "results"
    BY <1>3, <2>1, <2>2, <2>3, <2>5, <2>8, QuietNumbers DEF Answer, SameExecuted
  <2>9. CASE pc[u] = "bye"
    BY <1>3, <2>1, <2>9, QuietNumbers DEF Answer
  <2> QED BY <1>3, <2>6, <2>7, <2>8, <2>9 DEF Answer
<1>9. WrittenWhole(u)'
  BY <1>3 DEF WrittenWhole, SameExecuted
<1>10. ASSUME NEW c \in Calls, c[1] = u
       PROVE  ConnectionInv(c)'
  <2>1. Opened(c)'
    BY <1>3, <1>10, QuietNumbers DEF Opened, SameThread
  <2>2. Unopened(c)'
    BY <1>3, <1>10 DEF Unopened, SameConnection, SameSession
  <2>3. Stream(c)'
    BY <1>10, QuietStream
  <2>4. Goodbye(c)'
    BY <1>3, <1>10, QuietNumbers
       DEF Goodbye, SameConnection, SameSession, Serving
  <2> QED BY <2>1, <2>2, <2>3, <2>4
<1> QED BY <1>1, <1>2, <1>4, <1>6, <1>7, <1>8, <1>9, <1>10

-----------------------------------------------------------------------------
(***************************************************************************)
(* The client threads.                                                     *)
(***************************************************************************)
\* A step of thread t.
Step(t) ==
    /\ \/ ClientStep(t)
       \/ \E f \in Functions : Execute(t, f)
       \/ Exit(t)
    /\ UNCHANGED serverVars

\* Only its own connections are touched, the one it uses or the one it opens.
Untouched(c) ==
    /\ c2s'[c] = c2s[c] /\ s2c'[c] = s2c[c]
    /\ cliOpen'[c] = cliOpen[c] /\ srvOpen'[c] = srvOpen[c]

\* What a disconnect does to the thread's own handler and descriptor.
LEMMA Disconnecting ==
    ASSUME IInv, NEW t \in Threads, NEW h \in Handlers, h.conn = Conn(t),
           Disconnect(t, h)
    PROVE  /\ \A u \in Threads \ {t} : handler'[u] = handler[u]
           /\ handler'[t] \in Handlers /\ handler'[t].conn = Conn(t)
           /\ handler'[t] # None
           /\ \A c \in Conns \ {Conn(t)} : cliOpen'[c] = cliOpen[c]
           /\ ~cliOpen'[Conn(t)]
<1>1. Disconnected(h) \in Handlers /\ Disconnected(h).conn = h.conn
  BY DEF Disconnected, Handlers
<1>2. h.conn \in Conns
  BY CallPairs DEF Handlers
<1>3. handler \in [Threads -> Handlers \cup {None}]
        /\ cliOpen \in [Conns -> BOOLEAN]
  BY Types DEF ClientTyped, ConnectionTyped
<1> QED BY <1>1, <1>2, <1>3, NoneAssumption DEF Disconnect

\* The handler of a failed call has the connection it had.
LEMMA LocksLeft ==
    ASSUME NEW h \in Handlers
    PROVE  /\ WriteLockLeft(h) \in Handlers /\ WriteLockLeft(h).conn = h.conn
           /\ WriteLockLeft(h).connected = h.connected
           /\ ReadLockLeft(h) \in Handlers /\ ReadLockLeft(h).conn = h.conn
           /\ ReadLockLeft(h).connected = h.connected
  BY DEF Handlers, WriteLockLeft, ReadLockLeft

\* What a step does not change.
LEMMA Frame ==
    ASSUME IInv, NEW t \in Threads, Step(t)
    PROVE  /\ \A u \in Threads \ {t} : SameThread(u)
           /\ \A c \in Calls :
                 \/ c = Conn(t) /\ pc[t] \in Connected \cup Exiting
                 \/ c = Call(t) /\ pc[t] = "connect"
                 \/ Untouched(c)
           /\ broken' = broken /\ session' = session /\ request' = request
           /\ done' = done /\ Executed' = Executed
           /\ listener' = listener /\ peer' = peer
           /\ pc[t] # "connect" => srvOpen' = srvOpen /\ backlog' = backlog
           /\ c2s'[Stranger] = c2s[Stranger]
<1> DEFINE Goal == /\ \A u \in Threads \ {t} : SameThread(u)
                   /\ \A c \in Calls :
                         \/ c = Conn(t) /\ pc[t] \in Connected \cup Exiting
                         \/ c = Call(t) /\ pc[t] = "connect"
                         \/ Untouched(c)
                   /\ broken' = broken
                   /\ pc[t] # "connect" => srvOpen' = srvOpen /\ backlog' = backlog
                   /\ c2s'[Stranger] = c2s[Stranger]
<1>0. /\ session' = session /\ request' = request
      /\ done' = done /\ Executed' = Executed
      /\ listener' = listener /\ peer' = peer
  BY DEF Step, serverVars, Executed
<1> SUFFICES Goal
  BY <1>0
<1>t. ClientTyped /\ ConnectionTyped
  BY Types
<1>1. ASSUME pc[t] \in Connected \cup Exiting
      PROVE  handler[t] \in Handlers /\ Conn(t) \in Conns /\ Conn(t) # Stranger
  BY <1>1, Types, CallPairs
<1> USE <1>t, <1>1, CallPairs
    DEF ClientTyped, ConnectionTyped, SameThread, Untouched, Connected, InCall, Exiting
<1>2. ASSUME NEW f \in Functions, Execute(t, f) PROVE Goal
  BY <1>2 DEF Execute, netVars
<1>3. CASE Connect(t)
  <2>1. Call(t) \in Conns
    BY <1>3, Types DEF Connect
  <2> QED BY <1>3, <2>1 DEF Connect, Goto
<1>4. CASE ConnectFails(t) \/ Exit(t) \/ CleanupFails(t)
  BY <1>4 DEF ConnectFails, Exit, CleanupFails, Return, Goto, netVars
<1>5. CASE HandshakeFails(t)
  BY <1>5 DEF HandshakeFails, Return
<1>6. CASE SendHello(t) \/ SendPacket(t) \/ SendStop(t)
  <2>1. /\ c2s'[Stranger] = c2s[Stranger]
          /\ UNCHANGED <<s2c, cliOpen, srvOpen, broken>>
        /\ backlog' = backlog
        /\ \A c \in Conns \ {Conn(t)} : c2s'[c] = c2s[c]
    <3>1. PICK m : CliSend(Conn(t), m)
      BY <1>6 DEF SendHello, SendPacket, SendStop, WriteAll
    <3>2. \A c \in Conns \ {Conn(t)} : c2s'[c] = c2s[c]
      BY <3>1 DEF CliSend
    <3>3. Conn(t) # Stranger /\ Stranger \in Conns
      BY <1>6 DEF SendHello, SendPacket, SendStop, Conns
    <3> QED BY <1>6, <3>2, <3>3 DEF SendHello, SendPacket, SendStop
  <2> QED BY <1>6, <2>1, SMTT(30) DEF SendHello, SendPacket, SendStop, RequestSent, Return,
             Goto
<1>7. CASE RecvWelcome(t) \/ RecvResponse(t) \/ RecvResult(t)
  BY <1>7, SMTT(30) DEF RecvWelcome, RecvResponse, RecvResult, ReadAll, CliRecv, Return, Goto
<1>8. CASE SendRequestFails(t) \/ WaitForResponseFails(t)
  <2>1. PICK h \in Handlers : h.conn = Conn(t) /\ Disconnect(t, h)
    BY <1>8, LocksLeft DEF SendRequestFails, WaitForResponseFails, Conn
  <2> QED BY <1>8, <2>1, Disconnecting DEF SendRequestFails, WaitForResponseFails,
             Return
<1>9. CASE RecvBye(t)
  BY <1>9, Disconnecting DEF RecvBye, ReadAll, CliRecv, Goto, Conn
<1> QED BY <1>2, <1>3, <1>4, <1>5, <1>6, <1>7, <1>8, <1>9 DEF Step, ClientStep

\* Nothing happens to the other threads.
LEMMA OthersQuiet ==
    ASSUME IInv, NEW t \in Threads, Step(t), NEW u \in Threads \ {t}
    PROVE  Quiet(u)
<1>1. SameThread(u) /\ SameExecuted(u)
  BY Frame DEF SameExecuted
<1>2. ASSUME NEW c \in Calls, c[1] = u
      PROVE  SameConnection(c) /\ SameSession(c)
  <2>1. Untouched(c)
    BY <1>2, Frame, Types DEF Call
  <2> QED BY <2>1, Frame DEF Untouched, SameConnection, SameSession, Alive
<1> QED BY <1>1, <1>2 DEF Quiet

-----------------------------------------------------------------------------
\* Only written calls are ever gone back to: what is written grows, and as long as
\* the call is the same, less of it is left to write.
LEMMA Numbers ==
    ASSUME IInv, NEW t \in Threads, Step(t)
    PROVE  /\ calls[t] \in Nat /\ LastNumber(t) \in Int /\ LastNumber(t)' \in Int
           /\ LastNumber(t) <= calls[t] /\ LastNumber(t) <= LastNumber(t)'
           /\ ClientNeed(t) \in Nat /\ ClientNeed(t)' \in Nat
           /\ \/ calls'[t] = calls[t]
              \/ calls'[t] = calls[t] + 1 /\ pc[t] = "idle"
           /\ calls'[t] = calls[t] =>
                 LastNumber(t) < calls[t] \/ ClientNeed(t)' <= ClientNeed(t)
           /\ pc[t] \in {"bye", "exited"} => pc'[t] \in {"bye", "exited"}
           /\ \/ outcome'[t] = outcome[t]
              \/ \E r \in Outcomes : outcome'[t] = Append(outcome[t], r)
<1> DEFINE Goal ==
           /\ LastNumber(t)' \in Int
           /\ LastNumber(t) <= LastNumber(t)'
           /\ ClientNeed(t)' \in Nat
           /\ \/ calls'[t] = calls[t]
              \/ calls'[t] = calls[t] + 1 /\ pc[t] = "idle"
           /\ calls'[t] = calls[t] =>
                 LastNumber(t) < calls[t] \/ ClientNeed(t)' <= ClientNeed(t)
           /\ pc[t] \in {"bye", "exited"} => pc'[t] \in {"bye", "exited"}
           /\ \/ outcome'[t] = outcome[t]
              \/ \E r \in Outcomes : outcome'[t] = Append(outcome[t], r)
<1>1. /\ ClientTyped
      /\ pc[t] = "send" => /\ cursor[t] <= fn[t].args
                           /\ fn[t].args \in Nat
      /\ pc[t] = "idle" => cursor[t] = 0
  BY Types, FunctionNumbers DEF InCall, IInv, CallShape
<1>2. calls[t] \in Nat /\ LastNumber(t) \in Int /\ LastNumber(t) <= calls[t]
        /\ ClientNeed(t) \in Nat
  BY <1>1 DEF ClientTyped, LastNumber, ClientNeed
<1> SUFFICES Goal
  BY <1>2
<1> USE <1>1, <1>2 DEF ClientTyped, LastNumber, ClientNeed, Unsent, Outcomes
<1>3. ASSUME NEW f \in Functions, Execute(t, f) PROVE Goal
  BY <1>3 DEF Execute
<1>4. CASE Connect(t) \/ Exit(t) \/ CleanupFails(t) \/ SendHello(t) \/ SendStop(t)
           \/ RecvWelcome(t) \/ RecvBye(t)
  BY <1>4 DEF Connect, Exit, CleanupFails, SendHello, SendStop, RecvWelcome,
     RecvBye, Goto
<1>5. CASE ConnectFails(t) \/ HandshakeFails(t) \/ SendRequestFails(t)
           \/ WaitForResponseFails(t)
  BY <1>5 DEF ConnectFails, HandshakeFails, SendRequestFails,
     WaitForResponseFails, Return
<1>6. CASE SendPacket(t)
  <2>1. CASE cursor[t] < fn[t].args /\ Goto(t, "send", cursor[t] + 1)
    BY <1>6, <2>1 DEF SendPacket, Goto
  <2>2. CASE RequestSent(t)
    BY <1>6, <2>2 DEF SendPacket, RequestSent, Goto, Return
  <2> QED BY <1>6, <2>1, <2>2 DEF SendPacket
<1>7. CASE RecvResponse(t) \/ RecvResult(t)
  <2>1. CASE Return(t, "ok")
    BY <1>7, <2>1 DEF RecvResponse, RecvResult, Return
  <2>2. CASE \E n : Goto(t, "results", n)
    BY <1>7, <2>2 DEF RecvResponse, RecvResult, Goto
  <2> QED BY <1>7, <2>1, <2>2 DEF RecvResponse, RecvResult
<1> QED BY <1>3, <1>4, <1>5, <1>6, <1>7 DEF Step, ClientStep

\* What has returned stays so.
LEMMA Outcome ==
    ASSUME IInv, NEW t \in Threads, Step(t)
    PROVE  /\ Len(outcome[t]) \in Nat /\ Len(outcome[t]) <= Len(outcome'[t])
           /\ Len(outcome'[t]) \in Nat
           /\ \A i \in 1..Len(outcome[t]) : outcome'[t][i] = outcome[t][i]
<1>1. outcome[t] \in Seq(Outcomes)
  BY Types DEF ClientTyped
<1>2. ASSUME NEW r \in Outcomes, outcome'[t] = Append(outcome[t], r)
      PROVE  /\ Len(outcome'[t]) = Len(outcome[t]) + 1
             /\ \A i \in 1..Len(outcome[t]) : outcome'[t][i] = outcome[t][i]
  BY <1>1, <1>2, Appends
<1> QED BY <1>1, <1>2, Numbers

\* Calls that were on a connection may be there still.
LEMMA NumberedKept ==
    ASSUME IInv, NEW t \in Threads, Step(t), NEW c \in Calls, c[1] = t,
           NEW x \in Calls, NEW n \in Int, Numbered(c, x, n)
    PROVE  Numbered(c, x, n)'
<1>1. x[1] = t /\ x[2] \in c[2]..LastNumber(t) /\ x[2] \in Nat /\ c[2] \in Nat
  BY CallPairs DEF Numbered
<1>2. x[2] = calls[t] => n >= ClientNeed(t)
  BY CallPairs DEF Numbered
<1>3. x[2] \in c[2]..LastNumber(t)'
  BY <1>1, Numbers
<1>4. x[2] = calls'[t] => n >= ClientNeed(t)'
  BY <1>1, <1>2, Numbers
<1> QED BY <1>1, <1>3, <1>4 DEF Numbered

\* So may the request that the server handles.
LEMMA RequestKept ==
    ASSUME IInv, NEW t \in Threads, Step(t), NEW c \in Calls, c[1] = t,
           RequestOrder(c)
    PROVE  RequestOrder(c)'
<1>1. /\ session' = session /\ request' = request /\ done' = done
      /\ Executed' = Executed
  BY Frame
<1>2. HasRequest(c) => ServerNeed(c) \in Int /\ request[c].call \in Calls
  BY Types, CallPairs DEF ServerNeed, ServerTyped
<1>3. ServerNeed(c)' = ServerNeed(c)
        /\ \A n : ExecutedUpTo(c, n)' = ExecutedUpTo(c, n)
  BY <1>1 DEF HasRequest, ServerNeed, ExecutedUpTo
<1> QED BY <1>1, <1>2, <1>3, NumberedKept DEF RequestOrder, HasRequest

\* Thread t, outside the connection it is working on: a stream to which nothing is
\* appended is as good as before.
LEMMA StreamKept ==
    ASSUME IInv, NEW t \in Threads, Own(t), Step(t),
           NEW c \in Calls, c[1] = t, c2s'[c] = c2s[c]
    PROVE  Stream(c)'
<1> SUFFICES ASSUME session[c] \in Serving
             PROVE  QueueOrder(c)' /\ RequestOrder(c)' /\ BeforeNext(c)'
  BY Frame DEF Stream
<1>1. /\ session' = session /\ request' = request /\ done' = done
      /\ Executed' = Executed
  BY Frame
<1>2. QueueOrder(c) /\ RequestOrder(c) /\ BeforeNext(c)
  BY DEF Own, ConnectionInv, Stream
<1>3. HasRequest(c)' = HasRequest(c) /\ ServerNeed(c)' = ServerNeed(c)
  BY <1>1 DEF HasRequest, ServerNeed
<1>4. \A n : ExecutedUpTo(c, n)' = ExecutedUpTo(c, n)
  BY <1>1 DEF ExecutedUpTo
<1>5. ASSUME NEW x \in Calls, NEW n \in Int, Numbered(c, x, n)
      PROVE  Numbered(c, x, n)'
  BY <1>5, NumberedKept
<1>6. ASSUME NEW i \in DOMAIN c2s[c], c2s[c][i] = Stop
      PROVE  calls'[t] = calls[t]
  <2>1. pc[t] \in {"bye", "exited"}
    BY <1>6 DEF Own, ConnectionInv, Goodbye
  <2> QED BY <2>1, Numbers
<1>7. ASSUME NEW x, NEW n, NEW i \in DOMAIN c2s[c], x[1] = t,
             Continues(x, n, c2s[c][i])
      PROVE  Continues(x, n, c2s[c][i])'
  BY <1>6, <1>7 DEF Continues
<1>8. RequestOrder(c)'
  BY <1>2, RequestKept
<1>9. BeforeNext(c)'
  <2> SUFFICES ASSUME NEW d \in Calls, d[1] = c[1], c[2] < d[2], Used(d)'
               PROVE  /\ HasRequest(c) => request[c].call[2] < d[2]
                      /\ \A i \in DOMAIN c2s[c] :
                            OfCall(c2s[c][i]) => c2s[c][i].call[2] < d[2]
    BY <1>1, <1>3 DEF BeforeNext, OfCall
  <2>1. CASE Used(d)
    BY <1>2, <2>1 DEF BeforeNext
  <2>2. CASE ~Used(d)
    <3>1. d = Call(t) /\ pc[t] = "connect"
      BY <2>2, Frame DEF Used, Untouched, Connected, InCall, Exiting
    <3>2. d[2] = calls[t] /\ LastNumber(t) < calls[t]
      BY <3>1, Numbers DEF Call, LastNumber, Unsent
    <3>3. HasRequest(c) => request[c].call[2] <= LastNumber(t)
            /\ request[c].call[2] \in Nat
      BY <1>2, Types, CallPairs DEF RequestOrder, Numbered
    <3>4. \A i \in DOMAIN c2s[c] : OfCall(c2s[c][i]) =>
             c2s[c][i].call[2] <= LastNumber(t)
               /\ c2s[c][i].call[2] \in c[2]..LastNumber(t)
      BY <1>2, Numbers, CallPairs DEF QueueOrder, Numbered
    <3> QED BY <3>2, <3>3, <3>4, Numbers, CallPairs
  <2> QED BY <2>1, <2>2
<1>10. QueueOrder(c)'
  <2> PICK q : q = c2s[c]
    OBVIOUS
  <2>0. q \in Seq(ClientPackets) /\ c2s'[c] = q
    BY Types, CallPairs DEF ConnectionTyped
  <2>1. ASSUME NEW i \in DOMAIN q, OfCall(q[i])
        PROVE  /\ Numbered(c, q[i].call, Need(q[i]))'
               /\ q[i].call \notin Executed'
               /\ i < Len(q) => Continues(q[i].call, Need(q[i]), q[i + 1])'
    <3>1. Numbered(c, q[i].call, Need(q[i])) /\ q[i].call \notin Executed
      BY <1>2, <2>1 DEF QueueOrder
    <3>2. q[i].call \in Calls
      BY <2>0, <2>1, Packets DEF OfCall
    <3>3. i < Len(q) => i + 1 \in DOMAIN q
            /\ Continues(q[i].call, Need(q[i]), q[i + 1])
      BY <1>2, <2>0, <2>1 DEF QueueOrder
    <3>4. q[i].call[1] = t
      BY <3>1 DEF Numbered
    <3>5. Numbered(c, q[i].call, Need(q[i]))'
      BY <1>5, <2>0, <2>1, <3>1, <3>2, Packets DEF Need
    <3> QED BY <1>1, <1>7, <3>1, <3>3, <3>4, <3>5 DEF Need
  <2>2. q # <<>> => Expected(c, q[1])'
    <3> SUFFICES ASSUME q # <<>> PROVE Expected(c, q[1])'
      OBVIOUS
    <3>1. 1 \in DOMAIN q
      BY <2>0
    <3>2. Expected(c, q[1])
      BY <1>2 DEF QueueOrder
    <3>3. HasRequest(c) => request[c].call[1] = t
      BY <1>2 DEF RequestOrder, Numbered
    <3> QED BY <1>1, <1>3, <1>4, <1>6, <1>7, <3>1, <3>2, <3>3
            DEF Expected, Serving, HasRequest
  <2> QED BY <1>2, <2>0, <2>1, <2>2 DEF QueueOrder, OfCall, Need, Before
<1> QED BY <1>8, <1>9, <1>10

-----------------------------------------------------------------------------
(***************************************************************************)
(* The thread's own part, conjunct by conjunct.                            *)
(***************************************************************************)
\* Slot: a handler and its descriptor go together.
LEMMA SlotKept ==
    ASSUME IInv, NEW t \in Threads, Own(t), Step(t)
    PROVE  Slot(t)'
<1>1. ClientTyped /\ ConnectionTyped /\ Slot(t)
  BY Types DEF Own, ThreadInv
<1>2. /\ handler[t] # None => handler[t] \in Handlers /\ Conn(t) \in Calls
        /\ Conn(t)[1] = t
      /\ pc[t] \in Connected \cup Exiting => handler[t] # None
      /\ pc[t] \in InCall => Call(t) \in Calls /\ calls[t] \in Nat
      /\ None \notin Handlers
  BY Types, NoneAssumption DEF ClientTyped
<1> USE <1>1, <1>2, CallPairs
    DEF ClientTyped, ConnectionTyped, Slot, Connected, InCall, Exiting, Conn
<1>3. ASSUME NEW f \in Functions, Execute(t, f) PROVE Slot(t)'
  <2>1. calls'[t] = calls[t] + 1 /\ calls[t] \in Nat /\ cliOpen' = cliOpen
    BY <1>3 DEF Execute, netVars
  <2>2. CASE Usable(handler[t])
    BY <1>3, <2>1, <2>2 DEF Execute, Usable
  <2>3. CASE ~Usable(handler[t])
    BY <1>3, <2>1, <2>3 DEF Execute, Usable
  <2> QED BY <2>2, <2>3
<1>4. CASE Connect(t)
  <2>1. /\ NewHandler(Call(t)) \in Handlers /\ NewHandler(Call(t)).conn = Call(t)
        /\ NewHandler(Call(t)).connected
    BY <1>4 DEF Connect, NewHandler, Handlers
  <2>2. /\ handler'[t] = NewHandler(Call(t)) /\ calls'[t] = calls[t]
        /\ \A c \in Calls \ {Call(t)} : cliOpen'[c] = cliOpen[c]
        /\ pc'[t] = "hello" /\ handler[t] = None /\ Call(t)' = Call(t)
    BY <1>4 DEF Connect, Goto, Call
  <2>3. Call(t)[2] = calls[t]
    BY DEF Call
  <2>4. handler'[t] # None /\ Conn(t)' = Call(t) /\ handler'[t].connected
    BY <2>1, <2>2
  <2>5. \A c \in Calls : c[1] = t /\ cliOpen'[c] => c = Call(t)
    BY <2>2
  <2>6. Conn(t)'[2] <= calls'[t]
    BY <2>2, <2>3, <2>4
  <2>7. Conn(t)' = Call(t)' /\ pc'[t] \notin {"connect", "bye"}
    BY <2>2, <2>4
  <2>8. \A c \in Calls : c[1] = t /\ cliOpen'[c] =>
           handler'[t] # None /\ Conn(t)' = c
    BY <2>4, <2>5
  <2> QED BY <2>4, <2>6, <2>7, <2>8
<1>5. CASE ConnectFails(t) \/ Exit(t)
  BY <1>5 DEF ConnectFails, Exit, Return, Goto, netVars
<1>5a. CASE CleanupFails(t)
  <2>1. /\ cliOpen' = cliOpen /\ handler'[t] \in Handlers
          /\ handler'[t].conn = handler[t].conn
        /\ handler'[t].connected = handler[t].connected /\ calls' = calls
             /\ pc'[t] = "exited"
    BY <1>5a, LocksLeft DEF CleanupFails, Goto, netVars
  <2> QED BY <2>1, <1>5a DEF CleanupFails
<1>6. CASE HandshakeFails(t)
  BY <1>6 DEF HandshakeFails, Return
<1>7. CASE SendHello(t) \/ SendPacket(t)
  BY <1>7, SMTT(30) DEF SendHello, SendPacket, RequestSent, Return, Goto, Call
<1>7a. CASE SendStop(t)
  BY <1>7a DEF SendStop, WriteAll, CliSend, Goto, Call
<1>8. CASE RecvWelcome(t) \/ RecvResponse(t) \/ RecvResult(t)
  BY <1>8, SMTT(30) DEF RecvWelcome, RecvResponse, RecvResult, Return, Goto
<1>9. CASE SendRequestFails(t) \/ WaitForResponseFails(t) \/ RecvBye(t)
  <2>1. PICK h \in Handlers : h.conn = Conn(t) /\ Disconnect(t, h)
    BY <1>9, LocksLeft DEF SendRequestFails, WaitForResponseFails, RecvBye
  <2>2. calls' = calls /\ pc'[t] \in {"idle", "exited"}
    BY <1>9 DEF SendRequestFails, WaitForResponseFails, RecvBye, Return, Goto
  <2>3. /\ handler'[t] # None /\ Conn(t)' = Conn(t) /\ ~cliOpen'[Conn(t)]
        /\ \A c \in Conns \ {Conn(t)} : cliOpen'[c] = cliOpen[c]
    BY <2>1, Disconnecting
  <2>4. Conn(t)[2] <= calls[t] /\ handler[t] # None
    BY <1>9 DEF SendRequestFails, WaitForResponseFails, RecvBye
  <2>5. \A c \in Calls : c[1] = t => ~cliOpen'[c]
    BY <2>3
  <2> QED BY <2>2, <2>3, <2>4, <2>5
<1> QED BY <1>3, <1>4, <1>5, <1>5a, <1>6, <1>7, <1>7a, <1>8, <1>9 DEF Step,
           ClientStep

\* Returned: a call returns once, and a connection is lost only by a failing one.
LEMMA ReturnedKept ==
    ASSUME IInv, NEW t \in Threads, Own(t), Step(t)
    PROVE  Returned(t)'
<1>1. ClientTyped /\ Returned(t)
  BY Types DEF Own, ThreadInv
<1>2. /\ pc[t] \in Connected \cup Exiting => handler[t] # None
      /\ outcome[t] \in Seq(Outcomes) /\ calls[t] \in Nat
      /\ \A r \in Outcomes : LET s == Append(outcome[t], r)
                             IN  Len(s) = Len(outcome[t]) + 1 /\ s[Len(s)] = r
      /\ Len(outcome[t]) \in Nat
  BY <1>1, Types, Appends DEF ClientTyped
<1> USE <1>1, <1>2
    DEF ClientTyped, Returned, Connected, InCall, Exiting, Usable, Outcomes
<1>3. ASSUME NEW f \in Functions, Execute(t, f) PROVE Returned(t)'
  BY <1>3 DEF Execute
<1>4. CASE ConnectFails(t) \/ HandshakeFails(t) \/ SendRequestFails(t)
           \/ WaitForResponseFails(t)
  <2>1. pc[t] \in InCall /\ Return(t, "failed")
    BY <1>4 DEF ConnectFails, HandshakeFails, SendRequestFails, WaitForResponseFails
  <2>2. /\ outcome'[t] = Append(outcome[t], "failed") /\ calls'[t] = calls[t]
        /\ pc'[t] = "idle"
    BY <2>1 DEF Return
  <2> QED BY <2>1, <2>2
<1>5. CASE Connect(t) \/ SendHello(t) \/ RecvWelcome(t) \/ SendStop(t) \/ RecvBye(t)
           \/ CleanupFails(t) \/ Exit(t)
  BY <1>5 DEF Connect, SendHello, RecvWelcome, SendStop, RecvBye, CleanupFails,
     Exit, Goto
<1>6. CASE SendPacket(t) \/ RecvResponse(t) \/ RecvResult(t)
  <2>1. pc[t] \in InCall /\ handler' = handler /\ Usable(handler[t])
    BY <1>6 DEF SendPacket, RecvResponse, RecvResult, WriteAll, ReadAll
  <2>2. ASSUME NEW r \in Outcomes, Return(t, r) PROVE Returned(t)'
    BY <2>1, <2>2 DEF Return
  <2>3. ASSUME NEW l \in {"send", "response", "results"}, NEW k, Goto(t, l, k)
        PROVE  Returned(t)'
    BY <2>1, <2>3 DEF Goto
  <2> QED BY <1>6, <2>2, <2>3 DEF SendPacket, RecvResponse, RecvResult, RequestSent
<1> QED BY <1>3, <1>4, <1>5, <1>6 DEF Step, ClientStep

\* WrittenWhole: the call under way is not executed before it is written.
LEMMA WrittenWholeKept ==
    ASSUME IInv, NEW t \in Threads, Own(t), Step(t)
    PROVE  WrittenWhole(t)'
<1>1. /\ ClientTyped /\ WrittenWhole(t) /\ Executed' = Executed
      /\ \A x \in Executed : x[2] \in Nat
  BY Types, Frame, CallPairs DEF Own, ThreadInv, ServerTyped
<1> USE <1>1 DEF ClientTyped, WrittenWhole
<1>2. ASSUME NEW f \in Functions, Execute(t, f) PROVE WrittenWhole(t)'
  BY <1>2 DEF Execute
<1>3. CASE ConnectFails(t) \/ HandshakeFails(t) \/ SendRequestFails(t)
           \/ WaitForResponseFails(t)
  BY <1>3 DEF ConnectFails, HandshakeFails, SendRequestFails,
     WaitForResponseFails, Return
<1>4. CASE Connect(t) \/ SendHello(t) \/ RecvWelcome(t) \/ SendStop(t) \/ RecvBye(t)
           \/ CleanupFails(t) \/ Exit(t)
  BY <1>4 DEF Connect, SendHello, RecvWelcome, SendStop, RecvBye, CleanupFails,
     Exit, Goto
<1>5. CASE SendPacket(t) \/ RecvResponse(t) \/ RecvResult(t)
  BY <1>5 DEF SendPacket, RecvResponse, RecvResult, RequestSent, Return, Goto
<1> QED BY <1>2, <1>3, <1>4, <1>5 DEF Step, ClientStep

\* A connection that is opened is that of the call.
LEMMA Connecting ==
    ASSUME IInv, NEW t \in Threads, Connect(t)
    PROVE  /\ pc[t] = "connect" /\ pc'[t] = "hello"
           /\ calls'[t] = calls[t] /\ outcome'[t] = outcome[t]
           /\ handler'[t] # None /\ Conn(t)' = Call(t) /\ Call(t)' = Call(t)
           /\ Call(t) \in Calls /\ Call(t)[1] = t /\ Call(t)[2] = calls[t]
<1>1. ClientTyped /\ Call(t) \in Calls
  BY Types DEF Connect, InCall
<1>2. NewHandler(Call(t)) \in Handlers /\ NewHandler(Call(t)).conn = Call(t)
  BY <1>1 DEF NewHandler, Handlers
<1>3. handler'[t] = NewHandler(Call(t))
  BY <1>1 DEF Connect, ClientTyped
<1> QED BY <1>1, <1>2, <1>3, NoneAssumption DEF Connect, Goto, Call, Conn,
           ClientTyped

\* A thread keeps the connection of its handler as long as it keeps the handler,
\* and gets another with a new call only.
LEMMA HandlerMoves ==
    ASSUME IInv, NEW t \in Threads, Step(t)
    PROVE  \/ handler'[t] = None /\ pc'[t] # "connect"
           \/ handler'[t] = None /\ pc'[t] = "connect" /\ calls'[t] = calls[t] + 1
           \/ /\ handler'[t] # None /\ handler[t] # None
              /\ Conn(t)' = Conn(t) /\ pc'[t] # "connect"
           \/ /\ Connect(t) /\ pc'[t] = "hello" /\ calls'[t] = calls[t]
              /\ outcome'[t] = outcome[t]
              /\ handler'[t] # None /\ Conn(t)' = Call(t)
<1>1. ClientTyped
  BY Types
<1>2. pc[t] \in Connected \cup Exiting => handler[t] # None
        /\ handler[t] \in Handlers
  BY Types
<1> USE <1>1, <1>2, NoneAssumption
    DEF ClientTyped, Connected, InCall, Exiting, Conn
<1>3. ASSUME NEW f \in Functions, Execute(t, f)
      PROVE  \/ handler'[t] = None /\ pc'[t] = "connect" /\ calls'[t] = calls[t] + 1
             \/ handler'[t] = handler[t] /\ handler[t] # None /\ pc'[t] # "connect"
  BY <1>3 DEF Execute, Usable
<1>4. CASE Connect(t)
  BY <1>4, Connecting
<1>5. CASE ConnectFails(t) \/ HandshakeFails(t) \/ Exit(t)
  BY <1>5 DEF ConnectFails, HandshakeFails, Exit, Return, Goto
<1>6. CASE CleanupFails(t)
  BY <1>6, LocksLeft DEF CleanupFails, Goto
<1>7. CASE SendHello(t) \/ SendPacket(t) \/ SendStop(t) \/ RecvWelcome(t)
           \/ RecvResponse(t) \/ RecvResult(t)
  BY <1>7
     DEF SendHello, SendPacket, SendStop, RecvWelcome, RecvResponse, RecvResult,
         RequestSent, Return, Goto
<1>8. CASE SendRequestFails(t) \/ WaitForResponseFails(t) \/ RecvBye(t)
  <2>1. PICK h \in Handlers : h.conn = Conn(t) /\ Disconnect(t, h)
    BY <1>8, LocksLeft DEF SendRequestFails, WaitForResponseFails, RecvBye
  <2>2. handler'[t] # None /\ handler'[t].conn = Conn(t)
    BY <2>1, Disconnecting
  <2> QED BY <1>8, <2>2
          DEF SendRequestFails, WaitForResponseFails, RecvBye, Return, Goto
<1> QED BY <1>3, <1>4, <1>5, <1>6, <1>7, <1>8 DEF Step, ClientStep

\* Who writes and who reads.
LEMMA Touching ==
    ASSUME IInv, NEW t \in Threads, Step(t), NEW c \in Calls
    PROVE  /\ c2s'[c] # c2s[c] =>
                 /\ SendHello(t) \/ SendPacket(t) \/ SendStop(t)
                 /\ c = Conn(t) /\ handler[t] # None /\ Alive(c)
           /\ s2c'[c] # s2c[c] =>
                 /\ RecvWelcome(t) \/ RecvResponse(t) \/ RecvResult(t) \/ RecvBye(t)
                 /\ c = Conn(t) /\ handler[t] # None /\ s2c[c] # <<>>
           /\ srvOpen'[c] # srvOpen[c] => Connect(t) /\ c = Call(t)
           /\ Alive(c)' => Alive(c) \/ (Connect(t) /\ c = Call(t))
<1>1. /\ ConnectionTyped /\ c \in Conns
      /\ pc[t] \in Connected \cup Exiting => handler[t] # None
      /\ handler[t] # None => handler[t] \in Handlers /\ Conn(t) \in Conns
  BY Types, CallPairs
<1>2. broken' = broken
  BY Frame
<1> USE <1>1, <1>2 DEF ConnectionTyped, Connected, InCall, Exiting, Alive
<1> DEFINE Goal ==
           /\ c2s'[c] # c2s[c] =>
                 /\ SendHello(t) \/ SendPacket(t) \/ SendStop(t)
                 /\ c = Conn(t) /\ handler[t] # None /\ Alive(c)
           /\ s2c'[c] # s2c[c] =>
                 /\ RecvWelcome(t) \/ RecvResponse(t) \/ RecvResult(t) \/ RecvBye(t)
                 /\ c = Conn(t) /\ handler[t] # None /\ s2c[c] # <<>>
           /\ srvOpen'[c] # srvOpen[c] => Connect(t) /\ c = Call(t)
           /\ Alive(c)' => Alive(c) \/ (Connect(t) /\ c = Call(t))
<1> SUFFICES Goal
  OBVIOUS
<1>3. ASSUME NEW f \in Functions, Execute(t, f) PROVE Goal
  BY <1>3 DEF Execute, netVars
<1>4. CASE Connect(t)
  <2>1. Call(t) \in Conns
    BY <1>4, Types, CallPairs DEF Connect
  <2> QED BY <1>4, <2>1 DEF Connect
<1>5. CASE ConnectFails(t) \/ Exit(t) \/ CleanupFails(t)
  BY <1>5 DEF ConnectFails, Exit, CleanupFails, netVars
<1>6. CASE HandshakeFails(t)
  BY <1>6 DEF HandshakeFails
<1>7. CASE SendHello(t) \/ SendPacket(t) \/ SendStop(t)
  <2>1. PICK m : CliSend(Conn(t), m)
    BY <1>7 DEF SendHello, SendPacket, SendStop, WriteAll
  <2>2. handler[t] # None /\ UNCHANGED <<s2c, cliOpen, srvOpen>>
    BY <1>7 DEF SendHello, SendPacket, SendStop
  <2> QED BY <1>7, <2>1, <2>2 DEF CliSend
<1>8. CASE RecvWelcome(t) \/ RecvResponse(t) \/ RecvResult(t)
  <2>1. CliRecv(Conn(t))
    BY <1>8 DEF RecvWelcome, RecvResponse, RecvResult, ReadAll
  <2>2. handler[t] # None /\ UNCHANGED <<c2s, cliOpen, srvOpen>>
    BY <1>8 DEF RecvWelcome, RecvResponse, RecvResult
  <2> QED BY <1>8, <2>1, <2>2 DEF CliRecv
<1>9. CASE SendRequestFails(t) \/ WaitForResponseFails(t) \/ RecvBye(t)
  <2>1. PICK h \in Handlers : h.conn = Conn(t) /\ Disconnect(t, h)
    BY <1>9, LocksLeft DEF SendRequestFails, WaitForResponseFails, RecvBye, Conn
  <2>2. cliOpen'[c] => cliOpen[c]
    BY <2>1, Disconnecting
  <2>3. handler[t] # None /\ UNCHANGED <<c2s, srvOpen>>
    BY <1>9 DEF SendRequestFails, WaitForResponseFails, RecvBye
  <2> QED BY <1>9, <2>2, <2>3
          DEF SendRequestFails, WaitForResponseFails, RecvBye, ReadAll, CliRecv
<1> QED BY <1>3, <1>4, <1>5, <1>6, <1>7, <1>8, <1>9 DEF Step, ClientStep

\* Opened: the connection a thread opens is later than those it had, and the call
\* before failed.
LEMMA OpenedKept ==
    ASSUME IInv, NEW t \in Threads, Own(t), Step(t), NEW c \in Calls, c[1] = t
    PROVE  Opened(c)'
<1>1. Opened(c) /\ Returned(t)
  BY DEF Own, ThreadInv, ConnectionInv
<1>2. c[2] \in 1..MaxCalls /\ calls[t] \in Nat /\ MaxCalls \in Nat
  BY CallPairs, Numbers, BoundsAssumption
<1> SUFFICES ASSUME Used(c)' PROVE Opened(c)'
  BY DEF Opened
<1>3. CASE Used(c)
  <2>1. /\ c[2] <= calls[t]
        /\ c[2] = calls[t] => pc[t] # "connect"
        /\ handler[t] # None => c[2] <= Conn(t)[2]
        /\ c[2] > 1 => /\ c[2] - 1 \in 1..Len(outcome[t])
                       /\ outcome[t][c[2] - 1] = "failed"
    BY <1>1, <1>2, <1>3, Outcome DEF Opened
  <2>2. c[2] > 1 => /\ c[2] - 1 <= Len(outcome'[t])
                    /\ outcome'[t][c[2] - 1] = "failed"
    BY <1>2, <2>1, Outcome
  <2>3. c[2] <= calls'[t]
    BY <1>2, <2>1, Numbers
  <2>4. c[2] = calls'[t] => pc'[t] # "connect"
    BY <1>2, <2>1, Numbers, HandlerMoves
  <2>5. handler'[t] # None => c[2] <= Conn(t)'[2]
    BY <1>2, <2>1, HandlerMoves DEF Call
  <2> QED BY <2>2, <2>3, <2>4, <2>5 DEF Opened
<1>4. CASE ~Used(c)
  <2>1. Connect(t) /\ c = Call(t) /\ pc[t] = "connect"
    BY <1>4, Frame, Touching DEF Used, Connect
  <2>3. /\ pc'[t] = "hello" /\ calls'[t] = calls[t] /\ outcome'[t] = outcome[t]
        /\ Conn(t)' = Call(t) /\ Call(t)[2] = calls[t]
    BY <2>1, Connecting
  <2>5. c[2] > 1 => /\ c[2] - 1 <= Len(outcome[t])
                    /\ outcome[t][c[2] - 1] = "failed"
    BY <1>1, <1>2, <2>1, <2>3 DEF Returned, InCall
  <2> QED BY <1>2, <2>1, <2>3, <2>5 DEF Opened
<1> QED BY <1>3, <1>4

\* Unopened: only the handshake is written before there is a session.
LEMMA UnopenedKept ==
    ASSUME IInv, NEW t \in Threads, Own(t), Step(t), NEW c \in Calls, c[1] = t
    PROVE  Unopened(c)'
<1>1. Unopened(c) /\ Handshake(t) /\ Slot(t)
  BY DEF Own, ThreadInv, ConnectionInv
<1>2. /\ c[2] \in Nat /\ calls[t] \in Nat
      /\ c2s[c] \in Seq(ClientPackets) /\ s2c[c] \in Seq(ServerPackets)
      /\ session'[c] = session[c]
      /\ ClientTyped /\ ConnectionTyped
      /\ pc[t] \in Connected \cup Exiting => handler[t] # None
      /\ handler[t] # None => Conn(t) \in Calls
  BY CallPairs, Numbers, Types, Frame DEF ConnectionTyped
<1>3. CASE c2s'[c] = c2s[c] /\ s2c'[c] = s2c[c]
  <2>1. \/ c[2] > calls'[t]
        \/ c[2] = calls'[t] /\ pc'[t] = "connect"
        => \/ c[2] > calls[t]
           \/ c[2] = calls[t] /\ pc[t] = "connect"
    BY <1>2, Numbers, HandlerMoves
  <2> QED BY <1>1, <1>2, <1>3, <2>1 DEF Unopened
<1>4. CASE c2s'[c] # c2s[c]
  <2>1. c = Conn(t) /\ handler[t] # None
    BY <1>4, Touching
  <2>2. SendHello(t) \/ SendPacket(t) \/ SendStop(t)
    BY <1>4, Touching
  <2>3. handler' = handler /\ s2c' = s2c /\ calls' = calls /\ cliOpen[c]
        /\ pc'[t] # "connect"
    BY <1>2, <2>1, <2>2
       DEF SendHello, SendPacket, SendStop, RequestSent, Goto, Return, WriteAll,
           CliSend, ClientTyped
  <2>4. c[2] <= calls[t]
    BY <1>1, <1>2, <2>1 DEF Slot
  <2>5. CASE SendHello(t)
    <3>1. session[c] = "none" /\ c2s[c] = <<>>
      BY <1>1, <2>1, <2>5 DEF Handshake, SendHello
    <3>2. c2s'[c] = Append(c2s[c], Hello)
      BY <1>2, <1>4, <2>1, <2>5, CallPairs
         DEF SendHello, WriteAll, CliSend, ConnectionTyped
    <3>3. c2s'[c] = <<Hello>>
      BY <3>1, <3>2
    <3> QED BY <1>1, <1>2, <2>3, <2>4, <3>1, <3>3 DEF Unopened
  <2>6. CASE SendPacket(t) \/ SendStop(t)
    <3>1. InSession(t)
      BY <1>2, <2>1, <2>3, <2>6 DEF InSession, SendPacket, SendStop
    <3>2. session[c] # "none"
      BY <1>1, <2>1, <3>1 DEF Handshake
    <3> QED BY <1>2, <2>3, <2>4, <3>2 DEF Unopened
  <2> QED BY <2>2, <2>5, <2>6
<1>5. CASE s2c'[c] # s2c[c] /\ c2s'[c] = c2s[c]
  <2>1. s2c[c] # <<>>
    BY <1>5, Touching
  <2>2. session[c] # "none"
    BY <1>1, <2>1 DEF Unopened
  <2>3. \/ c[2] > calls'[t]
        \/ c[2] = calls'[t] /\ pc'[t] = "connect"
        => \/ c[2] > calls[t]
           \/ c[2] = calls[t] /\ pc[t] = "connect"
    BY <1>2, Numbers, HandlerMoves
  <2> QED BY <1>1, <1>2, <1>5, <2>2, <2>3 DEF Unopened
<1> QED BY <1>3, <1>4, <1>5

\* The steps of a thread that is past its handshake, and stays on its connection.
IdleStep(t) ==
    \/ \E f \in Functions : Execute(t, f) /\ pc'[t] = "send"
    \/ Exit(t) /\ pc'[t] = "stop"

\* A step after which a thread has a session keeps its connection, does not open
\* it again, and is either the one that ends the handshake, or a step of a
\* thread that had the session before.
LEMMA SessionSteps ==
    ASSUME IInv, NEW t \in Threads, Own(t), Step(t), InSession(t)'
    PROVE  /\ Conn(t)' = Conn(t) /\ Conn(t) \in Calls /\ Conn(t)[1] = t
           /\ Alive(Conn(t))' => Alive(Conn(t))
           /\ \/ RecvWelcome(t)
              \/ /\ InSession(t)
                 /\ \/ IdleStep(t) \/ SendPacket(t) \/ SendStop(t)
                    \/ RecvResponse(t) \/ RecvResult(t)
<1>1. /\ ClientTyped /\ ConnectionTyped /\ Slot(t)
      /\ pc[t] \in Connected \cup Exiting => handler[t] # None
      /\ handler[t] # None =>
            handler[t] \in Handlers /\ Conn(t) \in Calls /\ Conn(t)[1] = t
  BY Types DEF Own, ThreadInv
<1>2. pc'[t] \in {"idle", "send", "response", "results", "stop", "bye"}
      /\ handler'[t] # None /\ cliOpen'[Conn(t)']
  BY DEF InSession
<1>3. handler[t] # None /\ Conn(t)' = Conn(t) /\ ~Connect(t)
  BY <1>2, HandlerMoves, Connecting
<1>4. Alive(Conn(t))' => Alive(Conn(t))
  BY <1>1, <1>3, Touching
<1>5. ~(SendRequestFails(t) \/ WaitForResponseFails(t))
  <2>1. SUFFICES ASSUME SendRequestFails(t) \/ WaitForResponseFails(t) PROVE FALSE
    OBVIOUS
  <2>2. PICK h \in Handlers : h.conn = Conn(t) /\ Disconnect(t, h)
    BY <1>1, <1>3, <2>1, LocksLeft DEF SendRequestFails, WaitForResponseFails, Conn
  <2>3. ~cliOpen'[Conn(t)]
    BY <2>2, Disconnecting
  <2> QED BY <1>2, <1>3, <2>3
<1>6. ~(CleanupFails(t) \/ RecvBye(t) \/ SendHello(t))
  BY <1>1, <1>2 DEF CleanupFails, RecvBye, SendHello, Goto, ClientTyped
<1>7. ~(ConnectFails(t) \/ HandshakeFails(t))
  BY <1>1, <1>2, <1>3 DEF ConnectFails, HandshakeFails, Slot, ClientTyped
<1>8. ASSUME NEW f \in Functions, Execute(t, f)
      PROVE  pc'[t] = "send" /\ InSession(t)
  BY <1>1, <1>2, <1>3, <1>8 DEF Execute, InSession, ClientTyped, netVars
<1>9. ASSUME Exit(t) PROVE pc'[t] = "stop" /\ InSession(t)
  BY <1>1, <1>2, <1>3, <1>9 DEF Exit, Goto, InSession, ClientTyped, netVars
<1>10. ASSUME SendPacket(t) \/ SendStop(t) \/ RecvResponse(t) \/ RecvResult(t)
       PROVE  InSession(t)
  BY <1>3, <1>10 DEF SendPacket, SendStop, RecvResponse, RecvResult, WriteAll,
                     ReadAll, CliSend, CliRecv, InSession
<1> QED BY <1>1, <1>3, <1>4, <1>5, <1>6, <1>7, <1>8, <1>9, <1>10
        DEF Step, ClientStep, IdleStep

\* A thread that is idle goes on without touching its connection.
LEMMA IdleMoves ==
    ASSUME IInv, NEW t \in Threads, IdleStep(t)
    PROVE  /\ pc[t] = "idle" /\ pc'[t] \in {"send", "stop"}
           /\ c2s' = c2s /\ s2c' = s2c
           /\ LastNumber(t)' = LastNumber(t)
           /\ ClientNeed(t) = 0 /\ ClientNeed(t)' = 0
<1>1. ClientTyped /\ (pc[t] = "idle" => cursor[t] = 0)
  BY Types DEF IInv, CallShape
<1> USE <1>1 DEF ClientTyped, LastNumber, ClientNeed, Unsent
<1>2. ASSUME NEW f \in Functions, Execute(t, f), pc'[t] = "send"
      PROVE  /\ pc[t] = "idle" /\ c2s' = c2s /\ s2c' = s2c
             /\ pc'[t] = "send" /\ calls'[t] = calls[t] + 1 /\ cursor'[t] = 0
  BY <1>2 DEF Execute, netVars
<1>3. ASSUME Exit(t), pc'[t] = "stop"
      PROVE  /\ pc[t] = "idle" /\ c2s' = c2s /\ s2c' = s2c
             /\ pc'[t] = "stop" /\ calls'[t] = calls[t] /\ cursor'[t] = 0
  BY <1>3 DEF Exit, Goto, netVars
<1>4. /\ pc[t] = "idle" /\ c2s' = c2s /\ s2c' = s2c /\ cursor'[t] = 0
      /\ \/ pc'[t] = "send" /\ calls'[t] = calls[t] + 1
         \/ pc'[t] = "stop" /\ calls'[t] = calls[t]
  BY <1>2, <1>3 DEF IdleStep
<1>5. LastNumber(t)' = LastNumber(t) /\ ClientNeed(t) = 0 /\ ClientNeed(t)' = 0
  BY <1>4
<1> QED BY <1>4, <1>5

\* The connection of a thread that is welcome is empty, and that of its first call.
LEMMA WelcomeMoves ==
    ASSUME IInv, NEW t \in Threads, Own(t), RecvWelcome(t)
    PROVE  LET c == Conn(t)
           IN  /\ c \in Calls /\ c[1] = t /\ c[2] = calls[t] /\ c2s' = c2s
               /\ session[c] \in {"command", "close", "closed"}
               /\ c2s[c] = <<>> /\ s2c'[c] = <<>>
               /\ pc'[t] = "send" /\ cursor'[t] = 0 /\ calls'[t] = calls[t]
               /\ LastNumber(t)' = calls[t] - 1 /\ ClientNeed(t)' = 0
<1>1. /\ ClientTyped /\ Slot(t) /\ Handshake(t) /\ pc[t] = "welcome"
      /\ Conn(t) \in Calls /\ Conn(t)[1] = t
      /\ Unopened(Conn(t)) /\ ConnectionTyped
  BY Types DEF Own, ThreadInv, ConnectionInv, RecvWelcome, Connected, InCall
<1>2. s2c[Conn(t)] # <<>> /\ s2c' = [s2c EXCEPT ![Conn(t)] = Tail(@)]
  BY DEF RecvWelcome, ReadAll, CliRecv
<1>3. session[Conn(t)] # "none"
  BY <1>1, <1>2 DEF Unopened
<1>4. /\ session[Conn(t)] \in {"command", "close", "closed"}
      /\ c2s[Conn(t)] = <<>> /\ s2c[Conn(t)] = <<Welcome>>
  BY <1>1, <1>2, <1>3 DEF Handshake
<1>5. s2c'[Conn(t)] = <<>>
  BY <1>1, <1>2, <1>4, CallPairs DEF ConnectionTyped
<1>6. Conn(t)[2] = calls[t]
  BY <1>1 DEF Slot, Call
<1>7. pc'[t] = "send" /\ cursor'[t] = 0 /\ calls'[t] = calls[t] /\ c2s' = c2s
  BY <1>1 DEF RecvWelcome, Goto, ClientTyped
<1> QED BY <1>1, <1>4, <1>5, <1>6, <1>7 DEF LastNumber, ClientNeed, Unsent

\* What SendPacket writes, and where the thread is afterwards.
LEMMA PacketMoves ==
    ASSUME IInv, NEW t \in Threads, SendPacket(t)
    PROVE  LET c == Conn(t)
               p == RequestPacket(t)
           IN  /\ pc[t] = "send" /\ c \in Calls /\ c[1] = t
               /\ handler' = handler /\ s2c' = s2c /\ cliOpen' = cliOpen
               /\ OfCall(p) /\ p \in ClientPackets /\ p.call = Call(t)
               /\ p.type = "request" <=> LastNumber(t) < calls[t]
               /\ p.type = "request" => p.fn = fn[t] /\ cursor[t] = 0
               /\ p.type = "argument" => ClientNeed(t) > 0
                    /\ p.left = ClientNeed(t) - 1
               /\ LastNumber(t) \in {calls[t], calls[t] - 1}
               /\ LastNumber(t) < calls[t] => ClientNeed(t) = 0
               /\ calls'[t] = calls[t] /\ calls[t] \in Nat /\ Call(t)' = Call(t)
               /\ LastNumber(t)' = calls[t] /\ ClientNeed(t)' = Need(p)
               /\ \/ pc'[t] \in {"send", "response"} /\ fn'[t] = fn[t]
                  \/ pc'[t] = "idle" /\ ~fn[t].wait
               /\ \/ Alive(c) /\ c2s' = [c2s EXCEPT ![c] = Append(@, p)]
                  \/ ~Alive(c) /\ c2s' = c2s
<1>1. /\ ClientTyped /\ pc[t] = "send" /\ Conn(t) \in Calls /\ Conn(t)[1] = t
      /\ fn[t] \in Functions /\ fn[t].args \in Nat /\ cursor[t] \in Nat
      /\ cursor[t] <= fn[t].args /\ calls[t] \in Nat /\ calls[t] \in 1..MaxCalls
      /\ Call(t) \in Calls
  BY Types, FunctionNumbers
     DEF SendPacket, Connected, InCall, ClientTyped, IInv, CallShape
<1> USE DEF LastNumber, ClientNeed, Unsent
<1>2. /\ handler' = handler /\ s2c' = s2c /\ cliOpen' = cliOpen
      /\ \/ Alive(Conn(t))
              /\ c2s' = [c2s EXCEPT ![Conn(t)] = Append(@, RequestPacket(t))]
         \/ ~Alive(Conn(t)) /\ c2s' = c2s
  BY DEF SendPacket, WriteAll, CliSend
<1>3. /\ OfCall(RequestPacket(t)) /\ RequestPacket(t) \in ClientPackets
      /\ RequestPacket(t).call = Call(t)
      /\ Need(RequestPacket(t)) = fn[t].args - cursor[t]
      /\ RequestPacket(t).type = "request" <=> cursor[t] = 0
      /\ RequestPacket(t).type = "request" => RequestPacket(t).fn = fn[t]
      /\ RequestPacket(t).type = "argument" =>
            cursor[t] > 0 /\ RequestPacket(t).left = fn[t].args - cursor[t]
  BY <1>1, ClientSends DEF RequestPacket, OfCall, Need
<1>c. /\ cursor[t] = 0 => LastNumber(t) = calls[t] - 1 /\ ClientNeed(t) = 0
      /\ cursor[t] > 0 => /\ LastNumber(t) = calls[t]
                          /\ ClientNeed(t) = fn[t].args - cursor[t] + 1
  BY <1>1
<1>4. CASE cursor[t] < fn[t].args /\ Goto(t, "send", cursor[t] + 1)
  <2>1. /\ pc'[t] = "send" /\ cursor'[t] = cursor[t] + 1 /\ fn'[t] = fn[t]
        /\ calls'[t] = calls[t]
    BY <1>1, <1>4 DEF Goto, ClientTyped
  <2>2. LastNumber(t)' = calls[t] /\ ClientNeed(t)' = fn[t].args - cursor[t]
    BY <1>1, <2>1
  <2> QED BY <1>1, <1>2, <1>3, <1>c, <2>1, <2>2 DEF Call
<1>5. CASE cursor[t] = fn[t].args /\ RequestSent(t)
  <2>1. /\ calls'[t] = calls[t] /\ pc'[t] \in {"response", "idle"}
        /\ \/ pc'[t] = "response" /\ fn'[t] = fn[t]
           \/ pc'[t] = "idle" /\ ~fn[t].wait
    BY <1>1, <1>5 DEF RequestSent, Goto, Return, ClientTyped
  <2>2. LastNumber(t)' = calls[t] /\ ClientNeed(t)' = 0
    BY <1>1, <2>1
  <2> QED BY <1>1, <1>2, <1>3, <1>c, <1>5, <2>1, <2>2 DEF Call
<1> QED BY <1>4, <1>5 DEF SendPacket

\* What a thread that waits for its response reads.
LEMMA ResponseMoves ==
    ASSUME IInv, NEW t \in Threads, Own(t), RecvResponse(t) \/ RecvResult(t)
    PROVE  LET c == Conn(t)
           IN  /\ InSession(t) /\ c \in Calls /\ c[1] = t
               /\ handler' = handler /\ cliOpen' = cliOpen /\ c2s' = c2s
               /\ s2c[c] \in Seq(ServerPackets) /\ s2c[c] # <<>>
               /\ s2c' = [s2c EXCEPT ![c] = Tail(@)]
               /\ calls'[t] = calls[t] /\ Call(t)' = Call(t)
               /\ fn[t].outs \in Nat /\ cursor[t] \in Nat
               /\ pc[t] \in {"response", "results"}
               /\ \/ /\ pc'[t] = "idle"
                     /\ IF pc[t] = "response" THEN fn[t].outs = 0 ELSE cursor[t] = 1
                  \/ /\ pc'[t] = "results" /\ fn'[t] = fn[t]
                     /\ cursor'[t] \in Nat /\ cursor'[t] > 0
                     /\ cursor'[t] = IF pc[t] = "response" THEN fn[t].outs
                                                           ELSE cursor[t] - 1
<1>1. /\ ClientTyped /\ pc[t] \in {"response", "results"}
      /\ Conn(t) \in Calls /\ Conn(t)[1] = t /\ handler[t] # None
      /\ fn[t].outs \in Nat /\ cursor[t] \in Nat
      /\ s2c[Conn(t)] \in Seq(ServerPackets)
           /\ s2c \in [Conns -> Seq(ServerPackets)]
  BY Types, FunctionNumbers, CallPairs
     DEF RecvResponse, RecvResult, Connected, InCall, ClientTyped, ConnectionTyped
<1>2. /\ handler' = handler /\ cliOpen' = cliOpen /\ c2s' = c2s
      /\ cliOpen[Conn(t)] /\ s2c[Conn(t)] # <<>>
      /\ s2c' = [s2c EXCEPT ![Conn(t)] = Tail(@)]
  BY DEF RecvResponse, RecvResult, ReadAll, CliRecv
<1>3. InSession(t)
  BY <1>1, <1>2 DEF InSession
<1>4. CASE RecvResponse(t)
  <2>1. Received(t) = ResponseOf(t)
    BY <1>1, <1>2, <1>3, <1>4, Tails DEF Own, ThreadInv, Answer, Received,
       RecvResponse
  <2>2. NumReturnArgs(Received(t)) = {fn[t].outs}
    BY <2>1 DEF NumReturnArgs, ResponseOf
  <2>3. \/ fn[t].outs = 0 /\ Return(t, "ok")
        \/ fn[t].outs > 0 /\ Goto(t, "results", fn[t].outs)
    BY <1>4, <2>2 DEF RecvResponse
  <2>4. pc[t] = "response"
    BY <1>4 DEF RecvResponse
  <2> QED BY <1>1, <1>2, <1>3, <2>3, <2>4 DEF Return, Goto, ClientTyped, Call
<1>5. CASE RecvResult(t)
  BY <1>1, <1>2, <1>3, <1>5 DEF RecvResult, Return, Goto, ClientTyped, Call
<1> QED BY <1>4, <1>5

\* Handshake: the thread waits for the answer to what it sent, and no more.
LEMMA HandshakeKept ==
    ASSUME IInv, Queued, NEW t \in Threads, Own(t), Step(t)
    PROVE  Handshake(t)'
<1>1. /\ ClientTyped /\ ConnectionTyped /\ Handshake(t)
      /\ session' = session /\ listener' = listener /\ peer' = peer
      /\ pc[t] \in Connected \cup Exiting => handler[t] # None
      /\ handler[t] # None => Conn(t) \in Calls /\ Conn(t)[1] = t
  BY Types, Frame DEF Own, ThreadInv
<1>2. ASSUME InSession(t)' PROVE session'[Conn(t)'] # "none"
  BY <1>1, <1>2, SessionSteps, WelcomeMoves DEF Handshake
<1>3. ASSUME pc'[t] = "hello"
      PROVE  /\ session'[Conn(t)'] = "none"
             /\ c2s'[Conn(t)'] = <<>>
             /\ ~(listener = "welcome" /\ peer = Conn(t))'
  <2>1. Connect(t)
    BY <1>1, <1>3
       DEF Step, ClientStep, ConnectFails, SendHello, RecvWelcome,
           HandshakeFails, SendPacket, SendRequestFails, RecvResponse, RecvResult,
           WaitForResponseFails, SendStop, RecvBye, CleanupFails, Execute, Exit,
           RequestSent, Goto, Return, ClientTyped
  <2>2. Conn(t)' = Call(t) /\ Call(t) \in Calls /\ pc[t] = "connect"
        /\ Call(t)[1] = t /\ Call(t)[2] = calls[t]
    BY <2>1, Connecting
  <2>3. ~Used(Call(t)) /\ c2s[Call(t)] = <<>>
    BY <2>2 DEF Own, ConnectionInv, Opened, Unopened
  <2>4. session[Call(t)] = "none" /\ peer # Call(t)
    BY <2>2, <2>3 DEF Used, Queued
  <2>5. c2s' = c2s
    BY <2>1 DEF Connect
  <2> QED BY <1>1, <2>2, <2>3, <2>4, <2>5
<1>4. ASSUME pc'[t] = "welcome", session'[Conn(t)'] # "none"
      PROVE  Handshake(t)'
  <2>1. SendHello(t)
    BY <1>1, <1>4
       DEF Step, ClientStep, ConnectFails, Connect, RecvWelcome,
           HandshakeFails, SendPacket, SendRequestFails, RecvResponse, RecvResult,
           WaitForResponseFails, SendStop, RecvBye, CleanupFails, Execute, Exit,
           RequestSent, Goto, Return, ClientTyped
  <2>2. Conn(t)' = Conn(t) /\ pc[t] = "hello"
    BY <2>1 DEF SendHello, Conn
  <2> QED BY <1>1, <1>4, <2>2 DEF Handshake
<1> QED BY <1>2, <1>3, <1>4 DEF Handshake

\* Goodbye: it is said once, by a thread that makes no more calls.
LEMMA GoodbyeKept ==
    ASSUME IInv, NEW t \in Threads, Own(t), Step(t), NEW c \in Calls, c[1] = t
    PROVE  Goodbye(c)'
<1>1. /\ ClientTyped /\ ConnectionTyped /\ Goodbye(c) /\ Opened(c)
      /\ session' = session /\ Executed' = Executed
      /\ c2s[c] \in Seq(ClientPackets)
  BY Types, Frame, CallPairs DEF Own, ConnectionInv, ConnectionTyped
<1>2. ASSUME pc[t] \in {"bye", "exited"}
      PROVE  pc'[t] \in {"bye", "exited"} /\ calls'[t] = calls[t]
  BY <1>2, Numbers
<1>3. ASSUME session[c] \in Serving, NEW i \in DOMAIN c2s'[c], c2s'[c][i] = Stop
      PROVE  pc'[t] \in {"bye", "exited"}
  <2>1. CASE c2s'[c] = c2s[c]
    BY <1>1, <1>2, <1>3, <2>1 DEF Goodbye
  <2>2. CASE c2s'[c] # c2s[c] /\ SendStop(t)
    BY <1>1, <2>2 DEF SendStop, Goto, ClientTyped
  <2>3. CASE c2s'[c] # c2s[c] /\ SendHello(t)
    BY <1>3, <2>3, Touching DEF SendHello, Own, ThreadInv, Handshake, Serving
  <2>4. CASE c2s'[c] # c2s[c] /\ SendPacket(t)
    <3>1. c2s'[c] = Append(c2s[c], RequestPacket(t))
      BY <1>1, <2>4, PacketMoves, Touching, CallPairs DEF ConnectionTyped
    <3>2. RequestPacket(t) # Stop /\ RequestPacket(t) \in ClientPackets
      BY <2>4, PacketMoves, Packets
    <3>3. i \in DOMAIN c2s[c] /\ c2s[c][i] = Stop
      BY <1>1, <1>3, <3>1, <3>2, Appends
    <3> QED BY <1>1, <1>2, <1>3, <3>3 DEF Goodbye
  <2> QED BY <2>1, <2>2, <2>3, <2>4, Touching
<1>4. session[c] # "none" /\ Alive(c)' => Alive(c)
  BY <1>1, Touching, Connecting DEF Opened, Used
<1> QED BY <1>1, <1>2, <1>3, <1>4 DEF Goodbye, ExecutedUpTo

\* NothingLost: what is written last is where the thread is.
LEMMA NothingLostKept ==
    ASSUME IInv, NEW t \in Threads, Own(t), Step(t)
    PROVE  NothingLost(t)'
<1> SUFFICES ASSUME InSession(t)', Alive(Conn(t))', session'[Conn(t)'] \in Serving
             PROVE  NothingLost(t)'
  BY DEF NothingLost
<1> PICK c \in Calls : c = Conn(t)
  BY SessionSteps
<1>1. /\ Conn(t)' = c /\ c[1] = t /\ Alive(c)
      /\ session' = session /\ request' = request /\ done' = done
      /\ Executed' = Executed /\ session[c] \in Serving
      /\ c2s[c] \in Seq(ClientPackets) /\ c2s \in [Conns -> Seq(ClientPackets)]
      /\ calls[t] \in Nat /\ Need(Stop) = Need(Stop)'
  BY SessionSteps, Frame, Types, CallPairs, Numbers DEF ConnectionTyped, Need
<1>2. /\ HasRequest(c)' = HasRequest(c) /\ ServerNeed(c)' = ServerNeed(c)
      /\ \A n : ExecutedUpTo(c, n)' = ExecutedUpTo(c, n)
  BY <1>1 DEF HasRequest, ServerNeed, ExecutedUpTo
<1>3. CASE RecvWelcome(t)
  <2>1. /\ c2s'[c] = <<>> /\ session[c] = "command" /\ c[2] = calls[t]
        /\ LastNumber(t)' = calls[t] - 1 /\ ClientNeed(t)' = 0
    BY <1>1, <1>3, WelcomeMoves DEF Serving
  <2>2. ~HasRequest(c) /\ ExecutedUpTo(c, calls[t] - 1)
    BY <1>1, <2>1 DEF HasRequest, ExecutedUpTo
  <2> QED BY <1>1, <1>2, <2>1, <2>2 DEF NothingLost
<1> SUFFICES ASSUME InSession(t), ~RecvWelcome(t)
             PROVE  NothingLost(t)'
  BY <1>3, SessionSteps
<1>4. /\ c2s[c] # <<>> => \/ c2s[c][Len(c2s[c])] = Stop
                          \/ LastSent(t, c2s[c][Len(c2s[c])].call, Need(c2s[c][Len(c2s[c])]))
      /\ c2s[c] = <<>>
           /\ HasRequest(c) => LastSent(t, request[c].call, ServerNeed(c))
      /\ c2s[c] = <<>> /\ session[c] = "command" =>
            ClientNeed(t) = 0 /\ ExecutedUpTo(c, LastNumber(t))
  BY <1>1 DEF Own, ThreadInv, NothingLost
<1>5. CASE IdleStep(t) \/ RecvResponse(t) \/ RecvResult(t)
  <2>1. LastNumber(t)' = LastNumber(t) /\ ClientNeed(t)' = ClientNeed(t)
          /\ c2s'[c] = c2s[c]
    <3>1. CASE IdleStep(t)
      BY <3>1, IdleMoves
    <3>2. CASE RecvResponse(t) \/ RecvResult(t)
      BY <3>2, ResponseMoves DEF LastNumber, ClientNeed, Unsent
    <3> QED BY <1>5, <3>1, <3>2
  <2>2. \A x, n : LastSent(t, x, n)' = LastSent(t, x, n)
    BY <2>1 DEF LastSent
  <2> QED BY <1>1, <1>2, <1>4, <2>1, <2>2 DEF NothingLost, Need, LastSent
<1>6. CASE SendPacket(t)
  <2> PICK p : p = RequestPacket(t)
    OBVIOUS
  <2>1. /\ c2s'[c] = Append(c2s[c], p) /\ p \in ClientPackets
        /\ p.call = Call(t) /\ LastNumber(t)' = calls[t] /\ ClientNeed(t)' = Need(p)
    BY <1>1, <1>6, PacketMoves, CallPairs
  <2>2. c2s'[c] # <<>> /\ c2s'[c][Len(c2s'[c])] = p
    BY <1>1, <2>1, Appends
  <2>3. p.call[2] = LastNumber(t)'
    BY <2>1 DEF Call
  <2> QED BY <1>1, <2>1, <2>2, <2>3 DEF NothingLost, LastSent, Need
<1>7. CASE SendStop(t)
  <2>1. c2s'[c] = Append(c2s[c], Stop)
    BY <1>1, <1>7, CallPairs DEF SendStop, WriteAll, CliSend
  <2>2. c2s'[c] # <<>> /\ c2s'[c][Len(c2s'[c])] = Stop
    BY <1>1, <2>1, Appends, ClientSends
  <2> QED BY <1>1, <2>2 DEF NothingLost
<1> QED BY <1>5, <1>6, <1>7, SessionSteps

\* OneAwaited: a request that asks for a response is the last one, and a thread
\* that has its response was the only one to wait.
LEMMA OneAwaitedKept ==
    ASSUME IInv, NEW t \in Threads, Own(t), Step(t)
    PROVE  OneAwaited(t)'
<1> SUFFICES ASSUME InSession(t)', session'[Conn(t)'] \in Serving
             PROVE  OneAwaited(t)'
  BY DEF OneAwaited
<1> PICK c \in Calls : c = Conn(t)
  BY SessionSteps
<1>1. /\ Conn(t)' = c /\ c[1] = t
      /\ session' = session /\ request' = request /\ done' = done
      /\ Executed' = Executed /\ session[c] \in Serving
      /\ c2s[c] \in Seq(ClientPackets) /\ c2s \in [Conns -> Seq(ClientPackets)]
  BY SessionSteps, Frame, Types, CallPairs DEF ConnectionTyped
<1>3. CASE RecvWelcome(t)
  <2>1. c2s'[c] = <<>> /\ session[c] = "command"
    BY <1>1, <1>3, WelcomeMoves DEF Serving
  <2> QED BY <1>1, <2>1 DEF OneAwaited
<1> SUFFICES ASSUME InSession(t), ~RecvWelcome(t)
             PROVE  OneAwaited(t)'
  BY <1>3, SessionSteps
<1>4. /\ \A i \in DOMAIN c2s[c] :
            c2s[c][i].type = "request" /\ c2s[c][i].fn.wait =>
               Awaits(t, c2s[c][i].call, c2s[c][i].fn)
      /\ session[c] = "arguments" /\ request[c].fn.wait =>
            Awaits(t, request[c].call, request[c].fn)
      /\ session[c] = "respond" =>
            /\ request[c].call = Call(t) /\ request[c].fn = fn[t]
            /\ pc[t] \in {"response", "results"}
            /\ done[c] <= fn[t].outs
  BY <1>1 DEF Own, ThreadInv, OneAwaited
<1>5. CASE IdleStep(t)
  <2>1. c2s' = c2s /\ pc[t] = "idle"
    BY <1>5, IdleMoves
  <2> QED BY <1>1, <1>4, <2>1 DEF OneAwaited, Awaits
<1>6. CASE SendStop(t)
  <2>1. c2s'[c] \in {c2s[c], Append(c2s[c], Stop)} /\ pc[t] = "stop"
    BY <1>1, <1>6, CallPairs DEF SendStop, WriteAll, CliSend
  <2>2. \A i \in DOMAIN c2s'[c] : c2s'[c][i].type = "request" =>
           i \in DOMAIN c2s[c] /\ c2s'[c][i] = c2s[c][i]
    <3>1. CASE c2s'[c] = c2s[c]
      BY <3>1
    <3>2. CASE c2s'[c] = Append(c2s[c], Stop)
      BY <1>1, <3>2, Appends, ClientSends, Packets
    <3> QED BY <2>1, <3>1, <3>2
  <2> QED BY <1>1, <1>4, <2>1, <2>2 DEF OneAwaited, Awaits
<1>7. CASE SendPacket(t)
  <2> PICK p : p = RequestPacket(t)
    OBVIOUS
  <2> PICK r : r = c2s'[c]
    OBVIOUS
  <2>1. /\ r \in {c2s[c], Append(c2s[c], p)} /\ p \in ClientPackets
        /\ p.call = Call(t)
        /\ p.type = "request" => p.fn = fn[t]
        /\ pc[t] = "send" /\ s2c' = s2c /\ calls'[t] = calls[t]
        /\ \/ pc'[t] \in {"send", "response"} /\ fn'[t] = fn[t]
           \/ pc'[t] = "idle" /\ ~fn[t].wait
    BY <1>1, <1>7, PacketMoves, CallPairs
  <2>2. s2c[c] = <<>>
    BY <1>1, <2>1 DEF Own, ThreadInv, Answer
  <2>3. \A x, f : Awaits(t, x, f) /\ f.wait => Awaits(t, x, f)'
    BY <1>1, <2>1 DEF Awaits
  <2>4. p.type = "request" /\ p.fn.wait => Awaits(t, p.call, p.fn)'
    BY <1>1, <2>1, <2>2 DEF Awaits, Call
  <2>5. \A i \in DOMAIN r : (i \in DOMAIN c2s[c] /\ r[i] = c2s[c][i]) \/ r[i] = p
    <3>1. CASE r = c2s[c]
      BY <3>1
    <3>2. CASE r = Append(c2s[c], p)
      BY <1>1, <2>1, <3>2, Appends
    <3> QED BY <2>1, <3>1, <3>2
  <2>6. \A i \in DOMAIN r :
            r[i].type = "request" /\ r[i].fn.wait => Awaits(t, r[i].call, r[i].fn)'
    BY <1>4, <2>3, <2>4, <2>5
  <2> QED BY <1>1, <1>4, <2>1, <2>3, <2>6 DEF OneAwaited, Awaits
<1>8. CASE RecvResponse(t) \/ RecvResult(t)
  <2>1. /\ s2c[c] # <<>> /\ s2c[c] \in Seq(ServerPackets) /\ c2s' = c2s
        /\ Call(t)' = Call(t) /\ pc[t] \in {"response", "results"}
        /\ \/ pc'[t] = "idle"
                /\ IF pc[t] = "response" THEN fn[t].outs = 0 ELSE cursor[t] = 1
           \/ pc'[t] = "results" /\ fn'[t] = fn[t]
        /\ fn[t].outs \in Nat
    BY <1>8, ResponseMoves
  <2>2. ASSUME pc'[t] = "idle" PROVE session[c] # "respond"
    <3>1. SUFFICES ASSUME session[c] = "respond" PROVE FALSE
      OBVIOUS
    <3>2. Owed(c) > 0 /\ Owed(c) \in Int
      BY <1>4, <2>1, <3>1, Types, CallPairs DEF Owed, ServerTyped
    <3>3. Len(s2c[c]) \in Nat /\ Len(s2c[c]) > 0
      BY <2>1, Tails
    <3>4. Len(s2c[c]) + Owed(c) <= 1
      BY <1>1, <2>1, <2>2 DEF Own, ThreadInv, Answer
    <3> QED BY <3>2, <3>3, <3>4
  <2>3. \A x, f : ~Awaits(t, x, f)
    BY <2>1 DEF Awaits
  <2> QED BY <1>1, <1>4, <2>1, <2>2, <2>3 DEF OneAwaited
<1> QED BY <1>5, <1>6, <1>7, <1>8, SessionSteps

\* Answer: what a thread reads is what it waits for, and nothing is left over.
LEMMA AnswerKept ==
    ASSUME IInv, NEW t \in Threads, Own(t), Step(t)
    PROVE  Answer(t)'
<1> SUFFICES ASSUME InSession(t)'
             PROVE  Answer(t)'
  BY DEF Answer
<1> PICK c \in Calls : c = Conn(t)
  BY SessionSteps
<1>1. /\ Conn(t)' = c /\ c[1] = t /\ (Alive(c)' => Alive(c))
      /\ session' = session /\ request' = request /\ done' = done
      /\ Executed' = Executed
      /\ s2c[c] \in Seq(ServerPackets) /\ s2c \in [Conns -> Seq(ServerPackets)]
      /\ session[c] = "respond" => done[c] \in Nat
  BY SessionSteps, Frame, Types, CallPairs DEF ConnectionTyped, ServerTyped
<1>2. Owed(c)' = Owed(c)
  BY <1>1 DEF Owed
<1>3. CASE RecvWelcome(t)
  BY <1>1, <1>3, WelcomeMoves DEF Answer
<1> SUFFICES ASSUME InSession(t), ~RecvWelcome(t)
             PROVE  Answer(t)'
  BY <1>3, SessionSteps
<1>4. CASE IdleStep(t)
  BY <1>1, <1>4, IdleMoves DEF Answer, Own, ThreadInv
<1>5. CASE SendPacket(t)
  <2>1. /\ s2c'[c] = <<>> /\ pc[t] = "send"
          /\ pc'[t] \in {"send", "response", "idle"}
        /\ pc'[t] = "response" => fn'[t] = fn[t] /\ fn[t].outs \in Nat
    BY <1>1, <1>5, PacketMoves, Types, FunctionNumbers
       DEF Answer, Own, ThreadInv, InCall
  <2>2. session[c] # "respond"
    BY <1>1, <2>1 DEF Own, ThreadInv, OneAwaited, Serving
  <2>3. Owed(c)' = 0
    BY <1>2, <2>2 DEF Owed
  <2> QED BY <1>1, <2>1, <2>2, <2>3 DEF Answer
<1>6. CASE SendStop(t)
  <2>1. s2c'[c] = <<>> /\ pc'[t] = "bye"
    BY <1>1, <1>6, Types DEF SendStop, Goto, Answer, Own, ThreadInv, ClientTyped
  <2> QED BY <1>1, <2>1 DEF Answer
<1>7. CASE RecvResponse(t) \/ RecvResult(t)
  <2>1. /\ s2c[c] # <<>> /\ s2c'[c] = Tail(s2c[c])
        /\ Call(t)' = Call(t) /\ pc[t] \in {"response", "results"}
        /\ fn[t].outs \in Nat /\ cursor[t] \in Nat
        /\ \/ /\ pc'[t] = "idle"
              /\ IF pc[t] = "response" THEN fn[t].outs = 0 ELSE cursor[t] = 1
           \/ /\ pc'[t] = "results" /\ fn'[t] = fn[t]
              /\ cursor'[t] \in Nat /\ cursor'[t] > 0
              /\ cursor'[t] = IF pc[t] = "response" THEN fn[t].outs
                                                    ELSE cursor[t] - 1
    <3>1. c \in Conns /\ s2c' = [s2c EXCEPT ![c] = Tail(@)]
      BY <1>7, ResponseMoves, CallPairs
    <3>2. s2c'[c] = Tail(s2c[c])
      BY <1>1, <3>1
    <3> QED BY <1>7, <3>2, ResponseMoves
  <2>2. /\ Len(s2c[c]) \in Nat /\ Len(s2c[c]) > 0 /\ Len(s2c'[c]) = Len(s2c[c]) - 1
        /\ s2c'[c] = <<>> <=> Len(s2c[c]) = 1
        /\ \A i \in DOMAIN s2c'[c] : /\ i \in Nat /\ i + 1 \in DOMAIN s2c[c]
                                          /\ i + 1 > 1
                                    /\ s2c'[c][i] = s2c[c][i + 1]
    BY <1>1, <2>1, Tails
  <2>3. /\ Call(t) \in Executed
        /\ \A i \in DOMAIN s2c[c] : i > 1 => s2c[c][i] = ResultOf(t)
        /\ pc[t] = "response" => Len(s2c[c]) + Owed(c) <= fn[t].outs + 1
        /\ pc[t] = "results" => /\ Len(s2c[c]) + Owed(c) <= cursor[t]
                                /\ cursor[t] <= fn[t].outs
    BY <1>1, <2>1 DEF Answer, Own, ThreadInv
  <2>4. Owed(c) \in Nat
    <3>1. session[c] = "respond" =>
             /\ request[c].fn.outs \in Nat /\ done[c] \in Nat
             /\ done[c] <= request[c].fn.outs
      BY <1>1, <2>1, Types, CallPairs DEF Own, ThreadInv, OneAwaited, Serving,
         HasRequest
    <3> QED BY <3>1 DEF Owed
  <2>5. \A i \in DOMAIN s2c'[c] : s2c'[c][i] = ResultOf(t)
    BY <2>2, <2>3
  <2>6. CASE pc'[t] = "idle"
    <3>1. Len(s2c[c]) = 1
      BY <2>1, <2>2, <2>3, <2>4, <2>6
    <3> QED BY <1>1, <2>2, <2>6, <3>1 DEF Answer
  <2>7. CASE pc'[t] = "results" /\ fn'[t] = fn[t]
    <3>1. ResultOf(t)' = ResultOf(t)
      BY <2>1 DEF ResultOf
    <3>2. Len(s2c'[c]) + Owed(c)' <= cursor'[t] /\ cursor'[t] \in 1..fn'[t].outs
      BY <1>2, <2>1, <2>2, <2>3, <2>4, <2>7, SMTT(30)
    <3> QED BY <1>1, <2>1, <2>3, <2>5, <2>7, <3>1, <3>2 DEF Answer
  <2> QED BY <2>1, <2>6, <2>7
<1> QED BY <1>4, <1>5, <1>6, <1>7, SessionSteps

\* Stream: a thread that goes on writing, does so where it stopped.
LEMMA StreamWritten ==
    ASSUME IInv, NEW t \in Threads, Own(t), Step(t),
           NEW c \in Calls, c[1] = t, c2s'[c] # c2s[c]
    PROVE  Stream(c)'
<1> SUFFICES ASSUME session[c] \in Serving
             PROVE  QueueOrder(c)' /\ RequestOrder(c)' /\ BeforeNext(c)'
  BY Frame DEF Stream
<1> PICK q, r : q = c2s[c] /\ r = c2s'[c]
  OBVIOUS
<1> PICK p : p = IF SendPacket(t) THEN RequestPacket(t) ELSE Stop
  OBVIOUS
<1>1. /\ session' = session /\ request' = request /\ done' = done
      /\ Executed' = Executed
      /\ q \in Seq(ClientPackets) /\ c \in Conns
           /\ c2s \in [Conns -> Seq(ClientPackets)]
  BY Frame, Types, CallPairs DEF ConnectionTyped
<1>2. QueueOrder(c) /\ RequestOrder(c)
  BY DEF Own, ConnectionInv, Stream
<1>3. /\ SendPacket(t) \/ SendStop(t)
      /\ c = Conn(t) /\ handler[t] # None /\ Alive(c)
      /\ SendPacket(t) => pc[t] = "send"
      /\ SendStop(t) => pc[t] = "stop"
  BY Touching DEF SendPacket, SendStop, SendHello, Own, ThreadInv, Handshake,
     Serving
<1>4. InSession(t)
  BY <1>3 DEF InSession, Alive
<1>5. /\ p \in ClientPackets /\ r = Append(q, p) /\ calls'[t] = calls[t]
        /\ calls[t] \in Nat
      /\ OfCall(p) => /\ SendPacket(t) /\ p.call \in Calls
                      /\ p.call[1] = t /\ p.call[2] = calls[t]
      /\ ~OfCall(p) => p = Stop /\ SendStop(t)
  <2>1. CASE SendPacket(t)
    <3>1. p = RequestPacket(t)
      BY <2>1
    <3>2. /\ p.call = Call(t) /\ Call(t) \in Calls
          /\ p.type \in {"request", "argument"}
      BY <1>3, <2>1, <3>1, PacketMoves, Types DEF InCall, OfCall
    <3>3. p.call[1] = t /\ p.call[2] = calls[t]
      BY <3>2 DEF Call
    <3>4. p \in ClientPackets /\ calls'[t] = calls[t] /\ calls[t] \in Nat
      BY <2>1, <3>1, PacketMoves, Numbers
    <3>5. Alive(Conn(t)) => c2s' = [c2s EXCEPT ![Conn(t)] = Append(@, p)]
      BY <2>1, <3>1, PacketMoves
    <3>6. r = Append(q, p)
      BY <1>1, <1>3, <3>5
    <3>7. OfCall(p)
      BY <3>2 DEF OfCall
    <3> QED BY <2>1, <3>2, <3>3, <3>4, <3>6, <3>7
  <2>2. CASE ~SendPacket(t)
    <3>1. SendStop(t) /\ p = Stop
      BY <1>3, <2>2
    <3>2. calls'[t] = calls[t] /\ calls[t] \in Nat
      BY <3>1, Numbers DEF SendStop, Goto
    <3>3. c2s' = [c2s EXCEPT ![c] = Append(@, Stop)]
      BY <1>3, <3>1 DEF SendStop, WriteAll, CliSend
    <3> QED BY <1>1, <2>2, <3>1, <3>2, <3>3, ClientSends, Packets
  <2> QED BY <2>1, <2>2
<1>6. /\ Len(q) \in Nat /\ Len(r) = Len(q) + 1
      /\ DOMAIN q = 1..Len(q) /\ DOMAIN r = 1..(Len(q) + 1)
      /\ \A i \in 1..Len(q) : r[i] = q[i] /\ q[i] \in ClientPackets
      /\ r[Len(q) + 1] = p /\ r # <<>>
      /\ q = <<>> <=> Len(q) = 0
  BY <1>1, <1>5, Appends
<1>7. \A i \in DOMAIN q : q[i] # Stop
  BY <1>3 DEF Own, ConnectionInv, Goodbye
<1>8. \A i \in DOMAIN q : OfCall(q[i]) /\ q[i].call \in Calls /\ Need(q[i]) \in Int
  BY <1>2, <1>6, <1>7, Packets DEF QueueOrder, OfCall
<1>9. /\ LastNumber(t) \in Int /\ LastNumber(t) <= calls[t] /\ ClientNeed(t) \in Nat
      /\ p.type = "request" =>
            OfCall(p) /\ LastNumber(t) = calls[t] - 1 /\ ClientNeed(t) = 0
      /\ p.type = "argument" =>
            /\ OfCall(p) /\ LastNumber(t) = calls[t]
            /\ ClientNeed(t) > 0 /\ p.left = ClientNeed(t) - 1
      /\ OfCall(p) => /\ LastNumber(t)' = calls[t] /\ ClientNeed(t)' = Need(p)
                      /\ p.type \in {"request", "argument"}
      /\ p = Stop => LastNumber(t) = calls[t] /\ ClientNeed(t) = 0
  <2>1. CASE SendPacket(t)
    <3>1. p = RequestPacket(t) /\ p # Stop
      BY <1>5, <2>1, PacketMoves, Packets
    <3>2. /\ LastNumber(t) \in {calls[t], calls[t] - 1}
          /\ LastNumber(t) < calls[t] => ClientNeed(t) = 0
          /\ p.type = "request" <=> LastNumber(t) < calls[t]
          /\ p.type = "argument" => ClientNeed(t) > 0 /\ p.left = ClientNeed(t) - 1
          /\ LastNumber(t)' = calls[t] /\ ClientNeed(t)' = Need(p)
      BY <2>1, <3>1, PacketMoves
    <3> QED BY <1>5, <3>1, <3>2, Numbers DEF OfCall
  <2>2. CASE ~SendPacket(t)
    BY <1>3, <1>5, <2>2, Packets, Numbers DEF OfCall, LastNumber, ClientNeed, Unsent
  <2> QED BY <2>1, <2>2
<1> PICK need : need = ClientNeed(t)
  OBVIOUS
<1>10. ASSUME NEW x \in Calls, x[1] = t, LastSent(t, x, need)
       PROVE  Continues(x, need, p)'
  <2>1. x[2] = LastNumber(t)
    BY <1>10 DEF LastSent
  <2>2. CASE p = Stop
    BY <1>5, <1>9, <1>10, <2>1, <2>2 DEF Continues
  <2>3. CASE p.type = "request"
    <3>1. p.call[1] = x[1] /\ p.call[2] = x[2] + 1 /\ need = 0
      BY <1>5, <1>9, <1>10, <2>1, <2>3
    <3> QED BY <2>3, <3>1 DEF Continues
  <2>4. CASE p.type = "argument"
    <3>1. need > 0 /\ p.left = need - 1
      BY <1>9, <2>4
    <3>2. p.call = x
      BY <1>5, <1>9, <1>10, <2>1, <2>4, CallPairs
    <3> QED BY <2>4, <3>1, <3>2 DEF Continues
  <2> QED BY <1>5, <1>9, <2>2, <2>3, <2>4
<1>11. \A x, n, m : x[1] = t /\ Continues(x, n, m) => Continues(x, n, m)'
  BY <1>5 DEF Continues
<1>12. ASSUME NEW i \in 1..Len(q)
       PROVE  /\ OfCall(r[i]) /\ Numbered(c, r[i].call, Need(r[i]))'
              /\ r[i].call \notin Executed'
              /\ Continues(r[i].call, Need(r[i]), r[i + 1])'
  <2>1. /\ r[i] = q[i] /\ OfCall(q[i]) /\ q[i].call \in Calls /\ Need(q[i]) \in Int
        /\ Numbered(c, q[i].call, Need(q[i])) /\ q[i].call \notin Executed
        /\ i < Len(q) => Continues(q[i].call, Need(q[i]), q[i + 1])
    BY <1>2, <1>6, <1>8 DEF QueueOrder
  <2> PICK m : m = Need(q[i])
    OBVIOUS
  <2>2. Numbered(c, q[i].call, m)'
    BY <2>1, NumberedKept
  <2>3. q[i].call[1] = t
    BY <2>1 DEF Numbered
  <2>4. CASE i < Len(q)
    <3>1. r[i + 1] = q[i + 1]
      BY <1>6, <2>4
    <3> QED BY <1>1, <1>11, <2>1, <2>2, <2>3, <2>4, <3>1 DEF Need
  <2>5. CASE i = Len(q)
    <3>1. LastSent(t, q[i].call, m)
      BY <1>3, <1>4, <1>6, <1>7, <2>1, <2>5 DEF Own, ThreadInv, NothingLost
    <3>2. m = need
      BY <3>1 DEF LastSent
    <3>3. Continues(q[i].call, m, p)'
      BY <1>10, <2>1, <2>3, <3>1, <3>2
    <3> QED BY <1>1, <1>6, <2>1, <2>2, <2>5, <3>3 DEF Need
  <2> QED BY <1>6, <2>4, <2>5
<1>13. OfCall(p) => Numbered(c, p.call, Need(p))' /\ p.call \notin Executed'
  <2> SUFFICES ASSUME OfCall(p)
               PROVE  Numbered(c, p.call, Need(p))' /\ p.call \notin Executed'
    OBVIOUS
  <2>1. c[2] <= calls[t] /\ c[2] \in Nat /\ pc[t] = "send"
    BY <1>3, <1>5, CallPairs DEF Own, ThreadInv, Slot
  <2>2. p.call \notin Executed
    BY <1>5, <2>1 DEF Own, ThreadInv, WrittenWhole
  <2>3. Need(p)' = Need(p) /\ Need(p) \in Nat
    BY <1>5, Packets DEF Need
  <2> QED BY <1>1, <1>5, <1>9, <2>1, <2>2, <2>3 DEF Numbered
<1>14. ASSUME NEW i \in 1..Len(q), OfCall(p)
       PROVE  Before(r[i], p)
  <2>1. /\ r[i] = q[i] /\ OfCall(q[i]) /\ q[i].call \in Calls
        /\ Numbered(c, q[i].call, Need(q[i]))
    BY <1>2, <1>6, <1>8 DEF QueueOrder
  <2>2. q[i].call[2] \in c[2]..LastNumber(t) /\ q[i].call[2] \in Nat
    BY <2>1, CallPairs DEF Numbered
  <2>3. q[i].call[2] <= LastNumber(t)
    BY <1>9, <2>2, CallPairs
  <2> QED BY <1>5, <1>9, <1>14, <2>1, <2>2, <2>3 DEF Before
<1>15. Expected(c, r[1])'
  <2>1. CASE q # <<>>
    <3>1. r[1] = q[1] /\ Expected(c, q[1])
      BY <1>2, <1>6, <2>1 DEF QueueOrder
    <3>2. HasRequest(c) => request[c].call[1] = t
      BY <1>2 DEF RequestOrder, Numbered
    <3> QED BY <1>1, <1>5, <1>11, <3>1, <3>2
            DEF Expected, Serving, HasRequest, ExecutedUpTo, ServerNeed
  <2>2. CASE q = <<>> /\ HasRequest(c)
    <3> PICK x, m : x = request[c].call /\ m = ServerNeed(c)
      OBVIOUS
    <3>1. LastSent(t, x, m) /\ x \in Calls /\ x[1] = t /\ m = need
      BY <1>1, <1>2, <1>3, <1>4, <2>2, Types
         DEF Own, ThreadInv, NothingLost, RequestOrder, Numbered, LastSent
    <3>2. Continues(x, m, p)'
      BY <1>10, <3>1
    <3> QED BY <1>1, <1>6, <2>2, <3>2 DEF Expected, HasRequest, ServerNeed
  <2>3. CASE q = <<>> /\ session[c] = "command"
    <3>1. need = 0 /\ ExecutedUpTo(c, LastNumber(t))
      BY <1>3, <1>4, <2>3 DEF Own, ThreadInv, NothingLost
    <3> QED BY <1>1, <1>5, <1>6, <1>9, <2>3, <3>1 DEF Expected, ExecutedUpTo
  <2> QED BY <2>1, <2>2, <2>3 DEF Serving, HasRequest
<1>16. QueueOrder(c)'
  <2>1. \A i \in DOMAIN r :
           /\ ~OfCall(r[i]) => r[i] = Stop /\ i = Len(r)
           /\ OfCall(r[i]) => /\ Numbered(c, r[i].call, Need(r[i]))'
                              /\ r[i].call \notin Executed'
                              /\ i < Len(r) => Continues(r[i].call, Need(r[i]), r[i + 1])'
    BY <1>5, <1>6, <1>12, <1>13
  <2>2. \A i, j \in DOMAIN r : i < j /\ OfCall(r[i])
          /\ OfCall(r[j]) => Before(r[i], r[j])
    BY <1>2, <1>6, <1>14, SMTT(30) DEF QueueOrder
  <2> QED BY <1>15, <2>1, <2>2 DEF QueueOrder, OfCall, Need, Before
<1>17. BeforeNext(c)'
  <2>1. \A d \in Calls : d[1] = t /\ Used(d)' => Used(d)
    BY <1>1, <1>3, Touching DEF Used, Connect
  <2>2. \A d \in Calls : d[1] = t /\ Used(d) => d[2] <= c[2]
    BY <1>3 DEF Own, ConnectionInv, Opened
  <2> QED BY <2>1, <2>2, CallPairs DEF BeforeNext
<1> QED BY <1>2, <1>16, <1>17, RequestKept

\* Queued: a connection that is made is new.
LEMMA QueuedKept ==
    ASSUME IInv, Queued, NEW t \in Threads, Own(t), Step(t)
    PROVE  Queued'
<1>1. /\ session' = session /\ listener' = listener /\ peer' = peer
      /\ backlog \in Seq(Conns)
  BY Frame, Types DEF ConnectionTyped
<1>2. CASE Connect(t)
  <2> PICK c \in Calls : c = Call(t)
    BY <1>2, Connecting
  <2>1. backlog' = Append(backlog, c)
          /\ srvOpen' = [srvOpen EXCEPT ![c] = TRUE] /\ c2s' = c2s
    BY <1>2 DEF Connect
  <2>2. ~Used(c)
    BY <1>2, Connecting DEF Own, ConnectionInv, Opened
  <2>3. session[c] = "none" /\ ~srvOpen[c] /\ peer # c
    BY <2>2 DEF Used, Queued
  <2>4. \A i \in DOMAIN backlog : backlog[i] # c
    BY <2>3 DEF Queued
  <2>5. /\ DOMAIN backlog = 1..Len(backlog) /\ Len(backlog) \in Nat
        /\ DOMAIN backlog' = 1..(Len(backlog) + 1)
        /\ \A i \in 1..Len(backlog) : backlog'[i] = backlog[i]
        /\ backlog'[Len(backlog) + 1] = c
    BY <1>1, <2>1, Appends, CallPairs
  <2>6. srvOpen'[c] /\ \A d \in Calls : srvOpen[d] => srvOpen'[d]
    BY <2>1, Types, CallPairs DEF ConnectionTyped
  <2> QED BY <1>1, <2>1, <2>3, <2>4, <2>5, <2>6 DEF Queued
<1>3. CASE ~Connect(t)
  <2>1. backlog' = backlog
    BY <1>3, Frame DEF Step, ClientStep, Connect, ConnectFails, SendHello,
       RecvWelcome,
         HandshakeFails, SendPacket, SendRequestFails, RecvResponse, RecvResult,
         WaitForResponseFails, SendStop, RecvBye, CleanupFails, Execute, Exit, netVars
  <2>2. \A c \in Calls : srvOpen'[c] = srvOpen[c]
    BY <1>3, Touching
  <2>3. listener = "welcome" /\ peer \in Calls => c2s'[peer] = c2s[peer]
    <3> SUFFICES ASSUME listener = "welcome", peer \in Calls, c2s'[peer] # c2s[peer]
                 PROVE  FALSE
      OBVIOUS
    <3>1. /\ SendHello(t) \/ SendPacket(t) \/ SendStop(t)
          /\ peer = Conn(t) /\ handler[t] # None /\ Alive(peer)
      BY Touching
    <3>2. SendPacket(t) \/ SendStop(t)
      BY <3>1 DEF SendHello, Own, ThreadInv, Handshake
    <3>3. InSession(t)
      BY <3>1, <3>2 DEF SendPacket, SendStop, InSession, Alive
    <3> QED BY <3>1, <3>3 DEF Own, ThreadInv, Handshake, Queued
  <2> QED BY <1>1, <2>1, <2>2, <2>3 DEF Queued
<1> QED BY <1>2, <1>3

-----------------------------------------------------------------------------
\* A step of a client thread preserves the invariant.
LEMMA ClientStepKept ==
    ASSUME IInv, PInv, NEW t \in Threads, Step(t)
    PROVE  PInv'
<1>1. Queued /\ \A u \in Threads : Own(u)
  BY DEF PInv, Own
<1>2. \A u \in Threads \ {t} : Own(u)'
  BY <1>1, OthersQuiet, QuietThread
<1>3. ThreadInv(t)'
  BY <1>1, SlotKept, ReturnedKept, HandshakeKept, NothingLostKept, OneAwaitedKept,
     AnswerKept, WrittenWholeKept DEF ThreadInv
<1>4. ASSUME NEW c \in Calls, c[1] = t PROVE ConnectionInv(c)'
  BY <1>1, <1>4, OpenedKept, UnopenedKept, StreamKept, StreamWritten, GoodbyeKept
     DEF ConnectionInv
<1>5. Queued' /\ NoStrangers'
  BY <1>1, QueuedKept, Frame DEF PInv, NoStrangers
<1> QED BY <1>2, <1>3, <1>4, <1>5, CallPairs DEF PInv, Own

\* The numbers of a thread that has died.
LEMMA CrashNumbers ==
    ASSUME IInv, ClientCrashes, NEW t \in Threads
    PROVE  /\ pc'[t] = "exited" /\ handler'[t] = None /\ calls' = calls
           /\ calls[t] \in Nat /\ LastNumber(t) \in Int /\ LastNumber(t) <= calls[t]
           /\ LastNumber(t)' = calls[t] /\ ClientNeed(t)' = 0
           /\ ~InSession(t)'
<1>1. ClientTyped
  BY Types
<1>2. pc'[t] = "exited" /\ handler'[t] = None /\ calls' = calls
  BY DEF ClientCrashes
<1> QED BY <1>1, <1>2 DEF ClientTyped, LastNumber, ClientNeed, Unsent, InSession

\* What a dead program has written is still executed, as far as it goes.
LEMMA CrashStream ==
    ASSUME IInv, ClientCrashes, UNCHANGED serverVars, NEW c \in Calls, Stream(c)
    PROVE  Stream(c)'
<1> SUFFICES ASSUME session[c] \in Serving
             PROVE  QueueOrder(c)' /\ RequestOrder(c)' /\ BeforeNext(c)'
  BY DEF Stream, serverVars
<1>1. /\ session' = session /\ request' = request /\ done' = done
      /\ Executed' = Executed /\ c2s' = c2s /\ srvOpen' = srvOpen
      /\ calls' = calls
  BY DEF ClientCrashes, serverVars, Executed
<1>2. QueueOrder(c) /\ RequestOrder(c) /\ BeforeNext(c)
  BY DEF Stream
<1>3. HasRequest(c)' = HasRequest(c) /\ ServerNeed(c)' = ServerNeed(c)
  BY <1>1 DEF HasRequest, ServerNeed
<1>4. HasRequest(c) =>
         /\ ServerNeed(c) \in Nat /\ request[c].call \in Calls
  <2>1. HasRequest(c) =>
           /\ request[c].call \in Calls /\ request[c].fn.args \in Nat
                /\ done[c] \in Nat
    BY Types, CallPairs DEF ServerTyped
  <2> QED BY <1>2, <2>1 DEF ServerNeed, RequestOrder, HasRequest
<1>5. ASSUME NEW x \in Calls, NEW n \in Nat, Numbered(c, x, n)
      PROVE  Numbered(c, x, n)'
  <2>1. c[1] \in Threads /\ c[2] \in Nat /\ x[2] \in Nat
    BY CallPairs
  <2> QED BY <1>5, <2>1, CrashNumbers DEF Numbered
<1>6. \A n : ExecutedUpTo(c, n)' = ExecutedUpTo(c, n)
  BY <1>1 DEF ExecutedUpTo
<1>7. RequestOrder(c)'
  BY <1>1, <1>2, <1>3, <1>4, <1>5, <1>6 DEF RequestOrder, HasRequest
<1>8. BeforeNext(c)'
  BY <1>1, <1>2, <1>3 DEF BeforeNext, Used, OfCall
<1>9. QueueOrder(c)'
  <2> PICK q : q = c2s[c]
    OBVIOUS
  <2>1. q \in Seq(ClientPackets) /\ c2s'[c] = q
    BY <1>1, Types, CallPairs DEF ConnectionTyped
  <2>2. ASSUME NEW i \in DOMAIN q, OfCall(q[i])
        PROVE  Numbered(c, q[i].call, Need(q[i]))'
    <3> PICK m : m = Need(q[i])
      OBVIOUS
    <3>1. Numbered(c, q[i].call, m)
      BY <1>2, <2>2 DEF QueueOrder
    <3>2. q[i].call \in Calls /\ m \in Nat
      BY <2>1, <2>2, Packets DEF OfCall
    <3>3. Numbered(c, q[i].call, m)'
      BY <1>5, <3>1, <3>2
    <3> QED BY <3>3 DEF Need
  <2>3. \A x, n, p : Continues(x, n, p) => Continues(x, n, p)'
    BY <1>1 DEF Continues
  <2>4. \A p : Expected(c, p) => Expected(c, p)'
    BY <1>1, <1>3, <1>6, <2>3 DEF Expected
  <2> QED BY <1>1, <1>2, <2>1, <2>2, <2>3, <2>4
          DEF QueueOrder, OfCall, Need, Before
<1> QED BY <1>7, <1>8, <1>9

\* So does the death of the client program.
LEMMA ClientCrashKept ==
    ASSUME IInv, PInv, ClientCrashes, UNCHANGED serverVars
    PROVE  PInv'
<1>1. /\ session' = session /\ request' = request /\ done' = done
      /\ Executed' = Executed /\ listener' = listener /\ peer' = peer
      /\ c2s' = c2s /\ s2c' = s2c /\ srvOpen' = srvOpen /\ backlog' = backlog
      /\ calls' = calls /\ outcome' = outcome
      /\ \A c \in Calls : ~cliOpen'[c]
  BY CallPairs DEF ClientCrashes, serverVars, Executed
<1>2. Queued' /\ NoStrangers'
  BY <1>1 DEF PInv, Queued, NoStrangers
<1>3. ASSUME NEW t \in Threads
      PROVE  ThreadInv(t)'
  <2>1. WrittenWhole(t)'
    BY <1>1, CrashNumbers DEF PInv, ThreadInv, WrittenWhole
  <2>2. Returned(t)'
    <3>1. Len(outcome[t]) <= calls[t]
      <4>1. calls[t] \in Nat /\ pc[t] \in PCs
        BY CrashNumbers, Types DEF ClientTyped
      <4> QED BY <4>1 DEF PInv, ThreadInv, Returned, PCs, InCall
    <3> QED BY <1>1, <3>1, CrashNumbers DEF Returned, InCall
  <2> QED BY <1>1, <2>1, <2>2, CrashNumbers
          DEF ThreadInv, Slot, Handshake, NothingLost, OneAwaited, Answer,
              InCall
<1>4. ASSUME NEW c \in Calls
      PROVE  ConnectionInv(c)'
  <2>1. Opened(c) /\ Unopened(c) /\ Stream(c) /\ Goodbye(c) /\ c[1] \in Threads
    BY CallPairs DEF PInv, ConnectionInv
  <2>2. Opened(c)'
    BY <1>1, <2>1, CrashNumbers DEF Opened, Used
  <2>3. Unopened(c)'
    BY <1>1, <2>1, CrashNumbers DEF Unopened
  <2>4. Goodbye(c)'
    BY <1>1, <2>1, CrashNumbers DEF Goodbye, ExecutedUpTo, Alive
  <2> QED BY <2>1, <2>2, <2>3, <2>4, CrashStream DEF ConnectionInv
<1> QED BY <1>2, <1>3, <1>4 DEF PInv

=============================================================================
