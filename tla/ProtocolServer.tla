---------------------------- MODULE ProtocolServer -----------------------------
(***************************************************************************)
(* The steps of the server's threads and of the environment preserve PInv  *)
(* of module Protocol.                                                     *)
(***************************************************************************)
EXTENDS ProtocolClient

\* The listener gets nowhere with a client, the server dies, or the environment
\* does something: no thread notices, but for connections that are lost.
Bystander ==
    \/ StartServer \/ StartServerFails \/ Accept \/ AcceptFails \/ RejectHello
    \/ ListenerReturns \/ ServerCrashes
    \/ StrangerConnects /\ UNCHANGED serverVars
    \/ StrangerLeaves /\ UNCHANGED serverVars
    \/ (\E c \in Calls : Reset(c)) /\ UNCHANGED serverVars

\* What can be lost is a connection: a descriptor of the server is closed, or the
\* connection is reset.
LEMMA ClosedOrReset ==
    ASSUME IInv, NEW c \in Conns,
           UNCHANGED cliOpen,
           \/ \E d : SrvClose(d) /\ broken' = broken
           \/ \E d : broken' = [broken EXCEPT ![d] = TRUE] /\ srvOpen' = srvOpen
           \/ broken' = broken /\ srvOpen' = srvOpen
    PROVE  (srvOpen'[c] => srvOpen[c]) /\ (Alive(c)' => Alive(c))
<1>1. srvOpen \in [Conns -> BOOLEAN] /\ broken \in [Conns -> BOOLEAN]
  BY Types DEF ConnectionTyped
<1> QED BY <1>1 DEF SrvClose, Alive

\* The handshake takes only a client's greeting, and only a client has a
\* connection whose first packet is not junk.
LEMMA Greetings ==
    ASSUME IInv, PInv, listener = "hello", peer \in Conns, c2s[peer] # <<>>
    PROVE  /\ Head(c2s[peer]) = Hello <=> peer \in Calls
           /\ peer \in Calls => c2s[peer] = <<Hello>>
<1>1. CASE peer \in Calls
  <2>1. c2s[peer] = <<Hello>>
    BY <1>1 DEF PInv, Queued, ConnectionInv, Unopened
  <2> QED BY <1>1, <2>1
<1>2. CASE peer = Stranger
  <2>1. c2s[peer] = <<Junk>>
    BY <1>2 DEF PInv, NoStrangers
  <2> QED BY <1>2, <2>1, CallPairs DEF Hello, Junk
<1> QED BY <1>1, <1>2 DEF Conns

\* Nothing happens to any thread.
LEMMA BystanderQuiet ==
    ASSUME IInv, PInv, Bystander, UNCHANGED clientVars, NEW u \in Threads
    PROVE  Quiet(u)
<1>1. SameThread(u)
  BY DEF clientVars, SameThread
<1>2. SameExecuted(u)
  <2>1. log' = log
    BY DEF Bystander, StartServer, StartServerFails, Accept, AcceptFails,
       RejectHello,
           ListenerReturns, ServerCrashes, serverVars
  <2> QED BY <2>1 DEF SameExecuted, Executed
<1>3. ASSUME NEW c \in Calls, c[1] = u
      PROVE  SameConnection(c) /\ SameSession(c)
  <2> USE CallPairs
  <2>1. CASE StartServer \/ StartServerFails \/ Accept \/ AcceptFails
    BY <2>1 DEF StartServer, StartServerFails, Accept, AcceptFails, netVars,
                SameConnection, SameSession, Alive
  <2>2. CASE RejectHello
    <3>1. peer # c
      BY <2>2, Greetings DEF RejectHello, SrvRecv
    <3>2. c2s'[c] = c2s[c] /\ s2c' = s2c /\ cliOpen' = cliOpen
      BY <2>2, <3>1, Types DEF RejectHello, SrvRecv, ConnectionTyped
    <3>3. (srvOpen'[c] => srvOpen[c]) /\ (Alive(c)' => Alive(c))
      BY <2>2, ClosedOrReset DEF RejectHello
    <3> QED BY <2>2, <3>2, <3>3 DEF RejectHello, SameConnection, SameSession
  <2>3. CASE ListenerReturns
    <3>3. (srvOpen'[c] => srvOpen[c]) /\ (Alive(c)' => Alive(c))
      BY <2>3, ClosedOrReset DEF ListenerReturns
    <3> QED BY <2>3, <3>3 DEF ListenerReturns, SameConnection, SameSession
  <2>4. CASE ServerCrashes
    BY <2>4 DEF ServerCrashes, SameConnection, SameSession, Alive, HasRequest
  <2>5. CASE StrangerConnects /\ UNCHANGED serverVars
    BY <2>5, Types
       DEF StrangerConnects, serverVars, ConnectionTyped, SameConnection, SameSession, Alive
  <2>6. CASE StrangerLeaves /\ UNCHANGED serverVars
    BY <2>6, Types
       DEF StrangerLeaves, serverVars, ConnectionTyped, SameConnection, SameSession, Alive
  <2>7. CASE (\E d \in Calls : Reset(d)) /\ UNCHANGED serverVars
    <3>1. PICK d \in Calls : Reset(d)
      BY <2>7
    <3>2. (srvOpen'[c] => srvOpen[c]) /\ (Alive(c)' => Alive(c))
      BY <3>1, ClosedOrReset DEF Reset
    <3> QED BY <2>7, <3>1, <3>2 DEF Reset, serverVars, SameConnection, SameSession
  <2> QED BY <2>1, <2>2, <2>3, <2>4, <2>5, <2>6, <2>7 DEF Bystander
<1> QED BY <1>1, <1>2, <1>3 DEF Quiet

\* A connection leaves the queue for the handshake, or with the server.
LEMMA BystanderQueued ==
    ASSUME IInv, PInv, Bystander
    PROVE  Queued' /\ NoStrangers'
<1>1. /\ Queued /\ NoStrangers /\ ConnectionTyped /\ ServerTyped
      /\ Stranger \in Conns
  BY Types DEF PInv, Conns
<1> USE <1>1, CallPairs DEF ConnectionTyped, ServerTyped
<1>2. CASE StartServer \/ StartServerFails \/ AcceptFails
  BY <1>2 DEF StartServer, StartServerFails, AcceptFails, netVars, Queued,
     NoStrangers
<1>3. CASE Accept
  <2> PICK q, r : q = backlog /\ r = backlog'
    OBVIOUS
  <2>1. /\ peer' = q[1] /\ q[1] \in Conns /\ 1 \in DOMAIN q
        /\ \A i \in DOMAIN r : /\ i \in Nat /\ i + 1 \in DOMAIN q /\ i + 1 > 1
                               /\ r[i] = q[i + 1]
    BY <1>3, Tails DEF Accept
  <2>2. /\ UNCHANGED <<session, srvOpen, c2s>> /\ listener' = "hello"
    BY <1>3 DEF Accept
  <2>3. ASSUME NEW i \in DOMAIN q, q[i] \in Calls
        PROVE  /\ srvOpen[q[i]] /\ session[q[i]] = "none"
               /\ \A j \in DOMAIN q : q[i] = q[j] => i = j
    BY <2>3 DEF Queued
  <2>4. ASSUME NEW i \in DOMAIN r, r[i] \in Calls
        PROVE  /\ srvOpen[r[i]] /\ session[r[i]] = "none"
               /\ r[i] # q[1]
               /\ \A j \in DOMAIN r : r[i] = r[j] => i = j
    <3>1. i + 1 \in DOMAIN q /\ r[i] = q[i + 1] /\ i \in Nat /\ i + 1 > 1
      BY <2>1
    <3>2. q[i + 1] # q[1]
      BY <2>1, <2>3, <2>4, <3>1
    <3>3. ASSUME NEW j \in DOMAIN r, r[i] = r[j] PROVE i = j
      <4>1. j + 1 \in DOMAIN q /\ r[j] = q[j + 1] /\ j \in Nat
        BY <2>1
      <4>2. i + 1 = j + 1
        BY <2>3, <2>4, <3>1, <3>3, <4>1
      <4> QED BY <3>1, <4>1, <4>2
    <3> QED BY <2>3, <2>4, <3>1, <3>2, <3>3
  <2>5. q[1] \in Calls => srvOpen[q[1]] /\ session[q[1]] = "none"
    BY <2>1, <2>3
  <2> QED BY <2>1, <2>2, <2>4, <2>5 DEF Queued, NoStrangers
<1>4. CASE RejectHello
  <2>1. peer \in Conns => peer = Stranger
    BY <1>4, Greetings DEF RejectHello, SrvRecv, Conns
  <2>2. \A c \in Calls : srvOpen'[c] = srvOpen[c] /\ c2s'[c] = c2s[c]
    BY <1>4, <2>1 DEF RejectHello, SrvRecv, SrvClose
  <2>3. c2s'[Stranger] \in {<<>>, <<Junk>>}
    <3>1. CASE peer = Stranger
      <4>1. c2s[Stranger] = <<Junk>> /\ c2s'[Stranger] = Tail(c2s[Stranger])
        BY <1>4, <3>1 DEF RejectHello, SrvRecv, NoStrangers
      <4> QED BY <4>1
    <3>2. CASE peer # Stranger
      BY <1>4, <3>2 DEF RejectHello, SrvRecv, NoStrangers
    <3> QED BY <3>1, <3>2
  <2>4. /\ UNCHANGED <<session, backlog>> /\ peer' = None /\ listener' = "accept"
    BY <1>4 DEF RejectHello
  <2>5. \A i \in DOMAIN backlog : backlog[i] \in Calls =>
          /\ srvOpen'[backlog[i]] /\ session'[backlog[i]] = "none"
          /\ backlog[i] # peer'
          /\ \A j \in DOMAIN backlog : backlog[i] = backlog[j] => i = j
    BY <2>2, <2>4, NoneAssumption DEF Queued
  <2>6. peer' \notin Calls
    BY <2>4, NoneAssumption
  <2>7. Queued'
    BY <2>4, <2>5, <2>6 DEF Queued
  <2>8. NoStrangers'
    BY <2>3, <2>4 DEF NoStrangers
  <2> QED BY <2>7, <2>8
<1>5. CASE ListenerReturns
  <2>1. \A i \in DOMAIN backlog : backlog[i] \in Calls =>
           srvOpen'[backlog[i]] = srvOpen[backlog[i]]
    BY <1>5 DEF ListenerReturns, SrvClose, Queued
  <2> QED BY <1>5, <2>1 DEF ListenerReturns, Queued, NoStrangers
<1>6. CASE ServerCrashes
  BY <1>6 DEF ServerCrashes, Queued, NoStrangers
<1>7. CASE StrangerConnects /\ UNCHANGED serverVars
  <2>1. /\ backlog' = Append(backlog, Stranger)
        /\ \A c \in Calls : srvOpen'[c] = srvOpen[c] /\ c2s'[c] = c2s[c]
        /\ c2s'[Stranger] \in {<<>>, <<Junk>>}
    BY <1>7 DEF StrangerConnects
  <2> PICK q, r : q = backlog /\ r = backlog'
    OBVIOUS
  <2>2. \A i \in DOMAIN r : (i \in DOMAIN q /\ r[i] = q[i]) \/ r[i] = Stranger
    BY <2>1, Appends
  <2>3. \A i \in DOMAIN r : r[i] \in Calls => i \in DOMAIN q /\ r[i] = q[i]
    BY <2>2
  <2>4. UNCHANGED <<session, listener, peer>>
    BY <1>7 DEF serverVars
  <2>5. ASSUME NEW i \in DOMAIN q, q[i] \in Calls
        PROVE  /\ srvOpen[q[i]] /\ session[q[i]] = "none" /\ q[i] # peer
               /\ \A j \in DOMAIN q : q[i] = q[j] => i = j
    BY <2>5 DEF Queued
  <2>6. ASSUME NEW i \in DOMAIN r, r[i] \in Calls
        PROVE  /\ srvOpen'[r[i]] /\ session'[r[i]] = "none" /\ r[i] # peer'
               /\ \A j \in DOMAIN r : r[i] = r[j] => i = j
    <3>1. i \in DOMAIN q /\ r[i] = q[i]
      BY <2>3, <2>6
    <3>2. /\ srvOpen[q[i]] /\ session[q[i]] = "none" /\ q[i] # peer
          /\ \A j \in DOMAIN q : q[i] = q[j] => i = j
      BY <2>5, <2>6, <3>1
    <3>3. ASSUME NEW j \in DOMAIN r, r[i] = r[j] PROVE i = j
      <4>1. j \in DOMAIN q /\ r[j] = q[j]
        BY <2>3, <2>6, <3>3
      <4> QED BY <3>1, <3>2, <3>3, <4>1
    <3>4. srvOpen'[r[i]] /\ session'[r[i]] = "none" /\ r[i] # peer'
      BY <2>1, <2>4, <2>6, <3>1, <3>2
    <3> QED BY <3>3, <3>4
  <2>7. peer' \in Calls => /\ srvOpen'[peer'] /\ session'[peer'] = "none"
                           /\ listener' = "welcome" => c2s'[peer'] = <<>>
    BY <2>1, <2>4 DEF Queued
  <2> QED BY <2>1, <2>4, <2>6, <2>7 DEF Queued, NoStrangers
<1>8. CASE (StrangerLeaves \/ \E c \in Calls : Reset(c)) /\ UNCHANGED serverVars
  BY <1>8 DEF StrangerLeaves, Reset, serverVars, Queued, NoStrangers
<1> QED BY <1>2, <1>3, <1>4, <1>5, <1>6, <1>7, <1>8 DEF Bystander

\* So the invariant is kept.
LEMMA BystanderKept ==
    ASSUME IInv, PInv, Bystander, UNCHANGED clientVars
    PROVE  PInv'
<1>1. \A u \in Threads : Own(u)'
  BY BystanderQuiet, QuietThread DEF PInv, Own
<1> QED BY <1>1, BystanderQueued, CallPairs DEF PInv, Own

-----------------------------------------------------------------------------
(***************************************************************************)
(* The handshake.                                                          *)
(***************************************************************************)
\* The handshake is about a connection that has no session yet.
LEMMA Shaking ==
    ASSUME IInv, PInv, RecvHello \/ SendWelcome, UNCHANGED clientVars
    PROVE  /\ UNCHANGED <<cliOpen, srvOpen, broken, backlog, request, done>>
           /\ Executed' = Executed
           /\ \A c \in Conns : c # peer =>
                 c2s'[c] = c2s[c] /\ s2c'[c] = s2c[c] /\ session'[c] = session[c]
           /\ peer \in Conns => peer \in Calls
           /\ peer \in Calls =>
                 /\ session[peer] = "none" /\ srvOpen[peer]
                 /\ s2c[peer] = <<>> /\ c2s'[peer] = <<>>
           /\ RecvHello => session' = session /\ s2c' = s2c /\ peer' = peer
           /\ RecvHello /\ peer \in Calls => c2s[peer] = <<Hello>>
           /\ SendWelcome => /\ c2s' = c2s /\ peer' = None /\ listener' = "accept"
                             /\ listener = "welcome"
           /\ SendWelcome /\ peer \in Calls =>
                 session'[peer] = "command" /\ s2c'[peer] \in {<<>>, <<Welcome>>}
<1>1. /\ Queued /\ NoStrangers /\ ConnectionTyped /\ ServerTyped
      /\ \A c \in Calls : Unopened(c)
  BY Types DEF PInv, ConnectionInv
<1> USE <1>1, CallPairs DEF ConnectionTyped, ServerTyped
<1>2. peer \in Calls => /\ session[peer] = "none" /\ srvOpen[peer]
                        /\ s2c[peer] = <<>>
  BY DEF Queued, Unopened
<1>3. CASE RecvHello
  <2>1. peer \in Conns => peer \in Calls /\ c2s[peer] = <<Hello>>
    BY <1>3, Greetings DEF RecvHello, SrvRecv
  <2>2. peer \in Calls => c2s'[peer] = <<>>
    <3>1. c2s' = [c2s EXCEPT ![peer] = Tail(@)]
      BY <1>3 DEF RecvHello, SrvRecv
    <3>2. Tail(<<Hello>>) = <<>>
      OBVIOUS
    <3> QED BY <2>1, <3>1, <3>2
  <2>3. ~SendWelcome
    BY <1>3 DEF RecvHello, SendWelcome
  <2> QED BY <1>2, <1>3, <2>1, <2>2, <2>3 DEF RecvHello, SrvRecv, Executed
<1>4. CASE SendWelcome
  <2>1. peer \in Conns => peer \in Calls
    BY <1>4 DEF SendWelcome, NoStrangers, Conns
  <2>2. peer \in Calls => c2s[peer] = <<>>
    BY <1>4 DEF SendWelcome, Queued
  <2>3. s2c' = s2c \/ s2c' = [s2c EXCEPT ![peer] = Append(@, Welcome)]
    BY <1>4 DEF SendWelcome, SrvSend
  <2>4. Append(<<>>, Welcome) = <<Welcome>>
    OBVIOUS
  <2>5. peer \in Calls => s2c'[peer] \in {<<>>, <<Welcome>>}
    <3>1. peer \in Calls =>
             s2c'[peer] = s2c[peer] \/ s2c'[peer] = Append(s2c[peer], Welcome)
      BY <2>3
    <3> QED BY <1>2, <2>4, <3>1
  <2>6. ~RecvHello
    BY <1>4 DEF RecvHello, SendWelcome
  <2> QED BY <1>2, <1>4, <2>1, <2>2, <2>3, <2>5, <2>6 DEF SendWelcome, Executed
<1> QED BY <1>3, <1>4

\* The other threads, and all of them if it is not a client's, do not notice.
LEMMA ShakingQuiet ==
    ASSUME IInv, PInv, RecvHello \/ SendWelcome, UNCHANGED clientVars,
           NEW u \in Threads, peer \in Calls => peer[1] # u
    PROVE  Quiet(u)
<1>1. SameThread(u) /\ SameExecuted(u)
  BY Shaking DEF clientVars, SameThread, SameExecuted
<1>2. ASSUME NEW c \in Calls, c[1] = u
      PROVE  SameConnection(c) /\ SameSession(c)
  <2>1. c # peer /\ c \in Conns /\ c # None
    BY <1>2, CallPairs
  <2>2. ~(listener = "welcome" /\ peer = c)'
    BY <2>1, Shaking
  <2> QED BY <2>1, <2>2, Shaking DEF SameConnection, SameSession, Alive
<1> QED BY <1>1, <1>2 DEF Quiet

\* The thread that the server greets is past its greeting, and in no session.
LEMMA ShakingThread ==
    ASSUME IInv, PInv, RecvHello \/ SendWelcome, UNCHANGED clientVars,
           NEW t \in Threads, peer \in Calls, peer[1] = t
    PROVE  ThreadInv(t)'
<1>1. /\ Slot(t) /\ Returned(t) /\ Handshake(t) /\ NothingLost(t) /\ OneAwaited(t)
      /\ Answer(t) /\ WrittenWhole(t)
  BY DEF PInv, ThreadInv
<1>2. /\ pc' = pc /\ calls' = calls /\ fn' = fn /\ cursor' = cursor
      /\ handler' = handler /\ outcome' = outcome
  BY DEF clientVars
<1>3. /\ Call(t)' = Call(t) /\ Conn(t)' = Conn(t)
      /\ LastNumber(t)' = LastNumber(t) /\ ClientNeed(t)' = ClientNeed(t)
      /\ InSession(t)' = InSession(t)
  BY <1>2, Shaking DEF Call, Conn, LastNumber, ClientNeed, Unsent, InSession
<1>4. /\ handler[t] # None => Conn(t) \in Calls /\ Conn(t) \in Conns
      /\ pc[t] \in {"hello", "welcome"} => handler[t] # None
  BY Types, CallPairs DEF Connected, InCall
<1>5. InSession(t) => /\ session[Conn(t)] # "none" /\ Conn(t) # peer
                      /\ Conn(t) \in Conns
  BY <1>1, <1>4, Shaking DEF Handshake, InSession
<1>6. InSession(t) =>
         /\ c2s'[Conn(t)] = c2s[Conn(t)] /\ s2c'[Conn(t)] = s2c[Conn(t)]
         /\ session'[Conn(t)] = session[Conn(t)] /\ UNCHANGED <<request, done>>
         /\ Alive(Conn(t))' = Alive(Conn(t))
         /\ HasRequest(Conn(t))' = HasRequest(Conn(t))
         /\ ServerNeed(Conn(t))' = ServerNeed(Conn(t))
         /\ Owed(Conn(t))' = Owed(Conn(t))
         /\ \A n : ExecutedUpTo(Conn(t), n)' = ExecutedUpTo(Conn(t), n)
  <2> SUFFICES ASSUME InSession(t)
               PROVE  /\ c2s'[Conn(t)] = c2s[Conn(t)]
                        /\ s2c'[Conn(t)] = s2c[Conn(t)]
                      /\ session'[Conn(t)] = session[Conn(t)]
                      /\ UNCHANGED <<request, done>>
                      /\ Alive(Conn(t))' = Alive(Conn(t))
                      /\ HasRequest(Conn(t))' = HasRequest(Conn(t))
                      /\ ServerNeed(Conn(t))' = ServerNeed(Conn(t))
                      /\ Owed(Conn(t))' = Owed(Conn(t))
                      /\ \A n : ExecutedUpTo(Conn(t), n)' = ExecutedUpTo(Conn(t), n)
    OBVIOUS
  <2>1. /\ c2s'[Conn(t)] = c2s[Conn(t)] /\ s2c'[Conn(t)] = s2c[Conn(t)]
        /\ session'[Conn(t)] = session[Conn(t)]
        /\ UNCHANGED <<request, done, cliOpen, srvOpen, broken>>
        /\ Executed' = Executed
    BY <1>5, Shaking
  <2> QED BY <1>3, <2>1 DEF Alive, HasRequest, ServerNeed, Owed, ExecutedUpTo
<1>7. Slot(t)' /\ Returned(t)' /\ WrittenWhole(t)'
  BY <1>1, <1>2, <1>3, Shaking DEF Slot, Returned, WrittenWhole, Usable
<1>8. Handshake(t)'
  <2>1. pc[t] = "hello" => Conn(t) # peer
    BY <1>1, Shaking DEF Handshake
  <2>2. CASE Conn(t) = peer
    BY <1>1, <1>2, <1>3, <1>5, <2>1, <2>2, Shaking DEF Handshake
  <2>3. CASE Conn(t) # peer
    <3>1. pc[t] \in {"hello", "welcome"} \/ InSession(t) =>
             /\ c2s'[Conn(t)] = c2s[Conn(t)] /\ s2c'[Conn(t)] = s2c[Conn(t)]
             /\ session'[Conn(t)] = session[Conn(t)]
             /\ ~(listener' = "welcome" /\ peer' = Conn(t))
      BY <1>4, <1>5, <2>3, Shaking, CallPairs
    <3> QED BY <1>1, <1>2, <1>3, <3>1 DEF Handshake
  <2> QED BY <2>2, <2>3
<1>9. NothingLost(t)'
  BY <1>1, <1>3, <1>6 DEF NothingLost, LastSent, Need
<1>10. OneAwaited(t)'
  BY <1>1, <1>2, <1>3, <1>6 DEF OneAwaited, Awaits
<1>11. Answer(t)'
  BY <1>1, <1>2, <1>3, <1>6, Shaking DEF Answer, ResponseOf, ResultOf
<1> QED BY <1>7, <1>8, <1>9, <1>10, <1>11 DEF ThreadInv

\* Its connections: the new session starts with an empty queue.
LEMMA ShakingConnection ==
    ASSUME IInv, PInv, RecvHello \/ SendWelcome, UNCHANGED clientVars,
           peer \in Calls, NEW c \in Calls, c[1] = peer[1]
    PROVE  ConnectionInv(c)'
<1>1. Opened(c) /\ Unopened(c) /\ Stream(c) /\ Goodbye(c)
  BY DEF PInv, ConnectionInv
<1>2. /\ pc' = pc /\ calls' = calls /\ fn' = fn /\ cursor' = cursor
      /\ handler' = handler /\ outcome' = outcome
  BY DEF clientVars
<1>3. /\ LastNumber(c[1])' = LastNumber(c[1])
        /\ ClientNeed(c[1])' = ClientNeed(c[1])
      /\ \A d \in Calls : Used(d)' => Used(d)
      /\ \A n : ExecutedUpTo(c, n)' = ExecutedUpTo(c, n)
      /\ Alive(c)' = Alive(c)
  BY <1>2, Shaking, CallPairs
     DEF LastNumber, ClientNeed, Unsent, Used, ExecutedUpTo, Alive
<1>4. Opened(c)'
  BY <1>1, <1>2, <1>3 DEF Opened, Conn
<1>5. CASE c = peer
  <2>1. /\ c2s'[c] = <<>> /\ session'[c] \in {"none", "command"}
        /\ session'[c] = "none" => s2c'[c] = <<>>
    BY <1>5, Shaking
  <2>2. Unopened(c)'
    BY <2>1 DEF Unopened
  <2>3. Stream(c)'
    BY <2>1 DEF Stream, QueueOrder, RequestOrder, BeforeNext, HasRequest
  <2>4. Goodbye(c)'
    BY <2>1 DEF Goodbye
  <2> QED BY <1>4, <2>2, <2>3, <2>4 DEF ConnectionInv
<1>6. CASE c # peer
  <2>1. /\ c2s'[c] = c2s[c] /\ s2c'[c] = s2c[c] /\ session'[c] = session[c]
        /\ request' = request /\ done' = done /\ Executed' = Executed
    BY <1>6, Shaking, CallPairs
  <2>2. HasRequest(c)' = HasRequest(c) /\ ServerNeed(c)' = ServerNeed(c)
    BY <2>1 DEF HasRequest, ServerNeed
  <2>3. Unopened(c)' /\ Goodbye(c)'
    BY <1>1, <1>2, <1>3, <2>1 DEF Unopened, Goodbye
  <2>4. \A x, n : Numbered(c, x, n)' = Numbered(c, x, n)
    BY <1>2, <1>3 DEF Numbered
  <2>5. \A x, n, p : Continues(x, n, p)' = Continues(x, n, p)
    BY <1>2 DEF Continues
  <2>6. \A p : Expected(c, p)' = Expected(c, p)
    BY <1>2, <1>3, <2>1, <2>2, <2>5 DEF Expected
  <2>7. Stream(c)'
    <3> SUFFICES ASSUME session[c] \in Serving
                 PROVE  QueueOrder(c)' /\ RequestOrder(c)' /\ BeforeNext(c)'
      BY <2>1 DEF Stream
    <3>1. QueueOrder(c)'
      BY <1>1, <2>1, <2>4, <2>5, <2>6 DEF Stream, QueueOrder, OfCall, Need, Before
    <3>2. RequestOrder(c)' /\ BeforeNext(c)'
      BY <1>1, <1>3, <2>1, <2>2, <2>4 DEF Stream, RequestOrder, BeforeNext, OfCall
    <3> QED BY <3>1, <3>2
  <2> QED BY <1>4, <2>3, <2>7 DEF ConnectionInv
<1> QED BY <1>5, <1>6

\* So the invariant is kept.
LEMMA ShakingKept ==
    ASSUME IInv, PInv, RecvHello \/ SendWelcome, UNCHANGED clientVars
    PROVE  PInv'
<1>1. ASSUME NEW u \in Threads PROVE Own(u)'
  <2>1. CASE peer \in Calls => peer[1] # u
    BY <2>1, ShakingQuiet, QuietThread DEF PInv, Own
  <2>2. CASE peer \in Calls /\ peer[1] = u
    BY <2>2, ShakingThread, ShakingConnection DEF Own
  <2> QED BY <2>1, <2>2
<1>2. Queued' /\ NoStrangers'
  <2>1. /\ \A i \in DOMAIN backlog : backlog[i] \in Calls =>
              backlog[i] # peer /\ backlog[i] \in Conns /\ backlog[i] # None
        /\ Queued /\ NoStrangers /\ Stranger \in Conns /\ None \notin Calls
    BY CallPairs DEF PInv, Queued, Conns
  <2>2. Queued'
    BY <2>1, Shaking DEF Queued
  <2>3. NoStrangers'
    BY <2>1, Shaking, CallPairs DEF NoStrangers
  <2> QED BY <2>2, <2>3
<1> QED BY <1>1, <1>2, CallPairs DEF PInv, Own

-----------------------------------------------------------------------------
(***************************************************************************)
(* The server's threads.                                                   *)
(***************************************************************************)
\* A thread that ends has lost its connection, or has nothing more to do.
LEMMA EndingKept ==
    ASSUME IInv, PInv, NEW c \in Conns, CommandFails(c) \/ CloseSession(c),
           UNCHANGED clientVars
    PROVE  PInv'
<1>1. /\ UNCHANGED <<listener, peer, log, c2s, s2c, cliOpen, broken, backlog>>
      /\ Executed' = Executed
      /\ \A d \in Conns : d # c => /\ session'[d] = session[d]
                            /\ srvOpen'[d] = srvOpen[d]
                                   /\ request'[d] = request[d] /\ done'[d] = done[d]
      /\ session[c] # "none" /\ session'[c] \in {"close", "closed"}
      /\ session[c] = "close" \/ (~Alive(c) /\ srvOpen' = srvOpen)
      /\ srvOpen'[c] => srvOpen[c]
  <2>1. ConnectionTyped /\ ServerTyped
    BY Types
  <2>2. CASE CommandFails(c)
    BY <2>1, <2>2
       DEF CommandFails, ConnectionTyped, ServerTyped, SrvRecvFails, SrvSendFails,
           Alive, netVars, Executed
  <2>3. CASE CloseSession(c)
    BY <2>1, <2>3
       DEF CloseSession, SrvClose, ConnectionTyped, ServerTyped, Executed
  <2> QED BY <2>2, <2>3
<1>2. ASSUME NEW u \in Threads PROVE Quiet(u)
  <2>1. SameThread(u) /\ SameExecuted(u)
    BY <1>1 DEF clientVars, SameThread, SameExecuted
  <2>2. ASSUME NEW d \in Calls, d[1] = u
        PROVE  SameConnection(d) /\ SameSession(d)
    <3>1. d \in Conns
      BY CallPairs
    <3>2. CASE d = c
      BY <1>1, <3>2 DEF SameConnection, SameSession, Alive
    <3>3. CASE d # c
      BY <1>1, <3>1, <3>3 DEF SameConnection, SameSession, Alive
    <3> QED BY <3>2, <3>3
  <2> QED BY <2>1, <2>2 DEF Quiet
<1>3. Queued' /\ NoStrangers'
  <2>1. Queued /\ NoStrangers /\ Stranger \in Conns
    BY DEF PInv, Conns
  <2>2. Queued'
    <3>1. \A i \in DOMAIN backlog : backlog[i] \in Calls =>
             backlog[i] # c /\ backlog[i] \in Conns
      BY <1>1, <2>1, CallPairs DEF Queued
    <3>2. peer \in Calls => peer # c /\ peer \in Conns
      BY <1>1, <2>1, CallPairs DEF Queued
    <3> QED BY <1>1, <2>1, <3>1, <3>2 DEF Queued
  <2>3. NoStrangers'
    BY <1>1, <2>1 DEF NoStrangers
  <2> QED BY <2>2, <2>3
<1>4. \A u \in Threads : Own(u)'
  BY <1>2, QuietThread DEF PInv, Own
<1> QED BY <1>3, <1>4, CallPairs DEF PInv, Own

\* A step of the thread of c that goes on with what its client has sent.
Serves(c) ==
    \/ RecvRequest(c) \/ RecvStop(c) \/ ReadArgument(c) \/ RunFunction(c)
    \/ SendResponse(c) \/ SendBye(c)

\* What such a step leaves alone.
LEMMA ServeFrame ==
    ASSUME IInv, PInv, NEW c \in Conns, Serves(c), UNCHANGED clientVars
    PROVE  /\ c \in Calls /\ c[1] \in Threads
           /\ session[c] \in {"command", "arguments", "respond", "bye"}
           /\ session'[c] \in {"command", "arguments", "respond", "bye", "close"}
           /\ UNCHANGED <<pc, calls, fn, cursor, handler, outcome>>
           /\ UNCHANGED <<listener, peer, cliOpen, srvOpen, broken, backlog>>
           /\ \A d \in Conns : d # c =>
                 /\ c2s'[d] = c2s[d] /\ s2c'[d] = s2c[d] /\ session'[d] = session[d]
                 /\ request'[d] = request[d] /\ done'[d] = done[d]
           /\ \/ Executed' = Executed
              \/ RunFunction(c) /\ Executed' = Executed \cup {request[c].call}
           /\ \/ c2s'[c] = c2s[c]
              \/ /\ c2s[c] # <<>> /\ c2s'[c] = Tail(c2s[c])
                 /\ RecvRequest(c) \/ RecvStop(c) \/ ReadArgument(c)
<1>1. ConnectionTyped /\ ServerTyped
  BY Types
<1>2. session[c] # "none"
  BY DEF Serves, RecvRequest, RecvStop, ReadArgument, RunFunction, SendResponse,
     SendBye
<1>3. c \in Calls /\ c[1] \in Threads
  BY <1>2, CallPairs DEF PInv, NoStrangers, Conns
<1>4. UNCHANGED <<pc, calls, fn, cursor, handler, outcome>>
  BY DEF clientVars
<1> USE <1>1, <1>3, <1>4 DEF ConnectionTyped, ServerTyped
<1>5. CASE RecvRequest(c)
  BY <1>5 DEF RecvRequest, SrvRecv, Executed
<1>6. CASE RecvStop(c)
  BY <1>6 DEF RecvStop, SrvRecv, Executed
<1>7. CASE ReadArgument(c)
  BY <1>7 DEF ReadArgument, SrvRecv, Executed
<1>8. CASE RunFunction(c)
  <2>1. Executed' = Executed \cup {request[c].call}
    <3>1. log' = Append(log, request[c].call) /\ request[c].call \in Calls
      BY <1>8, Types DEF RunFunction, HasRequest
    <3>2. /\ DOMAIN log = 1..Len(log) /\ DOMAIN log' = 1..(Len(log) + 1)
          /\ Len(log) \in Nat
          /\ \A i \in 1..Len(log) : log'[i] = log[i]
          /\ log'[Len(log) + 1] = request[c].call
      BY <3>1, Appends
    <3>3. DOMAIN log' = DOMAIN log \cup {Len(log) + 1}
      BY <3>2
    <3>4. ASSUME NEW i \in DOMAIN log'
          PROVE  log'[i] \in Executed \cup {request[c].call}
      <4>1. i = Len(log) + 1 \/ (i \in DOMAIN log /\ log'[i] = log[i])
        BY <3>2
      <4>2. \A j \in DOMAIN log : log[j] \in Executed
        BY DEF Executed
      <4> QED BY <3>2, <4>1, <4>2
    <3>5. ASSUME NEW i \in DOMAIN log
          PROVE  i \in DOMAIN log' /\ log[i] = log'[i]
      BY <3>2
    <3>6. Len(log) + 1 \in DOMAIN log'
      BY <3>3
    <3> QED BY <3>2, <3>4, <3>5, <3>6, ZenonT(30) DEF Executed
  <2>2. \/ session' = [session EXCEPT ![c] = "respond"] /\ UNCHANGED request
        \/ /\ session' = [session EXCEPT ![c] = "command"]
           /\ request' = [request EXCEPT ![c] = None]
    BY <1>8 DEF RunFunction, EndRequest
  <2>3. done' = [done EXCEPT ![c] = 0] /\ session[c] = "arguments"
    BY <1>8 DEF RunFunction, EndRequest
  <2>4. UNCHANGED <<listener, peer, netVars>>
    BY <1>8 DEF RunFunction
  <2> QED BY <1>8, <2>1, <2>2, <2>3, <2>4 DEF netVars
<1>9. CASE SendResponse(c)
  BY <1>9 DEF SendResponse, SrvSend, EndRequest, Executed
<1>10. CASE SendBye(c)
  BY <1>10 DEF SendBye, SrvSend, Executed
<1> QED BY <1>5, <1>6, <1>7, <1>8, <1>9, <1>10 DEF Serves

\* What is derived from the client's state is the same.
LEMMA ServeNumbers ==
    ASSUME IInv, PInv, NEW c \in Conns, Serves(c), UNCHANGED clientVars
    PROVE  /\ \A t \in Threads :
                 /\ LastNumber(t)' = LastNumber(t) /\ ClientNeed(t)' = ClientNeed(t)
                 /\ Call(t)' = Call(t) /\ Conn(t)' = Conn(t)
                 /\ InSession(t)' = InSession(t)
                 /\ ResponseOf(t)' = ResponseOf(t) /\ ResultOf(t)' = ResultOf(t)
           /\ \A d \in Calls :
                 /\ Used(d)' = Used(d) /\ Alive(d)' = Alive(d)
                 /\ \A n : ExecutedUpTo(d, n) => ExecutedUpTo(d, n)'
           /\ \A d, x, n : d[1] \in Threads => Numbered(d, x, n)' = Numbered(d, x, n)
           /\ \A x, n, p : Continues(x, n, p)' = Continues(x, n, p)
           /\ \A d \in Calls : d # c =>
                 /\ HasRequest(d)' = HasRequest(d)
                 /\ ServerNeed(d)' = ServerNeed(d) /\ Owed(d)' = Owed(d)
           /\ Executed \subseteq Executed'
<1>1. /\ UNCHANGED <<pc, calls, fn, cursor, handler, outcome>>
      /\ UNCHANGED <<cliOpen, srvOpen, broken>>
      /\ session[c] # "none" /\ session'[c] # "none"
      /\ Executed \subseteq Executed'
      /\ \A d \in Conns : d # c =>
            /\ session'[d] = session[d]
            /\ request'[d] = request[d] /\ done'[d] = done[d]
  BY ServeFrame
<1>2. ASSUME NEW t \in Threads
      PROVE  /\ LastNumber(t)' = LastNumber(t) /\ ClientNeed(t)' = ClientNeed(t)
             /\ Call(t)' = Call(t) /\ Conn(t)' = Conn(t)
             /\ InSession(t)' = InSession(t)
             /\ ResponseOf(t)' = ResponseOf(t) /\ ResultOf(t)' = ResultOf(t)
  BY <1>1
     DEF LastNumber, ClientNeed, Unsent, Call, Conn, InSession, ResponseOf, ResultOf
<1>3. ASSUME NEW d \in Calls
      PROVE  /\ Used(d)' = Used(d) /\ Alive(d)' = Alive(d)
             /\ \A n : ExecutedUpTo(d, n) => ExecutedUpTo(d, n)'
  <2>1. d \in Conns
    BY CallPairs
  <2> QED BY <1>1, <2>1 DEF Used, Alive, ExecutedUpTo
<1>4. \A d, x, n : d[1] \in Threads => Numbered(d, x, n)' = Numbered(d, x, n)
  BY <1>1, <1>2 DEF Numbered
<1>5. \A x, n, p : Continues(x, n, p)' = Continues(x, n, p)
  BY <1>1 DEF Continues
<1>6. ASSUME NEW d \in Calls, d # c
      PROVE  /\ HasRequest(d)' = HasRequest(d)
             /\ ServerNeed(d)' = ServerNeed(d) /\ Owed(d)' = Owed(d)
  <2>1. d \in Conns
    BY CallPairs
  <2> QED BY <1>1, <1>6, <2>1 DEF HasRequest, ServerNeed, Owed
<1> QED BY <1>1, <1>2, <1>3, <1>4, <1>5, <1>6

\* The call that is executed: it was written whole and comes before everything
\* else that is on the connections of its thread.
LEMMA Ran ==
    ASSUME IInv, PInv, NEW c \in Calls, session[c] = "arguments", AllArgumentsRead(c)
    PROVE  LET x == request[c].call
               t == c[1]
           IN  /\ x \in Calls /\ x[1] = t /\ x[2] \in Nat /\ x = <<t, x[2]>>
               /\ ServerNeed(c) = 0 /\ Numbered(c, x, 0) /\ x \notin Executed
               /\ c[2] <= x[2] /\ x[2] <= LastNumber(t) /\ x[2] <= calls[t]
               /\ ExecutedUpTo(c, x[2] - 1)
               /\ pc[t] \in {"connect", "hello", "welcome", "send"} => x[2] < calls[t]
               /\ \A i \in DOMAIN c2s[c] : OfCall(c2s[c][i]) => c2s[c][i].call[2] > x[2]
               /\ \A d \in Calls, y \in Calls :
                     /\ d # c /\ d[1] = t /\ session[d] \in Serving
                     /\ \/ HasRequest(d) /\ y = request[d].call
                        \/ \E i \in DOMAIN c2s[d] : OfCall(c2s[d][i])
                                                      /\ y = c2s[d][i].call
                     => y # x
<1> PICK x, t : x = request[c].call /\ t = c[1]
  OBVIOUS
<1>1. /\ QueueOrder(c) /\ RequestOrder(c) /\ BeforeNext(c) /\ HasRequest(c)
      /\ t \in Threads /\ x \in Calls
  BY Types, CallPairs DEF PInv, ConnectionInv, Stream, Serving, HasRequest
<1>2. ServerNeed(c) = 0
  <2>1. request[c].fn.args \in Nat /\ done[c] = request[c].fn.args
    BY <1>1, Types, CallPairs DEF AllArgumentsRead
  <2> QED BY <2>1 DEF ServerNeed
<1>3. Numbered(c, x, 0) /\ ExecutedUpTo(c, x[2] - 1) /\ x \notin Executed
  BY <1>1, <1>2 DEF RequestOrder
<1>4. /\ ClientTyped
      /\ pc[t] = "send" => fn[t].args \in Nat /\ cursor[t] <= fn[t].args
  BY <1>1, Types, FunctionNumbers DEF InCall, IInv, CallShape
<1>5. /\ calls[t] \in Nat /\ LastNumber(t) \in Int /\ LastNumber(t) <= calls[t]
      /\ pc[t] \in {"connect", "hello", "welcome", "send"} =>
            LastNumber(t) < calls[t] \/ ClientNeed(t) > 0
  BY <1>1, <1>4 DEF ClientTyped, LastNumber, ClientNeed, Unsent
<1>6. /\ x[1] = t /\ x[2] \in Nat /\ c[2] \in Nat
      /\ c[2] <= x[2] /\ x[2] <= LastNumber(t)
      /\ x[2] = calls[t] => 0 >= ClientNeed(t)
  BY <1>1, <1>3, CallPairs DEF Numbered
<1>7. x[2] <= calls[t]
  BY <1>5, <1>6
<1>8. pc[t] \in {"connect", "hello", "welcome", "send"} => x[2] < calls[t]
  <2>1. ClientNeed(t) \in Nat
    BY <1>1, <1>4 DEF ClientTyped, ClientNeed
  <2> QED BY <1>5, <1>6, <1>7, <2>1
<1>9. ASSUME NEW i \in DOMAIN c2s[c], OfCall(c2s[c][i])
      PROVE  c2s[c][i].call[2] > x[2]
  <2> PICK q : q = c2s[c]
    OBVIOUS
  <2>1. q \in Seq(ClientPackets) /\ 1 \in DOMAIN q /\ i \in 1..Len(q) /\ q # <<>>
    BY <1>9, Types, CallPairs DEF ConnectionTyped
  <2>2. Continues(x, 0, q[1])
    BY <1>1, <1>2, <2>1 DEF QueueOrder, Expected, HasRequest
  <2>3. OfCall(q[1])
    <3>1. ~OfCall(q[1]) => 1 = Len(q)
      BY <1>1, <2>1 DEF QueueOrder
    <3> QED BY <1>9, <2>1, <3>1
  <2>4. q[1].type = "request" /\ q[1].call[2] = x[2] + 1
    BY <2>2, <2>3, Packets DEF Continues
  <2>5. q[i].call \in Calls /\ q[i].call[2] \in Nat
    BY <1>9, <2>1, Packets, CallPairs DEF OfCall
  <2>6. i # 1 => Before(q[1], q[i])
    BY <1>1, <1>9, <2>1, <2>3 DEF QueueOrder
  <2> QED BY <1>6, <2>4, <2>5, <2>6 DEF Before
<1>10. ASSUME NEW d \in Calls, NEW y \in Calls, d # c, d[1] = t, session[d] \in Serving,
              \/ HasRequest(d) /\ y = request[d].call
              \/ \E i \in DOMAIN c2s[d] : OfCall(c2s[d][i]) /\ y = c2s[d][i].call
       PROVE  y # x
  <2>1. /\ QueueOrder(d) /\ RequestOrder(d) /\ BeforeNext(d)
        /\ Used(c) /\ Used(d) /\ d[2] \in Nat /\ d[2] # c[2] /\ y[2] \in Nat
    BY <1>10, CallPairs DEF PInv, ConnectionInv, Stream, Serving, Used
  <2>2. CASE d[2] > c[2]
    <3>1. x[2] < d[2]
      BY <1>1, <1>10, <2>1, <2>2 DEF BeforeNext
    <3>2. d[2] <= y[2]
      <4>1. \E n : Numbered(d, y, n)
        BY <1>10, <2>1 DEF QueueOrder, RequestOrder
      <4>2. d[2] <= y[2]
        BY <2>1, <4>1 DEF Numbered
      <4> QED BY <4>2
    <3> QED BY <1>6, <2>1, <3>1, <3>2
  <2>3. CASE d[2] < c[2]
    <3>1. y[2] < c[2]
      BY <1>1, <1>10, <2>1, <2>3 DEF BeforeNext
    <3> QED BY <1>6, <2>1, <3>1
  <2> QED BY <1>6, <2>1, <2>2, <2>3
<1>11. x = <<t, x[2]>>
  BY <1>1, <1>6, CallPairs DEF Calls
<1> QED BY <1>1, <1>2, <1>3, <1>6, <1>7, <1>8, <1>9, <1>10, <1>11

\* Nothing happens to the threads the connection does not belong to.
LEMMA ServeQuiet ==
    ASSUME IInv, PInv, NEW c \in Conns, Serves(c), UNCHANGED clientVars,
           NEW u \in Threads, c[1] # u
    PROVE  Quiet(u)
<1>1. SameThread(u)
  BY ServeFrame DEF SameThread
<1>2. SameExecuted(u)
  <2>1. RunFunction(c) => request[c].call[1] # u
    BY ServeFrame, Ran DEF RunFunction
  <2> QED BY <2>1, ServeFrame DEF SameExecuted
<1>3. ASSUME NEW d \in Calls, d[1] = u
      PROVE  SameConnection(d) /\ SameSession(d)
  <2>1. d \in Conns /\ d # c
    BY <1>3, CallPairs
  <2> QED BY <2>1, ServeFrame DEF SameConnection, SameSession, Alive
<1> QED BY <1>1, <1>2, <1>3 DEF Quiet

\* What the client has done, and the handshake, do not depend on it.
LEMMA ServeClient ==
    ASSUME IInv, PInv, NEW c \in Conns, Serves(c), UNCHANGED clientVars,
           NEW t \in Threads
    PROVE  /\ Slot(t)' /\ Returned(t)' /\ Handshake(t)' /\ WrittenWhole(t)'
           /\ \A d \in Calls : Opened(d)' /\ Unopened(d)'
           /\ Queued' /\ NoStrangers'
<1>1. /\ Slot(t) /\ Returned(t) /\ Handshake(t) /\ WrittenWhole(t)
      /\ \A d \in Calls : Opened(d) /\ Unopened(d)
      /\ Queued /\ NoStrangers
  BY DEF PInv, ThreadInv, ConnectionInv
<1>2. /\ c \in Calls /\ c \in Conns /\ session[c] # "none" /\ session'[c] # "none"
      /\ session[c] \in {"command", "arguments", "respond", "bye"}
      /\ UNCHANGED <<pc, calls, fn, cursor, handler, outcome>>
      /\ UNCHANGED <<listener, peer, cliOpen, srvOpen, broken, backlog>>
      /\ \A d \in Conns : d # c =>
            /\ c2s'[d] = c2s[d] /\ s2c'[d] = s2c[d] /\ session'[d] = session[d]
  BY ServeFrame
<1>3. Conn(t)' = Conn(t) /\ Call(t)' = Call(t) /\ InSession(t)' = InSession(t)
  BY ServeNumbers
<1>4. Slot(t)' /\ Returned(t)'
  BY <1>1, <1>2, <1>3 DEF Slot, Returned, Usable
<1>5. Handshake(t)'
  <2>1. handler[t] # None => Conn(t) \in Conns
    BY Types, CallPairs
  <2>2. pc[t] \in {"hello", "welcome"} => handler[t] # None
    BY Types DEF Connected, InCall
  <2>3. CASE pc[t] = "hello"
    <3>1. Conn(t) # c /\ Conn(t) \in Conns
      BY <1>1, <1>2, <2>1, <2>2, <2>3 DEF Handshake
    <3> QED BY <1>1, <1>2, <1>3, <2>3, <3>1 DEF Handshake, InSession
  <2>4. CASE pc[t] = "welcome"
    <3>1. CASE Conn(t) = c
      <4>1. session[c] = "command" /\ c2s[c] = <<>>
        BY <1>1, <1>2, <2>4, <3>1 DEF Handshake
      <4>2. FALSE
        BY <4>1 DEF Serves, RecvRequest, RecvStop, ReadArgument, RunFunction,
                    SendResponse, SendBye, SrvRecv
      <4> QED BY <4>2
    <3>2. CASE Conn(t) # c
      BY <1>1, <1>2, <1>3, <2>1, <2>2, <2>4, <3>2 DEF Handshake, InSession
    <3> QED BY <3>1, <3>2
  <2>5. CASE pc[t] \notin {"hello", "welcome"}
    <3>1. InSession(t) => session'[Conn(t)] # "none"
      BY <1>1, <1>2, <2>1 DEF Handshake, InSession
    <3> QED BY <1>2, <1>3, <2>5, <3>1 DEF Handshake
  <2> QED BY <2>3, <2>4, <2>5
<1>6. WrittenWhole(t)'
  <2>1. CASE Executed' = Executed
    BY <1>1, <1>2, <2>1 DEF WrittenWhole
  <2>2. CASE RunFunction(c) /\ Executed' = Executed \cup {request[c].call}
    <3> PICK x : x = request[c].call
      OBVIOUS
    <3>1. /\ x[1] = c[1] /\ x[2] <= calls[c[1]]
          /\ pc[c[1]] \in {"connect", "hello", "welcome", "send"} => x[2] < calls[c[1]]
      BY <1>2, <2>2, Ran DEF RunFunction
    <3> QED BY <1>1, <1>2, <2>2, <3>1 DEF WrittenWhole
  <2> QED BY <2>1, <2>2, ServeFrame
<1>7. ASSUME NEW d \in Calls PROVE Opened(d)' /\ Unopened(d)'
  <2>1. Opened(d)'
    <3>1. Used(d)' = Used(d) /\ d[1] \in Threads
      BY ServeNumbers, CallPairs
    <3> QED BY <1>1, <1>2, <3>1 DEF Opened, Conn
  <2>2. Unopened(d)'
    <3>1. CASE d = c
      BY <1>1, <1>2, <3>1, ServeFrame DEF Unopened
    <3>2. CASE d # c
      BY <1>1, <1>2, <3>2, CallPairs DEF Unopened
    <3> QED BY <3>1, <3>2
  <2> QED BY <2>1, <2>2
<1>8. Queued' /\ NoStrangers'
  <2>1. \A i \in DOMAIN backlog : backlog[i] \in Calls =>
           backlog[i] # c /\ backlog[i] \in Conns
    BY <1>1, <1>2, CallPairs DEF Queued
  <2>2. peer \in Calls => peer # c /\ peer \in Conns
    BY <1>1, <1>2, CallPairs DEF Queued
  <2>3. Stranger \in Conns /\ Stranger # c
    BY <1>2, CallPairs DEF Conns
  <2>4. Queued'
    BY <1>1, <1>2, <2>1, <2>2 DEF Queued
  <2>5. NoStrangers'
    BY <1>1, <1>2, <2>3 DEF NoStrangers
  <2> QED BY <2>4, <2>5
<1> QED BY <1>4, <1>5, <1>6, <1>7, <1>8

\* The thread's other connections only see that more is executed.
LEMMA ServeElsewhere ==
    ASSUME IInv, PInv, NEW c \in Conns, Serves(c), UNCHANGED clientVars,
           NEW d \in Calls, d[1] = c[1], d # c
    PROVE  Stream(d)' /\ Goodbye(d)'
<1>1. /\ d \in Conns /\ c \in Calls /\ c[1] \in Threads /\ d[1] \in Threads
      /\ c2s'[d] = c2s[d] /\ session'[d] = session[d] /\ request'[d] = request[d]
      /\ done'[d] = done[d] /\ pc' = pc /\ calls' = calls
      /\ HasRequest(d)' = HasRequest(d) /\ ServerNeed(d)' = ServerNeed(d)
      /\ Alive(d)' = Alive(d) /\ Executed \subseteq Executed'
      /\ \A n : ExecutedUpTo(d, n) => ExecutedUpTo(d, n)'
      /\ \A x, n : Numbered(d, x, n)' = Numbered(d, x, n)
      /\ \A x, n, p : Continues(x, n, p)' = Continues(x, n, p)
      /\ \A e \in Calls : Used(e)' = Used(e)
  BY ServeFrame, ServeNumbers, CallPairs
<1>2. Goodbye(d)'
  BY <1>1 DEF PInv, ConnectionInv, Goodbye
<1>3. Stream(d)'
  <2> SUFFICES ASSUME session[d] \in Serving
               PROVE  QueueOrder(d)' /\ RequestOrder(d)' /\ BeforeNext(d)'
    BY <1>1 DEF Stream
  <2>1. QueueOrder(d) /\ RequestOrder(d) /\ BeforeNext(d)
    BY DEF PInv, ConnectionInv, Stream
  <2>2. ASSUME NEW y \in Calls, y \notin Executed,
               \/ HasRequest(d) /\ y = request[d].call
               \/ \E i \in DOMAIN c2s[d] : OfCall(c2s[d][i]) /\ y = c2s[d][i].call
        PROVE  y \notin Executed'
    BY <1>1, <2>2, ServeFrame, Ran DEF RunFunction
  <2>3. RequestOrder(d)'
    <3>1. HasRequest(d) => request[d].call \in Calls
      BY <1>1, Types
    <3> QED BY <1>1, <2>1, <2>2, <3>1 DEF RequestOrder, HasRequest
  <2>4. BeforeNext(d)'
    BY <1>1, <2>1 DEF BeforeNext, OfCall
  <2>5. \A p : Expected(d, p) => Expected(d, p)'
    BY <1>1 DEF Expected
  <2>6. QueueOrder(d)'
    <3> PICK q : q = c2s[d]
      OBVIOUS
    <3>1. q \in Seq(ClientPackets) /\ c2s'[d] = q
      BY <1>1, Types DEF ConnectionTyped
    <3>2. ASSUME NEW i \in DOMAIN q, OfCall(q[i])
          PROVE  q[i].call \notin Executed'
      <4>1. q[i].call \in Calls /\ q[i].call \notin Executed
        BY <2>1, <3>1, <3>2, Packets DEF OfCall, QueueOrder
      <4> QED BY <2>2, <3>2, <4>1
    <3> QED BY <1>1, <2>1, <2>5, <3>1, <3>2 DEF QueueOrder, OfCall, Need, Before
  <2> QED BY <2>3, <2>4, <2>6
<1> QED BY <1>2, <1>3

\* So does the thread, when it uses another of them.
LEMMA ServeAside ==
    ASSUME IInv, PInv, NEW c \in Conns, Serves(c), UNCHANGED clientVars,
           NEW t \in Threads, ~InSession(t) \/ Conn(t) # c
    PROVE  NothingLost(t)' /\ OneAwaited(t)' /\ Answer(t)'
<1> PICK d : d = Conn(t)
  OBVIOUS
<1>1. /\ NothingLost(t) /\ OneAwaited(t) /\ Answer(t)
      /\ InSession(t)' = InSession(t) /\ Conn(t)' = d /\ Call(t)' = Call(t)
      /\ LastNumber(t)' = LastNumber(t) /\ ClientNeed(t)' = ClientNeed(t)
      /\ ResponseOf(t)' = ResponseOf(t) /\ ResultOf(t)' = ResultOf(t)
      /\ Executed \subseteq Executed'
      /\ UNCHANGED <<pc, calls, fn, cursor, handler, outcome>>
  BY ServeNumbers, ServeFrame DEF PInv, ThreadInv
<1>2. InSession(t) =>
         /\ c2s'[d] = c2s[d] /\ s2c'[d] = s2c[d] /\ session'[d] = session[d]
         /\ request'[d] = request[d] /\ done'[d] = done[d]
         /\ HasRequest(d)' = HasRequest(d) /\ ServerNeed(d)' = ServerNeed(d)
         /\ Owed(d)' = Owed(d) /\ Alive(d)' = Alive(d)
         /\ \A n : ExecutedUpTo(d, n) => ExecutedUpTo(d, n)'
  <2>1. InSession(t) => d \in Calls /\ d \in Conns /\ d # c
    BY Types, CallPairs DEF InSession
  <2> QED BY <2>1, ServeNumbers, ServeFrame
<1>3. NothingLost(t)'
  BY <1>1, <1>2 DEF NothingLost, LastSent, Need
<1>4. OneAwaited(t)'
  BY <1>1, <1>2 DEF OneAwaited, Awaits
<1>5. Answer(t)'
  BY <1>1, <1>2 DEF Answer
<1> QED BY <1>3, <1>4, <1>5

(***************************************************************************)
(* The connection that is served, step by step.                            *)
(***************************************************************************)
\* What is known before the step.
LEMMA Served ==
    ASSUME IInv, PInv, NEW c \in Calls
    PROVE  /\ Stream(c) /\ Goodbye(c) /\ c \in Conns /\ c[1] \in Threads
           /\ session[c] \in Serving => QueueOrder(c) /\ RequestOrder(c)
                /\ BeforeNext(c)
           /\ NothingLost(c[1]) /\ OneAwaited(c[1]) /\ Answer(c[1])
           /\ c2s[c] \in Seq(ClientPackets) /\ s2c[c] \in Seq(ServerPackets)
           /\ ConnectionTyped /\ ServerTyped
           /\ HasRequest(c) =>
                 /\ request[c].call \in Calls /\ request[c].fn \in Functions
                 /\ request[c].fn.args \in Nat /\ request[c].fn.outs \in Nat
                 /\ done[c] \in Nat
  BY Types, CallPairs
     DEF PInv, ThreadInv, ConnectionInv, Stream, ConnectionTyped, ServerTyped

\* A packet is taken from the queue: the server is where the packet says.
LEMMA Taken ==
    ASSUME IInv, PInv, NEW c \in Conns, Serves(c), UNCHANGED clientVars,
           RecvRequest(c) \/ ReadArgument(c)
    PROVE  /\ c2s[c] # <<>> /\ c2s'[c] = Tail(c2s[c]) /\ s2c'[c] = s2c[c]
           /\ Executed' = Executed
           /\ session[c] \in {"command", "arguments"} /\ session'[c] = "arguments"
           /\ OfCall(c2s[c][1])
           /\ request'[c].call = c2s[c][1].call
           /\ ServerNeed(c)' = Need(c2s[c][1])
           /\ ExecutedUpTo(c, c2s[c][1].call[2] - 1)
           /\ done'[c] <= request'[c].fn.args
           /\ \/ c2s[c][1].type = "request" /\ request'[c].fn = c2s[c][1].fn
              \/ session[c] = "arguments" /\ request'[c] = request[c]
<1> PICK q : q = c2s[c]
  OBVIOUS
<1>1. /\ q # <<>> /\ c2s'[c] = Tail(q) /\ Head(q) = q[1] /\ q[1] \in ClientPackets
      /\ UNCHANGED <<s2c, log>> /\ Executed' = Executed /\ c \in Calls
      /\ session[c] \in {"command", "arguments"}
  <2>1. c \in Calls /\ q \in Seq(ClientPackets) /\ ConnectionTyped
    BY ServeFrame, Served
  <2>2. q # <<>> /\ c2s' = [c2s EXCEPT ![c] = Tail(@)] /\ UNCHANGED <<s2c, log>>
    BY DEF RecvRequest, ReadArgument, SrvRecv
  <2>3. c2s'[c] = Tail(q)
    BY <2>1, <2>2 DEF ConnectionTyped
  <2>4. session[c] \in {"command", "arguments"}
    BY DEF RecvRequest, ReadArgument
  <2> QED BY <2>1, <2>2, <2>3, <2>4, Tails DEF Executed
<1>2. QueueOrder(c) /\ RequestOrder(c) /\ Expected(c, q[1]) /\ ServerTyped
  BY <1>1, Served DEF Serving, QueueOrder
<1>3. CASE RecvRequest(c)
  <2> PICK f : f = q[1].fn
    OBVIOUS
  <2>1. /\ session[c] = "command" /\ q[1].type = "request"
        /\ session'[c] = "arguments" /\ done'[c] = 0
        /\ request'[c] = [call |-> q[1].call, fn |-> f]
    BY <1>1, <1>2, <1>3 DEF RecvRequest, ServerTyped
  <2>2. f.args \in Nat
    BY <1>1, <2>1, Packets, FunctionNumbers
  <2>3. request'[c].call = q[1].call /\ request'[c].fn = f
    BY <2>1
  <2>4. OfCall(q[1]) /\ Need(q[1]) = f.args
    BY <2>1 DEF OfCall, Need
  <2>5. ServerNeed(c)' = f.args /\ done'[c] <= f.args
    BY <2>1, <2>2, <2>3 DEF ServerNeed
  <2>6. ExecutedUpTo(c, q[1].call[2] - 1)
    BY <1>2, <2>1, Packets DEF Expected
  <2> QED BY <1>1, <2>1, <2>3, <2>4, <2>5, <2>6
<1>4. CASE ReadArgument(c)
  <2>1. /\ session[c] = "arguments" /\ q[1].type = "argument"
        /\ session'[c] = "arguments" /\ done'[c] = done[c] + 1
        /\ request' = request /\ done[c] < request[c].fn.args
    BY <1>1, <1>2, <1>4 DEF ReadArgument, ServerTyped
  <2>2. request[c].fn.args \in Nat /\ done[c] \in Nat
    BY <1>1, <2>1, Served DEF HasRequest
  <2>3. OfCall(q[1]) /\ Need(q[1]) = q[1].left
    BY <2>1 DEF OfCall, Need
  <2>4. Continues(request[c].call, ServerNeed(c), q[1])
    BY <1>2, <2>1 DEF Expected
  <2>5. q[1].call = request[c].call /\ q[1].left = ServerNeed(c) - 1
    BY <2>1, <2>4, Packets DEF Continues
  <2>6. ServerNeed(c)' = ServerNeed(c) - 1 /\ done'[c] <= request[c].fn.args
    BY <2>1, <2>2 DEF ServerNeed
  <2>7. ExecutedUpTo(c, request[c].call[2] - 1)
    BY <1>2, <2>1 DEF RequestOrder, HasRequest
  <2> QED BY <1>1, <2>1, <2>3, <2>5, <2>6, <2>7
<1> QED BY <1>3, <1>4

\* The next packet continues the one that was taken.
LEMMA TakenStream ==
    ASSUME IInv, PInv, NEW c \in Conns, Serves(c), UNCHANGED clientVars,
           RecvRequest(c) \/ ReadArgument(c)
    PROVE  Stream(c)'
<1> PICK q, r : q = c2s[c] /\ r = c2s'[c]
  OBVIOUS
<1> PICK y, m : y = q[1].call /\ m = Need(q[1])
  OBVIOUS
<1>1. /\ c \in Calls /\ q # <<>> /\ q \in Seq(ClientPackets)
      /\ QueueOrder(c) /\ RequestOrder(c) /\ BeforeNext(c) /\ c[1] \in Threads
  BY ServeFrame, Served, Taken DEF Serving
<1>2. /\ r = Tail(q) /\ Executed' = Executed /\ session'[c] = "arguments"
      /\ request'[c].call = y /\ ServerNeed(c)' = m /\ OfCall(q[1])
      /\ ExecutedUpTo(c, y[2] - 1) /\ done'[c] <= request'[c].fn.args
  BY Taken
<1>3. /\ 1 \in DOMAIN q /\ Len(q) \in Nat /\ Len(r) = Len(q) - 1
      /\ \A i \in DOMAIN r : /\ i \in Nat /\ i + 1 \in DOMAIN q /\ i + 1 > 1
                             /\ r[i] = q[i + 1]
      /\ DOMAIN r = 1..(Len(q) - 1)
  BY <1>1, <1>2, Tails
<1>4. /\ \A n : ExecutedUpTo(c, n) => ExecutedUpTo(c, n)'
      /\ \A x, n : Numbered(c, x, n)' = Numbered(c, x, n)
      /\ \A x, n, p : Continues(x, n, p)' = Continues(x, n, p)
      /\ \A e \in Calls : Used(e)' = Used(e)
  BY <1>1, ServeNumbers
<1>5. Numbered(c, y, m) /\ y \notin Executed
        /\ (1 < Len(q) => Continues(y, m, q[2]))
  <2>1. 1 + 1 = 2
    OBVIOUS
  <2> QED BY <1>1, <1>2, <1>3, <2>1 DEF QueueOrder
<1>6. QueueOrder(c)'
  <2>1. ASSUME NEW i \in DOMAIN r
        PROVE  /\ ~OfCall(r[i]) => r[i] = Stop /\ i = Len(r)
               /\ OfCall(r[i]) => /\ Numbered(c, r[i].call, Need(r[i]))'
                                  /\ r[i].call \notin Executed'
                                  /\ i < Len(r) => Continues(r[i].call, Need(r[i]), r[i + 1])'
    <3>1. i + 1 \in DOMAIN q /\ r[i] = q[i + 1] /\ i \in Nat
      BY <1>3
    <3>2. ~OfCall(q[i + 1]) => q[i + 1] = Stop /\ i + 1 = Len(q)
      BY <1>1, <3>1 DEF QueueOrder
    <3>3. OfCall(q[i + 1]) =>
             /\ Numbered(c, q[i + 1].call, Need(q[i + 1]))
             /\ q[i + 1].call \notin Executed
             /\ i + 1 < Len(q) =>
                   Continues(q[i + 1].call, Need(q[i + 1]), q[(i + 1) + 1])
      BY <1>1, <3>1 DEF QueueOrder
    <3>4. i < Len(r) => r[i + 1] = q[(i + 1) + 1]
      <4>1. i < Len(r) => i + 1 \in DOMAIN r
        BY <1>3, <3>1
      <4> QED BY <1>3, <4>1
    <3> PICK k : k = Need(r[i])
      OBVIOUS
    <3>5. OfCall(r[i]) => /\ Numbered(c, r[i].call, k)'
                          /\ i < Len(r) => Continues(r[i].call, k, r[i + 1])'
      BY <1>3, <1>4, <3>1, <3>3, <3>4
    <3> QED BY <1>2, <1>3, <3>1, <3>2, <3>3, <3>5 DEF Need
  <2>2. ASSUME NEW i \in DOMAIN r, NEW j \in DOMAIN r, i < j, OfCall(r[i]), OfCall(r[j])
        PROVE  Before(r[i], r[j])
    <3>1. /\ i + 1 \in DOMAIN q /\ r[i] = q[i + 1] /\ i \in Nat
          /\ j + 1 \in DOMAIN q /\ r[j] = q[j + 1] /\ j \in Nat
      BY <1>3
    <3>2. i + 1 < j + 1
      BY <2>2, <3>1
    <3> QED BY <1>1, <2>2, <3>1, <3>2 DEF QueueOrder
  <2>3. r # <<>> => Expected(c, r[1])'
    <3> SUFFICES ASSUME r # <<>> PROVE Expected(c, r[1])'
      OBVIOUS
    <3>1. r[1] = q[2] /\ 1 < Len(q)
      <4>1. Len(q) # 1
        BY <1>1, <1>2, Tails
      <4> QED BY <1>3, <4>1
    <3>2. Continues(y, m, r[1])'
      BY <1>4, <1>5, <3>1
    <3> QED BY <1>2, <3>2 DEF Expected
  <2> QED BY <2>1, <2>2, <2>3 DEF QueueOrder, OfCall, Need, Before
<1>7. RequestOrder(c)'
  <2>1. Numbered(c, y, m)' /\ ExecutedUpTo(c, y[2] - 1)'
    BY <1>2, <1>4, <1>5
  <2> QED BY <1>2, <1>5, <2>1 DEF RequestOrder
<1>8. BeforeNext(c)'
  <2>1. ASSUME NEW d \in Calls, d[1] = c[1], c[2] < d[2], Used(d)'
        PROVE  /\ y[2] < d[2]
               /\ \A i \in DOMAIN r : OfCall(r[i]) => r[i].call[2] < d[2]
    BY <1>1, <1>2, <1>3, <1>4, <2>1 DEF BeforeNext
  <2> QED BY <1>2, <2>1 DEF BeforeNext, OfCall
<1> QED BY <1>6, <1>7, <1>8 DEF Stream

\* The server follows the client, and waits with it for the answer.
LEMMA TakenKept ==
    ASSUME IInv, PInv, NEW c \in Conns, Serves(c), UNCHANGED clientVars,
           RecvRequest(c) \/ ReadArgument(c), NEW t \in Threads, t = c[1]
    PROVE  /\ Stream(c)' /\ Goodbye(c)'
           /\ InSession(t) /\ Conn(t) = c =>
                 NothingLost(t)' /\ OneAwaited(t)' /\ Answer(t)'
<1> PICK q, r : q = c2s[c] /\ r = c2s'[c]
  OBVIOUS
<1> PICK y, m : y = q[1].call /\ m = Need(q[1])
  OBVIOUS
<1>1. /\ c \in Calls /\ q # <<>> /\ q \in Seq(ClientPackets)
      /\ r = Tail(q) /\ Executed' = Executed /\ session'[c] = "arguments"
      /\ session[c] \in {"command", "arguments"} /\ s2c'[c] = s2c[c]
      /\ request'[c].call = y /\ ServerNeed(c)' = m /\ OfCall(q[1])
      /\ UNCHANGED <<pc, calls, fn, cursor, handler>>
  BY ServeFrame, Served, Taken
<1>2. /\ 1 \in DOMAIN q /\ Len(q) \in Nat /\ Len(r) = Len(q) - 1
      /\ \A i \in DOMAIN r : /\ i \in Nat /\ i + 1 \in DOMAIN q /\ i + 1 > 1
                             /\ r[i] = q[i + 1]
      /\ DOMAIN r = 1..(Len(q) - 1)
      /\ r = <<>> <=> Len(q) = 1
  BY <1>1, Tails
<1>3. Goodbye(c)'
  <2>1. Goodbye(c)
    BY <1>1, Served
  <2>2. (\E i \in DOMAIN r : r[i] = Stop) => (\E i \in DOMAIN q : q[i] = Stop)
    BY <1>2
  <2> QED BY <1>1, <2>1, <2>2 DEF Goodbye, Serving
<1>4. ASSUME InSession(t), Conn(t) = c
      PROVE  NothingLost(t)' /\ OneAwaited(t)' /\ Answer(t)'
  <2>1. /\ NothingLost(t) /\ OneAwaited(t) /\ Answer(t)
        /\ Conn(t)' = c /\ Call(t)' = Call(t) /\ InSession(t)'
        /\ LastNumber(t)' = LastNumber(t) /\ ClientNeed(t)' = ClientNeed(t)
        /\ ResponseOf(t)' = ResponseOf(t) /\ ResultOf(t)' = ResultOf(t)
        /\ Alive(c)' = Alive(c)
    BY <1>1, <1>4, Served, ServeNumbers
  <2>2. NothingLost(t)'
    <3> SUFFICES ASSUME Alive(c) PROVE NothingLost(t)'
      BY <2>1 DEF NothingLost
    <3>1. q[Len(q)] = Stop \/ LastSent(t, q[Len(q)].call, Need(q[Len(q)]))
      BY <1>1, <1>4, <2>1 DEF NothingLost, Serving
    <3>2. CASE r # <<>>
      <4>1. r[Len(r)] = q[Len(q)]
        BY <1>2, <3>2
      <4> QED BY <1>1, <2>1, <3>1, <3>2, <4>1 DEF NothingLost, LastSent, Need
    <3>3. CASE r = <<>>
      <4>1. LastSent(t, y, m)
        BY <1>1, <1>2, <3>1, <3>3, Packets
      <4> QED BY <1>1, <2>1, <3>3, <4>1 DEF NothingLost, LastSent
    <3> QED BY <3>2, <3>3
  <2>3. OneAwaited(t)'
    <3>1. ASSUME NEW i \in DOMAIN q, q[i].type = "request", q[i].fn.wait
          PROVE  Awaits(t, q[i].call, q[i].fn)
      BY <1>1, <1>4, <2>1, <3>1 DEF OneAwaited, Serving
    <3>2. \A x, f : Awaits(t, x, f) => Awaits(t, x, f)'
      BY <1>1, <1>4, <2>1 DEF Awaits
    <3>3. request'[c].fn.wait => Awaits(t, y, request'[c].fn)
      <4>1. CASE q[1].type = "request" /\ request'[c].fn = q[1].fn
        BY <1>2, <3>1, <4>1
      <4>2. CASE session[c] = "arguments" /\ request'[c] = request[c]
        BY <1>1, <1>4, <2>1, <4>2 DEF OneAwaited, Serving
      <4> QED BY <4>1, <4>2, Taken
    <3>4. ASSUME NEW i \in DOMAIN r, r[i].type = "request", r[i].fn.wait
          PROVE  Awaits(t, r[i].call, r[i].fn)'
      BY <1>2, <3>1, <3>2, <3>4
    <3> QED BY <1>1, <2>1, <3>2, <3>3, <3>4, ZenonT(30) DEF OneAwaited
  <2>4. Answer(t)'
    <3>1. Owed(c)' = 0 /\ Owed(c) = 0
      BY <1>1 DEF Owed
    <3> QED BY <1>1, <1>4, <2>1, <3>1, ServeNumbers DEF Answer
  <2> QED BY <2>2, <2>3, <2>4
<1> QED BY <1>3, <1>4, TakenStream

\* The goodbye is the last packet, and everything before it was executed.
LEMMA StopKept ==
    ASSUME IInv, PInv, NEW c \in Conns, Serves(c), UNCHANGED clientVars,
           RecvStop(c), NEW t \in Threads, t = c[1]
    PROVE  /\ Stream(c)' /\ Goodbye(c)'
           /\ InSession(t) /\ Conn(t) = c =>
                 NothingLost(t)' /\ OneAwaited(t)' /\ Answer(t)'
<1>1. /\ c \in Calls /\ Executed' = Executed /\ s2c' = s2c
      /\ session[c] = "command" /\ session'[c] = "bye"
      /\ c2s[c] # <<>> /\ c2s[c] \in Seq(ClientPackets) /\ c2s[c][1] = Stop
      /\ UNCHANGED <<pc, calls, fn, cursor, handler>>
  <2>1. c \in Calls /\ ServerTyped /\ c2s[c] \in Seq(ClientPackets)
    BY ServeFrame, Served
  <2>2. c2s[c] # <<>> /\ Head(c2s[c]) = Stop
    BY DEF RecvStop, SrvRecv
  <2>3. c2s[c][1] = Stop
    BY <2>1, <2>2, Tails
  <2>4. UNCHANGED <<s2c, log>> /\ session[c] = "command" /\ session'[c] = "bye"
    BY <2>1 DEF RecvStop, ServerTyped
  <2> QED BY <2>1, <2>2, <2>3, <2>4, ServeFrame DEF Executed
<1>2. /\ QueueOrder(c) /\ Goodbye(c) /\ 1 \in DOMAIN c2s[c]
  BY <1>1, Served, Tails DEF Serving
<1>3. pc[t] \in {"bye", "exited"} /\ ExecutedUpTo(c, calls[t])
  <2>1. pc[t] \in {"bye", "exited"}
    BY <1>1, <1>2 DEF Goodbye, Serving
  <2>2. Expected(c, Stop)
    BY <1>1, <1>2 DEF QueueOrder
  <2> QED BY <1>1, <2>1, <2>2, Packets DEF Expected
<1>4. Stream(c)'
  BY <1>1 DEF Stream, Serving
<1>5. Goodbye(c)'
  <2>1. ExecutedUpTo(c, calls[t])'
    BY <1>1, <1>3 DEF ExecutedUpTo
  <2> QED BY <1>1, <1>3, <2>1 DEF Goodbye, Serving
<1>6. ASSUME InSession(t), Conn(t) = c
      PROVE  NothingLost(t)' /\ OneAwaited(t)' /\ Answer(t)'
  <2>1. /\ Answer(t) /\ Conn(t)' = c /\ Call(t)' = Call(t)
        /\ ResponseOf(t)' = ResponseOf(t) /\ ResultOf(t)' = ResultOf(t)
    BY <1>1, <1>6, Served, ServeNumbers
  <2>2. Owed(c)' = 0 /\ Owed(c) = 0
    BY <1>1 DEF Owed
  <2>3. NothingLost(t)' /\ OneAwaited(t)'
    BY <1>1, <2>1 DEF NothingLost, OneAwaited, Serving
  <2> QED BY <1>1, <1>6, <2>1, <2>2, <2>3, ServeNumbers DEF Answer
<1> QED BY <1>4, <1>5, <1>6

\* The answer to the goodbye is the last thing the server writes.
LEMMA ByeKept ==
    ASSUME IInv, PInv, NEW c \in Conns, Serves(c), UNCHANGED clientVars,
           SendBye(c), NEW t \in Threads, t = c[1]
    PROVE  /\ Stream(c)' /\ Goodbye(c)'
           /\ InSession(t) /\ Conn(t) = c =>
                 NothingLost(t)' /\ OneAwaited(t)' /\ Answer(t)'
<1>1. /\ c \in Calls /\ Executed' = Executed
      /\ session[c] = "bye" /\ session'[c] = "close"
      /\ s2c'[c] = s2c[c] \/ s2c'[c] = Append(s2c[c], Bye)
      /\ s2c[c] \in Seq(ServerPackets)
      /\ UNCHANGED <<pc, calls, fn, cursor, handler>>
  <2>1. c \in Calls /\ ServerTyped /\ ConnectionTyped
          /\ s2c[c] \in Seq(ServerPackets)
    BY ServeFrame, Served
  <2>2. s2c' = s2c \/ s2c' = [s2c EXCEPT ![c] = Append(@, Bye)]
    BY DEF SendBye, SrvSend
  <2> QED BY <2>1, <2>2, ServeFrame
          DEF SendBye, ServerTyped, ConnectionTyped, Executed
<1>2. Goodbye(c)
  BY <1>1, Served
<1>3. pc[t] \in {"bye", "exited"} /\ ExecutedUpTo(c, calls[t])
  BY <1>1, <1>2 DEF Goodbye
<1>4. Stream(c)' /\ Goodbye(c)'
  BY <1>1, <1>3 DEF Stream, Serving, Goodbye
<1>5. ASSUME InSession(t), Conn(t) = c
      PROVE  NothingLost(t)' /\ OneAwaited(t)' /\ Answer(t)'
  <2>1. Answer(t) /\ Conn(t)' = c
    BY <1>1, <1>5, Served, ServeNumbers
  <2>2. pc[t] = "bye"
    BY <1>3, <1>5 DEF InSession
  <2>3. NothingLost(t)' /\ OneAwaited(t)'
    BY <1>1, <2>1 DEF NothingLost, OneAwaited, Serving
  <2>4. \A i \in DOMAIN s2c[c] : s2c[c][i] = Bye
    BY <1>5, <2>1, <2>2 DEF Answer
  <2>5. \A i \in DOMAIN s2c'[c] : s2c'[c][i] = Bye
    BY <1>1, <2>4, Appends, ServerSends, SMTT(30)
  <2>6. ExecutedUpTo(c, calls[t])'
    BY <1>1, <1>3 DEF ExecutedUpTo
  <2> QED BY <1>1, <2>1, <2>2, <2>3, <2>5, <2>6 DEF Answer
<1> QED BY <1>4, <1>5

\* Afterwards everything up to that call is executed.
LEMMA RunExecuted ==
    ASSUME IInv, PInv, NEW c \in Conns, Serves(c), UNCHANGED clientVars,
           RunFunction(c), NEW x, x = request[c].call
    PROVE  Executed' = Executed \cup {x} /\ ExecutedUpTo(c, x[2])'
<1> PICK t : t = c[1]
  OBVIOUS
<1>1. /\ x \in Calls /\ x[2] \in Nat /\ x = <<t, x[2]>>
      /\ c[2] <= x[2] /\ c[2] \in Nat
      /\ ExecutedUpTo(c, x[2] - 1) /\ ServerTyped
  BY ServeFrame, Served, Ran, CallPairs DEF RunFunction
<1>2. Executed' = Executed \cup {x}
  <2>1. log' = Append(log, x) /\ Len(log) + 1 \in DOMAIN log'
          /\ log'[Len(log) + 1] = x
    <3>1. log' = Append(log, x)
      BY DEF RunFunction
    <3> QED BY <1>1, <3>1, Appends DEF ServerTyped
  <2>2. x \in Executed'
    BY <2>1 DEF Executed
  <2> QED BY <1>1, <2>2, ServeFrame
<1>3. ExecutedUpTo(c, x[2])'
  <2>1. ASSUME NEW k \in c[2]..x[2] PROVE <<c[1], k>> \in Executed'
    <3>1. k = x[2] \/ k \in c[2]..(x[2] - 1)
      BY <1>1
    <3> QED BY <1>1, <1>2, <3>1 DEF ExecutedUpTo
  <2> QED BY <1>1, <2>1 DEF ExecutedUpTo
<1> QED BY <1>2, <1>3

\* A function that is run was asked for by the next call, and if it has a response
\* its thread waits for it.
LEMMA RunStream ==
    ASSUME IInv, PInv, NEW c \in Conns, Serves(c), UNCHANGED clientVars,
           RunFunction(c)
    PROVE  Stream(c)'
<1> PICK q, x, t : q = c2s[c] /\ x = request[c].call /\ t = c[1]
  OBVIOUS
<1>1. /\ c \in Calls /\ t \in Threads /\ q \in Seq(ClientPackets)
      /\ c2s'[c] = q /\ calls' = calls
      /\ session[c] = "arguments" /\ AllArgumentsRead(c)
      /\ \/ session'[c] = "respond" /\ request'[c] = request[c] /\ done'[c] = 0
         \/ session'[c] = "command"
      /\ ServerTyped
  <2>1. c \in Calls /\ ServerTyped /\ q \in Seq(ClientPackets)
    BY ServeFrame, Served
  <2> QED BY <2>1, ServeFrame, CallPairs DEF RunFunction, EndRequest, ServerTyped,
             netVars
<1>2. /\ x \in Calls /\ x[1] = t /\ x[2] \in Nat /\ x = <<t, x[2]>>
      /\ ServerNeed(c) = 0 /\ Numbered(c, x, 0) /\ x \notin Executed
      /\ c[2] <= x[2] /\ c[2] \in Nat
      /\ ExecutedUpTo(c, x[2] - 1)
      /\ \A i \in DOMAIN q : OfCall(q[i]) => q[i].call[2] > x[2]
  BY <1>1, Ran, CallPairs
<1>3. /\ QueueOrder(c) /\ RequestOrder(c) /\ BeforeNext(c) /\ HasRequest(c)
  BY <1>1, Served DEF Serving, HasRequest
<1>4. Executed' = Executed \cup {x}
  BY RunExecuted
<1>5. /\ \A n : ExecutedUpTo(c, n) => ExecutedUpTo(c, n)'
      /\ \A y, n : Numbered(c, y, n)' = Numbered(c, y, n)
      /\ \A y, n, p : Continues(y, n, p)' = Continues(y, n, p)
      /\ \A e \in Calls : Used(e)' = Used(e)
  BY <1>1, ServeNumbers
<1>6. ExecutedUpTo(c, x[2])'
  BY RunExecuted
<1>7. q # <<>> => Expected(c, q[1])'
  <2> SUFFICES ASSUME q # <<>> PROVE Expected(c, q[1])'
    OBVIOUS
  <2>1. Continues(x, 0, q[1])
    BY <1>1, <1>2, <1>3 DEF QueueOrder, Expected
  <2>2. CASE session'[c] = "respond" /\ request'[c] = request[c] /\ done'[c] = 0
    <3>1. ServerNeed(c)' = 0 /\ Continues(x, 0, q[1])'
      BY <1>5, <2>1, <2>2 DEF ServerNeed
    <3> QED BY <2>2, <3>1 DEF Expected
  <2>3. CASE session'[c] = "command"
    <3>1. CASE q[1] = Stop /\ x[2] = calls[t]
      BY <1>1, <1>2, <1>6, <2>3, <3>1 DEF Expected
    <3>2. CASE q[1].type = "request" /\ q[1].call[2] = x[2] + 1
      <4>1. q[1].call[2] - 1 = x[2]
        BY <1>2, <3>2
      <4> QED BY <1>6, <2>3, <3>2, <4>1 DEF Expected
    <3> QED BY <1>2, <2>1, <3>1, <3>2 DEF Continues
  <2> QED BY <1>1, <2>2, <2>3
<1>8. QueueOrder(c)'
  <2>1. ASSUME NEW i \in DOMAIN q, OfCall(q[i])
        PROVE  q[i].call \notin Executed'
    <3>1. q[i].call # x /\ q[i].call \notin Executed
      BY <1>2, <1>3, <2>1 DEF QueueOrder
    <3> QED BY <1>4, <3>1
  <2> QED BY <1>1, <1>3, <1>5, <1>7, <2>1 DEF QueueOrder, OfCall, Need, Before
<1>9. RequestOrder(c)'
  <2> SUFFICES ASSUME session'[c] = "respond", request'[c] = request[c], done'[c] = 0
               PROVE  RequestOrder(c)'
    BY <1>1 DEF RequestOrder, HasRequest
  <2>1. /\ ServerNeed(c)' = 0 /\ Numbered(c, x, 0)' /\ ExecutedUpTo(c, x[2] - 1)'
        /\ x \in Executed'
    BY <1>2, <1>4, <1>5 DEF ServerNeed
  <2> QED BY <2>1 DEF RequestOrder
<1>10. BeforeNext(c)'
  <2>1. HasRequest(c)' => request'[c] = request[c]
    BY <1>1 DEF HasRequest
  <2>2. ASSUME NEW d \in Calls, d[1] = c[1], c[2] < d[2], Used(d)'
        PROVE  /\ x[2] < d[2]
               /\ \A i \in DOMAIN q : OfCall(q[i]) => q[i].call[2] < d[2]
    BY <1>1, <1>3, <1>5, <2>2 DEF BeforeNext
  <2> QED BY <1>1, <2>1, <2>2 DEF BeforeNext, OfCall
<1> QED BY <1>8, <1>9, <1>10 DEF Stream

\* Of a function that is run, the other parts of the invariant.
LEMMA RunKept ==
    ASSUME IInv, PInv, NEW c \in Conns, Serves(c), UNCHANGED clientVars,
           RunFunction(c), NEW t \in Threads, t = c[1]
    PROVE  /\ Stream(c)' /\ Goodbye(c)'
           /\ InSession(t) /\ Conn(t) = c =>
                 NothingLost(t)' /\ OneAwaited(t)' /\ Answer(t)'
<1> PICK q, x, f : q = c2s[c] /\ x = request[c].call /\ f = request[c].fn
  OBVIOUS
<1>1. /\ c \in Calls /\ c2s'[c] = q /\ s2c'[c] = s2c[c]
      /\ session[c] = "arguments" /\ AllArgumentsRead(c)
      /\ \/ /\ session'[c] = "respond" /\ request'[c] = request[c] /\ done'[c] = 0
            /\ f.wait
         \/ session'[c] = "command" /\ ~f.wait
      /\ UNCHANGED <<pc, calls, fn, cursor, handler>>
      /\ Executed \subseteq Executed'
  <2>1. c \in Calls /\ ServerTyped
    BY ServeFrame, Served
  <2> QED BY <2>1, ServeFrame, ServeNumbers, CallPairs
          DEF RunFunction, EndRequest, ServerTyped, netVars
<1>2. /\ x \in Calls /\ x[1] = t /\ ServerNeed(c) = 0
      /\ pc[t] = "send" => x[2] < calls[t]
      /\ c[2] \in Nat /\ x[2] \in Nat
      /\ x = <<t, x[2]>>
  BY <1>1, Ran, CallPairs
<1>3. Stream(c)' /\ Stream(c)
  BY <1>1, RunStream, Served
<1>4. Goodbye(c)'
  <2>1. Goodbye(c)
    BY <1>1, Served
  <2> QED BY <1>1, <2>1 DEF Goodbye, Serving
<1>5. ASSUME InSession(t), Conn(t) = c
      PROVE  NothingLost(t)' /\ OneAwaited(t)' /\ Answer(t)'
  <2>1. /\ NothingLost(t) /\ OneAwaited(t) /\ Answer(t)
        /\ Conn(t)' = c /\ Call(t)' = Call(t) /\ InSession(t)'
        /\ LastNumber(t)' = LastNumber(t) /\ ClientNeed(t)' = ClientNeed(t)
        /\ ResponseOf(t)' = ResponseOf(t) /\ ResultOf(t)' = ResultOf(t)
        /\ Alive(c)' = Alive(c)
        /\ \A n : ExecutedUpTo(c, n) => ExecutedUpTo(c, n)'
    BY <1>1, <1>5, Served, ServeNumbers
  <2>2. NothingLost(t)'
    <3> SUFFICES ASSUME Alive(c) PROVE NothingLost(t)'
      BY <2>1 DEF NothingLost
    <3>1. CASE q # <<>>
      <4>1. q[Len(q)] = Stop \/ LastSent(t, q[Len(q)].call, Need(q[Len(q)]))
        BY <1>1, <1>5, <2>1, <3>1 DEF NothingLost, Serving
      <4> QED BY <1>1, <2>1, <3>1, <4>1 DEF NothingLost, LastSent, Need
    <3>2. CASE q = <<>>
      <4>1. LastSent(t, x, 0)
        BY <1>1, <1>2, <1>5, <2>1, <3>2 DEF NothingLost, Serving, HasRequest
      <4>2. CASE session'[c] = "respond" /\ request'[c] = request[c] /\ done'[c] = 0
        <5>1. ServerNeed(c)' = 0
          BY <4>2 DEF ServerNeed
        <5> QED BY <1>1, <2>1, <3>2, <4>1, <4>2, <5>1 DEF NothingLost, LastSent
      <4>3. CASE session'[c] = "command"
        <5>1. x[2] = LastNumber(t) /\ ClientNeed(t) = 0
          BY <4>1 DEF LastSent
        <5>2. ExecutedUpTo(c, x[2])'
          BY RunExecuted
        <5>3. ClientNeed(t)' = 0 /\ ExecutedUpTo(c, LastNumber(t))'
          BY <2>1, <5>1, <5>2
        <5>4. ~HasRequest(c)'
          BY <4>3 DEF HasRequest
        <5> QED BY <1>1, <2>1, <3>2, <4>3, <5>3, <5>4 DEF NothingLost
      <4> QED BY <1>1, <4>2, <4>3
    <3> QED BY <3>1, <3>2
  <2>3. OneAwaited(t)'
    <3>1. ASSUME NEW i \in DOMAIN q, q[i].type = "request", q[i].fn.wait
          PROVE  Awaits(t, q[i].call, q[i].fn)
      BY <1>1, <1>5, <2>1, <3>1 DEF OneAwaited, Serving
    <3>2. \A y, g : Awaits(t, y, g) => Awaits(t, y, g)'
      BY <1>1, <1>5, <2>1 DEF Awaits
    <3>3. f.wait => Awaits(t, x, f)
      BY <1>1, <1>5, <2>1 DEF OneAwaited, Serving
    <3>4. f.wait => /\ x = Call(t) /\ f = fn[t] /\ pc[t] = "response"
                    /\ 0 <= fn[t].outs
      <4>1. f.outs \in Nat
        BY <1>1, Served DEF HasRequest
      <4>2. calls[t] \in Nat
        BY Types DEF ClientTyped
      <4> QED BY <1>2, <3>3, <4>1, <4>2 DEF Awaits, Call
    <3>5. session'[c] # "arguments"
      BY <1>1
    <3>6. session'[c] = "respond" => /\ request'[c].call = Call(t)
                                     /\ request'[c].fn = fn[t] /\ pc[t] = "response"
                                     /\ done'[c] <= fn[t].outs
      BY <1>1, <3>4
    <3> QED BY <1>1, <2>1, <3>1, <3>2, <3>5, <3>6 DEF OneAwaited
  <2>4. Answer(t)'
    <3>1. Owed(c) = 0
      BY <1>1 DEF Owed
    <3>2. CASE session'[c] = "command"
      <4>1. Owed(c)' = 0
        BY <3>2 DEF Owed
      <4> QED BY <1>1, <1>5, <2>1, <3>1, <3>2, <4>1 DEF Answer
    <3>3. CASE /\ session'[c] = "respond" /\ request'[c] = request[c]
               /\ done'[c] = 0 /\ f.wait
      <4>1. Awaits(t, x, f) /\ f.outs \in Nat
        BY <1>1, <1>5, <2>1, <3>3, Served DEF OneAwaited, Serving, HasRequest
      <4>2. calls[t] \in Nat
        BY Types DEF ClientTyped
      <4>3. pc[t] = "response" /\ s2c[c] = <<>> /\ f = fn[t]
        BY <1>2, <1>5, <4>1, <4>2 DEF Awaits
      <4>4. Owed(c)' = f.outs + 1
        BY <3>3, <4>1 DEF Owed
      <4>5. Len(s2c'[c]) + Owed(c)' <= fn'[t].outs + 1
        BY <1>1, <4>1, <4>3, <4>4
      <4> QED BY <1>1, <2>1, <3>3, <4>3, <4>5 DEF Answer
    <3> QED BY <1>1, <3>2, <3>3
  <2> QED BY <2>2, <2>3, <2>4
<1> QED BY <1>3, <1>4, <1>5

\* The response is written packet by packet, and is all that is written.
LEMMA ResponseKept ==
    ASSUME IInv, PInv, NEW c \in Conns, Serves(c), UNCHANGED clientVars,
           SendResponse(c), NEW t \in Threads, t = c[1]
    PROVE  /\ Stream(c)' /\ Goodbye(c)'
           /\ InSession(t) /\ Conn(t) = c =>
                 NothingLost(t)' /\ OneAwaited(t)' /\ Answer(t)'
<1> PICK q, x, f, p, s : /\ q = c2s[c] /\ x = request[c].call /\ f = request[c].fn
                         /\ p = ResponsePacket(c) /\ s = s2c'[c]
  OBVIOUS
<1>1. /\ c \in Calls /\ c2s'[c] = q /\ Executed' = Executed
      /\ session[c] = "respond"
      /\ \/ /\ session'[c] = "respond" /\ request'[c] = request[c]
            /\ done'[c] = done[c] + 1 /\ done[c] < f.outs
         \/ session'[c] = "command" /\ done[c] = f.outs
      /\ (Alive(c) /\ s = Append(s2c[c], p)) \/ (~Alive(c) /\ s = s2c[c])
      /\ UNCHANGED <<pc, calls, fn, cursor, handler>>
      /\ s2c[c] \in Seq(ServerPackets) /\ p \in ServerPackets
      /\ x \in Calls /\ f.outs \in Nat /\ done[c] \in Nat
  <2>1. c \in Calls /\ ServerTyped /\ ConnectionTyped
          /\ s2c[c] \in Seq(ServerPackets)
    BY ServeFrame, Served
  <2>2. session[c] = "respond" /\ UNCHANGED <<c2s, log>>
    BY DEF SendResponse
  <2>3. x \in Calls /\ f.outs \in Nat /\ done[c] \in Nat /\ request[c] \in Requests
    BY <2>1, <2>2, Served DEF HasRequest, ServerTyped, IInv, RequestShape
  <2>4. \/ Alive(c) /\ s2c' = [s2c EXCEPT ![c] = Append(@, p)]
        \/ ~Alive(c) /\ s2c' = s2c
    BY DEF SendResponse, SrvSend
  <2>5. (Alive(c) /\ s = Append(s2c[c], p)) \/ (~Alive(c) /\ s = s2c[c])
    BY <2>1, <2>4 DEF ConnectionTyped
  <2>6. p \in ServerPackets
    BY <2>3, ServerSends
  <2>7. \/ /\ session'[c] = "respond" /\ request'[c] = request[c]
           /\ done'[c] = done[c] + 1 /\ done[c] < f.outs
        \/ session'[c] = "command" /\ done[c] = f.outs
    BY <2>1, <2>2 DEF SendResponse, EndRequest, ServerTyped
  <2>8. Executed' = Executed
    BY <2>2 DEF Executed
  <2> QED BY <2>1, <2>2, <2>3, <2>5, <2>6, <2>7, <2>8, ServeFrame
<1>2. /\ QueueOrder(c) /\ RequestOrder(c) /\ BeforeNext(c) /\ HasRequest(c)
      /\ ServerNeed(c) = 0
  BY <1>1, Served DEF Serving, HasRequest, ServerNeed
<1>3. /\ x \in Executed /\ Numbered(c, x, 0) /\ ExecutedUpTo(c, x[2] - 1)
      /\ x[1] = t /\ x[2] \in Nat /\ c[2] \in Nat /\ x = <<t, x[2]>>
  <2>1. x \in Executed /\ Numbered(c, x, 0) /\ ExecutedUpTo(c, x[2] - 1)
    BY <1>1, <1>2 DEF RequestOrder
  <2>2. x[1] = t /\ x[2] \in Nat /\ c[2] \in Nat
    BY <1>1, <2>1, CallPairs DEF Numbered
  <2> QED BY <1>1, <2>1, <2>2, CallPairs DEF Calls
<1>4. /\ \A n : ExecutedUpTo(c, n)' = ExecutedUpTo(c, n)
      /\ \A y, n : Numbered(c, y, n)' = Numbered(c, y, n)
      /\ \A y, n, m : Continues(y, n, m)' = Continues(y, n, m)
      /\ \A e \in Calls : Used(e)' = Used(e)
      /\ session'[c] = "respond" => ServerNeed(c)' = 0
  BY <1>1, ServeNumbers, CallPairs DEF ExecutedUpTo, ServerNeed
<1>5. ExecutedUpTo(c, x[2])
  <2>1. ASSUME NEW k \in c[2]..x[2] PROVE <<c[1], k>> \in Executed
    <3>1. k = x[2] \/ k \in c[2]..(x[2] - 1)
      BY <1>3
    <3> QED BY <1>3, <3>1 DEF ExecutedUpTo
  <2> QED BY <2>1 DEF ExecutedUpTo
<1>6. Goodbye(c)'
  <2>1. Goodbye(c)
    BY <1>1, Served
  <2> QED BY <1>1, <2>1 DEF Goodbye, Serving
<1>7. Stream(c)'
  <2>1. q # <<>> => Expected(c, q[1])'
    <3> SUFFICES ASSUME q # <<>> PROVE Expected(c, q[1])'
      OBVIOUS
    <3>1. Continues(x, 0, q[1])
      BY <1>1, <1>2 DEF QueueOrder, Expected
    <3>2. CASE session'[c] = "respond" /\ request'[c] = request[c]
      BY <1>4, <3>1, <3>2 DEF Expected
    <3>3. CASE session'[c] = "command"
      <4>1. CASE q[1] = Stop /\ x[2] = calls[t]
        BY <1>1, <1>4, <1>5, <3>3, <4>1 DEF Expected
      <4>2. CASE q[1].type = "request" /\ q[1].call[2] = x[2] + 1
        <5>1. q[1].call[2] - 1 = x[2]
          BY <1>3, <4>2
        <5> QED BY <1>4, <1>5, <3>3, <4>2, <5>1 DEF Expected
      <4> QED BY <1>3, <3>1, <4>1, <4>2 DEF Continues
    <3> QED BY <1>1, <3>2, <3>3
  <2>2. QueueOrder(c)'
    BY <1>1, <1>2, <1>4, <2>1 DEF QueueOrder, OfCall, Need, Before
  <2>3. RequestOrder(c)'
    BY <1>1, <1>3, <1>4 DEF RequestOrder, HasRequest
  <2>4. BeforeNext(c)'
    BY <1>1, <1>2, <1>4 DEF BeforeNext, HasRequest, OfCall
  <2> QED BY <2>2, <2>3, <2>4 DEF Stream
<1>8. ASSUME InSession(t), Conn(t) = c
      PROVE  NothingLost(t)' /\ OneAwaited(t)' /\ Answer(t)'
  <2>1. /\ NothingLost(t) /\ OneAwaited(t) /\ Answer(t)
        /\ Conn(t)' = c /\ Call(t)' = Call(t) /\ InSession(t)'
        /\ LastNumber(t)' = LastNumber(t) /\ ClientNeed(t)' = ClientNeed(t)
        /\ ResponseOf(t)' = ResponseOf(t) /\ ResultOf(t)' = ResultOf(t)
        /\ Alive(c)' = Alive(c)
    BY <1>1, <1>8, Served, ServeNumbers
  <2>2. /\ x = Call(t) /\ f = fn[t] /\ pc[t] \in {"response", "results"}
        /\ done[c] <= f.outs
    BY <1>1, <1>8, <2>1 DEF OneAwaited, Serving
  <2>3. NothingLost(t)'
    <3> SUFFICES ASSUME Alive(c) PROVE NothingLost(t)'
      BY <2>1 DEF NothingLost
    <3>1. CASE q # <<>>
      <4>1. q[Len(q)] = Stop \/ LastSent(t, q[Len(q)].call, Need(q[Len(q)]))
        BY <1>1, <1>8, <2>1, <3>1 DEF NothingLost, Serving
      <4> QED BY <1>1, <2>1, <3>1, <4>1 DEF NothingLost, LastSent, Need
    <3>2. CASE q = <<>>
      <4>1. LastSent(t, x, 0)
        BY <1>1, <1>2, <1>8, <2>1, <3>2 DEF NothingLost, Serving
      <4>2. CASE session'[c] = "respond" /\ request'[c] = request[c]
        BY <1>1, <1>4, <2>1, <3>2, <4>1, <4>2 DEF NothingLost, LastSent
      <4>3. CASE session'[c] = "command"
        <5>1. ClientNeed(t)' = 0 /\ ExecutedUpTo(c, LastNumber(t))'
          BY <1>4, <1>5, <2>1, <4>1 DEF LastSent
        <5>2. ~HasRequest(c)'
          BY <4>3 DEF HasRequest
        <5> QED BY <1>1, <2>1, <3>2, <4>3, <5>1, <5>2 DEF NothingLost
      <4> QED BY <1>1, <4>2, <4>3
    <3> QED BY <3>1, <3>2
  <2>4. OneAwaited(t)'
    <3>1. ASSUME NEW i \in DOMAIN q, q[i].type = "request", q[i].fn.wait
          PROVE  FALSE
      <4>1. Awaits(t, q[i].call, q[i].fn)
        BY <1>1, <1>8, <2>1, <3>1 DEF OneAwaited, Serving
      <4>2. OfCall(q[i]) /\ q[i].call \notin Executed /\ q[i].call[1] = t
        BY <1>1, <1>2, <3>1 DEF OfCall, QueueOrder, Numbered
      <4>3. q[i].call \in Calls
        <5>1. q[i] \in ClientPackets
          BY <1>1, <3>1, Served
        <5> QED BY <3>1, <5>1, Packets
      <4>4. q[i].call = Call(t)
        BY <4>1, <4>2, <4>3, CallPairs DEF Awaits, Call, Calls
      <4> QED BY <1>3, <2>2, <4>2, <4>4
    <3>2. session'[c] = "respond" => /\ request'[c].call = Call(t)
                                     /\ request'[c].fn = fn[t]
                                     /\ done'[c] <= fn[t].outs
      <4>1. session'[c] = "respond" => request'[c] = request[c]
              /\ done'[c] <= f.outs
        BY <1>1
      <4> QED BY <2>2, <4>1
    <3> QED BY <1>1, <2>1, <2>2, <3>1, <3>2 DEF OneAwaited
  <2>5. Answer(t)'
    <3>1. /\ p = IF done[c] = 0 THEN ResponseOf(t) ELSE ResultOf(t)
      BY <2>2 DEF ResponsePacket, ResponseOf, ResultOf
    <3>2. Owed(c) = f.outs - done[c] + 1 /\ Owed(c)' = f.outs - done[c]
      <4>1. Owed(c) = f.outs - done[c] + 1
        BY <1>1 DEF Owed
      <4>2. CASE session'[c] = "command" /\ done[c] = f.outs
        BY <1>1, <4>1, <4>2 DEF Owed
      <4>3. CASE /\ session'[c] = "respond" /\ request'[c] = request[c]
                 /\ done'[c] = done[c] + 1
        <5>1. Owed(c)' = f.outs - (done[c] + 1) + 1
          BY <4>3 DEF Owed
        <5> QED BY <1>1, <4>1, <5>1
      <4> QED BY <1>1, <4>2, <4>3
    <3> PICK l : l = Len(s2c[c])
      OBVIOUS
    <3>3. /\ l \in Nat /\ (s2c[c] = <<>> <=> l = 0) /\ DOMAIN s2c[c] = 1..l
          /\ Alive(c) => /\ Len(s) = l + 1 /\ s # <<>>
                         /\ \A i \in DOMAIN s :
                               \/ i \in DOMAIN s2c[c] /\ s[i] = s2c[c][i]
                               \/ i = l + 1 /\ s[i] = p
                         /\ 1 \in DOMAIN s
      BY <1>1, Appends
    <3>4. CASE pc[t] = "response"
      <4>1. /\ s2c[c] # <<>> => s2c[c][1] = ResponseOf(t)
            /\ \A i \in DOMAIN s2c[c] : i > 1 => s2c[c][i] = ResultOf(t)
            /\ l + Owed(c) <= f.outs + 1
            /\ Alive(c) /\ done[c] > 0 => s2c[c] # <<>>
        BY <1>1, <1>8, <2>1, <2>2, <3>4 DEF Answer
      <4>2. Alive(c) => (done[c] = 0 <=> l = 0)
        BY <1>1, <3>2, <3>3, <4>1
      <4>3. /\ s # <<>> => s[1] = ResponseOf(t)
            /\ \A i \in DOMAIN s : i > 1 => s[i] = ResultOf(t)
            /\ Len(s) + Owed(c)' <= f.outs + 1
            /\ Alive(c) => s # <<>>
        <5>1. CASE Alive(c)
          <6>1. s[1] = ResponseOf(t)
            BY <3>1, <3>3, <4>1, <4>2, <5>1
          <6>2. ASSUME NEW i \in DOMAIN s, i > 1 PROVE s[i] = ResultOf(t)
            BY <3>1, <3>3, <4>1, <4>2, <5>1, <6>2
          <6>3. Len(s) + Owed(c)' <= f.outs + 1
            BY <1>1, <3>2, <3>3, <4>1, <5>1, SMTT(30)
          <6> QED BY <3>3, <5>1, <6>1, <6>2, <6>3
        <5>2. CASE ~Alive(c)
          <6>1. s = s2c[c]
            BY <1>1, <5>2
          <6>2. Len(s) + Owed(c)' <= f.outs + 1
            BY <1>1, <3>2, <3>3, <4>1, <6>1
          <6> QED BY <4>1, <5>2, <6>1, <6>2
        <5> QED BY <5>1, <5>2
      <4> QED BY <1>1, <1>3, <2>1, <2>2, <3>4, <4>3 DEF Answer
    <3>5. CASE pc[t] = "results"
      <4>1. /\ \A i \in DOMAIN s2c[c] : s2c[c][i] = ResultOf(t)
            /\ cursor[t] \in 1..f.outs /\ l + Owed(c) <= cursor[t]
        BY <1>1, <1>8, <2>1, <2>2, <3>5 DEF Answer
      <4>2. done[c] # 0
        BY <1>1, <3>2, <3>3, <4>1
      <4>3. /\ \A i \in DOMAIN s : s[i] = ResultOf(t)
            /\ Len(s) + Owed(c)' <= cursor[t]
        <5>1. CASE Alive(c)
          BY <1>1, <3>1, <3>2, <3>3, <4>1, <4>2, <5>1, SMTT(30)
        <5>2. CASE ~Alive(c)
          <6>1. s = s2c[c]
            BY <1>1, <5>2
          <6>2. Len(s) + Owed(c)' <= cursor[t]
            <7>1. cursor[t] \in Nat
              BY <1>1, <4>1
            <7> QED BY <1>1, <3>2, <3>3, <4>1, <6>1, <7>1
          <6> QED BY <4>1, <6>1, <6>2
        <5> QED BY <5>1, <5>2
      <4> QED BY <1>1, <1>3, <2>1, <2>2, <3>5, <4>1, <4>3 DEF Answer
    <3> QED BY <2>2, <3>4, <3>5
  <2> QED BY <2>3, <2>4, <2>5
<1> QED BY <1>6, <1>7, <1>8

-----------------------------------------------------------------------------
\* A step of a thread of the server preserves the invariant.
LEMMA SessionKept ==
    ASSUME IInv, PInv, NEW c \in Conns, SessionStep(c), UNCHANGED clientVars
    PROVE  PInv'
<1>1. CASE CommandFails(c) \/ CloseSession(c)
  BY <1>1, EndingKept
<1>2. CASE Serves(c)
  <2> PICK t : t = c[1]
    OBVIOUS
  <2>1. c \in Calls /\ t \in Threads
    BY <1>2, ServeFrame
  <2>2. /\ Stream(c)' /\ Goodbye(c)'
        /\ InSession(t) /\ Conn(t) = c =>
              NothingLost(t)' /\ OneAwaited(t)' /\ Answer(t)'
    BY <1>2, <2>1, TakenKept, StopKept, RunKept, ResponseKept, ByeKept DEF Serves
  <2>3. Own(t)'
    <3>1. ThreadInv(t)'
      BY <1>2, <2>1, <2>2, ServeClient, ServeAside DEF ThreadInv
    <3>2. ASSUME NEW d \in Calls, d[1] = t PROVE ConnectionInv(d)'
      BY <1>2, <2>1, <2>2, <3>2, ServeClient, ServeElsewhere DEF ConnectionInv
    <3> QED BY <3>1, <3>2 DEF Own
  <2>4. ASSUME NEW u \in Threads, u # t PROVE Own(u)'
    BY <1>2, <2>4, ServeQuiet, QuietThread DEF PInv, Own
  <2>5. Queued' /\ NoStrangers'
    BY <1>2, <2>1, ServeClient
  <2> QED BY <2>3, <2>4, <2>5, CallPairs DEF PInv, Own
<1> QED BY <1>1, <1>2 DEF SessionStep, Serves

=============================================================================
