------------------------------- MODULE Protocol --------------------------------
(***************************************************************************)
(* The inductive invariant behind the protocol properties of Gloip: where  *)
(* a client thread, its connection and its server thread can be together.  *)
(* Each part says one thing, and is needed by the next.                    *)
(***************************************************************************)
EXTENDS Gloip, FiniteSets

\* The call a packet belongs to, and how many arguments follow it.
OfCall(p) == p.type \in {"request", "argument"}
Need(p) == IF p.type = "request" THEN p.fn.args ELSE p.left

\* The number of the last call of which something was written, and how many of
\* its arguments are still to be written.
Unsent(t) ==
    \/ pc[t] \in {"connect", "hello", "welcome"}
    \/ pc[t] = "send" /\ cursor[t] = 0

LastNumber(t) == IF Unsent(t) THEN calls[t] - 1 ELSE calls[t]

ClientNeed(t) ==
    IF pc[t] = "send" /\ cursor[t] > 0 THEN fn[t].args - cursor[t] + 1 ELSE 0

\* The thread has a connection and is past its handshake.
InSession(t) ==
    /\ pc[t] \in {"idle", "send", "response", "results", "stop", "bye"}
    /\ handler[t] # None
    /\ cliOpen[Conn(t)]

\* What the server's thread of c does with packets.
Serving == {"command", "arguments", "respond"}
HasRequest(c) == session[c] \in {"arguments", "respond"}
ServerNeed(c) == IF session[c] = "arguments" THEN request[c].fn.args - done[c] ELSE 0

\* Results the server has still to write, the response header among them.
Owed(c) == IF session[c] = "respond" THEN request[c].fn.outs - done[c] + 1 ELSE 0

\* The server has made the connection its own, or is about to.
Used(c) == srvOpen[c] \/ session[c] # "none"

ExecutedUpTo(c, n) == \A k \in c[2]..n : <<c[1], k>> \in Executed

-----------------------------------------------------------------------------
(***************************************************************************)
(* Connections and their threads.                                          *)
(***************************************************************************)
\* A descriptor is open only if the thread's handler knows it, a handler that is
\* not connected has closed it; a handshake is that of the call under way, and a
\* thread that has said goodbye waits on an open descriptor.
Slot(t) ==
    /\ \A c \in Calls : c[1] = t /\ cliOpen[c] => handler[t] # None /\ Conn(t) = c
    /\ handler[t] # None => /\ Conn(t)[2] <= calls[t]
                            /\ ~handler[t].connected => ~cliOpen[Conn(t)]
    /\ pc[t] = "connect" => handler[t] = None
    /\ pc[t] \in {"hello", "welcome"} => Conn(t) = Call(t)
    /\ pc[t] = "bye" => cliOpen[Conn(t)]

\* Every call but the one under way has returned, and only a call that failed
\* leaves its thread without a connection.
Returned(t) ==
    /\ pc[t] \in InCall => Len(outcome[t]) = calls[t] - 1
    /\ pc[t] \in {"idle", "stop", "bye"} => Len(outcome[t]) = calls[t]
    /\ pc[t] = "exited" => Len(outcome[t]) <= calls[t]
    /\ pc[t] = "idle" /\ calls[t] > 0 /\ ~Usable(handler[t]) =>
          outcome[t][calls[t]] = "failed"
    /\ pc[t] = "connect" /\ calls[t] > 1 =>
          outcome[t][calls[t] - 1] = "failed"

\* A connection is queued once, and is then handed to one session.
Queued ==
    /\ \A i \in DOMAIN backlog : backlog[i] \in Calls =>
          /\ srvOpen[backlog[i]] /\ session[backlog[i]] = "none"
          /\ backlog[i] # peer
          /\ \A j \in DOMAIN backlog : backlog[i] = backlog[j] => i = j
    /\ peer \in Calls =>
          /\ srvOpen[peer] /\ session[peer] = "none"
          /\ listener = "welcome" => c2s[peer] = <<>>

\* A program of another protocol never has a session.
NoStrangers ==
    /\ session[Stranger] = "none"
    /\ c2s[Stranger] \in {<<>>, <<Junk>>}
    /\ listener = "welcome" => peer # Stranger

\* No connection of a thread is later than the one it uses, and the call before
\* the one that opened it, if there was one, failed.
Opened(c) ==
    Used(c) =>
        /\ c[2] <= calls[c[1]]
        /\ c[2] = calls[c[1]] => pc[c[1]] # "connect"
        /\ handler[c[1]] # None => c[2] <= Conn(c[1])[2]
        /\ c[2] > 1 => /\ c[2] - 1 <= Len(outcome[c[1]])
                       /\ outcome[c[1]][c[2] - 1] = "failed"

\* Nothing is on a connection that is not open yet, and nothing but the handshake
\* before it has a session.
Unopened(c) ==
    /\ session[c] = "none" => s2c[c] = <<>> /\ c2s[c] \in {<<>>, <<Hello>>}
    /\ \/ c[2] > calls[c[1]]
       \/ c[2] = calls[c[1]] /\ pc[c[1]] = "connect"
       => c2s[c] = <<>>

\* The two sides of the handshake.
Handshake(t) ==
    /\ pc[t] = "hello" =>
          /\ session[Conn(t)] = "none"
          /\ c2s[Conn(t)] = <<>>
          /\ ~(listener = "welcome" /\ peer = Conn(t))
    /\ pc[t] = "welcome" /\ session[Conn(t)] # "none" =>
          /\ session[Conn(t)] \in {"command", "close", "closed"}
          /\ c2s[Conn(t)] = <<>>
          /\ s2c[Conn(t)] \in {<<>>, <<Welcome>>}
    /\ InSession(t) => session[Conn(t)] # "none"

-----------------------------------------------------------------------------
(***************************************************************************)
(* Requests.                                                               *)
(***************************************************************************)
\* Packet p comes after one of call x that is followed by "need" arguments.
Continues(x, need, p) ==
    IF need > 0
    THEN p.type = "argument" /\ p.call = x /\ p.left = need - 1
    ELSE \/ p = Stop /\ x[2] = calls[x[1]]
         \/ p.type = "request" /\ p.call[1] = x[1] /\ p.call[2] = x[2] + 1

\* Call x may be on connection c, not more than was written of it.
Numbered(c, x, need) ==
    /\ x[1] = c[1]
    /\ x[2] \in c[2]..LastNumber(c[1])
    /\ x[2] = calls[c[1]] => need >= ClientNeed(c[1])

\* Packet p is one the server's thread of c is waiting for.
Expected(c, p) ==
    IF session[c] = "command"
    THEN \/ p = Stop /\ ExecutedUpTo(c, calls[c[1]])
         \/ p.type = "request" /\ ExecutedUpTo(c, p.call[2] - 1)
    ELSE Continues(request[c].call, ServerNeed(c), p)

\* The request packet q is for a later call than packet p, an argument not for an
\* earlier one.
Before(p, q) ==
    IF q.type = "request" THEN p.call[2] < q.call[2] ELSE p.call[2] <= q.call[2]

\* Requests are on a connection whole and in order, each call once, and were not
\* executed.
QueueOrder(c) ==
    LET q == c2s[c] IN
    /\ \A i \in DOMAIN q :
          /\ ~OfCall(q[i]) => q[i] = Stop /\ i = Len(q)
          /\ OfCall(q[i]) => /\ Numbered(c, q[i].call, Need(q[i]))
                             /\ q[i].call \notin Executed
                             /\ i < Len(q) => Continues(q[i].call, Need(q[i]), q[i + 1])
    /\ \A i, j \in DOMAIN q :
          i < j /\ OfCall(q[i]) /\ OfCall(q[j]) => Before(q[i], q[j])
    /\ q # <<>> => Expected(c, q[1])

\* The request under way comes after everything that was executed.
RequestOrder(c) ==
    HasRequest(c) =>
        /\ Numbered(c, request[c].call, ServerNeed(c))
        /\ ExecutedUpTo(c, request[c].call[2] - 1)
        /\ session[c] = "arguments" =>
              done[c] <= request[c].fn.args /\ request[c].call \notin Executed
        /\ session[c] = "respond" => request[c].call \in Executed

\* What is on an older connection is older than the next connection.
BeforeNext(c) ==
    \A d \in Calls : d[1] = c[1] /\ c[2] < d[2] /\ Used(d) =>
        /\ HasRequest(c) => request[c].call[2] < d[2]
        /\ \A i \in DOMAIN c2s[c] :
              OfCall(c2s[c][i]) => c2s[c][i].call[2] < d[2]

Stream(c) ==
    session[c] \in Serving => QueueOrder(c) /\ RequestOrder(c) /\ BeforeNext(c)

\* As long as the connection is alive nothing that was written is missing: the
\* last packet, or else the server, is where the client is.
LastSent(t, x, need) == x[2] = LastNumber(t) /\ need = ClientNeed(t)

NothingLost(t) ==
    LET c == Conn(t)
        q == c2s[c]
    IN  InSession(t) /\ Alive(c) /\ session[c] \in Serving =>
            /\ q # <<>> => \/ q[Len(q)] = Stop
                           \/ LastSent(t, q[Len(q)].call, Need(q[Len(q)]))
            /\ q = <<>> /\ HasRequest(c) =>
                  LastSent(t, request[c].call, ServerNeed(c))
            /\ q = <<>> /\ session[c] = "command" =>
                  ClientNeed(t) = 0 /\ ExecutedUpTo(c, LastNumber(t))

\* The goodbye is said last, and a session ends only with it or with the
\* connection.
Goodbye(c) ==
    /\ /\ session[c] \in Serving
       /\ \E i \in DOMAIN c2s[c] : c2s[c][i] = Stop
       => pc[c[1]] \in {"bye", "exited"}
    /\ session[c] = "bye" =>
          pc[c[1]] \in {"bye", "exited"} /\ ExecutedUpTo(c, calls[c[1]])
    /\ session[c] \in {"close", "closed"} /\ Alive(c) =>
          pc[c[1]] \in {"bye", "exited"}

-----------------------------------------------------------------------------
(***************************************************************************)
(* Responses.                                                              *)
(***************************************************************************)
\* The thread waits, or will, for the answer to call x of function f.
Awaits(t, x, f) ==
    /\ x[2] = calls[t] /\ f = fn[t]
    /\ pc[t] \in {"send", "response"}
    /\ s2c[Conn(t)] = <<>>

\* At most one request that asks for a response is under way, and it is the one
\* its thread waits for.
OneAwaited(t) ==
    LET c == Conn(t)
        q == c2s[c]
    IN  InSession(t) /\ session[c] \in Serving =>
            /\ \A i \in DOMAIN q :
                  q[i].type = "request" /\ q[i].fn.wait =>
                      Awaits(t, q[i].call, q[i].fn)
            /\ session[c] = "arguments" /\ request[c].fn.wait =>
                  Awaits(t, request[c].call, request[c].fn)
            /\ session[c] = "respond" =>
                  /\ request[c].call = Call(t) /\ request[c].fn = fn[t]
                  /\ pc[t] \in {"response", "results"}
                  /\ done[c] <= fn[t].outs

ResponseOf(t) == [type |-> "response", call |-> Call(t), outs |-> fn[t].outs]
ResultOf(t) == [type |-> "result", call |-> Call(t)]

\* What is on its way to the client, and what is still to be written, is what
\* the thread has still to read.
Answer(t) ==
    LET c == Conn(t)
        s == s2c[c]
    IN  InSession(t) =>
            /\ pc[t] \in {"idle", "send", "stop"} => s = <<>>
            /\ pc[t] = "response" =>
                  /\ s # <<>> => s[1] = ResponseOf(t) /\ Call(t) \in Executed
                  /\ \A i \in DOMAIN s : i > 1 => s[i] = ResultOf(t)
                  /\ Len(s) + Owed(c) <= fn[t].outs + 1
                  /\ session[c] = "respond" /\ Alive(c) /\ done[c] > 0 => s # <<>>
            /\ pc[t] = "results" =>
                  /\ Call(t) \in Executed
                  /\ \A i \in DOMAIN s : s[i] = ResultOf(t)
                  /\ cursor[t] \in 1..fn[t].outs
                  /\ Len(s) + Owed(c) <= cursor[t]
            /\ pc[t] = "bye" =>
                  /\ \A i \in DOMAIN s : s[i] = Bye
                  /\ s # <<>> => ExecutedUpTo(c, calls[t])

\* Only what was written whole is executed.
WrittenWhole(t) ==
    \A x \in Executed : x[1] = t =>
        /\ x[2] <= calls[t]
        /\ pc[t] \in {"connect", "hello", "welcome", "send"} => x[2] < calls[t]

-----------------------------------------------------------------------------
ThreadInv(t) ==
    /\ Slot(t)
    /\ Returned(t)
    /\ Handshake(t)
    /\ NothingLost(t)
    /\ OneAwaited(t)
    /\ Answer(t)
    /\ WrittenWhole(t)

ConnectionInv(c) == Opened(c) /\ Unopened(c) /\ Stream(c) /\ Goodbye(c)

\* What ProtocolProofs shows to be inductive, together with IInv.
PInv ==
    /\ Queued
    /\ NoStrangers
    /\ \A t \in Threads : ThreadInv(t)
    /\ \A c \in Calls : ConnectionInv(c)

-----------------------------------------------------------------------------
(***************************************************************************)
(* The inductive invariant behind FailureIsContained.                      *)
(***************************************************************************)
\* Every thread and every failure finds room in the accept queue at once.
Room == IsFiniteSet(Threads) /\ Cardinality(Threads) + MaxFaults <= Backlog

Contained == Faults \subseteq {"reset", "stranger"} /\ Room

\* The server closes a client's connection only after its goodbye or a reset.
ServerStays(c) ==
    cliOpen[c] => srvOpen[c] \/ broken[c] \/ pc[c[1]] \in {"bye", "exited"}

\* No call has failed on a connection that is used again.
NoneFailed(t) ==
    Usable(handler[t]) =>
        \A j \in Conn(t)[2]..Len(outcome[t]) : outcome[t][j] # "failed"

\* In the queue are clients in their handshake, connections that were reset, and
\* one foreign program.
InQueue ==
    /\ \A i \in DOMAIN backlog : backlog[i] \in Calls /\ ~broken[backlog[i]] =>
          LET t == backlog[i][1]
          IN  pc[t] \in {"hello", "welcome"} /\ Conn(t) = backlog[i]
    /\ \A i \in DOMAIN backlog : backlog[i] = Stranger =>
          /\ srvOpen[Stranger] /\ peer # Stranger
          /\ \A j \in DOMAIN backlog : backlog[j] = Stranger => i = j
    /\ peer = Stranger => srvOpen[Stranger]

\* Each of the latter took a fault.
Broken == {c \in Calls : broken[c]}

FaultsCounted ==
    /\ IsFiniteSet(Broken)
    /\ Cardinality(Broken) + (IF srvOpen[Stranger] THEN 1 ELSE 0) <= faults

\* What ProtocolProofs shows to be kept while the server accepts connections.
Intact ==
    /\ listening
    /\ \A c \in Calls : ServerStays(c)
    /\ \A t \in Threads : NoneFailed(t)
    /\ InQueue
    /\ FaultsCounted
    /\ FailureIsContained

ContainmentInv == Contained => listener = "returned" \/ Intact

=============================================================================
