------------------------------- MODULE Lifecycle -------------------------------
(***************************************************************************)
(* The client library in the life of a process: gloip_initialize and       *)
(* gloip_shutdown, the thread-specific key that holds each thread's        *)
(* handler, its destructor, and the atexit handler, with threads that      *)
(* call, reconnect and end meanwhile, until the process ends.              *)
(*                                                                         *)
(* A call is one step here and does not wait; a connection is up until it  *)
(* breaks.  Module Gloip has the steps of a call.                          *)
(***************************************************************************)
EXTENDS Naturals, Sequences

CONSTANTS
    Threads,
    None,       \* no connection, no thread
    MaxInits,   \* bound: calls of gloip_initialize
    MaxCalls,   \* bound: calls the threads make together
    MaxFaults   \* bound: connections that break, cannot be made or closed

ASSUME LifecycleAssumption ==
    /\ MaxInits \in Nat /\ MaxCalls \in Nat /\ MaxFaults \in Nat
    /\ None \notin Threads \cup (Threads \X (1..MaxCalls))

Keys == 1..MaxInits

\* A connection is named by the thread and the call that made it.
Conns == Threads \X (1..MaxCalls)

VARIABLES
    key,         \* connectionKey: the key created last, 0 before
    deleted,     \* keys gloip_shutdown has deleted
    registered,  \* times gloip_mainThreadExit was given to atexit()
    slot,        \* what each thread has stored under each key
    pc,          \* what a thread does
    cleaning,    \* the handler its gloip_cleanupHandler works on
    exiter,      \* the thread inside exit()
    pending,     \* atexit handlers registered that have not run
    calls,       \* calls made so far
    handler,     \* of each connection: connected, writeMutex, readMutex
    cliOpen,     \* the client's descriptor is open
    broken,      \* the connection was reset
    inbox,       \* packets the server has not read
    session,     \* the server's thread: "none", "serving", "bye", "ended"
    stops,       \* shutdown packets sent
    faults

keyVars == <<key, deleted, registered>>
threadVars == <<slot, pc, cleaning, exiter, pending, calls>>
netVars == <<cliOpen, broken, inbox, session, stops>>
vars == <<keyVars, threadVars, handler, netVars, faults>>

NewHandler == [connected |-> TRUE, writeMutex |-> FALSE, readMutex |-> FALSE]

Ended == \A t \in Threads : pc[t] = "ended"

Fault == faults < MaxFaults /\ faults' = faults + 1

\* What is written to c arrives.
Works(c) == handler[c].connected /\ cliOpen[c] /\ ~broken[c]

\* Mutant: the handler is not disconnected after the goodbye.
KeepsConnection(c, h) == UNCHANGED <<handler, cliOpen, faults>>

\* TcpIOHandler::disconnect, of a handler that is h but for connected, which
\* stays set when close() fails; the descriptor is released all the same.
Disconnect(c, h) ==
    /\ cliOpen' = [cliOpen EXCEPT ![c] = FALSE]
    /\ \/ /\ cliOpen[c]
          /\ handler' = [handler EXCEPT ![c] = [h EXCEPT !.connected = FALSE]]
          /\ UNCHANGED faults
       \/ /\ IF cliOpen[c] THEN Fault ELSE UNCHANGED faults
          /\ handler' = [handler EXCEPT ![c] = h]

-----------------------------------------------------------------------------
(***************************************************************************)
(* What the program does.                                                  *)
(***************************************************************************)
\* Mutant: atexit() is not called.
NotRegistered == UNCHANGED <<registered, pending>>

\* Also inside exit(), which then runs this handler too.
Registered ==
    /\ registered' = registered + 1
    /\ pending' = pending + 1

\* A second gloip_initialize creates a second key; the first keeps what the
\* threads have stored under it, and its destructor.
Initialize(t) ==
    /\ pc[t] = "running"
    /\ key < MaxInits
    /\ key' = key + 1
    /\ Registered
    /\ UNCHANGED <<deleted, slot, pc, cleaning, exiter, calls, handler, netVars,
                   faults>>

\* gloip_shutdown deletes the key, whose destructor runs no more, and leaves
\* the atexit handler registered.
Shutdown(t) ==
    /\ pc[t] = "running"
    /\ key # 0 /\ key \notin deleted
    /\ deleted' = deleted \cup {key}
    /\ UNCHANGED <<key, registered, threadVars, handler, netVars, faults>>

\* A forwarded function is called, between gloip_initialize and gloip_shutdown.
Callable(t) ==
    /\ pc[t] = "running"
    /\ key # 0 /\ key \notin deleted
    /\ calls < MaxCalls

Usable(t) == slot[key][t] # None /\ handler[slot[key][t]].connected

\* writeAll fails with the mutex locked, and gloip_execute disconnects.  A thread
\* that finds the mutex of a connected handler locked waits for it for ever: here
\* it is one that runs and calls no more.
Call(t) ==
    /\ Callable(t) /\ Usable(t)
    /\ LET c == slot[key][t]
       IN  /\ ~handler[c].writeMutex
           /\ \/ /\ Works(c)
                 /\ inbox' = [inbox EXCEPT ![c] = Append(@, "call")]
                 /\ UNCHANGED <<handler, cliOpen, faults>>
              \/ /\ ~Works(c)
                 /\ Disconnect(c, [handler[c] EXCEPT !.writeMutex = TRUE])
                 /\ UNCHANGED inbox
    /\ calls' = calls + 1
    /\ UNCHANGED <<keyVars, slot, pc, cleaning, exiter, pending, broken,
                   session, stops>>

\* The first call under a key, or the one after a failure.
CallConnects(t) ==
    /\ Callable(t) /\ ~Usable(t)
    /\ calls' = calls + 1
    /\ LET c == <<t, calls + 1>>
       IN  \/ /\ slot' = [slot EXCEPT ![key][t] = c]
              /\ cliOpen' = [cliOpen EXCEPT ![c] = TRUE]
              /\ session' = [session EXCEPT ![c] = "serving"]
              /\ inbox' = [inbox EXCEPT ![c] = <<"call">>]
              /\ UNCHANGED faults
           \/ /\ Fault  \* gloip_createConnection returns nullptr
              /\ slot' = [slot EXCEPT ![key][t] = None]
              /\ UNCHANGED <<cliOpen, session, inbox>>
    /\ UNCHANGED <<keyVars, pc, cleaning, exiter, pending, handler, broken,
                   stops>>

ThreadExit(t) ==
    /\ pc[t] = "running"
    /\ pc' = [pc EXCEPT ![t] = "destructors"]
    /\ UNCHANGED <<keyVars, slot, cleaning, exiter, pending, calls, handler,
                   netVars, faults>>

\* exit() is called, or main returns.  The other threads go on until the end.
ProcessExit(t) ==
    /\ pc[t] = "running"
    /\ exiter = None
    /\ exiter' = t
    /\ pc' = [pc EXCEPT ![t] = "atexit"]
    /\ UNCHANGED <<keyVars, slot, cleaning, pending, calls, handler, netVars, faults>>

-----------------------------------------------------------------------------
(***************************************************************************)
(* What the C library does with the key and the exit handlers.             *)
(***************************************************************************)
\* Mutant: the key is created without a destructor.
NoDestructors(t) == {}

Destructors(t) == {k \in Keys \ deleted : slot[k][t] # None}

\* The slot is emptied before the destructor is called with what it held.
Destruct(t) ==
    /\ pc[t] = "destructors"
    /\ \E k \in Destructors(t) :
          /\ slot' = [slot EXCEPT ![k][t] = None]
          /\ cleaning' = [cleaning EXCEPT ![t] = slot[k][t]]
    /\ pc' = [pc EXCEPT ![t] = "stop"]
    /\ UNCHANGED <<keyVars, exiter, pending, calls, handler, netVars, faults>>

\* The last thread that ends calls exit().
ThreadEnds(t) ==
    /\ pc[t] = "destructors"
    /\ Destructors(t) = {}
    /\ \/ /\ exiter = None
          /\ \A u \in Threads \ {t} : pc[u] = "ended"
          /\ pc' = [pc EXCEPT ![t] = "atexit"]
          /\ exiter' = t
       \/ /\ exiter # None \/ \E u \in Threads \ {t} : pc[u] # "ended"
          /\ pc' = [pc EXCEPT ![t] = "ended"]
          /\ UNCHANGED exiter
    /\ UNCHANGED <<keyVars, slot, cleaning, pending, calls, handler, netVars,
                   faults>>

\* gloip_mainThreadExit reads connectionKey, which it does not empty.  What
\* pthread_getspecific() returns for a deleted key is undefined: nothing, or
\* what was stored.
RunAtExit(t) ==
    /\ pc[t] = "atexit"
    /\ pending > 0
    /\ pending' = pending - 1
    /\ \/ /\ slot[key][t] # None
          /\ cleaning' = [cleaning EXCEPT ![t] = slot[key][t]]
          /\ pc' = [pc EXCEPT ![t] = "stop"]
       \/ /\ slot[key][t] = None \/ key \in deleted
          /\ UNCHANGED <<cleaning, pc>>
    /\ UNCHANGED <<keyVars, slot, exiter, calls, handler, netVars, faults>>

\* The process ends, its other threads wherever they are, and the kernel closes
\* their descriptors.
ProcessEnds(t) ==
    /\ pc[t] = "atexit"
    /\ pending = 0
    /\ pc' = [u \in Threads |-> "ended"]
    /\ cliOpen' = [c \in Conns |-> FALSE]
    /\ UNCHANGED <<keyVars, slot, cleaning, exiter, pending, calls, handler,
                   broken, inbox, session, stops, faults>>

-----------------------------------------------------------------------------
(***************************************************************************)
(* gloip_cleanupHandler, as destructor and as exit handler.  A mutex that  *)
(* is locked was left so by the thread itself, which then waits for ever.  *)
(***************************************************************************)
CleanupReturns(t) ==
    pc' = [pc EXCEPT ![t] = IF exiter = t THEN "atexit" ELSE "destructors"]

SendStop(t) ==
    LET c == cleaning[t] IN
    /\ pc[t] = "stop"
    /\ ~handler[c].writeMutex
    /\ Works(c)
    /\ inbox' = [inbox EXCEPT ![c] = Append(@, "stop")]
    /\ stops' = [stops EXCEPT ![c] = @ + 1]
    /\ pc' = [pc EXCEPT ![t] = "bye"]
    /\ UNCHANGED <<keyVars, slot, cleaning, exiter, pending, calls, handler,
                   cliOpen, broken, session, faults>>

SendStopFails(t) ==
    LET c == cleaning[t] IN
    /\ pc[t] = "stop"
    /\ ~handler[c].writeMutex
    /\ ~Works(c)
    /\ handler' = [handler EXCEPT ![c].writeMutex = TRUE]
    /\ CleanupReturns(t)
    /\ UNCHANGED <<keyVars, slot, cleaning, exiter, pending, calls, netVars,
                   faults>>

RecvBye(t) ==
    LET c == cleaning[t] IN
    /\ pc[t] = "bye"
    /\ ~handler[c].readMutex
    /\ session[c] = "bye"
    /\ session' = [session EXCEPT ![c] = "ended"]
    /\ Disconnect(c, handler[c])
    /\ CleanupReturns(t)
    /\ UNCHANGED <<keyVars, slot, cleaning, exiter, pending, calls, broken,
                   inbox, stops>>

RecvByeFails(t) ==
    LET c == cleaning[t] IN
    /\ pc[t] = "bye"
    /\ ~handler[c].readMutex
    /\ ~Works(c) \/ session[c] = "ended"
    /\ handler' = [handler EXCEPT ![c].readMutex = TRUE]
    /\ CleanupReturns(t)
    /\ UNCHANGED <<keyVars, slot, cleaning, exiter, pending, calls, netVars,
                   faults>>

-----------------------------------------------------------------------------
(***************************************************************************)
(* The server's thread of connection c, and the network.                   *)
(***************************************************************************)
\* Mutant: the server reads the shutdown packet and goes on.
StopIgnored(c) == UNCHANGED session

\* The goodbye is sent, and stays on the connection until it is read.
StopAnswered(c) == session' = [session EXCEPT ![c] = "bye"]

Serve(c) ==
    /\ session[c] = "serving" /\ ~broken[c]
    /\ inbox[c] # <<>>
    /\ inbox' = [inbox EXCEPT ![c] = Tail(@)]
    /\ IF Head(inbox[c]) = "stop" THEN StopAnswered(c) ELSE UNCHANGED session
    /\ UNCHANGED <<keyVars, threadVars, handler, cliOpen, broken, stops, faults>>

\* The end of the stream or a reset; after the goodbye nobody may read it.
SessionEnds(c) ==
    /\ session[c] \in {"serving", "bye"}
    /\ \/ broken[c]
       \/ /\ ~cliOpen[c]
          /\ session[c] = "serving" => inbox[c] = <<>>
    /\ session' = [session EXCEPT ![c] = "ended"]
    /\ UNCHANGED <<keyVars, threadVars, handler, cliOpen, broken, inbox, stops,
                   faults>>

Break(c) ==
    /\ cliOpen[c] /\ ~broken[c]
    /\ Fault
    /\ broken' = [broken EXCEPT ![c] = TRUE]
    /\ UNCHANGED <<keyVars, threadVars, handler, cliOpen, inbox, session, stops>>

-----------------------------------------------------------------------------
Init ==
    /\ key = 0 /\ deleted = {} /\ registered = 0
    /\ slot = [k \in Keys |-> [t \in Threads |-> None]]
    /\ pc = [t \in Threads |-> "running"]
    /\ cleaning = [t \in Threads |-> None]
    /\ exiter = None /\ pending = 0
    /\ calls = 0
    /\ handler = [c \in Conns |-> NewHandler]
    /\ cliOpen = [c \in Conns |-> FALSE]
    /\ broken = [c \in Conns |-> FALSE]
    /\ inbox = [c \in Conns |-> <<>>]
    /\ session = [c \in Conns |-> "none"]
    /\ stops = [c \in Conns |-> 0]
    /\ faults = 0

Program(t) ==
    \/ Initialize(t) \/ Shutdown(t)
    \/ Call(t) \/ CallConnects(t)
    \/ ThreadExit(t) \/ ProcessExit(t)

Exiting(t) ==
    \/ Destruct(t) \/ ThreadEnds(t)
    \/ RunAtExit(t) \/ ProcessEnds(t)
    \/ SendStop(t) \/ SendStopFails(t) \/ RecvBye(t) \/ RecvByeFails(t)

ServerStep(c) == Serve(c) \/ SessionEnds(c)

Next ==
    \/ \E t \in Threads : Program(t) \/ Exiting(t)
    \/ \E c \in Conns : ServerStep(c) \/ Break(c)

Spec == Init /\ [][Next]_vars

\* A thread that is ending and a server thread are scheduled; nothing is assumed
\* of the program.
FairSpec ==
    /\ Spec
    /\ \A t \in Threads : WF_vars(Exiting(t))
    /\ \A c \in Conns : WF_vars(ServerStep(c))

-----------------------------------------------------------------------------
\* However often the cleanup runs for a handler, as destructor and as exit
\* handler registered more than once, the server is told once that a connection
\* ends.
GoodbyeOnce == \A c \in Conns : stops[c] <= 1

\* When the process ends, and the connection did not fail, everything that the
\* thread which called exit() had sent under the last key is executed: this is
\* what gloip_mainThreadExit is for.  gloip_shutdown takes it away.
ExitWaitsForCalls ==
    \A t \in Threads :
        /\ exiter = t /\ pending = 0 /\ pc[t] \in {"atexit", "ended"}
        /\ key # 0 /\ key \notin deleted
        /\ slot[key][t] # None
        /\ faults = 0
        => inbox[slot[key][t]] = <<>>

\* exit() returns: the cleanup of the exiting thread ends, also after
\* gloip_shutdown.  A connection that failed can leave a mutex locked for it; so
\* does the second of three exit handlers for the third, and MaxInits is two.
ExitCompletes == exiter # None ~> Ended \/ faults > 0

\* The server's thread of a client thread that has ended ends, while the process
\* goes on, unless gloip_shutdown took the destructor away, and the descriptor is
\* closed, unless a connection failed: the error returns of gloip_cleanupHandler
\* leave it open.  All server threads end after the process.
SessionsEnd ==
    /\ \A c \in Conns :
          pc[c[1]] = "ended" /\ session[c] # "none"
              ~> \/ deleted # {}
                 \/ session[c] = "ended" /\ (cliOpen[c] => faults > 0)
    /\ Ended ~> \A c \in Conns : session[c] \in {"none", "ended"}

-----------------------------------------------------------------------------
(***************************************************************************)
(* The inductive invariant of LifecycleProofs.                             *)
(***************************************************************************)
LifecycleTypeOK ==
    /\ key \in 0..MaxInits /\ deleted \subseteq Keys /\ registered \in Nat
    /\ slot \in [Keys -> [Threads -> Conns \cup {None}]]
    /\ pc \in [Threads -> {"running", "destructors", "atexit", "stop", "bye", "ended"}]
    /\ cleaning \in [Threads -> Conns \cup {None}]
    /\ exiter \in Threads \cup {None} /\ pending \in Nat
    /\ calls \in 0..MaxCalls
    /\ handler \in [Conns -> [connected : BOOLEAN, writeMutex : BOOLEAN,
                              readMutex : BOOLEAN]]
    /\ cliOpen \in [Conns -> BOOLEAN] /\ broken \in [Conns -> BOOLEAN]
    /\ inbox \in [Conns -> Seq({"call", "stop"})]
    /\ session \in [Conns -> {"none", "serving", "bye", "ended"}]
    /\ stops \in [Conns -> Nat]
    /\ faults \in Nat

Cleaning(t) == pc[t] \in {"stop", "bye"}

\* A thread stores and cleans up connections of its own only.
Owns(t, c) == c \in Conns /\ c[1] = t /\ session[c] # "none"

Slots(t) ==
    /\ \A k \in Keys : slot[k][t] # None => Owns(t, slot[k][t]) /\ k <= key
    /\ Cleaning(t) => Owns(t, cleaning[t])

\* Nothing is known of a connection that no call has made yet.
Fresh(c) ==
    /\ c[2] > calls => session[c] = "none"
    /\ session[c] = "none" =>
          /\ handler[c] = NewHandler /\ ~cliOpen[c] /\ ~broken[c]
          /\ inbox[c] = <<>> /\ stops[c] = 0

\* While the process lives and nothing failed, a connected handler has its
\* descriptor, so that its session does not end.
Alive(c) ==
    /\ session[c] # "none" /\ handler[c].connected =>
          cliOpen[c] \/ Ended \/ faults # 0
    /\ session[c] = "ended" => broken[c] \/ ~cliOpen[c]
    /\ faults = 0 => ~broken[c]

\* The shutdown packet is the last one, and sent once: after it the thread waits
\* for the answer, or the handler is of no more use.
Told(c) ==
    LET t == c[1] IN
    /\ \A i \in DOMAIN inbox[c] : inbox[c][i] = "stop" =>
          i = Len(inbox[c]) /\ stops[c] = 1
    /\ session[c] = "bye" => inbox[c] = <<>> /\ stops[c] = 1
    /\ stops[c] # 0 =>
          /\ stops[c] = 1 /\ pc[t] # "running"
          /\ \/ pc[t] = "bye" /\ cleaning[t] = c
             \/ ~Works(c)
    /\ faults = 0 /\ ~handler[c].connected => inbox[c] = <<>>

\* An exit handler is left to run for every key that was created since the last
\* one ran; the one that runs last cleans up the connection of the last key.
Exits ==
    /\ pending <= key
    /\ exiter = None => pending = key
    /\ \A t \in Threads :
          /\ exiter = t => pc[t] \in {"atexit", "stop", "bye", "ended"}
          /\ pc[t] = "atexit" => exiter = t
          /\ exiter = t /\ pending = 0 /\ Cleaning(t) =>
                key # 0 /\ slot[key][t] = cleaning[t]

LifecycleInv ==
    /\ LifecycleTypeOK
    /\ \A t \in Threads : Slots(t)
    /\ \A c \in Conns : Fresh(c) /\ Alive(c) /\ Told(c)
    /\ Exits
    /\ ExitWaitsForCalls

=============================================================================
