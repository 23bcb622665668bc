---------------------------- MODULE LifecycleProofs ----------------------------
(***************************************************************************)
(* However a process initializes and shuts down the library, calls and     *)
(* ends its threads: a server is told once that a connection ends, and     *)
(* exit() waits for the calls of the thread that calls it.                 *)
(***************************************************************************)
EXTENDS Lifecycle, TLAPS

USE LifecycleAssumption DEF Works

\* What other steps may do to the thread u as far as its connections go: what has
\* ended stays so, and a thread that waits for a goodbye goes on waiting.
GoesOn(u) ==
    /\ pc[u] # "running" => pc'[u] # "running"
    /\ pc[u] = "ended" => pc'[u] = "ended"
    /\ pc[u] = "bye" => pc'[u] = "bye" /\ cleaning'[u] = cleaning[u]

\* A process that has ended does not start again.
LEMMA EndedStays ==
    ASSUME \A u \in Threads : pc[u] = "ended" => pc'[u] = "ended", Ended
    PROVE  Ended'
BY DEF Ended

\* What a step of a thread that touches no connection leaves alone.
LEMMA ConnectionsKept ==
    ASSUME LifecycleInv, UNCHANGED <<handler, netVars, faults, calls>>,
           \A u \in Threads : GoesOn(u)
    PROVE  \A c \in Conns : Fresh(c)' /\ Alive(c)' /\ Told(c)'
<1> SUFFICES ASSUME NEW c \in Conns PROVE Fresh(c)' /\ Alive(c)' /\ Told(c)'
  OBVIOUS
<1>1. Fresh(c) /\ Alive(c) /\ Told(c)
  BY DEF LifecycleInv
<1>2. /\ c[1] \in Threads /\ GoesOn(c[1])
      /\ Ended => Ended'
  BY EndedStays DEF Conns, GoesOn
<1>3. UNCHANGED <<handler, cliOpen, broken, inbox, session, stops, faults, calls>>
  BY DEF netVars
<1>4. Fresh(c)'
  BY <1>1, <1>3 DEF Fresh
<1>5. Alive(c)'
  BY <1>1, <1>2, <1>3 DEF Alive
<1>6. Told(c)'
  BY <1>1, <1>2, <1>3 DEF Told, GoesOn
<1> QED BY <1>4, <1>5, <1>6

\* What a step of the server or of the network leaves alone.
LEMMA ThreadsKept ==
    ASSUME LifecycleInv, UNCHANGED <<keyVars, threadVars>>,
           \A c \in Conns : session[c] # "none" => session'[c] # "none"
    PROVE  (\A t \in Threads : Slots(t)') /\ Exits'
<1>1. UNCHANGED <<key, slot, pc, cleaning, exiter, pending>>
  BY DEF keyVars, threadVars
<1>2. ASSUME NEW t \in Threads PROVE Slots(t)'
  BY <1>1 DEF LifecycleInv, Slots, Owns, Cleaning
<1>3. Exits'
  BY <1>1 DEF LifecycleInv, Exits, Cleaning
<1> QED BY <1>2, <1>3

\* What a step of a thread that is neither the one in exit() nor initializes the
\* library leaves alone.
LEMMA ExitKept ==
    ASSUME LifecycleInv, UNCHANGED <<exiter, pending>>,
           exiter # None => exiter \in Threads,
           NEW t \in Threads, exiter # t, pc'[t] # "atexit",
           \A u \in Threads \ {t} : pc'[u] = pc[u] /\ cleaning'[u] = cleaning[u],
           \A k \in Keys : \A u \in Threads \ {t} : slot'[k][u] = slot[k][u],
           key' = key
    PROVE  Exits'
<1>1. key \in Nat /\ (key # 0 => key \in Keys)
  BY DEF LifecycleInv, LifecycleTypeOK, Keys
<1> QED BY <1>1 DEF LifecycleInv, Exits, Cleaning

\* LifecycleInv after a step, but for the types.
Kept ==
    /\ \A t \in Threads : Slots(t)'
    /\ \A c \in Conns : Fresh(c)' /\ Alive(c)' /\ Told(c)'
    /\ Exits'
    /\ ExitWaitsForCalls'

-----------------------------------------------------------------------------
\* The program's steps that touch no connection.

\* A second key is one more exit handler to run.
LEMMA InitializeKeeps ==
    ASSUME LifecycleInv, NEW t \in Threads, Initialize(t) PROVE Kept
<1>1. /\ UNCHANGED <<handler, netVars, faults, calls>>
      /\ UNCHANGED <<deleted, slot, pc, cleaning, exiter>>
      /\ key' = key + 1 /\ pending' = pending + 1
  BY DEF Initialize, Registered
<1>2. key \in Nat /\ pending \in Nat
  BY DEF LifecycleInv, LifecycleTypeOK
<1>3. \A c \in Conns : Fresh(c)' /\ Alive(c)' /\ Told(c)'
  BY <1>1, ConnectionsKept DEF GoesOn
<1>4. ASSUME NEW u \in Threads PROVE Slots(u)'
  <2>1. session' = session
    BY <1>1 DEF netVars
  <2>2. Keys \subseteq Nat
    BY DEF Keys
  <2> QED BY <1>1, <1>2, <2>1, <2>2 DEF LifecycleInv, Slots, Owns, Cleaning
<1>5. Exits'
  BY <1>1, <1>2 DEF LifecycleInv, Exits, Cleaning
<1>6. ExitWaitsForCalls'
  BY <1>1, <1>2 DEF ExitWaitsForCalls
<1> QED BY <1>3, <1>4, <1>5, <1>6 DEF Kept

\* A deleted key asks less.
LEMMA ShutdownKeeps ==
    ASSUME LifecycleInv, NEW t \in Threads, Shutdown(t) PROVE Kept
<1>1. /\ UNCHANGED <<handler, netVars, faults, calls>>
      /\ UNCHANGED <<key, slot, pc, cleaning, exiter, pending>>
      /\ deleted \subseteq deleted'
  BY DEF Shutdown, threadVars
<1>2. \A c \in Conns : Fresh(c)' /\ Alive(c)' /\ Told(c)'
  BY <1>1, ConnectionsKept DEF GoesOn
<1>3. UNCHANGED <<session, inbox>>
  BY <1>1 DEF netVars
<1>4. ASSUME NEW u \in Threads PROVE Slots(u)'
  BY <1>1, <1>3 DEF LifecycleInv, Slots, Owns, Cleaning
<1>5. Exits'
  BY <1>1 DEF LifecycleInv, Exits, Cleaning
<1>6. ExitWaitsForCalls'
  BY <1>1, <1>3 DEF LifecycleInv, ExitWaitsForCalls
<1> QED BY <1>2, <1>4, <1>5, <1>6 DEF Kept

\* The thread that ends is not the one in exit().
LEMMA ThreadExitKeeps ==
    ASSUME LifecycleInv, NEW t \in Threads, ThreadExit(t) PROVE Kept
<1>1. /\ UNCHANGED <<handler, netVars, faults, calls>>
      /\ UNCHANGED <<key, deleted, slot, cleaning, exiter, pending>>
      /\ pc[t] = "running" /\ pc' = [pc EXCEPT ![t] = "destructors"]
  BY DEF ThreadExit, keyVars
<1>2. pc \in [Threads -> {"running", "destructors", "atexit", "stop", "bye", "ended"}]
      /\ exiter \in Threads \cup {None}
  BY DEF LifecycleInv, LifecycleTypeOK
<1>3. pc'[t] = "destructors" /\ \A u \in Threads \ {t} : pc'[u] = pc[u]
  BY <1>1, <1>2
<1>4. exiter # t
  BY <1>1 DEF LifecycleInv, Exits
<1>5. \A c \in Conns : Fresh(c)' /\ Alive(c)' /\ Told(c)'
  <2>1. \A u \in Threads : GoesOn(u)
    BY <1>1, <1>3 DEF GoesOn
  <2> QED BY <1>1, <2>1, ConnectionsKept
<1>6. UNCHANGED <<session, inbox>>
  BY <1>1 DEF netVars
<1>7. ASSUME NEW u \in Threads PROVE Slots(u)'
  BY <1>1, <1>3, <1>6 DEF LifecycleInv, Slots, Owns, Cleaning
<1>8. Exits'
  BY <1>1, <1>2, <1>3, <1>4, ExitKept
<1>9. ExitWaitsForCalls'
  BY <1>1, <1>3, <1>4, <1>6 DEF LifecycleInv, ExitWaitsForCalls
<1> QED BY <1>5, <1>7, <1>8, <1>9 DEF Kept

\* Whoever calls exit() has all exit handlers before it.
LEMMA ProcessExitKeeps ==
    ASSUME LifecycleInv, NEW t \in Threads, ProcessExit(t) PROVE Kept
<1>1. /\ UNCHANGED <<handler, netVars, faults, calls>>
      /\ UNCHANGED <<key, deleted, slot, cleaning, pending>>
      /\ pc[t] = "running" /\ pc' = [pc EXCEPT ![t] = "atexit"]
      /\ exiter = None /\ exiter' = t
  BY DEF ProcessExit, keyVars
<1>2. pc \in [Threads -> {"running", "destructors", "atexit", "stop", "bye", "ended"}]
  BY DEF LifecycleInv, LifecycleTypeOK
<1>3. pc'[t] = "atexit" /\ \A u \in Threads \ {t} : pc'[u] = pc[u]
  BY <1>1, <1>2
<1>4. \A c \in Conns : Fresh(c)' /\ Alive(c)' /\ Told(c)'
  <2>1. \A u \in Threads : GoesOn(u)
    BY <1>1, <1>3 DEF GoesOn
  <2> QED BY <1>1, <2>1, ConnectionsKept
<1>5. session' = session
  BY <1>1 DEF netVars
<1>6. ASSUME NEW u \in Threads PROVE Slots(u)'
  BY <1>1, <1>3, <1>5 DEF LifecycleInv, Slots, Owns, Cleaning
<1>7. pending = key /\ \A u \in Threads : u # None /\ pc[u] # "atexit"
  BY <1>1 DEF LifecycleInv, Exits
<1>8. Exits'
  BY <1>1, <1>3, <1>7 DEF LifecycleInv, Exits, Cleaning
<1>9. ExitWaitsForCalls'
  BY <1>1, <1>7 DEF ExitWaitsForCalls
<1> QED BY <1>4, <1>6, <1>8, <1>9 DEF Kept

-----------------------------------------------------------------------------
\* The steps of the C library.

\* A destructor gets what the thread had stored.
LEMMA DestructKeeps ==
    ASSUME LifecycleInv, NEW t \in Threads, Destruct(t) PROVE Kept
<1>1. PICK k \in Destructors(t) :
        /\ slot' = [slot EXCEPT ![k][t] = None]
        /\ cleaning' = [cleaning EXCEPT ![t] = slot[k][t]]
  BY DEF Destruct
<1>2. /\ UNCHANGED <<handler, netVars, faults, calls>>
      /\ UNCHANGED <<key, deleted, exiter, pending>>
      /\ pc[t] = "destructors" /\ pc' = [pc EXCEPT ![t] = "stop"]
  BY DEF Destruct, keyVars
<1>3. k \in Keys /\ slot[k][t] # None
  BY DEF Destructors
<1>4. /\ pc \in [Threads -> {"running", "destructors", "atexit", "stop", "bye", "ended"}]
      /\ slot \in [Keys -> [Threads -> Conns \cup {None}]]
      /\ cleaning \in [Threads -> Conns \cup {None}]
      /\ exiter \in Threads \cup {None} /\ key \in 0..MaxInits
  BY DEF LifecycleInv, LifecycleTypeOK
<1>5. /\ pc'[t] = "stop" /\ cleaning'[t] = slot[k][t]
      /\ \A u \in Threads \ {t} : pc'[u] = pc[u] /\ cleaning'[u] = cleaning[u]
  BY <1>1, <1>2, <1>4
<1>6. /\ \A l \in Keys : \A u \in Threads \ {t} : slot'[l][u] = slot[l][u]
      /\ \A l \in Keys : slot'[l][t] = None \/ slot'[l][t] = slot[l][t]
  BY <1>1, <1>3, <1>4
<1>7. exiter # t
  BY <1>2 DEF LifecycleInv, Exits
<1>8. \A c \in Conns : Fresh(c)' /\ Alive(c)' /\ Told(c)'
  <2>1. \A u \in Threads : GoesOn(u)
    BY <1>2, <1>5 DEF GoesOn
  <2> QED BY <1>2, <2>1, ConnectionsKept
<1>9. UNCHANGED <<session, inbox>>
  BY <1>2 DEF netVars
<1>10. ASSUME NEW u \in Threads PROVE Slots(u)'
  <2>1. Slots(u) /\ key' = key
    BY <1>2 DEF LifecycleInv
  <2>2. CASE u = t
    BY <1>3, <1>5, <1>6, <1>9, <2>1, <2>2 DEF Slots, Owns
  <2>3. CASE u # t
    BY <1>5, <1>6, <1>9, <2>1, <2>3 DEF Slots, Owns, Cleaning
  <2> QED BY <2>2, <2>3
<1>11. Exits'
  BY <1>2, <1>4, <1>5, <1>6, <1>7, ExitKept
<1>12. ExitWaitsForCalls'
  <2>1. key # 0 => key \in Keys
    BY <1>4 DEF Keys
  <2> QED BY <1>2, <1>5, <1>6, <1>7, <1>9, <2>1 DEF LifecycleInv, ExitWaitsForCalls
<1> QED BY <1>8, <1>10, <1>11, <1>12 DEF Kept

\* The last thread that ends is the one in exit().
LEMMA ThreadEndsKeeps ==
    ASSUME LifecycleInv, NEW t \in Threads, ThreadEnds(t) PROVE Kept
<1>1. /\ UNCHANGED <<handler, netVars, faults, calls>>
      /\ UNCHANGED <<key, deleted, slot, cleaning, pending>>
      /\ pc[t] = "destructors"
  BY DEF ThreadEnds, keyVars
<1>2. \/ exiter = None /\ exiter' = t /\ pc' = [pc EXCEPT ![t] = "atexit"]
      \/ exiter' = exiter /\ pc' = [pc EXCEPT ![t] = "ended"]
  BY DEF ThreadEnds
<1>3. /\ pc \in [Threads -> {"running", "destructors", "atexit", "stop", "bye", "ended"}]
      /\ exiter \in Threads \cup {None}
  BY DEF LifecycleInv, LifecycleTypeOK
<1>4. /\ pc'[t] \in {"atexit", "ended"}
      /\ \A u \in Threads \ {t} : pc'[u] = pc[u]
  BY <1>2, <1>3
<1>5. exiter # t
  BY <1>1 DEF LifecycleInv, Exits
<1>6. \A c \in Conns : Fresh(c)' /\ Alive(c)' /\ Told(c)'
  <2>1. \A u \in Threads : GoesOn(u)
    BY <1>1, <1>4 DEF GoesOn
  <2> QED BY <1>1, <2>1, ConnectionsKept
<1>7. UNCHANGED <<session, inbox>>
  BY <1>1 DEF netVars
<1>8. ASSUME NEW u \in Threads PROVE Slots(u)'
  BY <1>1, <1>4, <1>7 DEF LifecycleInv, Slots, Owns, Cleaning
<1>9. CASE exiter = None /\ exiter' = t /\ pc' = [pc EXCEPT ![t] = "atexit"]
  <2>1. pc'[t] = "atexit"
    BY <1>3, <1>9
  <2>2. pending = key /\ \A u \in Threads : u # None /\ pc[u] # "atexit"
    BY <1>9 DEF LifecycleInv, Exits
  <2>3. Exits'
    BY <1>1, <1>4, <1>9, <2>1, <2>2 DEF LifecycleInv, Exits, Cleaning
  <2>4. ExitWaitsForCalls'
    BY <1>1, <1>9, <2>2 DEF ExitWaitsForCalls
  <2> QED BY <1>6, <1>8, <2>3, <2>4 DEF Kept
<1>10. CASE exiter' = exiter /\ pc' = [pc EXCEPT ![t] = "ended"]
  <2>1. pc'[t] = "ended"
    BY <1>3, <1>10
  <2>2. Exits'
    BY <1>1, <1>3, <1>4, <1>5, <1>10, <2>1, ExitKept
  <2>3. ExitWaitsForCalls'
    BY <1>1, <1>4, <1>5, <1>7, <1>10 DEF LifecycleInv, ExitWaitsForCalls
  <2> QED BY <1>6, <1>8, <2>2, <2>3 DEF Kept
<1> QED BY <1>2, <1>9, <1>10

\* An exit handler works on the connection of the last key, or has none.
LEMMA RunAtExitKeeps ==
    ASSUME LifecycleInv, NEW t \in Threads, RunAtExit(t) PROVE Kept
<1>1. /\ UNCHANGED <<handler, netVars, faults, calls>>
      /\ UNCHANGED <<key, deleted, slot, exiter>>
      /\ pc[t] = "atexit" /\ pending > 0 /\ pending' = pending - 1
  BY DEF RunAtExit, keyVars
<1>2. \/ /\ slot[key][t] # None
         /\ cleaning' = [cleaning EXCEPT ![t] = slot[key][t]]
         /\ pc' = [pc EXCEPT ![t] = "stop"]
      \/ /\ slot[key][t] = None \/ key \in deleted
         /\ UNCHANGED <<cleaning, pc>>
  BY DEF RunAtExit
<1>3. /\ pc \in [Threads -> {"running", "destructors", "atexit", "stop", "bye", "ended"}]
      /\ cleaning \in [Threads -> Conns \cup {None}]
      /\ key \in Nat /\ pending \in Nat /\ key \in 0..MaxInits
  BY DEF LifecycleInv, LifecycleTypeOK
<1>4. exiter = t /\ pending <= key /\ t # None
  BY <1>1 DEF LifecycleInv, Exits
<1>5. key \in Keys /\ key # 0 /\ pending - 1 <= key
  BY <1>1, <1>3, <1>4 DEF Keys
<1>6. UNCHANGED <<session, inbox>>
  BY <1>1 DEF netVars
<1>7. CASE /\ slot[key][t] # None
           /\ cleaning' = [cleaning EXCEPT ![t] = slot[key][t]]
           /\ pc' = [pc EXCEPT ![t] = "stop"]
  <2>1. /\ pc'[t] = "stop" /\ cleaning'[t] = slot[key][t]
        /\ \A u \in Threads \ {t} : pc'[u] = pc[u] /\ cleaning'[u] = cleaning[u]
    BY <1>3, <1>7
  <2>2. \A c \in Conns : Fresh(c)' /\ Alive(c)' /\ Told(c)'
    <3>1. \A u \in Threads : GoesOn(u)
      BY <1>1, <2>1 DEF GoesOn
    <3> QED BY <1>1, <3>1, ConnectionsKept
  <2>3. ASSUME NEW u \in Threads PROVE Slots(u)'
    <3>1. Slots(u)
      BY DEF LifecycleInv
    <3>2. CASE u = t
      BY <1>1, <1>5, <1>6, <1>7, <2>1, <3>1, <3>2 DEF Slots, Owns
    <3>3. CASE u # t
      BY <1>1, <1>6, <2>1, <3>1, <3>3 DEF Slots, Owns, Cleaning
    <3> QED BY <3>2, <3>3
  <2>4. Exits'
    BY <1>1, <1>4, <1>5, <2>1 DEF LifecycleInv, Exits, Cleaning
  <2>5. ExitWaitsForCalls'
    BY <1>1, <1>4, <2>1 DEF ExitWaitsForCalls
  <2> QED BY <2>2, <2>3, <2>4, <2>5 DEF Kept
<1>8. CASE /\ slot[key][t] = None \/ key \in deleted
           /\ UNCHANGED <<cleaning, pc>>
  <2>1. \A c \in Conns : Fresh(c)' /\ Alive(c)' /\ Told(c)'
    <3>1. \A u \in Threads : GoesOn(u)
      BY <1>8 DEF GoesOn
    <3> QED BY <1>1, <3>1, ConnectionsKept
  <2>2. ASSUME NEW u \in Threads PROVE Slots(u)'
    BY <1>1, <1>6, <1>8 DEF LifecycleInv, Slots, Owns, Cleaning
  <2>3. Exits'
    BY <1>1, <1>4, <1>5, <1>8 DEF LifecycleInv, Exits, Cleaning
  <2>4. ExitWaitsForCalls'
    BY <1>1, <1>4, <1>8 DEF ExitWaitsForCalls
  <2> QED BY <2>1, <2>2, <2>3, <2>4 DEF Kept
<1> QED BY <1>2, <1>7, <1>8

-----------------------------------------------------------------------------
\* The steps of the server and of the network.

\* The server reads a shutdown packet only when nothing is behind it.
LEMMA ServeKeeps ==
    ASSUME LifecycleInv, NEW c \in Conns, Serve(c) PROVE Kept
<1>1. /\ UNCHANGED <<keyVars, threadVars>>
      /\ UNCHANGED <<handler, cliOpen, broken, stops, faults>>
      /\ UNCHANGED <<key, deleted, slot, pc, cleaning, exiter, pending, calls>>
      /\ session[c] = "serving" /\ inbox[c] # <<>>
      /\ inbox' = [inbox EXCEPT ![c] = Tail(inbox[c])]
  BY DEF Serve, keyVars, threadVars
<1>2. \/ Head(inbox[c]) = "stop" /\ session' = [session EXCEPT ![c] = "bye"]
      \/ Head(inbox[c]) # "stop" /\ session' = session
  BY DEF Serve, StopAnswered
<1>3. /\ inbox \in [Conns -> Seq({"call", "stop"})]
      /\ session \in [Conns -> {"none", "serving", "bye", "ended"}]
  BY DEF LifecycleInv, LifecycleTypeOK
<1>4. /\ inbox'[c] = Tail(inbox[c])
      /\ \A d \in Conns \ {c} : inbox'[d] = inbox[d] /\ session'[d] = session[d]
  BY <1>1, <1>2, <1>3
<1>5. \/ Head(inbox[c]) = "stop" /\ session'[c] = "bye"
      \/ Head(inbox[c]) # "stop" /\ session'[c] = "serving"
  BY <1>1, <1>2, <1>3
<1>6. (\A t \in Threads : Slots(t)') /\ Exits'
  BY <1>1, <1>4, <1>5, ThreadsKept
<1>7. ASSUME NEW d \in Conns PROVE Fresh(d)' /\ Alive(d)' /\ Told(d)'
  <2>1. Fresh(d) /\ Alive(d) /\ Told(d)
    BY DEF LifecycleInv
  <2>2. Ended' <=> Ended
    BY <1>1 DEF Ended
  <2>3. CASE d # c
    BY <1>1, <1>4, <2>1, <2>2, <2>3 DEF Fresh, Alive, Told
  <2>4. CASE d = c
    <3>1. Fresh(c)' /\ Alive(c)'
      BY <1>1, <1>5, <2>1, <2>2, <2>4 DEF Fresh, Alive
    <3> DEFINE old == inbox[c]
               new == inbox'[c]
    <3>2. /\ old \in Seq({"call", "stop"}) /\ old # <<>> /\ new = Tail(old)
          /\ \A i \in DOMAIN old : old[i] = "stop" => i = Len(old) /\ stops[c] = 1
      BY <1>1, <1>3, <1>4, <2>1, <2>4 DEF Told
    <3> HIDE DEF old, new
    <3>3. /\ Len(new) = Len(old) - 1 /\ Len(old) \in Nat /\ Len(new) \in Nat
          /\ \A i \in 1..Len(new) : new[i] = old[i + 1] /\ i + 1 \in 1..Len(old)
          /\ DOMAIN new = 1..Len(new) /\ DOMAIN old = 1..Len(old)
          /\ Head(old) = old[1] /\ 1 \in DOMAIN old
      BY <3>2
    <3>4. \A i \in DOMAIN new : new[i] = "stop" => i = Len(new) /\ stops[c] = 1
      BY <3>2, <3>3
    <3>5. Head(old) = "stop" => new = <<>> /\ stops[c] = 1
      BY <3>2, <3>3
    <3>6. session'[c] = "bye" => new = <<>> /\ stops[c] = 1
      BY <1>5, <3>5 DEF old
    <3>7. faults = 0 => handler[c].connected
      BY <1>1, <2>1, <2>4 DEF Told
    <3>8. Told(c)'
      BY <1>1, <2>1, <2>2, <2>4, <3>4, <3>6, <3>7 DEF Told, new
    <3> QED BY <2>4, <3>1, <3>8
  <2> QED BY <2>3, <2>4
<1>8. ExitWaitsForCalls'
  <2> SUFFICES ASSUME NEW t \in Threads,
                      exiter = t /\ pending = 0 /\ pc[t] \in {"atexit", "ended"},
                      key # 0 /\ key \notin deleted, slot[key][t] # None, faults = 0
               PROVE  inbox'[slot[key][t]] = <<>>
    BY <1>1 DEF ExitWaitsForCalls
  <2>1. inbox[slot[key][t]] = <<>>
    BY DEF LifecycleInv, ExitWaitsForCalls
  <2>2. key \in Keys
    BY DEF LifecycleInv, LifecycleTypeOK, Keys
  <2>3. slot[key][t] \in Conns
    BY <2>2 DEF LifecycleInv, Slots, Owns
  <2> QED BY <1>1, <1>4, <2>1, <2>3
<1> QED BY <1>6, <1>7, <1>8 DEF Kept

\* A session ends when its connection has.
LEMMA SessionEndsKeeps ==
    ASSUME LifecycleInv, NEW c \in Conns, SessionEnds(c) PROVE Kept
<1>1. /\ UNCHANGED <<keyVars, threadVars>>
      /\ UNCHANGED <<handler, cliOpen, broken, inbox, stops, faults>>
      /\ UNCHANGED <<key, deleted, slot, pc, cleaning, exiter, pending, calls>>
      /\ session[c] # "none" /\ (broken[c] \/ ~cliOpen[c])
      /\ session' = [session EXCEPT ![c] = "ended"]
  BY DEF SessionEnds, keyVars, threadVars
<1>2. session \in [Conns -> {"none", "serving", "bye", "ended"}]
  BY DEF LifecycleInv, LifecycleTypeOK
<1>3. /\ session'[c] = "ended"
      /\ \A d \in Conns \ {c} : session'[d] = session[d]
  BY <1>1, <1>2
<1>4. (\A t \in Threads : Slots(t)') /\ Exits'
  BY <1>1, <1>3, ThreadsKept
<1>5. ASSUME NEW d \in Conns PROVE Fresh(d)' /\ Alive(d)' /\ Told(d)'
  <2>1. Fresh(d) /\ Alive(d) /\ Told(d)
    BY DEF LifecycleInv
  <2>2. Ended' <=> Ended
    BY <1>1 DEF Ended
  <2>3. CASE d # c
    BY <1>1, <1>3, <2>1, <2>2, <2>3 DEF Fresh, Alive, Told
  <2>4. CASE d = c
    BY <1>1, <1>3, <2>1, <2>2, <2>4 DEF Fresh, Alive, Told
  <2> QED BY <2>3, <2>4
<1>6. ExitWaitsForCalls'
  BY <1>1 DEF LifecycleInv, ExitWaitsForCalls
<1> QED BY <1>4, <1>5, <1>6 DEF Kept

\* After a reset less is asked.
LEMMA BreakKeeps ==
    ASSUME LifecycleInv, NEW c \in Conns, Break(c) PROVE Kept
<1>1. /\ UNCHANGED <<keyVars, threadVars>>
      /\ UNCHANGED <<handler, cliOpen, inbox, session, stops>>
      /\ UNCHANGED <<key, deleted, slot, pc, cleaning, exiter, pending, calls>>
      /\ cliOpen[c] /\ broken' = [broken EXCEPT ![c] = TRUE]
      /\ faults' = faults + 1
  BY DEF Break, Fault, keyVars, threadVars
<1>2. broken \in [Conns -> BOOLEAN] /\ faults \in Nat
  BY DEF LifecycleInv, LifecycleTypeOK
<1>3. /\ broken'[c] = TRUE /\ faults' # 0
      /\ \A d \in Conns \ {c} : broken'[d] = broken[d]
  BY <1>1, <1>2
<1>4. (\A t \in Threads : Slots(t)') /\ Exits'
  BY <1>1, ThreadsKept
<1>5. ASSUME NEW d \in Conns PROVE Fresh(d)' /\ Alive(d)' /\ Told(d)'
  <2>1. Fresh(d) /\ Alive(d) /\ Told(d)
    BY DEF LifecycleInv
  <2>2. Ended' <=> Ended
    BY <1>1 DEF Ended
  <2>3. CASE d # c
    BY <1>1, <1>3, <2>1, <2>2, <2>3 DEF Fresh, Alive, Told
  <2>4. CASE d = c
    BY <1>1, <1>3, <2>1, <2>2, <2>4 DEF Fresh, Alive, Told
  <2> QED BY <2>3, <2>4
<1>6. ExitWaitsForCalls'
  BY <1>3 DEF ExitWaitsForCalls
<1> QED BY <1>4, <1>5, <1>6 DEF Kept

-----------------------------------------------------------------------------
\* The calls.

\* What is stored under a key is the thread's own.
LEMMA SlotOwned ==
    ASSUME LifecycleInv, NEW t \in Threads, key # 0, slot[key][t] # None
    PROVE  /\ key \in Keys /\ Owns(t, slot[key][t])
           /\ slot[key][t] \in Conns /\ slot[key][t][1] = t
<1>1. key \in Keys
  BY DEF LifecycleInv, LifecycleTypeOK, Keys
<1> QED BY <1>1 DEF LifecycleInv, Slots, Owns

\* However close() ends, the descriptor is released; a failure is a fault.
LEMMA DisconnectsOne ==
    ASSUME LifecycleInv, NEW c \in Conns,
           NEW h \in [connected : BOOLEAN, writeMutex : BOOLEAN, readMutex : BOOLEAN],
           Disconnect(c, h)
    PROVE  /\ cliOpen' = [cliOpen EXCEPT ![c] = FALSE] /\ ~cliOpen'[c]
           /\ \E g \in [connected : BOOLEAN, writeMutex : BOOLEAN, readMutex : BOOLEAN] :
                 /\ handler' = [handler EXCEPT ![c] = g]
                 /\ g.connected => h.connected /\ (cliOpen[c] => faults' # 0)
           /\ faults' \in Nat /\ (faults' = faults \/ faults' # 0)
           /\ \A d \in Conns \ {c} : handler'[d] = handler[d] /\ cliOpen'[d] = cliOpen[d]
<1> DEFINE H == [connected : BOOLEAN, writeMutex : BOOLEAN, readMutex : BOOLEAN]
           off == [h EXCEPT !.connected = FALSE]
<1>1. /\ handler \in [Conns -> H]
      /\ cliOpen \in [Conns -> BOOLEAN] /\ faults \in Nat
  BY DEF LifecycleInv, LifecycleTypeOK
<1>2. off \in H /\ ~off.connected
  OBVIOUS
<1>3. \/ cliOpen[c] /\ handler' = [handler EXCEPT ![c] = off] /\ faults' = faults
      \/ /\ IF cliOpen[c] THEN Fault ELSE UNCHANGED faults
         /\ handler' = [handler EXCEPT ![c] = h]
  BY DEF Disconnect
<1>4. cliOpen' = [cliOpen EXCEPT ![c] = FALSE]
  BY DEF Disconnect
<1>5. faults' \in Nat /\ (faults' = faults \/ faults' # 0)
  BY <1>1, <1>3 DEF Fault
<1>6. PICK g \in H : /\ handler' = [handler EXCEPT ![c] = g]
                     /\ g.connected => h.connected /\ (cliOpen[c] => faults' # 0)
  <2> HIDE DEF off, H
  <2>1. CASE cliOpen[c] /\ handler' = [handler EXCEPT ![c] = off] /\ faults' = faults
    BY <1>2, <2>1
  <2>2. CASE /\ IF cliOpen[c] THEN Fault ELSE UNCHANGED faults
             /\ handler' = [handler EXCEPT ![c] = h]
    <3>1. h \in H /\ (cliOpen[c] => faults' # 0)
      BY <1>1, <2>2 DEF Fault, H
    <3> QED BY <2>2, <3>1
  <2> QED BY <1>3, <2>1, <2>2
<1> QED BY <1>1, <1>4, <1>5, <1>6

\* A thread that runs has not said goodbye, and one whose connection has failed
\* disconnects it.
LEMMA CallKeeps ==
    ASSUME LifecycleInv, NEW t \in Threads, Call(t) PROVE Kept
<1> DEFINE c == slot[key][t]
           h == [handler[c] EXCEPT !.writeMutex = TRUE]
<1>1. /\ UNCHANGED <<key, deleted, slot, pc, cleaning, exiter, pending>>
      /\ UNCHANGED <<broken, session, stops>>
      /\ pc[t] = "running" /\ key # 0 /\ c # None
      /\ handler[c].connected /\ calls' = calls + 1
  BY DEF Call, Callable, Usable, keyVars
<1>2. \/ /\ Works(c) /\ UNCHANGED <<handler, cliOpen, faults>>
         /\ inbox' = [inbox EXCEPT ![c] = Append(inbox[c], "call")]
      \/ ~Works(c) /\ inbox' = inbox /\ Disconnect(c, h)
  BY DEF Call
<1>3. /\ inbox \in [Conns -> Seq({"call", "stop"})]
      /\ handler \in [Conns -> [connected : BOOLEAN, writeMutex : BOOLEAN,
                                readMutex : BOOLEAN]]
      /\ cliOpen \in [Conns -> BOOLEAN]
      /\ calls \in Nat /\ exiter \in Threads \cup {None} /\ faults \in Nat
  BY DEF LifecycleInv, LifecycleTypeOK
<1>4. c \in Conns /\ c[1] = t /\ session[c] # "none"
  BY <1>1, SlotOwned DEF Owns
<1>5. h \in [connected : BOOLEAN, writeMutex : BOOLEAN, readMutex : BOOLEAN]
  BY <1>3, <1>4
<1> HIDE DEF h
<1>6. exiter # t
  BY <1>1 DEF LifecycleInv, Exits
<1>7. ASSUME NEW u \in Threads PROVE Slots(u)'
  BY <1>1 DEF LifecycleInv, Slots, Owns, Cleaning
<1>8. Exits'
  BY <1>1 DEF LifecycleInv, Exits, Cleaning
<1>9. ASSUME NEW d \in Conns, d # c
      PROVE  /\ inbox'[d] = inbox[d] /\ handler'[d] = handler[d]
             /\ cliOpen'[d] = cliOpen[d] /\ (faults' = faults \/ faults' # 0)
  BY <1>2, <1>3, <1>4, <1>5, <1>9, DisconnectsOne
<1>10. (Ended' <=> Ended) /\ \A d \in Conns : d[2] \in Nat /\ (d[2] > calls' => d[2] > calls)
  <2>1. \A d \in Conns : d[2] \in Nat
    BY DEF Conns
  <2>2. \A d \in Conns : d[2] > calls' => d[2] > calls
    BY <1>1, <1>3, <2>1
  <2> QED BY <1>1, <2>1, <2>2 DEF Ended
<1>11. ASSUME NEW d \in Conns PROVE Fresh(d)' /\ Alive(d)' /\ Told(d)'
  <2>1. Fresh(d) /\ Alive(d) /\ Told(d)
    BY DEF LifecycleInv
  <2>2. CASE d # c
    <3>1. Fresh(d)'
      BY <1>1, <1>9, <1>10, <2>1, <2>2 DEF Fresh
    <3>2. Alive(d)'
      BY <1>1, <1>9, <1>10, <2>1, <2>2 DEF Alive
    <3>3. Told(d)'
      BY <1>1, <1>9, <1>10, <2>1, <2>2 DEF Told
    <3> QED BY <3>1, <3>2, <3>3
  <2>3. CASE d = c
    <3>1. stops[d] = 0
      BY <1>1, <1>4, <2>1, <2>3 DEF Told
    <3>2. /\ session[d] # "bye"
          /\ \A i \in DOMAIN inbox[d] : inbox[d][i] # "stop"
      BY <2>1, <3>1 DEF Told
    <3>3. Fresh(d)'
      BY <1>1, <1>4, <1>10, <2>1, <2>3 DEF Fresh
    <3>4. CASE /\ Works(c) /\ UNCHANGED <<handler, cliOpen, faults>>
               /\ inbox' = [inbox EXCEPT ![c] = Append(inbox[c], "call")]
      <4>1. Alive(d)'
        BY <1>1, <1>10, <2>1, <3>4 DEF Alive
      <4>2. inbox'[d] = Append(inbox[d], "call") /\ inbox[d] \in Seq({"call", "stop"})
        BY <1>3, <1>4, <2>3, <3>4
      <4>3. \A i \in DOMAIN inbox'[d] : inbox'[d][i] # "stop"
        BY <3>2, <4>2
      <4>4. Told(d)'
        BY <1>1, <2>3, <3>1, <3>2, <3>4, <4>3 DEF Told
      <4> QED BY <3>3, <4>1, <4>4
    <3>5. CASE ~Works(c) /\ inbox' = inbox /\ Disconnect(c, h)
      <4>1. ~Ended
        BY <1>1 DEF Ended
      <4>2. faults # 0
        BY <1>1, <1>4, <2>1, <2>3, <3>5, <4>1 DEF Alive
      <4>3. ~cliOpen'[d] /\ faults' # 0
        BY <1>3, <1>4, <1>5, <2>3, <3>5, <4>2, DisconnectsOne
      <4>4. Alive(d)'
        BY <1>1, <2>1, <4>3 DEF Alive
      <4>5. Told(d)'
        BY <1>1, <3>1, <3>2, <3>5, <4>3 DEF Told
      <4> QED BY <3>3, <4>4, <4>5
    <3> QED BY <1>2, <3>4, <3>5
  <2> QED BY <2>2, <2>3
<1>12. ExitWaitsForCalls'
  <2> SUFFICES ASSUME NEW u \in Threads,
                      exiter = u /\ pending = 0 /\ pc[u] \in {"atexit", "ended"},
                      key # 0 /\ key \notin deleted, slot[key][u] # None, faults' = 0
               PROVE  inbox'[slot[key][u]] = <<>>
    BY <1>1 DEF ExitWaitsForCalls
  <2>1. slot[key][u] \in Conns /\ slot[key][u] # c
    BY <1>4, <1>6, SlotOwned
  <2>2. faults = 0 /\ inbox'[slot[key][u]] = inbox[slot[key][u]]
    BY <1>9, <2>1
  <2>3. inbox[slot[key][u]] = <<>>
    BY <2>2 DEF LifecycleInv, ExitWaitsForCalls
  <2> QED BY <2>2, <2>3
<1> QED BY <1>7, <1>8, <1>11, <1>12 DEF Kept

\* A new connection is one that no thread has heard of.
LEMMA CallConnectsKeeps ==
    ASSUME LifecycleInv, NEW t \in Threads, CallConnects(t) PROVE Kept
<1> DEFINE c == <<t, calls + 1>>
<1>1. /\ UNCHANGED <<key, deleted, pc, cleaning, exiter, pending>>
      /\ UNCHANGED <<handler, broken, stops>>
      /\ pc[t] = "running" /\ key # 0 /\ calls < MaxCalls /\ calls' = calls + 1
  BY DEF CallConnects, Callable, keyVars
<1>2. \/ /\ slot' = [slot EXCEPT ![key][t] = c]
         /\ cliOpen' = [cliOpen EXCEPT ![c] = TRUE]
         /\ session' = [session EXCEPT ![c] = "serving"]
         /\ inbox' = [inbox EXCEPT ![c] = <<"call">>]
         /\ faults' = faults
      \/ /\ faults' = faults + 1
         /\ slot' = [slot EXCEPT ![key][t] = None]
         /\ UNCHANGED <<cliOpen, session, inbox>>
  BY DEF CallConnects, Fault
<1>3. /\ inbox \in [Conns -> Seq({"call", "stop"})]
      /\ cliOpen \in [Conns -> BOOLEAN]
      /\ session \in [Conns -> {"none", "serving", "bye", "ended"}]
      /\ slot \in [Keys -> [Threads -> Conns \cup {None}]]
      /\ calls \in Nat /\ exiter \in Threads \cup {None}
      /\ faults \in Nat /\ key \in 0..MaxInits
  BY DEF LifecycleInv, LifecycleTypeOK
<1>4. key \in Keys
  BY <1>1, <1>3 DEF Keys
<1>5. c \in Conns /\ c[1] = t /\ c[2] = calls + 1 /\ c # None
  <2>1. calls + 1 \in 1..MaxCalls
    BY <1>1, <1>3
  <2> QED BY <2>1 DEF Conns
<1>6. exiter # t
  BY <1>1 DEF LifecycleInv, Exits
<1>7. /\ session[c] = "none" /\ handler[c] = NewHandler /\ ~broken[c]
      /\ inbox[c] = <<>> /\ stops[c] = 0
  <2>1. c[2] > calls /\ Fresh(c)
    BY <1>3, <1>5 DEF LifecycleInv
  <2> QED BY <2>1 DEF Fresh
<1>8. /\ \A k \in Keys : \A u \in Threads \ {t} : slot'[k][u] = slot[k][u]
      /\ \A k \in Keys \ {key} : slot'[k][t] = slot[k][t]
  <2>1. PICK x \in Conns \cup {None} : slot' = [slot EXCEPT ![key][t] = x]
    BY <1>2, <1>5 DEF c
  <2> QED BY <1>3, <1>4, <2>1
<1>9. Exits'
  <2>1. /\ UNCHANGED <<exiter, pending>> /\ key' = key /\ pc'[t] # "atexit"
        /\ \A u \in Threads \ {t} : pc'[u] = pc[u] /\ cleaning'[u] = cleaning[u]
    BY <1>1
  <2>2. \A k \in Keys : \A u \in Threads \ {t} : slot'[k][u] = slot[k][u]
    BY <1>8
  <2>3. exiter # None => exiter \in Threads
    BY <1>3
  <2> QED BY <1>6, <2>1, <2>2, <2>3, ExitKept
<1>10. (Ended' <=> Ended) /\ \A d \in Conns : d[2] \in Nat /\ (d[2] > calls' => d[2] > calls)
  <2>1. \A d \in Conns : d[2] \in Nat
    BY DEF Conns
  <2>2. \A d \in Conns : d[2] > calls' => d[2] > calls
    BY <1>1, <1>3, <2>1
  <2> QED BY <1>1, <2>1, <2>2 DEF Ended
<1>11. CASE /\ slot' = [slot EXCEPT ![key][t] = c]
            /\ cliOpen' = [cliOpen EXCEPT ![c] = TRUE]
            /\ session' = [session EXCEPT ![c] = "serving"]
            /\ inbox' = [inbox EXCEPT ![c] = <<"call">>]
            /\ faults' = faults
  <2>1. /\ slot'[key][t] = c /\ cliOpen'[c] /\ session'[c] = "serving"
        /\ inbox'[c] = <<"call">>
    BY <1>3, <1>4, <1>5, <1>11
  <2>2. ASSUME NEW d \in Conns, d # c
        PROVE  inbox'[d] = inbox[d] /\ session'[d] = session[d] /\ cliOpen'[d] = cliOpen[d]
    BY <1>3, <1>11, <2>2
  <2>3. \A d \in Conns : session[d] # "none" => session'[d] # "none"
    BY <2>1, <2>2
  <2>4. ASSUME NEW u \in Threads PROVE Slots(u)'
    <3>1. Slots(u)
      BY DEF LifecycleInv
    <3>2. Cleaning(u)' => Owns(u, cleaning[u])'
      BY <1>1, <2>3, <3>1 DEF Slots, Owns, Cleaning
    <3>3. ASSUME NEW k \in Keys, slot'[k][u] # None
          PROVE  Owns(u, slot[k][u])' /\ k <= key
      <4>1. CASE u = t /\ k = key
        <5>1. slot'[k][u] = c /\ k <= key
          BY <1>3, <2>1, <4>1
        <5> QED BY <1>5, <2>1, <4>1, <5>1 DEF Owns
      <4>2. CASE ~(u = t /\ k = key)
        <5>1. slot'[k][u] = slot[k][u]
          BY <1>8, <4>2
        <5> QED BY <2>3, <3>1, <3>3, <5>1 DEF Slots, Owns
      <4> QED BY <4>1, <4>2
    <3> QED BY <1>1, <3>2, <3>3 DEF Slots
  <2>5. ASSUME NEW d \in Conns PROVE Fresh(d)' /\ Alive(d)' /\ Told(d)'
    <3>1. Fresh(d) /\ Alive(d) /\ Told(d)
      BY DEF LifecycleInv
    <3>2. CASE d # c
      <4>1. Fresh(d)'
        BY <1>1, <1>10, <2>2, <3>1, <3>2 DEF Fresh
      <4>2. Alive(d)'
        BY <1>1, <1>10, <1>11, <2>2, <3>1, <3>2 DEF Alive
      <4>3. Told(d)'
        BY <1>1, <1>10, <1>11, <2>2, <3>1, <3>2 DEF Told
      <4> QED BY <4>1, <4>2, <4>3
    <3>3. CASE d = c
      <4>1. Fresh(d)'
        BY <1>1, <1>3, <1>5, <2>1, <3>3 DEF Fresh
      <4>2. Alive(d)'
        BY <1>1, <1>7, <2>1, <3>3 DEF Alive
      <4>3. handler'[d].connected /\ stops'[d] = 0 /\ session'[d] # "bye"
        BY <1>1, <1>7, <2>1, <3>3 DEF NewHandler
      <4>4. \A i \in DOMAIN inbox'[d] : inbox'[d][i] # "stop"
        BY <2>1, <3>3
      <4>5. Told(d)'
        BY <4>3, <4>4 DEF Told
      <4> QED BY <4>1, <4>2, <4>5
    <3> QED BY <3>2, <3>3
  <2>6. ExitWaitsForCalls'
    <3> SUFFICES ASSUME NEW u \in Threads,
                        exiter = u /\ pending = 0 /\ pc[u] \in {"atexit", "ended"},
                        key # 0 /\ key \notin deleted, slot'[key][u] # None, faults = 0
                 PROVE  inbox'[slot'[key][u]] = <<>>
      BY <1>1, <1>11 DEF ExitWaitsForCalls
    <3>1. u # t /\ slot'[key][u] = slot[key][u]
      BY <1>4, <1>6, <1>8
    <3>2. inbox[slot[key][u]] = <<>>
      BY <3>1 DEF LifecycleInv, ExitWaitsForCalls
    <3>3. slot[key][u] \in Conns /\ slot[key][u] # c
      BY <1>5, <3>1, SlotOwned
    <3> QED BY <2>2, <3>1, <3>2, <3>3
  <2> QED BY <1>9, <2>4, <2>5, <2>6 DEF Kept
<1>12. CASE /\ faults' = faults + 1
            /\ slot' = [slot EXCEPT ![key][t] = None]
            /\ UNCHANGED <<cliOpen, session, inbox>>
  <2>1. slot'[key][t] = None /\ faults' # 0
    BY <1>3, <1>4, <1>12
  <2>2. ASSUME NEW u \in Threads PROVE Slots(u)'
    <3>1. Slots(u)
      BY DEF LifecycleInv
    <3>2. \A k \in Keys : slot'[k][u] # None => slot'[k][u] = slot[k][u]
      BY <1>8, <2>1
    <3> QED BY <1>1, <1>12, <3>1, <3>2 DEF Slots, Owns, Cleaning
  <2>3. ASSUME NEW d \in Conns PROVE Fresh(d)' /\ Alive(d)' /\ Told(d)'
    <3>1. Fresh(d) /\ Alive(d) /\ Told(d)
      BY DEF LifecycleInv
    <3>2. Fresh(d)'
      BY <1>1, <1>10, <1>12, <3>1 DEF Fresh
    <3>3. Alive(d)'
      BY <1>1, <1>10, <1>12, <2>1, <3>1 DEF Alive
    <3>4. Told(d)'
      BY <1>1, <1>10, <1>12, <2>1, <3>1 DEF Told
    <3> QED BY <3>2, <3>3, <3>4
  <2>4. ExitWaitsForCalls'
    BY <2>1 DEF ExitWaitsForCalls
  <2> QED BY <1>9, <2>2, <2>3, <2>4 DEF Kept
<1> QED BY <1>2, <1>11, <1>12

-----------------------------------------------------------------------------
\* gloip_cleanupHandler.

\* The thread that cleans up is alone with its connection.
LEMMA CleaningOwned ==
    ASSUME LifecycleInv, NEW t \in Threads, Cleaning(t)
    PROVE  /\ cleaning[t] \in Conns /\ cleaning[t][1] = t
           /\ session[cleaning[t]] # "none"
           /\ ~Ended
<1>1. Owns(t, cleaning[t])
  BY DEF LifecycleInv, Slots
<1>2. ~Ended
  BY DEF Ended, Cleaning
<1> QED BY <1>1, <1>2 DEF Owns

\* A cleanup that returns leaves the thread to its destructors or to exit().
LEMMA CleanupKeepsExit ==
    ASSUME LifecycleInv, NEW t \in Threads, Cleaning(t), CleanupReturns(t),
           UNCHANGED <<key, slot, cleaning, exiter, pending>>,
           \A c \in Conns : session[c] # "none" => session'[c] # "none"
    PROVE  /\ (\A u \in Threads : Slots(u)') /\ Exits'
           /\ pc'[t] \in {"atexit", "destructors"} /\ pc'[t] # "running"
           /\ pc'[t] = "atexit" => exiter = t
           /\ \A u \in Threads \ {t} : pc'[u] = pc[u]
<1>1. pc \in [Threads -> {"running", "destructors", "atexit", "stop", "bye", "ended"}]
  BY DEF LifecycleInv, LifecycleTypeOK
<1>2. /\ pc'[t] = IF exiter = t THEN "atexit" ELSE "destructors"
      /\ \A u \in Threads \ {t} : pc'[u] = pc[u]
  BY <1>1 DEF CleanupReturns
<1>3. ASSUME NEW u \in Threads PROVE Slots(u)'
  <2>1. Slots(u)
    BY DEF LifecycleInv
  <2> QED BY <1>2, <2>1 DEF Slots, Owns, Cleaning
<1>4. Exits'
  BY <1>2 DEF LifecycleInv, Exits, Cleaning
<1> QED BY <1>2, <1>3, <1>4

\* What a step of the thread t at the connection c that it cleans up does to
\* another connection.
LEMMA OthersKept ==
    ASSUME LifecycleInv, NEW t \in Threads, NEW d \in Conns,
           Cleaning(t), d # cleaning[t], pc'[t] # "running",
           \A u \in Threads \ {t} : pc'[u] = pc[u] /\ cleaning'[u] = cleaning[u],
           handler'[d] = handler[d], cliOpen'[d] = cliOpen[d],
           inbox'[d] = inbox[d], session'[d] = session[d], stops'[d] = stops[d],
           UNCHANGED <<broken, calls>>, faults' = faults \/ faults' # 0
    PROVE  Fresh(d)' /\ Alive(d)' /\ Told(d)'
<1>1. Fresh(d) /\ Alive(d) /\ Told(d) /\ ~Ended /\ d[1] \in Threads
  BY CleaningOwned DEF LifecycleInv, Conns
<1>2. Fresh(d)'
  BY <1>1 DEF Fresh
<1>3. Alive(d)'
  BY <1>1 DEF Alive
<1>4. Told(d)'
  BY <1>1 DEF Told
<1> QED BY <1>2, <1>3, <1>4

\* The shutdown packet goes behind everything the thread has sent, and no other
\* went before it.
LEMMA SendStopKeeps ==
    ASSUME LifecycleInv, NEW t \in Threads, SendStop(t) PROVE Kept
<1> DEFINE c == cleaning[t]
<1>1. /\ UNCHANGED <<key, deleted, slot, cleaning, exiter, pending, calls>>
      /\ UNCHANGED <<handler, cliOpen, broken, session, faults>>
      /\ pc[t] = "stop" /\ Works(c)
      /\ inbox' = [inbox EXCEPT ![c] = Append(inbox[c], "stop")]
      /\ stops' = [stops EXCEPT ![c] = stops[c] + 1]
      /\ pc' = [pc EXCEPT ![t] = "bye"]
  BY DEF SendStop, keyVars
<1>2. /\ inbox \in [Conns -> Seq({"call", "stop"})]
      /\ stops \in [Conns -> Nat]
      /\ pc \in [Threads -> {"running", "destructors", "atexit", "stop", "bye", "ended"}]
      /\ exiter \in Threads \cup {None}
  BY DEF LifecycleInv, LifecycleTypeOK
<1>3. Cleaning(t)
  BY <1>1 DEF Cleaning
<1>4. c \in Conns /\ c[1] = t /\ session[c] # "none" /\ ~Ended
  BY <1>3, CleaningOwned
<1>5. /\ pc'[t] = "bye" /\ \A u \in Threads \ {t} : pc'[u] = pc[u]
      /\ inbox'[c] = Append(inbox[c], "stop") /\ stops'[c] = stops[c] + 1
  BY <1>1, <1>2, <1>4
<1>6. ASSUME NEW u \in Threads PROVE Slots(u)'
  BY <1>1, <1>3, <1>5 DEF LifecycleInv, Slots, Owns, Cleaning
<1>7. Exits'
  BY <1>1, <1>3, <1>5 DEF LifecycleInv, Exits, Cleaning
<1>8. ASSUME NEW d \in Conns PROVE Fresh(d)' /\ Alive(d)' /\ Told(d)'
  <2>1. CASE d # c
    <3>1. inbox'[d] = inbox[d] /\ stops'[d] = stops[d]
      BY <1>1, <1>2, <2>1
    <3> QED BY <1>1, <1>3, <1>5, <2>1, <3>1, OthersKept
  <2>2. CASE d = c
    <3>1. Fresh(d) /\ Alive(d) /\ Told(d)
      BY DEF LifecycleInv
    <3>2. stops[d] = 0
      BY <1>1, <1>4, <2>2, <3>1 DEF Told
    <3>3. /\ session[d] # "bye" /\ stops'[d] = 1
          /\ \A i \in DOMAIN inbox[d] : inbox[d][i] # "stop"
      BY <1>5, <2>2, <3>1, <3>2 DEF Told
    <3>4. Fresh(d)'
      BY <1>1, <1>4, <2>2, <3>1 DEF Fresh
    <3>5. Alive(d)'
      BY <1>1, <1>4, <2>2, <3>1 DEF Alive
    <3>6. \A i \in DOMAIN inbox'[d] : inbox'[d][i] = "stop" => i = Len(inbox'[d])
      <4>1. PICK b \in Seq({"call", "stop"}) : b = inbox[d]
        BY <1>2
      <4>2. inbox'[d] = Append(b, "stop")
        BY <1>5, <2>2, <4>1
      <4>3. \A i \in DOMAIN b : b[i] # "stop"
        BY <3>3, <4>1
      <4> QED BY <4>2, <4>3
    <3>7. pc'[d[1]] = "bye" /\ cleaning'[d[1]] = d
      BY <1>1, <1>4, <1>5, <2>2
    <3>8. Told(d)'
      BY <1>1, <2>2, <3>3, <3>6, <3>7 DEF Told
    <3> QED BY <3>4, <3>5, <3>8
  <2> QED BY <2>1, <2>2
<1>9. ExitWaitsForCalls'
  <2> SUFFICES ASSUME NEW u \in Threads,
                      exiter = u /\ pending = 0 /\ pc'[u] \in {"atexit", "ended"},
                      key # 0 /\ key \notin deleted, slot[key][u] # None, faults = 0
               PROVE  inbox'[slot[key][u]] = <<>>
    BY <1>1 DEF ExitWaitsForCalls
  <2>1. u # t /\ pc[u] \in {"atexit", "ended"}
    BY <1>5
  <2>2. inbox[slot[key][u]] = <<>>
    BY <2>1 DEF LifecycleInv, ExitWaitsForCalls
  <2>3. slot[key][u] \in Conns /\ slot[key][u] # c
    BY <1>4, <2>1, SlotOwned
  <2>4. inbox'[slot[key][u]] = inbox[slot[key][u]]
    BY <1>1, <1>2, <2>3
  <2> QED BY <2>2, <2>4
<1> QED BY <1>6, <1>7, <1>8, <1>9 DEF Kept

\* A cleanup that fails finds nothing unread where no fault was: the connection
\* is the one an earlier cleanup has closed.
LEMMA SendStopFailsKeeps ==
    ASSUME LifecycleInv, NEW t \in Threads, SendStopFails(t) PROVE Kept
<1> DEFINE c == cleaning[t]
<1>1. /\ UNCHANGED <<key, deleted, slot, cleaning, exiter, pending, calls>>
      /\ UNCHANGED <<cliOpen, broken, inbox, session, stops, faults>>
      /\ pc[t] = "stop" /\ ~Works(c)
      /\ handler' = [handler EXCEPT ![c].writeMutex = TRUE]
      /\ CleanupReturns(t)
  BY DEF SendStopFails, keyVars, netVars
<1>2. handler \in [Conns -> [connected : BOOLEAN, writeMutex : BOOLEAN,
                              readMutex : BOOLEAN]]
  BY DEF LifecycleInv, LifecycleTypeOK
<1>3. Cleaning(t)
  BY <1>1 DEF Cleaning
<1>4. c \in Conns /\ c[1] = t /\ session[c] # "none" /\ ~Ended
  BY <1>3, CleaningOwned
<1>5. /\ (\A u \in Threads : Slots(u)') /\ Exits'
      /\ pc'[t] \in {"atexit", "destructors"} /\ pc'[t] # "running"
      /\ \A u \in Threads \ {t} : pc'[u] = pc[u]
      /\ pc'[t] = "atexit" => exiter = t
  BY <1>1, <1>3, CleanupKeepsExit
<1>6. /\ handler'[c].connected = handler[c].connected
      /\ \A d \in Conns \ {c} : handler'[d] = handler[d]
  BY <1>1, <1>2, <1>4
<1>7. ASSUME NEW d \in Conns PROVE Fresh(d)' /\ Alive(d)' /\ Told(d)'
  <2>1. CASE d # c
    BY <1>1, <1>3, <1>5, <1>6, <2>1, OthersKept
  <2>2. CASE d = c
    <3>1. Fresh(d) /\ Alive(d) /\ Told(d)
      BY DEF LifecycleInv
    <3>2. Fresh(d)'
      BY <1>1, <1>4, <2>2, <3>1 DEF Fresh
    <3>3. Alive(d)'
      BY <1>1, <1>4, <1>6, <2>2, <3>1 DEF Alive
    <3>4. Told(d)'
      BY <1>1, <1>4, <1>5, <1>6, <2>2, <3>1 DEF Told
    <3> QED BY <3>2, <3>3, <3>4
  <2> QED BY <2>1, <2>2
<1>8. ExitWaitsForCalls'
  <2> SUFFICES ASSUME NEW u \in Threads,
                      exiter = u /\ pending = 0 /\ pc'[u] \in {"atexit", "ended"},
                      key # 0 /\ key \notin deleted, slot[key][u] # None, faults = 0
               PROVE  inbox[slot[key][u]] = <<>>
    BY <1>1 DEF ExitWaitsForCalls
  <2>1. CASE u # t
    BY <1>5, <2>1 DEF LifecycleInv, ExitWaitsForCalls
  <2>2. CASE u = t
    <3>1. slot[key][t] = c
      BY <1>3, <2>2 DEF LifecycleInv, Exits
    <3>2. Alive(c) /\ Told(c)
      BY <1>4 DEF LifecycleInv
    <3> QED BY <1>1, <1>4, <2>2, <3>1, <3>2 DEF Alive, Told
  <2> QED BY <2>1, <2>2
<1> QED BY <1>5, <1>7, <1>8 DEF Kept

\* The goodbye comes after everything has been read.
LEMMA RecvByeKeeps ==
    ASSUME LifecycleInv, NEW t \in Threads, RecvBye(t) PROVE Kept
<1> DEFINE c == cleaning[t]
<1>1. /\ UNCHANGED <<key, deleted, slot, cleaning, exiter, pending, calls>>
      /\ UNCHANGED <<broken, inbox, stops>>
      /\ pc[t] = "bye" /\ session[c] = "bye"
      /\ session' = [session EXCEPT ![c] = "ended"]
      /\ Disconnect(c, handler[c])
      /\ CleanupReturns(t)
  BY DEF RecvBye, keyVars
<1>2. /\ session \in [Conns -> {"none", "serving", "bye", "ended"}]
      /\ handler \in [Conns -> [connected : BOOLEAN, writeMutex : BOOLEAN,
                                readMutex : BOOLEAN]]
  BY DEF LifecycleInv, LifecycleTypeOK
<1>3. Cleaning(t)
  BY <1>1 DEF Cleaning
<1>4. c \in Conns /\ c[1] = t /\ ~Ended
  BY <1>3, CleaningOwned
<1>5. /\ ~cliOpen'[c] /\ (faults' = faults \/ faults' # 0)
      /\ handler'[c].connected =>
            handler[c].connected /\ (cliOpen[c] => faults' # 0)
      /\ session'[c] = "ended"
      /\ \A d \in Conns \ {c} : /\ handler'[d] = handler[d]
                                /\ cliOpen'[d] = cliOpen[d]
                                /\ session'[d] = session[d]
  <2>1. handler[c] \in [connected : BOOLEAN, writeMutex : BOOLEAN, readMutex : BOOLEAN]
    BY <1>2, <1>4
  <2>2. /\ ~cliOpen'[c] /\ (faults' = faults \/ faults' # 0)
        /\ \A d \in Conns \ {c} : handler'[d] = handler[d] /\ cliOpen'[d] = cliOpen[d]
    BY <1>1, <1>4, <2>1, DisconnectsOne
  <2>3. PICK g : /\ handler' = [handler EXCEPT ![c] = g]
                 /\ g.connected => handler[c].connected /\ (cliOpen[c] => faults' # 0)
    BY <1>1, <1>4, <2>1, DisconnectsOne
  <2>4. handler'[c] = g
    BY <1>2, <1>4, <2>3
  <2> QED BY <1>1, <1>2, <1>4, <2>2, <2>3, <2>4
<1>6. \A d \in Conns : session[d] # "none" => session'[d] # "none"
  BY <1>5
<1>7. /\ (\A u \in Threads : Slots(u)') /\ Exits'
      /\ pc'[t] \in {"atexit", "destructors"} /\ pc'[t] # "running"
      /\ \A u \in Threads \ {t} : pc'[u] = pc[u]
  BY <1>1, <1>3, <1>6, CleanupKeepsExit
<1>8. Fresh(c) /\ Alive(c) /\ Told(c) /\ inbox[c] = <<>> /\ stops[c] = 1
  BY <1>1, <1>4 DEF LifecycleInv, Told
<1>9. ASSUME NEW d \in Conns PROVE Fresh(d)' /\ Alive(d)' /\ Told(d)'
  <2>1. CASE d # c
    BY <1>1, <1>3, <1>5, <1>7, <2>1, OthersKept
  <2>2. CASE d = c
    <3>1. Fresh(d)'
      BY <1>1, <1>5, <1>8, <2>2 DEF Fresh
    <3>2. Alive(d)'
      BY <1>1, <1>4, <1>5, <1>8, <2>2 DEF Alive
    <3>3. Told(d)'
      BY <1>1, <1>4, <1>5, <1>7, <1>8, <2>2 DEF Told
    <3> QED BY <3>1, <3>2, <3>3
  <2> QED BY <2>1, <2>2
<1>10. ExitWaitsForCalls'
  <2> SUFFICES ASSUME NEW u \in Threads,
                      exiter = u /\ pending = 0 /\ pc'[u] \in {"atexit", "ended"},
                      key # 0 /\ key \notin deleted, slot[key][u] # None, faults' = 0
               PROVE  inbox[slot[key][u]] = <<>>
    BY <1>1 DEF ExitWaitsForCalls
  <2>1. CASE u # t
    BY <1>5, <1>7, <2>1 DEF LifecycleInv, ExitWaitsForCalls
  <2>2. CASE u = t
    <3>1. slot[key][t] = c
      BY <1>3, <2>2 DEF LifecycleInv, Exits
    <3> QED BY <1>8, <2>2, <3>1
  <2> QED BY <2>1, <2>2
<1> QED BY <1>7, <1>9, <1>10 DEF Kept

\* A thread waits in vain only after a fault: while the process lives, the
\* session of a connected handler ends by a reset.
LEMMA RecvByeFailsKeeps ==
    ASSUME LifecycleInv, NEW t \in Threads, RecvByeFails(t) PROVE Kept
<1> DEFINE c == cleaning[t]
<1>1. /\ UNCHANGED <<key, deleted, slot, cleaning, exiter, pending, calls>>
      /\ UNCHANGED <<cliOpen, broken, inbox, session, stops, faults>>
      /\ pc[t] = "bye" /\ (~Works(c) \/ session[c] = "ended")
      /\ handler' = [handler EXCEPT ![c].readMutex = TRUE]
      /\ CleanupReturns(t)
  BY DEF RecvByeFails, keyVars, netVars
<1>2. handler \in [Conns -> [connected : BOOLEAN, writeMutex : BOOLEAN,
                              readMutex : BOOLEAN]]
  BY DEF LifecycleInv, LifecycleTypeOK
<1>3. Cleaning(t)
  BY <1>1 DEF Cleaning
<1>4. c \in Conns /\ c[1] = t /\ session[c] # "none" /\ ~Ended
  BY <1>3, CleaningOwned
<1>5. /\ (\A u \in Threads : Slots(u)') /\ Exits'
      /\ pc'[t] \in {"atexit", "destructors"} /\ pc'[t] # "running"
      /\ \A u \in Threads \ {t} : pc'[u] = pc[u]
  BY <1>1, <1>3, CleanupKeepsExit
<1>6. /\ handler'[c].connected = handler[c].connected
      /\ \A d \in Conns \ {c} : handler'[d] = handler[d]
  BY <1>1, <1>2, <1>4
<1>7. Fresh(c) /\ Alive(c) /\ Told(c)
  BY <1>4 DEF LifecycleInv
<1>8. ~Works(c)
  BY <1>1, <1>7 DEF Alive
<1>9. ASSUME NEW d \in Conns PROVE Fresh(d)' /\ Alive(d)' /\ Told(d)'
  <2>1. CASE d # c
    BY <1>1, <1>3, <1>5, <1>6, <2>1, OthersKept
  <2>2. CASE d = c
    <3>1. Fresh(d)'
      BY <1>1, <1>4, <1>7, <2>2 DEF Fresh
    <3>2. Alive(d)'
      BY <1>1, <1>4, <1>6, <1>7, <2>2 DEF Alive
    <3>3. Told(d)'
      BY <1>1, <1>4, <1>5, <1>6, <1>7, <1>8, <2>2 DEF Told
    <3> QED BY <3>1, <3>2, <3>3
  <2> QED BY <2>1, <2>2
<1>10. ExitWaitsForCalls'
  <2> SUFFICES ASSUME NEW u \in Threads,
                      exiter = u /\ pending = 0 /\ pc'[u] \in {"atexit", "ended"},
                      key # 0 /\ key \notin deleted, slot[key][u] # None, faults = 0
               PROVE  inbox[slot[key][u]] = <<>>
    BY <1>1 DEF ExitWaitsForCalls
  <2>1. CASE u # t
    BY <1>5, <2>1 DEF LifecycleInv, ExitWaitsForCalls
  <2>2. CASE u = t
    <3>1. slot[key][t] = c
      BY <1>3, <2>2 DEF LifecycleInv, Exits
    <3> QED BY <1>4, <1>7, <1>8, <2>2, <3>1 DEF Alive, Told
  <2> QED BY <2>1, <2>2
<1> QED BY <1>5, <1>9, <1>10 DEF Kept

\* Of a process that has ended nothing is asked but what held before.
LEMMA ProcessEndsKeeps ==
    ASSUME LifecycleInv, NEW t \in Threads, ProcessEnds(t) PROVE Kept
<1>1. /\ UNCHANGED <<key, deleted, slot, cleaning, exiter, pending, calls>>
      /\ UNCHANGED <<handler, broken, inbox, session, stops, faults>>
      /\ pc[t] = "atexit"
      /\ \A u \in Threads : pc'[u] = "ended"
      /\ \A c \in Conns : cliOpen'[c] = FALSE
  BY DEF ProcessEnds, keyVars
<1>2. exiter = t /\ Ended'
  BY <1>1 DEF LifecycleInv, Exits, Ended
<1>3. ASSUME NEW u \in Threads PROVE Slots(u)'
  BY <1>1 DEF LifecycleInv, Slots, Owns, Cleaning
<1>4. Exits'
  BY <1>1 DEF LifecycleInv, Exits, Cleaning
<1>5. ASSUME NEW d \in Conns PROVE Fresh(d)' /\ Alive(d)' /\ Told(d)'
  <2>1. Fresh(d) /\ Alive(d) /\ Told(d) /\ d[1] \in Threads
    BY DEF LifecycleInv, Conns
  <2>2. Fresh(d)'
    BY <1>1, <2>1 DEF Fresh
  <2>3. Alive(d)'
    BY <1>1, <1>2, <2>1 DEF Alive
  <2>4. Told(d)'
    BY <1>1, <1>2, <2>1 DEF Told
  <2> QED BY <2>2, <2>3, <2>4
<1>6. ExitWaitsForCalls'
  BY <1>1, <1>2 DEF LifecycleInv, ExitWaitsForCalls
<1> QED BY <1>3, <1>4, <1>5, <1>6 DEF Kept

-----------------------------------------------------------------------------
\* What a disconnect leaves has its type.
LEMMA DisconnectTypes ==
    ASSUME LifecycleInv, NEW c \in Conns,
           NEW h \in [connected : BOOLEAN, writeMutex : BOOLEAN, readMutex : BOOLEAN],
           Disconnect(c, h)
    PROVE  /\ cliOpen' \in [Conns -> BOOLEAN] /\ faults' \in Nat
           /\ handler' \in [Conns -> [connected : BOOLEAN, writeMutex : BOOLEAN,
                                      readMutex : BOOLEAN]]
<1>1. /\ handler \in [Conns -> [connected : BOOLEAN, writeMutex : BOOLEAN,
                                readMutex : BOOLEAN]]
      /\ cliOpen \in [Conns -> BOOLEAN]
  BY DEF LifecycleInv, LifecycleTypeOK
<1>2. PICK g \in [connected : BOOLEAN, writeMutex : BOOLEAN, readMutex : BOOLEAN] :
        handler' = [handler EXCEPT ![c] = g]
  BY DisconnectsOne
<1>3. cliOpen' = [cliOpen EXCEPT ![c] = FALSE] /\ faults' \in Nat
  BY DisconnectsOne
<1> QED BY <1>1, <1>2, <1>3

\* A step keeps the types.
LEMMA TypesNext ==
    ASSUME LifecycleInv, [Next]_vars PROVE LifecycleTypeOK'
<1> USE DEF LifecycleTypeOK
<1>1. LifecycleTypeOK
  BY DEF LifecycleInv
<1>2. CASE UNCHANGED vars
  BY <1>1, <1>2 DEF vars, keyVars, threadVars, netVars
<1>3. ASSUME NEW t \in Threads, Initialize(t) PROVE LifecycleTypeOK'
  BY <1>1, <1>3, SMTT(30) DEF Initialize, Registered, netVars
<1>4. ASSUME NEW t \in Threads, Shutdown(t) PROVE LifecycleTypeOK'
  <2>1. deleted' \subseteq Keys
    BY <1>1, <1>4 DEF Shutdown, Keys
  <2> QED BY <1>1, <1>4, <2>1 DEF Shutdown, threadVars, netVars
<1>5. ASSUME NEW t \in Threads, Call(t) PROVE LifecycleTypeOK'
  <2>1. slot[key][t] \in Conns
    BY <1>5, SlotOwned DEF Call, Callable, Usable
  <2>2. PICK c \in Conns : c = slot[key][t]
    BY <2>1
  <2>3. calls' \in 0..MaxCalls
    BY <1>1, <1>5, SMTT(30) DEF Call, Callable
  <2>4. inbox' \in [Conns -> Seq({"call", "stop"})]
    <3>1. PICK b \in Seq({"call", "stop"}) : b = inbox[c]
      BY <1>1
    <3>2. Append(b, "call") \in Seq({"call", "stop"})
      OBVIOUS
    <3>3. inbox' = inbox \/ inbox' = [inbox EXCEPT ![c] = Append(b, "call")]
      BY <1>5, <2>2, <3>1 DEF Call
    <3> QED BY <1>1, <3>2, <3>3
  <2>5. /\ cliOpen' \in [Conns -> BOOLEAN] /\ faults' \in Nat
        /\ handler' \in [Conns -> [connected : BOOLEAN, writeMutex : BOOLEAN,
                                   readMutex : BOOLEAN]]
    <3>1. PICK h \in [connected : BOOLEAN, writeMutex : BOOLEAN, readMutex : BOOLEAN] :
            h = [handler[c] EXCEPT !.writeMutex = TRUE]
      <4>1. PICK g \in [connected : BOOLEAN, writeMutex : BOOLEAN, readMutex : BOOLEAN] :
              g = handler[c]
        BY <1>1
      <4>2. [g EXCEPT !.writeMutex = TRUE]
               \in [connected : BOOLEAN, writeMutex : BOOLEAN, readMutex : BOOLEAN]
        OBVIOUS
      <4> QED BY <4>1, <4>2
    <3>2. UNCHANGED <<handler, cliOpen, faults>> \/ Disconnect(c, h)
      BY <1>5, <2>2, <3>1 DEF Call
    <3>3. CASE UNCHANGED <<handler, cliOpen, faults>>
      BY <1>1, <3>3
    <3>4. CASE Disconnect(c, h)
      <4> HIDE DEF LifecycleTypeOK
      <4> QED BY <1>1, <3>4, DisconnectTypes
    <3> QED BY <3>2, <3>3, <3>4
  <2> QED BY <1>1, <1>5, <2>3, <2>4, <2>5 DEF Call, keyVars
<1>6. ASSUME NEW t \in Threads, CallConnects(t) PROVE LifecycleTypeOK'
  <2>1. calls' \in 0..MaxCalls /\ calls + 1 \in 1..MaxCalls
    BY <1>1, <1>6 DEF CallConnects, Callable
  <2>2. <<t, calls + 1>> \in Conns /\ key \in Keys
    BY <1>1, <1>6, <2>1 DEF Conns, Keys, CallConnects, Callable
  <2>3. slot' \in [Keys -> [Threads -> Conns \cup {None}]]
    <3>1. PICK x \in Conns \cup {None} : slot' = [slot EXCEPT ![key][t] = x]
      BY <1>6, <2>2 DEF CallConnects
    <3> QED BY <1>1, <2>2, <3>1
  <2>4. inbox' \in [Conns -> Seq({"call", "stop"})]
    <3>1. PICK c \in Conns : c = <<t, calls + 1>>
      BY <2>2
    <3>2. <<"call">> \in Seq({"call", "stop"})
      OBVIOUS
    <3>3. inbox' = inbox \/ inbox' = [inbox EXCEPT ![c] = <<"call">>]
      BY <1>6, <3>1 DEF CallConnects
    <3> QED BY <1>1, <3>2, <3>3
  <2>5. cliOpen' \in [Conns -> BOOLEAN]
    BY <1>1, <1>6 DEF CallConnects
  <2>6. session' \in [Conns -> {"none", "serving", "bye", "ended"}]
    BY <1>1, <1>6 DEF CallConnects
  <2>7. faults' \in Nat
    BY <1>1, <1>6 DEF CallConnects, Fault
  <2> QED BY <1>1, <1>6, <2>1, <2>3, <2>4, <2>5, <2>6, <2>7
          DEF CallConnects, keyVars
<1>7. ASSUME NEW t \in Threads, ThreadExit(t) PROVE LifecycleTypeOK'
  BY <1>1, <1>7 DEF ThreadExit, keyVars, netVars
<1>8. ASSUME NEW t \in Threads, ProcessExit(t) PROVE LifecycleTypeOK'
  BY <1>1, <1>8 DEF ProcessExit, keyVars, netVars
<1>9. ASSUME NEW t \in Threads, Destruct(t) PROVE LifecycleTypeOK'
  <2>1. PICK k \in Destructors(t) :
          /\ slot' = [slot EXCEPT ![k][t] = None]
          /\ cleaning' = [cleaning EXCEPT ![t] = slot[k][t]]
    BY <1>9 DEF Destruct
  <2>2. k \in Keys
    BY DEF Destructors
  <2>3. slot[k][t] \in Conns \cup {None}
    BY <1>1, <2>2
  <2>4. slot' \in [Keys -> [Threads -> Conns \cup {None}]]
    BY <1>1, <2>1, <2>2
  <2>5. cleaning' \in [Threads -> Conns \cup {None}]
    BY <1>1, <2>1, <2>3
  <2>6. pc' \in [Threads -> {"running", "destructors", "atexit", "stop", "bye", "ended"}]
    BY <1>1, <1>9 DEF Destruct
  <2> QED BY <1>1, <1>9, <2>4, <2>5, <2>6 DEF Destruct, keyVars, netVars
<1>10. ASSUME NEW t \in Threads, ThreadEnds(t) PROVE LifecycleTypeOK'
  <2>1. exiter' \in Threads \cup {None}
    BY <1>1, <1>10 DEF ThreadEnds
  <2>2. pc' \in [Threads -> {"running", "destructors", "atexit", "stop", "bye", "ended"}]
    BY <1>1, <1>10 DEF ThreadEnds
  <2> QED BY <1>1, <1>10, <2>1, <2>2 DEF ThreadEnds, keyVars, netVars
<1>11. ASSUME NEW t \in Threads, RunAtExit(t) PROVE LifecycleTypeOK'
  <2>1. pending > 0 /\ pending <= key /\ pending' = pending - 1
    BY <1>11 DEF LifecycleInv, Exits, RunAtExit
  <2>2. key \in Keys /\ pending' \in Nat
    BY <1>1, <2>1 DEF Keys
  <2>3. cleaning' \in [Threads -> Conns \cup {None}]
    <3>1. PICK x \in Conns \cup {None} : x = slot[key][t]
      BY <1>1, <2>2
    <3>2. cleaning' = cleaning \/ cleaning' = [cleaning EXCEPT ![t] = x]
      BY <1>11, <3>1 DEF RunAtExit
    <3> QED BY <1>1, <3>2
  <2>4. pc' \in [Threads -> {"running", "destructors", "atexit", "stop", "bye", "ended"}]
    BY <1>1, <1>11 DEF RunAtExit
  <2> QED BY <1>1, <1>11, <2>2, <2>3, <2>4 DEF RunAtExit, keyVars, netVars
<1>12. ASSUME NEW t \in Threads, ProcessEnds(t) PROVE LifecycleTypeOK'
  BY <1>1, <1>12 DEF ProcessEnds, keyVars
<1>13. ASSUME NEW t \in Threads, SendStop(t) PROVE LifecycleTypeOK'
  <2>1. PICK c \in Conns : c = cleaning[t]
    BY <1>13, CleaningOwned DEF SendStop, Cleaning
  <2>2. inbox' \in [Conns -> Seq({"call", "stop"})]
    <3>1. PICK b \in Seq({"call", "stop"}) : b = inbox[c]
      BY <1>1
    <3>2. Append(b, "stop") \in Seq({"call", "stop"})
      OBVIOUS
    <3>3. inbox' = [inbox EXCEPT ![c] = Append(b, "stop")]
      BY <1>13, <2>1, <3>1 DEF SendStop
    <3> QED BY <1>1, <3>2, <3>3
  <2>3. stops' \in [Conns -> Nat]
    <3>1. PICK n \in Nat : n = stops[c]
      BY <1>1
    <3>2. stops' = [stops EXCEPT ![c] = n + 1]
      BY <1>13, <2>1, <3>1 DEF SendStop
    <3> QED BY <1>1, <3>2
  <2>4. pc' \in [Threads -> {"running", "destructors", "atexit", "stop", "bye", "ended"}]
    BY <1>1, <1>13 DEF SendStop
  <2> QED BY <1>1, <1>13, <2>2, <2>3, <2>4 DEF SendStop, keyVars
<1>14. ASSUME NEW t \in Threads, SendStopFails(t) PROVE LifecycleTypeOK'
  <2>1. PICK c \in Conns : c = cleaning[t]
    BY <1>14, CleaningOwned DEF SendStopFails, Cleaning
  <2>2. handler' = [handler EXCEPT ![c].writeMutex = TRUE]
    BY <1>14, <2>1 DEF SendStopFails
  <2>3. handler' \in [Conns -> [connected : BOOLEAN, writeMutex : BOOLEAN,
                                readMutex : BOOLEAN]]
    <3>1. PICK h \in [connected : BOOLEAN, writeMutex : BOOLEAN, readMutex : BOOLEAN] :
            h = handler[c]
      BY <1>1
    <3>2. [h EXCEPT !.writeMutex = TRUE]
             \in [connected : BOOLEAN, writeMutex : BOOLEAN, readMutex : BOOLEAN]
      OBVIOUS
    <3>3. handler' = [handler EXCEPT ![c] = [h EXCEPT !.writeMutex = TRUE]]
      BY <1>1, <2>2, <3>1
    <3> QED BY <1>1, <3>2, <3>3
  <2>4. pc' \in [Threads -> {"running", "destructors", "atexit", "stop", "bye", "ended"}]
    BY <1>1, <1>14 DEF SendStopFails, CleanupReturns
  <2> QED BY <1>1, <1>14, <2>3, <2>4 DEF SendStopFails, keyVars, netVars
<1>15. ASSUME NEW t \in Threads, RecvBye(t) PROVE LifecycleTypeOK'
  <2>1. PICK c \in Conns : c = cleaning[t]
    BY <1>15, CleaningOwned DEF RecvBye, Cleaning
  <2>2. Disconnect(c, handler[c])
    BY <1>15, <2>1 DEF RecvBye
  <2>3. handler[c] \in [connected : BOOLEAN, writeMutex : BOOLEAN, readMutex : BOOLEAN]
    BY <1>1
  <2>4. /\ cliOpen' \in [Conns -> BOOLEAN] /\ faults' \in Nat
        /\ handler' \in [Conns -> [connected : BOOLEAN, writeMutex : BOOLEAN,
                                   readMutex : BOOLEAN]]
    BY <2>2, <2>3, DisconnectTypes
  <2>5. pc' \in [Threads -> {"running", "destructors", "atexit", "stop", "bye", "ended"}]
    BY <1>1, <1>15 DEF RecvBye, CleanupReturns
  <2>6. session' \in [Conns -> {"none", "serving", "bye", "ended"}]
    BY <1>1, <1>15 DEF RecvBye
  <2> QED BY <1>1, <1>15, <2>4, <2>5, <2>6 DEF RecvBye, keyVars
<1>16. ASSUME NEW t \in Threads, RecvByeFails(t) PROVE LifecycleTypeOK'
  BY <1>1, <1>16, ZenonT(30) DEF RecvByeFails, CleanupReturns, keyVars, netVars
<1>17. ASSUME NEW c \in Conns, Serve(c) PROVE LifecycleTypeOK'
  <2>1. inbox[c] \in Seq({"call", "stop"}) /\ inbox[c] # <<>>
    BY <1>1, <1>17 DEF Serve
  <2>2. Tail(inbox[c]) \in Seq({"call", "stop"})
    BY <2>1
  <2>3. inbox' \in [Conns -> Seq({"call", "stop"})]
    BY <1>1, <1>17, <2>2 DEF Serve
  <2>4. session' \in [Conns -> {"none", "serving", "bye", "ended"}]
    BY <1>1, <1>17 DEF Serve, StopAnswered
  <2> QED BY <1>1, <1>17, <2>3, <2>4 DEF Serve, keyVars, threadVars
<1>18. ASSUME NEW c \in Conns, SessionEnds(c) PROVE LifecycleTypeOK'
  BY <1>1, <1>18 DEF SessionEnds, keyVars, threadVars
<1>19. ASSUME NEW c \in Conns, Break(c) PROVE LifecycleTypeOK'
  BY <1>1, <1>19, SMTT(30) DEF Break, Fault, keyVars, threadVars
<1> QED
  <2> HIDE DEF LifecycleTypeOK
  <2> QED BY <1>2, <1>3, <1>4, <1>5, <1>6, <1>7, <1>8, <1>9, <1>10, <1>11, <1>12,
             <1>13, <1>14, <1>15, <1>16, <1>17, <1>18, <1>19
          DEF Next, Program, Exiting, ServerStep

\* When nothing changes, nothing is lost.
LEMMA StutterKeeps ==
    ASSUME LifecycleInv, UNCHANGED vars PROVE Kept
<1>1. /\ UNCHANGED <<keyVars, threadVars>>
      /\ UNCHANGED <<handler, netVars, faults>>
      /\ UNCHANGED <<key, deleted, slot, pc, cleaning, exiter, pending, calls, inbox,
                     session>>
  BY DEF vars, keyVars, threadVars, netVars
<1>2. (\A t \in Threads : Slots(t)') /\ Exits'
  BY <1>1, ThreadsKept
<1>3. \A c \in Conns : Fresh(c)' /\ Alive(c)' /\ Told(c)'
  BY <1>1, ConnectionsKept DEF GoesOn
<1>4. ExitWaitsForCalls'
  BY <1>1 DEF LifecycleInv, ExitWaitsForCalls
<1> QED BY <1>2, <1>3, <1>4 DEF Kept

-----------------------------------------------------------------------------
\* Nothing has happened in a process that has just started.
LEMMA InitLifecycle == Init => LifecycleInv
<1> SUFFICES ASSUME Init PROVE LifecycleInv
  OBVIOUS
<1> USE DEF Init
<1>1. LifecycleTypeOK
  BY DEF LifecycleTypeOK, NewHandler
<1>2. ASSUME NEW t \in Threads PROVE Slots(t)
  BY DEF Slots, Cleaning
<1>3. ASSUME NEW c \in Conns PROVE Fresh(c) /\ Alive(c) /\ Told(c)
  <2>1. Fresh(c) /\ Alive(c)
    BY DEF Fresh, Alive
  <2>2. Told(c)
    BY DEF Told, NewHandler
  <2> QED BY <2>1, <2>2
<1>4. Exits
  BY DEF Exits, Cleaning
<1>5. ExitWaitsForCalls
  BY DEF ExitWaitsForCalls
<1> QED BY <1>1, <1>2, <1>3, <1>4, <1>5 DEF LifecycleInv

\* Every step keeps the invariant.
LEMMA NextLifecycle == LifecycleInv /\ [Next]_vars => LifecycleInv'
<1> SUFFICES ASSUME LifecycleInv, [Next]_vars PROVE LifecycleInv'
  OBVIOUS
<1>1. LifecycleTypeOK'
  BY TypesNext
<1>2. Kept
  <2>1. ASSUME NEW t \in Threads, Program(t) PROVE Kept
    BY <2>1, InitializeKeeps, ShutdownKeeps, CallKeeps, CallConnectsKeeps,
       ThreadExitKeeps, ProcessExitKeeps DEF Program
  <2>2. ASSUME NEW t \in Threads, Exiting(t) PROVE Kept
    BY <2>2, DestructKeeps, ThreadEndsKeeps, RunAtExitKeeps, ProcessEndsKeeps,
       SendStopKeeps, SendStopFailsKeeps, RecvByeKeeps, RecvByeFailsKeeps DEF Exiting
  <2>3. ASSUME NEW c \in Conns, ServerStep(c) \/ Break(c) PROVE Kept
    BY <2>3, ServeKeeps, SessionEndsKeeps, BreakKeeps DEF ServerStep
  <2> QED BY <2>1, <2>2, <2>3, StutterKeeps DEF Next
<1> QED BY <1>1, <1>2 DEF LifecycleInv, Kept

\* Whatever the number of threads, keys, calls and faults, the state of every
\* process is as LifecycleInv says.
THEOREM LifecycleInvariance == Spec => []LifecycleInv
BY InitLifecycle, NextLifecycle, PTL DEF Spec

\* gloip_cleanupHandler, as destructor and as exit handler registered any number
\* of times, tells the server once that a connection ends.
THEOREM SaysGoodbyeOnce == Spec => []GoodbyeOnce
<1>1. LifecycleInv => GoodbyeOnce
  <2> SUFFICES ASSUME LifecycleInv, NEW c \in Conns PROVE stops[c] <= 1
    BY DEF GoodbyeOnce
  <2>1. stops[c] \in Nat /\ (stops[c] # 0 => stops[c] = 1)
    BY DEF LifecycleInv, LifecycleTypeOK, Told
  <2> QED BY <2>1
<1> QED BY <1>1, LifecycleInvariance, PTL

\* exit() ends only after the server has read everything that the thread which
\* called it had sent, unless a connection failed.
THEOREM WaitsBeforeExit == Spec => []ExitWaitsForCalls
<1>1. LifecycleInv => ExitWaitsForCalls
  BY DEF LifecycleInv
<1> QED BY <1>1, LifecycleInvariance, PTL

=============================================================================
