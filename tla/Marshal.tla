------------------------------- MODULE Marshal --------------------------------
(***************************************************************************)
(* The data of one forwarded call: the client writes the arguments, the    *)
(* server rebuilds them, runs the GL function on them and writes the       *)
(* results, and the client stores each result where it belongs             *)
(* (gloip_writeArgument, gloip_readArgument, the second half of            *)
(* gloip_handleNextCommand, gloip_waitForResponse).  Packets arrive in the *)
(* order they were sent; module Gloip says how they may fail to arrive.    *)
(*                                                                         *)
(* The bytes of argument i are the token In(i), what the GL function       *)
(* leaves for argument i is Out(i), and its return value is Out(0).        *)
(***************************************************************************)
EXTENDS Naturals, Sequences, FiniteSets

CONSTANTS
    Signatures,   \* argument lists: sequences of [kind, size, null] records
    CustomSizes   \* sizes a custom implementation may reallocate to

Kinds == {"primitive", "blob", "return", "custom"}

\* null: the pointer passed for a blob is a null pointer.
ArgumentShapes == [kind : Kinds, size : Nat, null : BOOLEAN]

\* GLoIP-protocol.txt allows at most one custom argument.  The two numbers that
\* headers carry, of arguments and of results, are one byte each: no function of
\* OpenGL comes near 254 arguments.
ASSUME SignaturesAssumption ==
    /\ Signatures \subseteq Seq(ArgumentShapes)
    /\ \A s \in Signatures : Len(s) <= 254
    /\ \A s \in Signatures : \A i, j \in DOMAIN s :
          s[i].kind = "custom" /\ s[j].kind = "custom" => i = j

ASSUME SizesAssumption == CustomSizes \subseteq Nat

VARIABLES
    sig,       \* the arguments of the call
    nonVoid,   \* the function returns a value
    wait,      \* waitForReturn
    cli,       \* where the client is
    cursor,    \* arguments written, then results read
    c2s,       \* argument packets under way
    srv,       \* where the server is
    args,      \* the server's array of arguments
    index,     \* index of the server's loops over it
    s2c,       \* the response header and results under way
    expected,  \* numReturnArgs of the header the client has read
    argIndex,  \* the client's search for the next return argument
    memory,    \* what the caller's memory for argument i holds, 0: the result
    sizes,     \* sizes of the client's argument buffers
    overrun   \* a copy went beyond one of its buffers

callVars == <<sig, nonVoid, wait>>
clientVars == <<cli, cursor, expected, argIndex, memory, sizes, overrun>>
serverVars == <<srv, args, index>>
vars == <<callVars, clientVars, serverVars, c2s, s2c>>

In(i) == [from |-> "client", arg |-> i]
Out(i) == [from |-> "server", arg |-> i]
Nothing == [from |-> "nobody", arg |-> 0]

IsReturn(i) == sig[i].kind = "return"
IsCustom(i) == sig[i].kind = "custom"

-----------------------------------------------------------------------------
(***************************************************************************)
(* The client's arguments.                                                 *)
(***************************************************************************)
\* The constructor of BlobArgument means to empty a blob without data, but
\* assigns its parameter: the size written is the size passed.
BlobSize(a) == a.size

\* A primitive travels in eight bytes, of which the first size are set; of a
\* return argument only the size is sent.
ArgumentPacket(i) ==
    [kind |-> sig[i].kind,
     size |-> IF sig[i].kind = "blob" THEN BlobSize(sig[i]) ELSE sig[i].size,
     pad |-> IF sig[i].kind = "primitive" THEN "garbage" ELSE "none",
     data |-> IF IsReturn(i) THEN Nothing ELSE In(i)]

WriteArgument ==
    /\ cli = "send"
    /\ cursor < Len(sig)
    /\ LET i == cursor + 1 IN
       \/ /\ sig[i].null /\ BlobSize(sig[i]) > 0
          /\ cli' = "crashed"  \* memcpy from a null pointer
          /\ UNCHANGED <<cursor, c2s>>
       \/ /\ ~sig[i].null \/ BlobSize(sig[i]) = 0
          /\ c2s' = Append(c2s, ArgumentPacket(i))
          /\ cursor' = i
          /\ UNCHANGED cli
    /\ UNCHANGED <<callVars, serverVars, s2c, expected, argIndex, memory,
                   sizes, overrun>>

AllArgumentsWritten ==
    /\ cli = "send"
    /\ cursor = Len(sig)
    /\ cli' = IF wait THEN "header" ELSE "returned"
    /\ cursor' = 0
    /\ UNCHANGED <<callVars, serverVars, c2s, s2c, expected, argIndex, memory,
                   sizes, overrun>>

-----------------------------------------------------------------------------
(***************************************************************************)
(* The server.                                                             *)
(***************************************************************************)
\* Mutant: a primitive is copied with its eight bytes.
DecodePadded(p) == p

\* The constructors of the server's arguments: a primitive is zero-extended, a
\* return argument gets a buffer of the size asked for.
Decode(p) == IF p.kind = "primitive" THEN [p EXCEPT !.pad = "zero"] ELSE p

\* The byte of the request header, as the client casts it.
NumArgs == Len(sig) % 256

ReadArgument ==
    /\ srv = "read"
    /\ Len(args) < NumArgs
    /\ c2s # <<>>
    /\ args' = Append(args, Decode(Head(c2s)))
    /\ c2s' = Tail(c2s)
    /\ UNCHANGED <<callVars, clientVars, srv, index, s2c>>

\* A custom implementation reallocates its argument for what it sends back, as
\* getProperty of the test protocol does.
CustomResult(a, i, size) == [a EXCEPT !.data = Out(i), !.size = size]

\* The generated function stores into the buffers of the return arguments and
\* the return value; a custom function has code of its own.
RunFunction ==
    /\ srv = "read"
    /\ Len(args) = NumArgs
    /\ \E size \in CustomSizes :
          args' = [i \in DOMAIN args |->
                      CASE args[i].kind = "return" -> [args[i] EXCEPT !.data = Out(i)]
                        [] args[i].kind = "custom" -> CustomResult(args[i], i, size)
                        [] OTHER -> args[i]]
    /\ srv' = IF wait THEN "header" ELSE "done"
    /\ UNCHANGED <<callVars, clientVars, index, c2s, s2c>>

\* Mutant: custom arguments are sent back but not counted.
CountedWithoutCustom == {"return"}

Counted == {"return", "custom"}

\* A uint8_t, incremented.
NumReturnArgs ==
    (Cardinality({i \in DOMAIN args : args[i].kind \in Counted})
        + IF nonVoid THEN 1 ELSE 0) % 256

WriteHeader ==
    /\ srv = "header"
    /\ s2c' = Append(s2c, [kind |-> "header", count |-> NumReturnArgs])
    /\ srv' = IF nonVoid THEN "value" ELSE "returns"
    /\ index' = 1
    /\ UNCHANGED <<callVars, clientVars, args, c2s>>

WriteReturnValue ==
    /\ srv = "value"
    /\ s2c' = Append(s2c, [kind |-> "primitive", size |-> 8, data |-> Out(0)])
    /\ srv' = "returns"
    /\ UNCHANGED <<callVars, clientVars, args, index, c2s>>

\* A loop over the arguments that sends back those of one kind.
WriteResults(kind, next) ==
    /\ \/ /\ index <= Len(args)
          /\ args[index].kind = kind
          /\ s2c' = Append(s2c, [kind |-> kind, size |-> args[index].size,
                                 data |-> args[index].data])
          /\ index' = index + 1
          /\ UNCHANGED srv
       \/ /\ index <= Len(args)
          /\ args[index].kind # kind
          /\ index' = index + 1
          /\ UNCHANGED <<srv, s2c>>
       \/ /\ index > Len(args)
          /\ srv' = next
          /\ index' = 1
          /\ UNCHANGED s2c
    /\ UNCHANGED <<callVars, clientVars, args, c2s>>

\* The return arguments come first, then the custom one.
WriteReturns == srv = "returns" /\ WriteResults("return", "customs")
WriteCustom == srv = "customs" /\ WriteResults("custom", "done")

-----------------------------------------------------------------------------
(***************************************************************************)
(* The client's results.                                                   *)
(***************************************************************************)
ReadHeader ==
    /\ cli = "header"
    /\ s2c # <<>>
    /\ expected' = Head(s2c).count
    /\ s2c' = Tail(s2c)
    /\ cli' = "results"
    /\ UNCHANGED <<callVars, serverVars, c2s, cursor, argIndex, memory, sizes,
                   overrun>>

\* Mutant: the argument at argIndex, whatever its kind.
NextReturnUnsearched(k) == k

\* The first return argument from k on; it is not stepped over afterwards.
NextReturn(k) ==
    LET found == {i \in k..Len(sig) : IsReturn(i)}
    IN  IF found = {} THEN Len(sig) + 1
        ELSE CHOOSE i \in found : \A j \in found : i <= j

\* Mutant: the custom argument keeps its buffer.
ReallocatedNever(old, provided) == old

\* The custom argument's buffer grows to what the server sent, and never shrinks.
Reallocated(old, provided) == IF provided > old THEN provided ELSE old

StoreValue(p) ==
    /\ p.kind = "primitive"
    /\ memory' = [memory EXCEPT ![0] = p.data]
    /\ UNCHANGED <<argIndex, sizes, overrun>>

\* As many bytes are copied as the caller's argument has.
StoreReturn(p) ==
    /\ p.kind = "return"
    /\ argIndex' = NextReturn(argIndex)
    /\ memory' = [memory EXCEPT ![argIndex'] = p.data]
    /\ overrun' = (overrun \/ sig[argIndex'].size > p.size)
    /\ UNCHANGED sizes

\* As many bytes are copied as the server sent.
StoreCustom(p) ==
    /\ p.kind = "custom"
    /\ \E i \in DOMAIN sig :
          /\ IsCustom(i)
          /\ sizes' = [sizes EXCEPT ![i] = Reallocated(@, p.size)]
          /\ memory' = [memory EXCEPT ![i] = p.data]
          /\ overrun' = (overrun \/ p.size > sizes'[i])
    /\ UNCHANGED argIndex

ReadResult ==
    /\ cli = "results"
    /\ cursor < expected
    /\ s2c # <<>>
    /\ s2c' = Tail(s2c)
    /\ cursor' = cursor + 1
    /\ \/ StoreValue(Head(s2c))
       \/ StoreReturn(Head(s2c))
       \/ StoreCustom(Head(s2c))
    /\ UNCHANGED <<callVars, serverVars, c2s, cli, expected>>

AllResultsRead ==
    /\ cli = "results"
    /\ cursor = expected
    /\ cli' = "returned"
    /\ UNCHANGED <<callVars, serverVars, c2s, s2c, cursor, expected, argIndex,
                   memory, sizes, overrun>>

-----------------------------------------------------------------------------
\* client_generator.py: a call with a return value or a return argument waits;
\* another one when its metadata says "blocking" or its custom code wants to.
Waits(s, value) ==
    IF value \/ \E i \in DOMAIN s : s[i].kind = "return" THEN {TRUE} ELSE BOOLEAN

Init ==
    /\ sig \in Signatures
    /\ nonVoid \in BOOLEAN
    /\ wait \in Waits(sig, nonVoid)
    /\ cli = "send" /\ srv = "read"
    /\ cursor = 0 /\ index = 1 /\ expected = 0 /\ argIndex = 1
    /\ args = <<>> /\ c2s = <<>> /\ s2c = <<>>
    /\ memory = [i \in 0..Len(sig) |-> Nothing]
    /\ sizes = [i \in DOMAIN sig |-> sig[i].size]
    /\ overrun = FALSE

\* The call is over, and the server ready for the next one.
Terminated ==
    /\ \/ cli = "crashed"
       \/ cli = "returned" /\ srv = "done"
    /\ UNCHANGED vars

Next ==
    \/ WriteArgument \/ AllArgumentsWritten
    \/ ReadArgument \/ RunFunction
    \/ WriteHeader \/ WriteReturnValue \/ WriteReturns \/ WriteCustom
    \/ ReadHeader \/ ReadResult \/ AllResultsRead
    \/ Terminated

Spec == Init /\ [][Next]_vars

-----------------------------------------------------------------------------
\* What the GL function is called with is what the caller passed: every
\* argument in its place, a primitive zero-extended to eight bytes.
ArgumentsArrive ==
    srv = "read" /\ Len(args) = Len(sig) =>
        \A i \in DOMAIN sig :
            args[i] = [kind |-> sig[i].kind, size |-> sig[i].size,
                       pad |-> IF sig[i].kind = "primitive" THEN "zero" ELSE "none",
                       data |-> IF IsReturn(i) THEN Nothing ELSE In(i)]

OneReturn == \A i, j \in DOMAIN sig : IsReturn(i) /\ IsReturn(j) => i = j

Delivered ==
    /\ memory[0] = IF nonVoid THEN Out(0) ELSE Nothing
    /\ \A i \in DOMAIN sig :
          memory[i] = IF IsReturn(i) \/ IsCustom(i) THEN Out(i) ELSE Nothing

\* A call that waits ends with the return value, the custom argument and the
\* return argument, when there is only one, where the caller looks for them.
ResultsArrive == cli = "returned" /\ wait /\ OneReturn => Delivered

\* With one return argument, results are copied within both buffers: the server
\* sends as much as the client asked for, and a custom argument grows.
CopiesFit == OneReturn => ~overrun

\* When the call is over on both sides nothing of it is left on the connection:
\* the number announced is the number sent and the number read.
NothingLeftOver == cli = "returned" /\ srv = "done" => c2s = <<>> /\ s2c = <<>>

-----------------------------------------------------------------------------
\* README.md: GLoIP "sends back the data that was stored in the pointer", of
\* every blob return argument.
EveryReturnArrives == cli = "returned" /\ wait => Delivered

\* BlobArgument::BlobArgument: if(data == nullptr) { size = 0; }
NullBlobIsSent == cli # "crashed"

-----------------------------------------------------------------------------
(***************************************************************************)
(* The inductive invariant of MarshalProofs.                               *)
(***************************************************************************)
Tokens == [from : {"client", "server", "nobody"}, arg : Nat]
Arguments == [kind : Kinds, size : Nat, pad : {"garbage", "zero", "none"},
              data : Tokens]
Headers == [kind : {"header"}, count : Nat]
Results == [kind : Kinds, size : Nat, data : Tokens]

MarshalTypeOK ==
    /\ sig \in Signatures /\ nonVoid \in BOOLEAN /\ wait \in BOOLEAN
    /\ cli \in {"send", "crashed", "header", "results", "returned"}
    /\ srv \in {"read", "header", "value", "returns", "customs", "done"}
    /\ cursor \in Nat /\ index \in Nat \ {0} /\ expected \in Nat
    /\ argIndex \in Nat
    /\ args \in Seq(Arguments) /\ c2s \in Seq(Arguments)
    /\ s2c \in Seq(Headers \cup Results)
    /\ memory \in [0..Len(sig) -> Tokens] /\ sizes \in [DOMAIN sig -> Nat]
    /\ overrun \in BOOLEAN

\* The arguments the client has written are those the server has read and those
\* under way, in their order.
ArgumentsInOrder ==
    /\ cli = "send" => cursor <= Len(sig)
    /\ cli = "crashed" => cursor < Len(sig)
    /\ Len(args) + Len(c2s) = IF cli \in {"send", "crashed"} THEN cursor ELSE Len(sig)
    /\ \A i \in DOMAIN c2s : c2s[i] = ArgumentPacket(Len(args) + i)
    /\ srv = "read" => \A i \in DOMAIN args : args[i] = Decode(ArgumentPacket(i))

\* What the function has left in the server's arguments.
Computed ==
    srv # "read" =>
        /\ Len(args) = Len(sig)
        /\ \A i \in DOMAIN sig :
              /\ args[i].kind = sig[i].kind
              /\ IsReturn(i) => args[i].size = sig[i].size /\ args[i].data = Out(i)
              /\ IsCustom(i) => args[i].data = Out(i)

\* What a call that waits gets back, and what of it is not written yet; 0 is the
\* return value.
Owed ==
    {i \in DOMAIN sig : IsReturn(i) \/ IsCustom(i)} \cup (IF nonVoid THEN {0} ELSE {})

Unwritten ==
    {i \in Owed :
        \/ srv \in {"read", "header", "value"}
        \/ i # 0 /\ IsReturn(i) /\ srv = "returns" /\ index <= i
        \/ i # 0 /\ IsCustom(i) /\ srv = "returns"
        \/ i # 0 /\ IsCustom(i) /\ srv = "customs" /\ index <= i}

\* The packet that brings back i.
ResultOf(p, i) ==
    /\ p \in Results /\ p.data = Out(i)
    /\ p.kind = IF i = 0 THEN "primitive" ELSE sig[i].kind
    /\ i # 0 /\ IsReturn(i) => p.size = sig[i].size

\* The results under way follow a header, until that is read.
HeaderFirst ==
    /\ ~wait => s2c = <<>> /\ srv \in {"read", "done"} /\ cli \notin {"header", "results"}
    /\ nonVoid \/ (\E i \in DOMAIN sig : IsReturn(i)) => wait
    /\ srv = "value" => nonVoid /\ index = 1
    /\ srv \in {"read", "header"} =>
          s2c = <<>> /\ (wait => cli \in {"send", "crashed", "header"})
    /\ wait /\ srv \notin {"read", "header"} /\ cli \notin {"results", "returned"} =>
          /\ s2c # <<>>
          /\ s2c[1] = [kind |-> "header", count |-> Cardinality(Owed)]
    /\ \A k \in DOMAIN s2c :
          k # 1 \/ cli \in {"results", "returned"} => \E i \in Owed : ResultOf(s2c[k], i)

\* The number in the header is the number of the results that are read, under
\* way, or not written yet.
ResultsAddUp ==
    /\ cli = "header" => cursor = 0
    /\ wait /\ srv \notin {"read", "header"} /\ cli \notin {"results", "returned"} =>
          Len(s2c) + Cardinality(Unwritten) = Cardinality(Owed) + 1
    /\ wait /\ cli \in {"results", "returned"} =>
          /\ expected = Cardinality(Owed)
          /\ cursor + Len(s2c) + Cardinality(Unwritten) = expected
          /\ cli = "returned" => cursor = expected

\* With one return argument every result is stored, under way, or not written
\* yet, and nothing else is stored.
ResultsInPlace ==
    /\ argIndex # 1 => argIndex \in DOMAIN sig /\ IsReturn(argIndex)
    /\ OneReturn =>
          /\ ~overrun
          /\ \A i \in 0..Len(sig) :
                memory[i] # Nothing => i \in Owed /\ memory[i] = Out(i)
          /\ wait => \A i \in Owed :
                \/ i \in Unwritten
                \/ \E k \in DOMAIN s2c : ResultOf(s2c[k], i)
                \/ memory[i] = Out(i)

MarshalInv ==
    /\ MarshalTypeOK /\ ArgumentsInOrder /\ Computed
    /\ HeaderFirst /\ ResultsAddUp /\ ResultsInPlace

=============================================================================
