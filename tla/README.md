# A TLA+ model of GLoIP

GLoIP forwards the calls of an OpenGL ES program over TCP to a server that
executes them. This directory holds TLA+ modules that model the client library,
the server library and the connections between them, TLC configurations that
check them on small instances, and TLAPS proofs of some of their properties for
every instance. Paths of the form `client/...`, `server/...` are those of the
repository.

## The system

| part | state | operations |
|---|---|---|
| client call path (`client/gloip_client.cpp`) | per thread: the `IOHandler` in the slot of `connectionKey`; the locals of the call under way | `gloip_execute`: take or make a connection, write the request, wait for the response; `gloip_cleanupHandler` when the thread exits; `gloip_initialize`, `gloip_shutdown` |
| client IO handler (`client/IOHandler.cpp`, `client/TcpIOHandler.cpp`) | descriptor, `connected`, a read and a write mutex | `connect`, `writeAll`, `readAll`, `disconnect` |
| server accept loop (`gloip_startServer`, `server/TcpServer.cpp`) | listening socket, the connection in handshake | accept, handshake, start a detached thread, or return |
| server command loop (`gloip_mainLoop`, `gloip_handleNextCommand`, `server/TcpSocket.cpp`) | per connection: the request under way and its heap-allocated arguments | read a request and its arguments, run the GL function, write the response; answer a shutdown packet; close |
| argument marshalling (`Argument` and its subclasses on both sides) | argument buffers, return memory | encode, decode, match results to arguments |
| TCP | two byte streams per connection, the accept queue | may reset, refuse, or leave packets unread |
| life of the client process (`gloip_initialize`, `gloip_shutdown`, `gloip_mainThreadExit`) | `connectionKey`, each thread's slot, the registered exit handlers | initialize, shut down, destructors when a thread ends, exit handlers when the process does |
| code generators (`*_generator.py`, `generator_common.py`) and build scripts | the header, its metadata, the two libraries built from them | parse both files; decide the hash of a function, whether a call waits, and the kinds of its arguments |

A client thread and its server thread talk over one connection: handshake,
requests (header, then one packet per argument), responses (header, then one
packet per result), a shutdown packet and its answer. A call whose function
returns nothing does not wait; the thread may send its next request while the
server still executes the last one. All client threads share the accept loop and
its queue, the server's threads share nothing else.

What is hard: client and server must agree about every single packet, because
neither ever checks whose packet it reads; a connection may fail between any two
packets, and then the call must fail without being repeated, without harm to
other threads, and the next call must get a new connection; an IO error leaves a
mutex of the handler locked; a thread that exits must find out that its last
calls were executed; one failing handshake is seen by every other client. What
makes each part correct is stated as properties below.

## Modules

| module | models | composed from |
|---|---|---|
| `Connection` | packets, packet queues, descriptors, resets, accept queue, faults | |
| `Client` | client call path and IO handler, per thread | extends `Connection` |
| `Server` | start of the server, accept loop, and command loop per connection | extends `Connection` |
| `Gloip` | the whole system, its fairness, its properties, its inductive invariant | `Client`, `Server`, an instance of `RemoteCall` |
| `RemoteCall` | what the system promises a program: the abstract specification | |
| `StreamIO` | the loops of `writeAll` and `readAll` over a byte stream, both ends of one direction | an instance of `PacketPipe` |
| `PacketPipe` | what those loops promise: packets arrive whole and in order, or the reader fails | |
| `Marshal` | the data of one call, from the caller's memory to the GL function and back | |
| `Lifecycle` | initialization, shutdown, ends of threads and of the process | |
| `Generators` | the parsers, the two generators, rebuilding after edits | |
| `Protocol` | the inductive invariant of the protocol: what a thread, its queues and its server thread can be in together | extends `Gloip` |
| `GloipProofs` | theorems: types, locks, the frame of every action | extends `Gloip` |
| `ProtocolClient`, `ProtocolServer` | lemmas: the parts of `PInv` under client and server steps | extend `Protocol` and `GloipProofs`, the second the first |
| `ProtocolProofs` | theorems: `PInv`, what follows from it, the refinement of `RemoteCall` | extends `ProtocolServer` |
| `StreamProofs` | theorems about `StreamIO`, the refinement of `PacketPipe` | extends `StreamIO` |
| `LifecycleProofs` | theorems about `Lifecycle` | extends `Lifecycle` |
| `MarshalProofs` | theorems about `Marshal` | extends `Marshal` |
| `GeneratorProofs` | theorems about the parsers and the libraries built from what they read | extends `Generators` |
| `MCGloip`, `MCMarshal`, `MCStreamIO`, `MCLifecycle`, `MCGenerators` | constants for TLC | |

The modules fit together at named places. `Connection` takes a packet for one
step; `StreamIO` shows that the loops over `send` and `recv` allow that.
`Connection`'s `Functions` and `Marshal`'s `Signatures` say what generated code
passes to the libraries; `Generators` shows that both libraries are generated
with the same kinds of arguments (`KindsAgree`), that a client waits wherever the
server would answer (`ResultsAwaited`, the condition `Waits` of `Marshal`), and
that the hash of a request selects its function (`HashFindsFunction`).
`Lifecycle` takes a call for one step that does not wait, and has in exchange
what `Gloip` leaves out: more than one key, the exit handlers, the end of the
process with threads still running.

### Correspondence

*Packets.* What one `writeAll` sends is a packet; `readAll` of the other side
takes it. The server's reads of one header (identifier, length, body) and the
reads of one argument (length, body) are one step: between them nothing but a
failure can happen, and that failure has the same effect as one before them.
Packets carry, as ghosts, the call they belong to and, in `left`, how many
arguments of it are still to come.

*Connections* are named by the call that opened them: `gloip_getConnection`
opens at most one per call. `cliOpen` and `srvOpen` say whether a side's
descriptor is open, `broken` that the connection was reset. A send to a closed
or reset peer may fail or be lost, a receive fails at the end of the stream, on
a reset, on a closed descriptor, and when the peer has closed with data unread.

*Client.* `pc` follows a thread through `gloip_getConnection`,
`gloip_createConnection`, `gloip_sendRequest`, `gloip_waitForResponse` and
`gloip_cleanupHandler`; each action is the code from one socket call to the
next, with its error returns. `handler` is the `IOHandler`: its two booleans are
the mutexes, which `writeAll` and `readAll` lock and unlock within one step
unless they fail, and then leave locked (`WriteLockLeft`, `ReadLockLeft`).
`Disconnect` leaves `connected` set when `close()` fails. A response header is
taken for what its last byte says, whatever packet it is.

*Server.* `listener` follows `gloip_startServer`, `session[c]` the thread of
connection `c`. `RunFunction` is the call of the GL function, recorded in `log`.
`live[c]` counts the `Argument` objects that were allocated and not deleted.
`SrvClose` closes nothing when `shutdown()` fails, which it may on a reset
connection, and on one that the peer has closed with data unread, which TCP
answers with a reset.

*Start.* `listening` is the listening socket: `StartServer` is the constructor
and `listen` of `TcpServer`, `StartServerFails` their error returns. Without the
fault `late` the server listens before any client starts. A foreign program
(`Stranger`) may connect, send junk, and leave at once, or stay silent.

*Deaths.* `SIGPIPE` is neither ignored nor avoided by the code, so that a write to
a connection that was reset kills the process that writes. `ServerCrashes` and
`ClientCrashes` are the death of either process, for that or another reason, at
any point; a write may also fail with an error, in a program that ignores the
signal. A server that died is started again by whoever runs it.

*StreamIO.* A packet is a sequence of parts, what the reader asks for in one
`readAll`; the sizes after the first are in the bytes it has read before, and the
reader knows nothing else of where packets end. `Write` and `Read` are one
`send()` and one `recv()` of the loops, which transfer between one byte and all
that is left. The
refinement mapping sends the packet in the step that hands its last byte over,
and delivers it when its last `readAll` returns.

*Lifecycle.* `key` is `connectionKey`, which a second `gloip_initialize`
overwrites; `slot[k][t]` what thread `t` has stored under key `k`. The C library's
part (destructors of a thread's slots, exit handlers in the reverse order, which
are all the same function here) is modelled from how the code uses it. A handler
shared by several exit handlers is locked by the first error for the next one.
`Disconnect` is `TcpIOHandler::disconnect` with its error return: a `close()` that
fails leaves the handler connected, and its descriptor released. A thread whose
connected handler has a locked mutex takes no step that needs it.
What `pthread_getspecific` returns for a deleted key is chosen.

*Generators.* A header is a sequence of declarations, metadata a sequence of
lines; edits add or remove one, or `create_meta_template.py` overwrites the
metadata, and either library may be rebuilt at any time.
Python's dictionaries keep the place of the first insertion and the value of the
last, and the model does. Names of functions, of arguments and the flags of a
function are three name spaces, which the dictionaries of the code mix only for
an argument called `custom`, `blocking` or `unsupported`. C types, size
expressions and the text of the generated code are left out.

*Marshal.* An argument's bytes are a token that says where they come from; sizes
are kept, and so are the order of the server's two result loops, the client's
search for the argument a result belongs to (`argIndex`) and the buffer of a
custom argument. Copies that do not fit a buffer are recorded in `overrun`.
The numbers of arguments and of results travel as one byte (`NumArgs`,
`NumReturnArgs`), and wrap as in the code.

Mutants are operators, each before the definition it is a faulty version of, that
show which mistake a property would catch. They are not used by the models.

## Checks

`MCFunctions` has a function that does not wait and one that has a result, both
with an argument: the two ways a call can go, and a request of two packets.

| run | bounds | shows |
|---|---|---|
| `MCFaultFree` | 2 threads, 2 calls each, 1 packet per buffer, queue of 2, no faults | `PInv`; no deadlock; `CallReturns`, `SentIsExecuted`, `ExitEndsSession` |
| `MCReset` | 2 threads, 2 calls each, queue of 3, one reset anywhere | `IInv`, `ContainmentInv`, `InStep`, `ResponseIsOurs`, `NoEarlyExecution`, `CallsNeverSelfDeadlock`, `GoodbyeAfterAllCalls`, `FailureIsContained`, `ImplementsRemoteCall` |
| `MCAllFaults` | 1 thread, 2 calls, two faults of any of the nine kinds | `TypeOK`, `PInv`, `ResponseIsOurs`, `ImplementsRemoteCall`, `CallReturns`, `AbandonedSessionEnds` |
| `MCStreamIO` | 3 packets of 1, 2 or 3 parts, 3 bytes in flight, a reset anywhere | `StreamInv`, `ImplementsPacketPipe`, `WriteAllReturns`, `WrittenIsRead` |
| `MCMarshal` | all calls of up to 3 arguments out of 7 kinds and sizes | `MarshalInv`, `ArgumentsArrive`, `ResultsArrive`, `CopiesFit`, `NothingLeftOver`, no deadlock |
| `MCLifecycle` | 2 threads, 2 calls, 2 initializations, 1 fault | `LifecycleInv`, `GoodbyeOnce`, `ExitWaitsForCalls`, `ExitCompletes`, `SessionsEnd` |
| `MCGenerators` | headers of 2 out of 3 declarations, one function declared twice with different arguments; metadata of 3 lines; one edit between builds | `HashFindsFunction`, `KindsAgree`, `ResultsAwaited`, `BuiltAsDescribed` |

The kinds of faults are: a server that starts late (`late`), refused connects
(`connect`), an `accept()` that fails (`accept`), a `close()` that fails (`close`),
a reset connection (`reset`), a foreign program (`stranger`) and one that stays
silent (`silent`), the death of the server, which is started again
(`servercrash`), and of the program (`clientcrash`).

A buffer of one packet makes every send block that can block, and so covers the
order in which the two sides could wait for each other; larger buffers only let
the client run further ahead. Two threads are what the interaction through the
accept loop and its queue needs: the server's threads share nothing. Two calls
are a call and what it leaves behind for the next one: a new connection, a new
server, or a handler that could not be closed and whose mutex is locked. Two
faults are one during the recovery from another. `MCReset` uses the queue length
of the code (`listen(fd, 3)`), which is what two threads and one fault need
(`Room`, below): with two, connections that were reset fill it, a healthy thread's
`connect()` fails, and TLC finds `FailureIsContained` violated. With three it
cannot overflow. `PInv` is checked with two threads
in `MCFaultFree` and with all faults in `MCAllFaults`. It is symmetric in the threads, which no definition
tells apart; only safety is checked there.

`MCStreamIO` has a packet longer than the buffer (four bytes), so that a send
blocks in its middle, and three packets so that the reader can be two behind.
`MCLifecycle` needs two initializations for a handler that two exit handlers
clean up, or two keys with a slot each; with three, the second clean-up leaves
the write mutex locked for the third and the process hangs without any failure,
which is why `ExitCompletes` is stated for two. One fault reaches a `close()` that
fails after the goodbye, or a call that fails on a reset connection; a call whose
connection is reset and whose `close()` fails too takes two, with which all but
the bound is the same and TLC finds no error either (three minutes). Two declarations and three lines
are a function declared twice, or a block that is replaced; one edit is enough to
put the two libraries apart.

Deadlock is checked where no fault may stop the system. With faults it may: a
client waits for ever for a server that has left its accept loop, and a thread
waits for a mutex it holds itself.

`ImplementsRemoteCall` is the refinement: under the identity mapping of `calls`,
`outcome` and `log`, every behaviour of `Gloip` is one of `RemoteCall`. A call is
executed at most once, one that returned with a result was executed, and the
calls of a thread are executed in their order without a gap except across a call
that failed. A failed call may be executed late, on the old connection, after
the thread has gone on with a new one.

### Fairness

`FairSpec` of `Gloip` assumes weak fairness of each client thread inside the
library, of the accept loop and of each server thread. The threads are scheduled
by the operating
system, a GL function returns, and each of them takes its next step as soon as
data, buffer space or an error is there. Nothing is assumed of the program (it
need not make calls or exit), of the network (it need not fail), or of foreign
programs. TCP delivers or reports an error in the end: a blocked receive on a
reset connection fails. `FairSpec` of `StreamIO` and of `Lifecycle` assume the
same of the writer's and the reader's loop, of a thread that is ending, and of a
server thread; in `Lifecycle` a thread that runs the program need never do
anything.

`CallReturns` excludes what the code has no timeout for: a handshake waits for
ever for a server that has left its accept loop, or whose accept loop waits for
another program that sends nothing.

### What the code does not do

These runs end in a violation, of what the repository says of the program.

| run | violated | what happens |
|---|---|---|
| `ViolAccepting` | `ServerKeepsAccepting` | one connection reset in its handshake ends `gloip_startServer`; the listening socket stays open, later clients wait for ever |
| `ViolArguments` | `ArgumentsDeleted` | the arguments of a call without response are never deleted |
| `ViolExit` | `ExitCompletes` | a thread whose last write failed hangs in `gloip_cleanupHandler`, on the mutex it left locked |
| `ViolReturns` | `EveryReturnArrives` | with two return arguments, both results are stored in the first (`glGetActiveAttrib` has four) |
| `ViolNullBlob` | `NullBlobIsSent` | a null blob keeps its size and is copied from the null pointer (`glBufferData` without data) |

Four more disagreements were seen while modelling and have no run of their own:
after a reset, a client thread's calls go to a new server thread without the old
one's GL context (`client/gloip_client.cpp:181`; README.md says that each client
thread corresponds to one server thread); a custom argument comes back after
all return arguments, not in the order of the signature
(`server/gloip_server.cpp:272`, `GLoIP-protocol.txt:41`); `gloip_shutdown` deletes a
key that its own exit handler still reads; and a third `gloip_initialize` makes
`exit()` hang, as said above.

### Hazards that no property covers

The models have the behaviour, but there is nothing for a property to say: the code
does this, and the repository promises nothing else.

- A call waits without a timeout for a server whose accept loop has returned or is
  kept by a silent program; `CallReturns` excepts it, and so it does not say that
  one bad client leaves the others unharmed (`ServerKeepsAccepting` does, for resets).
- The accept queue of three is too short for more threads or more faults than
  `Room` allows; a refused `connect()` is then a failed call for no fault of its own.
- A descriptor stays open when `shutdown()` fails on the server, and when
  `gloip_cleanupHandler` returns early on the client: `ExitEndsSession` and
  `SessionsEnd` speak of processes in which nothing failed.
- A third `gloip_initialize` makes `exit()` hang without a fault; the run of
  `ExitCompletes` has two.
- A second block of metadata for a function discards the first: `BuiltAsDescribed`
  has this in its description.
- Client and server built from other headers or other metadata call other
  functions: the properties of `Generators` are about files that fit (`Compatible`).

The models do not have: the GL context that is lost with a server thread,
packet sizes at the limit of 32 bits, and the reuse of a released descriptor number.
After a `close()` that failed the handler keeps the number; in the model every
further use of it fails, while in a process that opens another file in between it
would be that file.

## Proofs

TLAPS proves the following for every value of the constants: any sets of threads,
functions, signatures and packet shapes, any numbers of calls, initializations
and faults, any buffer sizes, and headers and metadata of any length. The
invariants that are proved inductive are also invariants of a run, which is where
they were found, except that of `GeneratorProofs`, which speaks of all files.

| module | theorem | establishes |
|---|---|---|
| `GloipProofs` | `TypeCorrect`, `NoSelfDeadlock`, `Invariance` | `TypeOK`, `CallsNeverSelfDeadlock`, `IInv` |
| `ProtocolProofs` | `ProtocolInvariance` | `PInv` |
| | `AlwaysInStep`, `AnswersAreOurs`, `RunsAfterSending`, `GoodbyeIsLast` | `InStep`, `ResponseIsOurs`, `NoEarlyExecution`, `GoodbyeAfterAllCalls` |
| | `Refinement` | `ImplementsRemoteCall` |
| | `ContainmentInvariance`, `FailuresAreContained` | `ContainmentInv`; `FailureIsContained` under `Room` |
| `StreamProofs` | `StreamInvariance`, `StreamRefinement` | `StreamInv`, `ImplementsPacketPipe` |
| `LifecycleProofs` | `LifecycleInvariance`, `SaysGoodbyeOnce`, `WaitsBeforeExit` | `LifecycleInv`, `GoodbyeOnce`, `ExitWaitsForCalls` |
| `MarshalProofs` | `MarshalInvariance` | `MarshalInv` |
| | `ArgumentsAlwaysArrive`, `ResultsAlwaysArrive`, `CopiesAlwaysFit`, `NothingStays` | `ArgumentsArrive`, `ResultsArrive`, `CopiesFit`, `NothingLeftOver` |
| `GeneratorProofs` | `RequestsFindFunctions`, `KindsAlwaysAgree`, `ResultsAlwaysAwaited` | `HashFindsFunction`, `KindsAgree`, `ResultsAwaited` |
| | `LibrariesAsDescribed` | `BuiltAsDescribed` |

The assumptions are those of the constants, and say what a value may be: bounds
are numbers, buffers and queues hold at least one packet, `None` and the foreign
program are not among the things they are told apart from, shapes and signatures
are sequences of sizes and arguments, a signature has one custom argument at
most, which is what the generators allow, and no more than 254 arguments, so that
their number and that of the results (one more) fit the byte each is sent in.

### Types and locks

`TypeOK` is not inductive: what a thread writes has a type only if it knows its
function and its call number, and what it does to its handler only if it has one.
`CallShape`, `HandlerShape` and `RequestShape` say so for the control states in
which it matters; `RequestShape` also bounds the counter of live arguments from
below, so that deleting them cannot make it negative. `LockDiscipline` is the
reason for `CallsNeverSelfDeadlock`: a handler that is connected has both mutexes
free and its descriptor open. The descriptor is part of it because `close()`
fails, and leaves the handler connected, only for a descriptor that is closed
already or when the environment makes it fail; and `HandlerShape` says that a
handler belongs to one thread, so that no other thread closes its descriptor.
The proof has one lemma per client action, one per server process, and one for
the environment, over the parts of the invariant each of them can touch.

### The protocol

Neither side ever checks whose packet it reads, so that the protocol properties
are consequences of where everything else is. `PInv` relates the control state of
a thread, the packets in both directions and the state of its server thread.
A thread is *in session* when it is past the handshake and its descriptor is
open. The parts, each needed by the next:

- `Slot`, `Returned`, `Queued`, `NoStrangers`, `Opened`, `Unopened`, `Handshake`:
  a thread has one connection at a time, opened by the first call or by the one
  after a failure; it is queued once and handed to one session; the handshake is
  the first thing on it.
- `QueueOrder`, `RequestOrder`: the requests on a connection are whole and in
  order, from the one the server's thread is in to the one the client writes, and
  none of them was executed.
- `NothingLost`: while the connection is alive the last packet, or else the
  server's state, is what the thread wrote last.
- `BeforeNext`: what is left on an older connection is older than the calls on a
  newer one. A server thread may go on with an old connection long after its
  client has reconnected; this is what keeps executions in order.
- `OneAwaited`, `Answer`: at most one request on a connection asks for a response,
  it is the one its thread waits for, and what is under way to the thread together
  with what the server has still to write is what the thread has still to read.
- `Goodbye`, `WrittenWhole`: the shutdown packet is the last one; only what was
  written whole is executed.

Each part is about one thread or one connection, and a step of another thread or
connection leaves what it is about as it is, which is proved once (`Quiet`); the
rest of `ProtocolClient` and `ProtocolServer` goes action by action. `InStep`,
`ResponseIsOurs` and `GoodbyeAfterAllCalls` follow from `Answer`,
`NoEarlyExecution` from `WrittenWhole`. The refinement of `RemoteCall` is by the identity on `calls`, `outcome` and `log`: `Execute` is
`Issue`, the actions that end a call are `Return`, `RunFunction` is `Perform`, and
every other step stutters. `RequestOrder` and `Opened` are what makes
`RunFunction` a `Perform`: earlier calls were executed, or the connection was
opened later, by the call after one that failed.

### Containment

`FailureIsContained` says that a call fails only when its own connection was
reset, and only the first one on it. It is false for a short queue: reset
connections wait in the server's queue until they are accepted, and a healthy
thread's `connect()` finds it full. So `FailuresAreContained` has a hypothesis on
the constants, `Room`: the queue holds all threads and all connections that
faults can break (the code's `listen(fd, 3)` does for two threads and one fault,
which is `MCReset`), and the faults are resets and foreign programs (`Contained`).
It is also about a server that accepts: after its accept loop has returned,
nothing is promised.

The conjuncts of `ContainmentInv` need each other. `InQueue`
says what waits in the queue: threads in their handshake, each once, connections
that were reset, and one foreign program. `FaultsCounted` charges the last two to
a fault each, so that a thread that is not in the queue leaves it shorter than
`Cardinality(Threads) + MaxFaults`. `ServerStays` is the other way for a call to
fail: no server thread closes a connection its client still uses, which rests on
`PInv`, as the packets it reads are the expected ones in their order. `NoneFailed`
says that a handler that will be used again has had no failed call, which makes
the failed one the first.

### Bytes and packets

`StreamInv` says that the bytes in flight (what the reader has assembled, its
buffer, the connection) are the rest of the packet being read, then whole packets
in order, then the part of the last one that `writeAll` has handed over (`Runs`,
`InOrder`), with nothing missing as long as there was no reset (`Complete`). From
it follows that a `readAll` that returns has read a part of the right packet and
nothing else, whatever `send()` and `recv()` transferred at a time, and so that
each step is one of `PacketPipe` or stutters. A packet's length is a sum over
its shape, written as a recursive function; that it exists and grows with each
part is proved from the well-foundedness of the numbers (`LeastNumber`), as the
induction theorems of the library cannot be used.

### The process

`LifecycleInv` says whose a handler is (`Slots`), that a connected handler has its
descriptor as long as nothing failed (`Alive`), that the shutdown packet is the
last one on its connection and that after it nothing written to the handler
arrives (`Told`), and how many exit
handlers are left to run (`Exits`): one for every key until the process exits, and
the last one cleans up the handler under the last key. `Told` makes the second clean-up of a
handler harmless: the handler is disconnected, or its descriptor or its
connection is gone, and what the second one writes fails.

### The data of a call

`MarshalInv` says that arguments arrive in order (`ArgumentsInOrder`), what the
function left in them (`Computed`), and where each result is. `Owed` is the set of
arguments with a result, and the return value; `Unwritten` those the server's
loops have not reached. `ResultsAddUp` relates their cardinalities to the number
in the header, which the server computes by another loop than the ones that
write: this gives `NothingLeftOver`. `ResultsInPlace` says that each owed result
is unwritten, under way, or stored where it belongs; it holds when there is one
return argument at most, as `argIndex` never moves on (see `ViolReturns`).

### The generators

The only state that matters is which files a library was built from:
`LibrariesInv` says that a library is what its script makes of two files that it
could read, and for the server that `writeFunctionArray` found every hash in its
place. The rest is about the parsers, which go through a file line by line; the
model has them as recursive functions of the line number. `HeaderAfterDef` and
`MetaAfterDef` prove that these functions exist for files of any length. That
something holds after every line is then proved from its first exception
(`FirstLine`: a nonempty set of numbers has a least element), since the library's
induction theorems cannot be used.

After `n` declarations (`HeaderKnown`) the table holds the last declaration of
each function with its number, and in the order in which Python keeps the keys no
function comes later than it was first declared. A hash that is the function's
place in that order leaves only one possibility: the first declaration is the
last one. This is why the server's check is enough for `HashFindsFunction`
even though the client's script makes none: a header that begins the server's
header then has no repeated declaration either (`SamePlace`). `KindsAgree` and
`ResultsAwaited` need besides that both scripts read the same metadata.

After `n` lines of metadata (`MetaKnown`) the parser knows whether the next line
is text, which functions have had a `func` line, which block it is in, and for
each function the flags and the sizes of its last block. `Block` is that block
read as a whole, by quantifiers over line numbers (the files' own comment says
what a block is; that the last one for a function counts is what the parser does,
and no description says so), and
`BlockStep` says what one more line does to it: nothing if the line is text, a new
and empty block for one function if it is a `func` line, one more line of the
current block otherwise. `BuiltAsDescribed` follows for any files.

### Model-checked only

- Liveness, which TLAPS does not handle with fairness: `CallReturns`,
  `SentIsExecuted`, `ExitEndsSession`, `AbandonedSessionEnds`, `WriteAllReturns`,
  `WrittenIsRead`, `ExitCompletes`, `SessionsEnd`; and that there is no deadlock,
  which is about `ENABLED`.

## Plan

Done: the composition of client, server and connections with its faults and its
refinement of `RemoteCall`; the loops below it (`StreamIO`); the data of a call
(`Marshal`); the process around it (`Lifecycle`); the generators; the theorems
above. Left:

1. What a step may never do, as action properties with proofs: a handler that was
   given up is not taken again, a call that returned is not changed.

## Not modelled

- The Khronos headers (`include/`, `protocols/gl32/gl32.h`): third-party
  declarations, nine tenths of the repository's C lines. They are input of the
  generators, as are the sample protocols; `MCGenerators` has small ones instead.
  Of the test protocol's custom code, `getProperty` is a custom argument of
  `Marshal`.
- The text that the generators write, C types and size expressions, the table of
  GL type sizes, and the compiler's part of the build scripts.
- `gloip_getGlError` and `gloip_setGlError`, which nothing calls.
- Replies the client rejects (a welcome or goodbye with other bytes) and requests
  the server rejects (another packet identifier): with these two libraries on the
  two ends they do not occur.
- Wrap-around of 32-bit packet sizes.
- Descriptor numbers: a descriptor is open or closed, and is not given to
  another file of the process after it was closed.
- Threads that use a handler while `exit()` cleans it up: `gloip_mainThreadExit`
  works on the handler of the thread that exits only.
