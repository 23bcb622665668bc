------------------------------ MODULE Generators -------------------------------
(***************************************************************************)
(* The two code generators.  build_client.py and build_server.py each read *)
(* the header and the metadata of a protocol at the time they are run, and *)
(* nothing in the protocol tells a client which header its server was      *)
(* built from: a function is known by its position among the declarations. *)
(*                                                                         *)
(* A declaration is a name, a return type that is void or not, whether     *)
(* there is a pointer in it, and the names of its arguments; a metadata    *)
(* line is a command and the name it is about.  Types, size expressions    *)
(* and the text of the code are left out.                                  *)
(***************************************************************************)
EXTENDS Naturals, Sequences, SequencesExt

CONSTANTS
    Names,         \* names of functions
    Args,          \* names of arguments
    Declarations,  \* what a header may declare
    NoName,        \* currentFunction = "", and a line without a name
    MaxHeader,     \* bound: declarations in a header
    MaxMeta,       \* bound: lines in a metadata file
    MaxEdits       \* bound: edits of the two files

ASSUME GeneratorsAssumption ==
    /\ Declarations \subseteq [name : Names, nonVoid : BOOLEAN,
                               pointer : BOOLEAN, args : Seq(Args)]
    /\ NoName \notin Names \cup Args
    /\ MaxHeader \in Nat /\ MaxMeta \in Nat /\ MaxEdits \in Nat

Flags == {"custom", "blocking", "unsupported"}

MetaLines ==
    [cmd : {"func"}, name : Names]
    \cup [cmd : {"bsize", "rsize"}, name : Args]
    \cup [cmd : Flags \cup {"check_param", "header", "endheader"}, name : {NoName}]

Files(S, n) == UNION {[1..k -> S] : k \in 0..n}

VARIABLES
    header,  \* the header: a sequence of declarations
    meta,    \* the metadata: a sequence of lines
    client,  \* the client library, and the files it was built from
    server,  \* the server library, likewise
    edits    \* edits so far

vars == <<header, meta, client, server, edits>>

-----------------------------------------------------------------------------
(***************************************************************************)
(* generator_common.py.                                                    *)
(***************************************************************************)
\* A dictionary with one more or another entry.
Put(dictionary, key, value) ==
    [k \in DOMAIN dictionary \cup {key} |->
        IF k = key THEN value ELSE dictionary[k]]

NoMetadata == [flags |-> {}, args |-> <<>>]

\* Mutant: a second block for a function adds to the first.
KeepsBlock(functions, name) ==
    IF name \in DOMAIN functions THEN functions[name] ELSE NoMetadata

NewBlock(functions, name) == NoMetadata

\* One command.  failed: it is about no function, and the lookup raises KeyError.
MetaCommand(m, line) ==
    LET f == m.current
        Entry(e) == [m EXCEPT !.functions = Put(@, f, e)]
        Argument(type) ==
            Entry([m.functions[f] EXCEPT !.args = Put(@, line.name, type)])
    IN  CASE line.cmd = "func" ->
               [m EXCEPT !.current = line.name,
                         !.functions = Put(@, line.name, NewBlock(@, line.name))]
          [] line.cmd = "header" -> [m EXCEPT !.text = TRUE]
          [] line.cmd = "endheader" -> m
          [] line.cmd \notin {"func", "header", "endheader"}
             /\ f \notin DOMAIN m.functions ->
               [m EXCEPT !.failed = TRUE]
          [] line.cmd = "bsize" /\ f \in DOMAIN m.functions -> Argument("blob")
          [] line.cmd = "rsize" /\ f \in DOMAIN m.functions -> Argument("return")
          [] line.cmd \in Flags /\ f \in DOMAIN m.functions ->
               [Entry([m.functions[f] EXCEPT !.flags = @ \cup {line.cmd}])
                   EXCEPT !.current = IF line.cmd = "custom" THEN NoName ELSE f]
          [] line.cmd = "check_param" /\ f \in DOMAIN m.functions -> m

\* text: readHeader copies the lines up to endheader, or to the end of the file.
MetaLine(m, line) ==
    IF m.text THEN [m EXCEPT !.text = line.cmd # "endheader"]
    ELSE MetaCommand(m, line)

\* What is known before the first line of a metadata file, and after each.
NoLines == [current |-> NoName, functions |-> <<>>, text |-> FALSE, failed |-> FALSE]

MetaAfter(lines) ==
    LET m[n \in 0..Len(lines)] ==
            IF n = 0 THEN NoLines ELSE MetaLine(m[n - 1], lines[n])
    IN  m

parseMetaFile(lines) == MetaAfter(lines)[Len(lines)]

\* A dictionary keeps the place of the first declaration of a name and the
\* value of the last; the hash counts declarations.
HeaderLine(h, decl) ==
    [h EXCEPT !.order = IF decl.name \in DOMAIN h.functions
                          THEN @ ELSE Append(@, decl.name),
              !.functions = Put(@, decl.name, [decl |-> decl, hash |-> h.count]),
              !.count = @ + 1]

NoDeclarations == [order |-> <<>>, functions |-> <<>>, count |-> 0]

HeaderAfter(decls) ==
    LET h[n \in 0..Len(decls)] ==
            IF n = 0 THEN NoDeclarations ELSE HeaderLine(h[n - 1], decls[n])
    IN  h

parseHeaderFile(decls) == HeaderAfter(decls)[Len(decls)]

MetaArgs(m, name) ==
    IF name \in DOMAIN m.functions THEN m.functions[name] ELSE NoMetadata

-----------------------------------------------------------------------------
(***************************************************************************)
(* client_generator.py and server_generator.py.                            *)
(***************************************************************************)
\* Mutant: the server takes return arguments for blobs.
AllBlobs(a, name) == IF name \in DOMAIN a.args THEN "blob" ELSE "primitive"

ArgumentType(a, name) ==
    IF name \in DOMAIN a.args THEN a.args[name] ELSE "primitive"

ServerArgumentType(a, name) == ArgumentType(a, name)

\* Mutant: return arguments do not make the client wait.
WaitsForPrimitive(a, decl) == decl.nonVoid \/ "blocking" \in a.flags

WaitForReturn(a, decl) ==
    \/ decl.nonVoid
    \/ \E i \in DOMAIN decl.args : ArgumentType(a, decl.args[i]) = "return"
    \/ "blocking" \in a.flags

\* A custom function gets its hash and no code, an unsupported one code that
\* sends nothing.
ClientFunction(a, f) ==
    [hash |-> f.hash,
     code |-> IF "custom" \in a.flags THEN "none"
              ELSE IF "unsupported" \in a.flags THEN "stub" ELSE "request",
     wait |-> WaitForReturn(a, f.decl),
     kinds |-> [i \in DOMAIN f.decl.args |-> ArgumentType(a, f.decl.args[i])]]

ServerFunction(a, f) ==
    [code |-> IF "custom" \in a.flags THEN "none"
              ELSE IF "unsupported" \in a.flags THEN "stub" ELSE "redirect",
     returnedSomething |-> f.decl.nonVoid,
     kinds |-> [i \in DOMAIN f.decl.args |-> ServerArgumentType(a, f.decl.args[i])]]

Generated(m, h, WriteFunction(_, _)) ==
    [name \in DOMAIN h.functions |->
        WriteFunction(MetaArgs(m, name), h.functions[name])]

\* Mutant: the order is not looked at.
AnyOrder(h) == TRUE

\* writeFunctionArray raises an exception unless each hash is the place.
HashesInOrder(h) ==
    \A i \in DOMAIN h.order : h.functions[h.order[i]].hash = i - 1

-----------------------------------------------------------------------------
NotBuilt == [built |-> FALSE, header |-> <<>>, meta |-> <<>>,
             functions |-> <<>>, array |-> <<>>]

\* An exception ends the script before the compiler runs: the library built
\* before stays.
BuildClient ==
    LET m == parseMetaFile(meta)
        h == parseHeaderFile(header)
    IN  /\ ~m.failed
        /\ client' = [built |-> TRUE, header |-> header, meta |-> meta,
                      functions |-> Generated(m, h, ClientFunction),
                      array |-> <<>>]
        /\ UNCHANGED <<header, meta, server, edits>>

BuildServer ==
    LET m == parseMetaFile(meta)
        h == parseHeaderFile(header)
    IN  /\ ~m.failed
        /\ HashesInOrder(h)
        /\ server' = [built |-> TRUE, header |-> header, meta |-> meta,
                      functions |-> Generated(m, h, ServerFunction),
                      array |-> h.order]
        /\ UNCHANGED <<header, meta, client, edits>>

Edit == edits < MaxEdits /\ edits' = edits + 1

EditHeader ==
    /\ Edit
    /\ \/ \E decl \in Declarations : header' = Append(header, decl)
       \/ \E i \in DOMAIN header : header' = RemoveAt(header, i)
    /\ UNCHANGED <<meta, client, server>>

EditMeta ==
    /\ Edit
    /\ \/ \E line \in MetaLines : meta' = Append(meta, line)
       \/ \E i \in DOMAIN meta : meta' = RemoveAt(meta, i)
    /\ UNCHANGED <<header, client, server>>

\* create_meta_template.py overwrites the metadata with an empty block for every
\* declaration that has a pointer.
NoBlocks ==
    <<[cmd |-> "header", name |-> NoName], [cmd |-> "endheader", name |-> NoName]>>

TemplateLine(lines, decl) ==
    IF decl.pointer THEN Append(lines, [cmd |-> "func", name |-> decl.name]) ELSE lines

TemplateAfter(decls) ==
    LET lines[n \in 0..Len(decls)] ==
            IF n = 0 THEN NoBlocks ELSE TemplateLine(lines[n - 1], decls[n])
    IN  lines

Template(decls) == TemplateAfter(decls)[Len(decls)]

CreateMetaTemplate ==
    /\ Edit
    /\ meta' = Template(header)
    /\ UNCHANGED <<header, client, server>>

Init ==
    /\ header \in Files(Declarations, MaxHeader)
    /\ meta \in Files(MetaLines, MaxMeta)
    /\ client = NotBuilt /\ server = NotBuilt
    /\ edits = 0

Next ==
    \/ BuildClient \/ BuildServer
    \/ EditHeader \/ EditMeta \/ CreateMetaTemplate

Spec == Init /\ [][Next]_vars

-----------------------------------------------------------------------------
(***************************************************************************)
(* What the two libraries promise each other.                              *)
(***************************************************************************)
\* The libraries are built from the same metadata, and from the same header but
\* for declarations added at its end after the client was built.
Compatible ==
    /\ client.built /\ server.built
    /\ client.meta = server.meta
    /\ IsPrefix(client.header, server.header)

Requests == {f \in DOMAIN client.functions : client.functions[f].code = "request"}

\* The hash a client sends is the place of the same function in the server's
\* array, and that function has code: also when a declaration was repeated, and
\* when an older client meets a newer server.
HashFindsFunction ==
    Compatible =>
        \A f \in Requests :
            LET place == client.functions[f].hash + 1
            IN  /\ place \in DOMAIN server.array
                /\ server.array[place] = f
                /\ server.functions[f].code = "redirect"

\* Both sides take each argument for the same kind: the server reads what the
\* client writes.
KindsAgree ==
    Compatible =>
        \A f \in Requests : client.functions[f].kinds = server.functions[f].kinds

\* A client waits for every function whose redirect leaves a result, and so each
\* result that the server sends is read.
ResultsAwaited ==
    Compatible =>
        \A f \in Requests :
            \/ server.functions[f].returnedSomething
            \/ \E i \in DOMAIN server.functions[f].kinds :
                  server.functions[f].kinds[i] = "return"
            => client.functions[f].wait

\* What a metadata file says, read as a whole and not line by line: what is between
\* header and endheader is text, and another line is about the function of the func
\* line before it.  Of several blocks for a function, and several lines for an
\* argument, the last counts: no description says so, it is what the parser does.
Commands(lines) ==
    {j \in DOMAIN lines : \A i \in 1..(j - 1) :
        lines[i].cmd = "header" =>
            \E k \in (i + 1)..(j - 1) : lines[k].cmd = "endheader"}

FuncLines(lines) == {i \in Commands(lines) : lines[i].cmd = "func"}

LastBlock(lines, f) ==
    {j \in Commands(lines) : \E i \in FuncLines(lines) :
        /\ i < j /\ lines[i].name = f
        /\ \A k \in FuncLines(lines) :
              k > i => k > j /\ lines[k].name # f}

LastSize(lines, f, arg) ==
    {lines[j].cmd : j \in {k \in LastBlock(lines, f) :
        /\ lines[k].name = arg
        /\ \A l \in LastBlock(lines, f) : l > k => lines[l].name # arg}}

SizeKind(size) ==
    CASE size = {} -> "primitive"
      [] size = {"bsize"} -> "blob"
      [] size = {"rsize"} -> "return"

\* Of several declarations of a function, the last counts.
Declaration(decls, f) ==
    {decls[i] : i \in {j \in DOMAIN decls :
        /\ decls[j].name = f
        /\ \A k \in DOMAIN decls : k > j => decls[k].name # f}}

\* A function's code is what its last declaration and its last block describe.
AsDescribed(decls, lines, f, function, normal) ==
    LET flags == {lines[j].cmd : j \in LastBlock(lines, f)}
    IN  /\ function.code =
             IF "custom" \in flags THEN "none"
             ELSE IF "unsupported" \in flags THEN "stub" ELSE normal
        /\ \E decl \in Declaration(decls, f) :
             function.kinds =
               [i \in DOMAIN decl.args |-> SizeKind(LastSize(lines, f, decl.args[i]))]

Described(lib, normal) ==
    \A f \in DOMAIN lib.functions :
        AsDescribed(lib.header, lib.meta, f, lib.functions[f], normal)

\* Each library is what the files that it was built from describe.
BuiltAsDescribed == Described(client, "request") /\ Described(server, "redirect")

=============================================================================
