------------------------------ MODULE Generator ------------------------------
(***************************************************************************)
(* The protoc plugin: CppcbGrpcGenerator::Generate of                      *)
(* src/compiler/cpp_cb_plugin.cc and the Get* functions of                 *)
(* src/compiler/cpp_cb_generator.cc, which write a header and a source     *)
(* file with a Stub and a Service class for every service of a .proto.     *)
(*                                                                         *)
(* The text is kept as the sequence of what a compiler sees in it: braces  *)
(* of namespaces, type aliases, declarations, definitions with the names   *)
(* they mention, the table of method names and the switch of CallMethod.   *)
(* Message types are not told apart.  Service::GetDescriptor and its users *)
(* in src/cpp_cb/server/service.cc are modelled by Descriptor.             *)
(***************************************************************************)
EXTENDS Naturals, Sequences, FiniteSets, SequencesExt

CONSTANTS
  Files,       \* file descriptors: name, package, services, lite, generic
  Parameters   \* parameters of the plugin: sequences of [key, value]

VARIABLES
  file,        \* the file given to Generate
  parameters,  \* the parameters not read yet
  services_namespace,  \* "" or the namespace asked for
  header,      \* .grpc_cb.pb.h
  source,      \* .grpc_cb.pb.cc
  result       \* "running", "done", "error"

vars == <<file, parameters, services_namespace, header, source, result>>

NoStreaming(m) == ~ m.client_streaming /\ ~ m.server_streaming
ClientOnlyStreaming(m) == m.client_streaming /\ ~ m.server_streaming
ServerOnlyStreaming(m) == ~ m.client_streaming /\ m.server_streaming
BidiStreaming(m) == m.client_streaming /\ m.server_streaming

HasDescriptorMethods == ~ file.lite

(***************************************************************************)
(* FilenameIdentifier: letters and digits stay, any other character is     *)
(* escaped by an underscore and its code in two hexadecimal digits.  A     *)
(* character is a string of length 1, Hex gives the codes of the others.   *)
(***************************************************************************)
Hex == [c \in {"_", ".", "/", "-"} |->
          CASE c = "_" -> <<"5", "f">>
            [] c = "." -> <<"2", "e">>
            [] c = "/" -> <<"2", "f">>
            [] c = "-" -> <<"2", "d">>]

\* Mutant: an underscore may stand in an identifier, so it is left alone.
EscapeButUnderscore(c) == IF c \in DOMAIN Hex \ {"_"} THEN <<"_">> \o Hex[c] ELSE <<c>>

Escape(c) == IF c \in DOMAIN Hex THEN <<"_">> \o Hex[c] ELSE <<c>>

FilenameIdentifier(filename) == FlattenSeq([i \in DOMAIN filename |-> Escape(filename[i])])

(***************************************************************************)
(* What protoc gives to the plugin.  It has refused a file in which two     *)
(* services, or two methods of a service, have the same name.              *)
(***************************************************************************)
Character ==
  DOMAIN Hex \cup
  {"0", "1", "2", "3", "4", "5", "6", "7", "8", "9",
   "A", "B", "C", "D", "E", "F", "G", "H", "I", "J", "K", "L", "M",
   "N", "O", "P", "Q", "R", "S", "T", "U", "V", "W", "X", "Y", "Z",
   "a", "b", "c", "d", "e", "f", "g", "h", "i", "j", "k", "l", "m",
   "n", "o", "p", "q", "r", "s", "t", "u", "v", "w", "x", "y", "z"}

Identifier == STRING \ {""}
MethodDescriptor == [name : Identifier, client_streaming : BOOLEAN, server_streaming : BOOLEAN]
ServiceDescriptor == [name : Identifier, methods : Seq(MethodDescriptor)]
FileDescriptor ==
  [name : Seq(Character), package : Seq(Identifier), services : Seq(ServiceDescriptor),
   lite : BOOLEAN, generic : BOOLEAN]

NamesDistinct(seq) == \A i, j \in DOMAIN seq : seq[i].name = seq[j].name => i = j

ASSUME FilesAssumption ==
  \A f \in Files :
    /\ f \in FileDescriptor
    /\ NamesDistinct(f.services)
    /\ \A i \in DOMAIN f.services : NamesDistinct(f.services[i].methods)

ASSUME ParametersAssumption == Parameters \subseteq Seq([key : STRING, value : STRING])

(***************************************************************************)
(* What the files are made of.  Own(m, t) is the alias $Method$_t, and     *)
(* Cpp(t) a type that is not generated.                                    *)
(***************************************************************************)
Own(m, t) == <<m.name, t>>
Cpp(t) == <<"", t>>

Guard(id) == [tok |-> "guard", id |-> id]
Open(name) == [tok |-> "open", namespace |-> name]
Close == [tok |-> "close"]
Alias(class, name) == [tok |-> "alias", class |-> class, name |-> name]
Var(name) == [tok |-> "var", name |-> name]

\* A function is told by its class, its name and the types it returns and takes.
Decl(class, name, types) ==
  [tok |-> "decl", class |-> class, name |-> name, types |-> types]

\* Its definition also mentions aliases, a row of method_names (0: none), and
\* functions and variables outside its class.
Def(class, name, types, aliases, row, uses) ==
  [tok |-> "def", class |-> class, name |-> name, types |-> types,
   aliases |-> aliases, row |-> row, uses |-> uses]

Each(seq, Text(_)) == FlattenSeq([i \in DOMAIN seq |-> Text(seq[i])])

(***************************************************************************)
(* The header.                                                             *)
(***************************************************************************)
PrintHeaderClientMethodPublic(m) ==
  LET sync == <<"Sync_", m.name>>
      async == <<"Async_", m.name>>
  IN
  CASE NoStreaming(m) ->
         << Decl("Stub", sync, <<Cpp("Status"), Cpp("Request"), Cpp("Response*")>>),
            Alias("Stub", Own(m, "RespCb")),
            Decl("Stub", async, <<Cpp("void"), Cpp("Request"), Own(m, "RespCb"), Cpp("ErrorCb")>>) >>
    [] ClientOnlyStreaming(m) ->
         << Alias("Stub", Own(m, "SyncWriter")), Decl("Stub", sync, <<Own(m, "SyncWriter")>>),
            Alias("Stub", Own(m, "AsyncWriter")), Decl("Stub", async, <<Own(m, "AsyncWriter")>>) >>
    [] ServerOnlyStreaming(m) ->
         << Alias("Stub", Own(m, "SyncReader")),
            Decl("Stub", sync, <<Own(m, "SyncReader"), Cpp("Request")>>),
            Alias("Stub", Own(m, "MsgCb")),
            Decl("Stub", async, <<Cpp("void"), Cpp("Request"), Own(m, "MsgCb"), Cpp("StatusCb")>>) >>
    [] BidiStreaming(m) ->
         << Alias("Stub", Own(m, "SyncReaderWriter")),
            Decl("Stub", sync, <<Own(m, "SyncReaderWriter")>>),
            Alias("Stub", Own(m, "AsyncReaderWriter")),
            Decl("Stub", async, <<Own(m, "AsyncReaderWriter"), Cpp("StatusCb")>>) >>

\* Mutant: every method but a server-streaming one is answered by a replier.
ReplierUnlessWriter(m) ==
  IF ServerOnlyStreaming(m) THEN Own(m, "Writer") ELSE Own(m, "Replier")

\* The handle of a method's response, and the parameters of what CallMethod calls
\* and of what the user overrides.
Handle(m) == IF m.server_streaming THEN Own(m, "Writer") ELSE Own(m, "Replier")

Entry(m) ==
  IF m.client_streaming THEN <<Cpp("void"), Cpp("CallSptr")>>
                        ELSE <<Cpp("void"), Cpp("grpc_byte_buffer"), Handle(m)>>

Handler(m) ==
  IF m.client_streaming THEN <<Own(m, "ReaderSptr"), Handle(m)>>
                        ELSE <<Cpp("void"), Cpp("Request"), Handle(m)>>

\* Mutants: the private overload that CallMethod calls is not declared; the
\* aliases come after the functions that take them.
DeclareHandlerOnly(m) ==
  << Alias("Service", Handle(m)), Alias("Service", Own(m, "ReaderSptr")),
     Decl("Service", <<"", m.name>>, Handler(m)) >>

DeclareThenAlias(m) ==
  << Decl("Service", <<"", m.name>>, Handler(m)), Decl("Service", <<"", m.name>>, Entry(m)),
     Alias("Service", Handle(m)), Alias("Service", Own(m, "ReaderSptr")) >>

PrintHeaderServiceMethod(m) ==
  << Alias("Service", Handle(m)) >>
  \o (IF m.client_streaming
        THEN << Alias("Service", Own(m, "Reader")), Alias("Service", Own(m, "ReaderSptr")) >>
        ELSE << >>)
  \o << Decl("Service", <<"", m.name>>, Handler(m)),
        Decl("Service", <<"", m.name>>, Entry(m)) >>

\* What every Stub and Service has, with its parameter types.
GetServiceDescriptor == <<"", "GetServiceDescriptor">>

StubMembers == << <<"Stub", <<Cpp("ChannelSptr"), Cpp("CompletionQueueForNextSptr")>> >> >>

ServiceMembers ==
  << <<"Service", << >> >>, <<"~Service", << >> >>, <<"GetMethodName", <<Cpp("size_t")>> >>,
     <<"CallMethod", <<Cpp("size_t"), Cpp("grpc_byte_buffer*"), Cpp("CallSptr")>> >> >>

DeclAll(class, members) == Each(members, LAMBDA f : << Decl(class, <<"", f[1]>>, f[2]) >>)
DefAll(class, members) ==
  Each(members, LAMBDA f : << Def(class, <<"", f[1]>>, f[2], {}, 0, {}) >>)

PrintHeaderService(s) ==
  << Open(s.name), Decl("", GetServiceDescriptor, << >>) >>
  \o DeclAll("Stub", StubMembers)
  \o Each(s.methods, PrintHeaderClientMethodPublic)
  \o DeclAll("Service", ServiceMembers)
  \o Each(s.methods, PrintHeaderServiceMethod)
  \o << Close >>

GetHeaderPrologue == << Guard(FilenameIdentifier(file.name)) >>

OpenPackage == [i \in DOMAIN file.package |-> Open(file.package[i])]
\* Mutant: a package is closed as if it had one part.
CloseLastPart == IF file.package = << >> THEN << >> ELSE << Close >>

ClosePackage == [i \in DOMAIN file.package |-> Close]

GetHeaderServices ==
  LET services == Each(file.services, PrintHeaderService)
  IN  IF services_namespace = "" THEN services
      ELSE << Open(services_namespace) >> \o services \o << Close >>

Header == GetHeaderPrologue \o OpenPackage \o GetHeaderServices \o ClosePackage

(***************************************************************************)
(* The source.                                                             *)
(***************************************************************************)
ServiceDescriptorOf(s) == <<"service_descriptor_", s.name>>
AssignDescriptorsOnce == <<"", "AssignDescriptorsOnce">>

\* The pointers to the descriptors, and the function that makes each point to
\* its service of the file.
GetSourceDescriptors ==
  << Open("") >>
  \o Each(file.services, LAMBDA s : << Var(ServiceDescriptorOf(s)) >>)
  \o IF ~ HasDescriptorMethods THEN << >>
     ELSE << [tok |-> "assign", to |-> [i \in DOMAIN file.services |->
                                          ServiceDescriptorOf(file.services[i])]],
             Def("", AssignDescriptorsOnce, << >>, {}, 0, {}),
             Close >>

\* A stub method of the i-th method names its row of method_names, unless it is
\* unary: that one names the first row.
PrintSourceClientMethod(m, i) ==
  LET sync == <<"Sync_", m.name>>
      async == <<"Async_", m.name>>
  IN
  CASE NoStreaming(m) ->
         << Def("Stub", sync, <<Cpp("Status"), Cpp("Request"), Cpp("Response*")>>, {}, 1, {}),
            Def("Stub", async, <<Cpp("void"), Cpp("Request"), Own(m, "RespCb"), Cpp("ErrorCb")>>,
                {}, 1, {}) >>
    [] ClientOnlyStreaming(m) ->
         << Def("Stub", sync, <<Own(m, "SyncWriter")>>, {}, i, {}),
            Def("Stub", async, <<Own(m, "AsyncWriter")>>, {}, i, {}) >>
    [] ServerOnlyStreaming(m) ->
         << Def("Stub", sync, <<Own(m, "SyncReader"), Cpp("Request")>>, {}, i, {}),
            Def("Stub", async, <<Cpp("void"), Cpp("Request"), Own(m, "MsgCb"), Cpp("StatusCb")>>,
                {}, i, {}) >>
    [] BidiStreaming(m) ->
         << Def("Stub", sync, <<Own(m, "SyncReaderWriter")>>, {}, i, {}),
            Def("Stub", async, <<Own(m, "AsyncReaderWriter"), Cpp("StatusCb")>>, {}, i, {}) >>

\* The entry and the default handler.  Those of a server-streaming method name
\* the writer of ListFeatures, a method of the example.
ListFeatures == [name |-> "ListFeatures"]

PrintSourceServerMethod(m) ==
  LET name == <<"", m.name>>
      writer == Own(ListFeatures, "Writer")
  IN
  IF ServerOnlyStreaming(m)
    THEN << Def("Service", name, <<Cpp("void"), Cpp("grpc_byte_buffer"), writer>>, {}, 0, {}),
            Def("Service", name, <<Cpp("void"), Cpp("Request"), writer>>, {}, 0, {}) >>
    ELSE << Def("Service", name, Entry(m),
                IF m.client_streaming THEN { Handle(m), Own(m, "ReaderSptr") } ELSE {}, 0, {}),
            Def("Service", name, Handler(m), {}, 0, {}) >>

\* The case of a method takes the request buffer, or asserts that there is none
\* and takes the call.
\* Mutant: the case of a server-streaming method takes the call.
SwitchOnUnary(s) ==
  [tok |-> "switch",
   cases |-> [i \in DOMAIN s.methods |->
                [method |-> s.methods[i].name, buffer |-> NoStreaming(s.methods[i]),
                 aliases |-> {}]]]

PrintCallMethod(s) ==
  [tok |-> "switch",
   cases |-> [i \in DOMAIN s.methods |->
                LET m == s.methods[i] IN
                  [method |-> m.name,
                   buffer |-> NoStreaming(m) \/ ServerOnlyStreaming(m),
                   aliases |-> IF m.client_streaming THEN {} ELSE { Handle(m) }]]]

PrintSourceService(s) ==
  << Open(s.name),
     [tok |-> "method_names",
      names |-> [i \in DOMAIN s.methods |-> <<file.package, s.name, s.methods[i].name>>]],
     Def("", GetServiceDescriptor, << >>, {}, 0, { AssignDescriptorsOnce, ServiceDescriptorOf(s) }) >>
  \o DefAll("Stub", StubMembers)
  \o FlattenSeq([i \in DOMAIN s.methods |-> PrintSourceClientMethod(s.methods[i], i)])
  \o DefAll("Service", ServiceMembers)
  \o << PrintCallMethod(s) >>
  \o Each(s.methods, PrintSourceServerMethod)
  \o << Close >>

Source ==
  OpenPackage \o GetSourceDescriptors \o Each(file.services, PrintSourceService) \o ClosePackage

(***************************************************************************)
(* Generate.                                                               *)
(***************************************************************************)
Init ==
  /\ file \in Files
  /\ parameters \in Parameters
  /\ services_namespace = ""
  /\ header = << >>
  /\ source = << >>
  /\ result = "running"

Refuse ==
  /\ result = "running"
  /\ header = << >>
  /\ file.generic
  /\ result' = "error"
  /\ UNCHANGED <<file, parameters, services_namespace, header, source>>

\* Mutant: param[0] for param[1].
ReadParameterKey ==
  /\ result = "running"
  /\ ~ file.generic
  /\ parameters # << >>
  /\ services_namespace' = Head(parameters).key
  /\ parameters' = Tail(parameters)
  /\ UNCHANGED <<file, header, source, result>>

ReadParameter ==
  /\ result = "running"
  /\ ~ file.generic
  /\ parameters # << >>
  /\ \/ /\ Head(parameters).key = "services_namespace"
        /\ services_namespace' = Head(parameters).value
        /\ parameters' = Tail(parameters)
        /\ UNCHANGED result
     \/ /\ Head(parameters).key # "services_namespace"
        /\ result' = "error"
        /\ UNCHANGED <<parameters, services_namespace>>
  /\ UNCHANGED <<file, header, source>>

WriteHeader ==
  /\ result = "running"
  /\ ~ file.generic
  /\ parameters = << >>
  /\ header = << >>
  /\ header' = Header
  /\ UNCHANGED <<file, parameters, services_namespace, source, result>>

WriteSource ==
  /\ result = "running"
  /\ header # << >>
  /\ source' = Source
  /\ result' = "done"
  /\ UNCHANGED <<file, parameters, services_namespace, header>>

Next == Refuse \/ ReadParameter \/ WriteHeader \/ WriteSource

Spec == Init /\ [][Next]_vars
-----------------------------------------------------------------------------
\* Every variable has its type, and only a run that ended has both files.
TypeOK ==
  /\ file.lite \in BOOLEAN /\ file.generic \in BOOLEAN
  /\ \E all \in Parameters : \E n \in 0 .. Len(all) :
       parameters = SubSeq(all, n + 1, Len(all))
  /\ services_namespace \in {""} \cup { p.value : p \in UNION { Range(all) : all \in Parameters } }
  /\ result \in {"running", "done", "error"}
  /\ (header # << >> /\ source # << >>) = (result = "done")

(***************************************************************************)
(* What a compiler makes of the source, which includes the header.         *)
(* Scopes[n] is the list of the namespaces open after the first n tokens.   *)
(* A brace that closes nothing stays in it.                                *)
(***************************************************************************)
Unit == header \o source

Braces(scope, t) ==
  CASE t.tok = "open" -> Append(scope, t.namespace)
    [] t.tok = "close" -> IF scope = << >> THEN <<"}">> ELSE Front(scope)
    [] OTHER -> scope

Scopes(unit) ==
  LET scope[n \in 0 .. Len(unit)] == IF n = 0 THEN << >> ELSE Braces(scope[n - 1], unit[n])
  IN  scope

\* What an anonymous namespace holds is seen outside of it.
Named(scope) ==
  LET named[n \in 0 .. Len(scope)] ==
        IF n = 0 THEN << >>
        ELSE IF scope[n] = "" THEN named[n - 1] ELSE Append(named[n - 1], scope[n])
  IN  named[Len(scope)]

\* The braces of the namespaces match, in the header alone too.
Balanced ==
  result = "done" => LET scope == Scopes(Unit) IN
    scope[Len(header)] = << >> /\ scope[Len(Unit)] = << >>

\* A function is declared or defined at a place.
PlaceOf(scope, t) == [scope |-> scope, class |-> t.class, name |-> t.name, types |-> t.types]

\* "route_guide.grpc_cb.pb.cc, the implementation of service classes" (README):
\* every function the header declares is defined once in the source, in the same
\* namespaces, with the same parameters, and every member that is defined there
\* was declared.
Implemented ==
  result = "done" =>
    LET scope == Scopes(Unit)
        Place(n) == PlaceOf(scope[n], Unit[n])
        Tokens(tok) == { n \in DOMAIN Unit : Unit[n].tok = tok }
        members == { n \in Tokens("def") : Unit[n].class # "" }
    IN  /\ \A n \in Tokens("decl") :
             Cardinality({ d \in Tokens("def") : Place(d) = Place(n) }) = 1
        /\ \A d \in members : \E n \in Tokens("decl") : Place(d) = Place(n)

\* The aliases that a token mentions, and the class that it is in.
Generated(types) == { t \in Range(types) : t[1] # "" }

AliasesOf(t) ==
  CASE t.tok = "decl" -> Generated(t.types)
    [] t.tok = "def" -> Generated(t.types) \cup t.aliases
    [] t.tok = "switch" -> UNION { c.aliases : c \in Range(t.cases) }
    [] OTHER -> {}

ClassOf(t) == IF t.tok = "switch" THEN "Service" ELSE t.class

\* Every name is declared before it is mentioned, where it can be seen: aliases
\* in the class of the function that mentions them, functions and variables in
\* its namespace or around it.
NamesResolve ==
  result = "done" =>
    LET scope == Scopes(Unit)
        Seen(k, n) == k < n /\ IsPrefix(Named(scope[k]), Named(scope[n]))
    IN  \A n \in DOMAIN Unit :
          /\ \A a \in AliasesOf(Unit[n]) : \E k \in DOMAIN Unit :
               Seen(k, n) /\ Unit[k] = Alias(ClassOf(Unit[n]), a) /\ scope[k] = scope[n]
          /\ Unit[n].tok = "def" =>
               \A u \in Unit[n].uses : \E k \in DOMAIN Unit :
                 Seen(k, n) /\ Unit[k].tok \in {"def", "var"} /\ Unit[k].name = u

(***************************************************************************)
(* A call, from the stub to the handler.  The stub sends the name in the   *)
(* row its method mentions.  The server knows a service by its descriptor  *)
(* and its methods by the names of GetMethodName, and calls CallMethod     *)
(* with the index of the name it received, and with a request unless       *)
(* IsMethodClientStreaming says that the method of that index has none.    *)
(***************************************************************************)
InService(s) ==
  LET scope == Scopes(source) IN
    { source[n] : n \in { k \in DOMAIN source : scope[k] = Append(file.package, s.name) } }

Only(tokens, tok) == CHOOSE t \in tokens : t.tok = tok

Descriptor(s) ==
  LET assign == Only(Range(source), "assign") IN
    file.services[CHOOSE i \in DOMAIN assign.to : assign.to[i] = ServiceDescriptorOf(s)]

\* doc/README.md: "The generated code is templated to inforce message type
\* check."  What a stub method sends arrives at the handler of the same method,
\* and only there, with a request buffer exactly if CallMethod expects one.
Routed ==
  result = "done" =>
    \A s \in Range(file.services) :
      LET tokens == InService(s)
          names == Only(tokens, "method_names").names
          cases == Only(tokens, "switch").cases
      IN  \A m \in Range(s.methods) : \A call \in {"Sync_", "Async_"} :
            LET stub == CHOOSE t \in tokens : t.tok = "def" /\ t.name = <<call, m.name>>
            IN  /\ stub.row \in DOMAIN names
                /\ \A i \in DOMAIN names : names[i] = names[stub.row] =>
                     /\ cases[i].method = m.name
                     /\ cases[i].buffer = ~ Descriptor(s).methods[i].client_streaming
                /\ \A other \in Range(file.services) \ {s} :
                     ~ Contains(Only(InService(other), "method_names").names, names[stub.row])

Guards == [name \in { f.name : f \in Files } |-> FilenameIdentifier(name)]

\* Headers of different files never share an include guard, so that including
\* one never hides another: FilenameIdentifier, which escapes and never separates,
\* does not map two names to one.
GuardsDistinct ==
  header # << >> =>
    \A name \in DOMAIN Guards : Guards[name] = Head(header).id => name = file.name
=============================================================================
