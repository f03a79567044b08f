---------------------------- MODULE ExampleFiles ----------------------------
(***************************************************************************)
(* The generated files that are checked in with the examples, read as the  *)
(* compiler reads them, in the tokens of Generator and in the order of the *)
(* text.  They are written down from the files, without the functions that *)
(* print them, so that the two can be compared.                            *)
(***************************************************************************)
EXTENDS Generator

Rpc(name, client, server) ==
  [name |-> name, client_streaming |-> client, server_streaming |-> server]

Proto(name, package, service, methods) ==
  [name |-> name, package |-> <<package>>, lite |-> FALSE, generic |-> FALSE,
   services |-> << [name |-> service, methods |-> methods] >>]

RouteGuideProto ==
  Proto(<<"r", "o", "u", "t", "e", "_", "g", "u", "i", "d", "e", ".", "p", "r", "o", "t", "o">>,
        "routeguide", "RouteGuide",
        << Rpc("GetFeature", FALSE, FALSE), Rpc("ListFeatures", FALSE, TRUE),
           Rpc("RecordRoute", TRUE, FALSE), Rpc("RouteChat", TRUE, TRUE) >>)

HelloWorldProto ==
  Proto(<<"h", "e", "l", "l", "o", "w", "o", "r", "l", "d", ".", "p", "r", "o", "t", "o">>,
        "helloworld", "Greeter", << Rpc("SayHello", FALSE, FALSE) >>)

\* A name of the text: GetFeature_Replier is Name("GetFeature", "Replier"), and
\* Request is a const reference to a message, whatever its type.
Name(method, t) == <<method, t>>
Plain(name) == <<"", name>>

ChannelAndQueue == << Cpp("ChannelSptr"), Cpp("CompletionQueueForNextSptr") >>
CallParameters == << Cpp("size_t"), Cpp("grpc_byte_buffer*"), Cpp("CallSptr") >>
Reply == << Cpp("Status"), Cpp("Request"), Cpp("Response*") >>
RespCbs(method) == << Cpp("void"), Cpp("Request"), Name(method, "RespCb"), Cpp("ErrorCb") >>

(***************************************************************************)
(* route_guide.grpc_cb.pb.h                                                *)
(***************************************************************************)
RouteGuideStub ==
  << Decl("Stub", Plain("Stub"), ChannelAndQueue),
     Decl("Stub", <<"Sync_", "GetFeature">>, Reply),
     Alias("Stub", Name("GetFeature", "RespCb")),
     Decl("Stub", <<"Async_", "GetFeature">>, RespCbs("GetFeature")),
     Alias("Stub", Name("ListFeatures", "SyncReader")),
     Decl("Stub", <<"Sync_", "ListFeatures">>, << Name("ListFeatures", "SyncReader"), Cpp("Request") >>),
     Alias("Stub", Name("ListFeatures", "MsgCb")),
     Decl("Stub", <<"Async_", "ListFeatures">>,
          << Cpp("void"), Cpp("Request"), Name("ListFeatures", "MsgCb"), Cpp("StatusCb") >>),
     Alias("Stub", Name("RecordRoute", "SyncWriter")),
     Decl("Stub", <<"Sync_", "RecordRoute">>, << Name("RecordRoute", "SyncWriter") >>),
     Alias("Stub", Name("RecordRoute", "AsyncWriter")),
     Decl("Stub", <<"Async_", "RecordRoute">>, << Name("RecordRoute", "AsyncWriter") >>),
     Alias("Stub", Name("RouteChat", "SyncReaderWriter")),
     Decl("Stub", <<"Sync_", "RouteChat">>, << Name("RouteChat", "SyncReaderWriter") >>),
     Alias("Stub", Name("RouteChat", "AsyncReaderWriter")),
     Decl("Stub", <<"Async_", "RouteChat">>, << Name("RouteChat", "AsyncReaderWriter"), Cpp("StatusCb") >>) >>

RouteGuideService ==
  << Decl("Service", Plain("Service"), << >>), Decl("Service", Plain("~Service"), << >>),
     Decl("Service", Plain("GetMethodName"), << Cpp("size_t") >>),
     Decl("Service", Plain("CallMethod"), CallParameters),
     Alias("Service", Name("GetFeature", "Replier")),
     Decl("Service", Plain("GetFeature"), << Cpp("void"), Cpp("Request"), Name("GetFeature", "Replier") >>),
     Decl("Service", Plain("GetFeature"),
          << Cpp("void"), Cpp("grpc_byte_buffer"), Name("GetFeature", "Replier") >>),
     Alias("Service", Name("ListFeatures", "Writer")),
     Decl("Service", Plain("ListFeatures"), << Cpp("void"), Cpp("Request"), Name("ListFeatures", "Writer") >>),
     Decl("Service", Plain("ListFeatures"),
          << Cpp("void"), Cpp("grpc_byte_buffer"), Name("ListFeatures", "Writer") >>),
     Alias("Service", Name("RecordRoute", "Replier")),
     Alias("Service", Name("RecordRoute", "Reader")),
     Alias("Service", Name("RecordRoute", "ReaderSptr")),
     Decl("Service", Plain("RecordRoute"),
          << Name("RecordRoute", "ReaderSptr"), Name("RecordRoute", "Replier") >>),
     Decl("Service", Plain("RecordRoute"), << Cpp("void"), Cpp("CallSptr") >>),
     Alias("Service", Name("RouteChat", "Writer")),
     Alias("Service", Name("RouteChat", "Reader")),
     Alias("Service", Name("RouteChat", "ReaderSptr")),
     Decl("Service", Plain("RouteChat"), << Name("RouteChat", "ReaderSptr"), Name("RouteChat", "Writer") >>),
     Decl("Service", Plain("RouteChat"), << Cpp("void"), Cpp("CallSptr") >>) >>

RouteGuideHeader ==
  << Guard(<<"r", "o", "u", "t", "e", "_", "5", "f", "g", "u", "i", "d", "e", "_", "2", "e",
             "p", "r", "o", "t", "o">>),
     Open("routeguide"), Open("RouteGuide"), Decl("", Plain("GetServiceDescriptor"), << >>) >>
  \o RouteGuideStub \o RouteGuideService \o << Close, Close >>

(***************************************************************************)
(* route_guide.grpc_cb.pb.cc                                               *)
(***************************************************************************)
Function(class, name, types) == Def(class, name, types, {}, 0, {})
CallsMethod(class, name, types, row) == Def(class, name, types, {}, row, {})

Descriptors(service) ==
  << Open(""), Var(<<"service_descriptor_", service>>),
     [tok |-> "assign", to |-> << <<"service_descriptor_", service>> >>],
     Function("", Plain("AssignDescriptorsOnce"), << >>), Close >>

GetDescriptorOf(service) ==
  Def("", Plain("GetServiceDescriptor"), << >>, {}, 0,
      { Plain("AssignDescriptorsOnce"), <<"service_descriptor_", service>> })

MethodNames(package, service, methods) ==
  [tok |-> "method_names", names |-> [i \in DOMAIN methods |-> << <<package>>, service, methods[i] >>]]

RouteGuideStubSource ==
  << Function("Stub", Plain("Stub"), ChannelAndQueue),
     CallsMethod("Stub", <<"Sync_", "GetFeature">>, Reply, 1),
     CallsMethod("Stub", <<"Async_", "GetFeature">>, RespCbs("GetFeature"), 1),
     CallsMethod("Stub", <<"Sync_", "ListFeatures">>,
                 << Name("ListFeatures", "SyncReader"), Cpp("Request") >>, 2),
     CallsMethod("Stub", <<"Async_", "ListFeatures">>,
                 << Cpp("void"), Cpp("Request"), Name("ListFeatures", "MsgCb"), Cpp("StatusCb") >>, 2),
     CallsMethod("Stub", <<"Sync_", "RecordRoute">>, << Name("RecordRoute", "SyncWriter") >>, 3),
     CallsMethod("Stub", <<"Async_", "RecordRoute">>, << Name("RecordRoute", "AsyncWriter") >>, 3),
     CallsMethod("Stub", <<"Sync_", "RouteChat">>, << Name("RouteChat", "SyncReaderWriter") >>, 4),
     CallsMethod("Stub", <<"Async_", "RouteChat">>,
                 << Name("RouteChat", "AsyncReaderWriter"), Cpp("StatusCb") >>, 4) >>

WithRequest(method, handle) == [method |-> method, buffer |-> TRUE, aliases |-> {Name(method, handle)}]
WithoutRequest(method) == [method |-> method, buffer |-> FALSE, aliases |-> {}]

RouteGuideCallMethod ==
  << Function("Service", Plain("Service"), << >>), Function("Service", Plain("~Service"), << >>),
     Function("Service", Plain("GetMethodName"), << Cpp("size_t") >>),
     Function("Service", Plain("CallMethod"), CallParameters),
     [tok |-> "switch",
      cases |-> << WithRequest("GetFeature", "Replier"), WithRequest("ListFeatures", "Writer"),
                   WithoutRequest("RecordRoute"), WithoutRequest("RouteChat") >>] >>

\* The entry of a method whose request is the stream makes the handle itself.
StreamEntry(method, handle) ==
  Def("Service", Plain(method), << Cpp("void"), Cpp("CallSptr") >>,
      { Name(method, handle), Name(method, "ReaderSptr") }, 0, {})

RouteGuideServiceSource ==
  << Function("Service", Plain("GetFeature"),
              << Cpp("void"), Cpp("grpc_byte_buffer"), Name("GetFeature", "Replier") >>),
     Function("Service", Plain("GetFeature"), << Cpp("void"), Cpp("Request"), Name("GetFeature", "Replier") >>),
     Function("Service", Plain("ListFeatures"),
              << Cpp("void"), Cpp("grpc_byte_buffer"), Name("ListFeatures", "Writer") >>),
     Function("Service", Plain("ListFeatures"),
              << Cpp("void"), Cpp("Request"), Name("ListFeatures", "Writer") >>),
     StreamEntry("RecordRoute", "Replier"),
     Function("Service", Plain("RecordRoute"),
              << Name("RecordRoute", "ReaderSptr"), Name("RecordRoute", "Replier") >>),
     StreamEntry("RouteChat", "Writer"),
     Function("Service", Plain("RouteChat"), << Name("RouteChat", "ReaderSptr"), Name("RouteChat", "Writer") >>) >>

RouteGuideSource ==
  << Open("routeguide") >> \o Descriptors("RouteGuide")
  \o << Open("RouteGuide"),
        MethodNames("routeguide", "RouteGuide",
                    << "GetFeature", "ListFeatures", "RecordRoute", "RouteChat" >>),
        GetDescriptorOf("RouteGuide") >>
  \o RouteGuideStubSource \o RouteGuideCallMethod \o RouteGuideServiceSource
  \o << Close, Close >>

(***************************************************************************)
(* helloworld.grpc_cb.pb.h and helloworld.grpc_cb.pb.cc                    *)
(***************************************************************************)
SayHelloRequest == << Cpp("void"), Cpp("Request"), Name("SayHello", "Replier") >>
SayHelloBuffer == << Cpp("void"), Cpp("grpc_byte_buffer"), Name("SayHello", "Replier") >>

HelloWorldHeader ==
  << Guard(<<"h", "e", "l", "l", "o", "w", "o", "r", "l", "d", "_", "2", "e", "p", "r", "o", "t", "o">>),
     Open("helloworld"), Open("Greeter"), Decl("", Plain("GetServiceDescriptor"), << >>),
     Decl("Stub", Plain("Stub"), ChannelAndQueue),
     Decl("Stub", <<"Sync_", "SayHello">>, Reply),
     Alias("Stub", Name("SayHello", "RespCb")),
     Decl("Stub", <<"Async_", "SayHello">>, RespCbs("SayHello")),
     Decl("Service", Plain("Service"), << >>), Decl("Service", Plain("~Service"), << >>),
     Decl("Service", Plain("GetMethodName"), << Cpp("size_t") >>),
     Decl("Service", Plain("CallMethod"), CallParameters),
     Alias("Service", Name("SayHello", "Replier")),
     Decl("Service", Plain("SayHello"), SayHelloRequest),
     Decl("Service", Plain("SayHello"), SayHelloBuffer),
     Close, Close >>

HelloWorldSource ==
  << Open("helloworld") >> \o Descriptors("Greeter")
  \o << Open("Greeter"), MethodNames("helloworld", "Greeter", << "SayHello" >>),
        GetDescriptorOf("Greeter"),
        Function("Stub", Plain("Stub"), ChannelAndQueue),
        CallsMethod("Stub", <<"Sync_", "SayHello">>, Reply, 1),
        CallsMethod("Stub", <<"Async_", "SayHello">>, RespCbs("SayHello"), 1),
        Function("Service", Plain("Service"), << >>), Function("Service", Plain("~Service"), << >>),
        Function("Service", Plain("GetMethodName"), << Cpp("size_t") >>),
        Function("Service", Plain("CallMethod"), CallParameters),
        [tok |-> "switch", cases |-> << WithRequest("SayHello", "Replier") >>],
        Function("Service", Plain("SayHello"), SayHelloBuffer),
        Function("Service", Plain("SayHello"), SayHelloRequest),
        Close, Close >>
-----------------------------------------------------------------------------
\* "Generated by the gRPC protobuf plugin. If you make any local change, they
\* will be lost": for the two .proto files of the examples the plugin writes what
\* is checked in, method for method and in the same order, so that what the
\* examples were compiled and tried with is what the plugin of this repository
\* generates, and the other properties speak of it.
CheckedIn ==
  result = "done" =>
    /\ file = RouteGuideProto => header = RouteGuideHeader /\ source = RouteGuideSource
    /\ file = HelloWorldProto => header = HelloWorldHeader /\ source = HelloWorldSource
=============================================================================
