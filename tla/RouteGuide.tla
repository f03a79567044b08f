------------------------------ MODULE RouteGuide ------------------------------
(***************************************************************************)
(* The route guide of examples/cpp_cb from end to end: one call of one of  *)
(* the functions of route_guide_cb_client.cc (ClientCall), the connection, *)
(* and RouteGuideImpl of route_guide_cb_server.cc (ServerCall).  Also the  *)
(* two calls of greeter_cb_client.cc to greeter_cb_server.cc.              *)
(*                                                                         *)
(* Every step of a program is a step of ClientCall or of ServerCall, taken *)
(* when the code of the program says so, with the contents of the messages *)
(* added.  A point is <<latitude, longitude>>; the distance of two points, *)
(* floating point in the code, is the sum of the differences.              *)
(***************************************************************************)
EXTENDS Integers, Sequences, SequencesExt, FiniteSets, FiniteSetsExt

CONSTANTS
  Programs,   \* functions of the clients that make a call, of those in Api
  Features,   \* the feature database: a sequence of [name, location]
  Requests,   \* for each kind of call, the sequences of requests to try
  MaxInbox,   \* bound: requests the server did not read yet
  MaxStream   \* bound: messages in a stream

VARIABLES
  program,    \* the function that runs
  todo,       \* requests it has still to write
  returned,   \* it returned, and its locals are gone
  asked,      \* requests that were sent
  answered,   \* responses that were sent
  arrived,    \* how many requests the server has been given
  fetched,    \* how much of the server's answer the client has been given
  broken,     \* the connection is
  seen,       \* how many requests OnMsg was called with
  next,       \* place in the loop of ListFeatures or of OnMsg
  record_route_result_,  \* of RecordRoute_ReaderImpl
  received_notes_,       \* of the reader of RouteChat
  \* ClientCall
  api, given, writing, written, copies, replies, final, taken, error, pc, busy,
  delivered, outcome, over, running, ran, shutdown,
  \* ServerCall, whose pc is entry
  kind, request, entry, made, held, started, done, sent, reading, callback, inbox,
  stream, overrides, failed, first, asserted

Api ==
  [SyncGetOneFeature |-> "SyncRequest", GetFeatureAsync |-> "AsyncRequest",
   SyncListFeatures |-> "SyncReader", ListFeaturesAsync |-> "AsyncReader",
   SyncRecordRoute |-> "SyncWriter", RecordRouteAsync |-> "AsyncWriter",
   SyncRouteChat |-> "SyncReaderWriter", RouteChatAsync |-> "AsyncReaderWriter",
   SyncSayHello |-> "SyncRequest", AsyncSayHello |-> "AsyncRequest"]

Method(p) ==
  CASE p \in {"SyncSayHello", "AsyncSayHello"} -> "SayHello"
    [] Api[p] \in {"SyncRequest", "AsyncRequest"} -> "GetFeature"
    [] Api[p] \in {"SyncReader", "AsyncReader"} -> "ListFeatures"
    [] Api[p] \in {"SyncWriter", "AsyncWriter"} -> "RecordRoute"
    [] OTHER -> "RouteChat"

Kind ==
  [SayHello |-> "unary", GetFeature |-> "unary", ListFeatures |-> "server",
   RecordRoute |-> "client", RouteChat |-> "bidi"]

Point == Int \X Int

ASSUME ProgramsAssumption == Programs \subseteq DOMAIN Api
ASSUME BoundsAssumption == MaxInbox \in Nat /\ MaxStream \in Nat
ASSUME FeaturesAssumption == Features \in Seq([name : STRING, location : Point])

\* One request, or the requests of a stream.
ASSUME RequestsAssumption ==
  /\ \A r \in Requests["SayHello"] : r = <<r[1]>>
  /\ \A r \in Requests["GetFeature"] : r = <<r[1]>> /\ r[1] \in Point
  /\ \A r \in Requests["ListFeatures"] : r = <<r[1]>> /\ r[1] \in [lo : Point, hi : Point]
  /\ Requests["RecordRoute"] \subseteq Seq(Point)
  /\ Requests["RouteChat"] \subseteq Seq([message : STRING, location : Point])

Client == INSTANCE ClientCall WITH
  Apis <- { Api[p] : p \in Programs }, Runners <- {"run"},
  MaxReplies <- MaxStream, MaxWrites <- MaxStream
Server == INSTANCE ServerCall WITH
  Kinds <- {"unary", "server", "client", "bidi"}, Threads <- {"t"}, MaxSent <- MaxStream,
  pc <- entry

content == <<program, todo, returned, asked, answered, seen, next, record_route_result_,
             received_notes_>>
connection == <<arrived, fetched, broken>>
client == <<api, given, writing, written, copies, replies, final, taken, error, pc, busy,
            delivered, outcome, over, running, ran, shutdown>>
server == <<kind, request, entry, made, held, started, done, sent, reading, callback, inbox,
            stream, overrides, failed, first, asserted>>
vars == <<content, connection, client, server>>

Streams == kind \in {"client", "bidi"}

Init ==
  /\ program \in Programs
  /\ Client!Init /\ Server!Init
  /\ api = Api[program]
  /\ given = [msg |-> TRUE, status |-> program # "AsyncSayHello"]
  /\ kind = Kind[Method(program)]
  /\ request = IF Streams THEN "null" ELSE "good"
  /\ ~ overrides
  /\ \E r \in Requests[Method(program)] :
       todo = (IF Streams THEN r ELSE << >>) /\ asked = (IF Streams THEN << >> ELSE r)
  /\ returned = FALSE
  /\ answered = << >>
  /\ arrived = 0 /\ fetched = 0 /\ broken = FALSE
  /\ seen = 0
  /\ next = 1
  /\ record_route_result_ =
       [point_count |-> 0, feature_count |-> 0, distance |-> 0, previous |-> <<0, 0>>]
  /\ received_notes_ = << >>

(***************************************************************************)
(* The client programs.                                                    *)
(***************************************************************************)
OnClient(action) == action /\ UNCHANGED <<content, connection, server>>

\* The next request.  A loop of Write ends when that returns false in RecordRoute;
\* those of RouteChat do not look.
WriteNext ==
  /\ todo # << >>
  /\ program = "RouteChatAsync" => pc # "made"
  /\ Client!Write
  /\ todo' = IF written' = written /\ Method(program) = "RecordRoute" THEN << >> ELSE Tail(todo)
  /\ asked' = IF written' = written THEN asked ELSE Append(asked, Head(todo))
  /\ UNCHANGED <<program, returned, answered, seen, next, record_route_result_,
                 received_notes_, connection, server>>

\* Mutant: that RouteChat calls CloseWriting is thought to be optional, as the
\* comment on it says.
CloseRecordRouteOnly ==
  /\ todo = << >>
  /\ OnClient(Client!Close)

\* Close of RecordRoute, CloseWriting of RouteChat, after the loop.
CloseWriting ==
  /\ todo = << >>
  /\ OnClient(Client!Close \/ (writing = "open" /\ Client!CloseWriting))

\* The loops of ReadOne, ReadEach, and the returns of synchronous calls.  The status
\* of RouteChat is asked for after the thread that writes has ended (f.wait).
Read ==
  OnClient(\/ Client!SyncReturns
           \/ Client!ReadOne \/ Client!ParseFromString
           \/ Client!RecvStatus /\ (program = "SyncRouteChat" => writing = "closed")
           \/ Client!ReadEach)

\* Shutdown by a callback of the call...
ShutdownByCallback ==
  /\ pc = "callback" /\ busy = "run"
  /\ \/ program \in {"GetFeatureAsync", "AsyncSayHello"}
     \/ program = "ListFeaturesAsync" /\ outcome # "none"
  /\ OnClient(Client!Shutdown)

\* ...or by the function: RecordRouteAsync does not wait for the answer,
\* RouteChatAsync waits until its callback for the status was called (bReaderDone).
ShutdownByFunction ==
  /\ \/ program = "RecordRouteAsync" /\ pc # "made"
     \/ program = "RouteChatAsync" /\ writing = "closed" /\ outcome # "none"
  /\ OnClient(Client!Shutdown)

CallbackReturns ==
  /\ \/ shutdown
     \/ program = "ListFeaturesAsync" /\ outcome = "none"
     \/ program \in {"RecordRouteAsync", "RouteChatAsync"}
  /\ OnClient(Client!CallbackReturns("run"))

\* Run is called for asynchronous calls: by the function after the call, or by
\* another thread.
Run ==
  /\ api \notin {"SyncRequest", "SyncReader", "SyncWriter", "SyncReaderWriter"}
  /\ OnClient(Client!Run("run") \/ Client!RunReturns("run"))

CallBack == OnClient(Client!Event("run"))

\* Copies of the reader-writer: that of the thread or function that writes, and that
\* of the function that reads.
DropCopy ==
  OnClient(\/ Client!Drop("writer") /\ writing = "closed"
           \/ Client!Drop("reader") /\ (program = "RouteChatAsync" => shutdown))

\* Mutant: the future of Run has a destructor that does not wait.
ReadyEarly ==
  /\ pc = "done" \/ shutdown
  /\ api \in Client!ReaderWriters => copies = {}

Ready ==
  /\ pc = "done" \/ ran = {"run"}
  /\ api \in Client!ReaderWriters => copies = {}

\* The function returns; what std::async runs for it has ended then.
Return ==
  /\ ~ returned
  /\ Ready
  /\ returned' = TRUE
  /\ UNCHANGED <<program, todo, asked, answered, seen, next, record_route_result_,
                 received_notes_, connection, client, server>>

(***************************************************************************)
(* The connection, until it breaks, which each side learns on its own.     *)
(***************************************************************************)
DeliverRequest ==
  /\ ~ broken
  /\ arrived < Len(asked)
  /\ arrived' = arrived + 1
  /\ IF Streams THEN Server!ClientSends("good") ELSE UNCHANGED server
  /\ UNCHANGED <<content, fetched, broken, client>>

DeliverEnd ==
  /\ ~ broken
  /\ writing = "closed"
  /\ arrived = Len(asked)
  /\ Server!ClientEnds("ended")
  /\ UNCHANGED <<content, connection, client>>

DeliverReply ==
  /\ ~ broken
  /\ fetched < Len(sent)
  /\ fetched' = fetched + 1
  /\ IF sent[fetched'] = "msg"
       THEN Client!ServerSends("good")
       ELSE Client!ServerFinishes /\ (kind \in {"unary", "client"} => replies' = <<"good">>)
  /\ UNCHANGED <<content, arrived, broken, server>>

Break ==
  /\ ~ broken
  /\ broken' = TRUE
  /\ UNCHANGED <<content, arrived, fetched, client, server>>

ClientLearns ==
  /\ broken
  /\ Client!Breaks
  /\ UNCHANGED <<content, connection, server>>

ServerLearns ==
  /\ broken
  /\ Server!ClientEnds("broken")
  /\ UNCHANGED <<content, connection, client>>

(***************************************************************************)
(* RouteGuideImpl and GreeterServiceImpl.                                  *)
(***************************************************************************)
OnServer(action) == action /\ UNCHANGED <<content, connection, client>>

Same(p, q) == p[1] = q[1] /\ p[2] = q[2]

\* The name of the first feature at a place, or none.
GetFeatureName(point) ==
  LET at == { i \in DOMAIN Features : Same(Features[i].location, point) } IN
    IF at = {} THEN "" ELSE Features[Min(at)].name

Abs(n) == IF n < 0 THEN - n ELSE n

GetDistance(p, q) == Abs(p[1] - q[1]) + Abs(p[2] - q[2])

\* The sides of a rectangle given by any two opposite corners.
InRectangle(f, r) ==
  /\ f.location[2] >= Min({r.lo[2], r.hi[2]}) /\ f.location[2] <= Max({r.lo[2], r.hi[2]})
  /\ f.location[1] >= Min({r.lo[1], r.hi[1]}) /\ f.location[1] <= Max({r.lo[1], r.hi[1]})

\* CallMethod calls the handlers; a call with one request begins with the request.
Entry ==
  /\ Streams \/ arrived > 0
  /\ OnServer(\/ Server!MakeHandle \/ Server!CallHandler \/ Server!MakeHandleForReader
              \/ Server!StartResets \/ Server!StartReads \/ Server!EntryReturns)

\* GetFeature and SayHello reply.
Answer(req) ==
  IF Method(program) = "SayHello"
    THEN [message |-> <<"Hello", req>>]
    ELSE [name |-> GetFeatureName(req), location |-> req]

ReplyFeature ==
  /\ entry = "handler"
  /\ kind = "unary"
  /\ done = {}
  /\ Server!UserFinishes("handler", "ok")
  /\ answered' = <<Answer(asked[1])>>
  /\ UNCHANGED <<program, todo, returned, asked, seen, next, record_route_result_,
                 received_notes_, connection, client>>

\* ListFeatures starts a thread.
ListFeatures ==
  /\ kind = "server"
  /\ OnServer(Server!UserStartsThread("handler", "t"))

HandlerReturns ==
  \/ /\ kind = "unary" => done # {}
     /\ kind = "server" => started # {}
     /\ ~ Streams
     /\ OnServer(Server!HandlerReturns)
  \/ OnServer(Server!HandlerReturnsReader)

\* One turn of its loop, and the end of it when Write returns false, which it may
\* do when the connection is broken.
ListNext ==
  /\ kind = "server"
  /\ held["t"] # 0
  /\ next <= Len(Features)
  /\ \/ /\ InRectangle(Features[next], asked[1])
        /\ Server!UserWrites("t")
        /\ answered' = Append(answered, Features[next])
        /\ next' = next + 1
     \/ /\ InRectangle(Features[next], asked[1])
        /\ broken
        /\ next' = Len(Features) + 1
        /\ UNCHANGED <<answered, server>>
     \/ /\ ~ InRectangle(Features[next], asked[1])
        /\ next' = next + 1
        /\ UNCHANGED <<answered, server>>
  /\ UNCHANGED <<program, todo, returned, asked, seen, record_route_result_,
                 received_notes_, connection, client>>

\* grpc_cb_core calls the reader.
OnMsgStr ==
  /\ Server!OnMsgStr
  /\ seen' = seen + 1
  /\ next' = 1
  /\ UNCHANGED <<program, todo, returned, asked, answered, record_route_result_,
                 received_notes_, connection, client>>

ReaderEnds == OnServer(Server!OnEnd \/ Server!OnBroken)

\* Mutant: the first point counts as the end of a way too.
AddFromOrigin(r, point) ==
  [point_count |-> r.point_count + 1,
   feature_count |-> r.feature_count + IF GetFeatureName(point) # "" THEN 1 ELSE 0,
   distance |-> r.distance + GetDistance(r.previous, point),
   previous |-> point]

\* OnMsg of RecordRoute.
AddPoint(r, point) ==
  [point_count |-> r.point_count + 1,
   feature_count |-> r.feature_count + IF GetFeatureName(point) # "" THEN 1 ELSE 0,
   distance |-> r.distance + IF r.point_count # 0 THEN GetDistance(r.previous, point) ELSE 0,
   previous |-> point]

OnPoint ==
  /\ kind = "client"
  /\ Server!OnMsgReturns
  /\ record_route_result_' = AddPoint(record_route_result_, asked[seen])
  /\ UNCHANGED <<program, todo, returned, asked, answered, seen, next, received_notes_,
                 connection, client>>

\* OnMsg of RouteChat: one turn of its loop over the notes before...
EchoNote ==
  /\ kind = "bidi"
  /\ callback = "OnMsg"
  /\ next <= Len(received_notes_)
  /\ IF Same(received_notes_[next].location, asked[seen].location)
       THEN Server!UserWrites("reader") /\ answered' = Append(answered, received_notes_[next])
       ELSE UNCHANGED <<answered, server>>
  /\ next' = next + 1
  /\ UNCHANGED <<program, todo, returned, asked, seen, record_route_result_,
                 received_notes_, connection, client>>

\* ...and push_back.
OnNote ==
  /\ kind = "bidi"
  /\ next > Len(received_notes_)
  /\ Server!OnMsgReturns
  /\ received_notes_' = Append(received_notes_, asked[seen])
  /\ UNCHANGED <<program, todo, returned, asked, answered, seen, next,
                 record_route_result_, connection, client>>

\* OnEnd starts a thread with the handle.
OnEnd ==
  OnServer(\/ callback = "OnEnd" /\ Server!UserStartsThread("reader", "t")
           \/ started # {} /\ Server!LastCallbackReturns)

\* That of RecordRoute replies.  The time is not modelled.
ReplySummary ==
  /\ kind = "client"
  /\ done = {}
  /\ Server!UserFinishes("t", "ok")
  /\ answered' = <<[r \in DOMAIN record_route_result_ \ {"previous"} |-> record_route_result_[r]]>>
  /\ UNCHANGED <<program, todo, returned, asked, seen, next, record_route_result_,
                 received_notes_, connection, client>>

ThreadEnds ==
  /\ CASE kind = "server" -> next > Len(Features)
       [] kind = "client" -> done # {}
       [] OTHER -> TRUE
  /\ OnServer(Server!ThreadEnds("t"))

ServerThread ==
  \/ Entry \/ ReplyFeature \/ ListFeatures \/ HandlerReturns

ReaderThread ==
  \/ OnMsgStr \/ ReaderEnds \/ OnPoint \/ EchoNote \/ OnNote \/ OnEnd

UserThread == ListNext \/ ReplySummary \/ ThreadEnds

Next ==
  \/ WriteNext \/ CloseWriting \/ Read \/ ShutdownByCallback \/ ShutdownByFunction
  \/ CallbackReturns \/ Run \/ CallBack \/ DropCopy \/ Return
  \/ DeliverRequest \/ DeliverEnd \/ DeliverReply \/ Break \/ ClientLearns \/ ServerLearns
  \/ ServerThread \/ ReaderThread \/ UserThread

\* No thread stops before its end, and the connection delivers or breaks.
Spec ==
  /\ Init /\ [][Next]_vars
  /\ WF_vars(WriteNext \/ CloseWriting)
  /\ WF_vars(Read)
  /\ WF_vars(ShutdownByCallback \/ CallbackReturns)
  /\ WF_vars(ShutdownByFunction)
  /\ WF_vars(Run) /\ WF_vars(CallBack) /\ WF_vars(DropCopy) /\ WF_vars(Return)
  /\ WF_vars(DeliverRequest \/ DeliverEnd)
  /\ WF_vars(DeliverReply)
  /\ WF_vars(ClientLearns) /\ WF_vars(ServerLearns)
  /\ WF_vars(ServerThread) /\ WF_vars(ReaderThread) /\ WF_vars(UserThread)
-----------------------------------------------------------------------------
Plan == asked \o todo

\* The feature at a place, the first if there are several.
NameAt(point) ==
  LET here == { i \in DOMAIN Features : Features[i].location = point } IN
    IF here = {} THEN "" ELSE Features[Min(here)].name

Between(x, y, z) == (x <= y /\ y <= z) \/ (z <= y /\ y <= x)

Inside(rectangle) ==
  { i \in DOMAIN Features : \A axis \in 1 .. 2 :
      Between(rectangle.lo[axis], Features[i].location[axis], rectangle.hi[axis]) }

\* Of the first n elements those at some places, in their order.
Chosen(seq, places) ==
  LET chosen[n \in 0 .. Len(seq)] ==
        IF n = 0 THEN << >>
        ELSE IF n \in places THEN Append(chosen[n - 1], seq[n]) ELSE chosen[n - 1]
  IN chosen

\* The way along the first n points of a route.
Way(route) ==
  LET way[n \in 0 .. Len(route)] ==
        IF n <= 1 THEN 0 ELSE way[n - 1] + GetDistance(route[n - 1], route[n])
  IN way

Known(route) == { i \in DOMAIN route : NameAt(route[i]) # "" }

\* What the first n notes are answered with: for each those left before at its place.
Before(notes, n) == { k \in 1 .. n - 1 : notes[k].location = notes[n].location }

Echoes(notes) ==
  LET echoes[n \in 0 .. Len(notes)] ==
        IF n = 0 THEN << >>
        ELSE echoes[n - 1] \o Chosen(notes, Before(notes, n))[n - 1]
  IN echoes

\* What the caller of a method is to get for all its requests.
Expected ==
  CASE Method(program) = "SayHello" -> <<[message |-> <<"Hello", asked[1]>>]>>
    [] Method(program) = "GetFeature" -> <<[name |-> NameAt(asked[1]), location |-> asked[1]]>>
    [] Method(program) = "ListFeatures" -> Chosen(Features, Inside(asked[1]))[Len(Features)]
    [] Method(program) = "RecordRoute" ->
         <<[point_count |-> Len(Plan), feature_count |-> Cardinality(Known(Plan)),
            distance |-> Way(Plan)[Len(Plan)]]>>
    [] OTHER -> Echoes(Plan)[Len(Plan)]

\* Whatever the interface, the threads and the connection do, what the program is
\* given is a prefix of the right answer, and if it is told that the call
\* succeeded it is all of it: the four functions print it as the result.
AnswersRight ==
  LET received == SubSeq(answered, 1, delivered) IN
    /\ IsPrefix(received, Expected)
    /\ outcome = "ok" => received = Expected

\* No callback runs when the function that made it has returned: they hold
\* references to its Stub and its locals, and RecordRouteAsync only waits for them in
\* the destructor of the future of Run.
NoDangling == returned => pc # "callback"

\* Every function returns, and the server lets go of the call, also when the
\* connection breaks.  Not so greeter_cb_client.cc's asynchronous call: it has no
\* callback for a failure, and its Run goes on for ever.
ProgramEnds ==
  <>[] /\ returned \/ (program = "AsyncSayHello" /\ final = "rpc")
       /\ \A h \in DOMAIN held : held[h] = 0
=============================================================================
