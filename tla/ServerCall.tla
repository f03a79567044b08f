----------------------------- MODULE ServerCall -----------------------------
(***************************************************************************)
(* One call on the server, from Service::CallMethod, which the generator   *)
(* writes (src/compiler/cpp_cb_generator.cc), to the end of the last       *)
(* handle: ServerReplier, ServerWriter and the two server readers of       *)
(* include/grpc_cb/server.                                                 *)
(*                                                                         *)
(* A handle is a shared pointer to an object of grpc_cb_core, created from *)
(* the call; copies share the object.  Who holds a copy: the entry that    *)
(* CallMethod calls, the user's handler, the reader and the threads of the *)
(* user.  User code may do with a handle what its class allows, at any     *)
(* time.  The objects of grpc_cb_core, which is not in the repository, are *)
(* what the comments and the use of them say: a call is answered once, the *)
(* last copy of a writer closes it, a reader that was started calls        *)
(* OnMsgStr and OnEnd or OnError, one at a time, from a thread of its own, *)
(* and is kept until the last of these returns.                            *)
(***************************************************************************)
EXTENDS Naturals, Sequences, FiniteSets

CONSTANTS
  Kinds,     \* kinds of methods: "unary", "server", "client", "bidi"
  Threads,   \* threads the user's code may start, each once
  MaxInbox,  \* bound: messages of the client in a stream
  MaxSent    \* bound: messages of the server in a stream

ASSUME KindsAssumption == Kinds \subseteq {"unary", "server", "client", "bidi"}
ASSUME ThreadsAssumption ==
  IsFiniteSet(Threads) /\ Threads \cap {"entry", "handler", "reader"} = {}

Holders == {"entry", "handler", "reader"} \cup Threads

VARIABLES
  kind,      \* kind of the method called
  request,   \* request_buffer: "null", "bad" (does not parse), "good"
  pc,        \* CallMethod: "called", "deserialize", "handler", "reset",
             \* "start", "leave", "returned"
  made,      \* core objects created for the call
  held,      \* the core object each holder has a copy of the handle to, or 0
  started,   \* the threads of the user that were started
  done,      \* the core objects that were replied to, or closed
  sent,      \* what the client is sent: "msg", and a final "ok", "error", "auto"
  reading,   \* grpc_cb_core::ServerReader::Start was called and has not ended
  callback,  \* "idle" or the virtual function of the reader that is running
  inbox,     \* messages of the client, not read yet: "good" or "bad"
  stream,    \* the client's side: "open", "ended", "broken"
  overrides, \* the user's reader overrides OnError
  failed,    \* history: a request or message did not parse, or the stream broke
  first,     \* history: the final answer that was given first, or "none"
  asserted   \* history: an assert of the reader failed

client == <<inbox, stream>>
answer == <<done, sent, first>>
vars == <<kind, request, pc, made, held, started, answer, reading, callback,
          client, overrides, failed, asserted>>

HasWriter == kind \in {"server", "bidi"}
ClientStreaming == kind \in {"client", "bidi"}

Init ==
  /\ kind \in Kinds
  /\ request \in IF ClientStreaming THEN {"null"} ELSE {"null", "bad", "good"}
  /\ pc = "called"
  /\ made = 0
  /\ held = [h \in Holders |-> 0]
  /\ started = {}
  /\ done = {}
  /\ sent = << >>
  /\ reading = FALSE
  /\ callback = "idle"
  /\ inbox = << >>
  /\ stream = "open"
  /\ overrides \in BOOLEAN
  /\ failed = FALSE
  /\ first = "none"
  /\ asserted = FALSE

(***************************************************************************)
(* The core objects.                                                       *)
(***************************************************************************)
\* Reply, ReplyError, SyncClose and AsyncClose: only the first is accepted.
Finish(core, how) ==
  /\ first' = IF first = "none" THEN how ELSE first
  /\ IF core \in done
       THEN UNCHANGED <<done, sent>>
       ELSE done' = done \cup {core} /\ sent' = Append(sent, how)

Write(core) ==
  /\ sent' = IF core \in done THEN sent ELSE Append(sent, "msg")
  /\ UNCHANGED <<done, first>>

\* Some holders drop their handles.  A writer that nobody holds any more closes.
Unheld(core) == \A h \in Holders : held'[h] # core

\* Mutant: every copy closes the writer when it goes.
DropCloses(holders) ==
  /\ held' = [h \in Holders |-> IF h \in holders THEN 0 ELSE held[h]]
  /\ IF HasWriter /\ \E h \in holders : held[h] # 0
       THEN Finish(held[CHOOSE h \in holders : held[h] # 0], "auto")
       ELSE UNCHANGED answer

Drop(holders) ==
  /\ held' = [h \in Holders |-> IF h \in holders THEN 0 ELSE held[h]]
  /\ IF HasWriter /\ \E h \in holders : held[h] # 0 /\ Unheld(held[h])
       THEN Finish(held[CHOOSE h \in holders : held[h] # 0 /\ Unheld(held[h])], "auto")
       ELSE UNCHANGED answer

(***************************************************************************)
(* CallMethod and the entry of the method.                                 *)
(***************************************************************************)
\* Methods with one request: without a request buffer CallMethod returns.
NoRequest ==
  /\ pc = "called"
  /\ ~ ClientStreaming
  /\ request = "null"
  /\ pc' = "returned"
  /\ UNCHANGED <<kind, request, started, made, held, answer, reading, callback, client,
                 overrides, failed, asserted>>

\* Else it creates the handle and calls the entry with it.
MakeHandle ==
  /\ pc = "called"
  /\ ~ ClientStreaming
  /\ request # "null"
  /\ made' = made + 1
  /\ held' = [held EXCEPT !["entry"] = made']
  /\ pc' = "deserialize"
  /\ UNCHANGED <<kind, request, started, answer, reading, callback, client, overrides,
                 failed, asserted>>

\* A request that parses goes to the handler with a copy of the handle.
CallHandler ==
  /\ pc = "deserialize"
  /\ request = "good"
  /\ held' = [held EXCEPT !["handler"] = held["entry"]]
  /\ pc' = "handler"
  /\ UNCHANGED <<kind, request, started, made, answer, reading, callback, client,
                 overrides, failed, asserted>>

\* ReplyError(status), or AsyncClose(status), and the handle goes.
RefuseRequest ==
  /\ pc = "deserialize"
  /\ request = "bad"
  /\ Finish(held["entry"], "error")
  /\ held' = [held EXCEPT !["entry"] = 0]
  /\ failed' = TRUE
  /\ pc' = "returned"
  /\ UNCHANGED <<kind, request, started, made, reading, callback, client, overrides, asserted>>

\* Methods with a stream of requests: the entry creates the handle and calls the
\* handler with a copy of it.
MakeHandleForReader ==
  /\ pc = "called"
  /\ ClientStreaming
  /\ made' = made + 1
  /\ held' = [held EXCEPT !["entry"] = made', !["handler"] = made']
  /\ pc' = "handler"
  /\ UNCHANGED <<kind, request, started, answer, reading, callback, client, overrides,
                 failed, asserted>>

\* The handler of the generated class: UNIMPLEMENTED, and no reader.
Unimplemented ==
  /\ pc = "handler"
  /\ Finish(held["handler"], "error")
  /\ held' = [held EXCEPT !["handler"] = 0, !["entry"] = 0]
  /\ pc' = "returned"
  /\ UNCHANGED <<kind, request, started, made, reading, callback, client, overrides,
                 failed, asserted>>

\* The user's handler returns: nothing, or a null reader...
HandlerReturns ==
  /\ pc = "handler"
  /\ Drop({"handler", "entry"})
  /\ pc' = "returned"
  /\ UNCHANGED <<kind, request, started, made, reading, callback, client, overrides,
                 failed, asserted>>

\* ...or a reader.
HandlerReturnsReader ==
  /\ pc = "handler"
  /\ ClientStreaming
  /\ Drop({"handler"})
  /\ pc' = "reset"
  /\ UNCHANGED <<kind, request, started, made, reading, callback, client, overrides,
                 failed, asserted>>

\* Mutants: Start forgets its handle; it makes one from the call, which is a core
\* object of its own.
StartForgets ==
  /\ pc = "reset"
  /\ pc' = "start"
  /\ UNCHANGED <<kind, request, started, made, held, answer, reading, callback,
                 client, overrides, failed, asserted>>

StartMakesHandle ==
  /\ pc = "reset"
  /\ made' = made + 1
  /\ held' = [held EXCEPT !["reader"] = made']
  /\ pc' = "start"
  /\ UNCHANGED <<kind, request, started, answer, reading, callback, client,
                 overrides, failed, asserted>>

\* Start of the reader: its handle first...
StartResets ==
  /\ pc = "reset"
  /\ held' = [held EXCEPT !["reader"] = held["entry"]]
  /\ pc' = "start"
  /\ UNCHANGED <<kind, request, started, made, answer, reading, callback, client,
                 overrides, failed, asserted>>

\* ...then Start of grpc_cb_core, from when on it is called back.
StartReads ==
  /\ pc = "start"
  /\ reading' = TRUE
  /\ pc' = "leave"
  /\ UNCHANGED <<kind, request, started, made, held, answer, callback, client, overrides,
                 failed, asserted>>

EntryReturns ==
  /\ pc = "leave"
  /\ Drop({"entry"})
  /\ pc' = "returned"
  /\ UNCHANGED <<kind, request, started, made, reading, callback, client, overrides,
                 failed, asserted>>

(***************************************************************************)
(* The reader.                                                             *)
(***************************************************************************)
\* writer_uptr_ or replier_uptr_, which the reader asserts that it has.
AssertHandle == asserted' = (asserted \/ held["reader"] = 0)

\* The default OnError answers with the error; grpc_cb_core then lets the reader
\* go, and its handle with it.
OnError ==
  /\ failed' = TRUE
  /\ IF overrides
       THEN /\ callback' = "OnError"
            /\ UNCHANGED <<answer, held, reading, asserted>>
       ELSE /\ AssertHandle
            /\ Finish(held["reader"], "error")
            /\ held' = [held EXCEPT !["reader"] = 0]
            /\ reading' = FALSE
            /\ UNCHANGED callback

\* Mutant: the result of parsing is not looked at.
OnMsgStrIgnores ==
  /\ reading
  /\ callback = "idle"
  /\ inbox # << >>
  /\ inbox' = Tail(inbox)
  /\ callback' = "OnMsg"
  /\ failed' = (failed \/ Head(inbox) = "bad")
  /\ UNCHANGED <<kind, request, started, pc, made, held, answer, reading, stream,
                 overrides, asserted>>

\* OnMsgStr parses the message and calls OnMsg, or fails and has OnError called.
OnMsgStr ==
  /\ reading
  /\ callback = "idle"
  /\ inbox # << >>
  /\ inbox' = Tail(inbox)
  /\ IF Head(inbox) = "good"
       THEN /\ callback' = "OnMsg"
            /\ UNCHANGED <<answer, held, reading, failed, asserted>>
       ELSE OnError
  /\ UNCHANGED <<kind, request, started, pc, made, stream, overrides>>

OnBroken ==
  /\ reading
  /\ callback = "idle"
  /\ stream = "broken"
  /\ OnError
  /\ UNCHANGED <<kind, request, started, pc, made, client, overrides>>

OnEnd ==
  /\ reading
  /\ callback = "idle"
  /\ inbox = << >>
  /\ stream = "ended"
  /\ callback' = "OnEnd"
  /\ UNCHANGED <<kind, request, started, pc, made, held, answer, reading, client,
                 overrides, failed, asserted>>

OnMsgReturns ==
  /\ callback = "OnMsg"
  /\ callback' = "idle"
  /\ UNCHANGED <<kind, request, started, pc, made, held, answer, reading, client,
                 overrides, failed, asserted>>

\* Mutants: the reader is let go but its handle is not; the other way round.
ReaderKeepsHandle ==
  /\ callback \in {"OnEnd", "OnError"}
  /\ callback' = "idle"
  /\ reading' = FALSE
  /\ UNCHANGED <<kind, request, started, pc, made, held, answer, client, overrides,
                 failed, asserted>>

ReaderReadsOn ==
  /\ callback \in {"OnEnd", "OnError"}
  /\ callback' = "idle"
  /\ Drop({"reader"})
  /\ UNCHANGED <<kind, request, started, pc, made, reading, client, overrides,
                 failed, asserted>>

LastCallbackReturns ==
  /\ callback \in {"OnEnd", "OnError"}
  /\ callback' = "idle"
  /\ reading' = FALSE
  /\ Drop({"reader"})
  /\ UNCHANGED <<kind, request, started, pc, made, client, overrides, failed, asserted>>

(***************************************************************************)
(* User code that runs with a handle: the handler, a callback of the       *)
(* reader, which gets it from the reader, a thread.                        *)
(***************************************************************************)
Runs(h) ==
  \/ h = "handler" /\ pc = "handler"
  \/ h = "reader" /\ callback # "idle"
  \/ h \in Threads /\ held[h] # 0

Uses(h) == IF h = "reader" THEN AssertHandle ELSE UNCHANGED asserted

UserFinishes(h, how) ==
  /\ Runs(h)
  /\ Finish(held[h], how)
  /\ Uses(h)
  /\ UNCHANGED <<kind, request, started, pc, made, held, reading, callback, client,
                 overrides, failed>>

UserWrites(h) ==
  /\ Runs(h)
  /\ HasWriter
  /\ Len(sent) < MaxSent
  /\ Write(held[h])
  /\ Uses(h)
  /\ UNCHANGED <<kind, request, started, pc, made, held, reading, callback, client,
                 overrides, failed>>

UserStartsThread(h, t) ==
  /\ Runs(h)
  /\ t \notin started
  /\ started' = started \cup {t}
  /\ held' = [held EXCEPT ![t] = held[h]]
  /\ Uses(h)
  /\ UNCHANGED <<kind, request, pc, made, answer, reading, callback, client,
                 overrides, failed>>

ThreadEnds(t) ==
  /\ held[t] # 0
  /\ Drop({t})
  /\ UNCHANGED <<kind, request, started, pc, made, reading, callback, client, overrides,
                 failed, asserted>>

(***************************************************************************)
(* The client's side of a stream of requests.                              *)
(***************************************************************************)
ClientSends(msg) ==
  /\ ClientStreaming
  /\ stream = "open"
  /\ Len(inbox) < MaxInbox
  /\ inbox' = Append(inbox, msg)
  /\ UNCHANGED <<kind, request, started, pc, made, held, answer, reading, callback,
                 stream, overrides, failed, asserted>>

ClientEnds(how) ==
  /\ ClientStreaming
  /\ stream = "open"
  /\ stream' = how
  /\ UNCHANGED <<kind, request, started, pc, made, held, answer, reading, callback,
                 inbox, overrides, failed, asserted>>

CallMethod ==
  \/ NoRequest \/ MakeHandle \/ CallHandler \/ RefuseRequest
  \/ MakeHandleForReader \/ Unimplemented
  \/ HandlerReturns \/ HandlerReturnsReader
  \/ StartResets \/ StartReads \/ EntryReturns

Reader == OnMsgStr \/ OnBroken \/ OnEnd \/ OnMsgReturns \/ LastCallbackReturns

User ==
  \E h \in Holders :
    \/ \E how \in {"ok", "error"} : UserFinishes(h, how)
    \/ UserWrites(h)
    \/ \E t \in Threads : UserStartsThread(h, t)

ClientDone == ClientEnds("ended") \/ ClientEnds("broken")

Next ==
  \/ CallMethod
  \/ Reader
  \/ User
  \/ \E t \in Threads : ThreadEnds(t)
  \/ \E msg \in {"good", "bad"} : ClientSends(msg)
  \/ ClientDone

\* The threads of grpc_cb_core go on, user code returns when it was called and
\* threads end, and so does the stream of the client.
Spec ==
  /\ Init /\ [][Next]_vars
  /\ WF_vars(CallMethod)
  /\ WF_vars(Reader)
  /\ WF_vars(ClientDone)
  /\ \A t \in Threads : WF_vars(ThreadEnds(t))
-----------------------------------------------------------------------------
Finals == {"ok", "error", "auto"}

\* Every variable has its type, and a reader that is called back has its handle.
TypeOK ==
  /\ kind \in Kinds
  /\ request \in {"null", "bad", "good"}
  /\ pc \in {"called", "deserialize", "handler", "reset", "start", "leave", "returned"}
  /\ made \in Nat
  /\ held \in [Holders -> 0 .. made]
  /\ started \subseteq Threads
  /\ done \subseteq Nat
  /\ sent \in Seq(Finals \cup {"msg"})
  /\ reading \in BOOLEAN
  /\ callback \in {"idle", "OnMsg", "OnEnd", "OnError"}
  /\ callback # "idle" => reading
  /\ reading => pc \in {"leave", "returned"} /\ held["reader"] # 0
  /\ inbox \in Seq({"good", "bad"})
  /\ stream \in {"open", "ended", "broken"}
  /\ overrides \in BOOLEAN
  /\ failed \in BOOLEAN
  /\ first \in Finals \cup {"none"}
  /\ asserted \in BOOLEAN

\* server_replier.h: "Only accept the 1st reply and ignore other replies", and
\* server_writer.h: "Redundant close will be ignored".  The client is sent one
\* final answer, nothing after it, and it is the first that any of the entry,
\* the handler, the reader and the threads gave, whoever was faster.
AnsweredOnce ==
  /\ \A i \in 1 .. Len(sent) - 1 : sent[i] = "msg"
  /\ first = IF sent # << >> /\ sent[Len(sent)] # "msg" THEN sent[Len(sent)] ELSE "none"

\* server_writer.h: "Close() is optional. Dtr() will auto SyncClose()".  A writer
\* closes by itself only when nobody can write to it any more, although entry,
\* handler and reader drop their copies while threads go on, and it does close
\* when the last copy is gone.
ClosedByLast ==
  LET unheld == \A h \in Holders : held[h] = 0 IN
    /\ first = "auto" => unheld
    /\ HasWriter /\ made > 0 /\ unheld => first # "none"

\* A call in which a request did not parse, or whose stream broke, is never
\* reported as a success that nobody chose: unless the user took over OnError it
\* is answered, and not by the closing of an unused writer.
FailureReported == failed /\ ~ overrides => first \notin {"none", "auto"}

\* The comments "Must after Start()": no callback finds the reader without its
\* handle.
AssertsHold == ~ asserted

\* Once user code is done with a call and the client's stream is over every
\* handle is dropped, so that the call is freed, and a writer has been closed.
CallEnds ==
  <>[] /\ \A h \in Holders : held[h] = 0
       /\ HasWriter /\ made > 0 => first # "none"
=============================================================================
