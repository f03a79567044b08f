------------------------------ MODULE ClientCall ------------------------------
(***************************************************************************)
(* One call on the client, through any of the interfaces that a Stub has   *)
(* (include/grpc_cb/client): the two requests of StubHelper, the three     *)
(* synchronous classes and the three asynchronous ones.                    *)
(*                                                                         *)
(* Four parties interleave: the server and the network, the thread of the  *)
(* user that reads, another one that writes through a copy of the same     *)
(* object, and the threads that are in Stub::Run, which call the callbacks *)
(* of asynchronous calls.  The objects of grpc_cb_core are what the use of *)
(* them says: messages come in order, a message callback that returns an   *)
(* error ends the call with it, the callbacks of one call run one at a     *)
(* time and only within Run, an object that is copied closes its stream of *)
(* requests when CloseWriting is called or the last copy goes.             *)
(***************************************************************************)
EXTENDS Naturals, Sequences

CONSTANTS
  Apis,        \* interfaces in use, of those listed in AllApis
  Runners,     \* threads that call Stub::Run
  MaxReplies,  \* bound: responses in a stream
  MaxWrites    \* bound: requests in a stream

SyncReaders == {"SyncReader", "SyncReaderWriter"}
AsyncReaders == {"AsyncReader", "AsyncReaderWriter"}
ReaderWriters == {"SyncReaderWriter", "AsyncReaderWriter"}
Writers == {"SyncWriter", "AsyncWriter"} \cup ReaderWriters
AllApis == {"SyncRequest", "AsyncRequest", "SyncReader", "AsyncReader"} \cup Writers

ASSUME ApisAssumption == Apis \subseteq AllApis
ASSUME RunnersAssumption == "nobody" \notin Runners
ASSUME BoundsAssumption == MaxReplies \in Nat /\ MaxWrites \in Nat

VARIABLES
  api,        \* the interface used
  given,      \* what the caller passes that may be null: msg, the response or
              \* the callback for it, and status, the callback for the outcome
  writing,    \* the stream of requests: "open" or "closed"
  written,    \* requests written to it
  copies,     \* who has a copy of the object: "reader", "writer"
  replies,    \* responses that arrived: "good" or "bad" (does not parse)
  final,      \* how the call ended: "none" (not yet), "ok", "rpc" (it failed)
  taken,      \* responses taken by ReadOne or by the core's reading
  error,      \* SetErrorStatus, or what the message callback returned
  pc,         \* the reading side: "made", "waiting", "idle", "parse", "set",
              \* "ended" (ReadOne returned false), "callback", "done"
  busy,       \* the thread in Run that calls a callback, or "nobody"
  delivered,  \* responses given to the caller
  outcome,    \* the status given to the caller: "none", "ok", "rpc", "parse"
  over,       \* the core is done with the call
  running,    \* threads in Run
  ran,        \* threads that came back from it
  shutdown    \* Shutdown was called

call == <<api, given>>
requests == <<writing, written, copies>>
network == <<replies, final>>
reading == <<taken, error, pc, busy, delivered, outcome, over>>
loop == <<running, ran, shutdown>>
vars == <<call, requests, network, reading, loop>>

OneReply == api \notin SyncReaders \cup AsyncReaders

\* Only requests and asynchronous calls leave out callbacks or the response, and
\* the close callback takes both.
Givens(a) ==
  LET none == [msg : BOOLEAN, status : BOOLEAN] IN
    CASE a \in {"AsyncRequest"} \cup AsyncReaders -> none
      [] a = "SyncRequest" -> { g \in none : g.status }
      [] a = "AsyncWriter" -> { g \in none : g.status = g.msg }
      [] OTHER -> { g \in none : g.status /\ g.msg }

Init ==
  /\ api \in Apis
  /\ given \in Givens(api)
  /\ writing = IF api \in Writers THEN "open" ELSE "closed"
  /\ written = 0
  /\ copies = IF api \in ReaderWriters THEN {"reader", "writer"} ELSE {"reader"}
  /\ replies = << >>
  /\ final = "none"
  /\ taken = 0
  /\ error = "ok"
  /\ pc = CASE api \in {"SyncRequest", "AsyncRequest"} -> "waiting"
            [] api \in SyncReaders -> "idle"
            [] OTHER -> "made"
  /\ busy = "nobody"
  /\ delivered = 0
  /\ outcome = "none"
  /\ over = FALSE
  /\ running = {}
  /\ ran = {}
  /\ shutdown = FALSE

(***************************************************************************)
(* The response of a call that has one: SyncRequest, Close and the wrapped *)
(* close callback keep the error of the call, and else parse.              *)
(***************************************************************************)
Parses == replies[1] = "good"

Unwrap ==
  \/ /\ final # "ok" \/ ~ given.msg
     /\ outcome' = final
     /\ UNCHANGED delivered
  \/ /\ final = "ok" /\ given.msg /\ Parses
     /\ outcome' = "ok"
     /\ delivered' = 1
  \/ /\ final = "ok" /\ given.msg /\ ~ Parses
     /\ outcome' = "parse"
     /\ UNCHANGED delivered

\* StubHelper::SyncRequest, and Close of the synchronous writer, return.
SyncReturns ==
  /\ api \in {"SyncRequest", "SyncWriter"}
  /\ pc = "waiting"
  /\ final # "none"
  /\ Unwrap
  /\ over' = TRUE
  /\ pc' = "done"
  /\ UNCHANGED <<call, requests, network, taken, error, busy, loop>>

\* Close of a writer: no more requests, and the response is waited for.
Close ==
  /\ api \in {"SyncWriter", "AsyncWriter"}
  /\ pc = "made"
  /\ writing' = "closed"
  /\ pc' = "waiting"
  /\ UNCHANGED <<call, written, copies, network, taken, error, busy, delivered, outcome,
                 over, loop>>

(***************************************************************************)
(* ReadOne and RecvStatus of the synchronous readers.                      *)
(***************************************************************************)
Ended == final = "rpc" \/ (final = "ok" /\ taken = Len(replies))

ReadOne ==
  /\ api \in SyncReaders
  /\ pc = "idle"
  /\ \/ /\ taken < Len(replies)
        /\ taken' = taken + 1
        /\ pc' = "parse"
     \/ /\ Ended
        /\ pc' = "ended"
        /\ UNCHANGED taken
  /\ UNCHANGED <<call, requests, network, error, busy, delivered, outcome, over, loop>>

ParseFromString ==
  /\ api \in SyncReaders
  /\ pc = "parse"
  /\ IF replies[taken] = "good"
       THEN delivered' = delivered + 1 /\ pc' = "idle"
       ELSE pc' = "set" /\ UNCHANGED delivered
  /\ UNCHANGED <<call, requests, network, taken, error, busy, outcome, over, loop>>

SetErrorStatus ==
  /\ pc = "set"
  /\ error' = "parse"
  /\ pc' = "ended"
  /\ UNCHANGED <<call, requests, network, taken, busy, delivered, outcome, over, loop>>

RecvStatus ==
  /\ pc = "ended"
  /\ \/ error # "ok" /\ outcome' = error
     \/ error = "ok" /\ final # "none" /\ outcome' = final
  /\ over' = TRUE
  /\ pc' = "done"
  /\ UNCHANGED <<call, requests, network, taken, error, busy, delivered, loop>>

(***************************************************************************)
(* Asynchronous calls: what a thread in Run does.                          *)
(***************************************************************************)
\* ReadEach, which a Stub calls at once for a call without a stream of requests.
ReadEach ==
  /\ api \in AsyncReaders
  /\ pc = "made"
  /\ pc' = "idle"
  /\ UNCHANGED <<call, requests, network, taken, error, busy, delivered, outcome, over, loop>>

\* The next event of the call goes to a thread in Run.
Dispatch(r) == r \in running /\ busy = "nobody" /\ ~ over

Call(r) == pc' = "callback" /\ busy' = r

\* The callback for the outcome, if there is one.
CallStatus(r, status) ==
  IF given.status THEN Call(r) /\ outcome' = status
                  ELSE pc' = "idle" /\ UNCHANGED <<busy, outcome>>

\* What WrapMsgCb makes of a message callback: it is called and the result is OK,
\* or the result is the error that the message did not parse.
\* Mutant: the result is OK in any case.
WrapMsgCbOK(m) ==
  /\ delivered' = IF m = "good" THEN delivered + 1 ELSE delivered
  /\ UNCHANGED error

WrapMsgCb(m) ==
  IF m = "good" THEN delivered' = delivered + 1 /\ UNCHANGED error
                ELSE error' = "parse" /\ UNCHANGED delivered

\* The response of AsyncRequest: the message callback, and the error callback if
\* that returned an error or the call failed.
Respond(r) ==
  /\ api = "AsyncRequest"
  /\ pc = "waiting"
  /\ Dispatch(r)
  /\ \/ /\ final = "ok" /\ given.msg
        /\ WrapMsgCb(replies[1])
        /\ IF error' = "ok" THEN Call(r) /\ UNCHANGED outcome ELSE CallStatus(r, error')
     \/ /\ final = "ok" /\ ~ given.msg
        /\ pc' = "idle"
        /\ UNCHANGED <<error, busy, delivered, outcome>>
     \/ /\ final = "rpc"
        /\ CallStatus(r, final)
        /\ UNCHANGED <<error, delivered>>
  /\ over' = TRUE
  /\ UNCHANGED <<call, requests, network, taken, loop>>

\* The writer's response: the close callback takes it with the outcome.
OnClose(r) ==
  /\ api = "AsyncWriter"
  /\ pc = "waiting"
  /\ Dispatch(r)
  /\ final # "none"
  /\ IF given.status THEN Call(r) /\ Unwrap
                     ELSE pc' = "idle" /\ UNCHANGED <<busy, delivered, outcome>>
  /\ over' = TRUE
  /\ UNCHANGED <<call, requests, network, taken, error, loop>>

\* The next message of a stream that is read.
OnMsg(r) ==
  /\ api \in AsyncReaders
  /\ pc = "idle"
  /\ Dispatch(r)
  /\ error = "ok"
  /\ taken < Len(replies)
  /\ taken' = taken + 1
  /\ IF given.msg
       THEN /\ WrapMsgCb(replies[taken'])
            /\ IF error' = "ok" THEN Call(r) ELSE UNCHANGED <<pc, busy>>
       ELSE UNCHANGED <<error, pc, busy, delivered>>
  /\ UNCHANGED <<call, requests, network, outcome, over, loop>>

\* The end of the stream, or of the reading.
OnEnd(r) ==
  /\ api \in AsyncReaders
  /\ pc = "idle"
  /\ Dispatch(r)
  /\ \/ error # "ok" /\ CallStatus(r, error)
     \/ error = "ok" /\ Ended /\ CallStatus(r, final)
  /\ over' = TRUE
  /\ UNCHANGED <<call, requests, network, taken, error, delivered, loop>>

CallbackReturns(r) ==
  /\ pc = "callback"
  /\ busy = r
  /\ busy' = "nobody"
  /\ pc' = "idle"
  /\ UNCHANGED <<call, requests, network, taken, error, delivered, outcome, over, loop>>

Event(r) == Respond(r) \/ OnClose(r) \/ OnMsg(r) \/ OnEnd(r)

\* Run, which ends after Shutdown, between two events.
Run(r) ==
  /\ r \notin running \cup ran
  /\ running' = running \cup {r}
  /\ UNCHANGED <<call, requests, network, reading, ran, shutdown>>

\* Mutant: in the middle of one.
RunReturnsAtOnce(r) ==
  /\ r \in running
  /\ shutdown
  /\ running' = running \ {r}
  /\ ran' = ran \cup {r}
  /\ UNCHANGED <<call, requests, network, reading, shutdown>>

RunReturns(r) ==
  /\ r \in running
  /\ busy # r
  /\ shutdown
  /\ running' = running \ {r}
  /\ ran' = ran \cup {r}
  /\ UNCHANGED <<call, requests, network, reading, shutdown>>

\* By any thread of the user, from a callback too.
Shutdown ==
  /\ ~ shutdown
  /\ shutdown' = TRUE
  /\ UNCHANGED <<call, requests, network, reading, running, ran>>

(***************************************************************************)
(* The requests of the user, and the server's side.                        *)
(***************************************************************************)
\* Write, before the stream was closed; it returns false if the call is broken.
Write ==
  /\ writing = "open"
  /\ written < MaxWrites
  /\ written' = IF final = "rpc" THEN written ELSE written + 1
  /\ UNCHANGED <<call, writing, copies, network, reading, loop>>

\* CloseWriting; to call it again does nothing.
CloseWriting ==
  /\ api \in ReaderWriters
  /\ "writer" \in copies
  /\ writing' = "closed"
  /\ UNCHANGED <<call, written, copies, network, reading, loop>>

\* A copy of a reader-writer goes: that of a loop of ReadOne when the loop is over,
\* that of a thread that writes beside such a loop after CloseWriting, which alone
\* lets the loop end.
Droppable(who) ==
  /\ api \in ReaderWriters
  /\ who \in copies
  /\ IF api = "SyncReaderWriter"
       THEN IF who = "reader" THEN over ELSE writing = "closed"
       ELSE who = "reader" => pc # "made"

\* Mutant: the last copy that goes closes nothing.
DropKeepsOpen(who) ==
  /\ Droppable(who)
  /\ copies' = copies \ {who}
  /\ UNCHANGED <<call, writing, written, network, reading, loop>>

Drop(who) ==
  /\ Droppable(who)
  /\ copies' = copies \ {who}
  /\ writing' = IF copies' = {} THEN "closed" ELSE writing
  /\ UNCHANGED <<call, written, network, reading, loop>>

ServerSends(m) ==
  /\ ~ OneReply
  /\ final = "none"
  /\ Len(replies) < MaxReplies
  /\ replies' = Append(replies, m)
  /\ UNCHANGED <<call, requests, final, reading, loop>>

\* The call succeeds; its one response comes with it.
ServerFinishes ==
  /\ final = "none"
  /\ final' = "ok"
  /\ \/ OneReply /\ \E m \in {"good", "bad"} : replies' = <<m>>
     \/ ~ OneReply /\ UNCHANGED replies
  /\ UNCHANGED <<call, requests, reading, loop>>

\* It fails: the server says so, the connection breaks, the time is up.  Responses
\* under way are lost.
Breaks ==
  /\ final = "none"
  /\ final' = "rpc"
  /\ \E n \in taken .. Len(replies) : replies' = SubSeq(replies, 1, n)
  /\ UNCHANGED <<call, requests, reading, loop>>

Sync == SyncReturns \/ Close \/ ReadOne \/ ParseFromString \/ SetErrorStatus \/ RecvStatus \/ ReadEach

Next ==
  \/ Sync
  \/ \E r \in Runners : Event(r) \/ CallbackReturns(r) \/ Run(r) \/ RunReturns(r)
  \/ Shutdown
  \/ Write \/ CloseWriting
  \/ \E who \in {"reader", "writer"} : Drop(who)
  \/ \E m \in {"good", "bad"} : ServerSends(m)
  \/ ServerFinishes \/ Breaks

\* A server that has all the requests ends its call, or the call breaks.
ServerEnds == writing = "closed" /\ (ServerFinishes \/ Breaks)

\* Threads of the user go on with what they wait for, a callback returns, threads
\* that are to Run do, the thread that writes beside a loop of ReadOne closes its
\* stream, and copies of asynchronous objects go.  Nobody need call Shutdown, but
\* after it Run returns.
Spec ==
  /\ Init /\ [][Next]_vars
  /\ WF_vars(Sync)
  /\ \A r \in Runners :
       /\ WF_vars(Run(r)) /\ WF_vars(Event(r))
       /\ WF_vars(CallbackReturns(r)) /\ WF_vars(RunReturns(r))
  /\ WF_vars(api = "SyncReaderWriter" /\ CloseWriting)
  /\ \A who \in {"reader", "writer"} : WF_vars(Drop(who))
  /\ WF_vars(ServerEnds)
-----------------------------------------------------------------------------
\* Every variable has its type, and a callback runs in a thread that is in Run.
TypeOK ==
  /\ api \in Apis
  /\ given \in [msg : BOOLEAN, status : BOOLEAN]
  /\ writing \in {"open", "closed"}
  /\ written \in 0 .. MaxWrites
  /\ copies \subseteq {"reader", "writer"}
  /\ replies \in Seq({"good", "bad"})
  /\ final \in {"none", "ok", "rpc"}
  /\ taken \in 0 .. Len(replies)
  /\ error \in {"ok", "parse"}
  /\ pc \in {"made", "waiting", "idle", "parse", "set", "ended", "callback", "done"}
  /\ busy \in running \cup {"nobody"}
  /\ (busy = "nobody") = (pc # "callback")
  /\ delivered \in 0 .. Len(replies)
  /\ outcome \in {"none", "ok", "rpc", "parse"}
  /\ over \in BOOLEAN
  /\ running \subseteq Runners
  /\ ran \subseteq Runners
  /\ shutdown \in BOOLEAN

\* Whatever the interface and whoever is faster, the call keeps CallPromise:
\* responses are delivered in order up to the first that does not parse, then the
\* caller is told once and for the right reason.  README.md's loops over ReadOne,
\* and its callbacks that are written as if each came at most once, rest on it.
Promise == INSTANCE CallPromise WITH wants <- given.msg

ImplementsCall == Promise!Spec

\* Who asked to be told is told: by one of the two callbacks of AsyncRequest, by
\* the status of the others.
Told ==
  CASE api = "AsyncRequest" -> given.msg /\ given.status => delivered = 1 \/ outcome # "none"
    [] OTHER -> given.status => outcome # "none"

\* Every call comes to its end and its caller learns how, although reader, writer
\* and the threads in Run wait for each other and for the server, unless Shutdown
\* comes first: then all threads come back from Run.
Reported == <>[]((over /\ Told) \/ (shutdown /\ ran = Runners))
=============================================================================
