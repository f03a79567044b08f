# Verification of grpc_cb

grpc_cb is a C++ callback interface of gRPC. It consists of a `protoc` plugin
that writes a `Stub` and a `Service` class for every service of a `.proto`
file, of templates that give these classes typed messages over the untyped
`grpc_cb_core`, and of the conversion of protobuf messages to the buffers of
gRPC. `grpc_cb_core`, which does the calls, is another repository; what these
modules say of it is what the comments and the use of it in this one say.

Paths below are those of the repository.

## Inventory

| Part | State | Operations | Interacts with |
|---|---|---|---|
| `GrpcBufferReader` (`src/cpp_cb/common/proto_utils.cc`) | slices taken, slice in use, `byte_count_`, `backup_count_`, `status_` | constructor, `Next`, `BackUp`, `Skip`, `ByteCount` | called by protobuf's `CodedInputStream`; calls `grpc_byte_buffer_reader` |
| `GrpcBufferWriter` (same file) | `slice_buffer_`, `slice_`, `backup_slice_`, `have_backup_`, `byte_count_`; memory and reference counts of gRPC's slices | constructor, `Next`, `BackUp`, destructor | called by `CodedOutputStream`; calls gRPC's slices |
| `Proto::Serialize`, `Proto::Deserialize` (same file) | none of their own; the caller's buffer and message | the two functions | `Deserialize` is called by generated code |
| Generator (`src/compiler`) | header and source text, parameters | `Generate` and the functions that print | protobuf's descriptors; its output uses all other parts |
| `Service` (`src/cpp_cb/server/service.cc`) | the descriptor | `GetFullName`, `GetMethodCount`, `IsMethodClientStreaming`, and the generated `CallMethod` | called by `grpc_cb_core`'s server |
| Server handles (`ServerReplier`, `ServerWriter`) and readers (`ServerReader`, `...ForBidiStreaming`, `...ForClientSideStreaming`) | shared pointers to core objects; the reader's own copy of the handle | `Reply`, `ReplyError`, `Write`, `SyncClose`, `AsyncClose`, `Start`, `OnMsgStr`, `OnError`, `GetWriter` | user code, its threads, `grpc_cb_core`'s callbacks |
| Client side (`StubHelper`, `Client{Sync,Async}{Reader,Writer,ReaderWriter}`, `WrapMsgCb`, `WrapCloseCb`) | shared pointers to core objects, captured callbacks | requests, `Write`, `Close`, `ReadOne`, `ReadEach`, `RecvStatus` | user code, `grpc_cb_core`'s completion queue (`Run`, `Shutdown`) |
| Examples (`examples/cpp_cb`) | a feature list, received notes, a route's sums | handlers, readers and detached threads of the servers; ten functions of the clients that make a call | use all of the above |
| The examples' database parser (`route_guide/helper.cc`) | text, position, failure | `GetDbFileContent`, `ParseDb`, `Parser` | called by both route guide programs |
| The examples' generated files | service classes (`*.grpc_cb.pb.*`), messages (`*.pb.*`) | stubs, `CallMethod` and its entries; accessors, sizes, serializing, parsing, merging | between user code and the rest |

What makes each part correct, and hard:

* **Reader and writer.** protobuf calls `Next`, `BackUp` and `Skip` in any
  order that its contract allows. The reader must deliver every byte once and in
  order, over slices of any size, empty ones too, and a `Skip` must end. The
  writer lends memory, takes back the end of it, lends that again, and hands
  over a list of slices that share blocks: no byte may be overwritten, no block
  freed early or leaked.
* **Serialize and Deserialize.** What was written is read back, and a buffer is
  accepted only if it is one whole message within the limit. There are partial
  failures on both sides, and a call with a side effect inside `assert()`.
* **Generator.** Many functions print pieces that must fit: declarations and
  definitions, namespaces, and four places that number the methods of a service.
  Only the two examples are ever compiled.
* **Server side.** The handler, the callbacks of the reader and the user's
  threads share one handle. The first answer counts, the last copy of a writer
  closes it, and a message that does not parse in the middle of it all must be
  reported.
* **Client side.** Responses are delivered in order, none that does not parse and
  none after it, and then the caller is told one outcome with the right cause,
  whatever fails and whichever of the eight interfaces it uses. The loop that runs
  the callbacks must end, and not too early.
* **Examples.** Both ends and the connection run at the same time, with three
  kinds of threads on each side; callbacks refer to locals of functions that
  return; the answer must still be the right one and every program must end.
* **Parser.** It moves its position beyond what it compared, so that every way a
  text can end is a case of its own; it must load all of a file or nothing.
* **Generated messages.** Serializing uses sizes computed before, in the message
  and the messages within; unknown fields, repeated submessages and lost ends must
  be read as protobuf defines it.

`PROJECT.json` lists the single hazards at their lines, with the properties that
are about them, or a note why none is.

## Modules

| Module | Models |
|---|---|
| `ByteInput`, `ByteOutput` | what protobuf's `ZeroCopyInputStream` and `ZeroCopyOutputStream` promise: the abstract specifications of the reader and the writer |
| `GrpcBufferReader`, `MCGrpcBufferReader` | the reader |
| `GrpcBufferWriter` | the writer with the memory and references of slices |
| `ProtoUtils`, `MCProtoUtils` | `Serialize` and `Deserialize` over `ByteOutput` and `ByteInput` |
| `Generator`, `MCGenerator` | the plugin, and what a compiler and a server make of its output |
| `ExampleFiles` | the generated files that are checked in, to compare the plugin's output with |
| `ServerCall` | one call on the server |
| `CallPromise` | what a call promises its caller on the client: the abstract specification of the next |
| `ClientCall` | one call on the client, through any of the eight interfaces |
| `RouteGuide`, `MCRouteGuide` | `ClientCall` and `ServerCall` composed by a connection, with the programs of the examples at both ends |
| `WireFormat`, `MCWireFormat` | the generated message classes |
| `DbParser`, `MCDbParser` | the parser of the feature database |
| `GrpcBufferReader_proofs`, `GrpcBufferWriter_proofs`, `ProtoUtils_proofs`, `Generator_proofs`, `ServerCall_proofs`, `ClientCall_proofs`, `RouteGuide_proofs`, `DbParser_proofs` | the theorems |

Definitions named "Mutant" in the modules are not part of the models: they are
mistakes that one could make in the code, kept to show that the property named
for each in `PROJECT.json` finds it.

### GrpcBufferReader

The variables are the fields of the class, with `got` (the chunk lent last),
`fresh` (protobuf may back up), `skip` (a `Skip` in progress) and `done` (the
call that ended last, so that results are compared too). Bytes are positions: a
pointer is a slice and an offset. `Skip` is a loop over `Next` and `BackUp`, and
one iteration is a step, `SkipMore`, `SkipLast` or `SkipFails`; the other calls
are one action each. `BackUp` is called only straight after a `Next` that
succeeded, with no more than that chunk. This is the contract of protobuf, and
what `CodedInputStream` does.

`ImplementsInput` is the refinement: under the mapping `pos <- ByteCount()` (at
the start of the `Skip` while one is running) every step is a step of `ByteInput`
or a stutter. `CountersAgree` and `SkipExact` are what it rests on, `SkipReturns`
says that the loop ends.

### GrpcBufferWriter

`mem` and `refs` are the blocks that `grpc_slice_malloc` returned: the bytes and
the reference counts. Byte `p` of the message is the number `p`, so that a lost or
overwritten byte shows. `SplitTail` is gRPC's `grpc_slice_split_tail`: a short tail
is copied into the slice and holds no reference. `CountMatchesBuffer`,
`SlicesDisjoint`, `ContentsKept` and `RefsExact` say that lengths, places, contents
and references are right at every moment, and `ImplementsOutput` that the bytes
that can be read from the buffer are those of `ByteOutput`.

After an inline tail was backed up the writer would lend memory of its own field
and copy the slice before it is filled. The caller never asks for a chunk then
(`SerializeToZeroCopyStream` backs up once, at the end), and `NextBackup` has this
as a guard.

### ProtoUtils

A message is a list of fields, given by where each ends, and whether its required
fields are set. A received buffer is a list of items: fields, a tag that ends the message
early, or garbage, whole or cut off. protobuf's coders are the environment: the
encoder (`Encode`) fills chunks of any size and gives back the rest, the decoder
(`Refill`, `ParseField`, `ParseStops`, `ParseFails`, `ParseEnds`) asks for chunks of
any size. `Result` is the two checks at the end of `Deserialize`, of which the
second overwrites the first. `NDEBUG` says whether `assert` is compiled.

### Generator

The text is reduced to the tokens that the properties tell apart: namespace
braces, include guard, aliases, declarations, definitions with the names they
mention, the table `method_names`, the descriptors, and the switch of
`CallMethod`. Each `Print...` function of the source is an operator that returns
what it prints, and `Generate` is `Refuse`, `ReadParameter`, `WriteHeader` and
`WriteSource`. The properties then read the two files as a compiler does
(`Balanced`, `Implemented`, `NamesResolve`) and follow a call from the stub through
the server's look-up to the handler (`Routed`).

`ExampleFiles` holds the four files that are checked in with the examples, read
from the files and not from the functions that print them. `CheckedIn` says that
for the two `.proto` files the plugin writes just these. So `Generator` is compared
with what the real plugin once wrote, and the other properties speak of code that
was compiled.

### ServerCall

`held[h]` is the core object that holder `h` has a copy of the handle to. Holders
are the entry that `CallMethod` calls, the user's handler, the reader and the
user's threads. `CallMethod` is split where other threads may come between: the
entry, the handler, `Start` of the reader (first the handle is set, then the core
starts to call back), the return. User code may reply, close, write or start a
thread whenever it runs, any number of times. The reader's callbacks come one at
a time from another thread. `sent` is what the client gets, `first` the final
answer that was given first, by whomever.

Assumed of `grpc_cb_core`, from the comments of the wrappers: the first reply or
close counts and the others are ignored; the last copy of a writer closes it;
`OnMsgStr`, `OnEnd` and `OnError` run one at a time after `Start`; `OnError` is
called when `OnMsgStr` returns an error or the stream breaks; the reader is kept
until the last of its callbacks has returned. Which of two racing replies wins is
thus not checked: `AnsweredOnce` says that all paths of this repository lead to the
one core call that decides it.

### ClientCall

`api` is the interface that is used and `given` which of its callbacks or response
are not null. The reading side is `pc`: a synchronous call waits (`SyncReturns`), a
loop of `ReadOne` takes, parses and at a failure first sets the error and then
returns false (`ReadOne`, `ParseFromString`, `SetErrorStatus`), after which
`RecvStatus` is asked; `Respond`, `OnClose`, `OnMsg` and `OnEnd` are the events of
asynchronous calls, taken by a thread in `Run`, with `WrapMsgCb` and `WrapCloseCb`
(`Unwrap`) as the code has them. Beside it go a thread that writes through a copy of
the object, copies that are dropped, `Shutdown` at any time, the server and the
network (`Breaks` loses responses that are under way).

`ImplementsCall` is the refinement to `CallPromise`, with the same variables but for
`wants <- given.msg`. `Reported` says that every call comes to its end and whoever
gave a callback for it hears of it.

Assumed of `grpc_cb_core`: messages come in order; an error that the message
callback returns ends the reading with that error; the events of one call are
handled one at a time and only in `Run`; `Run` returns some time after `Shutdown`,
between two events, whether or not others are pending; an object closes its stream
of requests when `CloseWriting` is called or its last copy goes.

### RouteGuide

Every step is one of `ClientCall` or of `ServerCall` (`Client!...`, `Server!...`) under
the condition that the program at that end makes it, with the contents of the
messages: `todo`, `asked`, `answered`. `program` is one of the ten functions of
`route_guide_cb_client.cc` and `greeter_cb_client.cc` that make a call; the handlers,
readers and threads are those of the two servers. The connection delivers in order
and may break, which each end learns on its own. What the two modules leave open to
users is decided here: who closes and when, who calls `Shutdown`, what is written.

`AnswersRight` compares what the client was given with `Expected`, which is written
from what the methods are for (`route_guide.proto`) and not from the loops: the
features in a rectangle, the sums of a route, the notes left before at a place.
A place may have several features, of which the first in the database counts, also
if it has no name (`NameAt`); an earlier `Expected` asked for any that has one, and
the attempt to prove `AnswersRight` showed that this is not what `GetFeatureName`
returns. `MaxStream` bounds the messages of a stream, and no theorem depends on it.
`NoDangling` is about references that callbacks hold to a `Stub` and locals, and
`ProgramEnds` about both ends. All locals of a function end together, after it has
waited for the thread in `Run` (`Ready`, `Return`). In `RouteChatAsync` the flag
`bReaderDone` (`route_guide_cb_client.cc:361`) goes just before the destructor of
`f_run` waits, which differs in nothing: setting it is the callback's last access.

### WireFormat

protoc writes the same functions for each class, which differ in the fields only.
The module has them once, for a class that is a list of fields (tag and type): the
list is all that is left of a class, and `map` names the class's functions for it.
An element of the wire is a byte: one of `n` bytes of a varint, or a character.
A user sets and clears fields, merges, copies, swaps and serializes two messages,
and another sender adds a field this version does not know; `preserves` is
protobuf's switch for keeping these. `cached` is `_cached_size_`, which every
message keeps until it is next computed. Only a parse that succeeds changes the
receiver: what a failed one leaves in it is not modelled, and no property reads it.

### DbParser

The text is a sequence of characters, of which keys and numbers are one each. One
turn of the loop of `ParseDb` is `TryParseOne`, with all its early returns; `std::stol`
may throw, as the comment says, and nobody catches it (`thrown`). `LoadsTheForm`
compares with `IsForm`, which says without a parser when a text is the JSON list
that the comment on the class asks for.

What the code accepts beyond that form is part of `IsForm`, so that it is known: an
empty text and a text of one character load no features; the last feature may end
`},` without a bracket; before the final bracket there may be any character for the
brace. `[]` is refused. Spaces are removed within names too. A number is followed by
anything up to a comma or brace, and one that does not fit an `int32` is cut to its
low bits. With an argument that is not `--db_path` no file is opened.

## Runs

| Run | Shows | Bounds |
|---|---|---|
| `reader` | the refinement and the invariants of the reader; `Skip` returns | all buffers of up to 3 slices of up to 2 bytes, `Skip` of 0 to 7 |
| `writer` | invariants and refinement of the writer | blocks of 4 bytes, tails of up to 1 byte inline, 3 blocks, 6 slices |
| `proto` | round trip, acceptance only of whole messages, causes of refusal, both functions return | up to 2 fields of up to 3 bytes around a threshold of 2, buffers of up to 2 items whole or cut by a byte, limits -1, 0, 1, 3, 4, two calls of `Deserialize` |
| `generator` | the generated files fit and route calls; include guards differ | up to 2 services of up to 2 methods of all kinds, packages of 0 to 2 parts, file names of up to 3 characters |
| `server_call` | one answer, closing, reporting of failures, asserts, release | 4 kinds of methods, 2 threads, 2 messages each way |
| `client_call` | the refinement, and that every call is reported | all 8 interfaces, all null callbacks, 2 threads in `Run`, 2 responses, 1 request |
| `route_guide` | right answers, no dangling callbacks, programs end | 10 programs, 4 features at 3 places, rectangles with corners in either order, routes of 0, 2 and 3 points, the 4 notes of the clients and 3 at one place |
| `wire_format` | round trip, sizes, truncation | 7 classes, numbers 0, -1 and 300, texts of 0 to 2 characters, 2 messages on the wire, 5 operations |
| `db_parser` | what is loaded is what the text says; no access beyond it | 16 lists of up to 2 features, each whole, cut anywhere, or with one character removed, replaced or added |
| `proto_ndebug`, `generator_unary`, `generator_writer` | a disagreement between the code and what it says, see below | |

Why the bounds are enough. Reader: three slices give an empty one before, between
and behind others, and `Skip` ends within, at and beyond each. Writer: four bytes
and an inline size of one give a tail that is shared, one that is inline, and a
block that is split three times. `proto`: small and large messages, a limit at,
within and beyond a field. `generator`: a method after another of every other
kind, a service after another. `server_call`: two threads and the reader race for
an answer, and a bad message may follow a good one. `client_call`: a bad response may
come first, last or not at all, and one of two threads in `Run` may leave while the
other calls back. `route_guide`: a place with two features and one without a name, a
note that is echoed several times. `wire_format`: varints of one, two and ten bytes;
five operations are enough to set, serialize, change, merge or swap, and serialize
again. `db_parser`: a first, a last and an only feature, and every way of spoiling
them in one place. What is proved, below, holds for any bounds: all invariants and
refinements of these runs but those of `wire_format` and `CheckedIn` of `generator`.

`generator` is run on the services that the findings leave: unary methods come
first in their service, the server-streaming ones are called `ListFeatures`, the
runtime is not lite, and the parameter `services_namespace` is empty. The two
`generator_...` runs each drop one of the first two restrictions, and "Known limits"
has the others.

`CHECK_DEADLOCK FALSE` stands where the system may stop: a writer whose buffer was
destroyed, a message that was parsed, a plugin that has written its files, a call
or a program that has ended, a file that was loaded, the bound on operations. The reader never stops, since its caller may always call again.

### Fairness

* Reader: `SkipStep` only. A loop that was entered goes on; nobody need call.
* ProtoUtils: the steps of a call that was made, `Encode` or `SerializeLarge`, and
  the steps of the parser. Starting a call is not fair.
* ServerCall: the core's threads run `CallMethod` and the callbacks, and user code
  that was called returns, which is a step of these (`CallMethod`, `Reader`);
  each thread of the user ends, and the client's stream ends or breaks. A
  handler that blocks for ever or a client that stays silent for ever keeps its
  call, as it should; `CallEnds` is about calls whose user code and client finish.
* ClientCall: threads that wait for something go on when it is there; threads that
  are to call `Run` do, and take events; a callback returns; the thread that writes
  beside a loop of `ReadOne` calls `CloseWriting`, as README.md's example does, and
  copies of asynchronous objects go; a server that has all requests ends its call,
  or the call breaks. Nobody need write, nor call `Shutdown`.
* RouteGuide: each thread of the two programs goes on to its end, as their code
  has it, and the connection delivers or both ends learn that it is broken. `Break`
  itself is not fair. Nothing else is assumed, so that `ProgramEnds` shows what the
  programs themselves do: that `CloseWriting` and `Shutdown` are called.

## Findings

1. `proto_ndebug`: with `NDEBUG`, which `premake/premake5.lua:30` defines for
   Release, the call that writes a message of up to 8192 bytes is compiled out
   (`proto_utils.cc:182`).
2. `generator_unary`: unary stubs call `method_names[0]` (`cpp_cb_generator.cc:531`
   and `:540`).
3. `generator_writer`: server-streaming methods are defined with
   `ListFeatures_Writer` (`cpp_cb_generator.cc:643` and `:658`).

Known limits, which follow from single lines and have no run:

* A failed `Serialize` of a large message has replaced the caller's buffer
  (`proto_utils.cc:189`), which `proto_utils.h:14` says is left unchanged.
* With `optimize_for = LITE_RUNTIME` the anonymous namespace of the source stays
  open (`cpp_cb_generator.cc:509`).
* `services_namespace` is used in the header only (`cpp_cb_generator.cc:842`).
* `greeter_cb_client.cc:56` gives no callback for a failure: if its asynchronous call
  fails, `Run` never ends. `ProgramEnds` names this program as the one exception.
* `CloseWriting` is called optional (`client_sync_reader_writer.h:31`), and is for a
  user that lets all copies go. A loop of `ReadOne` holds one: the mutant of
  `ProgramEnds` leaves the call out, and both ends wait for ever.

## Proofs

All proofs are for any value of the constants, under the assumptions that the
modules name: buffers are ascending end offsets, and so are the ends of a message's
fields; block and inline sizes are naturals; holders, threads and "nobody" are
different things; bounds are naturals; the places of features and requests are pairs
of integers, and a call that is not a stream has one request; a file is a sequence
of the parser's characters; a `.proto` file is a descriptor that protoc can give, its
name of letters, digits and the four other characters that `Hex` lists.

* **Reader** (`GrpcBufferReader_proofs`). The inductive invariant is
  `TypeOK /\ CountersAgree /\ SkipExact`. `CountersAgree` is inductive because every
  path of `Next` leaves `backup_count_` at 0. `Refinement` goes through the actions:
  the steps within a `Skip` are stutters, and its return is `ByteInput`'s `Skip`,
  since `SkipExact` says where the stream was when it began.
* **Writer** (`GrpcBufferWriter_proofs`). `CountMatchesBuffer`, `SlicesDisjoint` and
  `ContentsKept` are not inductive alone. `Placed` adds what they rest on: the slice
  lent last and the slice backed up reach to the end of their block, slices of the
  buffer lie in allocated blocks in ascending order, and the backup continues the
  message. That is why comparing `count` with `block_size_` in `BackUp` is right.
  `ReferencesExact` counts owners with the theorems on finite sets.
  `Refinement` shows that the writer implements `ByteOutput`:
  `Covered` adds that the slices leave no gap, so that every byte of the message lies
  in one, and that the backup is not empty, so that no empty chunk is lent; with
  `ContentsKept` the bytes that can be read are the message so far, and each action
  is a step of the sink or a stutter (`Refinement`).
* **Serialize and Deserialize** (`ProtoUtils_proofs`). The invariant says at each
  stage of a call what the buffer holds (`BufferHolds`), what each stage knows
  (`Stages`), and that the parser has taken just the items that end where it is
  (`ReadSoFar`). `OkOnlyOfOneMessage` holds with and without `assert`; `ReadBack` and
  `RefusesForCause` only where it is compiled, as finding 1 shows.
* **Generator** (`Generator_proofs`). The invariant `Written` says that the two files
  are functions of the file and the namespace asked for, which do not change once the
  header is there. `GuardsApart` then rests on `IdentifierDistinct`: what
  `FilenameIdentifier` makes of a name begins with what it makes of the first
  character, and that tells the character, by induction on the length. `BracesMatch`
  rests on `Leads`: a piece of text leads a compiler from the open namespaces `s` to
  `t`. Pieces that hold no brace lead nowhere, a namespace around such a piece leads
  back (`ServiceLeads`), and the parts of a package are closed as often as opened
  (`OpensAll`, `ClosesAll`); `ScopesRun` says that what `Balanced` computes is such a
  run. The theorem excepts files of the lite runtime, for which it is false (see
  "Findings"). The other three theorems rest on `Reads`, the sequence of the tokens
  with the namespaces each is read in: the unit is the header's blocks, one for each
  service, then the descriptors and the source's blocks (`UnitReads`). `CallsRouted`
  finds the one table and the one switch of a service in its block (`ServiceOnly`) and
  the row that a stub names (`StubRow`). For `NamesResolved`, a piece is `Resolved`
  from a set of tokens if each mention in it is `Met` by one of them or by one before
  it; pieces that follow one another, methods, services and files, are put together by
  `ResolvedConcat` and `ResolvedFlatten`. For `MembersImplemented`, no two definitions of
  a piece are `Again` of one function (`Single`), since methods of a service differ in
  their names, the entry and the handler of a method in their types, and services in
  their namespaces (`Apart`); and the two texts of a service are `Matched`.
* **Server call** (`ServerCall_proofs`). `Stage` says who holds the handle at each
  point of `CallMethod`, so that code that may answer always finds a holder, and
  `OneCore` that all copies share one core object, done exactly when the first
  answer was given. With them `AnsweredOnce`, `ClosedByLast`, `FailureReported` and
  `AssertsHold` are inductive together.
* **Client call** (`ClientCall_proofs`). The invariant says for each place of the
  reading side how far what was delivered is behind what was taken: equal, or one
  behind while a response is being parsed or was found bad (`ReadSync`, `ReadAsync`),
  and for calls with one response that it comes with the success (`Single`). The
  error that is kept is then the cause `CallPromise` asks for, and `Refinement` maps
  each action to `Network`, `Deliver`, `Tell` or a stutter.
* **Route guide** (`RouteGuide_proofs`). `Composition`: whatever the programs, database
  and requests, a behaviour is one of `ClientCall` and one of `ServerCall`, so that
  their invariants and the refinement hold at both ends. `LocalsOutliveCallbacks`
  rests on callbacks running within `Run` only (`InRun`) and functions returning after
  it (`Over`). `AnswersAreRight` is about all that lies between a program and the
  answer it is given. Its invariant `Right` follows a call along its way: what was
  sent (`Asked`), what the connection carried (`Carried`), who still works on it
  (`Handled`), what the loops have computed so far, in terms of the reference
  definitions (`Listed`, `Echoed`, `Recorded`, `Replied`), what was sent and fetched
  (`Counted`, `Fetched`) and what the success of the call means (`Whole`, `Outcome`).
  That a stream is closed only when the answer is whole (`ClosedIs`) needs the proofs
  of `ServerCall` (the last copy closes), and that success is told only when all was
  delivered those of `ClientCall`; both are used as instances. The lemmas on `Chosen`,
  `Echoes` and `Way` say that what was computed stays right when more is sent, and
  that it is a beginning of what will be.
* **Parser** (`DbParser_proofs`). Soundness and completeness at once: the loop loads
  the features that the text says, and refuses no text of the form. `OnTheWay` says
  that the position is where the features loaded so far end, in any reading of the
  text as a list. The proof needed the form to say that its numbers fit a `long`, the
  only case in which `std::stol` throws.

What recursive definitions compute is proved by induction over sets of naturals
(`NatInd`, `RecursionExists` in `RouteGuide_proofs` and `Generator_proofs`, which say that a function defined
by recursion up to `n` exists), since the library's theorems on recursion take an
operator. Definitions through `SelectSeq`, or through operators passed to operators,
cannot be reached in this way; `Generator`'s `Named` and `Scopes` are functions by
recursion for that reason.

Only model-checked: the liveness properties (`SkipReturns`, `CallsReturn`, `CallEnds`,
`Reported`, `ProgramEnds`), which are out of the prover's reach; `ExampleFiles`, which
is a comparison of four constants; `WireFormat`, whose messages in messages are
recursive operators. `CallsRouted`, `NamesResolved` and `MembersImplemented` have as
hypotheses what the findings and known limits leave, on the file that a behaviour
begins with: the runtime is not lite; a unary method is the first of its service
(`UnaryFirst`), for the first; no namespace is asked for and each server-streaming
method is called `ListFeatures` (`WriterNamed`), for the other two. Dropping one makes
the theorem false, as `generator_unary` and `generator_writer` show for two of them.

## Not modelled

* `grpc_cb_core`: queues, completion queues, timeouts and channels are not in the
  repository. Its contract appears as external actions.
* The contents of messages, error texts, comments and includes of generated code.
* Sizes beyond `int` (`proto_utils.cc:179`): naturals are unbounded in the models.
* `PrintSourceServerAsyncMethod`, which nothing calls; build and packaging scripts;
  headers that only forward names; descriptors, registration and default instances of
  the generated messages.
* Of the examples: `TestRpcTimeout`, which tests a deadline of `grpc_cb_core`; the first
  two calls of `GetFeatureAsync`, whose callbacks are null or print; elapsed times and
  pauses; floating-point distances (a sum of differences stands for them).
* Several calls at once. Calls share nothing in this repository but a reader that a
  handler returns twice, which the examples do not do ("Todo: Need session id").

## Plan

1. Buffers: reader, writer, `Serialize` and `Deserialize`, with refinements and
   proofs. Done.
2. Generator, and the files it wrote for the examples. Done.
3. The server side of a call, with proofs. Done.
4. The client side of a call, with its abstract specification and proofs. Done.
5. Both sides over a connection that may break, as the examples use them. Done.
6. The parser of the database and the generated messages. Done.
7. The writer's refinement of its sink, proved. Done.
8. Proofs about `Serialize` and `Deserialize`, the parser, and the answers of the
   examples. Done.
9. Proofs about `Generator`: types, include guards, braces, routing of calls, names,
   and that the source implements the header. Done.
10. Left: proofs about `WireFormat`; two calls that share a reader.
