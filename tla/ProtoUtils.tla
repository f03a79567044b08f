----------------------------- MODULE ProtoUtils -----------------------------
(***************************************************************************)
(* Proto::Serialize and Proto::Deserialize of                              *)
(* src/cpp_cb/common/proto_utils.cc, which turn a protobuf message into a  *)
(* grpc_byte_buffer and back.  GrpcBufferWriter and GrpcBufferReader are   *)
(* used through what they implement, ByteOutput and ByteInput.             *)
(*                                                                         *)
(* Of a message only its encoding matters: a sequence of fields, of which  *)
(* is kept where they end, and whether its required fields are set.  A     *)
(* buffer has bytes, byte p holding the number p - 1 where it was written, *)
(* and items, what a decoder finds there: a field, a tag that ends the     *)
(* message early, or something that is no message.                         *)
(***************************************************************************)
EXTENDS Integers, Sequences

CONSTANTS
  NDEBUG,        \* assert() is compiled out, as in the release configuration
  MaxBufferLength, \* kGrpcBufferWriterMaxBufferLength
  Messages,      \* the messages serialised: fields, initialised
  PeerBuffers,   \* buffers received from elsewhere: items, size
  Limits,        \* the values of max_receive_message_size
  MaxCalls       \* bound: calls of Deserialize

Junk == -1

Item == [end : Nat, kind : {"field", "stop", "bad"}]

\* Items follow one another, none of them empty.
Layout == { seq \in Seq(Item) :
              /\ \A i \in DOMAIN seq : seq[i].end > 0
              /\ \A i, j \in DOMAIN seq : i < j => seq[i].end < seq[j].end }

\* Where the n-th item ends, and the last one.
EndOf(seq, n) == IF n = 0 THEN 0 ELSE seq[n].end

Size(seq) == EndOf(seq, Len(seq))

ASSUME BufferLengthAssumption == NDEBUG \in BOOLEAN /\ MaxBufferLength \in Nat
ASSUME CallsAssumption == Limits \subseteq Int /\ MaxCalls \in Nat

\* A message is encoded as fields; what comes from elsewhere may be cut off.
ASSUME MessagesAssumption ==
  \A m \in Messages :
    /\ m.initialised \in BOOLEAN
    /\ m.fields \in Layout
    /\ \A i \in DOMAIN m.fields : m.fields[i].kind = "field"
ASSUME PeerBuffersAssumption ==
  \A b \in PeerBuffers : b.items \in Layout /\ b.size \in 0 .. Size(b.items)

VARIABLES
  pc,        \* "idle", "encoding", "serialized", "decoding", "returned"
  msg,       \* the message to serialise, or the one that is parsed into
  bp,        \* the buffer the caller holds: "old", "new", "peer", "null"
  bytes,     \* its bytes
  items,     \* what they encode
  status,    \* the Status returned last: "ok" or what went wrong, all the
             \* errors being INTERNAL with a text of their own
  calls,     \* calls of Deserialize so far
  chunk, room, closed,          \* GrpcBufferWriter
  pos, lent, fresh, done,       \* GrpcBufferReader
  decoder    \* the CodedInputStream and the fields parsed from it

output == <<chunk, room, closed>>
input == <<pos, lent, fresh, done>>
vars == <<pc, msg, bp, bytes, items, status, calls, output, input, decoder>>

Out == INSTANCE ByteOutput WITH MaxChunk <- MaxBufferLength, accepted <- bytes

In == INSTANCE ByteInput WITH
  Counts <- {}, total <- Len(bytes), chunk <- lent

ByteSize(m) == Size(m.fields)

NoDecoder == [next |-> 1, at |-> 0, limit |-> 0, fields |-> << >>,
              parsed |-> FALSE, whole |-> FALSE]

Init ==
  /\ pc = "idle"
  /\ msg \in Messages
  /\ bp = "old"
  /\ bytes = << >>
  /\ items = << >>
  /\ status = "none"
  /\ calls = 0
  /\ chunk = 0 /\ room = 0 /\ closed = FALSE
  /\ pos = 0 /\ lent = [at |-> 0, size |-> 0] /\ fresh = FALSE
  /\ done = In!Ended("none", 0, TRUE)
  /\ decoder = NoDecoder

(***************************************************************************)
(* Serialize.                                                              *)
(***************************************************************************)
Written(size) == [p \in 1 .. size |-> p - 1]

\* A small message: one slice, which SerializeWithCachedSizesToArray fills; that
\* call is the argument of assert().
SerializeSmall ==
  /\ pc = "idle"
  /\ ByteSize(msg) <= MaxBufferLength
  /\ bytes' = IF NDEBUG THEN [p \in 1 .. ByteSize(msg) |-> Junk]
                        ELSE Written(ByteSize(msg))
  /\ items' = msg.fields
  /\ bp' = "new"
  /\ status' = "ok"
  /\ pc' = "serialized"
  /\ UNCHANGED <<msg, calls, output, input, decoder>>

\* A large one: the writer's constructor creates the buffer...
StartWriter ==
  /\ pc = "idle"
  /\ ByteSize(msg) > MaxBufferLength
  /\ bp' = "new"
  /\ items' = msg.fields
  /\ pc' = "encoding"
  /\ UNCHANGED <<msg, bytes, status, calls, output, input, decoder>>

\* ...protobuf writes the message to it chunk by chunk, and gives back what it
\* did not need of the last one...
Encode ==
  /\ pc = "encoding"
  /\ \/ Len(bytes) < ByteSize(msg) /\ (Out!Lend \/ Out!Write)
     \/ Len(bytes) = ByteSize(msg) /\ room > 0 /\ Out!TakeBack /\ bytes' = bytes
  /\ Len(bytes') <= ByteSize(msg)
  /\ UNCHANGED <<pc, msg, bp, items, status, calls, input, decoder>>

\* ...and the writer is destroyed on the way out.
SerializeLarge ==
  /\ pc = "encoding"
  /\ Len(bytes) = ByteSize(msg)
  /\ Out!Close
  /\ status' = "ok"
  /\ pc' = "serialized"
  /\ UNCHANGED <<msg, bp, items, calls, input, decoder>>

\* SerializeToZeroCopyStream returns false, at whatever point it gave up.
SerializeFails ==
  /\ pc = "encoding"
  /\ closed' = TRUE
  /\ room' = 0
  /\ status' = "unserialized"
  /\ pc' = "serialized"
  /\ UNCHANGED <<msg, bp, bytes, items, calls, chunk, input, decoder>>

(***************************************************************************)
(* Deserialize(buffer, msg, max).  The buffer is the one that Serialize    *)
(* made, or one that came from elsewhere.                                  *)
(***************************************************************************)
Receive(buffer) ==
  /\ pc = "idle"
  /\ bp' = "peer"
  /\ items' = buffer.items
  /\ bytes' = Written(buffer.size)
  /\ pc' = "serialized"
  /\ status' = "ok"
  /\ UNCHANGED <<msg, calls, output, input, decoder>>

ReceiveNothing ==
  /\ pc = "idle"
  /\ bp' = "null"
  /\ pc' = "serialized"
  /\ status' = "ok"
  /\ UNCHANGED <<msg, bytes, items, calls, output, input, decoder>>

MayDeserialize ==
  /\ calls < MaxCalls
  /\ \/ pc = "serialized" /\ status = "ok"
     \/ pc = "returned"

DeserializeNull ==
  /\ MayDeserialize
  /\ bp = "null"
  /\ status' = "no payload"
  /\ calls' = calls + 1
  /\ pc' = "returned"
  /\ UNCHANGED <<msg, bp, bytes, items, output, input, decoder>>

\* The reader could not be initialised.
DeserializeUnreadable ==
  /\ MayDeserialize
  /\ bp = "peer"
  /\ status' = "unreadable"
  /\ calls' = calls + 1
  /\ pc' = "returned"
  /\ UNCHANGED <<msg, bp, bytes, items, output, input, decoder>>

\* Mutants: the decoder of the last call is used again; the message is merged
\* into what was parsed before.
DeserializeAgain(max) ==
  /\ MayDeserialize
  /\ bp # "null"
  /\ decoder' = [decoder EXCEPT !.limit = IF max > 0 THEN max ELSE 0]
  /\ pos' = 0 /\ lent' = [at |-> 0, size |-> 0] /\ fresh' = FALSE
  /\ done' = In!Ended("none", 0, TRUE)
  /\ calls' = calls + 1
  /\ pc' = "decoding"
  /\ UNCHANGED <<msg, bp, bytes, items, status, output>>

DeserializeMerges(max) ==
  /\ MayDeserialize
  /\ bp # "null"
  /\ decoder' = [NoDecoder EXCEPT !.limit = IF max > 0 THEN max ELSE 0,
                                  !.fields = decoder.fields]
  /\ pos' = 0 /\ lent' = [at |-> 0, size |-> 0] /\ fresh' = FALSE
  /\ done' = In!Ended("none", 0, TRUE)
  /\ calls' = calls + 1
  /\ pc' = "decoding"
  /\ UNCHANGED <<msg, bp, bytes, items, status, output>>

DeserializeStart(max) ==
  /\ MayDeserialize
  /\ bp # "null"
  /\ decoder' = [NoDecoder EXCEPT !.limit = IF max > 0 THEN max ELSE 0]
  /\ pos' = 0 /\ lent' = [at |-> 0, size |-> 0] /\ fresh' = FALSE
  /\ done' = In!Ended("none", 0, TRUE)
  /\ calls' = calls + 1
  /\ pc' = "decoding"
  /\ UNCHANGED <<msg, bp, bytes, items, status, output>>

(***************************************************************************)
(* ParseFromCodedStream: item by item, refilled from the reader.           *)
(***************************************************************************)
Limited == decoder.limit > 0
AtLimit == Limited /\ decoder.at >= decoder.limit

NextItem == items[decoder.next]
ItemEnd == NextItem.end
BeyondLimit == Limited /\ ItemEnd > decoder.limit

\* A byte that was never written decodes as anything.
Garbage == [end |-> 0, kind |-> "bad"]
Intact == \A p \in decoder.at + 1 .. ItemEnd : bytes[p] = p - 1
Kinds == IF Intact THEN {NextItem.kind} ELSE {"field", "stop", "bad"}

\* Mutants: the verdict of the parser is final; it is the first to be looked at.
ResultOfParser(parsed, whole) == IF parsed THEN "ok" ELSE "unparsed"

ResultKept(parsed, whole) ==
  CASE ~ parsed -> "unparsed"
    [] parsed /\ ~ whole -> "partial"
    [] OTHER -> "ok"

\* The result of Deserialize.  That the parser did not stop at the legitimate
\* end of a message replaces what it had against the message.
Result(parsed, whole) ==
  CASE ~ whole -> "partial"
    [] whole /\ ~ parsed -> "unparsed"
    [] OTHER -> "ok"

ParseReturns(parsed, whole) ==
  /\ decoder' = [decoder EXCEPT !.parsed = parsed, !.whole = whole]
  /\ status' = Result(parsed, whole)
  /\ pc' = "returned"
  /\ UNCHANGED <<msg, bp, bytes, items, calls, output>>

\* CodedInputStream asks again until it gets bytes.
Refill ==
  /\ pc = "decoding"
  /\ decoder.next <= Len(items)
  /\ ~ AtLimit
  /\ ItemEnd > pos
  /\ pos < Len(bytes)
  /\ UNCHANGED <<pc, msg, bp, bytes, items, status, calls, output, decoder>>
  /\ In!Lend
  /\ lent'.size > 0

ParseField ==
  /\ pc = "decoding"
  /\ decoder.next <= Len(items)
  /\ ~ BeyondLimit
  /\ ItemEnd <= pos
  /\ "field" \in Kinds
  /\ decoder' = [decoder EXCEPT !.next = @ + 1, !.at = ItemEnd,
                                !.fields = Append(@, IF Intact THEN NextItem ELSE Garbage)]
  /\ UNCHANGED <<pc, msg, bp, bytes, items, status, calls, output, input>>

\* An end-group or zero tag ends the message without an error; so does the limit
\* when it falls between two fields.
ParseStops ==
  /\ pc = "decoding"
  /\ decoder.next <= Len(items)
  /\ AtLimit \/ (~ BeyondLimit /\ ItemEnd <= pos /\ "stop" \in Kinds)
  /\ ParseReturns(msg.initialised, FALSE)
  /\ UNCHANGED input

\* Mutant: the end of the stream within a field is no error.
ParseFailsUnlessCut ==
  /\ pc = "decoding"
  /\ decoder.next <= Len(items)
  /\ ~ AtLimit
  /\ \/ BeyondLimit
     \/ ItemEnd <= pos /\ "bad" \in Kinds
  /\ ParseReturns(FALSE, FALSE)
  /\ UNCHANGED input

\* Bytes that are no field, the limit within a field, a field cut off.
ParseFails ==
  /\ pc = "decoding"
  /\ decoder.next <= Len(items)
  /\ ~ AtLimit
  /\ \/ BeyondLimit
     \/ ItemEnd <= pos /\ "bad" \in Kinds
     \/ ItemEnd > pos /\ pos = Len(bytes)
  /\ ParseReturns(FALSE, FALSE)
  /\ UNCHANGED input

\* The end of the stream; where it coincides with the limit CodedInputStream
\* need not take it for the end of the message.
ParseEnds ==
  /\ pc = "decoding"
  /\ decoder.next > Len(items)
  /\ \E whole \in IF AtLimit THEN BOOLEAN ELSE {TRUE} :
       ParseReturns(msg.initialised, whole)
  /\ In!End

Serialize ==
  SerializeSmall \/ StartWriter \/ Encode \/ SerializeLarge \/ SerializeFails

Deserialize ==
  \/ DeserializeNull
  \/ DeserializeUnreadable
  \/ \E max \in Limits : DeserializeStart(max)
  \/ Refill \/ ParseField \/ ParseStops \/ ParseFails \/ ParseEnds

Next ==
  \/ Serialize
  \/ \E buffer \in PeerBuffers : Receive(buffer)
  \/ ReceiveNothing
  \/ Deserialize

\* A call that was made is carried on with until it returns; nobody need call.
Spec ==
  /\ Init /\ [][Next]_vars
  /\ WF_vars(Encode \/ SerializeLarge)
  /\ WF_vars(Refill \/ ParseField \/ ParseStops \/ ParseFails \/ ParseEnds)
-----------------------------------------------------------------------------
\* Every variable has its type, and nothing is parsed that was not delivered.
TypeOK ==
  /\ pc \in {"idle", "encoding", "serialized", "decoding", "returned"}
  /\ msg \in Messages
  /\ bp \in {"old", "new", "peer", "null"}
  /\ bytes \in Seq(Nat \cup {Junk})
  /\ items \in Layout
  /\ status \in {"none", "ok", "unserialized", "no payload", "unreadable",
                "unparsed", "partial"}
  /\ calls \in 0 .. MaxCalls
  /\ chunk \in 0 .. MaxBufferLength /\ room \in 0 .. chunk /\ closed \in BOOLEAN
  /\ pos \in 0 .. Len(bytes) /\ fresh \in BOOLEAN
  /\ decoder.next \in 1 .. Len(items) + 1 /\ decoder.at \in 0 .. pos

\* What Serialize made Deserialize reads back as the same message, however large
\* it is and however the bytes were cut into chunks on either side, and it does
\* read it back when all required fields are set and no limit is given.
RoundTrip ==
  pc = "returned" /\ bp = "new" =>
    /\ status = "ok" => decoder.fields = msg.fields
    /\ msg.initialised /\ ~ Limited => status = "ok"

\* Deserialize says OK only if the whole buffer was one complete message within
\* the limit.  Neither the parser's verdict nor ConsumedEntireMessage() alone
\* says so: a parser that stops at the limit between two fields reports success.
OkIsWhole ==
  pc = "returned" /\ status = "ok" =>
    /\ decoder.at = Len(bytes)
    /\ \A i \in DOMAIN items : items[i].kind = "field"
    /\ msg.initialised
    /\ Limited => Len(bytes) <= decoder.limit

\* proto_utils.h: "max_msg_size <= 0 means no limit".  Deserialize refuses a
\* buffer only for cause, and for the cause it names: it reports what
\* InitializationErrorString() says only when all was read and a required field
\* is missing, and a partial message only when the bytes are not one whole
\* message or reach the limit that was given.
RefusedForCause ==
  pc = "returned" =>
    /\ status = "unparsed" => decoder.next > Len(items) /\ ~ msg.initialised
    /\ status = "partial" =>
         \/ Len(bytes) # Size(items)
         \/ \E i \in DOMAIN items : items[i].kind # "field"
         \/ Limited /\ Len(bytes) >= decoder.limit

\* Serialize and Deserialize return, whatever the chunks are.
CallsReturn == (pc \in {"encoding", "decoding"}) ~> (pc \in {"serialized", "returned"})

\* proto_utils.h: "Serialize the msg into a buffer created inside the function."
SerializedIntoBuffer ==
  pc = "serialized" /\ bp = "new" /\ status = "ok" => bytes = Written(ByteSize(msg))
=============================================================================
