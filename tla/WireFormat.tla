------------------------------ MODULE WireFormat ------------------------------
(***************************************************************************)
(* The messages of the examples as protoc generates them                   *)
(* (route_guide.pb.cc, helloworld.pb.cc): accessors, sizes, serialization, *)
(* parsing, merging, copying, swapping.  The functions of the classes      *)
(* differ in their fields only and are written once here, for a class that *)
(* is its list of fields; the tags are those of the generated code.        *)
(*                                                                         *)
(* The wire is a sequence of bytes.  A byte is <<kind, value, left>>: a    *)
(* varint of n bytes is n of them with its value and how many follow, a    *)
(* character is one with left = 0.  Coding of numbers, skipping of unknown *)
(* fields and reading up to a limit are protobuf's library.                *)
(***************************************************************************)
EXTENDS Integers, Sequences, SequencesExt

CONSTANTS
  Classes,    \* classes of messages in use, of those in Fields
  Numbers,    \* values of int32 fields
  Texts,      \* values of string fields: sequences of characters
  MaxSends,   \* bound: messages on the wire
  MaxSteps    \* bound: operations

Point == <<[tag |-> 8, type |-> "int32"], [tag |-> 16, type |-> "int32"]>>

Rectangle == <<[tag |-> 10, type |-> "Point"], [tag |-> 18, type |-> "Point"]>>

Feature == <<[tag |-> 10, type |-> "string"], [tag |-> 18, type |-> "Point"]>>

RouteNote == <<[tag |-> 10, type |-> "Point"], [tag |-> 18, type |-> "string"]>>

RouteSummary ==
  <<[tag |-> 8, type |-> "int32"], [tag |-> 16, type |-> "int32"],
    [tag |-> 24, type |-> "int32"], [tag |-> 32, type |-> "int32"]>>

HelloRequest == <<[tag |-> 10, type |-> "string"]>>

HelloReply == <<[tag |-> 10, type |-> "string"]>>

Fields ==
  [Point |-> Point, Rectangle |-> Rectangle, Feature |-> Feature, RouteNote |-> RouteNote,
   RouteSummary |-> RouteSummary, HelloRequest |-> HelloRequest, HelloReply |-> HelloReply]

ASSUME ClassesAssumption == Classes \subseteq DOMAIN Fields
ASSUME ValuesAssumption == 0 \in Numbers /\ << >> \in Texts

\* A field of class type is a sequence of at most one message (a pointer).
Default(f) == IF f.type = "int32" THEN 0 ELSE << >>

\* A message as its constructor makes it.
New(class) ==
  [value |-> [i \in DOMAIN Fields[class] |-> Default(Fields[class][i])],
   unknown |-> << >>,
   cached |-> 0]

IsClass(type) == type \in DOMAIN Fields

VARIABLES
  class,      \* the class of both messages
  a, b,       \* two messages
  preserves,  \* protobuf's GetProto3PreserveUnknownsDefault
  wire,       \* what was serialized, one after the other
  sender,     \* history: the messages that were
  steps

vars == <<class, a, b, preserves, wire, sender, steps>>

(***************************************************************************)
(* Sizes and serialization.                                                *)
(***************************************************************************)
VarintSize(n) == IF n < 0 THEN 10 ELSE IF n < 128 THEN 1 ELSE 2

Varint(n) == [i \in 1 .. VarintSize(n) |-> <<"varint", n, VarintSize(n) - i>>]

RECURSIVE ByteSizeLong(_, _, _)

\* Mutant: the size that a message has from before is taken for the right one.
SizedBefore(c, m, keep) == IF m.cached # 0 THEN m ELSE ByteSizeLong(c, m, keep)

\* The messages in a message are sized with it.
Sized(c, m, keep) == ByteSizeLong(c, m, keep)

FieldSize(f, v) ==
  IF v = Default(f) THEN 0
  ELSE 1 + CASE f.type = "int32" -> VarintSize(v)
             [] f.type = "string" -> VarintSize(Len(v)) + Len(v)
             [] OTHER -> VarintSize(v[1].cached) + v[1].cached

\* ByteSizeLong: the message with the sizes that it leaves in it.
ByteSizeLong(c, m, keep) ==
  LET sized(f, v) == IF IsClass(f.type) /\ v # << >> THEN <<Sized(f.type, v[1], keep)>> ELSE v
      value == [i \in DOMAIN m.value |-> sized(Fields[c][i], m.value[i])]
  IN [m EXCEPT !.value = value,
               !.cached = FoldLeftDomain(LAMBDA s, i : s + FieldSize(Fields[c][i], value[i]),
                                         IF keep THEN Len(m.unknown) ELSE 0, value)]

\* Fields in order, those with default values left out; a message after its cached
\* size; then unknown fields.
RECURSIVE SerializeWithCachedSizes(_, _, _)
SerializeWithCachedSizes(c, m, keep) ==
  LET put(f, v) ==
        IF v = Default(f) THEN << >>
        ELSE Varint(f.tag) \o
             CASE f.type = "int32" -> Varint(v)
               [] f.type = "string" ->
                    Varint(Len(v)) \o [i \in DOMAIN v |-> <<"char", v[i], 0>>]
               [] OTHER ->
                    Varint(v[1].cached) \o SerializeWithCachedSizes(f.type, v[1], keep)
  IN FlattenSeq([i \in DOMAIN m.value |-> put(Fields[c][i], m.value[i])])
       \o IF keep THEN m.unknown ELSE << >>

(***************************************************************************)
(* Parsing.                                                                *)
(***************************************************************************)
Drop(s, n) == SubSeq(s, n + 1, Len(s))
Take(s, n) == SubSeq(s, 1, IF n < Len(s) THEN n ELSE Len(s))

VarintEnd(s) == s[1][3] + 1
HasVarint(s) == s # << >> /\ Len(s) >= VarintEnd(s)

\* Mutant: a text is read as far as it is there.
ExtentThere(tag, s) ==
  CASE ~ HasVarint(s) -> Len(s) + 1
    [] tag % 8 = 0 -> VarintEnd(s)
    [] OTHER -> IF VarintEnd(s) + s[1][2] > Len(s) THEN Len(s) ELSE VarintEnd(s) + s[1][2]

\* The number of bytes after a tag that its field takes, more than there are if the
\* field is cut.  Only numbers and what has a length are written here.
Extent(tag, s) ==
  CASE ~ HasVarint(s) -> Len(s) + 1
    [] tag % 8 = 0 -> VarintEnd(s)
    [] OTHER -> VarintEnd(s) + s[1][2]

\* Mutant: a message that comes again replaces the one that is there.
TargetNew(f, v) == New(f.type)

\* Where a message in a message is read to: mutable_, which makes it if need be.
Target(f, v) == IF v = << >> THEN New(f.type) ELSE v[1]

\* The loop over the fields: one with a known tag sets the value, or adds to the
\* message that is there, and any other is kept as unknown.  A message that ends
\* before its length is up, because the input ends, is accepted by CodedInputStream
\* if it ends between two fields.
RECURSIVE MergePartialFromCodedStream(_, _, _)
MergePartialFromCodedStream(c, m, s) ==
  LET tag == s[1][2]
      body == Drop(s, 1)
      n == Extent(tag, body)
      field == { i \in DOMAIN Fields[c] : Fields[c][i].tag = tag }
      i == CHOOSE k \in field : TRUE
      f == Fields[c][i]
      text == Drop(Take(body, n), VarintEnd(body))
      sub == MergePartialFromCodedStream(f.type, Target(f, m.value[i]), text)
      failed == [ok |-> FALSE, m |-> m]
      goOn(msg) == MergePartialFromCodedStream(c, msg, Drop(body, n))
      set(v) == [m EXCEPT !.value[i] = v]
  IN CASE s = << >> -> [ok |-> TRUE, m |-> m]
       [] s # << >> /\ field = {} ->
            IF n > Len(body) THEN failed
                             ELSE goOn([m EXCEPT !.unknown = @ \o Take(s, n + 1)])
       [] s # << >> /\ field # {} /\ IsClass(f.type) ->
            IF ~ HasVarint(body) THEN failed
            ELSE IF sub.ok THEN goOn(set(<<sub.m>>)) ELSE [failed EXCEPT !.m = set(<<sub.m>>)]
       [] OTHER ->
            IF n > Len(body) THEN failed
            ELSE goOn(set(IF f.type = "int32" THEN body[1][2]
                                              ELSE [j \in DOMAIN text |-> text[j][2]]))

\* ParseFromString: Clear, then the above.  Clear leaves the cached size.
Clear(c, m) == [New(c) EXCEPT !.cached = m.cached]

Parse(c, m, s) == MergePartialFromCodedStream(c, Clear(c, m), s)

\* MergeFrom: fields that are not default, messages field by field.
RECURSIVE MergeFrom(_, _, _)
MergeFrom(c, m, from) ==
  LET merged(f, v, w) ==
        CASE w = Default(f) -> v
          [] ~ IsClass(f.type) -> w
          [] OTHER -> <<MergeFrom(f.type, IF v = << >> THEN New(f.type) ELSE v[1], w[1])>>
  IN [m EXCEPT !.value = [i \in DOMAIN @ |-> merged(Fields[c][i], @[i], from.value[i])],
               !.unknown = @ \o from.unknown]

(***************************************************************************)
(* The operations on two messages.                                         *)
(***************************************************************************)
Step == steps < MaxSteps /\ steps' = steps + 1 /\ UNCHANGED <<class, preserves>>

Init ==
  /\ class \in Classes
  /\ a = New(class) /\ b = New(class)
  /\ preserves \in BOOLEAN
  /\ wire = << >>
  /\ sender = << >>
  /\ steps = 0

\* set_ and clear_ of a number or a text.
SetField ==
  /\ Step
  /\ \E i \in DOMAIN Fields[class] :
       /\ ~ IsClass(Fields[class][i].type)
       /\ \E v \in IF Fields[class][i].type = "int32" THEN Numbers ELSE Texts :
            a' = [a EXCEPT !.value[i] = v]
  /\ UNCHANGED <<b, wire, sender>>

\* mutable_, which makes the message, and set_ of a field of it...
MutableMessage ==
  /\ Step
  /\ \E i \in DOMAIN Fields[class] :
       /\ IsClass(Fields[class][i].type)
       /\ LET old == IF a.value[i] = << >> THEN New(Fields[class][i].type) ELSE a.value[i][1] IN
            \E j \in DOMAIN old.value, v \in Numbers :
              a' = [a EXCEPT !.value[i] = <<[old EXCEPT !.value[j] = v]>>]
  /\ UNCHANGED <<b, wire, sender>>

\* ...and clear_ or release_ of it.
ClearMessage ==
  /\ Step
  /\ \E i \in DOMAIN Fields[class] :
       IsClass(Fields[class][i].type) /\ a' = [a EXCEPT !.value[i] = << >>]
  /\ UNCHANGED <<b, wire, sender>>

\* SerializeToString and the like: the sizes first.
Serialize ==
  /\ Step
  /\ Len(sender) < MaxSends
  /\ a' = ByteSizeLong(class, a, preserves)
  /\ wire' = wire \o SerializeWithCachedSizes(class, a', preserves)
  /\ sender' = Append(sender, IF preserves THEN a' ELSE [a' EXCEPT !.unknown = << >>])
  /\ UNCHANGED b

\* A sender with a newer version of the .proto adds a field: a number or a text.
AddUnknown ==
  /\ Step
  /\ Len(sender) < MaxSends
  /\ \E field \in { Varint(72) \o Varint(-1), Varint(74) \o Varint(1) \o <<<<"char", "x", 0>>>> } :
       /\ wire' = wire \o field
       /\ sender' = Append(sender, [New(class) EXCEPT !.unknown = field, !.cached = Len(field)])
  /\ UNCHANGED <<a, b>>

Receive ==
  /\ Step
  /\ sender # << >>
  /\ Parse(class, b, wire).ok
  /\ b' = Parse(class, b, wire).m
  /\ UNCHANGED <<a, wire, sender>>

Merge ==
  /\ Step
  /\ a' = MergeFrom(class, a, b)
  /\ UNCHANGED <<b, wire, sender>>

\* CopyFrom clears and merges.
CopyFrom ==
  /\ Step
  /\ b' = MergeFrom(class, Clear(class, b), a)
  /\ UNCHANGED <<a, wire, sender>>

\* All that a message holds, its cached size too.
Swap ==
  /\ Step
  /\ a' = b
  /\ b' = a
  /\ UNCHANGED <<wire, sender>>

Next ==
  \/ SetField \/ MutableMessage \/ ClearMessage
  \/ Serialize \/ AddUnknown \/ Receive
  \/ Merge \/ CopyFrom \/ Swap

Spec == Init /\ [][Next]_vars
-----------------------------------------------------------------------------
\* What of a message its user sees.
RECURSIVE Seen(_, _)
Seen(c, m) ==
  [value |-> [i \in DOMAIN m.value |->
     IF IsClass(Fields[c][i].type) /\ m.value[i] # << >>
       THEN <<Seen(Fields[c][i].type, m.value[i][1])>> ELSE m.value[i]],
   unknown |-> m.unknown]

\* What the first k messages on the wire say, if what is said twice counts as
\* MergeFrom has it.
Said(k) ==
  Seen(class, FoldLeft(LAMBDA m, n : MergeFrom(class, m, n), New(class), Take(sender, k)))

\* Messages may be written one after the other and are read as one: what they say
\* comes through, numbers, texts, which messages are there, and fields that the
\* reader does not know.
RoundTrip ==
  LET read == Parse(class, New(class), wire) IN
    read.ok /\ Seen(class, read.m) = Said(Len(sender))

\* The buffer for a message is allocated for the size it says it has: that is what
\* is written, whatever was changed since its sizes were computed last.
SizeExact == Len(wire) = FoldLeft(LAMBDA s, m : s + m.cached, 0, sender)

\* If the end of it is lost then what is read, if it is accepted, lacks fields and
\* has no value in a field that was not sent in it.
NothingInvented ==
  \A n \in 0 .. Len(wire) :
    LET read == Parse(class, New(class), Take(wire, n))
        said == { Said(k).value : k \in 0 .. Len(sender) }
    IN read.ok => \A i \in DOMAIN Fields[class] :
         IF IsClass(Fields[class][i].type) /\ read.m.value[i] # << >>
           THEN \A j \in DOMAIN read.m.value[i][1].value :
                  read.m.value[i][1].value[j] \in
                    {0} \cup { v[i][1].value[j] : v \in { w \in said : w[i] # << >> } }
           ELSE read.m.value[i] \in { v[i] : v \in said }
=============================================================================
