--------------------------- MODULE ProtoUtils_proofs ---------------------------
(***************************************************************************)
(* Deserialize reads back what Serialize wrote, says OK only of one whole  *)
(* message and refuses only for cause, for messages of any number and size *)
(* of fields, buffers from elsewhere, limits, and chunks on either side.   *)
(* What holds only where assert() is compiled says so.                     *)
(***************************************************************************)
EXTENDS ProtoUtils, SequenceTheorems, TLAPS

Decoder == [next : Nat, at : Nat, limit : Nat, fields : Seq(Item),
            parsed : BOOLEAN, whole : BOOLEAN]

\* The buffer holds items, whole when Serialize made it, and its bytes were written
\* but for a small message where assert() is not compiled.
BufferHolds ==
  /\ Len(bytes) <= Size(items)
  /\ bp = "new" => items = msg.fields
  /\ bp = "new" /\ pc # "encoding" /\ status # "unserialized" => Len(bytes) = Size(items)
  /\ ~ NDEBUG \/ bp # "new" \/ pc = "encoding" => \A p \in 1 .. Len(bytes) : bytes[p] = p - 1

\* Who holds what where.
Stages ==
  /\ pc = "idle" => bp = "old" /\ bytes = << >> /\ status = "none"
  /\ pc \in {"idle", "encoding", "serialized"} => decoder = NoDecoder /\ pos = 0
  /\ pc = "encoding" => bp = "new" /\ status # "unserialized"
  /\ pc \in {"serialized", "decoding", "returned"} => bp # "old"
  /\ pc \in {"decoding", "returned"} => status # "unserialized"

\* How far the decoder is: at the end of an item, which is within the limit and
\* was delivered, and all before it were fields.
ReadSoFar ==
  /\ decoder.at = EndOf(items, decoder.next - 1)
  /\ Limited => decoder.at <= decoder.limit
  /\ \A i \in 1 .. decoder.next - 1 : items[i].kind = "field"
  /\ Len(decoder.fields) = decoder.next - 1
  /\ ~ NDEBUG => \A i \in 1 .. decoder.next - 1 : decoder.fields[i] = items[i]

IInv ==
  /\ TypeOK
  /\ decoder \in Decoder
  /\ BufferHolds
  /\ Stages
  /\ ReadSoFar
  /\ OkIsWhole
  /\ ~ NDEBUG => RoundTrip /\ RefusedForCause

-----------------------------------------------------------------------------
(***************************************************************************)
(* Where items end.                                                        *)
(***************************************************************************)
LEMMA LayoutFacts ==
  ASSUME NEW seq \in Layout
  PROVE  /\ seq \in Seq(Item) /\ Len(seq) \in Nat /\ DOMAIN seq = 1 .. Len(seq)
         /\ \A n \in 1 .. Len(seq) : seq[n] \in Item /\ seq[n].end \in Nat
         /\ \A n \in 0 .. Len(seq) : EndOf(seq, n) \in Nat /\ EndOf(seq, n) <= Size(seq)
         /\ \A n \in 1 .. Len(seq) : EndOf(seq, n) = seq[n].end /\ EndOf(seq, n - 1) < seq[n].end
<1>1. /\ seq \in Seq(Item)
      /\ \A i \in DOMAIN seq : seq[i].end > 0
      /\ \A i, j \in DOMAIN seq : i < j => seq[i].end < seq[j].end
  BY DEF Layout
<1>2. Len(seq) \in Nat /\ DOMAIN seq = 1 .. Len(seq)
  BY <1>1, LenProperties
<1>3. ASSUME NEW n \in 1 .. Len(seq) PROVE seq[n] \in Item /\ seq[n].end \in Nat
  <2>1. seq[n] \in Item
    BY <1>1, ElementOfSeq
  <2> QED BY <2>1 DEF Item
<1>4. ASSUME NEW n \in 1 .. Len(seq)
      PROVE  EndOf(seq, n) = seq[n].end /\ EndOf(seq, n - 1) < seq[n].end
  <2>1. EndOf(seq, n) = seq[n].end
    BY DEF EndOf
  <2>2. CASE n = 1
    BY <1>1, <1>2, <2>1, <2>2 DEF EndOf
  <2>3. CASE n # 1
    <3>1. n - 1 \in 1 .. Len(seq) /\ n - 1 < n /\ n - 1 # 0
      BY <2>3
    <3> QED BY <1>1, <1>2, <2>1, <3>1 DEF EndOf
  <2> QED BY <2>1, <2>2, <2>3
<1>5. ASSUME NEW n \in 0 .. Len(seq)
      PROVE  EndOf(seq, n) \in Nat /\ EndOf(seq, n) <= Size(seq)
  <2>1. CASE n = 0
    BY <1>2, <1>3, <2>1 DEF EndOf, Size
  <2>2. CASE n # 0 /\ n = Len(seq)
    BY <1>2, <1>3, <2>2 DEF EndOf, Size
  <2>3. CASE n # 0 /\ n # Len(seq)
    <3>1. \A l \in Nat : \A k \in 0 .. l : k # 0 /\ k # l => k \in 1 .. l /\ l \in 1 .. l /\ k < l
      OBVIOUS
    <3>2. n \in 1 .. Len(seq) /\ Len(seq) \in 1 .. Len(seq) /\ n < Len(seq)
      BY <1>2, <2>3, <3>1
    <3> QED BY <1>1, <1>2, <1>3, <3>2 DEF EndOf, Size
  <2> QED BY <2>1, <2>2, <2>3
<1> QED BY <1>1, <1>2, <1>3, <1>4, <1>5

LEMMA NoDecoderFacts ==
  /\ NoDecoder \in Decoder
  /\ NoDecoder.next = 1 /\ NoDecoder.at = 0 /\ NoDecoder.limit = 0 /\ Len(NoDecoder.fields) = 0
<1>1. << >> \in Seq(Item) /\ Len(<< >>) = 0
  BY EmptySeq
<1> QED BY <1>1 DEF NoDecoder, Decoder

LEMMA EmptyLayout == << >> \in Layout /\ Size(<< >>) = 0
<1>1. << >> \in Seq(Item) /\ Len(<< >>) = 0 /\ DOMAIN << >> = {}
  BY EmptySeq
<1> QED BY <1>1 DEF Layout, Size, EndOf

-----------------------------------------------------------------------------
LEMMA InitIInv == Init => IInv
<1> SUFFICES ASSUME Init PROVE IInv
  OBVIOUS
<1>1. << >> \in Seq(Nat \cup {Junk}) /\ Len(<< >>) = 0
  BY EmptySeq
<1>2. TypeOK
  <2>1. /\ calls \in 0 .. MaxCalls /\ chunk \in 0 .. MaxBufferLength
        /\ room \in 0 .. chunk
    <3>1. calls = 0 /\ chunk = 0 /\ room = 0
      BY DEF Init
    <3>2. MaxCalls \in Nat /\ MaxBufferLength \in Nat
      BY BufferLengthAssumption, CallsAssumption
    <3> QED BY <3>1, <3>2
  <2>2. /\ pos \in 0 .. Len(bytes) /\ decoder.next \in 1 .. Len(items) + 1
        /\ decoder.at \in 0 .. pos
    BY <1>1, NoDecoderFacts DEF Init
  <2> QED BY <1>1, <2>1, <2>2, EmptyLayout DEF Init, TypeOK
<1>3. decoder \in Decoder /\ Stages
  BY NoDecoderFacts DEF Init, Stages
<1>4. BufferHolds
  BY <1>1, EmptyLayout DEF Init, BufferHolds
<1>5. ReadSoFar
  BY NoDecoderFacts DEF Init, ReadSoFar, EndOf, Limited
<1>6. OkIsWhole /\ RoundTrip /\ RefusedForCause
  BY DEF Init, OkIsWhole, RoundTrip, RefusedForCause
<1> QED BY <1>2, <1>3, <1>4, <1>5, <1>6 DEF IInv

(***************************************************************************)
(* Serialize.                                                              *)
(***************************************************************************)
LEMMA MessageFacts ==
  ASSUME IInv
  PROVE  /\ msg.fields \in Layout /\ msg.initialised \in BOOLEAN
         /\ \A i \in DOMAIN msg.fields : msg.fields[i].kind = "field"
         /\ ByteSize(msg) = Size(msg.fields) /\ ByteSize(msg) \in Nat
<1>1. msg \in Messages
  BY DEF IInv, TypeOK
<1>2. msg.fields \in Layout
  BY <1>1, MessagesAssumption
<1>3. Size(msg.fields) \in Nat
  <2>1. Len(msg.fields) \in 0 .. Len(msg.fields)
    BY <1>2, LayoutFacts
  <2> QED BY <1>2, <2>1, LayoutFacts DEF Size
<1> QED BY <1>1, <1>2, <1>3, MessagesAssumption DEF ByteSize

\* While nothing is parsed, only the buffer has to be looked at.
LEMMA BufferKeeps ==
  ASSUME IInv, UNCHANGED decoder, pc' \in {"idle", "encoding", "serialized"},
         TypeOK', BufferHolds', Stages'
  PROVE  IInv'
<1>1. decoder' \in Decoder /\ decoder' = NoDecoder
  BY DEF IInv, Stages
<1>2. ReadSoFar'
  BY <1>1, NoDecoderFacts DEF ReadSoFar, EndOf, Limited
<1>3. OkIsWhole' /\ RoundTrip' /\ RefusedForCause'
  BY DEF OkIsWhole, RoundTrip, RefusedForCause
<1> QED BY <1>1, <1>2, <1>3 DEF IInv

\* The reader's variables have their types before anything is read.
LEMMA UnreadTypes ==
  ASSUME Len(bytes') \in Nat, Len(items') \in Nat, decoder' = NoDecoder, pos' = 0
  PROVE  /\ pos' \in 0 .. Len(bytes') /\ decoder'.next \in 1 .. Len(items') + 1
         /\ decoder'.at \in 0 .. pos'
BY NoDecoderFacts

LEMMA BufferTypes ==
  ASSUME TypeOK, UNCHANGED <<msg, calls, chunk, room, closed, fresh>>,
         pc' \in {"encoding", "serialized"}, bp' \in {"old", "new", "peer", "null"},
         bytes' \in Seq(Nat \cup {Junk}), items' \in Layout,
         status' \in {"none", "ok", "unserialized"}, decoder' = NoDecoder, pos' = 0
  PROVE  TypeOK'
<1>1. Len(bytes') \in Nat /\ Len(items') \in Nat
  BY LenProperties, LayoutFacts
<1>2. /\ pos' \in 0 .. Len(bytes') /\ decoder'.next \in 1 .. Len(items') + 1
      /\ decoder'.at \in 0 .. pos'
  BY <1>1, UnreadTypes
<1>3. /\ calls' \in 0 .. MaxCalls /\ chunk' \in 0 .. MaxBufferLength
      /\ room' \in 0 .. chunk' /\ closed' \in BOOLEAN /\ fresh' \in BOOLEAN /\ msg' \in Messages
  BY DEF TypeOK
<1> QED BY <1>2, <1>3 DEF TypeOK

\* What is written is the message from its beginning on.
LEMMA WrittenFacts ==
  ASSUME NEW n \in Nat
  PROVE  /\ Written(n) \in Seq(Nat \cup {Junk}) /\ Len(Written(n)) = n
         /\ \A p \in 1 .. n : Written(n)[p] = p - 1
<1>1. \A p \in 1 .. n : p - 1 \in Nat
  OBVIOUS
<1> QED BY <1>1 DEF Written

LEMMA SmallKeeps == ASSUME IInv, SerializeSmall PROVE IInv'
<1>1. /\ pc = "idle" /\ pc' = "serialized" /\ bp' = "new" /\ status' = "ok"
      /\ items' = msg.fields /\ bytes' = IF NDEBUG THEN [p \in 1 .. ByteSize(msg) |-> Junk]
                                                   ELSE Written(ByteSize(msg))
      /\ UNCHANGED <<msg, calls, chunk, room, closed, pos, lent, fresh, done, decoder>>
  BY DEF SerializeSmall, output, input
<1>2. /\ bytes' \in Seq(Nat \cup {Junk}) /\ Len(bytes') = Size(items')
      /\ ~ NDEBUG => \A p \in 1 .. Len(bytes') : bytes'[p] = p - 1
  <2>1. CASE NDEBUG
    BY <1>1, <2>1, MessageFacts
  <2>2. CASE ~ NDEBUG
    BY <1>1, <2>2, MessageFacts, WrittenFacts
  <2> QED BY <2>1, <2>2
<1>3. Size(items') \in Nat /\ items' \in Layout /\ Len(items') \in Nat
  BY <1>1, MessageFacts, LayoutFacts
<1>4. decoder' = NoDecoder /\ pos' = 0
  BY <1>1 DEF IInv, Stages
<1>5. TypeOK'
  BY <1>1, <1>2, <1>3, <1>4, BufferTypes DEF IInv
<1>6. BufferHolds'
  <2>1. Len(bytes') <= Size(items')
    BY <1>2, <1>3
  <2> QED BY <1>1, <1>2, <2>1 DEF BufferHolds
<1>7. Stages'
  BY <1>1, <1>4 DEF Stages
<1> QED BY <1>1, <1>5, <1>6, <1>7, BufferKeeps

LEMMA StartWriterKeeps == ASSUME IInv, StartWriter PROVE IInv'
<1>1. /\ pc = "idle" /\ pc' = "encoding" /\ bp' = "new" /\ items' = msg.fields
      /\ UNCHANGED <<msg, bytes, status, calls, chunk, room, closed, pos, lent, fresh, done, decoder>>
  BY DEF StartWriter, output, input
<1>2. Len(bytes') = 0 /\ status # "unserialized" /\ decoder' = NoDecoder /\ pos' = 0
  BY <1>1, EmptySeq DEF IInv, Stages
<1>3. Size(items') \in Nat /\ items' \in Layout /\ Len(items') \in Nat
  BY <1>1, MessageFacts, LayoutFacts
<1>4. TypeOK'
  <2>1. bytes' \in Seq(Nat \cup {Junk}) /\ status' \in {"none", "ok", "unserialized"}
    BY <1>1 DEF IInv, TypeOK, Stages
  <2> QED BY <1>1, <1>2, <1>3, <2>1, BufferTypes DEF IInv
<1>5. BufferHolds' /\ Stages'
  <2>1. Len(bytes') <= Size(items') /\ 1 .. Len(bytes') = {}
    BY <1>2, <1>3
  <2> QED BY <1>1, <1>2, <2>1 DEF BufferHolds, Stages
<1> QED BY <1>1, <1>4, <1>5, BufferKeeps

LEMMA EncodeKeeps == ASSUME IInv, Encode PROVE IInv'
<1>1. /\ pc = "encoding" /\ Len(bytes') <= ByteSize(msg)
      /\ UNCHANGED <<pc, msg, bp, items, status, calls, pos, lent, fresh, done, decoder>>
  BY DEF Encode, input
<1>2. /\ bp = "new" /\ status # "unserialized" /\ decoder' = NoDecoder /\ pos' = 0
      /\ items = msg.fields /\ bytes \in Seq(Nat \cup {Junk}) /\ Len(bytes) \in Nat
      /\ \A p \in 1 .. Len(bytes) : bytes[p] = p - 1
  BY <1>1, LenProperties DEF IInv, Stages, BufferHolds, TypeOK
<1>3. /\ bytes' \in Seq(Nat \cup {Junk}) /\ Len(bytes') \in Nat
      /\ \A p \in 1 .. Len(bytes') : bytes'[p] = p - 1
      /\ chunk' \in 0 .. MaxBufferLength /\ room' \in 0 .. chunk' /\ closed' \in BOOLEAN
  <2>1. CASE Out!Lend
    <3>1. /\ bytes' = bytes /\ chunk' \in 1 .. MaxBufferLength /\ room' = chunk'
          /\ closed' = closed
      BY <2>1 DEF Out!Lend
    <3>2. chunk' \in 0 .. MaxBufferLength /\ room' \in 0 .. chunk'
      BY <3>1, BufferLengthAssumption
    <3>3. closed' \in BOOLEAN
      BY <3>1 DEF IInv, TypeOK
    <3> QED BY <1>2, <3>1, <3>2, <3>3
  <2>2. CASE Out!TakeBack /\ bytes' = bytes
    <3>1. bytes' = bytes /\ chunk' = 0 /\ room' = 0 /\ closed' = closed
      BY <2>2 DEF Out!TakeBack
    <3>2. chunk' \in 0 .. MaxBufferLength /\ room' \in 0 .. chunk'
      BY <3>1, BufferLengthAssumption
    <3>3. closed' \in BOOLEAN
      BY <3>1 DEF IInv, TypeOK
    <3> QED BY <1>2, <3>1, <3>2, <3>3
  <2>3. CASE Out!Write
    <3>1. PICK k \in 1 .. room :
            /\ bytes' = bytes \o [i \in 1 .. k |-> Len(bytes) + i - 1]
            /\ room' = room - k
      BY <2>3 DEF Out!Write
    <3>0. chunk' = chunk /\ closed' = closed /\ closed \in BOOLEAN
      BY <2>3 DEF IInv, TypeOK, Out!Write
    <3>2. room \in Nat /\ chunk \in Nat /\ room <= chunk /\ k \in Nat /\ chunk \in 0 .. MaxBufferLength
      <4>1. room \in 0 .. chunk /\ chunk \in 0 .. MaxBufferLength
        BY DEF IInv, TypeOK
      <4> QED BY <3>1, <4>1, BufferLengthAssumption
    <3> DEFINE more == [i \in 1 .. k |-> Len(bytes) + i - 1]
    <3>3. /\ more \in Seq(Nat \cup {Junk}) /\ Len(more) = k
          /\ \A i \in 1 .. k : more[i] = Len(bytes) + i - 1
      <4>1. \A i \in 1 .. k : Len(bytes) + i - 1 \in Nat
        BY <1>2, <3>2
      <4> QED BY <3>2, <4>1
    <3> HIDE DEF more
    <3>4. /\ bytes \o more \in Seq(Nat \cup {Junk})
          /\ Len(bytes \o more) = Len(bytes) + k
          /\ \A p \in 1 .. Len(bytes) + k :
               (bytes \o more)[p] = IF p <= Len(bytes) THEN bytes[p] ELSE more[p - Len(bytes)]
      BY <1>2, <3>3, ConcatProperties
    <3>5. bytes' = bytes \o more
      BY <3>1 DEF more
    <3>6. ASSUME NEW p \in 1 .. Len(bytes) + k PROVE (bytes \o more)[p] = p - 1
      <4>1. CASE p <= Len(bytes)
        BY <1>2, <3>2, <3>4, <4>1
      <4>2. CASE ~ (p <= Len(bytes))
        <5>1. p - Len(bytes) \in 1 .. k
          BY <1>2, <3>2, <4>2
        <5>2. more[p - Len(bytes)] = Len(bytes) + (p - Len(bytes)) - 1
          BY <3>3, <5>1
        <5> QED BY <1>2, <3>4, <4>2, <5>2
      <4> QED BY <4>1, <4>2
    <3>7. Len(bytes') = Len(bytes) + k /\ Len(bytes') \in Nat
      BY <1>2, <3>2, <3>4, <3>5
    <3>8. room' \in 0 .. chunk'
      BY <3>0, <3>1, <3>2
    <3> QED BY <3>0, <3>2, <3>4, <3>5, <3>6, <3>7, <3>8
  <2> QED BY <2>1, <2>2, <2>3 DEF Encode
<1>4. TypeOK'
  <2>1. Len(items') \in Nat /\ items' \in Layout
    BY <1>1, LayoutFacts DEF IInv, TypeOK
  <2>2. /\ pos' \in 0 .. Len(bytes') /\ decoder'.next \in 1 .. Len(items') + 1
        /\ decoder'.at \in 0 .. pos'
    BY <1>2, <1>3, <2>1, UnreadTypes
  <2>3. /\ pc' \in {"encoding"} /\ msg' \in Messages /\ bp' = "new" /\ calls' \in 0 .. MaxCalls
        /\ fresh' \in BOOLEAN /\ status' \in {"none", "ok", "unserialized", "no payload",
             "unreadable", "unparsed", "partial"}
    BY <1>1, <1>2 DEF IInv, TypeOK
  <2> QED BY <1>3, <2>1, <2>2, <2>3 DEF TypeOK
<1>5. BufferHolds' /\ Stages'
  BY <1>1, <1>2, <1>3, MessageFacts DEF BufferHolds, Stages
<1> QED BY <1>1, <1>4, <1>5, BufferKeeps

LEMMA SerializedKeeps == ASSUME IInv, SerializeLarge \/ SerializeFails PROVE IInv'
<1>1. /\ pc = "encoding" /\ pc' = "serialized"
      /\ UNCHANGED <<msg, bp, bytes, items, calls, chunk, pos, lent, fresh, done, decoder>>
      /\ \/ status' = "ok" /\ Len(bytes) = ByteSize(msg) /\ room' = room /\ closed' \in BOOLEAN
         \/ status' = "unserialized" /\ room' = 0 /\ closed' \in BOOLEAN
  BY DEF SerializeLarge, SerializeFails, Out!Close, input
<1>2. bp = "new" /\ decoder' = NoDecoder /\ pos' = 0 /\ items = msg.fields
  BY <1>1 DEF IInv, Stages, BufferHolds
<1>3. TypeOK'
  <2>1. room' \in 0 .. chunk' /\ closed' \in BOOLEAN
    <3>1. room \in 0 .. chunk /\ chunk \in 0 .. MaxBufferLength /\ chunk' = chunk
      BY <1>1 DEF IInv, TypeOK
    <3>2. 0 \in 0 .. chunk
      BY <3>1, BufferLengthAssumption
    <3>3. room' \in 0 .. chunk'
      BY <1>1, <3>1, <3>2
    <3> QED BY <1>1, <3>3
  <2>2. /\ pos' \in 0 .. Len(bytes') /\ decoder'.next \in 1 .. Len(items') + 1
        /\ decoder'.at \in 0 .. pos'
    BY <1>1 DEF IInv, TypeOK
  <2>3. /\ chunk' \in 0 .. MaxBufferLength /\ calls' \in 0 .. MaxCalls
        /\ fresh' \in BOOLEAN /\ msg' \in Messages /\ items' \in Layout
        /\ bytes' \in Seq(Nat \cup {Junk}) /\ bp' = "new" /\ status' \in {"ok", "unserialized"}
    BY <1>1, <1>2 DEF IInv, TypeOK
  <2> QED BY <1>1, <2>1, <2>2, <2>3 DEF TypeOK
<1>4. BufferHolds' /\ Stages'
  BY <1>1, <1>2, MessageFacts DEF IInv, BufferHolds, Stages
<1> QED BY <1>1, <1>3, <1>4, BufferKeeps

(***************************************************************************)
(* A buffer from elsewhere, or none.                                       *)
(***************************************************************************)
LEMMA ReceiveKeeps ==
  ASSUME IInv, NEW buffer \in PeerBuffers, Receive(buffer)
  PROVE  IInv'
<1>1. /\ pc = "idle" /\ pc' = "serialized" /\ bp' = "peer" /\ status' = "ok"
      /\ items' = buffer.items /\ bytes' = Written(buffer.size)
      /\ UNCHANGED <<msg, calls, chunk, room, closed, pos, lent, fresh, done, decoder>>
  BY DEF Receive, output, input
<1>2. decoder' = NoDecoder /\ pos' = 0
  BY <1>1 DEF IInv, Stages
<1>3. /\ buffer.items \in Layout /\ buffer.size \in 0 .. Size(buffer.items) /\ buffer.size \in Nat
      /\ Len(buffer.items) \in Nat /\ Size(buffer.items) \in Nat
  <2>1. buffer.items \in Layout /\ buffer.size \in 0 .. Size(buffer.items)
    BY PeerBuffersAssumption
  <2>2. Len(buffer.items) \in Nat /\ Len(buffer.items) \in 0 .. Len(buffer.items)
    BY <2>1, LayoutFacts
  <2> QED BY <2>1, <2>2, LayoutFacts DEF Size
<1>4. /\ bytes' \in Seq(Nat \cup {Junk}) /\ Len(bytes') = buffer.size
      /\ \A p \in 1 .. Len(bytes') : bytes'[p] = p - 1
  BY <1>1, <1>3, WrittenFacts
<1>5. TypeOK'
  BY <1>1, <1>2, <1>3, <1>4, BufferTypes DEF IInv
<1>6. BufferHolds' /\ Stages'
  BY <1>1, <1>2, <1>3, <1>4 DEF BufferHolds, Stages
<1> QED BY <1>1, <1>5, <1>6, BufferKeeps

LEMMA ReceiveNothingKeeps == ASSUME IInv, ReceiveNothing PROVE IInv'
<1>1. /\ pc = "idle" /\ pc' = "serialized" /\ bp' = "null" /\ status' = "ok"
      /\ UNCHANGED <<msg, bytes, items, calls, chunk, room, closed, pos, lent, fresh, done, decoder>>
  BY DEF ReceiveNothing, output, input
<1>2. TypeOK'
  <2>1. bytes' \in Seq(Nat \cup {Junk}) /\ items' \in Layout /\ decoder' = NoDecoder /\ pos' = 0
    BY <1>1 DEF IInv, TypeOK, Stages
  <2> QED BY <1>1, <2>1, BufferTypes DEF IInv
<1>3. BufferHolds' /\ Stages'
  BY <1>1, EmptySeq DEF IInv, BufferHolds, Stages
<1> QED BY <1>1, <1>2, <1>3, BufferKeeps

(***************************************************************************)
(* Deserialize.                                                            *)
(***************************************************************************)
LEMMA NothingReadKeeps ==
  ASSUME IInv, DeserializeNull \/ DeserializeUnreadable
  PROVE  IInv'
<1>1. /\ bp \in {"null", "peer"} /\ pc' = "returned" /\ calls < MaxCalls /\ calls' = calls + 1
      /\ status' \in {"no payload", "unreadable"}
      /\ UNCHANGED <<msg, bp, bytes, items, chunk, room, closed, pos, lent, fresh, done, decoder>>
  BY DEF DeserializeNull, DeserializeUnreadable, MayDeserialize, output, input
<1>2. calls' \in 0 .. MaxCalls
  <2>1. calls \in 0 .. MaxCalls
    BY DEF IInv, TypeOK
  <2>2. calls < MaxCalls /\ calls' = calls + 1 /\ MaxCalls \in Nat
    BY <1>1, CallsAssumption
  <2> QED BY <2>1, <2>2
<1>3. TypeOK'
  BY <1>1, <1>2 DEF IInv, TypeOK
<1>4. BufferHolds' /\ Stages'
  BY <1>1 DEF IInv, BufferHolds, Stages
<1>5. ReadSoFar' /\ decoder' \in Decoder
  BY <1>1 DEF IInv, ReadSoFar, Limited
<1>6. OkIsWhole' /\ RoundTrip' /\ RefusedForCause'
  BY <1>1 DEF OkIsWhole, RoundTrip, RefusedForCause
<1> QED BY <1>3, <1>4, <1>5, <1>6 DEF IInv

LEMMA DeserializeStartKeeps ==
  ASSUME IInv, NEW max \in Limits, DeserializeStart(max)
  PROVE  IInv'
<1> DEFINE limit == IF max > 0 THEN max ELSE 0
<1>1. /\ bp # "null" /\ pc' = "decoding" /\ calls < MaxCalls /\ calls' = calls + 1
      /\ (pc = "serialized" /\ status = "ok") \/ pc = "returned"
      /\ decoder' = [NoDecoder EXCEPT !.limit = limit] /\ pos' = 0 /\ fresh' = FALSE
      /\ UNCHANGED <<msg, bp, bytes, items, status, chunk, room, closed>>
  BY DEF DeserializeStart, MayDeserialize, output
<1>2. limit \in Nat
  BY CallsAssumption
<1> HIDE DEF limit
<1>3. /\ decoder' \in Decoder
      /\ decoder'.next = 1 /\ decoder'.at = 0 /\ decoder'.limit = limit /\ Len(decoder'.fields) = 0
  BY <1>1, <1>2, NoDecoderFacts DEF Decoder
<1>4. TypeOK'
  <2>1. calls' \in 0 .. MaxCalls
    <3>1. calls \in 0 .. MaxCalls
      BY DEF IInv, TypeOK
    <3> QED BY <1>1, <3>1, CallsAssumption
  <2>2. /\ pos' \in 0 .. Len(bytes') /\ decoder'.next \in 1 .. Len(items') + 1
        /\ decoder'.at \in 0 .. pos'
    <3>1. Len(bytes) \in Nat /\ Len(items) \in Nat
      BY LenProperties, LayoutFacts DEF IInv, TypeOK
    <3> QED BY <1>1, <1>3, <3>1
  <2>3. fresh' \in BOOLEAN
    BY <1>1
  <2> QED BY <1>1, <2>1, <2>2, <2>3 DEF IInv, TypeOK
<1>5. BufferHolds'
  BY <1>1 DEF IInv, BufferHolds, Stages
<1>6. Stages'
  <2>1. bp \in {"old", "new", "peer", "null"}
    BY DEF IInv, TypeOK
  <2> QED BY <1>1, <2>1 DEF IInv, Stages
<1>7. ReadSoFar'
  BY <1>2, <1>3 DEF ReadSoFar, EndOf, Limited
<1>8. OkIsWhole' /\ RoundTrip' /\ RefusedForCause'
  BY <1>1 DEF OkIsWhole, RoundTrip, RefusedForCause
<1> QED BY <1>3, <1>4, <1>5, <1>6, <1>7, <1>8 DEF IInv

\* The bytes that were delivered are those that were written, where assert() is
\* compiled and for what comes from elsewhere.
LEMMA WrittenIsIntact ==
  ASSUME IInv, decoder.next \in 1 .. Len(items), NextItem.end <= pos,
         ~ NDEBUG \/ bp # "new"
  PROVE  Intact
<1>1. \A p \in 1 .. Len(bytes) : bytes[p] = p - 1
  BY DEF IInv, BufferHolds
<1>2. decoder.at \in Nat /\ pos \in Nat /\ pos <= Len(bytes) /\ Len(bytes) \in Nat
  <2>1. pos \in 0 .. Len(bytes) /\ decoder.at \in 0 .. pos /\ Len(bytes) \in Nat
    BY LenProperties DEF IInv, TypeOK
  <2> QED BY <2>1
<1>3. ItemEnd \in Nat
  BY LayoutFacts DEF IInv, TypeOK, ItemEnd, NextItem
<1>4. \A p \in decoder.at + 1 .. ItemEnd : p \in 1 .. Len(bytes)
  BY <1>2, <1>3 DEF ItemEnd
<1> QED BY <1>1, <1>4 DEF Intact

\* How far the decoder and the reader are.
LEMMA Places ==
  ASSUME IInv
  PROVE  /\ Len(bytes) \in Nat /\ Len(items) \in Nat /\ Size(items) \in Nat
         /\ pos \in Nat /\ pos <= Len(bytes) /\ Len(bytes) <= Size(items)
         /\ decoder.at \in Nat /\ decoder.at <= pos
         /\ decoder.next \in Nat /\ 1 <= decoder.next /\ decoder.next <= Len(items) + 1
         /\ decoder.at = EndOf(items, decoder.next - 1)
         /\ decoder.limit \in Nat /\ (Limited => decoder.at <= decoder.limit)
         /\ decoder.next <= Len(items) => /\ NextItem \in Item /\ ItemEnd \in Nat
                                          /\ ItemEnd = EndOf(items, decoder.next)
                                          /\ ItemEnd <= Size(items)
<1>1. /\ pos \in 0 .. Len(bytes) /\ decoder.at \in 0 .. pos
      /\ decoder.next \in 1 .. Len(items) + 1 /\ items \in Layout
      /\ Len(bytes) \in Nat /\ Len(bytes) <= Size(items) /\ decoder.limit \in Nat
      /\ decoder.at = EndOf(items, decoder.next - 1)
      /\ (Limited => decoder.at <= decoder.limit)
  BY LenProperties DEF IInv, TypeOK, BufferHolds, Decoder, ReadSoFar
<1>2. Len(items) \in Nat
  BY <1>1, LayoutFacts
<1>3. Size(items) \in Nat
  <2>1. Len(items) \in 0 .. Len(items)
    BY <1>2
  <2> QED BY <1>1, <2>1, LayoutFacts DEF Size
<1>4. ASSUME decoder.next <= Len(items)
      PROVE  /\ NextItem \in Item /\ ItemEnd \in Nat
             /\ ItemEnd = EndOf(items, decoder.next)
             /\ ItemEnd <= Size(items)
  <2>1. decoder.next \in 1 .. Len(items) /\ decoder.next \in 0 .. Len(items)
    BY <1>1, <1>2, <1>4
  <2> QED BY <1>1, <2>1, LayoutFacts DEF NextItem, ItemEnd
<1> QED BY <1>1, <1>2, <1>3, <1>4

LEMMA RefillKeeps == ASSUME IInv, Refill PROVE IInv'
<1>1. /\ pc = "decoding" /\ In!Lend
      /\ UNCHANGED <<pc, msg, bp, bytes, items, status, calls, chunk, room, closed, decoder>>
  BY DEF Refill, output
<1>2. PICK k \in 0 .. Len(bytes) - pos : pos' = pos + k
  BY <1>1 DEF In!Lend
<1>3. fresh' = TRUE
  BY <1>1 DEF In!Lend
<1>4. pos' \in 0 .. Len(bytes') /\ decoder'.at \in 0 .. pos'
  BY <1>1, <1>2, Places
<1>5. TypeOK'
  BY <1>1, <1>3, <1>4 DEF IInv, TypeOK
<1>6. BufferHolds' /\ Stages'
  BY <1>1 DEF IInv, BufferHolds, Stages
<1>7. ReadSoFar' /\ decoder' \in Decoder
  BY <1>1 DEF IInv, ReadSoFar, Limited
<1>8. OkIsWhole' /\ RoundTrip' /\ RefusedForCause'
  BY <1>1 DEF OkIsWhole, RoundTrip, RefusedForCause
<1> QED BY <1>5, <1>6, <1>7, <1>8 DEF IInv

LEMMA ParseFieldKeeps == ASSUME IInv, ParseField PROVE IInv'
<1> DEFINE parsed == IF Intact THEN NextItem ELSE Garbage
<1>1. /\ pc = "decoding" /\ decoder.next <= Len(items) /\ ~ BeyondLimit /\ ItemEnd <= pos
      /\ "field" \in Kinds
      /\ decoder' = [decoder EXCEPT !.next = @ + 1, !.at = ItemEnd,
                                    !.fields = Append(@, parsed)]
      /\ UNCHANGED <<pc, msg, bp, bytes, items, status, calls, chunk, room, closed, pos, lent,
                     fresh, done>>
  BY DEF ParseField, output, input
<1>2. decoder \in Decoder /\ parsed \in Item
  BY <1>1, Places DEF IInv, Garbage, Item
<1> PICK n \in Nat : n = decoder.next
  BY Places
<1>n. n \in 1 .. Len(items) /\ NextItem = items[n] /\ Len(items) \in Nat
  BY <1>1, Places DEF NextItem
<1>3. /\ decoder'.next = n + 1 /\ decoder'.at = ItemEnd
      /\ decoder'.fields = Append(decoder.fields, parsed) /\ decoder'.limit = decoder.limit
      /\ decoder.fields \in Seq(Item) /\ Len(decoder.fields) = n - 1
  BY <1>1, <1>2 DEF Decoder, IInv, ReadSoFar
<1>4. /\ Append(decoder.fields, parsed) \in Seq(Item)
      /\ Len(Append(decoder.fields, parsed)) = n
      /\ \A i \in 1 .. n - 1 : Append(decoder.fields, parsed)[i] = decoder.fields[i]
      /\ Append(decoder.fields, parsed)[n] = parsed
  <2>1. (n - 1) + 1 = n
    OBVIOUS
  <2> HIDE DEF parsed
  <2> QED BY <1>2, <1>3, <2>1, AppendProperties
<1>5. decoder' \in Decoder
  <2>1. ItemEnd \in Nat /\ n + 1 \in Nat
    BY <1>1, Places
  <2> HIDE DEF parsed
  <2> QED BY <1>1, <1>2, <1>4, <2>1 DEF Decoder
<1>6. items[n].kind = "field"
  <2>1. CASE Intact
    BY <1>1, <1>n, <2>1 DEF Kinds
  <2>2. CASE ~ Intact
    <3>1. NDEBUG /\ bp = "new"
      BY <1>1, <1>n, <2>2, WrittenIsIntact DEF ItemEnd
    <3>2. items = msg.fields
      BY <3>1 DEF IInv, BufferHolds
    <3>3. n \in DOMAIN msg.fields
      BY <1>n, <3>2, MessageFacts, LayoutFacts
    <3> QED BY <3>2, <3>3, MessageFacts
  <2> QED BY <2>1, <2>2
<1>7. ~ NDEBUG => parsed = items[n]
  BY <1>1, <1>n, WrittenIsIntact DEF ItemEnd
<1> HIDE DEF parsed
<1>8. TypeOK'
  <2>1. decoder'.next \in 1 .. Len(items') + 1 /\ decoder'.at \in 0 .. pos'
    BY <1>1, <1>3, <1>n, Places
  <2> QED BY <1>1, <2>1 DEF IInv, TypeOK
<1>9. BufferHolds' /\ Stages'
  BY <1>1 DEF IInv, BufferHolds, Stages
<1>10. ReadSoFar'
  <2>1. decoder'.at = EndOf(items', decoder'.next - 1)
    BY <1>1, <1>3, Places
  <2>2. Limited' => decoder'.at <= decoder'.limit
    BY <1>1, <1>3, Places DEF BeyondLimit, Limited
  <2>3. \A i \in 1 .. n - 1 : items[i].kind = "field"
    BY DEF IInv, ReadSoFar
  <2>4. ~ NDEBUG => \A i \in 1 .. n - 1 : decoder.fields[i] = items[i]
    BY DEF IInv, ReadSoFar
  <2>5. \A i \in 1 .. n : i = n \/ i \in 1 .. n - 1
    OBVIOUS
  <2>6. decoder'.next - 1 = n
    BY <1>3
  <2>7. \A i \in 1 .. decoder'.next - 1 : items'[i].kind = "field"
    BY <1>1, <1>6, <2>3, <2>5, <2>6
  <2>8. ~ NDEBUG => \A i \in 1 .. decoder'.next - 1 : decoder'.fields[i] = items'[i]
    BY <1>1, <1>3, <1>4, <1>7, <2>4, <2>5, <2>6
  <2> QED BY <1>3, <1>4, <2>1, <2>2, <2>6, <2>7, <2>8 DEF ReadSoFar
<1>11. OkIsWhole' /\ RoundTrip' /\ RefusedForCause'
  BY <1>1 DEF OkIsWhole, RoundTrip, RefusedForCause
<1> QED BY <1>5, <1>8, <1>9, <1>10, <1>11 DEF IInv

\* Deserialize returns.  What the parser reports decides the status; the last two
\* hypotheses say that it does not give up on a whole message without a cause.
LEMMA ReturnKeeps ==
  ASSUME IInv, pc = "decoding", NEW parsed \in BOOLEAN, NEW whole \in BOOLEAN,
         ParseReturns(parsed, whole), UNCHANGED pos, fresh' \in BOOLEAN,
         whole => decoder.next > Len(items) /\ parsed = msg.initialised,
         ~ NDEBUG /\ ~ whole => \/ Len(bytes) # Size(items)
                                \/ \E i \in DOMAIN items : items[i].kind # "field"
                                \/ Limited /\ Len(bytes) >= decoder.limit,
         ~ NDEBUG /\ bp = "new" /\ ~ Limited => whole
  PROVE  IInv'
<1>1. /\ decoder' = [decoder EXCEPT !.parsed = parsed, !.whole = whole]
      /\ status' = Result(parsed, whole) /\ pc' = "returned"
      /\ UNCHANGED <<msg, bp, bytes, items, calls, chunk, room, closed, pos>>
  BY DEF ParseReturns, output
<1>2. /\ status' \in {"ok", "unparsed", "partial"}
      /\ status' = "ok" => whole /\ parsed
      /\ status' = "unparsed" => whole /\ ~ parsed
      /\ status' = "partial" => ~ whole
  BY <1>1 DEF Result
<1>3. /\ decoder' \in Decoder /\ decoder'.next = decoder.next /\ decoder'.at = decoder.at
      /\ decoder'.limit = decoder.limit /\ decoder'.fields = decoder.fields
  BY <1>1 DEF IInv, Decoder
<1>4. TypeOK'
  <2>1. /\ decoder'.next \in 1 .. Len(items') + 1 /\ decoder'.at \in 0 .. pos'
        /\ pos' \in 0 .. Len(bytes')
    BY <1>1, <1>3 DEF IInv, TypeOK
  <2> QED BY <1>1, <1>2, <2>1 DEF IInv, TypeOK
<1>5. BufferHolds' /\ Stages'
  BY <1>1, <1>2 DEF IInv, BufferHolds, Stages
<1>6. ReadSoFar' /\ (Limited' <=> Limited)
  BY <1>1, <1>3 DEF IInv, ReadSoFar, Limited
<1>7. ASSUME whole
      PROVE  /\ decoder.next - 1 = Len(items)
             /\ decoder.at = Len(bytes)
             /\ \A i \in DOMAIN items : items[i].kind = "field"
             /\ Limited => Len(bytes) <= decoder.limit
             /\ Len(decoder.fields) = Len(items)
             /\ ~ NDEBUG => decoder.fields = items
  <2>1. decoder.next - 1 = Len(items)
    BY <1>7, Places
  <2>2. decoder.at = Size(items)
    BY <2>1, Places DEF Size
  <2>3. decoder.at = Len(bytes)
    BY <2>2, Places
  <2>4. /\ items \in Seq(Item) /\ DOMAIN items = 1 .. Len(items)
        /\ decoder.fields \in Seq(Item)
    BY LayoutFacts DEF IInv, TypeOK, Decoder
  <2>5. /\ \A i \in 1 .. Len(items) : items[i].kind = "field"
        /\ Len(decoder.fields) = Len(items)
        /\ ~ NDEBUG => \A i \in 1 .. Len(items) : decoder.fields[i] = items[i]
    BY <2>1 DEF IInv, ReadSoFar
  <2>6. ~ NDEBUG => decoder.fields = items
    BY <2>4, <2>5, SeqEqual
  <2> QED BY <2>1, <2>3, <2>4, <2>5, <2>6, Places
<1>8. OkIsWhole'
  BY <1>1, <1>2, <1>3, <1>6, <1>7 DEF OkIsWhole
<1>9. ASSUME ~ NDEBUG PROVE RoundTrip' /\ RefusedForCause'
  <2>1. bp = "new" => items = msg.fields
    BY DEF IInv, BufferHolds
  <2>2. RoundTrip'
    <3>1. ASSUME bp = "new", status' = "ok" PROVE decoder'.fields = msg'.fields
      BY <1>1, <1>2, <1>3, <1>7, <1>9, <2>1, <3>1
    <3>2. ASSUME bp = "new", msg.initialised, ~ Limited PROVE status' = "ok"
      BY <1>1, <1>9, <3>2 DEF Result
    <3> QED BY <1>1, <1>6, <3>1, <3>2 DEF RoundTrip
  <2>3. RefusedForCause'
    <3>1. status' = "unparsed" => decoder'.next > Len(items') /\ ~ msg'.initialised
      BY <1>1, <1>2, <1>3
    <3>2. status' = "partial" => \/ Len(bytes') # Size(items')
                                 \/ \E i \in DOMAIN items' : items'[i].kind # "field"
                                 \/ Limited' /\ Len(bytes') >= decoder'.limit
      BY <1>1, <1>2, <1>3, <1>6, <1>9
    <3> QED BY <3>1, <3>2 DEF RefusedForCause
  <2> QED BY <2>2, <2>3
<1> QED BY <1>3, <1>4, <1>5, <1>6, <1>8, <1>9 DEF IInv

\* A message that Serialize made is whole, in the buffer and in fields.
LEMMA SerializedIsWhole ==
  ASSUME IInv, pc = "decoding", bp = "new"
  PROVE  /\ Len(bytes) = Size(items)
         /\ \A i \in DOMAIN items : items[i].kind = "field"
<1>1. Len(bytes) = Size(items) /\ items = msg.fields
  BY DEF IInv, BufferHolds, Stages
<1> QED BY <1>1, MessageFacts

LEMMA ParseStopsKeeps == ASSUME IInv, ParseStops PROVE IInv'
<1>1. /\ pc = "decoding" /\ decoder.next <= Len(items)
      /\ AtLimit \/ (~ BeyondLimit /\ ItemEnd <= pos /\ "stop" \in Kinds)
      /\ ParseReturns(msg.initialised, FALSE)
      /\ UNCHANGED <<pos, lent, fresh, done>>
  BY DEF ParseStops, input
<1>2. /\ decoder.next \in 1 .. Len(items) /\ items \in Layout
      /\ fresh' \in BOOLEAN /\ msg.initialised \in BOOLEAN
  <2>1. decoder.next \in 1 .. Len(items)
    BY <1>1, Places
  <2> QED BY <1>1, <2>1, MessageFacts DEF IInv, TypeOK
<1>3. decoder.next \in DOMAIN items
  BY <1>2, LayoutFacts
<1>4. ASSUME ~ NDEBUG, ~ AtLimit PROVE \E i \in DOMAIN items : items[i].kind # "field"
  <2>1. Intact
    BY <1>1, <1>2, <1>4, WrittenIsIntact DEF ItemEnd
  <2> QED BY <1>1, <1>3, <1>4, <2>1 DEF Kinds, NextItem
<1>5. AtLimit => Limited /\ Len(bytes) >= decoder.limit
  BY Places DEF AtLimit
<1>6. ~ NDEBUG /\ bp = "new" /\ ~ Limited => FALSE
  BY <1>1, <1>4, SerializedIsWhole DEF AtLimit
<1> QED BY <1>1, <1>2, <1>4, <1>5, <1>6, ReturnKeeps

LEMMA ParseFailsKeeps == ASSUME IInv, ParseFails PROVE IInv'
<1>1. /\ pc = "decoding" /\ decoder.next <= Len(items)
      /\ \/ BeyondLimit
         \/ ItemEnd <= pos /\ "bad" \in Kinds
         \/ ItemEnd > pos /\ pos = Len(bytes)
      /\ ParseReturns(FALSE, FALSE)
      /\ UNCHANGED <<pos, lent, fresh, done>>
  BY DEF ParseFails, input
<1>2. decoder.next \in 1 .. Len(items) /\ items \in Layout /\ fresh' \in BOOLEAN
  <2>1. decoder.next \in 1 .. Len(items)
    BY <1>1, Places
  <2> QED BY <1>1, <2>1 DEF IInv, TypeOK
<1>3. decoder.next \in DOMAIN items
  BY <1>2, LayoutFacts
<1>4. ASSUME ~ NDEBUG, ItemEnd <= pos, "bad" \in Kinds
      PROVE  \E i \in DOMAIN items : items[i].kind # "field"
  <2>1. Intact
    BY <1>2, <1>4, WrittenIsIntact DEF ItemEnd
  <2> QED BY <1>3, <1>4, <2>1 DEF Kinds, NextItem
<1>5. ItemEnd > pos /\ pos = Len(bytes) => Len(bytes) # Size(items)
  BY <1>1, Places
<1>6. BeyondLimit => \/ Len(bytes) # Size(items)
                     \/ Limited /\ Len(bytes) >= decoder.limit
  BY <1>1, Places DEF BeyondLimit
<1>7. ~ NDEBUG => \/ Len(bytes) # Size(items)
                  \/ \E i \in DOMAIN items : items[i].kind # "field"
                  \/ Limited /\ Len(bytes) >= decoder.limit
  BY <1>1, <1>4, <1>5, <1>6
<1>8. ~ NDEBUG /\ bp = "new" /\ ~ Limited => FALSE
  BY <1>1, <1>7, SerializedIsWhole
<1> QED BY <1>1, <1>2, <1>7, <1>8, ReturnKeeps

LEMMA ParseEndsKeeps == ASSUME IInv, ParseEnds PROVE IInv'
<1>1. /\ pc = "decoding" /\ decoder.next > Len(items) /\ UNCHANGED pos /\ pos = Len(bytes)
      /\ fresh' = FALSE
  BY DEF ParseEnds, In!End
<1>2. PICK whole \in BOOLEAN : /\ AtLimit \/ whole
                               /\ ParseReturns(msg.initialised, whole)
  BY DEF ParseEnds
<1>3. AtLimit => Limited /\ Len(bytes) >= decoder.limit
  BY Places DEF AtLimit
<1>4. msg.initialised \in BOOLEAN /\ fresh' \in BOOLEAN
  BY <1>1, MessageFacts
<1> QED BY <1>1, <1>2, <1>3, <1>4, ReturnKeeps

LEMMA StutterKeeps == ASSUME IInv, UNCHANGED vars PROVE IInv'
<1>1. UNCHANGED <<pc, msg, bp, bytes, items, status, calls, chunk, room, closed, pos, lent,
                  fresh, done, decoder>>
  BY DEF vars, output, input
<1>2. TypeOK' /\ decoder' \in Decoder
  BY <1>1 DEF IInv, TypeOK
<1>3. BufferHolds' /\ Stages'
  BY <1>1 DEF IInv, BufferHolds, Stages
<1>4. ReadSoFar' /\ OkIsWhole'
  BY <1>1 DEF IInv, ReadSoFar, OkIsWhole, Limited
<1>5. ~ NDEBUG => RoundTrip' /\ RefusedForCause'
  BY <1>1 DEF IInv, RoundTrip, RefusedForCause, Limited
<1> QED BY <1>2, <1>3, <1>4, <1>5 DEF IInv

LEMMA NextKeeps == ASSUME IInv, [Next]_vars PROVE IInv'
<1>1. CASE Serialize
  BY <1>1, SmallKeeps, StartWriterKeeps, EncodeKeeps, SerializedKeeps DEF Serialize
<1>2. CASE \E buffer \in PeerBuffers : Receive(buffer)
  BY <1>2, ReceiveKeeps
<1>3. CASE ReceiveNothing
  BY <1>3, ReceiveNothingKeeps
<1>4. CASE Deserialize
  BY <1>4, NothingReadKeeps, DeserializeStartKeeps, RefillKeeps, ParseFieldKeeps,
     ParseStopsKeeps, ParseFailsKeeps, ParseEndsKeeps DEF Deserialize
<1>5. CASE UNCHANGED vars
  BY <1>5, StutterKeeps
<1> QED BY <1>1, <1>2, <1>3, <1>4, <1>5 DEF Next

LEMMA Inductive == Spec => []IInv
BY InitIInv, NextKeeps, PTL DEF Spec

-----------------------------------------------------------------------------
\* Every variable keeps its type; the decoder never parses bytes the reader did not
\* deliver, nor beyond the last item.
THEOREM TypeCorrect == Spec => []TypeOK
<1>1. IInv => TypeOK
  BY DEF IInv
<1> QED BY <1>1, Inductive, PTL

\* Whether assert() is compiled or not, Deserialize says OK only if the whole buffer was
\* one complete message within the limit.
THEOREM OkOnlyOfOneMessage == Spec => []OkIsWhole
<1>1. IInv => OkIsWhole
  BY DEF IInv
<1> QED BY <1>1, Inductive, PTL

\* Where assert() is compiled, what Serialize made is read back as the same message,
\* and is read back if nothing was missing and no limit was given.
THEOREM ReadBack == ~ NDEBUG => (Spec => []RoundTrip)
<1> SUFFICES ASSUME ~ NDEBUG PROVE Spec => []RoundTrip
  OBVIOUS
<1>1. IInv => RoundTrip
  BY DEF IInv
<1> QED BY <1>1, Inductive, PTL

\* Where assert() is compiled, Deserialize refuses only for cause, and for the cause
\* it names.
THEOREM RefusesForCause == ~ NDEBUG => (Spec => []RefusedForCause)
<1> SUFFICES ASSUME ~ NDEBUG PROVE Spec => []RefusedForCause
  OBVIOUS
<1>1. IInv => RefusedForCause
  BY DEF IInv
<1> QED BY <1>1, Inductive, PTL
=============================================================================
