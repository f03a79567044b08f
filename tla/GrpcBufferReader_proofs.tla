----------------------- MODULE GrpcBufferReader_proofs -----------------------
(***************************************************************************)
(* GrpcBufferReader keeps its counters exact and implements ByteInput, for *)
(* every buffer, however many slices of whatever lengths it has.           *)
(***************************************************************************)
EXTENDS GrpcBufferReader, TLAPS

IInv == TypeOK /\ CountersAgree /\ SkipExact

\* Slices do not run backwards, and none ends beyond the whole buffer.
LEMMA Offsets ==
  ASSUME NEW b \in Buffers, NEW i \in 0 .. b.n
  PROVE  /\ b.n \in Nat
         /\ b.end[i] \in Nat
         /\ b.end[0] = 0
         /\ b.end[i] <= b.end[b.n]
         /\ i > 0 => b.end[i - 1] \in Nat /\ b.end[i - 1] <= b.end[i]
         /\ i < b.n => b.end[i + 1] \in Nat /\ b.end[i] <= b.end[i + 1]
<1>1. /\ b.n \in Nat
      /\ b.end \in [0 .. b.n -> Nat]
      /\ b.end[0] = 0
      /\ \A j, k \in 0 .. b.n : j <= k => b.end[j] <= b.end[k]
  BY BuffersAssumption
<1>2. i > 0 => i - 1 \in 0 .. b.n /\ i - 1 <= i
  BY <1>1
<1>3. i < b.n => i + 1 \in 0 .. b.n /\ i <= i + 1
  BY <1>1
<1>4. b.n \in 0 .. b.n /\ i <= b.n
  BY <1>1
<1>5. QED
  BY <1>1, <1>2, <1>3, <1>4

\* The length of a slice, in terms of the offsets it lies between.
LEMMA Lengths ==
  ASSUME NEW i \in 0 .. buffer.n, buffer \in Buffers
  PROVE  /\ Length(i) \in Nat
         /\ i > 0 => Length(i) = buffer.end[i] - buffer.end[i - 1]
         /\ i = 0 => Length(i) = 0
BY Offsets DEF Length

\* What Next() returns: a chunk within a slice, at the position ByteCount().
LEMMA ChunkFacts ==
  ASSUME IInv, NextReturns
  PROVE  /\ Chunk.slice \in 1 .. buffer.n
         /\ Chunk.off \in Nat
         /\ Chunk.size \in Nat
         /\ Chunk.size <= Length(Chunk.slice)
         /\ Chunk.off + Chunk.size = Length(Chunk.slice)
         /\ Chunk \in [slice : 0 .. buffer.n, off : Nat, size : Nat]
         /\ buffer.end[Chunk.slice - 1] + Chunk.off = ByteCount
         /\ HasBackup => Chunk.slice = slice_ /\ Chunk.size = backup_count_
         /\ ~ HasBackup => Chunk.slice = reader_ + 1 /\ backup_count_ = 0
         /\ ~ HasBackup => buffer.end[reader_ + 1] = byte_count_ + Chunk.size
         /\ ~ HasBackup => reader_ + 1 <= buffer.n
         /\ ByteCount + Chunk.size <= buffer.end[buffer.n]
<1>1. /\ buffer \in Buffers
      /\ slice_ \in 0 .. buffer.n
      /\ reader_ \in 0 .. buffer.n
      /\ slice_ = reader_
      /\ byte_count_ = buffer.end[slice_]
      /\ backup_count_ \in 0 .. Length(slice_)
      /\ buffer.n \in Nat
  BY Offsets DEF IInv, TypeOK, CountersAgree
<1>2. CASE HasBackup
  <2>1. slice_ > 0 /\ Length(slice_) \in Nat
    BY <1>1, <1>2, Lengths DEF HasBackup
  <2>2. Length(slice_) = buffer.end[slice_] - buffer.end[slice_ - 1]
    BY <1>1, <2>1, Lengths
  <2>3. Chunk = [slice |-> slice_, off |-> Length(slice_) - backup_count_,
                 size |-> backup_count_]
    BY <1>2 DEF Chunk
  <2>4. QED
    BY <1>1, <1>2, <2>1, <2>2, <2>3, Offsets DEF ByteCount
<1>3. CASE ~ HasBackup
  <2>1. reader_ + 1 \in 1 .. buffer.n /\ backup_count_ = 0
    BY <1>1, <1>3, Lengths DEF NextReturns, HasBackup
  <2>2. /\ Length(reader_ + 1) \in Nat
        /\ Length(reader_ + 1) = buffer.end[reader_ + 1] - buffer.end[reader_]
    BY <1>1, <2>1, Lengths
  <2>3. Chunk = [slice |-> reader_ + 1, off |-> 0, size |-> Length(reader_ + 1)]
    BY <1>3 DEF Chunk
  <2>4. buffer.end[reader_ + 1] \in Nat /\ buffer.end[reader_] \in Nat
    BY <1>1, <2>1, Offsets
  <2>5. /\ Chunk.slice - 1 = reader_
        /\ buffer.end[reader_ + 1] <= buffer.end[buffer.n]
    BY <1>1, <2>1, <2>3, Offsets
  <2>6. QED
    BY <1>1, <1>3, <2>1, <2>2, <2>3, <2>4, <2>5 DEF ByteCount
<1>4. QED
  BY <1>2, <1>3

\* What Next() leaves behind when its last back bytes are backed up at once.
LEMMA NextFacts ==
  ASSUME IInv, NextReturns, NEW STATE back, back \in 0 .. Chunk.size, NextThenBackUp(back),
         UNCHANGED buffer
  PROVE  /\ reader_' \in 0 .. buffer.n
         /\ slice_' = reader_'
         /\ slice_' = Chunk.slice
         /\ byte_count_' = buffer.end[slice_']
         /\ byte_count_' \in Nat
         /\ backup_count_' = back
         /\ backup_count_' \in 0 .. Length(slice_')
         /\ ByteCount' = ByteCount + Chunk.size - back
         /\ Length(slice_)' = Length(slice_')
<1>1. /\ buffer \in Buffers
      /\ reader_ \in 0 .. buffer.n
      /\ slice_ = reader_
      /\ byte_count_ = buffer.end[slice_]
      /\ byte_count_ \in Nat
      /\ backup_count_ \in 0 .. Length(slice_)
      /\ buffer.n \in Nat
  BY Offsets DEF IInv, TypeOK, CountersAgree
<1>2. CASE HasBackup
  <2>1. UNCHANGED <<reader_, slice_, byte_count_>> /\ backup_count_' = back
    BY <1>2 DEF NextThenBackUp
  <2>2. QED
    BY <1>1, <1>2, <2>1, ChunkFacts, Lengths DEF ByteCount, Length
<1>3. CASE ~ HasBackup
  <2>1. /\ reader_' = reader_ + 1
        /\ slice_' = reader_ + 1
        /\ byte_count_' = byte_count_ + Chunk.size
        /\ backup_count_' = back
    BY <1>3 DEF NextThenBackUp, TakeSlice
  <2>2. QED
    BY <1>1, <1>3, <2>1, ChunkFacts, Lengths DEF ByteCount, Length
<1>4. QED
  BY <1>2, <1>3-----------------------------------------------------------------------------
LEMMA InitIInv == Init => IInv
<1> SUFFICES ASSUME Init
             PROVE  IInv
  OBVIOUS
<1>1. buffer \in Buffers /\ buffer.n \in Nat /\ buffer.end[0] = 0
  BY BuffersAssumption DEF Init
<1>2. Length(0) = 0
  BY DEF Length
<1>3. /\ got \in [slice : 0 .. buffer.n, off : Nat, size : Nat]
      /\ got.off + got.size = Length(got.slice)
  BY <1>1, <1>2 DEF Init
<1>4. /\ skip \in [busy : BOOLEAN, count : Nat, left : Nat, from : Nat]
      /\ ~ skip.busy
  BY DEF Init, Idle
<1>5. done \in [call : {"none", "Next", "BackUp", "Skip"}, count : Nat, ok : BOOLEAN]
  BY DEF Init, Ended
<1>6. /\ reader_ \in 0 .. buffer.n
      /\ slice_ \in 0 .. buffer.n
      /\ backup_count_ \in 0 .. Length(slice_)
  BY <1>1, <1>2 DEF Init
<1>7. TypeOK
  BY <1>1, <1>3, <1>4, <1>5, <1>6 DEF Init, TypeOK
<1>8. QED
  BY <1>1, <1>4, <1>7 DEF Init, IInv, CountersAgree, SkipExact

\* No step of the reader, nor of a Skip half way through its loop, disturbs it.
LEMMA NextIInv == IInv /\ [Next]_vars => IInv'
<1> SUFFICES ASSUME IInv, [Next]_vars
             PROVE  IInv'
  OBVIOUS
<1> USE DEF IInv
<1>a. /\ buffer \in Buffers
      /\ buffer.n \in Nat
      /\ byte_count_ \in Nat
      /\ backup_count_ \in Nat
      /\ backup_count_ <= byte_count_
      /\ skip \in [busy : BOOLEAN, count : Nat, left : Nat, from : Nat]
  <2>1. Length(slice_) \in Nat /\ Length(slice_) <= buffer.end[slice_]
    BY Lengths, Offsets DEF TypeOK
  <2>2. QED
    BY <2>1, Offsets DEF TypeOK, CountersAgree
<1>1. CASE CallNext
  <2>1. /\ NextReturns
        /\ NextThenBackUp(0)
        /\ got' = Chunk
        /\ fresh' = TRUE
        /\ done' = Ended("Next", 0, TRUE)
        /\ UNCHANGED <<buffer, status_, skip>>
        /\ ~ skip.busy
    BY <1>1 DEF CallNext
  <2>2. 0 \in 0 .. Chunk.size
    BY <2>1, ChunkFacts
  <2>3. TypeOK'
    BY <2>1, <2>2, <1>a, ChunkFacts, NextFacts DEF TypeOK, Ended, Length
  <2>4. CountersAgree'
    BY <2>1, <2>2, ChunkFacts, NextFacts DEF CountersAgree
  <2>5. SkipExact'
    BY <2>1 DEF SkipExact
  <2>6. QED
    BY <2>3, <2>4, <2>5
<1>2. CASE CallNextAtEnd
  BY <1>2 DEF CallNextAtEnd, TypeOK, CountersAgree, SkipExact, Ended, Length,
              ByteCount
<1>3. ASSUME NEW count \in 0 .. got.size, BackUp(count)
      PROVE  IInv'
  <2>1. got.size \in Nat /\ got.off \in Nat /\ got.slice = slice_
    BY <1>3 DEF BackUp, TypeOK, CountersAgree
  <2>2. count \in 0 .. Length(slice_)
    BY <2>1, Lengths DEF TypeOK
  <2>3. TypeOK'
    <3>1. done' \in [call : {"none", "Next", "BackUp", "Skip"}, count : Nat,
                     ok : BOOLEAN]
      BY <1>3, <2>1 DEF BackUp, Ended
    <3>2. backup_count_' \in 0 .. Length(slice_)' /\ fresh' \in BOOLEAN
      BY <1>3, <2>2 DEF BackUp, Length
    <3>3. UNCHANGED <<buffer, reader_, slice_, byte_count_, status_, got, skip>>
      BY <1>3 DEF BackUp
    <3>4. QED
      BY <3>1, <3>2, <3>3 DEF TypeOK, Length
  <2>4. CountersAgree' /\ SkipExact'
    BY <1>3 DEF BackUp, CountersAgree, SkipExact
  <2>5. QED
    BY <2>3, <2>4
<1>4. ASSUME NEW count \in SkipCounts, SkipCall(count)
      PROVE  IInv'
  <2>1. count \in Nat
    BY SkipCountsAssumption
  <2>2. skip' = [busy |-> TRUE, count |-> count, left |-> count, from |-> ByteCount]
    BY <1>4 DEF SkipCall
  <2>3. ByteCount \in Nat /\ ByteCount' = ByteCount
    BY <1>4, <1>a DEF SkipCall, ByteCount
  <2>4. TypeOK'
    BY <1>4, <2>1, <2>2, <2>3 DEF SkipCall, TypeOK, Length
  <2>5. CountersAgree'
    BY <1>4, <2>2 DEF SkipCall, CountersAgree
  <2>6. SkipExact'
    BY <2>1, <2>2, <2>3 DEF SkipExact
  <2>7. QED
    BY <2>4, <2>5, <2>6
<1>5. CASE SkipMore
  <2>1. /\ NextReturns
        /\ NextThenBackUp(0)
        /\ Chunk.size < skip.left
        /\ skip' = [skip EXCEPT !.left = @ - Chunk.size]
        /\ UNCHANGED <<buffer, status_, got, fresh, done>>
        /\ skip.busy
    BY <1>5 DEF SkipMore
  <2>2. 0 \in 0 .. Chunk.size /\ Chunk.size \in Nat
    BY <2>1, ChunkFacts
  <2>3. /\ skip'.busy
        /\ skip'.left = skip.left - Chunk.size
        /\ skip'.count = skip.count
        /\ skip'.from = skip.from
        /\ skip' \in [busy : BOOLEAN, count : Nat, left : Nat, from : Nat]
    BY <2>1, <2>2, <1>a
  <2>4. TypeOK'
    BY <2>1, <2>2, <2>3, <1>a, NextFacts DEF TypeOK, Length
  <2>5. CountersAgree'
    BY <2>1, <2>2, <2>3, NextFacts DEF CountersAgree
  <2>6. SkipExact'
    BY <2>1, <2>2, <2>3, <1>a, NextFacts DEF SkipExact, ByteCount
  <2>7. QED
    BY <2>4, <2>5, <2>6
<1>6. CASE SkipLast
  <2>1. /\ NextReturns
        /\ NextThenBackUp(Chunk.size - skip.left)
        /\ Chunk.size >= skip.left
        /\ skip' = Idle
        /\ fresh' = FALSE
        /\ done' = Ended("Skip", skip.count, TRUE)
        /\ UNCHANGED <<buffer, status_, got>>
    BY <1>6 DEF SkipLast, SkipReturn
  <2>2. Chunk.size - skip.left \in 0 .. Chunk.size
    BY <2>1, <1>a, ChunkFacts
  <2>3. TypeOK'
    BY <2>1, <2>2, <1>a, NextFacts DEF TypeOK, Length, Idle, Ended
  <2>4. CountersAgree'
    BY <2>1, <2>2, NextFacts DEF CountersAgree, Idle
  <2>5. SkipExact'
    BY <2>1 DEF SkipExact, Idle
  <2>6. QED
    BY <2>3, <2>4, <2>5
<1>7. CASE SkipFails
  BY <1>7, <1>a DEF SkipFails, SkipReturn, TypeOK, CountersAgree, SkipExact, Idle,
                    Ended, Length
<1>8. CASE UNCHANGED vars
  BY <1>8 DEF vars, TypeOK, CountersAgree, SkipExact, Length, ByteCount
<1>9. QED
  BY <1>1, <1>2, <1>3, <1>4, <1>5, <1>6, <1>7, <1>8 DEF Next, SkipStep

\* Types are kept, and backup_count_ stays within the slice it is the tail of,
\* so that the pointer Next() computes from it never leaves that slice.
THEOREM TypeCorrect == Spec => []TypeOK
<1>1. IInv => TypeOK
  BY DEF IInv
<1>2. QED
  BY InitIInv, NextIInv, <1>1, PTL DEF Spec

\* ByteCount() is the position in the stream after any sequence of calls.
THEOREM CountersExact == Spec => []CountersAgree
<1>1. IInv => CountersAgree
  BY DEF IInv
<1>2. QED
  BY InitIInv, NextIInv, <1>1, PTL DEF Spec

\* A Skip in progress has passed exactly the bytes it no longer counts.
THEOREM SkipPasses == Spec => []SkipExact
<1>1. IInv => SkipExact
  BY DEF IInv
<1>2. QED
  BY InitIInv, NextIInv, <1>1, PTL DEF Spec
-----------------------------------------------------------------------------
(***************************************************************************)
(* Refinement.                                                             *)
(***************************************************************************)
Total == IF status_ = "ok" THEN buffer.end[buffer.n] ELSE 0

Pos == IF skip.busy THEN skip.from ELSE ByteCount

\* Before the first byte a reader that failed to start has delivered none: its
\* counters never move.
Unmoved == status_ = "internal" => reader_ = 0 /\ backup_count_ = 0

LEMMA InitUnmoved == Init => Unmoved
BY DEF Init, Unmoved

LEMMA NextUnmoved == IInv /\ Unmoved /\ [Next]_vars => Unmoved'
<1> SUFFICES ASSUME IInv, Unmoved, [Next]_vars
             PROVE  Unmoved'
  OBVIOUS
<1>1. CASE CallNext \/ SkipMore \/ SkipLast
  BY <1>1 DEF CallNext, SkipMore, SkipLast, NextReturns, Unmoved
<1>2. CASE CallNextAtEnd \/ SkipFails
  BY <1>2 DEF CallNextAtEnd, SkipFails, Unmoved
<1>3. ASSUME NEW count \in 0 .. got.size, BackUp(count)
      PROVE  Unmoved'
  <2>1. status_ = "internal" => Length(slice_) = 0
    BY <1>3, Lengths DEF IInv, TypeOK, CountersAgree, Unmoved
  <2>2. status_ = "internal" => count = 0
    BY <1>3, <2>1 DEF BackUp, IInv, TypeOK, CountersAgree
  <2>3. QED
    BY <1>3, <2>2 DEF BackUp, Unmoved
<1>4. ASSUME NEW count \in SkipCounts, SkipCall(count)
      PROVE  Unmoved'
  BY <1>4 DEF SkipCall, Unmoved
<1>5. CASE UNCHANGED vars
  BY <1>5 DEF vars, Unmoved
<1>6. QED
  BY <1>1, <1>2, <1>3, <1>4, <1>5 DEF Next, SkipStep

\* A Skip in progress was asked for a legal count, and goes on only while some
\* of it is left.
SkipAsked ==
  skip.busy => /\ skip.count \in SkipCounts
               /\ skip.left > 0 \/ skip.count = 0

LEMMA InitSkipAsked == Init => SkipAsked
BY DEF Init, Idle, SkipAsked

LEMMA NextSkipAsked == IInv /\ SkipAsked /\ [Next]_vars => SkipAsked'
<1> SUFFICES ASSUME IInv, SkipAsked, [Next]_vars
             PROVE  SkipAsked'
  OBVIOUS
<1>1. CASE CallNext \/ CallNextAtEnd \/ UNCHANGED vars
  <2>1. skip' = skip
    BY <1>1 DEF CallNext, CallNextAtEnd, vars
  <2>2. QED
    BY <2>1 DEF SkipAsked
<1>2. ASSUME NEW count \in 0 .. got.size, BackUp(count)
      PROVE  SkipAsked'
  BY <1>2 DEF BackUp, SkipAsked
<1>3. ASSUME NEW count \in SkipCounts, SkipCall(count)
      PROVE  SkipAsked'
  BY <1>3, SkipCountsAssumption DEF SkipCall, SkipAsked
<1>4. CASE SkipMore
  <2>1. Chunk.size \in Nat /\ Chunk.size < skip.left
    BY <1>4, ChunkFacts DEF SkipMore
  <2>2. skip' = [skip EXCEPT !.left = @ - Chunk.size]
    BY <1>4 DEF SkipMore
  <2>3. skip \in [busy : BOOLEAN, count : Nat, left : Nat, from : Nat]
    BY DEF IInv, TypeOK
  <2>4. QED
    BY <1>4, <2>1, <2>2, <2>3 DEF SkipMore, SkipAsked
<1>5. CASE SkipLast \/ SkipFails
  <2>1. skip' = Idle
    BY <1>5 DEF SkipLast, SkipFails, SkipReturn
  <2>2. QED
    BY <2>1 DEF Idle, SkipAsked
<1>6. QED
  BY <1>1, <1>2, <1>3, <1>4, <1>5 DEF Next, SkipStep

\* Next() fails only when all the bytes of the stream were delivered.
LEMMA AtEnd ==
  ASSUME IInv, Unmoved, ~ NextReturns
  PROVE  ByteCount = Total
<1>1. CASE status_ = "ok"
  BY <1>1, Offsets DEF IInv, TypeOK, CountersAgree, NextReturns, HasBackup,
                       ByteCount, Total
<1>2. CASE status_ = "internal"
  BY <1>2, Offsets DEF IInv, TypeOK, CountersAgree, Unmoved, ByteCount, Total
<1>3. QED
  BY <1>1, <1>2 DEF IInv, TypeOK

LEMMA PosBound ==
  ASSUME IInv, Unmoved
  PROVE  /\ ByteCount \in Nat
         /\ Total \in Nat
         /\ ByteCount <= Total
<1>1. /\ buffer.end[slice_] \in Nat
      /\ buffer.end[buffer.n] \in Nat
      /\ buffer.end[slice_] <= buffer.end[buffer.n]
      /\ buffer.end[0] = 0
  BY Offsets DEF IInv, TypeOK
<1>2. Length(slice_) \in Nat /\ Length(slice_) <= buffer.end[slice_]
  BY <1>1, Lengths, Offsets DEF IInv, TypeOK
<1>3. backup_count_ \in 0 .. Length(slice_) /\ byte_count_ = buffer.end[slice_]
  BY DEF IInv, TypeOK, CountersAgree
<1>4. ByteCount \in Nat /\ Total \in Nat
  BY <1>1, <1>2, <1>3 DEF ByteCount, Total
<1>5. CASE status_ = "ok"
  BY <1>1, <1>2, <1>3, <1>4, <1>5 DEF ByteCount, Total
<1>6. CASE status_ = "internal"
  BY <1>1, <1>3, <1>4, <1>6 DEF ByteCount, Total, Unmoved, IInv, CountersAgree
<1>7. QED
  BY <1>4, <1>5, <1>6 DEF IInv, TypeOK

\* The last chunk delivered, as the abstract stream sees it.
ChunkSeen == [at |-> Start(got), size |-> got.size]

LEMMA InitRefines == Init => Input!Init
<1> SUFFICES ASSUME Init
             PROVE  Input!Init
  OBVIOUS
<1>1. Total \in Nat
  BY InitIInv, InitUnmoved, PosBound
<1>2. skip.busy = FALSE /\ ByteCount = 0
  BY DEF Init, Idle, ByteCount
<1>3. QED
  BY <1>1, <1>2 DEF Init, Input!Init, Total, Start, Ended, Input!Ended

LEMMA StepRefines == IInv /\ Unmoved /\ SkipAsked /\ [Next]_vars => [Input!Next]_(Input!vars)
<1> SUFFICES ASSUME IInv, Unmoved, SkipAsked, [Next]_vars
             PROVE  Input!Next \/ UNCHANGED Input!vars
  OBVIOUS
<1>a. /\ ByteCount \in Nat
      /\ Total \in Nat
      /\ ByteCount <= Total
  BY PosBound
<1>b. skip \in [busy : BOOLEAN, count : Nat, left : Nat, from : Nat]
  BY DEF IInv, TypeOK
<1>c. ASSUME UNCHANGED <<buffer, status_>>
      PROVE  Total' = Total
  BY <1>c DEF Total
<1>d. ASSUME UNCHANGED <<buffer, got>>
      PROVE  ChunkSeen' = ChunkSeen
  BY <1>d DEF ChunkSeen, Start
<1>1. CASE CallNext
  <2>1. /\ NextReturns
        /\ NextThenBackUp(0)
        /\ got' = Chunk
        /\ fresh' = TRUE
        /\ done' = Ended("Next", 0, TRUE)
        /\ UNCHANGED <<buffer, status_, skip>>
        /\ ~ skip.busy
    BY <1>1 DEF CallNext
  <2>2. ByteCount' = ByteCount + Chunk.size
    BY <2>1, ChunkFacts, NextFacts
  <2>3. /\ Chunk.size \in Nat
        /\ ByteCount + Chunk.size <= buffer.end[buffer.n]
        /\ status_ = "ok"
    BY <2>1, ChunkFacts DEF NextReturns
  <2>4. Chunk.size \in 0 .. Total - ByteCount
    BY <1>a, <2>3 DEF Total
  <2>5. Start(got)' = ByteCount
    BY <2>1, ChunkFacts DEF Start
  <2>6. ChunkSeen' = [at |-> ByteCount, size |-> Chunk.size]
    BY <2>1, <2>5 DEF ChunkSeen
  <2>7. Pos = ByteCount /\ Pos' = ByteCount'
    BY <2>1 DEF Pos
  <2>8. Input!Lend
    BY <2>1, <2>2, <2>4, <2>6, <2>7, <1>c
       DEF Input!Lend, Pos, Total, ChunkSeen, Ended, Input!Ended
  <2>9. QED
    BY <2>8 DEF Input!Next
<1>2. CASE CallNextAtEnd
  <2>1. /\ ~ NextReturns
        /\ fresh' = FALSE
        /\ done' = Ended("Next", 0, FALSE)
        /\ UNCHANGED <<buffer, byte_count_, backup_count_, status_, got, skip>>
        /\ ~ skip.busy
    BY <1>2 DEF CallNextAtEnd
  <2>2. Pos = Total /\ Pos' = Pos
    BY <2>1, AtEnd DEF Pos, ByteCount
  <2>3. Input!End
    BY <2>1, <2>2, <1>c, <1>d DEF Input!End, Pos, Total, ChunkSeen, Ended, Input!Ended
  <2>4. QED
    BY <2>3 DEF Input!Next
<1>3. ASSUME NEW count \in 0 .. got.size, BackUp(count)
      PROVE  Input!Next
  <2>1. /\ ~ skip.busy
        /\ fresh
        /\ backup_count_' = count
        /\ fresh' = FALSE
        /\ done' = Ended("BackUp", count, TRUE)
        /\ UNCHANGED <<buffer, byte_count_, status_, got, skip>>
    BY <1>3 DEF BackUp
  <2>2. backup_count_ = 0 /\ got.size \in Nat /\ byte_count_ \in Nat
    BY <2>1 DEF IInv, CountersAgree, TypeOK
  <2>3. ByteCount' = ByteCount - count
    BY <2>1, <2>2 DEF ByteCount
  <2>4. Pos' = Pos - count
    BY <2>1, <2>3 DEF Pos
  <2>5. Input!TakeBack
    BY <2>1, <2>4, <1>c, <1>d
       DEF Input!TakeBack, Pos, Total, ChunkSeen, Ended, Input!Ended
  <2>6. QED
    BY <2>5 DEF Input!Next
<1>4. ASSUME NEW count \in SkipCounts, SkipCall(count)
      PROVE  UNCHANGED Input!vars
  <2>1. /\ ~ skip.busy
        /\ skip'.busy = TRUE
        /\ skip'.from = ByteCount
        /\ UNCHANGED <<buffer, status_, got, fresh, done>>
    BY <1>4 DEF SkipCall
  <2>2. Pos' = Pos
    BY <2>1 DEF Pos
  <2>3. QED
    BY <2>1, <2>2, <1>c, <1>d DEF Input!vars, Pos, Total, ChunkSeen
<1>5. CASE SkipMore
  <2>1. /\ skip.busy
        /\ skip' = [skip EXCEPT !.left = @ - Chunk.size]
        /\ UNCHANGED <<buffer, status_, got, fresh, done>>
    BY <1>5 DEF SkipMore
  <2>2. skip'.busy /\ skip'.from = skip.from
    BY <2>1, <1>b
  <2>3. Pos' = Pos
    BY <2>1, <2>2 DEF Pos
  <2>4. QED
    BY <2>1, <2>3, <1>c, <1>d DEF Input!vars, Pos, Total, ChunkSeen
<1>6. CASE SkipLast
  <2>1. /\ skip.busy
        /\ NextReturns
        /\ NextThenBackUp(Chunk.size - skip.left)
        /\ Chunk.size >= skip.left
        /\ skip' = Idle
        /\ fresh' = FALSE
        /\ done' = Ended("Skip", skip.count, TRUE)
        /\ UNCHANGED <<buffer, status_, got>>
    BY <1>6 DEF SkipLast, SkipReturn
  <2>2. /\ Chunk.size \in Nat
        /\ ByteCount + Chunk.size <= buffer.end[buffer.n]
        /\ status_ = "ok"
    BY <2>1, ChunkFacts DEF NextReturns
  <2>3. Chunk.size - skip.left \in 0 .. Chunk.size
    BY <2>1, <2>2, <1>b
  <2>4. ByteCount' = ByteCount + skip.left
    BY <2>1, <2>2, <2>3, <1>a, <1>b, NextFacts
  <2>5. ByteCount' = skip.from + skip.count
    BY <2>1, <2>4, <1>a, <1>b DEF IInv, SkipExact
  <2>6. Pos = skip.from /\ Pos' = ByteCount'
    BY <2>1 DEF Pos, Idle
  <2>7. skip.count <= Total - skip.from
    BY <2>1, <2>2, <2>4, <2>5, <1>a, <1>b DEF Total
  <2>8. skip.count \in SkipCounts
    BY <2>1 DEF SkipAsked
  <2>9. Input!Skip(skip.count)
    BY <2>1, <2>5, <2>6, <2>7, <1>c, <1>d
       DEF Input!Skip, Pos, Total, ChunkSeen, Ended, Input!Ended
  <2>10. QED
    BY <2>8, <2>9 DEF Input!Next
<1>7. CASE SkipFails
  <2>1. /\ skip.busy
        /\ ~ NextReturns
        /\ skip' = Idle
        /\ fresh' = FALSE
        /\ done' = Ended("Skip", skip.count, FALSE)
        /\ UNCHANGED <<buffer, byte_count_, backup_count_, status_, got>>
    BY <1>7 DEF SkipFails, SkipReturn
  <2>2. ByteCount' = ByteCount /\ ByteCount = Total
    BY <2>1, AtEnd DEF ByteCount
  <2>3. Pos = skip.from /\ Pos' = Total
    BY <2>1, <2>2 DEF Pos, Idle
  <2>4. skip.from + (skip.count - skip.left) = Total /\ skip.left <= skip.count
    BY <2>1, <2>2 DEF IInv, SkipExact
  <2>5. skip.left > 0 \/ skip.count = 0
    BY <2>1 DEF SkipAsked
  <2>6. skip.count > Total - skip.from \/ (skip.count = 0 /\ skip.from = Total)
    BY <2>4, <2>5, <1>a, <1>b
  <2>7. skip.count \in SkipCounts
    BY <2>1 DEF SkipAsked
  <2>8. Input!Skip(skip.count)
    BY <2>1, <2>3, <2>6, <1>c, <1>d
       DEF Input!Skip, Pos, Total, ChunkSeen, Ended, Input!Ended
  <2>9. QED
    BY <2>7, <2>8 DEF Input!Next
<1>8. CASE UNCHANGED vars
  <2>1. Pos' = Pos
    BY <1>8 DEF vars, Pos, ByteCount
  <2>2. QED
    BY <1>8, <2>1, <1>c, <1>d DEF vars, Input!vars, Pos, Total, ChunkSeen
<1>9. QED
  BY <1>1, <1>2, <1>3, <1>4, <1>5, <1>6, <1>7, <1>8 DEF Next, SkipStep

\* Whatever the slices of the buffer are, the calls of the reader are calls of
\* the byte stream: chunks follow each other, BackUp returns the bytes lent
\* last, Skip passes what it was asked to, and the end is the end.
THEOREM Refinement == Spec => ImplementsInput
<1>1. Spec => [](IInv /\ Unmoved /\ SkipAsked)
  BY InitIInv, NextIInv, InitUnmoved, NextUnmoved, InitSkipAsked, NextSkipAsked,
     PTL DEF Spec
<1>2. QED
  BY <1>1, InitRefines, StepRefines, PTL DEF Spec, ImplementsInput, Input!Spec
=============================================================================
