-------------------------- MODULE GrpcBufferReader --------------------------
(***************************************************************************)
(* GrpcBufferReader of src/cpp_cb/common/proto_utils.cc: the input stream  *)
(* protobuf parses a received message from, over the slices of a           *)
(* grpc_byte_buffer.  The bytes themselves are not kept: a data pointer is *)
(* a slice and an offset in it, and slice i holds the bytes of the stream  *)
(* from end[i-1] to end[i].                                                *)
(*                                                                         *)
(* The caller is CodedInputStream.  It calls one method at a time, and     *)
(* BackUp only straight after a Next that succeeded, with no more bytes    *)
(* than that Next delivered (the contract of ZeroCopyInputStream).         *)
(***************************************************************************)
EXTENDS Integers

CONSTANTS
  Buffers,     \* the received buffers: number n of slices, end offset of each
  SkipCounts   \* the arguments Skip is called with

\* Slices follow each other, some may be empty, and the first starts at 0.
ASSUME BuffersAssumption ==
  \A b \in Buffers :
    /\ b.n \in Nat
    /\ b.end \in [0 .. b.n -> Nat]
    /\ b.end[0] = 0
    /\ \A i, j \in 0 .. b.n : i <= j => b.end[i] <= b.end[j]

ASSUME SkipCountsAssumption == SkipCounts \subseteq Nat

VARIABLES
  buffer,         \* the grpc_byte_buffer read from
  reader_,        \* slices grpc_byte_buffer_reader_next has returned so far
  slice_,         \* the slice in use, 0 before the first
  byte_count_,    \* bytes of all the slices returned
  backup_count_,  \* bytes at the end of slice_ to deliver again
  status_,        \* whether the reader could be initialised
  got,            \* *data and *size of the last Next that returned true
  fresh,          \* that Next was the last call that ended
  skip,           \* the Skip in progress: argument, count left, ByteCount before
  done            \* the last call that ended

vars == <<buffer, reader_, slice_, byte_count_, backup_count_, status_,
          got, fresh, skip, done>>

Idle == [busy |-> FALSE, count |-> 0, left |-> 0, from |-> 0]

Ended(call, count, ok) == [call |-> call, count |-> count, ok |-> ok]

Length(i) == IF i = 0 THEN 0 ELSE buffer.end[i] - buffer.end[i - 1]

ByteCount == byte_count_ - backup_count_

\* The constructor.  Initialisation fails on a buffer that is compressed and
\* cannot be decompressed.
Init ==
  /\ buffer \in Buffers
  /\ status_ \in {"ok", "internal"}
  /\ reader_ = 0
  /\ slice_ = 0
  /\ byte_count_ = 0
  /\ backup_count_ = 0
  /\ got = [slice |-> 0, off |-> 0, size |-> 0]
  /\ fresh = FALSE
  /\ skip = Idle
  /\ done = Ended("none", 0, TRUE)

(***************************************************************************)
(* Next() returns true with Chunk, or false.  Skip calls it too, and then  *)
(* BackUp(back) before anyone else runs.                                   *)
(***************************************************************************)
\* Mutant: >= for >.
HasBackupOrZero == backup_count_ >= 0

HasBackup == backup_count_ > 0

\* Mutant: the status of the constructor is not looked at.
NextReturnsAnyway == HasBackup \/ reader_ < buffer.n

NextReturns == status_ = "ok" /\ (HasBackup \/ reader_ < buffer.n)

Chunk ==
  IF HasBackup
    THEN [slice |-> slice_, off |-> Length(slice_) - backup_count_,
          size |-> backup_count_]
    ELSE [slice |-> reader_ + 1, off |-> 0, size |-> Length(reader_ + 1)]

\* grpc_byte_buffer_reader_next: the following slice of the buffer.
TakeSlice ==
  /\ reader_' = reader_ + 1
  /\ slice_' = reader_ + 1

\* Mutant: backup_count_ is not reset.
NextKeepsBackUp(back) ==
  /\ \/ HasBackup /\ UNCHANGED <<reader_, slice_, byte_count_>>
     \/ /\ ~ HasBackup
        /\ TakeSlice
        /\ byte_count_' = byte_count_ + Chunk.size
  /\ backup_count_' = IF back = 0 THEN backup_count_ ELSE back

NextThenBackUp(back) ==
  /\ \/ HasBackup /\ UNCHANGED <<reader_, slice_, byte_count_>>
     \/ /\ ~ HasBackup
        /\ TakeSlice
        /\ byte_count_' = byte_count_ + Chunk.size
  /\ backup_count_' = back

CallNext ==
  /\ ~ skip.busy
  /\ NextReturns
  /\ NextThenBackUp(0)
  /\ got' = Chunk
  /\ fresh' = TRUE
  /\ done' = Ended("Next", 0, TRUE)
  /\ UNCHANGED <<buffer, status_, skip>>

CallNextAtEnd ==
  /\ ~ skip.busy
  /\ ~ NextReturns
  /\ fresh' = FALSE
  /\ done' = Ended("Next", 0, FALSE)
  /\ UNCHANGED <<buffer, reader_, slice_, byte_count_, backup_count_, status_,
                 got, skip>>

BackUp(count) ==
  /\ ~ skip.busy
  /\ fresh
  /\ count <= got.size
  /\ backup_count_' = count
  /\ fresh' = FALSE
  /\ done' = Ended("BackUp", count, TRUE)
  /\ UNCHANGED <<buffer, reader_, slice_, byte_count_, status_, got, skip>>

(***************************************************************************)
(* Skip(count): a loop over Next, one iteration a step.                    *)
(***************************************************************************)
SkipCall(count) ==
  /\ ~ skip.busy
  /\ skip' = [busy |-> TRUE, count |-> count, left |-> count, from |-> ByteCount]
  /\ UNCHANGED <<buffer, reader_, slice_, byte_count_, backup_count_, status_,
                 got, fresh, done>>

SkipReturn(ok) ==
  /\ skip' = Idle
  /\ fresh' = FALSE
  /\ done' = Ended("Skip", skip.count, ok)

\* Mutant: what was skipped is not subtracted.
SkipMoreOfAll ==
  /\ skip.busy
  /\ NextReturns
  /\ Chunk.size < skip.left
  /\ NextThenBackUp(0)
  /\ UNCHANGED <<buffer, status_, got, fresh, skip, done>>

\* size < count: go on with what is left to skip.
SkipMore ==
  /\ skip.busy
  /\ NextReturns
  /\ Chunk.size < skip.left
  /\ NextThenBackUp(0)
  /\ skip' = [skip EXCEPT !.left = @ - Chunk.size]
  /\ UNCHANGED <<buffer, status_, got, fresh, done>>

\* Mutant: count - size for size - count.
SkipLastSwapped ==
  /\ skip.busy
  /\ NextReturns
  /\ Chunk.size >= skip.left
  /\ NextThenBackUp(skip.left - Chunk.size)
  /\ SkipReturn(TRUE)
  /\ UNCHANGED <<buffer, status_, got>>

\* size >= count: give back what is beyond count and return true.
SkipLast ==
  /\ skip.busy
  /\ NextReturns
  /\ Chunk.size >= skip.left
  /\ NextThenBackUp(Chunk.size - skip.left)
  /\ SkipReturn(TRUE)
  /\ UNCHANGED <<buffer, status_, got>>

SkipFails ==
  /\ skip.busy
  /\ ~ NextReturns
  /\ SkipReturn(FALSE)
  /\ UNCHANGED <<buffer, reader_, slice_, byte_count_, backup_count_, status_,
                 got>>

SkipStep == SkipMore \/ SkipLast \/ SkipFails

Next ==
  \/ CallNext
  \/ CallNextAtEnd
  \/ \E count \in 0 .. got.size : BackUp(count)
  \/ \E count \in SkipCounts : SkipCall(count)
  \/ SkipStep

\* A call that was made runs to its end; the caller need not call.
Spec == Init /\ [][Next]_vars /\ WF_vars(SkipStep)
-----------------------------------------------------------------------------
\* Every variable has its type, offsets stay within the slice they point into,
\* and backup_count_ never exceeds the slice it is the tail of.
TypeOK ==
  /\ buffer \in Buffers
  /\ reader_ \in 0 .. buffer.n
  /\ slice_ \in 0 .. buffer.n
  /\ byte_count_ \in Nat
  /\ backup_count_ \in 0 .. Length(slice_)
  /\ status_ \in {"ok", "internal"}
  /\ got \in [slice : 0 .. buffer.n, off : Nat, size : Nat]
  /\ got.off + got.size = Length(got.slice)
  /\ fresh \in BOOLEAN
  /\ skip \in [busy : BOOLEAN, count : Nat, left : Nat, from : Nat]
  /\ done \in [call : {"none", "Next", "BackUp", "Skip"}, count : Nat, ok : BOOLEAN]

\* The counters agree with the slices taken from the external reader whatever
\* Next, BackUp and Skip were called in whatever order: the position that
\* ByteCount() reports lies in the slice in use, and a BackUp that is allowed
\* finds nothing still backed up that it would overwrite.
CountersAgree ==
  /\ slice_ = reader_
  /\ byte_count_ = buffer.end[slice_]
  /\ fresh /\ ~ skip.busy => got.slice = slice_ /\ backup_count_ = 0

\* A Skip in progress has passed exactly the bytes it no longer counts, so it
\* can neither lose nor repeat a byte between two of its calls of Next.
SkipExact ==
  skip.busy =>
    /\ skip.left <= skip.count
    /\ skip.from + (skip.count - skip.left) = ByteCount

\* Skip returns although it loops over slices of any size, empty ones and the
\* backed-up tail included: no run of empty chunks makes it spin.
SkipReturns == skip.busy ~> ~ skip.busy

\* Where in the stream a data pointer points.
Start(chunk) ==
  IF chunk.slice = 0 THEN 0 ELSE buffer.end[chunk.slice - 1] + chunk.off

\* The reader over slices is the byte stream protobuf expects.  A Skip takes
\* effect when it returns; a reader that could not be initialised is an empty
\* stream.
Input == INSTANCE ByteInput WITH
  Counts <- SkipCounts,
  total <- IF status_ = "ok" THEN buffer.end[buffer.n] ELSE 0,
  pos <- IF skip.busy THEN skip.from ELSE ByteCount,
  chunk <- [at |-> Start(got), size |-> got.size]

\* The behaviours of the reader are behaviours of that stream: chunks are
\* contiguous, nothing is skipped that was not asked for, and the end is
\* reported only at the end.
ImplementsInput == Input!Spec
=============================================================================
