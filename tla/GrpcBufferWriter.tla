-------------------------- MODULE GrpcBufferWriter --------------------------
(***************************************************************************)
(* GrpcBufferWriter of src/cpp_cb/common/proto_utils.cc: the output stream *)
(* a large message is serialised to.  It fills the slice buffer of a new   *)
(* grpc_byte_buffer with slices of memory blocks of block_size_ bytes.     *)
(*                                                                         *)
(* A slice is a window of a block: block, first byte, length.  Slices of a *)
(* block share its reference count.  A tail of at most InlineSize bytes is *)
(* not shared but copied into the slice itself (block Inline), which is    *)
(* how grpc_slice_split_tail works.                                        *)
(*                                                                         *)
(* The caller is CodedOutputStream.  It fills a chunk before it asks for   *)
(* the next, and calls BackUp only straight after a Next, at most once,    *)
(* for at least the bytes it left unwritten.  After it backed up an inline *)
(* tail it does not call Next again: SerializeToZeroCopyStream backs up    *)
(* only when the whole message is written.                                 *)
(***************************************************************************)
EXTENDS Integers, Sequences, FiniteSets

CONSTANTS
  BlockSize,    \* block_size_
  InlineSize,   \* the longest slice that is kept inline
  MaxBlocks,    \* bound: blocks allocated
  MaxSlices     \* bound: slices in the buffer

ASSUME BlockSizeAssumption == BlockSize \in Nat \ {0}
ASSUME InlineSizeAssumption == InlineSize \in Nat
ASSUME BoundsAssumption == MaxBlocks \in Nat /\ MaxSlices \in Nat

Blocks == 1 .. MaxBlocks
Inline == 0          \* the block of a slice that has none
Junk == -1           \* memory nobody wrote to

VARIABLES
  slice_buffer_,   \* the slices of the byte buffer; .at is the history of
                   \* where in the message the slice begins
  slice_,          \* the slice of the last Next or BackUp
  have_backup_,
  backup_slice_,   \* the slice to lend again, if have_backup_
  byte_count_,
  mem,             \* contents of the blocks
  refs,            \* reference counts of the blocks
  allocated,       \* blocks allocated so far
  fresh,           \* Next was the last call, so that BackUp is allowed
  room,            \* bytes at the end of slice_ the caller has not written
  phase            \* "writing", "handed_over", "destroyed"

writer == <<slice_buffer_, slice_, have_backup_, backup_slice_, byte_count_>>
heap == <<mem, refs, allocated>>
vars == <<writer, heap, fresh, room, phase>>

NoSlice == [blk |-> Inline, off |-> 0, len |-> 0, at |-> 0]

Init ==
  /\ slice_buffer_ = << >>
  /\ slice_ = NoSlice
  /\ have_backup_ = FALSE
  /\ backup_slice_ = NoSlice
  /\ byte_count_ = 0
  /\ mem = [b \in Blocks |-> [i \in 0 .. BlockSize - 1 |-> Junk]]
  /\ refs = [b \in Blocks |-> 0]
  /\ allocated = 0
  /\ fresh = FALSE
  /\ room = 0
  /\ phase = "writing"

(***************************************************************************)
(* The slices of grpc: an inline slice holds no reference.                 *)
(***************************************************************************)
Ref(count, s) ==
  IF s.blk = Inline THEN count ELSE [count EXCEPT ![s.blk] = @ + 1]

Unref(count, s) ==
  IF s.blk = Inline THEN count ELSE [count EXCEPT ![s.blk] = @ - 1]

SplitHead(s, split) == [s EXCEPT !.len = split]

\* Mutant: the tail begins where the slice does.
SplitTailOverlaps(s, split) ==
  IF s.len - split <= InlineSize
    THEN [blk |-> Inline, off |-> 0, len |-> s.len - split, at |-> s.at + split]
    ELSE [s EXCEPT !.len = @ - split, !.at = @ + split]

SplitTail(s, split) ==
  IF s.len - split <= InlineSize
    THEN [blk |-> Inline, off |-> 0, len |-> s.len - split, at |-> s.at + split]
    ELSE [s EXCEPT !.off = @ + split, !.len = @ - split, !.at = @ + split]

Popped == SubSeq(slice_buffer_, 1, Len(slice_buffer_) - 1)

(***************************************************************************)
(* Next: lend the backed-up slice, or a new block.                         *)
(***************************************************************************)
Lend(s) ==
  /\ slice_' = s
  /\ byte_count_' = byte_count_ + s.len
  /\ slice_buffer_' = Append(slice_buffer_, s)
  /\ room' = s.len
  /\ fresh' = TRUE

\* Mutant: slice_ is not set to the backup, so what is left of it is lent again.
NextLendsHead ==
  /\ have_backup_
  /\ backup_slice_.blk # Inline
  /\ Lend(slice_)
  /\ have_backup_' = FALSE
  /\ UNCHANGED <<backup_slice_, heap>>

NextBackup ==
  /\ have_backup_
  /\ backup_slice_.blk # Inline
  /\ Lend(backup_slice_)
  /\ have_backup_' = FALSE
  /\ UNCHANGED <<backup_slice_, heap>>

NextBlock ==
  /\ ~ have_backup_
  /\ allocated < MaxBlocks
  /\ allocated' = allocated + 1
  /\ refs' = [refs EXCEPT ![allocated'] = 1]
  /\ Lend([blk |-> allocated', off |-> 0, len |-> BlockSize, at |-> byte_count_])
  /\ UNCHANGED <<have_backup_, backup_slice_, mem>>

CallNext ==
  /\ phase = "writing"
  /\ room = 0
  /\ Len(slice_buffer_) < MaxSlices
  /\ NextBackup \/ NextBlock
  /\ UNCHANGED phase

(***************************************************************************)
(* The caller writes the next k bytes of the message where it was told to. *)
(***************************************************************************)
Write(k) ==
  /\ phase = "writing"
  /\ k <= room
  /\ LET to == slice_.off + slice_.len - room IN
       mem' = [mem EXCEPT ![slice_.blk] =
                 [i \in DOMAIN @ |-> IF i \in to .. to + k - 1
                                       THEN (byte_count_ - room) + (i - to)
                                       ELSE @[i]]]
  /\ room' = room - k
  /\ UNCHANGED <<writer, refs, allocated, fresh, phase>>

(***************************************************************************)
(* BackUp: the last slice leaves the buffer, whole or but for its head.    *)
(***************************************************************************)
\* Mutant: only a slice that is cut is popped.
BackUpBlockKeeps(count) ==
  /\ count = BlockSize
  /\ backup_slice_' = slice_
  /\ UNCHANGED <<slice_buffer_, slice_, refs>>

BackUpBlock(count) ==
  /\ count = BlockSize
  /\ backup_slice_' = slice_
  /\ slice_buffer_' = Popped
  /\ UNCHANGED <<slice_, refs>>

BackUpTail(count) ==
  /\ count # BlockSize
  /\ backup_slice_' = SplitTail(slice_, slice_.len - count)
  /\ slice_' = SplitHead(slice_, slice_.len - count)
  /\ slice_buffer_' = Append(Popped, slice_')
  /\ refs' = Ref(refs, backup_slice_')

BackUp(count) ==
  /\ phase = "writing"
  /\ fresh
  /\ count >= room
  /\ count <= slice_.len
  /\ BackUpBlock(count) \/ BackUpTail(count)
  /\ have_backup_' = TRUE
  /\ byte_count_' = byte_count_ - count
  /\ fresh' = FALSE
  /\ room' = 0
  /\ UNCHANGED <<mem, allocated, phase>>

(***************************************************************************)
(* ~GrpcBufferWriter, and then the owner's grpc_byte_buffer_destroy.       *)
(***************************************************************************)
\* Mutants: backup_slice_ is released whether it was lent again or not; it is not
\* released.
DestructUnrefs ==
  /\ phase = "writing"
  /\ room = 0
  /\ phase' = "handed_over"
  /\ refs' = Unref(refs, backup_slice_)
  /\ UNCHANGED <<writer, mem, allocated, fresh, room>>

DestructLeaks ==
  /\ phase = "writing"
  /\ room = 0
  /\ phase' = "handed_over"
  /\ UNCHANGED <<writer, heap, fresh, room>>

Destruct ==
  /\ phase = "writing"
  /\ room = 0
  /\ phase' = "handed_over"
  /\ refs' = IF have_backup_ THEN Unref(refs, backup_slice_) ELSE refs
  /\ UNCHANGED <<writer, mem, allocated, fresh, room>>

DestroyBuffer ==
  /\ phase = "handed_over"
  /\ phase' = "destroyed"
  /\ LET held(b) == { i \in DOMAIN slice_buffer_ : slice_buffer_[i].blk = b } IN
       refs' = [b \in Blocks |-> refs[b] - Cardinality(held(b))]
  /\ UNCHANGED <<writer, mem, allocated, fresh, room>>

Next ==
  \/ CallNext
  \/ \E k \in 1 .. room : Write(k)
  \/ \E count \in 1 .. slice_.len : BackUp(count)
  \/ Destruct
  \/ DestroyBuffer

Spec == Init /\ [][Next]_vars
-----------------------------------------------------------------------------
Slice == [blk : Blocks \cup {Inline}, off : 0 .. BlockSize, len : 0 .. BlockSize,
          at : Nat]

\* Every variable has its type, and what is left of a chunk lies within it.
TypeOK ==
  /\ slice_buffer_ \in Seq(Slice)
  /\ slice_ \in Slice
  /\ have_backup_ \in BOOLEAN
  /\ backup_slice_ \in Slice
  /\ byte_count_ \in Nat
  /\ mem \in [Blocks -> [0 .. BlockSize - 1 -> Nat \cup {Junk}]]
  /\ refs \in [Blocks -> Nat]
  /\ allocated \in 0 .. MaxBlocks
  /\ fresh \in BOOLEAN
  /\ room \in 0 .. slice_.len
  /\ phase \in {"writing", "handed_over", "destroyed"}

\* Where the slice after the first i of the buffer begins in the message.
EndAt(i) == IF i = 0 THEN 0 ELSE slice_buffer_[i].at + slice_buffer_[i].len

\* The lengths of the slices add up to byte_count_, whatever was lent, cut off,
\* popped and lent again, and while BackUp is allowed the slice it is going to
\* pop is the one that Next lent.
CountMatchesBuffer ==
  /\ \A i \in DOMAIN slice_buffer_ : slice_buffer_[i].at = EndAt(i - 1)
  /\ byte_count_ = EndAt(Len(slice_buffer_))
  /\ fresh => /\ slice_buffer_ # << >>
              /\ slice_buffer_[Len(slice_buffer_)] = slice_

\* Two slices of the buffer may lie in one block, and the backed-up slice too,
\* but they never share a byte: what is written into one destroys no other.
SlicesDisjoint ==
  /\ \A i, j \in DOMAIN slice_buffer_ :
       i < j /\ slice_buffer_[i].blk = slice_buffer_[j].blk
         => slice_buffer_[i].off + slice_buffer_[i].len <= slice_buffer_[j].off
  /\ have_backup_ /\ backup_slice_.blk # Inline =>
       \A i \in DOMAIN slice_buffer_ :
         slice_buffer_[i].blk = backup_slice_.blk
           => slice_buffer_[i].off + slice_buffer_[i].len <= backup_slice_.off

\* The byte buffer holds the message: every byte the caller wrote and did not
\* back up is found where it belongs, whatever memory was lent for it.
ContentsKept ==
  \A i \in DOMAIN slice_buffer_ :
    LET s == slice_buffer_[i] IN
      \A j \in 0 .. s.len - 1 :
        s.at + j < byte_count_ - room => mem[s.blk][s.off + j] = s.at + j

\* Every reference is held by exactly one owner, a slice of the buffer or the
\* backup of a living writer, so that no block is freed in use and none leaks:
\* once writer and buffer are gone no reference is left.
Holders(b) ==
  { i \in DOMAIN slice_buffer_ : phase # "destroyed" /\ slice_buffer_[i].blk = b }
    \cup { i \in {0} : phase = "writing" /\ have_backup_ /\ backup_slice_.blk = b }

RefsExact == \A b \in Blocks : refs[b] = Cardinality(Holders(b))

\* The bytes that can be read from the byte buffer, in order.
Bytes ==
  [p \in 1 .. byte_count_ - room |->
     LET i == CHOOSE i \in DOMAIN slice_buffer_ :
                p \in slice_buffer_[i].at + 1 .. EndAt(i)
         s == slice_buffer_[i]
     IN  mem[s.blk][s.off + (p - 1 - s.at)]]

Output == INSTANCE ByteOutput WITH
  MaxChunk <- BlockSize,
  accepted <- Bytes,
  chunk <- IF fresh THEN slice_.len ELSE 0,
  closed <- phase # "writing"

\* The writer over slices of blocks is the byte sink protobuf expects: it keeps
\* what is written to the chunks it lends, and what is backed up is gone.
ImplementsOutput == Output!Spec
=============================================================================
