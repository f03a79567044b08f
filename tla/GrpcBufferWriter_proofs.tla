----------------------- MODULE GrpcBufferWriter_proofs -----------------------
(***************************************************************************)
(* GrpcBufferWriter puts every byte where it belongs and holds exactly the *)
(* references it needs, for blocks of any size, any length up to which     *)
(* slices are kept inline, and any number of blocks and slices.            *)
(***************************************************************************)
EXTENDS GrpcBufferWriter, FiniteSetTheorems, SequenceTheorems, TLAPS

\* How the slices lie in their blocks and in the message.  The slice lent last
\* and the slice that is backed up reach to the end of their block, which is
\* why BackUp may compare count with block_size_ to see that it takes it whole.
Placed ==
  /\ \A i \in DOMAIN slice_buffer_ :
       /\ slice_buffer_[i].blk \in 1 .. allocated
       /\ slice_buffer_[i].off + slice_buffer_[i].len <= BlockSize
  /\ \A i, j \in DOMAIN slice_buffer_ :
       i < j => slice_buffer_[i].at + slice_buffer_[i].len <= slice_buffer_[j].at
  /\ fresh => /\ slice_.off + slice_.len = BlockSize
              /\ ~ have_backup_
  /\ ~ fresh => room = 0
  /\ have_backup_ => backup_slice_.at = byte_count_
  /\ have_backup_ /\ backup_slice_.blk # Inline =>
       /\ backup_slice_.blk \in 1 .. allocated
       /\ backup_slice_.off + backup_slice_.len = BlockSize

IInv == TypeOK /\ CountMatchesBuffer /\ SlicesDisjoint /\ ContentsKept /\ Placed

\* The last slice of a buffer is replaced by its head, or removed: what is left
\* of the others.
LEMMA PopFacts ==
  ASSUME NEW S, NEW seq \in Seq(S), seq # << >>,
         NEW p, p = SubSeq(seq, 1, Len(seq) - 1)
  PROVE  /\ p \in Seq(S)
         /\ Len(p) = Len(seq) - 1
         /\ Len(p) \in Nat
         /\ Len(seq) \in 1 .. Len(seq)
         /\ \A i \in 1 .. Len(p) : p[i] = seq[i]
<1>1. Len(seq) \in Nat /\ Len(seq) # 0
  BY EmptySeq
<1>2. \A i \in 1 .. Len(seq) - 1 : seq[i] \in S
  BY <1>1, ElementOfSeq
<1>3. /\ p \in Seq(S)
      /\ Len(p) = IF 1 <= Len(seq) - 1 THEN Len(seq) - 1 - 1 + 1 ELSE 0
      /\ \A i \in 1 .. Len(seq) - 1 - 1 + 1 : p[i] = seq[1 + i - 1]
  BY <1>1, <1>2, SubSeqProperties
<1>4. Len(p) = Len(seq) - 1
  <2>1. CASE Len(seq) = 1
    BY <1>3, <2>1
  <2>2. CASE Len(seq) > 1
    BY <1>1, <1>3, <2>2
  <2>3. \A m \in Nat \ {0} : m = 1 \/ m > 1
    OBVIOUS
  <2>4. Len(seq) = 1 \/ Len(seq) > 1
    BY <1>1, <2>3, Zenon
  <2>5. QED
    BY <2>1, <2>2, <2>4, Zenon
<1>5. \A i \in 1 .. Len(p) : 1 + i - 1 = i /\ i \in 1 .. Len(seq) - 1 - 1 + 1
  BY <1>1, <1>4
<1>6. QED
  BY <1>1, <1>3, <1>4, <1>5

\* Arithmetic on offsets and lengths.
LEMMA ShorterFits ==
  \A a, l, shorter, b \in Nat : shorter <= l /\ a + l <= b => a + shorter <= b
OBVIOUS

LEMMA LowerLimit ==
  \A x, all, count, r \in Nat : x < all - count /\ count >= r => x < all - r
OBVIOUS

\* The caller writes k bytes where r of the len bytes of a chunk are left: they
\* are the bytes from len - r on, and what is before them keeps its place.
LEMMA WindowArith ==
  ASSUME NEW off \in Nat, NEW len \in Nat, NEW at \in Nat,
         NEW r \in Nat, NEW k \in Nat, NEW j \in Nat,
         r <= len, k <= r, j < len
  PROVE  /\ j >= len - r /\ at + j < (at + len) - (r - k)
              => off + j \in (off + len - r) .. (off + len - r) + k - 1
         /\ ((at + len) - r) + ((off + j) - (off + len - r)) = at + j
         /\ j < len - r
              => /\ off + j \notin (off + len - r) .. (off + len - r) + k - 1
                 /\ at + j < (at + len) - r
OBVIOUS

\* The fields of a slice, and of the slices of the buffer.
LEMMA SliceFields ==
  ASSUME NEW s \in Slice
  PROVE  /\ s.blk \in Blocks \cup {Inline}
         /\ s.off \in Nat /\ s.off <= BlockSize
         /\ s.len \in Nat /\ s.len <= BlockSize
         /\ s.at \in Nat
         /\ BlockSize \in Nat
BY BlockSizeAssumption DEF Slice

LEMMA BufferFields ==
  ASSUME TypeOK, NEW i \in 1 .. Len(slice_buffer_)
  PROVE  /\ slice_buffer_[i] \in Slice
         /\ slice_buffer_[i].blk \in Blocks \cup {Inline}
         /\ slice_buffer_[i].off \in Nat
         /\ slice_buffer_[i].len \in Nat
         /\ slice_buffer_[i].at \in Nat
<1>1. slice_buffer_[i] \in Slice
  BY ElementOfSeq DEF TypeOK
<1>2. QED
  BY <1>1, SliceFields

LEMMA AppendFacts ==
  ASSUME NEW S, NEW seq \in Seq(S), NEW e \in S
  PROVE  /\ Append(seq, e) \in Seq(S)
         /\ Len(Append(seq, e)) = Len(seq) + 1
         /\ Len(seq) \in Nat
         /\ \A i \in 1 .. Len(seq) : Append(seq, e)[i] = seq[i]
         /\ Append(seq, e)[Len(seq) + 1] = e
OBVIOUS

LEMMA HeadFacts ==
  ASSUME NEW s \in Slice, NEW l \in 0 .. s.len
  PROVE  /\ SplitHead(s, l) \in Slice
         /\ SplitHead(s, l).len = l
         /\ SplitHead(s, l).off = s.off
         /\ SplitHead(s, l).at = s.at
         /\ SplitHead(s, l).blk = s.blk
<1>1. l \in 0 .. BlockSize
  BY SliceFields
<1>2. QED
  BY <1>1 DEF Slice, SplitHead

LEMMA TailFacts ==
  ASSUME NEW s \in Slice, s.off + s.len = BlockSize, NEW c \in 1 .. s.len
  PROVE  LET t == SplitTail(s, s.len - c) IN
           /\ t \in Slice
           /\ t.at = (s.at + s.len) - c
           /\ t.blk # Inline => /\ t.blk = s.blk
                                /\ t.off = s.off + s.len - c
                                /\ t.off + t.len = BlockSize
<1>1. /\ s.len \in Nat /\ s.off \in Nat /\ s.at \in Nat /\ BlockSize \in Nat
      /\ s.len <= BlockSize
      /\ c \in Nat /\ c <= s.len
  BY SliceFields
<1>2. /\ s.len - c \in Nat
      /\ s.len - (s.len - c) = c
      /\ s.at + (s.len - c) = (s.at + s.len) - c
      /\ s.at + (s.len - c) \in Nat
      /\ s.off + (s.len - c) = s.off + s.len - c
      /\ s.off + (s.len - c) \in 0 .. BlockSize
      /\ (s.off + (s.len - c)) + c = BlockSize
      /\ c \in 0 .. BlockSize
  BY <1>1
<1>3. CASE c <= InlineSize
  <2>1. SplitTail(s, s.len - c) =
          [blk |-> Inline, off |-> 0, len |-> c, at |-> s.at + (s.len - c)]
    BY <1>2, <1>3 DEF SplitTail
  <2>2. QED
    BY <1>1, <1>2, <2>1 DEF Slice
<1>4. CASE ~ (c <= InlineSize)
  <2>1. SplitTail(s, s.len - c) =
          [blk |-> s.blk, off |-> s.off + (s.len - c), len |-> c,
           at |-> s.at + (s.len - c)]
    BY <1>2, <1>4 DEF SplitTail, Slice
  <2>2. QED
    BY <1>1, <1>2, <2>1 DEF Slice
<1>5. QED
  BY <1>3, <1>4

LEMMA InitIInv == Init => IInv
<1> SUFFICES ASSUME Init
             PROVE  IInv
  OBVIOUS
<1>1. NoSlice \in Slice
  BY BlockSizeAssumption DEF NoSlice, Slice
<1>2. /\ mem \in [Blocks -> [0 .. BlockSize - 1 -> Nat \cup {Junk}]]
      /\ refs \in [Blocks -> Nat]
      /\ allocated \in 0 .. MaxBlocks
      /\ slice_buffer_ \in Seq(Slice)
      /\ room \in 0 .. slice_.len
  BY BoundsAssumption, EmptySeq DEF Init, NoSlice
<1>3. TypeOK
  BY <1>1, <1>2 DEF Init, TypeOK
<1>4. CountMatchesBuffer
  BY DEF Init, CountMatchesBuffer, EndAt
<1>5. SlicesDisjoint /\ ContentsKept /\ Placed
  BY DEF Init, SlicesDisjoint, ContentsKept, Placed
<1>6. QED
  BY <1>3, <1>4, <1>5 DEF IInv

\* Lending a slice that begins where the message ends, in a block whose slices
\* end before it.
LEMMA LendKeeps ==
  ASSUME IInv, room = 0, NEW STATE s, s \in Slice, Lend(s),
         s.blk # Inline,
         s.at = byte_count_,
         s.off + s.len = BlockSize,
         \A i \in DOMAIN slice_buffer_ :
           slice_buffer_[i].blk = s.blk
             => slice_buffer_[i].off + slice_buffer_[i].len <= s.off,
         UNCHANGED mem,
         have_backup_' = FALSE,
         allocated' \in allocated .. MaxBlocks,
         s.blk \in 1 .. allocated',
         refs' \in [Blocks -> Nat],
         backup_slice_' \in Slice,
         UNCHANGED phase
  PROVE  IInv'
<1> PICK n \in Nat : n = Len(slice_buffer_)
  BY LenProperties DEF IInv, TypeOK
<1>1. /\ slice_buffer_' = Append(slice_buffer_, s)
      /\ slice_' = s
      /\ byte_count_' = byte_count_ + s.len
      /\ room' = s.len
      /\ fresh' = TRUE
  BY DEF Lend
<1>2. /\ slice_buffer_ \in Seq(Slice)
      /\ DOMAIN slice_buffer_ = 1 .. n
      /\ n \in Nat
      /\ byte_count_ \in Nat
      /\ allocated \in Nat
  BY BoundsAssumption DEF IInv, TypeOK
<1>3. /\ slice_buffer_' \in Seq(Slice)
      /\ DOMAIN slice_buffer_' = 1 .. n + 1
      /\ Len(slice_buffer_') = n + 1
      /\ \A i \in 1 .. n : slice_buffer_'[i] = slice_buffer_[i]
      /\ slice_buffer_'[n + 1] = s
  BY <1>1, <1>2, AppendFacts
<1>4. /\ s.len \in Nat /\ s.off \in Nat /\ s.at \in Nat
      /\ BlockSize \in Nat
      /\ \A i \in 1 .. n : /\ slice_buffer_[i].at \in Nat
                           /\ slice_buffer_[i].len \in Nat
                           /\ slice_buffer_[i].off \in Nat
  BY SliceFields, BufferFields DEF IInv
<1>5. TypeOK'
  <2>1. byte_count_' \in Nat /\ room' \in 0 .. slice_'.len /\ fresh' \in BOOLEAN
    BY <1>1, <1>2, <1>4
  <2>2. allocated' \in 0 .. MaxBlocks
    BY <1>2, BoundsAssumption
  <2>3. QED
    BY <1>1, <1>3, <2>1, <2>2 DEF IInv, TypeOK
<1>6. CountMatchesBuffer'
  <2>1. byte_count_ = EndAt(n)
    BY DEF IInv, CountMatchesBuffer
  <2>2. \A i \in 0 .. n : EndAt(i)' = EndAt(i)
    BY <1>2, <1>3, SMTT(60) DEF EndAt
  <2>3. \A i \in 1 .. n : slice_buffer_'[i].at = EndAt(i - 1)'
    BY <1>2, <1>3, <2>2, SMTT(60) DEF IInv, CountMatchesBuffer
  <2>4. slice_buffer_'[n + 1].at = EndAt(n)'
    <3>1. EndAt(n)' = EndAt(n)
      BY <1>2, <2>2
    <3>2. QED
      BY <1>3, <2>1, <3>1
  <2>5. \A i \in 1 .. n + 1 : slice_buffer_'[i].at = EndAt(i - 1)'
    <3> TAKE i \in 1 .. n + 1
    <3>2. CASE i \in 1 .. n
      BY <2>3, <3>2
    <3>3. CASE i = n + 1
      <4>1. i - 1 = n
        BY <1>2, <3>3
      <4>2. QED
        BY <2>4, <3>3, <4>1
    <3>4. i \in 1 .. n \/ i = n + 1
      OBVIOUS
    <3>5. QED
      BY <3>2, <3>3, <3>4
  <2>6. byte_count_' = EndAt(n + 1)'
    <3>1. n + 1 # 0
      BY <1>2
    <3>2. EndAt(n + 1)' = s.at + s.len
      BY <1>3, <3>1 DEF EndAt
    <3>3. QED
      BY <1>1, <3>2
  <2>7. QED
    BY <1>1, <1>2, <1>3, <2>5, <2>6 DEF CountMatchesBuffer
<1>7. SlicesDisjoint'
  BY <1>2, <1>3, SMTT(60) DEF IInv, SlicesDisjoint
<1>8. ContentsKept'
  <2>1. byte_count_' - room' = byte_count_ - room /\ byte_count_' - room' = byte_count_
    BY <1>1, <1>2, <1>4
  <2>2. ASSUME NEW i \in 1 .. n + 1, NEW j \in 0 .. slice_buffer_'[i].len - 1,
               slice_buffer_'[i].at + j < byte_count_' - room'
        PROVE  mem'[slice_buffer_'[i].blk][slice_buffer_'[i].off + j]
                 = slice_buffer_'[i].at + j
    <3>1. CASE i = n + 1
      <4>1. slice_buffer_'[i] = s /\ j \in Nat
        BY <1>3, <1>4, <2>2, <3>1
      <4>2. s.at + j < byte_count_
        BY <2>1, <2>2, <4>1
      <4>3. QED
        BY <1>2, <4>1, <4>2
    <3>2. CASE i \in 1 .. n
      <4>1. slice_buffer_'[i] = slice_buffer_[i]
        BY <1>3, <3>2
      <4>2. slice_buffer_[i].at + j < byte_count_ - room
        BY <2>1, <2>2, <4>1
      <4>3. mem[slice_buffer_[i].blk][slice_buffer_[i].off + j] = slice_buffer_[i].at + j
        BY <1>2, <2>2, <3>2, <4>1, <4>2 DEF IInv, ContentsKept
      <4>4. QED
        BY <4>1, <4>3
    <3>3. i \in 1 .. n \/ i = n + 1
      BY <1>2
    <3>4. QED
      BY <3>1, <3>2, <3>3
  <2>3. QED
    BY <1>3, <2>2 DEF ContentsKept
<1>9. Placed'
  <2>1. \A i \in 1 .. n : slice_buffer_[i].at + slice_buffer_[i].len <= byte_count_
    <3> TAKE i \in 1 .. n
    <3>2. n # 0 /\ n \in 1 .. n /\ byte_count_ = slice_buffer_[n].at + slice_buffer_[n].len
      BY <1>2 DEF IInv, CountMatchesBuffer, EndAt
    <3>3. CASE i = n
      BY <1>2, <1>4, <3>2, <3>3
    <3>4. CASE i < n
      <4>1. slice_buffer_[i].at + slice_buffer_[i].len <= slice_buffer_[n].at
        BY <1>2, <3>2, <3>4 DEF IInv, Placed
      <4>2. QED
        BY <1>2, <1>4, <3>2, <4>1, SMTT(60)
    <3>5. QED
      BY <1>2, <3>3, <3>4
  <2>2. \A i, j \in DOMAIN slice_buffer_' :
          i < j => slice_buffer_'[i].at + slice_buffer_'[i].len <= slice_buffer_'[j].at
    BY <1>2, <1>3, <2>1, SMTT(60) DEF IInv, Placed
  <2>3. \A i \in DOMAIN slice_buffer_' :
          /\ slice_buffer_'[i].blk \in 1 .. allocated'
          /\ slice_buffer_'[i].off + slice_buffer_'[i].len <= BlockSize
    <3> TAKE i \in DOMAIN slice_buffer_'
    <3>2. CASE i \in 1 .. n
      BY <1>2, <1>3, <1>4, <3>2, SMTT(60) DEF IInv, Placed
    <3>3. CASE i = n + 1
      BY <1>3, <1>4, <3>3
    <3>4. QED
      BY <1>2, <1>3, <3>2, <3>3
  <2>4. QED
    BY <1>1, <2>2, <2>3 DEF Placed
<1>10. QED
  BY <1>5, <1>6, <1>7, <1>8, <1>9 DEF IInv

\* The slice lent last leaves the buffer, or only its head stays there, and what
\* is taken off becomes the backup.
CutBuffer(count) ==
  \/ slice_buffer_' = Popped /\ count = slice_.len
  \/ slice_buffer_' = Append(Popped, SplitHead(slice_, slice_.len - count))

LEMMA CutKeeps ==
  ASSUME IInv, fresh, NEW count \in 1 .. slice_.len, count >= room,
         CutBuffer(count),
         slice_' \in Slice,
         have_backup_' = TRUE,
         backup_slice_' \in Slice,
         backup_slice_'.at = byte_count_ - count,
         backup_slice_'.blk # Inline =>
           /\ backup_slice_'.blk = slice_.blk
           /\ backup_slice_'.off = slice_.off + slice_.len - count
           /\ backup_slice_'.off + backup_slice_'.len = BlockSize,
         byte_count_' = byte_count_ - count,
         fresh' = FALSE,
         room' = 0,
         refs' \in [Blocks -> Nat],
         UNCHANGED <<mem, allocated, phase>>
  PROVE  IInv'
<1> DEFINE cut == SplitHead(slice_, slice_.len - count)
<1> HIDE DEF cut
<1> PICK m \in Nat : m = Len(slice_buffer_)
  BY LenProperties DEF IInv, TypeOK
<1> PICK k \in Nat : k = Len(slice_buffer_')
  <2>1. Len(Popped) \in Nat /\ Len(Append(Popped, cut)) \in Nat
    <3>1. slice_buffer_ \in Seq(Slice) /\ slice_buffer_ # << >>
      BY DEF IInv, TypeOK, CountMatchesBuffer
    <3>2. Popped \in Seq(Slice) /\ Len(Popped) \in Nat
      BY <3>1, PopFacts DEF Popped
    <3>3. cut \in Slice
      <4>1. slice_ \in Slice /\ slice_.len \in Nat
        BY SliceFields DEF IInv, TypeOK
      <4>2. QED
        BY <4>1, HeadFacts DEF cut
    <3>4. QED
      BY <3>2, <3>3, AppendFacts
  <2>2. QED
    BY <2>1 DEF cut, CutBuffer
<1>1. /\ slice_buffer_ \in Seq(Slice)
      /\ slice_buffer_ # << >>
      /\ DOMAIN slice_buffer_ = 1 .. m
      /\ m \in 1 .. m
      /\ slice_buffer_[m] = slice_
      /\ byte_count_ = EndAt(m)
      /\ byte_count_ \in Nat
      /\ room \in Nat
  BY PopFacts DEF IInv, TypeOK, CountMatchesBuffer
<1>2. /\ slice_ \in Slice
      /\ slice_.len \in Nat /\ slice_.off \in Nat /\ slice_.at \in Nat
      /\ slice_.off + slice_.len = BlockSize
      /\ BlockSize \in Nat
      /\ count \in Nat
      /\ count <= slice_.len
      /\ byte_count_ = slice_.at + slice_.len
  BY <1>1, SliceFields DEF IInv, TypeOK, Placed, EndAt
<1>3. /\ cut \in Slice
      /\ cut.len = slice_.len - count
      /\ cut.off = slice_.off
      /\ cut.at = slice_.at
      /\ cut.blk = slice_.blk
  BY <1>2, HeadFacts, SMTT(60) DEF cut
<1>4. /\ Popped \in Seq(Slice)
      /\ Len(Popped) = m - 1
      /\ \A i \in 1 .. m - 1 : Popped[i] = slice_buffer_[i]
  BY <1>1, PopFacts DEF Popped
<1>5. /\ slice_buffer_' \in Seq(Slice)
      /\ DOMAIN slice_buffer_' = 1 .. k
      /\ \A i \in 1 .. m - 1 : slice_buffer_'[i] = slice_buffer_[i]
      /\ \/ k = m - 1 /\ count = slice_.len
         \/ k = m /\ slice_buffer_'[m] = cut
  <2>1. CASE slice_buffer_' = Popped /\ count = slice_.len
    BY <1>4, <2>1, SMTT(60)
  <2>2. CASE slice_buffer_' = Append(Popped, cut)
    <3>1. /\ slice_buffer_' \in Seq(Slice)
          /\ Len(slice_buffer_') = m - 1 + 1
          /\ \A i \in 1 .. m - 1 : slice_buffer_'[i] = Popped[i]
          /\ slice_buffer_'[m - 1 + 1] = cut
      BY <1>3, <1>4, <2>2, AppendFacts
    <3>2. m - 1 + 1 = m
      BY <1>1
    <3>3. QED
      BY <1>4, <3>1, <3>2, LenProperties
  <2>3. QED
    BY <2>1, <2>2 DEF cut, CutBuffer
\* Every slice left is one that was there, the last one perhaps shorter.
<1>6. /\ k <= m
      /\ \A i \in 1 .. k :
           /\ slice_buffer_'[i].blk = slice_buffer_[i].blk
           /\ slice_buffer_'[i].off = slice_buffer_[i].off
           /\ slice_buffer_'[i].at = slice_buffer_[i].at
           /\ slice_buffer_'[i].len \in Nat
           /\ slice_buffer_'[i].len <= slice_buffer_[i].len
  <2>1. k <= m
    BY <1>1, <1>5
  <2>2. \A i \in 1 .. k : i \in 1 .. m - 1 \/ (i = m /\ k = m)
    BY <1>1, <1>5
  <2>3. \A i \in 1 .. m : slice_buffer_[i].len \in Nat
    BY BufferFields DEF IInv
  <2>4. ASSUME NEW i \in 1 .. k
        PROVE  /\ slice_buffer_'[i].blk = slice_buffer_[i].blk
               /\ slice_buffer_'[i].off = slice_buffer_[i].off
               /\ slice_buffer_'[i].at = slice_buffer_[i].at
               /\ slice_buffer_'[i].len \in Nat
               /\ slice_buffer_'[i].len <= slice_buffer_[i].len
    <3>1. CASE i \in 1 .. m - 1
      <4>1. slice_buffer_'[i] = slice_buffer_[i] /\ i \in 1 .. m
        BY <1>5, <3>1
      <4>2. QED
        BY <2>3, <4>1
    <3>2. CASE i = m /\ k = m
      <4>1. slice_buffer_'[i] = cut /\ slice_buffer_[i] = slice_
        BY <1>1, <1>5, <3>2
      <4>2. QED
        BY <1>2, <1>3, <4>1, SMTT(60)
    <3>3. QED
      BY <2>2, <3>1, <3>2
  <2>5. QED
    BY <2>1, <2>4
<1>7. \A i \in 1 .. m : /\ slice_buffer_[i].at \in Nat
                       /\ slice_buffer_[i].len \in Nat
                       /\ slice_buffer_[i].off \in Nat
  BY BufferFields DEF IInv
<1>8. TypeOK'
  <2>1. byte_count_' \in Nat
    BY <1>2, SMTT(60)
  <2>2. room' \in 0 .. slice_'.len
    BY SliceFields
  <2>3. QED
    BY <1>5, <2>1, <2>2 DEF IInv, TypeOK
<1>9. CountMatchesBuffer'
  <2>1. \A i \in 0 .. m - 1 : EndAt(i)' = EndAt(i)
    BY <1>1, <1>5 DEF EndAt
  <2>2. \A i \in 1 .. k : slice_buffer_'[i].at = EndAt(i - 1)'
    <3> TAKE i \in 1 .. k
    <3>1. slice_buffer_'[i].at = slice_buffer_[i].at /\ i \in 1 .. m
      BY <1>6
    <3>2. slice_buffer_[i].at = EndAt(i - 1)
      BY <1>1, <3>1 DEF IInv, CountMatchesBuffer
    <3>3. i - 1 \in 0 .. m - 1
      BY <3>1
    <3>4. QED
      BY <2>1, <3>1, <3>2, <3>3
  <2>3. byte_count_' = EndAt(k)'
    <3>1. CASE k = m - 1 /\ count = slice_.len
      <4>1. EndAt(m - 1) = slice_.at
        BY <1>1 DEF IInv, CountMatchesBuffer
      <4>2. EndAt(k)' = EndAt(m - 1)
        BY <1>1, <2>1, <3>1
      <4>3. QED
        BY <1>2, <3>1, <4>1, <4>2
    <3>2. CASE k = m /\ slice_buffer_'[m] = cut
      <4>1. EndAt(k)' = cut.at + cut.len
        BY <1>1, <3>2 DEF EndAt
      <4>2. QED
        BY <1>2, <1>3, <4>1
    <3>3. QED
      BY <1>5, <3>1, <3>2
  <2>4. QED
    BY <1>5, <2>2, <2>3 DEF CountMatchesBuffer
<1>10. SlicesDisjoint'
  <2>1. \A i, j \in 1 .. k :
          i < j /\ slice_buffer_'[i].blk = slice_buffer_'[j].blk
            => slice_buffer_'[i].off + slice_buffer_'[i].len <= slice_buffer_'[j].off
    <3> TAKE i, j \in 1 .. k
    <3> HAVE i < j /\ slice_buffer_'[i].blk = slice_buffer_'[j].blk
    <3>1. i \in 1 .. m /\ j \in 1 .. m
      BY <1>6
    <3>2. slice_buffer_[i].off + slice_buffer_[i].len <= slice_buffer_[j].off
      BY <1>1, <1>6, <3>1 DEF IInv, SlicesDisjoint
    <3>3. /\ slice_buffer_'[i].off = slice_buffer_[i].off
          /\ slice_buffer_'[j].off = slice_buffer_[j].off
          /\ slice_buffer_'[i].len \in Nat
          /\ slice_buffer_'[i].len <= slice_buffer_[i].len
      BY <1>6, Zenon
    <3>4. /\ slice_buffer_[i].off \in Nat
          /\ slice_buffer_[i].len \in Nat
          /\ slice_buffer_[j].off \in Nat
      BY <1>7, <3>1, Zenon
    <3>5. slice_buffer_[i].off + slice_buffer_'[i].len <= slice_buffer_[j].off
      BY <3>2, <3>3, <3>4, ShorterFits, SMTT(60)
    <3>6. QED
      BY <3>3, <3>5, Zenon
  <2>2. ASSUME backup_slice_'.blk # Inline, NEW i \in 1 .. k,
               slice_buffer_'[i].blk = backup_slice_'.blk
        PROVE  slice_buffer_'[i].off + slice_buffer_'[i].len <= backup_slice_'.off
    <3>1. /\ backup_slice_'.blk = slice_.blk
          /\ backup_slice_'.off = slice_.off + slice_.len - count
      BY <2>2
    <3>2. CASE i \in 1 .. m - 1
      <4>1. i < m /\ i \in 1 .. m /\ slice_buffer_[i].blk = slice_buffer_[m].blk
        BY <1>1, <1>6, <2>2, <3>1, <3>2
      <4>2. slice_buffer_[i].off + slice_buffer_[i].len <= slice_.off
        BY <1>1, <4>1 DEF IInv, SlicesDisjoint
      <4>3. /\ slice_buffer_'[i].off = slice_buffer_[i].off
            /\ slice_buffer_'[i].len = slice_buffer_[i].len
        BY <1>5, <3>2
      <4>4. /\ slice_.off <= backup_slice_'.off
            /\ backup_slice_'.off \in Nat
            /\ slice_buffer_[i].off + slice_buffer_[i].len \in Nat
        <5>1. \A o, l, c \in Nat :
                c <= l => o <= o + l - c /\ o + l - c \in Nat /\ o + l \in Nat
          OBVIOUS
        <5>2. /\ slice_.off <= slice_.off + slice_.len - count
              /\ slice_.off + slice_.len - count \in Nat
          BY <1>2, <5>1
        <5>3. slice_buffer_[i].off + slice_buffer_[i].len \in Nat
          BY <1>7, <4>1
        <5>4. QED
          BY <3>1, <5>2, <5>3, Zenon
      <4>5. \A x, y, z \in Nat : x <= y /\ y <= z => x <= z
        OBVIOUS
      <4>6. QED
        BY <1>2, <4>2, <4>3, <4>4, <4>5, Zenon
    <3>3. CASE i = m /\ slice_buffer_'[m] = cut
      BY <1>2, <1>3, <3>1, <3>3
    <3>4. QED
      BY <1>1, <1>5, <3>2, <3>3
  <2>3. QED
    BY <1>5, <2>1, <2>2 DEF SlicesDisjoint
<1>11. ContentsKept'
  <2> SUFFICES ASSUME NEW i \in 1 .. k, NEW j \in 0 .. slice_buffer_'[i].len - 1,
                      slice_buffer_'[i].at + j < byte_count_' - room'
               PROVE  mem'[slice_buffer_'[i].blk][slice_buffer_'[i].off + j]
                        = slice_buffer_'[i].at + j
    BY <1>5 DEF ContentsKept
  <2>1. i \in 1 .. m /\ j \in 0 .. slice_buffer_[i].len - 1
    BY <1>6, <1>7
  <2>2. slice_buffer_[i].at + j < byte_count_ - room
    <3>1. slice_buffer_[i].at + j < byte_count_ - count
      BY <1>1, <1>2, <1>6, SMTT(60)
    <3>2. slice_buffer_[i].at + j \in Nat
      BY <1>7, <2>1
    <3>3. QED
      BY <1>1, <1>2, <3>1, <3>2, LowerLimit, Zenon
  <2>3. mem[slice_buffer_[i].blk][slice_buffer_[i].off + j] = slice_buffer_[i].at + j
    BY <1>1, <2>1, <2>2 DEF IInv, ContentsKept
  <2>4. QED
    BY <1>6, <2>3
<1>12. Placed'
  <2>1. \A i \in 1 .. k :
          /\ slice_buffer_'[i].blk \in 1 .. allocated
          /\ slice_buffer_'[i].off + slice_buffer_'[i].len <= BlockSize
    <3> TAKE i \in 1 .. k
    <3>1. i \in 1 .. m
      BY <1>6
    <3>2. /\ slice_buffer_[i].blk \in 1 .. allocated
          /\ slice_buffer_[i].off + slice_buffer_[i].len <= BlockSize
      BY <1>1, <3>1 DEF IInv, Placed
    <3>3. /\ slice_buffer_'[i].blk = slice_buffer_[i].blk
          /\ slice_buffer_'[i].off = slice_buffer_[i].off
          /\ slice_buffer_'[i].len \in Nat
          /\ slice_buffer_'[i].len <= slice_buffer_[i].len
      BY <1>6
    <3>4. slice_buffer_[i].off \in Nat /\ slice_buffer_[i].len \in Nat
      BY <1>7, <3>1
    <3>5. QED
      BY <1>2, <3>2, <3>3, <3>4, ShorterFits, Zenon
  <2>2. \A i, j \in 1 .. k :
          i < j => slice_buffer_'[i].at + slice_buffer_'[i].len <= slice_buffer_'[j].at
    <3> TAKE i, j \in 1 .. k
    <3> HAVE i < j
    <3>1. i \in 1 .. m /\ j \in 1 .. m
      BY <1>6
    <3>2. slice_buffer_[i].at + slice_buffer_[i].len <= slice_buffer_[j].at
      BY <1>1, <3>1 DEF IInv, Placed
    <3>3. QED
      BY <1>6, <1>7, <3>1, <3>2
  <2>3. slice_.blk \in 1 .. allocated
    BY <1>1 DEF IInv, Placed
  <2>4. QED
    BY <1>5, <2>1, <2>2, <2>3 DEF Placed
<1>13. QED
  BY <1>8, <1>9, <1>10, <1>11, <1>12 DEF IInv

\* The caller's bytes go where the slice lent last says, and nowhere else.
LEMMA WriteKeeps ==
  ASSUME IInv, NEW k \in 1 .. room, Write(k)
  PROVE  IInv'
<1> PICK m \in Nat : m = Len(slice_buffer_)
  BY LenProperties DEF IInv, TypeOK
<1> DEFINE to == slice_.off + slice_.len - room
<1>1. /\ UNCHANGED <<slice_buffer_, slice_, have_backup_, backup_slice_, byte_count_>>
      /\ UNCHANGED <<refs, allocated, fresh, phase>>
      /\ room' = room - k
      /\ mem' = [mem EXCEPT ![slice_.blk] =
                   [i \in DOMAIN @ |-> IF i \in to .. to + k - 1
                                         THEN (byte_count_ - room) + (i - to)
                                         ELSE @[i]]]
  BY DEF Write, writer
<1>2. slice_.len \in Nat /\ slice_.off \in Nat /\ slice_.at \in Nat /\ BlockSize \in Nat
  BY SliceFields DEF IInv, TypeOK
<1>3. room \in Nat /\ room > 0 /\ room <= slice_.len /\ fresh /\ byte_count_ \in Nat
  BY <1>2 DEF IInv, TypeOK, Placed
<1>4. /\ DOMAIN slice_buffer_ = 1 .. m
      /\ m \in 1 .. m
      /\ slice_buffer_[m] = slice_
      /\ byte_count_ = slice_.at + slice_.len
      /\ slice_.off + slice_.len = BlockSize
  BY <1>3, PopFacts DEF IInv, TypeOK, CountMatchesBuffer, Placed, EndAt
<1>5. slice_.blk \in Blocks /\ slice_.blk \in 1 .. allocated
  BY <1>4, BoundsAssumption DEF IInv, TypeOK, Placed, Blocks
<1>6. to \in Nat /\ byte_count_ - room \in Nat /\ k \in Nat
  BY <1>2, <1>3, <1>4, SMTT(60)
<1> HIDE DEF to
<1>7. mem \in [Blocks -> [0 .. BlockSize - 1 -> Nat \cup {Junk}]]
  BY DEF IInv, TypeOK
<1>8. /\ mem' \in [Blocks -> [0 .. BlockSize - 1 -> Nat \cup {Junk}]]
      /\ \A b \in Blocks : b # slice_.blk => mem'[b] = mem[b]
      /\ \A i \in 0 .. BlockSize - 1 :
           mem'[slice_.blk][i] = IF i \in to .. to + k - 1
                                   THEN (byte_count_ - room) + (i - to)
                                   ELSE mem[slice_.blk][i]
  <2>1. \A i \in 0 .. BlockSize - 1 :
          i \in to .. to + k - 1 => (byte_count_ - room) + (i - to) \in Nat
    BY <1>6
  <2>2. DOMAIN mem[slice_.blk] = 0 .. BlockSize - 1
    BY <1>5, <1>7
  <2> DEFINE new == [i \in 0 .. BlockSize - 1 |->
                       IF i \in to .. to + k - 1
                         THEN (byte_count_ - room) + (i - to)
                         ELSE mem[slice_.blk][i]]
  <2>3. mem' = [mem EXCEPT ![slice_.blk] = new]
    BY <1>1, <2>2 DEF to
  <2>4. new \in [0 .. BlockSize - 1 -> Nat \cup {Junk}]
    BY <1>5, <1>7, <2>1
  <2>5. \A i \in 0 .. BlockSize - 1 :
          new[i] = IF i \in to .. to + k - 1
                     THEN (byte_count_ - room) + (i - to)
                     ELSE mem[slice_.blk][i]
    OBVIOUS
  <2> HIDE DEF new
  <2>6. QED
    BY <1>5, <1>7, <2>3, <2>4, <2>5
<1>9. TypeOK'
  <2>1. room' \in 0 .. slice_.len
    BY <1>1, <1>2, <1>3, <1>6
  <2>2. QED
    BY <1>1, <1>8, <2>1 DEF IInv, TypeOK
<1>10. CountMatchesBuffer'
  BY <1>1 DEF IInv, CountMatchesBuffer, EndAt
<1>11. SlicesDisjoint'
  BY <1>1 DEF IInv, SlicesDisjoint
<1>12. Placed'
  BY <1>1, <1>3 DEF IInv, Placed
<1>13. ContentsKept'
  <2> SUFFICES ASSUME NEW i \in 1 .. m, NEW j \in 0 .. slice_buffer_[i].len - 1,
                      slice_buffer_[i].at + j < byte_count_ - (room - k)
               PROVE  mem'[slice_buffer_[i].blk][slice_buffer_[i].off + j]
                        = slice_buffer_[i].at + j
    BY <1>1, <1>4 DEF ContentsKept
  <2>1. /\ slice_buffer_[i].at \in Nat
        /\ slice_buffer_[i].len \in Nat
        /\ slice_buffer_[i].off \in Nat
        /\ slice_buffer_[i].blk \in Blocks
        /\ slice_buffer_[i].off + slice_buffer_[i].len <= BlockSize
        /\ j \in Nat
        /\ j < slice_buffer_[i].len
    <3>1. /\ slice_buffer_[i].at \in Nat
          /\ slice_buffer_[i].len \in Nat
          /\ slice_buffer_[i].off \in Nat
      BY BufferFields DEF IInv
    <3>2. /\ slice_buffer_[i].blk \in 1 .. allocated
          /\ slice_buffer_[i].off + slice_buffer_[i].len <= BlockSize
          /\ allocated \in 0 .. MaxBlocks
      BY <1>4 DEF IInv, TypeOK, Placed
    <3>3. slice_buffer_[i].blk \in Blocks
      BY <3>2, BoundsAssumption DEF Blocks
    <3>4. j \in Nat /\ j < slice_buffer_[i].len
      BY <3>1
    <3>5. QED
      BY <3>1, <3>2, <3>3, <3>4
  <2>2. slice_buffer_[i].off + j \in 0 .. BlockSize - 1
    BY <1>2, <2>1, SMTT(60)
  <2>w. i = m =>
          /\ j >= slice_.len - room => slice_.off + j \in to .. to + k - 1
          /\ (byte_count_ - room) + ((slice_.off + j) - to) = slice_.at + j
          /\ j < slice_.len - room => /\ slice_.off + j \notin to .. to + k - 1
                                    /\ slice_.at + j < byte_count_ - room
    <3> SUFFICES ASSUME i = m
                 PROVE  /\ j >= slice_.len - room => slice_.off + j \in to .. to + k - 1
                        /\ (byte_count_ - room) + ((slice_.off + j) - to) = slice_.at + j
                        /\ j < slice_.len - room =>
                             /\ slice_.off + j \notin to .. to + k - 1
                             /\ slice_.at + j < byte_count_ - room
      OBVIOUS
    <3>1. j < slice_.len /\ k <= room /\ slice_.at + j < byte_count_ - (room - k)
      BY <1>3, <1>4, <2>1
    <3>2. to = slice_.off + slice_.len - room
      BY DEF to
    <3>3. PICK off \in Nat, len \in Nat, at \in Nat, r \in Nat, all \in Nat :
            /\ off = slice_.off
            /\ len = slice_.len
            /\ at = slice_.at
            /\ r = room
            /\ all = byte_count_
      BY <1>2, <1>3, Zenon
    <3>4. to = off + len - r /\ all = at + len /\ r <= len /\ k <= r /\ j < len
      BY <1>3, <1>4, <3>1, <3>2, <3>3, Zenon
    <3>5. at + j < all - (r - k)
      BY <3>1, <3>3, Zenon
    <3>6. /\ j >= len - r /\ at + j < all - (r - k) => off + j \in to .. to + k - 1
          /\ (all - r) + ((off + j) - to) = at + j
          /\ j < len - r => off + j \notin to .. to + k - 1 /\ at + j < all - r
      <4>1. k \in Nat /\ j \in Nat
        BY <1>6, <2>1
      <4>2. r <= len /\ k <= r /\ j < len
        BY <3>4, Zenon
      <4>3. /\ j >= len - r /\ at + j < (at + len) - (r - k)
                 => off + j \in (off + len - r) .. (off + len - r) + k - 1
            /\ ((at + len) - r) + ((off + j) - (off + len - r)) = at + j
            /\ j < len - r
                 => /\ off + j \notin (off + len - r) .. (off + len - r) + k - 1
                    /\ at + j < (at + len) - r
        BY <4>1, <4>2, WindowArith, SMT
      <4>4. QED
        BY <3>4, <4>3, Zenon
    <3>7. QED
      BY <3>3, <3>5, <3>6, Zenon
  <2>3. CASE i = m /\ j >= slice_.len - room
    <3>1. slice_.off + j \in 0 .. BlockSize - 1 /\ slice_buffer_[i] = slice_
      BY <1>4, <2>2, <2>3
    <3>2. mem'[slice_.blk][slice_.off + j] = (byte_count_ - room) + ((slice_.off + j) - to)
      <4>1. slice_.off + j \in to .. to + k - 1
        BY <2>3, <2>w, Zenon
      <4>2. PICK x \in 0 .. BlockSize - 1 : x = slice_.off + j
        BY <3>1, Zenon
      <4>3. mem'[slice_.blk][x] = IF x \in to .. to + k - 1
                                    THEN (byte_count_ - room) + (x - to)
                                    ELSE mem[slice_.blk][x]
        BY <1>8, Zenon
      <4>4. x \in to .. to + k - 1
        BY <4>1, <4>2
      <4>5. mem'[slice_.blk][x] = (byte_count_ - room) + (x - to)
        BY <4>3, <4>4, Zenon
      <4>6. QED
        BY <4>2, <4>5, Zenon
    <3>3. QED
      BY <2>3, <2>w, <3>1, <3>2, Zenon
  <2>4. CASE i = m /\ j < slice_.len - room
    <3>1. mem[slice_.blk][slice_.off + j] = slice_.at + j
      BY <1>4, <2>4, <2>w DEF IInv, ContentsKept
    <3>2. QED
      BY <1>4, <1>8, <2>2, <2>4, <2>w, <3>1
  <2>5. CASE i < m
    <3>1. slice_buffer_[i].at + slice_buffer_[i].len <= slice_.at
      BY <1>4, <2>5 DEF IInv, Placed
    <3>2. slice_buffer_[i].at + j < byte_count_ - room
      <4>1. slice_buffer_[i].at + j < slice_buffer_[i].at + slice_buffer_[i].len
        BY <2>1
      <4>2. slice_.at <= byte_count_ - room
        BY <1>2, <1>3, <1>4, SMTT(60)
      <4>3. QED
        BY <1>2, <1>6, <2>1, <3>1, <4>1, <4>2, SMTT(60)
    <3>3. mem[slice_buffer_[i].blk][slice_buffer_[i].off + j] = slice_buffer_[i].at + j
      BY <1>4, <3>2 DEF IInv, ContentsKept
    <3>4. CASE slice_buffer_[i].blk # slice_.blk
      BY <1>8, <2>1, <3>3, <3>4
    <3>5. CASE slice_buffer_[i].blk = slice_.blk
      <4>1. slice_buffer_[i].off + slice_buffer_[i].len <= slice_.off
        BY <1>4, <2>5, <3>5 DEF IInv, SlicesDisjoint
      <4>2. slice_buffer_[i].off + j < to
        <5>1. slice_buffer_[i].off + j < slice_buffer_[i].off + slice_buffer_[i].len
          BY <2>1
        <5>2. slice_.off <= to
          BY <1>2, <1>3 DEF to
        <5>3. QED
          BY <1>2, <1>6, <2>1, <4>1, <5>1, <5>2, SMTT(60)
      <4>3. slice_buffer_[i].off + j \notin to .. to + k - 1
        BY <1>6, <2>1, <4>2
      <4>4. QED
        BY <1>8, <2>2, <3>3, <3>5, <4>3
    <3>6. QED
      BY <3>4, <3>5
  <2>6. QED
    BY <1>2, <1>3, <2>1, <2>3, <2>4, <2>5
<1>14. QED
  BY <1>9, <1>10, <1>11, <1>12, <1>13 DEF IInv

\* A step of none of the memory and the slices.
LEMMA PhaseKeeps ==
  ASSUME IInv, UNCHANGED <<writer, mem, allocated, fresh, room>>,
         phase' \in {"writing", "handed_over", "destroyed"},
         refs' \in [Blocks -> Nat]
  PROVE  IInv'
BY DEF IInv, writer, TypeOK, CountMatchesBuffer, EndAt, SlicesDisjoint,
       ContentsKept, Placed
-----------------------------------------------------------------------------
(***************************************************************************)
(* References.                                                             *)
(***************************************************************************)
LEMMA HoldersFinite ==
  ASSUME TypeOK, NEW b
  PROVE  /\ IsFiniteSet(Holders(b))
         /\ Holders(b) \subseteq 0 .. Len(slice_buffer_)
         /\ Cardinality(Holders(b)) \in Nat
<1>1. Len(slice_buffer_) \in Nat /\ DOMAIN slice_buffer_ = 1 .. Len(slice_buffer_)
  BY LenProperties DEF TypeOK
<1>2. Holders(b) \subseteq 0 .. Len(slice_buffer_)
  BY <1>1 DEF Holders
<1>3. IsFiniteSet(0 .. Len(slice_buffer_))
  BY <1>1, FS_Interval
<1>4. QED
  BY <1>2, <1>3, FS_Subset, FS_CardinalityType

\* A reference changes hands.
LEMMA HandOver ==
  ASSUME NEW S, IsFiniteSet(S), NEW x \in S, NEW y, y \notin S
  PROVE  Cardinality((S \ {x}) \cup {y}) = Cardinality(S)
<1>1. IsFiniteSet(S \ {x}) /\ Cardinality(S \ {x}) = Cardinality(S) - 1
  BY FS_RemoveElement
<1>2. Cardinality((S \ {x}) \cup {y}) = Cardinality(S \ {x}) + 1
  BY <1>1, FS_AddElement
<1>3. Cardinality(S) \in Nat
  BY FS_CardinalityType
<1>4. QED
  BY <1>1, <1>2, <1>3

\* Next on a backup: the reference goes from the backup to the buffer.
LEMMA NextBackupRefs ==
  ASSUME IInv, RefsExact, phase = "writing", UNCHANGED phase, NextBackup
  PROVE  RefsExact'
<1> PICK n \in Nat : n = Len(slice_buffer_)
  BY LenProperties DEF IInv, TypeOK
<1>1. /\ have_backup_ = TRUE /\ have_backup_' = FALSE
      /\ backup_slice_.blk # Inline
      /\ UNCHANGED refs
      /\ DOMAIN slice_buffer_ = 1 .. n
      /\ DOMAIN slice_buffer_' = 1 .. n + 1
      /\ \A i \in 1 .. n : slice_buffer_'[i] = slice_buffer_[i]
      /\ slice_buffer_'[n + 1] = backup_slice_
  BY AppendFacts DEF NextBackup, Lend, heap, IInv, TypeOK
<1>2. ASSUME NEW b \in Blocks
      PROVE  refs[b] = Cardinality(Holders(b)')
  <2>1. Holders(b) \subseteq 0 .. n /\ IsFiniteSet(Holders(b)) /\ n + 1 \notin 0 .. n
    BY HoldersFinite DEF IInv
  <2>2. Holders(b)' = { i \in 1 .. n + 1 : slice_buffer_'[i].blk = b }
    BY <1>1 DEF Holders
  <2>3. CASE backup_slice_.blk = b
    <3>1. Holders(b) = { i \in 1 .. n : slice_buffer_[i].blk = b } \cup {0}
      BY <1>1, <2>3 DEF Holders
    <3>2. Holders(b)' = (Holders(b) \ {0}) \cup {n + 1}
      BY <1>1, <2>2, <2>3, <3>1
    <3>3. 0 \in Holders(b) /\ n + 1 \notin Holders(b)
      BY <2>1, <3>1
    <3>4. Cardinality((Holders(b) \ {0}) \cup {n + 1}) = Cardinality(Holders(b))
      BY <2>1, <3>3, HandOver, Zenon
    <3>5. QED
      BY <3>2, <3>4 DEF RefsExact
  <2>4. CASE backup_slice_.blk # b
    <3>1. Holders(b) = { i \in 1 .. n : slice_buffer_[i].blk = b }
      BY <1>1, <2>4 DEF Holders
    <3>2. Holders(b)' = Holders(b)
      BY <1>1, <2>2, <2>4, <3>1
    <3>3. QED
      BY <3>2 DEF RefsExact
  <2>5. QED
    BY <2>3, <2>4
<1>3. QED
  BY <1>1, <1>2 DEF RefsExact

\* Next on a new block: its one reference belongs to the buffer.
LEMMA NextBlockRefs ==
  ASSUME IInv, RefsExact, phase = "writing", UNCHANGED phase, NextBlock
  PROVE  RefsExact'
<1> PICK n \in Nat : n = Len(slice_buffer_)
  BY LenProperties DEF IInv, TypeOK
<1> DEFINE new == [blk |-> allocated + 1, off |-> 0, len |-> BlockSize,
                   at |-> byte_count_]
<1>0. /\ allocated \in Nat
      /\ allocated + 1 \in Blocks
      /\ allocated' = allocated + 1
      /\ new \in Slice
      /\ new.blk = allocated + 1
      /\ have_backup_ = FALSE /\ have_backup_' = FALSE
      /\ refs' = [refs EXCEPT ![allocated + 1] = 1]
      /\ slice_buffer_' = Append(slice_buffer_, new)
  BY BoundsAssumption, BlockSizeAssumption
     DEF NextBlock, Lend, IInv, TypeOK, Slice, Blocks
<1> HIDE DEF new
<1>1. /\ DOMAIN slice_buffer_ = 1 .. n
      /\ DOMAIN slice_buffer_' = 1 .. n + 1
      /\ \A i \in 1 .. n : slice_buffer_'[i] = slice_buffer_[i]
      /\ slice_buffer_'[n + 1] = new
  BY <1>0, AppendFacts DEF IInv, TypeOK
<1>2. ASSUME NEW b \in Blocks
      PROVE  refs'[b] = Cardinality(Holders(b)')
  <2>1. Holders(b) = { i \in 1 .. n : slice_buffer_[i].blk = b }
    BY <1>0, <1>1 DEF Holders
  <2>2. Holders(b)' = { i \in 1 .. n + 1 : slice_buffer_'[i].blk = b }
    BY <1>0, <1>1 DEF Holders
  <2>3. CASE b = allocated + 1
    <3>1. \A i \in 1 .. n : slice_buffer_[i].blk # b
      BY <1>0, <1>1, <2>3 DEF IInv, Placed
    <3>2. Holders(b)' = {n + 1}
      BY <1>0, <1>1, <2>2, <2>3, <3>1
    <3>3. refs'[b] = 1
      BY <1>0, <2>3 DEF IInv, TypeOK
    <3>4. QED
      BY <3>2, <3>3, FS_Singleton
  <2>4. CASE b # allocated + 1
    <3>1. Holders(b)' = Holders(b)
      BY <1>0, <1>1, <2>1, <2>2, <2>4
    <3>2. refs'[b] = refs[b]
      BY <1>0, <2>4 DEF IInv, TypeOK
    <3>3. QED
      BY <3>1, <3>2 DEF RefsExact
  <2>5. QED
    BY <2>3, <2>4
<1>3. QED
  BY <1>2 DEF RefsExact

\* BackUp of a whole block: its reference goes from the buffer to the backup.
LEMMA BackUpBlockRefs ==
  ASSUME IInv, RefsExact, phase = "writing", UNCHANGED phase, fresh,
         have_backup_' = TRUE, NEW count \in 1 .. slice_.len, BackUpBlock(count)
  PROVE  RefsExact'
<1> PICK n \in Nat : n = Len(slice_buffer_)
  BY LenProperties DEF IInv, TypeOK
<1>0. /\ slice_buffer_ \in Seq(Slice)
      /\ slice_buffer_ # << >>
      /\ slice_buffer_' = Popped
      /\ backup_slice_' = slice_
      /\ UNCHANGED refs
      /\ have_backup_ = FALSE
  BY DEF BackUpBlock, IInv, TypeOK, CountMatchesBuffer, Placed
<1>1. /\ DOMAIN slice_buffer_ = 1 .. n
      /\ n \in 1 .. n
      /\ slice_buffer_[n] = slice_
      /\ DOMAIN slice_buffer_' = 1 .. n - 1
      /\ \A i \in 1 .. n - 1 : slice_buffer_'[i] = slice_buffer_[i]
  BY <1>0, PopFacts DEF IInv, CountMatchesBuffer, Popped
<1>2. ASSUME NEW b \in Blocks
      PROVE  refs[b] = Cardinality(Holders(b)')
  <2>1. IsFiniteSet(Holders(b))
    BY HoldersFinite DEF IInv
  <2>2. Holders(b) = { i \in 1 .. n : slice_buffer_[i].blk = b }
    BY <1>0, <1>1 DEF Holders
  <2>3. CASE slice_.blk = b
    <3>1. Holders(b)' = { i \in 1 .. n - 1 : slice_buffer_'[i].blk = b } \cup {0}
      BY <1>0, <1>1, <2>3 DEF Holders
    <3>2. Holders(b)' = (Holders(b) \ {n}) \cup {0}
      BY <1>1, <2>2, <3>1
    <3>3. n \in Holders(b) /\ 0 \notin Holders(b)
      BY <1>1, <2>2, <2>3
    <3>4. Cardinality((Holders(b) \ {n}) \cup {0}) = Cardinality(Holders(b))
      BY <2>1, <3>3, HandOver, Zenon
    <3>5. QED
      BY <3>2, <3>4 DEF RefsExact
  <2>4. CASE slice_.blk # b
    <3>1. Holders(b)' = { i \in 1 .. n - 1 : slice_buffer_'[i].blk = b }
      BY <1>0, <1>1, <2>4 DEF Holders
    <3>2. Holders(b)' = Holders(b)
      BY <1>1, <2>2, <2>4, <3>1
    <3>3. QED
      BY <3>2 DEF RefsExact
  <2>5. QED
    BY <2>3, <2>4
<1>3. QED
  BY <1>0, <1>2 DEF RefsExact

\* BackUp of a tail: the head keeps the reference, a shared tail gets its own.
LEMMA BackUpTailRefs ==
  ASSUME IInv, RefsExact, phase = "writing", UNCHANGED phase, fresh,
         have_backup_' = TRUE, NEW count \in 1 .. slice_.len, BackUpTail(count)
  PROVE  RefsExact' /\ refs' \in [Blocks -> Nat]
<1> PICK n \in Nat : n = Len(slice_buffer_)
  BY LenProperties DEF IInv, TypeOK
<1>0. /\ slice_buffer_ \in Seq(Slice)
      /\ slice_buffer_ # << >>
      /\ slice_buffer_' = Append(Popped, slice_')
      /\ slice_' = SplitHead(slice_, slice_.len - count)
      /\ refs' = Ref(refs, backup_slice_')
      /\ have_backup_ = FALSE
      /\ slice_ \in Slice
      /\ refs \in [Blocks -> Nat]
  BY DEF BackUpTail, IInv, TypeOK, CountMatchesBuffer, Placed
<1>1. slice_' \in Slice /\ slice_'.blk = slice_.blk
  <2>1. slice_.len - count \in 0 .. slice_.len
    BY <1>0, SliceFields
  <2>2. QED
    BY <1>0, <2>1, HeadFacts
<1>2. /\ DOMAIN slice_buffer_ = 1 .. n
      /\ n \in 1 .. n
      /\ slice_buffer_[n] = slice_
      /\ Popped \in Seq(Slice)
      /\ Len(Popped) = n - 1
      /\ \A i \in 1 .. n - 1 : Popped[i] = slice_buffer_[i]
  BY <1>0, PopFacts DEF IInv, CountMatchesBuffer, Popped
<1>3. /\ DOMAIN slice_buffer_' = 1 .. n
      /\ \A i \in 1 .. n : slice_buffer_'[i].blk = slice_buffer_[i].blk
  <2>1. /\ Len(slice_buffer_') = n - 1 + 1
        /\ slice_buffer_' \in Seq(Slice)
        /\ \A i \in 1 .. n - 1 : slice_buffer_'[i] = Popped[i]
        /\ slice_buffer_'[n - 1 + 1] = slice_'
    BY <1>0, <1>1, <1>2, AppendFacts
  <2>2. n - 1 + 1 = n /\ \A i \in 1 .. n : i \in 1 .. n - 1 \/ i = n
    OBVIOUS
  <2>3. QED
    BY <1>1, <1>2, <2>1, <2>2, LenProperties
<1>4. ASSUME NEW b \in Blocks
      PROVE  refs'[b] = Cardinality(Holders(b)')
  <2>1. IsFiniteSet(Holders(b)) /\ refs[b] = Cardinality(Holders(b))
    BY HoldersFinite DEF IInv, RefsExact
  <2>2. Holders(b) = { i \in 1 .. n : slice_buffer_[i].blk = b }
    BY <1>0, <1>2 DEF Holders
  <2>3. CASE backup_slice_'.blk = b
    <3>1. Holders(b)' = { i \in 1 .. n : slice_buffer_'[i].blk = b } \cup {0}
      BY <1>3, <2>3 DEF Holders
    <3>2. Holders(b)' = Holders(b) \cup {0} /\ 0 \notin Holders(b)
      BY <1>3, <2>2, <3>1
    <3>3. backup_slice_'.blk # Inline
      BY <2>3 DEF Blocks, Inline
    <3>4. refs'[b] = refs[b] + 1
      BY <1>0, <2>3, <3>3 DEF Ref
    <3>5. Cardinality(Holders(b) \cup {0}) = Cardinality(Holders(b)) + 1
      BY <2>1, <3>2, FS_AddElement
    <3>6. QED
      BY <2>1, <3>2, <3>4, <3>5
  <2>4. CASE backup_slice_'.blk # b
    <3>1. Holders(b)' = { i \in 1 .. n : slice_buffer_'[i].blk = b }
      BY <1>3, <2>4 DEF Holders
    <3>2. Holders(b)' = Holders(b)
      BY <1>3, <2>2, <3>1
    <3>3. refs'[b] = refs[b]
      BY <1>0, <2>4 DEF Ref
    <3>4. QED
      BY <2>1, <3>2, <3>3
  <2>5. QED
    BY <2>3, <2>4
<1>5. refs' \in [Blocks -> Nat]
  <2>1. CASE backup_slice_'.blk = Inline
    BY <1>0, <2>1 DEF Ref
  <2>2. CASE backup_slice_'.blk # Inline
    <3>1. refs' = [refs EXCEPT ![backup_slice_'.blk] = @ + 1]
      BY <1>0, <2>2 DEF Ref
    <3>2. \A b \in Blocks : refs[b] + 1 \in Nat /\ refs[b] \in Nat
      BY <1>0
    <3>3. QED
      BY <1>0, <3>1, <3>2
  <2>3. QED
    BY <2>1, <2>2
<1>6. QED
  BY <1>4, <1>5 DEF RefsExact

\* The writer goes: the backup's reference with it.
LEMMA DestructRefs ==
  ASSUME IInv, RefsExact, Destruct
  PROVE  RefsExact' /\ refs' \in [Blocks -> Nat]
<1>1. /\ phase = "writing" /\ phase' = "handed_over"
      /\ UNCHANGED <<slice_buffer_, have_backup_, backup_slice_>>
      /\ refs' = IF have_backup_ THEN Unref(refs, backup_slice_) ELSE refs
      /\ refs \in [Blocks -> Nat]
  BY DEF Destruct, writer, IInv, TypeOK
<1>2. ASSUME NEW b \in Blocks
      PROVE  refs'[b] = Cardinality(Holders(b)') /\ refs'[b] \in Nat
  <2>1. /\ IsFiniteSet(Holders(b))
        /\ refs[b] = Cardinality(Holders(b))
        /\ Cardinality(Holders(b)) \in Nat
        /\ 0 \notin DOMAIN slice_buffer_
    BY HoldersFinite, LenProperties DEF IInv, RefsExact, TypeOK
  <2>2. Holders(b)' = Holders(b) \ {0}
    BY <1>1, <2>1 DEF Holders
  <2>3. Cardinality(Holders(b) \ {0}) = IF 0 \in Holders(b)
                                         THEN Cardinality(Holders(b)) - 1
                                         ELSE Cardinality(Holders(b))
    BY <2>1, FS_RemoveElement
  <2>4. IsFiniteSet(Holders(b) \ {0}) /\ Cardinality(Holders(b) \ {0}) \in Nat
    BY <2>1, FS_RemoveElement, FS_CardinalityType
  <2>5. CASE have_backup_ /\ backup_slice_.blk = b
    <3>1. 0 \in Holders(b)
      BY <1>1, <2>5 DEF Holders
    <3>2. backup_slice_.blk # Inline
      BY <2>5 DEF Blocks, Inline
    <3>3. refs'[b] = refs[b] - 1
      BY <1>1, <2>5, <3>2 DEF Unref
    <3>4. QED
      BY <2>1, <2>2, <2>3, <2>4, <3>1, <3>3
  <2>6. CASE ~ (have_backup_ /\ backup_slice_.blk = b)
    <3>1. 0 \notin Holders(b)
      BY <2>1, <2>6 DEF Holders
    <3>2. refs'[b] = refs[b]
      BY <1>1, <2>6 DEF Unref
    <3>3. QED
      BY <2>1, <2>2, <2>3, <3>1, <3>2
  <2>7. QED
    BY <2>5, <2>6
<1>3. refs' \in [Blocks -> Nat]
  <2>1. refs' = [b \in Blocks |-> refs'[b]]
    BY <1>1 DEF Unref
  <2>2. QED
    BY <1>2, <2>1
<1>4. QED
  BY <1>2, <1>3 DEF RefsExact

\* The owner destroys the buffer: every block loses its last reference.
LEMMA DestroyRefs ==
  ASSUME IInv, RefsExact, DestroyBuffer
  PROVE  RefsExact' /\ refs' \in [Blocks -> Nat]
<1>1. /\ phase = "handed_over" /\ phase' = "destroyed"
      /\ refs' = [b \in Blocks |->
                   refs[b] - Cardinality({ i \in DOMAIN slice_buffer_ :
                                             slice_buffer_[i].blk = b })]
  BY DEF DestroyBuffer
<1>2. ASSUME NEW b \in Blocks
      PROVE  refs'[b] = 0 /\ Holders(b)' = {}
  <2>1. Holders(b) = { i \in DOMAIN slice_buffer_ : slice_buffer_[i].blk = b }
    BY <1>1 DEF Holders
  <2>2. refs[b] = Cardinality(Holders(b)) /\ Cardinality(Holders(b)) \in Nat
    BY HoldersFinite DEF IInv, RefsExact
  <2>3. refs'[b] = 0
    BY <1>1, <2>1, <2>2
  <2>4. Holders(b)' = {}
    BY <1>1 DEF Holders
  <2>5. QED
    BY <2>3, <2>4
<1>3. refs' \in [Blocks -> Nat]
  <2>1. refs' = [b \in Blocks |-> refs'[b]]
    BY <1>1
  <2>2. \A b \in Blocks : refs'[b] \in Nat
    BY <1>2
  <2>3. QED
    BY <2>1, <2>2
<1>4. QED
  BY <1>2, <1>3, FS_EmptySet DEF RefsExact
-----------------------------------------------------------------------------
LEMMA InitRefs == Init => RefsExact
<1> SUFFICES ASSUME Init, NEW b \in Blocks
             PROVE  refs[b] = Cardinality(Holders(b))
  BY DEF RefsExact
<1>1. Holders(b) = {} /\ refs[b] = 0
  BY DEF Init, Holders
<1>2. QED
  BY <1>1, FS_EmptySet

LEMMA NextKeeps == IInv /\ RefsExact /\ [Next]_vars => IInv' /\ RefsExact'
<1> SUFFICES ASSUME IInv, RefsExact, [Next]_vars
             PROVE  IInv' /\ RefsExact'
  OBVIOUS
<1>1. CASE CallNext
  <2>1. /\ phase = "writing" /\ UNCHANGED phase
        /\ room = 0
        /\ NextBackup \/ NextBlock
    BY <1>1 DEF CallNext
  <2>2. CASE NextBackup
    <3>1. /\ Lend(backup_slice_)
          /\ have_backup_
          /\ backup_slice_.blk # Inline
          /\ have_backup_' = FALSE
          /\ UNCHANGED <<backup_slice_, mem, refs, allocated>>
      BY <2>2 DEF NextBackup, heap
    <3>2. /\ backup_slice_ \in Slice
          /\ backup_slice_.at = byte_count_
          /\ backup_slice_.off + backup_slice_.len = BlockSize
          /\ backup_slice_.blk \in 1 .. allocated
          /\ refs \in [Blocks -> Nat]
          /\ allocated \in allocated .. MaxBlocks
      BY <3>1, BoundsAssumption DEF IInv, TypeOK, Placed
    <3>3. \A i \in DOMAIN slice_buffer_ :
            slice_buffer_[i].blk = backup_slice_.blk
              => slice_buffer_[i].off + slice_buffer_[i].len <= backup_slice_.off
      BY <3>1 DEF IInv, SlicesDisjoint
    <3>4. IInv'
      BY <2>1, <3>1, <3>2, <3>3, LendKeeps
    <3>5. RefsExact'
      BY <2>1, <2>2, NextBackupRefs
    <3>6. QED
      BY <3>4, <3>5
  <2>3. CASE NextBlock
    <3> DEFINE new == [blk |-> allocated + 1, off |-> 0, len |-> BlockSize,
                       at |-> byte_count_]
    <3>1. /\ Lend(new)
          /\ have_backup_' = FALSE
          /\ allocated' = allocated + 1
          /\ allocated < MaxBlocks
          /\ refs' = [refs EXCEPT ![allocated + 1] = 1]
          /\ UNCHANGED <<backup_slice_, mem>>
      BY <2>3 DEF NextBlock, IInv, TypeOK
    <3>2. /\ new \in Slice
          /\ new.at = byte_count_
          /\ new.off + new.len = BlockSize
          /\ new.blk = allocated + 1
          /\ new.blk # Inline
          /\ new.blk \in 1 .. allocated'
          /\ allocated' \in allocated .. MaxBlocks
      BY <3>1, BoundsAssumption, BlockSizeAssumption
         DEF IInv, TypeOK, Slice, Blocks, Inline
    <3>3. refs' \in [Blocks -> Nat] /\ backup_slice_' \in Slice
      BY <3>1 DEF IInv, TypeOK
    <3>4. \A i \in DOMAIN slice_buffer_ : slice_buffer_[i].blk # allocated + 1
      BY DEF IInv, TypeOK, Placed
    <3> HIDE DEF new
    <3>5. IInv'
      BY <2>1, <3>1, <3>2, <3>3, <3>4, LendKeeps
    <3>6. RefsExact'
      BY <2>1, <2>3, NextBlockRefs
    <3>7. QED
      BY <3>5, <3>6
  <2>4. QED
    BY <2>1, <2>2, <2>3
<1>2. ASSUME NEW k \in 1 .. room, Write(k)
      PROVE  IInv' /\ RefsExact'
  <2>1. UNCHANGED <<slice_buffer_, have_backup_, backup_slice_, refs, phase>>
    BY <1>2 DEF Write, writer
  <2>2. RefsExact'
    BY <2>1 DEF RefsExact, Holders
  <2>3. QED
    BY <1>2, <2>2, WriteKeeps
<1>3. ASSUME NEW count \in 1 .. slice_.len, BackUp(count)
      PROVE  IInv' /\ RefsExact'
  <2>1. /\ phase = "writing" /\ fresh
        /\ count >= room /\ count <= slice_.len
        /\ BackUpBlock(count) \/ BackUpTail(count)
        /\ have_backup_' = TRUE
        /\ byte_count_' = byte_count_ - count
        /\ fresh' = FALSE
        /\ room' = 0
        /\ UNCHANGED <<mem, allocated, phase>>
    BY <1>3 DEF BackUp
  <2>2. /\ slice_ \in Slice
        /\ slice_.len \in Nat /\ slice_.off \in Nat /\ slice_.at \in Nat
        /\ slice_.len <= BlockSize /\ BlockSize \in Nat
        /\ slice_.off + slice_.len = BlockSize
        /\ byte_count_ = slice_.at + slice_.len
        /\ slice_.blk # Inline
    <3>1. slice_ \in Slice /\ slice_.off + slice_.len = BlockSize
      BY <2>1 DEF IInv, TypeOK, Placed
    <3>2. Len(slice_buffer_) \in Nat /\ Len(slice_buffer_) # 0
      BY <2>1, EmptySeq DEF IInv, TypeOK, CountMatchesBuffer
    <3>3. byte_count_ = slice_.at + slice_.len
      BY <2>1, <3>2 DEF IInv, CountMatchesBuffer, EndAt
    <3>4. slice_buffer_[Len(slice_buffer_)].blk \in 1 .. allocated
      BY <3>2, LenProperties DEF IInv, TypeOK, Placed
    <3>5. slice_.blk # Inline
      BY <2>1, <3>4 DEF IInv, TypeOK, CountMatchesBuffer, Inline
    <3>6. QED
      BY <3>1, <3>3, <3>5, SliceFields
  <2>3. CASE BackUpBlock(count)
    <3>1. /\ count = BlockSize
          /\ backup_slice_' = slice_
          /\ slice_buffer_' = Popped
          /\ UNCHANGED <<slice_, refs>>
      BY <2>3 DEF BackUpBlock
    <3>2. count = slice_.len
      BY <2>1, <2>2, <3>1
    <3>3. backup_slice_'.at = byte_count_ - count
      BY <2>2, <3>1, <3>2
    <3>4. backup_slice_'.off = slice_.off + slice_.len - count
      BY <2>2, <3>1, <3>2
    <3>5. CutBuffer(count)
      BY <3>1, <3>2 DEF CutBuffer
    <3>6. slice_' \in Slice /\ backup_slice_' \in Slice /\ refs' \in [Blocks -> Nat]
      BY <2>2, <3>1 DEF IInv, TypeOK
    <3>7. IInv'
      BY <2>1, <2>2, <3>1, <3>3, <3>4, <3>5, <3>6, CutKeeps
    <3>8. QED
      BY <2>1, <2>3, <3>7, BackUpBlockRefs
  <2>4. CASE BackUpTail(count)
    <3>1. /\ backup_slice_' = SplitTail(slice_, slice_.len - count)
          /\ slice_' = SplitHead(slice_, slice_.len - count)
          /\ slice_buffer_' = Append(Popped, slice_')
      BY <2>4 DEF BackUpTail
    <3>2. slice_.len - count \in 0 .. slice_.len
      BY <2>1, <2>2
    <3>3. /\ backup_slice_' \in Slice
          /\ backup_slice_'.at = byte_count_ - count
          /\ backup_slice_'.blk # Inline =>
               /\ backup_slice_'.blk = slice_.blk
               /\ backup_slice_'.off = slice_.off + slice_.len - count
               /\ backup_slice_'.off + backup_slice_'.len = BlockSize
      BY <2>1, <2>2, <3>1, TailFacts
    <3>4. CutBuffer(count) /\ slice_' \in Slice
      BY <2>2, <3>1, <3>2, HeadFacts DEF CutBuffer
    <3>5. RefsExact' /\ refs' \in [Blocks -> Nat]
      BY <2>1, <2>4, BackUpTailRefs
    <3>6. IInv'
      BY <2>1, <2>2, <3>3, <3>4, <3>5, CutKeeps
    <3>7. QED
      BY <3>5, <3>6
  <2>5. QED
    BY <2>1, <2>3, <2>4
<1>4. CASE Destruct
  <2>1. /\ UNCHANGED <<writer, mem, allocated, fresh, room>>
        /\ phase' = "handed_over"
    BY <1>4 DEF Destruct
  <2>2. RefsExact' /\ refs' \in [Blocks -> Nat]
    BY <1>4, DestructRefs
  <2>3. QED
    BY <2>1, <2>2, PhaseKeeps
<1>5. CASE DestroyBuffer
  <2>1. /\ UNCHANGED <<writer, mem, allocated, fresh, room>>
        /\ phase' = "destroyed"
    BY <1>5 DEF DestroyBuffer
  <2>2. RefsExact' /\ refs' \in [Blocks -> Nat]
    BY <1>5, DestroyRefs
  <2>3. QED
    BY <2>1, <2>2, PhaseKeeps
<1>6. CASE UNCHANGED vars
  <2>1. /\ UNCHANGED <<writer, mem, allocated, fresh, room>>
        /\ phase' \in {"writing", "handed_over", "destroyed"}
        /\ refs' \in [Blocks -> Nat]
    BY <1>6 DEF vars, heap, IInv, TypeOK
  <2>2. RefsExact'
    BY <1>6 DEF vars, heap, writer, RefsExact, Holders
  <2>3. QED
    BY <2>1, <2>2, PhaseKeeps
<1>7. QED
  BY <1>1, <1>2, <1>3, <1>4, <1>5, <1>6 DEF Next

\* The types are kept, and no slice, pointer or count leaves its block.
THEOREM TypeCorrect == Spec => []TypeOK
<1>1. IInv => TypeOK
  BY DEF IInv
<1>2. QED
  BY InitIInv, InitRefs, NextKeeps, <1>1, PTL DEF Spec

\* Whatever is lent, written and backed up, in whatever order: the slices of the
\* byte buffer add up to byte_count_.
THEOREM BytesCounted == Spec => []CountMatchesBuffer
<1>1. IInv => CountMatchesBuffer
  BY DEF IInv
<1>2. QED
  BY InitIInv, InitRefs, NextKeeps, <1>1, PTL DEF Spec

\* No two slices share memory, nor does the backed-up one with those before it.
THEOREM SlicesApart == Spec => []SlicesDisjoint
<1>1. IInv => SlicesDisjoint
  BY DEF IInv
<1>2. QED
  BY InitIInv, InitRefs, NextKeeps, <1>1, PTL DEF Spec

\* Every byte the caller wrote and kept is found where it belongs.
THEOREM ContentsCorrect == Spec => []ContentsKept
<1>1. IInv => ContentsKept
  BY DEF IInv
<1>2. QED
  BY InitIInv, InitRefs, NextKeeps, <1>1, PTL DEF Spec

\* Every block is referenced exactly as often as a slice holds it: none is freed
\* while it is in use, and none is left when writer and buffer are gone.
THEOREM ReferencesExact == Spec => []RefsExact
BY InitIInv, InitRefs, NextKeeps, PTL DEF Spec

-----------------------------------------------------------------------------
(***************************************************************************)
(* GrpcBufferWriter implements ByteOutput, for blocks of any size: what    *)
(* can be read from the slices of the byte buffer is, at every moment, the *)
(* message as far as it is written.  Besides the invariant above this      *)
(* needs that the slices leave no gap, and that what is backed up is not   *)
(* empty, or an empty chunk would be lent.                                 *)
(***************************************************************************)
\* A byte of the message lies in slice i of the buffer.
In(p, i) == p \in slice_buffer_[i].at + 1 .. EndAt(i)

Covered ==
  /\ \A p \in 1 .. byte_count_ : \E i \in DOMAIN slice_buffer_ : In(p, i)
  /\ have_backup_ => backup_slice_.len # 0

\* The first n bytes of the message.
Message(n) == [p \in 1 .. n |-> p - 1]

-----------------------------------------------------------------------------
(***************************************************************************)
(* The message is a sequence; it is written to and cut at its end.         *)
(***************************************************************************)
LEMMA MessageFacts ==
  ASSUME NEW n \in Nat
  PROVE  /\ Message(n) \in Seq(Nat)
         /\ Len(Message(n)) = n
         /\ \A p \in 1 .. n : Message(n)[p] = p - 1
BY DEF Message

LEMMA MessageGrows ==
  ASSUME NEW n \in Nat, NEW k \in Nat
  PROVE  Message(n + k) = Message(n) \o [i \in 1 .. k |-> n + i - 1]
<1> DEFINE more == [i \in 1 .. k |-> n + i - 1]
<1>1. more \in Seq(Nat) /\ Len(more) = k /\ \A i \in 1 .. k : more[i] = n + i - 1
  OBVIOUS
<1> HIDE DEF more
<1>m. Message(n) \in Seq(Nat) /\ Len(Message(n)) = n
  BY MessageFacts
<1> DEFINE head == Message(n)
<1> HIDE DEF head
<1>c. /\ head \o more \in Seq(Nat)
      /\ Len(head \o more) = Len(head) + Len(more)
      /\ \A p \in 1 .. Len(head) + Len(more) :
           (head \o more)[p] = IF p <= Len(head) THEN head[p] ELSE more[p - Len(head)]
  <2>1. head \in Seq(Nat)
    BY <1>m DEF head
  <2> QED BY <1>1, <2>1, ConcatProperties
<1>2. /\ Message(n) \o more \in Seq(Nat)
      /\ Len(Message(n) \o more) = n + k
      /\ \A p \in 1 .. n + k :
           (Message(n) \o more)[p] = IF p <= n THEN Message(n)[p] ELSE more[p - n]
  BY <1>1, <1>m, <1>c DEF head
<1>3. \A p \in 1 .. n + k : (Message(n) \o more)[p] = p - 1
  <2> TAKE p \in 1 .. n + k
  <2>1. CASE p <= n
    BY <1>2, <2>1, MessageFacts
  <2>2. CASE ~ (p <= n)
    <3>1. p - n \in 1 .. k /\ n + (p - n) - 1 = p - 1
      BY <2>2
    <3> QED BY <1>1, <1>2, <2>2, <3>1
  <2> QED BY <2>1, <2>2
<1>4. /\ Message(n + k) \in Seq(Nat) /\ Len(Message(n + k)) = n + k
      /\ \A p \in 1 .. n + k : Message(n + k)[p] = p - 1
  BY MessageFacts
<1>5. Message(n) \o more = Message(n + k)
  BY <1>2, <1>3, <1>4, SeqEqual
<1> QED BY <1>5 DEF more

LEMMA MessageCut ==
  ASSUME NEW n \in Nat, NEW m \in 0 .. n
  PROVE  SubSeq(Message(n), 1, m) = Message(m)
<1>1. m \in Nat /\ \A p \in 1 .. m : p \in 1 .. n
  OBVIOUS
<1>2. \A p \in 1 .. m : Message(n)[p] \in Nat
  <2>1. \A p \in 1 .. n : Message(n)[p] = p - 1
    BY MessageFacts
  <2>2. \A p \in 1 .. m : p - 1 \in Nat
    BY <1>1
  <2> QED BY <1>1, <2>1, <2>2
<1>3. /\ SubSeq(Message(n), 1, m) \in Seq(Nat)
      /\ Len(SubSeq(Message(n), 1, m)) = m
      /\ \A p \in 1 .. m : SubSeq(Message(n), 1, m)[p] = Message(n)[p]
  <2> DEFINE all == Message(n)
  <2> HIDE DEF all
  <2>1. \A p \in 1 .. m : all[p] \in Nat
    BY <1>2 DEF all
  <2>2. /\ SubSeq(all, 1, m) \in Seq(Nat)
        /\ Len(SubSeq(all, 1, m)) = IF 1 <= m THEN m - 1 + 1 ELSE 0
        /\ \A p \in 1 .. m - 1 + 1 : SubSeq(all, 1, m)[p] = all[1 + p - 1]
    BY <1>1, <2>1, SubSeqProperties
  <2>3. \A p \in 1 .. m : 1 + p - 1 = p /\ p \in 1 .. m - 1 + 1
    BY <1>1
  <2>4. Len(SubSeq(all, 1, m)) = m
    BY <1>1, <2>2
  <2> QED BY <2>2, <2>3, <2>4 DEF all
<1>4. \A p \in 1 .. m : SubSeq(Message(n), 1, m)[p] = Message(m)[p]
  BY <1>1, <1>3, MessageFacts
<1> QED BY <1>1, <1>3, <1>4, MessageFacts, SeqEqual

-----------------------------------------------------------------------------
(***************************************************************************)
(* What can be read is what was written.                                   *)
(***************************************************************************)
\* While BackUp is allowed the last slice is slice_, at the end of the message.
LEMMA LastSlice ==
  ASSUME IInv
  PROVE  /\ byte_count_ \in Nat /\ room \in Nat /\ room <= slice_.len /\ slice_.len \in Nat
         /\ slice_.at \in Nat
         /\ fresh => byte_count_ = slice_.at + slice_.len
         /\ byte_count_ - room \in Nat
<1>1. /\ slice_ \in Slice /\ byte_count_ \in Nat /\ room \in 0 .. slice_.len
      /\ fresh \in BOOLEAN
  BY DEF IInv, TypeOK
<1>2. /\ slice_.len \in Nat /\ slice_.at \in Nat
  BY <1>1, SliceFields
<1>3. ASSUME fresh PROVE byte_count_ = slice_.at + slice_.len
  <2>1. Len(slice_buffer_) \in Nat /\ Len(slice_buffer_) # 0
    BY <1>3, EmptySeq DEF IInv, TypeOK, CountMatchesBuffer
  <2> QED BY <1>3, <2>1 DEF IInv, CountMatchesBuffer, EndAt
<1>4. byte_count_ - room \in Nat
  <2>1. CASE fresh
    BY <1>1, <1>2, <1>3, <2>1
  <2>2. CASE ~ fresh
    BY <1>1, <2>2 DEF IInv, Placed
  <2> QED BY <2>1, <2>2
<1> QED BY <1>1, <1>2, <1>3, <1>4

LEMMA BytesAreMessage ==
  ASSUME IInv, Covered
  PROVE  Bytes = Message(byte_count_ - room)
<1> DEFINE n == byte_count_ - room
           at(p) == CHOOSE i \in DOMAIN slice_buffer_ :
                      p \in slice_buffer_[i].at + 1 .. EndAt(i)
           read(p) == mem[slice_buffer_[at(p)].blk]
                         [slice_buffer_[at(p)].off + (p - 1 - slice_buffer_[at(p)].at)]
<1>1. n \in Nat /\ byte_count_ \in Nat /\ room \in Nat
  BY LastSlice
<1>2. ASSUME NEW p \in 1 .. n PROVE read(p) = p - 1
  <2>1. p \in 1 .. byte_count_ /\ p \in Nat
    BY <1>1
  <2>2. PICK i \in DOMAIN slice_buffer_ : p \in slice_buffer_[i].at + 1 .. EndAt(i)
    BY <2>1 DEF Covered, In
  <2>3. at(p) \in DOMAIN slice_buffer_ /\ p \in slice_buffer_[at(p)].at + 1 .. EndAt(at(p))
    BY <2>2
  <2> PICK k \in DOMAIN slice_buffer_ : k = at(p)
    BY <2>3
  <2> HIDE DEF at
  <2>4. k \in 1 .. Len(slice_buffer_) /\ Len(slice_buffer_) \in Nat
    BY LenProperties DEF IInv, TypeOK
  <2> DEFINE s == slice_buffer_[k]
             j == p - 1 - s.at
  <2>5. s.at \in Nat /\ s.len \in Nat /\ s.off \in Nat
    BY <2>4, BufferFields DEF IInv
  <2>6. p \in s.at + 1 .. s.at + s.len
    BY <2>3, <2>4 DEF EndAt
  <2>7. j \in 0 .. s.len - 1 /\ s.at + j = p - 1 /\ p - 1 < n
    BY <1>1, <2>1, <2>5, <2>6
  <2>8. \A l \in 0 .. s.len - 1 : s.at + l < n => mem[s.blk][s.off + l] = s.at + l
    BY DEF IInv, ContentsKept
  <2> HIDE DEF n, s, j
  <2>9. mem[s.blk][s.off + j] = p - 1
    BY <2>7, <2>8
  <2> QED BY <2>9 DEF s, j
<1>3. Bytes = [p \in 1 .. n |-> read(p)]
  BY DEF Bytes
<1> HIDE DEF n, read
<1>4. [p \in 1 .. n |-> read(p)] = [p \in 1 .. n |-> p - 1]
  BY <1>2
<1> QED BY <1>3, <1>4 DEF Message, n

-----------------------------------------------------------------------------
(***************************************************************************)
(* No step leaves a gap.                                                   *)
(***************************************************************************)
LEMMA InitCovered == Init => Covered
BY DEF Init, Covered

\* A slice that is lent continues the message.
LEMMA LendCovers ==
  ASSUME IInv, Covered, NEW STATE s, s \in Slice, Lend(s), s.at = byte_count_, ~ have_backup_'
  PROVE  Covered'
<1> PICK n \in Nat : n = Len(slice_buffer_)
  BY LenProperties DEF IInv, TypeOK
<1>1. /\ byte_count_ \in Nat /\ s.len \in Nat
      /\ byte_count_' = byte_count_ + s.len
  BY LastSlice, SliceFields DEF Lend
<1>2. /\ DOMAIN slice_buffer_ = 1 .. n /\ DOMAIN slice_buffer_' = 1 .. n + 1
      /\ \A i \in 1 .. n : slice_buffer_'[i] = slice_buffer_[i]
      /\ slice_buffer_'[n + 1] = s
  BY AppendFacts, LenProperties DEF Lend, IInv, TypeOK
<1>3. ASSUME NEW p \in 1 .. byte_count_' PROVE \E i \in DOMAIN slice_buffer_' : In(p, i)'
  <2>1. CASE p \in 1 .. byte_count_
    <3>1. PICK i \in 1 .. n : In(p, i)
      BY <1>2, <2>1 DEF Covered
    <3> QED BY <1>2, <3>1 DEF In, EndAt
  <2>2. CASE p \in s.at + 1 .. s.at + s.len
    BY <1>2, <2>2 DEF In, EndAt
  <2> QED BY <1>1, <2>1, <2>2
<1> QED BY <1>3 DEF Covered

\* What is backed up is the end of the message, and not empty.
LEMMA BackUpCovers ==
  ASSUME IInv, Covered, NEW count \in 1 .. slice_.len, BackUp(count)
  PROVE  Covered'
<1> PICK n \in Nat : n = Len(slice_buffer_)
  BY LenProperties DEF IInv, TypeOK
<1>1. /\ fresh /\ have_backup_' /\ byte_count_' = byte_count_ - count
      /\ slice_buffer_ # << >> /\ slice_buffer_[n] = slice_ /\ slice_buffer_ \in Seq(Slice)
      /\ slice_ \in Slice
  BY DEF BackUp, IInv, CountMatchesBuffer, TypeOK
<1>2. /\ slice_.len \in Nat /\ slice_.at \in Nat /\ slice_.len <= BlockSize /\ BlockSize \in Nat
      /\ count \in Nat /\ 1 <= count /\ count <= slice_.len
      /\ byte_count_ = slice_.at + slice_.len
  BY <1>1, LastSlice, SliceFields
<1>3. /\ DOMAIN slice_buffer_ = 1 .. n /\ n \in 1 .. n
      /\ Popped \in Seq(Slice) /\ Len(Popped) = n - 1 /\ n - 1 \in Nat
      /\ \A i \in 1 .. n - 1 : Popped[i] = slice_buffer_[i]
  BY <1>1, PopFacts, LenProperties DEF Popped
<1>4. CASE BackUpBlock(count)
  <2>1. /\ slice_buffer_' = Popped /\ backup_slice_' = slice_ /\ count = BlockSize
    BY <1>4 DEF BackUpBlock
  <2>2. byte_count_' = slice_.at /\ backup_slice_'.len # 0
    BY <1>1, <1>2, <2>1
  <2>3. DOMAIN slice_buffer_' = 1 .. n - 1
    BY <1>3, <2>1, LenProperties
  <2>4. ASSUME NEW p \in 1 .. byte_count_' PROVE \E i \in DOMAIN slice_buffer_' : In(p, i)'
    <3>1. p \in 1 .. byte_count_ /\ p \notin slice_.at + 1 .. slice_.at + slice_.len
      BY <1>2, <2>2
    <3>2. PICK i \in 1 .. n : In(p, i)
      BY <1>3, <3>1 DEF Covered
    <3>3. i # n
      BY <1>1, <1>3, <3>1, <3>2 DEF In, EndAt
    <3>4. i \in 1 .. n - 1 /\ slice_buffer_'[i] = slice_buffer_[i]
      BY <1>3, <2>1, <3>3
    <3> QED BY <2>3, <3>2, <3>4 DEF In, EndAt
  <2> QED BY <2>2, <2>4 DEF Covered
<1>5. CASE BackUpTail(count)
  <2> DEFINE head == SplitHead(slice_, slice_.len - count)
  <2>1. /\ slice_buffer_' = Append(Popped, head)
        /\ backup_slice_' = SplitTail(slice_, slice_.len - count)
    BY <1>5 DEF BackUpTail
  <2>2. /\ slice_.len - count \in 0 .. slice_.len
        /\ slice_.len - (slice_.len - count) = count
    BY <1>2
  <2>3. head \in Slice /\ head.at = slice_.at /\ head.len = slice_.len - count
    BY <1>1, <2>2, HeadFacts
  <2>4. backup_slice_'.len # 0
    <3>1. SplitTail(slice_, slice_.len - count).len = slice_.len - (slice_.len - count)
      BY <1>1 DEF SplitTail, Slice
    <3> QED BY <1>2, <2>1, <2>2, <3>1
  <2> HIDE DEF head
  <2>5. /\ DOMAIN slice_buffer_' = 1 .. n
        /\ \A i \in 1 .. n - 1 : slice_buffer_'[i] = slice_buffer_[i]
        /\ slice_buffer_'[n] = head
    <3>1. /\ Append(Popped, head) \in Seq(Slice)
          /\ Len(Append(Popped, head)) = (n - 1) + 1
          /\ \A i \in 1 .. n - 1 : Append(Popped, head)[i] = Popped[i]
          /\ Append(Popped, head)[(n - 1) + 1] = head
      BY <1>3, <2>3, AppendFacts
    <3>2. (n - 1) + 1 = n
      OBVIOUS
    <3> QED BY <1>3, <2>1, <3>1, <3>2, LenProperties
  <2>6. ASSUME NEW p \in 1 .. byte_count_' PROVE \E i \in DOMAIN slice_buffer_' : In(p, i)'
    <3>1. p \in 1 .. byte_count_ /\ p <= head.at + head.len /\ p \in Nat
      BY <1>1, <1>2, <2>3
    <3>2. PICK i \in 1 .. n : In(p, i)
      BY <1>3, <3>1 DEF Covered
    <3>3. CASE i = n
      <4>1. p \in slice_.at + 1 .. slice_.at + slice_.len
        BY <1>1, <1>3, <3>2, <3>3 DEF In, EndAt
      <4>2. p \in head.at + 1 .. head.at + head.len
        BY <1>2, <2>3, <3>1, <4>1
      <4> QED BY <1>3, <2>5, <4>2 DEF In, EndAt
    <3>4. CASE i # n
      <4>1. i \in 1 .. n - 1 /\ slice_buffer_'[i] = slice_buffer_[i]
        BY <2>5, <3>4
      <4> QED BY <2>5, <3>2, <4>1 DEF In, EndAt
    <3> QED BY <3>3, <3>4
  <2> QED BY <2>4, <2>6 DEF Covered
<1> QED BY <1>4, <1>5 DEF BackUp

LEMMA NextCovers == ASSUME IInv, Covered, [Next]_vars PROVE Covered'
<1>1. CASE CallNext
  <2>1. CASE NextBackup
    <3>1. /\ Lend(backup_slice_) /\ ~ have_backup_'
          /\ backup_slice_ \in Slice /\ backup_slice_.at = byte_count_
      BY <2>1 DEF NextBackup, IInv, TypeOK, Placed
    <3> QED BY <3>1, LendCovers
  <2>2. CASE NextBlock
    <3> DEFINE new == [blk |-> allocated + 1, off |-> 0, len |-> BlockSize, at |-> byte_count_]
    <3>1. Lend(new) /\ ~ have_backup_' /\ allocated < MaxBlocks
      BY <2>2 DEF NextBlock, IInv, TypeOK
    <3>2. new \in Slice /\ new.at = byte_count_
      BY <3>1, BoundsAssumption, BlockSizeAssumption DEF IInv, TypeOK, Slice, Blocks
    <3> HIDE DEF new
    <3> QED BY <3>1, <3>2, LendCovers
  <2> QED BY <1>1, <2>1, <2>2 DEF CallNext
<1>2. CASE \E count \in 1 .. slice_.len : BackUp(count)
  BY <1>2, BackUpCovers
<1>3. CASE (\E k \in 1 .. room : Write(k)) \/ Destruct \/ DestroyBuffer \/ UNCHANGED vars
  <2>1. UNCHANGED writer
    BY <1>3 DEF Write, Destruct, DestroyBuffer, vars
  <2> QED BY <2>1 DEF writer, Covered, In, EndAt
<1> QED BY <1>1, <1>2, <1>3 DEF Next

-----------------------------------------------------------------------------
(***************************************************************************)
(* A step of the writer is a step of the sink, or changes nothing of it.   *)
(***************************************************************************)
written == byte_count_ - room

\* BytesAreMessage, now and after the step.
LEMMA BytesOfStep ==
  /\ IInv /\ Covered => Bytes = Message(written)
  /\ (IInv /\ Covered => Bytes = Message(written))'
<1>1. IInv /\ Covered => Bytes = Message(written)
  BY BytesAreMessage DEF written
<1> QED BY <1>1, PTL

LEMMA InitMaps == Init => Output!Init
<1> SUFFICES ASSUME Init PROVE Output!Init
  OBVIOUS
<1>1. IInv /\ Covered
  BY InitIInv, InitCovered
<1>2. byte_count_ = 0 /\ room = 0 /\ fresh = FALSE /\ phase = "writing"
  BY DEF Init
<1>3. Bytes = Message(0)
  BY <1>1, <1>2, BytesOfStep DEF written
<1>4. Message(0) = << >>
  BY MessageFacts, EmptySeq
<1> QED BY <1>2, <1>3, <1>4 DEF Output!Init

LEMMA StepMaps ==
  ASSUME IInv, Covered, IInv', Covered', [Next]_vars
  PROVE  [Output!Next]_(Output!vars)
<1>1. Bytes = Message(written) /\ Bytes' = Message(written')
  BY BytesOfStep
<1>2. /\ written \in Nat /\ byte_count_ \in Nat /\ room \in Nat
      /\ slice_.len \in Nat /\ room <= slice_.len
      /\ written = byte_count_ - room
      /\ written' = byte_count_' - room'
  BY LastSlice DEF written
<1>3. CASE CallNext
  <2>1. /\ phase = "writing" /\ phase' = phase /\ room = 0
        /\ NextBackup \/ NextBlock
    BY <1>3 DEF CallNext
  <2>2. PICK s \in Slice : Lend(s) /\ s.len \in 1 .. BlockSize
    <3>1. CASE NextBackup
      <4>1. backup_slice_ \in Slice /\ backup_slice_.len # 0 /\ Lend(backup_slice_)
        BY <3>1 DEF NextBackup, IInv, TypeOK, Covered
      <4>2. backup_slice_.len \in 1 .. BlockSize
        BY <4>1, SliceFields
      <4> QED BY <4>1, <4>2
    <3>2. CASE NextBlock
      <4> DEFINE new == [blk |-> allocated + 1, off |-> 0, len |-> BlockSize,
                         at |-> byte_count_]
      <4>1. Lend(new) /\ allocated < MaxBlocks
        BY <3>2 DEF NextBlock
      <4>2. new \in Slice /\ new.len \in 1 .. BlockSize
        BY <4>1, BoundsAssumption, BlockSizeAssumption DEF IInv, TypeOK, Slice, Blocks
      <4> HIDE DEF new
      <4> QED BY <4>1, <4>2
    <3> QED BY <2>1, <3>1, <3>2
  <2>3. /\ byte_count_' = byte_count_ + s.len /\ room' = s.len /\ fresh' = TRUE
        /\ slice_'.len = s.len /\ s.len \in Nat
    BY <2>2 DEF Lend
  <2>4. written' = written
    BY <1>2, <2>1, <2>3
  <2>5. Bytes' = Bytes
    BY <1>1, <2>4
  <2>6. Output!Lend
    BY <2>1, <2>2, <2>3, <2>5 DEF Output!Lend
  <2> QED BY <2>6 DEF Output!Next
<1>4. ASSUME NEW k \in 1 .. room, Write(k)
      PROVE  Output!Write
  <2>1. /\ phase = "writing" /\ phase' = phase /\ k \in Nat /\ room' = room - k
        /\ byte_count_' = byte_count_ /\ slice_' = slice_ /\ fresh' = fresh
    BY <1>2, <1>4 DEF Write, writer
  <2>2. written' = written + k
    BY <1>2, <2>1
  <2>3. Bytes' = Bytes \o [i \in 1 .. k |-> Len(Bytes) + i - 1]
    <3>1. Len(Bytes) = written
      BY <1>1, <1>2, MessageFacts
    <3>2. Message(written + k) = Message(written) \o [i \in 1 .. k |-> written + i - 1]
      BY <1>2, <2>1, MessageGrows
    <3> QED BY <1>1, <2>2, <3>1, <3>2
  <2> QED BY <1>4, <2>1, <2>3 DEF Output!Write
<1>5. ASSUME NEW count \in 1 .. slice_.len, BackUp(count)
      PROVE  Output!TakeBack
  <2>1. /\ phase = "writing" /\ phase' = phase /\ fresh /\ fresh' = FALSE /\ room' = 0
        /\ byte_count_' = byte_count_ - count
        /\ count \in room .. slice_.len /\ slice_.len > 0 /\ count \in Nat
    BY <1>2, <1>5 DEF BackUp
  <2>2. /\ written' = written - (count - room)
        /\ written' \in 0 .. written
    <3>1. byte_count_ = slice_.at + slice_.len /\ slice_.at \in Nat
      BY <2>1, LastSlice
    <3> QED BY <1>2, <2>1, <3>1
  <2>3. Bytes' = SubSeq(Bytes, 1, Len(Bytes) - (count - room))
    <3>1. Len(Bytes) = written
      BY <1>1, <1>2, MessageFacts
    <3>2. SubSeq(Message(written), 1, written') = Message(written')
      BY <1>2, <2>2, MessageCut
    <3> QED BY <1>1, <2>2, <3>1, <3>2
  <2> QED BY <2>1, <2>3 DEF Output!TakeBack
<1>6. CASE Destruct
  <2>1. /\ phase = "writing" /\ phase' = "handed_over" /\ room = 0 /\ room' = room
        /\ byte_count_' = byte_count_ /\ slice_' = slice_ /\ fresh' = fresh
    BY <1>6 DEF Destruct, writer
  <2>2. Bytes' = Bytes
    BY <1>1, <1>2, <2>1
  <2>3. Output!Close
    BY <2>1, <2>2 DEF Output!Close
  <2> QED BY <2>3 DEF Output!Next
<1>7. CASE DestroyBuffer \/ UNCHANGED vars
  <2>1. /\ (phase' # "writing") = (phase # "writing") /\ room' = room
        /\ byte_count_' = byte_count_ /\ slice_' = slice_ /\ fresh' = fresh
    BY <1>7 DEF DestroyBuffer, vars, writer
  <2>2. Bytes' = Bytes
    BY <1>1, <1>2, <2>1
  <2> QED BY <2>1, <2>2 DEF Output!vars
<1> QED BY <1>3, <1>4, <1>5, <1>6, <1>7 DEF Next, Output!Next

-----------------------------------------------------------------------------
\* The writer over slices of blocks is the byte sink protobuf writes to: at
\* every moment its buffer reads as what was written to the chunks it lent and
\* not backed up, in order, whatever was cut off, popped and lent again.
THEOREM Refinement == Spec => ImplementsOutput
<1>1. Init => IInv /\ RefsExact /\ Covered /\ Output!Init
  BY InitIInv, InitRefs, InitCovered, InitMaps
<1>2. IInv /\ RefsExact /\ Covered /\ [Next]_vars
        => (IInv /\ RefsExact /\ Covered)' /\ [Output!Next]_(Output!vars)
  BY NextKeeps, NextCovers, StepMaps
<1> QED BY <1>1, <1>2, PTL DEF Spec, ImplementsOutput, Output!Spec
=============================================================================
