----------------------------- MODULE ByteOutput -----------------------------
(***************************************************************************)
(* What google::protobuf::io::ZeroCopyOutputStream promises the code that  *)
(* writes a message through it: it lends room, keeps what is written there *)
(* in order, and drops the end of it again when that is backed up.  Byte p *)
(* of the message is the number p, so that a byte that is lost, repeated,  *)
(* overwritten or out of place is a wrong number in the output.            *)
(***************************************************************************)
EXTENDS Naturals, Sequences

CONSTANT MaxChunk   \* the most that is lent at a time

VARIABLES
  accepted,   \* the bytes written and not backed up
  chunk,      \* size of the chunk lent last, 0 when it was backed up
  room,       \* bytes at its end that are not written yet
  closed      \* the stream is gone and accepted is the message

vars == <<accepted, chunk, room, closed>>

Init ==
  /\ accepted = << >>
  /\ chunk = 0
  /\ room = 0
  /\ closed = FALSE

Lend ==
  /\ ~ closed
  /\ room = 0
  /\ chunk' \in 1 .. MaxChunk
  /\ room' = chunk'
  /\ UNCHANGED <<accepted, closed>>

Write ==
  /\ ~ closed
  /\ \E k \in 1 .. room :
       /\ accepted' = accepted \o [i \in 1 .. k |-> Len(accepted) + i - 1]
       /\ room' = room - k
  /\ UNCHANGED <<chunk, closed>>

\* BackUp: the room not written, and possibly some of what was written.
TakeBack ==
  /\ ~ closed
  /\ chunk > 0
  /\ \E k \in room .. chunk :
       accepted' = SubSeq(accepted, 1, Len(accepted) - (k - room))
  /\ chunk' = 0
  /\ room' = 0
  /\ UNCHANGED closed

Close ==
  /\ ~ closed
  /\ room = 0
  /\ closed' = TRUE
  /\ UNCHANGED <<accepted, chunk, room>>

Next == Lend \/ Write \/ TakeBack \/ Close

Spec == Init /\ [][Next]_vars
=============================================================================
