----------------------------- MODULE ByteInput -----------------------------
(***************************************************************************)
(* What google::protobuf::io::ZeroCopyInputStream promises the code that   *)
(* reads a message through it: a stream of total bytes handed out chunk by *)
(* chunk from its head, of which the reader may give the tail of the last  *)
(* chunk back, or pass over a number of bytes unread.  The calls are       *)
(* atomic here; GrpcBufferReader implements them over a list of slices.    *)
(***************************************************************************)
EXTENDS Naturals

CONSTANT Counts   \* the arguments of Skip

VARIABLES
  total,   \* bytes in the stream
  pos,     \* bytes delivered and not given back: ByteCount()
  chunk,   \* the last chunk delivered: its place in the stream, its size
  fresh,   \* the last call delivered chunk, so that BackUp is allowed
  done     \* the last call that ended: its name, argument and result

vars == <<total, pos, chunk, fresh, done>>

Ended(call, count, ok) == [call |-> call, count |-> count, ok |-> ok]

Init ==
  /\ total \in Nat
  /\ pos = 0
  /\ chunk = [at |-> 0, size |-> 0]
  /\ fresh = FALSE
  /\ done = Ended("none", 0, TRUE)

\* Next() lends the bytes that follow those already delivered.
Lend ==
  /\ \E k \in 0 .. total - pos :
       /\ chunk' = [at |-> pos, size |-> k]
       /\ pos' = pos + k
  /\ fresh' = TRUE
  /\ done' = Ended("Next", 0, TRUE)
  /\ UNCHANGED total

\* Next() fails, and it may do so only when every byte was delivered.
End ==
  /\ pos = total
  /\ fresh' = FALSE
  /\ done' = Ended("Next", 0, FALSE)
  /\ UNCHANGED <<total, pos, chunk>>

\* BackUp(k) takes back the last k bytes of the chunk just lent.
TakeBack ==
  /\ fresh
  /\ \E k \in 0 .. chunk.size :
       /\ pos' = pos - k
       /\ done' = Ended("BackUp", k, TRUE)
  /\ fresh' = FALSE
  /\ UNCHANGED <<total, chunk>>

\* Skip(count) passes over exactly count bytes, or reports that the stream
\* ends first; at the very end Skip(0) may answer either way.
Skip(count) ==
  /\ \/ /\ count <= total - pos
        /\ pos' = pos + count
        /\ done' = Ended("Skip", count, TRUE)
     \/ /\ count > total - pos \/ (count = 0 /\ pos = total)
        /\ pos' = total
        /\ done' = Ended("Skip", count, FALSE)
  /\ fresh' = FALSE
  /\ UNCHANGED <<total, chunk>>

Next == Lend \/ End \/ TakeBack \/ \E count \in Counts : Skip(count)

Spec == Init /\ [][Next]_vars
=============================================================================
