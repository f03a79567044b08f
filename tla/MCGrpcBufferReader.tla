------------------------- MODULE MCGrpcBufferReader -------------------------
(* All the buffers of up to MaxSlices slices of up to MaxLength bytes. *)
EXTENDS GrpcBufferReader

CONSTANTS MaxSlices, MaxLength

MCBuffers ==
  UNION { { [n |-> n, end |-> e] :
            e \in { f \in [0 .. n -> 0 .. n * MaxLength] :
                      /\ f[0] = 0
                      /\ \A i \in 1 .. n : f[i] - f[i - 1] \in 0 .. MaxLength } } :
          n \in 0 .. MaxSlices }

MCSkipCounts == 0 .. (MaxSlices * MaxLength + 1)
=============================================================================
