---------------------------- MODULE MCProtoUtils ----------------------------
(* Messages of up to two fields, buffers of up to two items of any kind, whole *)
(* or cut off, around a MaxBufferLength of two bytes.                          *)
EXTENDS ProtoUtils

\* Items of up to three bytes each.
Ends(longest) ==
  { << >> } \cup { <<m>> : m \in 1 .. longest }
  \cup { <<m, m + n>> : m, n \in 1 .. longest }

MCMessages ==
  [fields : { [i \in DOMAIN e |-> [end |-> e[i], kind |-> "field"]] : e \in Ends(3) },
   initialised : BOOLEAN]

Kind == {"field", "stop", "bad"}

Items == { [i \in DOMAIN e |-> [end |-> e[i], kind |-> k[i]]] : e \in Ends(2), k \in [1 .. 2 -> Kind] }

\* Whole, or without the last byte.
MCPeerBuffers ==
  { b \in [items : Items, size : 0 .. 4] : b.size \in { Size(b.items), Size(b.items) - 1 } }

MCLimits == {-1, 0, 1, 3, 4}
=============================================================================
