------------------------------ MODULE MCDbParser ------------------------------
(***************************************************************************)
(* Files of up to two features, and each of them with one character        *)
(* removed, replaced or added, or cut off anywhere.                        *)
(***************************************************************************)
EXTENDS DbParser, TLC

\* int32 has 3 bits and long has 4: 6 changes its sign, and 9 is too large.
SmallValue == "-1" :> -1 @@ "2" :> 2 @@ "6" :> 6 @@ "9" :> 9

Names == {<< >>, <<"x">>, <<"x", "}", ",", "]">>}

SmallFeatures == { <<n, -1, name>> : n \in {2, -2}, name \in Names }

SmallLists ==
  {<< >>} \cup { <<f>> : f \in SmallFeatures } \cup
  { <<f, <<2, -1, <<"x">>>>>> : f \in { f \in SmallFeatures : f[1] = -2 } }

Text(f) ==
  <<"{", "location", "{", "latitude", IF f[1] = 2 THEN "2" ELSE "6", ",", "longitude", "-1",
    "}", ",", "name", "quote">> \o f[3] \o <<"quote", "}">>

File(list) ==
  CASE list = << >> -> <<"[", "]">>
    [] Len(list) = 1 -> <<"[">> \o Text(list[1]) \o <<"]">>
    [] OTHER -> <<"[">> \o Text(list[1]) \o <<",", "space">> \o Text(list[2]) \o <<"]">>

Edits(s) ==
  {s}
  \cup { SubSeq(s, 1, n) : n \in 0 .. Len(s) }
  \cup { SubSeq(s, 1, n - 1) \o SubSeq(s, n + 1, Len(s)) : n \in DOMAIN s }
  \cup { [s EXCEPT ![n] = c] : n \in DOMAIN s, c \in Characters }
  \cup { SubSeq(s, 1, n) \o <<c>> \o SubSeq(s, n + 1, Len(s)) : n \in 0 .. Len(s), c \in Characters }

SmallFiles == UNION { Edits(File(list)) : list \in SmallLists }
=============================================================================
