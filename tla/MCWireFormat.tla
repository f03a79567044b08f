----------------------------- MODULE MCWireFormat -----------------------------
(***************************************************************************)
(* Numbers whose varints have one and ten bytes, texts of up to two        *)
(* characters.                                                             *)
(***************************************************************************)
EXTENDS WireFormat

AllClasses == DOMAIN Fields

SmallNumbers == {0, -1, 300}

SmallTexts == {<< >>, <<"n">>, <<"n", "o">>}
=============================================================================
