------------------------------ MODULE MCEditor ------------------------------
(* Small texts for the editor panel: words next to each other, a blank, a  *)
(* tab, a wide grapheme, and lines of different lengths.                   *)
EXTENDS EditorPanel

MCOpenTexts == {<<<<"a", "a", " ">>, <<"b", "a">>>>, <<<<"\t", "W">>, <<>>, <<"a">>>>}
MCInserts == {<<<<"b">>>>, <<<<>>, <<>>>>}
=============================================================================
