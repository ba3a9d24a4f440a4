---------------------------- MODULE MC_DynString ----------------------------
(* TLC instance: two payload bytes and strings of up to three bytes.       *)
EXTENDS DynString

CONSTANTS a, b

MC_Chars  == {a, b}
MC_Inputs == {<<>>, <<a>>, <<b, a>>, <<a, NUL>>, <<a, b, a>>}
=============================================================================
