------------------------------ MODULE JsonPrint ------------------------------
(***************************************************************************)
(* json_encode and json_stringify of what json_decode has built: the       *)
(* symbols they write, read off the forest.  A string or a key is one      *)
(* symbol (JsonString has the bytes).  A blank, a newline and the caller's *)
(* indentation are all "sp".                                               *)
(***************************************************************************)
EXTENDS JsonParse

LOCAL INSTANCE SequencesExt

(* emit_string, emit_number and the words.  A number is printed by "%.16g" *)
(* of the double strtod made of it; for a whole number of at most 16       *)
(* digits these are the digits it was read from, and only such numbers are *)
(* printed here.                                                           *)
EmitScalar(n) == SubSeq(text, n, ScalarEnd(n) - 1)

Opening(n) == IF tags[n] = "array" THEN "[" ELSE "{"
Closing(n) == IF tags[n] = "array" THEN "]" ELSE "}"

(* The comma behind the i-th child of n, if another one follows.           *)
Separated(n, i) == IF i < Len(kids[n]) THEN <<",">> ELSE <<>>

(* emit_value, emit_array and emit_object.                                 *)
Emit(node) ==
  LET emit[n \in alive] ==
        IF tags[n] = "leaf" THEN EmitScalar(n)
        ELSE LET key(c)  == IF tags[n] = "object" THEN <<text[names[c]], ":">> ELSE <<>>
                 part(i) == key(kids[n][i]) \o emit[kids[n][i]] \o Separated(n, i)
             IN  <<Opening(n)>> \o FlattenSeq([i \in 1..Len(kids[n]) |-> part(i)])
                   \o <<Closing(n)>>
  IN  emit[node]

(* Slip: the newline behind the last value ends in a comma.                *)
LineEnd_Comma(n, i) == <<",", "sp">>

(* What ends the line of the i-th child.                                   *)
LineEnd(n, i) == IF i < Len(kids[n]) THEN <<",", "sp">> ELSE <<"sp">>

Blanks(k) == [i \in 1..k |-> "sp"]

(* emit_value_indented, emit_array_indented and emit_object_indented, with *)
(* one blank for each level.                                               *)
EmitIndented(node) ==
  LET emit[n \in alive, level \in 0..MaxLen] ==
        IF tags[n] = "leaf" THEN EmitScalar(n)
        ELSE IF kids[n] = <<>> THEN <<Opening(n), Closing(n)>>
        ELSE LET key(c)  == IF tags[n] = "object" THEN <<text[names[c]], ":", "sp">> ELSE <<>>
                 line(i) == Blanks(level + 1) \o key(kids[n][i])
                              \o emit[kids[n][i], level + 1] \o LineEnd(n, i)
             IN  <<Opening(n), "sp">> \o FlattenSeq([i \in 1..Len(kids[n]) |-> line(i)])
                   \o Blanks(level) \o <<Closing(n)>>
  IN  emit[node, 0]

-----------------------------------------------------------------------------

(* json_decode has returned a value whose numbers are whole.               *)
Decoded == /\ pc = "accepted" /\ out
           /\ \A i \in 1..Len(text) : text[i] \notin {".", "e", "E"}

(* What was decoded and is encoded again is the text that was read, blanks *)
(* apart: every value is in its place, under its key, in the order of the  *)
(* text.  Indentation adds blanks and nothing else, none of them in a      *)
(* number: the indented text is JSON of the same value.                    *)
PrintsWhatWasRead ==
  Decoded => LET t == EmitIndented(val)
             IN  /\ Emit(val) = Blankless(text)
                 /\ IsJson(t) /\ Blankless(t) = Emit(val)
=============================================================================
