---------------------------- MODULE MC_JsonParse ----------------------------
(***************************************************************************)
(* TLC instances.                                                          *)
(***************************************************************************)
EXTENDS JsonPrint

Marks == {"[", "]", "{", "}", ",", ":", "a", "1", "sp", "bad"}

Strings4 == UNION {[1..n -> Marks] : n \in 0..4}

(* Deeper texts: objects in arrays, arrays in objects, empty containers,   *)
(* two members, two elements, blanks at every place.                       *)
Seeds == {
  <<"{", "a", ":", "[", "1", ",", "b", "]", ",", "b", ":", "{", "}", "}">>,
  <<"[", "{", "a", ":", "1", ",", "a", ":", "null", "}", ",", "[", "]", "]">>,
  <<"{", "a", ":", "{", "b", ":", "{", "a", ":", "0", "}", "}", "}">>,
  <<"sp", "{", "sp", "a", "sp", ":", "sp", "1", "0", "sp", ",", "sp", "b", ":", "1", "sp", "}", "sp">>,
  <<"[", "sp", "]">>, <<"[", "sp", "true", "sp", ",", "false", "sp", "]", "sp">> }

(* A seed cut short, or with one symbol taken out, put in, or changed.     *)
Edits(s) ==
  {SubSeq(s, 1, i) : i \in 1..Len(s)}
    \cup {SubSeq(s, 1, i - 1) \o SubSeq(s, i + 1, Len(s)) : i \in 1..Len(s)}
    \cup {SubSeq(s, 1, i - 1) \o <<c>> \o SubSeq(s, i + 1, Len(s)) : i \in 1..Len(s), c \in Marks}
    \cup {SubSeq(s, 1, i) \o <<c>> \o SubSeq(s, i + 1, Len(s)) : i \in 0..Len(s), c \in Marks}

(* Numbers, and what looks like one; the second set has those with all     *)
(* parts.                                                                  *)
Signs == {"-", "0", "1", ".", "e", "+"}
Numbers == UNION {[1..n -> Signs] : n \in 1..5}
             \cup {<<"-", "1", ".">> \o s : s \in [1..4 -> Signs]}

AllTexts == Strings4 \cup UNION {Edits(s) : s \in Seeds} \cup Numbers
=============================================================================
