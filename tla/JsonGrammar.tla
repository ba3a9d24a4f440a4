----------------------------- MODULE JsonGrammar -----------------------------
(***************************************************************************)
(* Which texts are JSON, said declaratively: a text is a value if it can   *)
(* be cut into the parts of one.  Nothing here follows the parser; it is   *)
(* what the parser is compared with.  A text is a sequence of symbols: the *)
(* marks, a blank "sp", digits and the signs of numbers, and a whole       *)
(* string or word (null, true, false) as one symbol.                       *)
(***************************************************************************)
EXTENDS Integers, Sequences, FiniteSets

Digits  == {"0", "1"}
Strings == {"a", "b"}
Words   == {"null", "true", "false"}

(* The symbols a number is made of.                                        *)
NumberSigns == Digits \cup {"-", "+", ".", "e", "E"}

IsDigits(s) == s # <<>> /\ \A i \in 1..Len(s) : s[i] \in Digits

(* A whole number without idle zeros.                                      *)
IsInteger(s) == s = <<"0">> \/ (IsDigits(s) /\ s[1] # "0")

IsFraction(s) == s = <<>> \/ (s[1] = "." /\ IsDigits(Tail(s)))

IsExponent(s) ==
  \/ s = <<>>
  \/ /\ s[1] \in {"e", "E"}
     /\ \/ IsDigits(Tail(s))
        \/ Len(s) > 1 /\ s[2] \in {"+", "-"} /\ IsDigits(SubSeq(s, 3, Len(s)))

(* The pattern in the comment on parse_number: perhaps a minus, a whole    *)
(* number, perhaps a fraction, perhaps an exponent.                        *)
IsNumber(s) ==
  /\ \A i \in 1..Len(s) : s[i] \in NumberSigns
  /\ \E sign \in {<<>>, <<"-">>}, i \in 0..Len(s), j \in 0..Len(s) :
       /\ Len(sign) <= i /\ i <= j
       /\ SubSeq(s, 1, Len(sign)) = sign
       /\ IsInteger(SubSeq(s, Len(sign) + 1, i))
       /\ IsFraction(SubSeq(s, i + 1, j))
       /\ IsExponent(SubSeq(s, j + 1, Len(s)))

IsScalar(s) == IsNumber(s) \/ (Len(s) = 1 /\ s[1] \in Strings \cup Words)

(* t, which has no blanks, is one value.  is[k, i, j] tells whether the     *)
(* part of t from i to j is a value, a list of elements, or of members.    *)
IsValue(t) ==
  LET n == Len(t)
      is[p \in {"value", "elements", "members"} \X (1..(n + 1)) \X (0..n)] ==
        LET k == p[1]
            i == p[2]
            j == p[3]
            first(c) ==
              IF k = "elements" THEN is[<<"value", i, c>>]
              ELSE /\ i + 2 <= c /\ t[i] \in Strings /\ t[i + 1] = ":"
                   /\ is[<<"value", i + 2, c>>]
            inside(list) == j = i + 1 \/ is[<<list, i + 1, j - 1>>]
        IN  IF k = "value"
            THEN /\ i <= j
                 /\ \/ IsScalar(SubSeq(t, i, j))
                    \/ t[i] = "[" /\ t[j] = "]" /\ inside("elements")
                    \/ t[i] = "{" /\ t[j] = "}" /\ inside("members")
            ELSE \/ first(j)
                 \/ \E c \in 1..n : /\ i < c /\ c < j /\ t[c] = ","
                                    /\ first(c - 1) /\ is[<<k, c + 1, j>>]
  IN  is[<<"value", 1, n>>]

(* The places that are not blank, and what stands there.                   *)
Solid(t) == {i \in 1..Len(t) : t[i] # "sp"}

Blankless(t) ==
  [k \in 1..Cardinality(Solid(t)) |->
    t[CHOOSE i \in Solid(t) : Cardinality({j \in Solid(t) : j <= i}) = k]]

(* t is one value, with blanks anywhere but inside a number.               *)
IsJson(t) ==
  /\ IsValue(Blankless(t))
  /\ \A i, j \in 1..Len(t) :
       i + 1 < j /\ {t[i], t[j]} \subseteq NumberSigns =>
         \E m \in (i + 1)..(j - 1) : t[m] # "sp"
=============================================================================
