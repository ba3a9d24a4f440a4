--------------------------- MODULE MC_JsonString ---------------------------
(* Literals of up to two pieces, alone, behind one or behind thirteen      *)
(* letters (which leave three bytes of the first 16), and every literal of *)
(* one piece with bytes missing at the end.                                *)
EXTENDS JsonString

Char(bytes, unit)   == [bytes |-> bytes, unit |-> unit, kind |-> "character"]
Escape(bytes, unit) == [bytes |-> <<92, 117>> \o bytes, unit |-> unit, kind |-> "escape"]
Bad(bytes)          == [bytes |-> bytes, unit |-> 1, kind |-> "bad"]

LetterA == Char(<<97>>, 97)

(* Characters at the limits of their length, and the two-byte escapes.     *)
Characters ==
  {LetterA, Char(<<127>>, 127), Char(<<195, 169>>, 233), Char(<<226, 130, 172>>, 8364),
   Char(<<240, 159, 152, 128>>, 128512), Char(<<92, 34>>, 34), Char(<<92, 92>>, 92),
   Char(<<92, 47>>, 47), Char(<<92, 98>>, 8), Char(<<92, 102>>, 12), Char(<<92, 110>>, 10),
   Char(<<92, 114>>, 13), Char(<<92, 116>>, 9)}

(* \u0000, \u0001, \u0022, \u005c, \u00e9, \u20AC, \ud83d, \uDBFF, \udc00, *)
(* \uDFFF, \uFFFF.                                                         *)
Escapes ==
  {Escape(<<48, 48, 48, 48>>, 0), Escape(<<48, 48, 48, 49>>, 1), Escape(<<48, 48, 50, 50>>, 34),
   Escape(<<48, 48, 53, 99>>, 92), Escape(<<48, 48, 101, 57>>, 233), Escape(<<50, 48, 65, 67>>, 8364),
   Escape(<<100, 56, 51, 100>>, 55357), Escape(<<68, 66, 70, 70>>, 56319),
   Escape(<<100, 99, 48, 48>>, 56320), Escape(<<68, 70, 70, 70>>, 57343),
   Escape(<<70, 70, 70, 70>>, 65535)}

(* \u001f, which is written as the bare control character.                 *)
UnitSeparator == Escape(<<48, 48, 49, 102>>, 31)

(* Control characters, a stray continuation, an overlong form, an encoded  *)
(* surrogate, one beyond U+10FFFF, \x, \u12g4.                             *)
Bads ==
  {Bad(<<1>>), Bad(<<31>>), Bad(<<128>>), Bad(<<192, 128>>), Bad(<<237, 160, 128>>),
   Bad(<<244, 144, 128, 128>>), Bad(<<92, 120>>), Bad(<<92, 117, 49, 50, 103, 52>>)}

MCPieces == Characters \cup Escapes \cup Bads
AllPieces == MCPieces \cup {UnitSeparator}

Thirteen == [k \in 1..13 |-> LetterA]

Literal(ps, cut) ==
  LET l == [pieces |-> ps, cut |-> cut] IN
  [pieces |-> ps, cut |-> cut, text |-> TextOf(l)]

MCLiterals ==
  {Literal(<<p, q>>, 0) : p \in MCPieces, q \in MCPieces}
    \cup {Literal(Thirteen \o <<p, q>>, 0) : p \in Characters \cup Escapes, q \in Characters}
    \cup {Literal(<<p>>, n) : p \in MCPieces, n \in 0..4}
    \cup {Literal(<<>>, n) : n \in 0..2}

SeparatorLiterals == {Literal(ps, 0) : ps \in {<<p, q>> : p \in AllPieces, q \in AllPieces}}
=============================================================================
