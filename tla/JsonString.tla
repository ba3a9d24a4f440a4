----------------------------- MODULE JsonString -----------------------------
(***************************************************************************)
(* The string codec of src/json.c.  parse_string reads a literal, with or  *)
(* without a place for the result; json_encode_string writes the result as *)
(* a literal again, which is then read once more.  A step is one turn of a *)
(* loop: of parse_string, of emit_string or of sb_grow.                    *)
(***************************************************************************)
EXTENDS Utf8, SequencesExt

CONSTANTS
  Pieces,       \* what literals are made of, see PiecesAssumption
  Literals      \* texts, of which pieces they consist, and how many bytes are cut off

(* A piece stands for a character, for the 16-bit unit of an escape \uXXXX *)
(* or for nothing a literal may have.                                      *)
ASSUME PiecesAssumption ==
  \A p \in Pieces :
    p.bytes \in Seq(1..255) /\ p.unit \in Nat /\ p.kind \in {"character", "escape", "bad"}

VARIABLES
  literal,      \* the literal that is read first
  keep,         \* the caller of parse_string asks for the string
  op,           \* what runs, or what it came to
  text, s,      \* what is read, and the position in it
  out,          \* what is written: a string buffer, or the bytes of one turn
  cap,          \* the bytes the string buffer has room for
  str           \* the string that was handed out

vars == <<literal, keep, op, text, s, out, cap, str>>

Quote == 34
Backslash == 92

(* Quotation marks around the pieces, and an end that may be missing.      *)
TextOf(l) ==
  LET inner == FlattenSeq([k \in 1..Len(l.pieces) |-> l.pieces[k].bytes])
      whole == <<Quote>> \o inner \o <<Quote>>
  IN  SubSeq(whole, 1, Len(whole) - l.cut)

ASSUME LiteralsAssumption ==
  \A l \in Literals :
    /\ l.pieces \in Seq(Pieces) /\ l.cut \in Nat
    /\ l.text \in Seq(1..255) /\ l.text = TextOf(l)

-----------------------------------------------------------------------------
(* The string buffer SB: 16 bytes from sb_init, and one for the NUL.       *)

SB_INIT == 16

(* Slip: three bytes for the next character.                               *)
RoomFor_Three(o) == IF o = "emit" THEN 14 ELSE 3

(* What sb_need asks for.                                                  *)
RoomFor(o) == IF o = "emit" THEN 14 ELSE 4

HasRoom == keep => cap - Len(out) >= RoomFor(op)

(* A turn of the loop in sb_grow.                                          *)
Grow ==
  /\ op \in {"parse", "emit", "again"} /\ ~HasRoom
  /\ cap' = cap * 2
  /\ UNCHANGED <<literal, keep, op, text, s, out, str>>

(* The bytes w are written, without a place for the result to the start of *)
(* throwaway_buffer, which has four bytes.                                 *)
Written(w) == IF keep THEN out \o w ELSE w

-----------------------------------------------------------------------------
(* parse_string                                                            *)

Here(k) == ByteAt(text, s + k)

HexDigit(b) ==
  CASE b \in 48..57  -> b - 48
    [] b \in 65..70  -> b - 55
    [] b \in 97..102 -> b - 87
    [] OTHER         -> 16

(* parse_hex16, which reads up to the first byte that is no digit.         *)
IsHex16(k) == /\ HexDigit(Here(k)) < 16 /\ HexDigit(Here(k + 1)) < 16
              /\ HexDigit(Here(k + 2)) < 16 /\ HexDigit(Here(k + 3)) < 16
Hex16(k) == HexDigit(Here(k)) * 4096 + HexDigit(Here(k + 1)) * 256
              + HexDigit(Here(k + 2)) * 16 + HexDigit(Here(k + 3))

(* What a letter stands for after a backslash.                             *)
Unescaped == [b \in {34, 47, 92, 98, 102, 110, 114, 116} |->
  CASE b = 98 -> 8 [] b = 102 -> 12 [] b = 110 -> 10 [] b = 114 -> 13 [] b = 116 -> 9
    [] OTHER -> b]

Surrogate(u) == u \in 55296..57343

(* What can stand at s.                                                    *)
AtQuote  == Here(0) = Quote
AtLetter == Here(0) = Backslash /\ Here(1) \in DOMAIN Unescaped
AtUnit   == Here(0) = Backslash /\ Here(1) = 117 /\ IsHex16(2)
AtPair ==
  /\ AtUnit /\ Surrogate(Hex16(2))
  /\ Here(6) = Backslash /\ Here(7) = 117 /\ IsHex16(8)
  /\ IsSurrogatePair(Hex16(2), Hex16(8))
AtCharacter == Here(0) > 31 /\ Here(0) \notin {Quote, Backslash} /\ ValidateCz(text, s) # 0

(* Slip: half a pair is a character like any other.                        *)
AtSingle_Surrogates == AtUnit /\ Hex16(2) # 0

AtSingle == AtUnit /\ ~Surrogate(Hex16(2)) /\ Hex16(2) # 0

Parsing == op \in {"parse", "again"}
InBody  == Parsing /\ s > 1 /\ HasRoom

(* sb_init, before the first byte is stepped over.                         *)
OpenQuote ==
  /\ Parsing /\ s = 1 /\ AtQuote
  /\ s' = 2 /\ out' = <<>> /\ cap' = SB_INIT
  /\ UNCHANGED <<literal, keep, op, text, str>>

Take(n, w) ==
  /\ s' = s + n /\ out' = Written(w)
  /\ UNCHANGED <<literal, keep, op, text, cap, str>>

(* A failing assert ends the program.                                      *)
Abort == op' = "aborted" /\ UNCHANGED <<literal, keep, text, s, out, cap, str>>

(* utf8_write_char asserts that it is given a code point it can encode.    *)
TakeCode(n, u) ==
  IF IsScalar(u) THEN Take(n, WriteChar(u)) ELSE Abort

ParseLetter == InBody /\ AtLetter /\ Take(2, <<Unescaped[Here(1)]>>)

(* Slip: a fifth digit is stepped over.                                    *)
ParseSingle_FiveDigits == InBody /\ AtSingle /\ TakeCode(7, Hex16(2))

ParseSingle == InBody /\ AtSingle /\ TakeCode(6, Hex16(2))
ParsePair == InBody /\ AtPair /\ TakeCode(12, FromSurrogatePair(Hex16(2), Hex16(8)))
ParseCharacter ==
  /\ InBody /\ AtCharacter
  /\ Take(ValidateCz(text, s), SubSeq(text, s, s + ValidateCz(text, s) - 1))

(* success: sb_finish asserts that there is no NUL in what was written.    *)
CloseQuote ==
  /\ InBody /\ AtQuote
  /\ IF keep /\ \E k \in 1..Len(out) : out[k] = 0
     THEN Abort
     ELSE /\ op' = (IF op = "parse" THEN "parsed" ELSE "reparsed")
          /\ str' = (IF keep /\ op = "parse" THEN out ELSE str)
          /\ s' = s + 1
          /\ UNCHANGED <<literal, keep, text, out, cap>>

(* failed, with sb_free, or no quotation mark to begin with.               *)
Fail ==
  /\ \/ Parsing /\ s = 1 /\ ~AtQuote
     \/ InBody /\ ~AtQuote /\ ~AtLetter /\ ~AtSingle /\ ~AtPair /\ ~AtCharacter
  /\ op' = (IF op = "parse" THEN "refused" ELSE "rejected")
  /\ UNCHANGED <<literal, keep, text, s, out, cap, str>>
-----------------------------------------------------------------------------
(* json_encode_string of what was read; escape_unicode is always false.    *)

HexChar(d) == IF d < 10 THEN 48 + d ELSE 55 + d

(* write_hex16                                                             *)
WriteHex16(u) ==
  <<HexChar((u \div 4096) % 16), HexChar((u \div 256) % 16),
    HexChar((u \div 16) % 16), HexChar(u % 16)>>

(* The characters written as a backslash and a letter.                     *)
Escaped == [b \in {34, 92, 8, 12, 10, 13, 9} |->
  CASE b = 8 -> 98 [] b = 12 -> 102 [] b = 10 -> 110 [] b = 13 -> 114 [] b = 9 -> 116
    [] OTHER -> b]

(* Slip: a backslash stands for itself.                                    *)
Lettered_NoBackslash == {34, 8, 12, 10, 13, 9}

Lettered == DOMAIN Escaped

(* emit_string asserts that it is given UTF-8.                             *)
EmitOpen ==
  /\ op = "parsed" /\ keep
  /\ IF Validate(str)
     THEN /\ op' = "emit" /\ text' = str /\ s' = 1 /\ out' = <<Quote>> /\ cap' = SB_INIT
          /\ UNCHANGED <<literal, keep, str>>
     ELSE Abort

Emitting == op = "emit" /\ HasRoom /\ s <= Len(text)

EmitLetter ==
  Emitting /\ text[s] \in Lettered /\ Take(1, <<Backslash, Escaped[text[s]]>>)
EmitUnit ==
  /\ Emitting /\ text[s] \notin Lettered /\ text[s] < 31
  /\ Take(1, <<Backslash, 117>> \o WriteHex16(ReadChar(text, s)))
EmitCharacter ==
  /\ Emitting /\ text[s] \notin Lettered /\ text[s] >= 31
  /\ IF ValidateCz(text, s) # 0
     THEN Take(ValidateCz(text, s), SubSeq(text, s, s + ValidateCz(text, s) - 1))
     ELSE Abort

EmitClose ==
  /\ op = "emit" /\ HasRoom /\ s = Len(text) + 1
  /\ op' = "encoded" /\ out' = out \o <<Quote>>
  /\ UNCHANGED <<literal, keep, text, s, cap, str>>

(* What was written is read again.                                         *)
Reparse ==
  /\ op = "encoded"
  /\ op' = "again" /\ text' = out /\ s' = 1
  /\ UNCHANGED <<literal, keep, out, cap, str>>
-----------------------------------------------------------------------------
Init ==
  /\ literal \in Literals /\ keep \in BOOLEAN
  /\ op = "parse" /\ text = literal.text /\ s = 1
  /\ out = <<>> /\ cap = SB_INIT /\ str = <<>>

ParseTurn == OpenQuote \/ ParseLetter \/ ParseSingle \/ ParsePair \/ ParseCharacter \/ CloseQuote \/ Fail
EmitTurn  == EmitOpen \/ EmitLetter \/ EmitUnit \/ EmitCharacter \/ EmitClose

Next == Grow \/ ParseTurn \/ EmitTurn \/ Reparse
Spec == Init /\ [][Next]_vars

-----------------------------------------------------------------------------
TypeOK ==
  /\ keep \in BOOLEAN
  /\ op \in {"parse", "parsed", "refused", "emit", "encoded", "again", "reparsed",
            "rejected", "aborted"}
  /\ text \in Seq(1..255) /\ s \in 1..(Len(text) + 1)
  /\ out \in Seq(1..255) /\ str \in Seq(1..255) /\ cap \in Nat

(* No turn writes behind the room that sb_need has seen to, nor behind the *)
(* four bytes of throwaway_buffer.                                         *)
WritesFit == [][Len(out') <= IF keep THEN cap ELSE 4]_vars

(* What a literal means: escapes for the two halves of a pair stand side   *)
(* by side, the higher one first, and nothing stands for U+0000.           *)
IsHigh(p) == p.kind = "escape" /\ p.unit \in 55296..56319
IsLow(p)  == p.kind = "escape" /\ p.unit \in 56320..57343

WellFormed(l) ==
  /\ l.cut = 0
  /\ \A k \in 1..Len(l.pieces) :
       /\ l.pieces[k].kind # "bad" /\ l.pieces[k].unit # 0
       /\ IsHigh(l.pieces[k]) => k < Len(l.pieces) /\ IsLow(l.pieces[k + 1])
       /\ IsLow(l.pieces[k]) => k > 1 /\ IsHigh(l.pieces[k - 1])

Meaning(l) ==
  FlattenSeq([k \in 1..Len(l.pieces) |->
    IF IsLow(l.pieces[k]) THEN <<>>
    ELSE IF IsHigh(l.pieces[k])
      THEN WriteChar((l.pieces[k].unit - 55296) * 1024 + (l.pieces[k + 1].unit - 56320) + 65536)
      ELSE WriteChar(l.pieces[k].unit)])

(* parse_string accepts the literals that mean something and no others,    *)
(* whether or not its caller wants the string, and then returns what the   *)
(* literal means, having read all of it.                                   *)
ParsesRight ==
  /\ op = "parsed" => WellFormed(literal) /\ s = Len(text) + 1
                      /\ (keep => str = Meaning(literal))
  /\ op = "refused" => ~WellFormed(literal)

(* What json_encode_string writes is read back as the string it was given. *)
RoundTrip == op # "rejected" /\ (op = "reparsed" => out = str)

(* No assert fails: utf8_write_char is given code points it can encode,    *)
(* sb_finish strings without NUL and emit_string UTF-8.                    *)
AssertsHold == op # "aborted"

(* Inside the literals that json_encode_string writes there is no control  *)
(* character.                                                              *)
NoControlWritten == op = "encoded" => \A k \in 1..Len(out) : out[k] > 31
=============================================================================
