------------------------------- MODULE Base64 -------------------------------
(***************************************************************************)
(* src/base64.c.  base64_encode is a state machine, a step per turn of its *)
(* loop, because where it writes is the question; the decoders are         *)
(* operators on a whole text.  A character of base64_table is its index    *)
(* 0..63; the other characters of a text are the codes below.              *)
(***************************************************************************)
EXTENDS Integers, SequencesExt

CONSTANTS
  Data,         \* what base64_encode is called with
  Foreign,      \* texts that come from elsewhere
  SizeMod       \* size_t counts modulo this

ASSUME Base64Assumption ==
  /\ Data \subseteq Seq(0..255) /\ Foreign \subseteq Seq(0..69)
  /\ \A t \in Data : Len(t) < SizeMod
  /\ SizeMod \in Nat /\ SizeMod % 4 = 0 /\ SizeMod >= 256

Pad   == 64    \* '='
LF    == 65    \* '\n', and '\r' and ' ' which are treated alike
Minus == 66    \* '-', index 62 in base64_reverse_table only
Under == 67    \* '_', index 63 in base64_reverse_table only
Other == 68    \* any other ASCII character
High  == 69    \* a byte over 127, negative as a char

Unwritten == -1   \* a byte of the output buffer that no one wrote

VARIABLES
  src, in,    \* what is encoded, and how many of its bytes are done
  cap,        \* *out_len on entry
  out,        \* the characters written, the terminator excepted
  line_len,
  stage       \* "call", "loop", "encoded", "refused", or "foreign"

codecVars == <<src, in, cap, out, line_len, stage>>

-----------------------------------------------------------------------------
(* base64_encode.                                                          *)

(* Slip: the newlines are forgotten.                                       *)
ReqBufSz_NoNewlines(n) == (((n * 4) % SizeMod) \div 3 + 6) % SizeMod

ReqBufSz(n) ==
  LET olen == ((n * 4) % SizeMod) \div 3 + 4
  IN  (olen + olen \div 72 + 2) % SizeMod

(* The four characters of three bytes.                                     *)
Quad(x, y, z) ==
  <<x \div 4, (x % 4) * 16 + y \div 16, (y % 16) * 4 + z \div 64, z % 64>>

CodecInit ==
  /\ in = 0 /\ line_len = 0
  /\ \/ /\ stage = "call" /\ src \in Data /\ out = <<>>
        /\ cap \in {ReqBufSz(Len(src)) - 1, ReqBufSz(Len(src))}
     \/ stage = "foreign" /\ src = <<>> /\ out \in Foreign /\ cap = Len(out)

Rest == Len(src) - in
Byte(k) == src[in + k]

(* The three tests at the top; the second is the one for overflow, the     *)
(* third for a caller whose buffer could not be allocated.                 *)
Call ==
  LET olen == ReqBufSz(Len(src)) IN
  /\ stage = "call"
  /\ \/ olen > cap /\ stage' = "refused" /\ cap' = olen
     \/ olen <= cap /\ stage' = "refused" /\ cap' = cap
     \/ olen <= cap /\ olen >= Len(src) /\ stage' = "loop" /\ cap' = cap
  /\ UNCHANGED <<src, in, out, line_len>>

EncodeBlock ==
  LET full == line_len + 4 >= 72 IN
  /\ stage = "loop" /\ Rest >= 3
  /\ in' = in + 3
  /\ out' = out \o Quad(Byte(1), Byte(2), Byte(3)) \o (IF full THEN <<LF>> ELSE <<>>)
  /\ line_len' = IF full THEN 0 ELSE line_len + 4
  /\ UNCHANGED <<src, cap, stage>>

(* What is left, padded, and the last newline.                             *)
LastQuad ==
  CASE Rest = 0 -> <<>>
    [] Rest = 1 -> SubSeq(Quad(Byte(1), 0, 0), 1, 2) \o <<Pad, Pad>>
    [] Rest = 2 -> SubSeq(Quad(Byte(1), Byte(2), 0), 1, 3) \o <<Pad>>

EncodeTail ==
  /\ stage = "loop" /\ Rest < 3
  /\ out' = out \o LastQuad \o (IF line_len > 0 \/ Rest > 0 THEN <<LF>> ELSE <<>>)
  /\ stage' = "encoded"
  /\ UNCHANGED <<src, in, cap, line_len>>

CodecNext == Call \/ EncodeBlock \/ EncodeTail

CodecSpec == CodecInit /\ [][CodecNext]_codecVars

-----------------------------------------------------------------------------
(* base64_decode_ex.                                                       *)

Fault == -2   \* what rc is if the table was read outside its bounds

AccMod == 16777216   \* 2^24

(* 2^n, for the shifts that occur.                                         *)
Weight == [n \in {0, 2, 4} |-> IF n = 0 THEN 1 ELSE IF n = 2 THEN 4 ELSE 16]

(* A turn of its loop.  The accumulator is never masked; its upper bits    *)
(* are lost and none of them is used.                                      *)
Collect(s, c) ==
  IF s.rc # 0 \/ c \in {Pad, LF} THEN s
  ELSE IF c = High THEN [s EXCEPT !.rc = Fault]
  ELSE IF c = Other THEN [s EXCEPT !.rc = -1]
  ELSE LET v    == IF c = Minus THEN 62 ELSE IF c = Under THEN 63 ELSE c
           acc  == (s.acc * 64 + v) % AccMod
           bits == s.bits + 6
       IN  IF bits < 8 THEN [s EXCEPT !.acc = acc, !.bits = bits]
           ELSE [s EXCEPT !.acc = acc, !.bits = bits - 8,
                          !.dst = Append(s.dst, (acc \div Weight[bits - 8]) % 256)]

(* The loop reads a character before it looks at the length: of an empty   *)
(* text the terminator, which is in no alphabet.                           *)
DecodeEx(text) ==
  IF text = <<>> THEN [rc |-> -1, dst |-> <<>>]
  ELSE FoldLeft(Collect, [rc |-> 0, acc |-> 0, bits |-> 0, dst |-> <<>>], text)

-----------------------------------------------------------------------------
(* base64_decode.                                                          *)

(* The bytes of a block of four, pad of which are '='.                     *)
Triple(b) == <<(b[1] * 4 + b[2] \div 16) % 256,
               (b[2] * 16 + b[3] \div 4) % 256,
               (b[3] * 64 + b[4]) % 256>>

(* Slip: the last block gives three bytes whatever its padding.            *)
BlockBytes_KeepsPadding(b, pad) == Triple(b)

BlockBytes(b, pad) == SubSeq(Triple(b), 1, 3 - pad)

(* A turn of the second loop: a character of dtable joins the block, the   *)
(* fourth completes it, and behind a block with an '=' the loop ends.      *)
Gather(s, c) ==
  LET block == Append(s.block, c % Pad)
      pad   == IF c = Pad THEN s.pad + 1 ELSE s.pad
  IN  IF c > Pad \/ (s.block = <<>> /\ s.pad > 0) THEN s
      ELSE IF Len(block) < 4 THEN [block |-> block, pad |-> pad, dst |-> s.dst]
      ELSE [block |-> <<>>, pad |-> pad, dst |-> s.dst \o BlockBytes(block, pad)]

Decode(text, room) ==
  LET count == Cardinality({i \in 1..Len(text) : text[i] <= Pad})
      read  == FoldLeft(Gather, [block |-> <<>>, pad |-> 0, dst |-> <<>>], text)
  IN  IF count = 0 \/ count % 4 # 0 \/ 3 * (count \div 4) > room \/ read.pad > 2
      THEN [rc |-> -1, dst |-> <<>>]
      ELSE [rc |-> 0, dst |-> read.dst]

(* base64_decode_forgiving.  Both results are ignored; a call that fails   *)
(* leaves its length at the room it was given.                             *)
Filled(r, room) == IF r.rc = 0 THEN r.dst ELSE [i \in 1..room |-> Unwritten]

DecodeForgiving(text, room) ==
  LET whole == Len(text) - (Len(text) % 4)
      front == Filled(Decode(SubSeq(text, 1, whole), room), room)
      rest  == SubSeq(text, whole + 1, Len(text)) \o <<Pad, Pad, Pad>>
      left  == room - Len(front)
  IN  IF whole = Len(text) THEN front
      ELSE front \o Filled(Decode(SubSeq(rest, 1, 4), left), left)

-----------------------------------------------------------------------------

(* base64_encode writes inside the size that base64_reqbufsz asks for, the *)
(* newlines and the terminator included, and for no length does that size  *)
(* wrap round and pass its own test.                                       *)
EncodeFits ==
  /\ stage = "loop" => Len(out) < cap
  /\ stage = "encoded" => Len(out) + 1 <= cap

(* A text without its newlines and padding.                                *)
Keep(text, c) == IF c < Pad THEN Append(text, c) ELSE text

Bare(text) == FoldLeft(Keep, <<>>, text)

(* The decoders give back what was encoded, base64_decode with the room it *)
(* asks for, base64_decode_forgiving also without newlines and padding,    *)
(* unless that leaves fewer than four characters: then it reports a buffer *)
(* full of bytes that it never wrote.                                      *)
DecodesBack ==
  stage = "encoded" =>
    LET bare == Bare(out)
        room == Len(src) + 2
    IN  /\ src # <<>> => /\ DecodeEx(out).rc = 0 /\ DecodeEx(out).dst = src
                          /\ Decode(out, room) = [rc |-> 0, dst |-> src]
        /\ DecodeForgiving(bare, room) =
             IF Len(bare) < 4 THEN [i \in 1..room |-> Unwritten] ELSE src

(* A text of the common alphabet that base64_decode takes, base64_decode_ex*)
(* takes too and reads the same way, if '=' stands at its end only.        *)
DecodersAgree ==
  stage = "foreign" =>
    LET d == Decode(out, cap)
        ended == \A i, j \in 1..Len(out) : i < j /\ out[i] = Pad => out[j] >= Pad
    IN  d.rc = 0 /\ ended /\ (\A c \in ToSet(out) : c <= LF) =>
          DecodeEx(out).rc = 0 /\ DecodeEx(out).dst = d.dst
=============================================================================
