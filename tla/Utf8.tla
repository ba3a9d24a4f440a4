------------------------------- MODULE Utf8 -------------------------------
(***************************************************************************)
(* The UTF-8 and UTF-16 helpers of src/json.c.  A C string is the sequence *)
(* of its bytes without the NUL, and a position in it is an index.  The    *)
(* shifts and masks of the code are divisions and remainders by powers of  *)
(* two; 128..191 are the bytes with (b & 0xC0) == 0x80.                    *)
(***************************************************************************)
EXTENDS Integers, Sequences

(* The byte at i, which may be the terminator but not lie behind it: a     *)
(* read past the terminator has no value here.                             *)
ByteAt(s, i) == IF i = Len(s) + 1 THEN 0 ELSE s[i]

(* What UTF-8 can encode: all code points but U+D800..U+DFFF.              *)
IsScalar(u) == u \in Nat /\ u <= 1114111 /\ ~(55296 <= u /\ u <= 57343)

Continues(b) == b \in 128..191

(* Slip: the test that keeps out U+D800..U+DFFF is missing.                *)
ThreeBytes_Surrogates(c, d, e) ==
  /\ c \in 224..239 /\ Continues(d) /\ Continues(e)
  /\ ~(c = 224 /\ d < 160)

(* The three bytes of a character: no overlong form, no surrogate.         *)
ThreeBytes(c, d, e) ==
  /\ c \in 224..239 /\ Continues(d) /\ Continues(e)
  /\ ~(c = 224 /\ d < 160)
  /\ ~(c = 237 /\ d > 159)

(* Slip: off by one, the code points from U+10000 on are refused.          *)
FourBytes_OffByOne(c, d, e, f) ==
  /\ c \in 240..244 /\ Continues(d) /\ Continues(e) /\ Continues(f)
  /\ ~(c = 240 /\ d <= 144)
  /\ ~(c = 244 /\ d > 143)

(* The four bytes of a character: no overlong form, at most U+10FFFF.      *)
FourBytes(c, d, e, f) ==
  /\ c \in 240..244 /\ Continues(d) /\ Continues(e) /\ Continues(f)
  /\ ~(c = 240 /\ d < 144)
  /\ ~(c = 244 /\ d > 143)

(* utf8_validate_cz: the length of the character at i, 0 if there is none. *)
(* A byte is read only if all before it are a lead and its continuations.  *)
LengthOf(c, d, e, f) ==
  CASE c <= 127                           -> 1
    [] c \in 194..223 /\ Continues(d)     -> 2
    [] ThreeBytes(c, d, e)                -> 3
    [] FourBytes(c, d, e, f)              -> 4
    [] OTHER                              -> 0

ValidateCz(s, i) ==
  LengthOf(ByteAt(s, i), ByteAt(s, i + 1), ByteAt(s, i + 2), ByteAt(s, i + 3))

(* utf8_validate: the string is one such character after the other.        *)
Validate(s) ==
  LET from[i \in 1..(Len(s) + 1)] ==
        i = Len(s) + 1 \/ (ValidateCz(s, i) # 0 /\ from[i + ValidateCz(s, i)])
  IN  from[1]

(* utf8_read_char: the code point at i, which utf8_validate_cz accepts.    *)
CodeOf(c, d, e, f) ==
  IF c <= 127 THEN c
  ELSE IF c <= 223 THEN (c % 32) * 64 + (d % 64)
  ELSE IF c <= 239 THEN (c % 16) * 4096 + (d % 64) * 64 + (e % 64)
  ELSE (c % 8) * 262144 + (d % 64) * 4096 + (e % 64) * 64 + (f % 64)

ReadChar(s, i) ==
  CodeOf(ByteAt(s, i), ByteAt(s, i + 1), ByteAt(s, i + 2), ByteAt(s, i + 3))

(* utf8_write_char: the bytes of a code point.                             *)
WriteChar(u) ==
  IF u <= 127 THEN <<u>>
  ELSE IF u <= 2047 THEN <<192 + (u \div 64), 128 + (u % 64)>>
  ELSE IF u <= 65535 THEN <<224 + (u \div 4096), 128 + ((u \div 64) % 64), 128 + (u % 64)>>
  ELSE <<240 + (u \div 262144), 128 + ((u \div 4096) % 64),
         128 + ((u \div 64) % 64), 128 + (u % 64)>>

(* Slip: the second half of a surrogate pair is not looked at.             *)
IsSurrogatePair_AnyLow(uc, lc) == uc \in 55296..56319

(* from_surrogate_pair: its result and its output.                         *)
IsSurrogatePair(uc, lc) == uc \in 55296..56319 /\ lc \in 56320..57343
FromSurrogatePair(uc, lc) == 65536 + (uc % 1024) * 1024 + (lc % 1024)
=============================================================================
