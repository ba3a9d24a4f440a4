------------------------- MODULE JsonString_proofs --------------------------
(***************************************************************************)
(* Proofs about the strings of json.c: what utf8_validate_cz accepts,      *)
(* utf8_read_char reads and utf8_write_char writes; utf8_validate, which   *)
(* accepts exactly what utf8_write_char can write; and parse_string and    *)
(* emit_string, which stay in their buffers, pass their asserts and read   *)
(* back what they write.                                                   *)
(***************************************************************************)
EXTENDS JsonString, Utf8Scan, Reach_proofs

Byte == 1..255

(* A byte that can be read is a byte; in front of the terminator it is not *)
(* NUL.                                                                    *)
LEMMA ByteRange ==
  ASSUME NEW t \in Seq(Byte), NEW i \in 1..(Len(t) + 1)
  PROVE  /\ ByteAt(t, i) \in 0..255
         /\ ByteAt(t, i) # 0 => i \in 1..Len(t) /\ ByteAt(t, i) = t[i]
<1>1. Len(t) \in Nat
  OBVIOUS
<1>2. CASE i = Len(t) + 1
  BY <1>1, <1>2 DEF ByteAt
<1>3. CASE i # Len(t) + 1
  <2>1. i \in 1..Len(t) /\ t[i] \in Byte
    BY <1>1, <1>3
  <2>2. QED
    BY <2>1, <1>3 DEF ByteAt, Byte
<1>4. QED
  BY <1>2, <1>3

-----------------------------------------------------------------------------
(* What is read from two, three or four bytes is written as those bytes.   *)

Reads2(c, d, u) == u = (c % 32) * 64 + (d % 64)
Reads3(c, d, e, u) == u = (c % 16) * 4096 + (d % 64) * 64 + (e % 64)
Reads4(c, d, e, f, u) ==
  u = (c % 8) * 262144 + (d % 64) * 4096 + (e % 64) * 64 + (f % 64)

In2(u) == u \in Int /\ 128 <= u /\ u <= 2047
In3(u) == u \in Int /\ 2048 <= u /\ u <= 65535 /\ ~(55296 <= u /\ u <= 57343)
In4(u) == u \in Int /\ 65536 <= u /\ u <= 1114111

Writes2(u, c, d) == c = 192 + (u \div 64) /\ d = 128 + (u % 64)
Writes3(u, c, d, e) ==
  c = 224 + (u \div 4096) /\ d = 128 + ((u \div 64) % 64) /\ e = 128 + (u % 64)
Writes4(u, c, d, e, f) ==
  /\ c = 240 + (u \div 262144) /\ d = 128 + ((u \div 4096) % 64)
  /\ e = 128 + ((u \div 64) % 64) /\ f = 128 + (u % 64)

TwoBytes(c, d) == c \in 194..223 /\ Continues(d)

LEMMA Read2 ==
  ASSUME NEW c \in Int, NEW d \in Int, NEW u, TwoBytes(c, d), Reads2(c, d, u)
  PROVE  In2(u) /\ Writes2(u, c, d)
<1>1. In2(u)
  BY SMTT(60) DEF TwoBytes, Continues, Reads2, In2
<1>2. c = 192 + (u \div 64)
  BY SMTT(60) DEF TwoBytes, Continues, Reads2
<1>3. d = 128 + (u % 64)
  BY SMTT(60) DEF TwoBytes, Continues, Reads2
<1>4. QED
  BY <1>1, <1>2, <1>3, Zenon DEF Writes2

LEMMA Read3 ==
  ASSUME NEW c \in Int, NEW d \in Int, NEW e \in Int, NEW u,
         ThreeBytes(c, d, e), Reads3(c, d, e, u)
  PROVE  In3(u) /\ Writes3(u, c, d, e)
<1>1. In3(u)
  BY SMTT(60) DEF ThreeBytes, Continues, Reads3, In3
<1>2. c = 224 + (u \div 4096)
  BY SMTT(60) DEF ThreeBytes, Continues, Reads3
<1>3. d = 128 + ((u \div 64) % 64)
  BY SMTT(60) DEF ThreeBytes, Continues, Reads3
<1>4. e = 128 + (u % 64)
  BY SMTT(60) DEF ThreeBytes, Continues, Reads3
<1>5. QED
  BY <1>1, <1>2, <1>3, <1>4, SMT DEF Writes3

LEMMA Read4 ==
  ASSUME NEW c \in Int, NEW d \in Int, NEW e \in Int, NEW f \in Int, NEW u,
         FourBytes(c, d, e, f), Reads4(c, d, e, f, u)
  PROVE  In4(u) /\ Writes4(u, c, d, e, f)
<1>1. In4(u)
  BY SMTT(60) DEF FourBytes, Continues, Reads4, In4
<1>2. c = 240 + (u \div 262144)
  BY SMTT(60) DEF FourBytes, Continues, Reads4
<1>3. d = 128 + ((u \div 4096) % 64)
  BY SMTT(60) DEF FourBytes, Continues, Reads4
<1>4. e = 128 + ((u \div 64) % 64)
  BY SMTT(60) DEF FourBytes, Continues, Reads4
<1>5. f = 128 + (u % 64)
  BY SMTT(60) DEF FourBytes, Continues, Reads4
<1>6. QED
  BY <1>1, <1>2, <1>3, <1>4, <1>5, SMT DEF Writes4

-----------------------------------------------------------------------------
(* What is written as two, three or four bytes is read back from them.     *)

LEMMA Write2 ==
  ASSUME NEW u, NEW c, NEW d, In2(u), Writes2(u, c, d)
  PROVE  c \in Int /\ d \in Int /\ TwoBytes(c, d) /\ Reads2(c, d, u)
<1>1. c \in 194..223 /\ d \in 128..191
  BY SMTT(60) DEF In2, Writes2
<1>2. Reads2(c, d, u)
  BY SMTT(60) DEF In2, Writes2, Reads2
<1>3. QED
  BY <1>1, <1>2 DEF TwoBytes, Continues

LEMMA Write3 ==
  ASSUME NEW u, NEW c, NEW d, NEW e, In3(u), Writes3(u, c, d, e)
  PROVE  /\ c \in Int /\ d \in Int /\ e \in Int
         /\ ThreeBytes(c, d, e) /\ Reads3(c, d, e, u)
<1>1. c \in 224..239 /\ d \in 128..191 /\ e \in 128..191
  BY SMTT(60) DEF In3, Writes3
<1>2. ~(c = 224 /\ d < 160)
  BY SMTT(60) DEF In3, Writes3
<1>3. ~(c = 237 /\ d > 159)
  BY SMTT(60) DEF In3, Writes3
<1>4. Reads3(c, d, e, u)
  BY SMTT(60) DEF In3, Writes3, Reads3
<1>5. QED
  BY <1>1, <1>2, <1>3, <1>4 DEF ThreeBytes, Continues

LEMMA Write4 ==
  ASSUME NEW u, NEW c, NEW d, NEW e, NEW f, In4(u), Writes4(u, c, d, e, f)
  PROVE  /\ c \in Int /\ d \in Int /\ e \in Int /\ f \in Int
         /\ FourBytes(c, d, e, f) /\ Reads4(c, d, e, f, u)
<1>1. c \in 240..244 /\ d \in 128..191 /\ e \in 128..191 /\ f \in 128..191
  BY SMTT(60) DEF In4, Writes4
<1>2. ~(c = 240 /\ d < 144)
  BY SMTT(60) DEF In4, Writes4
<1>3. ~(c = 244 /\ d > 143)
  BY SMTT(60) DEF In4, Writes4
<1>4. Reads4(c, d, e, f, u)
  BY SMTT(60) DEF In4, Writes4, Reads4
<1>5. QED
  BY <1>1, <1>2, <1>3, <1>4 DEF FourBytes, Continues

-----------------------------------------------------------------------------
(* utf8_validate_cz on four bytes, the last of which may not be there.     *)

LEMMA LengthOfWhole ==
  ASSUME NEW c \in 0..255, NEW d, NEW e, NEW f
  PROVE  /\ c <= 127 => LengthOf(c, d, e, f) = 1
         /\ c \in 194..223 /\ Continues(d) => LengthOf(c, d, e, f) = 2
         /\ ThreeBytes(c, d, e) => LengthOf(c, d, e, f) = 3
         /\ FourBytes(c, d, e, f) => LengthOf(c, d, e, f) = 4
BY SMT DEF LengthOf, ThreeBytes, FourBytes, Continues

LEMMA LengthOfOther ==
  ASSUME NEW c \in 0..255, NEW d, NEW e, NEW f,
         ~(c <= 127), ~(c \in 194..223 /\ Continues(d)),
         ~ThreeBytes(c, d, e), ~FourBytes(c, d, e, f)
  PROVE  LengthOf(c, d, e, f) = 0
BY SMT DEF LengthOf

LEMMA LengthOfCases ==
  ASSUME NEW c \in 0..255, NEW d, NEW e, NEW f
  PROVE  \/ LengthOf(c, d, e, f) = 0
         \/ LengthOf(c, d, e, f) = 1 /\ c <= 127
         \/ LengthOf(c, d, e, f) = 2 /\ TwoBytes(c, d)
         \/ LengthOf(c, d, e, f) = 3 /\ ThreeBytes(c, d, e)
         \/ LengthOf(c, d, e, f) = 4 /\ FourBytes(c, d, e, f)
<1>1. CASE c <= 127
  BY <1>1, LengthOfWhole
<1>2. CASE c \in 194..223 /\ Continues(d)
  BY <1>2, LengthOfWhole DEF TwoBytes
<1>3. CASE ThreeBytes(c, d, e)
  BY <1>3, LengthOfWhole
<1>4. CASE FourBytes(c, d, e, f)
  BY <1>4, LengthOfWhole
<1>5. CASE /\ ~(c <= 127) /\ ~(c \in 194..223 /\ Continues(d))
           /\ ~ThreeBytes(c, d, e) /\ ~FourBytes(c, d, e, f)
  BY <1>5, LengthOfOther, Zenon
<1>6. QED
  BY <1>1, <1>2, <1>3, <1>4, <1>5, Zenon

LEMMA ContinuesInside ==
  ASSUME NEW t \in Seq(Byte), NEW j \in 1..(Len(t) + 1), Continues(ByteAt(t, j))
  PROVE  j \in 1..Len(t) /\ ByteAt(t, j) = t[j]
BY DEF Continues, ByteAt

(* The characters that utf8_validate_cz accepts, byte by byte.             *)
LEMMA WhatWasSeen ==
  ASSUME NEW t \in Seq(Byte), NEW i \in 1..Len(t)
  PROVE  \/ ValidateCz(t, i) = 0
         \/ ValidateCz(t, i) = 1 /\ t[i] <= 127
         \/ /\ ValidateCz(t, i) = 2 /\ i + 1 <= Len(t)
            /\ TwoBytes(t[i], t[i + 1])
         \/ /\ ValidateCz(t, i) = 3 /\ i + 2 <= Len(t)
            /\ ThreeBytes(t[i], t[i + 1], t[i + 2])
         \/ /\ ValidateCz(t, i) = 4 /\ i + 3 <= Len(t)
            /\ FourBytes(t[i], t[i + 1], t[i + 2], t[i + 3])
<1> DEFINE c == ByteAt(t, i)
           d == ByteAt(t, i + 1)
           e == ByteAt(t, i + 2)
           f == ByteAt(t, i + 3)
<1>1. c = t[i] /\ c \in 0..255 /\ Len(t) \in Nat
  <2>1. t[i] \in Byte /\ Len(t) \in Nat /\ i # Len(t) + 1
    OBVIOUS
  <2>2. c = t[i]
    BY <2>1 DEF ByteAt
  <2>3. t[i] \in 0..255
    BY <2>1 DEF Byte
  <2>4. QED
    BY <2>1, <2>2, <2>3, Zenon
<1>2. ValidateCz(t, i) = LengthOf(c, d, e, f)
  BY DEF ValidateCz
<1>3. Continues(d) => i + 1 \in 1..Len(t) /\ d = t[i + 1]
  BY <1>1, ContinuesInside
<1>4. Continues(d) /\ Continues(e) => i + 2 \in 1..Len(t) /\ e = t[i + 2]
  BY <1>1, <1>3, ContinuesInside
<1>5. Continues(d) /\ Continues(e) /\ Continues(f) => i + 3 \in 1..Len(t) /\ f = t[i + 3]
  BY <1>1, <1>4, ContinuesInside
<1> HIDE DEF c, d, e, f
<1>6. CASE LengthOf(c, d, e, f) = 0
  BY <1>2, <1>6
<1>7. CASE LengthOf(c, d, e, f) = 1 /\ c <= 127
  BY <1>1, <1>2, <1>7
<1>8. CASE LengthOf(c, d, e, f) = 2 /\ TwoBytes(c, d)
  <2>1. Continues(d)
    BY <1>8, Zenon DEF TwoBytes
  <2>2. i + 1 <= Len(t) /\ d = t[i + 1]
    BY <1>1, <1>3, <2>1
  <2>3. QED
    BY <1>1, <1>2, <1>8, <2>2, Zenon
<1>9. CASE LengthOf(c, d, e, f) = 3 /\ ThreeBytes(c, d, e)
  <2>1. Continues(d) /\ Continues(e)
    BY <1>9 DEF ThreeBytes
  <2>2. QED
    BY <1>1, <1>2, <1>3, <1>4, <1>9, <2>1
<1>10. CASE LengthOf(c, d, e, f) = 4 /\ FourBytes(c, d, e, f)
  <2>1. Continues(d) /\ Continues(e) /\ Continues(f)
    BY <1>10 DEF FourBytes
  <2>2. QED
    BY <1>1, <1>2, <1>3, <1>4, <1>5, <1>10, <2>1
<1>11. QED
  <2>1. \/ LengthOf(c, d, e, f) = 0
        \/ LengthOf(c, d, e, f) = 1 /\ c <= 127
        \/ LengthOf(c, d, e, f) = 2 /\ TwoBytes(c, d)
        \/ LengthOf(c, d, e, f) = 3 /\ ThreeBytes(c, d, e)
        \/ LengthOf(c, d, e, f) = 4 /\ FourBytes(c, d, e, f)
    BY <1>1, LengthOfCases, Zenon
  <2>2. QED
    BY <2>1, <1>6, <1>7, <1>8, <1>9, <1>10, Zenon

-----------------------------------------------------------------------------
(* utf8_write_char and utf8_read_char in terms of these relations.         *)

LEMMA WriteForms ==
  ASSUME NEW u, NEW c, NEW d, NEW e, NEW f
  PROVE  /\ u \in Int /\ u <= 127 => WriteChar(u) = <<u>>
         /\ In2(u) /\ Writes2(u, c, d) => WriteChar(u) = <<c, d>>
         /\ In3(u) /\ Writes3(u, c, d, e) => WriteChar(u) = <<c, d, e>>
         /\ In4(u) /\ Writes4(u, c, d, e, f) => WriteChar(u) = <<c, d, e, f>>
<1>1. u \in Int /\ u <= 127 => WriteChar(u) = <<u>>
  BY SMT DEF WriteChar
<1>2. In2(u) /\ Writes2(u, c, d) => WriteChar(u) = <<c, d>>
  BY SMT DEF WriteChar, In2, Writes2
<1>3. In3(u) /\ Writes3(u, c, d, e) => WriteChar(u) = <<c, d, e>>
  BY SMT DEF WriteChar, In3, Writes3
<1>4. In4(u) /\ Writes4(u, c, d, e, f) => WriteChar(u) = <<c, d, e, f>>
  BY SMT DEF WriteChar, In4, Writes4
<1>5. QED
  BY <1>1, <1>2, <1>3, <1>4, Zenon

LEMMA ReadForms ==
  ASSUME NEW c \in Int, NEW d, NEW e, NEW f
  PROVE  /\ c <= 127 => CodeOf(c, d, e, f) = c
         /\ c \in 194..223 => Reads2(c, d, CodeOf(c, d, e, f))
         /\ c \in 224..239 => Reads3(c, d, e, CodeOf(c, d, e, f))
         /\ c \in 240..244 => Reads4(c, d, e, f, CodeOf(c, d, e, f))
BY SMT DEF CodeOf, Reads2, Reads3, Reads4

LEMMA ScalarRanges ==
  ASSUME NEW u
  PROVE  IsScalar(u) <=> (u \in 0..127 \/ In2(u) \/ In3(u) \/ In4(u))
BY SMT DEF IsScalar, In2, In3, In4

(* What n accepted bytes stand for is a code point, written as these n.    *)
LEMMA AcceptedIsEncoded ==
  ASSUME NEW c \in Byte, NEW d, NEW e, NEW f
  PROVE  /\ c <= 127 =>
              IsScalar(CodeOf(c, d, e, f)) /\ WriteChar(CodeOf(c, d, e, f)) = <<c>>
         /\ TwoBytes(c, d) =>
              IsScalar(CodeOf(c, d, e, f)) /\ WriteChar(CodeOf(c, d, e, f)) = <<c, d>>
         /\ ThreeBytes(c, d, e) =>
              IsScalar(CodeOf(c, d, e, f)) /\ WriteChar(CodeOf(c, d, e, f)) = <<c, d, e>>
         /\ FourBytes(c, d, e, f) =>
              IsScalar(CodeOf(c, d, e, f)) /\ WriteChar(CodeOf(c, d, e, f)) = <<c, d, e, f>>
<1> DEFINE u == CodeOf(c, d, e, f)
<1>1. c \in Int /\ c >= 1
  BY SMT DEF Byte
<1>2. /\ c <= 127 => u = c
      /\ c \in 194..223 => Reads2(c, d, u)
      /\ c \in 224..239 => Reads3(c, d, e, u)
      /\ c \in 240..244 => Reads4(c, d, e, f, u)
  BY <1>1, ReadForms
<1> HIDE DEF u
<1>3. c <= 127 => IsScalar(u) /\ WriteChar(u) = <<c>>
  <2>1. c <= 127 => u \in 0..127
    BY <1>1, <1>2
  <2>2. QED
    BY <1>1, <1>2, <2>1, WriteForms, ScalarRanges, Zenon
<1>4. TwoBytes(c, d) => IsScalar(u) /\ WriteChar(u) = <<c, d>>
  <2>1. TwoBytes(c, d) => c \in 194..223 /\ d \in Int
    BY DEF TwoBytes, Continues
  <2>2. TwoBytes(c, d) => In2(u) /\ Writes2(u, c, d)
    BY <1>1, <1>2, <2>1, Read2, Zenon
  <2>3. In2(u) /\ Writes2(u, c, d) => WriteChar(u) = <<c, d>>
    BY WriteForms, Zenon
  <2>4. In2(u) => IsScalar(u)
    BY ScalarRanges, Zenon
  <2>5. QED
    BY <2>2, <2>3, <2>4, Zenon
<1>5. ThreeBytes(c, d, e) => IsScalar(u) /\ WriteChar(u) = <<c, d, e>>
  <2>1. ThreeBytes(c, d, e) => c \in 224..239 /\ d \in Int /\ e \in Int
    BY DEF ThreeBytes, Continues
  <2>2. ThreeBytes(c, d, e) => In3(u) /\ Writes3(u, c, d, e)
    BY <1>1, <1>2, <2>1, Read3, Zenon
  <2>3. In3(u) /\ Writes3(u, c, d, e) => WriteChar(u) = <<c, d, e>>
    BY WriteForms, Zenon
  <2>4. In3(u) => IsScalar(u)
    BY ScalarRanges, Zenon
  <2>5. QED
    BY <2>2, <2>3, <2>4, Zenon
<1>6. FourBytes(c, d, e, f) => IsScalar(u) /\ WriteChar(u) = <<c, d, e, f>>
  <2>1. FourBytes(c, d, e, f) => c \in 240..244 /\ d \in Int /\ e \in Int /\ f \in Int
    BY DEF FourBytes, Continues
  <2>2. FourBytes(c, d, e, f) => In4(u) /\ Writes4(u, c, d, e, f)
    BY <1>1, <1>2, <2>1, Read4, Zenon
  <2>3. In4(u) /\ Writes4(u, c, d, e, f) => WriteChar(u) = <<c, d, e, f>>
    BY WriteForms, Zenon
  <2>4. In4(u) => IsScalar(u)
    BY ScalarRanges, Zenon
  <2>5. QED
    BY <2>2, <2>3, <2>4, Zenon
<1>7. QED
  BY <1>3, <1>4, <1>5, <1>6, Zenon DEF u

(* The bytes of a code point are accepted, all of them, and read as it.    *)
LEMMA Encoded2 ==
  ASSUME NEW u, NEW c, NEW d, NEW e, NEW f, In2(u), Writes2(u, c, d)
  PROVE  LengthOf(c, d, e, f) = 2 /\ CodeOf(c, d, e, f) = u
<1>1. c \in Int /\ c \in 194..223 /\ Continues(d) /\ Reads2(c, d, u)
  BY Write2 DEF TwoBytes
<1>2. c \in 0..255
  BY <1>1
<1>3. Reads2(c, d, CodeOf(c, d, e, f))
  BY <1>1, ReadForms, Zenon
<1>4. u = CodeOf(c, d, e, f)
  BY <1>1, <1>3, Zenon DEF Reads2
<1>5. QED
  BY <1>1, <1>2, <1>4, LengthOfWhole, Zenon

LEMMA Encoded3 ==
  ASSUME NEW u, NEW c, NEW d, NEW e, NEW f, In3(u), Writes3(u, c, d, e)
  PROVE  LengthOf(c, d, e, f) = 3 /\ CodeOf(c, d, e, f) = u
<1>1. c \in Int /\ ThreeBytes(c, d, e) /\ Reads3(c, d, e, u)
  BY Write3, Zenon
<1>2. c \in 0..255 /\ c \in 224..239
  BY <1>1 DEF ThreeBytes
<1>3. Reads3(c, d, e, CodeOf(c, d, e, f))
  BY <1>1, <1>2, ReadForms, Zenon
<1>4. u = CodeOf(c, d, e, f)
  BY <1>1, <1>3, SMT DEF Reads3
<1>5. QED
  BY <1>1, <1>2, <1>4, LengthOfWhole, Zenon

LEMMA Encoded4 ==
  ASSUME NEW u, NEW c, NEW d, NEW e, NEW f, In4(u), Writes4(u, c, d, e, f)
  PROVE  LengthOf(c, d, e, f) = 4 /\ CodeOf(c, d, e, f) = u
<1>1. c \in Int /\ FourBytes(c, d, e, f) /\ Reads4(c, d, e, f, u)
  BY Write4, Zenon
<1>2. c \in 0..255 /\ c \in 240..244
  BY <1>1 DEF FourBytes
<1>3. Reads4(c, d, e, f, CodeOf(c, d, e, f))
  BY <1>1, <1>2, ReadForms, Zenon
<1>4. u = CodeOf(c, d, e, f)
  BY <1>1, <1>3, SMT DEF Reads4
<1>5. QED
  BY <1>1, <1>2, <1>4, LengthOfWhole, Zenon

-----------------------------------------------------------------------------
(* utf8_validate.                                                          *)

(* The loop of utf8_validate.                                              *)

LEMMA InFront ==
  ASSUME ScanTypeOK, ~AtEnd
  PROVE  /\ string \in Seq(Byte) /\ Len(string) \in Nat /\ pos \in 1..Len(string)
         /\ ByteAt(string, pos) = string[pos] /\ string[pos] \in Byte
<1>1. string \in Seq(Byte) /\ Len(string) \in Nat /\ pos \in 1..(Len(string) + 1)
  BY DEF ScanTypeOK, Byte
<1>2. pos \in 1..Len(string) /\ ByteAt(string, pos) = string[pos]
  BY <1>1, ByteRange DEF AtEnd
<1>3. string[pos] \in Byte
  BY <1>1, <1>2
<1>4. QED
  BY <1>1, <1>2, <1>3, Zenon

(* A turn of the loop stays in front of the terminator or reaches it.      *)
LEMMA StaysInside ==
  ASSUME ScanTypeOK, ~AtEnd
  PROVE  ValidateCz(string, pos) \in Nat /\ pos + ValidateCz(string, pos) \in 1..(Len(string) + 1)
<1>1. string \in Seq(Byte) /\ Len(string) \in Nat /\ pos \in 1..Len(string)
  BY InFront
<1> DEFINE n == ValidateCz(string, pos)
<1>2. \/ n = 0 \/ n = 1
      \/ n = 2 /\ pos + 1 <= Len(string)
      \/ n = 3 /\ pos + 2 <= Len(string)
      \/ n = 4 /\ pos + 3 <= Len(string)
  BY <1>1, WhatWasSeen, Zenon
<1> HIDE DEF n
<1>3. n \in Nat /\ pos + n \in 1..(Len(string) + 1)
  BY <1>1, <1>2
<1>4. QED
  BY <1>3 DEF n

(* utf8_validate stops at the terminator: what utf8_validate_cz lets it    *)
(* step over ends at or in front of it.                                    *)
THEOREM ScanStaysInText == ScanSpec => []ScanTypeOK
<1>1. ScanInit => ScanTypeOK
  <2> SUFFICES ASSUME ScanInit PROVE ScanTypeOK
    OBVIOUS
  <2>1. string \in Seq(1..255) /\ pos = 1 /\ verdict = "none"
    BY TextsAssumption DEF ScanInit
  <2>2. Len(string) \in Nat
    BY <2>1
  <2>3. QED
    BY <2>1, <2>2 DEF ScanTypeOK
<1>2. ScanTypeOK /\ [ScanNext]_scanVars => ScanTypeOK'
  <2> SUFFICES ASSUME ScanTypeOK, [ScanNext]_scanVars PROVE ScanTypeOK'
    OBVIOUS
  <2>1. CASE Advance
    <3>1. ~AtEnd /\ pos' = pos + ValidateCz(string, pos) /\ string' = string /\ verdict' = verdict
      BY <2>1 DEF Advance
    <3>2. pos' \in 1..(Len(string) + 1)
      BY <3>1, StaysInside
    <3>3. QED
      BY <3>1, <3>2 DEF ScanTypeOK
  <2>2. CASE Refuse
    BY <2>2 DEF Refuse, ScanTypeOK
  <2>3. CASE Accept
    BY <2>3 DEF Accept, ScanTypeOK
  <2>4. CASE UNCHANGED scanVars
    BY <2>4 DEF scanVars, ScanTypeOK
  <2>5. QED
    BY <2>1, <2>2, <2>3, <2>4 DEF ScanNext
<1>3. QED
  BY <1>1, <1>2, PTL DEF ScanSpec

-----------------------------------------------------------------------------
(* The bytes w stand in t at i.                                            *)
StandsAt(t, i, w) ==
  i + Len(w) <= Len(t) + 1 /\ \A k \in 1..Len(w) : t[i + k - 1] = w[k]

Forms(t, i, c, d, e, f) ==
  /\ StandsAt(t, i, <<c>>) <=> i <= Len(t) /\ c = t[i]
  /\ StandsAt(t, i, <<c, d>>) <=> i + 1 <= Len(t) /\ c = t[i] /\ d = t[i + 1]
  /\ StandsAt(t, i, <<c, d, e>>) <=>
       i + 2 <= Len(t) /\ c = t[i] /\ d = t[i + 1] /\ e = t[i + 2]
  /\ StandsAt(t, i, <<c, d, e, f>>) <=>
       i + 3 <= Len(t) /\ c = t[i] /\ d = t[i + 1] /\ e = t[i + 2] /\ f = t[i + 3]

LEMMA AtForms ==
  ASSUME NEW t \in Seq(Byte), Len(t) \in Nat, NEW i \in Nat, NEW c, NEW d, NEW e, NEW f
  PROVE  Forms(t, i, c, d, e, f)
<1>1. StandsAt(t, i, <<c>>) <=> i <= Len(t) /\ c = t[i]
  <2>1. Len(<<c>>) = 1 /\ 1..1 = {1} /\ <<c>>[1] = c
    OBVIOUS
  <2>2. StandsAt(t, i, <<c>>) <=> i + 1 <= Len(t) + 1 /\ t[i + 1 - 1] = <<c>>[1]
    BY <2>1, Zenon DEF StandsAt
  <2>3. QED
    BY <2>1, <2>2
<1>2. StandsAt(t, i, <<c, d>>) <=>
        i + 1 <= Len(t) /\ c = t[i] /\ d = t[i + 1]
  <2> DEFINE w == <<c, d>>
  <2>1. Len(w) = 2 /\ w[1] = c /\ w[2] = d
    OBVIOUS
  <2> HIDE DEF w
  <2>2. StandsAt(t, i, w) <=> /\ i + 2 <= Len(t) + 1
                          /\ \A k \in 1..2 : t[i + k - 1] = w[k]
    BY <2>1, Zenon DEF StandsAt
  <2>3. 1..2 = {1, 2}
    OBVIOUS
  <2>4. (\A k \in 1..2 : t[i + k - 1] = w[k]) <=>
          t[i + 1 - 1] = w[1] /\ t[i + 2 - 1] = w[2]
    BY <2>3, Zenon
  <2>5. i + 1 - 1 = i /\ i + 2 - 1 = i + 1
    OBVIOUS
  <2>6. i + 2 <= Len(t) + 1 <=> i + 1 <= Len(t)
    OBVIOUS
  <2>7. StandsAt(t, i, w) <=> i + 1 <= Len(t) /\ c = t[i] /\ d = t[i + 1]
    BY <2>1, <2>2, <2>4, <2>5, <2>6, Zenon
  <2>8. QED
    BY <2>7, Zenon DEF w
<1>3. StandsAt(t, i, <<c, d, e>>) <=>
        i + 2 <= Len(t) /\ c = t[i] /\ d = t[i + 1] /\ e = t[i + 2]
  <2> DEFINE w == <<c, d, e>>
  <2>1. Len(w) = 3 /\ w[1] = c /\ w[2] = d /\ w[3] = e
    OBVIOUS
  <2> HIDE DEF w
  <2>2. StandsAt(t, i, w) <=> /\ i + 3 <= Len(t) + 1
                          /\ \A k \in 1..3 : t[i + k - 1] = w[k]
    BY <2>1, Zenon DEF StandsAt
  <2>3. 1..3 = {1, 2, 3}
    OBVIOUS
  <2>4. (\A k \in 1..3 : t[i + k - 1] = w[k]) <=>
          t[i + 1 - 1] = w[1] /\ t[i + 2 - 1] = w[2] /\ t[i + 3 - 1] = w[3]
    BY <2>3, Zenon
  <2>5. i + 1 - 1 = i /\ i + 2 - 1 = i + 1 /\ i + 3 - 1 = i + 2
    OBVIOUS
  <2>6. i + 3 <= Len(t) + 1 <=> i + 2 <= Len(t)
    OBVIOUS
  <2>7. StandsAt(t, i, w) <=>
          i + 2 <= Len(t) /\ c = t[i] /\ d = t[i + 1] /\ e = t[i + 2]
    BY <2>1, <2>2, <2>4, <2>5, <2>6, Zenon
  <2>8. QED
    BY <2>7, Zenon DEF w
<1>4. StandsAt(t, i, <<c, d, e, f>>) <=>
        /\ i + 3 <= Len(t) /\ c = t[i] /\ d = t[i + 1]
        /\ e = t[i + 2] /\ f = t[i + 3]
  <2> DEFINE w == <<c, d, e, f>>
  <2>1. Len(w) = 4 /\ w[1] = c /\ w[2] = d /\ w[3] = e /\ w[4] = f
    OBVIOUS
  <2> HIDE DEF w
  <2>2. StandsAt(t, i, w) <=> /\ i + 4 <= Len(t) + 1
                          /\ \A k \in 1..4 : t[i + k - 1] = w[k]
    BY <2>1, Zenon DEF StandsAt
  <2>3. 1..4 = {1, 2, 3, 4}
    OBVIOUS
  <2>4. (\A k \in 1..4 : t[i + k - 1] = w[k]) <=>
          /\ t[i + 1 - 1] = w[1] /\ t[i + 2 - 1] = w[2]
          /\ t[i + 3 - 1] = w[3] /\ t[i + 4 - 1] = w[4]
    BY <2>3, Zenon
  <2>5. i + 1 - 1 = i /\ i + 2 - 1 = i + 1 /\ i + 3 - 1 = i + 2 /\ i + 4 - 1 = i + 3
    OBVIOUS
  <2>6. i + 4 <= Len(t) + 1 <=> i + 3 <= Len(t)
    OBVIOUS
  <2>7. StandsAt(t, i, w) <=> /\ i + 3 <= Len(t) /\ c = t[i] /\ d = t[i + 1]
                          /\ e = t[i + 2] /\ f = t[i + 3]
    BY <2>1, <2>2, <2>4, <2>5, <2>6, Zenon
  <2>8. QED
    BY <2>7, Zenon DEF w
<1>5. QED
  BY <1>1, <1>2, <1>3, <1>4, Zenon DEF Forms

(* What is accepted at i is the encoding of a code point.                  *)
LEMMA ValidAt ==
  ASSUME NEW t \in Seq(Byte), NEW i \in 1..Len(t), ValidateCz(t, i) # 0
  PROVE  /\ i + ValidateCz(t, i) <= Len(t) + 1
         /\ IsScalar(ReadChar(t, i))
         /\ Len(WriteChar(ReadChar(t, i))) = ValidateCz(t, i)
         /\ StandsAt(t, i, WriteChar(ReadChar(t, i)))
<1> DEFINE c == ByteAt(t, i)
           d == ByteAt(t, i + 1)
           e == ByteAt(t, i + 2)
           f == ByteAt(t, i + 3)
           n == ValidateCz(t, i)
           w == WriteChar(ReadChar(t, i))
<1>0. \A k, l, m, o : Forms(t, i, k, l, m, o)
  BY AtForms
<1>1. /\ t \in Seq(Byte) /\ Len(t) \in Nat /\ i \in 1..Len(t) /\ i \in Nat
      /\ c = t[i] /\ c \in Byte
  <2>1. t[i] \in Byte /\ Len(t) \in Nat /\ i \in Nat /\ i # Len(t) + 1
    OBVIOUS
  <2>2. QED
    BY <2>1 DEF ByteAt
<1>2. ReadChar(t, i) = CodeOf(c, d, e, f)
  BY Zenon DEF ReadChar
<1>3. /\ i + 1 <= Len(t) => d = t[i + 1]
      /\ i + 2 <= Len(t) => e = t[i + 2]
      /\ i + 3 <= Len(t) => f = t[i + 3]
  BY <1>1 DEF ByteAt
<1>4. \/ n = 1 /\ c <= 127
      \/ n = 2 /\ i + 1 <= Len(t) /\ TwoBytes(c, t[i + 1])
      \/ n = 3 /\ i + 2 <= Len(t) /\ ThreeBytes(c, t[i + 1], t[i + 2])
      \/ n = 4 /\ i + 3 <= Len(t) /\ FourBytes(c, t[i + 1], t[i + 2], t[i + 3])
  <2> HIDE DEF c
  <2>1. \/ n = 0
        \/ n = 1 /\ t[i] <= 127
        \/ n = 2 /\ i + 1 <= Len(t) /\ TwoBytes(t[i], t[i + 1])
        \/ n = 3 /\ i + 2 <= Len(t) /\ ThreeBytes(t[i], t[i + 1], t[i + 2])
        \/ n = 4 /\ i + 3 <= Len(t)
           /\ FourBytes(t[i], t[i + 1], t[i + 2], t[i + 3])
    BY <1>1, WhatWasSeen, Zenon
  <2>2. n # 0 /\ t[i] = c
    BY <1>1, Zenon
  <2> HIDE DEF n
  <2>3. QED
    BY <2>1, <2>2, Zenon
<1> HIDE DEF c, d, e, f, n
<1>5. CASE n = 1 /\ c <= 127
  <2>1. w = <<c>> /\ IsScalar(ReadChar(t, i))
    <3>1. c <= 127 => /\ IsScalar(CodeOf(c, d, e, f))
                      /\ WriteChar(CodeOf(c, d, e, f)) = <<c>>
      BY <1>1, AcceptedIsEncoded, ZenonT(60)
    <3>2. QED
      BY <1>2, <1>5, <3>1, Zenon
  <2>2. Len(<<c>>) = 1 /\ i + 1 <= Len(t) + 1 /\ i <= Len(t)
    BY <1>1
  <2>3. StandsAt(t, i, <<c>>)
    BY <1>1, <2>2, <1>0, Zenon DEF Forms
  <2>4. QED
    BY <1>5, <2>1, <2>2, <2>3, Zenon DEF n
<1>6. CASE n = 2 /\ i + 1 <= Len(t) /\ TwoBytes(c, t[i + 1])
  <2>1. d = t[i + 1] /\ TwoBytes(c, d)
    BY <1>3, <1>6, Zenon
  <2>2. w = <<c, d>> /\ IsScalar(ReadChar(t, i))
    <3>1. TwoBytes(c, d) => /\ IsScalar(CodeOf(c, d, e, f))
                            /\ WriteChar(CodeOf(c, d, e, f)) = <<c, d>>
      BY <1>1, AcceptedIsEncoded, ZenonT(60)
    <3>2. QED
      BY <1>2, <2>1, <3>1, Zenon
  <2>3. Len(<<c, d>>) = 2 /\ i + 2 <= Len(t) + 1
    BY <1>1, <1>6
  <2>4. StandsAt(t, i, <<c, d>>)
    BY <1>1, <1>6, <2>1, <1>0, Zenon DEF Forms
  <2>5. QED
    BY <1>6, <2>2, <2>3, <2>4, Zenon DEF n
<1>7. CASE n = 3 /\ i + 2 <= Len(t) /\ ThreeBytes(c, t[i + 1], t[i + 2])
  <2>1. i + 1 <= Len(t) /\ i + 3 <= Len(t) + 1
    BY <1>1, <1>7
  <2>2. d = t[i + 1] /\ e = t[i + 2] /\ ThreeBytes(c, d, e)
    BY <1>3, <1>7, <2>1, Zenon
  <2>3. w = <<c, d, e>> /\ IsScalar(ReadChar(t, i))
    <3>1. ThreeBytes(c, d, e) => /\ IsScalar(CodeOf(c, d, e, f))
                              /\ WriteChar(CodeOf(c, d, e, f)) = <<c, d, e>>
      BY <1>1, AcceptedIsEncoded, ZenonT(60)
    <3>2. QED
      BY <1>2, <2>2, <3>1, Zenon
  <2>4. Len(<<c, d, e>>) = 3
    OBVIOUS
  <2>5. StandsAt(t, i, <<c, d, e>>)
    BY <1>1, <1>7, <2>2, <1>0, Zenon DEF Forms
  <2>6. QED
    BY <1>7, <2>1, <2>3, <2>4, <2>5, Zenon DEF n
<1>8. CASE n = 4 /\ i + 3 <= Len(t) /\ FourBytes(c, t[i + 1], t[i + 2], t[i + 3])
  <2>1. i + 1 <= Len(t) /\ i + 2 <= Len(t) /\ i + 4 <= Len(t) + 1
    BY <1>1, <1>8
  <2>2. d = t[i + 1] /\ e = t[i + 2] /\ f = t[i + 3] /\ FourBytes(c, d, e, f)
    BY <1>3, <1>8, <2>1, Zenon
  <2>3. w = <<c, d, e, f>> /\ IsScalar(ReadChar(t, i))
    <3>1. FourBytes(c, d, e, f) => /\ IsScalar(CodeOf(c, d, e, f))
                              /\ WriteChar(CodeOf(c, d, e, f)) = <<c, d, e, f>>
      BY <1>1, AcceptedIsEncoded, ZenonT(60)
    <3>2. QED
      BY <1>2, <2>2, <3>1, Zenon
  <2>4. Len(<<c, d, e, f>>) = 4
    OBVIOUS
  <2>5. StandsAt(t, i, <<c, d, e, f>>)
    BY <1>1, <1>8, <2>2, <1>0, Zenon DEF Forms
  <2>6. QED
    BY <1>8, <2>1, <2>3, <2>4, <2>5, Zenon DEF n
<1>9. QED
  BY <1>4, <1>5, <1>6, <1>7, <1>8, Zenon

(* The encoding of a code point is accepted where it stands.               *)
LEMMA EncodedAt ==
  ASSUME NEW t \in Seq(Byte), NEW i \in Nat, NEW u, IsScalar(u),
         StandsAt(t, i, WriteChar(u))
  PROVE  ValidateCz(t, i) = Len(WriteChar(u)) /\ ReadChar(t, i) = u
<1> DEFINE c == ByteAt(t, i)
           d == ByteAt(t, i + 1)
           e == ByteAt(t, i + 2)
           f == ByteAt(t, i + 3)
<1>0. \A k, l, m, o : Forms(t, i, k, l, m, o)
  BY AtForms
<1>1. t \in Seq(Byte) /\ Len(t) \in Nat /\ i \in Nat
  OBVIOUS
<1>2. ValidateCz(t, i) = LengthOf(c, d, e, f) /\ ReadChar(t, i) = CodeOf(c, d, e, f)
  BY Zenon DEF ValidateCz, ReadChar
<1>3. /\ i <= Len(t) => c = t[i]
      /\ i + 1 <= Len(t) => d = t[i + 1]
      /\ i + 2 <= Len(t) => e = t[i + 2]
      /\ i + 3 <= Len(t) => f = t[i + 3]
  BY <1>1 DEF ByteAt
<1>4. IsScalar(u)
  OBVIOUS
<1> HIDE DEF c, d, e, f
<1>5. CASE u \in 0..127
  <2>1. WriteChar(u) = <<u>>
    <3>1. u \in Int /\ u <= 127
      BY <1>5
    <3>2. QED
      BY <3>1, WriteForms, Zenon
  <2>2. i <= Len(t) /\ u = t[i]
    BY <1>1, <2>1, <1>0, Zenon DEF Forms
  <2>3. c = u
    BY <1>3, <2>2, Zenon
  <2>4. LengthOf(c, d, e, f) = 1 /\ CodeOf(c, d, e, f) = u
    <3>1. c \in 0..255 /\ c \in Int /\ c <= 127
      BY <1>5, <2>3, SMT
    <3>2. LengthOf(c, d, e, f) = 1 /\ CodeOf(c, d, e, f) = c
      BY <3>1, LengthOfWhole, ReadForms, Zenon
    <3>3. QED
      BY <2>3, <3>2, Zenon
  <2>5. Len(<<u>>) = 1
    OBVIOUS
  <2>6. QED
    BY <1>2, <2>1, <2>4, <2>5, Zenon
<1>6. CASE In2(u)
  <2>1. PICK a, b : Writes2(u, a, b)
    BY Zenon DEF Writes2
  <2>2. WriteChar(u) = <<a, b>>
    BY <1>6, <2>1, WriteForms, Zenon
  <2>3. i + 1 <= Len(t) /\ a = t[i] /\ b = t[i + 1]
    BY <1>1, <2>2, <1>0, Zenon DEF Forms
  <2>4. i <= Len(t)
    BY <1>1, <2>3
  <2>5. Writes2(u, c, d)
    BY <1>3, <2>1, <2>3, <2>4, Zenon
  <2>6. LengthOf(c, d, e, f) = 2 /\ CodeOf(c, d, e, f) = u
    BY <1>6, <2>5, Encoded2, SMT
  <2>7. Len(<<a, b>>) = 2
    OBVIOUS
  <2>8. QED
    BY <1>2, <2>2, <2>6, <2>7, Zenon
<1>7. CASE In3(u)
  <2>1. PICK a, b, g : Writes3(u, a, b, g)
    BY SMT DEF Writes3
  <2>2. WriteChar(u) = <<a, b, g>>
    BY <1>7, <2>1, WriteForms, Zenon
  <2>3. i + 2 <= Len(t) /\ a = t[i] /\ b = t[i + 1] /\ g = t[i + 2]
    BY <1>1, <2>2, <1>0, Zenon DEF Forms
  <2>4. i <= Len(t) /\ i + 1 <= Len(t)
    BY <1>1, <2>3
  <2>5. Writes3(u, c, d, e)
    BY <1>3, <2>1, <2>3, <2>4, Zenon
  <2>6. LengthOf(c, d, e, f) = 3 /\ CodeOf(c, d, e, f) = u
    BY <1>7, <2>5, Encoded3, SMT
  <2>7. Len(<<a, b, g>>) = 3
    OBVIOUS
  <2>8. QED
    BY <1>2, <2>2, <2>6, <2>7, Zenon
<1>8. CASE In4(u)
  <2>1. PICK a, b, g, h : Writes4(u, a, b, g, h)
    BY SMT DEF Writes4
  <2>2. WriteChar(u) = <<a, b, g, h>>
    BY <1>8, <2>1, WriteForms, Zenon
  <2>3. /\ i + 3 <= Len(t) /\ a = t[i] /\ b = t[i + 1]
        /\ g = t[i + 2] /\ h = t[i + 3]
    <3>1. Forms(t, i, a, b, g, h)
      BY <1>0
    <3>2. QED
      BY <2>2, <3>1, Zenon DEF Forms
  <2>4. i <= Len(t) /\ i + 1 <= Len(t) /\ i + 2 <= Len(t)
    BY <1>1, <2>3
  <2>5. Writes4(u, c, d, e, f)
    BY <1>3, <2>1, <2>3, <2>4, Zenon
  <2>6. LengthOf(c, d, e, f) = 4 /\ CodeOf(c, d, e, f) = u
    BY <1>8, <2>5, Encoded4, SMT
  <2>7. Len(<<a, b, g, h>>) = 4
    OBVIOUS
  <2>8. QED
    BY <1>2, <2>2, <2>6, <2>7, Zenon
<1>9. QED
  BY <1>4, <1>5, <1>6, <1>7, <1>8, ScalarRanges, Zenon

LEMMA ValidHere == ScanTypeOK => ValidIsEncoded
<1> SUFFICES ASSUME ScanTypeOK, ~AtEnd, ValidateCz(string, pos) # 0
             PROVE  /\ pos + ValidateCz(string, pos) <= Len(string) + 1
                    /\ IsScalar(ReadChar(string, pos))
                    /\ Len(WriteChar(ReadChar(string, pos))) = ValidateCz(string, pos)
                    /\ StandsHere(WriteChar(ReadChar(string, pos)))
  BY Zenon DEF ValidIsEncoded
<1>1. string \in Seq(Byte) /\ pos \in 1..Len(string)
  BY InFront
<1>2. QED
  BY <1>1, ValidAt, Zenon DEF StandsAt, StandsHere

LEMMA EncodedHere == ScanTypeOK => EncodedIsValid
<1> SUFFICES ASSUME ScanTypeOK, NEW u \in CodePoints, StandsHere(WriteChar(u))
             PROVE  ValidateCz(string, pos) = Len(WriteChar(u)) /\ ReadChar(string, pos) = u
  BY Zenon DEF EncodedIsValid
<1>1. string \in Seq(Byte) /\ pos \in Nat /\ IsScalar(u)
  BY CodePointsAssumption DEF ScanTypeOK, Byte
<1>2. StandsAt(string, pos, WriteChar(u))
  BY Zenon DEF StandsAt, StandsHere
<1>3. QED
  BY <1>1, <1>2, EncodedAt, Zenon

(* utf8_validate steps only over encodings of code points: overlong forms, *)
(* surrogates, numbers beyond U+10FFFF and clipped characters are refused. *)
THEOREM OnlyEncodingsPass == ScanSpec => []ValidIsEncoded
BY ScanStaysInText, ValidHere, PTL

(* What utf8_write_char writes passes utf8_validate and is read back.      *)
THEOREM EveryEncodingPasses == ScanSpec => []EncodedIsValid
BY ScanStaysInText, EncodedHere, PTL

-----------------------------------------------------------------------------
(* parse_string and emit_string.                                           *)

-----------------------------------------------------------------------------
(* What the turns of the two loops write.                                  *)

Bytes(w, n) == w \in Seq(Byte) /\ Len(w) \in 1..n

LEMMA Joined ==
  ASSUME NEW S, NEW p \in Seq(S), NEW q \in Seq(S)
  PROVE  p \o q \in Seq(S) /\ Len(p \o q) = Len(p) + Len(q)
OBVIOUS

LEMMA OneByte == ASSUME NEW b \in Byte PROVE Bytes(<<b>>, 4)
BY DEF Bytes

LEMMA WrittenChar ==
  ASSUME NEW u, IsScalar(u), u # 0
  PROVE  Bytes(WriteChar(u), 4)
<1>1. CASE u \in 0..127
  <2>1. u \in Int /\ u <= 127 /\ u \in Byte
    BY <1>1 DEF Byte
  <2>2. QED
    BY <2>1, WriteForms, OneByte, Zenon
<1>2. CASE In2(u)
  <2>1. PICK c, d : Writes2(u, c, d)
    BY Zenon DEF Writes2
  <2>2. c \in Byte /\ d \in Byte
    BY <1>2, <2>1, SMTT(60) DEF Writes2, In2, Byte
  <2>3. WriteChar(u) = <<c, d>>
    BY <1>2, <2>1, WriteForms, Zenon
  <2>4. QED
    BY <2>2, <2>3 DEF Bytes
<1>3. CASE In3(u)
  <2>1. PICK c, d, e : Writes3(u, c, d, e)
    BY SMT DEF Writes3
  <2>2. c \in Byte /\ d \in Byte /\ e \in Byte
    BY <1>3, <2>1, SMTT(60) DEF Writes3, In3, Byte
  <2>3. WriteChar(u) = <<c, d, e>>
    BY <1>3, <2>1, WriteForms, Zenon
  <2>4. QED
    BY <2>2, <2>3 DEF Bytes
<1>4. CASE In4(u)
  <2>1. PICK c, d, e, f : Writes4(u, c, d, e, f)
    BY SMT DEF Writes4
  <2>2. c \in Byte /\ d \in Byte /\ e \in Byte /\ f \in Byte
    BY <1>4, <2>1, SMTT(60) DEF Writes4, In4, Byte
  <2>3. WriteChar(u) = <<c, d, e, f>>
    BY <1>4, <2>1, WriteForms, Zenon
  <2>4. QED
    BY <2>2, <2>3 DEF Bytes
<1>5. QED
  BY <1>1, <1>2, <1>3, <1>4, ScalarRanges, Zenon

LEMMA WrittenUnit ==
  ASSUME NEW u \in Nat
  PROVE  Bytes(<<Backslash, 117>> \o WriteHex16(u), 6)
<1> DEFINE a == HexChar((u \div 4096) % 16)
           b == HexChar((u \div 256) % 16)
           c == HexChar((u \div 16) % 16)
           d == HexChar(u % 16)
<1>1. \A n \in Nat : HexChar(n % 16) \in Byte
  BY DEF HexChar, Byte
<1>2. a \in Byte /\ b \in Byte /\ c \in Byte /\ d \in Byte
  <2>1. u \div 4096 \in Nat /\ u \div 256 \in Nat /\ u \div 16 \in Nat
    BY SMT
  <2>2. QED
    BY <1>1, <2>1, SMT
<1>3. WriteHex16(u) = <<a, b, c, d>>
  BY SMT DEF WriteHex16
<1> HIDE DEF a, b, c, d
<1>4. Bytes(<<a, b, c, d>>, 4) /\ Len(<<a, b, c, d>>) = 4
  BY <1>2 DEF Bytes
<1>5. <<Backslash, 117>> \in Seq(Byte) /\ Len(<<Backslash, 117>>) = 2
  BY DEF Backslash, Byte
<1>6. ASSUME NEW p \in Seq(Byte), NEW q \in Seq(Byte), Len(p) = 2, Len(q) = 4
      PROVE  Bytes(p \o q, 6)
  <2>1. p \o q \in Seq(Byte)
    BY Joined, Zenon
  <2>2. Len(p \o q) = Len(p) + Len(q)
    BY Joined, Zenon
  <2>3. Len(p \o q) \in 1..6
    BY <1>6, <2>2
  <2>4. QED
    BY <2>1, <2>3, Zenon DEF Bytes
<1>7. <<a, b, c, d>> \in Seq(Byte)
  BY <1>4, Zenon DEF Bytes
<1>8. QED
  BY <1>3, <1>4, <1>5, <1>6, <1>7, Zenon

-----------------------------------------------------------------------------
(* Where the turns of the two loops end.                                   *)

(* What is not the terminator stands in front of it.                       *)
LEMMA InText ==
  ASSUME TypeOK, NEW k \in Nat, s + k \in 1..(Len(text) + 1)
  PROVE  /\ Here(k) \in 0..255
         /\ Here(k) # 0 => /\ s + k \in 1..Len(text) /\ s + k + 1 \in 1..(Len(text) + 1)
                           /\ Here(k) = text[s + k]
<1>1. text \in Seq(Byte) /\ Len(text) \in Nat /\ s \in Nat
  BY DEF TypeOK, Byte
<1>2. Here(k) \in 0..255
  BY <1>1, ByteRange DEF Here
<1>3. Here(k) # 0 => s + k \in 1..Len(text) /\ Here(k) = text[s + k]
  BY <1>1, ByteRange DEF Here
<1>4. s + k \in 1..Len(text) => s + k + 1 \in 1..(Len(text) + 1)
  BY <1>1
<1>5. QED
  BY <1>2, <1>3, <1>4, Zenon

LEMMA DigitRange ==
  ASSUME NEW b \in 0..255, HexDigit(b) < 16
  PROVE  b # 0 /\ HexDigit(b) \in 0..15
BY DEF HexDigit

(* What fits into 16 bits.                                                 *)
Is16(u) == u \in Nat /\ u <= 65535

(* parse_hex16 reads four bytes in front of the terminator and yields 16   *)
(* bits.                                                                   *)
LEMMA HexInText ==
  ASSUME TypeOK, NEW k \in Nat, s + k \in 1..(Len(text) + 1), IsHex16(k)
  PROVE  /\ s + k + 4 \in 1..(Len(text) + 1)
         /\ Is16(Hex16(k))
<1>1. s \in Nat /\ k + 1 \in Nat /\ k + 2 \in Nat /\ k + 3 \in Nat
  BY DEF TypeOK
<1>2. /\ HexDigit(Here(k)) < 16 /\ HexDigit(Here(k + 1)) < 16
      /\ HexDigit(Here(k + 2)) < 16 /\ HexDigit(Here(k + 3)) < 16
  BY Zenon DEF IsHex16
<1>3. HexDigit(Here(k)) \in 0..15 /\ s + (k + 1) \in 1..(Len(text) + 1)
  <2>1. Here(k) \in 0..255
    BY InText
  <2>2. Here(k) # 0 /\ HexDigit(Here(k)) \in 0..15
    BY <1>2, <2>1, DigitRange, Zenon
  <2>3. s + k + 1 = s + (k + 1)
    BY <1>1
  <2>4. QED
    BY <2>2, <2>3, InText, Zenon
<1>4. HexDigit(Here(k + 1)) \in 0..15 /\ s + (k + 2) \in 1..(Len(text) + 1)
  <2>1. Here(k + 1) \in 0..255
    BY <1>1, <1>3, InText, Zenon
  <2>2. Here(k + 1) # 0 /\ HexDigit(Here(k + 1)) \in 0..15
    BY <1>2, <2>1, DigitRange, Zenon
  <2>3. s + (k + 1) + 1 = s + (k + 2)
    BY <1>1
  <2>4. QED
    BY <1>1, <1>3, <2>2, <2>3, InText, Zenon
<1>5. HexDigit(Here(k + 2)) \in 0..15 /\ s + (k + 3) \in 1..(Len(text) + 1)
  <2>1. Here(k + 2) \in 0..255
    BY <1>1, <1>4, InText, Zenon
  <2>2. Here(k + 2) # 0 /\ HexDigit(Here(k + 2)) \in 0..15
    BY <1>2, <2>1, DigitRange, Zenon
  <2>3. s + (k + 2) + 1 = s + (k + 3)
    BY <1>1
  <2>4. QED
    BY <1>1, <1>4, <2>2, <2>3, InText, Zenon
<1>6. HexDigit(Here(k + 3)) \in 0..15 /\ s + k + 4 \in 1..(Len(text) + 1)
  <2>1. Here(k + 3) \in 0..255
    BY <1>1, <1>5, InText, Zenon
  <2>2. Here(k + 3) # 0 /\ HexDigit(Here(k + 3)) \in 0..15
    BY <1>2, <2>1, DigitRange, Zenon
  <2>3. s + (k + 3) + 1 = s + k + 4
    BY <1>1
  <2>4. QED
    BY <1>1, <1>5, <2>2, <2>3, InText, Zenon
<1>7. Is16(Hex16(k))
  <2> DEFINE a == HexDigit(Here(k))
             b == HexDigit(Here(k + 1))
             c == HexDigit(Here(k + 2))
             d == HexDigit(Here(k + 3))
  <2>1. a \in 0..15 /\ b \in 0..15 /\ c \in 0..15 /\ d \in 0..15
    BY <1>3, <1>4, <1>5, <1>6, Zenon
  <2>2. Hex16(k) = a * 4096 + b * 256 + c * 16 + d
    BY SMT DEF Hex16
  <2> HIDE DEF a, b, c, d
  <2>3. Is16(a * 4096 + b * 256 + c * 16 + d)
    BY <2>1, SMT DEF Is16
  <2>4. QED
    BY <2>2, <2>3, SMT
<1>8. QED
  BY <1>6, <1>7, Zenon

LEMMA LetterInText ==
  ASSUME TypeOK, AtLetter
  PROVE  s + 2 \in 1..(Len(text) + 1) /\ Unescaped[Here(1)] \in Byte
<1>1. s \in 1..(Len(text) + 1) /\ s \in Nat /\ s + 0 = s /\ s + 0 + 1 = s + 1
  BY DEF TypeOK
<1>2. Here(0) # 0
  BY DEF AtLetter, Backslash
<1>3. s + 1 \in 1..(Len(text) + 1)
  BY <1>1, <1>2, InText
<1>4. Here(1) \in {34, 47, 92, 98, 102, 110, 114, 116}
  BY DEF AtLetter, Unescaped
<1>5. Here(1) # 0 /\ Unescaped[Here(1)] \in Byte
  BY <1>4 DEF Unescaped, Byte
<1>6. s + 1 + 1 \in 1..(Len(text) + 1)
  BY <1>3, <1>5, InText
<1>7. QED
  BY <1>1, <1>5, <1>6

LEMMA UnitInText ==
  ASSUME TypeOK, AtUnit
  PROVE  s + 6 \in 1..(Len(text) + 1) /\ Is16(Hex16(2))
<1>1. s \in 1..(Len(text) + 1) /\ s \in Nat /\ s + 0 = s /\ s + 0 + 1 = s + 1
  BY DEF TypeOK
<1>2. Here(0) # 0 /\ Here(1) # 0 /\ IsHex16(2)
  BY DEF AtUnit, Backslash
<1>3. s + 1 \in 1..(Len(text) + 1)
  BY <1>1, <1>2, InText
<1>4. s + 1 + 1 \in 1..(Len(text) + 1)
  BY <1>2, <1>3, InText
<1>5. s + 2 \in 1..(Len(text) + 1)
  BY <1>1, <1>4
<1>6. s + 2 + 4 \in 1..(Len(text) + 1) /\ Is16(Hex16(2))
  BY <1>2, <1>5, HexInText
<1>7. QED
  BY <1>1, <1>6

LEMMA PairInText ==
  ASSUME TypeOK, AtPair
  PROVE  /\ s + 12 \in 1..(Len(text) + 1)
         /\ Is16(Hex16(2)) /\ Is16(Hex16(8))
<1>1. AtUnit /\ Here(6) # 0 /\ Here(7) # 0 /\ IsHex16(8)
  BY DEF AtPair, Backslash
<1>2. s \in Nat /\ s + 6 \in 1..(Len(text) + 1) /\ Is16(Hex16(2))
  BY <1>1, UnitInText DEF TypeOK
<1>3. s + 6 + 1 \in 1..(Len(text) + 1)
  BY <1>1, <1>2, InText
<1>4. s + 7 \in 1..(Len(text) + 1)
  BY <1>2, <1>3
<1>5. s + 7 + 1 \in 1..(Len(text) + 1)
  BY <1>1, <1>4, InText
<1>6. s + 8 \in 1..(Len(text) + 1)
  BY <1>2, <1>5
<1>7. s + 8 + 4 \in 1..(Len(text) + 1) /\ Is16(Hex16(8))
  BY <1>1, <1>6, HexInText
<1>8. QED
  BY <1>2, <1>7

LEMMA CharacterInText ==
  ASSUME TypeOK, s \in 1..Len(text), ValidateCz(text, s) # 0
  PROVE  /\ s + ValidateCz(text, s) \in 1..(Len(text) + 1)
         /\ Bytes(SubSeq(text, s, s + ValidateCz(text, s) - 1), 4)
<1> DEFINE n == ValidateCz(text, s)
<1>1. text \in Seq(Byte) /\ Len(text) \in Nat /\ s \in Nat
  BY DEF TypeOK, Byte
<1>2. n # 0 /\ \/ n = 0 \/ n = 1
               \/ n = 2 /\ s + 1 <= Len(text)
               \/ n = 3 /\ s + 2 <= Len(text)
               \/ n = 4 /\ s + 3 <= Len(text)
  BY <1>1, WhatWasSeen, Zenon
<1> HIDE DEF n
<1>3. n \in 1..4 /\ s + n \in 1..(Len(text) + 1)
  BY <1>1, <1>2
<1>4. SubSeq(text, s, s + n - 1) \in Seq(Byte) /\ Len(SubSeq(text, s, s + n - 1)) = n
  BY <1>1, <1>3
<1>5. QED
  BY <1>3, <1>4, Zenon DEF n, Bytes

-----------------------------------------------------------------------------
(* The inductive invariant: what is written so far is inside its buffer,   *)
(* and only a caller who asked for the string has one to write or reread.  *)

Room == IF keep THEN cap ELSE 4

Inv ==
  /\ TypeOK
  /\ cap >= SB_INIT
  /\ op \in {"emit", "encoded", "again"} => keep
  /\ Len(out) <= Room

Fits == Len(out') <= Room

LEMMA InvFacts ==
  ASSUME Inv
  PROVE  /\ TypeOK /\ keep \in BOOLEAN
         /\ cap \in Nat /\ cap >= 16
         /\ text \in Seq(Byte) /\ Len(text) \in Nat
         /\ s \in 1..(Len(text) + 1) /\ s \in Nat
         /\ out \in Seq(Byte) /\ Len(out) \in Nat /\ str \in Seq(Byte)
         /\ Len(out) <= Room
BY DEF Inv, TypeOK, Byte, SB_INIT

(* A turn that writes no more bytes than there is room for.                *)
LEMMA TakeFits ==
  ASSUME Inv, NEW n, NEW w, NEW m \in Nat, Take(n, w), Bytes(w, m),
         s + n \in 1..(Len(text) + 1),
         keep => cap - Len(out) >= m, ~keep => m <= 4
  PROVE  Inv' /\ Fits
<1>1. /\ s' = s + n /\ out' = Written(w)
      /\ literal' = literal /\ keep' = keep /\ op' = op /\ text' = text
      /\ cap' = cap /\ str' = str
  BY DEF Take
<1>2. w \in Seq(Byte) /\ Len(w) \in 1..m
  BY DEF Bytes
<1>3. out' \in Seq(Byte) /\ Len(out') <= Room
  <2>1. CASE keep
    <3>1. out' = out \o w
      BY <1>1, <2>1 DEF Written
    <3>2. out' \in Seq(Byte) /\ Len(out') = Len(out) + Len(w)
      BY <1>2, <3>1, Joined, InvFacts, Zenon
    <3>3. Len(out') <= cap
      BY <1>2, <2>1, <3>2, InvFacts
    <3>4. QED
      BY <2>1, <3>2, <3>3 DEF Room
  <2>2. CASE ~keep
    <3>1. out' = w /\ m <= 4
      BY <1>1, <2>2 DEF Written
    <3>2. QED
      BY <1>2, <2>2, <3>1 DEF Room
  <2>3. QED
    BY <2>1, <2>2
<1>4. Room' = Room
  BY <1>1 DEF Room
<1>5. TypeOK'
  BY <1>1, <1>3 DEF Inv, TypeOK, Byte
<1>6. QED
  BY <1>1, <1>3, <1>4, <1>5 DEF Inv, Fits

LEMMA AbortFits == Inv /\ Abort => Inv' /\ Fits
BY DEF Inv, TypeOK, Abort, Room, Fits

LEMMA TakeCodeFits ==
  ASSUME Inv, NEW n, NEW u, TakeCode(n, u), u # 0,
         s + n \in 1..(Len(text) + 1), keep => cap - Len(out) >= 4
  PROVE  Inv' /\ Fits
<1>1. CASE IsScalar(u)
  <2>1. Take(n, WriteChar(u)) /\ Bytes(WriteChar(u), 4)
    BY <1>1, WrittenChar DEF TakeCode
  <2>2. 4 \in Nat /\ (~keep => 4 <= 4)
    OBVIOUS
  <2>3. QED
    BY <2>1, <2>2, TakeFits, Zenon
<1>2. CASE ~IsScalar(u)
  BY <1>2, AbortFits DEF TakeCode
<1>3. QED
  BY <1>1, <1>2

LEMMA RoomToParse == Inv /\ InBody => (keep => cap - Len(out) >= 4)
BY DEF InBody, Parsing, HasRoom, RoomFor

LEMMA RoomToEmit == Inv /\ op = "emit" /\ HasRoom => keep /\ cap - Len(out) >= 14
BY DEF Inv, HasRoom, RoomFor

-----------------------------------------------------------------------------
(* One lemma for each kind of step.                                        *)

LEMMA GrowStep == Inv /\ Grow => Inv' /\ Fits
<1> SUFFICES ASSUME Inv, Grow PROVE Inv' /\ Fits
  OBVIOUS
<1>1. /\ cap' = cap * 2
      /\ UNCHANGED <<literal, keep, op, text, s, out, str>>
  BY DEF Grow
<1>2. cap' \in Nat /\ cap' >= cap
  BY <1>1, InvFacts
<1>3. Len(out) <= Room'
  BY <1>1, <1>2, InvFacts DEF Room
<1>4. QED
  BY <1>1, <1>2, <1>3, InvFacts DEF Inv, TypeOK, Fits, SB_INIT

LEMMA ParseStep == Inv /\ ParseTurn => Inv' /\ Fits
<1> SUFFICES ASSUME Inv, ParseTurn PROVE Inv' /\ Fits
  OBVIOUS
<1>1. CASE OpenQuote
  <2>1. /\ s' = 2 /\ out' = <<>> /\ cap' = 16
        /\ UNCHANGED <<literal, keep, op, text, str>> /\ s = 1 /\ Here(0) # 0
    BY <1>1 DEF OpenQuote, AtQuote, Quote, SB_INIT
  <2>2. s + 0 \in 1..(Len(text) + 1) /\ s + 0 + 1 = 2
    BY <2>1, InvFacts
  <2>3. 2 \in 1..(Len(text) + 1)
    BY <2>1, <2>2, InText, InvFacts
  <2>4. <<>> \in Seq(1..255) /\ Len(<<>>) = 0
    OBVIOUS
  <2>5. TypeOK'
    BY <2>1, <2>3, <2>4, InvFacts DEF TypeOK
  <2>6. Len(out') <= Room /\ Len(out') <= Room'
    BY <2>1, <2>4, InvFacts DEF Room
  <2>7. QED
    BY <2>1, <2>5, <2>6 DEF Inv, Fits, SB_INIT
<1>2. CASE ParseLetter
  <2>1. Take(2, <<Unescaped[Here(1)]>>) /\ AtLetter /\ (keep => cap - Len(out) >= 4)
    BY <1>2, RoomToParse DEF ParseLetter
  <2>2. s + 2 \in 1..(Len(text) + 1) /\ Bytes(<<Unescaped[Here(1)]>>, 4)
    BY <2>1, LetterInText, OneByte, InvFacts, Zenon
  <2>3. 4 \in Nat /\ (~keep => 4 <= 4)
    OBVIOUS
  <2>4. QED
    BY <2>1, <2>2, <2>3, TakeFits, Zenon
<1>3. CASE ParseSingle
  <2>1. TakeCode(6, Hex16(2)) /\ AtUnit /\ Hex16(2) # 0 /\ (keep => cap - Len(out) >= 4)
    BY <1>3, RoomToParse DEF ParseSingle, AtSingle
  <2>2. s + 6 \in 1..(Len(text) + 1)
    BY <2>1, UnitInText, InvFacts, Zenon
  <2>3. QED
    BY <2>1, <2>2, TakeCodeFits, Zenon
<1>4. CASE ParsePair
  <2> DEFINE u == FromSurrogatePair(Hex16(2), Hex16(8))
  <2>1. TakeCode(12, u) /\ AtPair /\ (keep => cap - Len(out) >= 4)
    BY <1>4, RoomToParse DEF ParsePair
  <2>2. s + 12 \in 1..(Len(text) + 1) /\ Is16(Hex16(2)) /\ Is16(Hex16(8))
    BY <2>1, PairInText, InvFacts, Zenon
  <2>3. ASSUME NEW a, Is16(a), NEW b, Is16(b) PROVE FromSurrogatePair(a, b) # 0
    BY <2>3, SMT DEF FromSurrogatePair, Is16
  <2>4. u # 0
    BY <2>2, <2>3, Zenon
  <2> HIDE DEF u
  <2>5. QED
    BY <2>1, <2>2, <2>4, TakeCodeFits, Zenon
<1>5. CASE ParseCharacter
  <2> DEFINE n == ValidateCz(text, s)
  <2>1. /\ Take(n, SubSeq(text, s, s + n - 1)) /\ n # 0 /\ Here(0) > 31
        /\ keep => cap - Len(out) >= 4
    BY <1>5, RoomToParse DEF ParseCharacter, AtCharacter
  <2>2. s \in 1..Len(text)
    <3>1. s + 0 \in 1..(Len(text) + 1) /\ s + 0 = s /\ Here(0) # 0
      BY <2>1, InvFacts
    <3>2. QED
      BY <3>1, InText, InvFacts
  <2>3. s + n \in 1..(Len(text) + 1) /\ Bytes(SubSeq(text, s, s + n - 1), 4)
    BY <2>1, <2>2, CharacterInText, InvFacts, Zenon
  <2>4. 4 \in Nat /\ (~keep => 4 <= 4)
    OBVIOUS
  <2> HIDE DEF n
  <2>5. QED
    BY <2>1, <2>3, <2>4, TakeFits, Zenon
<1>6. CASE CloseQuote
  <2>1. CASE keep /\ \E k \in 1..Len(out) : out[k] = 0
    BY <1>6, <2>1, AbortFits DEF CloseQuote
  <2>2. CASE ~(keep /\ \E k \in 1..Len(out) : out[k] = 0)
    <3>1. /\ op' \in {"parsed", "reparsed"} /\ str' \in {out, str} /\ s' = s + 1
          /\ UNCHANGED <<literal, keep, text, out, cap>> /\ Here(0) # 0
      BY <1>6, <2>2 DEF CloseQuote, AtQuote, Quote
    <3>2. s + 0 \in 1..(Len(text) + 1) /\ s + 0 + 1 = s + 1
      BY InvFacts
    <3>3. s + 1 \in 1..(Len(text) + 1)
      BY <3>1, <3>2, InText, InvFacts
    <3>4. TypeOK'
      BY <3>1, <3>3 DEF Inv, TypeOK
    <3>5. Room' = Room
      BY <3>1 DEF Room
    <3>6. QED
      BY <3>1, <3>4, <3>5 DEF Inv, Fits
  <2>3. QED
    BY <2>1, <2>2
<1>7. CASE Fail
  BY <1>7 DEF Fail, Inv, TypeOK, Room, Fits
<1>8. QED
  BY <1>1, <1>2, <1>3, <1>4, <1>5, <1>6, <1>7 DEF ParseTurn

LEMMA EmitStep == Inv /\ EmitTurn => Inv' /\ Fits
<1> SUFFICES ASSUME Inv, EmitTurn PROVE Inv' /\ Fits
  OBVIOUS
<1>1. CASE EmitOpen
  <2>1. CASE Validate(str)
    <3>1. /\ op' = "emit" /\ text' = str /\ s' = 1 /\ out' = <<Quote>> /\ cap' = 16
          /\ UNCHANGED <<literal, keep, str>> /\ keep
      BY <1>1, <2>1 DEF EmitOpen, SB_INIT
    <3>2. <<Quote>> \in Seq(1..255) /\ Len(<<Quote>>) = 1
      BY DEF Quote
    <3>3. str \in Seq(1..255) /\ 1 \in 1..(Len(str) + 1)
      BY InvFacts DEF Byte
    <3>4. TypeOK'
      BY <3>1, <3>2, <3>3, InvFacts DEF TypeOK
    <3>5. Len(out') <= Room /\ Len(out') <= Room'
      BY <3>1, <3>2, InvFacts DEF Room
    <3>6. QED
      BY <3>1, <3>4, <3>5 DEF Inv, Fits, SB_INIT
  <2>2. CASE ~Validate(str)
    BY <1>1, <2>2, AbortFits DEF EmitOpen
  <2>3. QED
    BY <2>1, <2>2
<1>2. CASE EmitLetter
  <2>1. /\ Take(1, <<Backslash, Escaped[text[s]]>>) /\ keep /\ cap - Len(out) >= 14
        /\ s <= Len(text) /\ text[s] \in {34, 92, 8, 12, 10, 13, 9}
    BY <1>2, RoomToEmit DEF EmitLetter, Emitting, Lettered, Escaped
  <2>2. Bytes(<<Backslash, Escaped[text[s]]>>, 6)
    <3>1. \A b \in {34, 92, 8, 12, 10, 13, 9} : Escaped[b] \in Byte
      BY SMT DEF Escaped, Byte
    <3>2. Escaped[text[s]] \in Byte
      BY <2>1, <3>1, ZenonT(60)
    <3>3. Backslash \in Byte
      BY SMT DEF Backslash, Byte
    <3> QED BY <3>2, <3>3 DEF Bytes
  <2>3. s + 1 \in 1..(Len(text) + 1) /\ cap - Len(out) >= 6 /\ 6 \in Nat
    BY <2>1, InvFacts
  <2>4. QED
    BY <2>1, <2>2, <2>3, TakeFits, Zenon
<1>3. CASE EmitUnit
  <2> DEFINE w == <<Backslash, 117>> \o WriteHex16(ReadChar(text, s))
  <2>1. /\ Take(1, w) /\ keep /\ cap - Len(out) >= 14
        /\ s <= Len(text) /\ text[s] < 31
    BY <1>3, RoomToEmit DEF EmitUnit, Emitting
  <2>2. ReadChar(text, s) \in Nat
    <3>1. ByteAt(text, s) = text[s] /\ text[s] \in Nat /\ text[s] <= 127
      <4>1. s \in 1..Len(text) /\ s # Len(text) + 1
        BY <2>1, InvFacts
      <4>2. text[s] \in Byte
        BY <4>1, InvFacts
      <4>3. ByteAt(text, s) = text[s]
        BY <4>1, Zenon DEF ByteAt
      <4>4. text[s] \in Nat /\ text[s] <= 127
        <5> HIDE DEF w
        <5>1. text[s] < 31
          BY <2>1, Zenon
        <5>2. QED
          BY <4>2, <5>1, SMT DEF Byte
      <4>5. QED
        BY <4>3, <4>4, Zenon
    <3>2. ReadChar(text, s) = text[s]
      BY <3>1, ReadForms, SMT DEF ReadChar
    <3>3. QED
      BY <3>1, <3>2
  <2>3. Bytes(w, 6)
    BY <2>2, WrittenUnit, Zenon
  <2>4. s + 1 \in 1..(Len(text) + 1) /\ cap - Len(out) >= 6 /\ 6 \in Nat
    BY <2>1, InvFacts
  <2> HIDE DEF w
  <2>5. QED
    BY <2>1, <2>3, <2>4, TakeFits, Zenon
<1>4. CASE EmitCharacter
  <2> DEFINE n == ValidateCz(text, s)
  <2>1. CASE n # 0
    <3>1. /\ Take(n, SubSeq(text, s, s + n - 1)) /\ keep /\ cap - Len(out) >= 14
          /\ s <= Len(text)
      BY <1>4, <2>1, RoomToEmit DEF EmitCharacter, Emitting
    <3>2. s \in 1..Len(text) /\ cap - Len(out) >= 4 /\ 4 \in Nat
      BY <3>1, InvFacts
    <3>3. s + n \in 1..(Len(text) + 1) /\ Bytes(SubSeq(text, s, s + n - 1), 4)
      BY <2>1, <3>2, CharacterInText, InvFacts, Zenon
    <3> HIDE DEF n
    <3>4. QED
      BY <3>1, <3>2, <3>3, TakeFits, Zenon
  <2>2. CASE n = 0
    BY <1>4, <2>2, AbortFits DEF EmitCharacter
  <2>3. QED
    BY <2>1, <2>2
<1>5. CASE EmitClose
  <2>1. /\ op' = "encoded" /\ out' = out \o <<Quote>>
        /\ UNCHANGED <<literal, keep, text, s, cap, str>>
        /\ keep /\ cap - Len(out) >= 14
    BY <1>5, RoomToEmit DEF EmitClose
  <2>2. <<Quote>> \in Seq(Byte) /\ Len(<<Quote>>) = 1
    BY DEF Quote, Byte
  <2>3. out' \in Seq(Byte) /\ Len(out') = Len(out) + 1
    BY <2>1, <2>2, Joined, InvFacts, Zenon
  <2>4. Len(out') <= cap
    BY <2>1, <2>3, InvFacts
  <2>5. TypeOK'
    BY <2>1, <2>3, InvFacts DEF TypeOK, Byte
  <2>6. Len(out') <= Room /\ Len(out') <= Room'
    BY <2>1, <2>4 DEF Room
  <2>7. QED
    BY <2>1, <2>5, <2>6 DEF Inv, Fits
<1>6. QED
  BY <1>1, <1>2, <1>3, <1>4, <1>5 DEF EmitTurn

LEMMA ReparseStep == Inv /\ Reparse => Inv' /\ Fits
<1> SUFFICES ASSUME Inv, Reparse PROVE Inv' /\ Fits
  OBVIOUS
<1>1. /\ op' = "again" /\ text' = out /\ s' = 1 /\ op = "encoded"
      /\ UNCHANGED <<literal, keep, out, cap, str>>
  BY DEF Reparse
<1>2. TypeOK'
  <2>1. out \in Seq(1..255) /\ 1 \in 1..(Len(out) + 1)
    BY InvFacts DEF Byte
  <2>2. QED
    BY <1>1, <2>1, InvFacts DEF TypeOK
<1>3. Room' = Room
  BY <1>1 DEF Room
<1>4. QED
  BY <1>1, <1>2, <1>3 DEF Inv, Fits

-----------------------------------------------------------------------------
LEMMA Initially == Init => Inv
<1> SUFFICES ASSUME Init PROVE Inv
  OBVIOUS
<1>1. /\ literal \in Literals /\ keep \in BOOLEAN /\ op = "parse" /\ s = 1
      /\ text = literal.text /\ out = <<>> /\ cap = 16 /\ str = <<>>
  BY DEF Init, SB_INIT
<1>2. text \in Seq(1..255) /\ 1 \in 1..(Len(text) + 1)
  <2>1. text \in Seq(1..255)
    BY <1>1, LiteralsAssumption
  <2>2. QED
    BY <2>1
<1>3. TypeOK
  BY <1>1, <1>2 DEF TypeOK
<1>4. QED
  BY <1>1, <1>3 DEF Inv, Room, SB_INIT

LEMMA EveryStep == Inv /\ [Next]_vars => Inv' /\ [Fits]_vars
<1> SUFFICES ASSUME Inv, [Next]_vars PROVE Inv' /\ [Fits]_vars
  OBVIOUS
<1>1. CASE Next
  BY <1>1, GrowStep, ParseStep, EmitStep, ReparseStep DEF Next
<1>2. CASE UNCHANGED vars
  BY <1>2 DEF vars, Inv, TypeOK, Room
<1>3. QED
  BY <1>1, <1>2

(* parse_string and emit_string stay inside the text they read, terminator *)
(* included, and what they write is bytes other than NUL.                  *)
THEOREM StaysInLiteral == Spec => []TypeOK
<1>1. Inv => TypeOK
  BY DEF Inv
<1>2. QED
  BY Initially, EveryStep, <1>1, PTL DEF Spec

(* No turn of parse_string or emit_string writes behind the room that      *)
(* sb_need has made, or behind throwaway_buffer, however long the text is. *)
THEOREM NoTurnOverflows == Spec => WritesFit
<1>1. [Fits]_vars => [Len(out') <= IF keep THEN cap ELSE 4]_vars
  BY DEF Fits, Room
<1>2. QED
  BY Initially, EveryStep, <1>1, PTL DEF Spec, WritesFit

-----------------------------------------------------------------------------
(* Strings that utf8_validate accepts.                                     *)

(* B are places of t from each of which a character leads to another one,  *)
(* or the end.                                                             *)
Whole(t, B) ==
  /\ B \subseteq 1..(Len(t) + 1)
  /\ \A i \in B : i = Len(t) + 1 \/ (ValidateCz(t, i) # 0 /\ i + ValidateCz(t, i) \in B)

(* From i on t consists of characters.                                     *)
Valid(t, i) == \E B : Whole(t, B) /\ i \in B

LEMMA StepIs ==
  ASSUME NEW t \in Seq(Byte), NEW i \in 1..Len(t), ValidateCz(t, i) # 0
  PROVE  /\ ValidateCz(t, i) \in Nat \ {0}
         /\ i + ValidateCz(t, i) \in 1..(Len(t) + 1) /\ i < i + ValidateCz(t, i)
<1> DEFINE n == ValidateCz(t, i)
<1>1. i + n <= Len(t) + 1
  BY ValidAt
<1>2. n \in Nat
  BY WhatWasSeen
<1>3. n # 0 /\ Len(t) \in Nat
  OBVIOUS
<1> HIDE DEF n
<1>4. n \in Nat \ {0} /\ i + n \in 1..(Len(t) + 1) /\ i < i + n
  BY <1>1, <1>2, <1>3, SMT
<1>5. QED
  BY <1>4 DEF n

(* What utf8_validate says of the rest from i on, for all i at once.       *)
Judges(f, t) ==
  f = [i \in 1..(Len(t) + 1) |->
         i = Len(t) + 1 \/ (ValidateCz(t, i) # 0 /\ f[i + ValidateCz(t, i)])]

LEMMA Judged ==
  ASSUME NEW t \in Seq(Byte)
  PROVE  Judges([i \in 1..(Len(t) + 1) |-> Valid(t, i)], t)
<1> DEFINE f == [i \in 1..(Len(t) + 1) |-> Valid(t, i)]
           L == Len(t)
<1>1. L \in Nat
  OBVIOUS
<1>2. ASSUME NEW i \in 1..(L + 1)
      PROVE  Valid(t, i) <=> i = L + 1 \/ (ValidateCz(t, i) # 0 /\ f[i + ValidateCz(t, i)])
  <2>1. CASE i = L + 1
    <3>1. Whole(t, {i}) /\ i \in {i}
      BY <1>1, <2>1 DEF Whole
    <3>2. QED
      BY <2>1, <3>1 DEF Valid
  <2>2. CASE i # L + 1
    <3>1. i \in 1..L
      BY <1>1, <2>2, SMT
    <3>2. ASSUME Valid(t, i)
          PROVE  ValidateCz(t, i) # 0 /\ f[i + ValidateCz(t, i)]
      <4>1. PICK B : Whole(t, B) /\ i \in B
        BY <3>2 DEF Valid
      <4>2. ValidateCz(t, i) # 0 /\ i + ValidateCz(t, i) \in B
        BY <2>2, <4>1 DEF Whole
      <4>3. i + ValidateCz(t, i) \in 1..(L + 1)
        BY <4>1, <4>2 DEF Whole
      <4>4. Valid(t, i + ValidateCz(t, i))
        BY <4>1, <4>2 DEF Valid
      <4>5. QED
        BY <4>2, <4>3, <4>4
    <3>3. ASSUME ValidateCz(t, i) # 0, f[i + ValidateCz(t, i)]
          PROVE  Valid(t, i)
      <4>1. i + ValidateCz(t, i) \in 1..(L + 1)
        BY <3>1, <3>3, StepIs
      <4>2. PICK B : Whole(t, B) /\ i + ValidateCz(t, i) \in B
        BY <3>3, <4>1 DEF Valid
      <4>3. Whole(t, B \cup {i}) /\ i \in B \cup {i}
        BY <3>3, <4>2 DEF Whole
      <4>4. QED
        BY <4>3 DEF Valid
    <3>4. QED
      BY <2>2, <3>2, <3>3
  <2>3. QED
    BY <2>1, <2>2
<1> DEFINE next(i) == i = L + 1 \/ (ValidateCz(t, i) # 0 /\ f[i + ValidateCz(t, i)])
<1>3. f = [i \in 1..(L + 1) |-> next(i)]
  <2>1. \A i \in 1..(L + 1) : Valid(t, i) = next(i)
    BY <1>2 DEF Valid
  <2> HIDE DEF next
  <2>2. QED
    BY <2>1, Zenon
<1>4. QED
  BY <1>3 DEF Judges

(* There is only one such function.                                        *)
LEMMA JudgedOnce ==
  ASSUME NEW t \in Seq(Byte), NEW f, Judges(f, t), NEW i \in 1..(Len(t) + 1)
  PROVE  f[i] <=> Valid(t, i)
<1> DEFINE L == Len(t)
           g == [k \in 1..(L + 1) |-> Valid(t, k)]
<1>1. L \in Nat
  OBVIOUS
<1>2. \A h : Judges(h, t) =>
        \A k \in 1..(L + 1) :
          h[k] = (k = L + 1 \/ (ValidateCz(t, k) # 0 /\ h[k + ValidateCz(t, k)]))
  BY DEF Judges
<1>3. Judges(g, t)
  BY Judged
<1> HIDE DEF g
<1> DEFINE bad == {k \in 1..(L + 1) : f[k] # g[k]}
           back == {L + 1 - k : k \in bad}
<1>4. bad = {}
  <2> SUFFICES ASSUME bad # {} PROVE FALSE
    OBVIOUS
  <2>1. back \in SUBSET Nat /\ back # {}
    BY <1>1, SMT
  <2> HIDE DEF back
  <2>2. PICK m \in back : \A k \in back : m <= k
    BY <2>1, Least
  <2>3. PICK k \in bad : m = L + 1 - k
    BY <2>2 DEF back
  <2>4. k \in 1..(L + 1) /\ f[k] # g[k]
    BY <2>3
  <2>5. /\ f[k] = (k = L + 1 \/ (ValidateCz(t, k) # 0 /\ f[k + ValidateCz(t, k)]))
        /\ g[k] = (k = L + 1 \/ (ValidateCz(t, k) # 0 /\ g[k + ValidateCz(t, k)]))
    BY <1>2, <1>3, <2>4
  <2>6. k # L + 1 /\ ValidateCz(t, k) # 0 /\ f[k + ValidateCz(t, k)] # g[k + ValidateCz(t, k)]
    BY <2>4, <2>5
  <2> DEFINE j == k + ValidateCz(t, k)
  <2>7. j \in 1..(L + 1) /\ k < j
    <3>1. k \in 1..L
      BY <1>1, <2>4, <2>6, SMT
    <3>2. QED
      BY <2>6, <3>1, StepIs
  <2>8. j \in bad
    BY <2>6, <2>7
  <2> HIDE DEF j, bad
  <2>9. L + 1 - j \in back
    BY <2>8 DEF back
  <2>10. ~(m <= L + 1 - j)
    BY <1>1, <2>3, <2>4, <2>7, SMT
  <2>11. QED
    BY <2>2, <2>9, <2>10
<1>5. f[i] = g[i]
  BY <1>4
<1>6. QED
  BY <1>5 DEF g

LEMMA ValidateIs ==
  ASSUME NEW t \in Seq(Byte)
  PROVE  Validate(t) <=> Valid(t, 1)
<1> DEFINE from == CHOOSE f : Judges(f, t)
<1>1. Judges(from, t)
  BY Judged
<1>2. Validate(t) = from[1]
  BY DEF Validate, Judges
<1>3. 1 \in 1..(Len(t) + 1)
  BY SMT
<1> HIDE DEF from
<1>4. QED
  BY <1>1, <1>2, <1>3, JudgedOnce

LEMMA NothingIsValid == Valid(<<>>, 1) /\ <<>> \in Seq(Byte)
<1>1. Len(<<>>) = 0 /\ <<>> \in Seq(Byte)
  BY SMT
<1>2. Whole(<<>>, {1}) /\ 1 \in {1}
  <2>1. 1 \in 1..(0 + 1) /\ 1 = 0 + 1
    BY SMT
  <2>2. QED
    BY <1>1, <2>1 DEF Whole
<1>3. QED
  BY <1>1, <1>2 DEF Valid

LEMMA JoinedHas ==
  ASSUME NEW S, NEW p \in Seq(S), NEW q \in Seq(S)
  PROVE  /\ Len(p) \in Nat /\ Len(q) \in Nat
         /\ \A i \in 1..Len(p) : (p \o q)[i] = p[i]
         /\ \A i \in 1..Len(q) : (p \o q)[Len(p) + i] = q[i]
BY SMT

LEMMA CharacterLength ==
  ASSUME NEW u, IsScalar(u)
  PROVE  WriteChar(u) \in Seq(0..255) /\ Len(WriteChar(u)) \in Nat \ {0}
<1>1. CASE u = 0
  <2>1. WriteChar(u) = <<0>>
    BY <1>1, WriteForms
  <2>2. QED
    BY <2>1
<1>2. CASE u # 0
  <2> DEFINE w == WriteChar(u)
  <2>1. w \in Seq(Byte) /\ Len(w) \in 1..4
    BY <1>2, WrittenChar DEF Bytes
  <2> HIDE DEF w
  <2>2. w \in Seq(0..255) /\ Len(w) \in Nat \ {0}
    BY <2>1, SMT DEF Byte
  <2>3. QED
    BY <2>2 DEF w
<1>3. QED
  BY <1>1, <1>2

(* A character more.                                                       *)
LEMMA CharacterMore ==
  ASSUME NEW t \in Seq(Byte), Valid(t, 1), NEW u, IsScalar(u), WriteChar(u) \in Seq(Byte)
  PROVE  Valid(t \o WriteChar(u), 1)
<1> DEFINE w == WriteChar(u)
           L == Len(t)
           v == t \o w
<1>1. /\ L \in Nat /\ Len(w) \in Nat /\ v \in Seq(Byte) /\ Len(v) = L + Len(w)
      /\ \A i \in 1..L : v[i] = t[i]
      /\ \A i \in 1..Len(w) : v[L + i] = w[i]
  BY JoinedHas, Joined
<1>2. PICK B : Whole(t, B) /\ 1 \in B
  BY DEF Valid
<1> HIDE DEF w, v
<1>3. ASSUME NEW i \in B, i # L + 1
      PROVE  ValidateCz(v, i) = ValidateCz(t, i) /\ ValidateCz(t, i) # 0
             /\ i + ValidateCz(t, i) \in B
  <2>1. i \in 1..L /\ ValidateCz(t, i) # 0 /\ i + ValidateCz(t, i) \in B
    <3>1. i \in 1..(L + 1)
      BY <1>2 DEF Whole
    <3>2. i \in 1..L
      BY <1>1, <1>3, <3>1, SMT
    <3>3. QED
      BY <1>2, <1>3, <3>2 DEF Whole
  <2> DEFINE x == ReadChar(t, i)
             y == WriteChar(x)
  <2>2. /\ i + ValidateCz(t, i) <= L + 1 /\ IsScalar(x)
        /\ Len(y) = ValidateCz(t, i) /\ StandsAt(t, i, y)
    BY <2>1, ValidAt
  <2> HIDE DEF x, y
  <2>3. ValidateCz(t, i) \in Nat \ {0}
    BY <2>1, StepIs
  <2>4. StandsAt(v, i, y)
    <3>1. i + Len(y) <= L + 1 /\ \A k \in 1..Len(y) : t[i + k - 1] = y[k]
      BY <2>2 DEF StandsAt
    <3>2. Len(y) \in Nat
      BY <2>2, <2>3
    <3>3. \A k \in 1..Len(y) : i + k - 1 \in 1..L
      BY <1>1, <2>1, <3>1, <3>2, SMT
    <3>4. i + Len(y) <= Len(v) + 1
      BY <1>1, <2>1, <3>1, <3>2, SMT
    <3>5. QED
      BY <1>1, <3>1, <3>3, <3>4 DEF StandsAt
  <2>5. ValidateCz(v, i) = Len(y)
    <3>1. i \in Nat
      BY <2>1, SMT
    <3>2. QED
      BY <1>1, <2>2, <2>4, <3>1, EncodedAt DEF y
  <2>6. QED
    BY <2>1, <2>2, <2>5
<1>4. ValidateCz(v, L + 1) = Len(w) /\ Len(w) # 0
  <2>1. Len(w) # 0
    BY CharacterLength DEF w
  <2>2. StandsAt(v, L + 1, w)
    <3>1. \A k \in 1..Len(w) : L + 1 + k - 1 = L + k
      BY <1>1, SMT
    <3>2. L + 1 + Len(w) <= Len(v) + 1
      BY <1>1, SMT
    <3>3. QED
      BY <1>1, <3>1, <3>2 DEF StandsAt
  <2>3. L + 1 \in Nat
    BY <1>1, SMT
  <2>4. QED
    BY <1>1, <2>1, <2>2, <2>3, EncodedAt DEF w
<1> DEFINE C == B \cup {Len(v) + 1}
<1>5. Whole(v, C)
  <2>1. C \subseteq 1..(Len(v) + 1)
    <3>1. \A i \in 1..(L + 1) : i \in 1..(Len(v) + 1)
      BY <1>1, SMT
    <3>2. Len(v) + 1 \in 1..(Len(v) + 1)
      BY <1>1, SMT
    <3>3. QED
      BY <1>2, <3>1, <3>2 DEF Whole
  <2>2. ASSUME NEW i \in B, i # L + 1
        PROVE  ValidateCz(v, i) # 0 /\ i + ValidateCz(v, i) \in C
    BY <1>3, <2>2
  <2>3. L + 1 + Len(w) = Len(v) + 1
    BY <1>1, SMT
  <2>4. ValidateCz(v, L + 1) # 0 /\ L + 1 + ValidateCz(v, L + 1) \in C
    BY <1>4, <2>3
  <2>5. QED
    BY <2>1, <2>2, <2>4 DEF Whole
<1>6. QED
  BY <1>2, <1>5 DEF Valid, v, w

(* The character at i of a valid text, and the rest.                       *)
LEMMA ValidGoesOn ==
  ASSUME NEW t \in Seq(Byte), NEW i \in 1..Len(t), Valid(t, i)
  PROVE  ValidateCz(t, i) # 0 /\ Valid(t, i + ValidateCz(t, i))
<1>1. PICK B : Whole(t, B) /\ i \in B
  BY DEF Valid
<1>2. i # Len(t) + 1
  BY SMT
<1>3. QED
  BY <1>1, <1>2 DEF Whole, Valid

(* The bytes of the character at i.                                        *)
LEMMA CharacterIs ==
  ASSUME NEW t \in Seq(Byte), NEW i \in 1..Len(t), ValidateCz(t, i) # 0
  PROVE  SubSeq(t, i, i + ValidateCz(t, i) - 1) = WriteChar(ReadChar(t, i))
         /\ IsScalar(ReadChar(t, i))
<1> DEFINE n == ValidateCz(t, i)
           w == WriteChar(ReadChar(t, i))
           q == SubSeq(t, i, i + n - 1)
<1>1. /\ i + n <= Len(t) + 1 /\ IsScalar(ReadChar(t, i)) /\ Len(w) = n
      /\ \A k \in 1..n : t[i + k - 1] = w[k]
  BY ValidAt DEF StandsAt
<1>2. n \in Nat \ {0} /\ Len(t) \in Nat
  BY StepIs
<1>3. w \in Seq(0..255)
  BY <1>1, CharacterLength
<1> HIDE DEF n, w
<1>4. q = [k \in 1..n |-> t[i + k - 1]]
  BY <1>1, <1>2, SMT
<1>5. w = [k \in 1..n |-> w[k]]
  BY <1>1, <1>3
<1> HIDE DEF q
<1>6. q = w
  BY <1>1, <1>4, <1>5
<1>7. QED
  BY <1>1, <1>6 DEF q, n, w

-----------------------------------------------------------------------------
(* The inductive invariant behind the asserts: what a caller is given, and *)
(* what is left of it while it is written as a literal, is UTF-8.          *)

Codec ==
  /\ Parsing /\ keep /\ s > 1 => Valid(out, 1)
  /\ op = "parsed" /\ keep => Valid(str, 1)
  /\ op = "emit" => Valid(text, s)
  /\ op # "aborted"

(* A turn of parse_string that writes a character.                         *)
LEMMA TakeWhole ==
  ASSUME Inv, Codec, InBody, NEW n \in Nat, NEW u, IsScalar(u), WriteChar(u) \in Seq(Byte),
         Take(n, WriteChar(u))
  PROVE  Codec'
<1>1. /\ s' = s + n /\ out' = Written(WriteChar(u))
      /\ keep' = keep /\ op' = op /\ op \in {"parse", "again"} /\ s > 1
  BY DEF Take, InBody, Parsing
<1>2. ASSUME keep PROVE Valid(out', 1)
  <2>1. Valid(out, 1) /\ out \in Seq(Byte)
    BY <1>1, <1>2, InvFacts DEF Codec, Parsing
  <2>2. out' = out \o WriteChar(u)
    BY <1>1, <1>2 DEF Written
  <2>3. Valid(out \o WriteChar(u), 1)
    BY <2>1, CharacterMore
  <2>4. QED
    BY <2>2, <2>3
<1>3. QED
  BY <1>1, <1>2 DEF Codec, Parsing

(* A code point that an escape stands for, other than U+0000.              *)
LEMMA TakeCodeWhole ==
  ASSUME Inv, Codec, InBody, NEW n \in Nat, NEW u, IsScalar(u), u # 0, TakeCode(n, u)
  PROVE  Codec'
<1>1. WriteChar(u) \in Seq(Byte)
  BY WrittenChar DEF Bytes
<1>2. Take(n, WriteChar(u))
  BY DEF TakeCode
<1>3. QED
  BY <1>1, <1>2, TakeWhole

(* A turn of emit_string that reads a character.                           *)
LEMMA TakeNext ==
  ASSUME Inv, Codec, op = "emit", s <= Len(text), NEW n, NEW w, Take(n, w),
         n = ValidateCz(text, s)
  PROVE  Codec'
<1>1. /\ s' = s + n /\ text' = text /\ op' = op
  BY DEF Take
<1>2. Valid(text, s) /\ text \in Seq(Byte) /\ s \in 1..Len(text)
  <2>1. text \in Seq(Byte) /\ Len(text) \in Nat /\ s \in Nat /\ s >= 1
    BY InvFacts
  <2>2. QED
    BY <2>1, SMT DEF Codec
<1>3. Valid(text, s + n)
  BY <1>2, ValidGoesOn
<1>4. QED
  BY <1>1, <1>3 DEF Codec, Parsing

LEMMA NoNul == \A b \in Byte : b # 0
BY SMT DEF Byte

LEMMA UnescapedIs ==
  ASSUME NEW b \in DOMAIN Unescaped
  PROVE  Unescaped[b] \in 1..127
BY SMT DEF Unescaped

LEMMA OneByteLong ==
  ASSUME Inv, s <= Len(text), text[s] <= 127
  PROVE  ValidateCz(text, s) = 1
<1>1. text \in Seq(Byte) /\ s \in 1..Len(text) /\ s # Len(text) + 1
  <2>1. text \in Seq(Byte) /\ Len(text) \in Nat /\ s \in Nat /\ s >= 1
    BY InvFacts
  <2>2. QED
    BY <2>1, SMT
<1>2. text[s] \in 0..255 /\ ByteAt(text, s) = text[s]
  <2>1. text[s] \in Byte
    BY <1>1
  <2>2. text[s] \in 0..255
    BY <2>1, SMT DEF Byte
  <2>3. QED
    BY <1>1, <2>2, Zenon DEF ByteAt
<1>3. LengthOf(text[s], ByteAt(text, s + 1), ByteAt(text, s + 2), ByteAt(text, s + 3)) = 1
  BY <1>2, LengthOfWhole, Zenon
<1>4. QED
  BY <1>2, <1>3 DEF ValidateCz

LEMMA ParseCodec ==
  ASSUME Inv, Codec, ParseTurn
  PROVE  Codec'
<1>1. CASE OpenQuote
  <2>1. /\ out' = <<>> /\ op' = op /\ keep' = keep /\ Parsing
    BY <1>1 DEF OpenQuote
  <2>2. Valid(out', 1)
    BY <2>1, NothingIsValid
  <2>3. QED
    BY <2>1, <2>2 DEF Codec, Parsing
<1>2. CASE ParseLetter
  <2> DEFINE u == Unescaped[Here(1)]
  <2>1. InBody /\ Take(2, <<u>>) /\ Here(1) \in DOMAIN Unescaped
    BY <1>2 DEF ParseLetter, AtLetter
  <2>2. u \in 1..127
    BY <2>1, UnescapedIs
  <2> HIDE DEF u
  <2>3. u \in Int /\ u <= 127 /\ u \in 0..127 /\ u \in Byte
    BY <2>2, SMT DEF Byte
  <2>4. WriteChar(u) = <<u>> /\ IsScalar(u)
    BY <2>3, WriteForms, ScalarRanges, Zenon
  <2>5. <<u>> \in Seq(Byte) /\ 2 \in Nat
    BY <2>3
  <2>6. QED
    BY <2>1, <2>4, <2>5, TakeWhole
<1>3. CASE ParseSingle
  <2>1. /\ InBody /\ TakeCode(6, Hex16(2)) /\ AtUnit
        /\ Hex16(2) # 0 /\ ~Surrogate(Hex16(2))
    BY <1>3 DEF ParseSingle, AtSingle
  <2>2. Is16(Hex16(2))
    BY <2>1, UnitInText, InvFacts
  <2>3. ASSUME NEW u, Is16(u), ~Surrogate(u) PROVE IsScalar(u)
    BY <2>3, SMT DEF Surrogate, IsScalar, Is16
  <2>4. IsScalar(Hex16(2)) /\ 6 \in Nat
    BY <2>1, <2>2, <2>3
  <2>5. QED
    BY <2>1, <2>4, TakeCodeWhole
<1>4. CASE ParsePair
  <2>1. /\ InBody /\ TakeCode(12, FromSurrogatePair(Hex16(2), Hex16(8)))
        /\ AtPair
    BY <1>4 DEF ParsePair
  <2>2. Is16(Hex16(2)) /\ Is16(Hex16(8))
    BY <2>1, PairInText, InvFacts
  <2>3. ASSUME NEW a, Is16(a), NEW b, Is16(b)
        PROVE  IsScalar(FromSurrogatePair(a, b)) /\ FromSurrogatePair(a, b) # 0
    <3>1. /\ a % 1024 \in Int /\ 0 <= a % 1024 /\ a % 1024 < 1024
          /\ b % 1024 \in Int /\ 0 <= b % 1024 /\ b % 1024 < 1024
      BY <2>3, SMT DEF Is16
    <3>2. QED
      BY <3>1, SMT DEF FromSurrogatePair, IsScalar
  <2>4. /\ IsScalar(FromSurrogatePair(Hex16(2), Hex16(8)))
        /\ FromSurrogatePair(Hex16(2), Hex16(8)) # 0
        /\ 12 \in Nat
    BY <2>2, <2>3
  <2>5. QED
    BY <2>1, <2>4, TakeCodeWhole
<1>5. CASE ParseCharacter
  <2> DEFINE n == ValidateCz(text, s)
             w == SubSeq(text, s, s + n - 1)
  <2>1. InBody /\ Take(n, w) /\ n # 0 /\ Here(0) > 31
    BY <1>5 DEF ParseCharacter, AtCharacter
  <2>2. s \in 1..Len(text) /\ text \in Seq(Byte)
    <3>1. s + 0 \in 1..(Len(text) + 1) /\ s + 0 = s /\ Here(0) # 0
      BY <2>1, InvFacts
    <3>2. QED
      BY <3>1, InText, InvFacts
  <2>3. w = WriteChar(ReadChar(text, s)) /\ IsScalar(ReadChar(text, s))
    BY <2>1, <2>2, CharacterIs
  <2>4. w \in Seq(Byte)
    BY <2>1, <2>2, CharacterInText, InvFacts DEF Bytes
  <2>5. n \in Nat
    BY <2>1, <2>2, StepIs
  <2> HIDE DEF n, w
  <2>6. QED
    BY <2>1, <2>3, <2>4, <2>5, TakeWhole
<1>6. CASE CloseQuote
  <2>1. InBody /\ \A k \in 1..Len(out) : out[k] # 0
    <3>1. out \in Seq(Byte)
      BY InvFacts
    <3>2. ASSUME NEW k \in 1..Len(out) PROVE out[k] # 0
      <4>1. out[k] \in Byte
        BY <3>1
      <4>2. QED
        BY <4>1, NoNul
    <3>3. QED
      BY <1>6, <3>2 DEF CloseQuote
  <2>2. /\ op' = (IF op = "parse" THEN "parsed" ELSE "reparsed")
        /\ str' = (IF keep /\ op = "parse" THEN out ELSE str)
        /\ keep' = keep
    BY <1>6, <2>1 DEF CloseQuote
  <2>3. op = "parse" /\ keep => Valid(str', 1)
    BY <2>1, <2>2 DEF Codec, InBody, Parsing
  <2>4. QED
    BY <2>1, <2>2, <2>3 DEF Codec, Parsing, InBody
<1>7. CASE Fail
  BY <1>7 DEF Fail, Codec, Parsing, InBody
<1>8. QED
  BY <1>1, <1>2, <1>3, <1>4, <1>5, <1>6, <1>7 DEF ParseTurn

LEMMA EmitCodec ==
  ASSUME Inv, Codec, EmitTurn
  PROVE  Codec'
<1>1. CASE EmitOpen
  <2>1. op = "parsed" /\ keep /\ str \in Seq(Byte)
    BY <1>1, InvFacts DEF EmitOpen
  <2>2. Valid(str, 1)
    BY <2>1 DEF Codec
  <2>3. op' = "emit" /\ text' = str /\ s' = 1
    BY <1>1, <2>1, <2>2, ValidateIs DEF EmitOpen
  <2>4. QED
    BY <2>2, <2>3 DEF Codec, Parsing
<1>2. CASE EmitLetter
  <2>1. /\ op = "emit" /\ s <= Len(text) /\ Take(1, <<Backslash, Escaped[text[s]]>>)
        /\ text[s] \in {34, 92, 8, 12, 10, 13, 9}
    BY <1>2 DEF EmitLetter, Emitting, Lettered, Escaped
  <2>2. text[s] <= 127
    BY <2>1, SMT
  <2>3. ValidateCz(text, s) = 1
    BY <2>1, <2>2, OneByteLong
  <2>4. QED
    BY <2>1, <2>3, TakeNext
<1>3. CASE EmitUnit
  <2>1. /\ op = "emit" /\ s <= Len(text) /\ text[s] < 31
        /\ Take(1, <<Backslash, 117>> \o WriteHex16(ReadChar(text, s)))
    BY <1>3 DEF EmitUnit, Emitting
  <2>2. text[s] <= 127
    <3>1. text \in Seq(Byte) /\ s \in 1..Len(text)
      BY <2>1, InvFacts
    <3>2. text[s] \in Byte /\ text[s] < 31
      BY <2>1, <3>1
    <3>3. QED
      BY <3>2, SMT DEF Byte
  <2>3. ValidateCz(text, s) = 1
    BY <2>1, <2>2, OneByteLong
  <2>4. QED
    BY <2>1, <2>3, TakeNext
<1>4. CASE EmitCharacter
  <2>1. op = "emit" /\ s <= Len(text)
    BY <1>4 DEF EmitCharacter, Emitting
  <2>2. text \in Seq(Byte) /\ s \in 1..Len(text) /\ Valid(text, s)
    BY <2>1, InvFacts DEF Codec
  <2>3. ValidateCz(text, s) # 0
    BY <2>2, ValidGoesOn
  <2>4. Take(ValidateCz(text, s), SubSeq(text, s, s + ValidateCz(text, s) - 1))
    BY <1>4, <2>3 DEF EmitCharacter
  <2>5. QED
    BY <2>1, <2>4, TakeNext
<1>5. CASE EmitClose
  BY <1>5 DEF EmitClose, Codec, Parsing
<1>6. QED
  BY <1>1, <1>2, <1>3, <1>4, <1>5 DEF EmitTurn

LEMMA CodecStep == Inv /\ Codec /\ [Next]_vars => Codec'
<1> SUFFICES ASSUME Inv, Codec, [Next]_vars PROVE Codec'
  OBVIOUS
<1>1. CASE Grow
  BY <1>1 DEF Grow, Codec, Parsing
<1>2. CASE Reparse
  BY <1>2 DEF Reparse, Codec, Parsing
<1>3. CASE UNCHANGED vars
  BY <1>3 DEF vars, Codec, Parsing
<1>4. QED
  BY <1>1, <1>2, <1>3, ParseCodec, EmitCodec DEF Next

(* The asserts of json.c hold for every literal: utf8_write_char is given  *)
(* code points that UTF-8 can encode, sb_finish no NUL, and emit_string,   *)
(* which the parser's result goes to, nothing but UTF-8.                   *)
THEOREM NoAssertFails == Spec => []AssertsHold
<1>1. Init => Codec
  BY DEF Init, Codec, Parsing
<1>2. Codec => AssertsHold
  BY DEF Codec, AssertsHold
<1>3. QED
  BY Initially, EveryStep, CodecStep, <1>1, <1>2, PTL DEF Spec

-----------------------------------------------------------------------------
(* What emit_string writes and parse_string reads of it.                   *)

(* What emit_string writes for the character at i of t.                    *)
Piece(t, i) ==
  IF t[i] \in Lettered THEN <<Backslash, Escaped[t[i]]>>
  ELSE IF t[i] < 31 THEN <<Backslash, 117>> \o WriteHex16(ReadChar(t, i))
  ELSE SubSeq(t, i, i + ValidateCz(t, i) - 1)

(* M are pairs of a place in t and one in o: what o has there is written   *)
(* for the character of t, and behind both there is another pair, up to e. *)
Chain(t, o, M, e) ==
  \A p \in M :
    \/ p = e
    \/ /\ p[1] \in 1..Len(t) /\ ValidateCz(t, p[1]) # 0
       /\ p[2] \in Nat \ {0} /\ StandsAt(o, p[2], Piece(t, p[1]))
       /\ <<p[1] + ValidateCz(t, p[1]), p[2] + Len(Piece(t, p[1]))>> \in M

(* Places of t and o that lead to e.                                       *)
Leads(t, o, p, e) == \E M : Chain(t, o, M, e) /\ p \in M

(* o is t as a literal.                                                    *)
Echoes(t, o) ==
  /\ o \in Seq(Byte) /\ Len(o) > 1 /\ o[1] = Quote /\ o[Len(o)] = Quote
  /\ Leads(t, o, <<1, 2>>, <<Len(t) + 1, Len(o)>>)

(* The character that the parser of json.c refuses and the printer writes. *)
Printable(t) == \A k \in 1..Len(t) : t[k] # 31

(* out is str up to the place that leads on from s.                        *)
Reread ==
  /\ Len(out) <= Len(str) /\ \A k \in 1..Len(out) : out[k] = str[k]
  /\ Leads(str, text, <<Len(out) + 1, s>>, <<Len(str) + 1, Len(text)>>)

Mirror ==
  /\ op = "emit" => /\ text = str /\ Len(out) >= 1 /\ out[1] = Quote
                    /\ Leads(str, out, <<1, 2>>, <<s, Len(out) + 1>>)
  /\ op = "encoded" => Echoes(str, out)
  /\ op = "again" => Echoes(str, text) /\ (Printable(str) /\ s > 1 => Reread)
  /\ Printable(str) => RoundTrip

LEMMA ByteBounds == \A b \in Byte : b \in Int /\ b \in Nat /\ b >= 1 /\ b \in 0..255
BY SMT DEF Byte

LEMMA ByteLong ==
  ASSUME NEW t \in Seq(Byte), NEW i \in 1..Len(t), t[i] <= 127
  PROVE  ValidateCz(t, i) = 1 /\ ReadChar(t, i) = t[i]
<1>1. i # Len(t) + 1
  BY SMT
<1>2. t[i] \in 0..255 /\ t[i] \in Int /\ ByteAt(t, i) = t[i]
  <2>1. t[i] \in Byte
    OBVIOUS
  <2>2. t[i] \in 0..255 /\ t[i] \in Int
    BY <2>1, ByteBounds
  <2>3. QED
    BY <1>1, <2>2, Zenon DEF ByteAt
<1>3. LengthOf(t[i], ByteAt(t, i + 1), ByteAt(t, i + 2), ByteAt(t, i + 3)) = 1
  BY <1>2, LengthOfWhole, Zenon
<1>4. CodeOf(t[i], ByteAt(t, i + 1), ByteAt(t, i + 2), ByteAt(t, i + 3)) = t[i]
  BY <1>2, ReadForms, Zenon
<1>5. QED
  BY <1>2, <1>3, <1>4 DEF ValidateCz, ReadChar

(* A piece is bytes, one or more.                                          *)
LEMMA PieceIs ==
  ASSUME NEW t \in Seq(Byte), NEW i \in 1..Len(t), ValidateCz(t, i) # 0
  PROVE  Piece(t, i) \in Seq(Byte) /\ Len(Piece(t, i)) \in Nat \ {0}
<1>0. t[i] \in Byte /\ Len(t) \in Nat
  OBVIOUS
<1>1. CASE t[i] \in Lettered
  <2>1. \A b \in Lettered : Escaped[b] \in Byte
    BY SMT DEF Escaped, Byte, Lettered
  <2>2. Escaped[t[i]] \in Byte /\ Backslash \in Byte
    BY <1>1, <2>1, SMT DEF Backslash, Byte
  <2>3. Piece(t, i) = <<Backslash, Escaped[t[i]]>>
    BY <1>1 DEF Piece
  <2> HIDE DEF Piece
  <2>4. QED
    BY <2>2, <2>3, SMT
<1>2. CASE t[i] \notin Lettered /\ t[i] < 31
  <2>1. Piece(t, i) = <<Backslash, 117>> \o WriteHex16(ReadChar(t, i))
    BY <1>2 DEF Piece
  <2>2. t[i] <= 127 /\ t[i] \in Nat
    BY <1>0, <1>2, ByteBounds, SMT
  <2>3. Bytes(Piece(t, i), 6)
    BY <2>1, <2>2, ByteLong, WrittenUnit
  <2>4. Len(Piece(t, i)) \in 1..6
    BY <2>3, Zenon DEF Bytes
  <2>5. \A n \in 1..6 : n \in Nat \ {0}
    BY SMT
  <2>6. QED
    BY <2>3, <2>4, <2>5, Zenon DEF Bytes
<1>3. CASE t[i] \notin Lettered /\ ~(t[i] < 31)
  <2> DEFINE n == ValidateCz(t, i)
             w == SubSeq(t, i, i + n - 1)
  <2>1. Piece(t, i) = w
    BY <1>3 DEF Piece
  <2>2. n \in Nat \ {0} /\ i + n \in 1..(Len(t) + 1)
    BY StepIs
  <2> HIDE DEF n
  <2>3. w \in Seq(Byte) /\ Len(w) = n
    BY <1>0, <2>2, SMT
  <2>4. QED
    BY <2>1, <2>2, <2>3
<1>4. QED
  BY <1>1, <1>2, <1>3

LEMMA PieceLength ==
  ASSUME NEW t \in Seq(Byte), NEW i \in 1..Len(t), ValidateCz(t, i) # 0,
         t[i] \notin Lettered, ~(t[i] < 31)
  PROVE  Piece(t, i) = WriteChar(ReadChar(t, i)) /\ Len(Piece(t, i)) = ValidateCz(t, i)
<1>1. Piece(t, i) = SubSeq(t, i, i + ValidateCz(t, i) - 1)
  BY DEF Piece
<1>2. QED
  BY <1>1, CharacterIs, ValidAt

-----------------------------------------------------------------------------
(* Writing.                                                                *)

LEMMA StandsStill ==
  ASSUME NEW o \in Seq(Byte), NEW q \in Seq(Byte), NEW j \in Nat \ {0}, NEW w, Len(w) \in Nat,
         StandsAt(o, j, w)
  PROVE  StandsAt(o \o q, j, w)
<1>1. /\ Len(o) \in Nat /\ Len(q) \in Nat /\ Len(o \o q) = Len(o) + Len(q)
      /\ \A k \in 1..Len(o) : (o \o q)[k] = o[k]
  BY JoinedHas, Joined
<1>2. j + Len(w) <= Len(o) + 1 /\ \A k \in 1..Len(w) : o[j + k - 1] = w[k]
  BY DEF StandsAt
<1>3. \A k \in 1..Len(w) : j + k - 1 \in 1..Len(o)
  BY <1>1, <1>2, SMT
<1>4. j + Len(w) <= Len(o \o q) + 1
  BY <1>1, <1>2, SMT
<1>5. QED
  BY <1>1, <1>2, <1>3, <1>4 DEF StandsAt

LEMMA StandsLast ==
  ASSUME NEW o \in Seq(Byte), NEW w \in Seq(Byte)
  PROVE  StandsAt(o \o w, Len(o) + 1, w)
<1>1. /\ Len(o) \in Nat /\ Len(w) \in Nat /\ Len(o \o w) = Len(o) + Len(w)
      /\ \A k \in 1..Len(w) : (o \o w)[Len(o) + k] = w[k]
  BY JoinedHas, Joined
<1>2. \A k \in 1..Len(w) : Len(o) + 1 + k - 1 = Len(o) + k
  BY <1>1, SMT
<1>3. Len(o) + 1 + Len(w) <= Len(o \o w) + 1
  BY <1>1, SMT
<1>4. QED
  BY <1>1, <1>2, <1>3 DEF StandsAt

(* A piece more.                                                           *)
LEMMA LeadsMore ==
  ASSUME NEW t \in Seq(Byte), NEW o \in Seq(Byte), NEW i \in 1..Len(t), ValidateCz(t, i) # 0,
         NEW j \in Nat \ {0}, Leads(t, o, <<1, j>>, <<i, Len(o) + 1>>)
  PROVE  Leads(t, o \o Piece(t, i), <<1, j>>,
               <<i + ValidateCz(t, i), Len(o \o Piece(t, i)) + 1>>)
<1> DEFINE n == ValidateCz(t, i)
           w == Piece(t, i)
           v == o \o w
           e == <<i + n, Len(v) + 1>>
<1>1. PICK M : Chain(t, o, M, <<i, Len(o) + 1>>) /\ <<1, j>> \in M
  BY DEF Leads
<1>2. w \in Seq(Byte) /\ Len(w) \in Nat \ {0} /\ Len(o) \in Nat
  BY PieceIs
<1>3. Len(v) = Len(o) + Len(w)
  BY <1>2, Joined
<1>4. Chain(t, v, M \cup {e}, e)
  <2> SUFFICES ASSUME NEW p \in M
               PROVE  /\ p[1] \in 1..Len(t) /\ ValidateCz(t, p[1]) # 0
                      /\ p[2] \in Nat \ {0} /\ StandsAt(v, p[2], Piece(t, p[1]))
                      /\ <<p[1] + ValidateCz(t, p[1]), p[2] + Len(Piece(t, p[1]))>> \in M \cup {e}
    BY DEF Chain
  <2>1. CASE p = <<i, Len(o) + 1>>
    <3>1. p[1] = i /\ p[2] = Len(o) + 1 /\ p[2] \in Nat \ {0}
      BY <1>2, <2>1
    <3>2. StandsAt(v, p[2], w)
      BY <1>2, <3>1, StandsLast
    <3>3. Len(o) + 1 + Len(w) = Len(v) + 1
      BY <1>2, <1>3, SMT
    <3>4. <<p[1] + n, p[2] + Len(w)>> = e
      BY <3>1, <3>3
    <3>5. QED
      BY <3>1, <3>2, <3>4
  <2>2. CASE p # <<i, Len(o) + 1>>
    <3>1. /\ p[1] \in 1..Len(t) /\ ValidateCz(t, p[1]) # 0
          /\ p[2] \in Nat \ {0} /\ StandsAt(o, p[2], Piece(t, p[1]))
          /\ <<p[1] + ValidateCz(t, p[1]), p[2] + Len(Piece(t, p[1]))>> \in M
      BY <1>1, <2>2 DEF Chain
    <3>2. Len(Piece(t, p[1])) \in Nat
      BY <3>1, PieceIs
    <3>3. StandsAt(v, p[2], Piece(t, p[1]))
      BY <1>2, <3>1, <3>2, StandsStill
    <3>4. QED
      BY <3>1, <3>3
  <2>3. QED
    BY <2>1, <2>2
<1>5. QED
  BY <1>1, <1>4 DEF Leads

-----------------------------------------------------------------------------
(* Reading it again.                                                       *)

LEMMA WritesHex ==
  ASSUME NEW b \in Nat, b < 31
  PROVE  /\ WriteHex16(b) = <<48, 48, HexChar(b \div 16), HexChar(b % 16)>>
         /\ HexDigit(48) = 0 /\ HexDigit(HexChar(b \div 16)) = b \div 16
         /\ HexDigit(HexChar(b % 16)) = b % 16
         /\ b \div 16 \in 0..15 /\ b % 16 \in 0..15 /\ (b \div 16) * 16 + (b % 16) = b
<1>1. /\ b \div 4096 = 0 /\ b \div 256 = 0 /\ b \div 16 \in 0..15 /\ b % 16 \in 0..15
      /\ (b \div 16) * 16 + (b % 16) = b
  BY SMT
<1>2. \A d \in 0..15 : HexDigit(HexChar(d)) = d /\ d % 16 = d
  BY SMT DEF HexDigit, HexChar
<1>3. HexChar(0) = 48 /\ HexDigit(48) = 0 /\ 0 % 16 = 0
  BY SMT DEF HexChar, HexDigit
<1>4. (b \div 16) % 16 = b \div 16
  BY <1>1, <1>2
<1>5. WriteHex16(b) = <<48, 48, HexChar(b \div 16), HexChar(b % 16)>>
  BY <1>1, <1>3, <1>4 DEF WriteHex16
<1>6. QED
  BY <1>1, <1>2, <1>3, <1>5

(* What stands at s, read byte by byte.                                    *)
LEMMA HereIs ==
  ASSUME TypeOK, NEW w, NEW n \in Nat, Len(w) = n, StandsAt(text, s, w)
  PROVE  \A k \in 0..(n - 1) : Here(k) = w[k + 1]
<1>1. s \in Nat /\ Len(text) \in Nat
  BY DEF TypeOK
<1>2. s + n <= Len(text) + 1 /\ \A m \in 1..n : text[s + m - 1] = w[m]
  BY DEF StandsAt
<1>3. ASSUME NEW k \in 0..(n - 1) PROVE Here(k) = w[k + 1]
  <2>1. k + 1 \in 1..n /\ s + (k + 1) - 1 = s + k /\ s + k # Len(text) + 1
    BY <1>1, <1>2, SMT
  <2>2. text[s + k] = w[k + 1]
    BY <1>2, <2>1
  <2>3. QED
    BY <2>1, <2>2 DEF Here, ByteAt
<1>4. QED
  BY <1>3

LEMMA UnitLength ==
  ASSUME NEW b \in Nat, b < 31
  PROVE  Len(<<Backslash, 117>> \o WriteHex16(b)) = 6
<1> DEFINE x == HexChar(b \div 16)
           y == HexChar(b % 16)
<1>1. WriteHex16(b) = <<48, 48, x, y>>
  BY WritesHex
<1> HIDE DEF x, y
<1>2. Len(<<Backslash, 117>>) = 2 /\ Len(<<48, 48, x, y>>) = 4
  OBVIOUS
<1>3. <<Backslash, 117>> \in Seq({Backslash, 117, 48, x, y})
      /\ <<48, 48, x, y>> \in Seq({Backslash, 117, 48, x, y})
  OBVIOUS
<1>4. Len(<<Backslash, 117>> \o <<48, 48, x, y>>) = 6
  BY <1>2, <1>3, Joined
<1>5. QED
  BY <1>1, <1>4

(* A letter is read as the character it was written for.                   *)
LEMMA SeesLetter ==
  ASSUME Inv, NEW b \in Lettered, StandsAt(text, s, <<Backslash, Escaped[b]>>)
  PROVE  /\ AtLetter /\ Unescaped[Here(1)] = b
         /\ ~AtQuote /\ ~AtUnit /\ ~AtCharacter
<1> DEFINE w == <<Backslash, Escaped[b]>>
<1>1. Len(w) = 2 /\ w[0 + 1] = Backslash /\ w[1 + 1] = Escaped[b]
  BY SMT
<1>2. Here(0) = Backslash /\ Here(1) = Escaped[b]
  <2>1. StandsAt(text, s, w) /\ TypeOK
    BY InvFacts
  <2> HIDE DEF w
  <2>2. 2 \in Nat /\ 0 \in 0..(2 - 1) /\ 1 \in 0..(2 - 1)
    BY SMT
  <2>3. \A k \in 0..(2 - 1) : Here(k) = w[k + 1]
    BY <1>1, <2>1, <2>2, HereIs
  <2>4. QED
    BY <1>1, <2>2, <2>3
<1>3. /\ Escaped[b] \in DOMAIN Unescaped /\ Unescaped[Escaped[b]] = b /\ Escaped[b] # 117
  BY SMT DEF Lettered, Escaped, Unescaped
<1>4. Backslash # Quote
  BY DEF Backslash, Quote
<1>5. QED
  BY <1>2, <1>3, <1>4 DEF AtLetter, AtQuote, AtUnit, AtCharacter

(* So is an escape.                                                        *)
LEMMA SeesUnit ==
  ASSUME Inv, NEW b \in Nat, 0 < b, b < 31,
         StandsAt(text, s, <<Backslash, 117>> \o WriteHex16(b))
  PROVE  /\ AtSingle /\ Hex16(2) = b
         /\ ~AtQuote /\ ~AtLetter /\ ~AtPair /\ ~AtCharacter
<1> DEFINE x == b \div 16
           y == b % 16
           p == <<Backslash, 117>>
           q == WriteHex16(b)
<1>1. /\ q = <<48, 48, HexChar(x), HexChar(y)>> /\ x \in 0..15 /\ y \in 0..15
  BY WritesHex
<1>2. /\ p \in Seq(Byte) /\ Len(p) = 2 /\ p[1] = Backslash /\ p[2] = 117
  BY SMT DEF Backslash, Byte
<1>3. /\ Here(0) = Backslash /\ Here(1) = 117 /\ Here(2) = 48 /\ Here(3) = 48
      /\ Here(4) = HexChar(x) /\ Here(5) = HexChar(y)
  <2>1. StandsAt(text, s, p \o q) /\ TypeOK
    BY InvFacts
  <2>2. 48 \in Byte /\ HexChar(x) \in Byte /\ HexChar(y) \in Byte
    BY <1>1, SMT DEF HexChar, Byte
  <2> HIDE DEF x, y, p
  <2>3. /\ q \in Seq(Byte) /\ Len(q) = 4 /\ q[1] = 48 /\ q[2] = 48
        /\ q[3] = HexChar(x) /\ q[4] = HexChar(y)
    BY <1>1, <2>2, SMT
  <2> HIDE DEF q
  <2>4. p \in Seq(Byte) /\ q \in Seq(Byte)
    BY <1>2, <2>3
  <2>5. /\ Len(p \o q) = Len(p) + Len(q)
        /\ \A i \in 1..Len(p) : (p \o q)[i] = p[i]
        /\ \A i \in 1..Len(q) : (p \o q)[Len(p) + i] = q[i]
    BY <2>4, Joined, JoinedHas
  <2> DEFINE w == p \o q
  <2>6. /\ Len(w) = 6 /\ 6 \in Nat /\ StandsAt(text, s, w)
        /\ \A i \in 1..Len(p) : w[i] = p[i]
        /\ \A i \in 1..Len(q) : w[Len(p) + i] = q[i]
    BY <1>2, <2>1, <2>3, <2>5, SMT
  <2> HIDE DEF w
  <2>7. \A k \in 0..(6 - 1) : Here(k) = w[k + 1]
    BY <2>1, <2>6, HereIs
  <2>8. /\ w[1] = Backslash /\ w[2] = 117 /\ w[3] = 48 /\ w[4] = 48
        /\ w[5] = HexChar(x) /\ w[6] = HexChar(y)
    BY <1>2, <2>3, <2>6, SMT
  <2>9. QED
    BY <2>7, <2>8, SMT
<1>4. /\ HexDigit(48) = 0 /\ HexDigit(HexChar(x)) = x /\ HexDigit(HexChar(y)) = y
      /\ x \in 0..15 /\ y \in 0..15 /\ x * 16 + y = b
  BY WritesHex
<1> HIDE DEF x, y, p, q
<1>5. 2 + 1 = 3 /\ 2 + 2 = 4 /\ 2 + 3 = 5
  BY SMT
<1>6. IsHex16(2)
  <2>1. 0 < 16 /\ x < 16 /\ y < 16
    BY <1>4, SMT
  <2>2. QED
    BY <1>3, <1>4, <1>5, <2>1 DEF IsHex16
<1>7. Hex16(2) = b
  <2>1. Hex16(2) = 0 * 4096 + 0 * 256 + x * 16 + y
    BY <1>3, <1>4, <1>5 DEF Hex16
  <2>2. QED
    BY <1>4, <2>1, SMT
<1>8. ~Surrogate(b) /\ b # 0
  BY SMT DEF Surrogate
<1>9. Backslash # Quote /\ 117 \notin DOMAIN Unescaped
  BY SMT DEF Backslash, Quote, Unescaped
<1>10. QED
  BY <1>3, <1>6, <1>7, <1>8, <1>9
     DEF AtSingle, AtUnit, AtQuote, AtLetter, AtPair, AtCharacter

(* And a character that was copied.                                        *)
LEMMA SeesCharacter ==
  ASSUME Inv, NEW u, IsScalar(u), NEW n \in Nat \ {0}, Len(WriteChar(u)) = n,
         StandsAt(text, s, WriteChar(u)), WriteChar(u)[1] \in Byte,
         WriteChar(u)[1] \notin Lettered, WriteChar(u)[1] > 31
  PROVE  /\ AtCharacter /\ ValidateCz(text, s) = n
         /\ SubSeq(text, s, s + n - 1) = WriteChar(u)
         /\ ~AtQuote /\ ~AtLetter /\ ~AtUnit
<1>1. text \in Seq(Byte) /\ s \in Nat /\ Len(text) \in Nat /\ s >= 1
  BY InvFacts
<1>2. ValidateCz(text, s) = n /\ ReadChar(text, s) = u
  BY <1>1, EncodedAt
<1>3. Here(0) = WriteChar(u)[1]
  <2>1. 0 \in 0..(n - 1) /\ 0 + 1 = 1 /\ n \in Nat
    BY SMT
  <2>2. \A k \in 0..(n - 1) : Here(k) = WriteChar(u)[k + 1]
    BY <2>1, HereIs, InvFacts
  <2>3. QED
    BY <2>1, <2>2
<1>4. Quote \in Lettered /\ Backslash \in Lettered
  BY SMT DEF Quote, Backslash, Lettered, Escaped
<1>5. s \in 1..Len(text)
  <2>1. s + n <= Len(text) + 1
    BY DEF StandsAt
  <2>2. QED
    BY <1>1, <2>1, SMT
<1>6. SubSeq(text, s, s + n - 1) = WriteChar(u)
  BY <1>1, <1>2, <1>5, CharacterIs
<1>7. QED
  BY <1>2, <1>3, <1>4, <1>6 DEF AtCharacter, AtQuote, AtLetter, AtUnit

(* A turn that has written the character of the piece at s.                *)
LEMMA TookPiece ==
  ASSUME Inv, keep, NEW M, Chain(str, text, M, <<Len(str) + 1, Len(text)>>),
         Len(out) + 1 \in 1..Len(str), ValidateCz(str, Len(out) + 1) # 0,
         \A k \in 1..Len(out) : out[k] = str[k],
         <<Len(out) + 1 + ValidateCz(str, Len(out) + 1),
           s + Len(Piece(str, Len(out) + 1))>> \in M,
         NEW m, m = Len(Piece(str, Len(out) + 1)),
         NEW w \in Seq(Byte), Len(w) = ValidateCz(str, Len(out) + 1),
         StandsAt(str, Len(out) + 1, w), Take(m, w)
  PROVE  Reread'
<1> DEFINE L == Len(out)
<1>1. /\ out \in Seq(Byte) /\ L \in Nat /\ str \in Seq(Byte) /\ Len(str) \in Nat
      /\ Len(w) \in Nat
  BY InvFacts
<1>2. /\ s' = s + m /\ out' = out \o w /\ text' = text /\ str' = str
  BY DEF Take, Written
<1>3. /\ Len(out') = L + Len(w)
      /\ \A k \in 1..L : out'[k] = out[k]
      /\ \A k \in 1..Len(w) : out'[L + k] = w[k]
  <2>1. /\ Len(out \o w) = L + Len(w)
        /\ \A k \in 1..L : (out \o w)[k] = out[k]
        /\ \A k \in 1..Len(w) : (out \o w)[L + k] = w[k]
    <3>1. out \in Seq(Byte) /\ w \in Seq(Byte)
      BY <1>1
    <3>2. Len(out \o w) = Len(out) + Len(w)
      BY <3>1, Joined
    <3>3. /\ \A k \in 1..Len(out) : (out \o w)[k] = out[k]
          /\ \A k \in 1..Len(w) : (out \o w)[Len(out) + k] = w[k]
      BY <3>1, JoinedHas
    <3>4. QED
      BY <3>2, <3>3
  <2>2. QED
    BY <1>2, <2>1, Zenon
<1>4. L + 1 + Len(w) <= Len(str) + 1 /\ \A k \in 1..Len(w) : str[L + 1 + k - 1] = w[k]
  BY DEF StandsAt
<1>5. Len(out') <= Len(str)
  BY <1>1, <1>3, <1>4, SMT
<1>6. ASSUME NEW k \in 1..Len(out') PROVE out'[k] = str[k]
  <2>1. CASE k \in 1..L
    BY <1>3, <2>1
  <2>2. CASE k \notin 1..L
    <3>1. k - L \in 1..Len(w) /\ L + (k - L) = k /\ L + 1 + (k - L) - 1 = k
      BY <1>1, <1>3, <2>2, SMT
    <3>2. out'[k] = w[k - L] /\ str[k] = w[k - L]
      BY <1>3, <1>4, <3>1
    <3>3. QED
      BY <3>2
  <2>3. QED
    BY <2>1, <2>2
<1>7. Len(out') + 1 = L + 1 + Len(w)
  BY <1>1, <1>3, SMT
<1>8. <<Len(out') + 1, s'>> \in M
  BY <1>2, <1>7
<1>9. Leads(str, text, <<Len(out') + 1, s'>>, <<Len(str) + 1, Len(text)>>)
  BY <1>8 DEF Leads
<1>10. QED
  BY <1>2, <1>5, <1>6, <1>9 DEF Reread

(* What stands at s decides what the turn does.                            *)
Onward == IF op' = op THEN Reread' ELSE op' = "reparsed" /\ out' = str'

LEMMA Turns ==
  ASSUME InBody, ParseTurn
  PROVE  \/ ParseLetter /\ AtLetter
         \/ ParseSingle /\ AtSingle /\ AtUnit
         \/ ParsePair /\ AtPair /\ AtUnit
         \/ ParseCharacter /\ AtCharacter
         \/ CloseQuote /\ AtQuote
         \/ ~AtQuote /\ ~AtLetter /\ ~AtSingle /\ ~AtPair /\ ~AtCharacter
<1>1. s # 1
  BY SMT DEF InBody
<1>2. ~OpenQuote
  BY <1>1, Zenon DEF OpenQuote
<1>3. Fail => ~AtQuote /\ ~AtLetter /\ ~AtSingle /\ ~AtPair /\ ~AtCharacter
  BY <1>1, Zenon DEF Fail
<1>4. /\ ParseLetter => AtLetter
      /\ ParseSingle => AtSingle
      /\ ParsePair => AtPair
      /\ ParseCharacter => AtCharacter
      /\ CloseQuote => AtQuote
  BY Zenon DEF ParseLetter, ParseSingle, ParsePair, ParseCharacter, CloseQuote
<1>5. AtSingle => AtUnit
  BY Zenon DEF AtSingle
<1>6. AtPair => AtUnit
  BY Zenon DEF AtPair
<1>7. QED
  BY <1>2, <1>3, <1>4, <1>5, <1>6, Zenon DEF ParseTurn

LEMMA LetterAgain ==
  ASSUME Inv, keep, InBody, ParseTurn, NEW b \in Lettered,
         StandsAt(text, s, <<Backslash, Escaped[b]>>)
  PROVE  Take(2, <<b>>)
<1>1. AtLetter /\ Unescaped[Here(1)] = b /\ ~AtQuote /\ ~AtUnit /\ ~AtCharacter
  BY SeesLetter
<1>2. ParseLetter
  BY <1>1, Turns, Zenon
<1>3. QED
  BY <1>1, <1>2 DEF ParseLetter

LEMMA UnitAgain ==
  ASSUME Inv, keep, InBody, ParseTurn, NEW b \in Nat, 0 < b, b < 31,
         StandsAt(text, s, <<Backslash, 117>> \o WriteHex16(b))
  PROVE  Take(6, <<b>>)
<1>1. /\ AtSingle /\ Hex16(2) = b
      /\ ~AtQuote /\ ~AtLetter /\ ~AtPair /\ ~AtCharacter
  BY SeesUnit
<1>2. ParseSingle
  BY <1>1, Turns, Zenon
<1>3. b \in Int /\ b <= 127 /\ b \in 0..127
  BY SMT
<1>4. WriteChar(b) = <<b>> /\ IsScalar(b)
  BY <1>3, WriteForms, ScalarRanges, Zenon
<1>5. QED
  BY <1>1, <1>2, <1>4 DEF ParseSingle, TakeCode

LEMMA CharacterAgain ==
  ASSUME Inv, keep, InBody, ParseTurn, NEW u, IsScalar(u),
         NEW n \in Nat \ {0}, Len(WriteChar(u)) = n,
         StandsAt(text, s, WriteChar(u)), WriteChar(u)[1] \in Byte,
         WriteChar(u)[1] \notin Lettered, WriteChar(u)[1] > 31
  PROVE  Take(n, WriteChar(u))
<1>1. /\ AtCharacter /\ ValidateCz(text, s) = n
      /\ SubSeq(text, s, s + n - 1) = WriteChar(u)
      /\ ~AtQuote /\ ~AtLetter /\ ~AtUnit
  BY SeesCharacter
<1>2. ParseCharacter
  BY <1>1, Turns, Zenon
<1>3. QED
  BY <1>1, <1>2 DEF ParseCharacter

LEMMA QuoteAgain ==
  ASSUME Inv, Codec', keep, op = "again", InBody, ParseTurn, text[s] = Quote, s \in 1..Len(text)
  PROVE  op' = "reparsed" /\ out' = out /\ str' = str
<1>1. s + 0 = s /\ s # Len(text) + 1
  BY InvFacts, SMT
<1>2. AtQuote /\ Here(0) = Quote
  BY <1>1 DEF AtQuote, Here, ByteAt
<1>3. Quote # Backslash
  BY DEF Quote, Backslash
<1>4. CloseQuote
  <2>1. ~AtLetter /\ ~AtUnit /\ ~AtCharacter
    BY <1>2, <1>3 DEF AtLetter, AtUnit, AtCharacter
  <2>2. QED
    BY <1>2, <2>1, Turns, Zenon
<1>5. op' # "aborted"
  BY DEF Codec
<1>6. QED
  BY <1>4, <1>5 DEF CloseQuote, Abort

(* parse_string goes along what emit_string wrote.                         *)
LEMMA RereadTurn ==
  ASSUME Inv, Codec', keep, op = "again", InBody, ParseTurn, Echoes(str, text),
         Printable(str), Reread
  PROVE  Onward
<1> DEFINE i == Len(out) + 1
           e == <<Len(str) + 1, Len(text)>>
<1>1. PICK M : Chain(str, text, M, e) /\ <<i, s>> \in M
  BY DEF Reread, Leads
<1>2. /\ text \in Seq(Byte) /\ Len(text) \in Nat /\ s \in Nat
      /\ str \in Seq(Byte) /\ Len(str) \in Nat /\ out \in Seq(Byte) /\ Len(out) \in Nat
      /\ Len(out) <= Len(str) /\ \A k \in 1..Len(out) : out[k] = str[k]
  BY InvFacts DEF Reread
<1>3. CASE <<i, s>> = e
  <2>1. i = Len(str) + 1 /\ s = Len(text)
    BY <1>3
  <2>2. Len(out) = Len(str) /\ s \in 1..Len(text) /\ text[s] = Quote
    BY <1>2, <2>1, SMT DEF Echoes
  <2>3. op' = "reparsed" /\ out' = out /\ str' = str
    BY <2>2, QuoteAgain
  <2>4. out = str
    BY <1>2, <2>2
  <2>5. QED
    BY <2>3, <2>4 DEF Onward
<1>4. CASE <<i, s>> # e
  <2> DEFINE n == ValidateCz(str, i)
             m == Len(Piece(str, i))
  <2>1. /\ i \in 1..Len(str) /\ n # 0 /\ StandsAt(text, s, Piece(str, i))
        /\ <<i + n, s + m>> \in M
    <3>1. <<i, s>>[1] = i /\ <<i, s>>[2] = s
      OBVIOUS
    <3>2. QED
      BY <1>1, <1>4, <3>1 DEF Chain
  <2>2. str[i] \in Byte /\ str[i] # 31 /\ n \in Nat \ {0}
    BY <1>2, <2>1, StepIs DEF Printable
  <2>3. StandsAt(str, i, WriteChar(ReadChar(str, i)))
        /\ Len(WriteChar(ReadChar(str, i))) = n /\ IsScalar(ReadChar(str, i))
    BY <1>2, <2>1, ValidAt
  <2>4. ASSUME str[i] <= 127 PROVE n = 1 /\ StandsAt(str, i, <<str[i]>>) /\ <<str[i]>> \in Seq(Byte)
                                   /\ Len(<<str[i]>>) = 1 /\ ReadChar(str, i) = str[i]
    <3>1. n = 1 /\ ReadChar(str, i) = str[i]
      BY <1>2, <2>1, <2>4, ByteLong
    <3>2. str[i] \in Int
      BY <2>2, ByteBounds
    <3>3. WriteChar(ReadChar(str, i)) = <<str[i]>>
      BY <2>4, <3>1, <3>2, WriteForms
    <3>4. QED
      BY <2>2, <2>3, <3>1, <3>3
  <2>5. CASE str[i] \in Lettered
    <3>1. str[i] <= 127
      BY <2>5, SMT DEF Lettered, Escaped
    <3>2. Piece(str, i) = <<Backslash, Escaped[str[i]]>>
      BY <2>5 DEF Piece
    <3>3. m = 2
      BY <3>2
    <3>4. Take(2, <<str[i]>>)
      BY <2>1, <2>5, <3>2, LetterAgain
    <3>5. Reread' /\ op' = op
      <4> HIDE DEF n, m
      <4>1. op' = op
        BY <3>4 DEF Take
      <4>2. Reread'
        BY <1>1, <1>2, <2>1, <2>4, <3>1, <3>3, <3>4, TookPiece DEF n, m
      <4>3. QED
        BY <4>1, <4>2
    <3>6. QED
      BY <3>5 DEF Onward
  <2>6. CASE str[i] \notin Lettered /\ str[i] < 31
    <3>1. str[i] \in Nat /\ 0 < str[i] /\ str[i] <= 127
      BY <2>2, <2>6, ByteBounds, SMT
    <3>2. Piece(str, i) = <<Backslash, 117>> \o WriteHex16(str[i])
      BY <2>4, <2>6, <3>1 DEF Piece
    <3>3. m = 6
      <4>1. Len(<<Backslash, 117>> \o WriteHex16(str[i])) = 6
        BY <2>6, <3>1, UnitLength
      <4>2. QED
        BY <3>2, <4>1, Zenon
    <3>4. Take(6, <<str[i]>>)
      BY <2>1, <2>6, <3>1, <3>2, UnitAgain
    <3>5. Reread' /\ op' = op
      <4> HIDE DEF n, m
      <4>1. op' = op
        BY <3>4 DEF Take
      <4>2. Reread'
        BY <1>1, <1>2, <2>1, <2>4, <3>1, <3>3, <3>4, TookPiece DEF n, m
      <4>3. QED
        BY <4>1, <4>2
    <3>6. QED
      BY <3>5 DEF Onward
  <2>7. CASE str[i] \notin Lettered /\ ~(str[i] < 31)
    <3> DEFINE u == ReadChar(str, i)
               w == WriteChar(u)
    <3>1. Piece(str, i) = w /\ m = n
      BY <1>2, <2>1, <2>7, PieceLength
    <3>2. w[1] = str[i] /\ str[i] > 31
      <4>1. 1 \in 1..n /\ i + 1 - 1 = i /\ str[i] > 31
        BY <1>2, <2>2, <2>7, ByteBounds, SMT
      <4>2. QED
        BY <2>3, <4>1 DEF StandsAt
    <3>3. w \in Seq(Byte)
      BY <1>2, <2>1, <3>1, PieceIs
    <3> HIDE DEF u
    <3>4. Take(n, w)
      BY <2>1, <2>2, <2>3, <2>7, <3>1, <3>2, CharacterAgain DEF u
    <3>5. Reread' /\ op' = op
      <4> HIDE DEF n, m, w
      <4>1. op' = op
        BY <3>4 DEF Take
      <4>2. Reread'
        BY <1>1, <1>2, <2>1, <2>3, <3>1, <3>3, <3>4, TookPiece DEF n, m, u, w
      <4>3. QED
        BY <4>1, <4>2
    <3>6. QED
      BY <3>5 DEF Onward
  <2>8. QED
    BY <2>5, <2>6, <2>7
<1>5. QED
  BY <1>3, <1>4

-----------------------------------------------------------------------------
(* Every step keeps what is written the mirror of what is read.            *)

LEMMA MirrorInBody ==
  ASSUME Inv, op = "again", s > 1, ParseTurn
  PROVE  InBody
<1>1. s # 1
  BY SMT
<1>2. QED
  BY <1>1, Zenon DEF ParseTurn, OpenQuote, ParseLetter, ParseSingle, ParsePair, ParseCharacter,
                     CloseQuote, Fail

LEMMA LeadsStill ==
  ASSUME NEW t \in Seq(Byte), NEW o \in Seq(Byte), NEW q \in Seq(Byte), NEW p, NEW e,
         Leads(t, o, p, e)
  PROVE  Leads(t, o \o q, p, e)
<1>1. PICK M : Chain(t, o, M, e) /\ p \in M
  BY DEF Leads
<1>2. Chain(t, o \o q, M, e)
  <2> SUFFICES ASSUME NEW r \in M, r # e
               PROVE  /\ r[1] \in 1..Len(t) /\ ValidateCz(t, r[1]) # 0
                      /\ r[2] \in Nat \ {0} /\ StandsAt(o \o q, r[2], Piece(t, r[1]))
                      /\ <<r[1] + ValidateCz(t, r[1]), r[2] + Len(Piece(t, r[1]))>> \in M
    BY DEF Chain
  <2>1. /\ r[1] \in 1..Len(t) /\ ValidateCz(t, r[1]) # 0
        /\ r[2] \in Nat \ {0} /\ StandsAt(o, r[2], Piece(t, r[1]))
        /\ <<r[1] + ValidateCz(t, r[1]), r[2] + Len(Piece(t, r[1]))>> \in M
    BY <1>1 DEF Chain
  <2>2. Len(Piece(t, r[1])) \in Nat
    BY <2>1, PieceIs
  <2>3. StandsAt(o \o q, r[2], Piece(t, r[1]))
    BY <2>1, <2>2, StandsStill
  <2>4. QED
    BY <2>1, <2>3
<1>3. QED
  BY <1>1, <1>2 DEF Leads

LEMMA MirrorParse ==
  ASSUME Inv, Codec', Mirror, ParseTurn
  PROVE  Mirror'
<1>1. /\ op \in {"parse", "again"} /\ text' = text /\ keep' = keep
      /\ op' = op \/ op' \in {"parsed", "reparsed", "refused", "rejected", "aborted"}
      /\ op = "parse" => op' \notin {"again", "reparsed", "rejected"}
      /\ op = "again" => str' = str
  BY DEF ParseTurn, OpenQuote, ParseLetter, ParseSingle, ParsePair, ParseCharacter, CloseQuote,
         Fail, TakeCode, Take, Abort, InBody, Parsing
<1>2. CASE op = "parse"
  BY <1>1, <1>2 DEF Mirror, RoundTrip
<1>3. CASE op = "again" /\ ~Printable(str)
  BY <1>1, <1>3 DEF Mirror, RoundTrip
<1>4. CASE op = "again" /\ Printable(str) /\ s = 1
  <2>1. Echoes(str, text) /\ text \in Seq(Byte)
    BY <1>4, InvFacts DEF Mirror
  <2>2. s + 0 = 1 /\ s + 0 # Len(text) + 1
    BY <1>4, <2>1, SMT DEF Echoes
  <2>3. AtQuote
    BY <2>1, <2>2 DEF AtQuote, Here, ByteAt, Echoes
  <2>4. ~(1 > 1)
    BY SMT
  <2>5. OpenQuote
    BY <1>4, <2>3, <2>4, Zenon
       DEF ParseTurn, ParseLetter, ParseSingle, ParsePair, ParseCharacter, CloseQuote, Fail, InBody
  <2>6. op' = op /\ s' = 2 /\ out' = <<>> /\ str' = str
    BY <2>5 DEF OpenQuote
  <2>7. Len(out') = 0 /\ Len(out') + 1 = 1 /\ Len(str) \in Nat
    BY <2>6, InvFacts, SMT
  <2>8. Reread'
    BY <1>1, <2>1, <2>6, <2>7 DEF Reread, Echoes
  <2>9. QED
    BY <1>1, <1>4, <2>1, <2>6, <2>8 DEF Mirror, RoundTrip
<1>5. CASE op = "again" /\ Printable(str) /\ s # 1
  <2>1. s > 1 /\ keep
    BY <1>5, InvFacts, SMT DEF Inv
  <2>2. Echoes(str, text) /\ Reread
    BY <1>5, <2>1 DEF Mirror
  <2>3. InBody
    BY <1>5, <2>1, <2>2, MirrorInBody
  <2>4. Onward
    BY <1>5, <2>1, <2>2, <2>3, RereadTurn
  <2>5. op' # "rejected" /\ (op' = "again" => Reread') /\ (op' = "reparsed" => out' = str')
    BY <1>5, <2>4 DEF Onward
  <2>6. QED
    BY <1>1, <1>5, <2>2, <2>5 DEF Mirror, RoundTrip
<1>6. QED
  BY <1>1, <1>2, <1>3, <1>4, <1>5

LEMMA MirrorEmit ==
  ASSUME Inv, Codec, Codec', Mirror, EmitTurn
  PROVE  Mirror'
<1>1. CASE EmitOpen
  <2>1. /\ op' = "emit" /\ text' = str /\ s' = 1 /\ out' = <<Quote>> /\ str' = str
    <3>1. op' # "aborted"
      BY DEF Codec
    <3>2. QED
      BY <1>1, <3>1 DEF EmitOpen, Abort
  <2>2. Len(out') = 1 /\ out'[1] = Quote /\ Len(out') + 1 = 2
    BY <2>1, SMT
  <2>3. Chain(str, out', {<<1, 2>>}, <<1, 2>>)
    BY DEF Chain
  <2>4. Leads(str, out', <<1, 2>>, <<1, 2>>)
    BY <2>3 DEF Leads
  <2>5. 1 >= 1
    BY SMT
  <2>6. QED
    BY <2>1, <2>2, <2>4, <2>5 DEF Mirror, RoundTrip
<1>2. CASE EmitLetter \/ EmitUnit \/ EmitCharacter
  <2> DEFINE n == ValidateCz(text, s)
             w == Piece(text, s)
  <2>1. op = "emit" /\ s <= Len(text) /\ text = str
    BY <1>2 DEF EmitLetter, EmitUnit, EmitCharacter, Emitting, Mirror
  <2>2. /\ text \in Seq(Byte) /\ s \in 1..Len(text) /\ out \in Seq(Byte) /\ keep
        /\ Len(out) \in Nat
    BY <2>1, InvFacts, SMT DEF Inv
  <2>3. n # 0
    BY <2>1, <2>2, ValidGoesOn DEF Codec
  <2>4. Take(n, w)
    <3>1. CASE EmitLetter
      <4>1. /\ text[s] \in Lettered /\ Take(1, <<Backslash, Escaped[text[s]]>>)
        BY <3>1 DEF EmitLetter
      <4>2. text[s] <= 127
        BY <4>1, SMT DEF Lettered, Escaped
      <4>3. n = 1 /\ w = <<Backslash, Escaped[text[s]]>>
        BY <2>2, <4>1, <4>2, ByteLong DEF Piece
      <4>4. QED
        BY <4>1, <4>3
    <3>2. CASE EmitUnit
      <4>1. /\ text[s] \notin Lettered /\ text[s] < 31
            /\ Take(1, <<Backslash, 117>> \o WriteHex16(ReadChar(text, s)))
        BY <3>2 DEF EmitUnit
      <4>2. text[s] <= 127
        <5>1. text[s] \in Byte
          BY <2>2
        <5>2. text[s] \in Int
          BY <5>1, ByteBounds
        <5>3. QED
          BY <4>1, <5>2, SMT
      <4>3. n = 1 /\ w = <<Backslash, 117>> \o WriteHex16(ReadChar(text, s))
        BY <2>2, <4>1, <4>2, ByteLong DEF Piece
      <4>4. QED
        BY <4>1, <4>3
    <3>3. CASE EmitCharacter
      <4>1. /\ text[s] \notin Lettered /\ text[s] >= 31
            /\ Take(n, SubSeq(text, s, s + n - 1))
        BY <2>3, <3>3 DEF EmitCharacter
      <4>2. ~(text[s] < 31)
        <5>1. text[s] \in Byte
          BY <2>2
        <5>2. text[s] \in Int
          BY <5>1, ByteBounds
        <5>3. QED
          BY <4>1, <5>2, SMT
      <4>3. w = SubSeq(text, s, s + n - 1)
        BY <4>1, <4>2 DEF Piece
      <4>4. QED
        BY <4>1, <4>3
    <3>4. QED
      BY <1>2, <3>1, <3>2, <3>3
  <2>5. /\ s' = s + n /\ out' = out \o w /\ text' = text /\ str' = str /\ op' = op
    BY <2>2, <2>4 DEF Take, Written
  <2>6. Len(out) >= 1 /\ out[1] = Quote /\ Leads(text, out, <<1, 2>>, <<s, Len(out) + 1>>)
    BY <2>1 DEF Mirror
  <2>7. 2 \in Nat \ {0}
    BY SMT
  <2>8. Leads(text, out \o w, <<1, 2>>, <<s + n, Len(out \o w) + 1>>)
    BY <2>2, <2>3, <2>6, <2>7, LeadsMore
  <2>9. w \in Seq(Byte) /\ Len(w) \in Nat
    BY <2>2, <2>3, PieceIs
  <2> HIDE DEF w, n
  <2>10. Len(out \o w) >= 1 /\ (out \o w)[1] = out[1]
    BY <2>2, <2>6, <2>9, SMT
  <2>11. QED
    BY <2>1, <2>5, <2>6, <2>8, <2>10 DEF Mirror, RoundTrip
<1>3. CASE EmitClose
  <2>1. /\ op = "emit" /\ s = Len(text) + 1 /\ op' = "encoded" /\ out' = out \o <<Quote>>
        /\ text' = text /\ str' = str
    BY <1>3 DEF EmitClose
  <2>2. /\ text = str /\ Len(out) >= 1 /\ out[1] = Quote
        /\ Leads(str, out, <<1, 2>>, <<Len(str) + 1, Len(out) + 1>>)
    BY <2>1 DEF Mirror
  <2>3. /\ out \in Seq(Byte) /\ Len(out) \in Nat /\ <<Quote>> \in Seq(Byte)
        /\ str \in Seq(Byte) /\ Len(<<Quote>>) = 1
    BY InvFacts, SMT DEF Quote, Byte
  <2>4. /\ out' \in Seq(Byte) /\ Len(out') = Len(out) + 1 /\ Len(out') > 1
        /\ out'[1] = Quote /\ out'[Len(out')] = Quote
    BY <2>1, <2>2, <2>3, SMT
  <2>5. Leads(str, out', <<1, 2>>, <<Len(str) + 1, Len(out')>>)
    BY <2>1, <2>2, <2>3, <2>4, LeadsStill
  <2>6. QED
    BY <2>1, <2>4, <2>5 DEF Mirror, Echoes, RoundTrip
<1>4. QED
  BY <1>1, <1>2, <1>3 DEF EmitTurn

LEMMA MirrorStep == Inv /\ Codec /\ Mirror /\ [Next]_vars /\ Codec' => Mirror'
<1> SUFFICES ASSUME Inv, Codec, Mirror, [Next]_vars, Codec' PROVE Mirror'
  OBVIOUS
<1>1. CASE Grow
  BY <1>1 DEF Grow, Mirror, RoundTrip, Reread
<1>2. CASE Reparse
  <2>1. /\ op = "encoded" /\ op' = "again" /\ text' = out /\ s' = 1 /\ str' = str
    BY <1>2 DEF Reparse
  <2>2. ~(1 > 1)
    BY SMT
  <2>3. QED
    BY <2>1, <2>2 DEF Mirror, RoundTrip
<1>3. CASE UNCHANGED vars
  BY <1>3 DEF vars, Mirror, RoundTrip, Reread
<1>4. QED
  BY <1>1, <1>2, <1>3, MirrorParse, MirrorEmit DEF Next

(* What json_encode_string writes is read back as the string it was given, *)
(* whatever the string: unless U+001F is in it, which is written as it is  *)
(* and refused.                                                            *)
THEOREM ReadsItsOwn == Spec => [](Printable(str) => RoundTrip)
<1>1. Init => Codec /\ Mirror
  BY DEF Init, Codec, Parsing, Mirror, RoundTrip
<1>2. Mirror => (Printable(str) => RoundTrip)
  BY DEF Mirror
<1>3. QED
  BY Initially, EveryStep, CodecStep, MirrorStep, <1>1, <1>2, PTL DEF Spec
=============================================================================
