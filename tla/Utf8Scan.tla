------------------------------ MODULE Utf8Scan ------------------------------
(***************************************************************************)
(* utf8_validate of src/json.c: one character of a string after the other, *)
(* until the terminator or something that is no UTF-8.                     *)
(***************************************************************************)
EXTENDS Utf8

CONSTANTS
  Texts,        \* the strings it is called with: bytes other than NUL
  CodePoints    \* the characters the properties speak of

ASSUME TextsAssumption      == Texts \subseteq Seq(1..255)
ASSUME CodePointsAssumption == \A u \in CodePoints : IsScalar(u)

VARIABLES string, pos, verdict
scanVars == <<string, pos, verdict>>

ScanInit == string \in Texts /\ pos = 1 /\ verdict = "none"

AtEnd == ByteAt(string, pos) = 0

(* Slip: the lead byte alone decides how far to go.                        *)
Advance_TrustsLead ==
  /\ verdict = "none" /\ ~AtEnd
  /\ pos' = pos + (IF string[pos] <= 127 THEN 1 ELSE IF string[pos] <= 223 THEN 2
                   ELSE IF string[pos] <= 239 THEN 3 ELSE 4)
  /\ UNCHANGED <<string, verdict>>

(* One turn of the loop.                                                   *)
Advance ==
  /\ verdict = "none" /\ ~AtEnd /\ ValidateCz(string, pos) # 0
  /\ pos' = pos + ValidateCz(string, pos)
  /\ UNCHANGED <<string, verdict>>

Refuse ==
  /\ verdict = "none" /\ ~AtEnd /\ ValidateCz(string, pos) = 0
  /\ verdict' = "invalid"
  /\ UNCHANGED <<string, pos>>

Accept ==
  /\ verdict = "none" /\ AtEnd
  /\ verdict' = "valid"
  /\ UNCHANGED <<string, pos>>

ScanNext == Advance \/ Refuse \/ Accept
ScanSpec == ScanInit /\ [][ScanNext]_scanVars

-----------------------------------------------------------------------------

ScanTypeOK ==
  /\ string \in Seq(1..255)
  /\ pos \in 1..(Len(string) + 1)
  /\ verdict \in {"none", "valid", "invalid"}

(* The bytes w stand in the text at s.                                     *)
StandsHere(w) ==
  pos + Len(w) <= Len(string) + 1 /\ \A k \in 1..Len(w) : string[pos + k - 1] = w[k]

(* What a turn of the loop steps over is the encoding of a code point, the *)
(* one utf8_read_char reads there: no overlong form, no surrogate, nothing *)
(* beyond U+10FFFF, and nothing behind the terminator.                     *)
ValidIsEncoded ==
  LET n == ValidateCz(string, pos) IN
  ~AtEnd /\ n # 0 =>
    /\ pos + n <= Len(string) + 1
    /\ IsScalar(ReadChar(string, pos))
    /\ Len(WriteChar(ReadChar(string, pos))) = n
    /\ StandsHere(WriteChar(ReadChar(string, pos)))

(* Where a code point is encoded, utf8_validate_cz finds it, whole, and    *)
(* utf8_read_char reads it back: what utf8_write_char wrote is never       *)
(* refused.                                                                *)
EncodedIsValid ==
  \A u \in CodePoints :
    StandsHere(WriteChar(u)) =>
      ValidateCz(string, pos) = Len(WriteChar(u)) /\ ReadChar(string, pos) = u
=============================================================================
