----------------------------- MODULE MC_Codecs ------------------------------
(***************************************************************************)
(* TLC instance of the two codecs on bytes, which share nothing: a         *)
(* behaviour is one scan of utf8_validate or one call of base64_encode; a  *)
(* text from elsewhere stands by itself.                                   *)
(***************************************************************************)
EXTENDS Utf8Scan, Base64

(* Every string of up to four bytes whose bytes are at a boundary of one   *)
(* of the tests, the first byte of each range and its neighbours included. *)
Leads   == {65, 127, 128, 193, 194, 223, 224, 225, 236, 237, 238, 239, 240, 241, 243, 244, 245, 255}
Seconds == {65, 127, 128, 143, 144, 159, 160, 191, 192}
Others  == {65, 127, 128, 191, 192}

MC_Texts ==
  {<<>>} \cup {<<a>> : a \in Leads} \cup {<<a, b>> : a \in Leads, b \in Seconds}
    \cup {<<a, b, c>> : a \in Leads, b \in Seconds, c \in Others}
    \cup {<<a, b, c, d>> : a \in Leads, b \in Seconds, c \in Others, d \in Others}

MC_CodePoints ==
  {1, 65, 127, 128, 2047, 2048, 4095, 4096, 55295, 57344, 65535, 65536, 262143,
   262144, 1048576, 1114111}

(* Short data, and long data around a full line, two of them, and the      *)
(* lengths at which 4 * length wraps round.                                *)
Long(n) == [i \in 1..n |-> (i * 37 + i \div 7) % 256]

MC_Data ==
  UNION {[1..n -> {0, 77, 255}] : n \in 0..3}
    \cup {Long(n) : n \in {4, 5, 52, 53, 54, 55, 107, 108, 109, 127, 128, 129, 255, 256, 300, 400}}

(* Every text of up to four characters, and up to eight of fewer kinds.    *)
MC_Foreign ==
  UNION {[1..n -> {0, 21, 63, Pad, LF, Minus, Other, High}] : n \in 0..4}
    \cup UNION {[1..n -> {21, 63, Pad}] : n \in 5..8}

(* The part that does nothing.                                             *)
ScanIdle  == string = <<>> /\ pos = 1 /\ verdict = "none"
CodecIdle == stage = "foreign" /\ out = <<>>

CodecsInit == \/ ScanInit /\ CodecInit /\ CodecIdle
              \/ ScanIdle /\ CodecInit

CodecsNext == \/ CodecIdle /\ ScanNext /\ UNCHANGED codecVars
              \/ CodecNext /\ UNCHANGED scanVars

CodecsSpec == CodecsInit /\ [][CodecsNext]_<<scanVars, codecVars>>
=============================================================================
