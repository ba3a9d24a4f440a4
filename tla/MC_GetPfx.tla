----------------------------- MODULE MC_GetPfx -----------------------------
(* TLC instance.  Sizes are scaled down so that every comparison with them *)
(* goes both ways: a one-byte secret fits hdr, a two-byte one makes it     *)
(* grow; a document outgrows buf; the longest body exceeds the cap.        *)
EXTENDS GetPfx

CONSTANTS a, b

MC_Bodies == {
  <<OpenToken, a, Close>>,            \* a token
  <<OpenToken, a, b, Close>>,         \* a longer one
  <<OpenToken, Close>>,               \* an empty token
  <<OpenValue, a, Close>>,            \* a secret
  <<OpenValue, a, b, Close>>,         \* a longer one
  <<OpenValue, Close>>,               \* an empty secret
  <<OpenValue, Number, Close>>,       \* the member is not a string
  <<OpenValue, b, Close, NUL, a>>,    \* a NUL behind the document
  <<OpenValue, a, NUL, Close>>,       \* a NUL inside it
  <<OpenValue, a, b, b, b, Close>>    \* over the cap
}
=============================================================================
