----------------------------- MODULE TextBuffer -----------------------------
(***************************************************************************)
(* What a dynamic string promises its clients: it holds the text appended  *)
(* since it was opened, an append adds all of its bytes or none, and a C   *)
(* string taken from it is that text up to its first NUL.  No sizes, no    *)
(* addresses, no allocator.                                                *)
(***************************************************************************)
EXTENDS Sequences, Integers

CONSTANTS
  Inputs,     \* the byte strings clients append
  NUL,
  NoString    \* the call returned no string

VARIABLES
  open,       \* whether the buffer exists
  text,       \* the bytes appended to it
  ret         \* what the last call returned

tbvars == <<open, text, ret>>

(* The bytes of t before its first NUL, or all of them.                    *)
UpToNUL(t) == [i \in {k \in 1..Len(t) : \A j \in 1..k : t[j] # NUL} |-> t[i]]

Code(rc)  == [rc |-> rc, str |-> NoString]
String(s) == [rc |-> 0, str |-> s]

Init ==
  /\ open = FALSE
  /\ text = <<>>
  /\ ret = Code(0)

Open ==
  /\ ~open
  /\ open' = TRUE
  /\ text' = <<>>
  /\ ret' = Code(0)

OutOfMemory ==
  /\ ret' = Code(-1)
  /\ UNCHANGED <<open, text>>

Append1(s) ==
  /\ open
  /\ text' = text \o s
  /\ ret' = Code(0)
  /\ UNCHANGED open

Read ==
  /\ open
  /\ ret' = String(UpToNUL(text))
  /\ UNCHANGED <<open, text>>

Take ==
  /\ open
  /\ ret' = String(UpToNUL(text))
  /\ open' = FALSE
  /\ text' = <<>>

Close ==
  /\ open' = FALSE
  /\ text' = <<>>
  /\ ret' = Code(0)

Next ==
  \/ Open
  \/ OutOfMemory
  \/ \E s \in Inputs : Append1(s)
  \/ Read
  \/ Take
  \/ Close

Spec == Init /\ [][Next]_tbvars
=============================================================================
