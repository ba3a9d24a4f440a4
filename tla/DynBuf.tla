------------------------------- MODULE DynBuf -------------------------------
(***************************************************************************)
(* The operations of include/dynstring.h as operators on the value of one  *)
(* struct dynstring_context.  An operation that may call malloc or realloc *)
(* returns the set of its outcomes, one per answer of the allocator; the   *)
(* state machines that own a context choose one of them.                   *)
(*                                                                         *)
(* A context is a record [buf, size, pos, mem].  "mem" is the block that   *)
(* "buf" points to, one cell per byte, indexed from 0 as in the code.      *)
(* Bytes that were allocated and never written hold Junk: reading one may  *)
(* give any value, so the one comparison the code makes with such a byte   *)
(* (GetCString) goes either way.                                           *)
(***************************************************************************)
EXTENDS Integers, Sequences

CONSTANTS
  Blocks,        \* addresses the allocator can return
  NULL,          \* the null pointer
  NUL,           \* the string terminator '\0'
  Junk,          \* a byte that was never written
  Chunk,         \* what AppendChar grows the buffer by (64 in the code)
  SIZE_MAX,      \* the largest size_t
  AllocMayFail   \* whether malloc and realloc may return NULL

ASSUME DynBufAssumption ==
  /\ NULL \notin Blocks
  /\ NUL # Junk
  /\ Chunk \in Nat \ {0}
  /\ SIZE_MAX \in Nat
  /\ AllocMayFail \in BOOLEAN

-----------------------------------------------------------------------------

Ok(c)     == [ctx |-> c, rc |-> 0]
Failed(c) == [ctx |-> c, rc |-> -1]

Context(b, n, p, m) == [buf |-> b, size |-> n, pos |-> p, mem |-> m]

(* initialisezero, and the state dynstring_free leaves: no buffer.         *)
NoBuffer == Context(NULL, 0, 0, [i \in 0..(-1) |-> Junk])

IfAllocFails(c) == IF AllocMayFail THEN {Failed(c)} ELSE {}

(* Slip: a fresh malloc, without the copy.                                 *)
Resized_NoCopy(c, n, b) == Context(b, n, c.pos, [i \in 0..(n - 1) |-> Junk])

(* The context once realloc moved the buffer to address b, of n bytes.     *)
Resized(c, n, b) ==
  Context(b, n, c.pos,
          [i \in 0..(n - 1) |-> IF i < c.size THEN c.mem[i] ELSE Junk])

(* realloc: in place or elsewhere, or NULL, which leaves the old block.    *)
Realloc(c, n) == {Ok(Resized(c, n, b)) : b \in Blocks} \cup IfAllocFails(c)

Initialise(n) ==
  {Ok(Context(b, n, 0, [i \in 0..(n - 1) |-> Junk])) : b \in Blocks}
    \cup IfAllocFails(NoBuffer)

(* Write the bytes s at pos and advance pos.                               *)
Write(c, s) ==
  Context(c.buf, c.size, c.pos + Len(s),
          [i \in 0..(c.size - 1) |->
              IF i \in c.pos..(c.pos + Len(s) - 1)
              THEN s[i - c.pos + 1] ELSE c.mem[i]])

(* The shape AppendChar and AppendString share: grow to n bytes unless the *)
(* bytes fit; when the allocator fails, return -1 with nothing changed.    *)
GrowAndWrite(c, fits, n, s) ==
  LET grown == IF fits THEN {Ok(c)} ELSE Realloc(c, n)
  IN  {IF g.rc = 0 THEN Ok(Write(g.ctx, s)) ELSE g : g \in grown}

AppendChar(c, ch) == GrowAndWrite(c, c.pos < c.size, c.size + Chunk, <<ch>>)

(* Slip: ">" for ">=": a string that just fits leaves no cell free.        *)
AppendString_FitsExactly(c, s) ==
  IF s = <<>> THEN {Ok(c)}
  ELSE GrowAndWrite(c, Len(s) + c.pos <= c.size, c.size + Len(s), s)

AppendString(c, s) ==
  IF s = <<>> THEN {Ok(c)}
  ELSE GrowAndWrite(c, Len(s) + c.pos < c.size, c.size + Len(s), s)

(* dynstring_empty clears the first byte too, so the string reads empty.   *)
Empty(c) ==
  Context(c.buf, c.size, 0, [c.mem EXCEPT ![0] = NUL])

(* dynstring_compact: one byte more than pos, which is not written.        *)
Compact(c) == Realloc(c, c.pos + 1)

-----------------------------------------------------------------------------
(* Functions that return a pointer: the outcome adds "ptr".                *)

Pointing(o, p) == [ctx |-> o.ctx, rc |-> o.rc, ptr |-> p]

(* pos-- on a size_t.                                                      *)
StepBack(c) ==
  Context(c.buf, c.size, IF c.pos = 0 THEN SIZE_MAX ELSE c.pos - 1, c.mem)

(* Slip: pos stays behind the terminator that was appended.                *)
GetCString_KeepsPos(c) == {Pointing(a, c.buf) : a \in AppendChar(c, NUL)}

(* dynstring_getcstring.  The pointer it returns is read from the context  *)
(* BEFORE AppendChar, which may move the buffer; the result of AppendChar  *)
(* is not looked at before pos is stepped back.                            *)
GetCString(c) ==
  LET inside   == c.pos < c.size
      \* the byte at pos reads as NUL
      found    == IF inside /\ c.mem[c.pos] \in {NUL, Junk}
                  THEN {Ok(Context(c.buf, c.size, c.pos, [c.mem EXCEPT ![c.pos] = NUL]))}
                  ELSE {}
      \* it does not, or is outside the buffer
      appended == IF inside /\ c.mem[c.pos] = NUL
                  THEN {} ELSE AppendChar(c, NUL)
  IN  {Pointing(o, c.buf) :
         o \in found \cup {[ctx |-> StepBack(a.ctx), rc |-> a.rc] : a \in appended}}

(* Slip: the buffer is handed over without a terminator.                   *)
DetachCString_Unterminated(c) == {Pointing(o, o.ctx.buf) : o \in Compact(c)}

(* dynstring_detachcstring: terminate, compact (both results ignored) and  *)
(* hand the buffer over.  The outcome keeps the context the caller's       *)
(* pointer was taken from; the context itself is then NoBuffer.            *)
DetachCString(c) ==
  {Pointing(o, o.ctx.buf) :
     o \in UNION {Compact(a.ctx) : a \in AppendChar(c, NUL)}}

-----------------------------------------------------------------------------
(* What a reader of a returned pointer sees.                               *)

(* The bytes of the block before its first NUL, as strlen and strcpy find  *)
(* them (an unwritten byte ends the string here).                          *)
CString(c) == [i \in {k \in 1..c.size :
                        \A j \in 0..(k - 1) : c.mem[j] \notin {NUL, Junk}}
                 |-> c.mem[i - 1]]

(* Initialised bytes, then a terminator, inside the block.                 *)
Terminated(c) == \E n \in 0..(c.size - 1) :
                   /\ c.mem[n] = NUL
                   /\ \A i \in 0..(n - 1) : c.mem[i] # Junk

(* The pointer p, taken from context c, denotes a C string: it is the      *)
(* address of the live buffer and the buffer holds a terminated string.    *)
Readable(c, p) == p # NULL /\ p = c.buf /\ Terminated(c)

(* The bytes a client appended so far.                                     *)
Text(c) == [i \in 1..c.pos |-> c.mem[i - 1]]
=============================================================================
