----------------------------- MODULE DynString ------------------------------
(***************************************************************************)
(* One dynstring_context and the calls a program makes on it, in any legal *)
(* order.  Spec allows every function of include/dynstring.h.  AppSpec     *)
(* allows what getpfxfile does: initialise, append strings, look at the    *)
(* text, detach or free; never a call on a buffer that failed to initialise*)
(* or was detached.  testdownload keeps to that as long as its malloc      *)
(* succeeds: it does not look at the result of dynstring_initialise.       *)
(* "The programs" below are these two, as far as they keep to AppSpec.     *)
(***************************************************************************)
EXTENDS DynBuf

CONSTANTS
  Chars,       \* payload bytes
  InitSizes,   \* sizes given to dynstring_initialise (4096, 8192)
  Inputs,      \* byte strings that are appended
  MaxText,     \* bound: no call that could make the text longer than this
  NoString     \* ret.str of a call that returns no C string

Bytes == Chars \cup {NUL}
Cell  == Bytes \cup {Junk}

ASSUME DynStringAssumption ==
  /\ InitSizes \subseteq Nat \ {0}
  /\ Junk \notin Chars
  /\ Inputs \subseteq Seq(Bytes)
  /\ MaxText \in Nat

VARIABLES
  phase,       \* "raw": struct not set up; "ready"; "detached"
  ctx,         \* the struct and the block it points to
  pending,     \* strings appendstringz has still to append
  ret          \* what the last call returned: its code, what its pointer is
               \* worth to a reader, and the C string it denotes

vars == <<phase, ctx, pending, ret>>

(* Strings passed to appendstringz are measured with strlen.               *)
CStrings == {s \in Inputs : \A i \in 1..Len(s) : s[i] # NUL}

Returns(rc) == ret' = [rc |-> rc, ptr |-> "none", str |-> NoString]

ReturnsPointer(c, p) ==
  ret' = [rc  |-> 0,
          ptr |-> IF Readable(c, p) THEN "readable" ELSE "unreadable",
          str |-> IF Readable(c, p) THEN CString(c) ELSE NoString]

Init ==
  /\ phase = "raw"
  /\ ctx = NoBuffer
  /\ pending = <<>>
  /\ ret = [rc |-> 0, ptr |-> "none", str |-> NoString]

-----------------------------------------------------------------------------

(* dynstring_initialise: when malloc fails, the struct stays unusable.     *)
DoInitialise(n) ==
  /\ phase = "raw"
  /\ \E o \in Initialise(n) :
       /\ ctx' = o.ctx
       /\ phase' = IF o.rc = 0 THEN "ready" ELSE "raw"
       /\ Returns(o.rc)
  /\ UNCHANGED pending

DoInitialiseZero ==
  /\ phase = "raw"
  /\ ctx' = NoBuffer
  /\ phase' = "ready"
  /\ Returns(0)
  /\ UNCHANGED pending

Idle == phase = "ready" /\ pending = <<>>

DoAppendChar(ch) ==
  /\ Idle
  /\ ctx.pos < MaxText
  /\ \E o \in AppendChar(ctx, ch) : ctx' = o.ctx /\ Returns(o.rc)
  /\ UNCHANGED <<phase, pending>>

DoAppendString(s) ==
  /\ Idle
  /\ ctx.pos + Len(s) <= MaxText
  /\ \E o \in AppendString(ctx, s) : ctx' = o.ctx /\ Returns(o.rc)
  /\ UNCHANGED <<phase, pending>>

(* dynstring_appendstringz(ctx, s, t, NULL): one string after the other    *)
(* until one fails; what was appended before stays.                        *)
BeginAppendStringz(list) ==
  /\ Idle
  /\ list # <<>>
  /\ pending' = list
  /\ UNCHANGED <<phase, ctx, ret>>

StepAppendStringz ==
  /\ pending # <<>>
  /\ \E o \in AppendString(ctx, Head(pending)) :
       /\ ctx' = o.ctx
       /\ pending' = IF o.rc = 0 THEN Tail(pending) ELSE <<>>
       /\ Returns(o.rc)
  /\ UNCHANGED phase

DoEmpty ==
  /\ Idle
  /\ ctx' = IF ctx.buf = NULL THEN [ctx EXCEPT !.pos = 0] ELSE Empty(ctx)
  /\ Returns(0)
  /\ UNCHANGED <<phase, pending>>

DoCompact ==
  /\ Idle
  /\ \E o \in Compact(ctx) : ctx' = o.ctx /\ Returns(o.rc)
  /\ UNCHANGED <<phase, pending>>

DoGetCString ==
  /\ Idle
  /\ \E o \in GetCString(ctx) :
       /\ ctx' = o.ctx
       /\ ReturnsPointer(o.ctx, o.ptr)
  /\ UNCHANGED <<phase, pending>>

DoDetachCString ==
  /\ Idle
  /\ \E o \in DetachCString(ctx) : ReturnsPointer(o.ctx, o.ptr)
  /\ ctx' = NoBuffer
  /\ phase' = "detached"
  /\ UNCHANGED pending

(* dynstring_free, also on a buffer that failed to initialise (buf NULL).  *)
(* The function that owns the struct then returns.                         *)
DoFree ==
  /\ pending = <<>>
  /\ ctx' = NoBuffer
  /\ phase' = "raw"
  /\ Returns(0)
  /\ UNCHANGED pending

-----------------------------------------------------------------------------

Lists == {<<s>> : s \in CStrings} \cup {<<s, t>> : s \in CStrings, t \in CStrings}

BeginAnyList ==
  \E list \in Lists :
     /\ ctx.pos + Len(list[1]) + Len(list[Len(list)]) <= MaxText
     /\ BeginAppendStringz(list)

Next ==
  \/ \E n \in InitSizes : DoInitialise(n)
  \/ DoInitialiseZero
  \/ \E ch \in Bytes : DoAppendChar(ch)
  \/ \E s \in Inputs : DoAppendString(s)
  \/ BeginAnyList
  \/ StepAppendStringz
  \/ DoEmpty
  \/ DoCompact
  \/ DoGetCString
  \/ DoDetachCString
  \/ DoFree

Spec == Init /\ [][Next]_vars

(* The calls getpfxfile makes, and testdownload with memory to initialise. *)
AppNext ==
  \/ \E n \in InitSizes : DoInitialise(n)
  \/ \E s \in Inputs : DoAppendString(s)
  \/ BeginAnyList
  \/ StepAppendStringz
  \/ DoGetCString
  \/ DoDetachCString
  \/ DoFree

AppSpec == Init /\ [][AppNext]_vars

-----------------------------------------------------------------------------

(* Every field has its type; the block has as many cells as "size" says    *)
(* and pos stays inside it or just behind its end.                         *)
TypeOK ==
  /\ phase \in {"raw", "ready", "detached"}
  /\ ctx.buf \in Blocks \cup {NULL}
  /\ ctx.size \in Nat
  /\ ctx.pos \in 0..ctx.size
  /\ ctx.mem \in [0..(ctx.size - 1) -> Cell]
  /\ pending \in Seq(CStrings)
  /\ ret.rc \in {0, -1}
  /\ ret.ptr \in {"none", "readable", "unreadable"}

(* A buffer in use by the programs always has room for the terminator, so  *)
(* neither getcstring nor detachcstring has to grow it: the growth rule of *)
(* appendstring (grow when len + pos >= size, by len) keeps pos < size.    *)
RoomForTerminator == ctx.buf # NULL => ctx.pos < ctx.size

(* A pointer a caller gets from getcstring or detachcstring is the address *)
(* of the live buffer, and what it points to is terminated.                *)
ReturnsReadable == ret.ptr # "unreadable"

(* No call loses or rewrites appended bytes: the text only grows at its    *)
(* end, or is dropped as a whole by empty, detach and free.                *)
TextKept ==
  [][ LET old == Text(ctx)
          new == Text(ctx')
      IN  new = <<>> \/ (Len(new) >= Len(old) /\ \A i \in 1..Len(old) : new[i] = old[i])
    ]_vars

(* The programs' calls on a dynstring are calls on a TextBuffer.           *)
Promise == INSTANCE TextBuffer WITH
             open <- ctx.buf # NULL,
             text <- Text(ctx),
             ret  <- [rc |-> ret.rc, str |-> ret.str]
KeepsPromise == Promise!Spec
=============================================================================
