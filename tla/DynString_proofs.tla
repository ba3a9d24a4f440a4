-------------------------- MODULE DynString_proofs --------------------------
(***************************************************************************)
(* What the programs' use of a dynstring (AppSpec) guarantees, for every   *)
(* allocator, initial size, input and length of text.  The argument rests  *)
(* on one fact the three properties do not state: below pos there are only *)
(* bytes that were written, and pos is a cell of the block.  That is what  *)
(* makes getcstring and detachcstring find or write a terminator in place. *)
(***************************************************************************)
EXTENDS DynString, TLAPS

(* A buffer in use: a cell is free for the terminator, and every byte      *)
(* below it was written.                                                   *)
Sound(c) ==
  /\ c.buf \in Blocks
  /\ c.size \in Nat
  /\ c.pos \in Nat
  /\ c.pos < c.size
  /\ c.mem \in [0..(c.size - 1) -> Cell]
  /\ \A i \in 0..(c.pos - 1) : c.mem[i] \in Bytes

(* The inductive invariant of AppSpec.                                     *)
IInv ==
  /\ phase \in {"raw", "ready", "detached"}
  /\ IF phase = "ready" THEN Sound(ctx) ELSE ctx = NoBuffer
  /\ pending \in Seq(CStrings)
  /\ pending # <<>> => phase = "ready"
  /\ ret.rc \in {0, -1}
  /\ ret.ptr \in {"none", "readable"}

-----------------------------------------------------------------------------
(* Lemmas about the operators of DynBuf.                                   *)

(* Only bytes that were written are read: Junk is not a byte.              *)
LEMMA JunkIsNoByte == Junk \notin Bytes
BY DynBufAssumption, DynStringAssumption DEF Bytes

(* A sound buffer is at no null address.                                   *)
LEMMA SoundIsOpen ==
  ASSUME NEW c, Sound(c)
  PROVE  c.buf # NULL
BY DynBufAssumption DEF Sound

(* A sound buffer with a NUL at pos denotes a C string.                    *)
LEMMA NULAtPosReadable ==
  ASSUME NEW c, Sound(c), c.mem[c.pos] = NUL
  PROVE  Readable(c, c.buf)
<1>1. c.pos \in 0..(c.size - 1)
  BY DEF Sound
<1>2. \A i \in 0..(c.pos - 1) : c.mem[i] # Junk
  BY JunkIsNoByte DEF Sound
<1>3. Terminated(c)
  BY <1>1, <1>2 DEF Terminated
<1> QED BY <1>3, SoundIsOpen DEF Readable

(* What realloc moves: the cells of the old block that fit the new one.    *)
LEMMA ResizedFields ==
  ASSUME NEW c, NEW n, NEW b
  PROVE  /\ Resized(c, n, b).buf = b
         /\ Resized(c, n, b).size = n
         /\ Resized(c, n, b).pos = c.pos
         /\ Resized(c, n, b).mem =
              [i \in 0..(n - 1) |-> IF i < c.size THEN c.mem[i] ELSE Junk]
BY DEF Resized, Context

(* realloc to a larger size moves a sound buffer to a sound buffer.        *)
LEMMA ResizedSound ==
  ASSUME NEW c, Sound(c), NEW n \in Nat, c.pos < n, NEW b \in Blocks
  PROVE  /\ Sound(Resized(c, n, b))
         /\ Resized(c, n, b).size = n
         /\ Resized(c, n, b).pos = c.pos
<1> DEFINE d == Resized(c, n, b)
<1>1. /\ d.buf = b /\ d.size = n /\ d.pos = c.pos
      /\ d.mem = [i \in 0..(n - 1) |-> IF i < c.size THEN c.mem[i] ELSE Junk]
  BY ResizedFields
<1>2. \A i \in 0..(n - 1) : d.mem[i] \in Cell
  <2> TAKE i \in 0..(n - 1)
  <2>1. CASE i < c.size
    <3>1. i \in 0..(c.size - 1) /\ d.mem[i] = c.mem[i]
      BY <2>1, <1>1 DEF Sound
    <3> QED BY <3>1 DEF Sound
  <2>2. CASE ~(i < c.size)
    BY <2>2, <1>1 DEF Cell
  <2> QED BY <2>1, <2>2
<1>3. \A i \in 0..(d.pos - 1) : d.mem[i] \in Bytes
  BY <1>1 DEF Sound
<1>4. d.mem \in [0..(d.size - 1) -> Cell]
  <2> HIDE DEF d
  <2> QED BY <1>1, <1>2
<1>5. Sound(d)
  <2> HIDE DEF d
  <2> QED BY <1>1, <1>3, <1>4 DEF Sound
<1> QED BY <1>1, <1>5

(* Writing bytes that leave a cell free keeps a buffer sound.              *)
LEMMA WriteSound ==
  ASSUME NEW c, Sound(c), NEW s \in Seq(Bytes), c.pos + Len(s) < c.size
  PROVE  Sound(Write(c, s))
<1> DEFINE d == Write(c, s)
<1>0. Len(s) \in Nat /\ \A i \in 1..Len(s) : s[i] \in Bytes
  OBVIOUS
<1>1. /\ d.buf = c.buf /\ d.size = c.size /\ d.pos = c.pos + Len(s)
      /\ d.mem = [i \in 0..(c.size - 1) |->
                    IF i \in c.pos..(c.pos + Len(s) - 1)
                    THEN s[i - c.pos + 1] ELSE c.mem[i]]
  BY DEF Write, Context
<1>2. \A i \in c.pos..(c.pos + Len(s) - 1) : s[i - c.pos + 1] \in Bytes
  <2> TAKE i \in c.pos..(c.pos + Len(s) - 1)
  <2>1. i - c.pos + 1 \in 1..Len(s)
    BY <1>0 DEF Sound
  <2> QED BY <2>1, <1>0
<1>3. \A i \in 0..(c.size - 1) : d.mem[i] \in Cell
  BY <1>1, <1>2 DEF Sound, Cell
<1>4. \A i \in 0..(d.pos - 1) : d.mem[i] \in Bytes
  <2> TAKE i \in 0..(d.pos - 1)
  <2>1. i \in 0..(c.size - 1)
    BY <1>0, <1>1 DEF Sound
  <2>2. CASE i < c.pos
    BY <2>1, <2>2, <1>1 DEF Sound
  <2>3. CASE i >= c.pos
    <3>1. i \in c.pos..(c.pos + Len(s) - 1)
      BY <2>3, <1>0, <1>1 DEF Sound
    <3> QED BY <3>1, <2>1, <1>1, <1>2
  <2> QED BY <2>2, <2>3 DEF Sound
<1>5. d.mem \in [0..(d.size - 1) -> Cell]
  <2> HIDE DEF d
  <2> QED BY <1>1, <1>3
<1>6. Sound(d)
  <2> HIDE DEF d
  <2> QED BY <1>0, <1>1, <1>4, <1>5 DEF Sound
<1> QED BY <1>6

(* appendstring: -1 and the same buffer, or 0 and a sound one.             *)
LEMMA AppendStringSound ==
  ASSUME NEW c, Sound(c), NEW s \in Seq(Bytes), NEW o \in AppendString(c, s)
  PROVE  /\ o.rc \in {0, -1}
         /\ Sound(o.ctx)
<1>0. Len(s) \in Nat
  OBVIOUS
<1>1. CASE s = <<>>
  BY <1>1 DEF AppendString, Ok
<1>2. CASE s # <<>> /\ Len(s) + c.pos < c.size
  <2>1. o = Ok(Write(c, s))
    BY <1>2 DEF AppendString, GrowAndWrite, Ok
  <2> QED BY <2>1, <1>0, <1>2, WriteSound DEF Ok, Sound
<1>3. CASE s # <<>> /\ ~(Len(s) + c.pos < c.size)
  <2>1. PICK g \in Realloc(c, c.size + Len(s)) :
          o = IF g.rc = 0 THEN Ok(Write(g.ctx, s)) ELSE g
    BY <1>3 DEF AppendString, GrowAndWrite
  <2>2. CASE g = Failed(c)
    BY <2>1, <2>2 DEF Failed
  <2>3. CASE \E b \in Blocks : g = Ok(Resized(c, c.size + Len(s), b))
    <3>1. PICK b \in Blocks : g = Ok(Resized(c, c.size + Len(s), b))
      BY <2>3
    <3>2. Len(s) > 0
      BY <1>3, <1>0
    <3>3. c.size + Len(s) \in Nat /\ c.pos < c.size + Len(s)
      BY <1>0 DEF Sound
    <3> DEFINE d == Resized(c, c.size + Len(s), b)
    <3>4. Sound(d) /\ d.size = c.size + Len(s) /\ d.pos = c.pos
      BY <3>3, ResizedSound
    <3>5. Sound(Write(d, s))
      <4>1. d.pos + Len(s) < d.size
        BY <3>4, <1>0 DEF Sound
      <4> HIDE DEF d
      <4> QED BY <4>1, <3>4, WriteSound
    <3> QED BY <2>1, <3>1, <3>5 DEF Ok
  <2> QED BY <2>2, <2>3 DEF Realloc, IfAllocFails
<1> QED BY <1>1, <1>2, <1>3

(* malloc gives no buffer or a sound one.                                  *)
LEMMA InitialiseSound ==
  ASSUME NEW n \in InitSizes, NEW o \in Initialise(n)
  PROVE  \/ o.rc = 0 /\ Sound(o.ctx) /\ o.ctx.pos = 0
         \/ o.rc = -1 /\ o.ctx = NoBuffer
<1>0. n \in Nat /\ n > 0
  BY DynStringAssumption
<1>1. CASE o = Failed(NoBuffer)
  BY <1>1 DEF Failed
<1>2. CASE \E b \in Blocks : o = Ok(Context(b, n, 0, [i \in 0..(n - 1) |-> Junk]))
  <2>1. PICK b \in Blocks : o = Ok(Context(b, n, 0, [i \in 0..(n - 1) |-> Junk]))
    BY <1>2
  <2>2. [i \in 0..(n - 1) |-> Junk] \in [0..(n - 1) -> Cell]
    BY DEF Cell
  <2>3. /\ o.rc = 0 /\ o.ctx.buf = b /\ o.ctx.size = n /\ o.ctx.pos = 0
        /\ o.ctx.mem = [i \in 0..(n - 1) |-> Junk]
    BY <2>1 DEF Ok, Context
  <2> QED BY <1>0, <2>2, <2>3 DEF Sound
<1> QED BY <1>1, <1>2 DEF Initialise, IfAllocFails

(* d holds what c holds below c.pos, and a terminator behind it.           *)
Delivers(c, d) ==
  /\ d.buf \in Blocks
  /\ d.size \in Nat
  /\ c.pos \in 0..(d.size - 1)
  /\ d.mem[c.pos] = NUL
  /\ \A i \in 0..(c.pos - 1) : d.mem[i] = c.mem[i]

(* Such a d denotes a C string.                                            *)
LEMMA DeliversReadable ==
  ASSUME NEW c, NEW d, Sound(c), Delivers(c, d)
  PROVE  Readable(d, d.buf)
<1>1. \A i \in 0..(c.pos - 1) : d.mem[i] # Junk
  BY JunkIsNoByte DEF Sound, Delivers
<1>2. Terminated(d)
  BY <1>1 DEF Terminated, Delivers
<1>3. d.buf # NULL
  BY DynBufAssumption DEF Delivers
<1> QED BY <1>2, <1>3 DEF Readable

(* With a cell free, the terminator is written in place.                   *)
LEMMA AppendNUL ==
  ASSUME NEW c, Sound(c), NEW a \in AppendChar(c, NUL)
  PROVE  /\ a.rc = 0
         /\ a.ctx.buf = c.buf
         /\ a.ctx.size = c.size
         /\ a.ctx.pos = c.pos + 1
         /\ a.ctx.mem = [i \in 0..(c.size - 1) |-> IF i = c.pos THEN NUL ELSE c.mem[i]]
<1>1. a = Ok(Write(c, <<NUL>>))
  BY DEF AppendChar, GrowAndWrite, Ok, Sound
<1>2. [i \in 0..(c.size - 1) |->
         IF i \in c.pos..(c.pos + Len(<<NUL>>) - 1)
         THEN <<NUL>>[i - c.pos + 1] ELSE c.mem[i]]
      = [i \in 0..(c.size - 1) |-> IF i = c.pos THEN NUL ELSE c.mem[i]]
  BY DEF Sound
<1> QED BY <1>1, <1>2 DEF Ok, Write, Context

(* getcstring leaves the text alone and returns a terminated one.          *)
LEMMA GetCStringSound ==
  ASSUME NEW c, Sound(c), NEW o \in GetCString(c)
  PROVE  /\ Sound(o.ctx)
         /\ o.ctx.pos = c.pos
         /\ Delivers(c, o.ctx)
         /\ o.ptr = o.ctx.buf
<1> DEFINE m == [i \in 0..(c.size - 1) |-> IF i = c.pos THEN NUL ELSE c.mem[i]]
<1>1. [c.mem EXCEPT ![c.pos] = NUL] = m
  BY DEF Sound
<1>2. o = Pointing(Ok(Context(c.buf, c.size, c.pos, m)), c.buf)
  <2>1. CASE o = Pointing(Ok(Context(c.buf, c.size, c.pos, [c.mem EXCEPT ![c.pos] = NUL])), c.buf)
    BY <2>1, <1>1
  <2>2. CASE \E a \in AppendChar(c, NUL) :
               o = Pointing([ctx |-> StepBack(a.ctx), rc |-> a.rc], c.buf)
    <3>1. PICK a \in AppendChar(c, NUL) :
                 o = Pointing([ctx |-> StepBack(a.ctx), rc |-> a.rc], c.buf)
      BY <2>2
    <3>2. /\ a.rc = 0 /\ a.ctx.buf = c.buf /\ a.ctx.size = c.size
          /\ a.ctx.pos = c.pos + 1 /\ a.ctx.mem = m
      BY AppendNUL
    <3>3. StepBack(a.ctx) = Context(c.buf, c.size, c.pos, m)
      <4>1. a.ctx.pos # 0 /\ a.ctx.pos - 1 = c.pos
        <5>1. c.pos \in Nat
          BY DEF Sound
        <5> QED BY <3>2, <5>1, SMTT(30)
      <4> QED BY <3>2, <4>1 DEF StepBack
    <3> QED BY <3>1, <3>2, <3>3 DEF Ok
  <2> QED BY <2>1, <2>2 DEF GetCString
<1>3. /\ o.ctx.buf = c.buf /\ o.ctx.size = c.size /\ o.ctx.pos = c.pos
      /\ o.ctx.mem = m /\ o.ptr = c.buf
  BY <1>2 DEF Pointing, Ok, Context
<1>4. /\ m \in [0..(c.size - 1) -> Cell]
      /\ m[c.pos] = NUL
      /\ \A i \in 0..(c.pos - 1) : m[i] = c.mem[i]
  BY DEF Sound, Cell, Bytes
<1> HIDE DEF m
<1>5. Sound(o.ctx)
  BY <1>3, <1>4 DEF Sound
<1> QED BY <1>3, <1>4, <1>5 DEF Sound, Delivers

(* detachcstring hands over a block that holds the terminated text.        *)
LEMMA DetachCStringSound ==
  ASSUME NEW c, Sound(c), NEW o \in DetachCString(c)
  PROVE  /\ Delivers(c, o.ctx)
         /\ o.ptr = o.ctx.buf
<1> DEFINE m == [i \in 0..(c.size - 1) |-> IF i = c.pos THEN NUL ELSE c.mem[i]]
<1>0. PICK a \in AppendChar(c, NUL) :
             \E r \in Compact(a.ctx) : o = Pointing(r, r.ctx.buf)
  BY DEF DetachCString
<1>1. PICK q \in Compact(a.ctx) : o = Pointing(q, q.ctx.buf)
  BY <1>0
<1>2. /\ a.ctx.buf = c.buf /\ a.ctx.size = c.size
      /\ a.ctx.pos = c.pos + 1 /\ a.ctx.mem = m
  BY AppendNUL
<1>3. m[c.pos] = NUL /\ \A i \in 0..(c.pos - 1) : m[i] = c.mem[i]
  BY DEF Sound
<1>4. CASE q = Failed(a.ctx)
  <2>1. o.ctx = a.ctx /\ o.ptr = o.ctx.buf
    BY <1>1, <1>4 DEF Pointing, Failed
  <2> HIDE DEF m
  <2> QED BY <1>2, <1>3, <2>1 DEF Delivers, Sound
<1>5. CASE \E b \in Blocks : q = Ok(Resized(a.ctx, a.ctx.pos + 1, b))
  <2>1. PICK b \in Blocks : q = Ok(Resized(a.ctx, a.ctx.pos + 1, b))
    BY <1>5
  <2> DEFINE n == c.pos + 2
  <2>2. /\ o.ctx.buf = b /\ o.ctx.size = n /\ o.ptr = o.ctx.buf
        /\ o.ctx.mem = [i \in 0..(n - 1) |-> IF i < c.size THEN m[i] ELSE Junk]
    <3>1. a.ctx.pos + 1 = n
      BY <1>2 DEF Sound
    <3> HIDE DEF m, n
    <3>2. o.ctx = Resized(a.ctx, n, b) /\ o.ptr = o.ctx.buf
      BY <1>1, <2>1, <3>1 DEF Pointing, Ok
    <3>3. o.ctx.mem = [i \in 0..(n - 1) |->
                         IF i < a.ctx.size THEN a.ctx.mem[i] ELSE Junk]
      BY <3>2, ResizedFields
    <3> QED BY <1>2, <3>2, <3>3, ResizedFields
  <2>3. o.ctx.mem[c.pos] = NUL /\ \A i \in 0..(c.pos - 1) : o.ctx.mem[i] = c.mem[i]
    <3> HIDE DEF m
    <3> QED BY <1>3, <2>2 DEF Sound
  <2> QED BY <2>2, <2>3 DEF Delivers, Sound
<1> QED BY <1>4, <1>5 DEF Compact, Realloc, IfAllocFails

-----------------------------------------------------------------------------
(* The invariant.                                                          *)

(* Before initialise there is no buffer.                                   *)
LEMMA InitIInv == Init => IInv
BY DEF Init, IInv, CStrings

(* The input lists are lists of NUL-free inputs.                           *)
LEMMA ListsOfCStrings ==
  ASSUME NEW list \in Lists
  PROVE  list \in Seq(CStrings) /\ list # <<>>
<1>1. CASE \E s \in CStrings : list = <<s>>
  <2>1. PICK s \in CStrings : list = <<s>>
    BY <1>1
  <2> QED BY <2>1
<1>2. CASE \E s \in CStrings, u \in CStrings : list = <<s, u>>
  <2>1. PICK s \in CStrings, u \in CStrings : list = <<s, u>>
    BY <1>2
  <2> QED BY <2>1
<1> QED BY <1>1, <1>2 DEF Lists

(* Every call of AppSpec preserves the invariant.                          *)
LEMMA StepIInv == IInv /\ [AppNext]_vars => IInv'
<1> SUFFICES ASSUME IInv, [AppNext]_vars PROVE IInv'
  OBVIOUS
<1>0. \A s \in Inputs : s \in Seq(Bytes)
  BY DynStringAssumption
<1>1. ASSUME NEW n \in InitSizes, DoInitialise(n) PROVE IInv'
  <2>1. PICK o \in Initialise(n) :
          /\ ctx' = o.ctx
          /\ phase' = IF o.rc = 0 THEN "ready" ELSE "raw"
          /\ Returns(o.rc)
    BY <1>1 DEF DoInitialise
  <2>2. pending' = pending /\ pending = <<>>
    BY <1>1 DEF DoInitialise, IInv
  <2>3. \/ o.rc = 0 /\ Sound(o.ctx)
        \/ o.rc = -1 /\ o.ctx = NoBuffer
    BY InitialiseSound
  <2> QED BY <2>1, <2>2, <2>3 DEF IInv, Returns
<1>2. ASSUME NEW s \in Inputs, DoAppendString(s) PROVE IInv'
  <2>1. Sound(ctx) /\ phase' = "ready" /\ pending' = pending
    BY <1>2 DEF DoAppendString, Idle, IInv
  <2>2. PICK o \in AppendString(ctx, s) : ctx' = o.ctx /\ Returns(o.rc)
    BY <1>2 DEF DoAppendString
  <2>3. o.rc \in {0, -1} /\ Sound(o.ctx)
    BY <1>0, <2>1, AppendStringSound
  <2> QED BY <2>1, <2>2, <2>3 DEF IInv, Returns
<1>3. ASSUME BeginAnyList PROVE IInv'
  <2>1. PICK list \in Lists : BeginAppendStringz(list)
    BY <1>3 DEF BeginAnyList
  <2> QED BY <2>1, ListsOfCStrings DEF BeginAppendStringz, Idle, IInv
<1>4. ASSUME StepAppendStringz PROVE IInv'
  <2>1. Sound(ctx) /\ phase' = "ready" /\ pending # <<>>
    BY <1>4 DEF StepAppendStringz, IInv
  <2>2. Head(pending) \in CStrings /\ Tail(pending) \in Seq(CStrings)
    BY <2>1 DEF IInv
  <2>3. PICK o \in AppendString(ctx, Head(pending)) :
          /\ ctx' = o.ctx
          /\ pending' = IF o.rc = 0 THEN Tail(pending) ELSE <<>>
          /\ Returns(o.rc)
    BY <1>4 DEF StepAppendStringz
  <2>4. o.rc \in {0, -1} /\ Sound(o.ctx)
    BY <1>0, <2>1, <2>2, AppendStringSound DEF CStrings
  <2> QED BY <2>1, <2>2, <2>3, <2>4 DEF IInv, Returns
<1>5. ASSUME DoGetCString PROVE IInv'
  <2>1. Sound(ctx) /\ phase' = "ready" /\ pending' = pending
    BY <1>5 DEF DoGetCString, Idle, IInv
  <2>2. PICK o \in GetCString(ctx) : ctx' = o.ctx /\ ReturnsPointer(o.ctx, o.ptr)
    BY <1>5 DEF DoGetCString
  <2>3. Sound(o.ctx) /\ Readable(o.ctx, o.ptr)
    BY <2>1, GetCStringSound, DeliversReadable
  <2> QED BY <2>1, <2>2, <2>3 DEF IInv, ReturnsPointer
<1>6. ASSUME DoDetachCString PROVE IInv'
  <2>1. Sound(ctx) /\ pending = <<>>
    BY <1>6 DEF DoDetachCString, Idle, IInv
  <2>2. PICK o \in DetachCString(ctx) : ReturnsPointer(o.ctx, o.ptr)
    BY <1>6 DEF DoDetachCString
  <2>3. Readable(o.ctx, o.ptr)
    BY <2>1, DetachCStringSound, DeliversReadable
  <2> QED BY <1>6, <2>1, <2>2, <2>3 DEF IInv, DoDetachCString, ReturnsPointer
<1>7. ASSUME DoFree PROVE IInv'
  BY <1>7 DEF DoFree, IInv, Returns
<1>8. CASE UNCHANGED vars
  BY <1>8 DEF IInv, vars
<1> QED BY <1>1, <1>2, <1>3, <1>4, <1>5, <1>6, <1>7, <1>8 DEF AppNext

(* The invariant holds in every state of AppSpec.                          *)
LEMMA AlwaysIInv == AppSpec => []IInv
BY InitIInv, StepIInv, PTL DEF AppSpec

-----------------------------------------------------------------------------

(* Type correctness of a dynstring as the programs use it: pos never       *)
(* leaves the block, whatever the allocator answers.                       *)
THEOREM TypeCorrect == AppSpec => []TypeOK
<1>1. ASSUME NEW c, c = NoBuffer
      PROVE  /\ c.buf \in Blocks \cup {NULL} /\ c.size \in Nat
             /\ c.pos \in 0..c.size /\ c.mem \in [0..(c.size - 1) -> Cell]
  <2>1. /\ c.buf = NULL /\ c.size = 0 /\ c.pos = 0
        /\ c.mem = [i \in 0..(-1) |-> Junk]
    BY <1>1 DEF NoBuffer, Context
  <2> QED BY <2>1
<1>2. ASSUME NEW c, Sound(c)
      PROVE  /\ c.buf \in Blocks \cup {NULL} /\ c.size \in Nat
             /\ c.pos \in 0..c.size /\ c.mem \in [0..(c.size - 1) -> Cell]
  BY <1>2 DEF Sound
<1>3. IInv => TypeOK
  BY <1>1, <1>2 DEF IInv, TypeOK
<1> QED BY <1>3, AlwaysIInv, PTL

(* getcstring and detachcstring never have to grow a buffer of the         *)
(* programs: appendstring leaves a cell free for the terminator.           *)
THEOREM AlwaysRoom == AppSpec => []RoomForTerminator
<1>1. IInv => RoomForTerminator
  BY DEF IInv, RoomForTerminator, Sound, NoBuffer, Context
<1> QED BY <1>1, AlwaysIInv, PTL

(* Every pointer the programs get from getcstring or detachcstring is the  *)
(* live buffer's and denotes a terminated string of written bytes.         *)
THEOREM PointersReadable == AppSpec => []ReturnsReadable
<1>1. IInv => ReturnsReadable
  BY DEF IInv, ReturnsReadable
<1> QED BY <1>1, AlwaysIInv, PTL

-----------------------------------------------------------------------------
(* Refinement: the programs' calls are calls on a TextBuffer.              *)

(* The text of a sound buffer is a sequence of pos bytes.                  *)
LEMMA TextIsSeq ==
  ASSUME NEW c, Sound(c)
  PROVE  /\ Text(c) \in Seq(Bytes)
         /\ Len(Text(c)) = c.pos
         /\ \A i \in 1..c.pos : Text(c)[i] = c.mem[i - 1]
<1>1. c.pos \in Nat /\ Text(c) = [i \in 1..c.pos |-> c.mem[i - 1]]
  BY DEF Sound, Text
<1>2. \A i \in 1..c.pos : c.mem[i - 1] \in Bytes
  BY DEF Sound
<1> QED BY <1>1, <1>2

(* Two buffers that agree below the same pos hold the same text.           *)
LEMMA SameText ==
  ASSUME NEW c, NEW d, Sound(c), d.pos = c.pos,
         \A i \in 0..(c.pos - 1) : d.mem[i] = c.mem[i]
  PROVE  Text(d) = Text(c)
<1>1. \A i \in 1..c.pos : d.mem[i - 1] = c.mem[i - 1]
  BY DEF Sound
<1> QED BY <1>1 DEF Text

(* Write puts s behind the text.                                           *)
LEMMA WriteText ==
  ASSUME NEW c, Sound(c), NEW s \in Seq(Bytes), c.pos + Len(s) < c.size
  PROVE  Text(Write(c, s)) = Text(c) \o s
<1> DEFINE d == Write(c, s)
<1>1. Len(s) \in Nat /\ c.pos \in Nat /\ c.size \in Nat
  BY DEF Sound
<1>2. /\ d.pos = c.pos + Len(s)
      /\ d.mem = [i \in 0..(c.size - 1) |->
                    IF i \in c.pos..(c.pos + Len(s) - 1)
                    THEN s[i - c.pos + 1] ELSE c.mem[i]]
  BY DEF Write, Context
<1>3. Sound(d)
  BY WriteSound
<1> HIDE DEF d
<1>4. /\ Text(c) \in Seq(Bytes) /\ Len(Text(c)) = c.pos
      /\ \A i \in 1..c.pos : Text(c)[i] = c.mem[i - 1]
  BY TextIsSeq
<1>5. /\ Text(d) \in Seq(Bytes) /\ Len(Text(d)) = c.pos + Len(s)
      /\ \A i \in 1..(c.pos + Len(s)) : Text(d)[i] = d.mem[i - 1]
  BY <1>2, <1>3, TextIsSeq
<1>6. ASSUME NEW i \in 1..(c.pos + Len(s))
      PROVE  Text(d)[i] = (Text(c) \o s)[i]
  <2>1. i - 1 \in 0..(c.size - 1)
    BY <1>1
  <2>2. CASE i <= c.pos
    <3>1. d.mem[i - 1] = c.mem[i - 1]
      BY <2>1, <2>2, <1>1, <1>2
    <3>2. (Text(c) \o s)[i] = Text(c)[i]
      BY <2>2, <1>1, <1>4
    <3> QED BY <3>1, <3>2, <2>2, <1>1, <1>4, <1>5
  <2>3. CASE i > c.pos
    <3>1. d.mem[i - 1] = s[i - c.pos]
      <4>1. i - 1 \in c.pos..(c.pos + Len(s) - 1) /\ i - 1 - c.pos + 1 = i - c.pos
        BY <2>3, <1>1
      <4> QED BY <4>1, <2>1, <1>2
    <3>2. (Text(c) \o s)[i] = s[i - c.pos]
      BY <2>3, <1>1, <1>4
    <3> QED BY <3>1, <3>2, <1>5
  <2>4. i <= c.pos \/ i > c.pos
    BY <1>1
  <2> QED BY <2>2, <2>3, <2>4, Zenon
<1>7. Text(c) \o s \in Seq(Bytes) /\ Len(Text(c) \o s) = c.pos + Len(s)
  <2> DEFINE t == Text(c)
  <2>1. t \in Seq(Bytes) /\ Len(t) = c.pos
    BY <1>4
  <2> HIDE DEF t
  <2>2. t \o s \in Seq(Bytes) /\ Len(t \o s) = c.pos + Len(s)
    BY <2>1
  <2> QED BY <2>2 DEF t
<1>8. Text(d) = Text(c) \o s
  <2> DEFINE t == Text(d)
  <2> DEFINE u == Text(c) \o s
  <2>1. /\ t \in Seq(Bytes) /\ u \in Seq(Bytes) /\ Len(t) = Len(u)
        /\ \A i \in 1..Len(u) : t[i] = u[i]
    BY <1>5, <1>6, <1>7
  <2> HIDE DEF t, u
  <2>2. t = u
    BY <2>1
  <2> QED BY <2>2 DEF t, u
<1> QED BY <1>8 DEF d

(* An append adds all of its bytes, or fails and changes nothing.          *)
LEMMA AppendStringText ==
  ASSUME NEW c, Sound(c), NEW s \in Seq(Bytes), NEW o \in AppendString(c, s)
  PROVE  \/ o.rc = 0 /\ Text(o.ctx) = Text(c) \o s
         \/ o.rc = -1 /\ o.ctx = c
<1>0. Len(s) \in Nat
  OBVIOUS
<1>1. CASE s = <<>>
  <2>1. o.rc = 0 /\ o.ctx = c
    BY <1>1 DEF AppendString, Ok
  <2> QED BY <1>1, <2>1, TextIsSeq
<1>2. CASE s # <<>> /\ Len(s) + c.pos < c.size
  <2>1. o = Ok(Write(c, s))
    BY <1>2 DEF AppendString, GrowAndWrite, Ok
  <2> QED BY <2>1, <1>0, <1>2, WriteText DEF Ok, Sound
<1>3. CASE s # <<>> /\ ~(Len(s) + c.pos < c.size)
  <2>1. PICK g \in Realloc(c, c.size + Len(s)) :
          o = IF g.rc = 0 THEN Ok(Write(g.ctx, s)) ELSE g
    BY <1>3 DEF AppendString, GrowAndWrite
  <2>2. CASE g = Failed(c)
    BY <2>1, <2>2 DEF Failed
  <2>3. CASE \E b \in Blocks : g = Ok(Resized(c, c.size + Len(s), b))
    <3> DEFINE n == c.size + Len(s)
    <3>1. PICK b \in Blocks : g = Ok(Resized(c, n, b))
      BY <2>3
    <3>2. n \in Nat /\ c.pos < n /\ c.size <= n /\ c.pos + Len(s) < n
      BY <1>0, <1>3 DEF Sound
    <3> HIDE DEF n
    <3> DEFINE d == Resized(c, n, b)
    <3>3. /\ d.pos = c.pos /\ d.size = n
          /\ d.mem = [i \in 0..(n - 1) |-> IF i < c.size THEN c.mem[i] ELSE Junk]
      BY ResizedFields
    <3>4. Sound(d)
      BY <3>2, ResizedSound
    <3> HIDE DEF d
    <3>5. Text(d) = Text(c)
      <4>1. \A i \in 0..(c.pos - 1) : d.mem[i] = c.mem[i]
        BY <3>2, <3>3 DEF Sound
      <4> QED BY <4>1, <3>3, SameText
    <3>6. Text(Write(d, s)) = Text(d) \o s
      BY <3>2, <3>3, <3>4, WriteText
    <3> QED BY <2>1, <3>1, <3>5, <3>6 DEF Ok, d
  <2> QED BY <2>2, <2>3 DEF Realloc, IfAllocFails
<1> QED BY <1>1, <1>2, <1>3

(* The C string a reader of d sees is c's text up to its first NUL.        *)
LEMMA CStringIsText ==
  ASSUME NEW c, NEW d, Sound(c), Delivers(c, d)
  PROVE  CString(d) = Promise!UpToNUL(Text(c))
<1> DEFINE t == Text(c)
<1> DEFINE inD == {k \in 1..d.size : \A j \in 0..(k - 1) : d.mem[j] \notin {NUL, Junk}}
<1> DEFINE inT == {k \in 1..Len(t) : \A j \in 1..k : t[j] # NUL}
<1>1. /\ Len(t) = c.pos /\ c.pos \in Nat
      /\ \A i \in 1..c.pos : t[i] = c.mem[i - 1]
  BY TextIsSeq DEF Sound
<1>2. CString(d) = [i \in inD |-> d.mem[i - 1]]
  BY DEF CString
<1>3. Promise!UpToNUL(Text(c)) = [i \in inT |-> t[i]]
  BY DEF Promise!UpToNUL
<1> HIDE DEF t
<1>4. \A i \in 0..(c.pos - 1) : c.mem[i] # Junk /\ d.mem[i] = c.mem[i]
  BY JunkIsNoByte DEF Sound, Delivers
<1>5. /\ d.size \in Nat /\ c.pos < d.size /\ d.mem[c.pos] = NUL
  BY <1>1 DEF Delivers
<1>6. \A i \in 1..c.pos : t[i] = d.mem[i - 1] /\ d.mem[i - 1] # Junk
  <2> TAKE i \in 1..c.pos
  <2>1. i - 1 \in 0..(c.pos - 1)
    BY <1>1
  <2> QED BY <2>1, <1>1, <1>4
<1>7. ASSUME NEW k \in inD PROVE k \in inT
  <2>1. k \in 1..d.size /\ \A j \in 0..(k - 1) : d.mem[j] # NUL
    OBVIOUS
  <2>2. k \in 1..c.pos
    BY <2>1, <1>1, <1>5
  <2>3. \A j \in 1..k : t[j] # NUL
    <3> TAKE j \in 1..k
    <3>1. j - 1 \in 0..(k - 1) /\ j \in 1..c.pos
      BY <1>1, <2>2
    <3> QED BY <3>1, <2>1, <1>6
  <2> QED BY <1>1, <2>2, <2>3
<1>8. ASSUME NEW k \in inT PROVE k \in inD
  <2>1. k \in 1..c.pos /\ \A j \in 1..k : t[j] # NUL
    BY <1>1
  <2>2. \A j \in 0..(k - 1) : d.mem[j] \notin {NUL, Junk}
    <3> TAKE j \in 0..(k - 1)
    <3>1. j + 1 \in 1..k /\ j + 1 \in 1..c.pos /\ j + 1 - 1 = j
      BY <1>1, <2>1
    <3> QED BY <3>1, <2>1, <1>6
  <2> QED BY <1>1, <1>5, <2>1, <2>2
<1>9. inD = inT
  BY <1>7, <1>8
<1>10. \A i \in inT : t[i] = d.mem[i - 1]
  BY <1>1, <1>6
<1> HIDE DEF inD, inT
<1> QED BY <1>2, <1>3, <1>9, <1>10

(* A fresh buffer holds no text.                                           *)
LEMMA FreshText ==
  ASSUME NEW c, c.pos = 0
  PROVE  Text(c) = <<>>
BY DEF Text

(* No buffer, no text.                                                     *)
LEMMA NoBufferText == NoBuffer.buf = NULL /\ Text(NoBuffer) = <<>>
BY FreshText DEF NoBuffer, Context

(* An appended string, or its failure, is a step of the TextBuffer.        *)
LEMMA AppendRefines ==
  ASSUME Sound(ctx), NEW s \in Inputs, s \in Seq(Bytes),
         NEW o \in AppendString(ctx, s), ctx' = o.ctx, Returns(o.rc)
  PROVE  Promise!Next
<1>1. Sound(o.ctx)
  BY AppendStringSound
<1>2. ctx.buf # NULL /\ ctx'.buf # NULL
  BY <1>1, SoundIsOpen
<1>3. CASE o.rc = 0 /\ Text(o.ctx) = Text(ctx) \o s
  <2>1. Promise!Append1(s)
    BY <1>2, <1>3 DEF Promise!Append1, Promise!Code, Returns
  <2> QED BY <2>1 DEF Promise!Next
<1>4. CASE o.rc = -1 /\ o.ctx = ctx
  <2>1. Promise!OutOfMemory
    BY <1>4 DEF Promise!OutOfMemory, Promise!Code, Returns
  <2> QED BY <2>1 DEF Promise!Next
<1> QED BY <1>3, <1>4, AppendStringText

(* Every call of the programs is a step of the TextBuffer or a stutter.    *)
LEMMA StepRefines == IInv /\ [AppNext]_vars => [Promise!Next]_(Promise!tbvars)
<1> SUFFICES ASSUME IInv, [AppNext]_vars
             PROVE  [Promise!Next]_(Promise!tbvars)
  OBVIOUS
<1>0. \A s \in Inputs : s \in Seq(Bytes)
  BY DynStringAssumption
<1>1. ASSUME NEW n \in InitSizes, DoInitialise(n) PROVE Promise!Next
  <2>1. PICK o \in Initialise(n) : ctx' = o.ctx /\ Returns(o.rc)
    BY <1>1 DEF DoInitialise
  <2>2. ctx = NoBuffer
    BY <1>1 DEF DoInitialise, IInv
  <2>3. CASE o.rc = 0 /\ Sound(o.ctx) /\ o.ctx.pos = 0
    <3>1. Promise!Open
      BY <2>1, <2>2, <2>3, NoBufferText, FreshText, SoundIsOpen
         DEF Promise!Open, Promise!Code, Returns
    <3> QED BY <3>1 DEF Promise!Next
  <2>4. CASE o.rc = -1 /\ o.ctx = NoBuffer
    <3>1. Promise!OutOfMemory
      BY <2>1, <2>2, <2>4 DEF Promise!OutOfMemory, Promise!Code, Returns
    <3> QED BY <3>1 DEF Promise!Next
  <2> QED BY <2>3, <2>4, InitialiseSound
<1>2. ASSUME NEW s \in Inputs, DoAppendString(s) PROVE Promise!Next
  <2>1. Sound(ctx)
    BY <1>2 DEF DoAppendString, Idle, IInv
  <2>2. PICK o \in AppendString(ctx, s) : ctx' = o.ctx /\ Returns(o.rc)
    BY <1>2 DEF DoAppendString
  <2> QED BY <1>0, <2>1, <2>2, AppendRefines
<1>3. ASSUME BeginAnyList PROVE UNCHANGED Promise!tbvars
  BY <1>3 DEF BeginAnyList, BeginAppendStringz, Promise!tbvars
<1>4. ASSUME StepAppendStringz PROVE Promise!Next
  <2>1. Sound(ctx) /\ pending # <<>>
    BY <1>4 DEF StepAppendStringz, IInv
  <2>2. Head(pending) \in Inputs
    BY <2>1 DEF IInv, CStrings
  <2>3. PICK o \in AppendString(ctx, Head(pending)) : ctx' = o.ctx /\ Returns(o.rc)
    BY <1>4 DEF StepAppendStringz
  <2> QED BY <1>0, <2>1, <2>2, <2>3, AppendRefines
<1>5. ASSUME DoGetCString PROVE Promise!Next
  <2>1. Sound(ctx)
    BY <1>5 DEF DoGetCString, Idle, IInv
  <2>2. PICK o \in GetCString(ctx) : ctx' = o.ctx /\ ReturnsPointer(o.ctx, o.ptr)
    BY <1>5 DEF DoGetCString
  <2>3. /\ Sound(o.ctx) /\ o.ctx.pos = ctx.pos
        /\ Delivers(ctx, o.ctx) /\ o.ptr = o.ctx.buf
    BY <2>1, GetCStringSound
  <2>4. /\ Readable(o.ctx, o.ptr)
        /\ CString(o.ctx) = Promise!UpToNUL(Text(ctx))
    BY <2>1, <2>3, DeliversReadable, CStringIsText
  <2>5. Text(o.ctx) = Text(ctx)
    BY <2>1, <2>3, SameText DEF Delivers
  <2>6. Promise!Read
    BY <2>1, <2>2, <2>3, <2>4, <2>5, SoundIsOpen
       DEF Promise!Read, Promise!String, ReturnsPointer
  <2> QED BY <2>6 DEF Promise!Next
<1>6. ASSUME DoDetachCString PROVE Promise!Next
  <2>1. Sound(ctx) /\ ctx' = NoBuffer
    BY <1>6 DEF DoDetachCString, Idle, IInv
  <2>2. PICK o \in DetachCString(ctx) : ReturnsPointer(o.ctx, o.ptr)
    BY <1>6 DEF DoDetachCString
  <2>3. /\ Readable(o.ctx, o.ptr)
        /\ CString(o.ctx) = Promise!UpToNUL(Text(ctx))
    BY <2>1, DetachCStringSound, DeliversReadable, CStringIsText
  <2>4. Promise!Take
    BY <2>1, <2>2, <2>3, SoundIsOpen, NoBufferText
       DEF Promise!Take, Promise!String, ReturnsPointer
  <2> QED BY <2>4 DEF Promise!Next
<1>7. ASSUME DoFree PROVE Promise!Next
  <2>1. Promise!Close
    BY <1>7, NoBufferText DEF DoFree, Promise!Close, Promise!Code, Returns
  <2> QED BY <2>1 DEF Promise!Next
<1>8. CASE UNCHANGED vars
  BY <1>8 DEF vars, Promise!tbvars
<1> QED BY <1>1, <1>2, <1>3, <1>4, <1>5, <1>6, <1>7, <1>8 DEF AppNext

(* The promise: a dynstring used as the programs use it is a TextBuffer.   *)
(* It never loses, reorders or half-appends bytes, and a C string taken    *)
(* from it is the text up to its first NUL, whatever the allocator does.   *)
THEOREM PromiseKept == AppSpec => KeepsPromise
<1>1. Init => Promise!Init
  BY NoBufferText DEF Init, Promise!Init, Promise!Code
<1> QED BY <1>1, StepRefines, AlwaysIInv, PTL
        DEF AppSpec, KeepsPromise, Promise!Spec

-----------------------------------------------------------------------------
(* All functions of dynstring.h, in any order.  A buffer may now be full,  *)
(* compacted or absent, so that it is not Sound.                           *)

(* A block of n cells.                                                     *)
IsBlock(m, n) == m = [i \in 0..(n - 1) |-> m[i]]

IsContext(c) == c = Context(c.buf, c.size, c.pos, c.mem)

(* pos is inside the block or just behind its end.                         *)
Fits(c) ==
  /\ IsContext(c) /\ IsBlock(c.mem, c.size)
  /\ c.size \in Nat /\ c.pos \in Nat /\ c.pos <= c.size

(* d holds what c holds, and perhaps more behind it.                       *)
Extends(d, c) == c.pos <= d.pos /\ \A i \in 0..(c.pos - 1) : d.mem[i] = c.mem[i]

(* What a step that loses no text does to the buffer.                      *)
Keeps(c, d) == Fits(d) /\ (d.pos = 0 \/ Extends(d, c))

LEMMA ContextFields ==
  ASSUME NEW b, NEW n, NEW p, NEW m
  PROVE  /\ IsContext(Context(b, n, p, m))
         /\ Context(b, n, p, m).buf = b /\ Context(b, n, p, m).size = n
         /\ Context(b, n, p, m).pos = p /\ Context(b, n, p, m).mem = m
BY DEF Context, IsContext

LEMMA FitsFrom ==
  ASSUME NEW d, NEW b, NEW n \in Nat, NEW p \in Nat, p <= n,
         NEW m, IsBlock(m, n), d = Context(b, n, p, m)
  PROVE  Fits(d) /\ d.buf = b /\ d.size = n /\ d.pos = p /\ d.mem = m
BY ContextFields DEF Fits

LEMMA FitsIs ==
  ASSUME NEW c, Fits(c)
  PROVE  /\ c.size \in Nat /\ c.pos \in Nat /\ c.pos <= c.size
         /\ IsBlock(c.mem, c.size)
         /\ Extends(c, c)
BY DEF Fits, Extends

(* Blocks m and old of n cells differ in cell k at most.                   *)
DifferAt(m, old, n, k) == IsBlock(m, n) /\ \A i \in 0..(n - 1) : i # k => m[i] = old[i]

LEMMA Overwrites ==
  ASSUME NEW old, NEW n, IsBlock(old, n), NEW k, NEW v, NEW m, m = [old EXCEPT ![k] = v]
  PROVE  DifferAt(m, old, n, k)
BY DEF IsBlock, DifferAt

LEMMA TextLen ==
  ASSUME NEW c, c.pos \in Nat
  PROVE  /\ Len(Text(c)) = c.pos
         /\ \A i \in 1..c.pos : Text(c)[i] = c.mem[i - 1]
<1> DEFINE S == {c.mem[i - 1] : i \in 1..c.pos}
           t == Text(c)
<1>1. t = [i \in 1..c.pos |-> c.mem[i - 1]]
  BY DEF Text
<1>2. \A i \in 1..c.pos : c.mem[i - 1] \in S
  OBVIOUS
<1> HIDE DEF S
<1>3. t \in [1..c.pos -> S]
  BY <1>1, <1>2
<1>4. QED
  BY <1>1, <1>3

(* Such a step is what TextKept allows.                                    *)
LEMMA KeepsText ==
  ASSUME NEW c, NEW d, c.pos \in Nat, Keeps(c, d)
  PROVE  \/ Text(d) = <<>>
         \/ /\ Len(Text(d)) >= Len(Text(c))
            /\ \A i \in 1..Len(Text(c)) : Text(d)[i] = Text(c)[i]
<1>1. d.pos \in Nat
  BY DEF Keeps, Fits
<1>2. CASE d.pos = 0
  BY <1>2, FreshText
<1>3. CASE Extends(d, c)
  <2>1. /\ Len(Text(c)) = c.pos /\ Len(Text(d)) = d.pos /\ c.pos <= d.pos
        /\ \A i \in 1..c.pos : Text(c)[i] = c.mem[i - 1] /\ i - 1 \in 0..(c.pos - 1)
        /\ \A i \in 1..d.pos : Text(d)[i] = d.mem[i - 1]
    BY <1>1, <1>3, TextLen DEF Extends
  <2>2. \A i \in 1..c.pos : i \in 1..d.pos /\ d.mem[i - 1] = c.mem[i - 1]
    BY <1>1, <1>3, <2>1 DEF Extends
  <2>3. QED
    BY <1>1, <2>1, <2>2
<1>4. QED
  BY <1>2, <1>3 DEF Keeps

LEMMA ResizedKeeps ==
  ASSUME NEW c, Fits(c), NEW n \in Nat, c.pos <= n, NEW b
  PROVE  /\ Fits(Resized(c, n, b)) /\ Extends(Resized(c, n, b), c)
         /\ Resized(c, n, b).pos = c.pos /\ Resized(c, n, b).size = n
<1> DEFINE m == [i \in 0..(n - 1) |-> IF i < c.size THEN c.mem[i] ELSE Junk]
<1>1. IsBlock(m, n)
  BY DEF IsBlock
<1>2. \A i \in 0..(c.pos - 1) : m[i] = c.mem[i]
  BY DEF Fits
<1> DEFINE d == Resized(c, n, b)
<1>3. d = Context(b, n, c.pos, m)
  BY DEF Resized
<1> HIDE DEF m, d
<1>4. c.pos \in Nat
  BY FitsIs
<1>5. Fits(d) /\ d.size = n /\ d.pos = c.pos /\ d.mem = m
  BY <1>1, <1>3, <1>4, FitsFrom
<1>6. Extends(d, c)
  BY <1>2, <1>4, <1>5 DEF Extends
<1>7. QED
  BY <1>5, <1>6 DEF d

LEMMA WriteKeeps ==
  ASSUME NEW c, Fits(c), NEW s \in Seq(Cell), c.pos + Len(s) <= c.size
  PROVE  /\ Fits(Write(c, s)) /\ Extends(Write(c, s), c)
         /\ Write(c, s).pos = c.pos + Len(s) /\ Write(c, s).size = c.size
<1> DEFINE m == [i \in 0..(c.size - 1) |->
                   IF i \in c.pos..(c.pos + Len(s) - 1) THEN s[i - c.pos + 1] ELSE c.mem[i]]
<1>1. IsBlock(m, c.size)
  BY DEF IsBlock
<1>2. \A i \in 0..(c.pos - 1) : m[i] = c.mem[i]
  BY DEF Fits
<1> DEFINE d == Write(c, s)
           p == c.pos + Len(s)
<1>3. d = Context(c.buf, c.size, p, m)
  BY DEF Write
<1>4. p \in Nat /\ c.pos <= p /\ p <= c.size /\ c.size \in Nat /\ c.pos \in Nat
  BY FitsIs
<1> HIDE DEF m, d, p
<1>5. Fits(d) /\ d.size = c.size /\ d.pos = p /\ d.mem = m
  BY <1>1, <1>3, <1>4, FitsFrom
<1>6. Extends(d, c)
  BY <1>2, <1>4, <1>5 DEF Extends
<1>7. QED
  BY <1>5, <1>6 DEF d, p

(* An append that grows far enough: the bytes are behind the text, or the  *)
(* allocator failed and nothing changed.                                   *)
LEMMA GrowKeeps ==
  ASSUME NEW c, Fits(c), NEW s \in Seq(Cell), NEW fits, NEW n \in Nat,
         fits => c.pos + Len(s) <= c.size, c.pos + Len(s) <= n,
         NEW o \in GrowAndWrite(c, fits, n, s)
  PROVE  \/ /\ o.rc = 0 /\ Fits(o.ctx) /\ Extends(o.ctx, c)
            /\ o.ctx.pos = c.pos + Len(s)
         \/ AllocMayFail /\ o.rc = -1 /\ o.ctx = c
<1>1. Len(s) \in Nat
  OBVIOUS
<1>2. CASE fits
  <2>1. o = Ok(Write(c, s))
    BY <1>2 DEF GrowAndWrite, Ok
  <2>2. QED
    BY <1>2, <2>1, WriteKeeps DEF Ok
<1>3. CASE ~fits
  <2>1. PICK g \in Realloc(c, n) : o = IF g.rc = 0 THEN Ok(Write(g.ctx, s)) ELSE g
    BY <1>3 DEF GrowAndWrite
  <2>2. CASE AllocMayFail /\ g = Failed(c)
    BY <2>1, <2>2 DEF Failed
  <2>3. CASE \E b \in Blocks : g = Ok(Resized(c, n, b))
    <3>1. PICK b \in Blocks : g = Ok(Resized(c, n, b))
      BY <2>3
    <3> DEFINE d == Resized(c, n, b)
    <3>2. Fits(d) /\ Extends(d, c) /\ d.pos = c.pos /\ d.size = n
      BY <1>1, ResizedKeeps DEF Fits
    <3>3. o = Ok(Write(d, s))
      BY <2>1, <3>1 DEF Ok
    <3> HIDE DEF d
    <3>4. /\ Fits(Write(d, s)) /\ Extends(Write(d, s), d)
          /\ Write(d, s).pos = d.pos + Len(s)
      BY <3>2, WriteKeeps
    <3>5. QED
      BY <1>1, <3>2, <3>3, <3>4 DEF Ok, Extends, Fits
  <2>4. QED
    BY <2>2, <2>3 DEF Realloc, IfAllocFails
<1>4. QED
  BY <1>2, <1>3

LEMMA AppendCharKeeps ==
  ASSUME NEW c, Fits(c), NEW ch \in Cell, NEW o \in AppendChar(c, ch)
  PROVE  \/ o.rc = 0 /\ Fits(o.ctx) /\ Extends(o.ctx, c) /\ o.ctx.pos = c.pos + 1
         \/ AllocMayFail /\ o.rc = -1 /\ o.ctx = c
<1>1. <<ch>> \in Seq(Cell) /\ Len(<<ch>>) = 1
  OBVIOUS
<1>2. /\ c.pos < c.size => c.pos + Len(<<ch>>) <= c.size
      /\ c.size + Chunk \in Nat /\ c.pos + Len(<<ch>>) <= c.size + Chunk
  BY <1>1, DynBufAssumption DEF Fits
<1>3. o \in GrowAndWrite(c, c.pos < c.size, c.size + Chunk, <<ch>>)
  BY DEF AppendChar
<1> DEFINE fits == c.pos < c.size
           n == c.size + Chunk
           s == <<ch>>
<1> HIDE DEF fits, n, s
<1>4. QED
  <2>1. /\ s \in Seq(Cell) /\ n \in Nat /\ (fits => c.pos + Len(s) <= c.size)
        /\ c.pos + Len(s) <= n /\ o \in GrowAndWrite(c, fits, n, s) /\ Len(s) = 1
    BY <1>1, <1>2, <1>3 DEF fits, n, s
  <2>2. \/ o.rc = 0 /\ Fits(o.ctx) /\ Extends(o.ctx, c) /\ o.ctx.pos = c.pos + Len(s)
        \/ AllocMayFail /\ o.rc = -1 /\ o.ctx = c
    BY <2>1, GrowKeeps
  <2>3. QED
    BY <2>1, <2>2

LEMMA AppendStringKeeps ==
  ASSUME NEW c, Fits(c), NEW s \in Seq(Cell), NEW o \in AppendString(c, s)
  PROVE  /\ Fits(o.ctx) /\ Extends(o.ctx, c)
         /\ o.rc \in {0, -1}
<1>1. Len(s) \in Nat
  OBVIOUS
<1>2. Extends(c, c)
  BY DEF Extends, Fits
<1>3. CASE s = <<>>
  BY <1>2, <1>3 DEF AppendString, Ok
<1>4. CASE s # <<>>
  <2> DEFINE fits == Len(s) + c.pos < c.size
             n == c.size + Len(s)
  <2>1. /\ fits => c.pos + Len(s) <= c.size
        /\ n \in Nat /\ c.pos + Len(s) <= n
    BY <1>1 DEF Fits
  <2>2. o \in GrowAndWrite(c, fits, n, s)
    BY <1>4 DEF AppendString
  <2> HIDE DEF fits, n
  <2>3. \/ o.rc = 0 /\ Fits(o.ctx) /\ Extends(o.ctx, c) /\ o.ctx.pos = c.pos + Len(s)
        \/ AllocMayFail /\ o.rc = -1 /\ o.ctx = c
    BY <2>1, <2>2, GrowKeeps
  <2>4. QED
    BY <1>2, <2>3
<1>5. QED
  BY <1>3, <1>4

(* pos once more where it was before a byte was appended.                  *)
LEMMA SteppedBack ==
  ASSUME NEW c, c.pos \in Nat, NEW d, Fits(d), Extends(d, c), d.pos = c.pos + 1,
         NEW e, e = Context(d.buf, d.size, c.pos, d.mem)
  PROVE  Fits(e) /\ Extends(e, c)
<1> DEFINE p == c.pos
           n == d.size
           m == d.mem
           b == d.buf
<1>1. p \in Nat /\ n \in Nat /\ p <= n /\ IsBlock(m, n) /\ e = Context(b, n, p, m)
  BY FitsIs
<1>2. \A i \in 0..(c.pos - 1) : m[i] = c.mem[i]
  BY DEF Extends
<1> HIDE DEF p, n, m, b
<1>3. Fits(e) /\ e.pos = p /\ e.mem = m
  BY <1>1, FitsFrom
<1>4. Extends(e, c)
  BY <1>1, <1>2, <1>3 DEF Extends, p
<1>5. QED
  BY <1>3, <1>4

(* getcstring without a failed allocation: pos is where it was.            *)
LEMMA GetCStringKeeps ==
  ASSUME NEW c, Fits(c), ~AllocMayFail, NEW o \in GetCString(c)
  PROVE  Fits(o.ctx) /\ Extends(o.ctx, c)
<1>1. CASE /\ c.pos < c.size
           /\ o.ctx = Context(c.buf, c.size, c.pos, [c.mem EXCEPT ![c.pos] = NUL])
  <2> DEFINE m == [c.mem EXCEPT ![c.pos] = NUL]
  <2>0. c.size \in Nat /\ c.pos \in Nat /\ c.pos <= c.size /\ IsBlock(c.mem, c.size)
    BY FitsIs
  <2>1. IsBlock(m, c.size) /\ \A i \in 0..(c.pos - 1) : m[i] = c.mem[i]
    <3> DEFINE old == c.mem
               n == c.size
               k == c.pos
    <3>1. DifferAt(m, old, n, k)
      <4>1. IsBlock(old, n) /\ m = [old EXCEPT ![k] = NUL]
        BY <2>0
      <4> HIDE DEF old, n, k, m
      <4>2. QED
        BY <4>1, Overwrites
    <3> HIDE DEF m
    <3>2. \A i \in 0..(c.pos - 1) : i \in 0..(c.size - 1) /\ i # c.pos
      BY <2>0
    <3>3. QED
      BY <3>1, <3>2 DEF DifferAt
  <2>2. o.ctx = Context(c.buf, c.size, c.pos, m)
    BY <1>1
  <2> DEFINE d == o.ctx
  <2> HIDE DEF m, d
  <2>3. d = Context(c.buf, c.size, c.pos, m)
    BY <2>2 DEF d
  <2>4. Fits(d) /\ d.pos = c.pos /\ d.mem = m
    BY <2>0, <2>1, <2>3, FitsFrom
  <2>5. Extends(d, c)
    BY <2>0, <2>1, <2>4 DEF Extends
  <2>6. QED
    BY <2>4, <2>5 DEF d
<1>2. CASE \E a \in AppendChar(c, NUL) : o.ctx = StepBack(a.ctx)
  <2>1. PICK a \in AppendChar(c, NUL) : o.ctx = StepBack(a.ctx)
    BY <1>2
  <2>2. NUL \in Cell
    BY DEF Cell, Bytes
  <2>3. Fits(a.ctx) /\ Extends(a.ctx, c) /\ a.ctx.pos = c.pos + 1
    BY <2>2, AppendCharKeeps
  <2> DEFINE d == a.ctx
  <2>4. /\ Fits(d) /\ Extends(d, c) /\ d.pos = c.pos + 1 /\ c.pos \in Nat
        /\ o.ctx = Context(d.buf, d.size, IF d.pos = 0 THEN SIZE_MAX ELSE d.pos - 1, d.mem)
    BY <2>1, <2>3 DEF StepBack, Fits
  <2> HIDE DEF d
  <2>5. o.ctx = Context(d.buf, d.size, c.pos, d.mem)
    BY <2>4
  <2>6. QED
    BY <2>4, <2>5, SteppedBack
<1>3. QED
  <2>1. \/ o \in {Pointing(Ok(Context(c.buf, c.size, c.pos, [c.mem EXCEPT ![c.pos] = NUL])), c.buf)}
           /\ c.pos < c.size
        \/ \E a \in AppendChar(c, NUL) : o = Pointing([ctx |-> StepBack(a.ctx), rc |-> a.rc], c.buf)
    BY DEF GetCString
  <2>2. QED
    BY <1>1, <1>2, <2>1 DEF Pointing, Ok

(* getcstring on a buffer with a free cell allocates nothing.              *)
LEMMA GetCStringInPlace ==
  ASSUME NEW c, Sound(c), Fits(c), NEW o \in GetCString(c)
  PROVE  Fits(o.ctx) /\ Extends(o.ctx, c)
<1>1. CASE o.ctx = Context(c.buf, c.size, c.pos, [c.mem EXCEPT ![c.pos] = NUL])
  <2> DEFINE m == [c.mem EXCEPT ![c.pos] = NUL]
  <2>0. c.size \in Nat /\ c.pos \in Nat /\ c.pos <= c.size /\ IsBlock(c.mem, c.size)
    BY FitsIs
  <2>1. IsBlock(m, c.size) /\ \A i \in 0..(c.pos - 1) : m[i] = c.mem[i]
    <3> DEFINE old == c.mem
               n == c.size
               k == c.pos
    <3>1. DifferAt(m, old, n, k)
      <4>1. IsBlock(old, n) /\ m = [old EXCEPT ![k] = NUL]
        BY <2>0
      <4> HIDE DEF old, n, k, m
      <4>2. QED
        BY <4>1, Overwrites
    <3> HIDE DEF m
    <3>2. \A i \in 0..(c.pos - 1) : i \in 0..(c.size - 1) /\ i # c.pos
      BY <2>0
    <3>3. QED
      BY <3>1, <3>2 DEF DifferAt
  <2>2. o.ctx = Context(c.buf, c.size, c.pos, m)
    BY <1>1
  <2> DEFINE d == o.ctx
  <2> HIDE DEF m, d
  <2>3. d = Context(c.buf, c.size, c.pos, m)
    BY <2>2 DEF d
  <2>4. Fits(d) /\ d.pos = c.pos /\ d.mem = m
    BY <2>0, <2>1, <2>3, FitsFrom
  <2>5. Extends(d, c)
    BY <2>0, <2>1, <2>4 DEF Extends
  <2>6. QED
    BY <2>4, <2>5 DEF d
<1>2. CASE \E a \in AppendChar(c, NUL) : o.ctx = StepBack(a.ctx)
  <2>1. PICK a \in AppendChar(c, NUL) : o.ctx = StepBack(a.ctx)
    BY <1>2
  <2>2. a = Ok(Write(c, <<NUL>>))
    BY DEF AppendChar, GrowAndWrite, Sound, Ok
  <2>3. <<NUL>> \in Seq(Cell) /\ Len(<<NUL>>) = 1 /\ c.pos + Len(<<NUL>>) <= c.size
    BY DEF Cell, Bytes, Sound
  <2> DEFINE s == <<NUL>>
             d == Write(c, s)
  <2> HIDE DEF s
  <2>4. s \in Seq(Cell) /\ Len(s) = 1 /\ c.pos + Len(s) <= c.size /\ a.ctx = d
    BY <2>2, <2>3 DEF s, Ok
  <2>5. Fits(d) /\ Extends(d, c) /\ d.pos = c.pos + 1
    BY <2>4, WriteKeeps
  <2> HIDE DEF d
  <2>6. c.pos \in Nat
    BY DEF Sound
  <2>7. o.ctx = Context(d.buf, d.size, c.pos, d.mem)
    BY <2>1, <2>4, <2>5, <2>6 DEF StepBack
  <2>8. QED
    BY <2>5, <2>6, <2>7, SteppedBack
<1>3. QED
  <2>1. \/ o \in {Pointing(Ok(Context(c.buf, c.size, c.pos, [c.mem EXCEPT ![c.pos] = NUL])), c.buf)}
        \/ \E a \in AppendChar(c, NUL) : o = Pointing([ctx |-> StepBack(a.ctx), rc |-> a.rc], c.buf)
    BY DEF GetCString
  <2>2. QED
    BY <1>1, <1>2, <2>1 DEF Pointing, Ok

-----------------------------------------------------------------------------

(* The invariant of Spec.                                                  *)
FitInv == Fits(ctx) /\ pending \in Seq(CStrings)

LEMMA NoBufferFits == Fits(NoBuffer) /\ NoBuffer.pos = 0
<1>1. IsBlock([i \in 0..(-1) |-> Junk], 0)
  BY DEF IsBlock
<1>2. QED
  BY <1>1, FitsFrom DEF NoBuffer

(* What every call but getcstring does, whatever the allocator answers.    *)
LEMMA CallKeeps ==
  ASSUME FitInv, [Next]_vars, ~DoGetCString
  PROVE  Keeps(ctx, ctx') /\ (pending \in Seq(CStrings))'
<1>0. /\ CStrings \subseteq Seq(Cell) /\ Inputs \subseteq Seq(Cell) /\ Bytes \subseteq Cell
  BY DynStringAssumption DEF CStrings, Cell
<1>1. Fits(ctx) /\ Extends(ctx, ctx) /\ pending \in Seq(CStrings)
  BY FitsIs DEF FitInv
<1>2. ASSUME NEW n \in InitSizes, DoInitialise(n) PROVE Keeps(ctx, ctx') /\ pending' = pending
  <2>1. PICK o \in Initialise(n) : ctx' = o.ctx
    BY <1>2 DEF DoInitialise
  <2>2. n \in Nat
    BY DynStringAssumption
  <2> DEFINE m == [i \in 0..(n - 1) |-> Junk]
  <2>3. IsBlock(m, n)
    BY DEF IsBlock
  <2>4. o.ctx = NoBuffer \/ \E b \in Blocks : o.ctx = Context(b, n, 0, m)
    <3>1. o = Failed(NoBuffer) \/ \E b \in Blocks : o = Ok(Context(b, n, 0, m))
      BY <2>1 DEF Initialise, IfAllocFails
    <3> HIDE DEF m
    <3>2. QED
      BY <3>1 DEF Ok, Failed
  <2> HIDE DEF m
  <2>5. Fits(ctx') /\ ctx'.pos = 0
    BY <2>1, <2>2, <2>3, <2>4, NoBufferFits, FitsFrom
  <2>6. QED
    BY <1>2, <2>5 DEF Keeps, DoInitialise
<1>3. ASSUME NEW ch \in Bytes, DoAppendChar(ch) PROVE Keeps(ctx, ctx') /\ pending' = pending
  <2>1. PICK o \in AppendChar(ctx, ch) : ctx' = o.ctx
    BY <1>3 DEF DoAppendChar
  <2>2. Fits(o.ctx) /\ Extends(o.ctx, ctx)
    BY <1>0, <1>1, AppendCharKeeps
  <2>3. QED
    BY <1>3, <2>1, <2>2 DEF Keeps, DoAppendChar
<1>4. ASSUME NEW s \in Inputs, DoAppendString(s) PROVE Keeps(ctx, ctx') /\ pending' = pending
  <2>1. PICK o \in AppendString(ctx, s) : ctx' = o.ctx
    BY <1>4 DEF DoAppendString
  <2>2. Fits(o.ctx) /\ Extends(o.ctx, ctx)
    BY <1>0, <1>1, AppendStringKeeps
  <2>3. QED
    BY <1>4, <2>1, <2>2 DEF Keeps, DoAppendString
<1>5. ASSUME BeginAnyList PROVE Keeps(ctx, ctx') /\ pending' \in Seq(CStrings)
  <2>1. PICK list \in Lists : BeginAppendStringz(list)
    BY <1>5 DEF BeginAnyList
  <2>2. list \in Seq(CStrings)
    <3>1. CASE \E s \in CStrings : list = <<s>>
      BY <3>1
    <3>2. CASE \E s, t \in CStrings : list = <<s, t>>
      BY <3>2
    <3>3. QED
      BY <3>1, <3>2 DEF Lists
  <2>3. QED
    BY <1>1, <2>1, <2>2 DEF BeginAppendStringz, Keeps
<1>6. ASSUME StepAppendStringz PROVE Keeps(ctx, ctx') /\ pending' \in Seq(CStrings)
  <2>1. pending # <<>> /\ Head(pending) \in CStrings /\ Tail(pending) \in Seq(CStrings)
    BY <1>1, <1>6 DEF StepAppendStringz
  <2>2. PICK o \in AppendString(ctx, Head(pending)) :
          ctx' = o.ctx /\ pending' = IF o.rc = 0 THEN Tail(pending) ELSE <<>>
    BY <1>6 DEF StepAppendStringz
  <2>3. Fits(o.ctx) /\ Extends(o.ctx, ctx)
    <3> DEFINE s == Head(pending)
    <3>1. s \in Seq(Cell) /\ o \in AppendString(ctx, s)
      BY <1>0, <2>1
    <3> HIDE DEF s
    <3>2. QED
      BY <1>1, <3>1, AppendStringKeeps
  <2>4. QED
    BY <2>1, <2>2, <2>3 DEF Keeps
<1>7. ASSUME DoEmpty PROVE Keeps(ctx, ctx') /\ pending' = pending
  <2>1. CASE ctx.buf = NULL
    <3>1. ctx' = Context(ctx.buf, ctx.size, 0, ctx.mem)
      BY <1>1, <1>7, <2>1 DEF DoEmpty, Fits, IsContext, Context
    <3>2. QED
      BY <1>1, <1>7, <3>1, FitsIs, FitsFrom DEF Keeps, DoEmpty
  <2>2. CASE ctx.buf # NULL
    <3> DEFINE m == [ctx.mem EXCEPT ![0] = NUL]
    <3>1. ctx' = Context(ctx.buf, ctx.size, 0, m)
      BY <1>7, <2>2 DEF DoEmpty, Empty
    <3>2. IsBlock(m, ctx.size)
      BY <1>1, FitsIs, Overwrites DEF DifferAt
    <3> HIDE DEF m
    <3>3. QED
      BY <1>1, <1>7, <3>1, <3>2, FitsIs, FitsFrom DEF Keeps, DoEmpty
  <2>3. QED
    BY <2>1, <2>2
<1>8. ASSUME DoCompact PROVE Keeps(ctx, ctx') /\ pending' = pending
  <2>1. PICK o \in Compact(ctx) : ctx' = o.ctx
    BY <1>8 DEF DoCompact
  <2>2. o.ctx = ctx \/ \E b \in Blocks : o.ctx = Resized(ctx, ctx.pos + 1, b)
    BY DEF Compact, Realloc, IfAllocFails, Ok, Failed
  <2>3. ctx.pos + 1 \in Nat /\ ctx.pos <= ctx.pos + 1
    BY <1>1 DEF Fits
  <2>4. Fits(ctx') /\ Extends(ctx', ctx)
    BY <1>1, <2>1, <2>2, <2>3, ResizedKeeps
  <2>5. QED
    BY <1>8, <2>4 DEF Keeps, DoCompact
<1>9. ASSUME DoInitialiseZero \/ DoDetachCString \/ DoFree
      PROVE  Keeps(ctx, ctx') /\ pending' = pending
  <2>1. ctx' = NoBuffer /\ pending' = pending
    BY <1>9 DEF DoInitialiseZero, DoDetachCString, DoFree
  <2>2. QED
    BY <2>1, NoBufferFits DEF Keeps
<1>10. CASE UNCHANGED vars
  BY <1>1, <1>10 DEF vars, Keeps
<1>11. QED
  BY <1>1, <1>2, <1>3, <1>4, <1>5, <1>6, <1>7, <1>8, <1>9, <1>10 DEF Next

(* As long as the allocator does not fail, no function of dynstring.h      *)
(* loses or rewrites bytes that were appended, in any order of the calls,  *)
(* also on a full, a compacted or an absent buffer.  (When it does fail,   *)
(* getcstring steps back over a byte that it did not append.)              *)
THEOREM TextStays ==
  ASSUME ~AllocMayFail
  PROVE  Spec => TextKept
<1>1. Init => FitInv
  BY NoBufferFits DEF Init, FitInv
<1>2. FitInv /\ [Next]_vars => FitInv' /\ Keeps(ctx, ctx')
  <2> SUFFICES ASSUME FitInv, [Next]_vars PROVE FitInv' /\ Keeps(ctx, ctx')
    OBVIOUS
  <2>1. CASE DoGetCString
    <3>1. PICK o \in GetCString(ctx) : ctx' = o.ctx /\ pending' = pending
      BY <2>1 DEF DoGetCString
    <3>2. Fits(o.ctx) /\ Extends(o.ctx, ctx)
      BY GetCStringKeeps DEF FitInv
    <3>3. QED
      BY <3>1, <3>2 DEF FitInv, Keeps
  <2>2. CASE ~DoGetCString
    <3>1. Keeps(ctx, ctx') /\ (pending \in Seq(CStrings))'
      BY <2>2, CallKeeps
    <3>2. QED
      BY <3>1 DEF FitInv, Keeps
  <2>3. QED
    BY <2>1, <2>2
<1>3. FitInv /\ Keeps(ctx, ctx') =>
        LET old == Text(ctx)
            new == Text(ctx')
        IN  new = <<>> \/ (Len(new) >= Len(old) /\ \A i \in 1..Len(old) : new[i] = old[i])
  BY KeepsText DEF FitInv, Fits
<1>4. QED
  BY <1>1, <1>2, <1>3, PTL DEF Spec, TextKept

(* A step of the programs is a step of Spec.                               *)
LEMMA AppIsSpec == [AppNext]_vars => [Next]_vars
BY DEF AppNext, Next

(* With the programs' calls no appended byte is lost or rewritten whatever *)
(* the allocator answers: their buffers are Sound, so getcstring finds a   *)
(* cell for the terminator and has nothing to allocate.                    *)
THEOREM TextStaysInUse == AppSpec => TextKept
<1>1. Init => FitInv
  BY NoBufferFits DEF Init, FitInv
<1>2. IInv /\ FitInv /\ [AppNext]_vars => FitInv' /\ Keeps(ctx, ctx')
  <2> SUFFICES ASSUME IInv, FitInv, [AppNext]_vars PROVE FitInv' /\ Keeps(ctx, ctx')
    OBVIOUS
  <2>1. CASE DoGetCString
    <3>1. Sound(ctx)
      BY <2>1 DEF DoGetCString, Idle, IInv
    <3>2. PICK o \in GetCString(ctx) : ctx' = o.ctx /\ pending' = pending
      BY <2>1 DEF DoGetCString
    <3>3. Fits(o.ctx) /\ Extends(o.ctx, ctx)
      BY <3>1, GetCStringInPlace DEF FitInv
    <3>4. QED
      BY <3>2, <3>3 DEF FitInv, Keeps
  <2>2. CASE ~DoGetCString
    <3>1. Keeps(ctx, ctx') /\ (pending \in Seq(CStrings))'
      BY <2>2, CallKeeps, AppIsSpec
    <3>2. QED
      BY <3>1 DEF FitInv, Keeps
  <2>3. QED
    BY <2>1, <2>2
<1>3. FitInv /\ Keeps(ctx, ctx') =>
        LET old == Text(ctx)
            new == Text(ctx')
        IN  new = <<>> \/ (Len(new) >= Len(old) /\ \A i \in 1..Len(old) : new[i] = old[i])
  BY KeepsText DEF FitInv, Fits
<1>4. QED
  BY <1>1, <1>2, <1>3, AlwaysIInv, PTL DEF AppSpec, TextKept
=============================================================================
