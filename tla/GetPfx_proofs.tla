---------------------------- MODULE GetPfx_proofs ----------------------------
(***************************************************************************)
(* Proofs about GetPfx: whatever the servers send, however the transfers   *)
(* end and whichever allocation fails, nothing is used after it was freed, *)
(* nothing is freed twice, main leaves nothing behind but a lost list, the *)
(* body is decoded whole, the vault is asked with the token of this run,   *)
(* and what is printed is what SecretTool allows.                          *)
(***************************************************************************)
EXTENDS GetPfx, FiniteSetTheorems, TLAPS

(* The statements of main between and after the two calls.                 *)
Outside == {"start", "got_token", "got_pfx", "print", "cleanup", "done"}
Inside  == {"init_buf", "init_hdr", "headers", "perform", "transfer", "decode",
            "extract", "detach", "finish"}

(* A context, in use or not; its size and its bytes are what matters here. *)
Typed(c) ==
  /\ c.size \in Nat /\ c.pos \in Nat
  /\ c.mem \in [0..(c.size - 1) -> Symbols]

Control ==
  /\ pc \in Outside \cup Inside \cup {"aborted"} /\ fn \in Calls
  /\ pc \in {"start", "got_token"} => fn = "token"
  /\ pc \in {"got_pfx", "print"} => fn = "pfx"

(* Which pointers are set, by statement.                                   *)
Pointers ==
  /\ list # NULL => pc \in {"perform", "transfer", "decode", "extract", "detach",
                            "finish", "aborted"}
  /\ root # NULL => pc \in {"extract", "detach", "finish"}
  /\ result # NULL => pc = "finish"
  /\ auth # NULL => fn = "pfx" \/ pc = "got_token"
  /\ fn = "pfx" /\ pc \in Inside \cup {"got_pfx"} => auth # NULL
  /\ pfx # NULL => pc \in {"got_pfx", "print", "cleanup", "done"}
  /\ pc = "print" => pfx # NULL

(* While main has its handle, what is allocated is what the pointers show. *)
Ledger ==
  pc \notin {"start", "done", "aborted"} =>
    /\ {"global", "curl"} \subseteq heap
    /\ heap \subseteq {"global", "curl", "list", "lost list", "json", "auth", "pfx"}
    /\ "list" \in heap <=> list # NULL
    /\ "json" \in heap <=> root # NULL
    /\ "auth" \in heap <=> auth # NULL \/ (fn = "token" /\ result # NULL)
    /\ "pfx" \in heap <=> \/ pfx # NULL /\ pc \in {"got_pfx", "print"}
                          \/ fn = "pfx" /\ result # NULL

(* What curl is about to be given.                                         *)
Request ==
  /\ handle \in [headers : Calls \cup {NULL}, sink : Calls \cup {NULL}, timeout : BOOLEAN]
  /\ pc = "perform" => handle.headers = IF list = NULL THEN NULL ELSE fn
  /\ pc \in {"init_hdr", "headers", "perform"} => buf.buf # NULL

(* A list is lost in the second call only, and its request has no headers. *)
LostList ==
  /\ sent = [f \in Calls |-> sent[f]]
  /\ "lost list" \in heap =>
       /\ fn = "pfx" /\ pc \notin {"start", "init_buf", "init_hdr", "headers"}
       /\ IF pc = "perform" THEN list = NULL ELSE sent["pfx"] = <<>>

Buffers ==
  /\ Typed(buf) /\ Typed(hdr) /\ wire \in Seq(Symbols)
  /\ pc \in Outside => buf = NoBuffer /\ hdr = NoBuffer
  /\ pc = "extract" => root \in Seq(Symbols)

Beginning ==
  pc = "start" =>
    heap = {} /\ auth = NULL /\ pfx = NULL /\ out = <<>>

Ending ==
  pc = "done" => heap \subseteq {"lost list"} \cup IF out = <<Diagnostic>> THEN {"global"} ELSE {}

IInv == /\ Control /\ Pointers /\ Ledger /\ Request /\ LostList /\ Buffers
        /\ Beginning /\ Ending /\ NoFault

-----------------------------------------------------------------------------
(* The operators of DynBuf keep a context typed, and a reader of it finds  *)
(* a sequence, so never the null pointer.                                  *)

(* A set of positions that has with each one all before it.                *)
LEMMA Prefix ==
  ASSUME NEW n \in Nat, NEW d \in SUBSET (1..n), \A k \in d : 1..k \subseteq d
  PROVE  \E m \in 0..n : d = 1..m
<1>1. /\ IsFiniteSet(1..n) /\ IsFiniteSet(d)
      /\ Cardinality(d) \in Nat /\ Cardinality(d) <= Cardinality(1..n)
      /\ Cardinality(1..n) = n
  <2>1. IsFiniteSet(1..n) /\ Cardinality(1..n) = n
    BY FS_Interval
  <2> QED BY <2>1, FS_Subset, FS_CardinalityType
<1>2. ASSUME NEW k \in d PROVE k <= Cardinality(d)
  <2>1. Cardinality(1..k) = k
    BY FS_Interval
  <2>2. Cardinality(1..k) <= Cardinality(d)
    BY <1>1, FS_Subset
  <2> QED BY <2>1, <2>2
<1>3. ASSUME NEW k \in 1..n, k \notin d PROVE Cardinality(d) < k
  <2>1. d \subseteq 1..(k - 1)
    <3> SUFFICES ASSUME NEW j \in d, j >= k PROVE FALSE
      OBVIOUS
    <3>1. k \in 1..j
      BY <1>3
    <3> QED BY <1>3, <3>1
  <2>2. IsFiniteSet(1..(k - 1)) /\ Cardinality(1..(k - 1)) = k - 1
    BY FS_Interval
  <2>3. Cardinality(d) <= Cardinality(1..(k - 1))
    BY <2>1, <2>2, FS_Subset
  <2> QED BY <1>1, <2>2, <2>3
<1> DEFINE m == Cardinality(d)
<1>4. m \in 0..n
  BY <1>1
<1>5. \A k \in d : k \in 1..n /\ k <= m
  BY <1>2
<1>6. \A k \in 1..n : k \notin d => m < k
  BY <1>3
<1> HIDE DEF m
<1>7. d \subseteq 1..m
  BY <1>4, <1>5
<1>8. 1..m \subseteq d
  BY <1>4, <1>6
<1> QED BY <1>4, <1>7, <1>8

LEMMA CStringIsSeq ==
  ASSUME NEW S, NEW c, c.size \in Nat, c.mem \in [0..(c.size - 1) -> S]
  PROVE  CString(c) \in Seq(S)
<1> DEFINE d == {k \in 1..c.size : \A j \in 0..(k - 1) : c.mem[j] \notin {NUL, Junk}}
<1>1. d \in SUBSET (1..c.size)
  OBVIOUS
<1>2. ASSUME NEW k \in d PROVE 1..k \subseteq d
  OBVIOUS
<1>3. CString(c) = [i \in d |-> c.mem[i - 1]]
  BY DEF CString
<1> HIDE DEF d
<1>4. PICK n \in 0..c.size : d = 1..n
  BY <1>1, <1>2, Prefix
<1>5. ASSUME NEW i \in 1..n PROVE c.mem[i - 1] \in S
  <2>1. i - 1 \in 0..(c.size - 1)
    OBVIOUS
  <2> QED BY <2>1
<1>6. CString(c) = [i \in 1..n |-> c.mem[i - 1]]
  BY <1>3, <1>4
<1> QED BY <1>5, <1>6

LEMMA NotNull ==
  ASSUME NEW t \in Seq(Symbols)
  PROVE  t # NULL
BY GetPfxAssumption

LEMMA NoBufferTyped == Typed(NoBuffer)
BY DEF NoBuffer, Context, Typed

LEMMA JunkIsSymbol == Junk \in Symbols /\ NUL \in Symbols /\ Bearer \in Symbols
BY DEF Symbols

LEMMA WriteTyped ==
  ASSUME NEW c, Typed(c), NEW s \in Seq(Symbols)
  PROVE  Typed(Write(c, s))
<1> DEFINE w == Write(c, s)
<1>1. /\ w.size = c.size /\ w.pos = c.pos + Len(s)
      /\ w.mem = [i \in 0..(c.size - 1) |->
                    IF i \in c.pos..(c.pos + Len(s) - 1) THEN s[i - c.pos + 1] ELSE c.mem[i]]
  BY DEF Write, Context
<1>2. Len(s) \in Nat /\ c.pos \in Nat /\ c.size \in Nat
  BY DEF Typed
<1>3. ASSUME NEW i \in 0..(c.size - 1), i \in c.pos..(c.pos + Len(s) - 1)
      PROVE  s[i - c.pos + 1] \in Symbols
  <2>1. i - c.pos + 1 \in 1..Len(s)
    BY <1>2, <1>3
  <2> QED BY <2>1
<1>4. \A i \in 0..(c.size - 1) : c.mem[i] \in Symbols
  BY DEF Typed
<1>5. w.mem \in [0..(c.size - 1) -> Symbols]
  BY <1>1, <1>3, <1>4
<1> HIDE DEF w
<1>6. w.size \in Nat /\ w.pos \in Nat /\ w.mem \in [0..(w.size - 1) -> Symbols]
  BY <1>1, <1>2, <1>5
<1> QED BY <1>6 DEF w, Typed

LEMMA ReallocTyped ==
  ASSUME NEW c, Typed(c), NEW n \in Nat, NEW o \in Realloc(c, n)
  PROVE  Typed(o.ctx)
<1>1. CASE \E b \in Blocks : o = Ok(Resized(c, n, b))
  <2>1. PICK b \in Blocks : o = Ok(Resized(c, n, b))
    BY <1>1
  <2>2. /\ o.ctx.size = n /\ o.ctx.pos = c.pos
        /\ o.ctx.mem = [i \in 0..(n - 1) |-> IF i < c.size THEN c.mem[i] ELSE Junk]
    BY <2>1 DEF Ok, Resized, Context
  <2>3. \A i \in 0..(n - 1) : (IF i < c.size THEN c.mem[i] ELSE Junk) \in Symbols
    BY JunkIsSymbol DEF Typed
  <2> QED BY <2>2, <2>3 DEF Typed
<1>2. CASE o = Failed(c)
  BY <1>2 DEF Failed
<1> QED BY <1>1, <1>2 DEF Realloc, IfAllocFails

LEMMA GrowTyped ==
  ASSUME NEW c, Typed(c), NEW fits \in BOOLEAN, NEW n \in Nat, NEW s \in Seq(Symbols),
         NEW o \in GrowAndWrite(c, fits, n, s)
  PROVE  Typed(o.ctx)
<1>1. PICK g \in (IF fits THEN {Ok(c)} ELSE Realloc(c, n)) :
        o = IF g.rc = 0 THEN Ok(Write(g.ctx, s)) ELSE g
  BY DEF GrowAndWrite
<1>2. Typed(g.ctx)
  BY <1>1, ReallocTyped DEF Ok
<1>3. Typed(Write(g.ctx, s))
  BY <1>2, WriteTyped
<1> QED BY <1>1, <1>2, <1>3 DEF Ok

LEMMA AppendStringTyped ==
  ASSUME NEW c, Typed(c), NEW s \in Seq(Symbols), NEW o \in AppendString(c, s)
  PROVE  Typed(o.ctx)
<1>1. CASE s = <<>>
  BY <1>1 DEF AppendString, Ok
<1>2. CASE s # <<>>
  <2>1. o \in GrowAndWrite(c, Len(s) + c.pos < c.size, c.size + Len(s), s)
    BY <1>2 DEF AppendString
  <2>2. c.size + Len(s) \in Nat
    BY DEF Typed
  <2>3. (Len(s) + c.pos < c.size) \in BOOLEAN
    OBVIOUS
  <2> QED BY <2>1, <2>2, <2>3, GrowTyped
<1> QED BY <1>1, <1>2

LEMMA AppendCharTyped ==
  ASSUME NEW c, Typed(c), NEW o \in AppendChar(c, NUL)
  PROVE  Typed(o.ctx)
<1>1. o \in GrowAndWrite(c, c.pos < c.size, c.size + Chunk, <<NUL>>)
  BY DEF AppendChar
<1>2. c.size + Chunk \in Nat /\ <<NUL>> \in Seq(Symbols)
  BY DynBufAssumption, JunkIsSymbol DEF Typed
<1>3. (c.pos < c.size) \in BOOLEAN
  OBVIOUS
<1> QED BY <1>1, <1>2, <1>3, GrowTyped

LEMMA GetCStringTyped ==
  ASSUME NEW c, Typed(c), NEW o \in GetCString(c)
  PROVE  Typed(o.ctx)
<1>1. CASE \E a \in AppendChar(c, NUL) : o.ctx = StepBack(a.ctx)
  <2>1. PICK a \in AppendChar(c, NUL) : o.ctx = StepBack(a.ctx)
    BY <1>1
  <2>2. Typed(a.ctx)
    BY AppendCharTyped
  <2> QED BY <2>1, <2>2, DynBufAssumption DEF StepBack, Context, Typed
<1>2. CASE o.ctx = Context(c.buf, c.size, c.pos, [c.mem EXCEPT ![c.pos] = NUL])
  <2>1. [c.mem EXCEPT ![c.pos] = NUL] \in [0..(c.size - 1) -> Symbols]
    BY JunkIsSymbol DEF Typed
  <2> QED BY <1>2, <2>1 DEF Context, Typed
<1> QED BY <1>1, <1>2 DEF GetCString, Pointing, Ok

LEMMA DetachCStringTyped ==
  ASSUME NEW c, Typed(c), NEW o \in DetachCString(c)
  PROVE  Typed(o.ctx)
<1>0. PICK r \in UNION {Compact(a.ctx) : a \in AppendChar(c, NUL)} : o = Pointing(r, r.ctx.buf)
  BY DEF DetachCString
<1>1. PICK a \in AppendChar(c, NUL) : r \in Compact(a.ctx)
  OBVIOUS
<1>2. Typed(a.ctx)
  BY AppendCharTyped
<1>3. r \in Realloc(a.ctx, a.ctx.pos + 1) /\ a.ctx.pos + 1 \in Nat
  BY <1>1, <1>2 DEF Compact, Typed
<1>4. Typed(r.ctx)
  BY <1>2, <1>3, ReallocTyped
<1> QED BY <1>0, <1>4 DEF Pointing

LEMMA InitialiseTyped ==
  ASSUME NEW n \in Nat, NEW o \in Initialise(n)
  PROVE  Typed(o.ctx) /\ (o.rc = 0 => o.ctx.buf # NULL)
<1>1. CASE \E b \in Blocks : o = Ok(Context(b, n, 0, [i \in 0..(n - 1) |-> Junk]))
  <2>1. PICK b \in Blocks : o = Ok(Context(b, n, 0, [i \in 0..(n - 1) |-> Junk]))
    BY <1>1
  <2> QED BY <2>1, JunkIsSymbol, DynBufAssumption DEF Ok, Context, Typed
<1>2. CASE o = Failed(NoBuffer)
  BY <1>2, NoBufferTyped DEF Failed
<1> QED BY <1>1, <1>2 DEF Initialise, IfAllocFails

LEMMA CStringTyped ==
  ASSUME NEW c, Typed(c)
  PROVE  CString(c) \in Seq(Symbols)
BY CStringIsSeq DEF Typed

-----------------------------------------------------------------------------
(* The statements of main.                                                 *)

LEMMA EasyInitInv ==
  ASSUME IInv, EasyInit
  PROVE  IInv'
<1> USE DEF IInv, EasyInit, Goto, strings, main, net, memory, Outside, Inside, Calls
<1>1. Control'
  BY DEF Control
<1>2. Pointers'
  BY DEF Control, Pointers
<1>3. Ledger'
  BY DEF Beginning, Control, Pointers, Ledger
<1>4. Request'
  BY DEF Control, Pointers, Request
<1>5. LostList'
  BY DEF Control, Pointers, LostList
<1>6. Buffers'
  BY DEF Control, Buffers
<1>7. Beginning'
  BY DEF Control, Beginning
<1>8. Ending'
  BY DEF Control, Ending
<1>9. NoFault'
  BY DEF Control, Ledger, NoFault
<1> QED BY <1>1, <1>2, <1>3, <1>4, <1>5, <1>6, <1>7, <1>8, <1>9

LEMMA EasyInitFailsInv ==
  ASSUME IInv, EasyInitFails
  PROVE  IInv'
<1> USE DEF IInv, EasyInitFails, Goto, strings, main, net, memory, Outside, Inside, Calls
<1>1. Control'
  BY DEF Control
<1>2. Pointers'
  BY DEF Control, Pointers
<1>3. Ledger'
  BY DEF Control, Pointers, Ledger
<1>4. Request'
  BY DEF Control, Pointers, Request
<1>5. LostList'
  BY DEF Control, Pointers, LostList
<1>6. Buffers'
  BY DEF Control, Buffers
<1>7. Beginning'
  BY DEF Control, Beginning
<1>8. Ending'
  <2>1. heap' = {"global"} /\ out' = <<Diagnostic>>
    BY DEF Beginning
  <2> QED BY <2>1 DEF Ending
<1>9. NoFault'
  BY DEF Control, Ledger, NoFault
<1> QED BY <1>1, <1>2, <1>3, <1>4, <1>5, <1>6, <1>7, <1>8, <1>9

LEMMA GotTokenInv ==
  ASSUME IInv, GotToken
  PROVE  IInv'
<1> USE DEF IInv, GotToken, Goto, strings, main, net, memory, Outside, Inside, Calls
<1>1. Control'
  BY DEF Control
<1>2. Pointers'
  BY DEF Control, Pointers
<1>3. Ledger'
  BY DEF Control, Pointers, Ledger
<1>4. Request'
  BY DEF Control, Pointers, Request
<1>5. LostList'
  BY DEF Control, Pointers, LostList
<1>6. Buffers'
  BY DEF Control, Buffers
<1>7. Beginning'
  BY DEF Control, Beginning
<1>8. Ending'
  BY DEF Control, Ending
<1>9. NoFault'
  BY DEF Control, Ledger, NoFault
<1> QED BY <1>1, <1>2, <1>3, <1>4, <1>5, <1>6, <1>7, <1>8, <1>9

LEMMA GotPfxInv ==
  ASSUME IInv, GotPfx
  PROVE  IInv'
<1> USE DEF IInv, GotPfx, Goto, strings, main, net, memory, Outside, Inside, Calls,
            Release
<1>1. Control'
  BY DEF Control
<1>2. Pointers'
  BY DEF Control, Pointers
<1>3. Ledger'
  BY DEF Control, Pointers, Ledger
<1>4. Request'
  BY DEF Control, Pointers, Request
<1>5. LostList'
  BY DEF Control, Pointers, LostList
<1>6. Buffers'
  BY DEF Control, Buffers
<1>7. Beginning'
  BY DEF Control, Beginning
<1>8. Ending'
  BY DEF Control, Ending
<1>9. NoFault'
  BY DEF Pointers, Control, Ledger, NoFault
<1> QED BY <1>1, <1>2, <1>3, <1>4, <1>5, <1>6, <1>7, <1>8, <1>9

LEMMA PrintPfxInv ==
  ASSUME IInv, PrintPfx
  PROVE  IInv'
<1> USE DEF IInv, PrintPfx, Goto, strings, main, net, memory, Outside, Inside,
            Calls, Release
<1>1. Control'
  BY DEF Control
<1>2. Pointers'
  BY DEF Control, Pointers
<1>3. Ledger'
  BY DEF Control, Pointers, Ledger
<1>4. Request'
  BY DEF Control, Pointers, Request
<1>5. LostList'
  BY DEF Control, Pointers, LostList
<1>6. Buffers'
  BY DEF Control, Buffers
<1>7. Beginning'
  BY DEF Control, Beginning
<1>8. Ending'
  BY DEF Control, Ending
<1>9. NoFault'
  BY DEF Pointers, Control, Ledger, NoFault
<1> QED BY <1>1, <1>2, <1>3, <1>4, <1>5, <1>6, <1>7, <1>8, <1>9

LEMMA CleanupInv ==
  ASSUME IInv, Cleanup
  PROVE  IInv'
<1> USE DEF IInv, Cleanup, Goto, strings, main, net, memory, Outside, Inside, Calls,
            Release
<1>1. Control'
  BY DEF Control
<1>2. Pointers'
  BY DEF Control, Pointers
<1>3. Ledger'
  BY DEF Control, Pointers, Ledger
<1>4. Request'
  BY DEF Control, Pointers, Request
<1>5. LostList'
  BY DEF Control, Pointers, LostList
<1>6. Buffers'
  BY DEF Control, Buffers
<1>7. Beginning'
  BY DEF Control, Beginning
<1>8. Ending'
  BY DEF Pointers, Ledger, Control, Ending
<1>9. NoFault'
  BY DEF Control, Ledger, NoFault
<1> QED BY <1>1, <1>2, <1>3, <1>4, <1>5, <1>6, <1>7, <1>8, <1>9

-----------------------------------------------------------------------------
(* The statements of a call.                                               *)

LEMMA InitBufInv ==
  ASSUME IInv, InitBuf
  PROVE  IInv'
<1> USE DEF IInv, InitBuf, Goto, strings, main, net, memory, Outside, Inside, Calls
<1>1. Control'
  BY DEF Control
<1>2. Pointers'
  BY DEF Control, Pointers
<1>3. Ledger'
  BY DEF Control, Pointers, Ledger
<1>4. Request'
  <2>1. \A o \in Initialise(BufSize) : o.rc = 0 => o.ctx.buf # NULL
    BY InitialiseTyped, GetPfxAssumption
  <2>2. UNCHANGED <<handle, list>> /\ (pc' = "init_hdr" => buf'.buf # NULL)
    BY <2>1
  <2>3. pc' \in {"init_hdr", "finish"}
    OBVIOUS
  <2> QED BY <2>2, <2>3 DEF Request
<1>5. LostList'
  BY DEF Control, Pointers, LostList
<1>6. Buffers'
  <2>1. \A o \in Initialise(BufSize) : Typed(o.ctx)
    BY InitialiseTyped, GetPfxAssumption
  <2>2. Typed(buf') /\ pc' \in {"init_hdr", "finish"} /\ UNCHANGED <<hdr, wire>>
    BY <2>1
  <2> QED BY <2>2 DEF Buffers, Typed
<1>7. Beginning'
  BY DEF Control, Beginning
<1>8. Ending'
  BY DEF Control, Ending
<1>9. NoFault'
  BY DEF Control, Ledger, NoFault
<1> QED BY <1>1, <1>2, <1>3, <1>4, <1>5, <1>6, <1>7, <1>8, <1>9

LEMMA InitHdrInv ==
  ASSUME IInv, InitHdr
  PROVE  IInv'
<1> USE DEF IInv, InitHdr, Goto, strings, main, net, memory, Outside, Inside, Calls
<1>1. Control'
  BY DEF Control
<1>2. Pointers'
  BY DEF Control, Pointers
<1>3. Ledger'
  BY DEF Control, Pointers, Ledger
<1>4. Request'
  BY DEF Control, Pointers, Request
<1>5. LostList'
  BY DEF Control, Pointers, LostList
<1>6. Buffers'
  <2>1. \A o \in Initialise(HdrSize) : Typed(o.ctx)
    BY InitialiseTyped, GetPfxAssumption
  <2>2. Typed(hdr') /\ pc' \in {"headers", "finish"} /\ UNCHANGED <<buf, wire>>
    BY <2>1
  <2> QED BY <2>2 DEF Buffers, Typed
<1>7. Beginning'
  BY DEF Control, Beginning
<1>8. Ending'
  BY DEF Control, Ending
<1>9. NoFault'
  BY DEF Control, Ledger, NoFault
<1> QED BY <1>1, <1>2, <1>3, <1>4, <1>5, <1>6, <1>7, <1>8, <1>9

LEMMA BuildTokenHeadersInv ==
  ASSUME IInv, BuildTokenHeaders
  PROVE  IInv'
<1> USE DEF IInv, BuildTokenHeaders, Goto, strings, main, net, memory, Outside,
            Inside, Calls, SetHeaders
<1>1. Control'
  BY DEF Control
<1>2. Pointers'
  BY DEF Control, Pointers
<1>3. Ledger'
  BY DEF Control, Pointers, Ledger
<1>4. Request'
  BY DEF Control, Pointers, Request
<1>5. LostList'
  BY DEF Control, Pointers, LostList
<1>6. Buffers'
  BY DEF Control, Buffers
<1>7. Beginning'
  BY DEF Control, Beginning
<1>8. Ending'
  BY DEF Control, Ending
<1>9. NoFault'
  BY DEF Control, Ledger, NoFault
<1> QED BY <1>1, <1>2, <1>3, <1>4, <1>5, <1>6, <1>7, <1>8, <1>9

(* What is lost is noted: there are no headers to be sent.                 *)
LEMMA BuildPfxHeadersInv ==
  ASSUME IInv, BuildPfxHeaders
  PROVE  IInv'
<1> USE DEF IInv, BuildPfxHeaders, Goto, strings, main, net, memory, Outside,
            Inside, Calls, SetHeaders
<1>1. Control'
  BY DEF Control
<1>2. Pointers'
  BY DEF Control, Pointers
<1>3. Ledger'
  BY DEF Control, Pointers, Ledger
<1>4. Request'
  BY DEF Control, Pointers, Request
<1>5. LostList'
  BY DEF Control, Pointers, LostList
<1>6. Buffers'
  BY DEF Control, Buffers
<1>7. Beginning'
  BY DEF Control, Beginning
<1>8. Ending'
  BY DEF Control, Ending
<1>9. NoFault'
  BY DEF Pointers, Control, Ledger, NoFault
<1> QED BY <1>1, <1>2, <1>3, <1>4, <1>5, <1>6, <1>7, <1>8, <1>9

(* The options point to the call's own list and buffer.                    *)
LEMMA PerformInv ==
  ASSUME IInv, Perform
  PROVE  IInv'
<1> USE DEF IInv, Perform, Goto, strings, main, net, memory, Outside, Inside, Calls,
            SetOptions, OptionsLive
<1>1. Control'
  BY DEF Control
<1>2. Pointers'
  BY DEF Control, Pointers
<1>3. Ledger'
  BY DEF Control, Pointers, Ledger
<1>4. Request'
  BY DEF Control, Pointers, Request
<1>5. LostList'
  <2>1. sent' = [f \in Calls |-> sent'[f]]
    BY DEF LostList
  <2>2. handle'.headers = handle.headers
    BY DEF Request
  <2>3. ASSUME "lost list" \in heap PROVE fn = "pfx" /\ sent'["pfx"] = <<>>
    <3>1. fn = "pfx" /\ list = NULL
      BY <2>3 DEF LostList
    <3>2. handle'.headers = NULL
      BY <2>2, <3>1 DEF Request
    <3> QED BY <3>1, <3>2 DEF LostList
  <2>4. UNCHANGED <<fn, heap>> /\ pc' = "transfer"
    OBVIOUS
  <2> QED BY <2>1, <2>3, <2>4 DEF LostList
<1>6. Buffers'
  <2>1. wire' \in Seq(Symbols)
    BY GetPfxAssumption
  <2> QED BY <2>1 DEF Buffers, Typed
<1>7. Beginning'
  BY DEF Control, Beginning
<1>8. Ending'
  BY DEF Control, Ending
<1>9. NoFault'
  <2>1. /\ handle'.headers = handle.headers /\ handle'.sink = fn
    BY DEF Request
  <2>2. handle.headers = IF list = NULL THEN NULL ELSE fn
    BY DEF Request
  <2>3. handle.headers = fn => list # NULL
    BY <2>2, GetPfxAssumption DEF Control
  <2>4. OptionsLive(handle')
    BY <2>1, <2>2, <2>3 DEF Control, Ledger, Request
  <2>5. fault' = (fault \/ ~OptionsLive(handle'))
    OBVIOUS
  <2> QED BY <2>4, <2>5 DEF NoFault
<1> QED BY <1>1, <1>2, <1>3, <1>4, <1>5, <1>6, <1>7, <1>8, <1>9

LEMMA DeliverInv ==
  ASSUME IInv, NEW n \in 1..Len(wire), Deliver(n)
  PROVE  IInv'
<1> USE DEF IInv, Deliver, Goto, strings, main, net, memory, Outside, Inside, Calls
<1>1. Control'
  BY DEF Control
<1>2. Pointers'
  BY DEF Control, Pointers
<1>3. Ledger'
  BY DEF Control, Pointers, Ledger
<1>4. Request'
  BY DEF Control, Pointers, Request
<1>5. LostList'
  BY DEF Control, Pointers, LostList
<1>6. Buffers'
  <2>1. n \in Nat /\ SubSeq(wire, 1, n) \in Seq(Symbols)
        /\ SubSeq(wire, n + 1, Len(wire)) \in Seq(Symbols)
    BY DEF Buffers
  <2>2. ASSUME NEW o \in WriteCallback(n) PROVE Typed(o.ctx)
    <3>1. o = Failed(buf) \/ o \in AppendString(buf, SubSeq(wire, 1, n))
      BY DEF WriteCallback
    <3>2. CASE o = Failed(buf)
      BY <3>2 DEF Failed, Buffers
    <3>3. CASE o \in AppendString(buf, SubSeq(wire, 1, n))
      BY <2>1, <3>3, AppendStringTyped DEF Buffers
    <3> QED BY <3>1, <3>2, <3>3
  <2>3. Typed(buf') /\ pc' \in {"transfer", "finish"} /\ UNCHANGED hdr
        /\ wire' = SubSeq(wire, n + 1, Len(wire))
    BY <2>2
  <2> QED BY <2>1, <2>3 DEF Buffers, Typed
<1>7. Beginning'
  BY DEF Control, Beginning
<1>8. Ending'
  BY DEF Control, Ending
<1>9. NoFault'
  BY DEF Control, Ledger, NoFault
<1> QED BY <1>1, <1>2, <1>3, <1>4, <1>5, <1>6, <1>7, <1>8, <1>9

LEMMA TransferDoneInv ==
  ASSUME IInv, TransferDone
  PROVE  IInv'
<1> USE DEF IInv, TransferDone, Goto, strings, main, net, memory, Outside, Inside, Calls
<1>1. Control'
  BY DEF Control
<1>2. Pointers'
  BY DEF Control, Pointers
<1>3. Ledger'
  BY DEF Control, Pointers, Ledger
<1>4. Request'
  BY DEF Control, Pointers, Request
<1>5. LostList'
  BY DEF Control, Pointers, LostList
<1>6. Buffers'
  BY DEF Control, Buffers
<1>7. Beginning'
  BY DEF Control, Beginning
<1>8. Ending'
  BY DEF Control, Ending
<1>9. NoFault'
  BY DEF Control, Ledger, NoFault
<1> QED BY <1>1, <1>2, <1>3, <1>4, <1>5, <1>6, <1>7, <1>8, <1>9

LEMMA TransferFailsInv ==
  ASSUME IInv, TransferFails
  PROVE  IInv'
<1> USE DEF IInv, TransferFails, Goto, strings, main, net, memory, Outside, Inside, Calls
<1>1. Control'
  BY DEF Control
<1>2. Pointers'
  BY DEF Control, Pointers
<1>3. Ledger'
  BY DEF Control, Pointers, Ledger
<1>4. Request'
  BY DEF Control, Pointers, Request
<1>5. LostList'
  BY DEF Control, Pointers, LostList
<1>6. Buffers'
  BY DEF Control, Buffers
<1>7. Beginning'
  BY DEF Control, Beginning
<1>8. Ending'
  BY DEF Control, Ending
<1>9. NoFault'
  BY DEF Control, Ledger, NoFault
<1> QED BY <1>1, <1>2, <1>3, <1>4, <1>5, <1>6, <1>7, <1>8, <1>9

LEMMA TimeoutInv ==
  ASSUME IInv, Timeout
  PROVE  IInv'
<1> USE DEF IInv, Timeout, Goto, strings, main, net, memory, Outside, Inside, Calls
<1>1. Control'
  BY DEF Control
<1>2. Pointers'
  BY DEF Control, Pointers
<1>3. Ledger'
  BY DEF Control, Pointers, Ledger
<1>4. Request'
  BY DEF Control, Pointers, Request
<1>5. LostList'
  BY DEF Control, Pointers, LostList
<1>6. Buffers'
  BY DEF Control, Buffers
<1>7. Beginning'
  BY DEF Control, Beginning
<1>8. Ending'
  BY DEF Control, Ending
<1>9. NoFault'
  BY DEF Control, Ledger, NoFault
<1> QED BY <1>1, <1>2, <1>3, <1>4, <1>5, <1>6, <1>7, <1>8, <1>9

(* A document is not the null pointer.                                     *)
LEMMA DecodeInv ==
  ASSUME IInv, Decode
  PROVE  IInv'
<1> USE DEF IInv, Decode, Goto, strings, main, net, memory, Outside, Inside, Calls
<1>0. PICK o \in GetCString(buf) :
        /\ buf' = o.ctx
        /\ \/ /\ root' = CString(o.ctx) /\ heap' = heap \cup {"json"}
              /\ pc' \in {"extract", "finish"}
           \/ pc' = "finish" /\ UNCHANGED <<root, heap>>
  OBVIOUS
<1>a. Typed(o.ctx) /\ CString(o.ctx) \in Seq(Symbols)
  BY GetCStringTyped, CStringTyped DEF Buffers
<1>b. CString(o.ctx) # NULL
  BY <1>a, NotNull
<1>1. Control'
  BY DEF Control
<1>2. Pointers'
  BY DEF Control, Pointers
<1>3. Ledger'
  <2>1. UNCHANGED <<fn, list, result, auth, pfx>> /\ pc = "decode"
    OBVIOUS
  <2>2. list' = list /\ result' = NULL /\ pfx' = NULL /\ root = NULL
    BY <2>1 DEF Pointers
  <2>3. pc' \in {"extract", "finish"}
    BY <1>0
  <2>4. result = NULL /\ pfx = NULL
    BY <2>1, <2>2
  <2> HIDE DEF Decode
  <2>5. CASE heap' = heap \cup {"json"} /\ root' # NULL
    BY <2>1, <2>2, <2>3, <2>4, <2>5 DEF Ledger
  <2>6. CASE UNCHANGED <<root, heap>>
    BY <2>1, <2>2, <2>3, <2>4, <2>6 DEF Ledger
  <2> QED BY <1>0, <1>b, <2>5, <2>6
<1>4. Request'
  BY DEF Control, Pointers, Request
<1>5. LostList'
  <2>1. UNCHANGED <<fn, list, sent>> /\ pc = "decode"
    OBVIOUS
  <2>2. /\ pc' \in {"extract", "finish"}
        /\ "lost list" \in heap' => "lost list" \in heap
    BY <1>0
  <2> HIDE DEF Decode
  <2> QED BY <2>1, <2>2 DEF LostList
<1>6. Buffers'
  <2>1. UNCHANGED <<hdr, wire>> /\ Typed(buf')
    BY <1>0, <1>a
  <2> QED BY <1>0, <1>a, <2>1 DEF Control, Pointers, Buffers, Typed
<1>7. Beginning'
  BY DEF Control, Beginning
<1>8. Ending'
  BY DEF Control, Ending
<1>9. NoFault'
  BY DEF Control, Ledger, NoFault
<1> QED BY <1>1, <1>2, <1>3, <1>4, <1>5, <1>6, <1>7, <1>8, <1>9

LEMMA DecodeAbortsInv ==
  ASSUME IInv, DecodeAborts
  PROVE  IInv'
<1> USE DEF IInv, DecodeAborts, Goto, strings, main, net, memory, Outside, Inside, Calls
<1>1. Control'
  BY DEF Control
<1>2. Pointers'
  BY DEF Control, Pointers
<1>3. Ledger'
  BY DEF Control, Pointers, Ledger
<1>4. Request'
  BY DEF Control, Pointers, Request
<1>5. LostList'
  BY DEF Control, Pointers, LostList
<1>6. Buffers'
  BY DEF Control, Buffers
<1>7. Beginning'
  BY DEF Control, Beginning
<1>8. Ending'
  BY DEF Control, Ending
<1>9. NoFault'
  BY DEF Control, Ledger, NoFault
<1> QED BY <1>1, <1>2, <1>3, <1>4, <1>5, <1>6, <1>7, <1>8, <1>9

LEMMA ExtractTokenInv ==
  ASSUME IInv, ExtractToken
  PROVE  IInv'
<1> USE DEF IInv, ExtractToken, Goto, strings, main, net, memory, Outside, Inside, Calls
<1>1. Control'
  BY DEF Control
<1>2. Pointers'
  BY DEF Control, Pointers
<1>3. Ledger'
  BY DEF Control, Pointers, Ledger
<1>4. Request'
  BY DEF Control, Pointers, Request
<1>5. LostList'
  BY DEF Control, Pointers, LostList
<1>6. Buffers'
  <2>1. <<Bearer>> \in Seq(Symbols) /\ Inner(root) \in Seq(Symbols)
    BY JunkIsSymbol DEF Buffers, Inner
  <2>2. ASSUME NEW o \in AppendBoth(hdr, <<Bearer>>, Inner(root)) PROVE Typed(o.ctx)
    <3>1. PICK a \in AppendString(hdr, <<Bearer>>) :
            o \in (IF a.rc = 0 THEN AppendString(a.ctx, Inner(root)) ELSE {a})
      BY DEF AppendBoth
    <3>2. Typed(a.ctx)
      BY <2>1, AppendStringTyped DEF Buffers
    <3> QED BY <2>1, <3>1, <3>2, AppendStringTyped
  <2>3. Typed(hdr') /\ pc' \in {"detach", "finish"} /\ UNCHANGED <<buf, wire>>
    BY <2>2
  <2> QED BY <2>3 DEF Buffers, Typed
<1>7. Beginning'
  BY DEF Control, Beginning
<1>8. Ending'
  BY DEF Control, Ending
<1>9. NoFault'
  BY DEF Control, Ledger, NoFault
<1> QED BY <1>1, <1>2, <1>3, <1>4, <1>5, <1>6, <1>7, <1>8, <1>9

LEMMA ExtractPfxInv ==
  ASSUME IInv, ExtractPfx
  PROVE  IInv'
<1> USE DEF IInv, ExtractPfx, Goto, strings, main, net, memory, Outside, Inside, Calls
<1>1. Control'
  BY DEF Control
<1>2. Pointers'
  BY DEF Control, Pointers
<1>3. Ledger'
  BY DEF Control, Pointers, Ledger
<1>4. Request'
  BY DEF Control, Pointers, Request
<1>5. LostList'
  BY DEF Control, Pointers, LostList
<1>6. Buffers'
  <2>1. Inner(root) \in Seq(Symbols)
    BY DEF Buffers, Inner
  <2>2. \A o \in AppendString(hdr, Inner(root)) : Typed(o.ctx)
    BY <2>1, AppendStringTyped DEF Buffers
  <2>3. Typed(hdr') /\ pc' = "detach" /\ UNCHANGED <<buf, wire>>
    BY <2>2
  <2> QED BY <2>3 DEF Buffers, Typed
<1>7. Beginning'
  BY DEF Control, Beginning
<1>8. Ending'
  BY DEF Control, Ending
<1>9. NoFault'
  BY DEF Control, Ledger, NoFault
<1> QED BY <1>1, <1>2, <1>3, <1>4, <1>5, <1>6, <1>7, <1>8, <1>9

(* What is handed over is a string, so main can tell it from a failure.    *)
LEMMA DetachInv ==
  ASSUME IInv, Detach
  PROVE  IInv'
<1> USE DEF IInv, Detach, Goto, strings, main, net, memory, Outside, Inside, Calls
<1>0. result' # NULL
  <2>1. PICK o \in DetachCString(hdr) : result' = CString(o.ctx)
    OBVIOUS
  <2>2. CString(o.ctx) \in Seq(Symbols)
    BY DetachCStringTyped, CStringTyped DEF Buffers
  <2> QED BY <2>1, <2>2, NotNull
<1>a. /\ pc = "detach" /\ pc' = "finish" /\ hdr' = NoBuffer
      /\ heap' = heap \cup {Own(fn)}
      /\ UNCHANGED <<fn, buf, list, root, auth, pfx, res, out, handle, wire, got, sent, fault>>
  OBVIOUS
<1> HIDE DEF Detach
<1>1. Control'
  BY <1>0, <1>a DEF Own, Control
<1>2. Pointers'
  BY <1>0, <1>a DEF Own, Control, Pointers
<1>3. Ledger'
  BY <1>0, <1>a DEF Own, Control, Pointers, Ledger
<1>4. Request'
  BY <1>0, <1>a DEF Own, Control, Pointers, Request
<1>5. LostList'
  BY <1>0, <1>a DEF Own, Control, Pointers, LostList
<1>6. Buffers'
  BY <1>a, NoBufferTyped DEF Typed, Control, Buffers
<1>7. Beginning'
  BY <1>0, <1>a DEF Own, Control, Beginning
<1>8. Ending'
  BY <1>0, <1>a DEF Own, Control, Ending
<1>9. NoFault'
  BY <1>0, <1>a DEF Own, Control, Ledger, NoFault
<1> QED BY <1>1, <1>2, <1>3, <1>4, <1>5, <1>6, <1>7, <1>8, <1>9

LEMMA ReturnInv ==
  ASSUME IInv, Return
  PROVE  IInv'
<1> USE DEF IInv, Return, Goto, strings, main, net, memory, Outside, Inside, Calls,
            Release, Held
<1>1. Control'
  BY DEF Control
<1>2. Pointers'
  BY DEF Control, Pointers
<1>3. Ledger'
  BY DEF Control, Pointers, Ledger
<1>4. Request'
  BY DEF Control, Pointers, Request
<1>5. LostList'
  BY DEF Control, Pointers, LostList
<1>6. Buffers'
  BY NoBufferTyped DEF Typed, Control, Buffers
<1>7. Beginning'
  BY DEF Control, Beginning
<1>8. Ending'
  BY DEF Control, Ending
<1>9. NoFault'
  BY DEF Control, Ledger, NoFault
<1> QED BY <1>1, <1>2, <1>3, <1>4, <1>5, <1>6, <1>7, <1>8, <1>9

-----------------------------------------------------------------------------

LEMMA InitInv == Init => IInv
<1> SUFFICES ASSUME Init PROVE IInv
  OBVIOUS
<1>1. Control /\ Pointers /\ Ledger /\ Request /\ LostList /\ Beginning /\ Ending /\ NoFault
  BY DEF Init, Control, Pointers, Ledger, Request, LostList, Beginning, Ending, NoFault,
         Outside, Inside, Calls
<1>2. Buffers
  <2>1. <<>> \in Seq(Symbols)
    OBVIOUS
  <2> QED BY <2>1, NoBufferTyped DEF Init, Buffers
<1> QED BY <1>1, <1>2 DEF IInv

LEMMA StutterInv ==
  ASSUME IInv, UNCHANGED vars
  PROVE  IInv'
<1> USE DEF vars, strings, main, net, memory
<1>1. Control' /\ Pointers' /\ Ledger'
  BY DEF IInv, Control, Pointers, Ledger
<1>2. Request' /\ LostList'
  BY DEF IInv, Request, LostList
<1>3. Buffers'
  BY DEF IInv, Buffers, Typed
<1>4. Beginning' /\ Ending' /\ NoFault'
  BY DEF IInv, Beginning, Ending, NoFault
<1> QED BY <1>1, <1>2, <1>3, <1>4 DEF IInv

LEMMA StepInv == IInv /\ [Next]_vars => IInv'
<1> SUFFICES ASSUME IInv, [Next]_vars PROVE IInv'
  OBVIOUS
<1>1. CASE UNCHANGED vars
  BY <1>1, StutterInv
<1>2. CASE Program
  BY <1>2, EasyInitInv, EasyInitFailsInv, InitBufInv, InitHdrInv, BuildTokenHeadersInv,
     BuildPfxHeadersInv, PerformInv, DecodeInv, DecodeAbortsInv, ExtractTokenInv,
     ExtractPfxInv, DetachInv, ReturnInv, GotTokenInv, GotPfxInv, PrintPfxInv, CleanupInv
     DEF Program
<1>3. CASE Network
  BY <1>3, DeliverInv, TransferDoneInv, TransferFailsInv DEF Network
<1>4. CASE Timeout
  BY <1>4, TimeoutInv
<1> QED BY <1>1, <1>2, <1>3, <1>4 DEF Next

LEMMA Invariance == Spec => []IInv
BY InitInv, StepInv, PTL DEF Spec

(* Nothing is freed twice, and curl never follows a pointer that an        *)
(* earlier call has left on the handle.                                    *)
THEOREM NothingStale == Spec => []NoFault
<1>1. IInv => NoFault
  BY DEF IInv
<1> QED BY <1>1, Invariance, PTL

(* Whatever fails on the way, all is released when main returns, but for a *)
(* list that curl_slist_append made it lose and, without a handle, curl's  *)
(* global state.                                                           *)
THEOREM NothingKept == Spec => []AllReleased
<1>1. IInv => AllReleased
  BY DEF IInv, AllReleased, Ending, LostList, Buffers, Outside
<1> QED BY <1>1, Invariance, PTL

-----------------------------------------------------------------------------
(* What the program knows of the answers, and what it makes of them.       *)

Clean == Symbols \ {Junk}

(* c is in use, holds the text t and has a cell to spare.                  *)
Holds(c, t) ==
  /\ c.buf \in Blocks
  /\ c.pos = Len(t) /\ c.pos < c.size
  /\ \A i \in 1..Len(t) : c.mem[i - 1] = t[i]

(* Between the servers and the write callback nothing is lost.             *)
Traffic ==
  /\ got \in [Calls -> Seq(Clean)] /\ wire \in Seq(Clean)
  /\ fn = "token" => got["pfx"] = <<>> /\ sent["pfx"] = NULL
  /\ pc \in {"start", "init_buf", "init_hdr", "headers", "perform"} => got[fn] = <<>>
  /\ pc = "transfer" => got[fn] \o wire \in Bodies

Body ==
  /\ buf.pos <= MaxBody
  /\ pc \in {"init_hdr", "headers", "perform", "transfer", "decode"} => Holds(buf, got[fn])

Document ==
  pc \in {"extract", "detach"} => root = UpToNUL(got[fn]) /\ HasString(root, Member(fn))

(* What a call returns, given that its server answered.                    *)
Results(f) ==
  IF f = "token" THEN {<<Bearer>> \o Answered("token")}
  ELSE {Answered("pfx")} \cup
       IF AllocMayFail /\ Len(Answered("pfx")) >= HdrSize THEN {<<>>} ELSE {}

Header ==
  /\ pc \in {"headers", "perform", "transfer", "decode", "extract"} =>
       Holds(hdr, <<>>) /\ hdr.size = HdrSize
  /\ pc = "detach" => \E t \in Results(fn) : Holds(hdr, t)

Returned(f, r) == r # NULL => Answered(f) # NULL /\ r \in Results(f)

Values == Returned(fn, result) /\ Returned("token", auth) /\ Returned("pfx", pfx)

Lists ==
  (IF fn = "token" THEN {<<MetadataTrue>>} ELSE {<<auth, AcceptJson>>})
    \cup IF ~AllocMayFail THEN {} ELSE IF fn = "token" THEN {NULL} ELSE {<<AcceptJson>>, NULL}

Sending == TokenInRequest /\ (pc = "perform" => list \in Lists)

Outcome ==
  /\ pc \notin {"cleanup", "done", "aborted"} => res = 0 /\ out = <<>>
  /\ pc = "aborted" => res = 1 /\ out = <<>>
  /\ pc = "cleanup" => IF out = <<>> THEN res = 1 ELSE res = 0

Story == /\ Traffic /\ Body /\ Document /\ Header /\ Values /\ Sending /\ Outcome

-----------------------------------------------------------------------------
(* The operations on a dynstring that holds a text.                        *)

LEMMA HoldsNothing ==
  ASSUME NEW n \in Nat \ {0}, NEW o \in Initialise(n), o.rc = 0
  PROVE  Holds(o.ctx, <<>>) /\ o.ctx.size = n
<1>1. o # Failed(NoBuffer)
  BY DEF Failed
<1>2. PICK b \in Blocks : o = Ok(Context(b, n, 0, [i \in 0..(n - 1) |-> Junk]))
  BY <1>1 DEF Initialise, IfAllocFails
<1> QED BY <1>2 DEF Ok, Context, Holds

LEMMA WriteHolds ==
  ASSUME NEW c, Typed(c), NEW t \in Seq(Symbols), Holds(c, t), NEW s \in Seq(Symbols),
         Len(t) + Len(s) < c.size
  PROVE  Holds(Write(c, s), t \o s)
<1> DEFINE d == Write(c, s)
<1>1. /\ d.buf = c.buf /\ d.size = c.size /\ d.pos = c.pos + Len(s)
      /\ d.mem = [i \in 0..(c.size - 1) |->
                    IF i \in c.pos..(c.pos + Len(s) - 1) THEN s[i - c.pos + 1] ELSE c.mem[i]]
  BY DEF Write, Context
<1>2. Len(t) \in Nat /\ Len(s) \in Nat /\ c.pos = Len(t) /\ c.size \in Nat
  BY DEF Typed, Holds
<1>3. Len(t \o s) = Len(t) + Len(s)
  OBVIOUS
<1>4. ASSUME NEW i \in 1..Len(t \o s) PROVE d.mem[i - 1] = (t \o s)[i]
  <2>1. i - 1 \in 0..(c.size - 1)
    BY <1>2, <1>3
  <2>2. CASE i <= Len(t)
    <3>1. (t \o s)[i] = t[i] /\ c.mem[i - 1] = t[i]
      BY <2>2, <1>2 DEF Holds
    <3>2. i - 1 \notin c.pos..(c.pos + Len(s) - 1)
      BY <2>2, <1>2
    <3> QED BY <1>1, <2>1, <3>1, <3>2
  <2>3. CASE i > Len(t)
    <3>1. (t \o s)[i] = s[i - Len(t)]
      BY <2>3, <1>2, <1>3
    <3>2. i - 1 \in c.pos..(c.pos + Len(s) - 1) /\ (i - 1) - c.pos + 1 = i - Len(t)
      BY <2>3, <1>2, <1>3
    <3> QED BY <1>1, <2>1, <3>1, <3>2
  <2> QED BY <1>2, <2>2, <2>3
<1> HIDE DEF d
<1>5. d.buf \in Blocks /\ d.pos = Len(t \o s) /\ d.pos < d.size
  BY <1>1, <1>2, <1>3 DEF Holds
<1>6. Holds(d, t \o s)
  BY <1>4, <1>5 DEF Holds
<1> QED BY <1>6 DEF d

LEMMA ResizedHolds ==
  ASSUME NEW c, Typed(c), NEW t \in Seq(Symbols), Holds(c, t), NEW n \in Nat, n >= c.size,
         NEW b \in Blocks
  PROVE  Holds(Resized(c, n, b), t) /\ Typed(Resized(c, n, b)) /\ Resized(c, n, b).size = n
<1> DEFINE d == Resized(c, n, b)
<1>1. /\ d.buf = b /\ d.size = n /\ d.pos = c.pos
      /\ d.mem = [i \in 0..(n - 1) |-> IF i < c.size THEN c.mem[i] ELSE Junk]
  BY DEF Resized, Context
<1>2. Len(t) \in Nat /\ c.pos = Len(t) /\ c.size \in Nat /\ c.pos < c.size
  BY DEF Typed, Holds
<1>3. \A i \in 1..Len(t) : d.mem[i - 1] = t[i]
  BY <1>1, <1>2 DEF Holds
<1>4. \A i \in 0..(n - 1) : (IF i < c.size THEN c.mem[i] ELSE Junk) \in Symbols
  BY JunkIsSymbol DEF Typed
<1> HIDE DEF d
<1>5. Typed(d)
  BY <1>1, <1>2, <1>4 DEF Typed
<1>6. Holds(d, t)
  BY <1>1, <1>2, <1>3 DEF Holds
<1> QED BY <1>1, <1>5, <1>6 DEF d

(* dynstring_appendstring adds the whole string, or fails and adds nothing.*)
LEMMA AppendHolds ==
  ASSUME NEW c, Typed(c), NEW t \in Seq(Symbols), Holds(c, t), NEW s \in Seq(Symbols),
         NEW o \in AppendString(c, s)
  PROVE  \/ o.rc = 0 /\ Holds(o.ctx, t \o s)
         \/ o.rc = -1 /\ o.ctx = c /\ AllocMayFail /\ Len(t) + Len(s) >= c.size
<1>0. Len(t) \in Nat /\ Len(s) \in Nat /\ c.pos = Len(t) /\ c.size \in Nat
  BY DEF Typed, Holds
<1>1. CASE s = <<>>
  <2>1. o = Ok(c) /\ t \o s = t
    BY <1>1 DEF AppendString
  <2> QED BY <2>1 DEF Ok
<1>2. CASE s # <<>> /\ Len(t) + Len(s) < c.size
  <2>1. o = Ok(Write(c, s))
    BY <1>0, <1>2 DEF AppendString, GrowAndWrite, Ok
  <2> QED BY <1>2, <2>1, WriteHolds DEF Ok
<1>3. CASE s # <<>> /\ ~(Len(t) + Len(s) < c.size)
  <2>1. PICK g \in Realloc(c, c.size + Len(s)) :
          o = IF g.rc = 0 THEN Ok(Write(g.ctx, s)) ELSE g
    BY <1>0, <1>3 DEF AppendString, GrowAndWrite
  <2>2. CASE g \in IfAllocFails(c)
    BY <1>0, <1>3, <2>1, <2>2 DEF IfAllocFails, Failed
  <2>3. CASE \E b \in Blocks : g = Ok(Resized(c, c.size + Len(s), b))
    <3>1. PICK b \in Blocks : g = Ok(Resized(c, c.size + Len(s), b))
      BY <2>3
    <3> DEFINE d == Resized(c, c.size + Len(s), b)
    <3>2. Holds(d, t) /\ Typed(d) /\ d.size = c.size + Len(s)
      BY <1>0, ResizedHolds
    <3>3. g.rc = 0 /\ g.ctx = d
      BY <3>1 DEF Ok
    <3> HIDE DEF d
    <3>4. Len(t) + Len(s) < d.size
      BY <1>0, <3>2 DEF Holds
    <3>5. Holds(Write(d, s), t \o s)
      BY <3>2, <3>4, WriteHolds
    <3> QED BY <2>1, <3>3, <3>5 DEF Ok
  <2> QED BY <2>2, <2>3 DEF Realloc
<1> QED BY <1>1, <1>2, <1>3

(* d reads as the text t, if t is a C string.                              *)
Ends(d, t) ==
  /\ d.size \in Nat /\ Len(t) < d.size
  /\ d.mem[Len(t)] = NUL
  /\ \A i \in 1..Len(t) : d.mem[i - 1] = t[i]

(* The terminator goes into the free cell, so nothing moves.               *)
LEMMA AppendNULHolds ==
  ASSUME NEW c, Typed(c), NEW t \in Seq(Symbols), Holds(c, t), NEW a \in AppendChar(c, NUL)
  PROVE  /\ a.rc = 0 /\ a.ctx.buf = c.buf /\ a.ctx.size = c.size /\ a.ctx.pos = c.pos + 1
         /\ Ends(a.ctx, t)
<1>0. Len(t) \in Nat /\ c.pos = Len(t) /\ c.size \in Nat /\ c.pos < c.size
  BY DEF Typed, Holds
<1>1. a = Ok(Write(c, <<NUL>>))
  BY <1>0 DEF AppendChar, GrowAndWrite, Ok
<1>2. /\ a.rc = 0 /\ a.ctx.buf = c.buf /\ a.ctx.size = c.size /\ a.ctx.pos = c.pos + 1
      /\ a.ctx.mem = [i \in 0..(c.size - 1) |->
                        IF i \in c.pos..(c.pos + 1 - 1) THEN <<NUL>>[i - c.pos + 1] ELSE c.mem[i]]
  BY <1>1 DEF Ok, Write, Context
<1>3. a.ctx.mem[Len(t)] = NUL
  BY <1>0, <1>2
<1>4. \A i \in 1..Len(t) : a.ctx.mem[i - 1] = t[i]
  BY <1>0, <1>2 DEF Holds
<1> QED BY <1>0, <1>2, <1>3, <1>4 DEF Ends

LEMMA GetCStringHolds ==
  ASSUME NEW c, Typed(c), NEW t \in Seq(Symbols), Holds(c, t), NEW o \in GetCString(c)
  PROVE  Holds(o.ctx, t) /\ Ends(o.ctx, t)
<1>0. Len(t) \in Nat /\ c.pos = Len(t) /\ c.size \in Nat /\ c.pos < c.size /\ c.buf \in Blocks
  BY DEF Typed, Holds
<1>1. CASE \E a \in AppendChar(c, NUL) : o.ctx = StepBack(a.ctx)
  <2>1. PICK a \in AppendChar(c, NUL) : o.ctx = StepBack(a.ctx)
    BY <1>1
  <2>2. /\ a.ctx.buf = c.buf /\ a.ctx.size = c.size /\ a.ctx.pos = c.pos + 1
        /\ Ends(a.ctx, t)
    BY AppendNULHolds
  <2>3. /\ o.ctx.buf = c.buf /\ o.ctx.size = c.size /\ o.ctx.pos = c.pos
        /\ o.ctx.mem = a.ctx.mem
    BY <1>0, <2>1, <2>2 DEF StepBack, Context
  <2> QED BY <1>0, <2>2, <2>3 DEF Holds, Ends
<1>2. CASE o.ctx = Context(c.buf, c.size, c.pos, [c.mem EXCEPT ![c.pos] = NUL])
  <2>1. /\ o.ctx.buf = c.buf /\ o.ctx.size = c.size /\ o.ctx.pos = c.pos
        /\ o.ctx.mem = [c.mem EXCEPT ![c.pos] = NUL]
    BY <1>2 DEF Context
  <2>2. o.ctx.mem[Len(t)] = NUL /\ \A i \in 1..Len(t) : o.ctx.mem[i - 1] = c.mem[i - 1]
    BY <1>0, <2>1 DEF Typed
  <2> QED BY <1>0, <2>1, <2>2 DEF Holds, Ends
<1> QED BY <1>1, <1>2 DEF GetCString, Pointing, Ok

LEMMA DetachEnds ==
  ASSUME NEW c, Typed(c), NEW t \in Seq(Symbols), Holds(c, t), NEW o \in DetachCString(c)
  PROVE  Ends(o.ctx, t)
<1>0. PICK r \in UNION {Compact(a.ctx) : a \in AppendChar(c, NUL)} : o = Pointing(r, r.ctx.buf)
  BY DEF DetachCString
<1>1. PICK a \in AppendChar(c, NUL) : r \in Compact(a.ctx)
  OBVIOUS
<1>2. /\ a.ctx.size = c.size /\ a.ctx.pos = Len(t) + 1 /\ Ends(a.ctx, t) /\ Len(t) \in Nat
  BY AppendNULHolds DEF Holds
<1>3. o.ctx = r.ctx
  BY <1>0 DEF Pointing
<1>4. CASE r = Failed(a.ctx)
  BY <1>2, <1>3, <1>4 DEF Failed
<1>5. CASE \E b \in Blocks : r = Ok(Resized(a.ctx, a.ctx.pos + 1, b))
  <2>1. PICK b \in Blocks : r = Ok(Resized(a.ctx, a.ctx.pos + 1, b))
    BY <1>5
  <2>2. /\ o.ctx.size = Len(t) + 2
        /\ o.ctx.mem = [i \in 0..(Len(t) + 1) |-> IF i < a.ctx.size THEN a.ctx.mem[i] ELSE Junk]
    BY <1>2, <1>3, <2>1 DEF Ok, Resized, Context
  <2> QED BY <1>2, <2>2 DEF Ends
<1> QED BY <1>1, <1>4, <1>5 DEF Compact, Realloc, IfAllocFails

(* What strlen and strcpy find there.                                      *)
LEMMA EndsReads ==
  ASSUME NEW t \in Seq(Clean), NEW d, Ends(d, t)
  PROVE  CString(d) = UpToNUL(t)
<1>0. Len(t) \in Nat /\ d.size \in Nat /\ Len(t) < d.size
  BY DEF Ends
<1> DEFINE A == {k \in 1..d.size : \A j \in 0..(k - 1) : d.mem[j] \notin {NUL, Junk}}
           B == {k \in 1..Len(t) : \A j \in 1..k : t[j] # NUL}
<1>1. ASSUME NEW k \in A PROVE k \in B
  <2>1. k <= Len(t)
    <3> SUFFICES ASSUME k > Len(t) PROVE FALSE
      BY <1>0
    <3> QED BY <1>0, Len(t) \in 0..(k - 1) DEF Ends
  <2>2. ASSUME NEW j \in 1..k PROVE t[j] # NUL
    <3>1. j - 1 \in 0..(k - 1) /\ j \in 1..Len(t) /\ t[j] = d.mem[j - 1]
      BY <1>0, <2>1 DEF Ends
    <3> QED BY <3>1
  <2> QED BY <1>0, <2>1, <2>2
<1>2. ASSUME NEW k \in B PROVE k \in A
  <2>1. ASSUME NEW j \in 0..(k - 1) PROVE d.mem[j] \notin {NUL, Junk}
    <3>1. j + 1 \in 1..k /\ j + 1 \in 1..Len(t) /\ (j + 1) - 1 = j
      BY <1>0
    <3>2. d.mem[j] = t[j + 1] /\ t[j + 1] # NUL /\ t[j + 1] \in Clean
      BY <3>1 DEF Ends
    <3> QED BY <3>2 DEF Clean
  <2> QED BY <1>0, <2>1
<1>3. A = B
  BY <1>1, <1>2
<1>4. \A i \in B : d.mem[i - 1] = t[i]
  BY DEF Ends
<1>5. CString(d) = [i \in A |-> d.mem[i - 1]] /\ UpToNUL(t) = [i \in B |-> t[i]]
  BY DEF CString, UpToNUL
<1> HIDE DEF A, B
<1> QED BY <1>3, <1>4, <1>5

LEMMA NoNULWhole ==
  ASSUME NEW S, NEW t \in Seq(S), NUL \notin S
  PROVE  UpToNUL(t) = t
<1> DEFINE B == {k \in 1..Len(t) : \A j \in 1..k : t[j] # NUL}
<1>1. \A k \in 1..Len(t) : t[k] # NUL
  OBVIOUS
<1>2. B = 1..Len(t)
  BY <1>1
<1>3. UpToNUL(t) = [i \in B |-> t[i]]
  BY DEF UpToNUL
<1> HIDE DEF B
<1> QED BY <1>2, <1>3

(* It is the beginning of t.                                               *)
LEMMA UpToNULIsPrefix ==
  ASSUME NEW S, NEW t \in Seq(S)
  PROVE  /\ UpToNUL(t) \in Seq(S)
         /\ Len(UpToNUL(t)) \in 0..Len(t)
         /\ \A i \in 1..Len(UpToNUL(t)) : UpToNUL(t)[i] = t[i]
<1> DEFINE B == {k \in 1..Len(t) : \A j \in 1..k : t[j] # NUL}
<1>0. Len(t) \in Nat /\ \A i \in 1..Len(t) : t[i] \in S
  OBVIOUS
<1>1. B \in SUBSET (1..Len(t))
  OBVIOUS
<1>2. ASSUME NEW k \in B PROVE 1..k \subseteq B
  OBVIOUS
<1>3. UpToNUL(t) = [i \in B |-> t[i]]
  BY DEF UpToNUL
<1> HIDE DEF B
<1>4. PICK n \in 0..Len(t) : B = 1..n
  BY <1>0, <1>1, <1>2, Prefix
<1>5. UpToNUL(t) = [i \in 1..n |-> t[i]] /\ n \in Nat
  BY <1>3, <1>4
<1>6. \A i \in 1..n : t[i] \in S
  BY <1>0
<1>7. UpToNUL(t) \in Seq(S) /\ Len(UpToNUL(t)) = n
  BY <1>5, <1>6
<1> QED BY <1>5, <1>7

-----------------------------------------------------------------------------
(* Answers.                                                                *)

(* The value of a member has no NUL and no byte that was never written.    *)
LEMMA InnerIsPayload ==
  ASSUME NEW S, NEW t \in Seq(S), NEW o, HasString(t, o)
  PROVE  Inner(t) \in Seq(Payload) /\ Len(t) >= 2 /\ Len(Inner(t)) = Len(t) - 2
<1>1. Len(t) \in Nat /\ Len(t) >= 2
  BY DEF HasString, IsDocument
<1>2. \A i \in 2..(Len(t) - 1) : t[i] \in Payload
  BY DEF HasString, IsDocument
<1>3. /\ Inner(t) = [i \in 1..(Len(t) - 2) |-> t[i + 1]] /\ Len(Inner(t)) = Len(t) - 2
  BY <1>1 DEF Inner
<1>4. \A i \in 1..(Len(t) - 2) : t[i + 1] \in Payload
  BY <1>1, <1>2
<1> HIDE DEF Inner
<1> QED BY <1>1, <1>3, <1>4

LEMMA PayloadIsClean ==
  /\ NUL \notin Payload \cup {Bearer}
  /\ Payload \cup {Bearer} \subseteq Clean
  /\ Clean \subseteq Symbols
BY GetPfxAssumption DEF Clean, Symbols

(* What a call may return is a C string.                                   *)
LEMMA ResultsAreStrings ==
  ASSUME got \in [Calls -> Seq(Clean)], NEW f \in Calls, Answered(f) # NULL, NEW t \in Results(f)
  PROVE  t \in Seq(Clean) /\ UpToNUL(t) = t
<1> DEFINE S == Payload \cup {Bearer}
<1>1. /\ Answered(f) = Inner(UpToNUL(got[f]))
      /\ HasString(UpToNUL(got[f]), Member(f))
  BY DEF Answered
<1>2. UpToNUL(got[f]) \in Seq(Clean)
  BY UpToNULIsPrefix
<1>3. Answered(f) \in Seq(Payload)
  BY <1>1, <1>2, InnerIsPayload
<1>4. Answered(f) \in Seq(S) /\ <<Bearer>> \in Seq(S) /\ <<>> \in Seq(S)
  BY <1>3
<1>5. t \in Seq(S)
  <2>1. t \in {<<Bearer>> \o Answered(f), Answered(f), <<>>}
    BY DEF Results, Calls
  <2> HIDE DEF S
  <2>2. <<Bearer>> \o Answered(f) \in Seq(S)
    BY <1>4
  <2> QED BY <1>4, <2>1, <2>2
<1>6. t \in Seq(Clean)
  BY <1>5, PayloadIsClean
<1> QED BY <1>5, <1>6, NoNULWhole, PayloadIsClean

LEMMA ListOfOne ==
  ASSUME NEW S, NEW x \in S
  PROVE  <<x>> \in Seq(S)
OBVIOUS

LEMMA PairAppended ==
  ASSUME NEW x, NEW y
  PROVE  Append(<<x>>, y) = <<x, y>>
<1> DEFINE s == Append(<<x>>, y)
<1>1. <<x>> \in Seq({x, y}) /\ y \in {x, y} /\ Len(<<x>>) = 1 /\ <<x>>[1] = x
  OBVIOUS
<1>2. s \in Seq({x, y}) /\ Len(s) = 2 /\ s[1] = x /\ s[2] = y
  BY <1>1
<1> HIDE DEF s
<1>3. <<x, y>> \in Seq({x, y}) /\ Len(<<x, y>>) = 2 /\ <<x, y>>[1] = x /\ <<x, y>>[2] = y
  OBVIOUS
<1>4. s = <<x, y>>
  BY <1>2, <1>3
<1> QED BY <1>4 DEF s

LEMMA SameAnswer ==
  ASSUME NEW f, got'[f] = got[f]
  PROVE  Answered(f)' = Answered(f)
BY DEF Answered

LEMMA SameAnswers ==
  ASSUME UNCHANGED got, NEW f
  PROVE  Answered(f)' = Answered(f) /\ Results(f)' = Results(f)
<1>1. ASSUME NEW g PROVE Answered(g)' = Answered(g)
  BY DEF Answered
<1> QED BY <1>1 DEF Results

LEMMA SameRequests ==
  ASSUME UNCHANGED <<got, sent>>, TokenInRequest
  PROVE  TokenInRequest'
BY SameAnswers DEF TokenInRequest

LEMMA SameReturned ==
  ASSUME UNCHANGED got, NEW f, NEW VARIABLE r, Returned(f, r), UNCHANGED r
  PROVE  Returned(f, r)'
BY SameAnswers DEF Returned

LEMMA AuthIsString ==
  ASSUME Traffic, Values, auth # NULL
  PROVE  auth \in Seq(Symbols)
<1>1. /\ Answered("token") # NULL /\ auth \in Results("token") /\ "token" \in Calls
      /\ got \in [Calls -> Seq(Clean)]
  BY DEF Values, Returned, Traffic, Calls
<1>2. \A t \in Results("token") : t \in Seq(Clean)
  BY <1>1, ResultsAreStrings
<1>3. auth \in Seq(Clean)
  BY <1>1, <1>2
<1> QED BY <1>3, PayloadIsClean

-----------------------------------------------------------------------------
(* One lemma per action: the story goes on.                                *)

LEMMA EasyInitStory ==
  ASSUME IInv, Story, EasyInit
  PROVE  Story'
<1> USE DEF IInv, Story, Control, Pointers, EasyInit, Goto, strings, main, net,
            memory, Outside, Inside, Calls
<1>1. Traffic'
  BY DEF Traffic
<1>2. Body'
  BY DEF Body
<1>3. Document'
  BY DEF Document
<1>4. Header'
  BY SameAnswers DEF Header
<1>5. Values'
  BY SameAnswers DEF Values, Returned
<1>6. Sending'
  BY SameRequests DEF Sending, Lists
<1>7. Outcome'
  BY DEF Outcome
<1> QED BY <1>1, <1>2, <1>3, <1>4, <1>5, <1>6, <1>7

LEMMA EasyInitFailsStory ==
  ASSUME IInv, Story, EasyInitFails
  PROVE  Story'
<1> USE DEF IInv, Story, Control, Pointers, EasyInitFails, Goto, strings, main, net,
            memory, Outside, Inside, Calls
<1>1. Traffic'
  BY DEF Traffic
<1>2. Body'
  BY DEF Body
<1>3. Document'
  BY DEF Document
<1>4. Header'
  BY SameAnswers DEF Header
<1>5. Values'
  BY SameAnswers DEF Values, Returned
<1>6. Sending'
  BY SameRequests DEF Sending, Lists
<1>7. Outcome'
  BY DEF Outcome
<1> QED BY <1>1, <1>2, <1>3, <1>4, <1>5, <1>6, <1>7

LEMMA InitBufStory ==
  ASSUME IInv, Story, InitBuf
  PROVE  Story'
<1> USE DEF IInv, Story, Control, Pointers, InitBuf, Goto, strings, main, net,
            memory, Outside, Inside, Calls
<1>1. Traffic'
  BY DEF Traffic
<1>2. Body'
  <2>1. PICK o \in Initialise(BufSize) :
          buf' = o.ctx /\ pc' = IF o.rc = 0 THEN "init_hdr" ELSE "finish"
    OBVIOUS
  <2>2. buf'.pos = 0
    BY <2>1 DEF Initialise, IfAllocFails, Ok, Failed, NoBuffer, Context
  <2>3. o.rc = 0 => Holds(buf', <<>>)
    BY <2>1, HoldsNothing, GetPfxAssumption
  <2> QED BY <2>1, <2>2, <2>3, GetPfxAssumption DEF Body, Traffic
<1>3. Document'
  BY DEF Document
<1>4. Header'
  BY SameAnswers DEF Header
<1>5. Values'
  BY SameAnswers DEF Values, Returned
<1>6. Sending'
  BY SameRequests DEF Sending, Lists
<1>7. Outcome'
  BY DEF Outcome
<1> QED BY <1>1, <1>2, <1>3, <1>4, <1>5, <1>6, <1>7

LEMMA InitHdrStory ==
  ASSUME IInv, Story, InitHdr
  PROVE  Story'
<1> USE DEF IInv, Story, Control, Pointers, InitHdr, Goto, strings, main, net,
            memory, Outside, Inside, Calls
<1>1. Traffic'
  BY DEF Traffic
<1>2. Body'
  BY DEF Body
<1>3. Document'
  BY DEF Document
<1>4. Header'
  <2>1. PICK o \in Initialise(HdrSize) :
          hdr' = o.ctx /\ pc' = IF o.rc = 0 THEN "headers" ELSE "finish"
    OBVIOUS
  <2>2. o.rc = 0 => Holds(hdr', <<>>) /\ hdr'.size = HdrSize
    BY <2>1, HoldsNothing, GetPfxAssumption
  <2> QED BY <2>1, <2>2 DEF Header
<1>5. Values'
  BY SameAnswers DEF Values, Returned
<1>6. Sending'
  BY SameRequests DEF Sending, Lists
<1>7. Outcome'
  BY DEF Outcome
<1> QED BY <1>1, <1>2, <1>3, <1>4, <1>5, <1>6, <1>7

LEMMA BuildTokenHeadersStory ==
  ASSUME IInv, Story, BuildTokenHeaders
  PROVE  Story'
<1> USE DEF IInv, Story, Control, Pointers, BuildTokenHeaders, Goto, strings, main,
            net, memory, Outside, Inside, Calls
<1>0. /\ pc = "headers" /\ pc' = "perform" /\ fn = "token"
      /\ list' \in {<<MetadataTrue>>} \cup IF AllocMayFail THEN {NULL} ELSE {}
      /\ UNCHANGED <<fn, buf, hdr, root, result, main, wire, got, sent>>
  BY DEF SetHeaders, SlistAppend
<1> HIDE DEF BuildTokenHeaders
<1>1. Traffic'
  BY <1>0 DEF Traffic
<1>2. Body'
  BY <1>0 DEF Body
<1>3. Document'
  BY <1>0 DEF Document
<1>4. Header'
  BY <1>0, SameAnswers DEF Header
<1>5. Values'
  BY <1>0, SameAnswers DEF Values, Returned
<1>6. Sending'
  BY <1>0, SameRequests DEF Sending, Lists
<1>7. Outcome'
  BY <1>0 DEF Outcome
<1> QED BY <1>1, <1>2, <1>3, <1>4, <1>5, <1>6, <1>7

LEMMA BuildPfxHeadersStory ==
  ASSUME IInv, Story, BuildPfxHeaders
  PROVE  Story'
<1> USE DEF IInv, Story, Control, Pointers, BuildPfxHeaders, Goto, strings, main,
            net, memory, Outside, Inside, Calls
<1>0. /\ pc = "headers" /\ pc' = "perform" /\ fn = "pfx"
      /\ UNCHANGED <<fn, buf, hdr, root, result, main, wire, got, sent>>
  BY DEF SetHeaders
<1>a. list' \in {<<auth, AcceptJson>>} \cup IF AllocMayFail THEN {<<AcceptJson>>, NULL} ELSE {}
  <2>1. PICK l \in SlistAppend(NULL, auth) : list' \in SlistAppend(l, AcceptJson)
    BY DEF SetHeaders
  <2>2. CASE l = <<auth>>
    <3>1. Append(<<auth>>, AcceptJson) = <<auth, AcceptJson>>
      BY PairAppended
    <3>2. <<auth>> # NULL
      <4>1. auth # NULL
        BY <1>0
      <4>2. auth \in Seq(Symbols)
        BY <4>1, AuthIsString DEF Story
      <4>3. <<auth>> \in Seq(Seq(Symbols) \cup {MetadataTrue, AcceptJson})
        BY <4>2, ListOfOne
      <4> QED BY <4>3, GetPfxAssumption
    <3> QED BY <2>1, <2>2, <3>1, <3>2 DEF SlistAppend
  <2>3. CASE l = NULL /\ AllocMayFail
    BY <2>1, <2>3 DEF SlistAppend
  <2> QED BY <2>1, <2>2, <2>3 DEF SlistAppend
<1> HIDE DEF BuildPfxHeaders
<1>1. Traffic'
  BY <1>0 DEF Traffic
<1>2. Body'
  BY <1>0 DEF Body
<1>3. Document'
  BY <1>0 DEF Document
<1>4. Header'
  BY <1>0, SameAnswers DEF Header
<1>5. Values'
  BY <1>0, SameAnswers DEF Values, Returned
<1>6. Sending'
  BY <1>0, <1>a, SameRequests DEF Sending, Lists
<1>7. Outcome'
  BY <1>0 DEF Outcome
<1> QED BY <1>1, <1>2, <1>3, <1>4, <1>5, <1>6, <1>7

LEMMA PerformStory ==
  ASSUME IInv, Story, Perform
  PROVE  Story'
<1> USE DEF IInv, Story, Control, Pointers, Perform, Goto, strings, main, net,
            memory, Outside, Inside, Calls
<1>0. /\ pc = "perform" /\ pc' = "transfer" /\ wire' \in Bodies
      /\ sent' = [sent EXCEPT ![fn] = IF list = NULL THEN <<>> ELSE list]
      /\ UNCHANGED <<fn, strings, main, got>>
  BY GetPfxAssumption DEF SetOptions, Request
<1> HIDE DEF Perform
<1>1. Traffic'
  <2>1. wire' \in Seq(Clean)
    BY <1>0, GetPfxAssumption DEF Clean
  <2>2. got[fn] \o wire' = wire'
    BY <1>0, <2>1 DEF Traffic
  <2> QED BY <1>0, <2>1, <2>2 DEF Traffic, LostList
<1>2. Body'
  BY <1>0 DEF Body
<1>3. Document'
  BY <1>0 DEF Document
<1>4. Header'
  BY <1>0, SameAnswers DEF Header
<1>5. Values'
  BY <1>0, SameAnswers DEF Values, Returned
<1>6. Sending'
  <2>1. sent'["pfx"] # NULL => fn = "pfx" \/ sent["pfx"] # NULL
    BY <1>0 DEF LostList
  <2>2. sent' = [f \in Calls |-> IF f = fn THEN IF list = NULL THEN <<>> ELSE list ELSE sent[f]]
    BY <1>0 DEF LostList
  <2>3. list \in Lists /\ TokenInRequest
    BY <1>0 DEF Sending
  <2>4. fn = "pfx" => auth = <<Bearer>> \o Answered("token") /\ Answered("token") # NULL
    BY <1>0 DEF Values, Returned, Results
  <2>5. Answered("token")' = Answered("token")
    BY <1>0, SameAnswers
  <2> HIDE DEF IInv, Story, Control, Pointers
  <2>6. pc' # "perform" /\ fn \in Calls
    BY <1>0 DEF IInv, Control
  <2>7. list # NULL => list \in IF fn = "token" THEN {<<MetadataTrue>>}
                               ELSE {<<auth, AcceptJson>>} \cup IF AllocMayFail THEN {<<AcceptJson>>} ELSE {}
    BY <2>3 DEF Lists
  <2>8. list = NULL => AllocMayFail
    <3> DEFINE S == Seq(Symbols) \cup {MetadataTrue, AcceptJson}
    <3>1. fn = "pfx" => auth \in Seq(Symbols)
      BY <1>0, AuthIsString DEF Story, IInv, Pointers
    <3>2. <<MetadataTrue>> \in Seq(S) /\ (auth \in S => <<auth, AcceptJson>> \in Seq(S))
      OBVIOUS
    <3>3. NULL \notin Seq(S)
      BY GetPfxAssumption
    <3> HIDE DEF S
    <3>4. fn = "pfx" => <<auth, AcceptJson>> # NULL
      BY <3>1, <3>2, <3>3 DEF S
    <3>5. <<MetadataTrue>> # NULL
      BY <3>2, <3>3
    <3> QED BY <2>3, <2>6, <3>4, <3>5 DEF Lists, Calls
  <2>9. TokenInRequest'
    <3>1. CASE fn = "token"
      BY <2>2, <2>3, <2>5, <2>7, <2>8, <3>1 DEF TokenInRequest
    <3>2. CASE fn = "pfx"
      BY <2>2, <2>3, <2>4, <2>5, <2>7, <2>8, <3>2 DEF TokenInRequest
    <3> QED BY <2>6, <3>1, <3>2 DEF Calls
  <2> QED BY <2>6, <2>9 DEF Sending
<1>7. Outcome'
  BY <1>0 DEF Outcome
<1> QED BY <1>1, <1>2, <1>3, <1>4, <1>5, <1>6, <1>7

(* A chunk moves from what the server has still to send to what was got.   *)
LEMMA DeliverMoves ==
  ASSUME Traffic, fn \in Calls, NEW n \in 1..Len(wire), Deliver(n)
  PROVE  /\ got' \in [Calls -> Seq(Clean)] /\ wire' \in Seq(Clean)
         /\ got'[fn] \o wire' = got[fn] \o wire
         /\ fn = "token" => got'["pfx"] = got["pfx"]
<1> DEFINE h == SubSeq(wire, 1, n)
           w == SubSeq(wire, n + 1, Len(wire))
<1>1. wire \in Seq(Clean) /\ got[fn] \in Seq(Clean) /\ got \in [Calls -> Seq(Clean)]
  BY DEF Traffic
<1>2. h \in Seq(Clean) /\ w \in Seq(Clean) /\ wire = h \o w
  BY <1>1
<1>3. got' = [got EXCEPT ![fn] = got[fn] \o h] /\ wire' = w
  BY DEF Deliver
<1> HIDE DEF h, w
<1>4. (got[fn] \o h) \o w = got[fn] \o (h \o w) /\ got[fn] \o h \in Seq(Clean)
  <2>1. \A x, y, z \in Seq(Clean) :
          (x \o y) \o z = x \o (y \o z) /\ x \o y \in Seq(Clean)
    OBVIOUS
  <2> QED BY <1>1, <1>2, <2>1, Zenon
<1> QED BY <1>1, <1>2, <1>3, <1>4 DEF Calls

LEMMA DeliverStory ==
  ASSUME IInv, Story, NEW n \in 1..Len(wire), Deliver(n)
  PROVE  Story'
<1> USE DEF IInv, Story, Control, Pointers, Deliver, Goto, strings, main, net,
            memory, Outside, Inside, Calls
<1>0. /\ pc = "transfer" /\ pc' \in {"transfer", "finish"} /\ n <= Len(wire)
      /\ got' = [got EXCEPT ![fn] = got[fn] \o SubSeq(wire, 1, n)]
      /\ wire' = SubSeq(wire, n + 1, Len(wire))
      /\ UNCHANGED <<fn, hdr, list, root, result, main, handle, sent, memory>>
  OBVIOUS
<1>a. PICK o \in WriteCallback(n) :
        buf' = o.ctx /\ pc' = IF o.rc = 0 THEN "transfer" ELSE "finish"
  OBVIOUS
<1>b. wire \in Seq(Clean) /\ got[fn] \in Seq(Clean) /\ got \in [Calls -> Seq(Clean)]
  BY DEF Traffic
<1>c. /\ SubSeq(wire, 1, n) \in Seq(Clean) /\ SubSeq(wire, n + 1, Len(wire)) \in Seq(Clean)
      /\ Len(SubSeq(wire, 1, n)) = n
      /\ wire = SubSeq(wire, 1, n) \o SubSeq(wire, n + 1, Len(wire))
  BY <1>0, <1>b
<1> HIDE DEF Deliver
<1>1. Traffic'
  BY <1>0, DeliverMoves DEF Traffic
<1>2. Body'
  <2> DEFINE h == SubSeq(wire, 1, n)
  <2>1. h \in Seq(Clean) /\ Len(h) = n /\ got'[fn] = got[fn] \o h
    BY <1>0, <1>b, <1>c
  <2>2. h \in Seq(Symbols) /\ got[fn] \in Seq(Symbols)
    BY <1>b, <2>1, PayloadIsClean
  <2>3. Typed(buf) /\ Holds(buf, got[fn])
    BY <1>0 DEF Buffers, Body
  <2>0. buf' = buf /\ pc' = "finish" => Body'
    BY DEF Body
  <2>4. CASE o = Failed(buf)
    BY <1>0, <1>a, <2>4 DEF Failed, Body
  <2>5. CASE o \in AppendString(buf, h) /\ ~(buf.pos + n > MaxBody)
    <3> HIDE DEF h
    <3>1. \/ o.rc = 0 /\ Holds(o.ctx, got[fn] \o h)
          \/ o.rc = -1 /\ o.ctx = buf
      BY <2>2, <2>3, <2>5, AppendHolds
    <3>2. Len(got[fn] \o h) = buf.pos + n
      <4>1. buf.pos = Len(got[fn])
        BY <2>3 DEF Holds
      <4>2. ASSUME NEW t \in Seq(Symbols) PROVE Len(t \o h) = Len(t) + Len(h)
        BY <2>2
      <4> QED BY <2>1, <2>2, <4>1, <4>2
    <3>3. o.rc = 0 => o.ctx.pos = buf.pos + n /\ buf.pos + n <= MaxBody
      BY <2>3, <2>5, <3>1, <3>2, GetPfxAssumption DEF Holds, Typed
    <3> HIDE DEF IInv, Story, Control, Pointers
    <3>4. CASE o.rc = 0
      <4>1. Holds(buf', got'[fn'])
        <5>1. o.ctx = buf' /\ got'[fn'] = got[fn] \o h
          BY <1>0, <1>a, <2>1
        <5>2. Holds(o.ctx, got[fn] \o h)
          BY <3>1, <3>4
        <5> QED BY <5>1, <5>2, Zenon
      <4>2. buf'.pos <= MaxBody
        BY <1>a, <3>3, <3>4
      <4> QED BY <4>1, <4>2 DEF Body
    <3>5. CASE o.ctx = buf /\ o.rc = -1
      BY <1>0, <1>a, <2>0, <3>5
    <3> QED BY <3>1, <3>4, <3>5
  <2> QED BY <1>a, <2>4, <2>5 DEF WriteCallback
<1>3. Document'
  BY <1>0 DEF Document
<1>4. Header'
  BY <1>0, SameAnswers DEF Header
<1>5. Values'
  <2>1. result = NULL /\ pfx = NULL
    BY <1>0
  <2>2. CASE auth = NULL
    BY <1>0, <2>1, <2>2 DEF Values, Returned
  <2>3. CASE auth # NULL
    <3>1. fn = "pfx" /\ got'["token"] = got["token"]
      BY <1>0, <1>b, <2>3
    <3>2. Answered("token")' = Answered("token") /\ Results("token")' = Results("token")
      BY <3>1, SameAnswer DEF Results
    <3> QED BY <1>0, <2>1, <3>2 DEF Values, Returned
  <2> QED BY <2>2, <2>3
<1>6. Sending'
  <2>1. CASE fn = "token"
    BY <1>0, <2>1 DEF Sending, TokenInRequest, Traffic
  <2>2. CASE fn = "pfx"
    <3>1. Answered("token")' = Answered("token")
      BY <1>0, <1>b, <2>2, SameAnswer
    <3> QED BY <1>0, <3>1 DEF Sending, TokenInRequest
  <2> QED BY <2>1, <2>2
<1>7. Outcome'
  BY <1>0 DEF Outcome
<1> QED BY <1>1, <1>2, <1>3, <1>4, <1>5, <1>6, <1>7

LEMMA TransferDoneStory ==
  ASSUME IInv, Story, TransferDone
  PROVE  Story'
<1> USE DEF IInv, Story, Control, Pointers, TransferDone, Goto, strings, main, net,
            memory, Outside, Inside, Calls
<1>1. Traffic'
  BY DEF Traffic
<1>2. Body'
  BY DEF Body
<1>3. Document'
  BY DEF Document
<1>4. Header'
  BY SameAnswers DEF Header
<1>5. Values'
  BY SameAnswers DEF Values, Returned
<1>6. Sending'
  BY SameRequests DEF Sending, Lists
<1>7. Outcome'
  BY DEF Outcome
<1> QED BY <1>1, <1>2, <1>3, <1>4, <1>5, <1>6, <1>7

LEMMA TransferFailsStory ==
  ASSUME IInv, Story, TransferFails
  PROVE  Story'
<1> USE DEF IInv, Story, Control, Pointers, TransferFails, Goto, strings, main, net,
            memory, Outside, Inside, Calls
<1>1. Traffic'
  BY DEF Traffic
<1>2. Body'
  BY DEF Body
<1>3. Document'
  BY DEF Document
<1>4. Header'
  BY SameAnswers DEF Header
<1>5. Values'
  BY SameAnswers DEF Values, Returned
<1>6. Sending'
  BY SameRequests DEF Sending, Lists
<1>7. Outcome'
  BY DEF Outcome
<1> QED BY <1>1, <1>2, <1>3, <1>4, <1>5, <1>6, <1>7

LEMMA TimeoutStory ==
  ASSUME IInv, Story, Timeout
  PROVE  Story'
<1> USE DEF IInv, Story, Control, Pointers, Timeout, Goto, strings, main, net,
            memory, Outside, Inside, Calls
<1>1. Traffic'
  BY DEF Traffic
<1>2. Body'
  BY DEF Body
<1>3. Document'
  BY DEF Document
<1>4. Header'
  BY SameAnswers DEF Header
<1>5. Values'
  BY SameAnswers DEF Values, Returned
<1>6. Sending'
  BY SameRequests DEF Sending, Lists
<1>7. Outcome'
  BY DEF Outcome
<1> QED BY <1>1, <1>2, <1>3, <1>4, <1>5, <1>6, <1>7

LEMMA DecodeStory ==
  ASSUME IInv, Story, Decode
  PROVE  Story'
<1> USE DEF IInv, Story, Control, Pointers, Decode, Goto, strings, main, net,
            memory, Outside, Inside, Calls
<1>0. /\ pc = "decode" /\ pc' \in {"extract", "finish"}
      /\ UNCHANGED <<fn, hdr, list, result, main, net, fault>>
  OBVIOUS
<1>a. PICK o \in GetCString(buf) :
        buf' = o.ctx /\ (pc' = "extract" => root' = CString(o.ctx) /\ HasString(root', Member(fn)))
  BY DEF HasString
<1>b. Holds(o.ctx, got[fn]) /\ CString(o.ctx) = UpToNUL(got[fn])
  <2>1. Typed(buf) /\ Holds(buf, got[fn]) /\ got[fn] \in Seq(Clean)
    BY <1>0 DEF Buffers, Body, Traffic
  <2>2. got[fn] \in Seq(Symbols)
    BY <2>1, PayloadIsClean
  <2> QED BY <2>1, <2>2, GetCStringHolds, EndsReads
<1> HIDE DEF Decode
<1>1. Traffic'
  BY <1>0 DEF Traffic
<1>2. Body'
  BY <1>0, <1>a, <1>b DEF Body, Holds
<1>3. Document'
  BY <1>0, <1>a, <1>b DEF Document
<1>4. Header'
  BY <1>0, SameAnswers DEF Header
<1>5. Values'
  BY <1>0, SameAnswers DEF Values, Returned
<1>6. Sending'
  BY <1>0, SameRequests DEF Sending, Lists
<1>7. Outcome'
  BY <1>0 DEF Outcome
<1> QED BY <1>1, <1>2, <1>3, <1>4, <1>5, <1>6, <1>7

LEMMA DecodeAbortsStory ==
  ASSUME IInv, Story, DecodeAborts
  PROVE  Story'
<1> USE DEF IInv, Story, Control, Pointers, DecodeAborts, Goto, strings, main, net,
            memory, Outside, Inside, Calls
<1>1. Traffic'
  BY DEF Traffic
<1>2. Body'
  BY DEF Body
<1>3. Document'
  BY DEF Document
<1>4. Header'
  BY SameAnswers DEF Header
<1>5. Values'
  BY SameAnswers DEF Values, Returned
<1>6. Sending'
  BY SameRequests DEF Sending, Lists
<1>7. Outcome'
  BY DEF Outcome
<1> QED BY <1>1, <1>2, <1>3, <1>4, <1>5, <1>6, <1>7

LEMMA ExtractTokenStory ==
  ASSUME IInv, Story, ExtractToken
  PROVE  Story'
<1> USE DEF IInv, Story, Control, Pointers, ExtractToken, Goto, strings, main, net,
            memory, Outside, Inside, Calls
<1>0. /\ pc = "extract" /\ pc' \in {"detach", "finish"} /\ fn = "token"
      /\ UNCHANGED <<fn, buf, list, root, result, main, net, memory>>
  OBVIOUS
<1>a. /\ Typed(hdr) /\ Holds(hdr, <<>>) /\ hdr.size = HdrSize /\ <<>> \in Seq(Symbols)
      /\ Answered(fn) = Inner(root) /\ Inner(root) \in Seq(Symbols)
  <2>1. /\ root = UpToNUL(got[fn]) /\ HasString(root, Member(fn)) /\ root \in Seq(Symbols)
        /\ Typed(hdr) /\ Holds(hdr, <<>>) /\ hdr.size = HdrSize
    BY <1>0 DEF Document, Header, Buffers
  <2>2. Inner(root) \in Seq(Symbols)
    BY <2>1, InnerIsPayload, PayloadIsClean
  <2> QED BY <2>1, <2>2 DEF Answered
<1>b. PICK o \in AppendBoth(hdr, <<Bearer>>, Inner(root)) :
        hdr' = o.ctx /\ pc' = IF o.rc = 0 THEN "detach" ELSE "finish"
  OBVIOUS
<1> HIDE DEF ExtractToken
<1>1. Traffic'
  BY <1>0 DEF Traffic
<1>2. Body'
  BY <1>0 DEF Body
<1>3. Document'
  BY <1>0 DEF Document
<1>4. Header'
  <2> DEFINE s == Inner(root)
  <2>1. PICK p \in AppendString(hdr, <<Bearer>>) :
          o \in IF p.rc = 0 THEN AppendString(p.ctx, s) ELSE {p}
    BY <1>b DEF AppendBoth
  <2>2. <<Bearer>> \in Seq(Symbols) /\ s \in Seq(Symbols) /\ <<>> \o <<Bearer>> = <<Bearer>>
    BY <1>a, JunkIsSymbol
  <2> HIDE DEF s
  <2>3. (p.rc = 0 /\ Holds(p.ctx, <<Bearer>>)) \/ p.rc = -1
    <3>1. (p.rc = 0 /\ Holds(p.ctx, <<>> \o <<Bearer>>)) \/ p.rc = -1
      BY <1>a, <2>1, <2>2, AppendHolds, Zenon
    <3> QED BY <2>2, <3>1, Zenon
  <2>4. Typed(p.ctx)
    BY <1>a, <2>2, AppendStringTyped
  <2>5. o.rc = 0 => Holds(o.ctx, <<Bearer>> \o s)
    <3>1. CASE p.rc = 0
      <4> DEFINE t == <<Bearer>>
      <4>1. /\ o \in AppendString(p.ctx, s) /\ Holds(p.ctx, t) /\ Typed(p.ctx)
            /\ t \in Seq(Symbols) /\ s \in Seq(Symbols)
        BY <2>1, <2>2, <2>3, <2>4, <3>1
      <4> HIDE DEF t
      <4>2. (o.rc = 0 /\ Holds(o.ctx, t \o s)) \/ o.rc = -1
        BY <4>1, AppendHolds
      <4> QED BY <4>2 DEF t
    <3>2. CASE p.rc # 0
      BY <2>1, <3>2
    <3> QED BY <3>1, <3>2
  <2>6. Results(fn)' = {<<Bearer>> \o s}
    BY <1>0, <1>a, SameAnswers DEF Results, s
  <2> QED BY <1>0, <1>b, <2>5, <2>6 DEF Header
<1>5. Values'
  BY <1>0, SameAnswers DEF Values, Returned
<1>6. Sending'
  BY <1>0, SameRequests DEF Sending, Lists
<1>7. Outcome'
  BY <1>0 DEF Outcome
<1> QED BY <1>1, <1>2, <1>3, <1>4, <1>5, <1>6, <1>7

LEMMA ExtractPfxStory ==
  ASSUME IInv, Story, ExtractPfx
  PROVE  Story'
<1> USE DEF IInv, Story, Control, Pointers, ExtractPfx, Goto, strings, main, net,
            memory, Outside, Inside, Calls
<1>0. /\ pc = "extract" /\ pc' \in {"detach", "finish"} /\ fn = "pfx"
      /\ UNCHANGED <<fn, buf, list, root, result, main, net, memory>>
  OBVIOUS
<1>a. /\ Typed(hdr) /\ Holds(hdr, <<>>) /\ hdr.size = HdrSize /\ <<>> \in Seq(Symbols)
      /\ Answered(fn) = Inner(root) /\ Inner(root) \in Seq(Symbols)
  <2>1. /\ root = UpToNUL(got[fn]) /\ HasString(root, Member(fn)) /\ root \in Seq(Symbols)
        /\ Typed(hdr) /\ Holds(hdr, <<>>) /\ hdr.size = HdrSize
    BY <1>0 DEF Document, Header, Buffers
  <2>2. Inner(root) \in Seq(Symbols)
    BY <2>1, InnerIsPayload, PayloadIsClean
  <2> QED BY <2>1, <2>2 DEF Answered
<1>b. PICK o \in AppendString(hdr, Inner(root)) : hdr' = o.ctx
  OBVIOUS
<1> HIDE DEF ExtractPfx
<1>1. Traffic'
  BY <1>0 DEF Traffic
<1>2. Body'
  BY <1>0 DEF Body
<1>3. Document'
  BY <1>0 DEF Document
<1>4. Header'
  <2> DEFINE s == Inner(root)
  <2>1. s \in Seq(Symbols) /\ <<>> \o s = s /\ Len(<<>>) + Len(s) = Len(s)
    BY <1>a
  <2> HIDE DEF s
  <2>2. \/ Holds(o.ctx, s)
        \/ Holds(o.ctx, <<>>) /\ AllocMayFail /\ Len(s) >= HdrSize
    <3>1. \/ Holds(o.ctx, <<>> \o s)
          \/ o.ctx = hdr /\ AllocMayFail /\ Len(<<>>) + Len(s) >= hdr.size
      BY <1>a, <1>b, <2>1, AppendHolds, Zenon DEF s
    <3> QED BY <1>a, <2>1, <3>1, Zenon
  <2>3. Results(fn)' = {s} \cup IF AllocMayFail /\ Len(s) >= HdrSize THEN {<<>>} ELSE {}
    BY <1>0, <1>a, SameAnswers DEF Results, s
  <2> QED BY <1>0, <1>b, <2>2, <2>3 DEF Header
<1>5. Values'
  BY <1>0, SameAnswers DEF Values, Returned
<1>6. Sending'
  BY <1>0, SameRequests DEF Sending, Lists
<1>7. Outcome'
  BY <1>0 DEF Outcome
<1> QED BY <1>1, <1>2, <1>3, <1>4, <1>5, <1>6, <1>7

LEMMA DetachStory ==
  ASSUME IInv, Story, Detach
  PROVE  Story'
<1> USE DEF IInv, Story, Control, Pointers, Detach, Goto, strings, main, net,
            memory, Outside, Inside, Calls
<1>0. /\ pc = "detach" /\ pc' = "finish"
      /\ UNCHANGED <<fn, buf, list, root, main, net, fault>>
  OBVIOUS
<1>a. PICK o \in DetachCString(hdr) : result' = CString(o.ctx)
  OBVIOUS
<1> HIDE DEF Detach
<1>1. Traffic'
  BY <1>0 DEF Traffic
<1>2. Body'
  BY <1>0 DEF Body
<1>3. Document'
  BY <1>0 DEF Document
<1>4. Header'
  BY <1>0, SameAnswers DEF Header
<1>5. Values'
  <2>1. PICK t \in Results(fn) : Holds(hdr, t)
    BY <1>0 DEF Header
  <2>2. Answered(fn) # NULL /\ Typed(hdr) /\ got \in [Calls -> Seq(Clean)]
    <3>1. HasString(UpToNUL(got[fn]), Member(fn)) /\ got[fn] \in Seq(Clean)
      BY <1>0 DEF Document, Traffic
    <3>2. Inner(UpToNUL(got[fn])) \in Seq(Symbols)
      BY <3>1, UpToNULIsPrefix, InnerIsPayload, PayloadIsClean
    <3> QED BY <3>1, <3>2, NotNull DEF Answered, Buffers, Traffic
  <2>3. t \in Seq(Clean) /\ UpToNUL(t) = t
    BY <2>1, <2>2, ResultsAreStrings
  <2>4. t \in Seq(Symbols)
    BY <2>3, PayloadIsClean
  <2>5. result' = t
    BY <1>a, <2>1, <2>2, <2>3, <2>4, DetachEnds, EndsReads
  <2> QED BY <1>0, <2>1, <2>2, <2>5, SameAnswers DEF Values, Returned
<1>6. Sending'
  BY <1>0, SameRequests DEF Sending, Lists
<1>7. Outcome'
  BY <1>0 DEF Outcome
<1> QED BY <1>1, <1>2, <1>3, <1>4, <1>5, <1>6, <1>7

LEMMA ReturnStory ==
  ASSUME IInv, Story, Return
  PROVE  Story'
<1> USE DEF IInv, Story, Control, Pointers, Return, Goto, strings, main, net,
            memory, Outside, Inside, Calls
<1>1. Traffic'
  BY DEF Traffic
<1>2. Body'
  BY GetPfxAssumption DEF Body, NoBuffer, Context
<1>3. Document'
  BY DEF Document
<1>4. Header'
  BY SameAnswers DEF Header
<1>5. Values'
  BY SameAnswers DEF Values, Returned
<1>6. Sending'
  BY SameRequests DEF Sending, Lists
<1>7. Outcome'
  BY DEF Outcome
<1> QED BY <1>1, <1>2, <1>3, <1>4, <1>5, <1>6, <1>7

LEMMA GotTokenStory ==
  ASSUME IInv, Story, GotToken
  PROVE  Story'
<1> USE DEF IInv, Story, Control, Pointers, GotToken, Goto, strings, main, net,
            memory, Outside, Inside, Calls
<1>1. Traffic'
  BY DEF Traffic
<1>2. Body'
  BY DEF Body
<1>3. Document'
  BY DEF Document
<1>4. Header'
  BY SameAnswers DEF Header
<1>5. Values'
  BY SameAnswers DEF Values, Returned
<1>6. Sending'
  BY SameRequests DEF Sending, Lists
<1>7. Outcome'
  BY DEF Outcome
<1> QED BY <1>1, <1>2, <1>3, <1>4, <1>5, <1>6, <1>7

LEMMA GotPfxStory ==
  ASSUME IInv, Story, GotPfx
  PROVE  Story'
<1> USE DEF IInv, Story, Control, Pointers, GotPfx, Goto, strings, main, net,
            memory, Outside, Inside, Calls
<1>1. Traffic'
  BY DEF Traffic
<1>2. Body'
  BY DEF Body
<1>3. Document'
  BY DEF Document
<1>4. Header'
  BY SameAnswers DEF Header
<1>5. Values'
  BY SameAnswers DEF Values, Returned
<1>6. Sending'
  BY SameRequests DEF Sending, Lists
<1>7. Outcome'
  BY DEF Outcome
<1> QED BY <1>1, <1>2, <1>3, <1>4, <1>5, <1>6, <1>7

LEMMA PrintPfxStory ==
  ASSUME IInv, Story, PrintPfx
  PROVE  Story'
<1> USE DEF IInv, Story, Control, Pointers, PrintPfx, Goto, strings, main, net,
            memory, Outside, Inside, Calls
<1>1. Traffic'
  BY DEF Traffic
<1>2. Body'
  BY DEF Body
<1>3. Document'
  BY DEF Document
<1>4. Header'
  BY SameAnswers DEF Header
<1>5. Values'
  BY SameAnswers DEF Values, Returned
<1>6. Sending'
  BY SameRequests DEF Sending, Lists
<1>7. Outcome'
  BY DEF Outcome
<1> QED BY <1>1, <1>2, <1>3, <1>4, <1>5, <1>6, <1>7

LEMMA CleanupStory ==
  ASSUME IInv, Story, Cleanup
  PROVE  Story'
<1> USE DEF IInv, Story, Control, Pointers, Cleanup, Goto, strings, main, net,
            memory, Outside, Inside, Calls
<1>1. Traffic'
  BY DEF Traffic
<1>2. Body'
  BY DEF Body
<1>3. Document'
  BY DEF Document
<1>4. Header'
  BY SameAnswers DEF Header
<1>5. Values'
  BY SameAnswers DEF Values, Returned
<1>6. Sending'
  BY SameRequests DEF Sending, Lists
<1>7. Outcome'
  BY DEF Outcome
<1> QED BY <1>1, <1>2, <1>3, <1>4, <1>5, <1>6, <1>7

LEMMA InitStory == Init => Story
<1> SUFFICES ASSUME Init PROVE Story
  OBVIOUS
<1>1. Traffic
  <2>1. <<>> \in Seq(Clean)
    OBVIOUS
  <2> QED BY <2>1 DEF Init, Traffic, Calls
<1>2. Body
  BY GetPfxAssumption DEF Init, Body, NoBuffer, Context
<1>3. Document /\ Header /\ Outcome
  BY DEF Init, Document, Header, Outcome
<1>4. Values
  BY DEF Init, Values, Returned
<1>5. Sending
  BY DEF Init, Sending, TokenInRequest, Calls
<1> QED BY <1>1, <1>2, <1>3, <1>4, <1>5 DEF Story

LEMMA StutterStory ==
  ASSUME Story, UNCHANGED vars
  PROVE  Story'
<1> USE DEF Story, vars, strings, main, net, memory
<1>1. Traffic' /\ Body' /\ Document' /\ Outcome'
  BY DEF Traffic, Body, Document, Outcome
<1>2. Header' /\ Values'
  BY SameAnswers DEF Header, Values, Returned
<1>3. Sending'
  BY SameRequests DEF Sending, Lists
<1> QED BY <1>1, <1>2, <1>3

LEMMA StepStory == IInv /\ Story /\ [Next]_vars => Story'
<1> SUFFICES ASSUME IInv, Story, [Next]_vars PROVE Story'
  OBVIOUS
<1>1. CASE UNCHANGED vars
  BY <1>1, StutterStory
<1>2. CASE Program
  BY <1>2, EasyInitStory, EasyInitFailsStory, InitBufStory, InitHdrStory,
     BuildTokenHeadersStory, BuildPfxHeadersStory, PerformStory, DecodeStory,
     DecodeAbortsStory, ExtractTokenStory, ExtractPfxStory, DetachStory, ReturnStory,
     GotTokenStory, GotPfxStory, PrintPfxStory, CleanupStory
     DEF Program
<1>3. CASE Network
  BY <1>3, DeliverStory, TransferDoneStory, TransferFailsStory DEF Network
<1>4. CASE Timeout
  BY <1>4, TimeoutStory
<1> QED BY <1>1, <1>2, <1>3, <1>4 DEF Next

LEMMA StoryHolds == Spec => []Story
BY InitStory, StepStory, Invariance, PTL DEF Spec

(* What json_decode gets is all that the callback got, and never more than *)
(* the cap allows.                                                         *)
THEOREM WholeBody == Spec => []BodyWhole
<1>1. IInv /\ Story => BodyWhole
  <2> SUFFICES ASSUME IInv, Story PROVE BodyWhole
    OBVIOUS
  <2>1. buf.pos <= MaxBody
    BY DEF Story, Body
  <2>2. ASSUME pc = "decode" PROVE Text(buf) = got[fn]
    <3>1. Holds(buf, got[fn]) /\ got[fn] \in Seq(Clean)
      BY <2>2 DEF Story, Body, Traffic, IInv, Control
    <3>2. /\ Text(buf) = [i \in 1..Len(got[fn]) |-> buf.mem[i - 1]]
          /\ \A i \in 1..Len(got[fn]) : buf.mem[i - 1] = got[fn][i]
      BY <3>1 DEF Text, Holds
    <3>3. got[fn] = [i \in 1..Len(got[fn]) |-> got[fn][i]]
      BY <3>1
    <3> QED BY <3>2, <3>3
  <2> QED BY <2>1, <2>2 DEF BodyWhole
<1> QED BY <1>1, Invariance, StoryHolds, PTL

(* The vault is asked with the token of this run, or with none.            *)
THEOREM RightToken == Spec => []TokenInRequest
<1>1. Story => TokenInRequest
  BY DEF Story, Sending
<1> QED BY <1>1, StoryHolds, PTL

-----------------------------------------------------------------------------
(* SecretTool.                                                             *)

Secrets == UNION {{SubSeq(s, 2, n) : n \in 1..Len(s)} : s \in Bodies}
served  == IF fn = "pfx" THEN Answered("pfx") ELSE NULL
status  == IF ~Exited THEN "running" ELSE IF res = 0 THEN "ok" ELSE "failed"

(* What has come so far is the beginning of a body, so the value in it is  *)
(* a part of that body.                                                    *)
LEMMA AnswerIsSecret ==
  ASSUME NEW g \in Seq(Clean), NEW w \in Seq(Clean), g \o w \in Bodies, NEW o,
         HasString(UpToNUL(g), o)
  PROVE  Inner(UpToNUL(g)) \in Secrets
<1> DEFINE t == UpToNUL(g)
           s == g \o w
<1>1. /\ t \in Seq(Clean) /\ Len(t) \in 0..Len(g) /\ \A i \in 1..Len(t) : t[i] = g[i]
  BY UpToNULIsPrefix
<1>2. /\ s \in Seq(Clean) /\ Len(s) = Len(g) + Len(w) /\ \A i \in 1..Len(g) : s[i] = g[i]
      /\ Len(g) \in Nat /\ Len(w) \in Nat
  OBVIOUS
<1>3. HasString(t, o)
  OBVIOUS
<1>4. s \in Bodies
  OBVIOUS
<1> HIDE DEF t, s
<1>5. Len(t) \in Nat /\ Len(t) >= 2
  BY <1>1, <1>3 DEF HasString, IsDocument
<1>6. Len(t) - 1 \in 1..Len(s)
  BY <1>1, <1>2, <1>5
<1>7. Inner(t) = SubSeq(s, 2, Len(t) - 1)
  <2>1. Inner(t) = [i \in 1..(Len(t) - 2) |-> t[i + 1]]
    BY <1>1, <1>5 DEF Inner
  <2>2. SubSeq(s, 2, Len(t) - 1) = [i \in 1..(Len(t) - 2) |-> s[i + 1]]
    BY <1>2, <1>5, <1>6
  <2>3. ASSUME NEW i \in 1..(Len(t) - 2) PROVE t[i + 1] = s[i + 1]
    <3>1. i + 1 \in 1..Len(t) /\ i + 1 \in 1..Len(g)
      BY <1>1, <1>2, <1>5
    <3> QED BY <1>1, <1>2, <3>1
  <2> QED BY <2>1, <2>2, <2>3
<1>8. Inner(t) \in Secrets
  <2>1. Inner(t) \in {SubSeq(s, 2, n) : n \in 1..Len(s)}
    BY <1>6, <1>7
  <2> QED BY <1>4, <2>1 DEF Secrets
<1> QED BY <1>8 DEF t

LEMMA InitMapped == Init => Tool!Init
BY DEF Init, Tool!Init, Exited

Mapped == <<served, out, status>>

LEMMA StepMapped ==
  ASSUME IInv, Story, Story', [Next]_vars
  PROVE  [Tool!Next]_(Tool!stvars)
<1> USE DEF Control, Pointers, Goto, strings, main, net, memory, Outside, Inside, Calls
<1>0. /\ Control /\ Pointers /\ Outcome
  BY DEF IInv, Story
<1>f. UNCHANGED Mapped => UNCHANGED Tool!stvars
  BY DEF Tool!stvars, Mapped, served, status
<1>1. CASE PrintPfx
  <2>1. /\ pc = "print" /\ pc' = "cleanup" /\ out = <<>> /\ out' = <<pfx>>
        /\ UNCHANGED <<fn, res, got>> /\ fn = "pfx" /\ pfx # NULL
    BY <1>0, <1>1 DEF PrintPfx, Outcome
  <2>2. Answered("pfx") # NULL /\ pfx \in Results("pfx")
    BY <2>1 DEF Story, Values, Returned
  <2>3. Tool!PrintSecret
    BY <2>1, <2>2, SameAnswers DEF Tool!PrintSecret, Tool!Lines, Results, Exited
  <2> QED BY <2>3 DEF Tool!Next
<1>2. CASE Cleanup \/ DecodeAborts
  <2>1. /\ UNCHANGED <<fn, out, got>> /\ pc \in {"cleanup", "decode"}
        /\ pc' \in {"done", "aborted"}
        /\ IF out = <<>> THEN res' = 1 ELSE res' = 0
    BY <1>0, <1>2 DEF Cleanup, DecodeAborts, Outcome
  <2>2. Tool!Exit
    BY <2>1, SameAnswers DEF Tool!Exit, Exited
  <2> QED BY <2>2 DEF Tool!Next
<1>3. CASE EasyInitFails
  <2>1. /\ AllocMayFail /\ pc = "start" /\ pc' = "done" /\ UNCHANGED <<fn, got>>
        /\ out = <<>> /\ out' = <<Diagnostic>> /\ res' = 1 /\ fn = "token"
    BY <1>0, <1>3 DEF EasyInitFails, Outcome
  <2>2. Tool!CannotStart
    BY <2>1 DEF Tool!CannotStart, Exited
  <2> QED BY <2>2 DEF Tool!Next
<1>4. ASSUME NEW n \in 1..Len(wire), Deliver(n) PROVE [Tool!Next]_(Tool!stvars)
  <2>1. /\ pc = "transfer" /\ pc' \in {"transfer", "finish"} /\ UNCHANGED <<fn, out, res>>
        /\ out = <<>>
    BY <1>0, <1>4 DEF Deliver, Outcome
  <2>2. CASE fn = "token"
    BY <2>1, <2>2, <1>f DEF Mapped, served, status, Exited
  <2>3. CASE fn = "pfx"
    <3>1. served' \in Secrets \cup {NULL}
      <4>1. got'["pfx"] \o wire' \in Bodies /\ got'["pfx"] \in Seq(Clean) /\ wire' \in Seq(Clean)
        BY <1>0, <1>4, <2>1, <2>3, DeliverMoves DEF Story, Traffic
      <4>2. CASE HasString(UpToNUL(got'["pfx"]), Member("pfx"))
        BY <4>1, <4>2, <2>1, <2>3, AnswerIsSecret DEF served, Answered
      <4>3. CASE ~HasString(UpToNUL(got'["pfx"]), Member("pfx"))
        BY <4>3, <2>1, <2>3 DEF served, Answered
      <4> QED BY <4>2, <4>3
    <3>2. \E s \in Secrets \cup {NULL} : Tool!Serve(s)
      BY <2>1, <2>3, <3>1 DEF Tool!Serve, Exited, served
    <3> QED BY <3>2 DEF Tool!Next, Secrets
  <2> QED BY <1>0, <2>2, <2>3
<1>5. CASE GotToken
  <2>1. /\ pc = "got_token" /\ fn = "token" /\ pc' \in {"cleanup", "init_buf"}
        /\ UNCHANGED <<out, got>> /\ fn' \in {"token", "pfx"}
        /\ got["pfx"] = <<>>
    BY <1>0, <1>5 DEF GotToken, Story, Traffic
  <2>2. Answered("pfx")' = NULL
    <3>1. UpToNUL(<<>>) = <<>>
      BY <<>> \in Seq({}), NoNULWhole
    <3>2. ~HasString(<<>>, Member("pfx"))
      BY DEF HasString, IsDocument
    <3> QED BY <2>1, <3>1, <3>2 DEF Answered
  <2> QED BY <2>1, <2>2, <1>f DEF Mapped, served, status, Exited
<1>6. CASE \/ EasyInit \/ InitBuf \/ InitHdr \/ BuildTokenHeaders \/ BuildPfxHeaders \/ Perform
           \/ Decode \/ ExtractToken \/ ExtractPfx \/ Detach \/ Return \/ GotPfx
           \/ TransferDone \/ TransferFails \/ Timeout
  <2>1. /\ UNCHANGED <<fn, out, got>> /\ pc \notin {"done", "aborted"}
        /\ pc' \notin {"done", "aborted"}
    BY <1>6 DEF EasyInit, InitBuf, InitHdr, BuildTokenHeaders, BuildPfxHeaders, SetHeaders,
                Perform, Decode, ExtractToken, ExtractPfx, Detach, Return, GotPfx,
                TransferDone, TransferFails, Timeout
  <2> QED BY <2>1, <1>f, SameAnswers DEF Mapped, served, status, Exited
<1>7. CASE UNCHANGED vars
  BY <1>7, <1>f, SameAnswers DEF vars, Mapped, served, status, Exited
<1> QED BY <1>1, <1>2, <1>3, <1>4, <1>5, <1>6, <1>7 DEF Next, Program, Network

(* As far as it is a matter of safety the program is a SecretTool.         *)
THEOREM SafeTool == Spec => Tool!Init /\ [][Tool!Next]_(Tool!stvars)
BY InitMapped, StepMapped, Invariance, StoryHolds, PTL DEF Spec
=============================================================================
