---------------------------- MODULE Helpers_proofs ---------------------------
(***************************************************************************)
(* Proofs about FileStore, DirWalk, TimeFn and Base64.                     *)
(*                                                                         *)
(* Files, for any number of processes, files and texts: what a process     *)
(* saved undisturbed is kept, and what a process loads undisturbed is the  *)
(* file.  The walk, for any tree, names and calls removed or cut short:    *)
(* the callback is shown the tree, the buffer is not overrun while no name *)
(* is left in it, and its caller gets it back as it was, unless the        *)
(* outermost call left a name in it itself.  The clock, for all its        *)
(* readings, and the dates, for every stamp of the assumption: no          *)
(* reading goes back, the ages are told, and a date that was formatted is  *)
(* read back.  base64_encode writes inside the size that base64_reqbufsz   *)
(* computes, whatever it encodes and however wide a size_t is; the         *)
(* decoders read it back, and read a text from elsewhere alike.            *)
(***************************************************************************)
EXTENDS FileStore, DirWalk, TimeFn, Base64, Reach_proofs, SequenceTheorems, TLAPS

(* A process at a call on an open file has one open.                       *)
Holds == \A p \in Procs : pc[p] \in {"write", "close", "read"} => fd[p] \in Inodes

(* Who is undisturbed is so because nobody else saves: whoever begins to   *)
(* save disturbs all others.                                               *)
Undisturbed == \A p \in Procs : alone[p] /\ pc[p] # "idle" => ~OthersSave(p)

(* What it has open is what the path still leads to.                       *)
OnThePath ==
  \A p \in Procs : alone[p] =>
    /\ pc[p] \in {"write", "close", "read"} => name \in Inodes /\ fd[p] = name
    /\ pc[p] = "open" => link # None \/ name \in Inodes

Written ==
  \A p \in Procs :
    alone[p] /\ pc[p] = "close" /\ size[p] = Len(data[p]) => Begins(data[p], disk[name])

Measured ==
  \A p \in Procs : pc[p] \in {"open", "read"} =>
    /\ size[p] \in Nat
    /\ alone[p] => size[p] = StatSize

Calls == Holds /\ Undisturbed /\ OnThePath /\ Written /\ Measured

(* While the last save is known to be kept, nobody has written since, so   *)
(* nobody can come to unlink.                                              *)
Quiet == acked # None => \A p \in Procs : pc[p] \notin {"close", "unlink"}

IInv == StoreTypeOK /\ Calls /\ Quiet /\ AckedIsKept

LEMMA InitInv == StoreInit => IInv
BY FileStoreAssumption
   DEF StoreInit, IInv, StoreTypeOK, Calls, Holds, Undisturbed, OnThePath, Written,
       Measured, Quiet, AckedIsKept

-----------------------------------------------------------------------------
(* Closing a file.                                                         *)

(* Contents that the path or an open file leads to stay.                   *)
LEMMA FreedKeeps ==
  ASSUME StoreTypeOK, disk' = Freed(disk)
  PROVE  /\ disk' \in [Inodes -> Seq(Bytes)]
         /\ name' \in Inodes => disk'[name'] = disk[name']
BY DEF StoreTypeOK, Freed

(* What a call does to the data of its process when it ends or goes on to  *)
(* unlink.                                                                 *)
OwnData(p) ==
  \/ Forget(p)
  \/ UNCHANGED <<data, size, alone>> /\ Saving(p)

LEMMA CloseTypes ==
  ASSUME StoreTypeOK, NEW p \in Procs, NEW l \in {"idle", "unlink"},
         CloseAnd(p, l), OwnData(p)
  PROVE  /\ disk' \in [Inodes -> Seq(Bytes)]
         /\ pc' \in [Procs -> {"idle", "write", "close", "unlink", "open", "read"}]
         /\ fd' \in [Procs -> Inodes \cup {None}]
         /\ data' \in [Procs -> Seq(Bytes)]
         /\ size' \in [Procs -> Int]
         /\ alone' \in [Procs -> BOOLEAN]
<1>1. disk' \in [Inodes -> Seq(Bytes)]
  BY FreedKeeps DEF CloseAnd
<1>2. <<>> \in Seq(Bytes) /\ 0 \in Int
  OBVIOUS
<1> QED
  BY <1>1, <1>2, ZenonT(60) DEF CloseAnd, OwnData, Forget, StoreTypeOK

(* The other calls see nothing of it, as long as the path stays.           *)
LEMMA CloseCalls ==
  ASSUME StoreTypeOK, Calls, NEW p \in Procs, NEW l \in {"idle", "unlink"},
         CloseAnd(p, l), OwnData(p), l = "unlink" => Saving(p), UNCHANGED <<name, link>>
  PROVE  Calls'
<1>1. /\ pc' = [pc EXCEPT ![p] = l] /\ fd' = [fd EXCEPT ![p] = None]
      /\ name \in Inodes => disk'[name] = disk[name]
  BY FreedKeeps DEF CloseAnd
<1>2. \A q \in Procs \ {p} : /\ pc'[q] = pc[q] /\ fd'[q] = fd[q]
                             /\ data'[q] = data[q] /\ size'[q] = size[q]
                             /\ alone'[q] = alone[q]
  BY <1>1 DEF OwnData, Forget, StoreTypeOK
<1>3. pc'[p] = l /\ (alone'[p] => alone[p] /\ pc[p] # "idle")
  BY <1>1 DEF OwnData, Forget, StoreTypeOK, Saving
<1>4. \A q \in Procs : Saving(q)' => Saving(q)
  BY <1>1, <1>2, <1>3 DEF Saving
<1>5. Holds'
  BY <1>2, <1>3 DEF Calls, Holds
<1>6. Undisturbed'
  <2> SUFFICES ASSUME NEW q \in Procs, alone'[q], pc'[q] # "idle"
               PROVE  ~OthersSave(q)'
    BY DEF Undisturbed
  <2>1. alone[q] /\ pc[q] # "idle"
    BY <1>2, <1>3
  <2>2. ~OthersSave(q)
    BY <2>1 DEF Calls, Undisturbed
  <2> QED BY <1>4, <2>2 DEF OthersSave
<1>7. OnThePath'
  BY <1>2, <1>3 DEF Calls, OnThePath
<1>8. Written'
  <2> SUFFICES ASSUME NEW q \in Procs, alone'[q], pc'[q] = "close",
                      size'[q] = Len(data'[q])
               PROVE  Begins(data'[q], disk'[name])
    BY DEF Written
  <2>1. q # p
    BY <1>3
  <2>2. name \in Inodes /\ Begins(data[q], disk[name])
    BY <1>2, <2>1 DEF Calls, OnThePath, Written
  <2> QED BY <1>1, <1>2, <2>1, <2>2
<1>9. Measured'
  <2> SUFFICES ASSUME NEW q \in Procs, pc'[q] \in {"open", "read"}
               PROVE  size'[q] \in Nat /\ (alone'[q] => size'[q] = StatSize')
    BY DEF Measured
  <2>1. q # p
    BY <1>3
  <2>2. /\ size[q] \in Nat
        /\ alone[q] => size[q] = StatSize /\ (link # None \/ name \in Inodes)
    BY <1>2, <2>1 DEF Calls, OnThePath, Measured
  <2> QED BY <1>1, <1>2, <2>1, <2>2 DEF StatSize
<1> QED BY <1>5, <1>6, <1>7, <1>8, <1>9 DEF Calls

-----------------------------------------------------------------------------
(* The calls of filesystem_saveramtofile.                                  *)

LEMMA SaveOpenInv ==
  ASSUME IInv, NEW p \in Procs, NEW d \in Texts, SaveOpen(p, d)
  PROVE  IInv'
<1> USE FileStoreAssumption DEF IInv
<1>1. /\ name' \in Inodes /\ (name # None => name' = name)
      /\ fd' = [fd EXCEPT ![p] = name'] /\ pc' = [pc EXCEPT ![p] = "write"]
      /\ data' = [data EXCEPT ![p] = d]
      /\ alone' = [q \in Procs |-> q = p /\ ~OthersSave(p)]
      /\ loaded' = None /\ UNCHANGED <<link, disk, size, acked>>
  BY DEF SaveOpen, StoreTypeOK
<1>2. StoreTypeOK'
  <2>1. alone' \in [Procs -> BOOLEAN]
    BY <1>1
  <2>2. d \in Seq(Bytes)
    OBVIOUS
  <2> QED BY <1>1, <2>1, <2>2 DEF StoreTypeOK
<1>3. \A q \in Procs \ {p} : pc'[q] = pc[q] /\ fd'[q] = fd[q] /\ ~alone'[q]
  BY <1>1 DEF StoreTypeOK
<1>4. pc'[p] = "write" /\ fd'[p] = name' /\ (alone'[p] => ~OthersSave(p))
  BY <1>1 DEF StoreTypeOK
<1>5. Holds'
  BY <1>1, <1>3, <1>4 DEF Calls, Holds
<1>6. Undisturbed'
  BY <1>3, <1>4 DEF Undisturbed, OthersSave, Saving
<1>7. OnThePath'
  BY <1>1, <1>3, <1>4 DEF OnThePath
<1>8. Written'
  BY <1>3, <1>4 DEF Written
<1>9. Measured'
  BY <1>1, <1>3, <1>4 DEF Calls, Measured
<1>10. Quiet'
  BY <1>1, <1>3, <1>4 DEF Quiet
<1>11. AckedIsKept'
  BY <1>1 DEF AckedIsKept, Begins
<1> QED BY <1>2, <1>5, <1>6, <1>7, <1>8, <1>9, <1>10, <1>11 DEF Calls

(* What write leaves when it has written n of the bytes of d.              *)
LEMMA OverlayBegins ==
  ASSUME NEW c \in Seq(Bytes), NEW d \in Seq(Bytes), NEW n \in 0..Len(d)
  PROVE  /\ Overlay(c, d, n) \in Seq(Bytes)
         /\ n = Len(d) => Begins(d, Overlay(c, d, n))
<1> DEFINE k == IF n > Len(c) THEN n ELSE Len(c)
<1>1. k \in Nat /\ n <= k
  OBVIOUS
<1>2. \A i \in 1..k : (IF i <= n THEN d[i] ELSE c[i]) \in Bytes
  OBVIOUS
<1>3. Overlay(c, d, n) = [i \in 1..k |-> IF i <= n THEN d[i] ELSE c[i]]
  BY DEF Overlay
<1> HIDE DEF k
<1>4. Overlay(c, d, n) \in Seq(Bytes) /\ Len(Overlay(c, d, n)) = k
  BY <1>1, <1>2, <1>3
<1>5. ASSUME n = Len(d) PROVE Begins(d, Overlay(c, d, n))
  BY <1>1, <1>3, <1>4, <1>5 DEF Begins
<1> QED BY <1>4, <1>5

LEMMA SaveWriteInv ==
  ASSUME IInv, NEW p \in Procs, SaveWrite(p)
  PROVE  IInv'
<1> USE FileStoreAssumption DEF IInv
<1>1. PICK n \in -1..Len(data[p]) :
        /\ size' = [size EXCEPT ![p] = n]
        /\ disk' = IF n = -1 THEN disk
                   ELSE [disk EXCEPT ![fd[p]] = Overlay(@, data[p], n)]
  BY DEF SaveWrite
<1>2. /\ pc[p] = "write" /\ pc' = [pc EXCEPT ![p] = "close"]
      /\ acked' = None /\ loaded' = None /\ UNCHANGED <<name, link, fd, data, alone>>
  BY DEF SaveWrite
<1>3. fd[p] \in Inodes /\ disk[fd[p]] \in Seq(Bytes) /\ data[p] \in Seq(Bytes)
  BY <1>2 DEF Calls, Holds, StoreTypeOK
<1>4. n \in Int
  BY <1>3
<1>5. /\ disk' \in [Inodes -> Seq(Bytes)]
      /\ n = Len(data[p]) => Begins(data[p], disk'[fd[p]])
  <2>1. CASE n = -1
    BY <1>1, <1>3, <2>1 DEF StoreTypeOK
  <2>2. CASE n # -1
    <3>1. n \in 0..Len(data[p])
      BY <1>3, <2>2
    <3>2. /\ Overlay(disk[fd[p]], data[p], n) \in Seq(Bytes)
          /\ n = Len(data[p]) => Begins(data[p], Overlay(disk[fd[p]], data[p], n))
      BY <1>3, <3>1, OverlayBegins
    <3> QED BY <1>1, <1>3, <2>2, <3>2 DEF StoreTypeOK
  <2> QED BY <2>1, <2>2
<1>6. StoreTypeOK'
  BY <1>1, <1>2, <1>4, <1>5 DEF StoreTypeOK
<1>7. \A q \in Procs \ {p} : pc'[q] = pc[q] /\ size'[q] = size[q]
                             /\ (pc[q] # "idle" => ~alone[q])
  BY <1>1, <1>2 DEF StoreTypeOK, Calls, Undisturbed, OthersSave, Saving
<1>8. pc'[p] = "close" /\ size'[p] = n
  BY <1>1, <1>2 DEF StoreTypeOK
<1>9. Holds'
  BY <1>2, <1>3, <1>7 DEF Calls, Holds
<1>10. Undisturbed'
  BY <1>2, <1>7, <1>8 DEF Calls, Undisturbed, OthersSave, Saving
<1>11. OnThePath'
  BY <1>2, <1>7, <1>8 DEF Calls, OnThePath
<1>12. Written'
  <2> SUFFICES ASSUME NEW q \in Procs, alone[q], pc'[q] = "close",
                      size'[q] = Len(data[q])
               PROVE  Begins(data[q], disk'[name])
    BY <1>2 DEF Written
  <2>1. q = p
    BY <1>7
  <2>2. fd[p] = name
    BY <1>2, <2>1 DEF Calls, OnThePath
  <2> QED BY <1>5, <1>8, <2>1, <2>2
<1>13. Measured'
  BY <1>2, <1>7, <1>8 DEF Calls, Measured
<1> QED BY <1>2, <1>6, <1>9, <1>10, <1>11, <1>12, <1>13
        DEF Calls, Quiet, AckedIsKept

LEMMA SaveCloseInv ==
  ASSUME IInv, NEW p \in Procs, SaveClose(p)
  PROVE  IInv'
<1> USE FileStoreAssumption DEF IInv
<1>1. pc[p] = "close" /\ UNCHANGED <<name, link>> /\ loaded' = None /\ acked = None
  BY DEF SaveClose, Quiet
<1>2. CASE AllWritten(p)
  <2>1. CloseAnd(p, "idle") /\ Forget(p)
        /\ acked' = IF alone[p] THEN data[p] ELSE acked
    BY <1>2 DEF SaveClose
  <2>2. Calls'
    BY <1>1, <2>1, CloseCalls DEF OwnData
  <2>3. StoreTypeOK'
    <3>1. acked' \in Seq(Bytes) \cup {None}
      BY <2>1 DEF StoreTypeOK
    <3> QED BY <1>1, <2>1, <3>1, CloseTypes DEF OwnData, StoreTypeOK
  <2>4. Quiet' /\ AckedIsKept'
    <3>1. CASE ~alone[p]
      BY <1>1, <2>1, <3>1 DEF Quiet, AckedIsKept
    <3>2. CASE alone[p]
      <4>1. /\ ~OthersSave(p) /\ name \in Inodes
            /\ Begins(data[p], disk[name])
        BY <1>1, <1>2, <3>2 DEF Calls, Undisturbed, OnThePath, Written, AllWritten
      <4>2. disk'[name] = disk[name]
        BY <1>1, <2>1, <4>1, FreedKeeps DEF CloseAnd
      <4>3. \A q \in Procs : pc'[q] \notin {"close", "unlink"}
        BY <2>1, <4>1 DEF OthersSave, Saving, CloseAnd, StoreTypeOK
      <4> QED BY <1>1, <2>1, <3>2, <4>1, <4>2, <4>3 DEF Quiet, AckedIsKept
    <3> QED BY <3>1, <3>2
  <2> QED BY <2>2, <2>3, <2>4
<1>3. CASE ~AllWritten(p)
  <2>1. CloseAnd(p, "unlink") /\ UNCHANGED <<data, size, alone, acked>>
    BY <1>3 DEF SaveClose
  <2>2. OwnData(p) /\ Saving(p)
    BY <1>1, <2>1 DEF OwnData, Saving
  <2>3. Calls'
    BY <1>1, <2>1, <2>2, CloseCalls
  <2>4. StoreTypeOK'
    BY <1>1, <2>1, <2>2, CloseTypes DEF StoreTypeOK
  <2> QED BY <1>1, <2>1, <2>3, <2>4 DEF Quiet, AckedIsKept
<1> QED BY <1>2, <1>3

(* A save that comes to unlink is one that disturbs every other call.      *)
LEMMA SaveUnlinkInv ==
  ASSUME IInv, NEW p \in Procs, SaveUnlink(p)
  PROVE  IInv'
<1> USE FileStoreAssumption DEF IInv
<1>1. /\ pc[p] = "unlink" /\ name' = None /\ link' = None /\ CloseAnd(p, "idle") /\ Forget(p)
      /\ loaded' = None /\ UNCHANGED acked
  BY DEF SaveUnlink
<1>2. acked = None
  BY <1>1 DEF Quiet
<1>3. StoreTypeOK'
  BY <1>1, CloseTypes DEF OwnData, StoreTypeOK
<1>4. \A q \in Procs \ {p} :
        /\ pc'[q] = pc[q] /\ fd'[q] = fd[q] /\ size'[q] = size[q]
        /\ alone'[q] => pc'[q] = "idle"
  BY <1>1 DEF CloseAnd, Forget, StoreTypeOK, Calls, Undisturbed, OthersSave, Saving
<1>5. pc'[p] = "idle"
  BY <1>1 DEF CloseAnd, StoreTypeOK
<1>6. Holds'
  BY <1>4, <1>5 DEF Calls, Holds
<1>7. Undisturbed' /\ OnThePath' /\ Written'
  BY <1>4, <1>5 DEF Undisturbed, OnThePath, Written
<1>8. Measured'
  BY <1>4, <1>5 DEF Calls, Measured
<1> QED BY <1>1, <1>2, <1>3, <1>6, <1>7, <1>8 DEF Calls, Quiet, AckedIsKept

-----------------------------------------------------------------------------
(* The calls of filesystem_loadintoram.                                    *)

LEMMA LoadStatInv ==
  ASSUME IInv, NEW p \in Procs, LoadStat(p)
  PROVE  IInv'
<1> USE FileStoreAssumption DEF IInv
<1>1. /\ pc[p] = "idle" /\ (link # None \/ name \in Inodes)
      /\ size' = [size EXCEPT ![p] = StatSize]
      /\ pc' = [pc EXCEPT ![p] = "open"]
      /\ alone' = [alone EXCEPT ![p] = ~OthersSave(p)]
      /\ loaded' = None /\ UNCHANGED <<name, link, disk, fd, data, acked>>
  BY DEF LoadStat, StoreTypeOK
<1>2. StatSize \in Nat /\ StatSize' = StatSize
  BY <1>1 DEF StoreTypeOK, StatSize
<1>3. StoreTypeOK'
  <2>1. alone' \in [Procs -> BOOLEAN]
    BY <1>1 DEF StoreTypeOK
  <2> QED BY <1>1, <1>2, <2>1 DEF StoreTypeOK
<1>4. \A q \in Procs \ {p} : pc'[q] = pc[q] /\ size'[q] = size[q] /\ alone'[q] = alone[q]
  BY <1>1 DEF StoreTypeOK
<1>5. /\ pc'[p] = "open" /\ size'[p] = StatSize
      /\ alone'[p] => ~OthersSave(p)
  BY <1>1 DEF StoreTypeOK
<1>6. Holds'
  BY <1>1, <1>4, <1>5 DEF Calls, Holds
<1>7. \A q \in Procs : Saving(q)' => Saving(q)
  BY <1>4, <1>5 DEF Saving
<1>8. Undisturbed'
  BY <1>4, <1>5, <1>7 DEF Calls, Undisturbed, OthersSave
<1>9. OnThePath'
  BY <1>1, <1>4, <1>5 DEF Calls, OnThePath
<1>10. Written'
  BY <1>1, <1>4, <1>5 DEF Calls, Written
<1>11. Measured'
  BY <1>1, <1>2, <1>4, <1>5 DEF Calls, Measured
<1>12. Quiet'
  BY <1>1, <1>4, <1>5 DEF Quiet
<1> QED BY <1>1, <1>3, <1>6, <1>8, <1>9, <1>10, <1>11, <1>12 DEF Calls, AckedIsKept

LEMMA LoadOpenInv ==
  ASSUME IInv, NEW p \in Procs, LoadOpen(p)
  PROVE  IInv'
<1> USE FileStoreAssumption DEF IInv
<1>1. /\ pc[p] = "open" /\ name \in Inodes
      /\ fd' = [fd EXCEPT ![p] = name] /\ pc' = [pc EXCEPT ![p] = "read"]
      /\ loaded' = None /\ UNCHANGED <<name, link, disk, data, size, alone, acked>>
  BY DEF LoadOpen, StoreTypeOK
<1>2. StoreTypeOK'
  BY <1>1 DEF StoreTypeOK
<1>3. \A q \in Procs \ {p} : pc'[q] = pc[q] /\ fd'[q] = fd[q]
  BY <1>1 DEF StoreTypeOK
<1>4. pc'[p] = "read" /\ fd'[p] = name
  BY <1>1 DEF StoreTypeOK
<1>5. Holds'
  BY <1>1, <1>3, <1>4 DEF Calls, Holds
<1>6. \A q \in Procs : (Saving(q)' => Saving(q)) /\ (pc'[q] # "idle" => pc[q] # "idle")
  BY <1>1, <1>3, <1>4 DEF Saving
<1>7. Undisturbed'
  BY <1>1, <1>6 DEF Calls, Undisturbed, OthersSave
<1>8. OnThePath'
  BY <1>1, <1>3, <1>4 DEF Calls, OnThePath
<1>9. Written'
  BY <1>1, <1>3, <1>4 DEF Calls, Written
<1>10. Measured'
  BY <1>1, <1>3, <1>4 DEF Calls, Measured, StatSize
<1>11. Quiet'
  BY <1>1, <1>3, <1>4 DEF Quiet
<1> QED BY <1>1, <1>2, <1>5, <1>7, <1>8, <1>9, <1>10, <1>11 DEF Calls, AckedIsKept

(* Calls that return without having changed what the path leads to.        *)
LEMMA ReturnInv ==
  ASSUME IInv, NEW p \in Procs, UNCHANGED <<name, link, acked>>,
         CloseAnd(p, "idle"), Forget(p), loaded' \in Seq(Bytes) \cup {None}
  PROVE  IInv'
<1> USE FileStoreAssumption DEF IInv
<1>1. Calls'
  BY CloseCalls DEF OwnData
<1>2. StoreTypeOK'
  BY CloseTypes DEF OwnData, StoreTypeOK
<1>3. Quiet'
  BY DEF Quiet, CloseAnd, StoreTypeOK
<1>4. AckedIsKept'
  <2>1. name \in Inodes => disk'[name] = disk[name]
    BY FreedKeeps DEF CloseAnd
  <2> QED BY <2>1 DEF AckedIsKept, StoreTypeOK
<1> QED BY <1>1, <1>2, <1>3, <1>4

(* A read gives the first bytes of the file, at most as many as were asked *)
(* for.                                                                    *)
LEMMA ReadGives ==
  ASSUME NEW c \in Seq(Bytes), NEW n \in Nat
  PROVE  /\ Beginning(c, n) \in Seq(Bytes) /\ Len(Beginning(c, n)) <= n
         /\ n = Len(c) => Beginning(c, n) = c
<1> DEFINE k == IF n > Len(c) THEN Len(c) ELSE n
           r == Beginning(c, n)
<1>1. k \in 0..Len(c) /\ k <= n
  OBVIOUS
<1>2. r = SubSeq(c, 1, k)
  BY DEF Beginning
<1>3. n = Len(c) => k = Len(c)
  OBVIOUS
<1> HIDE DEF k, r
<1>4. r \in Seq(Bytes) /\ Len(r) = k
  BY <1>1, <1>2
<1>5. k = Len(c) => r = c
  BY <1>2, <1>4
<1>6. r \in Seq(Bytes) /\ Len(r) <= n /\ (n = Len(c) => r = c)
  BY <1>1, <1>3, <1>4, <1>5
<1> QED BY <1>6 DEF r

(* What LoadsWhole says of the process p that returns.                     *)
Given(p) ==
  /\ Len(loaded') <= size[p]
  /\ alone[p] => /\ name # None
                 /\ loaded' = IF link = None THEN disk[name] ELSE Beginning(disk[name], link)

LEMMA LoadReadGives ==
  ASSUME IInv, NEW p \in Procs, LoadRead(p)
  PROVE  loaded' \in Seq(Bytes) /\ Given(p)
<1> USE FileStoreAssumption DEF IInv
<1> DEFINE c == disk[fd[p]]
<1>1. pc[p] = "read" /\ fd[p] \in Inodes /\ size[p] \in Nat
  BY DEF LoadRead, Calls, Holds, Measured
<1>2. c \in Seq(Bytes)
  BY <1>1 DEF StoreTypeOK
<1>3. loaded' = Beginning(c, size[p])
  BY DEF LoadRead, ToRead
<1>4. alone[p] => name \in Inodes /\ fd[p] = name /\ size[p] = StatSize
  BY <1>1 DEF Calls, OnThePath, Measured
<1>5. alone[p] => /\ name # None /\ c = disk[name]
                  /\ size[p] = IF link = None THEN Len(c) ELSE link
  BY <1>4 DEF StatSize
<1> HIDE DEF c
<1>6. /\ loaded' \in Seq(Bytes) /\ Len(loaded') <= size[p]
      /\ size[p] = Len(c) => loaded' = c
  BY <1>1, <1>2, <1>3, ReadGives
<1> QED BY <1>3, <1>5, <1>6 DEF Given

-----------------------------------------------------------------------------

LEMMA StepInv == IInv /\ [StoreNext]_storeVars => IInv'
<1> SUFFICES ASSUME IInv, [StoreNext]_storeVars PROVE IInv'
  OBVIOUS
<1>1. CASE UNCHANGED storeVars
  BY <1>1 DEF storeVars, calls, IInv, StoreTypeOK, Calls, Holds, Undisturbed, OthersSave,
              Saving, OnThePath, Written, Measured, StatSize, Quiet, AckedIsKept
<1>2. ASSUME NEW p \in Procs, LoadRead(p) PROVE IInv'
  BY <1>2, LoadReadGives, ReturnInv DEF LoadRead
<1>3. ASSUME NEW p \in Procs, Stops(p) PROVE IInv'
  BY <1>3, ReturnInv DEF Stops
<1> QED BY <1>1, <1>2, <1>3, SaveOpenInv, SaveWriteInv, SaveCloseInv, SaveUnlinkInv,
           LoadStatInv, LoadOpenInv DEF StoreNext

LEMMA Invariance == StoreSpec => []IInv
BY InitInv, StepInv, PTL DEF StoreSpec

(* What filesystem_saveramtofile has saved while nobody else was saving is *)
(* in the file until somebody writes again.                                *)
THEOREM SavedIsKept == StoreSpec => []AckedIsKept
<1>1. IInv => AckedIsKept
  BY DEF IInv
<1> QED BY <1>1, Invariance, PTL

(* What filesystem_loadintoram returns is the whole file when nobody saved *)
(* and the path is no link; through a link, as much of it as the link is   *)
(* long.  It never exceeds the buffer.                                     *)
THEOREM WholeIsLoaded == StoreSpec => LoadsWhole
<1>1. IInv /\ [StoreNext]_storeVars =>
        [\A p \in Procs :
           pc[p] = "read" /\ loaded' # None /\ pc'[p] = "idle" => Given(p)]_storeVars
  <2> SUFFICES ASSUME IInv, StoreNext, NEW p \in Procs,
                      pc[p] = "read", loaded' # None, pc'[p] = "idle"
               PROVE  Given(p)
    OBVIOUS
  <2>1. PICK q \in Procs : LoadRead(q)
    BY DEF StoreNext, SaveOpen, SaveWrite, SaveClose, SaveUnlink, LoadStat, LoadOpen, Stops
  <2>2. q = p
    BY <2>1 DEF LoadRead, CloseAnd, IInv, StoreTypeOK
  <2> QED BY <2>1, <2>2, LoadReadGives
<1> QED BY <1>1, Invariance, PTL DEF StoreSpec, LoadsWhole, Given

-----------------------------------------------------------------------------
(* The directory walk.                                                     *)

WalkCalls == Seq([todo : Seq(Names), pos : Nat])

WalkTypeOK ==
  /\ listing \in [Dirs -> Seq(Names)]
  /\ path \in Seq(Names) /\ frames \in WalkCalls /\ uncut \in SUBSET Nat

(* The part of the path that the call at level k adds names to: from where *)
(* its directory's own path ends to where that of the next call does.      *)
Base(k) == IF k = 1 THEN 0 ELSE frames[k].pos + 1
End(k)  == IF k = Level THEN Len(path) ELSE frames[k + 1].pos

Parts ==
  /\ \/ uncut \subseteq 1..Level
     \/ frames = <<>> /\ uncut \subseteq {1}
  /\ \A k \in 1..Level : End(k) >= Base(k) /\ (k \notin uncut => End(k) = Base(k))

WalkInv == WalkTypeOK /\ Parts /\ PathRestored

LEMMA WalkInitInv == WalkInit => WalkInv
<1> SUFFICES ASSUME WalkInit PROVE WalkInv
  OBVIOUS
<1>1. listing \in [Dirs -> Seq(Names)]
  BY DirWalkAssumption DEF WalkInit
<1>2. frames = <<>> /\ rc = Running /\ uncut = {}
  BY DEF WalkInit
<1>3. path \in Seq(Names)
  <2>1. NoName \in Names
    BY Zenon DEF Names
  <2>2. <<>> \in Seq(Names) /\ <<NoName>> \in Seq(Names)
    BY <2>1
  <2>3. QED
    BY <2>2, Zenon DEF WalkInit
<1>4. QED
  BY <1>1, <1>2, <1>3 DEF WalkInv, WalkTypeOK, Parts, PathRestored, Level, WalkCalls

LEMMA WalkStartInv == WalkInv /\ WalkStart => WalkInv'
<1> SUFFICES ASSUME WalkInv, WalkStart PROVE WalkInv'
  OBVIOUS
<1>1. /\ listing' = listing /\ listing \in [Dirs -> Seq(Names)] /\ Root \in Dirs
      /\ path' = <<>> /\ uncut' = uncut
  BY DirWalkAssumption DEF WalkInv, WalkTypeOK, WalkStart, given
<1>2. uncut \subseteq {1} /\ frames = <<>> /\ frames \in WalkCalls
  BY DEF WalkInv, WalkTypeOK, Parts, Level, WalkStart
<1>3. CASE frames' = frames
  BY <1>1, <1>2, <1>3 DEF WalkInv, WalkTypeOK, Parts, PathRestored, Level
<1>4. CASE frames' = <<[todo |-> listing[Root], pos |-> 0]>>
  <2> DEFINE f == [todo |-> listing[Root], pos |-> 0]
  <2>1. f \in [todo : Seq(Names), pos : Nat]
    BY <1>1
  <2>2. frames' \in WalkCalls /\ Len(frames') = 1
    BY <1>4, <2>1 DEF WalkCalls
  <2>3. Parts'
    BY <1>1, <1>2, <2>2, SMT DEF Parts, Level, Base, End
  <2>4. frames' # <<>>
    BY <2>2
  <2>5. uncut' \in SUBSET Nat
    BY <1>1 DEF WalkInv, WalkTypeOK
  <2>6. QED
    BY <1>1, <2>2, <2>3, <2>4, <2>5 DEF WalkInv, WalkTypeOK, PathRestored
<1>5. QED
  BY <1>3, <1>4 DEF WalkStart

LEMMA OpenCall ==
  ASSUME WalkTypeOK, frames # <<>>
  PROVE  /\ Level \in Nat \ {0} /\ Len(path) \in Nat
         /\ \A k \in 1..Level : frames[k] \in [todo : Seq(Names), pos : Nat]
         /\ Top.todo \in Seq(Names) /\ Top.pos \in Nat
<1>1. frames \in Seq([todo : Seq(Names), pos : Nat]) /\ path \in Seq(Names)
  BY DEF WalkTypeOK, WalkCalls
<1>2. Level \in Nat \ {0} /\ DOMAIN frames = 1..Level /\ Len(path) \in Nat
  BY <1>1, SMT DEF Level
<1>3. \A k \in 1..Level : frames[k] \in [todo : Seq(Names), pos : Nat]
  <2> DEFINE S == [todo : Seq(Names), pos : Nat]
  <2>1. frames \in Seq(S)
    BY <1>1
  <2> HIDE DEF S
  <2>2. \A k \in 1..Level : frames[k] \in S
    BY <2>1, SMT DEF Level
  <2>3. QED
    BY <2>2 DEF S
<1>4. Level \in 1..Level
  BY <1>2
<1>5. QED
  BY <1>2, <1>3, <1>4 DEF Top

LEMMA CallsAre ==
  ASSUME NEW n \in Nat, NEW f \in [1..n -> [todo : Seq(Names), pos : Nat]]
  PROVE  f \in WalkCalls /\ Len(f) = n
<1> DEFINE S == [todo : Seq(Names), pos : Nat]
<1>1. f \in [1..n -> S]
  OBVIOUS
<1> HIDE DEF S
<1>2. f \in Seq(S) /\ Len(f) = n
  BY <1>1, SMT
<1>3. QED
  BY <1>2 DEF WalkCalls, S

(* Taking an entry leaves the calls as they are.                           *)
LEMMA TakenKeeps ==
  ASSUME WalkTypeOK, AtEntry
  PROVE  /\ Taken \in WalkCalls /\ Len(Taken) = Level
         /\ \A k \in 1..Level :
              /\ Taken[k].pos = frames[k].pos
              /\ Taken[k].todo = IF k = Level THEN Tail(Top.todo) ELSE frames[k].todo
         /\ Entry \in Names /\ Full \in Seq(Names) /\ Len(Full) = Len(path) + 1
<1>1. frames # <<>> /\ Top.todo # <<>>
  BY DEF AtEntry
<1>2. /\ Level \in Nat \ {0} /\ Len(path) \in Nat
      /\ \A k \in 1..Level : frames[k] \in [todo : Seq(Names), pos : Nat]
      /\ Top.todo \in Seq(Names)
  BY <1>1, OpenCall
<1>3. Tail(Top.todo) \in Seq(Names) /\ Entry \in Names
  BY <1>1, <1>2 DEF Entry
<1>4. Full \in Seq(Names) /\ Len(Full) = Len(path) + 1
  BY <1>3 DEF Full, WalkTypeOK
<1>5. /\ Taken = [k \in DOMAIN frames |->
           IF k = Level THEN [todo |-> Tail(Top.todo), pos |-> frames[k].pos] ELSE frames[k]]
      /\ DOMAIN frames = 1..Level
  <2>1. frames \in Seq([todo : Seq(Names), pos : Nat])
    BY DEF WalkTypeOK, WalkCalls
  <2>2. DOMAIN frames = 1..Level
    BY <2>1 DEF Level
  <2>3. \A c \in [todo : Seq(Names), pos : Nat] :
          [c EXCEPT !.todo = Tail(@)] = [todo |-> Tail(c.todo), pos |-> c.pos]
    <3> TAKE c \in [todo : Seq(Names), pos : Nat]
    <3> DEFINE rest == Tail(c.todo)
    <3> HIDE DEF rest
    <3>1. [c EXCEPT !.todo = rest] = [todo |-> rest, pos |-> c.pos]
      OBVIOUS
    <3>2. QED
      BY <3>1 DEF rest
  <2>4. frames[Level] \in [todo : Seq(Names), pos : Nat]
    BY <1>2
  <2>5. [frames[Level] EXCEPT !.todo = Tail(@)] = [todo |-> Tail(Top.todo), pos |-> frames[Level].pos]
    BY <2>3, <2>4 DEF Top
  <2>6. Taken = [k \in DOMAIN frames |->
                  IF k = Level THEN [frames[Level] EXCEPT !.todo = Tail(@)] ELSE frames[k]]
    BY DEF Taken
  <2>7. QED
    BY <2>2, <2>5, <2>6
<1>6. Taken \in [1..Level -> [todo : Seq(Names), pos : Nat]]
  BY <1>2, <1>3, <1>5
<1>7. Taken \in WalkCalls /\ Len(Taken) = Level
  BY <1>2, <1>6, CallsAre
<1>8. \A k \in 1..Level :
        /\ Taken[k].pos = frames[k].pos
        /\ Taken[k].todo = IF k = Level THEN Tail(Top.todo) ELSE frames[k].todo
  BY <1>5
<1>9. QED
  BY <1>3, <1>4, <1>7, <1>8

LEMMA EnterDirInv == WalkInv /\ EnterDir => WalkInv'
<1> SUFFICES ASSUME WalkInv, EnterDir PROVE WalkInv'
  OBVIOUS
<1>1. WalkTypeOK /\ Parts /\ AtEntry /\ frames # <<>> /\ Entry \in Dirs
  BY DEF WalkInv, EnterDir, AtEntry
<1>2. /\ Level \in Nat \ {0} /\ Len(path) \in Nat
      /\ \A k \in 1..Level : frames[k] \in [todo : Seq(Names), pos : Nat]
  BY <1>1, OpenCall
<1>3. /\ Taken \in WalkCalls /\ Len(Taken) = Level
      /\ \A k \in 1..Level : Taken[k].pos = frames[k].pos
      /\ Full \in Seq(Names) /\ Len(Full) = Len(path) + 1
  BY <1>1, TakenKeeps
<1>4. uncut' = uncut /\ listing' = listing
  BY DEF EnterDir, given
<1>5. uncut \subseteq 1..Level
  BY <1>1 DEF Parts, Level
<1>6. CASE path' = Full /\ frames' = Append(Taken, [todo |-> listing[Entry], pos |-> Len(path)])
  <2>1. [todo |-> listing[Entry], pos |-> Len(path)] \in [todo : Seq(Names), pos : Nat]
    BY <1>1, <1>2 DEF WalkTypeOK
  <2>2. /\ frames' \in WalkCalls /\ Level' = Level + 1 /\ frames' # <<>>
        /\ \A k \in 1..Level : frames'[k].pos = frames[k].pos
        /\ frames'[Level + 1].pos = Len(path)
    BY <1>2, <1>3, <1>6, <2>1 DEF WalkCalls, Level
  <2>3. Len(path') = Len(path) + 1
    BY <1>3, <1>6
  <2>4. ASSUME NEW k \in 1..Level'
        PROVE  End(k)' >= Base(k)' /\ (k \notin uncut => End(k)' = Base(k)')
    <3>1. CASE k = Level + 1
      BY <1>2, <2>2, <2>3, <3>1, SMT DEF Base, End
    <3>2. CASE k \in 1..Level
      <4>1. End(k)' = End(k) /\ Base(k)' = Base(k)
        BY <1>2, <2>2, <3>2, SMT DEF Base, End
      <4>2. QED
        BY <1>1, <3>2, <4>1 DEF Parts
    <3>3. QED
      BY <1>2, <2>2, <3>1, <3>2
  <2>5. uncut' \subseteq 1..Level'
    BY <1>2, <1>4, <1>5, <2>2, SMT
  <2>6. QED
    BY <1>1, <1>3, <1>4, <1>6, <2>2, <2>4, <2>5
       DEF WalkInv, WalkTypeOK, Parts, PathRestored
<1>7. CASE path' = path /\ frames' = Taken
  <2>1. /\ Level' = Level /\ frames' # <<>>
        /\ \A k \in 1..Level : frames'[k].pos = frames[k].pos
    BY <1>2, <1>3, <1>7 DEF Level
  <2>2. \A k \in 1..Level : End(k)' = End(k) /\ Base(k)' = Base(k)
    BY <1>2, <1>7, <2>1, SMT DEF Base, End
  <2>3. Parts'
    BY <1>1, <1>4, <1>5, <2>1, <2>2 DEF Parts
  <2>4. QED
    BY <1>1, <1>3, <1>4, <1>7, <2>1, <2>3 DEF WalkInv, WalkTypeOK, PathRestored
<1>8. QED
  BY <1>6, <1>7 DEF EnterDir

(* A call that leaves a name in the path and knows it.                     *)
LEMMA LeavesAName ==
  ASSUME WalkInv, AtEntry, frames' = Taken, uncut' = uncut \cup {Level},
         NEW c \in Names, path' = Append(path, c), listing' = listing
  PROVE  WalkInv'
<1>1. WalkTypeOK /\ Parts /\ frames # <<>>
  BY DEF WalkInv, AtEntry
<1>2. /\ Level \in Nat \ {0} /\ Len(path) \in Nat
      /\ \A k \in 1..Level : frames[k] \in [todo : Seq(Names), pos : Nat]
  BY <1>1, OpenCall
<1>3. /\ Taken \in WalkCalls /\ Len(Taken) = Level
      /\ \A k \in 1..Level : Taken[k].pos = frames[k].pos
  BY <1>1, TakenKeeps
<1>4. path' \in Seq(Names) /\ Len(path') = Len(path) + 1
  BY <1>1 DEF WalkTypeOK
<1>5. uncut \subseteq 1..Level
  BY <1>1 DEF Parts, Level
<1>6. /\ Level' = Level /\ frames' # <<>>
      /\ \A k \in 1..Level : frames'[k].pos = frames[k].pos
  BY <1>2, <1>3 DEF Level
<1>7. \A k \in 1..Level : Base(k)' = Base(k) /\ (k # Level => End(k)' = End(k))
  BY <1>2, <1>6, SMT DEF Base, End
<1>8. End(Level)' = End(Level) + 1 /\ End(Level) \in Nat /\ Base(Level) \in Nat
  BY <1>2, <1>4, <1>6, SMT DEF End, Base
<1>9. ASSUME NEW k \in 1..Level'
      PROVE  End(k)' >= Base(k)' /\ (k \notin uncut' => End(k)' = Base(k)')
  <2>1. CASE k = Level
    BY <1>1, <1>2, <1>6, <1>7, <1>8, <2>1, SMT DEF Parts
  <2>2. CASE k # Level
    BY <1>1, <1>6, <1>7, <2>2 DEF Parts
  <2>3. QED
    BY <2>1, <2>2
<1>10. uncut' \subseteq 1..Level'
  BY <1>2, <1>5, <1>6, SMT
<1>11. Parts'
  <2>1. \A k \in 1..Level' : End(k)' >= Base(k)' /\ (k \notin uncut' => End(k)' = Base(k)')
    BY <1>9
  <2>2. QED
    BY <1>10, <2>1, Zenon DEF Parts
<1>12. uncut' \in SUBSET Nat
  BY <1>2, <1>6, <1>10, SMT
<1>13. QED
  BY <1>1, <1>3, <1>4, <1>6, <1>11, <1>12 DEF WalkInv, WalkTypeOK, PathRestored

LEMMA VanishedInv == WalkInv /\ Vanished => WalkInv'
<1> SUFFICES ASSUME WalkInv, Vanished PROVE WalkInv'
  OBVIOUS
<1>1. Entry \in Names
  BY TakenKeeps DEF WalkInv, Vanished
<1>2. QED
  BY <1>1, LeavesAName DEF Vanished, Full, given

LEMMA VisitFileInv == WalkInv /\ VisitFile => WalkInv'
<1> SUFFICES ASSUME WalkInv, VisitFile PROVE WalkInv'
  OBVIOUS
<1>1. CASE TooLong(Full)
  <2>1. Leftover \in Names
    BY Zenon DEF Names
  <2>2. QED
    BY <1>1, <2>1, LeavesAName DEF VisitFile, given
<1>2. CASE ~TooLong(Full)
  <2>1. WalkTypeOK /\ Parts /\ AtEntry /\ frames # <<>>
    BY DEF WalkInv, VisitFile, AtEntry
  <2>2. /\ Level \in Nat \ {0}
        /\ Taken \in WalkCalls /\ Len(Taken) = Level
        /\ \A k \in 1..Level : Taken[k].pos = frames[k].pos
    BY <2>1, TakenKeeps, OpenCall
  <2>3. path' = path /\ uncut' = uncut /\ listing' = listing /\ frames' = Taken
    BY <1>2 DEF VisitFile, given
  <2>4. Level' = Level /\ frames' # <<>> /\ \A k \in 1..Level : frames'[k].pos = frames[k].pos
    BY <2>2, <2>3 DEF Level
  <2>5. \A k \in 1..Level : End(k)' = End(k) /\ Base(k)' = Base(k)
    BY <2>2, <2>3, <2>4, SMT DEF Base, End
  <2>6. Parts'
    BY <2>1, <2>3, <2>4, <2>5 DEF Parts
  <2>7. QED
    BY <2>1, <2>2, <2>3, <2>4, <2>6 DEF WalkInv, WalkTypeOK, PathRestored
<1>3. QED
  BY <1>1, <1>2

LEMMA WalkReturnInv == WalkInv /\ WalkReturn => WalkInv'
<1> SUFFICES ASSUME WalkInv, WalkReturn PROVE WalkInv'
  OBVIOUS
<1>1. WalkTypeOK /\ Parts /\ frames # <<>> /\ listing' = listing
  BY DEF WalkInv, WalkReturn, given
<1>2. /\ Level \in Nat \ {0} /\ Len(path) \in Nat
      /\ \A k \in 1..Level : frames[k] \in [todo : Seq(Names), pos : Nat]
      /\ Top.pos \in Nat
  BY <1>1, OpenCall
<1>3. uncut \subseteq 1..Level
  BY <1>1 DEF Parts, Level
<1>4. /\ frames' \in WalkCalls /\ Level' = Level - 1
      /\ \A k \in 1..(Level - 1) : frames'[k] = frames[k]
  <2>1. frames' = [k \in 1..(Level - 1) |-> frames[k]]
    BY <1>1, <1>2, SMT DEF WalkReturn, WalkTypeOK, WalkCalls, Level
  <2>2. frames' \in [1..(Level - 1) -> [todo : Seq(Names), pos : Nat]] /\ Level - 1 \in Nat
    BY <1>2, <2>1
  <2>3. frames' \in WalkCalls /\ Len(frames') = Level - 1
    BY <2>2, CallsAre
  <2>4. QED
    BY <2>1, <2>3 DEF Level
<1>5. CASE Level = 1
  <2>1. path' = path /\ uncut' = uncut /\ frames' = <<>> /\ rc' = rc
    BY <1>4, <1>5 DEF WalkReturn, WalkCalls, Level
  <2>2. 1 \notin uncut => path = <<>>
    <3>1. End(1) = Len(path) /\ Base(1) = 0
      BY <1>5 DEF End, Base
    <3>2. 1 \notin uncut => Len(path) = 0
      BY <1>1, <1>5, <3>1 DEF Parts
    <3>3. QED
      BY <1>1, <3>2 DEF WalkTypeOK
  <2>3. uncut \subseteq {1}
    BY <1>3, <1>5
  <2>4. Level' = 0
    BY <1>4, <1>5
  <2>5. QED
    BY <1>1, <1>4, <2>1, <2>2, <2>3, <2>4 DEF WalkInv, WalkTypeOK, Parts, PathRestored
<1>6. CASE Level > 1
  <2>1. path' = SubSeq(path, 1, Top.pos) /\ uncut' = uncut \ {Level}
    <3>1. Level # 1
      BY <1>2, <1>6
    <3>2. QED
      BY <3>1 DEF WalkReturn, CutTo
  <2>2. Top.pos + 1 <= Len(path)
    <3>1. End(Level) = Len(path) /\ Base(Level) = Top.pos + 1
      BY <1>6 DEF End, Base, Top
    <3>2. Level \in 1..Level
      BY <1>2
    <3>3. End(Level) >= Base(Level)
      BY <1>1, <3>2 DEF Parts
    <3>4. QED
      BY <1>2, <3>1, <3>3
  <2>3. path' \in Seq(Names) /\ Len(path') = Top.pos
    BY <1>1, <1>2, <2>1, <2>2 DEF WalkTypeOK
  <2>4. frames' # <<>>
    BY <1>2, <1>4, <1>6 DEF Level
  <2>5. ASSUME NEW k \in 1..Level'
        PROVE  End(k)' = End(k) /\ Base(k)' = Base(k)
    BY <1>2, <1>4, <1>6, <2>3, SMT DEF End, Base, Top
  <2>6. uncut' \subseteq 1..Level'
    BY <1>2, <1>3, <1>4, <2>1, SMT
  <2>7. Parts'
    <3>1. \A k \in 1..Level' : k \in 1..Level /\ (k \notin uncut' => k \notin uncut)
      BY <1>2, <1>4, <2>1, SMT
    <3>2. \A k \in 1..Level : End(k) >= Base(k) /\ (k \notin uncut => End(k) = Base(k))
      BY <1>1 DEF Parts
    <3>3. \A k \in 1..Level' : End(k)' >= Base(k)' /\ (k \notin uncut' => End(k)' = Base(k)')
      BY <2>5, <3>1, <3>2
    <3>4. QED
      BY <2>6, <3>3, Zenon DEF Parts
  <2>8. QED
    BY <1>1, <1>4, <2>1, <2>3, <2>4, <2>7 DEF WalkInv, WalkTypeOK, PathRestored
<1>7. QED
  BY <1>2, <1>5, <1>6

LEMMA WalkStepInv == WalkInv /\ [WalkNext]_walkVars => WalkInv'
<1> SUFFICES ASSUME WalkInv, [WalkNext]_walkVars PROVE WalkInv'
  OBVIOUS
<1>1. CASE EnterDir
  BY <1>1, EnterDirInv
<1>2. CASE Vanished
  BY <1>2, VanishedInv
<1>3. CASE VisitFile
  BY <1>3, VisitFileInv
<1>4. CASE WalkReturn
  BY <1>4, WalkReturnInv
<1>5. CASE EndOfDir \/ RemoveDir \/ UNCHANGED walkVars
  BY <1>5 DEF EndOfDir, RemoveDir, walkVars, given, WalkInv, WalkTypeOK, Parts,
              PathRestored, Base, End, Level
<1>6. CASE WalkStart
  BY <1>6, WalkStartInv
<1>7. QED
  BY <1>1, <1>2, <1>3, <1>4, <1>5, <1>6 DEF WalkNext

(* filesystem_recursedirectories gives the path back as it was but for a   *)
(* '/' at its end, on every way out, unless the outermost level left a     *)
(* name in it itself.                                                      *)
THEOREM PathIsRestored == WalkSpec => []PathRestored
<1>1. WalkInv => PathRestored
  BY DEF WalkInv
<1>2. QED
  BY <1>1, WalkInitInv, WalkStepInv, PTL DEF WalkSpec

-----------------------------------------------------------------------------
(* Of the tree that a walk shows, and of the buffer it does it with.       *)

(* What FlattenSeq of the library computes: the table of what the first i  *)
(* of the sequences of p make.                                             *)
IsTable(f, p) == f = [i \in 1..Len(p) |-> IF i = 1 THEN p[i] ELSE f[i - 1] \o p[i]]

LEMMA TableIsThere ==
  ASSUME NEW S, NEW p \in Seq(Seq(S)), p # <<>>
  PROVE  \E f \in [1..Len(p) -> Seq(S)] : IsTable(f, p)
<1> DEFINE D == 1..Len(p)
           V == Seq(S)
           N == Len(p)
           rank == [i \in D |-> i]
           step == [f \in [D -> V] |-> [i \in D |-> IF i = 1 THEN p[i] ELSE f[i - 1] \o p[i]]]
<1>1. Len(p) \in Nat \ {0} /\ <<>> \in V /\ \A i \in D : p[i] \in V
  <2>1. p \in Seq(V) /\ <<>> \in V
    OBVIOUS
  <2> HIDE DEF V
  <2>2. QED
    BY <2>1
<1>2. \A x, y \in V : x \o y \in V
  OBVIOUS
<1>3. \A i \in D : i # 1 => i - 1 \in D
  BY <1>1
<1>4. ASSUME NEW f \in [D -> V], NEW i \in D PROVE (IF i = 1 THEN p[i] ELSE f[i - 1] \o p[i]) \in V
  <2> HIDE DEF D, V
  <2>1. QED
    BY <1>1, <1>2, <1>3
<1>5. step \in [[D -> V] -> [D -> V]]
  <2> HIDE DEF D, V
  <2>1. QED
    BY <1>4
<1>6. rank \in [D -> 0..N] /\ N \in Nat
  BY <1>1
<1>7. DependsBelow(step, rank, D, V)
  <2> SUFFICES ASSUME NEW f \in [D -> V], NEW g \in [D -> V], NEW i \in D,
                      \A e \in D : rank[e] < rank[i] => f[e] = g[e]
               PROVE  step[f][i] = step[g][i]
    BY DEF DependsBelow
  <2>1. i # 1 => i - 1 \in D /\ rank[i - 1] < rank[i]
    BY <1>1
  <2>2. i # 1 => f[i - 1] = g[i - 1]
    BY <2>1
  <2> HIDE DEF D, V
  <2>3. QED
    BY <2>2
<1>8. HasFixpoint(step, D, V)
  <2> HIDE DEF D, V, N, rank, step
  <2>1. QED
    BY <1>1, <1>5, <1>6, <1>7, Recursion
<1>9. PICK f \in [D -> V] : f = step[f]
  BY <1>8, Zenon DEF HasFixpoint
<1>10. step[f] = [i \in D |-> IF i = 1 THEN p[i] ELSE f[i - 1] \o p[i]]
  <2> HIDE DEF D, V
  <2>1. f \in [D -> V]
    BY <1>9
  <2>2. QED
    BY <2>1, Zenon
<1>11. IsTable(f, p)
  <2> HIDE DEF V, step
  <2>1. QED
    BY <1>9, <1>10 DEF IsTable
<1>12. QED
  BY <1>11

LEMMA FlattenIsTable ==
  ASSUME NEW S, NEW p \in Seq(Seq(S)), p # <<>>
  PROVE  \E f \in [1..Len(p) -> Seq(S)] : IsTable(f, p) /\ FlattenSeq(p) = f[Len(p)]
<1>1. Len(p) # 0
  BY EmptySeq
<1>2. PICK t \in [1..Len(p) -> Seq(S)] : IsTable(t, p)
  BY TableIsThere
<1> DEFINE f == CHOOSE h : IsTable(h, p)
<1>3. IsTable(f, p)
  BY <1>2, Zenon
<1>4. FlattenSeq(p) = f[Len(p)]
  BY <1>1, Zenon DEF FlattenSeq, IsTable
<1>5. f = t
  <2>1. \A g, h : IsTable(g, p) /\ IsTable(h, p) => g = h
    <3> SUFFICES ASSUME NEW g, NEW h, IsTable(g, p), IsTable(h, p) PROVE g = h
      OBVIOUS
    <3> DEFINE bad == {i \in 1..Len(p) : g[i] # h[i]}
    <3>0. Len(p) \in Nat
      OBVIOUS
    <3>1. bad = {}
      <4> SUFFICES ASSUME bad # {} PROVE FALSE
        OBVIOUS
      <4>1. bad \in SUBSET Nat
        OBVIOUS
      <4>2. PICK i \in bad : \A k \in bad : i <= k
        BY <4>1, Least
      <4>3. i \in 1..Len(p) /\ g[i] # h[i]
        OBVIOUS
      <4>4. /\ g[i] = IF i = 1 THEN p[i] ELSE g[i - 1] \o p[i]
            /\ h[i] = IF i = 1 THEN p[i] ELSE h[i - 1] \o p[i]
        BY <4>3, Zenon DEF IsTable
      <4>5. i # 1 /\ g[i - 1] # h[i - 1]
        BY <4>3, <4>4
      <4>6. i - 1 \in 1..Len(p) /\ ~(i <= i - 1)
        BY <3>0, <4>3, <4>5
      <4>7. QED
        BY <4>2, <4>5, <4>6
    <3>2. \A u, v : u = [i \in 1..Len(p) |-> IF i = 1 THEN p[i] ELSE v[i - 1] \o p[i]] =>
                      u = [i \in 1..Len(p) |-> u[i]]
      OBVIOUS
    <3>3. g = [i \in 1..Len(p) |-> g[i]] /\ h = [i \in 1..Len(p) |-> h[i]]
      BY <3>2, Zenon DEF IsTable
    <3>4. \A i \in 1..Len(p) : g[i] = h[i]
      BY <3>1
    <3>5. QED
      BY <3>3, <3>4, Zenon
  <2>2. QED
    BY <1>2, <1>3, <2>1, Zenon
<1>6. QED
  BY <1>2, <1>3, <1>4, <1>5


LEMMA FlattenType ==
  ASSUME NEW S, NEW p \in Seq(Seq(S))
  PROVE  FlattenSeq(p) \in Seq(S) /\ FlattenSeq(<<>>) = <<>>
<1>1. FlattenSeq(<<>>) = <<>>
  BY SMT DEF FlattenSeq
<1>2. ASSUME p # <<>> PROVE FlattenSeq(p) \in Seq(S)
  <2>1. PICK f \in [1..Len(p) -> Seq(S)] : FlattenSeq(p) = f[Len(p)]
    BY <1>2, FlattenIsTable, Zenon
  <2>2. Len(p) \in 1..Len(p)
    BY <1>2
  <2>3. QED
    BY <2>1, <2>2, Zenon
<1>3. <<>> \in Seq(S)
  OBVIOUS
<1>4. QED
  BY <1>1, <1>2, <1>3, Zenon

LEMMA TableRows ==
  ASSUME NEW p, NEW f, IsTable(f, p), NEW i \in 1..Len(p)
  PROVE  f[i] = IF i = 1 THEN p[i] ELSE f[i - 1] \o p[i]
BY Zenon DEF IsTable

LEMMA FlattenCons ==
  ASSUME NEW S, NEW p \in Seq(Seq(S)), p # <<>>
  PROVE  FlattenSeq(p) = p[1] \o FlattenSeq(Tail(p))
<1> DEFINE V == Seq(S)
           q == Tail(p)
           n == Len(q)
<1>1. /\ q \in Seq(V) /\ n \in Nat /\ Len(p) = n + 1
      /\ \A i \in 1..n : q[i] = p[i + 1] /\ q[i] \in V
      /\ p[1] \in V
  <2>1. p \in Seq(V)
    OBVIOUS
  <2> HIDE DEF V
  <2>2. QED
    BY <2>1, HeadTailProperties, LenProperties, ElementOfSeq
<1>2. \A s \in V : s \o <<>> = s
  OBVIOUS
<1>3. \A s, t, u \in V : (s \o t) \o u = s \o (t \o u)
  BY ConcatAssociative
<1>4. PICK f \in [1..Len(p) -> V] : IsTable(f, p) /\ FlattenSeq(p) = f[Len(p)]
  BY FlattenIsTable, Zenon
<1>5. f[1] = p[1]
  BY <1>1, <1>4, TableRows
<1>6. CASE q = <<>>
  <2>1. Len(p) = 1
    <3>1. Len(<<>>) = 0
      OBVIOUS
    <3>2. n = 0
      BY <1>6, <3>1, Zenon
    <3>3. Len(p) = n + 1
      BY <1>1
    <3> HIDE DEF n, q
    <3>4. QED
      BY <3>2, <3>3
  <2>2. FlattenSeq(q) = <<>>
    BY <1>6, FlattenType
  <2>3. QED
    BY <1>1, <1>2, <1>4, <1>5, <2>1, <2>2, Zenon
<1>7. CASE q # <<>>
  <2>1. PICK g \in [1..n -> V] : IsTable(g, q) /\ FlattenSeq(q) = g[n]
    BY <1>1, <1>7, FlattenIsTable, Zenon
  <2>2. n \in 1..n
    BY <1>1, <1>7, EmptySeq
  <2> DEFINE bad == {i \in 1..n : f[i + 1] # p[1] \o g[i]}
  <2>3. bad = {}
    <3> SUFFICES ASSUME bad # {} PROVE FALSE
      OBVIOUS
    <3>1. bad \in SUBSET Nat
      OBVIOUS
    <3>2. PICK i \in bad : \A k \in bad : i <= k
      BY <3>1, Least
    <3>3. i \in 1..n /\ f[i + 1] # p[1] \o g[i]
      OBVIOUS
    <3>4. i + 1 \in 1..Len(p) /\ i + 1 # 1 /\ (i + 1) - 1 = i /\ (i # 1 => i - 1 \in 1..n)
      <4>1. i \in 1..n /\ n \in Nat /\ Len(p) = n + 1
        BY <1>1, <3>3
      <4> HIDE DEF bad, n, q, V
      <4>2. QED
        BY <4>1
    <3>5. f[i + 1] = f[i] \o p[i + 1]
      <4>1. f[i + 1] = IF i + 1 = 1 THEN p[i + 1] ELSE f[(i + 1) - 1] \o p[i + 1]
        BY <1>4, <3>4, TableRows, Zenon
      <4>2. QED
        BY <3>4, <4>1, Zenon
    <3> HIDE DEF bad, n, q, V
    <3>6. g[i] = IF i = 1 THEN q[i] ELSE g[i - 1] \o q[i]
      BY <2>1, <3>3, TableRows, Zenon DEF n
    <3>7. q[i] = p[i + 1]
      BY <1>1, <3>3
    <3>8. CASE i = 1
      <4>1. f[i] = p[1] /\ g[i] = q[i]
        BY <1>5, <3>6, <3>8, Zenon
      <4>2. QED
        BY <3>3, <3>5, <3>7, <4>1, Zenon
    <3>9. CASE i # 1
      <4>1. i - 1 \in 1..n /\ ~(i <= i - 1) /\ (i - 1) + 1 = i
        BY <3>3, <3>4, <3>9
      <4>2. f[i] = p[1] \o g[i - 1]
        BY <3>2, <4>1 DEF bad
      <4>3. g[i - 1] \in V /\ q[i] \in V /\ p[1] \in V
        BY <1>1, <2>1, <3>3, <4>1, Zenon
      <4>4. (p[1] \o g[i - 1]) \o q[i] = p[1] \o (g[i - 1] \o q[i])
        BY <1>3, <4>3, Zenon
      <4>5. QED
        BY <3>3, <3>5, <3>6, <3>7, <3>9, <4>2, <4>4, Zenon
    <3>10. QED
      BY <3>8, <3>9
  <2>4. f[n + 1] = p[1] \o g[n]
    BY <2>2, <2>3
  <2>5. QED
    BY <1>1, <1>4, <2>1, <2>4, Zenon
<1>8. QED
  BY <1>6, <1>7

(* Paths: u before each of s; what the entry e adds when f has the files   *)
(* below each directory; what the entries s add.                           *)
Paths          == Seq(Seq(Names))
Prefixed(u, s) == [k \in DOMAIN s |-> u \o s[k]]
Block(f, e)    == IF e \in Dirs THEN Prefixed(<<e>>, f[e]) ELSE <<<<e>>>>
Blocks(f, s)   == [i \in DOMAIN s |-> Block(f, s[i])]
FilesOf(f, s)  == FlattenSeq(Blocks(f, s))
IsFiles(f, l)  == f = [d \in Dirs |-> FilesOf(f, l[d])]

LEMMA PrefixedType ==
  ASSUME NEW u \in Seq(Names), NEW s \in Paths
  PROVE  /\ Prefixed(u, s) \in Paths /\ Len(Prefixed(u, s)) = Len(s)
         /\ \A k \in 1..Len(s) : Prefixed(u, s)[k] = u \o s[k] /\ s[k] \in Seq(Names)
<1> DEFINE V == Seq(Names)
<1>1. s \in Seq(V)
  BY DEF Paths
<1>2. \A v, w \in V : v \o w \in V
  OBVIOUS
<1>3. u \in V
  OBVIOUS
<1> HIDE DEF V
<1>4. DOMAIN s = 1..Len(s) /\ Len(s) \in Nat /\ \A k \in 1..Len(s) : s[k] \in V
  BY <1>1
<1>5. Prefixed(u, s) \in [1..Len(s) -> V]
  BY <1>2, <1>3, <1>4 DEF Prefixed
<1>6. Prefixed(u, s) \in Seq(V) /\ Len(Prefixed(u, s)) = Len(s)
  BY <1>4, <1>5
<1>7. \A k \in 1..Len(s) : Prefixed(u, s)[k] = u \o s[k]
  BY <1>4 DEF Prefixed
<1>8. QED
  BY <1>4, <1>6, <1>7 DEF V, Paths

LEMMA BlocksType ==
  ASSUME NEW f \in [Dirs -> Paths], NEW s \in Seq(Names)
  PROVE  /\ \A e \in Names : Block(f, e) \in Paths
         /\ Blocks(f, s) \in Seq(Paths) /\ Len(Blocks(f, s)) = Len(s)
         /\ \A i \in 1..Len(s) : Blocks(f, s)[i] = Block(f, s[i]) /\ s[i] \in Names
         /\ FilesOf(f, s) \in Paths
<1>1. ASSUME NEW e \in Names PROVE Block(f, e) \in Paths
  <2>1. <<e>> \in Seq(Names) /\ <<<<e>>>> \in Paths
    BY DEF Paths
  <2>2. QED
    BY <2>1, PrefixedType DEF Block
<1>2. DOMAIN s = 1..Len(s) /\ Len(s) \in Nat /\ \A i \in 1..Len(s) : s[i] \in Names
  OBVIOUS
<1>3. Blocks(f, s) \in [1..Len(s) -> Paths]
  BY <1>1, <1>2, Zenon DEF Blocks
<1>4. Blocks(f, s) \in Seq(Paths) /\ Len(Blocks(f, s)) = Len(s)
  BY <1>2, <1>3
<1>5. FilesOf(f, s) \in Paths
  BY <1>4, FlattenType DEF FilesOf, Paths
<1>6. QED
  BY <1>1, <1>2, <1>4, <1>5, Zenon DEF Blocks

(* The deepest have the lowest rank.                                       *)
Ranks(rank, l) == \A d, e \in Dirs : e \in ToSet(l[d]) => rank[e] < rank[d]

LEMMA Ranked ==
  ASSUME NEW l \in Listings
  PROVE  /\ Cardinality(Dirs) \in Nat
         /\ \E rank \in [Dirs -> 0..Cardinality(Dirs)] : Ranks(rank, l)
<1> DEFINE N == Cardinality(Dirs)
<1>1. N \in Nat
  BY DirWalkAssumption, FS_CardinalityType
<1>2. PICK depth \in [Dirs -> 0..N] :
        \A d, e \in Dirs : e \in ToSet(l[d]) => depth[d] < depth[e]
  BY DirWalkAssumption, Zenon
<1> HIDE DEF N
<1> DEFINE rank == [d \in Dirs |-> N - depth[d]]
<1>3. rank \in [Dirs -> 0..N]
  BY <1>1, <1>2
<1>4. ASSUME NEW d \in Dirs, NEW e \in Dirs, e \in ToSet(l[d]) PROVE rank[e] < rank[d]
  <2>1. depth[d] < depth[e] /\ depth[d] \in 0..N /\ depth[e] \in 0..N
    BY <1>2, <1>4, Zenon
  <2>2. QED
    BY <1>1, <2>1
<1> HIDE DEF rank
<1>5. Ranks(rank, l)
  BY <1>4, Zenon DEF Ranks
<1>6. QED
  BY <1>1, <1>3, <1>5, Zenon DEF N

(* What a directory's files are depends on the deeper directories only.    *)
LEMMA FilesDepend ==
  ASSUME NEW f, NEW g, NEW s \in Seq(Names), \A e \in ToSet(s) \cap Dirs : f[e] = g[e]
  PROVE  FilesOf(f, s) = FilesOf(g, s)
<1>1. \A i \in DOMAIN s : Block(f, s[i]) = Block(g, s[i])
  BY Zenon DEF Block, ToSet
<1>2. Blocks(f, s) = Blocks(g, s)
  BY <1>1 DEF Blocks
<1>3. QED
  BY <1>2 DEF FilesOf

LEMMA FilesAre ==
  ASSUME NEW l \in Listings
  PROVE  /\ FilesBelow(l) \in [Dirs -> Paths]
         /\ \A d \in Dirs : /\ l[d] \in Seq(Names)
                            /\ FilesBelow(l)[d] = FilesOf(FilesBelow(l), l[d])
<1> DEFINE N == Cardinality(Dirs)
           step == [f \in [Dirs -> Paths] |-> [d \in Dirs |-> FilesOf(f, l[d])]]
<1>1. PICK rank \in [Dirs -> 0..N] : Ranks(rank, l) /\ N \in Nat
  BY Ranked
<1>2. \A d \in Dirs : l[d] \in Seq(Names)
  BY DirWalkAssumption
<1>3. step \in [[Dirs -> Paths] -> [Dirs -> Paths]]
  <2>1. \A f \in [Dirs -> Paths], d \in Dirs : FilesOf(f, l[d]) \in Paths
    BY <1>2, BlocksType
  <2>2. QED
    BY <2>1
<1>4. DependsBelow(step, rank, Dirs, Paths)
  <2> SUFFICES ASSUME NEW f \in [Dirs -> Paths], NEW g \in [Dirs -> Paths], NEW d \in Dirs,
                      \A e \in Dirs : rank[e] < rank[d] => f[e] = g[e]
               PROVE  step[f][d] = step[g][d]
    BY DEF DependsBelow
  <2>1. \A e \in ToSet(l[d]) \cap Dirs : f[e] = g[e]
    BY <1>1, Zenon DEF Ranks
  <2>2. FilesOf(f, l[d]) = FilesOf(g, l[d])
    BY <1>2, <2>1, FilesDepend
  <2>3. QED
    BY <2>2, Zenon
<1>5. <<>> \in Paths
  BY DEF Paths
<1>6. HasFixpoint(step, Dirs, Paths)
  <2> HIDE DEF N, step
  <2>1. QED
    BY <1>1, <1>3, <1>4, <1>5, Recursion
<1>7. PICK t \in [Dirs -> Paths] : t = step[t]
  BY <1>6, Zenon DEF HasFixpoint
<1>8. \A d \in Dirs : t[d] = FilesOf(t, l[d])
  <2>1. step[t] = [d \in Dirs |-> FilesOf(t, l[d])]
    BY <1>7, Zenon
  <2> HIDE DEF step
  <2>2. QED
    BY <1>7, <2>1, Zenon
<1>9. IsFiles(t, l)
  <2>1. step[t] = [d \in Dirs |-> FilesOf(t, l[d])]
    BY <1>7, Zenon
  <2> HIDE DEF step
  <2>2. QED
    BY <1>7, <2>1, Zenon DEF IsFiles
<1> DEFINE c == CHOOSE f : IsFiles(f, l)
<1>10. IsFiles(c, l)
  BY <1>9, Zenon
<1>11. FilesBelow(l) = c
  BY Zenon DEF FilesBelow, IsFiles, FilesOf, Blocks, Block, Prefixed
<1> HIDE DEF c
<1>12. \A d \in Dirs : c[d] = FilesOf(c, l[d])
  BY <1>10, Zenon DEF IsFiles
<1>13. c = [d \in Dirs |-> c[d]]
  <2>1. \A u, v : u = [d \in Dirs |-> FilesOf(v, l[d])] => u = [d \in Dirs |-> u[d]]
    OBVIOUS
  <2>2. QED
    BY <1>10, <2>1, Zenon DEF IsFiles
<1> DEFINE bad == {d \in Dirs : c[d] # t[d]}
<1>14. bad = {}
  <2> SUFFICES ASSUME bad # {} PROVE FALSE
    OBVIOUS
  <2>1. rank \in [Dirs -> Nat] /\ bad \in SUBSET Dirs
    <3> HIDE DEF N
    <3>1. QED
      BY <1>1
  <2>2. PICK d \in bad : \A e \in bad : rank[d] <= rank[e]
    BY <2>1, Lowest
  <2>3. \A e \in Dirs : rank[e] < rank[d] => c[e] = t[e]
    BY <2>1, <2>2
  <2>4. d \in Dirs /\ c[d] # t[d]
    OBVIOUS
  <2>5. \A e \in ToSet(l[d]) \cap Dirs : c[e] = t[e]
    BY <1>1, <2>3, <2>4, Zenon DEF Ranks
  <2>6. FilesOf(c, l[d]) = FilesOf(t, l[d])
    BY <1>2, <2>4, <2>5, FilesDepend
  <2>7. QED
    BY <1>8, <1>12, <2>4, <2>6, Zenon
<1>15. c = t
  <2>1. \A d \in Dirs : c[d] = t[d]
    BY <1>14
  <2>2. t = [d \in Dirs |-> t[d]]
    OBVIOUS
  <2>3. QED
    BY <1>13, <2>1, <2>2, Zenon
<1>16. QED
  BY <1>2, <1>7, <1>8, <1>11, <1>15, Zenon


LEMMA PathsJoin ==
  /\ \A s, t \in Paths : s \o t \in Paths
  /\ \A s, t, u \in Paths : (s \o t) \o u = s \o (t \o u)
  /\ \A s \in Paths : s \o <<>> = s /\ <<>> \o s = s
  /\ <<>> \in Paths
<1> DEFINE V == Seq(Names)
<1>1. Paths = Seq(V)
  BY DEF Paths
<1> HIDE DEF V
<1>2. QED
  BY <1>1, ConcatProperties, ConcatAssociative, ConcatEmptySeq

LEMMA PathJoin ==
  /\ \A s, t \in Seq(Names) : s \o t \in Seq(Names)
  /\ \A s, t, u \in Seq(Names) : (s \o t) \o u = s \o (t \o u)
BY ConcatProperties, ConcatAssociative

LEMMA FilesCons ==
  ASSUME NEW f \in [Dirs -> Paths], NEW s \in Seq(Names), s # <<>>
  PROVE  /\ Head(s) \in Names /\ Tail(s) \in Seq(Names)
         /\ FilesOf(f, s) = Block(f, Head(s)) \o FilesOf(f, Tail(s))
<1> DEFINE b == Blocks(f, s)
           t == Tail(s)
<1>1. /\ Head(s) \in Names /\ t \in Seq(Names) /\ Head(s) = s[1]
      /\ Len(s) \in Nat /\ 1 \in 1..Len(s)
      /\ Len(t) = Len(s) - 1 /\ \A i \in 1..Len(t) : t[i] = s[i + 1]
  BY HeadTailProperties
<1>2. /\ b \in Seq(Paths) /\ Len(b) = Len(s)
      /\ \A i \in 1..Len(s) : b[i] = Block(f, s[i])
  BY BlocksType
<1>3. /\ Blocks(f, t) \in Seq(Paths) /\ Len(Blocks(f, t)) = Len(t)
      /\ \A i \in 1..Len(t) : Blocks(f, t)[i] = Block(f, t[i])
  BY <1>1, BlocksType
<1> HIDE DEF b, t
<1>4. b # <<>>
  <2>1. Len(b) # 0
    BY <1>1, <1>2
  <2>2. Len(<<>>) = 0
    OBVIOUS
  <2>3. QED
    BY <2>1, <2>2, Zenon
<1>5. Tail(b) \in Seq(Paths) /\ Len(Tail(b)) = Len(b) - 1 /\ \A i \in 1..Len(Tail(b)) : Tail(b)[i] = b[i + 1]
  BY <1>2, <1>4, HeadTailProperties
<1>6. Tail(b) = Blocks(f, t)
  <2>1. Len(Tail(b)) = Len(Blocks(f, t)) /\ Len(Tail(b)) = Len(t)
    BY <1>1, <1>2, <1>3, <1>5
  <2>2. \A i \in 1..Len(Tail(b)) : Tail(b)[i] = Blocks(f, t)[i]
    <3> SUFFICES ASSUME NEW i \in 1..Len(Tail(b)) PROVE Tail(b)[i] = Blocks(f, t)[i]
      OBVIOUS
    <3>1. i \in 1..Len(t) /\ i + 1 \in 1..Len(s)
      BY <1>1, <2>1
    <3>2. Tail(b)[i] = Block(f, s[i + 1])
      BY <1>2, <1>5, <3>1, Zenon
    <3>3. QED
      BY <1>1, <1>3, <3>1, <3>2, Zenon
  <2>3. QED
    BY <1>3, <1>5, <2>1, <2>2, SeqEqual
<1>7. FlattenSeq(b) = b[1] \o FlattenSeq(Tail(b))
  BY <1>2, <1>4, FlattenCons DEF Paths
<1>8. b[1] = Block(f, Head(s))
  BY <1>1, <1>2
<1>9. QED
  BY <1>1, <1>6, <1>7, <1>8, Zenon DEF FilesOf, b, t

LEMMA NoFiles == \A f : FilesOf(f, <<>>) = <<>>
<1>1. \A f : Blocks(f, <<>>) = <<>>
  BY DEF Blocks
<1>2. FlattenSeq(<<>>) = <<>>
  <2>1. <<>> \in Seq(Seq(Names))
    OBVIOUS
  <2>2. QED
    BY <2>1, FlattenType
<1>3. QED
  BY <1>1, <1>2, Zenon DEF FilesOf

LEMMA PrefixedJoin ==
  ASSUME NEW u \in Seq(Names), NEW s \in Paths, NEW t \in Paths
  PROVE  Prefixed(u, s \o t) = Prefixed(u, s) \o Prefixed(u, t)
<1> DEFINE V == Seq(Names)
<1>0. Paths = Seq(V)
  BY DEF Paths
<1>1. /\ s \o t \in Seq(V) /\ Len(s \o t) = Len(s) + Len(t) /\ Len(s) \in Nat /\ Len(t) \in Nat
      /\ \A i \in 1..(Len(s) + Len(t)) : (s \o t)[i] = IF i <= Len(s) THEN s[i] ELSE t[i - Len(s)]
  <2> HIDE DEF V
  <2>1. QED
    BY <1>0, ConcatProperties, LenProperties
<1>2. /\ Prefixed(u, s) \in Seq(V) /\ Len(Prefixed(u, s)) = Len(s)
      /\ \A k \in 1..Len(s) : Prefixed(u, s)[k] = u \o s[k]
  BY <1>0, PrefixedType
<1>3. /\ Prefixed(u, t) \in Seq(V) /\ Len(Prefixed(u, t)) = Len(t)
      /\ \A k \in 1..Len(t) : Prefixed(u, t)[k] = u \o t[k]
  BY <1>0, PrefixedType
<1>4. /\ Prefixed(u, s \o t) \in Seq(V) /\ Len(Prefixed(u, s \o t)) = Len(s \o t)
      /\ \A k \in 1..Len(s \o t) : Prefixed(u, s \o t)[k] = u \o (s \o t)[k]
  BY <1>0, <1>1, PrefixedType
<1> HIDE DEF V
<1> DEFINE a == Prefixed(u, s)
           b == Prefixed(u, t)
           c == Prefixed(u, s \o t)
<1>5. /\ a \o b \in Seq(V) /\ Len(a \o b) = Len(s) + Len(t)
      /\ \A i \in 1..(Len(s) + Len(t)) : (a \o b)[i] = IF i <= Len(s) THEN a[i] ELSE b[i - Len(s)]
  <2>1. a \in Seq(V) /\ b \in Seq(V) /\ Len(a) = Len(s) /\ Len(b) = Len(t)
    BY <1>2, <1>3
  <2> HIDE DEF a, b
  <2>2. /\ a \o b \in Seq(V) /\ Len(a \o b) = Len(a) + Len(b)
        /\ \A i \in 1..(Len(a) + Len(b)) :
             (a \o b)[i] = IF i <= Len(a) THEN a[i] ELSE b[i - Len(a)]
    BY <2>1, ConcatProperties
  <2>3. QED
    BY <2>1, <2>2, Zenon
<1>6. ASSUME NEW i \in 1..(Len(s) + Len(t)) PROVE c[i] = (a \o b)[i]
  <2>1. c[i] = u \o (s \o t)[i]
    BY <1>1, <1>4
  <2>2. CASE i <= Len(s)
    <3>1. i \in 1..Len(s)
      BY <1>1, <2>2
    <3>2. a[i] = u \o s[i]
      BY <1>2, <3>1
    <3>3. (s \o t)[i] = s[i] /\ (a \o b)[i] = a[i]
      BY <1>1, <1>5, <2>2, Zenon
    <3>4. QED
      BY <2>1, <3>2, <3>3, Zenon
  <2>3. CASE ~(i <= Len(s))
    <3>1. i - Len(s) \in 1..Len(t)
      BY <1>1, <2>3
    <3>2. b[i - Len(s)] = u \o t[i - Len(s)]
      BY <1>3, <3>1
    <3>3. (s \o t)[i] = t[i - Len(s)] /\ (a \o b)[i] = b[i - Len(s)]
      BY <1>1, <1>5, <2>3, Zenon
    <3>4. QED
      BY <2>1, <3>2, <3>3, Zenon
  <2>4. QED
    BY <2>2, <2>3
<1>7. c \in Seq(V) /\ Len(c) = Len(s) + Len(t)
  BY <1>1, <1>4
<1>8. QED
  <2>1. \A i \in 1..Len(c) : c[i] = (a \o b)[i]
    BY <1>6, <1>7
  <2>2. Len(c) = Len(a \o b)
    BY <1>5, <1>7
  <2> HIDE DEF a, b, c
  <2>3. c = a \o b
    BY <1>5, <1>7, <2>1, <2>2, SeqEqual
  <2>4. QED
    BY <2>3 DEF a, b, c

LEMMA PrefixedTwice ==
  ASSUME NEW u \in Seq(Names), NEW w \in Seq(Names), NEW s \in Paths
  PROVE  Prefixed(u, Prefixed(w, s)) = Prefixed(u \o w, s)
<1>1. \A k \in 1..Len(s) : Prefixed(w, s)[k] = w \o s[k] /\ s[k] \in Seq(Names)
  BY PrefixedType
<1>2. \A k \in 1..Len(s) : u \o (w \o s[k]) = (u \o w) \o s[k]
  BY <1>1, PathJoin
<1>3. DOMAIN s = 1..Len(s) /\ DOMAIN Prefixed(w, s) = DOMAIN s
  BY DEF Paths, Prefixed
<1>4. \A k \in DOMAIN s : u \o Prefixed(w, s)[k] = (u \o w) \o s[k]
  BY <1>1, <1>2, <1>3, Zenon
<1>5. [k \in DOMAIN s |-> u \o Prefixed(w, s)[k]] = [k \in DOMAIN s |-> (u \o w) \o s[k]]
  BY <1>4, Zenon
<1>6. QED
  BY <1>3, <1>5, Zenon DEF Prefixed


LEMMA PrefixStays ==
  ASSUME NEW S, NEW p \in Seq(S), NEW c \in S, NEW i \in 0..Len(p)
  PROVE  /\ SubSeq(Append(p, c), 1, i) = SubSeq(p, 1, i)
         /\ \A j \in 1..i : Append(p, c)[j] = p[j]
<1>1. Len(p) \in Nat /\ \A j \in 1..Len(p) : Append(p, c)[j] = p[j]
  BY AppendProperties, LenProperties
<1>2. \A j \in 1..i : j \in 1..Len(p)
  BY <1>1
<1>3. CASE i = 0
  <2>1. SubSeq(Append(p, c), 1, 0) = <<>> /\ SubSeq(p, 1, 0) = <<>>
    BY SubSeqEmpty
  <2>2. QED
    BY <1>1, <1>2, <1>3, <2>1, Zenon
<1>4. CASE i # 0
  <2>1. i \in 1..Len(p) /\ 1 \in 1..Len(p) /\ <<c>> \in Seq(S)
    BY <1>1, <1>4
  <2>2. SubSeq(p \o <<c>>, 1, i) = SubSeq(p, 1, i)
    BY <2>1, SubSeqOfConcat1
  <2>3. Append(p, c) = p \o <<c>>
    BY AppendIsConcat
  <2>4. QED
    BY <1>1, <1>2, <2>2, <2>3, Zenon
<1>5. QED
  BY <1>3, <1>4

LEMMA PrefixOfPrefix ==
  ASSUME NEW S, NEW p \in Seq(S), NEW n \in 0..Len(p), NEW i \in 0..n
  PROVE  /\ SubSeq(p, 1, n) \in Seq(S) /\ Len(SubSeq(p, 1, n)) = n
         /\ SubSeq(SubSeq(p, 1, n), 1, i) = SubSeq(p, 1, i)
         /\ \A j \in 1..n : SubSeq(p, 1, n)[j] = p[j]
<1>1. Len(p) \in Nat /\ \A j \in 1..n : j \in 1..Len(p) /\ p[j] \in S
  BY LenProperties, ElementOfSeq
<1>2. /\ SubSeq(p, 1, n) \in Seq(S) /\ Len(SubSeq(p, 1, n)) = IF 1 <= n THEN n - 1 + 1 ELSE 0
      /\ \A j \in 1..(n - 1 + 1) : SubSeq(p, 1, n)[j] = p[1 + j - 1]
  <2>1. n \in Int /\ 1 \in Int
    BY <1>1
  <2>2. QED
    BY <1>1, <2>1, SubSeqProperties
<1>3. Len(SubSeq(p, 1, n)) = n /\ \A j \in 1..n : SubSeq(p, 1, n)[j] = p[j]
  BY <1>1, <1>2
<1>4. CASE i = 0
  <2>1. SubSeq(SubSeq(p, 1, n), 1, 0) = <<>> /\ SubSeq(p, 1, 0) = <<>>
    BY SubSeqEmpty
  <2>2. QED
    BY <1>2, <1>3, <1>4, <2>1, Zenon
<1>5. CASE i # 0
  <2>1. 1 \in 1..Len(p) /\ n \in 1..Len(p) /\ i \in 1..(n - 1 + 1) /\ 1 \in 1..(n - 1 + 1)
    BY <1>1, <1>5
  <2>2. SubSeq(SubSeq(p, 1, n), 1, i) = SubSeq(p, 1 + 1 - 1, 1 + i - 1)
    BY <2>1, SubSeqOfSubSeq
  <2>3. 1 + 1 - 1 = 1 /\ 1 + i - 1 = i
    BY <1>1
  <2>4. QED
    BY <1>2, <1>3, <2>2, <2>3, Zenon
<1>6. QED
  BY <1>4, <1>5

(* What is left of the walk: td[k] is to do at level k of n, behind the    *)
(* first k - 1 names of p; after v that makes all.                         *)
Remains(f, n, td, p, v, all) ==
  \E rest \in [0..n -> Paths] :
    /\ rest[0] = <<>> /\ v \o rest[n] = all
    /\ \A k \in 1..n :
         rest[k] = Prefixed(SubSeq(p, 1, k - 1), FilesOf(f, td[k])) \o rest[k - 1]

LEMMA RemainsVisit ==
  ASSUME NEW f \in [Dirs -> Paths], NEW n \in Nat \ {0}, NEW td \in [1..n -> Seq(Names)],
         NEW p \in Seq(Names), Len(p) = n - 1, NEW v \in Paths, NEW all,
         td[n] # <<>>, Head(td[n]) \notin Dirs,
         NEW td2 \in [1..n -> Seq(Names)], td2[n] = Tail(td[n]),
         \A k \in 1..(n - 1) : td2[k] = td[k],
         Remains(f, n, td, p, v, all)
  PROVE  Remains(f, n, td2, p, Append(v, Append(p, Head(td[n]))), all)
<1> DEFINE e  == Head(td[n])
           x  == <<Append(p, e)>>
           r  == Prefixed(p, FilesOf(f, td2[n]))
<1>1. PICK rest \in [0..n -> Paths] :
        /\ rest[0] = <<>> /\ v \o rest[n] = all
        /\ \A k \in 1..n :
             rest[k] = Prefixed(SubSeq(p, 1, k - 1), FilesOf(f, td[k])) \o rest[k - 1]
  BY Zenon DEF Remains
<1>2. n \in 1..n /\ n - 1 \in 0..n /\ td[n] \in Seq(Names)
  OBVIOUS
<1>3. SubSeq(p, 1, n - 1) = p
  BY SubSeqFull
<1>4. /\ e \in Names /\ td2[n] \in Seq(Names)
      /\ FilesOf(f, td[n]) = <<<<e>>>> \o FilesOf(f, td2[n])
  BY <1>2, FilesCons, Zenon DEF Block
<1>5. <<e>> \in Seq(Names) /\ <<<<e>>>> \in Paths /\ FilesOf(f, td2[n]) \in Paths
  <2>1. FilesOf(f, td2[n]) \in Paths
    BY <1>4, BlocksType, Zenon
  <2> HIDE DEF e
  <2>2. QED
    BY <1>4, <2>1 DEF Paths
<1>6. Prefixed(p, <<<<e>>>>) = x
  <2>1. p \o <<e>> = Append(p, e)
    BY <1>4, AppendIsConcat
  <2>2. Prefixed(p, <<<<e>>>>) = <<p \o <<e>>>>
    <3>1. \A w, u : [k \in DOMAIN <<w>> |-> u \o <<w>>[k]] = <<u \o w>>
      OBVIOUS
    <3>2. QED
      BY <3>1, Zenon DEF Prefixed
  <2>3. QED
    BY <2>1, <2>2, Zenon
<1>7. rest[n] = (x \o r) \o rest[n - 1]
  <2>1. Prefixed(p, FilesOf(f, td[n])) = x \o r
    <3> HIDE DEF e
    <3>1. Prefixed(p, <<<<e>>>> \o FilesOf(f, td2[n])) =
            Prefixed(p, <<<<e>>>>) \o Prefixed(p, FilesOf(f, td2[n]))
      BY <1>5, PrefixedJoin
    <3>2. QED
      BY <1>4, <1>6, <3>1, Zenon
  <2>2. QED
    BY <1>1, <1>2, <1>3, <2>1, Zenon
<1>8. x \in Paths /\ r \in Paths /\ rest[n - 1] \in Paths
  <2>1. x \in Paths
    BY <1>5, <1>6, PrefixedType
  <2>2. QED
    BY <1>1, <1>2, <1>5, <2>1, PrefixedType
<1>9. Append(v, Append(p, e)) = v \o x
  <2>1. Append(p, e) \in Seq(Names)
    BY <1>4, AppendProperties
  <2>2. QED
    BY <2>1, AppendIsConcat DEF Paths
<1> DEFINE rest2 == [k \in 0..n |-> IF k = n THEN r \o rest[n - 1] ELSE rest[k]]
<1> HIDE DEF e, x, r
<1>10. rest2 \in [0..n -> Paths]
  BY <1>1, <1>8, PathsJoin
<1>11. rest2[0] = <<>> /\ rest2[n] = r \o rest[n - 1] /\ rest2[n - 1] = rest[n - 1]
  BY <1>1, <1>2
<1>12. (v \o x) \o rest2[n] = all
  <2>1. (v \o x) \o (r \o rest[n - 1]) = v \o (x \o (r \o rest[n - 1]))
    <3> DEFINE y == r \o rest[n - 1]
    <3>1. y \in Paths /\ v \in Paths /\ x \in Paths
      BY <1>8, PathsJoin, Zenon
    <3> HIDE DEF y
    <3>2. (v \o x) \o y = v \o (x \o y)
      BY <3>1, PathsJoin
    <3>3. QED
      BY <3>2, Zenon DEF y
  <2>2. x \o (r \o rest[n - 1]) = (x \o r) \o rest[n - 1]
    BY <1>8, PathsJoin, Zenon
  <2>3. QED
    BY <1>1, <1>7, <1>11, <2>1, <2>2, Zenon
<1>13. ASSUME NEW k \in 1..n
       PROVE  rest2[k] = Prefixed(SubSeq(p, 1, k - 1), FilesOf(f, td2[k])) \o rest2[k - 1]
  <2>1. CASE k = n
    BY <1>3, <1>11, <2>1, Zenon DEF r
  <2>2. CASE k # n
    <3>1. k \in 1..(n - 1) /\ k - 1 \in 0..n /\ k - 1 # n /\ k \in 0..n
      BY <2>2
    <3>2. rest2[k] = rest[k] /\ rest2[k - 1] = rest[k - 1] /\ td2[k] = td[k]
      BY <2>2, <3>1
    <3> HIDE DEF rest2
    <3>3. QED
      BY <1>1, <3>2, Zenon
  <2>3. QED
    BY <2>1, <2>2
<1> HIDE DEF rest2
<1>14. QED
  BY <1>9, <1>10, <1>11, <1>12, <1>13, Zenon DEF Remains, e

LEMMA RemainsEnter ==
  ASSUME NEW f \in [Dirs -> Paths], NEW n \in Nat \ {0}, NEW td \in [1..n -> Seq(Names)],
         NEW p \in Seq(Names), Len(p) = n - 1, NEW v \in Paths, NEW all,
         td[n] # <<>>, Head(td[n]) \in Dirs,
         NEW td2 \in [1..(n + 1) -> Seq(Names)], td2[n] = Tail(td[n]),
         \A k \in 1..(n - 1) : td2[k] = td[k],
         f[Head(td[n])] = FilesOf(f, td2[n + 1]),
         Remains(f, n, td, p, v, all)
  PROVE  Remains(f, n + 1, td2, Append(p, Head(td[n])), v, all)
<1> DEFINE e  == Head(td[n])
           p2 == Append(p, e)
           x  == Prefixed(p2, f[e])
           r  == Prefixed(p, FilesOf(f, td2[n]))
<1>1. PICK rest \in [0..n -> Paths] :
        /\ rest[0] = <<>> /\ v \o rest[n] = all
        /\ \A k \in 1..n :
             rest[k] = Prefixed(SubSeq(p, 1, k - 1), FilesOf(f, td[k])) \o rest[k - 1]
  BY Zenon DEF Remains
<1>2. /\ n \in 1..n /\ n - 1 \in 0..n /\ td[n] \in Seq(Names)
      /\ n \in 1..(n + 1) /\ td2[n] \in Seq(Names)
  OBVIOUS
<1>3. SubSeq(p, 1, n - 1) = p
  BY SubSeqFull
<1>4. /\ e \in Names
      /\ FilesOf(f, td[n]) = Prefixed(<<e>>, f[e]) \o FilesOf(f, td2[n])
  BY <1>2, FilesCons, Zenon DEF Block
<1>5. /\ <<e>> \in Seq(Names) /\ f[e] \in Paths /\ FilesOf(f, td2[n]) \in Paths
      /\ Prefixed(<<e>>, f[e]) \in Paths
  <2>1. <<e>> \in Seq(Names) /\ f[e] \in Paths
    BY <1>4
  <2>2. QED
    BY <1>2, <2>1, BlocksType, PrefixedType
<1>6. p2 = p \o <<e>> /\ p2 \in Seq(Names) /\ Len(p2) = n
  BY <1>4, AppendIsConcat, AppendProperties
<1>7. rest[n] = (x \o r) \o rest[n - 1]
  <2>1. Prefixed(p, Prefixed(<<e>>, f[e])) = x
    <3> HIDE DEF e, p2
    <3>1. Prefixed(p, Prefixed(<<e>>, f[e])) = Prefixed(p \o <<e>>, f[e])
      BY <1>5, PrefixedTwice
    <3>2. QED
      BY <1>6, <3>1, Zenon
  <2>2. Prefixed(p, FilesOf(f, td[n])) = x \o r
    <3> HIDE DEF e
    <3> DEFINE y == Prefixed(<<e>>, f[e])
               z == FilesOf(f, td2[n])
    <3>1. y \in Paths /\ z \in Paths
      BY <1>5
    <3> HIDE DEF y, z
    <3>2. Prefixed(p, y \o z) = Prefixed(p, y) \o Prefixed(p, z)
      BY <3>1, PrefixedJoin
    <3>3. QED
      BY <1>4, <2>1, <3>2, Zenon DEF y, z
  <2>3. QED
    BY <1>1, <1>2, <1>3, <2>2, Zenon
<1>8. x \in Paths /\ r \in Paths /\ rest[n - 1] \in Paths
  BY <1>1, <1>2, <1>5, <1>6, PrefixedType
<1>9. ASSUME NEW k \in 1..n PROVE SubSeq(p2, 1, k - 1) = SubSeq(p, 1, k - 1)
  <2>1. k - 1 \in 0..Len(p)
    OBVIOUS
  <2>2. QED
    BY <1>4, <2>1, PrefixStays
<1>10. SubSeq(p2, 1, n) = p2
  BY <1>6, SubSeqFull
<1> DEFINE m     == n + 1
           rest2 == [k \in 0..m |-> IF k = m THEN rest[n]
                                    ELSE IF k = n THEN r \o rest[n - 1] ELSE rest[k]]
<1>11. m \in Nat \ {0} /\ m - 1 = n /\ n # m /\ n # 0
  OBVIOUS
<1> HIDE DEF e, x, r, p2
<1>12. rest2 \in [0..m -> Paths]
  <2>1. r \o rest[n - 1] \in Paths /\ rest[n] \in Paths
    BY <1>1, <1>8, PathsJoin
  <2>2. \A k \in 0..m : k # m => k \in 0..n
    OBVIOUS
  <2> HIDE DEF m
  <2>3. QED
    BY <1>1, <2>1, <2>2
<1>13. /\ rest2[0] = <<>> /\ rest2[m] = rest[n]
       /\ rest2[n] = r \o rest[n - 1] /\ rest2[n - 1] = rest[n - 1]
  BY <1>1, <1>2
<1>14. v \o rest2[m] = all
  BY <1>1, <1>13
<1>15. ASSUME NEW k \in 1..m
       PROVE  rest2[k] = Prefixed(SubSeq(p2, 1, k - 1), FilesOf(f, td2[k])) \o rest2[k - 1]
  <2>1. CASE k = m
    <3>1. k - 1 = n
      BY <2>1
    <3>2. rest[n] = x \o rest2[n]
      <4>1. (x \o r) \o rest[n - 1] = x \o (r \o rest[n - 1])
        <5> DEFINE y == rest[n - 1]
        <5>1. y \in Paths /\ r \in Paths /\ x \in Paths
          BY <1>8
        <5> HIDE DEF y
        <5>2. (x \o r) \o y = x \o (r \o y)
          BY <5>1, PathsJoin
        <5>3. QED
          BY <5>2, Zenon DEF y
      <4>2. QED
        BY <1>7, <1>13, <4>1, Zenon
    <3>3. FilesOf(f, td2[m]) = f[e]
      BY Zenon DEF e
    <3> HIDE DEF rest2, m
    <3>4. QED
      BY <1>10, <1>13, <2>1, <3>1, <3>2, <3>3, Zenon DEF x
  <2>2. CASE k = n
    BY <1>3, <1>9, <1>2, <1>13, <2>2, Zenon DEF r
  <2>3. CASE k # n /\ k # m
    <3>1. k \in 1..(n - 1) /\ k - 1 \in 0..m /\ k - 1 # n /\ k - 1 # m /\ k \in 0..m /\ k \in 1..n
      BY <2>3
    <3>2. rest2[k] = rest[k] /\ rest2[k - 1] = rest[k - 1] /\ td2[k] = td[k]
      <4> HIDE DEF m
      <4>1. QED
        BY <2>3, <3>1
    <3> HIDE DEF rest2
    <3>3. QED
      BY <1>1, <1>9, <3>1, <3>2, Zenon
  <2>4. QED
    BY <2>1, <2>2, <2>3
<1> HIDE DEF rest2
<1>16. QED
  BY <1>12, <1>13, <1>14, <1>15, Zenon DEF Remains, e, m, p2

LEMMA RemainsReturn ==
  ASSUME NEW f \in [Dirs -> Paths], NEW n \in Nat \ {0}, NEW td \in [1..n -> Seq(Names)],
         NEW p \in Seq(Names), NEW p2 \in Seq(Names), NEW v \in Paths, NEW all,
         td[n] = <<>>, \A k \in 1..(n - 1) : SubSeq(p2, 1, k - 1) = SubSeq(p, 1, k - 1),
         NEW td2, \A k \in 1..(n - 1) : td2[k] = td[k],
         Remains(f, n, td, p, v, all)
  PROVE  Remains(f, n - 1, td2, p2, v, all)
<1>1. PICK rest \in [0..n -> Paths] :
        /\ rest[0] = <<>> /\ v \o rest[n] = all
        /\ \A k \in 1..n :
             rest[k] = Prefixed(SubSeq(p, 1, k - 1), FilesOf(f, td[k])) \o rest[k - 1]
  BY Zenon DEF Remains
<1>2. n \in 1..n /\ n - 1 \in 0..n /\ \A k \in 0..(n - 1) : k \in 0..n
  OBVIOUS
<1>3. \A u : Prefixed(u, <<>>) = <<>>
  BY DEF Prefixed
<1>4. rest[n] = rest[n - 1]
  <2>1. rest[n] = <<>> \o rest[n - 1] /\ rest[n - 1] \in Paths
    BY <1>1, <1>2, <1>3, NoFiles, Zenon
  <2>2. QED
    BY <2>1, PathsJoin
<1> DEFINE m     == n - 1
           rest2 == [k \in 0..m |-> rest[k]]
<1>5. rest2 \in [0..m -> Paths]
  BY <1>1, <1>2
<1>6. \A k \in 1..m : k \in 0..m /\ k - 1 \in 0..m /\ k \in 1..n
  OBVIOUS
<1>7. m \in 0..m /\ 0 \in 0..m
  OBVIOUS
<1> HIDE DEF m
<1>8. rest2[0] = <<>> /\ v \o rest2[m] = all
  BY <1>1, <1>4, <1>7 DEF m
<1>9. ASSUME NEW k \in 1..m
      PROVE  rest2[k] = Prefixed(SubSeq(p2, 1, k - 1), FilesOf(f, td2[k])) \o rest2[k - 1]
  <2>1. rest2[k] = rest[k] /\ rest2[k - 1] = rest[k - 1]
    BY <1>6
  <2>2. td2[k] = td[k] /\ SubSeq(p2, 1, k - 1) = SubSeq(p, 1, k - 1)
    BY Zenon DEF m
  <2> HIDE DEF rest2
  <2>3. QED
    BY <1>1, <1>6, <2>1, <2>2, Zenon
<1> HIDE DEF rest2
<1>10. QED
  BY <1>5, <1>8, <1>9, Zenon DEF Remains, m


LEMMA Largest ==
  ASSUME NEW n \in Nat, NEW T \in SUBSET (1..n), T # {}
  PROVE  Max(T) \in T /\ \A k \in T : k <= Max(T)
<1> DEFINE D    == 1..n
           rank == [k \in D |-> n - k]
<1>1. rank \in [D -> Nat] /\ T \in SUBSET D
  OBVIOUS
<1>2. PICK m \in T : \A k \in T : rank[m] <= rank[k]
  <2> HIDE DEF D, rank
  <2>1. QED
    BY <1>1, Lowest
<1>3. \A k \in T : m >= k
  <2> SUFFICES ASSUME NEW k \in T PROVE m >= k
    OBVIOUS
  <2>1. m \in D /\ k \in D
    OBVIOUS
  <2>2. rank[m] <= rank[k] /\ rank[m] = n - m /\ rank[k] = n - k
    BY <1>2, <2>1
  <2> HIDE DEF rank
  <2>3. QED
    BY <2>1, <2>2
<1>4. Max(T) \in T /\ \A k \in T : Max(T) >= k
  BY <1>3, Zenon DEF Max
<1>5. QED
  BY <1>4

(* What FoldLeft of the library makes of a path: the table of what the     *)
(* names at some of its places take.                                       *)
IsCount(c, p) ==
  c = [s \in SUBSET DOMAIN p |->
        IF s = {} THEN 0 ELSE c[s \ {Max(s)}] + 1 + NameLen[p[Max(s)]]]

LEMMA CountIsThere ==
  ASSUME NEW p \in Seq(Names)
  PROVE  /\ \E c : IsCount(c, p)
         /\ \A c : IsCount(c, p) => c[{}] = 0 /\ c[DOMAIN p] \in Nat
<1> DEFINE n == Len(p)
           D == SUBSET (1..n)
           rank == [s \in D |-> IF s = {} THEN 0 ELSE Max(s)]
           step == [c \in [D -> Nat] |-> [s \in D |->
                     IF s = {} THEN 0 ELSE c[s \ {Max(s)}] + 1 + NameLen[p[Max(s)]]]]
<1>1. n \in Nat /\ DOMAIN p = 1..n /\ \A i \in 1..n : NameLen[p[i]] \in Nat
  <2>1. n \in Nat /\ DOMAIN p = 1..n /\ \A i \in 1..n : p[i] \in Names
    OBVIOUS
  <2>2. NameLen \in [Names -> Nat]
    BY DirWalkAssumption
  <2>3. QED
    BY <2>1, <2>2, Zenon
<1> HIDE DEF n
<1>2. ASSUME NEW s \in D, s # {}
      PROVE  /\ Max(s) \in 1..n /\ s \ {Max(s)} \in D
             /\ rank[s \ {Max(s)}] < rank[s] /\ rank[s] = Max(s)
             /\ NameLen[p[Max(s)]] \in Nat
  <2>1. Max(s) \in s /\ \A k \in s : k <= Max(s)
    BY <1>1, <1>2, Largest
  <2>2. Max(s) \in 1..n /\ s \ {Max(s)} \in D /\ rank[s] = Max(s)
    BY <1>2, <2>1
  <2> DEFINE t == s \ {Max(s)}
  <2>3. CASE t = {}
    BY <1>1, <2>2, <2>3
  <2>4. CASE t # {}
    <3>1. Max(t) \in t /\ rank[t] = Max(t)
      BY <1>1, <2>2, <2>4, Largest
    <3>2. Max(t) \in s /\ Max(t) # Max(s)
      BY <3>1
    <3>3. Max(t) \in 1..n /\ Max(t) <= Max(s)
      BY <2>1, <3>2
    <3> HIDE DEF t
    <3>4. Max(t) < Max(s)
      <4>1. \A x, y \in 1..n : x <= y /\ x # y => x < y
        BY <1>1
      <4>2. QED
        BY <2>2, <3>2, <3>3, <4>1, Zenon
    <3>5. QED
      BY <1>1, <2>2, <3>1, <3>4, Zenon DEF t
  <2>5. QED
    BY <1>1, <2>2, <2>3, <2>4, Zenon
<1>3. rank \in [D -> 0..n]
  <2>1. \A s \in D : s # {} => Max(s) \in 0..n
    <3>1. \A k \in 1..n : k \in 0..n
      BY <1>1
    <3>2. QED
      BY <1>2, <3>1, Zenon
  <2>2. 0 \in 0..n
    BY <1>1
  <2>3. QED
    BY <2>1, <2>2
<1>4. ASSUME NEW c \in [D -> Nat], NEW s \in D
      PROVE  (IF s = {} THEN 0 ELSE c[s \ {Max(s)}] + 1 + NameLen[p[Max(s)]]) \in Nat
  <2>1. CASE s = {}
    BY <2>1
  <2>2. CASE s # {}
    <3> DEFINE a == c[s \ {Max(s)}]
               b == NameLen[p[Max(s)]]
    <3>1. a \in Nat /\ b \in Nat
      <4> HIDE DEF D, rank
      <4>1. QED
        BY <1>2, <2>2
    <3> HIDE DEF a, b
    <3>2. a + 1 + b \in Nat
      BY <3>1
    <3>3. QED
      BY <2>2, <3>2, Zenon DEF a, b
  <2>3. QED
    BY <2>1, <2>2
<1>5. step \in [[D -> Nat] -> [D -> Nat]]
  <2> HIDE DEF D
  <2>1. QED
    BY <1>4
<1>6. DependsBelow(step, rank, D, Nat)
  <2> SUFFICES ASSUME NEW f \in [D -> Nat], NEW g \in [D -> Nat], NEW s \in D,
                      \A e \in D : rank[e] < rank[s] => f[e] = g[e]
               PROVE  step[f][s] = step[g][s]
    BY DEF DependsBelow
  <2>1. s # {} => f[s \ {Max(s)}] = g[s \ {Max(s)}]
    <3> HIDE DEF D, rank
    <3>1. QED
      BY <1>2
  <2> HIDE DEF D, rank
  <2>2. QED
    BY <2>1
<1>7. HasFixpoint(step, D, Nat)
  <2> HIDE DEF D, rank, step
  <2>1. QED
    BY <1>1, <1>3, <1>5, <1>6, Recursion
<1>8. PICK t \in [D -> Nat] : t = step[t]
  BY <1>7, Zenon DEF HasFixpoint
<1>9. IsCount(t, p)
  <2>1. step[t] = [s \in D |-> IF s = {} THEN 0 ELSE t[s \ {Max(s)}] + 1 + NameLen[p[Max(s)]]]
    BY <1>8, Zenon
  <2> HIDE DEF step
  <2>2. QED
    BY <1>1, <1>8, <2>1, Zenon DEF IsCount
<1>10. ASSUME NEW c, IsCount(c, p) PROVE c[{}] = 0 /\ c[DOMAIN p] \in Nat
  <2>1. \A s \in D : c[s] = IF s = {} THEN 0 ELSE c[s \ {Max(s)}] + 1 + NameLen[p[Max(s)]]
    BY <1>1, <1>10, Zenon DEF IsCount
  <2>2. {} \in D /\ 1..n \in D
    OBVIOUS
  <2> DEFINE bad == {s \in D : c[s] \notin Nat}
  <2>3. bad = {}
    <3> SUFFICES ASSUME bad # {} PROVE FALSE
      OBVIOUS
    <3>1. rank \in [D -> Nat] /\ bad \in SUBSET D
      <4> HIDE DEF rank, D
      <4>1. QED
        BY <1>1, <1>3
    <3>2. PICK s \in bad : \A e \in bad : rank[s] <= rank[e]
      <4> HIDE DEF rank, D, bad
      <4>1. QED
        BY <3>1, Lowest
    <3>3. s \in D /\ c[s] \notin Nat
      BY Zenon
    <3>4. s # {}
      <4>1. s = {} => c[s] = 0
        BY <2>1, <3>3, Zenon
      <4>2. QED
        BY <3>3, <4>1
    <3> HIDE DEF D, rank
    <3>5. s \ {Max(s)} \in D /\ rank[s \ {Max(s)}] < rank[s] /\ NameLen[p[Max(s)]] \in Nat
      BY <1>2, <3>3, <3>4
    <3>6. c[s \ {Max(s)}] \in Nat
      <4>1. rank[s \ {Max(s)}] \in Nat /\ rank[s] \in Nat
        BY <3>1, <3>3, <3>5
      <4>2. QED
        BY <3>2, <3>5, <4>1
    <3>7. c[s] = c[s \ {Max(s)}] + 1 + NameLen[p[Max(s)]]
      BY <2>1, <3>3, <3>4, Zenon
    <3>8. QED
      BY <3>3, <3>5, <3>6, <3>7
  <2>4. QED
    BY <1>1, <2>1, <2>2, <2>3
<1>11. QED
  BY <1>9, <1>10, Zenon

NamesLen(p) == (CHOOSE c : IsCount(c, p))[DOMAIN p]

LEMMA PathLenIs ==
  /\ \A q : PathLen(q) = rootLen + NamesLen(q)
  /\ \A q : PathLen(q)' = rootLen' + NamesLen(q)
BY Zenon DEF PathLen, FoldLeft, MapThenFoldSet, IsCount, NamesLen

LEMMA PathLenType ==
  ASSUME NEW p \in Seq(Names), rootLen \in Nat
  PROVE  PathLen(p) \in Nat /\ PathLen(<<>>) = rootLen
<1>1. \A q : PathLen(q) = rootLen + (CHOOSE c : IsCount(c, q))[DOMAIN q]
  BY PathLenIs, Zenon DEF NamesLen
<1>2. ASSUME NEW q \in Seq(Names)
      PROVE  LET c == CHOOSE d : IsCount(d, q) IN c[{}] = 0 /\ c[DOMAIN q] \in Nat
  BY CountIsThere, Zenon
<1>3. (CHOOSE c : IsCount(c, p))[DOMAIN p] \in Nat
  BY <1>2, Zenon
<1>4. (CHOOSE c : IsCount(c, <<>>))[DOMAIN <<>>] = 0
  <2>1. <<>> \in Seq(Names) /\ DOMAIN <<>> = {}
    OBVIOUS
  <2>2. QED
    BY <1>2, <2>1, Zenon
<1>5. QED
  BY <1>1, <1>3, <1>4

LEMMA PathLenOne ==
  ASSUME NEW x \in Names, rootLen \in Nat
  PROVE  PathLen(<<x>>) = rootLen + 1 + NameLen[x]
<1> DEFINE q == <<x>>
           c == CHOOSE d : IsCount(d, q)
<1>1. q \in Seq(Names) /\ DOMAIN q = {1} /\ q[1] = x
  OBVIOUS
<1>2. IsCount(c, q) /\ c[{}] = 0
  <2>1. (\E d : IsCount(d, q)) /\ \A d : IsCount(d, q) => d[{}] = 0
    BY <1>1, CountIsThere, Zenon
  <2>2. QED
    BY <2>1, Zenon
<1>3. PathLen(q) = rootLen + c[DOMAIN q]
  BY PathLenIs, Zenon DEF NamesLen
<1> HIDE DEF c, q
<1>4. Max({1}) = 1
  BY Largest
<1>5. c[{1}] = c[{1} \ {1}] + 1 + NameLen[x]
  <2>1. {1} \in SUBSET DOMAIN q /\ {1} # {}
    BY <1>1
  <2>2. c[{1}] = c[{1} \ {Max({1})}] + 1 + NameLen[q[Max({1})]]
    BY <1>2, <2>1, Zenon DEF IsCount
  <2>3. QED
    BY <1>1, <1>4, <2>2, Zenon
<1>6. {1} \ {1} = {}
  OBVIOUS
<1>7. NameLen[x] \in Nat
  BY DirWalkAssumption
<1>8. c[{1}] = 0 + 1 + NameLen[x]
  BY <1>2, <1>5, <1>6, Zenon
<1>9. PathLen(q) = rootLen + (0 + 1 + NameLen[x])
  BY <1>1, <1>3, <1>8, Zenon
<1>10. PathLen(q) = rootLen + 1 + NameLen[x]
  BY <1>7, <1>9
<1>11. QED
  BY <1>10, Zenon DEF q


(* What f has below the entries s, and the equation for all directories.   *)
DirsOf(f, s)  == UNION {{<<e>>} \cup {<<e>> \o p : p \in f[e]} : e \in ToSet(s) \cap Dirs}
IsDirs(f, l)  == f = [d \in Dirs |-> DirsOf(f, l[d])]

LEMMA DirsAre ==
  ASSUME NEW l \in Listings
  PROVE  \A d \in Dirs : \A e \in ToSet(l[d]) \cap Dirs :
           /\ <<e>> \in DirsBelow(l)[d]
           /\ \A p \in DirsBelow(l)[e] : <<e>> \o p \in DirsBelow(l)[d]
<1> DEFINE N == Cardinality(Dirs)
           V == SUBSET Seq(Dirs)
           step == [f \in [Dirs -> V] |-> [d \in Dirs |-> DirsOf(f, l[d])]]
<1>1. PICK rank \in [Dirs -> 0..N] : Ranks(rank, l) /\ N \in Nat
  BY Ranked
<1>2. step \in [[Dirs -> V] -> [Dirs -> V]]
  <2>1. ASSUME NEW f \in [Dirs -> V], NEW d \in Dirs PROVE DirsOf(f, l[d]) \in V
    <3>1. \A e \in Dirs : <<e>> \in Seq(Dirs) /\ \A p \in Seq(Dirs) : <<e>> \o p \in Seq(Dirs)
      BY ConcatProperties
    <3>2. \A e \in Dirs : f[e] \subseteq Seq(Dirs)
      OBVIOUS
    <3>3. \A e \in Dirs : {<<e>>} \cup {<<e>> \o p : p \in f[e]} \subseteq Seq(Dirs)
      BY <3>1, <3>2, Zenon
    <3>4. QED
      BY <3>3, Zenon DEF DirsOf
  <2> HIDE DEF V
  <2>2. QED
    BY <2>1
<1>3. DependsBelow(step, rank, Dirs, V)
  <2> SUFFICES ASSUME NEW f \in [Dirs -> V], NEW g \in [Dirs -> V], NEW d \in Dirs,
                      \A e \in Dirs : rank[e] < rank[d] => f[e] = g[e]
               PROVE  step[f][d] = step[g][d]
    BY DEF DependsBelow
  <2>1. \A e \in ToSet(l[d]) \cap Dirs : f[e] = g[e]
    BY <1>1, Zenon DEF Ranks
  <2>2. DirsOf(f, l[d]) = DirsOf(g, l[d])
    BY <2>1 DEF DirsOf
  <2> HIDE DEF V
  <2>3. QED
    BY <2>2, Zenon
<1>4. {} \in V
  OBVIOUS
<1>5. HasFixpoint(step, Dirs, V)
  <2> HIDE DEF N, V, step
  <2>1. QED
    BY <1>1, <1>2, <1>3, <1>4, Recursion
<1>6. PICK t \in [Dirs -> V] : t = step[t]
  BY <1>5, Zenon DEF HasFixpoint
<1>7. IsDirs(t, l)
  <2> HIDE DEF V
  <2>1. step[t] = [d \in Dirs |-> DirsOf(t, l[d])]
    BY <1>6, Zenon
  <2> HIDE DEF step
  <2>2. QED
    BY <1>6, <2>1, Zenon DEF IsDirs
<1> DEFINE c == CHOOSE f : IsDirs(f, l)
<1>8. IsDirs(c, l) /\ DirsBelow(l) = c
  BY <1>7, Zenon DEF DirsBelow, IsDirs, DirsOf
<1> HIDE DEF c
<1>9. \A d \in Dirs : c[d] = DirsOf(c, l[d])
  BY <1>8, Zenon DEF IsDirs
<1>10. QED
  <2> SUFFICES ASSUME NEW d \in Dirs, NEW e \in ToSet(l[d]) \cap Dirs
               PROVE  <<e>> \in c[d] /\ \A p \in c[e] : <<e>> \o p \in c[d]
    BY <1>8, Zenon
  <2> DEFINE A == {<<e>>} \cup {<<e>> \o p : p \in c[e]}
  <2>0. A \subseteq DirsOf(c, l[d])
    BY Zenon DEF DirsOf
  <2>1. <<e>> \in DirsOf(c, l[d]) /\ \A p \in c[e] : <<e>> \o p \in DirsOf(c, l[d])
    BY <2>0, Zenon
  <2>2. QED
    BY <1>9, <2>1, Zenon

(* A call with td to do in the directory whose path is u: what it will     *)
(* find lies below the root, and so does u.                                *)
Way(l, td, u) ==
  /\ \A x \in ToSet(FilesOf(FilesBelow(l), td)) : u \o x \in ToSet(FilesBelow(l)[Root])
  /\ \A e \in ToSet(td) \cap Dirs :
       /\ Append(u, e) \in DirsBelow(l)[Root]
       /\ \A p \in DirsBelow(l)[e] \cap Seq(Names) : Append(u, e) \o p \in DirsBelow(l)[Root]
  /\ u # <<>> => u \in DirsBelow(l)[Root]

LEMMA InSeq ==
  ASSUME NEW S, NEW s \in Seq(S), NEW t \in Seq(S)
  PROVE  /\ ToSet(s) \subseteq S
         /\ ToSet(s \o t) = ToSet(s) \cup ToSet(t)
<1>1. DOMAIN s = 1..Len(s) /\ DOMAIN t = 1..Len(t) /\ Len(s) \in Nat /\ Len(t) \in Nat
  OBVIOUS
<1>2. DOMAIN (s \o t) = 1..(Len(s) + Len(t))
  OBVIOUS
<1>3. \A i \in 1..(Len(s) + Len(t)) : (s \o t)[i] = IF i <= Len(s) THEN s[i] ELSE t[i - Len(s)]
  BY ConcatProperties
<1>4. ToSet(s) \subseteq S
  BY <1>1 DEF ToSet
<1>5. ASSUME NEW x \in ToSet(s \o t) PROVE x \in ToSet(s) \cup ToSet(t)
  <2>1. PICK i \in 1..(Len(s) + Len(t)) : x = (s \o t)[i]
    BY <1>2 DEF ToSet
  <2>2. CASE i <= Len(s)
    <3>1. i \in DOMAIN s /\ x = s[i]
      BY <1>1, <1>3, <2>1, <2>2
    <3>2. QED
      BY <3>1, Zenon DEF ToSet
  <2>3. CASE ~(i <= Len(s))
    <3>1. i - Len(s) \in DOMAIN t /\ x = t[i - Len(s)]
      BY <1>1, <1>3, <2>1, <2>3
    <3>2. QED
      BY <3>1, Zenon DEF ToSet
  <2>4. QED
    BY <2>2, <2>3
<1>6. ASSUME NEW x \in ToSet(s) PROVE x \in ToSet(s \o t)
  <2>1. PICK i \in 1..Len(s) : x = s[i]
    BY <1>1 DEF ToSet
  <2>2. i \in 1..(Len(s) + Len(t)) /\ i <= Len(s)
    BY <1>1
  <2>3. x = (s \o t)[i]
    BY <1>3, <2>1, <2>2, Zenon
  <2>4. QED
    BY <1>2, <2>2, <2>3, Zenon DEF ToSet
<1>7. ASSUME NEW x \in ToSet(t) PROVE x \in ToSet(s \o t)
  <2>1. PICK i \in 1..Len(t) : x = t[i]
    BY <1>1 DEF ToSet
  <2>2. i + Len(s) \in 1..(Len(s) + Len(t)) /\ ~(i + Len(s) <= Len(s)) /\ (i + Len(s)) - Len(s) = i
    BY <1>1
  <2>3. x = (s \o t)[i + Len(s)]
    BY <1>3, <2>1, <2>2, Zenon
  <2>4. QED
    BY <1>2, <2>2, <2>3, Zenon DEF ToSet
<1>8. QED
  BY <1>4, <1>5, <1>6, <1>7

LEMMA InList ==
  ASSUME NEW S, NEW s \in Seq(S), s # <<>>
  PROVE  Head(s) \in ToSet(s) /\ ToSet(Tail(s)) \subseteq ToSet(s)
<1>1. Tail(s) \in Seq(S) /\ Len(Tail(s)) = Len(s) - 1 /\ \A i \in 1..Len(Tail(s)) : Tail(s)[i] = s[i + 1]
  BY HeadTailProperties
<1>2. DOMAIN s = 1..Len(s) /\ DOMAIN Tail(s) = 1..Len(Tail(s)) /\ Len(s) \in Nat /\ 1 \in 1..Len(s)
  BY <1>1, LenProperties, EmptySeq
<1>3. Head(s) = s[1]
  OBVIOUS
<1> DEFINE t == Tail(s)
<1> HIDE DEF t
<1>4. \A i \in 1..Len(t) : i + 1 \in 1..Len(s)
  BY <1>1, <1>2 DEF t
<1>5. QED
  BY <1>1, <1>2, <1>3, <1>4, Zenon DEF ToSet, t


LEMMA WayStart ==
  ASSUME NEW l \in Listings
  PROVE  Way(l, l[Root], <<>>)
<1> DEFINE F == FilesBelow(l)
           B == DirsBelow(l)
<1>1. F[Root] = FilesOf(F, l[Root]) /\ F[Root] \in Paths /\ l[Root] \in Seq(Names)
  BY FilesAre, DirWalkAssumption
<1>2. \A x \in ToSet(F[Root]) : <<>> \o x = x
  <2>1. \A x \in ToSet(F[Root]) : x \in Seq(Names)
    BY <1>1, InSeq DEF Paths
  <2>2. QED
    BY <2>1, ConcatEmptySeq
<1>3. \A e : Append(<<>>, e) = <<e>>
  OBVIOUS
<1>4. \A e \in ToSet(l[Root]) \cap Dirs : <<e>> \in B[Root] /\ \A p \in B[e] : <<e>> \o p \in B[Root]
  BY DirsAre, DirWalkAssumption, Zenon
<1> HIDE DEF F, B
<1>5. \A x \in ToSet(FilesOf(F, l[Root])) : <<>> \o x \in ToSet(F[Root])
  BY <1>1, <1>2, Zenon
<1>6. QED
  BY <1>3, <1>4, <1>5, Zenon DEF Way, F, B

LEMMA WayOn ==
  ASSUME NEW l \in Listings, NEW td \in Seq(Names), td # <<>>, NEW u, Way(l, td, u)
  PROVE  Way(l, Tail(td), u)
<1> DEFINE F == FilesBelow(l)
           b == Block(F, Head(td))
           r == FilesOf(F, Tail(td))
<1>1. F \in [Dirs -> Paths]
  BY FilesAre
<1> HIDE DEF F
<1>2. Head(td) \in Names /\ Tail(td) \in Seq(Names) /\ FilesOf(F, td) = b \o r
  BY <1>1, FilesCons
<1>3. b \in Paths /\ r \in Paths
  BY <1>1, <1>2, BlocksType
<1> HIDE DEF b, r
<1>4. ToSet(r) \subseteq ToSet(b \o r)
  BY <1>3, InSeq DEF Paths
<1>5. \A x \in ToSet(FilesOf(F, Tail(td))) : x \in ToSet(FilesOf(F, td))
  BY <1>2, <1>4, Zenon DEF r
<1>6. ToSet(Tail(td)) \subseteq ToSet(td)
  BY InList
<1>7. QED
  BY <1>5, <1>6, Zenon DEF Way, F

LEMMA WayFile ==
  ASSUME NEW l \in Listings, NEW td \in Seq(Names), td # <<>>, NEW u \in Seq(Names),
         Way(l, td, u), Head(td) \notin Dirs
  PROVE  Append(u, Head(td)) \in ToSet(FilesBelow(l)[Root])
<1> DEFINE F == FilesBelow(l)
           e == Head(td)
           r == FilesOf(F, Tail(td))
<1>1. F \in [Dirs -> Paths]
  BY FilesAre
<1> HIDE DEF F
<1>2. e \in Names /\ Tail(td) \in Seq(Names) /\ FilesOf(F, td) = <<<<e>>>> \o r
  BY <1>1, FilesCons, Zenon DEF Block
<1>3. r \in Paths
  BY <1>1, <1>2, BlocksType
<1> HIDE DEF e, r
<1>4. <<<<e>>>> \in Paths /\ <<e>> \in ToSet(<<<<e>>>>)
  <2>1. <<<<e>>>> \in Paths
    BY <1>2 DEF Paths
  <2>2. \A x : x \in ToSet(<<x>>)
    BY DEF ToSet
  <2>3. QED
    BY <2>1, <2>2, Zenon
<1>5. <<e>> \in ToSet(<<<<e>>>> \o r)
  <2> DEFINE a == <<<<e>>>>
  <2>1. a \in Seq(Seq(Names)) /\ r \in Seq(Seq(Names))
    BY <1>3, <1>4 DEF Paths
  <2> HIDE DEF a
  <2>2. ToSet(a \o r) = ToSet(a) \cup ToSet(r)
    BY <2>1, InSeq
  <2>3. QED
    BY <1>4, <2>2, Zenon DEF a
<1>6. u \o <<e>> \in ToSet(F[Root])
  BY <1>2, <1>5, Zenon DEF Way, F
<1>7. Append(u, e) = u \o <<e>>
  BY <1>2, AppendIsConcat
<1>8. QED
  BY <1>6, <1>7, Zenon DEF F, e

LEMMA WayDown ==
  ASSUME NEW l \in Listings, NEW td \in Seq(Names), td # <<>>, NEW u \in Seq(Names),
         Way(l, td, u), Head(td) \in Dirs
  PROVE  /\ Way(l, l[Head(td)], Append(u, Head(td)))
         /\ Append(u, Head(td)) \in DirsBelow(l)[Root]
<1> DEFINE F  == FilesBelow(l)
           B  == DirsBelow(l)
           e  == Head(td)
           u2 == Append(u, e)
           r  == FilesOf(F, Tail(td))
<1>1. F \in [Dirs -> Paths] /\ F[e] = FilesOf(F, l[e]) /\ l[e] \in Seq(Names)
  BY FilesAre
<1>2. \A d \in ToSet(l[e]) \cap Dirs : <<d>> \in B[e] /\ \A p \in B[d] : <<d>> \o p \in B[e]
  BY DirsAre, Zenon
<1>3. e \in ToSet(td) /\ e \in Names /\ ToSet(l[e]) \subseteq Names
  BY <1>1, InList, InSeq, FilesCons
<1>4. /\ \A x \in ToSet(FilesOf(F, td)) : u \o x \in ToSet(F[Root])
      /\ u2 \in B[Root] /\ \A p \in B[e] \cap Seq(Names) : u2 \o p \in B[Root]
  BY <1>3, Zenon DEF Way
<1>5. Tail(td) \in Seq(Names) /\ FilesOf(F, td) = Prefixed(<<e>>, F[e]) \o r
  <2> HIDE DEF F
  <2>1. QED
    BY <1>1, FilesCons, Zenon DEF Block
<1>6. F[e] \in Paths /\ r \in Paths
  <2> HIDE DEF F, e
  <2>1. QED
    BY <1>1, <1>5, BlocksType DEF e
<1> HIDE DEF F, B, e, r
<1>7. u2 = u \o <<e>> /\ u2 \in Seq(Names) /\ <<e>> \in Seq(Names)
  BY <1>3, AppendIsConcat, AppendProperties
<1> HIDE DEF u2
<1>8. ASSUME NEW x \in ToSet(F[e]) PROVE u2 \o x \in ToSet(F[Root])
  <2>1. x \in Seq(Names)
    BY <1>6, InSeq DEF Paths
  <2>2. <<e>> \o x \in ToSet(Prefixed(<<e>>, F[e]))
    BY Zenon DEF ToSet, Prefixed
  <2>3. Prefixed(<<e>>, F[e]) \in Paths
    BY <1>6, <1>7, PrefixedType
  <2>4. <<e>> \o x \in ToSet(FilesOf(F, td))
    <3> DEFINE a == Prefixed(<<e>>, F[e])
    <3>1. a \in Seq(Seq(Names)) /\ r \in Seq(Seq(Names))
      BY <1>6, <2>3 DEF Paths
    <3> HIDE DEF a
    <3>2. ToSet(a \o r) = ToSet(a) \cup ToSet(r)
      BY <3>1, InSeq
    <3>3. QED
      BY <1>5, <2>2, <3>2, Zenon DEF a
  <2>5. u \o (<<e>> \o x) = u2 \o x
    BY <1>7, <2>1, PathJoin, Zenon
  <2>6. QED
    BY <1>4, <2>4, <2>5, Zenon
<1>9. ASSUME NEW d \in ToSet(l[e]) \cap Dirs
      PROVE  /\ Append(u2, d) \in B[Root]
             /\ \A p \in B[d] \cap Seq(Names) : Append(u2, d) \o p \in B[Root]
  <2>1. d \in Names /\ <<d>> \in Seq(Names)
    BY <1>3
  <2>2. Append(u2, d) = u2 \o <<d>>
    BY <1>7, <2>1, AppendIsConcat
  <2>3. u2 \o <<d>> \in B[Root]
    BY <1>2, <1>4, <2>1, Zenon
  <2>4. ASSUME NEW p \in B[d] \cap Seq(Names) PROVE (u2 \o <<d>>) \o p \in B[Root]
    <3>1. <<d>> \o p \in B[e] /\ <<d>> \o p \in Seq(Names)
      BY <1>2, <2>1, PathJoin, Zenon
    <3>2. u2 \o (<<d>> \o p) \in B[Root]
      BY <1>4, <3>1, Zenon
    <3>3. (u2 \o <<d>>) \o p = u2 \o (<<d>> \o p)
      BY <1>7, <2>1, PathJoin, Zenon
    <3>4. QED
      BY <3>2, <3>3, Zenon
  <2>5. QED
    BY <2>2, <2>3, <2>4, Zenon
<1>10. \A x \in ToSet(FilesOf(F, l[e])) : u2 \o x \in ToSet(F[Root])
  BY <1>1, <1>8, Zenon
<1>11. Way(l, l[e], u2)
  BY <1>4, <1>9, <1>10, Zenon DEF Way, F, B
<1>12. QED
  BY <1>4, <1>11, Zenon DEF u2, e, B


(* The call at level k, with td to do, has been entered by the first k - 1 *)
(* names of p: each is a directory in the one before.                      *)
At(p, k) == IF k = 1 THEN Root ELSE p[k - 1]

Link(l, td, p, k) ==
  /\ At(p, k) \in Dirs /\ ToSet(td) \subseteq ToSet(l[At(p, k)])
  /\ k > 1 => p[k - 1] \in ToSet(l[At(p, k - 1)])
  /\ Way(l, td, SubSeq(p, 1, k - 1))

LEMMA LinkStays ==
  ASSUME NEW l, NEW td, NEW p, NEW p2, NEW k \in Nat \ {0}, Link(l, td, p, k),
         SubSeq(p2, 1, k - 1) = SubSeq(p, 1, k - 1), \A i \in 1..(k - 1) : p2[i] = p[i]
  PROVE  Link(l, td, p2, k)
<1>1. At(p2, k) = At(p, k) /\ (k > 1 => p2[k - 1] = p[k - 1])
  BY DEF At
<1>2. k > 1 => At(p2, k - 1) = At(p, k - 1)
  BY DEF At
<1>3. QED
  BY <1>1, <1>2, Zenon DEF Link

LEMMA LinkOn ==
  ASSUME NEW l \in Listings, NEW td \in Seq(Names), td # <<>>, NEW p, NEW k, Link(l, td, p, k)
  PROVE  Link(l, Tail(td), p, k)
<1>1. ToSet(Tail(td)) \subseteq ToSet(td)
  BY InList
<1>2. Way(l, Tail(td), SubSeq(p, 1, k - 1))
  BY WayOn DEF Link
<1>3. QED
  BY <1>1, <1>2, Zenon DEF Link

LEMMA LinkDown ==
  ASSUME NEW l \in Listings, NEW td \in Seq(Names), td # <<>>,
         NEW k \in Nat \ {0}, NEW p \in Seq(Names), Len(p) = k - 1,
         Link(l, td, p, k), Head(td) \in Dirs
  PROVE  Link(l, l[Head(td)], Append(p, Head(td)), k + 1)
<1> DEFINE e  == Head(td)
           p2 == Append(p, e)
<1>1. e \in ToSet(td) /\ e \in Names
  <2>1. ToSet(td) \subseteq Names
    BY InSeq
  <2>2. QED
    BY <2>1, InList
<1>2. SubSeq(p, 1, k - 1) = p
  BY SubSeqFull
<1>3. Way(l, l[e], p2)
  BY <1>2, WayDown DEF Link
<1>4. p2 \in Seq(Names) /\ Len(p2) = k /\ p2[k] = e /\ \A i \in 1..(k - 1) : p2[i] = p[i]
  <2> HIDE DEF e
  <2>1. QED
    BY <1>1, AppendProperties
<1>5. SubSeq(p2, 1, k) = p2
  BY <1>4, SubSeqFull
<1> HIDE DEF e, p2
<1>6. k + 1 > 1 /\ (k + 1) - 1 = k /\ k + 1 # 1
  OBVIOUS
<1>7. At(p2, k + 1) = e
  BY <1>4, <1>6 DEF At
<1>8. At(p2, k) = At(p, k)
  BY <1>4 DEF At
<1>9. e \in ToSet(l[At(p, k)])
  BY <1>1, Zenon DEF Link
<1>10. Link(l, l[e], p2, k + 1)
  <2>1. p2[(k + 1) - 1] \in ToSet(l[At(p2, (k + 1) - 1)])
    BY <1>4, <1>6, <1>8, <1>9, Zenon
  <2>2. Way(l, l[e], SubSeq(p2, 1, (k + 1) - 1))
    BY <1>3, <1>5, <1>6, Zenon
  <2>3. e \in Dirs
    BY DEF e
  <2>4. QED
    BY <1>7, <2>1, <2>2, <2>3, Zenon DEF Link
<1>11. QED
  BY <1>10, Zenon DEF e, p2

LEMMA RemainsPrefix ==
  ASSUME NEW f, NEW n \in Nat, NEW td, NEW p, NEW v \in Paths, NEW all, Remains(f, n, td, p, v, all)
  PROVE  IsPrefix(v, all) /\ (n = 0 => v = all)
<1>1. PICK rest \in [0..n -> Paths] : rest[0] = <<>> /\ v \o rest[n] = all
  BY Zenon DEF Remains
<1> DEFINE r == rest[n]
           V == Seq(Names)
<1>2. r \in Seq(V) /\ v \in Seq(V)
  BY <1>1 DEF Paths
<1>3. n = 0 => v = all
  <2>1. v \o <<>> = v
    BY PathsJoin
  <2>2. QED
    BY <1>1, <2>1, Zenon
<1> HIDE DEF r, V
<1>4. Len(v) \in Nat /\ Len(r) \in Nat /\ Len(v \o r) = Len(v) + Len(r) /\ v \o r \in Seq(V)
  BY <1>2, ConcatProperties, LenProperties
<1>5. SubSeq(v \o r, 1, Len(v)) = SubSeq(v, 1, Len(v))
  <2>1. CASE Len(v) = 0
    <3>1. SubSeq(v \o r, 1, 0) = <<>> /\ SubSeq(v, 1, 0) = <<>>
      BY SubSeqEmpty
    <3>2. QED
      BY <2>1, <3>1, Zenon
  <2>2. CASE Len(v) # 0
    <3>1. 1 \in 1..Len(v) /\ Len(v) \in 1..Len(v)
      BY <1>4, <2>2
    <3>2. QED
      BY <1>2, <3>1, SubSeqOfConcat1
  <2>3. QED
    BY <2>1, <2>2
<1>6. Len(v) <= Len(v \o r)
  BY <1>4
<1>7. v \o r = all
  BY <1>1, Zenon DEF r
<1>8. IsPrefix(v, all)
  BY <1>5, <1>6, <1>7, Zenon DEF IsPrefix
<1>9. QED
  BY <1>3, <1>8


(* Where each call is in the tree and in the path.                         *)
Todos == [k \in 1..Level |-> frames[k].todo]

Placed ==
  /\ \A k \in 1..Level : frames[k].pos = IF k = 1 THEN 0 ELSE k - 2
  /\ Len(path) >= Level - 1

Linked == \A k \in 1..Level : Link(listing, frames[k].todo, path, k)

(* The path is that of the innermost call's directory, or leads nowhere, or*)
(* is of no use any more.                                                  *)
Lost(p) == \E d \in gone : d \in ToSet(p)

Told ==
  frames # <<>> =>
    /\ Len(path) # Level - 1 => rc \notin {Running, 0} \/ Lost(path)
    /\ rc = 0 => Top.todo = <<>>

Underway == frames # <<>> \/ rc # Running

Ahead ==
  gone = {} /\ Underway =>
    IF rc \in {Running, 0}
    THEN Remains(FilesBelow(listing), Level, Todos, path, visits, Files)
    ELSE IsPrefix(visits, Files)

Fit(v) == PathLen(v) < PATH_MAXLEN

Seen ==
  /\ visits \in Paths
  /\ \A v \in ToSet(visits) : (v \in ToSet(Files) \/ Lost(v)) /\ Fit(v)

TreeInv ==
  /\ WalkInv
  /\ listing \in Listings /\ rootLen \in RootLens
  /\ Placed /\ Linked /\ Told /\ Ahead /\ Seen

(* Before the call nothing has been done, and only a call for an empty path*)
(* that opened nothing strikes what is in front of it.                     *)
Outside ==
  /\ ~Underway => visits = <<>> /\ gone = {} /\ path \in {<<>>, <<NoName>>}
  /\ struck => rootLen = 0 /\ frames = <<>> /\ rc = -1

LEMMA CallTodos ==
  ASSUME WalkInv
  PROVE  /\ Level \in Nat /\ Len(path) \in Nat /\ path \in Seq(Names)
         /\ (frames = <<>> <=> Level = 0)
         /\ \A k \in 1..Level : frames[k].todo \in Seq(Names)
         /\ Todos \in [1..Level -> Seq(Names)]
<1>1. WalkTypeOK /\ Level \in Nat /\ Len(path) \in Nat /\ path \in Seq(Names)
  BY DEF WalkInv, WalkTypeOK, WalkCalls, Level
<1>2. CASE frames = <<>>
  <2>1. Level = 0
    BY <1>2 DEF Level
  <2>2. QED
    BY <1>1, <1>2, <2>1 DEF Todos
<1>3. CASE frames # <<>>
  <2>1. Level # 0 /\ \A k \in 1..Level : frames[k].todo \in Seq(Names)
    BY <1>1, <1>3, OpenCall
  <2>2. QED
    BY <1>1, <1>3, <2>1 DEF Todos
<1>4. QED
  BY <1>2, <1>3

LEMMA TreeInitInv == WalkInit => TreeInv /\ Outside
<1> SUFFICES ASSUME WalkInit PROVE TreeInv /\ Outside
  OBVIOUS
<1>1. WalkInv
  BY WalkInitInv
<1>2. /\ listing \in Listings /\ rootLen \in RootLens /\ visits = <<>> /\ gone = {}
      /\ frames = <<>> /\ rc = Running /\ path \in {<<>>, <<NoName>>} /\ struck = FALSE
  BY DEF WalkInit
<1>3. Seen
  BY <1>2 DEF Seen, Paths, ToSet
<1>4. Level = 0 /\ Len(path) \in Nat
  BY <1>1, <1>2, CallTodos DEF Level
<1>5. Placed /\ Linked /\ Told
  BY <1>2, <1>4 DEF Placed, Linked, Told
<1>6. Ahead /\ Outside
  BY <1>2 DEF Ahead, Underway, Outside
<1>7. QED
  BY <1>1, <1>2, <1>3, <1>5, <1>6 DEF TreeInv

(* Nothing shown is the beginning of everything.                           *)
LEMMA NothingIsPrefix ==
  ASSUME NEW all \in Paths
  PROVE  IsPrefix(<<>>, all)
<1>1. Len(all) \in Nat /\ Len(<<>>) = 0
  BY DEF Paths
<1>2. SubSeq(<<>>, 1, 0) = <<>> /\ SubSeq(all, 1, 0) = <<>>
  BY SubSeqEmpty
<1>3. 0 <= Len(all)
  BY <1>1
<1>4. QED
  BY <1>1, <1>2, <1>3, Zenon DEF IsPrefix

LEMMA WalkStartTree == TreeInv /\ Outside /\ WalkStart => TreeInv'
<1> SUFFICES ASSUME TreeInv, Outside, WalkStart PROVE TreeInv'
  OBVIOUS
<1>1. WalkInv'
  BY WalkStartInv DEF TreeInv
<1>2. /\ listing \in Listings /\ listing' = listing /\ rootLen \in RootLens /\ rootLen' = rootLen
      /\ path' = <<>> /\ visits = <<>> /\ visits' = <<>> /\ gone' = {} /\ Root \in Dirs
  BY DirWalkAssumption DEF TreeInv, Outside, Underway, WalkStart, given
<1> DEFINE F == FilesBelow(listing)
<1>3. F \in [Dirs -> Paths] /\ Files \in Paths /\ Files = FilesOf(F, listing[Root])
  BY <1>2, FilesAre DEF Files
<1> HIDE DEF F
<1>4. Seen' /\ Files' = Files
  BY <1>2 DEF Seen, Paths, ToSet, Files
<1>5. IsPrefix(visits', Files)
  BY <1>2, <1>3, NothingIsPrefix, Zenon
<1>6. CASE frames' = <<>> /\ rc' = -1
  <2>1. Level' = 0 /\ Len(path') = 0
    BY <1>2, <1>6 DEF Level
  <2>2. Placed' /\ Linked' /\ Told'
    BY <1>6, <2>1 DEF Placed, Linked, Told
  <2>3. Ahead'
    <3>1. rc' \notin {Running, 0}
      BY <1>6, DirWalkAssumption
    <3>2. QED
      BY <1>4, <1>5, <3>1, Zenon DEF Ahead
  <2>4. QED
    BY <1>1, <1>2, <1>4, <2>2, <2>3 DEF TreeInv
<1>7. CASE frames' = <<[todo |-> listing[Root], pos |-> 0]>> /\ rc' = Running
  <2>1. Level' = 1 /\ frames'[1].todo = listing[Root] /\ frames'[1].pos = 0 /\ Len(path') = 0
    BY <1>2, <1>7 DEF Level
  <2>2. Placed'
    BY <2>1 DEF Placed
  <2>3. Linked'
    <3>1. Way(listing, listing[Root], <<>>)
      BY <1>2, WayStart
    <3>2. SubSeq(path', 1, 0) = <<>>
      BY SubSeqEmpty
    <3>3. Link(listing, listing[Root], path', 1)
      <4>1. 1 - 1 = 0 /\ ~(1 > 1)
        OBVIOUS
      <4>2. SubSeq(path', 1, 1 - 1) = <<>>
        BY <3>2, <4>1, Zenon
      <4>3. QED
        BY <1>2, <3>1, <4>1, <4>2, Zenon DEF Link, At
    <3>4. \A k \in 1..1 : k = 1
      OBVIOUS
    <3>5. QED
      BY <1>2, <2>1, <3>3, <3>4, Zenon DEF Linked
  <2>4. Told'
    BY <1>7, <2>1, DirWalkAssumption DEF Told
  <2>5. Remains(F, Level', Todos', path', visits', Files)
    <3> DEFINE rest == [k \in 0..1 |-> IF k = 0 THEN <<>> ELSE Files]
    <3>1. rest \in [0..1 -> Paths]
      <4>1. <<>> \in Paths
        BY PathsJoin
      <4>2. QED
        BY <1>3, <4>1
    <3>2. rest[0] = <<>> /\ rest[1] = Files
      OBVIOUS
    <3> HIDE DEF rest
    <3>3. Todos'[1] = listing[Root]
      BY <2>1 DEF Todos
    <3>4. Prefixed(<<>>, Files) = Files
      <4>1. \A k \in DOMAIN Files : <<>> \o Files[k] = Files[k]
        <5>1. \A k \in DOMAIN Files : Files[k] \in Seq(Names)
          <6> DEFINE V == Seq(Names)
          <6>1. Files \in Seq(V)
            BY <1>3 DEF Paths
          <6> HIDE DEF V
          <6>2. \A k \in DOMAIN Files : Files[k] \in V
            BY <6>1
          <6>3. QED
            BY <6>2 DEF V
        <5>2. QED
          BY <5>1, ConcatEmptySeq
      <4>2. Files = [k \in DOMAIN Files |-> Files[k]]
        BY <1>3 DEF Paths
      <4>3. QED
        BY <4>1, <4>2, Zenon DEF Prefixed
    <3>5. rest[1] = Prefixed(SubSeq(path', 1, 1 - 1), FilesOf(F, Todos'[1])) \o rest[1 - 1]
      <4>1. SubSeq(path', 1, 1 - 1) = <<>> /\ 1 - 1 = 0
        BY SubSeqEmpty
      <4>2. Files \o <<>> = Files
        BY <1>3, PathsJoin
      <4>3. QED
        BY <1>3, <3>2, <3>3, <3>4, <4>1, <4>2, Zenon
    <3>6. visits' \o rest[1] = Files
      BY <1>2, <1>3, <3>2, PathsJoin, Zenon
    <3>7. \A k \in 1..1 : k = 1
      OBVIOUS
    <3>8. QED
      BY <2>1, <3>1, <3>2, <3>5, <3>6, <3>7, Zenon DEF Remains
  <2>6. Ahead'
    BY <1>2, <1>4, <1>7, <2>5, Zenon DEF Ahead, F
  <2>7. QED
    BY <1>1, <1>2, <1>4, <2>2, <2>3, <2>4, <2>6 DEF TreeInv
<1>8. QED
  BY <1>6, <1>7 DEF WalkStart

LEMMA AtEntryIs ==
  ASSUME TreeInv, AtEntry
  PROVE  /\ WalkInv /\ WalkTypeOK /\ frames # <<>> /\ Level \in Nat \ {0} /\ Level \in 1..Level
         /\ rc = Running /\ Top.todo # <<>> /\ Top.todo \in Seq(Names) /\ Entry \in Names
         /\ path \in Seq(Names) /\ Len(path) \in Nat
         /\ Len(path) = Level - 1 \/ Lost(path)
         /\ Link(listing, Top.todo, path, Level)
<1>1. WalkInv /\ WalkTypeOK /\ frames # <<>> /\ rc = Running /\ Top.todo # <<>>
  BY DEF TreeInv, WalkInv, AtEntry
<1>2. Level \in Nat \ {0} /\ Level \in 1..Level /\ Len(path) \in Nat /\ Top.todo \in Seq(Names)
  BY <1>1, OpenCall
<1>3. Len(path) = Level - 1 \/ Lost(path)
  BY <1>1, Zenon DEF TreeInv, Told
<1>4. Link(listing, Top.todo, path, Level)
  BY <1>2, Zenon DEF TreeInv, Linked, Top
<1>5. Entry \in Names /\ path \in Seq(Names)
  BY <1>1, TakenKeeps DEF WalkTypeOK
<1>6. QED
  BY <1>1, <1>2, <1>3, <1>4, <1>5, Zenon

(* Taking an entry keeps the calls where they are, and so does a name      *)
(* behind the path.                                                        *)
LEMMA TakenPlaced ==
  ASSUME TreeInv, AtEntry, NEW p, p = path \/ \E c \in Names : p = Append(path, c)
  PROVE  /\ \A k \in 1..Level : Link(listing, Taken[k].todo, p, k)
         /\ \A k \in 1..Level : Taken[k].pos = IF k = 1 THEN 0 ELSE k - 2
         /\ Len(p) >= Level - 1
<1>1. /\ Level \in Nat \ {0} /\ Top.todo # <<>> /\ Top.todo \in Seq(Names)
      /\ path \in Seq(Names) /\ Len(path) \in Nat /\ WalkTypeOK
  BY AtEntryIs
<1>2. /\ listing \in Listings /\ \A k \in 1..Level : frames[k].pos = IF k = 1 THEN 0 ELSE k - 2
      /\ Len(path) >= Level - 1 /\ \A k \in 1..Level : Link(listing, frames[k].todo, path, k)
  BY DEF TreeInv, Placed, Linked
<1>3. \A k \in 1..Level :
        /\ Taken[k].pos = frames[k].pos
        /\ Taken[k].todo = IF k = Level THEN Tail(Top.todo) ELSE frames[k].todo
  BY <1>1, TakenKeeps
<1>4. ASSUME NEW k \in 1..Level
      PROVE  SubSeq(p, 1, k - 1) = SubSeq(path, 1, k - 1) /\ \A i \in 1..(k - 1) : p[i] = path[i]
  <2>1. k - 1 \in 0..Len(path)
    BY <1>1, <1>2
  <2>2. ASSUME NEW c \in Names
        PROVE  /\ SubSeq(Append(path, c), 1, k - 1) = SubSeq(path, 1, k - 1)
               /\ \A i \in 1..(k - 1) : Append(path, c)[i] = path[i]
    <3> DEFINE j == k - 1
    <3>1. j \in 0..Len(path)
      BY <2>1
    <3> HIDE DEF j
    <3>2. /\ SubSeq(Append(path, c), 1, j) = SubSeq(path, 1, j)
          /\ \A i \in 1..j : Append(path, c)[i] = path[i]
      BY <1>1, <3>1, PrefixStays
    <3>3. QED
      BY <3>2, Zenon DEF j
  <2>3. CASE p = path
    BY <2>3, Zenon
  <2>4. CASE \E c \in Names : p = Append(path, c)
    <3>1. PICK c \in Names : p = Append(path, c)
      BY <2>4
    <3>2. QED
      BY <2>2, <3>1, Zenon
  <2>5. QED
    BY <2>3, <2>4
<1>5. ASSUME NEW k \in 1..Level PROVE Link(listing, Taken[k].todo, p, k)
  <2>1. Link(listing, Taken[k].todo, path, k)
    <3>1. CASE k = Level
      <4>1. Link(listing, Top.todo, path, Level)
        BY AtEntryIs
      <4>2. Link(listing, Tail(Top.todo), path, Level)
        BY <1>1, <1>2, <4>1, LinkOn
      <4>3. QED
        BY <1>3, <3>1, <4>2, Zenon
    <3>2. CASE k # Level
      BY <1>2, <1>3, <3>2, Zenon
    <3>3. QED
      BY <3>1, <3>2
  <2>2. k \in Nat \ {0}
    BY <1>1
  <2>3. QED
    BY <1>4, <2>1, <2>2, LinkStays
<1>6. Len(p) >= Level - 1
  <2>1. \A c \in Names : Len(Append(path, c)) = Len(path) + 1
    BY <1>1
  <2>2. QED
    BY <1>1, <1>2, <2>1
<1>7. QED
  BY <1>2, <1>3, <1>5, <1>6, Zenon


(* The same for the whole state, when nothing else of the calls changes.   *)
LEMMA TakenKeepsPlaces ==
  ASSUME TreeInv, AtEntry, frames' = Taken, listing' = listing,
         path' = path \/ \E c \in Names : path' = Append(path, c)
  PROVE  Placed' /\ Linked' /\ Level' = Level /\ frames' # <<>> /\ WalkInv
<1>1. Level \in Nat \ {0} /\ WalkTypeOK /\ WalkInv
  BY AtEntryIs
<1>2. Level' = Level /\ frames' # <<>>
  <2>1. Len(Taken) = Level
    BY <1>1, TakenKeeps
  <2>2. QED
    BY <1>1, <2>1 DEF Level
<1> DEFINE p == path'
<1>3. p = path \/ \E c \in Names : p = Append(path, c)
  OBVIOUS
<1> HIDE DEF p
<1>4. /\ \A k \in 1..Level : Link(listing, Taken[k].todo, p, k)
      /\ \A k \in 1..Level : Taken[k].pos = IF k = 1 THEN 0 ELSE k - 2
      /\ Len(p) >= Level - 1
  BY <1>3, TakenPlaced
<1>5. Linked'
  BY <1>2, <1>4, Zenon DEF Linked, p
<1>6. Placed'
  BY <1>2, <1>4, Zenon DEF Placed, p
<1>7. QED
  BY <1>1, <1>2, <1>5, <1>6

LEMMA LostIn ==
  ASSUME NEW p \in Seq(Names), NEW c \in Names, Lost(p)
  PROVE  Lost(Append(p, c))
<1>1. Append(p, c) = p \o <<c>> /\ <<c>> \in Seq(Names)
  BY AppendIsConcat
<1>2. ToSet(p) \subseteq ToSet(Append(p, c))
  <2> DEFINE w == <<c>>
  <2>1. w \in Seq(Names)
    BY <1>1
  <2> HIDE DEF w
  <2>2. ToSet(p \o w) = ToSet(p) \cup ToSet(w)
    BY <2>1, InSeq
  <2>3. QED
    BY <1>1, <2>2, Zenon DEF w
<1>3. QED
  BY <1>2, Zenon DEF Lost

(* A path of directories leads somewhere unless one of them is gone.       *)
LEMMA LeadsOrLost ==
  ASSUME TreeInv, AtEntry, Entry \in Dirs
  PROVE  /\ Leads(Full) => Len(path) = Level - 1
         /\ ~Leads(Full) => Lost(Full)
<1>1. /\ Level \in Nat \ {0} /\ Level \in 1..Level /\ Entry \in Names
      /\ path \in Seq(Names) /\ Len(path) \in Nat
      /\ Len(path) = Level - 1 \/ Lost(path)
      /\ Top.todo # <<>> /\ Top.todo \in Seq(Names) /\ Link(listing, Top.todo, path, Level)
  BY AtEntryIs
<1>2. /\ Full \in Seq(Names) /\ Len(Full) = Len(path) + 1 /\ Full[Len(path) + 1] = Entry
      /\ \A i \in 1..Len(path) : Full[i] = path[i]
  BY <1>1, AppendProperties DEF Full
<1>3. DOMAIN Full = 1..Len(Full) /\ DOMAIN path = 1..Len(path)
  BY <1>1, <1>2, LenProperties
<1>4. ASSUME Leads(Full) PROVE Len(path) = Level - 1
  <2>1. ASSUME NEW i \in 1..Len(path) PROVE path[i] \notin gone
    <3>1. i \in 1..Len(Full) /\ Full[i] = path[i]
      BY <1>1, <1>2
    <3>2. QED
      BY <1>4, <3>1, Zenon DEF Leads
  <2>2. ~Lost(path)
    BY <1>3, <2>1, Zenon DEF Lost, ToSet
  <2>3. QED
    BY <1>1, <2>2
<1>5. ASSUME ~Lost(Full) PROVE Leads(Full)
  <2>1. ~Lost(path)
    BY <1>1, <1>5, LostIn, Zenon DEF Full
  <2>2. Len(path) = Level - 1 /\ Len(Full) = Level
    BY <1>1, <1>2, <2>1
  <2>3. \A k \in 1..Level : Link(listing, frames[k].todo, path, k)
    BY Zenon DEF TreeInv, Linked
  <2>4. ASSUME NEW i \in 1..Level
        PROVE  /\ Full[i] \in Dirs
               /\ Full[i] \in ToSet(listing[IF i = 1 THEN Root ELSE Full[i - 1]])
    <3>1. At(path, i) = IF i = 1 THEN Root ELSE Full[i - 1]
      <4>1. i # 1 => i - 1 \in 1..Len(path)
        BY <1>1, <2>2
      <4>2. i # 1 => Full[i - 1] = path[i - 1]
        BY <1>2, <4>1, Zenon
      <4>3. QED
        BY <4>2, Zenon DEF At
    <3>2. CASE i = Level
      <4>1. Full[i] = Entry /\ At(path, i) = At(path, Level)
        BY <1>1, <1>2, <2>2, <3>2
      <4>2. Entry \in ToSet(Top.todo)
        BY <1>1, InList DEF Entry
      <4>3. Entry \in ToSet(listing[At(path, Level)])
        BY <1>1, <4>2, Zenon DEF Link
      <4>4. QED
        BY <3>1, <4>1, <4>3, Zenon
    <3>3. CASE i # Level
      <4>1. i \in 1..Len(path) /\ i + 1 \in 1..Level /\ i + 1 > 1 /\ (i + 1) - 1 = i /\ i + 1 # 1
        BY <1>1, <2>2, <3>3
      <4>2. Full[i] = path[i]
        BY <1>2, <4>1
      <4>3. Link(listing, frames[i + 1].todo, path, i + 1)
        BY <2>3, <4>1, Zenon
      <4>4. path[i] \in Dirs
        <5>1. At(path, i + 1) = path[i]
          BY <4>1, Zenon DEF At
        <5>2. QED
          BY <4>3, <5>1, Zenon DEF Link
      <4>5. path[i] \in ToSet(listing[At(path, i)])
        <5>1. path[(i + 1) - 1] \in ToSet(listing[At(path, (i + 1) - 1)])
          BY <4>1, <4>3, Zenon DEF Link
        <5>2. QED
          BY <4>1, <5>1, Zenon
      <4>6. QED
        BY <3>1, <4>2, <4>4, <4>5, Zenon
    <3>4. QED
      BY <3>2, <3>3
  <2>5. \A i \in 1..Level : Full[i] \notin gone
    BY <1>3, <1>5, <2>2, Zenon DEF Lost, ToSet
  <2>6. QED
    BY <2>2, <2>4, <2>5, Zenon DEF Leads
<1>6. QED
  BY <1>4, <1>5


TakenTodos == [k \in 1..Level |-> Taken[k].todo]

LEMMA TodosTaken ==
  ASSUME TreeInv, AtEntry
  PROVE  /\ TakenTodos \in [1..Level -> Seq(Names)]
         /\ TakenTodos[Level] = Tail(Todos[Level])
         /\ \A k \in 1..(Level - 1) : TakenTodos[k] = Todos[k]
         /\ Todos \in [1..Level -> Seq(Names)] /\ Todos[Level] = Top.todo
         /\ Todos[Level] # <<>> /\ Head(Todos[Level]) = Entry
<1>1. /\ WalkInv /\ WalkTypeOK /\ Level \in Nat \ {0} /\ Level \in 1..Level
      /\ Top.todo \in Seq(Names) /\ Top.todo # <<>>
  BY AtEntryIs
<1>2. \A k \in 1..Level : Taken[k].todo = IF k = Level THEN Tail(Top.todo) ELSE frames[k].todo
  BY <1>1, TakenKeeps
<1>3. Todos \in [1..Level -> Seq(Names)] /\ \A k \in 1..Level : frames[k].todo \in Seq(Names)
  BY <1>1, CallTodos
<1>4. Todos[Level] = Top.todo
  BY <1>1, Zenon DEF Todos, Top
<1>5. Tail(Top.todo) \in Seq(Names)
  BY <1>1, HeadTailProperties
<1>6. TakenTodos \in [1..Level -> Seq(Names)]
  BY <1>2, <1>3, <1>5, Zenon DEF TakenTodos
<1>7. TakenTodos[Level] = Tail(Todos[Level])
  BY <1>1, <1>2, <1>4, Zenon DEF TakenTodos
<1>8. \A k \in 1..(Level - 1) : TakenTodos[k] = Todos[k]
  <2>1. \A k \in 1..(Level - 1) : k \in 1..Level /\ k # Level
    BY <1>1
  <2>2. QED
    BY <1>2, <2>1, Zenon DEF TakenTodos, Todos
<1>9. QED
  BY <1>1, <1>3, <1>4, <1>6, <1>7, <1>8, Zenon DEF Entry

LEMMA SeenStays ==
  ASSUME Seen, visits' = visits, listing' = listing, rootLen' = rootLen, gone \subseteq gone'
  PROVE  Seen'
<1>1. \A v : Fit(v)' <=> Fit(v)
  BY PathLenIs, Zenon DEF Fit
<1>2. \A v : Lost(v) => Lost(v)'
  BY Zenon DEF Lost
<1>3. Files' = Files
  BY DEF Files
<1>4. QED
  BY <1>1, <1>2, <1>3, Zenon DEF Seen

LEMMA SeenOn ==
  ASSUME Seen, NEW w \in Seq(Names), w \in ToSet(Files) \/ Lost(w), Fit(w),
         visits' = Append(visits, w), listing' = listing, rootLen' = rootLen, gone' = gone
  PROVE  Seen'
<1>1. \A v : Fit(v)' <=> Fit(v)
  BY PathLenIs, Zenon DEF Fit
<1>2. \A v : Lost(v) => Lost(v)'
  BY Zenon DEF Lost
<1>3. Files' = Files
  BY DEF Files
<1> DEFINE V == Seq(Names)
           x == <<w>>
<1>4. visits \in Seq(V) /\ w \in V
  BY DEF Seen, Paths
<1> HIDE DEF V
<1>5. x \in Seq(V) /\ Append(visits, w) = visits \o x /\ visits \o x \in Seq(V)
  BY <1>4, AppendIsConcat, AppendProperties
<1>6. \A v \in ToSet(x) : v = w
  BY DEF ToSet
<1> HIDE DEF x
<1>7. ToSet(visits \o x) = ToSet(visits) \cup ToSet(x)
  BY <1>4, <1>5, InSeq
<1>8. visits' \in Paths
  BY <1>5 DEF Paths, V
<1>9. \A v \in ToSet(visits') : (v \in ToSet(Files) \/ Lost(v)) /\ Fit(v)
  BY <1>5, <1>6, <1>7, Zenon DEF Seen
<1>10. QED
  BY <1>1, <1>2, <1>3, <1>8, <1>9, Zenon DEF Seen

LEMMA VisitFileTree == TreeInv /\ VisitFile => TreeInv'
<1> SUFFICES ASSUME TreeInv, VisitFile PROVE TreeInv'
  OBVIOUS
<1>1. /\ AtEntry /\ Entry \notin Dirs /\ frames' = Taken
      /\ listing' = listing /\ rootLen' = rootLen /\ gone' = gone
  BY DEF VisitFile, given
<1>2. /\ WalkInv /\ WalkTypeOK /\ Level \in Nat \ {0} /\ Level \in 1..Level /\ rc = Running
      /\ Entry \in Names /\ path \in Seq(Names) /\ Len(path) \in Nat
      /\ Len(path) = Level - 1 \/ Lost(path)
      /\ Top.todo # <<>> /\ Top.todo \in Seq(Names) /\ Link(listing, Top.todo, path, Level)
  BY <1>1, AtEntryIs
<1>3. WalkInv'
  BY <1>2, VisitFileInv
<1>4. listing' \in Listings /\ rootLen' \in RootLens /\ listing \in Listings /\ rootLen \in RootLens
  BY <1>1 DEF TreeInv
<1>5. gone = {} => Remains(FilesBelow(listing), Level, Todos, path, visits, Files)
  BY <1>1, <1>2, AtEntryIs, Zenon DEF TreeInv, Ahead, Underway
<1>6. visits \in Paths /\ Files' = Files /\ Seen
  BY <1>1 DEF TreeInv, Seen, Files
<1>7. CASE TooLong(Full)
  <2>1. path' = Append(path, Leftover) /\ rc' = -1 /\ visits' = visits /\ Leftover \in Names
    BY <1>7, Zenon DEF VisitFile, Names
  <2>2. Placed' /\ Linked'
    BY <1>1, <2>1, TakenKeepsPlaces, Zenon
  <2>3. rc' \notin {Running, 0}
    BY <2>1, DirWalkAssumption
  <2>4. Told'
    BY <2>3, Zenon DEF Told
  <2>5. Ahead'
    <3>1. gone = {} => IsPrefix(visits, Files)
      BY <1>2, <1>5, <1>6, RemainsPrefix
    <3>2. QED
      BY <1>1, <1>6, <2>1, <2>3, <3>1, Zenon DEF Ahead
  <2>6. Seen'
    BY <1>1, <1>6, <2>1, SeenStays
  <2>7. QED
    BY <1>3, <1>4, <2>2, <2>4, <2>5, <2>6, Zenon DEF TreeInv
<1>8. CASE ~TooLong(Full)
  <2>1. path' = path /\ rc' \in {Running, Stop} /\ visits' = Append(visits, Full)
    BY <1>8, Zenon DEF VisitFile
  <2>2. Placed' /\ Linked' /\ Level' = Level
    BY <1>1, <2>1, TakenKeepsPlaces, Zenon
  <2>3. rc' # 0
    BY <2>1, DirWalkAssumption
  <2>4. Told'
    BY <1>1, <1>2, <2>1, <2>2, <2>3, Zenon DEF Told, Lost
  <2>5. Full \in Seq(Names)
    BY <1>2, AppendProperties DEF Full
  <2>6. Full \in ToSet(Files) \/ Lost(Full)
    <3>1. CASE Len(path) = Level - 1
      <4>1. SubSeq(path, 1, Level - 1) = path
        BY <1>2, <3>1, SubSeqFull
      <4>2. Way(listing, Top.todo, path)
        BY <1>2, <4>1, Zenon DEF Link
      <4>3. Full \in ToSet(Files)
        BY <1>1, <1>2, <1>4, <4>2, WayFile DEF Full, Entry, Files
      <4>4. QED
        BY <4>3
    <3>2. CASE Lost(path)
      BY <1>2, <3>2, LostIn, Zenon DEF Full
    <3>3. QED
      BY <1>2, <3>1, <3>2
  <2>7. Fit(Full)
    <3>1. rootLen \in Nat /\ PATH_MAXLEN \in Nat
      BY <1>4, DirWalkAssumption
    <3>2. PathLen(Full) \in Nat
      BY <2>5, <3>1, PathLenType
    <3>3. ~(PathLen(Full) + 1 >= PATH_MAXLEN)
      BY <1>8, Zenon DEF TooLong
    <3>4. QED
      BY <3>1, <3>2, <3>3 DEF Fit
  <2>8. Seen'
    BY <1>1, <1>6, <2>1, <2>5, <2>6, <2>7, SeenOn
  <2>9. Ahead'
    <3>1. ASSUME gone = {}
          PROVE  /\ Remains(FilesBelow(listing), Level, TakenTodos, path, Append(visits, Full), Files)
                 /\ Append(visits, Full) \in Paths
      <4>1. ~Lost(path)
        BY <3>1 DEF Lost
      <4>2. Len(path) = Level - 1
        BY <1>2, <4>1
      <4>3. FilesBelow(listing) \in [Dirs -> Paths]
        BY <1>4, FilesAre
      <4> DEFINE f == FilesBelow(listing)
                 n == Level
                 td == Todos
                 t2 == TakenTodos
                 a == Files
      <4>4. /\ t2 \in [1..n -> Seq(Names)] /\ t2[n] = Tail(td[n])
            /\ \A k \in 1..(n - 1) : t2[k] = td[k]
            /\ td \in [1..n -> Seq(Names)]
            /\ td[n] # <<>> /\ Head(td[n]) = Entry
        BY <1>1, TodosTaken
      <4>5. f \in [Dirs -> Paths] /\ n \in Nat \ {0} /\ Len(path) = n - 1 /\ Head(td[n]) \notin Dirs
        BY <1>1, <1>2, <4>2, <4>3, <4>4
      <4>6. Remains(f, n, td, path, visits, a)
        BY <1>5, <3>1
      <4> HIDE DEF f, n, td, t2, a
      <4>7. Remains(f, n, t2, path, Append(visits, Append(path, Head(td[n]))), a)
        BY <1>2, <1>6, <4>4, <4>5, <4>6, RemainsVisit
      <4>8. Append(visits, Full) \in Paths
        BY <1>6, <2>5, AppendProperties DEF Paths
      <4>9. QED
        BY <4>4, <4>7, <4>8, Zenon DEF f, n, td, t2, a, Full
    <3>2. Todos' = TakenTodos
      BY <1>1, <2>2, Zenon DEF Todos, TakenTodos
    <3>3. gone = {} => IsPrefix(Append(visits, Full), Files)
      BY <1>2, <3>1, RemainsPrefix
    <3>4. QED
      BY <1>1, <1>6, <2>1, <2>2, <3>1, <3>2, <3>3, Zenon DEF Ahead
  <2>10. QED
    BY <1>3, <1>4, <2>2, <2>4, <2>8, <2>9, Zenon DEF TreeInv
<1>9. QED
  BY <1>7, <1>8


LEMMA VanishedTree == TreeInv /\ Vanished => TreeInv'
<1> SUFFICES ASSUME TreeInv, Vanished PROVE TreeInv'
  OBVIOUS
<1>1. /\ AtEntry /\ Entry \in Dirs /\ ~Leads(Full) /\ frames' = Taken /\ path' = Full
      /\ rc' = rc /\ visits' = visits
      /\ listing' = listing /\ rootLen' = rootLen /\ gone' = gone
  BY DEF Vanished, given
<1>2. WalkInv /\ rc = Running /\ Entry \in Names
  BY <1>1, AtEntryIs
<1>3. WalkInv'
  BY <1>2, VanishedInv
<1>4. listing' \in Listings /\ rootLen' \in RootLens /\ Seen
  BY <1>1 DEF TreeInv
<1>5. Placed' /\ Linked'
  BY <1>1, <1>2, TakenKeepsPlaces, Zenon DEF Full
<1>6. Lost(Full)
  BY <1>1, LeadsOrLost
<1>7. Lost(path)' /\ gone' # {}
  BY <1>1, <1>6, Zenon DEF Lost
<1>8. rc' # 0
  BY <1>1, <1>2, DirWalkAssumption
<1>9. Told' /\ Ahead'
  BY <1>7, <1>8, Zenon DEF Told, Ahead
<1>10. Seen'
  BY <1>1, <1>4, SeenStays
<1>11. QED
  BY <1>3, <1>4, <1>5, <1>9, <1>10, Zenon DEF TreeInv

LEMMA EnterDirTree == TreeInv /\ EnterDir => TreeInv'
<1> SUFFICES ASSUME TreeInv, EnterDir PROVE TreeInv'
  OBVIOUS
<1>1. /\ AtEntry /\ Entry \in Dirs /\ Leads(Full) /\ visits' = visits
      /\ listing' = listing /\ rootLen' = rootLen /\ gone' = gone
  BY DEF EnterDir, given
<1>2. /\ WalkInv /\ WalkTypeOK /\ Level \in Nat \ {0} /\ Level \in 1..Level /\ rc = Running
      /\ Entry \in Names /\ path \in Seq(Names) /\ Len(path) \in Nat
      /\ Top.todo # <<>> /\ Top.todo \in Seq(Names) /\ Link(listing, Top.todo, path, Level)
  BY <1>1, AtEntryIs
<1>3. WalkInv'
  BY EnterDirInv DEF TreeInv
<1>4. /\ listing' \in Listings /\ rootLen' \in RootLens /\ listing \in Listings
      /\ Seen /\ visits \in Paths /\ Files' = Files
  BY <1>1 DEF TreeInv, Seen, Files
<1>5. gone = {} => Remains(FilesBelow(listing), Level, Todos, path, visits, Files)
  BY <1>1, <1>2, AtEntryIs, Zenon DEF TreeInv, Ahead, Underway
<1>6. Seen'
  BY <1>1, <1>4, SeenStays
<1>7. Len(path) = Level - 1
  BY <1>1, LeadsOrLost
<1>8. CASE path' = path /\ frames' = Taken /\ rc' = -1
  <2>1. Placed' /\ Linked'
    BY <1>1, <1>8, TakenKeepsPlaces, Zenon
  <2>2. rc' \notin {Running, 0}
    BY <1>8, DirWalkAssumption
  <2>3. gone = {} => IsPrefix(visits, Files)
    BY <1>2, <1>4, <1>5, RemainsPrefix
  <2>4. Told' /\ Ahead'
    BY <1>1, <1>4, <2>2, <2>3, Zenon DEF Told, Ahead
  <2>5. QED
    BY <1>3, <1>4, <1>6, <2>1, <2>4, Zenon DEF TreeInv
<1>9. CASE /\ path' = Full /\ rc' = rc
           /\ frames' = Append(Taken, [todo |-> listing[Entry], pos |-> Len(path)])
  <2>1. /\ Taken \in WalkCalls /\ Len(Taken) = Level
        /\ \A k \in 1..Level :
             /\ Taken[k].pos = frames[k].pos
             /\ Taken[k].todo = IF k = Level THEN Tail(Top.todo) ELSE frames[k].todo
    BY <1>1, <1>2, TakenKeeps
  <2> DEFINE m == Level + 1
             c == [todo |-> listing[Entry], pos |-> Len(path)]
  <2>2. Level' = m /\ frames'[m] = c /\ \A k \in 1..Level : frames'[k] = Taken[k]
    <3>1. c \in [todo : Seq(Names), pos : Nat]
      BY <1>1, <1>2 DEF WalkTypeOK
    <3> DEFINE S == [todo : Seq(Names), pos : Nat]
    <3>2. Taken \in Seq(S) /\ c \in S /\ frames' = Append(Taken, c)
      BY <1>9, <2>1, <3>1 DEF WalkCalls
    <3> HIDE DEF S, c
    <3>3. Len(frames') = Len(Taken) + 1 /\ frames'[Len(Taken) + 1] = c
          /\ \A k \in 1..Len(Taken) : frames'[k] = Taken[k]
      BY <3>2, AppendProperties
    <3>4. QED
      BY <2>1, <3>3, Zenon DEF Level
  <2>3. frames'[m].todo = listing[Entry] /\ frames'[m].pos = Len(path)
    BY <2>2
  <2>4. /\ \A k \in 1..Level : Link(listing, Taken[k].todo, Full, k)
        /\ \A k \in 1..Level : Taken[k].pos = IF k = 1 THEN 0 ELSE k - 2
    BY <1>1, <1>2, TakenPlaced, Zenon DEF Full
  <2>5. Link(listing, listing[Entry], Full, m)
    BY <1>1, <1>2, <1>4, <1>7, LinkDown DEF Full, Entry
  <2> HIDE DEF c
  <2>6. \A k \in 1..m : k = m \/ k \in 1..Level
    BY <1>2
  <2>7. m # 1 /\ m - 2 = Level - 1 /\ m - 1 = Level /\ m \in Nat \ {0} /\ m \in 1..m
    BY <1>2
  <2>8. Full \in Seq(Names) /\ Len(Full) = Level
    <3>1. Full \in Seq(Names) /\ Len(Full) = Len(path) + 1
      BY <1>2, AppendProperties DEF Full
    <3>2. QED
      BY <1>2, <1>7, <3>1
  <2> HIDE DEF m
  <2>9. Linked'
    <3>1. ASSUME NEW k \in 1..m PROVE Link(listing, frames'[k].todo, Full, k)
      BY <2>2, <2>3, <2>4, <2>5, <2>6, Zenon
    <3>2. QED
      BY <1>1, <1>9, <2>2, <3>1, Zenon DEF Linked
  <2>10. Placed'
    <3>1. \A k \in 1..m : frames'[k].pos = IF k = 1 THEN 0 ELSE k - 2
      BY <1>7, <2>2, <2>3, <2>4, <2>6, <2>7, Zenon
    <3>2. Len(path') >= Level' - 1
      BY <1>2, <1>9, <2>2, <2>7, <2>8
    <3>3. QED
      BY <2>2, <3>1, <3>2, Zenon DEF Placed
  <2>11. Told'
    <3>1. Len(path') = Level' - 1 /\ rc' # 0
      BY <1>2, <1>9, <2>2, <2>7, <2>8, DirWalkAssumption
    <3>2. QED
      BY <3>1, Zenon DEF Told
  <2>12. Ahead'
    <3> DEFINE f  == FilesBelow(listing)
               n  == Level
               td == Todos
               t2 == [k \in 1..m |-> frames'[k].todo]
               a  == Files
    <3>1. f \in [Dirs -> Paths] /\ f[Entry] = FilesOf(f, listing[Entry]) /\ listing[Entry] \in Seq(Names)
      BY <1>1, <1>4, FilesAre
    <3>2. /\ TakenTodos \in [1..Level -> Seq(Names)]
          /\ TakenTodos[Level] = Tail(Todos[Level])
          /\ \A k \in 1..(Level - 1) : TakenTodos[k] = Todos[k]
          /\ Todos \in [1..Level -> Seq(Names)]
          /\ Todos[Level] # <<>> /\ Head(Todos[Level]) = Entry
      BY <1>1, TodosTaken
    <3>3. \A k \in 1..Level : k \in 1..m /\ t2[k] = TakenTodos[k]
      <4>1. \A k \in 1..Level : k \in 1..m
        BY <1>2, <2>7
      <4>2. QED
        BY <2>2, <4>1, Zenon DEF TakenTodos
    <3>4. t2[m] = listing[Entry]
      BY <2>3, <2>7, Zenon
    <3>5. t2 \in [1..m -> Seq(Names)]
      <4>1. ASSUME NEW k \in 1..m PROVE frames'[k].todo \in Seq(Names)
        <5>1. t2[k] = frames'[k].todo
          OBVIOUS
        <5>2. t2[k] \in Seq(Names)
          <6> HIDE DEF t2
          <6>1. CASE k = m
            BY <3>1, <3>4, <6>1, Zenon
          <6>2. CASE k \in 1..Level
            BY <3>2, <3>3, <6>2, Zenon
          <6>3. QED
            BY <2>6, <6>1, <6>2
        <5>3. QED
          BY <5>1, <5>2, Zenon
      <4>2. QED
        BY <4>1, Zenon
    <3> HIDE DEF t2
    <3>6. /\ t2 \in [1..(n + 1) -> Seq(Names)] /\ t2[n] = Tail(td[n])
          /\ \A k \in 1..(n - 1) : t2[k] = td[k]
          /\ t2[n + 1] = listing[Entry]
      <4>1. \A k \in 1..(Level - 1) : k \in 1..Level
        BY <1>2
      <4>2. QED
        BY <1>2, <3>2, <3>3, <3>4, <3>5, <4>1, Zenon DEF m
    <3>7. /\ td \in [1..n -> Seq(Names)] /\ td[n] # <<>> /\ Head(td[n]) = Entry
          /\ Head(td[n]) \in Dirs /\ n \in Nat \ {0} /\ Len(path) = n - 1
          /\ f[Head(td[n])] = FilesOf(f, t2[n + 1]) /\ f \in [Dirs -> Paths]
      BY <1>1, <1>2, <1>7, <3>1, <3>2, <3>6, Zenon
    <3>8. ASSUME gone = {} PROVE Remains(f, m, t2, Full, visits, a)
      <4>1. Remains(f, n, td, path, visits, a)
        BY <1>5, <3>8
      <4> HIDE DEF f, n, td, a
      <4>2. Remains(f, n + 1, t2, Append(path, Head(td[n])), visits, a)
        BY <1>2, <1>4, <3>6, <3>7, <4>1, RemainsEnter
      <4>3. QED
        BY <3>7, <4>2, Zenon DEF m, n, Full
    <3>9. Todos' = t2
      BY <2>2, Zenon DEF Todos, t2
    <3>10. QED
      BY <1>1, <1>2, <1>4, <1>9, <2>2, <3>8, <3>9, Zenon DEF Ahead
  <2>13. QED
    BY <1>3, <1>4, <1>6, <2>9, <2>10, <2>11, <2>12, Zenon DEF TreeInv
<1>10. QED
  BY <1>8, <1>9, Zenon DEF EnterDir


LEMMA EndOfDirTree == TreeInv /\ EndOfDir => TreeInv'
<1> SUFFICES ASSUME TreeInv, EndOfDir PROVE TreeInv'
  OBVIOUS
<1>1. /\ frames # <<>> /\ rc = Running /\ Top.todo = <<>> /\ rc' = 0
      /\ listing' = listing /\ rootLen' = rootLen /\ path' = path /\ frames' = frames
      /\ visits' = visits /\ gone' = gone
  BY DEF EndOfDir, given
<1>2. WalkInv' /\ Placed' /\ Linked'
  BY <1>1, WalkStepInv DEF TreeInv, WalkNext, Placed, Linked, Level
<1>3. Seen'
  BY <1>1, SeenStays DEF TreeInv
<1>4. Told'
  BY <1>1, Zenon DEF TreeInv, Told, Lost, Level, Top
<1>5. Ahead'
  <2>1. Level' = Level /\ Todos' = Todos /\ Files' = Files
    BY <1>1, Zenon DEF Level, Todos, Files
  <2>2. QED
    BY <1>1, <2>1, Zenon DEF TreeInv, Ahead, Underway
<1>6. QED
  BY <1>1, <1>2, <1>3, <1>4, <1>5, Zenon DEF TreeInv

LEMMA RemoveDirTree == TreeInv /\ RemoveDir => TreeInv'
<1> SUFFICES ASSUME TreeInv, RemoveDir PROVE TreeInv'
  OBVIOUS
<1>1. /\ listing' = listing /\ rootLen' = rootLen /\ path' = path /\ frames' = frames
      /\ visits' = visits /\ rc' = rc
      /\ gone \subseteq gone' /\ gone' # {}
  BY DEF RemoveDir, given
<1>2. WalkInv' /\ Placed' /\ Linked'
  BY <1>1, WalkStepInv DEF TreeInv, WalkNext, Placed, Linked, Level
<1>3. Seen'
  BY <1>1, SeenStays DEF TreeInv
<1>4. Lost(path) => Lost(path)'
  BY <1>1, Zenon DEF Lost
<1>5. Told'
  BY <1>1, <1>4, Zenon DEF TreeInv, Told, Level, Top
<1>6. Ahead'
  BY <1>1, Zenon DEF Ahead
<1>7. QED
  BY <1>1, <1>2, <1>3, <1>5, <1>6, Zenon DEF TreeInv

LEMMA WalkReturnTree == TreeInv /\ WalkReturn => TreeInv'
<1> SUFFICES ASSUME TreeInv, WalkReturn PROVE TreeInv'
  OBVIOUS
<1>1. /\ frames # <<>> /\ rc # Running /\ frames' = SubSeq(frames, 1, Level - 1)
      /\ path' = (IF Level = 1 THEN path ELSE SubSeq(path, 1, Top.pos))
      /\ rc' = (IF Level > 1 /\ rc = 0 THEN Running ELSE rc)
      /\ listing' = listing /\ rootLen' = rootLen /\ visits' = visits /\ gone' = gone
  BY Zenon DEF WalkReturn, given, CutTo
<1>2. WalkInv /\ WalkTypeOK /\ Seen /\ listing \in Listings
  BY DEF TreeInv, WalkInv
<1>3. /\ Level \in Nat \ {0} /\ Len(path) \in Nat /\ Level \in 1..Level
      /\ path \in Seq(Names) /\ Todos \in [1..Level -> Seq(Names)]
  BY <1>1, <1>2, OpenCall, CallTodos
<1>4. WalkInv'
  BY WalkReturnInv DEF TreeInv
<1>5. listing' \in Listings /\ rootLen' \in RootLens
  BY <1>1 DEF TreeInv
<1>6. Seen'
  BY <1>1, <1>2, SeenStays
<1> DEFINE m == Level - 1
           q == path'
<1>7. Level' = m /\ \A k \in 1..m : frames'[k] = frames[k]
  <2> DEFINE S == [todo : Seq(Names), pos : Nat]
  <2>1. frames \in Seq(S) /\ Len(frames) = Level
    BY <1>2 DEF WalkTypeOK, WalkCalls, Level
  <2> HIDE DEF S
  <2>2. m \in 0..Len(frames)
    BY <1>3, <2>1
  <2>3. Len(SubSeq(frames, 1, m)) = m /\ \A k \in 1..m : SubSeq(frames, 1, m)[k] = frames[k]
    BY <2>1, <2>2, PrefixOfPrefix
  <2>4. QED
    BY <1>1, <2>3, Zenon DEF Level
<1>8. /\ \A k \in 1..Level : frames[k].pos = IF k = 1 THEN 0 ELSE k - 2
      /\ Len(path) >= m /\ \A k \in 1..Level : Link(listing, frames[k].todo, path, k)
  BY DEF TreeInv, Placed, Linked
<1>9. /\ m \in Nat /\ (\A k \in 1..m : k \in 1..Level /\ k \in Nat \ {0} /\ Level > 1 /\ Level # 1)
      /\ (Level > 1 => Top.pos = Level - 2)
  <2>1. Level > 1 => Level # 1
    BY <1>3
  <2>2. Level > 1 => Top.pos = Level - 2
    BY <1>3, <1>8, <2>1, Zenon DEF Top
  <2>3. QED
    BY <1>3, <2>2
<1>10. ASSUME Level > 1
       PROVE  /\ q \in Seq(Names) /\ Len(q) = m - 1
              /\ \A k \in 1..m : /\ SubSeq(q, 1, k - 1) = SubSeq(path, 1, k - 1)
                                 /\ \A i \in 1..(k - 1) : q[i] = path[i]
  <2> DEFINE n == Level - 2
  <2>1. n \in 0..Len(path) /\ n = m - 1
    BY <1>3, <1>8, <1>10
  <2>2. q = SubSeq(path, 1, n)
    BY <1>1, <1>3, <1>9, <1>10
  <2> HIDE DEF n, q
  <2>3. SubSeq(path, 1, n) \in Seq(Names) /\ Len(SubSeq(path, 1, n)) = n
        /\ \A j \in 1..n : SubSeq(path, 1, n)[j] = path[j]
    <3>1. 0 \in 0..n
      BY <2>1
    <3>2. QED
      BY <1>3, <2>1, <3>1, PrefixOfPrefix
  <2>4. ASSUME NEW k \in 1..m
        PROVE  /\ SubSeq(q, 1, k - 1) = SubSeq(path, 1, k - 1)
               /\ \A i \in 1..(k - 1) : q[i] = path[i]
    <3> DEFINE j == k - 1
    <3>1. j \in 0..n /\ \A i \in 1..j : i \in 1..n
      BY <1>9, <2>1
    <3> HIDE DEF j
    <3>2. SubSeq(SubSeq(path, 1, n), 1, j) = SubSeq(path, 1, j)
      BY <1>3, <2>1, <3>1, PrefixOfPrefix
    <3>3. QED
      BY <2>2, <2>3, <3>1, <3>2, Zenon DEF j
  <2>5. QED
    BY <2>1, <2>2, <2>3, <2>4, Zenon
<1> HIDE DEF m, q
<1>11. Linked'
  <2>1. ASSUME NEW k \in 1..m PROVE Link(listing, frames'[k].todo, q, k)
    <3>1. Link(listing, frames[k].todo, path, k) /\ k \in Nat \ {0} /\ frames'[k] = frames[k] /\ Level > 1
      BY <1>7, <1>8, <1>9, Zenon
    <3>2. SubSeq(q, 1, k - 1) = SubSeq(path, 1, k - 1) /\ \A i \in 1..(k - 1) : q[i] = path[i]
      BY <1>10, <3>1, Zenon
    <3>3. Link(listing, frames[k].todo, q, k)
      BY <3>1, <3>2, LinkStays
    <3>4. QED
      BY <3>1, <3>3, Zenon
  <2>2. QED
    BY <1>1, <1>7, <2>1, Zenon DEF Linked, q
<1>12. Placed'
  <2>1. \A k \in 1..m : frames'[k].pos = IF k = 1 THEN 0 ELSE k - 2
    BY <1>7, <1>8, <1>9, Zenon
  <2>2. Len(q) >= m - 1
    <3>1. CASE Level > 1
      BY <1>9, <1>10, <3>1
    <3>2. CASE Level = 1
      BY <1>1, <1>3, <3>2 DEF m, q
    <3>3. QED
      BY <1>3, <3>1, <3>2
  <2>3. QED
    BY <1>7, <2>1, <2>2, Zenon DEF Placed, q
<1>13. Told'
  <2>1. ASSUME frames' # <<>> PROVE Len(q) = m - 1 /\ rc' # 0
    <3>1. Level > 1
      <4>1. Level' # 0
        <5> DEFINE S == [todo : Seq(Names), pos : Nat]
        <5>1. frames' \in Seq(S)
          BY <1>4 DEF WalkInv, WalkTypeOK, WalkCalls
        <5> HIDE DEF S
        <5>2. Len(frames') # 0
          BY <2>1, <5>1, EmptySeq
        <5>3. QED
          BY <5>2 DEF Level
      <4>2. QED
        BY <1>3, <1>7, <4>1 DEF m
    <3>2. Len(q) = m - 1
      BY <1>10, <3>1
    <3>3. rc' # 0
      BY <1>1, <3>1, DirWalkAssumption
    <3>4. QED
      BY <3>2, <3>3
  <2>2. QED
    BY <1>7, <2>1, Zenon DEF Told, q
<1>14. Ahead'
  <2> DEFINE f  == FilesBelow(listing)
             td == Todos
             t2 == [k \in 1..m |-> frames'[k].todo]
             a  == Files
             n  == Level
  <2>1. Todos' = t2 /\ Files' = a
    BY <1>1, <1>7, Zenon DEF Todos, Files
  <2>2. \A k \in 1..m : t2[k] = td[k]
    BY <1>7, <1>9, Zenon DEF Todos
  <2>3. ASSUME gone = {}, rc = 0 PROVE Remains(f, m, t2, q, visits, a)
    <3>1. Remains(f, n, td, path, visits, a)
      BY <1>1, <2>3, Zenon DEF TreeInv, Ahead, Underway
    <3>2. td[n] = <<>>
      <4>1. Top.todo = <<>>
        BY <1>1, <2>3, Zenon DEF TreeInv, Told
      <4>2. QED
        BY <1>3, <4>1, Zenon DEF Todos, Top
    <3>3. q \in Seq(Names) /\ \A k \in 1..(n - 1) : SubSeq(q, 1, k - 1) = SubSeq(path, 1, k - 1)
      <4>1. CASE Level > 1
        BY <1>10, <4>1, Zenon DEF m
      <4>2. CASE Level = 1
        <5>1. q = path
          BY <1>1, <4>2 DEF q
        <5>2. \A k \in 1..(n - 1) : FALSE
          BY <4>2
        <5>3. QED
          BY <1>3, <5>1, <5>2, Zenon
      <4>3. Level > 1 \/ Level = 1
        BY <1>3
      <4>4. QED
        BY <4>1, <4>2, <4>3, Zenon
    <3>4. f \in [Dirs -> Paths] /\ visits \in Paths
      BY <1>2, FilesAre DEF Seen
    <3>5. n \in Nat \ {0} /\ td \in [1..n -> Seq(Names)] /\ \A k \in 1..(n - 1) : t2[k] = td[k]
      BY <1>3, <2>2, Zenon DEF m
    <3> HIDE DEF f, td, t2, a, n
    <3>6. Remains(f, n - 1, t2, q, visits, a)
      BY <1>3, <3>1, <3>2, <3>3, <3>4, <3>5, RemainsReturn
    <3>7. QED
      BY <3>6, Zenon DEF m, n
  <2>4. ASSUME gone = {}, rc # 0 PROVE IsPrefix(visits, a)
    BY <1>1, <2>4, Zenon DEF TreeInv, Ahead, Underway
  <2>5. rc = 0 => rc' \in {Running, 0}
    BY <1>1, Zenon
  <2>6. rc # 0 => rc' \notin {Running, 0}
    BY <1>1, Zenon
  <2> HIDE DEF f, td, t2, a, n
  <2>7. QED
    BY <1>1, <1>7, <2>1, <2>3, <2>4, <2>5, <2>6, Zenon DEF Ahead, f, q
<1>15. QED
  BY <1>4, <1>5, <1>6, <1>11, <1>12, <1>13, <1>14, Zenon DEF TreeInv

LEMMA TreeStepInv == TreeInv /\ Outside /\ [WalkNext]_walkVars => TreeInv'
<1> SUFFICES ASSUME TreeInv, Outside, [WalkNext]_walkVars PROVE TreeInv'
  OBVIOUS
<1>1. CASE EnterDir
  BY <1>1, EnterDirTree
<1>2. CASE Vanished
  BY <1>2, VanishedTree
<1>3. CASE VisitFile
  BY <1>3, VisitFileTree
<1>4. CASE EndOfDir
  BY <1>4, EndOfDirTree
<1>5. CASE WalkReturn
  BY <1>5, WalkReturnTree
<1>6. CASE RemoveDir
  BY <1>6, RemoveDirTree
<1>7. CASE UNCHANGED walkVars
  <2>1. /\ listing' = listing /\ rootLen' = rootLen /\ path' = path /\ frames' = frames
        /\ visits' = visits /\ rc' = rc /\ gone' = gone
    BY <1>7 DEF walkVars, given
  <2>2. WalkInv' /\ Placed' /\ Linked'
    BY <1>7, <2>1, WalkStepInv DEF TreeInv, Placed, Linked, Level
  <2>3. Seen'
    BY <2>1, SeenStays DEF TreeInv
  <2>4. Told'
    BY <2>1, Zenon DEF TreeInv, Told, Lost, Level, Top
  <2>5. Ahead'
    <3>1. Level' = Level /\ Todos' = Todos /\ Files' = Files
      BY <2>1, Zenon DEF Level, Todos, Files
    <3>2. QED
      BY <2>1, <3>1, Zenon DEF TreeInv, Ahead, Underway
  <2>6. QED
    BY <2>1, <2>2, <2>3, <2>4, <2>5, Zenon DEF TreeInv
<1>8. CASE WalkStart
  BY <1>8, WalkStartTree
<1>9. QED
  BY <1>1, <1>2, <1>3, <1>4, <1>5, <1>6, <1>7, <1>8 DEF WalkNext

(* A call that has begun remains one.                                      *)
LEMMA StaysUnderway ==
  ASSUME WalkInv, frames # <<>>, WalkNext
  PROVE  Underway'
<1>1. WalkTypeOK /\ Level \in Nat \ {0}
  BY OpenCall DEF WalkInv
<1>2. CASE AtEntry /\ (EnterDir \/ Vanished \/ VisitFile)
  <2>1. Taken \in WalkCalls /\ Len(Taken) = Level
    BY <1>1, <1>2, TakenKeeps
  <2>2. Taken # <<>>
    BY <1>1, <2>1
  <2>3. \A c : Append(Taken, c) # <<>>
    BY <2>1 DEF WalkCalls
  <2>4. QED
    BY <1>2, <2>2, <2>3, Zenon DEF EnterDir, Vanished, VisitFile, Underway
<1>3. CASE WalkReturn
  <2>1. CASE Level = 1
    BY <1>3, <2>1 DEF WalkReturn, Underway
  <2>2. CASE Level # 1
    <3>1. frames' = [k \in 1..(Level - 1) |-> frames[k]] /\ Level - 1 \in Nat \ {0}
      BY <1>1, <1>3, <2>2, SMT DEF WalkReturn, WalkTypeOK, WalkCalls, Level
    <3>2. frames' # <<>>
      <4>1. 1 \in DOMAIN frames'
        BY <1>1, <3>1
      <4>2. QED
        BY <4>1
    <3>3. QED
      BY <3>2 DEF Underway
  <2>3. QED
    BY <2>1, <2>2
<1>4. QED
  BY <1>2, <1>3 DEF WalkNext, WalkStart, EnterDir, Vanished, VisitFile, EndOfDir, RemoveDir, Underway

LEMMA OutsideStep == WalkInv /\ Outside /\ [WalkNext]_walkVars => Outside'
<1> SUFFICES ASSUME WalkInv, Outside, [WalkNext]_walkVars PROVE Outside'
  OBVIOUS
<1>1. CASE UNCHANGED walkVars
  BY <1>1 DEF Outside, Underway, walkVars, given
<1>2. CASE WalkNext /\ frames # <<>>
  <2>1. Underway'
    BY <1>2, StaysUnderway
  <2>2. struck' = FALSE \/ (struck' = struck /\ ~struck)
    BY <1>2 DEF Outside, WalkNext, WalkStart, EnterDir, Vanished, VisitFile, EndOfDir, WalkReturn,
                RemoveDir
  <2>3. QED
    BY <2>1, <2>2 DEF Outside
<1>3. CASE WalkStart
  <2>1. path' = <<>> /\ rootLen' = rootLen /\ visits' = visits /\ gone' = gone /\ ~Underway
    BY <1>3 DEF WalkStart, given, Underway
  <2>2. ASSUME struck' PROVE rootLen = 0 /\ frames' = <<>> /\ rc' = -1
    <3>1. rootLen = 0
      BY <1>3, <2>2 DEF WalkStart
    <3>2. ~(rootLen > 0)
      BY <3>1
    <3>3. QED
      BY <1>3, <3>1, <3>2 DEF WalkStart
  <2>3. QED
    BY <2>1, <2>2 DEF Outside
<1>4. CASE WalkNext /\ frames = <<>> /\ ~WalkStart
  BY <1>4 DEF WalkNext, EnterDir, Vanished, VisitFile, AtEntry, EndOfDir, WalkReturn, RemoveDir
<1>5. QED
  BY <1>1, <1>2, <1>3, <1>4

LEMMA TreeInvariance == WalkSpec => [](TreeInv /\ Outside)
<1>1. TreeInv /\ Outside /\ [WalkNext]_walkVars => (TreeInv /\ Outside)'
  BY TreeStepInv, OutsideStep DEF TreeInv
<1>2. QED
  BY <1>1, TreeInitInv, PTL DEF WalkSpec

(* What filesystem_recursedirectories hands to the callback is a beginning *)
(* of the tree's files in their order, all of them when it returns 0, as   *)
(* long as no directory is removed; when some are, every path that is no   *)
(* file's names one of those.                                              *)
THEOREM TreeIsShown == WalkSpec => []ShowsTree
<1>1. ASSUME TreeInv, Outside PROVE ShowsTree
  <2>1. Level \in Nat /\ (frames = <<>> <=> Level = 0)
    BY <1>1, CallTodos DEF TreeInv
  <2>2. visits \in Paths /\ \A v \in ToSet(visits) : v \in ToSet(Files) \/ Lost(v)
    BY <1>1, Zenon DEF TreeInv, Seen
  <2>3. ASSUME gone = {} PROVE IsPrefix(visits, Files) /\ (frames = <<>> /\ rc = 0 => visits = Files)
    <3>1. CASE Underway /\ rc \in {Running, 0}
      <4>1. Remains(FilesBelow(listing), Level, Todos, path, visits, Files)
        BY <1>1, <2>3, <3>1, Zenon DEF TreeInv, Ahead
      <4>2. IsPrefix(visits, Files) /\ (Level = 0 => visits = Files)
        BY <2>1, <2>2, <4>1, RemainsPrefix
      <4>3. QED
        BY <2>1, <4>2, Zenon
    <3>2. CASE Underway /\ rc \notin {Running, 0}
      BY <1>1, <2>3, <3>2, Zenon DEF TreeInv, Ahead
    <3>3. CASE ~Underway
      <4>1. visits = <<>> /\ rc # 0 /\ Files \in Paths
        <5>1. listing \in Listings /\ Root \in Dirs
          BY <1>1, DirWalkAssumption DEF TreeInv
        <5>2. QED
          BY <1>1, <3>3, <5>1, FilesAre, DirWalkAssumption DEF Outside, Underway, Files
      <4>2. QED
        BY <4>1, NothingIsPrefix, Zenon
    <3>4. QED
      BY <3>1, <3>2, <3>3
  <2>4. QED
    BY <2>2, <2>3, Zenon DEF ShowsTree, Lost
<1>2. QED
  BY <1>1, TreeInvariance, PTL

(* filesystem_recursedirectories writes inside the path's buffer as long as*)
(* the directories' own paths fit and no name was left in the path.        *)
THEOREM BufferNotOverrun == WalkSpec => []BufferHolds
<1>1. ASSUME TreeInv, Outside PROVE BufferHolds
  <2> SUFFICES ASSUME uncut = {}, DirsFit
               PROVE  PathLen(path) < PATH_MAXLEN /\ \A v \in ToSet(visits) : PathLen(v) < PATH_MAXLEN
    BY <1>1 DEF BufferHolds, Outside
  <2>1. WalkInv /\ Parts /\ PathRestored /\ rootLen \in RootLens /\ listing \in Listings
    BY <1>1 DEF TreeInv, WalkInv
  <2>2. Level \in Nat /\ Len(path) \in Nat /\ path \in Seq(Names) /\ (frames = <<>> <=> Level = 0)
    BY <2>1, CallTodos
  <2>3. PathLen(<<>>) < PATH_MAXLEN
    <3>1. rootLen \in Nat /\ rootLen + 1 < PATH_MAXLEN
      BY <2>1, DirWalkAssumption
    <3>2. PathLen(<<>>) = rootLen
      BY <2>2, <3>1, PathLenType
    <3>3. QED
      BY <3>1, <3>2, DirWalkAssumption
  <2>4. PathLen(path) < PATH_MAXLEN
    <3>1. CASE path = <<>>
      BY <2>3, <3>1, Zenon
    <3>2. CASE path = <<NoName>>
      <4>1. rootLen \in Nat /\ rootLen + 1 < PATH_MAXLEN /\ NameLen[NoName] = 0 /\ NoName \in Names
        BY <2>1, DirWalkAssumption DEF Names
      <4>2. PathLen(<<NoName>>) = rootLen + 1
        BY <4>1, PathLenOne
      <4>3. QED
        BY <3>2, <4>1, <4>2
    <3>3. CASE path \notin {<<>>, <<NoName>>}
      <4>1. frames # <<>> /\ path # <<>>
        BY <1>1, <2>1, <3>3 DEF PathRestored, Outside, Underway
      <4>2. Level \in 1..Level /\ End(Level) = Base(Level)
        BY <2>1, <2>2, <4>1 DEF Parts
      <4>3. frames[Level].pos = IF Level = 1 THEN 0 ELSE Level - 2
        BY <1>1, <4>2, Zenon DEF TreeInv, Placed
      <4>4. Len(path) = Level - 1
        BY <2>2, <4>2, <4>3 DEF End, Base
      <4>5. Link(listing, frames[Level].todo, path, Level)
        BY <1>1, <4>2, Zenon DEF TreeInv, Linked
      <4>6. SubSeq(path, 1, Level - 1) = path
        BY <2>2, <4>4, SubSeqFull
      <4>7. path \in DirsBelow(listing)[Root]
        BY <4>1, <4>5, <4>6, Zenon DEF Link, Way
      <4>8. QED
        BY <4>7, Zenon DEF DirsFit
    <3>4. QED
      BY <3>1, <3>2, <3>3
  <2>5. \A v \in ToSet(visits) : PathLen(v) < PATH_MAXLEN
    BY <1>1, Zenon DEF TreeInv, Seen, Fit
  <2>6. QED
    BY <2>4, <2>5
<1>2. QED
  BY <1>1, TreeInvariance, PTL

-----------------------------------------------------------------------------
(* The clock and the ages of files.                                        *)

(* Numbers.                                                                *)

LEMMA WrapMod ==
  ASSUME NEW m \in Nat \ {0}, NEW a \in Int
  PROVE  /\ 0 <= a /\ a < m => a % m = a
         /\ m <= a /\ a < 2 * m => a % m = a - m
         /\ -m <= a /\ a < 0 => a % m = a + m
BY SMTT(60)

(* The counts of leap days in a year's number, as the inequalities that a  *)
(* quotient stands for.                                                    *)
LEMMA YearInEra ==
  ASSUME NEW d \in Nat, d < 146097, NEW a \in Int, NEW b \in Int, NEW c \in Int,
         NEW y \in Int, NEW q \in Int, NEW h \in Int,
         1460 * a <= d, d < 1460 * a + 1460,
         36524 * b <= d, d < 36524 * b + 36524,
         146096 * c <= d, d < 146096 * c + 146096,
         365 * y <= d - a + b - c, d - a + b - c < 365 * y + 365,
         4 * q <= y, y < 4 * q + 4,
         100 * h <= y, y < 100 * h + 100
  PROVE  0 <= y /\ y < 400 /\ 0 <= d - (365 * y + q - h) /\ d - (365 * y + q - h) < 366
BY SMTT(60)

LEMMA YearOfEra ==
  ASSUME NEW doe \in Nat, doe < 146097, NEW yoe,
         yoe = (doe - doe \div 1460 + doe \div 36524 - doe \div 146096) \div 365
  PROVE  /\ yoe \in Nat /\ yoe < 400
         /\ LET doy == doe - (365 * yoe + yoe \div 4 - yoe \div 100)
            IN  doy \in Nat /\ doy < 366
<1> DEFINE a == doe \div 1460
           b == doe \div 36524
           c == doe \div 146096
           q == yoe \div 4
           h == yoe \div 100
<1>1. a \in Int /\ 1460 * a <= doe /\ doe < 1460 * a + 1460
  BY SMT
<1>2. b \in Int /\ 36524 * b <= doe /\ doe < 36524 * b + 36524
  BY SMT
<1>3. c \in Int /\ 146096 * c <= doe /\ doe < 146096 * c + 146096
  BY SMT
<1>4. yoe = (doe - a + b - c) \div 365
  BY SMT
<1> HIDE DEF a, b, c
<1>5. yoe \in Int /\ 365 * yoe <= doe - a + b - c /\ doe - a + b - c < 365 * yoe + 365
  BY <1>1, <1>2, <1>3, <1>4, SMT
<1>6. q \in Int /\ 4 * q <= yoe /\ yoe < 4 * q + 4 /\ h \in Int /\ 100 * h <= yoe /\ yoe < 100 * h + 100
  BY <1>5, SMT
<1> HIDE DEF q, h
<1>7. 0 <= yoe /\ yoe < 400 /\ 0 <= doe - (365 * yoe + q - h) /\ doe - (365 * yoe + q - h) < 366
  BY <1>1, <1>2, <1>3, <1>5, <1>6, YearInEra, SMT
<1>8. QED
  BY <1>5, <1>6, <1>7, SMT DEF q, h

LEMMA MonthOfYear ==
  ASSUME NEW doy \in Nat, doy < 366, NEW mp, mp = (5 * doy + 2) \div 153
  PROVE  mp \in 0..11 /\ doy - (153 * mp + 2) \div 5 \in 0..30
BY SMTT(60)

(* Where a day stands in the calendar, and the day that stands there.      *)
LEMMA CalendarAgrees ==
  ASSUME NEW day \in Int
  PROVE  LET r == DateOf(day) IN
         /\ r.month \in 1..12 /\ r.day \in 1..31 /\ r.year \in Int
         /\ DayOf(r.year, r.month, r.day) = day
         /\ -20000000 < day /\ day < 20000001 => -55000 < r.year /\ r.year < 60000
<1> DEFINE z   == day + 719468
           era == z \div 146097
           doe == z % 146097
           yoe == (doe - doe \div 1460 + doe \div 36524 - doe \div 146096) \div 365
           doy == doe - (365 * yoe + yoe \div 4 - yoe \div 100)
           mp  == (5 * doy + 2) \div 153
           m   == IF mp < 10 THEN mp + 3 ELSE mp - 9
           yr  == yoe + 400 * era + (IF m <= 2 THEN 1 ELSE 0)
           dom == doy - (153 * mp + 2) \div 5 + 1
<1>1. DateOf(day) = [year |-> yr, month |-> m, day |-> dom]
  BY SMT DEF DateOf
<1>2. era \in Int /\ doe \in Nat /\ doe < 146097 /\ day = 146097 * era + doe - 719468
  BY SMT
<1> HIDE DEF era, doe
<1>3. yoe \in Nat /\ yoe < 400 /\ doy \in Nat /\ doy < 366
  BY <1>2, YearOfEra, SMT
<1>4. doe = 365 * yoe + yoe \div 4 - yoe \div 100 + doy
  <2> HIDE DEF yoe
  <2>1. QED
    BY <1>2, <1>3, SMT
<1> HIDE DEF yoe, doy
<1>5. mp \in 0..11 /\ dom \in 1..31 /\ doy = (153 * mp + 2) \div 5 + dom - 1
  <2>1. mp \in 0..11 /\ doy - (153 * mp + 2) \div 5 \in 0..30
    BY <1>3, MonthOfYear, SMT
  <2> HIDE DEF mp
  <2>2. QED
    BY <1>3, <2>1, SMT
<1> HIDE DEF mp, dom
<1>6. m \in 1..12 /\ (m + 9) % 12 = mp
  BY <1>5, SMT
<1>7. yr \in Int /\ (IF m <= 2 THEN yr - 1 ELSE yr) = yoe + 400 * era
  BY <1>2, <1>3, <1>6, SMT
<1> HIDE DEF m, yr
<1>8. (yoe + 400 * era) % 400 = yoe /\ (yoe + 400 * era) \div 400 = era
  BY <1>2, <1>3, SMT
<1>9. DayOf(yr, m, dom) = day
  <2>1. DayOf(yr, m, dom) = 400 * 365 * era + 97 * era + 365 * yoe + yoe \div 4 - yoe \div 100
                              + (153 * mp + 2) \div 5 + dom - 1 - 719468
    <3> DEFINE w == yoe + 400 * era
    <3>1. /\ (IF m <= 2 THEN yr - 1 ELSE yr) = w
          /\ w % 400 = yoe /\ w \div 400 = era /\ (m + 9) % 12 = mp
      BY <1>6, <1>7, <1>8
    <3> HIDE DEF w
    <3>2. QED
      BY <3>1, SMT DEF DayOf
  <2> DEFINE q == yoe \div 4
             h == yoe \div 100
             n == (153 * mp + 2) \div 5
  <2>2. q \in Int /\ h \in Int /\ n \in Int
    BY <1>3, <1>5, SMT
  <2>3. /\ DayOf(yr, m, dom) = 400 * 365 * era + 97 * era + 365 * yoe + q - h + n + dom - 1 - 719468
        /\ doe = 365 * yoe + q - h + doy /\ doy = n + dom - 1
    BY <2>1, <1>4, <1>5, SMT
  <2> HIDE DEF q, h, n
  <2>4. QED
    BY <1>2, <1>3, <1>5, <2>2, <2>3, SMT
<1>10. -20000000 < day /\ day < 20000001 => -55000 < yr /\ yr < 60000
  <2>1. yr = yoe + 400 * era \/ yr = yoe + 400 * era + 1
    BY <1>7, <1>2, <1>3, <1>6, SMT
  <2>2. QED
    BY <1>2, <1>3, <2>1, SMT
<1>11. QED
  BY <1>1, <1>5, <1>6, <1>7, <1>9, <1>10, SMT

-----------------------------------------------------------------------------
(* The clock.                                                              *)

Rounded(n) == (n + 500000) \div 1000000

Near(x) == -500000 <= x /\ x <= 500000

LEMMA Rounding ==
  ASSUME NEW n \in Nat, n < 1000000000
  PROVE  /\ Rounded(n) \in Nat /\ Rounded(n) <= 1000
         /\ Near(Rounded(n) * 1000000 - n)
         /\ \A k \in Nat : k < n => Rounded(k) <= Rounded(n)
<1>1. ASSUME NEW i \in Nat
      PROVE  /\ Rounded(i) \in Int /\ 1000000 * Rounded(i) <= i + 500000
             /\ i + 500000 < 1000000 * Rounded(i) + 1000000
  BY SMT DEF Rounded
<1> DEFINE r == Rounded(n)
<1>2. r \in Int /\ 1000000 * r <= n + 500000 /\ n + 500000 < 1000000 * r + 1000000
  BY <1>1
<1> HIDE DEF r
<1>3. r \in Nat /\ r <= 1000
  BY <1>2, SMT
<1>4. Near(r * 1000000 - n)
  BY <1>2, SMT DEF Near
<1>5. ASSUME NEW k \in Nat, k < n
      PROVE  Rounded(k) <= r
  <2> DEFINE q == Rounded(k)
  <2>1. q \in Int /\ 1000000 * q <= k + 500000 /\ k + 500000 < 1000000 * q + 1000000
    BY <1>1
  <2> HIDE DEF q
  <2>2. q <= r
    BY <1>2, <1>5, <2>1, SMT
  <2>3. QED
    BY <2>2 DEF q
<1>6. QED
  BY <1>3, <1>4, <1>5, SMT DEF r

LEMMA MillisIs ==
  ASSUME NEW t \in Nat, NEW n \in Nat, n < 1000000000
  PROVE  (IF Rounded(n) > 999 THEN (t + 1) * 1000 ELSE t * 1000 + Rounded(n))
           = t * 1000 + Rounded(n)
<1>1. Rounded(n) \in Nat /\ Rounded(n) <= 1000
  BY Rounding, SMT
<1> DEFINE r == Rounded(n)
<1> HIDE DEF r
<1>2. (IF r > 999 THEN (t + 1) * 1000 ELSE t * 1000 + r) = t * 1000 + r
  BY <1>1, SMT DEF r
<1>3. QED
  BY <1>2, SMT DEF r

MillisAt(t, n) == IF Rounded(n) > 999 THEN (t + 1) * 1000 ELSE t * 1000 + Rounded(n)

LEMMA MillisNow == CurrentMillis = MillisAt(sec, ns) /\ CurrentMillis' = MillisAt(sec', ns')
BY SMT DEF CurrentMillis, MillisAt, Rounded

(* What was read last is what the clock was worth then.                    *)
ClockTypeOK == /\ sec \in 0..LastSecond /\ ns \in Nanos
               /\ readAt[1] \in Nat /\ readAt[2] \in Nat /\ readAt[2] < 1000000000

ClockInv == ClockTypeOK /\ millis = MillisAt(readAt[1], readAt[2])

LEMMA ClockInitInv == TimeInit => ClockInv
<1> SUFFICES ASSUME TimeInit PROVE ClockInv
  BY SMT
<1>1. /\ sec = 0 /\ ns \in Nanos /\ millis = 0 /\ 0 \in 0..LastSecond
      /\ readAt[1] = 0 /\ readAt[2] = 0
  BY TimeAssumption, SMT DEF TimeInit
<1>2. Rounded(0) = 0
  BY SMT DEF Rounded
<1>3. MillisAt(0, 0) = 0
  BY <1>2, SMT DEF MillisAt
<1>4. ClockTypeOK
  BY <1>1, SMT DEF ClockTypeOK
<1>5. QED
  BY <1>1, <1>3, <1>4, SMT DEF ClockInv

LEMMA ClockIs ==
  ASSUME ClockInv
  PROVE  /\ sec \in Nat /\ ns \in Nat /\ ns < 1000000000
         /\ CurrentMillis = sec * 1000 + Rounded(ns)
         /\ millis = readAt[1] * 1000 + Rounded(readAt[2])
<1>1. /\ sec \in Nat /\ ns \in Nat /\ ns < 1000000000
      /\ readAt[1] \in Nat /\ readAt[2] \in Nat /\ readAt[2] < 1000000000
  BY TimeAssumption, SMT DEF ClockInv, ClockTypeOK
<1>2. CurrentMillis = sec * 1000 + Rounded(ns)
  BY <1>1, MillisNow, MillisIs, SMT DEF MillisAt
<1>3. MillisAt(readAt[1], readAt[2]) = readAt[1] * 1000 + Rounded(readAt[2])
  BY <1>1, MillisIs, SMT DEF MillisAt
<1>4. QED
  BY <1>1, <1>2, <1>3, SMT DEF ClockInv

LEMMA ClockStepInv == ClockInv /\ [TimeNext]_timeVars => ClockInv'
<1> SUFFICES ASSUME ClockInv, [TimeNext]_timeVars PROVE ClockInv'
  BY SMT
<1>1. CASE Tick
  <2>1. sec' \in 0..LastSecond /\ ns' \in Nanos /\ millis' = millis /\ readAt' = readAt
    BY <1>1, SMT DEF Tick
  <2>2. QED
    BY <2>1, SMT DEF ClockInv, ClockTypeOK
<1>2. CASE ReadClock
  <2>1. millis' = CurrentMillis /\ sec' = sec /\ ns' = ns /\ readAt'[1] = sec /\ readAt'[2] = ns
    BY <1>2, SMT DEF ReadClock
  <2>2. sec \in Nat /\ ns \in Nat /\ ns < 1000000000
    BY ClockIs, SMT
  <2>3. ClockTypeOK'
    BY <2>1, <2>2, SMT DEF ClockInv, ClockTypeOK
  <2>4. millis' = MillisAt(readAt'[1], readAt'[2])
    BY <2>1, MillisNow, SMT
  <2>5. QED
    BY <2>3, <2>4, SMT DEF ClockInv
<1>3. CASE FormatTime \/ ParseTime \/ UNCHANGED timeVars
  <2>1. UNCHANGED <<sec, ns, millis, readAt>>
    BY <1>3, SMT DEF FormatTime, ParseTime, timeVars, clock
  <2>2. QED
    BY <2>1, SMT DEF ClockInv, ClockTypeOK
<1>4. QED
  BY <1>1, <1>2, <1>3, SMT DEF TimeNext

(* Of two moments the later one has no smaller number of milliseconds.     *)
LEMMA MillisOrder ==
  ASSUME NEW t \in Nat, NEW n \in Nat, n < 1000000000,
         NEW u \in Nat, NEW k \in Nat, k < 1000000000
  PROVE  /\ t > u \/ (t = u /\ n > k) => t * 1000 + Rounded(n) >= u * 1000 + Rounded(k)
         /\ ~(t > u \/ (t = u /\ n > k)) => t * 1000 + Rounded(n) <= u * 1000 + Rounded(k)
<1>1. /\ Rounded(n) \in Nat /\ Rounded(n) <= 1000
      /\ k < n => Rounded(k) <= Rounded(n)
  BY Rounding, SMT
<1>2. /\ Rounded(k) \in Nat /\ Rounded(k) <= 1000
      /\ n < k => Rounded(n) <= Rounded(k)
  BY Rounding, SMT
<1> DEFINE r == Rounded(n)
           q == Rounded(k)
<1> HIDE DEF r, q
<1>3. /\ r \in Nat /\ r <= 1000 /\ (k < n => q <= r)
      /\ q \in Nat /\ q <= 1000 /\ (n < k => r <= q) /\ (n = k => r = q)
  BY <1>1, <1>2, SMT DEF r, q
<1>4. /\ t > u \/ (t = u /\ n > k) => t * 1000 + r >= u * 1000 + q
      /\ ~(t > u \/ (t = u /\ n > k)) => t * 1000 + r <= u * 1000 + q
  BY <1>3, SMT
<1>5. QED
  BY <1>4, SMT DEF r, q

KeepsUp == LET ahead == (millis' - sec * 1000) * 1000000 - ns IN
           millis' # millis =>
             /\ millis' > millis <=> Later(<<sec, ns>>, readAt)
             /\ -500000 <= ahead /\ ahead <= 500000

LEMMA ClockReads == ClockInv /\ [TimeNext]_timeVars => [KeepsUp]_timeVars
<1> SUFFICES ASSUME ClockInv, TimeNext PROVE KeepsUp
  BY SMT DEF KeepsUp
<1>1. /\ sec \in Nat /\ ns \in Nat /\ ns < 1000000000
      /\ readAt[1] \in Nat /\ readAt[2] \in Nat /\ readAt[2] < 1000000000
  BY ClockIs, SMT DEF ClockInv, ClockTypeOK
<1>2. /\ CurrentMillis = sec * 1000 + Rounded(ns)
      /\ millis = readAt[1] * 1000 + Rounded(readAt[2])
      /\ Near(Rounded(ns) * 1000000 - ns) /\ Rounded(ns) \in Nat /\ Rounded(readAt[2]) \in Nat
  BY <1>1, ClockIs, Rounding, SMT
<1>3. CASE ReadClock
  <2>1. millis' = sec * 1000 + Rounded(ns)
    BY <1>2, <1>3, SMT DEF ReadClock
  <2>2. Later(<<sec, ns>>, readAt) <=> sec > readAt[1] \/ (sec = readAt[1] /\ ns > readAt[2])
    BY SMT DEF Later
  <2>3. millis' # millis => (millis' > millis <=> Later(<<sec, ns>>, readAt))
    <3>1. /\ Later(<<sec, ns>>, readAt) => millis' >= millis
          /\ ~Later(<<sec, ns>>, readAt) => millis' <= millis
      BY <1>1, <1>2, <2>1, <2>2, MillisOrder, SMT
    <3>2. millis' \in Int /\ millis \in Int
      BY <1>1, <1>2, <2>1, SMT
    <3>3. QED
      BY <3>1, <3>2, SMT
  <2>4. QED
    BY <1>1, <1>2, <2>1, <2>3, SMT DEF KeepsUp, Near
<1>4. CASE ~ReadClock
  <2>1. millis' = millis
    BY <1>4, SMT DEF TimeNext, Tick, FormatTime, ParseTime, clock
  <2>2. QED
    BY <2>1, SMT DEF KeepsUp
<1>5. QED
  BY <1>3, <1>4, SMT

(* timefn_getcurrentunixtimemillis keeps the order of the clock it reads   *)
(* and is half a millisecond off at most, also when that clock is set.     *)
THEOREM ClockKeepsOrder == TimeSpec => ClockKeepsUp
<1>1. TimeInit => ClockInv
  BY ClockInitInv, SMT
<1>2. ClockInv /\ [TimeNext]_timeVars => ClockInv'
  BY ClockStepInv, SMT
<1>3. ClockInv /\ [TimeNext]_timeVars => [KeepsUp]_timeVars
  BY ClockReads, SMT
<1>4. QED
  BY <1>1, <1>2, <1>3, PTL DEF TimeSpec, ClockKeepsUp, KeepsUp

(* What an int makes of a number that is too great or too small by less    *)
(* than its range.                                                         *)
LEMMA IntIs ==
  ASSUME NEW x \in Int
  PROVE  /\ -IntHalf <= x /\ x < IntHalf => ToInt(x) = x
         /\ IntHalf <= x /\ x < 3 * IntHalf => ToInt(x) = x - 2 * IntHalf
         /\ -3 * IntHalf <= x /\ x < -IntHalf => ToInt(x) = x + 2 * IntHalf
<1> DEFINE m == 2 * IntHalf
           a == x + IntHalf
<1>1. IntHalf \in Nat \ {0} /\ m \in Nat \ {0} /\ a \in Int
  BY TimeAssumption, SMT
<1>2. ToInt(x) = (a % m) - IntHalf
  BY SMT DEF ToInt
<1> HIDE DEF m, a
<1>3. /\ 0 <= a /\ a < m => a % m = a
      /\ m <= a /\ a < 2 * m => a % m = a - m
      /\ -m <= a /\ a < 0 => a % m = a + m
  BY <1>1, WrapMod, Zenon
<1>4. /\ -IntHalf <= x /\ x < IntHalf => 0 <= a /\ a < m
      /\ IntHalf <= x /\ x < 3 * IntHalf => m <= a /\ a < 2 * m
      /\ -3 * IntHalf <= x /\ x < -IntHalf => -m <= a /\ a < 0
  BY <1>1, SMT DEF a, m
<1>5. QED
  BY <1>1, <1>2, <1>3, <1>4, SMT DEF a, m

(* filesystem_isfileolderthan never calls a file older than it is, however *)
(* its subtraction overflows, and is right as long as the clock fits.      *)
THEOREM AgeIsTold == TimeSpec => []AgeTells
<1>1. ASSUME ClockInv PROVE AgeTells
  <2> SUFFICES ASSUME NEW found \in BOOLEAN, NEW mtime \in -LastSecond..LastSecond,
                      NEW seconds \in 0..(IntHalf - 1)
               PROVE  /\ found <=> -1 \notin IsFileOlderThan(found, mtime, seconds)
                      /\ 1 \in IsFileOlderThan(found, mtime, seconds) => sec - mtime > seconds
                      /\ found /\ sec < IntHalf =>
                           IsFileOlderThan(found, mtime, seconds)
                             = {IF sec - mtime > seconds THEN 1 ELSE 0}
    BY SMT DEF AgeTells
  <2>1. /\ sec \in Nat /\ sec < 2 * IntHalf /\ IntHalf \in Nat \ {0}
        /\ mtime \in Int /\ seconds \in Nat /\ seconds < IntHalf
    BY <1>1, TimeAssumption, SMT DEF ClockInv, ClockTypeOK
  <2> DEFINE s == ToInt(sec)
             d == ToInt(s - seconds)
             Answer(limit) == IF mtime < limit THEN 1 ELSE 0
  <2>2. s = IF sec < IntHalf THEN sec ELSE sec - 2 * IntHalf
    <3>1. /\ sec < IntHalf => -IntHalf <= sec
          /\ sec >= IntHalf => sec < 3 * IntHalf
      BY <2>1, SMT
    <3>2. QED
      BY <2>1, <3>1, IntIs, SMT
  <2> HIDE DEF s
  <2>3. s \in Int /\ s - seconds \in Int
    BY <2>1, <2>2, SMT
  <2>4. /\ s - seconds <= sec - seconds /\ d \in Int /\ d <= sec - seconds
        /\ sec < IntHalf => s - seconds = sec - seconds /\ d = sec - seconds
    <3>1. CASE -IntHalf <= s - seconds
      <4>1. s - seconds < IntHalf
        BY <2>1, <2>2, SMT
      <4>2. d = s - seconds
        BY <2>3, <3>1, <4>1, IntIs, SMT
      <4>3. QED
        BY <2>1, <2>2, <4>2, SMT
    <3>2. CASE s - seconds < -IntHalf
      <4>1. sec >= IntHalf /\ -3 * IntHalf <= s - seconds
        BY <2>1, <2>2, <3>2, SMT
      <4>2. d = s - seconds + 2 * IntHalf
        BY <2>3, <3>2, <4>1, IntIs, SMT
      <4>3. QED
        BY <2>1, <2>2, <4>1, <4>2, SMT
    <3>3. QED
      BY <2>1, <2>3, <3>1, <3>2, SMT
  <2>5. found => IsFileOlderThan(found, mtime, seconds) = {Answer(s - seconds), Answer(d)}
    BY SMT DEF IsFileOlderThan, Difference, s
  <2>6. ~found => IsFileOlderThan(found, mtime, seconds) = {-1}
    BY SMT DEF IsFileOlderThan
  <2> HIDE DEF d
  <2>7. \A limit \in Int : /\ Answer(limit) \in {0, 1}
                           /\ Answer(limit) = 1 => mtime < limit
    BY <2>1, SMT
  <2>8. /\ Answer(s - seconds) = 1 => sec - mtime > seconds
        /\ Answer(d) = 1 => sec - mtime > seconds
    BY <2>1, <2>3, <2>4, <2>7, SMT
  <2>9. sec < IntHalf => /\ Answer(s - seconds) = (IF sec - mtime > seconds THEN 1 ELSE 0)
                         /\ Answer(d) = (IF sec - mtime > seconds THEN 1 ELSE 0)
    BY <2>1, <2>4, SMT
  <2>10. Answer(s - seconds) \in {0, 1} /\ Answer(d) \in {0, 1}
    BY <2>3, <2>4, <2>7, SMT
  <2> HIDE DEF Answer
  <2>11. QED
    BY <2>5, <2>6, <2>8, <2>9, <2>10, SMT
<1>2. QED
  BY <1>1, ClockInitInv, ClockStepInv, PTL DEF TimeSpec

-----------------------------------------------------------------------------
(* Dates, formatted and read back.                                         *)

LEMMA Joins ==
  ASSUME NEW x \in Seq(Nat), NEW y \in Seq(Nat)
  PROVE  /\ x \o y \in Seq(Nat) /\ Len(x \o y) = Len(x) + Len(y)
         /\ \A i \in 1..Len(x) : (x \o y)[i] = x[i]
         /\ \A i \in 1..Len(y) : (x \o y)[Len(x) + i] = y[i]
BY SMT

(* One character, or two digits, behind a text.                            *)
LEMMA ThenOne ==
  ASSUME NEW x \in Seq(Nat), NEW c \in Nat
  PROVE  /\ x \o <<c>> \in Seq(Nat) /\ Len(x \o <<c>>) = Len(x) + 1
         /\ \A i \in 1..Len(x) : (x \o <<c>>)[i] = x[i]
         /\ (x \o <<c>>)[Len(x) + 1] = c
<1> DEFINE y == <<c>>
<1>1. y \in Seq(Nat) /\ Len(y) = 1 /\ y[1] = c
  BY SMT
<1> HIDE DEF y
<1>2. /\ x \o y \in Seq(Nat) /\ Len(x \o y) = Len(x) + 1
      /\ \A i \in 1..Len(x) : (x \o y)[i] = x[i]
      /\ (x \o y)[Len(x) + 1] = c
  <2>1. /\ x \o y \in Seq(Nat) /\ Len(x \o y) = Len(x) + Len(y)
        /\ \A i \in 1..Len(x) : (x \o y)[i] = x[i]
        /\ \A i \in 1..Len(y) : (x \o y)[Len(x) + i] = y[i]
    BY <1>1, Joins, Zenon
  <2>2. 1 \in 1..Len(y)
    BY <1>1, SMT
  <2>3. (x \o y)[Len(x) + 1] = y[1]
    BY <2>1, <2>2, Zenon
  <2>4. QED
    BY <1>1, <2>1, <2>3, Zenon
<1>3. QED
  BY <1>2 DEF y

LEMMA ThenTwo ==
  ASSUME NEW x \in Seq(Nat), NEW y \in Seq(Nat), Len(y) = 2
  PROVE  /\ x \o y \in Seq(Nat) /\ Len(x \o y) = Len(x) + 2
         /\ \A i \in 1..Len(x) : (x \o y)[i] = x[i]
         /\ (x \o y)[Len(x) + 1] = y[1] /\ (x \o y)[Len(x) + 2] = y[2]
<1>1. /\ x \o y \in Seq(Nat) /\ Len(x \o y) = Len(x) + Len(y)
      /\ \A i \in 1..Len(x) : (x \o y)[i] = x[i]
      /\ \A i \in 1..Len(y) : (x \o y)[Len(x) + i] = y[i]
  BY Joins, Zenon
<1>2. 1 \in 1..Len(y) /\ 2 \in 1..Len(y)
  BY SMT
<1>3. (x \o y)[Len(x) + 1] = y[1] /\ (x \o y)[Len(x) + 2] = y[2]
  BY <1>1, <1>2, Zenon
<1>4. QED
  BY <1>1, <1>3, Zenon

LEMMA AreDigits ==
  ASSUME NEW n \in Nat, NEW f \in [1..n -> Nat]
  PROVE  f \in Seq(Nat) /\ Len(f) = n
BY SMT

(* Six fields between their signs.                                         *)
Line(y, mo, d, h, mi, s) ==
  y \o <<Dash>> \o mo \o <<Dash>> \o d \o <<Sep>> \o h \o <<Colon>> \o mi \o <<Colon>> \o s

Two(x) == x \in Seq(Nat) /\ Len(x) = 2

LEMMA LineReads ==
  ASSUME NEW y \in Seq(Nat), NEW mo, NEW d, NEW h, NEW mi, NEW s,
         Two(mo), Two(d), Two(h), Two(mi), Two(s)
  PROVE  LET t == Line(y, mo, d, h, mi, s) IN
         /\ t \in Seq(Nat) /\ Len(t) = Len(y) + 15
         /\ \A i \in 1..Len(y) : t[i] = y[i]
         /\ Len(y) = 4 => /\ t[5] = Dash
                          /\ t[6] = mo[1] /\ t[7] = mo[2] /\ t[9] = d[1] /\ t[10] = d[2]
                          /\ t[12] = h[1] /\ t[13] = h[2] /\ t[15] = mi[1] /\ t[16] = mi[2]
                          /\ t[18] = s[1] /\ t[19] = s[2]
<1> DEFINE k  == Len(y)
           w1 == y \o <<Dash>>
           w2 == w1 \o mo
           w3 == w2 \o <<Dash>>
           w4 == w3 \o d
           w5 == w4 \o <<Sep>>
           w6 == w5 \o h
           w7 == w6 \o <<Colon>>
           w8 == w7 \o mi
           w9 == w8 \o <<Colon>>
           w10 == w9 \o s
<1>1. k \in Nat /\ Dash \in Nat /\ Sep \in Nat /\ Colon \in Nat
  BY SMT DEF Dash, Sep, Colon
<1>2. Line(y, mo, d, h, mi, s) = w10
  BY DEF Line
<1> HIDE DEF w1, w2, w3, w4, w5, w6, w7, w8, w9, w10
<1>3. /\ w1 \in Seq(Nat) /\ Len(w1) = k + 1
      /\ \A i \in 1..k : w1[i] = y[i]
      /\ w1[k + 1] = Dash
  BY <1>1, ThenOne, Zenon DEF w1
<1>4. /\ w2 \in Seq(Nat) /\ Len(w2) = Len(w1) + 2
      /\ \A i \in 1..Len(w1) : w2[i] = w1[i]
      /\ w2[Len(w1) + 1] = mo[1] /\ w2[Len(w1) + 2] = mo[2]
  BY <1>3, ThenTwo, Zenon DEF w2, Two
<1>5. /\ w3 \in Seq(Nat) /\ Len(w3) = Len(w2) + 1
      /\ \A i \in 1..Len(w2) : w3[i] = w2[i]
      /\ w3[Len(w2) + 1] = Dash
  BY <1>1, <1>4, ThenOne, Zenon DEF w3
<1>6. /\ w4 \in Seq(Nat) /\ Len(w4) = Len(w3) + 2
      /\ \A i \in 1..Len(w3) : w4[i] = w3[i]
      /\ w4[Len(w3) + 1] = d[1] /\ w4[Len(w3) + 2] = d[2]
  BY <1>5, ThenTwo, Zenon DEF w4, Two
<1>7. /\ w5 \in Seq(Nat) /\ Len(w5) = Len(w4) + 1
      /\ \A i \in 1..Len(w4) : w5[i] = w4[i]
      /\ w5[Len(w4) + 1] = Sep
  BY <1>1, <1>6, ThenOne, Zenon DEF w5
<1>8. /\ w6 \in Seq(Nat) /\ Len(w6) = Len(w5) + 2
      /\ \A i \in 1..Len(w5) : w6[i] = w5[i]
      /\ w6[Len(w5) + 1] = h[1] /\ w6[Len(w5) + 2] = h[2]
  BY <1>7, ThenTwo, Zenon DEF w6, Two
<1>9. /\ w7 \in Seq(Nat) /\ Len(w7) = Len(w6) + 1
      /\ \A i \in 1..Len(w6) : w7[i] = w6[i]
      /\ w7[Len(w6) + 1] = Colon
  BY <1>1, <1>8, ThenOne, Zenon DEF w7
<1>10. /\ w8 \in Seq(Nat) /\ Len(w8) = Len(w7) + 2
       /\ \A i \in 1..Len(w7) : w8[i] = w7[i]
       /\ w8[Len(w7) + 1] = mi[1] /\ w8[Len(w7) + 2] = mi[2]
  BY <1>9, ThenTwo DEF w8, Two
<1>11. /\ w9 \in Seq(Nat) /\ Len(w9) = Len(w8) + 1
       /\ \A i \in 1..Len(w8) : w9[i] = w8[i]
       /\ w9[Len(w8) + 1] = Colon
  BY <1>1, <1>10, ThenOne, Zenon DEF w9
<1>12. /\ w10 \in Seq(Nat) /\ Len(w10) = Len(w9) + 2
       /\ \A i \in 1..Len(w9) : w10[i] = w9[i]
       /\ w10[Len(w9) + 1] = s[1] /\ w10[Len(w9) + 2] = s[2]
  BY <1>11, ThenTwo DEF w10, Two
<1>13. /\ Len(w1) = k + 1 /\ Len(w2) = k + 3 /\ Len(w3) = k + 4 /\ Len(w4) = k + 6
       /\ Len(w5) = k + 7 /\ Len(w6) = k + 9 /\ Len(w7) = k + 10 /\ Len(w8) = k + 12
       /\ Len(w9) = k + 13 /\ w10 \in Seq(Nat) /\ Len(w10) = k + 15
  BY <1>1, <1>3, <1>4, <1>5, <1>6, <1>7, <1>8, <1>9, <1>10, <1>11, <1>12, SMT
<1>14. ASSUME NEW i \in 1..k PROVE w10[i] = y[i]
  <2>1. /\ i \in 1..Len(w1) /\ i \in 1..Len(w2) /\ i \in 1..Len(w3) /\ i \in 1..Len(w4)
        /\ i \in 1..Len(w5) /\ i \in 1..Len(w6) /\ i \in 1..Len(w7) /\ i \in 1..Len(w8)
        /\ i \in 1..Len(w9)
    <3>1. i \in Nat /\ 1 <= i /\ i <= k
      BY <1>1, SMT
    <3> HIDE DEF k
    <3>2. QED
      BY <1>1, <1>13, <3>1, SMT
  <2>2. w4[i] = y[i]
    BY <2>1, <1>3, <1>4, <1>5, <1>6, Zenon
  <2>3. w7[i] = w4[i]
    BY <2>1, <1>7, <1>8, <1>9, Zenon
  <2>4. w10[i] = w7[i]
    BY <2>1, <1>10, <1>11, <1>12, Zenon
  <2>5. QED
    BY <2>2, <2>3, <2>4
<1>15. ASSUME k = 4
       PROVE  /\ w10[5] = Dash
              /\ w10[6] = mo[1] /\ w10[7] = mo[2] /\ w10[9] = d[1] /\ w10[10] = d[2]
              /\ w10[12] = h[1] /\ w10[13] = h[2] /\ w10[15] = mi[1] /\ w10[16] = mi[2]
              /\ w10[18] = s[1] /\ w10[19] = s[2]
  BY <1>15, <1>1, <1>3, <1>4, <1>5, <1>6, <1>7, <1>8, <1>9, <1>10, <1>11, <1>12, SMT
<1>16. QED
  BY <1>2, <1>13, <1>14, <1>15

LEMMA PaddedTwo ==
  ASSUME NEW n \in Nat, n < 100
  PROVE  LET p == Padded(n, 2) IN p \in Seq(Nat) /\ Len(p) = 2 /\ 10 * p[1] + p[2] = n
<1> DEFINE k == IF n > 9999 THEN 5 ELSE 2
           g(i) == (n \div <<10000, 1000, 100, 10, 1>>[5 - k + i]) % 10
           f == [i \in 1..k |-> g(i)]
<1>1. Padded(n, 2) = f
  BY SMT DEF Padded
<1>2. k = 2
  BY SMT
<1> HIDE DEF k, g
<1>3. g(1) = (n \div 10) % 10 /\ g(2) = n % 10
  BY <1>2, SMT DEF g
<1>4. f \in [1..k -> Nat]
  <2>1. g(1) \in Nat /\ g(2) \in Nat
    BY <1>3, SMT
  <2>2. \A i \in 1..k : i = 1 \/ i = 2
    BY <1>2, SMT
  <2>3. \A i \in 1..k : g(i) \in Nat
    BY <2>1, <2>2, SMT
  <2>4. QED
    BY <2>3, SMT
<1>5. \A i \in 1..k : f[i] = g(i)
  BY SMT
<1> HIDE DEF f
<1>6. k \in Nat
  BY <1>2, SMT
<1>7. f \in Seq(Nat) /\ Len(f) = k
  BY <1>4, <1>6, AreDigits, SMT
<1>8. 10 * f[1] + f[2] = n
  <2>1. \A i \in Nat \ {0} : i <= 2 => f[i] = g(i)
    BY <1>2, <1>5, SMT
  <2>2. QED
    BY <1>3, <2>1, SMT DEF Dash
<1>9. QED
  BY <1>1, <1>2, <1>7, <1>8, SMT

LEMMA PaddedYear ==
  ASSUME NEW n \in Nat, n <= 9999
  PROVE  LET p == Padded(n, 4) IN p \in Seq(Nat) /\ Len(p) = 4 /\ 100 * (10 * p[1] + p[2]) + 10 * p[3] + p[4] = n
<1> DEFINE k == IF n > 9999 THEN 5 ELSE 4
           g(i) == (n \div <<10000, 1000, 100, 10, 1>>[5 - k + i]) % 10
           f == [i \in 1..k |-> g(i)]
<1>1. Padded(n, 4) = f
  BY SMT DEF Padded
<1>2. k = 4
  BY SMT
<1> HIDE DEF k, g
<1>3. /\ g(1) = (n \div 1000) % 10 /\ g(2) = (n \div 100) % 10 /\ g(3) = (n \div 10) % 10
      /\ g(4) = n % 10
  BY <1>2, SMT DEF g
<1>4. f \in [1..k -> Nat]
  <2>1. g(1) \in Nat /\ g(2) \in Nat /\ g(3) \in Nat /\ g(4) \in Nat
    BY <1>3, SMT
  <2>2. \A i \in 1..k : i = 1 \/ i = 2 \/ i = 3 \/ i = 4
    BY <1>2, SMT
  <2>3. \A i \in 1..k : g(i) \in Nat
    BY <2>1, <2>2, SMT
  <2>4. QED
    BY <2>3, SMT
<1>5. \A i \in 1..k : f[i] = g(i)
  BY SMT
<1> HIDE DEF f
<1>6. k \in Nat
  BY <1>2, SMT
<1>7. f \in Seq(Nat) /\ Len(f) = k
  BY <1>4, <1>6, AreDigits, SMT
<1>8. 100 * (10 * f[1] + f[2]) + 10 * f[3] + f[4] = n
  <2>1. \A i \in Nat \ {0} : i <= 4 => f[i] = g(i)
    BY <1>2, <1>5, SMT
  <2>2. QED
    BY <1>3, <2>1, SMT DEF Dash
<1>9. QED
  BY <1>1, <1>2, <1>7, <1>8, SMT

(* A fifth digit stands where the first '-' should.                        *)
LEMMA PaddedLong ==
  ASSUME NEW n \in Nat, n > 9999
  PROVE  LET p == Padded(n, 4) IN p \in Seq(Nat) /\ Len(p) = 5 /\ p[5] # Dash
<1> DEFINE k == IF n > 9999 THEN 5 ELSE 4
           g(i) == (n \div <<10000, 1000, 100, 10, 1>>[5 - k + i]) % 10
           f == [i \in 1..k |-> g(i)]
<1>1. Padded(n, 4) = f
  BY SMT DEF Padded
<1>2. k = 5
  BY SMT
<1> HIDE DEF k, g
<1>3. /\ g(1) = (n \div 10000) % 10 /\ g(2) = (n \div 1000) % 10 /\ g(3) = (n \div 100) % 10
      /\ g(4) = (n \div 10) % 10 /\ g(5) = n % 10
  BY <1>2, SMT DEF g
<1>4. f \in [1..k -> Nat]
  <2>1. g(1) \in Nat /\ g(2) \in Nat /\ g(3) \in Nat /\ g(4) \in Nat /\ g(5) \in Nat
    BY <1>3, SMT
  <2>2. \A i \in 1..k : i = 1 \/ i = 2 \/ i = 3 \/ i = 4 \/ i = 5
    BY <1>2, SMT
  <2>3. \A i \in 1..k : g(i) \in Nat
    BY <2>1, <2>2, SMT
  <2>4. QED
    BY <2>3, SMT
<1>5. \A i \in 1..k : f[i] = g(i)
  BY SMT
<1> HIDE DEF f
<1>6. k \in Nat
  BY <1>2, SMT
<1>7. f \in Seq(Nat) /\ Len(f) = k
  BY <1>4, <1>6, AreDigits, SMT
<1>8. f[5] # Dash
  <2>1. \A i \in Nat \ {0} : i <= 5 => f[i] = g(i)
    BY <1>2, <1>5, SMT
  <2>2. QED
    BY <1>3, <2>1, SMT DEF Dash
<1>9. QED
  BY <1>1, <1>2, <1>7, <1>8, SMT

Fields(f) ==
  /\ f.year \in Nat /\ f.year < 65536
  /\ f.month \in Nat /\ f.month < 100 /\ f.day \in Nat /\ f.day < 100
  /\ f.hour \in Nat /\ f.hour < 100 /\ f.minute \in Nat /\ f.minute < 100
  /\ f.second \in Nat /\ f.second < 100

LEMMA CutReads ==
  ASSUME NEW x \in Seq(Nat), NEW k \in Nat, k <= Len(x)
  PROVE  \A i \in 1..k : SubSeq(x, 1, k)[i] = x[i]
BY SMT

LEMMA TextReads ==
  ASSUME NEW f, Fields(f)
  PROVE  /\ f.year <= 9999 =>
              Parsed(Formatted(f)) = GetUnixMillis([year |-> f.year, month |-> f.month, day |-> f.day,
                                        hour |-> f.hour, minute |-> f.minute, second |-> f.second])
         /\ f.year > 9999 => Parsed(Formatted(f)) = {Unknown}
<1> DEFINE y  == Padded(f.year, 4)
           mo == Padded(f.month, 2)
           d  == Padded(f.day, 2)
           h  == Padded(f.hour, 2)
           mi == Padded(f.minute, 2)
           s  == Padded(f.second, 2)
           w  == Line(y, mo, d, h, mi, s)
           t  == Formatted(f)
<1>1. /\ f.year \in Nat
      /\ f.month \in Nat /\ f.month < 100 /\ f.day \in Nat /\ f.day < 100
      /\ f.hour \in Nat /\ f.hour < 100 /\ f.minute \in Nat /\ f.minute < 100
      /\ f.second \in Nat /\ f.second < 100
  BY SMT DEF Fields
<1>2. /\ mo \in Seq(Nat) /\ Len(mo) = 2 /\ 10 * mo[1] + mo[2] = f.month
      /\ d \in Seq(Nat) /\ Len(d) = 2 /\ 10 * d[1] + d[2] = f.day
      /\ h \in Seq(Nat) /\ Len(h) = 2 /\ 10 * h[1] + h[2] = f.hour
      /\ mi \in Seq(Nat) /\ Len(mi) = 2 /\ 10 * mi[1] + mi[2] = f.minute
      /\ s \in Seq(Nat) /\ Len(s) = 2 /\ 10 * s[1] + s[2] = f.second
  <2>1. mo \in Seq(Nat) /\ Len(mo) = 2 /\ 10 * mo[1] + mo[2] = f.month
    <3> DEFINE n == f.month
    <3>1. n \in Nat /\ n < 100
      BY <1>1
    <3> HIDE DEF n
    <3>2. Padded(n, 2) \in Seq(Nat) /\ Len(Padded(n, 2)) = 2
          /\ 10 * Padded(n, 2)[1] + Padded(n, 2)[2] = n
      BY <3>1, PaddedTwo, SMT
    <3>3. QED
      BY <3>2 DEF n
  <2>2. d \in Seq(Nat) /\ Len(d) = 2 /\ 10 * d[1] + d[2] = f.day
    <3> DEFINE n == f.day
    <3>1. n \in Nat /\ n < 100
      BY <1>1
    <3> HIDE DEF n
    <3>2. Padded(n, 2) \in Seq(Nat) /\ Len(Padded(n, 2)) = 2
          /\ 10 * Padded(n, 2)[1] + Padded(n, 2)[2] = n
      BY <3>1, PaddedTwo, SMT
    <3>3. QED
      BY <3>2 DEF n
  <2>3. h \in Seq(Nat) /\ Len(h) = 2 /\ 10 * h[1] + h[2] = f.hour
    <3> DEFINE n == f.hour
    <3>1. n \in Nat /\ n < 100
      BY <1>1
    <3> HIDE DEF n
    <3>2. Padded(n, 2) \in Seq(Nat) /\ Len(Padded(n, 2)) = 2
          /\ 10 * Padded(n, 2)[1] + Padded(n, 2)[2] = n
      BY <3>1, PaddedTwo, SMT
    <3>3. QED
      BY <3>2 DEF n
  <2>4. mi \in Seq(Nat) /\ Len(mi) = 2 /\ 10 * mi[1] + mi[2] = f.minute
    <3> DEFINE n == f.minute
    <3>1. n \in Nat /\ n < 100
      BY <1>1
    <3> HIDE DEF n
    <3>2. Padded(n, 2) \in Seq(Nat) /\ Len(Padded(n, 2)) = 2
          /\ 10 * Padded(n, 2)[1] + Padded(n, 2)[2] = n
      BY <3>1, PaddedTwo, SMT
    <3>3. QED
      BY <3>2 DEF n
  <2>5. s \in Seq(Nat) /\ Len(s) = 2 /\ 10 * s[1] + s[2] = f.second
    <3> DEFINE n == f.second
    <3>1. n \in Nat /\ n < 100
      BY <1>1
    <3> HIDE DEF n
    <3>2. Padded(n, 2) \in Seq(Nat) /\ Len(Padded(n, 2)) = 2
          /\ 10 * Padded(n, 2)[1] + Padded(n, 2)[2] = n
      BY <3>1, PaddedTwo, SMT
    <3>3. QED
      BY <3>2 DEF n
  <2> HIDE DEF mo, d, h, mi, s
  <2>6. QED
    BY <2>1, <2>2, <2>3, <2>4, <2>5, SMT
<1>3. /\ f.year <= 9999 => /\ y \in Seq(Nat) /\ Len(y) = 4
                           /\ 100 * (10 * y[1] + y[2]) + 10 * y[3] + y[4] = f.year
      /\ f.year > 9999 => y \in Seq(Nat) /\ Len(y) = 5 /\ y[5] # Dash
  <2>1. ASSUME f.year <= 9999
        PROVE  y \in Seq(Nat) /\ Len(y) = 4 /\ 100 * (10 * y[1] + y[2]) + 10 * y[3] + y[4] = f.year
    <3> DEFINE n == f.year
    <3>1. n \in Nat /\ n <= 9999
      BY <1>1, <2>1
    <3> HIDE DEF n
    <3>2. Padded(n, 4) \in Seq(Nat) /\ Len(Padded(n, 4)) = 4
          /\ 100 * (10 * Padded(n, 4)[1] + Padded(n, 4)[2]) + 10 * Padded(n, 4)[3] + Padded(n, 4)[4] = n
      BY <3>1, PaddedYear, SMT
    <3>3. QED
      BY <3>2, SMT DEF n
  <2>2. ASSUME f.year > 9999
        PROVE  y \in Seq(Nat) /\ Len(y) = 5 /\ y[5] # Dash
    BY <1>1, <2>2, PaddedLong, SMT
  <2> HIDE DEF y
  <2>3. QED
    BY <2>1, <2>2, SMT
<1>4. t = SubSeq(w, 1, 19)
  BY SMT DEF Formatted, Line
<1> HIDE DEF y, mo, d, h, mi, s, t
<1>5. y \in Seq(Nat) /\ (Len(y) = 4 \/ Len(y) = 5)
  BY <1>1, <1>3, SMT
<1>6. Two(mo) /\ Two(d) /\ Two(h) /\ Two(mi) /\ Two(s)
  BY <1>2, SMT DEF Two
<1>7. /\ w \in Seq(Nat) /\ Len(w) = Len(y) + 15
      /\ \A i \in 1..Len(y) : w[i] = y[i]
      /\ Len(y) = 4 => /\ w[5] = Dash
                       /\ w[6] = mo[1] /\ w[7] = mo[2] /\ w[9] = d[1] /\ w[10] = d[2]
                       /\ w[12] = h[1] /\ w[13] = h[2] /\ w[15] = mi[1] /\ w[16] = mi[2]
                       /\ w[18] = s[1] /\ w[19] = s[2]
  BY <1>5, <1>6, LineReads, SMT
<1> HIDE DEF w
<1>8. \A i \in Nat \ {0} : i <= 19 => t[i] = w[i]
  <2> DEFINE k == 19
  <2>1. k \in Nat /\ k <= Len(w)
    <3>1. Len(w) >= 19
      <4> DEFINE n == Len(y)
                 m == Len(w)
      <4>1. (n = 4 \/ n = 5) /\ m = n + 15
        BY <1>5, <1>7
      <4> HIDE DEF n, m
      <4>2. m >= 19
        BY <4>1, SMT
      <4>3. QED
        BY <4>2 DEF m
    <3>2. QED
      BY <3>1, SMT
  <2>2. t = SubSeq(w, 1, k)
    BY <1>4
  <2>3. \A i \in Nat \ {0} : i <= 19 => i \in 1..k
    BY SMT
  <2> HIDE DEF k
  <2>4. \A i \in 1..k : t[i] = w[i]
    BY <1>7, <2>1, <2>2, CutReads, SMT
  <2>5. QED
    BY <2>3, <2>4, SMT
<1>9. ASSUME f.year <= 9999
      PROVE  Parsed(t) = GetUnixMillis([year |-> f.year, month |-> f.month, day |-> f.day,
                                        hour |-> f.hour, minute |-> f.minute, second |-> f.second])
  <2>1. /\ Len(y) = 4
        /\ 100 * (10 * y[1] + y[2]) + 10 * y[3] + y[4] = f.year
    BY <1>3, <1>9, SMT
  <2>2. w[1] = y[1] /\ w[2] = y[2] /\ w[3] = y[3] /\ w[4] = y[4]
    <3>1. \A i \in Nat \ {0} : i <= 4 => i \in 1..Len(y)
      BY <2>1, SMT
    <3>2. QED
      BY <1>7, <3>1, SMT
  <2>3. /\ t[1] = y[1] /\ t[2] = y[2] /\ t[3] = y[3] /\ t[4] = y[4] /\ t[5] = Dash
        /\ t[6] = mo[1] /\ t[7] = mo[2] /\ t[9] = d[1] /\ t[10] = d[2]
        /\ t[12] = h[1] /\ t[13] = h[2] /\ t[15] = mi[1] /\ t[16] = mi[2]
        /\ t[18] = s[1] /\ t[19] = s[2]
    BY <1>7, <1>8, <2>1, <2>2, SMT
  <2>4. /\ y[1] \in Nat /\ y[2] \in Nat /\ y[3] \in Nat /\ y[4] \in Nat
    <3>1. \A i \in Nat \ {0} : i <= 4 => i \in 1..Len(y)
      BY <2>1, SMT
    <3>2. \A i \in 1..Len(y) : y[i] \in Nat
      BY <1>5, SMT
    <3>3. QED
      BY <3>1, <3>2, SMT
  <2>5. /\ 100 * (10 * t[1] + t[1 + 1]) + (10 * t[3] + t[3 + 1]) = f.year
        /\ 10 * t[6] + t[6 + 1] = f.month /\ 10 * t[9] + t[9 + 1] = f.day
        /\ 10 * t[12] + t[12 + 1] = f.hour /\ 10 * t[15] + t[15 + 1] = f.minute
        /\ 10 * t[18] + t[18 + 1] = f.second
    <3>1. 1 + 1 = 2 /\ 3 + 1 = 4 /\ 6 + 1 = 7 /\ 9 + 1 = 10 /\ 12 + 1 = 13 /\ 15 + 1 = 16 /\ 18 + 1 = 19
      BY SMT
    <3>2. 100 * (10 * y[1] + y[2]) + (10 * y[3] + y[4]) = f.year
      BY <2>1, <2>4, SMT
    <3>3. QED
      BY <1>2, <2>3, <3>1, <3>2, SMT
  <2>6. Parsed(t) = GetUnixMillis([year |-> f.year, month |-> f.month, day |-> f.day,
                                   hour |-> f.hour, minute |-> f.minute, second |-> f.second])
    BY <2>3, <2>5, SMT DEF Parsed
  <2>7. QED
    BY <2>6, SMT
<1>10. ASSUME f.year > 9999
       PROVE  Parsed(t) = {Unknown}
  <2>1. Len(y) = 5 /\ y[5] # Dash
    BY <1>3, <1>10, SMT
  <2>2. w[5] = y[5]
    <3>1. 5 \in 1..Len(y)
      BY <2>1, SMT
    <3>2. QED
      BY <1>7, <3>1, SMT
  <2>3. t[5] # Dash
    BY <1>8, <2>1, <2>2, SMT
  <2>4. Parsed(t) = {Unknown}
    BY <2>3, SMT DEF Parsed
  <2>5. QED
    BY <2>4, SMT
<1>11. QED
  BY <1>9, <1>10, SMT DEF t

LEMMA LongYearReads ==
  ASSUME NEW f, Fields(f), f.year > 9999
  PROVE  Parsed(Formatted(f)) = {Unknown}
<1> DEFINE t == Parsed(Formatted(f))
           g == GetUnixMillis([year |-> f.year, month |-> f.month, day |-> f.day,
                               hour |-> f.hour, minute |-> f.minute, second |-> f.second])
<1>1. (f.year <= 9999 => t = g) /\ (f.year > 9999 => t = {Unknown})
  BY TextReads, SMT
<1> HIDE DEF t, g
<1>2. t = {Unknown}
  BY <1>1, SMT
<1>3. QED
  BY <1>2 DEF t

(* The second that the fields of a time stand for.                         *)
LEMMA TimeStands ==
  ASSUME NEW time \in Stamps
  PROVE  LET f == GetTime(time)
             c == IF time[1] < 0 /\ time[2] % 1000 # 0 THEN 1 ELSE 0
         IN  /\ Fields(f)
             /\ f.year <= 9999 =>
                  \E day \in Int, sod \in Nat :
                    /\ DayOf(f.year, f.month, f.day) = day
                    /\ f.hour * 3600 + f.minute * 60 + f.second = sod
                    /\ 86400 * (day - time[1]) + sod = time[2] \div 1000 + c
<1> DEFINE ms   == time[2]
           c    == IF time[1] < 0 /\ ms % 1000 # 0 THEN 1 ELSE 0
           s    == ms \div 1000 + c
           day  == time[1] + s \div 86400
           sod  == s % 86400
           date == DateOf(day)
           f    == GetTime(time)
<1>1. time[1] \in Int /\ ms \in Nat /\ ms < 86400000 /\ -20000000 < time[1] /\ time[1] < 20000000
  BY TimeAssumption, SMT
<1>2. f = [year |-> date.year % 65536, month |-> date.month, day |-> date.day,
           hour |-> sod \div 3600, minute |-> (sod \div 60) % 60, second |-> sod % 60]
  BY SMT DEF GetTime
<1>3. s \in Nat /\ s <= 86400
  <2>1. c \in Nat /\ c <= 1
    BY SMT
  <2> HIDE DEF c
  <2>2. QED
    BY <1>1, <2>1, SMT
<1> HIDE DEF ms, f, date
<1>4. day \in Int /\ -20000000 < day /\ day < 20000001 /\ sod \in Nat /\ sod < 86400
      /\ s = 86400 * (day - time[1]) + sod
  <2> HIDE DEF s
  <2>1. QED
    BY <1>1, <1>3, SMT
<1> HIDE DEF s, day, sod
<1>5. /\ date.month \in 1..12 /\ date.day \in 1..31 /\ date.year \in Int
      /\ DayOf(date.year, date.month, date.day) = day
      /\ -55000 < date.year /\ date.year < 60000
  BY <1>4, CalendarAgrees, SMT DEF date
<1>6. Fields(f)
  BY <1>2, <1>4, <1>5, SMT DEF Fields
<1>7. f.hour * 3600 + f.minute * 60 + f.second = sod
  BY <1>2, <1>4, SMT
<1>8. f.year <= 9999 => f.year = date.year
  BY <1>2, <1>5, SMT
<1>9. f.year <= 9999 => DayOf(f.year, f.month, f.day) = day
  BY <1>2, <1>5, <1>8, SMT
<1>10. 86400 * (day - time[1]) + sod = ms \div 1000 + c
  BY <1>4, SMT DEF s
<1> HIDE DEF c
<1>11. QED
  BY <1>4, <1>6, <1>7, <1>9, <1>10, SMT DEF c, ms, f

LEMMA ReadsSecond ==
  ASSUME NEW time \in Stamps, NEW r \in Parsed(Formatted(GetTime(time))), r # Unknown
  PROVE  LET off == 86400 * (time[1] - r[1]) + (time[2] - r[2]) \div 1000
         IN  /\ r[2] % 1000 = 0
             /\ off \in IF time[1] < 0 /\ time[2] % 1000 # 0 THEN {-1, 3599} ELSE {0, 3600}
<1> DEFINE f == GetTime(time)
           ms == time[2]
           d0 == time[1]
           c  == IF d0 < 0 /\ ms % 1000 # 0 THEN 1 ELSE 0
<1>1. d0 \in Int /\ ms \in Nat
  BY TimeAssumption, SMT
<1>2. /\ Fields(f)
      /\ f.year <= 9999 =>
           \E day \in Int, sod \in Nat :
             /\ DayOf(f.year, f.month, f.day) = day
             /\ f.hour * 3600 + f.minute * 60 + f.second = sod
             /\ 86400 * (day - d0) + sod = ms \div 1000 + c
  BY TimeStands, SMT
<1>3. r \in Parsed(Formatted(f))
  OBVIOUS
<1> HIDE DEF f
<1>4. f.year \in Nat
  BY <1>2, SMT DEF Fields
<1>5. f.year <= 9999
  <2>1. f.year > 9999 => r \in {Unknown}
    <3>1. Fields(f)
      BY <1>2, SMT
    <3>2. f.year > 9999 => Parsed(Formatted(f)) = {Unknown}
      BY <3>1, LongYearReads, SMT
    <3>3. QED
      BY <1>3, <3>2, SMT
  <2>2. ~(f.year > 9999)
    BY <2>1, SMT
  <2>3. QED
    BY <1>4, <2>2, SMT
<1>6. PICK day \in Int, sod \in Nat :
             /\ DayOf(f.year, f.month, f.day) = day
             /\ f.hour * 3600 + f.minute * 60 + f.second = sod
             /\ 86400 * (day - d0) + sod = ms \div 1000 + c
  BY <1>2, <1>5, SMT
<1> DEFINE g == [year |-> f.year, month |-> f.month, day |-> f.day,
                 hour |-> f.hour, minute |-> f.minute, second |-> f.second]
<1>7. r \in GetUnixMillis(g)
  BY <1>2, <1>3, <1>5, TextReads, SMT
<1>8. GetUnixMillis(g) =
        {<<day, sod * 1000>>,
         IF sod * 1000 >= 3600000 THEN <<day, sod * 1000 - 3600000>>
         ELSE <<day - 1, sod * 1000 - 3600000 + 86400000>>}
  BY <1>6, SMT DEF GetUnixMillis
<1> HIDE DEF g
<1>9. \/ r[1] = day /\ r[2] = 1000 * sod
      \/ r[1] = day /\ r[2] = 1000 * (sod - 3600)
      \/ r[1] = day - 1 /\ r[2] = 1000 * (sod + 82800)
  BY <1>6, <1>7, <1>8, SMT
<1>10. c \in {0, 1}
  BY SMT
<1> DEFINE off == 86400 * (d0 - r[1]) + (ms - r[2]) \div 1000
<1>11. r[2] % 1000 = 0 /\ (off = 0 - c \/ off = 3600 - c)
  <2> HIDE DEF d0, ms, c
  <2> DEFINE q == ms \div 1000
  <2>1. q \in Nat /\ 1000 * q <= ms /\ ms < 1000 * q + 1000
    BY <1>1, SMT
  <2>2. 86400 * (day - d0) + sod = q + c
    BY <1>6
  <2> HIDE DEF q
  <2>3. CASE r[1] = day /\ r[2] = 1000 * sod
    <3>1. r[2] % 1000 = 0 /\ (ms - r[2]) \div 1000 = q - sod
      BY <1>1, <1>6, <2>1, <2>3, SMT
    <3>2. QED
      BY <1>1, <1>6, <1>10, <2>1, <2>2, <2>3, <3>1, SMT
  <2>4. CASE r[1] = day /\ r[2] = 1000 * (sod - 3600)
    <3>1. r[2] % 1000 = 0 /\ (ms - r[2]) \div 1000 = q - (sod - 3600)
      BY <1>1, <1>6, <2>1, <2>4, SMT
    <3>2. QED
      BY <1>1, <1>6, <1>10, <2>1, <2>2, <2>4, <3>1, SMT
  <2>5. CASE r[1] = day - 1 /\ r[2] = 1000 * (sod + 82800)
    <3>1. r[2] % 1000 = 0 /\ (ms - r[2]) \div 1000 = q - (sod + 82800)
      BY <1>1, <1>6, <2>1, <2>5, SMT
    <3>2. QED
      BY <1>1, <1>6, <1>10, <2>1, <2>2, <2>5, <3>1, SMT
  <2>6. QED
    BY <1>9, <2>3, <2>4, <2>5, SMT
<1> HIDE DEF off
<1>12. off \in IF d0 < 0 /\ ms % 1000 # 0 THEN {-1, 3599} ELSE {0, 3600}
  BY <1>11, SMT DEF c
<1>13. QED
  BY <1>11, <1>12, SMT DEF off, d0, ms

DatesKept ==
  /\ stamp \in Stamps
  /\ shown = <<>> \/ shown = Formatted(GetTime(stamp))
  /\ reading = Unknown \/ reading \in Parsed(Formatted(GetTime(stamp)))

(* What timefn formats it reads back as the same second, or as the hour    *)
(* before.                                                                 *)
THEOREM DatesReadBack == TimeSpec => []ReadsBack
<1>1. TimeInit => DatesKept
  BY SMT DEF TimeInit, DatesKept
<1>2. DatesKept /\ [TimeNext]_timeVars => DatesKept'
  <2> SUFFICES ASSUME DatesKept, [TimeNext]_timeVars PROVE DatesKept'
    BY SMT
  <2>1. CASE Tick \/ ReadClock \/ UNCHANGED timeVars
    BY <2>1, SMT DEF Tick, ReadClock, timeVars, dateVars, DatesKept
  <2>2. CASE FormatTime
    BY <2>2, SMT DEF FormatTime, DatesKept
  <2>3. CASE ParseTime
    BY <2>3, SMT DEF ParseTime, DatesKept
  <2>4. QED
    BY <2>1, <2>2, <2>3, SMT DEF TimeNext
<1>3. DatesKept => ReadsBack
  BY ReadsSecond, SMT DEF DatesKept, ReadsBack
<1>4. QED
  BY <1>1, <1>2, <1>3, PTL DEF TimeSpec

-----------------------------------------------------------------------------
(* base64.                                                                 *)

(* What 4n characters take, with a newline after each 18th quad, the       *)
(* last quad and the terminator.                                           *)
Enough(n) == (4 * n) \div 3 + 4 + ((4 * n) \div 3 + 4) \div 72 + 2

(* A turn of the loop ends with b blocks done: q full lines of 18 quads    *)
(* and r quads on the line that has begun.                                 *)
AtTurn(q, r) ==
  /\ q \in Nat /\ r \in 0..17
  /\ in = 3 * (18 * q + r) /\ in <= Len(src)
  /\ line_len = 4 * r
  /\ Len(out) = 4 * (18 * q + r) + q

EncodeInv ==
  /\ stage \in {"call", "loop", "encoded", "refused", "foreign"}
  /\ stage \in {"call", "loop"} =>
       /\ src \in Data /\ cap \in Int /\ out \in Seq(Int)
       /\ \E q \in Nat, r \in 0..17 : AtTurn(q, r)
  /\ stage = "call" => in = 0 /\ out = <<>>
  /\ stage = "loop" => cap >= ReqBufSz(Len(src)) /\ ReqBufSz(Len(src)) >= Len(src)
  /\ stage = "encoded" => Len(out) + 1 <= cap

(* A size that has wrapped round is smaller than the text, and the second  *)
(* test of base64_encode refuses it.                                       *)
LEMMA NoWrapPasses ==
  ASSUME NEW n \in Nat, n < SizeMod, ReqBufSz(n) >= n
  PROVE  ReqBufSz(n) = Enough(n)
<1> DEFINE m == (n * 4) % SizeMod
           o == m \div 3 + 4
<1>1. SizeMod \in Nat /\ SizeMod >= 256
  BY Base64Assumption
<1>2. m \in 0..(SizeMod - 1)
  BY <1>1, SMT
<1>3. PICK k \in 0..3 : n * 4 = k * SizeMod + m
  <2>1. n * 4 = ((n * 4) \div SizeMod) * SizeMod + m
    BY <1>1, SMT
  <2>2. (n * 4) \div SizeMod \in 0..3
    BY <1>1, SMT
  <2> QED BY <2>1, <2>2
<1> HIDE DEF m
<1>4. o + o \div 72 + 2 \in 0..(SizeMod - 1)
  BY <1>1, <1>2, SMT
<1>5. ReqBufSz(n) = o + o \div 72 + 2
  BY <1>1, <1>4, SMT DEF ReqBufSz, m
<1>6. k = 0
  BY <1>1, <1>2, <1>3, <1>5, SMT
<1>7. m = 4 * n
  BY <1>1, <1>2, <1>3, <1>6, SMT
<1> QED BY <1>5, <1>7, SMT DEF Enough

(* The lengths that the loop and the tail reach.                           *)
LEMMA Fits ==
  ASSUME NEW n \in Nat, NEW q \in Nat, NEW r \in 0..17, 3 * (18 * q + r) <= n
  PROVE  /\ 4 * (18 * q + r) + q < Enough(n)
         /\ n - 3 * (18 * q + r) < 3 => 4 * (18 * q + r) + q + 6 <= Enough(n)
BY SMT DEF Enough

LEMMA Joined ==
  ASSUME NEW x \in Seq(Int), NEW y \in Seq(Int), NEW z \in Seq(Int)
  PROVE  x \o y \o z \in Seq(Int) /\ Len(x \o y \o z) = Len(x) + Len(y) + Len(z)
OBVIOUS

LEMMA DataType ==
  ASSUME NEW d \in Data
  PROVE  /\ Len(d) \in Nat /\ Len(d) < SizeMod
         /\ \A i \in 1..Len(d) : d[i] \in Int
         /\ ReqBufSz(Len(d)) \in Int
<1>1. d \in Seq(0..255)
  BY Base64Assumption
<1>2. Len(d) \in Nat /\ Len(d) < SizeMod
  BY <1>1, Base64Assumption
<1>3. ASSUME NEW i \in 1..Len(d) PROVE d[i] \in Int
  <2> DEFINE Chars == 0..255
  <2>1. d \in Seq(Chars)
    BY <1>1
  <2>2. Chars \subseteq Int
    OBVIOUS
  <2> HIDE DEF Chars
  <2>3. d[i] \in Chars
    BY <2>1, <1>2
  <2> QED BY <2>2, <2>3
<1>4. ReqBufSz(Len(d)) \in Int
  BY <1>2, Base64Assumption, SMT DEF ReqBufSz
<1> QED BY <1>2, <1>3, <1>4

LEMMA EncodeInitInv == CodecInit => EncodeInv
<1> SUFFICES ASSUME CodecInit PROVE EncodeInv
  OBVIOUS
<1>1. CASE stage = "foreign"
  BY <1>1 DEF EncodeInv
<1>2. CASE stage = "call"
  <2>1. src \in Data /\ in = 0 /\ line_len = 0 /\ out = <<>>
    BY <1>2 DEF CodecInit
  <2>2. Len(src) \in Nat /\ ReqBufSz(Len(src)) \in Int
    BY <2>1, DataType
  <2>3. AtTurn(0, 0)
    BY <2>1, <2>2 DEF AtTurn
  <2>4. cap \in Int
    BY <1>2, <2>2 DEF CodecInit
  <2> QED BY <1>2, <2>1, <2>3, <2>4 DEF EncodeInv
<1> QED BY <1>1, <1>2 DEF CodecInit

LEMMA CallInv ==
  ASSUME EncodeInv, Call
  PROVE  EncodeInv'
<1>1. /\ stage = "call" /\ UNCHANGED <<src, in, out, line_len>>
      /\ src \in Data /\ cap \in Int /\ out \in Seq(Int)
  BY DEF EncodeInv, Call
<1>2. ReqBufSz(Len(src)) \in Int /\ Len(src) \in Nat
  BY <1>1, DataType
<1>3. ReqBufSz(Len(src))' = ReqBufSz(Len(src))
  BY <1>1 DEF ReqBufSz
<1>4. PICK q \in Nat, r \in 0..17 : AtTurn(q, r)
  BY <1>1 DEF EncodeInv
<1>5. AtTurn(q, r)'
  BY <1>1, <1>4 DEF AtTurn
<1>6. CASE stage' = "refused"
  BY <1>6 DEF EncodeInv
<1>7. CASE stage' = "loop"
  <2>1. cap' = cap /\ cap >= ReqBufSz(Len(src)) /\ ReqBufSz(Len(src)) >= Len(src)
    BY <1>1, <1>2, <1>7 DEF Call
  <2> QED BY <1>1, <1>3, <1>5, <1>7, <2>1 DEF EncodeInv
<1> QED BY <1>6, <1>7 DEF Call

(* A quad of four characters, with a newline when the line is full.        *)
LEMMA EncodeBlockInv ==
  ASSUME EncodeInv, EncodeBlock
  PROVE  EncodeInv'
<1>1. src \in Data /\ cap \in Int /\ out \in Seq(Int) /\ stage = "loop"
  BY DEF EncodeInv, EncodeBlock
<1>2. PICK q \in Nat, r \in 0..17 : AtTurn(q, r)
  BY DEF EncodeInv, EncodeBlock
<1>3. Len(src) \in Nat /\ \A i \in 1..Len(src) : src[i] \in Int
  BY <1>1, DataType
<1>4. in \in Nat /\ in + 3 <= Len(src)
  BY <1>2, <1>3 DEF AtTurn, EncodeBlock, Rest
<1> DEFINE w == Quad(Byte(1), Byte(2), Byte(3))
           full == line_len + 4 >= 72
<1>5. w \in Seq(Int) /\ Len(w) = 4
  <2>1. Byte(1) \in Int /\ Byte(2) \in Int /\ Byte(3) \in Int
    BY <1>3, <1>4 DEF Byte
  <2> QED BY <2>1, SMT DEF Quad
<1>6. /\ in' = in + 3 /\ UNCHANGED <<src, cap, stage>>
      /\ out' = out \o w \o (IF full THEN <<LF>> ELSE <<>>)
      /\ line_len' = IF full THEN 0 ELSE line_len + 4
  BY DEF EncodeBlock
<1> HIDE DEF w
<1>7. out' \in Seq(Int) /\ Len(out') = Len(out) + 4 + (IF full THEN 1 ELSE 0)
  <2> DEFINE nl == IF full THEN <<LF>> ELSE <<>>
  <2>1. nl \in Seq(Int) /\ Len(nl) = (IF full THEN 1 ELSE 0)
    BY DEF LF
  <2>2. out' = out \o w \o nl
    BY <1>6
  <2> HIDE DEF nl
  <2>3. out' \in Seq(Int) /\ Len(out') = Len(out) + Len(w) + Len(nl)
    BY <1>1, <1>5, <2>1, <2>2, Joined
  <2> QED BY <1>5, <2>1, <2>3
<1>8. \E q1 \in Nat, r1 \in 0..17 : AtTurn(q1, r1)'
  <2>1. CASE r = 17
    <3>1. AtTurn(q + 1, 0)'
      BY <1>2, <1>4, <1>6, <1>7, <2>1 DEF AtTurn
    <3> QED BY <3>1
  <2>2. CASE r # 17
    <3>1. line_len = 4 * r /\ r + 1 \in 0..17 /\ ~full
      BY <1>2, <2>2 DEF AtTurn
    <3>2. line_len' = 4 * (r + 1) /\ Len(out') = Len(out) + 4
      BY <1>2, <1>6, <1>7, <3>1 DEF AtTurn
    <3>3. AtTurn(q, r + 1)'
      BY <1>2, <1>4, <1>6, <3>1, <3>2 DEF AtTurn
    <3> QED BY <3>1, <3>3
  <2> QED BY <2>1, <2>2
<1>9. ReqBufSz(Len(src))' = ReqBufSz(Len(src))
  BY <1>6 DEF ReqBufSz
<1> QED BY <1>1, <1>6, <1>7, <1>8, <1>9 DEF EncodeInv

LEMMA EncodeTailInv ==
  ASSUME EncodeInv, EncodeTail
  PROVE  EncodeInv'
<1>1. /\ src \in Data /\ cap \in Int /\ out \in Seq(Int)
      /\ cap >= ReqBufSz(Len(src)) /\ ReqBufSz(Len(src)) >= Len(src)
  BY DEF EncodeInv, EncodeTail
<1>2. PICK q \in Nat, r \in 0..17 : AtTurn(q, r)
  BY DEF EncodeInv, EncodeTail
<1>3. Len(src) \in Nat /\ Len(src) < SizeMod /\ \A i \in 1..Len(src) : src[i] \in Int
  BY <1>1, DataType
<1>4. in \in Nat /\ Rest \in 0..2
  BY <1>2, <1>3 DEF AtTurn, EncodeTail, Rest
<1>5. LastQuad \in Seq(Int) /\ Len(LastQuad) <= 4
  <2>1. \A k \in 1..Rest : Byte(k) \in Int
    BY <1>3, <1>4 DEF Byte, Rest
  <2>2. CASE Rest = 0
    BY <2>2 DEF LastQuad
  <2>3. CASE Rest = 1
    <3>1. Quad(Byte(1), 0, 0) \in Seq(Int) /\ Len(Quad(Byte(1), 0, 0)) = 4
      BY <2>1, <2>3, SMT DEF Quad
    <3> QED BY <2>3, <3>1 DEF LastQuad, Pad
  <2>4. CASE Rest = 2
    <3>1. Quad(Byte(1), Byte(2), 0) \in Seq(Int) /\ Len(Quad(Byte(1), Byte(2), 0)) = 4
      BY <2>1, <2>4, SMT DEF Quad
    <3> QED BY <2>4, <3>1 DEF LastQuad, Pad
  <2> QED BY <1>4, <2>2, <2>3, <2>4
<1>6. Len(out') <= Len(out) + 5
  <2> DEFINE w == LastQuad
             nl == IF line_len > 0 \/ Rest > 0 THEN <<LF>> ELSE <<>>
  <2>1. out' = out \o w \o nl
    BY DEF EncodeTail
  <2>2. nl \in Seq(Int) /\ Len(nl) <= 1
    BY DEF LF
  <2> HIDE DEF w, nl
  <2>3. w \in Seq(Int) /\ Len(w) <= 4
    BY <1>5 DEF w
  <2> QED BY <1>1, <2>1, <2>2, <2>3
<1>7. ReqBufSz(Len(src)) = Enough(Len(src))
  BY <1>1, <1>3, NoWrapPasses
<1>8. Len(out) + 6 <= Enough(Len(src))
  <2>1. 3 * (18 * q + r) <= Len(src) /\ Len(src) - 3 * (18 * q + r) < 3
    BY <1>2, <1>4 DEF AtTurn, Rest
  <2>2. 4 * (18 * q + r) + q + 6 <= Enough(Len(src))
    BY <1>2, <1>3, <2>1, Fits
  <2> QED BY <1>2, <2>2 DEF AtTurn
<1>9. Len(out') + 1 <= cap
  BY <1>1, <1>6, <1>7, <1>8 DEF Enough
<1> QED BY <1>9 DEF EncodeInv, EncodeTail

LEMMA EncodeStepInv == EncodeInv /\ [CodecNext]_codecVars => EncodeInv'
<1> SUFFICES ASSUME EncodeInv, [CodecNext]_codecVars PROVE EncodeInv'
  OBVIOUS
<1>1. CASE UNCHANGED codecVars
  BY <1>1 DEF codecVars, EncodeInv, AtTurn, ReqBufSz
<1> QED BY <1>1, CallInv, EncodeBlockInv, EncodeTailInv DEF CodecNext

LEMMA InvFits == EncodeInv => EncodeFits
<1> SUFFICES ASSUME EncodeInv, stage = "loop" PROVE Len(out) < cap
  BY DEF EncodeFits, EncodeInv
<1>1. /\ src \in Data /\ cap \in Int
      /\ cap >= ReqBufSz(Len(src)) /\ ReqBufSz(Len(src)) >= Len(src)
  BY DEF EncodeInv
<1>2. PICK q \in Nat, r \in 0..17 : AtTurn(q, r)
  BY DEF EncodeInv
<1>3. Len(src) \in Nat /\ Len(src) < SizeMod
  BY <1>1, DataType
<1>4. ReqBufSz(Len(src)) = Enough(Len(src))
  BY <1>1, <1>3, NoWrapPasses
<1>5. Len(out) < Enough(Len(src))
  BY <1>2, <1>3, Fits DEF AtTurn
<1> QED BY <1>1, <1>4, <1>5 DEF Enough

(* base64_encode never writes outside what base64_reqbufsz asks for, and a *)
(* size that wrapped round is refused before anything is written.          *)
THEOREM StaysInBuffer == CodecSpec => []EncodeFits
<1>1. CodecSpec => []EncodeInv
  BY EncodeInitInv, EncodeStepInv, PTL DEF CodecSpec
<1> QED BY <1>1, InvFits, PTL

-----------------------------------------------------------------------------
(* The decoders.                                                           *)

(* h is what a fold with g makes of t, place by place.                     *)
Chain(h, g, v, t) == h[0] = v /\ \A k \in 1..Len(t) : h[k] = g[<<h[k - 1], t[k]>>]

Fold(g, v, t) == (CHOOSE h : Chain(h, g, v, t))[Len(t)]

LEMMA FoldIs ==
  ASSUME NEW g, NEW v, NEW t, Len(t) \in Nat, NEW h, Chain(h, g, v, t)
  PROVE  Fold(g, v, t) = h[Len(t)]
<1> DEFINE f == CHOOSE d : Chain(d, g, v, t)
<1>1. Chain(f, g, v, t)
  BY Zenon
<1> HIDE DEF f
<1>2. Together(f, h, Len(t))
  BY <1>1, Zenon DEF Chain, Together
<1>3. Alike(f, h, Len(t))
  BY <1>2, SameSteps
<1>4. Len(t) \in 0..Len(t)
  OBVIOUS
<1>5. f[Len(t)] = h[Len(t)]
  BY <1>3, <1>4, Zenon DEF Alike
<1>6. QED
  BY <1>5, Zenon DEF Fold, f

(* A chain grows with its text.                                            *)
LEMMA FoldGrows ==
  ASSUME NEW C, NEW g, NEW v, NEW t \in Seq(C), NEW c \in C, NEW h, Chain(h, g, v, t)
  PROVE  Fold(g, v, Append(t, c)) = g[<<Fold(g, v, t), c>>]
<1> DEFINE n == Len(t)
           u == Append(t, c)
           f == [k \in 0..(n + 1) |-> IF k <= n THEN h[k] ELSE g[<<h[n], c>>]]
<1>1. /\ n \in Nat /\ Len(u) = n + 1 /\ u[n + 1] = c
      /\ \A k \in 1..n : u[k] = t[k]
  OBVIOUS
<1> HIDE DEF n, u
<1>2. \A k \in 1..(n + 1) : k \in 0..(n + 1) /\ k - 1 \in 0..(n + 1) /\ k - 1 <= n
                            /\ (k \in 1..n \/ (k = n + 1 /\ ~(k <= n) /\ k - 1 = n))
  BY <1>1
<1>3. Chain(f, g, v, u)
  <2>1. f[0] = v
    <3>1. 0 \in 0..(n + 1) /\ 0 <= n
      BY <1>1
    <3>2. QED
      BY <3>1, Zenon DEF Chain
  <2>2. ASSUME NEW k \in 1..(n + 1) PROVE f[k] = g[<<f[k - 1], u[k]>>]
    <3>1. f[k - 1] = h[k - 1]
      BY <1>2, Zenon
    <3>2. CASE k \in 1..n
      <4>1. k <= n
        BY <1>1, <3>2
      <4>2. f[k] = h[k]
        BY <1>2, <4>1, Zenon
      <4>3. h[k] = g[<<h[k - 1], t[k]>>]
        BY <3>2, Zenon DEF Chain, n
      <4>4. QED
        BY <1>1, <3>1, <3>2, <4>2, <4>3, Zenon
    <3>3. CASE k = n + 1
      <4>1. ~(k <= n) /\ k - 1 = n
        BY <1>1, <3>3
      <4>2. f[k] = g[<<h[n], c>>]
        BY <1>2, <4>1, Zenon
      <4>3. QED
        BY <1>1, <3>1, <3>3, <4>1, <4>2, Zenon
    <3>4. QED
      BY <1>2, <3>2, <3>3
  <2>3. QED
    BY <1>1, <2>1, <2>2, Zenon DEF Chain
<1>4. Fold(g, v, u) = f[n + 1]
  <2> HIDE DEF f
  <2>1. Len(u) \in Nat
    BY <1>1
  <2>2. QED
    BY <1>1, <1>3, <2>1, FoldIs
<1>5. Fold(g, v, t) = h[n]
  BY <1>1, FoldIs DEF n
<1>6. f[n + 1] = g[<<h[n], c>>]
  <2>1. n + 1 \in 0..(n + 1) /\ ~(n + 1 <= n)
    BY <1>1
  <2>2. QED
    BY <2>1, Zenon
<1>7. QED
  BY <1>4, <1>5, <1>6, Zenon DEF u

LEMMA UpTo ==
  ASSUME NEW n \in Nat
  PROVE  /\ 1..0 = {}
         /\ \A k \in 1..n : /\ Max(1..k) = k /\ (1..k) \ {k} = 1..(k - 1)
                            /\ 1..k \in SUBSET (1..n) /\ 1..k # {} /\ k - 1 \in 0..n /\ k \in 0..n
<1>1. 1..0 = {}
  OBVIOUS
<1>2. ASSUME NEW k \in 1..n
      PROVE  /\ (1..k) \ {k} = 1..(k - 1) /\ 1..k \in SUBSET (1..n) /\ 1..k # {}
             /\ k - 1 \in 0..n /\ k \in 0..n /\ k \in 1..k /\ \A i \in 1..k : i <= k
  OBVIOUS
<1>3. ASSUME NEW k \in 1..n PROVE Max(1..k) = k
  <2>1. Max(1..k) \in 1..k /\ \A i \in 1..k : i <= Max(1..k)
    BY <1>2, Largest
  <2>2. k <= Max(1..k) /\ Max(1..k) <= k
    BY <1>2, <2>1
  <2>3. Max(1..k) \in Int /\ k \in Int
    BY <2>1
  <2>4. QED
    BY <2>2, <2>3
<1>4. QED
  BY <1>1, <1>2, <1>3, Zenon

(* What a fold of the library makes of the places of t in each set.        *)
Folds(c, g, v, t) ==
  \A s \in SUBSET (1..Len(t)) :
    c[s] = IF s = {} THEN v ELSE g[<<c[s \ {Max(s)}], t[Max(s)]>>]

FoldsIn(V, C, c, g, v, t) ==
  /\ g \in [V \X C -> V] /\ v \in V /\ t \in Seq(C)
  /\ c[{}] = v
  /\ \A s \in SUBSET (1..Len(t)) : s # {} /\ c[s \ {Max(s)}] \in V =>
       c[s] = g[<<c[s \ {Max(s)}], t[Max(s)]>>]

LEMMA FoldExists ==
  ASSUME NEW V, NEW C, NEW g \in [V \X C -> V], NEW v \in V, NEW t \in Seq(C)
  PROVE  \E c \in [SUBSET (1..Len(t)) -> V] : Folds(c, g, v, t)
<1> DEFINE n == Len(t)
           D == SUBSET (1..n)
           rank == [s \in D |-> IF s = {} THEN 0 ELSE Max(s)]
           next(c, s) == IF s = {} THEN v ELSE g[<<c[s \ {Max(s)}], t[Max(s)]>>]
           step == [c \in [D -> V] |-> [s \in D |-> next(c, s)]]
<1>1. n \in Nat /\ \A i \in 1..n : t[i] \in C
  OBVIOUS
<1> HIDE DEF n
<1>2. ASSUME NEW s \in D, s # {}
      PROVE  /\ Max(s) \in 1..n /\ s \ {Max(s)} \in D /\ t[Max(s)] \in C
             /\ rank[s \ {Max(s)}] < rank[s] /\ rank[s] = Max(s)
  <2>1. Max(s) \in s /\ \A k \in s : k <= Max(s)
    BY <1>1, <1>2, Largest
  <2>2. Max(s) \in 1..n /\ s \ {Max(s)} \in D /\ rank[s] = Max(s)
    BY <1>2, <2>1
  <2> DEFINE r == s \ {Max(s)}
  <2>3. CASE r = {}
    BY <1>1, <2>2, <2>3
  <2>4. CASE r # {}
    <3>1. Max(r) \in r /\ rank[r] = Max(r)
      BY <1>1, <2>2, <2>4, Largest
    <3>2. Max(r) \in s /\ Max(r) # Max(s)
      BY <3>1
    <3>3. Max(r) \in 1..n /\ Max(r) <= Max(s)
      BY <2>1, <3>2
    <3> HIDE DEF r
    <3>4. Max(r) < Max(s)
      <4>1. \A x, y \in 1..n : x <= y /\ x # y => x < y
        BY <1>1
      <4>2. QED
        BY <2>2, <3>2, <3>3, <4>1, Zenon
    <3>5. QED
      BY <1>1, <2>2, <3>1, <3>4, Zenon DEF r
  <2>5. QED
    BY <1>1, <2>2, <2>3, <2>4, Zenon
<1>3. rank \in [D -> 0..n]
  <2>1. \A s \in D : s # {} => Max(s) \in 0..n
    <3>1. \A k \in 1..n : k \in 0..n
      BY <1>1
    <3>2. QED
      BY <1>2, <3>1, Zenon
  <2>2. 0 \in 0..n
    BY <1>1
  <2>3. QED
    BY <2>1, <2>2
<1>4. ASSUME NEW c \in [D -> V], NEW s \in D PROVE next(c, s) \in V
  <2>1. s # {} => <<c[s \ {Max(s)}], t[Max(s)]>> \in V \X C
    <3> HIDE DEF D, rank
    <3>1. QED
      BY <1>2
  <2>2. QED
    BY <2>1
<1>5. step \in [[D -> V] -> [D -> V]]
  <2> HIDE DEF D, next
  <2>1. QED
    BY <1>4
<1>6. DependsBelow(step, rank, D, V)
  <2> SUFFICES ASSUME NEW f \in [D -> V], NEW h \in [D -> V], NEW s \in D,
                      \A e \in D : rank[e] < rank[s] => f[e] = h[e]
               PROVE  step[f][s] = step[h][s]
    BY DEF DependsBelow
  <2>1. s # {} => f[s \ {Max(s)}] = h[s \ {Max(s)}]
    <3> HIDE DEF D, rank
    <3>1. QED
      BY <1>2
  <2> HIDE DEF D, rank
  <2>2. next(f, s) = next(h, s)
    BY <2>1, Zenon
  <2> HIDE DEF next
  <2>3. QED
    BY <2>2
<1>7. HasFixpoint(step, D, V)
  <2> HIDE DEF D, rank, step
  <2>1. QED
    BY <1>1, <1>3, <1>5, <1>6, Recursion
<1>8. PICK c \in [D -> V] : c = step[c]
  BY <1>7, Zenon DEF HasFixpoint
<1>9. ASSUME NEW s \in D PROVE c[s] = next(c, s)
  <2>1. step[c] = [r \in D |-> next(c, r)]
    BY <1>8, Zenon
  <2> HIDE DEF step, next, D
  <2>2. c[s] = step[c][s]
    BY <1>8, Zenon
  <2>3. step[c][s] = next(c, s)
    BY <2>1
  <2>4. QED
    BY <2>2, <2>3, Zenon
<1>10. QED
  <2> HIDE DEF D
  <2>1. c \in [D -> V] /\ \A s \in D : c[s] = next(c, s)
    BY <1>8, <1>9
  <2>2. QED
    BY <2>1, Zenon DEF D, n, Folds

(* Whatever satisfies a fold's definition is a chain on the places 1..k.   *)
LEMMA FoldIsChain ==
  ASSUME NEW V, NEW C, NEW c, NEW g, NEW v, NEW t,
         FoldsIn(V, C, c, g, v, t)
  PROVE  c[1..Len(t)] = Fold(g, v, t) /\ Fold(g, v, t) \in V
<1> DEFINE n == Len(t)
           h == [k \in 0..n |-> c[1..k]]
           bad == {k \in 0..n : c[1..k] \notin V}
<1>1. g \in [V \X C -> V] /\ v \in V /\ t \in Seq(C)
  BY DEF FoldsIn
<1>2. n \in Nat /\ \A i \in 1..n : t[i] \in C
  BY <1>1
<1>3. c[1..0] = v
  BY UpTo, <1>2 DEF FoldsIn
<1>4. ASSUME NEW k \in 1..n, c[1..(k - 1)] \in V
      PROVE  c[1..k] = g[<<c[1..(k - 1)], t[k]>>] /\ c[1..k] \in V
  <2>1. Max(1..k) = k /\ (1..k) \ {k} = 1..(k - 1) /\ 1..k \in SUBSET (1..n) /\ 1..k # {}
    <3> HIDE DEF n
    <3>1. QED
      BY <1>2, UpTo
  <2>2. (1..k) \ {Max(1..k)} = 1..(k - 1)
    BY <2>1, Zenon
  <2>3. c[1..k] = g[<<c[1..(k - 1)], t[k]>>]
    <3>1. c[(1..k) \ {Max(1..k)}] \in V
      BY <1>4, <2>2, Zenon
    <3>2. c[1..k] = g[<<c[(1..k) \ {Max(1..k)}], t[Max(1..k)]>>]
      BY <2>1, <3>1, Zenon DEF FoldsIn, n
    <3>3. QED
      BY <2>1, <2>2, <3>2, Zenon
  <2>4. <<c[1..(k - 1)], t[k]>> \in V \X C
    BY <1>2, <1>4
  <2>5. QED
    BY <1>1, <2>3, <2>4
<1>5. bad = {}
  <2> SUFFICES ASSUME bad # {} PROVE FALSE
    OBVIOUS
  <2>1. bad \in SUBSET Nat
    BY <1>2
  <2>2. PICK k \in bad : \A m \in bad : k <= m
    <3> HIDE DEF bad
    <3>1. QED
      BY <2>1, Least
  <2>3. k \in 0..n /\ c[1..k] \notin V
    OBVIOUS
  <2>4. k # 0
    BY <1>1, <1>3, <2>3
  <2>5. k \in 1..n /\ k - 1 \in 0..n /\ ~(k <= k - 1)
    BY <1>2, <2>3, <2>4
  <2>6. c[1..(k - 1)] \in V
    BY <2>2, <2>5
  <2>7. QED
    BY <1>4, <2>3, <2>5, <2>6
<1>6. \A k \in 0..n : c[1..k] \in V
  BY <1>5
<1>7. Chain(h, g, v, t)
  <2>1. h[0] = v
    <3>1. 0 \in 0..n
      BY <1>2
    <3>2. QED
      BY <1>3, <3>1
  <2>2. ASSUME NEW k \in 1..n PROVE h[k] = g[<<h[k - 1], t[k]>>]
    <3>1. k \in 0..n /\ k - 1 \in 0..n
      BY <1>2
    <3>2. h[k] = c[1..k] /\ h[k - 1] = c[1..(k - 1)]
      BY <3>1
    <3>3. c[1..(k - 1)] \in V
      BY <1>6, <3>1
    <3>4. QED
      BY <1>4, <3>2, <3>3, Zenon
  <2>3. QED
    BY <2>1, <2>2, Zenon DEF Chain
<1>8. Fold(g, v, t) = h[n]
  <2> HIDE DEF h
  <2>1. QED
    BY <1>2, <1>7, FoldIs
<1>9. n \in 0..n
  BY <1>2
<1>10. h[n] = c[1..n] /\ c[1..n] \in V
  BY <1>6, <1>9
<1>11. QED
  BY <1>8, <1>10

(* Both together: a chain is there, and its end is of the right kind.      *)
LEMMA FoldType ==
  ASSUME NEW V, NEW C, NEW g \in [V \X C -> V], NEW v \in V, NEW t \in Seq(C)
  PROVE  Fold(g, v, t) \in V /\ \E h : Chain(h, g, v, t)
<1> DEFINE n == Len(t)
<1>1. n \in Nat
  OBVIOUS
<1>2. PICK c \in [SUBSET (1..n) -> V] : Folds(c, g, v, t)
  <2>1. \E c \in [SUBSET (1..n) -> V] : Folds(c, g, v, t)
    BY FoldExists
  <2>2. QED
    BY <2>1, Zenon
<1>3. FoldsIn(V, C, c, g, v, t) /\ c[{}] = v
  <2>1. {} \in SUBSET (1..n)
    OBVIOUS
  <2>2. QED
    BY <1>2, <2>1, Zenon DEF Folds, FoldsIn
<1>4. c[1..n] = Fold(g, v, t) /\ Fold(g, v, t) \in V
  BY <1>3, FoldIsChain
<1> DEFINE h == [k \in 0..n |-> c[1..k]]
<1>5. h \in [0..n -> V] /\ h[0] = v
  <2>1. \A k \in 0..n : 1..k \in SUBSET (1..n)
    BY <1>1
  <2>2. h \in [0..n -> V]
    BY <2>1
  <2>3. h[0] = c[1..0] /\ 1..0 = {}
    BY <1>1
  <2>4. QED
    BY <1>3, <2>2, <2>3
<1>6. ASSUME NEW k \in 1..n PROVE h[k] = g[<<h[k - 1], t[k]>>]
  <2>1. /\ Max(1..k) = k /\ (1..k) \ {k} = 1..(k - 1) /\ 1..k \in SUBSET (1..n) /\ 1..k # {}
        /\ k - 1 \in 0..n /\ k \in 0..n
    <3> HIDE DEF n
    <3>1. QED
      BY <1>1, UpTo
  <2>2. (1..k) \ {Max(1..k)} = 1..(k - 1)
    BY <2>1, Zenon
  <2>3. c[1..k] = g[<<c[(1..k) \ {Max(1..k)}], t[Max(1..k)]>>]
    BY <1>2, <2>1, Zenon DEF Folds
  <2>4. c[1..k] = g[<<c[1..(k - 1)], t[k]>>]
    BY <2>1, <2>2, <2>3, Zenon
  <2>5. QED
    BY <2>1, <2>4, Zenon
<1>7. Chain(h, g, v, t)
  BY <1>5, <1>6, Zenon DEF Chain
<1>8. QED
  BY <1>4, <1>7

Codes  == 0..69
Octets == 0..255

(* What base64_decode_ex keeps in its loop, and its loop as a fold.        *)
Readings == [rc : {0, -1, Fault}, acc : Nat, bits : {0, 2, 4, 6}, dst : Seq(Octets)]

ReadNone == [rc |-> 0, acc |-> 0, bits |-> 0, dst |-> <<>>]

Reads == [x \in Readings \X Codes |-> Collect(x[1], x[2])]

LEMMA ReadsType == Reads \in [Readings \X Codes -> Readings] /\ ReadNone \in Readings
<1>1. ReadNone \in Readings
  BY DEF ReadNone, Readings
<1>2. ASSUME NEW s \in Readings, NEW c \in Codes PROVE Collect(s, c) \in Readings
  <2> DEFINE v    == IF c = Minus THEN 62 ELSE IF c = Under THEN 63 ELSE c
             acc  == (s.acc * 64 + v) % AccMod
             bits == s.bits + 6
             byte == (acc \div Weight[bits - 8]) % 256
  <2>1. /\ s.rc \in {0, -1, Fault} /\ s.acc \in Nat /\ s.bits \in {0, 2, 4, 6}
        /\ s.dst \in Seq(Octets)
    BY DEF Readings
  <2>2. v \in Nat
    BY DEF Codes, Minus, Under
  <2>3. acc \in Nat
    <3> HIDE DEF v
    <3>1. QED
      BY <2>1, <2>2, SMT DEF AccMod
  <2>4. bits \in {6, 8, 10, 12}
    BY <2>1
  <2>5. bits >= 8 => bits - 8 \in {0, 2, 4} /\ Weight[bits - 8] \in {1, 4, 16}
    <3> HIDE DEF bits
    <3>1. bits >= 8 => bits - 8 \in {0, 2, 4}
      BY <2>4
    <3>2. \A n \in {0, 2, 4} : Weight[n] \in {1, 4, 16}
      BY DEF Weight
    <3>3. QED
      BY <3>1, <3>2
  <2>6. bits >= 8 => byte \in Octets
    <3> HIDE DEF acc, bits
    <3>1. \A w \in {1, 4, 16} : (acc \div w) % 256 \in 0..255
      BY <2>3, SMT
    <3>2. QED
      BY <2>5, <3>1, Zenon DEF Octets
  <2>7. CASE s.rc # 0 \/ c \in {Pad, LF}
    BY <2>7, SMT DEF Collect
  <2>8. CASE ~(s.rc # 0 \/ c \in {Pad, LF}) /\ c \in {High, Other}
    <3>1. Collect(s, c) \in {[s EXCEPT !.rc = Fault], [s EXCEPT !.rc = -1]}
      BY <2>8, SMT DEF Collect
    <3>2. QED
      BY <3>1 DEF Readings
  <2>9. CASE ~(s.rc # 0 \/ c \in {Pad, LF}) /\ c \notin {High, Other}
    <3>1. Collect(s, c) = IF bits < 8 THEN [s EXCEPT !.acc = acc, !.bits = bits]
                          ELSE [s EXCEPT !.acc = acc, !.bits = bits - 8, !.dst = Append(s.dst, byte)]
      BY <2>9, SMT DEF Collect
    <3> HIDE DEF acc, bits, byte
    <3>2. CASE bits < 8
      <4>1. bits = 6
        BY <2>4, <3>2
      <4>2. QED
        BY <2>1, <2>3, <3>1, <3>2, <4>1 DEF Readings
    <3>3. CASE ~(bits < 8)
      <4>1. bits - 8 \in {0, 2, 4, 6} /\ byte \in Octets
        BY <2>4, <2>6, <3>3
      <4>2. Append(s.dst, byte) \in Seq(Octets)
        <5> HIDE DEF Octets
        <5>1. QED
          BY <2>1, <4>1
      <4>3. QED
        BY <2>1, <2>3, <3>1, <3>3, <4>1, <4>2 DEF Readings
    <3>4. QED
      BY <3>2, <3>3
  <2>10. QED
    BY <2>7, <2>8, <2>9
<1>3. QED
  <2>1. \A x \in Readings \X Codes : x[1] \in Readings /\ x[2] \in Codes
    <3> HIDE DEF Readings, Codes
    <3>1. QED
      OBVIOUS
  <2>2. QED
    BY <1>1, <1>2, <2>1, Zenon DEF Reads

(* The loop of base64_decode_ex as the library folds it.                   *)
IsReads(c, t) ==
  c = [s \in SUBSET DOMAIN t |->
        IF s = {} THEN ReadNone ELSE Collect(c[s \ {Max(s)}], t[Max(s)])]

LEMMA ReadsFold ==
  ASSUME NEW t \in Seq(Codes)
  PROVE  FoldLeft(Collect, ReadNone, t) = Fold(Reads, ReadNone, t)
<1> DEFINE n == Len(t)
<1>1. n \in Nat /\ DOMAIN t = 1..n /\ \A i \in 1..n : t[i] \in Codes
  <2>1. \A i \in 1..Len(t) : t[i] \in Codes
    <3> HIDE DEF Codes
    <3>1. QED
      OBVIOUS
  <2>2. QED
    BY <2>1
<1>2. Reads \in [Readings \X Codes -> Readings] /\ ReadNone \in Readings
  BY ReadsType
<1>3. \A x \in Readings, y \in Codes : Reads[<<x, y>>] = Collect(x, y)
  BY Zenon DEF Reads
<1>4. \E c : IsReads(c, t)
  <2>1. \E c \in [SUBSET (1..n) -> Readings] : Folds(c, Reads, ReadNone, t)
    <3> HIDE DEF Codes
    <3>1. QED
      BY <1>2, FoldExists
  <2>2. PICK c \in [SUBSET (1..n) -> Readings] : Folds(c, Reads, ReadNone, t)
    BY <2>1, Zenon
  <2>3. \A s \in SUBSET (1..n) : c[s] = IF s = {} THEN ReadNone ELSE Collect(c[s \ {Max(s)}], t[Max(s)])
    <3> SUFFICES ASSUME NEW s \in SUBSET (1..n)
                 PROVE  c[s] = IF s = {} THEN ReadNone ELSE Collect(c[s \ {Max(s)}], t[Max(s)])
      OBVIOUS
    <3>1. c[s] = IF s = {} THEN ReadNone ELSE Reads[<<c[s \ {Max(s)}], t[Max(s)]>>]
      BY <2>2, Zenon DEF Folds
    <3>2. s # {} => Max(s) \in 1..n
      <4> HIDE DEF n
      <4>1. QED
        BY <1>1, Largest
    <3>3. c[s \ {Max(s)}] \in Readings
      <4> HIDE DEF n, Codes
      <4>1. QED
        OBVIOUS
    <3>4. QED
      BY <1>1, <1>3, <3>1, <3>2, <3>3, Zenon
  <2>4. c = [s \in SUBSET (1..n) |-> c[s]]
    OBVIOUS
  <2>5. IsReads(c, t)
    BY <1>1, <2>3, <2>4, Zenon DEF IsReads
  <2>6. QED
    BY <2>5
<1>5. PICK c : c = CHOOSE d : IsReads(d, t)
  OBVIOUS
<1>6. IsReads(c, t)
  BY <1>4, <1>5, Zenon
<1>7. \A s \in SUBSET (1..n) : c[s] = IF s = {} THEN ReadNone ELSE Collect(c[s \ {Max(s)}], t[Max(s)])
  BY <1>1, <1>6, Zenon DEF IsReads
<1>8. FoldsIn(Readings, Codes, c, Reads, ReadNone, t)
  <2>1. c[{}] = ReadNone
    <3>1. {} \in SUBSET (1..n)
      OBVIOUS
    <3>2. QED
      BY <1>7, <3>1, Zenon
  <2>2. ASSUME NEW s \in SUBSET (1..n), s # {}, c[s \ {Max(s)}] \in Readings
        PROVE  c[s] = Reads[<<c[s \ {Max(s)}], t[Max(s)]>>]
    <3>1. Max(s) \in 1..n
      <4> HIDE DEF n
      <4>1. QED
        BY <1>1, <2>2, Largest
    <3>2. QED
      BY <1>1, <1>3, <1>7, <2>2, <3>1, Zenon
  <2>3. QED
    BY <1>2, <2>1, <2>2, Zenon DEF FoldsIn
<1>9. c[1..n] = Fold(Reads, ReadNone, t)
  <2> HIDE DEF Codes
  <2>1. QED
    BY <1>8, FoldIsChain
<1>10. FoldLeft(Collect, ReadNone, t) = c[DOMAIN t]
  BY <1>5, Zenon DEF FoldLeft, MapThenFoldSet, IsReads
<1>11. QED
  BY <1>1, <1>9, <1>10, Zenon

(* What base64_decode keeps in its second loop, and that loop as a fold.   *)
Sextets == 0..63
Gatherings  == [block : Seq(Sextets), pad : Nat, dst : Seq(Octets)]

NoBlock == [block |-> <<>>, pad |-> 0, dst |-> <<>>]

Gathers == [x \in Gatherings \X Codes |-> Gather(x[1], x[2])]

LEMMA TripleType ==
  ASSUME NEW b \in Seq(Sextets), Len(b) >= 4, NEW pad \in Nat
  PROVE  Triple(b) \in Seq(Octets) /\ Len(Triple(b)) = 3 /\ BlockBytes(b, pad) \in Seq(Octets)
<1>1. b[1] \in Nat /\ b[2] \in Nat /\ b[3] \in Nat /\ b[4] \in Nat
  <2>1. \A i \in 1..Len(b) : b[i] \in Sextets
    <3> HIDE DEF Sextets
    <3>1. QED
      OBVIOUS
  <2>2. 1 \in 1..Len(b) /\ 2 \in 1..Len(b) /\ 3 \in 1..Len(b) /\ 4 \in 1..Len(b)
    OBVIOUS
  <2>3. Sextets \subseteq Nat
    BY DEF Sextets
  <2>4. QED
    BY <2>1, <2>2, <2>3, Zenon
<1>3. \E x, y, z \in Octets : Triple(b) = <<x, y, z>>
  <2> DEFINE x == (b[1] * 4 + b[2] \div 16) % 256
             y == (b[2] * 16 + b[3] \div 4) % 256
             z == (b[3] * 64 + b[4]) % 256
  <2>1. x \in Octets /\ y \in Octets /\ z \in Octets
    <3>1. \A n \in Nat : n % 256 \in Octets
      BY SMT DEF Octets
    <3>2. \A i, j \in Nat : /\ i * 4 + j \div 16 \in Nat /\ i * 16 + j \div 4 \in Nat
                             /\ i * 64 + j \in Nat
      BY SMT
    <3>3. /\ b[1] * 4 + b[2] \div 16 \in Nat /\ b[2] * 16 + b[3] \div 4 \in Nat
          /\ b[3] * 64 + b[4] \in Nat
      BY <1>1, <3>2, Zenon
    <3>4. QED
      BY <3>1, <3>3, Zenon
  <2>2. Triple(b) = <<x, y, z>>
    BY Zenon DEF Triple
  <2> HIDE DEF x, y, z
  <2>3. QED
    BY <2>1, <2>2
<1>4. Triple(b) \in Seq(Octets) /\ Len(Triple(b)) = 3
  BY <1>3
<1>5. 3 - pad \in Int /\ 3 - pad <= 3
  OBVIOUS
<1>6. BlockBytes(b, pad) \in Seq(Octets)
  <2> HIDE DEF Octets
  <2>0. \A i \in 1..(3 - pad) : Triple(b)[i] \in Octets
    <3>1. \A i \in 1..(3 - pad) : i \in 1..3
      BY <1>5
    <3>2. \A i \in 1..3 : Triple(b)[i] \in Octets
      <4>1. \A i \in 1..Len(Triple(b)) : Triple(b)[i] \in Octets
        BY <1>4, ElementOfSeq
      <4>2. QED
        BY <1>4, <4>1, Zenon
    <3>3. QED
      BY <3>1, <3>2, Zenon
  <2>1. SubSeq(Triple(b), 1, 3 - pad) \in Seq(Octets)
    BY <1>5, <2>0, SubSeqProperties
  <2>2. QED
    BY <2>1 DEF BlockBytes
<1>7. QED
  BY <1>4, <1>6

LEMMA GathersType == Gathers \in [Gatherings \X Codes -> Gatherings] /\ NoBlock \in Gatherings
<1>1. NoBlock \in Gatherings
  BY DEF NoBlock, Gatherings
<1>2. ASSUME NEW s \in Gatherings, NEW c \in Codes PROVE Gather(s, c) \in Gatherings
  <2> DEFINE block == Append(s.block, c % Pad)
             pad   == IF c = Pad THEN s.pad + 1 ELSE s.pad
             dst   == s.dst \o BlockBytes(block, pad)
  <2>1. s.block \in Seq(Sextets) /\ s.pad \in Nat /\ s.dst \in Seq(Octets)
    BY DEF Gatherings
  <2>2. c % Pad \in Sextets
    BY SMT DEF Codes, Pad, Sextets
  <2>3. block \in Seq(Sextets) /\ pad \in Nat
    <3> HIDE DEF Sextets
    <3>1. QED
      BY <2>1, <2>2
  <2>4. Len(block) \in Nat /\ (~(Len(block) < 4) => Len(block) >= 4)
    <3> HIDE DEF block
    <3>1. QED
      BY <2>3
  <2>5. ~(Len(block) < 4) => dst \in Seq(Octets)
    <3> HIDE DEF block, pad
    <3>1. ~(Len(block) < 4) => BlockBytes(block, pad) \in Seq(Octets)
      BY <2>3, <2>4, TripleType
    <3> HIDE DEF Octets
    <3>2. QED
      BY <2>1, <3>1
  <2>7. CASE Len(block) < 4
    <3>1. Gather(s, c) \in {s, [block |-> block, pad |-> pad, dst |-> s.dst]}
      BY <2>7, SMT DEF Gather
    <3> HIDE DEF block, pad
    <3>2. QED
      BY <2>1, <2>3, <3>1 DEF Gatherings
  <2>8. CASE ~(Len(block) < 4)
    <3>1. Gather(s, c) \in {s, [block |-> <<>>, pad |-> pad, dst |-> dst]}
      BY <2>8, SMT DEF Gather
    <3>2. dst \in Seq(Octets)
      BY <2>5, <2>8
    <3> HIDE DEF block, pad, dst
    <3>3. <<>> \in Seq(Sextets)
      OBVIOUS
    <3>4. [block |-> <<>>, pad |-> pad, dst |-> dst] \in Gatherings
      BY <2>3, <3>2, <3>3, Zenon DEF Gatherings
    <3>5. QED
      BY <3>1, <3>4
  <2>9. QED
    BY <2>7, <2>8
<1>3. QED
  <2>1. \A x \in Gatherings \X Codes : x[1] \in Gatherings /\ x[2] \in Codes
    <3> HIDE DEF Gatherings, Codes
    <3>1. QED
      OBVIOUS
  <2>2. QED
    BY <1>1, <1>2, <2>1, Zenon DEF Gathers

(* The second loop of base64_decode as the library folds it.               *)
IsGathers(c, t) ==
  c = [s \in SUBSET DOMAIN t |->
        IF s = {} THEN NoBlock ELSE Gather(c[s \ {Max(s)}], t[Max(s)])]

LEMMA GathersFold ==
  ASSUME NEW t \in Seq(Codes)
  PROVE  FoldLeft(Gather, NoBlock, t) = Fold(Gathers, NoBlock, t)
<1> DEFINE n == Len(t)
<1>1. n \in Nat /\ DOMAIN t = 1..n /\ \A i \in 1..n : t[i] \in Codes
  <2>1. \A i \in 1..Len(t) : t[i] \in Codes
    <3> HIDE DEF Codes
    <3>1. QED
      OBVIOUS
  <2>2. QED
    BY <2>1
<1>2. Gathers \in [Gatherings \X Codes -> Gatherings] /\ NoBlock \in Gatherings
  BY GathersType
<1>3. \A x \in Gatherings, y \in Codes : Gathers[<<x, y>>] = Gather(x, y)
  BY Zenon DEF Gathers
<1>4. \E c : IsGathers(c, t)
  <2>1. \E c \in [SUBSET (1..n) -> Gatherings] : Folds(c, Gathers, NoBlock, t)
    <3> HIDE DEF Codes
    <3>1. QED
      BY <1>2, FoldExists
  <2>2. PICK c \in [SUBSET (1..n) -> Gatherings] : Folds(c, Gathers, NoBlock, t)
    BY <2>1, Zenon
  <2>3. \A s \in SUBSET (1..n) : c[s] = IF s = {} THEN NoBlock ELSE Gather(c[s \ {Max(s)}], t[Max(s)])
    <3> SUFFICES ASSUME NEW s \in SUBSET (1..n)
                 PROVE  c[s] = IF s = {} THEN NoBlock ELSE Gather(c[s \ {Max(s)}], t[Max(s)])
      OBVIOUS
    <3>1. c[s] = IF s = {} THEN NoBlock ELSE Gathers[<<c[s \ {Max(s)}], t[Max(s)]>>]
      BY <2>2, Zenon DEF Folds
    <3>2. s # {} => Max(s) \in 1..n
      <4> HIDE DEF n
      <4>1. QED
        BY <1>1, Largest
    <3>3. c[s \ {Max(s)}] \in Gatherings
      <4> HIDE DEF n, Codes
      <4>1. QED
        OBVIOUS
    <3>4. QED
      BY <1>1, <1>3, <3>1, <3>2, <3>3, Zenon
  <2>4. c = [s \in SUBSET (1..n) |-> c[s]]
    OBVIOUS
  <2>5. IsGathers(c, t)
    BY <1>1, <2>3, <2>4, Zenon DEF IsGathers
  <2>6. QED
    BY <2>5
<1>5. PICK c : c = CHOOSE d : IsGathers(d, t)
  OBVIOUS
<1>6. IsGathers(c, t)
  BY <1>4, <1>5, Zenon
<1>7. \A s \in SUBSET (1..n) : c[s] = IF s = {} THEN NoBlock ELSE Gather(c[s \ {Max(s)}], t[Max(s)])
  BY <1>1, <1>6, Zenon DEF IsGathers
<1>8. FoldsIn(Gatherings, Codes, c, Gathers, NoBlock, t)
  <2>1. c[{}] = NoBlock
    <3>1. {} \in SUBSET (1..n)
      OBVIOUS
    <3>2. QED
      BY <1>7, <3>1, Zenon
  <2>2. ASSUME NEW s \in SUBSET (1..n), s # {}, c[s \ {Max(s)}] \in Gatherings
        PROVE  c[s] = Gathers[<<c[s \ {Max(s)}], t[Max(s)]>>]
    <3>1. Max(s) \in 1..n
      <4> HIDE DEF n
      <4>1. QED
        BY <1>1, <2>2, Largest
    <3>2. QED
      BY <1>1, <1>3, <1>7, <2>2, <3>1, Zenon
  <2>3. QED
    BY <1>2, <2>1, <2>2, Zenon DEF FoldsIn
<1>9. c[1..n] = Fold(Gathers, NoBlock, t)
  <2> HIDE DEF Codes
  <2>1. QED
    BY <1>8, FoldIsChain
<1>10. FoldLeft(Gather, NoBlock, t) = c[DOMAIN t]
  BY <1>5, Zenon DEF FoldLeft, MapThenFoldSet, IsGathers
<1>11. QED
  BY <1>1, <1>9, <1>10, Zenon

Keeps == [x \in Seq(Codes) \X Codes |-> Keep(x[1], x[2])]

Empty == <<>>

LEMMA KeepsType == Keeps \in [Seq(Codes) \X Codes -> Seq(Codes)] /\ Empty \in Seq(Codes)
<1>1. ASSUME NEW s \in Seq(Codes), NEW c \in Codes PROVE Keep(s, c) \in Seq(Codes)
  <2> HIDE DEF Codes
  <2>1. QED
    BY DEF Keep
<1>2. \A x \in Seq(Codes) \X Codes : x[1] \in Seq(Codes) /\ x[2] \in Codes
  <2> HIDE DEF Codes
  <2>1. QED
    OBVIOUS
<1>3. Empty \in Seq(Codes)
  BY DEF Empty
<1>4. QED
  BY <1>1, <1>2, <1>3, Zenon DEF Keeps

(* Bare as the library folds it.                                           *)
IsKeeps(c, t) ==
  c = [s \in SUBSET DOMAIN t |->
        IF s = {} THEN Empty ELSE Keep(c[s \ {Max(s)}], t[Max(s)])]

LEMMA KeepsFold ==
  ASSUME NEW t \in Seq(Codes)
  PROVE  FoldLeft(Keep, Empty, t) = Fold(Keeps, Empty, t)
<1> DEFINE n == Len(t)
<1>1. n \in Nat /\ DOMAIN t = 1..n /\ \A i \in 1..n : t[i] \in Codes
  <2>1. \A i \in 1..Len(t) : t[i] \in Codes
    <3> HIDE DEF Codes
    <3>1. QED
      OBVIOUS
  <2>2. QED
    BY <2>1
<1>2. Keeps \in [Seq(Codes) \X Codes -> Seq(Codes)] /\ Empty \in Seq(Codes)
  BY KeepsType
<1>3. \A x \in Seq(Codes), y \in Codes : Keeps[<<x, y>>] = Keep(x, y)
  BY Zenon DEF Keeps
<1>4. \E c : IsKeeps(c, t)
  <2>1. \E c \in [SUBSET (1..n) -> Seq(Codes)] : Folds(c, Keeps, Empty, t)
    <3> HIDE DEF Codes
    <3>1. QED
      BY <1>2, FoldExists
  <2>2. PICK c \in [SUBSET (1..n) -> Seq(Codes)] : Folds(c, Keeps, Empty, t)
    BY <2>1, Zenon
  <2>3. \A s \in SUBSET (1..n) : c[s] = IF s = {} THEN Empty ELSE Keep(c[s \ {Max(s)}], t[Max(s)])
    <3> SUFFICES ASSUME NEW s \in SUBSET (1..n)
                 PROVE  c[s] = IF s = {} THEN Empty ELSE Keep(c[s \ {Max(s)}], t[Max(s)])
      OBVIOUS
    <3>1. c[s] = IF s = {} THEN Empty ELSE Keeps[<<c[s \ {Max(s)}], t[Max(s)]>>]
      BY <2>2, Zenon DEF Folds
    <3>2. s # {} => Max(s) \in 1..n
      <4> HIDE DEF n
      <4>1. QED
        BY <1>1, Largest
    <3>3. c[s \ {Max(s)}] \in Seq(Codes)
      <4> HIDE DEF n, Codes
      <4>1. QED
        OBVIOUS
    <3>4. QED
      BY <1>1, <1>3, <3>1, <3>2, <3>3, Zenon
  <2>4. c = [s \in SUBSET (1..n) |-> c[s]]
    OBVIOUS
  <2>5. IsKeeps(c, t)
    BY <1>1, <2>3, <2>4, Zenon DEF IsKeeps
  <2>6. QED
    BY <2>5
<1>5. PICK c : c = CHOOSE d : IsKeeps(d, t)
  OBVIOUS
<1>6. IsKeeps(c, t)
  BY <1>4, <1>5, Zenon
<1>7. \A s \in SUBSET (1..n) : c[s] = IF s = {} THEN Empty ELSE Keep(c[s \ {Max(s)}], t[Max(s)])
  BY <1>1, <1>6, Zenon DEF IsKeeps
<1>8. FoldsIn(Seq(Codes), Codes, c, Keeps, Empty, t)
  <2>1. c[{}] = Empty
    <3>1. {} \in SUBSET (1..n)
      OBVIOUS
    <3>2. QED
      BY <1>7, <3>1, Zenon
  <2>2. ASSUME NEW s \in SUBSET (1..n), s # {}, c[s \ {Max(s)}] \in Seq(Codes)
        PROVE  c[s] = Keeps[<<c[s \ {Max(s)}], t[Max(s)]>>]
    <3>1. Max(s) \in 1..n
      <4> HIDE DEF n
      <4>1. QED
        BY <1>1, <2>2, Largest
    <3>2. QED
      BY <1>1, <1>3, <1>7, <2>2, <3>1, Zenon
  <2>3. QED
    BY <1>2, <2>1, <2>2, Zenon DEF FoldsIn
<1>9. c[1..n] = Fold(Keeps, Empty, t)
  <2> HIDE DEF Codes
  <2>1. QED
    BY <1>8, FoldIsChain
<1>10. FoldLeft(Keep, Empty, t) = c[DOMAIN t]
  BY <1>5, Zenon DEF FoldLeft, MapThenFoldSet, IsKeeps
<1>11. QED
  BY <1>1, <1>9, <1>10, Zenon

-----------------------------------------------------------------------------
(* What the loops make of a text, character by character.                  *)
Read(t)     == FoldLeft(Collect, ReadNone, t)
Gathered(t) == FoldLeft(Gather, NoBlock, t)

LEMMA ReadGrows ==
  ASSUME NEW t \in Seq(Codes), NEW c \in Codes
  PROVE  Read(Append(t, c)) = Collect(Read(t), c) /\ Read(t) \in Readings
<1>1. Append(t, c) \in Seq(Codes)
  <2> HIDE DEF Codes
  <2>1. QED
    OBVIOUS
<1>2. /\ Read(t) = Fold(Reads, ReadNone, t)
      /\ Read(Append(t, c)) = Fold(Reads, ReadNone, Append(t, c))
  BY <1>1, ReadsFold DEF Read
<1>3. Reads \in [Readings \X Codes -> Readings] /\ ReadNone \in Readings
  BY ReadsType
<1>4. Fold(Reads, ReadNone, t) \in Readings /\ \E h : Chain(h, Reads, ReadNone, t)
  <2> HIDE DEF Codes
  <2>1. QED
    BY <1>3, FoldType
<1>5. Fold(Reads, ReadNone, Append(t, c)) = Reads[<<Fold(Reads, ReadNone, t), c>>]
  <2> HIDE DEF Codes
  <2>1. QED
    BY <1>4, FoldGrows
<1>6. \A x \in Readings : Reads[<<x, c>>] = Collect(x, c)
  BY Zenon DEF Reads
<1>7. QED
  BY <1>2, <1>4, <1>5, <1>6, Zenon

LEMMA ReadNothing == Read(<<>>) = ReadNone
<1>1. <<>> \in Seq(Codes) /\ Len(<<>>) = 0
  <2> HIDE DEF Codes
  <2>1. QED
    OBVIOUS
<1>2. Read(<<>>) = Fold(Reads, ReadNone, <<>>)
  BY <1>1, ReadsFold DEF Read
<1>3. Chain([k \in {0} |-> ReadNone], Reads, ReadNone, <<>>)
  BY <1>1 DEF Chain
<1>4. Fold(Reads, ReadNone, <<>>) = [k \in {0} |-> ReadNone][0]
  BY <1>1, <1>3, FoldIs
<1>5. QED
  BY <1>2, <1>4

LEMMA GatheredGrows ==
  ASSUME NEW t \in Seq(Codes), NEW c \in Codes
  PROVE  Gathered(Append(t, c)) = Gather(Gathered(t), c) /\ Gathered(t) \in Gatherings
<1>1. Append(t, c) \in Seq(Codes)
  <2> HIDE DEF Codes
  <2>1. QED
    OBVIOUS
<1>2. /\ Gathered(t) = Fold(Gathers, NoBlock, t)
      /\ Gathered(Append(t, c)) = Fold(Gathers, NoBlock, Append(t, c))
  BY <1>1, GathersFold DEF Gathered
<1>3. Gathers \in [Gatherings \X Codes -> Gatherings] /\ NoBlock \in Gatherings
  BY GathersType
<1>4. Fold(Gathers, NoBlock, t) \in Gatherings /\ \E h : Chain(h, Gathers, NoBlock, t)
  <2> HIDE DEF Codes
  <2>1. QED
    BY <1>3, FoldType
<1>5. Fold(Gathers, NoBlock, Append(t, c)) = Gathers[<<Fold(Gathers, NoBlock, t), c>>]
  <2> HIDE DEF Codes
  <2>1. QED
    BY <1>4, FoldGrows
<1>6. \A x \in Gatherings : Gathers[<<x, c>>] = Gather(x, c)
  BY Zenon DEF Gathers
<1>7. QED
  BY <1>2, <1>4, <1>5, <1>6, Zenon

LEMMA GatheredNothing == Gathered(<<>>) = NoBlock
<1>1. <<>> \in Seq(Codes) /\ Len(<<>>) = 0
  <2> HIDE DEF Codes
  <2>1. QED
    OBVIOUS
<1>2. Gathered(<<>>) = Fold(Gathers, NoBlock, <<>>)
  BY <1>1, GathersFold DEF Gathered
<1>3. Chain([k \in {0} |-> NoBlock], Gathers, NoBlock, <<>>)
  BY <1>1 DEF Chain
<1>4. Fold(Gathers, NoBlock, <<>>) = [k \in {0} |-> NoBlock][0]
  BY <1>1, <1>3, FoldIs
<1>5. QED
  BY <1>2, <1>4

LEMMA BareGrows ==
  ASSUME NEW t \in Seq(Codes), NEW c \in Codes
  PROVE  Bare(Append(t, c)) = Keep(Bare(t), c) /\ Bare(t) \in Seq(Codes)
<1>1. Append(t, c) \in Seq(Codes)
  <2> HIDE DEF Codes
  <2>1. QED
    OBVIOUS
<1>2. /\ Bare(t) = Fold(Keeps, Empty, t)
      /\ Bare(Append(t, c)) = Fold(Keeps, Empty, Append(t, c))
  BY <1>1, KeepsFold DEF Bare, Empty
<1>3. Keeps \in [Seq(Codes) \X Codes -> Seq(Codes)] /\ Empty \in Seq(Codes)
  BY KeepsType
<1>4. Fold(Keeps, Empty, t) \in Seq(Codes) /\ \E h : Chain(h, Keeps, Empty, t)
  <2> HIDE DEF Codes
  <2>1. QED
    BY <1>3, FoldType
<1>5. Fold(Keeps, Empty, Append(t, c)) = Keeps[<<Fold(Keeps, Empty, t), c>>]
  <2> HIDE DEF Codes
  <2>1. QED
    BY <1>4, FoldGrows
<1>6. \A x \in Seq(Codes) : Keeps[<<x, c>>] = Keep(x, c)
  BY Zenon DEF Keeps
<1>7. QED
  BY <1>2, <1>4, <1>5, <1>6, Zenon

LEMMA BareNothing == Bare(<<>>) = Empty
<1>1. <<>> \in Seq(Codes) /\ Len(<<>>) = 0
  <2> HIDE DEF Codes
  <2>1. QED
    OBVIOUS
<1>2. Bare(<<>>) = Fold(Keeps, Empty, <<>>)
  BY <1>1, KeepsFold DEF Bare, Empty
<1>3. Chain([k \in {0} |-> Empty], Keeps, Empty, <<>>)
  BY <1>1 DEF Chain
<1>4. Fold(Keeps, Empty, <<>>) = [k \in {0} |-> Empty][0]
  BY <1>1, <1>3, FoldIs
<1>5. QED
  BY <1>2, <1>4

(* A character taken by base64_decode counts once.                         *)
Count(t) == Cardinality({i \in 1..Len(t) : t[i] <= Pad})

LEMMA CountGrows ==
  ASSUME NEW t \in Seq(Codes), NEW c \in Codes
  PROVE  /\ Count(t) \in Nat /\ Count(<<>>) = 0
         /\ Count(Append(t, c)) = Count(t) + (IF c <= Pad THEN 1 ELSE 0)
<1> DEFINE n == Len(t)
           A == {i \in 1..n : t[i] <= Pad}
           B == {i \in 1..Len(Append(t, c)) : Append(t, c)[i] <= Pad}
<1>1. n \in Nat /\ Len(Append(t, c)) = n + 1 /\ Append(t, c)[n + 1] = c
      /\ \A i \in 1..n : Append(t, c)[i] = t[i]
  <2>1. n \in Nat
    OBVIOUS
  <2>2. Len(Append(t, c)) = Len(t) + 1 /\ Append(t, c)[Len(t) + 1] = c
    OBVIOUS
  <2>3. \A i \in 1..Len(t) : Append(t, c)[i] = t[i]
    OBVIOUS
  <2>4. QED
    BY <2>1, <2>2, <2>3, Zenon
<1>2. IsFiniteSet(A) /\ Cardinality(A) \in Nat
  <2>1. n \in Int
    BY <1>1
  <2> HIDE DEF n
  <2>2. IsFiniteSet(1..n)
    BY <2>1, FS_Interval
  <2>3. QED
    BY <2>2, FS_Subset, FS_CardinalityType
<1>3. n + 1 \notin A
  BY <1>1
<1>4. B = A \cup (IF c <= Pad THEN {n + 1} ELSE {})
  <2>1. \A i : i \in 1..(n + 1) <=> i \in 1..n \/ i = n + 1
    BY <1>1
  <2> HIDE DEF n
  <2>2. \A i : i \in B <=> i \in 1..(n + 1) /\ Append(t, c)[i] <= Pad
    BY <1>1, Zenon
  <2>3. \A i : i \in B <=> i \in A \/ (i = n + 1 /\ c <= Pad)
    <3> HIDE DEF B
    <3>1. QED
      BY <1>1, <2>1, <2>2, Zenon
  <2> HIDE DEF A, B
  <2>4. QED
    BY <2>3
<1>5. Cardinality(A \cup {n + 1}) = Cardinality(A) + 1
  <2> HIDE DEF A
  <2>1. QED
    BY <1>2, <1>3, FS_AddElement
<1>6. Count(Append(t, c)) = Count(t) + (IF c <= Pad THEN 1 ELSE 0) /\ Count(t) \in Nat
  <2>1. Count(t) = Cardinality(A) /\ Count(Append(t, c)) = Cardinality(B)
    BY Zenon DEF Count
  <2> HIDE DEF A, B
  <2>2. CASE c <= Pad
    BY <1>2, <1>4, <1>5, <2>1, <2>2
  <2>3. CASE ~(c <= Pad)
    <3>1. B = A
      BY <1>4, <2>3
    <3>2. QED
      BY <1>2, <2>1, <2>3, <3>1
  <2>4. QED
    BY <2>2, <2>3
<1>7. Count(<<>>) = 0
  <2>1. {i \in 1..Len(<<>>) : <<>>[i] <= Pad} = {}
    OBVIOUS
  <2>2. QED
    BY <2>1, FS_EmptySet DEF Count
<1>8. QED
  BY <1>6, <1>7

-----------------------------------------------------------------------------
(* The two decoders side by side.                                          *)

Mix1(i, j) == (i * 4 + j \div 16) % 256
Mix2(i, j) == (i * 16 + j \div 4) % 256
Mix3(i, j) == (i * 64 + j) % 256

Byte1(b) == Mix1(b[1], b[2])
Byte2(b) == Mix2(b[2], b[3])
Byte3(b) == Mix3(b[3], b[4])

(* The byte that leaves an accumulator with n bits behind it.              *)
Leaves(d, n) == (d \div Weight[n]) % 256

(* The bytes that the first n characters of a block make up.               *)
Begun(b, n) ==
  IF n <= 1 THEN <<>> ELSE IF n = 2 THEN <<Byte1(b)>> ELSE <<Byte1(b), Byte2(b)>>

Pending(n) == IF n = 0 THEN 0 ELSE IF n = 1 THEN 6 ELSE IF n = 2 THEN 4 ELSE 2

(* r and g have read the same, up to the block that has begun.             *)
Abreast(r, g) ==
  /\ Len(g.block) < 4 /\ g.pad <= Len(g.block) /\ r.rc = 0
  /\ g.pad = 0 => /\ r.bits = Pending(Len(g.block))
                  /\ g.block # <<>> => r.acc % 64 = g.block[Len(g.block)]
  /\ r.dst = g.dst \o Begun(g.block, Len(g.block) - g.pad)

(* base64_decode has stopped at an '='.                                    *)
Halted(r, g) ==
  /\ g.block = <<>> /\ g.pad > 0 /\ r.rc = 0
  /\ g.pad <= 2 => r.dst = g.dst

LEMMA Shifted ==
  ASSUME NEW a \in Nat, NEW c \in Sextets, NEW d \in Nat, d = (a * 64 + c) % AccMod
  PROVE  /\ d % 64 = c /\ Leaves(d, 4) = Mix1(a % 64, c)
         /\ Leaves(d, 2) = Mix2(a % 64, c) /\ Leaves(d, 0) = Mix3(a % 64, c)
<1>1. c \in 0..63
  BY DEF Sextets
<1>2. PICK k \in Nat : a * 64 + c = k * AccMod + d
  <2> DEFINE m == a * 64 + c
             k == m \div AccMod
  <2>1. m \in Nat
    BY <1>1
  <2> HIDE DEF m
  <2>2. m = k * AccMod + (m % AccMod) /\ k \in Nat
    BY <2>1, SMT DEF AccMod
  <2>3. m % AccMod = d
    BY Zenon DEF m
  <2>4. QED
    <3> HIDE DEF k
    <3>1. \E j \in Nat : m = j * AccMod + d
      BY <2>2, <2>3
    <3>2. QED
      BY <3>1, Zenon DEF m
<1>3. PICK q \in Nat, x \in 0..63 : a = q * 64 + x /\ x = a % 64
  <2> DEFINE e == a \div 64
             f == a % 64
  <2>1. a = e * 64 + f /\ e \in Nat /\ f \in 0..63
    BY SMT
  <2>2. \E q \in Nat, x \in 0..63 : a = q * 64 + x /\ x = f
    <3> HIDE DEF e, f
    <3>1. QED
      BY <2>1
  <2>3. QED
    BY <2>2, Zenon DEF f
<1>4. d = (q * 64 + x) * 64 + c - k * 16777216
  BY <1>1, <1>2, <1>3, SMT DEF AccMod
<1>5. d % 64 = c
  BY <1>1, <1>4, SMT
<1>6. (d \div 16) % 256 = (x * 4 + c \div 16) % 256
  BY <1>1, <1>3, <1>4, SMT
<1>7. (d \div 4) % 256 = (x * 16 + c \div 4) % 256
  BY <1>1, <1>3, <1>4, SMT
<1>8. (d \div 1) % 256 = (x * 64 + c) % 256
  BY <1>1, <1>3, <1>4, SMT
<1>9. Leaves(d, 4) = (d \div 16) % 256 /\ Leaves(d, 2) = (d \div 4) % 256
      /\ Leaves(d, 0) = (d \div 1) % 256
  BY DEF Leaves, Weight
<1>10. QED
  BY <1>3, <1>5, <1>6, <1>7, <1>8, <1>9 DEF Mix1, Mix2, Mix3

(* base64_decode_ex at a character.                                        *)
LEMMA CollectSextet ==
  ASSUME NEW r \in Readings, NEW c \in Sextets, r.rc = 0, NEW d, d = (r.acc * 64 + c) % AccMod
  PROVE  /\ r.bits = 0 =>
              Collect(r, c) = [rc |-> 0, acc |-> d, bits |-> 6, dst |-> r.dst]
         /\ \A n \in {0, 2, 4} : r.bits = n + 2 =>
              Collect(r, c) = [rc |-> 0, acc |-> d, bits |-> n,
                               dst |-> Append(r.dst, Leaves(d, n))]
<1> DEFINE v    == IF c = Minus THEN 62 ELSE IF c = Under THEN 63 ELSE c
           bits == r.bits + 6
           byte == (d \div Weight[bits - 8]) % 256
<1>1. /\ r.bits \in {0, 2, 4, 6} /\ r.acc \in Nat /\ r.dst \in Seq(Octets)
      /\ r = [rc |-> 0, acc |-> r.acc, bits |-> r.bits, dst |-> r.dst]
  BY DEF Readings
<1>2. /\ ~(r.rc # 0 \/ c \in {Pad, LF}) /\ c \notin {High, Other, Minus, Under}
      /\ v = c
  BY SMT DEF Sextets, Pad, LF, High, Other, Minus, Under
<1>3. Collect(r, c) = LET e == (r.acc * 64 + v) % AccMod IN
                      IF bits < 8 THEN [r EXCEPT !.acc = e, !.bits = bits]
                      ELSE [r EXCEPT !.acc = e, !.bits = bits - 8,
                              !.dst = Append(r.dst, (e \div Weight[bits - 8]) % 256)]
  BY <1>2, SMT DEF Collect
<1>4. Collect(r, c) = IF bits < 8 THEN [r EXCEPT !.acc = d, !.bits = bits]
                      ELSE [r EXCEPT !.acc = d, !.bits = bits - 8, !.dst = Append(r.dst, byte)]
  <2> HIDE DEF v
  <2>1. QED
    BY <1>2, <1>3
<1> HIDE DEF byte
<1>5. Collect(r, c) = IF bits < 8 THEN [rc |-> 0, acc |-> d, bits |-> bits, dst |-> r.dst]
                      ELSE [rc |-> 0, acc |-> d, bits |-> bits - 8, dst |-> Append(r.dst, byte)]
  BY <1>1, <1>4 DEF Readings
<1> HIDE DEF bits
<1>6. ASSUME r.bits = 0
      PROVE  Collect(r, c) = [rc |-> 0, acc |-> d, bits |-> 6, dst |-> r.dst]
  <2>1. bits < 8 /\ bits = 6
    BY <1>6 DEF bits
  <2>2. QED
    BY <1>5, <2>1, Zenon
<1>7. ASSUME NEW n \in {0, 2, 4}, r.bits = n + 2
      PROVE  Collect(r, c) = [rc |-> 0, acc |-> d, bits |-> n,
                              dst |-> Append(r.dst, Leaves(d, n))]
  <2>1. ~(bits < 8) /\ bits - 8 = n
    BY <1>7 DEF bits
  <2>2. QED
    BY <1>5, <2>1, Zenon DEF byte, Leaves
<1>8. QED
  BY <1>6, <1>7, Zenon

(* base64_decode at a character, and at an '='.                            *)
Extended(g, c) == Append(g.block, c % Pad)
Pads(g, c) == IF c = Pad THEN g.pad + 1 ELSE g.pad

LEMMA GatherTakes ==
  ASSUME NEW g \in Gatherings, NEW c \in Codes, c <= Pad, g.block # <<>> \/ g.pad = 0
  PROVE  /\ Len(g.block) < 3 =>
              Gather(g, c) = [block |-> Extended(g, c), pad |-> Pads(g, c), dst |-> g.dst]
         /\ Len(g.block) = 3 =>
              Gather(g, c) = [block |-> <<>>, pad |-> Pads(g, c),
                              dst |-> g.dst \o BlockBytes(Extended(g, c), Pads(g, c))]
<1> DEFINE b == Extended(g, c)
           p == Pads(g, c)
<1>1. /\ g.block \in Seq(Sextets) /\ g.pad \in Nat /\ g.dst \in Seq(Octets)
      /\ g = [block |-> g.block, pad |-> g.pad, dst |-> g.dst]
  BY DEF Gatherings
<1>2. Len(b) = Len(g.block) + 1 /\ Len(g.block) \in Nat
  <2> HIDE DEF Sextets
  <2>1. QED
    BY <1>1 DEF Extended
<1>3. ~(c > Pad \/ (g.block = <<>> /\ g.pad > 0))
  <2>1. ~(c > Pad)
    BY DEF Codes, Pad
  <2>2. ~(0 > 0)
    OBVIOUS
  <2>3. QED
    BY <2>1, <2>2, Zenon
<1>5. Gather(g, c) = IF Len(b) < 4 THEN [block |-> b, pad |-> p, dst |-> g.dst]
                     ELSE [block |-> <<>>, pad |-> p, dst |-> g.dst \o BlockBytes(b, p)]
  BY <1>3, Zenon DEF Gather, Extended, Pads
<1>6. (Len(g.block) < 3 => Len(b) < 4) /\ (Len(g.block) = 3 => ~(Len(b) < 4))
  <2>1. \A n \in Nat : (n < 3 => n + 1 < 4) /\ (n = 3 => ~(n + 1 < 4))
    OBVIOUS
  <2>2. QED
    BY <1>2, <2>1, Zenon
<1>7. QED
  BY <1>5, <1>6, Zenon

(* What both pass over.                                                    *)
LEMMA Skipped ==
  /\ \A r : Collect(r, LF) = r /\ Collect(r, Pad) = r
  /\ \A g : Gather(g, LF) = g
  /\ \A g, c : g.block = <<>> /\ g.pad > 0 => Gather(g, c) = g
<1>1. LF > Pad
  BY DEF LF, Pad
<1>2. \A r : Collect(r, LF) = r /\ Collect(r, Pad) = r
  BY Zenon DEF Collect
<1>3. \A g : Gather(g, LF) = g
  BY <1>1, Zenon DEF Gather
<1>4. \A g, c : g.block = <<>> /\ g.pad > 0 => Gather(g, c) = g
  BY Zenon DEF Gather
<1>5. QED
  BY <1>2, <1>3, <1>4, Zenon

LEMMA TripleIs ==
  ASSUME NEW b \in Seq(Sextets), Len(b) >= 4
  PROVE  /\ Triple(b) = <<Byte1(b), Byte2(b), Byte3(b)>>
         /\ BlockBytes(b, 0) = <<Byte1(b), Byte2(b), Byte3(b)>>
         /\ BlockBytes(b, 1) = Begun(b, 3) /\ BlockBytes(b, 2) = Begun(b, 2)
<1>1. Triple(b) = <<Byte1(b), Byte2(b), Byte3(b)>>
  BY Zenon DEF Triple, Byte1, Byte2, Byte3, Mix1, Mix2, Mix3
<1>2. /\ SubSeq(Triple(b), 1, 3) = <<Byte1(b), Byte2(b), Byte3(b)>>
      /\ SubSeq(Triple(b), 1, 2) = <<Byte1(b), Byte2(b)>>
      /\ SubSeq(Triple(b), 1, 1) = <<Byte1(b)>>
  <2> DEFINE w == Triple(b)
             x == Byte1(b)
             y == Byte2(b)
             z == Byte3(b)
  <2>1. w \in Seq(Octets) /\ Len(w) = 3
    BY TripleType
  <2>2. w = <<x, y, z>>
    BY <1>1, Zenon
  <2> HIDE DEF w, x, y, z, Octets
  <2>3. w[1] = x /\ w[2] = y /\ w[3] = z
    BY <2>2
  <2>4. \A i \in 1..3 : w[i] \in Octets
    BY <2>1, ElementOfSeq
  <2>5. ASSUME NEW n \in 1..3
        PROVE  /\ SubSeq(w, 1, n) \in Seq(Octets) /\ Len(SubSeq(w, 1, n)) = n
               /\ \A i \in 1..n : SubSeq(w, 1, n)[i] = w[i]
    <3>1. \A i \in 1..n : w[i] \in Octets
      BY <2>4
    <3>2. /\ SubSeq(w, 1, n) \in Seq(Octets)
          /\ Len(SubSeq(w, 1, n)) = IF 1 <= n THEN n - 1 + 1 ELSE 0
          /\ \A i \in 1..(n - 1 + 1) : SubSeq(w, 1, n)[i] = w[1 + i - 1]
      BY <3>1, SubSeqProperties
    <3>3. n - 1 + 1 = n /\ 1 <= n /\ \A i \in 1..n : 1 + i - 1 = i
      OBVIOUS
    <3>4. QED
      BY <3>2, <3>3, Zenon
  <2>6. SubSeq(w, 1, 3) = <<x, y, z>> /\ SubSeq(w, 1, 2) = <<x, y>> /\ SubSeq(w, 1, 1) = <<x>>
    <3>1. /\ \A q \in Seq(Octets) : Len(q) = 3 => q = <<q[1], q[2], q[3]>>
          /\ \A q \in Seq(Octets) : Len(q) = 2 => q = <<q[1], q[2]>>
          /\ \A q \in Seq(Octets) : Len(q) = 1 => q = <<q[1]>>
      <4> SUFFICES ASSUME NEW q \in Seq(Octets)
                   PROVE  /\ Len(q) = 3 => q = <<q[1], q[2], q[3]>>
                          /\ Len(q) = 2 => q = <<q[1], q[2]>>
                          /\ Len(q) = 1 => q = <<q[1]>>
        BY Zenon
      <4>1. Len(q) = 3 => q = <<q[1], q[2], q[3]>>
        OBVIOUS
      <4>2. Len(q) = 2 => q = <<q[1], q[2]>>
        OBVIOUS
      <4>3. Len(q) = 1 => q = <<q[1]>>
        OBVIOUS
      <4>4. QED
        BY <4>1, <4>2, <4>3
    <3>2. 1 \in 1..1 /\ 1 \in 1..2 /\ 2 \in 1..2 /\ 1 \in 1..3 /\ 2 \in 1..3 /\ 3 \in 1..3
      OBVIOUS
    <3>3. SubSeq(w, 1, 3) = <<x, y, z>>
      <4> DEFINE q == SubSeq(w, 1, 3)
      <4>1. q \in Seq(Octets) /\ Len(q) = 3 /\ q[1] = x /\ q[2] = y /\ q[3] = z
        BY <2>3, <2>5, <3>2
      <4> HIDE DEF q
      <4>2. q = <<x, y, z>>
        BY <3>1, <4>1, Zenon
      <4>3. QED
        BY <4>2 DEF q
    <3>4. SubSeq(w, 1, 2) = <<x, y>>
      <4> DEFINE q == SubSeq(w, 1, 2)
      <4>1. q \in Seq(Octets) /\ Len(q) = 2 /\ q[1] = x /\ q[2] = y
        BY <2>3, <2>5, <3>2
      <4> HIDE DEF q
      <4>2. q = <<x, y>>
        BY <3>1, <4>1, Zenon
      <4>3. QED
        BY <4>2 DEF q
    <3>5. SubSeq(w, 1, 1) = <<x>>
      <4> DEFINE q == SubSeq(w, 1, 1)
      <4>1. q \in Seq(Octets) /\ Len(q) = 1 /\ q[1] = x
        BY <2>3, <2>5, <3>2
      <4> HIDE DEF q
      <4>2. q = <<x>>
        BY <3>1, <4>1, Zenon
      <4>3. QED
        BY <4>2 DEF q
    <3>6. QED
      BY <3>3, <3>4, <3>5
  <2>7. QED
    BY <2>6, Zenon DEF w, x, y, z
<1>3. 3 - 0 = 3 /\ 3 - 1 = 2 /\ 3 - 2 = 1 /\ ~(3 <= 1) /\ ~(2 <= 1) /\ 3 # 2
  OBVIOUS
<1>4. /\ BlockBytes(b, 0) = SubSeq(Triple(b), 1, 3)
      /\ BlockBytes(b, 1) = SubSeq(Triple(b), 1, 2)
      /\ BlockBytes(b, 2) = SubSeq(Triple(b), 1, 1)
  BY <1>3 DEF BlockBytes
<1>5. Begun(b, 3) = <<Byte1(b), Byte2(b)>> /\ Begun(b, 2) = <<Byte1(b)>>
  BY <1>3, Zenon DEF Begun
<1>6. QED
  BY <1>1, <1>2, <1>4, <1>5, Zenon

LEMMA Lengthens ==
  ASSUME NEW u \in Seq(Octets), NEW x \in Octets, NEW y \in Octets, NEW z \in Octets
  PROVE  /\ u \o <<>> = u /\ Append(u, x) = u \o <<x>>
         /\ Append(u \o <<x>>, y) = u \o <<x, y>>
         /\ Append(u \o <<x, y>>, z) = u \o <<x, y, z>>
         /\ <<x, y, z>> \in Seq(Octets) /\ u \o <<x, y, z>> \in Seq(Octets)
<1> HIDE DEF Octets
<1>1. u \o <<>> = u /\ Append(u, x) = u \o <<x>>
  OBVIOUS
<1>2. Append(u \o <<x>>, y) = u \o <<x, y>>
  OBVIOUS
<1>3. Append(u \o <<x, y>>, z) = u \o <<x, y, z>>
  OBVIOUS
<1>4. <<x, y, z>> \in Seq(Octets) /\ u \o <<x, y, z>> \in Seq(Octets)
  OBVIOUS
<1>5. QED
  BY <1>1, <1>2, <1>3, <1>4

LEMMA OctetOf ==
  ASSUME NEW i \in Nat, NEW j \in Nat
  PROVE  Mix1(i, j) \in Octets /\ Mix2(i, j) \in Octets /\ Mix3(i, j) \in Octets
<1>1. i * 4 + j \div 16 \in Nat /\ i * 16 + j \div 4 \in Nat /\ i * 64 + j \in Nat
  BY SMT
<1>2. \A n \in Nat : n % 256 \in Octets
  BY SMT DEF Octets
<1>3. QED
  BY <1>1, <1>2 DEF Mix1, Mix2, Mix3

LEMMA BegunIs ==
  ASSUME NEW b
  PROVE  /\ Begun(b, 0) = <<>> /\ Begun(b, 1) = <<>>
         /\ Begun(b, 2) = <<Byte1(b)>> /\ Begun(b, 3) = <<Byte1(b), Byte2(b)>>
<1>1. 0 <= 1 /\ 1 <= 1 /\ ~(2 <= 1) /\ ~(3 <= 1) /\ 3 # 2
  OBVIOUS
<1>2. QED
  BY <1>1, Zenon DEF Begun

(* A character keeps the two side by side.                                 *)
LEMMA AbreastSextet ==
  ASSUME NEW r \in Readings, NEW g \in Gatherings, Abreast(r, g), g.pad = 0, NEW c \in Sextets
  PROVE  /\ Abreast(Collect(r, c), Gather(g, c)) /\ Gather(g, c).pad = 0
         /\ Len(g.block) < 3 => /\ Gather(g, c).block = Append(g.block, c)
                                /\ Gather(g, c).dst = g.dst
         /\ Len(g.block) = 3 =>
              /\ Gather(g, c).block = <<>>
              /\ Gather(g, c).dst = g.dst \o BlockBytes(Append(g.block, c), 0)
<1> DEFINE b == g.block
           k == Append(b, c)
           n == Len(b)
           d == (r.acc * 64 + c) % AccMod
           s == Collect(r, c)
           h == Gather(g, c)
           x == Byte1(k)
           y == Byte2(k)
           z == Byte3(k)
<1>1. /\ b \in Seq(Sextets) /\ g.dst \in Seq(Octets) /\ r.acc \in Nat /\ r.rc = 0
      /\ r.dst \in Seq(Octets)
  BY DEF Gatherings, Readings, Abreast
<1>2. /\ n \in 0..3 /\ k \in Seq(Sextets) /\ Len(k) = n + 1 /\ k[n + 1] = c
      /\ \A i \in 1..n : k[i] = b[i] /\ b[i] \in Sextets
      /\ n = 0 => b = <<>>
  <2>1. n \in 0..3
    <3>1. n < 4 /\ n \in Nat
      BY <1>1 DEF Abreast
    <3> HIDE DEF n
    <3>2. QED
      BY <3>1
  <2>2. k \in Seq(Sextets) /\ Len(k) = n + 1 /\ k[n + 1] = c
        /\ \A i \in 1..n : k[i] = b[i] /\ b[i] \in Sextets
    <3> HIDE DEF Sextets
    <3>1. QED
      BY <1>1
  <2>3. n = 0 => b = <<>>
    BY <1>1
  <2>4. QED
    BY <2>1, <2>2, <2>3
<1>3. d \in Nat /\ d % 64 = c
      /\ Leaves(d, 4) = Mix1(r.acc % 64, c)
      /\ Leaves(d, 2) = Mix2(r.acc % 64, c) /\ Leaves(d, 0) = Mix3(r.acc % 64, c)
  <2>1. r.acc * 64 + c \in Nat
    BY <1>1 DEF Sextets
  <2>2. d \in Nat
    BY <2>1, SMT DEF AccMod
  <2>3. d = (r.acc * 64 + c) % AccMod
    OBVIOUS
  <2> DEFINE a == r.acc
  <2>4. a \in Nat /\ d = (a * 64 + c) % AccMod
    BY <1>1, <2>3
  <2> HIDE DEF d, a
  <2>5. /\ d % 64 = c
        /\ Leaves(d, 4) = Mix1(a % 64, c)
        /\ Leaves(d, 2) = Mix2(a % 64, c) /\ Leaves(d, 0) = Mix3(a % 64, c)
    BY <2>2, <2>4, Shifted, SMT
  <2>6. QED
    BY <2>2, <2>5, Zenon DEF a
<1>4. /\ r.bits = 0 => s = [rc |-> 0, acc |-> d, bits |-> 6, dst |-> r.dst]
      /\ \A m \in {0, 2, 4} : r.bits = m + 2 =>
           s = [rc |-> 0, acc |-> d, bits |-> m, dst |-> Append(r.dst, Leaves(d, m))]
  BY <1>1, CollectSextet
<1>5. /\ n < 3 => h = [block |-> k, pad |-> 0, dst |-> g.dst]
      /\ n = 3 => h = [block |-> <<>>, pad |-> 0, dst |-> g.dst \o BlockBytes(k, 0)]
  <2>1. c \in Codes /\ c <= Pad /\ c # Pad /\ c % Pad = c
    BY SMT DEF Sextets, Codes, Pad
  <2>2. Extended(g, c) = k /\ Pads(g, c) = 0
    BY <2>1, Zenon DEF Extended, Pads
  <2> HIDE DEF k
  <2>3. QED
    BY <2>1, <2>2, GatherTakes
<1>6. /\ r.bits = Pending(n) /\ (n # 0 => r.acc % 64 = b[n])
      /\ r.dst = g.dst \o Begun(b, n)
  <2>1. n - g.pad = n
    BY <1>2
  <2>2. n # 0 => b # <<>>
    BY <1>1
  <2>3. QED
    BY <2>1, <2>2, Zenon DEF Abreast
<1>7. Weight[0] = 1 /\ Weight[2] = 4 /\ Weight[4] = 16
  BY DEF Weight
<1> HIDE DEF d
<1>8. CASE n = 0
  <2>1. r.bits = 0 /\ s = [rc |-> 0, acc |-> d, bits |-> 6, dst |-> r.dst]
    BY <1>4, <1>6, <1>8 DEF Pending
  <2>2. h = [block |-> k, pad |-> 0, dst |-> g.dst]
    BY <1>5, <1>8
  <2>3. Len(k) = 1 /\ k[1] = c
    BY <1>2, <1>8
  <2>4. r.dst = g.dst /\ g.dst \o Begun(k, 1) = g.dst
    <3>1. Begun(b, n) = <<>> /\ Begun(k, 1) = <<>>
      BY <1>8, BegunIs, Zenon
    <3>2. g.dst \o <<>> = g.dst
      BY <1>1
    <3>3. QED
      BY <1>6, <3>1, <3>2, Zenon
  <2> HIDE DEF s, h, k, b
  <2>5. Abreast(s, h)
    <3>1. /\ Len(h.block) = 1 /\ h.pad = 0 /\ s.rc = 0 /\ s.bits = 6 /\ s.acc = d
          /\ s.dst = g.dst /\ h.block = k /\ h.dst = g.dst
      BY <2>1, <2>2, <2>3, <2>4
    <3>2. 1 < 4 /\ 0 <= 1 /\ 1 - 0 = 1 /\ Pending(1) = 6
      BY DEF Pending
    <3>3. QED
      BY <1>3, <2>3, <2>4, <3>1, <3>2, Zenon DEF Abreast
  <2>6. QED
    BY <1>8, <2>2, <2>5 DEF s, h, k, b, n
<1> HIDE DEF s, h, k, x, y, z
<1>9. \A i \in Octets : /\ Append(g.dst, i) = g.dst \o <<i>>
                        /\ \A j \in Octets : /\ Append(g.dst \o <<i>>, j) = g.dst \o <<i, j>>
                             /\ \A l \in Octets : Append(g.dst \o <<i, j>>, l) = g.dst \o <<i, j, l>>
  <2>1. ASSUME NEW i \in Octets, NEW j \in Octets, NEW l \in Octets
        PROVE  /\ Append(g.dst, i) = g.dst \o <<i>> /\ Append(g.dst \o <<i>>, j) = g.dst \o <<i, j>>
               /\ Append(g.dst \o <<i, j>>, l) = g.dst \o <<i, j, l>>
    <3> DEFINE u == g.dst
    <3>1. u \in Seq(Octets)
      BY <1>1
    <3> HIDE DEF u, Octets
    <3>2. /\ Append(u, i) = u \o <<i>> /\ Append(u \o <<i>>, j) = u \o <<i, j>>
          /\ Append(u \o <<i, j>>, l) = u \o <<i, j, l>>
      <4>1. Append(u, i) = u \o <<i>>
        BY <3>1, Lengthens, Zenon
      <4>2. Append(u \o <<i>>, j) = u \o <<i, j>>
        BY <3>1, Lengthens, Zenon
      <4>3. Append(u \o <<i, j>>, l) = u \o <<i, j, l>>
        BY <3>1
      <4>4. QED
        BY <4>1, <4>2, <4>3
    <3>3. QED
      BY <3>2, Zenon DEF u
  <2>2. QED
    BY <2>1, Zenon
<1>10. CASE n = 1
  <2>1. r.bits = 4 + 2 /\ 4 \in {0, 2, 4}
    BY <1>6, <1>10 DEF Pending
  <2>2. s = [rc |-> 0, acc |-> d, bits |-> 4, dst |-> Append(r.dst, Leaves(d, 4))]
    BY <1>4, <1>7, <2>1, Zenon
  <2>3. h = [block |-> k, pad |-> 0, dst |-> g.dst]
    BY <1>5, <1>10
  <2>4. Len(k) = 2 /\ k[1] = r.acc % 64 /\ k[2] = c /\ k[1] \in Nat /\ k[2] \in Nat
    <3>1. 1 \in 1..n /\ 1 + 1 = 2 /\ 1 # 0
      BY <1>10
    <3>2. Len(k) = 2 /\ k[1] = b[1] /\ b[1] \in Sextets /\ k[2] = c /\ r.acc % 64 = b[1]
      BY <1>2, <1>6, <1>10, <3>1, Zenon
    <3>3. QED
      BY <3>2 DEF Sextets
  <2>5. Leaves(d, 4) = x /\ x \in Octets
    BY <1>3, <2>4, OctetOf, Zenon DEF x, Byte1
  <2>6. r.dst = g.dst /\ Begun(k, 2) = <<x>>
    <3>1. Begun(b, n) = <<>> /\ Begun(k, 2) = <<x>>
      BY <1>10, BegunIs, Zenon DEF x
    <3>2. g.dst \o <<>> = g.dst
      BY <1>1
    <3>3. QED
      BY <1>6, <3>1, <3>2, Zenon
  <2>7. Abreast(s, h)
    <3> HIDE DEF b, n
    <3>1. /\ Len(h.block) = 2 /\ h.pad = 0 /\ s.rc = 0 /\ s.bits = 4 /\ s.acc = d
          /\ s.dst = Append(r.dst, Leaves(d, 4)) /\ h.block = k /\ h.dst = g.dst
      BY <2>2, <2>3, <2>4
    <3>2. 2 < 4 /\ 0 <= 2 /\ 2 - 0 = 2 /\ Pending(2) = 4
      BY DEF Pending
    <3>3. s.dst = g.dst \o Begun(k, 2)
      BY <1>9, <2>5, <2>6, <3>1, Zenon
    <3>4. QED
      BY <1>3, <2>4, <3>1, <3>2, <3>3, Zenon DEF Abreast
  <2>8. QED
    BY <1>10, <2>3, <2>7 DEF s, h, k, b, n
<1>11. CASE n = 2
  <2>1. r.bits = 2 + 2 /\ 2 \in {0, 2, 4}
    BY <1>6, <1>11 DEF Pending
  <2>2. s = [rc |-> 0, acc |-> d, bits |-> 2, dst |-> Append(r.dst, Leaves(d, 2))]
    BY <1>4, <1>7, <2>1, Zenon
  <2>3. h = [block |-> k, pad |-> 0, dst |-> g.dst]
    BY <1>5, <1>11
  <2>4. /\ Len(k) = 3 /\ k[2] = r.acc % 64 /\ k[3] = c /\ k[1] \in Nat /\ k[2] \in Nat /\ k[3] \in Nat
        /\ Byte1(b) = x
    <3>1. 1 \in 1..n /\ 2 \in 1..n /\ 2 + 1 = 3 /\ 2 # 0
      BY <1>11
    <3>2. /\ Len(k) = 3 /\ k[1] = b[1] /\ b[1] \in Sextets /\ k[2] = b[2] /\ b[2] \in Sextets
          /\ k[3] = c /\ r.acc % 64 = b[2]
      BY <1>2, <1>6, <1>11, <3>1, Zenon
    <3>3. Byte1(b) = x
      BY <3>2, Zenon DEF x, Byte1
    <3>4. QED
      BY <3>2, <3>3 DEF Sextets
  <2>5. Leaves(d, 2) = y /\ y \in Octets /\ x \in Octets
    BY <1>3, <2>4, OctetOf, Zenon DEF x, y, Byte1, Byte2
  <2>6. r.dst = g.dst \o <<x>> /\ Begun(k, 3) = <<x, y>>
    BY <1>6, <1>11, <2>4, BegunIs, Zenon DEF x, y
  <2>7. Abreast(s, h)
    <3> HIDE DEF b, n
    <3>1. /\ Len(h.block) = 3 /\ h.pad = 0 /\ s.rc = 0 /\ s.bits = 2 /\ s.acc = d
          /\ s.dst = Append(r.dst, Leaves(d, 2)) /\ h.block = k /\ h.dst = g.dst
      BY <2>2, <2>3, <2>4
    <3>2. 3 < 4 /\ 0 <= 3 /\ 3 - 0 = 3 /\ Pending(3) = 2
      BY DEF Pending
    <3>3. s.dst = g.dst \o Begun(k, 3)
      BY <1>9, <2>5, <2>6, <3>1, Zenon
    <3>4. QED
      BY <1>3, <2>4, <3>1, <3>2, <3>3, Zenon DEF Abreast
  <2>8. QED
    BY <1>11, <2>3, <2>7 DEF s, h, k, b, n
<1>12. CASE n = 3
  <2>1. r.bits = 0 + 2 /\ 0 \in {0, 2, 4}
    BY <1>6, <1>12 DEF Pending
  <2>2. s = [rc |-> 0, acc |-> d, bits |-> 0, dst |-> Append(r.dst, Leaves(d, 0))]
    BY <1>4, <1>7, <2>1, Zenon
  <2>3. h = [block |-> <<>>, pad |-> 0, dst |-> g.dst \o BlockBytes(k, 0)]
    BY <1>5, <1>12
  <2>4. /\ Len(k) = 4 /\ k[3] = r.acc % 64 /\ k[4] = c
        /\ k[1] \in Nat /\ k[2] \in Nat /\ k[3] \in Nat /\ k[4] \in Nat
        /\ Byte1(b) = x /\ Byte2(b) = y
    <3>1. 1 \in 1..n /\ 2 \in 1..n /\ 3 \in 1..n /\ 3 + 1 = 4 /\ 3 # 0
      BY <1>12
    <3>2. /\ Len(k) = 4 /\ k[1] = b[1] /\ b[1] \in Sextets /\ k[2] = b[2] /\ b[2] \in Sextets
          /\ k[3] = b[3] /\ b[3] \in Sextets /\ k[4] = c /\ r.acc % 64 = b[3]
      BY <1>2, <1>6, <1>12, <3>1, Zenon
    <3>3. Byte1(b) = x /\ Byte2(b) = y
      BY <3>2, Zenon DEF x, y, Byte1, Byte2
    <3>4. QED
      BY <3>2, <3>3 DEF Sextets
  <2>5. Leaves(d, 0) = z /\ z \in Octets /\ y \in Octets /\ x \in Octets
    BY <1>3, <2>4, OctetOf, Zenon DEF x, y, z, Byte1, Byte2, Byte3
  <2>6. r.dst = g.dst \o <<x, y>>
    BY <1>6, <1>12, <2>4, BegunIs, Zenon
  <2>7. BlockBytes(k, 0) = <<x, y, z>>
    <3>1. Len(k) >= 4
      BY <2>4
    <3>2. QED
      BY <1>2, <3>1, TripleIs, Zenon DEF x, y, z
  <2>8. Abreast(s, h)
    <3> HIDE DEF b, n
    <3>1. /\ h.block = <<>> /\ h.pad = 0 /\ s.rc = 0 /\ s.bits = 0
          /\ s.dst = Append(r.dst, Leaves(d, 0)) /\ h.dst = g.dst \o BlockBytes(k, 0)
      BY <2>2, <2>3
    <3>2. 0 < 4 /\ 0 <= 0 /\ 0 - 0 = 0 /\ Pending(0) = 0 /\ Len(<<>>) = 0
      BY DEF Pending
    <3>3. s.dst = h.dst
      <4>1. s.dst = Append(g.dst \o <<x, y>>, z)
        BY <2>5, <2>6, <3>1, Zenon
      <4>2. h.dst = g.dst \o <<x, y, z>>
        BY <2>7, <3>1, Zenon
      <4>3. QED
        BY <1>9, <2>5, <4>1, <4>2, Zenon
    <3>4. h.dst \o <<>> = h.dst
      <4> DEFINE u == g.dst
                 w == u \o <<x, y, z>>
      <4>1. u \in Seq(Octets)
        BY <1>1
      <4>2. w \in Seq(Octets)
        <5> HIDE DEF u
        <5>1. QED
          BY <2>5, <4>1, Lengthens
      <4>3. h.dst = w
        BY <2>7, <3>1, Zenon
      <4> HIDE DEF w
      <4>4. w \o <<>> = w
        BY <4>2
      <4>5. QED
        BY <4>3, <4>4, Zenon
    <3>5. h.dst \o Begun(h.block, 0) = s.dst
      <4>1. Begun(h.block, 0) = <<>>
        BY BegunIs, Zenon
      <4>2. QED
        BY <3>3, <3>4, <4>1, Zenon
    <3>6. QED
      BY <3>1, <3>2, <3>5, Zenon DEF Abreast
  <2>9. QED
    <3>1. h.block = <<>> /\ h.pad = 0 /\ h.dst = g.dst \o BlockBytes(k, 0)
      BY <2>3
    <3>2. ~(3 < 3)
      OBVIOUS
    <3>3. QED
      BY <1>12, <2>8, <3>1, <3>2, Zenon DEF s, h, k, b, n
<1>13. n = 0 \/ n = 1 \/ n = 2 \/ n = 3
  <2> HIDE DEF n
  <2>1. QED
    BY <1>2
<1>14. QED
  BY <1>8, <1>10, <1>11, <1>12, <1>13

(* An '=' counts for base64_decode only, which stops when the block is     *)
(* full.                                                                   *)
LEMMA AbreastPad ==
  ASSUME NEW r \in Readings, NEW g \in Gatherings, Abreast(r, g)
  PROVE  /\ Len(g.block) < 3 => /\ Abreast(r, Gather(g, Pad))
                                /\ Len(Gather(g, Pad).block) = Len(g.block) + 1
         /\ Len(g.block) = 3 => Halted(r, Gather(g, Pad))
         /\ Gather(g, Pad).pad = g.pad + 1
<1> DEFINE b == g.block
           n == Len(b)
           p == g.pad
           k == Append(b, 0)
           h == Gather(g, Pad)
<1>1. /\ b \in Seq(Sextets) /\ g.dst \in Seq(Octets) /\ p \in Nat /\ r.rc = 0
      /\ r.dst = g.dst \o Begun(b, n - p) /\ p <= n /\ n < 4
  BY DEF Gatherings, Abreast
<1>2. n \in 0..3 /\ k \in Seq(Sextets) /\ Len(k) = n + 1 /\ \A i \in 1..n : k[i] = b[i]
  <2>1. 0 \in Sextets
    BY DEF Sextets
  <2>2. k \in Seq(Sextets) /\ Len(k) = n + 1 /\ \A i \in 1..n : k[i] = b[i]
    <3> HIDE DEF Sextets
    <3>1. QED
      BY <1>1, <2>1
  <2>3. n \in Nat
    BY <1>1
  <2> HIDE DEF n
  <2>4. n \in 0..3
    BY <1>1, <2>3
  <2>5. QED
    BY <2>2, <2>4
<1>3. /\ n < 3 => h = [block |-> k, pad |-> p + 1, dst |-> g.dst]
      /\ n = 3 => h = [block |-> <<>>, pad |-> p + 1, dst |-> g.dst \o BlockBytes(k, p + 1)]
  <2>1. Pad \in Codes /\ Pad <= Pad /\ Pad % Pad = 0
    BY SMT DEF Codes, Pad
  <2>2. g.block # <<>> \/ g.pad = 0
    <3>1. g.block = <<>> => n = 0
      OBVIOUS
    <3>2. n = 0 => p = 0
      BY <1>1
    <3>3. QED
      BY <3>1, <3>2
  <2> DEFINE q == p + 1
  <2>3. Extended(g, Pad) = k /\ Pads(g, Pad) = q
    BY <2>1, Zenon DEF Extended, Pads
  <2> HIDE DEF k, q
  <2>4. /\ Len(g.block) < 3 => h = [block |-> k, pad |-> q, dst |-> g.dst]
        /\ Len(g.block) = 3 => h = [block |-> <<>>, pad |-> q, dst |-> g.dst \o BlockBytes(k, q)]
    BY <2>1, <2>2, <2>3, GatherTakes
  <2>5. QED
    BY <2>4, Zenon DEF q
<1>4. ASSUME NEW m \in 0..n PROVE Begun(k, m) = Begun(b, m)
  <2>1. m \in {0, 1, 2, 3}
    BY <1>2
  <2>2. m = 2 => Begun(k, 2) = Begun(b, 2)
    <3>1. m = 2 => 1 \in 1..n /\ 2 \in 1..n
      BY <1>2
    <3>2. QED
      BY <1>2, <3>1, BegunIs, Zenon DEF Byte1
  <2>3. m = 3 => Begun(k, 3) = Begun(b, 3)
    <3>1. m = 3 => 1 \in 1..n /\ 2 \in 1..n /\ 3 \in 1..n
      BY <1>2
    <3>2. QED
      BY <1>2, <3>1, BegunIs, Zenon DEF Byte1, Byte2
  <2>4. m \in {0, 1} => Begun(k, m) = Begun(b, m)
    BY BegunIs
  <2>5. QED
    BY <2>1, <2>2, <2>3, <2>4
<1>5. n - p \in 0..n /\ n + 1 - (p + 1) = n - p
  BY <1>1, <1>2
<1>6. CASE n < 3
  <2>1. h = [block |-> k, pad |-> p + 1, dst |-> g.dst]
    BY <1>3, <1>6
  <2>2. h.block = k /\ h.pad = p + 1 /\ h.dst = g.dst
    BY <2>1
  <2>3. Len(k) < 4 /\ p + 1 <= Len(k) /\ p + 1 # 0 /\ Len(k) - (p + 1) = n - p
    BY <1>1, <1>2, <1>6
  <2>4. r.dst = h.dst \o Begun(h.block, Len(h.block) - h.pad)
    BY <1>1, <1>4, <1>5, <2>2, <2>3, Zenon
  <2> HIDE DEF h, k, b, n, p
  <2>5. Abreast(r, h)
    BY <1>1, <2>2, <2>3, <2>4, Zenon DEF Abreast
  <2>6. n # 3
    BY <1>6
  <2>7. QED
    BY <1>2, <2>2, <2>5, <2>6, Zenon DEF h, k, b, n, p
<1>7. CASE n = 3
  <2>1. h = [block |-> <<>>, pad |-> p + 1, dst |-> g.dst \o BlockBytes(k, p + 1)]
    BY <1>3, <1>7
  <2>2. h.block = <<>> /\ h.pad = p + 1 /\ h.dst = g.dst \o BlockBytes(k, p + 1)
    <3> HIDE DEF h, k, b, n, p
    <3>1. QED
      BY <2>1
  <2>3. p + 1 <= 2 => p = 0 \/ p = 1
    <3>1. \A m \in Nat : m + 1 <= 2 => m = 0 \/ m = 1
      OBVIOUS
    <3>2. QED
      BY <1>1, <3>1, Zenon
  <2>4. k \in Seq(Sextets) /\ Len(k) >= 4
    BY <1>2, <1>7
  <2>5. BlockBytes(k, 1) = Begun(k, 3) /\ BlockBytes(k, 2) = Begun(k, 2)
    <3> HIDE DEF k
    <3>1. QED
      BY <2>4, TripleIs, Zenon
  <2>6. /\ p = 0 => p + 1 = 1 /\ n - p = 3
        /\ p = 1 => p + 1 = 2 /\ n - p = 2
    BY <1>7
  <2>7. p + 1 <= 2 => BlockBytes(k, p + 1) = Begun(b, n - p)
    BY <1>4, <1>5, <2>3, <2>5, <2>6, Zenon
  <2>8. p + 1 > 0 /\ ~(n < 3)
    BY <1>1, <1>7
  <2> HIDE DEF h, k, b, n, p
  <2>9. Halted(r, h)
    BY <1>1, <2>2, <2>7, <2>8, Zenon DEF Halted
  <2>10. QED
    BY <2>2, <2>8, <2>9, Zenon DEF h, k, b, n, p
<1>8. n < 3 \/ n = 3
  <2> HIDE DEF n
  <2>1. QED
    BY <1>2
<1>9. QED
  BY <1>6, <1>7, <1>8

-----------------------------------------------------------------------------
(* A text from elsewhere.                                                  *)

Padding(t) == \E i \in 1..Len(t) : t[i] = Pad

(* Up to here the two decoders have read the same, or base64_decode has    *)
(* stopped, which only an '=' makes it do.                                 *)
InStep(t) ==
  LET g == Gathered(t) IN
  \/ /\ Abreast(Read(t), g)
     /\ Len(g.block) = Count(t) % 4
     /\ g.pad > 0 => Padding(t)
  \/ Halted(Read(t), g) /\ Padding(t)

LEMMA PaddingGrows ==
  ASSUME NEW t \in Seq(Codes), NEW c \in Codes
  PROVE  Padding(Append(t, c)) <=> Padding(t) \/ c = Pad
<1> DEFINE n == Len(t)
<1>1. n \in Nat /\ Len(Append(t, c)) = n + 1 /\ Append(t, c)[n + 1] = c
      /\ \A i \in 1..n : Append(t, c)[i] = t[i]
  <2> HIDE DEF Codes
  <2>1. QED
    OBVIOUS
<1>2. \A i : i \in 1..(n + 1) <=> i \in 1..n \/ i = n + 1
  BY <1>1
<1> HIDE DEF n
<1>3. Padding(t) <=> \E i \in 1..n : t[i] = Pad
  BY Zenon DEF Padding, n
<1>4. Padding(Append(t, c)) <=> \E i \in 1..(n + 1) : Append(t, c)[i] = Pad
  BY <1>1, Zenon DEF Padding
<1>5. QED
  BY <1>1, <1>2, <1>3, <1>4, Zenon

LEMMA Quarter ==
  ASSUME NEW n \in Nat
  PROVE  /\ n % 4 \in 0..3
         /\ n % 4 < 3 => (n + 1) % 4 = (n % 4) + 1
         /\ n % 4 = 3 => (n + 1) % 4 = 0
BY SMT

LEMMA InStepGrows ==
  ASSUME NEW t \in Seq(Codes), NEW c \in Codes, c <= LF, InStep(t), c < Pad => ~Padding(t)
  PROVE  InStep(Append(t, c))
<1> DEFINE u == Append(t, c)
           r == Read(t)
           g == Gathered(t)
           h == Gathered(u)
           n == Count(t)
<1>1. /\ r \in Readings /\ g \in Gatherings /\ n \in Nat
      /\ Read(u) = Collect(r, c) /\ h = Gather(g, c)
      /\ Count(u) = n + (IF c <= Pad THEN 1 ELSE 0)
      /\ (Padding(u) <=> Padding(t) \/ c = Pad)
  BY ReadGrows, GatheredGrows, CountGrows, PaddingGrows
<1>2. c = LF \/ c = Pad \/ c \in Sextets
  BY DEF Codes, LF, Pad, Sextets
<1>3. /\ n % 4 \in 0..3
      /\ n % 4 < 3 => (n + 1) % 4 = (n % 4) + 1
      /\ n % 4 = 3 => (n + 1) % 4 = 0
  BY <1>1, Quarter
<1>4. \/ Abreast(r, g) /\ Len(g.block) = n % 4 /\ (g.pad > 0 => Padding(t))
      \/ Halted(r, g) /\ Padding(t)
  BY Zenon DEF InStep
<1>5. g.pad \in Nat
  BY <1>1 DEF Gatherings
<1> HIDE DEF u, r, g, h, n
<1>6. SUFFICES \/ Abreast(Read(u), h) /\ Len(h.block) = Count(u) % 4 /\ (h.pad > 0 => Padding(u))
               \/ Halted(Read(u), h) /\ Padding(u)
  BY Zenon DEF InStep, u, h
<1>7. CASE c = LF
  <2>1. Read(u) = r /\ h = g
    BY <1>1, <1>7, Skipped, Zenon
  <2>2. Count(u) = n /\ (Padding(u) <=> Padding(t))
    BY <1>1, <1>7 DEF LF, Pad
  <2>3. QED
    BY <1>4, <2>1, <2>2, Zenon
<1>8. CASE c = Pad
  <2>1. Read(u) = r /\ Padding(u)
    BY <1>1, <1>8, Skipped, Zenon
  <2>2. Count(u) = n + 1
    BY <1>1, <1>8 DEF Pad
  <2>3. CASE Halted(r, g)
    <3>1. h = g
      BY <1>1, <2>3, Skipped, Zenon DEF Halted
    <3>2. QED
      BY <2>1, <2>3, <3>1, Zenon
  <2>4. CASE Abreast(r, g) /\ Len(g.block) = n % 4
    <3>1. /\ Len(g.block) < 3 => Abreast(r, h) /\ Len(h.block) = Len(g.block) + 1
          /\ Len(g.block) = 3 => Halted(r, h)
      BY <1>1, <1>8, <2>4, AbreastPad, Zenon
    <3>2. Len(g.block) < 3 \/ Len(g.block) = 3
      BY <1>3, <2>4
    <3>3. Len(g.block) < 3 => Len(h.block) = Count(u) % 4
      BY <1>3, <2>2, <2>4, <3>1
    <3>4. QED
      BY <2>1, <3>1, <3>2, <3>3, Zenon
  <2>5. QED
    BY <1>4, <2>3, <2>4, Zenon
<1>9. CASE c \in Sextets
  <2>1. c < Pad /\ c <= Pad /\ c # Pad
    BY <1>9 DEF Sextets, Pad
  <2>2. ~Padding(t) /\ ~Padding(u)
    BY <1>1, <2>1, Zenon
  <2>3. Abreast(r, g) /\ Len(g.block) = n % 4 /\ g.pad = 0
    BY <1>4, <1>5, <2>2
  <2>4. /\ Abreast(Read(u), h) /\ h.pad = 0
        /\ Len(g.block) < 3 => h.block = Append(g.block, c)
        /\ Len(g.block) = 3 => h.block = <<>>
    BY <1>1, <1>9, <2>3, AbreastSextet, Zenon
  <2>5. Len(Append(g.block, c)) = Len(g.block) + 1 /\ Len(<<>>) = 0
    <3> DEFINE b == g.block
    <3>1. b \in Seq(Sextets)
      BY <1>1 DEF Gatherings
    <3> HIDE DEF b, Sextets
    <3>2. Len(Append(b, c)) = Len(b) + 1
      BY <1>9, <3>1
    <3>3. QED
      BY <3>2 DEF b
  <2>6. Count(u) = n + 1
    BY <1>1, <2>1, Zenon
  <2>7. Len(h.block) = Count(u) % 4
    <3>1. Len(g.block) < 3 \/ Len(g.block) = 3
      BY <1>3, <2>3
    <3>2. CASE Len(g.block) < 3
      <4>1. Len(h.block) = Len(g.block) + 1
        BY <2>4, <2>5, <3>2, Zenon
      <4>2. QED
        BY <1>3, <2>3, <2>6, <3>2, <4>1, Zenon
    <3>3. CASE Len(g.block) = 3
      BY <1>3, <2>3, <2>4, <2>5, <2>6, <3>3, Zenon
    <3>4. QED
      BY <3>1, <3>2, <3>3
  <2>8. ~(h.pad > 0)
    BY <2>4
  <2>9. QED
    BY <2>4, <2>7, <2>8, Zenon
<1>10. QED
  BY <1>2, <1>7, <1>8, <1>9

LEMMA InStepNothing == InStep(<<>>)
<1>1. Read(<<>>) = ReadNone /\ Gathered(<<>>) = NoBlock
  BY ReadNothing, GatheredNothing
<1>2. <<>> \in Seq(Codes)
  <2> HIDE DEF Codes
  <2>1. QED
    OBVIOUS
<1>3. Count(<<>>) % 4 = 0
  <2>1. LF \in Codes
    BY DEF LF, Codes
  <2>2. Count(<<>>) = 0
    BY <1>2, <2>1, CountGrows
  <2>3. QED
    BY <2>2, SMT
<1>4. /\ ReadNone.rc = 0 /\ ReadNone.bits = 0 /\ ReadNone.dst = <<>>
      /\ NoBlock.block = <<>> /\ NoBlock.pad = 0 /\ NoBlock.dst = <<>>
  BY DEF ReadNone, NoBlock
<1>5. Len(<<>>) = 0 /\ 0 < 4 /\ 0 <= 0 /\ 0 - 0 = 0 /\ ~(0 > 0) /\ <<>> \o <<>> = <<>>
      /\ Pending(0) = 0
  BY DEF Pending
<1>6. Begun(<<>>, 0) = <<>>
  BY BegunIs, Zenon
<1>7. Abreast(ReadNone, NoBlock)
  BY <1>4, <1>5, <1>6, Zenon DEF Abreast
<1>8. QED
  BY <1>1, <1>3, <1>4, <1>5, <1>7, Zenon DEF InStep

Cut(t, k) == SubSeq(t, 1, k)

(* A text is its longest proper prefix and a last character.               *)
LEMMA CutGrows ==
  ASSUME NEW t \in Seq(Codes)
  PROVE  /\ Cut(t, 0) = <<>> /\ Cut(t, Len(t)) = t
         /\ \A k \in 1..Len(t) :
              /\ t[k] \in Codes /\ Cut(t, k - 1) \in Seq(Codes)
              /\ Cut(t, k) = Append(Cut(t, k - 1), t[k])
              /\ Len(Cut(t, k - 1)) = k - 1
              /\ \A i \in 1..(k - 1) : Cut(t, k - 1)[i] = t[i]
<1> HIDE DEF Codes
<1> USE DEF Cut
<1>1. Cut(t, 0) = <<>> /\ Cut(t, Len(t)) = t
  OBVIOUS
<1>2. ASSUME NEW k \in 1..Len(t)
      PROVE  /\ t[k] \in Codes /\ Cut(t, k - 1) \in Seq(Codes)
             /\ Len(Cut(t, k - 1)) = k - 1
             /\ \A i \in 1..(k - 1) : Cut(t, k - 1)[i] = t[i]
  OBVIOUS
<1>3. ASSUME NEW k \in 1..Len(t)
      PROVE  Cut(t, k) = Append(Cut(t, k - 1), t[k])
  OBVIOUS
<1>4. QED
  BY <1>1, <1>2, <1>3, Zenon

(* '=' only at the end.                                                    *)
Ended(t) == \A i, j \in 1..Len(t) : i < j /\ t[i] = Pad => t[j] >= Pad

LEMMA InStepAll ==
  ASSUME NEW t \in Seq(Codes), Ended(t), \A i \in 1..Len(t) : t[i] <= LF
  PROVE  InStep(t)
<1> DEFINE n == Len(t)
           bad == {k \in 0..n : ~InStep(Cut(t, k))}
<1>1. n \in Nat
  BY LenProperties
<1>2. Cut(t, 0) = <<>> /\ Cut(t, n) = t
  BY CutGrows
<1>3. SUFFICES bad = {}
  <2>1. n \in 0..n
    BY <1>1
  <2> HIDE DEF n
  <2>2. bad = {} => InStep(Cut(t, n))
    BY <2>1
  <2>3. QED
    BY <1>2, <2>2
<1>4. SUFFICES ASSUME bad # {} PROVE FALSE
  OBVIOUS
<1>5. PICK k \in bad : \A j \in bad : k <= j
  <2>1. bad \in SUBSET Nat
    BY <1>1
  <2>2. QED
    BY <1>4, <2>1, Least, Zenon
<1>6. k # 0
  <2>1. InStep(Cut(t, 0))
    BY <1>2, InStepNothing
  <2>2. QED
    BY <2>1
<1>7. k \in 1..n /\ k - 1 \in 0..n /\ k - 1 \notin bad
  BY <1>1, <1>5, <1>6
<1>8. /\ t[k] \in Codes /\ Cut(t, k - 1) \in Seq(Codes)
      /\ Cut(t, k) = Append(Cut(t, k - 1), t[k])
      /\ Len(Cut(t, k - 1)) = k - 1 /\ \A i \in 1..(k - 1) : Cut(t, k - 1)[i] = t[i]
  BY <1>7, CutGrows
<1>9. InStep(Cut(t, k - 1)) /\ t[k] <= LF
  BY <1>7
<1>10. t[k] < Pad => ~Padding(Cut(t, k - 1))
  <2> SUFFICES ASSUME t[k] < Pad, Padding(Cut(t, k - 1)) PROVE FALSE
    OBVIOUS
  <2>1. PICK i \in 1..(k - 1) : t[i] = Pad
    BY <1>8, Zenon DEF Padding
  <2>2. i \in 1..n /\ i < k
    BY <1>7
  <2>3. t[k] >= Pad
    BY <1>7, <2>1, <2>2 DEF Ended
  <2>4. \A c \in Codes : c >= Pad => ~(c < Pad)
    BY DEF Codes, Pad
  <2>5. QED
    BY <1>8, <2>3, <2>4, Zenon
<1>11. InStep(Cut(t, k))
  <2>1. InStep(Append(Cut(t, k - 1), t[k]))
    BY <1>8, <1>9, <1>10, InStepGrows
  <2>2. QED
    BY <1>8, <2>1
<1>12. QED
  BY <1>11

(* base64_decode in terms of its second loop.                              *)
LEMMA DecodeIs ==
  ASSUME NEW t, NEW room
  PROVE  /\ Decode(t, room).rc = 0 =>
              /\ Decode(t, room) = [rc |-> 0, dst |-> Gathered(t).dst]
              /\ Count(t) # 0 /\ Count(t) % 4 = 0 /\ ~(Gathered(t).pad > 2)
         /\ (/\ Count(t) # 0 /\ Count(t) % 4 = 0 /\ ~(Gathered(t).pad > 2)
             /\ ~(3 * (Count(t) \div 4) > room)) =>
              Decode(t, room) = [rc |-> 0, dst |-> Gathered(t).dst]
         /\ (Count(t) = 0 \/ 3 * (Count(t) \div 4) > room) => Decode(t, room).rc # 0
<1> DEFINE n == Count(t)
           g == Gathered(t)
           no == n = 0 \/ n % 4 # 0 \/ 3 * (n \div 4) > room \/ g.pad > 2
<1>1. Decode(t, room) = IF no THEN [rc |-> -1, dst |-> <<>>] ELSE [rc |-> 0, dst |-> g.dst]
  BY Zenon DEF Decode, Count, Gathered, NoBlock
<1> HIDE DEF g, n
<1>2. no => Decode(t, room).rc # 0
  BY <1>1
<1>3. ~no => Decode(t, room) = [rc |-> 0, dst |-> g.dst]
  BY <1>1
<1>4. QED
  BY <1>2, <1>3, Zenon DEF g, n

LEMMA NothingToDecode == Count(<<>>) = 0
<1>1. <<>> \in Seq(Codes)
  <2> HIDE DEF Codes
  <2>1. QED
    OBVIOUS
<1>2. LF \in Codes
  BY DEF LF, Codes
<1>3. QED
  BY <1>1, <1>2, CountGrows

LEMMA ReadIs ==
  ASSUME NEW t, t # <<>>
  PROVE  DecodeEx(t) = Read(t)
BY Zenon DEF DecodeEx, Read, ReadNone

LEMMA BothRead ==
  ASSUME NEW t \in Seq(Codes), NEW room, Decode(t, room).rc = 0, Ended(t),
         \A c \in ToSet(t) : c <= LF
  PROVE  DecodeEx(t).rc = 0 /\ DecodeEx(t).dst = Decode(t, room).dst
<1> DEFINE r == Read(t)
           g == Gathered(t)
<1>1. /\ Decode(t, room).dst = g.dst
      /\ Count(t) # 0 /\ Count(t) % 4 = 0 /\ ~(g.pad > 2)
  <2>1. /\ Decode(t, room) = [rc |-> 0, dst |-> g.dst]
        /\ Count(t) # 0 /\ Count(t) % 4 = 0 /\ ~(g.pad > 2)
    BY DecodeIs, Zenon
  <2> HIDE DEF g
  <2>2. QED
    BY <2>1
<1>2. DecodeEx(t) = r
  BY <1>1, NothingToDecode, ReadIs, Zenon
<1>3. \A i \in 1..Len(t) : t[i] <= LF
  BY DEF ToSet
<1>4. InStep(t)
  BY <1>3, InStepAll
<1>5. g \in Gatherings
  <2>1. LF \in Codes
    BY DEF LF, Codes
  <2>2. QED
    BY <2>1, GatheredGrows
<1>6. g.block \in Seq(Sextets) /\ g.dst \in Seq(Octets) /\ g.pad \in Nat
  BY <1>5 DEF Gatherings
<1> HIDE DEF r, g
<1>7. CASE Halted(r, g)
  <2>1. g.pad <= 2
    BY <1>1, <1>6
  <2>2. QED
    BY <1>1, <1>2, <1>7, <2>1, Zenon DEF Halted
<1>8. CASE Abreast(r, g) /\ Len(g.block) = Count(t) % 4
  <2>1. Len(g.block) = 0 /\ g.pad <= 0
    BY <1>1, <1>8, Zenon DEF Abreast
  <2>2. Len(g.block) - g.pad = 0
    BY <1>6, <2>1
  <2>3. r.rc = 0 /\ r.dst = g.dst \o <<>>
    BY <1>8, <2>2, BegunIs, Zenon DEF Abreast
  <2> DEFINE d == g.dst
  <2>4. d \in Seq(Octets)
    BY <1>6
  <2> HIDE DEF d, Octets
  <2>5. d \o <<>> = d
    BY <2>4
  <2>6. QED
    BY <1>1, <1>2, <2>3, <2>5, Zenon DEF d
<1>9. QED
  BY <1>4, <1>7, <1>8, Zenon DEF InStep, r, g

ForeignInv == stage = "foreign" => out \in Seq(Codes)

LEMMA ForeignInit == CodecInit => ForeignInv
<1>1. Foreign \subseteq Seq(Codes)
  BY Base64Assumption DEF Codes
<1>2. QED
  BY <1>1 DEF CodecInit, ForeignInv

LEMMA ForeignStep == ForeignInv /\ [CodecNext]_codecVars => ForeignInv'
BY DEF ForeignInv, CodecNext, Call, EncodeBlock, EncodeTail, codecVars

LEMMA ForeignAgrees == ForeignInv => DecodersAgree
<1> SUFFICES ASSUME ForeignInv, stage = "foreign", Decode(out, cap).rc = 0, Ended(out),
                    \A c \in ToSet(out) : c <= LF
             PROVE  DecodeEx(out).rc = 0 /\ DecodeEx(out).dst = Decode(out, cap).dst
  BY Zenon DEF DecodersAgree, Ended
<1>1. QED
  BY BothRead, Zenon DEF ForeignInv

(* Whatever text base64_decode takes, base64_decode_ex reads as the same   *)
(* bytes, if it is of the alphabet that both know and pads at its end.     *)
THEOREM ReadAlike == CodecSpec => []DecodersAgree
<1>1. CodecSpec => []ForeignInv
  BY ForeignInit, ForeignStep, PTL DEF CodecSpec
<1>2. QED
  BY <1>1, ForeignAgrees, PTL

-----------------------------------------------------------------------------
(* What base64_encode has written, as the decoders read it.                *)

(* Both have made u of t, and b of the block that has begun.               *)
InBlock(t, u, b) ==
  /\ t \in Seq(Codes) /\ u \in Seq(Octets) /\ b \in Seq(Sextets)
  /\ Abreast(Read(t), Gathered(t))
  /\ Gathered(t) = [block |-> b, pad |-> 0, dst |-> u]

LEMMA InBlockNothing == InBlock(<<>>, <<>>, <<>>)
<1>1. <<>> \in Seq(Codes) /\ <<>> \in Seq(Octets) /\ <<>> \in Seq(Sextets)
  <2> HIDE DEF Codes, Octets, Sextets
  <2>1. QED
    OBVIOUS
<1>2. Gathered(<<>>) = [block |-> <<>>, pad |-> 0, dst |-> <<>>]
  BY GatheredNothing DEF NoBlock
<1>3. Abreast(Read(<<>>), Gathered(<<>>))
  <2>1. ~(0 > 0)
    OBVIOUS
  <2>2. ~Halted(Read(<<>>), Gathered(<<>>))
    <3>1. Gathered(<<>>).pad = 0
      BY <1>2
    <3>2. QED
      BY <2>1, <3>1, Zenon DEF Halted
  <2>3. QED
    BY <2>2, InStepNothing, Zenon DEF InStep
<1>4. QED
  BY <1>1, <1>2, <1>3, Zenon DEF InBlock

LEMMA CharsOf ==
  ASSUME NEW t \in Seq(Codes), NEW c \in Codes
  PROVE  Append(t, c) \in Seq(Codes)
<1> HIDE DEF Codes
<1>1. QED
  OBVIOUS

LEMMA Characters ==
  /\ \A c \in Sextets : c \in Codes /\ c < Pad /\ c <= Pad
  /\ Pad \in Codes /\ Pad <= Pad /\ ~(Pad < Pad)
  /\ LF \in Codes /\ ~(LF <= Pad) /\ ~(LF < Pad)
BY DEF Sextets, Codes, Pad, LF

LEMMA InBlockGrows ==
  ASSUME NEW t, NEW u, NEW b, InBlock(t, u, b), NEW c \in Sextets
  PROVE  /\ Len(b) < 3 => InBlock(Append(t, c), u, Append(b, c))
         /\ Len(b) = 3 => InBlock(Append(t, c), u \o BlockBytes(Append(b, c), 0), <<>>)
<1> DEFINE s == Append(t, c)
           g == Gathered(t)
           h == Gathered(s)
           k == Append(b, c)
<1>1. /\ t \in Seq(Codes) /\ u \in Seq(Octets) /\ b \in Seq(Sextets)
      /\ Abreast(Read(t), g) /\ g = [block |-> b, pad |-> 0, dst |-> u]
  BY Zenon DEF InBlock
<1>2. g.block = b /\ g.pad = 0 /\ g.dst = u
  BY <1>1
<1>3. c \in Codes /\ s \in Seq(Codes)
  BY <1>1, Characters, CharsOf
<1>4. /\ Read(t) \in Readings /\ g \in Gatherings
      /\ Read(s) = Collect(Read(t), c) /\ h = Gather(g, c)
  BY <1>1, <1>3, ReadGrows, GatheredGrows
<1>5. h \in Gatherings
  BY <1>3, GatheredGrows
<1> HIDE DEF g, h, s
<1>6. /\ Abreast(Read(s), h) /\ h.pad = 0
      /\ Len(b) < 3 => h.block = k /\ h.dst = u
      /\ Len(b) = 3 => h.block = <<>> /\ h.dst = u \o BlockBytes(k, 0)
  BY <1>1, <1>2, <1>4, AbreastSextet
<1> HIDE DEF k
<1>7. h = [block |-> h.block, pad |-> h.pad, dst |-> h.dst]
      /\ h.block \in Seq(Sextets) /\ h.dst \in Seq(Octets)
  BY <1>5 DEF Gatherings
<1>8. ASSUME Len(b) < 3 PROVE InBlock(s, u, k)
  <2>1. h = [block |-> k, pad |-> 0, dst |-> u] /\ k \in Seq(Sextets)
    BY <1>6, <1>7, <1>8
  <2>2. QED
    BY <1>1, <1>3, <1>6, <2>1, Zenon DEF InBlock, h
<1>9. ASSUME Len(b) = 3 PROVE InBlock(s, u \o BlockBytes(k, 0), <<>>)
  <2>1. /\ h = [block |-> <<>>, pad |-> 0, dst |-> u \o BlockBytes(k, 0)]
        /\ u \o BlockBytes(k, 0) \in Seq(Octets) /\ <<>> \in Seq(Sextets)
    BY <1>6, <1>7, <1>9, Zenon
  <2>2. QED
    BY <1>3, <1>6, <2>1, Zenon DEF InBlock, h
<1>10. QED
  BY <1>8, <1>9, Zenon DEF s, k

LEMMA InBlockLine ==
  ASSUME NEW t, NEW u, NEW b, InBlock(t, u, b)
  PROVE  InBlock(Append(t, LF), u, b)
<1>1. t \in Seq(Codes) /\ LF \in Codes
  BY Characters, Zenon DEF InBlock
<1>2. Append(t, LF) \in Seq(Codes)
  BY <1>1, CharsOf
<1>3. Read(Append(t, LF)) = Read(t) /\ Gathered(Append(t, LF)) = Gathered(t)
  <2>1. /\ Read(Append(t, LF)) = Collect(Read(t), LF)
        /\ Gathered(Append(t, LF)) = Gather(Gathered(t), LF)
    BY <1>1, ReadGrows, GatheredGrows
  <2>2. QED
    BY <2>1, Skipped, Zenon
<1>4. QED
  BY <1>2, <1>3, Zenon DEF InBlock

(* The characters that a sextet, an '=' and a newline add.                 *)
LEMMA Adds ==
  ASSUME NEW t \in Seq(Codes)
  PROVE  /\ Count(t) \in Nat /\ Bare(t) \in Seq(Codes)
         /\ \A c \in Sextets : /\ Count(Append(t, c)) = Count(t) + 1
                               /\ Bare(Append(t, c)) = Append(Bare(t), c)
         /\ Count(Append(t, Pad)) = Count(t) + 1 /\ Bare(Append(t, Pad)) = Bare(t)
         /\ Count(Append(t, LF)) = Count(t) /\ Bare(Append(t, LF)) = Bare(t)
<1>1. \A c \in Codes : /\ Count(Append(t, c)) = Count(t) + (IF c <= Pad THEN 1 ELSE 0)
                       /\ Bare(Append(t, c)) = Keep(Bare(t), c)
                       /\ Count(t) \in Nat /\ Bare(t) \in Seq(Codes)
  BY CountGrows, BareGrows
<1>2. Count(t) \in Nat /\ Bare(t) \in Seq(Codes)
  BY <1>1, Characters, Zenon
<1>3. \A c \in Codes : /\ c < Pad => Bare(Append(t, c)) = Append(Bare(t), c)
                       /\ ~(c < Pad) => Bare(Append(t, c)) = Bare(t)
                       /\ c <= Pad => Count(Append(t, c)) = Count(t) + 1
                       /\ ~(c <= Pad) => Count(Append(t, c)) = Count(t)
  <2>1. \A c \in Codes : /\ c < Pad => Keep(Bare(t), c) = Append(Bare(t), c)
                         /\ ~(c < Pad) => Keep(Bare(t), c) = Bare(t)
    BY Zenon DEF Keep
  <2>2. ASSUME NEW c \in Codes
        PROVE  /\ c <= Pad => Count(Append(t, c)) = Count(t) + 1
               /\ ~(c <= Pad) => Count(Append(t, c)) = Count(t)
    BY <1>1, <1>2
  <2>3. \A c \in Codes : Bare(Append(t, c)) = Keep(Bare(t), c)
    BY <1>1
  <2>4. QED
    BY <2>1, <2>2, <2>3, Zenon
<1>4. ASSUME NEW c \in Sextets
      PROVE  Count(Append(t, c)) = Count(t) + 1 /\ Bare(Append(t, c)) = Append(Bare(t), c)
  BY <1>3, Characters, Zenon
<1>5. Count(Append(t, Pad)) = Count(t) + 1 /\ Bare(Append(t, Pad)) = Bare(t)
  BY <1>3, Characters, Zenon
<1>6. Count(Append(t, LF)) = Count(t) /\ Bare(Append(t, LF)) = Bare(t)
  BY <1>3, Characters, Zenon
<1>7. QED
  BY <1>2, <1>4, <1>5, <1>6, Zenon

Six1(x) == x \div 4
Six2(x, y) == (x % 4) * 16 + y \div 16
Six3(y, z) == (y % 16) * 4 + z \div 64
Six4(z) == z % 64

(* The bytes of the characters of three bytes are the bytes.               *)
LEMMA QuadBack ==
  ASSUME NEW x \in Octets, NEW y \in Octets, NEW z \in Octets
  PROVE  /\ Six1(x) \in Sextets /\ Six2(x, y) \in Sextets
         /\ Six3(y, z) \in Sextets /\ Six4(z) \in Sextets
         /\ Mix1(Six1(x), Six2(x, y)) = x
         /\ Mix2(Six2(x, y), Six3(y, z)) = y
         /\ Mix3(Six3(y, z), Six4(z)) = z
<1>1. x \in 0..255 /\ y \in 0..255 /\ z \in 0..255
  BY DEF Octets
<1>2. Six1(x) \in Sextets /\ Six2(x, y) \in Sextets
  BY <1>1, SMT DEF Sextets, Six1, Six2
<1>3. Six3(y, z) \in Sextets /\ Six4(z) \in Sextets
  BY <1>1, SMT DEF Sextets, Six3, Six4
<1>4. Mix1(Six1(x), Six2(x, y)) = x
  BY <1>1, SMT DEF Mix1, Six1, Six2
<1>5. Mix2(Six2(x, y), Six3(y, z)) = y
  BY <1>1, SMT DEF Mix2, Six2, Six3
<1>6. Mix3(Six3(y, z), Six4(z)) = z
  BY <1>1, SMT DEF Mix3, Six3, Six4
<1>7. QED
  BY <1>2, <1>3, <1>4, <1>5, <1>6

With4(t, a, b, c, d) == Append(Append(Append(Append(t, a), b), c), d)

LEMMA Blocks4 ==
  ASSUME NEW a \in Sextets, NEW b \in Sextets, NEW c \in Sextets, NEW d \in Sextets
  PROVE  /\ Append(<<>>, a) = <<a>> /\ Append(<<a>>, b) = <<a, b>>
         /\ Append(<<a, b>>, c) = <<a, b, c>>
         /\ Len(<<>>) = 0 /\ Len(<<a>>) = 1 /\ Len(<<a, b>>) = 2 /\ Len(<<a, b, c>>) = 3
         /\ <<a, b, c, d>> \in Seq(Sextets) /\ Len(<<a, b, c, d>>) = 4
<1> HIDE DEF Sextets
<1>1. /\ Len(<<>>) = 0 /\ Len(<<a>>) = 1 /\ Len(<<a, b>>) = 2 /\ Len(<<a, b, c>>) = 3
      /\ Len(<<a, b, c, d>>) = 4
  OBVIOUS
<1>2. /\ <<>> \in Seq(Sextets) /\ <<a>> \in Seq(Sextets) /\ <<a, b>> \in Seq(Sextets)
      /\ <<a, b, c>> \in Seq(Sextets) /\ <<a, b, c, d>> \in Seq(Sextets)
  OBVIOUS
<1>3. Append(<<>>, a) = <<a>>
  OBVIOUS
<1>4. Append(<<a>>, b) = <<a, b>>
  <2> DEFINE q == Append(<<a>>, b)
  <2>1. q \in Seq(Sextets) /\ Len(q) = 2 /\ q[1] = a /\ q[2] = b
    BY <1>1, <1>2, AppendProperties
  <2> HIDE DEF q
  <2>2. q = <<a, b>>
    BY <2>1
  <2>3. QED
    BY <2>2 DEF q
<1>5. Append(<<a, b>>, c) = <<a, b, c>>
  <2> DEFINE q == Append(<<a, b>>, c)
  <2>1. q \in Seq(Sextets) /\ Len(q) = 3 /\ q[1] = a /\ q[2] = b /\ q[3] = c
    BY <1>1, <1>2, AppendProperties
  <2> HIDE DEF q
  <2>2. q = <<a, b, c>>
    BY <2>1
  <2>3. QED
    BY <2>2 DEF q
<1>6. QED
  BY <1>1, <1>2, <1>3, <1>4, <1>5

LEMMA LastOfBlock ==
  ASSUME NEW a \in Sextets, NEW b \in Sextets, NEW c \in Sextets, NEW d \in Sextets
  PROVE  Append(<<a, b, c>>, d) = <<a, b, c, d>>
<1> DEFINE k == <<a, b, c>>
           q == Append(k, d)
<1> HIDE DEF Sextets
<1>1. k \in Seq(Sextets) /\ Len(k) = 3 /\ k[1] = a /\ k[2] = b /\ k[3] = c
  OBVIOUS
<1> HIDE DEF k
<1>2. q \in Seq(Sextets) /\ Len(q) = 4 /\ q[4] = d /\ \A i \in 1..3 : q[i] = k[i]
  <2>1. /\ q \in Seq(Sextets) /\ Len(q) = Len(k) + 1
        /\ \A i \in 1..Len(k) : q[i] = k[i]
        /\ q[Len(k) + 1] = d
    <3>1. k \in Seq(Sextets)
      BY <1>1
    <3>2. q \in Seq(Sextets) /\ Len(q) = Len(k) + 1
      BY <3>1
    <3>3. \A i \in 1..Len(k) : q[i] = k[i]
      BY <3>1
    <3>4. q[Len(k) + 1] = d
      BY <3>1
    <3>5. QED
      BY <3>2, <3>3, <3>4
  <2>2. 3 + 1 = 4
    OBVIOUS
  <2>3. QED
    BY <1>1, <2>1, <2>2, Zenon
<1>3. 1 \in 1..3 /\ 2 \in 1..3 /\ 3 \in 1..3
  OBVIOUS
<1>4. q[1] = a /\ q[2] = b /\ q[3] = c
  BY <1>1, <1>2, <1>3, Zenon
<1> HIDE DEF q
<1>5. q = <<a, b, c, d>>
  BY <1>2, <1>4
<1>6. QED
  BY <1>5 DEF q, k

LEMMA BlockGrows ==
  ASSUME NEW t, NEW u, InBlock(t, u, <<>>),
         NEW a \in Sextets, NEW b \in Sextets, NEW c \in Sextets, NEW d \in Sextets
  PROVE  /\ InBlock(Append(Append(t, a), b), u, <<a, b>>)
         /\ InBlock(Append(Append(Append(t, a), b), c), u, <<a, b, c>>)
         /\ InBlock(With4(t, a, b, c, d), u \o <<Mix1(a, b), Mix2(b, c), Mix3(c, d)>>, <<>>)
<1>1. 0 < 3 /\ 1 < 3 /\ 2 < 3
  OBVIOUS
<1>2. InBlock(Append(t, a), u, <<a>>)
  <2>1. InBlock(Append(t, a), u, Append(<<>>, a))
    BY <1>1, Blocks4, InBlockGrows
  <2>2. QED
    BY <2>1, Blocks4
<1>3. InBlock(Append(Append(t, a), b), u, <<a, b>>)
  <2>1. InBlock(Append(Append(t, a), b), u, Append(<<a>>, b))
    BY <1>1, <1>2, Blocks4, InBlockGrows
  <2>2. QED
    BY <2>1, Blocks4
<1>4. InBlock(Append(Append(Append(t, a), b), c), u, <<a, b, c>>)
  <2>1. InBlock(Append(Append(Append(t, a), b), c), u, Append(<<a, b>>, c))
    BY <1>1, <1>3, Blocks4, InBlockGrows
  <2>2. QED
    BY <2>1, Blocks4
<1>5. InBlock(With4(t, a, b, c, d), u \o BlockBytes(<<a, b, c, d>>, 0), <<>>)
  <2>1. InBlock(With4(t, a, b, c, d), u \o BlockBytes(Append(<<a, b, c>>, d), 0), <<>>)
    <3>1. Len(<<a, b, c>>) = 3
      BY Blocks4
    <3> DEFINE k == <<a, b, c>>
               s == Append(Append(Append(t, a), b), c)
    <3>2. Len(k) = 3 /\ InBlock(s, u, k)
      BY <1>4, <3>1
    <3> HIDE DEF k, s
    <3>3. InBlock(Append(s, d), u \o BlockBytes(Append(k, d), 0), <<>>)
      BY <3>2, InBlockGrows
    <3>4. QED
      BY <3>3, Zenon DEF With4, k, s
  <2>2. Append(<<a, b, c>>, d) = <<a, b, c, d>>
    BY LastOfBlock
  <2>3. QED
    BY <2>1, <2>2, Zenon
<1>6. BlockBytes(<<a, b, c, d>>, 0) = <<Mix1(a, b), Mix2(b, c), Mix3(c, d)>>
  <2> DEFINE k == <<a, b, c, d>>
  <2>1. k[1] = a /\ k[2] = b /\ k[3] = c /\ k[4] = d
    OBVIOUS
  <2>2. k \in Seq(Sextets) /\ Len(k) >= 4
    <3>1. k \in Seq(Sextets) /\ Len(k) = 4
      BY Blocks4
    <3>2. 4 >= 4
      OBVIOUS
    <3>3. QED
      BY <3>1, <3>2, Zenon
  <2> HIDE DEF k
  <2>3. BlockBytes(k, 0) = <<Byte1(k), Byte2(k), Byte3(k)>>
    BY <2>2, TripleIs, Zenon
  <2>4. QED
    BY <2>1, <2>3, Zenon DEF Byte1, Byte2, Byte3, k
<1>7. QED
  BY <1>3, <1>4, <1>5, <1>6, Zenon

LEMMA PairAdds ==
  ASSUME NEW t \in Seq(Codes), NEW a \in Sextets, NEW b \in Sextets
  PROVE  /\ Append(Append(t, a), b) \in Seq(Codes)
         /\ Count(Append(Append(t, a), b)) = Count(t) + 2
         /\ Bare(Append(Append(t, a), b)) = Append(Append(Bare(t), a), b)
<1> DEFINE t1 == Append(t, a)
           t2 == Append(t1, b)
<1>1. a \in Codes /\ b \in Codes
  BY Characters, Zenon
<1>2. t1 \in Seq(Codes)
  BY <1>1, CharsOf
<1>3. Count(t) \in Nat /\ Count(t1) = Count(t) + 1 /\ Bare(t1) = Append(Bare(t), a)
  BY Adds
<1> HIDE DEF t1
<1>4. t2 \in Seq(Codes)
  BY <1>1, <1>2, CharsOf
<1>5. Count(t2) = Count(t1) + 1 /\ Bare(t2) = Append(Bare(t1), b)
  BY <1>2, Adds
<1>6. Append(Append(t, a), b) = t2
  BY DEF t1
<1> HIDE DEF t2
<1>7. Count(t2) = Count(t) + 2
  BY <1>3, <1>5
<1>8. QED
  BY <1>3, <1>4, <1>5, <1>6, <1>7, Zenon

LEMMA With4Adds ==
  ASSUME NEW t \in Seq(Codes), NEW a \in Sextets, NEW b \in Sextets,
         NEW c \in Sextets, NEW d \in Sextets
  PROVE  /\ With4(t, a, b, c, d) \in Seq(Codes)
         /\ Count(With4(t, a, b, c, d)) = Count(t) + 4
         /\ Count(t) \in Nat
         /\ Bare(With4(t, a, b, c, d)) = With4(Bare(t), a, b, c, d)
<1> DEFINE t2 == Append(Append(t, a), b)
           t4 == Append(Append(t2, c), d)
<1>1. /\ t2 \in Seq(Codes) /\ Count(t2) = Count(t) + 2
      /\ Bare(t2) = Append(Append(Bare(t), a), b)
  BY PairAdds
<1> HIDE DEF t2
<1>2. /\ t4 \in Seq(Codes) /\ Count(t4) = Count(t2) + 2
      /\ Bare(t4) = Append(Append(Bare(t2), c), d)
  BY <1>1, PairAdds
<1>3. With4(t, a, b, c, d) = t4
  BY Zenon DEF With4, t2
<1> HIDE DEF t4
<1>4. Count(t) \in Nat
  BY Adds
<1>5. Count(t4) = Count(t) + 4
  BY <1>1, <1>2, <1>4
<1>6. QED
  BY <1>1, <1>2, <1>3, <1>4, <1>5, Zenon DEF With4

LEMMA TwoAdd ==
  ASSUME NEW t \in Seq(Codes), NEW a \in Sextets, NEW b \in Sextets, NEW s,
         s = With4(t, a, b, Pad, Pad)
  PROVE  s \in Seq(Codes) /\ Count(s) = Count(t) + 4 /\ Bare(s) = Append(Append(Bare(t), a), b)
<1> DEFINE t2 == Append(Append(t, a), b)
           t3 == Append(t2, Pad)
           t4 == Append(t3, Pad)
<1>1. /\ t2 \in Seq(Codes) /\ Count(t2) = Count(t) + 2
      /\ Bare(t2) = Append(Append(Bare(t), a), b)
  BY PairAdds
<1>2. Pad \in Codes /\ Count(t) \in Nat
  BY Characters, Adds
<1>3. s = t4
  BY Zenon DEF With4
<1> HIDE DEF t2
<1>4. t3 \in Seq(Codes)
  BY <1>1, <1>2, CharsOf
<1>5. Count(t3) = Count(t2) + 1 /\ Bare(t3) = Bare(t2)
  BY <1>1, Adds
<1> HIDE DEF t3
<1>6. t4 \in Seq(Codes)
  BY <1>2, <1>4, CharsOf
<1>7. Count(t4) = Count(t3) + 1 /\ Bare(t4) = Bare(t3)
  BY <1>4, Adds
<1> HIDE DEF t4
<1>8. Count(t4) = Count(t) + 4
  BY <1>1, <1>2, <1>5, <1>7
<1>9. QED
  BY <1>1, <1>3, <1>5, <1>6, <1>7, <1>8, Zenon

LEMMA ThreeAdd ==
  ASSUME NEW t \in Seq(Codes), NEW a \in Sextets, NEW b \in Sextets, NEW c \in Sextets
  PROVE  /\ With4(t, a, b, c, Pad) \in Seq(Codes)
         /\ Count(With4(t, a, b, c, Pad)) = Count(t) + 4
         /\ Bare(With4(t, a, b, c, Pad)) = Append(Append(Append(Bare(t), a), b), c)
<1> DEFINE t2 == Append(Append(t, a), b)
           t3 == Append(t2, c)
           t4 == Append(t3, Pad)
<1>1. /\ t2 \in Seq(Codes) /\ Count(t2) = Count(t) + 2
      /\ Bare(t2) = Append(Append(Bare(t), a), b)
  BY PairAdds
<1>2. Pad \in Codes /\ c \in Codes /\ Count(t) \in Nat
  BY Characters, Adds
<1>3. With4(t, a, b, c, Pad) = t4
  BY Zenon DEF With4
<1> HIDE DEF t2
<1>4. t3 \in Seq(Codes)
  BY <1>1, <1>2, CharsOf
<1>5. Count(t3) = Count(t2) + 1 /\ Bare(t3) = Append(Bare(t2), c)
  BY <1>1, Adds
<1> HIDE DEF t3
<1>6. t4 \in Seq(Codes)
  BY <1>2, <1>4, CharsOf
<1>7. Count(t4) = Count(t3) + 1 /\ Bare(t4) = Bare(t3)
  BY <1>4, Adds
<1> HIDE DEF t4
<1>8. Count(t4) = Count(t) + 4
  BY <1>1, <1>2, <1>5, <1>7
<1>9. QED
  BY <1>1, <1>3, <1>5, <1>6, <1>7, <1>8, Zenon

(* w is m blocks without a newline, of which both have made u.             *)
FrontOf(w, u, m) ==
  m \in Nat /\ InBlock(w, u, <<>>) /\ Count(w) = 4 * m /\ Len(w) = 4 * m /\ Len(u) = 3 * m

(* So is t without its newlines, and they change nothing.                  *)
Whole(t, u, m) ==
  InBlock(t, u, <<>>) /\ Count(t) = 4 * m /\ FrontOf(Bare(t), u, m)

LEMMA WholeNothing == Whole(<<>>, <<>>, 0)
<1>1. Count(<<>>) = 0 /\ Bare(<<>>) = <<>> /\ InBlock(<<>>, <<>>, <<>>)
  BY NothingToDecode, BareNothing, InBlockNothing, Zenon DEF Empty
<1>2. 0 \in Nat /\ 3 * 0 = 0 /\ 4 * 0 = 0 /\ Len(<<>>) = 0
  OBVIOUS
<1>3. QED
  BY <1>1, <1>2, Zenon DEF Whole, FrontOf

LEMMA WholeLine ==
  ASSUME NEW t, NEW u, NEW m, Whole(t, u, m)
  PROVE  Whole(Append(t, LF), u, m)
<1>1. InBlock(t, u, <<>>) /\ t \in Seq(Codes)
  BY Zenon DEF Whole, FrontOf, InBlock
<1>2. InBlock(Append(t, LF), u, <<>>)
  BY <1>1, InBlockLine
<1>3. Count(Append(t, LF)) = Count(t) /\ Bare(Append(t, LF)) = Bare(t)
  BY <1>1, Adds
<1>4. QED
  BY <1>2, <1>3, Zenon DEF Whole, FrontOf

LEMMA WholeGrows ==
  ASSUME NEW t, NEW u, NEW m, Whole(t, u, m),
         NEW x \in Octets, NEW y \in Octets, NEW z \in Octets
  PROVE  Whole(With4(t, Six1(x), Six2(x, y), Six3(y, z), Six4(z)), u \o <<x, y, z>>, m + 1)
<1> DEFINE a == Six1(x)
           b == Six2(x, y)
           c == Six3(y, z)
           d == Six4(z)
           s == With4(t, a, b, c, d)
           w == Bare(t)
           v == u \o <<x, y, z>>
<1>1. /\ m \in Nat /\ Len(u) = 3 * m /\ u \in Seq(Octets)
      /\ InBlock(t, u, <<>>) /\ Count(t) = 4 * m /\ t \in Seq(Codes)
      /\ InBlock(w, u, <<>>) /\ Count(w) = 4 * m /\ Len(w) = 4 * m /\ w \in Seq(Codes)
  BY Zenon DEF Whole, FrontOf, InBlock
<1>2. /\ a \in Sextets /\ b \in Sextets /\ c \in Sextets /\ d \in Sextets
      /\ Mix1(a, b) = x /\ Mix2(b, c) = y /\ Mix3(c, d) = z
  BY QuadBack
<1> HIDE DEF a, b, c, d, w
<1>3. InBlock(s, v, <<>>)
  <2>1. InBlock(s, u \o <<Mix1(a, b), Mix2(b, c), Mix3(c, d)>>, <<>>)
    BY <1>1, <1>2, BlockGrows
  <2>2. QED
    BY <1>2, <2>1, Zenon
<1>4. InBlock(With4(w, a, b, c, d), v, <<>>)
  <2>1. InBlock(With4(w, a, b, c, d), u \o <<Mix1(a, b), Mix2(b, c), Mix3(c, d)>>, <<>>)
    BY <1>1, <1>2, BlockGrows
  <2>2. QED
    BY <1>2, <2>1, Zenon
<1>5. /\ Count(s) = Count(t) + 4 /\ Bare(s) = With4(w, a, b, c, d)
      /\ Count(With4(w, a, b, c, d)) = Count(w) + 4
  <2>1. Count(s) = Count(t) + 4 /\ Bare(s) = With4(w, a, b, c, d)
    BY <1>1, <1>2, With4Adds DEF w
  <2>2. Count(With4(w, a, b, c, d)) = Count(w) + 4
    BY <1>1, <1>2, With4Adds
  <2>3. QED
    BY <2>1, <2>2
<1>6. Len(With4(w, a, b, c, d)) = Len(w) + 4
  <2>1. a \in Codes /\ b \in Codes /\ c \in Codes /\ d \in Codes
    BY <1>2, Characters, Zenon
  <2> HIDE DEF Codes
  <2>2. QED
    BY <1>1, <2>1 DEF With4
<1>7. Len(v) = Len(u) + 3
  <2> HIDE DEF Octets
  <2>1. QED
    BY <1>1
<1> HIDE DEF s, v
<1>8. m + 1 \in Nat /\ 3 * (m + 1) = 3 * m + 3 /\ 4 * (m + 1) = 4 * m + 4
  BY <1>1
<1>9. Whole(s, v, m + 1)
  BY <1>1, <1>3, <1>4, <1>5, <1>6, <1>7, <1>8, Zenon DEF Whole, FrontOf
<1>10. QED
  BY <1>9, Zenon DEF s, v, a, b, c, d

(* Both make d of t.                                                       *)
Yields(t, d) ==
  /\ t \in Seq(Codes) /\ d \in Seq(Octets)
  /\ Gathered(t).dst = d /\ ~(Gathered(t).pad > 2)
  /\ Read(t).rc = 0 /\ Read(t).dst = d

LEMMA BlockYields ==
  ASSUME NEW t, NEW u, InBlock(t, u, <<>>)
  PROVE  Yields(t, u)
<1> DEFINE g == Gathered(t)
           r == Read(t)
<1>1. /\ t \in Seq(Codes) /\ u \in Seq(Octets)
      /\ Abreast(r, g) /\ g = [block |-> <<>>, pad |-> 0, dst |-> u]
  BY Zenon DEF InBlock
<1>2. g.block = <<>> /\ g.pad = 0 /\ g.dst = u
  BY <1>1
<1>3. Len(<<>>) = 0 /\ 0 - 0 = 0 /\ ~(0 > 2)
  OBVIOUS
<1>4. r.rc = 0 /\ r.dst = u \o <<>>
  BY <1>1, <1>2, <1>3, BegunIs, Zenon DEF Abreast
<1>5. u \o <<>> = u
  <2> HIDE DEF Octets
  <2>1. QED
    BY <1>1
<1>6. QED
  BY <1>1, <1>2, <1>3, <1>4, <1>5, Zenon DEF Yields

LEMMA YieldsLine ==
  ASSUME NEW t, NEW d, Yields(t, d)
  PROVE  Yields(Append(t, LF), d)
<1>1. t \in Seq(Codes) /\ LF \in Codes
  BY Characters, Zenon DEF Yields
<1>2. Append(t, LF) \in Seq(Codes)
  BY <1>1, CharsOf
<1>3. Read(Append(t, LF)) = Read(t) /\ Gathered(Append(t, LF)) = Gathered(t)
  <2>1. /\ Read(Append(t, LF)) = Collect(Read(t), LF)
        /\ Gathered(Append(t, LF)) = Gather(Gathered(t), LF)
    BY <1>1, ReadGrows, GatheredGrows
  <2>2. QED
    BY <2>1, Skipped, Zenon
<1>4. QED
  BY <1>2, <1>3, Zenon DEF Yields

(* An '=' where a block has begun with two characters or more.             *)
LEMMA PadStep ==
  ASSUME NEW t \in Seq(Codes), Abreast(Read(t), Gathered(t))
  PROVE  /\ Append(t, Pad) \in Seq(Codes) /\ Read(Append(t, Pad)) = Read(t)
         /\ Gathered(Append(t, Pad)).pad = Gathered(t).pad + 1
         /\ Len(Gathered(t).block) < 3 =>
              /\ Abreast(Read(t), Gathered(Append(t, Pad)))
              /\ Len(Gathered(Append(t, Pad)).block) = Len(Gathered(t).block) + 1
         /\ Len(Gathered(t).block) = 3 => Halted(Read(t), Gathered(Append(t, Pad)))
<1>1. Pad \in Codes
  BY Characters
<1>2. Append(t, Pad) \in Seq(Codes)
  BY <1>1, CharsOf
<1>3. /\ Read(Append(t, Pad)) = Collect(Read(t), Pad)
      /\ Gathered(Append(t, Pad)) = Gather(Gathered(t), Pad)
      /\ Read(t) \in Readings /\ Gathered(t) \in Gatherings
  BY <1>1, ReadGrows, GatheredGrows
<1>4. Collect(Read(t), Pad) = Read(t)
  BY Skipped, Zenon
<1>5. QED
  BY <1>2, <1>3, <1>4, AbreastPad, Zenon

(* What is left over, one byte or two.                                     *)
LEMMA TwoLeft ==
  ASSUME NEW t, NEW u, InBlock(t, u, <<>>), NEW x \in Octets
  PROVE  Yields(With4(t, Six1(x), Six2(x, 0), Pad, Pad), u \o <<x>>)
<1> DEFINE a == Six1(x)
           b == Six2(x, 0)
           s == Append(Append(t, a), b)
           s1 == Append(s, Pad)
           s2 == Append(s1, Pad)
           k == <<a, b>>
<1>1. a \in Sextets /\ b \in Sextets /\ Mix1(a, b) = x
  <2>1. 0 \in Octets
    BY DEF Octets
  <2>2. QED
    BY <2>1, QuadBack
<1>2. u \in Seq(Octets)
  BY Zenon DEF InBlock
<1> HIDE DEF a, b
<1>3. InBlock(s, u, k)
  BY <1>1, BlockGrows
<1>4. k[1] = a /\ k[2] = b /\ Len(k) = 2
  OBVIOUS
<1> HIDE DEF s, k
<1>5. /\ s \in Seq(Codes) /\ Abreast(Read(s), Gathered(s))
      /\ Gathered(s) = [block |-> k, pad |-> 0, dst |-> u]
  BY <1>3, Zenon DEF InBlock
<1>6. Gathered(s).block = k /\ Gathered(s).pad = 0 /\ Gathered(s).dst = u
  BY <1>5
<1>7. Read(s).rc = 0 /\ Read(s).dst = u \o <<x>>
  <2>1. 2 - 0 = 2
    OBVIOUS
  <2>2. Begun(k, 2) = <<x>>
    BY <1>1, <1>4, BegunIs, Zenon DEF Byte1
  <2>3. QED
    BY <1>4, <1>5, <1>6, <2>1, <2>2, Zenon DEF Abreast
<1>8. /\ s1 \in Seq(Codes) /\ Read(s1) = Read(s) /\ Gathered(s1).pad = 1
      /\ Abreast(Read(s1), Gathered(s1)) /\ Len(Gathered(s1).block) = 3
  <2>1. 0 + 1 = 1 /\ 2 + 1 = 3 /\ 2 < 3
    OBVIOUS
  <2>2. QED
    BY <1>4, <1>5, <1>6, <2>1, PadStep, Zenon
<1> HIDE DEF s1
<1>9. /\ s2 \in Seq(Codes) /\ Read(s2) = Read(s) /\ Gathered(s2).pad = 2
      /\ Halted(Read(s2), Gathered(s2))
  <2>1. 1 + 1 = 2
    OBVIOUS
  <2>2. QED
    BY <1>8, <2>1, PadStep, Zenon
<1> HIDE DEF s2
<1>10. Gathered(s2).dst = u \o <<x>> /\ ~(Gathered(s2).pad > 2)
  <2>1. 2 <= 2 /\ ~(2 > 2)
    OBVIOUS
  <2>2. QED
    BY <1>7, <1>9, <2>1, Zenon DEF Halted
<1>11. u \o <<x>> \in Seq(Octets)
  <2> HIDE DEF Octets
  <2>1. QED
    BY <1>2
<1>12. Yields(s2, u \o <<x>>)
  BY <1>7, <1>9, <1>10, <1>11, Zenon DEF Yields
<1>13. QED
  BY <1>12, Zenon DEF With4, s2, s1, s, a, b

LEMMA ThreeLeft ==
  ASSUME NEW t, NEW u, InBlock(t, u, <<>>), NEW x \in Octets, NEW y \in Octets
  PROVE  Yields(With4(t, Six1(x), Six2(x, y), Six3(y, 0), Pad), u \o <<x, y>>)
<1> DEFINE a == Six1(x)
           b == Six2(x, y)
           c == Six3(y, 0)
           s == Append(Append(Append(t, a), b), c)
           s1 == Append(s, Pad)
           k == <<a, b, c>>
<1>1. a \in Sextets /\ b \in Sextets /\ c \in Sextets /\ Mix1(a, b) = x /\ Mix2(b, c) = y
  <2>1. 0 \in Octets
    BY DEF Octets
  <2>2. QED
    BY <2>1, QuadBack
<1>2. u \in Seq(Octets)
  BY Zenon DEF InBlock
<1> HIDE DEF a, b, c
<1>3. InBlock(s, u, k)
  BY <1>1, BlockGrows
<1>4. k[1] = a /\ k[2] = b /\ k[3] = c /\ Len(k) = 3
  OBVIOUS
<1> HIDE DEF s, k
<1>5. /\ s \in Seq(Codes) /\ Abreast(Read(s), Gathered(s))
      /\ Gathered(s) = [block |-> k, pad |-> 0, dst |-> u]
  BY <1>3, Zenon DEF InBlock
<1>6. Gathered(s).block = k /\ Gathered(s).pad = 0 /\ Gathered(s).dst = u
  BY <1>5
<1>7. Read(s).rc = 0 /\ Read(s).dst = u \o <<x, y>>
  <2>1. 3 - 0 = 3
    OBVIOUS
  <2>2. Begun(k, 3) = <<x, y>>
    BY <1>1, <1>4, BegunIs, Zenon DEF Byte1, Byte2
  <2>3. QED
    BY <1>4, <1>5, <1>6, <2>1, <2>2, Zenon DEF Abreast
<1>8. /\ s1 \in Seq(Codes) /\ Read(s1) = Read(s) /\ Gathered(s1).pad = 1
      /\ Halted(Read(s1), Gathered(s1))
  <2>1. 0 + 1 = 1
    OBVIOUS
  <2>2. QED
    BY <1>4, <1>5, <1>6, <2>1, PadStep, Zenon
<1> HIDE DEF s1
<1>9. Gathered(s1).dst = u \o <<x, y>> /\ ~(Gathered(s1).pad > 2)
  <2>1. 1 <= 2 /\ ~(1 > 2)
    OBVIOUS
  <2>2. QED
    BY <1>7, <1>8, <2>1, Zenon DEF Halted
<1>10. u \o <<x, y>> \in Seq(Octets)
  <2> HIDE DEF Octets
  <2>1. QED
    BY <1>2
<1>11. Yields(s1, u \o <<x, y>>)
  BY <1>7, <1>8, <1>9, <1>10, Zenon DEF Yields
<1>12. QED
  BY <1>11, Zenon DEF With4, s1, s, a, b, c

(* base64_decode and base64_decode_ex on a whole text.                     *)
LEMMA YieldsDecode ==
  ASSUME NEW t, NEW d, Yields(t, d), NEW n \in Nat, n # 0, Count(t) = 4 * n,
         NEW room \in Int, 3 * n <= room
  PROVE  /\ Decode(t, room) = [rc |-> 0, dst |-> d]
         /\ DecodeEx(t).rc = 0 /\ DecodeEx(t).dst = d
<1>1. 4 * n # 0 /\ (4 * n) % 4 = 0 /\ (4 * n) \div 4 = n /\ ~(3 * n > room)
  BY SMT
<1>2. Decode(t, room) = [rc |-> 0, dst |-> Gathered(t).dst]
  BY <1>1, DecodeIs, Zenon DEF Yields
<1>3. t # <<>>
  BY <1>1, NothingToDecode, Zenon
<1>4. DecodeEx(t) = Read(t)
  BY <1>3, ReadIs
<1>5. QED
  BY <1>2, <1>4, Zenon DEF Yields

Blank(n) == [i \in 1..n |-> Unwritten]

LEMMA FilledIs ==
  ASSUME NEW r, NEW room
  PROVE  /\ r.rc = 0 => Filled(r, room) = r.dst
         /\ r.rc # 0 => Filled(r, room) = Blank(room)
BY Zenon DEF Filled, Blank

LEMMA BlankIs ==
  ASSUME NEW n \in Nat
  PROVE  Len(Blank(n)) = n /\ Blank(n) \o Blank(0) = Blank(n)
<1>1. Unwritten \in Int
  BY DEF Unwritten
<1>2. Blank(n) \in Seq(Int) /\ Len(Blank(n)) = n
  BY <1>1 DEF Blank
<1>3. Blank(0) = <<>>
  BY DEF Blank
<1>4. Blank(n) \o <<>> = Blank(n)
  BY <1>2
<1>5. QED
  BY <1>2, <1>3, <1>4

Opening(w, room) == Filled(Decode(w, room), room)
RoomLeft(w, room) == room - Len(Opening(w, room))

LEMMA Whole4 ==
  ASSUME NEW w, NEW m \in Nat, Len(w) = 4 * m
  PROVE  Len(w) \in Nat /\ Len(w) % 4 = 0 /\ Len(w) - 0 = Len(w)
<1>1. (4 * m) % 4 = 0 /\ 4 * m \in Nat
  BY SMT
<1>2. QED
  BY <1>1

(* base64_decode_forgiving of whole blocks, and of what is left over.      *)
LEMMA ForgivingIs ==
  ASSUME NEW w \in Seq(Codes), NEW m \in Nat, Len(w) = 4 * m, NEW room
  PROVE  DecodeForgiving(w, room) = Opening(w, room)
<1>1. Len(w) % 4 = 0 /\ Len(w) - 0 = Len(w)
  BY Whole4
<1>2. SubSeq(w, 1, Len(w)) = w
  BY SubSeqFull
<1>3. QED
  BY <1>1, <1>2, Zenon DEF DecodeForgiving, Opening

LEMMA ForgivingSplits ==
  ASSUME NEW w \in Seq(Codes), NEW m \in Nat, Len(w) = 4 * m, NEW room,
         NEW e \in Seq(Codes), Len(e) \in {2, 3}
  PROVE  DecodeForgiving(w \o e, room) =
           Opening(w, room) \o Opening(SubSeq(e \o <<Pad, Pad, Pad>>, 1, 4), RoomLeft(w, room))
<1> DEFINE t == w \o e
           n == Len(t)
           k == Len(w)
<1>1. n = k + Len(e) /\ SubSeq(t, 1, k) = w /\ SubSeq(t, k + 1, n) = e
  <2> HIDE DEF Codes
  <2>1. n = k + Len(e)
    OBVIOUS
  <2>2. SubSeq(t, 1, k) = w
    BY SubSeqOfConcat1, SubSeqFull
  <2>3. SubSeq(t, k + 1, n) = e
    BY <2>1, SubSeqOfConcat2, SubSeqFull
  <2>4. QED
    BY <2>1, <2>2, <2>3
<1>2. n - (n % 4) = k /\ k # n
  <2>1. (4 * m + 2) % 4 = 2 /\ (4 * m + 3) % 4 = 3
    BY SMT
  <2> HIDE DEF n, k
  <2>2. n = k + 2 \/ n = k + 3
    BY <1>1
  <2>3. k = 4 * m /\ k \in Nat
    BY Whole4 DEF k
  <2>4. QED
    BY <2>1, <2>2, <2>3
<1> HIDE DEF n, k
<1>3. DecodeForgiving(t, room) =
        Opening(SubSeq(t, 1, k), room)
          \o Opening(SubSeq(SubSeq(t, k + 1, n) \o <<Pad, Pad, Pad>>, 1, 4),
                     RoomLeft(SubSeq(t, 1, k), room))
  BY <1>2, Zenon DEF DecodeForgiving, Opening, RoomLeft, n
<1>4. QED
  BY <1>1, <1>3, Zenon

(* base64_decode_forgiving makes d of t, where that is long enough.        *)
Forgives(t, d) ==
  DecodeForgiving(t, Len(d) + 2) = IF Len(t) < 4 THEN Blank(Len(d) + 2) ELSE d

LEMMA ForgivingWhole ==
  ASSUME NEW w, NEW u, InBlock(w, u, <<>>), NEW m \in Nat, Count(w) = 4 * m, Len(w) = 4 * m,
         Len(u) = 3 * m
  PROVE  Forgives(w, u)
<1> DEFINE room == Len(u) + 2
<1>1. w \in Seq(Codes)
  BY Zenon DEF InBlock
<1>2. DecodeForgiving(w, room) = Filled(Decode(w, room), room)
  BY <1>1, ForgivingIs DEF Opening
<1>3. CASE m = 0
  <2>1. Count(w) = 0 /\ Len(w) < 4
    BY <1>3
  <2>2. Decode(w, room).rc # 0
    BY <2>1, DecodeIs, Zenon
  <2>3. QED
    BY <1>2, <2>1, <2>2, FilledIs, Zenon DEF Forgives
<1>4. CASE m # 0
  <2>1. room \in Int /\ 3 * m <= room /\ ~(Len(w) < 4)
    BY <1>4
  <2> HIDE DEF room
  <2>2. Decode(w, room) = [rc |-> 0, dst |-> u]
    BY <1>4, <2>1, BlockYields, YieldsDecode
  <2>3. Filled(Decode(w, room), room) = u
    <3>1. Decode(w, room).rc = 0 /\ Decode(w, room).dst = u
      BY <2>2
    <3>2. QED
      BY <3>1, FilledIs, Zenon
  <2>4. QED
    BY <1>2, <2>1, <2>3, Zenon DEF room, Forgives
<1>5. QED
  BY <1>3, <1>4

(* The rest e of a text, which q pads up to a block, makes v.              *)
RestOf(q, e, v) ==
  /\ Len(v) \in {1, 2} /\ e \in Seq(Codes) /\ Len(e) = Len(v) + 1
  /\ q = SubSeq(e \o <<Pad, Pad, Pad>>, 1, 4) /\ Yields(q, v) /\ Count(q) = 4

LEMMA ForgivingRest ==
  ASSUME NEW w, NEW u, NEW m, FrontOf(w, u, m), NEW q, NEW e, NEW v, RestOf(q, e, v),
         NEW d, d = u \o v
  PROVE  Forgives(w \o e, d)
<1> USE DEF FrontOf, RestOf
<1> DEFINE room == Len(d) + 2
           front == Opening(w, room)
           left == RoomLeft(w, room)
           n == Len(v)
<1>1. w \in Seq(Codes) /\ u \in Seq(Octets) /\ v \in Seq(Octets)
  BY Zenon DEF InBlock, Yields
<1>2. Len(d) = 3 * m + n /\ Len(w \o e) = 4 * m + (n + 1) /\ n \in {1, 2}
  <2>1. Len(u \o v) = Len(u) + Len(v)
    BY <1>1, ConcatProperties, Zenon
  <2>2. Len(w \o e) = Len(w) + Len(e)
    BY <1>1, ConcatProperties, Zenon
  <2>3. QED
    BY <2>1, <2>2, Zenon
<1> HIDE DEF n
<1>3. DecodeForgiving(w \o e, room) = front \o Filled(Decode(q, left), left)
  <2>1. \A k \in {1, 2} : k + 1 \in {2, 3}
    OBVIOUS
  <2>2. Len(e) \in {2, 3}
    BY <2>1, Zenon
  <2> HIDE DEF room
  <2>3. DecodeForgiving(w \o e, room) = front \o Opening(q, left)
    BY <1>1, <2>2, ForgivingSplits, Zenon
  <2>4. QED
    BY <2>3, Zenon DEF Opening
<1>4. CASE m = 0
  <2>1. Count(w) = 0 /\ Len(w \o e) < 4 /\ room \in Nat
    BY <1>2, <1>4
  <2> HIDE DEF room
  <2>2. Decode(w, room).rc # 0
    BY <2>1, DecodeIs, Zenon
  <2>3. front = Blank(room)
    BY <2>2, FilledIs, Zenon DEF Opening
  <2> HIDE DEF front
  <2>4. left = 0
    <3>1. Len(Opening(w, room)) = room
      BY <2>1, <2>3, BlankIs, Zenon DEF front
    <3>2. room - room = 0
      BY <2>1
    <3>3. QED
      BY <3>1, <3>2, Zenon DEF RoomLeft
  <2> HIDE DEF left
  <2>5. 3 * (4 \div 4) > 0
    BY SMT
  <2>6. Decode(q, 0).rc # 0
    BY <2>5, DecodeIs, Zenon
  <2>7. Filled(Decode(q, left), left) = Blank(0)
    BY <2>4, <2>6, FilledIs, Zenon
  <2>8. QED
    BY <1>3, <2>1, <2>3, <2>7, BlankIs, Zenon DEF room, Forgives
<1>5. CASE m # 0
  <2>1. room \in Int /\ 3 * m <= room /\ ~(Len(w \o e) < 4) /\ room - Len(u) >= 3
    BY <1>2, <1>5
  <2> HIDE DEF room
  <2>2. Decode(w, room) = [rc |-> 0, dst |-> u]
    BY <1>5, <2>1, BlockYields, YieldsDecode
  <2>3. front = u
    <3>1. Decode(w, room).rc = 0 /\ Decode(w, room).dst = u
      BY <2>2
    <3>2. QED
      BY <3>1, FilledIs, Zenon DEF Opening
  <2>4. left \in Int /\ 3 * 1 <= left
    <3>1. left = room - Len(u)
      BY <2>3, Zenon DEF RoomLeft
    <3> HIDE DEF left
    <3>2. Len(u) \in Int
      OBVIOUS
    <3>3. QED
      BY <2>1, <3>1, <3>2
  <2> HIDE DEF left, front
  <2>5. Decode(q, left) = [rc |-> 0, dst |-> v]
    <3>1. 1 \in Nat /\ 1 # 0 /\ Count(q) = 4 * 1
      OBVIOUS
    <3>2. QED
      BY <2>4, <3>1, YieldsDecode
  <2>6. Filled(Decode(q, left), left) = v
    <3>1. Decode(q, left).rc = 0 /\ Decode(q, left).dst = v
      BY <2>5
    <3>2. QED
      BY <3>1, FilledIs, Zenon
  <2>7. QED
    BY <1>3, <2>1, <2>3, <2>6, Zenon DEF room, Forgives
<1>6. QED
  BY <1>4, <1>5

(* The text that a few bytes more are taken from.                          *)
LEMMA OneMore ==
  ASSUME NEW s \in Seq(Octets), NEW k \in Nat, k + 1 <= Len(s)
  PROVE  /\ SubSeq(s, 1, k) \in Seq(Octets) /\ Len(SubSeq(s, 1, k)) = k
         /\ s[k + 1] \in Octets
         /\ SubSeq(s, 1, k + 1) = Append(SubSeq(s, 1, k), s[k + 1])
<1> HIDE DEF Octets
<1>1. SubSeq(s, 1, k) \in Seq(Octets) /\ Len(SubSeq(s, 1, k)) = k /\ s[k + 1] \in Octets
  OBVIOUS
<1>2. SubSeq(s, 1, k + 1) = Append(SubSeq(s, 1, k), s[k + 1])
  OBVIOUS
<1>3. QED
  BY <1>1, <1>2

LEMMA SomeMore ==
  ASSUME NEW s \in Seq(Octets), NEW k \in Nat, k <= Len(s), NEW u, u = SubSeq(s, 1, k)
  PROVE  /\ k = Len(s) => u = s
         /\ k + 1 <= Len(s) => s[k + 1] \in Octets
         /\ k + 1 = Len(s) => s = u \o <<s[k + 1]>>
         /\ k + 2 <= Len(s) => s[k + 2] \in Octets
         /\ k + 2 = Len(s) => s = u \o <<s[k + 1], s[k + 2]>>
         /\ k + 3 <= Len(s) => /\ s[k + 3] \in Octets
                               /\ SubSeq(s, 1, k + 3) = u \o <<s[k + 1], s[k + 2], s[k + 3]>>
<1> DEFINE n == Len(s)
           x == s[k + 1]
           y == s[k + 2]
           z == s[k + 3]
<1>1. SubSeq(s, 1, n) = s /\ n \in Nat
  BY SubSeqFull, LenProperties
<1>2. /\ k + 1 <= n => u \in Seq(Octets) /\ x \in Octets /\ SubSeq(s, 1, k + 1) = Append(u, x)
  BY OneMore
<1>3. k + 2 <= n => y \in Octets /\ SubSeq(s, 1, k + 2) = Append(SubSeq(s, 1, k + 1), y)
  <2>1. k + 1 \in Nat /\ (k + 1) + 1 = k + 2
    OBVIOUS
  <2>2. QED
    BY <2>1, OneMore, Zenon
<1>4. k + 3 <= n => z \in Octets /\ SubSeq(s, 1, k + 3) = Append(SubSeq(s, 1, k + 2), z)
  <2>1. k + 2 \in Nat /\ (k + 2) + 1 = k + 3
    OBVIOUS
  <2>2. QED
    BY <2>1, OneMore, Zenon
<1>5. (k + 3 <= n => k + 2 <= n) /\ (k + 2 <= n => k + 1 <= n)
      /\ (k + 1 = n => k + 1 <= n) /\ (k + 2 = n => k + 2 <= n)
  <2>1. n \in Nat
    BY <1>1
  <2> HIDE DEF n
  <2>2. QED
    BY <2>1
<1> HIDE DEF n, x, y, z
<1>6. k + 1 <= n => SubSeq(s, 1, k + 1) = u \o <<x>>
  BY <1>2, Lengthens, Zenon
<1>7. k + 2 <= n => SubSeq(s, 1, k + 2) = u \o <<x, y>>
  <2> SUFFICES ASSUME k + 2 <= n PROVE SubSeq(s, 1, k + 2) = u \o <<x, y>>
    OBVIOUS
  <2>1. Append(u \o <<x>>, y) = u \o <<x, y>>
    BY <1>2, <1>3, <1>5, Lengthens, Zenon
  <2>2. QED
    BY <1>3, <1>5, <1>6, <2>1, Zenon
<1>8. k + 3 <= n => SubSeq(s, 1, k + 3) = u \o <<x, y, z>>
  <2> SUFFICES ASSUME k + 3 <= n PROVE SubSeq(s, 1, k + 3) = u \o <<x, y, z>>
    OBVIOUS
  <2>1. Append(u \o <<x, y>>, z) = u \o <<x, y, z>>
    <3>1. u \in Seq(Octets) /\ x \in Octets /\ y \in Octets /\ z \in Octets
      BY <1>2, <1>3, <1>4, <1>5, Zenon
    <3> HIDE DEF Octets
    <3>2. QED
      BY <3>1
  <2>2. QED
    BY <1>4, <1>5, <1>7, <2>1, Zenon
<1>9. k = n => u = s
  BY <1>1
<1>10. QED
  BY <1>1, <1>2, <1>3, <1>4, <1>5, <1>6, <1>7, <1>8, <1>9, Zenon DEF n, x, y, z

LEMMA PairBehind ==
  ASSUME NEW t \in Seq(Codes), NEW a \in Codes, NEW b \in Codes, NEW c \in Codes
  PROVE  /\ t \o <<a, b>> = Append(Append(t, a), b)
         /\ t \o <<a, b, c>> = Append(Append(Append(t, a), b), c)
<1> HIDE DEF Codes
<1>1. t \o <<a, b>> = Append(Append(t, a), b)
  OBVIOUS
<1>2. t \o <<a, b, c>> = Append(Append(Append(t, a), b), c)
  OBVIOUS
<1>3. QED
  BY <1>1, <1>2

LEMMA FirstFew ==
  ASSUME NEW q \in Seq(Sextets), Len(q) = 4
  PROVE  SubSeq(q, 1, 2) = <<q[1], q[2]>> /\ SubSeq(q, 1, 3) = <<q[1], q[2], q[3]>>
<1> HIDE DEF Sextets
<1>1. ASSUME NEW n \in 1..4
      PROVE  /\ SubSeq(q, 1, n) \in Seq(Sextets) /\ Len(SubSeq(q, 1, n)) = n
             /\ \A i \in 1..n : SubSeq(q, 1, n)[i] = q[i]
  <2>1. \A i \in 1..n : q[i] \in Sextets
    <3>1. \A i \in 1..4 : q[i] \in Sextets
      BY ElementOfSeq
    <3>2. \A i \in 1..n : i \in 1..4
      OBVIOUS
    <3>3. QED
      BY <3>1, <3>2, Zenon
  <2>2. /\ SubSeq(q, 1, n) \in Seq(Sextets)
        /\ Len(SubSeq(q, 1, n)) = IF 1 <= n THEN n - 1 + 1 ELSE 0
        /\ \A i \in 1..(n - 1 + 1) : SubSeq(q, 1, n)[i] = q[1 + i - 1]
    BY <2>1, SubSeqProperties
  <2>3. n - 1 + 1 = n /\ 1 <= n /\ \A i \in 1..n : 1 + i - 1 = i
    OBVIOUS
  <2>4. QED
    BY <2>2, <2>3, Zenon
<1>2. 2 \in 1..4 /\ 3 \in 1..4 /\ 1 \in 1..2 /\ 2 \in 1..2 /\ 1 \in 1..3 /\ 2 \in 1..3 /\ 3 \in 1..3
  OBVIOUS
<1>3. SubSeq(q, 1, 2) = <<q[1], q[2]>>
  <2> DEFINE p == SubSeq(q, 1, 2)
  <2>1. p \in Seq(Sextets) /\ Len(p) = 2 /\ p[1] = q[1] /\ p[2] = q[2]
    BY <1>1, <1>2
  <2> HIDE DEF p
  <2>2. p = <<q[1], q[2]>>
    BY <2>1
  <2>3. QED
    BY <2>2 DEF p
<1>4. SubSeq(q, 1, 3) = <<q[1], q[2], q[3]>>
  <2> DEFINE p == SubSeq(q, 1, 3)
  <2>1. p \in Seq(Sextets) /\ Len(p) = 3 /\ p[1] = q[1] /\ p[2] = q[2] /\ p[3] = q[3]
    BY <1>1, <1>2
  <2> HIDE DEF p
  <2>2. p = <<q[1], q[2], q[3]>>
    BY <2>1
  <2>3. QED
    BY <2>2 DEF p
<1>5. QED
  BY <1>3, <1>4

LEMMA QuadIs ==
  ASSUME NEW x \in Octets, NEW y \in Octets, NEW z \in Octets
  PROVE  /\ Quad(x, y, z) = <<Six1(x), Six2(x, y), Six3(y, z), Six4(z)>>
         /\ SubSeq(Quad(x, y, z), 1, 2) = <<Six1(x), Six2(x, y)>>
         /\ SubSeq(Quad(x, y, z), 1, 3) = <<Six1(x), Six2(x, y), Six3(y, z)>>
<1> DEFINE a == Six1(x)
           b == Six2(x, y)
           c == Six3(y, z)
           d == Six4(z)
           q == <<a, b, c, d>>
<1>1. a \in Sextets /\ b \in Sextets /\ c \in Sextets /\ d \in Sextets
  BY QuadBack
<1>2. Quad(x, y, z) = q
  BY Zenon DEF Quad, Six1, Six2, Six3, Six4
<1> HIDE DEF a, b, c, d
<1>3. q[1] = a /\ q[2] = b /\ q[3] = c /\ q \in Seq(Sextets) /\ Len(q) = 4
  <2>1. q \in Seq(Sextets) /\ Len(q) = 4
    BY <1>1, Blocks4
  <2>2. QED
    BY <2>1
<1> HIDE DEF q
<1>4. SubSeq(q, 1, 2) = <<a, b>>
  BY <1>3, FirstFew, Zenon
<1>5. SubSeq(q, 1, 3) = <<a, b, c>>
  BY <1>3, FirstFew, Zenon
<1>6. QED
  BY <1>2, <1>4, <1>5, Zenon DEF q, a, b, c, d

LEMMA FourOnly ==
  ASSUME NEW a \in Codes, NEW b \in Codes, NEW c \in Codes, NEW d \in Codes
  PROVE  With4(<<>>, a, b, c, d) = <<a, b, c, d>>
<1> DEFINE k1 == Append(<<>>, a)
           k2 == Append(k1, b)
           k3 == Append(k2, c)
           k4 == Append(k3, d)
<1> HIDE DEF Codes
<1>1. k1 \in Seq(Codes) /\ Len(k1) = 1 /\ k1[1] = a
  OBVIOUS
<1> HIDE DEF k1
<1>2. 1 + 1 = 2 /\ 2 + 1 = 3 /\ 3 + 1 = 4 /\ 1 \in 1..1 /\ 1 \in 1..2 /\ 2 \in 1..2
      /\ 1 \in 1..3 /\ 2 \in 1..3 /\ 3 \in 1..3
  OBVIOUS
<1>3. k2 \in Seq(Codes) /\ Len(k2) = 2 /\ k2[1] = a /\ k2[2] = b
  <2>1. k1 \in Seq(Codes)
    BY <1>1
  <2>2. k2 \in Seq(Codes) /\ Len(k2) = Len(k1) + 1
    BY <2>1
  <2>3. k2[Len(k1) + 1] = b
    BY <2>1
  <2>4. \A i \in 1..Len(k1) : k2[i] = k1[i]
    BY <2>1
  <2> HIDE DEF k2
  <2>5. QED
    BY <1>2, <1>1, <2>2, <2>3, <2>4, Zenon
<1> HIDE DEF k2
<1>4. k3 \in Seq(Codes) /\ Len(k3) = 3 /\ k3[1] = a /\ k3[2] = b /\ k3[3] = c
  <2>1. k2 \in Seq(Codes)
    BY <1>3
  <2>2. k3 \in Seq(Codes) /\ Len(k3) = Len(k2) + 1
    BY <2>1
  <2>3. k3[Len(k2) + 1] = c
    BY <2>1
  <2>4. \A i \in 1..Len(k2) : k3[i] = k2[i]
    BY <2>1
  <2> HIDE DEF k3
  <2>5. QED
    BY <1>2, <1>3, <2>2, <2>3, <2>4, Zenon
<1> HIDE DEF k3
<1>5. k4 \in Seq(Codes) /\ Len(k4) = 4 /\ k4[1] = a /\ k4[2] = b /\ k4[3] = c /\ k4[4] = d
  <2>1. k3 \in Seq(Codes)
    BY <1>4
  <2>2. k4 \in Seq(Codes) /\ Len(k4) = Len(k3) + 1
    BY <2>1
  <2>3. k4[Len(k3) + 1] = d
    BY <2>1
  <2>4. \A i \in 1..Len(k3) : k4[i] = k3[i]
    BY <2>1
  <2> HIDE DEF k4
  <2>5. QED
    BY <1>2, <1>4, <2>2, <2>3, <2>4, Zenon
<1>6. With4(<<>>, a, b, c, d) = k4
  BY Zenon DEF With4, k1, k2, k3
<1> HIDE DEF k4
<1>7. k4 = <<a, b, c, d>>
  BY <1>5
<1>8. QED
  BY <1>6, <1>7

(* The rest of a text, padded up to a block.                               *)
LEMMA PaddedUp ==
  ASSUME NEW a \in Codes, NEW b \in Codes, NEW c \in Codes
  PROVE  /\ SubSeq(<<a, b>> \o <<Pad, Pad, Pad>>, 1, 4) = With4(<<>>, a, b, Pad, Pad)
         /\ SubSeq(<<a, b, c>> \o <<Pad, Pad, Pad>>, 1, 4) = With4(<<>>, a, b, c, Pad)
         /\ <<a, b>> \in Seq(Codes) /\ Len(<<a, b>>) = 2
         /\ <<a, b, c>> \in Seq(Codes) /\ Len(<<a, b, c>>) = 3
<1>1. Pad \in Codes
  BY Characters
<1>2. /\ <<a, b>> \in Seq(Codes) /\ Len(<<a, b>>) = 2
      /\ <<a, b, c>> \in Seq(Codes) /\ Len(<<a, b, c>>) = 3
  <2> HIDE DEF Codes
  <2>1. QED
    OBVIOUS
<1>3. ASSUME NEW e \in Seq(Codes), Len(e) \in {2, 3}
      PROVE  LET r == SubSeq(e \o <<Pad, Pad, Pad>>, 1, 4) IN
             /\ r \in Seq(Codes) /\ Len(r) = 4
             /\ r[1] = e[1] /\ r[2] = e[2]
             /\ r[3] = IF Len(e) = 3 THEN e[3] ELSE Pad
             /\ r[4] = Pad
  <2> DEFINE p == <<Pad, Pad, Pad>>
             s == e \o p
             r == SubSeq(s, 1, 4)
             n == Len(e)
  <2> HIDE DEF Codes
  <2>1. p \in Seq(Codes) /\ Len(p) = 3 /\ p[1] = Pad /\ p[2] = Pad
    BY <1>1
  <2> HIDE DEF p
  <2>2. /\ s \in Seq(Codes) /\ Len(s) = n + 3
        /\ \A i \in 1..(n + 3) : s[i] = IF i <= n THEN e[i] ELSE p[i - n]
    <3>1. /\ s \in Seq(Codes) /\ Len(s) = Len(e) + Len(p)
          /\ \A i \in 1..(Len(e) + Len(p)) : s[i] = IF i <= Len(e) THEN e[i] ELSE p[i - Len(e)]
      BY <2>1, ConcatProperties
    <3>2. QED
      BY <2>1, <3>1
  <2> HIDE DEF s
  <2>3. n = 2 \/ n = 3
    BY <1>3
  <2>4. CASE n = 2
    <3>1. Len(s) = 5 /\ s[1] = e[1] /\ s[2] = e[2] /\ s[3] = p[1] /\ s[4] = p[2]
      <4> HIDE DEF n
      <4>1. QED
        BY <2>2, <2>4
    <3>2. r \in Seq(Codes) /\ Len(r) = 4 /\ r[1] = s[1] /\ r[2] = s[2] /\ r[3] = s[3] /\ r[4] = s[4]
      BY <2>2, <3>1
    <3> HIDE DEF r
    <3>3. n # 3
      BY <2>4
    <3>4. QED
      BY <2>1, <3>1, <3>2, <3>3, Zenon DEF r, s, p, n
  <2>5. CASE n = 3
    <3>1. Len(s) = 6 /\ s[1] = e[1] /\ s[2] = e[2] /\ s[3] = e[3] /\ s[4] = p[1]
      <4> HIDE DEF n
      <4>1. QED
        BY <2>2, <2>5
    <3>2. r \in Seq(Codes) /\ Len(r) = 4 /\ r[1] = s[1] /\ r[2] = s[2] /\ r[3] = s[3] /\ r[4] = s[4]
      BY <2>2, <3>1
    <3> HIDE DEF r
    <3>3. QED
      BY <2>1, <2>5, <3>1, <3>2, Zenon DEF r, s, p, n
  <2>6. QED
    BY <2>3, <2>4, <2>5
<1>4. With4(<<>>, a, b, Pad, Pad) = <<a, b, Pad, Pad>> /\ With4(<<>>, a, b, c, Pad) = <<a, b, c, Pad>>
  BY <1>1, FourOnly
<1>5. \A r \in Seq(Codes) : Len(r) = 4 => r = <<r[1], r[2], r[3], r[4]>>
  <2> HIDE DEF Codes
  <2>1. QED
    OBVIOUS
<1>6. SubSeq(<<a, b>> \o <<Pad, Pad, Pad>>, 1, 4) = <<a, b, Pad, Pad>>
  <2> DEFINE e == <<a, b>>
             r == SubSeq(e \o <<Pad, Pad, Pad>>, 1, 4)
  <2>1. e[1] = a /\ e[2] = b /\ Len(e) \in {2, 3} /\ Len(e) # 3 /\ e \in Seq(Codes)
    BY <1>2
  <2> HIDE DEF e
  <2>2. r \in Seq(Codes) /\ Len(r) = 4 /\ r[1] = a /\ r[2] = b /\ r[3] = Pad /\ r[4] = Pad
    BY <1>3, <2>1
  <2> HIDE DEF r
  <2>3. r = <<a, b, Pad, Pad>>
    BY <1>5, <2>2, Zenon
  <2>4. QED
    BY <2>3 DEF r, e
<1>7. SubSeq(<<a, b, c>> \o <<Pad, Pad, Pad>>, 1, 4) = <<a, b, c, Pad>>
  <2> DEFINE e == <<a, b, c>>
             r == SubSeq(e \o <<Pad, Pad, Pad>>, 1, 4)
  <2>1. e[1] = a /\ e[2] = b /\ e[3] = c /\ Len(e) \in {2, 3} /\ Len(e) = 3 /\ e \in Seq(Codes)
    BY <1>2
  <2> HIDE DEF e
  <2>2. r \in Seq(Codes) /\ Len(r) = 4 /\ r[1] = a /\ r[2] = b /\ r[3] = c /\ r[4] = Pad
    BY <1>3, <2>1
  <2> HIDE DEF r
  <2>3. r = <<a, b, c, Pad>>
    BY <1>5, <2>2, Zenon
  <2>4. QED
    BY <2>3 DEF r, e
<1>8. QED
  BY <1>2, <1>4, <1>6, <1>7, Zenon

(* What DecodesBack says of the text t of the bytes d.                     *)
Back(t, d) ==
  /\ d # <<>> => /\ DecodeEx(t).rc = 0 /\ DecodeEx(t).dst = d
                 /\ Decode(t, Len(d) + 2) = [rc |-> 0, dst |-> d]
  /\ Forgives(Bare(t), d)

LEMMA BackWhole ==
  ASSUME NEW t, NEW u, NEW m, Whole(t, u, m)
  PROVE  Back(t, u)
<1>1. /\ m \in Nat /\ Len(u) = 3 * m /\ InBlock(t, u, <<>>) /\ Count(t) = 4 * m
      /\ InBlock(Bare(t), u, <<>>) /\ Count(Bare(t)) = 4 * m /\ Len(Bare(t)) = 4 * m
  BY Zenon DEF Whole, FrontOf
<1>2. Forgives(Bare(t), u)
  BY <1>1, ForgivingWhole
<1>3. ASSUME u # <<>>
      PROVE  /\ DecodeEx(t).rc = 0 /\ DecodeEx(t).dst = u
             /\ Decode(t, Len(u) + 2) = [rc |-> 0, dst |-> u]
  <2>1. u \in Seq(Octets)
    BY <1>1, Zenon DEF InBlock
  <2>2. Len(u) # 0
    BY <1>3, <2>1
  <2>3. m # 0 /\ Len(u) + 2 \in Int /\ 3 * m <= Len(u) + 2
    BY <1>1, <2>2
  <2>4. Yields(t, u)
    BY <1>1, BlockYields
  <2>5. QED
    BY <1>1, <2>3, <2>4, YieldsDecode, Zenon
<1>4. QED
  BY <1>2, <1>3, Zenon DEF Back

(* A block that is not whole behind m that are.                            *)
LEMMA BackRest ==
  ASSUME NEW t, NEW u, NEW m, Whole(t, u, m), NEW q, NEW e, NEW v, RestOf(q, e, v),
         NEW s, Yields(s, u \o v), Count(s) = Count(t) + 4, Bare(s) = Bare(t) \o e
  PROVE  Back(s, u \o v)
<1> DEFINE d == u \o v
           w == Bare(t)
           n == Len(v)
<1>1. /\ m \in Nat /\ Len(u) = 3 * m /\ Count(t) = 4 * m
      /\ InBlock(w, u, <<>>) /\ FrontOf(w, u, m)
  BY Zenon DEF Whole, FrontOf
<1>2. u \in Seq(Octets) /\ v \in Seq(Octets)
  BY <1>1, Zenon DEF InBlock, Yields, RestOf
<1>3. Len(d) = 3 * m + n
  <2>1. Len(d) = Len(u) + Len(v)
    BY <1>2, ConcatProperties, Zenon
  <2>2. QED
    BY <1>1, <2>1, Zenon
<1> HIDE DEF w, d
<1>4. Forgives(w \o e, d)
  <2>1. d = u \o v
    BY DEF d
  <2>2. QED
    BY <1>1, <2>1, ForgivingRest
<1>5. /\ m + 1 \in Nat /\ m + 1 # 0 /\ 4 * m + 4 = 4 * (m + 1)
      /\ Len(d) + 2 \in Int /\ 3 * (m + 1) <= Len(d) + 2
  <2>1. \A i \in Nat : \A j \in {1, 2} :
          /\ i + 1 \in Nat /\ i + 1 # 0 /\ 4 * i + 4 = 4 * (i + 1)
          /\ (3 * i + j) + 2 \in Int /\ 3 * (i + 1) <= (3 * i + j) + 2
    OBVIOUS
  <2>2. n \in {1, 2}
    BY DEF RestOf
  <2> HIDE DEF n
  <2>3. QED
    BY <1>1, <1>3, <2>1, <2>2, Zenon
<1>6. Yields(s, d) /\ Count(s) = 4 * (m + 1)
  BY <1>1, <1>5, Zenon DEF d
<1> HIDE DEF n
<1>7. /\ Decode(s, Len(d) + 2) = [rc |-> 0, dst |-> d]
      /\ DecodeEx(s).rc = 0 /\ DecodeEx(s).dst = d
  BY <1>5, <1>6, YieldsDecode
<1>8. Bare(s) = w \o e
  BY Zenon DEF w
<1>9. QED
  BY <1>4, <1>7, <1>8, Zenon DEF Back, d

LEMMA BackOne ==
  ASSUME NEW t, NEW u, NEW m, Whole(t, u, m), NEW x \in Octets
  PROVE  Back(Append(With4(t, Six1(x), Six2(x, 0), Pad, Pad), LF), u \o <<x>>)
<1> DEFINE a == Six1(x)
           b == Six2(x, 0)
           s == With4(t, a, b, Pad, Pad)
           q == With4(<<>>, a, b, Pad, Pad)
           e == <<a, b>>
           v == <<x>>
           r == Append(s, LF)
<1>1. a \in Sextets /\ b \in Sextets /\ a \in Codes /\ b \in Codes
  <2>1. 0 \in Octets
    BY DEF Octets
  <2>2. a \in Sextets /\ b \in Sextets
    BY <2>1, QuadBack
  <2>3. QED
    BY <2>2, Characters, Zenon
<1>2. t \in Seq(Codes) /\ InBlock(t, u, <<>>) /\ u \in Seq(Octets)
  BY Zenon DEF Whole, FrontOf, InBlock
<1>3. Yields(s, u \o v) /\ Yields(q, v)
  <2>1. Yields(s, u \o v)
    BY <1>2, TwoLeft
  <2>2. Yields(q, <<>> \o v)
    BY InBlockNothing, TwoLeft
  <2>3. <<>> \o v = v
    <3> HIDE DEF Octets
    <3>1. QED
      OBVIOUS
  <2>4. QED
    BY <2>1, <2>2, <2>3, Zenon
<1> HIDE DEF a, b
<1>4. s \in Seq(Codes) /\ Count(s) = Count(t) + 4 /\ Bare(s) = Append(Append(Bare(t), a), b)
  BY <1>1, <1>2, TwoAdd
<1>5. Count(q) = 4
  <2>1. <<>> \in Seq(Codes)
    BY InBlockNothing, Zenon DEF InBlock
  <2>2. Count(q) = Count(<<>>) + 4
    BY <1>1, <2>1, TwoAdd
  <2>3. QED
    BY <2>2, NothingToDecode
<1>6. q = SubSeq(e \o <<Pad, Pad, Pad>>, 1, 4) /\ e \in Seq(Codes) /\ Len(e) = 2
  BY <1>1, PaddedUp, Zenon
<1>7. RestOf(q, e, v)
  <2>1. Len(v) = 1 /\ 1 \in {1, 2} /\ 1 + 1 = 2
    OBVIOUS
  <2> HIDE DEF q, e, v
  <2>2. QED
    BY <1>3, <1>5, <1>6, <2>1, Zenon DEF RestOf, e
<1> HIDE DEF s, q, v
<1>8. Yields(r, u \o v)
  BY <1>3, YieldsLine
<1>9. Count(r) = Count(t) + 4 /\ Bare(r) = Bare(t) \o e
  <2>1. Bare(t) \in Seq(Codes)
    BY <1>2, Adds
  <2>2. Bare(t) \o e = Append(Append(Bare(t), a), b)
    <3> DEFINE w == Bare(t)
    <3>1. w \in Seq(Codes)
      BY <2>1
    <3> HIDE DEF w
    <3>2. w \o e = Append(Append(w, a), b)
      BY <1>1, <3>1, PairBehind
    <3>3. QED
      BY <3>2, Zenon DEF w
  <2>3. Count(r) = Count(s) /\ Bare(r) = Bare(s)
    BY <1>4, Adds
  <2>4. QED
    BY <1>4, <2>2, <2>3, Zenon
<1> HIDE DEF r, e
<1>10. Back(r, u \o v)
  BY <1>7, <1>8, <1>9, BackRest
<1>11. QED
  BY <1>10, Zenon DEF r, s, v, a, b

LEMMA BackTwo ==
  ASSUME NEW t, NEW u, NEW m, Whole(t, u, m), NEW x \in Octets, NEW y \in Octets
  PROVE  Back(Append(With4(t, Six1(x), Six2(x, y), Six3(y, 0), Pad), LF), u \o <<x, y>>)
<1> DEFINE a == Six1(x)
           b == Six2(x, y)
           c == Six3(y, 0)
           s == With4(t, a, b, c, Pad)
           q == With4(<<>>, a, b, c, Pad)
           e == <<a, b, c>>
           v == <<x, y>>
           r == Append(s, LF)
<1>1. /\ a \in Sextets /\ b \in Sextets /\ c \in Sextets
      /\ a \in Codes /\ b \in Codes /\ c \in Codes
  <2>1. 0 \in Octets
    BY DEF Octets
  <2>2. a \in Sextets /\ b \in Sextets /\ c \in Sextets
    BY <2>1, QuadBack
  <2>3. QED
    BY <2>2, Characters, Zenon
<1>2. t \in Seq(Codes) /\ InBlock(t, u, <<>>) /\ u \in Seq(Octets)
  BY Zenon DEF Whole, FrontOf, InBlock
<1>3. Yields(s, u \o v) /\ Yields(q, v)
  <2>1. Yields(s, u \o v)
    BY <1>2, ThreeLeft
  <2>2. Yields(q, <<>> \o v)
    BY InBlockNothing, ThreeLeft
  <2>3. <<>> \o v = v
    <3>1. v \in Seq(Octets)
      <4> HIDE DEF Octets
      <4>1. QED
        OBVIOUS
    <3> HIDE DEF v
    <3>2. QED
      BY <3>1
  <2>4. QED
    BY <2>1, <2>2, <2>3, Zenon
<1> HIDE DEF a, b, c
<1>4. s \in Seq(Codes) /\ Count(s) = Count(t) + 4 /\ Bare(s) = Append(Append(Append(Bare(t), a), b), c)
  BY <1>1, <1>2, ThreeAdd
<1>5. Count(q) = 4
  <2>1. <<>> \in Seq(Codes)
    BY InBlockNothing, Zenon DEF InBlock
  <2>2. Count(q) = Count(<<>>) + 4
    BY <1>1, <2>1, ThreeAdd
  <2>3. QED
    BY <2>2, NothingToDecode
<1>6. q = SubSeq(e \o <<Pad, Pad, Pad>>, 1, 4) /\ e \in Seq(Codes) /\ Len(e) = 3
  BY <1>1, PaddedUp, Zenon
<1>7. RestOf(q, e, v)
  <2>1. Len(v) = 2 /\ 2 \in {1, 2} /\ 2 + 1 = 3
    OBVIOUS
  <2> HIDE DEF q, e, v
  <2>2. QED
    BY <1>3, <1>5, <1>6, <2>1, Zenon DEF RestOf, e
<1> HIDE DEF s, q, v
<1>8. Yields(r, u \o v)
  BY <1>3, YieldsLine
<1>9. Count(r) = Count(t) + 4 /\ Bare(r) = Bare(t) \o e
  <2>1. Bare(t) \in Seq(Codes)
    BY <1>2, Adds
  <2>2. Bare(t) \o e = Append(Append(Append(Bare(t), a), b), c)
    <3> DEFINE w == Bare(t)
    <3>1. w \in Seq(Codes)
      BY <2>1
    <3> HIDE DEF w
    <3>2. w \o e = Append(Append(Append(w, a), b), c)
      BY <1>1, <3>1, PairBehind
    <3>3. QED
      BY <3>2, Zenon DEF w
  <2>3. Count(r) = Count(s) /\ Bare(r) = Bare(s)
    BY <1>4, Adds
  <2>4. QED
    BY <1>4, <2>2, <2>3, Zenon
<1> HIDE DEF r, e
<1>10. Back(r, u \o v)
  BY <1>7, <1>8, <1>9, BackRest
<1>11. QED
  BY <1>10, Zenon DEF r, s, v, a, b, c

LEMMA LineBehind ==
  ASSUME NEW t \in Seq(Codes)
  PROVE  t \o <<LF>> = Append(t, LF) /\ t \o <<>> = t
<1>1. LF \in Codes
  BY Characters
<1> HIDE DEF Codes
<1>2. t \o <<LF>> = Append(t, LF) /\ t \o <<>> = t
  BY <1>1
<1>3. QED
  BY <1>2

(* One byte is left, or two.                                               *)
LEMMA OneLeft ==
  ASSUME NEW s \in Seq(Octets), NEW k \in Nat, k + 1 = Len(s)
  PROVE  s = SubSeq(s, 1, k) \o <<s[k + 1]>>
<1>1. k <= Len(s)
  BY LenProperties
<1>2. QED
  BY <1>1, SomeMore

LEMMA LastTwo ==
  ASSUME NEW s \in Seq(Octets), NEW k \in Nat, k + 2 = Len(s)
  PROVE  s = SubSeq(s, 1, k) \o <<s[k + 1], s[k + 2]>>
<1>1. k <= Len(s)
  BY LenProperties
<1>2. QED
  BY <1>1, SomeMore

LEMMA FourBehind ==
  ASSUME NEW t \in Seq(Codes), NEW a \in Codes, NEW b \in Codes, NEW c \in Codes, NEW d \in Codes
  PROVE  t \o <<a, b, c, d>> = With4(t, a, b, c, d)
<1> HIDE DEF Codes
<1>1. t \o <<a, b, c, d>> = Append(Append(Append(Append(t, a), b), c), d)
  OBVIOUS
<1>2. QED
  BY <1>1, Zenon DEF With4

LEMMA PadsBehind ==
  ASSUME NEW t \in Seq(Codes), NEW a \in Codes, NEW b \in Codes, NEW c \in Codes
  PROVE  /\ t \o (<<a, b>> \o <<Pad, Pad>>) = With4(t, a, b, Pad, Pad)
         /\ t \o (<<a, b, c>> \o <<Pad>>) = With4(t, a, b, c, Pad)
<1>1. Pad \in Codes
  BY Characters
<1>2. /\ <<a, b>> \in Seq(Codes) /\ <<a, b, c>> \in Seq(Codes)
      /\ <<Pad>> \in Seq(Codes) /\ <<Pad, Pad>> \in Seq(Codes)
  <2> HIDE DEF Codes, Pad
  <2>1. QED
    BY <1>1
<1>3. \A p, q \in Seq(Codes) : t \o (p \o q) = (t \o p) \o q
  <2> HIDE DEF Codes
  <2>1. QED
    BY ConcatAssociative
<1>4. /\ t \o <<a, b>> = Append(Append(t, a), b)
      /\ t \o <<a, b, c>> = Append(Append(Append(t, a), b), c)
  BY PairBehind
<1>5. \A w \in Seq(Codes) : w \o <<Pad>> = Append(w, Pad)
                           /\ w \o <<Pad, Pad>> = Append(Append(w, Pad), Pad)
  <2> HIDE DEF Codes, Pad
  <2>1. QED
    BY <1>1
<1>6. t \o <<a, b>> \in Seq(Codes) /\ t \o <<a, b, c>> \in Seq(Codes)
  BY <1>4, CharsOf
<1>7. QED
  BY <1>2, <1>3, <1>4, <1>5, <1>6, Zenon DEF With4

(* What base64_encode has written is whole blocks of the bytes it has done *)
(* with, and in the end reads back as all of them.                         *)
Coded ==
  stage \in {"call", "loop"} =>
    /\ src \in Seq(Octets) /\ in \in Nat /\ in <= Len(src)
    /\ \E m : Whole(out, SubSeq(src, 1, in), m)

CodedInv == Coded /\ (stage = "encoded" => Back(out, src))

LEMMA CodedInit == CodecInit => CodedInv
<1> SUFFICES ASSUME CodecInit PROVE CodedInv
  OBVIOUS
<1>1. stage # "encoded" /\ stage # "loop"
  BY DEF CodecInit
<1>2. ASSUME stage = "call"
      PROVE  /\ src \in Seq(Octets) /\ in \in Nat /\ in <= Len(src)
             /\ Whole(out, SubSeq(src, 1, in), 0)
  <2>1. src \in Seq(Octets) /\ in = 0 /\ out = <<>>
    BY <1>2, Base64Assumption DEF CodecInit, Octets
  <2>2. 0 \in Nat /\ 0 <= Len(src)
    BY <2>1, LenProperties
  <2>3. SubSeq(src, 1, 0) = <<>>
    <3> HIDE DEF Octets
    <3>1. QED
      BY <2>1
  <2>4. QED
    BY <2>1, <2>2, <2>3, WholeNothing, Zenon
<1>3. Coded
  BY <1>1, <1>2, Zenon DEF Coded
<1>4. QED
  BY <1>1, <1>3, Zenon DEF CodedInv

(* A turn of the loop.                                                     *)
LEMMA CodedBlock == CodedInv /\ EncodeBlock => CodedInv'
<1> SUFFICES ASSUME CodedInv, EncodeBlock PROVE CodedInv'
  OBVIOUS
<1> DEFINE u == SubSeq(src, 1, in)
           x == src[in + 1]
           y == src[in + 2]
           z == src[in + 3]
           s == With4(out, Six1(x), Six2(x, y), Six3(y, z), Six4(z))
           v == SubSeq(src, 1, in + 3)
<1>1. /\ stage = "loop" /\ stage' = "loop" /\ src' = src /\ in' = in + 3
      /\ Len(src) - in >= 3
  BY DEF EncodeBlock, Rest
<1>2. src \in Seq(Octets) /\ in \in Nat /\ in <= Len(src)
  BY <1>1, Zenon DEF CodedInv, Coded
<1>3. PICK m : Whole(out, u, m)
  BY <1>1, Zenon DEF CodedInv, Coded
<1>4. Len(src) \in Nat
  BY <1>2, LenProperties
<1>5. in + 3 \in Nat /\ in + 3 <= Len(src) /\ in + 2 <= Len(src) /\ in + 1 <= Len(src)
  BY <1>1, <1>2, <1>4
<1>6. x \in Octets /\ y \in Octets /\ z \in Octets /\ v = u \o <<x, y, z>>
  BY <1>2, <1>5, SomeMore, Zenon
<1>7. \/ out' = out \o Quad(x, y, z) \o <<LF>>
      \/ out' = out \o Quad(x, y, z) \o <<>>
  BY Zenon DEF EncodeBlock, Byte
<1> HIDE DEF u, x, y, z, v
<1>8. out \in Seq(Codes)
  BY <1>3, Zenon DEF Whole, InBlock
<1>9. Whole(s, v, m + 1)
  BY <1>3, <1>6, WholeGrows, Zenon
<1>10. out \o Quad(x, y, z) = s
  <2>1. /\ Six1(x) \in Codes /\ Six2(x, y) \in Codes /\ Six3(y, z) \in Codes
        /\ Six4(z) \in Codes
    BY <1>6, QuadBack, Characters, Zenon
  <2>2. Quad(x, y, z) = <<Six1(x), Six2(x, y), Six3(y, z), Six4(z)>>
    BY <1>6, QuadIs, Zenon
  <2> DEFINE a == Six1(x)
             b == Six2(x, y)
             c == Six3(y, z)
             d == Six4(z)
  <2>3. a \in Codes /\ b \in Codes /\ c \in Codes /\ d \in Codes
    BY <2>1, Zenon
  <2>4. Quad(x, y, z) = <<a, b, c, d>> /\ s = With4(out, a, b, c, d)
    BY <2>2, Zenon
  <2> HIDE DEF a, b, c, d, s
  <2>5. out \o <<a, b, c, d>> = With4(out, a, b, c, d)
    BY <1>8, <2>3, FourBehind
  <2>6. QED
    BY <2>4, <2>5, Zenon
<1> HIDE DEF s
<1>11. s \in Seq(Codes)
  BY <1>9, Zenon DEF Whole, InBlock
<1>12. s \o <<LF>> = Append(s, LF) /\ s \o <<>> = s
  BY <1>11, LineBehind, Zenon
<1>13. Whole(out', v, m + 1)
  <2>1. Whole(Append(s, LF), v, m + 1)
    BY <1>9, WholeLine
  <2>2. QED
    BY <1>7, <1>9, <1>10, <1>12, <2>1, Zenon
<1>14. \E n : Whole(out', SubSeq(src', 1, in'), n)
  BY <1>1, <1>13, Zenon DEF v
<1>15. Coded'
  BY <1>1, <1>2, <1>5, <1>14, Zenon DEF Coded
<1>16. QED
  BY <1>1, <1>15, Zenon DEF CodedInv

(* The end, for each number of bytes that may be left.                     *)
LEMMA CodedTail == CodedInv /\ EncodeTail => CodedInv'
<1> SUFFICES ASSUME CodedInv, EncodeTail PROVE CodedInv'
  OBVIOUS
<1> DEFINE u == SubSeq(src, 1, in)
           x == src[in + 1]
           y == src[in + 2]
<1>1. stage = "loop" /\ stage' = "encoded" /\ src' = src /\ Rest < 3
  BY DEF EncodeTail
<1>2. src \in Seq(Octets) /\ in \in Nat /\ in <= Len(src)
  BY <1>1, Zenon DEF CodedInv, Coded
<1>3. PICK m : Whole(out, u, m)
  BY <1>1, Zenon DEF CodedInv, Coded
<1>4. out \in Seq(Codes) /\ LF \in Codes
  BY <1>3, Characters, Zenon DEF Whole, InBlock
<1>5. \/ out' = out \o LastQuad \o <<LF>>
      \/ Rest = 0 /\ out' = out \o LastQuad \o <<>>
  <2>1. Rest \in Nat
    BY <1>2, LenProperties DEF Rest
  <2>2. Rest > 0 \/ Rest = 0
    BY <2>1
  <2>3. QED
    BY <2>2, Zenon DEF EncodeTail
<1>6. Rest = 0 \/ Rest = 1 \/ Rest = 2
  BY <1>1, <1>2, LenProperties DEF Rest
<1>7. ~(1 = 0) /\ ~(2 = 0) /\ ~(2 = 1) /\ ~(0 = 1) /\ ~(0 = 2) /\ ~(1 = 2)
  OBVIOUS
<1>8. CASE Rest = 0
  <2>1. in = Len(src)
    BY <1>2, <1>8, LenProperties DEF Rest
  <2>2. u = src
    BY <1>2, <2>1, SomeMore, Zenon
  <2>3. LastQuad = <<>>
    BY <1>7, <1>8 DEF LastQuad
  <2>4. out \o <<>> = out /\ out \o <<LF>> = Append(out, LF)
    BY <1>4, LineBehind, Zenon
  <2>5. out' = out \/ out' = Append(out, LF)
    BY <1>5, <2>3, <2>4, Zenon
  <2>6. Whole(out', src, m)
    <3>1. Whole(Append(out, LF), u, m)
      BY <1>3, WholeLine
    <3>2. QED
      BY <1>3, <2>2, <2>5, <3>1, Zenon
  <2>7. Back(out', src)
    BY <2>6, BackWhole
  <2>8. QED
    BY <1>1, <2>7, Zenon DEF CodedInv, Coded
<1>9. CASE Rest = 1
  <2> DEFINE a == Six1(x)
             b == Six2(x, 0)
             s == With4(out, a, b, Pad, Pad)
  <2>1. in + 1 = Len(src) /\ in + 1 <= Len(src)
    BY <1>2, <1>9, LenProperties DEF Rest
  <2>2. x \in Octets /\ src = u \o <<x>>
    <3>1. x \in Octets
      BY <1>2, <2>1, SomeMore, Zenon
    <3>2. src = u \o <<x>>
      BY <1>2, <2>1, OneLeft, Zenon
    <3>3. QED
      BY <3>1, <3>2
  <2>3. LastQuad = SubSeq(Quad(x, 0, 0), 1, 2) \o <<Pad, Pad>>
    BY <1>7, <1>9 DEF LastQuad, Byte
  <2>4. 0 \in Octets
    BY DEF Octets
  <2> HIDE DEF x, u
  <2>5. SubSeq(Quad(x, 0, 0), 1, 2) = <<a, b>>
    BY <2>2, <2>4, QuadIs, Zenon
  <2>6. a \in Codes /\ b \in Codes /\ Pad \in Codes
    BY <2>2, <2>4, QuadBack, Characters, Zenon
  <2> HIDE DEF a, b
  <2>7. out \o (<<a, b>> \o <<Pad, Pad>>) = s
    BY <1>4, <2>6, PadsBehind
  <2>8. out \o LastQuad = s
    BY <2>3, <2>5, <2>7, Zenon
  <2>9. s \in Seq(Codes)
    BY <1>4, <2>6, CharsOf DEF With4
  <2> HIDE DEF s
  <2>10. out' = Append(s, LF)
    <3>1. s \o <<LF>> = Append(s, LF)
      BY <2>9, LineBehind, Zenon
    <3>2. QED
      BY <1>5, <1>7, <1>9, <2>8, <3>1, Zenon
  <2>11. Back(Append(s, LF), u \o <<x>>)
    BY <1>3, <2>2, BackOne, Zenon DEF s, a, b
  <2>12. QED
    BY <1>1, <2>2, <2>10, <2>11, Zenon DEF CodedInv, Coded
<1>10. CASE Rest = 2
  <2> DEFINE a == Six1(x)
             b == Six2(x, y)
             c == Six3(y, 0)
             s == With4(out, a, b, c, Pad)
  <2>1. in + 2 = Len(src) /\ in + 2 <= Len(src) /\ in + 1 <= Len(src)
    BY <1>2, <1>10, LenProperties DEF Rest
  <2>2. x \in Octets /\ y \in Octets /\ src = u \o <<x, y>>
    <3>1. x \in Octets
      BY <1>2, <2>1, SomeMore, Zenon
    <3>2. y \in Octets
      BY <1>2, <2>1, SomeMore, Zenon
    <3>3. src = u \o <<x, y>>
      BY <1>2, <2>1, LastTwo, Zenon
    <3>4. QED
      BY <3>1, <3>2, <3>3
  <2>3. LastQuad = SubSeq(Quad(x, y, 0), 1, 3) \o <<Pad>>
    BY <1>7, <1>10 DEF LastQuad, Byte
  <2>4. 0 \in Octets
    BY DEF Octets
  <2> HIDE DEF x, y, u
  <2>5. SubSeq(Quad(x, y, 0), 1, 3) = <<a, b, c>>
    BY <2>2, <2>4, QuadIs, Zenon
  <2>6. a \in Codes /\ b \in Codes /\ c \in Codes /\ Pad \in Codes
    BY <2>2, <2>4, QuadBack, Characters, Zenon
  <2> HIDE DEF a, b, c
  <2>7. out \o (<<a, b, c>> \o <<Pad>>) = s
    BY <1>4, <2>6, PadsBehind
  <2>8. out \o LastQuad = s
    BY <2>3, <2>5, <2>7, Zenon
  <2>9. s \in Seq(Codes)
    BY <1>4, <2>6, CharsOf DEF With4
  <2> HIDE DEF s
  <2>10. out' = Append(s, LF)
    <3>1. s \o <<LF>> = Append(s, LF)
      BY <2>9, LineBehind, Zenon
    <3>2. QED
      BY <1>5, <1>7, <1>10, <2>8, <3>1, Zenon
  <2>11. Back(Append(s, LF), u \o <<x, y>>)
    BY <1>3, <2>2, BackTwo, Zenon DEF s, a, b, c
  <2>12. QED
    BY <1>1, <2>2, <2>10, <2>11, Zenon DEF CodedInv, Coded
<1>11. QED
  BY <1>6, <1>8, <1>9, <1>10

LEMMA CodedStep == CodedInv /\ [CodecNext]_codecVars => CodedInv'
<1> SUFFICES ASSUME CodedInv, [CodecNext]_codecVars PROVE CodedInv'
  OBVIOUS
<1>1. CASE Call
  <2>1. /\ stage = "call" /\ stage' # "encoded"
        /\ src' = src /\ in' = in /\ out' = out
    BY <1>1 DEF Call
  <2>2. QED
    BY <2>1, Zenon DEF CodedInv, Coded
<1>2. CASE EncodeBlock
  BY <1>2, CodedBlock
<1>3. CASE EncodeTail
  BY <1>3, CodedTail
<1>4. CASE UNCHANGED codecVars
  BY <1>4, Zenon DEF CodedInv, Coded, codecVars
<1>5. QED
  BY <1>1, <1>2, <1>3, <1>4 DEF CodecNext

LEMMA CodedReadsBack == CodedInv => DecodesBack
BY Zenon DEF CodedInv, DecodesBack, Back, Forgives, Blank

(* All three decoders give back what base64_encode wrote, whatever it was  *)
(* given: base64_decode_ex, base64_decode with the room it asks for, and   *)
(* base64_decode_forgiving also without newlines and padding, but for a    *)
(* text of fewer than four characters, where it returns unwritten bytes.   *)
THEOREM EncodingReadsBack == CodecSpec => []DecodesBack
<1>1. CodecSpec => []CodedInv
  BY CodedInit, CodedStep, PTL DEF CodecSpec
<1>2. QED
  BY <1>1, CodedReadsBack, PTL
=============================================================================
