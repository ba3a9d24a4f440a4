----------------------------- MODULE FileStore ------------------------------
(***************************************************************************)
(* filesystem_saveramtofile and filesystem_loadintoram (src/filesystem.c)  *)
(* on one path, called by several processes at once, each of which may be  *)
(* killed between two system calls.  A step is a system call and what the  *)
(* function does until the next one.  The path leads to an inode or to     *)
(* nothing, and may be a symbolic link, dangling or not: open follows it,  *)
(* lstat and unlink do not.  An open file stays with its inode when the    *)
(* path is unlinked; nobody but these calls changes the path.              *)
(***************************************************************************)
EXTENDS Integers, Sequences

CONSTANTS Procs, Inodes, Bytes, None,
          Texts,        \* what the callers save
          LinkLens      \* what lstat gives as the size of a symbolic link

ASSUME FileStoreAssumption ==
  /\ Texts \subseteq Seq(Bytes)
  /\ LinkLens \subseteq Nat
  /\ None \notin Inodes \cup Seq(Bytes) \cup LinkLens

VARIABLES
  name,    \* the inode the path leads to, or None
  link,    \* if the path is a link, that link's own size, otherwise None
  disk,    \* contents of the inodes
  pc,      \* per process, the next system call
  fd,      \* its open file
  data,    \* the text it saves
  size,    \* its wrsz, or st_size
  loaded,  \* the text of the load that has just returned, or None
  alone,   \* history: no other process was saving during its call
  acked    \* history: what was saved last, if nothing was written since

calls     == <<pc, fd, data, size, alone>>
storeVars == <<name, link, disk, calls, loaded, acked>>

StoreInit ==
  /\ name = None /\ link \in LinkLens \cup {None}
  /\ disk = [i \in Inodes |-> <<>>]
  /\ pc = [p \in Procs |-> "idle"] /\ fd = [p \in Procs |-> None]
  /\ data = [p \in Procs |-> <<>>] /\ size = [p \in Procs |-> 0]
  /\ alone = [p \in Procs |-> FALSE]
  /\ loaded = None /\ acked = None

Saving(p) == pc[p] \in {"write", "close", "unlink"}
OthersSave(p) == \E q \in Procs \ {p} : Saving(q)

(* An inode that nothing leads to any more is given back.                  *)
Freed(d) == [i \in Inodes |-> IF i = name' \/ (\E q \in Procs : fd'[q] = i)
                              THEN d[i] ELSE <<>>]

(* The call of p goes on at l with its file closed; "idle": it returns.    *)
CloseAnd(p, l) ==
  /\ pc' = [pc EXCEPT ![p] = l]
  /\ fd' = [fd EXCEPT ![p] = None]
  /\ disk' = Freed(disk)

Forget(p) ==
  /\ data' = [data EXCEPT ![p] = <<>>]
  /\ size' = [size EXCEPT ![p] = 0]
  /\ alone' = [alone EXCEPT ![p] = FALSE]

-----------------------------------------------------------------------------
(* filesystem_saveramtofile.                                               *)

(* open with O_CREAT, also through a dangling link: from here on this      *)
(* process disturbs the others.                                            *)
SaveOpen(p, d) ==
  /\ pc[p] = "idle"
  /\ name' \in IF name = None THEN {i \in Inodes : \A q \in Procs : fd[q] # i} ELSE {name}
  /\ fd' = [fd EXCEPT ![p] = name']
  /\ pc' = [pc EXCEPT ![p] = "write"]
  /\ data' = [data EXCEPT ![p] = d]
  /\ alone' = [q \in Procs |-> q = p /\ ~OthersSave(p)]
  /\ loaded' = None
  /\ UNCHANGED <<link, disk, size, acked>>

(* The first n bytes of d over the beginning of c, the rest as it was.     *)
Overlay(c, d, n) ==
  [i \in 1..(IF n > Len(c) THEN n ELSE Len(c)) |-> IF i <= n THEN d[i] ELSE c[i]]

(* write: all of it, less when the disk is full, or -1.                    *)
SaveWrite(p) ==
  /\ pc[p] = "write"
  /\ \E n \in -1..Len(data[p]) :
       /\ size' = [size EXCEPT ![p] = n]
       /\ disk' = IF n = -1 THEN disk
                  ELSE [disk EXCEPT ![fd[p]] = Overlay(@, data[p], n)]
  /\ pc' = [pc EXCEPT ![p] = "close"]
  /\ acked' = None /\ loaded' = None
  /\ UNCHANGED <<name, link, fd, data, alone>>

(* Slip: only -1 counts as a failure.                                      *)
AllWritten_OrSome(p) == size[p] # -1

AllWritten(p) == size[p] = Len(data[p])

SaveClose(p) ==
  /\ pc[p] = "close"
  /\ UNCHANGED <<name, link>>
  /\ IF AllWritten(p)
     THEN /\ CloseAnd(p, "idle") /\ Forget(p)
          /\ acked' = IF alone[p] THEN data[p] ELSE acked
     ELSE CloseAnd(p, "unlink") /\ UNCHANGED <<data, size, alone, acked>>
  /\ loaded' = None

(* unlink goes by the path, whatever it names by now: of a link, the link. *)
SaveUnlink(p) ==
  /\ pc[p] = "unlink"
  /\ name' = None /\ link' = None
  /\ CloseAnd(p, "idle") /\ Forget(p)
  /\ loaded' = None
  /\ UNCHANGED acked

-----------------------------------------------------------------------------
(* filesystem_loadintoram.                                                 *)

(* st_size of lstat.                                                       *)
StatSize == IF link # None THEN link ELSE Len(disk[name])

LoadStat(p) ==
  /\ pc[p] = "idle" /\ (link # None \/ name # None)
  /\ size' = [size EXCEPT ![p] = StatSize]
  /\ pc' = [pc EXCEPT ![p] = "open"]
  /\ alone' = [alone EXCEPT ![p] = ~OthersSave(p)]
  /\ loaded' = None
  /\ UNCHANGED <<name, link, disk, fd, data, acked>>

LoadOpen(p) ==
  /\ pc[p] = "open" /\ name # None
  /\ fd' = [fd EXCEPT ![p] = name]
  /\ pc' = [pc EXCEPT ![p] = "read"]
  /\ loaded' = None
  /\ UNCHANGED <<name, link, disk, data, size, alone, acked>>

(* Slip: the byte for the terminator is taken off the size.                *)
ToRead_LessOne(p) == IF size[p] > 0 THEN size[p] - 1 ELSE 0

(* What is asked of read.                                                  *)
ToRead(p) == size[p]

Beginning(c, n) == SubSeq(c, 1, IF n > Len(c) THEN Len(c) ELSE n)

LoadRead(p) ==
  /\ pc[p] = "read"
  /\ loaded' = Beginning(disk[fd[p]], ToRead(p))
  /\ UNCHANGED <<name, link, acked>>
  /\ CloseAnd(p, "idle") /\ Forget(p)

(* A load fails (lstat, malloc, open or read), or the process is killed    *)
(* and another takes its place: its file is closed, nothing else is done.  *)
Stops(p) ==
  /\ pc[p] # "idle"
  /\ UNCHANGED <<name, link, acked>>
  /\ CloseAnd(p, "idle") /\ Forget(p)
  /\ loaded' = None

StoreNext ==
  \E p \in Procs :
    \/ (\E d \in Texts : SaveOpen(p, d)) \/ SaveWrite(p) \/ SaveClose(p) \/ SaveUnlink(p)
    \/ LoadStat(p) \/ LoadOpen(p) \/ LoadRead(p)
    \/ Stops(p)

StoreSpec == StoreInit /\ [][StoreNext]_storeVars

-----------------------------------------------------------------------------

StoreTypeOK ==
  /\ name \in Inodes \cup {None} /\ link \in LinkLens \cup {None}
  /\ disk \in [Inodes -> Seq(Bytes)]
  /\ pc \in [Procs -> {"idle", "write", "close", "unlink", "open", "read"}]
  /\ fd \in [Procs -> Inodes \cup {None}]
  /\ data \in [Procs -> Seq(Bytes)]
  /\ size \in [Procs -> Int]
  /\ alone \in [Procs -> BOOLEAN]
  /\ {loaded, acked} \subseteq Seq(Bytes) \cup {None}

Begins(d, c) == Len(d) <= Len(c) /\ \A i \in 1..Len(d) : c[i] = d[i]

(* What a process saved without another saving at the same time is in the  *)
(* file until somebody writes again, whatever calls have begun, failed or  *)
(* been killed since.  (What the file held before may follow it: it is not *)
(* cut.)                                                                   *)
AckedIsKept == acked # None => name # None /\ Begins(acked, disk[name])

(* A load during which nobody saved gives the file whole, although it asks *)
(* for the size, opens and reads in three steps, if the path is the file   *)
(* itself.  Through a link it gives as much of the file's beginning as the *)
(* link is long, and reports success.  No load gives more than it has      *)
(* allocated.                                                              *)
LoadsWhole ==
  [][\A p \in Procs :
       pc[p] = "read" /\ loaded' # None /\ pc'[p] = "idle" =>
         /\ Len(loaded') <= size[p]
         /\ alone[p] =>
              /\ name # None
              /\ loaded' = IF link = None THEN disk[name]
                           ELSE Beginning(disk[name], link)]_storeVars
=============================================================================
