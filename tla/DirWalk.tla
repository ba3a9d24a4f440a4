------------------------------ MODULE DirWalk -------------------------------
(***************************************************************************)
(* filesystem_recursedirectories (src/filesystem.c).  The recursion shares *)
(* one path buffer of FILESYSTEM_PATH_MAXLEN bytes, into which each level  *)
(* puts its entries' names and from which it cuts them again, while other  *)
(* processes may remove directories.  A path is the sequence of the names  *)
(* behind the one the caller gave; a '/' at its end has NoName behind it.  *)
(***************************************************************************)
EXTENDS Integers, SequencesExt

CONSTANTS
  Root, Dirs,    \* the directories
  Listings,      \* per directory, its entries in readdir's order
  RootLens, NameLen,   \* lengths in bytes
  PATH_MAXLEN,
  Stop,          \* what the callback returns to end the walk
  Running, Leftover, NoName,
  MaxGone        \* bound: directories that other processes remove

(* What an entry can be called, and what can be left of one.               *)
Names == Dirs \cup {Leftover, NoName} \cup UNION {UNION {ToSet(l[d]) : d \in Dirs} : l \in Listings}

(* The path that is given fits the buffer, also with a '/' at its end; no  *)
(* directory is below itself: there are as many levels as directories.     *)
ASSUME DirWalkAssumption ==
  /\ Root \in Dirs /\ IsFiniteSet(Dirs)
  /\ PATH_MAXLEN \in Nat /\ RootLens \subseteq 0..(PATH_MAXLEN - 2)
  /\ NameLen \in [Names -> Nat] /\ NameLen[NoName] = 0
  /\ Running \notin {0, -1} /\ Stop \notin {0, Running}
  /\ Listings \subseteq [Dirs -> Seq(Names)]
  /\ \A l \in Listings : \E depth \in [Dirs -> 0..Cardinality(Dirs)] :
       \A d, e \in Dirs : e \in ToSet(l[d]) => depth[d] < depth[e]

VARIABLES
  listing, rootLen,   \* the tree and the path the caller gives
  path,      \* the buffer
  frames,    \* per active call, what readdir has not given yet, and path_pos
             \* of the caller, to which that cuts
  rc,        \* what the innermost call returns, Running until it does
  visits,    \* what the callback was given
  gone,      \* directories that are no longer there
  uncut,     \* history: the levels at which a name was left in the path
  struck     \* history: the byte in front of the buffer was overwritten

given    == <<listing, rootLen>>
walkVars == <<given, path, frames, rc, visits, gone, uncut, struck>>

(* Before the call.                                                        *)
WalkInit ==
  /\ listing \in Listings /\ rootLen \in RootLens
  /\ path \in {<<>>, <<NoName>>}
  /\ frames = <<>> /\ rc = Running
  /\ visits = <<>> /\ gone = {} /\ uncut = {} /\ struck = FALSE

(* A '/' at the end is cut off, for good.  Of an empty path the byte in    *)
(* front of it is looked at instead, which may be one.  Then opendir, which*)
(* fails for an empty path and may for others.  (The recursive calls find  *)
(* a name at the end, and nothing to cut.)                                 *)
WalkStart ==
  /\ frames = <<>> /\ rc = Running
  /\ path' = <<>>
  /\ struck' \in IF rootLen = 0 /\ path = <<>> THEN BOOLEAN ELSE {FALSE}
  /\ \/ rootLen > 0 /\ frames' = <<[todo |-> listing[Root], pos |-> 0]>> /\ rc' = rc
     \/ frames' = frames /\ rc' = -1
  /\ UNCHANGED <<given, visits, gone, uncut>>

Level == Len(frames)
Top   == frames[Level]
Entry == Head(Top.todo)
Full  == Append(path, Entry)

(* Loop: the walk goes on with the next entry, which is taken.             *)
AtEntry == frames # <<>> /\ rc = Running /\ Top.todo # <<>>
Taken   == [frames EXCEPT ![Level].todo = Tail(@)]

(* strlen of the buffer.                                                   *)
PathLen(p) == rootLen + FoldLeft(LAMBDA n, c : n + 1 + NameLen[c], 0, p)

(* p leads to a directory.                                                 *)
Leads(p) ==
  \A i \in 1..Len(p) :
    p[i] \in ToSet(listing[IF i = 1 THEN Root ELSE p[i - 1]]) /\ p[i] \in Dirs \ gone

(* lstat, then the recursive call with opendir, which may fail.            *)
EnterDir ==
  /\ AtEntry /\ Entry \in Dirs /\ Leads(Full)
  /\ \/ /\ path' = Full
        /\ frames' = Append(Taken, [todo |-> listing[Entry], pos |-> Len(path)])
        /\ rc' = rc
     \/ path' = path /\ frames' = Taken /\ rc' = -1
  /\ UNCHANGED <<given, visits, gone, uncut, struck>>

(* lstat fails, or finds a link instead: continue, without a cut.          *)
Vanished ==
  /\ AtEntry /\ Entry \in Dirs /\ ~Leads(Full)
  /\ path' = Full
  /\ frames' = Taken
  /\ uncut' = uncut \cup {Level}
  /\ UNCHANGED <<given, rc, visits, gone, struck>>

(* Slip: the '/' and the terminator are not counted.                       *)
TooLong_NamesOnly(p) == PathLen(p) - 1 >= PATH_MAXLEN

TooLong(p) == PathLen(p) + 1 >= PATH_MAXLEN

(* Any other entry: the callback, if the path fits.  If not, the '/' that  *)
(* is already written has joined the path with what stood behind its end.  *)
VisitFile ==
  /\ AtEntry /\ Entry \notin Dirs
  /\ frames' = Taken
  /\ IF TooLong(Full)
     THEN /\ path' = Append(path, Leftover) /\ rc' = -1
          /\ uncut' = uncut \cup {Level}
          /\ visits' = visits
     ELSE /\ visits' = Append(visits, Full) /\ rc' \in {Running, Stop}
          /\ UNCHANGED <<path, uncut>>
  /\ UNCHANGED <<given, gone, struck>>

EndOfDir ==
  /\ frames # <<>> /\ rc = Running /\ Top.todo = <<>>
  /\ rc' = 0
  /\ UNCHANGED <<given, path, frames, visits, gone, uncut, struck>>

(* Slip: a level that failed returns before the cut.                       *)
CutTo_OnSuccess(pos) == IF rc = 0 THEN SubSeq(path, 1, pos) ELSE path

(* Slip: the last name is cut off, whatever has been left behind it.       *)
CutTo_LastName(pos) == SubSeq(path, 1, Len(path) - 1)

(* path_pos of the caller.                                                 *)
CutTo(pos) == SubSeq(path, 1, pos)

(* closedir; the caller cuts the name, then looks at the result.           *)
WalkReturn ==
  /\ frames # <<>> /\ rc # Running
  /\ frames' = SubSeq(frames, 1, Level - 1)
  /\ path' = IF Level = 1 THEN path ELSE CutTo(Top.pos)
  /\ rc' = IF Level > 1 /\ rc = 0 THEN Running ELSE rc
  /\ uncut' = IF Level = 1 THEN uncut ELSE uncut \ {Level}
  /\ UNCHANGED <<given, visits, gone, struck>>

(* Another process removes a directory.                                    *)
RemoveDir ==
  /\ frames # <<>> /\ Cardinality(gone) < MaxGone
  /\ \E d \in Dirs \ (gone \cup {Root}) : gone' = gone \cup {d}
  /\ UNCHANGED <<given, path, frames, rc, visits, uncut, struck>>

WalkNext ==
  \/ WalkStart \/ EnterDir \/ Vanished \/ VisitFile \/ EndOfDir \/ WalkReturn
  \/ RemoveDir

WalkSpec == WalkInit /\ [][WalkNext]_walkVars

-----------------------------------------------------------------------------

(* Per directory, the paths of the directories below it in a tree l, and   *)
(* those of the files, depth first.                                        *)
DirsBelow(l) ==
  LET dirs[d \in Dirs] ==
        UNION {{<<e>>} \cup {<<e>> \o p : p \in dirs[e]} : e \in ToSet(l[d]) \cap Dirs}
  IN  dirs

FilesBelow(l) ==
  LET files[d \in Dirs] ==
        FlattenSeq([i \in DOMAIN l[d] |->
          IF l[d][i] \in Dirs
          THEN [k \in DOMAIN files[l[d][i]] |-> <<l[d][i]>> \o files[l[d][i]][k]]
          ELSE <<<<l[d][i]>>>>])
  IN  files

Files   == FilesBelow(listing)[Root]
DirsFit == \A p \in DirsBelow(listing)[Root] : PathLen(p) < PATH_MAXLEN

(* The callback sees each file once, under its own path and in order, and  *)
(* a walk that returns 0 has shown them all.  When directories vanish, a   *)
(* path that leads nowhere names one of those.                             *)
ShowsTree ==
  /\ gone = {} => /\ IsPrefix(visits, Files)
                  /\ frames = <<>> /\ rc = 0 => visits = Files
  /\ \A v \in ToSet(visits) : v \in ToSet(Files) \/ \E d \in gone : d \in ToSet(v)

(* When the walk ends, the caller's path is as it was but for a '/' at its *)
(* end, which is cut and not put back.  So it is on every way out, unless  *)
(* the outermost level itself left a name in it: what inner levels leave   *)
(* is cut with them.                                                       *)
PathRestored == frames = <<>> /\ rc # Running /\ 1 \notin uncut => path = <<>>

(* The buffer is not overrun as long as no name stays in the path and the  *)
(* directories' own paths fit, which the code does not test; and nothing   *)
(* in front of it is written unless the path that was given was empty.     *)
BufferHolds ==
  /\ uncut = {} /\ DirsFit =>
       PathLen(path) < PATH_MAXLEN /\ \A v \in ToSet(visits) : PathLen(v) < PATH_MAXLEN
  /\ struck => rootLen = 0 /\ frames = <<>> /\ rc = -1
=============================================================================
