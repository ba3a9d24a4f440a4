------------------------------ MODULE MC_Files ------------------------------
(***************************************************************************)
(* TLC instance of src/filesystem.c and src/timefn.c.  The file operations,*)
(* the walk, and the clock and dates share nothing: a behaviour is of one  *)
(* of them, while the others stand where they begin.                       *)
(***************************************************************************)
EXTENDS FileStore, DirWalk, TimeFn

CONSTANTS top, d1, d2, d3, f1, f2, f3, f4, f5, a, b

MC_Texts == {<<a>>, <<b, b>>}

(* d1 holds d3 and is read before or after other entries, d2 is empty.     *)
MC_Listings ==
  {(top :> t) @@ (d1 :> s) @@ (d3 :> <<f5>>) @@ (d2 :> <<>>) :
     t \in {<<f1, d1, f2, d2>>, <<d2, d1, f1, f2>>, <<f2, f1, d2, d1>>},
     s \in SetToSeqs({f3, d3, f4})}

MC_NameLen == (f5 :> 2) @@ (NoName :> 0) @@ [n \in Names |-> 1]

(* The ends of the years 0 and 9999, February and March of the years 0,    *)
(* 1970, 2000, 2020 and 2100, 19 January 2038; the ends of an hour, a day. *)
MC_Stamps ==
  {-719529, -719528, -719469, -719468, -1, 0, 58, 59, 10956, 10957, 11015, 11016, 11017,
   18320, 18321, 24855, 47540, 47541, 2932896, 2932897}
    \X {0, 1, 999, 1000, 3599999, 3600000, 43261001, 86399000, 86399999}

(* The first moment of each: of the file with a path that is no link, of   *)
(* the walk before the call.                                               *)
NoStore == StoreInit /\ link = None
NoWalk  == /\ frames = <<>> /\ rc = Running /\ path = <<>>
           /\ rootLen = Min(RootLens) /\ listing = CHOOSE l \in Listings : TRUE
NoTime  == clock = <<0, 0, 0, <<0, 0>>>> /\ stamp = <<0, 0>> /\ shown = <<>>

Init ==
  /\ StoreInit /\ WalkInit /\ TimeInit
  /\ (NoStore /\ NoWalk) \/ (NoStore /\ NoTime) \/ (NoWalk /\ NoTime)

Next ==
  \/ StoreNext /\ NoWalk /\ NoTime /\ UNCHANGED <<walkVars, timeVars>>
  \/ WalkNext /\ NoStore /\ NoTime /\ UNCHANGED <<storeVars, timeVars>>
  \/ /\ NoStore /\ NoWalk /\ TimeNext /\ UNCHANGED <<storeVars, walkVars>>
     /\ stamp = <<0, 0>> \/ UNCHANGED clock

Spec == Init /\ [][Next]_<<storeVars, walkVars, timeVars>>

Symmetry == Permutations(Procs) \cup Permutations(Inodes)
=============================================================================
